------------------------- MODULE NotificationProofs -------------------------
(***************************************************************************)
(* Proofs about Notification: for any number of failures, any sources and  *)
(* any local senders, a failure has one report at most and reports are not *)
(* reported.                                                               *)
(***************************************************************************)
EXTENDS Notification, SequenceTheorems, TLAPS

----------------------------------------------------------------------------
(* Sequences without repetition *)

\* An entry leaves an index.
LEMMA RemoveFacts ==
    ASSUME NEW S, NEW s \in Seq(S), IsInjective(s), NEW i \in 1..Len(s)
    PROVE  /\ RemoveAt(s, i) \in Seq(S) /\ Len(RemoveAt(s, i)) = Len(s) - 1
           /\ IsInjective(RemoveAt(s, i))
           /\ ToSet(RemoveAt(s, i)) = ToSet(s) \ {s[i]}
<1> DEFINE r == RemoveAt(s, i)
           front == SubSeq(s, 1, i - 1)
           back == SubSeq(s, i + 1, Len(s))
<1>a. Len(s) \in Nat /\ \A j \in 1..Len(s) : s[j] \in S
  OBVIOUS
<1>b. /\ front \in Seq(S) /\ Len(front) = i - 1
      /\ \A j \in 1..(i - 1) : front[j] = s[j]
  <2>1. \A j \in 1..(i - 1) : s[j] \in S
    BY <1>a
  <2>2. QED
    BY <1>a, <2>1, SubSeqProperties
<1>c. /\ back \in Seq(S) /\ Len(back) = Len(s) - i
      /\ \A j \in 1..(Len(s) - i) : back[j] = s[i + j]
  <2>1. \A j \in (i + 1)..Len(s) : s[j] \in S
    BY <1>a
  <2>2. /\ back \in Seq(S)
        /\ Len(back) = IF i + 1 <= Len(s) THEN Len(s) - (i + 1) + 1 ELSE 0
        /\ \A j \in 1..(Len(s) - (i + 1) + 1) : back[j] = s[(i + 1) + j - 1]
    BY <1>a, <2>1, SubSeqProperties
  <2> HIDE DEF back
  <2>3. \A j \in 1..(Len(s) - i) : (i + 1) + j - 1 = i + j /\ j \in 1..(Len(s) - (i + 1) + 1)
    BY <1>a
  <2>4. QED
    BY <1>a, <2>2, <2>3
<1>d. r = front \o back
  BY DEF RemoveAt
<1> HIDE DEF r, front, back
<1>e. /\ r \in Seq(S) /\ Len(r) = Len(front) + Len(back)
      /\ \A j \in 1..(Len(front) + Len(back)) :
             r[j] = IF j <= Len(front) THEN front[j] ELSE back[j - Len(front)]
  BY <1>b, <1>c, <1>d, ConcatProperties, ZenonT(40)
<1>1. r \in Seq(S) /\ Len(r) = Len(s) - 1
  BY <1>a, <1>b, <1>c, <1>e
<1>2. \A j \in 1..Len(r) : r[j] = IF j < i THEN s[j] ELSE s[j + 1]
  <2> SUFFICES ASSUME NEW j \in 1..Len(r)
               PROVE  r[j] = IF j < i THEN s[j] ELSE s[j + 1]
    OBVIOUS
  <2>1. j \in 1..(Len(front) + Len(back)) /\ Len(front) = i - 1 /\ j \in Nat
    BY <1>b, <1>c, <1>e
  <2>2. r[j] = IF j <= i - 1 THEN front[j] ELSE back[j - (i - 1)]
    BY <1>e, <2>1, ZenonT(40)
  <2>3. CASE j < i
    <3>1. j \in 1..(i - 1) /\ j <= i - 1
      BY <2>1, <2>3
    <3>2. QED
      BY <1>b, <2>3, <2>2, <3>1, ZenonT(40)
  <2>4. CASE j >= i
    <3>1. j - (i - 1) \in 1..(Len(s) - i) /\ i + (j - (i - 1)) = j + 1
      BY <1>1, <1>a, <2>4
    <3>2. back[j - (i - 1)] = s[j + 1]
      BY <1>c, <3>1, ZenonT(40)
    <3>3. r[j] = back[j - (i - 1)]
      BY <2>1, <2>4, <2>2
    <3>4. QED
      BY <2>4, <3>2, <3>3
  <2>5. QED
    BY <2>3, <2>4
<1>3. DOMAIN r = 1..Len(r) /\ DOMAIN s = 1..Len(s) /\ Len(s) \in Nat /\ Len(r) \in Nat
  BY <1>1
<1>4. IsInjective(r)
  <2> SUFFICES ASSUME NEW a \in 1..Len(r), NEW b \in 1..Len(r), r[a] = r[b]
               PROVE  a = b
    BY <1>3, ZenonT(40) DEF IsInjective
  <2>1. \A x, y \in 1..Len(s) : s[x] = s[y] => x = y
    BY <1>3, ZenonT(40) DEF IsInjective
  <2>2. a \in 1..Len(s) /\ b \in 1..Len(s) /\ a + 1 \in 1..Len(s) /\ b + 1 \in 1..Len(s)
    BY <1>1, <1>3
  <2>3. QED
    BY <1>2, <2>1, <2>2
<1>5. ToSet(r) \subseteq ToSet(s) \ {s[i]}
  <2> SUFFICES ASSUME NEW j \in 1..Len(r)
               PROVE  r[j] \in ToSet(s) \ {s[i]}
    BY <1>3, ZenonT(40) DEF ToSet
  <2>1. j \in 1..Len(s) /\ j + 1 \in 1..Len(s)
    BY <1>1, <1>3
  <2>2. QED
    BY <1>2, <1>3, <2>1 DEF ToSet, IsInjective
<1>6. ToSet(s) \ {s[i]} \subseteq ToSet(r)
  <2> SUFFICES ASSUME NEW j \in 1..Len(s), s[j] # s[i]
               PROVE  s[j] \in ToSet(r)
    BY <1>3, ZenonT(40) DEF ToSet
  <2>1. j # i
    OBVIOUS
  <2>2. CASE j < i
    <3>1. j \in 1..Len(r) /\ r[j] = s[j]
      BY <1>1, <1>2, <1>3, <2>2
    <3>2. QED
      BY <1>3, <3>1, ZenonT(40) DEF ToSet
  <2>3. CASE j > i
    <3>1. j - 1 \in 1..Len(r) /\ r[j - 1] = s[j]
      BY <1>1, <1>2, <1>3, <2>3
    <3>2. QED
      BY <1>3, <3>1, ZenonT(40) DEF ToSet
  <2>4. QED
    BY <2>1, <2>2, <2>3
<1>7. QED
  BY <1>1, <1>4, <1>5, <1>6, ZenonT(40) DEF r

\* An entry is put into an index.
LEMMA InsertFacts ==
    ASSUME NEW S, NEW s \in Seq(S), IsInjective(s), NEW e \in S, e \notin ToSet(s),
           NEW p \in 1..(Len(s) + 1)
    PROVE  /\ InsertAt(s, p, e) \in Seq(S) /\ Len(InsertAt(s, p, e)) = Len(s) + 1
           /\ IsInjective(InsertAt(s, p, e))
           /\ ToSet(InsertAt(s, p, e)) = ToSet(s) \cup {e}
<1> DEFINE r == InsertAt(s, p, e)
           front == SubSeq(s, 1, p - 1)
           back == SubSeq(s, p, Len(s))
<1>a. Len(s) \in Nat /\ \A j \in 1..Len(s) : s[j] \in S
  OBVIOUS
<1>b. /\ front \in Seq(S) /\ Len(front) = p - 1
      /\ \A j \in 1..(p - 1) : front[j] = s[j]
  <2>1. \A j \in 1..(p - 1) : s[j] \in S
    BY <1>a
  <2>2. QED
    BY <1>a, <2>1, SubSeqProperties
<1>c. /\ back \in Seq(S) /\ Len(back) = Len(s) - p + 1
      /\ \A j \in 1..(Len(s) - p + 1) : back[j] = s[p + j - 1]
  <2>1. \A j \in p..Len(s) : s[j] \in S
    BY <1>a
  <2>2. /\ back \in Seq(S)
        /\ Len(back) = IF p <= Len(s) THEN Len(s) - p + 1 ELSE 0
        /\ \A j \in 1..(Len(s) - p + 1) : back[j] = s[p + j - 1]
    BY <1>a, <2>1, SubSeqProperties
  <2> HIDE DEF back
  <2>3. QED
    BY <1>a, <2>2
<1>d. r = front \o <<e>> \o back
  BY DEF InsertAt
<1> HIDE DEF r, front, back
<1>e. <<e>> \in Seq(S) /\ Len(<<e>>) = 1 /\ <<e>>[1] = e
  OBVIOUS
<1> DEFINE left == front \o <<e>>
<1>f. /\ left \in Seq(S) /\ Len(left) = p
      /\ \A j \in 1..p : left[j] = IF j < p THEN s[j] ELSE e
  <2>1. /\ left \in Seq(S) /\ Len(left) = Len(front) + 1
        /\ \A j \in 1..(Len(front) + 1) :
               left[j] = IF j <= Len(front) THEN front[j] ELSE <<e>>[j - Len(front)]
    BY <1>b, <1>e, ConcatProperties, ZenonT(40)
  <2> HIDE DEF left
  <2>2. QED
    BY <1>b, <1>e, <2>1
<1> HIDE DEF left
<1>g. /\ r \in Seq(S) /\ Len(r) = Len(left) + Len(back)
      /\ \A j \in 1..(Len(left) + Len(back)) :
             r[j] = IF j <= Len(left) THEN left[j] ELSE back[j - Len(left)]
  <2>1. r = left \o back
    BY <1>d, ZenonT(40) DEF left
  <2>2. QED
    BY <1>c, <1>f, <2>1, ConcatProperties, ZenonT(40)
<1>h. /\ Len(s) \in Nat /\ p \in 1..(Len(s) + 1) /\ r \in Seq(S)
      /\ Len(left) = p /\ Len(back) = Len(s) - p + 1 /\ Len(r) = Len(left) + Len(back)
  BY <1>a, <1>c, <1>f, <1>g, Zenon
<1>i. \A j \in 1..p : left[j] = IF j < p THEN s[j] ELSE e
  BY <1>f, Zenon
<1>j. \A j \in 1..(Len(left) + Len(back)) :
          r[j] = IF j <= Len(left) THEN left[j] ELSE back[j - Len(left)]
  BY <1>g, Zenon
<1>1. r \in Seq(S) /\ Len(r) = Len(s) + 1
  BY <1>h
<1>2. \A j \in 1..Len(r) : r[j] = IF j < p THEN s[j] ELSE IF j = p THEN e ELSE s[j - 1]
  <2> SUFFICES ASSUME NEW j \in 1..Len(r)
               PROVE  r[j] = IF j < p THEN s[j] ELSE IF j = p THEN e ELSE s[j - 1]
    OBVIOUS
  <2>1. CASE j <= p
    BY <1>h, <1>i, <1>j, <2>1
  <2>2. CASE j > p
    <3>1. j - p \in 1..(Len(s) - p + 1) /\ p + (j - p) - 1 = j - 1
      BY <1>h, <2>2
    <3>2. back[j - p] = s[j - 1]
      BY <1>c, <3>1, ZenonT(40)
    <3>3. r[j] = back[j - p]
      BY <1>h, <1>j, <2>2
    <3>4. QED
      BY <2>2, <3>2, <3>3
  <2>3. QED
    BY <2>1, <2>2
<1>3. DOMAIN r = 1..Len(r) /\ DOMAIN s = 1..Len(s) /\ Len(s) \in Nat /\ Len(r) \in Nat
  BY <1>1
<1>4. \A j \in 1..Len(s) : s[j] # e
  BY <1>3, ZenonT(40) DEF ToSet
<1>5. IsInjective(r)
  <2> SUFFICES ASSUME NEW a \in 1..Len(r), NEW b \in 1..Len(r), r[a] = r[b]
               PROVE  a = b
    BY <1>3, ZenonT(40) DEF IsInjective
  <2>1. \A x, y \in 1..Len(s) : s[x] = s[y] => x = y
    BY <1>3, ZenonT(40) DEF IsInjective
  <2>2. /\ (a < p => a \in 1..Len(s)) /\ (a > p => a - 1 \in 1..Len(s))
        /\ (b < p => b \in 1..Len(s)) /\ (b > p => b - 1 \in 1..Len(s))
    BY <1>1, <1>3
  <2>3. CASE a = p \/ b = p
    BY <1>2, <1>4, <2>2, <2>3
  <2>4. CASE a # p /\ b # p
    <3>1. /\ a < p => r[a] = s[a] /\ a \in 1..Len(s)
          /\ a > p => r[a] = s[a - 1] /\ a - 1 \in 1..Len(s)
          /\ b < p => r[b] = s[b] /\ b \in 1..Len(s)
          /\ b > p => r[b] = s[b - 1] /\ b - 1 \in 1..Len(s)
      BY <1>2, <2>2
    <3>2. QED
      BY <2>1, <2>4, <3>1
  <2>5. QED
    BY <2>3, <2>4, ZenonT(40)
<1>6. ToSet(r) \subseteq ToSet(s) \cup {e}
  <2> SUFFICES ASSUME NEW j \in 1..Len(r)
               PROVE  r[j] \in ToSet(s) \cup {e}
    BY <1>3, ZenonT(40) DEF ToSet
  <2>1. (j < p => j \in 1..Len(s)) /\ (j > p => j - 1 \in 1..Len(s))
    BY <1>1, <1>3
  <2>2. r[j] = e \/ \E i \in 1..Len(s) : r[j] = s[i]
    BY <1>2, <2>1
  <2>3. QED
    BY <1>3, <2>2, ZenonT(40) DEF ToSet
<1>7. e \in ToSet(r)
  <2>1. p \in 1..Len(r) /\ r[p] = e
    BY <1>1, <1>2, <1>3
  <2>2. QED
    BY <1>3, <2>1, ZenonT(40) DEF ToSet
<1>8. ToSet(s) \subseteq ToSet(r)
  <2> SUFFICES ASSUME NEW j \in 1..Len(s)
               PROVE  s[j] \in ToSet(r)
    BY <1>3, ZenonT(40) DEF ToSet
  <2>1. CASE j < p
    <3>1. j \in 1..Len(r) /\ r[j] = s[j]
      BY <1>1, <1>2, <1>3, <2>1
    <3>2. QED
      BY <1>3, <3>1, ZenonT(40) DEF ToSet
  <2>2. CASE j >= p
    <3>1. j + 1 \in 1..Len(r) /\ r[j + 1] = s[j]
      BY <1>1, <1>2, <1>3, <2>2
    <3>2. QED
      BY <1>3, <3>1, ZenonT(40) DEF ToSet
  <2>3. QED
    BY <2>1, <2>2
<1>9. QED
  BY <1>1, <1>5, <1>6, <1>7, <1>8, ZenonT(40) DEF r

----------------------------------------------------------------------------
(* The inductive invariant *)

\* Only a failure is dealt with, a report exists only once it was created, and
\* the task works on a row.
Orderly ==
    /\ task.step # "idle" => task.id \in Ids
    /\ \A d \in Ids : notice[d] # "pending" => state[d] = "failed"
    /\ \A d \in 1..N : notice[d] # "created" => state[ReportOf(d)] = "absent"

Inv == TypeOK /\ OneReport /\ NoReportOfReport /\ Orderly

Pending == {d \in Ids : state[d] = "failed" /\ notice[d] = "pending"}

\* The ids of originals and of their reports.
LEMMA IdFacts ==
    /\ N \in Nat /\ 1..N \subseteq Ids
    /\ \A d \in 1..N : ReportOf(d) \in Ids /\ ReportOf(d) > N
    /\ \A d, e \in 1..N : ReportOf(d) = ReportOf(e) => d = e
    /\ \A d \in Ids : Reportable(d) => d \in 1..N
<1>1. /\ N \in Nat /\ 1..N \subseteq Ids
      /\ \A d \in 1..N : ReportOf(d) \in Ids /\ ReportOf(d) > N
      /\ \A d, e \in 1..N : ReportOf(d) = ReportOf(e) => d = e
  BY NotificationAssumption DEF Ids, ReportOf
<1>2. \A d \in Ids : Reportable(d) => d \in 1..N
  BY NotificationAssumption DEF Ids, Reportable, MessageSource
<1>3. QED
  BY <1>1, <1>2, ZenonT(40)

\* A row leaves the index.
LEMMA LeaveFacts ==
    ASSUME TypeOK, NEW d \in Ids, Leave(d)
    PROVE  /\ outbox' \in Seq(Ids) /\ IsInjective(outbox')
           /\ ToSet(outbox') = ToSet(outbox) \ {d} /\ ready' \in 0..Len(outbox')
<1>1. PICK i \in 1..Len(outbox) : /\ outbox[i] = d
                                  /\ outbox' = RemoveAt(outbox, i)
                                  /\ ready' = IF i <= ready THEN ready - 1 ELSE ready
  BY DEF Leave
<1>2. outbox \in Seq(Ids) /\ IsInjective(outbox) /\ ready \in 0..Len(outbox) /\ Len(outbox) \in Nat
  BY DEF TypeOK
<1>3. /\ outbox' \in Seq(Ids) /\ Len(outbox') = Len(outbox) - 1 /\ IsInjective(outbox')
      /\ ToSet(outbox') = ToSet(outbox) \ {d}
  BY <1>1, <1>2, RemoveFacts, ZenonT(40)
<1>4. ready' \in 0..Len(outbox')
  BY <1>1, <1>2, <1>3
<1>5. QED
  BY <1>3, <1>4, ZenonT(40)

\* A row is postponed: it stays in the index.
LEMMA PostponeFacts ==
    ASSUME TypeOK, NEW d \in Ids, Postpone(d)
    PROVE  /\ outbox' \in Seq(Ids) /\ IsInjective(outbox')
           /\ ToSet(outbox') = ToSet(outbox) /\ ready' \in 0..Len(outbox')
<1>1. PICK i \in 1..Len(outbox) :
          /\ outbox[i] = d
          /\ ready' = IF i <= ready THEN ready - 1 ELSE ready
          /\ \E p \in (ready' + 1)..Len(outbox) :
                 outbox' = InsertAt(RemoveAt(outbox, i), p, d)
  BY DEF Postpone
<1> DEFINE rest == RemoveAt(outbox, i)
<1>2. outbox \in Seq(Ids) /\ IsInjective(outbox) /\ ready \in 0..Len(outbox) /\ Len(outbox) \in Nat
  BY DEF TypeOK
<1>3. /\ rest \in Seq(Ids) /\ Len(rest) = Len(outbox) - 1 /\ IsInjective(rest)
      /\ ToSet(rest) = ToSet(outbox) \ {d}
  BY <1>1, <1>2, RemoveFacts, ZenonT(40)
<1>4. PICK p \in (ready' + 1)..Len(outbox) : outbox' = InsertAt(rest, p, d)
  BY <1>1, ZenonT(40)
<1>5. d \in ToSet(outbox)
  BY <1>1, <1>2 DEF ToSet
<1> HIDE DEF rest
<1>6. ready' \in 0..Len(outbox) /\ p \in 1..(Len(rest) + 1)
  BY <1>1, <1>2, <1>3, <1>4
<1>7. /\ outbox' \in Seq(Ids) /\ Len(outbox') = Len(rest) + 1 /\ IsInjective(outbox')
      /\ ToSet(outbox') = ToSet(rest) \cup {d}
  BY <1>3, <1>4, <1>6, InsertFacts
<1>8. QED
  BY <1>2, <1>3, <1>5, <1>6, <1>7

\* The first row of the index is a pending failure.
LEMMA FirstPending ==
    ASSUME TypeOK, ready > 0
    PROVE  outbox[1] \in Ids /\ state[outbox[1]] = "failed" /\ notice[outbox[1]] = "pending"
<1>1. outbox \in Seq(Ids) /\ 1 \in 1..Len(outbox)
  BY DEF TypeOK
<1>2. outbox[1] \in ToSet(outbox)
  BY <1>1 DEF ToSet
<1>3. QED
  BY <1>2, ZenonT(40) DEF TypeOK

----------------------------------------------------------------------------
(* One lemma per kind of step *)

\* A step that leaves the tables alone.
LEMMA TablesSame ==
    ASSUME Inv, UNCHANGED <<state, notice, linked, outbox, inserted>>,
           ready' \in 0..Len(outbox), room' \in 0..MaxRoom, task' \in Task,
           task'.step # "idle" => task'.id \in Ids, clockChanged' \in BOOLEAN
    PROVE  Inv'
<1>1. TypeOK'
  BY ZenonT(40) DEF Inv, TypeOK
<1>2. OneReport' /\ NoReportOfReport' /\ Orderly'
  BY DEF Inv, OneReport, NoReportOfReport, Orderly
<1>3. QED
  BY <1>1, <1>2, ZenonT(40) DEF Inv

\* The idle task.
LEMMA IdleFacts == Idle \in Task /\ Idle.step = "idle"
BY DEF Idle, Task

\* The task goes on to another step with its row.
LEMMA TaskFacts ==
    ASSUME Inv, task.step # "idle",
           NEW step \in {"preparing", "committing", "orphan", "failing"}
    PROVE  /\ [task EXCEPT !.step = step] \in Task /\ [task EXCEPT !.step = step].id \in Ids
           /\ AfterError \in Task /\ (AfterError.step # "idle" => AfterError.id \in Ids)
<1>1. task \in Task /\ task.id \in Ids
  BY DEF Inv, TypeOK, Orderly
<1>2. \A q \in {"preparing", "committing", "orphan", "failing"} :
          [task EXCEPT !.step = q] \in Task /\ [task EXCEPT !.step = q].id \in Ids
  BY <1>1, ZenonT(40) DEF Task
<1>3. QED
  BY <1>2, IdleFacts, ZenonT(40) DEF AfterError

\* A row fails in the queue.
LEMMA FailsPreserves ==
    ASSUME Inv, NEW d \in Ids, Fails(d)
    PROVE  Inv'
<1>1. /\ state[d] = "waiting" /\ state' = [state EXCEPT ![d] = "failed"] /\ ready' = ready + 1
      /\ UNCHANGED <<notice, linked, room, task, clockChanged, inserted>>
  BY DEF Fails
<1>2. PICK p \in 1..(ready + 1) : outbox' = InsertAt(outbox, p, d)
  BY DEF Fails
<1>3. /\ outbox \in Seq(Ids) /\ IsInjective(outbox) /\ ready \in 0..Len(outbox) /\ Len(outbox) \in Nat
      /\ ToSet(outbox) = Pending /\ notice[d] = "pending"
  BY <1>1 DEF Inv, TypeOK, Orderly, Pending
<1>4. d \notin ToSet(outbox) /\ p \in 1..(Len(outbox) + 1)
  BY <1>1, <1>3 DEF Pending
<1>5. /\ outbox' \in Seq(Ids) /\ Len(outbox') = Len(outbox) + 1 /\ IsInjective(outbox')
      /\ ToSet(outbox') = ToSet(outbox) \cup {d}
  BY <1>2, <1>3, <1>4, InsertFacts
<1>6. ready' \in 0..Len(outbox')
  BY <1>1, <1>3, <1>5
<1>7. /\ state \in [Ids -> {"absent", "waiting", "failed", "settled"}]
      /\ state' \in [Ids -> {"absent", "waiting", "failed", "settled"}]
      /\ state'[d] = "failed" /\ \A e \in Ids \ {d} : state'[e] = state[e]
  BY <1>1, ZenonT(40) DEF Inv, TypeOK
<1>8. Pending' = Pending \cup {d}
  BY <1>1, <1>3, <1>7, ZenonT(40) DEF Pending
<1>9. TypeOK'
  BY <1>1, <1>3, <1>5, <1>6, <1>7, <1>8, ZenonT(40) DEF Inv, TypeOK, Pending
<1>10. Orderly'
  BY <1>1, <1>7, IdFacts, ZenonT(40) DEF Inv, Orderly
<1>11. OneReport' /\ NoReportOfReport'
  BY <1>1, ZenonT(40) DEF Inv, OneReport, NoReportOfReport
<1>12. QED
  BY <1>9, <1>10, <1>11, ZenonT(40) DEF Inv

\* A delivery ends otherwise.
LEMMA SettlesPreserves ==
    ASSUME Inv, NEW d \in Ids, Settles(d)
    PROVE  Inv'
<1>1. /\ state[d] = "waiting" /\ state' = [state EXCEPT ![d] = "settled"]
      /\ UNCHANGED <<notice, linked, outbox, ready, room, task, clockChanged, inserted>>
  BY DEF Settles
<1>2. /\ state \in [Ids -> {"absent", "waiting", "failed", "settled"}]
      /\ state' \in [Ids -> {"absent", "waiting", "failed", "settled"}]
      /\ state'[d] = "settled" /\ \A e \in Ids \ {d} : state'[e] = state[e]
  BY <1>1, ZenonT(40) DEF Inv, TypeOK
<1>3. Pending' = Pending
  BY <1>1, <1>2, ZenonT(40) DEF Pending
<1>4. TypeOK'
  BY <1>1, <1>2, <1>3, ZenonT(40) DEF Inv, TypeOK, Pending
<1>5. Orderly'
  BY <1>1, <1>2, IdFacts, ZenonT(40) DEF Inv, Orderly
<1>6. OneReport' /\ NoReportOfReport'
  BY <1>1, ZenonT(40) DEF Inv, OneReport, NoReportOfReport
<1>7. QED
  BY <1>4, <1>5, <1>6, ZenonT(40) DEF Inv

\* notification_failed.
LEMMA FailedPreserves ==
    ASSUME Inv, NEW d \in Ids, NotificationFailed(d), task' \in {task, Idle},
           UNCHANGED <<state, linked, room, clockChanged, inserted>>
    PROVE  Inv'
<1>1. notice' = notice
  BY DEF NotificationFailed
<1>2. task' \in Task /\ (task'.step # "idle" => task'.id \in Ids)
  BY IdleFacts, ZenonT(40) DEF Inv, TypeOK, Orderly
<1>3. CASE Postpone(d)
  <2>1. /\ outbox' \in Seq(Ids) /\ IsInjective(outbox')
        /\ ToSet(outbox') = ToSet(outbox) /\ ready' \in 0..Len(outbox')
    BY <1>3, PostponeFacts, ZenonT(40) DEF Inv
  <2>2. TypeOK'
    BY <1>1, <1>2, <2>1, ZenonT(40) DEF Inv, TypeOK
  <2>3. OneReport' /\ NoReportOfReport' /\ Orderly'
    BY <1>1, <1>2, ZenonT(40) DEF Inv, OneReport, NoReportOfReport, Orderly
  <2>4. QED
    BY <2>2, <2>3, ZenonT(40) DEF Inv
<1>4. CASE UNCHANGED <<outbox, ready>>
  BY <1>1, <1>2, <1>4, TablesSame, ZenonT(40) DEF Inv, TypeOK
<1>5. QED
  BY <1>3, <1>4, ZenonT(40) DEF NotificationFailed

\* notification_next: a row that is not to be reported is suppressed, a report
\* is staged, or the row is postponed.
LEMMA NotificationNextPreserves ==
    ASSUME Inv, NotificationNext
    PROVE  Inv'
<1> DEFINE d == outbox[1]
<1>1. /\ task = Idle /\ UNCHANGED <<state, linked, room, clockChanged, inserted>>
      /\ d \in Ids /\ state[d] = "failed" /\ notice[d] = "pending"
  BY FirstPending, ZenonT(40) DEF NotificationNext, Inv
<1>2. CASE /\ ~Reportable(d) /\ notice' = [notice EXCEPT ![d] = "suppressed"]
           /\ Leave(d) /\ task' = task
  <2>1. /\ outbox' \in Seq(Ids) /\ IsInjective(outbox')
        /\ ToSet(outbox') = ToSet(outbox) \ {d} /\ ready' \in 0..Len(outbox')
    BY <1>1, <1>2, LeaveFacts, ZenonT(40) DEF Inv
  <2> HIDE DEF d
  <2>2. /\ notice \in [Ids -> {"pending", "created", "suppressed"}]
        /\ notice' \in [Ids -> {"pending", "created", "suppressed"}]
        /\ notice'[d] = "suppressed" /\ \A e \in Ids \ {d} : notice'[e] = notice[e]
    BY <1>1, <1>2, ZenonT(40) DEF Inv, TypeOK
  <2>3. Pending' = Pending \ {d} /\ ToSet(outbox) = Pending
    BY <1>1, <2>2, ZenonT(40) DEF Pending, Inv, TypeOK
  <2>4. TypeOK'
    BY <1>1, <1>2, <2>1, <2>2, <2>3, ZenonT(40) DEF Inv, TypeOK, Pending
  <2>5. OneReport' /\ NoReportOfReport'
    BY <1>1, <2>2, ZenonT(40) DEF Inv, OneReport, NoReportOfReport
  <2>6. Orderly'
    BY <1>1, <1>2, <2>2, IdFacts, ZenonT(40) DEF Inv, Orderly
  <2>7. QED
    BY <2>4, <2>5, <2>6, ZenonT(40) DEF Inv
<1>3. CASE task' = [step |-> "preparing", id |-> d] /\ UNCHANGED <<notice, outbox, ready>>
  <2>1. task' \in Task /\ task'.id \in Ids
    BY <1>1, <1>3, ZenonT(40) DEF Task
  <2>2. QED
    BY <1>1, <1>3, <2>1, TablesSame, ZenonT(40) DEF Inv, TypeOK
<1>4. CASE NotificationFailed(d) /\ task' = task
  BY <1>1, <1>4, FailedPreserves, ZenonT(40)
<1>5. QED
  BY <1>2, <1>3, <1>4, ZenonT(40) DEF NotificationNext

\* notification_commit inserts the report and marks its failure, in one
\* transaction.
LEMMA InsertPreserves ==
    ASSUME Inv, task.step # "idle", Insert(task.id), task' \in Task,
           task'.step # "idle" => task'.id \in Ids, clockChanged' = clockChanged
    PROVE  Inv'
<1> DEFINE d == task.id
<1>1. /\ d \in Ids /\ Reportable(d) /\ state[d] = "failed" /\ notice[d] = "pending"
      /\ Fits(d) /\ room' = IF d \in Local THEN room - 1 ELSE room
      /\ state' = Relays(d) /\ linked' = linked \cup {d}
      /\ notice' = [notice EXCEPT ![d] = "created"]
      /\ inserted' = [inserted EXCEPT ![d] = @ + 1] /\ Leave(d)
  BY DEF Insert, Eligible, Deliver, Inv, Orderly
<1> HIDE DEF d
<1>2. d \in 1..N
  BY <1>1, IdFacts, ZenonT(40)
<1>3. /\ outbox' \in Seq(Ids) /\ IsInjective(outbox')
      /\ ToSet(outbox') = ToSet(outbox) \ {d} /\ ready' \in 0..Len(outbox')
  BY <1>1, LeaveFacts, ZenonT(40) DEF Inv
<1>4. ReportOf(d) \in Ids /\ ReportOf(d) # d /\ state[ReportOf(d)] = "absent"
  BY <1>1, <1>2, IdFacts, ZenonT(40) DEF Inv, Orderly
<1>5. /\ state \in [Ids -> {"absent", "waiting", "failed", "settled"}]
      /\ state' \in [Ids -> {"absent", "waiting", "failed", "settled"}]
      /\ \A e \in Ids \ {ReportOf(d)} : state'[e] = state[e]
      /\ state'[ReportOf(d)] \in {"absent", "waiting"}
  BY <1>1, <1>4, ZenonT(40) DEF Inv, TypeOK, Relays
<1>6. /\ notice \in [Ids -> {"pending", "created", "suppressed"}]
      /\ notice' \in [Ids -> {"pending", "created", "suppressed"}]
      /\ notice'[d] = "created" /\ \A e \in Ids \ {d} : notice'[e] = notice[e]
  BY <1>1, ZenonT(40) DEF Inv, TypeOK
<1>7. Pending' = Pending \ {d} /\ ToSet(outbox) = Pending
  BY <1>1, <1>4, <1>5, <1>6 DEF Pending, Inv, TypeOK
<1>8. room' \in 0..MaxRoom
  BY <1>1, NotificationAssumption DEF Fits, Inv, TypeOK
<1>9. /\ inserted \in [Ids -> Nat] /\ inserted' \in [Ids -> Nat]
      /\ inserted'[d] = inserted[d] + 1 /\ \A e \in Ids \ {d} : inserted'[e] = inserted[e]
  BY <1>1 DEF Inv, TypeOK
<1>10. linked' \subseteq Ids
  BY <1>1, ZenonT(40) DEF Inv, TypeOK
<1>11. TypeOK'
  BY <1>3, <1>5, <1>6, <1>7, <1>8, <1>9, <1>10, ZenonT(40) DEF Inv, TypeOK, Pending
<1>12. OneReport'
  <2>1. inserted[d] = 0
    BY <1>1, ZenonT(40) DEF Inv, OneReport
  <2>2. \A e \in Ids : (notice'[e] = "created") = (e \in linked')
    BY <1>1, <1>6 DEF Inv, OneReport
  <2>3. \A e \in Ids : inserted'[e] = IF notice'[e] = "created" THEN 1 ELSE 0
    BY <1>6, <1>9, <2>1 DEF Inv, OneReport
  <2>4. QED
    BY <2>2, <2>3, ZenonT(40) DEF OneReport
<1>13. NoReportOfReport'
  BY <1>2, <1>9, IdFacts DEF Inv, NoReportOfReport
<1>14. Orderly'
  <2>1. \A e \in Ids : notice'[e] # "pending" => state'[e] = "failed"
    BY <1>1, <1>4, <1>5, <1>6 DEF Inv, Orderly
  <2>2. ASSUME NEW e \in 1..N, notice'[e] # "created"
        PROVE  state'[ReportOf(e)] = "absent"
    <3>1. e # d /\ e \in Ids
      BY <1>6, <2>2, IdFacts, ZenonT(40)
    <3>2. ReportOf(e) # ReportOf(d) /\ ReportOf(e) \in Ids
      BY <1>2, <3>1, IdFacts, ZenonT(40)
    <3>3. QED
      BY <1>5, <1>6, <2>2, <3>1, <3>2, ZenonT(40) DEF Inv, Orderly
  <2>3. QED
    BY <2>1, <2>2, ZenonT(40) DEF Orderly
<1>15. QED
  BY <1>11, <1>12, <1>13, <1>14, ZenonT(40) DEF Inv

\* notification_commit, whatever becomes of it.
LEMMA CommitPreserves ==
    ASSUME Inv, Commit \/ CommitFails
    PROVE  Inv'
<1>1. task.step \in {"committing", "orphan"} /\ clockChanged' = clockChanged
  BY ZenonT(40) DEF Commit, CommitFails
<1>2. task' \in {Idle, AfterError}
  BY DEF Commit, CommitFails
<1>3. task' \in Task /\ (task'.step # "idle" => task'.id \in Ids)
  BY <1>1, <1>2, IdleFacts, TaskFacts, ZenonT(40)
<1>4. CASE Insert(task.id)
  BY <1>1, <1>3, <1>4, InsertPreserves, ZenonT(40)
<1>5. CASE UNCHANGED <<state, notice, linked, outbox, ready, room, inserted>>
  BY <1>1, <1>3, <1>5, TablesSame, ZenonT(40) DEF Inv, TypeOK
<1>6. QED
  BY <1>4, <1>5, ZenonT(40) DEF Commit, CommitFails

\* The other steps of the notice task.
LEMMA TaskPreserves ==
    ASSUME Inv, Prepare("committing") \/ Prepare("failing") \/ FailingLost \/ Abort
    PROVE  Inv'
<1>1. /\ task.step # "idle"
      /\ UNCHANGED <<state, notice, linked, outbox, ready, room, clockChanged, inserted>>
  BY DEF Prepare, FailingLost, Abort
<1>2. task' = Idle \/ \E q \in {"committing", "orphan", "failing"} : task' = [task EXCEPT !.step = q]
  BY DEF Prepare, FailingLost, Abort
<1>3. task' \in Task /\ (task'.step # "idle" => task'.id \in Ids)
  <2>1. \A q \in {"committing", "orphan", "failing"} :
            [task EXCEPT !.step = q] \in Task /\ [task EXCEPT !.step = q].id \in Ids
    BY <1>1, TaskFacts, ZenonT(40)
  <2>2. QED
    BY <1>2, <2>1, IdleFacts, ZenonT(40)
<1>4. QED
  BY <1>1, <1>3, TablesSame, ZenonT(40) DEF Inv, TypeOK

\* An error is handed to notification_failed.
LEMMA FailingPreserves ==
    ASSUME Inv, StageFails \/ Failing
    PROVE  Inv'
<1>1. CASE StageFails
  <2>1. outbox[1] \in Ids
    BY <1>1, FirstPending, ZenonT(40) DEF StageFails, Inv
  <2>2. QED
    BY <1>1, <2>1, FailedPreserves, ZenonT(40) DEF StageFails
<1>2. CASE Failing
  <2>1. task.id \in Ids
    BY <1>2, ZenonT(40) DEF Failing, Inv, Orderly
  <2>2. QED
    BY <1>2, <2>1, FailedPreserves, ZenonT(40) DEF Failing
<1>3. QED
  BY <1>1, <1>2, ZenonT(40)

\* Time, other mail, the clock guard and a restart.
LEMMA SurroundingsPreserve ==
    ASSUME Inv, TimePasses \/ RoomChanges \/ ClockJumps \/ Crash
    PROVE  Inv'
<1>1. UNCHANGED <<state, notice, linked, outbox, inserted>> /\ task' \in {task, Idle}
  BY DEF TimePasses, RoomChanges, ClockJumps, Crash
<1>2. ready \in 0..Len(outbox) /\ room \in 0..MaxRoom /\ Len(outbox) \in Nat /\ clockChanged \in BOOLEAN
  BY DEF Inv, TypeOK
<1>3. ready' \in 0..Len(outbox)
  BY <1>2 DEF TimePasses, RoomChanges, ClockJumps, Crash
<1>4. room' \in 0..MaxRoom
  BY <1>2, ZenonT(40) DEF TimePasses, RoomChanges, ClockJumps, Crash
<1>5. clockChanged' \in BOOLEAN
  BY <1>2, ZenonT(40) DEF TimePasses, RoomChanges, ClockJumps, Crash
<1>6. task' \in Task /\ (task'.step # "idle" => task'.id \in Ids)
  BY <1>1, IdleFacts, ZenonT(40) DEF Inv, TypeOK, Orderly
<1>7. QED
  BY <1>1, <1>3, <1>4, <1>5, <1>6, TablesSame, ZenonT(40)

----------------------------------------------------------------------------
(* The theorems *)

\* The queue starts without failures.
LEMMA InitInv == Init => Inv
<1> SUFFICES ASSUME Init
             PROVE  Inv
  OBVIOUS
<1>1. outbox = <<>> /\ outbox \in Seq(Ids) /\ Len(outbox) = 0 /\ IsInjective(outbox) /\ ToSet(outbox) = {}
  BY DEF Init, IsInjective, ToSet
<1>2. \A d \in Ids : state[d] # "failed" /\ notice[d] = "pending" /\ inserted[d] = 0
  BY DEF Init
<1>3. TypeOK
  <2>1. {d \in Ids : state[d] = "failed" /\ notice[d] = "pending"} = {}
    BY <1>2, ZenonT(40)
  <2>2. /\ state \in [Ids -> {"absent", "waiting", "failed", "settled"}]
        /\ notice \in [Ids -> {"pending", "created", "suppressed"}]
        /\ inserted \in [Ids -> Nat] /\ linked \subseteq Ids
    BY DEF Init
  <2>3. ready \in 0..Len(outbox)
    BY <1>1 DEF Init
  <2>4. room \in 0..MaxRoom /\ clockChanged \in BOOLEAN
    BY ZenonT(40) DEF Init
  <2>5. task \in Task
    BY IdleFacts, ZenonT(40) DEF Init
  <2>6. QED
    BY <1>1, <2>1, <2>2, <2>3, <2>4, <2>5, ZenonT(40) DEF TypeOK
<1>4. OneReport /\ NoReportOfReport
  BY <1>2 DEF Init, OneReport, NoReportOfReport
<1>5. \A d \in 1..N : ReportOf(d) \in Ids /\ ~(ReportOf(d) <= N)
  BY IdFacts, NotificationAssumption DEF Ids
<1>6. Orderly
  BY <1>2, <1>5, IdleFacts, ZenonT(40) DEF Init, Orderly
<1>7. QED
  BY <1>3, <1>4, <1>6, ZenonT(40) DEF Inv

\* Every step keeps the invariant.
LEMMA NextInv == Inv /\ [Next]_vars => Inv'
<1> SUFFICES ASSUME Inv, [Next]_vars
             PROVE  Inv'
  OBVIOUS
<1>1. CASE NotificationNext
  BY <1>1, NotificationNextPreserves, ZenonT(40)
<1>2. CASE NoticeStep
  BY <1>2, TaskPreserves, CommitPreserves, FailingPreserves, ZenonT(40) DEF NoticeStep
<1>3. CASE StorageError
  BY <1>3, TaskPreserves, CommitPreserves, FailingPreserves, ZenonT(40) DEF StorageError
<1>4. CASE Abort
  BY <1>4, TaskPreserves, ZenonT(40)
<1>5. CASE TimePasses \/ RoomChanges \/ ClockJumps \/ Crash
  BY <1>5, SurroundingsPreserve, ZenonT(40)
<1>6. ASSUME NEW d \in Ids, Fails(d) \/ Settles(d)
      PROVE  Inv'
  BY <1>6, FailsPreserves, SettlesPreserves, ZenonT(40)
<1>7. CASE UNCHANGED vars
  <2>1. UNCHANGED <<state, notice, linked, outbox, ready, room, task, clockChanged, inserted>>
    BY <1>7, ZenonT(40) DEF vars
  <2>2. QED
    BY <2>1, TablesSame, ZenonT(40) DEF Inv, TypeOK, Orderly
<1>8. QED
  BY <1>1, <1>2, <1>3, <1>4, <1>5, <1>6, <1>7, ZenonT(40) DEF Next

\* The invariant holds throughout.
LEMMA Invariance == Spec => []Inv
BY InitInv, NextInv, PTL DEF Spec

\* notification_commit: for any number of failures, and whatever commit outcomes
\* were lost, a failure has one report if it is marked created and else none.
THEOREM ReportedOnce == Spec => []OneReport
<1>1. Inv => OneReport
  BY ZenonT(40) DEF Inv
<1>2. QED
  BY <1>1, Invariance, PTL

\* notification_next: the failure of a report is never reported.
THEOREM ReportsEnd == Spec => []NoReportOfReport
<1>1. Inv => NoReportOfReport
  BY DEF Inv
<1>2. QED
  BY <1>1, Invariance, PTL

\* The index queue_notification holds the pending failures, each once.
THEOREM Typed == Spec => []TypeOK
<1>1. Inv => TypeOK
  BY DEF Inv
<1>2. QED
  BY <1>1, Invariance, PTL
=============================================================================
