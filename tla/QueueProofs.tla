---------------------------- MODULE QueueProofs ----------------------------
(***************************************************************************)
(* TLAPS proofs about the relay queue: Inv is inductive for every set of   *)
(* deliveries, policy, batch size and counter bound; it implies the safety *)
(* properties of Queue, and that Queue implements Responsibility.          *)
(***************************************************************************)
EXTENDS QueueRefinement, TLAPS, FiniteSetTheorems

-----------------------------------------------------------------------------
(* Steps of a task that touch no table                                     *)

\* What WireFollowsTask asks of a task of lease (d, g) that becomes t.
MayBecome(d, g, t) ==
    /\ t \in {"sending", "dotted"} => phase[d] = "body"
    /\ t \in {"opening", "dialing", "marking", "orphan", "sending", "Hold", "Deferred"} =>
            wire[d][g] = "idle"
    /\ t \in {"Temporary", "Permanent"} => wire[d][g] \in {"idle", "refused"}
    /\ t = "Delivered" => wire[d][g] = "accepted"

\* A step of execute between two store calls: the owner of a lease moves on,
\* possibly leaving its reader behind, and nothing durable changes.
LEMMA TaskMoves ==
    ASSUME Inv, NEW d \in Deliveries, NEW g \in Generations, NEW t \in Task,
           task[d][g] # "none", MayBecome(d, g, t), Ends(d, g, t),
           lingering' \in {lingering, [lingering EXCEPT ![d] = @ \cup {g}]},
           UNCHANGED <<table, expired, audit, runtime, wire>>
    PROVE  Inv'
<1> USE DEF Inv, Ends, table, audit, runtime
<1>1. TypeOK'
  <2>1. lingering' \in [Deliveries -> SUBSET Generations]
    <3>1. lingering[d] \cup {g} \in SUBSET Generations
      BY DEF TypeOK
    <3>2. QED
      BY <3>1, ZenonT(40) DEF TypeOK
  <2>2. QED
    BY <2>1, ZenonT(40) DEF TypeOK
<1>2. FlagsConsistent'
  BY ZenonT(40) DEF FlagsConsistent
<1>3. WireFollowsTask'
  BY DEF WireFollowsTask, MayBecome, TypeOK
<1>4. SingleOwner'
  BY DEF SingleOwner, CheckLease, TypeOK
<1>5. AcceptanceRemembered' /\ NoSilentDuplicate'
  BY DEF AcceptanceRemembered, NoSilentDuplicate, MayHave
<1>6. QED
  BY <1>1, <1>2, <1>3, <1>4, <1>5, ZenonT(40)

\* queue_open_body: the task goes on or ends; no row changes.
LEMMA OpenBodyInv ==
    ASSUME Inv, NEW d \in Deliveries, NEW g \in Generations, OpenBody(d, g)
    PROVE  Inv'
<1>1. MayBecome(d, g, "dialing") /\ MayBecome(d, g, "Hold")
  BY DEF OpenBody, Inv, WireFollowsTask, MayBecome
<1>2. PICK t \in {"dialing", "Hold"} : Ends(d, g, t)
  BY DEF OpenBody
<1>3. QED
  BY <1>1, <1>2, TaskMoves, ZenonT(40) DEF OpenBody, Task, Working, QueueResult

\* The attempt before its body is sent: nothing has reached the remote yet.
LEMMA DialInv ==
    ASSUME Inv, NEW d \in Deliveries, NEW g \in Generations, Dial(d, g)
    PROVE  Inv'
<1>1. PICK t \in {"Temporary", "Permanent", "ConnectionLost", "Deferred", "Hold", "marking"} :
        Ends(d, g, t)
  BY DEF Dial
<1>2. MayBecome(d, g, t)
  BY <1>1 DEF Dial, Inv, WireFollowsTask, MayBecome
<1>3. QED
  BY <1>1, <1>2, TaskMoves DEF Dial, Task, Working, QueueResult

\* The final reply becomes the result that the task is about to record.
LEMMA FinalReplyInv ==
    ASSUME Inv, NEW d \in Deliveries, NEW g \in Generations, FinalReply(d, g)
    PROVE  Inv'
<1>1. PICK t \in {"Delivered", "Temporary", "Permanent", "ConnectionLost"} :
        /\ Ends(d, g, t)
        /\ t = "Delivered" => wire[d][g] = "accepted"
        /\ t \in {"Temporary", "Permanent"} => wire[d][g] = "refused"
  BY DEF FinalReply
<1>2. MayBecome(d, g, t)
  BY <1>1 DEF MayBecome
<1>3. QED
  BY <1>1, <1>2, TaskMoves DEF FinalReply, Task, Working, QueueResult

\* An attempt that breaks off in the body is not reported as rejected.
LEMMA BodyFailsInv ==
    ASSUME Inv, NEW d \in Deliveries, NEW g \in Generations, BodyFails(d, g)
    PROVE  Inv'
<1>1. PICK t \in {"Hold", "ConnectionLost"} : DropAttempt(d, g, t)
  BY DEF BodyFails
<1>2. MayBecome(d, g, t)
  BY <1>1, ZenonT(40) DEF BodyFails, Inv, WireFollowsTask, MayBecome
<1>3. QED
  BY <1>1, <1>2, TaskMoves DEF BodyFails, DropAttempt, Task, Working, QueueResult

\* A failed renewal ends the attempt as a lost connection.
LEMMA RenewFailsInv ==
    ASSUME Inv, NEW d \in Deliveries, NEW g \in Generations, RenewFails(d, g)
    PROVE  Inv'
<1>1. MayBecome(d, g, "ConnectionLost")
  BY DEF MayBecome
<1>2. QED
  BY <1>1, TaskMoves DEF RenewFails, DropAttempt, Task, Working, QueueResult

\* abort_all drops the tasks; their leases stay for recovery.
LEMMA AbortInv ==
    ASSUME Inv, NEW d \in Deliveries, NEW g \in Generations, Abort(d, g)
    PROVE  Inv'
<1>1. CASE task[d][g] = "marking" /\ DropAttempt(d, g, "orphan")
  <2>1. MayBecome(d, g, "orphan")
    BY <1>1, ZenonT(40) DEF Inv, WireFollowsTask, MayBecome
  <2>2. QED
    BY <1>1, <2>1, TaskMoves, ZenonT(40) DEF Abort, DropAttempt, Task, Working
<1>2. CASE task[d][g] # "none" /\ DropAttempt(d, g, "none")
  <2>1. MayBecome(d, g, "none")
    BY DEF MayBecome
  <2>2. QED
    BY <1>2, <2>1, TaskMoves DEF Abort, DropAttempt, Task
<1>3. QED
  BY <1>1, <1>2, ZenonT(40) DEF Abort

-----------------------------------------------------------------------------
(* Steps of a task or of the peer that change a table or the wire           *)

\* queue_mark_body: the body phase is durable before the task goes on.
LEMMA MarkBodyInv ==
    ASSUME Inv, NEW d \in Deliveries, NEW g \in Generations, MarkBody(d, g)
    PROVE  Inv'
<1> USE DEF Inv, Ends, table, audit, runtime
<1>1. PICK t \in {"sending", "ConnectionLost", "none"} :
        /\ Ends(d, g, t)
        /\ t = "sending" => phase'[d] = "body"
        /\ phase' \in {phase, [phase EXCEPT ![d] = "body"]}
  BY DEF MarkBody, TypeOK
<1>2. /\ task[d][g] \in {"marking", "orphan"}
      /\ UNCHANGED <<row, expired, audit, runtime, lingering, wire>>
  BY ZenonT(40) DEF MarkBody
<1>3. row[d].state = "leased" /\ row[d].generation = g /\ phase[d] # "none"
  BY <1>2 DEF SingleOwner, CheckLease
<1>4. TypeOK'
  BY <1>1, <1>2, ZenonT(40) DEF TypeOK, Phase, Task, Working, QueueResult
<1>5. FlagsConsistent'
  BY <1>1, <1>2, <1>3 DEF FlagsConsistent, TypeOK
<1>6. SingleOwner'
  BY <1>1, <1>2, <1>3 DEF SingleOwner, CheckLease, TypeOK
<1>7. WireFollowsTask'
  BY <1>1, <1>2, <1>3 DEF WireFollowsTask, TypeOK
<1>8. AcceptanceRemembered' /\ NoSilentDuplicate'
  BY <1>1, <1>2 DEF AcceptanceRemembered, NoSilentDuplicate, MayHave, TypeOK
<1>9. QED
  BY <1>4, <1>5, <1>6, <1>7, <1>8, ZenonT(40)

\* The final dot follows only a durable body phase.
LEMMA FinalDotInv ==
    ASSUME Inv, NEW d \in Deliveries, NEW g \in Generations, FinalDot(d, g)
    PROVE  Inv'
<1> USE DEF Inv, FinalDot, Ends, table, audit, runtime
<1>1. TypeOK'
  BY DEF TypeOK, Wire, Task, Working, QueueResult
<1>2. FlagsConsistent'
  BY ZenonT(40) DEF FlagsConsistent
<1>3. WireFollowsTask'
  BY DEF WireFollowsTask, TypeOK, SingleOwner, CheckLease, Row, Generations
<1>4. SingleOwner'
  BY DEF SingleOwner, CheckLease, TypeOK
<1>5. AcceptanceRemembered'
  BY DEF AcceptanceRemembered, MayHave, WireFollowsTask, SingleOwner, CheckLease, TypeOK
<1>6. NoSilentDuplicate'
  <2> SUFFICES ASSUME NEW e \in Deliveries, NEW i \in Generations, NEW j \in Generations,
                      i < j, MayHave(e, i)', MayHave(e, j)'
               PROVE  j \in consented'[e]
    BY DEF NoSilentDuplicate
  <2>1. CASE e # d \/ (i # g /\ j # g)
    BY <2>1 DEF NoSilentDuplicate, MayHave, TypeOK
  <2>2. row[d].state = "leased" /\ row[d].generation = g
    BY DEF SingleOwner, CheckLease
  <2>3. CASE e = d /\ i = g
    <3>1. i # j
      BY QueueAssumption DEF Generations
    <3>2. j <= g
      BY <2>2, <2>3, <3>1 DEF MayHave, WireFollowsTask, TypeOK
    <3>3. QED
      BY <2>3, <3>2, QueueAssumption DEF Generations
  <2>4. CASE e = d /\ j = g /\ i # g
    BY <2>2, <2>4 DEF MayHave, AcceptanceRemembered, FlagsConsistent, TypeOK
  <2>5. QED
    BY <2>1, <2>3, <2>4, ZenonT(40)
<1>7. QED
  BY <1>1, <1>2, <1>3, <1>4, <1>5, <1>6, ZenonT(40)

\* The remote decides about a message it holds; the tables expect either outcome.
LEMMA RemoteDecidesInv ==
    ASSUME Inv, NEW d \in Deliveries, NEW g \in Generations, RemoteDecides(d, g)
    PROVE  Inv'
<1> USE DEF Inv, RemoteDecides, table, audit, runtime
<1>1. TypeOK'
  BY DEF TypeOK, Wire
<1>2. FlagsConsistent' /\ SingleOwner'
  BY DEF FlagsConsistent, SingleOwner, CheckLease
<1>3. WireFollowsTask'
  BY DEF WireFollowsTask, TypeOK
<1>4. AcceptanceRemembered' /\ NoSilentDuplicate'
  BY DEF AcceptanceRemembered, NoSilentDuplicate, MayHave, TypeOK
<1>5. QED
  BY <1>1, <1>2, <1>3, <1>4, ZenonT(40)

\* A lingering reader ends and no longer owns its delivery.
LEMMA ReaderEndsInv ==
    ASSUME Inv, NEW d \in Deliveries, NEW g \in Generations, ReaderEnds(d, g)
    PROVE  Inv'
<1> USE DEF Inv, ReaderEnds, table, audit, runtime
<1>1. TypeOK'
  <2>1. lingering[d] \ {g} \in SUBSET Generations
    BY ZenonT(40) DEF TypeOK
  <2>2. QED
    BY <2>1 DEF TypeOK
<1>2. FlagsConsistent' /\ WireFollowsTask'
  BY DEF FlagsConsistent, WireFollowsTask
<1>3. SingleOwner'
  BY DEF SingleOwner, CheckLease, TypeOK
<1>4. AcceptanceRemembered' /\ NoSilentDuplicate'
  BY DEF AcceptanceRemembered, NoSilentDuplicate, MayHave
<1>5. QED
  BY <1>1, <1>2, <1>3, <1>4, ZenonT(40)

\* What queue_finish writes: uncertainty yields only to a confirmed delivery.
LEMMA FinishRowFacts ==
    ASSUME NEW old \in Row, NEW result \in QueueResult, NEW ph \in Phase,
           FinishState(result, ph) # "leased"
    PROVE  LET r == FinishRow(old, result, ph)
           IN  /\ r \in Row
               /\ r.possibly <=> r.state = "uncertain"
               /\ r.closed = old.closed
               /\ r.generation = old.generation
               /\ r.state \in {"delivered", "deferred", "failed", "uncertain", "hold"}
               /\ old.possibly => r.state \in {"delivered", "uncertain"}
               /\ ~old.possibly => r.state = FinishState(result, ph)
               /\ r.state = "delivered" => FinishState(result, ph) = "delivered"
<1> DEFINE known == FinishState(result, ph)
           s == IF old.possibly /\ known # "delivered" THEN "uncertain" ELSE known
           r == FinishRow(old, result, ph)
<1>1. known \in {"delivered", "deferred", "failed", "uncertain", "hold"}
  BY DEF FinishState, QueueResult, Phase
<1>2. r = [old EXCEPT !.state = s, !.possibly = (s = "uncertain")]
  BY DEF FinishRow
<1> HIDE DEF known, r
<1>3. s \in State /\ (s = "uncertain") \in BOOLEAN
  BY <1>1 DEF State
<1>4. r \in Row /\ r.state = s /\ r.possibly = (s = "uncertain")
      /\ r.closed = old.closed /\ r.generation = old.generation
  BY ZenonT(60), <1>2, <1>3 DEF Row
<1>5. QED
  BY ZenonT(60), <1>1, <1>4 DEF known, r

\* queue_finish.  A known result may replace the body phase because the wire
\* agrees with it; every other result keeps the uncertainty.
LEMMA FinishInv ==
    ASSUME Inv, NEW d \in Deliveries, NEW g \in Generations, Finish(d, g)
    PROVE  Inv'
<1> USE DEF Inv, Ends, table, audit, runtime
<1> DEFINE result == task[d][g]
           r == FinishRow(row[d], result, phase[d])
<1>1. /\ result \in QueueResult
      /\ Ends(d, g, "none")
      /\ UNCHANGED <<expired, audit, runtime, lingering, wire>>
  BY DEF Finish
<1>2. CASE UNCHANGED table
  <2>1. MayBecome(d, g, "none")
    BY DEF MayBecome
  <2>2. QED
    BY ZenonT(60), <1>1, <1>2, <2>1, TaskMoves DEF QueueResult, Task
<1>3. CASE /\ FinishState(result, phase[d]) # "leased"
           /\ row' = [row EXCEPT ![d] = r]
           /\ phase' = [phase EXCEPT ![d] = "none"]
  <2>1. row[d].state = "leased" /\ row[d].generation = g /\ phase[d] # "none"
    BY <1>1 DEF SingleOwner, CheckLease, QueueResult
  <2>2. row[d] \in Row /\ phase[d] \in Phase
    BY ZenonT(40) DEF TypeOK
  <2>3. /\ r \in Row
        /\ r.possibly <=> r.state = "uncertain"
        /\ r.closed = row[d].closed
        /\ r.generation = g
        /\ r.state \in {"delivered", "deferred", "failed", "uncertain", "hold"}
        /\ row[d].possibly => r.state \in {"delivered", "uncertain"}
        /\ ~row[d].possibly => r.state = FinishState(result, phase[d])
    BY <1>1, <1>3, <2>1, <2>2, FinishRowFacts
  <2> HIDE DEF r
  <2>4. ~row[d].closed
    BY <2>1, ZenonT(40) DEF FlagsConsistent
  <2>5. TypeOK'
    BY <1>1, <1>3, <2>2, <2>3, ZenonT(40) DEF TypeOK, Row, State, Phase, Task
  <2>6. FlagsConsistent'
    BY <1>1, <1>3, <2>3, <2>4, ZenonT(40) DEF FlagsConsistent, TypeOK
  <2>7. \A h \in Generations : task'[d][h] = "none"
    BY <1>1, ZenonT(40) DEF SingleOwner, TypeOK, QueueResult
  <2>a. /\ \A e \in Deliveries : e # d =>
             row'[e] = row[e] /\ phase'[e] = phase[e] /\ task'[e] = task[e]
        /\ UNCHANGED <<lingering, wire, active>>
    BY <1>1, <1>3, ZenonT(40) DEF TypeOK
  <2>b. \A h \in Generations : h \in lingering[d] => d \in active /\ h = g
    BY <1>1, ZenonT(40) DEF SingleOwner, QueueResult
  <2>c. row'[d] = r
    BY <1>3, ZenonT(40) DEF TypeOK
  <2>8. SingleOwner'
    <3> SUFFICES ASSUME NEW e \in Deliveries, NEW h \in Generations
                 PROVE  SingleOwner!(e, h)'
      BY Zenon DEF SingleOwner
    <3>1. CASE e # d
      <4>1. SingleOwner!(e, h)
        BY Zenon DEF SingleOwner
      <4>2. QED
        BY <2>a, <3>1, <4>1, ZenonT(40) DEF CheckLease
    <3>2. CASE e = d
      BY <2>7, <2>a, <2>b, <3>2
    <3>3. QED
      BY <3>1, <3>2
  <2>9. WireFollowsTask'
    BY <2>1, <2>3, <2>7, <2>a, <2>c DEF WireFollowsTask
  <2>10. \A h \in Generations : MayHave(d, h) => r.state \in {"delivered", "uncertain"}
    <3> SUFFICES ASSUME NEW h \in Generations, MayHave(d, h), ~row[d].possibly
                 PROVE  r.state \in {"delivered", "uncertain"}
      BY <2>3
    <3>1. h = g /\ phase[d] = "body"
      BY <2>1, ZenonT(40) DEF AcceptanceRemembered
    <3>2. result \in {"Delivered", "ConnectionLost"}
      BY <1>1, <3>1, ZenonT(40) DEF WireFollowsTask, MayHave, QueueResult
    <3>3. QED
      BY <2>3, <3>1, <3>2, ZenonT(40) DEF FinishState
  <2>11. AcceptanceRemembered'
    BY <1>1, <1>3, <2>3, <2>10, ZenonT(40) DEF AcceptanceRemembered, MayHave, TypeOK
  <2>12. NoSilentDuplicate'
    BY <1>1, ZenonT(40) DEF NoSilentDuplicate, MayHave
  <2>13. QED
    BY <2>5, <2>6, <2>8, <2>9, <2>11, <2>12, ZenonT(40)
<1>4. QED
  BY <1>2, <1>3, ZenonT(40) DEF Finish

-----------------------------------------------------------------------------
(* Steps that move rows nobody leases                                      *)

\* Rows change only while they are not leased, keep their generation and do
\* not forget that they are possibly delivered.
LEMMA RowsMove ==
    ASSUME Inv, TypeOK', FlagsConsistent',
           \A d \in Deliveries :
                \/ row'[d] = row[d]
                \/ /\ row[d].state \notin {"leased", "delivered"}
                   /\ row'[d].state # "leased"
                   /\ row'[d].generation = row[d].generation
                   /\ row[d].possibly => row'[d].possibly,
           UNCHANGED <<phase, consented, active, network>>
    PROVE  Inv'
<1> USE DEF Inv, network
<1>1. WireFollowsTask'
  BY DEF WireFollowsTask
<1>2. SingleOwner'
  BY DEF SingleOwner, CheckLease
<1>3. AcceptanceRemembered'
  BY DEF AcceptanceRemembered, MayHave
<1>4. NoSilentDuplicate'
  BY ZenonT(40) DEF NoSilentDuplicate, MayHave
<1>5. QED
  BY <1>1, <1>2, <1>3, <1>4, ZenonT(40)

\* insert_relay: a fresh row is certain and unowned.
LEMMA EnqueueInv ==
    ASSUME Inv, NEW d \in Deliveries, Enqueue(d)
    PROVE  Inv'
<1> USE DEF Inv, Enqueue, audit, runtime, network
<1>1. TypeOK'
  BY ZenonT(60) DEF TypeOK, Row, State
<1>2. FlagsConsistent'
  BY DEF FlagsConsistent, TypeOK, Row
<1>3. QED
  BY <1>1, <1>2, RowsMove DEF TypeOK, Row

\* queue_hold keeps the uncertainty of the row.
LEMMA OperatorHoldInv ==
    ASSUME Inv, NEW d \in Deliveries, OperatorHold(d)
    PROVE  Inv'
<1> USE DEF Inv, OperatorHold, audit, runtime, network
<1> DEFINE r == HoldRow(row[d])
<1>1. row[d] \in Row
  BY DEF TypeOK
<1>2. /\ r \in Row
      /\ r.state = "hold"
      /\ r.closed = row[d].closed
      /\ r.generation = row[d].generation
      /\ row[d].possibly => r.possibly
  <2>1. (row[d].possibly \/ row[d].state = "uncertain") \in BOOLEAN
    OBVIOUS
  <2>2. QED
    BY ZenonT(60), <1>1, <2>1 DEF HoldRow, Row, State
<1> HIDE DEF r
<1>3. row' = [row EXCEPT ![d] = r]
  BY ZenonT(40) DEF r
<1>4. TypeOK'
  BY <1>2, <1>3, ZenonT(40) DEF TypeOK
<1>5. FlagsConsistent'
  BY <1>2, <1>3 DEF FlagsConsistent, TypeOK
<1>6. QED
  BY <1>2, <1>3, <1>4, <1>5, RowsMove DEF TypeOK

\* A row with another state is a row.
LEMMA StateChange ==
    ASSUME NEW r \in Row, NEW s \in State
    PROVE  [r EXCEPT !.state = s] \in Row
BY ZenonT(40) DEF Row

\* queue_retry of an uncertain row records the consent it was given.
LEMMA OperatorRetryInv ==
    ASSUME Inv, NEW d \in Deliveries, NEW a \in BOOLEAN, NEW x \in BOOLEAN,
           OperatorRetry(d, a, x)
    PROVE  Inv'
<1> USE DEF Inv, OperatorRetry, RetryAllowed, audit, runtime, network
<1>1. TypeOK'
  <2>1. row' \in [Deliveries -> Row]
    BY StateChange, ZenonT(40) DEF TypeOK, State
  <2>2. asked' \in [Deliveries -> BOOLEAN] /\ expired' \in [Deliveries -> BOOLEAN]
    BY ZenonT(40) DEF TypeOK
  <2>3. QED
    BY <2>1, <2>2, ZenonT(40) DEF TypeOK
<1>2. FlagsConsistent'
  BY DEF FlagsConsistent, TypeOK, Row
<1>3. QED
  BY <1>1, <1>2, RowsMove DEF TypeOK, Row

\* queue_close ends the row without a claim about its outcome.
LEMMA OperatorCloseInv ==
    ASSUME Inv, NEW d \in Deliveries, OperatorClose(d)
    PROVE  Inv'
<1> USE DEF Inv, OperatorClose, audit, runtime, network
<1>1. TypeOK'
  <2>1. row' \in [Deliveries -> Row]
    <3>1. [row[d] EXCEPT !.state = "uncertain", !.closed = TRUE] \in Row
      BY DEF TypeOK, Row, State
    <3>2. QED
      BY <3>1, ZenonT(40) DEF TypeOK
  <2>2. asked' \in [Deliveries -> BOOLEAN] /\ expired' \in [Deliveries -> BOOLEAN]
    BY DEF TypeOK
  <2>3. QED
    BY <2>1, <2>2, ZenonT(40) DEF TypeOK
<1>2. FlagsConsistent'
  BY DEF FlagsConsistent, TypeOK, Row
<1>3. QED
  BY <1>1, <1>2, RowsMove DEF TypeOK, Row

\* ExpireRows on any set of waiting rows; queue_expire and queue_claim use it.
LEMMA ExpireRowsFacts ==
    ASSUME NEW r \in [Deliveries -> Row], NEW S \in SUBSET InState(r, {"pending", "deferred"})
    PROVE  /\ ExpireRows(r, S) \in [Deliveries -> Row]
           /\ \A d \in Deliveries \ S : ExpireRows(r, S)[d] = r[d]
           /\ \A d \in S :
                /\ ExpireRows(r, S)[d].state = IF r[d].possibly THEN "uncertain" ELSE "failed"
                /\ ExpireRows(r, S)[d].possibly = r[d].possibly
                /\ ExpireRows(r, S)[d].closed = r[d].closed
                /\ ExpireRows(r, S)[d].generation = r[d].generation
<1>1. S \subseteq Deliveries
  BY DEF InState
<1>2. \A d \in Deliveries : ExpireRow(r[d]) \in Row
  BY ZenonT(40) DEF ExpireRow, Row, State
<1>3. QED
  BY <1>1, <1>2, ZenonT(40) DEF ExpireRows, ExpireRow, Row

\* queue_expire fails only rows that were certainly not accepted.
LEMMA ExpireInv ==
    ASSUME Inv, Expire
    PROVE  Inv'
<1> USE DEF Inv, audit, runtime, network
<1>1. PICK S \in ExpiryBatches(row) : row' = ExpireRows(row, S)
  BY DEF Expire
<1>2. S \in SUBSET InState(row, {"pending", "deferred"})
  BY DEF ExpiryBatches
<1>3. row \in [Deliveries -> Row]
  BY ZenonT(40) DEF TypeOK
<1>4. TypeOK'
  BY <1>1, <1>2, <1>3, ExpireRowsFacts, ZenonT(40) DEF Expire, TypeOK
<1>5. \A d \in S : d \in Deliveries /\ row[d].state \in {"pending", "deferred"}
  BY <1>2, ZenonT(40) DEF InState
<1>6. FlagsConsistent'
  BY <1>1, <1>2, <1>3, <1>5, ExpireRowsFacts DEF Expire, FlagsConsistent
<1>7. QED
  BY <1>1, <1>2, <1>3, <1>4, <1>5, <1>6, ExpireRowsFacts, RowsMove DEF Expire

-----------------------------------------------------------------------------
(* Steps of the scheduler: recovery, expiry and claims of many rows at once *)

\* The three things a scheduler step may do to a row.
Waits(d) ==
    /\ \/ row'[d] = row[d]
       \/ /\ row[d].state \in {"pending", "deferred"}
          /\ \/ row'[d].state = "hold"
             \/ row'[d].state = IF row[d].possibly THEN "uncertain" ELSE "failed"
          /\ row'[d].possibly = row[d].possibly
          /\ row'[d].closed = row[d].closed
          /\ row'[d].generation = row[d].generation
    /\ phase'[d] = phase[d]
    /\ asked'[d] = asked[d]
    /\ consented'[d] = consented[d]
    /\ task'[d] = task[d]

IsRecovered(d) ==
    /\ row[d].state = "leased"
    /\ \A g \in Generations : task[d][g] = "none" /\ g \notin lingering[d]
    /\ row'[d].state \in {"uncertain", "deferred", "failed"}
    /\ row'[d].possibly <=> phase[d] = "body" \/ row[d].possibly
    /\ row'[d].state = "uncertain" <=> row'[d].possibly
    /\ row'[d].closed = row[d].closed
    /\ row'[d].generation = row[d].generation
    /\ phase'[d] = "none"
    /\ asked'[d] = asked[d]
    /\ consented'[d] = consented[d]
    /\ task'[d] = task[d]

IsGranted(d) ==
    /\ row[d].state \in {"pending", "deferred"}
    /\ \A g \in Generations : task[d][g] = "none" /\ g \notin lingering[d]
    /\ row[d].generation + 1 \in Generations
    /\ row'[d].state = "leased"
    /\ row'[d].possibly = row[d].possibly
    /\ row'[d].closed = row[d].closed
    /\ row'[d].generation = row[d].generation + 1
    /\ phase'[d] = "ready"
    /\ asked[d] => row[d].generation + 1 \in consented'[d]
    /\ consented[d] \subseteq consented'[d]
    /\ \A g \in Generations :
        task'[d][g] # "none" => g = row[d].generation + 1 /\ task'[d][g] = "opening"

\* A scheduler step keeps Inv when it does one of these to each row and keeps
\* an entry in active for every lease and reader that is left.
LEMMA SchedulerMoves ==
    ASSUME Inv, TypeOK', UNCHANGED <<lingering, wire>>,
           \A d \in Deliveries : Waits(d) \/ IsRecovered(d) \/ IsGranted(d),
           \A d \in Deliveries, g \in Generations :
                task'[d][g] # "none" \/ g \in lingering[d] => d \in active'
    PROVE  Inv'
<1> USE DEF Inv
<1>1. FlagsConsistent'
  <2> SUFFICES ASSUME NEW d \in Deliveries PROVE FlagsConsistent!(d)'
    BY ZenonT(40) DEF FlagsConsistent
  <2>1. QED
    BY DEF FlagsConsistent, Waits, IsRecovered, IsGranted
<1>2. WireFollowsTask'
  <2> SUFFICES ASSUME NEW d \in Deliveries, NEW g \in Generations
               PROVE  WireFollowsTask!(d, g)'
    BY Zenon DEF WireFollowsTask
  <2>1. CASE Waits(d)
    BY SMTT(60), Zenon, <2>1 DEF Waits, WireFollowsTask
  <2>2. CASE IsRecovered(d)
    BY <2>2, ZenonT(40) DEF IsRecovered, WireFollowsTask
  <2>3. CASE IsGranted(d)
    <3>1. row[d].generation \in Nat /\ g \in Nat
      BY SMTT(60), ZenonT(30), QueueAssumption DEF TypeOK, Row, Generations
    <3>2. wire[d][g] # "idle" => g <= row[d].generation
      BY ZenonT(40) DEF WireFollowsTask
    <3> HIDE DEF Inv
    <3>3. row'[d].generation = row[d].generation + 1 /\ wire'[d][g] = wire[d][g]
      BY <2>3, ZenonT(40) DEF IsGranted
    <3>4. wire'[d][g] # "idle" => g <= row'[d].generation /\ g # row'[d].generation
      BY <3>1, <3>2, <3>3
    <3>5. task'[d][g] # "none" => task'[d][g] = "opening" /\ g = row'[d].generation
      BY <2>3, <3>3 DEF IsGranted
    <3>6. QED
      BY <3>4, <3>5, ZenonT(40)
  <2>4. QED
    BY <2>1, <2>2, <2>3, ZenonT(40)
<1>3. SingleOwner'
  <2> SUFFICES ASSUME NEW d \in Deliveries, NEW g \in Generations
               PROVE  SingleOwner!(d, g)'
    BY Zenon DEF SingleOwner
  <2>1. SingleOwner!(d, g)
    BY Zenon DEF SingleOwner
  <2>2. task'[d][g] # "none" \/ g \in lingering'[d] => d \in active'
    BY Zenon
  <2>3. lingering'[d] = lingering[d]
    BY Zenon
  <2>4. Waits(d) \/ IsRecovered(d) \/ IsGranted(d)
    BY Zenon
  <2> HIDE DEF Inv
  <2>5. CASE Waits(d)
    BY <2>1, <2>2, <2>3, <2>5, ZenonT(40) DEF CheckLease, Waits
  <2>6. CASE IsRecovered(d)
    BY <2>2, <2>3, <2>6, ZenonT(40) DEF CheckLease, IsRecovered
  <2>7. CASE IsGranted(d)
    <3>1. /\ row'[d].state = "leased" /\ phase'[d] = "ready"
          /\ \A h \in Generations : h \notin lingering[d]
          /\ \A h \in Generations : task'[d][h] # "none" => h = row'[d].generation
      BY <2>7, ZenonT(40) DEF IsGranted
    <3>2. QED
      BY <2>2, <2>3, <3>1 DEF CheckLease
  <2>8. QED
    BY Zenon, <2>4, <2>5, <2>6, <2>7
<1>4. AcceptanceRemembered'
  BY DEF AcceptanceRemembered, MayHave, Waits, IsRecovered, IsGranted, FlagsConsistent
<1>5. NoSilentDuplicate'
  BY ZenonT(40) DEF NoSilentDuplicate, MayHave, Waits, IsRecovered, IsGranted
<1>6. QED
  BY <1>1, <1>2, <1>3, <1>4, <1>5, ZenonT(40)

\* Only leased rows without a live guard are recovered.
LEMMA OwnerlessFacts ==
    ASSUME Inv, NEW d \in Ownerless(Batch)
    PROVE  /\ d \in Deliveries
           /\ row[d].state = "leased"
           /\ \A g \in Generations : task[d][g] = "none" /\ g \notin lingering[d]
BY ZenonT(40) DEF Ownerless, RecoveryWindow, Scan, InState, Held, Live, Inv, SingleOwner

\* What recovery finds held is exactly what a guard or a reader owns.
LEMMA HeldFacts ==
    ASSUME Inv
    PROVE  /\ Held \subseteq Deliveries
           /\ Held = Live
           /\ \A d \in Deliveries, g \in Generations :
                task[d][g] # "none" \/ g \in lingering[d] => d \in Held
BY DEF Held, Live, Inv, SingleOwner

\* The recovery cursor is a delivery or the start.
LEMMA CursorType ==
    ASSUME Inv
    PROVE  NextCursor(Batch) \in Deliveries \cup {0}
<1> DEFINE last == {d \in Scan : Before(d) = Batch - 1}
<1>1. CASE last = {}
  BY <1>1 DEF NextCursor
<1>2. CASE last # {}
  <2>1. (CHOOSE d \in last : TRUE) \in last
    BY <1>2
  <2>2. last \subseteq Deliveries
    BY ZenonT(40) DEF Scan, InState
  <2>3. QED
    BY <1>2, <2>1, <2>2, ZenonT(40) DEF NextCursor
<1>3. QED
  BY <1>1, <1>2

\* What queue_recover writes.
LEMMA RecoverFacts ==
    ASSUME TypeOK, NEW S \in SUBSET Deliveries
    PROVE  /\ RecoverRows(row, S) \in [Deliveries -> Row]
           /\ RecoverPhases(S) \in [Deliveries -> Phase]
           /\ \A d \in Deliveries \ S :
                RecoverRows(row, S)[d] = row[d] /\ RecoverPhases(S)[d] = phase[d]
           /\ \A d \in S :
                LET r == RecoverRows(row, S)[d]
                IN  /\ r.state \in {"uncertain", "deferred"}
                    /\ r.possibly <=> phase[d] = "body" \/ row[d].possibly
                    /\ r.state = "uncertain" <=> r.possibly
                    /\ r.closed = row[d].closed
                    /\ r.generation = row[d].generation
                    /\ RecoverPhases(S)[d] = "none"
<1>1. \A d \in Deliveries :
        LET r == RecoverRow(row[d], phase[d])
        IN  /\ r \in Row
            /\ r.state \in {"uncertain", "deferred"}
            /\ r.possibly <=> phase[d] = "body" \/ row[d].possibly
            /\ r.state = "uncertain" <=> r.possibly
            /\ r.closed = row[d].closed
            /\ r.generation = row[d].generation
  <2> TAKE d \in Deliveries
  <2> DEFINE unknown == phase[d] = "body" \/ row[d].possibly
  <2>1. row[d] \in Row
    BY ZenonT(40) DEF TypeOK
  <2>2. unknown \in BOOLEAN
    OBVIOUS
  <2>3. RecoverRow(row[d], phase[d]) =
            [row[d] EXCEPT !.state = IF unknown THEN "uncertain" ELSE "deferred",
                           !.possibly = unknown]
    BY DEF RecoverRow
  <2> HIDE DEF unknown
  <2>4. QED
    BY ZenonT(60), <2>1, <2>2, <2>3 DEF Row, State, unknown
<1>2. QED
  BY <1>1 DEF TypeOK, Phase, RecoverRows, RecoverPhases

\* queue_recover moves only rows without an owner.
LEMMA RecoverMoves ==
    ASSUME Inv, RecoverConfirmed \/ RecoverUnconfirmed
    PROVE  /\ TypeOK'
           /\ \A d \in Deliveries : Waits(d) \/ IsRecovered(d)
           /\ active' = Held
           /\ UNCHANGED <<task, lingering, wire>>
<1> USE DEF Inv, audit, network, table
<1> DEFINE S == Ownerless(Batch)
<1>1. \A d \in S : /\ d \in Deliveries
                   /\ row[d].state = "leased"
                   /\ \A g \in Generations : task[d][g] = "none" /\ g \notin lingering[d]
  BY OwnerlessFacts, ZenonT(40)
<1> HIDE DEF S
<1>2. /\ \/ UNCHANGED <<row, phase>>
         \/ row' = RecoverRows(row, S) /\ phase' = RecoverPhases(S)
      /\ active' = Held
      /\ cursor' \in {cursor, NextCursor(Batch)}
      /\ UNCHANGED <<expired, asked, consented, clockChanged, task, lingering, wire>>
  BY ZenonT(40) DEF RecoverConfirmed, RecoverUnconfirmed, S
<1>3. TypeOK'
  <2>1. S \in SUBSET Deliveries /\ TypeOK
    BY <1>1
  <2>2. row' \in [Deliveries -> Row] /\ phase' \in [Deliveries -> Phase]
    <3>1. RecoverRows(row, S) \in [Deliveries -> Row] /\ RecoverPhases(S) \in [Deliveries -> Phase]
      BY <2>1, RecoverFacts, ZenonT(40)
    <3>2. row \in [Deliveries -> Row] /\ phase \in [Deliveries -> Phase]
      BY <2>1, ZenonT(40) DEF TypeOK
    <3> HIDE DEF Inv
    <3>3. QED
      BY Zenon, <1>2, <3>1, <3>2
  <2> HIDE DEF Inv
  <2>3. QED
    BY <1>2, <2>1, <2>2, HeldFacts, CursorType, ZenonT(40) DEF TypeOK
<1>4. \A d \in Deliveries : Waits(d) \/ IsRecovered(d)
  <2> TAKE d \in Deliveries
  <2>1. CASE d \in S /\ row' = RecoverRows(row, S) /\ phase' = RecoverPhases(S)
    BY <1>1, <1>2, <2>1, RecoverFacts DEF IsRecovered
  <2>2. CASE d \notin S \/ UNCHANGED <<row, phase>>
    BY <1>1, <1>2, <2>2, RecoverFacts DEF Waits
  <2>3. QED
    BY <1>2, <2>1, <2>2, ZenonT(40)
<1>5. QED
  BY <1>2, <1>3, <1>4, ZenonT(40)

\* queue_recover keeps what a lost attempt may have done.
LEMMA RecoverInv ==
    ASSUME Inv, RecoverConfirmed \/ RecoverUnconfirmed
    PROVE  Inv'
BY RecoverMoves, HeldFacts, SchedulerMoves, ZenonT(40)

\* A row that a claim grants or holds was waiting, unexpired and unguarded, and
\* neither the recovery nor the expiry of the same call has touched it.
LEMMA CandidateFacts ==
    ASSUME Inv, NEW gone, gone = Ownerless(Batch),
           NEW late \in ExpiryBatches(RecoverRows(row, gone)),
           NEW r, r = ExpireRows(RecoverRows(row, gone), late),
           NEW d \in Candidates(r, gone)
    PROVE  /\ d \in Deliveries
           /\ r[d] = row[d]
           /\ row[d].state \in {"pending", "deferred"}
           /\ d \notin gone
           /\ d \notin late
           /\ \A g \in Generations : task[d][g] = "none" /\ g \notin lingering[d]
<1>1. /\ d \in Deliveries
      /\ r[d].state \in {"pending", "deferred"}
      /\ ~expired[d]
      /\ d \notin gone
      /\ d \notin Held
  BY ZenonT(40) DEF Candidates, InState
<1>2. d \notin late
  BY <1>1, ZenonT(40) DEF ExpiryBatches
<1>3. r[d] = row[d]
  BY <1>1, <1>2, ZenonT(40) DEF ExpireRows, RecoverRows
<1>4. QED
  BY <1>1, <1>2, <1>3, HeldFacts, ZenonT(40)

\* What recovery makes of row d and of its phase, and expiry of a row.
Recovery(d, after, next) ==
    /\ after.state \in {"uncertain", "deferred"}
    /\ after.possibly <=> phase[d] = "body" \/ row[d].possibly
    /\ after.state = "uncertain" <=> after.possibly
    /\ after.closed = row[d].closed
    /\ after.generation = row[d].generation
    /\ next = "none"

Expiry(before, after) ==
    /\ after.state = IF before.possibly THEN "uncertain" ELSE "failed"
    /\ after.possibly = before.possibly
    /\ after.closed = before.closed
    /\ after.generation = before.generation

\* What queue_claim does to each row; every grant gets at most one task.
LEMMA ClaimMoves ==
    ASSUME Inv, Claim
    PROVE  /\ TypeOK'
           /\ \A d \in Deliveries : Waits(d) \/ IsRecovered(d) \/ IsGranted(d)
           /\ \A d \in Deliveries, g \in Generations :
                task'[d][g] # "none" \/ g \in lingering[d] => d \in active'
           /\ UNCHANGED <<lingering, wire>>
<1> USE DEF Inv
<1> DEFINE gone == Ownerless(Batch)
           recovered == RecoverRows(row, gone)
<1>1. PICK late \in ExpiryBatches(recovered) :
        LET r == ExpireRows(recovered, late)
        IN  \E G \in Grants(r, gone), H \in Holds(r, gone) :
                /\ ClaimCommits(r, gone, G, H)
                /\ \/ Spawn(G) /\ active' = Held \cup G
                   \/ G # {} /\ UNCHANGED task /\ active' = Held
  BY DEF Claim
<1> DEFINE r == ExpireRows(recovered, late)
<1>2. PICK G \in Grants(r, gone), H \in Holds(r, gone) :
        /\ ClaimCommits(r, gone, G, H)
        /\ \/ Spawn(G) /\ active' = Held \cup G
           \/ G # {} /\ UNCHANGED task /\ active' = Held
  BY <1>1, ZenonT(40)
<1>3. /\ cursor' = NextCursor(Batch)
      /\ UNCHANGED <<expired, clockChanged, lingering, wire>>
  BY ZenonT(40) DEF Claim
<1>4. \A d \in gone : /\ d \in Deliveries
                      /\ row[d].state = "leased"
                      /\ \A g \in Generations : task[d][g] = "none" /\ g \notin lingering[d]
  BY OwnerlessFacts, ZenonT(40)
<1>5. /\ recovered \in [Deliveries -> Row]
      /\ late \in SUBSET InState(recovered, {"pending", "deferred"})
      /\ r \in [Deliveries -> Row]
  BY <1>4, RecoverFacts, ExpireRowsFacts, ZenonT(40) DEF ExpiryBatches
<1>6. \A d \in G : d \in Candidates(r, gone) /\ ~Exhausted(r, d)
  BY ZenonT(40) DEF Grants
<1>7. \A d \in H : d \in Candidates(r, gone) /\ Exhausted(r, d)
  BY ZenonT(40) DEF Holds
<1>8. \A d \in G \cup H :
        /\ d \in Deliveries
        /\ r[d] = row[d]
        /\ row[d].state \in {"pending", "deferred"}
        /\ d \notin gone
        /\ d \notin late
        /\ \A g \in Generations : task[d][g] = "none" /\ g \notin lingering[d]
  <2> SUFFICES ASSUME NEW d \in G \cup H
               PROVE  /\ d \in Deliveries
                      /\ r[d] = row[d]
                      /\ row[d].state \in {"pending", "deferred"}
                      /\ d \notin gone
                      /\ d \notin late
                      /\ \A g \in Generations : task[d][g] = "none" /\ g \notin lingering[d]
    BY Zenon
  <2>1. d \in Candidates(r, gone)
    BY Zenon, <1>6, <1>7
  <2>2. /\ gone = Ownerless(Batch)
        /\ late \in ExpiryBatches(RecoverRows(row, gone))
        /\ r = ExpireRows(RecoverRows(row, gone), late)
    BY Zenon
  <2> HIDE DEF gone, recovered, r, Inv
  <2>3. QED
    BY <2>1, <2>2, CandidateFacts
<1>9. \A d \in G : row[d].generation + 1 \in Generations
  <2> SUFFICES ASSUME NEW d \in G PROVE row[d].generation + 1 \in Generations
    OBVIOUS
  <2>1. row[d].generation \in 0..MaxCounter /\ row[d].generation # MaxCounter
    BY ZenonT(60), <1>6, <1>8 DEF TypeOK, Row, Exhausted
  <2>2. QED
    BY SMTT(30), ZenonT(30), <2>1, QueueAssumption DEF Generations
<1>r. /\ RecoverPhases(gone) \in [Deliveries -> Phase]
      /\ \A d \in Deliveries \ gone : recovered[d] = row[d] /\ RecoverPhases(gone)[d] = phase[d]
      /\ \A d \in gone : Recovery(d, recovered[d], RecoverPhases(gone)[d])
  <2>1. TypeOK /\ gone \in SUBSET Deliveries
    BY <1>4, ZenonT(40)
  <2> HIDE DEF gone, Inv
  <2>2. QED
    BY <2>1, RecoverFacts, ZenonT(40) DEF Recovery
<1>x. /\ \A d \in Deliveries \ late : r[d] = recovered[d]
      /\ \A d \in late : Expiry(recovered[d], r[d])
  <2> HIDE DEF recovered, Inv
  <2>1. QED
    BY <1>5, ExpireRowsFacts, ZenonT(40) DEF Expiry
<1> HIDE DEF gone, recovered, r
<1>10. /\ row' = ClaimRows(r, G, H)
       /\ phase' = [d \in Deliveries |->
                        IF d \in G THEN "ready" ELSE RecoverPhases(gone)[d]]
       /\ consented' = [d \in Deliveries |->
                            IF d \in G /\ asked[d]
                            THEN consented[d] \cup {row[d].generation + 1}
                            ELSE consented[d]]
       /\ asked' = [d \in Deliveries |-> asked[d] /\ d \notin G]
  BY <1>2, ZenonT(40) DEF ClaimCommits
<1>11. \A d \in Deliveries \ (G \cup H) : row'[d] = r[d]
  BY <1>10 DEF ClaimRows
<1>12. \A d \in G : /\ row'[d] \in Row
                    /\ row'[d].state = "leased"
                    /\ row'[d].possibly = row[d].possibly
                    /\ row'[d].closed = row[d].closed
                    /\ row'[d].generation = row[d].generation + 1
  <2> TAKE d \in G
  <2>1. d \in Deliveries /\ r[d] = row[d]
    BY <1>8, ZenonT(40)
  <2>2. row'[d] = ClaimRow(row[d])
    BY <1>6, <1>7, <1>10, <2>1, ZenonT(40) DEF ClaimRows
  <2>3. row[d] \in Row
    BY <2>1, ZenonT(40) DEF TypeOK
  <2>4. row[d].generation + 1 \in 0..MaxCounter
    BY <1>9, QueueAssumption DEF Generations
  <2>5. QED
    BY ZenonT(60), <2>2, <2>3, <2>4 DEF ClaimRow, Row, State
<1>13. \A d \in H \ G : row'[d] = [row[d] EXCEPT !.state = "hold"] /\ row[d] \in Row
  BY ZenonT(60), <1>8, <1>10 DEF ClaimRows, TypeOK
<1>14. TypeOK'
  <2>1. row' \in [Deliveries -> Row]
    <3>1. \A d \in Deliveries : row'[d] \in Row
      BY ZenonT(60), <1>5, <1>11, <1>12, <1>13, StateChange DEF State
    <3>2. QED
      BY <1>10, <3>1, ZenonT(40) DEF ClaimRows
  <2>2. phase' \in [Deliveries -> Phase]
    <3> HIDE DEF Inv
    <3>1. \A d \in Deliveries : (IF d \in G THEN "ready" ELSE RecoverPhases(gone)[d]) \in Phase
      BY <1>r, ZenonT(40) DEF Phase
    <3>2. QED
      BY Zenon, <1>10, <3>1
  <2>3. consented' \in [Deliveries -> SUBSET Generations]
    <3>1. \A d \in Deliveries : consented'[d] \in SUBSET Generations
      BY <1>9, <1>10, ZenonT(40) DEF TypeOK
    <3>2. QED
      BY ZenonT(30), <1>10, <3>1
  <2>4. asked' \in [Deliveries -> BOOLEAN]
    <3>1. \A d \in Deliveries : (asked[d] /\ d \notin G) \in BOOLEAN
      OBVIOUS
    <3>2. QED
      BY <1>10, <3>1, Zenon
  <2>5. active' \subseteq Deliveries
    BY <1>2, <1>8, HeldFacts, ZenonT(40)
  <2>6. task' \in [Deliveries -> [Generations -> Task]]
    BY <1>2 DEF Spawn, Task, Working, TypeOK
  <2>7. QED
    BY <1>3, <2>1, <2>2, <2>3, <2>4, <2>5, <2>6, CursorType, ZenonT(40) DEF TypeOK
<1>15. \A d \in Deliveries : Waits(d) \/ IsRecovered(d) \/ IsGranted(d)
  <2> TAKE d \in Deliveries
  <2>1. task'[d] = task[d] \/ d \in G
    BY SMTT(60), ZenonT(30), <1>2 DEF Spawn, TypeOK
  <2>2. CASE d \in G
    <3>1. asked[d] => row[d].generation + 1 \in consented'[d]
      BY <1>10, <2>2, ZenonT(40)
    <3>2. consented[d] \subseteq consented'[d] /\ phase'[d] = "ready"
      BY <1>10, <2>2, ZenonT(40)
    <3>3. \A g \in Generations :
            task'[d][g] # "none" => g = row[d].generation + 1 /\ task'[d][g] = "opening"
      BY <1>2, <1>8, <2>2 DEF Spawn
    <3>4. QED
      BY ZenonT(30), <1>8, <1>9, <1>12, <2>2, <3>1, <3>2, <3>3 DEF IsGranted
  <2>3. CASE d \notin G
    <3>1. task'[d] = task[d] /\ consented'[d] = consented[d] /\ phase'[d] = RecoverPhases(gone)[d]
      BY <1>10, <2>1, <2>3, ZenonT(40)
    <3>2. asked'[d] = asked[d]
      BY <1>10, <2>3, ZenonT(40) DEF TypeOK
    <3>3. CASE d \in gone
      <4>1. d \notin H /\ row'[d] = r[d]
        BY <1>8, <1>11, <2>3, <3>3, ZenonT(40)
      <4>2. /\ recovered[d].state \in {"uncertain", "deferred"}
            /\ recovered[d].possibly <=> phase[d] = "body" \/ row[d].possibly
            /\ recovered[d].state = "uncertain" <=> recovered[d].possibly
            /\ recovered[d].closed = row[d].closed
            /\ recovered[d].generation = row[d].generation
            /\ phase'[d] = "none"
        BY Zenon, <1>r, <3>1, <3>3 DEF Recovery
      <4>3. CASE d \notin late
        <5>1. row'[d] = recovered[d]
          BY Zenon, <1>x, <4>1, <4>3
        <5>2. QED
          BY ZenonT(60), <1>4, <3>1, <3>2, <3>3, <4>2, <5>1 DEF IsRecovered
      <4>4. CASE d \in late
        <5>1. recovered[d].state = "deferred"
          BY <1>5, <4>2, <4>4, ZenonT(40) DEF InState
        <5>2. /\ row'[d].state = "failed"
              /\ row'[d].possibly = recovered[d].possibly
              /\ row'[d].closed = recovered[d].closed
              /\ row'[d].generation = recovered[d].generation
          BY Zenon, <1>x, <4>1, <4>2, <4>4, <5>1 DEF Expiry
        <5>3. QED
          BY ZenonT(30), <1>4, <3>1, <3>2, <3>3, <4>2, <5>1, <5>2 DEF IsRecovered
      <4>5. QED
        BY <4>3, <4>4, ZenonT(40)
    <3>4. CASE d \notin gone
      <4>1. recovered[d] = row[d] /\ phase'[d] = phase[d]
        BY Zenon, <1>r, <3>1, <3>4
      <4>2. CASE d \in H
        <5>1. row'[d] = [row[d] EXCEPT !.state = "hold"] /\ row[d] \in Row
          BY <1>13, <2>3, <4>2, ZenonT(40)
        <5>2. QED
          BY <1>8, <3>1, <3>2, <4>1, <4>2, <5>1, ZenonT(40) DEF Waits, Row
      <4>3. CASE d \notin H /\ d \in late
        <5>1. row'[d] = r[d] /\ row[d].state \in {"pending", "deferred"}
          BY <1>5, <1>11, <2>3, <4>1, <4>3, ZenonT(40) DEF InState
        <5>2. /\ r[d].state = IF row[d].possibly THEN "uncertain" ELSE "failed"
              /\ r[d].possibly = row[d].possibly
              /\ r[d].closed = row[d].closed
              /\ r[d].generation = row[d].generation
          BY Zenon, <1>x, <4>1, <4>3 DEF Expiry
        <5>3. QED
          BY <3>1, <3>2, <4>1, <5>1, <5>2, ZenonT(40) DEF Waits
      <4>4. CASE d \notin H /\ d \notin late
        <5>1. row'[d] = row[d]
          BY Zenon, <1>x, <1>11, <2>3, <4>1, <4>4
        <5>2. QED
          BY ZenonT(60), <3>1, <3>2, <4>1, <5>1 DEF Waits
      <4>5. QED
        BY <4>2, <4>3, <4>4, ZenonT(40)
    <3>5. QED
      BY <3>3, <3>4, ZenonT(40)
  <2>4. QED
    BY <2>2, <2>3, ZenonT(40)
<1>16. \A d \in Deliveries, g \in Generations :
        task'[d][g] # "none" \/ g \in lingering[d] => d \in active'
  BY <1>2, HeldFacts DEF Spawn
<1>17. QED
  BY <1>3, <1>14, <1>15, <1>16, ZenonT(40)

\* queue_claim grants leases on due, unowned rows only.
LEMMA ClaimInv ==
    ASSUME Inv, Claim
    PROVE  Inv'
BY ClaimMoves, SchedulerMoves, ZenonT(40)

-----------------------------------------------------------------------------
(* Time, crashes, and the theorems                                         *)

\* Time passes, or the clock guard stops scheduling: no row changes.
LEMMA ClockInv ==
    ASSUME Inv, ClockJumps \/ \E d \in Deliveries : Expires(d)
    PROVE  Inv'
<1>1. UNCHANGED <<row, phase, asked, consented, active, cursor, task, lingering, wire>>
  BY ZenonT(40) DEF ClockJumps, Expires, table, audit, runtime, network
<1>2. clockChanged' \in BOOLEAN /\ expired' \in [Deliveries -> BOOLEAN]
  BY ZenonT(40) DEF Inv, TypeOK, ClockJumps, Expires, runtime
<1>3. TypeOK'
  BY <1>1, <1>2, ZenonT(40) DEF Inv, TypeOK
<1>4. FlagsConsistent'
  BY <1>1, ZenonT(40) DEF Inv, FlagsConsistent
<1>5. WireFollowsTask'
  BY <1>1, ZenonT(40) DEF Inv, WireFollowsTask
<1>6. SingleOwner'
  BY SMTT(20), ZenonT(30), <1>1 DEF Inv, SingleOwner, CheckLease
<1>7. AcceptanceRemembered'
  BY <1>1, ZenonT(40) DEF Inv, AcceptanceRemembered, MayHave
<1>8. NoSilentDuplicate'
  BY <1>1, ZenonT(40) DEF Inv, NoSilentDuplicate, MayHave
<1>9. QED
  BY <1>3, <1>4, <1>5, <1>6, <1>7, <1>8, ZenonT(40) DEF Inv

\* A crash at any point: what the tables hold is enough.
LEMMA CrashInv ==
    ASSUME Inv, Crash
    PROVE  Inv'
<1> USE DEF Inv, Crash, table, audit
<1>1. TypeOK'
  <2>1. expired' \in [Deliveries -> BOOLEAN]
    <3>1. PICK late \in SUBSET Unsettled :
            expired' = [d \in Deliveries |->
                            IF d \in Unsettled THEN d \in late ELSE expired[d]]
      OBVIOUS
    <3>2. \A d \in Deliveries : (d \in late) \in BOOLEAN /\ expired[d] \in BOOLEAN
      BY DEF TypeOK
    <3>3. \A d \in Deliveries :
            (IF d \in Unsettled THEN d \in late ELSE expired[d]) \in BOOLEAN
      BY <3>2, Zenon
    <3>4. QED
      BY <3>1, <3>3, Zenon
  <2>2. QED
    BY ZenonT(60), <2>1 DEF TypeOK, Task
<1>2. FlagsConsistent' /\ WireFollowsTask' /\ SingleOwner'
  BY ZenonT(60) DEF FlagsConsistent, WireFollowsTask, SingleOwner, CheckLease
<1>3. AcceptanceRemembered' /\ NoSilentDuplicate'
  BY ZenonT(60) DEF AcceptanceRemembered, NoSilentDuplicate, MayHave
<1>4. QED
  BY <1>1, <1>2, <1>3, ZenonT(40)

\* An empty queue satisfies Inv.
LEMMA InitInv == Init => Inv
<1> SUFFICES ASSUME Init PROVE Inv
  OBVIOUS
<1> USE DEF Init
<1>1. TypeOK
  <2>1. [state |-> "absent", possibly |-> FALSE, closed |-> FALSE, generation |-> 0] \in Row
    BY QueueAssumption DEF Row, State
  <2>2. row \in [Deliveries -> Row]
    BY <2>1, ZenonT(40)
  <2>3. QED
    BY <2>2, ZenonT(40) DEF TypeOK, Phase, Task, Wire
<1>2. FlagsConsistent /\ WireFollowsTask /\ SingleOwner
  BY ZenonT(40) DEF FlagsConsistent, WireFollowsTask, SingleOwner, CheckLease
<1>3. AcceptanceRemembered /\ NoSilentDuplicate
  BY ZenonT(40) DEF AcceptanceRemembered, NoSilentDuplicate, MayHave
<1>4. QED
  BY <1>1, <1>2, <1>3 DEF Inv

\* Every step preserves Inv.
LEMMA NextInv ==
    ASSUME Inv, Next
    PROVE  Inv'
<1>1. CASE Expire
  BY <1>1, ExpireInv, ZenonT(40)
<1>2. CASE RecoverConfirmed \/ RecoverUnconfirmed
  BY <1>2, RecoverInv, ZenonT(40)
<1>3. CASE Claim
  BY <1>3, ClaimInv
<1>4. CASE ClockJumps \/ \E d \in Deliveries : Expires(d)
  BY <1>4, ClockInv, ZenonT(40)
<1>5. CASE Crash
  BY <1>5, CrashInv
<1>6. CASE \E d \in Deliveries : Enqueue(d)
  BY <1>6, EnqueueInv, ZenonT(40)
<1>7. CASE \E d \in Deliveries : Operator(d)
  BY <1>7, OperatorHoldInv, OperatorRetryInv, OperatorCloseInv, ZenonT(40) DEF Operator
<1>8. CASE \E d \in Deliveries, g \in Generations : Attempt(d, g)
  <2>1. PICK d \in Deliveries, g \in Generations : Attempt(d, g)
    BY <1>8, ZenonT(40)
  <2>2. QED
    BY <2>1, OpenBodyInv, DialInv, MarkBodyInv, FinalDotInv, BodyFailsInv, FinalReplyInv,
       RenewFailsInv, FinishInv, ZenonT(40) DEF Attempt
<1>9. CASE \E d \in Deliveries, g \in Generations :
            RemoteDecides(d, g) \/ Abort(d, g) \/ ReaderEnds(d, g)
  BY <1>9, RemoteDecidesInv, AbortInv, ReaderEndsInv, ZenonT(40)
<1>10. QED
  BY <1>1, <1>2, <1>3, <1>4, <1>5, <1>6, <1>7, <1>8, <1>9, ZenonT(40) DEF Next

\* A stuttering step preserves Inv.
LEMMA StutterInv ==
    ASSUME Inv, UNCHANGED vars
    PROVE  Inv'
<1>1. UNCHANGED <<row, phase, expired, asked, consented, active, cursor, clockChanged, task,
                  lingering, wire>>
  BY ZenonT(40) DEF vars, table, audit, runtime, network
<1>2. TypeOK' /\ FlagsConsistent'
  BY <1>1, ZenonT(40) DEF Inv, TypeOK, FlagsConsistent
<1>3. WireFollowsTask' /\ SingleOwner'
  <2>a. \A d \in Deliveries, g \in Generations : CheckLease(d, g)' <=> CheckLease(d, g)
    BY <1>1, ZenonT(40) DEF CheckLease
  <2>1. SingleOwner'
    BY <1>1, <2>a, ZenonT(40) DEF Inv, SingleOwner
  <2>2. WireFollowsTask'
    BY <1>1, ZenonT(40) DEF Inv, WireFollowsTask
  <2>3. QED
    BY <2>1, <2>2
<1>4. AcceptanceRemembered' /\ NoSilentDuplicate'
  BY <1>1, ZenonT(40) DEF Inv, AcceptanceRemembered, NoSilentDuplicate, MayHave
<1>5. QED
  BY <1>2, <1>3, <1>4, ZenonT(40) DEF Inv

\* Inv is an invariant of the queue for every value of the constants.
THEOREM InductiveInvariant == Spec => []Inv
<1>1. Inv /\ [Next]_vars => Inv'
  BY NextInv, StutterInv, ZenonT(40)
<1>2. QED
  BY InitInv, <1>1, PTL DEF Spec

\* The tables, the runtime and the tasks keep their types.
THEOREM TypeCorrect == Spec => []TypeOK
<1>1. Inv => TypeOK
  BY DEF Inv
<1>2. QED
  BY <1>1, InductiveInvariant, PTL

\* queue_mark_body, queue_recover, queue_finish and queue_retry together never
\* let a second attempt reach the remote without audited consent.
THEOREM NoDuplicateWithoutConsent == Spec => []NoSilentDuplicate
<1>1. Inv => NoSilentDuplicate
  BY ZenonT(40) DEF Inv
<1>2. QED
  BY <1>1, InductiveInvariant, PTL

\* Crashes, lost commits and aborted tasks never make the tables forget an
\* attempt that the remote may have accepted.
THEOREM RemembersAcceptance == Spec => []AcceptanceRemembered
<1>1. Inv => AcceptanceRemembered
  BY ZenonT(40) DEF Inv
<1>2. QED
  BY <1>1, InductiveInvariant, PTL

\* A failure notice is never due for a message that may have been accepted.
THEOREM FailureIsCertain == Spec => []FailedMeansNotAccepted
<1>1. Inv => FailedMeansNotAccepted
  BY ZenonT(40) DEF Inv, FailedMeansNotAccepted, AcceptanceRemembered, FlagsConsistent
<1>2. QED
  BY <1>1, InductiveInvariant, PTL

\* A live lease or reader is the only one of its delivery and owns its row.
THEOREM OwnerIsUnique == Spec => []SingleOwner
<1>1. Inv => SingleOwner
  BY ZenonT(40) DEF Inv
<1>2. QED
  BY <1>1, InductiveInvariant, PTL

\* Every commit leaves the queue tables without integrity mismatches.
THEOREM IntegrityKept == Spec => []QueueIntegrity
<1>1. Inv => QueueIntegrity
  BY ZenonT(40) DEF Inv, QueueIntegrity, FlagsConsistent
<1>2. QED
  BY <1>1, InductiveInvariant, PTL

-----------------------------------------------------------------------------
(* What a step may never do to a row                                       *)

\* A settled row stays, and an unsettled one forgets possibly_delivered only
\* by becoming delivered.
RowStep(d) ==
    \/ row'[d] = row[d]
    \/ /\ row[d].state \notin {"delivered", "failed"}
       /\ ~row[d].closed
       /\ row[d].possibly => row'[d].possibly \/ row'[d].state = "delivered"

\* Recovery and claim change a row only as RowStep allows.
LEMMA SchedulerRowStep ==
    ASSUME Inv, NEW d \in Deliveries, Waits(d) \/ IsRecovered(d) \/ IsGranted(d)
    PROVE  RowStep(d)
BY ZenonT(40) DEF Inv, FlagsConsistent, Waits, IsRecovered, IsGranted, RowStep

\* queue_finish changes a row only as RowStep allows.
LEMMA FinishRowStep ==
    ASSUME Inv, NEW d \in Deliveries, NEW g \in Generations, Finish(d, g), NEW e \in Deliveries
    PROVE  RowStep(e)
<1>1. CASE row' = row
  BY <1>1, ZenonT(40) DEF RowStep
<1>2. CASE row' = [row EXCEPT ![d] = FinishRow(row[d], task[d][g], phase[d])]
  <2>1. row[d].state = "leased" /\ ~row[d].closed
    BY ZenonT(40) DEF Finish, QueueResult, Inv, SingleOwner, CheckLease, FlagsConsistent
  <2>2. row[d] \in Row
    BY DEF Inv, TypeOK
  <2>3. row[d].possibly => \/ row'[d].possibly
                           \/ row'[d].state = "delivered"
    BY <1>2, <2>2, ZenonT(40) DEF FinishRow, Row, Inv, TypeOK
  <2>4. QED
    BY <1>2, <2>1, <2>3, ZenonT(40) DEF RowStep, Inv, TypeOK
<1>3. QED
  BY <1>1, <1>2, ZenonT(40) DEF Finish, table

\* The operator's commands change a row only as RowStep allows.
LEMMA OperatorRowStep ==
    ASSUME Inv, NEW d \in Deliveries, Operator(d), NEW e \in Deliveries
    PROVE  RowStep(e)
<1>1. row[d] \in Row
  BY DEF Inv, TypeOK
<1>2. CASE OperatorHold(d)
  BY <1>1, <1>2, ZenonT(40) DEF OperatorHold, HoldRow, RowStep, Row, Inv, TypeOK
<1>3. CASE \E a, x \in BOOLEAN : OperatorRetry(d, a, x)
  BY <1>1, <1>3 DEF OperatorRetry, RetryAllowed, RowStep, Row, Inv, TypeOK
<1>4. CASE OperatorClose(d)
  BY <1>1, <1>4, ZenonT(40) DEF OperatorClose, RowStep, Row, Inv, TypeOK
<1>5. QED
  BY <1>2, <1>3, <1>4, ZenonT(40) DEF Operator

\* Every step changes a row only as RowStep allows.
LEMMA NextRowStep ==
    ASSUME Inv, Next, NEW e \in Deliveries
    PROVE  RowStep(e)
<1>1. CASE Expire
  <2>1. PICK S \in ExpiryBatches(row) : row' = ExpireRows(row, S)
    BY <1>1, ZenonT(40) DEF Expire
  <2>2. S \in SUBSET InState(row, {"pending", "deferred"}) /\ row \in [Deliveries -> Row]
    BY DEF ExpiryBatches, Inv, TypeOK
  <2>3. /\ e \notin S => row'[e] = row[e]
        /\ e \in S => /\ row[e].state \in {"pending", "deferred"}
                      /\ row'[e].possibly = row[e].possibly
    BY <2>1, <2>2, ExpireRowsFacts DEF InState
  <2>4. row[e].closed => row[e].state = "uncertain"
    BY ZenonT(40) DEF Inv, FlagsConsistent
  <2>5. QED
    BY <2>3, <2>4 DEF RowStep
<1>2. CASE RecoverConfirmed \/ RecoverUnconfirmed
  BY <1>2, RecoverMoves, SchedulerRowStep, ZenonT(40)
<1>3. CASE Claim
  BY <1>3, ClaimMoves, SchedulerRowStep, ZenonT(40)
<1>4. CASE ClockJumps \/ Crash \/ \E d \in Deliveries : Expires(d)
  BY <1>4, ZenonT(40) DEF ClockJumps, Crash, Expires, table, RowStep
<1>5. CASE \E d \in Deliveries : Enqueue(d)
  BY <1>5, ZenonT(40) DEF Enqueue, RowStep, Inv, TypeOK, FlagsConsistent
<1>6. CASE \E d \in Deliveries : Operator(d)
  BY <1>6, OperatorRowStep, ZenonT(40)
<1>7. CASE \E d \in Deliveries, g \in Generations : Attempt(d, g) /\ ~Finish(d, g)
  <2>1. row' = row
    BY <1>7, ZenonT(40) DEF Attempt, OpenBody, Dial, MarkBody, FinalDot, BodyFails, FinalReply,
                            RenewFails, table
  <2>2. QED
    BY <2>1, ZenonT(40) DEF RowStep
<1>8. CASE \E d \in Deliveries, g \in Generations : Finish(d, g)
  BY <1>8, FinishRowStep, ZenonT(40)
<1>9. CASE \E d \in Deliveries, g \in Generations :
            RemoteDecides(d, g) \/ Abort(d, g) \/ ReaderEnds(d, g)
  BY <1>9 DEF RemoteDecides, Abort, ReaderEnds, table, RowStep
<1>10. QED
  BY <1>1, <1>2, <1>3, <1>4, <1>5, <1>6, <1>7, <1>8, <1>9, ZenonT(40) DEF Next

\* No step of any actor clears possibly_delivered except a confirmed delivery.
THEOREM UncertaintyIsKept == Spec => UncertaintyKept
<1>1. Inv /\ [Next]_vars =>
        [\A d \in Deliveries :
            row[d].possibly /\ ~row'[d].possibly => row'[d].state = "delivered"]_vars
  BY NextRowStep DEF RowStep
<1>2. QED
  BY <1>1, InductiveInvariant, PTL DEF Spec, UncertaintyKept

\* No step of any actor changes a delivered, failed or closed row.
THEOREM SettledRowsAreFrozen == Spec => TerminalRowsFrozen
<1>1. Inv /\ [Next]_vars =>
        [\A d \in Deliveries :
            row[d].state \in {"delivered", "failed"} \/ row[d].closed => row'[d] = row[d]]_vars
  BY NextRowStep DEF RowStep
<1>2. QED
  BY <1>1, InductiveInvariant, PTL DEF Spec, TerminalRowsFrozen

-----------------------------------------------------------------------------
(* Slots                                                                   *)

\* Sets of deliveries can be counted.
LEMMA LiveFinite ==
    ASSUME NEW S \in SUBSET Deliveries
    PROVE  IsFiniteSet(S) /\ Cardinality(S) \in Nat
BY ZenonT(60), QueueAssumption, FS_Subset, FS_CardinalityType

\* Fewer live guards keep within limits that more guards kept.
LEMMA FewerGuards ==
    ASSUME SlotsRespected, Live' \subseteq Live
    PROVE  SlotsRespected'
<1> DEFINE Of(S, d) == {e \in S : DomainOf[e] = DomainOf[d]}
<1>1. Live \in SUBSET Deliveries /\ Live' \in SUBSET Deliveries
  BY DEF Live
<1>2. Cardinality(Live') <= Cardinality(Live)
  BY <1>1, LiveFinite, FS_Subset, ZenonT(40)
<1>3. Cardinality(Live') <= Concurrency
  BY <1>1, <1>2, LiveFinite, QueueAssumption DEF SlotsRespected
<1>4. ASSUME NEW d \in Live' PROVE Cardinality(Of(Live', d)) <= PerDomain
  <2>1. Of(Live', d) \in SUBSET Of(Live, d) /\ Of(Live, d) \in SUBSET Deliveries
    BY <1>1, ZenonT(40)
  <2>2. Cardinality(Of(Live', d)) <= Cardinality(Of(Live, d))
    BY <2>1, LiveFinite, FS_Subset, ZenonT(40)
  <2>3. Cardinality(Of(Live, d)) <= PerDomain
    BY <1>4 DEF SlotsRespected
  <2>4. Of(Live', d) \in SUBSET Deliveries
    BY <2>1
  <2> HIDE DEF Of
  <2>5. QED
    BY <2>1, <2>2, <2>3, <2>4, LiveFinite, QueueAssumption
<1>5. QED
  BY <1>3, <1>4, ZenonT(40) DEF SlotsRespected

\* The guards after a claim are those held before it and its grants.
LEMMA ClaimSlots ==
    ASSUME Inv, SlotsRespected, Claim
    PROVE  SlotsRespected'
<1> DEFINE Of(S, d) == {e \in S : DomainOf[e] = DomainOf[d]}
<1>1. PICK G \in SUBSET Deliveries :
        /\ Live' \subseteq Held \cup G
        /\ Cardinality(G) + Cardinality(Held) <= Concurrency
        /\ \A d \in G : Cardinality(Of(G \cup Held, d)) <= PerDomain
  <2> DEFINE gone == Ownerless(Batch)
             Commits(late) ==
                LET r == ExpireRows(RecoverRows(row, gone), late)
                IN  \E G \in Grants(r, gone), H \in Holds(r, gone) :
                        /\ ClaimCommits(r, gone, G, H)
                        /\ \/ Spawn(G) /\ active' = Held \cup G
                           \/ G # {} /\ UNCHANGED task /\ active' = Held
  <2>1. PICK late \in ExpiryBatches(RecoverRows(row, gone)) : Commits(late)
    BY ZenonT(40) DEF Claim
  <2> DEFINE r == ExpireRows(RecoverRows(row, gone), late)
  <2>2. PICK G \in Grants(r, gone) : Spawn(G) \/ UNCHANGED task
    BY <2>1
  <2>3. G \in SUBSET Deliveries
    BY ZenonT(60) DEF Grants, Candidates, InState
  <2>4. Live' \subseteq Held \cup G
    <3>1. lingering' = lingering
      BY ZenonT(40) DEF Claim
    <3>2. \A d \in Deliveries \ G : task'[d] = task[d]
      BY <2>2 DEF Spawn, Inv, TypeOK
    <3>3. Live' \ G \subseteq Live
      BY <3>1, <3>2, ZenonT(40) DEF Live
    <3>4. QED
      BY <3>3, HeldFacts, ZenonT(40)
  <2>5. QED
    BY <2>2, <2>3, <2>4, ZenonT(40) DEF Grants
<1>2. Held = Live /\ Held \in SUBSET Deliveries
  BY HeldFacts, ZenonT(40)
<1>3. Live' \in SUBSET Deliveries /\ G \cup Held \in SUBSET Deliveries
  BY <1>2, ZenonT(40) DEF Live
<1>4. Cardinality(Live') <= Concurrency
  <2>1. Cardinality(Live') <= Cardinality(G \cup Held)
    BY <1>1, <1>3, LiveFinite, FS_Subset, ZenonT(40)
  <2>2. Cardinality(G \cup Held) = Cardinality(G) + Cardinality(Held) - Cardinality(G \cap Held)
    BY <1>2, LiveFinite, FS_Union, ZenonT(40)
  <2>3. /\ Cardinality(G) \in Nat /\ Cardinality(Held) \in Nat
        /\ Cardinality(G \cap Held) \in Nat /\ Cardinality(Live') \in Nat
    <3>1. G \cap Held \in SUBSET Deliveries
      BY <1>2, ZenonT(40)
    <3>2. QED
      BY <1>2, <1>3, <3>1, LiveFinite, ZenonT(40)
  <2>4. QED
    BY <1>1, <2>1, <2>2, <2>3, QueueAssumption
<1>5. ASSUME NEW d \in Live' PROVE Cardinality(Of(Live', d)) <= PerDomain
  <2>1. PICK T \in SUBSET Deliveries : Of(Live', d) \subseteq T /\ Cardinality(T) <= PerDomain
    <3>1. CASE \E e \in G : DomainOf[e] = DomainOf[d]
      <4>1. PICK e \in G : DomainOf[e] = DomainOf[d]
        BY <3>1, ZenonT(40)
      <4>2. Of(Live', d) \subseteq Of(G \cup Held, e) /\ Of(G \cup Held, e) \in SUBSET Deliveries
        BY <1>1, <1>3, <4>1, ZenonT(40)
      <4>3. QED
        BY ZenonT(60), <1>1, <4>2
    <3>2. CASE ~\E e \in G : DomainOf[e] = DomainOf[d]
      <4>1. d \in Live /\ Of(Live', d) \subseteq Of(Live, d) /\ Of(Live, d) \in SUBSET Deliveries
        BY <1>1, <1>2, <1>5, <3>2, ZenonT(40)
      <4>2. Cardinality(Of(Live, d)) <= PerDomain
        BY <4>1 DEF SlotsRespected
      <4>3. QED
        BY <4>1, <4>2, ZenonT(40)
    <3>3. QED
      BY <3>1, <3>2, ZenonT(40)
  <2>2. Of(Live', d) \in SUBSET Deliveries
    BY <1>3
  <2> HIDE DEF Of
  <2>3. Cardinality(Of(Live', d)) <= Cardinality(T)
    BY <2>1, LiveFinite, FS_Subset, ZenonT(40)
  <2>4. QED
    BY <2>1, <2>2, <2>3, LiveFinite, QueueAssumption
<1>6. QED
  BY <1>4, <1>5, ZenonT(40) DEF SlotsRespected

\* Only a claim creates a guard.
LEMMA NextSlots ==
    ASSUME Inv, SlotsRespected, Next
    PROVE  SlotsRespected'
<1>1. CASE Claim
  BY <1>1, ClaimSlots, ZenonT(40)
<1>2. CASE \/ Expire \/ RecoverConfirmed \/ RecoverUnconfirmed \/ ClockJumps
           \/ \E d \in Deliveries : Enqueue(d) \/ Operator(d) \/ Expires(d)
  <2>1. UNCHANGED <<task, lingering>>
    BY ZenonT(60), <1>2 DEF Expire, RecoverConfirmed, RecoverUnconfirmed, ClockJumps, Enqueue, Operator,
                OperatorHold, OperatorRetry, OperatorClose, Expires, network
  <2>2. QED
    BY <2>1, FewerGuards, ZenonT(40) DEF Live
<1>3. CASE Crash
  BY <1>3, FewerGuards, ZenonT(40) DEF Crash, Live
<1>4. CASE \E d \in Deliveries, g \in Generations :
            Attempt(d, g) \/ RemoteDecides(d, g) \/ Abort(d, g) \/ ReaderEnds(d, g)
  <2>1. PICK d \in Deliveries, g \in Generations :
            Attempt(d, g) \/ RemoteDecides(d, g) \/ Abort(d, g) \/ ReaderEnds(d, g)
    BY <1>4, ZenonT(40)
  <2>2. /\ UNCHANGED task \/ (task[d][g] # "none" /\ \E t \in Task : Ends(d, g, t))
        /\ \/ UNCHANGED lingering
           \/ lingering' = [lingering EXCEPT ![d] = @ \ {g}]
           \/ task[d][g] # "none" /\ lingering' = [lingering EXCEPT ![d] = @ \cup {g}]
    BY ZenonT(60), <2>1 DEF Attempt, OpenBody, Dial, MarkBody, FinalDot, BodyFails, FinalReply, RenewFails,
                Finish, RemoteDecides, Abort, ReaderEnds, DropAttempt, Task, Working, QueueResult
  <2>3. Live' \subseteq Live
    BY <2>2 DEF Live, Ends, Inv, TypeOK
  <2>4. QED
    BY <2>3, FewerGuards, ZenonT(40)
<1>5. QED
  BY <1>1, <1>2, <1>3, <1>4, ZenonT(40) DEF Next

\* Leases and lingering readers never exceed concurrency or per_domain.
THEOREM SlotsAreRespected == Spec => []SlotsRespected
<1>1. Init => SlotsRespected
  <2>1. Init => Live = {}
    BY DEF Init, Live
  <2>2. QED
    BY <2>1, FS_EmptySet, QueueAssumption DEF SlotsRespected
<1>2. Inv /\ SlotsRespected /\ [Next]_vars => SlotsRespected'
  <2>1. ASSUME SlotsRespected, UNCHANGED vars PROVE SlotsRespected'
    BY <2>1, FewerGuards, ZenonT(40) DEF vars, network, Live
  <2>2. QED
    BY <2>1, NextSlots, ZenonT(40)
<1>3. QED
  BY <1>1, <1>2, InductiveInvariant, PTL DEF Spec

-----------------------------------------------------------------------------
(* The mapping to Responsibility                                           *)

\* The values of the mapping, by row and phase.
LEMMA DutyFacts ==
    ASSUME NEW r, NEW ph,
           r.possibly \in BOOLEAN,
           r.state \in {"absent", "delivered", "failed"} => ~r.possibly /\ ph # "body"
    PROVE  /\ r.state = "absent" => DutyIn(r, ph) = "none"
           /\ r.state = "delivered" => DutyIn(r, ph) = "delivered"
           /\ r.state = "failed" => DutyIn(r, ph) = "failed"
           /\ r.possibly => DutyIn(r, ph) = "unknown"
           /\ ~r.possibly /\ ph = "body" => DutyIn(r, ph) = "handing"
           /\ r.state \notin {"absent", "delivered", "failed"} /\ ~r.possibly /\ ph # "body" =>
                DutyIn(r, ph) = "owed"
           /\ DutyIn(r, ph) \in Promise!Duty
BY DEF DutyIn, Promise!Duty

\* Inv makes the cases of the mapping exclusive.
RowShape(r, ph) ==
    /\ r.possibly \in BOOLEAN
    /\ r.state \in {"absent", "delivered", "failed"} => ~r.possibly /\ ph # "body"

\* What the mapping makes of a row in each of its shapes.
DutyKnown(r, ph, duty) ==
    /\ r.state = "absent" => duty = "none"
    /\ r.state = "delivered" => duty = "delivered"
    /\ r.state = "failed" => duty = "failed"
    /\ r.possibly => duty = "unknown"
    /\ ~r.possibly /\ ph = "body" => duty = "handing"
    /\ r.state \notin {"absent", "delivered", "failed"} /\ ~r.possibly /\ ph # "body" =>
        duty = "owed"

\* A row of that shape has the duty its case says.
LEMMA DutyCases ==
    ASSUME NEW r, NEW ph, RowShape(r, ph)
    PROVE  DutyKnown(r, ph, DutyIn(r, ph))
BY DutyFacts DEF RowShape, DutyKnown

\* Every row of a reachable state has the shape the mapping needs.
LEMMA ShapeFacts == Inv => \A d \in Deliveries : RowShape(row[d], phase[d])
<1> SUFFICES ASSUME Inv, NEW d \in Deliveries PROVE RowShape(row[d], phase[d])
  OBVIOUS
<1>1. row[d].possibly \in BOOLEAN
  BY ZenonT(40) DEF Inv, TypeOK, Row
<1>2. row[d].state \in {"absent", "delivered", "failed"} => ~row[d].possibly /\ phase[d] # "body"
  BY DEF Inv, FlagsConsistent
<1>3. QED
  BY <1>1, <1>2, ZenonT(40) DEF RowShape

\* The same of the rows a step leaves.
LEMMA NextShapeFacts == Inv' => \A d \in Deliveries : RowShape(row'[d], phase'[d])
<1> SUFFICES ASSUME Inv', NEW d \in Deliveries PROVE RowShape(row'[d], phase'[d])
  OBVIOUS
<1>1. row'[d].possibly \in BOOLEAN
  BY ZenonT(40) DEF Inv, TypeOK, Row
<1>2. row'[d].state \in {"absent", "delivered", "failed"} =>
        ~row'[d].possibly /\ phase'[d] # "body"
  BY DEF Inv, FlagsConsistent
<1>3. QED
  BY <1>1, <1>2 DEF RowShape

-----------------------------------------------------------------------------
(* A delivered row is with the remote                                      *)

\* queue_finish settles a row as delivered only on an accepting final reply.
DeliveredIsHeld ==
    \A d \in Deliveries :
        row[d].state = "delivered" => \E g \in Generations : wire[d][g] = "accepted"

Strong == Inv /\ DeliveredIsHeld

\* What one step of the queue may do to one delivery, in the words of Promise.
Keeps(d) ==
    LET was == DutyOf(d)
        is  == DutyOf(d)'
        had == HeldOf(d)
        has == HeldOf(d)'
    IN  \/ is = was /\ has = had
        \/ was = "none" /\ is = "owed" /\ has = had
        \/ was = "owed" /\ is = "handing" /\ has = had
        \/ was \in {"handing", "unknown"} /\ is = was
        \/ was \in {"owed", "handing"} /\ ~had /\ is \in {"owed", "failed"} /\ has = had
        \/ was = "handing" /\ is = "unknown" /\ has = had
        \/ was \in {"handing", "unknown"} /\ had /\ is = "delivered" /\ has = had

\* A delivery the tables call none, owed or failed is not with the remote.
LEMMA OwedIsNotHeld ==
    ASSUME Inv, NEW d \in Deliveries, DutyOf(d) \in {"none", "owed", "failed"}
    PROVE  ~HeldOf(d)
<1>1. RowShape(row[d], phase[d])
  BY ShapeFacts
<1>2. ~row[d].possibly /\ row[d].state # "delivered" /\ phase[d] # "body"
  BY <1>1, DutyFacts DEF DutyOf, RowShape
<1>3. QED
  BY <1>2 DEF Inv, AcceptanceRemembered, HeldOf

\* A step that touches neither the tables nor the remote is a stutter.
LEMMA QuietStep ==
    ASSUME UNCHANGED <<row, phase, wire>>
    PROVE  /\ DeliveredIsHeld => DeliveredIsHeld'
           /\ \A d \in Deliveries : Keeps(d)
BY DEF DeliveredIsHeld, Keeps, DutyOf, HeldOf, MayHave

\* Recovery, expiry and claims: a lease nobody owns becomes doubt if body bytes
\* may have left, and only an owed delivery is given up.
LEMMA SchedulerKeeps ==
    ASSUME Strong, Inv', UNCHANGED wire,
           \A d \in Deliveries : Waits(d) \/ IsRecovered(d) \/ IsGranted(d)
    PROVE  DeliveredIsHeld' /\ \A d \in Deliveries : Keeps(d)
<1>1. DeliveredIsHeld'
  BY DEF Strong, DeliveredIsHeld, Waits, IsRecovered, IsGranted
<1>2. ASSUME NEW d \in Deliveries PROVE Keeps(d)
  <2>1. RowShape(row[d], phase[d]) /\ RowShape(row'[d], phase'[d])
    BY ShapeFacts, NextShapeFacts, ZenonT(40) DEF Strong
  <2>2. HeldOf(d)' = HeldOf(d)
    BY DEF HeldOf, MayHave
  <2>3. DutyOf(d) = "owed" => ~HeldOf(d)
    BY OwedIsNotHeld DEF Strong
  <2>a. FlagsConsistent!(d)
    BY ZenonT(40) DEF Strong, Inv, FlagsConsistent
  <2>b. DutyKnown(row[d], phase[d], DutyOf(d)) /\ DutyKnown(row'[d], phase'[d], DutyOf(d)')
    BY <2>1, DutyCases, ZenonT(40) DEF DutyOf
  <2>c. row[d].possibly \in BOOLEAN
    BY <2>1, ZenonT(40) DEF RowShape
  <2>4. \/ DutyOf(d)' = DutyOf(d)
        \/ DutyOf(d) = "owed" /\ DutyOf(d)' \in {"owed", "failed"}
        \/ DutyOf(d) = "handing" /\ DutyOf(d)' = "unknown"
    <3> HIDE DEF DutyOf
    <3>1. CASE Waits(d)
      BY <2>a, <2>b, <2>c, <3>1, ZenonT(40) DEF Waits, DutyKnown
    <3>2. CASE IsRecovered(d)
      BY <2>b, <2>c, <3>2, ZenonT(40) DEF IsRecovered, DutyKnown
    <3>3. CASE IsGranted(d)
      BY <2>a, <2>b, <2>c, <3>3, ZenonT(40) DEF IsGranted, DutyKnown
    <3>4. QED
      BY <3>1, <3>2, <3>3, ZenonT(40)
  <2>5. QED
    BY <2>2, <2>3, <2>4, ZenonT(40) DEF Keeps
<1>3. QED
  BY <1>1, <1>2, ZenonT(40)

\* Rows that nobody leases change without a change of duty, or enter the queue.
LEMMA UnleasedKeeps ==
    ASSUME Strong, Inv', UNCHANGED <<phase, wire>>,
           \A d \in Deliveries :
                \/ row'[d] = row[d]
                \/ row[d].state = "absent" /\ row'[d].state = "pending" /\ ~row'[d].possibly
                \/ /\ row[d].state \in {"pending", "deferred", "uncertain", "hold"}
                   /\ row'[d].state \in {"pending", "deferred", "uncertain", "hold"}
                   /\ row'[d].possibly <=> row[d].possibly
    PROVE  DeliveredIsHeld' /\ \A d \in Deliveries : Keeps(d)
<1>1. DeliveredIsHeld'
  BY DEF Strong, DeliveredIsHeld
<1>2. ASSUME NEW d \in Deliveries PROVE Keeps(d)
  <2>1. RowShape(row[d], phase[d]) /\ RowShape(row'[d], phase'[d])
    BY ShapeFacts, NextShapeFacts, ZenonT(40) DEF Strong
  <2>2. HeldOf(d)' = HeldOf(d)
    BY ZenonT(40) DEF HeldOf, MayHave
  <2>3. phase[d] # "body" \/ row'[d] = row[d]
    BY ZenonT(40) DEF Strong, Inv, FlagsConsistent
  <2>4. \/ DutyOf(d)' = DutyOf(d)
        \/ DutyOf(d) = "none" /\ DutyOf(d)' = "owed"
    BY <2>1, <2>3, DutyFacts DEF DutyOf, RowShape
  <2>5. QED
    BY <2>2, <2>4, ZenonT(40) DEF Keeps
<1>3. QED
  BY <1>1, <1>2, ZenonT(40)

\* insert_relay: the server owes what it has accepted.
LEMMA EnqueueKeeps ==
    ASSUME Strong, Inv', NEW d \in Deliveries, Enqueue(d)
    PROVE  DeliveredIsHeld' /\ \A e \in Deliveries : Keeps(e)
<1>1. row[d] \in Row /\ row \in [Deliveries -> Row] /\ ~row[d].possibly
  BY DEF Strong, Inv, TypeOK, FlagsConsistent, Enqueue
<1>2. \A e \in Deliveries :
        \/ row'[e] = row[e]
        \/ row[e].state = "absent" /\ row'[e].state = "pending" /\ ~row'[e].possibly
  BY <1>1, ZenonT(40) DEF Enqueue, Row
<1>3. QED
  BY <1>2, UnleasedKeeps, ZenonT(40) DEF Enqueue, network

\* queue_hold, queue_retry and queue_close_unknown change no duty.
LEMMA OperatorKeeps ==
    ASSUME Strong, Inv', NEW d \in Deliveries, Operator(d)
    PROVE  DeliveredIsHeld' /\ \A e \in Deliveries : Keeps(e)
<1> DEFINE waiting == {"pending", "deferred", "uncertain", "hold"}
<1>1. row[d] \in Row /\ row \in [Deliveries -> Row]
  BY ZenonT(40) DEF Strong, Inv, TypeOK
<1>2. row[d].state = "uncertain" => row[d].possibly
  BY ZenonT(40) DEF Strong, Inv, FlagsConsistent
<1>3. /\ row[d].state \in waiting /\ row'[d].state \in waiting
      /\ row'[d].possibly <=> row[d].possibly
      /\ \A e \in Deliveries \ {d} : row'[e] = row[e]
      /\ UNCHANGED <<phase, wire>>
  <2>1. CASE OperatorHold(d)
    BY <1>1, <1>2, <2>1, ZenonT(40) DEF OperatorHold, HoldRow, Row, network
  <2>2. CASE \E a, x \in BOOLEAN : OperatorRetry(d, a, x)
    BY <1>1, <2>2 DEF OperatorRetry, RetryAllowed, Row, network
  <2>3. CASE OperatorClose(d)
    BY <1>1, <2>3, ZenonT(40) DEF OperatorClose, Row, network
  <2>4. QED
    BY <2>1, <2>2, <2>3, ZenonT(40) DEF Operator
<1>4. QED
  BY <1>3, UnleasedKeeps, ZenonT(40)

\* queue_expire gives up only what is certainly not with the remote.
LEMMA ExpireKeeps ==
    ASSUME Strong, Inv', Expire
    PROVE  DeliveredIsHeld' /\ \A d \in Deliveries : Keeps(d)
<1>1. PICK S \in ExpiryBatches(row) : row' = ExpireRows(row, S)
  BY ZenonT(40) DEF Expire
<1>2. S \in SUBSET InState(row, {"pending", "deferred"}) /\ row \in [Deliveries -> Row]
  BY DEF ExpiryBatches, Strong, Inv, TypeOK
<1>3. UNCHANGED <<phase, asked, consented, task, wire>>
  BY ZenonT(40) DEF Expire, audit, network
<1>4. \A d \in Deliveries : Waits(d)
  BY <1>1, <1>2, <1>3, ExpireRowsFacts DEF InState, Waits
<1>5. QED
  BY <1>3, <1>4, SchedulerKeeps, ZenonT(40)

-----------------------------------------------------------------------------
(* Steps of an attempt                                                     *)

\* queue_mark_body: the server says that it hands over before it does.
LEMMA MarkBodyKeeps ==
    ASSUME Strong, Inv', NEW d \in Deliveries, NEW g \in Generations, MarkBody(d, g)
    PROVE  DeliveredIsHeld' /\ \A e \in Deliveries : Keeps(e)
<1>1. UNCHANGED <<row, wire>>
  BY DEF MarkBody
<1>2. CASE phase' = phase
  BY <1>1, <1>2, QuietStep, ZenonT(40) DEF Strong
<1>3. CASE CheckLease(d, g) /\ phase' = [phase EXCEPT ![d] = "body"]
  <2>1. DeliveredIsHeld'
    BY <1>1 DEF Strong, DeliveredIsHeld
  <2>2. ASSUME NEW e \in Deliveries PROVE Keeps(e)
    <3>1. HeldOf(e)' = HeldOf(e)
      BY <1>1, ZenonT(40) DEF HeldOf, MayHave
    <3>2. CASE e # d
      BY <1>1, <1>3, <3>1, <3>2, ZenonT(40) DEF Strong, Inv, TypeOK, DutyOf, Keeps
    <3>3. CASE e = d
      <4>1. RowShape(row[d], phase[d]) /\ RowShape(row'[d], phase'[d])
        BY ShapeFacts, NextShapeFacts, ZenonT(40) DEF Strong
      <4>2. row[d].state = "leased" /\ row'[d] = row[d] /\ phase'[d] = "body"
        BY <1>1, <1>3, ZenonT(40) DEF CheckLease, Strong, Inv, TypeOK
      <4>3. \/ DutyOf(d)' = DutyOf(d)
            \/ DutyOf(d) = "owed" /\ DutyOf(d)' = "handing"
        BY <4>1, <4>2, DutyFacts DEF DutyOf, RowShape
      <4>4. QED
        BY <3>1, <3>3, <4>3, ZenonT(40) DEF Keeps
    <3>4. QED
      BY <3>2, <3>3, ZenonT(40)
  <2>3. QED
    BY <2>1, <2>2, ZenonT(40)
<1>4. QED
  BY <1>2, <1>3, ZenonT(40) DEF MarkBody

\* The final dot leaves only under a durable body phase.
LEMMA FinalDotKeeps ==
    ASSUME Strong, Inv', NEW d \in Deliveries, NEW g \in Generations, FinalDot(d, g)
    PROVE  DeliveredIsHeld' /\ \A e \in Deliveries : Keeps(e)
<1>1. UNCHANGED <<row, phase>> /\ wire' = [wire EXCEPT ![d][g] = "dotted"]
  BY ZenonT(40) DEF FinalDot, table
<1>2. row[d].state = "leased" /\ phase[d] = "body"
  BY ZenonT(40) DEF FinalDot, Strong, Inv, SingleOwner, CheckLease, WireFollowsTask
<1>3. wire \in [Deliveries -> [Generations -> Wire]]
  BY DEF Strong, Inv, TypeOK
<1>4. DeliveredIsHeld'
  BY <1>1, <1>2, <1>3, ZenonT(40) DEF Strong, DeliveredIsHeld
<1>5. ASSUME NEW e \in Deliveries PROVE Keeps(e)
  <2>1. DutyOf(e)' = DutyOf(e)
    BY <1>1 DEF DutyOf
  <2>2. CASE e = d
    <3>1. RowShape(row[d], phase[d])
      BY ShapeFacts, ZenonT(40) DEF Strong
    <3>2. DutyOf(d) \in {"handing", "unknown"}
      BY <1>2, <3>1, DutyFacts DEF DutyOf, RowShape
    <3>3. QED
      BY <2>1, <2>2, <3>2, ZenonT(40) DEF Keeps
  <2>3. CASE e # d
    BY <1>1, <1>3, <2>1, <2>3, ZenonT(40) DEF HeldOf, MayHave, Keeps
  <2>4. QED
    BY <2>2, <2>3, ZenonT(40)
<1>6. QED
  BY <1>4, <1>5

\* A late decision of the peer changes nothing that is settled.
LEMMA RemoteDecidesKeeps ==
    ASSUME Strong, Inv', NEW d \in Deliveries, NEW g \in Generations, RemoteDecides(d, g)
    PROVE  DeliveredIsHeld' /\ \A e \in Deliveries : Keeps(e)
<1>1. PICK w \in {"accepted", "refused"} : wire' = [wire EXCEPT ![d][g] = w]
  BY ZenonT(40) DEF RemoteDecides
<1>2. UNCHANGED <<row, phase>> /\ wire[d][g] = "dotted"
  BY ZenonT(40) DEF RemoteDecides, table
<1>3. wire \in [Deliveries -> [Generations -> Wire]]
  BY DEF Strong, Inv, TypeOK
<1>4. \A e \in Deliveries, h \in Generations :
        wire[e][h] = "accepted" => wire'[e][h] = "accepted"
  BY <1>1, <1>2, <1>3, ZenonT(40)
<1>5. DeliveredIsHeld'
  BY <1>2, <1>4, ZenonT(40) DEF Strong, DeliveredIsHeld
<1>6. ASSUME NEW e \in Deliveries PROVE Keeps(e)
  <2>1. DutyOf(e)' = DutyOf(e)
    BY <1>2, ZenonT(40) DEF DutyOf
  <2>2. CASE e # d
    BY <1>1, <1>3, <2>1, <2>2, ZenonT(40) DEF HeldOf, MayHave, Keeps
  <2>3. CASE e = d /\ row[d].state = "delivered"
    <3>1. HeldOf(d) /\ HeldOf(d)'
      BY <1>4, <2>3, ZenonT(40) DEF Strong, DeliveredIsHeld, HeldOf, MayHave
    <3>2. QED
      BY <2>1, <2>3, <3>1, ZenonT(40) DEF Keeps
  <2>4. CASE e = d /\ row[d].state # "delivered"
    <3>1. RowShape(row[d], phase[d])
      BY ShapeFacts, ZenonT(40) DEF Strong
    <3>2. row[d].possibly \/ phase[d] = "body"
      BY <1>2, <2>4, ZenonT(40) DEF Strong, Inv, AcceptanceRemembered, MayHave
    <3>3. DutyOf(d) \in {"handing", "unknown"}
      BY <3>1, <3>2, DutyFacts DEF DutyOf, RowShape
    <3>4. QED
      BY <2>1, <2>4, <3>3, ZenonT(40) DEF Keeps
  <2>5. QED
    BY <2>2, <2>3, <2>4, ZenonT(40)
<1>7. QED
  BY <1>5, <1>6, ZenonT(40)

\* queue_finish: certain results agree with the wire, the others are doubt.
LEMMA FinishKeeps ==
    ASSUME Strong, Inv', NEW d \in Deliveries, NEW g \in Generations, Finish(d, g)
    PROVE  DeliveredIsHeld' /\ \A e \in Deliveries : Keeps(e)
<1>1. task[d][g] \in QueueResult /\ UNCHANGED wire
  BY DEF Finish
<1>2. CASE UNCHANGED table
  BY <1>1, <1>2, QuietStep, ZenonT(40) DEF Strong, table
<1>3. CASE /\ FinishState(task[d][g], phase[d]) # "leased"
           /\ row' = [row EXCEPT ![d] = FinishRow(row[d], task[d][g], phase[d])]
           /\ phase' = [phase EXCEPT ![d] = "none"]
  <2> DEFINE known == FinishState(task[d][g], phase[d])
  <2>1. /\ row \in [Deliveries -> Row] /\ row[d] \in Row
        /\ phase \in [Deliveries -> Phase] /\ phase[d] \in Phase
    BY ZenonT(40) DEF Strong, Inv, TypeOK
  <2>2. row[d].state = "leased" /\ row[d].generation = g
    BY <1>1 DEF Strong, Inv, SingleOwner, CheckLease, QueueResult
  <2>3. /\ row'[d].possibly <=> row'[d].state = "uncertain"
        /\ row'[d].state \in {"delivered", "deferred", "failed", "uncertain", "hold"}
        /\ row[d].possibly => row'[d].state \in {"delivered", "uncertain"}
        /\ ~row[d].possibly => row'[d].state = known
        /\ row'[d].state = "delivered" => known = "delivered"
    BY <1>1, <1>3, <2>1, FinishRowFacts, ZenonT(40)
  <2>4. phase'[d] = "none" /\ \A e \in Deliveries \ {d} : row'[e] = row[e] /\ phase'[e] = phase[e]
    BY <1>3, <2>1, ZenonT(40)
  <2>5. known \in {"delivered", "uncertain"} => phase[d] = "body"
    BY <1>1, ZenonT(40) DEF FinishState, QueueResult
  <2>6. row'[d].state = "delivered" => wire[d][g] = "accepted"
    <3>1. known = "delivered" => task[d][g] = "Delivered"
      BY <1>1, ZenonT(40) DEF FinishState, QueueResult
    <3>2. QED
      BY <2>3, <3>1, ZenonT(40) DEF Strong, Inv, WireFollowsTask
  <2>7. DeliveredIsHeld'
    BY <1>1, <2>4, <2>6, ZenonT(40) DEF Strong, DeliveredIsHeld
  <2>8. ASSUME NEW e \in Deliveries PROVE Keeps(e)
    <3>1. HeldOf(e)' = HeldOf(e)
      BY <1>1, ZenonT(40) DEF HeldOf, MayHave
    <3>2. CASE e # d
      BY <2>4, <3>1, <3>2, ZenonT(40) DEF DutyOf, Keeps
    <3>3. CASE e = d
      <4>1. RowShape(row[d], phase[d]) /\ RowShape(row'[d], phase'[d])
        BY ShapeFacts, NextShapeFacts, ZenonT(40) DEF Strong
      <4>2. row'[d].state = "delivered" => HeldOf(d)
        BY <2>6, ZenonT(40) DEF HeldOf, MayHave
      <4>3. row'[d].state \in {"deferred", "failed", "hold"} => ~HeldOf(d)
        BY <1>1, <2>3, <2>4, ZenonT(40) DEF Inv, AcceptanceRemembered, HeldOf, MayHave
      <4>4. /\ row[d].possibly => DutyOf(d) = "unknown"
            /\ ~row[d].possibly /\ phase[d] = "body" => DutyOf(d) = "handing"
            /\ ~row[d].possibly /\ phase[d] # "body" => DutyOf(d) = "owed"
        BY <2>2, <4>1, DutyFacts DEF DutyOf, RowShape
      <4>5. /\ row'[d].state = "delivered" => DutyOf(d)' = "delivered"
            /\ row'[d].state = "uncertain" => DutyOf(d)' = "unknown"
            /\ row'[d].state \in {"deferred", "hold"} => DutyOf(d)' = "owed"
            /\ row'[d].state = "failed" => DutyOf(d)' = "failed"
        BY <2>3, <2>4, <4>1, DutyFacts DEF DutyOf, RowShape
      <4>6. QED
        BY <2>3, <2>5, <3>1, <3>3, <4>1, <4>2, <4>3, <4>4, <4>5, ZenonT(40) DEF Keeps, RowShape
    <3>4. QED
      BY <3>2, <3>3
  <2>9. QED
    BY <2>7, <2>8
<1>4. QED
  BY <1>2, <1>3, ZenonT(40) DEF Finish

-----------------------------------------------------------------------------
(* The theorem                                                             *)

\* Every step of the queue keeps the promise of every delivery.
LEMMA NextKeeps ==
    ASSUME Strong, Next
    PROVE  Strong' /\ \A d \in Deliveries : Keeps(d)
<1>1. Inv'
  BY NextInv DEF Strong
<1> SUFFICES DeliveredIsHeld' /\ \A d \in Deliveries : Keeps(d)
  BY <1>1 DEF Strong
<1>2. CASE Expire
  BY <1>1, <1>2, ExpireKeeps, ZenonT(40)
<1>3. CASE RecoverConfirmed \/ RecoverUnconfirmed
  BY <1>1, <1>3, RecoverMoves, SchedulerKeeps, ZenonT(40) DEF Strong
<1>4. CASE Claim
  BY <1>1, <1>4, ClaimMoves, SchedulerKeeps, ZenonT(40) DEF Strong
<1>5. CASE ClockJumps \/ Crash \/ \E d \in Deliveries : Expires(d)
  BY <1>5, QuietStep, ZenonT(40) DEF Strong, ClockJumps, Crash, Expires, table, network
<1>6. CASE \E d \in Deliveries : Enqueue(d) \/ Operator(d)
  BY <1>1, <1>6, EnqueueKeeps, OperatorKeeps, ZenonT(40)
<1>7. CASE \E d \in Deliveries, g \in Generations :
            \/ OpenBody(d, g) \/ Dial(d, g) \/ BodyFails(d, g) \/ FinalReply(d, g)
            \/ RenewFails(d, g) \/ Abort(d, g) \/ ReaderEnds(d, g)
  <2>1. UNCHANGED <<row, phase, wire>>
    BY <1>7, ZenonT(40) DEF OpenBody, Dial, BodyFails, FinalReply, RenewFails, Abort, ReaderEnds, table
  <2>2. QED
    BY <2>1, QuietStep, ZenonT(40) DEF Strong
<1>8. CASE \E d \in Deliveries, g \in Generations :
            MarkBody(d, g) \/ FinalDot(d, g) \/ RemoteDecides(d, g) \/ Finish(d, g)
  BY <1>1, <1>8, MarkBodyKeeps, FinalDotKeeps, RemoteDecidesKeeps, FinishKeeps, ZenonT(40)
<1>9. QED
  BY <1>2, <1>3, <1>4, <1>5, <1>6, <1>7, <1>8, ZenonT(40) DEF Next, Attempt

\* A step that keeps every delivery's promise is a step of Responsibility.
LEMMA KeepsIsPromised ==
    ASSUME Inv', \A d \in Deliveries : Keeps(d)
    PROVE  Promise!Next
<1>1. \A d \in Deliveries : DutyOf(d)' \in Promise!Duty /\ HeldOf(d)' \in BOOLEAN
  BY NextShapeFacts, DutyFacts DEF DutyOf, HeldOf, RowShape
<1>2. QED
  BY <1>1 DEF Keeps, Promise!Next, Promise!Accepts, Promise!Begins, Promise!Hands,
              Promise!Concludes, Promise!Doubts, Promise!Confirms, Promise!Rests

\* An empty queue owes nothing.
LEMMA InitKeeps == Init => Strong /\ Promise!Init
<1> SUFFICES ASSUME Init PROVE Strong /\ Promise!Init
  OBVIOUS
<1>1. Inv
  BY InitInv, ZenonT(40)
<1>2. DeliveredIsHeld
  BY DEF Init, DeliveredIsHeld
<1>3. \A d \in Deliveries : DutyOf(d) = "none"
  <2> TAKE d \in Deliveries
  <2>1. row[d].state = "absent" /\ RowShape(row[d], phase[d])
    BY <1>1, ShapeFacts, ZenonT(40) DEF Init
  <2>2. QED
    BY <2>1, DutyFacts DEF DutyOf, RowShape
<1>4. \A d \in Deliveries : HeldOf(d) = FALSE
  BY DEF Init, HeldOf, MayHave
<1>5. QED
  BY <1>1, <1>2, <1>3, <1>4, ZenonT(40) DEF Strong, Promise!Init

\* A step of the queue is a step or a stutter of Responsibility.
LEMMA StepKeeps == Strong /\ [Next]_vars => Strong' /\ [Promise!Next]_(Promise!vars)
<1> SUFFICES ASSUME Strong, [Next]_vars PROVE Strong' /\ [Promise!Next]_(Promise!vars)
  OBVIOUS
<1>1. CASE Next
  BY <1>1, NextKeeps, KeepsIsPromised, ZenonT(40) DEF Strong
<1>2. CASE UNCHANGED vars
  <2>1. UNCHANGED <<row, phase, wire>>
    BY <1>2 DEF vars, table, network
  <2>2. Strong'
    BY <1>2, <2>1, StutterInv, QuietStep, ZenonT(40) DEF Strong
  <2>3. UNCHANGED Promise!vars
    BY <2>1 DEF Promise!vars, DutyOf, HeldOf, MayHave
  <2>4. QED
    BY <2>2, <2>3, ZenonT(40)
<1>3. QED
  BY <1>1, <1>2, ZenonT(40)

\* The relay queue, with its leases, phases, crashes, unknown commits and
\* operator commands, implements the promise that Responsibility states.
THEOREM QueueKeepsPromise == Spec => KeepsPromise
BY InitKeeps, StepKeeps, PTL DEF Spec, KeepsPromise, Promise!Spec

\* What queue_finish, queue_expire and queue_recover leave in the tables is
\* true of the remote: owed and failed deliveries are not there, delivered
\* ones are.
THEOREM QueueIsTruthful == Spec => []Promise!Truthful
<1>1. Strong => Promise!Truthful
  <2> SUFFICES ASSUME Strong, NEW d \in Deliveries
               PROVE  /\ DutyOf(d) \in {"none", "owed", "failed"} => ~HeldOf(d)
                      /\ DutyOf(d) = "delivered" => HeldOf(d)
    BY DEF Promise!Truthful
  <2>1. RowShape(row[d], phase[d])
    BY ShapeFacts, ZenonT(40) DEF Strong
  <2>2. DutyOf(d) = "delivered" => row[d].state = "delivered"
    BY <2>1, DutyFacts DEF DutyOf, RowShape
  <2>3. QED
    BY <2>2, OwedIsNotHeld, ZenonT(40) DEF Strong, DeliveredIsHeld, HeldOf, MayHave
<1>2. QED
  BY <1>1, InitKeeps, StepKeeps, PTL DEF Spec
=============================================================================
