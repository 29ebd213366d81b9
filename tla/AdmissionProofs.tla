-------------------------- MODULE AdmissionProofs --------------------------
(***************************************************************************)
(* Proofs about Admission: Inv is inductive, and the limits and the return *)
(* of every permit follow from it, for any finite set of tasks and any     *)
(* limits.  The last part is about the limiter of attempts (Rates::check): *)
(* for every window, limit, capacity and interval between sweeps, every    *)
(* step of an entry keeps the pace that bounds the attempts let through,   *)
(* and RatesPaced is an invariant.                                         *)
(***************************************************************************)
EXTENDS Admission, FiniteSetTheorems, TLAPS

----------------------------------------------------------------------------
(* The constants *)

\* serve_until, AuthService::new: the size of each semaphore.
LEMMA SizeValues ==
    /\ Size \in [Semaphores -> Nat]
    /\ Size["connections"] = Connections
    /\ Size["management"] = Management
    /\ Size["handshakes"] = Handshakes
    /\ Size["ingest"] = Slots
    /\ Size["active"] = Concurrency
    /\ Size["admission"] = Concurrency + Waiting
BY AdmissionAssumption DEF Size, Semaphores

\* What is in scope of each activity.
LEMMA ScopeValues ==
    /\ Scope("nothing") = {} /\ Scope("open") = {} /\ Scope("verifying") = {}
    /\ Scope("handshake") = {"handshakes"}
    /\ Scope("waiting") = {"admission"}
    /\ Scope("lookup") = Verification
    /\ Scope("data") = {"ingest"}
BY DEF Scope, JobPermits

\* What a session holds, by what it is doing.
LEMMA HeldValues ==
    ASSUME NEW r \in Session
    PROVE  /\ r.doing = "nothing" => Held(r) = {}
           /\ r.doing = "open" => Held(r) = Lease(r.origin)
           /\ r.doing = "handshake" => Held(r) = Lease(r.origin) \union {"handshakes"}
           /\ r.doing = "data" => Held(r) = Lease(r.origin) \union {"ingest"}
           /\ r.doing = "waiting" => Held(r) = Lease(r.origin) \union {"admission"}
           /\ r.doing \in {"lookup", "verifying"} =>
                  Held(r) = Lease(r.origin) \union Verification
BY ScopeValues, ZenonT(40) DEF Held

\* A lease is one of the connections or of the administrators.
LEMMA LeaseValues ==
    ASSUME NEW o \in Origins
    PROVE  /\ o = Admin => Lease(o) = {"management"}
           /\ o # Admin => Lease(o) = {"connections"} /\ o \in Ips
BY DEF Lease, Origins

----------------------------------------------------------------------------
(* Counting holders *)

\* Sets of tasks can be counted.
LEMMA TasksCounted ==
    ASSUME NEW S \in SUBSET Tasks
    PROVE  IsFiniteSet(S) /\ Cardinality(S) \in Nat
BY AdmissionAssumption, FS_Subset, FS_CardinalityType, ZenonT(40)

\* Two sets that differ at most in one task.
LEMMA OneApart ==
    ASSUME NEW S \in SUBSET Tasks, NEW T \in SUBSET Tasks, NEW t \in Tasks,
           \A u \in Tasks \ {t} : u \in S <=> u \in T
    PROVE  /\ (t \in S <=> t \in T) => Cardinality(T) = Cardinality(S)
           /\ t \in T /\ t \notin S => Cardinality(T) = Cardinality(S) + 1
           /\ t \in S /\ t \notin T => Cardinality(T) = Cardinality(S) - 1
<1>1. CASE t \in S <=> t \in T
  <2>1. S = T
    BY <1>1
  <2>2. QED
    BY <1>1, <2>1
<1>2. CASE t \in T /\ t \notin S
  <2>1. T = S \union {t}
    BY <1>2
  <2>2. QED
    BY <1>2, <2>1, TasksCounted, FS_AddElement
<1>3. CASE t \in S /\ t \notin T
  <2>1. T = S \ {t}
    BY <1>3
  <2>2. QED
    BY <1>3, <2>1, TasksCounted, FS_RemoveElement
<1>4. QED
  BY <1>1, <1>2, <1>3

\* A step of one session changes the holders of a semaphore by that session.
LEMMA HoldersStep ==
    ASSUME TypeOK, NEW t \in Tasks, NEW r \in Session,
           session' = [session EXCEPT ![t] = r], NEW k \in Semaphores
    PROVE  /\ Cardinality(Holders(k)) \in Nat /\ Cardinality(Holders(k)') \in Nat
           /\ (k \in Held(session[t]) <=> k \in Held(r)) =>
                  Cardinality(Holders(k)') = Cardinality(Holders(k))
           /\ k \in Held(r) /\ k \notin Held(session[t]) =>
                  Cardinality(Holders(k)') = Cardinality(Holders(k)) + 1
           /\ k \in Held(session[t]) /\ k \notin Held(r) =>
                  Cardinality(Holders(k)') = Cardinality(Holders(k)) - 1
<1>1. Holders(k) \in SUBSET Tasks /\ Holders(k)' \in SUBSET Tasks
  BY DEF Holders
<1>2. session'[t] = r /\ \A u \in Tasks \ {t} : session'[u] = session[u]
  BY DEF TypeOK
<1>3. \A u \in Tasks \ {t} : u \in Holders(k) <=> u \in Holders(k)'
  BY <1>2 DEF Holders
<1>4. (t \in Holders(k) <=> k \in Held(session[t])) /\ (t \in Holders(k)' <=> k \in Held(r))
  BY <1>2 DEF Holders
<1>5. QED
  BY <1>1, <1>3, <1>4, OneApart, TasksCounted

----------------------------------------------------------------------------
(* The tally of permits *)

\* The part of the invariant that is about permits.
Kept == /\ session \in [Tasks -> Session]
        /\ free \in [Semaphores -> Nat]
        /\ \A k \in Semaphores : free[k] <= Size[k]
        /\ detached \in Nat
        /\ Tally

\* The next state keeps the tally if every semaphore's balance is even.
LEMMA Balanced ==
    ASSUME session' \in [Tasks -> Session], free' \in [Semaphores -> Nat],
           detached' \in Nat, Tally'
    PROVE  Kept'
<1>1. \A k \in Semaphores : Cardinality(Holders(k)') \in Nat /\ Jobs(k)' \in Nat
  BY TasksCounted DEF Holders, Jobs
<1>2. \A k \in Semaphores : free'[k] <= Size[k]
  BY <1>1, SizeValues DEF Tally
<1>3. QED
  BY <1>2 DEF Kept

\* A session takes permits that are free (try_acquire, acquire).
LEMMA Takes ==
    ASSUME Inv, NEW t \in Tasks, NEW r \in Session, NEW A \in SUBSET Semaphores,
           session' = [session EXCEPT ![t] = r],
           Held(r) = Held(session[t]) \union A, A \intersect Held(session[t]) = {},
           \A k \in A : free[k] > 0,
           free' = Take(A), detached' = detached
    PROVE  Kept'
<1>1. session' \in [Tasks -> Session] /\ detached' \in Nat
  BY DEF Inv, TypeOK
<1>2. free' \in [Semaphores -> Nat]
  BY DEF Inv, TypeOK, Take
<1>3. ASSUME NEW k \in Semaphores
      PROVE  free'[k] + Cardinality(Holders(k)') + Jobs(k)' = Size[k]
  <2>1. free[k] + Cardinality(Holders(k)) + Jobs(k) = Size[k]
    BY DEF Inv, Tally
  <2>2. Jobs(k)' = Jobs(k) /\ Jobs(k) \in Nat /\ free[k] \in Nat /\ Size[k] \in Nat
    BY SizeValues DEF Jobs, Inv, TypeOK
  <2>3. TypeOK
    BY DEF Inv
  <2>4. CASE k \in A
    <3>1. free'[k] = free[k] - 1
      BY <2>4 DEF Take
    <3>2. k \in Held(r) /\ k \notin Held(session[t])
      BY <2>4
    <3>3. Cardinality(Holders(k)') = Cardinality(Holders(k)) + 1
          /\ Cardinality(Holders(k)) \in Nat
      BY <2>3, <3>2, HoldersStep, ZenonT(40)
    <3>4. QED
      BY <2>1, <2>2, <3>1, <3>3
  <2>5. CASE k \notin A
    <3>1. free'[k] = free[k]
      BY <2>5 DEF Take
    <3>2. k \in Held(r) <=> k \in Held(session[t])
      BY <2>5
    <3>3. QED
      BY <2>1, <2>2, <2>3, <3>1, <3>2, HoldersStep, ZenonT(40)
  <2>6. QED
    BY <2>4, <2>5
<1>4. Tally'
  BY <1>3 DEF Tally
<1>5. QED
  BY <1>1, <1>2, <1>4, Balanced

\* A session drops permits; those of a running job go to the detached job
\* (drop of a permit, of a lease, of a cancelled future).
LEMMA Drops ==
    ASSUME Inv, NEW t \in Tasks, NEW r \in Session, NEW A \in SUBSET Semaphores,
           NEW J \in {{}, Verification},
           session' = [session EXCEPT ![t] = r],
           Held(r) = Held(session[t]) \ A, A \subseteq Held(session[t]),
           J \subseteq A, free' = Give(A \ J),
           detached' = IF J = {} THEN detached ELSE detached + 1
    PROVE  Kept'
<1>1. session' \in [Tasks -> Session] /\ detached' \in Nat
  BY DEF Inv, TypeOK
<1>2. free' \in [Semaphores -> Nat]
  BY DEF Inv, TypeOK, Give
<1>3. ASSUME NEW k \in Semaphores
      PROVE  free'[k] + Cardinality(Holders(k)') + Jobs(k)' = Size[k]
  <2>1. free[k] + Cardinality(Holders(k)) + Jobs(k) = Size[k]
    BY DEF Inv, Tally
  <2>2. Jobs(k) \in Nat /\ free[k] \in Nat /\ Size[k] \in Nat
    BY SizeValues DEF Jobs, Inv, TypeOK
  <2>3. TypeOK
    BY DEF Inv
  <2>4. J # {} => J = Verification /\ Verification # {}
    BY DEF Verification
  <2>5. Jobs(k)' = IF k \in J THEN Jobs(k) + 1 ELSE Jobs(k)
    BY <2>4 DEF Jobs
  <2>6. CASE k \in A
    <3>1. free'[k] = IF k \in J THEN free[k] ELSE free[k] + 1
      BY <2>6 DEF Give
    <3>2. k \notin Held(r) /\ k \in Held(session[t])
      BY <2>6
    <3>3. Cardinality(Holders(k)') = Cardinality(Holders(k)) - 1
          /\ Cardinality(Holders(k)) \in Nat
      BY <2>3, <3>2, HoldersStep, ZenonT(40)
    <3>4. QED
      BY <2>1, <2>2, <2>5, <3>1, <3>3
  <2>7. CASE k \notin A
    <3>1. free'[k] = free[k] /\ k \notin J
      BY <2>7 DEF Give
    <3>2. k \in Held(r) <=> k \in Held(session[t])
      BY <2>7
    <3>3. QED
      BY <2>1, <2>2, <2>3, <2>5, <3>1, <3>2, HoldersStep, ZenonT(40)
  <2>8. QED
    BY <2>6, <2>7
<1>4. Tally'
  BY <1>3, ZenonT(40) DEF Tally
<1>5. QED
  BY <1>1, <1>2, <1>4, Balanced, ZenonT(40)

\* A detached job drops its permits (the end of spawn_blocking's closure).
LEMMA JobEnds ==
    ASSUME Inv, DetachedEnds
    PROVE  Kept'
<1>1. session' = session /\ detached' = detached - 1 /\ free' = Give(Verification) /\ detached > 0
  BY DEF DetachedEnds, JobPermits
<1>2. detached' \in Nat /\ session' \in [Tasks -> Session]
  BY <1>1 DEF Inv, TypeOK
<1>3. free' \in [Semaphores -> Nat]
  BY <1>1 DEF Inv, TypeOK, Give
<1>4. ASSUME NEW k \in Semaphores
      PROVE  free'[k] + Cardinality(Holders(k)') + Jobs(k)' = Size[k]
  <2>1. free[k] + Cardinality(Holders(k)) + Jobs(k) = Size[k]
    BY DEF Inv, Tally
  <2>2. Holders(k)' = Holders(k)
    BY <1>1 DEF Holders
  <2>3. Cardinality(Holders(k)) \in Nat
    BY TasksCounted DEF Holders
  <2>4. free[k] \in Nat /\ detached \in Nat /\ Size[k] \in Nat
    BY SizeValues DEF Inv, TypeOK
  <2>5. free'[k] + Jobs(k)' = free[k] + Jobs(k)
    BY <1>1, <2>4 DEF Jobs, Give
  <2>6. QED
    BY <1>2, <1>3, <2>1, <2>2, <2>3, <2>4, <2>5 DEF Jobs
<1>5. Tally'
  BY <1>4 DEF Tally
<1>6. QED
  BY <1>2, <1>3, <1>5, Balanced

\* A step that touches no permit.
LEMMA PermitsSame ==
    ASSUME Inv, UNCHANGED <<session, free, detached>>
    PROVE  Kept'
<1>1. \A k \in Semaphores : Holders(k)' = Holders(k) /\ Jobs(k)' = Jobs(k)
  BY DEF Holders, Jobs
<1>2. Tally'
  BY <1>1, ZenonT(40) DEF Inv, Tally
<1>3. QED
  BY <1>2, Balanced, ZenonT(40) DEF Inv, TypeOK

----------------------------------------------------------------------------
(* The other parts of the invariant *)

CountsOK == counts \in [Ips -> Nat] /\ CountsMatch

RatesOK == /\ ips \in [Ips -> Entry(IpLimit)]
           /\ accounts \in [Accounts -> Entry(AccountLimit)]
           /\ sinceSweep \in 0 .. SweepEvery
           /\ passed \in [Keys -> [0 .. Window - 1 -> Nat]]
           /\ TablesFinite /\ TablesBounded

ServiceOK == /\ phase \in {"running", "draining", "aborting", "joined", "closing", "stopped"}
             /\ relay \in BOOLEAN

\* Inv, in the parts that different steps disturb.
LEMMA Parts == Inv <=> Kept /\ CountsOK /\ RatesOK /\ ServiceOK
BY DEF Inv, TypeOK, Kept, CountsOK, RatesOK, ServiceOK

\* The same of the next state.
LEMMA PartsNext == Inv' <=> Kept' /\ CountsOK' /\ RatesOK' /\ ServiceOK'
BY DEF Inv, TypeOK, Kept, CountsOK, RatesOK, ServiceOK

\* A session that exists and goes on to something else stays counted for its
\* address.
LEMMA Moves ==
    ASSUME Inv, NEW t \in Tasks, NEW d \in Doing \ {"nothing"},
           session[t].doing # "nothing", Becomes(t, d), UNCHANGED <<counts, service>>
    PROVE  /\ session' = [session EXCEPT ![t] = [origin |-> session[t].origin, doing |-> d]]
           /\ [origin |-> session[t].origin, doing |-> d] \in Session
           /\ session[t] \in Session /\ session[t].origin \in Origins
           /\ CountsOK' /\ ServiceOK'
<1>1. session \in [Tasks -> Session] /\ session[t] \in Session /\ session[t].origin \in Origins
  BY DEF Inv, TypeOK, Session
<1>2. session' = [session EXCEPT ![t] = [origin |-> session[t].origin, doing |-> d]]
  <2>1. [session[t] EXCEPT !.doing = d] = [origin |-> session[t].origin, doing |-> d]
    BY <1>1 DEF Session
  <2>2. session' = [session EXCEPT ![t] = [session[t] EXCEPT !.doing = d]]
    BY <1>1 DEF Becomes
  <2>3. QED
    BY <2>1, <2>2, ZenonT(40)
<1>3. [origin |-> session[t].origin, doing |-> d] \in Session
  BY <1>1 DEF Session
<1>4. \A u \in Tasks : /\ session'[u].origin = session[u].origin
                       /\ (session'[u].doing = "nothing" <=> session[u].doing = "nothing")
                       /\ session'[u].doing \in Doing /\ session[u].doing \in Doing
  BY <1>1, <1>2, <1>3, ZenonT(40) DEF Session
<1>5. \A i \in Ips : From(i)' = From(i)
  BY <1>4 DEF From, Doers
<1>6. CountsOK'
  BY <1>5 DEF CountsOK, CountsMatch, Inv, TypeOK
<1>7. ServiceOK'
  BY ZenonT(40) DEF ServiceOK, service, Inv, TypeOK
<1>8. QED
  BY <1>1, <1>2, <1>3, <1>6, <1>7, ZenonT(40)

\* A step that leaves the rates alone.
LEMMA RatesSame ==
    ASSUME Inv, UNCHANGED rates
    PROVE  RatesOK'
BY DEF Inv, TypeOK, RatesOK, rates, TablesFinite, TablesBounded

\* A step that leaves the sessions and the service alone.
LEMMA SessionsSame ==
    ASSUME Inv, UNCHANGED <<session, counts, service>>
    PROVE  CountsOK' /\ ServiceOK'
<1>1. \A i \in Ips : From(i)' = From(i)
  BY DEF From, Doers
<1>2. QED
  BY <1>1 DEF CountsOK, CountsMatch, ServiceOK, service, Inv, TypeOK

----------------------------------------------------------------------------
(* Rates *)

\* What the operators on a table do to an entry and to the known keys.
LEMMA Tables ==
    ASSUME NEW S, NEW limit \in Nat \ {0}, NEW table \in [S -> Entry(limit)], NEW k \in S,
           IsFiniteSet(Known(table)), Cardinality(Known(table)) <= Capacity
    PROVE  /\ Sweep(table) \in [S -> Entry(limit)]
           /\ IsFiniteSet(Known(Sweep(table))) /\ Cardinality(Known(Sweep(table))) <= Capacity
           /\ Attempt(table, k, limit) \in [S -> Entry(limit)]
           /\ IsFiniteSet(Known(Attempt(table, k, limit)))
           /\ ~Full(table, k) => Cardinality(Known(Attempt(table, k, limit))) <= Capacity
<1> USE RatesAssumption
<1>1. Unknown \in Entry(limit)
  BY DEF Unknown, Entry
<1>2. Sweep(table) \in [S -> Entry(limit)]
  BY <1>1 DEF Sweep
<1>3. Known(Sweep(table)) \subseteq Known(table)
  BY DEF Known, Sweep, Unknown
<1>4. IsFiniteSet(Known(Sweep(table))) /\ Cardinality(Known(Sweep(table))) <= Cardinality(Known(table))
  BY <1>3, FS_Subset, ZenonT(40)
<1>5. Cardinality(Known(table)) \in Nat /\ Cardinality(Known(Sweep(table))) \in Nat
  BY <1>4, FS_CardinalityType, ZenonT(40)
<1>6. Attempt(table, k, limit) \in [S -> Entry(limit)]
  <2>1. \E age \in 0 .. Window, attempts \in 0 .. limit + 1 :
            Attempt(table, k, limit) = [table EXCEPT ![k] = [age |-> age, attempts |-> attempts]]
    <3> DEFINE entry == IF Expired(table[k]) THEN Unknown ELSE table[k]
    <3>1. entry \in Entry(limit)
      BY <1>1, ZenonT(40)
    <3>2. entry.age \in 0 .. Window /\ entry.attempts \in 0 .. limit + 1
      BY <3>1 DEF Entry
    <3>3. (IF entry.attempts + 1 > limit THEN limit + 1 ELSE entry.attempts + 1) \in 0 .. limit + 1
      BY <3>2
    <3>4. QED
      BY <3>2, <3>3, ZenonT(40) DEF Attempt
  <2>2. PICK age \in 0 .. Window, attempts \in 0 .. limit + 1 :
            Attempt(table, k, limit) = [table EXCEPT ![k] = [age |-> age, attempts |-> attempts]]
    BY <2>1, ZenonT(40)
  <2>3. [age |-> age, attempts |-> attempts] \in Entry(limit)
    BY DEF Entry
  <2>4. QED
    BY <2>2, <2>3
<1>7. Known(Attempt(table, k, limit)) \subseteq Known(table) \union {k}
  BY DEF Known, Attempt
<1>8. /\ IsFiniteSet(Known(table) \union {k})
      /\ k \in Known(table) => Cardinality(Known(table) \union {k}) = Cardinality(Known(table))
      /\ k \notin Known(table) => Cardinality(Known(table) \union {k}) = Cardinality(Known(table)) + 1
  BY FS_AddElement
<1>9. /\ IsFiniteSet(Known(Attempt(table, k, limit)))
      /\ Cardinality(Known(Attempt(table, k, limit))) <= Cardinality(Known(table) \union {k})
  BY <1>7, <1>8, FS_Subset, ZenonT(40)
<1>10. Cardinality(Known(Attempt(table, k, limit))) \in Nat
  BY <1>9, FS_CardinalityType
<1>11. ~Full(table, k) => Cardinality(Known(table) \union {k}) <= Capacity
  BY <1>5, <1>8 DEF Full
<1>12. ~Full(table, k) => Cardinality(Known(Attempt(table, k, limit))) <= Capacity
  BY <1>5, <1>8, <1>9, <1>10, <1>11
<1>13. QED
  BY <1>2, <1>4, <1>5, <1>6, <1>9, <1>12

\* Time passes: no key appears.
LEMMA TablesAge ==
    ASSUME NEW S, NEW limit \in Nat \ {0}, NEW table \in [S -> Entry(limit)],
           IsFiniteSet(Known(table)), Cardinality(Known(table)) <= Capacity
    PROVE  /\ Older(table) \in [S -> Entry(limit)]
           /\ IsFiniteSet(Known(Older(table))) /\ Cardinality(Known(Older(table))) <= Capacity
<1> USE RatesAssumption
<1>1. ASSUME NEW k \in S, ~Expired(table[k])
      PROVE  /\ [table[k] EXCEPT !.age = @ + 1] \in Entry(limit)
             /\ [table[k] EXCEPT !.age = @ + 1].attempts = table[k].attempts
  BY <1>1 DEF Entry, Expired
<1>2. Older(table) \in [S -> Entry(limit)]
  BY <1>1 DEF Older
<1>3. Known(Older(table)) = Known(table)
  BY <1>1 DEF Known, Older
<1>4. QED
  BY <1>2, <1>3, ZenonT(40)

\* An AUTH attempt (Rates::check).
LEMMA Checks ==
    ASSUME Inv, NEW t \in Tasks, NEW account \in Accounts, Authenticate(t, account)
    PROVE  RatesOK'
<1> DEFINE ip == session[t].origin
           due == sinceSweep >= SweepEvery
           i == IF due THEN Sweep(ips) ELSE ips
           a == IF due THEN Sweep(accounts) ELSE accounts
<1>1. ip \in Ips
  BY ZenonT(40) DEF Authenticate, Inv, TypeOK, Session, Origins
<1> HIDE DEF ip
<1>2. IpLimit \in Nat \ {0} /\ AccountLimit \in Nat \ {0} /\ SweepEvery \in Nat
  BY AdmissionAssumption, ZenonT(40)
<1>3. /\ ips \in [Ips -> Entry(IpLimit)] /\ accounts \in [Accounts -> Entry(AccountLimit)]
      /\ IsFiniteSet(Known(ips)) /\ Cardinality(Known(ips)) <= Capacity
      /\ IsFiniteSet(Known(accounts)) /\ Cardinality(Known(accounts)) <= Capacity
  BY DEF Inv, TypeOK, TablesFinite, TablesBounded
<1>4. /\ i \in [Ips -> Entry(IpLimit)]
      /\ IsFiniteSet(Known(i)) /\ Cardinality(Known(i)) <= Capacity
  BY <1>1, <1>2, <1>3, Tables, ZenonT(40)
<1>5. /\ a \in [Accounts -> Entry(AccountLimit)]
      /\ IsFiniteSet(Known(a)) /\ Cardinality(Known(a)) <= Capacity
  BY <1>1, <1>2, <1>3, Tables, ZenonT(40)
<1>6. \/ ips' = i /\ accounts' = a
      \/ /\ ~Full(i, ip) /\ ips' = Attempt(i, ip, IpLimit)
         /\ ~Full(a, account) /\ accounts' = Attempt(a, account, AccountLimit)
  BY ZenonT(40) DEF Authenticate, Check, NoRoom, ip
<1> HIDE DEF i, a
<1>7. /\ ips' \in [Ips -> Entry(IpLimit)]
      /\ IsFiniteSet(Known(ips')) /\ Cardinality(Known(ips')) <= Capacity
  <2>1. CASE ips' = i
    BY <2>1, <1>4, ZenonT(40)
  <2>2. CASE ~Full(i, ip) /\ ips' = Attempt(i, ip, IpLimit)
    BY <1>1, <1>2, <2>2, <1>4, Tables, ZenonT(40)
  <2>3. QED
    BY <1>6, <2>1, <2>2, ZenonT(40)
<1>8. /\ accounts' \in [Accounts -> Entry(AccountLimit)]
      /\ IsFiniteSet(Known(accounts')) /\ Cardinality(Known(accounts')) <= Capacity
  <2>1. CASE accounts' = a
    BY <2>1, <1>5, ZenonT(40)
  <2>2. CASE ~Full(a, account) /\ accounts' = Attempt(a, account, AccountLimit)
    BY <1>2, <2>2, <1>5, Tables, ZenonT(40)
  <2>3. QED
    BY <1>6, <2>1, <2>2, ZenonT(40)
<1>9. sinceSweep' \in 0 .. SweepEvery
  <2>1. sinceSweep' = Check(session[t].origin, account).sinceSweep
    BY ZenonT(40) DEF Authenticate
  <2>2. Check(session[t].origin, account).sinceSweep \in {0, sinceSweep}
    BY DEF Check
  <2>3. sinceSweep \in 0 .. SweepEvery
    BY ZenonT(40) DEF Inv, TypeOK
  <2>4. QED
    BY <1>2, <2>1, <2>2, <2>3
<1>10. passed' \in [Keys -> [0 .. Window - 1 -> Nat]]
  <2>1. ASSUME NEW k \in Keys
        PROVE  [passed[k] EXCEPT ![0] = @ + 1] \in [0 .. Window - 1 -> Nat]
    BY RatesAssumption DEF Inv, TypeOK
  <2>2. QED
    BY <2>1, ZenonT(40) DEF Authenticate, Inv, TypeOK
<1>11. QED
  BY <1>7, <1>8, <1>9, <1>10, ZenonT(40) DEF RatesOK, TablesFinite, TablesBounded

\* A tick of the clock.
LEMMA Ticks ==
    ASSUME Inv, Tick
    PROVE  RatesOK'
<1>1. IpLimit \in Nat \ {0} /\ AccountLimit \in Nat \ {0} /\ SweepEvery \in Nat
  BY AdmissionAssumption
<1>2. /\ ips' \in [Ips -> Entry(IpLimit)]
      /\ IsFiniteSet(Known(ips')) /\ Cardinality(Known(ips')) <= Capacity
  BY <1>1, TablesAge, ZenonT(40) DEF Tick, Inv, TypeOK, TablesFinite, TablesBounded
<1>3. /\ accounts' \in [Accounts -> Entry(AccountLimit)]
      /\ IsFiniteSet(Known(accounts')) /\ Cardinality(Known(accounts')) <= Capacity
  BY <1>1, TablesAge, ZenonT(40) DEF Tick, Inv, TypeOK, TablesFinite, TablesBounded
<1>4. sinceSweep' \in 0 .. SweepEvery
  BY <1>1 DEF Tick, Inv, TypeOK
<1>5. passed' \in [Keys -> [0 .. Window - 1 -> Nat]]
  <2>1. ASSUME NEW k \in Keys, NEW n \in 0 .. Window - 1
        PROVE  (IF n = 0 THEN 0 ELSE passed[k][n - 1]) \in Nat
    <3>1. passed[k] \in [0 .. Window - 1 -> Nat]
      BY ZenonT(40) DEF Inv, TypeOK
    <3>2. n # 0 => n - 1 \in 0 .. Window - 1
      BY RatesAssumption
    <3>3. QED
      BY <3>1, <3>2, ZenonT(40)
  <2>2. QED
    BY <2>1 DEF Tick
<1>6. QED
  BY <1>2, <1>3, <1>4, <1>5, ZenonT(40) DEF RatesOK, TablesFinite, TablesBounded

----------------------------------------------------------------------------
(* Sessions come and go *)

\* A step of one session changes the sessions from an address by that session.
LEMMA FromStep ==
    ASSUME TypeOK, NEW t \in Tasks, NEW r \in Session,
           session' = [session EXCEPT ![t] = r], NEW i \in Ips
    PROVE  LET before == session[t].doing # "nothing" /\ session[t].origin = i
               after  == r.doing # "nothing" /\ r.origin = i
           IN  /\ Cardinality(From(i)) \in Nat /\ Cardinality(From(i)') \in Nat
               /\ (before <=> after) => Cardinality(From(i)') = Cardinality(From(i))
               /\ after /\ ~before => Cardinality(From(i)') = Cardinality(From(i)) + 1
               /\ before /\ ~after => Cardinality(From(i)') = Cardinality(From(i)) - 1
<1>1. From(i) \in SUBSET Tasks /\ From(i)' \in SUBSET Tasks
  BY DEF From, Doers
<1>2. session'[t] = r /\ \A u \in Tasks \ {t} : session'[u] = session[u]
  BY DEF TypeOK
<1>3. \A u \in Tasks \ {t} : u \in From(i) <=> u \in From(i)'
  BY <1>2, ZenonT(40) DEF From, Doers
<1>4. /\ t \in From(i) <=> session[t].doing # "nothing" /\ session[t].origin = i
      /\ t \in From(i)' <=> r.doing # "nothing" /\ r.origin = i
  BY <1>2, ZenonT(40) DEF From, Doers, TypeOK, Session
<1>5. QED
  BY <1>1, <1>3, <1>4, OneApart, TasksCounted, ZenonT(40)

\* A step of a session leaves the shutdown where it is.
LEMMA ServiceSame ==
    ASSUME Inv, UNCHANGED service
    PROVE  ServiceOK'
BY DEF ServiceOK, service, Inv, TypeOK

\* The listener lets a connection in.
LEMMA ConnectPreserves ==
    ASSUME Inv, NEW t \in Tasks, NEW ip \in Ips, Connect(t, ip)
    PROVE  Inv'
<1> DEFINE r == [origin |-> ip, doing |-> "open"]
<1>1. /\ session' = [session EXCEPT ![t] = r] /\ session[t].doing = "nothing"
      /\ counts' = [counts EXCEPT ![ip] = @ + 1] /\ counts[ip] < PerIp
      /\ free' = Take({"connections"}) /\ free["connections"] > 0
      /\ detached' = detached /\ UNCHANGED rates /\ UNCHANGED service
  BY ZenonT(40) DEF Connect
<1>2. r \in Session /\ session[t] \in Session /\ TypeOK /\ r.doing = "open" /\ r.origin = ip
  BY ZenonT(40) DEF Session, Origins, Doing, Inv, TypeOK
<1> HIDE DEF r
<1>3. Held(r) = {"connections"} /\ Held(session[t]) = {}
  BY <1>1, <1>2, HeldValues, AdmissionAssumption, ZenonT(40) DEF Lease
<1>4. Kept'
  BY <1>1, <1>2, <1>3, Takes, ZenonT(40) DEF Semaphores
<1>5. ASSUME NEW i \in Ips
      PROVE  counts'[i] \in Nat /\ counts'[i] = Cardinality(From(i)') /\ counts'[i] <= PerIp
  <2>1. counts[i] \in Nat /\ counts[i] = Cardinality(From(i)) /\ counts[i] <= PerIp /\ PerIp \in Nat
    BY AdmissionAssumption, ZenonT(40) DEF Inv, TypeOK, CountsMatch
  <2>2. counts'[i] = IF i = ip THEN counts[i] + 1 ELSE counts[i]
    BY <1>1 DEF Inv, TypeOK
  <2>3. Cardinality(From(i)') = IF i = ip THEN Cardinality(From(i)) + 1 ELSE Cardinality(From(i))
    BY <1>1, <1>2, FromStep, ZenonT(40)
  <2>4. QED
    BY <1>1, <2>1, <2>2, <2>3
<1>6. counts' \in [Ips -> Nat]
  BY <1>1 DEF Inv, TypeOK
<1>7. CountsOK'
  BY <1>5, <1>6, ZenonT(40) DEF CountsOK, CountsMatch
<1>8. QED
  BY <1>1, <1>4, <1>7, RatesSame, ServiceSame, PartsNext, ZenonT(40)

\* The local socket lets an administrator in.
LEMMA ManagePreserves ==
    ASSUME Inv, NEW t \in Tasks, Manage(t)
    PROVE  Inv'
<1> DEFINE r == [origin |-> Admin, doing |-> "open"]
<1>1. /\ session' = [session EXCEPT ![t] = r] /\ session[t].doing = "nothing"
      /\ counts' = counts
      /\ free' = Take({"management"}) /\ free["management"] > 0
      /\ detached' = detached /\ UNCHANGED rates /\ UNCHANGED service
  BY ZenonT(40) DEF Manage
<1>2. r \in Session /\ session[t] \in Session /\ TypeOK /\ r.doing = "open" /\ r.origin = Admin
  BY ZenonT(40) DEF Session, Origins, Doing, Inv, TypeOK
<1> HIDE DEF r
<1>3. Held(r) = {"management"} /\ Held(session[t]) = {}
  BY <1>1, <1>2, HeldValues, ZenonT(40) DEF Lease
<1>4. Kept'
  BY <1>1, <1>2, <1>3, Takes, ZenonT(40) DEF Semaphores
<1>5. \A i \in Ips : Cardinality(From(i)') = Cardinality(From(i))
  BY <1>1, <1>2, FromStep, AdmissionAssumption, ZenonT(40)
<1>6. CountsOK'
  BY <1>1, <1>5, ZenonT(40) DEF CountsOK, CountsMatch, Inv, TypeOK
<1>7. QED
  BY <1>1, <1>4, <1>6, RatesSame, ServiceSame, PartsNext, ZenonT(40)

\* A session ends: everything in its scope is dropped, a job runs on.
LEMMA ClosePreserves ==
    ASSUME Inv, NEW t \in Tasks, Close(t)
    PROVE  Inv'
<1> DEFINE o == session[t].origin
           d == session[t].doing
           J == IF d = "verifying" THEN Verification ELSE {}
<1>1. /\ session' = [session EXCEPT ![t] = Nobody] /\ d # "nothing"
      /\ free' = Give(Lease(o) \union Scope(d))
      /\ counts' = IF o = Admin THEN counts ELSE [counts EXCEPT ![o] = @ - 1]
      /\ detached' = IF d = "verifying" THEN detached + 1 ELSE detached
      /\ UNCHANGED rates /\ UNCHANGED service
  BY ZenonT(40) DEF Close
<1>2. /\ Nobody \in Session /\ session[t] \in Session /\ TypeOK
      /\ Nobody.doing = "nothing" /\ o \in Origins /\ d \in Doing
  BY ZenonT(40) DEF Session, Origins, Doing, Nobody, Inv, TypeOK
<1>3. Lease(o) \union Scope(d) = Held(session[t]) \ J /\ J \subseteq Held(session[t])
  <2>1. Lease(o) = {"management"} \/ Lease(o) = {"connections"}
    BY <1>2, LeaseValues, ZenonT(40)
  <2>2. CASE d = "verifying"
    <3>1. Held(session[t]) = Lease(o) \union Verification /\ Scope(d) = {} /\ J = Verification
      BY <1>2, <2>2, HeldValues, ScopeValues, ZenonT(40)
    <3>2. QED
      BY <2>1, <3>1 DEF Verification
  <2>3. CASE d # "verifying"
    <3>1. J = {} /\ Held(session[t]) = Lease(o) \union Scope(d)
      BY <1>1, <1>2, <2>3, HeldValues, ScopeValues, SMTT(30) DEF Doing
    <3>2. QED
      BY <3>1, ZenonT(40)
  <2>4. QED
    BY <2>2, <2>3, ZenonT(40)
<1>4. Held(session[t]) \in SUBSET Semaphores /\ Held(Nobody) = {}
  BY <1>1, <1>2, HeldValues, LeaseValues DEF Doing, Semaphores, Verification
<1>5. J \in {{}, Verification} /\ (J = {} <=> d # "verifying")
  BY DEF Verification
<1>6. Kept'
  <2> HIDE DEF o, d, J
  <2>1. Held(Nobody) = Held(session[t]) \ Held(session[t])
    BY <1>4
  <2>2. free' = Give(Held(session[t]) \ J)
    BY <1>1, <1>3, ZenonT(40)
  <2>3. detached' = IF J = {} THEN detached ELSE detached + 1
    BY <1>1, <1>5, ZenonT(40)
  <2>4. QED
    BY <1>1, <1>2, <1>3, <1>4, <1>5, <2>1, <2>2, <2>3, Drops, ZenonT(40)
<1>7. ASSUME NEW i \in Ips
      PROVE  counts'[i] \in Nat /\ counts'[i] = Cardinality(From(i)') /\ counts'[i] <= PerIp
  <2>1. counts[i] \in Nat /\ counts[i] = Cardinality(From(i)) /\ counts[i] <= PerIp /\ PerIp \in Nat
    BY AdmissionAssumption, ZenonT(40) DEF Inv, TypeOK, CountsMatch
  <2>2. counts'[i] = IF i = o THEN counts[i] - 1 ELSE counts[i]
    BY <1>1, <1>2, AdmissionAssumption, ZenonT(40) DEF Inv, TypeOK
  <2>3. /\ Cardinality(From(i)') = IF i = o THEN Cardinality(From(i)) - 1 ELSE Cardinality(From(i))
        /\ Cardinality(From(i)') \in Nat
    BY <1>1, <1>2, FromStep, ZenonT(40)
  <2>4. QED
    BY <2>1, <2>2, <2>3
<1>8. counts' \in [Ips -> Nat]
  <2>1. counts' = [i \in Ips |-> counts'[i]]
    BY <1>1, ZenonT(40) DEF Inv, TypeOK
  <2>2. QED
    BY <1>7, <2>1, ZenonT(40)
<1>9. CountsOK'
  BY <1>7, <1>8, ZenonT(40) DEF CountsOK, CountsMatch
<1>10. QED
  BY <1>1, <1>6, <1>9, RatesSame, ServiceSame, PartsNext, ZenonT(40)

----------------------------------------------------------------------------
(* What sessions ask for *)

\* A session goes on to something for which it takes the permits in A.
Entering(t, d, A) ==
    /\ session[t].doing # "nothing" /\ Becomes(t, d) /\ UNCHANGED <<counts, service>>
    /\ \A r \in Session : r.origin = session[t].origin /\ r.doing = d =>
           Held(r) = Held(session[t]) \union A
    /\ A \intersect Held(session[t]) = {}
    /\ \A k \in A : free[k] > 0
    /\ free' = Take(A) /\ detached' = detached

\* It gives up the permits in A, of which those in J stay with a job.
Leaving(t, d, A, J) ==
    /\ session[t].doing # "nothing" /\ Becomes(t, d) /\ UNCHANGED <<counts, service>>
    /\ \A r \in Session : r.origin = session[t].origin /\ r.doing = d =>
           Held(r) = Held(session[t]) \ A
    /\ A \subseteq Held(session[t]) /\ J \subseteq A
    /\ free' = Give(A \ J)
    /\ detached' = IF J = {} THEN detached ELSE detached + 1

\* A session that takes permits keeps the tally.
LEMMA Enters ==
    ASSUME Inv, NEW t \in Tasks, NEW d \in Doing \ {"nothing"}, NEW A \in SUBSET Semaphores,
           Entering(t, d, A)
    PROVE  Kept' /\ CountsOK' /\ ServiceOK'
<1> USE DEF Entering
<1> DEFINE r == [origin |-> session[t].origin, doing |-> d]
<1>1. session' = [session EXCEPT ![t] = r] /\ r \in Session /\ CountsOK' /\ ServiceOK'
  BY Moves, ZenonT(40)
<1>2. r.origin = session[t].origin /\ r.doing = d
  OBVIOUS
<1> HIDE DEF r
<1>3. Held(r) = Held(session[t]) \union A
  BY <1>1, <1>2
<1>4. QED
  BY <1>1, <1>3, Takes, ZenonT(40)

\* A session that gives permits up keeps the tally.
LEMMA Leaves ==
    ASSUME Inv, NEW t \in Tasks, NEW d \in Doing \ {"nothing"}, NEW A \in SUBSET Semaphores,
           NEW J \in {{}, Verification}, Leaving(t, d, A, J)
    PROVE  Kept' /\ CountsOK' /\ ServiceOK'
<1> USE DEF Leaving
<1> DEFINE r == [origin |-> session[t].origin, doing |-> d]
<1>1. session' = [session EXCEPT ![t] = r] /\ r \in Session /\ CountsOK' /\ ServiceOK'
  BY Moves, ZenonT(40)
<1>2. r.origin = session[t].origin /\ r.doing = d
  OBVIOUS
<1> HIDE DEF r
<1>3. Held(r) = Held(session[t]) \ A
  BY <1>1, <1>2, ZenonT(40)
<1>4. QED
  BY <1>1, <1>3, Drops, ZenonT(40)

\* The session of a task, and what it holds beside its lease.
LEMMA SessionOf ==
    ASSUME Inv, NEW t \in Tasks
    PROVE  /\ session[t] \in Session /\ session[t].origin \in Origins /\ session[t].doing \in Doing
           /\ Lease(session[t].origin) \in {{"management"}, {"connections"}}
BY LeaseValues DEF Inv, TypeOK, Session

\* Next to its lease a session holds none of the lease's semaphores.
LEMMA LeaseApart ==
    ASSUME Inv, NEW t \in Tasks,
           NEW A \in SUBSET {"handshakes", "ingest", "admission", "active"}
    PROVE  Lease(session[t].origin) \intersect A = {}
BY SessionOf, ZenonT(40)

\* A TLS handshake begins.
LEMMA HandshakePreserves ==
    ASSUME Inv, NEW t \in Tasks, Handshake(t)
    PROVE  Inv'
<1>1. /\ session[t].doing = "open" /\ Becomes(t, "handshake")
      /\ free' = Take({"handshakes"}) /\ free["handshakes"] > 0
      /\ detached' = detached /\ UNCHANGED <<counts, service>> /\ UNCHANGED rates
  BY ZenonT(40) DEF Handshake
<1>2. Entering(t, "handshake", {"handshakes"})
  <2>1. Held(session[t]) = Lease(session[t].origin)
    BY <1>1, HeldValues, SessionOf, ZenonT(40)
  <2>2. \A r \in Session : r.origin = session[t].origin /\ r.doing = "handshake" =>
            Held(r) = Lease(session[t].origin) \union {"handshakes"}
    BY HeldValues
  <2>3. Lease(session[t].origin) \intersect {"handshakes"} = {}
    BY LeaseApart, ZenonT(40)
  <2>4. QED
    BY <1>1, <2>1, <2>2, <2>3, ZenonT(40) DEF Entering
<1>3. "handshake" \in Doing \ {"nothing"} /\ {"handshakes"} \in SUBSET Semaphores
  BY DEF Doing, Semaphores
<1>4. Kept' /\ CountsOK' /\ ServiceOK'
  BY <1>2, <1>3, Enters, ZenonT(40)
<1>5. QED
  BY <1>1, <1>4, RatesSame, PartsNext, ZenonT(40)

\* A DATA transaction begins.
LEMMA BeginDataPreserves ==
    ASSUME Inv, NEW t \in Tasks, BeginData(t)
    PROVE  Inv'
<1>1. /\ session[t].doing = "open" /\ Becomes(t, "data")
      /\ free' = Take({"ingest"}) /\ free["ingest"] > 0
      /\ detached' = detached /\ UNCHANGED <<counts, service>> /\ UNCHANGED rates
  BY ZenonT(40) DEF BeginData
<1>2. Entering(t, "data", {"ingest"})
  <2>1. Held(session[t]) = Lease(session[t].origin)
    BY <1>1, HeldValues, SessionOf, ZenonT(40)
  <2>2. \A r \in Session : r.origin = session[t].origin /\ r.doing = "data" =>
            Held(r) = Lease(session[t].origin) \union {"ingest"}
    BY HeldValues
  <2>3. Lease(session[t].origin) \intersect {"ingest"} = {}
    BY LeaseApart, ZenonT(40)
  <2>4. QED
    BY <1>1, <2>1, <2>2, <2>3, ZenonT(40) DEF Entering
<1>3. "data" \in Doing \ {"nothing"} /\ {"ingest"} \in SUBSET Semaphores
  BY DEF Doing, Semaphores
<1>4. Kept' /\ CountsOK' /\ ServiceOK'
  BY <1>2, <1>3, Enters, ZenonT(40)
<1>5. QED
  BY <1>1, <1>4, RatesSame, PartsNext, ZenonT(40)

\* A handshake or a DATA transaction is over.
LEMMA ProceedPreserves ==
    ASSUME Inv, NEW t \in Tasks, Proceed(t)
    PROVE  Inv'
<1> DEFINE A == Scope(session[t].doing)
<1>1. /\ session[t].doing \in {"handshake", "data"} /\ Becomes(t, "open") /\ free' = Give(A)
      /\ detached' = detached /\ UNCHANGED <<counts, service>> /\ UNCHANGED rates
  BY ZenonT(40) DEF Proceed
<1>2. A \in {{"handshakes"}, {"ingest"}} /\ A \in SUBSET Semaphores
  BY <1>1, ScopeValues, ZenonT(40) DEF Semaphores
<1>3. /\ Held(session[t]) = Lease(session[t].origin) \union A
      /\ \A r \in Session : r.origin = session[t].origin /\ r.doing = "open" =>
             Held(r) = Lease(session[t].origin)
  <2>1. CASE session[t].doing = "handshake"
    BY <2>1, HeldValues, SessionOf, ScopeValues, ZenonT(40)
  <2>2. CASE session[t].doing = "data"
    BY <2>2, HeldValues, SessionOf, ScopeValues, ZenonT(40)
  <2>3. QED
    BY <1>1, <2>1, <2>2, ZenonT(40)
<1> HIDE DEF A
<1>4. Lease(session[t].origin) \intersect A = {}
  BY <1>2, LeaseApart, ZenonT(40)
<1>5. Leaving(t, "open", A, {})
  <2>1. A \ {} = A /\ {} \subseteq A
    OBVIOUS
  <2>2. /\ \A r \in Session : r.origin = session[t].origin /\ r.doing = "open" =>
               Held(r) = Held(session[t]) \ A
        /\ A \subseteq Held(session[t])
    BY <1>3, <1>4
  <2>3. QED
    BY <1>1, <2>1, <2>2, ZenonT(40) DEF Leaving
<1>6. "open" \in Doing \ {"nothing"}
  BY DEF Doing
<1>7. Kept' /\ CountsOK' /\ ServiceOK'
  BY <1>2, <1>5, <1>6, Leaves, ZenonT(40)
<1>8. QED
  BY <1>1, <1>7, RatesSame, PartsNext, ZenonT(40)

----------------------------------------------------------------------------
(* AuthService *)

\* An attempt finds a place in the queue, or nothing happens (permits()).
LEMMA QueuePreserves ==
    ASSUME Inv, NEW t \in Tasks, session[t].doing = "open", Queue(t),
           UNCHANGED <<counts, detached, service>>
    PROVE  Kept' /\ CountsOK' /\ ServiceOK'
<1>1. CASE free["admission"] > 0
  <2>1. Becomes(t, "waiting") /\ free' = Take({"admission"})
    BY <1>1, ZenonT(40) DEF Queue
  <2>2. Entering(t, "waiting", {"admission"})
    <3>1. Held(session[t]) = Lease(session[t].origin)
      BY HeldValues, SessionOf, ZenonT(40)
    <3>2. \A r \in Session : r.origin = session[t].origin /\ r.doing = "waiting" =>
              Held(r) = Lease(session[t].origin) \union {"admission"}
      BY HeldValues
    <3>3. Lease(session[t].origin) \intersect {"admission"} = {}
      BY LeaseApart, ZenonT(40)
    <3>4. QED
      BY <1>1, <2>1, <3>1, <3>2, <3>3, ZenonT(40) DEF Entering
  <2>3. "waiting" \in Doing \ {"nothing"} /\ {"admission"} \in SUBSET Semaphores
    BY DEF Doing, Semaphores
  <2>4. QED
    BY <2>2, <2>3, Enters, ZenonT(40)
<1>2. CASE ~(free["admission"] > 0)
  <2>1. UNCHANGED <<session, free>>
    BY <1>2 DEF Queue
  <2>2. QED
    BY <2>1, PermitsSame, SessionsSame, ZenonT(40)
<1>3. QED
  BY <1>1, <1>2, ZenonT(40)

\* An AUTH attempt.
LEMMA AuthenticatePreserves ==
    ASSUME Inv, NEW t \in Tasks, NEW account \in Accounts, Authenticate(t, account)
    PROVE  Inv'
<1>1. /\ session[t].doing = "open" /\ UNCHANGED <<counts, detached, service>>
      /\ Queue(t) \/ UNCHANGED <<session, free>>
  BY DEF Authenticate
<1>2. RatesOK'
  BY Checks, ZenonT(40)
<1>3. CASE Queue(t)
  BY <1>1, <1>2, <1>3, QueuePreserves, PartsNext, ZenonT(40)
<1>4. CASE UNCHANGED <<session, free>>
  BY <1>1, <1>2, <1>4, PermitsSame, SessionsSame, PartsNext, ZenonT(40)
<1>5. QED
  BY <1>1, <1>3, <1>4, ZenonT(40)

\* An administrator asks for a credential.
LEMMA GeneratePreserves ==
    ASSUME Inv, NEW t \in Tasks, Generate(t)
    PROVE  Inv'
BY QueuePreserves, RatesSame, PartsNext, ZenonT(40) DEF Generate

\* The second permit is taken.
LEMMA ActivatePreserves ==
    ASSUME Inv, NEW t \in Tasks, Activate(t)
    PROVE  Inv'
<1> DEFINE d == IF session[t].origin = Admin THEN "verifying" ELSE "lookup"
<1>1. /\ session[t].doing = "waiting" /\ Becomes(t, d)
      /\ free' = Take({"active"}) /\ free["active"] > 0
      /\ detached' = detached /\ UNCHANGED <<counts, service>> /\ UNCHANGED rates
  BY DEF Activate
<1>2. d \in {"lookup", "verifying"}
  OBVIOUS
<1> HIDE DEF d
<1>3. Entering(t, d, {"active"})
  <2>1. Held(session[t]) = Lease(session[t].origin) \union {"admission"}
    BY <1>1, HeldValues, SessionOf, ZenonT(40)
  <2>2. \A r \in Session : r.origin = session[t].origin /\ r.doing = d =>
            Held(r) = Lease(session[t].origin) \union Verification
    BY <1>2, HeldValues
  <2>3. Lease(session[t].origin) \intersect {"active"} = {}
    BY LeaseApart, ZenonT(40)
  <2>4. Verification = {"admission"} \union {"active"}
    BY DEF Verification
  <2>5. /\ \A r \in Session : r.origin = session[t].origin /\ r.doing = d =>
               Held(r) = Held(session[t]) \union {"active"}
        /\ {"active"} \intersect Held(session[t]) = {}
    BY <2>1, <2>2, <2>3, <2>4, ZenonT(40)
  <2>6. QED
    BY <1>1, <2>5, ZenonT(40) DEF Entering
<1>4. d \in Doing \ {"nothing"} /\ {"active"} \in SUBSET Semaphores
  BY <1>2 DEF Doing, Semaphores
<1>5. Kept' /\ CountsOK' /\ ServiceOK'
  BY <1>3, <1>4, Enters, ZenonT(40)
<1>6. QED
  BY <1>1, <1>5, RatesSame, PartsNext, ZenonT(40)

\* The job gets the permits.
LEMMA VerifyPreserves ==
    ASSUME Inv, NEW t \in Tasks, Verify(t)
    PROVE  Inv'
<1>1. /\ session[t].doing = "lookup" /\ Becomes(t, "verifying") /\ free' = free
      /\ detached' = detached /\ UNCHANGED <<counts, service>> /\ UNCHANGED rates
  BY ZenonT(40) DEF Verify
<1>2. free' = Take({})
  BY <1>1, ZenonT(40) DEF Take, Inv, TypeOK
<1>3. Entering(t, "verifying", {})
  <2>1. \A r \in Session : r.origin = session[t].origin /\ r.doing = "verifying" =>
            Held(r) = Held(session[t])
    BY <1>1, HeldValues, SessionOf, ZenonT(40)
  <2>2. QED
    BY <1>1, <1>2, <2>1, ZenonT(40) DEF Entering
<1>4. "verifying" \in Doing \ {"nothing"} /\ {} \in SUBSET Semaphores
  BY DEF Doing
<1>5. Kept' /\ CountsOK' /\ ServiceOK'
  BY <1>3, <1>4, Enters, ZenonT(40)
<1>6. QED
  BY <1>1, <1>5, RatesSame, PartsNext, ZenonT(40)

\* The job ends and its session goes on.
LEMMA VerifiedPreserves ==
    ASSUME Inv, NEW t \in Tasks, Verified(t)
    PROVE  Inv'
<1>1. /\ session[t].doing = "verifying" /\ Becomes(t, "open") /\ free' = Give(Verification)
      /\ detached' = detached /\ UNCHANGED <<counts, service>> /\ UNCHANGED rates
  BY DEF Verified
<1>2. Leaving(t, "open", Verification, {})
  <2>1. Held(session[t]) = Lease(session[t].origin) \union Verification
    BY <1>1, HeldValues, SessionOf, ZenonT(40)
  <2>2. \A r \in Session : r.origin = session[t].origin /\ r.doing = "open" =>
            Held(r) = Lease(session[t].origin)
    BY HeldValues
  <2>3. Lease(session[t].origin) \intersect Verification = {}
    BY LeaseApart, ZenonT(40) DEF Verification
  <2>4. /\ \A r \in Session : r.origin = session[t].origin /\ r.doing = "open" =>
               Held(r) = Held(session[t]) \ Verification
        /\ Verification \subseteq Held(session[t])
    BY <2>1, <2>2, <2>3, ZenonT(40)
  <2>5. Verification \ {} = Verification
    OBVIOUS
  <2>6. QED
    BY <1>1, <2>4, <2>5, ZenonT(40) DEF Leaving
<1>3. "open" \in Doing \ {"nothing"} /\ Verification \in SUBSET Semaphores
  BY DEF Doing, Semaphores, Verification
<1>4. Kept' /\ CountsOK' /\ ServiceOK'
  BY <1>2, <1>3, Leaves, ZenonT(40)
<1>5. QED
  BY <1>1, <1>4, RatesSame, PartsNext, ZenonT(40)

\* The attempt is given up; a verification runs on without its session.
LEMMA AbandonPreserves ==
    ASSUME Inv, NEW t \in Tasks, Abandon(t)
    PROVE  Inv'
<1> DEFINE d == session[t].doing
           J == IF d = "verifying" THEN Verification ELSE {}
           A == Scope(d) \union J
<1>1. /\ d \in {"waiting", "lookup", "verifying"} /\ Becomes(t, "open") /\ free' = Give(Scope(d))
      /\ detached' = IF d = "verifying" THEN detached + 1 ELSE detached
      /\ UNCHANGED <<counts, service>> /\ UNCHANGED rates
  BY ZenonT(40) DEF Abandon
<1>2. /\ A \in SUBSET Semaphores /\ J \subseteq A /\ A \ J = Scope(d)
      /\ J \in {{}, Verification} /\ (J = {} <=> d # "verifying")
  BY <1>1, ScopeValues, ZenonT(40) DEF Semaphores, Verification
<1>3. /\ \A r \in Session : r.origin = session[t].origin /\ r.doing = "open" =>
             Held(r) = Held(session[t]) \ A
      /\ A \subseteq Held(session[t])
  <2>1. Held(session[t]) = Lease(session[t].origin) \union A
    BY <1>1, HeldValues, SessionOf, ScopeValues, ZenonT(40)
  <2>2. Lease(session[t].origin) \intersect A = {}
    BY <1>1, SessionOf, ScopeValues, ZenonT(40) DEF Verification
  <2>3. \A r \in Session : r.origin = session[t].origin /\ r.doing = "open" =>
            Held(r) = Lease(session[t].origin)
    BY HeldValues
  <2>4. QED
    BY <2>1, <2>2, <2>3, ZenonT(40)
<1>4. "open" \in Doing \ {"nothing"} /\ session[t].doing # "nothing"
  BY <1>1 DEF Doing
<1>5. free' = Give(A \ J) /\ detached' = IF J = {} THEN detached ELSE detached + 1
  BY <1>1, <1>2, ZenonT(40)
<1> HIDE DEF A, J, d
<1>6. Leaving(t, "open", A, J)
  BY <1>1, <1>2, <1>3, <1>4, <1>5, ZenonT(40) DEF Leaving
<1>7. Kept' /\ CountsOK' /\ ServiceOK'
  BY <1>2, <1>4, <1>6, Leaves, ZenonT(40)
<1>8. QED
  BY <1>1, <1>7, RatesSame, PartsNext, ZenonT(40)

----------------------------------------------------------------------------
(* Shutdown *)

\* The steps of the shutdown hold no permit.
LEMMA ShutdownPreserves ==
    ASSUME Inv, Stop \/ GraceEnds \/ Joined \/ RelayEnds \/ ShutWorker \/ WorkerEnds
    PROVE  Inv'
<1>1. UNCHANGED permits /\ UNCHANGED rates
  BY DEF Stop, GraceEnds, Joined, RelayEnds, ShutWorker, WorkerEnds
<1>2. UNCHANGED <<session, free, detached>> /\ counts' = counts
  BY <1>1 DEF permits
<1>3. \A i \in Ips : From(i)' = From(i)
  BY <1>2, ZenonT(40) DEF From, Doers
<1>4. CountsOK'
  BY <1>2, <1>3, ZenonT(40) DEF CountsOK, CountsMatch, Inv, TypeOK
<1>5. ServiceOK'
  BY ZenonT(40) DEF Stop, GraceEnds, Joined, RelayEnds, ShutWorker, WorkerEnds, ServiceOK, Inv, TypeOK
<1>6. QED
  BY <1>1, <1>2, <1>4, <1>5, PermitsSame, RatesSame, PartsNext, ZenonT(40)

----------------------------------------------------------------------------
(* The theorems *)

\* The server starts with every permit free and nobody counted.
LEMMA InitInv == Init => Inv
<1> SUFFICES ASSUME Init
             PROVE  Inv
  OBVIOUS
<1>1. session \in [Tasks -> Session] /\ free \in [Semaphores -> Nat] /\ detached = 0
  BY SizeValues, ZenonT(40) DEF Init, Nobody, Session, Origins, Doing
<1>2. \A t \in Tasks : session[t].doing = "nothing"
  BY DEF Init, Nobody
<1>3. Cardinality({}) = 0 /\ IsFiniteSet({})
  BY FS_EmptySet
<1>4. \A k \in Semaphores : Holders(k) = {} /\ Jobs(k) = 0
  BY <1>1, <1>2, ZenonT(40) DEF Holders, Held, Jobs
<1>5. Tally
  <2>1. \A k \in Semaphores : Cardinality(Holders(k)) = 0 /\ Jobs(k) = 0
    BY <1>3, <1>4
  <2>2. free = Size
    BY ZenonT(40) DEF Init
  <2>3. QED
    BY <2>1, <2>2, SizeValues DEF Tally
<1>6. Kept
  BY <1>1, <1>5, SizeValues DEF Kept, Init
<1>7. \A i \in Ips : From(i) = {}
  BY <1>2, ZenonT(40) DEF From, Doers
<1>8. CountsOK
  <2>1. \A i \in Ips : Cardinality(From(i)) = 0
    BY <1>3, <1>7, ZenonT(40)
  <2>2. counts = [i \in Ips |-> 0] /\ PerIp \in Nat
    BY AdmissionAssumption, ZenonT(40) DEF Init
  <2>3. QED
    BY <2>1, <2>2 DEF CountsOK, CountsMatch
<1>9. ServiceOK
  BY ZenonT(40) DEF ServiceOK, Init
<1>10. /\ ips \in [Ips -> Entry(IpLimit)] /\ accounts \in [Accounts -> Entry(AccountLimit)]
       /\ sinceSweep \in 0 .. SweepEvery
       /\ passed \in [Keys -> [0 .. Window - 1 -> Nat]]
  <2>1. Unknown \in Entry(IpLimit) /\ Unknown \in Entry(AccountLimit)
    BY RatesAssumption, AdmissionAssumption DEF Unknown, Entry
  <2>2. QED
    BY <2>1, AdmissionAssumption DEF Init
<1>11. Known(ips) = {} /\ Known(accounts) = {}
  BY DEF Init, Known, Unknown
<1>12. RatesOK
  BY <1>3, <1>10, <1>11, RatesAssumption DEF RatesOK, TablesFinite, TablesBounded
<1>13. QED
  BY <1>6, <1>8, <1>9, <1>12, Parts, ZenonT(40)

\* Every step keeps every permit and every count with its holder.
LEMMA NextInv == Inv /\ [Next]_vars => Inv'
<1> SUFFICES ASSUME Inv, [Next]_vars
             PROVE  Inv'
  OBVIOUS
<1>1. ASSUME NEW t \in Tasks, NEW ip \in Ips, Connect(t, ip)
      PROVE  Inv'
  BY <1>1, ConnectPreserves, ZenonT(40)
<1>2. ASSUME NEW t \in Tasks, Manage(t) \/ Close(t)
      PROVE  Inv'
  BY <1>2, ManagePreserves, ClosePreserves, ZenonT(40)
<1>3. ASSUME NEW t \in Tasks, Handshake(t) \/ BeginData(t) \/ Proceed(t)
      PROVE  Inv'
  BY <1>3, HandshakePreserves, BeginDataPreserves, ProceedPreserves, ZenonT(40)
<1>4. ASSUME NEW t \in Tasks, NEW account \in Accounts, Authenticate(t, account)
      PROVE  Inv'
  BY <1>4, AuthenticatePreserves
<1>5. ASSUME NEW t \in Tasks,
             Generate(t) \/ Activate(t) \/ Verify(t) \/ Verified(t) \/ Abandon(t)
      PROVE  Inv'
  BY <1>5, GeneratePreserves, ActivatePreserves, VerifyPreserves, VerifiedPreserves,
     AbandonPreserves, ZenonT(40)
<1>6. CASE DetachedEnds
  <2>1. UNCHANGED <<session, counts, service>> /\ UNCHANGED rates
    BY <1>6, ZenonT(40) DEF DetachedEnds
  <2>2. QED
    BY <1>6, <2>1, JobEnds, SessionsSame, RatesSame, PartsNext, ZenonT(40)
<1>7. CASE Tick
  <2>1. UNCHANGED <<session, free, detached>> /\ UNCHANGED <<session, counts, service>>
    BY <1>7 DEF Tick, permits
  <2>2. QED
    BY <1>7, <2>1, PermitsSame, SessionsSame, Ticks, PartsNext, ZenonT(40)
<1>8. CASE Stop \/ GraceEnds \/ Joined \/ RelayEnds \/ ShutWorker \/ WorkerEnds
  BY <1>8, ShutdownPreserves, ZenonT(40)
<1>9. CASE UNCHANGED vars
  <2>1. /\ UNCHANGED <<session, free, detached>> /\ UNCHANGED <<session, counts, service>>
        /\ UNCHANGED rates
    BY <1>9 DEF vars, permits
  <2>2. QED
    BY <2>1, PermitsSame, SessionsSame, RatesSame, PartsNext, ZenonT(40)
<1>10. QED
  BY <1>1, <1>2, <1>3, <1>4, <1>5, <1>6, <1>7, <1>8, <1>9, ZenonT(40) DEF Next

\* Every permit, free or not, is accounted for, and so is every connection
\* counted for its address: serve_until's and AuthService's bookkeeping is
\* exact, for any number of tasks and any limits.
THEOREM Accounted == Spec => []Inv
BY InitInv, NextInv, PTL DEF Spec

\* The sets that the limits are about are the holders of the semaphores.
LEMMA Limits == Inv => Bounded
<1> SUFFICES ASSUME Inv
             PROVE  Bounded
  OBVIOUS
<1>1. \A t \in Tasks : session[t] \in Session /\ session[t].origin \in Origins /\ session[t].doing \in Doing
  BY SessionOf, ZenonT(40)
<1>2. \A t \in Tasks :
          /\ "connections" \in Held(session[t]) <=>
                 session[t].doing # "nothing" /\ session[t].origin \in Ips
          /\ "management" \in Held(session[t]) <=>
                 session[t].doing # "nothing" /\ session[t].origin = Admin
          /\ "handshakes" \in Held(session[t]) <=> session[t].doing = "handshake"
          /\ "ingest" \in Held(session[t]) <=> session[t].doing = "data"
          /\ "active" \in Held(session[t]) <=> session[t].doing \in {"lookup", "verifying"}
          /\ "admission" \in Held(session[t]) <=>
                 session[t].doing \in {"waiting", "lookup", "verifying"}
  <2> SUFFICES ASSUME NEW t \in Tasks
      PROVE  /\ "connections" \in Held(session[t]) <=>
                    session[t].doing # "nothing" /\ session[t].origin \in Ips
             /\ "management" \in Held(session[t]) <=>
                    session[t].doing # "nothing" /\ session[t].origin = Admin
             /\ "handshakes" \in Held(session[t]) <=> session[t].doing = "handshake"
             /\ "ingest" \in Held(session[t]) <=> session[t].doing = "data"
             /\ "active" \in Held(session[t]) <=> session[t].doing \in {"lookup", "verifying"}
             /\ "admission" \in Held(session[t]) <=>
                    session[t].doing \in {"waiting", "lookup", "verifying"}
    OBVIOUS
  <2>1. Lease(session[t].origin) = IF session[t].origin \in Ips THEN {"connections"} ELSE {"management"}
    BY <1>1, LeaseValues, AdmissionAssumption, ZenonT(40)
  <2>2. session[t].origin \in Ips <=> session[t].origin # Admin
    BY <1>1, AdmissionAssumption, ZenonT(40) DEF Origins
  <2> DEFINE L == Lease(session[t].origin)
             d == session[t].doing
  <2>3. /\ d = "nothing" => Held(session[t]) = {}
        /\ d = "open" => Held(session[t]) = L
        /\ d = "handshake" => Held(session[t]) = L \union {"handshakes"}
        /\ d = "data" => Held(session[t]) = L \union {"ingest"}
        /\ d = "waiting" => Held(session[t]) = L \union {"admission"}
        /\ d \in {"lookup", "verifying"} => Held(session[t]) = L \union {"admission", "active"}
    BY <1>1, HeldValues, ZenonT(40) DEF Verification
  <2>4. d \in Doing
    BY <1>1, ZenonT(40)
  <2> HIDE DEF L, d
  <2>5. \/ d \in {"nothing", "open", "handshake", "data", "waiting"}
        \/ d \in {"lookup", "verifying"}
    BY <2>4 DEF Doing
  <2>6. L = IF session[t].origin \in Ips THEN {"connections"} ELSE {"management"}
    BY <2>1, ZenonT(40) DEF L
  <2>7. QED
    BY <2>2, <2>3, <2>5, <2>6, SMTT(30) DEF d
<1>3. /\ UNION {From(i) : i \in Ips} = Holders("connections")
      /\ From(Admin) = Holders("management")
  BY <1>1, <1>2, SMTT(30) DEF From, Doers, Holders
<1>4. /\ Doers({"handshake"}) = Holders("handshakes")
      /\ Doers({"data"}) = Holders("ingest")
      /\ Doers({"lookup", "verifying"}) = Holders("active")
      /\ Doers({"waiting", "lookup", "verifying"}) = Holders("admission")
  BY <1>2 DEF Doers, Holders
<1>5. \A k \in Semaphores : Cardinality(Holders(k)) \in Nat
  BY TasksCounted, ZenonT(40) DEF Holders
<1>6. \A k \in Semaphores : Cardinality(Holders(k)) + Jobs(k) <= Size[k]
  <2>1. \A k \in Semaphores : free[k] \in Nat /\ Jobs(k) \in Nat /\ Size[k] \in Nat
    BY SizeValues, ZenonT(40) DEF Inv, TypeOK, Jobs
  <2>2. QED
    BY <1>5, <2>1 DEF Inv, Tally
<1>7. /\ Jobs("connections") = 0 /\ Jobs("management") = 0 /\ Jobs("handshakes") = 0
      /\ Jobs("ingest") = 0 /\ Jobs("active") = detached /\ Jobs("admission") = detached
  BY ZenonT(40) DEF Jobs, Verification
<1>8. /\ Cardinality(Holders("connections")) <= Connections
      /\ Cardinality(Holders("management")) <= Management
      /\ Cardinality(Holders("handshakes")) <= Handshakes
      /\ Cardinality(Holders("ingest")) <= Slots
      /\ Cardinality(Holders("active")) + detached <= Concurrency
      /\ Cardinality(Holders("admission")) + detached <= Concurrency + Waiting
  BY <1>5, <1>6, <1>7, SizeValues, SMTT(30) DEF Semaphores
<1>9. \A i \in Ips : Cardinality(From(i)) <= PerIp
  BY DEF Inv, CountsMatch
<1>10. QED
  BY <1>3, <1>4, <1>8, <1>9, ZenonT(40) DEF Bounded

\* No limit is ever exceeded, whatever is cancelled when.
THEOREM LimitsKept == Spec => []Bounded
BY Accounted, Limits, PTL

\* With nobody left every semaphore is full again and no address is counted.
LEMMA Returned == Inv => AllReturned
<1> SUFFICES ASSUME Inv, detached = 0, Doers({"nothing"}) = Tasks
             PROVE  free = Size /\ \A i \in Ips : counts[i] = 0
  BY DEF AllReturned
<1>1. \A t \in Tasks : session[t].doing = "nothing"
  BY ZenonT(40) DEF Doers
<1>2. \A k \in Semaphores : Holders(k) = {} /\ Jobs(k) = 0
  BY <1>1, ZenonT(40) DEF Holders, Held, Jobs
<1>3. \A i \in Ips : From(i) = {}
  BY <1>1 DEF From, Doers
<1>4. Cardinality({}) = 0
  BY FS_EmptySet, ZenonT(40)
<1>5. \A k \in Semaphores : free[k] \in Nat /\ Size[k] \in Nat
  BY SizeValues, ZenonT(40) DEF Inv, TypeOK
<1>6. \A k \in Semaphores : free[k] = Size[k]
  <2>1. \A k \in Semaphores : free[k] + Cardinality(Holders(k)) + Jobs(k) = Size[k]
    BY ZenonT(40) DEF Inv, Tally
  <2>2. \A k \in Semaphores : free[k] + 0 + 0 = Size[k]
    BY <1>2, <1>4, <2>1, ZenonT(40)
  <2>3. QED
    BY <1>5, <2>2
<1>7. free = Size
  BY <1>6, SizeValues, SMTT(30) DEF Inv, TypeOK
<1>8. \A i \in Ips : counts[i] = 0
  BY <1>3, <1>4, ZenonT(40) DEF Inv, CountsMatch
<1>9. QED
  BY <1>7, <1>8, ZenonT(40)

\* Nothing leaks, after any history of timeouts, cancellations and aborts.
THEOREM NothingLeaks == Spec => []AllReturned
BY Accounted, Returned, PTL

\* The tables of attempts stay within their capacity (Rates::check).
THEOREM TablesKept == Spec => []TablesBounded
<1>1. Inv => TablesBounded
  BY DEF Inv
<1>2. QED
  BY <1>1, Accounted, PTL

\* The state keeps its types: no semaphore is given back more than it had, no
\* count drops below zero (usize arithmetic in ConnectionLease::drop).
THEOREM Typed == Spec => []TypeOK
<1>1. Inv => TypeOK
  BY ZenonT(40) DEF Inv
<1>2. QED
  BY <1>1, Accounted, PTL

----------------------------------------------------------------------------
(* The limiter: how many attempts pass *)

History == [0 .. Window - 1 -> Nat]

\* An attempt let through is known by its tick and its number.
LEMMA LetThroughOf ==
    ASSUME NEW h, NEW n
    PROVE  \A x : x \in LetThrough(h, n) <=> \E t \in 0 .. n - 1 : \E i \in 1 .. h[t] : x = <<t, i>>
BY DEF LetThrough

\* They are finitely many.
LEMMA PassedFacts ==
    ASSUME NEW h \in History, NEW n \in 0 .. Window
    PROVE  IsFiniteSet(LetThrough(h, n)) /\ PassedIn(h, n) \in Nat
<1> DEFINE f == [t \in 0 .. n - 1 |-> {t} \X (1 .. h[t])]
           F == {{t} \X (1 .. h[t]) : t \in 0 .. n - 1}
<1>1. n \in Nat /\ 0 .. n - 1 \subseteq 0 .. Window - 1
  BY RatesAssumption
<1>2. ASSUME NEW t \in 0 .. n - 1 PROVE IsFiniteSet({t} \X (1 .. h[t]))
  <2>1. IsFiniteSet({t})
    BY FS_Singleton, ZenonT(40)
  <2>2. h[t] \in Nat
    BY <1>1 DEF History
  <2>3. IsFiniteSet(1 .. h[t])
    <3>1. PICK m \in Nat : m = h[t]
      BY <2>2
    <3>2. IsFiniteSet(1 .. m)
      BY FS_Interval
    <3>3. QED
      BY <3>1, <3>2
  <2>4. QED
    <3> DEFINE one == {t}
               numbers == 1 .. h[t]
    <3>1. IsFiniteSet(one) /\ IsFiniteSet(numbers)
      BY <2>1, <2>3
    <3> HIDE DEF one, numbers
    <3>2. IsFiniteSet(one \X numbers)
      BY <3>1, FS_Product
    <3>3. QED
      BY <3>2 DEF one, numbers
<1>3. IsFiniteSet(0 .. n - 1)
  BY <1>1, FS_Interval
<1>4. f \in Surjection(0 .. n - 1, F)
  BY ZenonT(40) DEF Surjection
<1>5. \A T \in F : IsFiniteSet(T)
  BY <1>2
<1> HIDE DEF f, F
<1>6. IsFiniteSet(F)
  BY <1>3, <1>4, FS_Surjection, ZenonT(40)
<1>7. IsFiniteSet(UNION F)
  BY <1>5, <1>6, FS_UNION, ZenonT(40)
<1>8. IsFiniteSet(LetThrough(h, n))
  BY <1>7 DEF LetThrough, F
<1>9. QED
  BY <1>8, FS_CardinalityType DEF PassedIn

\* Nothing let through in n ticks adds up to nothing.
LEMMA PassedNone ==
    ASSUME NEW h \in History, NEW n \in 0 .. Window, \A t \in 0 .. n - 1 : h[t] = 0
    PROVE  PassedIn(h, n) = 0
<1>1. LetThrough(h, n) = {}
  BY LetThroughOf
<1>2. QED
  BY <1>1, FS_EmptySet DEF PassedIn

\* More ticks have seen no fewer attempts.
LEMMA PassedMore ==
    ASSUME NEW h \in History, NEW m \in 0 .. Window, NEW n \in 0 .. Window, m <= n
    PROVE  PassedIn(h, m) <= PassedIn(h, n)
<1>1. LetThrough(h, m) \subseteq LetThrough(h, n)
  <2>1. 0 .. m - 1 \subseteq 0 .. n - 1
    BY RatesAssumption
  <2>2. QED
    BY <2>1, LetThroughOf
<1>2. QED
  BY <1>1, PassedFacts, FS_Subset DEF PassedIn

\* A tick moves every attempt one place on.
LEMMA PassedShift ==
    ASSUME NEW h \in History, NEW g \in History,
           \A n \in 0 .. Window - 1 : g[n] = IF n = 0 THEN 0 ELSE h[n - 1],
           NEW n \in 0 .. Window - 1
    PROVE  PassedIn(g, n + 1) = PassedIn(h, n)
<1> DEFINE S == LetThrough(h, n)
           T == LetThrough(g, n + 1)
           f == [x \in S |-> <<x[1] + 1, x[2]>>]
<1>0. Window \in Nat \ {0} /\ n \in Nat /\ n + 1 \in 0 .. Window /\ n \in 0 .. Window
  BY RatesAssumption
<1>1. \A x \in S : x = <<x[1], x[2]>> /\ x[1] \in 0 .. n - 1 /\ x[2] \in 1 .. h[x[1]]
  BY LetThroughOf
<1>2. \A t \in 0 .. n - 1 : t \in Nat /\ t + 1 \in 0 .. (n + 1) - 1 /\ t + 1 # 0 /\ g[t + 1] = h[t]
  BY <1>0
<1>3. \A t \in 0 .. (n + 1) - 1 : \A i \in 1 .. g[t] : t - 1 \in 0 .. n - 1 /\ g[t] = h[t - 1] /\ (t - 1) + 1 = t
  BY <1>0
<1>4. \A x \in S : f[x] \in T
  <2> SUFFICES ASSUME NEW x \in S PROVE <<x[1] + 1, x[2]>> \in T
    OBVIOUS
  <2>1. x[1] \in 0 .. n - 1 /\ x[2] \in 1 .. h[x[1]]
    BY <1>1
  <2>2. x[1] + 1 \in 0 .. (n + 1) - 1 /\ x[2] \in 1 .. g[x[1] + 1]
    BY <1>2, <2>1, ZenonT(40)
  <2>3. QED
    BY <2>2, LetThroughOf, ZenonT(40)
<1>5. \A y \in T : \E x \in S : f[x] = y
  <2> SUFFICES ASSUME NEW y \in T PROVE \E x \in S : f[x] = y
    OBVIOUS
  <2>1. PICK t \in 0 .. (n + 1) - 1 : \E i \in 1 .. g[t] : y = <<t, i>>
    BY LetThroughOf
  <2>2. PICK i \in 1 .. g[t] : y = <<t, i>>
    BY <2>1
  <2>3. t - 1 \in 0 .. n - 1 /\ i \in 1 .. h[t - 1] /\ (t - 1) + 1 = t
    BY <1>3
  <2>4. <<t - 1, i>> \in S
    BY <2>3, LetThroughOf
  <2>5. f[<<t - 1, i>>] = <<(t - 1) + 1, i>>
    BY <2>4
  <2>6. QED
    BY <2>2, <2>3, <2>4, <2>5, ZenonT(40)
<1>6. \A x, z \in S : f[x] = f[z] => x = z
  <2> SUFFICES ASSUME NEW x \in S, NEW z \in S, f[x] = f[z] PROVE x = z
    OBVIOUS
  <2>1. f[x] = <<x[1] + 1, x[2]>> /\ f[z] = <<z[1] + 1, z[2]>>
    OBVIOUS
  <2>2. x[1] + 1 = z[1] + 1 /\ x[2] = z[2]
    BY <2>1
  <2>3. x[1] \in Int /\ z[1] \in Int
    BY <1>1
  <2>4. x[1] = z[1]
    BY <2>2, <2>3
  <2>5. QED
    BY <1>1, <2>2, <2>4, ZenonT(40)
<1>7. f \in [S -> T]
  BY <1>4
<1> HIDE DEF f, S, T
<1>8. f \in Bijection(S, T)
  BY <1>5, <1>6, <1>7, ZenonT(40) DEF Bijection, Injection, Surjection, IsInjective
<1>9. IsFiniteSet(S)
  BY <1>0, PassedFacts, ZenonT(40) DEF S
<1>10. Cardinality(T) = Cardinality(S)
  BY <1>8, <1>9, FS_Bijection, ZenonT(40) DEF ExistsBijection
<1>11. QED
  BY <1>10 DEF S, T, PassedIn

\* An attempt let through now is counted in every stretch.
LEMMA PassedBump ==
    ASSUME NEW h \in History, NEW g \in History, g[0] = h[0] + 1,
           \A t \in 1 .. Window - 1 : g[t] = h[t], NEW n \in 1 .. Window
    PROVE  PassedIn(g, n) = PassedIn(h, n) + 1
<1>0. Window \in Nat \ {0} /\ n \in 0 .. Window /\ 0 \in 0 .. n - 1 /\ 0 \in 0 .. Window - 1
  BY RatesAssumption
<1>1. /\ h[0] \in Nat /\ g[0] = h[0] + 1
      /\ \A t \in 0 .. n - 1 : t # 0 => g[t] = h[t]
  BY <1>0 DEF History
<1>2. LetThrough(g, n) = LetThrough(h, n) \cup {<<0, h[0] + 1>>}
  <2>1. ASSUME NEW t \in 0 .. n - 1, NEW i \in 1 .. g[t]
        PROVE  (t = 0 /\ i = h[0] + 1) \/ i \in 1 .. h[t]
    <3>1. CASE t = 0
      BY <1>1, <3>1
    <3>2. CASE t # 0
      BY <1>1, <3>2, ZenonT(40)
    <3>3. QED
      BY <3>1, <3>2, ZenonT(40)
  <2>2. ASSUME NEW t \in 0 .. n - 1, NEW i \in 1 .. h[t] PROVE i \in 1 .. g[t]
    <3>1. CASE t = 0
      BY <1>1, <3>1
    <3>2. CASE t # 0
      BY <1>1, <3>2, ZenonT(40)
    <3>3. QED
      BY <3>1, <3>2, ZenonT(40)
  <2>3. h[0] + 1 \in 1 .. g[0]
    BY <1>1
  <2>4. ASSUME NEW x \in LetThrough(g, n) PROVE x \in LetThrough(h, n) \cup {<<0, h[0] + 1>>}
    <3>1. PICK t \in 0 .. n - 1 : \E i \in 1 .. g[t] : x = <<t, i>>
      BY LetThroughOf
    <3>2. PICK i \in 1 .. g[t] : x = <<t, i>>
      BY <3>1, ZenonT(40)
    <3>3. CASE t = 0 /\ i = h[0] + 1
      BY <3>2, <3>3, ZenonT(40)
    <3>4. CASE i \in 1 .. h[t]
      <4>1. x \in LetThrough(h, n)
        BY <3>2, <3>4, LetThroughOf, ZenonT(40)
      <4>2. QED
        BY <4>1
    <3>5. QED
      BY <2>1, <3>3, <3>4, ZenonT(40)
  <2>5. ASSUME NEW x \in LetThrough(h, n) \cup {<<0, h[0] + 1>>} PROVE x \in LetThrough(g, n)
    <3>1. CASE x = <<0, h[0] + 1>>
      BY <1>0, <2>3, <3>1, LetThroughOf, ZenonT(40)
    <3>2. CASE x \in LetThrough(h, n)
      <4>1. PICK t \in 0 .. n - 1 : \E i \in 1 .. h[t] : x = <<t, i>>
        BY <3>2, LetThroughOf
      <4>2. PICK i \in 1 .. h[t] : x = <<t, i>>
        BY <4>1, ZenonT(40)
      <4>3. QED
        BY <2>2, <4>2, LetThroughOf, ZenonT(40)
    <3>3. QED
      BY <3>1, <3>2
  <2>6. QED
    BY <2>4, <2>5, ZenonT(40)
<1>3. <<0, h[0] + 1>> \notin LetThrough(h, n)
  <2> SUFFICES ASSUME <<0, h[0] + 1>> \in LetThrough(h, n) PROVE FALSE
    OBVIOUS
  <2>1. PICK t \in 0 .. n - 1 : \E i \in 1 .. h[t] : <<0, h[0] + 1>> = <<t, i>>
    BY LetThroughOf
  <2>2. h[0] + 1 \in 1 .. h[0]
    BY <2>1
  <2>3. QED
    BY <1>1, <2>2
<1>4. IsFiniteSet(LetThrough(h, n))
  BY <1>0, PassedFacts, ZenonT(40)
<1>5. QED
  BY <1>2, <1>3, <1>4, FS_AddElement, ZenonT(40) DEF PassedIn

----------------------------------------------------------------------------
(* One key's entry *)

\* What attempt() makes of an entry.
Counted(entry, limit) ==
    LET base == IF Expired(entry) THEN Unknown ELSE entry
        more == base.attempts + 1
    IN  [age |-> base.age, attempts |-> IF more > limit THEN limit + 1 ELSE more]

\* No tick, no attempt.
LEMMA PassedYet ==
    ASSUME NEW h \in History
    PROVE  PassedIn(h, 0) = 0
<1>1. 0 \in 0 .. Window /\ \A t \in 0 .. 0 - 1 : h[t] = 0
  BY RatesAssumption
<1>2. QED
  BY <1>1, PassedNone, ZenonT(40)

\* Where an attempt starts counting: an unknown key, an expired window, or one
\* that runs.  A window that begins now finds less than limit in the stretch.
LEMMA PaceBase ==
    ASSUME NEW h \in History, NEW limit \in Nat \ {0}, NEW entry \in Entry(limit),
           Paced(h, entry, limit), NEW base,
           base = IF Expired(entry) THEN Unknown ELSE entry
    PROVE  /\ base.age \in 0 .. Window - 1 /\ base.attempts \in 0 .. limit + 1
           /\ PassedIn(h, base.age) \in Nat
           /\ PassedIn(h, base.age + 1) \in Nat /\ PassedIn(h, Window) \in Nat
           /\ PassedIn(h, base.age + 1) <= base.attempts
           /\ PassedIn(h, base.age + 1) <= limit
           /\ base.age # 0 => PassedIn(h, base.age) < base.attempts /\ PassedIn(h, base.age) < limit
           /\ PassedIn(h, Window) < PassedIn(h, base.age + 1) + limit
<1>1. /\ Window \in Nat \ {0} /\ 0 \in 0 .. Window - 1 /\ 1 \in 0 .. Window
      /\ 0 \in 0 .. Window /\ Window \in 0 .. Window
  BY RatesAssumption
<1>2. entry.age \in 0 .. Window /\ entry.attempts \in 0 .. limit + 1
  BY DEF Entry
<1>3. h[0] = 0 => PassedIn(h, 0 + 1) = 0
  BY <1>1, PassedNone
<1>4. PassedIn(h, Window) \in Nat
  BY <1>1, PassedFacts, SMTT(30)
<1>5. CASE entry.attempts = 0 \/ Expired(entry)
  <2>1. h[0] = 0 /\ PassedIn(h, Window) < limit /\ (entry.attempts = 0 => entry = Unknown)
    BY <1>5, ZenonT(40) DEF Paced
  <2>2. base = Unknown /\ base.age = 0 /\ base.attempts = 0
    BY <1>5, <2>1 DEF Unknown
  <2>3. PassedIn(h, base.age + 1) = 0
    BY <1>3, <2>1, <2>2, ZenonT(40)
  <2>4. PassedIn(h, base.age) \in Nat
    BY <1>1, <2>2, PassedFacts, ZenonT(40)
  <2>5. QED
    BY <1>1, <1>4, <2>1, <2>2, <2>3, <2>4, SMTT(30)
<1>6. CASE ~(entry.attempts = 0 \/ Expired(entry))
  <2>1. /\ base = entry /\ entry.age \in 0 .. Window - 1
        /\ entry.age \in 0 .. Window /\ entry.age + 1 \in 0 .. Window
    BY <1>1, <1>2, <1>6 DEF Expired
  <2>2. PassedIn(h, base.age) \in Nat /\ PassedIn(h, base.age + 1) \in Nat
    BY <2>1, PassedFacts, ZenonT(40)
  <2>3. /\ PassedIn(h, base.age + 1) <= base.attempts
        /\ PassedIn(h, base.age + 1) <= limit
        /\ PassedIn(h, base.age) < base.attempts /\ PassedIn(h, base.age) < limit
        /\ PassedIn(h, Window) < PassedIn(h, base.age + 1) + limit
    BY <1>6, <2>1, ZenonT(40) DEF Paced
  <2>4. QED
    BY <1>2, <1>4, <2>1, <2>2, <2>3, ZenonT(40)
<1>7. QED
  BY <1>5, <1>6, ZenonT(40)

\* An attempt is counted; it is let through only within the limit.
LEMMA PaceAttempt ==
    ASSUME NEW h \in History, NEW limit \in Nat \ {0}, NEW entry \in Entry(limit),
           Paced(h, entry, limit)
    PROVE  /\ Paced(h, Counted(entry, limit), limit)
           /\ Counted(entry, limit).attempts <= limit =>
                  Paced([h EXCEPT ![0] = @ + 1], Counted(entry, limit), limit)
<1> DEFINE base == IF Expired(entry) THEN Unknown ELSE entry
           next == Counted(entry, limit)
           more == base.attempts + 1
<1>1. /\ base.age \in 0 .. Window - 1 /\ base.attempts \in 0 .. limit + 1
      /\ PassedIn(h, base.age) \in Nat
      /\ PassedIn(h, base.age + 1) \in Nat /\ PassedIn(h, Window) \in Nat
      /\ PassedIn(h, base.age + 1) <= base.attempts
      /\ PassedIn(h, base.age + 1) <= limit
      /\ base.age # 0 => PassedIn(h, base.age) < base.attempts /\ PassedIn(h, base.age) < limit
      /\ PassedIn(h, Window) < PassedIn(h, base.age + 1) + limit
  <2> DEFINE b == base
  <2>1. b = IF Expired(entry) THEN Unknown ELSE entry
    OBVIOUS
  <2> HIDE DEF b
  <2>2. QED
    BY <2>1, PaceBase
<1>2. next.age = base.age /\ next.attempts = IF more > limit THEN limit + 1 ELSE more
  BY DEF Counted
<1> HIDE DEF base, next
<1>3. /\ next.attempts \in 1 .. limit + 1 /\ base.attempts <= next.attempts
      /\ (next.attempts <= limit => next.attempts = base.attempts + 1)
  BY <1>1, <1>2, SMTT(30)
<1>4. next.attempts # 0 /\ ~Expired(next) /\ next.age + 1 \in 1 .. Window
  BY <1>1, <1>2, <1>3, RatesAssumption DEF Expired
<1>5. Paced(h, next, limit)
  <2>1. /\ PassedIn(h, next.age + 1) <= next.attempts
        /\ PassedIn(h, next.age + 1) <= limit
        /\ PassedIn(h, Window) < PassedIn(h, next.age + 1) + limit
    BY <1>1, <1>2, <1>3
  <2>2. PassedIn(h, next.age) < next.attempts /\ PassedIn(h, next.age) < limit
    <3>1. CASE next.age = 0
      <4>1. PassedIn(h, next.age) = 0
        BY <3>1, PassedYet, ZenonT(40)
      <4>2. QED
        BY <1>3, <4>1
    <3>2. CASE next.age # 0
      BY <1>1, <1>2, <1>3, <3>2, SMTT(30)
    <3>3. QED
      BY <3>1, <3>2, ZenonT(40)
  <2>3. QED
    BY <1>4, <2>1, <2>2, ZenonT(40) DEF Paced
<1>6. ASSUME next.attempts <= limit
      PROVE  Paced([h EXCEPT ![0] = @ + 1], next, limit)
  <2> DEFINE g == [h EXCEPT ![0] = @ + 1]
  <2>1. g \in History /\ g[0] = h[0] + 1 /\ \A t \in 1 .. Window - 1 : g[t] = h[t]
    BY RatesAssumption DEF History
  <2>2. \A n \in 1 .. Window : PassedIn(g, n) = PassedIn(h, n) + 1
    <3> HIDE DEF g
    <3>1. QED
      BY <2>1, PassedBump, ZenonT(40)
  <2>3. Window \in 1 .. Window
    BY RatesAssumption
  <2>4. /\ PassedIn(g, next.age + 1) = PassedIn(h, base.age + 1) + 1
        /\ PassedIn(g, Window) = PassedIn(h, Window) + 1
    BY <1>2, <1>4, <2>2, <2>3, ZenonT(40)
  <2> HIDE DEF g
  <2>5. /\ PassedIn(g, next.age + 1) <= next.attempts
        /\ PassedIn(g, next.age + 1) <= limit
        /\ PassedIn(g, Window) < PassedIn(g, next.age + 1) + limit
    BY <1>1, <1>2, <1>3, <1>6, <2>4, SMTT(30)
  <2>6. PassedIn(g, next.age) < next.attempts /\ PassedIn(g, next.age) < limit
    <3>1. CASE next.age = 0
      <4>1. PassedIn(g, next.age) = 0
        BY <2>1, <3>1, PassedYet, ZenonT(40)
      <4>2. QED
        BY <1>3, <4>1
    <3>2. CASE next.age # 0
      <4>1. next.age \in 1 .. Window
        BY <1>1, <1>2, <3>2, RatesAssumption
      <4>2. PassedIn(g, next.age) = PassedIn(h, base.age) + 1
        BY <1>2, <2>2, <4>1, ZenonT(40)
      <4>3. QED
        BY <1>1, <1>2, <1>3, <1>6, <3>2, <4>2, SMTT(30)
    <3>3. QED
      BY <3>1, <3>2, ZenonT(40)
  <2>7. Paced(g, next, limit)
    BY <1>4, <2>5, <2>6, ZenonT(40) DEF Paced
  <2>8. QED
    BY <2>7 DEF g
<1>7. QED
  BY <1>5, <1>6, ZenonT(40) DEF next

\* A sweep forgets an entry only when it has expired.
LEMMA PaceSweep ==
    ASSUME NEW h \in History, NEW limit \in Nat \ {0}, NEW entry \in Entry(limit),
           Paced(h, entry, limit)
    PROVE  Paced(h, IF Expired(entry) THEN Unknown ELSE entry, limit)
BY DEF Paced, Unknown

\* A tick: the window ages and may end.
LEMMA PaceTick ==
    ASSUME NEW h \in History, NEW g \in History,
           \A n \in 0 .. Window - 1 : g[n] = IF n = 0 THEN 0 ELSE h[n - 1],
           NEW limit \in Nat \ {0}, NEW entry \in Entry(limit), Paced(h, entry, limit), NEW next,
           next = IF entry.attempts > 0 /\ ~Expired(entry)
                  THEN [entry EXCEPT !.age = @ + 1] ELSE entry
    PROVE  Paced(g, next, limit)
<1>1. Window \in Nat \ {0} /\ Window - 1 \in 0 .. Window - 1 /\ 0 \in 0 .. Window - 1
  BY RatesAssumption
<1>2. \A n \in 0 .. Window - 1 : PassedIn(g, n + 1) = PassedIn(h, n)
  BY PassedShift
<1>3. PassedIn(g, Window) = PassedIn(h, Window - 1)
  <2>1. (Window - 1) + 1 = Window
    BY <1>1
  <2>2. QED
    BY <1>1, <1>2, <2>1, ZenonT(40)
<1>4. Window - 1 \in 0 .. Window /\ Window \in 0 .. Window /\ Window - 1 <= Window
  BY <1>1
<1>5. /\ PassedIn(g, Window) \in Nat /\ PassedIn(h, Window) \in Nat
      /\ PassedIn(g, Window) <= PassedIn(h, Window)
  BY <1>3, <1>4, PassedFacts, PassedMore, ZenonT(40)
<1>6. g[0] = 0
  BY <1>1
<1>7. entry.age \in 0 .. Window /\ entry.attempts \in 0 .. limit + 1
  BY DEF Entry
<1>8. CASE entry.attempts = 0 \/ Expired(entry)
  <2>1. next = entry
    BY <1>7, <1>8
  <2>2. PassedIn(h, Window) < limit /\ (entry.attempts = 0 => entry = Unknown)
    BY <1>8 DEF Paced
  <2>3. PassedIn(g, Window) < limit
    BY <1>5, <2>2
  <2>4. QED
    BY <1>6, <1>8, <2>1, <2>2, <2>3, ZenonT(40) DEF Paced
<1>9. CASE ~(entry.attempts = 0 \/ Expired(entry))
  <2>1. entry.age \in 0 .. Window - 1 /\ entry.age + 1 \in 0 .. Window
    BY <1>1, <1>7, <1>9 DEF Expired
  <2>2. next.age = entry.age + 1 /\ next.attempts = entry.attempts /\ entry.attempts # 0
    BY <1>7, <1>9 DEF Entry
  <2>3. /\ PassedIn(h, entry.age + 1) <= entry.attempts
        /\ PassedIn(h, entry.age + 1) <= limit
        /\ PassedIn(h, entry.age) < limit
        /\ PassedIn(h, entry.age) < entry.attempts
        /\ PassedIn(h, Window) < PassedIn(h, entry.age + 1) + limit
    BY <1>9 DEF Paced
  <2>4. PassedIn(h, entry.age + 1) \in Nat
    BY <2>1, PassedFacts, ZenonT(40)
  <2>5. CASE next.age = Window
    <3>1. entry.age + 1 = Window
      BY <2>2, <2>5, ZenonT(40)
    <3>2. PassedIn(g, Window) = PassedIn(h, entry.age)
      BY <1>2, <2>1, <3>1, ZenonT(40)
    <3>3. PassedIn(g, Window) < limit
      BY <2>3, <3>2, ZenonT(40)
    <3>4. Expired(next)
      BY <1>1, <2>5 DEF Expired
    <3>5. QED
      BY <1>6, <2>2, <3>3, <3>4, ZenonT(40) DEF Paced
  <2>6. CASE next.age # Window
    <3>1. entry.age + 1 \in 0 .. Window - 1 /\ ~Expired(next)
      BY <1>1, <2>1, <2>2, <2>6, SMTT(30) DEF Expired
    <3>2. /\ PassedIn(g, (entry.age + 1) + 1) = PassedIn(h, entry.age + 1)
          /\ PassedIn(g, entry.age + 1) = PassedIn(h, entry.age)
      BY <1>2, <2>1, <3>1, ZenonT(40)
    <3>3. /\ PassedIn(g, next.age + 1) <= next.attempts
          /\ PassedIn(g, next.age + 1) <= limit
          /\ PassedIn(g, Window) < PassedIn(g, next.age + 1) + limit
      BY <1>5, <2>2, <2>3, <2>4, <3>2, SMTT(30)
    <3>4. PassedIn(g, next.age) < next.attempts /\ PassedIn(g, next.age) < limit
      BY <2>2, <2>3, <3>2, ZenonT(40)
    <3>5. QED
      BY <2>2, <3>1, <3>3, <3>4, ZenonT(40) DEF Paced
  <2>7. QED
    BY <2>5, <2>6, ZenonT(40)
<1>10. QED
  BY <1>8, <1>9, ZenonT(40)

\* Two windows at most meet in any stretch of one window's length, and not both
\* of them whole.
LEMMA PaceBound ==
    ASSUME NEW h \in History, NEW limit \in Nat \ {0}, NEW entry \in Entry(limit),
           Paced(h, entry, limit)
    PROVE  PassedIn(h, Window) < 2 * limit
<1>1. PassedIn(h, Window) \in Nat
  BY RatesAssumption, PassedFacts, SMTT(30)
<1>2. CASE entry.attempts = 0 \/ Expired(entry)
  BY <1>1, <1>2, SMTT(30) DEF Paced
<1>3. CASE ~(entry.attempts = 0 \/ Expired(entry))
  <2>1. entry.age + 1 \in 0 .. Window
    BY <1>3, RatesAssumption DEF Expired, Entry
  <2>2. PassedIn(h, entry.age + 1) \in Nat
    BY <2>1, PassedFacts, ZenonT(40)
  <2>3. PassedIn(h, entry.age + 1) <= limit /\ PassedIn(h, Window) < PassedIn(h, entry.age + 1) + limit
    BY <1>3 DEF Paced
  <2>4. QED
    BY <1>1, <2>2, <2>3, SMTT(30)
<1>4. QED
  BY <1>2, <1>3

----------------------------------------------------------------------------
(* The tables *)

\* Every key of a table keeps the pace that the history h shows.
TablePaced(h, table, limit) == \A k \in DOMAIN table : Paced(h[k], table[k], limit)

\* An attempt on key k, after the sweep if one is due: k's entry is counted and
\* its history may grow, within the limit; no other key is touched.
LEMMA AttemptPaced ==
    ASSUME NEW S, NEW limit \in Nat \ {0}, NEW table \in [S -> Entry(limit)], NEW k \in S,
           NEW h, NEW g, \A j \in S : h[j] \in History, TablePaced(h, table, limit),
           \A j \in S \ {k} : g[j] = h[j],
           \/ g[k] = h[k]
           \/ /\ g[k] = [h[k] EXCEPT ![0] = @ + 1]
              /\ Attempt(table, k, limit)[k].attempts <= limit
    PROVE  TablePaced(g, Attempt(table, k, limit), limit)
<1> DEFINE next == Attempt(table, k, limit)
<1>1. DOMAIN next = S /\ next[k] = Counted(table[k], limit) /\ \A j \in S \ {k} : next[j] = table[j]
  BY DEF Attempt, Counted
<1>2. table[k] \in Entry(limit) /\ h[k] \in History /\ Paced(h[k], table[k], limit)
  BY ZenonT(40) DEF TablePaced
<1>3. Paced(g[k], next[k], limit)
  <2>1. next[k].attempts = Counted(table[k], limit).attempts
    BY <1>1, ZenonT(40)
  <2> HIDE DEF next
  <2>2. QED
    BY <1>1, <1>2, <2>1, PaceAttempt, SMTT(30) DEF next
<1>4. \A j \in S \ {k} : Paced(g[j], next[j], limit)
  BY <1>1, ZenonT(40) DEF TablePaced
<1> HIDE DEF next
<1>5. QED
  BY <1>1, <1>3, <1>4, ZenonT(40) DEF TablePaced, next

\* A sweep keeps the pace.
LEMMA SweepPaced ==
    ASSUME NEW S, NEW limit \in Nat \ {0}, NEW table \in [S -> Entry(limit)],
           NEW h, \A j \in S : h[j] \in History, TablePaced(h, table, limit)
    PROVE  TablePaced(h, Sweep(table), limit)
<1>1. DOMAIN Sweep(table) = S
      /\ \A j \in S : Sweep(table)[j] = IF Expired(table[j]) THEN Unknown ELSE table[j]
  BY DEF Sweep
<1>2. ASSUME NEW j \in S PROVE Paced(h[j], Sweep(table)[j], limit)
  <2>1. table[j] \in Entry(limit) /\ h[j] \in History /\ Paced(h[j], table[j], limit)
    BY DEF TablePaced
  <2>2. Sweep(table)[j] = IF Expired(table[j]) THEN Unknown ELSE table[j]
    BY <1>1
  <2>3. QED
    BY <2>1, <2>2, PaceSweep, ZenonT(40)
<1>3. QED
  BY <1>1, <1>2, ZenonT(40) DEF TablePaced

\* A tick's effect on a key's history.
Aged(h, g) == \A n \in 0 .. Window - 1 : g[n] = IF n = 0 THEN 0 ELSE h[n - 1]

\* A tick keeps the pace.
LEMMA TickPaced ==
    ASSUME NEW S, NEW limit \in Nat \ {0}, NEW table \in [S -> Entry(limit)],
           NEW h, NEW g, \A j \in S : h[j] \in History /\ g[j] \in History,
           \A j \in S : Aged(h[j], g[j]),
           TablePaced(h, table, limit)
    PROVE  TablePaced(g, Older(table), limit)
<1>1. /\ DOMAIN Older(table) = S
      /\ \A j \in S : Older(table)[j] =
            IF table[j].attempts > 0 /\ ~Expired(table[j])
            THEN [table[j] EXCEPT !.age = @ + 1] ELSE table[j]
  BY DEF Older, Known
<1>2. ASSUME NEW j \in S PROVE Paced(g[j], Older(table)[j], limit)
  <2>1. /\ table[j] \in Entry(limit) /\ h[j] \in History /\ g[j] \in History
        /\ Paced(h[j], table[j], limit)
        /\ \A n \in 0 .. Window - 1 : g[j][n] = IF n = 0 THEN 0 ELSE h[j][n - 1]
    BY DEF TablePaced, Aged
  <2> DEFINE next == Older(table)[j]
  <2>2. next = IF table[j].attempts > 0 /\ ~Expired(table[j])
               THEN [table[j] EXCEPT !.age = @ + 1] ELSE table[j]
    BY <1>1
  <2> HIDE DEF next
  <2>3. Paced(g[j], next, limit)
    BY <2>1, <2>2, PaceTick, SMTT(30)
  <2>4. QED
    BY <2>3, ZenonT(40) DEF next
<1>3. QED
  BY <1>1, <1>2, ZenonT(40) DEF TablePaced

----------------------------------------------------------------------------
(* The pace of attempts *)

\* RatesPaced, table by table.
LEMMA PacedTables ==
    ASSUME ips \in [Ips -> Entry(IpLimit)], accounts \in [Accounts -> Entry(AccountLimit)]
    PROVE  RatesPaced <=> /\ TablePaced(passed, ips, IpLimit)
                          /\ TablePaced(passed, accounts, AccountLimit)
BY ZenonT(40) DEF RatesPaced, TablePaced

\* An AUTH attempt is counted for its address and its account whether or not it
\* passes, and passes only if both stay within their limits (Rates::check).
LEMMA CheckPaced ==
    ASSUME Inv, Inv', RatesPaced, NEW t \in Tasks, NEW account \in Accounts,
           Authenticate(t, account)
    PROVE  RatesPaced'
<1> DEFINE ip == session[t].origin
           due == sinceSweep >= SweepEvery
           i == IF due THEN Sweep(ips) ELSE ips
           a == IF due THEN Sweep(accounts) ELSE accounts
           pass == Check(ip, account).pass
           i1 == Attempt(i, ip, IpLimit)
           a1 == Attempt(a, account, AccountLimit)
<1>1. ip \in Ips /\ ip # account /\ account \notin Ips /\ Ips \intersect Accounts = {}
  BY AdmissionAssumption, ZenonT(40) DEF Authenticate, Inv, TypeOK, Session, Origins
<1>2. IpLimit \in Nat \ {0} /\ AccountLimit \in Nat \ {0}
  BY AdmissionAssumption, ZenonT(40)
<1>3. /\ ips \in [Ips -> Entry(IpLimit)] /\ accounts \in [Accounts -> Entry(AccountLimit)]
      /\ IsFiniteSet(Known(ips)) /\ Cardinality(Known(ips)) <= Capacity
      /\ IsFiniteSet(Known(accounts)) /\ Cardinality(Known(accounts)) <= Capacity
      /\ \A k \in Keys : passed[k] \in History
  BY ZenonT(40) DEF Inv, TypeOK, TablesFinite, TablesBounded, History
<1>4. /\ ips' \in [Ips -> Entry(IpLimit)] /\ accounts' \in [Accounts -> Entry(AccountLimit)]
  BY DEF Inv, TypeOK
<1>5. TablePaced(passed, ips, IpLimit) /\ TablePaced(passed, accounts, AccountLimit)
  BY <1>3, PacedTables, ZenonT(40)
<1>6. /\ \A k \in Ips : passed[k] \in History
      /\ \A k \in Accounts : passed[k] \in History
  BY <1>3 DEF Keys
<1>7. /\ Sweep(ips) \in [Ips -> Entry(IpLimit)]
      /\ Sweep(accounts) \in [Accounts -> Entry(AccountLimit)]
  BY <1>1, <1>2, <1>3, Tables, ZenonT(40)
<1>8. i \in [Ips -> Entry(IpLimit)] /\ TablePaced(passed, i, IpLimit)
  <2>1. TablePaced(passed, Sweep(ips), IpLimit)
    BY <1>2, <1>3, <1>5, <1>6, SweepPaced, ZenonT(40)
  <2>2. QED
    BY <1>3, <1>5, <1>7, <2>1, ZenonT(40)
<1>9. a \in [Accounts -> Entry(AccountLimit)] /\ TablePaced(passed, a, AccountLimit)
  <2>1. TablePaced(passed, Sweep(accounts), AccountLimit)
    BY <1>2, <1>3, <1>5, <1>6, SweepPaced, ZenonT(40)
  <2>2. QED
    BY <1>3, <1>5, <1>7, <2>1, ZenonT(40)
<1>10. \/ ips' = i /\ accounts' = a /\ ~pass
       \/ /\ ips' = i1 /\ accounts' = a1
          /\ pass => i1[ip].attempts <= IpLimit /\ a1[account].attempts <= AccountLimit
  BY ZenonT(40) DEF Authenticate, Check
<1>11. passed' = IF pass
                 THEN [k \in Keys |-> IF k \in {ip, account}
                                      THEN [passed[k] EXCEPT ![0] = @ + 1]
                                      ELSE passed[k]]
                 ELSE passed
  BY DEF Authenticate
<1> HIDE DEF ip, due, i, a, pass, i1, a1
<1>12. /\ \A k \in Ips \ {ip} : passed'[k] = passed[k]
       /\ \A k \in Accounts \ {account} : passed'[k] = passed[k]
       /\ passed'[ip] = IF pass THEN [passed[ip] EXCEPT ![0] = @ + 1] ELSE passed[ip]
       /\ passed'[account] = IF pass THEN [passed[account] EXCEPT ![0] = @ + 1]
                             ELSE passed[account]
  BY <1>1, <1>11, ZenonT(40) DEF Keys
<1>13. TablePaced(passed', ips', IpLimit)
  <2>1. CASE ips' = i /\ ~pass
    <3>1. \A k \in Ips : passed'[k] = passed[k]
      BY <1>12, <2>1, ZenonT(40)
    <3>2. QED
      BY <1>8, <2>1, <3>1, ZenonT(40) DEF TablePaced
  <2>2. CASE ips' = i1 /\ (pass => i1[ip].attempts <= IpLimit)
    <3>1. TablePaced(passed', Attempt(i, ip, IpLimit), IpLimit)
      <4>1. \/ passed'[ip] = passed[ip]
            \/ /\ passed'[ip] = [passed[ip] EXCEPT ![0] = @ + 1]
               /\ Attempt(i, ip, IpLimit)[ip].attempts <= IpLimit
        BY <1>12, <2>2, ZenonT(40) DEF i1
      <4>2. QED
        BY <1>1, <1>2, <1>6, <1>8, <1>12, <4>1, AttemptPaced, ZenonT(40)
    <3>2. QED
      BY <2>2, <3>1, ZenonT(40) DEF i1
  <2>3. QED
    BY <1>10, <2>1, <2>2, ZenonT(40)
<1>14. TablePaced(passed', accounts', AccountLimit)
  <2>1. CASE accounts' = a /\ ~pass
    <3>1. \A k \in Accounts : passed'[k] = passed[k]
      BY <1>12, <2>1, ZenonT(40)
    <3>2. QED
      BY <1>9, <2>1, <3>1, ZenonT(40) DEF TablePaced
  <2>2. CASE accounts' = a1 /\ (pass => a1[account].attempts <= AccountLimit)
    <3>1. TablePaced(passed', Attempt(a, account, AccountLimit), AccountLimit)
      <4>1. \/ passed'[account] = passed[account]
            \/ /\ passed'[account] = [passed[account] EXCEPT ![0] = @ + 1]
               /\ Attempt(a, account, AccountLimit)[account].attempts <= AccountLimit
        BY <1>12, <2>2, ZenonT(40) DEF a1
      <4>2. QED
        BY <1>2, <1>6, <1>9, <1>12, <4>1, AttemptPaced, ZenonT(40)
    <3>2. QED
      BY <2>2, <3>1, ZenonT(40) DEF a1
  <2>3. QED
    BY <1>10, <2>1, <2>2, ZenonT(40)
<1>15. QED
  BY <1>4, <1>13, <1>14, PacedTables, ZenonT(40) DEF RatesPaced, TablePaced

\* A tick of the clock.
LEMMA ClockPaced ==
    ASSUME Inv, Inv', RatesPaced, Tick
    PROVE  RatesPaced'
<1>1. IpLimit \in Nat \ {0} /\ AccountLimit \in Nat \ {0}
  BY AdmissionAssumption, ZenonT(40)
<1>2. /\ ips \in [Ips -> Entry(IpLimit)] /\ accounts \in [Accounts -> Entry(AccountLimit)]
      /\ \A k \in Keys : passed[k] \in History /\ passed'[k] \in History
      /\ ips' \in [Ips -> Entry(IpLimit)] /\ accounts' \in [Accounts -> Entry(AccountLimit)]
  BY SMTT(30) DEF Inv, TypeOK, History
<1>3. /\ ips' = Older(ips) /\ accounts' = Older(accounts)
      /\ \A k \in Keys : \A n \in 0 .. Window - 1 :
             passed'[k][n] = IF n = 0 THEN 0 ELSE passed[k][n - 1]
  BY SMTT(30) DEF Tick
<1>4. TablePaced(passed, ips, IpLimit) /\ TablePaced(passed, accounts, AccountLimit)
  BY <1>2, PacedTables
<1>5. TablePaced(passed', Older(ips), IpLimit)
  <2> DEFINE h == passed
             g == passed'
             S == Ips
             table == ips
             limit == IpLimit
  <2>1. /\ \A j \in S : h[j] \in History /\ g[j] \in History
        /\ \A j \in S : Aged(h[j], g[j])
    BY <1>2, <1>3, ZenonT(40) DEF Keys, Aged
  <2>2. limit \in Nat \ {0} /\ table \in [S -> Entry(limit)] /\ TablePaced(h, table, limit)
    BY <1>1, <1>2, <1>4, ZenonT(40)
  <2> HIDE DEF h, g, S, table, limit
  <2>3. TablePaced(g, Older(table), limit)
    BY <2>1, <2>2, TickPaced, ZenonT(40)
  <2>4. QED
    BY <2>3, ZenonT(40) DEF g, table, limit
<1>6. TablePaced(passed', Older(accounts), AccountLimit)
  <2> DEFINE h == passed
             g == passed'
             S == Accounts
             table == accounts
             limit == AccountLimit
  <2>1. /\ \A j \in S : h[j] \in History /\ g[j] \in History
        /\ \A j \in S : Aged(h[j], g[j])
    BY <1>2, <1>3, ZenonT(40) DEF Keys, Aged
  <2>2. limit \in Nat \ {0} /\ table \in [S -> Entry(limit)] /\ TablePaced(h, table, limit)
    BY <1>1, <1>2, <1>4, ZenonT(40)
  <2> HIDE DEF h, g, S, table, limit
  <2>3. TablePaced(g, Older(table), limit)
    BY <2>1, <2>2, TickPaced, ZenonT(40)
  <2>4. QED
    BY <2>3, ZenonT(40) DEF g, table, limit
<1>7. QED
  BY <1>2, <1>3, <1>5, <1>6, ZenonT(40) DEF RatesPaced, TablePaced

\* No attempt has been let through when the server starts.
LEMMA InitPaced == Init => RatesPaced
<1> SUFFICES ASSUME Init PROVE RatesPaced
  OBVIOUS
<1> DEFINE none == [n \in 0 .. Window - 1 |-> 0]
<1>1. none \in History /\ \A n \in 0 .. Window - 1 : none[n] = 0
  BY DEF History
<1>2. PassedIn(none, Window) = 0 /\ none[0] = 0
  <2>1. 0 \in 0 .. Window - 1
    BY RatesAssumption
  <2>2. none[0] = 0
    BY <2>1
  <2>3. Window \in 0 .. Window
    BY RatesAssumption
  <2> HIDE DEF none
  <2>4. QED
    BY <1>1, <2>2, <2>3, PassedNone, ZenonT(40)
<1>3. /\ \A k \in Ips : passed[k] = none /\ ips[k] = Unknown
      /\ \A k \in Accounts : passed[k] = none /\ accounts[k] = Unknown
  BY DEF Init, Keys
<1> HIDE DEF none
<1>4. IpLimit \in Nat \ {0} /\ AccountLimit \in Nat \ {0}
  BY AdmissionAssumption, ZenonT(40)
<1>5. Paced(none, Unknown, IpLimit) /\ Paced(none, Unknown, AccountLimit)
  BY <1>2, <1>4 DEF Paced, Unknown
<1>6. QED
  BY <1>3, <1>5, ZenonT(40) DEF RatesPaced

\* The counters account for every attempt they let through, at every step.
LEMMA NextPaced == Inv /\ Inv' /\ RatesPaced /\ [Next]_vars => RatesPaced'
<1> SUFFICES ASSUME Inv, Inv', RatesPaced, [Next]_vars PROVE RatesPaced'
  OBVIOUS
<1>1. ASSUME UNCHANGED rates PROVE RatesPaced'
  BY <1>1 DEF rates, RatesPaced
<1>2. ASSUME NEW t \in Tasks, NEW account \in Accounts, Authenticate(t, account)
      PROVE  RatesPaced'
  BY <1>2, CheckPaced, ZenonT(40)
<1>3. CASE Tick
  BY <1>3, ClockPaced, ZenonT(40)
<1>4. ASSUME NEW t \in Tasks, \E ip \in Ips : Connect(t, ip)
      PROVE  RatesPaced'
  BY <1>1, <1>4, ZenonT(40) DEF Connect
<1>5. ASSUME NEW t \in Tasks, Manage(t) \/ Close(t) \/ Handshake(t) \/ BeginData(t) \/ Proceed(t)
      PROVE  RatesPaced'
  BY <1>1, <1>5, ZenonT(40) DEF Manage, Close, Handshake, BeginData, Proceed
<1>6. ASSUME NEW t \in Tasks,
             Generate(t) \/ Activate(t) \/ Verify(t) \/ Verified(t) \/ Abandon(t)
      PROVE  RatesPaced'
  BY <1>1, <1>6, ZenonT(40) DEF Generate, Activate, Verify, Verified, Abandon
<1>7. CASE \/ DetachedEnds \/ Stop \/ GraceEnds \/ Joined \/ RelayEnds
           \/ ShutWorker \/ WorkerEnds \/ UNCHANGED vars
  BY <1>1, <1>7, ZenonT(40)
  DEF DetachedEnds, Stop, GraceEnds, Joined, RelayEnds, ShutWorker, WorkerEnds, vars
<1>8. QED
  BY <1>2, <1>3, <1>4, <1>5, <1>6, <1>7, ZenonT(40) DEF Next

\* In every stretch of a window's length Rates::check lets fewer than twice the
\* limit through, for any window, any limits, any capacity of the tables and
\* any interval between sweeps.
THEOREM RateBounded == Spec => []RateBound
<1>1. Inv /\ RatesPaced => RateBound
  <2> SUFFICES ASSUME Inv, RatesPaced PROVE RateBound
    OBVIOUS
  <2>1. IpLimit \in Nat \ {0} /\ AccountLimit \in Nat \ {0}
    BY AdmissionAssumption, ZenonT(40)
  <2>2. /\ \A k \in Ips : passed[k] \in History /\ ips[k] \in Entry(IpLimit)
        /\ \A k \in Accounts : passed[k] \in History /\ accounts[k] \in Entry(AccountLimit)
    BY ZenonT(40) DEF Inv, TypeOK, Keys, History
  <2>3. \A k \in Ips : PassedIn(passed[k], Window) < 2 * IpLimit
    BY <2>1, <2>2, PaceBound, ZenonT(40) DEF RatesPaced
  <2>4. \A k \in Accounts : PassedIn(passed[k], Window) < 2 * AccountLimit
    BY <2>1, <2>2, PaceBound DEF RatesPaced
  <2>5. QED
    BY <2>3, <2>4, ZenonT(40) DEF RateBound, PassedWithin
<1>2. QED
  BY <1>1, Accounted, InitPaced, NextPaced, PTL DEF Spec
=============================================================================
