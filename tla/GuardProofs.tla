---------------------------- MODULE GuardProofs ----------------------------
(***************************************************************************)
(* Proofs about two guards the server leans on: the one that keeps a clock *)
(* gone astray from deciding about mail (QueueClock), and the one that     *)
(* keeps withdrawn authority from being used (Revocation).                 *)
(***************************************************************************)
EXTENDS QueueClock, Revocation, TLAPS

----------------------------------------------------------------------------
(***************************************************************************)
(* QueueClock: for every tolerance and every movement of the wall clock,   *)
(* the decisions of the queue rest on times the guard can vouch for.       *)
(***************************************************************************)

IInv == ClockInv /\ Reference

\* A queue that has just been opened.
LEMMA InitEstablishes == ClockInit => IInv
<1> SUFFICES ASSUME ClockInit PROVE IInv
  OBVIOUS
<1>0. row \in Row
  BY DEF ClockInit, Row
<1>1. ClockTypeOK
  <2>1. wall \in 0..MaxWall /\ mono \in 0..MaxMono
    BY QueueClockAssumption DEF ClockInit
  <2>3. changed \in BOOLEAN
    BY ZenonT(40) DEF ClockInit
  <2>2. /\ clock \in [wall : 0..MaxWall, mono : 0..MaxMono] \cup {NoReading}
        /\ first \in [wall : 0..MaxWall, mono : 0..MaxMono] \cup {NoReading}
        /\ lastWall \in 0..MaxWall \cup {None}
    BY DEF ClockInit
  <2> QED BY <1>0, <2>1, <2>2, <2>3 DEF ClockTypeOK
<1>2. Reference
  BY DEF ClockInit, Reference
<1> QED
  BY <1>1, <1>2 DEF ClockInit, IInv, ClockInv

\* now: after a guarded call there is a reference, and a time it accepts is
\* neither before the last one nor far from the reference.
LEMMA GuardedCall ==
    ASSUME IInv, Guarded
    PROVE  /\ clock' # NoReading /\ clock' = first'
           /\ clock' \in [wall : 0..MaxWall, mono : 0..MaxMono]
           /\ wall' = wall /\ mono' = mono
           /\ changed' \in BOOLEAN
           /\ clock'.mono <= mono
           /\ lastWall' \in 0..MaxWall
           /\ lastWall' <= clock'.wall + (mono - clock'.mono) + Drift
           /\ lastWall # None => lastWall <= lastWall'
           /\ ~changed' => lastWall' = wall
           /\ changed' => lastWall' = lastWall
<1>1. CASE clock = NoReading
  <2>1. clock' = Reading /\ first' = Reading /\ changed' = changed
    BY <1>1 DEF Guarded, Now, IInv, ClockInv, Reference, ClockTypeOK
  <2>2. lastWall = None
    BY <1>1 DEF IInv, ClockInv
  <2>3. Reading \in [wall : 0..MaxWall, mono : 0..MaxMono] /\ Reading # NoReading
    BY DEF IInv, ClockInv, ClockTypeOK, Reading, NoReading, None
  <2>4. ~changed
    BY <1>1 DEF IInv, ClockInv
  <2> QED
    BY <2>1, <2>2, <2>3, <2>4, QueueClockAssumption
       DEF Guarded, Now, IInv, ClockInv, ClockTypeOK, Reading, None
<1>2. CASE clock # NoReading
  <2>1. clock' = clock /\ first' = first /\ clock = first
    BY <1>2 DEF Guarded, Now, IInv, Reference
  <2>2. clock \in [wall : 0..MaxWall, mono : 0..MaxMono] /\ lastWall \in 0..MaxWall
    BY <1>2 DEF IInv, ClockInv, ClockTypeOK, None
  <2>3. CASE changed'
    BY <1>2, <2>1, <2>2, <2>3, QueueClockAssumption DEF Guarded, Now, IInv, ClockInv, ClockTypeOK, None
  <2>4. CASE ~changed'
    <3>1. ~Discontinuous /\ lastWall' = wall
      BY <1>2, <2>4, ZenonT(40) DEF Guarded, Now
    <3>2. lastWall <= wall
      BY <2>2, <3>1 DEF Discontinuous, None, IInv, ClockInv, ClockTypeOK
    <3>3. wall <= clock.wall + (mono - clock.mono) + Drift
      BY <2>2, <3>1, QueueClockAssumption DEF Discontinuous, Magnitude, Skew, IInv, ClockInv, ClockTypeOK
    <3> QED
      BY <1>2, <2>1, <2>2, <2>4, <3>1, <3>2, <3>3, QueueClockAssumption
         DEF Guarded, Now, IInv, ClockInv, ClockTypeOK, None
  <2> QED BY <2>3, <2>4
<1> QED BY <1>1, <1>2

\* What a step needs of the state it leads to.
LEMMA GuardedStep ==
    ASSUME IInv, Guarded,
           row' \in Row
    PROVE  IInv'
<1>1. ClockTypeOK'
  BY GuardedCall DEF IInv, ClockInv, ClockTypeOK, None
<1>2. lastWall' # None
  BY GuardedCall, QueueClockAssumption DEF None
<1> QED
  BY <1>1, <1>2, GuardedCall DEF IInv, ClockInv, Reference

\* Every step of the clock, of the guard and of the queue.
LEMMA StepPreserves == IInv /\ [ClockNext]_clockVars => IInv'
<1> SUFFICES ASSUME IInv, [ClockNext]_clockVars PROVE IInv'
  OBVIOUS
<1>0. wall \in Nat /\ row \in Row
  BY DEF IInv, ClockInv, ClockTypeOK
<1>1. CASE ClockAdvances
  BY <1>1, QueueClockAssumption DEF ClockAdvances, IInv, ClockInv, ClockTypeOK, Reference, NoReading, None
<1>2. CASE ClockSet
  BY <1>2 DEF ClockSet, IInv, ClockInv, ClockTypeOK, Reference
<1>3. CASE Restart
  <2>1. row' \in Row /\ row'.state # "leased"
    <3>1. CASE row.state = "leased"
      BY <1>0, <1>3, <3>1 DEF Restart, Row
    <3>2. CASE row.state # "leased"
      BY <1>0, <1>3, <3>2 DEF Restart, Row
    <3> QED BY <3>1, <3>2
  <2> QED
    <3>1. ClockTypeOK'
      <4>1. mono' \in 0..MaxMono /\ wall' \in 0..MaxWall
        BY <1>3, QueueClockAssumption DEF Restart, IInv, ClockInv, ClockTypeOK
      <4>2. changed' \in BOOLEAN
        BY <1>3, ZenonT(40) DEF Restart
      <4> QED BY <1>3, <2>1, <4>1, <4>2 DEF Restart, ClockTypeOK
    <3>2. (clock = NoReading)' /\ (lastWall = None)' /\ ~changed' /\ Reference'
      BY <1>3 DEF Restart, Reference
    <3> QED BY <2>1, <3>1, <3>2 DEF IInv, ClockInv
<1>4. CASE Enqueue
  <2>1. row' \in Row /\ row'.state # "leased"
    <3>1. wall + Life \in Nat
      BY <1>0, QueueClockAssumption
    <3> QED BY <1>0, <1>4, <3>1, ZenonT(40) DEF Enqueue, Row
  <2> QED
    BY <1>4, <2>1 DEF Enqueue, IInv, ClockInv, ClockTypeOK, Reference
<1>5. CASE Expire
  <2>1. CASE row' = row
    BY <1>0, <1>5, <2>1, GuardedStep DEF Expire
  <2>2. CASE row' = [row EXCEPT !.state = "expired", !.report = wall]
    <3>1. row' \in Row
      BY <1>0, <2>2, ZenonT(40) DEF Row
    <3> QED BY <1>5, <3>1, GuardedStep DEF Expire
  <2> QED BY <1>5, <2>1, <2>2 DEF Expire
<1>6. CASE Claim
  <2>1. row' \in Row
    BY <1>0, <1>6 DEF Claim, Row
  <2> QED BY <1>6, <2>1, GuardedStep DEF Claim
<1>7. ASSUME NEW result \in {"waiting", "rejected"}, Finish(result) PROVE IInv'
  <2>1. lastWall = None \/ lastWall \in 0..MaxWall
    BY DEF IInv, ClockInv, ClockTypeOK
  <2> QED
    <3>1. PICK n \in Nat : row' = [row EXCEPT !.state = result, !.report = n]
      <4>1. (IF ~changed' THEN wall ELSE IF lastWall # None THEN lastWall ELSE wall) \in Nat
        BY <1>0, <2>1
      <4> QED BY <1>7, <4>1, ZenonT(40) DEF Finish
    <3>2. row' \in Row
      BY <1>0, <3>1, ZenonT(40) DEF Row
    <3> QED BY <1>7, <3>2, GuardedStep DEF Finish
<1>8. CASE UNCHANGED clockVars
  BY <1>8 DEF clockVars, IInv, ClockInv, ClockTypeOK, Reference
<1> QED
  BY <1>1, <1>2, <1>3, <1>4, <1>5, <1>6, <1>7, <1>8 DEF ClockNext

\* QueueRuntime::now: the state of the guard is consistent with its readings.
THEOREM GuardConsistent == ClockSpec => []ClockInv
<1>1. IInv => ClockInv
  BY DEF IInv
<1> QED
  BY <1>1, InitEstablishes, StepPreserves, PTL DEF ClockSpec

\* The invariant holds throughout.
LEMMA IInvAlways == ClockSpec => []IInv
BY InitEstablishes, StepPreserves, PTL DEF ClockSpec

\* QueueRuntime::now: within a process the accepted times never go back.
THEOREM AcceptedTimesGoForward == ClockSpec => TimesGoForward
<1>1. IInv /\ [ClockNext]_clockVars => [lastWall # None /\ lastWall' # None => lastWall <= lastWall']_clockVars
  <2> SUFFICES ASSUME IInv, ClockNext, lastWall # None, lastWall' # None
               PROVE  lastWall <= lastWall'
    OBVIOUS
  <2>1. CASE Guarded
    BY <2>1, GuardedCall
  <2>2. CASE ~Guarded
    <3>1. lastWall' = lastWall
      BY <2>2 DEF ClockNext, ClockAdvances, ClockSet, Restart, Enqueue, Expire, Claim, Finish
    <3> QED
      BY <3>1 DEF IInv, ClockInv, ClockTypeOK, None
  <2> QED BY <2>1, <2>2
<1> QED
  BY <1>1, IInvAlways, PTL DEF ClockSpec, TimesGoForward

\* queue_expire: a row is failed for its age only when its lifetime is over by
\* the real time of the process, up to the tolerance, however the clock moves.
THEOREM ExpiryRestsOnTrustedTime == ClockSpec => ExpiryTrusted
<1>1. IInv /\ [ClockNext]_clockVars =>
          [row.state = "waiting" /\ row'.state = "expired" => row.expires <= Elapsed + Drift]_clockVars
  <2> SUFFICES ASSUME IInv, ClockNext, row.state = "waiting", row'.state = "expired"
               PROVE  row.expires <= Elapsed + Drift
    OBVIOUS
  <2>0. row \in Row
    BY DEF IInv, ClockInv, ClockTypeOK
  <2>1. Expire /\ ~changed' /\ row.expires <= wall
    <3>1. CASE Restart
      BY <3>1 DEF Restart
    <3>2. CASE Claim
      BY <2>0, <3>2 DEF Claim, Row
    <3>3. ASSUME NEW result \in {"waiting", "rejected"}, Finish(result) PROVE FALSE
      BY <3>3 DEF Finish
    <3> QED
      BY <3>1, <3>2, <3>3 DEF ClockNext, ClockAdvances, ClockSet, Enqueue, Expire
  <2>2. Guarded
    BY <2>1 DEF Expire
  <2>3. wall <= first'.wall + (mono - first'.mono) + Drift
    BY <2>1, <2>2, GuardedCall
  <2>4. row.expires \in Nat /\ wall \in Nat /\ mono \in Nat
    BY <2>0 DEF IInv, ClockInv, ClockTypeOK, Row
  <2>5. first'.wall \in Nat /\ first'.mono \in Nat
    BY <2>2, GuardedCall
  <2> QED
    BY <2>1, <2>3, <2>4, <2>5, QueueClockAssumption DEF Elapsed
<1> QED
  BY <1>1, IInvAlways, PTL DEF ClockSpec, ExpiryTrusted

\* queue_finish: the report of a saved result falls due no later than the real
\* time of the process allows, even if the clock has jumped ahead.
THEOREM ReportsAreNotPostponed == ClockSpec => ReportNotPostponed
<1>1. IInv /\ [ClockNext]_clockVars =>
          [row.state = "leased" /\ row'.state = "rejected" => row'.report <= Elapsed + Drift]_clockVars
  <2> SUFFICES ASSUME IInv, ClockNext, row.state = "leased", row'.state = "rejected"
               PROVE  row'.report <= Elapsed + Drift
    OBVIOUS
  <2>0. row \in Row
    BY DEF IInv, ClockInv, ClockTypeOK
  <2>1. Finish("rejected")
    <3>1. CASE Restart
      BY <2>0, <3>1 DEF Restart, Row
    <3>2. ASSUME Finish("waiting") PROVE FALSE
      BY <2>0, <3>2 DEF Finish, Row
    <3> QED
      BY <3>1, <3>2 DEF ClockNext, ClockAdvances, ClockSet, Enqueue, Expire, Claim
  <2>2. Guarded
    BY <2>1 DEF Finish
  <2>3. lastWall # None
    BY DEF IInv, ClockInv
  <2>4. row'.report = lastWall'
    BY <2>1, <2>2, <2>3, GuardedCall DEF Finish, IInv, ClockInv, ClockTypeOK
  <2> QED
    BY <2>2, <2>4, GuardedCall DEF Elapsed
<1> QED
  BY <1>1, IInvAlways, PTL DEF ClockSpec, ReportNotPostponed

----------------------------------------------------------------------------
(***************************************************************************)
(* Revocation: for any accounts, credentials and sessions, a session whose *)
(* principal no longer holds has notice of it, and a change of authority   *)
(* denies the logins and the acceptances that overlap it.                  *)
(***************************************************************************)

Vested == {"granted", "ready", "mail", "data", "accepting"}

Account(p) == AccountOf[p.credential]

\* The principal fell behind a change that has been published.
Stale(p) == p # NoPrincipal /\ Account(p) \notin publishing \cup unreported /\ ~Current(p)

\* What holds of a session x; "gone" tells whether its account changed.
Good(x, gone) ==
    /\ x.seen <= version
    /\ x.principal # NoPrincipal => x.principal.epoch <= epoch[Account(x.principal)]
    /\ gone => x.principal = NoPrincipal \/ x.principal.epoch < epoch[Account(x.principal)]
    /\ x.step = "open" => x.principal = NoPrincipal /\ ~gone
    /\ x.step \in Vested \cup {"verifying", "orphan"} => x.principal # NoPrincipal
    /\ x.check # "none" => x.step \in {"ready", "mail", "data"}
    /\ x.step \in Vested /\ Stale(x.principal) => x.pending \/ x.seen # version
    /\ x.check = "valid" /\ Stale(x.principal) => x.seen # version

Inv == TypeOK /\ \A s \in Sessions : Good(sess[s], s \in lost)

\* What a step may make of a session x.
Allowed(x, y, gone) ==
    /\ gone /\ x.step = "verifying" => y.step # "granted"
    /\ gone /\ y.result = "accepted" => x.result = "accepted"

Safe == \A s \in Sessions : Allowed(sess[s], sess'[s], s \in lost)

\* A principal is told from none.
LEMMA PrincipalIsSome == NoPrincipal \notin Principal
<1>1. \A p \in Principal : "epoch" \in DOMAIN p
  BY DEF Principal
<1>2. DOMAIN NoPrincipal = {"credential"}
  BY DEF NoPrincipal
<1>3. QED
  BY <1>1, <1>2

\* A closed session is good in any tables.
LEMMA ClosedGood ==
    ASSUME TypeOK
    PROVE  Closed \in Session /\ \A u : Good(Closed, u \in lost)
<1>1. Closed \in Session
  BY DEF Closed, Session, Step
<1>2. version \in Nat
  BY DEF TypeOK
<1>3. QED
  BY <1>1, <1>2 DEF Closed, Good, Vested

\* A step of one session.
LEMMA OneSession ==
    ASSUME Inv, NEW s \in Sessions, NEW r \in Session, sess' = [sess EXCEPT ![s] = r],
           UNCHANGED <<tables, version, publishing, unreported>>,
           lost' \in {lost, lost \ {s}},
           Good(r, s \in lost'), Allowed(sess[s], r, s \in lost)
    PROVE  Inv' /\ Safe
<1>1. UNCHANGED <<active, epoch, sendAs, issued, revoked>>
  BY DEF tables
<1>2. sess'[s] = r /\ \A u \in Sessions \ {s} : sess'[u] = sess[u]
  BY DEF Inv, TypeOK
<1>3. TypeOK'
  BY <1>1 DEF Inv, TypeOK
<1>4. ASSUME NEW u \in Sessions
      PROVE  Good(sess[u], u \in lost)'
  <2>1. CASE u = s
    <3>1. Stale(r.principal)' = Stale(r.principal)
      BY <1>1, ZenonT(40) DEF Stale, Current
    <3>2. QED
      BY <1>1, <1>2, <2>1, <3>1, ZenonT(40) DEF Good
  <2>2. CASE u # s
    <3>1. sess'[u] = sess[u] /\ (u \in lost' <=> u \in lost)
      BY <1>2, <2>2
    <3>2. Good(sess[u], u \in lost)
      BY ZenonT(40) DEF Inv
    <3>3. Stale(sess[u].principal)' = Stale(sess[u].principal)
      BY <1>1, <3>1 DEF Stale, Current
    <3>4. QED
      BY <1>1, <3>1, <3>2, <3>3, ZenonT(40) DEF Good
  <2>3. QED
    BY <2>1, <2>2, ZenonT(40)
<1>5. Safe
  <2>1. \A u \in Sessions \ {s} : Allowed(sess[u], sess'[u], u \in lost)
    <3>1. \A u \in Sessions : ~(sess[u].step = "verifying" /\ sess[u].step = "granted")
      OBVIOUS
    <3>2. QED
      BY <1>2, <3>1 DEF Allowed
  <2>2. QED
    BY <1>2, <2>1 DEF Safe
<1>6. QED
  BY <1>3, <1>4, <1>5 DEF Inv

\* The tables and the channel change, the sessions do not: what a session knows
\* stays true.
LEMMA NoSession ==
    ASSUME Inv, sess' = sess, TypeOK', \A s \in Sessions : Good(sess[s], s \in lost)'
    PROVE  Inv' /\ Safe
<1>1. Safe
  BY DEF Safe, Allowed
<1>2. QED
  BY <1>1 DEF Inv

----------------------------------------------------------------------------
(* The store *)

\* change_authority: the sessions of the account are behind from now on, and
\* excused until the change is published; the others notice nothing.
LEMMA RaisesPreserves ==
    ASSUME Inv, NEW a \in Accounts, Raises(a), TypeOK',
           \A p \in Principal : Account(p) # a => (Current(p)' <=> Current(p))
    PROVE  Inv' /\ Safe
<1>1. /\ publishing = {} /\ epoch[a] < MaxEpoch /\ epoch' = [epoch EXCEPT ![a] = @ + 1]
      /\ lost' = lost \cup {s \in Sessions : Holds(s, a)}
      /\ version' = version /\ sess' = sess
      /\ unreported \subseteq unreported' /\ a \in publishing' \cup unreported'
  BY DEF Raises, Changed, StoreFree
<1>2. ASSUME NEW u \in Sessions
      PROVE  Good(sess[u], u \in lost)'
  <2> DEFINE p == sess[u].principal
  <2>1. Good(sess[u], u \in lost)
    BY DEF Inv
  <2>2. p # NoPrincipal => p \in Principal /\ Account(p) \in Accounts
    BY RevocationAssumption DEF Inv, TypeOK, Session, Principal, Account
  <2>3. epoch \in [Accounts -> 1..MaxEpoch] /\ MaxEpoch \in Nat
    BY RevocationAssumption, ZenonT(40) DEF Inv, TypeOK
  <2>4. CASE p # NoPrincipal /\ Account(p) = a
    <3>1. ~Stale(p)' /\ u \in lost'
      BY <1>1, <2>4, ZenonT(40) DEF Stale, Holds, Account
    <3>2. epoch'[a] = epoch[a] + 1 /\ p.epoch \in 1..MaxEpoch /\ p.epoch <= epoch[a] /\ epoch[a] \in 1..MaxEpoch
      BY <1>1, <2>1, <2>2, <2>3, <2>4 DEF Good, Principal
    <3>3. p.epoch <= epoch'[Account(p)] /\ p.epoch < epoch'[Account(p)]
      BY <2>4, <3>2
    <3>4. QED
      BY <1>1, <2>1, <2>4, <3>1, <3>3, ZenonT(40) DEF Good, Account
  <2>5. CASE p # NoPrincipal /\ Account(p) # a
    <3>1. Stale(p)' => Stale(p)
      BY <1>1, <2>2, <2>5, ZenonT(40) DEF Stale, Account
    <3>2. u \in lost' <=> u \in lost
      BY <1>1, <2>5 DEF Holds, Account
    <3>3. epoch'[Account(p)] = epoch[Account(p)]
      BY <1>1, <2>2, <2>3, <2>5, ZenonT(40)
    <3>4. QED
      BY <1>1, <2>1, <3>1, <3>2, <3>3, ZenonT(40) DEF Good, Account
  <2>6. CASE p = NoPrincipal
    <3>1. u \in lost' <=> u \in lost
      BY <1>1, <2>6 DEF Holds
    <3>2. ~Stale(p)'
      BY <1>1, <2>6 DEF Stale
    <3>3. QED
      BY <1>1, <2>1, <2>6, <3>1, <3>2, ZenonT(40) DEF Good
  <2>7. QED
    BY <2>4, <2>5, <2>6
<1>3. QED
  BY <1>1, <1>2, NoSession

\* What the change leaves of the types.
LEMMA RaisesTyped ==
    ASSUME TypeOK, NEW a \in Accounts, Raises(a)
    PROVE  /\ epoch' \in [Accounts -> 1..MaxEpoch] /\ version' \in Nat
           /\ publishing' \subseteq Accounts /\ sess' \in [Sessions -> Session]
           /\ lost' \subseteq Sessions /\ unreported' \subseteq Accounts
           /\ \A b \in Accounts : b # a => epoch'[b] = epoch[b]
BY RevocationAssumption DEF Raises, Changed, TypeOK

\* The administrator's calls.
LEMMA AdministrationPreserves ==
    ASSUME Inv, Administration
    PROVE  Inv' /\ Safe
<1> USE DEF Account
<1>1. TypeOK
  BY DEF Inv
<1>2. ASSUME NEW c \in Credentials, CreateCredential(c)
      PROVE  Inv' /\ Safe
  <2>1. UNCHANGED <<active, epoch, sendAs, revoked, version, publishing, sess, lost, unreported>>
    BY <1>2 DEF CreateCredential
  <2>2. TypeOK' /\ issued \subseteq issued'
    BY <1>1, <1>2, <2>1 DEF CreateCredential, TypeOK
  <2>3. \A p \in Principal : Stale(p)' => Stale(p)
    BY <2>1, <2>2 DEF Stale, Current
  <2>4. \A u \in Sessions : sess[u].principal \in Principal \cup {NoPrincipal}
    BY <1>1 DEF TypeOK, Session
  <2>5. \A u \in Sessions : Stale(sess[u].principal)' => Stale(sess[u].principal)
    BY <2>1, <2>3, <2>4, ZenonT(40) DEF Stale
  <2>6. \A u \in Sessions : Good(sess[u], u \in lost)'
    BY <2>1, <2>5, ZenonT(40) DEF Inv, Good
  <2>7. QED
    BY <2>1, <2>2, <2>6, NoSession
<1>3. ASSUME NEW c \in Credentials, RevokeCredential(c)
      PROVE  Inv' /\ Safe
  <2>1. /\ Raises(AccountOf[c]) /\ AccountOf[c] \in Accounts
        /\ c \in issued /\ revoked' = revoked \cup {c} /\ UNCHANGED <<active, sendAs, issued>>
    BY <1>3, RevocationAssumption DEF RevokeCredential
  <2>2. TypeOK'
    BY <1>1, <2>1, RaisesTyped DEF TypeOK
  <2>3. \A p \in Principal : Account(p) # AccountOf[c] => (Current(p)' <=> Current(p))
    BY <1>1, <2>1, RaisesTyped, RevocationAssumption, ZenonT(40) DEF Current, Principal
  <2>4. QED
    BY <2>1, <2>2, <2>3, RaisesPreserves
<1>4. ASSUME NEW a \in Accounts, DisableAccount(a)
      PROVE  Inv' /\ Safe
  <2>1. /\ Raises(a) /\ active' = active \ {a}
        /\ revoked' = revoked \cup {c \in issued : AccountOf[c] = a} /\ UNCHANGED <<sendAs, issued>>
    BY <1>4 DEF DisableAccount
  <2>2. TypeOK'
    BY <1>1, <2>1, RaisesTyped DEF TypeOK
  <2>3. \A p \in Principal : Account(p) # a => (Current(p)' <=> Current(p))
    BY <1>1, <2>1, RaisesTyped, RevocationAssumption DEF Current, Principal
  <2>4. QED
    BY <2>1, <2>2, <2>3, RaisesPreserves
<1>5. ASSUME NEW a \in Accounts, NEW e \in BOOLEAN, SetSendAs(a, e)
      PROVE  Inv' /\ Safe
  <2>1. /\ Raises(a) /\ a \in active /\ sendAs' \in {sendAs \cup {a}, sendAs \ {a}}
        /\ UNCHANGED <<active, issued, revoked>>
    BY <1>5 DEF SetSendAs
  <2>2. TypeOK'
    BY <1>1, <2>1, RaisesTyped DEF TypeOK
  <2>3. \A p \in Principal : Account(p) # a => (Current(p)' <=> Current(p))
    BY <1>1, <2>1, RaisesTyped, RevocationAssumption DEF Current, Principal
  <2>4. QED
    BY <2>1, <2>2, <2>3, RaisesPreserves
<1>6. QED
  BY <1>2, <1>3, <1>4, <1>5 DEF Administration

\* The watch channel: every session has the new version unread.
LEMMA PublishPreserves ==
    ASSUME Inv, Publish
    PROVE  Inv' /\ Safe
<1>1. /\ version' = version + 1 /\ publishing' = {} /\ UNCHANGED <<sess, lost, unreported>>
      /\ UNCHANGED <<active, epoch, sendAs, issued, revoked>>
  BY DEF Publish, tables
<1>2. TypeOK'
  BY <1>1 DEF Inv, TypeOK
<1>3. \A u \in Sessions : sess[u].seen \in Nat /\ sess[u].seen <= version /\ version \in Nat
  BY DEF Inv, Good, TypeOK, Session
<1>4. \A u \in Sessions : sess[u].seen <= version' /\ sess[u].seen # version'
  BY <1>1, <1>3
<1>5. \A u \in Sessions : Good(sess[u], u \in lost)'
  BY <1>1, <1>4, ZenonT(40) DEF Inv, Good
<1>6. QED
  BY <1>1, <1>2, <1>5, NoSession

\* A restart closes everything.
LEMMA CrashPreserves ==
    ASSUME Inv, Crash
    PROVE  Inv' /\ Safe
<1>1. /\ version' = 0 /\ publishing' = {} /\ lost' = {} /\ unreported' = unreported
      /\ sess' = [s \in Sessions |-> Closed] /\ UNCHANGED <<active, epoch, sendAs, issued, revoked>>
  BY DEF Crash, tables
<1>2. Closed \in Session
  BY ClosedGood DEF Inv
<1>3. TypeOK'
  BY <1>1, <1>2 DEF Inv, TypeOK
<1>4. \A u \in Sessions : Good(sess[u], u \in lost)'
  BY <1>1 DEF Good, Closed, Vested
<1>5. Safe
  BY <1>1 DEF Safe, Allowed, Closed
<1>6. QED
  BY <1>3, <1>4, <1>5 DEF Inv

----------------------------------------------------------------------------
(* Sessions *)

\* A principal carries an epoch.
LEMMA PrincipalEpoch == \A p \in Principal : p.epoch \in Nat
BY DEF Principal

\* A session without a principal owes nothing.
LEMMA OpenGood ==
    ASSUME NEW x, NEW s, x.principal = NoPrincipal, x.seen <= version, x.step = "open",
           x.check = "none", s \notin lost'
    PROVE  Good(x, s \in lost')
BY DEF Good, Vested, Stale

\* The types and the invariant of one session.
LEMMA This ==
    ASSUME Inv, NEW s \in Sessions
    PROVE  /\ sess[s] \in Session /\ Good(sess[s], s \in lost) /\ TypeOK
           /\ sess[s].seen \in Nat /\ version \in Nat
           /\ sess[s].principal \in Principal \cup {NoPrincipal}
           /\ sess[s].pending \in BOOLEAN
BY DEF Inv, TypeOK, Session

\* A step that changes the session's place and drops its question, at most, is
\* fine where both places vouch for the same.
LEMMA Steps ==
    ASSUME Inv, NEW s \in Sessions, NEW r \in Session, Becomes(s, r),
           r.principal = sess[s].principal, r.seen = sess[s].seen, r.pending = sess[s].pending,
           r.check = "none",
           \/ sess[s].step \in Vested /\ r.step \in Vested \cup {"orphan"}
           \/ sess[s].step = "orphan" /\ r.step = "closed",
           s \in lost /\ r.result = "accepted" => sess[s].result = "accepted"
    PROVE  Inv' /\ Safe
<1>1. /\ sess' = [sess EXCEPT ![s] = r] /\ lost' = lost
      /\ UNCHANGED <<tables, version, publishing, unreported>>
  BY ZenonT(40) DEF Becomes
<1>2. Good(r, s \in lost')
  BY <1>1, This, ZenonT(40) DEF Good, Vested
<1>3. Allowed(sess[s], r, s \in lost)
  BY DEF Allowed, Vested
<1>4. QED
  BY <1>1, <1>2, <1>3, OneSession, ZenonT(40)

\* A connection is made, and subscribes.
LEMMA ConnectPreserves ==
    ASSUME Inv, NEW s \in Sessions, Connect(s)
    PROVE  Inv' /\ Safe
<1> DEFINE r == [Closed EXCEPT !.step = "open", !.seen = version]
<1>1. /\ sess' = [sess EXCEPT ![s] = r] /\ lost' = lost \ {s}
      /\ UNCHANGED <<tables, version, publishing, unreported>> /\ sess[s].step = "closed"
  BY DEF Connect
<1>2. /\ r \in Session /\ r.principal = NoPrincipal /\ r.seen = version /\ r.step = "open"
      /\ r.check = "none" /\ r.result = "none"
  BY This, ZenonT(40) DEF Closed, Session, Step
<1> HIDE DEF r
<1>3. Good(r, s \in lost')
  <2>1. r.seen <= version
    BY <1>2, This
  <2>2. s \notin lost'
    BY <1>1, ZenonT(40)
  <2>3. QED
    BY <1>2, <2>1, <2>2, OpenGood, ZenonT(40)
<1>4. Allowed(sess[s], r, s \in lost)
  BY <1>1, <1>2 DEF Allowed
<1>5. QED
  BY <1>1, <1>2, <1>3, <1>4, OneSession, ZenonT(40)

\* credential_lookup.
LEMMA LookupPreserves ==
    ASSUME Inv, NEW s \in Sessions, NEW c \in Credentials, Lookup(s, c)
    PROVE  Inv' /\ Safe
<1> DEFINE p == [credential |-> c, epoch |-> epoch[AccountOf[c]]]
           r == [sess[s] EXCEPT !.step = "verifying", !.principal = p]
<1>1. /\ Becomes(s, r) /\ sess[s].step = "open"
  BY DEF Lookup
<1>2. AccountOf[c] \in Accounts /\ epoch[AccountOf[c]] \in 1..MaxEpoch
  BY RevocationAssumption, ZenonT(40) DEF Inv, TypeOK
<1>3. p \in Principal /\ p.epoch = epoch[Account(p)]
  BY <1>2 DEF Principal, Account
<1>4. p # NoPrincipal
  BY <1>3, PrincipalIsSome
<1> HIDE DEF p
<1>5. /\ r \in Session /\ r.principal = p /\ r.seen = sess[s].seen /\ r.step = "verifying"
      /\ r.check = sess[s].check /\ r.result = sess[s].result
  BY <1>3, This, ZenonT(40) DEF Session, Step
<1> HIDE DEF r
<1>6. p.epoch \in Nat
  BY <1>3, PrincipalEpoch, ZenonT(40)
<1>7. Good(r, s \in lost)
  <2>1. sess[s].seen <= version /\ s \notin lost /\ sess[s].check = "none"
    BY <1>1, This, ZenonT(40) DEF Good
  <2>2. p.epoch <= epoch[Account(p)]
    BY <1>3, <1>6
  <2>3. QED
    BY <1>4, <1>5, <2>1, <2>2, ZenonT(40) DEF Good, Vested
<1>8. Allowed(sess[s], r, s \in lost)
  BY <1>1, <1>5 DEF Allowed
<1>9. QED
  BY <1>1, <1>5, <1>7, <1>8, OneSession, ZenonT(40) DEF Becomes

\* The login is denied.
LEMMA DeniedPreserves ==
    ASSUME Inv, NEW s \in Sessions, Denied(s)
    PROVE  Inv' /\ Safe
<1> DEFINE r == [sess[s] EXCEPT !.step = "open", !.principal = NoPrincipal]
<1>1. /\ sess' = [sess EXCEPT ![s] = r] /\ lost' = lost \ {s} /\ sess[s].step = "verifying"
      /\ UNCHANGED <<tables, version, publishing, unreported>>
  BY This, ZenonT(40) DEF Denied, Session, Inv, TypeOK
<1>2. /\ r \in Session /\ r.principal = NoPrincipal /\ r.seen = sess[s].seen /\ r.step = "open"
      /\ r.check = sess[s].check /\ r.result = sess[s].result
  BY This, ZenonT(40) DEF Session, Step
<1> HIDE DEF r
<1>3. Good(r, s \in lost')
  <2>1. sess[s].seen <= version /\ sess[s].check = "none"
    BY <1>1, This, ZenonT(40) DEF Good
  <2>2. s \notin lost' /\ r.seen <= version /\ r.check = "none"
    BY <1>1, <1>2, <2>1, ZenonT(40)
  <2>3. QED
    BY <1>2, <2>2, OpenGood, ZenonT(40)
<1>4. Allowed(sess[s], r, s \in lost)
  BY <1>2, ZenonT(40) DEF Allowed
<1>5. QED
  BY <1>1, <1>2, <1>3, <1>4, OneSession, ZenonT(40)

\* A principal that the tables still grant is not behind.
LEMMA CurrentNotGone ==
    ASSUME Inv, NEW s \in Sessions, sess[s].principal # NoPrincipal, Current(sess[s].principal)
    PROVE  s \notin lost /\ ~Stale(sess[s].principal)
<1>1. sess[s].principal.epoch = epoch[Account(sess[s].principal)]
  BY DEF Current, Account
<1>2. sess[s].principal.epoch \in Nat
  BY This DEF Principal
<1>3. QED
  BY <1>1, <1>2, This DEF Good, Stale

\* finish_authentication grants only what the tables grant now.
LEMMA FinishPreserves ==
    ASSUME Inv, NEW s \in Sessions, FinishAuthentication(s)
    PROVE  Inv' /\ Safe
<1> DEFINE r == [sess[s] EXCEPT !.step = "granted"]
<1>1. Becomes(s, r) /\ sess[s].step = "verifying" /\ Current(sess[s].principal)
  BY DEF FinishAuthentication
<1>2. s \notin lost /\ ~Stale(sess[s].principal)
  BY <1>1, This, CurrentNotGone DEF Good
<1>3. /\ r \in Session /\ r.principal = sess[s].principal /\ r.seen = sess[s].seen
      /\ r.step = "granted" /\ r.check = sess[s].check
  BY This, ZenonT(40) DEF Session, Step
<1> HIDE DEF r
<1>4. Good(r, s \in lost)
  BY <1>1, <1>2, <1>3, This, ZenonT(40) DEF Good, Vested
<1>5. Allowed(sess[s], r, s \in lost)
  BY <1>2, ZenonT(40) DEF Allowed
<1>6. QED
  BY <1>1, <1>3, <1>4, <1>5, OneSession, ZenonT(40) DEF Becomes

\* The reply is written and the session goes on, a client's command interrupts
\* the question, or an acceptance is dispatched.
LEMMA InputPreserves ==
    ASSUME Inv, NEW s \in Sessions, Granted(s) \/ Input(s)
    PROVE  Inv' /\ Safe
<1>1. \E r \in Session :
          /\ Becomes(s, r)
          /\ r.principal = sess[s].principal /\ r.seen = sess[s].seen
          /\ r.pending = sess[s].pending /\ r.check = "none"
          /\ r.step \in Vested /\ sess[s].step \in Vested
          /\ r.result \in {sess[s].result, "none"}
  <2>1. CASE Granted(s)
    <3> DEFINE r == [sess[s] EXCEPT !.step = "ready"]
    <3>1. Becomes(s, r) /\ sess[s].step = "granted"
      BY <2>1 DEF Granted
    <3>2. sess[s].check = "none"
      BY <3>1, This DEF Good
    <3>3. /\ r \in Session /\ r.principal = sess[s].principal /\ r.seen = sess[s].seen
          /\ r.pending = sess[s].pending /\ r.check = "none" /\ r.step = "ready"
          /\ r.result = sess[s].result
      BY <3>2, This DEF Session, Step
    <3>4. QED
      BY <3>1, <3>3, ZenonT(40) DEF Vested
  <2>2. ASSUME NEW step \in {"ready", "mail", "data", "accepting"}
        PROVE  LET r == Interrupted(s, step)
               IN  /\ r \in Session /\ r.principal = sess[s].principal /\ r.seen = sess[s].seen
                   /\ r.pending = sess[s].pending /\ r.check = "none" /\ r.step = step
                   /\ r.result = sess[s].result
    BY This, ZenonT(40) DEF Session, Step, Interrupted
  <2>3. CASE Command(s)
    <3>1. \E step \in {"ready", sess[s].step} : Becomes(s, Interrupted(s, step))
      BY <2>3 DEF Command
    <3>2. sess[s].step \in {"ready", "mail"}
      BY <2>3, ZenonT(40) DEF Command, Waits
    <3>3. QED
      BY <2>2, <3>1, <3>2, ZenonT(40) DEF Vested
  <2>4. CASE Mail(s)
    BY <2>2, <2>4 DEF Mail, Vested
  <2>5. CASE Data(s)
    <3> DEFINE x == Interrupted(s, "data")
               r == [x EXCEPT !.result = "none"]
    <3>1. Becomes(s, r) /\ sess[s].step = "mail"
      BY <2>5 DEF Data
    <3>2. x \in Session /\ x.principal = sess[s].principal /\ x.seen = sess[s].seen
          /\ x.pending = sess[s].pending /\ x.check = "none" /\ x.step = "data"
      BY <2>2
    <3> HIDE DEF x
    <3>3. /\ r \in Session /\ r.principal = x.principal /\ r.seen = x.seen
          /\ r.pending = x.pending /\ r.check = x.check /\ r.step = x.step /\ r.result = "none"
      BY <3>2, ZenonT(40) DEF Session
    <3>4. QED
      BY <3>1, <3>2, <3>3, ZenonT(40) DEF Vested
  <2>6. CASE Dispatch(s)
    BY <2>2, <2>6, ZenonT(40) DEF Dispatch, Vested
  <2>7. QED
    BY <2>1, <2>3, <2>4, <2>5, <2>6, ZenonT(40) DEF Input
<1>2. PICK r \in Session :
          /\ Becomes(s, r)
          /\ r.principal = sess[s].principal /\ r.seen = sess[s].seen
          /\ r.pending = sess[s].pending /\ r.check = "none"
          /\ r.step \in Vested /\ sess[s].step \in Vested
          /\ r.result \in {sess[s].result, "none"}
  BY <1>1
<1>3. QED
  BY <1>2, Steps

\* Revocations::wait: the question is asked with the notice kept pending.
LEMMA AskPreserves ==
    ASSUME Inv, NEW s \in Sessions, Ask(s)
    PROVE  Inv' /\ Safe
<1> DEFINE r == [sess[s] EXCEPT !.seen = IF sess[s].pending THEN @ ELSE version,
                                !.pending = TRUE, !.check = "sent"]
<1>1. Becomes(s, r) /\ sess[s].step \in {"ready", "mail", "data"}
  BY DEF Ask, Waits
<1>2. /\ r \in Session /\ r.principal = sess[s].principal /\ r.seen \in {sess[s].seen, version}
      /\ r.pending = TRUE /\ r.check = "sent" /\ r.step = sess[s].step /\ r.result = sess[s].result
  BY This, ZenonT(40) DEF Session
<1> HIDE DEF r
<1>3. r.seen <= version
  BY <1>2, This DEF Good
<1>4. Good(r, s \in lost)
  BY <1>1, <1>2, <1>3, This, ZenonT(40) DEF Good, Vested
<1>5. Allowed(sess[s], r, s \in lost)
  BY <1>1, <1>2 DEF Allowed
<1>6. QED
  BY <1>1, <1>2, <1>4, <1>5, OneSession, ZenonT(40) DEF Becomes

\* principal_current.
LEMMA AnswerPreserves ==
    ASSUME Inv, NEW s \in Sessions, PrincipalCurrent(s)
    PROVE  Inv' /\ Safe
<1>1. PICK answer \in {"valid", "stale"} :
          /\ answer = "valid" => Current(sess[s].principal)
          /\ Becomes(s, [sess[s] EXCEPT !.check = answer])
  BY DEF PrincipalCurrent
<1> DEFINE r == [sess[s] EXCEPT !.check = answer]
<1>2. sess[s].step \in {"ready", "mail", "data"}
  BY DEF PrincipalCurrent, Waits
<1>3. /\ r \in Session /\ r.principal = sess[s].principal /\ r.seen = sess[s].seen
      /\ r.pending = sess[s].pending /\ r.check = answer /\ r.step = sess[s].step
      /\ r.result = sess[s].result
  BY This DEF Session
<1>4. answer = "valid" => ~Stale(sess[s].principal)
  BY <1>1, ZenonT(40) DEF Stale
<1> HIDE DEF r
<1>5. Good(r, s \in lost)
  BY <1>2, <1>3, <1>4, This, ZenonT(40) DEF Good, Vested
<1>6. Allowed(sess[s], r, s \in lost)
  BY <1>2, <1>3 DEF Allowed
<1>7. Becomes(s, r)
  BY <1>1 DEF r
<1>8. QED
  BY <1>3, <1>5, <1>6, <1>7, OneSession, ZenonT(40) DEF Becomes

\* A session that closes.
LEMMA ClosesPreserves ==
    ASSUME Inv, NEW s \in Sessions, Becomes(s, Closed)
    PROVE  Inv' /\ Safe
<1>1. Closed \in Session /\ Good(Closed, s \in lost)
  BY This, ClosedGood, ZenonT(40)
<1>2. Allowed(sess[s], Closed, s \in lost)
  BY DEF Allowed, Closed
<1>3. QED
  BY <1>1, <1>2, OneSession, ZenonT(40) DEF Becomes

\* The answer is read: the notice is acknowledged, unless another change has
\* been published since, or the session ends.
LEMMA AnsweredPreserves ==
    ASSUME Inv, NEW s \in Sessions, Answered(s)
    PROVE  Inv' /\ Safe
<1> DEFINE r == [sess[s] EXCEPT !.check = "none", !.pending = FALSE]
<1>1. CASE Becomes(s, Closed)
  BY <1>1, ClosesPreserves
<1>2. CASE sess[s].check = "valid" /\ Becomes(s, r)
  <2>1. sess[s].step \in {"ready", "mail", "data"}
    BY <1>2, This DEF Good
  <2>2. /\ r \in Session /\ r.principal = sess[s].principal /\ r.seen = sess[s].seen
        /\ r.pending = FALSE /\ r.check = "none" /\ r.step = sess[s].step
        /\ r.result = sess[s].result
    BY This, ZenonT(40) DEF Session
  <2> HIDE DEF r
  <2>3. Good(r, s \in lost)
    BY <1>2, <2>1, <2>2, This, ZenonT(40) DEF Good, Vested
  <2>4. Allowed(sess[s], r, s \in lost)
    BY <2>1, <2>2, ZenonT(40) DEF Allowed
  <2>5. QED
    BY <1>2, <2>2, <2>3, <2>4, OneSession, ZenonT(40) DEF Becomes
<1>3. QED
  BY <1>1, <1>2 DEF Answered

\* accept_inner accepts only for a principal that the tables grant now.
LEMMA AcceptPreserves ==
    ASSUME Inv, NEW s \in Sessions, Accept(s)
    PROVE  Inv' /\ Safe
<1>1. PICK result \in {"accepted", "refused"} :
          /\ result = "accepted" => MaySend(sess[s].principal)
          /\ Becomes(s, [sess[s] EXCEPT !.result = result,
                                        !.step = IF @ = "orphan" THEN "closed" ELSE "ready"])
  BY ZenonT(40) DEF Accept
<1> DEFINE r == [sess[s] EXCEPT !.result = result,
                                !.step = IF @ = "orphan" THEN "closed" ELSE "ready"]
<1>2. sess[s].step \in {"accepting", "orphan"} /\ sess[s].principal # NoPrincipal /\ sess[s].check = "none"
  BY This DEF Accept, Good, Vested
<1>3. /\ r \in Session /\ r.principal = sess[s].principal /\ r.seen = sess[s].seen
      /\ r.pending = sess[s].pending /\ r.check = sess[s].check /\ r.result = result
      /\ r.step = IF sess[s].step = "orphan" THEN "closed" ELSE "ready"
  BY This, ZenonT(40) DEF Session, Step
<1>4. Becomes(s, r)
  BY <1>1
<1> HIDE DEF r
<1>5. result = "accepted" => s \notin lost
  BY <1>1, <1>2, CurrentNotGone DEF MaySend
<1>6. QED
  BY <1>2, <1>3, <1>4, <1>5, Steps DEF Vested

\* The connection ends.
LEMMA LeavePreserves ==
    ASSUME Inv, NEW s \in Sessions, Leave(s)
    PROVE  Inv' /\ Safe
<1> DEFINE r == [sess[s] EXCEPT !.step = "orphan"]
<1>1. CASE Becomes(s, Closed)
  BY <1>1, ClosesPreserves
<1>2. CASE sess[s].step = "accepting" /\ Becomes(s, r)
  <2>1. sess[s].check = "none"
    BY <1>2, This DEF Good
  <2>2. /\ r \in Session /\ r.principal = sess[s].principal /\ r.seen = sess[s].seen
        /\ r.pending = sess[s].pending /\ r.check = sess[s].check /\ r.step = "orphan"
        /\ r.result = sess[s].result
    BY This DEF Session, Step
  <2> HIDE DEF r
  <2>3. QED
    BY <1>2, <2>1, <2>2, Steps DEF Vested
<1>3. QED
  BY <1>1, <1>2 DEF Leave

----------------------------------------------------------------------------
(* The theorems *)

\* A process starts without sessions.
LEMMA InitInv == Init => Inv
<1> SUFFICES ASSUME Init
             PROVE  Inv
  OBVIOUS
<1>1. Closed \in Session
  BY DEF Closed, Session, Step
<1>2. TypeOK
  BY <1>1, RevocationAssumption DEF Init, TypeOK
<1>3. QED
  BY <1>2, ClosedGood DEF Init, Inv

\* Every step keeps the invariant and grants nothing late.
LEMMA NextInv == Inv /\ [Next]_vars => Inv' /\ Safe
<1> SUFFICES ASSUME Inv, [Next]_vars
             PROVE  Inv' /\ Safe
  OBVIOUS
<1>1. CASE Administration
  BY <1>1, AdministrationPreserves
<1>2. CASE Publish
  BY <1>2, PublishPreserves
<1>3. ASSUME NEW s \in Sessions,
             Connect(s) \/ Authentication(s) \/ Wait(s) \/ Input(s) \/ Accept(s) \/ Leave(s)
      PROVE  Inv' /\ Safe
  <2>1. CASE Connect(s)
    BY <2>1, ConnectPreserves
  <2>2. CASE Authentication(s)
    BY <2>2, LookupPreserves, DeniedPreserves, FinishPreserves, InputPreserves DEF Authentication
  <2>3. CASE Wait(s)
    BY <2>3, AskPreserves, AnswerPreserves, AnsweredPreserves DEF Wait
  <2>4. CASE Input(s)
    BY <2>4, InputPreserves
  <2>5. CASE Accept(s) \/ Leave(s)
    BY <2>5, AcceptPreserves, LeavePreserves
  <2>6. QED
    BY <1>3, <2>1, <2>2, <2>3, <2>4, <2>5
<1>4. CASE Crash
  BY <1>4, CrashPreserves
<1>5. CASE UNCHANGED vars
  <2>1. /\ UNCHANGED <<active, epoch, sendAs, issued, revoked>>
        /\ UNCHANGED <<version, publishing, sess, lost, unreported>>
    BY <1>5 DEF vars, tables
  <2>2. TypeOK'
    BY <2>1 DEF Inv, TypeOK
  <2>3. \A u \in Sessions : Good(sess[u], u \in lost)'
    BY <2>1, ZenonT(40) DEF Inv, Good, Stale, Current
  <2>4. QED
    BY <2>1, <2>2, <2>3, NoSession
<1>6. QED
  BY <1>1, <1>2, <1>3, <1>4, <1>5 DEF Next

\* The invariant holds throughout.
LEMMA Invariance == Spec => []Inv
BY InitInv, NextInv, PTL DEF Spec

\* Revocations: for any number of accounts, credentials and sessions, and
\* however commands interrupt the question, a session whose principal fell
\* behind a published change has a notice unread or a question outstanding.
THEOREM NoticesKept == Spec => []NoticeKept
<1>1. Inv => NoticeKept
  BY ZenonT(40) DEF Inv, NoticeKept, Good, Stale, Vested, Waits, Holds, Account
<1>2. QED
  BY <1>1, Invariance, PTL

\* finish_authentication: no login is granted over a change of authority that
\* was committed while the password was being verified.
THEOREM GrantsInTime == Spec => NoLateGrant
<1>1. Inv /\ [Next]_vars =>
          [\A s \in Sessions :
              s \in lost /\ sess[s].step = "verifying" => sess'[s].step # "granted"]_vars
  BY NextInv DEF Safe, Allowed
<1>2. QED
  BY <1>1, Invariance, PTL DEF Spec, NoLateGrant

\* accept_inner: no message is accepted for a session after a change of its
\* account, whatever later changes restore, not even for a session that is gone.
THEOREM AcceptsInTime == Spec => NoLateAcceptance
<1>1. Inv /\ [Next]_vars =>
          [\A s \in Sessions :
              s \in lost /\ sess'[s].result = "accepted" => sess[s].result = "accepted"]_vars
  BY NextInv DEF Safe, Allowed
<1>2. QED
  BY <1>1, Invariance, PTL DEF Spec, NoLateAcceptance

\* The state keeps its types: what is revoked was issued.
THEOREM Typed == Spec => []TypeOK
<1>1. Inv => TypeOK
  BY DEF Inv
<1>2. QED
  BY <1>1, Invariance, PTL
============================================================================
