-------------------------------- MODULE Queue --------------------------------
(***************************************************************************)
(* The durable relay queue: the delivery and queue_lease tables, the       *)
(* in-memory QueueRuntime of the process that owns the store, the execute  *)
(* tasks that carry a lease over the network, and the remote server.       *)
(*                                                                         *)
(* Every store operation runs on the one thread that owns SQLite, so each  *)
(* is one action.  A commit has three outcomes: confirmed, rolled back, or *)
(* durable with an error returned (QueueOutcomeUnknown).  What a task does *)
(* between two store calls interleaves freely with everything else.        *)
(*                                                                         *)
(* Wall-clock time is abstracted: a backoff may have elapsed at any later  *)
(* step, expired[d] stands for expires_at_ms <= now, and clockChanged is   *)
(* the sticky flag of the clock guard.  A lease is named by its delivery   *)
(* and generation, which the code draws afresh together with the token.    *)
(***************************************************************************)
EXTENDS Naturals, FiniteSets

CONSTANTS
    Deliveries,   \* ids of relay rows; positive numbers, ordered as the ids are
    DomainOf,     \* destination domain of each delivery
    Concurrency,  \* QueuePolicy.concurrency
    PerDomain,    \* QueuePolicy.per_domain
    Batch,        \* rows one expiry or recovery scan may take
    MaxCounter    \* largest attempts/generation value, i64::MAX in the code

ASSUME QueueAssumption ==
    /\ Deliveries \subseteq Nat \ {0}
    /\ IsFiniteSet(Deliveries)
    /\ Concurrency \in Nat \ {0}
    /\ PerDomain \in 1..Concurrency
    /\ Batch \in Nat \ {0}
    /\ MaxCounter \in Nat

VARIABLES
    row,          \* delivery table: state, possibly_delivered, closed, generation
    phase,        \* queue_lease table: phase of the current attempt, or "none"
    expired,      \* expires_at_ms <= now
    asked,        \* allow_duplicate of the newest queue_admin_event since a claim
    consented,    \* generations claimed while it was set
    active,       \* QueueRuntime.active: ids with a Weak<LeaseGuard> entry
    cursor,       \* QueueRuntime.recovery_cursor, 0 for the empty string
    clockChanged, \* QueueRuntime.clock_changed
    task,         \* what the execute task of a lease is doing
    lingering,    \* generations whose QueuedReader outlives the attempt
    wire          \* what the remote server holds of an attempt

table   == <<row, phase>>
audit   == <<asked, consented>>
runtime == <<active, cursor, clockChanged>>
network == <<task, lingering, wire>>
vars    == <<table, expired, audit, runtime, network>>

-----------------------------------------------------------------------------
Generations == 1..MaxCounter

State == {"absent", "pending", "leased", "deferred", "uncertain", "delivered",
          "failed", "hold"}

Phase == {"none", "ready", "body"}

QueueResult ==
    {"Delivered", "Temporary", "Permanent", "ConnectionLost", "Hold", "Deferred"}

\* An execute task between its store calls.  "orphan" is a queue_mark_body
\* request still in the store's channel after its task was dropped.
Working == {"opening", "dialing", "marking", "orphan", "sending", "dotted"}

\* A task whose value is a QueueResult has dropped its socket and queued
\* queue_finish with that result.
Task == {"none"} \cup Working \cup QueueResult

\* "dotted": the final dot left this host and the peer has yet to decide.
Wire == {"idle", "dotted", "accepted", "refused"}

Row == [state : State, possibly : BOOLEAN, closed : BOOLEAN,
        generation : 0..MaxCounter]

TypeOK ==
    /\ row \in [Deliveries -> Row]
    /\ phase \in [Deliveries -> Phase]
    /\ expired \in [Deliveries -> BOOLEAN]
    /\ asked \in [Deliveries -> BOOLEAN]
    /\ consented \in [Deliveries -> SUBSET Generations]
    /\ active \subseteq Deliveries
    /\ cursor \in Deliveries \cup {0}
    /\ clockChanged \in BOOLEAN
    /\ task \in [Deliveries -> [Generations -> Task]]
    /\ lingering \in [Deliveries -> SUBSET Generations]
    /\ wire \in [Deliveries -> [Generations -> Wire]]

Init ==
    /\ row = [d \in Deliveries |-> [state |-> "absent", possibly |-> FALSE,
                                    closed |-> FALSE, generation |-> 0]]
    /\ phase = [d \in Deliveries |-> "none"]
    /\ expired = [d \in Deliveries |-> FALSE]
    /\ asked = [d \in Deliveries |-> FALSE]
    /\ consented = [d \in Deliveries |-> {}]
    /\ active = {}
    /\ cursor = 0
    /\ clockChanged = FALSE
    /\ task = [d \in Deliveries |-> [g \in Generations |-> "none"]]
    /\ lingering = [d \in Deliveries |-> {}]
    /\ wire = [d \in Deliveries |-> [g \in Generations |-> "idle"]]

-----------------------------------------------------------------------------
(* Helpers on the tables and on ownership                                  *)

InState(r, S) == {d \in Deliveries : r[d].state \in S}

\* LeaseGuard strong_count > 0: the lease itself, a queued request holding
\* it, or a body reader still inside a blocking read.
Live == {d \in Deliveries :
            \E g \in Generations : task[d][g] # "none" \/ g \in lingering[d]}

\* check_lease: the row is leased under this generation and has its phase row.
CheckLease(d, g) ==
    /\ row[d].state = "leased"
    /\ row[d].generation = g
    /\ phase[d] # "none"

\* A lease whose task has ended; the socket and the lease are dropped.
Ends(d, g, t) == task' = [task EXCEPT ![d][g] = t]

-----------------------------------------------------------------------------
(* Acceptance                                                              *)

\* insert_relay: one pending row per recipient.  Replaying the operation id
\* returns the stored acceptance and changes nothing.
Enqueue(d) ==
    /\ row[d].state = "absent"
    /\ row' = [row EXCEPT ![d].state = "pending"]
    /\ UNCHANGED <<phase, expired, audit, runtime, network>>

-----------------------------------------------------------------------------
(* Expiry and recovery of ownerless leases                                 *)

ExpireRow(r) ==
    [r EXCEPT !.state = IF r.possibly THEN "uncertain" ELSE "failed"]

ExpireRows(r, S) == [d \in Deliveries |-> IF d \in S THEN ExpireRow(r[d]) ELSE r[d]]

\* ORDER BY expires_at_ms LIMIT n: some n of the expired rows, all if fewer.
ExpiryBatches(r) ==
    LET late == {d \in InState(r, {"pending", "deferred"}) : expired[d]}
    IN  {S \in SUBSET late :
            \/ S = late /\ Cardinality(late) <= Batch
            \/ Cardinality(late) > Batch /\ Cardinality(S) = Batch}

\* queue_expire.
Expire ==
    /\ ~clockChanged
    /\ \E S \in ExpiryBatches(row) :
        /\ S # {}
        /\ row' = ExpireRows(row, S)
    /\ UNCHANGED <<phase, expired, audit, runtime, network>>

\* Mutant: recovery forgets that body bytes may have been sent.
RecoverRowIgnoresBody(r, ph) ==
    [r EXCEPT !.state = IF r.possibly THEN "uncertain" ELSE "deferred"]

RecoverRow(r, ph) ==
    LET unknown == ph = "body" \/ r.possibly
    IN  [r EXCEPT !.state = IF unknown THEN "uncertain" ELSE "deferred",
                  !.possibly = unknown]

RecoverRows(r, S) ==
    [d \in Deliveries |-> IF d \in S THEN RecoverRow(r[d], phase[d]) ELSE r[d]]

\* Mutant: the phase row survives the recovery of its lease.
RecoverPhasesKept(S) == phase

RecoverPhases(S) == [d \in Deliveries |-> IF d \in S THEN "none" ELSE phase[d]]

\* Leased rows with id > recovery_cursor, and a row's place among them.
Scan == {d \in InState(row, {"leased"}) : d > cursor}
Before(d) == Cardinality({e \in Scan : e < d})

\* ORDER BY id LIMIT n.
RecoveryWindow(n) == {d \in Scan : Before(d) < n}

\* active after retain() has dropped the entries whose guard is dead.
Held == active \cap Live

Ownerless(n) == RecoveryWindow(n) \ Held

\* Mutant: the recovery cursor never wraps around.
NextCursorNoWrap(n) ==
    LET last == {d \in Scan : Before(d) = n - 1}
    IN  IF last = {} THEN cursor ELSE CHOOSE d \in last : TRUE

\* The last row of a full window; back to the start after a short one.
NextCursor(n) ==
    LET last == {d \in Scan : Before(d) = n - 1}
    IN  IF last = {} THEN 0 ELSE CHOOSE d \in last : TRUE

\* queue_recover.
RecoverConfirmed ==
    /\ row' = RecoverRows(row, Ownerless(Batch))
    /\ phase' = RecoverPhases(Ownerless(Batch))
    /\ active' = Held
    /\ cursor' = NextCursor(Batch)
    /\ UNCHANGED <<expired, audit, clockChanged, network>>

\* A commit error: the rows changed or not, the cursor never moves.
RecoverUnconfirmed ==
    /\ \/ /\ Ownerless(Batch) # {}
          /\ row' = RecoverRows(row, Ownerless(Batch))
          /\ phase' = RecoverPhases(Ownerless(Batch))
       \/ UNCHANGED table
    /\ active' = Held
    /\ UNCHANGED <<expired, audit, cursor, clockChanged, network>>

-----------------------------------------------------------------------------
(* Claiming                                                                *)

\* Mutant: a row is claimed while a reader of its last attempt is alive.
CandidatesIgnoreGuards(r, gone) ==
    {d \in InState(r, {"pending", "deferred"}) : ~expired[d] /\ d \notin gone}

\* Rows the candidate scan may act on.  A row recovered by this very call is
\* due half an hour later; one whose guard is alive is skipped.
Candidates(r, gone) ==
    {d \in InState(r, {"pending", "deferred"}) :
        ~expired[d] /\ d \notin gone /\ d \notin Held}

\* Mutant: no check of the attempt and generation counters.
NeverExhausted(r, d) == FALSE

Exhausted(r, d) == r[d].generation = MaxCounter

\* Grants within the global and the per-domain slots, counting live guards.
\* A claim takes any of them: which rows are due is the scan's business.
Grants(r, gone) ==
    LET DomainLoad(S, m) == Cardinality({d \in S : DomainOf[d] = m})
    IN  {G \in SUBSET {d \in Candidates(r, gone) : ~Exhausted(r, d)} :
            /\ Cardinality(G) <= Batch
            /\ Cardinality(G) + Cardinality(Held) <= Concurrency
            /\ \A d \in G : DomainLoad(G \cup Held, DomainOf[d]) <= PerDomain}

\* Rows the scan passes whose counter is exhausted; none when no slot is free.
Holds(r, gone) ==
    SUBSET {d \in Candidates(r, gone) :
                Exhausted(r, d) /\ Cardinality(Held) < Concurrency}

ClaimRow(r) == [r EXCEPT !.state = "leased", !.generation = @ + 1]

\* The claim transaction: G leased, H held because a counter is exhausted.
ClaimRows(r, G, H) ==
    [d \in Deliveries |-> CASE d \in G -> ClaimRow(r[d])
                            [] d \in H -> [r[d] EXCEPT !.state = "hold"]
                            [] OTHER   -> r[d]]

\* The last transaction of queue_claim, on rows r left by recovery and expiry.
ClaimCommits(r, gone, G, H) ==
    /\ row' = ClaimRows(r, G, H)
    /\ phase' = [d \in Deliveries |->
                    IF d \in G THEN "ready" ELSE RecoverPhases(gone)[d]]
    /\ consented' = [d \in Deliveries |->
                        IF d \in G /\ asked[d]
                        THEN consented[d] \cup {row[d].generation + 1}
                        ELSE consented[d]]
    /\ asked' = [d \in Deliveries |-> asked[d] /\ d \notin G]

\* One execute task per lease.
Spawn(G) ==
    task' = [d \in Deliveries |-> [g \in Generations |->
                IF d \in G /\ g = row[d].generation + 1 THEN "opening" ELSE task[d][g]]]

\* queue_claim: recovery, expiry, then the claim.  A call that fails earlier
\* has done a Recover or an Expire.  The leases of an unconfirmed claim are
\* dropped inside the call, so its rows have no owner.
Claim ==
    /\ ~clockChanged
    /\ LET gone == Ownerless(Batch)
           recovered == RecoverRows(row, gone)
       IN  \E late \in ExpiryBatches(recovered) :
            LET r == ExpireRows(recovered, late)
            IN  \E G \in Grants(r, gone), H \in Holds(r, gone) :
                    /\ ClaimCommits(r, gone, G, H)
                    /\ \/ Spawn(G) /\ active' = Held \cup G
                       \/ G # {} /\ UNCHANGED task /\ active' = Held
    /\ cursor' = NextCursor(Batch)
    /\ UNCHANGED <<expired, clockChanged, lingering, wire>>

-----------------------------------------------------------------------------
(* The execute task: one network attempt under a lease                     *)

\* queue_open_body; an unreadable blob or a stale lease is answered by Hold.
OpenBody(d, g) ==
    /\ task[d][g] = "opening"
    /\ \/ CheckLease(d, g) /\ Ends(d, g, "dialing")
       \/ Ends(d, g, "Hold")
    /\ UNCHANGED <<table, expired, audit, runtime, lingering, wire>>

\* try_attempt up to the reply to DATA: a rejection, a failure, or 354.
Dial(d, g) ==
    /\ task[d][g] = "dialing"
    /\ \E t \in {"Temporary", "Permanent", "ConnectionLost", "Deferred", "Hold",
                 "marking"} : Ends(d, g, t)
    /\ UNCHANGED <<table, expired, audit, runtime, lingering, wire>>

\* Mutant: the body follows a queue_mark_body whose commit failed.
MarkBodyUnconfirmed(d, g) ==
    /\ task[d][g] = "marking"
    /\ Ends(d, g, "sending")
    /\ UNCHANGED <<table, expired, audit, runtime, lingering, wire>>

\* queue_mark_body: body bytes may follow only a confirmed commit.
MarkBody(d, g) ==
    /\ task[d][g] \in {"marking", "orphan"}
    /\ \/ /\ CheckLease(d, g)
          /\ phase' = [phase EXCEPT ![d] = "body"]
          /\ \/ task[d][g] = "marking" /\ Ends(d, g, "sending")
             \/ task[d][g] = "marking" /\ Ends(d, g, "ConnectionLost")
             \/ task[d][g] = "orphan" /\ Ends(d, g, "none")
       \/ /\ phase' = phase
          /\ \/ task[d][g] = "marking" /\ Ends(d, g, "ConnectionLost")
             \/ task[d][g] = "orphan" /\ Ends(d, g, "none")
    /\ UNCHANGED <<row, expired, audit, runtime, lingering, wire>>

\* send_body, then the final dot after a verified EOF.
FinalDot(d, g) ==
    /\ task[d][g] = "sending"
    /\ Ends(d, g, "dotted")
    /\ wire' = [wire EXCEPT ![d][g] = "dotted"]
    /\ UNCHANGED <<table, expired, audit, runtime, lingering>>

\* The attempt is dropped; a blocking body read in progress keeps its reader.
DropAttempt(d, g, t) ==
    /\ Ends(d, g, t)
    /\ \/ lingering' = lingering
       \/ task[d][g] = "sending" /\ lingering' = [lingering EXCEPT ![d] = @ \cup {g}]

\* A local content failure or a lost connection before the final dot.
BodyFails(d, g) ==
    /\ task[d][g] = "sending"
    /\ DropAttempt(d, g, "Hold") \/ DropAttempt(d, g, "ConnectionLost")
    /\ UNCHANGED <<table, expired, audit, runtime, wire>>

\* The peer decides some time after the dot, even if this host gave up.
RemoteDecides(d, g) ==
    /\ wire[d][g] = "dotted"
    /\ \E w \in {"accepted", "refused"} : wire' = [wire EXCEPT ![d][g] = w]
    /\ UNCHANGED <<table, expired, audit, runtime, task, lingering>>

\* The final reply, or its loss; a code outside 2xx, 4xx and 5xx is a loss.
FinalReply(d, g) ==
    /\ task[d][g] = "dotted"
    /\ \/ wire[d][g] = "accepted" /\ Ends(d, g, "Delivered")
       \/ wire[d][g] = "refused" /\ Ends(d, g, "Temporary")
       \/ wire[d][g] = "refused" /\ Ends(d, g, "Permanent")
       \/ Ends(d, g, "ConnectionLost")
    /\ UNCHANGED <<table, expired, audit, runtime, lingering, wire>>

\* queue_renew fails during the attempt: the attempt is dropped.  A renewal
\* that succeeds only moves lease_until_ms, which nothing reads back.
RenewFails(d, g) ==
    /\ task[d][g] \in {"dialing", "sending", "dotted"}
    /\ DropAttempt(d, g, "ConnectionLost")
    /\ UNCHANGED <<table, expired, audit, runtime, wire>>

\* abort_all at the end of the shutdown grace, or an abandoned attempt.  A
\* request already in the store's channel still runs.
Abort(d, g) ==
    /\ \/ task[d][g] = "marking" /\ DropAttempt(d, g, "orphan")
       \/ /\ task[d][g] \in {"opening", "dialing", "sending", "dotted"}
          /\ DropAttempt(d, g, "none")
    /\ UNCHANGED <<table, expired, audit, runtime, wire>>

ReaderEnds(d, g) ==
    /\ g \in lingering[d]
    /\ lingering' = [lingering EXCEPT ![d] = @ \ {g}]
    /\ UNCHANGED <<table, expired, audit, runtime, task, wire>>

\* Mutant: a connection lost after the final dot is taken for an acceptance.
FinishStateHopeful(result, ph) ==
    CASE result \in {"Delivered", "ConnectionLost"} /\ ph = "body" -> "delivered"
      [] result = "Temporary"                     -> "deferred"
      [] result = "Permanent"                     -> "failed"
      [] result = "ConnectionLost" /\ ph # "body" -> "deferred"
      [] result = "Hold"                          -> "hold"
      [] result = "Deferred" /\ ph = "ready"      -> "deferred"
      [] OTHER                                    -> "leased"

\* The state a result leads to; "leased" where queue_finish refuses it.
FinishState(result, ph) ==
    CASE result = "Delivered" /\ ph = "body"      -> "delivered"
      [] result = "Temporary"                     -> "deferred"
      [] result = "Permanent"                     -> "failed"
      [] result = "ConnectionLost" /\ ph = "body" -> "uncertain"
      [] result = "ConnectionLost" /\ ph # "body" -> "deferred"
      [] result = "Hold"                          -> "hold"
      [] result = "Deferred" /\ ph = "ready"      -> "deferred"
      [] OTHER                                    -> "leased"

\* Mutant: a known result overwrites an earlier unknown one.
FinishRowForgets(r, result, ph) ==
    LET state == FinishState(result, ph)
    IN  [r EXCEPT !.state = state, !.possibly = (state = "uncertain")]

FinishRow(r, result, ph) ==
    LET known == FinishState(result, ph)
        state == IF r.possibly /\ known # "delivered" THEN "uncertain" ELSE known
    IN  [r EXCEPT !.state = state, !.possibly = (state = "uncertain")]

\* queue_finish.  The lease is consumed whatever the commit's outcome.
Finish(d, g) ==
    /\ task[d][g] \in QueueResult
    /\ Ends(d, g, "none")
    /\ \/ /\ CheckLease(d, g)
          /\ FinishState(task[d][g], phase[d]) # "leased"
          /\ row' = [row EXCEPT ![d] = FinishRow(@, task[d][g], phase[d])]
          /\ phase' = [phase EXCEPT ![d] = "none"]
       \/ UNCHANGED table
    /\ UNCHANGED <<expired, audit, runtime, lingering, wire>>

-----------------------------------------------------------------------------
(* The operator                                                            *)

\* Mutant: a hold keeps only the uncertainty visible in the state.
HoldRowByState(r) == [r EXCEPT !.state = "hold", !.possibly = (r.state = "uncertain")]

HoldRow(r) == [r EXCEPT !.state = "hold",
                        !.possibly = r.possibly \/ r.state = "uncertain"]

\* queue_hold.
OperatorHold(d) ==
    /\ row[d].state \in {"pending", "deferred", "uncertain", "hold"}
    /\ ~row[d].closed
    /\ row' = [row EXCEPT ![d] = HoldRow(@)]
    /\ asked' = [asked EXCEPT ![d] = FALSE]
    /\ UNCHANGED <<phase, expired, consented, runtime, network>>

\* Mutant: a failure, which may have been reported, is retried.
RetryFailed(d, allowDuplicate, extendExpired) ==
    /\ row[d].state \in {"deferred", "uncertain", "hold", "failed"}
    /\ ~row[d].closed
    /\ row[d].state \in {"uncertain", "hold"} => allowDuplicate
    /\ expired[d] => extendExpired

\* Mutant: only the state uncertain asks for consent.
RetryHeldFreely(d, allowDuplicate, extendExpired) ==
    /\ row[d].state \in {"deferred", "uncertain", "hold"}
    /\ ~row[d].closed
    /\ row[d].state = "uncertain" => allowDuplicate
    /\ expired[d] => extendExpired

RetryAllowed(d, allowDuplicate, extendExpired) ==
    /\ row[d].state \in {"deferred", "uncertain", "hold"}
    /\ ~row[d].closed
    /\ row[d].state \in {"uncertain", "hold"} => allowDuplicate
    /\ expired[d] => extendExpired

\* queue_retry; its admin event records allow_duplicate.
OperatorRetry(d, allowDuplicate, extendExpired) ==
    /\ ~clockChanged
    /\ RetryAllowed(d, allowDuplicate, extendExpired)
    /\ row' = [row EXCEPT ![d].state = "pending"]
    /\ expired' = [expired EXCEPT ![d] = FALSE]
    /\ asked' = [asked EXCEPT ![d] = allowDuplicate]
    /\ UNCHANGED <<phase, consented, runtime, network>>

\* queue_close_unknown.
OperatorClose(d) ==
    /\ row[d].state \in {"uncertain", "hold"}
    /\ row[d].possibly
    /\ ~row[d].closed
    /\ row' = [row EXCEPT ![d].state = "uncertain", ![d].closed = TRUE]
    /\ asked' = [asked EXCEPT ![d] = FALSE]
    /\ UNCHANGED <<phase, expired, consented, runtime, network>>

-----------------------------------------------------------------------------
(* Time, the clock guard, and crashes                                      *)

\* Rows whose expires_at_ms some operation may still read.
Unsettled ==
    {d \in Deliveries : row[d].state \notin {"absent", "delivered", "failed"} /\ ~row[d].closed}

Expires(d) ==
    /\ d \in Unsettled
    /\ ~expired[d]
    /\ expired' = [expired EXCEPT ![d] = TRUE]
    /\ UNCHANGED <<table, audit, runtime, network>>

\* A discontinuity the next guarded operation notices; sticky until reopen.
ClockJumps ==
    /\ ~clockChanged
    /\ clockChanged' = TRUE
    /\ UNCHANGED <<table, expired, audit, active, cursor, network>>

\* The process dies and the store is opened again: committed rows and the
\* remote's decisions survive, nothing in memory does.  The wall clock may
\* have been corrected while no monotonic reference existed.
Crash ==
    /\ active' = {}
    /\ cursor' = 0
    /\ clockChanged' = FALSE
    /\ task' = [d \in Deliveries |-> [g \in Generations |-> "none"]]
    /\ lingering' = [d \in Deliveries |-> {}]
    /\ \E late \in SUBSET Unsettled :
        expired' = [d \in Deliveries |->
                        IF d \in Unsettled THEN d \in late ELSE expired[d]]
    /\ UNCHANGED <<table, audit, wire>>

-----------------------------------------------------------------------------
Attempt(d, g) ==
    \/ OpenBody(d, g)
    \/ Dial(d, g)
    \/ MarkBody(d, g)
    \/ FinalDot(d, g)
    \/ BodyFails(d, g)
    \/ FinalReply(d, g)
    \/ RenewFails(d, g)
    \/ Finish(d, g)

Operator(d) ==
    \/ OperatorHold(d)
    \/ \E allowDuplicate, extendExpired \in BOOLEAN :
            OperatorRetry(d, allowDuplicate, extendExpired)
    \/ OperatorClose(d)

Next ==
    \/ Expire
    \/ RecoverConfirmed
    \/ RecoverUnconfirmed
    \/ Claim
    \/ ClockJumps
    \/ Crash
    \/ \E d \in Deliveries : Enqueue(d) \/ Operator(d) \/ Expires(d)
    \/ \E d \in Deliveries, g \in Generations :
            Attempt(d, g) \/ RemoteDecides(d, g) \/ Abort(d, g) \/ ReaderEnds(d, g)

Spec == Init /\ [][Next]_vars

\* serve calls queue_claim on a one-second tick; an attempt
\* and a blocking file read end by themselves.  Storage does not fail for ever
\* and the process does not crash for ever.  Nothing is assumed of the peer.
Fairness ==
    /\ WF_vars(Claim)
    /\ \A d \in Deliveries :
        WF_vars(\E g \in Generations : Attempt(d, g) \/ ReaderEnds(d, g))
    /\ <>[][~Crash]_vars

LiveSpec == Spec /\ Fairness

-----------------------------------------------------------------------------
(* Properties                                                              *)

\* The remote may hold the message of attempt g, now or after this host gave up.
MayHave(d, g) == wire[d][g] \in {"dotted", "accepted"}

\* queue_mark_body, queue_recover, queue_finish, queue_retry: once an attempt
\* may have reached the remote, no later attempt may do so as well unless it
\* was claimed under a retry whose audit event carries allow_duplicate.
NoSilentDuplicate ==
    \A d \in Deliveries, g, h \in Generations :
        g < h /\ MayHave(d, g) /\ MayHave(d, h) => h \in consented[d]

\* queue_finish, queue_expire: a row is reported as failed, which triggers a
\* failure notice to the sender, only if no attempt may have been accepted.
FailedMeansNotAccepted ==
    \A d \in Deliveries, g \in Generations :
        row[d].state = "failed" => ~MayHave(d, g)

\* possibly_delivered and the body phase: whatever crash, lost commit or
\* aborted task intervenes, the tables remember every attempt that may have
\* been accepted.
AcceptanceRemembered ==
    \A d \in Deliveries, g \in Generations :
        MayHave(d, g) =>
            \/ row[d].possibly
            \/ row[d].state = "delivered"
            \/ row[d].state = "leased" /\ row[d].generation = g /\ phase[d] = "body"

\* LeaseGuard: a lease or a body reader that still exists is the only one of
\* its delivery, and a task that still holds its lease owns the leased row, so
\* its queue_finish is never refused as stale.
SingleOwner ==
    \A d \in Deliveries, g \in Generations :
        /\ task[d][g] # "none" => CheckLease(d, g)
        /\ task[d][g] # "none" \/ g \in lingering[d] =>
            /\ d \in active
            /\ \A h \in Generations \ {g} :
                task[d][h] = "none" /\ h \notin lingering[d]

\* queue_claim: leases and lingering readers together stay within
\* concurrency, and within per_domain for each destination.
SlotsRespected ==
    /\ Cardinality(Live) <= Concurrency
    /\ \A d \in Live : Cardinality({e \in Live : DomainOf[e] = DomainOf[d]}) <= PerDomain

\* queue_integrity_mismatches is zero after every commit, so that a crash at
\* any point leaves a store whose integrity check passes.
QueueIntegrity ==
    \A d \in Deliveries :
        /\ (row[d].state = "leased") = (phase[d] # "none")
        /\ row[d].closed => row[d].state = "uncertain" /\ row[d].possibly
        /\ row[d].state = "failed" => ~row[d].possibly

\* Only a confirmed remote acceptance clears possibly_delivered.
UncertaintyKept ==
    [][\A d \in Deliveries :
        row[d].possibly /\ ~row'[d].possibly => row'[d].state = "delivered"]_vars

\* A delivered, failed or closed row never changes again.
TerminalRowsFrozen ==
    [][\A d \in Deliveries :
        row[d].state \in {"delivered", "failed"} \/ row[d].closed => row'[d] = row[d]]_vars

\* serve and queue_recover: every lease is resolved, by its own task or by the
\* bounded recovery scan, unless the clock guard has stopped scheduling.
LeasesResolve ==
    \A d \in Deliveries :
        row[d].state = "leased" ~> row[d].state # "leased" \/ clockChanged

-----------------------------------------------------------------------------
(* The inductive invariant                                                 *)

\* possibly_delivered by state, and the consent a possible duplicate needs:
\* a pending row has it from the retry, a leased one from its claim.
FlagsConsistent ==
    \A d \in Deliveries :
        /\ row[d].state = "uncertain" => row[d].possibly
        /\ row[d].state \in {"absent", "deferred", "failed", "delivered"} => ~row[d].possibly
        /\ row[d].closed => row[d].state = "uncertain"
        /\ (row[d].state = "leased") = (phase[d] # "none")
        /\ row[d].possibly /\ row[d].state = "pending" => asked[d]
        /\ row[d].possibly /\ row[d].state = "leased" => row[d].generation \in consented[d]

\* What the wire may show for each step of a task: nothing before the final
\* dot, and the final dot only under a durable body phase.
WireFollowsTask ==
    \A d \in Deliveries, g \in Generations :
        /\ wire[d][g] # "idle" =>
            /\ g <= row[d].generation
            /\ g = row[d].generation /\ row[d].state = "leased" => phase[d] = "body"
        /\ task[d][g] \in {"sending", "dotted"} => phase[d] = "body"
        /\ task[d][g] \in {"opening", "dialing", "marking", "orphan", "sending", "Hold",
                           "Deferred"} => wire[d][g] = "idle"
        /\ task[d][g] \in {"Temporary", "Permanent"} => wire[d][g] \in {"idle", "refused"}
        /\ task[d][g] = "Delivered" => wire[d][g] = "accepted"

\* The facts of one attempt that together survive every step of every actor.
Inv ==
    /\ TypeOK
    /\ FlagsConsistent
    /\ WireFollowsTask
    /\ SingleOwner
    /\ AcceptanceRemembered
    /\ NoSilentDuplicate
=============================================================================
