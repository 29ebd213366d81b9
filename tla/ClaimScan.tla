------------------------------ MODULE ClaimScan ------------------------------
(***************************************************************************)
(* Which relay rows a claim takes: the bounded scan of the index           *)
(* queue_ready with its cursor, the slot limits, and expiry by an index of *)
(* its own.  What becomes of a lease on the network is modelled in Queue;  *)
(* here an attempt only ends, and its body reader may outlive it.          *)
(*                                                                         *)
(* An index orders rows by a time and then by id, and of the times only    *)
(* the order and the place of "now" in it matter.  So an index is an order *)
(* of rows, that is a function: the rows ahead of each row.  In            *)
(* queue_ready the waiting rows are in the order of their due time; some   *)
(* rows at its start are due, and some of these lie behind the cursor,     *)
(* none if there is no cursor.  Rows due in the same millisecond are       *)
(* ordered by arrival.  An id may come back: as a new row, or as a row     *)
(* that an operator sends again.                                           *)
(***************************************************************************)
EXTENDS Naturals, FiniteSets

CONSTANTS
    Rows,         \* ids of relay rows; numbers, ordered as the ids are
    DomainOf,     \* destination domain of each row
    Mortal,       \* rows whose lifetime may run out; a bound of the model
    Concurrency,  \* QueuePolicy.concurrency
    PerDomain,    \* QueuePolicy.per_domain
    Limit,        \* delivery.batch_size: rows one tick may expire or claim
    Window        \* BATCH: rows one scan may look at

ASSUME ClaimScanAssumption ==
    /\ Rows \subseteq Nat /\ IsFiniteSet(Rows)
    /\ Mortal \subseteq Rows
    /\ Concurrency \in Nat \ {0}
    /\ PerDomain \in 1..Concurrency
    /\ Window \in Nat \ {0}
    /\ Limit \in 1..Window

VARIABLES
    ready,     \* index queue_ready: its order, the due rows, those passed
    late,      \* index queue_expiry: the rows with expires_at_ms <= now
    leased,    \* rows in state leased
    tasks,     \* rows whose execute task runs
    guards,    \* QueueRuntime.active: rows whose LeaseGuard is alive
    tick,      \* the store call the relay loop makes next
    owed,      \* history: rows due when the sweep began, not examined since
    caughtUp   \* history: the last scan ran out of due rows

history == <<owed, caughtUp>>
scanVars == <<ready, late, leased, tasks, guards, tick, history>>

-----------------------------------------------------------------------------
(* Orders                                                                  *)

IsOrder(ahead) ==
    \A d \in DOMAIN ahead :
        /\ d \notin ahead[d] /\ ahead[d] \subseteq DOMAIN ahead
        /\ \A e \in ahead[d] : ahead[e] \subseteq ahead[d]
        /\ \A e \in DOMAIN ahead : e = d \/ e \in ahead[d] \/ d \in ahead[e]

\* A set of rows at the start of the order.
IsStart(ahead, S) ==
    S \subseteq DOMAIN ahead /\ \A d \in S : ahead[d] \subseteq S

\* The rows of the order up to the last one of S.
UpTo(ahead, S) == S \cup UNION {ahead[d] : d \in S}

\* The first n rows of S.
First(ahead, S, n) == {d \in S : Cardinality(ahead[d] \cap S) < n}

Drop(ahead, S) == [d \in DOMAIN ahead \ S |-> ahead[d] \ S]

\* The rows S enter, in the order of their ids, behind the rows of front.
Put(ahead, front, S) ==
    [d \in DOMAIN ahead \cup S |->
        IF d \in S THEN front \cup {e \in S : e < d}
        ELSE IF d \in front THEN ahead[d]
        ELSE ahead[d] \cup S]

-----------------------------------------------------------------------------
(* queue_ready                                                             *)

Waiting(ix) == DOMAIN ix.ahead

Load(S, x) == Cardinality({d \in S : DomainOf[d] = x})

\* The rows of S leave the index.
Without(ix, S) ==
    [ahead |-> Drop(ix.ahead, S), due |-> ix.due \ S, passed |-> ix.passed \ S]

\* The rows S enter the index behind some rows that include the due ones.
With(ix, front, S) == [ix EXCEPT !.ahead = Put(@, front, S)]

Fronts(ix) == {front \in SUBSET Waiting(ix) : ix.due \subseteq front /\ IsStart(ix.ahead, front)}

IsIndex(ix) ==
    /\ ix = [ahead |-> ix.ahead, due |-> ix.due, passed |-> ix.passed]
    /\ IsOrder(ix.ahead) /\ Waiting(ix) \subseteq Rows
    /\ IsStart(ix.ahead, ix.due)
    /\ IsStart(ix.ahead, ix.passed) /\ ix.passed \subseteq ix.due

ScanTypeOK ==
    /\ IsIndex(ready)
    /\ IsOrder(late) /\ DOMAIN late \subseteq Rows
    /\ leased \subseteq Rows \ Waiting(ready)
    /\ tasks \subseteq leased \cap guards
    /\ guards \subseteq Rows
    /\ tick \in {"expire", "claim"}
    /\ owed \subseteq Rows
    /\ caughtUp \in BOOLEAN

ScanInit ==
    /\ ready = [ahead |-> [d \in {} |-> {}], due |-> {}, passed |-> {}]
    /\ late = [d \in {} |-> {}]
    /\ leased = {} /\ tasks = {} /\ guards = {}
    /\ tick = "expire"
    /\ owed = {}
    /\ caughtUp = TRUE

-----------------------------------------------------------------------------
(* Rows and time                                                           *)

\* insert_relay, or queue_retry of a row that was held or uncertain: due now.
Enters(d) ==
    /\ d \notin Waiting(ready) \cup leased
    /\ ready' = [With(ready, ready.due, {d}) EXCEPT !.due = @ \cup {d}]
    /\ late' = Drop(late, {d})
    /\ UNCHANGED <<leased, tasks, guards, tick, history>>

\* queue_hold by an operator.
Held(d) ==
    /\ d \in Waiting(ready)
    /\ ready' = Without(ready, {d})
    /\ UNCHANGED <<late, leased, tasks, guards, tick, history>>

\* The next backoff has elapsed.
Elapses(d) ==
    /\ d \in Waiting(ready) \ ready.due
    /\ ready.ahead[d] \subseteq ready.due
    /\ ready' = [ready EXCEPT !.due = @ \cup {d}]
    /\ UNCHANGED <<late, leased, tasks, guards, tick, history>>

Expires(d) ==
    /\ d \in Mortal \ DOMAIN late
    /\ d \in Waiting(ready) \cup leased
    /\ late' = Put(late, DOMAIN late, {d})
    /\ UNCHANGED <<ready, leased, tasks, guards, tick, history>>

-----------------------------------------------------------------------------
(* The attempts                                                            *)

\* queue_finish settles the row or defers it by some backoff, or fails and
\* leaves it leased; a blocking read may hold the guard a little longer.
AttemptEnds(d) ==
    /\ d \in tasks
    /\ tasks' = tasks \ {d}
    /\ guards' \in {guards, guards \ {d}}
    /\ \/ leased' = leased \ {d} /\ ready' = ready
       \/ /\ leased' = leased \ {d}
          /\ \E front \in Fronts(ready) : ready' = With(ready, front, {d})
       \/ UNCHANGED <<leased, ready>>
    /\ UNCHANGED <<late, tick, history>>

ReaderEnds(d) ==
    /\ d \in guards \ tasks
    /\ guards' = guards \ {d}
    /\ UNCHANGED <<ready, late, leased, tasks, tick, history>>

-----------------------------------------------------------------------------
(* The tick of the relay loop                                              *)

\* queue_expire: the rows it fails, those that expired first.
ExpiryBatch(ix, limit) == First(late, DOMAIN late \cap Waiting(ix), limit)

\* Mutant: expiry waits for a network slot like the claim.
TickExpiresWithSlot ==
    /\ tick = "expire"
    /\ tick' = "claim"
    /\ ready' = IF Cardinality(tasks) < Concurrency
                THEN Without(ready, ExpiryBatch(ready, Limit)) ELSE ready
    /\ UNCHANGED <<late, leased, tasks, guards, history>>

\* The first store call of a tick.
TickExpires ==
    /\ tick = "expire"
    /\ tick' = "claim"
    /\ ready' = Without(ready, ExpiryBatch(ready, Limit))
    /\ UNCHANGED <<late, leased, tasks, guards, history>>

\* queue_recover: ownerless leases become uncertain, or wait half an hour.  Its
\* own window and cursor are modelled in Queue.
Recovers(ix) ==
    {With(ix, front, S) : front \in Fronts(ix), S \in SUBSET (leased \ guards)}

\* The candidates: due rows behind the cursor, at most Window.
Candidates(ix) == First(ix.ahead, ix.due \ ix.passed, Window)

\* Mutant: the load of a domain is counted before the loop only.
MayGrantCountedOnce(d, before, available) ==
    /\ d \notin guards \cup DOMAIN late
    /\ Load(guards, DomainOf[d]) < PerDomain
    /\ Cardinality(before) < available

\* A step of the loop: no grant to a row whose guard is still alive, that is
\* past its expiry, or whose domain is at its limit with the rows granted before.
MayGrant(d, before, available) ==
    /\ d \notin guards \cup DOMAIN late
    /\ Load(guards \cup before, DomainOf[d]) < PerDomain
    /\ Cardinality(before) < available

\* What the loop grants as it goes through the candidates cs in their order.
Grants(ix, cs, granted, available) ==
    \A d \in cs : d \in granted <=> MayGrant(d, granted \cap ix.ahead[d], available)

\* The candidates it examines: it stops when the last slot is filled.
Examined(ix, cs, granted, available) ==
    IF Cardinality(granted) = available THEN cs \cap UpTo(ix.ahead, granted) ELSE cs

\* The scan found fewer rows than it could and examined them all.
RanOut(cs, seen) == Cardinality(cs) < Window /\ seen = cs

\* Mutants: the cursor is never taken back, or it is moved past the whole batch.
NextPassedNoWrap(ix, cs, seen) == ix.passed \cup UpTo(ix.ahead, seen)
NextPassedWholeBatch(ix, cs, seen) ==
    IF Cardinality(cs) < Window THEN {} ELSE UpTo(ix.ahead, cs)

\* The cursor is the last row examined, or goes back to the start.
NextPassed(ix, cs, seen) ==
    IF RanOut(cs, seen) THEN {} ELSE UpTo(ix.ahead, seen)

Moved(ix, passed) == [ix EXCEPT !.passed = passed]

\* The rest of queue_claim once slots are free.
Scan(ix, available) ==
    LET cs == Candidates(ix)
    IN  \E granted \in SUBSET cs :
            LET seen   == Examined(ix, cs, granted, available)
                passed == NextPassed(ix, cs, seen)
            IN  /\ Grants(ix, cs, granted, available)
                /\ ready' = Without(Moved(ix, passed), granted)
                /\ leased' = (leased \cap guards) \cup granted
                /\ tasks' = tasks \cup granted
                /\ guards' = guards \cup granted
                /\ caughtUp' = RanOut(cs, seen)
                /\ owed' = IF passed = {} THEN ix.due \ granted ELSE owed \ seen

Available ==
    LET free == Concurrency - Cardinality(guards)
    IN  IF free < Limit THEN free ELSE Limit

\* The second call, unless every task slot is taken: queue_claim recovers,
\* expires and scans.
TickClaims ==
    /\ tick = "claim"
    /\ tick' = "expire"
    /\ Cardinality(tasks) < Concurrency
    /\ \E recovered \in Recovers(ready) :
          LET ix == Without(recovered, ExpiryBatch(recovered, Window))
          IN  IF Available > 0
              THEN Scan(ix, Available)
              ELSE /\ ready' = ix
                   /\ leased' = leased \cap guards
                   /\ UNCHANGED <<tasks, guards, caughtUp, owed>>
    /\ UNCHANGED late

TickIdles ==
    /\ tick = "claim"
    /\ tick' = "expire"
    /\ Cardinality(tasks) >= Concurrency
    /\ UNCHANGED <<ready, late, leased, tasks, guards, history>>

-----------------------------------------------------------------------------
ScanNext ==
    \/ \E d \in Rows : \/ Enters(d) \/ Held(d) \/ Elapses(d) \/ Expires(d)
                       \/ AttemptEnds(d) \/ ReaderEnds(d)
    \/ TickExpires
    \/ TickClaims
    \/ TickIdles

\* The interval keeps ticking: whatever the loop does next is always possible,
\* so this is weak fairness of its steps.  Nothing is assumed of the network.
ScanFairness == []<>(tick = "expire") /\ []<>(tick = "claim")

ScanSpec == ScanInit /\ [][ScanNext]_scanVars /\ ScanFairness

-----------------------------------------------------------------------------
(* Properties                                                              *)

\* queue_claim: readers that outlive their attempt, rows recovered in the same
\* call and several rows of one domain in one batch included, the live guards
\* stay within concurrency and per_domain.
SlotsRespected ==
    /\ Cardinality(guards) <= Concurrency
    /\ \A d \in Rows : Load(guards, DomainOf[d]) <= PerDomain

\* queue_claim and ready_cursor: the index and its cursor keep their shape, the
\* slots are respected, and a row that was due when the sweep began is not left
\* behind the cursor unexamined, whatever is claimed, expired, held or inserted
\* meanwhile.
ScanSound ==
    /\ ScanTypeOK
    /\ SlotsRespected
    /\ owed \cap ready.passed = {}

Serveable == ready.due \ DOMAIN late

Saturated(x) == Load(guards, x) >= PerDomain

\* docs/17-m4-durable-queue.md: behind the last row the scan starts again, so
\* that rows it skipped get their turn.  As long as attempts end and the scan
\* runs out of due rows now and then, only a domain at its limit delays a due row;
\* the backlog of another domain, though longer than a batch, does not.
DueRowsServed ==
    (\A d \in Rows : []<>(d \notin guards)) /\ []<>caughtUp =>
        \A d \in Rows : d \in Serveable ~> d \notin Serveable \/ Saturated(DomainOf[d])

Overdue == DOMAIN late \cap Waiting(ready)

\* serve: expiry is independent of network slots and of the due cursor; a late
\* row leaves the queue even if every attempt hangs and its backoff is long.
LateRowsSettle ==
    \A d \in Rows : d \in Overdue ~> d \notin Overdue
=============================================================================
