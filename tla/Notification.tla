---------------------------- MODULE Notification ----------------------------
(***************************************************************************)
(* The outbox of failure reports: a relay row that ends as failed stays    *)
(* pending until one report has been committed or reporting is suppressed. *)
(* A report is a message of its own, put into a local mailbox or queued    *)
(* for relay, and the relay of a report can fail in its turn.              *)
(*                                                                         *)
(* The index queue_notification orders the pending failures by due time.   *)
(* Of the times only the order and the place of "now" in it matter, so the *)
(* index is a sequence whose first "ready" entries are due.  The clock     *)
(* guard keeps time from going back within a process; a restart may find   *)
(* it anywhere.                                                            *)
(***************************************************************************)
EXTENDS Integers, Sequences, SequencesExt

CONSTANTS
    N,        \* relay rows that are not reports: 1..N
    Source,   \* message.source of each of them: "submission" or "import"
    Local,    \* those whose sender has a mailbox here
    MaxRoom   \* bound on the free quota of that mailbox, counted in reports

ASSUME NotificationAssumption ==
    /\ N \in Nat \ {0}
    /\ Source \in [1..N -> {"submission", "import"}]
    /\ Local \subseteq 1..N
    /\ MaxRoom \in Nat

VARIABLES
    state,        \* delivery.state, as far as reports look at it
    notice,       \* delivery.notification_state
    linked,       \* delivery ids in the notification table
    outbox,       \* index queue_notification
    ready,        \* how many entries of it are due
    room,         \* quota_bytes - used_bytes of the senders' mailbox
    task,         \* the notice task: its step and delivery
    clockChanged, \* QueueRuntime.clock_changed
    inserted      \* history: reports ever inserted for each delivery

vars == <<state, notice, linked, outbox, ready, room, task, clockChanged, inserted>>

-----------------------------------------------------------------------------
\* A report of 1..N has an id in N+1..2N; a report of a report would have one
\* beyond.
Ids == 1..(3 * N)
ReportOf(d) == d + N

Idle == [step |-> "idle", id |-> 0]

\* "orphan": the task was aborted with its commit in the store's channel.
Task == [step : {"idle", "preparing", "committing", "orphan", "failing"},
         id : Ids \cup {0}]

\* Every pending failure is in the index, once.
TypeOK ==
    /\ state \in [Ids -> {"absent", "waiting", "failed", "settled"}]
    /\ notice \in [Ids -> {"pending", "created", "suppressed"}]
    /\ linked \subseteq Ids
    /\ outbox \in Seq(Ids) /\ IsInjective(outbox)
    /\ ToSet(outbox) = {d \in Ids : state[d] = "failed" /\ notice[d] = "pending"}
    /\ ready \in 0..Len(outbox)
    /\ room \in 0..MaxRoom
    /\ task \in Task
    /\ clockChanged \in BOOLEAN
    /\ inserted \in [Ids -> Nat]

Init ==
    /\ state = [d \in Ids |-> IF d <= N THEN "waiting" ELSE "absent"]
    /\ notice = [d \in Ids |-> "pending"]
    /\ linked = {}
    /\ outbox = <<>>
    /\ ready = 0
    /\ room \in 0..MaxRoom
    /\ task = Idle
    /\ clockChanged = FALSE
    /\ inserted = [d \in Ids |-> 0]

-----------------------------------------------------------------------------
(* The relay queue, reduced to what the outbox sees of it                  *)

\* Expiry or a permanent rejection.  The row is due at once, behind the due
\* rows but for ties within a millisecond.
Fails(d) ==
    /\ state[d] = "waiting"
    /\ state' = [state EXCEPT ![d] = "failed"]
    /\ \E p \in 1..(ready + 1) : outbox' = InsertAt(outbox, p, d)
    /\ ready' = ready + 1
    /\ UNCHANGED <<notice, linked, room, task, clockChanged, inserted>>

\* Any other end of the delivery.
Settles(d) ==
    /\ state[d] = "waiting"
    /\ state' = [state EXCEPT ![d] = "settled"]
    /\ UNCHANGED <<notice, linked, outbox, ready, room, task, clockChanged, inserted>>

-----------------------------------------------------------------------------
(* Choosing the next failure                                               *)

MessageSource(d) == IF d <= N THEN Source[d] ELSE "dsn"

\* Mutant: a failed report is reported to its own recipient.
ReportableAlways(d) == TRUE

\* An authenticated submission; a report has the null reverse path.
Reportable(d) == MessageSource(d) = "submission"

\* The row leaves the index: it is created or suppressed.
Leave(d) ==
    \E i \in 1..Len(outbox) :
        /\ outbox[i] = d
        /\ outbox' = RemoveAt(outbox, i)
        /\ ready' = IF i <= ready THEN ready - 1 ELSE ready

\* Mutant: a failed report keeps its due time.
PostponeInPlace(d) == UNCHANGED <<outbox, ready>>

\* notification_due_ms = now + RETRY_MS: behind every row that is due.
Postpone(d) ==
    \E i \in 1..Len(outbox) :
        /\ outbox[i] = d
        /\ ready' = IF i <= ready THEN ready - 1 ELSE ready
        /\ \E p \in (ready' + 1)..Len(outbox) :
               outbox' = InsertAt(RemoveAt(outbox, i), p, d)

\* Mutant: the update is not conditional on the notice being pending.
NotificationFailedAlways(d) ==
    /\ notice' = [notice EXCEPT ![d] = "pending"]
    /\ IF notice[d] = "pending"
       THEN Postpone(d)
       ELSE outbox' = Append(outbox, d) /\ ready' = ready

\* notification_failed: a row whose report turns out to exist is left alone.
NotificationFailed(d) ==
    /\ notice' = notice
    /\ IF ~clockChanged /\ state[d] = "failed" /\ notice[d] = "pending"
       THEN Postpone(d)
       ELSE UNCHANGED <<outbox, ready>>

\* Quota of a local mailbox, read by preflight and again by deliver.
Fits(d) == d \in Local => room > 0

\* A storage error inside the call: the row is postponed, in the same call.
StageFails ==
    /\ task = Idle
    /\ ~clockChanged
    /\ ready > 0
    /\ Reportable(outbox[1])
    /\ NotificationFailed(outbox[1])
    /\ UNCHANGED <<state, linked, room, task, clockChanged, inserted>>

\* notification_next takes the first due row; preflight refuses a full mailbox.
NotificationNext ==
    /\ task = Idle
    /\ ~clockChanged
    /\ ready > 0
    /\ LET d == outbox[1]
       IN  \/ /\ ~Reportable(d)
              /\ notice' = [notice EXCEPT ![d] = "suppressed"]
              /\ Leave(d)
              /\ task' = task
           \/ /\ Reportable(d)
              /\ Fits(d)
              /\ task' = [step |-> "preparing", id |-> d]
              /\ UNCHANGED <<notice, outbox, ready>>
           \/ /\ Reportable(d)
              /\ ~Fits(d)
              /\ NotificationFailed(d)
              /\ task' = task
    /\ UNCHANGED <<state, linked, room, clockChanged, inserted>>

-----------------------------------------------------------------------------
(* The notice task                                                         *)

\* prepare: the blob of the report becomes durable, or the error is passed on.
Prepare(next) ==
    /\ task.step = "preparing"
    /\ task' = [task EXCEPT !.step = next]
    /\ UNCHANGED <<state, notice, linked, outbox, ready, room, clockChanged, inserted>>

\* deliver, for a local sender: the quota is read in the transaction.
Deliver(d) ==
    /\ Fits(d)
    /\ room' = IF d \in Local THEN room - 1 ELSE room

\* insert_relay, for any other sender.
Relays(d) == IF d \in Local THEN state ELSE [state EXCEPT ![ReportOf(d)] = "waiting"]

\* What the transaction of notification_commit requires and does.
Eligible(d) ==
    /\ ~clockChanged
    /\ state[d] = "failed"
    /\ notice[d] = "pending"
    /\ Reportable(d)

Insert(d) ==
    /\ Eligible(d)
    /\ Deliver(d)
    /\ state' = Relays(d)
    /\ linked' = linked \cup {d}
    /\ notice' = [notice EXCEPT ![d] = "created"]
    /\ inserted' = [inserted EXCEPT ![d] = @ + 1]
    /\ Leave(d)

\* The step after a commit that returned an error; nobody reads an orphan's.
AfterError == IF task.step = "orphan" THEN Idle ELSE [task EXCEPT !.step = "failing"]

\* notification_commit: the report exists already, is inserted, or is refused.
Commit ==
    /\ task.step \in {"committing", "orphan"}
    /\ \/ /\ ~clockChanged
          /\ task.id \in linked
          /\ task' = Idle
          /\ UNCHANGED <<state, notice, linked, outbox, ready, room, inserted>>
       \/ /\ task.id \notin linked
          /\ Insert(task.id)
          /\ task' = Idle
       \/ /\ clockChanged \/ task.id \notin linked
          /\ ~(Eligible(task.id) /\ Fits(task.id))
          /\ task' = AfterError
          /\ UNCHANGED <<state, notice, linked, outbox, ready, room, inserted>>
    /\ clockChanged' = clockChanged

\* An error of the commit itself: the report is inserted or it is not.
CommitFails ==
    /\ task.step \in {"committing", "orphan"}
    /\ task' = AfterError
    /\ \/ task.id \notin linked /\ Insert(task.id)
       \/ UNCHANGED <<state, notice, linked, outbox, ready, room, inserted>>
    /\ clockChanged' = clockChanged

\* notify_failure hands the error to notification_failed, whose own error is
\* ignored.
Failing ==
    /\ task.step = "failing"
    /\ NotificationFailed(task.id)
    /\ task' = Idle
    /\ UNCHANGED <<state, linked, room, clockChanged, inserted>>

FailingLost ==
    /\ task.step = "failing"
    /\ task' = Idle
    /\ UNCHANGED <<state, notice, linked, outbox, ready, room, clockChanged, inserted>>

\* notices.abort_all; a request in the store's channel still runs.
Abort ==
    /\ \/ task.step = "preparing" /\ task' = Idle
       \/ task.step = "committing" /\ task' = [task EXCEPT !.step = "orphan"]
    /\ UNCHANGED <<state, notice, linked, outbox, ready, room, clockChanged, inserted>>

-----------------------------------------------------------------------------
(* Surroundings                                                            *)

\* A backoff ends.
TimePasses ==
    /\ ready < Len(outbox)
    /\ ready' = ready + 1
    /\ UNCHANGED <<state, notice, linked, outbox, room, task, clockChanged, inserted>>

\* Other mail arrives in the mailbox, or its quota is changed.
RoomChanges ==
    /\ \E r \in (0..MaxRoom) \ {room} : room' = r
    /\ UNCHANGED <<state, notice, linked, outbox, ready, task, clockChanged, inserted>>

ClockJumps ==
    /\ ~clockChanged
    /\ clockChanged' = TRUE
    /\ UNCHANGED <<state, notice, linked, outbox, ready, room, task, inserted>>

\* The process dies and the store is reopened, at whatever the clock says then.
Crash ==
    /\ task' = Idle
    /\ clockChanged' = FALSE
    /\ ready' \in 0..Len(outbox)
    /\ UNCHANGED <<state, notice, linked, outbox, room, inserted>>

-----------------------------------------------------------------------------
NoticeStep == Prepare("committing") \/ Commit \/ Failing

StorageError == StageFails \/ Prepare("failing") \/ CommitFails \/ FailingLost

Next ==
    \/ NotificationNext
    \/ NoticeStep
    \/ StorageError
    \/ Abort
    \/ TimePasses
    \/ RoomChanges
    \/ ClockJumps
    \/ Crash
    \/ \E d \in Ids : Fails(d) \/ Settles(d)

Spec == Init /\ [][Next]_vars

\* serve starts a notice task on every tick while none runs, file and store
\* calls return, and backoffs end.  Disk and database errors, crashes and
\* shutdowns are finitely many.  Nothing is assumed of the mailbox.
Fairness ==
    /\ WF_vars(NotificationNext)
    /\ WF_vars(NoticeStep)
    /\ WF_vars(TimePasses)
    /\ <>[][~StorageError /\ ~Crash /\ ~Abort]_vars

LiveSpec == Spec /\ Fairness

-----------------------------------------------------------------------------
(* Properties                                                              *)

\* notification_commit, notification_failed: whatever commit outcome was lost
\* and however often the task was retried, a failure has one report if it is
\* created and none otherwise, and the notification table agrees, which is the
\* notification part of the integrity check.
OneReport ==
    \A d \in Ids : /\ (notice[d] = "created") = (d \in linked)
                   /\ inserted[d] = (IF notice[d] = "created" THEN 1 ELSE 0)

\* notification_next: the failure of a report is never reported, so reports do
\* not multiply.
NoReportOfReport == \A d \in Ids : d > N => inserted[d] = 0

\* notification_next, notification_failed: every failure is reported or
\* suppressed at last.  A report that a full mailbox keeps rejecting delays only
\* itself; a stopped clock guard delays all.
ReportsHappen ==
    \A d \in Ids :
        state[d] = "failed" ~>
            notice[d] # "pending" \/ clockChanged \/ (d \in Local /\ room = 0)
=============================================================================
