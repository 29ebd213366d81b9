# A verification of rustymail in TLA+

rustymail is a mail server in Rust.  It accepts mail over SMTP, stores it in one
SQLite database and a directory of blobs, delivers to local mailboxes, relays
submitted mail through an upstream server, and reports failures to the sender.
This directory models the parts of it whose correctness depends on
the order of events.  TLC checks the models on small instances and TLAPS proves
the main results for every value of the constants.

## 1. The system

| part | source (under `src/crates`) | state | who changes it |
|---|---|---|---|
| relay queue | `store/src/queue.rs`, `store/schema.sql` | `delivery`, `queue_lease`, `queue_admin_event` rows; in memory the active guards, the recovery and ready cursors, the clock guard | scheduler, execute tasks, operator |
| relay scheduler | `server/src/relay.rs` | the running execute and notice tasks | one loop with a one-second tick |
| outbound SMTP client | `client/src/smtp.rs` | one connection per attempt, a body pump | an execute task |
| failure notices | `store/src/notification.rs` | `notification_state`, `notification_due_ms`, `notification` rows | one notice task at a time |
| message store | `store/src/blob.rs`, `lib.rs`, `maintenance.rs` | staging and blob files, blob/message/mailbox rows, the byte reservation | SMTP sessions, notice task, maintenance |
| identity | `store/src/identity.rs` | accounts, credentials, auth epochs | administrator |
| authentication | `server/src/auth.rs`, `auth_dialog.rs` | permits, rate tables | SMTP sessions |
| revocation | `server/src/revocation.rs`, `worker.rs` | a watch channel, one pending flag per session | administrator, sessions |
| SMTP input | `protocol/src`, `server/src/lib.rs` | line decoder, session state, envelope | one task per connection |
| admission and shutdown | `server/src/lib.rs` (`serve_until`) | semaphores, connections per address, the set of session tasks | listeners, sessions |
| administration | `server/src/admin.rs`, `server/src/cli` | none of its own | operator |

All SQL runs on the one thread that owns the store (`worker.rs`), fed by a
bounded FIFO channel, so a store operation is atomic and operations never
overlap.  Everything else does: a task reads, awaits and writes
later, its caller can be cancelled while its request is still in the channel,
file jobs run on other threads and outlive the tasks that started them, and a
commit can be durable although it reported an error.  Only the process that
holds `instance.lock` touches a store, so a second process exists only after the
first one has died.

What makes this hard to test, and what the models put into every order:

* a process or a machine that stops between any two steps, with directory changes
  that may or may not have reached the disk;
* commits whose outcome is unknown, and the retry of what was already done;
* a remote server that decides after this host has given up on it;
* requests of cancelled callers that still run, and file jobs that outlive
  their owner;
* authority that is looked up, changes, and is then used;
* clients that send commands before they have the replies to earlier ones;
* a wall clock that is set while lifetimes and due times depend on it;
* input that is cut into reads anywhere, and files that change under their reader;
* limits (slots, permits, reservations, quota, counters, batches) at their edge.

`PROJECT.json` lists each such hazard at the line where it bites, with the properties
that cover it.

## 2. The modules

| module | extends | models |
|---|---|---|
| `Queue` | | relay rows, leases, attempts and what the remote holds |
| `Responsibility`, `QueueRefinement` | `Queue` | what the relay promises, and Queue as its implementation |
| `ClaimScan` | | which rows a claim takes: due index, cursor, slots, expiry |
| `QueueClock` | | the clock guard and what is decided by time |
| `Notification` | | the outbox of failure reports |
| `MessageStore` | | files, jobs, reservations, collection, recovery of a file |
| `Acceptance` | | the transaction that accepts: mailboxes, quotas, relay rows, keys |
| `Revocation` | | changes of authority against the sessions that hold it |
| `Session` | | the command loop of one SMTP connection |
| `Framing` | | decoder, transparency, header filter, author check, `prepare`, as operators |
| `Transfer` | `Framing` | one attempt of the client against the reception of DATA |
| `Rates` | | the tables of authentication attempts, as operators |
| `Admission` | `Rates` | permits of all sessions, the tables in use, shutdown |
| `*Proofs` | the modules proved about | theorems and their proofs (section 4) |
| `MC*` | the module checked | values of constants for TLC |

The modules meet where the code's components do: `Queue` composes scheduler, task,
store and remote; `Transfer` composes client and server; `Admission` composes
listeners, sessions, authentication jobs and shutdown; `MessageStore` composes
sessions, file jobs, the store thread and maintenance.  What one module leaves open,
another fixes: the results that `Transfer` derives from replies are the results a
task of `Queue` may record, and the time that `Queue` leaves abstract is the subject of
`ClaimScan` and `QueueClock`.

### Queue

`Queue.tla` models the relay queue, the execute task of each lease and what the
remote server holds.  One action is one store operation or one step of a task
between two of them.

| state in the model | in the code |
|---|---|
| `row[d]` | the `delivery` row: `state`, `possibly_delivered`, `closed_at_ms`, `generation` |
| `phase[d]` | the `queue_lease` row, `"none"` without one |
| `asked[d]`, `consented[d]` | `allow_duplicate` of the newest admin event since a claim; generations claimed under it |
| `active`, `cursor`, `clockChanged` | `QueueRuntime` |
| `task[d][g]` | where `execute` stands for the lease of generation `g`, or the result it is about to record |
| `lingering[d]` | generations whose `QueuedReader` is still in a blocking read |
| `wire[d][g]` | external: what the peer holds of attempt `g` |

A commit has three outcomes: confirmed, rolled back, and durable with an error
returned.  `RecoverUnconfirmed`, the second branch of `Claim`, `MarkBody` and
`Finish` take them apart.  A crash may happen in any state.  Two assumptions are
made of the remote: a final 4xx or 5xx reply means that it did not take
responsibility, and it accepts nothing whose final dot it did not receive.  It
may accept long after this host gave up.

Time is abstract (`ClaimScan` and `QueueClock` have it).  A backoff may have elapsed
whenever a row is claimed, `expired[d]` says `expires_at_ms <= now`, and after a restart the wall clock may
be anywhere.  Lease deadlines are written and never read, so a successful renewal
changes nothing.  The operator commands need the instance lock and so run
while the server is stopped; the model lets them happen at any time, which only adds
behaviours.

The properties:

* `NoSilentDuplicate`: after an attempt that may have reached the remote, no later one
  does, unless it was claimed under a retry with `allow_duplicate`.
* `SingleOwner`: a lease or reader that exists is the only one of its delivery, and a
  task's `queue_finish` is never stale.
* `QueueIntegrity`: the queue's share of the integrity check at start-up holds after
  every commit.
* `TerminalRowsFrozen`: a delivered, failed or closed row never changes again.
* `LeasesResolve`: every lease is finished or recovered, unless the clock guard
  has stopped scheduling.
* `KeepsPromise`: Queue implements `Responsibility`.
* `Inv`: the inductive invariant of the proofs.

Proved, and not checked by a run of their own: `FailedMeansNotAccepted` (a failed row,
which is what the sender is told about, never belongs to a message that may have been
accepted), `AcceptanceRemembered` and `UncertaintyKept` (the tables remember every attempt
that may have been accepted), whose substance `KeepsPromise` states as well, and
`SlotsRespected`.

### Responsibility and QueueRefinement

`Responsibility.tla` says what the relay promises for a delivery and nothing about how:
the server owes it, hands it over, and then knows that it is delivered, knows
that it failed, or knows that it does not know.  The remote may come to hold it only
while the server says "handing" or "unknown"; from "unknown" only a confirmation
leads out; "failed" is reached only while the remote does not have it.

`QueueRefinement.tla` maps Queue onto it.  `duty` is read from a row and the phase of its
lease alone (`DutyIn`), which is what the tables would tell an operator after a crash,
and `held` from the wire.  The commit of the body phase is the step from owed to
handing, and recovery of a lease in that phase the step to unknown.

### ClaimScan

`ClaimScan.tla` models the tick of `relay.rs` (`queue_expire`, then
`queue_claim`, which recovers, expires and scans) over the order of due times.

| state in the model | in the code |
|---|---|
| `ready.ahead`, `.due`, `.passed` | the index `queue_ready` as an order (the rows ahead of each row), the rows of it that are due, those behind `ready_cursor` |
| `late` | the index `queue_expiry` up to now, as an order |
| `leased`, `guards`, `tasks` | leased rows, live entries of `QueueRuntime.active`, running execute tasks |
| `tick` | the call the loop makes next |
| `owed`, `caughtUp` | history: rows due when the sweep began and not examined since; whether the last scan ran out of due rows |

* `ScanSound`: live guards stay within both limits, with rows recovered in the same call
  and several rows of one domain in a batch, and no row that was due when a sweep
  began ends up behind the cursor unexamined, while rows enter, leave and move.
* `DueRowsServed`: only a domain at its limit delays a due row.  The premise that the
  scan runs out of due rows now and then is needed: under a load that never lets it,
  the cursor never comes back.
* `LateRowsSettle`: a late row leaves the queue although every attempt hangs.

Rows due in the same millisecond are ordered by arrival.  Failing store calls and
exhausted counters are in Queue.

### QueueClock

`QueueClock.tla` models `QueueRuntime::now` and the calls that use it or go around
it, on one row.  The wall clock may be set to anything at any time; the
monotonic clock counts real time and starts again with the process.

* `ExpiryTrusted`: a row is failed for its age only if its lifetime is over by the real
  time of the process, up to the tolerance, however the clock creeps.
* `ReportNotPostponed`: a result saved under a changed clock has its report due in time.

That accepted times never go back within a process (`TimesGoForward`) is proved.  The guard cannot notice a clock that was wrong at the first reading: `ExpiryTrusted` is
relative to that reading.

### Notification

`Notification.tla` models the outbox of failure reports: `notification_next`,
`notification_failed`, `notification_commit`, and the task `notify_failure` that
`relay.rs` starts when none is running.  The queue is reduced to rows that fail or
settle.  A report for a remote sender is itself a relay row (`ReportOf(d)`) and
may fail.

| state in the model | in the code |
|---|---|
| `state`, `notice` | `delivery.state` and `notification_state` |
| `linked` | the `notification` table |
| `outbox`, `ready` | the index `queue_notification` in due order, and how much of it is due |
| `room` | `quota_bytes - used_bytes` of the sender's mailbox, in reports; a mailbox that is disabled or out of UIDs counts as full |
| `task` | the notice task; `"orphan"` when it was aborted with its commit in the channel |
| `inserted` | history: reports ever inserted for a delivery |

Due times matter only by their order and by the place of "now" in it.  A failed
report moves behind everything that is due (`Postpone`).  A commit may be inserted
although it reports an error (`CommitFails`).

* `OneReport`: a failure has exactly one report if it is marked created and none
  otherwise, and the `notification` table agrees, over lost outcomes, aborts,
  crashes and retries.
* `NoReportOfReport`: the failure of a report is never reported.
* `ReportsHappen`: every failure is reported or suppressed at last.  A mailbox that
  stays full delays its own reports only.

### MessageStore

`MessageStore.tla` models how a message becomes durable: the staging file, the
blocking jobs behind `append` and `prepare`, `accept_inner`, the drop of a stage,
the byte reservation, `gc`, and `recover_blob`, which puts back a file that the disk has
lost.

| state in the model | in the code |
|---|---|
| `stagingNow`, `blobsNow` | names the kernel shows in `staging/` and `blobs/` |
| `stagingDisk`, `blobsDisk` | names a directory sync has made durable |
| `synced` | files after `sync_all` |
| `rows`, `audit` | the `blob` and `gc_action` tables |
| `step`, `waiting` | where a stage and its job are; whether someone still waits for it |
| `reserved` | `reserved_bytes` in units of `max_message_bytes` |
| `gc` | the position of `gc` or `recover_blob` in its one store call |
| `lost` | files of committed rows that the disk lost (`LoseBlob`) and no recovery has secured |
| `reply` | what the client was told |

A loss of power keeps the names that are both shown and synced, drops those that
are neither, and leaves the rest open (`Survivors`, external).  SQLite's own commits
are taken as durable.  The model lets other requests run between two candidates of
one `gc` call, and lets `gc` run beside a serving process; both only add
behaviours.  Today `gc` is called from the command line only, which holds the instance
lock, so there `require_idle` is a second protection; the model shows that it
would be enough by itself.  `require_idle` also refuses while queue leases are active,
which is left out.  `recover_blob` asks for the same idleness and for a lost file; which
process calls it is left open beyond that.  The disk-space check of `create` is a
reason not to create.  A file that is changed, and not lost, is `Transfer`'s subject;
`checkpoint` changes nothing that this model has.

* `CommittedDurable`: a committed row refers to a file whose bytes and name would
  both survive a loss of power, unless the disk lost it; a restored file counts again
  only after its directory is synced.
* `ReplyHonest`: a client told "accepted" has its message in the store; one told
  "refused" does not.  A replay of an operation is answered from the first one.
* `ReservationCovers`: the reservation covers every staging file of a live stage,
  also when its owner has been cancelled.
* `AuditHonest`: a file recorded as deleted does not come back.
* `ReservationReturns`: every stage ends, and its reservation with it.

### Revocation

`Revocation.tla` models changes of authority (`identity.rs`, published by
`change_authority` in `worker.rs`) against sessions that were granted
authority before: `authenticate`, `Revocations::wait`, MAIL, DATA and the
acceptance.

| state in the model | in the code |
|---|---|
| `active`, `epoch`, `sendAs`, `issued`, `revoked` | the `account`, `address` and `credential` tables |
| `version`, `sess[s].seen` | the watch channel and the receiver's mark |
| `sess[s].pending` | `Revocations.pending` |
| `sess[s].check` | the `principal_current` call that a `select!` may drop |
| `publishing` | the change whose call has committed and not yet published |
| `lost`, `unreported` | history: sessions whose account has changed since their lookup; accounts whose change was committed with an error |

A command that arrives drops the check (`Interrupted`) and keeps `pending`.
Password verification lies between `Lookup` and `FinishAuthentication`.  A
session that goes away leaves its acceptance in the store's channel (`"orphan"`).

* `NoticeKept`: a session whose principal no longer holds has an unread notice
  or a pending check.  Accounts in `unreported` are excepted: see the disagreement in
  section 3.
* `NoLateGrant`: a change committed during verification denies the login.
* `NoLateAcceptance`: nothing is accepted for a session after a change of its
  account, also if a later change restores what the first took away.
* `LostSessionsEnd`: such a session ends once its client pauses, unless some change was
  committed with an error.

### Session

`Session.tla` models one connection: the loop of `smtp_session` around the protocol
crate's `Session`, on each kind of listener.

| state in the model | in the code |
|---|---|
| `conn` | role of the listener, presence of TLS, relay mode |
| `buffer`, `kernel` | plaintext commands in the `BufReader`, and behind it |
| `encrypted`, `principal`, `attempts` | locals of `smtp_session` |
| `greeting`, `tx` | fields of `Session`; `clear` marks what came in plaintext |
| `envelope` | the envelope taken by DATA |
| `mails`, `accepted` | history: MAIL commands read, and which led to a message |

A refused command that changes nothing is `Other`.  Deadlines, end of input,
failed writes, a revoked principal and the DATA errors that close are `EndSession`.
`SenderRights` is constant here; its changes are the subject of `Revocation`.

* `NothingCarried`: nothing from before STARTTLS has an effect after it.
* `EnvelopeFresh`: an envelope belongs to the last MAIL read, recipients included.
* `EnvelopeAuthorised`: an envelope on a submission listener, or with a remote
  recipient, is encrypted and by a sender the account may use.

That one MAIL yields at most one message (`AcceptedOnce`) is proved.

### Acceptance

`Acceptance.tla` models the transactions that make the server responsible for a message:
`accept` and its two variants for submissions, `enqueue` and `notification_commit`, with
`target` and `deliver` of `local_delivery.rs`, and the account commands that change what
they find.

| state in the model | in the code |
|---|---|
| `account[a]` | the account and its INBOX: status, `quota_bytes`, `used_bytes`, `uidnext`, `event_seq` |
| `inbox`, `events` | `mailbox_message` with its delivery, and `mailbox_event` |
| `message[k]` | the plan accepted under ingest key `k` |
| `relayed` | relay rows of the message |
| `confirmed`, `unknown` | history: plans confirmed under a key; keys some caller of which never had a definite answer |

The recipients of a plan are delivered to in the order of a `BTreeSet`; the local addresses
are numbered in that order, and `Progress` is the transaction after each of them.  A content
is named by its size, stored bytes are counted as the elements of a set, and the sender and body mode of a plan are part of
what makes two plans equal.  Every error before the commit is one refusal.  An account
with two receiving addresses is made by the repository's tests through SQL only;
`deliver` is written for it ("Read current counters in the caller's transaction,
including earlier aliases in the same acceptance"), so the model has it.  Rights other than the status of the account are in Revocation.

* `MailboxesSound`: used bytes, events and UIDs agree with the rows that
  `check_integrity` compares them with, the quota is kept, a UID names one message for
  ever.
* `AllOrNothing`: a key has a copy for every local recipient and a row for every remote
  one, or no trace.
* `AnswersTrue`: who was told "accepted" finds that very plan under the key, and no
  acceptance is visible whose callers were all told a definite failure.

### Framing and Transfer

`Framing.tla` has the byte-level algorithms as operators: the line decoder, dot
transparency on both sides, the header filter, the author check of submissions and the
preparation of the send command.  Each loop of the code over a chunk is a fold over its
bytes.  A byte is one of the symbols that the code tells apart, and a field name is one
symbol: `R` for Return-Path, `B` for Bcc, `F` for From, `S` for Sender and the
Resent fields.

`Transfer.tla` runs them: `try_attempt` of the client, reply by reply, with STARTTLS,
AUTH and the pipelined envelope; `send_body` with the verified reader; and, as the peer's
reception, `receive_message` of this repository.

| state in the model | in the code |
|---|---|
| `pc`, `tls`, `caps`, `ahead` | the client's place in `try_attempt`, its wire, the peer's EHLO, replies read ahead in the `BufReader` |
| `letter`, `pos`, `sender` | the file and its prefix, how much was read, the state of `send_body` |
| `marked`, `result` | `before_body` has succeeded; `AttemptResult` |
| `sent`, `got` | bytes of DATA written and read |
| `receiver`, `peer` | `receive_message`; what became of its stage |
| `accepted` | external: what of the envelope the peer accepted |

Both sides read chunks of any size; the file may have been changed under its reader; a
failing write leaves any part of its bytes on the wire; the connection may break, and
the user may interrupt, between any two steps.  A deadline is a break.  Other clients
send whatever is in `Raws`.

* `ContentIntact`: the peer sees the end of a message only after the whole of an
  unchanged file, and commits exactly that file without prefix and removed fields.
* `ReceivedAsSent`: what is stored is what the lines before the first lone dot mean,
  compared with a definition that sees all of the bytes at once.
* `ChecksAgree`: no line the client sends is too long for the decoder it meets, what
  DATA has accepted can be relayed, and what `prepare` has passed is not held.
* `OneAuthor`: an accepted submission has one unfolded From and no other sender field.
* `InOrder`: no reply from before TLS is read after it, credentials and envelope go out
  under TLS, and no byte of the body before sender and recipient are accepted and the
  body phase is recorded.
* `StatusTrue`: "accepted" means that the peer has the message, and every other definite
  status that it never will.

The results here are those that a task of Queue may record.  Left out: the
write-before-read order by which `envelope_pipeline` avoids a full window, the
arithmetic of SIZE, and the send command's loop over several recipients.

### Rates and Admission

`Rates.tla` has the tables of authentication attempts as operators.  `Admission.tla`
models what sessions share: the semaphores and the per-address counts of `serve_until`,
the permits and the verification job of `AuthService`, the tables in use, and the
shutdown.

| state in the model | in the code |
|---|---|
| `session[t]` | origin of a session task and the resource it is at |
| `free` | free permits of the six semaphores |
| `counts` | the map of connections per address |
| `detached` | verifications still running for sessions that are gone |
| `ips`, `accounts`, `sinceSweep` | `Rates` |
| `phase`, `relay` | how far the end of `serve_until` has come; whether the relay task runs |
| `passed` | history: attempts let through, by age |

`Close` is every end of a session: return, error, timeout and abort.  Which command a session
may issue when is the subject of Session.  Time is counted in ticks; a count stops at
one more than its limit.  The order in which a semaphore serves its waiters is left
open, which only adds behaviours.

The shutdown waits for the sessions, aborts those that outlast the grace, waits for the relay
task, drops its own `StoreClient` and joins the store's thread.  The thread ends when its channel
has no sender left (`WorkerEnds`): the sessions and the relay task have clones of it, a
verification's job has none.

* `Bounded`: no limit is exceeded, with verifications that outlive their session.
* `AllReturned`: when all is quiet, every permit is free and every count zero.
* `RateBound`: in every stretch of a window's length fewer than twice the limit pass for an
  address or an account, while entries are swept, expire between sweeps and compete for room.
* `ShutdownEnds`: a shutdown comes to its end, though a client keeps its session busy and
  a verification hangs.

## 3. The runs

| run | instance | question |
|---|---|---|
| `queue_outcome` | one delivery, three generations, all actors | are the tables ever more certain of an outcome than the wire?  Does Queue keep its promise? |
| `queue_live` | two deliveries, two generations, recovery window of one row; no expiry, no operator | does bounded recovery reach every lease?  The invariant of the proofs |
| `claim_scan` | four rows, three of one domain with one slot, scans of two rows, one row that expires | is a due or a late row ever passed over for good? |
| `queue_clock` | tolerance of one unit, lifetime of two, wall clock up to six | is anything decided on a time that cannot be vouched for? |
| `notification` | four originals, one an import, two with local senders; room for two reports | one report each, none of reports; does a full mailbox starve others? |
| `store` | three stages, two of one operation, two reservations | durability, replies, reservations, audit, recovery; are reservations returned? |
| `revocation` | two accounts, two credentials, one session | notices, late grants, late acceptances; do old sessions end? |
| `revocation_unreported` | as `revocation`, with one credential | expected to fail: see below |
| `session_envelope` | every listener, three MAIL commands, two pipelined commands, three recipients of which two fit | what an envelope is made of |
| `transfer` | every body of up to four bytes, thirteen headers, lines of at most four bytes | does what is sent arrive, and are the results true? |
| `admission` | three tasks, two addresses, two accounts, limits of one and two, tables for one key | limits, leaks, rates; does a shutdown end? |
| `acceptance` | two accounts, three addresses, two keys and a report, seven plans, three UIDs | counters, atomicity, answers |

Why the bounds are enough.

* Queue: three generations are a first attempt, a duplicate that was consented to, and a
  further one.  `MaxCounter` stands for `i64::MAX`: a row that has reached it is held, and
  the runs get there.
* ClaimScan: a scan of two of four rows leaves rows on both sides of the cursor; three
  rows of one domain fill its slot and leave two to skip.
* QueueClock: a range of six wall times holds jumps below and beyond the tolerance in
  both directions, and several small ones that add up.
* Notification: the outbox needs a report that keeps failing, one behind it, and one that
  is relayed and fails itself.
* MessageStore: three stages let two compete for the budget while one is collected
  or restored, and two share an operation.
* Revocation: sessions meet only in the tables and in the watch channel, which none of them
  changes, so one is enough; `MaxEpoch` lets each account have two changes, such as a right
  given and taken away, and a second account has changes that do not concern the session.  A right
  that is also given back takes a third change: this is left to the proof, which has no such bound.
* Session: two pipelined commands put one behind STARTTLS, in the buffer or in the
  kernel; three MAIL commands are an old transaction, a refused one and a new one.
* Transfer: four bytes of body after a plain header hold every sequence that framing
  reacts to (CRLF before and behind a dot, a dot at the limit of a line, a bare CR or
  LF, a lone dot), and a line limit of four is reached by it.
* Admission: with limits of one, a second task meets each of them; three tasks let one
  hold, one wait and one be refused.  Tables for one key make two addresses and two accounts
  compete for it.  An address may pass two attempts in a window and an account one, so neither
  half of `RateBound` follows from the other.  The limit on all connections follows from the
  one for each address here; that it holds by itself is proved.
* Acceptance: three UIDs run out within two messages, quotas of two and four let a second
  message or a second address fail.

A closed connection and an ended attempt stop: `session_envelope` and `transfer` do not check
deadlock.

Fairness.

* Queue: the tick claims again and again, and storage does not fail each time; an
  attempt ends by its timeouts and a blocking read returns; the process crashes finitely
  often; nothing is assumed of the remote.
* ClaimScan: the interval keeps ticking.  Nothing is assumed of attempts, which may hang.
* Notification: the tick starts notice tasks, backoffs end, and storage errors, crashes and
  shutdowns are finitely many; nothing is assumed of the mailbox.
* MessageStore: jobs and store calls return, and an owner gives up at its deadline.
* Revocation: store calls return, sessions are polled, and clients eventually pause.  The
  last is needed: while commands keep arriving, `select!` may take their branch every time.
* Admission: the grace passes, an aborted session is dropped at its next await, the relay task
  ends by its timeouts or by a grace of its own, and what is awaited is noticed.  Nothing is
  assumed of a session before it is aborted, nor of a verification's job.

### A disagreement between code and documentation

`revocation_unreported` checks `OldSessionsNotified`, which states
`docs/12-m2-identity.md:97`: a change of authority ends all old sessions of the
account.  `change_authority` publishes only after the change has returned `Ok`.  If the
commit is durable and reports an error, which `accept_inner` expects of the same
database, the epoch is raised and nobody is told.  An old session then goes on
until it ends by itself or a later change is published.  It cannot submit: `NoLateAcceptance` holds without
that exception.

## 4. The proofs

Each proof module proves an invariant inductive and derives the properties from it, for
every value of the constants that the module's named assumption admits.  The assumptions
say that sets are finite, that limits are natural numbers (positive where a limit of zero
has no meaning), and which constants are functions on which sets.

| module | proves | inductive invariant |
|---|---|---|
| `QueueProofs` (Queue) | every safety property of Queue | `Inv` of Queue |
| `QueueProofs` (QueueRefinement) | `KeepsPromise`, and `Truthful` of Responsibility for Queue | `Inv` of Queue and `DeliveredIsHeld` |
| `ClaimScanProofs` | `ScanSound` | `ScanSound` itself |
| `GuardProofs` (QueueClock) | `TimesGoForward`, `ExpiryTrusted`, `ReportNotPostponed` | `ClockInv`, with `Reference` |
| `GuardProofs` (Revocation) | `NoticeKept`, `NoLateGrant`, `NoLateAcceptance` | `Good`, for each session |
| `NotificationProofs` | `OneReport`, `NoReportOfReport` | `Orderly` added to the two |
| `IntakeProofs` (Session) | `NothingCarried`, `EnvelopeFresh`, `EnvelopeAuthorised`, `AcceptedOnce` | `Sound`, for the transaction and the envelope |
| `IntakeProofs` (MessageStore) | `CommittedDurable`, `ReplyHonest`, `AuditHonest`, `ReservationCovers` | `Inv` of MessageStore |
| `AcceptanceProofs` | `MailboxesSound`, `AllOrNothing`, `AnswersTrue` | `Inv` of Acceptance |
| `AdmissionProofs` (limits) | `Bounded`, `AllReturned`, `TablesBounded` | `Inv` of Admission |
| `AdmissionProofs` (rates) | `RateBound` | `RatesPaced`, with `Inv` of Admission |

The type invariants are proved as well, as theorems of their own or as part of the invariant
(`ClockInv`, `MailboxesSound`).

*Queue.*  `Inv` adds two facts to the properties.  `FlagsConsistent` says in which states
`possibly_delivered` may be set and which consent goes with it, so that a claim of a
possibly accepted message is known to have been asked for.  `WireFollowsTask` says that a
final dot is only on the wire under a durable body phase and that a definite result agrees
with the remote.  `SlotsRespected` is proved relative to `Inv`, of which it needs
`SingleOwner`: a live guard is always in `active`, so counting `active` counts every owner.

*Refinement.*  The initial states map to initial states, and each action maps to a
step of Responsibility or to a stutter: `Keeps` says what a step may do to one delivery in
the words of Responsibility, and one lemma for each kind of action proves it.  `Inv` is
strengthened by `DeliveredIsHeld`: a row marked delivered has an attempt that the remote
accepted.

*ClaimScan.*  An index is an order, and the rows that are due and those behind the cursor are
starts of it.  The lemmas say what entering, leaving and moving do to an order and its starts; a
scan looks at the first due rows behind the cursor and moves the cursor to the last of them, so
what it passes it has examined.  A batch is granted row by row in the code and by one
condition on each row in the model (`Grants`); `LoopDecides` proves that going through the
candidates in order decides each of them in exactly that way.

*QueueClock.*  The reference reading is never replaced within a process, and the last accepted
time is ahead of real time by at most the tolerance; drift in small steps therefore
cannot add up.

*Notification.*  A report exists only once its failure is marked created, so a retry after an
unknown outcome finds the mark or nothing.

*MessageStore.*  `Inv` says what the prepare job has secured by each step (`JobOrder`), that
rows, replies and audit records belong to stages that have ended (`StageOrder`), that the
reservation counts the active stages, and hence that collector and recovery, which need it
to be zero, work alone (`CollectorAlone`, `RecoveryAlone`).  Durability rests on that:
without it a `gc` beside a serving process could take a blob between `prepare` and
`accept`.  `AuditHonest` is not inductive, since a name on disk only might come back;
`Erased` adds the directory on disk.

*Revocation.*  `Good` relates one session to the tables: a principal whose epoch is old has
an unread notice or a pending check, and a check that has found the principal valid
is either right or followed by a notice.

*Session.*  The transaction and the envelope satisfy the same predicate `Sound`, and
never exist together outside of DATA.

*Admission.*  `Tally` says that free permits, permits held by sessions and permits held by
detached jobs make up each semaphore; `CountsMatch` says the same of addresses.  The limits and the
absence of leaks are two readings of one equation.

*Rates.*  `Paced` relates the entry of one key to the attempts it let through.  A window that
runs has counted all of them since it began.  The attempt that began it is its oldest, so when
a tick ends the window that attempt leaves the stretch, and fewer than the limit remain; with
what the next window lets through, they stay below twice the limit.  An attempt that is
refused is counted too, which is why the count bounds what passed and does not equal it.
The sum is the cardinality of a set of pairs (tick, number within the tick), so the facts
about finite sets of the library carry it.  Admission assumes that addresses and accounts
have no key in common: they are the keys of two maps in the code and of one history here.

*Acceptance.*  A transaction is a loop over the recipients, in the model a recursive function
of the number of addresses done.  The induction theorems of the library take an operator,
which the provers cannot instantiate.  `AcceptanceProofs` therefore proves induction in a form
that speaks of sets only: a set that contains 0 and passes on membership contains `0..n`
(`Induct`), and the function that a loop defines exists (`Recursion`).  `Handed` is the
loop's invariant: after the first `n` addresses the counters agree with the rows (`Books`), no
other key's copies have changed, and the key has one copy for each recipient so far.
`CommitKeeps` takes it from the last address to the tables.  `Inv` adds to the properties
that no event is ahead of its mailbox's UIDs, that an account not yet created holds nothing, and that the
keys of callers and of reports are apart.

Only model-checked: liveness (fairness and `ENABLED` are out of the prover's reach), and
Transfer.  Its actions are algorithms on sequences (the lines of a stream cut into reads), whose
meaning for every length takes an induction over sequences for each of them; Framing's
operators are recursive for the same reason.

## 5. What is left out

* Schema initialisation: one transaction at the first open, whose tables are the variables
  of the models.
* Configuration, logging, TLS settings: parsing, validation and formatting without state.
* The grammar of commands, replies and addresses, and the encoding of the
  administration socket: a parsed command is an input of the models.
* The text of Received fields and of failure reports.
* Hashing and cryptography: a hash tells files apart, a verification has a verdict.
* Operations that only read: listings, exports, summaries, the integrity check itself (its
  content appears as properties).
* Queue and Notification are not composed into one module: a failed row of the one is the input
  of the other, and neither changes what the other reads back.
