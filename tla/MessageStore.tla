---------------------------- MODULE MessageStore ----------------------------
(***************************************************************************)
(* How a message becomes durable: a capped staging file, the job that      *)
(* syncs it and renames it into the blob directory, the transaction that   *)
(* refers to it, the reservation of disk space that covers it meanwhile,   *)
(* the collection of files nothing refers to, and the recovery of a file   *)
(* that the disk has lost.                                                 *)
(*                                                                         *)
(* A directory is what the kernel shows (..Now) and what would survive a   *)
(* loss of power (..Disk); a change not yet synced may or may not be on    *)
(* disk when the power goes.  File jobs run on their own threads: a caller *)
(* that gives up leaves the job running and only drops its result.         *)
(***************************************************************************)
EXTENDS Naturals, FiniteSets

CONSTANTS
    Ids,     \* identifiers drawn for stages, one stage each
    OpOf,    \* operation id under which the message of a stage is accepted
    Slots    \* temporary_reserved_bytes / max_message_bytes

ASSUME MessageStoreAssumption ==
    /\ IsFiniteSet(Ids)
    /\ Slots \in Nat \ {0}

VARIABLES
    stagingNow, stagingDisk,   \* ids with a .part file
    blobsNow, blobsDisk,       \* ids with an .eml file
    synced,                    \* ids whose bytes are all on disk
    rows,                      \* blob table, one message each
    audit,                     \* gc_action table
    step,                      \* where a stage and its job stand
    waiting,                   \* stages whose owner still waits for them
    reserved,                  \* reserved_bytes, counted in messages
    gc,                        \* the collector or a recovery, inside one store call
    lost,                      \* blobs the disk lost and no recovery has secured
    reply                      \* what the client was told

files == <<stagingNow, stagingDisk, blobsNow, blobsDisk>>
vars  == <<files, synced, rows, audit, step, waiting, reserved, gc, lost, reply>>

-----------------------------------------------------------------------------
\* "flushing" to "blobSynced" are the parts of the prepare job, "accepting" is
\* a request in the store's channel, "cleaning" the unlink job of a drop.
Step == {"unused", "open", "writing", "flushing", "flushed", "renamed", "blobSynced",
         "prepared", "accepting", "cleaning", "gone"}

\* gc_action.kind: a name in the staging or in the blob directory.
Kind == {"staging", "orphan"}

NoGc == [step |-> "idle"]
Collecting == [step : {"planned", "unlinked", "synced"}, kind : Kind, id : Ids]

\* recover_blob: the blob it restores and the temporary name of the copy.
Recovering == [step : {"copied", "linked", "secured", "cleaned"}, id : Ids, temporary : Ids]

TypeOK ==
    /\ stagingNow \subseteq Ids /\ stagingDisk \subseteq Ids
    /\ blobsNow \subseteq Ids /\ blobsDisk \subseteq Ids
    /\ synced \subseteq Ids
    /\ rows \subseteq Ids
    /\ audit \in [Kind -> [Ids -> {"none", "planned", "deleted"}]]
    /\ step \in [Ids -> Step]
    /\ waiting \subseteq Ids
    /\ reserved \in 0..Slots
    /\ gc \in {NoGc} \cup Collecting \cup Recovering
    /\ lost \subseteq Ids
    /\ reply \in [Ids -> {"none", "accepted", "refused"}]

Init ==
    /\ stagingNow = {} /\ stagingDisk = {}
    /\ blobsNow = {} /\ blobsDisk = {}
    /\ synced = {}
    /\ rows = {}
    /\ audit = [k \in Kind |-> [i \in Ids |-> "none"]]
    /\ step = [i \in Ids |-> "unused"]
    /\ waiting = {}
    /\ reserved = 0
    /\ gc = NoGc
    /\ lost = {}
    /\ reply = [i \in Ids |-> "none"]

\* One request at a time: the collector keeps the store's thread busy.
StoreFree == gc = NoGc

Becomes(i, s) == step' = [step EXCEPT ![i] = s]

-----------------------------------------------------------------------------
(* Staging                                                                 *)

\* The new stage still fits temporary_reserved_bytes.
WithinBudget == reserved + 1 <= Slots

\* create: reserve, then make the file; a failure gives the reservation back.
Create(i) ==
    /\ StoreFree
    /\ step[i] = "unused"
    /\ WithinBudget
    /\ reserved' = reserved + 1
    /\ stagingNow' = stagingNow \cup {i}
    /\ Becomes(i, "open")
    /\ waiting' = waiting \cup {i}
    /\ UNCHANGED <<stagingDisk, blobsNow, blobsDisk, synced, rows, audit, gc, lost, reply>>

\* Mutant: dropping a stage returns its reservation before the file is gone.
DropReleases(i, staged) ==
    /\ waiting' = waiting \ {i}
    /\ Becomes(i, IF staged THEN "cleaning" ELSE "gone")
    /\ reserved' = reserved - 1

\* The last owner of a stage is gone: its file, if still staged, is unlinked by
\* a job that keeps the reservation; without one the reservation ends here.
Drop(i, staged) ==
    /\ waiting' = waiting \ {i}
    /\ IF staged
       THEN Becomes(i, "cleaning") /\ reserved' = reserved
       ELSE Becomes(i, "gone") /\ reserved' = reserved - 1

\* Mutant: a job hands its stage to an owner that has given up.
ProceedUnowned(i, s, staged) == Becomes(i, s) /\ UNCHANGED <<waiting, reserved>>

\* A job has ended well: its owner goes on with the stage, or nobody does.
Proceed(i, s, staged) ==
    IF i \in waiting
    THEN Becomes(i, s) /\ UNCHANGED <<waiting, reserved>>
    ELSE Drop(i, staged)

\* append: a full buffer is written by a blocking job, whose failure poisons
\* the stage so that it can only be dropped.
Append(i) ==
    /\ step[i] = "open"
    /\ Becomes(i, "writing")
    /\ UNCHANGED <<files, synced, rows, audit, waiting, reserved, gc, lost, reply>>

Written(i) ==
    /\ step[i] = "writing"
    /\ Proceed(i, "open", TRUE) \/ Drop(i, TRUE)
    /\ UNCHANGED <<files, synced, rows, audit, gc, lost, reply>>

\* The owner gives up: a timeout, a lost connection, a revoked principal, or
\* input it rejects.  A running job or a dispatched request goes on without it.
GiveUp(i) ==
    /\ i \in waiting
    /\ \/ step[i] = "open" /\ Drop(i, TRUE)
       \/ step[i] = "prepared" /\ Drop(i, FALSE)
       \/ /\ step[i] \in {"writing", "flushing", "flushed", "renamed", "blobSynced",
                          "accepting"}
          /\ waiting' = waiting \ {i}
          /\ UNCHANGED <<step, reserved>>
    /\ UNCHANGED <<files, synced, rows, audit, gc, lost, reply>>

\* The cleanup job; a failed unlink is ignored and leaves the file behind.
Clean(i) ==
    /\ step[i] = "cleaning"
    /\ stagingNow' \in {stagingNow, stagingNow \ {i}}
    /\ Becomes(i, "gone")
    /\ reserved' = reserved - 1
    /\ UNCHANGED <<stagingDisk, blobsNow, blobsDisk, synced, rows, audit, waiting, gc, lost, reply>>

-----------------------------------------------------------------------------
(* The prepare job                                                         *)

Prepare(i) ==
    /\ step[i] = "open"
    /\ Becomes(i, "flushing")
    /\ UNCHANGED <<files, synced, rows, audit, waiting, reserved, gc, lost, reply>>

Flush(i) ==
    /\ step[i] = "flushing"
    /\ synced' = synced \cup {i}
    /\ Becomes(i, "flushed")
    /\ UNCHANGED <<files, rows, audit, waiting, reserved, gc, lost, reply>>

Rename(i) ==
    /\ step[i] = "flushed"
    /\ stagingNow' = stagingNow \ {i}
    /\ blobsNow' = blobsNow \cup {i}
    /\ Becomes(i, "renamed")
    /\ UNCHANGED <<stagingDisk, blobsDisk, synced, rows, audit, waiting, reserved, gc, lost, reply>>

\* Mutant: the blob directory is not synced after the rename.
SyncBlobsSkipped(i) ==
    /\ step[i] = "renamed"
    /\ Becomes(i, "blobSynced")
    /\ UNCHANGED <<files, synced, rows, audit, waiting, reserved, gc, lost, reply>>

SyncBlobs(i) ==
    /\ step[i] = "renamed"
    /\ blobsDisk' = blobsNow
    /\ Becomes(i, "blobSynced")
    /\ UNCHANGED <<stagingNow, stagingDisk, blobsNow, synced, rows, audit, waiting, reserved,
                   gc, lost, reply>>

SyncStaging(i) ==
    /\ step[i] = "blobSynced"
    /\ stagingDisk' = stagingNow
    /\ Proceed(i, "prepared", FALSE)
    /\ UNCHANGED <<stagingNow, blobsNow, blobsDisk, synced, rows, audit, gc, lost, reply>>

\* Any part of the job fails: the file is unlinked if it is still staged, and
\* stays as an unreferenced blob if it was renamed.
PrepareFails(i) ==
    /\ \/ step[i] \in {"flushing", "flushed"} /\ Drop(i, TRUE)
       \/ step[i] \in {"renamed", "blobSynced"} /\ Drop(i, FALSE)
    /\ UNCHANGED <<files, synced, rows, audit, gc, lost, reply>>

-----------------------------------------------------------------------------
(* Acceptance                                                              *)

Dispatch(i) ==
    /\ step[i] = "prepared"
    /\ i \in waiting
    /\ Becomes(i, "accepting")
    /\ UNCHANGED <<files, synced, rows, audit, waiting, reserved, gc, lost, reply>>

Answers(i, r) == reply' = IF i \in waiting THEN [reply EXCEPT ![i] = r] ELSE reply

\* The row of an operation accepted before.
Previous(i) == {j \in rows : OpOf[j] = OpOf[i]}

\* Mutant: every error of the commit is answered with a definite rejection.
AcceptUnknownRefused(i) ==
    /\ step[i] = "accepting"
    /\ StoreFree
    /\ \/ Previous(i) = {} /\ rows' = rows \cup {i} /\ Answers(i, "accepted")
       \/ Previous(i) = {} /\ rows' = rows \cup {i} /\ Answers(i, "refused")
       \/ rows' = rows /\ Answers(i, "refused")
    /\ Drop(i, FALSE)
    /\ UNCHANGED <<files, synced, audit, gc, lost>>

\* accept_inner: replayed, in conflict with an earlier acceptance or refused;
\* committed; or of unknown outcome, which closes the connection silently.
Accept(i) ==
    /\ step[i] = "accepting"
    /\ StoreFree
    /\ \/ Previous(i) # {} /\ rows' = rows /\ Answers(i, "accepted")
       \/ rows' = rows /\ Answers(i, "refused")
       \/ Previous(i) = {} /\ rows' = rows \cup {i} /\ Answers(i, "accepted")
       \/ Previous(i) = {} /\ rows' \in {rows, rows \cup {i}} /\ reply' = reply
    /\ Drop(i, FALSE)
    /\ UNCHANGED <<files, synced, audit, gc, lost>>

-----------------------------------------------------------------------------
(* Collection of unreferenced files                                        *)

RequireIdle == reserved = 0

\* What a run may take: any staged file, and a blob without a row.
Collectable(kind) == IF kind = "staging" THEN stagingNow ELSE blobsNow \ rows

\* check_integrity: a referenced file is missing, or its bytes are not those
\* that the row describes.
MissingBlobs == rows \ blobsNow
CorruptBlobs == (rows \cap blobsNow) \ synced

Healthy == MissingBlobs = {} /\ CorruptBlobs = {}

\* Mutant: the audit row is written once, as if the unlink could not fail.
GcPlanMarks(kind, i) ==
    /\ StoreFree
    /\ RequireIdle
    /\ Healthy
    /\ i \in Collectable(kind)
    /\ gc' = [step |-> "planned", kind |-> kind, id |-> i]
    /\ audit' = [audit EXCEPT ![kind][i] = "deleted"]
    /\ UNCHANGED <<files, synced, rows, step, waiting, reserved, lost, reply>>

\* The audit row precedes the unlink.  Whether a file is old enough is open.
GcPlan(kind, i) ==
    /\ StoreFree
    /\ RequireIdle
    /\ Healthy
    /\ i \in Collectable(kind)
    /\ gc' = [step |-> "planned", kind |-> kind, id |-> i]
    /\ audit' = [audit EXCEPT ![kind][i] = "planned"]
    /\ UNCHANGED <<files, synced, rows, step, waiting, reserved, lost, reply>>

\* The retention of a blob and the file itself are checked again.
GcUnlink ==
    /\ gc.step = "planned"
    /\ gc.id \in Collectable(gc.kind)
    /\ IF gc.kind = "staging"
       THEN stagingNow' = stagingNow \ {gc.id} /\ blobsNow' = blobsNow
       ELSE blobsNow' = blobsNow \ {gc.id} /\ stagingNow' = stagingNow
    /\ gc' = [gc EXCEPT !.step = "unlinked"]
    /\ UNCHANGED <<stagingDisk, blobsDisk, synced, rows, audit, step, waiting, reserved, lost, reply>>

GcSync ==
    /\ gc.step = "unlinked"
    /\ IF gc.kind = "staging"
       THEN stagingDisk' = stagingNow /\ blobsDisk' = blobsDisk
       ELSE blobsDisk' = blobsNow /\ stagingDisk' = stagingDisk
    /\ gc' = [gc EXCEPT !.step = "synced"]
    /\ UNCHANGED <<stagingNow, blobsNow, synced, rows, audit, step, waiting, reserved, lost, reply>>

GcMark ==
    /\ gc.step = "synced"
    /\ audit' = [audit EXCEPT ![gc.kind][gc.id] = "deleted"]
    /\ gc' = NoGc
    /\ UNCHANGED <<files, synced, rows, step, waiting, reserved, lost, reply>>

\* An error ends the call where it stands.
GcFails ==
    /\ gc \in Collecting
    /\ gc' = NoGc
    /\ UNCHANGED <<files, synced, rows, audit, step, waiting, reserved, lost, reply>>

-----------------------------------------------------------------------------
(* Recovery of a blob                                                      *)

\* The environment: the disk loses a file, bytes and name.
LoseBlob(i) ==
    /\ i \in rows \cap blobsNow
    /\ blobsNow' = blobsNow \ {i}
    /\ blobsDisk' = blobsDisk \ {i}
    /\ lost' = lost \cup {i}
    /\ UNCHANGED <<stagingNow, stagingDisk, synced, rows, audit, step, waiting, reserved, gc,
                   reply>>

\* recover_blob: only a referenced blob whose file is missing, from a copy with
\* the recorded length and digest, written and synced under a temporary name
\* that no stage uses and no reservation covers.
RecoverCopy(i, t) ==
    /\ StoreFree
    /\ RequireIdle
    /\ i \in MissingBlobs
    /\ step[t] = "unused"
    /\ stagingNow' = stagingNow \cup {t}
    /\ Becomes(t, "gone")
    /\ gc' = [step |-> "copied", id |-> i, temporary |-> t]
    /\ UNCHANGED <<stagingDisk, blobsNow, blobsDisk, synced, rows, audit, waiting, reserved,
                   lost, reply>>

\* The link gives the copy its name and never replaces a file.
RecoverLink ==
    /\ gc.step = "copied"
    /\ gc.id \notin blobsNow
    /\ blobsNow' = blobsNow \cup {gc.id}
    /\ gc' = [gc EXCEPT !.step = "linked"]
    /\ UNCHANGED <<stagingNow, stagingDisk, blobsDisk, synced, rows, audit, step, waiting,
                   reserved, lost, reply>>

\* Mutant: the blob directory is not synced after the link.
RecoverSecureSkipped ==
    /\ gc.step = "linked"
    /\ lost' = lost \ {gc.id}
    /\ gc' = [gc EXCEPT !.step = "secured"]
    /\ UNCHANGED <<files, synced, rows, audit, step, waiting, reserved, reply>>

\* The blob directory is synced: the recovery has succeeded.
RecoverSecure ==
    /\ gc.step = "linked"
    /\ blobsDisk' = blobsNow
    /\ lost' = IF gc.id \in blobsNow THEN lost \ {gc.id} ELSE lost
    /\ gc' = [gc EXCEPT !.step = "secured"]
    /\ UNCHANGED <<stagingNow, stagingDisk, blobsNow, synced, rows, audit, step, waiting,
                   reserved, reply>>

RecoverClean ==
    /\ gc.step = "secured"
    /\ stagingNow' = stagingNow \ {gc.temporary}
    /\ gc' = [gc EXCEPT !.step = "cleaned"]
    /\ UNCHANGED <<stagingDisk, blobsNow, blobsDisk, synced, rows, audit, step, waiting,
                   reserved, lost, reply>>

RecoverDone ==
    /\ gc.step = "cleaned"
    /\ stagingDisk' = stagingNow
    /\ gc' = NoGc
    /\ UNCHANGED <<stagingNow, blobsNow, blobsDisk, synced, rows, audit, step, waiting,
                   reserved, lost, reply>>

\* A wrong copy or any error: the temporary name is removed if that is possible.
RecoverFails ==
    /\ gc \in Recovering
    /\ stagingNow' \in {stagingNow, stagingNow \ {gc.temporary}}
    /\ gc' = NoGc
    /\ UNCHANGED <<stagingDisk, blobsNow, blobsDisk, synced, rows, audit, step, waiting,
                   reserved, lost, reply>>

-----------------------------------------------------------------------------
\* What a directory may hold after a loss of power.
Survivors(now, disk) == {(now \cap disk) \cup S : S \in SUBSET ((now \ disk) \cup (disk \ now))}

\* The process dies, with or without the machine, and the store is reopened.
Crash ==
    /\ stagingNow' \in Survivors(stagingNow, stagingDisk)
    /\ blobsNow' \in Survivors(blobsNow, blobsDisk)
    /\ stagingDisk' = stagingNow'
    /\ blobsDisk' = blobsNow'
    /\ step' = [i \in Ids |-> IF step[i] = "unused" THEN "unused" ELSE "gone"]
    /\ waiting' = {}
    /\ reserved' = 0
    /\ gc' = NoGc
    /\ UNCHANGED <<synced, rows, audit, lost, reply>>

Job(i) ==
    \/ Written(i)
    \/ Clean(i)
    \/ Flush(i)
    \/ Rename(i)
    \/ SyncBlobs(i)
    \/ SyncStaging(i)
    \/ PrepareFails(i)
    \/ Accept(i)

Collector == (\E k \in Kind, i \in Ids : GcPlan(k, i)) \/ GcUnlink \/ GcSync \/ GcMark \/ GcFails

Recovery ==
    \/ \E i, t \in Ids : RecoverCopy(i, t)
    \/ RecoverLink \/ RecoverSecure \/ RecoverClean \/ RecoverDone \/ RecoverFails

Next ==
    \/ \E i \in Ids : Create(i) \/ Append(i) \/ Prepare(i) \/ Dispatch(i) \/ GiveUp(i)
    \/ \E i \in Ids : Job(i)
    \/ Collector
    \/ \E i \in Ids : LoseBlob(i)
    \/ Recovery
    \/ Crash

Spec == Init /\ [][Next]_vars

\* Blocking jobs and queued requests are carried out, a store call returns, and
\* an owner gives up at the latest when its deadline passes.
Fairness ==
    /\ \A i \in Ids : WF_vars(Job(i)) /\ WF_vars(GiveUp(i))
    /\ WF_vars(GcUnlink \/ GcSync \/ GcMark)
    /\ WF_vars(RecoverLink \/ RecoverSecure \/ RecoverClean \/ RecoverDone \/ RecoverFails)

LiveSpec == Spec /\ Fairness

-----------------------------------------------------------------------------
(* Properties                                                              *)

\* prepare before accept, require_idle before gc: a blob row always refers to
\* a file whose bytes and whose name would both survive a loss of power, so the
\* integrity check of the next start finds it.  Only what the disk itself lost
\* is missing, until recover_blob has secured it again.
CommittedDurable == rows \ lost \subseteq blobsNow \cap blobsDisk \cap synced

\* accept: the client is never told a definite result the store does not
\* keep.  Refused means that its own message is not there.
ReplyHonest ==
    \A i \in Ids : /\ reply[i] = "accepted" => Previous(i) # {}
                   /\ reply[i] = "refused" => i \notin rows

\* StageResources: every staging file that a stage of this process still owns
\* is covered by the reservation, and the reservation by the budget.
ReservationCovers ==
    Cardinality({i \in stagingNow : step[i] # "gone"}) <= reserved

\* gc: an action recorded as deleted stays true over a loss of power.
AuditHonest ==
    \A i \in Ids : /\ audit["staging"][i] = "deleted" => i \notin stagingNow
                   /\ audit["orphan"][i] = "deleted" => i \notin blobsNow

-----------------------------------------------------------------------------
(* The inductive invariant of the proofs                                   *)

\* Stages that hold a reservation.
Active == {i \in Ids : step[i] \notin {"unused", "gone"}}

\* What the prepare job has secured by each of its steps.
JobOrder ==
    \A i \in Ids :
        /\ step[i] \in {"flushed", "renamed", "blobSynced", "prepared", "accepting"} =>
               i \in synced
        /\ step[i] \in {"renamed", "blobSynced", "prepared", "accepting"} => i \in blobsNow
        /\ step[i] \in {"blobSynced", "prepared", "accepting"} => i \in blobsDisk

\* Only what a stage has begun exists, and only what it has ended is final.
StageOrder ==
    \A i \in Ids :
        /\ i \in stagingNow \cup stagingDisk \cup blobsNow \cup blobsDisk => step[i] # "unused"
        /\ i \in rows => step[i] = "gone"
        /\ reply[i] # "none" => step[i] = "gone"
        /\ \A k \in Kind : audit[k][i] = "deleted" => step[i] = "gone"

\* A name recorded as deleted is neither shown nor able to come back.
Erased ==
    \A i \in Ids :
        /\ audit["staging"][i] = "deleted" => i \notin stagingNow \cup stagingDisk
        /\ audit["orphan"][i] = "deleted" => i \notin blobsNow \cup blobsDisk \cup rows

\* The collector works alone, on the file of an ended stage.
CollectorAlone ==
    gc \in Collecting =>
        /\ reserved = 0
        /\ step[gc.id] = "gone"
        /\ gc.step \in {"unlinked", "synced"} =>
               gc.id \notin (IF gc.kind = "staging" THEN stagingNow ELSE blobsNow)
        /\ gc.step = "synced" =>
               gc.id \notin (IF gc.kind = "staging" THEN stagingDisk ELSE blobsDisk)
        /\ gc.kind = "orphan" => gc.id \notin rows

\* So does a recovery, on a blob that was lost and still is.
RecoveryAlone ==
    gc \in Recovering =>
        /\ reserved = 0
        /\ gc.id \in rows
        /\ gc.step \in {"copied", "linked"} => gc.id \in lost

\* The bytes of a committed message are on disk, and what was lost was committed.
Committed == rows \subseteq synced /\ lost \subseteq rows

\* Everything the safety properties rest on: the order in which create, prepare,
\* accept, drop and gc secure files, rows, replies and reservations.
Inv ==
    /\ TypeOK
    /\ reserved = Cardinality(Active)
    /\ JobOrder
    /\ StageOrder
    /\ Erased
    /\ CollectorAlone
    /\ RecoveryAlone
    /\ Committed
    /\ CommittedDurable
    /\ ReplyHonest

-----------------------------------------------------------------------------
\* StageResources::drop, DiskReservation::drop: no cancellation leaks a
\* reservation; every stage gives its own back.
ReservationReturns == \A i \in Ids : step[i] = "open" ~> step[i] = "gone"
=============================================================================
