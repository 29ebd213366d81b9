----------------------------- MODULE QueueClock -----------------------------
(***************************************************************************)
(* QueueRuntime::now, the guard between the wall clock and the decisions   *)
(* of the queue: every guarded call compares the wall time that has gone   *)
(* by since the first call of the process with the monotonic time, and a   *)
(* difference above the tolerance, or a step back, stops scheduling until  *)
(* the process is restarted.                                               *)
(*                                                                         *)
(* The wall clock may be set to anything at any time; the monotonic clock  *)
(* counts real time and starts again with the process.  One relay row      *)
(* stands for all: its lifetime ends at "expires", and when it has failed  *)
(* its report falls due at "report".                                       *)
(***************************************************************************)
EXTENDS Integers

CONSTANTS
    Drift,    \* tolerated difference: a minute
    Life,     \* max_age_seconds of a row
    MaxWall,  \* bound on the wall clock
    MaxMono   \* bound on the running time of a process

ASSUME QueueClockAssumption ==
    Drift \in Nat /\ Life \in Nat \ {0} /\ MaxWall \in Nat /\ MaxMono \in Nat

VARIABLES
    wall,      \* SystemClock::now_ms
    mono,      \* Clock::monotonic_ms
    clock,     \* QueueRuntime.clock: the first reading, or None
    lastWall,  \* QueueRuntime.last_wall, or None
    changed,   \* QueueRuntime.clock_changed
    row,       \* the relay row: state, expires_at_ms, notification_due_ms
    first      \* history: the first reading of this process, or none

clockVars == <<wall, mono, clock, lastWall, changed, row, first>>

None == -1
NoReading == [wall |-> None, mono |-> None]
Reading == [wall |-> wall, mono |-> mono]

Row == [state : {"absent", "waiting", "leased", "expired", "rejected"},
        expires : Nat, report : Nat]

ClockTypeOK ==
    /\ wall \in 0..MaxWall
    /\ mono \in 0..MaxMono
    /\ clock \in [wall : 0..MaxWall, mono : 0..MaxMono] \cup {NoReading}
    /\ first \in [wall : 0..MaxWall, mono : 0..MaxMono] \cup {NoReading}
    /\ lastWall \in 0..MaxWall \cup {None}
    /\ changed \in BOOLEAN
    /\ row \in Row

ClockInit ==
    /\ wall \in 0..MaxWall
    /\ mono = 0
    /\ clock = NoReading /\ first = NoReading
    /\ lastWall = None
    /\ changed = FALSE
    /\ row = [state |-> "absent", expires |-> 0, report |-> 0]

-----------------------------------------------------------------------------
(* Time                                                                    *)

ClockAdvances ==
    /\ mono < MaxMono /\ wall < MaxWall
    /\ mono' = mono + 1
    /\ wall' = wall + 1
    /\ UNCHANGED <<clock, lastWall, changed, row, first>>

\* The clock is set, or drifts against the monotonic one.
ClockSet ==
    /\ wall' \in 0..MaxWall
    /\ UNCHANGED <<mono, clock, lastWall, changed, row, first>>

\* A new process: the row is durable, the guard starts anew.
Restart ==
    /\ mono' = 0
    /\ clock' = NoReading /\ first' = NoReading
    /\ lastWall' = None
    /\ changed' = FALSE
    /\ row' = IF row.state = "leased" THEN [row EXCEPT !.state = "waiting"] ELSE row
    /\ UNCHANGED wall

-----------------------------------------------------------------------------
(* The guard                                                               *)

Magnitude(n) == IF n < 0 THEN -n ELSE n

Skew == (wall - clock.wall) - (mono - clock.mono)

\* Mutant: only large steps back are looked at.
DiscontinuousBack == (lastWall # None /\ wall < lastWall) \/ Skew < -Drift

Discontinuous ==
    \/ lastWall # None /\ wall < lastWall
    \/ mono < clock.mono
    \/ Magnitude(Skew) > Drift

\* Mutant: every accepted reading becomes the next reference.
NowRebased ==
    /\ changed' = (changed \/ (clock # NoReading /\ Discontinuous))
    /\ clock' = IF changed' THEN clock ELSE Reading
    /\ lastWall' = IF changed' THEN lastWall ELSE wall

\* now: the flag is sticky, the reference is the first reading.
Now ==
    /\ changed' = (changed \/ (clock # NoReading /\ Discontinuous))
    /\ clock' = IF clock = NoReading THEN Reading ELSE clock
    /\ lastWall' = IF changed' THEN lastWall ELSE wall

\* A call that goes through the guard.
Guarded ==
    /\ Now
    /\ first' = IF first = NoReading THEN Reading ELSE first
    /\ UNCHANGED <<wall, mono>>

-----------------------------------------------------------------------------
(* Calls that look at the time                                             *)

\* insert_relay takes its time without the guard.
Enqueue ==
    /\ row.state = "absent"
    /\ row' = [row EXCEPT !.state = "waiting", !.expires = wall + Life]
    /\ UNCHANGED <<wall, mono, clock, lastWall, changed, first>>

\* queue_expire, also as the first part of queue_claim.
Expire ==
    /\ Guarded
    /\ row' = IF ~changed' /\ row.state = "waiting" /\ row.expires <= wall
              THEN [row EXCEPT !.state = "expired", !.report = wall]
              ELSE row

\* queue_claim leases the row if its time is not up.
Claim ==
    /\ Guarded
    /\ ~changed'
    /\ row.state = "waiting" /\ row.expires > wall
    /\ row' = [row EXCEPT !.state = "leased"]

\* Mutant: the time of a known result is taken from the clock as it is.
FinishRaw(result) ==
    /\ row.state = "leased"
    /\ Guarded
    /\ row' = [row EXCEPT !.state = result, !.report = wall]

\* queue_finish saves a known result under a changed clock too; its report is
\* then due at the last accepted time.
Finish(result) ==
    /\ row.state = "leased"
    /\ Guarded
    /\ row' = [row EXCEPT !.state = result,
                          !.report = IF ~changed' THEN wall
                                     ELSE IF lastWall # None THEN lastWall ELSE wall]

ClockNext ==
    \/ ClockAdvances \/ ClockSet \/ Restart
    \/ Enqueue \/ Expire \/ Claim
    \/ \E result \in {"waiting", "rejected"} : Finish(result)

ClockSpec == ClockInit /\ [][ClockNext]_clockVars

-----------------------------------------------------------------------------
(* Properties                                                              *)

\* Real time as this process knows it: the first reading and what has elapsed.
Elapsed == first'.wall + (mono - first'.mono)

\* now: within a process the times the queue acts on never go back.
TimesGoForward ==
    [][lastWall # None /\ lastWall' # None => lastWall <= lastWall']_clockVars

\* docs/03-storage-and-recovery.md: a jump of the clock must not be taken for a
\* mass of permanent failures.  A row is failed for its age only if its lifetime
\* is over by the real time of the process, give or take the tolerance, even if
\* the clock creeps away in steps that are each below it.
ExpiryTrusted ==
    [][row.state = "waiting" /\ row'.state = "expired" => row.expires <= Elapsed + Drift]_clockVars

\* queue_finish: an untrusted jump of the clock does not postpone the report of
\* a result it has saved.
ReportNotPostponed ==
    [][row.state = "leased" /\ row'.state = "rejected" => row'.report <= Elapsed + Drift]_clockVars

-----------------------------------------------------------------------------
\* What now and its callers keep: the flag is set and a lease exists only after
\* a first reading, and the last accepted time is no further ahead of real time than the tolerance.
ClockInv ==
    /\ ClockTypeOK
    /\ (clock = NoReading) <=> (lastWall = None)
    /\ changed \/ row.state = "leased" => clock # NoReading
    /\ clock # NoReading =>
           /\ clock.mono <= mono
           /\ lastWall <= clock.wall + (mono - clock.mono) + Drift

\* The reference of the guard is never replaced within a process.
Reference == clock = first
=============================================================================
