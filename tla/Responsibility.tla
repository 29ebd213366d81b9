--------------------------- MODULE Responsibility ---------------------------
(***************************************************************************)
(* What the relay promises for each delivery it has accepted, without      *)
(* leases, phases, tasks, crashes or commits: the server owes the          *)
(* delivery, hands it over, and then knows that it is delivered, knows     *)
(* that it failed, or knows that it does not know.                         *)
(***************************************************************************)

CONSTANT Deliveries

VARIABLES
    duty,  \* what the server says of each delivery
    held   \* whether the remote has it, or may yet decide to have it

vars == <<duty, held>>

Duty == {"none", "owed", "handing", "unknown", "delivered", "failed"}

Init ==
    /\ duty = [d \in Deliveries |-> "none"]
    /\ held = [d \in Deliveries |-> FALSE]

Accepts(d) == duty[d] = "none" /\ duty'[d] = "owed" /\ held'[d] = held[d]

Begins(d) == duty[d] = "owed" /\ duty'[d] = "handing" /\ held'[d] = held[d]

\* The remote may get or refuse the message only while the server says so.
Hands(d) == duty[d] \in {"handing", "unknown"} /\ duty'[d] = duty[d]

\* Back to the queue, or given up: only what the remote does not have.
Concludes(d) ==
    /\ duty[d] \in {"owed", "handing"}
    /\ ~held[d]
    /\ duty'[d] \in {"owed", "failed"}
    /\ held'[d] = held[d]

\* From doubt only a confirmation leads out.
Doubts(d) == duty[d] = "handing" /\ duty'[d] = "unknown" /\ held'[d] = held[d]

Confirms(d) ==
    /\ duty[d] \in {"handing", "unknown"}
    /\ held[d]
    /\ duty'[d] = "delivered"
    /\ held'[d] = held[d]

Rests(d) == duty'[d] = duty[d] /\ held'[d] = held[d]

\* One transaction may change several deliveries.
Next ==
    /\ duty' \in [Deliveries -> Duty]
    /\ held' \in [Deliveries -> BOOLEAN]
    /\ \A d \in Deliveries :
          \/ Accepts(d) \/ Begins(d) \/ Hands(d) \/ Concludes(d) \/ Doubts(d) \/ Confirms(d)
          \/ Rests(d)

Spec == Init /\ [][Next]_vars

-----------------------------------------------------------------------------
\* The promise in one state: a delivery the server still owes or has reported
\* as failed is nowhere else, and one it calls delivered is with the remote.
Truthful ==
    \A d \in Deliveries : /\ duty[d] \in {"none", "owed", "failed"} => ~held[d]
                          /\ duty[d] = "delivered" => held[d]
=============================================================================
