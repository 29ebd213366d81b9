--------------------------- MODULE QueueRefinement ---------------------------
(* The relay queue as an implementation of Responsibility. *)
EXTENDS Queue

\* What a delivery row r and the phase of its attempt say.
DutyIn(r, ph) ==
    CASE r.state = "absent"           -> "none"
      [] r.state = "delivered"        -> "delivered"
      [] r.state = "failed"           -> "failed"
      [] r.possibly                   -> "unknown"
      [] ~r.possibly /\ ph = "body"   -> "handing"
      [] OTHER                        -> "owed"

DutyOf(d) == DutyIn(row[d], phase[d])

HeldOf(d) == \E g \in Generations : MayHave(d, g)

Promise == INSTANCE Responsibility WITH
               duty <- [d \in Deliveries |-> DutyOf(d)],
               held <- [d \in Deliveries |-> HeldOf(d)]

\* enqueue, claim, mark_body, finish, recover, expire, the operator's commands
\* and every crash between them keep the promise of Responsibility: nothing
\* accepted is lost, failed means that nobody has it, delivered that the remote
\* has it, and doubt ends only with a confirmation.
KeepsPromise == Promise!Spec
=============================================================================
