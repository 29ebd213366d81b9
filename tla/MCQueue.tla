------------------------------- MODULE MCQueue -------------------------------
(* Instances of Queue.  One run leaves out actors its question is not about,   *)
(* so that two deliveries and fairness stay within reach.                      *)
EXTENDS QueueRefinement

\* All deliveries go to one relay domain.
OneDomain == [d \in Deliveries |-> 1]

\* The network side: what one lease can do.
LeaseSteps ==
    \E d \in Deliveries, g \in Generations :
        Attempt(d, g) \/ RemoteDecides(d, g) \/ Abort(d, g) \/ ReaderEnds(d, g)

\* Nothing expires and no operator intervenes: leases, slots and recovery only.
SlotsNext ==
    \/ RecoverConfirmed
    \/ RecoverUnconfirmed
    \/ Claim
    \/ Crash /\ UNCHANGED expired
    \/ \E d \in Deliveries : Enqueue(d)
    \/ LeaseSteps

\* The clock guard may stop scheduling; no operator repairs what the server lost.
ServerSpec == Init /\ [][SlotsNext \/ ClockJumps]_vars /\ Fairness
=============================================================================
