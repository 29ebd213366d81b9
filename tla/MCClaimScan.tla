---------------------------- MODULE MCClaimScan ----------------------------
(* Instances of ClaimScan. *)
EXTENDS ClaimScan, FiniteSetsExt

\* The last row has a domain of its own, the others share one.
LastApart == [d \in Rows |-> IF d = Max(Rows) THEN 2 ELSE 1]
=============================================================================
