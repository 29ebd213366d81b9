--------------------------- MODULE MCMessageStore ---------------------------
(* Instances of MessageStore. *)
EXTENDS MessageStore

\* The first two stages replay one operation, the third has its own.
ReplayedOp == [i \in Ids |-> IF i <= 2 THEN 1 ELSE i]
=============================================================================
