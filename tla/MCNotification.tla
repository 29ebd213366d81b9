--------------------------- MODULE MCNotification ---------------------------
(* Instances of Notification. *)
EXTENDS Notification

\* The last of the originals is an import, the others are submissions.
OneImport == [d \in 1..N |-> IF d = N THEN "import" ELSE "submission"]
=============================================================================
