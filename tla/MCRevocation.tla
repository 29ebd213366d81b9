---------------------------- MODULE MCRevocation ----------------------------
\* Instances of Revocation for TLC.  Sessions meet only in the tables and in
\* the watch channel, which none of them changes, so one of them is enough.
EXTENDS Revocation

CONSTANTS a1, a2, c1, c2, c3

\* c1 and c2 share an account: revoking one of them ends sessions of the other.
TwoAccounts == [c \in Credentials |-> IF c = c3 THEN a2 ELSE a1]

\* c2 may only read.
SecondReads == [c \in Credentials |-> IF c = c2 THEN "read_only" ELSE "mail"]
=============================================================================
