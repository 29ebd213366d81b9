----------------------------- MODULE MCSession -----------------------------
\* Instances of Session for TLC.
EXTENDS Session

CONSTANTS alice, own, other

\* The account may use one of the two sender addresses.
OwnAddress == {<<alice, own>>}
=============================================================================
