---------------------------- MODULE MCAcceptance ----------------------------
(* Two accounts, one of which receives under two addresses.                *)
EXTENDS Acceptance, TLC

Home == (1 :> "ann") @@ (2 :> "ann") @@ (3 :> "bob")

Smtp(local, size) ==
    [source |-> "smtp", owner |-> Nobody, local |-> local, remote |-> {}, size |-> size]

Submission(local, remote, size) ==
    [source |-> "submission", owner |-> "bob", local |-> local, remote |-> remote, size |-> size]

Import(remote, size) ==
    [source |-> "import", owner |-> Nobody, local |-> {}, remote |-> remote, size |-> size]

Requests == {Smtp({1, 2}, 1), Smtp({1, 2, 3}, 1), Smtp({1, 3}, 1), Smtp({3}, 2),
             Submission({1}, {"away"}, 2), Submission({}, {"away"}, 1), Import({"away"}, 1)}
=============================================================================
