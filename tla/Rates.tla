------------------------------- MODULE Rates -------------------------------
(***************************************************************************)
(* The fixed-window counters that admit authentication attempts            *)
(* (server/src/auth.rs, Rates), as operators on tables.  A table maps every*)
(* key to its entry; a key that the code's HashMap does not hold has no    *)
(* attempts.  Time is counted in ticks: an entry knows its age in ticks up *)
(* to the window's length, beyond which the code does not distinguish      *)
(* ages, and attempts are counted up to one more than the limit.           *)
(***************************************************************************)
EXTENDS Naturals, FiniteSets

CONSTANTS Window,       \* ticks an entry counts for (60 s)
          Capacity      \* keys a table may hold (4096)

ASSUME RatesAssumption == Window \in Nat \ {0} /\ Capacity \in Nat \ {0}

Entry(limit) == [age : 0 .. Window, attempts : 0 .. limit + 1]
Unknown == [age |-> 0, attempts |-> 0]

Known(table) == {k \in DOMAIN table : table[k].attempts > 0}

\* A mistake the model must notice: the window ends a tick early.
ExpiredEarly(entry) == entry.age + 1 >= Window

Expired(entry) == entry.age >= Window

\* retain: the sweep keeps the entries younger than the window.
Sweep(table) == [k \in DOMAIN table |-> IF Expired(table[k]) THEN Unknown ELSE table[k]]

\* A new key finds no room: refused before anything is counted.
Full(table, k) == k \notin Known(table) /\ Cardinality(Known(table)) >= Capacity

\* A mistake the model must notice: the count wraps instead of saturating.
AttemptWraps(table, k, limit) ==
    LET entry == IF Expired(table[k]) THEN Unknown ELSE table[k]
        more  == entry.attempts + 1
    IN  [table EXCEPT ![k] = [age |-> entry.age,
                              attempts |-> IF more > limit THEN 0 ELSE more]]

\* attempt(): an expired entry starts again, then the attempt is counted,
\* whether or not it will be let through.
Attempt(table, k, limit) ==
    LET entry == IF Expired(table[k]) THEN Unknown ELSE table[k]
        more  == entry.attempts + 1
    IN  [table EXCEPT ![k] = [age |-> entry.age,
                              attempts |-> IF more > limit THEN limit + 1 ELSE more]]

\* A tick of the clock.
Older(table) ==
    [k \in DOMAIN table |->
        IF k \in Known(table) /\ ~Expired(table[k])
        THEN [table[k] EXCEPT !.age = @ + 1] ELSE table[k]]

-----------------------------------------------------------------------------
(* What the counters say of the attempts they let through: history[n] of   *)
(* them n ticks ago.                                                       *)

\* Those of the last n ticks, each by its tick and its number within the tick.
LetThrough(history, n) == UNION {{t} \X (1 .. history[t]) : t \in 0 .. n - 1}

PassedIn(history, n) == Cardinality(LetThrough(history, n))

\* What one key's entry says of the attempts let through.  A running window has
\* counted all of those since it began, after the attempt that began it in an
\* earlier tick; the ticks before it have seen less than one window's, since
\* that of the window before has left the stretch.  Without a running window
\* that is all, and nothing passed in this tick.
Paced(history, entry, limit) ==
    IF entry.attempts = 0 \/ Expired(entry)
    THEN /\ entry.attempts = 0 => entry = Unknown
         /\ history[0] = 0
         /\ PassedIn(history, Window) < limit
    ELSE LET since == PassedIn(history, entry.age + 1)
             later == PassedIn(history, entry.age)
         IN  /\ since <= entry.attempts /\ since <= limit
             /\ later < entry.attempts /\ later < limit
             /\ PassedIn(history, Window) < since + limit
=============================================================================
