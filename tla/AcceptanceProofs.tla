-------------------------- MODULE AcceptanceProofs --------------------------
(***************************************************************************)
(* Proofs about Acceptance: for any accounts, addresses, plans and limits, *)
(* the counters of the mailboxes agree with their rows, a key stands for   *)
(* its whole plan and the answers are true.                                *)
(*                                                                         *)
(* A transaction goes from recipient to recipient, so what it commits is   *)
(* found by induction on the addresses: Handed is what holds after the     *)
(* first n of them.  The induction theorems of the library take a          *)
(* predicate, that is an operator, as their parameter, which first-order   *)
(* provers cannot instantiate; the lemmas that come first take the set of  *)
(* the numbers it holds for.                                               *)
(***************************************************************************)
EXTENDS Acceptance, FiniteSetTheorems, TLAPS

-----------------------------------------------------------------------------
(* Induction on natural numbers *)

\* A non-empty set of natural numbers has a least element.
LEMMA Least ==
  ASSUME NEW T, T \subseteq Nat, T # {}
  PROVE  \E x \in T : \A y \in T : x <= y
<1> DEFINE R == {ss \in Nat \X Nat : ss[1] < ss[2]}
<1>1. IsWellFoundedOn(R, Nat)
  BY NatLessThanWellFounded DEF OpToRel
<1>2. \E x \in T : \A y \in T : <<y, x>> \notin R
  <2> HIDE DEF R
  <2> QED
    BY <1>1, WFMin, ZenonT(40)
<1>3. PICK x \in T : \A y \in T : <<y, x>> \notin R
  BY <1>2
<1>4. ASSUME NEW y \in T PROVE x <= y
  <2>1. x \in Nat /\ y \in Nat
    OBVIOUS
  <2>2. <<y, x>> \notin {ss \in Nat \X Nat : ss[1] < ss[2]}
    BY <1>3
  <2>3. <<y, x>> \in Nat \X Nat /\ <<y, x>>[1] = y /\ <<y, x>>[2] = x
    BY <2>1
  <2>4. ~(y < x)
    BY <2>2, <2>3
  <2>5. QED
    BY <2>1, <2>4
<1>5. QED
  BY <1>4

\* What holds of 0 and is passed on from each number to the next holds up to n.
LEMMA Induct ==
  ASSUME NEW n \in Nat, NEW S, 0 \in S,
         \A i \in 1..n : i - 1 \in S => i \in S
  PROVE  0..n \subseteq S
<1> SUFFICES ASSUME (0..n) \ S # {}
             PROVE  FALSE
  OBVIOUS
<1> DEFINE T == (0..n) \ S
<1>1. PICK x \in T : \A y \in T : x <= y
  <2>1. T \subseteq Nat
    OBVIOUS
  <2> HIDE DEF T
  <2>2. QED
    BY <2>1, Least, ZenonT(40) DEF T
<1>2. x # 0 /\ x - 1 \in 0..n
  BY <1>1
<1>3. x - 1 \in S
  BY <1>1, <1>2
<1>4. QED
  BY <1>1, <1>2, <1>3

\* The steps of a loop of n rounds on states in S, and the states f it passes.
Steps(n, S) == [1..n -> [S -> S]]

Loop(f, n, S, start, step) ==
  /\ f \in [0..n -> S]
  /\ f[0] = start
  /\ \A i \in 1..n : f[i] = step[i][f[i - 1]]

\* A recursive function on 0..n exists: its value at 0 is given, and every other
\* one is computed from the one before by a step, itself a function.
LEMMA Recursion ==
  ASSUME NEW n \in Nat, NEW S, NEW start \in S, NEW step \in Steps(n, S)
  PROVE  \E f : Loop(f, n, S, start, step)
<1> USE DEF Steps
<1> DEFINE Upto(f, k) == f[0] = start /\ \A i \in 1..k : f[i] = step[i][f[i - 1]]
           K == {k \in 0..n : \E f \in [0..k -> S] : Upto(f, k)}
<1>1. 0 \in K
  <2>1. [i \in 0..0 |-> start] \in [0..0 -> S]
    OBVIOUS
  <2>2. Upto([i \in 0..0 |-> start], 0)
    OBVIOUS
  <2> HIDE DEF Upto
  <2>3. QED
    BY <2>1, <2>2
<1>2. ASSUME NEW k \in 1..n, k - 1 \in K PROVE k \in K
  <2>1. PICK f \in [0..(k - 1) -> S] : Upto(f, k - 1)
    BY <1>2
  <2>2. k - 1 \in 0..(k - 1) /\ f[k - 1] \in S
    OBVIOUS
  <2>3. PICK last \in S : last = step[k][f[k - 1]]
    BY <2>2
  <2> DEFINE g == [i \in 0..k |-> IF i = k THEN last ELSE f[i]]
  <2>4. g \in [0..k -> S]
    OBVIOUS
  <2>5. g[0] = start
    BY <2>1
  <2>6. ASSUME NEW i \in 1..k PROVE g[i] = step[i][g[i - 1]]
    <3>1. i - 1 \in 0..(k - 1) /\ i - 1 \in 0..k /\ i - 1 # k
      OBVIOUS
    <3>2. g[i - 1] = f[i - 1]
      BY <3>1
    <3>3. CASE i = k
      BY <2>3, <3>2, <3>3
    <3>4. CASE i # k
      <4>1. i \in 1..(k - 1) /\ g[i] = f[i]
        BY <3>4
      <4>2. QED
        BY <2>1, <3>2, <4>1
    <3>5. QED
      BY <3>3, <3>4
  <2>7. Upto(g, k)
    BY <2>5, <2>6, ZenonT(40)
  <2> HIDE DEF Upto, g
  <2>8. QED
    BY <2>4, <2>7
<1>3. 0..n \subseteq K
  <2> HIDE DEF K
  <2>1. QED
    BY <1>1, <1>2, Induct, ZenonT(40)
<1>4. QED
  BY <1>3 DEF Loop

-----------------------------------------------------------------------------
(* One delivery *)

\* The tables a transaction works on.
State == [account : [Accounts -> Account], inbox : SUBSET Copy, events : SUBSET Event,
          fits : BOOLEAN]

\* The rows that one delivery adds, and the counters it leaves.
CopyOf(t, key, address, size) ==
    [account |-> AccountOf[address], uid |-> t.account[AccountOf[address]].uidnext,
     key |-> key, address |-> address, size |-> size]

EventOf(t, address) ==
    [account |-> AccountOf[address], seq |-> t.account[AccountOf[address]].event + 1,
     uid |-> t.account[AccountOf[address]].uidnext]

\* A counter that has not reached its limit can be advanced.
LEMMA Counted ==
    \A max \in Nat :
        /\ \A n \in 1..(max + 1) : n <= max => n \in 1..max /\ n + 1 \in 1..(max + 1)
        /\ \A n \in 0..max : n # max => n + 1 \in 1..max /\ n + 1 \in 0..max
        /\ \A n \in Nat : max + n \in Nat
OBVIOUS

\* deliver's rows and counters, when target lets the message in.
LEMMA AddRowFacts ==
    ASSUME NEW t \in State, NEW key \in Keys, NEW address \in Addresses, NEW size \in Nat,
           Target(t, AccountOf[address], size), NEW a, a = AccountOf[address], NEW new,
           new = AddRow(t, key, address, size, t.account[a].uidnext)
    PROVE  /\ a \in Accounts /\ t.account[a] \in Account
           /\ t.account[a].uidnext \in 1..MaxUid /\ t.account[a].event + 1 \in 1..MaxEvent
           /\ CopyOf(t, key, address, size) \in Copy
           /\ EventOf(t, address) \in Event
           /\ Charge(t.account[a], size) \in Account
           /\ new.account = [t.account EXCEPT ![a] = Charge(t.account[a], size)]
           /\ new.inbox = t.inbox \cup {CopyOf(t, key, address, size)}
           /\ new.events = t.events \cup {EventOf(t, address)}
           /\ new.fits = t.fits
           /\ new \in State
<1>1. a \in Accounts
  BY AcceptanceAssumption
<1>2. t.account \in [Accounts -> Account] /\ t.inbox \in SUBSET Copy /\ t.events \in SUBSET Event
      /\ t.fits \in BOOLEAN
  BY DEF State
<1>3. t.account[a] \in Account
  BY <1>1, <1>2, ZenonT(40)
<1> DEFINE was == t.account[a]
<1>4. /\ was.status \in {"absent", "active", "disabled"} /\ was.quota \in Quotas \cup {0}
      /\ was.used \in Nat /\ was.uidnext \in 1..(MaxUid + 1) /\ was.event \in 0..MaxEvent
      /\ was = [status |-> was.status, quota |-> was.quota, used |-> was.used,
                uidnext |-> was.uidnext, event |-> was.event]
  BY <1>3 DEF Account
<1>5. was.uidnext <= MaxUid /\ was.event # MaxEvent
  BY DEF Target
<1>6. MaxUid \in Nat /\ MaxEvent \in Nat
  BY AcceptanceAssumption, ZenonT(40)
<1>7. was.uidnext \in 1..MaxUid /\ was.event + 1 \in 1..MaxEvent /\ was.used + size \in Nat
      /\ was.uidnext + 1 \in 1..(MaxUid + 1) /\ was.event + 1 \in 0..MaxEvent
  BY <1>4, <1>5, <1>6, Counted, ZenonT(40)
<1>8. CopyOf(t, key, address, size) \in Copy
  BY <1>1, <1>7, ZenonT(40) DEF CopyOf, Copy
<1>9. EventOf(t, address) \in Event
  BY <1>1, <1>7, ZenonT(40) DEF EventOf, Event
<1>10. Charge(t.account[a], size) \in Account
  BY <1>4, <1>7, ZenonT(40) DEF Charge, Account
<1>11. /\ new.inbox = t.inbox \cup {CopyOf(t, key, address, size)}
       /\ new.events = t.events \cup {EventOf(t, address)}
       /\ new.fits = t.fits
  <2>1. new.inbox = t.inbox \cup {CopyOf(t, key, address, size)}
    BY DEF AddRow, CopyOf, State
  <2>2. new.events = t.events \cup {EventOf(t, address)}
    BY DEF AddRow, EventOf, State
  <2>3. new.fits = t.fits
    BY DEF AddRow, State
  <2>4. QED
    BY <2>1, <2>2, <2>3, ZenonT(40)
<1>12. new.account = [t.account EXCEPT ![a] = Charge(t.account[a], size)]
  BY <1>1, <1>2, ZenonT(40) DEF AddRow
<1>13. new \in State
  <2>1. new = [account |-> new.account, inbox |-> new.inbox, events |-> new.events, fits |-> new.fits]
    BY DEF AddRow, State
  <2>2. new.account \in [Accounts -> Account]
    BY <1>1, <1>2, <1>10, <1>12
  <2>3. QED
    BY <1>2, <1>8, <1>9, <1>11, <2>1, <2>2, ZenonT(40) DEF State
<1>14. QED
  BY <1>1, <1>3, <1>7, <1>8, <1>9, <1>10, <1>11, <1>12, <1>13, ZenonT(40)

\* deliver keeps the types, whether or not the message fits.
LEMMA DeliverTyped ==
    ASSUME NEW t \in State, NEW key \in Keys, NEW address \in Addresses, NEW size \in Nat
    PROVE  Deliver(t, key, address, size) \in State
<1>1. CASE t.fits /\ Target(t, AccountOf[address], size)
  BY <1>1, AddRowFacts, ZenonT(40) DEF Deliver
<1>2. CASE ~(t.fits /\ Target(t, AccountOf[address], size))
  BY <1>2, ZenonT(40) DEF Deliver, State
<1>3. QED
  BY <1>1, <1>2

\* The transaction goes through the addresses in order.
LEMMA ProgressFacts ==
    ASSUME TypeOK, NEW key \in Keys, NEW p \in Plan
    PROVE  /\ Progress(key, p) \in [0..NumAddresses -> State]
           /\ Progress(key, p)[0] =
                  [account |-> account, inbox |-> inbox, events |-> events, fits |-> TRUE]
           /\ \A n \in 1..NumAddresses :
                  Progress(key, p)[n] = IF n \in p.local
                                        THEN Deliver(Progress(key, p)[n - 1], key, n, p.size)
                                        ELSE Progress(key, p)[n - 1]
<1> DEFINE begun == [account |-> account, inbox |-> inbox, events |-> events, fits |-> TRUE]
           Move(n, t) == IF n \in p.local THEN Deliver(t, key, n, p.size) ELSE t
           step == [n \in 1..NumAddresses |-> [t \in State |-> Move(n, t)]]
           Body(f) == [n \in 0..NumAddresses |-> IF n = 0 THEN begun ELSE Move(n, f[n - 1])]
<1>1. NumAddresses \in Nat
  BY AcceptanceAssumption
<1>2. begun \in State
  BY DEF TypeOK, State
<1>3. ASSUME NEW n \in 1..NumAddresses, NEW t \in State PROVE Move(n, t) \in State
  <2>1. n \in Addresses /\ p.size \in Nat
    BY DEF Addresses, Plan
  <2>2. QED
    BY <2>1, DeliverTyped
<1> HIDE DEF begun, Move
<1>4. step \in Steps(NumAddresses, State)
  BY <1>3 DEF Steps
<1>5. PICK f : Loop(f, NumAddresses, State, begun, step)
  <2> HIDE DEF step
  <2>1. QED
    BY <1>1, <1>2, <1>4, Recursion
<1>6. f \in [0..NumAddresses -> State] /\ f[0] = begun
  BY <1>5 DEF Loop
<1>7. \A n \in 1..NumAddresses : f[n] = Move(n, f[n - 1])
  <2> SUFFICES ASSUME NEW n \in 1..NumAddresses PROVE f[n] = Move(n, f[n - 1])
    OBVIOUS
  <2>1. n - 1 \in 0..NumAddresses /\ f[n - 1] \in State
    BY <1>1, <1>6
  <2>2. f[n] = step[n][f[n - 1]]
    BY <1>5 DEF Loop
  <2>3. QED
    BY <2>1, <2>2
<1>8. f = Body(f)
  BY <1>1, <1>6, <1>7
<1>9. Progress(key, p) = CHOOSE g : g = Body(g)
  BY DEF Progress, Move, begun
<1>10. Progress(key, p) = Body(Progress(key, p))
  <2> HIDE DEF Body
  <2>1. QED
    BY <1>8, <1>9
<1> DEFINE g == Progress(key, p)
<1>11. /\ g = [n \in 0..NumAddresses |-> g[n]]
       /\ g[0] = begun
       /\ \A n \in 1..NumAddresses : g[n] = Move(n, g[n - 1])
  <2> HIDE DEF g
  <2>1. g = [n \in 0..NumAddresses |-> IF n = 0 THEN begun ELSE Move(n, g[n - 1])]
    BY <1>10, ZenonT(40) DEF g
  <2>2. 0 \in 0..NumAddresses
    BY <1>1
  <2>3. \A n \in 1..NumAddresses : n \in 0..NumAddresses /\ n # 0
    BY <1>1
  <2>4. g = [n \in 0..NumAddresses |-> g[n]]
    BY <2>1, ZenonT(40)
  <2>5. g[0] = begun
    BY <2>1, <2>2, ZenonT(40)
  <2>6. \A n \in 1..NumAddresses : g[n] = Move(n, g[n - 1])
    BY <2>1, <2>3, ZenonT(40)
  <2>7. QED
    BY <2>4, <2>5, <2>6, ZenonT(40)
<1>12. \A n \in 0..NumAddresses : g[n] \in State
  <2> DEFINE S == {n \in 0..NumAddresses : g[n] \in State}
  <2> HIDE DEF g
  <2>1. 0 \in S
    BY <1>1, <1>2, <1>11
  <2>2. ASSUME NEW i \in 1..NumAddresses, i - 1 \in S PROVE i \in S
    <3>1. g[i - 1] \in State /\ i \in 0..NumAddresses /\ g[i] = Move(i, g[i - 1])
      BY <1>1, <1>11, <2>2
    <3>2. QED
      BY <1>3, <3>1
  <2>3. 0..NumAddresses \subseteq S
    <3> HIDE DEF S
    <3>1. QED
      BY <1>1, <2>1, <2>2, Induct
  <2>4. QED
    BY <2>3
<1>13. g \in [0..NumAddresses -> State]
  <2> HIDE DEF g
  <2>1. QED
    BY <1>11, <1>12
<1>14. QED
  BY <1>11, <1>13, ZenonT(40) DEF begun, Move

-----------------------------------------------------------------------------
(* The books *)

\* The bytes of one copy.
LEMMA CopyBytes ==
    ASSUME NEW r, r.size \in Nat
    PROVE  IsFiniteSet(BytesOf(r)) /\ Cardinality(BytesOf(r)) = r.size
<1> DEFINE n == r.size
           B == BytesOf(r)
           f == [i \in 1..n |-> <<r, i>>]
<1>1. f \in Bijection(1..n, B)
  BY DEF Bijection, Injection, Surjection, IsInjective, BytesOf
<1>2. ExistsBijection(1..n, B)
  BY <1>1 DEF ExistsBijection
<1>3. n \in Nat
  OBVIOUS
<1> HIDE DEF n, B
<1>4. IsFiniteSet(1..n) /\ Cardinality(1..n) = n
  BY <1>3, FS_Interval
<1>5. IsFiniteSet(B) /\ Cardinality(B) = n
  BY <1>2, <1>4, FS_Bijection
<1>6. QED
  BY <1>5 DEF B, n

\* One more copy adds its size.
LEMMA BytesAdd ==
    ASSUME NEW C, NEW r, r \notin C, r.size \in Nat, IsFiniteSet(Bytes(C))
    PROVE  /\ IsFiniteSet(Bytes(C \cup {r}))
           /\ Cardinality(Bytes(C \cup {r})) = Cardinality(Bytes(C)) + r.size
<1> DEFINE B == BytesOf(r)
           A == Bytes(C)
<1>1. IsFiniteSet(B) /\ Cardinality(B) = r.size
  BY CopyBytes
<1>2. Bytes(C \cup {r}) = A \cup B
  BY DEF Bytes
<1>3. A \cap B = {}
  BY DEF Bytes, BytesOf
<1>4. IsFiniteSet(A) /\ Cardinality(A) \in Nat
  BY FS_CardinalityType
<1> HIDE DEF A, B
<1>5. IsFiniteSet(A \cup B) /\ Cardinality(A \cup B) = Cardinality(A) + Cardinality(B) - Cardinality({})
  BY <1>1, <1>3, <1>4, FS_Union
<1>6. Cardinality({}) = 0
  BY FS_EmptySet
<1>7. Cardinality(A \cup B) = Cardinality(A) + r.size
  <2> DEFINE n == r.size
             m == Cardinality(A)
             k == Cardinality(A \cup B)
  <2>1. n \in Nat /\ m \in Nat /\ k = m + n - 0
    BY <1>1, <1>4, <1>5, <1>6
  <2> HIDE DEF n, m, k
  <2>2. k = m + n
    BY <2>1
  <2>3. QED
    BY <2>2 DEF n, m, k
<1>8. QED
  BY <1>2, <1>5, <1>7, ZenonT(40) DEF A

\* A number is below the next one.
LEMMA Successor == \A x, y \in Nat : x < x + 1 /\ (x < y => x < y + 1)
OBVIOUS

\* Copies and events carry an account and a UID.
LEMMA UidTypes ==
    /\ \A r \in Copy : r.account \in Accounts /\ r.uid \in Nat
    /\ \A e \in Event : e.account \in Accounts /\ e.uid \in Nat
BY DEF Copy, Event

\* One delivery keeps the books: its UID and its event number are new.
LEMMA DeliverBooks ==
    ASSUME NEW t \in State, NEW key \in Keys, NEW address \in Addresses, NEW size \in Nat,
           Books(t.account, t.inbox, t.events),
           Target(t, AccountOf[address], size), NEW a, a = AccountOf[address], NEW new,
           new = AddRow(t, key, address, size, t.account[a].uidnext)
    PROVE  Books(new.account, new.inbox, new.events)
<1> DEFINE c == CopyOf(t, key, address, size)
           v == EventOf(t, address)
           u == t.account[a].uidnext
           q == t.account[a].event + 1
<1>a. a \in Accounts /\ t.account[a] \in Account /\ u \in 1..MaxUid /\ q \in 1..MaxEvent
  BY AddRowFacts, ZenonT(40)
<1>b. new.inbox = t.inbox \cup {c} /\ new.events = t.events \cup {v}
  <2>1. new.inbox = t.inbox \cup {c}
    BY DEF AddRow, CopyOf, State
  <2>2. new.events = t.events \cup {v}
    BY DEF AddRow, EventOf, State
  <2>3. QED
    BY <2>1, <2>2, Zenon
<1>c. new.account = [t.account EXCEPT ![a] = Charge(t.account[a], size)]
  BY AddRowFacts
<1>e. c \in Copy
  BY AddRowFacts, ZenonT(40)
<1>f. v \in Event
  BY AddRowFacts, ZenonT(40)
<1>1. /\ a \in Accounts /\ t.account[a] \in Account
      /\ u \in 1..MaxUid /\ q \in 1..MaxEvent
      /\ c \in Copy /\ v \in Event
  BY <1>a, <1>e, <1>f, Zenon
<1>2. /\ c.account = a /\ c.uid = u /\ c.size = size
      /\ v.account = a /\ v.seq = q /\ v.uid = u
  BY ZenonT(40) DEF CopyOf, EventOf
<1>3. /\ t.account \in [Accounts -> Account]
      /\ t.account[a].status = "active" /\ t.account[a].used + size <= t.account[a].quota
      /\ t.account[a].used \in Nat
      /\ t.account[a].event \in Nat
      /\ MaxUid \in Nat
  BY <1>1, AcceptanceAssumption DEF State, Target, Account
<1>d. u \in Nat
  BY <1>1, <1>3
<1>4. /\ new.account[a] = Charge(t.account[a], size)
      /\ \A b \in Accounts \ {a} : new.account[b] = t.account[b]
  BY <1>1, <1>3, <1>c, ZenonT(40)
<1>5. /\ Charge(t.account[a], size).used = t.account[a].used + size
      /\ Charge(t.account[a], size).quota = t.account[a].quota
      /\ Charge(t.account[a], size).status = t.account[a].status
      /\ Charge(t.account[a], size).uidnext = u + 1
      /\ Charge(t.account[a], size).event = q
  BY ZenonT(40) DEF Charge
<1>6. /\ \A r \in t.inbox : r \in Copy /\ r.account \in Accounts
      /\ \A r \in t.inbox : r.uid < t.account[r.account].uidnext
      /\ \A e \in t.events : e \in Event /\ e.uid < t.account[e.account].uidnext
  BY ZenonT(40) DEF State, Books, Copy
<1>7. /\ c \notin t.inbox /\ v \notin t.events
      /\ \A r \in t.inbox : ~(r.account = a /\ r.uid = u)
      /\ \A e \in t.events : ~(e.account = a /\ e.uid = u)
  BY <1>2, <1>3, <1>6, <1>1
<1> HIDE DEF c, v, u, q
<1>8. ASSUME NEW b \in Accounts
      PROVE  /\ IsFiniteSet(Bytes({r \in new.inbox : r.account = b}))
             /\ new.account[b].used = Cardinality(Bytes({r \in new.inbox : r.account = b}))
             /\ new.account[b].used <= new.account[b].quota
             /\ new.account[b].status = "absent" => Fresh(new.account[b])
  <2> DEFINE C == {r \in t.inbox : r.account = b}
  <2>1. /\ IsFiniteSet(Bytes(C)) /\ t.account[b].used = Cardinality(Bytes(C))
        /\ t.account[b].used <= t.account[b].quota
        /\ t.account[b].status = "absent" => Fresh(t.account[b])
    BY DEF Books
  <2>2. CASE b = a
    <3>1. {r \in new.inbox : r.account = b} = C \cup {c} /\ c \notin C
      BY <1>2, <1>7, <1>b, <2>2
    <3>2. c.size \in Nat
      BY <1>2, ZenonT(40)
    <3> HIDE DEF C
    <3>3. /\ IsFiniteSet(Bytes(C \cup {c}))
          /\ Cardinality(Bytes(C \cup {c})) = Cardinality(Bytes(C)) + c.size
      BY <2>1, <3>1, <3>2, BytesAdd
    <3>4. QED
      BY <1>2, <1>3, <1>4, <1>5, <2>1, <2>2, <3>1, <3>3, ZenonT(40)
  <2>3. CASE b # a
    <3>1. {r \in new.inbox : r.account = b} = C
      BY <1>2, <1>b, <2>3
    <3> HIDE DEF C
    <3>2. QED
      BY <1>4, <2>1, <2>3, <3>1, ZenonT(40)
  <2>4. QED
    BY <2>2, <2>3, ZenonT(40)
<1>9. ASSUME NEW b \in Accounts
      PROVE  {e.seq : e \in {e \in new.events : e.account = b}} = 1..new.account[b].event
  <2>1. {e.seq : e \in {e \in t.events : e.account = b}} = 1..t.account[b].event
    BY ZenonT(40) DEF Books
  <2>2. CASE b = a
    <3>1. {e.seq : e \in {e \in new.events : e.account = b}}
              = {e.seq : e \in {e \in t.events : e.account = b}} \cup {q}
      BY <1>2, <1>b, <2>2, ZenonT(40)
    <3>2. 1..t.account[a].event \cup {q} = 1..q
      BY <1>3 DEF q
    <3>3. QED
      BY <1>4, <1>5, <2>1, <2>2, <3>1, <3>2, ZenonT(40)
  <2>3. CASE b # a
    <3>1. {e \in new.events : e.account = b} = {e \in t.events : e.account = b}
      BY <1>2, <1>b, <2>3
    <3>2. QED
      BY <1>4, <2>1, <2>3, <3>1, ZenonT(40)
  <2>4. QED
    BY <2>2, <2>3, ZenonT(40)
<1>10. \A r \in new.inbox : r.uid < new.account[r.account].uidnext
  <2> TAKE r \in new.inbox
  <2>1. CASE r = c
    <3>1. r.uid = u /\ new.account[r.account].uidnext = u + 1
      BY <1>2, <1>4, <1>5, <2>1, ZenonT(40)
    <3>2. u \in Nat
      BY <1>d, Zenon
    <3>3. QED
      BY <3>1, <3>2, Successor, ZenonT(40)
  <2>2. CASE r \in t.inbox
    <3>1. r.account \in Accounts /\ r.uid \in Nat /\ r.uid < t.account[r.account].uidnext
      BY <1>6, <2>2, UidTypes, ZenonT(40)
    <3>2. CASE r.account = a
      <4>1. new.account[r.account].uidnext = u + 1 /\ r.uid < u
        BY <1>4, <1>5, <3>1, <3>2, ZenonT(40) DEF u
      <4>2. u \in Nat
        BY <1>d, Zenon
      <4>3. QED
        BY <3>1, <4>1, <4>2, Successor, ZenonT(40)
    <3>3. CASE r.account # a
      BY <1>4, <3>1, <3>3, ZenonT(40)
    <3>4. QED
      BY <3>2, <3>3, ZenonT(40)
  <2>3. QED
    BY <1>b, <2>1, <2>2, Zenon
<1>11. \A e \in new.events : e.uid < new.account[e.account].uidnext
  <2> TAKE e \in new.events
  <2>1. CASE e = v
    <3>1. e.uid = u /\ new.account[e.account].uidnext = u + 1
      BY <1>2, <1>4, <1>5, <2>1, ZenonT(40)
    <3>2. u \in Nat
      BY <1>d, Zenon
    <3>3. QED
      BY <3>1, <3>2, Successor, ZenonT(40)
  <2>2. CASE e \in t.events
    <3>1. e.account \in Accounts /\ e.uid \in Nat /\ e.uid < t.account[e.account].uidnext
      BY <1>6, <2>2, UidTypes, ZenonT(40)
    <3>2. CASE e.account = a
      <4>1. new.account[e.account].uidnext = u + 1 /\ e.uid < u
        BY <1>4, <1>5, <3>1, <3>2, ZenonT(40) DEF u
      <4>2. u \in Nat
        BY <1>d, Zenon
      <4>3. QED
        BY <3>1, <4>1, <4>2, Successor, ZenonT(40)
    <3>3. CASE e.account # a
      BY <1>4, <3>1, <3>3, ZenonT(40)
    <3>4. QED
      BY <3>2, <3>3, ZenonT(40)
  <2>3. QED
    BY <1>b, <2>1, <2>2, Zenon
<1>12. \A r, s \in new.inbox : (r.account = s.account /\ r.uid = s.uid) => r = s
  <2> SUFFICES ASSUME NEW r \in new.inbox, NEW s \in new.inbox,
                      r.account = s.account, r.uid = s.uid
               PROVE  r = s
    BY ZenonT(40)
  <2>1. (r \in t.inbox \/ r = c) /\ (s \in t.inbox \/ s = c)
    BY <1>b, Zenon
  <2>2. r \in t.inbox /\ s \in t.inbox => r = s
    BY ZenonT(40) DEF Books
  <2>3. QED
    BY <1>2, <1>7, <2>1, <2>2, ZenonT(40)
<1>13. \A r \in new.inbox : \E e \in new.events :
           {f \in new.events : f.account = r.account /\ f.uid = r.uid} = {e}
  <2> TAKE r \in new.inbox
  <2>1. CASE r = c
    <3>1. {f \in new.events : f.account = r.account /\ f.uid = r.uid} = {v}
      <4>1. r.account = a /\ r.uid = u
        BY <1>2, <2>1
      <4>2. ASSUME NEW f \in new.events PROVE (f.account = a /\ f.uid = u) <=> f = v
        <5>1. CASE f = v
          BY <1>2, <5>1
        <5>2. CASE f # v
          <6>1. f \in t.events
            BY <1>b, <5>2, Zenon
          <6>2. ~(f.account = a /\ f.uid = u)
            BY <1>7, <6>1, Zenon
          <6>3. QED
            BY <5>2, <6>2, Zenon
        <5>3. QED
          BY <5>1, <5>2, ZenonT(40)
      <4>3. v \in new.events
        BY <1>b, Zenon
      <4>4. {f \in new.events : f.account = a /\ f.uid = u} = {v}
        BY <4>2, <4>3
      <4>5. QED
        BY <4>1, <4>4, ZenonT(40)
    <3>2. QED
      BY <1>b, <3>1, Zenon
  <2>2. CASE r \in t.inbox
    <3>1. PICK e \in t.events : {f \in t.events : f.account = r.account /\ f.uid = r.uid} = {e}
      BY <2>2, ZenonT(40) DEF Books
    <3>2. {f \in new.events : f.account = r.account /\ f.uid = r.uid}
              = {f \in t.events : f.account = r.account /\ f.uid = r.uid}
      BY <1>2, <1>7, <1>b, <2>2
    <3>3. QED
      BY <1>b, <3>1, <3>2, Zenon
  <2>3. QED
    BY <1>b, <2>1, <2>2, Zenon
<1>14. QED
  BY <1>8, <1>9, <1>10, <1>11, <1>12, <1>13, ZenonT(40) DEF Books

-----------------------------------------------------------------------------
(* All deliveries of a transaction *)

\* The transaction for plan p under a new key, after the first n addresses: its
\* books are right, no other key's copies have changed, and the key has one copy
\* for every recipient among those addresses.
Handed(key, p, t, n) ==
    /\ Books(t.account, t.inbox, t.events)
    /\ \A r \in Copy : r.key # key => (r \in t.inbox <=> r \in inbox)
    /\ \A r \in t.inbox : r.key = key => r.address \in p.local /\ r.address <= n
    /\ \A i \in p.local : i <= n => \E r \in t.inbox : r.key = key /\ r.address = i
    /\ \A r, s \in t.inbox : (r.key = key /\ s.key = key /\ r.address = s.address) => r = s

\* The copy that deliver adds.
LEMMA RowAdded ==
    ASSUME NEW t \in State, NEW key \in Keys, NEW address \in Addresses, NEW size \in Nat,
           Target(t, AccountOf[address], size), NEW a, a = AccountOf[address], NEW new,
           new = AddRow(t, key, address, size, t.account[a].uidnext)
    PROVE  /\ CopyOf(t, key, address, size) \in Copy
           /\ new.inbox = t.inbox \cup {CopyOf(t, key, address, size)}
<1>1. CopyOf(t, key, address, size) \in Copy
  BY AddRowFacts, ZenonT(40)
<1>2. new.inbox = t.inbox \cup {CopyOf(t, key, address, size)}
  BY DEF AddRow, CopyOf, State
<1>3. QED
  BY <1>1, <1>2

\* One recipient more.
LEMMA HandedRow ==
    ASSUME NEW t \in State, NEW key \in Keys, NEW p \in Plan, NEW n \in Addresses,
           n \in p.local, Handed(key, p, t, n - 1), NEW size, size = p.size, NEW a,
           a = AccountOf[n], Target(t, a, size), NEW new,
           new = AddRow(t, key, n, size, t.account[a].uidnext)
    PROVE  Handed(key, p, new, n)
<1> DEFINE c == CopyOf(t, key, n, size)
<1>1. size \in Nat /\ n \in Nat
  BY AcceptanceAssumption DEF Plan, Addresses
<1>2. c \in Copy /\ new.inbox = t.inbox \cup {c}
  BY <1>1, RowAdded
<1>3. c.key = key /\ c.address = n
  BY ZenonT(40) DEF CopyOf
<1>4. Books(new.account, new.inbox, new.events)
  <2>1. Books(t.account, t.inbox, t.events)
    BY ZenonT(40) DEF Handed
  <2>2. QED
    BY <1>1, <2>1, DeliverBooks, ZenonT(40)
<1> HIDE DEF c
<1>5. /\ \A r \in Copy : r.key # key => (r \in t.inbox <=> r \in inbox)
      /\ \A r \in t.inbox : r.key = key => r.address \in p.local /\ r.address <= n - 1
      /\ \A i \in p.local : i <= n - 1 => \E r \in t.inbox : r.key = key /\ r.address = i
      /\ \A r, s \in t.inbox : (r.key = key /\ s.key = key /\ r.address = s.address) => r = s
  BY ZenonT(40) DEF Handed
<1>6. \A r \in t.inbox : r \in Copy /\ r.address \in Nat
  BY AcceptanceAssumption DEF State, Copy, Addresses
<1>7. \A r \in Copy : r.key # key => (r \in new.inbox <=> r \in inbox)
  BY <1>2, <1>3, <1>5, ZenonT(40)
<1>8. \A r \in new.inbox : r.key = key => r.address \in p.local /\ r.address <= n
  BY <1>1, <1>2, <1>3, <1>5, <1>6
<1>9. \A i \in p.local : i <= n => \E r \in new.inbox : r.key = key /\ r.address = i
  <2> SUFFICES ASSUME NEW i \in p.local, i <= n
               PROVE  \E r \in new.inbox : r.key = key /\ r.address = i
    OBVIOUS
  <2>1. i \in Nat
    BY AcceptanceAssumption DEF Plan, Addresses
  <2>2. CASE i = n
    BY <1>2, <1>3, <2>2, ZenonT(40)
  <2>3. CASE i # n
    BY <1>1, <1>2, <1>5, <2>1, <2>3
  <2>4. QED
    BY <2>2, <2>3, ZenonT(40)
<1>10. \A r \in t.inbox : r.key = key => r.address # n
  BY <1>1, <1>5, <1>6
<1>11. \A r, s \in new.inbox : (r.key = key /\ s.key = key /\ r.address = s.address) => r = s
  BY <1>2, <1>3, <1>5, <1>10
<1>12. QED
  BY <1>4, <1>7, <1>8, <1>9, <1>11, ZenonT(40) DEF Handed

\* One recipient more, in a transaction that goes on.
LEMMA HandedOne ==
    ASSUME NEW t \in State, NEW key \in Keys, NEW p \in Plan, NEW n \in Addresses,
           n \in p.local, Handed(key, p, t, n - 1), NEW new,
           new = Deliver(t, key, n, p.size), new.fits
    PROVE  Handed(key, p, new, n)
<1>1. t.fits /\ Target(t, AccountOf[n], p.size)
  <2>1. ASSUME ~(t.fits /\ Target(t, AccountOf[n], p.size)) PROVE FALSE
    <3>1. new = [t EXCEPT !.fits = FALSE]
      BY <2>1 DEF Deliver
    <3>2. new.fits = FALSE
      BY <3>1 DEF State
    <3>3. QED
      BY <3>2
  <2>2. QED
    BY <2>1
<1>2. new = AddRow(t, key, n, p.size, t.account[AccountOf[n]].uidnext)
  BY <1>1, ZenonT(40) DEF Deliver
<1>3. QED
  BY <1>1, <1>2, HandedRow, ZenonT(40)

\* An address that is not a recipient.
LEMMA HandedNone ==
    ASSUME NEW t \in State, NEW key \in Keys, NEW p \in Plan, NEW n \in Addresses,
           n \notin p.local, Handed(key, p, t, n - 1)
    PROVE  Handed(key, p, t, n)
<1>1. n \in Nat /\ \A i \in p.local : i \in Nat /\ i # n
  BY AcceptanceAssumption DEF Plan, Addresses
<1>2. \A i \in p.local : i <= n => i <= n - 1
  BY <1>1
<1>3. \A r \in t.inbox : r.key = key => r.address \in p.local /\ r.address <= n - 1
  BY DEF Handed
<1>4. \A r \in t.inbox : r.key = key => r.address <= n
  BY <1>1, <1>3
<1>5. QED
  BY <1>2, <1>3, <1>4, ZenonT(40) DEF Handed

\* The whole transaction, if the message fits everywhere.
LEMMA HandedAll ==
    ASSUME TypeOK, Books(account, inbox, events), NEW key \in Keys, NEW p \in Plan,
           \A r \in inbox : r.key # key, Delivered(key, p).fits
    PROVE  /\ Delivered(key, p) \in State
           /\ Handed(key, p, Delivered(key, p), NumAddresses)
<1> DEFINE g == Progress(key, p)
           S == {n \in 0..NumAddresses : g[n].fits => Handed(key, p, g[n], n)}
           begun == [account |-> account, inbox |-> inbox, events |-> events, fits |-> TRUE]
<1>1. NumAddresses \in Nat
  BY AcceptanceAssumption
<1>2. /\ g \in [0..NumAddresses -> State]
      /\ g[0] = begun
      /\ \A n \in 1..NumAddresses :
             g[n] = IF n \in p.local THEN Deliver(g[n - 1], key, n, p.size) ELSE g[n - 1]
  BY ProgressFacts, ZenonT(40)
<1> HIDE DEF g
<1>3. 0 \in S
  <2>1. \A i \in p.local : ~(i <= 0)
    BY AcceptanceAssumption DEF Plan, Addresses
  <2>2. g[0].account = account /\ g[0].inbox = inbox /\ g[0].events = events
    BY <1>2
  <2>3. Handed(key, p, g[0], 0)
    BY <2>1, <2>2, ZenonT(40) DEF Handed
  <2>4. QED
    BY <1>1, <2>3
<1>4. ASSUME NEW n \in 1..NumAddresses, n - 1 \in S PROVE n \in S
  <2>1. n \in Addresses /\ n \in 0..NumAddresses /\ n - 1 \in 0..NumAddresses
    BY <1>1 DEF Addresses
  <2>2. g[n - 1] \in State /\ (g[n - 1].fits => Handed(key, p, g[n - 1], n - 1))
    BY <1>2, <1>4, <2>1
  <2>3. SUFFICES ASSUME g[n].fits PROVE Handed(key, p, g[n], n)
    BY <2>1, ZenonT(40)
  <2>4. CASE n \in p.local
    <3>1. g[n] = Deliver(g[n - 1], key, n, p.size)
      BY <1>2, <2>4, ZenonT(40)
    <3>2. g[n - 1].fits
      <4>1. ASSUME ~g[n - 1].fits PROVE FALSE
        <5>1. g[n] = [g[n - 1] EXCEPT !.fits = FALSE]
          BY <3>1, <4>1 DEF Deliver
        <5>2. g[n].fits = FALSE
          BY <2>2, <5>1, ZenonT(40) DEF State
        <5>3. QED
          BY <2>3, <5>2
      <4>2. QED
        BY <4>1
    <3>3. QED
      BY <2>1, <2>2, <2>3, <2>4, <3>1, <3>2, HandedOne, ZenonT(40)
  <2>5. CASE n \notin p.local
    BY <1>2, <2>1, <2>2, <2>3, <2>5, HandedNone
  <2>6. QED
    BY <2>4, <2>5
<1>5. 0..NumAddresses \subseteq S
  <2> HIDE DEF S
  <2>1. QED
    BY <1>1, <1>3, <1>4, Induct, ZenonT(40)
<1>6. NumAddresses \in S /\ g[NumAddresses] \in State
  BY <1>1, <1>2, <1>5
<1>7. QED
  BY <1>6, ZenonT(40) DEF Delivered, g

\* Every plan is well formed, and none is the absent one.
LEMMA PlansSound == \A p \in AllPlans : p \in Plan /\ p # NoPlan
<1> SUFFICES ASSUME NEW p \in AllPlans PROVE p \in Plan /\ p # NoPlan
  OBVIOUS
<1>1. CASE p \in Plans
  <2>1. p \in Plan
    BY <1>1, AcceptanceAssumption
  <2>2. p.source # "none"
    BY <2>1 DEF Plan
  <2>3. QED
    BY <2>1, <2>2 DEF NoPlan
<1>2. CASE p \in ReportPlans
  <2>1. p.source = "dsn" /\ p \in Plan
    BY <1>2, AcceptanceAssumption DEF ReportPlans, Plan
  <2>2. QED
    BY <2>1 DEF NoPlan
<1>3. QED
  BY <1>1, <1>2 DEF AllPlans

\* What a committed transaction leaves.
LEMMA CommitKeeps ==
    ASSUME Inv, NEW key \in Keys, NEW p \in AllPlans, message[key] = NoPlan, Commit(key, p)
    PROVE  /\ account' \in [Accounts -> Account] /\ inbox' \in SUBSET Copy
           /\ events' \in SUBSET Event /\ message' \in [Keys -> AllPlans \cup {NoPlan}]
           /\ relayed' \in SUBSET [key : Keys, recipient : RelayAddresses]
           /\ Books(account', inbox', events')
           /\ AllOrNothing'
           /\ message'[key] = p /\ \A k \in Keys \ {key} : message'[k] = message[k]
<1> DEFINE t == Delivered(key, p)
<1>1. p \in Plan /\ p.local \subseteq Addresses /\ p.remote \subseteq RelayAddresses
  BY PlansSound DEF Plan
<1>2. TypeOK /\ Books(account, inbox, events) /\ AllOrNothing
  BY ZenonT(40) DEF Inv
<1>3. \A r \in inbox : r.key # key
  BY <1>2 DEF AllOrNothing, NoPlan
<1>4. t.fits
  BY ZenonT(40) DEF Commit
<1>5. t \in State /\ Handed(key, p, t, NumAddresses)
  BY <1>1, <1>2, <1>3, <1>4, HandedAll, ZenonT(40)
<1>6. /\ account' = t.account /\ inbox' = t.inbox /\ events' = t.events
      /\ message' = [message EXCEPT ![key] = p]
      /\ relayed' = relayed \cup {[key |-> key, recipient |-> r] : r \in p.remote}
  BY ZenonT(40) DEF Commit
<1> HIDE DEF t
<1>7. /\ account' \in [Accounts -> Account] /\ inbox' \in SUBSET Copy
      /\ events' \in SUBSET Event
  BY <1>5, <1>6 DEF State
<1>8. /\ message \in [Keys -> AllPlans \cup {NoPlan}]
      /\ relayed \in SUBSET [key : Keys, recipient : RelayAddresses]
      /\ inbox \in SUBSET Copy
  BY <1>2, ZenonT(40) DEF TypeOK
<1>9. /\ message' \in [Keys -> AllPlans \cup {NoPlan}]
      /\ message'[key] = p /\ \A k \in Keys \ {key} : message'[k] = message[k]
  BY <1>6, <1>8, ZenonT(40)
<1>10. relayed' \in SUBSET [key : Keys, recipient : RelayAddresses]
  BY <1>1, <1>6, <1>8
<1>11. Books(account', inbox', events')
  BY <1>5, <1>6, ZenonT(40) DEF Handed
<1>12. /\ \A r \in Copy : r.key # key => (r \in inbox' <=> r \in inbox)
       /\ \A r \in inbox' : r.key = key => r.address \in p.local
       /\ \A i \in p.local : i <= NumAddresses => \E r \in inbox' : r.key = key /\ r.address = i
       /\ \A r, s \in inbox' : (r.key = key /\ s.key = key /\ r.address = s.address) => r = s
  BY <1>5, <1>6, ZenonT(40) DEF Handed
<1>13. \A i \in p.local : \E r \in inbox' : r.key = key /\ r.address = i
  BY <1>1, <1>12, AcceptanceAssumption DEF Addresses
<1>14. ASSUME NEW k \in Keys
       PROVE  /\ {r.address : r \in {r \in inbox' : r.key = k}} = message'[k].local
              /\ \A r, s \in inbox' : (r.key = k /\ s.key = k /\ r.address = s.address) => r = s
              /\ {r.recipient : r \in {r \in relayed' : r.key = k}} = message'[k].remote
  <2>1. CASE k = key
    <3>1. {r.address : r \in {r \in inbox' : r.key = k}} = p.local
      BY <1>12, <1>13, <2>1
    <3>2. \A x \in relayed : x.key # key
      BY <1>2 DEF AllOrNothing, NoPlan
    <3> DEFINE R == {[key |-> key, recipient |-> r] : r \in p.remote}
    <3>3. {x \in relayed' : x.key = k} = R
      <4>1. \A x \in R : x.key = key
        OBVIOUS
      <4>2. relayed' = relayed \cup R
        BY <1>6
      <4> HIDE DEF R
      <4>3. QED
        BY <2>1, <3>2, <4>1, <4>2, ZenonT(40)
    <3>4. {r.recipient : r \in {r \in relayed' : r.key = k}} = p.remote
      <4>1. \A x \in R : x.recipient \in p.remote
        OBVIOUS
      <4>2. \A y \in p.remote : \E x \in R : x.recipient = y
        <5> TAKE y \in p.remote
        <5> WITNESS [key |-> key, recipient |-> y] \in R
        <5>1. QED
          OBVIOUS
      <4> HIDE DEF R
      <4>3. {x.recipient : x \in R} = p.remote
        BY <4>1, <4>2, ZenonT(40)
      <4>4. QED
        BY <3>3, <4>3, ZenonT(40)
    <3>5. QED
      BY <1>9, <1>12, <2>1, <3>1, <3>4, ZenonT(40)
  <2>2. CASE k # key
    <3>1. {r \in inbox' : r.key = k} = {r \in inbox : r.key = k}
      BY <1>7, <1>8, <1>12, <2>2, ZenonT(40)
    <3>2. {r \in relayed' : r.key = k} = {r \in relayed : r.key = k}
      BY <1>6, <2>2
    <3>3. /\ {r.address : r \in {r \in inbox : r.key = k}} = message[k].local
          /\ \A r, s \in inbox : (r.key = k /\ s.key = k /\ r.address = s.address) => r = s
          /\ {r.recipient : r \in {r \in relayed : r.key = k}} = message[k].remote
      BY <1>2, ZenonT(40) DEF AllOrNothing
    <3>4. \A r, s \in inbox' : (r.key = k /\ s.key = k /\ r.address = s.address) => r = s
      <4>1. \A r \in inbox' : r.key = k => r \in inbox
        BY <3>1, ZenonT(40)
      <4>2. QED
        BY <3>3, <4>1, ZenonT(40)
    <3>5. QED
      BY <1>9, <2>2, <3>1, <3>2, <3>3, <3>4, ZenonT(40)
  <2>3. QED
    BY <2>1, <2>2, ZenonT(40)
<1>15. AllOrNothing'
  BY <1>14 DEF AllOrNothing
<1>16. QED
  BY <1>7, <1>9, <1>10, <1>11, <1>15, ZenonT(40)

-----------------------------------------------------------------------------
(* One lemma per kind of step *)

\* What the invariant says of the tables alone.
Stored ==
    /\ account \in [Accounts -> Account] /\ inbox \in SUBSET Copy /\ events \in SUBSET Event
    /\ message \in [Keys -> AllPlans \cup {NoPlan}]
    /\ relayed \in SUBSET [key : Keys, recipient : RelayAddresses]
    /\ Books(account, inbox, events)
    /\ AllOrNothing
    /\ CallersKeys

\* And of the answers.
Told ==
    /\ confirmed \in [Keys -> SUBSET AllPlans] /\ unknown \subseteq Keys
    /\ AnswersTrue

\* The two parts make up the invariant, before a step and after it.
LEMMA InvParts == Inv <=> Stored /\ Told
BY DEF Inv, Stored, Told, TypeOK

LEMMA InvAfter == ASSUME Stored', Told' PROVE Inv'
BY DEF Inv, Stored, Told, TypeOK

\* A step that leaves the tables alone.
LEMMA TablesStay == ASSUME Stored, UNCHANGED tables PROVE Stored'
BY ZenonT(40) DEF Stored, tables, Books, Bytes, AllOrNothing, CallersKeys, TypeOK

\* A caller is told that the plan stored under its key is confirmed.
LEMMA AcceptsTrue ==
    ASSUME Told, NEW key \in Keys, NEW p \in AllPlans, Accepts(key, p),
           message \in [Keys -> AllPlans \cup {NoPlan}],
           message[key] \in {NoPlan, p}, message'[key] = p,
           \A k \in Keys \ {key} : message'[k] = message[k]
    PROVE  Told'
<1>1. /\ confirmed' = [confirmed EXCEPT ![key] = @ \cup {p}] /\ unknown' = unknown
      /\ confirmed \in [Keys -> SUBSET AllPlans] /\ unknown \subseteq Keys
  BY DEF Accepts, Told
<1>2. /\ confirmed' \in [Keys -> SUBSET AllPlans]
      /\ confirmed'[key] = confirmed[key] \cup {p}
      /\ \A k \in Keys \ {key} : confirmed'[k] = confirmed[k]
  BY <1>1
<1>3. confirmed[key] \subseteq {p}
  <2>1. confirmed[key] \subseteq {message[key]} /\ NoPlan \notin confirmed[key]
    BY <1>1, PlansSound, ZenonT(40) DEF Told, AnswersTrue
  <2>2. QED
    BY <2>1, ZenonT(40)
<1>4. AnswersTrue'
  <2> SUFFICES ASSUME NEW k \in Keys
               PROVE  /\ confirmed'[k] \subseteq {message'[k]}
                      /\ message'[k] # NoPlan => confirmed'[k] # {} \/ k \in unknown'
    BY ZenonT(40) DEF AnswersTrue
  <2>1. CASE k = key
    BY <1>2, <1>3, <2>1, ZenonT(40)
  <2>2. CASE k # key
    BY <1>1, <1>2, <2>2, ZenonT(40) DEF Told, AnswersTrue
  <2>3. QED
    BY <2>1, <2>2, ZenonT(40)
<1>5. QED
  BY <1>1, <1>2, <1>4 DEF Told

\* A caller's answer is lost, or says that the outcome is unknown.
LEMMA OpenTrue ==
    ASSUME Told, NEW key \in Keys, NEW p \in AllPlans, LeavesOpen(key),
           message[key] = NoPlan, message'[key] \in {NoPlan, p},
           \A k \in Keys \ {key} : message'[k] = message[k]
    PROVE  Told'
<1>1. /\ unknown' = unknown \cup {key} /\ confirmed' = confirmed
      /\ confirmed \in [Keys -> SUBSET AllPlans] /\ unknown \subseteq Keys
  BY ZenonT(40) DEF LeavesOpen, Told
<1>2. confirmed[key] = {}
  <2>1. confirmed[key] \subseteq {message[key]} /\ NoPlan \notin confirmed[key]
    BY <1>1, PlansSound, ZenonT(40) DEF Told, AnswersTrue
  <2>2. QED
    BY <2>1, ZenonT(40)
<1>3. AnswersTrue'
  <2> SUFFICES ASSUME NEW k \in Keys
               PROVE  /\ confirmed'[k] \subseteq {message'[k]}
                      /\ message'[k] # NoPlan => confirmed'[k] # {} \/ k \in unknown'
    BY ZenonT(40) DEF AnswersTrue
  <2>1. CASE k = key
    BY <1>1, <1>2, <2>1, ZenonT(40)
  <2>2. CASE k # key
    BY <1>1, <2>2, ZenonT(40) DEF Told, AnswersTrue
  <2>3. QED
    BY <2>1, <2>2, ZenonT(40)
<1>4. QED
  BY <1>1, <1>3, ZenonT(40) DEF Told

\* A definite error, or an operation that is no acceptance.
LEMMA RefusesTrue == ASSUME Told, Refuses, UNCHANGED message PROVE Told'
BY DEF Told, Refuses, AnswersTrue

\* The acceptance of a new key.
LEMMA WritesPreserves ==
    ASSUME Inv, NEW key \in Keys, NEW p \in AllPlans, key \in Operations => p \in Plans,
           message[key] = NoPlan, Writes(key, p)
    PROVE  Inv'
<1>1. Stored /\ Told /\ message \in [Keys -> AllPlans \cup {NoPlan}]
  BY InvParts DEF Stored
<1>2. ASSUME Commit(key, p)
      PROVE  Stored' /\ message'[key] = p /\ \A k \in Keys \ {key} : message'[k] = message[k]
  <2>1. /\ account' \in [Accounts -> Account] /\ inbox' \in SUBSET Copy
        /\ events' \in SUBSET Event /\ message' \in [Keys -> AllPlans \cup {NoPlan}]
        /\ relayed' \in SUBSET [key : Keys, recipient : RelayAddresses]
        /\ Books(account', inbox', events')
        /\ AllOrNothing'
        /\ message'[key] = p /\ \A k \in Keys \ {key} : message'[k] = message[k]
    BY <1>2, CommitKeeps, ZenonT(40)
  <2>2. CallersKeys'
    BY <1>1, <2>1 DEF Stored, CallersKeys, Keys
  <2>3. Stored'
    BY <2>1, <2>2, ZenonT(40) DEF Stored, Books
  <2>4. QED
    BY <2>1, <2>3, ZenonT(40)
<1>3. CASE Commit(key, p) /\ Accepts(key, p)
  BY <1>1, <1>2, <1>3, AcceptsTrue, InvAfter, ZenonT(40)
<1>4. CASE Commit(key, p) /\ LeavesOpen(key)
  <2>1. Stored' /\ message'[key] = p /\ \A k \in Keys \ {key} : message'[k] = message[k]
    BY <1>2, <1>4, ZenonT(40)
  <2>2. Told'
    BY <1>1, <1>4, <2>1, OpenTrue, ZenonT(40)
  <2>3. QED
    BY <2>1, <2>2, InvAfter, ZenonT(40)
<1>5. CASE UNCHANGED tables /\ LeavesOpen(key)
  <2>1. Stored' /\ message' = message
    BY <1>1, <1>5, TablesStay DEF tables
  <2>2. Told'
    BY <1>1, <1>5, <2>1, OpenTrue, ZenonT(40)
  <2>3. QED
    BY <2>1, <2>2, InvAfter, ZenonT(40)
<1>6. CASE UNCHANGED tables /\ Refuses
  BY <1>1, <1>6, TablesStay, RefusesTrue, InvAfter, ZenonT(40) DEF tables
<1>7. QED
  BY <1>3, <1>4, <1>5, <1>6, ZenonT(40) DEF Writes

\* A key that is known.
LEMMA ReplaysPreserve ==
    ASSUME Inv, NEW key \in Keys, NEW p, NEW same \in BOOLEAN,
           same => p \in AllPlans /\ message[key] = p, Replays(key, p, same)
    PROVE  Inv'
<1>1. Stored /\ Told /\ message \in [Keys -> AllPlans \cup {NoPlan}]
  BY InvParts DEF Stored
<1>2. Stored' /\ message' = message
  BY <1>1, TablesStay DEF Replays, tables
<1>3. CASE same /\ Accepts(key, p)
  <2>1. Told'
    BY <1>1, <1>2, <1>3, AcceptsTrue
  <2>2. QED
    BY <1>2, <2>1, InvAfter, ZenonT(40)
<1>4. CASE Refuses
  BY <1>1, <1>2, <1>4, RefusesTrue, InvAfter, ZenonT(40)
<1>5. QED
  BY <1>3, <1>4, ZenonT(40) DEF Replays

\* An account's status and quota may change as long as the quota covers what the
\* mailbox holds.
LEMMA AccountChange ==
    ASSUME Inv, NEW a \in Accounts, NEW new \in Account,
           account' = [account EXCEPT ![a] = new],
           new.used = account[a].used, new.used <= new.quota,
           new.uidnext = account[a].uidnext, new.event = account[a].event,
           new.status = "absent" => Fresh(new),
           UNCHANGED <<inbox, events, message, relayed, confirmed, unknown>>
    PROVE  Inv'
<1>1. Stored /\ Told
  BY InvParts, ZenonT(40)
<1>2. /\ account \in [Accounts -> Account] /\ Books(account, inbox, events)
      /\ inbox \in SUBSET Copy /\ events \in SUBSET Event
  BY <1>1 DEF Stored
<1>3. /\ account' \in [Accounts -> Account] /\ account'[a] = new
      /\ \A b \in Accounts \ {a} : account'[b] = account[b]
  BY <1>2, ZenonT(40)
<1>4. \A b \in Accounts : /\ account'[b].used = account[b].used
                          /\ account'[b].uidnext = account[b].uidnext
                          /\ account'[b].event = account[b].event
  BY <1>3
<1>5. Books(account', inbox, events)
  <2>1. ASSUME NEW b \in Accounts
        PROVE  /\ account'[b].used <= account'[b].quota
               /\ account'[b].status = "absent" => Fresh(account'[b])
    BY <1>2, <1>3, ZenonT(40) DEF Books
  <2>2. /\ \A r \in inbox : r.uid < account'[r.account].uidnext
        /\ \A e \in events : e.uid < account'[e.account].uidnext
    <3>1. \A r \in inbox : r.account \in Accounts
      BY <1>2, ZenonT(40) DEF Copy
    <3>2. \A e \in events : e.account \in Accounts
      BY <1>2 DEF Event
    <3>3. QED
      BY <1>2, <1>4, <3>1, <3>2, ZenonT(40) DEF Books
  <2>3. QED
    BY <1>2, <1>4, <2>1, <2>2, ZenonT(40) DEF Books
<1>6. Stored'
  <2>1. Books(account', inbox', events') /\ AllOrNothing' /\ CallersKeys'
    BY <1>1, <1>5, ZenonT(40) DEF Stored, AllOrNothing, CallersKeys
  <2>2. QED
    BY <1>1, <1>3, <2>1, ZenonT(40) DEF Stored, Books
<1>7. Told'
  BY <1>1, RefusesTrue DEF Refuses
<1>8. QED
  BY <1>6, <1>7, InvAfter, ZenonT(40)

\* create_account and set_account_quota.
LEMMA AccountsPreserve ==
    ASSUME Inv, NEW a \in Accounts, NEW q \in Quotas,
           CreateAccount(a, q) \/ SetQuota(a, q)
    PROVE  Inv'
<1> DEFINE was == account[a]
<1>1. /\ was \in Account /\ account \in [Accounts -> Account] /\ Books(account, inbox, events)
      /\ q \in Nat /\ MaxUid \in Nat /\ MaxEvent \in Nat
  BY AcceptanceAssumption DEF Inv, TypeOK
<1>2. was.used <= was.quota /\ (was.status = "absent" => Fresh(was))
  BY <1>1, ZenonT(40) DEF Books
<1>3. /\ was.status \in {"absent", "active", "disabled"} /\ was.quota \in Quotas \cup {0}
      /\ was.used \in Nat /\ was.uidnext \in 1..(MaxUid + 1) /\ was.event \in 0..MaxEvent
  BY <1>1 DEF Account
<1>4. CASE CreateAccount(a, q)
  <2> DEFINE new == [status |-> "active", quota |-> q, used |-> 0, uidnext |-> 1, event |-> 0]
  <2>1. was.used = 0 /\ was.uidnext = 1 /\ was.event = 0
    BY <1>2, <1>4, ZenonT(40) DEF CreateAccount, Fresh
  <2>2. new \in Account
    BY <1>1, <1>3, <2>1, ZenonT(40) DEF Account
  <2>3. /\ account' = [account EXCEPT ![a] = new]
        /\ new.used = was.used /\ new.used <= new.quota /\ new.status # "absent"
        /\ new.uidnext = was.uidnext /\ new.event = was.event
        /\ UNCHANGED <<inbox, events, message, relayed, confirmed, unknown>>
    BY <1>1, <1>4, <2>1 DEF CreateAccount
  <2> HIDE DEF new
  <2>4. QED
    BY <2>2, <2>3, AccountChange, ZenonT(40)
<1>5. CASE SetQuota(a, q)
  <2> DEFINE new == [status |-> was.status, quota |-> q, used |-> was.used,
                     uidnext |-> was.uidnext, event |-> was.event]
  <2>1. account' = [account EXCEPT ![a] = new]
    <3>1. [was EXCEPT !.quota = q] = new
      BY <1>1 DEF Account
    <3>2. account' = [account EXCEPT ![a] = [was EXCEPT !.quota = q]]
      BY <1>5, ZenonT(40) DEF SetQuota
    <3>3. QED
      BY <3>1, <3>2, ZenonT(40)
  <2>2. new \in Account
    BY <1>1, <1>3 DEF Account
  <2>3. QED
    BY <1>1, <1>2, <1>3, <1>5, <2>1, <2>2, AccountChange, ZenonT(40) DEF SetQuota, Fresh
<1>6. QED
  BY <1>4, <1>5, ZenonT(40)

\* disable_account.
LEMMA DisablePreserves ==
    ASSUME Inv, NEW a \in Accounts, DisableAccount(a)
    PROVE  Inv'
<1> DEFINE was == account[a]
           new == [status |-> "disabled", quota |-> was.quota, used |-> was.used,
                   uidnext |-> was.uidnext, event |-> was.event]
<1>1. /\ was \in Account /\ account \in [Accounts -> Account] /\ Books(account, inbox, events)
  BY DEF Inv, TypeOK
<1>2. was.used <= was.quota
  BY <1>1, ZenonT(40) DEF Books
<1>3. account' = [account EXCEPT ![a] = new]
  <2>1. [was EXCEPT !.status = "disabled"] = new
    BY <1>1 DEF Account
  <2>2. account' = [account EXCEPT ![a] = [was EXCEPT !.status = "disabled"]]
    BY ZenonT(40) DEF DisableAccount
  <2>3. QED
    BY <2>1, <2>2, ZenonT(40)
<1>4. new \in Account
  BY <1>1, ZenonT(40) DEF Account
<1>5. QED
  BY <1>2, <1>3, <1>4, AccountChange, ZenonT(40) DEF DisableAccount

\* The replay comparisons leave fields out, but what they compare decides the rest:
\* an owner means a submission, an import has no local recipient, and what comes in
\* over SMTP no remote one.
LEMMA SamePlan ==
    ASSUME NEW old \in Plans, NEW p \in Plans,
           \/ p.source \in {"smtp", "submission"} /\ SameAcceptance(old, p)
           \/ p.source = "import" /\ SameImport(old, p)
    PROVE  old = p
<1>1. /\ old \in Plan /\ old.source # "dsn" /\ (old.local # {} \/ old.remote # {})
      /\ old.source = "smtp" => old.remote = {}
      /\ old.source = "import" => old.local = {}
      /\ IF old.source = "submission" THEN old.owner \in Accounts ELSE old.owner = Nobody
  BY AcceptanceAssumption, ZenonT(40)
<1>2. /\ p \in Plan /\ p.source # "dsn" /\ (p.local # {} \/ p.remote # {})
      /\ p.source = "smtp" => p.remote = {}
      /\ p.source = "import" => p.local = {}
      /\ IF p.source = "submission" THEN p.owner \in Accounts ELSE p.owner = Nobody
  BY AcceptanceAssumption, ZenonT(40)
<1>3. Nobody \notin Accounts
  BY AcceptanceAssumption, ZenonT(40)
<1>4. old.source \in {"smtp", "submission", "import"}
      /\ p.source \in {"smtp", "submission", "import"}
  BY <1>1, <1>2, ZenonT(40) DEF Plan
<1>5. old.local = p.local /\ old.remote = p.remote /\ old.owner = p.owner /\ old.size = p.size
  BY <1>1, <1>2, ZenonT(40) DEF SameAcceptance, SameImport
<1>6. old.source = p.source
  BY <1>1, <1>2, <1>3, <1>4, <1>5, ZenonT(40) DEF SameImport
<1>7. QED
  BY <1>1, <1>2, <1>5, <1>6 DEF Plan

\* accept, accept_submission, accept_relay_submission and enqueue.
LEMMA CallersPreserve ==
    ASSUME Inv, NEW key \in Operations, NEW p \in Plans, Accept(key, p) \/ Enqueue(key, p)
    PROVE  Inv'
<1>1. key \in Keys /\ p \in AllPlans
  BY DEF Keys, AllPlans
<1>2. message[key] # NoPlan => message[key] \in Plans
  BY DEF Inv, CallersKeys
<1>3. CASE UNCHANGED tables /\ Refuses
  BY <1>1, <1>3, ReplaysPreserve, ZenonT(40) DEF Replays
<1>4. CASE message[key] = NoPlan /\ Writes(key, p)
  BY <1>1, <1>4, WritesPreserves, ZenonT(40)
<1>5. CASE /\ p.source \in {"smtp", "submission"} /\ message[key] # NoPlan
           /\ Replays(key, p, SameAcceptance(message[key], p))
  <2>1. SameAcceptance(message[key], p) \in BOOLEAN
    BY ZenonT(40) DEF SameAcceptance
  <2>2. SameAcceptance(message[key], p) => message[key] = p
    BY <1>2, <1>5, SamePlan, ZenonT(40)
  <2>3. QED
    BY <1>1, <1>5, <2>1, <2>2, ReplaysPreserve, ZenonT(40)
<1>6. CASE /\ p.source = "import" /\ message[key] # NoPlan
           /\ Replays(key, p, SameImport(message[key], p))
  <2>1. SameImport(message[key], p) \in BOOLEAN
    BY ZenonT(40) DEF SameImport
  <2>2. SameImport(message[key], p) => message[key] = p
    BY <1>2, <1>6, SamePlan, ZenonT(40)
  <2>3. QED
    BY <1>1, <1>6, <2>1, <2>2, ReplaysPreserve, ZenonT(40)
<1>7. QED
  BY <1>3, <1>4, <1>5, <1>6, ZenonT(40) DEF Accept, Enqueue

\* notification_commit.
LEMMA ReportPreserves ==
    ASSUME Inv, NEW key \in Reports, NEW p \in ReportPlans, Report(key, p)
    PROVE  Inv'
<1>1. key \in Keys /\ key \notin Operations /\ p \in AllPlans
  BY AcceptanceAssumption DEF Keys, AllPlans
<1>2. CASE message[key] = NoPlan /\ Writes(key, p)
  BY <1>1, <1>2, WritesPreserves
<1>3. CASE message[key] # NoPlan /\ UNCHANGED tables /\ Accepts(key, message[key])
  <2>1. message[key] \in AllPlans
    BY <1>1, <1>3, ZenonT(40) DEF Inv, TypeOK
  <2>2. Replays(key, message[key], TRUE)
    BY <1>3 DEF Replays
  <2>3. QED
    BY <1>1, <2>1, <2>2, ReplaysPreserve, ZenonT(40)
<1>4. QED
  BY <1>2, <1>3, ZenonT(40) DEF Report

\* A new store.
LEMMA InitInv == Init => Inv
<1> SUFFICES ASSUME Init PROVE Inv
  OBVIOUS
<1>1. TypeOK
  BY AcceptanceAssumption DEF Init, TypeOK, Account
<1>2. Bytes({}) = {} /\ IsFiniteSet({}) /\ Cardinality({}) = 0
  BY FS_EmptySet, ZenonT(40) DEF Bytes
<1>3. \A a \in Accounts : account[a].used = 0 /\ account[a].quota = 0
                          /\ account[a].uidnext = 1 /\ account[a].event = 0
  BY ZenonT(40) DEF Init
<1>4. \A a \in Accounts : {r \in inbox : r.account = a} = {} /\ {e \in events : e.account = a} = {}
  BY DEF Init
<1>5. Books(account, inbox, events)
  <2>1. ASSUME NEW a \in Accounts
        PROVE  /\ IsFiniteSet(Bytes({r \in inbox : r.account = a}))
               /\ account[a].used = Cardinality(Bytes({r \in inbox : r.account = a}))
    BY <1>2, <1>3, <1>4, ZenonT(40)
  <2>2. ASSUME NEW a \in Accounts
        PROVE  {e.seq : e \in {e \in events : e.account = a}} = 1..account[a].event
    BY <1>3, <1>4
  <2>3. \A a \in Accounts : Fresh(account[a]) /\ account[a].used <= account[a].quota
    BY <1>3 DEF Fresh
  <2>4. inbox = {} /\ events = {}
    BY ZenonT(40) DEF Init
  <2>5. QED
    BY <2>1, <2>2, <2>3, <2>4, ZenonT(40) DEF Books
<1>6. AllOrNothing
  BY ZenonT(40) DEF Init, AllOrNothing, NoPlan
<1>7. AnswersTrue /\ CallersKeys
  BY DEF Init, AnswersTrue, CallersKeys, Keys
<1>8. QED
  BY <1>1, <1>5, <1>6, <1>7 DEF Inv

\* Every step preserves the invariant: one case per kind of request.
LEMMA NextInv == Inv /\ [Next]_vars => Inv'
<1> SUFFICES ASSUME Inv, [Next]_vars PROVE Inv'
  OBVIOUS
<1>1. ASSUME NEW a \in Accounts, NEW q \in Quotas, CreateAccount(a, q) \/ SetQuota(a, q)
      PROVE  Inv'
  BY <1>1, AccountsPreserve
<1>2. ASSUME NEW a \in Accounts, DisableAccount(a) PROVE Inv'
  BY <1>2, DisablePreserves, ZenonT(40)
<1>3. ASSUME NEW k \in Operations, NEW p \in Plans, Accept(k, p) \/ Enqueue(k, p) PROVE Inv'
  BY <1>3, CallersPreserve
<1>4. ASSUME NEW k \in Reports, NEW p \in ReportPlans, Report(k, p) PROVE Inv'
  BY <1>4, ReportPreserves
<1>5. CASE UNCHANGED vars
  <2>1. Stored' /\ Told'
    BY <1>5, InvParts, TablesStay, RefusesTrue DEF vars, tables, Refuses
  <2>2. QED
    BY <2>1, InvAfter, ZenonT(40)
<1>6. QED
  BY <1>1, <1>2, <1>3, <1>4, <1>5, ZenonT(40) DEF Next

\* The invariant holds throughout.
LEMMA Invariance == Spec => []Inv
BY InitInv, NextInv, PTL DEF Spec

-----------------------------------------------------------------------------
(* The theorems *)

\* target, deliver, set_account_quota: used bytes, event numbers and UIDs agree
\* with the rows whatever transactions ran, failed or ended unknown, for any
\* number of accounts, addresses and plans.
THEOREM Accounted == Spec => []MailboxesSound
<1>1. Inv => MailboxesSound
  <2> SUFFICES ASSUME Inv PROVE MailboxesSound
    OBVIOUS
  <2>1. TypeOK /\ Books(account, inbox, events)
    BY DEF Inv
  <2>2. ASSUME NEW r \in inbox
        PROVE  Cardinality({e \in events : e.account = r.account /\ e.uid = r.uid}) = 1
    <3>1. PICK e \in events : {f \in events : f.account = r.account /\ f.uid = r.uid} = {e}
      BY <2>1 DEF Books
    <3>2. Cardinality({e}) = 1
      BY FS_Singleton
    <3>3. QED
      BY <3>1, <3>2, ZenonT(40)
  <2>3. QED
    BY <2>1, <2>2, ZenonT(40) DEF MailboxesSound, Books, Inbox
<1>2. QED
  BY <1>1, Invariance, PTL

\* accept_inner, enqueue, notification_commit: a key has a copy for every local
\* recipient of its plan and a relay row for every remote one, or nothing.
THEOREM Atomic == Spec => []AllOrNothing
<1>1. Inv => AllOrNothing
  BY DEF Inv
<1>2. QED
  BY <1>1, Invariance, PTL

\* accept_inner, enqueue: a confirmed plan is the stored one for ever, and what is
\* stored was confirmed or its caller knows that the outcome is open.
THEOREM Truthful == Spec => []AnswersTrue
<1>1. Inv => AnswersTrue
  BY DEF Inv
<1>2. QED
  BY <1>1, Invariance, PTL
=============================================================================
