-------------------------- MODULE ClaimScanProofs --------------------------
(***************************************************************************)
(* Proofs about ClaimScan: for every set of rows and every policy, the     *)
(* scan keeps to the slots and its cursor passes no due row unexamined.    *)
(* ScanSound is inductive as it stands.                                    *)
(***************************************************************************)
EXTENDS ClaimScan, FiniteSetTheorems, TLAPS

----------------------------------------------------------------------------
(* The order of the due index *)

\* Rows leave an order.
LEMMA DropOrder ==
    ASSUME NEW ahead, IsOrder(ahead), NEW S
    PROVE  /\ IsOrder(Drop(ahead, S))
           /\ DOMAIN Drop(ahead, S) = DOMAIN ahead \ S
           /\ \A F : IsStart(ahead, F) => IsStart(Drop(ahead, S), F \ S)
<1>1. /\ DOMAIN Drop(ahead, S) = DOMAIN ahead \ S
      /\ \A d \in DOMAIN ahead \ S : Drop(ahead, S)[d] = ahead[d] \ S
  BY DEF Drop
<1>2. IsOrder(Drop(ahead, S))
  BY <1>1 DEF IsOrder
<1>3. \A F : IsStart(ahead, F) => IsStart(Drop(ahead, S), F \ S)
  BY <1>1 DEF IsStart
<1>4. QED
  BY <1>1, <1>2, <1>3

\* Numbers are in order.
LEMMA NatOrder ==
    \A x, y, z \in Nat : ~(x < x) /\ (x < y /\ y < z => x < z) /\ (x = y \/ x < y \/ y < x)
OBVIOUS

\* New rows enter an order.
LEMMA PutOrder ==
    ASSUME NEW ahead, IsOrder(ahead), NEW front, IsStart(ahead, front),
           NEW S, S \subseteq Nat, S \cap DOMAIN ahead = {}
    PROVE  /\ IsOrder(Put(ahead, front, S))
           /\ DOMAIN Put(ahead, front, S) = DOMAIN ahead \cup S
           /\ IsStart(Put(ahead, front, S), front \cup S)
           /\ \A F : IsStart(ahead, F) /\ F \subseteq front => IsStart(Put(ahead, front, S), F)
<1> DEFINE p == Put(ahead, front, S)
<1>1. /\ DOMAIN p = DOMAIN ahead \cup S
      /\ \A d \in S : p[d] = front \cup {e \in S : e < d}
      /\ \A d \in front : p[d] = ahead[d]
      /\ \A d \in DOMAIN ahead \ front : p[d] = ahead[d] \cup S
  BY DEF Put, IsStart
<1> HIDE DEF p
<1>2. IsOrder(p)
  <2> SUFFICES ASSUME NEW d \in DOMAIN p
               PROVE  /\ d \notin p[d] /\ p[d] \subseteq DOMAIN p
                      /\ \A e \in p[d] : p[e] \subseteq p[d]
                      /\ \A e \in DOMAIN p : e = d \/ e \in p[d] \/ d \in p[e]
    BY DEF IsOrder
  <2>1. /\ front \subseteq DOMAIN ahead /\ \A x \in front : ahead[x] \subseteq front
        /\ \A x \in DOMAIN ahead : x \notin ahead[x] /\ ahead[x] \subseteq DOMAIN ahead /\ x \notin S
    BY ZenonT(40) DEF IsOrder, IsStart
  <2>2. \A x \in DOMAIN ahead : \A e \in ahead[x] : ahead[e] \subseteq ahead[x]
    BY ZenonT(40) DEF IsOrder
  <2>3. \A x, e \in DOMAIN ahead : e = x \/ e \in ahead[x] \/ x \in ahead[e]
    BY ZenonT(40) DEF IsOrder
  <2>4. \A x, y, z \in S : ~(x < x) /\ (x < y /\ y < z => x < z) /\ (x = y \/ x < y \/ y < x)
    BY NatOrder, ZenonT(40)
  <2>5. CASE d \in S
    <3>1. p[d] = front \cup {e \in S : e < d}
      BY <1>1, <2>5, ZenonT(40)
    <3>2. d \notin p[d] /\ p[d] \subseteq DOMAIN p
      BY <1>1, <2>1, <2>4, <2>5, <3>1, ZenonT(40)
    <3>3. ASSUME NEW e \in p[d] PROVE p[e] \subseteq p[d]
      <4>1. CASE e \in front
        BY <1>1, <2>1, <3>1, <4>1
      <4>2. CASE e \in S /\ e < d
        <5>1. p[e] = front \cup {f \in S : f < e}
          BY <1>1, <4>2, ZenonT(40)
        <5>2. \A f \in S : f < e => f < d
          BY <2>4, <2>5, <4>2, ZenonT(40)
        <5>3. QED
          BY <3>1, <5>1, <5>2, ZenonT(40)
      <4>3. QED
        BY <3>1, <3>3, <4>1, <4>2
    <3>4. ASSUME NEW e \in DOMAIN p PROVE e = d \/ e \in p[d] \/ d \in p[e]
      <4>1. CASE e \in S
        <5>1. p[e] = front \cup {f \in S : f < e}
          BY <1>1, <4>1, ZenonT(40)
        <5>2. e = d \/ e < d \/ d < e
          BY <2>4, <2>5, <4>1, ZenonT(40)
        <5>3. QED
          BY <2>5, <3>1, <4>1, <5>1, <5>2, ZenonT(40)
      <4>2. CASE e \notin S
        BY <1>1, <2>5, <3>1, <4>2
      <4>3. QED
        BY <4>1, <4>2
    <3>5. QED
      BY <3>2, <3>3, <3>4
  <2>6. CASE d \in front
    <3>1. p[d] = ahead[d] /\ d \in DOMAIN ahead
      BY <1>1, <2>1, <2>6, ZenonT(40)
    <3>2. d \notin p[d] /\ p[d] \subseteq DOMAIN p
      BY <1>1, <2>1, <3>1
    <3>3. ASSUME NEW e \in p[d] PROVE p[e] \subseteq p[d]
      BY <1>1, <2>1, <2>2, <2>6, <3>1
    <3>4. ASSUME NEW e \in DOMAIN p PROVE e = d \/ e \in p[d] \/ d \in p[e]
      <4>1. CASE e \in S
        BY <1>1, <2>6, <4>1, ZenonT(40)
      <4>2. CASE e \notin S
        <5>1. e \in DOMAIN ahead /\ ahead[e] \subseteq p[e]
          BY <1>1, <4>2
        <5>2. QED
          BY <2>3, <3>1, <5>1
      <4>3. QED
        BY <4>1, <4>2
    <3>5. QED
      BY <3>2, <3>3, <3>4
  <2>7. CASE d \in DOMAIN ahead \ front
    <3>1. p[d] = ahead[d] \cup S /\ front \subseteq ahead[d]
      <4>1. ASSUME NEW f \in front PROVE f \in ahead[d]
        BY <2>1, <2>3, <2>7
      <4>2. QED
        BY <1>1, <2>7, <4>1
    <3>2. d \notin p[d] /\ p[d] \subseteq DOMAIN p
      BY <1>1, <2>1, <2>7, <3>1
    <3>3. ASSUME NEW e \in p[d] PROVE p[e] \subseteq p[d]
      <4>1. CASE e \in S
        BY <1>1, <3>1, <4>1
      <4>2. CASE e \notin S
        <5>1. e \in ahead[d] /\ e \in DOMAIN ahead /\ ahead[e] \subseteq ahead[d]
          BY <2>1, <2>2, <2>7, <3>1, <3>3, <4>2
        <5>2. p[e] \subseteq ahead[e] \cup S
          BY <1>1, <5>1
        <5>3. QED
          BY <3>1, <5>1, <5>2
      <4>3. QED
        BY <4>1, <4>2
    <3>4. ASSUME NEW e \in DOMAIN p PROVE e = d \/ e \in p[d] \/ d \in p[e]
      <4>1. CASE e \in S
        BY <3>1, <4>1
      <4>2. CASE e \notin S
        <5>1. e \in DOMAIN ahead /\ ahead[e] \subseteq p[e]
          BY <1>1, <4>2
        <5>2. QED
          BY <2>3, <2>7, <3>1, <5>1
      <4>3. QED
        BY <4>1, <4>2
    <3>5. QED
      BY <3>2, <3>3, <3>4
  <2>8. QED
    BY <1>1, <2>5, <2>6, <2>7
<1>3. IsStart(p, front \cup S)
  BY <1>1 DEF IsStart
<1>4. \A F : IsStart(ahead, F) /\ F \subseteq front => IsStart(p, F)
  BY <1>1 DEF IsStart
<1>5. QED
  BY <1>1, <1>2, <1>3, <1>4 DEF p

\* Rows leave queue_ready.
LEMMA WithoutIndex ==
    ASSUME NEW ix, IsIndex(ix), NEW S
    PROVE  /\ IsIndex(Without(ix, S))
           /\ Waiting(Without(ix, S)) = Waiting(ix) \ S
           /\ Without(ix, S).due = ix.due \ S
           /\ Without(ix, S).passed = ix.passed \ S
<1>1. /\ Without(ix, S).ahead = Drop(ix.ahead, S)
      /\ Without(ix, S).due = ix.due \ S
      /\ Without(ix, S).passed = ix.passed \ S
      /\ Without(ix, S) = [ahead |-> Without(ix, S).ahead, due |-> Without(ix, S).due,
                           passed |-> Without(ix, S).passed]
  BY DEF Without
<1>2. /\ IsOrder(ix.ahead) /\ Waiting(ix) \subseteq Rows
      /\ IsStart(ix.ahead, ix.due) /\ IsStart(ix.ahead, ix.passed)
      /\ ix.passed \subseteq ix.due
  BY DEF IsIndex
<1>3. /\ IsOrder(Drop(ix.ahead, S)) /\ DOMAIN Drop(ix.ahead, S) = DOMAIN ix.ahead \ S
      /\ IsStart(Drop(ix.ahead, S), ix.due \ S) /\ IsStart(Drop(ix.ahead, S), ix.passed \ S)
  BY <1>2, DropOrder, ZenonT(40)
<1>4. Waiting(Without(ix, S)) = Waiting(ix) \ S
  BY <1>1, <1>3, ZenonT(40) DEF Waiting
<1>5. IsIndex(Without(ix, S))
  <2>1. ix.passed \ S \subseteq ix.due \ S /\ Waiting(ix) \ S \subseteq Rows
    BY <1>2
  <2>2. QED
    BY <1>1, <1>3, <1>4, <2>1, ZenonT(40) DEF IsIndex
<1>6. QED
  BY <1>1, <1>4, <1>5, ZenonT(40)

\* Rows enter queue_ready behind the due ones.
LEMMA WithIndex ==
    ASSUME NEW ix, IsIndex(ix), NEW front \in Fronts(ix),
           NEW S, S \subseteq Rows \ Waiting(ix)
    PROVE  /\ IsIndex(With(ix, front, S))
           /\ Waiting(With(ix, front, S)) = Waiting(ix) \cup S
           /\ With(ix, front, S).ahead = Put(ix.ahead, front, S)
           /\ With(ix, front, S).due = ix.due
           /\ With(ix, front, S).passed = ix.passed
<1> DEFINE new == With(ix, front, S)
<1>1. /\ new.ahead = Put(ix.ahead, front, S)
      /\ new.due = ix.due /\ new.passed = ix.passed
      /\ new = [ahead |-> new.ahead, due |-> new.due, passed |-> new.passed]
  <2>1. ix = [ahead |-> ix.ahead, due |-> ix.due, passed |-> ix.passed]
    BY DEF IsIndex
  <2>2. QED
    BY <2>1 DEF With
<1> HIDE DEF new
<1>2. /\ IsOrder(ix.ahead) /\ Waiting(ix) \subseteq Rows
      /\ IsStart(ix.ahead, ix.due) /\ IsStart(ix.ahead, ix.passed)
      /\ ix.passed \subseteq ix.due
  BY DEF IsIndex
<1>3. /\ IsStart(ix.ahead, front) /\ ix.due \subseteq front /\ ix.passed \subseteq front
      /\ S \subseteq Nat /\ S \cap DOMAIN ix.ahead = {}
  BY <1>2, ClaimScanAssumption, ZenonT(40) DEF Fronts, Waiting
<1>4. /\ IsOrder(new.ahead) /\ DOMAIN new.ahead = DOMAIN ix.ahead \cup S
      /\ IsStart(new.ahead, new.due) /\ IsStart(new.ahead, new.passed)
  <2> DEFINE p == Put(ix.ahead, front, S)
  <2>1. IsOrder(p) /\ DOMAIN p = DOMAIN ix.ahead \cup S
    BY <1>2, <1>3, PutOrder, ZenonT(40)
  <2>2. \A F : IsStart(ix.ahead, F) /\ F \subseteq front => IsStart(p, F)
    BY <1>2, <1>3, PutOrder, ZenonT(40)
  <2> HIDE DEF p
  <2>3. IsStart(p, ix.due) /\ IsStart(p, ix.passed)
    BY <1>2, <1>3, <2>2, ZenonT(40)
  <2>4. QED
    BY <1>1, <2>1, <2>3 DEF p
<1>5. Waiting(new) = Waiting(ix) \cup S
  BY <1>4, ZenonT(40) DEF Waiting
<1>6. IsIndex(new)
  <2>1. new.passed \subseteq new.due /\ Waiting(new) \subseteq Rows
    BY <1>1, <1>2, <1>5
  <2>2. QED
    BY <1>1, <1>4, <2>1, ZenonT(40) DEF IsIndex
<1>7. QED
  BY <1>1, <1>5, <1>6, ZenonT(40) DEF new

\* The rows up to some row of a start belong to it.
LEMMA UpToStart ==
    ASSUME NEW ahead, IsOrder(ahead), NEW S, S \subseteq DOMAIN ahead
    PROVE  /\ IsStart(ahead, UpTo(ahead, S))
           /\ \A F : IsStart(ahead, F) /\ S \subseteq F => UpTo(ahead, S) \subseteq F
<1>1. \A d : d \in UpTo(ahead, S) <=> d \in S \/ \E e \in S : d \in ahead[e]
  BY DEF UpTo
<1>2. IsStart(ahead, UpTo(ahead, S))
  BY <1>1 DEF IsStart, IsOrder
<1>3. \A F : IsStart(ahead, F) /\ S \subseteq F => UpTo(ahead, S) \subseteq F
  BY <1>1 DEF IsStart
<1>4. QED
  BY <1>2, <1>3

\* The candidates follow the cursor without a gap, and those that the loop
\* examines come first: what the cursor passes was passed before or is examined.
LEMMA CursorPasses ==
    ASSUME NEW ix, IsIndex(ix), NEW granted \in SUBSET Candidates(ix), NEW available
    PROVE  LET seen == Examined(ix, Candidates(ix), granted, available)
           IN  /\ seen \subseteq Candidates(ix)
               /\ UpTo(ix.ahead, seen) \subseteq ix.passed \cup seen
<1> DEFINE cs == Candidates(ix)
           seen == Examined(ix, cs, granted, available)
           open == ix.due \ ix.passed
<1>1. /\ IsOrder(ix.ahead) /\ IsStart(ix.ahead, ix.due) /\ Waiting(ix) \subseteq Rows
  BY DEF IsIndex
<1>2. cs = {d \in open : Cardinality(ix.ahead[d] \cap open) < Window}
  BY DEF Candidates, First
<1>3. seen = cs \/ seen = cs \cap UpTo(ix.ahead, granted)
  BY DEF Examined
<1> HIDE DEF cs, seen
<1>4. seen \subseteq cs
  BY <1>3
<1>5. ASSUME NEW d \in UpTo(ix.ahead, seen), d \notin seen, d \notin ix.passed
      PROVE  FALSE
  <2>1. PICK c \in seen : d \in ix.ahead[c]
    BY <1>5 DEF UpTo
  <2>2. c \in cs /\ c \in open /\ Cardinality(ix.ahead[c] \cap open) < Window
    BY <1>2, <1>4
  <2>3. c \in DOMAIN ix.ahead /\ ix.ahead[c] \subseteq ix.due /\ ix.ahead[c] \subseteq DOMAIN ix.ahead
    BY <1>1, <2>2 DEF IsStart
  <2>4. d \in open /\ ix.ahead[d] \subseteq ix.ahead[c]
    BY <1>1, <1>5, <2>1, <2>3 DEF IsOrder
  <2> HIDE DEF open
  <2>5. IsFiniteSet(ix.ahead[c] \cap open)
    <3>1. ix.ahead[c] \cap open \in SUBSET Rows
      BY <1>1, <2>3 DEF Waiting
    <3>2. QED
      BY <3>1, FS_Subset, ClaimScanAssumption, ZenonT(40)
  <2>6. Cardinality(ix.ahead[d] \cap open) < Window
    <3>1. ix.ahead[d] \cap open \in SUBSET (ix.ahead[c] \cap open)
      BY <2>4
    <3>2. /\ Cardinality(ix.ahead[d] \cap open) <= Cardinality(ix.ahead[c] \cap open)
          /\ IsFiniteSet(ix.ahead[d] \cap open)
      BY <2>5, <3>1, FS_Subset, ZenonT(40)
    <3>3. /\ Cardinality(ix.ahead[d] \cap open) \in Nat
          /\ Cardinality(ix.ahead[c] \cap open) \in Nat
          /\ Window \in Nat
      BY <2>5, <3>2, FS_CardinalityType, ClaimScanAssumption, ZenonT(40)
    <3>4. QED
      BY <2>2, <3>2, <3>3
  <2>7. d \in cs
    BY <1>2, <2>4, <2>6, ZenonT(40)
  <2>8. d \notin UpTo(ix.ahead, granted) /\ c \in UpTo(ix.ahead, granted)
    BY <1>3, <1>5, <2>7
  <2>9. IsStart(ix.ahead, UpTo(ix.ahead, granted))
    <3>1. granted \subseteq DOMAIN ix.ahead
      BY <1>1, <1>2, ZenonT(40) DEF IsStart, open, cs
    <3>2. QED
      BY <1>1, <3>1, UpToStart, ZenonT(40)
  <2>10. QED
    BY <2>1, <2>8, <2>9 DEF IsStart
<1>6. QED
  BY <1>4, <1>5 DEF cs, seen

----------------------------------------------------------------------------
(* Counting: the last row of a set, and slots that are all taken *)

\* A non-empty set of natural numbers has a least element.
LEMMA Least ==
  ASSUME NEW T, T \subseteq Nat, T # {}
  PROVE  \E x \in T : \A y \in T : x <= y
<1> DEFINE R == {ss \in Nat \X Nat : ss[1] < ss[2]}
<1>1. IsWellFoundedOn(R, Nat)
  BY NatLessThanWellFounded DEF OpToRel
<1>2. \E x \in T : \A y \in T : <<y, x>> \notin R
  <2> HIDE DEF R
  <2> QED
    BY <1>1, WFMin, ZenonT(40)
<1>3. PICK x \in T : \A y \in T : <<y, x>> \notin R
  BY <1>2
<1>4. ASSUME NEW y \in T PROVE x <= y
  <2>1. x \in Nat /\ y \in Nat
    OBVIOUS
  <2>2. <<y, x>> \notin {ss \in Nat \X Nat : ss[1] < ss[2]}
    BY <1>3
  <2>3. <<y, x>> \in Nat \X Nat /\ <<y, x>>[1] = y /\ <<y, x>>[2] = x
    BY <2>1
  <2>4. ~(y < x)
    BY <2>2, <2>3
  <2>5. QED
    BY <2>1, <2>4
<1>5. QED
  BY <1>4

\* One of finitely many rows comes last.
LEMMA LastRow ==
    ASSUME NEW ahead, IsOrder(ahead), NEW S, S \subseteq DOMAIN ahead, IsFiniteSet(S), S # {}
    PROVE  \E d \in S : S \ {d} \subseteq ahead[d]
<1> DEFINE T == {Cardinality(S \ ahead[d]) : d \in S}
<1>1. ASSUME NEW d \in S PROVE IsFiniteSet(S \ ahead[d]) /\ Cardinality(S \ ahead[d]) \in Nat
  <2>1. S \ ahead[d] \in SUBSET S
    OBVIOUS
  <2>2. QED
    BY <2>1, FS_Subset, FS_CardinalityType, ZenonT(40)
<1>2. PICK n \in T : \A m \in T : n <= m
  <2>1. T \subseteq Nat /\ T # {}
    BY <1>1, ZenonT(40)
  <2> HIDE DEF T
  <2>2. QED
    BY <2>1, Least, ZenonT(40)
<1>3. PICK d \in S : n = Cardinality(S \ ahead[d])
  BY <1>2
<1>4. ASSUME NEW e \in S, e # d, e \notin ahead[d] PROVE FALSE
  <2>1. d \in ahead[e] /\ ahead[d] \subseteq ahead[e] /\ d \notin ahead[d]
    BY <1>4 DEF IsOrder
  <2>2. S \ ahead[e] \in SUBSET (S \ ahead[d]) /\ S \ ahead[e] # S \ ahead[d]
    BY <2>1
  <2>3. /\ Cardinality(S \ ahead[e]) <= Cardinality(S \ ahead[d])
        /\ Cardinality(S \ ahead[e]) # Cardinality(S \ ahead[d])
    BY <1>1, <2>2, FS_Subset, ZenonT(40)
  <2>4. Cardinality(S \ ahead[d]) <= Cardinality(S \ ahead[e])
    BY <1>2, <1>3, ZenonT(40)
  <2>5. Cardinality(S \ ahead[e]) \in Nat /\ Cardinality(S \ ahead[d]) \in Nat
    BY <1>1
  <2>6. QED
    BY <2>3, <2>4, <2>5
<1>5. QED
  BY <1>4

\* Rows are finitely many.
LEMMA FiniteRows ==
    \A S \in SUBSET Rows : IsFiniteSet(S) /\ Cardinality(S) \in Nat
BY FS_Subset, FS_CardinalityType, ClaimScanAssumption, ZenonT(40)

\* The loop of queue_claim fills no more than the slots there are.
LEMMA SlotsFilled ==
    ASSUME NEW ix, IsIndex(ix), NEW cs, cs \subseteq Waiting(ix), NEW granted \in SUBSET cs,
           NEW available \in Nat, Grants(ix, cs, granted, available)
    PROVE  Cardinality(granted) <= available
<1>1. IsOrder(ix.ahead) /\ granted \subseteq DOMAIN ix.ahead /\ granted \in SUBSET Rows
  BY DEF IsIndex, Waiting
<1>2. IsFiniteSet(granted) /\ Cardinality(granted) \in Nat
  BY <1>1, FiniteRows, ZenonT(40)
<1>3. CASE granted = {}
  BY <1>3, FS_EmptySet
<1>4. CASE granted # {}
  <2>1. PICK d \in granted : granted \ {d} \subseteq ix.ahead[d]
    BY <1>1, <1>2, <1>4, LastRow, ZenonT(40)
  <2>2. granted \cap ix.ahead[d] = granted \ {d}
    BY <1>1, <2>1 DEF IsOrder
  <2>3. Cardinality(granted \cap ix.ahead[d]) < available
    BY ZenonT(40) DEF Grants, MayGrant
  <2>4. Cardinality(granted \ {d}) = Cardinality(granted) - 1
    BY <1>2, FS_RemoveElement, ZenonT(40)
  <2>5. QED
    BY <1>2, <2>2, <2>3, <2>4
<1>5. QED
  BY <1>3, <1>4

\* The loop of queue_claim fills no more than the slots of a domain.
LEMMA DomainSlotsFilled ==
    ASSUME NEW ix, IsIndex(ix), NEW cs, cs \subseteq Waiting(ix), NEW granted \in SUBSET cs,
           NEW available \in Nat, Grants(ix, cs, granted, available),
           guards \subseteq Rows, NEW r \in Rows, Load(guards, DomainOf[r]) <= PerDomain
    PROVE  Load(guards \cup granted, DomainOf[r]) <= PerDomain
<1> DEFINE of == {d \in granted : DomainOf[d] = DomainOf[r]}
           all == {d \in guards \cup granted : DomainOf[d] = DomainOf[r]}
<1>1. /\ IsOrder(ix.ahead) /\ granted \subseteq DOMAIN ix.ahead /\ granted \in SUBSET Rows
      /\ of \subseteq DOMAIN ix.ahead /\ of \in SUBSET Rows /\ all \in SUBSET Rows
  BY DEF IsIndex, Waiting
<1>2. CASE of = {}
  <2>1. all = {d \in guards : DomainOf[d] = DomainOf[r]}
    BY <1>2
  <2>2. QED
    BY <2>1, ZenonT(40) DEF Load
<1>3. CASE of # {}
  <2>1. PICK d \in of : of \ {d} \subseteq ix.ahead[d]
    <3> HIDE DEF of
    <3>1. QED
      BY <1>1, <1>3, FiniteRows, LastRow, ZenonT(40)
  <2> DEFINE before == {e \in guards \cup (granted \cap ix.ahead[d]) : DomainOf[e] = DomainOf[r]}
  <2>2. Cardinality(before) < PerDomain
    <3>1. d \in cs /\ d \in granted /\ DomainOf[d] = DomainOf[r]
      OBVIOUS
    <3>2. Load(guards \cup (granted \cap ix.ahead[d]), DomainOf[d]) < PerDomain
      BY <3>1, ZenonT(40) DEF Grants, MayGrant
    <3>3. QED
      BY <3>1, <3>2 DEF Load
  <2>3. all \in SUBSET (before \cup {d})
    BY <2>1
  <2>4. before \in SUBSET Rows
    BY <1>1
  <2> HIDE DEF before, all
  <2>5. /\ IsFiniteSet(before) /\ Cardinality(before) \in Nat
        /\ Cardinality(all) \in Nat
    BY <1>1, <2>4, FiniteRows, ZenonT(40)
  <2>6. /\ IsFiniteSet(before \cup {d})
        /\ Cardinality(before \cup {d}) = IF d \in before THEN Cardinality(before)
                                           ELSE Cardinality(before) + 1
    BY <2>5, FS_AddElement, ZenonT(40)
  <2>7. Cardinality(all) <= Cardinality(before \cup {d})
    BY <2>3, <2>6, FS_Subset, ZenonT(40)
  <2>8. PerDomain \in Nat
    BY ClaimScanAssumption
  <2>9. Cardinality(all) <= PerDomain
    BY <2>2, <2>5, <2>6, <2>7, <2>8
  <2>10. QED
    BY <2>9 DEF Load, all
<1>4. QED
  BY <1>2, <1>3

\* What holds of 0 and is passed on from each number to the next holds up to n.
LEMMA Induct ==
  ASSUME NEW n \in Nat, NEW S, 0 \in S,
         \A i \in 1..n : i - 1 \in S => i \in S
  PROVE  0..n \subseteq S
<1> SUFFICES ASSUME (0..n) \ S # {}
             PROVE  FALSE
  OBVIOUS
<1> DEFINE T == (0..n) \ S
<1>1. PICK x \in T : \A y \in T : x <= y
  <2>1. T \subseteq Nat
    OBVIOUS
  <2> HIDE DEF T
  <2>2. QED
    BY <2>1, Least, ZenonT(40) DEF T
<1>2. x # 0 /\ x - 1 \in 0..n
  BY <1>1
<1>3. x - 1 \in S
  BY <1>1, <1>2
<1>4. QED
  BY <1>1, <1>2, <1>3

----------------------------------------------------------------------------
(* The loop over the candidates *)

\* Of two candidates the one ahead has fewer candidates ahead of it.
LEMMA Turns ==
    ASSUME NEW ahead, IsOrder(ahead), NEW cs, cs \subseteq DOMAIN ahead, IsFiniteSet(cs)
    PROVE  /\ Cardinality(cs) \in Nat
           /\ \A d \in cs : /\ Cardinality(ahead[d] \cap cs) \in Nat
                            /\ Cardinality(ahead[d] \cap cs) < Cardinality(cs)
           /\ \A d, e \in cs : e \in ahead[d] =>
                  Cardinality(ahead[e] \cap cs) < Cardinality(ahead[d] \cap cs)
<1>1. ASSUME NEW S \in SUBSET cs, NEW T \in SUBSET S, T # S
      PROVE  Cardinality(T) \in Nat /\ Cardinality(S) \in Nat /\ Cardinality(T) < Cardinality(S)
  <2>1. IsFiniteSet(S)
    BY FS_Subset, ZenonT(40)
  <2>2. IsFiniteSet(T) /\ Cardinality(T) <= Cardinality(S) /\ Cardinality(T) # Cardinality(S)
    BY <1>1, <2>1, FS_Subset, ZenonT(40)
  <2>3. Cardinality(T) \in Nat /\ Cardinality(S) \in Nat
    BY <2>1, <2>2, FS_CardinalityType, ZenonT(40)
  <2>4. QED
    BY <2>2, <2>3
<1>2. ASSUME NEW d \in cs
      PROVE  /\ Cardinality(ahead[d] \cap cs) \in Nat
             /\ Cardinality(ahead[d] \cap cs) < Cardinality(cs)
  <2>1. ahead[d] \cap cs \in SUBSET cs /\ ahead[d] \cap cs # cs /\ cs \in SUBSET cs
    BY DEF IsOrder
  <2>2. QED
    BY <1>1, <2>1, ZenonT(40)
<1>3. ASSUME NEW d \in cs, NEW e \in cs, e \in ahead[d]
      PROVE  Cardinality(ahead[e] \cap cs) < Cardinality(ahead[d] \cap cs)
  <2>1. ahead[e] \subseteq ahead[d] /\ e \notin ahead[e]
    BY <1>3 DEF IsOrder
  <2>2. /\ ahead[d] \cap cs \in SUBSET cs
        /\ ahead[e] \cap cs \in SUBSET (ahead[d] \cap cs)
        /\ ahead[e] \cap cs # ahead[d] \cap cs
    BY <1>3, <2>1
  <2>3. QED
    BY <1>1, <2>2, ZenonT(40)
<1>4. Cardinality(cs) \in Nat
  BY FS_CardinalityType, ZenonT(40)
<1>5. QED
  BY <1>2, <1>3, <1>4

\* queue_claim's loop: going through the candidates in their order decides each of
\* them, and in one way only.  So Grants, which says of every candidate how it is
\* decided by the ones before it, is that loop.
THEOREM LoopDecides ==
    ASSUME NEW ix, IsIndex(ix), NEW cs \in SUBSET Waiting(ix), NEW available
    PROVE  \E granted \in SUBSET cs :
               /\ Grants(ix, cs, granted, available)
               /\ \A other \in SUBSET cs : Grants(ix, cs, other, available) => other = granted
<1> DEFINE ahead == ix.ahead
           turn(d) == Cardinality(ahead[d] \cap cs)
           n == Cardinality(cs)
           Part(k) == {d \in cs : turn(d) < k}
           Done(k, g) == g \in SUBSET Part(k) /\ \A d \in Part(k) :
                             d \in g <=> MayGrant(d, g \cap ahead[d], available)
           S == {k \in 0..n : \E g \in SUBSET cs : Done(k, g)}
<1>1. /\ n \in Nat
      /\ \A d \in cs : turn(d) \in Nat /\ turn(d) < n
      /\ \A d, e \in cs : e \in ahead[d] => turn(e) < turn(d)
  <2>1. IsOrder(ahead) /\ cs \subseteq DOMAIN ahead /\ cs \in SUBSET Rows
    BY DEF IsIndex, Waiting
  <2>2. IsFiniteSet(cs)
    BY <2>1, FiniteRows, ZenonT(40)
  <2>3. QED
    BY <2>1, <2>2, Turns, ZenonT(40)
<1> HIDE DEF turn, n, ahead
<1>2. 0 \in S
  <2>1. 0 \in 0..n /\ \A d \in cs : ~(turn(d) < 0)
    BY <1>1
  <2>2. Done(0, {})
    BY <2>1
  <2> HIDE DEF Done
  <2>3. QED
    BY <2>1, <2>2
<1>3. ASSUME NEW k \in 1..n, k - 1 \in S PROVE k \in S
  <2>1. PICK g \in SUBSET cs : Done(k - 1, g)
    BY <1>3
  <2> DEFINE new == {d \in cs : turn(d) = k - 1 /\ MayGrant(d, g \cap ahead[d], available)}
             h == g \cup new
  <2>2. k \in 0..n /\ \A x \in Nat : (x < k <=> x < k - 1 \/ x = k - 1) /\ (x < k - 1 => x # k - 1)
    BY <1>1
  <2>3. \A d \in cs : /\ turn(d) < k <=> turn(d) < k - 1 \/ turn(d) = k - 1
                      /\ turn(d) < k - 1 => turn(d) # k - 1
    BY <1>1, <2>2, ZenonT(40)
  <2>4. ASSUME NEW d \in Part(k) PROVE h \cap ahead[d] = g \cap ahead[d]
    <3>1. ASSUME NEW e \in new, e \in ahead[d] PROVE FALSE
      <4>1. turn(e) = k - 1 /\ turn(e) < turn(d) /\ turn(d) < k /\ turn(d) \in Nat
        BY <1>1, <3>1, ZenonT(40)
      <4>2. QED
        BY <4>1
    <3>2. QED
      BY <3>1
  <2>5. ASSUME NEW d \in Part(k) PROVE d \in h <=> MayGrant(d, h \cap ahead[d], available)
    <3>1. d \in h <=> MayGrant(d, g \cap ahead[d], available)
      <4>1. CASE turn(d) < k - 1
        <5>1. d \in Part(k - 1) /\ d \notin new
          BY <2>3, <4>1, ZenonT(40)
        <5>2. QED
          BY <2>1, <5>1, ZenonT(40)
      <4>2. CASE turn(d) = k - 1
        <5>1. d \notin Part(k - 1)
          BY <2>3, <4>2, ZenonT(40)
        <5>2. d \notin g
          BY <2>1, <5>1, ZenonT(40)
        <5>3. QED
          BY <4>2, <5>2, ZenonT(40)
      <4>3. QED
        BY <2>3, <4>1, <4>2, ZenonT(40)
    <3>2. QED
      BY <2>4, <3>1, ZenonT(40)
  <2>6. h \in SUBSET Part(k)
    <3>1. g \subseteq Part(k)
      BY <2>1, <2>3, ZenonT(40)
    <3>2. new \subseteq Part(k)
      BY <2>3, ZenonT(40)
    <3>3. QED
      BY <3>1, <3>2
  <2>7. Done(k, h) /\ h \in SUBSET cs
    BY <2>5, <2>6, ZenonT(40)
  <2> HIDE DEF Done, h
  <2>8. QED
    BY <2>2, <2>7
<1>4. PICK granted \in SUBSET cs : Done(n, granted)
  <2>1. 0..n \subseteq S
    <3> HIDE DEF S
    <3>1. QED
      BY <1>1, <1>2, <1>3, Induct, ZenonT(40)
  <2>2. n \in 0..n
    BY <1>1
  <2> HIDE DEF Done
  <2>3. QED
    BY <2>1, <2>2
<1>5. Grants(ix, cs, granted, available)
  BY <1>1, <1>4, ZenonT(40) DEF Grants, ahead
<1>6. ASSUME NEW other \in SUBSET cs, Grants(ix, cs, other, available)
      PROVE  other = granted
  <2> DEFINE differ == (granted \ other) \cup (other \ granted)
  <2>1. SUFFICES ASSUME differ # {} PROVE FALSE
    OBVIOUS
  <2>2. PICK m \in {turn(d) : d \in differ} : \A x \in {turn(d) : d \in differ} : m <= x
    <3>1. {turn(d) : d \in differ} \subseteq Nat /\ {turn(d) : d \in differ} # {}
      BY <1>1, <2>1
    <3>2. QED
      BY <3>1, Least, ZenonT(40)
  <2>3. PICK d \in differ : m = turn(d)
    BY <2>2
  <2>4. ASSUME NEW e \in differ, e \in ahead[d] PROVE FALSE
    <3>1. turn(e) < turn(d) /\ turn(e) \in Nat /\ turn(d) \in Nat
      BY <1>1, <2>4
    <3>2. turn(d) <= turn(e)
      BY <2>2, <2>3, ZenonT(40)
    <3>3. QED
      BY <3>1, <3>2
  <2>5. granted \cap ahead[d] = other \cap ahead[d]
    BY <2>4
  <2>6. d \in granted <=> d \in other
    <3>1. /\ d \in granted <=> MayGrant(d, granted \cap ahead[d], available)
          /\ d \in other <=> MayGrant(d, other \cap ahead[d], available)
      BY <1>5, <1>6, ZenonT(40) DEF Grants, ahead
    <3>2. QED
      BY <2>5, <3>1
  <2>7. QED
    BY <2>6
<1>7. QED
  BY <1>5, <1>6

----------------------------------------------------------------------------
(* The steps *)

\* Rows enter and leave the queue, and time goes by.
LEMMA RowStepSound ==
    ASSUME ScanSound, NEW d \in Rows, Enters(d) \/ Held(d) \/ Elapses(d) \/ Expires(d)
    PROVE  ScanSound'
<1>1. /\ IsIndex(ready) /\ IsOrder(late) /\ DOMAIN late \subseteq Rows
      /\ leased \subseteq Rows \ Waiting(ready) /\ owed \cap ready.passed = {}
  BY ZenonT(40) DEF ScanSound, ScanTypeOK
<1>2. UNCHANGED <<leased, tasks, guards, tick, owed, caughtUp>>
  BY ZenonT(40) DEF Enters, Held, Elapses, Expires, history
<1>3. IsStart(ready.ahead, ready.due) /\ IsStart(ready.ahead, ready.passed)
      /\ ready.passed \subseteq ready.due /\ IsOrder(ready.ahead) /\ Waiting(ready) \subseteq Rows
      /\ ready = [ahead |-> ready.ahead, due |-> ready.due, passed |-> ready.passed]
  BY <1>1 DEF IsIndex
<1>4. /\ IsIndex(ready') /\ leased \subseteq Rows \ Waiting(ready') /\ owed \cap ready'.passed = {}
      /\ IsOrder(late') /\ DOMAIN late' \subseteq Rows
  <2>1. CASE Enters(d)
    <3> DEFINE with == With(ready, ready.due, {d})
    <3>1. /\ ready' = [with EXCEPT !.due = @ \cup {d}] /\ late' = Drop(late, {d})
          /\ d \notin Waiting(ready) /\ d \notin leased
      BY <2>1 DEF Enters
    <3>2. ready.due \in Fronts(ready)
      BY <1>3 DEF Fronts, IsStart, Waiting
    <3>3. /\ IsIndex(with) /\ Waiting(with) = Waiting(ready) \cup {d}
          /\ with.ahead = Put(ready.ahead, ready.due, {d})
          /\ with.due = ready.due /\ with.passed = ready.passed
      <4>1. {d} \subseteq Rows \ Waiting(ready)
        BY <3>1
      <4>2. QED
        BY <1>1, <3>2, <4>1, WithIndex
    <3> HIDE DEF with
    <3>4. /\ ready'.ahead = with.ahead /\ ready'.due = ready.due \cup {d}
          /\ ready'.passed = ready.passed
          /\ ready' = [ahead |-> ready'.ahead, due |-> ready'.due, passed |-> ready'.passed]
      <4>1. with = [ahead |-> with.ahead, due |-> with.due, passed |-> with.passed]
        BY <3>3 DEF IsIndex
      <4>2. QED
        BY <3>1, <3>3, <4>1
    <3>5. IsStart(with.ahead, ready.due \cup {d})
      <4>1. {d} \subseteq Nat /\ {d} \cap DOMAIN ready.ahead = {}
        BY <3>1, ClaimScanAssumption DEF Waiting
      <4>2. IsStart(Put(ready.ahead, ready.due, {d}), ready.due \cup {d})
        BY <1>3, <4>1, PutOrder, ZenonT(40)
      <4>3. QED
        BY <3>3, <4>2, ZenonT(40)
    <3>6. /\ IsOrder(with.ahead) /\ Waiting(with) \subseteq Rows
          /\ IsStart(with.ahead, with.passed)
      BY <3>3 DEF IsIndex
    <3>7. Waiting(ready') = Waiting(with)
      BY <3>4, ZenonT(40) DEF Waiting
    <3>8. IsIndex(ready')
      <4>1. ready'.passed \subseteq ready'.due /\ Waiting(ready') \subseteq Rows
        BY <1>3, <3>4, <3>6, <3>7
      <4>2. IsOrder(ready'.ahead) /\ IsStart(ready'.ahead, ready'.due)
            /\ IsStart(ready'.ahead, ready'.passed)
        BY <3>3, <3>4, <3>5, <3>6
      <4>3. QED
        BY <3>4, <4>1, <4>2, ZenonT(40) DEF IsIndex
    <3>9. leased \subseteq Rows \ Waiting(ready')
      BY <1>1, <3>1, <3>3, <3>7, SMTT(30)
    <3>10. IsOrder(late') /\ DOMAIN late' \subseteq Rows
      BY <1>1, <3>1, DropOrder, ZenonT(40)
    <3>11. QED
      BY <1>1, <3>4, <3>8, <3>9, <3>10
  <2>2. CASE Held(d)
    <3>1. ready' = Without(ready, {d}) /\ late' = late
      BY <2>2 DEF Held
    <3>2. /\ IsIndex(ready') /\ Waiting(ready') = Waiting(ready) \ {d}
          /\ ready'.passed = ready.passed \ {d}
      BY <1>1, <3>1, WithoutIndex
    <3>3. QED
      BY <1>1, <3>1, <3>2
  <2>3. CASE Elapses(d)
    <3>1. /\ ready' = [ready EXCEPT !.due = @ \cup {d}] /\ late' = late
          /\ d \in DOMAIN ready.ahead /\ ready.ahead[d] \subseteq ready.due
      BY <2>3 DEF Elapses, Waiting
    <3>2. /\ ready'.ahead = ready.ahead /\ ready'.due = ready.due \cup {d}
          /\ ready'.passed = ready.passed
          /\ ready' = [ahead |-> ready'.ahead, due |-> ready'.due, passed |-> ready'.passed]
      BY <1>3, <3>1
    <3>3. IsStart(ready.ahead, ready.due \cup {d}) /\ ready.passed \subseteq ready.due \cup {d}
      BY <1>3, <3>1 DEF IsStart
    <3>4. Waiting(ready') = Waiting(ready)
      BY <3>2, ZenonT(40) DEF Waiting
    <3>5. IsIndex(ready')
      BY <1>3, <3>2, <3>3, <3>4, ZenonT(40) DEF IsIndex
    <3>6. QED
      BY <1>1, <3>1, <3>2, <3>4, <3>5, SMTT(30)
  <2>4. CASE Expires(d)
    <3>1. /\ ready' = ready /\ late' = Put(late, DOMAIN late, {d}) /\ d \notin DOMAIN late
      BY <2>4 DEF Expires
    <3>2. IsStart(late, DOMAIN late) /\ {d} \subseteq Nat /\ {d} \cap DOMAIN late = {}
      BY <1>1, <3>1, ClaimScanAssumption DEF IsStart, IsOrder
    <3>3. IsOrder(late') /\ DOMAIN late' = DOMAIN late \cup {d}
      BY <1>1, <3>1, <3>2, PutOrder, ZenonT(40)
    <3>4. QED
      BY <1>1, <3>1, <3>3
  <2>5. QED
    BY <2>1, <2>2, <2>3, <2>4
<1>5. QED
  BY <1>2, <1>4, ZenonT(40) DEF ScanSound, ScanTypeOK, SlotsRespected, Load, Waiting

\* A guard goes: the slots stay respected.
LEMMA GuardGone ==
    ASSUME ScanSound, NEW gs \in SUBSET guards
    PROVE  Cardinality(gs) <= Concurrency /\ \A r \in Rows : Load(gs, DomainOf[r]) <= PerDomain
<1>1. /\ guards \subseteq Rows /\ Cardinality(guards) <= Concurrency
      /\ \A r \in Rows : Load(guards, DomainOf[r]) <= PerDomain
  BY ZenonT(40) DEF ScanSound, ScanTypeOK, SlotsRespected
<1>2. Concurrency \in Nat /\ PerDomain \in Nat
  BY ClaimScanAssumption
<1>3. ASSUME NEW S \in SUBSET Rows, NEW T \in SUBSET S
      PROVE  /\ Cardinality(T) <= Cardinality(S)
             /\ Cardinality(T) \in Nat /\ Cardinality(S) \in Nat
  <2>1. T \in SUBSET Rows
    OBVIOUS
  <2>2. QED
    BY <2>1, FiniteRows, FS_Subset, ZenonT(40)
<1>4. Cardinality(gs) <= Concurrency
  <2>1. guards \in SUBSET Rows
    BY <1>1
  <2>2. Cardinality(gs) <= Cardinality(guards) /\ Cardinality(gs) \in Nat /\ Cardinality(guards) \in Nat
    BY <1>3, <2>1, ZenonT(40)
  <2>3. QED
    BY <1>1, <1>2, <2>2
<1>5. ASSUME NEW r \in Rows PROVE Load(gs, DomainOf[r]) <= PerDomain
  <2> DEFINE S == {d \in guards : DomainOf[d] = DomainOf[r]}
             T == {d \in gs : DomainOf[d] = DomainOf[r]}
  <2>1. S \in SUBSET Rows /\ T \in SUBSET S
    BY <1>1
  <2>2. Cardinality(S) <= PerDomain
    BY <1>1, ZenonT(40) DEF Load
  <2> HIDE DEF S, T
  <2>3. Cardinality(T) <= Cardinality(S) /\ Cardinality(T) \in Nat /\ Cardinality(S) \in Nat
    BY <1>3, <2>1, ZenonT(40)
  <2>4. Cardinality(T) <= PerDomain
    BY <1>2, <2>2, <2>3
  <2>5. QED
    BY <2>4, ZenonT(40) DEF Load, T
<1>6. QED
  BY <1>4, <1>5

\* An attempt ends, or its reader does.
LEMMA AttemptSound ==
    ASSUME ScanSound, NEW d \in Rows, AttemptEnds(d) \/ ReaderEnds(d)
    PROVE  ScanSound'
<1>1. /\ IsIndex(ready) /\ IsOrder(late) /\ DOMAIN late \subseteq Rows
      /\ leased \subseteq Rows \ Waiting(ready) /\ tasks \subseteq leased \cap guards
      /\ guards \subseteq Rows /\ owed \cap ready.passed = {}
  BY ZenonT(40) DEF ScanSound, ScanTypeOK
<1>2. UNCHANGED <<late, tick, owed, caughtUp>> /\ guards' \in SUBSET guards
  BY DEF AttemptEnds, ReaderEnds, history
<1>3. SlotsRespected'
  BY <1>2, GuardGone, ZenonT(40) DEF SlotsRespected, Load
<1>4. /\ IsIndex(ready') /\ leased' \subseteq Rows \ Waiting(ready') /\ tasks' \subseteq leased' \cap guards'
      /\ ready'.passed = ready.passed
  <2>1. CASE ReaderEnds(d)
    BY <1>1, <2>1 DEF ReaderEnds
  <2>2. CASE AttemptEnds(d) /\ UNCHANGED <<leased, ready>>
    BY <1>1, <2>2, SMTT(30) DEF AttemptEnds
  <2>3. CASE AttemptEnds(d) /\ leased' = leased \ {d} /\ ready' = ready
    BY <1>1, <2>3, SMTT(30) DEF AttemptEnds
  <2>4. CASE AttemptEnds(d) /\ leased' = leased \ {d}
             /\ \E front \in Fronts(ready) : ready' = With(ready, front, {d})
    <3>1. PICK front \in Fronts(ready) : ready' = With(ready, front, {d})
      BY <2>4, SMTT(30)
    <3>2. {d} \subseteq Rows \ Waiting(ready) /\ tasks' \subseteq leased' \cap guards'
      BY <1>1, <2>4, SMTT(30) DEF AttemptEnds
    <3>3. /\ IsIndex(ready') /\ Waiting(ready') = Waiting(ready) \cup {d}
          /\ ready'.passed = ready.passed
      BY <1>1, <3>1, <3>2, WithIndex, SMTT(30)
    <3>4. QED
      BY <1>1, <2>4, <3>2, <3>3
  <2>5. QED
    BY <2>1, <2>2, <2>3, <2>4 DEF AttemptEnds
<1>5. guards' \subseteq Rows
  BY <1>1, <1>2
<1>6. QED
  BY <1>1, <1>2, <1>3, <1>4, <1>5, ZenonT(40) DEF ScanSound, ScanTypeOK, Waiting

\* The rows seen, the rows then behind the cursor and the index that is left, when
\* the loop grants to the rows granted.
Outcome(ix, granted, available, seen, passed, rest) ==
    /\ granted \in SUBSET Candidates(ix)
    /\ seen = Examined(ix, Candidates(ix), granted, available)
    /\ passed = NextPassed(ix, Candidates(ix), seen)
    /\ rest = Without(Moved(ix, passed), granted)

\* What the scan does to the index once recovery and expiry have made it ix.
LEMMA ScanKeepsIndex ==
    ASSUME NEW ix, IsIndex(ix), NEW granted, NEW available, NEW seen, NEW passed, NEW rest,
           Outcome(ix, granted, available, seen, passed, rest)
    PROVE  /\ IsIndex(rest) /\ Waiting(rest) = Waiting(ix) \ granted
           /\ rest.passed = passed \ granted
           /\ passed \subseteq ix.passed \cup seen
           /\ seen \subseteq Candidates(ix) /\ Candidates(ix) \subseteq ix.due
           /\ ix.due \subseteq Waiting(ix)
<1> DEFINE moved == Moved(ix, passed)
<1>0. /\ granted \in SUBSET Candidates(ix)
      /\ seen = Examined(ix, Candidates(ix), granted, available)
      /\ passed = NextPassed(ix, Candidates(ix), seen)
      /\ rest = Without(moved, granted)
  BY DEF Outcome
<1>1. /\ IsOrder(ix.ahead) /\ Waiting(ix) \subseteq Rows
      /\ IsStart(ix.ahead, ix.due) /\ ix.due \subseteq DOMAIN ix.ahead
      /\ ix = [ahead |-> ix.ahead, due |-> ix.due, passed |-> ix.passed]
  BY DEF IsIndex, IsStart
<1>2. /\ moved.ahead = ix.ahead /\ moved.due = ix.due /\ moved.passed = passed
      /\ moved = [ahead |-> moved.ahead, due |-> moved.due, passed |-> moved.passed]
  BY <1>1 DEF Moved
<1> HIDE DEF moved
<1>3. seen \subseteq Candidates(ix) /\ UpTo(ix.ahead, seen) \subseteq ix.passed \cup seen
  BY <1>0, CursorPasses, ZenonT(40)
<1>4. Candidates(ix) \subseteq ix.due
  BY DEF Candidates, First
<1>5. passed = {} \/ passed = UpTo(ix.ahead, seen)
  BY <1>0, ZenonT(40) DEF NextPassed
<1>6. IsStart(ix.ahead, passed) /\ passed \subseteq ix.due
  <2>1. seen \subseteq ix.due /\ seen \subseteq DOMAIN ix.ahead
    BY <1>1, <1>3, <1>4
  <2>2. IsStart(ix.ahead, UpTo(ix.ahead, seen)) /\ UpTo(ix.ahead, seen) \subseteq ix.due
    BY <1>1, <2>1, UpToStart, ZenonT(40)
  <2>3. IsStart(ix.ahead, {})
    BY DEF IsStart
  <2>4. QED
    BY <1>5, <2>2, <2>3
<1>7. Waiting(moved) = Waiting(ix)
  BY <1>2, ZenonT(40) DEF Waiting
<1>8. IsIndex(moved)
  BY <1>1, <1>2, <1>6, <1>7, ZenonT(40) DEF IsIndex
<1>9. /\ IsIndex(rest) /\ Waiting(rest) = Waiting(ix) \ granted
      /\ rest.passed = passed \ granted
  <2>1. IsIndex(Without(moved, granted))
    BY <1>8, WithoutIndex, ZenonT(40)
  <2>2. Waiting(Without(moved, granted)) = Waiting(moved) \ granted
    BY <1>8, WithoutIndex, SMTT(30)
  <2>3. Without(moved, granted).passed = moved.passed \ granted
    BY <1>8, WithoutIndex
  <2>4. QED
    BY <1>0, <1>2, <1>7, <2>1, <2>2, <2>3
<1>10. passed \subseteq ix.passed \cup seen
  BY <1>3, <1>5
<1>11. QED
  BY <1>1, <1>3, <1>4, <1>9, <1>10 DEF Waiting

\* serve's first call: late rows leave the queue.
LEMMA TickExpiresSound ==
    ASSUME ScanSound, TickExpires
    PROVE  ScanSound'
<1>1. IsIndex(ready) /\ leased \subseteq Rows \ Waiting(ready) /\ owed \cap ready.passed = {}
  BY ZenonT(40) DEF ScanSound, ScanTypeOK
<1>2. PICK S : ready' = Without(ready, S)
  BY DEF TickExpires
<1>3. /\ UNCHANGED <<late, leased, tasks, guards, owed, caughtUp>> /\ tick' \in {"expire", "claim"}
  BY DEF TickExpires, history
<1>4. /\ IsIndex(ready') /\ Waiting(ready') = Waiting(ready) \ S
      /\ ready'.passed = ready.passed \ S
  BY <1>1, <1>2, WithoutIndex
<1>5. leased \subseteq Rows \ Waiting(ready') /\ owed \cap ready'.passed = {}
  BY <1>1, <1>4
<1>6. QED
  BY <1>3, <1>4, <1>5, ZenonT(40) DEF ScanSound, ScanTypeOK, SlotsRespected, Load, Waiting

\* serve's second call: queue_claim recovers, expires and scans.
LEMMA TickClaimsSound ==
    ASSUME ScanSound, TickClaims
    PROVE  ScanSound'
<1>1. /\ IsIndex(ready) /\ leased \subseteq Rows \ Waiting(ready) /\ tasks \subseteq leased \cap guards
      /\ guards \subseteq Rows /\ owed \subseteq Rows /\ owed \cap ready.passed = {}
      /\ IsOrder(late) /\ DOMAIN late \subseteq Rows
      /\ caughtUp \in BOOLEAN
  BY ZenonT(40) DEF ScanSound, ScanTypeOK
<1>2. late' = late /\ tick' \in {"expire", "claim"}
  BY DEF TickClaims
<1>3. PICK recovered \in Recovers(ready) :
        LET ix == Without(recovered, ExpiryBatch(recovered, Window))
        IN  IF Available > 0
            THEN Scan(ix, Available)
            ELSE /\ ready' = ix
                 /\ leased' = leased \cap guards
                 /\ UNCHANGED <<tasks, guards, caughtUp, owed>>
  BY DEF TickClaims
<1> DEFINE gone == ExpiryBatch(recovered, Window)
           ix == Without(recovered, gone)
<1>4. PICK front \in Fronts(ready), S \in SUBSET (leased \ guards) : recovered = With(ready, front, S)
  BY DEF Recovers
<1>5. /\ IsIndex(recovered) /\ Waiting(recovered) = Waiting(ready) \cup S
      /\ recovered.passed = ready.passed
  <2>1. S \subseteq Rows \ Waiting(ready)
    BY <1>1, <1>4, SMTT(30)
  <2>2. QED
    BY <1>1, <1>4, <2>1, WithIndex, SMTT(30)
<1>6. /\ IsIndex(ix) /\ Waiting(ix) = Waiting(recovered) \ gone /\ ix.passed = recovered.passed \ gone
  BY <1>5, WithoutIndex, SMTT(30)
<1> HIDE DEF ix, gone
<1>7. leased \cap guards \subseteq Rows \ Waiting(ix) /\ owed \cap ix.passed = {} /\ Waiting(ix) \subseteq Rows
  BY <1>1, <1>4, <1>5, <1>6 DEF IsIndex
<1>8. CASE ~(Available > 0)
  <2>1. /\ ready' = ix /\ leased' = leased \cap guards
        /\ UNCHANGED <<tasks, guards, caughtUp, owed>>
    BY <1>3, <1>8 DEF ix, gone
  <2>2. tasks \subseteq leased' \cap guards /\ leased' \subseteq Rows \ Waiting(ready')
        /\ owed \cap ready'.passed = {}
    BY <1>1, <1>7, <2>1
  <2>3. QED
    BY <1>2, <1>6, <2>1, <2>2, ZenonT(40) DEF ScanSound, ScanTypeOK, SlotsRespected, Load, Waiting
<1>9. CASE Available > 0
  <2> DEFINE cs == Candidates(ix)
  <2>a. Scan(ix, Available)
    BY <1>3, <1>9, SMTT(30) DEF ix, gone
  <2>b. PICK granted \in SUBSET cs :
          LET seen   == Examined(ix, cs, granted, Available)
              passed == NextPassed(ix, cs, seen)
          IN  /\ Grants(ix, cs, granted, Available)
              /\ ready' = Without(Moved(ix, passed), granted)
              /\ leased' = (leased \cap guards) \cup granted
              /\ tasks' = tasks \cup granted
              /\ guards' = guards \cup granted
              /\ caughtUp' = RanOut(cs, seen)
              /\ owed' = IF passed = {} THEN ix.due \ granted ELSE owed \ seen
    BY <2>a, ZenonT(40) DEF Scan
  <2> DEFINE seen   == Examined(ix, cs, granted, Available)
             passed == NextPassed(ix, cs, seen)
  <2>1. /\ Grants(ix, cs, granted, Available)
        /\ ready' = Without(Moved(ix, passed), granted)
        /\ leased' = (leased \cap guards) \cup granted
        /\ tasks' = tasks \cup granted
        /\ guards' = guards \cup granted
        /\ caughtUp' = RanOut(cs, seen)
        /\ owed' = IF passed = {} THEN ix.due \ granted ELSE owed \ seen
    BY <2>b
  <2>2. /\ IsIndex(ready') /\ Waiting(ready') = Waiting(ix) \ granted
        /\ ready'.passed = passed \ granted /\ passed \subseteq ix.passed \cup seen
        /\ seen \subseteq cs /\ cs \subseteq ix.due /\ ix.due \subseteq Waiting(ix)
    <3> HIDE DEF cs, seen, passed
    <3> DEFINE rest == Without(Moved(ix, passed), granted)
    <3>1. Outcome(ix, granted, Available, seen, passed, rest) /\ cs = Candidates(ix)
      BY ZenonT(40) DEF Outcome, cs, seen, passed
    <3> HIDE DEF rest
    <3>2. /\ IsIndex(rest) /\ Waiting(rest) = Waiting(ix) \ granted
          /\ rest.passed = passed \ granted
          /\ passed \subseteq ix.passed \cup seen
          /\ seen \subseteq Candidates(ix) /\ Candidates(ix) \subseteq ix.due
          /\ ix.due \subseteq Waiting(ix)
      BY <1>6, <3>1, ScanKeepsIndex, ZenonT(40)
    <3>3. ready' = rest
      BY <2>1 DEF rest
    <3>4. QED
      BY <3>1, <3>2, <3>3
  <2> HIDE DEF cs, seen, passed
  <2>3. /\ leased' \subseteq Rows \ Waiting(ready') /\ tasks' \subseteq leased' \cap guards'
        /\ guards' \subseteq Rows /\ owed' \subseteq Rows
    BY <1>1, <1>7, <2>1, <2>2, SMTT(30)
  <2>4. owed' \cap ready'.passed = {}
    BY <1>7, <2>1, <2>2
  <2>5. caughtUp' \in BOOLEAN
    BY <2>1, ZenonT(40) DEF RanOut
  <2>6. granted \in SUBSET Rows /\ cs \subseteq Waiting(ix) /\ guards \in SUBSET Rows
    BY <1>1, <1>7, <2>2
  <2>7. /\ IsFiniteSet(guards) /\ Cardinality(guards) \in Nat
        /\ IsFiniteSet(granted) /\ Cardinality(granted) \in Nat
    BY <2>6, FiniteRows, ZenonT(40)
  <2>8. Available \in Nat /\ Cardinality(guards) + Available <= Concurrency
    BY <1>9, <2>7, ClaimScanAssumption, SMTT(30) DEF Available
  <2>9. Cardinality(guards') <= Concurrency
    <3>1. Cardinality(granted) <= Available
      BY <1>6, <2>1, <2>6, <2>8, SlotsFilled, ZenonT(40)
    <3>2. /\ Cardinality(guards \cup granted) =
                 Cardinality(guards) + Cardinality(granted) - Cardinality(guards \cap granted)
          /\ Cardinality(guards \cap granted) \in Nat
      <4>1. guards \cap granted \in SUBSET Rows
        BY <2>6
      <4>2. QED
        BY <2>7, <4>1, FS_Union, FiniteRows, ZenonT(40)
    <3>3. Concurrency \in Nat
      BY ClaimScanAssumption, SMTT(30)
    <3>4. QED
      BY <2>1, <2>7, <2>8, <3>1, <3>2, <3>3, SMTT(30)
  <2>10. ASSUME NEW r \in Rows PROVE Load(guards', DomainOf[r]) <= PerDomain
    <3>1. Load(guards, DomainOf[r]) <= PerDomain
      BY ZenonT(40) DEF ScanSound, SlotsRespected
    <3>2. Load(guards \cup granted, DomainOf[r]) <= PerDomain
      BY <1>1, <1>6, <2>1, <2>6, <2>8, <3>1, DomainSlotsFilled, ZenonT(40)
    <3>3. QED
      BY <2>1, <3>2
  <2>11. SlotsRespected'
    BY <2>9, <2>10, ZenonT(40) DEF SlotsRespected, Load
  <2>12. QED
    BY <1>1, <1>2, <2>2, <2>3, <2>4, <2>5, <2>11, ZenonT(40) DEF ScanSound, ScanTypeOK, Waiting
<1>10. QED
  BY <1>8, <1>9

\* An empty queue.
LEMMA ScanInitSound == ScanInit => ScanSound
<1> SUFFICES ASSUME ScanInit PROVE ScanSound
  OBVIOUS
<1>1. IsIndex(ready) /\ Waiting(ready) = {} /\ ready.passed = {}
  BY DEF ScanInit, IsIndex, IsOrder, IsStart, Waiting
<1>2. IsOrder(late) /\ DOMAIN late \subseteq Rows
  BY DEF ScanInit, IsOrder
<1>3. SlotsRespected
  <2>1. Concurrency \in Nat /\ PerDomain \in Nat /\ guards = {}
    BY ClaimScanAssumption DEF ScanInit
  <2>2. \A r \in Rows : {d \in guards : DomainOf[d] = DomainOf[r]} = {}
    BY <2>1
  <2>3. \A r \in Rows : Load(guards, DomainOf[r]) = 0
    BY <2>2, FS_EmptySet, ZenonT(40) DEF Load
  <2>4. QED
    BY <2>1, <2>3, FS_EmptySet DEF SlotsRespected
<1>4. QED
  BY <1>1, <1>2, <1>3 DEF ScanInit, ScanSound, ScanTypeOK

\* Every step keeps the scan sound.
LEMMA ScanStepSound == ScanSound /\ [ScanNext]_scanVars => ScanSound'
<1> SUFFICES ASSUME ScanSound, [ScanNext]_scanVars PROVE ScanSound'
  OBVIOUS
<1>1. CASE \E d \in Rows : Enters(d) \/ Held(d) \/ Elapses(d) \/ Expires(d)
  BY <1>1, RowStepSound
<1>2. CASE \E d \in Rows : AttemptEnds(d) \/ ReaderEnds(d)
  BY <1>2, AttemptSound
<1>3. CASE TickIdles \/ UNCHANGED scanVars
  <2>1. /\ UNCHANGED <<ready, late, leased, tasks, guards, owed, caughtUp>>
        /\ tick' \in {"expire", "claim"}
    BY <1>3 DEF TickIdles, scanVars, history, ScanSound, ScanTypeOK
  <2>2. QED
    BY <2>1, ZenonT(40) DEF ScanSound, ScanTypeOK, SlotsRespected, Load, Waiting
<1>4. QED
  BY <1>1, <1>2, <1>3, TickExpiresSound, TickClaimsSound, ZenonT(40) DEF ScanNext

\* queue_claim and ready_cursor, for every policy and every set of rows: the live
\* guards stay within concurrency and per_domain, and no row that was due when the
\* sweep began is left behind the cursor unexamined.
THEOREM ScansAreSound == ScanSpec => []ScanSound
BY ScanInitSound, ScanStepSound, PTL DEF ScanSpec

============================================================================
