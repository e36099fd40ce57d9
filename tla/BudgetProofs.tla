----------------------------- MODULE BudgetProofs -----------------------------
(***************************************************************************)
(* Proofs about BudgetLedger, for any spawns, calls, amounts, prices and   *)
(* limits: its counters are what the ledger adds up to and never exceed    *)
(* the budget, no source is counted twice, a settlement is exact, costs    *)
(* stay covered, unknown usage freezes the ledger, and every call is a     *)
(* movement of one spawn's account.  The sums are recursive functions, so  *)
(* what they add up to is proved by induction first; the library's         *)
(* least-element fact for well-founded relations stands in for an          *)
(* induction rule.                                                         *)
(***************************************************************************)
EXTENDS BudgetLedger, FiniteSetTheorems, SequenceTheorems, TLAPS

\* AccountProofs about the accounts this ledger keeps.
Facts == INSTANCE AccountProofs
  WITH held   <- [s \in Spawns |-> Outstanding(s)],
       spent  <- [s \in Spawns |-> NetUse(log, s)],
       closed <- {s \in Spawns : Settled(s)}

-----------------------------------------------------------------------------
(* Induction *)

\* A set of naturals has a least member.
LEMMA LeastNatural ==
  ASSUME NEW T, T \subseteq Nat, T # {}
  PROVE  \E n \in T : \A m \in T : n <= m
<1>. DEFINE R == OpToRel(<, Nat)
<1>1. IsWellFoundedOn(R, Nat)
  BY NatLessThanWellFounded
<1>2. R = {p \in Nat \X Nat : p[1] < p[2]}
  BY DEF OpToRel
<1>. HIDE DEF R
<1>3. PICK n \in T : \A m \in T : ~(<<m, n>> \in R)
  BY <1>1, WFMin
<1>4. ASSUME NEW m \in T
      PROVE  n <= m
  <2>1. n \in Nat /\ m \in Nat /\ ~(m < n)
    BY <1>2, <1>3
  <2>. QED BY <2>1
<1>. QED BY <1>4

\* Induction over the naturals, for a set instead of a predicate.
LEMMA Inductive ==
  ASSUME NEW S, 0 \in S, \A n \in Nat : n \in S => n + 1 \in S
  PROVE  Nat \subseteq S
<1>. SUFFICES ASSUME Nat \ S # {}
             PROVE  FALSE
  OBVIOUS
<1>1. PICK n \in Nat \ S : \A m \in Nat \ S : n <= m
  BY LeastNatural
<1>2. n # 0 /\ n - 1 \in Nat
  BY <1>1
<1>3. n - 1 \in S
  BY <1>1, <1>2
<1>. QED BY <1>1, <1>2, <1>3

-----------------------------------------------------------------------------
(* Sums of functions, as SumFunction computes them *)

\* The member MapThenFoldSet takes first.
Some(s) == CHOOSE x \in s : TRUE

\* f sums g over every subset of S.
Sums(g, S, f) ==
  f = [s \in SUBSET S |-> IF s = {} THEN 0 ELSE g[Some(s)] + f[s \ {Some(s)}]]

Small(S, n) == {s \in SUBSET S : Cardinality(s) <= n}

LEMMA SmallWithout ==
  ASSUME NEW S, IsFiniteSet(S), NEW n \in Nat, NEW s \in Small(S, n + 1), s # {}
  PROVE  Some(s) \in s /\ s \ {Some(s)} \in Small(S, n)
<1>1. Some(s) \in s
  BY DEF Some
<1>2. IsFiniteSet(s) /\ Cardinality(s) \in Nat
  BY FS_Subset, FS_CardinalityType DEF Small
<1>3. Cardinality(s \ {Some(s)}) = Cardinality(s) - 1
  BY <1>1, <1>2, FS_RemoveElement
<1>. QED BY <1>1, <1>2, <1>3 DEF Small

\* A function that sums over every subset exists, for subsets of any size.
LEMMA SumsExist ==
  ASSUME NEW S, IsFiniteSet(S), NEW g \in [S -> Int]
  PROVE  \E f \in [SUBSET S -> Int] : Sums(g, S, f)
<1>. DEFINE
  Upto(n, f) ==
    f = [s \in Small(S, n) |-> IF s = {} THEN 0 ELSE g[Some(s)] + f[s \ {Some(s)}]]
  N == {n \in Nat : \E f \in [Small(S, n) -> Int] : Upto(n, f)}
<1>1. 0 \in N
  <2>1. \A s \in Small(S, 0) : s = {}
    <3>. SUFFICES ASSUME NEW s \in Small(S, 0)
                 PROVE  s = {}
      OBVIOUS
    <3>1. IsFiniteSet(s) /\ Cardinality(s) \in Nat /\ Cardinality(s) <= 0
      BY FS_Subset, FS_CardinalityType DEF Small
    <3>. QED BY <3>1, FS_EmptySet
  <2>. DEFINE z == [s \in Small(S, 0) |-> 0]
  <2>2. z \in [Small(S, 0) -> Int] /\ Upto(0, z)
    BY <2>1
  <2>. HIDE DEF z, Upto
  <2>. QED BY <2>2
<1>2. ASSUME NEW n \in Nat, n \in N
      PROVE  n + 1 \in N
  <2>1. PICK f \in [Small(S, n) -> Int] : Upto(n, f)
    BY <1>2
  <2>. DEFINE h == [s \in Small(S, n + 1) |->
                     IF s = {} THEN 0 ELSE g[Some(s)] + f[s \ {Some(s)}]]
  <2>2. Small(S, n) \subseteq Small(S, n + 1)
    <3>. SUFFICES ASSUME NEW s \in Small(S, n)
                 PROVE  Cardinality(s) <= n + 1
      BY DEF Small
    <3>1. Cardinality(s) \in Nat /\ Cardinality(s) <= n
      BY FS_Subset, FS_CardinalityType DEF Small
    <3>. QED BY <3>1
  <2>3. \A s \in Small(S, n) : h[s] = f[s]
    BY <2>1, <2>2
  <2>4. h \in [Small(S, n + 1) -> Int]
    <3>. SUFFICES ASSUME NEW s \in Small(S, n + 1)
                 PROVE  (IF s = {} THEN 0 ELSE g[Some(s)] + f[s \ {Some(s)}]) \in Int
      OBVIOUS
    <3>1. CASE s # {}
      <4>1. Some(s) \in S /\ f[s \ {Some(s)}] \in Int
        BY <3>1, SmallWithout DEF Small
      <4>. QED BY <3>1, <4>1
    <3>. QED BY <3>1
  <2>5. Upto(n + 1, h)
    <3>1. \A s \in Small(S, n + 1) : s # {} => h[s \ {Some(s)}] = f[s \ {Some(s)}]
      BY <2>3, SmallWithout
    <3>. QED BY <3>1
  <2>. HIDE DEF h, Upto
  <2>. QED BY <2>4, <2>5
<1>3. Nat \subseteq N
  <2>. HIDE DEF N
  <2>. QED BY <1>1, <1>2, Inductive
<1>4. Cardinality(S) \in N
  BY <1>3, FS_CardinalityType
<1>5. Small(S, Cardinality(S)) = SUBSET S
  BY FS_Subset DEF Small
<1>. QED BY <1>4, <1>5 DEF Sums

\* SumFunction is what such a function says of the whole set.
LEMMA SumIs ==
  ASSUME NEW S, IsFiniteSet(S), NEW g \in [S -> Int]
  PROVE  \E f : Sums(g, S, f) /\ SumFunction(g) = f[S]
<1>. DEFINE f == CHOOSE f : Sums(g, S, f)
<1>1. Sums(g, S, f)
  BY SumsExist
<1>2. SumFunction(g) = f[S]
  BY Zenon DEF SumFunction, SumFunctionOnSet, FoldFunctionOnSet, MapThenFoldSet, Sums, Some
<1>. HIDE DEF f
<1>. QED BY <1>1, <1>2

\* All subsets of a finite set, by induction on their size.
LEMMA SubsetsInductive ==
  ASSUME NEW S, IsFiniteSet(S), NEW T, {} \in T,
         \A s \in SUBSET S : s # {} /\ s \ {Some(s)} \in T => s \in T
  PROVE  S \in T
<1>. DEFINE N == {n \in Nat : Small(S, n) \subseteq T}
<1>1. 0 \in N
  <2>. SUFFICES ASSUME NEW s \in Small(S, 0)
               PROVE  s \in T
    OBVIOUS
  <2>1. IsFiniteSet(s) /\ Cardinality(s) \in Nat /\ Cardinality(s) <= 0
    BY FS_Subset, FS_CardinalityType DEF Small
  <2>. QED BY <2>1, FS_EmptySet
<1>2. ASSUME NEW n \in Nat, n \in N
      PROVE  n + 1 \in N
  <2>. SUFFICES ASSUME NEW s \in Small(S, n + 1)
               PROVE  s \in T
    OBVIOUS
  <2>1. s # {} => s \ {Some(s)} \in Small(S, n)
    BY SmallWithout
  <2>. QED BY <1>2, <2>1 DEF Small
<1>3. Cardinality(S) \in N
  <2>1. Nat \subseteq N
    <3>. HIDE DEF N
    <3>. QED BY <1>1, <1>2, Inductive
  <2>. QED BY <2>1, FS_CardinalityType
<1>4. S \in Small(S, Cardinality(S))
  BY FS_CardinalityType DEF Small
<1>. QED BY <1>3, <1>4

\* A sum follows the change of one value.
LEMMA SumOfChanged ==
  ASSUME NEW S, IsFiniteSet(S), NEW g \in [S -> Int], NEW h \in [S -> Int], NEW x \in S,
         \A y \in S \ {x} : h[y] = g[y]
  PROVE  SumFunction(h) = SumFunction(g) + (h[x] - g[x])
<1>2. PICK f : Sums(g, S, f) /\ SumFunction(g) = f[S]
  BY SumIs
<1>3. PICK k : Sums(h, S, k) /\ SumFunction(h) = k[S]
  BY SumIs
<1>. DEFINE T == {s \in SUBSET S : /\ f[s] \in Int
                                  /\ k[s] = f[s] + IF x \in s THEN h[x] - g[x] ELSE 0}
<1>4. {} \in T
  BY <1>2, <1>3 DEF Sums
<1>5. ASSUME NEW s \in SUBSET S, s # {}, s \ {Some(s)} \in T
      PROVE  s \in T
  <2>1. Some(s) \in s /\ Some(s) \in S
    BY <1>5 DEF Some
  <2>2. /\ f[s] = g[Some(s)] + f[s \ {Some(s)}]
        /\ k[s] = h[Some(s)] + k[s \ {Some(s)}]
    BY <1>2, <1>3, <1>5 DEF Sums
  <2>3. CASE Some(s) = x
    <3>1. x \notin s \ {Some(s)}
      BY <2>3
    <3>. QED BY <1>5, <2>1, <2>2, <2>3, <3>1
  <2>4. CASE Some(s) # x
    <3>1. x \in s \ {Some(s)} <=> x \in s
      BY <2>4
    <3>. QED BY <1>5, <2>1, <2>2, <2>4, <3>1
  <2>. QED BY <2>3, <2>4
<1>6. S \in T
  <2>. HIDE DEF T
  <2>. QED BY <1>4, <1>5, SubsetsInductive
<1>. QED BY <1>2, <1>3, <1>6

\* Nothing adds up to nothing.
LEMMA SumOfZeros ==
  ASSUME NEW S, IsFiniteSet(S)
  PROVE  SumFunction([s \in S |-> 0]) = 0
<1>. DEFINE g == [s \in S |-> 0]
<1>1. g \in [S -> Int] /\ \A s \in S : g[s] = 0
  OBVIOUS
<1>. HIDE DEF g
<1>2. PICK f : Sums(g, S, f) /\ SumFunction(g) = f[S]
  BY <1>1, SumIs
<1>. DEFINE T == {s \in SUBSET S : f[s] = 0}
<1>3. {} \in T
  BY <1>2 DEF Sums
<1>4. ASSUME NEW s \in SUBSET S, s # {}, s \ {Some(s)} \in T
      PROVE  s \in T
  <2>1. Some(s) \in S
    BY <1>4 DEF Some
  <2>2. f[s] = g[Some(s)] + f[s \ {Some(s)}]
    BY <1>2, <1>4 DEF Sums
  <2>. QED BY <1>1, <1>4, <2>1, <2>2
<1>5. S \in T
  <2>. HIDE DEF T
  <2>. QED BY <1>3, <1>4, SubsetsInductive
<1>. QED BY <1>2, <1>5 DEF g

-----------------------------------------------------------------------------
(* Totals of events *)

\* What a sum counts in: an amount, or the difference of two.
Quantity == [Dims -> Int]

LEMMA QuantityOps ==
  /\ Zero \in Quantity /\ Zero \in Amount /\ \A d \in Dims : Zero[d] = 0
  /\ Amount \subseteq Quantity
  /\ \A a, b \in Quantity :
       /\ Plus(a, b) \in Quantity /\ \A d \in Dims : Plus(a, b)[d] = a[d] + b[d]
       /\ Minus(a, b) \in Quantity /\ \A d \in Dims : Minus(a, b)[d] = a[d] - b[d]
  /\ \A a, b \in Amount : Plus(a, b) \in Amount
  /\ \A a, b \in Amount : Leq(b, a) => Minus(a, b) \in Amount
<1>1. Zero \in Quantity /\ Zero \in Amount /\ \A d \in Dims : Zero[d] = 0
  BY DEF Zero, Quantity, Amount
<1>2. Amount \subseteq Quantity
  BY DEF Amount, Quantity
<1>3. ASSUME NEW a \in Quantity, NEW b \in Quantity
      PROVE  /\ Plus(a, b) \in Quantity /\ \A d \in Dims : Plus(a, b)[d] = a[d] + b[d]
             /\ Minus(a, b) \in Quantity /\ \A d \in Dims : Minus(a, b)[d] = a[d] - b[d]
  BY DEF Plus, Minus, Quantity
<1>4. \A a, b \in Amount : Plus(a, b) \in Amount
  BY DEF Plus, Amount
<1>5. \A a, b \in Amount : Leq(b, a) => Minus(a, b) \in Amount
  BY DEF Minus, Amount, Leq
<1>. QED BY <1>1, <1>2, <1>3, <1>4, <1>5

LEMMA QuantitiesEqual ==
  ASSUME NEW a \in Quantity, NEW b \in Quantity, \A d \in Dims : a[d] = b[d]
  PROVE  a = b
  BY DEF Quantity

\* f adds up every prefix of the sequence.
Partial(seq, f) ==
  f = [n \in 0 .. Len(seq) |-> IF n = 0 THEN Zero ELSE Plus(f[n - 1], seq[n])]

\* Such a function exists, by induction on the length.
LEMMA PartialExists ==
  ASSUME NEW seq \in Seq(Quantity)
  PROVE  \E f : Partial(seq, f)
<1>. DEFINE
  Upto(n, f) == f = [m \in 0 .. n |-> IF m = 0 THEN Zero ELSE Plus(f[m - 1], seq[m])]
  N == {n \in Nat : \E f : Upto(n, f)}
<1>1. 0 \in N
  <2>. DEFINE z == [m \in 0 .. 0 |-> Zero]
  <2>1. Upto(0, z)
    OBVIOUS
  <2>. HIDE DEF z, Upto
  <2>. QED BY <2>1
<1>2. ASSUME NEW n \in Nat, n \in N
      PROVE  n + 1 \in N
  <2>1. PICK f : Upto(n, f)
    BY <1>2
  <2>. DEFINE h == [m \in 0 .. n + 1 |-> IF m = 0 THEN Zero ELSE Plus(f[m - 1], seq[m])]
  <2>2. \A m \in 0 .. n : h[m] = f[m]
    BY <2>1
  <2>3. \A m \in 0 .. n + 1 : m # 0 => m - 1 \in 0 .. n
    OBVIOUS
  <2>4. Upto(n + 1, h)
    BY <2>2, <2>3
  <2>. HIDE DEF h, Upto
  <2>. QED BY <2>4
<1>3. Nat \subseteq N
  <2>. HIDE DEF N
  <2>. QED BY <1>1, <1>2, Inductive
<1>4. Len(seq) \in N
  BY <1>3
<1>. QED BY <1>4 DEF Partial

\* Total is what it says of the whole sequence.
LEMMA TotalIs ==
  ASSUME NEW seq \in Seq(Quantity)
  PROVE  \E f : /\ Partial(seq, f) /\ Total(seq) = f[Len(seq)]
                /\ \A n \in 0 .. Len(seq) : f[n] \in Quantity
<1>. DEFINE f == CHOOSE f : Partial(seq, f)
<1>1. Partial(seq, f)
  BY PartialExists
<1>2. Total(seq) = f[Len(seq)]
  BY Zenon DEF Total, Partial
<1>. HIDE DEF f
<1>3. \A n \in 0 .. Len(seq) : f[n] \in Quantity
  <2>. DEFINE N == {n \in Nat : n <= Len(seq) => f[n] \in Quantity}
  <2>1. 0 \in N
    BY <1>1, QuantityOps DEF Partial
  <2>2. ASSUME NEW n \in Nat, n \in N
        PROVE  n + 1 \in N
    <3>. SUFFICES ASSUME n + 1 <= Len(seq)
                 PROVE  f[n + 1] \in Quantity
      OBVIOUS
    <3>1. f[n + 1] = Plus(f[n], seq[n + 1]) /\ f[n] \in Quantity /\ seq[n + 1] \in Quantity
      BY <1>1, <2>2 DEF Partial
    <3>. QED BY <3>1, QuantityOps
  <2>3. Nat \subseteq N
    <3>. HIDE DEF N
    <3>. QED BY <2>1, <2>2, Inductive
  <2>. QED BY <2>3
<1>. QED BY <1>1, <1>2, <1>3

\* One more quantity is added to the total.
LEMMA TotalOfAppend ==
  ASSUME NEW seq \in Seq(Quantity), NEW a \in Quantity
  PROVE  Total(Append(seq, a)) = Plus(Total(seq), a)
<1>. DEFINE longer == Append(seq, a)
<1>1. /\ longer \in Seq(Quantity) /\ Len(longer) = Len(seq) + 1 /\ longer[Len(longer)] = a
      /\ \A n \in 1 .. Len(seq) : longer[n] = seq[n]
  OBVIOUS
<1>2. PICK f : Partial(seq, f) /\ Total(seq) = f[Len(seq)]
  BY TotalIs
<1>. HIDE DEF longer
<1>3. PICK g : Partial(longer, g) /\ Total(longer) = g[Len(longer)]
  BY <1>1, TotalIs
<1>. DEFINE N == {n \in Nat : n <= Len(seq) => g[n] = f[n]}
<1>4. 0 \in N
  BY <1>1, <1>2, <1>3 DEF Partial
<1>5. ASSUME NEW n \in Nat, n \in N
      PROVE  n + 1 \in N
  <2>. SUFFICES ASSUME n + 1 <= Len(seq)
               PROVE  g[n + 1] = f[n + 1]
    OBVIOUS
  <2>1. /\ f[n + 1] = Plus(f[n], seq[n + 1])
        /\ g[n + 1] = Plus(g[n], longer[n + 1])
    BY <1>1, <1>2, <1>3 DEF Partial
  <2>. QED BY <1>1, <1>5, <2>1
<1>6. Len(seq) \in N
  <2>1. Nat \subseteq N
    <3>. HIDE DEF N
    <3>. QED BY <1>4, <1>5, Inductive
  <2>. QED BY <2>1
<1>7. g[Len(longer)] = Plus(g[Len(seq)], longer[Len(longer)])
  BY <1>1, <1>3 DEF Partial
<1>. QED BY <1>1, <1>2, <1>3, <1>6, <1>7 DEF longer

LEMMA TotalType ==
  ASSUME NEW seq \in Seq(Quantity)
  PROVE  Total(seq) \in Quantity
  BY TotalIs

LEMMA TotalOfNone == Total(<<>>) = Zero
<1>1. <<>> \in Seq(Quantity) /\ Len(<<>>) = 0
  OBVIOUS
<1>2. PICK f : Partial(<<>>, f) /\ Total(<<>>) = f[0]
  BY <1>1, TotalIs
<1>. QED BY <1>1, <1>2 DEF Partial

LEMMA TotalOfZeros ==
  ASSUME NEW seq \in Seq(Quantity), \A n \in DOMAIN seq : seq[n] = Zero
  PROVE  Total(seq) = Zero
<1>1. PICK f : /\ Partial(seq, f) /\ Total(seq) = f[Len(seq)]
               /\ \A n \in 0 .. Len(seq) : f[n] \in Quantity
  BY TotalIs
<1>. DEFINE N == {n \in Nat : n <= Len(seq) => f[n] = Zero}
<1>2. 0 \in N
  BY <1>1 DEF Partial
<1>3. ASSUME NEW n \in Nat, n \in N
      PROVE  n + 1 \in N
  <2>. SUFFICES ASSUME n + 1 <= Len(seq)
               PROVE  f[n + 1] = Zero
    OBVIOUS
  <2>1. f[n + 1] = Plus(Zero, Zero)
    BY <1>1, <1>3 DEF Partial
  <2>. QED BY <2>1, QuantityOps, QuantitiesEqual
<1>4. Len(seq) \in N
  <2>1. Nat \subseteq N
    <3>. HIDE DEF N
    <3>. QED BY <1>2, <1>3, Inductive
  <2>. QED BY <2>1
<1>. QED BY <1>1, <1>4

-----------------------------------------------------------------------------
(* Events *)

EventTypes == PreDispatch \cup PostDispatch

EntryKeys == ClientKeys \cup {Derived(k, type) : k \in ClientKeys, type \in EventTypes}

\* Every event that is ever recorded.
Entries ==
  [key : EntryKeys, source : EntryKeys, type : EventTypes, spawn : Spawns,
   amounts : Amount, confidence : Confidence, settlement : ClientKeys \cup {Unlinked}]

\* What an event adds to the settlement with key k.
Linking(e, k) == IF e.settlement = k THEN e.amounts ELSE Zero

LEMMA EntryQuantities ==
  ASSUME NEW e \in Entries, NEW s, NEW k
  PROVE  Reserving(e, s) \in Quantity /\ Using(e, s) \in Quantity /\ Linking(e, k) \in Quantity
<1>1. e.amounts \in Quantity /\ Zero \in Quantity /\ Minus(Zero, e.amounts) \in Quantity
  BY QuantityOps DEF Entries
<1>. QED BY <1>1 DEF Reserving, Using, Linking

\* A longer sequence of quantities adds up to one quantity more.
LEMMA TotalOfLonger ==
  ASSUME NEW seq \in Seq(Quantity), NEW a \in Quantity, NEW longer,
         longer = [n \in 1 .. Len(seq) + 1 |-> IF n = Len(seq) + 1 THEN a ELSE seq[n]]
  PROVE  Total(longer) = Plus(Total(seq), a)
<1>1. longer \in Seq(Quantity) /\ Len(longer) = Len(seq) + 1
  OBVIOUS
<1>2. longer = Append(seq, a)
  <2>1. Append(seq, a) \in Seq(Quantity) /\ Len(Append(seq, a)) = Len(seq) + 1
    OBVIOUS
  <2>2. \A n \in 1 .. Len(seq) + 1 : Append(seq, a)[n] = longer[n]
    OBVIOUS
  <2>. QED BY <1>1, <2>1, <2>2, SeqEqual
<1>. QED BY <1>2, TotalOfAppend

\* One more event adds what it reserves, uses and is linked for.
LEMMA SumsOfAppend ==
  ASSUME NEW events \in Seq(Entries), NEW e \in Entries, NEW s, NEW k
  PROVE  /\ Net(Append(events, e), s) = Plus(Net(events, s), Reserving(e, s))
         /\ NetUse(Append(events, e), s) = Plus(NetUse(events, s), Using(e, s))
         /\ Linked(Append(events, e), k) = Plus(Linked(events, k), Linking(e, k))
<1>. DEFINE more == Append(events, e)
<1>1. /\ Len(more) = Len(events) + 1 /\ DOMAIN more = 1 .. Len(events) + 1
      /\ DOMAIN events = 1 .. Len(events) /\ Len(events) \in Nat
      /\ more[Len(events) + 1] = e /\ \A i \in 1 .. Len(events) : more[i] = events[i]
  OBVIOUS
<1>. HIDE DEF more
<1>2. Net(more, s) = Plus(Net(events, s), Reserving(e, s))
  <2>. DEFINE seq == [i \in DOMAIN events |-> Reserving(events[i], s)]
             longer == [i \in DOMAIN more |-> Reserving(more[i], s)]
  <2>1. seq \in Seq(Quantity) /\ Len(seq) = Len(events)
    BY <1>1, EntryQuantities
  <2>2. longer = [n \in 1 .. Len(seq) + 1 |->
                    IF n = Len(seq) + 1 THEN Reserving(e, s) ELSE seq[n]]
    BY <1>1, <2>1
  <2>3. Total(longer) = Plus(Total(seq), Reserving(e, s))
    <3>. HIDE DEF seq, longer
    <3>. QED BY <2>1, <2>2, TotalOfLonger, EntryQuantities
  <2>. QED BY <2>3 DEF Net
<1>3. NetUse(more, s) = Plus(NetUse(events, s), Using(e, s))
  <2>. DEFINE seq == [i \in DOMAIN events |-> Using(events[i], s)]
             longer == [i \in DOMAIN more |-> Using(more[i], s)]
  <2>1. seq \in Seq(Quantity) /\ Len(seq) = Len(events)
    BY <1>1, EntryQuantities
  <2>2. longer = [n \in 1 .. Len(seq) + 1 |->
                    IF n = Len(seq) + 1 THEN Using(e, s) ELSE seq[n]]
    BY <1>1, <2>1
  <2>3. Total(longer) = Plus(Total(seq), Using(e, s))
    <3>. HIDE DEF seq, longer
    <3>. QED BY <2>1, <2>2, TotalOfLonger, EntryQuantities
  <2>. QED BY <2>3 DEF NetUse
<1>4. Linked(more, k) = Plus(Linked(events, k), Linking(e, k))
  <2>. DEFINE seq == [i \in DOMAIN events |-> Linking(events[i], k)]
             longer == [i \in DOMAIN more |-> Linking(more[i], k)]
  <2>1. seq \in Seq(Quantity) /\ Len(seq) = Len(events)
    BY <1>1, EntryQuantities
  <2>2. longer = [n \in 1 .. Len(seq) + 1 |->
                    IF n = Len(seq) + 1 THEN Linking(e, k) ELSE seq[n]]
    BY <1>1, <2>1
  <2>3. Total(longer) = Plus(Total(seq), Linking(e, k))
    <3>. HIDE DEF seq, longer
    <3>. QED BY <2>1, <2>2, TotalOfLonger, EntryQuantities
  <2>. QED BY <2>3 DEF Linked, Linking
<1>. QED BY <1>2, <1>3, <1>4 DEF more

LEMMA SumTypes ==
  ASSUME NEW events \in Seq(Entries), NEW s, NEW k
  PROVE  /\ Net(events, s) \in Quantity /\ NetUse(events, s) \in Quantity
         /\ Linked(events, k) \in Quantity
<1>1. [i \in DOMAIN events |-> Reserving(events[i], s)] \in Seq(Quantity)
  BY EntryQuantities
<1>2. [i \in DOMAIN events |-> Using(events[i], s)] \in Seq(Quantity)
  BY EntryQuantities
<1>3. [i \in DOMAIN events |-> Linking(events[i], k)] \in Seq(Quantity)
  BY EntryQuantities
<1>. QED BY <1>1, <1>2, <1>3, TotalType DEF Net, NetUse, Linked, Linking

\* Nothing is linked to a settlement no event names.
LEMMA LinkedToNone ==
  ASSUME NEW events \in Seq(Entries), NEW k, \A i \in DOMAIN events : events[i].settlement # k
  PROVE  Linked(events, k) = Zero
<1>. DEFINE seq == [i \in DOMAIN events |-> Linking(events[i], k)]
<1>1. seq \in Seq(Quantity)
  BY EntryQuantities
<1>2. \A n \in DOMAIN seq : seq[n] = Zero
  BY DEF Linking
<1>3. Total(seq) = Zero
  <2>. HIDE DEF seq
  <2>. QED BY <1>1, <1>2, TotalOfZeros
<1>. QED BY <1>3 DEF Linked, Linking

LEMMA SumsOfNone == \A s : Net(<<>>, s) = Zero /\ NetUse(<<>>, s) = Zero
<1>. TAKE s
<1>1. <<>> \in Seq(Entries) /\ DOMAIN <<>> = {}
  OBVIOUS
<1>2. [i \in DOMAIN <<>> |-> Reserving(<<>>[i], s)] = <<>>
  BY <1>1
<1>3. [i \in DOMAIN <<>> |-> Using(<<>>[i], s)] = <<>>
  BY <1>1
<1>. QED BY <1>2, <1>3, TotalOfNone DEF Net, NetUse

-----------------------------------------------------------------------------
(* What one event changes *)

LEMMA QuantityLaws ==
  /\ \A a \in Quantity : Plus(a, Zero) = a /\ Minus(a, Zero) = a /\ Minus(Zero, Zero) = Zero
  /\ \A a, b \in Quantity : Plus(a, Minus(Zero, b)) = Minus(a, b)
<1>1. ASSUME NEW a \in Quantity
      PROVE  Plus(a, Zero) = a /\ Minus(a, Zero) = a /\ Minus(Zero, Zero) = Zero
  <2>1. \A d \in Dims : /\ Plus(a, Zero)[d] = a[d] /\ Minus(a, Zero)[d] = a[d]
                        /\ Minus(Zero, Zero)[d] = 0
    BY QuantityOps DEF Quantity
  <2>. QED BY <2>1, QuantityOps, QuantitiesEqual
<1>2. ASSUME NEW a \in Quantity, NEW b \in Quantity
      PROVE  Plus(a, Minus(Zero, b)) = Minus(a, b)
  <2>1. \A d \in Dims : Plus(a, Minus(Zero, b))[d] = Minus(a, b)[d]
    BY QuantityOps DEF Quantity
  <2>. QED BY <2>1, QuantityOps, QuantitiesEqual
<1>. QED BY <1>1, <1>2

\* Derived keys are told from those of clients and from each other.
LEMMA KeysOfClients ==
  /\ Unlinked \notin ClientKeys
  /\ \A k \in ClientKeys : \A type : Derived(k, type) \notin ClientKeys
  /\ \A k, l \in ClientKeys : \A type, other :
       Derived(k, type) = Derived(l, other) => k = l /\ type = other
<1>1. ASSUME NEW k \in ClientKeys, NEW type
      PROVE  /\ Len(k) = 1 /\ k = <<k[1]>>
             /\ Len(Derived(k, type)) = 2
             /\ Derived(k, type)[1] = k[1] /\ Derived(k, type)[2] = type
  <2>1. k = <<k[1]>>
    BY BudgetAssumption
  <2>. DEFINE S == {k[1], type}
  <2>2. <<k[1]>> \in Seq(S) /\ Len(<<k[1]>>) = 1
    OBVIOUS
  <2>3. k \in Seq(S) /\ Len(k) = 1 /\ type \in S
    BY <2>1, <2>2
  <2>. HIDE DEF S
  <2>4. /\ Len(Append(k, type)) = 2 /\ Append(k, type)[1] = k[1]
        /\ Append(k, type)[2] = type
    <3>1. Append(k, type)[1] = k[1]
      <4>1. \A i \in 1 .. Len(k) : Append(k, type)[i] = k[i]
        BY ONLY <2>3, AppendProperties
      <4>. QED BY ONLY <2>3, <4>1
    <3>2. Len(Append(k, type)) = Len(k) + 1 /\ Append(k, type)[Len(k) + 1] = type
      <4>1. \A q \in Seq(S), x \in S :
              Len(Append(q, x)) = Len(q) + 1 /\ Append(q, x)[Len(q) + 1] = x
        BY ONLY AppendProperties
      <4>. QED BY ONLY <2>3, <4>1
    <3>. QED BY ONLY <2>3, <3>1, <3>2
  <2>. QED BY <2>1, <2>3, <2>4 DEF Derived
<1>2. Unlinked \notin ClientKeys
  <2>1. Len(<<>>) = 0
    OBVIOUS
  <2>. QED BY <1>1, <2>1 DEF Unlinked
<1>3. ASSUME NEW k \in ClientKeys, NEW type
      PROVE  Derived(k, type) \notin ClientKeys
  <2>1. Len(Derived(k, type)) = 2
    BY <1>1
  <2>2. \A l \in ClientKeys : Len(l) = 1
    BY <1>1
  <2>. QED BY <2>1, <2>2
<1>4. ASSUME NEW k \in ClientKeys, NEW l \in ClientKeys, NEW type, NEW other,
             Derived(k, type) = Derived(l, other)
      PROVE  k = l /\ type = other
  <2>1. k[1] = l[1] /\ type = other
    BY <1>1, <1>4
  <2>2. k = <<k[1]>> /\ l = <<l[1]>>
    BY <1>1
  <2>. QED BY <2>1, <2>2
<1>. QED BY <1>2, <1>3, <1>4

HeldIn(events)  == [s \in Spawns |-> Net(events, s)]
SpentIn(events) == [s \in Spawns |-> NetUse(events, s)]

\* What an event of some type moves, given what its spawn held and had spent.
HeldWith(type, held, a) ==
  IF type \in {"reserve", "retry_restore"} THEN Plus(held, a) ELSE Minus(held, a)

SpentWith(type, spent, a) ==
  IF type \in PreDispatch THEN spent
  ELSE IF type = "retry_restore" THEN Minus(spent, a) ELSE Plus(spent, a)

\* An event moves the account of its spawn and no other.
LEMMA EventMoves ==
  ASSUME NEW events \in Seq(Entries), NEW e \in Entries
  PROVE  LET more == Append(events, e)
         IN  /\ more \in Seq(Entries)
             /\ HeldIn(more) =
                  [HeldIn(events) EXCEPT ![e.spawn] = HeldWith(e.type, @, e.amounts)]
             /\ SpentIn(more) =
                  [SpentIn(events) EXCEPT ![e.spawn] = SpentWith(e.type, @, e.amounts)]
             /\ \A k : Linked(more, k) = IF e.settlement = k
                                        THEN Plus(Linked(events, k), e.amounts)
                                        ELSE Linked(events, k)
<1>. DEFINE more == Append(events, e)
<1>. USE QuantityOps
<1>1. e.spawn \in Spawns /\ e.amounts \in Quantity /\ e.type \in EventTypes
  BY DEF Entries
<1>2. \A s : /\ Net(more, s) = Plus(Net(events, s), Reserving(e, s))
             /\ NetUse(more, s) = Plus(NetUse(events, s), Using(e, s))
             /\ Net(events, s) \in Quantity /\ NetUse(events, s) \in Quantity
  BY SumsOfAppend, SumTypes
<1>3. ASSUME NEW s \in Spawns
      PROVE  /\ Net(more, s) = IF s = e.spawn THEN HeldWith(e.type, Net(events, s), e.amounts)
                                              ELSE Net(events, s)
             /\ NetUse(more, s) =
                  IF s = e.spawn THEN SpentWith(e.type, NetUse(events, s), e.amounts)
                                 ELSE NetUse(events, s)
  <2>1. Net(events, s) \in Quantity /\ NetUse(events, s) \in Quantity
    BY <1>2
  <2>2. CASE s = e.spawn
    <3>1. Net(more, s) = HeldWith(e.type, Net(events, s), e.amounts)
      <4>1. Net(more, s) = Plus(Net(events, s), Reserving(e, s))
        BY ONLY <1>2
      <4>2. CASE e.type \in {"reserve", "retry_restore"}
        <5>1. Reserving(e, s) = e.amounts
          BY ONLY <2>2, <4>2 DEF Reserving
        <5>2. HeldWith(e.type, Net(events, s), e.amounts) = Plus(Net(events, s), e.amounts)
          BY ONLY <4>2 DEF HeldWith
        <5>. QED BY ONLY <4>1, <5>1, <5>2
      <4>3. CASE e.type \notin {"reserve", "retry_restore"}
        <5>1. Reserving(e, s) = Minus(Zero, e.amounts)
          BY ONLY <2>2, <4>3 DEF Reserving
        <5>2. HeldWith(e.type, Net(events, s), e.amounts) = Minus(Net(events, s), e.amounts)
          BY ONLY <4>3 DEF HeldWith
        <5>. QED BY ONLY <1>1, <2>1, <4>1, <5>1, <5>2, QuantityLaws
      <4>. QED BY ONLY <4>2, <4>3
    <3>2. NetUse(more, s) = SpentWith(e.type, NetUse(events, s), e.amounts)
      <4>1. NetUse(more, s) = Plus(NetUse(events, s), Using(e, s))
        BY ONLY <1>2
      <4>2. CASE e.type \in PreDispatch
        <5>1. Using(e, s) = Zero
          BY ONLY <4>2 DEF Using
        <5>2. SpentWith(e.type, NetUse(events, s), e.amounts) = NetUse(events, s)
          BY ONLY <4>2 DEF SpentWith
        <5>. QED BY ONLY <2>1, <4>1, <5>1, <5>2, QuantityLaws
      <4>3. CASE e.type \notin PreDispatch /\ e.type = "retry_restore"
        <5>1. Using(e, s) = Minus(Zero, e.amounts)
          BY ONLY <2>2, <4>3 DEF Using
        <5>2. SpentWith(e.type, NetUse(events, s), e.amounts)
                = Minus(NetUse(events, s), e.amounts)
          BY ONLY <4>3 DEF SpentWith
        <5>. QED BY ONLY <1>1, <2>1, <4>1, <5>1, <5>2, QuantityLaws
      <4>4. CASE e.type \notin PreDispatch /\ e.type # "retry_restore"
        <5>1. Using(e, s) = e.amounts
          BY ONLY <2>2, <4>4 DEF Using
        <5>2. SpentWith(e.type, NetUse(events, s), e.amounts)
                = Plus(NetUse(events, s), e.amounts)
          BY ONLY <4>4 DEF SpentWith
        <5>. QED BY ONLY <4>1, <5>1, <5>2
      <4>. QED BY ONLY <4>2, <4>3, <4>4
    <3>. QED BY <2>2, <3>1, <3>2
  <2>3. CASE s # e.spawn
    BY <1>2, <2>1, <2>3, QuantityLaws DEF Reserving, Using
  <2>. QED BY <2>2, <2>3
<1>4. ASSUME NEW k
      PROVE  Linked(more, k) = IF e.settlement = k THEN Plus(Linked(events, k), e.amounts)
                                                   ELSE Linked(events, k)
  <2>1. /\ Linked(more, k) = Plus(Linked(events, k), Linking(e, k))
        /\ Linked(events, k) \in Quantity
    BY SumsOfAppend, SumTypes
  <2>. QED BY <2>1, QuantityLaws DEF Linking
<1>5. more \in Seq(Entries)
  OBVIOUS
<1>. HIDE DEF more
<1>6. HeldIn(more) = [HeldIn(events) EXCEPT ![e.spawn] = HeldWith(e.type, @, e.amounts)]
  BY <1>1, <1>3 DEF HeldIn
<1>7. SpentIn(more) = [SpentIn(events) EXCEPT ![e.spawn] = SpentWith(e.type, @, e.amounts)]
  BY <1>1, <1>3 DEF SpentIn
<1>. QED BY <1>4, <1>5, <1>6, <1>7 DEF more

-----------------------------------------------------------------------------
(* The events of a settlement *)

PartTypes == {"consume", "retry_decrement", "human_attention", "release"}

LEMMA PartIsEntry ==
  ASSUME NEW c \in Calls, NEW s \in Spawns, NEW type \in PartTypes, NEW a \in Amount
  PROVE  /\ PartEvent(c, s, type, a) \in Entries
         /\ PartEvent(c, s, type, a).key = Derived(c.key, type)
         /\ PartEvent(c, s, type, a).source = Derived(c.source, type)
         /\ PartEvent(c, s, type, a).type = type
         /\ PartEvent(c, s, type, a).spawn = s
         /\ PartEvent(c, s, type, a).amounts = a
         /\ PartEvent(c, s, type, a).settlement = c.key
<1>1. c.key \in ClientKeys /\ c.source \in ClientKeys
  BY DEF ClientKeys
<1>2. type \in EventTypes
  BY DEF EventTypes, PreDispatch, PostDispatch, PartTypes
<1>3. Derived(c.key, type) \in EntryKeys /\ Derived(c.source, type) \in EntryKeys
  BY <1>1, <1>2 DEF EntryKeys
<1>4. "measured" \in Confidence
  BY DEF Confidence
<1>. QED BY <1>1, <1>2, <1>3, <1>4 DEF PartEvent, Event, Entries

\* A part that is left out has no amounts: either way the ledger moves by
\* them.
LEMMA PartMoves ==
  ASSUME NEW events \in Seq(Entries), NEW c \in Calls, NEW s \in Spawns,
         NEW type \in PartTypes, NEW a \in Amount, NEW actual
  PROVE  LET more == WithPart(events, c, s, type, a, actual)
         IN  /\ more \in Seq(Entries)
             /\ more = events \/ more = Append(events, PartEvent(c, s, type, a))
             /\ HeldIn(more) = [HeldIn(events) EXCEPT ![s] = Minus(@, a)]
             /\ SpentIn(more) =
                  [SpentIn(events) EXCEPT ![s] = IF type = "release" THEN @ ELSE Plus(@, a)]
             /\ \A k : Linked(more, k) = IF k = c.key THEN Plus(Linked(events, k), a)
                                                      ELSE Linked(events, k)
<1>. DEFINE more == WithPart(events, c, s, type, a, actual)
<1>1. CASE Recorded(type, a, actual)
  <2>. DEFINE e == PartEvent(c, s, type, a)
  <2>1. more = Append(events, e)
    BY <1>1 DEF WithPart
  <2>2. /\ e \in Entries /\ e.type = type /\ e.spawn = s /\ e.amounts = a
        /\ e.settlement = c.key
    BY PartIsEntry
  <2>. HIDE DEF e, more
  <2>3. /\ more \in Seq(Entries)
        /\ HeldIn(more) = [HeldIn(events) EXCEPT ![s] = HeldWith(type, @, a)]
        /\ SpentIn(more) = [SpentIn(events) EXCEPT ![s] = SpentWith(type, @, a)]
        /\ \A k : Linked(more, k) = IF c.key = k THEN Plus(Linked(events, k), a)
                                                 ELSE Linked(events, k)
    BY <2>1, <2>2, EventMoves
  <2>4. /\ \A h : HeldWith(type, h, a) = Minus(h, a)
        /\ \A u : SpentWith(type, u, a) = IF type = "release" THEN u ELSE Plus(u, a)
    BY DEF HeldWith, SpentWith, PartTypes, PreDispatch
  <2>. QED BY <2>1, <2>3, <2>4 DEF more, e
<1>2. CASE ~Recorded(type, a, actual)
  <2>1. more = events /\ a = Zero
    BY <1>2 DEF WithPart, Recorded
  <2>2. \A t \in Spawns : HeldIn(events)[t] \in Quantity /\ SpentIn(events)[t] \in Quantity
    BY SumTypes DEF HeldIn, SpentIn
  <2>3. /\ Minus(HeldIn(events)[s], a) = HeldIn(events)[s]
        /\ Plus(SpentIn(events)[s], a) = SpentIn(events)[s]
    BY <2>1, <2>2, QuantityLaws
  <2>4. \A k : Linked(events, k) \in Quantity
    BY SumTypes
  <2>5. \A k : Plus(Linked(events, k), a) = Linked(events, k)
    BY <2>1, <2>4, QuantityLaws
  <2>6. /\ HeldIn(events) = [t \in Spawns |-> HeldIn(events)[t]]
        /\ SpentIn(events) = [t \in Spawns |-> SpentIn(events)[t]]
    BY DEF HeldIn, SpentIn
  <2>. HIDE DEF more
  <2>. QED BY <2>1, <2>3, <2>5, <2>6 DEF more
<1>. QED BY <1>1, <1>2

\* What a settlement adds to the ledger behind the events it had.
Grown(events, c, s, types) ==
  /\ events \in Seq(Entries)
  /\ Len(log) <= Len(events)
  /\ \A i \in 1 .. Len(log) : events[i] = log[i]
  /\ \A i \in DOMAIN events : i > Len(log) =>
        /\ events[i].type \in types /\ events[i].spawn = s
        /\ events[i].settlement = c.key
        /\ events[i].key = Derived(c.key, events[i].type)
        /\ events[i].source = Derived(c.source, events[i].type)
  /\ \A i, j \in DOMAIN events :
        i > Len(log) /\ j > Len(log) /\ i # j => events[i].type # events[j].type

LEMMA PartGrows ==
  ASSUME NEW c \in Calls, NEW s \in Spawns, NEW types, NEW events, Grown(events, c, s, types),
         log \in Seq(Entries),
         NEW type \in PartTypes, type \notin types, NEW a \in Amount, NEW actual
  PROVE  Grown(WithPart(events, c, s, type, a, actual), c, s, types \cup {type})
<1>. DEFINE more == WithPart(events, c, s, type, a, actual)
            e    == PartEvent(c, s, type, a)
<1>1. events \in Seq(Entries) /\ Len(log) \in Nat
  BY DEF Grown
<1>2. more \in Seq(Entries) /\ (more = events \/ more = Append(events, e))
  BY <1>1, PartMoves
<1>3. /\ e.type = type /\ e.spawn = s /\ e.settlement = c.key
      /\ e.key = Derived(c.key, type) /\ e.source = Derived(c.source, type)
      /\ e \in Entries
  BY PartIsEntry
<1>. HIDE DEF more, e
<1>4. CASE more = events
  BY <1>4 DEF Grown, more
<1>5. CASE more = Append(events, e)
  <2>1. /\ Len(more) = Len(events) + 1 /\ more[Len(events) + 1] = e
        /\ DOMAIN more = 1 .. Len(events) + 1 /\ DOMAIN events = 1 .. Len(events)
        /\ Len(events) \in Nat /\ \A i \in 1 .. Len(events) : more[i] = events[i]
    BY <1>1, <1>3, <1>5
  <2>2. Len(log) <= Len(more) /\ \A i \in 1 .. Len(log) : more[i] = log[i]
    BY <1>1, <2>1 DEF Grown
  <2>3. ASSUME NEW i \in DOMAIN more, i > Len(log)
        PROVE  /\ more[i].type \in types \cup {type} /\ more[i].spawn = s
               /\ more[i].settlement = c.key
               /\ more[i].key = Derived(c.key, more[i].type)
               /\ more[i].source = Derived(c.source, more[i].type)
    <3>1. CASE i = Len(events) + 1
      BY <1>3, <2>1, <3>1
    <3>2. CASE i # Len(events) + 1
      <4>1. i \in DOMAIN events /\ more[i] = events[i]
        BY <2>1, <3>2
      <4>. QED BY <2>3, <4>1 DEF Grown
    <3>. QED BY <3>1, <3>2
  <2>4. ASSUME NEW i \in DOMAIN more, NEW j \in DOMAIN more, i > Len(log), j > Len(log), i # j
        PROVE  more[i].type # more[j].type
    <3>1. \A k \in DOMAIN events : k > Len(log) => events[k].type # type
      BY DEF Grown
    <3>2. \A k \in DOMAIN more :
            k = Len(events) + 1 \/ (k \in DOMAIN events /\ more[k] = events[k])
      BY <2>1
    <3>3. \A k, l \in DOMAIN events :
            k > Len(log) /\ l > Len(log) /\ k # l => events[k].type # events[l].type
      BY DEF Grown
    <3>. QED BY <1>3, <2>1, <2>4, <3>1, <3>2, <3>3
  <2>. QED BY <1>2, <2>2, <2>3, <2>4 DEF Grown, more
<1>. QED BY <1>2, <1>4, <1>5

\* The parts of a settlement take up what the spawn held, add what was used
\* to its use, and are linked to the settlement as a whole.
LEMMA SettlementMoves ==
  ASSUME log \in Seq(Entries), NEW c \in Calls, NEW s \in Spawns, NEW actual \in Amount,
         NEW released \in Amount, Outstanding(s) = Plus(actual, released)
  PROVE  LET more == WithSettlement(c, s, actual, released)
         IN  /\ Grown(more, c, s, PartTypes)
             /\ HeldIn(more) = [HeldIn(log) EXCEPT ![s] = Zero]
             /\ SpentIn(more) = [SpentIn(log) EXCEPT ![s] = Plus(@, actual)]
             /\ \A k : k # c.key => Linked(more, k) = Linked(log, k)
             /\ Linked(log, c.key) = Zero => Linked(more, c.key) = Plus(actual, released)
<1>. DEFINE u == Only(actual, Usage)
            r == Only(actual, {"retry"})
            h == Only(actual, {"human"})
            used     == WithPart(log, c, s, "consume", u, actual)
            retried  == WithPart(used, c, s, "retry_decrement", r, actual)
            attended == WithPart(retried, c, s, "human_attention", h, actual)
            more     == WithPart(attended, c, s, "release", released, actual)
<1>1. u \in Amount /\ r \in Amount /\ h \in Amount
  BY DEF Only, Amount
<1>2. \A d \in Dims : /\ u[d] \in Int /\ r[d] \in Int /\ h[d] \in Int /\ actual[d] \in Int
                      /\ released[d] \in Int /\ (u[d] + r[d]) + h[d] = actual[d]
  <2>. TAKE d \in Dims
  <2>1. actual[d] \in Nat /\ released[d] \in Nat
    BY DEF Amount
  <2>2. /\ u[d] = IF d \in Usage THEN actual[d] ELSE 0
        /\ r[d] = IF d = "retry" THEN actual[d] ELSE 0
        /\ h[d] = IF d = "human" THEN actual[d] ELSE 0
    BY ONLY d \in Dims DEF Only
  <2>3. \/ d \in Usage /\ d # "retry" /\ d # "human"
        \/ d \notin Usage /\ d = "retry" /\ d # "human"
        \/ d \notin Usage /\ d # "retry" /\ d = "human"
    BY ONLY d \in Dims DEF Dims, Usage
  <2>. QED BY ONLY <2>1, <2>2, <2>3
<1>3. WithSettlement(c, s, actual, released) = more
  BY DEF WithSettlement
<1>4. Grown(log, c, s, {})
  BY DEF Grown
<1>. HIDE DEF u, r, h
<1>5. Grown(used, c, s, {} \cup {"consume"})
  BY <1>1, <1>4, PartGrows DEF PartTypes
<1>. HIDE DEF used
<1>6. Grown(retried, c, s, ({} \cup {"consume"}) \cup {"retry_decrement"})
  BY <1>1, <1>5, PartGrows DEF PartTypes
<1>. HIDE DEF retried
<1>7. Grown(attended, c, s,
            (({} \cup {"consume"}) \cup {"retry_decrement"}) \cup {"human_attention"})
  BY <1>1, <1>6, PartGrows DEF PartTypes
<1>. HIDE DEF attended
<1>8. Grown(more, c, s, PartTypes)
  <2>1. Grown(more, c, s, ((({} \cup {"consume"}) \cup {"retry_decrement"})
                                \cup {"human_attention"}) \cup {"release"})
    BY <1>7, PartGrows DEF PartTypes
  <2>2. ((({} \cup {"consume"}) \cup {"retry_decrement"})
                                \cup {"human_attention"}) \cup {"release"} = PartTypes
    BY DEF PartTypes
  <2>. QED BY <2>1, <2>2
<1>9. used \in Seq(Entries) /\ retried \in Seq(Entries) /\ attended \in Seq(Entries)
  BY <1>5, <1>6, <1>7 DEF Grown
<1>10. /\ HeldIn(used) = [HeldIn(log) EXCEPT ![s] = Minus(@, u)]
       /\ SpentIn(used) = [SpentIn(log) EXCEPT ![s] = Plus(@, u)]
       /\ \A k : Linked(used, k) = IF k = c.key THEN Plus(Linked(log, k), u)
                                                ELSE Linked(log, k)
  BY <1>1, PartMoves DEF PartTypes, used
<1>11. /\ HeldIn(retried) = [HeldIn(used) EXCEPT ![s] = Minus(@, r)]
       /\ SpentIn(retried) = [SpentIn(used) EXCEPT ![s] = Plus(@, r)]
       /\ \A k : Linked(retried, k) = IF k = c.key THEN Plus(Linked(used, k), r)
                                                   ELSE Linked(used, k)
  BY <1>1, <1>9, PartMoves DEF PartTypes, retried
<1>12. /\ HeldIn(attended) = [HeldIn(retried) EXCEPT ![s] = Minus(@, h)]
       /\ SpentIn(attended) = [SpentIn(retried) EXCEPT ![s] = Plus(@, h)]
       /\ \A k : Linked(attended, k) = IF k = c.key THEN Plus(Linked(retried, k), h)
                                                    ELSE Linked(retried, k)
  BY <1>1, <1>9, PartMoves DEF PartTypes, attended
<1>13. /\ HeldIn(more) = [HeldIn(attended) EXCEPT ![s] = Minus(@, released)]
       /\ SpentIn(more) = [SpentIn(attended) EXCEPT ![s] = @]
       /\ \A k : Linked(more, k) = IF k = c.key THEN Plus(Linked(attended, k), released)
                                                ELSE Linked(attended, k)
  BY <1>9, PartMoves DEF PartTypes
<1>. HIDE DEF more
<1>14. /\ HeldIn(log) = [t \in Spawns |-> HeldIn(log)[t]] /\ HeldIn(log)[s] = Outstanding(s)
       /\ SpentIn(log) = [t \in Spawns |-> SpentIn(log)[t]] /\ SpentIn(log)[s] \in Quantity
       /\ \A k : Linked(log, k) \in Quantity
  BY SumTypes DEF HeldIn, SpentIn, Outstanding
<1>15. Amount \subseteq Quantity /\ Plus(actual, released) \in Quantity /\ Zero \in Quantity
  BY QuantityOps
<1>16. Minus(Minus(Minus(Minus(Plus(actual, released), u), r), h), released) = Zero
  <2>. DEFINE m1 == Minus(Plus(actual, released), u)
              m2 == Minus(m1, r)
              m3 == Minus(m2, h)
              m4 == Minus(m3, released)
  <2>1. m1 \in Quantity /\ \A d \in Dims : m1[d] = (actual[d] + released[d]) - u[d]
    BY <1>1, <1>15, QuantityOps
  <2>. HIDE DEF m1
  <2>2. m2 \in Quantity /\ \A d \in Dims : m2[d] = m1[d] - r[d]
    BY <1>1, <1>15, <2>1, QuantityOps
  <2>. HIDE DEF m2
  <2>3. m3 \in Quantity /\ \A d \in Dims : m3[d] = m2[d] - h[d]
    BY <1>1, <1>15, <2>2, QuantityOps
  <2>. HIDE DEF m3
  <2>4. m4 \in Quantity /\ \A d \in Dims : m4[d] = m3[d] - released[d]
    BY <1>1, <1>15, <2>3, QuantityOps
  <2>5. \A d \in Dims : m4[d] = Zero[d]
    <3>. TAKE d \in Dims
    <3>1. /\ u[d] \in Int /\ r[d] \in Int /\ h[d] \in Int
          /\ actual[d] \in Int /\ released[d] \in Int
      BY <1>1, <1>15 DEF Quantity
    <3>2. /\ m1[d] = (actual[d] + released[d]) - u[d] /\ m2[d] = m1[d] - r[d]
          /\ m3[d] = m2[d] - h[d] /\ m4[d] = m3[d] - released[d]
      BY ONLY <2>1, <2>2, <2>3, <2>4
    <3>3. Zero[d] = 0
      BY ONLY QuantityOps
    <3>4. actual[d] = u[d] + r[d] + h[d]
      BY <1>2
    <3>. QED BY ONLY <3>1, <3>2, <3>3, <3>4
  <2>6. m4 = Zero
    BY <1>15, <2>4, <2>5, QuantitiesEqual
  <2>. QED BY <2>6 DEF m1, m2, m3
<1>17. ASSUME NEW q \in Quantity
       PROVE  Plus(Plus(Plus(q, u), r), h) = Plus(q, actual)
  <2>. DEFINE p1 == Plus(q, u)
              p2 == Plus(p1, r)
              p3 == Plus(p2, h)
  <2>1. p1 \in Quantity /\ \A d \in Dims : p1[d] = q[d] + u[d]
    BY <1>1, <1>15, QuantityOps
  <2>. HIDE DEF p1
  <2>2. p2 \in Quantity /\ \A d \in Dims : p2[d] = p1[d] + r[d]
    BY <1>1, <1>15, <2>1, QuantityOps
  <2>. HIDE DEF p2
  <2>3. p3 \in Quantity /\ \A d \in Dims : p3[d] = p2[d] + h[d]
    BY <1>1, <1>15, <2>2, QuantityOps
  <2>4. Plus(q, actual) \in Quantity /\ \A d \in Dims : Plus(q, actual)[d] = q[d] + actual[d]
    BY <1>15, QuantityOps
  <2>5. ASSUME NEW d \in Dims
        PROVE  p3[d] = Plus(q, actual)[d]
    <3>1. q[d] \in Int
      BY DEF Quantity
    <3>2. p3[d] = ((q[d] + u[d]) + r[d]) + h[d]
      BY <2>1, <2>2, <2>3
    <3>3. /\ u[d] \in Int /\ r[d] \in Int /\ h[d] \in Int
          /\ (u[d] + r[d]) + h[d] = actual[d]
      BY <1>2
    <3>. HIDE DEF p3
    <3>4. p3[d] = q[d] + actual[d]
      BY <3>1, <3>2, <3>3
    <3>. QED BY <2>4, <3>4
  <2>. HIDE DEF p3
  <2>6. p3 = Plus(q, actual)
    BY <2>3, <2>4, <2>5, QuantitiesEqual
  <2>. QED BY <2>6 DEF p1, p2, p3
<1>18. HeldIn(more) = [HeldIn(log) EXCEPT ![s] = Zero]
  <2>. DEFINE H == HeldIn(log)
              O == Plus(actual, released)
  <2>1. H = [t \in Spawns |-> H[t]] /\ H[s] = O
    BY <1>14
  <2>. HIDE DEF H, O
  <2>2. HeldIn(used) = [H EXCEPT ![s] = Minus(O, u)]
    BY <1>10, <2>1 DEF H
  <2>3. HeldIn(retried) = [H EXCEPT ![s] = Minus(Minus(O, u), r)]
    BY <1>11, <2>1, <2>2
  <2>4. HeldIn(attended) = [H EXCEPT ![s] = Minus(Minus(Minus(O, u), r), h)]
    BY <1>12, <2>1, <2>3
  <2>5. HeldIn(more) = [H EXCEPT ![s] = Minus(Minus(Minus(Minus(O, u), r), h), released)]
    BY <1>13, <2>1, <2>4
  <2>. QED BY <1>16, <2>5 DEF H, O
<1>19. SpentIn(more) = [SpentIn(log) EXCEPT ![s] = Plus(@, actual)]
  <2>. DEFINE S == SpentIn(log)
  <2>1. S = [t \in Spawns |-> S[t]] /\ S[s] \in Quantity
    BY <1>14
  <2>. HIDE DEF S
  <2>2. SpentIn(used) = [S EXCEPT ![s] = Plus(S[s], u)]
    BY <1>10, <2>1 DEF S
  <2>3. SpentIn(retried) = [S EXCEPT ![s] = Plus(Plus(S[s], u), r)]
    BY <1>11, <2>1, <2>2
  <2>4. SpentIn(attended) = [S EXCEPT ![s] = Plus(Plus(Plus(S[s], u), r), h)]
    BY <1>12, <2>1, <2>3
  <2>5. SpentIn(more) = SpentIn(attended)
    BY <1>13, <2>1, <2>4
  <2>6. SpentIn(more) = [S EXCEPT ![s] = Plus(S[s], actual)]
    BY <1>17, <2>1, <2>4, <2>5
  <2>. QED BY <2>6 DEF S
<1>20. \A k : k # c.key => Linked(more, k) = Linked(log, k)
  BY <1>10, <1>11, <1>12, <1>13
<1>21. Linked(more, c.key) = Plus(Plus(Linked(log, c.key), actual), released)
  <2>. DEFINE L == Linked(log, c.key)
  <2>1. L \in Quantity
    BY <1>14
  <2>2. Linked(used, c.key) = Plus(L, u)
    BY <1>10
  <2>3. Linked(retried, c.key) = Plus(Plus(L, u), r)
    BY <1>11, <2>2
  <2>4. Linked(attended, c.key) = Plus(Plus(Plus(L, u), r), h)
    BY <1>12, <2>3
  <2>5. Linked(attended, c.key) = Plus(L, actual)
    <3>. HIDE DEF L
    <3>. QED BY <1>17, <2>1, <2>4
  <2>. QED BY <1>13, <2>5
<1>22. Plus(Zero, actual) = actual
  <2>1. Plus(Zero, actual) \in Quantity /\ \A d \in Dims : Plus(Zero, actual)[d] = actual[d]
    BY <1>2, <1>15, QuantityOps
  <2>. QED BY <1>15, <2>1, QuantitiesEqual
<1>. QED BY <1>3, <1>8, <1>18, <1>19, <1>20, <1>21, <1>22

-----------------------------------------------------------------------------
(* The limit *)

\* The counters are amounts and within the budget: WithinLimit, made
\* inductive.
CountersInv ==
  /\ reserved \in Amount
  /\ consumed \in Amount
  /\ WithinLimit

LEMMA PlusIsAmount == \A a, b \in Amount : Plus(a, b) \in Amount
BY SMT DEF Amount, Plus

LEMMA MinusIsAmount == \A a, b \in Amount : Leq(b, a) => Minus(a, b) \in Amount
BY SMT DEF Amount, Minus, Leq

LEMMA ZeroIsAmount == Zero \in Amount
BY SMT DEF Amount, Zero

\* Amounts that move from reserved to consumed stay within the limit.
LEMMA SpendKeepsInv ==
  ASSUME CountersInv, NEW a \in Amount, Spend(a)
  PROVE  CountersInv'
<1>1. reserved' \in Amount /\ consumed' \in Amount
  BY PlusIsAmount, MinusIsAmount DEF CountersInv, Spend
<1>2. ASSUME NEW d \in Dims
      PROVE  reserved'[d] + consumed'[d] <= Limit[d]
  <2>1. reserved[d] \in Nat /\ consumed[d] \in Nat /\ a[d] \in Nat /\ Limit[d] \in Nat
    BY <1>2, BudgetAssumption DEF CountersInv, Amount
  <2>2. reserved[d] + consumed[d] <= Limit[d]
    BY <1>2 DEF CountersInv, WithinLimit, Leq, Plus
  <2>3. reserved'[d] = reserved[d] - a[d] /\ consumed'[d] = consumed[d] + a[d]
    BY <1>2 DEF Spend, Plus, Minus
  <2>. QED BY <2>1, <2>2, <2>3
<1>. QED BY <1>1, <1>2 DEF CountersInv, WithinLimit, Leq, Plus

LEMMA ReserveKeepsInv ==
  ASSUME CountersInv, NEW c \in Calls, NEW s \in Spawns, NEW a \in Amount, Reserve(c, s, a)
  PROVE  CountersInv'
<1>1. reserved' = Plus(reserved, a) /\ consumed' = consumed /\ HasRoom(a)
  BY DEF Reserve
<1>2. reserved' \in Amount /\ consumed' \in Amount
  BY <1>1, PlusIsAmount DEF CountersInv
<1>3. ASSUME NEW d \in Dims
      PROVE  reserved'[d] + consumed'[d] <= Limit[d]
  <2>1. reserved[d] \in Nat /\ consumed[d] \in Nat /\ a[d] \in Nat /\ Limit[d] \in Nat
    BY <1>3, BudgetAssumption DEF CountersInv, Amount
  <2>2. (reserved[d] + consumed[d]) + a[d] <= Limit[d]
    BY <1>1, <1>3 DEF HasRoom, Leq, Plus
  <2>3. reserved'[d] = reserved[d] + a[d] /\ consumed'[d] = consumed[d]
    BY <1>1, <1>3 DEF Plus
  <2>. QED BY <2>1, <2>2, <2>3
<1>. QED BY <1>2, <1>3 DEF CountersInv, WithinLimit, Leq, Plus

LEMMA ReleaseKeepsInv ==
  ASSUME CountersInv, NEW c \in Calls, NEW s \in Spawns, NEW a \in Amount, Release(c, s, a)
  PROVE  CountersInv'
<1>1. reserved' = Minus(reserved, a) /\ consumed' = consumed /\ Leq(a, reserved)
  BY DEF Release
<1>2. reserved' \in Amount /\ consumed' \in Amount
  BY <1>1, MinusIsAmount DEF CountersInv
<1>3. ASSUME NEW d \in Dims
      PROVE  reserved'[d] + consumed'[d] <= Limit[d]
  <2>1. reserved[d] \in Nat /\ consumed[d] \in Nat /\ a[d] \in Nat /\ Limit[d] \in Nat
    BY <1>3, BudgetAssumption DEF CountersInv, Amount
  <2>2. reserved[d] + consumed[d] <= Limit[d]
    BY <1>3 DEF CountersInv, WithinLimit, Leq, Plus
  <2>3. reserved'[d] = reserved[d] - a[d] /\ consumed'[d] = consumed[d]
    BY <1>1, <1>3 DEF Minus
  <2>. QED BY <2>1, <2>2, <2>3
<1>. QED BY <1>2, <1>3 DEF CountersInv, WithinLimit, Leq, Plus

\* Restored retries go back to the reservation: the sum does not change.
LEMMA RestoreKeepsInv ==
  ASSUME CountersInv, NEW c \in Calls, NEW s \in Spawns, NEW a \in Amount,
         RetryRestore(c, s, a)
  PROVE  CountersInv'
<1>1. reserved' = Plus(reserved, a) /\ consumed' = Minus(consumed, a) /\ Leq(a, consumed)
  BY DEF RetryRestore
<1>2. reserved' \in Amount /\ consumed' \in Amount
  BY <1>1, PlusIsAmount, MinusIsAmount DEF CountersInv
<1>3. ASSUME NEW d \in Dims
      PROVE  reserved'[d] + consumed'[d] <= Limit[d]
  <2>1. reserved[d] \in Nat /\ consumed[d] \in Nat /\ a[d] \in Nat /\ Limit[d] \in Nat
    BY <1>3, BudgetAssumption DEF CountersInv, Amount
  <2>2. reserved[d] + consumed[d] <= Limit[d]
    BY <1>3 DEF CountersInv, WithinLimit, Leq, Plus
  <2>3. reserved'[d] = reserved[d] + a[d] /\ consumed'[d] = consumed[d] - a[d]
    BY <1>1, <1>3 DEF Plus, Minus
  <2>. QED BY <2>1, <2>2, <2>3
<1>. QED BY <1>2, <1>3 DEF CountersInv, WithinLimit, Leq, Plus

\* A settlement takes back what it does not spend of the reservation.
LEMMA SettleKeepsInv ==
  ASSUME CountersInv, NEW c \in Calls, NEW s \in Spawns, NEW a \in Amount, Settle(c, s, a)
  PROVE  CountersInv'
<1>. DEFINE held == Outstanding(s)
<1>. HIDE DEF held
<1>1. /\ held \in Amount /\ Leq(a, held) /\ Leq(held, reserved)
      /\ reserved' = Minus(reserved, held) /\ consumed' = Plus(consumed, a)
  BY DEF Settle, MaySettleWith, held
<1>2. reserved' \in Amount /\ consumed' \in Amount
  BY <1>1, PlusIsAmount, MinusIsAmount DEF CountersInv
<1>3. ASSUME NEW d \in Dims
      PROVE  reserved'[d] + consumed'[d] <= Limit[d]
  <2>1. /\ reserved[d] \in Nat /\ consumed[d] \in Nat /\ a[d] \in Nat
        /\ Limit[d] \in Nat /\ held[d] \in Nat
    BY <1>1, <1>3, BudgetAssumption DEF CountersInv, Amount
  <2>2. reserved[d] + consumed[d] <= Limit[d] /\ a[d] <= held[d]
    BY <1>1, <1>3 DEF CountersInv, WithinLimit, Leq, Plus
  <2>3. reserved'[d] = reserved[d] - held[d] /\ consumed'[d] = consumed[d] + a[d]
    BY <1>1, <1>3 DEF Plus, Minus
  <2>. QED BY <2>1, <2>2, <2>3
<1>. QED BY <1>2, <1>3 DEF CountersInv, WithinLimit, Leq, Plus

LEMMA InitCounters == Init => CountersInv
<1>1. \A d \in Dims : Limit[d] \in Nat
  BY BudgetAssumption DEF Amount
<1>. QED BY <1>1, ZeroIsAmount DEF Init, CountersInv, WithinLimit, Leq, Plus, Zero

\* Every call of the budget ledger keeps the counters within the limit.
LEMMA StepKeepsInv ==
  ASSUME CountersInv, [Next]_vars
  PROVE  CountersInv'
<1>1. \A a \in Amounts \cup {Zero} : a \in Amount
  BY ZeroIsAmount, BudgetAssumption
<1>2. ASSUME NEW c \in Calls, NEW s \in Spawns, NEW a \in Amounts, Reserve(c, s, a)
      PROVE  CountersInv'
  BY <1>1, <1>2, ReserveKeepsInv
<1>3. ASSUME NEW c \in Calls, NEW s \in Spawns, NEW a \in Amounts, Release(c, s, a)
      PROVE  CountersInv'
  BY <1>1, <1>3, ReleaseKeepsInv
<1>4. ASSUME NEW c \in Calls, NEW s \in Spawns, NEW a \in Amounts,
             Consume(c, s, a) \/ RetryDecrement(c, s, a) \/ HumanAttention(c, s, a)
      PROVE  CountersInv'
  <2>1. Spend(a)
    BY <1>4 DEF Consume, RetryDecrement, HumanAttention, UseUnits
  <2>. QED BY <1>1, <2>1, SpendKeepsInv
<1>5. ASSUME NEW c \in Calls, NEW s \in Spawns, NEW a \in Amounts, RetryRestore(c, s, a)
      PROVE  CountersInv'
  BY <1>1, <1>5, RestoreKeepsInv
<1>6. ASSUME NEW c \in Calls, NEW s \in Spawns, NEW a \in Amounts \cup {Zero}, Settle(c, s, a)
      PROVE  CountersInv'
  BY <1>1, <1>6, SettleKeepsInv
<1>7. ASSUME UNCHANGED <<reserved, consumed>>
      PROVE  CountersInv'
  BY <1>7 DEF CountersInv, WithinLimit
<1>8. ASSUME NEW c \in Calls, NEW s \in Spawns, ConsumeUnknown(c, s)
      PROVE  CountersInv'
  BY <1>7, <1>8 DEF ConsumeUnknown
<1>9. ASSUME NEW s \in Spawns, RecordIntent(s) \/ RecordAcceptance(s) \/ Complete(s)
      PROVE  CountersInv'
  BY <1>7, <1>9 DEF RecordIntent, RecordAcceptance, Complete, ledgerVars
<1>10. CASE MoveRun
  BY <1>7, <1>10 DEF MoveRun, ledgerVars
<1>11. CASE UNCHANGED vars
  BY <1>7, <1>11 DEF vars, ledgerVars
<1>. QED
  BY <1>2, <1>3, <1>4, <1>5, <1>6, <1>8, <1>9, <1>10, <1>11 DEF Next

-----------------------------------------------------------------------------
(* The ledger *)

Settlements ==
  [key : ClientKeys, source : ClientKeys, spawn : Spawns, actual : Amount, released : Amount]

\* An event carries keys of a client, or it belongs to a settlement and
\* carries keys derived from its.
LinksAreKnown ==
  \A i \in DOMAIN log :
    \/ /\ log[i].settlement = Unlinked
       /\ log[i].key \in ClientKeys /\ log[i].source \in ClientKeys
    \/ \E t \in settlements :
         /\ log[i].settlement = t.key
         /\ log[i].key = Derived(t.key, log[i].type)
         /\ log[i].source = Derived(t.source, log[i].type)

SettledIsCompleted == \A t \in settlements : stage[t.spawn] = "completed"

\* What the properties of the ledger need to be inductive together.
LedgerInv ==
  /\ log \in Seq(Entries)
  /\ settlements \subseteq Settlements
  /\ usage \in Confidence
  /\ stage \in [Spawns -> Stage]
  /\ run \in {"candidate", "dispatched", "child_completed"}
  /\ LinksAreKnown
  /\ SettledIsCompleted
  /\ CountersInv
  /\ SourceCountedOnce
  /\ SettlementIsExact
  /\ CountersMatchLedger

\* The part of it that is about the events.
EventsInv ==
  /\ log \in Seq(Entries)
  /\ LinksAreKnown
  /\ SourceCountedOnce
  /\ SettlementIsExact

LEMMA EventFields ==
  ASSUME NEW c \in Calls, NEW s \in Spawns, NEW type \in EventTypes, NEW a \in Amount,
         NEW conf \in Confidence
  PROVE  LET e == Event(c, type, s, a, conf, Unlinked)
         IN  /\ e \in Entries /\ e.key = c.key /\ e.source = c.source /\ e.type = type
             /\ e.spawn = s /\ e.amounts = a /\ e.settlement = Unlinked
             /\ c.key \in ClientKeys /\ c.source \in ClientKeys
<1>1. c.key \in ClientKeys /\ c.source \in ClientKeys
  BY DEF ClientKeys
<1>2. c.key \in EntryKeys /\ c.source \in EntryKeys
  BY <1>1 DEF EntryKeys
<1>. QED BY <1>1, <1>2 DEF Event, Entries

\* An event of a client leaves the settlements exact and every source
\* counted once, and moves one account by its amounts.
LEMMA ClientEvent ==
  ASSUME LedgerInv, NEW c \in Calls, NEW s \in Spawns, NEW type \in EventTypes,
         NEW a \in Amount, NEW conf \in Confidence, Fresh(c), ~Settled(s),
         log' = Append(log, Event(c, type, s, a, conf, Unlinked)),
         settlements' = settlements
  PROVE  /\ EventsInv'
         /\ HeldIn(log') = [HeldIn(log) EXCEPT ![s] = HeldWith(type, @, a)]
         /\ SpentIn(log') = [SpentIn(log) EXCEPT ![s] = SpentWith(type, @, a)]
<1>. DEFINE e == Event(c, type, s, a, conf, Unlinked)
<1>1. /\ e \in Entries /\ e.key = c.key /\ e.source = c.source /\ e.type = type
      /\ e.spawn = s /\ e.amounts = a /\ e.settlement = Unlinked
      /\ c.key \in ClientKeys /\ c.source \in ClientKeys
  BY EventFields
<1>2. log \in Seq(Entries) /\ log' = Append(log, e)
  BY DEF LedgerInv
<1>. HIDE DEF e
<1>3. /\ Len(log') = Len(log) + 1 /\ DOMAIN log' = 1 .. Len(log) + 1 /\ Len(log) \in Nat
      /\ DOMAIN log = 1 .. Len(log) /\ log'[Len(log) + 1] = e
      /\ \A i \in 1 .. Len(log) : log'[i] = log[i]
  BY <1>1, <1>2
<1>4. /\ log' \in Seq(Entries)
      /\ HeldIn(log') = [HeldIn(log) EXCEPT ![s] = HeldWith(type, @, a)]
      /\ SpentIn(log') = [SpentIn(log) EXCEPT ![s] = SpentWith(type, @, a)]
      /\ \A k : Linked(log', k) = IF k = Unlinked THEN Plus(Linked(log, k), a)
                                                  ELSE Linked(log, k)
  BY <1>1, <1>2, EventMoves
<1>5. \A i \in DOMAIN log' : i = Len(log) + 1 \/ (i \in DOMAIN log /\ log'[i] = log[i])
  BY <1>3
<1>6. LinksAreKnown'
  <2>1. LinksAreKnown
    BY DEF LedgerInv
  <2>. QED BY <1>1, <1>3, <1>5, <2>1 DEF LinksAreKnown
<1>7. SourceCountedOnce'
  <2>1. /\ \A i \in DOMAIN log : log[i].key # c.key /\ log[i].source # c.source
        /\ \A t \in settlements : t.source # c.source
    BY DEF Fresh
  <2>2. SourceCountedOnce
    BY DEF LedgerInv
  <2>3. \A i, j \in DOMAIN log' :
          i # j => log'[i].key # log'[j].key /\ log'[i].source # log'[j].source
    BY <1>1, <1>3, <1>5, <2>1, <2>2 DEF SourceCountedOnce
  <2>4. \A i \in DOMAIN log', t \in settlements : log'[i].source # t.source
    BY <1>1, <1>3, <1>5, <2>1, <2>2 DEF SourceCountedOnce
  <2>. QED BY <2>2, <2>3, <2>4 DEF SourceCountedOnce
<1>8. SettlementIsExact'
  <2>. SUFFICES ASSUME NEW t \in settlements
                PROVE  /\ Net(log', t.spawn) = Zero
                       /\ Linked(log', t.key) = Plus(t.actual, t.released)
    BY DEF SettlementIsExact, Outstanding
  <2>1. /\ Net(log, t.spawn) = Zero /\ Linked(log, t.key) = Plus(t.actual, t.released)
        /\ t.spawn \in Spawns /\ t.key \in ClientKeys /\ t.spawn # s
    BY DEF LedgerInv, SettlementIsExact, Outstanding, Settlements, Settled
  <2>2. HeldIn(log')[t.spawn] = HeldIn(log)[t.spawn]
    BY <1>4, <2>1 DEF HeldIn
  <2>3. t.key # Unlinked
    BY <2>1, KeysOfClients
  <2>. QED BY <1>4, <2>1, <2>2, <2>3 DEF HeldIn
<1>. QED BY <1>4, <1>6, <1>7, <1>8 DEF EventsInv

\* So does the settlement of a spawn with events of its own.
LEMMA SettlementEvents ==
  ASSUME LedgerInv, NEW c \in Calls, NEW s \in Spawns, NEW a \in Amount, Settle(c, s, a)
  PROVE  /\ EventsInv'
         /\ settlements' \subseteq Settlements
         /\ HeldIn(log') = [HeldIn(log) EXCEPT ![s] = Zero]
         /\ SpentIn(log') = [SpentIn(log) EXCEPT ![s] = Plus(@, a)]
<1>. DEFINE held     == Outstanding(s)
            released == Minus(held, a)
            new      == [key |-> c.key, source |-> c.source, spawn |-> s,
                         actual |-> a, released |-> released]
<1>1. /\ held \in Amount /\ Leq(a, held) /\ log' = WithSettlement(c, s, a, released)
      /\ settlements' = settlements \cup {new}
  BY DEF Settle, Insert, MaySettleWith
<1>2. /\ \A i \in DOMAIN log : log[i].source # c.source
      /\ \A t \in settlements : t.key # c.key /\ t.source # c.source
      /\ \A t \in settlements : t.spawn # s
  BY DEF Settle, MaySettle, Settled
<1>3. c.key \in ClientKeys /\ c.source \in ClientKeys
  BY DEF ClientKeys
<1>. HIDE DEF held
<1>4. released \in Amount /\ held = Plus(a, released)
  <2>1. released \in Amount
    BY <1>1, QuantityOps
  <2>2. a \in Quantity /\ released \in Quantity /\ held \in Quantity
    BY <1>1, <2>1, QuantityOps
  <2>3. \A d \in Dims : held[d] = Plus(a, released)[d]
    BY <2>2, QuantityOps DEF Quantity
  <2>. QED BY <2>1, <2>2, <2>3, QuantityOps, QuantitiesEqual
<1>. HIDE DEF released
<1>5. /\ new \in Settlements /\ new.key = c.key /\ new.source = c.source /\ new.spawn = s
      /\ new.actual = a /\ new.released = released
  BY <1>3, <1>4 DEF Settlements
<1>. HIDE DEF new
<1>6. log \in Seq(Entries) /\ settlements \subseteq Settlements
  BY DEF LedgerInv
<1>7. /\ Grown(log', c, s, PartTypes)
      /\ HeldIn(log') = [HeldIn(log) EXCEPT ![s] = Zero]
      /\ SpentIn(log') = [SpentIn(log) EXCEPT ![s] = Plus(@, a)]
      /\ \A k : k # c.key => Linked(log', k) = Linked(log, k)
      /\ Linked(log, c.key) = Zero => Linked(log', c.key) = Plus(a, released)
  BY <1>1, <1>4, <1>6, SettlementMoves DEF held
<1>8. LinksAreKnown /\ SourceCountedOnce
  BY DEF LedgerInv
<1>9. /\ log' \in Seq(Entries) /\ DOMAIN log = 1 .. Len(log) /\ DOMAIN log' = 1 .. Len(log')
      /\ Len(log) \in Nat /\ Len(log') \in Nat /\ Len(log) <= Len(log')
      /\ \A i \in 1 .. Len(log) : log'[i] = log[i]
  BY <1>6, <1>7 DEF Grown
<1>10. ASSUME NEW i \in DOMAIN log'
       PROVE  \/ i \in DOMAIN log /\ log'[i] = log[i]
              \/ /\ i > Len(log)
                 /\ log'[i].settlement = c.key
                 /\ log'[i].key = Derived(c.key, log'[i].type)
                 /\ log'[i].source = Derived(c.source, log'[i].type)
  BY <1>7, <1>9 DEF Grown
<1>11. LinksAreKnown'
  <2>1. \E t \in settlements' : t.key = c.key /\ t.source = c.source
    BY <1>1, <1>5
  <2>. QED BY <1>1, <1>8, <1>10, <2>1 DEF LinksAreKnown
<1>12. \A i \in DOMAIN log : \A type :
         log[i].key # Derived(c.key, type) /\ log[i].source # Derived(c.source, type)
  <2>. TAKE i \in DOMAIN log
  <2>. TAKE type
  <2>1. CASE log[i].key \in ClientKeys /\ log[i].source \in ClientKeys
    BY <1>3, <2>1, KeysOfClients
  <2>2. ASSUME NEW t \in settlements, log[i].key = Derived(t.key, log[i].type),
               log[i].source = Derived(t.source, log[i].type)
        PROVE  log[i].key # Derived(c.key, type) /\ log[i].source # Derived(c.source, type)
    <3>1. /\ t.key \in ClientKeys /\ t.source \in ClientKeys
          /\ t.key # c.key /\ t.source # c.source
      BY <1>2, <1>6 DEF Settlements
    <3>. QED BY <1>3, <2>2, <3>1, KeysOfClients
  <2>. QED BY <1>8, <2>1, <2>2 DEF LinksAreKnown
<1>13. SourceCountedOnce'
  <2>1. ASSUME NEW i \in DOMAIN log', NEW j \in DOMAIN log', i # j
        PROVE  log'[i].key # log'[j].key /\ log'[i].source # log'[j].source
    <3>1. CASE i \in DOMAIN log /\ j \in DOMAIN log
      BY <1>8, <1>9, <2>1, <3>1 DEF SourceCountedOnce
    <3>2. CASE i \in DOMAIN log /\ j \notin DOMAIN log
      BY <1>9, <1>10, <1>12, <3>2
    <3>3. CASE i \notin DOMAIN log /\ j \in DOMAIN log
      BY <1>9, <1>10, <1>12, <3>3
    <3>4. CASE i \notin DOMAIN log /\ j \notin DOMAIN log
      <4>1. i > Len(log) /\ j > Len(log)
        BY <1>10, <3>4
      <4>2. log'[i].type # log'[j].type
        BY <1>7, <2>1, <4>1 DEF Grown
      <4>. QED BY <1>3, <1>10, <3>4, <4>2, KeysOfClients
    <3>. QED BY <3>1, <3>2, <3>3, <3>4
  <2>2. ASSUME NEW t \in settlements', NEW u \in settlements', t # u
        PROVE  t.key # u.key /\ t.source # u.source
    BY <1>1, <1>2, <1>5, <1>8, <2>2 DEF SourceCountedOnce
  <2>3. ASSUME NEW i \in DOMAIN log', NEW t \in settlements'
        PROVE  log'[i].source # t.source
    <3>1. t.source \in ClientKeys
      BY <1>1, <1>5, <1>6 DEF Settlements
    <3>2. CASE i \in DOMAIN log
      BY <1>1, <1>2, <1>5, <1>8, <1>9, <3>2 DEF SourceCountedOnce
    <3>3. CASE i \notin DOMAIN log
      BY <1>3, <1>10, <3>1, <3>3, KeysOfClients
    <3>. QED BY <3>2, <3>3
  <2>. QED BY <2>1, <2>2, <2>3 DEF SourceCountedOnce
<1>14. SettlementIsExact'
  <2>. SUFFICES ASSUME NEW t \in settlements'
                PROVE  /\ Net(log', t.spawn) = Zero
                       /\ Linked(log', t.key) = Plus(t.actual, t.released)
    BY DEF SettlementIsExact, Outstanding
  <2>1. CASE t \in settlements
    <3>1. /\ Net(log, t.spawn) = Zero /\ Linked(log, t.key) = Plus(t.actual, t.released)
          /\ t.spawn \in Spawns /\ t.spawn # s /\ t.key # c.key
      BY <1>2, <1>6, <2>1 DEF LedgerInv, SettlementIsExact, Outstanding, Settlements
    <3>2. HeldIn(log')[t.spawn] = HeldIn(log)[t.spawn]
      BY <1>7, <3>1 DEF HeldIn
    <3>. QED BY <1>7, <3>1, <3>2 DEF HeldIn
  <2>2. CASE t = new
    <3>1. HeldIn(log')[s] = Zero
      BY <1>7 DEF HeldIn
    <3>2. \A i \in DOMAIN log : log[i].settlement # c.key
      BY <1>2, <1>3, <1>8, KeysOfClients DEF LinksAreKnown
    <3>3. Linked(log, c.key) = Zero
      BY <1>6, <3>2, LinkedToNone
    <3>. QED BY <1>5, <1>7, <2>2, <3>1, <3>3 DEF HeldIn
  <2>. QED BY <1>1, <2>1, <2>2
<1>. QED BY <1>1, <1>5, <1>6, <1>7, <1>9, <1>11, <1>13, <1>14 DEF EventsInv

-----------------------------------------------------------------------------
(* The counters *)

\* A sum over the spawns follows the change at one of them.
LEMMA SumOverSpawns ==
  ASSUME NEW old \in [Spawns -> Int], NEW new \in [Spawns -> Int], NEW x \in Spawns,
         \A y \in Spawns \ {x} : new[y] = old[y]
  PROVE  SumFunction(new) = SumFunction(old) + (new[x] - old[x])
BY BudgetAssumption, SumOfChanged

\* Counters that follow the change of one account keep matching the ledger.
LEMMA CountersFollow ==
  ASSUME LedgerInv, log' \in Seq(Entries), NEW s \in Spawns,
         NEW h \in Quantity, NEW u \in Quantity,
         HeldIn(log') = [HeldIn(log) EXCEPT ![s] = h],
         SpentIn(log') = [SpentIn(log) EXCEPT ![s] = u],
         \A d \in Dims : reserved'[d] = reserved[d] + (h[d] - Net(log, s)[d]),
         \A d \in Dims : consumed'[d] = consumed[d] + (u[d] - NetUse(log, s)[d])
  PROVE  CountersMatchLedger'
<1>. SUFFICES ASSUME NEW d \in Dims
              PROVE  /\ reserved'[d] = SumFunction([t \in Spawns |-> Net(log', t)[d]])
                     /\ consumed'[d] = SumFunction([t \in Spawns |-> NetUse(log', t)[d]])
  BY DEF CountersMatchLedger, Outstanding
<1>. DEFINE g == [t \in Spawns |-> Net(log, t)[d]]
            f == [t \in Spawns |-> NetUse(log, t)[d]]
<1>1. g \in [Spawns -> Int] /\ f \in [Spawns -> Int] /\ h[d] \in Int /\ u[d] \in Int
  <2>1. \A t \in Spawns : Net(log, t) \in Quantity /\ NetUse(log, t) \in Quantity
    BY SumTypes DEF LedgerInv
  <2>2. \A q \in Quantity : q[d] \in Int
    BY DEF Quantity
  <2>. QED BY <2>1, <2>2
<1>2. reserved[d] = SumFunction(g) /\ consumed[d] = SumFunction(f)
  BY DEF LedgerInv, CountersMatchLedger, Outstanding
<1>. DEFINE newg == [t \in Spawns |-> Net(log', t)[d]]
            newf == [t \in Spawns |-> NetUse(log', t)[d]]
<1>3. /\ newg \in [Spawns -> Int] /\ newg[s] = h[d]
      /\ \A t \in Spawns \ {s} : newg[t] = g[t]
  <2>1. \A t \in Spawns : Net(log', t) = IF t = s THEN h ELSE Net(log, t)
    BY DEF HeldIn
  <2>. QED BY <1>1, <2>1
<1>4. /\ newf \in [Spawns -> Int] /\ newf[s] = u[d]
      /\ \A t \in Spawns \ {s} : newf[t] = f[t]
  <2>1. \A t \in Spawns : NetUse(log', t) = IF t = s THEN u ELSE NetUse(log, t)
    BY DEF SpentIn
  <2>. QED BY <1>1, <2>1
<1>5. g[s] = Net(log, s)[d] /\ f[s] = NetUse(log, s)[d]
  OBVIOUS
<1>. HIDE DEF g, f, newg, newf
<1>6. SumFunction(newg) = SumFunction(g) + (newg[s] - g[s])
  BY <1>1, <1>3, SumOverSpawns
<1>7. SumFunction(newf) = SumFunction(f) + (newf[s] - f[s])
  BY <1>1, <1>4, SumOverSpawns
<1>8. reserved'[d] = SumFunction(newg) /\ consumed'[d] = SumFunction(newf)
  BY <1>2, <1>3, <1>4, <1>5, <1>6, <1>7
<1>. QED BY <1>8 DEF newg, newf

LEMMA CountersOfNone ==
  ASSUME Init
  PROVE  CountersMatchLedger
<1>. SUFFICES ASSUME NEW d \in Dims
              PROVE  /\ reserved[d] = SumFunction([t \in Spawns |-> Net(log, t)[d]])
                     /\ consumed[d] = SumFunction([t \in Spawns |-> NetUse(log, t)[d]])
  BY DEF CountersMatchLedger, Outstanding
<1>1. \A t : Net(log, t)[d] = 0 /\ NetUse(log, t)[d] = 0
  BY SumsOfNone, QuantityOps DEF Init
<1>2. SumFunction([t \in Spawns |-> 0]) = 0
  BY BudgetAssumption, SumOfZeros
<1>3. /\ [t \in Spawns |-> Net(log, t)[d]] = [t \in Spawns |-> 0]
      /\ [t \in Spawns |-> NetUse(log, t)[d]] = [t \in Spawns |-> 0]
  BY <1>1
<1>4. reserved[d] = 0 /\ consumed[d] = 0
  BY QuantityOps DEF Init
<1>. QED BY <1>2, <1>3, <1>4

LEMMA InitLedger == Init => LedgerInv
<1>. SUFFICES ASSUME Init
              PROVE  LedgerInv
  OBVIOUS
<1>1. log \in Seq(Entries) /\ DOMAIN log = {} /\ settlements = {}
  BY DEF Init
<1>2. LinksAreKnown /\ SettledIsCompleted /\ SourceCountedOnce /\ SettlementIsExact
  BY <1>1 DEF LinksAreKnown, SettledIsCompleted, SourceCountedOnce, SettlementIsExact
<1>3. /\ usage \in Confidence /\ stage \in [Spawns -> Stage]
      /\ run \in {"candidate", "dispatched", "child_completed"}
  BY DEF Init, Confidence, Stage
<1>. QED BY <1>1, <1>2, <1>3, InitCounters, CountersOfNone DEF LedgerInv

\* A call that adds an event and touches one account keeps the invariant
\* when the counters move with the account.
LEMMA LedgerFollows ==
  ASSUME LedgerInv, CountersInv', EventsInv', settlements' \subseteq Settlements,
         SettledIsCompleted', usage' \in Confidence, UNCHANGED <<stage, run>>,
         CountersMatchLedger'
  PROVE  LedgerInv'
BY DEF LedgerInv, EventsInv

\* The movements of a client's events.
LEMMA ClientCall ==
  ASSUME LedgerInv, CountersInv', NEW c \in Calls, NEW s \in Spawns, NEW type \in EventTypes,
         NEW a \in Amount, NEW conf \in Confidence, Fresh(c), ~Settled(s),
         log' = Append(log, Event(c, type, s, a, conf, Unlinked)),
         UNCHANGED <<settlements, stage, run>>, usage' \in Confidence,
         reserved' = HeldWith(type, reserved, a),
         consumed' = SpentWith(type, consumed, a)
  PROVE  /\ LedgerInv'
         /\ HeldIn(log') = [HeldIn(log) EXCEPT ![s] = HeldWith(type, @, a)]
         /\ SpentIn(log') = [SpentIn(log) EXCEPT ![s] = SpentWith(type, @, a)]
<1>1. /\ EventsInv'
      /\ HeldIn(log') = [HeldIn(log) EXCEPT ![s] = HeldWith(type, @, a)]
      /\ SpentIn(log') = [SpentIn(log) EXCEPT ![s] = SpentWith(type, @, a)]
  BY ClientEvent
<1>. DEFINE h == HeldWith(type, Net(log, s), a)
            u == SpentWith(type, NetUse(log, s), a)
<1>2. /\ a \in Quantity /\ reserved \in Quantity /\ consumed \in Quantity
      /\ Net(log, s) \in Quantity /\ NetUse(log, s) \in Quantity
  BY QuantityOps, SumTypes DEF LedgerInv, CountersInv
<1>3. ASSUME NEW q \in Quantity
      PROVE  /\ HeldWith(type, q, a) \in Quantity /\ SpentWith(type, q, a) \in Quantity
             /\ \A d \in Dims :
                  /\ HeldWith(type, q, a)[d]
                       = IF type \in {"reserve", "retry_restore"} THEN q[d] + a[d]
                         ELSE q[d] - a[d]
                  /\ SpentWith(type, q, a)[d]
                       = IF type \in PreDispatch THEN q[d]
                         ELSE IF type = "retry_restore" THEN q[d] - a[d] ELSE q[d] + a[d]
  BY <1>2, QuantityOps DEF HeldWith, SpentWith
<1>4. \A d \in Dims : reserved'[d] = reserved[d] + (h[d] - Net(log, s)[d])
  <2>. TAKE d \in Dims
  <2>1. a[d] \in Int /\ reserved[d] \in Int /\ Net(log, s)[d] \in Int
    BY <1>2 DEF Quantity
  <2>. QED BY <1>2, <1>3, <2>1
<1>5. \A d \in Dims : consumed'[d] = consumed[d] + (u[d] - NetUse(log, s)[d])
  <2>. TAKE d \in Dims
  <2>1. a[d] \in Int /\ consumed[d] \in Int /\ NetUse(log, s)[d] \in Int
    BY <1>2 DEF Quantity
  <2>. QED BY <1>2, <1>3, <2>1
<1>6. /\ HeldIn(log') = [HeldIn(log) EXCEPT ![s] = h]
      /\ SpentIn(log') = [SpentIn(log) EXCEPT ![s] = u]
      /\ h \in Quantity /\ u \in Quantity
  BY <1>1, <1>2, <1>3 DEF HeldIn, SpentIn
<1>. HIDE DEF h, u
<1>7. CountersMatchLedger'
  <2>1. log' \in Seq(Entries)
    BY ONLY <1>1 DEF EventsInv
  <2>. QED BY ONLY LedgerInv, s \in Spawns, <1>4, <1>5, <1>6, <2>1, CountersFollow
<1>8. SettledIsCompleted' /\ settlements' \subseteq Settlements
  BY DEF LedgerInv, SettledIsCompleted
<1>. QED BY <1>1, <1>7, <1>8, LedgerFollows

LEMMA SettlementCall ==
  ASSUME LedgerInv, NEW c \in Calls, NEW s \in Spawns, NEW a \in Amount, Settle(c, s, a)
  PROVE  /\ LedgerInv'
         /\ HeldIn(log') = [HeldIn(log) EXCEPT ![s] = Zero]
         /\ SpentIn(log') = [SpentIn(log) EXCEPT ![s] = Plus(@, a)]
<1>1. /\ EventsInv'
      /\ settlements' \subseteq Settlements
      /\ HeldIn(log') = [HeldIn(log) EXCEPT ![s] = Zero]
      /\ SpentIn(log') = [SpentIn(log) EXCEPT ![s] = Plus(@, a)]
  BY SettlementEvents
<1>2. CountersInv'
  BY SettleKeepsInv DEF LedgerInv
<1>. DEFINE u == Plus(NetUse(log, s), a)
<1>3. /\ a \in Quantity /\ reserved \in Quantity /\ consumed \in Quantity /\ Zero \in Quantity
      /\ Net(log, s) \in Quantity /\ NetUse(log, s) \in Quantity
  BY QuantityOps, SumTypes DEF LedgerInv, CountersInv
<1>4. reserved' = Minus(reserved, Net(log, s)) /\ consumed' = Plus(consumed, a)
  BY DEF Settle, Outstanding
<1>5. \A d \in Dims : reserved'[d] = reserved[d] + (Zero[d] - Net(log, s)[d])
  <2>. TAKE d \in Dims
  <2>1. reserved[d] \in Int /\ Net(log, s)[d] \in Int /\ Zero[d] = 0
    BY <1>3, QuantityOps DEF Quantity
  <2>2. reserved'[d] = reserved[d] - Net(log, s)[d]
    BY <1>3, <1>4, QuantityOps
  <2>. QED BY <2>1, <2>2
<1>6. \A d \in Dims : consumed'[d] = consumed[d] + (u[d] - NetUse(log, s)[d])
  <2>. TAKE d \in Dims
  <2>1. a[d] \in Int /\ consumed[d] \in Int /\ NetUse(log, s)[d] \in Int
    BY <1>3 DEF Quantity
  <2>2. consumed'[d] = consumed[d] + a[d] /\ u[d] = NetUse(log, s)[d] + a[d]
    BY <1>3, <1>4, QuantityOps
  <2>. QED BY <2>1, <2>2
<1>7. SpentIn(log') = [SpentIn(log) EXCEPT ![s] = u] /\ u \in Quantity
  BY <1>1, <1>3, QuantityOps DEF SpentIn
<1>. HIDE DEF u
<1>8. CountersMatchLedger'
  <2>1. log' \in Seq(Entries)
    BY ONLY <1>1 DEF EventsInv
  <2>2. HeldIn(log') = [HeldIn(log) EXCEPT ![s] = Zero] /\ Zero \in Quantity
    BY ONLY <1>1, <1>3
  <2>. QED BY ONLY LedgerInv, s \in Spawns, <1>5, <1>6, <1>7, <2>1, <2>2, CountersFollow
<1>9. /\ SettledIsCompleted' /\ usage' \in Confidence /\ UNCHANGED <<stage, run>>
  <2>1. stage[s] = "completed" /\ UNCHANGED <<usage, stage, run>>
    BY DEF Settle, MaySettle
  <2>2. \A t \in settlements' : t \in settlements \/ t.spawn = s
    BY DEF Settle
  <2>. QED BY <2>1, <2>2 DEF LedgerInv, SettledIsCompleted
<1>. QED BY <1>1, <1>2, <1>8, <1>9, LedgerFollows

-----------------------------------------------------------------------------
(* The accounts *)

LEMMA SameAmounts ==
  /\ Facts!Zero = Zero /\ Facts!Amount = Amount
  /\ \A a, b : Facts!Plus(a, b) = Plus(a, b) /\ Facts!Minus(a, b) = Minus(a, b)
  /\ \A a, b : Facts!Leq(a, b) <=> Leq(a, b)
  /\ \A a : Facts!Funded(a) <=> Funded(a)
<1>1. Facts!Dims = Dims
  BY DEF Facts!Dims, Dims
<1>2. /\ Facts!Zero = Zero /\ Facts!Amount = Amount
      /\ \A a, b : Facts!Plus(a, b) = Plus(a, b) /\ Facts!Minus(a, b) = Minus(a, b)
      /\ \A a, b : Facts!Leq(a, b) <=> Leq(a, b)
  BY <1>1
  DEF Facts!Zero, Zero, Facts!Amount, Amount, Facts!Plus, Plus, Facts!Minus, Minus,
      Facts!Leq, Leq
<1>3. \A a : Facts!Funded(a) <=> Funded(a)
  BY DEF Facts!Funded, Funded, Facts!RequiredCost, RequiredCost, Facts!RoundedUp, RoundedUp
<1>. QED BY <1>2, <1>3

\* Amounts that cost nothing, and the cost of what is added up.
LEMMA FundedLaws ==
  /\ Funded(Zero)
  /\ \A a, b \in Amount : Funded(a) /\ Funded(b) => Funded(Plus(a, b))
  /\ \A a, b : /\ Funded(a)
               /\ a["input"] = b["input"] /\ a["output"] = b["output"] /\ a["cost"] = b["cost"]
               => Funded(b)
<1>1. Funded(Zero)
  BY Facts!FundedZero, PriceAssumption, SameAmounts
<1>2. ASSUME NEW a \in Amount, NEW b \in Amount, Funded(a), Funded(b)
      PROVE  Funded(Plus(a, b))
  <2>1. a \in Facts!Amount /\ b \in Facts!Amount /\ Facts!Funded(a) /\ Facts!Funded(b)
    BY <1>2, SameAmounts
  <2>2. Facts!Funded(Facts!Plus(a, b))
    BY <2>1, Facts!FundedOfSum, PriceAssumption
  <2>. QED BY <2>2, SameAmounts
<1>3. \A a, b : /\ Funded(a)
                /\ a["input"] = b["input"] /\ a["output"] = b["output"]
                /\ a["cost"] = b["cost"]
                => Funded(b)
  BY DEF Funded, RequiredCost
<1>. QED BY <1>1, <1>2, <1>3

LEMMA SameOperators ==
  /\ Accounts!Zero = Zero /\ Accounts!Amount = Amount
  /\ \A a, b : Accounts!Plus(a, b) = Plus(a, b) /\ Accounts!Minus(a, b) = Minus(a, b)
  /\ \A a, b : Accounts!Leq(a, b) <=> Leq(a, b)
  /\ \A a, D : Accounts!Only(a, D) = Only(a, D) /\ Facts!Only(a, D) = Only(a, D)
  /\ \A a : Accounts!Funded(a) <=> Funded(a)
  /\ Accounts!Movable = Facts!Movable
<1>1. Accounts!Dims = Dims /\ Facts!Dims = Dims
  BY DEF Accounts!Dims, Facts!Dims, Dims
<1>2. /\ Accounts!Zero = Zero /\ Accounts!Amount = Amount
      /\ \A a, b : Accounts!Plus(a, b) = Plus(a, b) /\ Accounts!Minus(a, b) = Minus(a, b)
      /\ \A a, b : Accounts!Leq(a, b) <=> Leq(a, b)
      /\ \A a, D : Accounts!Only(a, D) = Only(a, D) /\ Facts!Only(a, D) = Only(a, D)
  BY <1>1
  DEF Accounts!Zero, Zero, Accounts!Amount, Amount, Accounts!Plus, Plus, Accounts!Minus, Minus,
      Accounts!Leq, Leq, Accounts!Only, Facts!Only, Only
<1>3. \A a : Accounts!Funded(a) <=> Funded(a)
  BY DEF Accounts!Funded, Funded, Accounts!RequiredCost, RequiredCost,
         Accounts!RoundedUp, RoundedUp
<1>4. Accounts!Movable = Facts!Movable
  BY <1>2, SameAmounts DEF Accounts!Movable, Facts!Movable
<1>. QED BY <1>2, <1>3, <1>4

\* The accounts stay funded over every step of the abstract specification.
LEMMA AccountsKept ==
  ASSUME Facts!AccountsInv, [Accounts!AccountsNext]_(Accounts!accountVars)
  PROVE  Facts!AccountsInv'
<1>1. ASSUME NEW s, NEW a
      PROVE  /\ Accounts!Hold(s, a) => Facts!Hold(s, a)
             /\ Accounts!GiveBack(s, a) => Facts!GiveBack(s, a)
             /\ Accounts!Use(s, a) => Facts!Use(s, a)
             /\ Accounts!TakeBack(s, a) => Facts!TakeBack(s, a)
             /\ Accounts!Close(s, a) => Facts!Close(s, a)
  <2>. USE SameAmounts, SameOperators
  <2>1. Accounts!Hold(s, a) => Facts!Hold(s, a)
    BY DEF Accounts!Hold, Facts!Hold
  <2>2. Accounts!GiveBack(s, a) => Facts!GiveBack(s, a)
    BY DEF Accounts!GiveBack, Facts!GiveBack, Accounts!CanTake, Facts!CanTake
  <2>3. Accounts!Use(s, a) => Facts!Use(s, a)
    BY DEF Accounts!Use, Facts!Use, Accounts!CanTake, Facts!CanTake
  <2>4. Accounts!TakeBack(s, a) => Facts!TakeBack(s, a)
    BY DEF Accounts!TakeBack, Facts!TakeBack
  <2>5. Accounts!Close(s, a) => Facts!Close(s, a)
    BY DEF Accounts!Close, Facts!Close
  <2>. QED BY <2>1, <2>2, <2>3, <2>4, <2>5
<1>2. [Facts!AccountsNext]_(Facts!accountVars)
  <2>1. CASE Accounts!AccountsNext
    BY <1>1, <2>1, SameOperators DEF Accounts!AccountsNext, Facts!AccountsNext
  <2>2. CASE UNCHANGED Accounts!accountVars
    BY <2>2 DEF Accounts!accountVars, Facts!accountVars
  <2>. QED BY <2>1, <2>2
<1>. QED BY <1>2, Facts!AccountsStep, PriceAssumption

-----------------------------------------------------------------------------
(* Each call is a movement of one account *)

\* The whole inductive invariant.
BudgetInv == LedgerInv /\ Facts!AccountsInv /\ Funded(consumed)

LEMMA AccountFacts ==
  ASSUME BudgetInv, NEW s \in Spawns
  PROVE  /\ Net(log, s) \in Amount /\ Funded(Net(log, s))
         /\ NetUse(log, s) \in Amount /\ Funded(NetUse(log, s))
         /\ consumed \in Amount /\ reserved \in Amount
BY SameAmounts
DEF BudgetInv, LedgerInv, CountersInv, Facts!AccountsInv, Facts!AccountsFunded, Outstanding

\* How the account of a spawn moves when its events do.
Moved(s, h, u) ==
  /\ HeldIn(log') = [HeldIn(log) EXCEPT ![s] = h]
  /\ SpentIn(log') = [SpentIn(log) EXCEPT ![s] = u]

\* The five movements of SpawnAccounts, for an account that is open.
LEMMA Movements ==
  ASSUME BudgetInv, NEW s \in Spawns, NEW a \in Amount, a \in Amounts \cup {Zero}, ~Settled(s)
  PROVE  /\ /\ settlements' = settlements /\ Funded(a)
            /\ Moved(s, Plus(Net(log, s), a), NetUse(log, s))
            => Accounts!AccountsNext
         /\ /\ settlements' = settlements /\ CanTake(s, a)
            /\ Moved(s, Minus(Net(log, s), a), NetUse(log, s))
            => Accounts!AccountsNext
         /\ /\ settlements' = settlements /\ CanTake(s, a) /\ Funded(a)
            /\ Moved(s, Minus(Net(log, s), a), Plus(NetUse(log, s), a))
            => Accounts!AccountsNext
         /\ /\ settlements' = settlements /\ a = Only(a, {"retry"}) /\ Leq(a, NetUse(log, s))
            /\ Moved(s, Plus(Net(log, s), a), Minus(NetUse(log, s), a))
            => Accounts!AccountsNext
         /\ /\ {t \in Spawns : Settled(t)}' = {t \in Spawns : Settled(t)} \cup {s}
            /\ Leq(a, Net(log, s)) /\ Funded(a)
            /\ Moved(s, Zero, Plus(NetUse(log, s), a))
            => Accounts!AccountsNext
<1>. USE SameOperators
<1>1. s \notin {t \in Spawns : Settled(t)} /\ a \in Accounts!Movable
  BY SameAmounts DEF Facts!Movable
<1>2. /\ [t \in Spawns |-> Outstanding(t)] = HeldIn(log)
      /\ [t \in Spawns |-> Outstanding(t)]' = HeldIn(log')
      /\ [t \in Spawns |-> NetUse(log, t)] = SpentIn(log)
      /\ [t \in Spawns |-> NetUse(log, t)]' = SpentIn(log')
      /\ HeldIn(log)[s] = Net(log, s) /\ SpentIn(log)[s] = NetUse(log, s)
      /\ SpentIn(log) = [SpentIn(log) EXCEPT ![s] = NetUse(log, s)]
      /\ Outstanding(s) = Net(log, s)
  BY DEF HeldIn, SpentIn, Outstanding
<1>3. settlements' = settlements => {t \in Spawns : Settled(t)}' = {t \in Spawns : Settled(t)}
  BY DEF Settled
<1>4. \/ Accounts!Hold(s, a) \/ Accounts!GiveBack(s, a) \/ Accounts!Use(s, a)
      \/ Accounts!TakeBack(s, a) \/ Accounts!Close(s, a)
      => Accounts!AccountsNext
  BY <1>1 DEF Accounts!AccountsNext
<1>5. /\ settlements' = settlements /\ Funded(a)
      /\ Moved(s, Plus(Net(log, s), a), NetUse(log, s))
      => Accounts!Hold(s, a)
  BY <1>1, <1>2, <1>3 DEF Accounts!Hold, Moved
<1>6. /\ settlements' = settlements /\ CanTake(s, a)
      /\ Moved(s, Minus(Net(log, s), a), NetUse(log, s))
      => Accounts!GiveBack(s, a)
  BY <1>1, <1>2, <1>3 DEF Accounts!GiveBack, Accounts!CanTake, CanTake, Moved
<1>7. /\ settlements' = settlements /\ CanTake(s, a) /\ Funded(a)
      /\ Moved(s, Minus(Net(log, s), a), Plus(NetUse(log, s), a))
      => Accounts!Use(s, a)
  BY <1>1, <1>2, <1>3 DEF Accounts!Use, Accounts!CanTake, CanTake, Moved
<1>8. /\ settlements' = settlements /\ a = Only(a, {"retry"}) /\ Leq(a, NetUse(log, s))
      /\ Moved(s, Plus(Net(log, s), a), Minus(NetUse(log, s), a))
      => Accounts!TakeBack(s, a)
  BY <1>1, <1>2, <1>3 DEF Accounts!TakeBack, Moved
<1>9. /\ {t \in Spawns : Settled(t)}' = {t \in Spawns : Settled(t)} \cup {s}
      /\ Leq(a, Net(log, s)) /\ Funded(a)
      /\ Moved(s, Zero, Plus(NetUse(log, s), a))
      => Accounts!Close(s, a)
  BY <1>1, <1>2 DEF Accounts!Close, Moved
<1>. QED BY <1>4, <1>5, <1>6, <1>7, <1>8, <1>9

\* What every step has to do.
StepKept ==
  /\ LedgerInv'
  /\ Funded(consumed')
  /\ [Accounts!AccountsNext]_(Accounts!accountVars)

LEMMA ReserveStep ==
  ASSUME BudgetInv, NEW c \in Calls, NEW s \in Spawns, NEW a \in Amounts, Reserve(c, s, a)
  PROVE  StepKept
<1>1. a \in Amount /\ LedgerInv
  BY BudgetAssumption DEF BudgetInv
<1>2. CountersInv'
  BY <1>1, ReserveKeepsInv DEF LedgerInv
<1>3. ~Settled(s)
  BY <1>1 DEF Reserve, Settled, LedgerInv, SettledIsCompleted
<1>4. "reserve" \in EventTypes /\ "measured" \in Confidence
  BY DEF EventTypes, PreDispatch, Confidence
<1>5. /\ Fresh(c) /\ log' = Append(log, Event(c, "reserve", s, a, "measured", Unlinked))
      /\ UNCHANGED <<settlements, stage, run, usage>> /\ Funded(a)
      /\ reserved' = Plus(reserved, a) /\ consumed' = consumed
  BY DEF Reserve, Insert
<1>6. /\ \A x : HeldWith("reserve", x, a) = Plus(x, a)
      /\ \A x : SpentWith("reserve", x, a) = x
  BY DEF HeldWith, SpentWith, PreDispatch
<1>7. /\ LedgerInv'
      /\ HeldIn(log') = [HeldIn(log) EXCEPT ![s] = HeldWith("reserve", @, a)]
      /\ SpentIn(log') = [SpentIn(log) EXCEPT ![s] = SpentWith("reserve", @, a)]
  <2>1. usage' \in Confidence
    BY <1>1, <1>5 DEF LedgerInv
  <2>2. /\ reserved' = HeldWith("reserve", reserved, a)
        /\ consumed' = SpentWith("reserve", consumed, a)
    BY <1>5, <1>6
  <2>. QED BY <1>1, <1>2, <1>3, <1>4, <1>5, <2>1, <2>2, ClientCall
<1>8. Moved(s, Plus(Net(log, s), a), NetUse(log, s))
  BY <1>6, <1>7 DEF Moved, HeldIn, SpentIn
<1>. QED BY <1>1, <1>3, <1>5, <1>7, <1>8, Movements DEF StepKept, BudgetInv

LEMMA ReleaseStep ==
  ASSUME BudgetInv, NEW c \in Calls, NEW s \in Spawns, NEW a \in Amounts, Release(c, s, a)
  PROVE  StepKept
<1>1. a \in Amount /\ LedgerInv
  BY BudgetAssumption DEF BudgetInv
<1>2. CountersInv'
  BY <1>1, ReleaseKeepsInv DEF LedgerInv
<1>3. ~Settled(s)
  BY <1>1 DEF Release, Settled, LedgerInv, SettledIsCompleted
<1>4. "release" \in EventTypes /\ "measured" \in Confidence
  BY DEF EventTypes, PreDispatch, Confidence
<1>5. /\ Fresh(c) /\ log' = Append(log, Event(c, "release", s, a, "measured", Unlinked))
      /\ UNCHANGED <<settlements, stage, run, usage>> /\ CanTake(s, a)
      /\ reserved' = Minus(reserved, a) /\ consumed' = consumed
  BY DEF Release, Insert
<1>6. /\ \A x : HeldWith("release", x, a) = Minus(x, a)
      /\ \A x : SpentWith("release", x, a) = x
  BY DEF HeldWith, SpentWith, PreDispatch
<1>7. /\ LedgerInv'
      /\ HeldIn(log') = [HeldIn(log) EXCEPT ![s] = HeldWith("release", @, a)]
      /\ SpentIn(log') = [SpentIn(log) EXCEPT ![s] = SpentWith("release", @, a)]
  <2>1. usage' \in Confidence
    BY <1>1, <1>5 DEF LedgerInv
  <2>2. /\ reserved' = HeldWith("release", reserved, a)
        /\ consumed' = SpentWith("release", consumed, a)
    BY <1>5, <1>6
  <2>. QED BY <1>1, <1>2, <1>3, <1>4, <1>5, <2>1, <2>2, ClientCall
<1>8. Moved(s, Minus(Net(log, s), a), NetUse(log, s))
  BY <1>6, <1>7 DEF Moved, HeldIn, SpentIn
<1>. QED BY <1>1, <1>3, <1>5, <1>7, <1>8, Movements DEF StepKept, BudgetInv

\* An event that spends what its spawn held.
LEMMA SpendingStep ==
  ASSUME BudgetInv, NEW c \in Calls, NEW s \in Spawns, NEW a \in Amounts,
         NEW type \in {"consume", "retry_decrement", "human_attention"},
         MayRecord(c, s), CanTake(s, a), Funded(a), Spend(a),
         log' = Append(log, Event(c, type, s, a, "measured", Unlinked)),
         UNCHANGED <<settlements, usage, stage, run>>
  PROVE  StepKept
<1>1. a \in Amount /\ LedgerInv /\ a \in Amounts \cup {Zero}
  BY BudgetAssumption DEF BudgetInv
<1>2. CountersInv'
  BY <1>1, SpendKeepsInv DEF LedgerInv
<1>3. ~Settled(s) /\ Fresh(c)
  BY DEF MayRecord
<1>4. type \in EventTypes /\ "measured" \in Confidence
  BY DEF EventTypes, PostDispatch, Confidence
<1>5. reserved' = Minus(reserved, a) /\ consumed' = Plus(consumed, a)
  BY DEF Spend
<1>6. /\ \A x : HeldWith(type, x, a) = Minus(x, a)
      /\ \A x : SpentWith(type, x, a) = Plus(x, a)
  BY DEF HeldWith, SpentWith, PreDispatch
<1>7. /\ LedgerInv'
      /\ HeldIn(log') = [HeldIn(log) EXCEPT ![s] = HeldWith(type, @, a)]
      /\ SpentIn(log') = [SpentIn(log) EXCEPT ![s] = SpentWith(type, @, a)]
  <2>1. usage' \in Confidence
    BY <1>1 DEF LedgerInv
  <2>2. reserved' = HeldWith(type, reserved, a) /\ consumed' = SpentWith(type, consumed, a)
    BY <1>5, <1>6
  <2>. QED BY <1>1, <1>2, <1>3, <1>4, <2>1, <2>2, ClientCall
<1>8. Moved(s, Minus(Net(log, s), a), Plus(NetUse(log, s), a))
  BY <1>6, <1>7 DEF Moved, HeldIn, SpentIn
<1>9. Funded(consumed')
  BY <1>1, <1>5, AccountFacts, FundedLaws DEF BudgetInv
<1>10. Accounts!AccountsNext
  BY <1>1, <1>3, <1>8, Movements
<1>. QED BY <1>7, <1>9, <1>10 DEF StepKept

LEMMA ConsumeStep ==
  ASSUME BudgetInv, NEW c \in Calls, NEW s \in Spawns, NEW a \in Amounts, Consume(c, s, a)
  PROVE  StepKept
BY SpendingStep DEF Consume, Insert

\* Single units cost nothing, so what stays reserved is as funded as before.
LEMMA UnitsStep ==
  ASSUME BudgetInv, NEW c \in Calls, NEW s \in Spawns, NEW a \in Amounts,
         NEW type \in {"retry_decrement", "human_attention"}, NEW d \in {"retry", "human"},
         UseUnits(c, s, a, type, d)
  PROVE  StepKept
<1>1. a \in Amount /\ log \in Seq(Entries)
  BY BudgetAssumption DEF BudgetInv, LedgerInv
<1>2. /\ a = Only(a, {d}) /\ a[d] <= Net(log, s)[d] /\ MayRecord(c, s) /\ Spend(a)
      /\ log' = Append(log, Event(c, type, s, a, "measured", Unlinked))
      /\ UNCHANGED <<settlements, usage, stage, run>>
  BY DEF UseUnits, Insert, Outstanding
<1>3. Net(log, s) \in Amount /\ Funded(Net(log, s))
  BY AccountFacts
<1>4. \A e \in Dims : e # d => a[e] = 0
  BY <1>2 DEF Only
<1>5. Leq(a, Outstanding(s))
  BY <1>2, <1>3, <1>4 DEF Leq, Amount, Outstanding
<1>6. /\ "input" \in Dims /\ "output" \in Dims /\ "cost" \in Dims
      /\ d # "input" /\ d # "output" /\ d # "cost"
  BY DEF Dims
<1>7. a["input"] = 0 /\ a["output"] = 0 /\ a["cost"] = 0
  BY <1>4, <1>6
<1>8. Funded(a)
  <2>1. Zero["input"] = 0 /\ Zero["output"] = 0 /\ Zero["cost"] = 0
    BY <1>6, QuantityOps
  <2>. QED BY <1>7, <2>1, FundedLaws
<1>9. Funded(Minus(Outstanding(s), a))
  <2>. DEFINE o == Net(log, s)
  <2>1. o["input"] \in Int /\ o["output"] \in Int /\ o["cost"] \in Int
    BY <1>3, <1>6 DEF Amount
  <2>2. /\ Minus(o, a)["input"] = o["input"] - a["input"]
        /\ Minus(o, a)["output"] = o["output"] - a["output"]
        /\ Minus(o, a)["cost"] = o["cost"] - a["cost"]
    BY <1>6 DEF Minus
  <2>3. Funded(o)
    BY <1>3
  <2>. HIDE DEF o
  <2>4. Minus(o, a)["input"] = o["input"] /\ Minus(o, a)["output"] = o["output"]
          /\ Minus(o, a)["cost"] = o["cost"]
    BY <1>7, <2>1, <2>2
  <2>5. Funded(Minus(o, a))
    BY <2>3, <2>4, FundedLaws
  <2>. QED BY <2>5 DEF o, Outstanding
<1>10. CanTake(s, a)
  BY <1>5, <1>9 DEF CanTake
<1>. QED BY <1>2, <1>8, <1>10, SpendingStep

LEMMA UnknownStep ==
  ASSUME BudgetInv, NEW c \in Calls, NEW s \in Spawns, ConsumeUnknown(c, s)
  PROVE  StepKept
<1>1. LedgerInv /\ Zero \in Amount
  BY QuantityOps DEF BudgetInv
<1>2. /\ ~Settled(s) /\ Fresh(c)
      /\ log' = Append(log, Event(c, "consume", s, Zero, "unknown", Unlinked))
      /\ UNCHANGED <<settlements, reserved, consumed, stage, run>> /\ usage' = "unknown"
  BY DEF ConsumeUnknown, MayRecord, Insert
<1>3. CountersInv'
  BY <1>1, <1>2 DEF LedgerInv, CountersInv, WithinLimit
<1>4. "consume" \in EventTypes /\ "unknown" \in Confidence
  BY DEF EventTypes, PostDispatch, Confidence
<1>5. \A q \in Quantity : HeldWith("consume", q, Zero) = q /\ SpentWith("consume", q, Zero) = q
  BY QuantityLaws DEF HeldWith, SpentWith, PreDispatch
<1>6. /\ Net(log, s) \in Quantity /\ NetUse(log, s) \in Quantity
      /\ reserved \in Quantity /\ consumed \in Quantity
  BY AccountFacts, QuantityOps
<1>7. /\ LedgerInv'
      /\ HeldIn(log') = [HeldIn(log) EXCEPT ![s] = HeldWith("consume", @, Zero)]
      /\ SpentIn(log') = [SpentIn(log) EXCEPT ![s] = SpentWith("consume", @, Zero)]
  <2>1. /\ reserved' = HeldWith("consume", reserved, Zero)
        /\ consumed' = SpentWith("consume", consumed, Zero)
    BY <1>2, <1>5, <1>6
  <2>. QED BY <1>1, <1>2, <1>3, <1>4, <2>1, ClientCall
<1>8. HeldIn(log') = HeldIn(log) /\ SpentIn(log') = SpentIn(log)
  <2>1. HeldIn(log)[s] = Net(log, s) /\ SpentIn(log)[s] = NetUse(log, s)
    BY DEF HeldIn, SpentIn
  <2>2. /\ HeldIn(log) = [t \in Spawns |-> HeldIn(log)[t]]
        /\ SpentIn(log) = [t \in Spawns |-> SpentIn(log)[t]]
    BY DEF HeldIn, SpentIn
  <2>3. /\ HeldIn(log') = [HeldIn(log) EXCEPT ![s] = HeldIn(log)[s]]
        /\ SpentIn(log') = [SpentIn(log) EXCEPT ![s] = SpentIn(log)[s]]
    BY ONLY <1>5, <1>6, <1>7, <2>1
  <2>. QED BY ONLY <2>2, <2>3
<1>9. UNCHANGED Accounts!accountVars
  BY <1>2, <1>8 DEF Accounts!accountVars, HeldIn, SpentIn, Outstanding, Settled
<1>. QED BY <1>2, <1>7, <1>9 DEF StepKept, BudgetInv

\* Restored retries were used before: no account loses more than it spent.
LEMMA RestoreStep ==
  ASSUME BudgetInv, NEW c \in Calls, NEW s \in Spawns, NEW a \in Amounts, RetryRestore(c, s, a)
  PROVE  StepKept
<1>1. a \in Amount /\ LedgerInv /\ a \in Amounts \cup {Zero}
  BY BudgetAssumption DEF BudgetInv
<1>2. CountersInv'
  BY <1>1, RestoreKeepsInv DEF LedgerInv
<1>3. /\ ~Settled(s) /\ Fresh(c)
      /\ log' = Append(log, Event(c, "retry_restore", s, a, "measured", Unlinked))
      /\ NetUse(log', s)["retry"] >= 0 /\ a = Only(a, {"retry"})
      /\ UNCHANGED <<settlements, usage, stage, run>>
      /\ reserved' = Plus(reserved, a) /\ consumed' = Minus(consumed, a) /\ Leq(a, consumed)
  BY DEF RetryRestore, MayRecord, Insert, PrefixesHold
<1>4. "retry_restore" \in EventTypes /\ "measured" \in Confidence
  BY DEF EventTypes, PostDispatch, Confidence
<1>5. /\ \A x : HeldWith("retry_restore", x, a) = Plus(x, a)
      /\ \A x : SpentWith("retry_restore", x, a) = Minus(x, a)
  BY DEF HeldWith, SpentWith, PreDispatch
<1>6. /\ LedgerInv'
      /\ HeldIn(log') = [HeldIn(log) EXCEPT ![s] = HeldWith("retry_restore", @, a)]
      /\ SpentIn(log') = [SpentIn(log) EXCEPT ![s] = SpentWith("retry_restore", @, a)]
  <2>1. usage' \in Confidence
    BY <1>1, <1>3 DEF LedgerInv
  <2>2. /\ reserved' = HeldWith("retry_restore", reserved, a)
        /\ consumed' = SpentWith("retry_restore", consumed, a)
    BY <1>3, <1>5
  <2>. QED BY <1>1, <1>2, <1>3, <1>4, <2>1, <2>2, ClientCall
<1>7. Moved(s, Plus(Net(log, s), a), Minus(NetUse(log, s), a))
  BY <1>5, <1>6 DEF Moved, HeldIn, SpentIn
<1>8. NetUse(log, s) \in Amount /\ consumed \in Amount
  BY AccountFacts
<1>9. \A d \in Dims : d # "retry" => a[d] = 0
  BY <1>3 DEF Only
<1>10. Leq(a, NetUse(log, s))
  <2>1. NetUse(log', s) = Minus(NetUse(log, s), a)
    BY <1>7 DEF Moved, SpentIn
  <2>2. "retry" \in Dims
    BY DEF Dims
  <2>3. NetUse(log, s)["retry"] - a["retry"] >= 0
    BY <1>3, <2>1, <2>2 DEF Minus
  <2>4. \A d \in Dims : NetUse(log, s)[d] \in Nat /\ a[d] \in Nat
    BY <1>1, <1>8 DEF Amount
  <2>. QED BY <1>9, <2>2, <2>3, <2>4 DEF Leq
<1>11. Funded(consumed')
  <2>1. "input" \in Dims /\ "output" \in Dims /\ "cost" \in Dims
    BY DEF Dims
  <2>2. ASSUME NEW d \in {"input", "output", "cost"}
        PROVE  consumed'[d] = consumed[d]
    <3>1. d \in Dims /\ d # "retry"
      BY <2>1
    <3>2. consumed[d] \in Int /\ a[d] = 0
      BY <1>8, <1>9, <3>1 DEF Amount
    <3>3. consumed'[d] = consumed[d] - a[d]
      BY <1>3, <3>1 DEF Minus
    <3>. QED BY <3>2, <3>3
  <2>3. Funded(consumed)
    BY DEF BudgetInv
  <2>. QED BY <2>2, <2>3, FundedLaws
<1>12. Accounts!AccountsNext
  BY <1>1, <1>3, <1>7, <1>10, Movements
<1>. QED BY <1>6, <1>11, <1>12 DEF StepKept

LEMMA SettleStep ==
  ASSUME BudgetInv, NEW c \in Calls, NEW s \in Spawns, NEW a \in Amounts \cup {Zero},
         Settle(c, s, a)
  PROVE  StepKept
<1>1. a \in Amount /\ LedgerInv
  BY BudgetAssumption, QuantityOps DEF BudgetInv
<1>2. /\ ~Settled(s) /\ Funded(a) /\ Leq(a, Net(log, s)) /\ consumed' = Plus(consumed, a)
  BY DEF Settle, MaySettle, MaySettleWith, Outstanding
<1>3. /\ LedgerInv'
      /\ HeldIn(log') = [HeldIn(log) EXCEPT ![s] = Zero]
      /\ SpentIn(log') = [SpentIn(log) EXCEPT ![s] = Plus(@, a)]
  BY <1>1, SettlementCall
<1>4. Moved(s, Zero, Plus(NetUse(log, s), a))
  BY <1>3 DEF Moved, HeldIn, SpentIn
<1>5. {t \in Spawns : Settled(t)}' = {t \in Spawns : Settled(t)} \cup {s}
  <2>1. \E new : new.spawn = s /\ settlements' = settlements \cup {new}
    BY DEF Settle
  <2>. QED BY <2>1 DEF Settled
<1>6. Funded(consumed')
  BY <1>1, <1>2, AccountFacts, FundedLaws DEF BudgetInv
<1>7. Accounts!AccountsNext
  BY <1>1, <1>2, <1>4, <1>5, Movements
<1>. QED BY <1>3, <1>6, <1>7 DEF StepKept

\* The rows of other components: the ledger does not change, and a settled
\* spawn stays completed.
LEMMA OtherStep ==
  ASSUME BudgetInv, UNCHANGED ledgerVars,
         \/ UNCHANGED <<stage, run>>
         \/ MoveRun
         \/ \E s \in Spawns : RecordIntent(s) \/ RecordAcceptance(s) \/ Complete(s)
  PROVE  StepKept
<1>1. LedgerInv
  BY DEF BudgetInv
<1>2. UNCHANGED <<log, settlements, reserved, consumed, usage>>
  BY DEF ledgerVars
<1>3. /\ stage' \in [Spawns -> Stage] /\ SettledIsCompleted'
      /\ run' \in {"candidate", "dispatched", "child_completed"}
  <2>1. CASE UNCHANGED <<stage, run>>
    BY <1>1, <1>2, <2>1 DEF LedgerInv, SettledIsCompleted
  <2>2. CASE MoveRun
    BY <1>1, <1>2, <2>2 DEF LedgerInv, SettledIsCompleted, MoveRun
  <2>3. ASSUME NEW s \in Spawns, RecordIntent(s) \/ RecordAcceptance(s) \/ Complete(s)
        PROVE  /\ stage' \in [Spawns -> Stage] /\ SettledIsCompleted'
               /\ run' \in {"candidate", "dispatched", "child_completed"}
    <3>1. /\ stage[s] # "completed" /\ run' = run
          /\ \E x \in Stage : stage' = [stage EXCEPT ![s] = x]
      BY <2>3 DEF RecordIntent, RecordAcceptance, Complete, Stage
    <3>. QED BY <1>1, <1>2, <3>1 DEF LedgerInv, SettledIsCompleted
  <2>. QED BY <2>1, <2>2, <2>3
<1>4. CountersInv'
  BY <1>1, <1>2 DEF LedgerInv, CountersInv, WithinLimit
<1>5. LinksAreKnown' /\ SourceCountedOnce' /\ SettlementIsExact' /\ CountersMatchLedger'
  BY <1>1, <1>2
  DEF LedgerInv, LinksAreKnown, SourceCountedOnce, SettlementIsExact, CountersMatchLedger,
      Outstanding
<1>6. LedgerInv'
  BY <1>1, <1>2, <1>3, <1>4, <1>5 DEF LedgerInv
<1>7. UNCHANGED Accounts!accountVars
  BY <1>2 DEF Accounts!accountVars, Outstanding, Settled
<1>. QED BY <1>2, <1>6, <1>7 DEF StepKept, BudgetInv

LEMMA StepIsKept ==
  ASSUME BudgetInv, [Next]_vars
  PROVE  StepKept
<1>1. ASSUME NEW c \in Calls, NEW s \in Spawns, NEW a \in Amounts,
             \/ Reserve(c, s, a) \/ Release(c, s, a) \/ Consume(c, s, a)
             \/ RetryDecrement(c, s, a) \/ RetryRestore(c, s, a) \/ HumanAttention(c, s, a)
      PROVE  StepKept
  BY <1>1, ReserveStep, ReleaseStep, ConsumeStep, UnitsStep, RestoreStep
  DEF RetryDecrement, HumanAttention
<1>2. ASSUME NEW c \in Calls, NEW s \in Spawns, ConsumeUnknown(c, s)
      PROVE  StepKept
  BY <1>2, UnknownStep
<1>3. ASSUME NEW c \in Calls, NEW s \in Spawns, NEW a \in Amounts \cup {Zero}, Settle(c, s, a)
      PROVE  StepKept
  BY <1>3, SettleStep
<1>4. ASSUME NEW s \in Spawns, RecordIntent(s) \/ RecordAcceptance(s) \/ Complete(s)
      PROVE  StepKept
  <2>1. UNCHANGED ledgerVars
    BY <1>4 DEF RecordIntent, RecordAcceptance, Complete
  <2>. QED BY <1>4, <2>1, OtherStep
<1>5. CASE MoveRun
  <2>1. UNCHANGED ledgerVars
    BY <1>5 DEF MoveRun
  <2>. QED BY <1>5, <2>1, OtherStep
<1>6. CASE UNCHANGED vars
  <2>1. UNCHANGED ledgerVars /\ UNCHANGED <<stage, run>>
    BY <1>6 DEF vars
  <2>. QED BY <2>1, OtherStep
<1>. QED BY <1>1, <1>2, <1>3, <1>4, <1>5, <1>6 DEF Next

LEMMA InitAccounts ==
  ASSUME Init
  PROVE  Accounts!AccountsInit /\ BudgetInv
<1>1. \A s : Net(log, s) = Zero /\ NetUse(log, s) = Zero
  BY SumsOfNone DEF Init
<1>2. Accounts!AccountsInit
  BY <1>1, SameOperators DEF Accounts!AccountsInit, Outstanding, Settled, Init
<1>3. Facts!AccountsInv
  BY <1>1, SameAmounts, FundedLaws, QuantityOps
  DEF Facts!AccountsInv, Facts!AccountsFunded, Outstanding
<1>4. LedgerInv /\ Funded(consumed)
  BY InitLedger, FundedLaws DEF Init
<1>. QED BY <1>2, <1>3, <1>4 DEF BudgetInv

LEMMA StepKeepsBudget ==
  ASSUME BudgetInv, [Next]_vars
  PROVE  BudgetInv' /\ [Accounts!AccountsNext]_(Accounts!accountVars)
<1>1. StepKept
  BY StepIsKept
<1>2. Facts!AccountsInv'
  BY <1>1, AccountsKept DEF StepKept, BudgetInv
<1>. QED BY <1>1, <1>2 DEF StepKept, BudgetInv

-----------------------------------------------------------------------------
(* What holds in every state *)

\* The ledger is consistent after every call: the invariant the theorems
\* below read their properties off.
THEOREM LedgerIsConsistent == Spec => []BudgetInv
<1>1. Init => BudgetInv
  BY InitAccounts
<1>2. BudgetInv /\ [Next]_vars => BudgetInv'
  BY StepKeepsBudget
<1>. QED BY <1>1, <1>2, PTL DEF Spec

\* Rows, counters, confidence and states of the ledger keep their types.
THEOREM LedgerIsTyped == Spec => []TypeOK
<1>1. BudgetInv => TypeOK
  <2>. SUFFICES ASSUME BudgetInv
                PROVE  TypeOK
    OBVIOUS
  <2>1. \A i \in DOMAIN log : log[i] \in Entries
    BY DEF BudgetInv, LedgerInv
  <2>2. \A t \in settlements :
          t.spawn \in Spawns /\ t.actual \in Amount /\ t.released \in Amount
    BY DEF BudgetInv, LedgerInv, Settlements
  <2>3. \A i \in DOMAIN log :
          /\ log[i].type \in PreDispatch \cup PostDispatch /\ log[i].spawn \in Spawns
          /\ log[i].amounts \in Amount /\ log[i].confidence \in Confidence
    BY <2>1 DEF Entries, EventTypes
  <2>. QED BY <2>2, <2>3 DEF BudgetInv, LedgerInv, CountersInv, TypeOK
<1>. QED BY <1>1, LedgerIsConsistent, PTL

\* The counters of the run are what its ledger adds up to, after any calls.
THEOREM CountersAreTheLedger == Spec => []CountersMatchLedger
<1>1. BudgetInv => CountersMatchLedger
  BY DEF BudgetInv, LedgerInv
<1>. QED BY <1>1, LedgerIsConsistent, PTL

\* Whatever tokens cost, every reservation, every spawn's use and the use of
\* the run as a whole pay for their tokens.
THEOREM CostStaysCovered == Spec => []CostCovered
<1>1. BudgetInv => CostCovered
  <2>. SUFFICES ASSUME BudgetInv, NEW s \in Spawns
                PROVE  Funded(Net(log, s)) /\ Funded(NetUse(log, s)) /\ Funded(consumed)
    BY SameOperators DEF CostCovered, Accounts!AccountsFunded, Outstanding, BudgetInv
  <2>. QED BY AccountFacts DEF BudgetInv
<1>. QED BY <1>1, LedgerIsConsistent, PTL

\* The tokens of an amount at their exact prices, which are per million.
PaysFor(a) == 1000000 * a["cost"] >= a["input"] * PriceIn + a["output"] * PriceOut

LEMMA RoundedUpPays ==
  ASSUME NEW x \in Nat, NEW y \in Nat, NEW cost \in Nat,
         cost >= ((x + 999999) \div 1000000) + ((y + 999999) \div 1000000)
  PROVE  1000000 * cost >= x + y
BY SMT

LEMMA FundedPays ==
  ASSUME NEW a \in Amount, Funded(a)
  PROVE  PaysFor(a)
<1>. DEFINE x == a["input"] * PriceIn
            y == a["output"] * PriceOut
<1>1. a["input"] \in Nat /\ a["output"] \in Nat /\ a["cost"] \in Nat
  BY SMT DEF Amount, Dims
<1>2. x \in Nat /\ y \in Nat
  BY ONLY SMT, <1>1, PriceAssumption DEF PriceAssumption
<1>3. a["cost"] >= ((x + 999999) \div 1000000) + ((y + 999999) \div 1000000)
  BY SMT DEF Funded, RequiredCost, RoundedUp
<1>. HIDE DEF x, y
<1>4. 1000000 * a["cost"] >= x + y
  BY ONLY SMT, <1>1, <1>2, <1>3, RoundedUpPays
<1>. QED BY ONLY SMT, <1>4 DEF PaysFor, x, y

\* Although every call rounds the tokens it knows of on its own, the cost that
\* is recorded, and the cost that is held, is never below the exact price of
\* all tokens together: for the run, and for each of its spawns.
THEOREM TokensArePaidFor ==
  Spec => [](/\ PaysFor(consumed)
             /\ \A s \in Spawns : PaysFor(Outstanding(s)) /\ PaysFor(NetUse(log, s)))
<1>1. ASSUME BudgetInv
      PROVE  /\ PaysFor(consumed)
             /\ \A s \in Spawns : PaysFor(Outstanding(s)) /\ PaysFor(NetUse(log, s))
  <2>1. consumed \in Amount /\ Funded(consumed)
    BY <1>1 DEF BudgetInv, LedgerInv, CountersInv
  <2>2. ASSUME NEW s \in Spawns
        PROVE  PaysFor(Outstanding(s)) /\ PaysFor(NetUse(log, s))
    BY ONLY <1>1, s \in Spawns, AccountFacts, FundedPays DEF Outstanding
  <2>. QED BY ONLY <2>1, <2>2, FundedPays
<1>. QED BY <1>1, LedgerIsConsistent, PTL

\* No source of usage is counted twice, be it as an event of a client, as a
\* settlement or as an event of one.
THEOREM SourcesCountOnce == Spec => []SourceCountedOnce
<1>1. BudgetInv => SourceCountedOnce
  BY DEF BudgetInv, LedgerInv
<1>. QED BY <1>1, LedgerIsConsistent, PTL

\* A settled spawn holds nothing any more, and the events of its settlement
\* add up to what was used and what was given back.
THEOREM SettlementsStayExact == Spec => []SettlementIsExact
<1>1. BudgetInv => SettlementIsExact
  BY DEF BudgetInv, LedgerInv
<1>. QED BY <1>1, LedgerIsConsistent, PTL

\* Each call of the ledger is one movement of one spawn's account, or none.
THEOREM LedgerImplementsAccounts == Spec => ImplementsAccounts
<1>1. Init => Accounts!AccountsInit
  BY InitAccounts
<1>2. BudgetInv /\ [Next]_vars => [Accounts!AccountsNext]_(Accounts!accountVars)
  BY StepKeepsBudget
<1>. QED
  BY <1>1, <1>2, LedgerIsConsistent, PTL DEF Spec, ImplementsAccounts, Accounts!AccountsSpec

\* However calls interleave, what is reserved and what is consumed never
\* exceed the budget of the run together.
THEOREM BudgetIsNeverExceeded == Spec => []WithinLimit
<1>1. Init => CountersInv
  BY InitCounters
<1>2. CountersInv /\ [Next]_vars => CountersInv'
  BY StepKeepsInv
<1>3. CountersInv => WithinLimit
  BY DEF CountersInv
<1>. QED BY <1>1, <1>2, <1>3, PTL DEF Spec

\* Once usage is unknown, no call of the budget ledger changes it.
THEOREM UnknownUsageFreezes == Spec => UnknownFreezesRun
<1>1. ASSUME usage = "unknown", [Next]_vars
      PROVE  UNCHANGED ledgerVars
  <2>1. ASSUME NEW c \in Calls, NEW s \in Spawns, MayRecord(c, s) \/ MaySettle(c, s)
        PROVE  FALSE
    BY <1>1, <2>1 DEF MayRecord, MaySettle, Unpoisoned
  <2>2. ASSUME NEW c \in Calls, NEW s \in Spawns, NEW a, Reserve(c, s, a) \/ Release(c, s, a)
        PROVE  FALSE
    BY <1>1, <2>2 DEF Reserve, Release
  <2>3. ASSUME NEW c \in Calls, NEW s \in Spawns, NEW a,
               \/ Consume(c, s, a) \/ RetryDecrement(c, s, a) \/ HumanAttention(c, s, a)
               \/ RetryRestore(c, s, a) \/ ConsumeUnknown(c, s)
        PROVE  FALSE
    BY <2>1, <2>3
    DEF Consume, RetryDecrement, HumanAttention, UseUnits, RetryRestore, ConsumeUnknown
  <2>4. ASSUME NEW c \in Calls, NEW s \in Spawns, NEW a, Settle(c, s, a)
        PROVE  FALSE
    BY <2>1, <2>4 DEF Settle
  <2>5. ASSUME NEW s \in Spawns, RecordIntent(s) \/ RecordAcceptance(s) \/ Complete(s)
        PROVE  UNCHANGED ledgerVars
    BY <2>5 DEF RecordIntent, RecordAcceptance, Complete
  <2>6. CASE MoveRun
    BY <2>6 DEF MoveRun
  <2>7. CASE UNCHANGED vars
    BY <2>7 DEF vars
  <2>. QED BY <1>1, <2>2, <2>3, <2>4, <2>5, <2>6, <2>7 DEF Next
<1>2. [Next]_vars => [usage = "unknown" => UNCHANGED ledgerVars]_vars
  BY <1>1
<1>. QED BY <1>2, PTL DEF Spec, UnknownFreezesRun
=============================================================================
