----------------------------- MODULE UnspentsProofs -----------------------------
(***************************************************************************)
(* Proofs about Unspents, for every list of addresses, page size and set of   *)
(* outputs: each address is asked for once and no request is empty or too    *)
(* long; one cheap output of an address is kept back; and the balance of an  *)
(* address listed once is that of one moment, though the node's outputs      *)
(* change between two pages.                                                *)
(*                                                                         *)
(* The sums are recursive functions, over the places of a list and over the  *)
(* sets of outputs.  Each is shown to exist, by induction (RecursionExists,  *)
(* AmountsExist), and what it computes by another (NatSetInduction).         *)
(***************************************************************************)
EXTENDS Unspents, FiniteSetTheorems, WellFoundedInduction, TLAPS

\* A list has its addresses on the pages 0 to n \div l of l addresses each.
LEMMA DivBounds ==
    ASSUME NEW n \in Nat, NEW l \in Nat \ {0}
    PROVE  /\ n \div l \in Nat
           /\ (n \div l) * l <= n
           /\ n < (n \div l + 1) * l
BY Z3

\* A page further is one page's addresses further.
LEMMA NextPage ==
    ASSUME NEW j \in Nat, NEW l \in Nat \ {0}
    PROVE  j * l \in Nat /\ (j + 1) * l = j * l + l
BY Z3

LEMMA PageOrder ==
    ASSUME NEW j \in Nat, NEW k \in Nat, j <= k, NEW l \in Nat \ {0}
    PROVE  j * l <= k * l
BY Z3

-------------------------------------------------------------------------------
(* The inductive invariant: what has been asked for is the pages before i.   *)

PageInv ==
    /\ pc \in {"idle", "page", "done", "error"}
    /\ i \in Nat
    /\ Len(addresses) \in Nat
    /\ asked \in [1..Len(addresses) -> Nat]
    /\ request \in 1..Limit
    /\ pc = "idle" => i = 0
    /\ pc = "done" => i > Step
    /\ pc \in {"page", "done"} =>
          \A k \in 1..Len(addresses) : asked[k] = IF k <= i * Limit THEN 1 ELSE 0

\* The page lies within the list.
LEMMA PageBounds ==
    ASSUME PageInv, InPage
    PROVE  /\ Begin \in 0..Len(addresses) /\ End \in Begin..Len(addresses)
           /\ End - Begin <= Limit
           /\ (i + 1) * Limit = Begin + Limit
           /\ End = IF Begin + Limit > Len(addresses) THEN Len(addresses) ELSE Begin + Limit
<1>1. PICK n \in Nat, l \in Nat \ {0}, j \in Nat : n = Len(addresses) /\ l = Limit /\ j = i
  BY UnspentsAssumption DEF UnspentsAssumption, PageInv
<1>2. j <= n \div l
  BY <1>1 DEF InPage, Step
<1>3. (n \div l) * l <= n /\ n \div l \in Nat
  BY DivBounds
<1>4. j * l <= (n \div l) * l
  BY <1>2, <1>3, PageOrder
<1>5. j * l \in Nat /\ (j + 1) * l = j * l + l
  BY NextPage
<1>6. (n \div l) * l \in Nat
  BY <1>3, NextPage
<1>7. j * l <= n
  BY <1>3, <1>4, <1>5, <1>6
<1> QED
  BY <1>1, <1>5, <1>7 DEF Begin, End, EndOf

LEMMA PageEstablishes ==
    ASSUME Init
    PROVE  PageInv
BY UnspentsAssumption DEF UnspentsAssumption, Init, PageInv

LEMMA CallPages ==
    ASSUME PageInv, NEW s \in AddressLists, NEW m \in {0, 1}, Call(s, m)
    PROVE  PageInv'
<1>1. Len(s) \in Nat /\ Limit \in Nat
  BY UnspentsAssumption DEF UnspentsAssumption
<1>2. i' = 0 /\ i' * Limit = 0
  BY <1>1 DEF Call, PageInv
<1> QED
  BY <1>1, <1>2 DEF Call, PageInv

LEMMA SkipPages ==
    ASSUME PageInv, SkipPage
    PROVE  PageInv'
<1>1. /\ i' = i + 1 /\ UNCHANGED <<pc, addresses, asked, request>> /\ InPage /\ Begin = End
  BY DEF SkipPage, EmptyPage
<1>2. /\ Begin \in 0..Len(addresses) /\ (i + 1) * Limit = Begin + Limit
      /\ End = IF Begin + Limit > Len(addresses) THEN Len(addresses) ELSE Begin + Limit
  BY <1>1, PageBounds
<1>3. Len(addresses) \in Nat /\ Limit \in Nat \ {0} /\ pc = "page"
  BY <1>1, UnspentsAssumption DEF UnspentsAssumption, PageInv, InPage
<1>4. Begin = Len(addresses)
  BY <1>1, <1>2, <1>3
<1>5. \A k \in 1..Len(addresses) : k <= i * Limit /\ k <= i' * Limit
  BY <1>1, <1>2, <1>3, <1>4 DEF Begin
<1> QED
  BY <1>1, <1>3, <1>5 DEF PageInv

LEMMA AskPages ==
    ASSUME PageInv, AskPage
    PROVE  PageInv'
<1>1. /\ i' = i + 1 /\ UNCHANGED <<pc, addresses>> /\ InPage /\ Begin # End
      /\ asked' = [k \in DOMAIN asked |->
                      asked[k] + (IF k \in (Begin + 1)..End THEN 1 ELSE 0)]
      /\ request' = End - Begin
  BY DEF AskPage, EmptyPage
<1>2. /\ Begin \in 0..Len(addresses) /\ End \in Begin..Len(addresses)
      /\ End - Begin <= Limit /\ (i + 1) * Limit = Begin + Limit
      /\ End = IF Begin + Limit > Len(addresses) THEN Len(addresses) ELSE Begin + Limit
  BY <1>1, PageBounds
<1>3. Len(addresses) \in Nat /\ Limit \in Nat \ {0} /\ pc = "page"
  BY <1>1, UnspentsAssumption DEF UnspentsAssumption, PageInv, InPage
<1>4. DOMAIN asked = 1..Len(addresses) /\ asked' \in [1..Len(addresses) -> Nat]
  BY <1>1 DEF PageInv
<1>5. ASSUME NEW k \in 1..Len(addresses)
      PROVE  asked'[k] = IF k <= i' * Limit THEN 1 ELSE 0
  <2>1. asked'[k] = asked[k] + (IF k \in (Begin + 1)..End THEN 1 ELSE 0)
    BY <1>1, <1>4
  <2>2. asked[k] = IF k <= Begin THEN 1 ELSE 0
    BY <1>3 DEF PageInv, Begin
  <2>3. k <= i' * Limit <=> k <= End
    BY <1>1, <1>2, <1>3
  <2> QED
    BY <1>2, <1>3, <2>1, <2>2, <2>3
<1>6. request' \in 1..Limit
  BY <1>1, <1>2, <1>3
<1> QED
  BY <1>1, <1>3, <1>4, <1>5, <1>6 DEF PageInv

LEMMA PagePreserves ==
    ASSUME PageInv, [Next]_vars
    PROVE  PageInv'
<1>1. CASE NodeMoves \/ PageFails \/ LastPage \/ UNCHANGED vars
  <2>1. UNCHANGED <<i, addresses, asked, request>>
    BY <1>1 DEF NodeMoves, PageFails, LastPage, vars, callVars
  <2>2. /\ pc' = pc \/ (pc = "page" /\ pc' = "error") \/ (pc = "page" /\ pc' = "done" /\ i > Step)
    BY <1>1 DEF NodeMoves, PageFails, LastPage, InPage, vars, callVars
  <2> QED
    BY <2>1, <2>2 DEF PageInv, Step
<1> QED
  BY <1>1, CallPages, SkipPages, AskPages DEF Next

\* When the pages are at an end, every place of the list is before the next.
LEMMA AllReached ==
    ASSUME PageInv, pc = "done", NEW k \in 1..Len(addresses)
    PROVE  k <= i * Limit
<1>1. PICK n \in Nat, l \in Nat \ {0}, j \in Nat : n = Len(addresses) /\ l = Limit /\ j = i
  BY UnspentsAssumption DEF UnspentsAssumption, PageInv
<1>2. n \div l + 1 <= j /\ n \div l \in Nat /\ n < (n \div l + 1) * l
  BY <1>1, DivBounds DEF PageInv, Step
<1>3. (n \div l + 1) * l <= j * l
  BY <1>2, PageOrder
<1>4. j * l \in Nat /\ (n \div l + 1) * l \in Nat
  BY <1>2, NextPage
<1>5. k <= j * l
  BY <1>1, <1>2, <1>3, <1>4
<1> QED
  BY <1>1, <1>5

\* However many addresses there are and however large a page is, each of them is
\* asked for once and no request is empty or longer than a page.
THEOREM EachAskedOnce == Spec => []AskedOnce
<1>1. Init => PageInv
  BY PageEstablishes
<1>2. PageInv /\ [Next]_vars => PageInv'
  BY PagePreserves
<1>3. PageInv => AskedOnce
  <2> SUFFICES ASSUME PageInv, pc = "done", NEW k \in 1..Len(addresses)
               PROVE  asked[k] = 1
    BY DEF AskedOnce, PageInv
  <2>1. k <= i * Limit
    BY AllReached
  <2> QED
    BY <2>1 DEF PageInv
<1> QED
  BY <1>1, <1>2, <1>3, PTL DEF Spec

-------------------------------------------------------------------------------
(* Induction and recursion over the places of a list.                      *)

\* A set of naturals has a least member.
LEMMA LeastNat ==
    ASSUME NEW T, T \subseteq Nat, T # {}
    PROVE  \E m \in T : \A n \in T : m <= n
<1>. DEFINE R == OpToRel(<, Nat)
<1>1. IsWellFoundedOn(R, Nat)
  BY NatLessThanWellFounded
<1>2. \A x, y \in Nat : x < y => <<x, y>> \in R
  BY DEF OpToRel
<1>. HIDE DEF R
<1>3. PICK m \in T : \A y \in T : ~ (<<y, m>> \in R)
  BY <1>1, WFMin
<1>4. ASSUME NEW n \in T PROVE m <= n
  <2>1. m \in Nat /\ n \in Nat
    OBVIOUS
  <2>2. ~(n < m)
    BY <1>2, <1>3, <2>1
  <2> QED
    BY <2>1, <2>2
<1> QED
  BY <1>4

\* Induction, for a set in the place of a predicate.
LEMMA NatSetInduction ==
    ASSUME NEW S, 0 \in S, \A n \in Nat : n \in S => n + 1 \in S
    PROVE  Nat \subseteq S
<1>. DEFINE T == {n \in Nat : n \notin S}
<1>1. SUFFICES ASSUME T # {} PROVE FALSE
  OBVIOUS
<1>2. PICK m \in T : \A n \in T : m <= n
  BY <1>1, LeastNat
<1>3. m # 0 /\ m - 1 \in Nat /\ m - 1 \notin T
  BY <1>2
<1> QED
  BY <1>2, <1>3

\* A function may be defined by recursion on the places of a sequence: F[k][v] is its
\* value at k, given that it is v at the place before.
Recursive(f, n, first, F) ==
    f = [k \in 0..n |-> IF k = 0 THEN first ELSE F[k][f[k - 1]]]

LEMMA RecursionExists ==
    ASSUME NEW n \in Nat, NEW V, NEW first \in V, NEW F \in [1..n -> [V -> V]]
    PROVE  \E f \in [0..n -> V] : Recursive(f, n, first, F)
<1>. DEFINE Ok == {m \in Nat : m <= n =>
                        \E f \in [0..m -> V] :
                            f = [k \in 0..m |-> IF k = 0 THEN first ELSE F[k][f[k - 1]]]}
<1>1. 0 \in Ok
  <2>. DEFINE g == [k \in 0..0 |-> first]
  <2>1. g \in [0..0 -> V] /\ g = [k \in 0..0 |-> IF k = 0 THEN first ELSE F[k][g[k - 1]]]
    OBVIOUS
  <2> QED
    BY <2>1
<1>2. ASSUME NEW m \in Nat, m \in Ok PROVE m + 1 \in Ok
  <2> SUFFICES ASSUME m + 1 <= n
               PROVE  \E f \in [0..(m + 1) -> V] :
                          f = [k \in 0..(m + 1) |-> IF k = 0 THEN first ELSE F[k][f[k - 1]]]
    OBVIOUS
  <2>1. PICK h \in [0..m -> V] : h = [k \in 0..m |-> IF k = 0 THEN first ELSE F[k][h[k - 1]]]
    BY <1>2
  <2>2. m + 1 \in 1..n /\ F[m + 1][h[m]] \in V
    OBVIOUS
  <2>. DEFINE g == [k \in 0..(m + 1) |-> IF k = m + 1 THEN F[m + 1][h[m]] ELSE h[k]]
  <2>3. g \in [0..(m + 1) -> V]
    BY <2>2
  <2>4. ASSUME NEW k \in 0..(m + 1)
        PROVE  g[k] = IF k = 0 THEN first ELSE F[k][g[k - 1]]
    <3>1. CASE k = m + 1
      BY <2>2, <3>1
    <3>2. CASE k # m + 1
      <4>1. k \in 0..m /\ (k # 0 => k - 1 \in 0..m /\ k - 1 # m + 1)
        BY <3>2
      <4>2. g[k] = h[k] /\ (k # 0 => g[k - 1] = h[k - 1])
        BY <3>2, <4>1
      <4>3. h[k] = IF k = 0 THEN first ELSE F[k][h[k - 1]]
        BY <2>1, <4>1
      <4> QED
        BY <4>2, <4>3
    <3> QED
      BY <3>1, <3>2
  <2>. HIDE DEF g
  <2>5. g = [k \in 0..(m + 1) |-> IF k = 0 THEN first ELSE F[k][g[k - 1]]]
    BY <2>3, <2>4
  <2> QED
    BY <2>3, <2>5
<1>. HIDE DEF Ok
<1>3. n \in Ok
  BY <1>1, <1>2, NatSetInduction
<1> QED
  BY <1>3 DEF Ok, Recursive

-------------------------------------------------------------------------------
(* What is listed.                                                         *)

Listing == [out : Output, conf : BOOLEAN]

ListInv ==
    /\ unspent \in SUBSET Output
    /\ utxo \in Seq(Listing)

\* An order of what the node lists is a list.
LEMMA OrderType ==
    ASSUME unspent \in SUBSET Output, NEW S \in SUBSET unspent, NEW f \in Orders(S)
    PROVE  /\ IsFiniteSet(S) /\ Cardinality(S) \in Nat
           /\ f \in [1..Cardinality(S) -> S]
           /\ WithConfirmations(f) \in Seq(Listing)
           /\ Len(WithConfirmations(f)) = Cardinality(S)
<1>1. IsFiniteSet(S) /\ Cardinality(S) \in Nat
  BY UnspentsAssumption, FS_Subset, FS_CardinalityType DEF UnspentsAssumption
<1>2. f \in [1..Cardinality(S) -> S]
  BY DEF Orders
<1>3. WithConfirmations(f) \in [1..Cardinality(S) -> Listing]
  BY <1>2 DEF WithConfirmations, Listing
<1> QED
  BY <1>1, <1>2, <1>3

LEMMA ListHolds ==
    Spec => []ListInv
<1>1. Init => ListInv
  BY DEF Init, ListInv
<1>2. ASSUME ListInv, [Next]_vars PROVE ListInv'
  <2>1. CASE NodeMoves
    BY <1>2, <2>1 DEF NodeMoves, Transact, Confirm, ListInv, callVars
  <2>2. CASE AskPage
    <3>1. PICK f \in Orders(Listed({addresses[k] : k \in (Begin + 1)..End})) :
              utxo' = Collect(WithConfirmations(f))
      BY <2>2 DEF AskPage
    <3>2. Listed({addresses[k] : k \in (Begin + 1)..End}) \in SUBSET unspent
      BY DEF Listed
    <3>3. WithConfirmations(f) \in Seq(Listing)
      BY <1>2, <3>1, <3>2, OrderType DEF ListInv
    <3>4. utxo' \in Seq(Listing)
      BY <1>2, <3>1, <3>3 DEF ListInv, Collect
    <3> QED
      BY <1>2, <2>2, <3>4 DEF AskPage, nodeVars, ListInv
  <2>3. CASE PageFails
    BY <1>2, <2>3 DEF PageFails, nodeVars, ListInv
  <2>4. CASE \E s \in AddressLists, m \in {0, 1} : Call(s, m)
    BY <1>2, <2>4 DEF Call, nodeVars, ListInv
  <2>5. CASE SkipPage \/ LastPage \/ UNCHANGED vars
    BY <1>2, <2>5 DEF SkipPage, LastPage, vars, nodeVars, callVars, ListInv
  <2> QED
    BY <1>2, <2>1, <2>2, <2>3, <2>4, <2>5 DEF Next
<1> QED
  BY <1>1, <1>2, PTL DEF Spec

-------------------------------------------------------------------------------
(* What is kept back of a list.                                            *)

AddressesOf(s, S) == {s[j].out.address : j \in S}

KeptStep(s, k, S) == IF KeepBack(s[k], AddressesOf(s, S)) THEN S \union {k} ELSE S

Kept(s) ==
    CHOOSE kept : kept = [k \in 0..Len(s) |->
        IF k = 0 THEN {} ELSE KeptStep(s, k, kept[k - 1])]

LEMMA KeptEquation ==
    ASSUME NEW s \in Seq(Listing)
    PROVE  /\ Kept(s) = [k \in 0..Len(s) |->
                  IF k = 0 THEN {} ELSE KeptStep(s, k, Kept(s)[k - 1])]
           /\ KeepOmniCost(s) = IF OmniSupport THEN Kept(s)[Len(s)] ELSE {}
<1>. DEFINE n == Len(s)
            F == [k \in 1..n |-> [S \in SUBSET Nat |-> KeptStep(s, k, S)]]
<1>1. n \in Nat
  OBVIOUS
<1>2. F \in [1..n -> [SUBSET Nat -> SUBSET Nat]]
  <2>1. ASSUME NEW k \in 1..n, NEW S \in SUBSET Nat
        PROVE  KeptStep(s, k, S) \in SUBSET Nat
    BY <1>1, <2>1 DEF KeptStep
  <2> QED
    BY <2>1
<1>3. PICK f \in [0..n -> SUBSET Nat] : Recursive(f, n, {}, F)
  BY <1>1, <1>2, RecursionExists
<1>4. f = [k \in 0..n |-> IF k = 0 THEN {} ELSE KeptStep(s, k, f[k - 1])]
  <2>1. ASSUME NEW k \in 0..n
        PROVE  f[k] = IF k = 0 THEN {} ELSE KeptStep(s, k, f[k - 1])
    <3>1. CASE k = 0
      BY <1>3, <3>1 DEF Recursive
    <3>2. CASE k # 0
      <4>1. k \in 1..n /\ f[k - 1] \in SUBSET Nat
        BY <3>2
      <4>2. f[k] = F[k][f[k - 1]]
        BY <1>3, <3>2 DEF Recursive
      <4> QED
        BY <3>2, <4>1, <4>2
    <3> QED
      BY <3>1, <3>2
  <2> QED
    BY <2>1
<1>5. Kept(s) = CHOOSE g : g = [k \in 0..n |-> IF k = 0 THEN {} ELSE KeptStep(s, k, g[k - 1])]
  BY DEF Kept
<1>6. KeepOmniCost(s) = IF OmniSupport THEN Kept(s)[n] ELSE {}
  BY DEF KeepOmniCost, Kept, KeptStep, AddressesOf
<1> QED
  BY <1>4, <1>5, <1>6

\* What is kept back of the first m: cheap outputs, one for each address that has
\* any.
OneOfEach(s, m, S) ==
    /\ S \subseteq {k \in 1..m : Cheap(s[k])}
    /\ \A j, k \in S : s[j].out.address = s[k].out.address => j = k
    /\ \A k \in 1..m : Cheap(s[k]) => \E j \in S : s[j].out.address = s[k].out.address

LEMMA KeptOneOfEach ==
    ASSUME NEW s \in Seq(Listing)
    PROVE  OneOfEach(s, Len(s), Kept(s)[Len(s)])
<1>. DEFINE n == Len(s)
            Ok == {m \in Nat : m <= n => OneOfEach(s, m, Kept(s)[m])}
<1>1. n \in Nat
  OBVIOUS
<1>2. 0 \in Ok
  <2>1. Kept(s)[0] = {}
    BY <1>1, KeptEquation
  <2> QED
    BY <2>1 DEF OneOfEach
<1>3. ASSUME NEW m \in Nat, m \in Ok PROVE m + 1 \in Ok
  <2> SUFFICES ASSUME m + 1 <= n PROVE OneOfEach(s, m + 1, Kept(s)[m + 1])
    OBVIOUS
  <2>. DEFINE S == Kept(s)[m]
  <2>0. 1..(m + 1) = 1..m \union {m + 1}
    OBVIOUS
  <2>1. OneOfEach(s, m, S)
    BY <1>1, <1>3
  <2>2. Kept(s)[m + 1] = KeptStep(s, m + 1, S)
    BY <1>1, KeptEquation
  <2>. HIDE DEF S
  <2>3. CASE KeepBack(s[m + 1], AddressesOf(s, S))
    <3>1. Kept(s)[m + 1] = S \union {m + 1}
      BY <2>2, <2>3 DEF KeptStep
    <3>2. Cheap(s[m + 1]) /\ \A j \in S : s[j].out.address # s[m + 1].out.address
      BY <2>3 DEF KeepBack, AddressesOf
    <3> QED
      BY <2>1, <2>0, <3>1, <3>2, Zenon DEF OneOfEach
  <2>4. CASE ~KeepBack(s[m + 1], AddressesOf(s, S))
    <3>1. Kept(s)[m + 1] = S
      BY <2>2, <2>4 DEF KeptStep
    <3>2. Cheap(s[m + 1]) => \E j \in S : s[j].out.address = s[m + 1].out.address
      BY <2>4 DEF KeepBack, AddressesOf
    <3> QED
      BY <2>1, <2>0, <3>1, <3>2, Zenon DEF OneOfEach
  <2> QED
    BY <2>3, <2>4
<1> QED
  <2>. HIDE DEF Ok
  <2>1. n \in Ok
    BY <1>1, <1>2, <1>3, NatSetInduction
  <2> QED
    BY <2>1 DEF Ok

\* keepOmniCostUTXONotToUse keeps one output back of each address that has any
\* which are not confirmed and worth the cost of a token transfer or less, and
\* nothing else, in whatever order the node lists them.
THEOREM OneKeptBack ==
    Spec => []KeepsOneBack
<1>1. ListInv => KeepsOneBack
  <2> SUFFICES ASSUME ListInv PROVE KeepsOneBack
    OBVIOUS
  <2>. DEFINE kept == KeepOmniCost(utxo)
  <2>1. CASE OmniSupport
    <3>1. kept = Kept(utxo)[Len(utxo)]
      BY <2>1, KeptEquation DEF ListInv
    <3>2. OneOfEach(utxo, Len(utxo), kept)
      BY <3>1, KeptOneOfEach DEF ListInv
    <3>. HIDE DEF kept
    <3> QED
      BY <3>2 DEF KeepsOneBack, OneOfEach, kept
  <2>2. CASE ~OmniSupport
    <3>1. kept = {}
      BY <2>2, KeptEquation DEF ListInv
    <3> QED
      BY <2>2, <3>1 DEF KeepsOneBack
  <2> QED
    BY <2>1, <2>2
<1> QED
  BY <1>1, ListHolds, PTL

-------------------------------------------------------------------------------
(* What a set of outputs amounts to.                                       *)

AnyOf(S) == CHOOSE o \in S : TRUE

Amounts(f, D) ==
    f = [S \in D |-> IF S = {} THEN 0 ELSE AnyOf(S).amount + f[S \ {AnyOf(S)}]]

SetsUpTo(U, n) == {S \in SUBSET U : Cardinality(S) <= n}

\* The sets of outputs, by how many they are.
LEMMA SetSizes ==
    ASSUME NEW U \in SUBSET Output
    PROVE  /\ IsFiniteSet(U) /\ Cardinality(U) \in Nat
           /\ \A S \in SUBSET U : /\ Cardinality(S) \in Nat
                                  /\ Cardinality(S) <= Cardinality(U)
                                  /\ \A x \in S : Cardinality(S \ {x}) = Cardinality(S) - 1
                                  /\ Cardinality(S) = 0 <=> S = {}
                                  /\ S # {} => AnyOf(S) \in S /\ AnyOf(S).amount \in Nat
<1>1. /\ IsFiniteSet(U) /\ Cardinality(U) \in Nat
      /\ \A S \in SUBSET U : IsFiniteSet(S) /\ Cardinality(S) \in Nat
                             /\ Cardinality(S) <= Cardinality(U)
  BY UnspentsAssumption, FS_Subset, FS_CardinalityType DEF UnspentsAssumption
<1>2. \A S \in SUBSET U : \A x \in S : Cardinality(S \ {x}) = Cardinality(S) - 1
  BY <1>1, FS_RemoveElement
<1>3. \A S \in SUBSET U : Cardinality(S) = 0 <=> S = {}
  BY <1>1, FS_EmptySet
<1>4. \A S \in SUBSET U : S # {} => AnyOf(S) \in S /\ AnyOf(S).amount \in Nat
  BY UnspentsAssumption DEF UnspentsAssumption, AnyOf
<1> QED
  BY <1>1, <1>2, <1>3, <1>4

LEMMA SetsSmaller ==
    ASSUME NEW U \in SUBSET Output
    PROVE  /\ SetsUpTo(U, 0) = {{}}
           /\ SetsUpTo(U, Cardinality(U)) = SUBSET U
           /\ \A n \in Nat : \A S \in SetsUpTo(U, n + 1) :
                 S \in SUBSET U /\ \A x \in S : S \ {x} \in SetsUpTo(U, n)
<1>1. SetsUpTo(U, 0) = {{}}
  <2>1. \A S \in SUBSET U : Cardinality(S) <= 0 <=> S = {}
    <3> TAKE S \in SUBSET U
    <3>1. Cardinality(S) \in Nat /\ (Cardinality(S) = 0 <=> S = {})
      BY SetSizes
    <3> QED
      BY <3>1
  <2> QED
    BY <2>1 DEF SetsUpTo
<1>2. SetsUpTo(U, Cardinality(U)) = SUBSET U
  BY SetSizes DEF SetsUpTo
<1>3. ASSUME NEW n \in Nat, NEW S \in SetsUpTo(U, n + 1), NEW x \in S
      PROVE  S \ {x} \in SetsUpTo(U, n)
  <2>1. S \in SUBSET U /\ Cardinality(S) <= n + 1
    BY DEF SetsUpTo
  <2>2. Cardinality(S \ {x}) = Cardinality(S) - 1 /\ Cardinality(S) \in Nat
    BY <2>1, SetSizes
  <2>3. Cardinality(S \ {x}) <= n
    BY <2>1, <2>2
  <2> QED
    BY <2>1, <2>3 DEF SetsUpTo
<1>4. \A n \in Nat : \A S \in SetsUpTo(U, n + 1) : S \in SUBSET U
  BY DEF SetsUpTo
<1> QED
  BY <1>1, <1>2, <1>3, <1>4

\* The sum over the sets of outputs exists, by recursion on how many they are.
LEMMA AmountsExist ==
    ASSUME NEW U \in SUBSET Output
    PROVE  \E f \in [SUBSET U -> Nat] : Amounts(f, SUBSET U)
<1>. DEFINE Ok == {n \in Nat : \E f \in [SetsUpTo(U, n) -> Nat] : Amounts(f, SetsUpTo(U, n))}
<1>2. \A S \in SUBSET U : S # {} => AnyOf(S) \in S /\ AnyOf(S).amount \in Nat
  BY SetSizes
<1>3. 0 \in Ok
  <2>1. SetsUpTo(U, 0) = {{}}
    BY SetsSmaller
  <2>. DEFINE g == [S \in SetsUpTo(U, 0) |-> 0]
  <2>2. g \in [SetsUpTo(U, 0) -> Nat] /\ Amounts(g, SetsUpTo(U, 0))
    BY <2>1 DEF Amounts
  <2> QED
    BY <2>2
<1>4. ASSUME NEW n \in Nat, n \in Ok PROVE n + 1 \in Ok
  <2>. DEFINE D == SetsUpTo(U, n)
              E == SetsUpTo(U, n + 1)
  <2>1. PICK h \in [D -> Nat] : Amounts(h, D)
    BY <1>4
  <2>2. D \subseteq E
    BY SetSizes DEF SetsUpTo
  <2>3. \A S \in E : S # {} => S \ {AnyOf(S)} \in D
    BY <1>2, SetsSmaller
  <2>. DEFINE g == [S \in E |-> IF S = {} THEN 0 ELSE AnyOf(S).amount + h[S \ {AnyOf(S)}]]
  <2>4. g \in [E -> Nat]
    <3>1. ASSUME NEW S \in E
          PROVE  (IF S = {} THEN 0 ELSE AnyOf(S).amount + h[S \ {AnyOf(S)}]) \in Nat
      <4>1. S \in SUBSET U
        BY DEF SetsUpTo
      <4>2. S # {} => h[S \ {AnyOf(S)}] \in Nat
        BY <2>1, <2>3
      <4>. HIDE DEF D, E
      <4> QED
        BY <1>2, <4>1, <4>2
    <3>. HIDE DEF D, E
    <3> QED
      BY <3>1
  <2>5. \A S \in D : g[S] = h[S]
    <3>. HIDE DEF D, E
    <3> QED
      BY <2>1, <2>2 DEF Amounts
  <2>6. Amounts(g, E)
    <3>1. \A S \in E : S # {} => g[S \ {AnyOf(S)}] = h[S \ {AnyOf(S)}]
      <4>. HIDE DEF g, D, E
      <4> QED
        BY <2>3, <2>5
    <3>2. g = [S \in E |-> IF S = {} THEN 0 ELSE AnyOf(S).amount + g[S \ {AnyOf(S)}]]
      <4>1. \A S \in E : g[S] = IF S = {} THEN 0 ELSE AnyOf(S).amount + g[S \ {AnyOf(S)}]
        <5>1. \A S \in E : g[S] = IF S = {} THEN 0 ELSE AnyOf(S).amount + h[S \ {AnyOf(S)}]
          OBVIOUS
        <5>. HIDE DEF g, D, E
        <5> QED
          BY <3>1, <5>1
      <4>. HIDE DEF g, D, E
      <4> QED
        BY <2>4, <4>1
    <3>. HIDE DEF g, D, E
    <3> QED
      BY <3>2 DEF Amounts
  <2>. HIDE DEF g, D
  <2> QED
    BY <2>4, <2>6
<1>. HIDE DEF Ok
<1>5. Cardinality(U) \in Ok
  BY <1>3, <1>4, SetSizes, NatSetInduction
<1>6. SetsUpTo(U, Cardinality(U)) = SUBSET U
  BY SetsSmaller
<1> QED
  BY <1>5, <1>6 DEF Ok

LEMMA AmountEquation ==
    ASSUME NEW U \in SUBSET Output
    PROVE  /\ AmountOver(U)[{}] = 0
           /\ \A S \in SUBSET U : AmountOver(U)[S] \in Nat
           /\ \A S \in SUBSET U : S # {} =>
                 AmountOver(U)[S] = AnyOf(S).amount + AmountOver(U)[S \ {AnyOf(S)}]
<1>. DEFINE f == AmountOver(U)
            Ok == {n \in Nat : \A S \in SetsUpTo(U, n) : f[S] \in Nat}
<1>1. f = CHOOSE g : Amounts(g, SUBSET U)
  BY DEF AmountOver, Amounts, AnyOf
<1>2. Amounts(f, SUBSET U)
  <2>. HIDE DEF f
  <2> QED
    BY <1>1, AmountsExist
<1>. HIDE DEF f
<1>3. /\ f[{}] = 0
      /\ \A S \in SUBSET U : S # {} => f[S] = AnyOf(S).amount + f[S \ {AnyOf(S)}]
  BY <1>2 DEF Amounts
<1>4. 0 \in Ok
  <2>1. SetsUpTo(U, 0) = {{}}
    BY SetsSmaller
  <2>2. f[{}] \in Nat
    BY <1>3
  <2> QED
    BY <2>1, <2>2
<1>5. ASSUME NEW n \in Nat, n \in Ok PROVE n + 1 \in Ok
  <2> SUFFICES ASSUME NEW S \in SetsUpTo(U, n + 1) PROVE f[S] \in Nat
    OBVIOUS
  <2>1. S \in SUBSET U
    BY SetsSmaller
  <2>2. CASE S = {}
    BY <1>3, <2>2
  <2>3. CASE S # {}
    <3>1. AnyOf(S) \in S /\ AnyOf(S).amount \in Nat
      BY <2>1, <2>3, SetSizes
    <3>2. S \ {AnyOf(S)} \in SetsUpTo(U, n)
      BY <3>1, SetsSmaller
    <3>3. f[S \ {AnyOf(S)}] \in Nat
      BY <1>5, <3>2
    <3>4. f[S] = AnyOf(S).amount + f[S \ {AnyOf(S)}]
      BY <1>3, <2>1, <2>3
    <3> QED
      BY <3>1, <3>3, <3>4
  <2> QED
    BY <2>2, <2>3
<1>. HIDE DEF Ok
<1>6. Nat \subseteq Ok
  BY <1>4, <1>5, NatSetInduction
<1>7. \A S \in SUBSET U : f[S] \in Nat
  BY <1>6, SetSizes, SetsSmaller DEF Ok
<1> QED
  BY <1>3, <1>7 DEF f

\* Another output adds its amount, in whatever order the set is gone through.
LEMMA AmountAdds ==
    ASSUME NEW U \in SUBSET Output, NEW S \in SUBSET U, NEW x \in U \ S
    PROVE  AmountOver(U)[S \union {x}] = AmountOver(U)[S] + x.amount
<1>. DEFINE f == AmountOver(U)
            Ok == {n \in Nat : \A T \in SetsUpTo(U, n) : \A y \in U \ T :
                                  f[T \union {y}] = f[T] + y.amount}
<1>1. /\ f[{}] = 0
      /\ \A T \in SUBSET U : f[T] \in Nat
      /\ \A T \in SUBSET U : T # {} => f[T] = AnyOf(T).amount + f[T \ {AnyOf(T)}]
  BY AmountEquation
<1>2. \A y \in U : y.amount \in Nat
  BY UnspentsAssumption DEF UnspentsAssumption
<1>. HIDE DEF f
<1>3. 0 \in Ok
  <2> SUFFICES ASSUME NEW y \in U PROVE f[{} \union {y}] = f[{}] + y.amount
    <3>1. SetsUpTo(U, 0) = {{}}
      BY SetsSmaller
    <3> QED
      BY <3>1
  <2>1. {y} \in SUBSET U /\ {y} # {} /\ AnyOf({y}) = y /\ {y} \ {y} = {} /\ {} \union {y} = {y}
    BY DEF AnyOf
  <2>2. f[{y}] = y.amount + f[{}]
    BY <1>1, <2>1
  <2> QED
    BY <1>1, <1>2, <2>1, <2>2
<1>4. ASSUME NEW n \in Nat, n \in Ok PROVE n + 1 \in Ok
  <2> SUFFICES ASSUME NEW T \in SetsUpTo(U, n + 1), NEW y \in U \ T
               PROVE  f[T \union {y}] = f[T] + y.amount
    OBVIOUS
  <2>. DEFINE V == T \union {y}
              o == AnyOf(V)
  <2>0. T \in SUBSET U
    BY SetsSmaller
  <2>1. T \in SUBSET U /\ V \in SUBSET U /\ V # {} /\ o \in V
    BY <2>0 DEF AnyOf
  <2>2. f[V] = o.amount + f[V \ {o}]
    BY <1>1, <2>1
  <2>3. CASE o = y
    <3>1. V \ {o} = T
      BY <2>3
    <3>2. f[V] = y.amount + f[T]
      <4>. HIDE DEF V, o
      <4> QED
        BY <2>2, <2>3, <3>1
    <3>3. f[T] \in Nat /\ y.amount \in Nat
      BY <1>1, <1>2, <2>1
    <3>4. f[V] = f[T] + y.amount
      <4>. HIDE DEF V
      <4> QED
        BY <3>2, <3>3
    <3> QED
      BY <3>4
  <2>4. CASE o # y
    <3>1. o \in T /\ o \in U
      BY <2>1, <2>4
    <3>2. T \ {o} \in SetsUpTo(U, n)
      <4>. HIDE DEF o
      <4> QED
        BY <3>1, SetsSmaller
    <3>3. y \in U \ (T \ {o}) /\ o \in U \ (T \ {o})
      BY <3>1
    <3>4. V \ {o} = (T \ {o}) \union {y} /\ (T \ {o}) \union {o} = T
      BY <2>4, <3>1
    <3>. HIDE DEF o, V
    <3>5. f[(T \ {o}) \union {y}] = f[T \ {o}] + y.amount
      BY <1>4, <3>2, <3>3
    <3>6. f[(T \ {o}) \union {o}] = f[T \ {o}] + o.amount
      BY <1>4, <3>2, <3>3
    <3>7. f[T \ {o}] \in Nat /\ o.amount \in Nat /\ y.amount \in Nat
      BY <1>1, <1>2, <2>1, <3>1
    <3>8. f[V] = o.amount + (f[T \ {o}] + y.amount) /\ f[T] = f[T \ {o}] + o.amount
      BY <2>2, <3>4, <3>5, <3>6
    <3>9. f[V] = f[T] + y.amount
      BY <3>7, <3>8
    <3> QED
      BY <3>9 DEF V
  <2> QED
    BY <2>3, <2>4
<1>. HIDE DEF Ok
<1>5. Cardinality(S) \in Ok
  BY <1>3, <1>4, SetSizes, NatSetInduction
<1>6. S \in SetsUpTo(U, Cardinality(S))
  <2>1. Cardinality(S) \in Nat
    BY SetSizes
  <2> QED
    BY <2>1 DEF SetsUpTo
<1> QED
  BY <1>5, <1>6 DEF Ok, f

-------------------------------------------------------------------------------
(* What a list amounts to.                                                 *)

AmountIn(u, a, c) == IF u.out.address = a /\ u.conf = c THEN u.out.amount ELSE 0

SumTo(s, a, c) ==
    CHOOSE sum : sum = [k \in 0..Len(s) |->
        IF k = 0 THEN 0 ELSE sum[k - 1] + AmountIn(s[k], a, c)]

LEMMA SumEquation ==
    ASSUME NEW s \in Seq(Listing), NEW a, NEW c
    PROVE  /\ SumOf(s, a, c) = SumTo(s, a, c)[Len(s)]
           /\ SumTo(s, a, c)[0] = 0
           /\ \A k \in 1..Len(s) :
                 /\ AmountIn(s[k], a, c) \in Nat
                 /\ SumTo(s, a, c)[k] = SumTo(s, a, c)[k - 1] + AmountIn(s[k], a, c)
           /\ \A k \in 0..Len(s) : SumTo(s, a, c)[k] \in Nat
<1>. DEFINE n == Len(s)
            w(k) == AmountIn(s[k], a, c)
            F == [k \in 1..n |-> [v \in Nat |-> v + w(k)]]
            h == SumTo(s, a, c)
<1>1. n \in Nat
  OBVIOUS
<1>2. \A k \in 1..n : w(k) \in Nat
  <2> TAKE k \in 1..n
  <2>1. s[k] \in Listing
    OBVIOUS
  <2>2. s[k].out.amount \in Nat
    BY <2>1, UnspentsAssumption DEF Listing, UnspentsAssumption
  <2> QED
    BY <2>2 DEF AmountIn
<1>3. h = CHOOSE g : g = [k \in 0..n |-> IF k = 0 THEN 0 ELSE g[k - 1] + w(k)]
  BY DEF SumTo
<1>4. SumOf(s, a, c) = h[n]
  BY DEF SumOf, SumTo, AmountIn
<1>. HIDE DEF w, h, n
<1>5. F \in [1..n -> [Nat -> Nat]]
  BY <1>2
<1>6. PICK f \in [0..n -> Nat] : Recursive(f, n, 0, F)
  BY <1>1, <1>5, RecursionExists
<1>7. f = [k \in 0..n |-> IF k = 0 THEN 0 ELSE f[k - 1] + w(k)]
  <2>1. ASSUME NEW k \in 0..n
        PROVE  f[k] = IF k = 0 THEN 0 ELSE f[k - 1] + w(k)
    <3>1. CASE k = 0
      BY <1>1, <1>6, <3>1 DEF Recursive
    <3>2. CASE k # 0
      <4>1. k \in 1..n /\ f[k - 1] \in Nat
        BY <1>1, <3>2
      <4>2. f[k] = F[k][f[k - 1]]
        BY <1>6, <3>2 DEF Recursive
      <4> QED
        BY <3>2, <4>1, <4>2
    <3> QED
      BY <3>1, <3>2
  <2> QED
    BY <2>1
<1>8. h = [k \in 0..n |-> IF k = 0 THEN 0 ELSE h[k - 1] + w(k)]
  BY <1>3, <1>7
<1>9. h[0] = 0 /\ \A k \in 1..n : h[k] = h[k - 1] + w(k)
  BY <1>1, <1>8
<1>. DEFINE Ok == {m \in Nat : m <= n => h[m] \in Nat}
<1>10. 0 \in Ok
  BY <1>9
<1>11. ASSUME NEW m \in Nat, m \in Ok PROVE m + 1 \in Ok
  <2> SUFFICES ASSUME m + 1 <= n PROVE h[m + 1] \in Nat
    OBVIOUS
  <2>1. m + 1 \in 1..n /\ h[m] \in Nat /\ (m + 1) - 1 = m
    BY <1>1, <1>11
  <2>2. w(m + 1) \in Nat
    BY <1>2, <2>1
  <2>3. h[m + 1] = h[m] + w(m + 1)
    BY <1>9, <2>1
  <2> QED
    BY <2>1, <2>2, <2>3
<1>. HIDE DEF Ok
<1>12. Nat \subseteq Ok
  BY <1>10, <1>11, NatSetInduction
<1>13. \A k \in 0..n : h[k] \in Nat
  BY <1>1, <1>12 DEF Ok
<1> QED
  BY <1>2, <1>4, <1>9, <1>13 DEF w, h, n

\* Two lists one after the other amount to both.
LEMMA SumJoins ==
    ASSUME NEW s \in Seq(Listing), NEW t \in Seq(Listing), NEW a, NEW c
    PROVE  /\ SumOf(s, a, c) \in Nat /\ SumOf(t, a, c) \in Nat
           /\ SumOf(s \o t, a, c) = SumOf(s, a, c) + SumOf(t, a, c)
<1>. DEFINE n == Len(s)
            l == Len(t)
            st == s \o t
            g == SumTo(s, a, c)
            h == SumTo(t, a, c)
            gh == SumTo(st, a, c)
            Front == {m \in Nat : m <= n => gh[m] = g[m]}
            Back == {m \in Nat : m <= l => gh[n + m] = g[n] + h[m]}
<1>1. /\ n \in Nat /\ l \in Nat /\ st \in Seq(Listing) /\ Len(st) = n + l
      /\ \A k \in 1..n : st[k] = s[k]
      /\ \A k \in 1..l : st[n + k] = t[k]
  OBVIOUS
<1>. HIDE DEF n, l, st
<1>2. /\ SumOf(s, a, c) = g[n] /\ g[0] = 0
      /\ \A k \in 1..n : g[k] = g[k - 1] + AmountIn(s[k], a, c)
      /\ \A k \in 0..n : g[k] \in Nat
  BY SumEquation DEF n
<1>3. /\ SumOf(t, a, c) = h[l] /\ h[0] = 0
      /\ \A k \in 1..l : h[k] = h[k - 1] + AmountIn(t[k], a, c) /\ AmountIn(t[k], a, c) \in Nat
      /\ \A k \in 0..l : h[k] \in Nat
  BY SumEquation DEF l
<1>4. /\ SumOf(st, a, c) = gh[n + l] /\ gh[0] = 0
      /\ \A k \in 1..(n + l) : gh[k] = gh[k - 1] + AmountIn(st[k], a, c)
  <2>1. st \in Seq(Listing) /\ Len(st) = n + l
    BY <1>1
  <2>2. /\ SumOf(st, a, c) = gh[Len(st)] /\ gh[0] = 0
        /\ \A k \in 1..Len(st) : gh[k] = gh[k - 1] + AmountIn(st[k], a, c)
    BY <2>1, SumEquation
  <2>. HIDE DEF gh
  <2> QED
    BY <2>1, <2>2
<1>. HIDE DEF g, h, gh
<1>5. 0 \in Front
  BY <1>2, <1>4
<1>6. ASSUME NEW m \in Nat, m \in Front PROVE m + 1 \in Front
  <2> SUFFICES ASSUME m + 1 <= n PROVE gh[m + 1] = g[m + 1]
    OBVIOUS
  <2>1. m + 1 \in 1..n /\ m + 1 \in 1..(n + l) /\ gh[m] = g[m] /\ (m + 1) - 1 = m
    BY <1>1, <1>6
  <2> QED
    BY <1>1, <1>2, <1>4, <2>1
<1>7. n \in Front
  <2>. HIDE DEF Front
  <2> QED
    BY <1>1, <1>5, <1>6, NatSetInduction
<1>8. 0 \in Back
  BY <1>1, <1>2, <1>3, <1>7
<1>9. ASSUME NEW m \in Nat, m \in Back PROVE m + 1 \in Back
  <2> SUFFICES ASSUME m + 1 <= l PROVE gh[n + (m + 1)] = g[n] + h[m + 1]
    OBVIOUS
  <2>1. /\ m + 1 \in 1..l /\ m \in 0..l /\ (m + 1) - 1 = m
        /\ n + (m + 1) \in 1..(n + l) /\ (n + (m + 1)) - 1 = n + m
        /\ gh[n + m] = g[n] + h[m] /\ g[n] \in Nat
    BY <1>1, <1>2, <1>9
  <2>2. h[m + 1] = h[m] + AmountIn(t[m + 1], a, c) /\ AmountIn(t[m + 1], a, c) \in Nat
        /\ h[m] \in Nat
    BY <1>3, <2>1
  <2>3. gh[n + (m + 1)] = gh[n + m] + AmountIn(t[m + 1], a, c)
    BY <1>1, <1>4, <2>1
  <2> QED
    BY <2>1, <2>2, <2>3
<1>10. l \in Back
  <2>. HIDE DEF Back
  <2> QED
    BY <1>1, <1>8, <1>9, NatSetInduction
<1>11. gh[n + l] = g[n] + h[l]
  BY <1>1, <1>10
<1>12. g[n] \in Nat /\ h[l] \in Nat
  <2>1. n \in 0..n /\ l \in 0..l
    BY <1>1
  <2>2. g[n] \in Nat
    BY <1>2, <2>1
  <2>3. h[l] \in Nat
    BY <1>3, <2>1
  <2> QED
    BY <2>2, <2>3
<1> QED
  BY <1>2, <1>3, <1>4, <1>11, <1>12 DEF st

\* A list without outputs of an address amounts to nothing for it.
LEMMA SumOfNone ==
    ASSUME NEW s \in Seq(Listing), NEW a, NEW c,
           \A j \in 1..Len(s) : s[j].out.address # a
    PROVE  SumOf(s, a, c) = 0
<1>. DEFINE n == Len(s)
            h == SumTo(s, a, c)
            Ok == {m \in Nat : m <= n => h[m] = 0}
<1>1. n \in Nat /\ \A k \in 1..n : AmountIn(s[k], a, c) = 0
  BY DEF AmountIn
<1>2. /\ SumOf(s, a, c) = h[n] /\ h[0] = 0
      /\ \A k \in 1..n : h[k] = h[k - 1] + AmountIn(s[k], a, c)
  BY SumEquation
<1>. HIDE DEF n, h
<1>3. 0 \in Ok
  BY <1>2
<1>4. ASSUME NEW m \in Nat, m \in Ok PROVE m + 1 \in Ok
  <2> SUFFICES ASSUME m + 1 <= n PROVE h[m + 1] = 0
    OBVIOUS
  <2>1. m + 1 \in 1..n /\ h[m] = 0 /\ (m + 1) - 1 = m
    BY <1>1, <1>4
  <2> QED
    BY <1>1, <1>2, <2>1
<1>5. n \in Ok
  <2>. HIDE DEF Ok
  <2> QED
    BY <1>1, <1>3, <1>4, NatSetInduction
<1> QED
  BY <1>2, <1>5

\* A list of the outputs of a set, in any order, amounts to what the set does.
LEMMA SumOfOrder ==
    ASSUME unspent \in SUBSET Output, NEW S \in SUBSET unspent, NEW f \in Orders(S),
           NEW a, NEW c
    PROVE  SumOf(WithConfirmations(f), a, c)
              = AmountOver(unspent)[{o \in S : o.address = a /\ (o \in confirmed) = c}]
<1>. DEFINE n == Cardinality(S)
            s == WithConfirmations(f)
            h == SumTo(s, a, c)
            A == AmountOver(unspent)
            P(o) == o.address = a /\ (o \in confirmed) = c
            Among(k) == {o \in S : P(o) /\ \E j \in 1..k : f[j] = o}
            Ok == {m \in Nat : m <= n => h[m] = A[Among(m)]}
<1>1. /\ IsFiniteSet(S) /\ n \in Nat /\ f \in [1..n -> S] /\ s \in Seq(Listing) /\ Len(s) = n
      /\ \A j, k \in 1..n : f[j] = f[k] => j = k
  BY OrderType DEF Orders
<1>2. \A k \in 1..n : AmountIn(s[k], a, c) = IF P(f[k]) THEN f[k].amount ELSE 0
  <2> TAKE k \in 1..n
  <2>1. s[k] = [out |-> f[k], conf |-> f[k] \in confirmed]
    BY <1>1 DEF WithConfirmations
  <2>2. s[k].out = f[k] /\ (s[k].conf = (f[k] \in confirmed))
    BY <2>1
  <2> QED
    BY <2>2, Zenon DEF AmountIn
<1>3. /\ SumOf(s, a, c) = h[n] /\ h[0] = 0
      /\ \A k \in 1..n : h[k] = h[k - 1] + AmountIn(s[k], a, c)
      /\ \A k \in 0..n : h[k] \in Nat
  <2>. HIDE DEF s, n
  <2>1. /\ SumOf(s, a, c) = h[Len(s)] /\ h[0] = 0
        /\ \A k \in 1..Len(s) : h[k] = h[k - 1] + AmountIn(s[k], a, c)
        /\ \A k \in 0..Len(s) : h[k] \in Nat
    BY <1>1, SumEquation
  <2>. HIDE DEF h
  <2> QED
    BY <1>1, <2>1
<1>. HIDE DEF h, s, n, P
<1>4. A[{}] = 0 /\ \A T \in SUBSET unspent : A[T] \in Nat
  BY AmountEquation
<1>5. \A T \in SUBSET unspent, x \in unspent : x \notin T => A[T \union {x}] = A[T] + x.amount
  BY AmountAdds
<1>. HIDE DEF A
<1>6. 0 \in Ok
  <2>1. Among(0) = {}
    OBVIOUS
  <2> QED
    BY <1>3, <1>4, <2>1
<1>7. ASSUME NEW m \in Nat, m \in Ok PROVE m + 1 \in Ok
  <2> SUFFICES ASSUME m + 1 <= n PROVE h[m + 1] = A[Among(m + 1)]
    OBVIOUS
  <2>. DEFINE o == f[m + 1]
  <2>1. m + 1 \in 1..n /\ h[m] = A[Among(m)] /\ (m + 1) - 1 = m /\ m \in 0..n
    BY <1>1, <1>7
  <2>2. h[m + 1] = h[m] + (IF P(o) THEN o.amount ELSE 0)
    BY <1>2, <1>3, <2>1
  <2>3. o \in S /\ o \in unspent /\ Among(m) \in SUBSET unspent
    BY <1>1, <2>1
  <2>4. \A j \in 1..(m + 1) : j = m + 1 \/ j \in 1..m
    BY <2>1
  <2>5. o \notin Among(m)
    <3>1. \A j \in 1..m : j \in 1..n /\ j # m + 1
      BY <1>1, <2>1
    <3> QED
      BY <1>1, <2>1, <3>1
  <2>6. 1..(m + 1) = 1..m \union {m + 1}
    OBVIOUS
  <2>7. CASE P(o)
    <3>1. Among(m + 1) = Among(m) \union {o}
      BY <2>3, <2>6, <2>7
    <3>2. A[Among(m) \union {o}] = A[Among(m)] + o.amount
      <4>. HIDE DEF Among, o
      <4> QED
        BY <1>5, <2>3, <2>5
    <3>3. h[m + 1] = h[m] + o.amount
      BY <2>2, <2>7
    <3>. HIDE DEF Among, o
    <3> QED
      BY <2>1, <3>1, <3>2, <3>3
  <2>8. CASE ~P(o)
    <3>1. Among(m + 1) = Among(m)
      BY <2>3, <2>6, <2>8
    <3>2. h[m] \in Nat
      BY <1>3, <2>1
    <3> QED
      BY <2>1, <2>2, <2>8, <3>1, <3>2
  <2> QED
    BY <2>7, <2>8
<1>8. n \in Ok
  <2>. HIDE DEF Ok
  <2> QED
    BY <1>1, <1>6, <1>7, NatSetInduction
<1>9. Among(n) = {o \in S : P(o)}
  <2>1. f \in Injection(1..n, S)
    BY <1>1 DEF Injection, IsInjective
  <2>2. Cardinality(1..n) = Cardinality(S)
    BY <1>1, FS_Interval DEF n
  <2>3. f \in Surjection(1..n, S)
    BY <1>1, <2>1, <2>2, FS_Injection
  <2>4. \A o \in S : \E j \in 1..n : f[j] = o
    BY <2>3 DEF Surjection
  <2> QED
    BY <2>4
<1>10. SumOf(s, a, c) = A[{o \in S : P(o)}]
  <2>. HIDE DEF Among
  <2>1. h[n] = A[Among(n)]
    BY <1>1, <1>8
  <2> QED
    BY <1>3, <1>9, <2>1
<1> QED
  BY <1>10 DEF s, A, P

-------------------------------------------------------------------------------
(* Balances.                                                               *)

Once(k) == \A j \in 1..Len(addresses) : addresses[j] = addresses[k] => j = k

\* An address that is listed once has, after its page, the balance of a moment of
\* the call; before its page, none of the outputs listed is of that address.
Balances(k) ==
    IF k <= i * Limit
    THEN \E m \in moments : Balance(addresses[k]) = HeldAt(m, addresses[k])
    ELSE \A j \in 1..Len(utxo) : utxo[j].out.address # addresses[k]

BalanceInv ==
    /\ pc = "idle" => utxo = << >>
    /\ pc = "page" => Moment \in moments
    /\ pc \in {"page", "done"} => \A k \in 1..Len(addresses) : Once(k) => Balances(k)

\* What the page lists for one of its addresses is what the node has at that moment.
LEMMA PageOfAddress ==
    ASSUME unspent \in SUBSET Output, NEW L, NEW f \in Orders(Listed(L)), NEW a \in L
    PROVE  /\ SumOf(WithConfirmations(f), a, TRUE) = HeldAt(Moment, a).confirm
           /\ SumOf(WithConfirmations(f), a, FALSE) = HeldAt(Moment, a).unconfirm
<1>. DEFINE S == Listed(L)
            A == AmountOver(unspent)
            held(c) == {o \in unspent : o.address = a /\ (o \in confirmed) = c}
            of(c) == {o \in S : o.address = a /\ (o \in confirmed) = c}
<1>1. S \in SUBSET unspent
  BY DEF Listed
<1>2. \A c : SumOf(WithConfirmations(f), a, c) = A[of(c)]
  <2>. HIDE DEF S
  <2> QED
    BY <1>1, SumOfOrder DEF S
<1>3. HeldAt(Moment, a).confirm = A[held(TRUE)]
      /\ HeldAt(Moment, a).unconfirm = IF min = 0 THEN A[held(FALSE)] ELSE 0
  BY DEF HeldAt, Moment
<1>4. of(TRUE) = held(TRUE)
  BY DEF Listed
<1>5. of(FALSE) = IF min = 0 THEN held(FALSE) ELSE {}
  BY DEF Listed
<1>6. A[{}] = 0
  BY AmountEquation
<1>. HIDE DEF A, S, of, held
<1> QED
  BY <1>2, <1>3, <1>4, <1>5, <1>6

LEMMA AskBalances ==
    ASSUME PageInv, ListInv, BalanceInv, AskPage
    PROVE  BalanceInv'
<1>. DEFINE L == {addresses[k] : k \in (Begin + 1)..End}
<1>1. PICK f \in Orders(Listed(L)) : utxo' = Collect(WithConfirmations(f))
  BY DEF AskPage
<1>. DEFINE s == WithConfirmations(f)
<1>2. /\ unspent \in SUBSET Output /\ utxo \in Seq(Listing)
      /\ s \in Seq(Listing) /\ utxo' = utxo \o s
      /\ \A j \in 1..Len(s) : s[j].out.address \in L
  <2>1. Listed(L) \in SUBSET unspent
    BY DEF Listed
  <2>2. f \in [1..Len(s) -> Listed(L)] /\ s \in Seq(Listing) /\ Len(s) \in Nat
    <3>. HIDE DEF L
    <3> QED
      BY <2>1, OrderType DEF ListInv
  <2>3. \A j \in 1..Len(s) : s[j].out = f[j]
    BY <2>2 DEF WithConfirmations
  <2>4. \A j \in 1..Len(s) : s[j].out.address \in L
    <3>. HIDE DEF s, L
    <3> QED
      BY <2>2, <2>3 DEF Listed
  <2> QED
    BY <1>1, <2>2, <2>4 DEF ListInv, Collect
<1>3. /\ i' = i + 1 /\ InPage /\ pc = "page"
      /\ UNCHANGED <<unspent, confirmed, pc, addresses, min, moments>>
  BY DEF AskPage, InPage, nodeVars
<1>4. /\ Begin \in 0..Len(addresses) /\ End \in Begin..Len(addresses)
      /\ i * Limit = Begin /\ i' * Limit = Begin + Limit
      /\ End = IF Begin + Limit > Len(addresses) THEN Len(addresses) ELSE Begin + Limit
      /\ Len(addresses) \in Nat /\ Limit \in Nat \ {0}
  BY <1>3, PageBounds, UnspentsAssumption DEF UnspentsAssumption, PageInv, Begin
<1>5. ASSUME NEW k \in 1..Len(addresses), Once(k) PROVE Balances(k)'
  <2>. DEFINE a == addresses[k]
  <2>1. Balances(k) /\ addresses' = addresses
    BY <1>3, <1>5 DEF BalanceInv
  <2>2. a \in L <=> k \in (Begin + 1)..End
    BY <1>4, <1>5 DEF Once
  <2>3. k <= i' * Limit <=> k <= End
    BY <1>4
  <2>4. \A c : /\ SumOf(utxo \o s, a, c) = SumOf(utxo, a, c) + SumOf(s, a, c)
               /\ SumOf(utxo, a, c) \in Nat /\ SumOf(s, a, c) \in Nat
    BY <1>2, SumJoins
  <2>5. CASE k <= Begin
    <3>1. PICK m \in moments : Balance(a) = HeldAt(m, a)
      BY <1>4, <2>1, <2>5 DEF Balances
    <3>2. \A j \in 1..Len(s) : s[j].out.address # a
      <4>. HIDE DEF s, L
      <4> QED
        BY <1>2, <1>4, <2>2, <2>5
    <3>3. \A c : SumOf(s, a, c) = 0
      <4>. HIDE DEF s, a
      <4> QED
        BY <1>2, <3>2, SumOfNone
    <3>4. SumOf(utxo', a, TRUE) = SumOf(utxo, a, TRUE)
          /\ SumOf(utxo', a, FALSE) = SumOf(utxo, a, FALSE)
      <4>. HIDE DEF s, a
      <4>1. \A c : SumOf(utxo', a, c) = SumOf(utxo, a, c)
        BY <1>2, <2>4, <3>3
      <4> QED
        BY <4>1, Zenon
    <3>5. Balance(a)' = HeldAt(m, a)'
      BY <1>3, <3>1, <3>4 DEF Balance, HeldAt
    <3> QED
      BY <1>3, <1>4, <2>3, <2>5, <3>1, <3>5 DEF Balances
  <2>6. CASE k \in (Begin + 1)..End
    <3>1. \A j \in 1..Len(utxo) : utxo[j].out.address # a
      BY <1>4, <2>1, <2>6 DEF Balances
    <3>2. \A c : SumOf(utxo, a, c) = 0
      <4>. HIDE DEF s, a
      <4> QED
        BY <1>2, <3>1, SumOfNone
    <3>3. SumOf(s, a, TRUE) = HeldAt(Moment, a).confirm
          /\ SumOf(s, a, FALSE) = HeldAt(Moment, a).unconfirm
      <4>. HIDE DEF L, a
      <4> QED
        BY <1>2, <2>2, <2>6, PageOfAddress DEF s
    <3>4. SumOf(utxo', a, TRUE) = HeldAt(Moment, a).confirm
          /\ SumOf(utxo', a, FALSE) = HeldAt(Moment, a).unconfirm
      <4>. HIDE DEF s, a
      <4>1. \A c : SumOf(utxo', a, c) = SumOf(s, a, c)
        BY <1>2, <2>4, <3>2
      <4> QED
        BY <3>3, <4>1, Zenon
    <3>5. Moment \in moments
      BY <1>3 DEF BalanceInv
    <3>6. PICK m \in moments : m = Moment
      BY <3>5
    <3>7. Balance(a)' = HeldAt(m, a)'
      BY <1>3, <3>4, <3>6 DEF Balance, HeldAt
    <3> QED
      BY <1>3, <2>3, <2>6, <3>7 DEF Balances
  <2>7. CASE k > End
    <3>1. \A j \in 1..Len(utxo) : utxo[j].out.address # a
      BY <1>4, <2>1, <2>7 DEF Balances
    <3>2. \A j \in 1..Len(s) : s[j].out.address # a
      <4>. HIDE DEF s, L
      <4> QED
        BY <1>2, <1>4, <2>2, <2>7
    <3>3. \A j \in 1..Len(utxo') : utxo'[j].out.address # a
      <4>. HIDE DEF s, a
      <4> QED
        BY <1>2, <3>1, <3>2
    <3> QED
      BY <1>3, <1>4, <2>3, <2>7, <3>3 DEF Balances
  <2> QED
    BY <1>4, <2>5, <2>6, <2>7
<1>6. \A k \in 1..Len(addresses') : Once(k)' => Balances(k)'
  BY <1>3, <1>5 DEF Once
<1> QED
  BY <1>3, <1>6 DEF BalanceInv, Moment

\* A page without addresses is after the last address.
LEMMA SkipBalances ==
    ASSUME PageInv, BalanceInv, SkipPage
    PROVE  BalanceInv'
<1>1. /\ i' = i + 1 /\ InPage /\ pc = "page" /\ Begin = End
      /\ UNCHANGED <<unspent, confirmed, pc, addresses, min, utxo, moments>>
  BY DEF SkipPage, InPage, EmptyPage, nodeVars
<1>2. /\ Begin \in 0..Len(addresses) /\ i * Limit = Begin /\ i' * Limit = Begin + Limit
      /\ End = IF Begin + Limit > Len(addresses) THEN Len(addresses) ELSE Begin + Limit
      /\ Len(addresses) \in Nat /\ Limit \in Nat \ {0}
  BY <1>1, PageBounds, UnspentsAssumption DEF UnspentsAssumption, PageInv, Begin
<1>3. \A k \in 1..Len(addresses) : k <= i * Limit /\ k <= i' * Limit
  BY <1>1, <1>2
<1>4. ASSUME NEW k \in 1..Len(addresses), Once(k) PROVE Balances(k)'
  <2>1. PICK m \in moments : Balance(addresses[k]) = HeldAt(m, addresses[k])
    BY <1>1, <1>3, <1>4 DEF BalanceInv, Balances
  <2>2. Balance(addresses[k])' = HeldAt(m, addresses[k])'
    BY <1>1, <2>1 DEF Balance, HeldAt
  <2> QED
    BY <1>1, <1>3, <2>2 DEF Balances
<1>5. \A k \in 1..Len(addresses') : Once(k)' => Balances(k)'
  BY <1>1, <1>4 DEF Once
<1> QED
  BY <1>1, <1>5 DEF BalanceInv, Moment

\* The node's moves are moments of the call.
LEMMA MovesBalance ==
    ASSUME BalanceInv, NodeMoves
    PROVE  BalanceInv'
<1>1. /\ UNCHANGED <<pc, addresses, min, i, utxo>> /\ pc = "page"
      /\ moments' = moments \union {Moment'}
  BY DEF NodeMoves, callVars
<1>2. ASSUME NEW k \in 1..Len(addresses), Once(k) PROVE Balances(k)'
  <2>1. Balances(k)
    BY <1>1, <1>2 DEF BalanceInv
  <2>2. \A m : Balance(addresses[k]) = HeldAt(m, addresses[k])
               => Balance(addresses[k])' = HeldAt(m, addresses[k])'
    BY <1>1 DEF Balance, HeldAt
  <2> QED
    BY <1>1, <2>1, <2>2 DEF Balances
<1>3. \A k \in 1..Len(addresses') : Once(k)' => Balances(k)'
  BY <1>1, <1>2 DEF Once
<1> QED
  BY <1>1, <1>3 DEF BalanceInv

LEMMA BalancePreserves ==
    ASSUME PageInv, ListInv, BalanceInv, [Next]_vars
    PROVE  BalanceInv'
<1>1. ASSUME NEW s \in AddressLists, NEW m \in {0, 1}, Call(s, m)
      PROVE  BalanceInv'
  <2>1. /\ pc' = "page" /\ utxo' = << >> /\ i' = 0 /\ addresses' = s
        /\ moments' = {Moment} /\ UNCHANGED <<unspent, confirmed>>
    BY <1>1 DEF Call, BalanceInv, PageInv, nodeVars
  <2>2. i' * Limit = 0
    BY <2>1, UnspentsAssumption DEF UnspentsAssumption
  <2>3. \A k \in 1..Len(addresses') : Balances(k)'
    BY <2>1, <2>2 DEF Balances
  <2> QED
    BY <2>1, <2>3 DEF BalanceInv, Moment
<1>2. CASE PageFails
  BY <1>2 DEF PageFails, BalanceInv
<1>3. CASE LastPage \/ UNCHANGED vars
  <2>1. /\ UNCHANGED <<unspent, confirmed, addresses, min, i, utxo, moments>>
        /\ pc' = pc \/ (pc = "page" /\ pc' = "done")
    BY <1>3 DEF LastPage, vars, nodeVars, callVars
  <2>2. \A k : (Once(k)' <=> Once(k)) /\ (Balances(k)' <=> Balances(k))
    BY <2>1 DEF Once, Balances, Balance, HeldAt
  <2> QED
    BY <2>1, <2>2 DEF BalanceInv, Moment
<1> QED
  BY <1>1, <1>2, <1>3, SkipBalances, AskBalances, MovesBalance DEF Next

\* The balance of an address listed once is that of one moment between the call
\* and its answer, however the node's outputs change between two pages.
THEOREM OneMoment ==
    Spec => []BalanceOfOneMoment
<1>1. Init => PageInv /\ BalanceInv
  BY PageEstablishes DEF Init, BalanceInv
<1>2. PageInv /\ ListInv /\ BalanceInv /\ [Next]_vars => PageInv' /\ BalanceInv'
  BY PagePreserves, BalancePreserves
<1>3. PageInv /\ BalanceInv => BalanceOfOneMoment
  <2> SUFFICES ASSUME PageInv, BalanceInv, pc = "done", NEW k \in 1..Len(addresses), Once(k)
               PROVE  \E m \in moments : Balance(addresses[k]) = HeldAt(m, addresses[k])
    BY DEF BalanceOfOneMoment, Once
  <2>1. k <= i * Limit
    BY AllReached
  <2> QED
    BY <2>1 DEF BalanceInv, Balances
<1> QED
  BY <1>1, <1>2, <1>3, ListHolds, PTL DEF Spec
===============================================================================
