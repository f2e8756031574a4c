------------------------------ MODULE SummaryProofs ------------------------------
(***************************************************************************)
(* Proofs about Summary, for every account, limit of inputs and fee rate.    *)
(*                                                                         *)
(* The sums over the addresses are recursive functions.  To reason about     *)
(* one, its existence is shown by induction over the places of the list     *)
(* (RecursionExists), which gives the recursion equation, and what it       *)
(* computes by another induction (NatSetInduction).                         *)
(***************************************************************************)
EXTENDS Summary, WellFoundedInduction, TLAPS

-------------------------------------------------------------------------------
(* Induction and recursion over the places of a list.                      *)

\* A set of naturals has a least member.
LEMMA LeastNat ==
    ASSUME NEW T, T \subseteq Nat, T # {}
    PROVE  \E m \in T : \A n \in T : m <= n
<1>. DEFINE R == OpToRel(<, Nat)
<1>1. IsWellFoundedOn(R, Nat)
  BY NatLessThanWellFounded
<1>2. \A x, y \in Nat : x < y => <<x, y>> \in R
  BY DEF OpToRel
<1>. HIDE DEF R
<1>3. PICK m \in T : \A y \in T : ~ (<<y, m>> \in R)
  BY <1>1, WFMin
<1>4. ASSUME NEW n \in T PROVE m <= n
  <2>1. m \in Nat /\ n \in Nat
    OBVIOUS
  <2>2. ~(n < m)
    BY <1>2, <1>3, <2>1
  <2> QED
    BY <2>1, <2>2
<1> QED
  BY <1>4

\* Induction, for a set in the place of a predicate.
LEMMA NatSetInduction ==
    ASSUME NEW S, 0 \in S, \A n \in Nat : n \in S => n + 1 \in S
    PROVE  Nat \subseteq S
<1>. DEFINE T == {n \in Nat : n \notin S}
<1>1. SUFFICES ASSUME T # {} PROVE FALSE
  OBVIOUS
<1>2. PICK m \in T : \A n \in T : m <= n
  BY <1>1, LeastNat
<1>3. m # 0 /\ m - 1 \in Nat /\ m - 1 \notin T
  BY <1>2
<1> QED
  BY <1>2, <1>3

\* A function may be defined by recursion on the places of a sequence: F[k][v] is its
\* value at k, given that it is v at the place before.
Recursive(f, n, first, F) ==
    f = [k \in 0..n |-> IF k = 0 THEN first ELSE F[k][f[k - 1]]]

LEMMA RecursionExists ==
    ASSUME NEW n \in Nat, NEW V, NEW first \in V, NEW F \in [1..n -> [V -> V]]
    PROVE  \E f \in [0..n -> V] : Recursive(f, n, first, F)
<1>. DEFINE Ok == {m \in Nat : m <= n =>
                        \E f \in [0..m -> V] :
                            f = [k \in 0..m |-> IF k = 0 THEN first ELSE F[k][f[k - 1]]]}
<1>1. 0 \in Ok
  <2>. DEFINE g == [k \in 0..0 |-> first]
  <2>1. g \in [0..0 -> V] /\ g = [k \in 0..0 |-> IF k = 0 THEN first ELSE F[k][g[k - 1]]]
    OBVIOUS
  <2> QED
    BY <2>1
<1>2. ASSUME NEW m \in Nat, m \in Ok PROVE m + 1 \in Ok
  <2> SUFFICES ASSUME m + 1 <= n
               PROVE  \E f \in [0..(m + 1) -> V] :
                          f = [k \in 0..(m + 1) |-> IF k = 0 THEN first ELSE F[k][f[k - 1]]]
    OBVIOUS
  <2>1. PICK h \in [0..m -> V] : h = [k \in 0..m |-> IF k = 0 THEN first ELSE F[k][h[k - 1]]]
    BY <1>2
  <2>2. m + 1 \in 1..n /\ F[m + 1][h[m]] \in V
    OBVIOUS
  <2>. DEFINE g == [k \in 0..(m + 1) |-> IF k = m + 1 THEN F[m + 1][h[m]] ELSE h[k]]
  <2>3. g \in [0..(m + 1) -> V]
    BY <2>2
  <2>4. ASSUME NEW k \in 0..(m + 1)
        PROVE  g[k] = IF k = 0 THEN first ELSE F[k][g[k - 1]]
    <3>1. CASE k = m + 1
      BY <2>2, <3>1
    <3>2. CASE k # m + 1
      <4>1. k \in 0..m /\ (k # 0 => k - 1 \in 0..m /\ k - 1 # m + 1)
        BY <3>2
      <4>2. g[k] = h[k] /\ (k # 0 => g[k - 1] = h[k - 1])
        BY <3>2, <4>1
      <4>3. h[k] = IF k = 0 THEN first ELSE F[k][h[k - 1]]
        BY <2>1, <4>1
      <4> QED
        BY <4>2, <4>3
    <3> QED
      BY <3>1, <3>2
  <2>. HIDE DEF g
  <2>5. g = [k \in 0..(m + 1) |-> IF k = 0 THEN first ELSE F[k][g[k - 1]]]
    BY <2>3, <2>4
  <2> QED
    BY <2>3, <2>5
<1>. HIDE DEF Ok
<1>3. n \in Ok
  BY <1>1, <1>2, NatSetInduction
<1> QED
  BY <1>3 DEF Ok, Recursive

-------------------------------------------------------------------------------
(* The sums.                                                               *)

\* An address gathers its outputs if they fit; c outputs were gathered before.
Room(k, c) == IF c + sumAddresses[k].n < MaxTxInputs THEN c + sumAddresses[k].n ELSE c

LEMMA AddressType ==
    ASSUME sumAddresses \in Seq(Address), NEW k \in 1..Len(sumAddresses)
    PROVE  sumAddresses[k].n \in Nat /\ sumAddresses[k].worth \in Nat
<1>1. sumAddresses[k] \in Address
  OBVIOUS
<1> QED
  BY <1>1 DEF Address

LEMMA LimitType == MaxTxInputs \in Nat /\ 0 < MaxTxInputs
BY FeesAssumption DEF FeesAssumption

\* How many outputs are gathered, up to each address, is a number below the limit.
LEMMA GatheredEquation ==
    ASSUME sumAddresses \in Seq(Address)
    PROVE  Gathered = [k \in 0..Len(sumAddresses) |->
                          IF k = 0 THEN 0 ELSE Room(k, Gathered[k - 1])]
<1>. DEFINE n == Len(sumAddresses)
            F == [k \in 1..n |-> [c \in Nat |-> Room(k, c)]]
<1>1. n \in Nat
  OBVIOUS
<1>2. F \in [1..n -> [Nat -> Nat]]
  BY AddressType DEF Room
<1>3. PICK f \in [0..n -> Nat] : Recursive(f, n, 0, F)
  BY <1>1, <1>2, RecursionExists
<1>4. f = [k \in 0..n |-> IF k = 0 THEN 0 ELSE Room(k, f[k - 1])]
  <2>1. ASSUME NEW k \in 0..n
        PROVE  f[k] = IF k = 0 THEN 0 ELSE Room(k, f[k - 1])
    <3>1. CASE k = 0
      BY <1>3, <3>1 DEF Recursive
    <3>2. CASE k # 0
      <4>1. k \in 1..n /\ f[k - 1] \in Nat
        BY <3>2
      <4>2. f[k] = F[k][f[k - 1]]
        BY <1>3, <3>2 DEF Recursive
      <4> QED
        BY <3>2, <4>1, <4>2
    <3> QED
      BY <3>1, <3>2
  <2> QED
    BY <2>1
<1>5. Gathered = CHOOSE g : g = [k \in 0..n |-> IF k = 0 THEN 0 ELSE Room(k, g[k - 1])]
  BY DEF Gathered, Room
<1> QED
  BY <1>4, <1>5

LEMMA GatheredType ==
    ASSUME sumAddresses \in Seq(Address)
    PROVE  \A k \in 0..Len(sumAddresses) : Gathered[k] \in 0..(MaxTxInputs - 1)
<1>. DEFINE n == Len(sumAddresses)
            Ok == {m \in Nat : m <= n => Gathered[m] \in 0..(MaxTxInputs - 1)}
<1>1. n \in Nat
  OBVIOUS
<1>2. 0 \in Ok
  BY <1>1, GatheredEquation, LimitType
<1>3. ASSUME NEW m \in Nat, m \in Ok PROVE m + 1 \in Ok
  <2> SUFFICES ASSUME m + 1 <= n PROVE Gathered[m + 1] \in 0..(MaxTxInputs - 1)
    OBVIOUS
  <2>1. m + 1 \in 1..n /\ Gathered[m] \in 0..(MaxTxInputs - 1)
    BY <1>1, <1>3
  <2>2. Gathered[m + 1] = Room(m + 1, Gathered[m])
    BY <2>1, GatheredEquation
  <2> QED
    BY <2>1, <2>2, AddressType, LimitType DEF Room
<1>. HIDE DEF Ok
<1>4. Nat \subseteq Ok
  BY <1>2, <1>3, NatSetInduction
<1> QED
  BY <1>1, <1>4 DEF Ok

\* What the outputs of some addresses are worth, up to each address.
WorthTo(S) ==
    CHOOSE sum : sum = [k \in 0..Len(sumAddresses) |->
        IF k = 0 THEN 0
        ELSE sum[k - 1] + (IF k \in S THEN sumAddresses[k].worth ELSE 0)]

LEMMA WorthEquation ==
    ASSUME sumAddresses \in Seq(Address), NEW S
    PROVE  /\ WorthTo(S) = [k \in 0..Len(sumAddresses) |->
                  IF k = 0 THEN 0
                  ELSE WorthTo(S)[k - 1] + (IF k \in S THEN sumAddresses[k].worth ELSE 0)]
           /\ Worth(S) = WorthTo(S)[Len(sumAddresses)]
<1>. DEFINE n == Len(sumAddresses)
            w(k) == IF k \in S THEN sumAddresses[k].worth ELSE 0
            F == [k \in 1..n |-> [c \in Nat |-> c + w(k)]]
<1>1. n \in Nat /\ \A k \in 1..n : w(k) \in Nat
  BY AddressType
<1>. HIDE DEF w
<1>2. F \in [1..n -> [Nat -> Nat]]
  BY <1>1
<1>3. PICK f \in [0..n -> Nat] : Recursive(f, n, 0, F)
  BY <1>1, <1>2, RecursionExists
<1>4. f = [k \in 0..n |-> IF k = 0 THEN 0 ELSE f[k - 1] + w(k)]
  <2>1. ASSUME NEW k \in 0..n
        PROVE  f[k] = IF k = 0 THEN 0 ELSE f[k - 1] + w(k)
    <3>1. CASE k = 0
      BY <1>3, <3>1 DEF Recursive
    <3>2. CASE k # 0
      <4>1. k \in 1..n /\ f[k - 1] \in Nat
        BY <3>2
      <4>2. f[k] = F[k][f[k - 1]]
        BY <1>3, <3>2 DEF Recursive
      <4> QED
        BY <3>2, <4>1, <4>2
    <3> QED
      BY <3>1, <3>2
  <2> QED
    BY <2>1
<1>5. WorthTo(S) = CHOOSE g : g = [k \in 0..n |-> IF k = 0 THEN 0 ELSE g[k - 1] + w(k)]
  BY DEF WorthTo, w
<1>6. WorthTo(S) = [k \in 0..n |-> IF k = 0 THEN 0 ELSE WorthTo(S)[k - 1] + w(k)]
  BY <1>4, <1>5
<1>7. Worth(S) = WorthTo(S)[n]
  BY DEF Worth, WorthTo
<1> QED
  BY <1>6, <1>7 DEF w

\* Another address adds what its outputs are worth; none are worth nothing.
LEMMA WorthAdds ==
    ASSUME sumAddresses \in Seq(Address), NEW S, NEW a \in 1..Len(sumAddresses), a \notin S
    PROVE  /\ Worth(S) \in Nat
           /\ Worth(S \union {a}) = Worth(S) + sumAddresses[a].worth
<1>. DEFINE n == Len(sumAddresses)
            T == S \union {a}
            more(k) == IF k >= a THEN sumAddresses[a].worth ELSE 0
            Ok == {m \in Nat : m <= n => /\ WorthTo(S)[m] \in Nat
                                         /\ WorthTo(T)[m] = WorthTo(S)[m] + more(m)}
<1>1. n \in Nat /\ a \in Nat /\ a # 0
  OBVIOUS
<1>2. 0 \in Ok
  BY <1>1, WorthEquation
<1>3. ASSUME NEW m \in Nat, m \in Ok PROVE m + 1 \in Ok
  <2> SUFFICES ASSUME m + 1 <= n
               PROVE  /\ WorthTo(S)[m + 1] \in Nat
                      /\ WorthTo(T)[m + 1] = WorthTo(S)[m + 1] + more(m + 1)
    OBVIOUS
  <2>1. /\ m + 1 \in 0..n /\ m + 1 # 0 /\ (m + 1) - 1 = m
        /\ sumAddresses[m + 1].worth \in Nat /\ sumAddresses[a].worth \in Nat
    BY <1>1, AddressType
  <2>2. /\ WorthTo(S)[m] \in Nat
        /\ WorthTo(T)[m] = WorthTo(S)[m] + more(m)
    BY <1>1, <1>3
  <2>3. WorthTo(S)[m + 1] = WorthTo(S)[m] + (IF m + 1 \in S THEN sumAddresses[m + 1].worth ELSE 0)
    BY <2>1, WorthEquation
  <2>4. WorthTo(T)[m + 1] = WorthTo(T)[m] + (IF m + 1 \in T THEN sumAddresses[m + 1].worth ELSE 0)
    <3>. HIDE DEF T
    <3> QED
      BY <2>1, WorthEquation
  <2>5. CASE m + 1 = a
    BY <1>1, <2>1, <2>2, <2>3, <2>4, <2>5
  <2>6. CASE m + 1 # a
    <3>1. more(m + 1) = more(m) /\ (m + 1 \in T <=> m + 1 \in S)
      BY <1>1, <2>6
    <3>2. more(m) \in Nat
      BY <2>1
    <3>. HIDE DEF more, T
    <3> QED
      BY <2>1, <2>2, <2>3, <2>4, <3>1, <3>2
  <2> QED
    BY <2>5, <2>6
<1>4. n \in Ok
  <2>. HIDE DEF Ok
  <2> QED
    BY <1>1, <1>2, <1>3, NatSetInduction
<1>5. Worth(S) = WorthTo(S)[n] /\ Worth(T) = WorthTo(T)[n]
  <2>. HIDE DEF T
  <2> QED
    BY WorthEquation
<1> QED
  BY <1>1, <1>4, <1>5

LEMMA WorthOfNone ==
    ASSUME sumAddresses \in Seq(Address)
    PROVE  Worth({}) = 0
<1>. DEFINE n == Len(sumAddresses)
            Ok == {m \in Nat : m <= n => WorthTo({})[m] = 0}
<1>1. n \in Nat
  OBVIOUS
<1>2. 0 \in Ok
  BY <1>1, WorthEquation
<1>3. ASSUME NEW m \in Nat, m \in Ok PROVE m + 1 \in Ok
  <2> SUFFICES ASSUME m + 1 <= n PROVE WorthTo({})[m + 1] = 0
    OBVIOUS
  <2>1. m + 1 \in 0..n /\ m + 1 # 0 /\ WorthTo({})[m] = 0
    BY <1>1, <1>3
  <2>2. WorthTo({})[m + 1] = WorthTo({})[m] + (IF m + 1 \in {} THEN sumAddresses[m + 1].worth ELSE 0)
    BY <2>1, WorthEquation
  <2> QED
    BY <2>1, <2>2
<1>4. n \in Ok
  <2>. HIDE DEF Ok
  <2> QED
    BY <1>1, <1>2, <1>3, NatSetInduction
<1> QED
  BY <1>1, <1>4, WorthEquation

\* Fewer inputs than the limit fill one transaction, and its fee is a number.
LEMMA FeeType ==
    ASSUME NEW c \in 0..(MaxTxInputs - 1), NEW r \in Nat
    PROVE  EstimateFee(c, 1, r) \in Nat
<1>1. Piece(c) = 1 /\ MinFees \in Nat
  BY LimitType, FeesAssumption DEF Piece, FeesAssumption
<1>2. c \in Nat /\ c * 180 + 1 * 34 + 1 * 10 \in Nat
  BY LimitType
<1>. DEFINE b == c * 180 + 1 * 34 + 1 * 10
<1>3. TrxBytes(c, 1) = b
  BY <1>1 DEF TrxBytes
<1>. HIDE DEF b
<1>4. b \in Nat
  BY <1>2 DEF b
<1>5. b * r \in Nat
  BY <1>4, SMT
<1>. DEFINE x == b * r
<1>6. EstimateFee(c, 1, r) = AtLeast(MinFees, Thousandth(x))
  BY <1>3 DEF EstimateFee
<1>. HIDE DEF x
<1>7. x \in Nat
  BY <1>5 DEF x
<1>8. Thousandth(x) \in Nat
  BY <1>7, SMT DEF Thousandth
<1> QED
  BY <1>1, <1>6, <1>8 DEF AtLeast

-------------------------------------------------------------------------------
(* The transactions without an error.                                      *)

LEMMA WithoutErrorsOfOne ==
    ASSUME NEW tx, ~tx.error
    PROVE  WithoutErrors(<<tx>>) = <<tx>>
<1>. DEFINE txs == <<tx>>
            Kept(f) == f = [k \in 0..Len(txs) |->
                              IF k = 0 THEN << >>
                              ELSE IF txs[k].error THEN f[k - 1] ELSE Append(f[k - 1], txs[k])]
            g == [k \in 0..1 |-> IF k = 0 THEN << >> ELSE <<tx>>]
<1>1. Len(txs) = 1 /\ txs[1] = tx
  OBVIOUS
<1>2. Kept(g)
  <2>1. Append(<< >>, tx) = <<tx>>
    OBVIOUS
  <2>2. ASSUME NEW k \in 0..1
        PROVE  g[k] = IF k = 0 THEN << >>
                      ELSE IF txs[k].error THEN g[k - 1] ELSE Append(g[k - 1], txs[k])
    <3>1. CASE k = 0
      BY <3>1
    <3>2. CASE k = 1
      BY <1>1, <2>1, <3>2
    <3> QED
      BY <3>1, <3>2
  <2>. HIDE DEF txs
  <2> QED
    BY <1>1, <2>2
<1>. DEFINE kept == CHOOSE f : Kept(f)
<1>3. Kept(kept)
  <2>. HIDE DEF Kept
  <2> QED
    BY <1>2
<1>4. kept[1] = <<tx>>
  <2>1. kept = [k \in 0..1 |-> IF k = 0 THEN << >>
                  ELSE IF txs[k].error THEN kept[k - 1] ELSE Append(kept[k - 1], txs[k])]
    BY <1>1, <1>3
  <2>. HIDE DEF kept, txs
  <2>2. kept[0] = << >>
    BY <2>1
  <2>3. ~txs[1].error
    BY <1>1
  <2>4. 1 \in 0..1 /\ 1 # 0 /\ 1 - 1 = 0
    OBVIOUS
  <2>5. kept[1] = IF 1 = 0 THEN << >>
                  ELSE IF txs[1].error THEN kept[1 - 1] ELSE Append(kept[1 - 1], txs[1])
    BY <2>1, <2>4
  <2>6. kept[1] = Append(kept[0], tx)
    BY <1>1, <2>3, <2>4, <2>5, Zenon
  <2> QED
    BY <2>2, <2>6
<1>5. WithoutErrors(txs) = kept[Len(txs)]
  BY DEF WithoutErrors
<1> QED
  BY <1>1, <1>4, <1>5

-------------------------------------------------------------------------------
(* The loop.                                                               *)

\* The addresses before the n-th whose outputs fit beside those before them.
Gathers(n) == {k \in 1..(n - 1) : Before(k) + sumAddresses[k].n < MaxTxInputs}

\* The pool has the outputs of those, how many they are and what they are worth:
\* always fewer than the limit, so that none but the last address empties it.
Pools(p, n) ==
    /\ p.addrs = Gathers(n)
    /\ p.count = Gathered[n - 1]
    /\ p.count \in 0..(MaxTxInputs - 1)
    /\ p.total = Worth(p.addrs)
    /\ p.total \in Nat

\* The same of a given list of addresses: the list does not change in the loop.
GatheredOf(s) ==
    CHOOSE g : g = [j \in 0..Len(s) |->
        IF j = 0 THEN 0
        ELSE LET c == g[j - 1] IN
             IF c + s[j].n < MaxTxInputs THEN c + s[j].n ELSE c]

WorthOf(s, S) ==
    LET sum[k \in 0..Len(s)] ==
            IF k = 0 THEN 0 ELSE sum[k - 1] + (IF k \in S THEN s[k].worth ELSE 0)
    IN  sum[Len(s)]

PoolsOf(s, p, n) ==
    /\ p.addrs = {k \in 1..(n - 1) : GatheredOf(s)[k - 1] + s[k].n < MaxTxInputs}
    /\ p.count = GatheredOf(s)[n - 1]
    /\ p.count \in 0..(MaxTxInputs - 1)
    /\ p.total = WorthOf(s, p.addrs)
    /\ p.total \in Nat

LEMMA PoolsSame ==
    ASSUME NEW p, NEW n
    PROVE  Pools(p, n) <=> PoolsOf(sumAddresses, p, n)
BY DEF Pools, PoolsOf, Gathers, Before, Gathered, GatheredOf, Worth, WorthOf

\* The one transaction that may have been built is of the pool at the end.
Built(tx) ==
    /\ PoolsOf(sumAddresses, tx.from, Len(sumAddresses) + 1)
    /\ tx.fees = EstimateFee(tx.from.count, 1, rate)
    /\ tx.amount = tx.from.total - tx.fees
    /\ tx.amount > 0

SummaryType ==
    /\ pc \in {"loop", "built", "done", "error"}
    /\ sumAddresses \in Seq(Address)
    /\ rate \in Nat

SummaryInv ==
    /\ SummaryType
    /\ rawTxArray = << >> \/ \E tx : rawTxArray = <<tx>> /\ Built(tx)
    /\ pc \in {"loop", "error"} => rawTxArray = << >>
    /\ pc = "loop" => i \in 1..Len(sumAddresses) /\ PoolsOf(sumAddresses, pool, i)
    /\ pc = "done" /\ sumAddresses # << >> => result = WithoutErrors(rawTxArray)

LEMMA PoolsNone ==
    ASSUME sumAddresses \in Seq(Address)
    PROVE  Pools(EmptyPool, 1)
<1>1. Gathers(1) = {}
  BY DEF Gathers
<1>2. Gathered[0] = 0
  BY GatheredEquation
<1> QED
  BY <1>1, <1>2, WorthOfNone, LimitType DEF Pools, EmptyPool

LEMMA PoolsGather ==
    ASSUME sumAddresses \in Seq(Address), i \in 1..Len(sumAddresses), NEW p, Pools(p, i)
    PROVE  Pools(Gather(sumAddresses[i], p), i + 1)
<1>. DEFINE a == sumAddresses[i]
            q == Gather(a, p)
<1>1. /\ i \in Nat /\ i - 1 \in 0..Len(sumAddresses) /\ i \in 0..Len(sumAddresses) /\ i # 0
      /\ (i + 1) - 1 = i
      /\ a.n \in Nat /\ a.worth \in Nat
  BY AddressType
<1>2. Before(i) = p.count /\ p.count \in 0..(MaxTxInputs - 1)
  BY DEF Pools, Before
<1>3. Gathered[i] = Room(i, p.count) /\ Gathered[i] \in 0..(MaxTxInputs - 1)
  BY <1>1, <1>2, GatheredEquation, GatheredType DEF Before
<1>4. Fits(a, p) <=> Before(i) + a.n < MaxTxInputs
  BY <1>1, <1>2, LimitType DEF Fits
<1>5. i \notin Gathers(i)
  BY <1>1 DEF Gathers
<1>6. CASE Fits(a, p)
  <2>1. q = [addrs |-> p.addrs \union {i}, count |-> p.count + a.n, total |-> p.total + a.worth]
    BY <1>6 DEF Gather
  <2>2. Gathers(i + 1) = Gathers(i) \union {i}
    BY <1>1, <1>4, <1>6 DEF Gathers
  <2>3. p.count + a.n = Gathered[i]
    BY <1>1, <1>2, <1>3, <1>4, <1>6 DEF Room
  <2>4. Worth(p.addrs \union {i}) = p.total + a.worth /\ p.total + a.worth \in Nat
    BY <1>1, <1>5, WorthAdds DEF Pools
  <2>5. Pools(q, i + 1)
    <3>. HIDE DEF a, q
    <3> QED
      BY <1>1, <1>3, <2>1, <2>2, <2>3, <2>4 DEF Pools
  <2> QED
    BY <2>5
<1>7. CASE ~Fits(a, p)
  <2>1. q = p
    BY <1>7 DEF Gather
  <2>2. Gathers(i + 1) = Gathers(i)
    BY <1>1, <1>4, <1>7 DEF Gathers
  <2>3. p.count = Gathered[i]
    BY <1>2, <1>3, <1>4, <1>7 DEF Room
  <2>4. Pools(q, i + 1)
    <3>. HIDE DEF a, q
    <3> QED
      BY <1>1, <1>3, <2>1, <2>2, <2>3 DEF Pools
  <2> QED
    BY <2>4
<1> QED
  BY <1>6, <1>7

LEMMA SummaryInit ==
    Init => SummaryInv
<1> SUFFICES ASSUME Init PROVE SummaryInv
  OBVIOUS
<1>1. SummaryType
  BY SummaryAssumption DEF Init, SummaryType, SummaryAssumption
<1>2. pc = "loop" => i \in 1..Len(sumAddresses)
  BY <1>1 DEF Init, SummaryType
<1>3. Pools(pool, i)
  BY <1>1, PoolsNone DEF Init, SummaryType
<1>4. PoolsOf(sumAddresses, pool, i)
  BY <1>3, PoolsSame
<1> QED
  BY <1>1, <1>2, <1>4 DEF Init, SummaryInv

LEMMA LoopStarts ==
    ASSUME SummaryInv, InLoop, NEW p, p = Gather(sumAddresses[i], pool)
    PROVE  PoolsOf(sumAddresses, p, i + 1)
<1>1. /\ sumAddresses \in Seq(Address) /\ i \in 1..Len(sumAddresses)
      /\ Pools(pool, i)
  BY PoolsSame DEF SummaryInv, SummaryType, InLoop
<1>2. Pools(Gather(sumAddresses[i], pool), i + 1)
  BY <1>1, PoolsGather
<1> QED
  BY <1>2, PoolsSame

LEMMA SummaryStep ==
    SummaryInv /\ [Next]_vars => SummaryInv'
<1> SUFFICES ASSUME SummaryInv, [Next]_vars PROVE SummaryInv'
  OBVIOUS
<1>. DEFINE p == Gather(sumAddresses[i], pool)
<1>1. CASE ListFails
  BY <1>1 DEF SummaryInv, SummaryType, ListFails, InLoop, Built
<1>2. CASE GatherMore
  <2>1. PoolsOf(sumAddresses, p, i + 1)
    BY <1>2, LoopStarts DEF GatherMore
  <2>2. ~LastAddress /\ pool' = p
    BY <1>2 DEF GatherMore, BuildsNow
  <2>3. i' \in 1..Len(sumAddresses') /\ pc' = "loop" /\ i' = i + 1
    BY <1>2, <2>2 DEF GatherMore, Advance, SummaryInv, SummaryType, InLoop, LastAddress
  <2>4. UNCHANGED <<sumAddresses, rate, rawTxArray>> /\ rawTxArray = << >>
    BY <1>2 DEF GatherMore, Advance, SummaryInv, InLoop
  <2>. HIDE DEF p
  <2> QED
    BY <2>1, <2>2, <2>3, <2>4 DEF SummaryInv, SummaryType
<1>3. CASE BuildNothing
  <2>1. LastAddress
    <3>1. PoolsOf(sumAddresses, p, i + 1)
      BY <1>3, LoopStarts DEF BuildNothing
    <3>2. p.count < MaxTxInputs /\ p.count \in Int
      BY <3>1, LimitType DEF PoolsOf
    <3> QED
      BY <1>3, <3>2, LimitType DEF BuildNothing, BuildsNow
  <2>2. pc' = "built" /\ rawTxArray' = << >> /\ UNCHANGED <<sumAddresses, rate>>
    BY <1>3, <2>1 DEF BuildNothing, Advance, SummaryInv, InLoop
  <2> QED
    BY <2>2 DEF SummaryInv, SummaryType
<1>4. CASE BuildTx
  <2>1. PoolsOf(sumAddresses, p, i + 1)
    BY <1>4, LoopStarts DEF BuildTx
  <2>2. p.count \in 0..(MaxTxInputs - 1) /\ p.count < MaxTxInputs
    BY <2>1, LimitType DEF PoolsOf
  <2>3. i = Len(sumAddresses)
    BY <1>4, <2>2, LimitType DEF BuildTx, BuildsNow, LastAddress
  <2>4. PICK e \in BOOLEAN :
            rawTxArray' = Append(rawTxArray,
                [from |-> p, amount |-> SumAmount(p), fees |-> FeesOf(p), error |-> e])
    BY <1>4 DEF BuildTx
  <2>. DEFINE tx == [from |-> p, amount |-> SumAmount(p), fees |-> FeesOf(p), error |-> e]
  <2>5. rawTxArray' = <<tx>>
    BY <1>4, <2>4 DEF BuildTx, SummaryInv, InLoop
  <2>6. UNCHANGED <<sumAddresses, rate>> /\ pc' = "built"
    BY <1>4, <2>3 DEF BuildTx, Advance, LastAddress
  <2>7. Built(tx)
    <3>1. SumAmount(p) > 0
      BY <1>4 DEF BuildTx, WorthSending
    <3>. HIDE DEF p
    <3>2. /\ tx.from = p /\ tx.amount = SumAmount(p) /\ tx.fees = FeesOf(p)
      OBVIOUS
    <3>. HIDE DEF tx
    <3> QED
      BY <2>1, <2>3, <3>1, <3>2 DEF Built, SumAmount, FeesOf
  <2>8. \E t : rawTxArray' = <<t>> /\ Built(t)
    BY <2>5, <2>7
  <2>9. \E t : rawTxArray' = <<t>> /\ Built(t)'
    BY <2>6, <2>8 DEF Built
  <2> QED
    BY <2>6, <2>9 DEF SummaryInv, SummaryType
<1>5. CASE Deliver
  BY <1>5 DEF Deliver, SummaryInv, SummaryType, Built
<1>6. CASE UNCHANGED vars
  BY <1>6 DEF vars, SummaryInv, SummaryType, Built
<1> QED
  BY <1>1, <1>2, <1>3, <1>4, <1>5, <1>6 DEF Next

\* Throughout, the pool holds exactly the outputs that fitted, fewer than the
\* limit and worth what it says, and nothing is built before the last address.
LEMMA SummaryHolds ==
    Spec => []SummaryInv
BY SummaryInit, SummaryStep, PTL DEF Spec

\* CreateVASSummaryRawTransaction builds one transaction at most, of fewer inputs
\* than MaxTxInputs, and builds it at the last address only: the test that the
\* pool is full never holds.
THEOREM BuildsAtMostOne ==
    Spec => []AtMostOne
<1>1. SummaryInv => AtMostOne
  <2> SUFFICES ASSUME SummaryInv PROVE AtMostOne
    OBVIOUS
  <2>1. CASE rawTxArray = << >>
    BY <2>1 DEF AtMostOne
  <2>2. CASE \E tx : rawTxArray = <<tx>> /\ Built(tx)
    <3>1. PICK tx : rawTxArray = <<tx>> /\ Built(tx)
      BY <2>2
    <3>2. tx.from.count < MaxTxInputs
      BY <3>1, LimitType DEF Built, PoolsOf
    <3>3. Len(rawTxArray) = 1 /\ rawTxArray[1] = tx /\ rawTxArray # << >>
      BY <3>1
    <3> QED
      BY <3>2, <3>3 DEF AtMostOne, SummaryInv
  <2> QED
    BY <2>1, <2>2 DEF SummaryInv
<1> QED
  BY <1>1, SummaryHolds, PTL

\* A summary transaction moves what all the outputs of its addresses are worth,
\* less EstimateFee's fee for as many inputs, and more than nothing.
THEOREM SummaryMovesAll ==
    Spec => []SummaryBalances
<1>1. SummaryInv => SummaryBalances
  <2> SUFFICES ASSUME SummaryInv PROVE SummaryBalances
    OBVIOUS
  <2>1. CASE rawTxArray = << >>
    BY <2>1 DEF SummaryBalances
  <2>2. CASE \E tx : rawTxArray = <<tx>> /\ Built(tx)
    <3>1. PICK tx : rawTxArray = <<tx>> /\ Built(tx)
      BY <2>2
    <3>2. Pools(tx.from, Len(sumAddresses) + 1)
      BY <3>1, PoolsSame DEF Built
    <3>3. /\ tx.fees = EstimateFee(tx.from.count, 1, rate)
          /\ tx.amount = tx.from.total - tx.fees /\ tx.amount > 0
          /\ tx.from.total = Worth(tx.from.addrs) /\ tx.from.total \in Nat
          /\ tx.from.count \in 0..(MaxTxInputs - 1) /\ rate \in Nat
      BY <3>1, <3>2 DEF Built, Pools, SummaryInv, SummaryType
    <3>4. tx.fees \in Nat
      BY <3>3, FeeType
    <3>5. tx.amount + tx.fees = Worth(tx.from.addrs)
      BY <3>3, <3>4
    <3>6. Len(rawTxArray) = 1 /\ rawTxArray[1] = tx
      BY <3>1
    <3> QED
      BY <3>3, <3>5, <3>6 DEF SummaryBalances
  <2> QED
    BY <2>1, <2>2 DEF SummaryInv
<1> QED
  BY <1>1, SummaryHolds, PTL

\* CreateSummaryRawTransaction leaves an address out without an error only when
\* its outputs did not fit beside those of the addresses before it, or when what
\* was gathered does not pay the fee and no transaction was built at all.
THEOREM LeavesBehindOnlyFor ==
    Spec => []LeftBehindOnlyFor
<1>1. SummaryInv => LeftBehindOnlyFor
  <2> SUFFICES ASSUME SummaryInv PROVE LeftBehindOnlyFor
    OBVIOUS
  <2> SUFFICES ASSUME pc = "done", NEW k \in 1..Len(sumAddresses),
                      Before(k) + sumAddresses[k].n < MaxTxInputs,
                      NEW tx, rawTxArray = <<tx>>, Built(tx), ~tx.error
               PROVE  Summarised(k)
    <3>1. CASE rawTxArray = << >>
      BY <3>1 DEF LeftBehindOnlyFor
    <3>2. CASE \E tx : rawTxArray = <<tx>> /\ Built(tx)
      <4>1. \A tx : rawTxArray = <<tx>> => Len(rawTxArray) = 1 /\ rawTxArray[1] = tx
        OBVIOUS
      <4>2. \A k \in 1..Len(sumAddresses) :
               Before(k) + sumAddresses[k].n < MaxTxInputs
               \/ Before(k) + sumAddresses[k].n >= MaxTxInputs
        <5> TAKE k \in 1..Len(sumAddresses)
        <5>1. sumAddresses \in Seq(Address)
          BY DEF SummaryInv, SummaryType
        <5>2. k - 1 \in 0..Len(sumAddresses) /\ sumAddresses[k].n \in Nat
          BY <5>1, AddressType
        <5> QED
          BY <5>1, <5>2, GatheredType, LimitType DEF Before
      <4> QED
        BY <3>2, <4>1, <4>2 DEF LeftBehindOnlyFor
    <3> QED
      BY <3>1, <3>2 DEF SummaryInv
  <2>1. sumAddresses # << >>
    BY DEF SummaryInv, SummaryType
  <2>2. result = <<tx>>
    BY <2>1, WithoutErrorsOfOne DEF SummaryInv
  <2>3. Pools(tx.from, Len(sumAddresses) + 1)
    BY PoolsSame DEF Built
  <2>4. k \in tx.from.addrs
    BY <2>3 DEF Pools, Gathers, SummaryInv, SummaryType
  <2> QED
    BY <2>2, <2>4 DEF Summarised
<1> QED
  BY <1>1, SummaryHolds, PTL
===============================================================================
