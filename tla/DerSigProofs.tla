----------------------------- MODULE DerSigProofs ------------------------------
(***************************************************************************)
(* What becomes of a signature, for bytes of any size and components of any  *)
(* length: the s that is signed with is the low one, and a signature with    *)
(* ordinary components is read back as it was.                              *)
(*                                                                         *)
(* Numbers are their bytes.  What a complement is worth after its leading    *)
(* zeros are gone is found by following the division that takes its bytes    *)
(* off, from the right, beside the multiplication that puts them together.    *)
(***************************************************************************)
EXTENDS DerSig, WellFoundedInduction, TLAPS

-------------------------------------------------------------------------------
(* Induction on the numbers.                                               *)

\* A set of naturals has a least member.
LEMMA LeastNat ==
    ASSUME NEW T, T \subseteq Nat, T # {}
    PROVE  \E m \in T : \A n \in T : m <= n
<1>. DEFINE Less == OpToRel(<, Nat)
<1>1. IsWellFoundedOn(Less, Nat)
  BY NatLessThanWellFounded
<1>2. \A x, y \in Nat : x < y => <<x, y>> \in Less
  BY DEF OpToRel
<1>. HIDE DEF Less
<1>3. PICK m \in T : \A y \in T : ~ (<<y, m>> \in Less)
  BY <1>1, WFMin
<1>4. ASSUME NEW n \in T PROVE m <= n
  <2>1. m \in Nat /\ n \in Nat
    OBVIOUS
  <2>2. ~(n < m)
    BY <1>2, <1>3, <2>1
  <2> QED
    BY <2>1, <2>2
<1> QED
  BY <1>4

\* Induction, for a set in the place of a predicate.
LEMMA NatSetInduction ==
    ASSUME NEW D, 0 \in D, \A n \in Nat : n \in D => n + 1 \in D
    PROVE  Nat \subseteq D
<1>. DEFINE T == {n \in Nat : n \notin D}
<1>1. SUFFICES ASSUME T # {} PROVE FALSE
  OBVIOUS
<1>2. PICK m \in T : \A n \in T : m <= n
  BY <1>1, LeastNat
<1>3. m # 0 /\ m - 1 \in Nat /\ m - 1 \notin T
  BY <1>2
<1> QED
  BY <1>2, <1>3

\* A function may be defined by recursion on the places of a sequence: F[k][v] is its
\* value at k, given that it is v at the place before.
Recursive(f, n, first, F) ==
    f = [k \in 0..n |-> IF k = 0 THEN first ELSE F[k][f[k - 1]]]

LEMMA RecursionExists ==
    ASSUME NEW n \in Nat, NEW V, NEW first \in V, NEW F \in [1..n -> [V -> V]]
    PROVE  \E f \in [0..n -> V] : Recursive(f, n, first, F)
<1>. DEFINE Ok == {m \in Nat : m <= n =>
                        \E f \in [0..m -> V] :
                            f = [k \in 0..m |-> IF k = 0 THEN first ELSE F[k][f[k - 1]]]}
<1>1. 0 \in Ok
  <2>. DEFINE g == [k \in 0..0 |-> first]
  <2>1. g \in [0..0 -> V] /\ g = [k \in 0..0 |-> IF k = 0 THEN first ELSE F[k][g[k - 1]]]
    OBVIOUS
  <2> QED
    BY <2>1
<1>2. ASSUME NEW m \in Nat, m \in Ok PROVE m + 1 \in Ok
  <2> SUFFICES ASSUME m + 1 <= n
               PROVE  \E f \in [0..(m + 1) -> V] :
                          f = [k \in 0..(m + 1) |-> IF k = 0 THEN first ELSE F[k][f[k - 1]]]
    OBVIOUS
  <2>1. PICK h \in [0..m -> V] : h = [k \in 0..m |-> IF k = 0 THEN first ELSE F[k][h[k - 1]]]
    BY <1>2
  <2>2. m + 1 \in 1..n /\ F[m + 1][h[m]] \in V
    OBVIOUS
  <2>. DEFINE g == [k \in 0..(m + 1) |-> IF k = m + 1 THEN F[m + 1][h[m]] ELSE h[k]]
  <2>3. g \in [0..(m + 1) -> V]
    BY <2>2
  <2>4. ASSUME NEW k \in 0..(m + 1)
        PROVE  g[k] = IF k = 0 THEN first ELSE F[k][g[k - 1]]
    <3>1. CASE k = m + 1
      BY <2>2, <3>1
    <3>2. CASE k # m + 1
      <4>1. k \in 0..m /\ (k # 0 => k - 1 \in 0..m /\ k - 1 # m + 1)
        BY <3>2
      <4>2. g[k] = h[k] /\ (k # 0 => g[k - 1] = h[k - 1])
        BY <3>2, <4>1
      <4>3. h[k] = IF k = 0 THEN first ELSE F[k][h[k - 1]]
        BY <2>1, <4>1
      <4> QED
        BY <4>2, <4>3
    <3> QED
      BY <3>1, <3>2
  <2>. HIDE DEF g
  <2>5. g = [k \in 0..(m + 1) |-> IF k = 0 THEN first ELSE F[k][g[k - 1]]]
    BY <2>3, <2>4
  <2> QED
    BY <2>3, <2>5
<1>. HIDE DEF Ok
<1>3. n \in Ok
  BY <1>1, <1>2, NatSetInduction
<1> QED
  BY <1>3 DEF Ok, Recursive

\* Such a function has all its values in V, if the places that were in V lead there.
LEMMA RecursionType ==
    ASSUME NEW n \in Nat, NEW V, NEW f, f = [k \in 0..n |-> f[k]], f[0] \in V,
           \A k \in 1..n : f[k - 1] \in V => f[k] \in V
    PROVE  f \in [0..n -> V]
<1>. DEFINE Ok == {k \in Nat : k <= n => f[k] \in V}
<1>1. 0 \in Ok
  OBVIOUS
<1>2. ASSUME NEW k \in Nat, k \in Ok PROVE k + 1 \in Ok
  <2>1. k + 1 <= n => k + 1 \in 1..n /\ (k + 1) - 1 = k /\ f[k] \in V
    BY <1>2
  <2> QED
    BY <2>1
<1>. HIDE DEF Ok
<1>3. Nat \subseteq Ok
  BY <1>1, <1>2, NatSetInduction
<1>4. \A k \in 0..n : f[k] \in V
  BY <1>3 DEF Ok
<1> QED
  BY <1>4

-------------------------------------------------------------------------------
(* Numbers and their bytes.                                                *)

Byte == 0..(Base - 1)

\* The number of the first k bytes.
ValueStep(b, k, v) == v * Base + b[k]

Values(b) ==
    CHOOSE value : value = [k \in 0..Len(b) |->
        IF k = 0 THEN 0 ELSE ValueStep(b, k, value[k - 1])]

LEMMA BaseType == Base \in Nat /\ Base > 1 /\ W \in Nat /\ W > 2
  BY DerAssumption DEF DerAssumption

LEMMA ValuesAre ==
    ASSUME NEW b \in Seq(Byte)
    PROVE  /\ Values(b) \in [0..Len(b) -> Nat]
           /\ Values(b)[0] = 0
           /\ \A k \in 1..Len(b) : Values(b)[k] = Values(b)[k - 1] * Base + b[k]
           /\ ToNumber(b) = Values(b)[Len(b)]
<1>. DEFINE n == Len(b)
            Step(k, v) == ValueStep(b, k, v)
            F == [k \in 1..n |-> [v \in Nat |-> Step(k, v)]]
            Eq(g) == g = [k \in 0..n |-> IF k = 0 THEN 0 ELSE Step(k, g[k - 1])]
            value == Values(b)
<1>1. n \in Nat
  OBVIOUS
<1>2. ASSUME NEW k \in 1..n, NEW v \in Nat PROVE Step(k, v) \in Nat
  <2>1. Base \in Nat /\ b[k] \in Nat
    BY BaseType DEF Byte
  <2>2. v * Base \in Nat
    BY <2>1
  <2> QED
    BY <2>1, <2>2 DEF ValueStep
<1>3. value = CHOOSE g : Eq(g)
  BY DEF Values
<1>4. ToNumber(b) = value[n]
  BY DEF ToNumber, Values, ValueStep
<1>. HIDE DEF Step, n, value
<1>5. F \in [1..n -> [Nat -> Nat]]
  BY <1>2
<1>6. PICK f \in [0..n -> Nat] : Recursive(f, n, 0, F)
  <2>. HIDE DEF F
  <2> QED
    BY <1>1, <1>5, RecursionExists
<1>7. Eq(f)
  <2>1. ASSUME NEW k \in 0..n
        PROVE  f[k] = IF k = 0 THEN 0 ELSE Step(k, f[k - 1])
    <3>1. CASE k = 0
      BY <1>6, <3>1 DEF Recursive
    <3>2. CASE k # 0
      <4>1. k \in 1..n /\ f[k - 1] \in Nat
        BY <1>1, <3>2
      <4>2. f[k] = F[k][f[k - 1]]
        BY <1>6, <3>2 DEF Recursive
      <4> QED
        BY <3>2, <4>1, <4>2
    <3> QED
      BY <3>1, <3>2
  <2> QED
    BY <2>1
<1>8. Eq(value)
  <2>. HIDE DEF Eq
  <2> QED
    BY <1>3, <1>7
<1>9. value[0] = 0 /\ \A k \in 1..n : value[k] = Step(k, value[k - 1])
  BY <1>1, <1>8
<1>10. value \in [0..n -> Nat]
  <2>1. \A k \in 1..n : value[k - 1] \in Nat => value[k] \in Nat
    BY <1>2, <1>9
  <2>2. value = [k \in 0..n |-> value[k]]
    BY <1>8
  <2>3. value[0] \in Nat
    BY <1>9
  <2>. HIDE DEF Eq, F
  <2> QED
    BY <1>1, <2>1, <2>2, <2>3, RecursionType
<1> QED
  BY <1>4, <1>9, <1>10 DEF Step, ValueStep, n, value

\* What is left of a number after k of its bytes.
LeftStep(k, l) == l \div Base

Left(n) ==
    CHOOSE left : left = [k \in 0..W |-> IF k = 0 THEN n ELSE LeftStep(k, left[k - 1])]

LEMMA Division ==
    ASSUME NEW n \in Nat, NEW B \in Nat, B > 1
    PROVE  /\ n \div B \in Nat
           /\ n % B \in 0..(B - 1)
           /\ n = (n \div B) * B + (n % B)
<1>. DEFINE q == n \div B
            r == n - q * B
<1>1. q \in Nat /\ B * q <= n /\ n < B * q + B
  OBVIOUS
<1>. HIDE DEF q
<1>2. r \in 0..(B - 1) /\ n = q * B + r
  BY <1>1
<1>. HIDE DEF r
<1>3. n % B = r
  BY <1>1, <1>2
<1> QED
  BY <1>1, <1>2, <1>3, Zenon DEF q

LEMMA Smaller ==
    ASSUME NEW n \in Nat, NEW B \in Nat, B > 1, NEW v \in Nat, NEW d \in 0..(B - 1),
           n <= v * B + d
    PROVE  n \div B <= v
<1>. DEFINE q == n \div B
            r == n % B
<1>1. q \in Nat /\ r \in 0..(B - 1) /\ n = q * B + r
  BY Division
<1>. HIDE DEF q, r
<1>2. SUFFICES ASSUME v + 1 <= q PROVE FALSE
  BY <1>1 DEF q
<1>3. PICK e \in Nat : q = v + 1 + e
  <2>1. q - (v + 1) \in Nat /\ q = v + 1 + (q - (v + 1))
    BY <1>1, <1>2
  <2> QED
    BY <2>1
<1>4. q * B = v * B + B + e * B
  BY <1>1, <1>3
<1>5. v * B \in Nat /\ e * B \in Nat
  BY <1>3
<1>6. q * B \in Nat /\ q * B <= v * B + d
  BY <1>1, <1>4, <1>5
<1> QED
  BY <1>4, <1>5, <1>6

LEMMA LeftIs ==
    ASSUME NEW n \in Nat
    PROVE  /\ Left(n) \in [0..W -> Nat]
           /\ Left(n)[0] = n
           /\ \A k \in 1..W : Left(n)[k] = Left(n)[k - 1] \div Base
<1>. DEFINE F == [k \in 1..W |-> [l \in Nat |-> LeftStep(k, l)]]
            Eq(g) == g = [k \in 0..W |-> IF k = 0 THEN n ELSE LeftStep(k, g[k - 1])]
            left == Left(n)
<1>1. W \in Nat
  BY BaseType
<1>2. ASSUME NEW k \in 1..W, NEW l \in Nat PROVE LeftStep(k, l) \in Nat
  BY BaseType, Division DEF LeftStep
<1>3. left = CHOOSE g : Eq(g)
  BY DEF Left
<1>. HIDE DEF left
<1>4. F \in [1..W -> [Nat -> Nat]]
  BY <1>2
<1>5. PICK f \in [0..W -> Nat] : Recursive(f, W, n, F)
  <2>. HIDE DEF F
  <2> QED
    BY <1>1, <1>4, RecursionExists
<1>6. Eq(f)
  <2>1. ASSUME NEW k \in 0..W
        PROVE  f[k] = IF k = 0 THEN n ELSE LeftStep(k, f[k - 1])
    <3>1. CASE k = 0
      BY <1>5, <3>1 DEF Recursive
    <3>2. CASE k # 0
      <4>1. k \in 1..W /\ f[k - 1] \in Nat
        BY <1>1, <3>2
      <4>2. f[k] = F[k][f[k - 1]]
        BY <1>5, <3>2 DEF Recursive
      <4> QED
        BY <3>2, <4>1, <4>2
    <3> QED
      BY <3>1, <3>2
  <2> QED
    BY <2>1
<1>7. Eq(left)
  <2>. HIDE DEF Eq
  <2> QED
    BY <1>3, <1>6
<1>8. left[0] = n /\ \A k \in 1..W : left[k] = LeftStep(k, left[k - 1])
  BY <1>1, <1>7
<1>9. left \in [0..W -> Nat]
  <2>1. \A k \in 1..W : left[k - 1] \in Nat => left[k] \in Nat
    BY <1>2, <1>8
  <2>2. left = [k \in 0..W |-> left[k]]
    BY <1>7
  <2>3. left[0] \in Nat
    BY <1>8
  <2>. HIDE DEF Eq, F
  <2> QED
    BY <1>1, <2>1, <2>2, <2>3, RecursionType
<1> QED
  BY <1>8, <1>9 DEF LeftStep, left

\* Nothing is left of a number after W bytes, if it is no greater than one that has
\* W bytes.
LEMMA LeftRunsOut ==
    ASSUME NEW b \in Bytes, NEW n \in Nat, n <= ToNumber(b)
    PROVE  Left(n)[W] = 0
<1>. DEFINE left == Left(n)
            value == Values(b)
            Ok == {k \in Nat : k <= W => left[k] <= value[W - k]}
<1>1. W \in Nat /\ b \in Seq(Byte) /\ Len(b) = W
  BY BaseType DEF Bytes, Byte
<1>2. /\ left \in [0..W -> Nat] /\ left[0] = n
      /\ \A k \in 1..W : left[k] = left[k - 1] \div Base
  BY LeftIs
<1>3. /\ value \in [0..W -> Nat] /\ value[0] = 0 /\ ToNumber(b) = value[W]
      /\ \A k \in 1..W : value[k] = value[k - 1] * Base + b[k]
  BY <1>1, ValuesAre
<1>. HIDE DEF left, value
<1>4. 0 \in Ok
  BY <1>1, <1>2, <1>3
<1>5. ASSUME NEW k \in Nat, k \in Ok PROVE k + 1 \in Ok
  <2> SUFFICES ASSUME k + 1 <= W PROVE left[k + 1] <= value[W - (k + 1)]
    OBVIOUS
  <2>. DEFINE m == W - k
  <2>1. m \in 1..W /\ m - 1 = W - (k + 1) /\ m - 1 \in 0..W /\ k \in 0..W /\ k + 1 \in 1..W /\ (k + 1) - 1 = k
    BY <1>1
  <2>2. left[k] <= value[m]
    BY <1>5, <2>1
  <2>. HIDE DEF m
  <2>3. left[k] <= value[m - 1] * Base + b[m]
    BY <1>3, <2>1, <2>2
  <2>4. b[m] \in 0..(Base - 1)
    BY <2>1 DEF Bytes
  <2>5. left[k] \in Nat /\ value[m - 1] \in Nat
    BY <1>2, <1>3, <2>1
  <2>6. left[k] \div Base <= value[m - 1]
    BY <2>3, <2>4, <2>5, BaseType, Smaller
  <2>7. left[k + 1] = left[k] \div Base
    BY <1>2, <2>1
  <2> QED
    BY <2>1, <2>6, <2>7
<1>. HIDE DEF Ok
<1>6. W \in Ok
  BY <1>1, <1>4, <1>5, NatSetInduction
<1>7. left[W] <= value[W - W] /\ left[W] \in Nat /\ W - W = 0
  BY <1>1, <1>2, <1>6 DEF Ok
<1> QED
  BY <1>3, <1>7 DEF left

\* The bytes taken off are the number's.
LEMMA ShortIs ==
    ASSUME NEW b \in Bytes, NEW n \in Nat, n <= ToNumber(b)
    PROVE  /\ ShortBytes(n) \in Seq(Byte)
           /\ Len(ShortBytes(n)) \in 0..W
           /\ ToNumber(ShortBytes(n)) = n
<1>. DEFINE left == Left(n)
            Out(k) == left[k] = 0 /\ \A j \in 0..(k - 1) : left[j] # 0
            len == CHOOSE k \in 0..W : Out(k)
            s == [k \in 1..len |-> left[len - k] % Base]
<1>1. W \in Nat /\ Base \in Nat /\ Base > 1
  BY BaseType
<1>2. /\ left \in [0..W -> Nat] /\ left[0] = n
      /\ \A k \in 1..W : left[k] = left[k - 1] \div Base
  BY LeftIs
<1>3. left[W] = 0
  BY LeftRunsOut
<1>4. ShortBytes(n) = s
  BY DEF ShortBytes, Left, LeftStep
<1>. HIDE DEF left
<1>5. len \in 0..W /\ Out(len)
  <2>. DEFINE Z == {k \in Nat : k \in 0..W /\ left[k] = 0}
  <2>1. Z \subseteq Nat /\ W \in Z
    BY <1>1, <1>3
  <2>. HIDE DEF Z
  <2>2. PICK m \in Z : \A k \in Z : m <= k
    BY <2>1, LeastNat
  <2>3. m \in 0..W /\ left[m] = 0
    BY <2>2 DEF Z
  <2>4. ASSUME NEW j \in 0..(m - 1) PROVE left[j] # 0
    <3>1. j \in Nat /\ j \in 0..W /\ ~(m <= j)
      BY <1>1, <2>3
    <3>2. j \notin Z
      BY <2>2, <3>1
    <3> QED
      BY <3>1, <3>2 DEF Z
  <2>5. \E k \in 0..W : Out(k)
    BY <2>3, <2>4
  <2> QED
    BY <2>5
<1>. HIDE DEF len
<1>6. s \in Seq(Byte) /\ Len(s) = len
  <2>1. len \in Nat
    BY <1>1, <1>5
  <2>2. ASSUME NEW k \in 1..len PROVE left[len - k] % Base \in Byte
    <3>1. len - k \in 0..W
      BY <1>1, <1>5, <2>1
    <3>2. left[len - k] \in Nat
      BY <1>2, <3>1
    <3> QED
      BY <1>1, <3>2, Division DEF Byte
  <2>3. s \in [1..len -> Byte]
    BY <2>2
  <2>. HIDE DEF s
  <2> QED
    BY <2>1, <2>3
<1>7. \A k \in 1..len : s[k] = left[len - k] % Base
  OBVIOUS
<1>. HIDE DEF s
<1>. DEFINE value == Values(s)
            Ok == {k \in Nat : k <= len => value[k] = left[len - k]}
<1>8. /\ value \in [0..len -> Nat] /\ value[0] = 0 /\ ToNumber(s) = value[len]
      /\ \A k \in 1..len : value[k] = value[k - 1] * Base + s[k]
  BY <1>6, ValuesAre
<1>. HIDE DEF value
<1>9. len \in Nat
  BY <1>1, <1>5
<1>10. 0 \in Ok
  BY <1>5, <1>8, <1>9
<1>11. ASSUME NEW k \in Nat, k \in Ok PROVE k + 1 \in Ok
  <2> SUFFICES ASSUME k + 1 <= len PROVE value[k + 1] = left[len - (k + 1)]
    OBVIOUS
  <2>. DEFINE m == len - (k + 1)
  <2>1. m \in 0..W /\ m + 1 \in 1..W /\ (m + 1) - 1 = m /\ len - k = m + 1 /\ k + 1 \in 1..len /\ (k + 1) - 1 = k
    BY <1>1, <1>5, <1>9
  <2>2. value[k] = left[m + 1]
    <3>1. k <= len => value[k] = left[len - k]
      BY <1>11
    <3> QED
      BY <3>1, <1>9, <2>1
  <2>3. value[k + 1] = value[k] * Base + (left[m] % Base)
    <3>1. value[k + 1] = value[k] * Base + s[k + 1]
      BY <1>8, <2>1
    <3>2. s[k + 1] = left[m] % Base
      BY <1>7, <2>1
    <3>. HIDE DEF m
    <3> QED
      BY <3>1, <3>2
  <2>. HIDE DEF m
  <2>4. left[m + 1] = left[m] \div Base /\ left[m] \in Nat
    BY <1>2, <2>1
  <2>5. left[m] = (left[m] \div Base) * Base + (left[m] % Base)
    BY <1>1, <2>4, Division
  <2>6. value[k + 1] = left[m]
    BY <2>2, <2>3, <2>4, <2>5
  <2> QED
    BY <2>6 DEF m
<1>. HIDE DEF Ok
<1>12. len \in Ok
  BY <1>9, <1>10, <1>11, NatSetInduction
<1>13. value[len] = left[len - len] /\ len - len = 0
  BY <1>9, <1>12 DEF Ok
<1> QED
  BY <1>2, <1>4, <1>5, <1>6, <1>8, <1>13

\* Zeros before it do not change a number.
LEMMA Padded ==
    ASSUME NEW p \in Nat, NEW b \in Seq(Byte)
    PROVE  /\ Prefix(p) \o b \in Seq(Byte)
           /\ Len(Prefix(p) \o b) = p + Len(b)
           /\ ToNumber(Prefix(p) \o b) = ToNumber(b)
<1>. DEFINE z == Prefix(p)
            c == z \o b
            n == Len(b)
<1>1. z \in Seq(Byte) /\ Len(z) = p /\ \A k \in 1..p : z[k] = 0
  <2>1. 0 \in Byte
    BY BaseType DEF Byte
  <2>2. z \in [1..p -> Byte]
    BY <2>1 DEF Prefix
  <2> QED
    BY <2>2 DEF Prefix
<1>. HIDE DEF z
<1>2. /\ c \in Seq(Byte) /\ Len(c) = p + n /\ n \in Nat
      /\ \A k \in 1..p : c[k] = 0
      /\ \A k \in 1..n : c[p + k] = b[k]
  BY <1>1
<1>. HIDE DEF c
<1>. DEFINE v == Values(c)
            u == Values(b)
            Zero == {k \in Nat : k <= p => v[k] = 0}
            Same == {k \in Nat : k <= n => v[p + k] = u[k]}
<1>3. /\ v \in [0..(p + n) -> Nat] /\ v[0] = 0 /\ ToNumber(c) = v[p + n]
      /\ \A k \in 1..(p + n) : v[k] = v[k - 1] * Base + c[k]
  BY <1>2, ValuesAre
<1>4. /\ u \in [0..n -> Nat] /\ u[0] = 0 /\ ToNumber(b) = u[n]
      /\ \A k \in 1..n : u[k] = u[k - 1] * Base + b[k]
  BY ValuesAre
<1>. HIDE DEF u, v, n
<1>5. p \in Zero
  <2>1. 0 \in Zero
    BY <1>3
  <2>2. ASSUME NEW k \in Nat, k \in Zero PROVE k + 1 \in Zero
    <3> SUFFICES ASSUME k + 1 <= p PROVE v[k + 1] = 0
      OBVIOUS
    <3>1. k + 1 \in 1..(p + n) /\ k + 1 \in 1..p /\ (k + 1) - 1 = k /\ v[k] = 0
      BY <1>2, <2>2
    <3>2. v[k + 1] = 0 * Base + 0
      BY <1>2, <1>3, <3>1
    <3> QED
      BY <3>2, BaseType
  <2>. HIDE DEF Zero
  <2> QED
    BY <2>1, <2>2, NatSetInduction
<1>6. n \in Same
  <2>1. 0 \in Same
    BY <1>4, <1>5
  <2>2. ASSUME NEW k \in Nat, k \in Same PROVE k + 1 \in Same
    <3> SUFFICES ASSUME k + 1 <= n PROVE v[p + (k + 1)] = u[k + 1]
      OBVIOUS
    <3>1. /\ p + (k + 1) \in 1..(p + n) /\ (p + (k + 1)) - 1 = p + k
          /\ k + 1 \in 1..n /\ (k + 1) - 1 = k /\ v[p + k] = u[k]
      <4>1. k <= n => v[p + k] = u[k]
        BY <2>2
      <4>2. p \in Nat /\ n \in Nat /\ k \in Nat
        BY <1>2
      <4>3. k <= n /\ k + 1 \in 1..n /\ (k + 1) - 1 = k
        BY <4>2
      <4>4. p + (k + 1) \in 1..(p + n) /\ (p + (k + 1)) - 1 = p + k
        BY <4>2
      <4> QED
        BY <4>1, <4>3, <4>4
    <3>2. v[p + (k + 1)] = v[p + k] * Base + b[k + 1]
      BY <1>2, <1>3, <3>1
    <3>3. u[k + 1] = u[k] * Base + b[k + 1]
      BY <1>4, <3>1
    <3> QED
      BY <3>1, <3>2, <3>3
  <2>. HIDE DEF Same
  <2> QED
    BY <1>2, <2>1, <2>2, NatSetInduction
<1> QED
  BY <1>2, <1>3, <1>4, <1>6 DEF c, z, n

-------------------------------------------------------------------------------
(* What is signed with.                                                    *)

LEMMA BytesAre ==
    ASSUME NEW b \in Bytes
    PROVE  b \in Seq(Byte) /\ Len(b) = W /\ ToNumber(b) \in Nat
<1>1. W \in Nat
  BY BaseType
<1>2. b \in Seq(Byte) /\ Len(b) = W
  <2>1. b \in [1..W -> Byte]
    BY DEF Bytes, Byte
  <2> QED
    BY <1>1, <2>1
<1>3. /\ Values(b) \in [0..Len(b) -> Nat]
      /\ ToNumber(b) = Values(b)[Len(b)]
  BY <1>2, ValuesAre
<1> QED
  BY <1>1, <1>2, <1>3

\* serilizeS keeps a low s and puts the complement in the place of a high one, whatever
\* is missing of its bytes.
LEMMA Serialized ==
    ASSUME NEW s \in Bytes, ToNumber(s) \in 1..(ToNumber(CurveOrder) - 1)
    PROVE  /\ SerializeS(s) \in Seq(Byte)
           /\ ToNumber(SerializeS(s)) <= ToNumber(HalfCurveOrder)
           /\ ToNumber(SerializeS(s)) \in {ToNumber(s), ToNumber(CurveOrder) - ToNumber(s)}
<1>. DEFINE v == ToNumber(s)
            order == ToNumber(CurveOrder)
            half == ToNumber(HalfCurveOrder)
            b == ShortBytes(order - v)
            p == Padding(W - Len(b))
<1>1. CurveOrder \in Bytes /\ HalfCurveOrder \in Bytes /\ order = 2 * half + 1 /\ W \in Nat
  BY DerAssumption DEF DerAssumption
<1>2. order \in Nat /\ half \in Nat /\ v \in Nat /\ v \in 1..(order - 1) /\ s \in Seq(Byte)
  BY <1>1, BytesAre
<1>3. CASE TooHigh(v)
  <2>1. v > half
    BY <1>3 DEF TooHigh
  <2>2. SerializeS(s) = Prefix(p) \o b
    BY <1>3 DEF SerializeS
  <2>. HIDE DEF v, order, half
  <2>3. order - v \in Nat /\ order - v <= order /\ order - v <= half
    BY <1>1, <1>2, <2>1
  <2>4. b \in Seq(Byte) /\ Len(b) \in 0..W /\ ToNumber(b) = order - v
    BY <1>1, <2>3, ShortIs DEF order
  <2>. HIDE DEF b
  <2>5. p \in Nat
    <3>1. W - Len(b) \in Nat
      BY <1>1, <2>4
    <3> QED
      BY <3>1 DEF Padding
  <2>. HIDE DEF p
  <2>6. Prefix(p) \o b \in Seq(Byte) /\ ToNumber(Prefix(p) \o b) = order - v
    BY <2>4, <2>5, Padded
  <2> QED
    BY <2>2, <2>3, <2>6 DEF v, order, half
<1>4. CASE ~TooHigh(v)
  <2>1. SerializeS(s) = s
    BY <1>4 DEF SerializeS
  <2>2. v <= half
    BY <1>2, <1>4 DEF TooHigh
  <2> QED
    BY <1>2, <2>1, <2>2
<1> QED
  BY <1>3, <1>4

\* What is signed with is as long as the s of a curve library, but for a complement that
\* lacks more than one byte.
LEMMA SerializedLength ==
    ASSUME NEW s \in Bytes, ToNumber(s) \in 1..(ToNumber(CurveOrder) - 1)
    PROVE  Len(SerializeS(s)) # W
               <=> /\ TooHigh(ToNumber(s))
                   /\ Len(ShortBytes(ToNumber(CurveOrder) - ToNumber(s))) + 2 <= W
<1>. DEFINE b == ShortBytes(ToNumber(CurveOrder) - ToNumber(s))
            p == Padding(W - Len(b))
<1>1. CurveOrder \in Bytes /\ W \in Nat
  BY DerAssumption DEF DerAssumption
<1>2. CASE TooHigh(ToNumber(s))
  <2>1. SerializeS(s) = Prefix(p) \o b
    BY <1>2 DEF SerializeS
  <2>2. ToNumber(CurveOrder) \in Nat /\ ToNumber(s) \in Nat
    BY <1>1, BytesAre
  <2>3. /\ ToNumber(CurveOrder) - ToNumber(s) \in Nat
        /\ ToNumber(CurveOrder) - ToNumber(s) <= ToNumber(CurveOrder)
    BY <2>2
  <2>4. b \in Seq(Byte) /\ Len(b) \in 0..W
    BY <1>1, <2>3, ShortIs
  <2>. HIDE DEF b
  <2>5. p \in Nat /\ (p + Len(b) # W <=> Len(b) + 2 <= W)
    BY <1>1, <2>4 DEF Padding
  <2>. HIDE DEF p
  <2>6. Len(Prefix(p) \o b) = p + Len(b)
    BY <2>4, <2>5, Padded
  <2> QED
    BY <1>2, <2>1, <2>5, <2>6 DEF b
<1>3. CASE ~TooHigh(ToNumber(s))
  BY <1>3, BytesAre DEF SerializeS
<1> QED
  BY <1>2, <1>3

\* The halves of a signature.
LEMMA Halves ==
    ASSUME NEW T, NEW r \in Seq(T), NEW t \in Seq(T), Len(r) = W
    PROVE  /\ r \o t \in Seq(T)
           /\ Len(r \o t) = W + Len(t)
           /\ SubSeq(r \o t, 1, W) = r
           /\ SubSeq(r \o t, W + 1, Len(r \o t)) = t
<1>1. W \in Nat
  BY BaseType
<1>2. r \o t \in Seq(T) /\ Len(r \o t) = W + Len(t)
  OBVIOUS
<1>3. SubSeq(r \o t, 1, W) = r
  OBVIOUS
<1>4. SubSeq(r \o t, W + 1, Len(r \o t)) = t
  <2>. DEFINE u == SubSeq(r \o t, W + 1, W + Len(t))
  <2>1. u \in Seq(T) /\ Len(u) = Len(t)
    BY <1>1, <1>2
  <2>2. ASSUME NEW k \in 1..Len(t) PROVE u[k] = t[k]
    BY <1>1, <1>2
  <2>. HIDE DEF u
  <2>3. u = t
    BY <2>1, <2>2
  <2> QED
    BY <1>2, <2>3 DEF u
<1> QED
  BY <1>2, <1>3, <1>4

-------------------------------------------------------------------------------
(* The loop that takes zeros off.                                          *)

PassStep(k, p) ==
    IF p.end # "no" THEN p
    ELSE IF OutOfRange(p.bytes, k) THEN [p EXCEPT !.end = "panic"]
    ELSE IF Drops(p.bytes, k) THEN [p EXCEPT !.bytes = Tail(@)]
    ELSE [p EXCEPT !.end = "break"]

Start(b) == [bytes |-> b, end |-> "no"]

PassesOf(b) ==
    CHOOSE pass : pass = [k \in 0..W |->
        IF k = 0 THEN Start(b) ELSE PassStep(k, pass[k - 1])]

\* An ordinary component loses its first byte if that is a zero that is not needed, and
\* the loop ends without running out of the component.
LEMMA PassesIs ==
    ASSUME NEW b \in Bytes, Ordinary(b)
    PROVE  Passes(b) = [bytes |-> IF Drops(b, 1) THEN Tail(b) ELSE b, end |-> "break"]
<1>. DEFINE left == IF Drops(b, 1) THEN Tail(b) ELSE b
            done == [bytes |-> left, end |-> "break"]
            once == IF Drops(b, 1) THEN [bytes |-> Tail(b), end |-> "no"] ELSE done
            g == [k \in 0..W |-> IF k = 0 THEN Start(b) ELSE IF k = 1 THEN once ELSE done]
            Eq(f) == f = [k \in 0..W |-> IF k = 0 THEN Start(b) ELSE PassStep(k, f[k - 1])]
            pass == PassesOf(b)
            Ok == {k \in Nat : k + 2 <= W => pass[k + 2] = done}
<1>1. W \in Nat /\ W > 2
  BY BaseType
<1>2. b \in Seq(Byte) /\ Len(b) = W
  BY BytesAre
<1>3. Passes(b) = pass[W]
  BY DEF Passes, PassesOf, PassStep, Start
<1>4. pass = CHOOSE f : Eq(f)
  BY DEF PassesOf
<1>. HIDE DEF pass
<1>5. PassStep(1, Start(b)) = once
  <2>1. ~OutOfRange(b, 1)
    BY <1>1, <1>2 DEF OutOfRange
  <2>2. PassStep(1, Start(b)) = IF Drops(b, 1) THEN [Start(b) EXCEPT !.bytes = Tail(@)]
                                ELSE [Start(b) EXCEPT !.end = "break"]
    BY <2>1 DEF PassStep, Start
  <2>3. CASE Drops(b, 1)
    BY <2>2, <2>3 DEF Start
  <2>4. CASE ~Drops(b, 1)
    BY <2>2, <2>4 DEF Start
  <2> QED
    BY <2>3, <2>4
<1>6. PassStep(2, once) = done
  <2>1. CASE Drops(b, 1)
    <3>1. b[1] = 0 /\ b[3] # 0
      BY <2>1 DEF Drops, Ordinary
    <3>2. Len(Tail(b)) = W - 1 /\ Tail(b)[2] = b[3]
      BY <1>1, <1>2
    <3>3. ~OutOfRange(Tail(b), 2) /\ ~Drops(Tail(b), 2)
      BY <1>1, <3>1, <3>2 DEF OutOfRange, Drops
    <3> QED
      BY <2>1, <3>3 DEF PassStep
  <2>2. CASE ~Drops(b, 1)
    BY <2>2 DEF PassStep
  <2> QED
    BY <2>1, <2>2
<1>7. \A k : PassStep(k, done) = done
  BY DEF PassStep
<1>. HIDE DEF once, done
<1>8. Eq(g)
  <2>1. ASSUME NEW k \in 0..W
        PROVE  g[k] = IF k = 0 THEN Start(b) ELSE PassStep(k, g[k - 1])
    <3>1. CASE k = 0
      BY <3>1
    <3>2. CASE k = 1
      BY <1>1, <1>5, <3>2
    <3>3. CASE k = 2
      BY <1>1, <1>6, <3>3
    <3>4. CASE k > 2
      BY <1>1, <1>7, <3>4
    <3> QED
      BY <1>1, <3>1, <3>2, <3>3, <3>4
  <2>. HIDE DEF Eq
  <2>2. g = [k \in 0..W |-> g[k]]
    OBVIOUS
  <2>. HIDE DEF g
  <2> QED
    BY <2>1, <2>2 DEF Eq
<1>9. Eq(pass)
  <2>. HIDE DEF Eq
  <2> QED
    BY <1>4, <1>8
<1>10. pass[0] = Start(b) /\ \A k \in 1..W : pass[k] = PassStep(k, pass[k - 1])
  BY <1>1, <1>9
<1>. HIDE DEF Eq, g
<1>11. 0 \in Ok
  <2>1. pass[1] = once
    BY <1>1, <1>5, <1>10
  <2> QED
    BY <1>1, <1>6, <1>10, <2>1
<1>12. ASSUME NEW k \in Nat, k \in Ok PROVE k + 1 \in Ok
  <2> SUFFICES ASSUME (k + 1) + 2 <= W PROVE pass[(k + 1) + 2] = done
    OBVIOUS
  <2>1. pass[k + 2] = done
    BY <1>1, <1>12
  <2>2. pass[(k + 1) + 2] = PassStep((k + 1) + 2, pass[k + 2])
    <3>1. (k + 1) + 2 \in 1..W /\ ((k + 1) + 2) - 1 = k + 2
      BY <1>1
    <3> QED
      BY <1>10, <3>1
  <2> QED
    BY <1>7, <2>1, <2>2
<1>13. pass[W] = done
  <2>1. W - 2 \in Nat /\ (W - 2) + 2 = W
    BY <1>1
  <2>2. W - 2 \in Ok
    <3>. HIDE DEF Ok
    <3> QED
      BY <1>11, <1>12, <2>1, NatSetInduction
  <2> QED
    BY <2>1, <2>2
<1> QED
  BY <1>3, <1>13 DEF done

\* The places of two sequences put together.
LEMMA Joined ==
    ASSUME NEW T, NEW a \in Seq(T), NEW c \in Seq(T)
    PROVE  /\ a \o c \in Seq(T)
           /\ Len(a \o c) = Len(a) + Len(c)
           /\ \A k \in 1..Len(a) : (a \o c)[k] = a[k]
           /\ \A k \in 1..Len(c) : (a \o c)[Len(a) + k] = c[k]
  OBVIOUS

\* What an ordinary component is in the script, and that reading undoes it.
LEMMA ComponentIs ==
    ASSUME NEW b \in Bytes, Ordinary(b)
    PROVE  /\ ~Panics(b)
           /\ Component(b) \in Seq(Byte)
           /\ Len(Component(b)) \in (W - 1)..(W + 1)
           /\ Len(Component(b)) = W + 1 => High(Component(b)[2])
           /\ Unpack(Component(b)) = b
<1>. DEFINE c == Component(b)
<1>1. W \in Nat /\ W > 2 /\ 0 \in Byte
  BY BaseType DEF Byte
<1>2. b \in Seq(Byte) /\ Len(b) = W
  BY BytesAre
<1>3. ~Panics(b)
  BY PassesIs DEF Panics
<1>4. CASE High(b[1])
  <2>1. c = <<0>> \o b
    BY <1>4 DEF Component, NeedsSignByte
  <2>2. c \in Seq(Byte) /\ Len(c) = W + 1 /\ c[2] = b[1] /\ Tail(c) = b
    BY <1>1, <1>2, <2>1
  <2> QED
    BY <1>1, <1>3, <1>4, <2>2 DEF Unpack
<1>5. CASE ~High(b[1]) /\ ~Drops(b, 1)
  <2>1. c = b
    BY <1>5, PassesIs DEF Component, NeedsSignByte
  <2>2. Prefix(W - Len(b)) \o b = b
    <3>1. W - Len(b) = 0
      BY <1>1, <1>2
    <3>2. Prefix(0) = << >>
      BY DEF Prefix
    <3> QED
      BY <1>2, <3>1, <3>2
  <2> QED
    BY <1>1, <1>2, <1>3, <2>1, <2>2 DEF Unpack
<1>6. CASE ~High(b[1]) /\ Drops(b, 1)
  <2>1. c = Tail(b)
    BY <1>6, PassesIs DEF Component, NeedsSignByte
  <2>2. c \in Seq(Byte) /\ Len(c) = W - 1
    BY <1>1, <1>2, <2>1
  <2>3. Prefix(W - Len(c)) \o c = b
    <3>1. W - Len(c) = 1
      BY <1>1, <2>2
    <3>. DEFINE z == Prefix(1)
                d == z \o c
    <3>2. z \in Seq(Byte) /\ Len(z) = 1 /\ z[1] = 0
      <4>1. Prefix(1) \in [1..1 -> Byte]
        BY <1>1 DEF Prefix
      <4> QED
        BY <4>1 DEF Prefix
    <3>. HIDE DEF c, z
    <3>3. /\ d \in Seq(Byte) /\ Len(d) = Len(z) + Len(c)
          /\ \A k \in 1..Len(z) : d[k] = z[k]
          /\ \A k \in 1..Len(c) : d[Len(z) + k] = c[k]
      <4>1. z \in Seq(Byte)
        BY <3>2
      <4>2. c \in Seq(Byte)
        BY <2>2
      <4>3. d = z \o c
        OBVIOUS
      <4> QED
        BY <4>1, <4>2, <4>3, Joined
    <3>. HIDE DEF d
    <3>4. ASSUME NEW k \in 1..W PROVE d[k] = b[k]
      <4>1. CASE k = 1
        BY <1>6, <3>2, <3>3, <4>1 DEF Drops
      <4>2. CASE k # 1
        <5>1. k - 1 \in 1..Len(c) /\ Len(z) + (k - 1) = k
          BY <1>1, <2>2, <3>2, <4>2
        <5>2. d[k] = c[k - 1]
          BY <3>3, <5>1
        <5>3. c[k - 1] = b[k]
          BY <1>1, <1>2, <2>1, <4>2 DEF c
        <5> QED
          BY <5>2, <5>3
      <4> QED
        BY <4>1, <4>2
    <3>5. Len(d) = W
      BY <1>1, <2>2, <3>2, <3>3
    <3>6. d = b
      BY <1>2, <3>3, <3>4, <3>5
    <3> QED
      BY <3>1, <3>6 DEF d, z
  <2> QED
    BY <1>1, <1>3, <2>2, <2>3 DEF Unpack
<1> QED
  BY <1>4, <1>5, <1>6

-------------------------------------------------------------------------------
(* The script, and its reading.                                            *)

\* Places of a sequence put together of two, counted from its start.
LEMMA JoinedAt ==
    ASSUME NEW a \in Seq(Nat), NEW c \in Seq(Nat), NEW n \in Nat, n = Len(a)
    PROVE  /\ a \o c \in Seq(Nat)
           /\ Len(a \o c) = n + Len(c)
           /\ \A k \in 1..n : (a \o c)[k] = a[k]
           /\ \A k \in 1..Len(c) : (a \o c)[n + k] = c[k]
  BY Joined

\* A function on the numbers up to n is a sequence of n.
LEMMA ListIsSeq ==
    ASSUME NEW T, NEW n \in Nat, NEW f \in [1..n -> T]
    PROVE  f \in Seq(T) /\ Len(f) = n
OBVIOUS

LEMMA FramedAt ==
    ASSUME NEW b \in Seq(Nat), NEW tag \in Nat
    PROVE  /\ Framed(tag, b) \in Seq(Nat)
           /\ Len(Framed(tag, b)) = 2 + Len(b)
           /\ Framed(tag, b)[1] = tag
           /\ Framed(tag, b)[2] = Len(b)
           /\ \A k \in 1..Len(b) : Framed(tag, b)[2 + k] = b[k]
<1>. DEFINE a == <<tag, Len(b)>>
<1>1. a \in Seq(Nat) /\ Len(a) = 2 /\ a[1] = tag /\ a[2] = Len(b)
  OBVIOUS
<1>. HIDE DEF a
<1>2. Framed(tag, b) = a \o b
  BY DEF Framed, a
<1>3. a \in Seq(Nat) /\ 2 \in Nat /\ 2 = Len(a)
  BY <1>1
<1>4. /\ a \o b \in Seq(Nat)
      /\ Len(a \o b) = 2 + Len(b)
      /\ \A k \in 1..2 : (a \o b)[k] = a[k]
      /\ \A k \in 1..Len(b) : (a \o b)[2 + k] = b[k]
  BY <1>3, JoinedAt, Zenon
<1>5. (a \o b)[1] = a[1] /\ (a \o b)[2] = a[2]
  BY <1>4
<1> QED
  BY <1>1, <1>2, <1>4, <1>5

LEMMA PushedAt ==
    ASSUME NEW b \in Seq(Nat)
    PROVE  /\ Pushed(b) \in Seq(Nat)
           /\ Len(Pushed(b)) = 1 + Len(b)
           /\ Pushed(b)[1] = Len(b)
           /\ \A k \in 1..Len(b) : Pushed(b)[1 + k] = b[k]
<1>. DEFINE a == <<Len(b)>>
<1>1. a \in Seq(Nat) /\ Len(a) = 1 /\ a[1] = Len(b)
  OBVIOUS
<1>. HIDE DEF a
<1>2. Pushed(b) = a \o b
  BY DEF Pushed, a
<1>3. a \in Seq(Nat) /\ 1 \in Nat /\ 1 = Len(a)
  BY <1>1
<1>4. /\ a \o b \in Seq(Nat)
      /\ Len(a \o b) = 1 + Len(b)
      /\ \A k \in 1..1 : (a \o b)[k] = a[k]
      /\ \A k \in 1..Len(b) : (a \o b)[1 + k] = b[k]
  BY <1>3, JoinedAt, Zenon
<1>5. (a \o b)[1] = a[1]
  BY <1>4
<1> QED
  BY <1>1, <1>2, <1>4, <1>5

\* Where a script t has its lengths and its components.
Layout(t, r, m, s, n) ==
    /\ t \in Seq(Nat)
    /\ Len(t) = 10 + m + n + W
    /\ t[1] = 7 + m + n
    /\ t[3] = 4 + m + n
    /\ t[4] = 2
    /\ t[5] = m
    /\ \A k \in 1..m : t[5 + k] = r[k]
    /\ t[6 + m] = 2
    /\ t[7 + m] = n
    /\ \A k \in 1..n : t[7 + m + k] = s[k]
    /\ t[9 + m + n] = PubLen

LEMMA ScriptAt ==
    ASSUME NEW r \in Seq(Nat), NEW s \in Seq(Nat),
           NEW m \in Nat, NEW n \in Nat, m = Len(r), n = Len(s), m > 0, n > 0
    PROVE  Layout(ScriptOf(r, s), r, m, s, n)
<1>. DEFINE fr == Framed(2, r)
            fs == Framed(2, s)
            rs == fr \o fs
            der == Framed(48, rs)
            hashed == der \o <<SigHashAll>>
            first == Pushed(hashed)
            second == Pushed(Pubkey)
            t == first \o second
<1>1. W \in Nat
  BY BaseType
<1>2. ScriptOf(r, s) = t
  BY DEF ScriptOf
<1>3. /\ fr \in Seq(Nat) /\ Len(fr) = 2 + m /\ fr[1] = 2 /\ fr[2] = m
      /\ \A k \in 1..m : fr[2 + k] = r[k]
  <2>1. 2 \in Nat
    OBVIOUS
  <2>2. /\ fr \in Seq(Nat) /\ Len(fr) = 2 + Len(r) /\ fr[1] = 2 /\ fr[2] = Len(r)
        /\ \A k \in 1..Len(r) : fr[2 + k] = r[k]
    BY <2>1, FramedAt, Zenon
  <2> QED
    BY <2>2
<1>4. /\ fs \in Seq(Nat) /\ Len(fs) = 2 + n /\ fs[1] = 2 /\ fs[2] = n
      /\ \A k \in 1..n : fs[2 + k] = s[k]
  <2>1. 2 \in Nat
    OBVIOUS
  <2>2. /\ fs \in Seq(Nat) /\ Len(fs) = 2 + Len(s) /\ fs[1] = 2 /\ fs[2] = Len(s)
        /\ \A k \in 1..Len(s) : fs[2 + k] = s[k]
    BY <2>1, FramedAt, Zenon
  <2> QED
    BY <2>2
<1>. HIDE DEF fr, fs
<1>5. /\ rs \in Seq(Nat) /\ Len(rs) = 4 + m + n
      /\ \A k \in 1..(2 + m) : rs[k] = fr[k]
      /\ \A k \in 1..(2 + n) : rs[2 + m + k] = fs[k]
  <2>1. 2 + m \in Nat /\ 2 + m = Len(fr) /\ fr \in Seq(Nat) /\ fs \in Seq(Nat)
    BY <1>3, <1>4
  <2>2. /\ rs \in Seq(Nat) /\ Len(rs) = 2 + m + Len(fs)
        /\ \A k \in 1..(2 + m) : rs[k] = fr[k]
        /\ \A k \in 1..Len(fs) : rs[2 + m + k] = fs[k]
    <3>1. /\ fr \o fs \in Seq(Nat) /\ Len(fr \o fs) = Len(fr) + Len(fs)
          /\ \A k \in 1..Len(fr) : (fr \o fs)[k] = fr[k]
      BY <2>1, Joined, Zenon
    <3>2. \A k \in 1..Len(fs) : (fr \o fs)[Len(fr) + k] = fs[k]
      BY <2>1
    <3>3. Len(fr) = 2 + m
      BY <2>1
    <3> QED
      BY <3>1, <3>2, <3>3, Zenon
  <2>. HIDE DEF rs
  <2>3. Len(fs) = 2 + n
    BY <1>4
  <2>4. Len(rs) = 4 + m + n
    BY <2>2, <2>3
  <2> QED
    BY <2>2, <2>3, <2>4, Zenon
<1>. HIDE DEF rs
<1>6. /\ der \in Seq(Nat) /\ Len(der) = 6 + m + n /\ der[1] = 48 /\ der[2] = 4 + m + n
      /\ \A k \in 1..(4 + m + n) : der[2 + k] = rs[k]
  <2>1. /\ der \in Seq(Nat) /\ Len(der) = 2 + Len(rs) /\ der[1] = 48 /\ der[2] = Len(rs)
        /\ \A k \in 1..Len(rs) : der[2 + k] = rs[k]
    <3>1. 48 \in Nat /\ rs \in Seq(Nat)
      BY <1>5
    <3> QED
      BY <3>1, FramedAt, Zenon
  <2> QED
    BY <1>5, <2>1
<1>. HIDE DEF der
<1>7. /\ hashed \in Seq(Nat) /\ Len(hashed) = 7 + m + n
      /\ \A k \in 1..(6 + m + n) : hashed[k] = der[k]
  <2>. DEFINE h == <<SigHashAll>>
  <2>1. h \in Seq(Nat) /\ Len(h) = 1
    BY DEF SigHashAll
  <2>2. 6 + m + n \in Nat /\ der \in Seq(Nat) /\ 6 + m + n = Len(der)
    BY <1>6
  <2>. HIDE DEF h
  <2>3. /\ der \o h \in Seq(Nat) /\ Len(der \o h) = 6 + m + n + Len(h)
        /\ \A k \in 1..(6 + m + n) : (der \o h)[k] = der[k]
    <3>1. /\ der \o h \in Seq(Nat) /\ Len(der \o h) = Len(der) + Len(h)
          /\ \A k \in 1..Len(der) : (der \o h)[k] = der[k]
      BY <2>1, <2>2, Joined, Zenon
    <3>2. Len(der) = 6 + m + n
      BY <2>2
    <3> QED
      BY <3>1, <3>2, Zenon
  <2>4. 6 + m + n + Len(h) = 7 + m + n
    BY <2>1
  <2> QED
    BY <2>3, <2>4, Zenon DEF h
<1>. HIDE DEF hashed
<1>8. /\ first \in Seq(Nat) /\ Len(first) = 8 + m + n /\ first[1] = 7 + m + n
      /\ \A k \in 1..(7 + m + n) : first[1 + k] = hashed[k]
  <2>1. /\ first \in Seq(Nat) /\ Len(first) = 1 + Len(hashed) /\ first[1] = Len(hashed)
        /\ \A k \in 1..Len(hashed) : first[1 + k] = hashed[k]
    BY <1>7, PushedAt
  <2> QED
    BY <1>7, <2>1
<1>. HIDE DEF first
<1>9. second \in Seq(Nat) /\ Len(second) = W + 2 /\ second[1] = PubLen
  <2>1. Pubkey \in Seq(Nat) /\ Len(Pubkey) = PubLen /\ PubLen \in Nat /\ PubLen = W + 1
    <3>1. Pubkey \in [1..PubLen -> Nat] /\ PubLen \in Nat
      BY <1>1 DEF Pubkey, PubLen
    <3>2. PubLen = W + 1
      BY DEF PubLen
    <3>3. Pubkey \in Seq(Nat) /\ Len(Pubkey) = PubLen
      BY <3>1, ListIsSeq, Zenon
    <3> QED
      BY <3>1, <3>2, <3>3, Zenon
  <2>2. second \in Seq(Nat) /\ Len(second) = 1 + Len(Pubkey) /\ second[1] = Len(Pubkey)
    BY <2>1, PushedAt
  <2> QED
    BY <1>1, <2>1, <2>2
<1>. HIDE DEF second
<1>10. /\ t \in Seq(Nat) /\ Len(t) = 10 + m + n + W
       /\ \A k \in 1..(8 + m + n) : t[k] = first[k]
       /\ t[9 + m + n] = PubLen
  <2>1. 8 + m + n \in Nat /\ 8 + m + n = Len(first) /\ first \in Seq(Nat)
    BY <1>8
  <2>2. /\ t \in Seq(Nat) /\ Len(t) = 8 + m + n + Len(second)
        /\ \A k \in 1..(8 + m + n) : t[k] = first[k]
        /\ \A k \in 1..Len(second) : t[8 + m + n + k] = second[k]
    <3>1. /\ first \o second \in Seq(Nat)
          /\ Len(first \o second) = Len(first) + Len(second)
          /\ \A k \in 1..Len(first) : (first \o second)[k] = first[k]
      BY <1>9, <2>1, Joined, Zenon
    <3>2. \A k \in 1..Len(second) : (first \o second)[Len(first) + k] = second[k]
      BY <1>9, <2>1
    <3>3. Len(first) = 8 + m + n
      BY <2>1
    <3> QED
      BY <3>1, <3>2, <3>3, Zenon
  <2>3. Len(t) = 10 + m + n + W
    BY <1>1, <1>9, <2>2
  <2>4. t[8 + m + n + 1] = PubLen /\ 8 + m + n + 1 = 9 + m + n
    BY <1>1, <1>9, <2>2
  <2> QED
    BY <2>2, <2>3, <2>4
<1>. HIDE DEF t
<1>11. \A k \in 1..(4 + m + n) : t[3 + k] = rs[k]
  <2> TAKE k \in 1..(4 + m + n)
  <2>1. /\ 3 + k \in 1..(8 + m + n)
        /\ 2 + k \in 1..(7 + m + n) /\ 1 + (2 + k) = 3 + k
        /\ 2 + k \in 1..(6 + m + n)
    OBVIOUS
  <2>2. t[3 + k] = first[3 + k]
    BY <1>10, <2>1
  <2>3. first[3 + k] = hashed[2 + k]
    BY <1>8, <2>1
  <2>4. hashed[2 + k] = der[2 + k] /\ der[2 + k] = rs[k]
    BY <1>6, <1>7, <2>1
  <2> QED
    BY <2>2, <2>3, <2>4
<1>12. t[1] = 7 + m + n
  BY <1>8, <1>10
<1>13. t[3] = 4 + m + n
  <2>1. 3 \in 1..(8 + m + n) /\ 2 \in 1..(7 + m + n) /\ 2 \in 1..(6 + m + n) /\ 1 + 2 = 3
    OBVIOUS
  <2>2. t[3] = first[3]
    BY <1>10, <2>1
  <2>3. first[3] = hashed[2]
    BY <1>8, <2>1
  <2>4. hashed[2] = der[2]
    BY <1>7, <2>1
  <2> QED
    BY <1>6, <2>2, <2>3, <2>4
<1>14. t[4] = 2 /\ t[5] = m
  <2>1. 1 \in 1..(4 + m + n) /\ 2 \in 1..(4 + m + n) /\ 1 \in 1..(2 + m) /\ 2 \in 1..(2 + m)
    OBVIOUS
  <2>2. t[3 + 1] = rs[1] /\ t[3 + 2] = rs[2]
    BY <1>11, <2>1, Zenon
  <2>3. rs[1] = fr[1] /\ rs[2] = fr[2]
    BY <1>5, <2>1, Zenon
  <2>4. 3 + 1 = 4 /\ 3 + 2 = 5
    OBVIOUS
  <2> QED
    BY <1>3, <2>2, <2>3, <2>4, Zenon
<1>15. ASSUME NEW k \in 1..m PROVE t[5 + k] = r[k]
  <2>1. 2 + k \in 1..(2 + m) /\ 2 + k \in 1..(4 + m + n) /\ 3 + (2 + k) = 5 + k
    OBVIOUS
  <2>2. t[5 + k] = rs[2 + k]
    BY <1>11, <2>1
  <2> QED
    BY <1>3, <1>5, <2>1, <2>2
<1>16. t[6 + m] = 2 /\ t[7 + m] = n
  <2>1. /\ 2 + m + 1 \in 1..(4 + m + n) /\ 3 + (2 + m + 1) = 6 + m
        /\ 2 + m + 2 \in 1..(4 + m + n) /\ 3 + (2 + m + 2) = 7 + m
        /\ 1 \in 1..(2 + n) /\ 2 \in 1..(2 + n)
    OBVIOUS
  <2>2. t[6 + m] = rs[2 + m + 1] /\ t[7 + m] = rs[2 + m + 2]
    BY <1>11, <2>1
  <2>3. rs[2 + m + 1] = fs[1] /\ rs[2 + m + 2] = fs[2]
    BY <1>5, <2>1
  <2> QED
    BY <1>4, <2>2, <2>3
<1>17. ASSUME NEW k \in 1..n PROVE t[7 + m + k] = s[k]
  <2>1. /\ 2 + m + (2 + k) \in 1..(4 + m + n) /\ 3 + (2 + m + (2 + k)) = 7 + m + k
        /\ 2 + k \in 1..(2 + n)
    OBVIOUS
  <2>2. t[7 + m + k] = rs[2 + m + (2 + k)]
    BY <1>11, <2>1
  <2>3. rs[2 + m + (2 + k)] = fs[2 + k]
    BY <1>5, <2>1
  <2> QED
    BY <1>4, <2>2, <2>3
<1> QED
  BY <1>2, <1>10, <1>12, <1>13, <1>14, <1>15, <1>16, <1>17 DEF Layout

\* A part of a sequence, by its places.
LEMMA SliceIs ==
    ASSUME NEW t \in Seq(Nat), NEW x \in Seq(Nat), NEW from \in Nat, NEW n \in Nat,
           n = Len(x), from > 0, from + n <= Len(t) + 1,
           \A k \in 1..n : t[from - 1 + k] = x[k]
    PROVE  Slice(t, from, n) = x
<1>. DEFINE to == from + n - 1
            u == SubSeq(t, from, to)
<1>1. /\ to \in Nat /\ to <= Len(t) /\ from \in 1..(to + 1) /\ to - from + 1 = n
      /\ \A k \in 1..n : from - 1 + k = from + k - 1 /\ from + k - 1 \in from..to
  OBVIOUS
<1>2. Slice(t, from, n) = u
  BY DEF Slice
<1>. HIDE DEF to
<1>3. u \in Seq(Nat) /\ Len(u) = to - from + 1 /\ \A k \in 1..Len(u) : u[k] = t[from + k - 1]
  BY <1>1
<1>. HIDE DEF u
<1>4. Len(u) = n /\ \A k \in 1..n : u[k] = x[k]
  BY <1>1, <1>3
<1>5. u = x
  <2>1. u = [k \in 1..n |-> u[k]] /\ x = [k \in 1..n |-> x[k]]
    BY <1>3, <1>4
  <2> QED
    BY <1>4, <2>1
<1> QED
  BY <1>2, <1>5

\* Bytes are numbers.
LEMMA BytesAreNumbers ==
    ASSUME NEW b \in Seq(Byte)
    PROVE  b \in Seq(Nat) /\ Len(b) \in Nat
<1>1. Byte \subseteq Nat
  BY BaseType DEF Byte
<1>2. b \in [1..Len(b) -> Byte] /\ Len(b) \in Nat
  OBVIOUS
<1>3. b \in [1..Len(b) -> Nat]
  BY <1>1, <1>2
<1> QED
  BY <1>2, <1>3

\* An ordinary component, in the terms of the script.
LEMMA ComponentAt ==
    ASSUME NEW b \in Bytes, Ordinary(b)
    PROVE  /\ Component(b) \in Seq(Nat)
           /\ Len(Component(b)) \in Nat
           /\ W - 1 <= Len(Component(b))
           /\ Len(Component(b)) <= W + 1
           /\ Len(Component(b)) = W + 1 => High(Component(b)[2])
           /\ Unpack(Component(b)) = b
<1>. DEFINE c == Component(b)
<1>1. W \in Nat
  BY BaseType
<1>2. c \in Seq(Byte) /\ Len(c) \in (W - 1)..(W + 1)
  BY ComponentIs
<1>3. /\ Len(Component(b)) = W + 1 => High(Component(b)[2])
      /\ Unpack(Component(b)) = b
  BY ComponentIs
<1>. HIDE DEF c
<1>4. c \in Seq(Nat) /\ Len(c) \in Nat
  BY <1>2, BytesAreNumbers
<1>5. W - 1 <= Len(c) /\ Len(c) <= W + 1
  BY <1>1, <1>2
<1> QED
  BY <1>3, <1>4, <1>5 DEF c

\* A script of two ordinary components is read, and gives the two back.
LEMMA ReadBack ==
    ASSUME NEW b \in Bytes, NEW c \in Bytes, Ordinary(b), Ordinary(c),
           script = ScriptOf(Component(b), Component(c)), Read
    PROVE  pc' = "read" /\ read' = b \o c
<1>. DEFINE r == Component(b)
            s == Component(c)
            m == Len(r)
            n == Len(s)
            rLen == script[5]
            sAt == 6 + rLen
            sLen == script[sAt + 1]
            rTaken == Slice(script, 6, rLen)
            sTaken == Unpack(Slice(script, sAt + 2, sLen))
            after == IF rLen >= W THEN AppendedOver(script, sAt, sTaken) ELSE script
            pubLen == after[sAt + 2 + sLen + 1]
            fits ==
                /\ ~BadComponent(script, 4)
                /\ ~BadComponent(script, sAt)
                /\ pubLen = PubLen
                /\ rLen + sLen + 4 = script[3]
                /\ script[3] + 3 = script[1]
                /\ script[1] + pubLen + 2 = Len(script)
<1>1. /\ pc' = IF fits THEN "read" ELSE "invalid"
      /\ read' = IF fits THEN Unpack(rTaken) \o sTaken ELSE << >>
  BY DEF Read
<1>2. W \in Nat /\ W > 2
  BY BaseType
<1>3. /\ r \in Seq(Nat) /\ m \in Nat /\ W - 1 <= m /\ m <= W + 1
      /\ m = W + 1 => High(r[2])
      /\ Unpack(r) = b
  BY ComponentAt
<1>4. /\ s \in Seq(Nat) /\ n \in Nat /\ W - 1 <= n /\ n <= W + 1
      /\ n = W + 1 => High(s[2])
      /\ Unpack(s) = c
  BY ComponentAt
<1>. HIDE DEF r, s
<1>5. m > 0 /\ n > 0
  BY <1>2, <1>3, <1>4
<1>6. /\ script \in Seq(Nat)
      /\ Len(script) = 10 + m + n + W
      /\ script[1] = 7 + m + n
      /\ script[3] = 4 + m + n
      /\ script[4] = 2
      /\ script[5] = m
      /\ \A k \in 1..m : script[5 + k] = r[k]
      /\ script[6 + m] = 2
      /\ script[7 + m] = n
      /\ \A k \in 1..n : script[7 + m + k] = s[k]
      /\ script[9 + m + n] = PubLen
  <2>1. script = ScriptOf(r, s)
    BY DEF r, s
  <2>2. m = Len(r) /\ n = Len(s)
    OBVIOUS
  <2>. HIDE DEF m, n
  <2>3. r \in Seq(Nat) /\ s \in Seq(Nat) /\ m \in Nat /\ n \in Nat
    BY <1>3, <1>4
  <2>4. Layout(ScriptOf(r, s), r, m, s, n)
    BY <1>5, <2>2, <2>3, ScriptAt, Zenon
  <2> QED
    BY <2>1, <2>4 DEF Layout
<1>7. rLen = m /\ sAt = 6 + m
  BY <1>6
<1>. HIDE DEF rLen, m, n
<1>8. sLen = n
  <2>1. sAt + 1 = 7 + m
    BY <1>3, <1>7
  <2> QED
    BY <1>6, <2>1
<1>9. rTaken = r
  <2>1. \A k \in 1..m : 6 - 1 + k = 5 + k
    BY <1>3
  <2>2. \A k \in 1..m : script[6 - 1 + k] = r[k]
    BY <1>6, <2>1
  <2>3. 6 \in Nat /\ 6 > 0 /\ 6 + m <= Len(script) + 1
    BY <1>2, <1>3, <1>4, <1>6
  <2> QED
    BY <1>3, <1>6, <1>7, <2>2, <2>3, SliceIs DEF m
<1>10. sTaken = c
  <2>. DEFINE from == 8 + m
  <2>1. sAt + 2 = from /\ from \in Nat /\ from > 0 /\ from + n <= Len(script) + 1
    BY <1>2, <1>3, <1>4, <1>6, <1>7
  <2>2. \A k \in 1..n : from - 1 + k = 7 + m + k
    BY <1>3, <1>4
  <2>. HIDE DEF from, sAt
  <2>3. \A k \in 1..n : script[from - 1 + k] = s[k]
    BY <1>6, <2>2
  <2>4. Slice(script, from, n) = s
    BY <1>4, <1>6, <2>1, <2>3, SliceIs DEF n
  <2> QED
    BY <1>4, <1>8, <2>1, <2>4
<1>. HIDE DEF sLen, rTaken, sTaken, sAt
<1>11. pubLen = PubLen
  <2>. DEFINE at == 9 + m + n
  <2>1. sAt + 2 + sLen + 1 = at
    BY <1>3, <1>4, <1>7, <1>8
  <2>2. at \in Nat /\ at > 0 /\ at <= Len(script) /\ at > sAt + W - 1
    BY <1>2, <1>3, <1>4, <1>6, <1>7
  <2>3. Len(sTaken) = W
    BY <1>10, BytesAre
  <2>. HIDE DEF at
  <2>4. AppendedOver(script, sAt, sTaken)[at] = script[at]
    <3>1. at \in DOMAIN script
      BY <1>6, <2>2
    <3>2. at \notin sAt..(sAt + Len(sTaken) - 1)
      BY <1>2, <1>3, <1>7, <2>2, <2>3
    <3> QED
      BY <3>1, <3>2 DEF AppendedOver
  <2>5. script[at] = PubLen
    BY <1>6 DEF at
  <2> QED
    BY <2>1, <2>4, <2>5
<1>12. ~BadComponent(script, 4)
  <2>1. script[4] = 2 /\ script[4 + 1] = m /\ m <= W + 1
    BY <1>3, <1>6
  <2>2. m = W + 1 => High(script[4 + 3])
    <3>1. m = W + 1 => 2 \in 1..m /\ 4 + 3 = 5 + 2
      BY <1>2
    <3> QED
      BY <1>3, <1>6, <3>1
  <2>3. ~(m > W + 1)
    BY <1>2, <1>3
  <2> QED
    BY <2>1, <2>2, <2>3 DEF BadComponent
<1>13. ~BadComponent(script, sAt)
  <2>1. script[sAt] = 2 /\ script[sAt + 1] = n
    BY <1>6, <1>7, <1>8 DEF sLen
  <2>2. n = W + 1 => High(script[sAt + 3])
    <3>1. n = W + 1 => 2 \in 1..n /\ sAt + 3 = 7 + m + 2
      BY <1>2, <1>3, <1>7
    <3> QED
      BY <1>4, <1>6, <3>1
  <2>3. ~(n > W + 1)
    BY <1>2, <1>4
  <2> QED
    BY <2>1, <2>2, <2>3 DEF BadComponent
<1>14. /\ rLen + sLen + 4 = script[3]
       /\ script[3] + 3 = script[1]
       /\ script[1] + pubLen + 2 = Len(script)
  <2>1. PubLen = W + 1
    BY DEF PubLen
  <2>. HIDE DEF pubLen, PubLen
  <2> QED
    BY <1>2, <1>3, <1>4, <1>6, <1>7, <1>8, <1>11, <2>1
<1>15. fits
  <2>. HIDE DEF pubLen
  <2> QED
    BY <1>11, <1>12, <1>13, <1>14
<1>. HIDE DEF fits
<1> QED
  BY <1>1, <1>3, <1>9, <1>10, <1>15

-------------------------------------------------------------------------------
(* The life of a signature.                                                *)

States == {"made", "signed", "refused", "inserted", "panic", "read", "invalid"}

WholeOrdinary == Len(sig) = 2 * W /\ Ordinary(R) /\ Ordinary(S)

\* What is signed with is made of what the library returned, a signature is refused for
\* its length and the insertion panics for one of its components only, the script is
\* made of the signature's components, and the reading of an ordinary one has worked.
DerInv ==
    /\ pc \in States
    /\ raw \in Signatures
    /\ pc # "made" => sig = raw.r \o SerializeS(raw.s)
    /\ pc = "refused" => Len(sig) # 2 * W
    /\ pc = "panic" => Panics(R) \/ Panics(S)
    /\ pc = "inserted" => script = ScriptOf(Component(R), Component(S))
    /\ pc \in {"read", "invalid"} /\ WholeOrdinary => pc = "read" /\ read = sig

LEMMA RawType ==
    ASSUME raw \in Signatures
    PROVE  /\ raw.r \in Bytes /\ raw.s \in Bytes
           /\ ToNumber(raw.s) \in 1..(ToNumber(CurveOrder) - 1)
  BY DerAssumption DEF DerAssumption

\* A signature of the right length is its two halves, and they are as long.
LEMMA WholeHalves ==
    ASSUME DerInv, pc # "made", Len(sig) = 2 * W
    PROVE  R \in Bytes /\ S \in Bytes /\ R \o S = sig
<1>. DEFINE r == raw.r
            t == SerializeS(raw.s)
<1>1. W \in Nat
  BY BaseType
<1>2. sig = r \o t /\ raw \in Signatures
  BY DEF DerInv
<1>3. r \in Bytes /\ r \in Seq(Byte) /\ Len(r) = W /\ t \in Seq(Byte)
  BY <1>2, RawType, BytesAre, Serialized
<1>. HIDE DEF r, t
<1>4. /\ Len(sig) = W + Len(t)
      /\ SubSeq(sig, 1, W) = r
      /\ SubSeq(sig, W + 1, Len(sig)) = t
  <2>1. Len(sig) = W + Len(t) /\ SubSeq(sig, 1, W) = r
    BY <1>2, <1>3, Halves
  <2>2. SubSeq(sig, W + 1, Len(sig)) = t
    BY <1>2, <1>3, Halves
  <2> QED
    BY <2>1, <2>2
<1>5. R = r /\ S = t /\ Len(t) = W
  <2>1. Len(t) \in Nat
    BY <1>3
  <2> QED
    BY <1>1, <1>4, <2>1 DEF R, S
<1>6. t \in Bytes
  <2>1. t \in [1..W -> Byte]
    BY <1>3, <1>5
  <2> QED
    BY <2>1 DEF Bytes, Byte
<1> QED
  BY <1>2, <1>3, <1>5, <1>6

LEMMA DerInitial == Init => DerInv
  BY DEF Init, DerInv, States

LEMMA DerStep == DerInv /\ [Next]_vars => DerInv'
<1> SUFFICES ASSUME DerInv, [Next]_vars PROVE DerInv'
  OBVIOUS
<1>1. CASE Sign
  BY <1>1 DEF Sign, DerInv, States
<1>2. CASE Refuse
  BY <1>2 DEF Refuse, DerInv, States
<1>3. CASE InsertPanics
  BY <1>3 DEF InsertPanics, DerInv, States, R, S
<1>4. CASE Insert
  BY <1>4 DEF Insert, DerInv, States, R, S
<1>5. CASE Read
  <2>1. /\ pc = "inserted" /\ pc' \in {"read", "invalid"}
        /\ UNCHANGED <<raw, sig, script>>
    BY <1>5 DEF Read
  <2>2. script = ScriptOf(Component(R), Component(S))
    BY <2>1 DEF DerInv
  <2>3. ASSUME WholeOrdinary PROVE pc' = "read" /\ read' = sig
    <3>1. Len(sig) = 2 * W /\ Ordinary(R) /\ Ordinary(S)
      BY <2>3 DEF WholeOrdinary
    <3>2. R \in Bytes /\ S \in Bytes /\ R \o S = sig
      BY <2>1, <3>1, WholeHalves
    <3> QED
      BY <1>5, <2>2, <3>1, <3>2, ReadBack
  <2>4. WholeOrdinary' = WholeOrdinary
    BY <2>1 DEF WholeOrdinary, R, S
  <2>5. raw' \in Signatures /\ pc' \in States
    BY <2>1 DEF DerInv, States
  <2>6. sig' = raw'.r \o SerializeS(raw'.s)
    BY <2>1 DEF DerInv
  <2> QED
    BY <2>1, <2>3, <2>4, <2>5, <2>6 DEF DerInv
<1>6. CASE UNCHANGED vars
  BY <1>6 DEF vars, DerInv, WholeOrdinary, R, S
<1> QED
  BY <1>1, <1>2, <1>3, <1>4, <1>5, <1>6 DEF Next

THEOREM DerInvariant == Spec => []DerInv
  BY DerInitial, DerStep, PTL DEF Spec

\* A signature is never made with an s above half the order, and its s is the one the
\* curve library returned or its complement, for every order, number of bytes and
\* values of a byte (SignaturePubkey.go: serilizeS).
THEOREM SignedLow == Spec => []LowS
<1>1. DerInv => LowS
  <2> SUFFICES ASSUME DerInv, pc # "made"
               PROVE  /\ ToNumber(SubSeq(sig, W + 1, Len(sig))) <= ToNumber(HalfCurveOrder)
                      /\ ToNumber(SubSeq(sig, W + 1, Len(sig)))
                             \in {ToNumber(raw.s), ToNumber(CurveOrder) - ToNumber(raw.s)}
    BY DEF LowS
  <2>. DEFINE r == raw.r
              t == SerializeS(raw.s)
  <2>1. sig = r \o t /\ raw \in Signatures
    BY DEF DerInv
  <2>2. r \in Bytes /\ raw.s \in Bytes /\ ToNumber(raw.s) \in 1..(ToNumber(CurveOrder) - 1)
    BY <2>1, RawType
  <2>3. /\ t \in Seq(Byte)
        /\ ToNumber(t) <= ToNumber(HalfCurveOrder)
        /\ ToNumber(t) \in {ToNumber(raw.s), ToNumber(CurveOrder) - ToNumber(raw.s)}
    BY <2>2, Serialized
  <2>4. r \in Seq(Byte) /\ Len(r) = W
    BY <2>2, BytesAre
  <2>. HIDE DEF r, t
  <2>5. SubSeq(sig, W + 1, Len(sig)) = t
    BY <2>1, <2>3, <2>4, Halves
  <2> QED
    BY <2>3, <2>5
<1> QED
  BY <1>1, DerInvariant, PTL

\* A signature is refused for its length exactly when the complement of its s lacks two
\* bytes or more, for the padding loop makes up for half of them, rounded up
\* (SignaturePubkey.go: serilizeS; txHash.go: encodeToScript).
THEOREM RefusedWhenShort == Spec => []ShortWhenRefused
<1>1. DerInv => ShortWhenRefused
  <2> SUFFICES ASSUME DerInv, pc # "made"
               PROVE  Len(sig) # 2 * W
                          <=> /\ TooHigh(ToNumber(raw.s))
                              /\ Len(ShortBytes(ToNumber(CurveOrder) - ToNumber(raw.s))) + 2 <= W
    BY DEF ShortWhenRefused
  <2>. DEFINE r == raw.r
              t == SerializeS(raw.s)
  <2>1. sig = r \o t /\ raw \in Signatures
    BY DEF DerInv
  <2>2. r \in Bytes /\ raw.s \in Bytes /\ ToNumber(raw.s) \in 1..(ToNumber(CurveOrder) - 1)
    BY <2>1, RawType
  <2>3. /\ t \in Seq(Byte)
        /\ r \in Seq(Byte) /\ Len(r) = W
    BY <2>2, BytesAre, Serialized
  <2>4. Len(t) # W <=> /\ TooHigh(ToNumber(raw.s))
                       /\ Len(ShortBytes(ToNumber(CurveOrder) - ToNumber(raw.s))) + 2 <= W
    BY <2>2, SerializedLength
  <2>. HIDE DEF r, t
  <2>5. Len(sig) = W + Len(t)
    BY <2>1, <2>3, Halves
  <2>6. Len(sig) # 2 * W <=> Len(t) # W
    BY <2>3, <2>5, BaseType
  <2> QED
    BY <2>4, <2>6
<1> QED
  BY <1>1, DerInvariant, PTL

\* A signature of ordinary components, high and short ones included, passes through the
\* script and is read back as it was signed (SignaturePubkey.go: encodeToScript and
\* decodeFromScriptBytes).
THEOREM OrdinaryReadBack == Spec => []OrdinarySurvives
<1>1. DerInv => OrdinarySurvives
  <2> SUFFICES ASSUME DerInv, pc # "made", Len(sig) = 2 * W, Ordinary(R), Ordinary(S)
               PROVE  pc \in {"signed", "inserted", "read"} /\ (pc = "read" => read = sig)
    BY DEF OrdinarySurvives
  <2>1. R \in Bytes /\ S \in Bytes
    BY WholeHalves
  <2>2. ~Panics(R) /\ ~Panics(S)
    BY <2>1, ComponentIs
  <2>3. WholeOrdinary
    BY DEF WholeOrdinary
  <2> QED
    BY <2>2, <2>3 DEF DerInv, States
<1> QED
  BY <1>1, DerInvariant, PTL
===============================================================================
