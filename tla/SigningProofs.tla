----------------------------- MODULE SigningProofs -----------------------------
(***************************************************************************)
(* What is signed, where the signatures go and what a verification means,    *)
(* for any number of inputs, keys and accounts.                              *)
(*                                                                         *)
(* The signatures of a contract coin's transaction end up at their own       *)
(* inputs.  The argument is that the hashes of one address stay in the order *)
(* of the inputs.  The account's list has them in that order and moving the   *)
(* first match to the front of the rest keeps it, so that the first match for *)
(* an input is never the hash of a later one; and it cannot be that of an     *)
(* earlier one, which stands in its place already.                           *)
(*                                                                         *)
(* The hashes are the node's, because a transaction is read back as it was   *)
(* written and the rounds of hashing leave nothing behind in the inputs.      *)
(*                                                                         *)
(* A verification says what the node will say, and the signed transaction     *)
(* passes it, because the transaction is what was made of the slots           *)
(* (VerdictInv), what is read of it are the signatures in them, and the       *)
(* messages made of it anew are the ones that were given out.                 *)
(***************************************************************************)
EXTENDS Signing, WellFoundedInduction, TLAPS

\* The places of h: all inputs have a hash, those before n in their place, those
\* of one owner in order.
InOrder(h, n, N, own) ==
    /\ h \in [1..N -> 1..N]
    /\ n \in Nat \ {0}
    /\ \A i \in 1..N : \E k \in 1..N : h[k] = i
    /\ \A i \in 1..N : i < n => h[i] = i
    /\ \A j, k \in 1..N : j < k /\ own[h[j]] = own[h[k]] => h[j] < h[k]

\* The first match from place n on is the hash of input n.
LEMMA FirstIsOwn ==
    ASSUME NEW N \in Nat, NEW own, NEW h, NEW n \in 1..N, InOrder(h, n, N, own),
           NEW end \in n..N, own[h[end]] = own[n],
           \A k \in n..N : own[h[k]] = own[n] => end <= k
    PROVE  h[end] = n
  <1>1. PICK p \in 1..N : h[p] = n
    BY DEF InOrder
  <1>2. p >= n
    <2>1. p < n => h[p] = p
      BY DEF InOrder
    <2>. QED
      BY <1>1, <2>1
  <1>3. end <= p
    BY <1>1, <1>2
  <1>4. end \in 1..N /\ h[end] \in 1..N
    <2>1. end \in 1..N
      OBVIOUS
    <2>. QED
      BY <2>1 DEF InOrder
  <1>5. ASSUME end < p PROVE FALSE
    <2>1. h[end] < h[p]
      BY <1>1, <1>4, <1>5 DEF InOrder
    <2>2. h[end] < n /\ h[end] < end
      BY <1>1, <1>4, <2>1
    <2>3. h[h[end]] = h[end]
      BY <1>4, <2>2 DEF InOrder
    <2>4. h[h[end]] < h[end]
      BY <1>4, <2>2, <2>3 DEF InOrder
    <2>. QED
      BY <1>4, <2>3, <2>4
  <1>. QED
    BY <1>1, <1>3, <1>5

\* A hash at place n or after it, other than that of input n, is a later input's,
\* if of the same owner.
LEMMA RestIsLater ==
    ASSUME NEW N \in Nat, NEW own, NEW h, NEW n \in 1..N, InOrder(h, n, N, own),
           NEW end \in n..N, h[end] = n,
           NEW k \in n..N, k # end, own[h[k]] = own[n]
    PROVE  n < h[k]
  <1>1. k \in 1..N /\ end \in 1..N
    OBVIOUS
  <1>2. h[k] \in 1..N
    BY <1>1 DEF InOrder
  <1>3. h[k] # n
    <2>1. k < end => h[k] < h[end]
      BY <1>1 DEF InOrder
    <2>2. end < k => h[end] < h[k]
      BY <1>1 DEF InOrder
    <2>. QED
      BY <1>1, <2>1, <2>2
  <1>4. ASSUME h[k] < n PROVE FALSE
    <2>1. h[h[k]] = h[k]
      BY <1>2, <1>4 DEF InOrder
    <2>2. h[k] < k
      BY <1>2, <1>4
    <2>3. h[h[k]] < h[k]
      BY <1>1, <1>2, <2>1, <2>2 DEF InOrder
    <2>. QED
      BY <1>2, <2>1, <2>3
  <1>. QED
    BY <1>2, <1>3, <1>4

\* Moving that match to place n puts one more hash in place and keeps the order.
LEMMA MoveKeepsOrder ==
    ASSUME NEW N \in Nat, NEW own, NEW h, NEW n \in 1..N, InOrder(h, n, N, own),
           NEW end \in n..N, h[end] = n
    PROVE  InOrder(MoveFirst(h, n, end), n + 1, N, own)
  <1>. DEFINE g == MoveFirst(h, n, end)
              From(k) == IF k = n THEN end ELSE IF n < k /\ k <= end THEN k - 1 ELSE k
  <1>0. h \in [1..N -> 1..N] /\ DOMAIN h = 1..N
    BY DEF InOrder
  <1>1. \A k \in 1..N : From(k) \in 1..N /\ g[k] = h[From(k)]
    BY <1>0 DEF MoveFirst
  <1>2. g \in [1..N -> 1..N]
    <2>1. DOMAIN g = 1..N /\ g = [k \in 1..N |-> g[k]]
      BY <1>0 DEF MoveFirst
    <2>2. \A k \in 1..N : g[k] \in 1..N
      BY <1>0, <1>1
    <2>. QED
      BY <2>1, <2>2
  <1>. HIDE DEF g
  <1>3. \A i \in 1..N : \E k \in 1..N : g[k] = i
    <2>. SUFFICES ASSUME NEW i \in 1..N PROVE \E k \in 1..N : g[k] = i
      OBVIOUS
    <2>1. PICK k \in 1..N : h[k] = i
      BY DEF InOrder
    <2>. DEFINE to == IF k = end THEN n ELSE IF n <= k /\ k < end THEN k + 1 ELSE k
    <2>2. to \in 1..N /\ From(to) = k
      OBVIOUS
    <2>. QED
      BY <1>1, <2>1, <2>2
  <1>4. \A i \in 1..N : i < n + 1 => g[i] = i
    <2>. SUFFICES ASSUME NEW i \in 1..N, i < n + 1 PROVE g[i] = i
      OBVIOUS
    <2>1. CASE i = n
      BY <1>1, <2>1
    <2>2. CASE i < n
      <3>1. From(i) = i
        BY <2>2
      <3>2. h[i] = i
        BY <2>2 DEF InOrder
      <3>. QED
        BY <1>1, <3>1, <3>2
    <2>. QED
      BY <2>1, <2>2
  <1>5. ASSUME NEW j \in 1..N, NEW k \in 1..N, j < k, own[g[j]] = own[g[k]]
        PROVE  g[j] < g[k]
    <2>1. CASE j # n /\ k # n
      <3>1. From(j) < From(k) /\ From(j) \in 1..N /\ From(k) \in 1..N
        BY <1>5, <2>1
      <3>2. g[j] = h[From(j)] /\ g[k] = h[From(k)]
        BY <1>1
      <3>. HIDE DEF From
      <3>3. own[h[From(j)]] = own[h[From(k)]]
        BY <1>5, <3>2
      <3>4. h[From(j)] < h[From(k)]
        BY <3>1, <3>3 DEF InOrder
      <3>. QED
        BY <3>2, <3>4
    <2>2. CASE k = n
      <3>1. g[j] = j /\ g[k] = k
        BY <1>4, <1>5, <2>2
      <3>. QED
        BY <1>5, <3>1
    <2>3. CASE j = n
      <3>1. g[j] = n /\ From(k) \in n..N /\ From(k) # end
        BY <1>4, <1>5, <2>3
      <3>2. g[k] = h[From(k)]
        BY <1>1
      <3>. HIDE DEF From
      <3>3. own[h[From(k)]] = own[n]
        BY <1>5, <3>1, <3>2
      <3>. QED
        BY <3>1, <3>2, <3>3, RestIsLater
    <2>. QED
      BY <2>1, <2>2, <2>3
  <1>6. n + 1 \in Nat \ {0}
    OBVIOUS
  <1>7. InOrder(g, n + 1, N, own)
    <2>. HIDE DEF From
    <2>. QED
      BY <1>2, <1>3, <1>4, <1>5, <1>6 DEF InOrder
  <1>. QED
    BY <1>7 DEF g

-------------------------------------------------------------------------------
Owners == [i \in Ins |-> Owner(i)]

PlaceInv ==
    /\ IF pc = "new" THEN req = NoRequest /\ transHash = << >> ELSE req \in Requests
    /\ pc = "place" => transHash # << >> \/ unknown
    /\ \/ unknown
       \/ transHash = << >>
       \/ InOrder(transHash, next, Many, Owners)

LEMMA RequestInputs ==
    ASSUME req \in Requests
    PROVE  Ins = 1..Many /\ Many \in Nat \ {0}
  BY SigningAssumption, CodecAssumption DEF Ins, Many

\* In its order, a collection has all of the hashes, and those of an owner in order.
LEMMA CollectedInOrder ==
    ASSUME req \in Requests, NEW h \in Collected
    PROVE  InOrder(h, 1, Many, Owners)
  <1>1. Ins = 1..Many
    BY RequestInputs
  <1>2. h \in [Ins -> Ins]
    BY DEF Collected
  <1>3. ASSUME NEW j \in Ins, NEW k \in Ins, j < k, Owners[h[j]] = Owners[h[k]]
        PROVE  h[j] < h[k]
    <2>1. Owner(h[j]) = Owner(h[k])
      BY <1>2, <1>3 DEF Owners
    <2>2. AccountOf(h[j]) = AccountOf(h[k])
      BY <2>1 DEF AccountOf
    <2>. QED
      BY <1>3, <2>2 DEF Collected
  <1>. QED
    BY <1>1, <1>2, <1>3 DEF Collected, InOrder

LEMMA PlaceInit == Init => PlaceInv
  BY DEF Init, PlaceInv

\* Looking up the next input, with a match.
LEMMA PlaceNextKeeps ==
    ASSUME PlaceInv, PlaceNext
    PROVE  PlaceInv'
  <1>. USE DEF PlaceNext
  <1>1. req \in Requests /\ req' = req /\ pc' = pc /\ unknown' = unknown
    BY DEF PlaceInv
  <1>2. PICK end \in Matching(transHash, next, next) :
            /\ \A k \in Matching(transHash, next, next) : end <= k
            /\ transHash' = MoveFirst(transHash, next, end)
    OBVIOUS
  <1>3. Owners' = Owners /\ Many' = Many
    BY <1>1 DEF Owners, Owner, Ins, Many
  <1>4. CASE unknown
    BY <1>1, <1>4 DEF PlaceInv
  <1>5. CASE ~unknown
    <2>1. InOrder(transHash, next, Many, Owners) /\ pc = "place" /\ transHash # << >>
      BY <1>5 DEF PlaceInv
    <2>2. Ins = 1..Many /\ Many \in Nat /\ next \in 1..Many
      BY <1>1, RequestInputs
    <2>3. transHash \in [1..Many -> 1..Many] /\ DOMAIN transHash = 1..Many
      BY <2>1 DEF InOrder
    <2>4. Len(transHash) = Many
      BY <2>2, <2>3
    <2>5. end \in next..Many /\ Owners[transHash[end]] = Owners[next]
      <3>1. end \in next..Many /\ Owner(transHash[end]) = Owner(next)
        BY <1>2, <2>4 DEF Matching
      <3>2. transHash[end] \in Ins /\ next \in Ins
        BY <2>2, <2>3, <3>1
      <3>. QED
        BY <3>1, <3>2 DEF Owners
    <2>6. ASSUME NEW k \in next..Many, Owners[transHash[k]] = Owners[next]
          PROVE  end <= k
      <3>1. transHash[k] \in Ins /\ next \in Ins
        BY <2>2, <2>3
      <3>2. Owner(transHash[k]) = Owner(next)
        BY <2>6, <3>1 DEF Owners
      <3>. QED
        BY <1>2, <2>4, <3>2 DEF Matching
    <2>7. transHash[end] = next
      BY <2>1, <2>2, <2>5, <2>6, FirstIsOwn
    <2>8. InOrder(transHash', next', Many, Owners)
      BY <1>2, <2>1, <2>2, <2>5, <2>7, MoveKeepsOrder
    <2>9. transHash' # << >>
      BY <2>2, <2>8 DEF InOrder
    <2>. QED
      BY <1>1, <1>3, <2>1, <2>8, <2>9 DEF PlaceInv
  <1>. QED
    BY <1>4, <1>5

LEMMA PlaceStep == PlaceInv /\ [Next]_vars => PlaceInv'
  <1>. SUFFICES ASSUME PlaceInv, [Next]_vars PROVE PlaceInv'
    OBVIOUS
  <1>. DEFINE Same == /\ req' = req /\ UNCHANGED lookUp
                      /\ pc # "new" /\ pc' # "new"
                      /\ pc' = "place" => pc = "place"
  <1>1. ASSUME Same PROVE PlaceInv'
    <2>1. Owners' = Owners /\ Many' = Many
      BY <1>1 DEF Owners, Owner, Ins, Many
    <2>. QED
      BY <1>1, <2>1 DEF PlaceInv, lookUp
  <1>2. ASSUME NEW r \in Requests, CreateEmptyRawTransaction(r) PROVE PlaceInv'
    BY <1>2 DEF PlaceInv, CreateEmptyRawTransaction, lookUp
  <1>3. CASE CreateRawTransactionHashForSig
    BY <1>1, <1>3 DEF CreateRawTransactionHashForSig
  <1>4. ASSUME NEW i, NEW j, NEW sig, FillSlot(i, j, sig) PROVE PlaceInv'
    BY <1>1, <1>4 DEF FillSlot
  <1>5. ASSUME NEW i, SignOne(i) PROVE PlaceInv'
    BY <1>1, <1>5 DEF SignOne
  <1>6. ASSUME NEW i, Spend(i) PROVE PlaceInv'
    BY <1>1, <1>6 DEF Spend
  <1>7. CASE VerifyCollect
    <2>. USE <1>7 DEF VerifyCollect
    <2>1. req \in Requests /\ req' = req
      BY DEF PlaceInv
    <2>2. Owners' = Owners /\ Many' = Many
      BY <2>1 DEF Owners, Owner, Ins, Many
    <2>3. PICK h \in Collected : transHash' = h
      OBVIOUS
    <2>4. InOrder(transHash', next', Many, Owners)
      BY <2>1, <2>3, CollectedInOrder
    <2>5. Many \in Nat \ {0}
      BY <2>1, RequestInputs
    <2>6. transHash' # << >>
      BY <2>4, <2>5 DEF InOrder
    <2>. QED
      BY <2>1, <2>2, <2>4, <2>6 DEF PlaceInv
  <1>8. CASE PlaceNext
    BY <1>8, PlaceNextKeeps
  <1>9. CASE PlaceDrops
    BY <1>9 DEF PlaceDrops, NothingMatches, PlaceInv
  <1>10. CASE PlacePanics
    BY <1>1, <1>10 DEF PlacePanics, NothingMatches
  <1>11. CASE PlaceFails
    BY <1>1, <1>11 DEF PlaceFails
  <1>12. CASE Placed
    BY <1>1, <1>12 DEF Placed
  <1>13. CASE InsertSignatureIntoEmptyTransaction
    BY <1>1, <1>13 DEF InsertSignatureIntoEmptyTransaction
  <1>14. CASE VerifyRawTransaction
    BY <1>1, <1>14 DEF VerifyRawTransaction
  <1>15. CASE UNCHANGED vars
    <2>1. Owners' = Owners /\ Many' = Many
      BY <1>15 DEF Owners, Owner, Ins, Many, vars
    <2>. QED
      BY <1>15, <2>1 DEF PlaceInv, vars, lookUp
  <1>. QED
    BY <1>2, <1>3, <1>4, <1>5, <1>6, <1>7, <1>8, <1>9, <1>10, <1>11, <1>12, <1>13, <1>14, <1>15
       DEF Next

LEMMA PlaceInvImplies == PlaceInv => MessagesInPlace
  <1>. SUFFICES ASSUME PlaceInv, ~unknown, NEW i \in DOMAIN transHash, i < next
                PROVE  transHash[i] = i
    BY DEF MessagesInPlace
  <1>1. InOrder(transHash, next, Many, Owners)
    BY DEF PlaceInv
  <1>. QED
    BY <1>1 DEF InOrder

\* However the map of accounts is gone through, resetTransHashFunc puts the hash of
\* each input looked up (vas/tx_decode.go:640, :1327) in the input's own place.
THEOREM HashesInPlace == Spec => []MessagesInPlace
  <1>1. PlaceInv => MessagesInPlace
    BY PlaceInvImplies
  <1>. QED
    BY <1>1, PlaceInit, PlaceStep, PTL DEF Spec

-------------------------------------------------------------------------------
(* Induction on the numbers.                                               *)

\* A set of naturals has a least member.
LEMMA LeastNat ==
    ASSUME NEW T, T \subseteq Nat, T # {}
    PROVE  \E m \in T : \A n \in T : m <= n
<1>. DEFINE R == OpToRel(<, Nat)
<1>1. IsWellFoundedOn(R, Nat)
  BY NatLessThanWellFounded
<1>2. \A x, y \in Nat : x < y => <<x, y>> \in R
  BY DEF OpToRel
<1>. HIDE DEF R
<1>3. PICK m \in T : \A y \in T : ~ (<<y, m>> \in R)
  BY <1>1, WFMin
<1>4. ASSUME NEW n \in T PROVE m <= n
  <2>1. m \in Nat /\ n \in Nat
    OBVIOUS
  <2>2. ~(n < m)
    BY <1>2, <1>3, <2>1
  <2> QED
    BY <2>1, <2>2
<1> QED
  BY <1>4

\* Induction, for a set in the place of a predicate.
LEMMA NatSetInduction ==
    ASSUME NEW S, 0 \in S, \A n \in Nat : n \in S => n + 1 \in S
    PROVE  Nat \subseteq S
<1>. DEFINE T == {n \in Nat : n \notin S}
<1>1. SUFFICES ASSUME T # {} PROVE FALSE
  OBVIOUS
<1>2. PICK m \in T : \A n \in T : m <= n
  BY <1>1, LeastNat
<1>3. m # 0 /\ m - 1 \in Nat /\ m - 1 \notin T
  BY <1>2
<1> QED
  BY <1>2, <1>3

\* A function may be defined by recursion on the places of a sequence: F[k][v] is its
\* value at k, given that it is v at the place before.
Recursive(f, n, first, F) ==
    f = [k \in 0..n |-> IF k = 0 THEN first ELSE F[k][f[k - 1]]]

LEMMA RecursionExists ==
    ASSUME NEW n \in Nat, NEW V, NEW first \in V, NEW F \in [1..n -> [V -> V]]
    PROVE  \E f \in [0..n -> V] : Recursive(f, n, first, F)
<1>. DEFINE Ok == {m \in Nat : m <= n =>
                        \E f \in [0..m -> V] :
                            f = [k \in 0..m |-> IF k = 0 THEN first ELSE F[k][f[k - 1]]]}
<1>1. 0 \in Ok
  <2>. DEFINE g == [k \in 0..0 |-> first]
  <2>1. g \in [0..0 -> V] /\ g = [k \in 0..0 |-> IF k = 0 THEN first ELSE F[k][g[k - 1]]]
    OBVIOUS
  <2> QED
    BY <2>1
<1>2. ASSUME NEW m \in Nat, m \in Ok PROVE m + 1 \in Ok
  <2> SUFFICES ASSUME m + 1 <= n
               PROVE  \E f \in [0..(m + 1) -> V] :
                          f = [k \in 0..(m + 1) |-> IF k = 0 THEN first ELSE F[k][f[k - 1]]]
    OBVIOUS
  <2>1. PICK h \in [0..m -> V] : h = [k \in 0..m |-> IF k = 0 THEN first ELSE F[k][h[k - 1]]]
    BY <1>2
  <2>2. m + 1 \in 1..n /\ F[m + 1][h[m]] \in V
    OBVIOUS
  <2>. DEFINE g == [k \in 0..(m + 1) |-> IF k = m + 1 THEN F[m + 1][h[m]] ELSE h[k]]
  <2>3. g \in [0..(m + 1) -> V]
    BY <2>2
  <2>4. ASSUME NEW k \in 0..(m + 1)
        PROVE  g[k] = IF k = 0 THEN first ELSE F[k][g[k - 1]]
    <3>1. CASE k = m + 1
      BY <2>2, <3>1
    <3>2. CASE k # m + 1
      <4>1. k \in 0..m /\ (k # 0 => k - 1 \in 0..m /\ k - 1 # m + 1)
        BY <3>2
      <4>2. g[k] = h[k] /\ (k # 0 => g[k - 1] = h[k - 1])
        BY <3>2, <4>1
      <4>3. h[k] = IF k = 0 THEN first ELSE F[k][h[k - 1]]
        BY <2>1, <4>1
      <4> QED
        BY <4>2, <4>3
    <3> QED
      BY <3>1, <3>2
  <2>. HIDE DEF g
  <2>5. g = [k \in 0..(m + 1) |-> IF k = 0 THEN first ELSE F[k][g[k - 1]]]
    BY <2>3, <2>4
  <2> QED
    BY <2>3, <2>5
<1>. HIDE DEF Ok
<1>3. n \in Ok
  BY <1>1, <1>2, NatSetInduction
<1> QED
  BY <1>3 DEF Ok, Recursive

-------------------------------------------------------------------------------
(* The bytes of a transaction.                                             *)

\* One sequence after another.
LEMMA Joined ==
    ASSUME NEW T, NEW s \in Seq(T), NEW t \in Seq(T)
    PROVE  /\ s \o t \in Seq(T)
           /\ Len(s \o t) = Len(s) + Len(t)
           /\ \A k \in 1..Len(s) : (s \o t)[k] = s[k]
           /\ \A k \in 1..Len(t) : (s \o t)[Len(s) + k] = t[k]
OBVIOUS

\* The items s that n inputs and m outputs are written as.
ItemsOf(s, T, n, m, ic, ins, oc, vouts) ==
    /\ s \in Seq(T) /\ Len(s) = n + m + 2
    /\ s[1] = <<"count", ic>>
    /\ \A i \in 1..n : s[1 + i] = <<"in", i, ins[i]>>
    /\ s[n + 2] = <<"count", oc>>
    /\ \A j \in 1..m : s[n + 2 + j] = <<"out", vouts[j]>>

LEMMA ItemsAre ==
    ASSUME NEW T, NEW n \in Nat, NEW m \in Nat, NEW ins, NEW vouts, NEW ic, NEW oc,
           DOMAIN ins = 1..n, DOMAIN vouts = 1..m,
           <<"count", ic>> \in T, <<"count", oc>> \in T,
           \A i \in 1..n : <<"in", i, ins[i]>> \in T,
           \A j \in 1..m : <<"out", vouts[j]>> \in T
    PROVE  ItemsOf(Items(ic, ins, oc, vouts), T, n, m, ic, ins, oc, vouts)
<1>. DEFINE s == Items(ic, ins, oc, vouts)
<1>. DEFINE a == <<<<"count", ic>>>>
            b == [i \in DOMAIN ins |-> <<"in", i, ins[i]>>]
            c == <<<<"count", oc>>>>
            d == [j \in DOMAIN vouts |-> <<"out", vouts[j]>>]
<1>1. a \in Seq(T) /\ Len(a) = 1 /\ a[1] = <<"count", ic>>
  OBVIOUS
<1>2. c \in Seq(T) /\ Len(c) = 1 /\ c[1] = <<"count", oc>>
  OBVIOUS
<1>3. b \in Seq(T) /\ Len(b) = n /\ \A i \in 1..n : b[i] = <<"in", i, ins[i]>>
  <2>1. b \in [1..n -> T]
    OBVIOUS
  <2> QED
    BY <2>1
<1>4. d \in Seq(T) /\ Len(d) = m /\ \A j \in 1..m : d[j] = <<"out", vouts[j]>>
  <2>1. d \in [1..m -> T]
    OBVIOUS
  <2> QED
    BY <2>1
<1>5. s = ((a \o b) \o c) \o d
  BY DEF Items
<1>. HIDE DEF a, b, c, d, s
<1>. DEFINE ab == a \o b
            abc == ab \o c
<1>6. /\ ab \in Seq(T) /\ Len(ab) = n + 1 /\ ab[1] = <<"count", ic>>
      /\ \A i \in 1..n : ab[1 + i] = <<"in", i, ins[i]>>
  <2>1. /\ ab \in Seq(T) /\ Len(ab) = Len(a) + Len(b)
        /\ \A k \in 1..Len(a) : ab[k] = a[k]
        /\ \A k \in 1..Len(b) : ab[Len(a) + k] = b[k]
    <3>1. a \in Seq(T) /\ b \in Seq(T)
      BY <1>1, <1>3
    <3> QED
      BY <3>1, Joined
  <2>. HIDE DEF ab
  <2>2. ab[1] = a[1]
    BY <1>1, <2>1
  <2>3. \A i \in 1..n : ab[1 + i] = b[i]
    BY <1>1, <1>3, <2>1
  <2>4. Len(ab) = n + 1
    BY <1>1, <1>3, <2>1
  <2> QED
    BY <1>1, <1>3, <2>1, <2>2, <2>3, <2>4
<1>. HIDE DEF ab
<1>7. /\ abc \in Seq(T) /\ Len(abc) = n + 2 /\ abc[n + 2] = <<"count", oc>>
      /\ \A k \in 1..(n + 1) : abc[k] = ab[k]
  <2>1. /\ abc \in Seq(T) /\ Len(abc) = Len(ab) + Len(c)
        /\ \A k \in 1..Len(ab) : abc[k] = ab[k]
        /\ \A k \in 1..Len(c) : abc[Len(ab) + k] = c[k]
    <3>1. ab \in Seq(T) /\ c \in Seq(T)
      BY <1>2, <1>6
    <3> QED
      BY <3>1, Joined
  <2>. HIDE DEF abc
  <2>2. abc[Len(ab) + 1] = c[1] /\ Len(ab) + 1 = n + 2
    BY <1>2, <1>6, <2>1
  <2> QED
    BY <1>2, <1>6, <2>1, <2>2
<1>. HIDE DEF abc
<1>8. /\ s \in Seq(T) /\ Len(s) = n + m + 2
      /\ \A k \in 1..(n + 2) : s[k] = abc[k]
      /\ \A j \in 1..m : s[n + 2 + j] = d[j]
  <2>1. /\ s \in Seq(T) /\ Len(s) = Len(abc) + Len(d)
        /\ \A k \in 1..Len(abc) : s[k] = abc[k]
        /\ \A k \in 1..Len(d) : s[Len(abc) + k] = d[k]
    <3>1. abc \in Seq(T) /\ d \in Seq(T) /\ s = abc \o d
      BY <1>4, <1>5, <1>7 DEF abc, ab
    <3> QED
      BY <3>1, Joined
  <2> QED
    BY <1>4, <1>7, <2>1
<1>9. s[1] = <<"count", ic>> /\ s[n + 2] = <<"count", oc>>
  BY <1>6, <1>7, <1>8
<1>10. \A i \in 1..n : s[1 + i] = <<"in", i, ins[i]>>
  <2> TAKE i \in 1..n
  <2>1. 1 + i \in 1..(n + 1) /\ 1 + i \in 1..(n + 2)
    OBVIOUS
  <2> QED
    BY <1>6, <1>7, <1>8, <2>1
<1> QED
  BY <1>4, <1>8, <1>9, <1>10 DEF ItemsOf, s

\* The bytes of a transaction t of n inputs and m outputs, with or without witnesses:
\* ins and wits are what its inputs and its witnesses are written as.
BytesOf(b, t, n, m, ins, wits) ==
    LET p == IF t.witness THEN 1 ELSE 0 IN
    /\ Len(b) = p + n + m + 3 + (IF t.witness THEN n ELSE 0)
    /\ t.witness <=> b[1] = Marker
    /\ b[p + 1] = <<"count", Byte(n)>>
    /\ \A i \in 1..n : b[p + 1 + i] = <<"in", i, ins[i]>>
    /\ b[p + n + 2] = <<"count", Byte(m)>>
    /\ \A j \in 1..m : b[p + n + 2 + j] = <<"out", t.vouts[j]>>
    /\ t.witness => \A i \in 1..n : b[p + n + m + 2 + i] = wits[i]

LEMMA EncodedAre ==
    ASSUME NEW n \in Nat, NEW m \in Nat, NEW t, NEW segwitOn,
           t.witness \in BOOLEAN, DOMAIN t.vins = 1..n, DOMAIN t.vouts = 1..m,
           Len(t.vins) = n, Len(t.vouts) = m
    PROVE  BytesOf(encodeToBytes(t, segwitOn), t, n, m,
                   [i \in 1..n |-> toBytes(t.vins[i], segwitOn)],
                   [i \in 1..n |-> toSegwitBytes(t.vins[i])])
<1>. DEFINE ins == [i \in 1..n |-> toBytes(t.vins[i], segwitOn)]
            wits == [i \in 1..n |-> toSegwitBytes(t.vins[i])]
            T == {Marker, LockTime, <<"count", Byte(n)>>, <<"count", Byte(m)>>}
                 \union {<<"in", i, ins[i]>> : i \in 1..n}
                 \union {<<"out", t.vouts[j]>> : j \in 1..m}
                 \union {wits[i] : i \in 1..n}
            mark == IF t.witness THEN <<Marker>> ELSE << >>
            items == Items(Byte(n), ins, Byte(m), t.vouts)
            tail == IF t.witness THEN wits ELSE << >>
            last == <<LockTime>>
            b == encodeToBytes(t, segwitOn)
            p == IF t.witness THEN 1 ELSE 0
            w == IF t.witness THEN n ELSE 0
<1>1. b = ((mark \o items) \o tail) \o last
  BY DEF encodeToBytes
<1>2. mark \in Seq(T) /\ Len(mark) = p /\ (t.witness => mark[1] = Marker)
  <2>1. Marker \in T
    OBVIOUS
  <2>. HIDE DEF T
  <2>2. <<Marker>> \in Seq(T) /\ << >> \in Seq(T)
    BY <2>1
  <2> QED
    BY <2>2
<1>3. tail \in Seq(T) /\ Len(tail) = w /\ (t.witness => \A i \in 1..n : tail[i] = wits[i])
  <2>1. wits \in [1..n -> T]
    OBVIOUS
  <2>. HIDE DEF T, wits
  <2>2. wits \in Seq(T) /\ Len(wits) = n /\ << >> \in Seq(T)
    BY <2>1
  <2> QED
    BY <2>2
<1>4. last \in Seq(T) /\ Len(last) = 1
  OBVIOUS
<1>5. /\ items \in Seq(T) /\ Len(items) = n + m + 2
      /\ items[1] = <<"count", Byte(n)>>
      /\ \A i \in 1..n : items[1 + i] = <<"in", i, ins[i]>>
      /\ items[n + 2] = <<"count", Byte(m)>>
      /\ \A j \in 1..m : items[n + 2 + j] = <<"out", t.vouts[j]>>
  <2>1. /\ <<"count", Byte(n)>> \in T /\ <<"count", Byte(m)>> \in T
        /\ \A i \in 1..n : <<"in", i, ins[i]>> \in T
        /\ \A j \in 1..m : <<"out", t.vouts[j]>> \in T
    OBVIOUS
  <2>2. DOMAIN ins = 1..n
    OBVIOUS
  <2>. DEFINE vouts == t.vouts
              ic == Byte(n)
              oc == Byte(m)
  <2>3. DOMAIN vouts = 1..m /\ items = Items(ic, ins, oc, vouts)
    OBVIOUS
  <2>. HIDE DEF T, ins, items, vouts, ic, oc
  <2>4. ItemsOf(Items(ic, ins, oc, vouts), T, n, m, ic, ins, oc, vouts)
    <3>1. /\ <<"count", ic>> \in T /\ <<"count", oc>> \in T
          /\ \A j \in 1..m : <<"out", vouts[j]>> \in T
      BY <2>1 DEF ic, oc, vouts
    <3> QED
      BY <2>1, <2>2, <2>3, <3>1, ItemsAre
  <2> QED
    BY <2>3, <2>4 DEF ItemsOf, ic, oc, vouts
<1>6. <<"count", Byte(n)>> # Marker
  BY DEF Marker
<1>7. p \in Nat /\ w \in Nat
  OBVIOUS
<1>. HIDE DEF T, mark, items, tail, last, b, ins, wits
<1>. DEFINE mi == mark \o items
            mit == mi \o tail
<1>8. /\ mi \in Seq(T) /\ Len(mi) = p + (n + m + 2)
      /\ t.witness => mi[1] = Marker
      /\ \A k \in 1..(n + m + 2) : mi[p + k] = items[k]
  <2>1. /\ mi \in Seq(T) /\ Len(mi) = Len(mark) + Len(items)
        /\ \A k \in 1..Len(mark) : mi[k] = mark[k]
        /\ \A k \in 1..Len(items) : mi[Len(mark) + k] = items[k]
    <3>1. mark \in Seq(T) /\ items \in Seq(T)
      BY <1>2, <1>5
    <3> QED
      BY <3>1, Joined
  <2>. HIDE DEF mi
  <2> QED
    BY <1>2, <1>5, <2>1
<1>. HIDE DEF mi
<1>9. /\ mit \in Seq(T) /\ Len(mit) = p + (n + m + 2) + w
      /\ \A k \in 1..(p + (n + m + 2)) : mit[k] = mi[k]
      /\ t.witness => \A i \in 1..n : mit[p + (n + m + 2) + i] = wits[i]
  <2>1. /\ mit \in Seq(T) /\ Len(mit) = Len(mi) + Len(tail)
        /\ \A k \in 1..Len(mi) : mit[k] = mi[k]
        /\ \A k \in 1..Len(tail) : mit[Len(mi) + k] = tail[k]
    <3>1. mi \in Seq(T) /\ tail \in Seq(T)
      BY <1>3, <1>8
    <3> QED
      BY <3>1, Joined
  <2>. HIDE DEF mit
  <2>2. Len(mit) = p + (n + m + 2) + w /\ \A k \in 1..(p + (n + m + 2)) : mit[k] = mi[k]
    <3>. HIDE DEF p, w
    <3> QED
      BY <1>3, <1>8, <2>1
  <2>3. t.witness => \A i \in 1..n : mit[p + (n + m + 2) + i] = wits[i]
    BY <1>3, <1>8, <2>1
  <2> QED
    BY <2>1, <2>2, <2>3
<1>. HIDE DEF mit
<1>10. /\ Len(b) = p + (n + m + 2) + w + 1
       /\ \A k \in 1..(p + (n + m + 2) + w) : b[k] = mit[k]
  <2>1. /\ b \in Seq(T) /\ Len(b) = Len(mit) + Len(last)
        /\ \A k \in 1..Len(mit) : b[k] = mit[k]
    <3>1. mit \in Seq(T) /\ last \in Seq(T) /\ b = mit \o last
      BY <1>1, <1>4, <1>9 DEF mit, mi
    <3> QED
      BY <3>1, Joined
  <2>. HIDE DEF p, w
  <2> QED
    BY <1>4, <1>9, <2>1
<1>11. \A k \in 1..(n + m + 2) : b[p + k] = items[k]
  <2> TAKE k \in 1..(n + m + 2)
  <2>1. p + k \in 1..(p + (n + m + 2)) /\ p + k \in 1..(p + (n + m + 2) + w)
    BY <1>7
  <2>2. mi[p + k] = items[k]
    BY <1>8
  <2>. HIDE DEF p, w
  <2> QED
    BY <1>9, <1>10, <2>1, <2>2
<1>12. /\ b[p + 1] = <<"count", Byte(n)>>
       /\ \A i \in 1..n : b[p + 1 + i] = <<"in", i, ins[i]>>
       /\ b[p + n + 2] = <<"count", Byte(m)>>
       /\ \A j \in 1..m : b[p + n + 2 + j] = <<"out", t.vouts[j]>>
  <2>1. b[p + 1] = items[1] /\ b[p + (n + 2)] = items[n + 2]
    <3>. HIDE DEF p
    <3> QED
      BY <1>11
  <2>2. ASSUME NEW i \in 1..n PROVE b[p + 1 + i] = <<"in", i, ins[i]>>
    <3>1. 1 + i \in 1..(n + m + 2) /\ p + (1 + i) = p + 1 + i
      BY <1>7
    <3>. HIDE DEF p
    <3> QED
      BY <1>5, <1>11, <3>1
  <2>3. ASSUME NEW j \in 1..m PROVE b[p + n + 2 + j] = <<"out", t.vouts[j]>>
    <3>1. n + 2 + j \in 1..(n + m + 2) /\ p + (n + 2 + j) = p + n + 2 + j
      BY <1>7
    <3>. HIDE DEF p
    <3> QED
      BY <1>5, <1>11, <3>1
  <2>4. p + (n + 2) = p + n + 2
    BY <1>7
  <2>. HIDE DEF p
  <2> QED
    BY <1>5, <2>1, <2>2, <2>3, <2>4
<1>13. t.witness <=> b[1] = Marker
  <2>1. CASE t.witness
    <3>1. p = 1 /\ 1 \in 1..(p + (n + m + 2)) /\ 1 \in 1..(p + (n + m + 2) + w)
      BY <2>1
    <3>. HIDE DEF p, w
    <3> QED
      BY <1>8, <1>9, <1>10, <2>1, <3>1
  <2>2. CASE ~t.witness
    <3>1. b[1] = <<"count", Byte(n)>>
      BY <1>12, <2>2
    <3> QED
      BY <1>6, <2>2, <3>1
  <2> QED
    BY <2>1, <2>2
<1>14. t.witness => \A i \in 1..n : b[p + n + m + 2 + i] = wits[i]
  <2> SUFFICES ASSUME t.witness, NEW i \in 1..n PROVE b[p + n + m + 2 + i] = wits[i]
    OBVIOUS
  <2>1. p + (n + m + 2) + i \in 1..(p + (n + m + 2) + w)
        /\ p + (n + m + 2) + i = p + n + m + 2 + i
    BY <1>7
  <2>. HIDE DEF p, w
  <2> QED
    BY <1>9, <1>10, <2>1
<1>15. Len(b) = p + n + m + 3 + w
  <2>. HIDE DEF p, w
  <2> QED
    BY <1>7, <1>10
<1>. HIDE DEF b
<1> QED
  BY <1>12, <1>13, <1>14, <1>15 DEF BytesOf, b, ins, wits

-------------------------------------------------------------------------------
(* Reading a transaction back.                                             *)

\* What can be read of such bytes, and what is read.
Legible(t, n, m, ins, wits, segwitOn) ==
    /\ m \in 1..(ByteRange - 1)
    /\ \A i \in 1..n : Readable(ins[i], t.witness)
    /\ t.witness => \A i \in 1..n :
          WitnessReadable(ReadVin(i, ins[i], t.witness), wits[i], segwitOn)

ReadBack(t, n, m, ins, wits) ==
    [witness |-> t.witness,
     vins |-> [i \in 1..n |->
                  IF t.witness THEN ReadWitness(ReadVin(i, ins[i], t.witness), wits[i])
                  ELSE ReadVin(i, ins[i], t.witness)],
     vouts |-> [j \in 1..m |-> t.vouts[j]]]

LEMMA DecodedIs ==
    ASSUME NEW n \in 1..(ByteRange - 1), NEW m \in Nat, NEW t, NEW segwitOn, NEW b,
           NEW ins, NEW wits, t.witness \in BOOLEAN, BytesOf(b, t, n, m, ins, wits)
    PROVE  DecodeRawTransaction(b, segwitOn)
              = IF Legible(t, n, m, ins, wits, segwitOn) THEN ReadBack(t, n, m, ins, wits) ELSE NoTx
<1>. DEFINE witness == b[1] = Marker
            in == IF witness THEN 2 ELSE 1
            count == b[in][2][1]
            out == in + count + 1
            outs == b[out][2][1]
            wit == out + outs
            end == wit + (IF witness THEN count ELSE 0) + 1
            vins == [i \in 1..count |-> ReadVin(b[in + i][2], b[in + i][3], witness)]
            ok == /\ Len(b) > 1
                  /\ count # 0
                  /\ \A i \in 1..count : Readable(b[in + i][3], witness)
                  /\ outs # 0
                  /\ end <= Len(b)
                  /\ \A i \in 1..outs : b[out + i][1] = "out"
                  /\ witness => \A i \in 1..count : WitnessReadable(vins[i], b[wit + i], segwitOn)
                  /\ end = Len(b)
            tx == [witness |-> witness,
                   vins |-> IF witness THEN [i \in 1..count |-> ReadWitness(vins[i], b[wit + i])] ELSE vins,
                   vouts |-> [i \in 1..outs |-> b[out + i][2]]]
            p == IF t.witness THEN 1 ELSE 0
            w == IF t.witness THEN n ELSE 0
<1>1. DecodeRawTransaction(b, segwitOn) = IF ok THEN tx ELSE NoTx
  BY DEF DecodeRawTransaction, Exhausted
<1>2. /\ Len(b) = p + n + m + 3 + w
      /\ t.witness <=> b[1] = Marker
      /\ b[p + 1] = <<"count", Byte(n)>>
      /\ \A i \in 1..n : b[p + 1 + i] = <<"in", i, ins[i]>>
      /\ b[p + n + 2] = <<"count", Byte(m)>>
      /\ \A j \in 1..m : b[p + n + 2 + j] = <<"out", t.vouts[j]>>
      /\ t.witness => \A i \in 1..n : b[p + n + m + 2 + i] = wits[i]
  BY DEF BytesOf
<1>3. /\ ByteRange \in Nat \ {0} /\ n \in Nat /\ n # 0 /\ n < ByteRange /\ p \in {0, 1} /\ w \in Nat
  BY CodecAssumption DEF CodecAssumption
<1>4. n % ByteRange = n
  BY <1>3, SMT
<1>5. /\ m % ByteRange \in 0..(ByteRange - 1)
      /\ (m % ByteRange = m <=> m < ByteRange)
  BY <1>3, SMT
<1>6. witness <=> t.witness
  BY <1>2
<1>7. in = p + 1
  BY <1>6
<1>8. count = n
  <2>1. b[in] = <<"count", Byte(n)>>
    BY <1>2, <1>7
  <2>2. Byte(n) = <<n>>
    BY <1>4 DEF Byte
  <2>. HIDE DEF in
  <2> QED
    BY <2>1, <2>2
<1>9. out = p + n + 2
  <2>. HIDE DEF in, p, count
  <2> QED
    BY <1>3, <1>7, <1>8
<1>10. outs = m % ByteRange
  <2>1. b[out] = <<"count", Byte(m)>>
    <3>. HIDE DEF out, p
    <3> QED
      BY <1>2, <1>9
  <2>. HIDE DEF out
  <2> QED
    BY <2>1 DEF Byte
<1>11. \A i \in 1..n : b[in + i] = <<"in", i, ins[i]>>
  <2>. HIDE DEF in, p
  <2> QED
    BY <1>2, <1>7
<1>12. \A i \in 1..n : b[in + i][2] = i /\ b[in + i][3] = ins[i]
  <2>. HIDE DEF in
  <2> QED
    BY <1>11
<1>13. vins = [i \in 1..n |-> ReadVin(i, ins[i], t.witness)]
  <2>1. (b[1] = Marker) = t.witness
    BY <1>6 DEF witness
  <2>. HIDE DEF in, count
  <2>2. \A i \in 1..n : ReadVin(b[in + i][2], b[in + i][3], b[1] = Marker) = ReadVin(i, ins[i], t.witness)
    BY <1>12, <2>1
  <2> QED
    BY <1>8, <2>2
<1>14. end = p + n + 3 + outs + w
  <2>. HIDE DEF out, outs, p, count
  <2> QED
    BY <1>3, <1>5, <1>6, <1>8, <1>9, <1>10
<1>15. end = Len(b) <=> outs = m
  <2>1. outs \in Nat
    BY <1>3, <1>5, <1>10
  <2>2. p \in Nat /\ w \in Nat /\ Len(b) = p + n + m + 3 + w
    BY <1>2, <1>3
  <2>. HIDE DEF end, outs, p, w
  <2> QED
    BY <1>3, <1>14, <2>1, <2>2
<1>16. ASSUME outs = m
       PROVE  /\ \A j \in 1..m : b[out + j] = <<"out", t.vouts[j]>>
              /\ t.witness => \A i \in 1..n : b[wit + i] = wits[i]
  <2>1. wit = p + n + m + 2
    <3>. HIDE DEF out, outs, p
    <3> QED
      BY <1>3, <1>9, <1>16
  <2>. HIDE DEF out, wit, p
  <2> QED
    BY <1>2, <1>9, <2>1
<1>17. ok <=> Legible(t, n, m, ins, wits, segwitOn)
  <2>1. CASE outs = m
    <3>1. m \in Nat /\ m < ByteRange /\ (m # 0 <=> m \in 1..(ByteRange - 1))
      BY <1>3, <1>5, <1>10, <2>1
    <3>2. Len(b) > 1 /\ count # 0 /\ end = Len(b) /\ end <= Len(b)
      <4>. HIDE DEF end, outs, count
      <4> QED
        BY <1>2, <1>3, <1>8, <1>15, <2>1
    <3>3. \A i \in 1..outs : b[out + i][1] = "out"
      <4>. HIDE DEF out, outs
      <4> QED
        BY <1>16, <2>1
    <3>4. (\A i \in 1..count : Readable(b[in + i][3], witness))
          <=> (\A i \in 1..n : Readable(ins[i], t.witness))
      <4>1. (b[1] = Marker) = t.witness
        BY <1>6
      <4>. HIDE DEF in, count
      <4> QED
        BY <1>8, <1>12, <4>1
    <3>5. (witness => \A i \in 1..count : WitnessReadable(vins[i], b[wit + i], segwitOn))
          <=> (t.witness => \A i \in 1..n :
                  WitnessReadable(ReadVin(i, ins[i], t.witness), wits[i], segwitOn))
      <4>. HIDE DEF wit, count, vins, witness
      <4> QED
        BY <1>6, <1>8, <1>13, <1>16, <2>1
    <3>. HIDE DEF in, count, out, outs, wit, end, vins
    <3> QED
      BY <2>1, <3>1, <3>2, <3>3, <3>4, <3>5 DEF Legible
  <2>2. CASE outs # m
    <3>1. ~(m \in 1..(ByteRange - 1))
      BY <1>3, <1>5, <1>10, <2>2
    <3>2. ~(end = Len(b))
      BY <1>15, <2>2
    <3> QED
      BY <3>1, <3>2 DEF Legible
  <2> QED
    BY <2>1, <2>2
<1>18. ASSUME ok PROVE tx = ReadBack(t, n, m, ins, wits)
  <2>1. outs = m
    BY <1>15, <1>18
  <2>2. (b[1] = Marker) = t.witness
    BY <1>6
  <2>3. [i \in 1..outs |-> b[out + i][2]] = [j \in 1..m |-> t.vouts[j]]
    <3>. HIDE DEF out, outs
    <3> QED
      BY <1>16, <2>1
  <2>4. (IF witness THEN [i \in 1..count |-> ReadWitness(vins[i], b[wit + i])] ELSE vins)
        = [i \in 1..n |->
              IF t.witness THEN ReadWitness(ReadVin(i, ins[i], t.witness), wits[i])
              ELSE ReadVin(i, ins[i], t.witness)]
    <3>. HIDE DEF wit, count, vins, witness
    <3>1. CASE t.witness
      BY <1>6, <1>8, <1>13, <1>16, <2>1, <3>1
    <3>2. CASE ~t.witness
      BY <1>6, <1>13, <3>2
    <3> QED
      BY <3>1, <3>2
  <2>. HIDE DEF in, count, out, outs, wit, vins
  <2> QED
    BY <2>2, <2>3, <2>4 DEF ReadBack
<1>. HIDE DEF ok, tx
<1> QED
  BY <1>1, <1>17, <1>18

-------------------------------------------------------------------------------
(* The rounds of getHashesForSig.                                          *)

IsVin(v) == v = [f \in {"prev", "type", "pub", "sig", "multi"} |-> v[f]]

\* Emptying an input again is the same, whatever script was put in between.
LEMMA EmptyTwice ==
    ASSUME NEW v, IsVin(v), NEW c
    PROVE  /\ IsVin(setEmpty(v)) /\ setEmpty(setEmpty(v)) = setEmpty(v)
           /\ setEmpty(v).type = "empty" /\ setEmpty(v).pub = None
           /\ IsVin([setEmpty(v) EXCEPT !.pub = c])
           /\ [setEmpty(v) EXCEPT !.pub = c].type = "empty"
           /\ [setEmpty(v) EXCEPT !.pub = c].pub = c
           /\ setEmpty([setEmpty(v) EXCEPT !.pub = c]) = setEmpty(v)
BY DEF IsVin, setEmpty

\* What round i works on: all inputs empty, and the script of input i in its place
\* unless its message is that of a witness.
RoundOf(vins, unlock, segwitOn, i) ==
    IF i = 0 THEN vins
    ELSE IF UsesWitness(unlock[i], segwitOn) THEN SetEmptyAll(vins)
    ELSE [SetEmptyAll(vins) EXCEPT ![i].pub = CodeOf(unlock[i])]

RoundStep(unlock, segwitOn, i, before) ==
    IF UsesWitness(unlock[i], segwitOn) THEN SetEmptyAll(before)
    ELSE [SetEmptyAll(before) EXCEPT ![i].pub = CodeOf(unlock[i])]

LEMMA RoundEmpties ==
    ASSUME NEW n \in Nat, NEW vins, NEW unlock, NEW segwitOn, NEW i \in 0..n,
           vins = [j \in 1..n |-> vins[j]], \A j \in 1..n : IsVin(vins[j])
    PROVE  SetEmptyAll(RoundOf(vins, unlock, segwitOn, i)) = SetEmptyAll(vins)
<1>. DEFINE e == SetEmptyAll(vins)
            c == CodeOf(unlock[i])
            r == RoundOf(vins, unlock, segwitOn, i)
<1>1. e = [j \in 1..n |-> setEmpty(vins[j])]
  BY DEF SetEmptyAll
<1>. HIDE DEF e, c
<1>2. SetEmptyAll(e) = e
  BY <1>1, EmptyTwice DEF SetEmptyAll
<1>3. CASE i = 0
  BY <1>3 DEF RoundOf, e
<1>4. CASE i # 0
  <2>1. CASE UsesWitness(unlock[i], segwitOn)
    BY <1>2, <1>4, <2>1 DEF RoundOf, e
  <2>2. CASE ~UsesWitness(unlock[i], segwitOn)
    <3>1. r = [e EXCEPT ![i].pub = c]
      BY <1>4, <2>2 DEF RoundOf, e, c
    <3>2. r = [j \in 1..n |-> IF j = i THEN [setEmpty(vins[j]) EXCEPT !.pub = c]
                              ELSE setEmpty(vins[j])]
      BY <1>1, <1>4, <3>1
    <3>. HIDE DEF r
    <3>3. \A j \in 1..n : setEmpty(r[j]) = setEmpty(vins[j])
      BY <3>2, EmptyTwice
    <3>4. SetEmptyAll(r) = e
      BY <1>1, <3>2, <3>3 DEF SetEmptyAll
    <3> QED
      BY <3>4 DEF r, e
  <2> QED
    BY <2>1, <2>2
<1> QED
  BY <1>3, <1>4

LEMMA RoundsAre ==
    ASSUME NEW unlock, NEW n \in Nat, Len(unlock) = n, NEW vins, NEW segwitOn,
           vins = [j \in 1..n |-> vins[j]], \A j \in 1..n : IsVin(vins[j])
    PROVE  \A i \in 0..n : RoundVins(vins, unlock, segwitOn)[i] = RoundOf(vins, unlock, segwitOn, i)
<1>. DEFINE Rounds(f) == f = [i \in 0..n |->
                IF i = 0 THEN vins ELSE RoundStep(unlock, segwitOn, i, f[i - 1])]
            g == [i \in 0..n |-> RoundOf(vins, unlock, segwitOn, i)]
            f == RoundVins(vins, unlock, segwitOn)
<1>1. f = CHOOSE h : Rounds(h)
  BY DEF RoundVins, RoundStep
<1>2. ASSUME NEW i \in 0..n, i # 0
      PROVE  RoundOf(vins, unlock, segwitOn, i)
                = RoundStep(unlock, segwitOn, i, RoundOf(vins, unlock, segwitOn, i - 1))
  <2>1. i - 1 \in 0..n
    BY <1>2
  <2>2. SetEmptyAll(RoundOf(vins, unlock, segwitOn, i - 1)) = SetEmptyAll(vins)
    BY <2>1, RoundEmpties
  <2>3. RoundOf(vins, unlock, segwitOn, i)
           = IF UsesWitness(unlock[i], segwitOn) THEN SetEmptyAll(vins)
             ELSE [SetEmptyAll(vins) EXCEPT ![i].pub = CodeOf(unlock[i])]
    BY <1>2 DEF RoundOf
  <2> QED
    BY <2>2, <2>3 DEF RoundStep
<1>3. RoundOf(vins, unlock, segwitOn, 0) = vins
  BY DEF RoundOf
<1>4. Rounds(g)
  <2>1. \A i \in 0..n : g[i] = IF i = 0 THEN vins ELSE RoundStep(unlock, segwitOn, i, g[i - 1])
    <3> TAKE i \in 0..n
    <3>1. CASE i = 0
      BY <1>3, <3>1
    <3>2. CASE i # 0
      <4>1. i - 1 \in 0..n
        BY <3>2
      <4>2. g[i - 1] = RoundOf(vins, unlock, segwitOn, i - 1) /\ g[i] = RoundOf(vins, unlock, segwitOn, i)
        BY <4>1
      <4>. HIDE DEF g
      <4> QED
        BY <1>2, <3>2, <4>2
    <3> QED
      BY <3>1, <3>2
  <2>2. g = [i \in 0..n |-> g[i]]
    OBVIOUS
  <2>. HIDE DEF g
  <2> QED
    BY <2>1, <2>2
<1>5. Rounds(f)
  <2>. HIDE DEF Rounds, f
  <2> QED
    BY <1>1, <1>4
<1>. HIDE DEF f
<1>. DEFINE Ok == {i \in Nat : i <= n => f[i] = RoundOf(vins, unlock, segwitOn, i)}
<1>6. 0 \in Ok
  BY <1>3, <1>5
<1>7. ASSUME NEW i \in Nat, i \in Ok PROVE i + 1 \in Ok
  <2> SUFFICES ASSUME i + 1 <= n PROVE f[i + 1] = RoundOf(vins, unlock, segwitOn, i + 1)
    OBVIOUS
  <2>1. i + 1 \in 0..n /\ i + 1 # 0 /\ (i + 1) - 1 = i /\ f[i] = RoundOf(vins, unlock, segwitOn, i)
    BY <1>7
  <2>2. f[i + 1] = RoundStep(unlock, segwitOn, i + 1, f[i])
    BY <1>5, <2>1
  <2> QED
    BY <1>2, <2>1, <2>2
<1>. HIDE DEF Ok
<1>8. Nat \subseteq Ok
  BY <1>6, <1>7, NatSetInduction
<1> QED
  BY <1>8 DEF Ok, f

-------------------------------------------------------------------------------
(* The messages.                                                           *)

\* A list of inputs with m outputs that is asked to be signed for.
Spendable(unlock, n, m) ==
    /\ unlock \in Seq(Output) /\ Len(unlock) = n /\ n \in 1..(VarIntMark - 1)
    /\ m \in 1..(ByteRange - 1) /\ m \notin VarIntMark..(ByteRange - 1)
    /\ \A i \in 1..n : Size(CodeOf(unlock[i])) < VarIntMark

\* A transaction of n inputs and m outputs, whatever the inputs carry.
Blank(t, n, m) ==
    \E vins : /\ t = [witness |-> FALSE, vins |-> vins, vouts |-> [j \in 1..m |-> j]]
              /\ vins = [j \in 1..n |-> vins[j]]
              /\ \A j \in 1..n : IsVin(vins[j])

LEMMA CodeSize ==
    ASSUME NEW o \in Output
    PROVE  Size(CodeOf(o)) \in Nat /\ CodeOf(o) # None
<1>1. CASE o.kind = "multisig"
  <2>1. CodeOf(o) = <<"redeem", o.required, o.keys>> /\ o.keys \in Seq(Keys)
    BY <1>1 DEF CodeOf, RedeemOf, Output
  <2>2. Len(o.keys) \in Nat /\ KeySize \in Nat
    BY <2>1, CodecAssumption DEF CodecAssumption
  <2>3. Size(CodeOf(o)) = KeySize * Len(o.keys)
    BY <2>1 DEF Size
  <2>4. KeySize * Len(o.keys) \in Nat
    BY <2>2, SMT
  <2>5. CodeOf(o) # None
    BY <2>1 DEF None
  <2> QED
    BY <2>3, <2>4, <2>5
<1>2. CASE o.kind # "multisig"
  <2>1. CodeOf(o) = <<"lock", o.keys>>
    BY <1>2 DEF CodeOf, LockOf
  <2>2. Size(CodeOf(o)) = 1 /\ CodeOf(o) # None
    BY <2>1 DEF Size, None
  <2> QED
    BY <2>2
<1> QED
  BY <1>1, <1>2

LEMMA OneByte ==
    ASSUME NEW k \in Nat, k < VarIntMark
    PROVE  Byte(k) = <<k>> /\ VarInt(k) = <<k>>
<1>1. k % ByteRange = k
  <2>1. ByteRange \in Nat /\ k < ByteRange /\ ByteRange # 0
    BY CodecAssumption DEF CodecAssumption
  <2> QED
    BY <2>1, SMT
<1> QED
  BY <1>1 DEF Byte, VarInt

LEMMA NoMarker ==
    ASSUME NEW T, NEW s \in Seq(T)
    PROVE  (<< >> \o s) \o << >> = s
OBVIOUS

LEMMA OtherVins ==
    ASSUME NEW w, NEW v, NEW o, NEW r
    PROVE  [[witness |-> w, vins |-> v, vouts |-> o] EXCEPT !.vins = r]
              = [witness |-> w, vins |-> r, vouts |-> o]
OBVIOUS

\* The inputs of a transaction.
Vins(v, n) == v = [j \in 1..n |-> v[j]] /\ \A j \in 1..n : IsVin(v[j])

\* What a round of hashing works on: empty inputs, with the script of one of them.
LEMMA RoundShape ==
    ASSUME NEW n \in Nat, NEW vins, NEW unlock, NEW segwitOn, NEW i \in 1..n, Vins(vins, n)
    PROVE  LET r == RoundOf(vins, unlock, segwitOn, i) IN
           /\ DOMAIN r = 1..n /\ Len(r) = n
           /\ \A j \in 1..n : r[j].type = "empty"
           /\ \A j \in 1..n : r[j].pub = IF j = i /\ ~UsesWitness(unlock[i], segwitOn)
                                         THEN CodeOf(unlock[i]) ELSE None
<1>. DEFINE o == unlock[i]
            code == CodeOf(o)
            r == RoundOf(vins, unlock, segwitOn, i)
            e == SetEmptyAll(vins)
            v(j) == IF j = i /\ ~UsesWitness(o, segwitOn)
                    THEN [setEmpty(vins[j]) EXCEPT !.pub = code] ELSE setEmpty(vins[j])
<1>0. vins = [j \in 1..n |-> vins[j]] /\ \A j \in 1..n : IsVin(vins[j])
  BY DEF Vins
<1>1. e = [j \in 1..n |-> setEmpty(vins[j])]
  BY <1>0 DEF SetEmptyAll
<1>2. r = IF UsesWitness(o, segwitOn) THEN e ELSE [e EXCEPT ![i].pub = code]
  BY DEF RoundOf
<1>3. r = [j \in 1..n |-> v(j)]
  <2>. HIDE DEF e, code, r, o
  <2>1. CASE UsesWitness(o, segwitOn)
    BY <1>1, <1>2, <2>1
  <2>2. CASE ~UsesWitness(o, segwitOn)
    BY <1>1, <1>2, <2>2
  <2> QED
    BY <2>1, <2>2
<1>4. \A j \in 1..n : /\ v(j).type = "empty"
                      /\ v(j).pub = IF j = i /\ ~UsesWitness(o, segwitOn) THEN code ELSE None
  <2> SUFFICES ASSUME NEW j \in 1..n
               PROVE  /\ v(j).type = "empty"
                      /\ v(j).pub = IF j = i /\ ~UsesWitness(o, segwitOn) THEN code ELSE None
    OBVIOUS
  <2>1. /\ setEmpty(vins[j]).type = "empty" /\ setEmpty(vins[j]).pub = None
        /\ [setEmpty(vins[j]) EXCEPT !.pub = code].type = "empty"
        /\ [setEmpty(vins[j]) EXCEPT !.pub = code].pub = code
    <3>. HIDE DEF code
    <3> QED
      BY <1>0, EmptyTwice
  <2>. HIDE DEF code, o
  <2> QED
    BY <2>1
<1>5. DOMAIN r = 1..n /\ Len(r) = n /\ \A j \in 1..n : r[j] = v(j)
  <2>. HIDE DEF r, v
  <2> QED
    BY <1>3
<1>. HIDE DEF r, v, code, o
<1> QED
  BY <1>4, <1>5 DEF r, o, code

\* A hash does not depend on what the inputs carry.
LEMMA HashOfRound ==
    ASSUME NEW n \in Nat, NEW m, NEW unlock, Len(unlock) = n, DOMAIN unlock = 1..n, NEW segwitOn,
           NEW i \in 1..n, NEW vins, NEW w, NEW t,
           t = [witness |-> w, vins |-> vins, vouts |-> [j \in 1..m |-> j]], Vins(vins, n)
    PROVE  getHashesForSig(t, unlock, segwitOn)[i]
              = getBytesForSig([witness |-> w, vins |-> RoundOf(vins, unlock, segwitOn, i),
                                vouts |-> [j \in 1..m |-> j]], i, unlock[i], segwitOn)
<1>. DEFINE vouts == [j \in 1..m |-> j]
            r == RoundOf(vins, unlock, segwitOn, i)
            ti == [witness |-> w, vins |-> r, vouts |-> vouts]
<1>1. RoundVins(vins, unlock, segwitOn)[i] = r
  <2>1. i \in 0..n
    OBVIOUS
  <2> QED
    BY <2>1, RoundsAre DEF Vins
<1>2. t.vins = vins /\ [t EXCEPT !.vins = r] = ti
  <2>. HIDE DEF r, vouts
  <2>1. t = [witness |-> w, vins |-> vins, vouts |-> vouts]
    BY DEF vouts
  <2>2. [t EXCEPT !.vins = r] = ti
    BY <2>1, OtherVins
  <2>3. t.vins = vins
    BY <2>1
  <2> QED
    BY <2>2, <2>3
<1>. HIDE DEF r, ti
<1> QED
  BY <1>1, <1>2 DEF getHashesForSig, ti, r

\* The message of input i is the node's.
LEMMA HashesAre ==
    ASSUME NEW n, NEW m, NEW unlock, Spendable(unlock, n, m), NEW t, Blank(t, n, m),
           NEW segwitOn, NEW i \in 1..n,
           UsesWitness(unlock[i], segwitOn) => unlock[i].amount # 0
    PROVE  getHashesForSig(t, unlock, segwitOn)[i] = NodeMessage(unlock, m, i, segwitOn)
<1>. DEFINE o == unlock[i]
            vouts == [j \in 1..m |-> j]
            code == CodeOf(o)
<1>1. PICK vins : /\ t = [witness |-> FALSE, vins |-> vins, vouts |-> vouts]
                  /\ vins = [j \in 1..n |-> vins[j]]
                  /\ \A j \in 1..n : IsVin(vins[j])
  BY DEF Blank
<1>. DEFINE r == RoundOf(vins, unlock, segwitOn, i)
            ti == [witness |-> FALSE, vins |-> r, vouts |-> vouts]
<1>2. /\ n \in Nat /\ m \in Nat /\ n < VarIntMark /\ m < VarIntMark /\ n \in 1..n
      /\ i \in 0..n /\ i # 0 /\ o \in Output /\ DOMAIN unlock = 1..n /\ Len(unlock) = n
  <2>1. n \in Nat /\ n # 0 /\ m \in Nat /\ m # 0 /\ VarIntMark \in Nat /\ ByteRange \in Nat
    BY CodecAssumption DEF CodecAssumption, Spendable
  <2>2. n < VarIntMark /\ m < VarIntMark
    BY <2>1 DEF Spendable
  <2> QED
    BY <2>1, <2>2 DEF Spendable
<1>3. getHashesForSig(t, unlock, segwitOn)[i] = getBytesForSig(ti, i, o, segwitOn)
  <2>. DEFINE w == FALSE
  <2>1. t = [witness |-> w, vins |-> vins, vouts |-> vouts] /\ Vins(vins, n)
    BY <1>1 DEF Vins
  <2>2. n \in Nat /\ Len(unlock) = n /\ DOMAIN unlock = 1..n
    BY <1>2
  <2>. HIDE DEF w, o, r, ti, vouts
  <2>3. getHashesForSig(t, unlock, segwitOn)[i]
           = getBytesForSig([witness |-> w, vins |-> RoundOf(vins, unlock, segwitOn, i),
                             vouts |-> [j \in 1..m |-> j]], i, unlock[i], segwitOn)
    BY <2>1, <2>2, HashOfRound DEF vouts
  <2> QED
    BY <2>3 DEF w, ti, r, o, vouts
<1>4. /\ Size(code) \in Nat /\ Size(code) < VarIntMark /\ code # None
  BY <1>2, CodeSize DEF Spendable
<1>5. WithLength(code) = <<VarInt(Size(code)), code>>
  <2>. HIDE DEF code
  <2> QED
    BY <1>4, OneByte DEF WithLength
<1>6. /\ DOMAIN r = 1..n /\ Len(r) = n
      /\ \A j \in 1..n : r[j].type = "empty"
      /\ \A j \in 1..n : r[j].pub = IF j = i /\ ~UsesWitness(o, segwitOn) THEN code ELSE None
  <2>1. Vins(vins, n)
    BY <1>1 DEF Vins
  <2> QED
    BY <1>2, <2>1, RoundShape
<1>7. CASE UsesWitness(o, segwitOn)
  <2>1. getBytesForSig(ti, i, o, segwitOn)
           = <<"witness", Len(r), vouts, i, WithLength(code), o.amount>>
    BY <1>7 DEF getBytesForSig
  <2>2. NodeMessage(unlock, m, i, segwitOn)
           = <<"witness", Len(unlock), vouts, i, <<VarInt(Size(code)), code>>, o.amount>>
    BY <1>7 DEF NodeMessage
  <2>. HIDE DEF r, ti, o, vouts, code
  <2> QED
    BY <1>2, <1>3, <1>5, <1>6, <2>1, <2>2
<1>8. CASE ~UsesWitness(o, segwitOn)
  <2>. DEFINE ins == [j \in 1..n |-> IF j = i THEN <<VarInt(Size(code)), code>> ELSE None]
              items == Items(VarInt(n), ins, VarInt(m), vouts)
  <2>1. [j \in DOMAIN r |-> toBytes(r[j], segwitOn)] = ins
    <3>1. ASSUME NEW j \in 1..n
          PROVE  toBytes(r[j], segwitOn) = IF j = i THEN <<VarInt(Size(code)), code>> ELSE None
      <4>1. toBytes(r[j], segwitOn) = IF r[j].pub = None THEN None ELSE WithLength(r[j].pub)
        <5>. HIDE DEF r
        <5> QED
          BY <1>6 DEF toBytes
      <4>. HIDE DEF r, code
      <4> QED
        BY <1>4, <1>5, <1>6, <1>8, <4>1
    <3>. HIDE DEF r, code
    <3> QED
      BY <1>6, <3>1
  <2>2. Byte(Len(r)) = VarInt(n) /\ Byte(Len(vouts)) = VarInt(m)
    <3>1. Len(vouts) = m
      BY <1>2
    <3>. HIDE DEF r, vouts
    <3> QED
      BY <1>2, <1>6, <3>1, OneByte
  <2>3. encodeToBytes(ti, segwitOn) = ((<< >> \o items) \o << >>) \o <<LockTime>>
    <3>1. ti.witness = FALSE /\ ti.vins = r /\ ti.vouts = vouts
      OBVIOUS
    <3>. HIDE DEF ti, r, ins, vouts
    <3> QED
      BY <2>1, <2>2, <3>1 DEF encodeToBytes
  <2>4. (<< >> \o items) \o << >> = items
    <3>. DEFINE T == {<<"count", VarInt(n)>>, <<"count", VarInt(m)>>}
                     \union {<<"in", j, ins[j]>> : j \in 1..n}
                     \union {<<"out", vouts[j]>> : j \in 1..m}
                ic == VarInt(n)
                oc == VarInt(m)
    <3>1. /\ <<"count", ic>> \in T /\ <<"count", oc>> \in T
          /\ \A j \in 1..n : <<"in", j, ins[j]>> \in T
          /\ \A j \in 1..m : <<"out", vouts[j]>> \in T
          /\ DOMAIN ins = 1..n /\ DOMAIN vouts = 1..m
          /\ items = Items(ic, ins, oc, vouts)
      OBVIOUS
    <3>. HIDE DEF T, ic, oc, ins, vouts, items
    <3>2. ItemsOf(Items(ic, ins, oc, vouts), T, n, m, ic, ins, oc, vouts)
      BY <1>2, <3>1, ItemsAre
    <3>3. items \in Seq(T)
      BY <3>1, <3>2 DEF ItemsOf
    <3> QED
      BY <3>3, NoMarker
  <2>5. getBytesForSig(ti, i, o, segwitOn) = <<"legacy", encodeToBytes(ti, segwitOn)>>
    BY <1>8 DEF getBytesForSig
  <2>6. NodeMessage(unlock, m, i, segwitOn) = <<"legacy", items \o <<LockTime>>>>
    BY <1>2, <1>8 DEF NodeMessage
  <2>. HIDE DEF ti, items, o
  <2> QED
    BY <1>3, <2>3, <2>4, <2>5, <2>6
<1> QED
  BY <1>7, <1>8

LEMMA EmptyVin ==
    ASSUME NEW i
    PROVE  IsVin(Vin(i)) /\ ReadVin(i, None, FALSE) = Vin(i) /\ toBytes(Vin(i), FALSE) = None
<1>1. Vin(i).type = "empty" /\ Vin(i).pub = None
  BY DEF Vin
<1>2. [Vin(i) EXCEPT !.type = "empty"] = Vin(i)
  BY DEF Vin
<1>3. ReadVin(i, None, FALSE) = [Vin(i) EXCEPT !.type = "empty"]
  BY DEF ReadVin
<1>4. toBytes(Vin(i), FALSE) = None
  BY <1>1 DEF toBytes
<1>5. IsVin(Vin(i))
  BY DEF IsVin, Vin
<1> QED
  BY <1>2, <1>3, <1>4, <1>5

\* An empty transaction is read back as it was written, or not at all: when no byte
\* holds the number of its outputs (vasTransaction/transaction.go:29, txStruct.go:92).
THEOREM EmptyReadBack ==
    ASSUME NEW n \in 1..(ByteRange - 1), NEW m \in Nat, NEW segwitOn
    PROVE  DecodeRawTransaction(encodeToBytes(newEmptyTransaction(n, m), FALSE), segwitOn)
              = IF m \in 1..(ByteRange - 1) THEN newEmptyTransaction(n, m) ELSE NoTx
<1>. DEFINE t == newEmptyTransaction(n, m)
            b == encodeToBytes(t, FALSE)
            ins == [i \in 1..n |-> toBytes(t.vins[i], FALSE)]
            wits == [i \in 1..n |-> toSegwitBytes(t.vins[i])]
<1>1. n \in Nat
  BY CodecAssumption DEF CodecAssumption
<1>2. /\ t.witness = FALSE /\ t.vins = [i \in 1..n |-> Vin(i)] /\ t.vouts = [j \in 1..m |-> j]
      /\ t = [witness |-> t.witness, vins |-> t.vins, vouts |-> t.vouts]
  BY DEF newEmptyTransaction
<1>. HIDE DEF t
<1>3. /\ t.witness \in BOOLEAN /\ DOMAIN t.vins = 1..n /\ DOMAIN t.vouts = 1..m
      /\ Len(t.vins) = n /\ Len(t.vouts) = m
  <2>1. t.witness \in BOOLEAN
    BY <1>2
  <2>. DEFINE vins == t.vins
              vouts == t.vouts
  <2>2. vins = [i \in 1..n |-> Vin(i)] /\ vouts = [j \in 1..m |-> j]
    BY <1>2
  <2>. HIDE DEF vins, vouts
  <2>3. DOMAIN vins = 1..n /\ DOMAIN vouts = 1..m /\ Len(vins) = n /\ Len(vouts) = m
    BY <1>1, <2>2
  <2> QED
    BY <2>1, <2>3 DEF vins, vouts
<1>4. BytesOf(b, t, n, m, ins, wits)
  BY <1>1, <1>3, EncodedAre
<1>5. \A i \in 1..n : ins[i] = None
  <2>1. \A i \in 1..n : t.vins[i] = Vin(i)
    BY <1>2
  <2> QED
    BY <2>1, EmptyVin
<1>. HIDE DEF b, ins, wits
<1>6. DecodeRawTransaction(b, segwitOn)
         = IF Legible(t, n, m, ins, wits, segwitOn) THEN ReadBack(t, n, m, ins, wits) ELSE NoTx
  <2>1. t.witness \in BOOLEAN
    BY <1>3
  <2> QED
    BY <1>4, <2>1, DecodedIs
<1>7. Legible(t, n, m, ins, wits, segwitOn) <=> m \in 1..(ByteRange - 1)
  BY <1>2, <1>5 DEF Legible, Readable
<1>8. ReadBack(t, n, m, ins, wits) = t
  <2>1. [i \in 1..n |-> IF t.witness THEN ReadWitness(ReadVin(i, ins[i], t.witness), wits[i])
                        ELSE ReadVin(i, ins[i], t.witness)] = t.vins
    <3>1. ASSUME NEW i \in 1..n PROVE ReadVin(i, ins[i], t.witness) = Vin(i)
      <4>1. (ins[i] = None) /\ (t.witness = FALSE)
        BY <1>2, <1>5
      <4>2. ReadVin(i, None, FALSE) = Vin(i)
        BY EmptyVin
      <4> QED
        BY <4>1, <4>2
    <3> QED
      BY <1>2, <3>1
  <2>2. [j \in 1..m |-> t.vouts[j]] = t.vouts
    BY <1>2
  <2> QED
    BY <1>2, <2>1, <2>2 DEF ReadBack
<1> QED
  BY <1>6, <1>7, <1>8 DEF b, t

\* What is kept of the empty transaction and of its hashes.
HashInv ==
    /\ pc = "new" => messages = << >>
    /\ pc # "new" =>
          /\ req \in Requests
          /\ raw = encodeToBytes(newEmptyTransaction(Len(req.unlock), req.outs), FALSE)
    /\ pc = "created" => messages = << >>
    /\ messages # << >> =>
          LET t == DecodeRawTransaction(raw, req.segwitOn)
          IN  /\ pc # "new"
              /\ t # NoTx
              /\ messages = getHashesForSig(t, req.unlock, req.segwitOn)
              /\ \A i \in Ins : messages[i] # NoMessage

LEMMA HashStep == HashInv /\ [Next]_vars => HashInv'
<1>. SUFFICES ASSUME HashInv, [Next]_vars PROVE HashInv'
  OBVIOUS
<1>. DEFINE Same == /\ UNCHANGED <<req, raw, messages>>
                    /\ pc \notin {"new", "created"} /\ pc' \notin {"new", "created"}
<1>1. ASSUME Same PROVE HashInv'
  <2>1. Ins' = Ins
    BY <1>1 DEF Ins
  <2>2. DecodeRawTransaction(raw, req.segwitOn)' = DecodeRawTransaction(raw, req.segwitOn)
    BY <1>1
  <2> QED
    BY <1>1, <2>1, <2>2 DEF HashInv
<1>2. ASSUME NEW r \in Requests, CreateEmptyRawTransaction(r) PROVE HashInv'
  <2>1. messages' = << >> /\ req' = r /\ pc' = "created"
        /\ raw' = encodeToBytes(newEmptyTransaction(Len(r.unlock), r.outs), FALSE)
    BY <1>2 DEF HashInv, CreateEmptyRawTransaction
  <2> QED
    BY <2>1 DEF HashInv
<1>3. CASE CreateRawTransactionHashForSig
  <2>. DEFINE t == DecodeRawTransaction(raw, req.segwitOn)
              hashes == getHashesForSig(t, req.unlock, req.segwitOn)
  <2>1. /\ pc = "created" /\ req' = req /\ raw' = raw /\ pc' \in {"hashed", "refused"}
        /\ \/ messages' = messages
           \/ messages' = hashes /\ t # NoTx /\ \A i \in Ins : hashes[i] # NoMessage
    <3>. HIDE DEF t
    <3>1. CASE t # NoTx /\ \A i \in Ins : hashes[i] # NoMessage
      BY <1>3, <3>1 DEF CreateRawTransactionHashForSig, t
    <3>2. CASE ~(t # NoTx /\ \A i \in Ins : hashes[i] # NoMessage)
      BY <1>3, <3>2 DEF CreateRawTransactionHashForSig, t
    <3> QED
      BY <3>1, <3>2
  <2>2. Ins' = Ins /\ t' = t /\ hashes' = hashes
    BY <2>1 DEF Ins
  <2>3. messages = << >> /\ req \in Requests
        /\ raw = encodeToBytes(newEmptyTransaction(Len(req.unlock), req.outs), FALSE)
    BY <2>1 DEF HashInv
  <2>4. messages' # << >> => /\ t # NoTx
                             /\ messages' = hashes
                             /\ \A i \in Ins : hashes[i] # NoMessage
    BY <2>1, <2>3
  <2>5. pc' \notin {"new", "created"}
    BY <2>1
  <2>6. messages' # << >> =>
           LET d == DecodeRawTransaction(raw', req'.segwitOn)
           IN  /\ d # NoTx
               /\ messages' = getHashesForSig(d, req'.unlock, req'.segwitOn)
               /\ \A i \in Ins' : messages'[i] # NoMessage
    BY <2>1, <2>2, <2>4
  <2> QED
    BY <2>1, <2>3, <2>5, <2>6 DEF HashInv
<1>4. ASSUME NEW i, NEW j, NEW sig, FillSlot(i, j, sig) PROVE HashInv'
  BY <1>1, <1>4 DEF FillSlot
<1>5. ASSUME NEW i, SignOne(i) PROVE HashInv'
  BY <1>1, <1>5 DEF SignOne
<1>6. ASSUME NEW i, Spend(i) PROVE HashInv'
  BY <1>1, <1>6 DEF Spend
<1>7. CASE VerifyCollect
  BY <1>1, <1>7 DEF VerifyCollect
<1>8. CASE PlaceNext
  BY <1>1, <1>8 DEF PlaceNext
<1>9. CASE PlaceDrops
  BY <1>1, <1>9 DEF PlaceDrops, NothingMatches
<1>10. CASE PlacePanics
  BY <1>1, <1>10 DEF PlacePanics, NothingMatches
<1>11. CASE PlaceFails
  BY <1>1, <1>11 DEF PlaceFails
<1>12. CASE Placed
  BY <1>1, <1>12 DEF Placed
<1>13. CASE InsertSignatureIntoEmptyTransaction
  <2>1. pc \in {"placed", "hashed"} /\ pc' \in {"inserted", "hashed"} /\ UNCHANGED <<req, raw, messages>>
    BY <1>13 DEF InsertSignatureIntoEmptyTransaction
  <2> QED
    BY <1>1, <2>1
<1>14. CASE VerifyRawTransaction
  BY <1>1, <1>14 DEF VerifyRawTransaction
<1>15. CASE UNCHANGED vars
  <2>1. UNCHANGED <<pc, req, raw, messages>> /\ Ins' = Ins
    BY <1>15 DEF vars, Ins
  <2> QED
    BY <2>1 DEF HashInv
<1> QED
  BY <1>2, <1>3, <1>4, <1>5, <1>6, <1>7, <1>8, <1>9, <1>10, <1>11, <1>12, <1>13, <1>14, <1>15
     DEF Next

LEMMA EmptyIsBlank ==
    ASSUME NEW n, NEW m
    PROVE  Blank(newEmptyTransaction(n, m), n, m)
<1>. DEFINE vins == [i \in 1..n |-> Vin(i)]
            vouts == [j \in 1..m |-> j]
<1>1. vins = [j \in 1..n |-> vins[j]] /\ \A j \in 1..n : IsVin(vins[j])
  BY EmptyVin
<1>2. newEmptyTransaction(n, m) = [witness |-> FALSE, vins |-> vins, vouts |-> vouts]
  BY DEF newEmptyTransaction
<1>. HIDE DEF vins
<1> QED
  BY <1>1, <1>2 DEF Blank

LEMMA HashInvImplies == HashInv => HashIsTheNodes
<1>. SUFFICES ASSUME HashInv, ShortEnough, NEW i \in DOMAIN messages
              PROVE  messages[i] = NodeMessage(req.unlock, req.outs, i, req.segwitOn)
  BY DEF HashIsTheNodes
<1>. DEFINE n == Len(req.unlock)
            m == req.outs
            e == newEmptyTransaction(n, m)
            t == DecodeRawTransaction(raw, req.segwitOn)
<1>1. messages # << >>
  OBVIOUS
<1>2. /\ req \in Requests /\ raw = encodeToBytes(e, FALSE) /\ t # NoTx
      /\ messages = getHashesForSig(t, req.unlock, req.segwitOn)
      /\ \A k \in Ins : messages[k] # NoMessage
  <2>. HIDE DEF t
  <2> QED
    BY <1>1 DEF HashInv, t
<1>3. /\ req.unlock \in Seq(Output) /\ n \in 1..(VarIntMark - 1) /\ m \in Nat
      /\ n \in 1..(ByteRange - 1) /\ n \in Nat
  <2>1. VarIntMark \in Nat /\ ByteRange \in Nat /\ VarIntMark < ByteRange
    BY CodecAssumption DEF CodecAssumption
  <2> QED
    BY <1>2, <2>1, SigningAssumption DEF SigningAssumption
<1>4. m \in 1..(ByteRange - 1) /\ t = e
  <2>. HIDE DEF e, n, m
  <2> QED
    BY <1>2, <1>3, EmptyReadBack DEF e
<1>5. Ins = 1..n /\ i \in 1..n
  <2>1. Ins = 1..n
    BY <1>3 DEF Ins
  <2>. HIDE DEF t
  <2> QED
    BY <1>2, <2>1 DEF getHashesForSig, Ins
<1>6. Spendable(req.unlock, n, m)
  BY <1>3, <1>4, <1>5 DEF Spendable, ShortEnough
<1>7. UsesWitness(req.unlock[i], req.segwitOn) => req.unlock[i].amount # 0
  <2> SUFFICES ASSUME UsesWitness(req.unlock[i], req.segwitOn), req.unlock[i].amount = 0
               PROVE  messages[i] = NoMessage
    BY <1>2, <1>5
  <2>. HIDE DEF t
  <2> QED
    BY <1>2, <1>5 DEF getHashesForSig, getBytesForSig, Ins
<1>8. Blank(e, n, m)
  BY EmptyIsBlank
<1>. HIDE DEF n, m, e, t
<1> QED
  BY <1>2, <1>4, <1>5, <1>6, <1>7, <1>8, HashesAre DEF m

\* Every hash given out to be signed (vasTransaction/txHash.go:246) is the node's
\* message of its input, whatever the inputs and however many.
THEOREM HashesAreTheNodes == Spec => []HashIsTheNodes
<1>1. Init => HashInv
  BY DEF Init, HashInv
<1> QED
  BY <1>1, HashStep, HashInvImplies, PTL DEF Spec

-------------------------------------------------------------------------------
(* The signatures in the slots of an input.                                *)

\* What a slot can hold.
Sig == {NoSig} \union [key : Keys, of : Ins]

KeptStep(s, k, kept) == IF Filled(s[k]) THEN Append(kept, s[k]) ELSE kept

KeptSlots(s) ==
    CHOOSE kept : kept = [k \in 0..Len(s) |->
        IF k = 0 THEN << >> ELSE KeptStep(s, k, kept[k - 1])]

\* The slots that are not empty, one place after another.
LEMMA KeptEquation ==
    ASSUME NEW T, NEW s \in Seq(T)
    PROVE  /\ KeptSlots(s) = [k \in 0..Len(s) |->
                  IF k = 0 THEN << >> ELSE KeptStep(s, k, KeptSlots(s)[k - 1])]
           /\ FilledIn(s) = KeptSlots(s)[Len(s)]
<1>. DEFINE n == Len(s)
            F == [k \in 1..n |-> [kept \in Seq(T) |-> KeptStep(s, k, kept)]]
<1>1. n \in Nat
  OBVIOUS
<1>2. F \in [1..n -> [Seq(T) -> Seq(T)]]
  <2>1. ASSUME NEW k \in 1..n, NEW kept \in Seq(T)
        PROVE  KeptStep(s, k, kept) \in Seq(T)
    <3>1. s[k] \in T
      OBVIOUS
    <3> QED
      BY <3>1 DEF KeptStep
  <2> QED
    BY <2>1
<1>0. << >> \in Seq(T)
  OBVIOUS
<1>3. PICK f \in [0..n -> Seq(T)] : Recursive(f, n, << >>, F)
  <2>. HIDE DEF F, n
  <2> QED
    BY <1>0, <1>1, <1>2, RecursionExists
<1>4. f = [k \in 0..n |-> IF k = 0 THEN << >> ELSE KeptStep(s, k, f[k - 1])]
  <2>1. ASSUME NEW k \in 0..n
        PROVE  f[k] = IF k = 0 THEN << >> ELSE KeptStep(s, k, f[k - 1])
    <3>1. CASE k = 0
      BY <1>3, <3>1 DEF Recursive
    <3>2. CASE k # 0
      <4>1. k \in 1..n /\ f[k - 1] \in Seq(T)
        BY <3>2
      <4>2. f[k] = F[k][f[k - 1]]
        BY <1>3, <3>2 DEF Recursive
      <4> QED
        BY <3>2, <4>1, <4>2
    <3> QED
      BY <3>1, <3>2
  <2> QED
    BY <2>1
<1>5. KeptSlots(s) = CHOOSE g : g = [k \in 0..n |-> IF k = 0 THEN << >> ELSE KeptStep(s, k, g[k - 1])]
  BY DEF KeptSlots
<1>6. FilledIn(s) = KeptSlots(s)[n]
  BY DEF FilledIn, KeptSlots, KeptStep
<1> QED
  BY <1>4, <1>5, <1>6

\* One more at the end.
LEMMA Appended ==
    ASSUME NEW T, NEW a \in Seq(T), NEW x \in T
    PROVE  /\ Append(a, x) \in Seq(T) /\ Len(Append(a, x)) = Len(a) + 1
           /\ \A k \in 1..Len(a) : Append(a, x)[k] = a[k]
           /\ Append(a, x)[Len(a) + 1] = x
OBVIOUS

\* The signatures kept of the first m slots are those of the places at, in order.
TakenFrom(kept, s, m, at) ==
    /\ at \in [1..Len(kept) -> 1..m]
    /\ \A j, k \in 1..Len(kept) : j < k => at[j] < at[k]
    /\ \A k \in 1..Len(kept) : kept[k] = s[at[k]] /\ Filled(kept[k])

\* The slots that are not empty are all there, in their order.
LEMMA FilledAreTaken ==
    ASSUME NEW T, NEW s \in Seq(T)
    PROVE  /\ FilledIn(s) \in Seq(T)
           /\ \E at : TakenFrom(FilledIn(s), s, Len(s), at)
<1>. DEFINE n == Len(s)
            kept == KeptSlots(s)
            Ok == {m \in Nat : m <= n => /\ kept[m] \in Seq(T)
                                         /\ \E at : TakenFrom(kept[m], s, m, at)}
<1>1. n \in Nat
  OBVIOUS
<1>2. /\ kept[0] = << >>
      /\ \A k \in 0..n : k # 0 => kept[k] = KeptStep(s, k, kept[k - 1])
      /\ FilledIn(s) = kept[n]
  <2>1. kept = [k \in 0..n |-> IF k = 0 THEN << >> ELSE KeptStep(s, k, kept[k - 1])]
    BY KeptEquation
  <2>2. FilledIn(s) = kept[n]
    BY KeptEquation
  <2>. HIDE DEF kept, n
  <2> QED
    BY <1>1, <2>1, <2>2
<1>. HIDE DEF kept
<1>3. 0 \in Ok
  <2>1. << >> \in Seq(T) /\ Len(<< >>) = 0
    OBVIOUS
  <2>2. TakenFrom(<< >>, s, 0, << >>)
    <3>1. << >> \in [1..0 -> 1..0]
      OBVIOUS
    <3> QED
      BY <2>1, <3>1 DEF TakenFrom
  <2> QED
    BY <1>2, <2>1, <2>2
<1>4. ASSUME NEW m \in Nat, m \in Ok PROVE m + 1 \in Ok
  <2> SUFFICES ASSUME m + 1 <= n
               PROVE  /\ kept[m + 1] \in Seq(T)
                      /\ \E at : TakenFrom(kept[m + 1], s, m + 1, at)
    OBVIOUS
  <2>. DEFINE a == kept[m]
              b == kept[m + 1]
              c == Len(a)
  <2>1. a \in Seq(T) /\ c \in Nat
    BY <1>4
  <2>2. PICK at : TakenFrom(a, s, m, at)
    BY <1>1, <1>4
  <2>3. b = KeptStep(s, m + 1, a) /\ s[m + 1] \in T
    <3>1. m + 1 \in 0..n /\ m + 1 # 0 /\ (m + 1) - 1 = m /\ m + 1 \in 1..n
      BY <1>1
    <3> QED
      BY <1>2, <3>1
  <2>. HIDE DEF a, b, n
  <2>4. CASE Filled(s[m + 1])
    <3>. DEFINE to == [k \in 1..(c + 1) |-> IF k = c + 1 THEN m + 1 ELSE at[k]]
    <3>1. b = Append(a, s[m + 1])
      BY <2>3, <2>4 DEF KeptStep
    <3>2. /\ b \in Seq(T) /\ Len(b) = c + 1
          /\ \A k \in 1..c : b[k] = a[k]
          /\ b[c + 1] = s[m + 1]
      <4>1. a \in Seq(T) /\ s[m + 1] \in T
        BY <2>1, <2>3
      <4> QED
        BY <3>1, <4>1, Appended
    <3>. HIDE DEF c
    <3>3. \A k \in 1..c : at[k] \in 1..m
      BY <2>2 DEF TakenFrom, c
    <3>4. to \in [1..(c + 1) -> 1..(m + 1)]
      BY <2>1, <3>3
    <3>5. ASSUME NEW j \in 1..(c + 1), NEW k \in 1..(c + 1), j < k PROVE to[j] < to[k]
      <4>1. j \in 1..c /\ to[j] = at[j]
        BY <2>1, <3>5
      <4>2. CASE k = c + 1
        BY <3>3, <4>1, <4>2
      <4>3. CASE k # c + 1
        <5>1. k \in 1..c /\ to[k] = at[k]
          BY <2>1, <4>3
        <5> QED
          BY <2>2, <3>5, <4>1, <5>1 DEF TakenFrom, c
      <4> QED
        BY <4>2, <4>3
    <3>6. ASSUME NEW k \in 1..(c + 1) PROVE b[k] = s[to[k]] /\ Filled(b[k])
      <4>1. CASE k = c + 1
        BY <2>1, <2>4, <3>2, <4>1
      <4>2. CASE k # c + 1
        <5>1. k \in 1..c /\ to[k] = at[k]
          BY <2>1, <4>2
        <5>2. a[k] = s[at[k]] /\ Filled(a[k])
          BY <2>2, <5>1 DEF TakenFrom, c
        <5> QED
          BY <3>2, <5>1, <5>2
      <4> QED
        BY <4>1, <4>2
    <3>. HIDE DEF to
    <3>7. TakenFrom(b, s, m + 1, to)
      BY <3>2, <3>4, <3>5, <3>6 DEF TakenFrom
    <3> QED
      BY <3>2, <3>7 DEF b
  <2>5. CASE ~Filled(s[m + 1])
    <3>1. b = a
      BY <2>3, <2>5 DEF KeptStep
    <3>2. at \in [1..c -> 1..(m + 1)]
      BY <2>1, <2>2 DEF TakenFrom
    <3>3. TakenFrom(b, s, m + 1, at)
      BY <2>2, <3>1, <3>2 DEF TakenFrom
    <3> QED
      BY <2>1, <3>1, <3>3 DEF b
  <2> QED
    BY <2>4, <2>5
<1>. HIDE DEF Ok, n
<1>5. n \in Ok
  BY <1>1, <1>3, <1>4, NatSetInduction
<1> QED
  BY <1>1, <1>2, <1>5 DEF Ok, n

-------------------------------------------------------------------------------
(* How many signatures a verification finds.                               *)

FoundStep(sigs, keys, message, i, c) ==
    IF \E j \in (c + 1)..Len(keys) : Signs(sigs[i], keys[j], message) THEN c + 1 ELSE c

FoundUpTo(sigs, keys, message) ==
    CHOOSE count : count = [i \in 0..Len(sigs) |->
        IF i = 0 THEN 0 ELSE FoundStep(sigs, keys, message, i, count[i - 1])]

\* The count of those found, one signature after another.
LEMMA FoundEquation ==
    ASSUME NEW T, NEW sigs \in Seq(T), NEW keys, NEW message
    PROVE  /\ FoundUpTo(sigs, keys, message) \in [0..Len(sigs) -> Nat]
           /\ FoundUpTo(sigs, keys, message) = [i \in 0..Len(sigs) |->
                  IF i = 0 THEN 0
                  ELSE FoundStep(sigs, keys, message, i, FoundUpTo(sigs, keys, message)[i - 1])]
           /\ Found(sigs, keys, message) = FoundUpTo(sigs, keys, message)[Len(sigs)]
<1>. DEFINE n == Len(sigs)
            Step(i, c) == FoundStep(sigs, keys, message, i, c)
            F == [i \in 1..n |-> [c \in Nat |-> Step(i, c)]]
            count == FoundUpTo(sigs, keys, message)
<1>1. n \in Nat
  OBVIOUS
<1>2. F \in [1..n -> [Nat -> Nat]]
  <2>1. ASSUME NEW i \in 1..n, NEW c \in Nat PROVE Step(i, c) \in Nat
    BY DEF FoundStep
  <2>. HIDE DEF Step
  <2> QED
    BY <2>1
<1>3. PICK f \in [0..n -> Nat] : Recursive(f, n, 0, F)
  <2>. HIDE DEF F, n
  <2> QED
    BY <1>1, <1>2, RecursionExists
<1>4. f = [i \in 0..n |-> IF i = 0 THEN 0 ELSE Step(i, f[i - 1])]
  <2>. HIDE DEF Step
  <2>1. ASSUME NEW i \in 0..n
        PROVE  f[i] = IF i = 0 THEN 0 ELSE Step(i, f[i - 1])
    <3>1. CASE i = 0
      BY <1>3, <3>1 DEF Recursive
    <3>2. CASE i # 0
      <4>1. i \in 1..n /\ f[i - 1] \in Nat
        BY <3>2
      <4>2. f[i] = F[i][f[i - 1]]
        BY <1>3, <3>2 DEF Recursive
      <4> QED
        BY <3>2, <4>1, <4>2
    <3> QED
      BY <3>1, <3>2
  <2> QED
    BY <2>1
<1>. DEFINE Counts(g) == g = [i \in 0..n |-> IF i = 0 THEN 0 ELSE Step(i, g[i - 1])]
<1>5. count = CHOOSE g : Counts(g)
  BY DEF FoundUpTo
<1>6. Found(sigs, keys, message) = count[n]
  BY DEF Found, FoundUpTo, FoundStep
<1>7. Counts(f)
  BY <1>4
<1>8. Counts(count)
  <2>. HIDE DEF Counts, count
  <2> QED
    BY <1>5, <1>7
<1>9. count \in [0..n -> Nat]
  <2>. DEFINE Ok == {i \in Nat : i <= n => count[i] \in Nat}
  <2>. HIDE DEF count, Step
  <2>1. 0 \in Ok
    BY <1>8
  <2>2. ASSUME NEW i \in Nat, i \in Ok PROVE i + 1 \in Ok
    <3> SUFFICES ASSUME i + 1 <= n PROVE count[i + 1] \in Nat
      OBVIOUS
    <3>1. i + 1 \in 0..n /\ i + 1 # 0 /\ (i + 1) - 1 = i /\ count[i] \in Nat
      BY <2>2
    <3>2. count[i + 1] = Step(i + 1, count[i])
      BY <1>8, <3>1
    <3>3. Step(i + 1, count[i]) \in Nat
      BY <3>1 DEF Step, FoundStep
    <3> QED
      BY <3>2, <3>3
  <2>. HIDE DEF Ok
  <2>3. Nat \subseteq Ok
    BY <2>1, <2>2, NatSetInduction
  <2>4. \A i \in 0..n : count[i] \in Nat
    BY <1>1, <2>3 DEF Ok
  <2>5. count = [i \in 0..n |-> count[i]]
    BY <1>8
  <2> QED
    BY <2>4, <2>5
<1> QED
  BY <1>6, <1>8, <1>9

\* When as many are found as there are, each is by one of the keys.
LEMMA FoundAllSigned ==
    ASSUME NEW T, NEW sigs \in Seq(T), NEW keys, NEW message,
           Found(sigs, keys, message) = Len(sigs), NEW i \in 1..Len(sigs)
    PROVE  messages[sigs[i].of] = message
<1>. DEFINE n == Len(sigs)
            count == FoundUpTo(sigs, keys, message)
            Ok == {k \in Nat : k <= n => count[k] <= k}
            Up == {k \in Nat : i + k <= n => count[i + k] < i + k}
<1>1. n \in Nat
  OBVIOUS
<1>2. /\ count[0] = 0 /\ count[n] = n
      /\ \A k \in 1..n : /\ count[k] \in Nat /\ count[k - 1] \in Nat
                         /\ count[k] = FoundStep(sigs, keys, message, k, count[k - 1])
  <2>1. /\ count \in [0..n -> Nat]
        /\ count = [k \in 0..n |->
              IF k = 0 THEN 0 ELSE FoundStep(sigs, keys, message, k, count[k - 1])]
        /\ count[n] = n
    BY FoundEquation
  <2>. HIDE DEF count, n
  <2>2. ASSUME NEW k \in 1..n
        PROVE  /\ count[k] \in Nat /\ count[k - 1] \in Nat
               /\ count[k] = FoundStep(sigs, keys, message, k, count[k - 1])
    <3>1. k \in 0..n /\ k - 1 \in 0..n /\ k # 0
      BY <1>1
    <3> QED
      BY <2>1, <3>1
  <2>3. count[0] = 0
    BY <1>1, <2>1
  <2> QED
    BY <2>1, <2>2, <2>3
<1>. HIDE DEF count
<1>3. \A k \in 1..n : count[k] <= count[k - 1] + 1
  BY <1>2 DEF FoundStep
<1>4. Nat \subseteq Ok
  <2>1. 0 \in Ok
    BY <1>2
  <2>2. ASSUME NEW k \in Nat, k \in Ok PROVE k + 1 \in Ok
    <3> SUFFICES ASSUME k + 1 <= n PROVE count[k + 1] <= k + 1
      OBVIOUS
    <3>1. k + 1 \in 1..n /\ (k + 1) - 1 = k
      BY <1>1
    <3>2. count[k + 1] <= count[k] + 1 /\ count[k] \in Nat /\ count[k + 1] \in Nat /\ count[k] <= k
      BY <1>2, <1>3, <2>2, <3>1
    <3> QED
      BY <3>2
  <2>. HIDE DEF Ok
  <2> QED
    BY <2>1, <2>2, NatSetInduction
<1>5. SUFFICES ASSUME messages[sigs[i].of] # message PROVE FALSE
  OBVIOUS
<1>6. count[i] = count[i - 1]
  BY <1>2, <1>5 DEF FoundStep, Signs
<1>7. Nat \subseteq Up
  <2>1. 0 \in Up
    <3>1. i - 1 \in Nat /\ i - 1 <= n /\ i + 0 = i
      BY <1>1
    <3>2. count[i - 1] <= i - 1 /\ count[i - 1] \in Nat
      BY <1>2, <1>4, <3>1
    <3> QED
      BY <1>6, <3>1, <3>2
  <2>2. ASSUME NEW k \in Nat, k \in Up PROVE k + 1 \in Up
    <3> SUFFICES ASSUME i + (k + 1) <= n PROVE count[i + (k + 1)] < i + (k + 1)
      OBVIOUS
    <3>1. i + (k + 1) \in 1..n /\ (i + (k + 1)) - 1 = i + k
      BY <1>1
    <3>2. count[i + (k + 1)] <= count[i + k] + 1 /\ count[i + k] \in Nat /\ count[i + (k + 1)] \in Nat
      BY <1>2, <1>3, <3>1
    <3>3. count[i + k] < i + k
      BY <2>2
    <3> QED
      BY <3>1, <3>2, <3>3
  <2>. HIDE DEF Up
  <2> QED
    BY <2>1, <2>2, NatSetInduction
<1>8. n - i \in Nat /\ i + (n - i) = n
  BY <1>1
<1>9. count[n] < n
  <2>1. n - i \in Up
    BY <1>7, <1>8
  <2>. HIDE DEF n
  <2> QED
    BY <1>1, <1>8, <2>1
<1> QED
  BY <1>1, <1>2, <1>9

\* Signatures of the message in the order of their keys are all found.
LEMMA FoundInOrder ==
    ASSUME NEW T, NEW sigs \in Seq(T), NEW keys, NEW message, NEW at,
           Len(keys) \in Nat,
           at \in [1..Len(sigs) -> 1..Len(keys)],
           \A j, k \in 1..Len(sigs) : j < k => at[j] < at[k],
           \A k \in 1..Len(sigs) : Signs(sigs[k], keys[at[k]], message)
    PROVE  Found(sigs, keys, message) = Len(sigs)
<1>. DEFINE n == Len(sigs)
            count == FoundUpTo(sigs, keys, message)
            Far == {k \in Nat : k \in 1..n => at[k] >= k}
            Ok == {k \in Nat : k <= n => count[k] = k}
<1>1. n \in Nat
  OBVIOUS
<1>2. Nat \subseteq Far
  <2>1. 0 \in Far
    OBVIOUS
  <2>2. ASSUME NEW k \in Nat, k \in Far PROVE k + 1 \in Far
    <3> SUFFICES ASSUME k + 1 \in 1..n PROVE at[k + 1] >= k + 1
      OBVIOUS
    <3>1. at[k + 1] \in 1..Len(keys)
      OBVIOUS
    <3>2. CASE k = 0
      BY <3>1, <3>2
    <3>3. CASE k # 0
      <4>1. k \in 1..n /\ k < k + 1
        BY <3>3
      <4>2. at[k] < at[k + 1] /\ at[k] >= k /\ at[k] \in 1..Len(keys)
        BY <2>2, <4>1
      <4> QED
        BY <3>1, <4>2
    <3> QED
      BY <3>2, <3>3
  <2>. HIDE DEF Far
  <2> QED
    BY <2>1, <2>2, NatSetInduction
<1>3. /\ count[0] = 0 /\ Found(sigs, keys, message) = count[n]
      /\ \A k \in 1..n : count[k] = FoundStep(sigs, keys, message, k, count[k - 1])
  <2>1. /\ count = [k \in 0..n |->
              IF k = 0 THEN 0 ELSE FoundStep(sigs, keys, message, k, count[k - 1])]
        /\ Found(sigs, keys, message) = count[n]
    BY FoundEquation
  <2>. HIDE DEF count
  <2> QED
    BY <1>1, <2>1
<1>. HIDE DEF count
<1>4. Nat \subseteq Ok
  <2>1. 0 \in Ok
    BY <1>3
  <2>2. ASSUME NEW k \in Nat, k \in Ok PROVE k + 1 \in Ok
    <3> SUFFICES ASSUME k + 1 <= n PROVE count[k + 1] = k + 1
      OBVIOUS
    <3>1. k + 1 \in 1..n /\ (k + 1) - 1 = k /\ count[k] = k
      BY <1>1, <2>2
    <3>2. at[k + 1] >= k + 1 /\ at[k + 1] \in 1..Len(keys)
      BY <1>2, <3>1
    <3>3. at[k + 1] \in (k + 1)..Len(keys) /\ Signs(sigs[k + 1], keys[at[k + 1]], message)
      BY <3>1, <3>2
    <3>4. count[k + 1] = FoundStep(sigs, keys, message, k + 1, k)
      BY <1>3, <3>1
    <3> QED
      BY <3>3, <3>4 DEF FoundStep
  <2>. HIDE DEF Ok
  <2> QED
    BY <2>1, <2>2, NatSetInduction
<1> QED
  BY <1>1, <1>3, <1>4

-------------------------------------------------------------------------------
(* The signed transaction read back.                                       *)

\* What an insertion asks for.
CanWrite == (isSegwit => req.segwitOn) /\ \A i \in Ins : Complete(i)

\* What InsertSignatureIntoEmptyTransaction makes of the slots.
SignedTx ==
    LET t == newEmptyTransaction(Many, req.outs)
    IN  [t EXCEPT !.witness = isSegwit, !.vins = [i \in Ins |-> SignedVin(t.vins[i], i)]]

ScriptOf(i) == toBytes(SignedVin(Vin(i), i), req.segwitOn)
WitnessOf(i) == toSegwitBytes(SignedVin(Vin(i), i))
BackVin(i) ==
    IF isSegwit THEN ReadWitness(ReadVin(i, ScriptOf(i), isSegwit), WitnessOf(i))
    ELSE ReadVin(i, ScriptOf(i), isSegwit)

\* A redeem script in a witness is found if a byte holds its length.
Findable(i) == req.unlock[i].kind = "multisig" => Size(CodeOf(req.unlock[i])) < ByteRange

\* The input read back is of the kind of its output and has the signatures inserted.
IsBack(u, i) ==
    LET o == req.unlock[i] IN
    /\ IsVin(u) /\ u.type = o.kind
    /\ o.kind # "multisig" => u.sig = SigScript(slots[i][1])
    /\ o.kind = "multisig" => u.multi = MultiScript(FirstSigs(i), o)

LEMMA VinWith ==
    ASSUME NEW i, NEW type, NEW pub, NEW sig, NEW multi, NEW v,
           v = [prev |-> i, type |-> type, pub |-> pub, sig |-> sig, multi |-> multi]
    PROVE  /\ IsVin(v) /\ v.type = type /\ v.pub = pub /\ v.sig = sig /\ v.multi = multi
           /\ \A x : /\ [v EXCEPT !.sig = x] = [prev |-> i, type |-> type, pub |-> pub, sig |-> x, multi |-> multi]
                     /\ [v EXCEPT !.multi = x] = [prev |-> i, type |-> type, pub |-> pub, sig |-> sig, multi |-> x]
BY DEF IsVin

LEMMA ReadVins ==
    ASSUME NEW i, NEW script, NEW witness
    PROVE  /\ script = None /\ witness =>
                  ReadVin(i, script, witness) = [prev |-> i, type |-> "bech32", pub |-> None, sig |-> None, multi |-> None]
           /\ script # None /\ script[1] = "sigpub" =>
                  ReadVin(i, script, witness) = [prev |-> i, type |-> "p2pkh", pub |-> None, sig |-> script, multi |-> None]
           /\ script # None /\ script[1] = "nested" =>
                  ReadVin(i, script, witness) = [prev |-> i, type |-> "p2wpkh", pub |-> script, sig |-> None, multi |-> None]
           /\ script # None /\ script[1] = "program" =>
                  ReadVin(i, script, witness) = [prev |-> i, type |-> "multisig", pub |-> script, sig |-> None, multi |-> None]
           /\ script # None /\ script[1] = "multi" =>
                  ReadVin(i, script, witness) = [prev |-> i, type |-> "multisig", pub |-> None, sig |-> None, multi |-> script]
<1>1. ASSUME script = None, witness
      PROVE  ReadVin(i, script, witness) = [prev |-> i, type |-> "bech32", pub |-> None, sig |-> None, multi |-> None]
  <2>1. ReadVin(i, script, witness) = [Vin(i) EXCEPT !.type = "bech32"]
    BY <1>1 DEF ReadVin
  <2> QED
    BY <2>1 DEF Vin
<1>2. ASSUME script # None, script[1] = "sigpub"
      PROVE  ReadVin(i, script, witness) = [prev |-> i, type |-> "p2pkh", pub |-> None, sig |-> script, multi |-> None]
  <2>1. ReadVin(i, script, witness) = [Vin(i) EXCEPT !.type = "p2pkh", !.sig = script]
    BY <1>2 DEF ReadVin
  <2> QED
    BY <2>1 DEF Vin
<1>3. ASSUME script # None, script[1] = "nested"
      PROVE  ReadVin(i, script, witness) = [prev |-> i, type |-> "p2wpkh", pub |-> script, sig |-> None, multi |-> None]
  <2>1. ReadVin(i, script, witness) = [Vin(i) EXCEPT !.type = "p2wpkh", !.pub = script]
    BY <1>3 DEF ReadVin
  <2> QED
    BY <2>1 DEF Vin
<1>4. ASSUME script # None, script[1] = "program"
      PROVE  ReadVin(i, script, witness) = [prev |-> i, type |-> "multisig", pub |-> script, sig |-> None, multi |-> None]
  <2>1. ReadVin(i, script, witness) = [Vin(i) EXCEPT !.type = "multisig", !.pub = script]
    BY <1>4 DEF ReadVin
  <2> QED
    BY <2>1 DEF Vin
<1>5. ASSUME script # None, script[1] = "multi"
      PROVE  ReadVin(i, script, witness) = [prev |-> i, type |-> "multisig", pub |-> None, sig |-> None, multi |-> script]
  <2>1. ReadVin(i, script, witness) = [Vin(i) EXCEPT !.type = "multisig", !.multi = script]
    BY <1>5 DEF ReadVin
  <2> QED
    BY <2>1 DEF Vin
<1> QED
  BY <1>1, <1>2, <1>3, <1>4, <1>5

\* What transactions can be asked for.
LEMMA RequestType ==
    ASSUME req \in Requests
    PROVE  /\ req.unlock \in Seq(Output) /\ Many \in Nat \ {0} /\ Ins = 1..Many
           /\ Many \in 1..(VarIntMark - 1) /\ Many \in 1..(ByteRange - 1)
           /\ req.outs \in Nat \ {0} /\ req.segwitOn \in BOOLEAN
           /\ \A i \in Ins : req.unlock[i] \in Output /\ Lockable(req.unlock[i])
           /\ ByAccount => ~req.segwitOn /\ \A i \in Ins : req.unlock[i].kind = "p2pkh"
<1>1. VarIntMark \in Nat /\ ByteRange \in Nat /\ VarIntMark < ByteRange
  BY CodecAssumption DEF CodecAssumption
<1>2. req.unlock \in Seq(Output) /\ Len(req.unlock) \in 1..(VarIntMark - 1)
  BY SigningAssumption DEF SigningAssumption
<1> QED
  BY <1>1, <1>2, SigningAssumption DEF SigningAssumption, Ins, Many, ByAccount

\* An input of one signature is read back, with that signature.
LEMMA SignedSingle ==
    ASSUME req \in Requests, NEW i \in Ins, isSegwit => req.segwitOn,
           req.unlock[i].kind # "multisig"
    PROVE  /\ Readable(ScriptOf(i), isSegwit)
           /\ isSegwit => WitnessReadable(ReadVin(i, ScriptOf(i), isSegwit), WitnessOf(i), req.segwitOn)
           /\ IsBack(BackVin(i), i)
<1>. DEFINE o == req.unlock[i]
            sig == SigScript(slots[i][1])
            pub == IF o.kind = "p2wpkh" THEN Nested(o) ELSE None
            v == SignedVin(Vin(i), i)
            script == ScriptOf(i)
            w == WitnessOf(i)
            r == ReadVin(i, script, isSegwit)
<1>1. o.kind \in {"p2pkh", "p2wpkh", "bech32"}
  BY RequestType DEF Output, Kinds
<1>2. v = [prev |-> i, type |-> o.kind, pub |-> pub, sig |-> sig, multi |-> None]
  <2>1. v = [Vin(i) EXCEPT !.type = o.kind, !.pub = pub, !.sig = sig]
    BY <1>1 DEF SignedVin
  <2>. HIDE DEF o, pub, sig, v
  <2> QED
    BY <2>1 DEF Vin
<1>3. v.type = o.kind /\ v.pub = pub /\ v.sig = sig
  <2>. HIDE DEF o, pub, sig, v
  <2> QED
    BY <1>2
<1>4. sig # None /\ sig[1] = "sigpub"
  BY DEF SigScript, None
<1>5. script = toBytes(v, req.segwitOn) /\ w = toSegwitBytes(v)
  BY DEF ScriptOf, WitnessOf
<1>6. BackVin(i) = IF isSegwit THEN ReadWitness(r, w) ELSE r
  BY DEF BackVin
<1>7. isSegwit \in BOOLEAN
  BY DEF isSegwit
<1>8. o.kind # "p2pkh" => isSegwit
  BY <1>1 DEF isSegwit, UsesWitness
<1>9. CASE o.kind = "p2pkh"
  <2>1. script = sig
    <3>. HIDE DEF o, v, script, sig
    <3> QED
      BY <1>3, <1>5, <1>9 DEF toBytes
  <2>2. r = [prev |-> i, type |-> "p2pkh", pub |-> None, sig |-> sig, multi |-> None]
    <3>. HIDE DEF sig, script
    <3> QED
      BY <1>4, <2>1, ReadVins
  <2>. HIDE DEF r
  <2>3. IsVin(r) /\ r.type = "p2pkh" /\ r.sig = sig
    <3>. HIDE DEF sig
    <3> QED
      BY <2>2, VinWith
  <2>4. w[1] = "witness" /\ w[2] = 0
    <3>1. w = <<"witness", 0, None>>
      <4>. HIDE DEF o, v, w
      <4> QED
        BY <1>3, <1>5, <1>9 DEF toSegwitBytes
    <3>. HIDE DEF w
    <3> QED
      BY <3>1
  <2>. HIDE DEF w, script, sig
  <2>5. ReadWitness(r, w) = r
    BY <2>3 DEF ReadWitness
  <2>6. BackVin(i) = r
    BY <1>6, <2>5
  <2> QED
    BY <1>4, <1>9, <2>1, <2>3, <2>4, <2>6 DEF Readable, WitnessReadable, IsBack, script, w, r, sig
<1>10. CASE o.kind \in {"p2wpkh", "bech32"}
  <2>0. isSegwit
    BY <1>8, <1>10
  <2>1. script = pub
    <3>. HIDE DEF o, v, script, sig
    <3> QED
      BY <1>3, <1>5, <1>10 DEF toBytes
  <2>2. w[1] = "witness" /\ w[2] = 2 /\ w[3] = sig
    <3>1. w = <<"witness", 2, sig>>
      <4>. HIDE DEF o, v, w, sig
      <4> QED
        BY <1>3, <1>5, <1>10 DEF toSegwitBytes
    <3>. HIDE DEF w, sig
    <3> QED
      BY <3>1
  <2>3. r = [prev |-> i, type |-> o.kind, pub |-> pub, sig |-> None, multi |-> None]
    <3>1. CASE o.kind = "bech32"
      <4>1. script = None /\ pub = None
        BY <2>1, <3>1
      <4>. HIDE DEF script, pub, o
      <4> QED
        BY <2>0, <3>1, <4>1, ReadVins
    <3>2. CASE o.kind = "p2wpkh"
      <4>1. script = pub /\ pub # None /\ pub[1] = "nested"
        BY <2>1, <3>2 DEF Nested, None
      <4>. HIDE DEF script, pub, o
      <4> QED
        BY <3>2, <4>1, ReadVins
    <3> QED
      BY <1>10, <3>1, <3>2
  <2>. HIDE DEF r, w, script, sig, pub
  <2>4. r.type = o.kind /\ [r EXCEPT !.sig = sig] = [prev |-> i, type |-> o.kind, pub |-> pub, sig |-> sig, multi |-> None]
    BY <2>3, VinWith
  <2>5. BackVin(i) = [prev |-> i, type |-> o.kind, pub |-> pub, sig |-> sig, multi |-> None]
    <3>1. ReadWitness(r, w) = [r EXCEPT !.sig = sig]
      BY <1>10, <2>2, <2>4 DEF ReadWitness
    <3> QED
      BY <1>6, <2>0, <2>4, <3>1
  <2>6. IsVin(BackVin(i)) /\ BackVin(i).type = o.kind /\ BackVin(i).sig = sig
    BY <2>5, VinWith
  <2>7. Readable(script, isSegwit)
    <3>1. CASE o.kind = "bech32"
      BY <2>1, <3>1 DEF Readable, pub
    <3>2. CASE o.kind = "p2wpkh"
      BY <2>0, <2>1, <3>2 DEF Readable, pub, Nested
    <3> QED
      BY <1>10, <3>1, <3>2
  <2>8. WitnessReadable(r, w, req.segwitOn)
    BY <1>10, <2>2, <2>4 DEF WitnessReadable
  <2> QED
    BY <1>10, <2>6, <2>7, <2>8 DEF IsBack, script, w, r, sig
<1> QED
  BY <1>1, <1>9, <1>10

\* A multisignature is read back, with the first signatures of its slots, when the
\* length of its redeem script is one that can be read.
LEMMA SignedMulti ==
    ASSUME req \in Requests, NEW i \in Ins, isSegwit => req.segwitOn,
           req.unlock[i].kind = "multisig"
    PROVE  /\ Readable(ScriptOf(i), isSegwit)
           /\ isSegwit => (WitnessReadable(ReadVin(i, ScriptOf(i), isSegwit), WitnessOf(i), req.segwitOn)
                              <=> Findable(i))
           /\ IsBack(BackVin(i), i)
           /\ WitnessOf(i)[2] = 4
<1>. DEFINE o == req.unlock[i]
            multi == MultiScript(FirstSigs(i), o)
            pub == IF isSegwit THEN Program(o) ELSE None
            v == SignedVin(Vin(i), i)
            script == ScriptOf(i)
            w == WitnessOf(i)
            r == ReadVin(i, script, isSegwit)
<1>1. isSegwit <=> req.segwitOn
  BY DEF isSegwit, UsesWitness
<1>2. v = [prev |-> i, type |-> "multisig", pub |-> pub, sig |-> None, multi |-> multi]
  <2>1. v = [Vin(i) EXCEPT !.type = "multisig", !.pub = pub, !.sig = None, !.multi = multi]
    BY DEF SignedVin
  <2>. HIDE DEF o, pub, multi, v
  <2> QED
    BY <2>1 DEF Vin
<1>3. v.type = "multisig" /\ v.pub = pub /\ v.multi = multi
  <2>. HIDE DEF o, pub, multi, v
  <2> QED
    BY <1>2
<1>4. multi # None /\ multi[1] = "multi" /\ multi[3] = CodeOf(o)
  BY DEF MultiScript, None, CodeOf
<1>5. script = toBytes(v, req.segwitOn) /\ w = toSegwitBytes(v)
  BY DEF ScriptOf, WitnessOf
<1>6. BackVin(i) = IF isSegwit THEN ReadWitness(r, w) ELSE r
  BY DEF BackVin
<1>7. w[1] = "witness" /\ w[2] = 4 /\ w[3] = multi
  <2>1. w = <<"witness", 4, multi>>
    <3>. HIDE DEF o, v, w, multi
    <3> QED
      BY <1>3, <1>5 DEF toSegwitBytes
  <2>. HIDE DEF w, multi
  <2> QED
    BY <2>1
<1>8. script = IF req.segwitOn THEN pub ELSE multi
  <2>. HIDE DEF o, v, script, multi, pub
  <2> QED
    BY <1>3, <1>5 DEF toBytes
<1>9. CASE isSegwit
  <2>1. script = pub /\ pub # None /\ pub[1] = "program"
    BY <1>1, <1>8, <1>9 DEF Program, None
  <2>. HIDE DEF pub, script, w, multi
  <2>2. r = [prev |-> i, type |-> "multisig", pub |-> pub, sig |-> None, multi |-> None]
    BY <2>1, ReadVins
  <2>. HIDE DEF r
  <2>3. r.type = "multisig" /\ [r EXCEPT !.multi = multi] = [prev |-> i, type |-> "multisig", pub |-> pub, sig |-> None, multi |-> multi]
    BY <2>2, VinWith
  <2>4. BackVin(i) = [prev |-> i, type |-> "multisig", pub |-> pub, sig |-> None, multi |-> multi]
    <3>1. ReadWitness(r, w) = [r EXCEPT !.multi = multi]
      BY <1>7, <2>3 DEF ReadWitness
    <3> QED
      BY <1>6, <1>9, <2>3, <3>1
  <2>5. IsVin(BackVin(i)) /\ BackVin(i).type = "multisig" /\ BackVin(i).multi = multi
    BY <2>4, VinWith
  <2>6. Readable(script, isSegwit)
    BY <1>9, <2>1 DEF Readable
  <2>7. WitnessReadable(r, w, req.segwitOn) <=> Size(w[3][3]) < ByteRange
    BY <1>1, <1>7, <1>9, <2>3 DEF WitnessReadable
  <2>8. Findable(i) <=> Size(w[3][3]) < ByteRange
    BY <1>4, <1>7 DEF Findable
  <2> QED
    BY <1>7, <1>9, <2>5, <2>6, <2>7, <2>8 DEF IsBack, script, w, r, multi
<1>10. CASE ~isSegwit
  <2>1. script = multi
    BY <1>1, <1>8, <1>10
  <2>. HIDE DEF pub, script, w, multi
  <2>2. r = [prev |-> i, type |-> "multisig", pub |-> None, sig |-> None, multi |-> multi]
    BY <1>4, <2>1, ReadVins
  <2>3. IsVin(r) /\ r.type = "multisig" /\ r.multi = multi
    BY <2>2, VinWith
  <2>4. BackVin(i) = r
    BY <1>6, <1>10
  <2>5. Readable(script, isSegwit)
    BY <1>4, <1>10, <2>1 DEF Readable
  <2> QED
    BY <1>7, <1>10, <2>3, <2>4, <2>5 DEF IsBack, script, w, r, multi
<1> QED
  BY <1>9, <1>10

\* Replacing two of the three fields of a transaction.
LEMMA OtherRecord ==
    ASSUME NEW w, NEW v, NEW o, NEW x, NEW r
    PROVE  [[witness |-> w, vins |-> v, vouts |-> o] EXCEPT !.witness = x, !.vins = r]
              = [witness |-> x, vins |-> r, vouts |-> o]
<1>. DEFINE t == [witness |-> w, vins |-> v, vouts |-> o]
            a == [t EXCEPT !.witness = x]
<1>1. a = [witness |-> x, vins |-> v, vouts |-> o]
  OBVIOUS
<1>2. [t EXCEPT !.witness = x, !.vins = r] = [a EXCEPT !.vins = r]
  OBVIOUS
<1>. HIDE DEF a
<1>3. [a EXCEPT !.vins = r] = [witness |-> x, vins |-> r, vouts |-> o]
  BY <1>1, OtherVins
<1> QED
  BY <1>2, <1>3

\* What is read of the signed transaction.
Back(t) ==
    /\ t.witness <=> isSegwit
    /\ t.vins = [i \in 1..Many |-> BackVin(i)]
    /\ t.vouts = [j \in 1..req.outs |-> j]
    /\ t = [witness |-> t.witness, vins |-> t.vins, vouts |-> t.vouts]
    /\ t # NoTx

\* Nothing else is unreadable in a signed transaction than a long redeem script in a
\* witness, if the empty one was read; and its witnesses stand before the last item.
LEMMA SignedIsBack ==
    ASSUME req \in Requests, isSegwit => req.segwitOn, req.outs \in 1..(ByteRange - 1),
           NEW b, b = encodeToBytes(SignedTx, req.segwitOn)
    PROVE  LET t == DecodeRawTransaction(b, req.segwitOn) IN
           /\ IF isSegwit => \A i \in Ins : Findable(i) THEN Back(t) ELSE t = NoTx
           /\ isSegwit => \A i \in Ins : b[Len(b) - 1 - Many + i] = WitnessOf(i)
<1>. DEFINE n == Many
            m == req.outs
            s == SignedTx
            S == req.segwitOn
            d == DecodeRawTransaction(b, S)
            ins == [i \in 1..n |-> toBytes(s.vins[i], S)]
            wits == [i \in 1..n |-> toSegwitBytes(s.vins[i])]
<1>1. /\ n \in Nat /\ n # 0 /\ n \in 1..(ByteRange - 1) /\ Ins = 1..n /\ m \in Nat
      /\ isSegwit \in BOOLEAN
  BY RequestType DEF isSegwit
<1>2. s.witness = isSegwit
      /\ s.vins = [i \in 1..n |-> SignedVin(Vin(i), i)]
      /\ s.vouts = [j \in 1..m |-> j]
  <2>. DEFINE no == FALSE
              yes == isSegwit
              v0 == [i \in 1..n |-> Vin(i)]
              v1 == [i \in Ins |-> SignedVin(v0[i], i)]
              o0 == [j \in 1..m |-> j]
              t0 == [witness |-> no, vins |-> v0, vouts |-> o0]
  <2>1. s = [t0 EXCEPT !.witness = yes, !.vins = v1]
    BY DEF SignedTx, newEmptyTransaction
  <2>2. v1 = [i \in 1..n |-> SignedVin(Vin(i), i)]
    BY <1>1
  <2>. HIDE DEF no, yes, v0, v1, o0, s
  <2>3. s = [witness |-> yes, vins |-> v1, vouts |-> o0]
    BY <2>1, OtherRecord
  <2>4. s.witness = yes /\ s.vins = v1 /\ s.vouts = o0
    BY <2>3
  <2> QED
    BY <2>2, <2>4 DEF yes, o0
<1>. HIDE DEF s, n, m, S
<1>3. /\ s.witness \in BOOLEAN /\ DOMAIN s.vins = 1..n /\ DOMAIN s.vouts = 1..m
      /\ Len(s.vins) = n /\ Len(s.vouts) = m
  <2>1. s.witness \in BOOLEAN
    BY <1>1, <1>2
  <2>. DEFINE vins == s.vins
              vouts == s.vouts
  <2>2. vins = [i \in 1..n |-> SignedVin(Vin(i), i)] /\ vouts = [j \in 1..m |-> j]
    BY <1>2
  <2>. HIDE DEF vins, vouts
  <2>3. DOMAIN vins = 1..n /\ DOMAIN vouts = 1..m /\ Len(vins) = n /\ Len(vouts) = m
    BY <1>1, <2>2
  <2> QED
    BY <2>1, <2>3 DEF vins, vouts
<1>4. BytesOf(b, s, n, m, ins, wits)
  <2>1. BytesOf(encodeToBytes(s, S), s, n, m, ins, wits)
    BY <1>1, <1>3, EncodedAre
  <2> QED
    BY <2>1 DEF s, S
<1>5. \A i \in 1..n : ins[i] = ScriptOf(i) /\ wits[i] = WitnessOf(i)
  <2>1. \A i \in 1..n : s.vins[i] = SignedVin(Vin(i), i)
    BY <1>2
  <2> QED
    BY <2>1 DEF ScriptOf, WitnessOf, S
<1>. HIDE DEF ins, wits
<1>6. d = IF Legible(s, n, m, ins, wits, S) THEN ReadBack(s, n, m, ins, wits) ELSE NoTx
  <2>1. s.witness \in BOOLEAN
    BY <1>3
  <2> QED
    BY <1>1, <1>4, <2>1, DecodedIs
<1>7. Legible(s, n, m, ins, wits, S) <=> (isSegwit => \A i \in Ins : Findable(i))
  <2>1. m \in 1..(ByteRange - 1)
    BY DEF m
  <2>2. ASSUME NEW i \in Ins
        PROVE  /\ Readable(ScriptOf(i), isSegwit)
               /\ isSegwit => (WitnessReadable(ReadVin(i, ScriptOf(i), isSegwit), WitnessOf(i), S)
                                  <=> Findable(i))
    <3>1. CASE req.unlock[i].kind = "multisig"
      BY <3>1, SignedMulti DEF S
    <3>2. CASE req.unlock[i].kind # "multisig"
      BY <3>2, SignedSingle DEF S, Findable
    <3> QED
      BY <3>1, <3>2
  <2>3. \A i \in 1..n : Readable(ins[i], s.witness) <=> Readable(ScriptOf(i), isSegwit)
    BY <1>2, <1>5
  <2>4. \A i \in 1..n : WitnessReadable(ReadVin(i, ins[i], s.witness), wits[i], S)
                           <=> WitnessReadable(ReadVin(i, ScriptOf(i), isSegwit), WitnessOf(i), S)
    BY <1>2, <1>5
  <2>5. s.witness <=> isSegwit
    BY <1>2
  <2> QED
    BY <1>1, <2>1, <2>2, <2>3, <2>4, <2>5 DEF Legible
<1>8. Back(ReadBack(s, n, m, ins, wits))
  <2>. DEFINE t == ReadBack(s, n, m, ins, wits)
              v == [i \in 1..n |-> IF s.witness THEN ReadWitness(ReadVin(i, ins[i], s.witness), wits[i])
                                   ELSE ReadVin(i, ins[i], s.witness)]
  <2>1. t.witness = s.witness /\ t.vins = v /\ t.vouts = [j \in 1..m |-> s.vouts[j]]
        /\ t = [witness |-> t.witness, vins |-> t.vins, vouts |-> t.vouts]
    BY DEF ReadBack
  <2>2. v = [i \in 1..n |-> BackVin(i)]
    <3>1. ASSUME NEW i \in 1..n
          PROVE  (IF s.witness THEN ReadWitness(ReadVin(i, ins[i], s.witness), wits[i])
                  ELSE ReadVin(i, ins[i], s.witness)) = BackVin(i)
      BY <1>2, <1>5 DEF BackVin
    <3> QED
      BY <3>1
  <2>3. [j \in 1..m |-> s.vouts[j]] = [j \in 1..m |-> j]
    BY <1>2
  <2>4. t # NoTx
    <3>1. NoTx.vins = << >>
      BY DEF NoTx
    <3>2. v # << >>
      BY <1>1
    <3>. HIDE DEF t, v
    <3> QED
      BY <2>1, <3>1, <3>2
  <2>. HIDE DEF t, v
  <2> QED
    BY <1>2, <2>1, <2>2, <2>3, <2>4 DEF Back, n, m, t
<1>9. isSegwit => \A i \in Ins : b[Len(b) - 1 - Many + i] = WitnessOf(i)
  <2> SUFFICES ASSUME isSegwit, NEW i \in Ins PROVE b[Len(b) - 1 - n + i] = WitnessOf(i)
    BY DEF n
  <2>1. s.witness
    BY <1>2
  <2>2. Len(b) = 1 + n + m + 3 + n /\ \A k \in 1..n : b[1 + n + m + 2 + k] = wits[k]
    BY <1>4, <2>1 DEF BytesOf
  <2>3. i \in 1..n /\ Len(b) - 1 - n + i = 1 + n + m + 2 + i
    BY <1>1, <2>2
  <2> QED
    BY <1>5, <2>2, <2>3
<1>. HIDE DEF d
<1> QED
  BY <1>6, <1>7, <1>8, <1>9 DEF d, S

\* Of two transactions that carry no signature, the hashes are the same.
LEMMA SameHash ==
    ASSUME NEW n \in Nat, NEW m, NEW unlock, Len(unlock) = n, DOMAIN unlock = 1..n, NEW segwitOn,
           NEW t, Blank(t, n, m), NEW u, Blank(u, n, m), NEW i \in 1..n
    PROVE  getHashesForSig(t, unlock, segwitOn)[i] = getHashesForSig(u, unlock, segwitOn)[i]
<1>. DEFINE w == FALSE
            vouts == [j \in 1..m |-> j]
            o == unlock[i]
<1>1. PICK vt : t = [witness |-> w, vins |-> vt, vouts |-> vouts] /\ Vins(vt, n)
  BY DEF Blank, Vins
<1>2. PICK vu : u = [witness |-> w, vins |-> vu, vouts |-> vouts] /\ Vins(vu, n)
  BY DEF Blank, Vins
<1>. DEFINE rt == RoundOf(vt, unlock, segwitOn, i)
            ru == RoundOf(vu, unlock, segwitOn, i)
            tt == [witness |-> w, vins |-> rt, vouts |-> vouts]
            tu == [witness |-> w, vins |-> ru, vouts |-> vouts]
<1>3. getHashesForSig(t, unlock, segwitOn)[i] = getBytesForSig(tt, i, o, segwitOn)
  <2>. HIDE DEF w
  <2> QED
    BY <1>1, HashOfRound
<1>4. getHashesForSig(u, unlock, segwitOn)[i] = getBytesForSig(tu, i, o, segwitOn)
  <2>. HIDE DEF w
  <2> QED
    BY <1>2, HashOfRound
<1>5. /\ DOMAIN rt = 1..n /\ Len(rt) = n /\ DOMAIN ru = 1..n /\ Len(ru) = n
      /\ \A j \in 1..n : rt[j].type = "empty" /\ ru[j].type = "empty" /\ rt[j].pub = ru[j].pub
  <2>1. /\ DOMAIN rt = 1..n /\ Len(rt) = n
        /\ \A j \in 1..n : rt[j].type = "empty"
        /\ \A j \in 1..n : rt[j].pub = IF j = i /\ ~UsesWitness(o, segwitOn) THEN CodeOf(o) ELSE None
    BY <1>1, RoundShape
  <2>2. /\ DOMAIN ru = 1..n /\ Len(ru) = n
        /\ \A j \in 1..n : ru[j].type = "empty"
        /\ \A j \in 1..n : ru[j].pub = IF j = i /\ ~UsesWitness(o, segwitOn) THEN CodeOf(o) ELSE None
    BY <1>2, RoundShape
  <2>. HIDE DEF rt, ru, o
  <2> QED
    BY <2>1, <2>2
<1>6. [j \in DOMAIN rt |-> toBytes(rt[j], segwitOn)] = [j \in DOMAIN ru |-> toBytes(ru[j], segwitOn)]
  <2>. HIDE DEF rt, ru
  <2>1. ASSUME NEW j \in 1..n PROVE toBytes(rt[j], segwitOn) = toBytes(ru[j], segwitOn)
    <3>1. toBytes(rt[j], segwitOn) = IF rt[j].pub = None THEN None ELSE WithLength(rt[j].pub)
      BY <1>5 DEF toBytes
    <3>2. toBytes(ru[j], segwitOn) = IF ru[j].pub = None THEN None ELSE WithLength(ru[j].pub)
      BY <1>5 DEF toBytes
    <3> QED
      BY <1>5, <3>1, <3>2
  <2> QED
    BY <1>5, <2>1
<1>7. /\ tt.witness = FALSE /\ tt.vins = rt /\ tt.vouts = vouts
      /\ tu.witness = FALSE /\ tu.vins = ru /\ tu.vouts = vouts
  OBVIOUS
<1>. HIDE DEF tt, tu, rt, ru, vouts, w
<1>8. encodeToBytes(tt, segwitOn) = encodeToBytes(tu, segwitOn)
  BY <1>5, <1>6, <1>7 DEF encodeToBytes
<1>9. getBytesForSig(tt, i, o, segwitOn) = getBytesForSig(tu, i, o, segwitOn)
  <2>. HIDE DEF o
  <2>1. Len(tt.vins) = Len(tu.vins) /\ tt.vouts = tu.vouts
    BY <1>5, <1>7
  <2> QED
    BY <1>8, <2>1 DEF getBytesForSig
<1> QED
  BY <1>3, <1>4, <1>9

-------------------------------------------------------------------------------
(* What a verification says.                                               *)

\* A slot for each key of each input.
SlotsInv ==
    /\ slots = [i \in Ins |-> slots[i]]
    /\ \A i \in Ins : slots[i] \in Seq(Sig) /\ Len(slots[i]) = Len(req.unlock[i].keys)

\* The transaction is what is made of the slots.
Written == CanWrite /\ hex = encodeToBytes(SignedTx, req.segwitOn)

\* The transaction would be verified.
AllPass ==
    LET t == DecodeRawTransaction(hex, req.segwitOn)
        now == getHashesForSig(cloneEmpty(t), req.unlock, req.segwitOn)
    IN  t # NoTx /\ \A i \in Ins : Passes(t.vins[i], req.unlock[i], now[i])

\* The one slot of an input that is no multisignature has a signature.
LEMMA SingleIsFilled ==
    ASSUME req \in Requests, SlotsInv, NEW i \in Ins, Complete(i), req.unlock[i].kind # "multisig"
    PROVE  /\ 1 \in DOMAIN slots[i] /\ slots[i][1] \in Sig /\ Filled(slots[i][1])
<1>. DEFINE s == slots[i]
            f == FilledIn(s)
<1>1. req.unlock[i].required = 0 /\ Len(req.unlock[i].keys) = 1
  BY RequestType DEF Lockable
<1>2. s \in Seq(Sig) /\ Len(s) = 1
  BY <1>1 DEF SlotsInv
<1>3. Len(f) >= 1
  BY <1>1 DEF Complete, FilledOf
<1>. HIDE DEF s, f
<1>4. PICK at : TakenFrom(f, s, Len(s), at)
  BY <1>2, FilledAreTaken DEF f
<1>5. f \in Seq(Sig)
  BY <1>2, FilledAreTaken DEF f
<1>6. 1 \in 1..Len(f)
  BY <1>3, <1>5
<1>7. at[1] \in 1..1 /\ f[1] = s[at[1]] /\ Filled(f[1])
  BY <1>2, <1>4, <1>6 DEF TakenFrom
<1>8. at[1] = 1
  BY <1>7
<1> QED
  BY <1>2, <1>7, <1>8 DEF s

\* The first k of a sequence.
LEMMA FirstOf ==
    ASSUME NEW T, NEW s \in Seq(T), NEW k \in 0..Len(s)
    PROVE  /\ SubSeq(s, 1, k) \in Seq(T) /\ Len(SubSeq(s, 1, k)) = k
           /\ \A j \in 1..k : SubSeq(s, 1, k)[j] = s[j]
OBVIOUS

\* The signatures taken are of the places at, in order.
LEMMA FirstSigsAre ==
    ASSUME req \in Requests, SlotsInv, NEW i \in Ins, Complete(i), req.unlock[i].kind = "multisig"
    PROVE  LET o == req.unlock[i]
               sigs == FirstSigs(i)
           IN  /\ sigs \in Seq(Sig) /\ Len(sigs) = o.required
               /\ Len(o.keys) \in Nat /\ DOMAIN o.keys = 1..Len(o.keys)
               /\ DOMAIN slots[i] = 1..Len(o.keys)
               /\ \E at \in [1..Len(sigs) -> 1..Len(o.keys)] :
                     /\ \A j, k \in 1..Len(sigs) : j < k => at[j] < at[k]
                     /\ \A k \in 1..Len(sigs) : sigs[k] = slots[i][at[k]] /\ Filled(sigs[k])
<1>. DEFINE o == req.unlock[i]
            s == slots[i]
            f == FilledIn(s)
            sigs == FirstSigs(i)
            m == o.required
            n == Len(o.keys)
<1>1. /\ o.keys \in Seq(Keys) /\ m \in 1..n /\ m # 0
  <2>1. o \in Output /\ Lockable(o)
    BY RequestType
  <2>2. o.keys \in Seq(Keys)
    BY <2>1 DEF Output
  <2>3. m \in 1..Len(o.keys)
    BY <2>1 DEF Lockable
  <2> QED
    BY <2>2, <2>3
<1>2. s \in Seq(Sig) /\ Len(s) = n
  BY DEF SlotsInv
<1>3. Len(f) >= m /\ sigs = SubSeq(f, 1, m)
  BY <1>1 DEF Complete, FilledOf, FirstSigs
<1>. HIDE DEF s, f, sigs
<1>4. f \in Seq(Sig)
  BY <1>2, FilledAreTaken DEF f
<1>5. PICK at : TakenFrom(f, s, n, at)
  BY <1>2, FilledAreTaken DEF f
<1>6. n \in Nat /\ DOMAIN o.keys = 1..n /\ DOMAIN s = 1..n
  BY <1>1, <1>2
<1>. HIDE DEF m, n, o
<1>7. m \in 0..Len(f)
  BY <1>1, <1>3, <1>4, <1>6
<1>8. sigs \in Seq(Sig) /\ Len(sigs) = m /\ \A k \in 1..m : sigs[k] = f[k]
  BY <1>3, <1>4, <1>7, FirstOf
<1>. DEFINE to == [k \in 1..m |-> at[k]]
<1>9. \A k \in 1..m : k \in 1..Len(f)
  BY <1>4, <1>7
<1>10. to \in [1..m -> 1..n]
  BY <1>5, <1>9 DEF TakenFrom
<1>11. \A j, k \in 1..m : j < k => to[j] < to[k]
  BY <1>5, <1>9 DEF TakenFrom
<1>12. \A k \in 1..m : sigs[k] = s[to[k]] /\ Filled(sigs[k])
  BY <1>5, <1>8, <1>9 DEF TakenFrom
<1>. HIDE DEF to
<1> QED
  BY <1>6, <1>8, <1>10, <1>11, <1>12 DEF o, s, sigs, m, n

\* The messages are those of the empty transaction.
LEMMA MessagesAre ==
    ASSUME HashInv, messages # << >>
    PROVE  /\ req \in Requests /\ req.outs \in 1..(ByteRange - 1)
           /\ messages = getHashesForSig(newEmptyTransaction(Many, req.outs), req.unlock, req.segwitOn)
           /\ DOMAIN messages = Ins
<1>. DEFINE e == newEmptyTransaction(Many, req.outs)
            t == DecodeRawTransaction(raw, req.segwitOn)
<1>1. /\ req \in Requests /\ raw = encodeToBytes(e, FALSE) /\ t # NoTx
      /\ messages = getHashesForSig(t, req.unlock, req.segwitOn)
  <2>. HIDE DEF t
  <2> QED
    BY DEF HashInv, t, Many
<1>2. Many \in 1..(ByteRange - 1) /\ req.outs \in Nat
  BY <1>1, RequestType
<1>3. req.outs \in 1..(ByteRange - 1) /\ t = e
  <2>. HIDE DEF e
  <2> QED
    BY <1>1, <1>2, EmptyReadBack DEF e
<1>4. DOMAIN messages = Ins
  <2>. HIDE DEF t
  <2> QED
    BY <1>1 DEF getHashesForSig, Ins
<1>. HIDE DEF t, e
<1> QED
  BY <1>1, <1>3, <1>4 DEF e

\* Of each kind of input, what was inserted is read.
LEMMA AllBack ==
    ASSUME req \in Requests, isSegwit => req.segwitOn, NEW i \in Ins
    PROVE  IsBack(BackVin(i), i)
<1>1. CASE req.unlock[i].kind = "multisig"
  BY <1>1, SignedMulti
<1>2. CASE req.unlock[i].kind # "multisig"
  BY <1>2, SignedSingle
<1> QED
  BY <1>1, <1>2

\* Emptied, the signed transaction carries no signature.
LEMMA BackIsBlank ==
    ASSUME req \in Requests, isSegwit => req.segwitOn, NEW t, Back(t)
    PROVE  Blank(cloneEmpty(t), Many, req.outs)
<1>. DEFINE n == Many
            w == t.witness
            no == FALSE
            vins == t.vins
            vouts == [j \in 1..req.outs |-> j]
            r == [i \in 1..n |-> setEmpty(vins[i])]
<1>1. vins = [i \in 1..n |-> BackVin(i)] /\ t = [witness |-> w, vins |-> vins, vouts |-> vouts]
      /\ Ins = 1..n
  BY RequestType DEF Back
<1>. HIDE DEF n
<1>2. cloneEmpty(t) = [t EXCEPT !.witness = no, !.vins = r]
  <2>1. DOMAIN vins = 1..n
    BY <1>1
  <2>. DEFINE q == [i \in DOMAIN vins |-> setEmpty(vins[i])]
  <2>2. q = r
    BY <2>1
  <2>3. cloneEmpty(t) = [t EXCEPT !.witness = no, !.vins = q]
    BY DEF cloneEmpty
  <2>. HIDE DEF q, r
  <2> QED
    BY <2>2, <2>3
<1>3. \A i \in 1..n : IsVin(r[i])
  <2>1. \A i \in 1..n : IsVin(vins[i])
    BY <1>1, AllBack DEF IsBack
  <2>. HIDE DEF vins
  <2> QED
    BY <2>1, EmptyTwice
<1>4. r = [i \in 1..n |-> r[i]]
  OBVIOUS
<1>. HIDE DEF w, no, vins, vouts, r
<1>5. cloneEmpty(t) = [witness |-> no, vins |-> r, vouts |-> vouts]
  BY <1>1, <1>2, OtherRecord
<1> QED
  BY <1>3, <1>4, <1>5 DEF Blank, no, vouts, n

\* The messages made anew are the ones given out.
LEMMA MessagesAgain ==
    ASSUME HashInv, messages # << >>, isSegwit => req.segwitOn, NEW t, Back(t), NEW i \in Ins
    PROVE  getHashesForSig(cloneEmpty(t), req.unlock, req.segwitOn)[i] = messages[i]
<1>. DEFINE n == Many
            u == req.unlock
            m == req.outs
            e == newEmptyTransaction(n, m)
            c == cloneEmpty(t)
<1>1. req \in Requests /\ messages = getHashesForSig(e, u, req.segwitOn)
  BY MessagesAre
<1>2. n \in Nat /\ Ins = 1..n /\ Len(u) = n /\ DOMAIN u = 1..n
  BY <1>1, RequestType DEF Many, Ins
<1>3. Blank(e, n, m) /\ Blank(c, n, m)
  BY <1>1, EmptyIsBlank, BackIsBlank
<1>. HIDE DEF n, u, m, e, c
<1>4. getHashesForSig(c, u, req.segwitOn)[i] = getHashesForSig(e, u, req.segwitOn)[i]
  BY <1>2, <1>3, SameHash
<1> QED
  BY <1>1, <1>4 DEF c, u

\* What makes an input pass.
PassesHere(i) ==
    LET o == req.unlock[i] IN
    IF o.kind = "multisig"
    THEN Len(FirstSigs(i)) = o.required /\ Found(FirstSigs(i), o.keys, messages[i]) = o.required
    ELSE messages[slots[i][1].of] = messages[i]

\* An input that is read back passes when its slots do.
LEMMA PassesIs ==
    ASSUME HashInv, messages # << >>, isSegwit => req.segwitOn, NEW t, Back(t), NEW i \in Ins
    PROVE  /\ IsBack(t.vins[i], i)
           /\ Passes(t.vins[i], req.unlock[i],
                     getHashesForSig(cloneEmpty(t), req.unlock, req.segwitOn)[i]) <=> PassesHere(i)
<1>. DEFINE v == t.vins[i]
            o == req.unlock[i]
<1>1. req \in Requests
  BY MessagesAre
<1>2. v = BackVin(i)
  BY <1>1, RequestType DEF Back
<1>3. IsBack(v, i)
  BY <1>1, <1>2, AllBack
<1>4. getHashesForSig(cloneEmpty(t), req.unlock, req.segwitOn)[i] = messages[i]
  BY MessagesAgain
<1>. HIDE DEF v
<1>5. Passes(v, o, messages[i]) <=> PassesHere(i)
  <2>1. CASE o.kind = "multisig"
    <3>1. v.type = "multisig" /\ v.multi = MultiScript(FirstSigs(i), o)
      BY <1>3, <2>1 DEF IsBack
    <3>2. v.multi[2] = FirstSigs(i)
      BY <3>1 DEF MultiScript
    <3> QED
      BY <2>1, <3>1, <3>2 DEF Passes, PassesHere
  <2>2. CASE o.kind # "multisig"
    <3>1. v.type # "multisig" /\ v.sig = SigScript(slots[i][1])
      BY <1>3, <2>2 DEF IsBack
    <3>2. v.sig[2] = slots[i][1]
      BY <3>1 DEF SigScript
    <3> QED
      BY <2>2, <3>1, <3>2 DEF Passes, PassesHere, Signs
  <2> QED
    BY <2>1, <2>2
<1> QED
  BY <1>3, <1>4, <1>5 DEF v

\* Between the hashes and the end of a transaction.
Begun == pc \notin {"new", "created", "refused"}

\* The transaction is made of the slots as they are, a verdict is about that
\* transaction, and the slots of accounts hold what has been signed.
VerdictInv ==
    /\ pc = "new" => req = NoRequest
    /\ ~Begun => verdict = "none"
    /\ Begun => req \in Requests /\ messages # << >> /\ SlotsInv
    /\ pc \in {"place", "placed"} => ByAccount
    /\ Begun /\ ByAccount /\ (pc \in {"placed", "inserted"} \/ verdict \in {"verified", "rejected", "error"}) =>
          slots = [i \in Ins |-> <<SigAt(i)>>]
    /\ pc = "inserted" => Written
    /\ verdict = "verified" => Written /\ AllPass
    /\ verdict = "rejected" => Written /\ ~AllPass
    /\ verdict = "error" => ~CanWrite

\* What is verified is what the node accepts.
LEMMA VerdictAccepts == HashInv /\ VerdictInv => VerifiedIsAccepted
<1>. SUFFICES ASSUME HashInv, VerdictInv, verdict = "verified", InOwnSlots, ShortEnough,
                     \A i \in Ins : req.segwitOn /\ req.unlock[i].kind = "multisig"
                                       => req.unlock[i].required = 2
              PROVE  NodeAccepts
  BY DEF VerifiedIsAccepted
<1>. DEFINE t == DecodeRawTransaction(hex, req.segwitOn)
            w(i) == IF t.witness THEN hex[Len(hex) - 1 - Many + i][2] ELSE 0
<1>1. Begun /\ req \in Requests /\ messages # << >> /\ SlotsInv /\ CanWrite
      /\ hex = encodeToBytes(SignedTx, req.segwitOn) /\ AllPass
  BY DEF VerdictInv, Written
<1>2. t # NoTx
      /\ \A i \in Ins : Passes(t.vins[i], req.unlock[i],
                               getHashesForSig(cloneEmpty(t), req.unlock, req.segwitOn)[i])
  <2>. HIDE DEF t
  <2> QED
    BY <1>1 DEF AllPass, t
<1>3. isSegwit => req.segwitOn
  BY <1>1 DEF CanWrite
<1>4. Back(t) /\ (isSegwit => \A i \in Ins : hex[Len(hex) - 1 - Many + i] = WitnessOf(i))
  <2>1. req.outs \in 1..(ByteRange - 1)
    BY <1>1, MessagesAre
  <2>. HIDE DEF t
  <2> QED
    BY <1>1, <1>2, <1>3, <2>1, SignedIsBack DEF t
<1>. HIDE DEF t
<1>5. \A i \in Ins : IsBack(t.vins[i], i) /\ PassesHere(i)
  BY <1>1, <1>2, <1>3, <1>4, PassesIs
<1>6. \A i \in Ins : messages[i] = NodeMessage(req.unlock, req.outs, i, req.segwitOn)
  <2>1. DOMAIN messages = Ins
    BY <1>1, MessagesAre
  <2> QED
    BY <2>1, HashInvImplies DEF HashIsTheNodes
<1>7. Len(t.vins) = Many /\ Len(t.vouts) = req.outs
  <2>1. Many \in Nat /\ req.outs \in Nat
    BY <1>1, RequestType
  <2> QED
    BY <1>4, <2>1 DEF Back
<1>8. ASSUME NEW i \in Ins PROVE Unlocks(t.vins[i], i, w(i))
  <2>. DEFINE v == t.vins[i]
              o == req.unlock[i]
              message == NodeMessage(req.unlock, req.outs, i, req.segwitOn)
  <2>1. IsBack(v, i) /\ PassesHere(i) /\ message = messages[i] /\ Complete(i)
    BY <1>1, <1>5, <1>6 DEF CanWrite
  <2>. HIDE DEF v, message
  <2>2. CASE o.kind # "multisig"
    <3>1. slots[i][1].key = o.keys[1] /\ messages[slots[i][1].of] = message
      <4>1. 1 \in DOMAIN slots[i] /\ Filled(slots[i][1])
        BY <1>1, <2>1, <2>2, SingleIsFilled
      <4>2. i \in DOMAIN slots
        BY <1>1 DEF SlotsInv
      <4> QED
        BY <2>1, <2>2, <4>1, <4>2 DEF InOwnSlots, PassesHere
    <3>2. v.sig[2] = slots[i][1]
      BY <2>1, <2>2 DEF IsBack, SigScript
    <3> QED
      BY <2>2, <3>1, <3>2 DEF Unlocks, v, message
  <2>3. CASE o.kind = "multisig"
    <3>. DEFINE sigs == FirstSigs(i)
    <3>1. /\ sigs \in Seq(Sig) /\ Len(sigs) = o.required
          /\ DOMAIN o.keys = 1..Len(o.keys) /\ DOMAIN slots[i] = 1..Len(o.keys)
      BY <1>1, <2>1, <2>3, FirstSigsAre
    <3>2. PICK at \in [1..Len(sigs) -> 1..Len(o.keys)] :
             /\ \A j, k \in 1..Len(sigs) : j < k => at[j] < at[k]
             /\ \A k \in 1..Len(sigs) : sigs[k] = slots[i][at[k]] /\ Filled(sigs[k])
      BY <1>1, <2>1, <2>3, FirstSigsAre
    <3>3. v.multi[2] = sigs
      BY <2>1, <2>3 DEF IsBack, MultiScript
    <3>4. Found(sigs, o.keys, message) = Len(sigs)
      BY <2>1, <2>3, <3>1 DEF PassesHere
    <3>5. req.segwitOn => w(i) = Len(sigs) + 2
      <4> SUFFICES ASSUME req.segwitOn PROVE w(i) = Len(sigs) + 2
        OBVIOUS
      <4>1. isSegwit
        BY <2>3 DEF isSegwit, UsesWitness
      <4>2. w(i) = WitnessOf(i)[2]
        BY <1>4, <4>1 DEF Back
      <4>3. WitnessOf(i)[2] = 4
        BY <1>1, <1>3, <2>3, SignedMulti
      <4>4. o.required = 2
        BY <2>3
      <4>. HIDE DEF w, sigs
      <4> QED
        BY <3>1, <4>2, <4>3, <4>4
    <3>. HIDE DEF sigs, w
    <3>6. ASSUME NEW k \in 1..Len(sigs)
          PROVE  sigs[k].key = o.keys[at[k]] /\ messages[sigs[k].of] = message
      <4>1. at[k] \in DOMAIN slots[i] /\ i \in DOMAIN slots
        BY <1>1, <3>1 DEF SlotsInv
      <4>2. sigs[k].key = o.keys[at[k]]
        BY <3>2, <4>1 DEF InOwnSlots
      <4>3. messages[sigs[k].of] = message
        BY <3>1, <3>4, FoundAllSigned
      <4> QED
        BY <4>2, <4>3
    <3>7. DOMAIN sigs = 1..Len(sigs)
      BY <3>1
    <3>8. \E a \in [DOMAIN sigs -> DOMAIN o.keys] :
             /\ \A j, k \in DOMAIN sigs : j < k => a[j] < a[k]
             /\ \A k \in DOMAIN sigs : sigs[k].key = o.keys[a[k]] /\ messages[sigs[k].of] = message
      <4>1. at \in [DOMAIN sigs -> DOMAIN o.keys]
        BY <3>1, <3>7
      <4> QED
        BY <3>2, <3>6, <3>7, <4>1
    <3> QED
      BY <2>3, <3>1, <3>3, <3>5, <3>8 DEF Unlocks, v, message
  <2> QED
    BY <2>2, <2>3 DEF v
<1>9. \A i \in Ins : w(i) = IF t.witness THEN hex[Len(hex) - 1 - Many + i][2] ELSE 0
  OBVIOUS
<1>. HIDE DEF w
<1> QED
  BY <1>7, <1>8, <1>9 DEF NodeAccepts, t

\* What is signed as it should be is verified.
LEMMA VerdictVerifies == HashInv /\ VerdictInv => SignedVerifies
<1>. DEFINE Own(i) == \A j \in DOMAIN slots[i] : Filled(slots[i][j]) => slots[i][j].of = i
            Fits(i) == UsesWitness(req.unlock[i], req.segwitOn)
                          => req.segwitOn /\ ~(Size(CodeOf(req.unlock[i])) >= ByteRange)
<1>. SUFFICES ASSUME HashInv, VerdictInv, verdict \in {"error", "rejected"}, InOwnSlots,
                     \A i \in Ins : Complete(i) /\ Own(i) /\ Fits(i)
              PROVE  FALSE
  BY DEF SignedVerifies
<1>1. Begun /\ req \in Requests /\ messages # << >> /\ SlotsInv
  BY DEF VerdictInv
<1>2. isSegwit => req.segwitOn
  BY DEF isSegwit
<1>3. CanWrite
  BY <1>2 DEF CanWrite
<1>4. hex = encodeToBytes(SignedTx, req.segwitOn) /\ ~AllPass
  BY <1>3 DEF VerdictInv, Written
<1>. DEFINE t == DecodeRawTransaction(hex, req.segwitOn)
<1>5. isSegwit => \A i \in Ins : Findable(i)
  <2> SUFFICES ASSUME isSegwit, NEW i \in Ins, req.unlock[i].kind = "multisig"
               PROVE  Size(CodeOf(req.unlock[i])) < ByteRange
    BY DEF Findable
  <2>1. UsesWitness(req.unlock[i], req.segwitOn)
    BY <1>2 DEF UsesWitness
  <2>2. Size(CodeOf(req.unlock[i])) \in Nat /\ ByteRange \in Nat
    BY <1>1, RequestType, CodeSize, CodecAssumption DEF CodecAssumption
  <2> QED
    BY <2>1, <2>2
<1>6. Back(t)
  <2>1. req.outs \in 1..(ByteRange - 1)
    BY <1>1, MessagesAre
  <2>. HIDE DEF t
  <2> QED
    BY <1>1, <1>2, <1>4, <1>5, <2>1, SignedIsBack DEF t
<1>. HIDE DEF t
<1>7. ASSUME NEW i \in Ins PROVE PassesHere(i)
  <2>. DEFINE o == req.unlock[i]
  <2>1. CASE o.kind # "multisig"
    <3>1. 1 \in DOMAIN slots[i] /\ Filled(slots[i][1])
      BY <1>1, <2>1, SingleIsFilled
    <3>2. slots[i][1].of = i
      BY <3>1
    <3> QED
      BY <2>1, <3>2 DEF PassesHere
  <2>2. CASE o.kind = "multisig"
    <3>. DEFINE sigs == FirstSigs(i)
    <3>1. /\ sigs \in Seq(Sig) /\ Len(sigs) = o.required /\ Len(o.keys) \in Nat
          /\ DOMAIN slots[i] = 1..Len(o.keys)
      BY <1>1, <2>2, FirstSigsAre
    <3>2. PICK at \in [1..Len(sigs) -> 1..Len(o.keys)] :
             /\ \A j, k \in 1..Len(sigs) : j < k => at[j] < at[k]
             /\ \A k \in 1..Len(sigs) : sigs[k] = slots[i][at[k]] /\ Filled(sigs[k])
      BY <1>1, <2>2, FirstSigsAre
    <3>. HIDE DEF sigs
    <3>3. \A k \in 1..Len(sigs) : Signs(sigs[k], o.keys[at[k]], messages[i])
      <4> TAKE k \in 1..Len(sigs)
      <4>1. at[k] \in DOMAIN slots[i] /\ i \in DOMAIN slots
        BY <1>1, <3>1 DEF SlotsInv
      <4>2. sigs[k].key = o.keys[at[k]]
        BY <3>2, <4>1 DEF InOwnSlots
      <4>3. sigs[k].of = i
        BY <3>2, <4>1
      <4> QED
        BY <4>2, <4>3 DEF Signs
    <3>4. Found(sigs, o.keys, messages[i]) = Len(sigs)
      BY <3>1, <3>2, <3>3, FoundInOrder
    <3> QED
      BY <2>2, <3>1, <3>4 DEF PassesHere, sigs
  <2> QED
    BY <2>1, <2>2
<1>8. t # NoTx
      /\ \A i \in Ins : Passes(t.vins[i], req.unlock[i],
                               getHashesForSig(cloneEmpty(t), req.unlock, req.segwitOn)[i])
  BY <1>1, <1>2, <1>6, <1>7, PassesIs DEF Back
<1> QED
  BY <1>4, <1>8 DEF AllPass, t

LEMMA VerdictInit == Init => VerdictInv
  BY DEF Init, VerdictInv, Begun

\* What the parts of the invariant are about.
LEMMA SameSlots ==
    ASSUME UNCHANGED <<req, slots>>
    PROVE  /\ Ins' = Ins /\ Many' = Many /\ ByAccount' = ByAccount /\ isSegwit' = isSegwit
           /\ SlotsInv' <=> SlotsInv
           /\ CanWrite' <=> CanWrite
           /\ SignedTx' = SignedTx
<1>1. Ins' = Ins /\ Many' = Many
  BY DEF Ins, Many
<1>2. ByAccount' = ByAccount
  BY DEF ByAccount
<1>3. isSegwit' = isSegwit
  BY <1>1 DEF isSegwit
<1>4. SlotsInv' <=> SlotsInv
  BY <1>1 DEF SlotsInv, Sig
<1>5. CanWrite' <=> CanWrite
  BY <1>1, <1>3 DEF CanWrite, Complete, FilledOf
<1>6. SignedTx' = SignedTx
  <2>1. \A v, i : SignedVin(v, i)' = SignedVin(v, i)
    BY <1>3 DEF SignedVin, FirstSigs, FilledOf
  <2> QED
    BY <1>1, <1>3, <2>1 DEF SignedTx
<1> QED
  BY <1>1, <1>2, <1>3, <1>4, <1>5, <1>6

\* And of the transaction, and what a verification of it would say.
LEMMA SameVerdict ==
    ASSUME UNCHANGED <<req, messages, slots, hex>>
    PROVE  (Written' <=> Written) /\ (AllPass' <=> AllPass)
<1>1. Ins' = Ins
  BY DEF Ins
<1>2. Written' <=> Written
  BY SameSlots DEF Written
<1>3. AllPass' <=> AllPass
  BY <1>1 DEF AllPass, Passes, Found, Signs
<1> QED
  BY <1>2, <1>3

\* The slots of the hashes are all empty at first.
LEMMA VerdictHashes ==
    ASSUME HashInv, HashInv', VerdictInv, CreateRawTransactionHashForSig
    PROVE  VerdictInv'
<1>. DEFINE t == DecodeRawTransaction(raw, req.segwitOn)
            hashes == getHashesForSig(t, req.unlock, req.segwitOn)
            ok == t # NoTx /\ \A i \in Ins : hashes[i] # NoMessage
<1>1. pc = "created" /\ req' = req /\ verdict' = verdict /\ verdict = "none" /\ req \in Requests
  BY DEF CreateRawTransactionHashForSig, VerdictInv, Begun, HashInv
<1>2. Ins' = Ins /\ Ins # {}
  BY <1>1, RequestType DEF Ins
<1>3. CASE ok
  <2>1. pc' = "hashed" /\ messages' = hashes /\ slots' = [i \in Ins |-> EmptySlots(req.unlock[i])]
    <3>. HIDE DEF t
    <3> QED
      BY <1>3 DEF CreateRawTransactionHashForSig, t
  <2>2. messages' # << >>
    <3>1. DOMAIN hashes = Ins
      <4>. HIDE DEF t
      <4> QED
        BY DEF getHashesForSig, Ins
    <3>. HIDE DEF hashes
    <3> QED
      BY <1>2, <2>1, <3>1
  <2>3. SlotsInv'
    <3>1. ASSUME NEW i \in Ins
          PROVE  EmptySlots(req.unlock[i]) \in Seq(Sig')
                 /\ Len(EmptySlots(req.unlock[i])) = Len(req.unlock[i].keys)
      <4>. DEFINE keys == req.unlock[i].keys
      <4>1. keys \in Seq(Keys)
        BY <1>1, RequestType DEF Output
      <4>2. NoSig \in Sig'
        BY DEF Sig
      <4>3. EmptySlots(req.unlock[i]) = [j \in 1..Len(keys) |-> NoSig]
        BY <4>1 DEF EmptySlots
      <4>. HIDE DEF keys
      <4>4. Len(keys) \in Nat
        BY <4>1
      <4>5. [j \in 1..Len(keys) |-> NoSig] \in [1..Len(keys) -> Sig']
        BY <4>2
      <4>6. [j \in 1..Len(keys) |-> NoSig] \in Seq(Sig') /\ Len([j \in 1..Len(keys) |-> NoSig]) = Len(keys)
        BY <4>4, <4>5
      <4> QED
        BY <4>3, <4>6 DEF keys
    <3> QED
      BY <1>1, <1>2, <2>1, <3>1 DEF SlotsInv
  <2> QED
    BY <1>1, <2>1, <2>2, <2>3 DEF VerdictInv, Begun
<1>4. CASE ~ok
  <2>1. pc' = "refused"
    <3>. HIDE DEF t
    <3> QED
      BY <1>4 DEF CreateRawTransactionHashForSig, t
  <2> QED
    BY <1>1, <2>1 DEF VerdictInv, Begun
<1> QED
  BY <1>3, <1>4

LEMMA VerdictFills ==
    ASSUME VerdictInv, NEW i \in Ins, NEW j \in DOMAIN req.unlock[i].keys,
           NEW k \in Keys, NEW of \in Ins, FillSlot(i, j, [key |-> k, of |-> of])
    PROVE  VerdictInv'
<1>. DEFINE sig == [key |-> k, of |-> of]
<1>1. pc = "hashed" /\ pc' = pc /\ req' = req /\ messages' = messages /\ verdict' = "none"
      /\ slots' = [slots EXCEPT ![i][j] = sig]
  BY DEF FillSlot
<1>2. req \in Requests /\ messages # << >> /\ SlotsInv
  BY <1>1 DEF VerdictInv, Begun
<1>3. Ins' = Ins
  BY <1>1 DEF Ins
<1>4. Sig' = Sig /\ sig \in Sig
  BY <1>3 DEF Sig
<1>. HIDE DEF sig
<1>5. SlotsInv'
  <2>1. slots = [n \in Ins |-> slots[n]]
    BY <1>2 DEF SlotsInv
  <2>2. slots' = [n \in Ins |-> slots'[n]]
    BY <1>1, <2>1
  <2>3. ASSUME NEW n \in Ins
        PROVE  slots'[n] \in Seq(Sig) /\ Len(slots'[n]) = Len(req.unlock[n].keys)
    <3>1. slots[n] \in Seq(Sig) /\ Len(slots[n]) = Len(req.unlock[n].keys)
      BY <1>2 DEF SlotsInv
    <3>2. CASE n # i
      BY <1>1, <2>1, <3>1, <3>2
    <3>3. CASE n = i
      <4>. DEFINE s == slots[i]
      <4>1. slots'[n] = [s EXCEPT ![j] = sig] /\ s \in Seq(Sig)
        BY <1>1, <2>1, <3>1, <3>3
      <4>. HIDE DEF s
      <4>2. [s EXCEPT ![j] = sig] \in Seq(Sig) /\ Len([s EXCEPT ![j] = sig]) = Len(s)
        <5>1. s \in [1..Len(s) -> Sig] /\ Len(s) \in Nat
          BY <4>1
        <5>2. [s EXCEPT ![j] = sig] \in [1..Len(s) -> Sig]
          BY <1>4, <5>1
        <5> QED
          BY <5>1, <5>2
      <4> QED
        BY <3>1, <3>3, <4>1, <4>2 DEF s
    <3> QED
      BY <3>2, <3>3
  <2> QED
    BY <1>1, <1>3, <1>4, <2>2, <2>3 DEF SlotsInv
<1> QED
  BY <1>1, <1>2, <1>5 DEF VerdictInv, Begun

\* When the hashes are in place, each slot gets what has been signed of its own input.
LEMMA VerdictPlaced ==
    ASSUME VerdictInv, PlaceInv, Placed
    PROVE  VerdictInv'
<1>1. pc = "place" /\ req' = req /\ messages' = messages /\ hex' = hex /\ signed' = signed
      /\ next > Many /\ ByAccount /\ ByAccount'
  BY DEF Placed, VerdictInv, ByAccount
<1>2. req \in Requests /\ messages # << >> /\ SlotsInv
  BY <1>1 DEF VerdictInv, Begun
<1>3. Ins' = Ins
  BY <1>1 DEF Ins
<1>4. CASE unknown
  <2>1. pc' = "hashed" /\ verdict' = "unknown" /\ slots' = slots
    BY <1>4 DEF Placed
  <2>2. SlotsInv'
    BY <1>1, <1>2, <2>1, SameSlots
  <2> QED
    BY <1>1, <1>2, <2>1, <2>2 DEF VerdictInv, Begun
<1>5. CASE ~unknown
  <2>1. pc' = "placed" /\ slots' = [i \in Ins |-> <<SigAt(transHash[i])>>] /\ verdict' = verdict
    BY <1>5 DEF Placed
  <2>2. InOrder(transHash, next, Many, Owners)
    BY <1>1, <1>5 DEF PlaceInv
  <2>3. Ins = 1..Many /\ Many \in Nat
    BY <1>2, RequestInputs
  <2>4. \A i \in Ins : transHash[i] = i
    BY <1>1, <2>2, <2>3 DEF InOrder
  <2>5. slots' = [i \in Ins |-> <<SigAt(i)>>]
    BY <2>1, <2>4
  <2>6. [i \in Ins |-> <<SigAt(i)>>]' = [i \in Ins |-> <<SigAt(i)>>]
    BY <1>1, <1>3 DEF SigAt, Owner
  <2>7. SlotsInv'
    <3>1. ASSUME NEW i \in Ins
          PROVE  SigAt(i) \in Sig' /\ Len(req.unlock[i].keys) = 1
      <4>1. req.unlock[i].kind = "p2pkh" /\ req.unlock[i] \in Output /\ Lockable(req.unlock[i])
        BY <1>1, <1>2, RequestType
      <4>2. req.unlock[i].keys \in Seq(Keys) /\ Len(req.unlock[i].keys) = 1
        BY <4>1 DEF Output, Lockable
      <4>3. Owner(i) \in Keys
        BY <4>2 DEF Owner
      <4> QED
        BY <1>3, <4>2, <4>3 DEF SigAt, Sig
    <3>2. ASSUME NEW i \in Ins
          PROVE  <<SigAt(i)>> \in Seq(Sig') /\ Len(<<SigAt(i)>>) = Len(req.unlock[i].keys)
      BY <3>1
    <3> QED
      BY <1>1, <1>3, <2>5, <3>2 DEF SlotsInv
  <2>8. ASSUME verdict \in {"verified", "rejected", "error"} PROVE slots' = slots
    BY <1>1, <2>5, <2>8 DEF VerdictInv, Begun
  <2>9. /\ verdict = "verified" => Written' /\ AllPass'
        /\ verdict = "rejected" => Written' /\ ~AllPass'
        /\ verdict = "error" => ~CanWrite'
    BY <1>1, <2>8, SameSlots, SameVerdict DEF VerdictInv
  <2> QED
    BY <1>1, <1>2, <2>1, <2>5, <2>6, <2>7, <2>9 DEF VerdictInv, Begun
<1> QED
  BY <1>4, <1>5

\* What was written is what is written again of the same slots.
LEMMA VerdictInserts ==
    ASSUME HashInv, VerdictInv, InsertSignatureIntoEmptyTransaction
    PROVE  VerdictInv'
<1>1. pc \in {"placed", "hashed"} /\ pc' \in {"inserted", "hashed"} /\ (ByAccount => pc = "placed")
      /\ UNCHANGED <<req, messages, slots, signed, raw>>
  BY DEF InsertSignatureIntoEmptyTransaction
<1>2. req \in Requests /\ messages # << >> /\ SlotsInv
  BY <1>1 DEF VerdictInv, Begun
<1>3. /\ Ins' = Ins /\ ByAccount' = ByAccount /\ SlotsInv' /\ (CanWrite' <=> CanWrite)
      /\ SignedTx' = SignedTx
  BY <1>1, <1>2, SameSlots
<1>4. ByAccount => slots' = [i \in Ins |-> <<SigAt(i)>>]'
  <2>1. ByAccount => slots = [i \in Ins |-> <<SigAt(i)>>]
    BY <1>1 DEF VerdictInv, Begun
  <2>2. [i \in Ins |-> <<SigAt(i)>>]' = [i \in Ins |-> <<SigAt(i)>>]
    BY <1>1, <1>3 DEF SigAt, Owner
  <2> QED
    BY <1>1, <2>1, <2>2
<1>5. CASE CanWrite
  <2>. DEFINE t == DecodeRawTransaction(raw, req.segwitOn)
  <2>1. /\ pc' = "inserted" /\ verdict' = verdict
        /\ hex' = encodeToBytes([t EXCEPT !.witness = isSegwit,
                                          !.vins = [i \in Ins |-> SignedVin(t.vins[i], i)]],
                                req.segwitOn)
    <3>. HIDE DEF t
    <3> QED
      BY <1>5 DEF InsertSignatureIntoEmptyTransaction, CanWrite, t
  <2>2. t = newEmptyTransaction(Many, req.outs)
    <3>. HIDE DEF t
    <3>1. raw = encodeToBytes(newEmptyTransaction(Many, req.outs), FALSE)
      BY <1>1 DEF HashInv, Many
    <3>2. Many \in 1..(ByteRange - 1) /\ req.outs \in Nat /\ req.outs \in 1..(ByteRange - 1)
      BY <1>2, RequestType, MessagesAre
    <3> QED
      BY <3>1, <3>2, EmptyReadBack DEF t
  <2>. HIDE DEF t
  <2>3. hex' = encodeToBytes(SignedTx, req.segwitOn)
    BY <2>1, <2>2 DEF SignedTx
  <2>4. Written'
    BY <1>1, <1>3, <1>5, <2>3 DEF Written
  <2>5. ASSUME verdict \in {"verified", "rejected"}
        PROVE  AllPass' <=> AllPass
    <3>1. hex' = hex
      BY <2>3, <2>5 DEF VerdictInv, Written
    <3> QED
      BY <1>1, <3>1, SameVerdict
  <2>6. verdict # "error"
    BY <1>5 DEF VerdictInv
  <2> QED
    BY <1>1, <1>2, <1>3, <1>4, <2>1, <2>4, <2>5, <2>6 DEF VerdictInv, Begun
<1>6. CASE ~CanWrite
  <2>1. pc' = "hashed" /\ verdict' = "error"
    BY <1>6 DEF InsertSignatureIntoEmptyTransaction, CanWrite
  <2> QED
    BY <1>1, <1>2, <1>3, <1>4, <1>6, <2>1 DEF VerdictInv, Begun
<1> QED
  BY <1>5, <1>6

\* A verification says of the transaction what it is.
LEMMA VerdictVerified ==
    ASSUME VerdictInv, VerifyRawTransaction
    PROVE  VerdictInv'
<1>1. pc = "inserted" /\ pc' = "hashed" /\ UNCHANGED <<req, messages, slots, signed, hex>>
      /\ verdict' = IF AllPass THEN "verified" ELSE "rejected"
  BY DEF VerifyRawTransaction, AllPass
<1>2. req \in Requests /\ messages # << >> /\ SlotsInv /\ Written
  BY <1>1 DEF VerdictInv, Begun
<1>3. /\ Ins' = Ins /\ ByAccount' = ByAccount /\ SlotsInv' /\ Written' /\ (AllPass' <=> AllPass)
  BY <1>1, <1>2, SameSlots, SameVerdict
<1>4. ByAccount => slots' = [i \in Ins |-> <<SigAt(i)>>]'
  <2>1. ByAccount => slots = [i \in Ins |-> <<SigAt(i)>>]
    BY <1>1 DEF VerdictInv, Begun
  <2>2. [i \in Ins |-> <<SigAt(i)>>]' = [i \in Ins |-> <<SigAt(i)>>]
    BY <1>1, <1>3 DEF SigAt, Owner
  <2> QED
    BY <1>1, <2>1, <2>2
<1> QED
  BY <1>1, <1>2, <1>3, <1>4 DEF VerdictInv, Begun

LEMMA VerdictStep == HashInv /\ PlaceInv /\ VerdictInv /\ [Next]_vars => VerdictInv'
<1>. SUFFICES ASSUME HashInv, PlaceInv, VerdictInv, [Next]_vars PROVE VerdictInv'
  OBVIOUS
<1>. DEFINE Same == /\ UNCHANGED <<req, messages, slots, signed, hex, verdict>>
                    /\ Begun /\ Begun'
                    /\ pc' \in {"hashed", "place", "panicked"}
                    /\ pc' = "place" => ByAccount
<1>1. ASSUME Same PROVE VerdictInv'
  <2>1. /\ Ins' = Ins /\ ByAccount' = ByAccount /\ (SlotsInv' <=> SlotsInv)
        /\ (CanWrite' <=> CanWrite) /\ (Written' <=> Written) /\ (AllPass' <=> AllPass)
    BY <1>1, SameSlots, SameVerdict
  <2>2. [i \in Ins |-> <<SigAt(i)>>]' = [i \in Ins |-> <<SigAt(i)>>]
    BY <1>1, <2>1 DEF SigAt, Owner
  <2>3. pc' \notin {"new", "placed", "inserted"}
    BY <1>1
  <2> QED
    BY <1>1, <2>1, <2>2, <2>3 DEF VerdictInv
<1>2. ASSUME NEW r \in Requests, CreateEmptyRawTransaction(r) PROVE VerdictInv'
  BY <1>2 DEF VerdictInv, Begun, CreateEmptyRawTransaction
<1>3. CASE CreateRawTransactionHashForSig
  <2>1. HashInv'
    BY HashStep
  <2> QED
    BY <1>3, <2>1, VerdictHashes
<1>4. ASSUME NEW i \in Ins, NEW j \in DOMAIN req.unlock[i].keys, NEW k \in Keys, NEW of \in Ins,
             FillSlot(i, j, [key |-> k, of |-> of])
      PROVE  VerdictInv'
  BY <1>4, VerdictFills
<1>5. ASSUME NEW i \in Ins, SignOne(i) PROVE VerdictInv'
  <2>1. pc = "hashed" /\ pc' = pc /\ verdict' = "none" /\ UNCHANGED <<req, messages, slots>>
    BY <1>5 DEF SignOne
  <2>2. SlotsInv' <=> SlotsInv
    BY <2>1, SameSlots
  <2> QED
    BY <2>1, <2>2 DEF VerdictInv, Begun
<1>6. ASSUME NEW i \in Ins, Spend(i) PROVE VerdictInv'
  BY <1>1, <1>6 DEF Spend, Begun
<1>7. CASE VerifyCollect
  BY <1>1, <1>7 DEF VerifyCollect, Begun
<1>8. CASE PlaceNext
  BY <1>1, <1>8 DEF PlaceNext, Begun, VerdictInv
<1>9. CASE PlaceDrops
  BY <1>1, <1>9 DEF PlaceDrops, NothingMatches, Begun, VerdictInv
<1>10. CASE PlacePanics
  BY <1>1, <1>10 DEF PlacePanics, NothingMatches, Begun
<1>11. CASE PlaceFails
  BY <1>1, <1>11 DEF PlaceFails, Begun
<1>12. CASE Placed
  BY <1>12, VerdictPlaced
<1>13. CASE InsertSignatureIntoEmptyTransaction
  BY <1>13, VerdictInserts
<1>14. CASE VerifyRawTransaction
  BY <1>14, VerdictVerified
<1>15. CASE UNCHANGED vars
  <2>1. UNCHANGED <<pc, req, messages, slots, signed, hex, verdict>>
    BY <1>15 DEF vars
  <2>2. /\ Ins' = Ins /\ ByAccount' = ByAccount /\ (SlotsInv' <=> SlotsInv)
        /\ (CanWrite' <=> CanWrite) /\ (Written' <=> Written) /\ (AllPass' <=> AllPass)
    BY <2>1, SameSlots, SameVerdict
  <2>3. [i \in Ins |-> <<SigAt(i)>>]' = [i \in Ins |-> <<SigAt(i)>>]
    BY <2>1, <2>2 DEF SigAt, Owner
  <2> QED
    BY <2>1, <2>2, <2>3 DEF VerdictInv, Begun
<1> QED
  BY <1>2, <1>3, <1>4, <1>5, <1>6, <1>7, <1>8, <1>9, <1>10, <1>11, <1>12, <1>13, <1>14, <1>15
     DEF Next

\* What VerifyRawTransaction verifies (vasTransaction/transaction.go:168) is a
\* transaction of the outputs asked for whose every input the node can unlock, for
\* any number and any kinds of inputs, of keys and of signatures.
THEOREM VerifiedAccepted == Spec => []VerifiedIsAccepted
<1>1. Init => HashInv
  BY DEF Init, HashInv
<1> QED
  BY <1>1, HashStep, PlaceInit, PlaceStep, VerdictInit, VerdictStep, VerdictAccepts, PTL DEF Spec

\* Enough signatures, each in its slot and of its input's message, are inserted
\* (vasTransaction/transaction.go:67) and then verified, whoever of the keys signed
\* and whatever the other inputs are.
THEOREM SignedIsVerified == Spec => []SignedVerifies
<1>1. Init => HashInv
  BY DEF Init, HashInv
<1> QED
  BY <1>1, HashStep, PlaceInit, PlaceStep, VerdictInit, VerdictStep, VerdictVerifies, PTL DEF Spec
===============================================================================
