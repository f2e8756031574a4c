-------------------------- MODULE CoinSelectionProofs --------------------------
(***************************************************************************)
(* Proofs about CoinSelection, for every wallet, transfer, minimum fee and  *)
(* limit of inputs.                                                        *)
(***************************************************************************)
EXTENDS CoinSelection, WellFoundedInduction, TLAPS

-------------------------------------------------------------------------------
(* Arithmetic.                                                             *)

\* Multiplying by a number that is not negative keeps the order.
LEMMA TimesMonotone ==
    ASSUME NEW a \in Int, NEW b \in Int, a <= b, NEW c \in Nat
    PROVE  a * c <= b * c
<1>1. (b - a) * c >= 0
  BY SMT
<1>2. (b - a) * c = b * c - a * c
  BY SMT
<1> QED
  BY <1>1, <1>2, SMT

\* The quotient lies between the two multiples of the divisor.
LEMMA DivBounds ==
    ASSUME NEW a \in Nat, NEW m \in Nat \ {0}
    PROVE  /\ a \div m \in Nat
           /\ (a \div m) * m <= a
           /\ a < (a \div m + 1) * m
BY SMT

\* Dividing keeps the order.
LEMMA DivMonotone ==
    ASSUME NEW a \in Nat, NEW b \in Nat, a <= b, NEW m \in Nat \ {0}
    PROVE  a \div m <= b \div m
<1> DEFINE q == a \div m
           r == b \div m
<1>1. q \in Nat /\ r \in Nat /\ q * m <= a /\ b < (r + 1) * m
  BY DivBounds
<1>2. SUFFICES ASSUME r + 1 <= q PROVE FALSE
  BY <1>1, SMT
<1> HIDE DEF q, r
<1>3. (r + 1) * m <= q * m
  BY <1>1, <1>2, TimesMonotone
<1>4. (r + 1) * m \in Int /\ q * m \in Int
  BY <1>1
<1> QED
  BY <1>1, <1>3, <1>4, SMT

-------------------------------------------------------------------------------
(* The fee.                                                                *)

LEMMA PieceType ==
    ASSUME NEW k \in Nat
    PROVE  Piece(k) \in Nat
<1>1. MaxTxInputs \in Nat \ {0}
  BY FeesAssumption DEF FeesAssumption
<1>2. k + MaxTxInputs - 1 \in Nat
  BY <1>1, SMT
<1>3. (k + MaxTxInputs - 1) \div MaxTxInputs \in Nat
  BY <1>1, <1>2, DivBounds
<1> QED
  BY <1>3 DEF Piece, CeilDiv

\* More inputs fill no fewer transactions.
LEMMA PieceMonotone ==
    ASSUME NEW k \in Nat, NEW l \in Nat, k <= l
    PROVE  Piece(k) <= Piece(l)
<1>1. MaxTxInputs \in Nat \ {0}
  BY FeesAssumption DEF FeesAssumption
<1> DEFINE up(x) == x + MaxTxInputs - 1
<1>2. CASE l <= MaxTxInputs
  BY <1>1, <1>2, SMT DEF Piece
<1>3. CASE l > MaxTxInputs /\ k > MaxTxInputs
  <2>1. up(k) \in Nat /\ up(l) \in Nat /\ up(k) <= up(l)
    BY <1>1, SMT
  <2>2. up(k) \div MaxTxInputs <= up(l) \div MaxTxInputs
    BY <1>1, <2>1, DivMonotone
  <2> QED
    BY <1>3, <2>2 DEF Piece, CeilDiv
<1>4. CASE l > MaxTxInputs /\ k <= MaxTxInputs
  <2>1. up(l) \in Nat /\ MaxTxInputs <= up(l)
    BY <1>1, <1>4, SMT
  <2>2. MaxTxInputs \div MaxTxInputs <= up(l) \div MaxTxInputs
    BY <1>1, <2>1, DivMonotone
  <2>3. MaxTxInputs \div MaxTxInputs = 1
    BY <1>1, SMT
  <2>4. Piece(k) = 1
    BY <1>1, <1>4, SMT DEF Piece
  <2>5. Piece(l) = up(l) \div MaxTxInputs
    BY <1>4 DEF Piece, CeilDiv
  <2> QED
    BY <2>2, <2>3, <2>4, <2>5
<1> QED
  BY <1>1, <1>2, <1>3, <1>4, SMT

LEMMA ThousandthMonotone ==
    ASSUME NEW x \in Nat, NEW y \in Nat, x <= y
    PROVE  Thousandth(x) \in Nat /\ Thousandth(x) <= Thousandth(y)
<1>1. x + 500 \in Nat /\ y + 500 \in Nat /\ x + 500 <= y + 500 /\ 1000 \in Nat \ {0}
  BY SMT
<1>2. (x + 500) \div 1000 <= (y + 500) \div 1000 /\ (x + 500) \div 1000 \in Nat
  BY <1>1, DivMonotone, DivBounds
<1> QED
  BY <1>2 DEF Thousandth

\* The fee of a transaction is a number, and never less for more inputs: what
\* the selection loop relies on when the fee of a pass is its next target.
LEMMA FeeMonotone ==
    ASSUME NEW k \in Nat, NEW l \in Nat, k <= l, NEW outs \in Nat, NEW rate \in Nat
    PROVE  /\ EstimateFee(k, outs, rate) \in Nat
           /\ EstimateFee(k, outs, rate) <= EstimateFee(l, outs, rate)
<1>1. Piece(k) \in Nat /\ Piece(l) \in Nat /\ Piece(k) <= Piece(l)
  BY PieceType, PieceMonotone
<1>2. /\ TrxBytes(k, outs) \in Nat /\ TrxBytes(l, outs) \in Nat
      /\ TrxBytes(k, outs) <= TrxBytes(l, outs)
  BY <1>1, SMT DEF TrxBytes
<1>3. TrxBytes(k, outs) * rate <= TrxBytes(l, outs) * rate
  BY <1>2, TimesMonotone
<1>4. TrxBytes(k, outs) * rate \in Nat /\ TrxBytes(l, outs) * rate \in Nat
  BY <1>2, SMT
<1> DEFINE a == TrxBytes(k, outs) * rate
           b == TrxBytes(l, outs) * rate
<1>5. /\ Thousandth(a) \in Nat /\ Thousandth(b) \in Nat
      /\ Thousandth(a) <= Thousandth(b)
  BY <1>3, <1>4, ThousandthMonotone
<1>6. MinFees \in Nat
  BY FeesAssumption DEF FeesAssumption
<1> HIDE DEF a, b
<1>7. /\ AtLeast(MinFees, Thousandth(a)) \in Nat
      /\ AtLeast(MinFees, Thousandth(a)) <= AtLeast(MinFees, Thousandth(b))
  BY <1>5, <1>6, SMT DEF AtLeast
<1> QED
  BY <1>7 DEF EstimateFee, a, b

-------------------------------------------------------------------------------
(* What one pass takes.                                                    *)

\* A set of naturals that is not empty has a least element.
LEMMA LeastExists ==
    ASSUME NEW S \in SUBSET Nat, S # {}
    PROVE  \E m \in S : \A k \in S : m <= k
<1> DEFINE R == OpToRel(<, Nat)
<1>1. IsWellFoundedOn(R, Nat)
  BY NatLessThanWellFounded
<1>2. \A x, y \in Nat : <<x, y>> \in R <=> x < y
  BY DEF OpToRel
<1> HIDE DEF R
<1>3. PICK m \in S : \A k \in S : <<k, m>> \notin R
  BY <1>1, WFMin
<1>4. \A k \in S : ~(k < m)
  BY <1>2, <1>3
<1> QED
  BY <1>4, SMT

\* A pass takes at least one output; those it takes but the last do not reach
\* the target; and when it does not reach the target, no number of them does.
LEMMA PickLeast ==
    ASSUME wallet \in Wallets, wallet.n >= 1, NEW t \in Nat
    PROVE  /\ Pick(t) \in 1..wallet.n
           /\ \A k \in 1..(Pick(t) - 1) : wallet.worth[k] < t
           /\ wallet.worth[Pick(t)] < t => \A k \in 1..wallet.n : wallet.worth[k] < t
<1>1. wallet.n \in Nat /\ wallet.worth \in [0..wallet.n -> Nat]
  BY SelectionAssumption DEF SelectionAssumption, IsWallet
<1>2. \A k \in 1..wallet.n : wallet.worth[k] \in Nat
  BY <1>1, SMT
<1>3. CASE Reaching(t) = {}
  <2>1. Pick(t) = wallet.n
    BY <1>3 DEF Pick
  <2>2. \A k \in 1..wallet.n : wallet.worth[k] < t
    BY <1>2, <1>3, SMT DEF Reaching
  <2> QED
    BY <1>1, <2>1, <2>2, SMT
<1>4. CASE Reaching(t) # {}
  <2>1. Reaching(t) \in SUBSET Nat
    BY <1>1, SMT DEF Reaching
  <2>2. \E m \in Reaching(t) : \A k \in Reaching(t) : m <= k
    BY <1>4, <2>1, LeastExists
  <2>3. Pick(t) \in Reaching(t) /\ \A k \in Reaching(t) : Pick(t) <= k
    BY <1>4, <2>2 DEF Pick
  <2> HIDE DEF Pick
  <2>4. Pick(t) \in 1..wallet.n /\ wallet.worth[Pick(t)] >= t
    BY <2>3 DEF Reaching
  <2>5. ASSUME NEW k \in 1..(Pick(t) - 1) PROVE wallet.worth[k] < t
    <3>1. k \in 1..wallet.n /\ k < Pick(t)
      BY <1>1, <2>4, SMT
    <3>2. k \notin Reaching(t)
      BY <2>1, <2>3, <3>1, SMT
    <3> QED
      BY <1>2, <3>1, <3>2, SMT DEF Reaching
  <2> QED
    BY <1>2, <2>4, <2>5, SMT
<1> QED
  BY <1>3, <1>4

-------------------------------------------------------------------------------
(* The inductive invariant: before each pass, no number of inputs up to the *)
(* one the last pass took pays for the transfer and its own fee, and the    *)
(* target is what that number would have had to bring.                     *)

Passing ==
    pc = "select" =>
        /\ wallet.n >= 1
        /\ \/ used = 0 /\ target = tr.send
           \/ /\ used \in 1..wallet.n
              /\ target = tr.send + Fee(used)
              /\ wallet.worth[used] < target
        /\ \A k \in 1..used : ~Affordable(k)

Chosen ==
    pc \in {"selected", "built", "tooManyInputs"} =>
        /\ used \in 1..wallet.n
        /\ target = tr.send
        /\ fees = Fee(used)

SelectionInv ==
    TypeOK /\ Passing /\ Chosen /\ Balances /\ LeastSelection /\ InsufficientIsExact

\* The types of what the wallet and the transfer in hand are made of.
LEMMA InputTypes ==
    ASSUME wallet \in Wallets, tr \in Transfers
    PROVE  /\ wallet.n \in Nat
           /\ \A k \in 0..wallet.n : wallet.worth[k] \in Nat
           /\ \A j, k \in 0..wallet.n : j <= k => wallet.worth[j] <= wallet.worth[k]
           /\ tr.send \in Nat /\ tr.dests \in Nat /\ tr.rate \in Nat
BY SelectionAssumption DEF SelectionAssumption, IsWallet

LEMMA FeeTypes ==
    ASSUME wallet \in Wallets, tr \in Transfers
    PROVE  /\ \A k \in Nat : Fee(k) \in Nat
           /\ \A j, k \in Nat : j <= k => Fee(j) <= Fee(k)
<1>1. tr.dests + 1 \in Nat /\ tr.rate \in Nat
  BY InputTypes, SMT
<1>2. ASSUME NEW j \in Nat, NEW k \in Nat, j <= k
      PROVE  Fee(j) \in Nat /\ Fee(j) <= Fee(k)
  BY <1>1, <1>2, FeeMonotone DEF Fee
<1>3. \A k \in Nat : k <= k
  BY SMT
<1> QED
  BY <1>2, <1>3

\* After a pass, no number of outputs below the one it takes is affordable:
\* below the number of the last pass by the invariant, above it because the
\* fee is no less than the one in the target.
LEMMA PassSkipsNone ==
    ASSUME TypeOK, Passing, pc = "select"
    PROVE  /\ Pick(target) \in 1..wallet.n
           /\ Pick(target) \in Nat
           /\ \A k \in 1..(Pick(target) - 1) : ~Affordable(k)
           /\ wallet.worth[Pick(target)] < target => \A k \in 1..wallet.n : ~Affordable(k)
<1>1. wallet \in Wallets /\ tr \in Transfers /\ wallet.n >= 1 /\ target \in Nat
  BY DEF TypeOK, Passing
<1>2. /\ Pick(target) \in 1..wallet.n
      /\ \A k \in 1..(Pick(target) - 1) : wallet.worth[k] < target
      /\ wallet.worth[Pick(target)] < target => \A k \in 1..wallet.n : wallet.worth[k] < target
  BY <1>1, PickLeast
<1>3. used \in Nat /\ wallet.n \in Nat
  BY <1>1, InputTypes, SMT DEF TypeOK
<1>4. ASSUME NEW k \in 1..wallet.n, wallet.worth[k] < target PROVE ~Affordable(k)
  <2>1. k \in Nat /\ k \in 0..wallet.n
    BY <1>3, SMT
  <2>2. wallet.worth[k] \in Nat /\ tr.send \in Nat /\ Fee(k) \in Nat /\ Fee(used) \in Nat
    BY <1>1, <1>3, <2>1, InputTypes, FeeTypes
  <2>3. CASE k <= used
    BY <1>3, <2>1, <2>3, SMT DEF Passing
  <2>4. CASE k > used
    <3>1. Fee(used) <= Fee(k)
      BY <1>1, <1>3, <2>1, <2>4, FeeTypes
    <3>2. target <= tr.send + Fee(k)
      BY <2>2, <3>1, SMT DEF Passing
    <3> QED
      BY <1>1, <1>4, <2>2, <3>2, SMT DEF Affordable
  <2> QED
    BY <1>3, <2>1, <2>3, <2>4, SMT
<1>5. \A k \in 1..(Pick(target) - 1) : k \in 1..wallet.n
  BY <1>2, <1>3, SMT
<1>6. Pick(target) \in Nat
  BY <1>2, <1>3, SMT
<1> HIDE DEF Pick
<1> QED
  BY <1>2, <1>4, <1>5, <1>6

LEMMA InitEstablishes == Init => SelectionInv
<1> SUFFICES ASSUME Init PROVE SelectionInv
  OBVIOUS
<1>1. wallet.n \in Nat /\ tr.send \in Nat /\ tr.dests \in Nat
  BY InputTypes DEF Init
<1>2. TypeOK
  BY <1>1, SMT DEF Init, TypeOK, Errors
<1>3. Passing
  BY <1>1, SMT DEF Init, Passing
<1>4. Chosen /\ Balances /\ LeastSelection /\ InsufficientIsExact
  BY DEF Init, Chosen, Balances, LeastSelection, InsufficientIsExact
<1> QED
  BY <1>2, <1>3, <1>4 DEF SelectionInv

LEMMA StepPreserves == SelectionInv /\ [Next]_vars => SelectionInv'
<1> SUFFICES ASSUME SelectionInv, [Next]_vars PROVE SelectionInv'
  OBVIOUS
<1> USE DEF SelectionInv
<1>1. wallet \in Wallets /\ tr \in Transfers
  BY DEF TypeOK
<1>2. /\ wallet.n \in Nat /\ tr.send \in Nat /\ used \in Nat
      /\ \A k \in 0..wallet.n : wallet.worth[k] \in Nat
      /\ \A k \in Nat : Fee(k) \in Nat
  BY <1>1, InputTypes, FeeTypes, SMT DEF TypeOK
<1>3. CASE PassInsufficient
  <2>1. pc = "select" /\ used' = Pick(target) /\ UNCHANGED <<wallet, tr, target, fees, change>>
        /\ pc' = "insufficient" /\ wallet.worth[Pick(target)] < target
    BY <1>3 DEF PassInsufficient
  <2>2. Pick(target) \in 1..wallet.n /\ \A k \in 1..wallet.n : ~Affordable(k)
    BY <2>1, PassSkipsNone
  <2>3. TypeOK'
    BY <1>2, <2>1, <2>2, SMT DEF TypeOK, Errors
  <2>4. InsufficientIsExact'
    BY <2>1, <2>2 DEF InsufficientIsExact, Affordable, Fee
  <2>5. Passing' /\ Chosen' /\ Balances' /\ LeastSelection'
    BY <2>1 DEF Passing, Chosen, Balances, LeastSelection
  <2> QED
    BY <2>3, <2>4, <2>5
<1>4. CASE PassAgain
  <2> DEFINE n == Pick(target)
  <2>1. /\ pc = "select" /\ pc' = pc /\ used' = n /\ fees' = Fee(n) /\ target' = tr.send + Fee(n)
        /\ tr.send + Fee(n) > wallet.worth[n]
        /\ UNCHANGED <<wallet, tr, change>>
    BY <1>4 DEF PassAgain, TargetWith
  <2>2. n \in 1..wallet.n /\ n \in Nat /\ \A k \in 1..(n - 1) : ~Affordable(k)
    BY <2>1, PassSkipsNone
  <2> HIDE DEF n
  <2>3. n \in 0..wallet.n /\ wallet.worth[n] \in Nat /\ Fee(n) \in Nat
    BY <1>2, <2>2, SMT
  <2>4. TypeOK'
    BY <1>2, <2>1, <2>2, <2>3, SMT DEF TypeOK, Errors
  <2>5. ~Affordable(n)
    BY <1>2, <2>1, <2>3, SMT DEF Affordable
  <2>6. \A k \in 1..n : ~Affordable(k)
    BY <2>2, <2>5, SMT
  <2>7. Passing'
    <3>1. wallet.n >= 1
      BY <2>1 DEF Passing
    <3>2. used' \in 1..wallet'.n /\ target' = tr'.send + Fee(used)' /\ (wallet.worth[used])' < target'
      BY <1>2, <2>1, <2>2, <2>3, SMT DEF Fee
    <3>3. (\A k \in 1..used : ~Affordable(k))'
      BY <2>1, <2>6 DEF Affordable, Fee
    <3> QED
      BY <2>1, <3>1, <3>2, <3>3 DEF Passing
  <2>8. Chosen' /\ Balances' /\ LeastSelection' /\ InsufficientIsExact'
    BY <2>1 DEF Chosen, Balances, LeastSelection, InsufficientIsExact
  <2> QED
    BY <2>4, <2>7, <2>8
<1>5. CASE PassEnough
  <2> DEFINE n == Pick(target)
  <2>1. /\ pc = "select" /\ pc' = "selected" /\ used' = n /\ fees' = Fee(n) /\ target' = tr.send
        /\ tr.send + Fee(n) <= wallet.worth[n]
        /\ UNCHANGED <<wallet, tr, change>>
    BY <1>5 DEF PassEnough
  <2>2. n \in 1..wallet.n /\ n \in Nat /\ \A k \in 1..(n - 1) : ~Affordable(k)
    BY <2>1, PassSkipsNone
  <2> HIDE DEF n
  <2>3. n \in 0..wallet.n /\ wallet.worth[n] \in Nat /\ Fee(n) \in Nat
    BY <1>2, <2>2, SMT
  <2>4. TypeOK'
    BY <1>2, <2>1, <2>2, <2>3, SMT DEF TypeOK, Errors
  <2>5. Affordable(n)
    BY <1>2, <2>1, <2>3, SMT DEF Affordable
  <2>6. LeastSelection'
    BY <2>1, <2>2, <2>5 DEF LeastSelection, Affordable, Fee
  <2>7. Chosen'
    BY <2>1, <2>2 DEF Chosen, Fee
  <2>8. Passing' /\ Balances' /\ InsufficientIsExact'
    BY <2>1 DEF Passing, Balances, InsufficientIsExact
  <2> QED
    BY <2>4, <2>6, <2>7, <2>8
<1>6. CASE RefuseInputs
  <2>1. /\ pc = "selected" /\ pc' = "tooManyInputs"
        /\ UNCHANGED <<wallet, tr, used, target, fees, change>>
    BY <1>6 DEF RefuseInputs
  <2>2. TypeOK'
    BY <2>1 DEF TypeOK, Errors
  <2>3. Chosen' /\ LeastSelection'
    BY <2>1 DEF Chosen, LeastSelection, Affordable, Fee
  <2>4. Passing' /\ Balances' /\ InsufficientIsExact'
    BY <2>1 DEF Passing, Balances, InsufficientIsExact
  <2> QED
    BY <2>2, <2>3, <2>4
<1>7. CASE Build
  <2>1. /\ pc = "selected" /\ pc' = "built" /\ change' = wallet.worth[used] - target - fees
        /\ UNCHANGED <<wallet, tr, used, target, fees>>
    BY <1>7 DEF Build, Change
  <2>2. /\ used \in 0..wallet.n /\ target = tr.send /\ fees = Fee(used)
        /\ wallet.worth[used] >= tr.send + Fee(used)
    BY <1>2, <2>1, SMT DEF Chosen, LeastSelection, Affordable
  <2>3. wallet.worth[used] \in Nat /\ Fee(used) \in Nat
    BY <1>2, <2>2
  <2>4. change' \in Nat /\ wallet.worth[used] = tr.send + fees + change'
    BY <1>2, <2>1, <2>2, <2>3, SMT
  <2>5. TypeOK'
    BY <2>1, <2>4 DEF TypeOK, Errors
  <2>6. Balances'
    BY <2>1, <2>2, <2>4 DEF Balances, Fee
  <2>7. Chosen' /\ LeastSelection'
    BY <2>1 DEF Chosen, LeastSelection, Affordable, Fee
  <2>8. Passing' /\ InsufficientIsExact'
    BY <2>1 DEF Passing, InsufficientIsExact
  <2> QED
    BY <2>5, <2>6, <2>7, <2>8
<1>8. CASE UNCHANGED vars
  BY <1>8 DEF vars, TypeOK, Passing, Chosen, Balances, LeastSelection, InsufficientIsExact,
     Affordable, Fee
<1> QED
  BY <1>3, <1>4, <1>5, <1>6, <1>7, <1>8 DEF Next

-------------------------------------------------------------------------------
(* The theorems.                                                           *)

\* SelectionInv holds in every state CreateBTCRawTransaction goes through.
THEOREM SelectionInvariant == Spec => []SelectionInv
BY InitEstablishes, StepPreserves, PTL DEF Spec

\* CreateBTCRawTransaction never computes with a value out of its type: the
\* change of a transaction it builds is not negative.
THEOREM SelectionTypes == Spec => []TypeOK
<1>1. SelectionInv => TypeOK
  BY DEF SelectionInv
<1> QED
  BY <1>1, SelectionInvariant, PTL

\* A transaction it builds balances, at the fee for exactly its inputs.
THEOREM BuiltBalances == Spec => []Balances
<1>1. SelectionInv => Balances
  BY DEF SelectionInv
<1> QED
  BY <1>1, SelectionInvariant, PTL

\* The selection loop ends at the least number of inputs that pays.
THEOREM SelectsLeast == Spec => []LeastSelection
<1>1. SelectionInv => LeastSelection
  BY DEF SelectionInv
<1> QED
  BY <1>1, SelectionInvariant, PTL

\* An insufficient balance is reported only when no number of inputs pays.
THEOREM InsufficientExactly == Spec => []InsufficientIsExact
<1>1. SelectionInv => InsufficientIsExact
  BY DEF SelectionInv
<1> QED
  BY <1>1, SelectionInvariant, PTL

\* Each pass of the loop that does not end it takes more inputs than the last:
\* the outputs of the last pass did not reach the target, and fewer are worth
\* no more.
THEOREM EachPassGrows == Spec => PassesGrow
<1> DEFINE A == pc = "select" /\ pc' = "select" => used' > used
<1>1. SelectionInv /\ [Next]_vars => [A]_vars
  <2> SUFFICES ASSUME SelectionInv, Next, pc = "select", pc' = "select" PROVE used' > used
    OBVIOUS
  <2>1. PassAgain
    BY DEF Next, PassInsufficient, PassEnough, RefuseInputs, Build
  <2> DEFINE n == Pick(target)
  <2>2. used' = n /\ wallet.worth[n] >= target
    BY <2>1 DEF PassAgain
  <2>3. wallet \in Wallets /\ tr \in Transfers
    BY DEF SelectionInv, TypeOK
  <2>4. n \in 1..wallet.n
    BY PassSkipsNone DEF SelectionInv
  <2> HIDE DEF n
  <2>5. /\ wallet.n \in Nat
        /\ \A k \in 0..wallet.n : wallet.worth[k] \in Nat
        /\ \A j, k \in 0..wallet.n : j <= k => wallet.worth[j] <= wallet.worth[k]
    BY <2>3, InputTypes
  <2>6. used \in 0..wallet.n /\ target \in Nat
    BY DEF SelectionInv, TypeOK
  <2>7. CASE used = 0
    BY <2>2, <2>4, <2>5, <2>7, SMT
  <2>8. CASE used # 0
    <3>1. wallet.worth[used] < target
      BY <2>8 DEF SelectionInv, Passing
    <3>2. n \in 0..wallet.n /\ n \in Nat /\ used \in Nat
      BY <2>4, <2>5, <2>6, SMT
    <3>3. n <= used => wallet.worth[n] <= wallet.worth[used]
      BY <2>5, <2>6, <3>2
    <3> QED
      BY <2>2, <2>5, <2>6, <3>1, <3>2, <3>3, SMT
  <2> QED
    BY <2>7, <2>8
<1>2. Spec => [][Next]_vars
  BY DEF Spec
<1> QED
  BY <1>1, <1>2, SelectionInvariant, PTL DEF PassesGrow
===============================================================================
