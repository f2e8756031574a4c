------------------------------- MODULE Summary --------------------------------
(***************************************************************************)
(* CreateSummaryRawTransaction and CreateVASSummaryRawTransaction           *)
(* (vas/tx_decode.go): the loop over an account's addresses that gathers    *)
(* their unspent outputs into transactions to the summary address.          *)
(*                                                                         *)
(* An address has a balance (GetBalanceByAddress), and n outputs with       *)
(* enough confirmations, worth something in all (ListUnspent, without what  *)
(* keepOmniCostUTXONotToUse keeps back).                                   *)
(***************************************************************************)
EXTENDS VasFees, Sequences

CONSTANTS AddressLists,   \* the addresses of an account, in order
          MinTransfer,    \* SummaryRawTransaction.MinTransfer
          Rates           \* fee rates

Address == [balance : Nat, n : Nat, worth : Nat]

ASSUME SummaryAssumption ==
    /\ AddressLists \subseteq Seq(Address)
    /\ MinTransfer \in Nat
    /\ Rates \subseteq Nat

VARIABLES
    pc,            \* "loop", "built", "done", or "error" when ListUnspent fails
    sumAddresses,
    rate,
    i,             \* the address the loop is at
    pool,          \* the outputs gathered: of which addresses, how many, worth what
    rawTxArray,    \* the transactions built, and whether building failed
    result         \* the transactions returned to the caller

vars == <<pc, sumAddresses, rate, i, pool, rawTxArray, result>>

EmptyPool == [addrs |-> {}, count |-> 0, total |-> 0]

\* The addresses whose balance reaches MinTransfer are summarised; when there
\* is none, nothing is done.
Init ==
    /\ sumAddresses \in {s \in AddressLists : \A k \in 1..Len(s) : s[k].balance >= MinTransfer}
    /\ rate \in Rates
    /\ pc = IF sumAddresses = << >> THEN "done" ELSE "loop"
    /\ i = 1
    /\ pool = EmptyPool
    /\ rawTxArray = << >>
    /\ result = << >>

-------------------------------------------------------------------------------
\* The outputs of an address are gathered if there is room for all of them,
\* and left out if there is not.
Fits(a, p) == a.n + p.count < MaxTxInputs

GatherOnly(a, p) ==                              \* mutant: the pool replaced
    IF Fits(a, p) THEN [addrs |-> {i}, count |-> a.n, total |-> a.worth] ELSE p

Gather(a, p) ==
    IF Fits(a, p)
    THEN [addrs |-> p.addrs \union {i}, count |-> p.count + a.n, total |-> p.total + a.worth]
    ELSE p

\* A transaction is built when the pool is full or the addresses are at an end.
LastAddress == i = Len(sumAddresses)

BuildsOften(p) == LastAddress \/ p.count >= 1    \* mutant: for every address
BuildsNow(p) == LastAddress \/ p.count >= MaxTxInputs

\* Its one output is what the inputs are worth, less the fee.
FeesOf(p) == EstimateFee(p.count, 1, rate)
SumAmountAll(p) == p.total                       \* mutant: the fee not taken off
SumAmount(p) == p.total - FeesOf(p)

WorthSending(p) == SumAmount(p) > 0

InLoop == pc = "loop" /\ i <= Len(sumAddresses)

\* ListUnspent fails: what was built so far is given up.
ListFails ==
    /\ InLoop
    /\ pc' = "error"
    /\ UNCHANGED <<sumAddresses, rate, i, pool, rawTxArray, result>>

Advance ==
    /\ i' = i + 1
    /\ pc' = IF LastAddress THEN "built" ELSE "loop"
    /\ UNCHANGED <<sumAddresses, rate, result>>

GatherMore ==
    LET p == Gather(sumAddresses[i], pool) IN
    /\ InLoop
    /\ ~BuildsNow(p)
    /\ pool' = p
    /\ Advance
    /\ UNCHANGED rawTxArray

\* The outputs do not pay the fee: they are dropped.
BuildNothing ==
    LET p == Gather(sumAddresses[i], pool) IN
    /\ InLoop
    /\ BuildsNow(p)
    /\ ~WorthSending(p)
    /\ pool' = EmptyPool
    /\ Advance
    /\ UNCHANGED rawTxArray

\* createVASRawTransaction may fail; the transaction is kept with its error.
BuildTx ==
    LET p == Gather(sumAddresses[i], pool) IN
    /\ InLoop
    /\ BuildsNow(p)
    /\ WorthSending(p)
    /\ \E e \in BOOLEAN :
          rawTxArray' = Append(rawTxArray,
              [from |-> p, amount |-> SumAmount(p), fees |-> FeesOf(p), error |-> e])
    /\ pool' = EmptyPool
    /\ Advance

\* CreateSummaryRawTransaction leaves out the transactions with an error.
WithoutErrors(txs) ==
    LET kept[k \in 0..Len(txs)] ==
            IF k = 0 THEN << >>
            ELSE IF txs[k].error THEN kept[k - 1] ELSE Append(kept[k - 1], txs[k])
    IN  kept[Len(txs)]

Deliver ==
    /\ pc = "built"
    /\ pc' = "done"
    /\ result' = WithoutErrors(rawTxArray)
    /\ UNCHANGED <<sumAddresses, rate, i, pool, rawTxArray>>

Next == ListFails \/ GatherMore \/ BuildNothing \/ BuildTx \/ Deliver

Spec == Init /\ [][Next]_vars

-------------------------------------------------------------------------------
(* Properties.                                                             *)

\* A summary is one transaction at most, with fewer inputs than MaxTxInputs:
\* the pool never fills, so nothing is built before the last address.
AtMostOne ==
    /\ Len(rawTxArray) <= 1
    /\ \A k \in 1..Len(rawTxArray) : rawTxArray[k].from.count < MaxTxInputs
    /\ (pc = "loop" => rawTxArray = << >>)

\* A transaction moves what the outputs of its addresses are worth, less a fee
\* that is EstimateFee's for its inputs, and moves something.
Worth(S) ==
    LET sum[k \in 0..Len(sumAddresses)] ==
            IF k = 0 THEN 0
            ELSE sum[k - 1] + (IF k \in S THEN sumAddresses[k].worth ELSE 0)
    IN  sum[Len(sumAddresses)]

SummaryBalances ==
    \A k \in 1..Len(rawTxArray) :
        LET tx == rawTxArray[k] IN
        /\ tx.amount > 0
        /\ tx.amount + tx.fees = Worth(tx.from.addrs)
        /\ tx.fees = EstimateFee(tx.from.count, 1, rate)

\* How many outputs of the first j addresses fitted.
Gathered[j \in 0..Len(sumAddresses)] ==
    IF j = 0 THEN 0
    ELSE LET c == Gathered[j - 1] IN
         IF c + sumAddresses[j].n < MaxTxInputs THEN c + sumAddresses[j].n ELSE c

Before(k) == Gathered[k - 1]

Summarised(k) == \E m \in 1..Len(result) : k \in result[m].from.addrs

\* What a summary leaves behind without an error is an address whose outputs
\* did not fit beside those gathered before it, or outputs that do not pay the
\* fee, or a transaction that could not be built.
LeftBehindOnlyFor ==
    pc = "done" =>
        \A k \in 1..Len(sumAddresses) :
            \/ Summarised(k)
            \/ Before(k) + sumAddresses[k].n >= MaxTxInputs
            \/ rawTxArray = << >>
            \/ \E m \in 1..Len(rawTxArray) : rawTxArray[m].error
===============================================================================
