---------------------------- MODULE CoinSelection -----------------------------
(***************************************************************************)
(* CreateBTCRawTransaction (vas/tx_decode.go) up to the transaction it      *)
(* builds, with EstimateFee and EstimateFeeRate (vas/manager.go): which of  *)
(* an account's unspent outputs a transfer uses, the fee and the change.    *)
(*                                                                         *)
(* Amounts are integers in the coin's smallest unit.  In a wallet w,        *)
(* w.worth[k] is what its k smallest spendable outputs are worth, so the    *)
(* sort of the code is in it.  The outputs are used smallest first, and a   *)
(* selection is the number of them that are used.                          *)
(***************************************************************************)
EXTENDS VasFees

CONSTANTS Wallets,       \* the wallets a transfer may be made from
          Transfers      \* the transfers: total sent, number of receivers, fee rate

\* It has n spendable outputs; the sums of none of them, of the smallest, of
\* the two smallest ... do not fall: no amount is negative.
IsWallet(w) ==
    /\ w.n \in Nat
    /\ w.worth \in [0..w.n -> Nat]
    /\ w.worth[0] = 0
    /\ \A i, j \in 0..w.n : i <= j => w.worth[i] <= w.worth[j]

ASSUME SelectionAssumption ==
    /\ \A w \in Wallets : IsWallet(w)
    /\ Transfers \subseteq [send : Nat, dests : Nat, rate : Nat]

-------------------------------------------------------------------------------
VARIABLES
    pc,        \* "select", "selected", "built", or the error returned
    wallet,    \* the account's outputs
    tr,        \* the transfer
    used,      \* len(usedUTXO)
    target,    \* computeTotalSend
    fees,      \* the fee of the last pass
    change     \* changeAmount

vars == <<pc, wallet, tr, used, target, fees, change>>

Errors == {"noUnspent", "noReceiver", "insufficient", "tooManyInputs"}

TypeOK ==
    /\ pc \in {"select", "selected", "built"} \union Errors
    /\ wallet \in Wallets
    /\ tr \in Transfers
    /\ used \in 0..wallet.n
    /\ target \in Nat
    /\ fees \in Nat
    /\ change \in Nat

\* One output more than the receivers, for the change.
Fee(k) == EstimateFee(k, tr.dests + 1, tr.rate)

\* The outputs ListUnspent returns and the transfer asked for are any.
Init ==
    /\ wallet \in Wallets
    /\ tr \in Transfers
    /\ pc = IF wallet.n = 0 THEN "noUnspent"
            ELSE IF tr.dests = 0 THEN "noReceiver"
            ELSE "select"
    /\ used = 0
    /\ target = tr.send
    /\ fees = 0
    /\ change = 0

\* The outputs a pass takes: up to the first that brings the balance to the
\* target, one at least; all of them when none does.
ReachingMore(t) == {k \in 1..wallet.n : wallet.worth[k] > t}    \* mutant
Reaching(t) == {k \in 1..wallet.n : wallet.worth[k] >= t}

Pick(t) ==
    IF Reaching(t) = {} THEN wallet.n
    ELSE CHOOSE k \in Reaching(t) : \A j \in Reaching(t) : k <= j

\* The target of the next pass.  Mutants: the fee replaces the amount, or is
\* added again in each pass.
TargetFee(f) == f
TargetAgain(f) == target + f
TargetWith(f) == tr.send + f

\* All of them are not enough.
PassInsufficient ==
    LET n == Pick(target) IN
    /\ pc = "select"
    /\ wallet.worth[n] < target
    /\ pc' = "insufficient"
    /\ used' = n
    /\ UNCHANGED <<wallet, tr, target, fees, change>>

\* They are enough for the target, but not with the fee of this many inputs.
PassAgain ==
    LET n == Pick(target) IN
    /\ pc = "select"
    /\ wallet.worth[n] >= target
    /\ tr.send + Fee(n) > wallet.worth[n]
    /\ used' = n
    /\ fees' = Fee(n)
    /\ target' = TargetWith(Fee(n))
    /\ UNCHANGED <<pc, wallet, tr, change>>

PassEnough ==
    LET n == Pick(target) IN
    /\ pc = "select"
    /\ wallet.worth[n] >= target
    /\ tr.send + Fee(n) <= wallet.worth[n]
    /\ pc' = "selected"
    /\ used' = n
    /\ fees' = Fee(n)
    /\ target' = tr.send
    /\ UNCHANGED <<wallet, tr, change>>

\* The number of inputs is limited.
RefuseInputs ==
    /\ pc = "selected"
    /\ used > MaxTxInputs
    /\ pc' = "tooManyInputs"
    /\ UNCHANGED <<wallet, tr, used, target, fees, change>>

\* What is left goes back to the address of the first input.
ChangeNoFee == wallet.worth[used] - target              \* mutant: the fee forgotten
Change == wallet.worth[used] - target - fees

Build ==
    /\ pc = "selected"
    /\ used <= MaxTxInputs
    /\ pc' = "built"
    /\ change' = Change
    /\ UNCHANGED <<wallet, tr, used, target, fees>>

Next == PassInsufficient \/ PassAgain \/ PassEnough \/ RefuseInputs \/ Build

Spec == Init /\ [][Next]_vars

-------------------------------------------------------------------------------
(* Properties.                                                             *)

\* A number of inputs pays for the transfer and for its own fee.
Affordable(k) == wallet.worth[k] >= tr.send + Fee(k)

\* A built transaction balances: its inputs are what is sent, the fee
\* EstimateFee asks for exactly this number of inputs, and the change.
Balances ==
    pc = "built" =>
        /\ wallet.worth[used] = tr.send + fees + change
        /\ fees = Fee(used)

\* The loop stops at the least number of inputs, smallest first, that pays for
\* the transfer and for its own fee: the fee of an earlier pass, for fewer
\* inputs, never makes it take more than that.
LeastSelection ==
    pc \in {"selected", "built", "tooManyInputs"} =>
        /\ Affordable(used)
        /\ \A k \in 1..(used - 1) : ~Affordable(k)

\* It reports an insufficient balance only when no number of inputs pays.
InsufficientIsExact ==
    pc = "insufficient" => \A k \in 1..wallet.n : ~Affordable(k)

\* Each pass of the loop that does not end it uses more inputs than the last,
\* which is why it ends.
PassesGrow == [][pc = "select" /\ pc' = "select" => used' > used]_vars
===============================================================================
