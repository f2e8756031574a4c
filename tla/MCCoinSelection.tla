--------------------------- MODULE MCCoinSelection ----------------------------
(***************************************************************************)
(* Wallets of up to four outputs of a few amounts, and transfers at fee     *)
(* rates at which one input more can cost more than it brings.             *)
(***************************************************************************)
EXTENDS CoinSelection, Sequences

Amounts == {0, 1, 2, 5}

SortedAmounts(n) == {a \in [1..n -> Amounts] : \A i, j \in 1..n : i <= j => a[i] <= a[j]}

PrefixSums(a, n) ==
    LET sum[k \in 0..n] == IF k = 0 THEN 0 ELSE sum[k - 1] + a[k]
    IN  sum

MCWallets == UNION {{[n |-> n, worth |-> PrefixSums(a, n)] : a \in SortedAmounts(n)} : n \in 0..4}

MCTransfers == [send : {0, 1, 3, 6}, dests : 0..2, rate : {0, 4, 7}]
===============================================================================
