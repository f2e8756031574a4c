------------------------------- MODULE Holdings -------------------------------
(***************************************************************************)
(* What the owners of addresses are to be given of transactions, whatever    *)
(* way it is found: the promise of ExtractTx.                                *)
(***************************************************************************)
EXTENDS Integers, Sequences

CONSTANTS
    Tx,          \* the transactions
    Ins,         \* their inputs: the transaction and the index they spend
    Outs,        \* their outputs: an address and an amount
    Coinbase,    \* the transactions whose one input is a coinbase
    Owner,       \* ScanAddressFunc: the source key of an address, if any
    NoAddr,      \* no address
    NoKey        \* not an address of the wallet

ASSUME ExtractAssumption ==
    /\ Ins \in [Tx -> Seq([tx : Tx, vout : Nat])]
    /\ Coinbase \subseteq Tx
    /\ \A t \in Coinbase : Len(Ins[t]) = 1
    /\ NoAddr \in DOMAIN Owner /\ Owner[NoAddr] = NoKey
    /\ \A t \in Tx : \A n \in 1..Len(Outs[t]) : Outs[t][n].addr \in DOMAIN Owner

VARIABLE data       \* every TxInput and TxOutPut that was extracted, ever

\* An input whose output is not known.
Unknown == [addr |-> NoAddr, amount |-> 0]

\* What a transaction holds for the wallet: the inputs that spend an output of
\* one of its addresses, and the outputs to one of them, with their amounts.
Spent(t, i) ==
    LET in == Ins[t][i] IN
    IF t \notin Coinbase /\ in.vout < Len(Outs[in.tx]) THEN Outs[in.tx][in.vout + 1] ELSE Unknown

InsAndOuts(t) ==
    {<<"input", i - 1, Owner[Spent(t, i).addr], Spent(t, i).amount>> : i \in 1..Len(Ins[t])}
    \union
    {<<"output", n - 1, Owner[Outs[t][n].addr], Outs[t][n].amount>> : n \in 1..Len(Outs[t])}

Held(t) == {h \in InsAndOuts(t) : h[3] # NoKey}
Extracted(t) == {<<r.of, r.n, r.key, r.amount>> : r \in {d \in data : d.tx = t}}

\* What is extracted of a transaction is all of what it holds for the wallet,
\* given to the right owners, or nothing: a look-up that fails half way through
\* the inputs never leaves the rest without it.
WholeOrNothing == \A t \in Tx : Extracted(t) \in {{}, Held(t)}
===============================================================================
