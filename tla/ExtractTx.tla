------------------------------ MODULE ExtractTx -------------------------------
(***************************************************************************)
(* ExtractTransaction, extractTransaction, extractTxInput and               *)
(* extractTxOutput (vas/blockscaner.go), with newTxByCore (vas/models.go):  *)
(* what the scanner extracts from transactions for the owners of addresses, *)
(* one transaction after another, when the node may fail to answer any of   *)
(* the calls.  The node gives no address with an input, so that of the      *)
(* output it spends is looked up (newTxVinByCore).  What is extracted goes   *)
(* to data, of which Holdings says what it should hold: WholeOrNothing.      *)
(***************************************************************************)
EXTENDS Holdings

VARIABLES
    pc,         \* "idle", "inputs", "extract", "skip"
    trx,        \* the transaction being extracted
    pos,        \* the input it is at
    prev,       \* the output each input is known to spend
    success     \* per transaction, the Success of its last ExtractResult

vars == <<pc, trx, pos, prev, data, success>>

Init ==
    /\ pc = "idle"
    /\ trx = CHOOSE t \in Tx : TRUE
    /\ pos = 0
    /\ prev = << >>
    /\ data = {}
    /\ success = [t \in Tx |-> "none"]

-------------------------------------------------------------------------------
\* GetTransaction fails: the result is not a success.
GetFails(t) ==
    /\ pc = "idle"
    /\ success' = [success EXCEPT ![t] = "failed"]
    /\ UNCHANGED <<pc, trx, pos, prev, data>>

Get(t) ==
    /\ pc = "idle"
    /\ trx' = t
    /\ pos' = 1
    /\ prev' = [i \in 1..Len(Ins[t]) |-> Unknown]
    /\ pc' = "inputs"
    /\ UNCHANGED <<data, success>>

InputsDoneEarly == pos >= Len(Ins[trx])    \* mutant: the last is not looked up
InputsDone == pos > Len(Ins[trx])

\* A coinbase ends the look-ups.
LookUpEnds ==
    /\ pc = "inputs"
    /\ InputsDone \/ trx \in Coinbase
    /\ pc' = "extract"
    /\ UNCHANGED <<trx, pos, prev, data, success>>

\* The output an input spends; the code leaves the input as it is when the
\* transaction has no such output.
LookUp ==
    LET in == Ins[trx][pos] IN
    /\ pc = "inputs"
    /\ ~InputsDone
    /\ trx \notin Coinbase
    /\ prev' = [prev EXCEPT ![pos] =
                   IF in.vout < Len(Outs[in.tx]) THEN Outs[in.tx][in.vout + 1] ELSE @]
    /\ pos' = pos + 1
    /\ UNCHANGED <<pc, trx, data, success>>

LookUpFails ==
    /\ pc = "inputs"
    /\ ~InputsDone
    /\ trx \notin Coinbase
    /\ pc' = "skip"
    /\ UNCHANGED <<trx, pos, prev, data, success>>

\* Nothing is extracted of a transaction with an input that could not be looked
\* up, and the result is a success all the same: success is set after the test.
Skip ==
    /\ pc = "skip"
    /\ success' = [success EXCEPT ![trx] = "success"]
    /\ pc' = "idle"
    /\ UNCHANGED <<trx, pos, prev, data>>

InputData(t) ==
    {[of |-> "input", key |-> Owner[prev[i].addr], tx |-> t, n |-> i - 1,
      amount |-> prev[i].amount] :
        i \in {k \in 1..Len(Ins[t]) : Owner[prev[k].addr] # NoKey}}

OutputData(t) ==
    {[of |-> "output", key |-> Owner[Outs[t][n].addr], tx |-> t, n |-> n - 1,
      amount |-> Outs[t][n].amount] :
        n \in {k \in 1..Len(Outs[t]) : Owner[Outs[t][k].addr] # NoKey}}

Extract ==
    /\ pc = "extract"
    /\ data' = data \union InputData(trx) \union OutputData(trx)
    /\ success' = [success EXCEPT ![trx] = "success"]
    /\ pc' = "idle"
    /\ UNCHANGED <<trx, pos, prev>>

Next ==
    \/ \E t \in Tx : GetFails(t) \/ Get(t)
    \/ LookUpEnds \/ LookUp \/ LookUpFails \/ Skip \/ Extract

Spec == Init /\ [][Next]_vars
===============================================================================
