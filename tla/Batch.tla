-------------------------------- MODULE Batch ---------------------------------
(***************************************************************************)
(* What BatchExtractTransaction promises its callers (ScanBlockTask,        *)
(* ScanBlock, ScanTxMemPool and RescanFailedRecord in vas/blockscaner.go):  *)
(* each transaction of a batch is dealt with once, in any order, and the    *)
(* batch returns after all of them, with an error exactly when one could    *)
(* not be extracted.  A batch without transactions is an error.             *)
(***************************************************************************)
EXTENDS Integers

CONSTANTS Batches,   \* the calls of BatchExtractTransaction
          Size       \* the number of transactions of each

\* Transaction t of batch b is <<b, t>>.
Txs(b) == 1..Size[b]
Jobs == UNION {{b} \X Txs(b) : b \in Batches}

\* What became of a transaction: its data (none, when an input of it could not be
\* looked up: see ExtractTx) was taken by every observer, or
\* refused by one (which leaves an unscanned record), or it could not be
\* extracted (which leaves a record too and fails the batch).
Outcomes == {"notified", "refused", "recorded"}

VARIABLES outcome,   \* of each transaction, "pending" at first
          ret        \* what each batch returned, "none" at first

batchVars == <<outcome, ret>>

BatchInit ==
    /\ outcome = [j \in Jobs |-> "pending"]
    /\ ret = [b \in Batches |-> "none"]

DealWith(b, t) ==
    /\ ret[b] = "none"
    /\ outcome[<<b, t>>] = "pending"
    /\ \E o \in Outcomes : outcome' = [outcome EXCEPT ![<<b, t>>] = o]
    /\ UNCHANGED ret

SomeRecorded(b) == \E t \in Txs(b) : outcome[<<b, t>>] = "recorded"

BatchReturn(b) ==
    /\ ret[b] = "none"
    /\ \A t \in Txs(b) : outcome[<<b, t>>] # "pending"
    /\ ret' = [ret EXCEPT ![b] = IF Size[b] = 0 \/ SomeRecorded(b) THEN "error" ELSE "nil"]
    /\ UNCHANGED outcome

BatchNext == \E b \in Batches : BatchReturn(b) \/ \E t \in Txs(b) : DealWith(b, t)

BatchSpec == BatchInit /\ [][BatchNext]_batchVars

\* Every batch returns.
BatchFairness ==
    \A b \in Batches : WF_batchVars(BatchReturn(b) \/ \E t \in Txs(b) : DealWith(b, t))
===============================================================================
