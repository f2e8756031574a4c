---------------------------- MODULE MCBatchExtract ----------------------------
(***************************************************************************)
(* Two batches that compete for fewer tokens than they have transactions,   *)
(* and a batch without transactions.                                       *)
(***************************************************************************)
EXTENDS BatchExtract

CONSTANTS task, call, empty   \* the scan task, a ScanBlock call, an empty block

MCBatches == {task, call, empty}
MCSize == [b \in MCBatches |-> IF b = task THEN 2 ELSE IF b = call THEN 1 ELSE 0]
===============================================================================
