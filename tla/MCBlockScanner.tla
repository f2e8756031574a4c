---------------------------- MODULE MCBlockScanner ----------------------------
(***************************************************************************)
(* Instances of BlockScanner: chains of up to five blocks on two branches,   *)
(* and a budget of disturbances for each question.                         *)
(***************************************************************************)
EXTENDS BlockScanner

None == [k \in Kinds |-> 0]

OneBlock == <<0>>
TwoBlocks == <<0, 0>>

\* Forks, one of which may undo the other, nodes that fail to answer, an input
\* that cannot be looked up, an observer that refuses a notification, and a stop.
ReorgBudget ==
    [None EXCEPT !["reorg"] = 2, !["rpc"] = 2, !["input"] = 1, !["notify"] = 1, !["stop"] = 1]

\* A crash, and a call of another goroutine while the task runs.
CallBudget == [None EXCEPT !["reorg"] = 1, !["rpc"] = 1, !["crash"] = 1, !["call"] = 1]

\* Observers that refuse a notification.
NotifyBudget == [None EXCEPT !["notify"] = 2]

\* What the scanner must recover from.
LiveBudget ==
    [None EXCEPT !["reorg"] = 1, !["rpc"] = 1, !["input"] = 1, !["notify"] = 1, !["crash"] = 1,
                 !["stop"] = 1]
===============================================================================
