----------------------------- MODULE BlockScanner -----------------------------
(***************************************************************************)
(* VASBlockScanner (vas/blockscaner.go, vas/blockscanner_db.go): the scan   *)
(* task a timer runs again and again, the retry pass at its end, and the    *)
(* calls other goroutines make meanwhile (SetRescanBlockHeight, ScanBlock,  *)
(* Run, Stop), against a node whose chain grows and reorganises and that    *)
(* may fail to answer, and against crashes of the process.                 *)
(*                                                                         *)
(* The scanned head, the local blocks and the unscanned records are kept    *)
(* by the wallet's BlockchainDAI and survive a crash; the task's locals do  *)
(* not.  BatchExtractTransaction is one step here, whose outcome is chosen; *)
(* module BatchExtract models its goroutines and justifies that.           *)
(***************************************************************************)
EXTENDS VasChain

CONSTANTS InitTip,   \* the chain the node has at first
          Budget     \* bound: how often each kind of disturbance happens

Kinds == {"reorg", "rpc", "input", "notify", "crash", "call", "stop"}

ASSUME ScannerAssumption ==
    /\ InitTip \in Block
    /\ Budget \in [Kinds -> Nat]

VARIABLES
    tip,        \* the last block of the node's chain
    left,       \* what is left of Budget
    head,       \* DAI: the current block head, height 0 when there is none
    local,      \* DAI: the local blocks, by height
    unscan,     \* DAI: the heights with an unscanned record
    scanning,   \* bs.Scanning
    pc,         \* where ScanBlockTask is
    cur,        \* its currentHeight and currentHash
    blk,        \* its block, or the block the retry pass has just extracted
    forkBlk,    \* its forkBlock
    todo,       \* the heights the retry pass still has to visit
    api,        \* the call another goroutine is in the middle of
    \* what happened, for the properties only
    delivered,  \* the blocks whose data reached every observer
    announced,  \* the blocks announced as new and not since as forked
    adopted,    \* the blocks a rollback landed on beside the chain it went back along
    skipped,    \* the blocks whose last batch left out a transaction without a word
    owed,       \* the blocks that failed and were not delivered since
    lost,       \* the blocks of owed whose record the retry pass deleted
    dropped,    \* the blocks of owed whose record a fork deleted
    rescan      \* the last rescan asked for and not begun yet

nodeVars  == <<tip>>
daiVars   == <<head, local, unscan>>
taskVars  == <<pc, cur, blk, forkBlk, todo>>
ghostVars == <<delivered, skipped, announced, adopted, owed, lost, dropped, rescan>>
vars == <<nodeVars, left, daiVars, scanning, taskVars, api, ghostVars>>

\* A head is a height and a hash.  Its base is not in the code: the height
\* above which the scanner has answered for every block up to the head.
NoHead == [h |-> 0, hash |-> NoHash, base |-> 0]
HeadRecord == [h : 0..(Uint32Mod - 1), hash : Block \union {NoHash}, base : -1..MaxHeight]

Call == [op : {"none", "rescan", "announce"}, blk : Block \union {NoHash}, h : 0..(MaxHeight + 1)]
NoCall == [op |-> "none", blk |-> NoHash, h |-> 0]
Rescan == [h : 0..(MaxHeight + 1), idle : BOOLEAN]
NoRescan == [h |-> 0, idle |-> FALSE]

TaskSteps == {"idle", "origin", "originBlock", "loop", "next", "forkBack", "forkSave",
              "forkNotify", "saveHead", "saveBlock", "notify", "retry",
              "retrying", "retryDrop"}

TypeOK ==
    /\ tip \in Block
    /\ left \in [Kinds -> Nat]
    /\ head \in HeadRecord
    /\ local \in [Heights -> Block \union {NoHash}]
    /\ unscan \in SUBSET Heights
    /\ scanning \in BOOLEAN
    /\ pc \in TaskSteps
    /\ cur \in HeadRecord
    /\ blk \in Block \union {NoHash}
    /\ forkBlk \in Block \union {NoHash}
    /\ todo \in SUBSET Heights
    /\ api \in Call
    /\ delivered \in SUBSET Block
    /\ skipped \in SUBSET Block
    /\ announced \in SUBSET Block
    /\ adopted \in SUBSET Block
    /\ owed \in SUBSET Block
    /\ lost \in SUBSET Block
    /\ dropped \in SUBSET Block
    /\ rescan \in Rescan

Init ==
    /\ tip = InitTip
    /\ left = Budget
    /\ head = NoHead
    /\ local = [h \in Heights |-> NoHash]
    /\ unscan = {}
    /\ scanning = FALSE
    /\ pc = "idle"
    /\ cur = NoHead
    /\ blk = NoHash
    /\ forkBlk = NoHash
    /\ todo = {}
    /\ api = NoCall
    /\ delivered = {}
    /\ skipped = {}
    /\ announced = {}
    /\ adopted = {}
    /\ owed = {}
    /\ lost = {}
    /\ dropped = {}
    /\ rescan = NoRescan

-------------------------------------------------------------------------------
(* Disturbances and the node.                                              *)

Spend(kind) ==
    /\ left[kind] > 0
    /\ left' = [left EXCEPT ![kind] = @ - 1]

Grow ==
    /\ Len(tip) < MaxHeight
    /\ tip' \in Extensions(tip)
    /\ UNCHANGED <<left, daiVars, scanning, taskVars, api, ghostVars>>

Reorg ==
    /\ Len(tip) < MaxHeight
    /\ Spend("reorg")
    /\ tip' \in {b \in Replacements(tip) : ~OnChain(tip, b)}
    /\ UNCHANGED <<daiVars, scanning, taskVars, api, ghostVars>>

\* The process ends and is started again: only what the DAI holds survives,
\* and the scanner is not scanning until Run is called.
Restart ==
    /\ scanning' = FALSE
    /\ pc' = "idle"
    /\ cur' = NoHead
    /\ blk' = NoHash
    /\ forkBlk' = NoHash
    /\ todo' = {}
    /\ api' = NoCall

Crash ==
    /\ Spend("crash")
    /\ Restart
    /\ UNCHANGED <<nodeVars, daiVars, ghostVars>>

-------------------------------------------------------------------------------
(* BatchExtractTransaction of block b at height h, as its callers see it.   *)
(* It returns an error when a transaction could not be had from the node.   *)
(* It returns none when an observer refused a notification, which leaves a   *)
(* record (newExtractDataNotify always returns nil), and none either when   *)
(* the output that an input spends could not be looked up: then nothing is   *)
(* extracted of the transaction, success is set to true after that, and no   *)
(* record is left (ExtractTx has the steps).  A batch in which several of    *)
(* these happen leaves a record if one of them does.                        *)

\* Mutants: the record of a failed batch is not written, or is written for the
\* height before.
RecordNothing(h) == unscan' = unscan
RecordPrevious(h) == unscan' = unscan \union {Uint32(h - 1)}

RecordUnscan(h) == unscan' = unscan \union {h}

AllDelivered(b) ==
    /\ delivered' = delivered \union {b}
    /\ owed' = owed \ {b}
    /\ skipped' = skipped \ {b}
    /\ UNCHANGED unscan

LeftOut(b) ==
    /\ skipped' = skipped \union ({b} \ delivered)
    /\ UNCHANGED <<unscan, delivered, owed>>

OnRecord(b, h) ==
    /\ RecordUnscan(h)
    /\ owed' = owed \union ({b} \ delivered)
    /\ skipped' = skipped \ {b}
    /\ UNCHANGED delivered

ExtractSucceeds(b) == AllDelivered(b) /\ UNCHANGED left

\* GetTransaction fails for the transaction an input spends.
InputFails(b) == Spend("input") /\ LeftOut(b)

\* GetTransaction fails for the transaction itself.
ExtractFails(b, h) == Spend("rpc") /\ OnRecord(b, h)

NotifyFails(b, h) == Spend("notify") /\ OnRecord(b, h)

\* No error, although a transaction may have been left out or an observer have
\* refused one.
BatchReturnsNil(b, h) == ExtractSucceeds(b) \/ InputFails(b) \/ NotifyFails(b, h)

BatchExtract(b, h) == BatchReturnsNil(b, h) \/ ExtractFails(b, h)

-------------------------------------------------------------------------------
(* ScanBlockTask.                                                          *)

\* The timer runs the task, which reads the head it left.
TaskStart ==
    /\ pc = "idle"
    /\ scanning
    /\ cur' = head
    /\ pc' = IF head.h = 0 THEN "origin" ELSE "loop"
    /\ UNCHANGED <<nodeVars, left, daiVars, scanning, blk, forkBlk, todo, api, ghostVars>>

\* No records: GetGlobalHeadBlock asks for the chain's height (0 when the call
\* fails) and then for the block one below it.
OriginHeight ==
    /\ pc = "origin"
    /\ \/ cur' = [cur EXCEPT !.h = Len(tip)] /\ UNCHANGED left
       \/ cur' = [cur EXCEPT !.h = 0] /\ Spend("rpc")
    /\ pc' = "originBlock"
    /\ UNCHANGED <<nodeVars, daiVars, scanning, blk, forkBlk, todo, api, ghostVars>>

\* The task starts from the parent of that block.
OriginBlock ==
    LET h == Uint32(cur.h - 1)
        b == GetBlockByHeight(tip, h)
    IN  /\ pc = "originBlock"
        /\ h <= Len(tip)
        /\ cur' = [h |-> Uint32(Height(b) - 1), hash |-> Prev(b), base |-> Height(b) - 1]
        /\ pc' = "loop"
        /\ UNCHANGED <<nodeVars, left, daiVars, scanning, blk, forkBlk, todo, api, ghostVars>>

\* When that call fails the error is only logged, and the nil block is
\* dereferenced: the process ends.
OriginPanic ==
    /\ pc = "originBlock"
    /\ \/ Uint32(cur.h - 1) > Len(tip) /\ UNCHANGED left
       \/ Spend("rpc")
    /\ Restart
    /\ UNCHANGED <<nodeVars, daiVars, ghostVars>>

\* The task returns: its locals are gone.
Return ==
    /\ pc' = "idle"
    /\ cur' = NoHead
    /\ blk' = NoHash
    /\ forkBlk' = NoHash
    /\ todo' = {}

\* bs.Scanning was cleared: the task returns without its retry pass.
LoopStopped ==
    /\ pc = "loop"
    /\ ~scanning
    /\ Return
    /\ UNCHANGED <<nodeVars, left, daiVars, scanning, api, ghostVars>>

\* The loop is left for the retry pass.
Break ==
    /\ pc' = "retry"
    /\ cur' = NoHead
    /\ blk' = NoHash
    /\ forkBlk' = NoHash
    /\ UNCHANGED todo

\* The scanner stays one block behind the chain.
FullyScanned(h) == h = Len(tip) - 1

LoopBreak ==
    /\ pc = "loop"
    /\ scanning
    /\ \/ FullyScanned(cur.h) /\ UNCHANGED left
       \/ Spend("rpc")
    /\ Break
    /\ UNCHANGED <<nodeVars, daiVars, scanning, api, ghostVars>>

LoopNext ==
    /\ pc = "loop"
    /\ scanning
    /\ ~FullyScanned(cur.h)
    /\ cur' = [cur EXCEPT !.h = Uint32(@ + 1)]
    /\ pc' = "next"
    /\ UNCHANGED <<nodeVars, left, daiVars, scanning, blk, forkBlk, todo, api, ghostVars>>

\* The next block cannot be had.
FetchBreak ==
    /\ pc = "next"
    /\ \/ cur.h > Len(tip) /\ UNCHANGED left
       \/ Spend("rpc")
    /\ Break
    /\ UNCHANGED <<nodeVars, daiVars, scanning, api, ghostVars>>

\* The next block's parent is the last one scanned.
LinksToAny(b) == TRUE      \* mutant: forks are not noticed
LinksTo(b) == cur.hash = Prev(b)

\* The next block follows the last one: it is extracted.
ScanNext ==
    LET b == GetBlockByHeight(tip, cur.h) IN
    /\ pc = "next"
    /\ cur.h <= Len(tip)
    /\ LinksTo(b)
    /\ BatchExtract(b, cur.h)
    /\ cur' = [cur EXCEPT !.hash = b]
    /\ blk' = b
    /\ pc' = "saveHead"
    /\ rescan' = IF cur.h = rescan.h THEN NoRescan ELSE rescan
    /\ dropped' = dropped \ {b}
    /\ UNCHANGED <<nodeVars, head, local, scanning, forkBlk, todo, api,
                   announced, adopted, lost>>

SaveHead ==
    /\ pc = "saveHead"
    /\ head' = cur
    /\ pc' = "saveBlock"
    /\ UNCHANGED <<nodeVars, left, local, unscan, scanning, cur, blk, forkBlk, todo,
                   api, ghostVars>>

\* The key of a local block.
BlockKeyPrevious(b) == Height(b) - 1   \* mutant: off by one
BlockKey(b) == Height(b)

SaveBlock ==
    /\ pc = "saveBlock"
    /\ local' = [local EXCEPT ![BlockKey(blk)] = blk]
    /\ pc' = "notify"
    /\ UNCHANGED <<nodeVars, left, head, unscan, scanning, cur, blk, forkBlk, todo,
                   api, ghostVars>>

NewBlockNotify ==
    /\ pc = "notify"
    /\ announced' = announced \union {blk}
    /\ pc' = "loop"
    /\ blk' = NoHash
    /\ UNCHANGED <<nodeVars, left, daiVars, scanning, cur, forkBlk, todo, api,
                   delivered, skipped, adopted, owed, lost, dropped, rescan>>

\* The next block does not follow the last one, which has been replaced: its
\* local copy is kept for the observers and its unscanned record deleted.
ReplacedNext(h) == h       \* mutant: the height of the new block
Replaced(h) == h - 1

ForkDrop ==
    LET gone == Replaced(cur.h) IN
    /\ pc = "next"
    /\ cur.h <= Len(tip)
    /\ ~LinksTo(GetBlockByHeight(tip, cur.h))
    /\ forkBlk' = local[gone]
    /\ unscan' = unscan \ {gone}
    /\ dropped' = dropped \union {b \in owed : Height(b) = gone}
    /\ pc' = "forkBack"
    /\ UNCHANGED <<nodeVars, left, head, local, scanning, cur, blk, todo, api,
                   delivered, skipped, announced, adopted, owed, lost, rescan>>

\* Two heights back, and never below 1.
BackToLast(h) == h - 1              \* mutant: the replaced block itself
BackToZero(h) == Uint32(h - 2)      \* mutant: no floor
BackTo(h) == IF Uint32(h - 2) = 0 THEN 1 ELSE Uint32(h - 2)

LowerBase(h) == IF h < cur.base THEN h ELSE cur.base
Adopt(b) == IF OnChain(b, cur.hash) THEN adopted ELSE adopted \union {b}

\* The hash to continue from is the local block's ...
ForkBackLocal ==
    LET h == BackTo(cur.h) IN
    /\ pc = "forkBack"
    /\ local[h] # NoHash
    /\ cur' = [h |-> h, hash |-> local[h], base |-> LowerBase(h)]
    /\ adopted' = Adopt(local[h])
    /\ pc' = "forkSave"
    /\ UNCHANGED <<nodeVars, left, daiVars, scanning, blk, forkBlk, todo, api,
                   delivered, skipped, announced, owed, lost, dropped, rescan>>

\* ... or, when there is none, that of the node's block at the height.
ForkBackNode ==
    LET h == BackTo(cur.h)
        b == GetBlockByHeight(tip, h)
    IN  /\ pc = "forkBack"
        /\ local[h] = NoHash
        /\ h <= Len(tip)
        /\ cur' = [h |-> h, hash |-> b, base |-> LowerBase(h)]
        /\ adopted' = Adopt(b)
        /\ pc' = "forkSave"
        /\ UNCHANGED <<nodeVars, left, daiVars, scanning, blk, forkBlk, todo, api,
                       delivered, skipped, announced, owed, lost, dropped, rescan>>

\* Neither can be had: the loop is left, the head is not moved back and the
\* observers are not told of the fork.
ForkBackBreak ==
    /\ pc = "forkBack"
    /\ local[BackTo(cur.h)] = NoHash
    /\ Spend("rpc")
    /\ Break
    /\ UNCHANGED <<nodeVars, daiVars, scanning, api, ghostVars>>

ForkSave ==
    /\ pc = "forkSave"
    /\ head' = cur
    /\ pc' = "forkNotify"
    /\ UNCHANGED <<nodeVars, left, local, unscan, scanning, cur, blk, forkBlk, todo,
                   api, ghostVars>>

ForkNotify ==
    /\ pc = "forkNotify"
    /\ announced' = announced \ {forkBlk}
    /\ pc' = "loop"
    /\ forkBlk' = NoHash
    /\ UNCHANGED <<nodeVars, left, daiVars, scanning, cur, blk, todo, api,
                   delivered, skipped, adopted, owed, lost, dropped, rescan>>

-------------------------------------------------------------------------------
(* RescanFailedRecord.                                                     *)

\* The records, without those at height 0.
RetryList ==
    /\ pc = "retry"
    /\ todo' = unscan \ {0}
    /\ pc' = "retrying"
    /\ UNCHANGED <<nodeVars, left, daiVars, scanning, cur, blk, forkBlk, api, ghostVars>>

\* The block cannot be had: the record stays.
RetrySkip(h) ==
    /\ pc = "retrying"
    /\ \/ h > Len(tip) /\ UNCHANGED left
       \/ Spend("rpc")
    /\ todo' = todo \ {h}
    /\ UNCHANGED <<nodeVars, daiVars, scanning, pc, cur, blk, forkBlk, api, ghostVars>>

\* The batch returns an error: the record stays, and is saved once more.
RetryFails(h) ==
    LET b == GetBlockByHeight(tip, h) IN
    /\ pc = "retrying"
    /\ h <= Len(tip)
    /\ ExtractFails(b, h)
    /\ todo' = todo \ {h}
    /\ UNCHANGED <<nodeVars, head, local, scanning, pc, cur, blk, forkBlk, api,
                   announced, adopted, lost, dropped, rescan>>

\* The batch returns no error.
RetryBatch(h) ==
    LET b == GetBlockByHeight(tip, h) IN
    /\ pc = "retrying"
    /\ h <= Len(tip)
    /\ BatchReturnsNil(b, h)
    /\ todo' = todo \ {h}
    /\ blk' = b
    /\ pc' = "retryDrop"
    /\ UNCHANGED <<nodeVars, head, local, scanning, cur, forkBlk, api,
                   announced, adopted, lost, dropped, rescan>>

\* The record of its height is deleted.
RecordKeyZero(b) == 0      \* mutant: the height of a mempool batch
RecordKey(b) == Height(b)

RetryDrop ==
    /\ pc = "retryDrop"
    /\ unscan' = unscan \ {RecordKey(blk)}
    /\ lost' = lost \union {b \in owed : Height(b) = Height(blk)}
    /\ pc' = "retrying"
    /\ blk' = NoHash
    /\ UNCHANGED <<nodeVars, left, head, local, scanning, cur, forkBlk, todo, api,
                   delivered, skipped, announced, adopted, owed, dropped, rescan>>

RetryEnd ==
    /\ pc = "retrying"
    /\ todo = {}
    /\ Return
    /\ UNCHANGED <<nodeVars, left, daiVars, scanning, api, ghostVars>>

-------------------------------------------------------------------------------
(* What other goroutines call.                                             *)

Run ==
    /\ ~scanning
    /\ scanning' = TRUE
    /\ UNCHANGED <<nodeVars, left, daiVars, taskVars, api, ghostVars>>

Stop ==
    /\ scanning
    /\ Spend("stop")
    /\ scanning' = FALSE
    /\ UNCHANGED <<nodeVars, daiVars, taskVars, api, ghostVars>>

\* SetRescanBlockHeight(h) reads the block at h - 1 and then saves the head.
RescanHeadAt(h) == h       \* mutant: the block to scan first itself
RescanHead(h) == h - 1

SetRescanRead(h) ==
    /\ api = NoCall
    /\ Spend("call")
    /\ h > 0
    /\ RescanHead(h) <= Len(tip)
    /\ api' = [op |-> "rescan", blk |-> GetBlockByHeight(tip, RescanHead(h)), h |-> h]
    /\ UNCHANGED <<nodeVars, daiVars, scanning, taskVars, ghostVars>>

SetRescanSave ==
    LET h == Height(api.blk) IN
    /\ api.op = "rescan"
    /\ head' = [h |-> h, hash |-> api.blk, base |-> h]
    /\ rescan' = [h |-> api.h, idle |-> pc = "idle"]
    /\ api' = NoCall
    /\ UNCHANGED <<nodeVars, left, local, unscan, scanning, taskVars,
                   delivered, skipped, announced, adopted, owed, lost, dropped>>

\* ScanBlock(h): a block whose hash is known but that cannot be fetched leaves
\* an unscanned record.
ScanBlockFails(h) ==
    LET b == GetBlockByHeight(tip, h) IN
    /\ api = NoCall
    /\ left["call"] > 0
    /\ left["rpc"] > 0
    /\ left' = [left EXCEPT !["call"] = @ - 1, !["rpc"] = @ - 1]
    /\ OnRecord(b, h)
    /\ UNCHANGED <<nodeVars, head, local, scanning, taskVars, api,
                   announced, adopted, lost, dropped, rescan>>

\* Otherwise the block is extracted, whatever the head is, and announced.
ScanBlock(h) ==
    LET b == GetBlockByHeight(tip, h) IN
    /\ api = NoCall
    /\ left["call"] > 0
    /\ \/ AllDelivered(b) /\ left' = [left EXCEPT !["call"] = @ - 1]
       \/ \E kind \in {"input", "rpc", "notify"} :
             /\ left[kind] > 0
             /\ left' = [left EXCEPT !["call"] = @ - 1, ![kind] = @ - 1]
             /\ IF kind = "input" THEN LeftOut(b) ELSE OnRecord(b, h)
    /\ api' = [op |-> "announce", blk |-> b, h |-> h]
    /\ UNCHANGED <<nodeVars, head, local, scanning, taskVars,
                   announced, adopted, lost, dropped, rescan>>

ScanBlockNotify ==
    /\ api.op = "announce"
    /\ announced' = announced \union {api.blk}
    /\ api' = NoCall
    /\ UNCHANGED <<nodeVars, left, daiVars, scanning, taskVars,
                   delivered, skipped, adopted, owed, lost, dropped, rescan>>

-------------------------------------------------------------------------------
Task ==
    \/ TaskStart \/ OriginHeight \/ OriginBlock \/ OriginPanic
    \/ LoopStopped \/ LoopBreak \/ LoopNext \/ FetchBreak
    \/ ScanNext \/ SaveHead \/ SaveBlock \/ NewBlockNotify
    \/ ForkDrop \/ ForkBackLocal \/ ForkBackNode \/ ForkBackBreak
    \/ ForkSave \/ ForkNotify
    \/ RetryList \/ RetryEnd \/ RetryDrop
    \/ \E h \in todo : RetrySkip(h) \/ RetryFails(h) \/ RetryBatch(h)

Api ==
    \/ SetRescanSave \/ ScanBlockNotify
    \/ \E h \in 0..Len(tip) :
          SetRescanRead(h + 1) \/ ScanBlockFails(h) \/ ScanBlock(h)

Next == Task \/ Api \/ Run \/ Stop \/ Grow \/ Reorg \/ Crash

\* The timer goes on calling the task and the task's steps are taken, as are
\* the steps of a call once it is made.  Nothing makes the node mine, fail or
\* reorganise, or an operator call.
Spec == Init /\ [][Next]_vars /\ WF_vars(Task) /\ WF_vars(SetRescanSave \/ ScanBlockNotify)

-------------------------------------------------------------------------------
(* Properties.                                                             *)

\* The blocks the saved head claims to have dealt with: the head and its
\* ancestors down to the height the scan began at.
Claimed ==
    IF head.h = 0 THEN {}
    ELSE {GetBlockByHeight(head.hash, i) : i \in (head.base + 1)..head.h}

\* The head's height is its block's: no mixture of a height of one block and a
\* hash of another is ever saved (SaveLocalBlockHead after a scan, a rollback
\* and a rescan).
HeadIsABlock == head.h > 0 => head.hash # NoHash /\ Height(head.hash) = head.h

\* A block of the node's chain that was neither delivered nor put on record.
Missed(b) == OnChain(b, tip) /\ b \notin delivered /\ Height(b) \notin unscan

\* No block of the node's chain is passed over without a trace but those the code
\* knowingly or silently gives up: each one the head claims was delivered whole, or
\* its height is on record for the retry pass.  The only exceptions, with any number
\* of forks, failures, retries and stops, are blocks of which a transaction was left
\* out because an input of it could not be looked up, and blocks that failed and
\* whose record was deleted: by the retry pass after a batch that returned no error
\* (see NothingLost), or by a fork that was itself undone.
Recorded == \A b \in Claimed : Missed(b) => b \in skipped \union lost \union dropped

\* Under crashes and concurrent calls too, the only others are those below a block
\* a rollback landed on that is not on the chain it went back along: when a crash
\* comes between SaveLocalBlockHead and SaveLocalBlock there is no local block, or
\* one of an earlier chain, and the scan continues from the node's block or from
\* that one as if what is below it had been scanned.
Covered ==
    \A b \in Claimed :
        Missed(b) => b \in skipped \union lost \union dropped \/ \E a \in adopted : OnChain(b, a)

\* What the saved head stands for is a follower of the chain (module Follower):
\* it goes up by one block that has been delivered or put on record, or of which a
\* transaction was left out, and back along its own chain or below all the
\* scanner answers for.  Height 0 is no head.
Promise == INSTANCE Follower WITH
    frontier <- IF head.h = 0 THEN NoHash ELSE head.hash,
    base <- IF head.h = 0 THEN 0 ELSE head.base,
    answered <- delivered \union owed

FollowsChain == Promise!FollowSpec

\* A block whose batch failed is on record until it is delivered or replaced:
\* the records RescanFailedRecord deletes are those of blocks it delivered.
NothingLost == \A b \in lost : OnChain(b, tip) => b \in delivered

\* Observers never hold two blocks of one height as part of the chain: the
\* replaced block is announced as a fork before its successor is as new.
NoTwoAnnounced ==
    \A b, c \in announced : Height(b) = Height(c) => b = c

\* A rescan from height 2 or more asked for between two tasks is not passed
\* over: the head stays below the height until a task extracts it, whatever
\* forks, failures, stops and crashes come first.
RescanHonoured == rescan.idle /\ rescan.h > 1 => head.h < rescan.h

\* When the local block at height 1 is not the node's and the task has nothing else
\* in hand, the scanner is trapped: the floor in the rollback brings the head back to
\* that block again and again, and only a rescan, or the node's return to the block,
\* ends it.
Trapped ==
    /\ head.h = 1
    /\ head.hash = local[1]
    /\ local[1] # NoHash
    /\ ~OnChain(local[1], tip)
    /\ pc \in {"loop", "forkSave", "forkNotify"} => cur.h = 1 /\ cur.hash = local[1]
    /\ pc \in {"next", "forkBack"} => cur.h = 2 /\ cur.hash = local[1]
    /\ pc \notin {"origin", "originBlock", "saveHead", "saveBlock", "notify"}

FloorTrap ==
    [][Trapped => Trapped' \/ SetRescanSave \/ OnChain(local[1], tip')]_vars

\* Once the node, the operator and the failures are quiet and the scanner runs,
\* the head reaches the block below the tip and stays there.
CatchUp == <>[]scanning => <>[](head.hash = Prev(tip))

\* And the records of failed blocks are worked off.
RecordsDrain == <>[]scanning => <>[](unscan \subseteq {0})
===============================================================================
