--------------------------- MODULE BlockScannerProofs ---------------------------
(***************************************************************************)
(* Proofs about BlockScanner, for every chain, every number of branches and  *)
(* heights, and every budget of disturbances.                              *)
(***************************************************************************)
EXTENDS BlockScanner, SequenceTheorems, TLAPS

-------------------------------------------------------------------------------
(* Heights and blocks.                                                     *)

\* Arithmetic of heights that do not wrap, and of the two that do.
LEMMA Uint32Small ==
    ASSUME NEW n \in 0..(Uint32Mod - 1)
    PROVE  Uint32(n) = n
BY ChainAssumption, SMT DEF ChainAssumption, Uint32

LEMMA Uint32Below ==
    Uint32(0 - 1) = Uint32Mod - 1
BY ChainAssumption, SMT DEF ChainAssumption, Uint32

LEMMA Uint32Above ==
    Uint32(Uint32Mod) = 0
BY ChainAssumption, SMT DEF ChainAssumption, Uint32

LEMMA Uint32Type ==
    ASSUME NEW n \in Int
    PROVE  Uint32(n) \in 0..(Uint32Mod - 1)
BY ChainAssumption, SMT DEF ChainAssumption, Uint32

\* A block is a sequence whose length is its height.
LEMMA BlockType ==
    ASSUME NEW b
    PROVE  b \in Block <=> b \in Seq(Labels) /\ Len(b) \in Heights
<1>1. ASSUME b \in Block PROVE b \in Seq(Labels) /\ Len(b) \in Heights
  <2>1. PICK n \in Heights : b \in [1..n -> Labels]
    BY <1>1 DEF Block
  <2>2. n \in Nat
    BY <2>1, ChainAssumption DEF ChainAssumption, Heights
  <2> QED
    BY <2>1, <2>2
<1>2. ASSUME b \in Seq(Labels), Len(b) \in Heights PROVE b \in Block
  <2>1. b \in [1..Len(b) -> Labels]
    BY <1>2
  <2> QED
    BY <1>2, <2>1 DEF Block
<1> QED
  BY <1>1, <1>2

\* The block at a height of a chain is a block of that height.
LEMMA AncestorType ==
    ASSUME NEW b \in Block, NEW h \in 0..Len(b)
    PROVE  /\ GetBlockByHeight(b, h) \in Block
           /\ Len(GetBlockByHeight(b, h)) = h
           /\ \A i \in 0..h : GetBlockByHeight(GetBlockByHeight(b, h), i) = GetBlockByHeight(b, i)
<1>1. b \in Seq(Labels) /\ Len(b) \in Heights /\ Len(b) \in Nat
  BY BlockType DEF Heights
<1>2. /\ SubSeq(b, 1, h) \in Seq(Labels)
      /\ Len(SubSeq(b, 1, h)) = h
      /\ \A i \in 1..h : SubSeq(b, 1, h)[i] = b[i]
  BY <1>1, SubSeqProperties
<1>3. h \in Heights
  BY <1>1, ChainAssumption DEF Heights, ChainAssumption
<1>4. SubSeq(b, 1, h) \in Block
  BY <1>2, <1>3, BlockType
<1>5. ASSUME NEW i \in 0..h
      PROVE  SubSeq(SubSeq(b, 1, h), 1, i) = SubSeq(b, 1, i)
  OBVIOUS
<1> QED
  BY <1>2, <1>4, <1>5 DEF GetBlockByHeight

-------------------------------------------------------------------------------
(* The inductive invariant.                                                *)

AtBlock(r) == r.hash \in Block /\ r.h = Len(r.hash)

\* What the task's height and hash are at each of its steps.  A start from the
\* genesis block leaves the height below it, which wraps.
CurInv ==
    /\ pc = "loop" => AtBlock(cur) \/ (cur.hash = NoHash /\ cur.h = Uint32Mod - 1)
    /\ pc = "next" => \/ cur.hash \in Block /\ cur.h = Len(cur.hash) + 1
                      \/ cur.hash = NoHash /\ cur.h = 0
    /\ pc = "forkBack" => /\ cur.hash \in Block /\ cur.h = Len(cur.hash) + 1
                          /\ cur.h \in 2..MaxHeight
    /\ pc \in {"saveHead", "saveBlock", "notify"} => AtBlock(cur) /\ blk = cur.hash
    /\ pc \in {"forkSave", "forkNotify"} => AtBlock(cur)
    /\ pc = "retryDrop" => blk \in Block

LocalInv == \A h \in Heights : local[h] # NoHash => Len(local[h]) = h

ApiInv == api.op # "none" => api.blk \in Block

ScanInv == TypeOK /\ HeadIsABlock /\ CurInv /\ LocalInv /\ ApiInv

\* What a task that is over, or a call, is left with.
LEMMA Nothing ==
    /\ NoHead \in HeadRecord /\ NoHead.h = 0
    /\ NoHash \in Block \union {NoHash} /\ NoHash \notin Block
    /\ NoCall \in Call /\ NoCall.op = "none"
    /\ NoRescan \in Rescan
<1>1. 0 \in 0..(Uint32Mod - 1) /\ 0 \in -1..MaxHeight /\ 0 \in 0..(MaxHeight + 1)
  BY ChainAssumption DEF ChainAssumption
<1> QED
  BY <1>1, NoHashAssumption
     DEF NoHashAssumption, NoHead, HeadRecord, NoCall, Call, NoRescan, Rescan

\* A disturbance uses up some of the budget.
LEMMA SpendType ==
    ASSUME left \in [Kinds -> Nat], NEW kind \in Kinds, Spend(kind)
    PROVE  left' \in [Kinds -> Nat]
<1>1. left[kind] - 1 \in Nat
  BY DEF Spend
<1> QED
  BY <1>1 DEF Spend

\* What any batch of a block does, whoever runs it and whatever fails.
BatchEffect(b, h) == AllDelivered(b) \/ LeftOut(b) \/ OnRecord(b, h)

LEMMA BatchHasEffect ==
    ASSUME NEW b, NEW h, BatchExtract(b, h)
    PROVE  /\ BatchEffect(b, h)
           /\ left' = left \/ Spend("input") \/ Spend("rpc") \/ Spend("notify")
BY DEF BatchExtract, BatchReturnsNil, ExtractSucceeds, InputFails, ExtractFails, NotifyFails,
   BatchEffect

LEMMA EffectTypes ==
    ASSUME TypeOK, NEW b \in Block, NEW h \in Heights, BatchEffect(b, h)
    PROVE  /\ unscan' \in SUBSET Heights
           /\ delivered' \in SUBSET Block /\ skipped' \in SUBSET Block /\ owed' \in SUBSET Block
<1>1. unscan' = unscan \/ unscan' = unscan \union {h}
  BY DEF BatchEffect, AllDelivered, LeftOut, OnRecord, RecordUnscan
<1>2. /\ delivered' = delivered \/ delivered' = delivered \union {b}
      /\ skipped' = skipped \ {b} \/ skipped' = skipped \union ({b} \ delivered)
      /\ owed' = owed \/ owed' = owed \ {b} \/ owed' = owed \union ({b} \ delivered)
  BY DEF BatchEffect, AllDelivered, LeftOut, OnRecord
<1> QED
  BY <1>1, <1>2 DEF TypeOK

\* A batch keeps the types, whatever it spends.
LEMMA BatchTypes ==
    ASSUME TypeOK, NEW b \in Block, NEW h \in Heights, BatchExtract(b, h)
    PROVE  /\ left' \in [Kinds -> Nat] /\ unscan' \in SUBSET Heights
           /\ delivered' \in SUBSET Block /\ skipped' \in SUBSET Block /\ owed' \in SUBSET Block
<1>1. left' \in [Kinds -> Nat]
  BY BatchHasEffect, SpendType DEF TypeOK, Kinds
<1> QED
  BY <1>1, BatchHasEffect, EffectTypes

\* The node's chain is a chain of blocks.
LEMMA ExtensionType ==
    ASSUME NEW b \in Block, Len(b) < MaxHeight, NEW c \in Extensions(b)
    PROVE  c \in Block
<1>1. b \in Seq(Labels) /\ Len(b) \in Heights
  BY BlockType
<1>2. PICK l \in Labels : c = Append(b, l)
  BY <1>1 DEF Extensions
<1>3. c \in Seq(Labels) /\ Len(c) = Len(b) + 1
  BY <1>1, <1>2
<1>4. Len(c) \in Heights
  BY <1>1, <1>3, ChainAssumption DEF ChainAssumption, Heights
<1> QED
  BY <1>3, <1>4, BlockType

LEMMA ReplacementType ==
    ASSUME NEW b \in Block, Len(b) < MaxHeight, NEW c \in Replacements(b)
    PROVE  c \in Block
<1>1. b \in Seq(Labels) /\ Len(b) \in Heights /\ Len(b) \in Nat
  BY BlockType DEF Heights
<1>2. PICK f \in Final..(Len(b) - 1), l \in Labels :
          c = SubSeq(b, 1, f) \o [i \in 1..(Len(b) + 1 - f) |-> l]
  BY DEF Replacements
<1>3. f \in 0..Len(b) /\ Len(b) + 1 - f \in Nat
  BY <1>1, <1>2, ChainAssumption DEF ChainAssumption
<1>4. SubSeq(b, 1, f) \in Seq(Labels) /\ Len(SubSeq(b, 1, f)) = f
  BY <1>3, AncestorType, BlockType DEF GetBlockByHeight
<1>5. /\ [i \in 1..(Len(b) + 1 - f) |-> l] \in Seq(Labels)
      /\ Len([i \in 1..(Len(b) + 1 - f) |-> l]) = Len(b) + 1 - f
  BY <1>2, <1>3
<1>6. c \in Seq(Labels) /\ Len(c) = Len(b) + 1
  <2> DEFINE x == SubSeq(b, 1, f)
             y == [i \in 1..(Len(b) + 1 - f) |-> l]
  <2>1. x \in Seq(Labels) /\ y \in Seq(Labels) /\ Len(x) = f /\ Len(y) = Len(b) + 1 - f
    BY <1>4, <1>5
  <2>2. c = x \o y
    BY <1>2
  <2> HIDE DEF x, y
  <2>3. c \in Seq(Labels) /\ Len(c) = Len(x) + Len(y)
    BY <2>1, <2>2, ConcatProperties
  <2> QED
    BY <1>1, <1>3, <2>1, <2>3
<1>7. Len(c) \in Heights
  BY <1>1, <1>6, ChainAssumption DEF ChainAssumption, Heights
<1> QED
  BY <1>6, <1>7, BlockType

\* A head at a block.
LEMMA HeadType ==
    ASSUME NEW b \in Block, NEW n \in -1..MaxHeight
    PROVE  [h |-> Len(b), hash |-> b, base |-> n] \in HeadRecord
<1>1. Len(b) \in 0..(Uint32Mod - 1)
  BY BlockType, ChainAssumption DEF Heights, ChainAssumption
<1> QED
  BY <1>1 DEF HeadRecord

\* The height of a block is a height.
LEMMA LenType ==
    ASSUME NEW b \in Block
    PROVE  Len(b) \in Heights /\ Len(b) \in Nat
BY BlockType DEF Heights

-------------------------------------------------------------------------------
(* Each action preserves it.                                               *)

\* The chain grows.
LEMMA GrowStep ==
    ASSUME ScanInv, Grow
    PROVE  ScanInv'
<1>1. tip' \in Block
  BY ExtensionType DEF Grow, ScanInv, TypeOK
<1> QED
  BY <1>1 DEF Grow, ScanInv, TypeOK, CurInv, LocalInv, ApiInv, HeadIsABlock, AtBlock,
     nodeVars, daiVars, taskVars, ghostVars, TaskSteps, Height

\* The chain is replaced.
LEMMA ReorgStep ==
    ASSUME ScanInv, Reorg
    PROVE  ScanInv'
<1>1. tip' \in Block
  BY ReplacementType DEF Reorg, ScanInv, TypeOK
<1>2. left' \in [Kinds -> Nat]
  BY SpendType DEF Reorg, ScanInv, TypeOK, Kinds
<1> QED
  BY <1>1, <1>2 DEF Reorg, ScanInv, TypeOK, CurInv, LocalInv, ApiInv, HeadIsABlock,
     AtBlock, nodeVars, daiVars, taskVars, ghostVars, TaskSteps, Height

\* The process ends: the saved head is a block still.
LEMMA CrashStep ==
    ASSUME ScanInv, Crash
    PROVE  ScanInv'
<1>1. left' \in [Kinds -> Nat]
  BY SpendType DEF Crash, ScanInv, TypeOK, Kinds
<1> QED
  BY <1>1, Nothing DEF Crash, Restart, ScanInv, TypeOK, CurInv, LocalInv, ApiInv,
     HeadIsABlock, AtBlock, nodeVars, daiVars, taskVars, ghostVars, TaskSteps, Height

\* The task starts from the saved head.
LEMMA TaskStartStep ==
    ASSUME ScanInv, TaskStart
    PROVE  ScanInv'
<1>1. head.h # 0 => AtBlock(head)
  BY DEF ScanInv, TypeOK, HeadIsABlock, HeadRecord, AtBlock, Height
<1> QED
  BY <1>1 DEF TaskStart, ScanInv, TypeOK, CurInv, LocalInv, ApiInv, HeadIsABlock, AtBlock,
     nodeVars, daiVars, taskVars, ghostVars, TaskSteps, Height

\* The chain's height is asked for.
LEMMA OriginHeightStep ==
    ASSUME ScanInv, OriginHeight
    PROVE  ScanInv'
<1>1. left' \in [Kinds -> Nat]
  BY SpendType DEF OriginHeight, ScanInv, TypeOK, Kinds
<1>2. cur' \in HeadRecord
  <2>1. Len(tip) \in 0..(Uint32Mod - 1) /\ 0 \in 0..(Uint32Mod - 1)
    BY LenType, ChainAssumption DEF ScanInv, TypeOK, Heights, ChainAssumption
  <2> QED
    BY <2>1 DEF OriginHeight, ScanInv, TypeOK, HeadRecord
<1> QED
  BY <1>1, <1>2 DEF OriginHeight, ScanInv, TypeOK, CurInv, LocalInv, ApiInv, HeadIsABlock,
     AtBlock, nodeVars, daiVars, taskVars, ghostVars, TaskSteps, Height

\* The task starts from a parent, or below the genesis block.
LEMMA OriginBlockStep ==
    ASSUME ScanInv, OriginBlock
    PROVE  ScanInv'
<1>1. PICK b : b = GetBlockByHeight(tip, Uint32(cur.h - 1))
  OBVIOUS
<1>2. b \in Block
  <2>1. Uint32(cur.h - 1) \in 0..Len(tip)
    BY Uint32Type, LenType DEF OriginBlock, ScanInv, TypeOK, HeadRecord
  <2> QED
    BY <1>1, <2>1, AncestorType DEF ScanInv, TypeOK
<1>3. cur' = [h |-> Uint32(Len(b) - 1), hash |-> Prev(b), base |-> Len(b) - 1]
  BY <1>1 DEF OriginBlock, Height
<1>4. AtBlock(cur') \/ (cur'.hash = NoHash /\ cur'.h = Uint32Mod - 1)
  <2>1. CASE b = << >>
    BY <1>3, <2>1, Uint32Below DEF Prev
  <2>2. CASE b # << >>
    <3>1. Len(b) \in Heights /\ Len(b) - 1 \in 0..Len(b) /\ Len(b) - 1 \in 0..(Uint32Mod - 1)
      BY <1>2, <2>2, BlockType, ChainAssumption DEF Heights, ChainAssumption
    <3>2. Uint32(Len(b) - 1) = Len(b) - 1
      BY <3>1, Uint32Small
    <3>3. Prev(b) = GetBlockByHeight(b, Len(b) - 1)
      BY <2>2 DEF Prev, GetBlockByHeight
    <3> QED
      BY <1>2, <1>3, <3>1, <3>2, <3>3, AncestorType DEF AtBlock
  <2> QED
    BY <2>1, <2>2
<1>5. cur' \in HeadRecord
  <2>1. Uint32(Len(b) - 1) \in 0..(Uint32Mod - 1) /\ Len(b) - 1 \in -1..MaxHeight
    BY <1>2, Uint32Type, LenType, ChainAssumption DEF Heights, ChainAssumption
  <2>2. cur'.hash \in Block \union {NoHash}
    BY <1>4 DEF AtBlock
  <2> QED
    BY <1>3, <2>1, <2>2 DEF HeadRecord
<1> QED
  BY <1>1, <1>2, <1>3, <1>4, <1>5 DEF OriginBlock, ScanInv, TypeOK, CurInv, LocalInv,
     ApiInv, HeadIsABlock, AtBlock, nodeVars, daiVars, taskVars, ghostVars, TaskSteps,
     Height

\* The process ends by a panic.
LEMMA OriginPanicStep ==
    ASSUME ScanInv, OriginPanic
    PROVE  ScanInv'
<1>1. left' \in [Kinds -> Nat]
  BY SpendType DEF OriginPanic, ScanInv, TypeOK, Kinds
<1> QED
  BY <1>1, Nothing DEF OriginPanic, Restart, ScanInv, TypeOK, CurInv, LocalInv, ApiInv,
     HeadIsABlock, AtBlock, nodeVars, daiVars, taskVars, ghostVars, TaskSteps, Height

\* The task returns.
LEMMA LoopStoppedStep ==
    ASSUME ScanInv, LoopStopped
    PROVE  ScanInv'
BY Nothing DEF LoopStopped, Return, ScanInv, TypeOK, CurInv, LocalInv, ApiInv,
   HeadIsABlock, AtBlock, nodeVars, daiVars, taskVars, ghostVars, TaskSteps, Height

\* The loop is left.
LEMMA LoopBreakStep ==
    ASSUME ScanInv, LoopBreak
    PROVE  ScanInv'
<1>1. left' \in [Kinds -> Nat]
  BY SpendType DEF LoopBreak, ScanInv, TypeOK, Kinds
<1> QED
  BY <1>1, Nothing DEF LoopBreak, Break, ScanInv, TypeOK, CurInv, LocalInv, ApiInv,
     HeadIsABlock, AtBlock, nodeVars, daiVars, taskVars, ghostVars, TaskSteps, Height

\* The next height does not wrap, but for the one below the genesis block.
LEMMA LoopNextStep ==
    ASSUME ScanInv, LoopNext
    PROVE  ScanInv'
<1>1. \/ cur.hash \in Block /\ Uint32(cur.h + 1) = Len(cur.hash) + 1
      \/ cur.hash = NoHash /\ Uint32(cur.h + 1) = 0
  <2>1. CASE AtBlock(cur)
    <3>1. Len(cur.hash) + 1 \in 0..(Uint32Mod - 1)
      BY <2>1, LenType, ChainAssumption DEF AtBlock, Heights, ChainAssumption
    <3> QED
      BY <2>1, <3>1, Uint32Small DEF AtBlock
  <2>2. CASE cur.hash = NoHash /\ cur.h = Uint32Mod - 1
    <3>1. (Uint32Mod - 1) + 1 = Uint32Mod
      BY ChainAssumption DEF ChainAssumption
    <3> QED
      BY <2>2, <3>1, Uint32Above
  <2> QED
    BY <2>1, <2>2 DEF LoopNext, ScanInv, CurInv
<1>2. Uint32(cur.h + 1) \in 0..(Uint32Mod - 1)
  BY Uint32Type DEF ScanInv, TypeOK, HeadRecord
<1>3. /\ cur' \in HeadRecord
      /\ cur'.hash = cur.hash /\ cur'.h = Uint32(cur.h + 1)
  BY <1>2 DEF LoopNext, ScanInv, TypeOK, HeadRecord
<1> QED
  BY <1>1, <1>2, <1>3 DEF LoopNext, ScanInv, TypeOK, CurInv, LocalInv, ApiInv,
     HeadIsABlock, AtBlock, nodeVars, daiVars, taskVars, ghostVars, TaskSteps, Height

\* The loop is left.
LEMMA FetchBreakStep ==
    ASSUME ScanInv, FetchBreak
    PROVE  ScanInv'
<1>1. left' \in [Kinds -> Nat]
  BY SpendType DEF FetchBreak, ScanInv, TypeOK, Kinds
<1> QED
  BY <1>1, Nothing DEF FetchBreak, Break, ScanInv, TypeOK, CurInv, LocalInv, ApiInv,
     HeadIsABlock, AtBlock, nodeVars, daiVars, taskVars, ghostVars, TaskSteps, Height

\* The block at the next height is the one extracted.
LEMMA ScanNextStep ==
    ASSUME ScanInv, ScanNext
    PROVE  ScanInv'
<1>1. PICK b : b = GetBlockByHeight(tip, cur.h)
  OBVIOUS
<1>2. /\ b \in Block /\ Len(b) = cur.h
      /\ cur.h = 0 => b = << >> /\ cur.hash = Prev(b)
  <2>1. cur.h \in 0..Len(tip) /\ tip \in Block
    BY DEF ScanNext, ScanInv, TypeOK, HeadRecord
  <2>2. b \in Block /\ Len(b) = cur.h
    BY <1>1, <2>1, AncestorType
  <2>3. cur.h = 0 => b = << >>
    BY <2>2, BlockType
  <2>4. cur.h = 0 => cur.hash = NoHash
    <3> SUFFICES ASSUME cur.h = 0, cur.hash \in Block PROVE cur.h # Len(cur.hash) + 1
      BY DEF ScanNext, ScanInv, CurInv
    <3> QED
      BY LenType
  <2> QED
    BY <2>2, <2>3, <2>4 DEF Prev
<1>3. /\ left' \in [Kinds -> Nat] /\ unscan' \in SUBSET Heights
      /\ delivered' \in SUBSET Block /\ skipped' \in SUBSET Block /\ owed' \in SUBSET Block
  <2>1. b \in Block /\ cur.h \in Heights
    BY <1>2, LenType
  <2>2. BatchExtract(b, cur.h)
    BY <1>1 DEF ScanNext
  <2> QED
    BY <2>1, <2>2, BatchTypes DEF ScanInv
<1>4. cur' = [cur EXCEPT !.hash = b] /\ blk' = b /\ dropped' = dropped \ {b}
  BY <1>1 DEF ScanNext
<1>5. cur' \in HeadRecord /\ cur'.h = Len(b) /\ cur'.hash = b
  BY <1>2, <1>4 DEF ScanInv, TypeOK, HeadRecord
<1>6. rescan' \in Rescan
  BY Nothing DEF ScanNext, ScanInv, TypeOK
<1> QED
  BY <1>1, <1>2, <1>3, <1>4, <1>5, <1>6 DEF ScanNext, ScanInv, TypeOK, CurInv, LocalInv,
     ApiInv, HeadIsABlock, AtBlock, nodeVars, daiVars, taskVars, ghostVars, TaskSteps,
     Height

\* The head is saved with the block just extracted.
LEMMA SaveHeadStep ==
    ASSUME ScanInv, SaveHead
    PROVE  ScanInv'
<1>1. AtBlock(cur) /\ AtBlock(cur)' /\ head' = cur /\ Len(cur.hash) \in Nat
  BY LenType DEF SaveHead, ScanInv, CurInv, AtBlock
<1> QED
  BY <1>1, Nothing DEF SaveHead, ScanInv, TypeOK, CurInv, LocalInv, ApiInv, HeadIsABlock,
     AtBlock, nodeVars, daiVars, taskVars, ghostVars, TaskSteps, Height

\* The local block is saved at its height.
LEMMA SaveBlockStep ==
    ASSUME ScanInv, SaveBlock
    PROVE  ScanInv'
<1>1. blk \in Block /\ Len(blk) \in Heights /\ AtBlock(cur) /\ blk = cur.hash
  BY LenType DEF SaveBlock, ScanInv, CurInv, AtBlock
<1>2. local' = [local EXCEPT ![Len(blk)] = blk]
  BY DEF SaveBlock, BlockKey, Height
<1>3. local' \in [Heights -> Block \union {NoHash}]
  BY <1>1, <1>2 DEF ScanInv, TypeOK
<1>4. LocalInv'
  BY <1>1, <1>2 DEF ScanInv, TypeOK, LocalInv
<1> QED
  BY <1>1, <1>2, <1>3, <1>4 DEF SaveBlock, ScanInv, TypeOK, CurInv, LocalInv, ApiInv,
     HeadIsABlock, AtBlock, nodeVars, daiVars, taskVars, ghostVars, TaskSteps, Height

\* The block is announced.
LEMMA NewBlockNotifyStep ==
    ASSUME ScanInv, NewBlockNotify
    PROVE  ScanInv'
<1>1. blk \in Block /\ AtBlock(cur)
  BY DEF NewBlockNotify, ScanInv, CurInv, AtBlock
<1> QED
  BY <1>1 DEF NewBlockNotify, ScanInv, TypeOK, CurInv, LocalInv, ApiInv, HeadIsABlock,
     AtBlock, nodeVars, daiVars, taskVars, ghostVars, TaskSteps, Height

\* A replaced block is above the first: the parent of height 1 is never another.
LEMMA ForkDropStep ==
    ASSUME ScanInv, ForkDrop
    PROVE  ScanInv'
<1>1. PICK b : b = GetBlockByHeight(tip, cur.h)
  OBVIOUS
<1>2. /\ b \in Block /\ Len(b) = cur.h
      /\ cur.h = 0 => b = << >> /\ cur.hash = Prev(b)
  <2>1. cur.h \in 0..Len(tip) /\ tip \in Block
    BY DEF ForkDrop, ScanInv, TypeOK, HeadRecord
  <2>2. b \in Block /\ Len(b) = cur.h
    BY <1>1, <2>1, AncestorType
  <2>3. cur.h = 0 => b = << >>
    BY <2>2, BlockType
  <2>4. cur.h = 0 => cur.hash = NoHash
    <3> SUFFICES ASSUME cur.h = 0, cur.hash \in Block PROVE cur.h # Len(cur.hash) + 1
      BY DEF ForkDrop, ScanInv, CurInv
    <3> QED
      BY LenType
  <2> QED
    BY <2>2, <2>3, <2>4 DEF Prev
<1>3. cur.hash \in Block /\ cur.h = Len(cur.hash) + 1 /\ cur.hash # Prev(b)
  BY <1>1, <1>2 DEF ForkDrop, LinksTo, ScanInv, CurInv
<1>4. cur.h # 1
  <2> SUFFICES ASSUME cur.h = 1 PROVE FALSE
    OBVIOUS
  <2>1. Len(cur.hash) = 0 /\ Len(b) = 1
    BY <1>2, <1>3, LenType
  <2>2. cur.hash = << >>
    BY <1>3, <2>1, BlockType
  <2>3. Prev(b) = GetBlockByHeight(b, 0) /\ 0 \in 0..Len(b)
    BY <2>1 DEF Prev, GetBlockByHeight
  <2>4. Prev(b) \in Block /\ Len(Prev(b)) = 0
    BY <1>2, <2>3, AncestorType
  <2> QED
    BY <1>3, <2>2, <2>4, BlockType
<1>5. cur.h \in 2..MaxHeight
  <2>1. Len(b) \in Heights /\ Len(cur.hash) \in Nat
    BY <1>2, <1>3, LenType
  <2> QED
    BY <1>2, <1>3, <1>4, <2>1, ChainAssumption DEF Heights, ChainAssumption
<1>6. local[Replaced(cur.h)] \in Block \union {NoHash}
  <2>1. cur.h - 1 \in Heights
    BY <1>5, ChainAssumption DEF Heights, ChainAssumption
  <2> QED
    BY <2>1 DEF Replaced, ScanInv, TypeOK
<1> QED
  BY <1>1, <1>2, <1>3, <1>4, <1>5, <1>6 DEF ForkDrop, ScanInv, TypeOK, CurInv, LocalInv,
     ApiInv, HeadIsABlock, AtBlock, nodeVars, daiVars, taskVars, ghostVars, TaskSteps,
     Height

\* The local block rolled back to has the height rolled back to.
LEMMA ForkBackLocalStep ==
    ASSUME ScanInv, ForkBackLocal
    PROVE  ScanInv'
<1>1. BackTo(cur.h) \in Heights /\ BackTo(cur.h) < cur.h /\ cur.base \in -1..MaxHeight
  <2>1. cur.h \in 2..MaxHeight
    BY DEF ForkBackLocal, ScanInv, CurInv
  <2>2. cur.h - 2 \in 0..(Uint32Mod - 1)
    BY <2>1, ChainAssumption DEF ChainAssumption
  <2>3. BackTo(cur.h) = IF cur.h - 2 = 0 THEN 1 ELSE cur.h - 2
    BY <2>2, Uint32Small DEF BackTo
  <2> QED
    BY <2>1, <2>3, ChainAssumption DEF Heights, ChainAssumption, ScanInv, TypeOK, HeadRecord
<1>2. LowerBase(BackTo(cur.h)) \in -1..MaxHeight
  BY <1>1, ChainAssumption DEF LowerBase, Heights, ChainAssumption
<1>3. PICK b \in Block : b = local[BackTo(cur.h)] /\ Len(b) = BackTo(cur.h)
  BY <1>1 DEF ForkBackLocal, ScanInv, TypeOK, LocalInv
<1>4. /\ cur' = [h |-> Len(b), hash |-> b, base |-> LowerBase(BackTo(cur.h))]
      /\ adopted' \in {adopted, adopted \union {b}}
  BY <1>3 DEF ForkBackLocal, Adopt
<1>5. cur' \in HeadRecord /\ cur'.hash = b /\ cur'.h = Len(b)
  BY <1>2, <1>3, <1>4, HeadType
<1> QED
  BY <1>1, <1>2, <1>3, <1>4, <1>5 DEF ForkBackLocal, ScanInv, TypeOK, CurInv, LocalInv,
     ApiInv, HeadIsABlock, AtBlock, nodeVars, daiVars, taskVars, ghostVars, TaskSteps,
     Height

\* So has the node's.
LEMMA ForkBackNodeStep ==
    ASSUME ScanInv, ForkBackNode
    PROVE  ScanInv'
<1>1. BackTo(cur.h) \in Heights /\ BackTo(cur.h) < cur.h /\ cur.base \in -1..MaxHeight
  <2>1. cur.h \in 2..MaxHeight
    BY DEF ForkBackNode, ScanInv, CurInv
  <2>2. cur.h - 2 \in 0..(Uint32Mod - 1)
    BY <2>1, ChainAssumption DEF ChainAssumption
  <2>3. BackTo(cur.h) = IF cur.h - 2 = 0 THEN 1 ELSE cur.h - 2
    BY <2>2, Uint32Small DEF BackTo
  <2> QED
    BY <2>1, <2>3, ChainAssumption DEF Heights, ChainAssumption, ScanInv, TypeOK, HeadRecord
<1>2. LowerBase(BackTo(cur.h)) \in -1..MaxHeight
  BY <1>1, ChainAssumption DEF LowerBase, Heights, ChainAssumption
<1>3. PICK b \in Block : b = GetBlockByHeight(tip, BackTo(cur.h)) /\ Len(b) = BackTo(cur.h)
  <2>1. BackTo(cur.h) \in 0..Len(tip) /\ tip \in Block
    BY <1>1 DEF ForkBackNode, ScanInv, TypeOK, Heights
  <2> QED
    BY <2>1, AncestorType
<1>4. /\ cur' = [h |-> Len(b), hash |-> b, base |-> LowerBase(BackTo(cur.h))]
      /\ adopted' \in {adopted, adopted \union {b}}
  BY <1>3 DEF ForkBackNode, Adopt
<1>5. cur' \in HeadRecord /\ cur'.hash = b /\ cur'.h = Len(b)
  BY <1>2, <1>3, <1>4, HeadType
<1> QED
  BY <1>1, <1>2, <1>3, <1>4, <1>5 DEF ForkBackNode, ScanInv, TypeOK, CurInv, LocalInv,
     ApiInv, HeadIsABlock, AtBlock, nodeVars, daiVars, taskVars, ghostVars, TaskSteps,
     Height

\* The loop is left.
LEMMA ForkBackBreakStep ==
    ASSUME ScanInv, ForkBackBreak
    PROVE  ScanInv'
<1>1. left' \in [Kinds -> Nat]
  BY SpendType DEF ForkBackBreak, ScanInv, TypeOK, Kinds
<1> QED
  BY <1>1, Nothing DEF ForkBackBreak, Break, ScanInv, TypeOK, CurInv, LocalInv, ApiInv,
     HeadIsABlock, AtBlock, nodeVars, daiVars, taskVars, ghostVars, TaskSteps, Height

\* The head is saved with the block rolled back to.
LEMMA ForkSaveStep ==
    ASSUME ScanInv, ForkSave
    PROVE  ScanInv'
<1>1. AtBlock(cur) /\ AtBlock(cur)' /\ head' = cur /\ Len(cur.hash) \in Nat
  BY LenType DEF ForkSave, ScanInv, CurInv, AtBlock
<1> QED
  BY <1>1, Nothing DEF ForkSave, ScanInv, TypeOK, CurInv, LocalInv, ApiInv, HeadIsABlock,
     AtBlock, nodeVars, daiVars, taskVars, ghostVars, TaskSteps, Height

\* The fork is announced.
LEMMA ForkNotifyStep ==
    ASSUME ScanInv, ForkNotify
    PROVE  ScanInv'
BY DEF ForkNotify, ScanInv, TypeOK, CurInv, LocalInv, ApiInv, HeadIsABlock, AtBlock,
   nodeVars, daiVars, taskVars, ghostVars, TaskSteps, Height

\* The heights on record are heights.
LEMMA RetryListStep ==
    ASSUME ScanInv, RetryList
    PROVE  ScanInv'
BY DEF RetryList, ScanInv, TypeOK, CurInv, LocalInv, ApiInv, HeadIsABlock, AtBlock,
   nodeVars, daiVars, taskVars, ghostVars, TaskSteps, Height

\* A record that stays.
LEMMA RetrySkipStep ==
    ASSUME ScanInv, NEW h \in todo, RetrySkip(h)
    PROVE  ScanInv'
<1>1. left' \in [Kinds -> Nat]
  BY SpendType DEF RetrySkip, ScanInv, TypeOK, Kinds
<1> QED
  BY <1>1 DEF RetrySkip, ScanInv, TypeOK, CurInv, LocalInv, ApiInv, HeadIsABlock, AtBlock,
     nodeVars, daiVars, taskVars, ghostVars, TaskSteps, Height

\* The block is extracted again, in vain.
LEMMA RetryFailsStep ==
    ASSUME ScanInv, NEW h \in todo, RetryFails(h)
    PROVE  ScanInv'
<1>1. PICK b : b = GetBlockByHeight(tip, h)
  OBVIOUS
<1>2. b \in Block /\ Len(b) = h /\ h \in Heights
  <2>1. h \in Heights /\ tip \in Block
    BY DEF RetryFails, ScanInv, TypeOK
  <2>2. h \in 0..Len(tip)
    BY <2>1, LenType DEF RetryFails, Heights
  <2> QED
    BY <2>1, <1>1, <2>2, AncestorType
<1>3. /\ left' \in [Kinds -> Nat] /\ unscan' \in SUBSET Heights
      /\ delivered' \in SUBSET Block /\ skipped' \in SUBSET Block /\ owed' \in SUBSET Block
  <2>1. BatchExtract(b, h)
    BY <1>1 DEF RetryFails, BatchExtract
  <2> QED
    BY <1>2, <2>1, BatchTypes DEF ScanInv
<1> QED
  BY <1>1, <1>2, <1>3 DEF RetryFails, ScanInv, TypeOK, CurInv, LocalInv, ApiInv,
     HeadIsABlock, AtBlock, nodeVars, daiVars, taskVars, ghostVars, TaskSteps, Height

\* The block is extracted again.
LEMMA RetryBatchStep ==
    ASSUME ScanInv, NEW h \in todo, RetryBatch(h)
    PROVE  ScanInv'
<1>1. PICK b : b = GetBlockByHeight(tip, h)
  OBVIOUS
<1>2. b \in Block /\ Len(b) = h /\ h \in Heights
  <2>1. h \in Heights /\ tip \in Block
    BY DEF RetryBatch, ScanInv, TypeOK
  <2>2. h \in 0..Len(tip)
    BY <2>1, LenType DEF RetryBatch, Heights
  <2> QED
    BY <2>1, <1>1, <2>2, AncestorType
<1>3. /\ left' \in [Kinds -> Nat] /\ unscan' \in SUBSET Heights
      /\ delivered' \in SUBSET Block /\ skipped' \in SUBSET Block /\ owed' \in SUBSET Block
  <2>1. BatchExtract(b, h)
    BY <1>1 DEF RetryBatch, BatchExtract
  <2> QED
    BY <1>2, <2>1, BatchTypes DEF ScanInv
<1>4. blk' = b
  BY <1>1 DEF RetryBatch
<1> QED
  BY <1>1, <1>2, <1>3, <1>4 DEF RetryBatch, ScanInv, TypeOK, CurInv, LocalInv, ApiInv,
     HeadIsABlock, AtBlock, nodeVars, daiVars, taskVars, ghostVars, TaskSteps, Height

\* Records are deleted.
LEMMA RetryDropStep ==
    ASSUME ScanInv, RetryDrop
    PROVE  ScanInv'
BY Nothing DEF RetryDrop, ScanInv, TypeOK, CurInv, LocalInv, ApiInv, HeadIsABlock,
   AtBlock, nodeVars, daiVars, taskVars, ghostVars, TaskSteps, Height

\* The task returns.
LEMMA RetryEndStep ==
    ASSUME ScanInv, RetryEnd
    PROVE  ScanInv'
BY Nothing DEF RetryEnd, Return, ScanInv, TypeOK, CurInv, LocalInv, ApiInv, HeadIsABlock,
   AtBlock, nodeVars, daiVars, taskVars, ghostVars, TaskSteps, Height

\* The scanner is started.
LEMMA RunStep ==
    ASSUME ScanInv, Run
    PROVE  ScanInv'
BY DEF Run, ScanInv, TypeOK, CurInv, LocalInv, ApiInv, HeadIsABlock, AtBlock, nodeVars,
   daiVars, taskVars, ghostVars, TaskSteps, Height

\* The scanner is stopped.
LEMMA StopStep ==
    ASSUME ScanInv, Stop
    PROVE  ScanInv'
<1>1. left' \in [Kinds -> Nat]
  BY SpendType DEF Stop, ScanInv, TypeOK, Kinds
<1>2. /\ scanning' \in BOOLEAN
      /\ UNCHANGED <<nodeVars, daiVars, taskVars, api, ghostVars>>
  BY DEF Stop
<1> QED
  BY <1>1, <1>2 DEF ScanInv, TypeOK, CurInv, LocalInv, ApiInv, HeadIsABlock, AtBlock,
     nodeVars, daiVars, taskVars, ghostVars, TaskSteps, Height

\* A rescan reads the block below the height asked for.
LEMMA SetRescanReadStep ==
    ASSUME ScanInv, NEW h \in 0..Len(tip), SetRescanRead(h + 1)
    PROVE  ScanInv'
<1>1. PICK b : b = GetBlockByHeight(tip, RescanHead(h + 1))
  OBVIOUS
<1>2. b \in Block
  <2>1. RescanHead(h + 1) = h
    BY LenType DEF RescanHead, ScanInv, TypeOK
  <2> QED
    BY <1>1, <2>1, AncestorType DEF ScanInv, TypeOK
<1>3. h + 1 \in 0..(MaxHeight + 1)
  BY LenType, ChainAssumption DEF ScanInv, TypeOK, Heights, ChainAssumption
<1>4. api' = [op |-> "rescan", blk |-> b, h |-> h + 1]
  BY <1>1 DEF SetRescanRead
<1>5. api' \in Call
  BY <1>2, <1>3, <1>4 DEF Call
<1>6. left' \in [Kinds -> Nat]
  BY SpendType DEF SetRescanRead, ScanInv, TypeOK, Kinds
<1> QED
  BY <1>1, <1>2, <1>3, <1>4, <1>5, <1>6 DEF SetRescanRead, ScanInv, TypeOK, CurInv,
     LocalInv, ApiInv, HeadIsABlock, AtBlock, nodeVars, daiVars, taskVars, ghostVars,
     TaskSteps, Height

\* And saves it as the head.
LEMMA SetRescanSaveStep ==
    ASSUME ScanInv, SetRescanSave
    PROVE  ScanInv'
<1>1. PICK b \in Block : b = api.blk
  BY DEF SetRescanSave, ScanInv, ApiInv
<1>2. head' = [h |-> Len(b), hash |-> b, base |-> Len(b)]
  BY <1>1 DEF SetRescanSave, Height
<1>3. head' \in HeadRecord /\ head'.h = Len(head'.hash) /\ head'.hash \in Block
  <2>1. Len(b) \in -1..MaxHeight
    BY LenType, ChainAssumption DEF Heights, ChainAssumption
  <2> QED
    BY <1>2, <2>1, HeadType
<1>4. rescan' \in Rescan
  BY DEF SetRescanSave, ScanInv, TypeOK, Call, Rescan
<1> QED
  BY <1>1, <1>2, <1>3, <1>4, Nothing DEF SetRescanSave, ScanInv, TypeOK, CurInv, LocalInv,
     ApiInv, HeadIsABlock, AtBlock, nodeVars, daiVars, taskVars, ghostVars, TaskSteps,
     Height

\* A block that cannot be fetched is put on record.
LEMMA ScanBlockFailsStep ==
    ASSUME ScanInv, NEW h \in 0..Len(tip), ScanBlockFails(h)
    PROVE  ScanInv'
<1>1. PICK b : b = GetBlockByHeight(tip, h)
  OBVIOUS
<1>2. b \in Block /\ Len(b) = h /\ h \in Heights
  <2>1. b \in Block /\ Len(b) = h
    BY <1>1, AncestorType DEF ScanInv, TypeOK
  <2> QED
    BY <2>1, LenType
<1>3. /\ unscan' \in SUBSET Heights
      /\ delivered' \in SUBSET Block /\ skipped' \in SUBSET Block /\ owed' \in SUBSET Block
  <2>1. BatchEffect(b, h)
    BY <1>1 DEF ScanBlockFails, BatchEffect
  <2> QED
    BY <1>2, <2>1, EffectTypes DEF ScanInv
<1>4. left' \in [Kinds -> Nat]
  <2>1. left["call"] - 1 \in Nat /\ left["rpc"] - 1 \in Nat
    BY DEF ScanBlockFails, ScanInv, TypeOK, Kinds
  <2> QED
    BY <2>1 DEF ScanBlockFails, ScanInv, TypeOK, Kinds
<1>5. UNCHANGED <<nodeVars, head, local, scanning, taskVars, api,
                   announced, adopted, lost, dropped, rescan>>
  BY DEF ScanBlockFails
<1> QED
  BY <1>1, <1>2, <1>3, <1>4, <1>5 DEF ScanInv, TypeOK, CurInv, LocalInv, ApiInv,
     HeadIsABlock, AtBlock, nodeVars, daiVars, taskVars, ghostVars, TaskSteps, Height

\* A block asked for is extracted.
LEMMA ScanBlockStep ==
    ASSUME ScanInv, NEW h \in 0..Len(tip), ScanBlock(h)
    PROVE  ScanInv'
<1>1. PICK b : b = GetBlockByHeight(tip, h)
  OBVIOUS
<1>2. b \in Block /\ Len(b) = h /\ h \in Heights
  <2>1. b \in Block /\ Len(b) = h
    BY <1>1, AncestorType DEF ScanInv, TypeOK
  <2> QED
    BY <2>1, LenType
<1>3. /\ left' \in [Kinds -> Nat] /\ unscan' \in SUBSET Heights
      /\ delivered' \in SUBSET Block /\ skipped' \in SUBSET Block /\ owed' \in SUBSET Block
  <2>1. BatchEffect(b, h)
    BY <1>1 DEF ScanBlock, BatchEffect
  <2>2. /\ unscan' \in SUBSET Heights
        /\ delivered' \in SUBSET Block /\ skipped' \in SUBSET Block /\ owed' \in SUBSET Block
    BY <1>2, <2>1, EffectTypes DEF ScanInv
  <2>3. left' \in [Kinds -> Nat]
    <3>1. CASE left' = [left EXCEPT !["call"] = @ - 1]
      <4>1. left["call"] - 1 \in Nat
        BY DEF ScanBlock, ScanInv, TypeOK, Kinds
      <4> QED
        BY <3>1, <4>1 DEF ScanInv, TypeOK
    <3>2. ASSUME NEW kind \in {"input", "rpc", "notify"}, left[kind] > 0,
                 left' = [left EXCEPT !["call"] = @ - 1, ![kind] = @ - 1]
          PROVE  left' \in [Kinds -> Nat]
      <4>1. left["call"] - 1 \in Nat /\ left[kind] - 1 \in Nat
        BY <3>2 DEF ScanBlock, ScanInv, TypeOK, Kinds
      <4> QED
        BY <3>2, <4>1 DEF ScanInv, TypeOK
    <3> QED
      BY <3>1, <3>2 DEF ScanBlock
  <2> QED
    BY <2>2, <2>3
<1>4. api' = [op |-> "announce", blk |-> b, h |-> h]
  BY <1>1 DEF ScanBlock
<1>5. api' \in Call
  <2>1. h \in 0..(MaxHeight + 1)
    BY <1>2, ChainAssumption DEF Heights, ChainAssumption
  <2> QED
    BY <1>2, <1>4, <2>1 DEF Call
<1> QED
  BY <1>1, <1>2, <1>3, <1>4, <1>5 DEF ScanBlock, ScanInv, TypeOK, CurInv, LocalInv,
     ApiInv, HeadIsABlock, AtBlock, nodeVars, daiVars, taskVars, ghostVars, TaskSteps,
     Height

\* And announced.
LEMMA ScanBlockNotifyStep ==
    ASSUME ScanInv, ScanBlockNotify
    PROVE  ScanInv'
<1>1. api.blk \in Block
  BY DEF ScanBlockNotify, ScanInv, ApiInv
<1> QED
  BY <1>1, Nothing DEF ScanBlockNotify, ScanInv, TypeOK, CurInv, LocalInv, ApiInv,
     HeadIsABlock, AtBlock, nodeVars, daiVars, taskVars, ghostVars, TaskSteps, Height

-------------------------------------------------------------------------------
(* Every step preserves the invariant.                                     *)

LEMMA Establishes ==
    ASSUME Init
    PROVE  ScanInv
<1>1. 0 \in Heights
  BY ChainAssumption DEF ChainAssumption, Heights
<1>2. InitTip \in Block /\ Budget \in [Kinds -> Nat]
  BY ScannerAssumption DEF ScannerAssumption
<1>3. TypeOK
  BY <1>1, <1>2, Nothing DEF Init, TypeOK, TaskSteps
<1>4. HeadIsABlock /\ CurInv /\ LocalInv /\ ApiInv
  BY <1>1, Nothing DEF Init, HeadIsABlock, CurInv, LocalInv, ApiInv
<1> QED
  BY <1>3, <1>4 DEF ScanInv

LEMMA Preserves ==
    ASSUME ScanInv, [Next]_vars
    PROVE  ScanInv'
<1>1. CASE Task
  BY <1>1, TaskStartStep, OriginHeightStep, OriginBlockStep, OriginPanicStep,
     LoopStoppedStep,
     LoopBreakStep, LoopNextStep, FetchBreakStep, ScanNextStep, SaveHeadStep, SaveBlockStep,
     NewBlockNotifyStep, ForkDropStep, ForkBackLocalStep, ForkBackNodeStep, ForkBackBreakStep,
     ForkSaveStep, ForkNotifyStep, RetryListStep, RetrySkipStep, RetryFailsStep,
     RetryBatchStep, RetryDropStep, RetryEndStep
     DEF Task
<1>2. CASE Api
  BY <1>2, SetRescanReadStep, SetRescanSaveStep, ScanBlockFailsStep, ScanBlockStep,
     ScanBlockNotifyStep
     DEF Api
<1>3. CASE Run \/ Stop \/ Grow \/ Reorg \/ Crash
  BY <1>3, RunStep, StopStep, GrowStep, ReorgStep, CrashStep
<1>4. CASE UNCHANGED vars
  BY <1>4 DEF vars, ScanInv, TypeOK, CurInv, LocalInv, ApiInv, HeadIsABlock, AtBlock,
              nodeVars, daiVars, taskVars, ghostVars
<1> QED
  BY <1>1, <1>2, <1>3, <1>4 DEF Next

\* The inductive invariant holds in every state of every behaviour.
THEOREM ScanInvariant == Spec => []ScanInv
<1>1. Init => ScanInv
  BY Establishes
<1>2. ScanInv /\ [Next]_vars => ScanInv'
  BY Preserves
<1> QED
  BY <1>1, <1>2, PTL DEF Spec

\* Every variable of the scanner has its type: no height wraps into a record or
\* a head, and no local block or record is kept outside the chain's heights.
THEOREM ScannerTypes == Spec => []TypeOK
<1>1. ScanInv => TypeOK
  BY DEF ScanInv
<1> QED
  BY <1>1, ScanInvariant, PTL

\* The saved head is a block, whatever forks, fails, crashes or is called.
THEOREM HeadIsAlwaysABlock == Spec => []HeadIsABlock
<1>1. ScanInv => HeadIsABlock
  BY DEF ScanInv
<1> QED
  BY <1>1, ScanInvariant, PTL

-------------------------------------------------------------------------------
(* A rescan asked for between two tasks.                                   *)

Asked == rescan.idle /\ rescan.h > 1

\* Until the height asked for is extracted, the task and the head stay below it,
\* and the head is not 0, which would make the task start at the tip.
RescanInv ==
    /\ api.op = "rescan" => api.h = Len(api.blk) + 1
    /\ Asked =>
          /\ 0 < head.h /\ head.h < rescan.h
          /\ pc \notin {"origin", "originBlock"}
          /\ pc \in {"loop", "saveHead", "saveBlock", "notify", "forkSave", "forkNotify"} =>
                0 < cur.h /\ cur.h < rescan.h
          /\ pc \in {"next", "forkBack"} => 1 < cur.h /\ cur.h <= rescan.h

\* The types the steps below need.
LEMMA RescanTypes ==
    ASSUME ScanInv
    PROVE  /\ head.h \in Nat /\ cur.h \in Nat /\ rescan.h \in Nat /\ api.h \in Nat
           /\ Uint32Mod \in Nat /\ MaxHeight \in Nat /\ MaxHeight + 1 < Uint32Mod
BY ChainAssumption DEF ScanInv, TypeOK, HeadRecord, Rescan, Call, ChainAssumption

\* Steps that leave the heights alone, or return.
LEMMA RescanKept ==
    ASSUME ScanInv, RescanInv, UNCHANGED <<head, rescan>>,
           api' = api \/ api'.op # "rescan",
           \/ pc' = pc /\ cur' = cur
           \/ pc' \notin {"origin", "originBlock", "loop", "next", "forkBack", "saveHead",
                          "saveBlock", "notify", "forkSave", "forkNotify"}
    PROVE  RescanInv'
BY DEF RescanInv, Asked

Quiet ==
    \/ OriginPanic \/ LoopStopped \/ LoopBreak \/ FetchBreak \/ ForkBackBreak
    \/ RetryList \/ RetryEnd \/ RetryDrop
    \/ \E h \in todo : RetrySkip(h) \/ RetryFails(h) \/ RetryBatch(h)
    \/ \E h \in 0..Len(tip) : ScanBlockFails(h) \/ ScanBlock(h)
    \/ ScanBlockNotify \/ Run \/ Stop \/ Grow \/ Reorg \/ Crash \/ UNCHANGED vars

LEMMA QuietRescan ==
    ASSUME ScanInv, RescanInv, Quiet
    PROVE  RescanInv'
<1>1. UNCHANGED <<head, rescan>>
  BY DEF Quiet, OriginPanic, LoopStopped, LoopBreak, FetchBreak, ForkBackBreak, RetryList,
         RetryEnd, RetryDrop, RetrySkip, RetryFails, RetryBatch, ScanBlockFails, ScanBlock,
         ScanBlockNotify, Run, Stop, Grow, Reorg, Crash, vars, nodeVars, daiVars, ghostVars
<1>2. api' = api \/ api'.op # "rescan"
  BY DEF Quiet, OriginPanic, LoopStopped, LoopBreak, FetchBreak, ForkBackBreak, RetryList,
         RetryEnd, RetryDrop, RetrySkip, RetryFails, RetryBatch, ScanBlockFails, ScanBlock,
         ScanBlockNotify, Run, Stop, Grow, Reorg, Crash, vars, Restart, NoCall
<1>3. \/ pc' = pc /\ cur' = cur
      \/ pc' \notin {"origin", "originBlock", "loop", "next", "forkBack", "saveHead",
                     "saveBlock", "notify", "forkSave", "forkNotify"}
  BY DEF Quiet, OriginPanic, LoopStopped, LoopBreak, FetchBreak, ForkBackBreak, RetryList,
         RetryEnd, RetryDrop, RetrySkip, RetryFails, RetryBatch, ScanBlockFails, ScanBlock,
         ScanBlockNotify, Run, Stop, Grow, Reorg, Crash, vars, taskVars, Restart, Return, Break
<1> QED
  BY <1>1, <1>2, <1>3, RescanKept

LEMMA RescanPreserves ==
    ASSUME ScanInv, RescanInv, [Next]_vars
    PROVE  RescanInv'
<1> USE RescanTypes
<1>1. CASE TaskStart
  BY <1>1 DEF TaskStart, RescanInv, Asked, daiVars, ghostVars
<1>2. CASE OriginHeight \/ OriginBlock
  BY <1>2 DEF OriginHeight, OriginBlock, RescanInv, Asked, daiVars, ghostVars
<1>3. CASE LoopNext
  <2>1. ~Asked \/ Uint32(cur.h + 1) = cur.h + 1
    <3>1. cur.h + 1 \in 0..(Uint32Mod - 1) \/ cur.h = Uint32Mod - 1
      BY <1>3, LenType DEF LoopNext, ScanInv, CurInv, AtBlock, Heights
    <3>2. rescan.h <= MaxHeight + 1
      BY DEF ScanInv, TypeOK, Rescan
    <3>3. Asked => cur.h < Uint32Mod - 1
      BY <1>3, <3>2 DEF LoopNext, RescanInv
    <3> QED
      BY <3>1, <3>3, Uint32Small
  <2>2. cur'.h = Uint32(cur.h + 1) /\ pc = "loop" /\ pc' = "next"
    BY <1>3 DEF LoopNext, ScanInv, TypeOK, HeadRecord
  <2>3. UNCHANGED <<head, rescan, api>>
    BY <1>3 DEF LoopNext, daiVars, ghostVars
  <2> QED
    BY <2>1, <2>2, <2>3 DEF RescanInv, Asked
<1>4. CASE ScanNext
  <2>1. /\ cur'.h = cur.h /\ pc = "next" /\ pc' = "saveHead" /\ UNCHANGED <<head, api>>
        /\ (rescan' = rescan /\ cur.h # rescan.h) \/ rescan' = NoRescan
    BY <1>4 DEF ScanNext, ScanInv, TypeOK, HeadRecord
  <2> QED
    BY <2>1 DEF RescanInv, Asked, NoRescan
<1>5. CASE SaveHead \/ SaveBlock \/ NewBlockNotify \/ ForkSave \/ ForkNotify
  BY <1>5 DEF SaveHead, SaveBlock, NewBlockNotify, ForkSave, ForkNotify, RescanInv, Asked,
              daiVars, ghostVars
<1>6. CASE ForkDrop
  BY <1>6 DEF ForkDrop, RescanInv, Asked
<1>7. CASE ForkBackLocal \/ ForkBackNode
  <2>1. cur.h \in 2..MaxHeight /\ pc = "forkBack" /\ pc' = "forkSave"
    BY <1>7 DEF ForkBackLocal, ForkBackNode, ScanInv, CurInv
  <2>2. cur'.h = BackTo(cur.h) /\ UNCHANGED <<head, rescan, api>>
    BY <1>7 DEF ForkBackLocal, ForkBackNode, daiVars, ghostVars
  <2>3. cur.h - 2 \in 0..(Uint32Mod - 1)
    BY <2>1
  <2>4. BackTo(cur.h) = IF cur.h - 2 = 0 THEN 1 ELSE cur.h - 2
    BY <2>3, Uint32Small DEF BackTo
  <2>5. cur'.h \in Nat /\ 0 < cur'.h /\ cur'.h < cur.h
    BY <2>1, <2>2, <2>4
  <2>6. Asked => cur.h <= rescan.h
    BY <2>1 DEF RescanInv
  <2>7. Asked => cur'.h < rescan.h
    BY <2>5, <2>6
  <2> QED
    BY <2>1, <2>2, <2>5, <2>7 DEF RescanInv, Asked
<1>8. CASE \E h \in 0..Len(tip) : SetRescanRead(h + 1)
  <2>1. PICK h \in 0..Len(tip) : SetRescanRead(h + 1)
    BY <1>8
  <2>2. h \in Nat
    BY LenType DEF ScanInv, TypeOK
  <2>3. RescanHead(h + 1) = h
    BY <2>2 DEF RescanHead
  <2>4. Len(GetBlockByHeight(tip, h)) = h
    BY <2>1, AncestorType DEF ScanInv, TypeOK
  <2>5. api'.h = h + 1 /\ Len(api'.blk) = h
    BY <2>1, <2>3, <2>4 DEF SetRescanRead
  <2> QED
    BY <2>1, <2>5 DEF SetRescanRead, RescanInv, Asked, daiVars, taskVars, ghostVars
<1>9. CASE SetRescanSave
  <2>1. /\ head'.h = Len(api.blk) /\ api.h = Len(api.blk) + 1 /\ rescan'.h = api.h
        /\ rescan'.idle => pc = "idle"
        /\ pc' = pc /\ api'.op = "none"
    BY <1>9 DEF SetRescanSave, RescanInv, Height, NoCall, taskVars
  <2>2. Len(api.blk) \in Nat
    BY <1>9, LenType DEF SetRescanSave, ScanInv, ApiInv
  <2> QED
    BY <2>1, <2>2 DEF RescanInv, Asked
<1>10. CASE Quiet
  BY <1>10, QuietRescan
<1>11. \/ TaskStart \/ OriginHeight \/ OriginBlock \/ LoopNext \/ ScanNext
       \/ SaveHead \/ SaveBlock \/ NewBlockNotify \/ ForkSave \/ ForkNotify
       \/ ForkDrop \/ ForkBackLocal \/ ForkBackNode
       \/ SetRescanSave \/ (\E h \in 0..Len(tip) : SetRescanRead(h + 1)) \/ Quiet
  BY DEF Next, Task, Api, Quiet
<1> QED
  BY <1>1, <1>2, <1>3, <1>4, <1>5, <1>6, <1>7, <1>8, <1>9, <1>10, <1>11

\* A rescan from height 2 or more asked for between two tasks is never passed
\* over, whatever forks, fails, crashes or is called before it is done.
THEOREM RescanIsHonoured == Spec => []RescanHonoured
<1>1. Init => RescanInv
  BY DEF Init, RescanInv, Asked, NoCall, NoRescan
<1>2. ScanInv /\ RescanInv /\ [Next]_vars => RescanInv'
  BY RescanPreserves
<1>3. RescanInv => RescanHonoured
  BY DEF RescanInv, Asked, RescanHonoured
<1> QED
  BY <1>1, <1>2, <1>3, ScanInvariant, PTL DEF Spec

-------------------------------------------------------------------------------
(* The trap at height 1.                                                   *)

\* The block after the trapped one does not follow it: the node's does not.
LEMMA TrapForks ==
    ASSUME ScanInv, Trapped, pc = "next", cur.h <= Len(tip)
    PROVE  ~LinksTo(GetBlockByHeight(tip, cur.h))
<1>1. PICK b \in Block : b = local[1] /\ Len(b) = 1 /\ cur.hash = b /\ cur.h = 2
  <2>1. 1 \in Heights
    BY ChainAssumption DEF ChainAssumption, Heights
  <2> QED
    BY <2>1 DEF ScanInv, TypeOK, LocalInv, Trapped
<1>2. 2 \in 0..Len(tip) /\ 1 \in 0..2 /\ Len(tip) \in Nat
  BY <1>1, LenType DEF ScanInv, TypeOK
<1>3. PICK c : c = GetBlockByHeight(tip, 2)
  OBVIOUS
<1>4. c \in Block /\ Len(c) = 2 /\ GetBlockByHeight(c, 1) = GetBlockByHeight(tip, 1)
  BY <1>2, <1>3, AncestorType DEF ScanInv, TypeOK
<1>5. Prev(c) = GetBlockByHeight(tip, 1)
  <2>1. c # << >>
    BY <1>4, EmptySeq
  <2> QED
    BY <1>4, <2>1 DEF Prev, GetBlockByHeight
<1>6. GetBlockByHeight(tip, 1) # b
  BY <1>1, <1>2 DEF Trapped, OnChain, GetBlockByHeight
<1> QED
  BY <1>1, <1>3, <1>5, <1>6 DEF LinksTo

\* The floor of the rollback: it goes back to the trapped block itself.
LEMMA TrapFloor ==
    BackTo(2) = 1 /\ 2 - 2 \in 0..(Uint32Mod - 1)
<1>1. 2 - 2 \in 0..(Uint32Mod - 1)
  BY ChainAssumption DEF ChainAssumption
<1> QED
  BY <1>1, Uint32Small DEF BackTo

LEMMA TrapHolds ==
    ASSUME ScanInv, Trapped, [Next]_vars, ~SetRescanSave, ~OnChain(local[1], tip')
    PROVE  Trapped'
<1>. DEFINE Rests == pc' \in {"idle", "retry", "retrying", "retryDrop"}
<1>1. CASE UNCHANGED <<head, local>> /\ (Rests \/ UNCHANGED <<pc, cur>>)
  BY <1>1 DEF Trapped
<1>2. CASE TaskStart
  BY <1>2 DEF TaskStart, daiVars, Trapped
<1>3. CASE LoopNext
  <2>1. cur.h = 1 /\ 1 + 1 \in 0..(Uint32Mod - 1)
    BY <1>3, ChainAssumption DEF LoopNext, Trapped, ChainAssumption
  <2>2. cur'.h = 2 /\ cur'.hash = cur.hash
    BY <1>3, <2>1, Uint32Small DEF LoopNext, ScanInv, TypeOK, HeadRecord
  <2> QED
    BY <1>3, <2>2 DEF LoopNext, daiVars, Trapped
<1>4. CASE ScanNext
  BY <1>4, TrapForks DEF ScanNext
<1>5. CASE ForkDrop
  BY <1>5 DEF ForkDrop, Trapped
<1>6. CASE ForkBackLocal \/ ForkBackNode
  <2>1. cur.h = 2 /\ BackTo(cur.h) = 1 /\ local[1] # NoHash
    BY <1>6, TrapFloor DEF ForkBackLocal, ForkBackNode, Trapped
  <2>2. ForkBackLocal /\ cur'.h = 1 /\ cur'.hash = local[1]
    BY <1>6, <2>1 DEF ForkBackLocal, ForkBackNode
  <2> QED
    BY <2>2 DEF ForkBackLocal, daiVars, Trapped
<1>7. CASE ForkSave \/ ForkNotify
  BY <1>7 DEF ForkSave, ForkNotify, daiVars, ghostVars, Trapped
<1>8. CASE OriginHeight \/ OriginBlock \/ OriginPanic \/ SaveHead \/ SaveBlock \/ NewBlockNotify
  <2>1. ~(OriginHeight \/ OriginBlock \/ OriginPanic \/ SaveHead \/ SaveBlock \/ NewBlockNotify)
    BY DEF OriginHeight, OriginBlock, OriginPanic, SaveHead, SaveBlock, NewBlockNotify, Trapped
  <2> QED
    BY <1>8, <2>1
<1>9. CASE \/ LoopStopped \/ LoopBreak \/ FetchBreak \/ ForkBackBreak
           \/ RetryList \/ RetryEnd \/ RetryDrop
           \/ \E h \in todo : RetrySkip(h) \/ RetryFails(h) \/ RetryBatch(h)
  <2>1. UNCHANGED <<head, local>> /\ Rests
    BY <1>9 DEF LoopStopped, LoopBreak, FetchBreak, ForkBackBreak, RetryList,
       RetryEnd, RetryDrop, RetrySkip, RetryFails, RetryBatch, Return, Break, daiVars
  <2> QED
    BY <1>1, <2>1
<1>10. CASE Api
  <2>1. UNCHANGED <<head, local, pc, cur>>
    BY <1>10 DEF Api, ScanBlockNotify, SetRescanRead, ScanBlockFails, ScanBlock, daiVars, taskVars
  <2> QED
    BY <1>1, <2>1
<1>11. CASE Run \/ Stop \/ Grow \/ Reorg \/ UNCHANGED vars
  <2>1. UNCHANGED <<head, local, pc, cur>>
    BY <1>11 DEF Run, Stop, Grow, Reorg, vars, daiVars, taskVars
  <2> QED
    BY <1>1, <2>1
<1>12. CASE Crash
  BY <1>1, <1>12 DEF Crash, Restart, daiVars
<1> QED
  BY <1>2, <1>3, <1>4, <1>5, <1>6, <1>7, <1>8, <1>9, <1>10, <1>11, <1>12 DEF Next, Task

\* Once the node has left the local block at height 1, nothing but a rescan or the
\* node's return to it gets the scanner past height 1: no crash, retry or call does.
THEOREM FloorIsATrap == Spec => FloorTrap
<1>1. ScanInv /\ [Next]_vars =>
          [Trapped => Trapped' \/ SetRescanSave \/ OnChain(local[1], tip')]_vars
  BY TrapHolds
<1> QED
  BY <1>1, ScanInvariant, PTL DEF Spec, FloorTrap

(*****************************************************************************)
(* What the head claims was answered for, for every chain and however often  *)
(* it forks, the node fails to answer, observers refuse a notification and   *)
(* the scanner is stopped: Recorded for a scanner that does not crash and on *)
(* which no other goroutine calls, and Covered for one that crashes and is   *)
(* called at any moment.                                                     *)
(*****************************************************************************)

-------------------------------------------------------------------------------
(* The inductive invariant.                                                *)

\* The block was delivered, or left a transaction out, or it failed and its record was
\* deleted, or it failed and is on record.
Answered(b) ==
    \/ b \in delivered \union skipped \union lost \union dropped
    \/ b \in owed /\ Len(b) \in unscan

\* The ancestors of b above height n and up to k are the local blocks, and they
\* have been answered for.
LinkedUpTo(b, n, k) ==
    \A j \in (n + 1)..k :
        local[j] = GetBlockByHeight(b, j) /\ Answered(GetBlockByHeight(b, j))

Linked(b, n) == b \in Block => LinkedUpTo(b, n, Len(b))

\* The blocks below the head are linked, but for the head itself between the two
\* saves; so are those below the block the task continues from.
QuietInv ==
    /\ left["crash"] = 0 /\ left["call"] = 0 /\ api = NoCall
    /\ pc # "saveBlock" => Linked(head.hash, head.base)
    /\ pc = "saveBlock" => head = cur
    /\ pc \in {"loop", "next", "forkBack", "forkSave", "forkNotify", "notify"} =>
          Linked(cur.hash, cur.base)
    /\ pc \in {"saveHead", "saveBlock"} =>
          LinkedUpTo(cur.hash, cur.base, Len(cur.hash) - 1) /\ Answered(cur.hash)

-------------------------------------------------------------------------------
(* What is kept.                                                           *)

\* Nothing that was answered for is forgotten, and no local block is changed.
Kept ==
    /\ local' = local
    /\ \A b \in Block : Answered(b) => Answered(b)'

LEMMA KeptUpTo ==
    ASSUME Kept, NEW b \in Block, NEW n \in -1..MaxHeight, NEW k \in Int, k <= Len(b),
           LinkedUpTo(b, n, k)
    PROVE  LinkedUpTo(b, n, k)'
<1> SUFFICES ASSUME NEW j \in (n + 1)..k
             PROVE  local'[j] = GetBlockByHeight(b, j) /\ Answered(GetBlockByHeight(b, j))'
  BY DEF LinkedUpTo
<1>1. j \in 0..Len(b)
  BY LenType
<1>2. GetBlockByHeight(b, j) \in Block
  BY <1>1, AncestorType
<1>3. local[j] = GetBlockByHeight(b, j) /\ Answered(GetBlockByHeight(b, j))
  BY DEF LinkedUpTo
<1> QED
  BY <1>2, <1>3 DEF Kept

LEMMA HeadKept ==
    ASSUME ScanInv, Kept, head' = head, Linked(head.hash, head.base)
    PROVE  Linked(head.hash, head.base)'
<1>1. head.base \in -1..MaxHeight
  BY DEF ScanInv, TypeOK, HeadRecord
<1>2. ASSUME NEW b \in Block, b = head.hash
      PROVE  LinkedUpTo(b, head.base, Len(b))'
  <2>1. PICK n \in -1..MaxHeight : n = head.base
    BY <1>1
  <2>2. LinkedUpTo(b, n, Len(b))
    BY <1>2, <2>1 DEF Linked
  <2>3. LinkedUpTo(b, n, Len(b))'
    BY <2>2, LenType, KeptUpTo
  <2> QED
    BY <2>1, <2>3 DEF LinkedUpTo
<1> QED
  BY <1>2 DEF Linked, LinkedUpTo

LEMMA CurKept ==
    ASSUME ScanInv, Kept, cur'.hash = cur.hash, cur'.base = cur.base,
           Linked(cur.hash, cur.base)
    PROVE  Linked(cur.hash, cur.base)'
<1>1. cur.base \in -1..MaxHeight
  BY DEF ScanInv, TypeOK, HeadRecord
<1>2. ASSUME NEW b \in Block, b = cur.hash
      PROVE  LinkedUpTo(b, cur.base, Len(b))'
  <2>1. PICK n \in -1..MaxHeight : n = cur.base
    BY <1>1
  <2>2. LinkedUpTo(b, n, Len(b))
    BY <1>2, <2>1 DEF Linked
  <2>3. LinkedUpTo(b, n, Len(b))'
    BY <2>2, LenType, KeptUpTo
  <2> QED
    BY <2>1, <2>3 DEF LinkedUpTo
<1> QED
  BY <1>2 DEF Linked, LinkedUpTo

LEMMA TopKept ==
    ASSUME ScanInv, Kept, cur' = cur, cur.hash \in Block,
           LinkedUpTo(cur.hash, cur.base, Len(cur.hash) - 1), Answered(cur.hash)
    PROVE  (LinkedUpTo(cur.hash, cur.base, Len(cur.hash) - 1) /\ Answered(cur.hash))'
<1>1. PICK b \in Block, n \in -1..MaxHeight : b = cur.hash /\ n = cur.base
  BY DEF ScanInv, TypeOK, HeadRecord
<1>2. Len(b) - 1 \in Int /\ Len(b) - 1 <= Len(b)
  BY LenType
<1>3. LinkedUpTo(b, n, Len(b) - 1) /\ Answered(b)
  BY <1>1
<1>4. LinkedUpTo(b, n, Len(b) - 1)' /\ Answered(b)'
  BY <1>2, <1>3, KeptUpTo DEF Kept
<1> QED
  BY <1>1, <1>4 DEF LinkedUpTo, Answered

LEMMA SameKept ==
    ASSUME UNCHANGED <<local, unscan, delivered, skipped, owed, lost, dropped>>
    PROVE  Kept
BY DEF Kept, Answered

-------------------------------------------------------------------------------
(* Steps that leave what was answered for and the task's block alone.      *)

\* The node and the operator.
LEMMA EnvironmentCovers ==
    ASSUME ScanInv, QuietInv, Run \/ Stop \/ Grow \/ Reorg \/ UNCHANGED vars
    PROVE  QuietInv'
<1>1. /\ UNCHANGED <<local, unscan, delivered, skipped, owed, lost, dropped>>
      /\ UNCHANGED <<head, cur, pc, api>>
  BY DEF Run, Stop, Grow, Reorg, vars, nodeVars, daiVars, taskVars, ghostVars
<1>2. left'["crash"] = 0 /\ left'["call"] = 0
  BY DEF Run, Stop, Grow, Reorg, Spend, vars, QuietInv, ScanInv, TypeOK, Kinds
<1>3. Kept
  BY <1>1, SameKept
<1>4. pc' # "saveBlock" => Linked(head.hash, head.base)'
  BY <1>1, <1>3, HeadKept DEF QuietInv
<1>5. pc' \in {"loop", "next", "forkBack", "forkSave", "forkNotify", "notify"} =>
          Linked(cur.hash, cur.base)'
  BY <1>1, <1>3, CurKept DEF QuietInv
<1>6. pc' \in {"saveHead", "saveBlock"} =>
          (LinkedUpTo(cur.hash, cur.base, Len(cur.hash) - 1) /\ Answered(cur.hash))'
  BY <1>1, <1>3, TopKept DEF QuietInv, ScanInv, CurInv, AtBlock
<1> QED
  BY <1>1, <1>2, <1>4, <1>5, <1>6 DEF QuietInv

\* The steps of the task between its start, its loop and its end.
Passing ==
    \/ TaskStart \/ OriginHeight \/ OriginPanic \/ LoopStopped \/ LoopBreak \/ LoopNext
    \/ FetchBreak \/ NewBlockNotify \/ ForkBackBreak \/ ForkNotify
    \/ RetryList \/ RetryEnd \/ \E h \in todo : RetrySkip(h)

LEMMA PassingCovers ==
    ASSUME ScanInv, QuietInv, Passing
    PROVE  QuietInv'
<1>1. UNCHANGED <<local, unscan, delivered, skipped, owed, lost, dropped, head>>
  BY DEF Passing, TaskStart, OriginHeight, OriginPanic, LoopStopped, LoopBreak, LoopNext,
         FetchBreak, NewBlockNotify, ForkBackBreak, ForkNotify, RetryList, RetryEnd, RetrySkip,
         Restart, Return, Break, nodeVars, daiVars, taskVars, ghostVars
<1>2. left'["crash"] = 0 /\ left'["call"] = 0 /\ api' = NoCall
  BY DEF Passing, TaskStart, OriginHeight, OriginPanic, LoopStopped, LoopBreak, LoopNext,
         FetchBreak, NewBlockNotify, ForkBackBreak, ForkNotify, RetryList, RetryEnd, RetrySkip,
         Restart, Spend, QuietInv, ScanInv, TypeOK, Kinds
<1>3. /\ pc \notin {"saveHead", "saveBlock"} /\ pc' \notin {"saveHead", "saveBlock"}
      /\ pc' \in {"next", "forkBack", "forkSave", "forkNotify", "notify"} => pc = "loop"
  BY DEF Passing, TaskStart, OriginHeight, OriginPanic, LoopStopped, LoopBreak, LoopNext,
         FetchBreak, NewBlockNotify, ForkBackBreak, ForkNotify, RetryList, RetryEnd, RetrySkip,
         Restart, Return, Break
<1>4. pc' \in {"loop", "next"} =>
          \/ cur'.hash = cur.hash /\ cur'.base = cur.base /\ pc \in {"loop", "notify", "forkNotify"}
          \/ cur' = head
  BY DEF Passing, TaskStart, OriginHeight, OriginPanic, LoopStopped, LoopBreak, LoopNext,
         FetchBreak, NewBlockNotify, ForkBackBreak, ForkNotify, RetryList, RetryEnd, RetrySkip,
         Restart, Return, Break, ScanInv, TypeOK, HeadRecord
<1>5. Kept
  BY <1>1, SameKept
<1>6. Linked(head.hash, head.base)'
  BY <1>1, <1>3, <1>5, HeadKept DEF QuietInv
<1>7. pc' \in {"loop", "next"} => Linked(cur.hash, cur.base)'
  <2>1. CASE cur' = head
    BY <1>1, <1>6, <2>1 DEF Linked, LinkedUpTo
  <2>2. CASE cur'.hash = cur.hash /\ cur'.base = cur.base /\ pc \in {"loop", "notify", "forkNotify"}
    BY <1>5, <2>2, CurKept DEF QuietInv
  <2> QED
    BY <1>4, <2>1, <2>2
<1>8. pc' \notin {"forkBack", "forkSave", "forkNotify", "notify"}
  BY DEF Passing, TaskStart, OriginHeight, OriginPanic, LoopStopped, LoopBreak, LoopNext,
         FetchBreak, NewBlockNotify, ForkBackBreak, ForkNotify, RetryList, RetryEnd, RetrySkip,
         Restart, Return, Break
<1> QED
  BY <1>2, <1>3, <1>6, <1>7, <1>8 DEF QuietInv

\* The saves of the head.
LEMMA SaveHeadCovers ==
    ASSUME ScanInv, QuietInv, SaveHead
    PROVE  QuietInv'
<1>1. UNCHANGED <<local, unscan, delivered, skipped, owed, lost, dropped, cur, left, api>>
  BY DEF SaveHead, ghostVars
<1>2. pc = "saveHead" /\ pc' = "saveBlock" /\ head' = cur
  BY DEF SaveHead
<1>3. (LinkedUpTo(cur.hash, cur.base, Len(cur.hash) - 1) /\ Answered(cur.hash))'
  BY <1>1, <1>2, SameKept, TopKept DEF QuietInv, ScanInv, CurInv, AtBlock
<1> QED
  BY <1>1, <1>2, <1>3 DEF QuietInv

LEMMA ForkSaveCovers ==
    ASSUME ScanInv, QuietInv, ForkSave
    PROVE  QuietInv'
<1>1. UNCHANGED <<local, unscan, delivered, skipped, owed, lost, dropped, cur, left, api>>
  BY DEF ForkSave, ghostVars
<1>2. pc = "forkSave" /\ pc' = "forkNotify" /\ head' = cur
  BY DEF ForkSave
<1>3. Linked(cur.hash, cur.base)'
  BY <1>1, <1>2, SameKept, CurKept DEF QuietInv
<1>4. Linked(head.hash, head.base)'
  BY <1>1, <1>2, <1>3 DEF Linked, LinkedUpTo
<1> QED
  BY <1>1, <1>2, <1>3, <1>4 DEF QuietInv

\* A start claims nothing yet.
LEMMA OriginBlockCovers ==
    ASSUME ScanInv, QuietInv, OriginBlock
    PROVE  QuietInv'
<1>1. PICK b : b = GetBlockByHeight(tip, Uint32(cur.h - 1))
  OBVIOUS
<1>2. /\ UNCHANGED <<local, unscan, delivered, skipped, owed, lost, dropped, head, left, api>>
      /\ pc = "originBlock" /\ pc' = "loop"
      /\ cur'.hash = Prev(b) /\ cur'.base = Len(b) - 1
  BY <1>1 DEF OriginBlock, Height, daiVars, ghostVars
<1>3. b \in Block
  <2>1. Uint32(cur.h - 1) \in 0..Len(tip)
    BY Uint32Type, LenType DEF OriginBlock, ScanInv, TypeOK, HeadRecord
  <2> QED
    BY <1>1, <2>1, AncestorType DEF ScanInv, TypeOK
<1>4. Linked(cur.hash, cur.base)'
  <2>1. CASE b = << >>
    BY <1>2, <2>1, Nothing DEF Prev, Linked
  <2>2. CASE b # << >>
    <3>1. Len(b) \in Nat /\ Len(b) - 1 \in 0..Len(b)
      BY <1>3, <2>2, BlockType DEF Heights
    <3>2. Len(Prev(b)) = Len(b) - 1
      BY <1>3, <2>2, <3>1, AncestorType DEF Prev, GetBlockByHeight
    <3>3. (Len(b) - 1 + 1)..(Len(b) - 1) = {}
      BY <3>1
    <3> QED
      BY <1>2, <3>2, <3>3 DEF Linked, LinkedUpTo
  <2> QED
    BY <2>1, <2>2
<1>5. Linked(head.hash, head.base)'
  BY <1>2, SameKept, HeadKept DEF QuietInv
<1> QED
  BY <1>2, <1>4, <1>5 DEF QuietInv

-------------------------------------------------------------------------------
(* Batches, and records deleted.                                           *)

\* Whatever becomes of the batch of a block at its height, what was answered for
\* stays so, and the block is answered for.
LEMMA BatchAnswers ==
    ASSUME ScanInv, NEW b \in Block,
           BatchExtract(b, Len(b)),
           lost' = lost, dropped' = dropped \/ dropped' = dropped \ {b}
    PROVE  /\ \A c \in Block : Answered(c) => Answered(c)'
           /\ Answered(b)'
           /\ left'["crash"] = left["crash"] /\ left'["call"] = left["call"]
<1>1. BatchEffect(b, Len(b))
  BY BatchHasEffect
<1>2. left'["crash"] = left["crash"] /\ left'["call"] = left["call"]
  BY BatchHasEffect DEF Spend, ScanInv, TypeOK, Kinds
<1>3. Answered(b)'
  BY <1>1 DEF BatchEffect, AllDelivered, LeftOut, OnRecord, RecordUnscan, Answered
<1>4. ASSUME NEW c \in Block, Answered(c), c # b PROVE Answered(c)'
  BY <1>1, <1>4 DEF BatchEffect, AllDelivered, LeftOut, OnRecord, RecordUnscan, Answered
<1> QED
  BY <1>2, <1>3, <1>4

\* The block below a block: its ancestors, and no others, are those of the block
\* but for itself.
LEMMA BelowIt ==
    ASSUME NEW b \in Block, b # << >>
    PROVE  /\ Prev(b) \in Block /\ Len(Prev(b)) = Len(b) - 1
           /\ \A j \in 0..(Len(b) - 1) : GetBlockByHeight(Prev(b), j) = GetBlockByHeight(b, j)
<1>1. Len(b) \in Nat /\ Len(b) - 1 \in 0..Len(b)
  BY BlockType DEF Heights
<1>2. Prev(b) = GetBlockByHeight(b, Len(b) - 1)
  BY DEF Prev, GetBlockByHeight
<1> QED
  BY <1>1, <1>2, AncestorType

LEMMA ScanNextCovers ==
    ASSUME ScanInv, QuietInv, ScanNext
    PROVE  QuietInv'
<1>1. PICK b : b = GetBlockByHeight(tip, cur.h)
  OBVIOUS
<1>2. b \in Block /\ Len(b) = cur.h
  <2>1. cur.h \in 0..Len(tip) /\ tip \in Block
    BY DEF ScanNext, ScanInv, TypeOK, HeadRecord
  <2> QED
    BY <1>1, <2>1, AncestorType
<1>3. /\ pc = "next" /\ pc' = "saveHead" /\ cur.hash = Prev(b)
      /\ head' = head /\ local' = local /\ api' = api
      /\ BatchExtract(b, Len(b))
      /\ lost' = lost /\ dropped' = dropped \ {b}
  BY <1>1, <1>2 DEF ScanNext, LinksTo
<1>4. cur'.hash = b /\ cur'.base = cur.base
  BY <1>1 DEF ScanNext, ScanInv, TypeOK, HeadRecord
<1>5. Kept /\ Answered(b)' /\ left'["crash"] = 0 /\ left'["call"] = 0
  BY <1>2, <1>3, BatchAnswers DEF Kept, QuietInv
<1>6. Linked(head.hash, head.base)'
  BY <1>3, <1>5, HeadKept DEF QuietInv
<1>7. PICK n \in -1..MaxHeight : n = cur.base
  BY DEF ScanInv, TypeOK, HeadRecord
<1>8. LinkedUpTo(b, n, Len(b) - 1)'
  <2>1. CASE b = << >>
    <3>1. (n + 1)..(Len(b) - 1) = {}
      BY <1>7, <2>1
    <3> QED
      BY <3>1 DEF LinkedUpTo
  <2>2. CASE b # << >>
    <3>1. /\ Prev(b) \in Block /\ Len(Prev(b)) = Len(b) - 1 /\ Len(b) \in Nat
          /\ \A j \in 0..(Len(b) - 1) : GetBlockByHeight(Prev(b), j) = GetBlockByHeight(b, j)
      BY <1>2, <2>2, BelowIt, LenType
    <3>2. LinkedUpTo(Prev(b), n, Len(b) - 1)
      BY <1>3, <1>7, <3>1 DEF QuietInv, Linked
    <3>3. LinkedUpTo(b, n, Len(b) - 1)
      BY <3>1, <3>2 DEF LinkedUpTo
    <3> QED
      BY <1>2, <1>5, <3>1, <3>3, KeptUpTo
  <2> QED
    BY <2>1, <2>2
<1>9. (LinkedUpTo(cur.hash, cur.base, Len(cur.hash) - 1) /\ Answered(cur.hash))'
  BY <1>4, <1>5, <1>7, <1>8 DEF LinkedUpTo, Answered
<1> QED
  BY <1>3, <1>5, <1>6, <1>9 DEF QuietInv

\* The local block is saved: the head is linked with the rest.
LEMMA SaveBlockCovers ==
    ASSUME ScanInv, QuietInv, SaveBlock
    PROVE  QuietInv'
<1>1. PICK b \in Block, n \in -1..MaxHeight : b = cur.hash /\ n = cur.base
  BY DEF SaveBlock, ScanInv, CurInv, AtBlock, TypeOK, HeadRecord
<1>2. /\ pc = "saveBlock" /\ pc' = "notify" /\ head = cur /\ head' = cur /\ cur' = cur
      /\ left' = left /\ api' = api
      /\ UNCHANGED <<unscan, delivered, skipped, owed, lost, dropped>>
      /\ local' = [local EXCEPT ![Len(b)] = b]
  BY <1>1 DEF SaveBlock, BlockKey, Height, QuietInv, ScanInv, CurInv, ghostVars
<1>3. Len(b) \in Heights /\ Len(b) \in Nat /\ local \in [Heights -> Block \union {NoHash}]
  BY LenType DEF ScanInv, TypeOK
<1>4. LinkedUpTo(b, n, Len(b) - 1) /\ Answered(b)
  BY <1>1, <1>2 DEF QuietInv
<1>5. LinkedUpTo(b, n, Len(b))'
  <2> SUFFICES ASSUME NEW j \in (n + 1)..Len(b)
               PROVE  local'[j] = GetBlockByHeight(b, j) /\ Answered(GetBlockByHeight(b, j))'
    BY DEF LinkedUpTo
  <2>1. CASE j = Len(b)
    <3>1. GetBlockByHeight(b, Len(b)) = b
      BY BlockType, SubSeqFull DEF GetBlockByHeight
    <3> QED
      BY <1>2, <1>3, <1>4, <2>1, <3>1 DEF Answered
  <2>2. CASE j # Len(b)
    <3>1. j \in (n + 1)..(Len(b) - 1) /\ j \in Heights
      BY <1>3, <2>2, ChainAssumption DEF ChainAssumption, Heights
    <3>2. local[j] = GetBlockByHeight(b, j) /\ Answered(GetBlockByHeight(b, j))
      BY <1>4, <3>1 DEF LinkedUpTo
    <3>3. local'[j] = local[j]
      BY <1>2, <1>3, <2>2, <3>1
    <3>4. Answered(GetBlockByHeight(b, j))'
      BY <1>2, <3>2 DEF Answered
    <3> QED
      BY <3>2, <3>3, <3>4
  <2> QED
    BY <2>1, <2>2
<1>6. Linked(cur.hash, cur.base)' /\ Linked(head.hash, head.base)'
  BY <1>1, <1>2, <1>5 DEF Linked, LinkedUpTo
<1> QED
  BY <1>2, <1>6 DEF QuietInv

\* A fork: the records of the height it drops were of blocks now in dropped.
LEMMA ForkDropCovers ==
    ASSUME ScanInv, QuietInv, ForkDrop
    PROVE  QuietInv'
<1>1. PICK gone : gone = Replaced(cur.h)
  OBVIOUS
<1>2. /\ pc = "next" /\ pc' = "forkBack"
      /\ UNCHANGED <<head, cur, local, left, api, delivered, skipped, owed, lost>>
      /\ unscan' = unscan \ {gone}
      /\ dropped' = dropped \union {b \in owed : Len(b) = gone}
  BY <1>1 DEF ForkDrop, Height
<1>3. Kept
  BY <1>2 DEF Kept, Answered
<1>4. Linked(head.hash, head.base)'
  BY <1>2, <1>3, HeadKept DEF QuietInv
<1>5. Linked(cur.hash, cur.base)'
  BY <1>2, <1>3, CurKept DEF QuietInv
<1> QED
  BY <1>2, <1>4, <1>5 DEF QuietInv

\* The retry pass: the records it deletes were of blocks delivered or now in lost.
LEMMA RetryCovers ==
    ASSUME ScanInv, QuietInv,
           RetryDrop \/ \E h \in todo : RetryFails(h) \/ RetryBatch(h)
    PROVE  QuietInv'
<1>1. /\ pc \in {"retrying", "retryDrop"} /\ pc' \in {"retrying", "retryDrop"}
      /\ UNCHANGED <<head, local, api>>
  BY DEF RetryDrop, RetryFails, RetryBatch
<1>2. Kept /\ left'["crash"] = 0 /\ left'["call"] = 0
  <2>1. CASE RetryDrop
    <3>1. PICK n : n = Len(blk)
      OBVIOUS
    <3>2. /\ UNCHANGED <<left, local, delivered, skipped, owed, dropped>>
          /\ unscan' = unscan \ {n}
          /\ lost' = lost \union {b \in owed : Len(b) = n}
      BY <2>1, <3>1 DEF RetryDrop, RecordKey, Height
    <3> QED
      BY <3>2 DEF Kept, Answered, QuietInv
  <2>2. ASSUME NEW h \in todo, RetryFails(h) \/ RetryBatch(h)
        PROVE  Kept /\ left'["crash"] = 0 /\ left'["call"] = 0
    <3>1. PICK b : b = GetBlockByHeight(tip, h)
      OBVIOUS
    <3>2. b \in Block /\ Len(b) = h
      <4>1. h \in 0..Len(tip) /\ tip \in Block
        BY <2>2, LenType DEF RetryFails, RetryBatch, ScanInv, TypeOK, Heights
      <4> QED
        BY <3>1, <4>1, AncestorType
    <3>3. BatchExtract(b, Len(b)) /\ lost' = lost /\ dropped' = dropped
      BY <2>2, <3>1, <3>2 DEF RetryFails, RetryBatch, BatchExtract
    <3> QED
      BY <1>1, <3>2, <3>3, BatchAnswers DEF Kept, QuietInv
  <2> QED
    BY <2>1, <2>2
<1>3. Linked(head.hash, head.base)'
  BY <1>1, <1>2, HeadKept DEF QuietInv
<1> QED
  BY <1>1, <1>2, <1>3 DEF QuietInv

-------------------------------------------------------------------------------
(* Rolling back.                                                           *)

\* Where a rollback goes: below the block the task was to continue from.
LEMMA BackType ==
    ASSUME ScanInv, pc = "forkBack"
    PROVE  /\ cur.hash \in Block
           /\ BackTo(cur.h) \in Heights /\ BackTo(cur.h) \in 0..Len(cur.hash)
           /\ cur.base \in -1..MaxHeight
<1>1. cur.h \in 2..MaxHeight /\ cur.hash \in Block /\ cur.h = Len(cur.hash) + 1
  BY DEF ScanInv, CurInv
<1>2. cur.h - 2 \in 0..(Uint32Mod - 1)
  BY <1>1, ChainAssumption DEF ChainAssumption
<1>3. BackTo(cur.h) = IF cur.h - 2 = 0 THEN 1 ELSE cur.h - 2
  BY <1>2, Uint32Small DEF BackTo
<1>4. Len(cur.hash) \in Nat
  BY <1>1, LenType
<1> QED
  BY <1>1, <1>3, <1>4, ChainAssumption DEF Heights, ChainAssumption, ScanInv, TypeOK,
     HeadRecord

\* The local block rolled back to is an ancestor, or nothing is claimed from it.
LEMMA ForkBackLocalCovers ==
    ASSUME ScanInv, QuietInv, ForkBackLocal
    PROVE  QuietInv'
<1>1. PICK h \in Heights, c \in Block, n \in -1..MaxHeight :
          h = BackTo(cur.h) /\ h \in 0..Len(c) /\ c = cur.hash /\ n = cur.base
  BY BackType DEF ForkBackLocal
<1>2. PICK b \in Block : b = local[h] /\ Len(b) = h
  BY <1>1 DEF ForkBackLocal, ScanInv, TypeOK, LocalInv
<1>3. /\ pc = "forkBack" /\ pc' = "forkSave"
      /\ UNCHANGED <<local, unscan, delivered, skipped, owed, lost, dropped, head, left, api>>
      /\ cur'.hash = b /\ cur'.base = IF h < n THEN h ELSE n
  BY <1>1, <1>2 DEF ForkBackLocal, LowerBase, daiVars
<1>4. h \in Nat /\ n \in Int
  BY <1>1 DEF Heights
<1>5. LinkedUpTo(b, IF h < n THEN h ELSE n, Len(b))
  <2>1. CASE h <= n
    <3>1. ((IF h < n THEN h ELSE n) + 1)..h = {}
      BY <1>4, <2>1
    <3> QED
      BY <1>2, <3>1 DEF LinkedUpTo
  <2>2. CASE n < h
    <3>1. LinkedUpTo(c, n, Len(c))
      BY <1>1, <1>3 DEF QuietInv, Linked
    <3>2. h \in (n + 1)..Len(c) /\ Len(c) \in Nat
      BY <1>1, <1>4, <2>2, LenType
    <3>3. b = GetBlockByHeight(c, h)
      BY <1>2, <3>1, <3>2 DEF LinkedUpTo
    <3>4. \A j \in (n + 1)..h : GetBlockByHeight(b, j) = GetBlockByHeight(c, j)
      BY <1>1, <1>4, <3>3, AncestorType
    <3>5. \A j \in (n + 1)..h : j \in (n + 1)..Len(c)
      BY <1>4, <3>2
    <3>6. LinkedUpTo(b, n, h)
      BY <3>1, <3>4, <3>5 DEF LinkedUpTo
    <3> QED
      BY <1>2, <1>4, <2>2, <3>6
  <2> QED
    BY <1>4, <2>1, <2>2
<1>6. Linked(cur.hash, cur.base)'
  BY <1>3, <1>5 DEF Linked, LinkedUpTo, Answered
<1>7. Linked(head.hash, head.base)'
  BY <1>3, SameKept, HeadKept DEF QuietInv
<1> QED
  BY <1>3, <1>6, <1>7 DEF QuietInv

\* A height with no local block is not above the base.
LEMMA ForkBackNodeCovers ==
    ASSUME ScanInv, QuietInv, ForkBackNode
    PROVE  QuietInv'
<1>1. PICK h \in Heights, c \in Block, n \in -1..MaxHeight :
          h = BackTo(cur.h) /\ h \in 0..Len(c) /\ c = cur.hash /\ n = cur.base
  BY BackType DEF ForkBackNode
<1>2. PICK b : b = GetBlockByHeight(tip, h)
  OBVIOUS
<1>3. /\ pc = "forkBack" /\ pc' = "forkSave" /\ local[h] = NoHash /\ h <= Len(tip)
      /\ UNCHANGED <<local, unscan, delivered, skipped, owed, lost, dropped, head, left, api>>
      /\ cur'.hash = b /\ cur'.base = IF h < n THEN h ELSE n
  BY <1>1, <1>2 DEF ForkBackNode, LowerBase, daiVars
<1>4. h \in Nat /\ n \in Int /\ Len(c) \in Nat
  BY <1>1, LenType DEF Heights
<1>5. h <= n
  <2> SUFFICES ASSUME n < h PROVE FALSE
    BY <1>4
  <2>1. h \in (n + 1)..Len(c)
    BY <1>1, <1>4
  <2>2. local[h] = GetBlockByHeight(c, h)
    BY <1>1, <1>3, <2>1 DEF QuietInv, Linked, LinkedUpTo
  <2> QED
    BY <1>1, <1>3, <2>2, AncestorType, Nothing
<1>6. Len(b) = h
  BY <1>2, <1>3, <1>4, AncestorType DEF ScanInv, TypeOK
<1>7. ((IF h < n THEN h ELSE n) + 1)..h = {}
  BY <1>4, <1>5
<1>8. Linked(cur.hash, cur.base)'
  BY <1>3, <1>6, <1>7 DEF Linked, LinkedUpTo
<1>9. Linked(head.hash, head.base)'
  BY <1>3, SameKept, HeadKept DEF QuietInv
<1> QED
  BY <1>3, <1>8, <1>9 DEF QuietInv

-------------------------------------------------------------------------------
(* Every step preserves the invariant.                                     *)

LEMMA QuietPreserves ==
    ASSUME ScanInv, QuietInv, [Next]_vars
    PROVE  QuietInv'
<1>1. CASE Task
  <2>1. \/ Passing \/ OriginBlock \/ ScanNext \/ SaveHead \/ SaveBlock
        \/ ForkDrop \/ ForkBackLocal \/ ForkBackNode \/ ForkSave
        \/ RetryDrop \/ \E h \in todo : RetryFails(h) \/ RetryBatch(h)
    BY <1>1 DEF Task, Passing
  <2> QED
    BY <2>1, PassingCovers, OriginBlockCovers, ScanNextCovers, SaveHeadCovers,
       SaveBlockCovers, ForkDropCovers, ForkBackLocalCovers, ForkBackNodeCovers,
       ForkSaveCovers, RetryCovers
<1>2. ~Api
  BY DEF Api, SetRescanRead, SetRescanSave, ScanBlockFails, ScanBlock, ScanBlockNotify,
     Spend,
         QuietInv, NoCall
<1>3. ~Crash
  BY DEF Crash, Spend, QuietInv
<1>4. CASE Run \/ Stop \/ Grow \/ Reorg \/ UNCHANGED vars
  BY <1>4, EnvironmentCovers
<1> QED
  BY <1>1, <1>2, <1>3, <1>4 DEF Next

LEMMA QuietEstablishes ==
    ASSUME Init, Budget["crash"] = 0, Budget["call"] = 0
    PROVE  QuietInv
BY Nothing DEF Init, QuietInv, Linked, NoHead

LEMMA QuietRecorded ==
    ASSUME ScanInv, QuietInv
    PROVE  Recorded
<1> SUFFICES ASSUME head.h # 0, NEW i \in (head.base + 1)..head.h
             PROVE  \/ GetBlockByHeight(head.hash, i) \in delivered \union skipped \union lost \union dropped
                    \/ Len(GetBlockByHeight(head.hash, i)) \in unscan
  BY DEF Recorded, Missed, Claimed, Height
<1>1. PICK b \in Block, n \in -1..MaxHeight : b = head.hash /\ n = head.base /\ head.h = Len(b)
  BY DEF ScanInv, HeadIsABlock, TypeOK, HeadRecord, Height
<1>2. Answered(GetBlockByHeight(b, i))
  <2>1. CASE pc # "saveBlock"
    BY <1>1, <2>1 DEF QuietInv, Linked, LinkedUpTo
  <2>2. CASE pc = "saveBlock" /\ i # Len(b)
    <3>1. i \in (n + 1)..(Len(b) - 1)
      BY <1>1, <2>2, LenType
    <3>2. LinkedUpTo(b, n, Len(b) - 1)
      BY <1>1, <2>2 DEF QuietInv
    <3> QED
      BY <3>1, <3>2 DEF LinkedUpTo
  <2>3. CASE pc = "saveBlock" /\ i = Len(b)
    <3>1. GetBlockByHeight(b, Len(b)) = b
      BY BlockType, SubSeqFull DEF GetBlockByHeight
    <3> QED
      BY <1>1, <2>3, <3>1 DEF QuietInv
  <2> QED
    BY <2>1, <2>2, <2>3
<1> QED
  BY <1>1, <1>2 DEF Answered

\* Without crashes and calls, each block the head claims was delivered, or is on record,
\* or left a transaction out, or failed and had its record deleted (vas/blockscaner.go:
\* ScanBlockTask, BatchExtractTransaction, RescanFailedRecord).
THEOREM RecordsEverything ==
    ASSUME Budget["crash"] = 0, Budget["call"] = 0
    PROVE  Spec => []Recorded
<1>1. Init => QuietInv
  BY QuietEstablishes
<1>2. ScanInv /\ QuietInv /\ [Next]_vars => QuietInv'
  BY QuietPreserves
<1>3. ScanInv /\ QuietInv => Recorded
  BY QuietRecorded
<1> QED
  BY <1>1, <1>2, <1>3, ScanInvariant, PTL DEF Spec

\* The steps that touch neither what was received nor the records.
Still ==
    \/ TaskStart \/ OriginHeight \/ OriginBlock \/ OriginPanic \/ LoopStopped \/ LoopBreak
    \/ LoopNext \/ FetchBreak \/ SaveHead \/ SaveBlock \/ NewBlockNotify \/ ForkBackBreak
    \/ ForkSave \/ ForkNotify \/ RetryList \/ RetryEnd \/ (\E h \in todo : RetrySkip(h))
    \/ SetRescanSave \/ ScanBlockNotify \/ (\E h \in 0..Len(tip) : SetRescanRead(h + 1))
    \/ Run \/ Stop \/ Grow \/ Reorg \/ Crash \/ UNCHANGED vars

LEMMA NextIs ==
    ASSUME [Next]_vars
    PROVE  \/ Still \/ ForkDrop \/ RetryDrop
           \/ \E h \in todo : RetryFails(h) \/ RetryBatch(h)
           \/ \E h \in 0..Len(tip) : ScanBlockFails(h) \/ ScanBlock(h)
           \/ ScanNext \/ ForkBackLocal \/ ForkBackNode
BY DEF Next, Task, Api, Still

\* Transactions are left out only when an input could not be looked up.
WholeInv == left["input"] = 0 /\ skipped = {}

LEMMA WholePreserves ==
    ASSUME ScanInv, WholeInv, [Next]_vars
    PROVE  WholeInv'
<1>1. left \in [Kinds -> Nat] /\ "input" \in Kinds
  BY DEF ScanInv, TypeOK, Kinds
<1>2. CASE UNCHANGED skipped /\ (left' = left \/ \E kind \in Kinds \ {"input"} : Spend(kind))
  BY <1>1, <1>2 DEF WholeInv, Spend
<1>3. ASSUME NEW b, NEW h, BatchExtract(b, h)
      PROVE  WholeInv'
  <2>1. ~InputFails(b)
    BY DEF WholeInv, InputFails, Spend
  <2>2. CASE ExtractSucceeds(b)
    BY <2>2 DEF ExtractSucceeds, AllDelivered, WholeInv
  <2>3. CASE ExtractFails(b, h) \/ NotifyFails(b, h)
    BY <1>1, <2>3 DEF ExtractFails, NotifyFails, OnRecord, WholeInv, Spend
  <2> QED
    BY <1>3, <2>1, <2>2, <2>3 DEF BatchExtract, BatchReturnsNil
<1>4. CASE \E h \in 0..Len(tip) : ScanBlockFails(h) \/ ScanBlock(h)
  BY <1>1, <1>4 DEF ScanBlockFails, ScanBlock, AllDelivered, OnRecord, WholeInv
<1>5. CASE ScanNext \/ \E h \in todo : RetryFails(h) \/ RetryBatch(h)
  BY <1>3, <1>5 DEF ScanNext, RetryFails, RetryBatch, BatchExtract
<1>6. CASE Still \/ ForkDrop \/ RetryDrop \/ ForkBackLocal \/ ForkBackNode
  <2>1. UNCHANGED skipped
    BY <1>6 DEF Still, TaskStart, OriginHeight, OriginBlock, OriginPanic, LoopStopped,
       LoopBreak, LoopNext, FetchBreak, SaveHead, SaveBlock, NewBlockNotify, ForkBackBreak,
       ForkSave, ForkNotify, RetryList, RetryEnd, RetrySkip, SetRescanSave, ScanBlockNotify,
       SetRescanRead, Run, Stop, Grow, Reorg, Crash, vars, ghostVars, ForkDrop, RetryDrop,
       ForkBackLocal, ForkBackNode
  <2>2. left' = left \/ \E kind \in {"rpc", "stop", "reorg", "crash", "call"} : Spend(kind)
    BY <1>6 DEF Still, TaskStart, OriginHeight, OriginBlock, OriginPanic, LoopStopped,
       LoopBreak, LoopNext, FetchBreak, SaveHead, SaveBlock, NewBlockNotify, ForkBackBreak,
       ForkSave, ForkNotify, RetryList, RetryEnd, RetrySkip, SetRescanSave, ScanBlockNotify,
       SetRescanRead, Run, Stop, Grow, Reorg, Crash, vars, ForkDrop, RetryDrop,
       ForkBackLocal, ForkBackNode
  <2> QED
    BY <1>2, <2>1, <2>2 DEF Kinds
<1> QED
  BY <1>4, <1>5, <1>6, NextIs

\* As long as every input can be looked up, and without crashes and calls, the only
\* blocks passed over are those that failed and had their record deleted
\* (vas/blockscaner.go: extractTransaction, whose look-ups of inputs alone give a success
\* without data).
THEOREM NothingLeftOut ==
    ASSUME Budget["crash"] = 0, Budget["call"] = 0, Budget["input"] = 0
    PROVE  Spec => [](\A b \in Claimed : Missed(b) => b \in lost \union dropped)
<1>1. Init => WholeInv
  BY DEF Init, WholeInv
<1>2. ScanInv /\ WholeInv /\ [Next]_vars => WholeInv'
  BY WholePreserves
<1>3. WholeInv /\ Recorded => \A b \in Claimed : Missed(b) => b \in lost \union dropped
  BY DEF WholeInv, Recorded
<1> QED
  BY <1>1, <1>2, <1>3, ScanInvariant, RecordsEverything, PTL DEF Spec

-------------------------------------------------------------------------------
(* What the observers hold.                                                *)

\* Each block announced is the local one of its height, and none is above the head
\* or the block the task continues from, but for the one a rollback has replaced,
\* until it is announced as a fork.
Shown(b) ==
    /\ local[Len(b)] = b
    /\ Len(b) # 0 =>
          /\ Len(b) <= head.h \/ (pc = "forkNotify" /\ b = forkBlk)
          /\ pc \in {"loop", "notify"} => Len(b) <= cur.h
          /\ pc \in {"next", "saveHead", "saveBlock"} => Len(b) < cur.h
          /\ pc = "forkBack" => Len(b) <= BackTo(cur.h) \/ b = forkBlk
          /\ pc \in {"forkSave", "forkNotify"} => Len(b) <= cur.h \/ b = forkBlk

AnnInv ==
    /\ \A b \in announced : Shown(b)
    /\ pc = "notify" => local[Len(blk)] = blk /\ Len(blk) <= head.h
    /\ pc \in {"origin", "originBlock"} => head.h = 0
    /\ pc \in {"loop", "next"} /\ cur.hash = NoHash => head.h = 0

\* What the node and the operator do, and the retry pass.
LEMMA RestShows ==
    ASSUME ScanInv, AnnInv, UNCHANGED <<head, local, announced>>,
           \/ UNCHANGED <<pc, cur, blk, forkBlk>>
           \/ pc' \in {"idle", "retry", "retrying", "retryDrop"} /\ pc # "forkNotify"
    PROVE  AnnInv'
BY DEF AnnInv, Shown, ScanInv, CurInv, AtBlock

\* The task from its start to the next block, and back.
LEMMA StepShows ==
    ASSUME ScanInv, AnnInv, TaskStart \/ OriginHeight \/ OriginBlock \/ LoopNext \/ ScanNext
    PROVE  AnnInv'
<1>1. UNCHANGED <<head, local, announced>>
  BY DEF TaskStart, OriginHeight, OriginBlock, LoopNext, ScanNext, daiVars, ghostVars
<1>2. \A b \in announced : Len(b) \in Nat
  BY LenType DEF ScanInv, TypeOK
<1>3. head.h \in Nat /\ cur.h \in Nat /\ Uint32Mod - 1 \in Nat
  BY ChainAssumption DEF ScanInv, TypeOK, HeadRecord, ChainAssumption
<1>4. CASE TaskStart
  <2>1. head.h # 0 => head.hash # NoHash
    BY <1>3 DEF ScanInv, HeadIsABlock
  <2> QED
    BY <1>1, <1>3, <1>4, <2>1 DEF TaskStart, AnnInv, Shown
<1>5. CASE OriginHeight
  BY <1>1, <1>5 DEF OriginHeight, AnnInv, Shown
<1>6. CASE OriginBlock
  <2>1. head.h = 0 /\ pc # "forkNotify" /\ pc' = "loop"
    BY <1>6 DEF OriginBlock, AnnInv
  <2>2. \A b \in announced : Len(b) = 0
    BY <1>2, <2>1 DEF AnnInv, Shown
  <2> QED
    BY <1>1, <2>1, <2>2 DEF AnnInv, Shown
<1>7. CASE LoopNext
  <2>1. pc = "loop" /\ pc' = "next" /\ cur'.hash = cur.hash /\ cur'.h = Uint32(cur.h + 1)
    BY <1>7 DEF LoopNext, ScanInv, TypeOK, HeadRecord
  <2>2. CASE AtBlock(cur)
    <3>1. cur.h + 1 \in 0..(Uint32Mod - 1)
      BY <2>2, LenType, ChainAssumption DEF AtBlock, Heights, ChainAssumption
    <3>2. cur'.h = cur.h + 1
      BY <2>1, <3>1, Uint32Small
    <3> QED
      BY <1>1, <1>2, <1>3, <2>1, <3>2 DEF AnnInv, Shown
  <2>3. CASE cur.hash = NoHash
    <3>1. head.h = 0
      BY <2>1, <2>3 DEF AnnInv
    <3>2. \A b \in announced : Len(b) = 0
      BY <1>2, <2>1, <3>1 DEF AnnInv, Shown
    <3> QED
      BY <1>1, <2>1, <3>1, <3>2 DEF AnnInv, Shown
  <2> QED
    BY <2>1, <2>2, <2>3 DEF ScanInv, CurInv
<1>8. CASE ScanNext
  BY <1>1, <1>8 DEF ScanNext, AnnInv, Shown, ScanInv, TypeOK, HeadRecord
<1> QED
  BY <1>4, <1>5, <1>6, <1>7, <1>8

\* The block is saved and announced.
LEMMA SaveShows ==
    ASSUME ScanInv, QuietInv, AnnInv, SaveHead \/ SaveBlock \/ NewBlockNotify
    PROVE  AnnInv'
<1>1. \A b \in announced : b \in Block /\ Len(b) \in Nat /\ Len(b) \in Heights
  BY LenType DEF ScanInv, TypeOK
<1>2. head.h \in Nat /\ cur.h \in Nat
  BY DEF ScanInv, TypeOK, HeadRecord
<1>3. blk \in Block /\ blk = cur.hash /\ cur.h = Len(blk) /\ Len(blk) \in Heights /\ Len(blk) \in Nat
  BY LenType DEF ScanInv, CurInv, AtBlock, SaveHead, SaveBlock, NewBlockNotify
<1>4. CASE SaveHead
  BY <1>1, <1>2, <1>4 DEF SaveHead, ghostVars, AnnInv, Shown
<1>5. CASE SaveBlock
  <2>1. /\ pc = "saveBlock" /\ pc' = "notify" /\ UNCHANGED <<head, cur, blk, announced>>
        /\ local' = [local EXCEPT ![Len(blk)] = blk]
    BY <1>5 DEF SaveBlock, ghostVars, BlockKey, Height
  <2>2. local \in [Heights -> Block \union {NoHash}]
    BY DEF ScanInv, TypeOK
  <2>3. local'[Len(blk)] = blk /\ \A h \in Heights : h # Len(blk) => local'[h] = local[h]
    BY <1>3, <2>1, <2>2
  <2>4. head = cur
    BY <2>1 DEF QuietInv
  <2>5. ASSUME NEW b \in announced PROVE Shown(b)'
    <3>1. CASE Len(b) # 0
      <4>1. Len(b) < cur.h
        BY <2>1, <3>1 DEF AnnInv, Shown
      <4>2. local'[Len(b)] = b
        BY <1>1, <1>3, <2>3, <4>1 DEF AnnInv, Shown
      <4> QED
        BY <1>1, <1>2, <2>1, <2>4, <4>1, <4>2 DEF Shown
    <3>2. CASE Len(b) = 0 /\ Len(blk) # 0
      BY <1>1, <2>1, <2>3, <3>2 DEF AnnInv, Shown
    <3>3. CASE Len(b) = 0 /\ Len(blk) = 0
      <4>1. b = << >> /\ blk = << >>
        BY <1>1, <1>3, <3>3, BlockType, EmptySeq
      <4> QED
        BY <2>3, <3>3, <4>1 DEF Shown
    <3> QED
      BY <3>1, <3>2, <3>3
  <2> QED
    BY <1>2, <1>3, <2>1, <2>3, <2>4, <2>5 DEF AnnInv
<1>6. CASE NewBlockNotify
  <2>1. /\ pc = "notify" /\ pc' = "loop" /\ announced' = announced \union {blk}
        /\ UNCHANGED <<head, local, cur>>
    BY <1>6 DEF NewBlockNotify, daiVars
  <2>2. ASSUME NEW b \in announced' PROVE Shown(b)'
    BY <1>2, <1>3, <2>1 DEF AnnInv, Shown
  <2>3. cur'.hash # NoHash
    BY <1>3, <2>1, Nothing
  <2> QED
    BY <2>1, <2>2, <2>3 DEF AnnInv
<1> QED
  BY <1>4, <1>5, <1>6

\* A rollback: the replaced block is the only one above where it goes.
LEMMA ForkShows ==
    ASSUME ScanInv, AnnInv,
           ForkDrop \/ ForkBackLocal \/ ForkBackNode \/ ForkSave \/ ForkNotify
    PROVE  AnnInv'
<1>1. \A b \in announced : Len(b) \in Nat
  BY LenType DEF ScanInv, TypeOK
<1>2. head.h \in Nat /\ cur.h \in Nat
  BY DEF ScanInv, TypeOK, HeadRecord
<1>3. CASE ForkDrop
  <2>1. /\ pc = "next" /\ pc' = "forkBack" /\ UNCHANGED <<head, local, cur, blk, announced>>
        /\ forkBlk' = local[cur.h - 1]
    BY <1>3 DEF ForkDrop, Replaced
  <2>2. BackTo(cur.h) = IF cur.h = 2 THEN 1 ELSE cur.h - 2
    <3>1. cur.h \in 2..MaxHeight
      BY <1>3, ForkDropStep, <2>1 DEF ScanInv, CurInv
    <3>2. cur.h - 2 \in 0..(Uint32Mod - 1)
      BY <3>1, ChainAssumption DEF ChainAssumption
    <3> QED
      BY <3>1, <3>2, Uint32Small DEF BackTo
  <2>3. ASSUME NEW b \in announced PROVE Shown(b)'
    <3>1. CASE Len(b) = 0
      BY <2>1, <3>1 DEF AnnInv, Shown
    <3>2. CASE Len(b) # 0
      <4>1. Len(b) < cur.h /\ local[Len(b)] = b /\ Len(b) <= head.h
        BY <2>1, <3>2 DEF AnnInv, Shown
      <4>2. Len(b) = cur.h - 1 => b = forkBlk'
        BY <2>1, <4>1
      <4>3. Len(b) <= BackTo(cur.h) \/ Len(b) = cur.h - 1
        BY <1>1, <1>2, <2>2, <4>1
      <4> QED
        BY <2>1, <4>1, <4>2, <4>3 DEF Shown, BackTo
    <3> QED
      BY <3>1, <3>2
  <2> QED
    BY <2>1, <2>3 DEF AnnInv
<1>4. CASE ForkBackLocal \/ ForkBackNode
  <2>1. /\ pc = "forkBack" /\ pc' = "forkSave" /\ cur'.h = BackTo(cur.h)
        /\ UNCHANGED <<head, local, blk, forkBlk, announced>>
    BY <1>4 DEF ForkBackLocal, ForkBackNode, daiVars
  <2> QED
    BY <2>1 DEF AnnInv, Shown
<1>5. CASE ForkSave
  BY <1>5 DEF ForkSave, ghostVars, AnnInv, Shown
<1>6. CASE ForkNotify
  <2>1. /\ pc = "forkNotify" /\ pc' = "loop" /\ announced' = announced \ {forkBlk}
        /\ UNCHANGED <<head, local, cur, blk>>
    BY <1>6 DEF ForkNotify, daiVars
  <2>2. cur.hash # NoHash
    BY <2>1, Nothing DEF ScanInv, CurInv, AtBlock
  <2> QED
    BY <2>1, <2>2 DEF AnnInv, Shown
<1> QED
  BY <1>3, <1>4, <1>5, <1>6

LEMMA AnnPreserves ==
    ASSUME ScanInv, QuietInv, AnnInv, [Next]_vars
    PROVE  AnnInv'
<1>1. ~Api
  BY DEF Api, SetRescanRead, SetRescanSave, ScanBlockFails, ScanBlock, ScanBlockNotify,
     Spend, QuietInv, NoCall
<1>2. ~Crash
  BY DEF Crash, Spend, QuietInv
<1>3. CASE Run \/ Stop \/ Grow \/ Reorg \/ UNCHANGED vars
  <2>1. UNCHANGED <<head, local, announced, pc, cur, blk, forkBlk>>
    BY <1>3 DEF Run, Stop, Grow, Reorg, vars, daiVars, taskVars, ghostVars
  <2> QED
    BY <2>1, RestShows
<1>4. CASE \/ OriginPanic \/ LoopStopped \/ LoopBreak \/ FetchBreak \/ ForkBackBreak
           \/ RetryList \/ RetryEnd \/ RetryDrop
           \/ \E h \in todo : RetrySkip(h) \/ RetryFails(h) \/ RetryBatch(h)
  <2>1. /\ UNCHANGED <<head, local, announced>>
        /\ pc' \in {"idle", "retry", "retrying", "retryDrop"} /\ pc # "forkNotify"
    BY <1>4 DEF OriginPanic, LoopStopped, LoopBreak, FetchBreak, ForkBackBreak, RetryList,
       RetryEnd, RetryDrop, RetrySkip, RetryFails, RetryBatch, Restart, Return, Break,
       daiVars, ghostVars
  <2> QED
    BY <2>1, RestShows
<1> QED
  BY <1>1, <1>2, <1>3, <1>4, StepShows, SaveShows, ForkShows DEF Next, Task

\* Without crashes and calls the observers never hold two blocks of one height, however
\* often the chain forks and whatever else goes wrong meanwhile.
THEOREM OneBlockAnnounced ==
    ASSUME Budget["crash"] = 0, Budget["call"] = 0
    PROVE  Spec => []NoTwoAnnounced
<1>1. Init => QuietInv /\ AnnInv
  BY QuietEstablishes DEF Init, AnnInv
<1>2. ScanInv /\ QuietInv /\ [Next]_vars => QuietInv'
  BY QuietPreserves
<1>3. ScanInv /\ QuietInv /\ AnnInv /\ [Next]_vars => AnnInv'
  BY AnnPreserves
<1>4. AnnInv => NoTwoAnnounced
  <2> SUFFICES ASSUME AnnInv, NEW b \in announced, NEW c \in announced, Height(b) = Height(c)
               PROVE  b = c
    BY DEF NoTwoAnnounced
  <2>1. local[Len(b)] = b /\ local[Len(c)] = c
    BY DEF AnnInv, Shown
  <2> QED
    BY <2>1 DEF Height
<1> QED
  BY <1>1, <1>2, <1>3, <1>4, ScanInvariant, PTL DEF Spec

-------------------------------------------------------------------------------
(* Crashes and calls: what is below a block a rollback adopted is excepted,  *)
(* and no local block need be where the head's chain has it.               *)

Excused(b) == Answered(b) \/ \E a \in adopted : OnChain(b, a)

Claims(b, n) ==
    b \in Block => \A j \in (n + 1)..Len(b) : Excused(GetBlockByHeight(b, j))

\* The head, and the block the task continues from, claim nothing else.
ClaimInv == Claims(head.hash, head.base) /\ Claims(cur.hash, cur.base)

Lasting == \A b \in Block : Excused(b) => Excused(b)'

LEMMA ClaimsLast ==
    ASSUME Lasting, NEW b \in Block \union {NoHash}, NEW n \in -1..MaxHeight, Claims(b, n)
    PROVE  Claims(b, n)'
<1> SUFFICES ASSUME b \in Block, NEW j \in (n + 1)..Len(b)
             PROVE  Excused(GetBlockByHeight(b, j))'
  BY DEF Claims
<1>1. GetBlockByHeight(b, j) \in Block
  BY LenType, AncestorType
<1> QED
  BY <1>1 DEF Claims, Lasting

\* It is kept by a step that moves neither, or moves one to the other or to
\* something that claims nothing.
LEMMA ClaimsKept ==
    ASSUME ScanInv, ClaimInv, Lasting,
           \/ head'.hash = head.hash /\ head'.base = head.base
           \/ head' = cur
           \/ head'.base = Len(head'.hash),
           \/ cur'.hash = cur.hash /\ cur'.base = cur.base
           \/ cur' = head
           \/ cur'.hash = NoHash
           \/ cur'.base = Len(cur'.hash)
    PROVE  ClaimInv'
<1>1. PICK b \in Block \union {NoHash}, n \in -1..MaxHeight : b = head.hash /\ n = head.base
  BY DEF ScanInv, TypeOK, HeadRecord
<1>2. PICK c \in Block \union {NoHash}, m \in -1..MaxHeight : c = cur.hash /\ m = cur.base
  BY DEF ScanInv, TypeOK, HeadRecord
<1>3. Claims(b, n)' /\ Claims(c, m)'
  BY <1>1, <1>2, ClaimsLast DEF ClaimInv
<1>4. \A x, k : x \in Block /\ k = Len(x) => Claims(x, k)'
  <2> SUFFICES ASSUME NEW x \in Block
               PROVE  (Len(x) + 1)..Len(x) = {}
    BY DEF Claims
  <2> QED
    BY LenType
<1>5. Claims(head.hash, head.base)'
  BY <1>1, <1>2, <1>3, <1>4 DEF Claims
<1>6. Claims(cur.hash, cur.base)'
  BY <1>1, <1>2, <1>3, <1>4, Nothing DEF Claims
<1> QED
  BY <1>5, <1>6 DEF ClaimInv

LEMMA StillClaims ==
    ASSUME ScanInv, ClaimInv, Still
    PROVE  ClaimInv'
<1>1. UNCHANGED <<unscan, delivered, skipped, owed, lost, dropped, adopted>>
  BY DEF Still, TaskStart, OriginHeight, OriginBlock, OriginPanic, LoopStopped, LoopBreak,
         LoopNext, FetchBreak, SaveHead, SaveBlock, NewBlockNotify, ForkBackBreak, ForkSave,
         ForkNotify, RetryList, RetryEnd, RetrySkip, SetRescanSave, ScanBlockNotify,
         SetRescanRead, Run, Stop, Grow, Reorg, Crash, vars, daiVars, ghostVars
<1>2. Lasting
  BY <1>1 DEF Lasting, Excused, Answered
<1>3. \/ head'.hash = head.hash /\ head'.base = head.base
      \/ head' = cur
      \/ head'.base = Len(head'.hash)
  BY DEF Still, TaskStart, OriginHeight, OriginBlock, OriginPanic, LoopStopped, LoopBreak,
         LoopNext, FetchBreak, SaveHead, SaveBlock, NewBlockNotify, ForkBackBreak, ForkSave,
         ForkNotify, RetryList, RetryEnd, RetrySkip, SetRescanSave, ScanBlockNotify,
         SetRescanRead, Run, Stop, Grow, Reorg, Crash, vars, daiVars, Height
<1>4. \/ cur'.hash = cur.hash /\ cur'.base = cur.base
      \/ cur' = head
      \/ cur'.hash = NoHash
      \/ cur'.base = Len(cur'.hash)
  <2>1. CASE OriginBlock
    <3>1. PICK b : b = GetBlockByHeight(tip, Uint32(cur.h - 1))
      OBVIOUS
    <3>2. b \in Block
      <4>1. Uint32(cur.h - 1) \in 0..Len(tip)
        BY <2>1, Uint32Type, LenType DEF OriginBlock, ScanInv, TypeOK, HeadRecord
      <4> QED
        BY <3>1, <4>1, AncestorType DEF ScanInv, TypeOK
    <3>3. cur'.hash = Prev(b) /\ cur'.base = Len(b) - 1
      BY <2>1, <3>1 DEF OriginBlock, Height
    <3> QED
      BY <3>2, <3>3, BelowIt DEF Prev
  <2>2. CASE ~OriginBlock
    BY <2>2 DEF Still, TaskStart, OriginHeight, OriginPanic, LoopStopped, LoopBreak,
           LoopNext, FetchBreak, SaveHead, SaveBlock, NewBlockNotify, ForkBackBreak, ForkSave,
           ForkNotify, RetryList, RetryEnd, RetrySkip, SetRescanSave, ScanBlockNotify,
           SetRescanRead, Run, Stop, Grow, Reorg, Crash, vars, taskVars, Restart, Return,
           Break, NoHead, ScanInv, TypeOK, HeadRecord
  <2> QED
    BY <2>1, <2>2
<1> QED
  BY <1>2, <1>3, <1>4, ClaimsKept

\* The records a fork or the retry pass deletes were of blocks now dropped or lost.
LEMMA DropClaims ==
    ASSUME ScanInv, ClaimInv, ForkDrop \/ RetryDrop
    PROVE  ClaimInv'
<1>1. UNCHANGED <<head, cur, delivered, skipped, owed, adopted>>
  BY DEF ForkDrop, RetryDrop
<1>2. PICK n : /\ unscan' = unscan \ {n}
               /\ lost' \union dropped' = lost \union dropped \union {b \in owed : Len(b) = n}
  <2>1. CASE ForkDrop
    <3>1. PICK n : n = Replaced(cur.h)
      OBVIOUS
    <3> QED
      BY <2>1, <3>1 DEF ForkDrop, Height
  <2>2. CASE RetryDrop
    <3>1. PICK n : n = Len(blk)
      OBVIOUS
    <3> QED
      BY <2>2, <3>1 DEF RetryDrop, RecordKey, Height
  <2> QED
    BY <2>1, <2>2
<1>3. Lasting
  BY <1>1, <1>2 DEF Lasting, Excused, Answered
<1> QED
  BY <1>1, <1>3, ClaimsKept

\* What a batch of block b does, whoever runs it.
Batched(b) ==
    /\ lost' = lost /\ adopted' = adopted
    /\ dropped' = dropped \/ (dropped' = dropped \ {b})
    /\ BatchEffect(b, Len(b))

LEMMA BatchLasts ==
    ASSUME NEW b \in Block, Batched(b)
    PROVE  Lasting /\ Excused(b)'
<1>1. Answered(b)'
  BY DEF Batched, BatchEffect, AllDelivered, LeftOut, OnRecord, RecordUnscan, Answered
<1>2. ASSUME NEW c \in Block, Answered(c), c # b PROVE Answered(c)'
  BY <1>2 DEF Batched, BatchEffect, AllDelivered, LeftOut, OnRecord, RecordUnscan, Answered
<1> QED
  BY <1>1, <1>2 DEF Lasting, Excused, Batched

LEMMA BatchClaims ==
    ASSUME ScanInv, ClaimInv,
           \/ \E h \in todo : RetryFails(h) \/ RetryBatch(h)
           \/ \E h \in 0..Len(tip) : ScanBlockFails(h) \/ ScanBlock(h)
    PROVE  ClaimInv'
<1>1. UNCHANGED <<head, cur>>
  BY DEF RetryFails, RetryBatch, ScanBlockFails, ScanBlock, taskVars
<1>2. PICK b \in Block : Batched(b)
  <2>1. ASSUME NEW h \in 0..Len(tip),
               RetryFails(h) \/ RetryBatch(h) \/ ScanBlockFails(h) \/ ScanBlock(h)
        PROVE  \E b \in Block : Batched(b)
    <3>1. PICK b : b = GetBlockByHeight(tip, h)
      OBVIOUS
    <3>2. b \in Block /\ Len(b) = h
      BY <2>1, <3>1, AncestorType DEF ScanInv, TypeOK
    <3>3. BatchExtract(b, h) \/ ScanBlockFails(h) \/ ScanBlock(h)
      BY <2>1, <3>1 DEF RetryFails, RetryBatch, BatchExtract
    <3>4. BatchEffect(b, Len(b))
      BY <3>1, <3>2, <3>3, BatchHasEffect DEF ScanBlockFails, ScanBlock, BatchEffect
    <3>5. Batched(b)
      BY <2>1, <3>4 DEF RetryFails, RetryBatch, ScanBlockFails, ScanBlock, Batched
    <3> QED
      BY <3>2, <3>5
  <2>2. ASSUME NEW h \in todo, RetryFails(h) \/ RetryBatch(h)
        PROVE  h \in 0..Len(tip)
    BY <2>2, LenType DEF RetryFails, RetryBatch, ScanInv, TypeOK, Heights
  <2> QED
    BY <2>1, <2>2
<1>3. Lasting
  BY <1>2, BatchLasts
<1> QED
  BY <1>1, <1>3, ClaimsKept

\* The next block is answered for, and those below it are the last one's.
LEMMA ScanNextClaims ==
    ASSUME ScanInv, ClaimInv, ScanNext
    PROVE  ClaimInv'
<1>1. PICK b : b = GetBlockByHeight(tip, cur.h)
  OBVIOUS
<1>2. b \in Block /\ Len(b) = cur.h
  <2>1. cur.h \in 0..Len(tip) /\ tip \in Block
    BY DEF ScanNext, ScanInv, TypeOK, HeadRecord
  <2> QED
    BY <1>1, <2>1, AncestorType
<1>3. Batched(b) /\ cur.hash = Prev(b) /\ head' = head
  <2>1. BatchExtract(b, cur.h)
    BY <1>1 DEF ScanNext
  <2>2. BatchEffect(b, Len(b))
    BY <1>2, <2>1, BatchHasEffect
  <2> QED
    BY <1>1, <2>2 DEF ScanNext, LinksTo, Batched
<1>4. cur'.hash = b /\ cur'.base = cur.base
  BY <1>1 DEF ScanNext, ScanInv, TypeOK, HeadRecord
<1>5. Lasting /\ Excused(b)'
  BY <1>2, <1>3, BatchLasts
<1>6. PICK c \in Block \union {NoHash}, n \in -1..MaxHeight : c = head.hash /\ n = head.base
  BY DEF ScanInv, TypeOK, HeadRecord
<1>7. Claims(head.hash, head.base)'
  BY <1>3, <1>5, <1>6, ClaimsLast DEF ClaimInv, Claims
<1>8. PICK m \in -1..MaxHeight : m = cur.base
  BY DEF ScanInv, TypeOK, HeadRecord
<1>9. ASSUME NEW j \in (m + 1)..Len(b)
      PROVE  Excused(GetBlockByHeight(b, j))'
  <2>1. CASE j = Len(b)
    <3>1. GetBlockByHeight(b, Len(b)) = b
      BY <1>2, BlockType, SubSeqFull DEF GetBlockByHeight
    <3> QED
      BY <1>5, <2>1, <3>1 DEF Excused, Answered
  <2>2. CASE j # Len(b)
    <3>1. Len(b) \in Nat /\ j \in (m + 1)..(Len(b) - 1) /\ j \in 0..(Len(b) - 1)
      BY <1>2, <2>2, LenType
    <3>2. /\ Prev(b) \in Block /\ Len(Prev(b)) = Len(b) - 1
          /\ GetBlockByHeight(Prev(b), j) = GetBlockByHeight(b, j)
      BY <1>2, <3>1, BelowIt
    <3>3. Excused(GetBlockByHeight(b, j))
      BY <1>3, <1>8, <3>1, <3>2 DEF ClaimInv, Claims
    <3>4. GetBlockByHeight(b, j) \in Block
      BY <1>2, <3>1, AncestorType
    <3> QED
      BY <1>5, <3>3, <3>4 DEF Lasting
  <2> QED
    BY <2>1, <2>2
<1>10. Claims(cur.hash, cur.base)'
  BY <1>4, <1>8, <1>9 DEF Claims
<1> QED
  BY <1>7, <1>10 DEF ClaimInv

\* A rollback lands on an ancestor, or on a block that is adopted.
LEMMA RollbackClaims ==
    ASSUME ScanInv, ClaimInv, ForkBackLocal \/ ForkBackNode
    PROVE  ClaimInv'
<1>1. PICK h \in Heights, c \in Block, n \in -1..MaxHeight :
          h = BackTo(cur.h) /\ c = cur.hash /\ n = cur.base
  BY BackType DEF ForkBackLocal, ForkBackNode
<1>2. PICK b \in Block :
          /\ \/ b = local[h] /\ ForkBackLocal
             \/ b = GetBlockByHeight(tip, h) /\ ForkBackNode
          /\ Len(b) = h
  <2>1. CASE ForkBackLocal
    <3>1. local[h] # NoHash
      BY <1>1, <2>1 DEF ForkBackLocal
    <3>2. local[h] \in Block /\ Len(local[h]) = h
      BY <1>1, <3>1 DEF ScanInv, TypeOK, LocalInv
    <3> QED
      BY <2>1, <3>2
  <2>2. CASE ForkBackNode
    <3>1. h \in 0..Len(tip) /\ tip \in Block
      BY <1>1, <2>2 DEF ForkBackNode, ScanInv, TypeOK, Heights
    <3> QED
      BY <2>2, <3>1, AncestorType
  <2> QED
    BY <2>1, <2>2
<1>3. /\ UNCHANGED <<unscan, delivered, skipped, owed, lost, dropped, head>>
      /\ adopted' = Adopt(b)
      /\ cur'.hash = b /\ cur'.base = IF h < n THEN h ELSE n
  BY <1>1, <1>2 DEF ForkBackLocal, ForkBackNode, LowerBase, daiVars
<1>4. Lasting
  BY <1>3 DEF Lasting, Excused, Answered, Adopt
<1>5. PICK d \in Block \union {NoHash}, m \in -1..MaxHeight : d = head.hash /\ m = head.base
  BY DEF ScanInv, TypeOK, HeadRecord
<1>6. Claims(head.hash, head.base)'
  BY <1>3, <1>4, <1>5, ClaimsLast DEF ClaimInv, Claims
<1>7. ASSUME n < h, NEW j \in (n + 1)..h
      PROVE  Excused(GetBlockByHeight(b, j))'
  <2>1. j \in 0..h /\ h \in Nat
    BY <1>7 DEF Heights
  <2>2. GetBlockByHeight(b, j) \in Block /\ Len(GetBlockByHeight(b, j)) = j
    BY <1>2, <2>1, AncestorType
  <2>3. CASE OnChain(b, c)
    <3>1. h <= Len(c) /\ b = GetBlockByHeight(c, h) /\ h \in 0..Len(c) /\ Len(c) \in Nat
      BY <1>1, <1>2, <2>1, <2>3, LenType DEF OnChain, GetBlockByHeight
    <3>2. GetBlockByHeight(b, j) = GetBlockByHeight(c, j)
      BY <2>1, <3>1, AncestorType
    <3>3. j \in (n + 1)..Len(c)
      BY <1>7, <2>1, <3>1
    <3>4. Excused(GetBlockByHeight(c, j))
      BY <1>1, <3>3 DEF ClaimInv, Claims
    <3> QED
      BY <1>4, <2>2, <3>2, <3>4 DEF Lasting
  <2>4. CASE ~OnChain(b, c)
    <3>1. b \in adopted'
      BY <1>1, <1>3, <2>4 DEF Adopt
    <3>2. OnChain(GetBlockByHeight(b, j), b)
      BY <1>2, <2>1, <2>2 DEF OnChain, GetBlockByHeight
    <3> QED
      BY <3>1, <3>2 DEF Excused
  <2> QED
    BY <2>3, <2>4
<1>8. ASSUME h <= n PROVE ((IF h < n THEN h ELSE n) + 1)..h = {}
  BY <1>8 DEF Heights
<1>9. Claims(cur.hash, cur.base)'
  BY <1>2, <1>3, <1>7, <1>8 DEF Claims, Heights
<1> QED
  BY <1>6, <1>9 DEF ClaimInv

LEMMA ClaimPreserves ==
    ASSUME ScanInv, ClaimInv, [Next]_vars
    PROVE  ClaimInv'
  BY NextIs, StillClaims, DropClaims, BatchClaims, ScanNextClaims, RollbackClaims

\* Whatever crashes, calls, forks and failures come in whatever order, the only
\* blocks passed over are those of which a transaction was left out, those whose record
\* was deleted and those below a block a rollback landed on beside the chain it went
\* back along.
THEOREM CoversEverything == Spec => []Covered
<1>1. Init => ClaimInv
  BY Nothing DEF Init, ClaimInv, Claims, NoHead
<1>2. ScanInv /\ ClaimInv /\ [Next]_vars => ClaimInv'
  BY ClaimPreserves
<1>3. ScanInv /\ ClaimInv => Covered
  BY DEF ScanInv, ClaimInv, Claims, Excused, Answered, Covered, Claimed, Missed,
         HeadIsABlock, TypeOK, HeadRecord, Height
<1> QED
  BY <1>1, <1>2, <1>3, ScanInvariant, PTL DEF Spec

(*****************************************************************************)
(* The scanner implements module Follower, when it is not killed and no other*)
(* goroutine moves the head: each save of the head is a step of the follower,*)
(* and so is each batch; everything else leaves the follower as it is.       *)
(*****************************************************************************)

-------------------------------------------------------------------------------
(* The inductive invariant: how the task's block and the saved head lie.     *)

Known == delivered \union owed
Taken == Known \union skipped

\* Nothing is claimed from above a block itself.
Based(r) == IF r.hash \in Block THEN r.base <= Len(r.hash) ELSE r.base <= 0

\* A step the follower may take from the head to the task's block.
IsBack ==
    \/ OnChain(cur.hash, head.hash) /\ cur.base = IF cur.h < head.base THEN cur.h ELSE head.base
    \/ cur.h <= head.base /\ cur.base = cur.h

FrontInv ==
    /\ lost \union dropped \subseteq Known
    /\ Based(head) /\ Based(cur)
    /\ pc \in {"origin", "originBlock"} => head.h = 0
    /\ pc = "forkSave" => cur.h # 0
    /\ pc = "saveHead" => cur.hash \in Taken
    /\ head.h # 0 =>
          /\ pc \in {"loop", "next", "forkBack", "forkNotify", "notify"} =>
                cur.hash = head.hash /\ cur.base = head.base
          /\ pc = "saveHead" => Prev(cur.hash) = head.hash /\ cur.base = head.base
          /\ pc = "forkSave" => IsBack

\* The head and what is known, and with them the follower, stay as they are.
Same == UNCHANGED <<head, delivered, skipped, owed, lost, dropped>>

-------------------------------------------------------------------------------
(* Steps that move neither the head nor the task's block.                    *)

LEMMA RestFronts ==
    ASSUME ScanInv, FrontInv, Run \/ Stop \/ Grow \/ Reorg \/ UNCHANGED vars
    PROVE  FrontInv' /\ Same
<1>1. UNCHANGED <<head, cur, pc, delivered, skipped, owed, lost, dropped>>
  BY DEF Run, Stop, Grow, Reorg, vars, daiVars, taskVars, ghostVars
<1> QED
  BY <1>1 DEF FrontInv, Known, Taken, Based, IsBack, Same

\* The steps of the task between its start, its loop and its end.
LEMMA PassingFronts ==
    ASSUME ScanInv, FrontInv, Passing
    PROVE  FrontInv' /\ Same
<1>1. Same
  BY DEF Passing, TaskStart, OriginHeight, OriginPanic, LoopStopped, LoopBreak, LoopNext,
         FetchBreak, NewBlockNotify, ForkBackBreak, ForkNotify, RetryList, RetryEnd, RetrySkip,
         Restart, Return, Break, daiVars, ghostVars, Same
<1>2. \/ cur'.hash = cur.hash /\ cur'.base = cur.base
      \/ cur' = head
      \/ cur' = NoHead
  BY DEF Passing, TaskStart, OriginHeight, OriginPanic, LoopStopped, LoopBreak, LoopNext,
         FetchBreak, NewBlockNotify, ForkBackBreak, ForkNotify, RetryList, RetryEnd, RetrySkip,
         Restart, Return, Break, ScanInv, TypeOK, HeadRecord
<1>3. Based(cur)'
  BY <1>2, Nothing DEF FrontInv, Based, NoHead
<1>4. /\ pc' \in {"origin", "originBlock"} => head.h = 0
      /\ pc' \notin {"saveHead", "forkSave", "forkBack", "forkNotify", "notify"}
      /\ pc' \in {"loop", "next"} =>
            \/ cur' = head
            \/ /\ cur'.hash = cur.hash /\ cur'.base = cur.base
               /\ pc \in {"loop", "notify", "forkNotify"}
  BY DEF Passing, TaskStart, OriginHeight, OriginPanic, LoopStopped, LoopBreak, LoopNext,
         FetchBreak, NewBlockNotify, ForkBackBreak, ForkNotify, RetryList, RetryEnd, RetrySkip,
         Restart, Return, Break, ScanInv, TypeOK, HeadRecord, FrontInv
<1>5. FrontInv'
  BY <1>1, <1>3, <1>4 DEF FrontInv, Known, Taken, Based, Same
<1> QED
  BY <1>1, <1>5

\* A start: there is no head.
LEMMA OriginBlockFronts ==
    ASSUME ScanInv, FrontInv, OriginBlock
    PROVE  FrontInv' /\ Same
<1>1. PICK b : b = GetBlockByHeight(tip, Uint32(cur.h - 1))
  OBVIOUS
<1>2. /\ Same /\ pc = "originBlock" /\ pc' = "loop"
      /\ cur'.hash = Prev(b) /\ cur'.base = Len(b) - 1
  BY <1>1 DEF OriginBlock, Height, daiVars, ghostVars, Same
<1>3. b \in Block
  <2>1. Uint32(cur.h - 1) \in 0..Len(tip)
    BY Uint32Type, LenType DEF OriginBlock, ScanInv, TypeOK, HeadRecord
  <2> QED
    BY <1>1, <2>1, AncestorType DEF ScanInv, TypeOK
<1>4. Based(cur)'
  <2>1. CASE b = << >>
    BY <1>2, <2>1, Nothing DEF Prev, Based
  <2>2. CASE b # << >>
    <3>1. Prev(b) \in Block /\ Len(Prev(b)) = Len(b) - 1 /\ Len(b) \in Nat
      BY <1>3, <2>2, BelowIt, LenType
    <3> QED
      BY <1>2, <3>1 DEF Based
  <2> QED
    BY <2>1, <2>2
<1> QED
  BY <1>2, <1>4 DEF FrontInv, Known, Taken, Based, Same

\* A fork drops the record of a block that failed.
LEMMA ForkDropFronts ==
    ASSUME ScanInv, FrontInv, ForkDrop
    PROVE  FrontInv' /\ head' = head /\ Known' = Known /\ skipped' = skipped
<1>1. /\ pc = "next" /\ pc' = "forkBack"
      /\ UNCHANGED <<head, cur, delivered, skipped, owed, lost>>
      /\ dropped' \subseteq dropped \union owed
  BY DEF ForkDrop
<1> QED
  BY <1>1 DEF FrontInv, Known, Taken, Based

\* A block is saved, and the head with it.
LEMMA SaveBlockFronts ==
    ASSUME ScanInv, QuietInv, FrontInv, SaveBlock
    PROVE  FrontInv' /\ Same
<1>1. /\ pc = "saveBlock" /\ pc' = "notify" /\ head = cur
      /\ UNCHANGED <<head, cur, delivered, skipped, owed, lost, dropped>>
  BY DEF SaveBlock, QuietInv, ghostVars
<1> QED
  BY <1>1 DEF FrontInv, Known, Taken, Based, Same

\* The retry pass deletes the record of a block that failed.
LEMMA RetryDropFronts ==
    ASSUME ScanInv, FrontInv, RetryDrop
    PROVE  FrontInv' /\ head' = head /\ Known' = Known /\ skipped' = skipped
<1>1. /\ pc' = "retrying"
      /\ UNCHANGED <<head, cur, delivered, skipped, owed, dropped>>
      /\ lost' \subseteq lost \union owed
  BY DEF RetryDrop
<1> QED
  BY <1>1 DEF FrontInv, Known, Taken, Based

-------------------------------------------------------------------------------
(* Batches.                                                                *)

\* A batch makes its block known, or leaves a transaction of it out.
Takes(b) ==
    \/ Known' = Known \union {b} /\ skipped' = skipped \ {b}
    \/ Known' = Known /\ skipped' = skipped \union {b}
    \/ Known' = Known /\ skipped' = skipped /\ b \in Known

LEMMA BatchTakes ==
    ASSUME NEW b \in Block, NEW h, BatchExtract(b, h)
    PROVE  Takes(b)
BY BatchHasEffect DEF BatchEffect, AllDelivered, LeftOut, OnRecord, Known, Takes

\* None is forgotten.
LEMMA TakesAll ==
    ASSUME NEW b \in Block, Takes(b)
    PROVE  Known \subseteq Known' /\ Taken \subseteq Taken' /\ b \in Taken'
BY DEF Takes, Taken

LEMMA RetryBatchFronts ==
    ASSUME ScanInv, FrontInv, NEW h \in todo, RetryFails(h) \/ RetryBatch(h)
    PROVE  FrontInv' /\ head' = head /\ \E b \in Block : Takes(b)
<1>1. PICK b : b = GetBlockByHeight(tip, h)
  OBVIOUS
<1>2. b \in Block
  <2>1. h \in 0..Len(tip) /\ tip \in Block
    BY LenType DEF RetryFails, RetryBatch, ScanInv, TypeOK, Heights
  <2> QED
    BY <1>1, <2>1, AncestorType
<1>3. /\ pc' \in {"retrying", "retryDrop"} /\ UNCHANGED <<head, cur, lost, dropped>>
      /\ BatchExtract(b, h)
  BY <1>1 DEF RetryFails, RetryBatch, BatchExtract
<1>4. Takes(b) /\ Known \subseteq Known' /\ Taken \subseteq Taken' /\ b \in Taken'
  BY <1>2, <1>3, BatchTakes, TakesAll
<1>5. FrontInv'
  BY <1>3, <1>4 DEF FrontInv, Based
<1> QED
  BY <1>2, <1>3, <1>4, <1>5

\* The block extracted is the one after the head's.
LEMMA ScanNextFronts ==
    ASSUME ScanInv, FrontInv, ScanNext
    PROVE  FrontInv' /\ head' = head /\ \E b \in Block : Takes(b)
<1>1. PICK b : b = GetBlockByHeight(tip, cur.h)
  OBVIOUS
<1>2. b \in Block
  <2>1. cur.h \in 0..Len(tip) /\ tip \in Block
    BY DEF ScanNext, ScanInv, TypeOK, HeadRecord
  <2> QED
    BY <1>1, <2>1, AncestorType
<1>3. /\ pc = "next" /\ pc' = "saveHead" /\ head' = head /\ lost' = lost
      /\ dropped' \subseteq dropped /\ cur.hash = Prev(b) /\ BatchExtract(b, cur.h)
      /\ cur' = [cur EXCEPT !.hash = b]
  BY <1>1 DEF ScanNext, LinksTo
<1>4. cur'.hash = b /\ cur'.base = cur.base
  BY <1>3 DEF ScanInv, TypeOK, HeadRecord
<1>5. Takes(b) /\ Known \subseteq Known' /\ Taken \subseteq Taken' /\ b \in Taken'
  BY <1>2, <1>3, BatchTakes, TakesAll
<1>6. Based(cur)'
  <2>1. CASE b = << >>
    BY <1>2, <1>3, <1>4, <2>1, Nothing DEF FrontInv, Based, Prev
  <2>2. CASE b # << >>
    <3>1. Prev(b) \in Block /\ Len(Prev(b)) = Len(b) - 1 /\ Len(b) \in Nat
      BY <1>2, <2>2, BelowIt, LenType
    <3>2. cur.base \in Int /\ cur.base <= Len(b) - 1
      BY <1>3, <3>1 DEF FrontInv, Based, ScanInv, TypeOK, HeadRecord
    <3> QED
      BY <1>2, <1>4, <3>1, <3>2 DEF Based
  <2> QED
    BY <2>1, <2>2
<1>7. FrontInv'
  BY <1>3, <1>4, <1>5, <1>6 DEF FrontInv, Based
<1> QED
  BY <1>2, <1>3, <1>5, <1>7

-------------------------------------------------------------------------------
(* A rollback.                                                             *)

\* It lands on an ancestor of the head, or below all the head claims.
LEMMA ForkBackFronts ==
    ASSUME ScanInv, QuietInv, FrontInv, ForkBackLocal \/ ForkBackNode
    PROVE  FrontInv' /\ Same
<1>1. PICK h \in Heights, c \in Block, n \in -1..MaxHeight :
          h = BackTo(cur.h) /\ h \in 0..Len(c) /\ c = cur.hash /\ n = cur.base
  BY BackType DEF ForkBackLocal, ForkBackNode
<1>2. /\ pc = "forkBack" /\ pc' = "forkSave" /\ Same
      /\ cur'.h = h /\ cur'.base = IF h < n THEN h ELSE n
  BY <1>1 DEF ForkBackLocal, ForkBackNode, LowerBase, daiVars, Same
<1>3. h \in Nat /\ n \in Int /\ Len(c) \in Nat
  BY <1>1, LenType DEF Heights
<1>4. h # 0
  <2>1. cur.h \in 2..MaxHeight
    BY <1>2 DEF ScanInv, CurInv
  <2>2. cur.h - 2 \in 0..(Uint32Mod - 1)
    BY <2>1, ChainAssumption DEF ChainAssumption
  <2> QED
    BY <1>1, <2>1, <2>2, Uint32Small DEF BackTo
<1>5. n < h => OnChain(cur'.hash, c)
  <2> SUFFICES ASSUME n < h PROVE OnChain(cur'.hash, c)
    OBVIOUS
  <2>1. h \in (n + 1)..Len(c)
    BY <1>1, <1>3
  <2>2. local[h] = GetBlockByHeight(c, h)
    BY <1>1, <1>2, <2>1 DEF QuietInv, Linked, LinkedUpTo
  <2>3. local[h] \in Block /\ Len(local[h]) = h
    BY <1>1, <2>2, AncestorType
  <2>4. cur'.hash = local[h]
    BY <1>1, <2>3, Nothing DEF ForkBackLocal, ForkBackNode
  <2> QED
    BY <1>1, <2>2, <2>3, <2>4 DEF OnChain, GetBlockByHeight
<1>6. cur'.hash \in Block /\ Len(cur'.hash) = h
  <2>1. CASE ForkBackLocal
    <3>1. local[h] # NoHash /\ cur'.hash = local[h]
      BY <1>1, <2>1 DEF ForkBackLocal
    <3> QED
      BY <1>1, <3>1 DEF ScanInv, TypeOK, LocalInv
  <2>2. CASE ForkBackNode
    <3>1. h \in 0..Len(tip) /\ tip \in Block /\ cur'.hash = GetBlockByHeight(tip, h)
      BY <1>1, <1>3, <2>2 DEF ForkBackNode, ScanInv, TypeOK
    <3> QED
      BY <3>1, AncestorType
  <2> QED
    BY <2>1, <2>2
<1>7. Based(cur)'
  BY <1>2, <1>3, <1>6 DEF Based
<1>8. head.h # 0 => IsBack'
  <2> SUFFICES ASSUME head.h # 0 PROVE IsBack'
    OBVIOUS
  <2>1. c = head.hash /\ n = head.base
    BY <1>1, <1>2 DEF FrontInv
  <2> QED
    BY <1>2, <1>3, <1>5, <2>1 DEF IsBack, Same
<1>9. FrontInv'
  BY <1>2, <1>4, <1>7, <1>8 DEF FrontInv, Known, Taken, Based, Same
<1> QED
  BY <1>2, <1>9

-------------------------------------------------------------------------------
(* The steps of the follower.                                              *)

Stays == UNCHANGED <<tip, delivered, skipped, owed>>

\* The follower's own names for blocks are the scanner's.
LEMMA SameChain ==
    /\ Promise!Block = Block
    /\ \A b : Promise!Prev(b) = Prev(b) /\ Promise!Height(b) = Len(b)
    /\ \A b, h : Promise!GetBlockByHeight(b, h) = GetBlockByHeight(b, h)
    /\ \A b, c : Promise!OnChain(b, c) <=> OnChain(b, c)
BY DEF Promise!Block, Block, Promise!Heights, Heights, Promise!Prev, Prev, Promise!Height,
   Promise!GetBlockByHeight, GetBlockByHeight, Promise!OnChain, OnChain

LEMMA Idles ==
    ASSUME UNCHANGED tip, Known' = Known, skipped' = skipped, head' = head
    PROVE  UNCHANGED Promise!followVars
BY DEF Promise!followVars, Known

LEMMA Moves ==
    ASSUME tip' \in Block, UNCHANGED <<head, delivered, skipped, owed>>
    PROVE  Promise!FollowNext
BY SameChain DEF Promise!FollowNext, Promise!NodeMoves

LEMMA Answers ==
    ASSUME NEW b \in Block, Takes(b), UNCHANGED <<tip, head>>
    PROVE  [Promise!FollowNext]_(Promise!followVars)
<1>1. CASE Known' = Known \union {b} /\ skipped' = skipped \ {b}
  <2>1. Promise!Answer(b)
    BY <1>1 DEF Promise!Answer, Known
  <2> QED
    BY <2>1, SameChain DEF Promise!FollowNext
<1>2. CASE Known' = Known /\ skipped' = skipped \union {b}
  <2>1. Promise!Skip(b)
    BY <1>2 DEF Promise!Skip, Known
  <2> QED
    BY <2>1, SameChain DEF Promise!FollowNext
<1>3. CASE Known' = Known /\ skipped' = skipped
  BY <1>3, Idles
<1> QED
  BY <1>1, <1>2, <1>3 DEF Takes

LEMMA Begins ==
    ASSUME Stays, head.h = 0, head'.h # 0, NEW b \in Block, head'.hash = b,
           head'.base \in -1..Len(b),
           \A j \in (head'.base + 1)..Len(b) : GetBlockByHeight(b, j) \in Taken
    PROVE  Promise!FollowNext
<1>1. Promise!Begin(b)
  BY SameChain DEF Promise!Begin, Promise!AllTaken, Promise!Taken, Stays, Known, Taken
<1> QED
  BY <1>1, SameChain DEF Promise!FollowNext

LEMMA Follows ==
    ASSUME Stays, head.h # 0, head'.h # 0, NEW b \in Block, head'.hash = b,
           head.hash # NoHash, Prev(b) = head.hash, b \in Taken, head'.base = head.base
    PROVE  Promise!FollowNext
<1>1. Promise!Follow(b)
  BY SameChain DEF Promise!Follow, Promise!Taken, Stays, Known, Taken
<1> QED
  BY <1>1, SameChain DEF Promise!FollowNext

LEMMA FallsBack ==
    ASSUME Stays, head.h # 0, head'.h # 0, NEW b \in Block, head'.hash = b,
           head.hash # NoHash, OnChain(b, head.hash),
           head'.base = IF Len(b) < head.base THEN Len(b) ELSE head.base
    PROVE  Promise!FollowNext
<1>1. Promise!FallBack(b)
  BY SameChain DEF Promise!FallBack, Promise!Lower, Stays
<1> QED
  BY <1>1, SameChain DEF Promise!FollowNext

LEMMA StartsOver ==
    ASSUME Stays, head.h # 0, head'.h # 0, NEW b \in Block, head'.hash = b,
           head.hash # NoHash, Len(b) <= head.base, head'.base = Len(b)
    PROVE  Promise!FollowNext
<1>1. Promise!StartOver(b)
  BY SameChain DEF Promise!StartOver, Stays
<1> QED
  BY <1>1, SameChain DEF Promise!FollowNext

-------------------------------------------------------------------------------
(* The saves of the head.                                                  *)

\* The ancestors that are linked have been taken.
LEMMA LinkedTaken ==
    ASSUME FrontInv, NEW b \in Block, NEW n \in -1..MaxHeight, NEW k \in Int,
           LinkedUpTo(b, n, k)
    PROVE  \A j \in (n + 1)..k : GetBlockByHeight(b, j) \in Taken
BY DEF FrontInv, LinkedUpTo, Answered, Known, Taken

\* After a scan: the first block, or the next one.  The genesis block at height 0
\* is taken for no head.
LEMMA SaveHeadFollows ==
    ASSUME ScanInv, QuietInv, FrontInv, SaveHead
    PROVE  FrontInv' /\ [Promise!FollowNext]_(Promise!followVars)
<1>1. PICK b \in Block, n \in -1..MaxHeight : b = cur.hash /\ n = cur.base /\ cur.h = Len(b)
  BY DEF SaveHead, ScanInv, CurInv, AtBlock, TypeOK, HeadRecord
<1>2. /\ pc = "saveHead" /\ pc' = "saveBlock" /\ head' = cur /\ cur' = cur /\ Stays
      /\ lost' = lost /\ dropped' = dropped /\ tip' = tip
  BY DEF SaveHead, nodeVars, ghostVars, Stays
<1>3. FrontInv'
  BY <1>2 DEF FrontInv, Known, Taken, Based, Stays
<1>4. Len(b) \in Nat
  BY LenType
<1>5. head.h # 0 => head.hash \in Block
  BY DEF ScanInv, HeadIsABlock, TypeOK, HeadRecord
<1>6. CASE cur.h = 0
  <2>1. b = << >>
    <3>1. Len(b) = 0 /\ b \in Seq(Labels)
      BY <1>1, <1>6, BlockType
    <3> QED
      BY <3>1
  <2>2. head.h = 0
    BY <1>1, <1>2, <1>5, <2>1, Nothing DEF FrontInv, Prev
  <2>3. UNCHANGED Promise!followVars
    BY <1>2, <1>6, <2>2 DEF Promise!followVars, Stays
  <2> QED
    BY <1>3, <2>3
<1>7. CASE cur.h # 0 /\ head.h # 0
  BY <1>1, <1>2, <1>3, <1>5, <1>7, Follows, Nothing DEF FrontInv
<1>8. CASE cur.h # 0 /\ head.h = 0
  <2>1. n \in -1..Len(b)
    BY <1>1, <1>4 DEF FrontInv, Based
  <2>2. ASSUME NEW j \in (n + 1)..Len(b)
        PROVE  GetBlockByHeight(b, j) \in Taken
    <3>1. CASE j = Len(b)
      <4>1. GetBlockByHeight(b, Len(b)) = b
        BY BlockType, SubSeqFull DEF GetBlockByHeight
      <4> QED
        BY <1>1, <1>2, <3>1, <4>1 DEF FrontInv
    <3>2. CASE j # Len(b)
      <4>1. LinkedUpTo(b, n, Len(b) - 1) /\ j \in (n + 1)..(Len(b) - 1) /\ Len(b) - 1 \in Int
        BY <1>1, <1>2, <1>4, <2>1, <3>2 DEF QuietInv
      <4> QED
        BY <4>1, LinkedTaken
    <3> QED
      BY <3>1, <3>2
  <2> QED
    BY <1>1, <1>2, <1>3, <1>8, <2>1, <2>2, Begins
<1> QED
  BY <1>6, <1>7, <1>8

\* After a rollback.
LEMMA ForkSaveFollows ==
    ASSUME ScanInv, QuietInv, FrontInv, ForkSave
    PROVE  FrontInv' /\ Promise!FollowNext
<1>1. PICK b \in Block, n \in -1..MaxHeight : b = cur.hash /\ n = cur.base /\ cur.h = Len(b)
  BY DEF ForkSave, ScanInv, CurInv, AtBlock, TypeOK, HeadRecord
<1>2. /\ pc = "forkSave" /\ pc' = "forkNotify" /\ head' = cur /\ cur' = cur /\ Stays
      /\ lost' = lost /\ dropped' = dropped /\ cur.h # 0
  BY DEF ForkSave, nodeVars, ghostVars, Stays, FrontInv
<1>3. FrontInv'
  BY <1>2 DEF FrontInv, Known, Taken, Based, Stays
<1>4. Len(b) \in Nat
  BY LenType
<1>5. CASE head.h # 0
  <2>1. head.hash \in Block /\ head.base \in Int
    BY <1>5 DEF ScanInv, HeadIsABlock, TypeOK, HeadRecord
  <2>2. IsBack
    BY <1>2, <1>5 DEF FrontInv
  <2> QED
    BY <1>1, <1>2, <1>3, <1>5, <2>1, <2>2, FallsBack, StartsOver, Nothing DEF IsBack
<1>6. CASE head.h = 0
  <2>1. n \in -1..Len(b)
    BY <1>1, <1>4 DEF FrontInv, Based
  <2>2. LinkedUpTo(b, n, Len(b))
    BY <1>1, <1>2 DEF QuietInv, Linked
  <2>3. \A j \in (n + 1)..Len(b) : GetBlockByHeight(b, j) \in Taken
    BY <1>4, <2>2, LinkedTaken
  <2> QED
    BY <1>1, <1>2, <1>3, <1>6, <2>1, <2>3, Begins
<1> QED
  BY <1>5, <1>6

-------------------------------------------------------------------------------
(* The refinement.                                                         *)

LEMMA FollowEstablishes ==
    ASSUME Init
    PROVE  FrontInv /\ Promise!FollowInit
<1>1. FrontInv
  BY Nothing DEF Init, FrontInv, Known, Taken, Based, NoHead
<1>2. Promise!FollowInit
  BY SameChain, ScannerAssumption DEF Init, Promise!FollowInit, NoHead, ScannerAssumption
<1> QED
  BY <1>1, <1>2

LEMMA FollowSteps ==
    ASSUME ScanInv, ScanInv', QuietInv, FrontInv, [Next]_vars
    PROVE  FrontInv' /\ [Promise!FollowNext]_(Promise!followVars)
<1>1. CASE Grow \/ Reorg
  <2>1. FrontInv' /\ Same
    BY <1>1, RestFronts
  <2> QED
    BY <2>1, Moves DEF Same, ScanInv, TypeOK
<1>2. CASE Run \/ Stop \/ UNCHANGED vars \/ Passing \/ OriginBlock \/ SaveBlock
           \/ ForkBackLocal \/ ForkBackNode
  <2>1. FrontInv' /\ Same
    BY <1>2, RestFronts, PassingFronts, OriginBlockFronts, SaveBlockFronts, ForkBackFronts
  <2>2. tip' = tip
    BY <1>2 DEF Run, Stop, vars, Passing, TaskStart, OriginHeight, OriginBlock, OriginPanic,
       LoopStopped, LoopBreak, LoopNext, FetchBreak, SaveBlock, NewBlockNotify,
       ForkBackLocal, ForkBackNode, ForkBackBreak, ForkNotify, RetryList, RetryEnd,
       RetrySkip, nodeVars
  <2> QED
    BY <2>1, <2>2, Idles DEF Same, Known
<1>3. CASE ForkDrop \/ RetryDrop
  <2>1. tip' = tip
    BY <1>3 DEF ForkDrop, RetryDrop, nodeVars
  <2> QED
    BY <1>3, <2>1, ForkDropFronts, RetryDropFronts, Idles
<1>4. CASE ScanNext \/ \E h \in todo : RetryFails(h) \/ RetryBatch(h)
  <2>1. tip' = tip
    BY <1>4 DEF ScanNext, RetryFails, RetryBatch, nodeVars
  <2>2. FrontInv' /\ head' = head /\ \E b \in Block : Takes(b)
    BY <1>4, ScanNextFronts, RetryBatchFronts
  <2> QED
    BY <2>1, <2>2, Answers
<1>5. CASE SaveHead \/ ForkSave
  BY <1>5, SaveHeadFollows, ForkSaveFollows
<1>6. ~Api /\ ~Crash
  BY DEF Api, SetRescanRead, SetRescanSave, ScanBlockFails, ScanBlock, ScanBlockNotify,
     Crash, Spend, QuietInv, NoCall
<1>7. Task =>
          \/ Passing \/ OriginBlock \/ ScanNext \/ SaveHead \/ SaveBlock
          \/ ForkDrop \/ ForkBackLocal \/ ForkBackNode \/ ForkSave
          \/ RetryDrop \/ \E h \in todo : RetryFails(h) \/ RetryBatch(h)
  BY DEF Task, Passing
<1> QED
  BY <1>1, <1>2, <1>3, <1>4, <1>5, <1>6, <1>7 DEF Next

\* Without crashes and calls what the saved head stands for follows the chain:
\* it goes up by one block at a time that was answered for or left a transaction out,
\* and back along its own chain or below all that is claimed.
THEOREM ScannerFollows ==
    ASSUME Budget["crash"] = 0, Budget["call"] = 0
    PROVE  Spec => FollowsChain
<1>1. Init => QuietInv /\ FrontInv /\ Promise!FollowInit
  BY QuietEstablishes, FollowEstablishes
<1>2. ScanInv /\ QuietInv /\ [Next]_vars => QuietInv'
  BY QuietPreserves
<1>3. ScanInv /\ ScanInv' /\ QuietInv /\ FrontInv /\ [Next]_vars =>
          FrontInv' /\ [Promise!FollowNext]_(Promise!followVars)
  BY FollowSteps
<1> QED
  BY <1>1, <1>2, <1>3, ScanInvariant, PTL DEF Spec, FollowsChain, Promise!FollowSpec

\* What a follower is for: every block between its base and its frontier was delivered,
\* or put on record, or left a transaction out.
THEOREM FollowerHasTaken ==
    ASSUME Budget["crash"] = 0, Budget["call"] = 0
    PROVE  Spec => []Promise!EveryBlockTaken
<1>1. Init => QuietInv /\ FrontInv
  BY QuietEstablishes, FollowEstablishes
<1>2. ScanInv /\ QuietInv /\ [Next]_vars => QuietInv'
  BY QuietPreserves
<1>3. ScanInv /\ ScanInv' /\ QuietInv /\ FrontInv /\ [Next]_vars => FrontInv'
  BY FollowSteps
<1>4. ASSUME ScanInv, QuietInv, FrontInv
      PROVE  Promise!EveryBlockTaken
  <2> SUFFICES ASSUME head.h # 0, NEW j \in (head.base + 1)..Len(head.hash)
               PROVE  GetBlockByHeight(head.hash, j) \in Taken
    BY SameChain DEF Promise!EveryBlockTaken, Promise!AllTaken, Promise!Taken, Known, Taken
  <2>1. PICK b \in Block, n \in -1..MaxHeight : b = head.hash /\ n = head.base
    BY <1>4 DEF ScanInv, HeadIsABlock, TypeOK, HeadRecord
  <2>2. Answered(GetBlockByHeight(b, j))
    <3>1. CASE pc # "saveBlock"
      BY <1>4, <2>1, <3>1 DEF QuietInv, Linked, LinkedUpTo
    <3>2. CASE pc = "saveBlock" /\ j # Len(b)
      <4>1. j \in (n + 1)..(Len(b) - 1)
        BY <2>1, <3>2, LenType
      <4>2. LinkedUpTo(b, n, Len(b) - 1)
        BY <1>4, <2>1, <3>2 DEF QuietInv
      <4> QED
        BY <4>1, <4>2 DEF LinkedUpTo
    <3>3. CASE pc = "saveBlock" /\ j = Len(b)
      <4>1. GetBlockByHeight(b, Len(b)) = b
        BY BlockType, SubSeqFull DEF GetBlockByHeight
      <4> QED
        BY <1>4, <2>1, <3>3, <4>1 DEF QuietInv
    <3> QED
      BY <3>1, <3>2, <3>3
  <2> QED
    BY <1>4, <2>1, <2>2 DEF FrontInv, Answered, Known, Taken
<1> QED
  BY <1>1, <1>2, <1>3, <1>4, ScanInvariant, PTL DEF Spec
===============================================================================
