-------------------------------- MODULE Follower --------------------------------
(***************************************************************************)
(* What the scanner of vas/blockscaner.go promises of the head it saves,    *)
(* when it is not killed and no other goroutine moves the head: a follower   *)
(* of the node's chain, whose frontier goes up by one block at a time that  *)
(* was answered for or left a transaction out, and goes back along its own   *)
(* chain or below all it covers.                                          *)
(***************************************************************************)
EXTENDS VasChain

VARIABLES tip,        \* the last block of the node's chain
          frontier,   \* the block followed up to, NoHash at first
          base,       \* the height above which the follower covers its chain
          answered,   \* the blocks delivered, or failed and put on record
          skipped     \* the blocks a transaction of which was left out, and that
                      \* were neither delivered nor put on record since

followVars == <<tip, frontier, base, answered, skipped>>

FollowInit ==
    /\ tip \in Block
    /\ frontier = NoHash
    /\ base = 0
    /\ answered = {}
    /\ skipped = {}

NodeMoves ==
    /\ tip' \in Block
    /\ UNCHANGED <<frontier, base, answered, skipped>>

Answer(b) ==
    /\ answered' = answered \union {b}
    /\ skipped' = skipped \ {b}
    /\ UNCHANGED <<tip, frontier, base>>

\* A block is taken with a transaction left out.
Skip(b) ==
    /\ skipped' = skipped \union {b}
    /\ UNCHANGED <<tip, frontier, base, answered>>

Taken == answered \union skipped
AllTaken(b, n) == \A h \in (n + 1)..Height(b) : GetBlockByHeight(b, h) \in Taken

\* The first block, and how far below it all blocks were taken.
Begin(b) ==
    /\ frontier = NoHash
    /\ frontier' = b
    /\ base' \in -1..Height(b)
    /\ AllTaken(b, base')
    /\ UNCHANGED <<tip, answered, skipped>>

\* The next block, once it is taken.
Follow(b) ==
    /\ frontier # NoHash
    /\ Prev(b) = frontier
    /\ b \in Taken
    /\ frontier' = b
    /\ UNCHANGED <<tip, base, answered, skipped>>

Lower(h) == IF h < base THEN h ELSE base

\* Back to an ancestor, ...
FallBack(b) ==
    /\ frontier # NoHash
    /\ OnChain(b, frontier)
    /\ frontier' = b
    /\ base' = Lower(Height(b))
    /\ UNCHANGED <<tip, answered, skipped>>

\* ... or to a block below all of those, under which it covers nothing.
StartOver(b) ==
    /\ frontier # NoHash
    /\ Height(b) <= base
    /\ frontier' = b
    /\ base' = Height(b)
    /\ UNCHANGED <<tip, answered, skipped>>

FollowNext ==
    \/ NodeMoves
    \/ \E b \in Block : Answer(b) \/ Skip(b) \/ Begin(b) \/ Follow(b) \/ FallBack(b) \/ StartOver(b)

FollowSpec == FollowInit /\ [][FollowNext]_followVars

\* Every block between the base and the frontier was delivered, or put on record,
\* or left a transaction out.
EveryBlockTaken == frontier # NoHash => AllTaken(frontier, base)
===============================================================================
