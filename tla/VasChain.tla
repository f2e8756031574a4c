------------------------------- MODULE VasChain -------------------------------
(***************************************************************************)
(* The block chain as vas/blockscaner.go sees it through the node's RPC     *)
(* interface.  The node is outside the repository.                         *)
(*                                                                         *)
(* A block's hash commits to the whole of its ancestry, so a block is       *)
(* modelled as the sequence of the branch labels of its ancestors and of    *)
(* itself: the genesis block is <<>>, a block's height is its length and    *)
(* its parent the sequence without the last label.  The hash of a block is  *)
(* the block.  NoHash is the empty string.                                 *)
(***************************************************************************)
EXTENDS Integers, Sequences

CONSTANTS Labels,     \* the branches a block may be mined on
          MaxHeight,  \* bound: the highest block of any chain
          Final,      \* the node never replaces a block at or below this height
          Uint32Mod,  \* 2^32 in the code, a smaller modulus in a model
          NoHash      \* the empty string

ASSUME ChainAssumption ==
    /\ MaxHeight \in Nat \ {0}
    /\ Final \in 0..MaxHeight
    /\ Uint32Mod \in Nat /\ Uint32Mod > MaxHeight + 1

Heights == 0..MaxHeight

Block == UNION {[1..n -> Labels] : n \in Heights}

ASSUME NoHashAssumption == NoHash \notin Block

Height(b) == Len(b)

\* block.Previousblockhash: the genesis block has none.
Prev(b) == IF b = <<>> THEN NoHash ELSE SubSeq(b, 1, Len(b) - 1)

\* The block at height h of the chain that ends in tip (getblockhash, then
\* getblock of that hash: a node still serves a block by its hash when it has
\* left the chain, so the second call returns the block the first one named).
GetBlockByHeight(tip, h) == SubSeq(tip, 1, h)

\* A block is on the chain that ends in tip.
OnChain(b, tip) == Len(b) <= Len(tip) /\ b = SubSeq(tip, 1, Len(b))

\* The chains that may follow tip: one more block on its last branch, or a
\* branch that leaves it above height Final and is longer than it.
Extensions(tip) ==
    {Append(tip, l) : l \in IF tip = <<>> THEN Labels ELSE {tip[Len(tip)]}}

Replacements(tip) ==
    UNION {{SubSeq(tip, 1, f) \o [i \in 1..(Len(tip) + 1 - f) |-> l] : l \in Labels} :
               f \in Final..(Len(tip) - 1)}

\* Arithmetic of the code's uint32 heights.
Uint32(n) == n % Uint32Mod
===============================================================================
