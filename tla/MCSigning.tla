------------------------------- MODULE MCSigning -------------------------------
(***************************************************************************)
(* Transactions of up to three inputs of every kind that is signed for.  A   *)
(* byte has eight values and a variable-length number starts at seven, so    *)
(* that six to nine outputs are on both sides of both limits, and a redeem   *)
(* script of four keys is longer than a byte counts.                        *)
(***************************************************************************)
EXTENDS Signing

Single(kind, key) == [kind |-> kind, keys |-> <<key>>, required |-> 0, amount |-> 1]
P2PKH(key) == Single("p2pkh", key)

Singles == {P2PKH(1), Single("p2wpkh", 2), Single("bech32", 1)}
Multis == {CreateMultiSig(2, <<1, 2, 3>>), CreateMultiSig(1, <<2, 1>>)}

Slots(ins, outs, segwitOn) == [unlock |-> ins, outs |-> outs, segwitOn |-> segwitOn, by |-> "slots"]
ByAccounts(ins) == [unlock |-> ins, outs |-> 2, segwitOn |-> FALSE, by |-> "accounts"]

\* Every pair of kinds but two multisignatures with all their signatures; numbers of
\* outputs on both sides of the mark and of the byte; a redeem script that is as long
\* as a byte counts; an input without amount; three inputs of two accounts.
MCRequests ==
    {Slots(<<a, b>>, 1, w) : a \in Singles, b \in Singles, w \in BOOLEAN}
    \union {Slots(<<a, b>>, 1, w) : a \in Singles, b \in Multis, w \in BOOLEAN}
    \union {Slots(<<a, CreateMultiSig(1, <<2>>)>>, 2, w) : a \in Multis, w \in BOOLEAN}
    \union {Slots(<<P2PKH(1), P2PKH(2)>>, n, w) : n \in 6..9, w \in BOOLEAN}
    \union {Slots(<<CreateMultiSig(2, <<1, 2, 3, 4>>)>>, 1, w) : w \in BOOLEAN}
    \union {Slots(<<[Single("bech32", 1) EXCEPT !.amount = 0]>>, 1, TRUE)}
    \union {ByAccounts(<<P2PKH(a), P2PKH(b), P2PKH(c)>>) : a, b, c \in {1, 2, 3}}

MCAccount == [k \in Keys |-> IF k = 1 THEN "a" ELSE "b"]
===============================================================================
