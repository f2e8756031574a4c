----------------------------- MODULE MCExtractTx ------------------------------
(***************************************************************************)
(* Three transactions: a coinbase with outputs to two addresses of the       *)
(* wallet and one that is not, two that spend them, one of which also names *)
(* an output that does not exist.                                          *)
(***************************************************************************)
EXTENDS ExtractTx

CONSTANTS base, first, second, alice, bob, stranger, wallet1, wallet2

MCTx == {base, first, second}
MCIns ==
    [t \in MCTx |->
        CASE t = base -> <<[tx |-> base, vout |-> 0]>>
          [] t = first -> <<[tx |-> base, vout |-> 2], [tx |-> base, vout |-> 0]>>
          [] t = second -> <<[tx |-> base, vout |-> 1], [tx |-> first, vout |-> 0],
                             [tx |-> base, vout |-> 7]>>]
MCOuts ==
    [t \in MCTx |->
        CASE t = base -> <<[addr |-> alice, amount |-> 5], [addr |-> bob, amount |-> 3],
                           [addr |-> stranger, amount |-> 2]>>
          [] t = first -> <<[addr |-> bob, amount |-> 4], [addr |-> stranger, amount |-> 2]>>
          [] t = second -> <<[addr |-> alice, amount |-> 6]>>]
MCOwner ==
    [a \in {alice, bob, stranger, NoAddr} |->
        CASE a = alice -> wallet1 [] a = bob -> wallet2 [] OTHER -> NoKey]
===============================================================================
