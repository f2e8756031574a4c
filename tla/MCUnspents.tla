------------------------------ MODULE MCUnspents ------------------------------
(***************************************************************************)
(* Lists of up to four addresses, in pages of two, where an address may be   *)
(* listed twice; an address with outputs below, at and above the cost of a   *)
(* token transfer.                                                         *)
(***************************************************************************)
EXTENDS Unspents

Out(id, a, n) == [id |-> id, address |-> a, amount |-> n]

MCOutput == {Out(1, "a", 1), Out(2, "a", 2), Out(3, "a", 3), Out(4, "b", 2)}

MCAddressLists == {<< >>, <<"a">>, <<"a", "b">>, <<"b", "c", "a">>, <<"b", "c", "a", "d">>,
                   <<"a", "b", "c", "a">>, <<"a", "a">>}
===============================================================================
