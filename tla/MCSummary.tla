------------------------------ MODULE MCSummary -------------------------------
(***************************************************************************)
(* Accounts of up to three addresses with up to three outputs each, around  *)
(* a limit of three inputs.                                                *)
(***************************************************************************)
EXTENDS Summary

MCAddress == {a \in [balance : {0, 2, 9}, n : 0..3, worth : {0, 1, 2, 6}] :
                 (a.n = 0) = (a.worth = 0)}

MCAddressLists == UNION {[1..k -> MCAddress] : k \in 0..3}
MCRates == {0, 7}
===============================================================================
