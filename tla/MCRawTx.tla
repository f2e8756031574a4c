-------------------------------- MODULE MCRawTx --------------------------------
(***************************************************************************)
(* Two transfers of up to two inputs that compete for two outputs.           *)
(***************************************************************************)
EXTENDS RawTx

CONSTANTS alice, bob, x, y

MCTransfers == {alice, bob}
MCOutputs == {x, y}
===============================================================================
