------------------------------- MODULE MCDerSig --------------------------------
(***************************************************************************)
(* Bytes of three values, of which the last is high, as in the code half of  *)
(* them are; components of eight bytes; every value of one component beside  *)
(* a few of the other.                                                     *)
(***************************************************************************)
EXTENDS DerSig

Order == 6557

ToBytes(n) == [k \in 1..W |-> (n \div (Base ^ (W - k))) % Base]

MCCurveOrder == ToBytes(Order)
MCHalfCurveOrder == ToBytes((Order - 1) \div 2)

Few == {1, 2187, (Order - 1) \div 2, (Order + 1) \div 2, Order - 40, Order - 1}

\* Every third value: the last byte of a component matters to nothing.
Many == {3 * n + 1 : n \in 0..((Order - 2) \div 3)}

MCSignatures ==
    {[r |-> ToBytes(x[1]), s |-> ToBytes(x[2])] : x \in (Few \X Many) \union (Many \X Few)}
===============================================================================
