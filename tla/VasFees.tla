------------------------------- MODULE VasFees --------------------------------
(***************************************************************************)
(* EstimateFee (vas/manager.go), in the coin's smallest unit: 180 bytes for  *)
(* an input, 34 for an output and 10 for each transaction the inputs would   *)
(* fill, at a rate for a thousand bytes, and not less than MinFees.         *)
(***************************************************************************)
EXTENDS Integers

CONSTANTS MinFees,       \* Config.MinFees, also the default fee rate
          MaxTxInputs    \* Config.MaxTxInputs

ASSUME FeesAssumption ==
    /\ MinFees \in Nat
    /\ MaxTxInputs \in Nat \ {0}

CeilDiv(a, b) == (a + b - 1) \div b

\* Div by 1000 is exact for these decimals; Round rounds half up.
Thousandth(x) == (x + 500) \div 1000

Piece(inputs) == IF inputs > MaxTxInputs THEN CeilDiv(inputs, MaxTxInputs) ELSE 1

TrxBytes(inputs, outputs) == inputs * 180 + outputs * 34 + Piece(inputs) * 10

AtLeast(least, x) == IF x < least THEN least ELSE x

EstimateFee(inputs, outputs, rate) ==
    AtLeast(MinFees, Thousandth(TrxBytes(inputs, outputs) * rate))
===============================================================================
