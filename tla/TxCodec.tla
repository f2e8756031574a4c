------------------------------- MODULE TxCodec -------------------------------
(***************************************************************************)
(* How a transaction is written, read back and hashed for its signatures    *)
(* (vasTransaction/txStruct.go, txIn.go, txHash.go).                        *)
(*                                                                         *)
(* The bytes are a sequence of items: counts, inputs, outputs, witnesses.    *)
(* What is kept of them is what the code decides on: how many there are,     *)
(* the kind of a script, what a script carries, and that the code gives     *)
(* every count and length one byte, where the format's integer takes more   *)
(* from VarIntMark on.  Identifiers, amounts and sequence numbers are as     *)
(* long as they should be, and stand in the item they belong to.            *)
(***************************************************************************)
EXTENDS Integers, Sequences

CONSTANTS ByteRange,     \* the values of a byte, 256
          VarIntMark,    \* from here on the format writes a mark and more bytes, 253
          KeySize        \* what each key adds to the size of a redeem script

ASSUME CodecAssumption ==
    /\ VarIntMark \in Nat \ {0}
    /\ ByteRange \in Nat /\ VarIntMark < ByteRange
    /\ KeySize \in Nat \ {0}

Byte(n) == <<n % ByteRange>>
VarInt(n) == IF n < VarIntMark THEN <<n>> ELSE <<VarIntMark, n>>

(***************************************************************************)
(* Scripts.  An output is locked for some keys: one, or those of a           *)
(* multisignature of which `required' have to sign.                         *)
(***************************************************************************)
Kinds == {"p2pkh", "p2wpkh", "bech32", "multisig"}

None == << >>
LockOf(o) == <<"lock", o.keys>>
RedeemOf(o) == <<"redeem", o.required, o.keys>>
Nested(o) == <<"nested", o.keys>>          \* the push of 0x16 bytes
Program(o) == <<"program", o.keys>>        \* the push of 0x22 bytes
SigScript(sig) == <<"sigpub", sig>>
MultiScript(sigs, o) == <<"multi", sigs, RedeemOf(o)>>

Size(script) == IF script[1] = "redeem" THEN KeySize * Len(script[3]) ELSE 1
WithLength(script) == <<Byte(Size(script)), script>>

(***************************************************************************)
(* The transaction as a structure.                                         *)
(***************************************************************************)
Vin(n) == [prev |-> n, type |-> "empty", pub |-> None, sig |-> None, multi |-> None]
NoTx == [witness |-> FALSE, vins |-> << >>, vouts |-> << >>]

\* Inputs and outputs are told apart by their place.
newEmptyTransaction(ins, outs) ==
    [witness |-> FALSE, vins |-> [i \in 1..ins |-> Vin(i)], vouts |-> [i \in 1..outs |-> i]]

setEmpty(v) == [v EXCEPT !.type = "empty", !.pub = None, !.sig = None]

cloneEmpty(t) == [t EXCEPT !.witness = FALSE, !.vins = [i \in DOMAIN @ |-> setEmpty(@[i])]]

(***************************************************************************)
(* encodeToBytes.                                                          *)
(***************************************************************************)
Marker == <<"marker">>
LockTime == <<"lockTime">>

toBytes(v, segwitOn) ==
    CASE v.type = "empty" -> IF v.pub = None THEN None ELSE WithLength(v.pub)
      [] v.type = "p2pkh" -> v.sig
      [] v.type = "p2wpkh" -> v.pub
      [] v.type = "bech32" -> None
      [] v.type = "multisig" -> IF segwitOn THEN v.pub ELSE v.multi

\* How many pieces the witness has, and the pieces.  A multisignature's has four
\* whatever number of signatures it carries.
toSegwitBytes(v) ==
    CASE v.type = "p2pkh" -> <<"witness", 0, None>>
      [] v.type \in {"p2wpkh", "bech32"} -> <<"witness", 2, v.sig>>
      [] v.type = "multisig" -> <<"witness", 4, v.multi>>

Items(inCount, ins, outCount, vouts) ==
    <<<<"count", inCount>>>> \o [i \in DOMAIN ins |-> <<"in", i, ins[i]>>]
        \o <<<<"count", outCount>>>> \o [i \in DOMAIN vouts |-> <<"out", vouts[i]>>]

encodeToBytes(t, segwitOn) ==
    (IF t.witness THEN <<Marker>> ELSE << >>)
        \o Items(Byte(Len(t.vins)), [i \in DOMAIN t.vins |-> toBytes(t.vins[i], segwitOn)],
                 Byte(Len(t.vouts)), t.vouts)
        \o (IF t.witness THEN [i \in DOMAIN t.vins |-> toSegwitBytes(t.vins[i])] ELSE << >>)
        \o <<LockTime>>

(***************************************************************************)
(* DecodeRawTransaction: the kind of an input is told from the length of its *)
(* script, which is that of one kind only.                                  *)
(***************************************************************************)
Readable(script, witness) ==
    \/ script = None
    \/ script[1] = "sigpub"
    \/ script[1] \in {"nested", "program"} /\ witness
    \/ script[1] = "multi" /\ ~witness

ReadVin(n, script, witness) ==
    CASE script = None -> [Vin(n) EXCEPT !.type = IF witness THEN "bech32" ELSE "empty"]
      [] script # None /\ script[1] = "sigpub" -> [Vin(n) EXCEPT !.type = "p2pkh", !.sig = script]
      [] script # None /\ script[1] = "nested" -> [Vin(n) EXCEPT !.type = "p2wpkh", !.pub = script]
      [] script # None /\ script[1] = "program" -> [Vin(n) EXCEPT !.type = "multisig", !.pub = script]
      [] script # None /\ script[1] = "multi" -> [Vin(n) EXCEPT !.type = "multisig", !.multi = script]

\* The redeem script in a witness is found by its length, one byte.
WitnessReadable(v, w, segwitOn) ==
    /\ w[1] = "witness"
    /\ \/ v.type = "p2pkh" /\ w[2] = 0
       \/ v.type \in {"p2wpkh", "bech32"} /\ w[2] = 2
       \/ v.type = "multisig" /\ segwitOn /\ w[2] = 4 /\ Size(w[3][3]) < ByteRange

ReadWitness(v, w) ==
    IF v.type = "multisig" THEN [v EXCEPT !.multi = w[3]]
    ELSE IF v.type = "p2pkh" THEN v ELSE [v EXCEPT !.sig = w[3]]

\* Nothing may be left when the lock time has been read.
ExhaustedNever(raw, end) == TRUE             \* mutant
Exhausted(raw, end) == end = Len(raw)

DecodeRawTransaction(raw, segwitOn) ==
    LET witness == raw[1] = Marker
        in == IF witness THEN 2 ELSE 1           \* where the inputs' count is
        ins == raw[in][2][1]
        out == in + ins + 1                      \* where the outputs' is
        outs == raw[out][2][1]
        wit == out + outs                        \* witnesses follow
        end == wit + (IF witness THEN ins ELSE 0) + 1
        vins == [i \in 1..ins |-> ReadVin(raw[in + i][2], raw[in + i][3], witness)]
    IN  IF /\ Len(raw) > 1
           /\ ins # 0
           /\ \A i \in 1..ins : Readable(raw[in + i][3], witness)
           /\ outs # 0
           /\ end <= Len(raw)
           /\ \A i \in 1..outs : raw[out + i][1] = "out"
           /\ witness => \A i \in 1..ins : WitnessReadable(vins[i], raw[wit + i], segwitOn)
           /\ Exhausted(raw, end)
        THEN [witness |-> witness,
              vins |-> IF witness THEN [i \in 1..ins |-> ReadWitness(vins[i], raw[wit + i])] ELSE vins,
              vouts |-> [i \in 1..outs |-> raw[out + i][2]]]
        ELSE NoTx

(***************************************************************************)
(* getHashesForSig: the message each input's signatures are made of.  The    *)
(* signature type is SIGHASH_ALL throughout; other types are refused.        *)
(***************************************************************************)
NoMessage == << >>

UsesWitness(o, segwitOn) == o.kind \in {"p2wpkh", "bech32"} \/ (o.kind = "multisig" /\ segwitOn)

\* What stands for the output in the message: the script a P2WPKH output's hash
\* stands for, the redeem script of a multisignature.
CodeOf(o) == IF o.kind = "multisig" THEN RedeemOf(o) ELSE LockOf(o)

\* The inputs are one array for all rounds: each round first empties all of them.
SetEmptyNone(vins) == vins                   \* mutant
SetEmptyAll(vins) == [i \in DOMAIN vins |-> setEmpty(vins[i])]

\* The array in round i, once getBytesForSig has put its script in.
RoundVins(vins, unlock, segwitOn) ==
    LET Round[i \in 0..Len(unlock)] ==
            IF i = 0 THEN vins
            ELSE LET emptied == SetEmptyAll(Round[i - 1])
                 IN  IF UsesWitness(unlock[i], segwitOn) THEN emptied
                     ELSE [emptied EXCEPT ![i].pub = CodeOf(unlock[i])]
    IN  Round

\* getSegwitBytesForSig refuses an input without an amount.
getBytesForSig(t, i, o, segwitOn) ==
    IF UsesWitness(o, segwitOn)
    THEN IF o.amount = 0 THEN NoMessage
         ELSE <<"witness", Len(t.vins), t.vouts, i, WithLength(CodeOf(o)), o.amount>>
    ELSE <<"legacy", encodeToBytes(t, segwitOn)>>

getHashesForSig(t, unlock, segwitOn) ==
    LET round == RoundVins(t.vins, unlock, segwitOn)
    IN  [i \in DOMAIN unlock |-> getBytesForSig([t EXCEPT !.vins = round[i]], i, unlock[i], segwitOn)]

\* What the node makes the message of input i from: the transaction asked for,
\* with the script in its own place, and the format's integers.
NodeMessage(unlock, outs, i, segwitOn) ==
    LET o == unlock[i]
        code == <<VarInt(Size(CodeOf(o))), CodeOf(o)>>
        vouts == [j \in 1..outs |-> j]
    IN  IF UsesWitness(o, segwitOn)
        THEN <<"witness", Len(unlock), vouts, i, code, o.amount>>
        ELSE <<"legacy", Items(VarInt(Len(unlock)), [j \in DOMAIN unlock |-> IF j = i THEN code ELSE None],
                               VarInt(outs), vouts) \o <<LockTime>>>>
===============================================================================
