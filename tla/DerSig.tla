-------------------------------- MODULE DerSig ---------------------------------
(***************************************************************************)
(* vasTransaction/SignaturePubkey.go: what becomes of a signature between    *)
(* the signing of an input's hash (calcSignaturePubkey), its insertion into  *)
(* the transaction as a DER script (encodeToScript) and its reading when     *)
(* the transaction is verified (decodeFromScriptBytes).                     *)
(*                                                                         *)
(* Numbers are sequences of bytes, the most significant first.  A byte has   *)
(* 256 values and a component of a signature 32 bytes in the code; a model   *)
(* has fewer of both.  A length byte holds any length that occurs: the       *)
(* longest script is 108 bytes long.                                       *)
(***************************************************************************)
EXTENDS Integers, Sequences

CONSTANTS Base,            \* the values of a byte
          W,               \* the bytes of r and of s
          CurveOrder,      \* the order of the curve, and half of it, as the
          HalfCurveOrder,  \* code has them: in bytes
          Signatures       \* what owcrypt.Signature may return: r and s

Bytes == [1..W -> 0..(Base - 1)]

ToNumber(b) ==
    LET value[k \in 0..Len(b)] == IF k = 0 THEN 0 ELSE value[k - 1] * Base + b[k]
    IN  value[Len(b)]

ASSUME DerAssumption ==
    /\ Base \in Nat /\ Base > 1
    /\ W \in Nat /\ W > 2
    /\ CurveOrder \in Bytes /\ HalfCurveOrder \in Bytes
    /\ ToNumber(CurveOrder) = 2 * ToNumber(HalfCurveOrder) + 1
    /\ Signatures \subseteq [r : Bytes, s : Bytes]
    /\ \A x \in Signatures : ToNumber(x.s) \in 1..(ToNumber(CurveOrder) - 1)

VARIABLES pc,       \* "made", "signed", "refused", "inserted", "panic", "read", "invalid"
          raw,      \* r and s as the curve library returned them
          sig,      \* SignaturePubkey.Signature
          script,   \* the input's scriptSig
          read      \* the signature read from it

vars == <<pc, raw, sig, script, read>>

High(byte) == 2 * byte >= Base                        \* byte & 0x80 == 0x80

Prefix(n) == [k \in 1..n |-> 0]

\* big.Int.Bytes: byte after byte from the right, as long as something is left.
ShortBytes(n) ==
    LET left[k \in 0..W] == IF k = 0 THEN n ELSE left[k - 1] \div Base
        len == CHOOSE k \in 0..W : left[k] = 0 /\ \A j \in 0..(k - 1) : left[j] # 0
    IN  [k \in 1..len |-> left[len - k] % Base]

PubLen == W + 1
Pubkey == [k \in 1..PubLen |-> 1]

Init ==
    /\ pc = "made"
    /\ raw \in Signatures
    /\ sig = << >>
    /\ script = << >>
    /\ read = << >>

-------------------------------------------------------------------------------
(* serilizeS.                                                              *)

\* The padding loop compares its counter with a length that grows, so it pads
\* half of what is missing, rounded up.
PaddingDown(missing) == missing \div 2                 \* mutant
Padding(missing) == (missing + 1) \div 2

\* A high s is replaced by its complement.
TooHighNever(n) == FALSE                              \* mutant
TooHigh(n) == n > ToNumber(HalfCurveOrder)

SerializeS(s) ==
    IF TooHigh(ToNumber(s))
    THEN LET b == ShortBytes(ToNumber(CurveOrder) - ToNumber(s))
         IN  Prefix(Padding(W - Len(b))) \o b
    ELSE s

Sign ==
    /\ pc = "made"
    /\ sig' = raw.r \o SerializeS(raw.s)
    /\ pc' = "signed"
    /\ UNCHANGED <<raw, script, read>>

-------------------------------------------------------------------------------
(* encodeToScript, with encodeSignatureToScript.                           *)

\* A signature that is not 2 W bytes long is refused.
Refuse ==
    /\ pc = "signed"
    /\ Len(sig) # 2 * W
    /\ pc' = "refused"
    /\ UNCHANGED <<raw, sig, script, read>>

\* The loop that takes leading zeros off a component: its counter i moves on
\* while the bytes move down, so its k-th pass looks at bytes k and k + 1 of what
\* is left, which were bytes 2k - 1 and 2k.  The index may run out of range.
Drops(b, k) == b[k] = 0 /\ ~High(b[k + 1])

OutOfRange(b, k) == k > Len(b) \/ (b[k] = 0 /\ k + 1 > Len(b))

Passes(b) ==
    LET pass[k \in 0..W] ==
            IF k = 0 THEN [bytes |-> b, end |-> "no"]
            ELSE LET p == pass[k - 1] IN
                 IF p.end # "no" THEN p
                 ELSE IF OutOfRange(p.bytes, k) THEN [p EXCEPT !.end = "panic"]
                 ELSE IF Drops(p.bytes, k) THEN [p EXCEPT !.bytes = Tail(@)]
                 ELSE [p EXCEPT !.end = "break"]
    IN  pass[W]

\* A component whose first byte is high gets a zero, so as not to be negative.
NeedsSignByte(b) == High(b[1])

Panics(b) == ~High(b[1]) /\ Passes(b).end = "panic"
Component(b) == IF NeedsSignByte(b) THEN <<0>> \o b ELSE Passes(b).bytes

Framed(tag, b) == <<tag, Len(b)>> \o b
Pushed(b) == <<Len(b)>> \o b

SigHashAll == 1

R == SubSeq(sig, 1, W)
S == SubSeq(sig, W + 1, 2 * W)

ScriptOf(r, s) ==
    Pushed(Framed(48, Framed(2, r) \o Framed(2, s)) \o <<SigHashAll>>) \o Pushed(Pubkey)

InsertPanics ==
    /\ pc = "signed"
    /\ Len(sig) = 2 * W
    /\ Panics(R) \/ Panics(S)
    /\ pc' = "panic"
    /\ UNCHANGED <<raw, sig, script, read>>

Insert ==
    /\ pc = "signed"
    /\ Len(sig) = 2 * W
    /\ ~Panics(R) /\ ~Panics(S)
    /\ script' = ScriptOf(Component(R), Component(S))
    /\ pc' = "inserted"
    /\ UNCHANGED <<raw, sig, read>>

-------------------------------------------------------------------------------
(* decodeFromScriptBytes.                                                  *)

Slice(b, from, n) == SubSeq(b, from, from + n - 1)

\* A component of n bytes: the sign byte taken off, or zeros put before it.
Unpack(b) == IF Len(b) = W + 1 THEN Tail(b) ELSE Prefix(W - Len(b)) \o b

BadComponentStrict(b, at) == b[at] # 2 \/ b[at + 1] > W     \* mutant: no sign byte
BadComponent(b, at) ==
    \/ b[at] # 2
    \/ b[at + 1] > W + 1
    \/ b[at + 1] = W + 1 /\ b[at + 2] # 0 /\ ~High(b[at + 3])

\* A component that needs no zeros is a slice of the script itself, and s is
\* appended to it in place, over what follows r in the script.
AppendedOver(b, from, value) ==
    [k \in DOMAIN b |-> IF k \in from..(from + Len(value) - 1) THEN value[k - from + 1] ELSE b[k]]

Read ==
    LET rLen == script[5]
        r == Slice(script, 6, rLen)
        sAt == 6 + rLen
        sLen == script[sAt + 1]
        s == Unpack(Slice(script, sAt + 2, sLen))
        after == IF rLen >= W THEN AppendedOver(script, sAt, s) ELSE script
        typeAt == sAt + 2 + sLen
        pubLen == after[typeAt + 1]
        fits ==
            /\ ~BadComponent(script, 4)
            /\ ~BadComponent(script, sAt)
            /\ pubLen = PubLen
            /\ rLen + sLen + 4 = script[3]
            /\ script[3] + 3 = script[1]
            /\ script[1] + pubLen + 2 = Len(script)
    IN  /\ pc = "inserted"
        /\ pc' = IF fits THEN "read" ELSE "invalid"
        /\ read' = IF fits THEN Unpack(r) \o s ELSE << >>
        /\ UNCHANGED <<raw, sig, script>>

Next == Sign \/ Refuse \/ InsertPanics \/ Insert \/ Read

Spec == Init /\ [][Next]_vars

-------------------------------------------------------------------------------
(* Properties.                                                             *)

\* The s of a signature is never above half the order, and is the one the
\* library returned or its complement, however many bytes it is left with: a
\* node relays no transaction with a high s.
LowS ==
    pc # "made" =>
        LET s == ToNumber(SubSeq(sig, W + 1, Len(sig)))
        IN  /\ s <= ToNumber(HalfCurveOrder)
            /\ s \in {ToNumber(raw.s), ToNumber(CurveOrder) - ToNumber(raw.s)}

\* A signature is refused for its length exactly when the complement of its s lacks
\* two bytes or more: the padding loop makes up for one.
ShortWhenRefused ==
    pc # "made" =>
        (Len(sig) # 2 * W
            <=> /\ TooHigh(ToNumber(raw.s))
                /\ Len(ShortBytes(ToNumber(CurveOrder) - ToNumber(raw.s))) + 2 <= W)

\* A component the zero-dropping loop treats as it should: it has no two zeros
\* among its first three bytes.
Ordinary(b) == \A i, j \in 1..3 : b[i] = 0 /\ b[j] = 0 => i = j

\* A signature with ordinary components, shorter ones and high ones included,
\* is inserted, and is read back as it was signed.
OrdinarySurvives ==
    pc # "made" /\ Len(sig) = 2 * W /\ Ordinary(R) /\ Ordinary(S) =>
        pc \in {"signed", "inserted", "read"} /\ (pc = "read" => read = sig)
===============================================================================
