------------------------------ MODULE RawTxProofs ------------------------------
(***************************************************************************)
(* Proofs about RawTx, for every set of transfers and outputs, every number *)
(* of inputs and however often something fails.                            *)
(***************************************************************************)
EXTENDS RawTx, TLAPS

-------------------------------------------------------------------------------
(* The inductive invariant.                                                *)

Types ==
    /\ pc \in [Transfers -> {"idle", "build", "lookUp"}]
    /\ chosen \in [Transfers -> Inputs \union {<< >>}]
    /\ rawHex \in [Transfers -> [ins : Inputs \union {<< >>}, sigs : Seq(Signature)]]
    /\ signatures \in [Transfers -> Seq(Signature)]
    /\ locks \in [Transfers -> Seq(Lock)]
    /\ isBuilt \in [Transfers -> BOOLEAN]
    /\ isCompleted \in [Transfers -> BOOLEAN]
    /\ isSubmit \in [Transfers -> BOOLEAN]
    /\ stale \in [Transfers -> BOOLEAN]
    /\ faults \in Nat
    /\ spent \subseteq Outputs
    /\ accepted \subseteq Transfers
    /\ unheard \subseteq Transfers

\* Between CreateRawTransaction's choice and its end nothing is built; once it
\* is, there is a signature for each input, and only then is anything verified.
Progress(t) ==
    /\ pc[t] = "build" => ~isBuilt[t] /\ chosen[t] \in Inputs
    /\ pc[t] = "lookUp" => isBuilt[t]
    /\ isBuilt[t] => rawHex[t].ins \in Inputs /\ Len(signatures[t]) = Len(rawHex[t].ins)
    /\ ~isBuilt[t] => signatures[t] = << >> /\ rawHex[t].sigs = << >> /\ locks[t] = << >>
    /\ Len(locks[t]) <= Len(rawHex[t].ins)

\* What RawHex carries it carries for every input, and once completed it is good.
Signed(t) ==
    /\ Len(rawHex[t].sigs) \in {0, Len(rawHex[t].ins)}
    /\ isCompleted[t] =>
          isBuilt[t] /\ AllGood(rawHex[t]) /\ Len(rawHex[t].sigs) = Len(rawHex[t].ins)

\* An input that was spent when the verification began has been seen to have no
\* lock script, or will be.
SeenOrToCome(t) ==
    stale[t] /\ pc[t] = "lookUp" =>
        \E i \in 1..Len(rawHex[t].ins) :
            /\ rawHex[t].ins[i] \in spent
            /\ i <= Len(locks[t]) => locks[t][i] = ""

TransferInv(t) == Progress(t) /\ Signed(t) /\ SeenOrToCome(t)

RawInv ==
    /\ Types
    /\ \A t \in Transfers : TransferInv(t)
    /\ SentIsSigned
    /\ SubmittedIsAccepted

-------------------------------------------------------------------------------
(* Sequences.                                                              *)

\* The inputs of a transfer are a sequence of outputs that is not empty.
LEMMA InputsType ==
    ASSUME NEW ins \in Inputs
    PROVE  /\ ins \in Seq(Outputs)
           /\ Len(ins) \in Nat \ {0}
           /\ DOMAIN ins = 1..Len(ins)
           /\ ins # << >>
<1>1. PICK n \in 1..MaxInputs : ins \in [1..n -> Outputs]
  BY DEF Inputs
<1>2. n \in Nat \ {0} /\ MaxInputs \in Nat
  BY <1>1, RawTxAssumption, SMT DEF RawTxAssumption
<1>3. ins \in Seq(Outputs) /\ Len(ins) = n
  BY <1>1, <1>2, SMT
<1> QED
  BY <1>2, <1>3, SMT

\* Replacing the entries of a sequence keeps its length.
LEMMA Relabelled ==
    ASSUME NEW S, NEW s \in Seq(S), NEW f,
           f = [i \in DOMAIN s |-> f[i]], \A i \in DOMAIN s : f[i] \in Signature
    PROVE  f \in Seq(Signature) /\ Len(f) = Len(s) /\ DOMAIN f = DOMAIN s
<1>1. Len(s) \in Nat /\ DOMAIN s = 1..Len(s)
  OBVIOUS
<1>2. f \in [1..Len(s) -> Signature]
  BY <1>1
<1> QED
  BY <1>1, <1>2, SMT

\* Appending keeps what was there.
LEMMA Appended ==
    ASSUME NEW S, NEW s \in Seq(S), NEW e \in S
    PROVE  /\ Append(s, e) \in Seq(S)
           /\ Len(s) \in Nat
           /\ Len(Append(s, e)) = Len(s) + 1
           /\ \A i \in 1..Len(s) : Append(s, e)[i] = s[i]
           /\ Append(s, e)[Len(s) + 1] = e
BY SMT

\* A failure leaves fewer to come.
LEMMA FaultType ==
    ASSUME faults \in Nat, Fault
    PROVE  faults' \in Nat
BY SMT DEF Fault

-------------------------------------------------------------------------------
(* What a step of one transfer leaves of the others.                       *)

Untouched(u) ==
    /\ pc'[u] = pc[u]
    /\ chosen'[u] = chosen[u]
    /\ rawHex'[u] = rawHex[u]
    /\ signatures'[u] = signatures[u]
    /\ isBuilt'[u] = isBuilt[u]
    /\ isCompleted'[u] = isCompleted[u]
    /\ locks'[u] = locks[u]
    /\ stale'[u] = stale[u]

LEMMA Frame ==
    ASSUME NEW u \in Transfers, TransferInv(u), Untouched(u), spent \subseteq spent'
    PROVE  TransferInv(u)'
<1>1. Progress(u)' /\ Signed(u)'
  BY DEF TransferInv, Progress, Signed, AllGood, Untouched
<1>2. SeenOrToCome(u)'
  <2> SUFFICES ASSUME stale[u] /\ pc[u] = "lookUp"
               PROVE  \E i \in 1..Len(rawHex[u].ins) :
                          /\ rawHex[u].ins[i] \in spent'
                          /\ i <= Len(locks[u]) => locks[u][i] = ""
    BY DEF SeenOrToCome, Untouched
  <2> QED
    BY DEF TransferInv, SeenOrToCome
<1> QED
  BY <1>1, <1>2 DEF TransferInv
-------------------------------------------------------------------------------
(* Each action preserves the invariant.                                  *)

\* The choice: a sequence of unspent outputs.
LEMMA ChooseStep ==
    ASSUME RawInv, NEW t \in Transfers, Choose(t)
    PROVE  RawInv'
<1> USE DEF Choose
<1>1. Types /\ TransferInv(t) /\ SentIsSigned /\ SubmittedIsAccepted
  BY DEF RawInv
<1>2. Types'
  BY <1>1 DEF Types, rawVars, nodeVars, ghostVars
<1>3. TransferInv(t)'
  BY <1>1 DEF Types, TransferInv, Progress, Signed, SeenOrToCome, AllGood, rawVars,
     nodeVars, ghostVars
<1>4. \A u \in Transfers : u # t => TransferInv(u)'
  <2> SUFFICES ASSUME NEW u \in Transfers, u # t PROVE TransferInv(u)'
    OBVIOUS
  <2>1. Untouched(u) /\ spent \subseteq spent'
    BY <1>1 DEF Types, Untouched, rawVars, nodeVars, ghostVars
  <2> QED
    BY <2>1, Frame DEF RawInv
<1>5. SentIsSigned'
  BY <1>1 DEF SentIsSigned, SubmittedIsAccepted, rawVars, nodeVars, ghostVars
<1>6. SubmittedIsAccepted'
  BY <1>1 DEF SentIsSigned, SubmittedIsAccepted, rawVars, nodeVars, ghostVars
<1> QED
  BY <1>2, <1>3, <1>4, <1>5, <1>6 DEF RawInv

\* A build that fails at first.
LEMMA BuildFailsStep ==
    ASSUME RawInv, NEW t \in Transfers, BuildFails(t)
    PROVE  RawInv'
<1> USE DEF BuildFails
<1>1. Types /\ TransferInv(t) /\ SentIsSigned /\ SubmittedIsAccepted
  BY DEF RawInv
<1>2. Types'
  BY <1>1, FaultType DEF Types, rawVars, nodeVars, ghostVars
<1>3. TransferInv(t)'
  BY <1>1 DEF Types, TransferInv, Progress, Signed, SeenOrToCome, AllGood, rawVars,
     nodeVars, ghostVars
<1>4. \A u \in Transfers : u # t => TransferInv(u)'
  <2> SUFFICES ASSUME NEW u \in Transfers, u # t PROVE TransferInv(u)'
    OBVIOUS
  <2>1. Untouched(u) /\ spent \subseteq spent'
    BY <1>1 DEF Types, Untouched, rawVars, nodeVars, ghostVars
  <2> QED
    BY <2>1, Frame DEF RawInv
<1>5. SentIsSigned'
  BY <1>1 DEF SentIsSigned, SubmittedIsAccepted, rawVars, nodeVars, ghostVars
<1>6. SubmittedIsAccepted'
  BY <1>1 DEF SentIsSigned, SubmittedIsAccepted, rawVars, nodeVars, ghostVars
<1> QED
  BY <1>2, <1>3, <1>4, <1>5, <1>6 DEF RawInv

\* A build that fails half way: RawHex is set, nothing is built.
LEMMA BuildHalfStep ==
    ASSUME RawInv, NEW t \in Transfers, BuildHalf(t)
    PROVE  RawInv'
<1> USE DEF BuildHalf, BuiltAfterError, EmptyTx
<1>1. Types /\ TransferInv(t) /\ SentIsSigned /\ SubmittedIsAccepted
  BY DEF RawInv
<1>2. Types'
  <2>1. chosen[t] \in Inputs /\ chosen[t] \in Inputs \union {<< >>}
    BY <1>1 DEF TransferInv, Progress
  <2>2. << >> \in Seq(Signature)
    OBVIOUS
  <2>3. rawHex' \in [Transfers -> [ins : Inputs \union {<< >>}, sigs : Seq(Signature)]]
    BY <1>1, <2>1, <2>2 DEF Types
  <2> QED
    BY <1>1, <2>3, FaultType DEF Types, nodeVars, ghostVars
<1>3. TransferInv(t)'
  <2>1. chosen[t] \in Inputs /\ ~isBuilt[t] /\ signatures[t] = << >> /\ locks[t] = << >>
    BY <1>1 DEF TransferInv, Progress
  <2>2. ~isCompleted[t]
    BY <1>1, <2>1 DEF TransferInv, Signed
  <2>3. rawHex'[t].ins = chosen[t] /\ rawHex'[t].sigs = << >>
    BY <1>1 DEF Types
  <2>4. Len(chosen[t]) \in Nat /\ Len(<< >>) = 0
    BY <2>1, InputsType
  <2>5. Progress(t)'
    <3>1. pc'[t] = "idle" /\ ~isBuilt'[t] /\ locks'[t] = << >> /\ signatures'[t] = << >>
      BY <1>1, <2>1 DEF Types
    <3> QED
      BY <2>3, <2>4, <3>1 DEF Progress
  <2>6. Signed(t)'
    BY <1>1, <2>2, <2>3, <2>4 DEF Types, Signed
  <2>7. SeenOrToCome(t)'
    BY <1>1 DEF Types, SeenOrToCome
  <2> QED
    BY <2>5, <2>6, <2>7 DEF TransferInv
<1>4. \A u \in Transfers : u # t => TransferInv(u)'
  <2> SUFFICES ASSUME NEW u \in Transfers, u # t PROVE TransferInv(u)'
    OBVIOUS
  <2>1. Untouched(u) /\ spent \subseteq spent'
    BY <1>1 DEF Types, Untouched, rawVars, nodeVars, ghostVars
  <2> QED
    BY <2>1, Frame DEF RawInv
<1>5. SentIsSigned'
  BY <1>1 DEF SentIsSigned, SubmittedIsAccepted, rawVars, nodeVars, ghostVars
<1>6. SubmittedIsAccepted'
  BY <1>1 DEF SentIsSigned, SubmittedIsAccepted, rawVars, nodeVars, ghostVars
<1> QED
  BY <1>2, <1>3, <1>4, <1>5, <1>6 DEF RawInv

\* The build: a signature to make for each input.
LEMMA BuildStep ==
    ASSUME RawInv, NEW t \in Transfers, Build(t)
    PROVE  RawInv'
<1> USE DEF Build, EmptyTx, Unsigned
<1>0. signatures'[t] \in Seq(Signature) /\ Len(signatures'[t]) = Len(chosen[t])
  <2>1. chosen[t] \in Seq(Outputs)
    BY InputsType DEF RawInv, TransferInv, Progress
  <2>2. signatures'[t] = [i \in DOMAIN chosen[t] |-> "unsigned"]
    BY DEF RawInv, Types
  <2> QED
    BY <2>1, <2>2, Relabelled DEF Signature
<1>1. Types /\ TransferInv(t) /\ SentIsSigned /\ SubmittedIsAccepted
  BY DEF RawInv
<1>2. Types'
  <2>1. chosen[t] \in Inputs /\ chosen[t] \in Inputs \union {<< >>}
    BY <1>1 DEF TransferInv, Progress
  <2>2. << >> \in Seq(Signature)
    OBVIOUS
  <2>3. rawHex' \in [Transfers -> [ins : Inputs \union {<< >>}, sigs : Seq(Signature)]]
    BY <1>1, <2>1, <2>2 DEF Types
  <2>4. signatures' \in [Transfers -> Seq(Signature)]
    BY <1>0, <1>1 DEF Types
  <2> QED
    BY <1>1, <2>3, <2>4 DEF Types, nodeVars, ghostVars
<1>3. TransferInv(t)'
  <2>1. chosen[t] \in Inputs /\ ~isBuilt[t] /\ locks[t] = << >>
    BY <1>1 DEF TransferInv, Progress
  <2>2. ~isCompleted[t]
    BY <1>1, <2>1 DEF TransferInv, Signed
  <2>3. rawHex'[t].ins = chosen[t] /\ rawHex'[t].sigs = << >> /\ isBuilt'[t]
    BY <1>1 DEF Types
  <2>4. Len(chosen[t]) \in Nat /\ Len(<< >>) = 0
    BY <2>1, InputsType
  <2>5. Progress(t)'
    <3>1. pc'[t] = "idle" /\ isBuilt'[t] /\ locks'[t] = << >>
      BY <1>1, <2>1 DEF Types
    <3> QED
      BY <1>0, <2>1, <2>3, <2>4, <3>1 DEF Progress
  <2>6. Signed(t)'
    BY <1>1, <2>2, <2>3, <2>4 DEF Types, Signed
  <2>7. SeenOrToCome(t)'
    BY <1>1 DEF Types, SeenOrToCome
  <2> QED
    BY <2>5, <2>6, <2>7 DEF TransferInv
<1>4. \A u \in Transfers : u # t => TransferInv(u)'
  <2> SUFFICES ASSUME NEW u \in Transfers, u # t PROVE TransferInv(u)'
    OBVIOUS
  <2>1. Untouched(u) /\ spent \subseteq spent'
    BY <1>1 DEF Types, Untouched, rawVars, nodeVars, ghostVars
  <2> QED
    BY <2>1, Frame DEF RawInv
<1>5. SentIsSigned'
  BY <1>1 DEF SentIsSigned, SubmittedIsAccepted, rawVars, nodeVars, ghostVars
<1>6. SubmittedIsAccepted'
  BY <1>1 DEF SentIsSigned, SubmittedIsAccepted, rawVars, nodeVars, ghostVars
<1> QED
  BY <1>2, <1>3, <1>4, <1>5, <1>6 DEF RawInv

\* Signing changes the number of no signatures.
LEMMA SignAllStep ==
    ASSUME RawInv, NEW t \in Transfers, SignAll(t)
    PROVE  RawInv'
<1> USE DEF SignAll, MaySign
<1>0. /\ signatures'[t] \in Seq(Signature) /\ Len(signatures'[t]) = Len(signatures[t])
      /\ signatures' = [signatures EXCEPT ![t] = signatures'[t]]
  <2>1. signatures[t] \in Seq(Signature) /\ signatures \in [Transfers -> Seq(Signature)]
    BY DEF RawInv, Types
  <2>2. signatures'[t] = [i \in DOMAIN signatures[t] |-> "good"]
    BY <2>1
  <2>3. signatures' = [signatures EXCEPT ![t] = signatures'[t]]
    BY <2>1, <2>2
  <2>4. \A i \in DOMAIN signatures[t] : signatures'[t][i] \in Signature
    BY <2>1, <2>2 DEF Signature
  <2>5. signatures'[t] = [i \in DOMAIN signatures[t] |-> signatures'[t][i]]
    BY <2>2
  <2> QED
    BY <2>1, <2>3, <2>4, <2>5, Relabelled
<1>1. Types /\ TransferInv(t) /\ SentIsSigned /\ SubmittedIsAccepted
  BY DEF RawInv
<1>2. Types'
  <2>1. signatures'[t] \in Seq(Signature) /\ Len(signatures'[t]) = Len(signatures[t])
    BY <1>0
  <2>2. signatures' \in [Transfers -> Seq(Signature)]
    BY <1>1, <2>1 DEF Types
  <2> QED
    BY <1>1, <2>2 DEF Types, rawVars, nodeVars, ghostVars
<1>3. TransferInv(t)'
  BY <1>0, <1>1 DEF Types, TransferInv, Progress, Signed, SeenOrToCome, AllGood,
     ghostVars, nodeVars
<1>4. \A u \in Transfers : u # t => TransferInv(u)'
  <2> SUFFICES ASSUME NEW u \in Transfers, u # t PROVE TransferInv(u)'
    OBVIOUS
  <2>1. Untouched(u) /\ spent \subseteq spent'
    BY <1>1 DEF Types, Untouched, rawVars, nodeVars, ghostVars
  <2> QED
    BY <2>1, Frame DEF RawInv
<1>5. SentIsSigned'
  BY <1>1 DEF SentIsSigned, SubmittedIsAccepted, rawVars, nodeVars, ghostVars
<1>6. SubmittedIsAccepted'
  BY <1>1 DEF SentIsSigned, SubmittedIsAccepted, rawVars, nodeVars, ghostVars
<1> QED
  BY <1>2, <1>3, <1>4, <1>5, <1>6 DEF RawInv

\* Nor does signing that fails half way.
LEMMA SignSomeStep ==
    ASSUME RawInv, NEW t \in Transfers, SignSome(t)
    PROVE  RawInv'
<1> USE DEF SignSome, MaySign
<1>0. /\ signatures'[t] \in Seq(Signature) /\ Len(signatures'[t]) = Len(signatures[t])
      /\ signatures' = [signatures EXCEPT ![t] = signatures'[t]]
  <2>0. PICK n \in DOMAIN signatures[t] :
               signatures' = [signatures EXCEPT ![t] = [i \in DOMAIN @ |-> IF i < n THEN "good" ELSE @[i]]]
    OBVIOUS
  <2>1. signatures[t] \in Seq(Signature) /\ signatures \in [Transfers -> Seq(Signature)]
    BY DEF RawInv, Types
  <2>2. signatures'[t] = [i \in DOMAIN signatures[t] |-> IF i < n THEN "good" ELSE signatures[t][i]]
    BY <2>1, <2>0
  <2>3. signatures' = [signatures EXCEPT ![t] = signatures'[t]]
    BY <2>1, <2>2, <2>0
  <2>4. \A i \in DOMAIN signatures[t] : signatures'[t][i] \in Signature
    BY <2>1, <2>2, <2>0 DEF Signature
  <2>5. signatures'[t] = [i \in DOMAIN signatures[t] |-> signatures'[t][i]]
    BY <2>2
  <2> QED
    BY <2>1, <2>3, <2>4, <2>5, Relabelled
<1>1. Types /\ TransferInv(t) /\ SentIsSigned /\ SubmittedIsAccepted
  BY DEF RawInv
<1>2. Types'
  <2>1. signatures'[t] \in Seq(Signature) /\ Len(signatures'[t]) = Len(signatures[t])
    BY <1>0
  <2>2. signatures' \in [Transfers -> Seq(Signature)]
    BY <1>1, <2>1 DEF Types
  <2> QED
    BY <1>1, <2>2, FaultType DEF Types, rawVars, nodeVars, ghostVars
<1>3. TransferInv(t)'
  BY <1>0, <1>1 DEF Types, TransferInv, Progress, Signed, SeenOrToCome, AllGood,
     ghostVars, nodeVars
<1>4. \A u \in Transfers : u # t => TransferInv(u)'
  <2> SUFFICES ASSUME NEW u \in Transfers, u # t PROVE TransferInv(u)'
    OBVIOUS
  <2>1. Untouched(u) /\ spent \subseteq spent'
    BY <1>1 DEF Types, Untouched, rawVars, nodeVars, ghostVars
  <2> QED
    BY <2>1, Frame DEF RawInv
<1>5. SentIsSigned'
  BY <1>1 DEF SentIsSigned, SubmittedIsAccepted, rawVars, nodeVars, ghostVars
<1>6. SubmittedIsAccepted'
  BY <1>1 DEF SentIsSigned, SubmittedIsAccepted, rawVars, nodeVars, ghostVars
<1> QED
  BY <1>2, <1>3, <1>4, <1>5, <1>6 DEF RawInv

\* Nor does a signature the script cannot carry.
LEMMA SignOddlyStep ==
    ASSUME RawInv, NEW t \in Transfers, SignOddly(t)
    PROVE  RawInv'
<1> USE DEF SignOddly, MaySign
<1>0. /\ signatures'[t] \in Seq(Signature) /\ Len(signatures'[t]) = Len(signatures[t])
      /\ signatures' = [signatures EXCEPT ![t] = signatures'[t]]
  <2>0. PICK n \in DOMAIN signatures[t], s \in {"short", "mangled"} :
               signatures' = [signatures EXCEPT ![t] = [i \in DOMAIN @ |-> IF i = n THEN s ELSE "good"]]
    OBVIOUS
  <2>1. signatures[t] \in Seq(Signature) /\ signatures \in [Transfers -> Seq(Signature)]
    BY DEF RawInv, Types
  <2>2. signatures'[t] = [i \in DOMAIN signatures[t] |-> IF i = n THEN s ELSE "good"]
    BY <2>1, <2>0
  <2>3. signatures' = [signatures EXCEPT ![t] = signatures'[t]]
    BY <2>1, <2>2, <2>0
  <2>4. \A i \in DOMAIN signatures[t] : signatures'[t][i] \in Signature
    BY <2>1, <2>2, <2>0 DEF Signature
  <2>5. signatures'[t] = [i \in DOMAIN signatures[t] |-> signatures'[t][i]]
    BY <2>2
  <2> QED
    BY <2>1, <2>3, <2>4, <2>5, Relabelled
<1>1. Types /\ TransferInv(t) /\ SentIsSigned /\ SubmittedIsAccepted
  BY DEF RawInv
<1>2. Types'
  <2>1. signatures'[t] \in Seq(Signature) /\ Len(signatures'[t]) = Len(signatures[t])
    BY <1>0
  <2>2. signatures' \in [Transfers -> Seq(Signature)]
    BY <1>1, <2>1 DEF Types
  <2> QED
    BY <1>1, <2>2, FaultType DEF Types, rawVars, nodeVars, ghostVars
<1>3. TransferInv(t)'
  BY <1>0, <1>1 DEF Types, TransferInv, Progress, Signed, SeenOrToCome, AllGood,
     ghostVars, nodeVars
<1>4. \A u \in Transfers : u # t => TransferInv(u)'
  <2> SUFFICES ASSUME NEW u \in Transfers, u # t PROVE TransferInv(u)'
    OBVIOUS
  <2>1. Untouched(u) /\ spent \subseteq spent'
    BY <1>1 DEF Types, Untouched, rawVars, nodeVars, ghostVars
  <2> QED
    BY <2>1, Frame DEF RawInv
<1>5. SentIsSigned'
  BY <1>1 DEF SentIsSigned, SubmittedIsAccepted, rawVars, nodeVars, ghostVars
<1>6. SubmittedIsAccepted'
  BY <1>1 DEF SentIsSigned, SubmittedIsAccepted, rawVars, nodeVars, ghostVars
<1> QED
  BY <1>2, <1>3, <1>4, <1>5, <1>6 DEF RawInv

\* The start of a verification: an input spent by now is to be seen.
LEMMA VerifyStartStep ==
    ASSUME RawInv, NEW t \in Transfers, VerifyStart(t)
    PROVE  RawInv'
<1> USE DEF VerifyStart
<1>1. Types /\ TransferInv(t) /\ SentIsSigned /\ SubmittedIsAccepted
  BY DEF RawInv
<1>2. Types'
  <2>0. << >> \in Seq(Lock)
    OBVIOUS
  <2>1. locks' \in [Transfers -> Seq(Lock)]
    BY <1>1, <2>0 DEF Types
  <2>2. stale' \in [Transfers -> BOOLEAN]
    BY <1>1 DEF Types, InputSpent
  <2> QED
    BY <1>1, <2>1, <2>2 DEF Types, rawVars, nodeVars
<1>3. TransferInv(t)'
  <2>1. /\ isBuilt[t]
        /\ Len(rawHex[t].ins) \in Nat /\ DOMAIN rawHex[t].ins = 1..Len(rawHex[t].ins)
    BY <1>1, InputsType DEF TransferInv, Progress
  <2>2. /\ pc'[t] = "lookUp" /\ stale'[t] = InputSpent(t) /\ isBuilt'[t]
        /\ locks'[t] = << >> /\ Len(locks'[t]) = 0
        /\ rawHex' = rawHex /\ signatures' = signatures /\ spent' = spent
    BY <1>1, <2>1 DEF Types, rawVars, nodeVars
  <2>3. Progress(t)'
    BY <1>1, <2>1, <2>2 DEF TransferInv, Progress
  <2>4. Signed(t)'
    BY <1>1 DEF TransferInv, Signed, AllGood, rawVars
  <2>5. SeenOrToCome(t)'
    <3> SUFFICES ASSUME InputSpent(t)
                 PROVE  \E i \in 1..Len(rawHex[t].ins) :
                            /\ rawHex[t].ins[i] \in spent
                            /\ i <= 0 => locks'[t][i] = ""
      BY <2>2 DEF SeenOrToCome
    <3>1. PICK i \in 1..Len(rawHex[t].ins) : rawHex[t].ins[i] \in spent
      BY <2>1 DEF InputSpent
    <3>2. ~(i <= 0)
      BY <2>1, <3>1
    <3> QED
      BY <3>1, <3>2
  <2> QED
    BY <2>3, <2>4, <2>5 DEF TransferInv
<1>4. \A u \in Transfers : u # t => TransferInv(u)'
  <2> SUFFICES ASSUME NEW u \in Transfers, u # t PROVE TransferInv(u)'
    OBVIOUS
  <2>1. Untouched(u) /\ spent \subseteq spent'
    BY <1>1 DEF Types, Untouched, rawVars, nodeVars, ghostVars
  <2> QED
    BY <2>1, Frame DEF RawInv
<1>5. SentIsSigned'
  BY <1>1 DEF SentIsSigned, SubmittedIsAccepted, rawVars, nodeVars, ghostVars
<1>6. SubmittedIsAccepted'
  BY <1>1 DEF SentIsSigned, SubmittedIsAccepted, rawVars, nodeVars, ghostVars
<1> QED
  BY <1>2, <1>3, <1>4, <1>5, <1>6 DEF RawInv

\* A look-up: of a spent output it finds no lock script.
LEMMA VerifyLookUpStep ==
    ASSUME RawInv, NEW t \in Transfers, VerifyLookUp(t)
    PROVE  RawInv'
<1> DEFINE n == Len(locks[t])
           lock == LockScript(rawHex[t].ins[n + 1])
<1>1. Types /\ TransferInv(t) /\ SentIsSigned /\ SubmittedIsAccepted
  BY DEF RawInv
<1>2. /\ pc[t] = "lookUp"
      /\ n < Len(rawHex[t].ins)
      /\ locks' = [locks EXCEPT ![t] = Append(locks[t], lock)]
      /\ UNCHANGED <<pc, rawVars, faults, nodeVars, ghostVars>>
  BY DEF VerifyLookUp
<1>3. /\ locks'[t] = Append(locks[t], lock)
      /\ locks[t] \in Seq(Lock)
      /\ lock \in Lock
      /\ lock = "" <=> rawHex[t].ins[n + 1] \in spent
  BY <1>1, <1>2 DEF Types, LockScript, Lock
<1> HIDE DEF lock
<1>4. /\ locks'[t] \in Seq(Lock)
      /\ n \in Nat
      /\ Len(locks'[t]) = n + 1
      /\ \A i \in 1..n : locks'[t][i] = locks[t][i]
      /\ locks'[t][n + 1] = lock
  <2>1. locks[t] \in Seq(Lock) /\ lock \in Lock
    BY <1>3
  <2>2. n \in Nat
    BY <2>1
  <2>3. /\ Append(locks[t], lock) \in Seq(Lock)
        /\ Len(Append(locks[t], lock)) = n + 1
        /\ \A i \in 1..n : Append(locks[t], lock)[i] = locks[t][i]
        /\ Append(locks[t], lock)[n + 1] = lock
    BY <2>1, Appended
  <2> QED
    BY <1>3, <2>2, <2>3, Zenon
<1> HIDE DEF n
<1>5. Types'
  <2>1. locks' \in [Transfers -> Seq(Lock)]
    BY <1>1, <1>2, <1>4 DEF Types
  <2> QED
    BY <1>1, <1>2, <2>1 DEF Types, rawVars, nodeVars, ghostVars
<1>6. TransferInv(t)'
  <2>1. /\ isBuilt[t] /\ isBuilt' = isBuilt /\ pc' = pc /\ stale' = stale
        /\ rawHex' = rawHex /\ signatures' = signatures /\ spent' = spent
    BY <1>1, <1>2 DEF TransferInv, Progress, rawVars, nodeVars, ghostVars
  <2>2. Len(rawHex[t].ins) \in Nat
    BY <1>1, <2>1, InputsType DEF TransferInv, Progress
  <2>3. Progress(t)'
    <3>1. n + 1 <= Len(rawHex[t].ins)
      <4>1. n < Len(rawHex[t].ins) /\ n \in Nat
        BY <1>2, <1>4
      <4> QED
        BY <2>2, <4>1
    <3>2. Len(locks'[t]) <= Len(rawHex'[t].ins)
      BY <1>4, <2>1, <3>1
    <3> QED
      BY <1>1, <1>2, <2>1, <3>2 DEF TransferInv, Progress
  <2>4. Signed(t)'
    BY <1>1, <1>2 DEF TransferInv, Signed, AllGood, rawVars
  <2>5. SeenOrToCome(t)'
    <3> SUFFICES ASSUME stale[t]
                 PROVE  \E i \in 1..Len(rawHex[t].ins) :
                            /\ rawHex[t].ins[i] \in spent
                            /\ i <= n + 1 => locks'[t][i] = ""
      BY <1>4, <2>1 DEF SeenOrToCome
    <3>1. PICK i \in 1..Len(rawHex[t].ins) :
              /\ rawHex[t].ins[i] \in spent
              /\ i <= n => locks[t][i] = ""
      BY <1>1, <1>2 DEF TransferInv, SeenOrToCome, n
    <3>0. n \in Nat /\ i \in Int /\ 1 <= i
      <4>1. n \in Nat
        BY <1>4
      <4>2. i \in 1..Len(rawHex[t].ins)
        BY <3>1
      <4> QED
        BY <2>2, <4>1, <4>2
    <3>2. i \in 1..n \/ i = n + 1 \/ i > n + 1
      BY <3>0
    <3>3. i <= n + 1 => locks'[t][i] = ""
      <4>1. CASE i \in 1..n
        <5>1. i <= n
          BY <3>0, <4>1
        <5> QED
          BY <1>4, <3>1, <4>1, <5>1
      <4>2. CASE i = n + 1
        BY <1>3, <1>4, <3>1, <4>2 DEF n
      <4>3. CASE i > n + 1
        <5>1. ~(i <= n + 1)
          BY <3>0, <4>3
        <5> QED
          BY <5>1
      <4> QED
        BY <3>2, <4>1, <4>2, <4>3
    <3> QED
      BY <3>1, <3>3
  <2> QED
    BY <2>3, <2>4, <2>5 DEF TransferInv
<1>7. \A u \in Transfers : u # t => TransferInv(u)'
  <2> SUFFICES ASSUME NEW u \in Transfers, u # t PROVE TransferInv(u)'
    OBVIOUS
  <2>1. Untouched(u) /\ spent \subseteq spent'
    BY <1>1, <1>2 DEF Types, Untouched, rawVars, nodeVars, ghostVars
  <2> QED
    BY <2>1, Frame DEF RawInv
<1>8. SentIsSigned' /\ SubmittedIsAccepted'
  BY <1>1, <1>2 DEF SentIsSigned, SubmittedIsAccepted, rawVars, nodeVars, ghostVars
<1> QED
  BY <1>5, <1>6, <1>7, <1>8 DEF RawInv

\* A look-up that fails.
LEMMA VerifyFailsStep ==
    ASSUME RawInv, NEW t \in Transfers, VerifyFails(t)
    PROVE  RawInv'
<1> USE DEF VerifyFails
<1>1. Types /\ TransferInv(t) /\ SentIsSigned /\ SubmittedIsAccepted
  BY DEF RawInv
<1>2. Types'
  BY <1>1, FaultType DEF Types, rawVars, nodeVars, ghostVars
<1>3. TransferInv(t)'
  BY <1>1 DEF Types, TransferInv, Progress, Signed, SeenOrToCome, AllGood, rawVars,
     nodeVars, ghostVars
<1>4. \A u \in Transfers : u # t => TransferInv(u)'
  <2> SUFFICES ASSUME NEW u \in Transfers, u # t PROVE TransferInv(u)'
    OBVIOUS
  <2>1. Untouched(u) /\ spent \subseteq spent'
    BY <1>1 DEF Types, Untouched, rawVars, nodeVars, ghostVars
  <2> QED
    BY <2>1, Frame DEF RawInv
<1>5. SentIsSigned'
  BY <1>1 DEF SentIsSigned, SubmittedIsAccepted, rawVars, nodeVars, ghostVars
<1>6. SubmittedIsAccepted'
  BY <1>1 DEF SentIsSigned, SubmittedIsAccepted, rawVars, nodeVars, ghostVars
<1> QED
  BY <1>2, <1>3, <1>4, <1>5, <1>6 DEF RawInv

\* A verification that ends with an error.
LEMMA VerifyErrorStep ==
    ASSUME RawInv, NEW t \in Transfers, VerifyError(t)
    PROVE  RawInv'
<1> USE DEF VerifyError
<1>1. Types /\ TransferInv(t) /\ SentIsSigned /\ SubmittedIsAccepted
  BY DEF RawInv
<1>2. Types'
  BY <1>1 DEF Types, rawVars, nodeVars, ghostVars
<1>3. TransferInv(t)'
  BY <1>1 DEF Types, TransferInv, Progress, Signed, SeenOrToCome, AllGood, rawVars,
     nodeVars, ghostVars
<1>4. \A u \in Transfers : u # t => TransferInv(u)'
  <2> SUFFICES ASSUME NEW u \in Transfers, u # t PROVE TransferInv(u)'
    OBVIOUS
  <2>1. Untouched(u) /\ spent \subseteq spent'
    BY <1>1 DEF Types, Untouched, rawVars, nodeVars, ghostVars
  <2> QED
    BY <2>1, Frame DEF RawInv
<1>5. SentIsSigned'
  BY <1>1 DEF SentIsSigned, SubmittedIsAccepted, rawVars, nodeVars, ghostVars
<1>6. SubmittedIsAccepted'
  BY <1>1 DEF SentIsSigned, SubmittedIsAccepted, rawVars, nodeVars, ghostVars
<1> QED
  BY <1>2, <1>3, <1>4, <1>5, <1>6 DEF RawInv

\* A verification that takes IsCompleted back.
LEMMA VerifyRejectsStep ==
    ASSUME RawInv, NEW t \in Transfers, VerifyRejects(t)
    PROVE  RawInv'
<1> USE DEF VerifyRejects
<1>1. Types /\ TransferInv(t) /\ SentIsSigned /\ SubmittedIsAccepted
  BY DEF RawInv
<1>2. Types'
  BY <1>1 DEF Types, rawVars, nodeVars, ghostVars
<1>3. TransferInv(t)'
  BY <1>1 DEF Types, TransferInv, Progress, Signed, SeenOrToCome, AllGood, rawVars,
     nodeVars, ghostVars
<1>4. \A u \in Transfers : u # t => TransferInv(u)'
  <2> SUFFICES ASSUME NEW u \in Transfers, u # t PROVE TransferInv(u)'
    OBVIOUS
  <2>1. Untouched(u) /\ spent \subseteq spent'
    BY <1>1 DEF Types, Untouched, rawVars, nodeVars, ghostVars
  <2> QED
    BY <2>1, Frame DEF RawInv
<1>5. SentIsSigned'
  BY <1>1 DEF SentIsSigned, SubmittedIsAccepted, rawVars, nodeVars, ghostVars
<1>6. SubmittedIsAccepted'
  BY <1>1 DEF SentIsSigned, SubmittedIsAccepted, rawVars, nodeVars, ghostVars
<1> QED
  BY <1>2, <1>3, <1>4, <1>5, <1>6 DEF RawInv

\* A verification that completes: every signature is good.
LEMMA VerifyCompletesStep ==
    ASSUME RawInv, NEW t \in Transfers, VerifyCompletes(t)
    PROVE  RawInv'
<1> USE DEF VerifyCompletes, LookedUp
<1>1. Types /\ TransferInv(t) /\ SentIsSigned /\ SubmittedIsAccepted
  BY DEF RawInv
<1>2. Types'
  <2>1. rawHex' \in [Transfers -> [ins : Inputs \union {<< >>}, sigs : Seq(Signature)]]
    BY <1>1 DEF Types
  <2> QED
    BY <1>1, <2>1 DEF Types, nodeVars, ghostVars
<1>3. TransferInv(t)'
  <2>1. /\ rawHex'[t].ins = rawHex[t].ins /\ rawHex'[t].sigs = signatures[t]
        /\ pc'[t] = "idle" /\ isBuilt[t] /\ isBuilt' = isBuilt
    BY <1>1 DEF Types, TransferInv, Progress
  <2>2. /\ signatures[t] \in Seq(Signature)
        /\ Len(signatures[t]) = Len(rawHex[t].ins) /\ Len(rawHex[t].ins) \in Nat \ {0}
    BY <1>1, <2>1, InputsType DEF Types, TransferInv, Progress
  <2>3. \A i \in DOMAIN signatures[t] : signatures[t][i] = "good"
    <3> SUFFICES ASSUME NEW i \in DOMAIN signatures[t] PROVE signatures[t][i] = "good"
      OBVIOUS
    <3>1. signatures[t][i] \in Signature
      BY <2>2
    <3> QED
      BY <3>1 DEF Signature, Unusable, Passes
  <2>4. AllGood(rawHex[t])'
    BY <2>1, <2>2, <2>3 DEF AllGood
  <2>5. Progress(t)'
    BY <1>1, <2>1 DEF TransferInv, Progress
  <2>6. Signed(t)'
    BY <2>1, <2>2, <2>4 DEF Signed
  <2>7. SeenOrToCome(t)'
    BY <2>1 DEF SeenOrToCome
  <2> QED
    BY <2>5, <2>6, <2>7 DEF TransferInv
<1>4. \A u \in Transfers : u # t => TransferInv(u)'
  <2> SUFFICES ASSUME NEW u \in Transfers, u # t PROVE TransferInv(u)'
    OBVIOUS
  <2>1. Untouched(u) /\ spent \subseteq spent'
    BY <1>1 DEF Types, Untouched, rawVars, nodeVars, ghostVars
  <2> QED
    BY <2>1, Frame DEF RawInv
<1>5. SentIsSigned'
  BY <1>1 DEF SentIsSigned, SubmittedIsAccepted, rawVars, nodeVars, ghostVars
<1>6. SubmittedIsAccepted'
  BY <1>1 DEF SentIsSigned, SubmittedIsAccepted, rawVars, nodeVars, ghostVars
<1> QED
  BY <1>2, <1>3, <1>4, <1>5, <1>6 DEF RawInv

\* A submission.
LEMMA SubmitStep ==
    ASSUME RawInv, NEW t \in Transfers, Submit(t)
    PROVE  RawInv'
<1> USE DEF Submit, Sending, MaySubmit, NodeAccepts
<1>1. Types /\ TransferInv(t) /\ SentIsSigned /\ SubmittedIsAccepted
  BY DEF RawInv
<1>2. Types'
  <2>1. isBuilt[t]
    BY <1>1 DEF TransferInv, Signed
  <2>2. rawHex[t].ins \in Seq(Outputs)
    BY <1>1, <2>1, InputsType DEF TransferInv, Progress
  <2>3. {rawHex[t].ins[i] : i \in DOMAIN rawHex[t].ins} \subseteq Outputs
    BY <2>2
  <2>4. spent' \subseteq Outputs
    BY <1>1, <2>3 DEF Types
  <2> QED
    BY <1>1, <2>4 DEF Types, rawVars
<1>3. TransferInv(t)'
  BY <1>1 DEF Types, TransferInv, Progress, Signed, SeenOrToCome, AllGood, rawVars,
     nodeVars, ghostVars
<1>4. \A u \in Transfers : u # t => TransferInv(u)'
  <2> SUFFICES ASSUME NEW u \in Transfers, u # t PROVE TransferInv(u)'
    OBVIOUS
  <2>1. Untouched(u) /\ spent \subseteq spent'
    BY <1>1 DEF Types, Untouched, rawVars, nodeVars, ghostVars
  <2> QED
    BY <2>1, Frame DEF RawInv
<1>5. SentIsSigned'
  <2>1. isCompleted[t] => AllGood(rawHex[t])
    BY <1>1 DEF TransferInv, Signed
  <2> QED
    BY <1>1, <2>1 DEF SentIsSigned, AllGood
<1>6. SubmittedIsAccepted'
  BY <1>1 DEF Types, SentIsSigned, SubmittedIsAccepted, rawVars, nodeVars, ghostVars
<1> QED
  BY <1>2, <1>3, <1>4, <1>5, <1>6 DEF RawInv

\* A submission that is refused.
LEMMA SubmitRefusedStep ==
    ASSUME RawInv, NEW t \in Transfers, SubmitRefused(t)
    PROVE  RawInv'
<1> USE DEF SubmitRefused, Sending, MaySubmit, SubmittedAfterError
<1>1. Types /\ TransferInv(t) /\ SentIsSigned /\ SubmittedIsAccepted
  BY DEF RawInv
<1>2. Types'
  <2>1. faults' \in Nat
    BY <1>1, FaultType DEF Types
  <2> QED
    BY <1>1, <2>1 DEF Types, nodeVars
<1>3. TransferInv(t)'
  BY <1>1 DEF Types, TransferInv, Progress, Signed, SeenOrToCome, AllGood, rawVars,
     nodeVars, ghostVars
<1>4. \A u \in Transfers : u # t => TransferInv(u)'
  <2> SUFFICES ASSUME NEW u \in Transfers, u # t PROVE TransferInv(u)'
    OBVIOUS
  <2>1. Untouched(u) /\ spent \subseteq spent'
    BY <1>1 DEF Types, Untouched, rawVars, nodeVars, ghostVars
  <2> QED
    BY <2>1, Frame DEF RawInv
<1>5. SentIsSigned'
  <2>1. isCompleted[t] => AllGood(rawHex[t])
    BY <1>1 DEF TransferInv, Signed
  <2> QED
    BY <1>1, <2>1 DEF SentIsSigned, AllGood
<1>6. SubmittedIsAccepted'
  BY <1>1 DEF Types, SentIsSigned, SubmittedIsAccepted, rawVars, nodeVars, ghostVars
<1> QED
  BY <1>2, <1>3, <1>4, <1>5, <1>6 DEF RawInv

\* A submission whose answer is lost.
LEMMA SubmitUnheardStep ==
    ASSUME RawInv, NEW t \in Transfers, SubmitUnheard(t)
    PROVE  RawInv'
<1> USE DEF SubmitUnheard, Sending, MaySubmit, NodeAccepts
<1>1. Types /\ TransferInv(t) /\ SentIsSigned /\ SubmittedIsAccepted
  BY DEF RawInv
<1>2. Types'
  <2>1. isBuilt[t]
    BY <1>1 DEF TransferInv, Signed
  <2>2. rawHex[t].ins \in Seq(Outputs)
    BY <1>1, <2>1, InputsType DEF TransferInv, Progress
  <2>3. {rawHex[t].ins[i] : i \in DOMAIN rawHex[t].ins} \subseteq Outputs
    BY <2>2
  <2>4. spent' \subseteq Outputs
    BY <1>1, <2>3 DEF Types
  <2> QED
    BY <1>1, <2>4, FaultType DEF Types, rawVars
<1>3. TransferInv(t)'
  BY <1>1 DEF Types, TransferInv, Progress, Signed, SeenOrToCome, AllGood, rawVars,
     nodeVars, ghostVars
<1>4. \A u \in Transfers : u # t => TransferInv(u)'
  <2> SUFFICES ASSUME NEW u \in Transfers, u # t PROVE TransferInv(u)'
    OBVIOUS
  <2>1. Untouched(u) /\ spent \subseteq spent'
    BY <1>1 DEF Types, Untouched, rawVars, nodeVars, ghostVars
  <2> QED
    BY <2>1, Frame DEF RawInv
<1>5. SentIsSigned'
  <2>1. isCompleted[t] => AllGood(rawHex[t])
    BY <1>1 DEF TransferInv, Signed
  <2> QED
    BY <1>1, <2>1 DEF SentIsSigned, AllGood
<1>6. SubmittedIsAccepted'
  BY <1>1 DEF SentIsSigned, SubmittedIsAccepted, rawVars, nodeVars, ghostVars
<1> QED
  BY <1>2, <1>3, <1>4, <1>5, <1>6 DEF RawInv

-------------------------------------------------------------------------------
(* Every step preserves the invariant.                                     *)

LEMMA Establishes ==
    ASSUME Init
    PROVE  RawInv
<1>1. << >> \in Seq(Signature) /\ << >> \in Seq(Lock)
  OBVIOUS
<1>2. Types
  BY <1>1, RawTxAssumption DEF Init, Types, NoHex, RawTxAssumption
<1>3. \A t \in Transfers : TransferInv(t)
  BY DEF Init, TransferInv, Progress, Signed, SeenOrToCome, NoHex
<1>4. SentIsSigned /\ SubmittedIsAccepted
  BY DEF Init, SentIsSigned, SubmittedIsAccepted
<1> QED
  BY <1>2, <1>3, <1>4 DEF RawInv

LEMMA Preserves ==
    ASSUME RawInv, [Next]_vars
    PROVE  RawInv'
<1>1. CASE Next
  <2>0. PICK t \in Transfers :
            \/ Choose(t) \/ BuildFails(t) \/ BuildHalf(t) \/ Build(t)
            \/ SignAll(t) \/ SignSome(t) \/ SignOddly(t)
            \/ VerifyStart(t) \/ VerifyLookUp(t) \/ VerifyFails(t)
            \/ VerifyError(t) \/ VerifyRejects(t) \/ VerifyCompletes(t)
            \/ Submit(t) \/ SubmitRefused(t) \/ SubmitUnheard(t)
    BY <1>1 DEF Next
  <2>1. CASE Choose(t)
    BY <2>1, ChooseStep
  <2>2. CASE BuildFails(t)
    BY <2>2, BuildFailsStep
  <2>3. CASE BuildHalf(t)
    BY <2>3, BuildHalfStep
  <2>4. CASE Build(t)
    BY <2>4, BuildStep
  <2>5. CASE SignAll(t)
    BY <2>5, SignAllStep
  <2>6. CASE SignSome(t)
    BY <2>6, SignSomeStep
  <2>7. CASE SignOddly(t)
    BY <2>7, SignOddlyStep
  <2>8. CASE VerifyStart(t)
    BY <2>8, VerifyStartStep
  <2>9. CASE VerifyLookUp(t)
    BY <2>9, VerifyLookUpStep
  <2>10. CASE VerifyFails(t)
    BY <2>10, VerifyFailsStep
  <2>11. CASE VerifyError(t)
    BY <2>11, VerifyErrorStep
  <2>12. CASE VerifyRejects(t)
    BY <2>12, VerifyRejectsStep
  <2>13. CASE VerifyCompletes(t)
    BY <2>13, VerifyCompletesStep
  <2>14. CASE Submit(t)
    BY <2>14, SubmitStep
  <2>15. CASE SubmitRefused(t)
    BY <2>15, SubmitRefusedStep
  <2>16. CASE SubmitUnheard(t)
    BY <2>16, SubmitUnheardStep
  <2> QED
    BY <2>0, <2>1, <2>2, <2>3, <2>4, <2>5, <2>6, <2>7, <2>8, <2>9, <2>10, <2>11, <2>12,
       <2>13, <2>14, <2>15, <2>16
<1>2. CASE UNCHANGED vars
  BY <1>2 DEF RawInv, Types, TransferInv, Progress, Signed, SeenOrToCome, AllGood,
              SentIsSigned, SubmittedIsAccepted, vars, rawVars, nodeVars, ghostVars
<1> QED
  BY <1>1, <1>2

\* The inductive invariant holds in every state of every behaviour.
THEOREM RawInvariant == Spec => []RawInv
<1>1. Init => RawInv
  BY Establishes
<1>2. RawInv /\ [Next]_vars => RawInv'
  BY Preserves
<1> QED
  BY <1>1, <1>2, PTL DEF Spec

-------------------------------------------------------------------------------
(* What it implies.                                                        *)

\* Every field has its type, and there are as many signatures, and lock scripts
\* looked up, as the inputs allow.
THEOREM RawTypes == Spec => []TypeOK
<1>1. RawInv => TypeOK
  <2> SUFFICES ASSUME RawInv PROVE TypeOK
    OBVIOUS
  <2>1. Types
    BY DEF RawInv
  <2>2. ASSUME NEW t \in Transfers
        PROVE  /\ Len(signatures[t]) \in {0, Len(rawHex[t].ins)}
               /\ Len(rawHex[t].sigs) \in {0, Len(rawHex[t].ins)}
               /\ Len(locks[t]) <= Len(rawHex[t].ins)
    BY DEF RawInv, TransferInv, Progress, Signed
  <2> QED
    BY <2>1, <2>2 DEF TypeOK, Types
<1> QED
  BY <1>1, RawInvariant, PTL

\* IsCompleted is only ever set on a RawHex that holds a good signature for each
\* of its inputs.
THEOREM CompletedSigned == Spec => []CompletedIsSigned
<1>1. RawInv => CompletedIsSigned
  BY DEF RawInv, TransferInv, Signed, CompletedIsSigned
<1> QED
  BY <1>1, RawInvariant, PTL

\* Whatever fails and however calls are repeated, what goes to the node is signed.
THEOREM SentSigned == Spec => []SentIsSigned
<1>1. RawInv => SentIsSigned
  BY DEF RawInv
<1> QED
  BY <1>1, RawInvariant, PTL

\* IsSubmit and the node agree, up to the answers that were lost.
THEOREM SubmittedAccepted == Spec => []SubmittedIsAccepted
<1>1. RawInv => SubmittedIsAccepted
  BY DEF RawInv
<1> QED
  BY <1>1, RawInvariant, PTL

\* A verification that began after an input was spent completes nothing: it sees
\* the input's missing lock script before it ends.
THEOREM NeverStale == Spec => NoStaleCompletion
<1> DEFINE OnlyFresh(t) ==
        stale[t] /\ pc[t] = "lookUp" /\ isCompleted'[t] => isCompleted[t]
<1>1. RawInv /\ [Next]_vars => \A t \in Transfers : OnlyFresh(t)
  <2> SUFFICES ASSUME RawInv, [Next]_vars, NEW t \in Transfers, stale[t],
                      pc[t] = "lookUp", isCompleted'[t], ~isCompleted[t]
               PROVE  FALSE
    OBVIOUS
  <2>1. Types /\ TransferInv(t)
    BY DEF RawInv
  <2>2. PICK u \in Transfers : VerifyCompletes(u) \/ isCompleted' = isCompleted \/ VerifyRejects(u)
    BY DEF Next, vars, rawVars, Choose, BuildFails, BuildHalf, Build, SignAll, SignSome,
           SignOddly, VerifyStart, VerifyLookUp, VerifyFails, VerifyError, Submit,
           SubmitRefused, SubmitUnheard
  <2>3. VerifyCompletes(t)
    BY <2>1, <2>2 DEF Types, VerifyCompletes, VerifyRejects
  <2>4. PICK i \in 1..Len(rawHex[t].ins) : i <= Len(locks[t]) => locks[t][i] = ""
    BY <2>1 DEF TransferInv, SeenOrToCome
  <2>5. Len(locks[t]) = Len(rawHex[t].ins) /\ Len(locks[t]) \in Nat
    <3>1. Len(locks[t]) = Len(rawHex[t].ins)
      BY <2>3 DEF VerifyCompletes, LookedUp
    <3>2. locks[t] \in Seq(Lock)
      BY <2>1 DEF Types
    <3> QED
      BY <3>1, <3>2
  <2>6. i \in 1..Len(locks[t]) /\ i <= Len(locks[t])
    <3>1. i \in 1..Len(rawHex[t].ins)
      BY <2>4
    <3> QED
      BY <2>5, <3>1
  <2>7. DOMAIN locks[t] = 1..Len(locks[t])
    <3>1. locks[t] \in Seq(Lock)
      BY <2>1 DEF Types
    <3> QED
      BY <3>1
  <2> QED
    BY <2>3, <2>4, <2>6, <2>7 DEF VerifyCompletes, UnknownLock
<1> QED
  BY <1>1, RawInvariant, PTL DEF Spec, NoStaleCompletion
===============================================================================
