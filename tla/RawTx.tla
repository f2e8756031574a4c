--------------------------------- MODULE RawTx ---------------------------------
(***************************************************************************)
(* The life of raw transactions (vas/tx_decode.go): CreateRawTransaction,    *)
(* SignRawTransaction, VerifyRawTransaction and SubmitRawTransaction, with   *)
(* what they call of vasTransaction/transaction.go and txHash.go.  Several   *)
(* transfers of one account are under way at a time, each with a raw         *)
(* transaction of its own on which the wallet calls one operation after      *)
(* another and again after an error; nothing reserves the outputs one has    *)
(* chosen, and the node may fail to answer or its answer be lost.           *)
(*                                                                         *)
(* The outputs are pay-to-pubkey-hash, the one kind these operations can     *)
(* spend.  Which outputs a transfer chooses is module CoinSelection's        *)
(* subject, and what a signature goes through module DerSig's.              *)
(***************************************************************************)
EXTENDS Integers, Sequences, FiniteSets

CONSTANTS Transfers,   \* the transfers
          Outputs,     \* the account's unspent outputs at first
          MaxInputs,   \* bound: the inputs of a transfer
          Faults       \* bound: how often something fails

ASSUME RawTxAssumption ==
    /\ IsFiniteSet(Transfers) /\ IsFiniteSet(Outputs)
    /\ MaxInputs \in Nat \ {0}
    /\ Faults \in Nat

VARIABLES
    pc,            \* where each transfer's call is: "idle", "build", "lookUp"
    chosen,        \* the outputs CreateRawTransaction chose
    rawHex,        \* RawHex: the inputs it spends and their signatures
    signatures,    \* Signatures of the account: one for each input, if any
    isBuilt,
    isCompleted,
    isSubmit,
    locks,         \* the lock scripts VerifyRawTransaction has looked up
    faults,        \* what is left of Faults
    spent,         \* the node: the outputs spent
    accepted,      \* the node: the transfers it accepted
    \* what happened, for the properties only
    sent,          \* every RawHex that was ever sent to the node
    stale,         \* an input was spent when the last verification began
    unheard        \* the transfers whose acceptance the wallet did not hear of

rawVars == <<chosen, rawHex, signatures, isBuilt, isCompleted, isSubmit>>
nodeVars == <<spent, accepted>>
ghostVars == <<sent, stale, unheard>>
vars == <<pc, rawVars, locks, faults, nodeVars, ghostVars>>

Inputs == UNION {{s \in [1..n -> Outputs] : \A i, j \in 1..n : s[i] = s[j] => i = j} : n \in 1..MaxInputs}

\* A signature is not there yet, or is right; or serilizeS left it too short, or
\* it will not be read from its script as it was written.
Signature == {"unsigned", "good", "short", "mangled"}

\* The script that locks an output; none is known of a spent one.
Lock == {"", "p2pkh"}

NoHex == [ins |-> << >>, sigs |-> << >>]
EmptyTx(ins) == [ins |-> ins, sigs |-> << >>]

TypeOK ==
    /\ pc \in [Transfers -> {"idle", "build", "lookUp"}]
    /\ chosen \in [Transfers -> Inputs \union {<< >>}]
    /\ rawHex \in [Transfers -> [ins : Inputs \union {<< >>}, sigs : Seq(Signature)]]
    /\ signatures \in [Transfers -> Seq(Signature)]
    /\ locks \in [Transfers -> Seq(Lock)]
    /\ {isBuilt, isCompleted, isSubmit, stale} \subseteq [Transfers -> BOOLEAN]
    /\ faults \in Nat
    /\ spent \subseteq Outputs
    /\ accepted \subseteq Transfers
    /\ unheard \subseteq Transfers
    /\ \A t \in Transfers :
          /\ Len(signatures[t]) \in {0, Len(rawHex[t].ins)}
          /\ Len(rawHex[t].sigs) \in {0, Len(rawHex[t].ins)}
          /\ Len(locks[t]) <= Len(rawHex[t].ins)

Init ==
    /\ pc = [t \in Transfers |-> "idle"]
    /\ chosen = [t \in Transfers |-> << >>]
    /\ rawHex = [t \in Transfers |-> NoHex]
    /\ signatures = [t \in Transfers |-> << >>]
    /\ isBuilt = [t \in Transfers |-> FALSE]
    /\ isCompleted = [t \in Transfers |-> FALSE]
    /\ isSubmit = [t \in Transfers |-> FALSE]
    /\ locks = [t \in Transfers |-> << >>]
    /\ faults = Faults
    /\ spent = {}
    /\ accepted = {}
    /\ sent = {}
    /\ stale = [t \in Transfers |-> FALSE]
    /\ unheard = {}

Fault == faults > 0 /\ faults' = faults - 1

-------------------------------------------------------------------------------
(* CreateRawTransaction: the wallet calls it until the transaction is built. *)

\* ListUnspent, and the selection from what it returned.
Choose(t) ==
    /\ pc[t] = "idle"
    /\ ~isBuilt[t]
    /\ \E ins \in Inputs :
          /\ \A i \in 1..Len(ins) : ins[i] \notin spent
          /\ chosen' = [chosen EXCEPT ![t] = ins]
    /\ pc' = [pc EXCEPT ![t] = "build"]
    /\ UNCHANGED <<rawHex, signatures, isBuilt, isCompleted, isSubmit, locks, faults,
                   nodeVars, ghostVars>>

\* A receiver's address is not valid: nothing is set.
BuildFails(t) ==
    /\ pc[t] = "build"
    /\ Fault
    /\ pc' = [pc EXCEPT ![t] = "idle"]
    /\ UNCHANGED <<rawVars, locks, nodeVars, ghostVars>>

BuiltAnyway(t) == [isBuilt EXCEPT ![t] = TRUE]    \* mutant: set before the loop
BuiltAfterError(t) == isBuilt

\* The address of an input cannot be read: RawHex is set by then, the signatures
\* are not.
BuildHalf(t) ==
    /\ pc[t] = "build"
    /\ Fault
    /\ rawHex' = [rawHex EXCEPT ![t] = EmptyTx(chosen[t])]
    /\ isBuilt' = BuiltAfterError(t)
    /\ pc' = [pc EXCEPT ![t] = "idle"]
    /\ UNCHANGED <<chosen, signatures, isCompleted, isSubmit, locks, nodeVars, ghostVars>>

\* One hash to sign for each input, in the order of the inputs.
UnsignedButLast(ins) == [i \in 1..(Len(ins) - 1) |-> "unsigned"]    \* mutant
Unsigned(ins) == [i \in DOMAIN ins |-> "unsigned"]

Build(t) ==
    /\ pc[t] = "build"
    /\ rawHex' = [rawHex EXCEPT ![t] = EmptyTx(chosen[t])]
    /\ signatures' = [signatures EXCEPT ![t] = Unsigned(chosen[t])]
    /\ isBuilt' = [isBuilt EXCEPT ![t] = TRUE]
    /\ pc' = [pc EXCEPT ![t] = "idle"]
    /\ UNCHANGED <<chosen, isCompleted, isSubmit, locks, faults, nodeVars, ghostVars>>

-------------------------------------------------------------------------------
(* SignRawTransaction.                                                     *)

\* Signatures must have been set up by then.
MaySign(t) == pc[t] = "idle" /\ signatures[t] # << >>

SignAll(t) ==
    /\ MaySign(t)
    /\ signatures' = [signatures EXCEPT ![t] = [i \in DOMAIN @ |-> "good"]]
    /\ UNCHANGED <<pc, chosen, rawHex, isBuilt, isCompleted, isSubmit, locks, faults,
                   nodeVars, ghostVars>>

\* Deriving a key or signing fails: the inputs before it have been signed.
SignSome(t) ==
    /\ MaySign(t)
    /\ Fault
    /\ \E n \in DOMAIN signatures[t] :
          signatures' = [signatures EXCEPT ![t] = [i \in DOMAIN @ |-> IF i < n THEN "good" ELSE @[i]]]
    /\ UNCHANGED <<pc, chosen, rawHex, isBuilt, isCompleted, isSubmit, locks,
                   nodeVars, ghostVars>>

\* One of the signatures made is of those the script cannot carry.
SignOddly(t) ==
    /\ MaySign(t)
    /\ Fault
    /\ \E n \in DOMAIN signatures[t], s \in {"short", "mangled"} :
          signatures' = [signatures EXCEPT ![t] = [i \in DOMAIN @ |-> IF i = n THEN s ELSE "good"]]
    /\ UNCHANGED <<pc, chosen, rawHex, isBuilt, isCompleted, isSubmit, locks,
                   nodeVars, ghostVars>>

-------------------------------------------------------------------------------
(* VerifyRawTransaction.                                                   *)

InputSpent(t) == \E i \in DOMAIN rawHex[t].ins : rawHex[t].ins[i] \in spent

VerifyStart(t) ==
    /\ pc[t] = "idle"
    /\ signatures[t] # << >>
    /\ locks' = [locks EXCEPT ![t] = << >>]
    /\ stale' = [stale EXCEPT ![t] = InputSpent(t)]
    /\ pc' = [pc EXCEPT ![t] = "lookUp"]
    /\ UNCHANGED <<rawVars, faults, nodeVars, sent, unheard>>

\* GetTxOut of the next input.  Of a spent output the node answers null, which
\* is no error and reads as an output with an empty lock script.
LockScriptAlways(o) == "p2pkh"                     \* mutant
LockScript(o) == IF o \in spent THEN "" ELSE "p2pkh"

VerifyLookUp(t) ==
    /\ pc[t] = "lookUp"
    /\ Len(locks[t]) < Len(rawHex[t].ins)
    /\ locks' = [locks EXCEPT ![t] = Append(@, LockScript(rawHex[t].ins[Len(@) + 1]))]
    /\ UNCHANGED <<pc, rawVars, faults, nodeVars, ghostVars>>

\* The node does not answer: an error, and IsCompleted is as before.
VerifyFails(t) ==
    /\ pc[t] = "lookUp"
    /\ Len(locks[t]) < Len(rawHex[t].ins)
    /\ Fault
    /\ pc' = [pc EXCEPT ![t] = "idle"]
    /\ UNCHANGED <<rawVars, locks, nodeVars, ghostVars>>

\* InsertSignatureIntoEmptyTransaction returns an empty transaction, and no
\* error, when it does not know a lock script ...
UnknownLock(t) == \E i \in DOMAIN locks[t] : locks[t][i] = ""
\* ... and an error when a signature has the wrong length ...
Unusable(t) == \E i \in DOMAIN signatures[t] : signatures[t][i] \in {"unsigned", "short"}
\* ... and VerifyRawTransaction checks each signature as read from its script.
PassesAll(t) == TRUE                               \* mutant
Passes(t) == \A i \in DOMAIN signatures[t] : signatures[t][i] # "mangled"

LookedUp(t) == pc[t] = "lookUp" /\ Len(locks[t]) = Len(rawHex[t].ins)

\* The error of an unusable signature leaves IsCompleted as before.
VerifyError(t) ==
    /\ LookedUp(t)
    /\ ~UnknownLock(t)
    /\ Unusable(t)
    /\ pc' = [pc EXCEPT ![t] = "idle"]
    /\ UNCHANGED <<rawVars, locks, faults, nodeVars, ghostVars>>

\* Not verified: IsCompleted is taken back, RawHex is not.
VerifyRejects(t) ==
    /\ LookedUp(t)
    /\ UnknownLock(t) \/ (~Unusable(t) /\ ~Passes(t))
    /\ isCompleted' = [isCompleted EXCEPT ![t] = FALSE]
    /\ pc' = [pc EXCEPT ![t] = "idle"]
    /\ UNCHANGED <<chosen, rawHex, signatures, isBuilt, isSubmit, locks, faults,
                   nodeVars, ghostVars>>

VerifyCompletes(t) ==
    /\ LookedUp(t)
    /\ ~UnknownLock(t) /\ ~Unusable(t) /\ Passes(t)
    /\ isCompleted' = [isCompleted EXCEPT ![t] = TRUE]
    /\ rawHex' = [rawHex EXCEPT ![t] = [ins |-> @.ins, sigs |-> signatures[t]]]
    /\ pc' = [pc EXCEPT ![t] = "idle"]
    /\ UNCHANGED <<chosen, signatures, isBuilt, isSubmit, locks, faults, nodeVars, ghostVars>>

-------------------------------------------------------------------------------
(* SubmitRawTransaction.                                                   *)

MaySubmit(t) == rawHex[t] # NoHex /\ isCompleted[t]

Sending(t) ==
    /\ pc[t] = "idle"
    /\ MaySubmit(t)
    /\ sent' = sent \union {rawHex[t]}

AllGood(hex) == hex.sigs # << >> /\ \A i \in DOMAIN hex.sigs : hex.sigs[i] = "good"

\* The node takes a transaction whose signatures are right and none of whose
\* inputs is spent, its own earlier copy included.
NodeTakes(t) == AllGood(rawHex[t]) /\ ~InputSpent(t)

NodeAccepts(t) ==
    /\ NodeTakes(t)
    /\ accepted' = accepted \union {t}
    /\ spent' = spent \union {rawHex[t].ins[i] : i \in DOMAIN rawHex[t].ins}

Submit(t) ==
    /\ Sending(t)
    /\ NodeAccepts(t)
    /\ isSubmit' = [isSubmit EXCEPT ![t] = TRUE]
    /\ UNCHANGED <<pc, chosen, rawHex, signatures, isBuilt, isCompleted, locks, faults,
                   stale, unheard>>

\* Mutant: what the node said is not looked at.
SubmittedAnyway(t) == [isSubmit EXCEPT ![t] = TRUE]
SubmittedAfterError(t) == isSubmit

\* The node refuses it, or cannot be reached.
SubmitRefused(t) ==
    /\ Sending(t)
    /\ \/ ~NodeTakes(t) /\ UNCHANGED faults
       \/ Fault
    /\ isSubmit' = SubmittedAfterError(t)
    /\ UNCHANGED <<pc, chosen, rawHex, signatures, isBuilt, isCompleted, locks, nodeVars,
                   stale, unheard>>

\* The node takes it, and the answer is lost: the caller gets an error.
SubmitUnheard(t) ==
    /\ Sending(t)
    /\ NodeAccepts(t)
    /\ Fault
    /\ unheard' = unheard \union {t}
    /\ UNCHANGED <<pc, rawVars, locks, stale>>

-------------------------------------------------------------------------------
Next ==
    \E t \in Transfers :
        \/ Choose(t) \/ BuildFails(t) \/ BuildHalf(t) \/ Build(t)
        \/ SignAll(t) \/ SignSome(t) \/ SignOddly(t)
        \/ VerifyStart(t) \/ VerifyLookUp(t) \/ VerifyFails(t)
        \/ VerifyError(t) \/ VerifyRejects(t) \/ VerifyCompletes(t)
        \/ Submit(t) \/ SubmitRefused(t) \/ SubmitUnheard(t)

\* A call that was made ends, and a wallet that can make the next call makes it
\* again and again: build, sign, verify and submit.
CallEnds(t) ==
    BuildFails(t) \/ BuildHalf(t) \/ Build(t) \/ VerifyLookUp(t) \/ VerifyFails(t)
        \/ VerifyError(t) \/ VerifyRejects(t) \/ VerifyCompletes(t)

Persists(t) ==
    /\ WF_vars(CallEnds(t)) /\ WF_vars(Choose(t))
    /\ SF_vars(SignAll(t)) /\ SF_vars(VerifyStart(t)) /\ SF_vars(Submit(t))

Spec == Init /\ [][Next]_vars
FairSpec == Spec /\ \A t \in Transfers : Persists(t)

-------------------------------------------------------------------------------
(* Properties.                                                             *)

\* A completed raw transaction is signed as its own inputs need: however signing
\* and verifying were repeated and interrupted, IsCompleted is never left over
\* from something else than what RawHex holds.
CompletedIsSigned ==
    \A t \in Transfers :
        isCompleted[t] => AllGood(rawHex[t]) /\ Len(rawHex[t].sigs) = Len(rawHex[t].ins)

\* Nothing is ever sent to the node that was not signed and verified.
SentIsSigned == \A hex \in sent : AllGood(hex)

\* What the wallet takes for submitted the node has accepted; what the node has
\* accepted the wallet takes for submitted, unless the answer was lost.
SubmittedIsAccepted ==
    \A t \in Transfers : (isSubmit[t] \/ t \in unheard) <=> t \in accepted

\* No verification that began after one of its inputs was spent, by another
\* transfer or by this one, completes a transaction.
NoStaleCompletion ==
    [][\A t \in Transfers :
          stale[t] /\ pc[t] = "lookUp" /\ isCompleted'[t] => isCompleted[t]]_vars

\* No failure leaves a transfer stuck: if the wallet goes on, it is submitted,
\* or its acceptance was not heard of, or another transfer took what it needs.
Contended(t) ==
    IF isBuilt[t] THEN InputSpent(t) ELSE \A o \in Outputs : o \in spent
Settles == \A t \in Transfers : <>(isSubmit[t] \/ t \in unheard \/ Contended(t))
===============================================================================
