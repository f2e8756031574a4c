------------------------------- MODULE Signing -------------------------------
(***************************************************************************)
(* From the empty transaction to the signed one (vasTransaction/            *)
(* transaction.go, txHash.go, txMultiSig.go): CreateEmptyRawTransaction,      *)
(* CreateRawTransactionHashForSig, InsertSignatureIntoEmptyTransaction and    *)
(* VerifyRawTransaction, over every kind of output the library spends.       *)
(*                                                                         *)
(* Signatures come back in one of two ways.  "slots": the caller of the      *)
(* library fills the slots of the hashes it was given, one for each key of   *)
(* an output.  "accounts": a contract coin's transaction                    *)
(* (vas/tx_decode.go, createOmniRawTransaction, VerifyOmniRawTransaction),    *)
(* whose signatures are kept by account and come out of a Go map in no       *)
(* order, to be put in the order of the inputs one look-up after another.     *)
(* That transaction is put together by the library omniTransaction, which is  *)
(* not part of the repository and is taken to do what vasTransaction does.    *)
(***************************************************************************)
EXTENDS TxCodec, FiniteSets

CONSTANTS Keys,        \* the keys, each with its address
          Account,     \* the account of each key
          Requests     \* the transactions asked for: what they spend, how many
                       \* outputs they have, SegwitON, the way of the signatures

MaxKeys == 16

\* What CreateMultiSig locks an output for.
CreateMultiSig(required, keys) ==
    [kind |-> "multisig", keys |-> keys, required |-> required, amount |-> 1]

Output ==
    [kind : Kinds, keys : Seq(Keys), required : 0..MaxKeys, amount : Nat]

Lockable(o) ==
    IF o.kind = "multisig" THEN o.required \in 1..Len(o.keys) /\ Len(o.keys) <= MaxKeys
    ELSE o.required = 0 /\ Len(o.keys) = 1

ASSUME SigningAssumption ==
    /\ Keys \subseteq Nat \ {0}
    /\ Account \in [Keys -> STRING]
    /\ \A r \in Requests :
          /\ r.unlock \in Seq(Output)
          /\ Len(r.unlock) \in 1..(VarIntMark - 1)        \* MaxTxInputs is far less
          /\ \A i \in DOMAIN r.unlock : Lockable(r.unlock[i])
          /\ r.outs \in Nat \ {0}
          /\ r.segwitOn \in BOOLEAN
          /\ r.by \in {"slots", "accounts"}
          /\ r.by = "accounts" =>
                ~r.segwitOn /\ \A i \in DOMAIN r.unlock : r.unlock[i].kind = "p2pkh"

VARIABLES
    pc,          \* "new", "created", "hashed", "place", "placed", "inserted";
                 \* "refused" and "panicked" are the ends of a transaction
    req,         \* the transaction asked for
    raw,         \* the empty transaction
    messages,    \* the hash of each input
    slots,       \* the signatures in each input's hash
    signed,      \* by account: the inputs whose message has been signed
    transHash,   \* by account: the inputs whose hashes stand in each place
    next,        \* by account: the input looked up next
    unknown,     \* by account: a lock script was not had
    spent,       \* the node: the inputs whose outputs are spent
    hex,         \* the transaction with its signatures
    verdict      \* what the last Insert or Verify said

lookUp == <<transHash, next, unknown>>
vars == <<pc, req, raw, messages, slots, signed, lookUp, spent, hex, verdict>>

\* A signature by a key of the message of some input.
NoSig == [key |-> 0, of |-> 0]
Filled(sig) == sig # NoSig

NoRequest == [unlock |-> << >>, outs |-> 0, segwitOn |-> FALSE, by |-> "slots"]
Ins == DOMAIN req.unlock
Many == Len(req.unlock)
Owner(i) == req.unlock[i].keys[1]

Init ==
    /\ pc = "new"
    /\ req = NoRequest
    /\ raw = << >> /\ hex = << >>
    /\ messages = << >> /\ slots = << >>
    /\ signed = {} /\ spent = {}
    /\ transHash = << >> /\ next = 1 /\ unknown = FALSE
    /\ verdict = "none"

-------------------------------------------------------------------------------
(* The empty transaction and its hashes.                                   *)

CreateEmptyRawTransaction(r) ==
    /\ pc = "new"
    /\ req' = r
    /\ raw' = encodeToBytes(newEmptyTransaction(Len(r.unlock), r.outs), FALSE)
    /\ pc' = "created"
    /\ UNCHANGED <<messages, slots, signed, lookUp, spent, hex, verdict>>

\* A slot for each key: those of a multisignature as getMultiDetails reads them
\* from the redeem script.
EmptySlots(o) == [j \in DOMAIN o.keys |-> NoSig]

CreateRawTransactionHashForSig ==
    /\ pc = "created"
    /\ LET t == DecodeRawTransaction(raw, req.segwitOn)
           hashes == getHashesForSig(t, req.unlock, req.segwitOn)
       IN  IF t # NoTx /\ \A i \in Ins : hashes[i] # NoMessage
           THEN /\ pc' = "hashed"
                /\ messages' = hashes
                /\ slots' = [i \in Ins |-> EmptySlots(req.unlock[i])]
           ELSE /\ pc' = "refused"
                /\ UNCHANGED <<messages, slots>>
    /\ UNCHANGED <<req, raw, signed, lookUp, spent, hex, verdict>>

-------------------------------------------------------------------------------
(* Signatures in slots: the caller may put any signature in any slot.       *)

FillSlot(i, j, sig) ==
    /\ pc = "hashed" /\ req.by = "slots"
    /\ slots[i][j] = NoSig
    /\ slots' = [slots EXCEPT ![i][j] = sig]
    /\ verdict' = "none"
    /\ UNCHANGED <<pc, req, raw, messages, signed, lookUp, spent, hex>>

-------------------------------------------------------------------------------
(* Signatures by account.                                                  *)

ByAccount == req.by = "accounts"
AccountOf(i) == Account[Owner(i)]

\* SignOmniRawTransaction signs one after another: an error leaves what was signed.
SignOne(i) ==
    /\ pc = "hashed" /\ ByAccount
    /\ signed' = signed \union {i}
    /\ verdict' = "none"
    /\ UNCHANGED <<pc, req, raw, messages, slots, lookUp, spent, hex>>

\* The accounts' lists one after another, in whatever order the map gives them.
\* createOmniRawTransaction appended to each in the order of the inputs.
Collected ==
    {h \in [Ins -> Ins] :
        /\ \A n \in Ins : \E k \in Ins : h[k] = n
        /\ \A i, j \in Ins : i < j /\ AccountOf(h[i]) = AccountOf(h[j]) =>
              /\ h[i] < h[j]
              /\ \A k \in i..j : AccountOf(h[k]) = AccountOf(h[i])}

VerifyCollect ==
    /\ pc = "hashed" /\ ByAccount
    /\ \E h \in Collected : transHash' = h
    /\ next' = 1
    /\ unknown' = FALSE
    /\ pc' = "place"
    /\ UNCHANGED <<req, raw, messages, slots, signed, spent, hex, verdict>>

\* The places from `start' on that hold a hash of input i's address.
Matching(h, i, start) == {k \in start..Len(h) : Owner(h[k]) = Owner(i)}

\* Mutant: the two are swapped.
SwapFirst(h, start, end) == [h EXCEPT ![start] = h[end], ![end] = h[start]]

\* The hash found is put in place `start', and those before it move up.
MoveFirst(h, start, end) ==
    [k \in DOMAIN h |-> IF k = start THEN h[end]
                        ELSE IF start < k /\ k <= end THEN h[k - 1] ELSE h[k]]

\* resetTransHashFunc, when there is a hash of the address ...
PlaceNext ==
    /\ pc = "place" /\ next \in Ins
    /\ next \notin spent
    /\ \E end \in Matching(transHash, next, next) :
          /\ \A k \in Matching(transHash, next, next) : end <= k
          /\ transHash' = MoveFirst(transHash, next, end)
    /\ next' = next + 1
    /\ UNCHANGED <<pc, req, raw, messages, slots, signed, unknown, spent, hex, verdict>>

\* ... and when there is none, for the node has no address for a spent output, or
\* because an earlier round went this way: the first round drops a hash, a later one
\* takes a slice that ends before it starts.
NothingMatches ==
    /\ pc = "place" /\ next \in Ins
    /\ next \in spent \/ Matching(transHash, next, next) = {}

PlaceDrops ==
    /\ NothingMatches
    /\ next = 1
    /\ transHash' = Tail(transHash)
    /\ unknown' = TRUE
    /\ next' = 2
    /\ UNCHANGED <<pc, req, raw, messages, slots, signed, spent, hex, verdict>>

PlacePanics ==
    /\ NothingMatches
    /\ next # 1
    /\ pc' = "panicked"
    /\ UNCHANGED <<req, raw, messages, slots, signed, lookUp, spent, hex, verdict>>

\* The node does not answer: an error.
PlaceFails ==
    /\ pc = "place" /\ next \in Ins
    /\ pc' = "hashed"
    /\ UNCHANGED <<req, raw, messages, slots, signed, lookUp, spent, hex, verdict>>

SigAt(i) == IF i \in signed THEN [key |-> Owner(i), of |-> i] ELSE NoSig

\* An unknown lock script ends in an empty transaction, which is not verified.
Placed ==
    /\ pc = "place" /\ next > Many
    /\ IF unknown
       THEN pc' = "hashed" /\ verdict' = "unknown" /\ UNCHANGED slots
       ELSE /\ pc' = "placed"
            /\ slots' = [i \in Ins |-> <<SigAt(transHash[i])>>]
            /\ UNCHANGED verdict
    /\ UNCHANGED <<req, raw, messages, signed, lookUp, spent, hex>>

\* Another transaction spends what this one is to spend.
Spend(i) ==
    /\ pc \in {"hashed", "place"} /\ ByAccount
    /\ spent' = spent \union {i}
    /\ UNCHANGED <<pc, req, raw, messages, slots, signed, lookUp, hex, verdict>>

-------------------------------------------------------------------------------
(* InsertSignatureIntoEmptyTransaction.                                    *)

isSegwit == \E i \in Ins : UsesWitness(req.unlock[i], req.segwitOn)

\* The slots that are not empty, one after another.
FilledIn(s) ==
    LET kept[k \in 0..Len(s)] ==
            IF k = 0 THEN << >>
            ELSE IF Filled(s[k]) THEN Append(kept[k - 1], s[k]) ELSE kept[k - 1]
    IN  kept[Len(s)]

FilledOf(i) == FilledIn(slots[i])

\* encodeToScript asks for enough signatures, and takes the first of them.
Complete(i) == Len(FilledOf(i)) >= IF req.unlock[i].required = 0 THEN 1 ELSE req.unlock[i].required
FirstSigsAll(i) == FilledOf(i)               \* mutant
FirstSigs(i) == SubSeq(FilledOf(i), 1, req.unlock[i].required)

SignedVin(v, i) ==
    LET o == req.unlock[i]
        sig == SigScript(slots[i][1])
        \* another witness than that of P2WPKH needs no script beside it
        pub == IF o.kind = "p2wpkh" THEN Nested(o)
               ELSE IF o.kind = "multisig" /\ isSegwit THEN Program(o) ELSE None
    IN  IF o.kind = "multisig"
        THEN [v EXCEPT !.type = o.kind, !.pub = pub, !.sig = None,
                       !.multi = MultiScript(FirstSigs(i), o)]
        ELSE [v EXCEPT !.type = o.kind, !.pub = pub, !.sig = sig]

InsertSignatureIntoEmptyTransaction ==
    /\ pc = IF ByAccount THEN "placed" ELSE "hashed"
    /\ IF (isSegwit => req.segwitOn) /\ \A i \in Ins : Complete(i)
       THEN LET t == DecodeRawTransaction(raw, req.segwitOn)
            IN  /\ hex' = encodeToBytes([t EXCEPT !.witness = isSegwit,
                                                  !.vins = [i \in Ins |-> SignedVin(t.vins[i], i)]],
                                        req.segwitOn)
                /\ pc' = "inserted"
                /\ UNCHANGED verdict
       ELSE /\ pc' = "hashed"
            /\ verdict' = "error"
            /\ UNCHANGED hex
    /\ UNCHANGED <<req, raw, messages, slots, signed, lookUp, spent>>

-------------------------------------------------------------------------------
(* VerifyRawTransaction.                                                   *)

\* The signature is by that key, of the message as the signed transaction has it.
Signs(sig, key, message) == sig.key = key /\ messages[sig.of] = message

\* The i-th signature need only be by one of the keys after as many as were found.
Found(sigs, keys, message) ==
    LET count[i \in 0..Len(sigs)] ==
            IF i = 0 THEN 0
            ELSE IF \E j \in (count[i - 1] + 1)..Len(keys) : Signs(sigs[i], keys[j], message)
                 THEN count[i - 1] + 1 ELSE count[i - 1]
    IN  count[Len(sigs)]

\* The key of a single signature is the one that came with it.
Passes(v, o, message) ==
    IF v.type = "multisig"
    THEN /\ Len(v.multi[2]) = o.required
         /\ Found(v.multi[2], o.keys, message) = o.required
    ELSE LET sig == v.sig[2] IN Signs(sig, sig.key, message)

VerifyRawTransaction ==
    /\ pc = "inserted"
    /\ LET t == DecodeRawTransaction(hex, req.segwitOn)
           now == getHashesForSig(cloneEmpty(t), req.unlock, req.segwitOn)
       IN  verdict' = IF t # NoTx /\ \A i \in Ins : Passes(t.vins[i], req.unlock[i], now[i])
                      THEN "verified" ELSE "rejected"
    /\ pc' = "hashed"
    /\ UNCHANGED <<req, raw, messages, slots, signed, lookUp, spent, hex>>

-------------------------------------------------------------------------------
Next ==
    \/ \E r \in Requests : CreateEmptyRawTransaction(r)
    \/ CreateRawTransactionHashForSig
    \/ \E i \in Ins : \E j \in DOMAIN req.unlock[i].keys, k \in Keys, of \in Ins :
          FillSlot(i, j, [key |-> k, of |-> of])
    \/ \E i \in Ins : SignOne(i) \/ Spend(i)
    \/ VerifyCollect \/ PlaceNext \/ PlaceDrops \/ PlacePanics \/ PlaceFails \/ Placed
    \/ InsertSignatureIntoEmptyTransaction
    \/ VerifyRawTransaction

Spec == Init /\ [][Next]_vars

-------------------------------------------------------------------------------
(* Properties.                                                             *)

\* The one-byte lengths that are written are those of the format: the number of
\* outputs is not one of the few that fit a byte and take more in the format, and
\* the redeem scripts are shorter than the mark.
ShortEnough ==
    /\ req.outs \notin VarIntMark..(ByteRange - 1)
    /\ \A i \in Ins : Size(CodeOf(req.unlock[i])) < VarIntMark

\* What the signers of an input are given to sign is what the node will check their
\* signatures against, whatever the other inputs are and though all rounds of
\* getHashesForSig work on one array of inputs; a number of outputs that no byte
\* holds is found out when the transaction is read back, and no hash is given.
HashIsTheNodes ==
    ShortEnough => \A i \in DOMAIN messages :
        messages[i] = NodeMessage(req.unlock, req.outs, i, req.segwitOn)

\* The node finds the stack that unlocks the output: for a multisignature, the
\* signatures in the order of their keys, in a witness that says how long it is.
Unlocks(v, i, pieces) ==
    LET o == req.unlock[i]
        message == NodeMessage(req.unlock, req.outs, i, req.segwitOn)
        Right(sig, key) == sig.key = key /\ messages[sig.of] = message
    IN  IF o.kind = "multisig"
        THEN LET sigs == v.multi[2]
             IN  /\ Len(sigs) = o.required
                 /\ \E at \in [DOMAIN sigs -> DOMAIN o.keys] :
                       /\ \A m, n \in DOMAIN sigs : m < n => at[m] < at[n]
                       /\ \A n \in DOMAIN sigs : Right(sigs[n], o.keys[at[n]])
                 /\ req.segwitOn => pieces = Len(sigs) + 2
        ELSE Right(v.sig[2], o.keys[1])

NodeAccepts ==
    LET t == DecodeRawTransaction(hex, req.segwitOn)
        witnessOf(i) == hex[Len(hex) - 1 - Many + i]
    IN  /\ Len(t.vins) = Many
        /\ Len(t.vouts) = req.outs
        /\ \A i \in Ins : Unlocks(t.vins[i], i, IF t.witness THEN witnessOf(i)[2] ELSE 0)

\* Each signature there is, is by the key its slot is for.
InOwnSlots ==
    \A i \in DOMAIN slots : \A j \in DOMAIN slots[i] :
        Filled(slots[i][j]) => slots[i][j].key = req.unlock[i].keys[j]

\* What the library verifies the node takes, for the transaction that was asked
\* for: also when signatures were mixed up between inputs, or there are fewer or
\* more of them than a multisignature requires, as long as each is by the key of
\* its slot.  A multisignature with witness must be of two signatures.
VerifiedIsAccepted ==
    /\ verdict = "verified"
    /\ InOwnSlots
    /\ ShortEnough
    /\ \A i \in Ins : req.segwitOn /\ req.unlock[i].kind = "multisig" => req.unlock[i].required = 2
    => NodeAccepts

\* No answer but "verified" when every input has enough signatures, each of its
\* own message and in the slot of its key: whichever of the keys signed, whatever
\* the kinds of the other inputs, in whatever order the accounts' signatures came.
\* Only an output that needs a witness is refused without SegwitON.
SignedVerifies ==
    verdict \in {"error", "rejected"} =>
        \/ ~InOwnSlots
        \/ \E i \in Ins : \/ ~Complete(i)
                          \/ \E j \in DOMAIN slots[i] : Filled(slots[i][j]) /\ slots[i][j].of # i
                          \/ UsesWitness(req.unlock[i], req.segwitOn)
                                /\ (~req.segwitOn \/ Size(CodeOf(req.unlock[i])) >= ByteRange)

\* Each input gets its own message's signature, whatever the order in which the
\* map of accounts is gone through and however many of the inputs share an
\* address: up to the input looked up next, the hashes are in place.
MessagesInPlace ==
    ~unknown => \A i \in DOMAIN transHash : i < next => transHash[i] = i
===============================================================================
