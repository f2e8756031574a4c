-------------------------- MODULE BatchExtractProofs ---------------------------
(***************************************************************************)
(* Proofs about BatchExtract, for any number of batches of any size and any *)
(* number of tokens: what BatchExtractTransaction returns, that it leaves   *)
(* nothing behind, that it keeps the promise of module Batch, and that its   *)
(* goroutines never wait for each other in a circle.  Then about ExtractTx,  *)
(* what they do: for any transactions, owners and failures of the node, what *)
(* is extracted of a transaction is all it holds for the wallet or nothing.  *)
(***************************************************************************)
EXTENDS BatchExtract, Holdings, FiniteSetTheorems, SequenceTheorems, TLAPS

-------------------------------------------------------------------------------
(* Transactions, and functions of them.                                    *)

LEMMA JobPairs ==
    /\ \A b \in Batches : \A t \in Txs(b) : <<b, t>> \in Jobs
    /\ \A j \in Jobs : \E b \in Batches : \E t \in Txs(b) : j = <<b, t>>
BY DEF Jobs

\* A function of the transactions is changed at one of them only.
LEMMA OneChanges ==
    ASSUME NEW S, NEW f \in [Jobs -> S], NEW b \in Batches, NEW t \in Txs(b), NEW p \in S
    PROVE  /\ [f EXCEPT ![<<b, t>>] = p] \in [Jobs -> S]
           /\ \A c \in Batches : \A u \in Txs(c) :
                 [f EXCEPT ![<<b, t>>] = p][<<c, u>>] = IF c = b /\ u = t THEN p ELSE f[<<c, u>>]
<1>1. [f EXCEPT ![<<b, t>>] = p] \in [Jobs -> S]
  OBVIOUS
<1>2. ASSUME NEW c \in Batches, NEW u \in Txs(c)
      PROVE  [f EXCEPT ![<<b, t>>] = p][<<c, u>>] = IF c = b /\ u = t THEN p ELSE f[<<c, u>>]
  <2>1. <<c, u>> \in Jobs
    BY JobPairs
  <2>2. <<c, u>> = <<b, t>> <=> c = b /\ u = t
    OBVIOUS
  <2> QED
    BY <2>1, <2>2
<1> QED
  BY <1>1, <1>2

LEMMA SizeType == \A b \in Batches : Size[b] \in Nat
BY BatchAssumption DEF BatchAssumption

LEMMA TxsFinite ==
    ASSUME NEW b \in Batches
    PROVE  IsFiniteSet(Txs(b)) /\ Cardinality(Txs(b)) = Size[b]
<1>1. Size[b] \in Nat
  BY SizeType
<1>2. IsFiniteSet(1..Size[b]) /\ Cardinality(1..Size[b]) = IF 1 > Size[b] THEN 0 ELSE Size[b] - 1 + 1
  BY <1>1, FS_Interval, SMT
<1> QED
  BY <1>1, <1>2, SMT DEF Txs

-------------------------------------------------------------------------------
(* The inductive invariant.                                                *)

\* extractWork starts the goroutines in order.
InOrder(b) ==
    /\ started[b] <= Size[b]
    /\ \A t \in Txs(b) : at[<<b, t>>] = "waiting" <=> t > started[b]

\* The results in values are those that were received and not yet passed on.
Queue(b) ==
    /\ \A i \in 1..Len(values[b]) : values[b][i] \in Txs(b) /\ at[<<b, values[b][i]>>] = "queued"
    /\ \A i, j \in 1..Len(values[b]) : values[b][i] = values[b][j] => i = j

\* done counts the saved results, and quit is closed after the last.
Counted(b) ==
    /\ done[b] = Cardinality(In(b, {"saved"}))
    /\ quit[b] => done[b] = Size[b]

\* What saveWork has dealt with, and whether it has counted a failure.
Dealt(b) ==
    /\ \A t \in Txs(b) : outcome[<<b, t>>] = "pending" <=> at[<<b, t>>] \notin {"counting", "saved"}
    /\ failed[b] > 0 <=> \E t \in Txs(b) : outcome[<<b, t>>] = "recorded"

\* A batch returns when it is empty or quit is closed.
Returned(b) ==
    /\ ret[b] = "none" <=> main[b] # "returned"
    /\ main[b] = "running" => Size[b] # 0
    /\ main[b] = "returned" => Size[b] = 0 \/ quit[b]
    /\ ret[b] = "error" <=> main[b] = "returned" /\ (Size[b] = 0 \/ failed[b] > 0)

\* A goroutine holds its token until its result is sent.
Tokens ==
    /\ IsFiniteSet(token)
    /\ Cardinality(token) <= MaxExtractingSize
    /\ \A b \in Batches : \A t \in Txs(b) :
          at[<<b, t>>] \in {"extracting", "sending"} => <<b, t>> \in token

BatchInv(b) == InOrder(b) /\ Queue(b) /\ Counted(b) /\ Dealt(b) /\ Returned(b)

ExtractInv == TypeOK /\ Tokens /\ \A b \in Batches : BatchInv(b)

-------------------------------------------------------------------------------
(* Consequences.                                                           *)

\* When quit is closed every result has been saved: there are as many saved
\* results as transactions.
LEMMA QuitMeansSaved ==
    ASSUME TypeOK, NEW b \in Batches, Counted(b), quit[b]
    PROVE  \A t \in Txs(b) : at[<<b, t>>] = "saved"
<1>1. In(b, {"saved"}) \in SUBSET Txs(b)
  BY DEF In
<1>2. Cardinality(Txs(b)) = Cardinality(In(b, {"saved"})) /\ IsFiniteSet(Txs(b))
  BY TxsFinite DEF Counted
<1>3. In(b, {"saved"}) = Txs(b)
  BY <1>1, <1>2, FS_Subset
<1> QED
  BY <1>3 DEF In

LEMMA ReturnedMeansSaved ==
    ASSUME TypeOK, NEW b \in Batches, Counted(b), Returned(b), main[b] = "returned"
    PROVE  \A t \in Txs(b) : at[<<b, t>>] = "saved"
<1>1. CASE Size[b] = 0
  BY <1>1, SMT DEF Txs
<1>2. CASE quit[b]
  BY <1>2, QuitMeansSaved
<1> QED
  BY <1>1, <1>2 DEF Returned

LEMMA InvariantNothingLeftBehind == ExtractInv => NothingLeftBehind
<1> SUFFICES ASSUME ExtractInv, NEW b \in Batches, main[b] = "returned"
             PROVE  (\A t \in Txs(b) : at[<<b, t>>] = "saved") /\ values[b] = << >>
  BY DEF NothingLeftBehind
<1>1. \A t \in Txs(b) : at[<<b, t>>] = "saved"
  BY ReturnedMeansSaved DEF ExtractInv, BatchInv
<1>2. values[b] = << >>
  <2>1. values[b] \in Seq(Nat)
    BY DEF ExtractInv, TypeOK
  <2>2. SUFFICES ASSUME values[b] # << >> PROVE FALSE
    OBVIOUS
  <2>3. 1 \in 1..Len(values[b])
    BY <2>1, <2>2, EmptySeq, SMT
  <2> QED
    BY <1>1, <2>3 DEF ExtractInv, BatchInv, Queue
<1> QED
  BY <1>1, <1>2

LEMMA InvariantReturnIsExact == ExtractInv => ReturnIsExact
<1> SUFFICES ASSUME ExtractInv, NEW b \in Batches, ret[b] # "none"
             PROVE  /\ \A t \in Txs(b) : outcome[<<b, t>>] # "pending"
                    /\ ret[b] = "error" <=> (Size[b] = 0 \/ Promise!SomeRecorded(b))
  BY DEF ReturnIsExact
<1>1. main[b] = "returned" /\ \A t \in Txs(b) : at[<<b, t>>] = "saved"
  BY ReturnedMeansSaved DEF ExtractInv, BatchInv, Returned
<1>2. \A t \in Txs(b) : outcome[<<b, t>>] # "pending"
  BY <1>1 DEF ExtractInv, BatchInv, Dealt
<1>3. Promise!SomeRecorded(b) <=> failed[b] > 0
  BY DEF ExtractInv, BatchInv, Dealt, Promise!SomeRecorded, Promise!Txs, Txs
<1> QED
  BY <1>1, <1>2, <1>3 DEF ExtractInv, BatchInv, Returned

LEMMA InvariantTokensBounded == ExtractInv => TokensBounded
<1> SUFFICES ASSUME ExtractInv PROVE TokensBounded
  OBVIOUS
<1> DEFINE Active == {j \in Jobs : at[j] \in {"extracting", "sending"}}
<1>1. Active \in SUBSET token
  BY JobPairs DEF ExtractInv, Tokens
<1>2. IsFiniteSet(token) /\ Cardinality(token) <= MaxExtractingSize
  BY DEF ExtractInv, Tokens
<1>3. Cardinality(Active) <= Cardinality(token) /\ IsFiniteSet(Active)
  BY <1>1, <1>2, FS_Subset
<1>4. Cardinality(Active) \in Nat /\ Cardinality(token) \in Nat /\ MaxExtractingSize \in Nat
  BY <1>2, <1>3, FS_CardinalityType, BatchAssumption DEF BatchAssumption
<1> HIDE DEF Active
<1>5. Cardinality(Active) <= MaxExtractingSize
  BY <1>2, <1>3, <1>4, SMT
<1> QED
  BY <1>5 DEF TokensBounded, Active

-------------------------------------------------------------------------------
(* A step of one batch leaves the others as they are.                      *)

WorkUnchanged(c) ==
    /\ started'[c] = started[c] /\ values'[c] = values[c] /\ done'[c] = done[c]
    /\ failed'[c] = failed[c] /\ quit'[c] = quit[c]
    /\ \A u \in Txs(c) : at'[<<c, u>>] = at[<<c, u>>] /\ outcome'[<<c, u>>] = outcome[<<c, u>>]

LEMMA SameWork ==
    ASSUME NEW c \in Batches, BatchInv(c), WorkUnchanged(c)
    PROVE  InOrder(c)' /\ Queue(c)' /\ Counted(c)' /\ Dealt(c)'
<1> USE DEF BatchInv, WorkUnchanged
<1>1. InOrder(c)'
  BY DEF InOrder, Txs
<1>2. Queue(c)'
  BY DEF Queue, Txs
<1>3. Counted(c)'
  <2>1. In(c, {"saved"})' = In(c, {"saved"})
    BY DEF In, Txs
  <2> QED
    BY <2>1 DEF Counted
<1>4. Dealt(c)'
  BY DEF Dealt, Txs
<1> QED
  BY <1>1, <1>2, <1>3, <1>4

LEMMA OtherBatch ==
    ASSUME NEW c \in Batches, BatchInv(c), WorkUnchanged(c),
           main'[c] = main[c], ret'[c] = ret[c]
    PROVE  BatchInv(c)'
<1>1. Returned(c)'
  BY DEF BatchInv, WorkUnchanged, Returned
<1> QED
  BY <1>1, SameWork DEF BatchInv

\* The tokens when no transaction becomes active and none is given back.
LEMMA TokensKept ==
    ASSUME Tokens, token' = token,
           \A b \in Batches : \A t \in Txs(b) :
              at'[<<b, t>>] \in {"extracting", "sending"} => at[<<b, t>>] \in {"extracting", "sending"}
    PROVE  Tokens'
BY DEF Tokens, Txs

\* A set of saved results grows by one.
LEMMA OneMoreSaved ==
    ASSUME NEW b \in Batches, NEW t \in Txs(b), Counted(b),
           at[<<b, t>>] # "saved",
           \A u \in Txs(b) : at'[<<b, u>>] = IF u = t THEN "saved" ELSE at[<<b, u>>]
    PROVE  Cardinality(In(b, {"saved"}))' = done[b] + 1
<1>1. In(b, {"saved"})' = In(b, {"saved"}) \union {t}
  BY DEF In, Txs
<1>2. t \notin In(b, {"saved"})
  BY DEF In
<1>3. In(b, {"saved"}) \in SUBSET Txs(b)
  BY DEF In
<1>4. IsFiniteSet(In(b, {"saved"}))
  BY <1>3, TxsFinite, FS_Subset
<1>5. Cardinality(In(b, {"saved"}) \union {t}) = Cardinality(In(b, {"saved"})) + 1
  BY <1>2, <1>4, FS_AddElement
<1> QED
  BY <1>1, <1>5 DEF Counted

-------------------------------------------------------------------------------
(* Initially.                                                              *)

LEMMA InitEstablishes == Init => ExtractInv
<1> SUFFICES ASSUME Init PROVE ExtractInv
  OBVIOUS
<1> USE DEF Init
<1>1. TypeOK
  BY DEF TypeOK, Places
<1>2. ASSUME NEW b \in Batches, NEW t \in Txs(b)
      PROVE  at[<<b, t>>] = "waiting" /\ outcome[<<b, t>>] = "pending"
  BY JobPairs
<1>3. Tokens
  <2>1. IsFiniteSet({}) /\ Cardinality({}) = 0
    BY FS_EmptySet
  <2>2. 0 <= MaxExtractingSize
    BY BatchAssumption, SMT DEF BatchAssumption
  <2>3. \A b \in Batches : \A t \in Txs(b) : at[<<b, t>>] \notin {"extracting", "sending"}
    BY <1>2
  <2> QED
    BY <2>1, <2>2, <2>3 DEF Tokens
<1>4. ASSUME NEW b \in Batches PROVE BatchInv(b)
  <2>1. Size[b] \in Nat
    BY SizeType
  <2>2. InOrder(b)
    BY <1>2, <2>1, SMT DEF InOrder, Txs
  <2>3. Queue(b)
    BY SMT DEF Queue
  <2>4. Counted(b)
    <3>1. In(b, {"saved"}) = {}
      BY <1>2 DEF In
    <3> QED
      BY <3>1, FS_EmptySet DEF Counted
  <2>5. Dealt(b)
    <3>1. ~(failed[b] > 0)
      BY SMT
    <3> QED
      BY <1>2, <3>1 DEF Dealt
  <2>6. Returned(b)
    BY DEF Returned
  <2> QED
    BY <2>2, <2>3, <2>4, <2>5, <2>6 DEF BatchInv
<1> QED
  BY <1>1, <1>3, <1>4 DEF ExtractInv

-------------------------------------------------------------------------------
(* The steps of the caller.                                                *)

\* A batch starts, or is refused for being empty.
LEMMA StartPreserves ==
    ASSUME ExtractInv, NEW b \in Batches, StartEmpty(b) \/ Start(b)
    PROVE  ExtractInv'
<1>1. /\ main[b] = "idle"
      /\ \/ main' = [main EXCEPT ![b] = "returned"] /\ ret' = [ret EXCEPT ![b] = "error"] /\ Size[b] = 0
         \/ main' = [main EXCEPT ![b] = "running"] /\ ret' = ret /\ Size[b] # 0
      /\ UNCHANGED <<started, at, success, token, values, saver, done, failed, quit, outcome>>
  BY SizeType, SMT DEF StartEmpty, Start
<1>2. TypeOK'
  BY <1>1 DEF ExtractInv, TypeOK
<1>3. Tokens'
  BY <1>1, TokensKept DEF ExtractInv
<1>4. ASSUME NEW c \in Batches, c # b PROVE BatchInv(c)'
  <2>1. main'[c] = main[c] /\ ret'[c] = ret[c]
    BY <1>1, <1>4 DEF ExtractInv, TypeOK
  <2> QED
    BY <1>1, <2>1, OtherBatch DEF ExtractInv, WorkUnchanged
<1>5. BatchInv(b)'
  <2>1. InOrder(b)' /\ Queue(b)' /\ Counted(b)' /\ Dealt(b)'
    BY <1>1, SameWork DEF ExtractInv, WorkUnchanged
  <2>2. Returned(b)'
    BY <1>1 DEF ExtractInv, BatchInv, TypeOK, Returned
  <2> QED
    BY <2>1, <2>2 DEF BatchInv
<1> QED
  BY <1>2, <1>3, <1>4, <1>5 DEF ExtractInv

LEMMA ReturnPreserves ==
    ASSUME ExtractInv, NEW b \in Batches, Return(b)
    PROVE  ExtractInv'
<1>1. /\ main[b] = "running" /\ quit[b]
      /\ main' = [main EXCEPT ![b] = "returned"]
      /\ ret' = [ret EXCEPT ![b] = IF failed[b] > 0 THEN "error" ELSE "nil"]
      /\ UNCHANGED <<started, at, success, token, values, saver, done, failed, quit, outcome>>
  BY DEF Return, BatchError
<1>2. TypeOK'
  BY <1>1 DEF ExtractInv, TypeOK
<1>3. Tokens'
  BY <1>1, TokensKept DEF ExtractInv
<1>4. ASSUME NEW c \in Batches, c # b PROVE BatchInv(c)'
  <2>1. main'[c] = main[c] /\ ret'[c] = ret[c]
    BY <1>1, <1>4 DEF ExtractInv, TypeOK
  <2> QED
    BY <1>1, <2>1, OtherBatch DEF ExtractInv, WorkUnchanged
<1>5. BatchInv(b)'
  <2>1. InOrder(b)' /\ Queue(b)' /\ Counted(b)' /\ Dealt(b)'
    BY <1>1, SameWork DEF ExtractInv, WorkUnchanged
  <2>2. Returned(b)'
    BY <1>1 DEF ExtractInv, BatchInv, TypeOK, Returned
  <2> QED
    BY <2>1, <2>2 DEF BatchInv
<1> QED
  BY <1>2, <1>3, <1>4, <1>5 DEF ExtractInv

-------------------------------------------------------------------------------
(* The steps that move one transaction from a place to the next.           *)

\* Which parts of a batch's invariant a move leaves alone.
LEMMA SameOrder ==
    ASSUME NEW b \in Batches, InOrder(b), started'[b] = started[b],
           \A u \in Txs(b) : at'[<<b, u>>] = "waiting" <=> at[<<b, u>>] = "waiting"
    PROVE  InOrder(b)'
BY DEF InOrder, Txs

LEMMA SameQueue ==
    ASSUME NEW b \in Batches, Queue(b), values'[b] = values[b],
           \A u \in Txs(b) : at[<<b, u>>] = "queued" => at'[<<b, u>>] = "queued"
    PROVE  Queue(b)'
BY DEF Queue, Txs

LEMMA SameCount ==
    ASSUME NEW b \in Batches, Counted(b), done'[b] = done[b], quit'[b] = quit[b],
           \A u \in Txs(b) : at'[<<b, u>>] = "saved" <=> at[<<b, u>>] = "saved"
    PROVE  Counted(b)'
<1>1. In(b, {"saved"})' = In(b, {"saved"})
  BY DEF In, Txs
<1> QED
  BY <1>1 DEF Counted

LEMMA SameDeal ==
    ASSUME NEW b \in Batches, Dealt(b), failed'[b] = failed[b],
           \A u \in Txs(b) : outcome'[<<b, u>>] = outcome[<<b, u>>],
           \A u \in Txs(b) : at'[<<b, u>>] \in {"counting", "saved"} <=> at[<<b, u>>] \in {"counting", "saved"}
    PROVE  Dealt(b)'
BY DEF Dealt, Txs

\* at after a move: transaction t of batch b alone is somewhere else.
Moves(b, t, p) ==
    /\ at' \in [Jobs -> Places]
    /\ \A c \in Batches : \A u \in Txs(c) :
          at'[<<c, u>>] = IF c = b /\ u = t THEN p ELSE at[<<c, u>>]

LEMMA AtMoves ==
    ASSUME TypeOK, NEW b \in Batches, NEW t \in Txs(b), NEW p \in Places,
           at' = [at EXCEPT ![<<b, t>>] = p]
    PROVE  Moves(b, t, p)
<1>1. at \in [Jobs -> Places]
  BY DEF TypeOK
<1> DEFINE g == [at EXCEPT ![<<b, t>>] = p]
<1>2. /\ g \in [Jobs -> Places]
      /\ \A c \in Batches : \A u \in Txs(c) :
            g[<<c, u>>] = IF c = b /\ u = t THEN p ELSE at[<<c, u>>]
  BY <1>1, OneChanges
<1>3. at' = g
  OBVIOUS
<1> HIDE DEF g
<1> QED
  BY <1>2, <1>3 DEF Moves

\* The other batches after a move of batch b.
LEMMA OthersAfterMove ==
    ASSUME ExtractInv, NEW b \in Batches, NEW t \in Txs(b), NEW p \in Places, Moves(b, t, p),
           NEW c \in Batches, c # b,
           started'[c] = started[c], values'[c] = values[c], done'[c] = done[c],
           failed'[c] = failed[c], quit'[c] = quit[c], main'[c] = main[c], ret'[c] = ret[c],
           \A u \in Txs(c) : outcome'[<<c, u>>] = outcome[<<c, u>>]
    PROVE  BatchInv(c)'
<1>1. WorkUnchanged(c)
  BY DEF Moves, WorkUnchanged
<1> QED
  BY <1>1, OtherBatch DEF ExtractInv

\* A result is received from its goroutine and queued.
LEMMA ProducePreserves ==
    ASSUME ExtractInv, NEW b \in Batches, NEW t \in Txs(b), Produce(b, t)
    PROVE  ExtractInv'
<1>1. /\ at[<<b, t>>] = "sending"
      /\ at' = [at EXCEPT ![<<b, t>>] = "queued"]
      /\ values' = [values EXCEPT ![b] = Append(values[b], t)]
      /\ UNCHANGED <<main, started, success, token, saver, done, failed, quit, outcome, ret>>
  BY DEF Produce
<1>2. Moves(b, t, "queued")
  BY <1>1, AtMoves DEF ExtractInv, Places
<1>3. t \in Nat /\ values[b] \in Seq(Nat)
  BY SizeType, SMT DEF Txs, ExtractInv, TypeOK
<1>4. TypeOK'
  <2>1. Append(values[b], t) \in Seq(Nat)
    BY <1>3
  <2> QED
    BY <1>1, <1>2, <2>1 DEF ExtractInv, TypeOK, Moves
<1>5. Tokens'
  BY <1>1, <1>2, TokensKept DEF ExtractInv, Moves
<1>6. ASSUME NEW c \in Batches, c # b PROVE BatchInv(c)'
  <2>1. values'[c] = values[c]
    BY <1>1, <1>6 DEF ExtractInv, TypeOK
  <2> QED
    BY <1>1, <1>2, <1>6, <2>1, OthersAfterMove DEF Places
<1>7. BatchInv(b)'
  <2>1. /\ \A u \in Txs(b) : at'[<<b, u>>] = IF u = t THEN "queued" ELSE at[<<b, u>>]
        /\ BatchInv(b)
    BY <1>2 DEF Moves, ExtractInv
  <2>2. InOrder(b)'
    BY <1>1, <2>1, SameOrder DEF BatchInv
  <2>3. Queue(b)'
    <3> DEFINE s == values[b]
    <3>1. values'[b] = Append(s, t)
      BY <1>1 DEF ExtractInv, TypeOK
    <3>2. /\ Len(s) \in Nat /\ Len(Append(s, t)) = Len(s) + 1
          /\ \A i \in 1..Len(s) : Append(s, t)[i] = s[i]
          /\ Append(s, t)[Len(s) + 1] = t
      BY <1>3
    <3>3. \A i \in 1..(Len(s) + 1) : i \in 1..Len(s) \/ i = Len(s) + 1
      BY <3>2, SMT
    <3>4. \A i \in 1..Len(s) : s[i] \in Txs(b) /\ s[i] # t /\ at'[<<b, s[i]>>] = "queued"
      BY <1>1, <2>1 DEF BatchInv, Queue
    <3>5. at'[<<b, t>>] = "queued"
      BY <2>1
    <3> DEFINE v == Append(s, t)
    <3>6. \A i \in 1..Len(v) : v[i] \in Txs(b) /\ at'[<<b, v[i]>>] = "queued"
      BY <3>2, <3>3, <3>4, <3>5
    <3>7. \A i, j \in 1..Len(s) : s[i] = s[j] => i = j
      BY <2>1 DEF BatchInv, Queue
    <3>8. \A i, j \in 1..Len(v) : v[i] = v[j] => i = j
      BY <3>2, <3>3, <3>4, <3>7
    <3> QED
      BY <3>1, <3>6, <3>8 DEF Queue, Txs
  <2>4. Counted(b)'
    BY <1>1, <2>1, SameCount DEF BatchInv
  <2>5. Dealt(b)'
    BY <1>1, <2>1, SameDeal DEF BatchInv
  <2>6. Returned(b)'
    BY <1>1, <2>1 DEF BatchInv, Returned
  <2> QED
    BY <2>2, <2>3, <2>4, <2>5, <2>6 DEF BatchInv
<1> QED
  BY <1>4, <1>5, <1>6, <1>7 DEF ExtractInv

\* saveWork receives the first of the queued results.
LEMMA ConsumePreserves ==
    ASSUME ExtractInv, NEW b \in Batches, Consume(b)
    PROVE  ExtractInv'
<1> DEFINE s == values[b]
           t == Head(s)
           r == Tail(s)
<1>1. /\ s # << >>
      /\ at' = [at EXCEPT ![<<b, t>>] = "saving"]
      /\ values' = [values EXCEPT ![b] = r]
      /\ saver' = [saver EXCEPT ![b] = "busy"]
      /\ UNCHANGED <<main, started, success, token, done, failed, quit, outcome, ret>>
  BY DEF Consume, Rest
<1>2. /\ s \in Seq(Nat) /\ r \in Seq(Nat) /\ Len(s) \in Nat /\ Len(s) >= 1 /\ Len(r) = Len(s) - 1
      /\ \A i \in 1..Len(r) : r[i] = s[i + 1]
      /\ t = s[1]
  <2>1. s \in Seq(Nat)
    BY DEF ExtractInv, TypeOK
  <2> HIDE DEF s
  <2>2. r \in Seq(Nat) /\ Len(r) = Len(s) - 1 /\ \A i \in 1..Len(r) : r[i] = s[i + 1]
    BY <1>1, <2>1, HeadTailProperties
  <2>3. Len(s) \in Nat /\ Len(s) >= 1
    BY <1>1, <2>1, EmptySeq, SMT
  <2> QED
    BY <2>1, <2>2, <2>3
<1>3. t \in Txs(b) /\ at[<<b, t>>] = "queued"
  <2>1. 1 \in 1..Len(s)
    BY <1>2, SMT
  <2> QED
    BY <1>2, <2>1 DEF ExtractInv, BatchInv, Queue
<1> HIDE DEF t, r
<1>4. Moves(b, t, "saving")
  BY <1>1, <1>3, AtMoves DEF ExtractInv, Places
<1>5. TypeOK'
  BY <1>1, <1>2, <1>4 DEF ExtractInv, TypeOK, Moves
<1>6. Tokens'
  BY <1>1, <1>4, TokensKept DEF ExtractInv, Moves
<1>7. ASSUME NEW c \in Batches, c # b PROVE BatchInv(c)'
  <2>1. values'[c] = values[c]
    BY <1>1, <1>7 DEF ExtractInv, TypeOK
  <2> QED
    BY <1>1, <1>3, <1>4, <1>7, <2>1, OthersAfterMove DEF Places
<1>8. BatchInv(b)'
  <2>1. /\ \A u \in Txs(b) : at'[<<b, u>>] = IF u = t THEN "saving" ELSE at[<<b, u>>]
        /\ BatchInv(b)
    BY <1>4 DEF Moves, ExtractInv
  <2>2. InOrder(b)'
    BY <1>1, <1>3, <2>1, SameOrder DEF BatchInv
  <2>3. Queue(b)'
    <3>1. values'[b] = r
      BY <1>1 DEF ExtractInv, TypeOK
    <3>2. \A i \in 1..Len(r) : i + 1 \in 1..Len(s) /\ i + 1 # 1 /\ 1 \in 1..Len(s)
      BY <1>2, SMT
    <3>3. /\ \A i \in 1..Len(s) : s[i] \in Txs(b) /\ at[<<b, s[i]>>] = "queued"
          /\ \A i, j \in 1..Len(s) : s[i] = s[j] => i = j
      BY <2>1 DEF BatchInv, Queue
    <3>4. ASSUME NEW i \in 1..Len(r)
          PROVE  r[i] \in Txs(b) /\ at'[<<b, r[i]>>] = "queued"
      <4>1. r[i] = s[i + 1] /\ s[i + 1] # t
        BY <1>2, <3>2, <3>3
      <4> QED
        BY <2>1, <3>2, <3>3, <4>1
    <3>5. ASSUME NEW i \in 1..Len(r), NEW j \in 1..Len(r), r[i] = r[j] PROVE i = j
      <4>1. s[i + 1] = s[j + 1]
        BY <1>2, <3>5
      <4>2. i + 1 = j + 1
        BY <3>2, <3>3, <4>1
      <4> QED
        BY <1>2, <4>2, SMT
    <3> QED
      BY <3>1, <3>4, <3>5 DEF Queue, Txs
  <2>4. Counted(b)'
    BY <1>1, <1>3, <2>1, SameCount DEF BatchInv
  <2>5. Dealt(b)'
    BY <1>1, <1>3, <2>1, SameDeal DEF BatchInv
  <2>6. Returned(b)'
    BY <1>1, <2>1 DEF BatchInv, Returned
  <2> QED
    BY <2>2, <2>3, <2>4, <2>5, <2>6 DEF BatchInv
<1> QED
  BY <1>5, <1>6, <1>7, <1>8 DEF ExtractInv

\* extractWork takes a token and starts the next goroutine.
LEMMA AcquirePreserves ==
    ASSUME ExtractInv, NEW b \in Batches, Acquire(b)
    PROVE  ExtractInv'
<1> DEFINE t == started[b] + 1
<1>1. /\ t <= Size[b] /\ Cardinality(token) < MaxExtractingSize
      /\ token' = token \union {<<b, t>>}
      /\ started' = [started EXCEPT ![b] = t]
      /\ at' = [at EXCEPT ![<<b, t>>] = "extracting"]
      /\ UNCHANGED <<main, success, values, saver, done, failed, quit, outcome, ret>>
  BY DEF Acquire, NextTx, HasToken
<1>2. started[b] \in Nat /\ t \in Nat /\ t \in Txs(b) /\ t > started[b]
  BY <1>1, SizeType, SMT DEF ExtractInv, TypeOK, Txs
<1>3. at[<<b, t>>] = "waiting" /\ <<b, t>> \in Jobs
  BY <1>2, JobPairs DEF ExtractInv, BatchInv, InOrder
<1>4. Moves(b, t, "extracting")
  BY <1>1, <1>2, AtMoves DEF ExtractInv, Places
<1>5. TypeOK'
  BY <1>1, <1>2, <1>3, <1>4 DEF ExtractInv, TypeOK, Moves
<1>6. Tokens'
  <2>1. IsFiniteSet(token) /\ Cardinality(token) \in Nat
    BY FS_CardinalityType DEF ExtractInv, Tokens
  <2>2. IsFiniteSet(token') /\ (Cardinality(token') = Cardinality(token) \/ Cardinality(token') = Cardinality(token) + 1)
    BY <1>1, <2>1, FS_AddElement
  <2>3. MaxExtractingSize \in Nat
    BY BatchAssumption DEF BatchAssumption
  <2>4. Cardinality(token') <= MaxExtractingSize
    BY <1>1, <2>1, <2>2, <2>3, SMT
  <2>5. ASSUME NEW c \in Batches, NEW u \in Txs(c), at'[<<c, u>>] \in {"extracting", "sending"}
        PROVE  <<c, u>> \in token'
    BY <1>1, <1>4, <2>5 DEF ExtractInv, Tokens, Moves
  <2> QED
    BY <2>2, <2>4, <2>5 DEF Tokens, Txs
<1> HIDE DEF t
<1>7. ASSUME NEW c \in Batches, c # b PROVE BatchInv(c)'
  <2>1. started'[c] = started[c]
    BY <1>1, <1>7 DEF ExtractInv, TypeOK
  <2> QED
    BY <1>1, <1>2, <1>4, <1>7, <2>1, OthersAfterMove DEF Places
<1>8. BatchInv(b)'
  <2>1. /\ \A u \in Txs(b) : at'[<<b, u>>] = IF u = t THEN "extracting" ELSE at[<<b, u>>]
        /\ BatchInv(b)
    BY <1>4 DEF Moves, ExtractInv
  <2>2. InOrder(b)'
    <3>1. started'[b] = t
      BY <1>1 DEF ExtractInv, TypeOK
    <3>2. \A u \in Txs(b) : u \in Nat
      BY SizeType, SMT DEF Txs
    <3>3. \A u \in Txs(b) : u = t \/ (u > t <=> u > started[b])
      BY <1>2, <3>2, SMT DEF t
    <3>4. ~(t > t)
      BY <1>2, SMT
    <3> QED
      BY <1>1, <2>1, <3>1, <3>3, <3>4 DEF BatchInv, InOrder, Txs
  <2>3. Queue(b)'
    BY <1>1, <1>3, <2>1, SameQueue DEF BatchInv
  <2>4. Counted(b)'
    BY <1>1, <1>3, <2>1, SameCount DEF BatchInv
  <2>5. Dealt(b)'
    BY <1>1, <1>3, <2>1, SameDeal DEF BatchInv
  <2>6. Returned(b)'
    BY <1>1, <2>1 DEF BatchInv, Returned
  <2> QED
    BY <2>2, <2>3, <2>4, <2>5, <2>6 DEF BatchInv
<1> QED
  BY <1>5, <1>6, <1>7, <1>8 DEF ExtractInv

\* A goroutine has its result.
LEMMA ExtractPreserves ==
    ASSUME ExtractInv, NEW b \in Batches, NEW t \in Txs(b), Extract(b, t)
    PROVE  ExtractInv'
<1>1. /\ at[<<b, t>>] = "extracting"
      /\ at' = [at EXCEPT ![<<b, t>>] = "sending"]
      /\ \E s \in BOOLEAN : success' = [success EXCEPT ![<<b, t>>] = s]
      /\ UNCHANGED <<main, started, token, values, saver, done, failed, quit, outcome, ret>>
  BY DEF Extract
<1>2. Moves(b, t, "sending")
  BY <1>1, AtMoves DEF ExtractInv, Places
<1>3. success' \in [Jobs -> BOOLEAN]
  BY <1>1 DEF ExtractInv, TypeOK
<1>4. TypeOK'
  BY <1>1, <1>2, <1>3 DEF ExtractInv, TypeOK, Moves
<1>5. Tokens'
  BY <1>1, <1>2, TokensKept DEF ExtractInv, Moves
<1>6. ASSUME NEW c \in Batches, c # b PROVE BatchInv(c)'
  BY <1>1, <1>2, <1>6, OthersAfterMove DEF Places
<1>7. BatchInv(b)'
  <2>1. /\ \A u \in Txs(b) : at'[<<b, u>>] = IF u = t THEN "sending" ELSE at[<<b, u>>]
        /\ BatchInv(b)
    BY <1>2 DEF Moves, ExtractInv
  <2>2. InOrder(b)'
    BY <1>1, <2>1, SameOrder DEF BatchInv
  <2>3. Queue(b)'
    BY <1>1, <2>1, SameQueue DEF BatchInv
  <2>4. Counted(b)'
    BY <1>1, <2>1, SameCount DEF BatchInv
  <2>5. Dealt(b)'
    BY <1>1, <2>1, SameDeal DEF BatchInv
  <2>6. Returned(b)'
    BY <1>1, <2>1 DEF BatchInv, Returned
  <2> QED
    BY <2>2, <2>3, <2>4, <2>5, <2>6 DEF BatchInv
<1> QED
  BY <1>4, <1>5, <1>6, <1>7 DEF ExtractInv

\* A goroutine gives its token back once its result is sent.
LEMMA ReleasePreserves ==
    ASSUME ExtractInv, NEW b \in Batches, NEW t \in Txs(b), Release(b, t)
    PROVE  ExtractInv'
<1>1. /\ at[<<b, t>>] \in {"queued", "saving", "counting", "saved"}
      /\ token' = token \ {<<b, t>>}
      /\ UNCHANGED <<main, started, at, success, values, saver, done, failed, quit, outcome, ret>>
  BY DEF Release, Sent
<1>2. TypeOK'
  BY <1>1 DEF ExtractInv, TypeOK
<1>3. Tokens'
  <2>1. IsFiniteSet(token) /\ Cardinality(token) \in Nat /\ token' \in SUBSET token
    BY <1>1, FS_CardinalityType DEF ExtractInv, Tokens
  <2>2. IsFiniteSet(token') /\ Cardinality(token') <= Cardinality(token)
    BY <2>1, FS_Subset
  <2>3. MaxExtractingSize \in Nat /\ Cardinality(token') \in Nat
    BY <2>2, FS_CardinalityType, BatchAssumption DEF BatchAssumption
  <2>4. Cardinality(token') <= MaxExtractingSize
    BY <2>1, <2>2, <2>3, SMT DEF ExtractInv, Tokens
  <2>5. ASSUME NEW c \in Batches, NEW u \in Txs(c), at[<<c, u>>] \in {"extracting", "sending"}
        PROVE  <<c, u>> \in token'
    <3>1. <<c, u>> \in token
      BY <2>5 DEF ExtractInv, Tokens
    <3>2. <<c, u>> # <<b, t>>
      BY <1>1, <2>5
    <3> QED
      BY <1>1, <3>1, <3>2
  <2> QED
    BY <1>1, <2>2, <2>4, <2>5 DEF Tokens, Txs
<1>4. ASSUME NEW c \in Batches PROVE BatchInv(c)'
  BY <1>1, OtherBatch DEF ExtractInv, WorkUnchanged
<1> QED
  BY <1>2, <1>3, <1>4 DEF ExtractInv

\* saveWork's loop ends.
LEMMA StopSaverPreserves ==
    ASSUME ExtractInv, NEW b \in Batches, StopSaver(b)
    PROVE  ExtractInv'
<1>1. /\ saver' = [saver EXCEPT ![b] = "stopped"]
      /\ UNCHANGED <<main, started, at, success, token, values, done, failed, quit, outcome, ret>>
  BY DEF StopSaver
<1>2. TypeOK'
  BY <1>1 DEF ExtractInv, TypeOK
<1>3. Tokens'
  BY <1>1, TokensKept DEF ExtractInv
<1>4. ASSUME NEW c \in Batches PROVE BatchInv(c)'
  BY <1>1, OtherBatch DEF ExtractInv, WorkUnchanged
<1> QED
  BY <1>2, <1>3, <1>4 DEF ExtractInv

\* A result that is being saved belongs to a batch that has not returned.
LEMMA SavingMeansRunning ==
    ASSUME ExtractInv, NEW b \in Batches, NEW t \in Txs(b), at[<<b, t>>] = "saving"
    PROVE  main[b] # "returned" /\ ret[b] = "none" /\ outcome[<<b, t>>] = "pending"
<1>1. main[b] # "returned"
  BY ReturnedMeansSaved DEF ExtractInv, BatchInv
<1> QED
  BY <1>1 DEF ExtractInv, BatchInv, Returned, Dealt

\* saveWork deals with a result: it notifies the observers or leaves a record.
LEMMA SavePreserves ==
    ASSUME ExtractInv, NEW b \in Batches, NEW t \in Txs(b),
           SaveSuccess(b, t) \/ SaveFailure(b, t)
    PROVE  ExtractInv'
<1>1. /\ at[<<b, t>>] = "saving"
      /\ at' = [at EXCEPT ![<<b, t>>] = "counting"]
      /\ UNCHANGED <<main, started, success, token, values, saver, done, quit, ret>>
  BY DEF SaveSuccess, SaveFailure
<1>2. PICK o \in {"notified", "refused", "recorded"} :
         /\ outcome' = [outcome EXCEPT ![<<b, t>>] = o]
         /\ \/ o # "recorded" /\ failed' = failed
            \/ o = "recorded" /\ failed' = [failed EXCEPT ![b] = failed[b] + 1]
  BY DEF SaveSuccess, SaveFailure
<1>3. Moves(b, t, "counting")
  BY <1>1, AtMoves DEF ExtractInv, Places
<1>4. \A c \in Batches : \A u \in Txs(c) :
         outcome'[<<c, u>>] = IF c = b /\ u = t THEN o ELSE outcome[<<c, u>>]
  <2>1. outcome \in [Jobs -> {"pending", "notified", "refused", "recorded"}]
    BY DEF ExtractInv, TypeOK
  <2>2. ASSUME NEW c \in Batches, NEW u \in Txs(c)
        PROVE  outcome'[<<c, u>>] = IF c = b /\ u = t THEN o ELSE outcome[<<c, u>>]
    <3>1. <<c, u>> \in Jobs
      BY JobPairs
    <3>2. <<c, u>> = <<b, t>> <=> c = b /\ u = t
      OBVIOUS
    <3> QED
      BY <1>2, <2>1, <3>1, <3>2
  <2> QED
    BY <2>2
<1>5. failed[b] \in Nat /\ failed' \in [Batches -> Nat]
  <2>1. failed \in [Batches -> Nat] /\ failed[b] \in Nat /\ failed[b] + 1 \in Nat
    BY SMT DEF ExtractInv, TypeOK
  <2> QED
    BY <1>2, <2>1
<1>6. outcome' \in [Jobs -> {"pending", "notified", "refused", "recorded"}]
  BY <1>2 DEF ExtractInv, TypeOK
<1>7. TypeOK'
  BY <1>1, <1>3, <1>5, <1>6 DEF ExtractInv, TypeOK, Moves
<1>8. Tokens'
  BY <1>1, <1>3, TokensKept DEF ExtractInv, Moves
<1>9. ASSUME NEW c \in Batches, c # b PROVE BatchInv(c)'
  <2>1. failed'[c] = failed[c]
    BY <1>2, <1>9 DEF ExtractInv, TypeOK
  <2>2. \A u \in Txs(c) : outcome'[<<c, u>>] = outcome[<<c, u>>]
    BY <1>4, <1>9
  <2> QED
    BY <1>1, <1>3, <1>9, <2>1, <2>2, OthersAfterMove DEF Places
<1>10. BatchInv(b)'
  <2>1. /\ \A u \in Txs(b) : at'[<<b, u>>] = IF u = t THEN "counting" ELSE at[<<b, u>>]
        /\ \A u \in Txs(b) : outcome'[<<b, u>>] = IF u = t THEN o ELSE outcome[<<b, u>>]
        /\ BatchInv(b)
    BY <1>3, <1>4 DEF Moves, ExtractInv
  <2>2. InOrder(b)'
    BY <1>1, <2>1, SameOrder DEF BatchInv
  <2>3. Queue(b)'
    BY <1>1, <2>1, SameQueue DEF BatchInv
  <2>4. Counted(b)'
    BY <1>1, <2>1, SameCount DEF BatchInv
  <2>5. main[b] # "returned" /\ ret[b] = "none" /\ outcome[<<b, t>>] = "pending"
    BY <1>1, SavingMeansRunning
  <2>6. Dealt(b)'
    <3>1. ASSUME NEW u \in Txs(b)
          PROVE  outcome'[<<b, u>>] = "pending" <=> at'[<<b, u>>] \notin {"counting", "saved"}
      BY <2>1 DEF BatchInv, Dealt
    <3>2. failed'[b] > 0 <=> \E u \in Txs(b) : outcome'[<<b, u>>] = "recorded"
      <4>1. CASE o # "recorded"
        <5>1. failed'[b] = failed[b]
          BY <1>2, <4>1
        <5>2. \A u \in Txs(b) : outcome'[<<b, u>>] = "recorded" <=> outcome[<<b, u>>] = "recorded"
          BY <2>1, <2>5, <4>1
        <5> QED
          BY <2>1, <5>1, <5>2 DEF BatchInv, Dealt
      <4>2. CASE o = "recorded"
        <5>1. failed'[b] = failed[b] + 1
          BY <1>2, <4>2 DEF ExtractInv, TypeOK
        <5>2. failed'[b] > 0
          BY <1>5, <5>1, SMT
        <5>3. outcome'[<<b, t>>] = "recorded"
          BY <2>1, <4>2
        <5> QED
          BY <5>2, <5>3
      <4> QED
        BY <4>1, <4>2
    <3> QED
      BY <3>1, <3>2 DEF Dealt, Txs
  <2>7. Returned(b)'
    BY <1>1, <2>1, <2>5 DEF BatchInv, Returned
  <2> QED
    BY <2>2, <2>3, <2>4, <2>6, <2>7 DEF BatchInv
<1> QED
  BY <1>7, <1>8, <1>9, <1>10 DEF ExtractInv

\* saveWork counts a result, and closes quit after the last.
LEMMA CountDonePreserves ==
    ASSUME ExtractInv, NEW b \in Batches, NEW t \in Txs(b), CountDone(b, t)
    PROVE  ExtractInv'
<1>1. /\ at[<<b, t>>] = "counting"
      /\ at' = [at EXCEPT ![<<b, t>>] = "saved"]
      /\ done' = [done EXCEPT ![b] = done[b] + 1]
      /\ quit' = [quit EXCEPT ![b] = quit[b] \/ done[b] + 1 = Size[b]]
      /\ saver' = [saver EXCEPT ![b] = "ready"]
      /\ UNCHANGED <<main, started, success, token, values, failed, outcome, ret>>
  BY DEF CountDone, AllDone
<1>2. Moves(b, t, "saved")
  BY <1>1, AtMoves DEF ExtractInv, Places
<1>3. done[b] \in Nat /\ done' \in [Batches -> Nat] /\ quit' \in [Batches -> BOOLEAN]
  BY <1>1 DEF ExtractInv, TypeOK
<1>4. TypeOK'
  BY <1>1, <1>2, <1>3 DEF ExtractInv, TypeOK, Moves
<1>5. Tokens'
  BY <1>1, <1>2, TokensKept DEF ExtractInv, Moves
<1>6. ASSUME NEW c \in Batches, c # b PROVE BatchInv(c)'
  <2>1. done'[c] = done[c] /\ quit'[c] = quit[c]
    BY <1>1, <1>6 DEF ExtractInv, TypeOK
  <2> QED
    BY <1>1, <1>2, <1>6, <2>1, OthersAfterMove DEF Places
<1>7. BatchInv(b)'
  <2>1. /\ \A u \in Txs(b) : at'[<<b, u>>] = IF u = t THEN "saved" ELSE at[<<b, u>>]
        /\ BatchInv(b)
    BY <1>2 DEF Moves, ExtractInv
  <2>2. InOrder(b)'
    BY <1>1, <2>1, SameOrder DEF BatchInv
  <2>3. Queue(b)'
    BY <1>1, <2>1, SameQueue DEF BatchInv
  <2>4. ~quit[b]
    BY <1>1, QuitMeansSaved DEF ExtractInv, BatchInv
  <2>5. Counted(b)'
    <3>1. Cardinality(In(b, {"saved"}))' = done[b] + 1
      BY <1>1, <2>1, OneMoreSaved DEF BatchInv
    <3>2. done'[b] = done[b] + 1 /\ quit'[b] = (quit[b] \/ done[b] + 1 = Size[b])
      BY <1>1 DEF ExtractInv, TypeOK
    <3> QED
      BY <2>4, <3>1, <3>2 DEF Counted
  <2>6. Dealt(b)'
    BY <1>1, <2>1, SameDeal DEF BatchInv
  <2>7. Returned(b)'
    <3>1. main[b] = "returned" => Size[b] = 0 \/ quit'[b]
      BY <2>1, <2>4 DEF BatchInv, Returned
    <3> QED
      BY <1>1, <2>1, <3>1 DEF BatchInv, Returned
  <2> QED
    BY <2>2, <2>3, <2>5, <2>6, <2>7 DEF BatchInv
<1> QED
  BY <1>4, <1>5, <1>6, <1>7 DEF ExtractInv

-------------------------------------------------------------------------------
(* The theorems.                                                           *)

LEMMA StepPreserves == ExtractInv /\ [Next]_vars => ExtractInv'
<1> SUFFICES ASSUME ExtractInv, [Next]_vars PROVE ExtractInv'
  OBVIOUS
<1>1. CASE UNCHANGED vars
  <2>1. TypeOK'
    BY <1>1 DEF vars, ExtractInv, TypeOK
  <2>2. Tokens'
    BY <1>1, TokensKept DEF vars, ExtractInv
  <2>3. ASSUME NEW c \in Batches PROVE BatchInv(c)'
    BY <1>1, OtherBatch DEF vars, ExtractInv, WorkUnchanged
  <2> QED
    BY <2>1, <2>2, <2>3 DEF ExtractInv
<1>2. ASSUME NEW b \in Batches, Caller(b) PROVE ExtractInv'
  BY <1>2, StartPreserves, ConsumePreserves, ReturnPreserves, ProducePreserves DEF Caller
<1>3. ASSUME NEW b \in Batches, Acquire(b) PROVE ExtractInv'
  BY <1>3, AcquirePreserves
<1>4. ASSUME NEW b \in Batches, Saver(b) PROVE ExtractInv'
  BY <1>4, StopSaverPreserves, SavePreserves, CountDonePreserves DEF Saver
<1>5. ASSUME NEW b \in Batches, NEW t \in Txs(b), Goroutine(b, t) PROVE ExtractInv'
  BY <1>5, ExtractPreserves, ReleasePreserves DEF Goroutine
<1> QED
  BY <1>1, <1>2, <1>3, <1>4, <1>5 DEF Next

\* ExtractInv holds in every state the batches' goroutines go through.
THEOREM ExtractInvariant == Spec => []ExtractInv
BY InitEstablishes, StepPreserves, PTL DEF Spec

\* The state keeps its type.
THEOREM ExtractTypes == Spec => []TypeOK
<1>1. ExtractInv => TypeOK
  BY DEF ExtractInv
<1> QED
  BY <1>1, ExtractInvariant, PTL

\* A batch that has returned has left nothing behind: no result is queued, no
\* goroutine has yet to send on a channel that is closed.
THEOREM NothingIsLeft == Spec => []NothingLeftBehind
BY InvariantNothingLeftBehind, ExtractInvariant, PTL

\* A batch returns an error exactly when it is empty or a transaction could not
\* be extracted.
THEOREM ReturnsExactly == Spec => []ReturnIsExact
BY InvariantReturnIsExact, ExtractInvariant, PTL

\* However many batches are in flight, no more transactions are extracted at a
\* time than there are tokens.
THEOREM ExtractionBounded == Spec => []TokensBounded
BY InvariantTokensBounded, ExtractInvariant, PTL

\* Each step of the goroutines is a step of the promise, or one its callers do
\* not see.
LEMMA StepKeepsPromise ==
    ASSUME ExtractInv, [Next]_vars
    PROVE  [Promise!BatchNext]_(Promise!batchVars)
<1> USE DEF Promise!batchVars
<1>1. CASE UNCHANGED <<outcome, ret>>
  BY <1>1
<1>2. ASSUME NEW b \in Batches, StartEmpty(b) PROVE Promise!BatchNext
  <2>1. ret[b] = "none" /\ Size[b] = 0 /\ ret' = [ret EXCEPT ![b] = "error"] /\ outcome' = outcome
    BY <1>2 DEF StartEmpty, ExtractInv, BatchInv, Returned
  <2>2. \A t \in Promise!Txs(b) : FALSE
    BY <2>1, SMT DEF Promise!Txs
  <2>3. Promise!BatchReturn(b)
    BY <2>1, <2>2 DEF Promise!BatchReturn
  <2> QED
    BY <2>3 DEF Promise!BatchNext
<1>3. ASSUME NEW b \in Batches, Return(b) PROVE Promise!BatchNext
  <2>1. /\ main[b] = "running" /\ quit[b] /\ outcome' = outcome
        /\ ret' = [ret EXCEPT ![b] = IF failed[b] > 0 THEN "error" ELSE "nil"]
    BY <1>3 DEF Return, BatchError
  <2>2. BatchInv(b) /\ TypeOK
    BY DEF ExtractInv
  <2>3. ret[b] = "none" /\ Size[b] # 0
    BY <2>1, <2>2 DEF BatchInv, Returned
  <2>4. \A t \in Txs(b) : at[<<b, t>>] = "saved"
    BY <2>1, <2>2, QuitMeansSaved DEF BatchInv
  <2>5. \A t \in Promise!Txs(b) : outcome[<<b, t>>] # "pending"
    BY <2>2, <2>4 DEF BatchInv, Dealt, Promise!Txs, Txs
  <2>6. failed[b] > 0 <=> Promise!SomeRecorded(b)
    BY <2>2 DEF BatchInv, Dealt, Promise!SomeRecorded, Promise!Txs, Txs
  <2>7. ret' = [ret EXCEPT ![b] = IF Size[b] = 0 \/ Promise!SomeRecorded(b) THEN "error" ELSE "nil"]
    BY <2>1, <2>3, <2>6
  <2>8. Promise!BatchReturn(b)
    BY <2>1, <2>3, <2>5, <2>7 DEF Promise!BatchReturn
  <2> QED
    BY <2>8 DEF Promise!BatchNext
<1>4. ASSUME NEW b \in Batches, NEW t \in Txs(b), SaveSuccess(b, t) \/ SaveFailure(b, t)
      PROVE  Promise!BatchNext
  <2>1. at[<<b, t>>] = "saving" /\ ret' = ret
    BY <1>4 DEF SaveSuccess, SaveFailure
  <2>2. \E o \in Promise!Outcomes : outcome' = [outcome EXCEPT ![<<b, t>>] = o]
    BY <1>4 DEF SaveSuccess, SaveFailure, Promise!Outcomes
  <2>3. ret[b] = "none" /\ outcome[<<b, t>>] = "pending"
    BY <2>1, SavingMeansRunning
  <2>4. Promise!DealWith(b, t)
    BY <2>1, <2>2, <2>3 DEF Promise!DealWith
  <2> QED
    BY <2>4 DEF Promise!BatchNext, Promise!Txs, Txs
<1>5. ASSUME NEW b \in Batches, Caller(b) PROVE Promise!BatchNext \/ UNCHANGED <<outcome, ret>>
  BY <1>2, <1>3, <1>5 DEF Caller, Start, Consume, Produce
<1>6. ASSUME NEW b \in Batches, Saver(b) PROVE Promise!BatchNext \/ UNCHANGED <<outcome, ret>>
  BY <1>4, <1>6 DEF Saver, StopSaver, CountDone
<1>7. ASSUME NEW b \in Batches, Acquire(b) \/ \E t \in Txs(b) : Goroutine(b, t)
      PROVE  UNCHANGED <<outcome, ret>>
  BY <1>7 DEF Acquire, Goroutine, Extract, Release
<1>8. CASE UNCHANGED vars
  BY <1>8 DEF vars
<1> QED
  BY <1>1, <1>5, <1>6, <1>7, <1>8 DEF Next

\* BatchExtractTransaction and its goroutines implement the promise of module
\* Batch, for any number of batches in flight.
THEOREM ImplementsPromise == Spec => KeepsPromise
<1>1. Init => Promise!BatchInit
  BY DEF Init, Promise!BatchInit, Promise!Jobs, Promise!Txs, Jobs, Txs
<1>2. ExtractInv /\ [Next]_vars => [Promise!BatchNext]_(Promise!batchVars)
  BY StepKeepsPromise
<1> QED
  BY <1>1, <1>2, ExtractInvariant, PTL DEF Spec, KeepsPromise, Promise!BatchSpec

-------------------------------------------------------------------------------
(* No goroutine waits for what can no longer come.                         *)

\* The goroutine of transaction t can go on: it has something to extract, its
\* result is received, or it can give its token back.
GoesOn(b, t) ==
    \/ at[<<b, t>>] = "extracting"
    \/ main[b] = "running" /\ at[<<b, t>>] = "sending"
    \/ <<b, t>> \in token /\ at[<<b, t>>] \in Sent

\* Some goroutine of the batch, or its caller, can take a step.
CanMove(b) ==
    \/ main[b] = "idle"
    \/ main[b] = "running" /\ (quit[b] \/ (values[b] # << >> /\ saver[b] = "ready"))
    \/ main[b] # "idle" /\ started[b] < Size[b] /\ HasToken
    \/ main[b] = "returned" /\ Size[b] > 0 /\ saver[b] = "ready"
    \/ \E t \in Txs(b) : at[<<b, t>>] \in {"saving", "counting"} \/ GoesOn(b, t)

\* The batch has returned, saveWork has ended and every token is back.
Over(b) ==
    /\ main[b] = "returned"
    /\ Size[b] = 0 \/ saver[b] = "stopped"
    /\ \A t \in Txs(b) : <<b, t>> \notin token

\* A batch that is not over can take a step, unless all that it waits for is a
\* token; then some goroutine that holds one can go on without another.
NoneIsStuck ==
    \A b \in Batches :
        \/ Over(b) \/ CanMove(b)
        \/ ~HasToken /\ \E c \in Batches : \E t \in Txs(c) : <<c, t>> \in token /\ GoesOn(c, t)

\* Nothing is sent before the caller is in its loop, every queued result is in
\* values, saveWork is busy with one result, and it ends after the caller.
Moving(b) ==
    /\ main[b] = "idle" => started[b] = 0
    /\ \A t \in Txs(b) : at[<<b, t>>] = "queued" => \E i \in 1..Len(values[b]) : values[b][i] = t
    /\ saver[b] = "busy" => \E t \in Txs(b) : at[<<b, t>>] \in {"saving", "counting"}
    /\ saver[b] = "stopped" => main[b] = "returned"
    /\ done[b] = Size[b] => Size[b] = 0 \/ quit[b]

\* A token is held only for a goroutine that was started.
TokensStarted == \A b \in Batches : \A t \in Txs(b) : <<b, t>> \in token => at[<<b, t>>] # "waiting"

MovingInv == TokensStarted /\ \A b \in Batches : Moving(b)

LEMMA InitMoving == Init => MovingInv
<1> SUFFICES ASSUME Init PROVE MovingInv
  OBVIOUS
<1>1. ASSUME NEW b \in Batches, NEW t \in Txs(b) PROVE at[<<b, t>>] = "waiting"
  BY JobPairs DEF Init
<1>2. ASSUME NEW b \in Batches PROVE Moving(b)
  BY <1>1 DEF Init, Moving
<1>3. TokensStarted
  BY DEF Init, TokensStarted
<1> QED
  BY <1>2, <1>3 DEF MovingInv

\* Another batch's step.
LEMMA OtherMoving ==
    ASSUME NEW c \in Batches, Moving(c), WorkUnchanged(c),
           main'[c] = main[c], saver'[c] = saver[c]
    PROVE  Moving(c)'
BY DEF Moving, WorkUnchanged, Txs

\* A token taken is taken for a goroutine that starts, and one that has started
\* stays so.
LEMMA StartedKept ==
    ASSUME TokensStarted,
           \A c \in Batches : \A u \in Txs(c) :
              /\ at'[<<c, u>>] = "waiting" => at[<<c, u>>] = "waiting"
              /\ <<c, u>> \in token' => <<c, u>> \in token \/ at'[<<c, u>>] # "waiting"
    PROVE  TokensStarted'
BY DEF TokensStarted, Txs

\* The steps that leave the places of the transactions alone.
LEMMA StillMoving ==
    ASSUME ExtractInv, MovingInv, NEW b \in Batches,
           StartEmpty(b) \/ Start(b) \/ Return(b) \/ StopSaver(b)
    PROVE  MovingInv'
<1>1. UNCHANGED <<started, at, token, values, done, failed, quit, outcome>>
  BY DEF StartEmpty, Start, Return, StopSaver
<1>2. TokensStarted'
  BY <1>1, StartedKept DEF MovingInv
<1>3. main \in [Batches -> {"idle", "running", "returned"}] /\ saver \in [Batches -> {"ready", "busy", "stopped"}]
  BY DEF ExtractInv, TypeOK
<1>4. ASSUME NEW c \in Batches, c # b PROVE Moving(c)'
  <2>1. main'[c] = main[c] /\ saver'[c] = saver[c]
    BY <1>3, <1>4 DEF StartEmpty, Start, Return, StopSaver
  <2> QED
    BY <1>1, <2>1, OtherMoving DEF MovingInv, WorkUnchanged
<1>5. Moving(b)'
  <2>1. Moving(b)
    BY DEF MovingInv
  <2>2. \/ main'[b] = "returned" /\ saver'[b] = saver[b]
        \/ main[b] = "idle" /\ main'[b] = "running" /\ saver'[b] = saver[b]
        \/ main[b] = "returned" /\ main'[b] = main[b] /\ saver'[b] = "stopped"
    BY <1>3 DEF StartEmpty, Start, Return, StopSaver
  <2> QED
    BY <1>1, <2>1, <2>2 DEF Moving, Txs
<1> QED
  BY <1>2, <1>4, <1>5 DEF MovingInv

LEMMA ProduceMoving ==
    ASSUME ExtractInv, MovingInv, NEW b \in Batches, NEW t \in Txs(b), Produce(b, t)
    PROVE  MovingInv'
<1>1. /\ main[b] = "running" /\ at[<<b, t>>] = "sending"
      /\ at' = [at EXCEPT ![<<b, t>>] = "queued"]
      /\ values' = [values EXCEPT ![b] = Append(values[b], t)]
      /\ UNCHANGED <<main, started, success, token, saver, done, failed, quit, outcome, ret>>
  BY DEF Produce
<1>2. Moves(b, t, "queued")
  BY <1>1, AtMoves DEF ExtractInv, Places
<1>3. TokensStarted'
  BY <1>1, <1>2, StartedKept DEF MovingInv, Moves
<1>4. ASSUME NEW c \in Batches, c # b PROVE Moving(c)'
  <2>1. values'[c] = values[c]
    BY <1>1, <1>4 DEF ExtractInv, TypeOK
  <2> QED
    BY <1>1, <1>2, <1>4, <2>1, OtherMoving DEF MovingInv, WorkUnchanged, Moves
<1>5. Moving(b)'
  <2> DEFINE s == values[b]
             v == Append(s, t)
  <2>1. /\ \A u \in Txs(b) : at'[<<b, u>>] = IF u = t THEN "queued" ELSE at[<<b, u>>]
        /\ Moving(b)
    BY <1>2 DEF Moves, MovingInv
  <2>2. values'[b] = v /\ s \in Seq(Nat) /\ t \in Nat
    BY <1>1, SizeType, SMT DEF ExtractInv, TypeOK, Txs
  <2>3. /\ Len(s) \in Nat /\ Len(v) = Len(s) + 1
        /\ \A i \in 1..Len(s) : v[i] = s[i]
        /\ v[Len(s) + 1] = t
    BY <2>2
  <2>4. Len(s) + 1 \in 1..Len(v) /\ \A i \in 1..Len(s) : i \in 1..Len(v)
    BY <2>3, SMT
  <2>5. \A u \in Txs(b) : at[<<b, u>>] = "queued" => \E i \in 1..Len(s) : s[i] = u
    BY <2>1 DEF Moving
  <2>6. ASSUME NEW u \in Txs(b), at'[<<b, u>>] = "queued"
        PROVE  \E i \in 1..Len(v) : v[i] = u
    <3>1. CASE u = t
      BY <2>3, <2>4, <3>1
    <3>2. CASE u # t
      <4>1. PICK i \in 1..Len(s) : s[i] = u
        BY <2>1, <2>5, <2>6, <3>2
      <4> QED
        BY <2>3, <2>4, <4>1
    <3> QED
      BY <3>1, <3>2
  <2>7. saver'[b] = "busy" => \E u \in Txs(b) : at'[<<b, u>>] \in {"saving", "counting"}
    <3>1. SUFFICES ASSUME saver[b] = "busy" PROVE \E u \in Txs(b) : at'[<<b, u>>] \in {"saving", "counting"}
      BY <1>1
    <3>2. PICK u \in Txs(b) : at[<<b, u>>] \in {"saving", "counting"}
      BY <2>1, <3>1 DEF Moving
    <3>3. u # t
      BY <1>1, <3>2
    <3> QED
      BY <2>1, <3>2, <3>3
  <2> HIDE DEF s, v
  <2>8. \A u \in Txs(b) : at'[<<b, u>>] = "queued" => \E i \in 1..Len(values'[b]) : values'[b][i] = u
    BY <2>2, <2>6
  <2> QED
    BY <1>1, <2>1, <2>7, <2>8 DEF Moving, Txs
<1> QED
  BY <1>3, <1>4, <1>5 DEF MovingInv

LEMMA ConsumeMoving ==
    ASSUME ExtractInv, MovingInv, NEW b \in Batches, Consume(b)
    PROVE  MovingInv'
<1> DEFINE s == values[b]
           t == Head(s)
           r == Tail(s)
<1>1. /\ main[b] = "running" /\ s # << >>
      /\ at' = [at EXCEPT ![<<b, t>>] = "saving"]
      /\ values' = [values EXCEPT ![b] = r]
      /\ saver' = [saver EXCEPT ![b] = "busy"]
      /\ UNCHANGED <<main, started, success, token, done, failed, quit, outcome, ret>>
  BY DEF Consume, Rest
<1>2. /\ s \in Seq(Nat) /\ Len(s) \in Nat /\ Len(s) >= 1 /\ Len(r) = Len(s) - 1
      /\ \A i \in 1..Len(r) : r[i] = s[i + 1]
      /\ t = s[1]
  <2>1. s \in Seq(Nat)
    BY DEF ExtractInv, TypeOK
  <2> HIDE DEF s
  <2>2. Len(r) = Len(s) - 1 /\ \A i \in 1..Len(r) : r[i] = s[i + 1]
    BY <1>1, <2>1, HeadTailProperties
  <2>3. Len(s) \in Nat /\ Len(s) >= 1
    BY <1>1, <2>1, EmptySeq, SMT
  <2> QED
    BY <2>1, <2>2, <2>3
<1>3. t \in Txs(b) /\ at[<<b, t>>] = "queued"
  <2>1. 1 \in 1..Len(s)
    BY <1>2, SMT
  <2> QED
    BY <1>2, <2>1 DEF ExtractInv, BatchInv, Queue
<1> HIDE DEF t, r
<1>4. Moves(b, t, "saving")
  BY <1>1, <1>3, AtMoves DEF ExtractInv, Places
<1>5. TokensStarted'
  BY <1>1, <1>4, StartedKept DEF MovingInv, Moves
<1>6. ASSUME NEW c \in Batches, c # b PROVE Moving(c)'
  <2>1. values'[c] = values[c] /\ saver'[c] = saver[c]
    BY <1>1, <1>6 DEF ExtractInv, TypeOK
  <2> QED
    BY <1>1, <1>4, <1>6, <2>1, OtherMoving DEF MovingInv, WorkUnchanged, Moves
<1>7. Moving(b)'
  <2>1. /\ \A u \in Txs(b) : at'[<<b, u>>] = IF u = t THEN "saving" ELSE at[<<b, u>>]
        /\ Moving(b)
    BY <1>4 DEF Moves, MovingInv
  <2>2. values'[b] = r /\ saver'[b] = "busy"
    BY <1>1 DEF ExtractInv, TypeOK
  <2>3. \A u \in Txs(b) : at[<<b, u>>] = "queued" => \E i \in 1..Len(s) : s[i] = u
    BY <2>1 DEF Moving
  <2>4. ASSUME NEW u \in Txs(b), at'[<<b, u>>] = "queued"
        PROVE  \E i \in 1..Len(r) : r[i] = u
    <3>1. u # t /\ at[<<b, u>>] = "queued"
      BY <2>1, <2>4
    <3>2. PICK i \in 1..Len(s) : s[i] = u
      BY <2>3, <3>1
    <3>3. i # 1
      BY <1>2, <3>1, <3>2
    <3>4. i - 1 \in 1..Len(r) /\ (i - 1) + 1 = i
      BY <1>2, <3>3, SMT
    <3>5. r[i - 1] = s[(i - 1) + 1]
      BY <1>2, <3>4
    <3> QED
      BY <3>2, <3>4, <3>5
  <2>5. \A u \in Txs(b) : at'[<<b, u>>] = "queued" => \E i \in 1..Len(values'[b]) : values'[b][i] = u
    BY <2>2, <2>4
  <2>6. \E u \in Txs(b) : at'[<<b, u>>] \in {"saving", "counting"}
    BY <1>3, <2>1
  <2> QED
    BY <1>1, <2>1, <2>2, <2>5, <2>6 DEF Moving, Txs
<1> QED
  BY <1>5, <1>6, <1>7 DEF MovingInv

LEMMA AcquireMoving ==
    ASSUME ExtractInv, MovingInv, NEW b \in Batches, Acquire(b)
    PROVE  MovingInv'
<1> DEFINE t == started[b] + 1
<1>1. /\ main[b] # "idle" /\ t <= Size[b]
      /\ token' = token \union {<<b, t>>}
      /\ started' = [started EXCEPT ![b] = t]
      /\ at' = [at EXCEPT ![<<b, t>>] = "extracting"]
      /\ UNCHANGED <<main, success, values, saver, done, failed, quit, outcome, ret>>
  BY DEF Acquire, NextTx
<1>2. t \in Txs(b) /\ t > started[b]
  BY <1>1, SizeType, SMT DEF ExtractInv, TypeOK, Txs
<1>3. at[<<b, t>>] = "waiting"
  BY <1>2 DEF ExtractInv, BatchInv, InOrder
<1> HIDE DEF t
<1>4. Moves(b, t, "extracting")
  BY <1>1, <1>2, AtMoves DEF ExtractInv, Places
<1>5. TokensStarted'
  BY <1>1, <1>4, StartedKept DEF MovingInv, Moves
<1>6. ASSUME NEW c \in Batches, c # b PROVE Moving(c)'
  <2>1. started'[c] = started[c]
    BY <1>1, <1>6 DEF ExtractInv, TypeOK
  <2> QED
    BY <1>1, <1>4, <1>6, <2>1, OtherMoving DEF MovingInv, WorkUnchanged, Moves
<1>7. Moving(b)'
  <2>1. /\ \A u \in Txs(b) : at'[<<b, u>>] = IF u = t THEN "extracting" ELSE at[<<b, u>>]
        /\ Moving(b)
    BY <1>4 DEF Moves, MovingInv
  <2>2. saver[b] = "busy" => \E u \in Txs(b) : at'[<<b, u>>] \in {"saving", "counting"}
    BY <1>3, <2>1 DEF Moving
  <2> QED
    BY <1>1, <2>1, <2>2 DEF Moving, Txs
<1> QED
  BY <1>5, <1>6, <1>7 DEF MovingInv

\* A goroutine has its result or gives its token back, or saveWork deals with one.
LEMMA WorkMoving ==
    ASSUME ExtractInv, MovingInv, NEW b \in Batches, NEW t \in Txs(b),
           Extract(b, t) \/ SaveSuccess(b, t) \/ SaveFailure(b, t)
    PROVE  MovingInv'
<1>1. PICK p \in {"sending", "counting"} :
         /\ at' = [at EXCEPT ![<<b, t>>] = p]
         /\ at[<<b, t>>] = IF p = "sending" THEN "extracting" ELSE "saving"
         /\ UNCHANGED <<main, started, token, values, saver, done, quit, ret>>
  BY DEF Extract, SaveSuccess, SaveFailure
<1>2. Moves(b, t, p)
  BY <1>1, AtMoves DEF ExtractInv, Places
<1>3. TokensStarted'
  BY <1>1, <1>2, StartedKept DEF MovingInv, Moves
<1>4. ASSUME NEW c \in Batches PROVE Moving(c)'
  <2>1. /\ \A u \in Txs(c) : at'[<<c, u>>] = IF c = b /\ u = t THEN p ELSE at[<<c, u>>]
        /\ Moving(c)
    BY <1>2 DEF Moves, MovingInv
  <2>2. \A u \in Txs(c) : /\ at'[<<c, u>>] = "queued" => at[<<c, u>>] = "queued"
                          /\ at[<<c, u>>] \in {"saving", "counting"} => at'[<<c, u>>] \in {"saving", "counting"}
    BY <1>1, <2>1
  <2> QED
    BY <1>1, <2>1, <2>2 DEF Moving, Txs
<1> QED
  BY <1>3, <1>4 DEF MovingInv

LEMMA ReleaseMoving ==
    ASSUME ExtractInv, MovingInv, NEW b \in Batches, NEW t \in Txs(b), Release(b, t)
    PROVE  MovingInv'
<1>1. /\ token' \subseteq token
      /\ UNCHANGED <<main, started, at, success, values, saver, done, failed, quit, outcome, ret>>
  BY DEF Release
<1>2. TokensStarted'
  BY <1>1, StartedKept DEF MovingInv
<1>3. ASSUME NEW c \in Batches PROVE Moving(c)'
  BY <1>1, OtherMoving DEF MovingInv, WorkUnchanged
<1> QED
  BY <1>2, <1>3 DEF MovingInv

LEMMA CountDoneMoving ==
    ASSUME ExtractInv, MovingInv, NEW b \in Batches, NEW t \in Txs(b), CountDone(b, t)
    PROVE  MovingInv'
<1>1. /\ at[<<b, t>>] = "counting"
      /\ at' = [at EXCEPT ![<<b, t>>] = "saved"]
      /\ done' = [done EXCEPT ![b] = done[b] + 1]
      /\ quit' = [quit EXCEPT ![b] = quit[b] \/ done[b] + 1 = Size[b]]
      /\ saver' = [saver EXCEPT ![b] = "ready"]
      /\ UNCHANGED <<main, started, success, token, values, failed, outcome, ret>>
  BY DEF CountDone, AllDone
<1>2. Moves(b, t, "saved")
  BY <1>1, AtMoves DEF ExtractInv, Places
<1>3. TokensStarted'
  BY <1>1, <1>2, StartedKept DEF MovingInv, Moves
<1>4. ASSUME NEW c \in Batches, c # b PROVE Moving(c)'
  <2>1. done'[c] = done[c] /\ quit'[c] = quit[c] /\ saver'[c] = saver[c]
    BY <1>1, <1>4 DEF ExtractInv, TypeOK
  <2> QED
    BY <1>1, <1>2, <1>4, <2>1, OtherMoving DEF MovingInv, WorkUnchanged, Moves
<1>5. Moving(b)'
  <2>1. /\ \A u \in Txs(b) : at'[<<b, u>>] = IF u = t THEN "saved" ELSE at[<<b, u>>]
        /\ Moving(b)
    BY <1>2 DEF Moves, MovingInv
  <2>2. saver'[b] = "ready" /\ done'[b] = done[b] + 1 /\ quit'[b] = (quit[b] \/ done[b] + 1 = Size[b])
    BY <1>1 DEF ExtractInv, TypeOK
  <2>3. done'[b] = Size[b] => quit'[b]
    BY <2>2
  <2>4. \A u \in Txs(b) : at'[<<b, u>>] = "queued" => at[<<b, u>>] = "queued"
    BY <2>1
  <2> QED
    BY <1>1, <2>1, <2>2, <2>3, <2>4 DEF Moving, Txs
<1> QED
  BY <1>3, <1>4, <1>5 DEF MovingInv

LEMMA StepMoving == ExtractInv /\ MovingInv /\ [Next]_vars => MovingInv'
<1> SUFFICES ASSUME ExtractInv, MovingInv, [Next]_vars PROVE MovingInv'
  OBVIOUS
<1>1. CASE UNCHANGED vars
  <2>1. TokensStarted'
    BY <1>1, StartedKept DEF vars, MovingInv
  <2>2. ASSUME NEW c \in Batches PROVE Moving(c)'
    BY <1>1, OtherMoving DEF vars, MovingInv, WorkUnchanged
  <2> QED
    BY <2>1, <2>2 DEF MovingInv
<1>2. ASSUME NEW b \in Batches, Caller(b) PROVE MovingInv'
  BY <1>2, StillMoving, ConsumeMoving, ProduceMoving DEF Caller
<1>3. ASSUME NEW b \in Batches, Acquire(b) PROVE MovingInv'
  BY <1>3, AcquireMoving
<1>4. ASSUME NEW b \in Batches, Saver(b) PROVE MovingInv'
  BY <1>4, StillMoving, WorkMoving, CountDoneMoving DEF Saver
<1>5. ASSUME NEW b \in Batches, NEW t \in Txs(b), Goroutine(b, t) PROVE MovingInv'
  BY <1>5, WorkMoving, ReleaseMoving DEF Goroutine
<1> QED
  BY <1>1, <1>2, <1>3, <1>4, <1>5 DEF Next

\* A goroutine with a token can go on: the caller is in its loop as long as there
\* is something to send.
LEMMA TokenGoesOn ==
    ASSUME ExtractInv, MovingInv, NEW b \in Batches, NEW t \in Txs(b), <<b, t>> \in token
    PROVE  GoesOn(b, t)
<1>1. at[<<b, t>>] \in Places /\ at[<<b, t>>] # "waiting"
  BY JobPairs DEF ExtractInv, TypeOK, MovingInv, TokensStarted
<1>2. CASE at[<<b, t>>] = "sending"
  <2>1. main[b] # "returned"
    BY <1>2, ReturnedMeansSaved DEF ExtractInv, BatchInv
  <2>2. main[b] # "idle"
    <3>1. ~(t > started[b])
      BY <1>1 DEF ExtractInv, BatchInv, InOrder
    <3>2. t > 0
      BY SizeType, SMT DEF Txs
    <3> QED
      BY <3>1, <3>2 DEF MovingInv, Moving
  <2> QED
    BY <1>2, <2>1, <2>2 DEF ExtractInv, TypeOK, GoesOn
<1> QED
  BY <1>1, <1>2 DEF GoesOn, Places, Sent

LEMMA MovingMeansNotStuck == ExtractInv /\ MovingInv => NoneIsStuck
<1> SUFFICES ASSUME ExtractInv, MovingInv, NEW b \in Batches, ~Over(b), ~CanMove(b)
             PROVE  ~HasToken /\ \E c \in Batches : \E t \in Txs(c) : <<c, t>> \in token /\ GoesOn(c, t)
  BY DEF NoneIsStuck
<1>1. \A t \in Txs(b) : <<b, t>> \notin token
  BY TokenGoesOn DEF CanMove
<1>2. main[b] = "running" /\ ~quit[b]
  <2>1. main[b] \in {"idle", "running", "returned"} /\ saver[b] \in {"ready", "busy", "stopped"} /\ Size[b] \in Nat
    BY SizeType DEF ExtractInv, TypeOK
  <2>2. main[b] # "returned"
    <3>1. saver[b] # "busy"
      BY DEF CanMove, MovingInv, Moving
    <3>2. Size[b] = 0 \/ Size[b] > 0
      BY <2>1, SMT
    <3> QED
      BY <1>1, <2>1, <3>1, <3>2 DEF CanMove, Over
  <2> QED
    BY <2>1, <2>2 DEF CanMove
<1>3. PICK t \in Txs(b) : at[<<b, t>>] # "saved"
  <2>1. SUFFICES ASSUME \A t \in Txs(b) : at[<<b, t>>] = "saved" PROVE FALSE
    OBVIOUS
  <2>2. In(b, {"saved"}) = Txs(b)
    BY <2>1 DEF In
  <2>3. done[b] = Size[b]
    BY <2>2, TxsFinite DEF ExtractInv, BatchInv, Counted
  <2> QED
    BY <1>2, <2>3 DEF ExtractInv, BatchInv, Returned, MovingInv, Moving
<1>4. at[<<b, t>>] = "waiting"
  <2>1. at[<<b, t>>] \in Places
    BY JobPairs DEF ExtractInv, TypeOK
  <2>2. at[<<b, t>>] \notin {"extracting", "sending"}
    BY <1>1 DEF ExtractInv, Tokens
  <2>3. at[<<b, t>>] # "queued"
    <3>1. SUFFICES ASSUME at[<<b, t>>] = "queued" PROVE FALSE
      OBVIOUS
    <3>2. values[b] # << >>
      <4>1. PICK i \in 1..Len(values[b]) : values[b][i] = t
        BY <3>1 DEF MovingInv, Moving
      <4> QED
        BY <4>1, SMT
    <3>3. saver[b] \in {"ready", "busy", "stopped"}
      BY DEF ExtractInv, TypeOK
    <3> QED
      BY <1>2, <3>2, <3>3 DEF CanMove, MovingInv, Moving
  <2> QED
    BY <1>3, <2>1, <2>2, <2>3 DEF Places, CanMove
<1>5. started[b] < Size[b]
  <2>1. t > started[b]
    BY <1>4 DEF ExtractInv, BatchInv, InOrder
  <2> QED
    BY <2>1, SizeType, SMT DEF ExtractInv, TypeOK, Txs
<1>6. ~HasToken
  BY <1>2, <1>5 DEF CanMove
<1>7. token # {}
  BY <1>6, FS_EmptySet, BatchAssumption, SMT DEF HasToken, BatchAssumption
<1>8. PICK c \in Batches : \E u \in Txs(c) : <<c, u>> \in token
  <2>1. PICK j : j \in token
    BY <1>7
  <2>2. j \in Jobs
    BY <2>1 DEF ExtractInv, TypeOK
  <2> QED
    BY <2>1, <2>2, JobPairs
<1> QED
  BY <1>6, <1>8, TokenGoesOn

LEMMA MovingInvariant == Spec => []MovingInv
BY InitMoving, StepMoving, ExtractInvariant, PTL DEF Spec

\* No batch waits for ever: one that is not over can take a step, or waits for
\* a token that a goroutine gives back without waiting for one itself.  So the
\* channels without buffers, the slice between them and the tokens shared by all
\* batches make no circle of goroutines that wait for each other.
THEOREM NeverStuck == Spec => []NoneIsStuck
BY ExtractInvariant, MovingInvariant, MovingMeansNotStuck, PTL

\* The places of a transaction, each with the next, and the caller's.
Stages == {<<"waiting", "extracting">>, <<"extracting", "sending">>, <<"sending", "queued">>,
           <<"queued", "saving">>, <<"saving", "counting">>, <<"counting", "saved">>}
Turns == {<<"idle", "running">>, <<"idle", "returned">>, <<"running", "returned">>}

\* Nothing goes back: not a transaction, not a caller, no token is taken twice for
\* a transaction, and saveWork does not work again once it has stopped.
NothingBack ==
    /\ \A j \in Jobs : at'[j] = at[j] \/ <<at[j], at'[j]>> \in Stages
    /\ \A b \in Batches : main'[b] = main[b] \/ <<main[b], main'[b]>> \in Turns
    /\ \A j \in Jobs : j \in token' /\ j \notin token => at[j] = "waiting" /\ at'[j] # "waiting"
    /\ \A b \in Batches : saver[b] = "stopped" => saver'[b] = "stopped"

\* Something goes on: there are six stages for each transaction, a token that
\* is given back, two turns of each caller and one stop of each saveWork.
SomethingOn ==
    \/ \E j \in Jobs : <<at[j], at'[j]>> \in Stages
    \/ \E b \in Batches : <<main[b], main'[b]>> \in Turns
    \/ \E j \in Jobs : j \in token /\ j \notin token'
    \/ \E b \in Batches : saver[b] # "stopped" /\ saver'[b] = "stopped"

GoesForward == NothingBack /\ SomethingOn

\* A step that moves transaction t to its next stage and is none of the caller's
\* turns goes forward.
LEMMA StageIsForward ==
    ASSUME ExtractInv, NEW b \in Batches, NEW t \in Txs(b), NEW p \in Places,
           at' = [at EXCEPT ![<<b, t>>] = p], <<at[<<b, t>>], p>> \in Stages, main' = main,
           token' = token \/ (token' = token \union {<<b, t>>} /\ at[<<b, t>>] = "waiting"),
           \A c \in Batches : saver[c] = "stopped" => saver'[c] = "stopped"
    PROVE  GoesForward
<1>1. <<b, t>> \in Jobs /\ at \in [Jobs -> Places]
  BY JobPairs DEF ExtractInv, TypeOK
<1>2. at'[<<b, t>>] = p /\ \A j \in Jobs : j # <<b, t>> => at'[j] = at[j]
  BY <1>1
<1>3. \A j \in Jobs : at'[j] = at[j] \/ <<at[j], at'[j]>> \in Stages
  BY <1>2
<1>4. ASSUME NEW j \in Jobs, j \in token', j \notin token
      PROVE  at[j] = "waiting" /\ at'[j] # "waiting"
  <2>1. j = <<b, t>> /\ at[<<b, t>>] = "waiting"
    BY <1>4
  <2>2. p # "waiting"
    BY DEF Stages
  <2> QED
    BY <1>2, <2>1, <2>2
<1>5. NothingBack
  BY <1>3, <1>4 DEF NothingBack
<1>6. SomethingOn
  BY <1>1, <1>2 DEF SomethingOn
<1> QED
  BY <1>5, <1>6 DEF GoesForward

\* saveWork takes no result once it has stopped: the caller has returned then, and
\* all results are saved.
LEMMA SavingMeansNotStopped ==
    ASSUME ExtractInv, MovingInv, NEW b \in Batches, NEW t \in Txs(b), at[<<b, t>>] # "saved"
    PROVE  saver[b] # "stopped"
<1>1. main[b] # "returned"
  BY ReturnedMeansSaved DEF ExtractInv, BatchInv
<1> QED
  BY <1>1 DEF MovingInv, Moving

LEMMA CallerForward ==
    ASSUME ExtractInv, MovingInv, NEW b \in Batches, Caller(b)
    PROVE  GoesForward
<1>1. CASE StartEmpty(b) \/ Start(b) \/ Return(b)
  <2>1. /\ UNCHANGED <<at, token, saver>>
        /\ \E m \in {"running", "returned"} : main' = [main EXCEPT ![b] = m] /\ <<main[b], m>> \in Turns
    BY <1>1 DEF StartEmpty, Start, Return, Turns
  <2>2. <<main[b], main'[b]>> \in Turns /\ \A c \in Batches : c # b => main'[c] = main[c]
    BY <2>1 DEF ExtractInv, TypeOK
  <2>3. NothingBack
    BY <2>1, <2>2 DEF NothingBack
  <2>4. SomethingOn
    BY <2>2 DEF SomethingOn
  <2> QED
    BY <2>3, <2>4 DEF GoesForward
<1>2. ASSUME NEW t \in Txs(b), Produce(b, t) PROVE GoesForward
  <2>1. /\ at' = [at EXCEPT ![<<b, t>>] = "queued"] /\ at[<<b, t>>] = "sending"
        /\ UNCHANGED <<main, token, saver>>
    BY <1>2 DEF Produce
  <2>2. <<at[<<b, t>>], "queued">> \in Stages
    BY <2>1 DEF Stages
  <2> QED
    BY <2>1, <2>2, StageIsForward DEF Places
<1>3. CASE Consume(b)
  <2> DEFINE t == Head(values[b])
  <2>1. /\ values[b] # << >> /\ saver[b] = "ready"
        /\ at' = [at EXCEPT ![<<b, t>>] = "saving"]
        /\ saver' = [saver EXCEPT ![b] = "busy"]
        /\ UNCHANGED <<main, token>>
    BY <1>3 DEF Consume
  <2>2. t \in Txs(b) /\ at[<<b, t>>] = "queued"
    <3>1. values[b] \in Seq(Nat)
      BY DEF ExtractInv, TypeOK
    <3>2. 1 \in 1..Len(values[b]) /\ t = values[b][1]
      BY <2>1, <3>1, EmptySeq, SMT
    <3> QED
      BY <3>2 DEF ExtractInv, BatchInv, Queue
  <2> HIDE DEF t
  <2>3. \A c \in Batches : saver[c] = "stopped" => saver'[c] = "stopped"
    BY <2>1 DEF ExtractInv, TypeOK
  <2>4. <<at[<<b, t>>], "saving">> \in Stages
    BY <2>2 DEF Stages
  <2> QED
    BY <2>1, <2>2, <2>3, <2>4, StageIsForward DEF Places
<1> QED
  BY <1>1, <1>2, <1>3 DEF Caller

LEMMA WorkForward ==
    ASSUME ExtractInv, MovingInv, NEW b \in Batches
    PROVE  /\ Acquire(b) => GoesForward
           /\ \A t \in Txs(b) : Goroutine(b, t) => GoesForward
           /\ Saver(b) => GoesForward
<1>1. ASSUME Acquire(b) PROVE GoesForward
  <2> DEFINE t == started[b] + 1
  <2>1. /\ t <= Size[b]
        /\ token' = token \union {<<b, t>>}
        /\ at' = [at EXCEPT ![<<b, t>>] = "extracting"]
        /\ UNCHANGED <<main, saver>>
    BY <1>1 DEF Acquire, NextTx
  <2>2. t \in Txs(b) /\ t > started[b]
    BY <2>1, SizeType, SMT DEF ExtractInv, TypeOK, Txs
  <2> HIDE DEF t
  <2>3. at[<<b, t>>] = "waiting"
    BY <2>2 DEF ExtractInv, BatchInv, InOrder
  <2>4. <<at[<<b, t>>], "extracting">> \in Stages
    BY <2>3 DEF Stages
  <2> QED
    BY <2>1, <2>2, <2>3, <2>4, StageIsForward DEF Places
<1>2. ASSUME NEW t \in Txs(b), Extract(b, t) \/ SaveSuccess(b, t) \/ SaveFailure(b, t)
      PROVE  GoesForward
  <2>1. PICK p \in {"sending", "counting"} :
           /\ at' = [at EXCEPT ![<<b, t>>] = p]
           /\ at[<<b, t>>] = IF p = "sending" THEN "extracting" ELSE "saving"
           /\ UNCHANGED <<main, token, saver>>
    BY <1>2 DEF Extract, SaveSuccess, SaveFailure
  <2>2. <<at[<<b, t>>], p>> \in Stages
    BY <2>1 DEF Stages
  <2> QED
    BY <2>1, <2>2, StageIsForward DEF Places
<1>3. ASSUME NEW t \in Txs(b), CountDone(b, t) PROVE GoesForward
  <2>1. /\ at' = [at EXCEPT ![<<b, t>>] = "saved"] /\ at[<<b, t>>] = "counting"
        /\ saver' = [saver EXCEPT ![b] = "ready"]
        /\ UNCHANGED <<main, token>>
    BY <1>3 DEF CountDone
  <2>2. saver[b] # "stopped"
    BY <2>1, SavingMeansNotStopped
  <2>3. \A c \in Batches : saver[c] = "stopped" => saver'[c] = "stopped"
    BY <2>1, <2>2 DEF ExtractInv, TypeOK
  <2>4. <<at[<<b, t>>], "saved">> \in Stages
    BY <2>1 DEF Stages
  <2> QED
    BY <2>1, <2>3, <2>4, StageIsForward DEF Places
<1>4. ASSUME NEW t \in Txs(b), Release(b, t) PROVE GoesForward
  <2>1. <<b, t>> \in token /\ token' = token \ {<<b, t>>} /\ UNCHANGED <<at, main, saver>>
    BY <1>4 DEF Release
  <2>2. NothingBack
    BY <2>1 DEF NothingBack
  <2>3. SomethingOn
    BY <2>1, JobPairs DEF SomethingOn
  <2> QED
    BY <2>2, <2>3 DEF GoesForward
<1>5. ASSUME StopSaver(b) PROVE GoesForward
  <2>1. saver[b] = "ready" /\ saver' = [saver EXCEPT ![b] = "stopped"] /\ UNCHANGED <<at, main, token>>
    BY <1>5 DEF StopSaver
  <2>2. saver'[b] = "stopped" /\ \A c \in Batches : saver[c] = "stopped" => saver'[c] = "stopped"
    BY <2>1 DEF ExtractInv, TypeOK
  <2>3. NothingBack
    BY <2>1, <2>2 DEF NothingBack
  <2>4. SomethingOn
    BY <2>1, <2>2 DEF SomethingOn
  <2> QED
    BY <2>3, <2>4 DEF GoesForward
<1> QED
  BY <1>1, <1>2, <1>3, <1>4, <1>5 DEF Goroutine, Saver

LEMMA StepForward == ExtractInv /\ MovingInv /\ [Next]_vars => [GoesForward]_vars
BY CallerForward, WorkForward DEF Next

\* Every step of the batches takes something forward that never goes back, so
\* that there is a last one; and by NeverStuck they do not stop before all of
\* them are over.
THEOREM BatchesRunOut == Spec => [][GoesForward]_vars
BY ExtractInvariant, MovingInvariant, StepForward, PTL DEF Spec

-------------------------------------------------------------------------------
(* What a goroutine extracts of its transaction: ExtractTx, with the variables *)
(* of one goroutine, and what the owners are given, of Holdings.             *)

VARIABLES pc, trx, pos, prev, extracted

One == INSTANCE ExtractTx WITH success <- extracted

\* The data of a transaction all of whose inputs are looked up.
SpentData(t) ==
    {[of |-> "input", key |-> Owner[Spent(t, i).addr], tx |-> t, n |-> i - 1,
      amount |-> Spent(t, i).amount] :
        i \in {k \in 1..Len(Ins[t]) : Owner[Spent(t, k).addr] # NoKey}}

Whole(t) == SpentData(t) \union One!OutputData(t)

Of(t) == {d \in data : d.tx = t}

-------------------------------------------------------------------------------
(* The inductive invariant: the inputs before pos are looked up, the others   *)
(* not, and data is only added when all of them are.  That it holds of the    *)
(* data alone is not inductive: Extract adds what prev says.                 *)

LookedUp(n) == \A i \in 1..Len(Ins[trx]) : i < n => prev[i] = Spent(trx, i)

OneInv ==
    /\ pc \in {"idle", "inputs", "extract", "skip"}
    /\ pc # "idle" => /\ trx \in Tx
                      /\ DOMAIN prev = 1..Len(Ins[trx])
    /\ pc = "inputs" =>
          /\ pos \in Nat
          /\ LookedUp(pos)
          /\ \A i \in 1..Len(Ins[trx]) : i >= pos => prev[i] = Unknown
    /\ pc = "extract" => \A i \in 1..Len(Ins[trx]) : prev[i] = Spent(trx, i)
    /\ \A t \in Tx : Of(t) \in {{}, Whole(t)}

LEMMA InsType ==
    ASSUME NEW t \in Tx
    PROVE  Len(Ins[t]) \in Nat
BY ExtractAssumption DEF ExtractAssumption

LEMMA OneInit == One!Init => OneInv
BY DEF One!Init, OneInv, Of

LEMMA GetKeeps ==
    ASSUME OneInv, NEW t \in Tx, One!Get(t)
    PROVE  OneInv'
<1>1. \A i \in 1..Len(Ins[t]) : ~(i < 1)
  BY InsType
<1> QED
  BY <1>1 DEF One!Get, One!Unknown, Unknown, OneInv, LookedUp, Of

\* One more input is looked up; an output that is not there leaves it unknown.
LEMMA LookUpKeeps ==
    ASSUME OneInv, One!LookUp
    PROVE  OneInv'
<1>. USE DEF One!LookUp
<1>1. /\ trx \in Tx /\ Len(Ins[trx]) \in Nat
      /\ pos \in Nat /\ pos' = pos + 1
      /\ UNCHANGED <<pc, trx, data>>
  BY InsType DEF OneInv
<1>2. pos <= Len(Ins[trx])
  BY <1>1 DEF One!InputsDone
<1>3. ASSUME NEW i \in 1..Len(Ins[trx])
      PROVE  prev'[i] = IF i = pos THEN Spent(trx, pos) ELSE prev[i]
  <2>1. i = pos => prev[i] = Unknown
    BY <1>1 DEF OneInv
  <2>2. DOMAIN prev = 1..Len(Ins[trx])
    BY DEF OneInv
  <2> QED
    BY <2>1, <2>2 DEF Spent
<1>4. DOMAIN prev' = 1..Len(Ins[trx])
  BY DEF OneInv
<1>5. LookedUp(pos)'
  BY <1>1, <1>3 DEF OneInv, LookedUp
<1>6. \A i \in 1..Len(Ins[trx]) : i >= pos' => prev'[i] = Unknown
  BY <1>1, <1>3 DEF OneInv
<1> QED
  BY <1>1, <1>4, <1>5, <1>6 DEF OneInv, Of

\* The look-ups end with every input known: a coinbase's one input spends nothing.
LEMMA LookUpEndsKeeps ==
    ASSUME OneInv, One!LookUpEnds
    PROVE  OneInv'
<1>1. /\ trx \in Tx /\ Len(Ins[trx]) \in Nat /\ pos \in Nat
      /\ pc = "inputs" /\ pc' = "extract" /\ UNCHANGED <<trx, prev, data>>
  BY InsType DEF One!LookUpEnds, OneInv
<1>2. ASSUME NEW i \in 1..Len(Ins[trx]) PROVE prev[i] = Spent(trx, i)
  <2>1. CASE i < pos
    BY <1>1, <2>1 DEF OneInv, LookedUp
  <2>2. CASE i >= pos
    <3>1. trx \in Coinbase
      BY <1>1, <2>2 DEF One!LookUpEnds, One!InputsDone
    <3> QED
      BY <1>1, <2>2, <3>1 DEF OneInv, Spent
  <2> QED
    BY <1>1, <2>1, <2>2
<1> QED
  BY <1>1, <1>2 DEF OneInv, Of

\* What is extracted is then the whole of it, and another transaction's data is
\* left alone.
LEMMA ExtractKeeps ==
    ASSUME OneInv, One!Extract
    PROVE  OneInv'
<1>1. /\ trx \in Tx /\ pc' = "idle" /\ UNCHANGED trx
      /\ data' = data \union One!InputData(trx) \union One!OutputData(trx)
      /\ \A i \in 1..Len(Ins[trx]) : prev[i] = Spent(trx, i)
  BY DEF One!Extract, OneInv
<1>2. One!InputData(trx) = SpentData(trx)
  BY <1>1 DEF One!InputData, SpentData
<1>3. \A d \in Whole(trx) : d.tx = trx
  BY DEF Whole, SpentData, One!OutputData
<1>4. data' = data \union Whole(trx)
  BY <1>1, <1>2 DEF Whole
<1>5. ASSUME NEW t \in Tx PROVE Of(t)' \in {{}, Whole(t)}
  <2>1. Of(t) \in {{}, Whole(t)}
    BY DEF OneInv
  <2>2. CASE t = trx
    BY <1>3, <1>4, <2>1, <2>2 DEF Of
  <2>3. CASE t # trx
    BY <1>3, <1>4, <2>1, <2>3 DEF Of
  <2> QED
    BY <2>2, <2>3
<1> QED
  BY <1>1, <1>5 DEF OneInv

LEMMA OneStep == OneInv /\ [One!Next]_(One!vars) => OneInv'
<1> SUFFICES ASSUME OneInv, [One!Next]_(One!vars) PROVE OneInv'
  OBVIOUS
<1>1. ASSUME NEW t \in Tx, One!GetFails(t) PROVE OneInv'
  BY <1>1 DEF One!GetFails, OneInv, Of
<1>2. ASSUME NEW t \in Tx, One!Get(t) PROVE OneInv'
  BY <1>2, GetKeeps
<1>3. CASE One!LookUpEnds
  BY <1>3, LookUpEndsKeeps
<1>4. CASE One!LookUp
  BY <1>4, LookUpKeeps
<1>5. CASE One!LookUpFails
  BY <1>5 DEF One!LookUpFails, OneInv, Of
<1>6. CASE One!Skip
  BY <1>6 DEF One!Skip, OneInv, Of
<1>7. CASE One!Extract
  BY <1>7, ExtractKeeps
<1>8. CASE UNCHANGED One!vars
  BY <1>8 DEF One!vars, OneInv, LookedUp, Of
<1> QED
  BY <1>1, <1>2, <1>3, <1>4, <1>5, <1>6, <1>7, <1>8 DEF One!Next

-------------------------------------------------------------------------------
(* The whole is what the transaction holds.                                *)

Row(r) == <<r.of, r.n, r.key, r.amount>>

LEMMA WholeIsHeld ==
    ASSUME NEW t \in Tx
    PROVE  {Row(r) : r \in Whole(t)} = Held(t)
<1>1. ASSUME NEW r \in Whole(t) PROVE Row(r) \in Held(t)
  <2>1. CASE r \in SpentData(t)
    <3>1. PICK i \in 1..Len(Ins[t]) :
              /\ Owner[Spent(t, i).addr] # NoKey
              /\ r = [of |-> "input", key |-> Owner[Spent(t, i).addr], tx |-> t, n |-> i - 1,
                      amount |-> Spent(t, i).amount]
      BY <2>1 DEF SpentData
    <3> QED
      BY <3>1 DEF Row, Held, InsAndOuts
  <2>2. CASE r \in One!OutputData(t)
    <3>1. PICK n \in 1..Len(Outs[t]) :
              /\ Owner[Outs[t][n].addr] # NoKey
              /\ r = [of |-> "output", key |-> Owner[Outs[t][n].addr], tx |-> t, n |-> n - 1,
                      amount |-> Outs[t][n].amount]
      BY <2>2 DEF One!OutputData
    <3> QED
      BY <3>1 DEF Row, Held, InsAndOuts
  <2> QED
    BY <2>1, <2>2 DEF Whole
<1>2. ASSUME NEW h \in Held(t) PROVE \E r \in Whole(t) : h = Row(r)
  <2>1. CASE \E i \in 1..Len(Ins[t]) :
                 h = <<"input", i - 1, Owner[Spent(t, i).addr], Spent(t, i).amount>>
    <3>1. PICK i \in 1..Len(Ins[t]) :
              h = <<"input", i - 1, Owner[Spent(t, i).addr], Spent(t, i).amount>>
      BY <2>1
    <3>2. Owner[Spent(t, i).addr] # NoKey
      BY <3>1 DEF Held
    <3>. DEFINE r == [of |-> "input", key |-> Owner[Spent(t, i).addr], tx |-> t, n |-> i - 1,
                      amount |-> Spent(t, i).amount]
    <3>3. r \in Whole(t)
      BY <3>2 DEF Whole, SpentData
    <3>4. h = Row(r)
      BY <3>1 DEF Row
    <3> QED
      BY <3>3, <3>4
  <2>2. CASE \E n \in 1..Len(Outs[t]) :
                 h = <<"output", n - 1, Owner[Outs[t][n].addr], Outs[t][n].amount>>
    <3>1. PICK n \in 1..Len(Outs[t]) :
              h = <<"output", n - 1, Owner[Outs[t][n].addr], Outs[t][n].amount>>
      BY <2>2
    <3>2. Owner[Outs[t][n].addr] # NoKey
      BY <3>1 DEF Held
    <3>. DEFINE r == [of |-> "output", key |-> Owner[Outs[t][n].addr], tx |-> t, n |-> n - 1,
                      amount |-> Outs[t][n].amount]
    <3>3. r \in Whole(t)
      BY <3>2 DEF Whole, One!OutputData
    <3>4. h = Row(r)
      BY <3>1 DEF Row
    <3> QED
      BY <3>3, <3>4
  <2> QED
    BY <2>1, <2>2 DEF Held, InsAndOuts
<1> QED
  BY <1>1, <1>2

\* What extractTransaction (vas/blockscaner.go) gives the owners of a transaction is
\* what it holds for them, at whichever look-up the node fails.
THEOREM ExtractsWhole == One!Spec => []WholeOrNothing
<1>1. OneInv => WholeOrNothing
  <2> SUFFICES ASSUME OneInv, NEW t \in Tx PROVE Extracted(t) \in {{}, Held(t)}
    BY DEF WholeOrNothing
  <2>1. Of(t) \in {{}, Whole(t)}
    BY DEF OneInv
  <2>2. Extracted(t) = {Row(r) : r \in Of(t)}
    BY DEF Extracted, Of, Row
  <2>3. CASE Of(t) = {}
    BY <2>2, <2>3
  <2>4. CASE Of(t) = Whole(t)
    BY <2>2, <2>4, WholeIsHeld
  <2> QED
    BY <2>1, <2>3, <2>4
<1> QED
  BY <1>1, OneInit, OneStep, PTL DEF One!Spec
===============================================================================
