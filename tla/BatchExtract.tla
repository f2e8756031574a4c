----------------------------- MODULE BatchExtract -----------------------------
(***************************************************************************)
(* BatchExtractTransaction and extractRuntime (vas/blockscaner.go): the     *)
(* goroutines of one batch and their channels, with several batches in      *)
(* flight (the scan task and ScanBlock calls) that share the scanner's      *)
(* tokens.  For each batch:                                                *)
(*   - extractWork takes a token for each transaction and starts a          *)
(*     goroutine, which extracts it, sends the result on producer and       *)
(*     gives the token back;                                               *)
(*   - extractRuntime, in the caller, moves results from producer through   *)
(*     the slice values to worker until quit is closed;                    *)
(*   - saveWork takes results from worker, notifies observers or records    *)
(*     the failure, and closes quit after the last one.                     *)
(* producer and worker have no buffer: a send and its receive are one step. *)
(***************************************************************************)
EXTENDS Integers, Sequences, FiniteSets

CONSTANTS Batches,            \* the calls of BatchExtractTransaction
          Size,               \* the number of transactions of each
          MaxExtractingSize   \* the capacity of extractingCH

ASSUME BatchAssumption ==
    /\ IsFiniteSet(Batches)
    /\ Size \in [Batches -> Nat]
    /\ MaxExtractingSize \in Nat \ {0}

VARIABLES
    main,       \* the caller: "idle", "running" in extractRuntime, "returned"
    started,    \* how many goroutines extractWork has started
    at,         \* where each transaction is
    success,    \* the Success of its ExtractResult
    token,      \* the transactions whose goroutine holds a token
    values,     \* the slice of extractRuntime
    saver,      \* saveWork: "ready" to receive, "busy", "stopped"
    done,       \* its counters ...
    failed,
    quit,       \* the channel quit is closed
    outcome,    \* what became of each transaction
    ret         \* what the batch returned

vars == <<main, started, at, success, token, values, saver, done, failed, quit,
          outcome, ret>>

\* The promise this module is shown to keep.
Promise == INSTANCE Batch WITH outcome <- outcome, ret <- ret

Txs(b) == 1..Size[b]
Jobs == UNION {{b} \X Txs(b) : b \in Batches}

Places == {"waiting", "extracting", "sending", "queued", "saving", "counting", "saved"}

\* The transactions of a batch that are in one of the places of S.
In(b, S) == {t \in Txs(b) : at[<<b, t>>] \in S}

TypeOK ==
    /\ main \in [Batches -> {"idle", "running", "returned"}]
    /\ started \in [Batches -> Nat]
    /\ at \in [Jobs -> Places]
    /\ success \in [Jobs -> BOOLEAN]
    /\ token \in SUBSET Jobs
    /\ values \in [Batches -> Seq(Nat)]
    /\ saver \in [Batches -> {"ready", "busy", "stopped"}]
    /\ done \in [Batches -> Nat]
    /\ failed \in [Batches -> Nat]
    /\ quit \in [Batches -> BOOLEAN]
    /\ outcome \in [Jobs -> {"pending", "notified", "refused", "recorded"}]
    /\ ret \in [Batches -> {"none", "nil", "error"}]

Init ==
    /\ main = [b \in Batches |-> "idle"]
    /\ started = [b \in Batches |-> 0]
    /\ at = [j \in Jobs |-> "waiting"]
    /\ success = [j \in Jobs |-> FALSE]
    /\ token = {}
    /\ values = [b \in Batches |-> << >>]
    /\ saver = [b \in Batches |-> "ready"]
    /\ done = [b \in Batches |-> 0]
    /\ failed = [b \in Batches |-> 0]
    /\ quit = [b \in Batches |-> FALSE]
    /\ outcome = [j \in Jobs |-> "pending"]
    /\ ret = [b \in Batches |-> "none"]

-------------------------------------------------------------------------------
(* The caller.                                                             *)

\* A block without transactions is refused before anything is started.
StartEmpty(b) ==
    /\ main[b] = "idle"
    /\ Size[b] = 0
    /\ main' = [main EXCEPT ![b] = "returned"]
    /\ ret' = [ret EXCEPT ![b] = "error"]
    /\ UNCHANGED <<started, at, success, token, values, saver, done, failed, quit, outcome>>

Start(b) ==
    /\ main[b] = "idle"
    /\ Size[b] > 0
    /\ main' = [main EXCEPT ![b] = "running"]
    /\ UNCHANGED <<started, at, success, token, values, saver, done, failed, quit, outcome, ret>>

\* case pa := <-producer: the result of transaction t goes to the end of values.
Produce(b, t) ==
    /\ main[b] = "running"
    /\ at[<<b, t>>] = "sending"
    /\ at' = [at EXCEPT ![<<b, t>>] = "queued"]
    /\ values' = [values EXCEPT ![b] = Append(@, t)]
    /\ UNCHANGED <<main, started, success, token, saver, done, failed, quit, outcome, ret>>

\* case activeWorker <- activeValue: saveWork receives the first of values.
Rest(s) == Tail(s)

Consume(b) ==
    /\ main[b] = "running"
    /\ values[b] # << >>
    /\ saver[b] = "ready"
    /\ at' = [at EXCEPT ![<<b, Head(values[b])>>] = "saving"]
    /\ values' = [values EXCEPT ![b] = Rest(@)]
    /\ saver' = [saver EXCEPT ![b] = "busy"]
    /\ UNCHANGED <<main, started, success, token, done, failed, quit, outcome, ret>>

\* case <-quit, and the deferred closing of worker and producer.
BatchErrorNever(b) == FALSE              \* mutant: failures are not counted
BatchError(b) == failed[b] > 0

Return(b) ==
    /\ main[b] = "running"
    /\ quit[b]
    /\ main' = [main EXCEPT ![b] = "returned"]
    /\ ret' = [ret EXCEPT ![b] = IF BatchError(b) THEN "error" ELSE "nil"]
    /\ UNCHANGED <<started, at, success, token, values, saver, done, failed, quit, outcome>>

-------------------------------------------------------------------------------
(* extractWork and the goroutines it starts.                               *)

HasTokenAlways == TRUE                   \* mutant: no limit
HasToken == Cardinality(token) < MaxExtractingSize

\* bs.extractingCH <- struct{}{} and the goroutine of the next transaction.
NextTxSame(b) == started[b]     \* mutant: counted from 0
NextTx(b) == started[b] + 1

Acquire(b) ==
    LET t == NextTx(b) IN
    /\ main[b] # "idle"
    /\ t <= Size[b]
    /\ HasToken
    /\ token' = token \union {<<b, t>>}
    /\ started' = [started EXCEPT ![b] = t]
    /\ at' = [at EXCEPT ![<<b, t>>] = "extracting"]
    /\ UNCHANGED <<main, success, values, saver, done, failed, quit, outcome, ret>>

\* ExtractTransaction, which may fail.
Extract(b, t) ==
    /\ at[<<b, t>>] = "extracting"
    /\ \E s \in BOOLEAN : success' = [success EXCEPT ![<<b, t>>] = s]
    /\ at' = [at EXCEPT ![<<b, t>>] = "sending"]
    /\ UNCHANGED <<main, started, token, values, saver, done, failed, quit, outcome, ret>>

\* <-end, once the result is sent.
SentNever == {}                          \* mutant: the token is kept
Sent == {"queued", "saving", "counting", "saved"}

Release(b, t) ==
    /\ <<b, t>> \in token
    /\ at[<<b, t>>] \in Sent
    /\ token' = token \ {<<b, t>>}
    /\ UNCHANGED <<main, started, at, success, values, saver, done, failed, quit, outcome, ret>>

-------------------------------------------------------------------------------
(* saveWork.                                                               *)

\* newExtractDataNotify always returns nil, so a refused notification leaves a
\* record and does not count as failed.
SaveSuccess(b, t) ==
    /\ at[<<b, t>>] = "saving"
    /\ success[<<b, t>>]
    /\ \E o \in {"notified", "refused"} : outcome' = [outcome EXCEPT ![<<b, t>>] = o]
    /\ at' = [at EXCEPT ![<<b, t>>] = "counting"]
    /\ UNCHANGED <<main, started, success, token, values, saver, done, failed, quit, ret>>

SaveFailure(b, t) ==
    /\ at[<<b, t>>] = "saving"
    /\ ~success[<<b, t>>]
    /\ outcome' = [outcome EXCEPT ![<<b, t>>] = "recorded"]
    /\ failed' = [failed EXCEPT ![b] = @ + 1]
    /\ at' = [at EXCEPT ![<<b, t>>] = "counting"]
    /\ UNCHANGED <<main, started, success, token, values, saver, done, quit, ret>>

\* done++, and quit is closed after the last transaction.
AllDoneEarly(b, n) == n >= Size[b] - 1   \* mutant: off by one
AllDoneNever(b, n) == n > Size[b]        \* mutant: off by one the other way
AllDone(b, n) == n = Size[b]

CountDone(b, t) ==
    /\ at[<<b, t>>] = "counting"
    /\ at' = [at EXCEPT ![<<b, t>>] = "saved"]
    /\ done' = [done EXCEPT ![b] = @ + 1]
    /\ quit' = [quit EXCEPT ![b] = @ \/ AllDone(b, done[b] + 1)]
    /\ saver' = [saver EXCEPT ![b] = "ready"]
    /\ UNCHANGED <<main, started, success, token, values, failed, outcome, ret>>

\* The range over worker ends when it is closed.
StopSaver(b) ==
    /\ main[b] = "returned"
    /\ Size[b] > 0
    /\ saver[b] = "ready"
    /\ saver' = [saver EXCEPT ![b] = "stopped"]
    /\ UNCHANGED <<main, started, at, success, token, values, done, failed, quit, outcome, ret>>

-------------------------------------------------------------------------------
Caller(b) == StartEmpty(b) \/ Start(b) \/ Consume(b) \/ Return(b) \/ \E t \in Txs(b) : Produce(b, t)
Goroutine(b, t) == Extract(b, t) \/ Release(b, t)
Saver(b) == StopSaver(b) \/ \E t \in Txs(b) : SaveSuccess(b, t) \/ SaveFailure(b, t) \/ CountDone(b, t)

Next ==
    \E b \in Batches :
        \/ Caller(b) \/ Acquire(b) \/ Saver(b)
        \/ \E t \in Txs(b) : Goroutine(b, t)

\* Every goroutine that can take a step takes one, in the end.
Fairness ==
    \A b \in Batches :
        /\ WF_vars(Caller(b)) /\ WF_vars(Acquire(b)) /\ WF_vars(Saver(b))
        /\ \A t \in Txs(b) : WF_vars(Goroutine(b, t))

Spec == Init /\ [][Next]_vars
FairSpec == Spec /\ Fairness

-------------------------------------------------------------------------------
(* Properties.                                                             *)

\* When a batch has returned, and its channels are closed, each of its
\* goroutines has sent its result and saveWork has dealt with every one: no
\* send on a closed channel, no result left behind.
NothingLeftBehind ==
    \A b \in Batches :
        main[b] = "returned" =>
            /\ \A t \in Txs(b) : at[<<b, t>>] = "saved"
            /\ values[b] = << >>

\* The value a batch returns says whether a transaction could not be extracted,
\* and by then each one has been dealt with.
ReturnIsExact ==
    \A b \in Batches :
        ret[b] # "none" =>
            /\ \A t \in Txs(b) : outcome[<<b, t>>] # "pending"
            /\ (ret[b] = "error") <=> (Size[b] = 0 \/ Promise!SomeRecorded(b))

\* No more than MaxExtractingSize transactions are extracted at a time, however
\* many batches are in flight.
TokensBounded ==
    Cardinality({j \in Jobs : at[j] \in {"extracting", "sending"}}) <= MaxExtractingSize

\* The goroutines of a batch implement the promise made to its callers.
KeepsPromise == Promise!BatchSpec

\* Every batch returns, no matter how the batches compete for the tokens, its
\* saveWork goroutine ends, and every token comes back.
EveryBatchEnds ==
    \A b \in Batches : <>[](main[b] = "returned" /\ (Size[b] = 0 \/ saver[b] = "stopped"))
TokensComeBack == <>[](token = {})
===============================================================================
