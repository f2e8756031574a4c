# vas-adapter: verification development

TLA+ models of vas-adapter, the openwallet adapter for the VAS chain (`src/vas`,
`src/vasTransaction`), the TLC runs that check them, and TLAPS proofs of what matters
most. Line numbers below are those of the repository's files.

## The system

| component | state | operations | talks to |
|---|---|---|---|
| block scanner (`vas/blockscaner.go`, `blockscanner_db.go`) | in the wallet's `BlockchainDAI`: scanned head, local blocks by height, unscanned records; in memory: `Scanning`, the task's height, hash and block | `ScanBlockTask` (timer), `RescanFailedRecord`, `ScanBlock`, `SetRescanBlockHeight`, `ScanTxMemPool`, `Run`, `Stop` | node (RPC), DAI, observers |
| batch extraction (`BatchExtractTransaction`, `extractRuntime`) | per batch: channels `producer`, `worker`, `quit`, the slice `values`, `done`, `failed`; shared: the tokens of `extractingCH` | `saveWork`, `extractWork`, one goroutine per transaction, the caller's select loop | extraction, observers, DAI |
| transaction extraction (`ExtractTransaction`) | one `ExtractResult` | look-up of inputs, extraction of inputs and outputs | node, `ScanAddressFunc` |
| transfer creation (`CreateBTCRawTransaction`, `EstimateFee`) | locals of the selection loop | select, refuse, build | node (`listunspent`), wallet |
| summary (`CreateVASSummaryRawTransaction`) | locals of the address loop | gather, build, deliver | node, wallet |
| raw transaction (`vas/tx_decode.go`, `vasTransaction/transaction.go`) | `RawHex`, `Signatures`, `IsBuilt`, `IsCompleted`, `IsSubmit` | create, sign, verify, submit | node (`gettxout`, `sendrawtransaction`), key store |
| signature scripts (`SignaturePubkey.go`) | a signature, a script | `serilizeS`, write DER, read DER | - |
| unspent outputs (`ListUnspent`, `getBalanceCalUnspent`, `keepOmniCostUTXONotToUse`) | the page, the list so far | ask for a page, collect, sum, keep back | node (`listunspent`) |
| transaction library (`vasTransaction/txStruct.go`, `txHash.go`, `txMultiSig.go`, `transaction.go`) | the bytes of a transaction, its hashes and their signature slots | create empty, hash, insert signatures, verify | its callers |
| contract coin's transaction (`SignOmniRawTransaction`, `VerifyOmniRawTransaction`) | signatures by account | sign, collect from the map, put in the order of the inputs, insert | node (`gettxout`), key store, the library omniTransaction |
| address codec, configuration, RPC client | - | conversions | - |

What is hard here, and what the properties are about:

- the scanner's durable state is written in separate steps (head, block, records) between
  which the process may crash, another goroutine may call, the node may reorganise or not
  answer; a block must not be passed over, and forks must be announced in order;
- a batch ends while its goroutines, saver and channels are still alive, and batches share
  tokens;
- an extraction fails half way through a transaction;
- fee and number of inputs depend on each other, around a limit of inputs;
- a raw transaction is worked on by calls that may fail half way and be repeated, against
  outputs nobody reserves and a node whose answer may be lost;
- signatures are rewritten byte by byte, with special cases for leading zeros and high bytes;
- the pages of a list of outputs are read at different moments;
- all inputs are hashed on one array, each by the rules of its kind, with counts and lengths of
  one byte; what is signed must be what the node checks;
- signatures come back in slots that may be filled partly or wrongly, or out of a map in no order.

## Modules

Each component has a module with its state, one action per step of the code, and its
properties; an `MC` module gives its constants values; a `Proofs` module holds its theorems.

| module | models | state and actions |
|---|---|---|
| `VasChain` | the node's chain as RPC shows it (external) | a block is the sequence of branch labels from the genesis block, its own hash |
| `Follower` | what the scanner promises of its saved head | a frontier on the node's chain, the blocks answered for and those that left a transaction out, the height above which each is one or the other |
| `BlockScanner` | scan task, retry pass, calls, crashes | `head`, `local`, `unscan` are the DAI; `pc`, `cur`, `blk`, `forkBlk`, `todo` the task's locals; `api` the locals of a call. An action for each step between two calls to the node, DAI or observers |
| `Batch` | what a batch promises its callers | outcome of each transaction, return value |
| `BatchExtract` | the goroutines that keep the promise | `at` says in which goroutine or channel each result is; `token`, `values`, `saver`, `done`, `failed`, `quit` are the code's |
| `Holdings` | what the owners of addresses are to be given of their transactions | `data`, the records (ids and block hashes left out) |
| `ExtractTx` | extraction of one transaction after another | `prev` is what the inputs' `Addr` and `Value` are filled with |
| `VasFees` | `EstimateFee` | operators |
| `CoinSelection` | `CreateBTCRawTransaction` | an action per pass of the loop |
| `Summary` | `CreateVASSummaryRawTransaction` | an action per address |
| `RawTx` | create, sign, verify, submit of several transfers | the fields of `RawTransaction`, the node's spent outputs |
| `Unspents` | `ListUnspent` beside a node whose outputs change, and what is made of the list | `i`, `utxo` are the loop's; an action for each page; balances and kept outputs are operators |
| `TxCodec` | writing, reading and hashing a transaction | operators on sequences of items: counts, inputs, outputs, witnesses |
| `Signing` | from the empty transaction to the verified one | `raw`, `messages`, `slots`, `hex` are what the library's functions give and take; `transHash`, `next` the loop over the inputs of a contract coin's transaction |
| `DerSig` | a signature from the curve library to the script and back | `raw`, `sig`, `script`, `read` |

`BlockScanner` and `Follower` extend the node's view `VasChain`; `CoinSelection` and `Summary`
extend `VasFees`; `Signing` extends `TxCodec`; `ExtractTx` extends `Holdings`. Two components have an abstract specification
that they are shown to implement: `BatchExtract` instantiates `Batch`, and `BlockScanner`
instantiates `Follower` with its saved head for the frontier, the head's `base`, the
blocks delivered or put on record for those answered for, and its `skipped`.

How the models meet: `BlockScanner` takes `BatchExtractTransaction` as one step with four
outcomes: everything taken; an observer refused, which leaves a record but no error; an input not
looked up, which leaves neither record nor error although its transaction is not delivered
(`blockscaner.go:525,583`: `ExtractTx` has the steps); a transaction not had from the node. That is
`Batch`'s promise seen from the task (a success of `Batch` includes one without data), and the task does nothing between the start of a batch
and its return, so the steps of its goroutines commute with those of others: they touch only
`unscan` and what observers received, and add to both. Fetching a block and starting its
batch are one step for the same reason. `RawTx` takes the outputs a transfer
uses from any choice (`CoinSelection` is about which) and marks the signatures that `DerSig`
shows are not written or read as they should be. It takes the empty transaction and the
hashes for those asked for, which `Signing` is about: there, every kind of input is written, read
and hashed, and a signature is its key and the message it is made of. `CoinSelection` and
`Summary` take any outputs that `Unspents` may list.

Abstractions worth knowing:

- The DAI's writes succeed: the code ignores their errors (`blockscaner.go:171,186,187`).
- Observers are told of blocks when `NewBlockNotify` is called. The queue behind it belongs
  to the openwallet library.
- `base` in a head, and `delivered`, `announced`, `adopted`, `skipped`, `owed`, `lost`, `dropped`, `rescan`
  in `BlockScanner`, `sent`, `stale`, `unheard` in `RawTx`, are not in the code; no guard
  reads them. They record what happened.
- A head has a `base`, the height above which the scan answers for every block: where the
  scan began, where a rescan put it, or the height of a rollback when that is lower.
- The node gives no address with an input (`newTxVinByCore`, `models.go:327`), so the look-up
  at `blockscaner.go:520` always happens. The type `"OP_RETURN"` (`:674`) is none the node uses
  (it says `nulldata`), so the test never holds; such an output has no address.
- Every output is spendable: `models.go:111` sets `Spendable` to true.
- A raw transaction is a fresh one when `CreateRawTransaction` is called: it sets neither
  `IsCompleted` nor `IsSubmit` back. Its outputs are pay-to-pubkey-hash: `tx_decode.go:443,908`
  pass no amount and no redeem script, without which no other input can be signed.
- `TxCodec` keeps of the bytes what the code decides on. A count or a length is one byte where the
  code writes one, and one item or two in the node's format; the fixed-length fields belong to
  the item of their input or output, and outputs are told apart by their place. A redeem script's size grows by
  `KeySize` with each key.
- In `Signing`, the signatures of a contract coin's transaction are inserted by
  `vasTransaction`'s functions: the library omniTransaction is not in the repository. The caller that
  fills the slots of `TxHash.Multi` may put any signature in any slot.
- In `Unspents`, the node refuses a request that names an address twice.
- In `DerSig` the values of a byte, the bytes of a component, and the order of the curve and its half, in
  bytes as in `txProfile.go:52`, are constants. The run has bytes of three values, of which one is high, components
  of eight bytes and an order of 6557: the code's cases depend on zero, high and other bytes and on lengths from one
  to `W + 1`.

## Runs

Bounds are the constants of each `.cfg`; the disturbances of `BlockScanner` have a budget per
kind (`reorg`, `rpc`, `input`, `notify`, `crash`, `call`, `stop`).

| run | question | bounds |
|---|---|---|
| `scanner_reorg` | is a block passed over, are two blocks of a height announced, is the head a follower of the chain? | two forks, two unanswered calls, one failed look-up of an input, one refused notification, one stop; five blocks, the first fixed |
| `scanner_calls` | what survives a crash between the saves and a call in the middle of a task, and what does a fork of the first block do? | one fork, one unanswered call, one crash, one call; four blocks, none fixed |
| `scanner_live` | does the scanner catch up and work off its records? | one of each disturbance but calls; four blocks, the first fixed |
| `batch` | the goroutines, the promise they keep, do all batches end? | batches of two, one and no transactions, two tokens |
| `extract` | is a transaction extracted whole? | three transactions, two owners, all failures |
| `selection` | the selection loop | every wallet of up to four outputs of four amounts, rates at which an input costs more than it brings |
| `summary_one` | the summary loop | every account of up to three addresses, limit of three inputs |
| `raw_tx` | transfers that compete and fail | two transfers, two outputs, up to two inputs, one fault |
| `unspents` | pages, balances and kept outputs beside a changing node | lists of up to four addresses in pages of two, four outputs in any state at the call, one change of any of them during it |
| `signing` | hashes, signatures and verification | two inputs of every kind beside each other, one to three of two accounts, six to nine outputs where a byte has eight values and the format's mark is seven |
| `der_ordinary` | scripts of signatures, and which signatures are refused | a third of all values of a component beside six of the other, on both sides of half the order |

A fork needs one block below it, two replaced and one above for each path of the rollback
(local block, node's block, floor) to be taken, which four blocks allow; a fork undone by
another takes a fifth. In `scanner_calls` no block is fixed, so that four blocks are enough for a
rollback to land on a block of an abandoned chain and for the scan to go on past it: `Recorded`
is violated there, which shows that the exemption of `Covered` is reached. A failed look-up of an input beside a crash and a call
makes the run too long; `CoversEverything` proves `Covered` for every budget, that one included.

One run finds a violation of what a comment of the code says; `PROJECT.json` quotes the line:
`scanner_notify`, where a refused notification's record is deleted by the retry
(`blockscaner.go:750`).

Other disagreements met while modelling, which the models follow and no run is about:

- a transaction with an input that could not be looked up is not extracted and is a success all the same
  (`blockscaner.go:583`), so that its block is not recorded to be scanned again (`:503`): the blocks in
  `skipped`, which `Recorded`, `Covered` and `FollowsChain` take into account;
- a rescan asked for while the task is in its loop is overwritten by the task's next head
  (`:186`); `RescanHonoured` is about one asked for between two tasks;
- the loop that takes leading zeros off a component of a signature moves its counter on while the
  slice gets shorter (`SignaturePubkey.go:59`): with two zeros in front, a component keeps one or
  loses a byte that is none, and the signature does not verify. `OrdinarySurvives` is about the others;
- a witness multisignature is said to have four pieces whatever number of signatures it carries
  (`txIn.go:118`): only one of two signatures is accepted by the node, so `VerifiedIsAccepted` is
  about those, while the library verifies the others too;
- numbers of outputs from 253 to 255, and redeem scripts of eight keys or more, are written with one
  length byte (`txStruct.go:60,69`, `txHash.go:169,329`); what is signed is not what the node hashes.
  From 256 outputs on the transaction is refused when it is read back. `ShortEnough` leaves the former out;
- `VerifyRawTransaction` takes the key of a single signature from the input's script and does not compare
  it with the lock (`transaction.go:214`), and its loop over a multisignature starts from as many keys as
  were found (`:221`), so that repeated signatures, or ones in another order than the keys, pass.
  `VerifiedIsAccepted` is about signatures in the slots of their own keys;
- `CreateMultiSig` takes keys of 65 bytes, which `getMultiDetails` refuses (`txMultiSig.go:36`, `:80`), and
  encodes a script's address with the prefix of a key's (`:59`);
- for an input spent meanwhile, `resetTransHashFunc` drops a hash or panics (`tx_decode.go:1340`), where a
  verification should be refused;
- `createOmniRawTransaction` appends to the signatures that are already there (`tx_decode.go:1187`), so
  that a second call leaves those of the first before its own;
- a rescan from height 1 is accepted and saves height 0, which is no head: the scan then
  starts near the tip (`blockscaner.go:888`, `:98`);
- an input's id is made of the transaction it spends and of its own index (`:629`), while the
  line kept beside it as a comment has its own transaction (`:630`), so that two inputs may get one id;
- the retry pass sends an empty block hash (`:301`, `:312`) that takes the place of the node's (`:482`);
- a transfer that needs more inputs than `MaxTxInputs` is refused, where the comment says
  that it is split (`tx_decode.go:262`);
- a summary leaves out an address whose outputs do not fit, and builds one transaction at
  most, where the comments speak of filling up to the maximum (`tx_decode.go:766`, `:776`);
- the padding of a short complement of a high s ends too early (`SignaturePubkey.go:25`), and
  `txHash.go:284` refuses the signature. `ShortWhenRefused` says when, and is checked and proved: that of a high s whose
  complement lacks two bytes or more, and no other;
- `vasTransaction/README.md:52` shows a transaction of version 2 where the code writes 1.

### What holds of passed-over blocks, and when

Three properties of `BlockScanner` say what blocks the saved head may claim without their data
having been delivered or recorded:

- `Recorded`: only those of which a transaction was left out because an input of it could not be
  looked up (`skipped`), and those whose record was deleted, by the retry pass after a batch that
  returned no error or by a fork that was itself undone. Holds with any number of forks, failures
  and stops (`scanner_reorg`; proved when the budget has no crashes and no calls). When every
  input can be looked up, no block is among the former: that is the theorem `NothingLeftOut`.
- `Covered`: those, and those below a block that a rollback landed on beside the chain it went
  back along. That takes a crash between `blockscaner.go:186` and `:187`, or a call in the middle
  of a task: the rollback then finds no local block, or one of an earlier chain, and goes on
  from it as if all below had been scanned. (`scanner_calls`; proved for every budget.)
- `NothingLost` does not hold, see `scanner_notify`.

### Fairness

- Scanner: the timer goes on calling the task and the task's goroutine runs, as does the rest of a call once
  made (`WF` of `Task` and of the call's second half). The node need not mine, and nothing makes it
  fail or reorganise; disturbances are finite because budgets are. `CatchUp` and
  `RecordsDrain` ask that the scanner is not stopped for ever. They are checked without rescans: the task
  compares heights only (`:123`), so that a head a rescan put beside the tip need not be
  compared with it again until the chain grows. With a fork of the first block the scanner never catches up: that is
  `FloorTrap`, so the live run has forks above it only. `FloorTrap` speaks of a task with nothing else in
  hand (`Trapped`): a rescan or a rollback that has already begun may still save a head from higher up.
- Batches: each goroutine that can take a step takes one in the end; the Go scheduler does that.
- Raw transactions: a call that was made ends, and a transfer not yet built is built in the end
  (`WF`). The wallet, which is not in the repository, repeats sign, verify and submit after an
  error; such a call may find itself disabled by a fault in between, and faults are finite, so that
  one repeated for ever succeeds (`SF`).

## Proofs

All are for arbitrary constants under the named assumptions of the modules
(`ChainAssumption`, `NoHashAssumption`, `ScannerAssumption`, `BatchAssumption`,
`FeesAssumption`, `SelectionAssumption`, `RawTxAssumption`, `UnspentsAssumption`, `CodecAssumption`,
`SigningAssumption`, `ExtractAssumption`, `DerAssumption`), which TLC evaluates in the runs.

- `BlockScannerProofs`: the invariant `ScanInv` says of each variable what the steps rely on:
  the types, `HeadIsABlock`, that `cur` is a block and its height wherever it may be saved
  (`CurInv`), that local blocks are kept at their own heights (`LocalInv`), and what a call holds
  (`ApiInv`). `HeadIsABlock` alone is not inductive: a rollback saves what it read from `local`, and
  a rescan what it read from the node earlier. Theorems `ScannerTypes`, `HeadIsAlwaysABlock`, and,
  with a further invariant on where the task is when a rescan is pending, `RescanIsHonoured`.
  `FloorIsATrap` is an action property: `Trapped` says where the task may stand, each step of it keeps
  `Trapped`, and a rescan or the node's return is all that ends it.
- `BlockScannerProofs`, what is passed over: `ClaimInv` says of every block the head or the task claims that it was
  delivered, left a transaction out, is on record, was deleted from the records, or lies below an adopted block; it needs
  the chain lemmas on prefixes and the order in which the record, head and block are written.
  Theorems `CoversEverything` and, with the stronger `QuietInv` (the local blocks are the head's
  ancestors), `RecordsEverything`; `NothingLeftOut` is the latter for a budget without failed look-ups of inputs, in
  which `skipped` stays empty (`WholeInv`). `OneBlockAnnounced` adds `AnnInv` to it: each block announced is
  the local one of its height and not above the head, but for the one a rollback has just replaced.
- `BlockScannerProofs`, the refinement: `ScannerFollows`, of `Follower`, when the budget has no
  crashes and no calls. `FrontInv` says how the task's block and the saved head lie: equal in the
  loop, the one the child of the other before the head is saved, and in a rollback either an ancestor
  or below all that is answered for. Each save of the head maps to `Begin`, `Follow`, `FallBack` or `StartOver`,
  each batch to `Answer`, `Skip` or a stutter, what the node does to `NodeMoves`, and all else to a stutter. `FollowerHasTaken`
  says what a follower is good for: every block between base and frontier was delivered, put on record, or left a
  transaction out.
- `BatchExtractProofs`: `ExtractInvariant` counts: `done` is the number of transactions saved,
  `failed` is positive exactly if one was recorded, `values` holds each queued transaction once, a
  token belongs to each goroutine not yet through. Theorems for the four invariants and
  `ImplementsPromise`, the refinement: each step maps to `DealWith`, `BatchReturn` or a stutter.
- `BatchExtractProofs`, that batches end: liveness itself is TLC's (`EveryBatchEnds`), but all of it except the fairness is
  proved. `NeverStuck`: each batch is over, can take a step (`CanMove` states the guards of its actions; TLC finds it equal to
  their `ENABLED` on the constants of the run), or waits for a token, which a goroutine holds that can go on without waiting for another.
  Its invariant `MovingInv` says what a waiting goroutine waits for: queued results are in `values`, a busy `saveWork` has one
  result, `quit` is closed when all are counted, a sender's caller is in its loop. `BatchesRunOut`: each step takes a transaction,
  a token, the caller or `saveWork` forward and nothing back, so that only finitely many steps are taken. No run lists the
  two; they were checked by TLC before they were proved.
- `BatchExtractProofs` also holds `ExtractsWhole`, of an instance of `ExtractTx`, the extraction that its goroutines make:
  `OneInv` says what the records of the inputs and outputs looked up so far are.
- `CoinSelectionProofs`: `SelectionInvariant` says that no smaller number of inputs than the
  current pass's pays, which rests on the monotonicity of the fee in the inputs.
- `SummaryProofs`: `SummaryInv` says that the pool holds exactly the outputs of the addresses that fitted, that they are
  fewer than the limit and worth the total, and that nothing is built before the last address. Theorems
  `BuildsAtMostOne` (so the loop's test for a full pool never holds), `SummaryMovesAll`, `LeavesBehindOnlyFor`.
- `RawTxProofs`: `RawInvariant` says that a completed `RawHex` holds good signatures for its own
  inputs, which needs the lengths of signatures and locks at each step of a verification, and that
  an output spent stays spent. `SentSigned`, that what is submitted is signed (`SentIsSigned`), is proved and in no run:
  it follows from `CompletedIsSigned` and the guard of `Submit`.
- `UnspentsProofs`: `EachAskedOnce`: `PageInv` says that the pages before `i` are the places asked
  for; the rest is arithmetic of `\div`. `OneMoment`: `BalanceInv` says that what the list holds of an address asked for is
  the node's of one of the moments so far, for which the loop's sum over the list is shown to be the sum
  over the set of its outputs, in whatever order they are listed. `OneKeptBack`: by induction over the list, of each
  address the outputs kept are the first cheap one.
- `SigningProofs`: `HashesInPlace`. That the hashes before `next` are in place is not inductive: where
  two inputs have one address, the first match might be the later one's. `InOrder` adds that the hashes of one
  address stay in the order of the inputs, which the accounts' lists have and moving a match to the front keeps.
  `EmptyReadBack` and `HashesAreTheNodes` are about the bytes: `EncodedAre` says at which place of the written
  transaction each item stands, `DecodedIs` what is read from such bytes, with the number of outputs taken modulo the byte;
  `RoundsAre`, by induction over the rounds of `getHashesForSig`, that each round leaves one script in the array, its own.
- `SigningProofs`, the verdict: `VerifiedAccepted` and `SignedIsVerified`. Neither property is inductive: both speak of `hex` and of
  `slots`, which one action makes of the other. `VerdictInv` says that a transaction inserted is what is made of the slots as
  they are, that a verdict is what a verification of it would say, and that accounts' slots hold what was signed of
  their own inputs (from `InOrder`, once `next` has passed the last). `SignedIsBack` reads that transaction: each kind of input
  gives back the signatures of its slots, or nothing is read because a redeem script in a witness is too long for its
  length byte. `MessagesAgain`: hashing it anew gives the messages that were given out (`HashInv`), for a round
  leaves nothing of what the inputs carried. `FilledAreTaken` and `FirstSigsAre` say which slots the inserted signatures
  come from, `FoundAllSigned` and `FoundInOrder` what the count of a multisignature's loop means.
- `DerSigProofs`: none of the three properties is inductive, since `sig` says nothing of how it was made. `DerInv` says what `raw`,
  `sig`, `script` and `read` are at each `pc`; its parts are facts about bytes. `ValuesAre` and `Smaller` compare numbers
  by their bytes. `ShortIs` follows `big.Int.Bytes`: the quotients that are left after each division are the numbers of
  the bytes before the last ones (`LeftIs`), they run out within `W` divisions (`LeftRunsOut`), and the bytes have the
  number they were made of; `Padded` says that zeros in front keep it, so that `SignedLow` holds however many bytes the complement
  has. `SerializedLength` gives `RefusedWhenShort` (the property `ShortWhenRefused`). `OrdinaryReadBack` needs that of the loop which drops zeros only the first
  pass can change an ordinary component (`PassesIs`), so that what is put in the script is the component with at
  most one zero put before it or taken off (`ComponentIs`); `ScriptAt` says at which place of the script each byte
  stands, `ReadBack` that the checks pass and that the bytes taken from there are the component again.

The library's induction theorems take a predicate as a parameter, which the provers do not
instantiate. The proofs over lists and rounds use a set in its place: `NatSetInduction`, from the
well-foundedness of the naturals, and `Recursive`, which gives a recursive function its defining equation.
Each module that needs them has them, so that it can be read alone. `UnspentsAssumption` asks for a finite set of
outputs, without which a balance is not a sum.

With TLC only: liveness under fairness, which is out of the prover's reach, as is ENABLED: `CatchUp`,
`RecordsDrain`, `EveryBatchEnds`, `TokensComeBack`, `Settles`. For the batches `NeverStuck` and `BatchesRunOut` prove what
fairness has to be added to. Every other property of the runs that hold is stated by a theorem.

## Plan

Done: the scanner, its batches and its abstract follower; transfers, summaries and the raw
transaction; signature scripts; unspent outputs; the transaction library; the signatures of contract coins; proofs
of all invariants, action properties and refinements.

Left: the components below that have no model.

## Not modelled

- Address codecs (`address_decode.go`, `base58.go`, `bech32.go`): conversions of strings with
  checksums; they keep no state and TLC cannot enumerate what they tell apart.
- Configuration, set-up, logging, HTTP and JSON: no behaviour of their own after the start.
- `CreateOmniRawTransaction` and its summaries: not reached, since `CreateRawTransaction`
  takes the same path for every coin; the library they call is not in the repository.
- The storm functions of `WalletManager`, which the scan task does not use, and
  `ScanTxMemPool`, which is one batch and which nothing calls.
- The openwallet library: the DAI and the observers are what `BlockScanner` assumes of them.
