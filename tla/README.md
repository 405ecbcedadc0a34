# Soribium in TLA+

Soribium is a payments validium on Stellar. A Soroban contract holds the
tokens, a FIFO queue of deposits and the root of an account tree; a sequencer
keeps the tree, admits transactions, and builds, proves and submits batches
that advance the root. This directory holds TLA+ specifications of it, the TLC
configurations that model-check them on small instances, and proofs that TLAPS
checks for every value of the constants.

Paths below are relative to the repository, lines are those of the modelled
commit. `PROJECT.json` maps every definition to the lines it models.

- [Inventory](#inventory)
- [Modules](#modules)
- [The batch pipeline](#the-batch-pipeline)
- [Admission and build](#admission-and-build)
- [Custody and the circuit](#custody-and-the-circuit)
- [Clients](#clients)
- [Runs](#runs)
- [Proofs](#proofs)
- [Where code and documentation disagree](#where-code-and-documentation-disagree)
- [Not modelled, and what is left](#not-modelled-and-what-is-left)

## Inventory

### The parts and how they interact

| Part | Source | State it keeps | Operations |
|---|---|---|---|
| Engine | `sequencer/src/engine.rs` | the live `Tree`, owned by one thread; everything else is in SQLite | one command at a time from a channel: `submit_tx`, `observed_deposits`, `try_build`, `record_proof`, `fail_batch`, `mark_submitting`, `mark_submitted`, `confirm`, `resume`, reads |
| Database | `sequencer/src/db.rs` | tables `batches`, `deposits`, `mempool`, `leaves`, `history`, `meta` (`dep_cursor`, `confirmed_batch_num`) | each statement commits on its own; `fail_batch` and the second half of `confirm` are transactions |
| Batcher | `sequencer/src/batcher.rs` | none beyond the batch it works on | on boot resume the batch in flight; then each tick: build, prove, submit, poll until confirmed |
| Watcher | `sequencer/src/watcher.rs` | an in-memory cursor | each tick: read `dep_tail`, read the deposits from the cursor on one at a time, report them to the engine |
| Boot | `sequencer/src/main.rs`, `engine.rs` | none | read root and batch number from the contract, `load_and_reconcile`, start the tasks |
| Stellar client | `sequencer/src/stellar.rs` | none | contract reads by simulation; `submit_batch` through the `stellar` CLI |
| API and rate limiter | `sequencer/src/api.rs` | counters per client | turn requests into engine commands; refuse a client above its rate |
| Configuration, hex | `config.rs`, `hexutil.rs` | none | environment variables; parsing of 32-byte values |
| Rollup contract | `contracts/rollup/src/*.rs` | `root`, `batch_num`, `dep_head`, `dep_tail`, the queued deposits; the token balance of the contract | `deposit`, `submit_batch`, getters |
| Account tree, batch builder | `harness/src/tree.rs`, `batch.rs` | an append-only map of at most 256 accounts, each with balance and nonce | `build_batch`: apply deposits and transactions on a clone, produce the witness, the fold hashes, the blob |
| Prover | `harness/src/prover.rs` | a work directory | witness, proof and verification by external tools |
| Keys, Poseidon2 | `harness/src/keys.rs`, `poseidon.rs` | none | signatures and hashes, the contract's own hash functions |
| Circuit | `circuits/lib/src/*.nr` | none | the relation a proof attests: deposits, then transactions, from old to new root |
| Wallet | `wallet/src/` | keys, a local list of pending deposits | choose the nonce, sign, post; show balances; infer when a deposit was credited |

Users call the contract's `deposit` and the sequencer's API. The watcher
carries deposits from the contract's queue to the engine; the batcher asks the
engine for a batch, proves it, sends it to the contract and tells the engine
what became of it. Engine, batcher and watcher share only the command channel
and each command's answer; sequencer and contract share nothing but the
calls, which may fail, be delayed or, for a submission, take effect after an
error was returned. `submit_batch` is permissionless.

### What is hard, and what makes each part correct

The *pipeline* is two replicas of one log, the contract and the database,
joined by an unreliable call and a process that may die between any two SQL
statements.

- An input (deposit or transaction) must take effect once, whatever is retried
  and whichever error says nothing about what landed; a user who is told
  "included", "credited" or "rejected" must be told the truth.
- A batch that may have landed must never be undone, and every interruption
  must leave a state the boot can take up again.
- The deposits of a batch must be the head of the contract's queue, in order,
  at the time it lands, or it can never land.
- Work must not stall: what was recorded has to settle in the end.

*Admission* answers from a shadow of the next state: the tree, and the rows in
the mempool. It has to agree with what a build will later accept, or an admitted
transaction is evicted; and a sender must always be able to go on.

The *ledger* must conserve value and spend each nonce once. Its rules are written
twice, in Rust and in Noir: what the builder accepts the circuit has to accept,
with the same result. The *contract* sees neither; from a proof and its own queue
it must go on holding what it owes, in balances and in deposits not yet credited,
and be able to pay the withdrawals of any batch that it accepts, whoever proved it.

A *wallet* takes nonce and balance from an answer that may be old by the time the payment
arrives, and shows amounts from two endpoints that read a state which moves between
build, landing and confirmation; an answer may be lost, or late. The *rate
limiter* counts in fixed windows over a shared map.

`PROJECT.json` lists each hazard under `hazards`, at the line where it bites, with the
properties that cover it or the reason none does.

## Modules

| Module | What it is |
|---|---|
| `Settlement` | abstract specification: what the rollup promises its users, without batches, proofs, processes or failures |
| `Pipeline` | engine, database, batcher, watcher, boot and contract, with crashes, SQL errors, timeouts and an unreliable network; its correctness properties |
| `PipelineInv` | the inductive invariant `IInv`, and the mapping under which `Pipeline` implements `Settlement` |
| `MCPipeline` | the module TLC runs |
| `PipelineCoreProofs`, `PipelineProofs` | the proof that `IInv` is inductive: types and `CoreInv`, then the whole |
| `PipelineTheorems` | the theorems about `Pipeline` |
| `Sums` | sums of amounts, as counts of unit tokens |
| `Accounts` | the account tree and `build_batch`, as pure operators on accounts with balance and nonce |
| `AccountsProofs` | lemmas: sums, what a deposit and a transaction do to a tree, what `build_batch` leads to |
| `Mempool` | admission, eviction and confirmation on real accounts; composes `Accounts` with a pipeline reduced to a batch that fails or lands |
| `MempoolInv`, `MempoolProofs` | the inductive invariant `AdmissionInv`; the proof that it is one, and the theorems about `Mempool` |
| `Circuit` | the constraints of the batch circuit on one entry, over the trees of `Accounts` |
| `Custody` | abstract specification: a custodian that holds exactly what it owes |
| `Rollup` | the contract with amounts, against everything the circuit lets anybody prove; composes `Circuit` with `build_batch`, and implements `Custody` |
| `RollupProofs`, `RollupProgress` | the theorems on custody; that no root returns, that a landed batch can be replayed, that the builder satisfies the circuit and no nonce is spent twice |
| `Client` | wallets, the API's answers and the history table over `Mempool`; answers may be lost or late |
| `ClientInv`, `ClientProofs` | the inductive invariant `WalletInv`; the proof that it is one, that `Client` implements `Mempool`, and the theorems about `Client` |
| `MCMempool`, `MCRollup`, `MCClient` | the modules TLC runs |

A definition whose name starts with `Mutant` is not part of a model. It is the
definition that follows it with a plausible bug; exchanging the two makes TLC
find the property that `PROJECT.json` names violated, which shows that the property can
tell the code from a wrong one.

## The batch pipeline

### State

| Code | Specification |
|---|---|
| contract `root`, `batch_num`, `dep_head`, `dep_tail` | `root`, `batchNum`, `depHead`, `depTail` |
| table `batches` | `batches`: number to row; the stored blob and envelope are the fields `deps`, `txs`, `old`, `new`; `proof` says whether one is stored |
| table `deposits`, columns `status` and `batch_num` | `depStatus`, `depBatch` |
| table `mempool`, columns `status` and `batch_num` | `txStatus`, `txBatch` |
| `meta.dep_cursor`, `meta.confirmed_batch_num`, table `leaves` | `depCursor`, `confirmed`, `leaves` |
| `Engine.tree` | `tree` |
| where the engine is inside a command | `epc`, `todo`, `bdeps`, `btxs` |
| where batcher and watcher are | `bpc`, `bnum`; `wpc`, `wcursor`, `wtail`, `wobs` |
| whether the process runs, what `main` read first | `proc`, `bootRoot` |

Three variables record history and are read by no action that models the
sequencer's code, except as said: `sent` is every envelope handed to the network, `landed`
every batch the contract applied (also read by `SubmitOk`, whose condition
is that the call succeeded), `halted` whether the last boot failed.

### Steps

An action is what happens without another task or the network being able to see
a difference.

- The engine serves one command at a time, so a command that commits at
  most once is one action. `build_batch_now` writes a row, then each deposit,
  then each transaction in statements of their own: `TryBuild`, `EvictTx`,
  `InsertBatch`, `MarkDeposit` and `MarkTx`, with a crash or an SQL error possible
  between any two. `observed_deposits` is `ObserveDeposits`, `InsertDeposit`,
  `SetCursor`. `confirm_batch` first swaps the tree (`PollConfirm`), then
  commits one transaction (`ConfirmCommit`).
- The batcher's and the watcher's awaits are steps of their own
  (`WatchTail`, `WatchFetch`, `Submit`, `SubmitErr`, ...), so contract, network
  and the other task move in between. A poll that finds the contract at the
  batch's number and the command it then sends are one action: `batch_num` only grows,
  so the test still holds when the engine takes the command up.
- `Crash` keeps the database and what is on the network, nothing else. A boot
  reads the contract's root (`BootReadRoot`) and then, with anything in
  between, its batch number (`BootUp`, `BootHalt`).
- Nothing ever leaves `sent`, and `Land` may deliver any member at any time. That
  covers a submission that is lost, late, repeated, or applied although the
  call returned an error, before and after a restart.

### What is abstracted

- *Trees and roots.* A root stands for the deposits credited and the
  transactions applied. A transaction spends its nonce and a deposit adds a
  positive amount to a balance, so different histories from the same start give
  different leaves; up to hash collisions root equality is equality of
  histories.
- *Proofs.* A row has one or not. Envelopes of the sequencer are honestly proved, so
  what `submit_batch` can still refuse is a root that has moved or a
  deposit fold that differs from its own queue (`Accepts`).
- *Which transactions a build evicts.* Signature, nonce and balance are not
  in this module: `EvictTx` may reject any candidate, and `BuildGivesUp`
  may end any build.
- *When a build starts.* `try_build_batch` waits for full slots or for the oldest
  row to be old enough. Time is not modelled: the trigger may be true whenever
  something is pending.
- *Other submitters* (`OtherLand`, where `OtherSubmitters` says so) settle the next deposits of the queue and any
  transactions that the root has not settled, known to the sequencer or not, within the slots of the
  circuit and the cap. Amounts, and what else a prover may do, are the subject of `Rollup`.
- *Retention.* Nothing prunes a row in the code, and nothing does in the model.

### Properties

| Property | What would break it |
|---|---|
| `AlwaysRecoverable` | a sequence of crashes, errors and late landings after which the boot says "manual repair needed" |
| `LandedInputsHeld`, `StatusTellsTruth`, `TerminalIsFinal` | requeueing, rejecting or overwriting the row of an input the contract has applied |
| `NoOrphanedInputs`, `SubmittedInputsReserved` | a crash or an error between the statements of a build |
| `SentAcceptedUntilLanded`, `AppliedOnce`, `CreditedInOrder` | an envelope that can never land, or that can land twice |
| `BlobKeptForLanded`, `SubmittedNeverUndone` | a batch number rebuilt with other contents while the old one may land |
| `TreeIsConfirmedOrLanded`, `ConfirmsTheChainRoot` | a commit that fails after the tree was swapped; a poll that is satisfied too early |
| `ImplementsSettlement` | any of this, as a user sees it |
| `RecordedDepositsSettle`, `AdmittedTxsSettle`, `QueuedRecordedUnlessPassed` | a batch, a row or a number left behind that wedges building |

### Fairness

`FairSpec` assumes what the deployment and the loops provide:

- the engine thread and both tasks go on (weak fairness of their steps), and a
  dead process is started again: `docker-compose.yml:28`, `restart: unless-stopped`;
- a submission in the network lands if the contract goes on accepting it (weak
  fairness of *some* `Land`): the CLI's retries are not relied on, and `SubmitOk` has no
  fairness at all, so the poll alone has to finish a batch;
- what can fail succeeds if tried again and again (strong fairness of
  `InsertBatch`, `RecordProof`, `WatchFetch`, `BootUp`): the prover, the build
  after its evictions, the RPC reads, a boot whose two reads are not split by a
  landing.

Nothing makes a crash, an error, a failed proof or an admission happen.
Assumed without being in a formula: withdrawals can be paid, and no deposit
blocks every build. The first is `WithdrawalsPayable` of `Rollup` as far as
the contract's funds go, the second `HeadProvable` as long as the tree has a slot
for the key; a destination that cannot receive the token, and a tree full of other
keys, remain assumptions. A
confirmation loop that gives up leaves its batch in flight until the next boot
(`batcher.rs:116`), and no fairness makes a boot happen, so the liveness runs have
`MaxTimeouts = 0`.

## Admission and build

`Pipeline` leaves open what a build accepts. `Mempool` models exactly that, and
of the pipeline keeps only what it does to a tree and to the rows.

| Code | Specification |
|---|---|
| `harness` `Tree` | a function from slots to accounts; `Find`, `FreeIndex` |
| `build_batch` | `BuildBatch`, the last value of `Run`, which follows the inputs one by one up to the first refusal, with the checks of `ApplyTx` in the order of the code; the recipient is looked up and read after the debit |
| `Engine.tree`, table `leaves` | `tree`, `leaves` |
| tables `deposits`, `mempool` | sequences of rows; a row keeps its status and why it was rejected |
| `submit_tx` | `SubmitTx`, for a request that is accepted; `ExpectedNonce`, `Available`, `RecipientKnown` are its three answers from the shadow |
| `build_batch_now` | `TryBuild` selects, then each pass of its loop is `Evict`, `Stall` or `InsertBatch`; the selection is the set `txs` of ids, which the build lists in order (`Listed`), as the vector in the code stays in the order of the query |
| `fail_batch`; `submit_batch` of the contract; `confirm_batch`; `load_and_reconcile` | `FailBatch`; `Land`; `Confirm`, or `ConfirmFault` when the commit fails after the tree was swapped; `Restart` |

What is abstracted:

- A request that is refused, or answered with the receipt of the row that has its
  (sender, nonce), changes nothing; it has no action. Signatures are verified at
  admission against the same message as in a build, and stay good.
- The statements that mark a batch's rows are one step, since their
  interruption is the subject of `Pipeline`. Each pass of the eviction loop is a step
  of its own because it commits a rejection, and the process may die after it.
- A batch is unnumbered: one at a time, it is built, and then it fails or lands. A landed batch
  is confirmed by the poll, or by the boot after a `Restart`; both replay the blob, which
  gives the batch's root only on the tree it was built on (`Replays`).
- A new account takes the lowest free slot, as `free_index` does.
- The tokens in the contract and outside of it are together `Supply`, which is at
  most `MaxBalance`: the deployment invariant of the token
  (`contracts/rollup/src/lib.rs:19`), which no code enforces.

| Property | What would break it |
|---|---|
| `ShadowExact` | a row counted in neither or in both of tree and shadow, at any point between build, failure, landing, restart and confirmation |
| `EvictionsExplained` | any way for an admitted transaction to be evicted other than a predecessor that is left out, or a recipient whose deposit is beyond the batch's slots |
| `AccountsAreHistory` | a credit or debit lost or doubled by a batch that is rebuilt, landed late, or confirmed after a restart; a payment to oneself that creates money |
| `NoOverflowJam` | a batch, with any mix of deposits, transfers and withdrawals, whose credits exceed `u64` although the tokens do not |
| `OfferedNonceIsFree`, `NonceAgainstConfirmedState` | see the findings: the code breaks both |

`EvictionsExplained` is also an answer to `docs/TESTING.md:182`, which counts the admitted
sets that "build without eviction": both of its reasons are reachable with honest
users, the first by a withdrawal passed over at the cap whose sender's next row
is taken, the second by a deposit that waits for a later batch.

## Custody and the circuit

`Pipeline` takes a proof as honest and has no amounts. `Rollup` is the other half:
amounts, and a prover bound by nothing but the circuit.

| Code | Specification |
|---|---|
| contract storage `Root`, `Dep(i)`, `DepTail`, `DepHead` | `root`, as the tree it commits to; `deposits`, its length; `head` |
| the contract's balance of the token | `held` |
| `BatchNum` | the length of `landed`, the batches applied |
| the witness a prover is completing | `draft`: old and new tree, deposits, transactions, withdrawals |
| proofs in existence | `proved` |
| `deposit` | `Deposit` |
| the constraints of `deposit.nr` and `tx.nr` | `DepositHolds`, `TxHolds` and the trees they lead to, `AfterDeposit`, `AfterTx`; one entry is `ProveDeposit` or `ProveTx` |
| `submit_batch`, `dequeue_deposits`, the payout loop | `SubmitBatch`, `Accepts`, `Dequeued` |

A prover starts from the contract's root, adds any entries the circuit accepts at
any slots, and may give up (`BeginBatch`). A proof is never lost: anybody may
submit any of them, at any time and any number of times, and the contract decides.

What is abstracted:

- *Hashes and folds* are ideal: a root is its tree, a fold is its list. The
  public inputs that the contract computes itself (its root, the fold of its own
  queue) are compared with those of the proof in `Accepts`.
- *Signatures* are ideal: a transaction entry is one that the owner of the account at
  its index may sign, for the nonce that account has. Nothing keeps an owner from
  signing two transactions for one nonce.
- *Padding* entries are the identity on tree and folds (`PAD_PK_X` in `tx.nr`), and a
  batch may have any number of them. The reserved keys, zero and `PAD_PK_X`, are tried in
  every place: in `deposit`, as the key of a proved deposit (`DepositClaims`) and as a recipient. The
  guards of contract and circuit turn them down, and `TypeOK` has no account for them.
- *The range check* of the circuit is the bound `MaxBalance` on a new balance; a debit
  is checked by the same range, so below zero it fails.
- *Transfers of the token* succeed if the contract has the amount. A destination
  that refuses the token reverts the whole `submit_batch` as well; that is a matter of
  the token and not in the model.
- *Deposits nobody made* can be proved but not submitted, as the contract folds its own queue. Apart from the
  reserved keys a prover claims deposits that wait.

The circuit does not enforce that a key has one slot: "honest builder only"
(`README.md:129`, `DESIGN.md:142`). A prover of its own may open a second account for a
key, and with it a second sequence of nonces. `honest` records whether every deposit so
far was proved in the slot `build_batch` takes, and the properties that need it
say so. The custody properties do not need it.

| Property | What would break it |
|---|---|
| `Solvent` | an entry that creates or destroys value, a payment to oneself that credits the old leaf, a deposit credited twice or dequeued uncredited |
| `WithdrawalsPayable` | an accepted proof whose payouts exceed the tokens: `submit_batch` would revert for ever and the batch in flight never land |
| `HeadProvable` | a deposit at the head of the queue that no prover can credit, because a balance would leave `u64` |
| `BuilderProvable` | an entry `build_batch` applies and the circuit refuses, or takes elsewhere: "an unprovable batch must never reach the prover" |
| `ReplayRebuildsRoot` | a proved batch whose blob, replayed by `confirm_batch`, gives another root: the engine could not confirm what landed |
| `RootNeverReturns`, `SignedOnce` | a root that recurs, and makes an old proof with its payouts good again |
| `ImplementsCustody` | any step that is not a deposit or a payout of what is owed |

`HeadProvable` and `Solvent` depend on the deployment invariant that the supply of the
token is at most `u64::MAX` (`RollupAssumption`); the code does not enforce it
(`contracts/rollup/src/lib.rs:19`).

## Clients

`Client` puts users in front of `Mempool`: its steps are those of `Mempool`, with
`SubmitTx` behind a request, and `Confirm` with the rows it inserts in `history` in the
same SQL transaction.

| Code | Specification |
|---|---|
| table `history` | `history`; `ConfirmBatch` appends in the order of the code |
| `GET /account`, `GET /history` | `AccountInfo`; `ConfirmedEntries` (the latest `HistoryLimit`, 100 in the code) and `MempoolEntries` |
| `POST /tx` and its error codes | `Post`: `Resubmitted`, `Admitted` or `TurnedDown`, in the order of `submit_tx`'s checks; `Limited` |
| `useAccount`, `Send.tsx` | `view`, `Refetch`; `screen`, `Send`, `LoseAnswer` |
| requests under way | `wire` |

A wallet posts with nonce and balance last read, one payment at a time. Its
answer may be lost, after which it shows a failure and the user may pay again while
the request is still under way; so requests may arrive late and out of order. The
API answers between any two steps of the pipeline except inside a build, which is one
command of the engine. The rate limiter may answer any request in place of
the engine.

`Fresh` says of an arriving payment that its sender has no row that the view it was made
from misses. The code has no such thing: it states what a client must have seen
for the promises below. Each of their other conditions is needed as well: a failed
commit leaves the tree ahead of the rows (`mempool_stale_tree`), a rejected
row keeps its nonce (`mempool_wedge`), and the answer of `GET /history` is cut off.

| Property | What would break it |
|---|---|
| `ActivityExplainsAccount` | an entry lost, doubled or given to the wrong key at confirmation; a row shown in both or neither of confirmed and pending, or one counted in `pending_out` but not shown, at any point between post and confirmation |
| `ReceiptIsOwn` | a receipt that names somebody else's row, or a row that pays something else than what the user just sent, and is shown as "Sent" |
| `FreshNotRefused` | a build, failure or confirmation between reading the account and posting that makes a correct payment fail for its nonce or its amount |

`ActivityExplainsAccount` is about the two answers as they stand in one state. A wallet
reads them one after the other, so what it shows may mix two states for as long as
its next poll takes; the property says that nothing else can be wrong with it. The run
has one wallet and payments of one amount: that a receipt is nobody else's is then
checked through recipient and kind only, and for more wallets and amounts the
theorems stand alone.

"Sent" without `Fresh` may be about another payment: after a lost
answer the user who pays again with the nonce last read gets the receipt of the
first payment, whatever the second one was to pay. That is what "same (sender, nonce) returns
the original" (`engine.rs:326`) means, and the property says when it cannot happen.

## Runs

Every bound is a constant: how many deposits, transactions and batches ever
exist, the slots of a batch, and how often the process may crash, a statement fail, a
confirmation time out. All runs say `CHECK_DEADLOCK FALSE`: with the bounds used up
and everything settled, the system rests.

| Run | Instance | Shows |
|---|---|---|
| `pipeline_safety` | 3 deposits, 1 transaction (a withdrawal), 3 batches, slots 2 and 1, 2 crashes, 1 SQL error, 1 timeout; 776 thousand states | all safety and action properties, the inductive invariant, the refinement of `Settlement` |
| `pipeline_liveness` | 2 deposits, 1 transaction, 3 batches of one each, 1 crash | recorded deposits and admitted transactions settle; queued deposits are recorded unless a crash left the cursor behind the head |
| `withdrawal_cap` | 3 transactions of which 2 are withdrawals, cap 1 | a withdrawal passed over because of the cap settles later |
| `other_submitters` | 2 deposits, 1 transaction, 1 crash, 1 error, 1 timeout, other submitters; 1.9 million states | what the contract alone guarantees |
| `other_submitters_confirm`, `stale_cursor`, `boot_race` | smallest that show it | three findings below, each a violation |
| `mempool_admission` | 3 keys, 2 slots, 3 deposits of 1 or 3, 3 rows of 1 or 2, supply and largest balance 4, 1 deposit and 2 transactions per batch, cap 1, 2 pending rows at most, 1 failed commit; 325 thousand states | what admission promises and a build delivers |
| `mempool_wedge`, `mempool_stale_tree` | the same with 2 keys; without and with a failed commit | two findings, each a violation |
| `rollup_custody` | 3 keys, 2 slots, 1 destination, amounts 1 and 2, supply and largest balance 2, 3 deposits, 3 proofs, 3 landed batches, 4 entries in all of them and the draft, 2 deposits and 2 transactions per batch, cap 1; 267 thousand states | custody, and that builder, circuit and contract agree |
| `client_view` | 2 keys of which 1 has a wallet, 2 slots, 2 deposits of 3, payments of 1, 3 rows, 3 posts, 1 deposit and 2 transactions per batch, cap 1, 2 pending rows at most, 1 failed commit, 4 history entries in an answer; 587 thousand states | what the wallet shows, and what its payments can count on |

Three batches let one be confirmed, the next be in flight or landed, and a third be
built after a recovery; agreement is always about the last confirmed batch and the
one after it, so a fourth adds nothing. Two crashes let a boot be interrupted by
another crash, and let the second fall into the recovery from the first. Three
deposits with two slots give batches of one and of two, a queue longer than a
batch and a report cut in two. One error and one timeout combine with both
crashes. That the results do not depend on the bounds is what the proofs show.

For admission, two slots and three keys give a full tree and a key that cannot get an
account; the supply equals the largest balance, so that one unit counted twice would
overflow; three deposits with one slot leave a deposit behind the batch; three rows
with two slots, one withdrawal per batch and at most two pending give a sender with a
settled, a batched and a pending row, a withdrawal overtaken by its successor, and a full mempool.
`AdmissionInv`, the inductive invariant behind the other properties, is checked in the same run; its
first conjunct is `TypeOK`.

For custody, the supply again equals the largest balance, so that a unit created
would overflow somewhere or leave the contract short; two slots allow one key to hold both, a
full tree, a payment to oneself and one to another key; three proofs can start from one root or follow each
other, so that a proof is overtaken, becomes good again if its root were to return, and is submitted
twice. Four entries give a deposit, a transfer and a withdrawal in sequence, in one batch or in several.
For clients, three posts give a lost answer, the payment that follows it, and one more
after a confirmation; four history entries are a deposit and three payments, fewer than can exist, so that
an answer is also cut off. Two pending rows and three rows let a post meet a full mempool. `WalletInv`, the inductive
invariant of the wallets, is checked in that run; its first conjunct is `ClientTypeOK`.

Keys are interchangeable, so symmetry over them is sound for these properties, all of them of safety.

## Proofs

### The pipeline

The theorems in `PipelineTheorems` are proved under `BoundsAssumption` (the constants are numbers,
slots and cap at least 1) and with `~ OtherSubmitters`:

    ASSUME ~ OtherSubmitters PROVE Spec => []Inv

for every number of deposits, transactions, batches, slots, crashes, errors and
timeouts. Every safety and action property of `pipeline_safety` is proved, and so is
`ImplementsSettlement`.

**The invariant.** None of the properties is inductive. What makes them so is
`CoreInv` of `PipelineInv`:

- `AgreementInv`: contract and database are in step, or the contract is one
  batch ahead, and that batch is the one in flight. It cannot be kept alone: that
  the contract gets ahead by no more than the batch in flight depends on what is on
  the network.
- `SentInv`: what is on the network has landed or is the batch in flight, in
  a status `fail_batch` does not undo. So a late envelope is either the next one
  or refused.
- `LandedInv`: landed batches build on each other, none of them is empty, and
  they match their rows. A second delivery is refused because the root it
  starts from lacks an input that the current root has; this is why an empty batch
  (`NothingLeftWithout`) has to be impossible.
- `InflightInv`, `RowsInv`: there is one batch in flight, numbered one above
  the confirmed, and it extends the confirmed tree by inputs that it lacks.
- `DepositInv`, `TxInv`: the status of a row is what the confirmed tree and
  the batch in flight make of it.
- `QueueInv`, `KnownInv`, `WatcherInv`: the deposits with rows are a prefix of the queue
  that covers everything dequeued and every cursor, so the pending ones in the
  order of their numbers are the head of the queue.
- `BuildInv`, `BatcherInv`, `ControlInv`: what each task may rely on at
  each of its awaits.

**The argument.** `PipelineCoreProofs` shows that each action preserves types and
contains the lemmas on `Apply`, `Segment`, `Prefix` and `LimitedTo`. It groups the
actions by what they do to contract, database and network (land, requeue, insert,
mark, confirm, ...) and shows that each group preserves `CoreInv`. `PipelineProofs` has
one lemma per action for the whole of `IInv`, and `StepInv` puts them together. In
`PipelineTheorems` each property follows from `IInv`, in the current state or
across one step, and `Implements` maps each step to a step of `Settlement` or to none:
`Deposit` is `Queue`, `AdmitTx` is `Admit`, `EvictTx` is `Reject`, `Land` is
`Settle`, `ConfirmCommit` is `Record`, all others leave the user's view unchanged.

### Admission

`MempoolProofs` proves `AdmissionInv`, `ShadowExact`, `EvictionsExplained`,
`AccountsAreHistory` and `NoOverflowJam` under `AccountsAssumption` and
`MempoolAssumption` (numbers, slots and cap at least 1, amounts positive, the supply at most the
largest balance), for every number of keys, slots, rows, deposits and failed commits.

**The invariant.** `AdmissionInv` of `MempoolInv` has four parts beside the types:

- `BatchInv`: a row's status says whether it is in the batch, and the live tree is the leaves
  or, after a failed commit, the new tree of a landed batch.
- `LedgerInv`: the leaves are the `Ledger` of the consumed deposits and included rows,
  and the batch's tree that of these and the batch's own. A ledger says what each account
  is without saying in which order its entries were applied: the nonce counts the sender's
  rows, the balance is what came in less what went out, and the total is the deposits
  less the withdrawals. It is inductive where `AccountsAreHistory` is not, since a failed batch, a
  rebuilt one and a late landing change which rows are in it but not what it means.
  What the contract holds is at most the supply, so no ledger exceeds `MaxBalance`.
- `RowsInv`: withdrawals have no recipient, a transfer's recipient has a deposit, and the rows
  of a batch carry the nonces that follow the included ones.
- `ShadowInv`, while no commit has failed: the nonces of *all* rows of a sender, rejected
  ones included, number them in the order of their ids (`Numbered`); they settle in that order
  (`SettledFirst`); and the balance pays for those to come (`FundsCover`). `Numbered` is
  stronger than `ShadowExact` says: it is why nothing of a sender is admitted after a
  rejection, and so why a row that is refused for its nonce has a predecessor outside the batch.

**The argument.** `AccountsProofs` says what `ApplyDeposit` and `ApplyTx` do to a tree
(`DepositOutcome`, `TxOutcome`) and that `BuildBatch` is what its steps lead to
(`RunUnfold`, `RunStops`). `DepositLedger` and `TxLedger` extend a ledger by one entry,
and `BuildRuns` by a batch: what has been applied after n inputs is a ledger of the first n. From
it `AttemptOutcome` gives the three ways a build ends. Each action then has a lemma
(`SubmitTxInv`, `ConfirmInv`, ...). `EvictionsHold` follows from `WhyRefused`, which goes through the
errors of `build_batch` against `ShadowInv`.

### Custody

`RollupProofs` proves `TypeOK`, `Solvent`, `WithdrawalsPayable`, `HeadProvable` and
`ImplementsCustody` for every number of keys, slots, amounts, batches and entries, under
`AccountsAssumption`, `CircuitAssumption` and `RollupAssumption` (the padding key is no
user's, the supply is at most the largest balance, and so is each deposit, as `deposit` checks,
`contracts/rollup/src/lib.rs:103`). There is no hypothesis on the provers.

- *The invariant.* `Solvent` is not inductive: `submit_batch` replaces the root by one
  it cannot inspect. `CustodyInv` adds that each batch that is proved or being
  proved conserves value, `Total(new) + Worth(wds) = Total(old) + Worth(deps)`. When the
  contract accepts one, `old` is its own root and `deps` the head of its own queue
  (`AcceptedIsCovered`), so both sides of `Solvent` move by the payouts, and what is paid
  is covered by what is owed.
- *`HeadProvable`*: a balance plus a queued deposit is part of what is owed, hence of what is
  held, hence at most the supply.
- *The refinement*: `Deposit` is `Receive`, `SubmitBatch` is `Settle`, all else leaves
  `held` and what is owed alone.

`RollupProgress` proves `RootNeverReturns` under the same assumptions. The
contract numbers its batches but a proof is not bound to a number, so what keeps an old proof
bad is that trees only move forward: no nonce ever decreases, an active transaction raises one, and
an active deposit raises the total while it leaves the nonces alone (`Before`, a strict order).
`ProgressInv` says so of each batch (`Advances`) and of the trees the landed ones
started from, one after another up to the contract's root. A batch without entries does return to its root,
and can land again; it moves nothing.

The same module proves `ReplayRebuildsRoot`, `BuilderProvable` and `SignedOnce`, which are about
deposits proved in the slots of `build_batch`; `BuilderProvable` leaves out the recipient zero, which
`submit_tx` refuses (`engine.rs:342`). `ReplayInv` says of every batch, proved or being
proved, that its trees are such as `build_batch` makes (a key has one slot, an empty slot is zero),
that replaying its lists gives its new tree (`Replayed`), and that it spends nonces that were not
spent, and each once (`SpendsOnce`). `BuilderDeposit` and `BuilderTx` are the two rule sets side by
side: what the Rust code accepts and what the constraints accept, with the same tree. Replay of a
longer list is replay of the shorter and one more step (`BuildDeposit`, `BuildTx`, from `RunAgrees`), which needs
that deposits precede transactions, as in the circuit.

### Clients

`ClientProofs` proves `WalletInv`, `ActivityExplainsAccount`, `ReceiptIsOwn` and `FreshNotRefused`
under the assumptions of `Mempool` and `ClientAssumption` (wallets have keys, limits are numbers), for
every number of wallets, posts, rows and history entries in an answer. Each step of `Client` is a step of
`Mempool` or leaves its variables alone (`ClientStep`, `ClientsRefineMempool`), so
`AdmissionInv` holds and is used throughout.

**The invariant.** `WalletInv` of `ClientInv` has, beside the types and the last two properties:

- `HistoryInv`: for each key, the entries of `history` add up to what the consumed deposits and the
  included rows did, the outgoing ones number its included rows, and there is none
  without one of these. It speaks of the same sets as `LedgerInv`, and so ties the table to the balances.
- `OneRowEach`: a sender uses a nonce once, whatever became of the row. Without it "the original" that
  a repeated post is answered with would not be one row.
- `ViewInv`, `WireInv`: each view, and each post under way, is `Offered`. An offer
  is dated by the number of rows that the sender had (`rows`). As long as the sender is undisturbed (no
  rejection, no failed commit) its nonce is that number, and while no row has been added since,
  what it spends and what all the sender's rows spend together do not exceed what
  the sender has received. That speaks of no balance and of no pending row, so that a build, a failure or a
  confirmation, which move amounts from one to the other, leave it as it is.

**The argument.** `Evolves` says what no step of `Mempool` undoes: rows keep what they pay, what has
settled stays settled, a rejected row stays rejected. `NextEvolves` shows it of every
step, and `OfferKept` and `ScreenKept` need nothing else. `NowOffered` shows, with `Numbered` and
`FundsCover` of `ShadowInv`, that what GET /account answers is an offer. For a post, a fresh one
that found a row with its nonce would contradict `Numbered` (`OldReceipt`), and the checks of `submit_tx` are
what was offered (`RefusalGood`). For a confirmation, `DepositsListed` and `TxsListed` follow the
entries one after another, and `FlattenSteps` says that appending the flattened list is appending its parts.

### Sums and sequences

The provers cannot use the library's induction theorems. Two things replace them. A sum is
the cardinality of its set of unit tokens (`Sums`), so that sums over disjoint sets add up,
renumbering preserves them and an update changes them by the difference. And a statement about all
numbers up to n is proved by the least number for which it fails (`LeastExists`, `SetInduction`), as for
`Run`. Both are in `AccountsProofs`.

### Only model-checked

Liveness needs fairness and `ENABLED`, which the prover does not support: the three
properties of `pipeline_liveness`. The runs with other submitters, whose instances the theorems about
`Pipeline` exclude.

## Where code and documentation disagree

- `other_submitters_confirm`: the poll confirms a batch as soon as the contract's batch
  *number* has reached its own (`batcher.rs:131`); the comments say it waits for its
  *root* (`batcher.rs:115`, `engine.rs:138`). With another submitter the number can belong
  to a batch of somebody else.
- `stale_cursor`: "a restart with a stale cursor is harmless" (`watcher.rs:4`). It is
  not when the deposit at the stale cursor has been dequeued in the
  meantime: the getter traps on it, and the watcher never gets past it.
- `boot_race`: a batch that lands between the two reads at boot makes
  `load_and_reconcile` report "manual repair needed" for a state it can reconcile.
  The restart that follows succeeds.
- `mempool_wedge`: an evicted row keeps its (sender, nonce) while `pending_nonce` returns to that nonce.
  Every later payment with it is answered by "same (sender, nonce) returns the
  original" (`engine.rs:326`): the receipt of the rejected row. The wallet says
  "Settles in the next batch" (`wallet/src/pages/Send.tsx:55`), nothing is queued, and the
  sender cannot send again. Honest requests lead there.
- `mempool_stale_tree`: nonce and balance are checked "against confirmed state +
  mempool shadow" (`engine.rs:361`), but the tree read is the live one, which
  `confirm_batch` swaps before its commit. After a failed commit the rows of the
  batch are counted in both, and a row is admitted with a nonce that leaves a gap.

## Not modelled, and what is left

- *Signatures, hashes and the proof system* are ideal: their strength is not a matter
  of states. `keys.rs`, `poseidon.rs`, the wallet's ports of them.
- *External tools* (`nargo`, `bb`, `stellar`) are known through their results only: success, or an
  error that says nothing about what happened.
- *How the rate limiter counts.* `Limited` may answer any request, which covers every way to
  count; whether the windows are fair to a client is not asked.
- *The wallet's pending deposits*: a local estimate in wall-clock time, shown by one indicator
  and read by nothing else.
- *Reads that change nothing and that no property is about*: `/da`, `/status`, `/batches`, the contract's getters.
- Configuration, parsing of hex and field elements, vectors and fixtures, the command line of the
  harness, and the user interface, which have no state that matters to the rollup.

Worth doing next: theorems about `Pipeline` with other submitters, for what the contract alone guarantees.
