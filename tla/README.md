# A verification project for DRX-Wallet

DRX-Wallet is a custodial wallet for several blockchains: a web service takes
requests for addresses and withdrawals, and for every platform (btc, eth, bsc,
xrp, ...) a set of worker processes moves money. The processes share a MySQL
database and talk to nodes of the blockchain through *gateways*. Nothing else
connects them: no queue, no lock, no call from one worker to another.

These TLA+ modules model how money leaves the wallet (requests, the four
workers of the withdrawal pipeline, on three kinds of platforms), how it comes
in (the crawler, the fee seeder, the collector), what clients are told (the
webhooks), what the web services write, and which coins are spent. TLC checks
small instances, and TLAPS proves every safety property that these runs check
for every number of rows, hot wallets, currencies and amounts, some of them
under the assumption that no cache of a gateway is stale (see Proofs).

## Inventory

Paths are relative to `src/libs/wallet-core/src` unless they start with `src`.

### Withdrawal pipeline

| part | code | reads | writes |
|------|------|-------|--------|
| web service | `hd_wallet/Utils.ts` `approveTransaction`, `saveThreshold` | hot wallets, balances | new `withdrawal` rows, `unsigned` |
| picker | `callbacks/active/pickerDoProcess.ts` | oldest unsigned rows, busy hot wallets, nonce or outputs | new `withdrawal_tx`, rows `signing` |
| signer | `signerDoProcess.ts` | oldest `signing` transaction | `signed`, signed bytes, txid |
| sender | `senderDoProcess.ts` | oldest `signed` transaction, its status on the network | `sent`, or back to `unsigned`; events |
| verifier | `verifierDoProcess.ts` | oldest `sent` transaction, its status | `completed` or `failed`; events, `wallet_balance` |

State: the tables `withdrawal`, `withdrawal_tx`, `webhook_progress`,
`wallet_balance`, and what a tick holds between a remote call and its commit.
The status of a withdrawal and of its transaction are separate columns, and the
address of the hot wallet is copied into the withdrawals; the busy checks of
`rawdb/findHotWallets.ts` read those copies.

Hard behaviours: every tick is one database transaction, but a transaction that
was broadcast is not rolled back with it; a nonce is read by one worker and
spent by another, minutes later; the caches of the gateways survive a
reorganisation; queues are ordered by `updated_at`, which most outcomes of a
tick rotate and some do not.

What makes it correct: a withdrawal is paid at most once; what a client is told
is true, final and in order; the amount of a withdrawal is debited once, when
it has left; a hot wallet has one pending withdrawal transaction, so that its
nonce stays right; every accepted withdrawal reaches an outcome. The fee of a
transaction should be debited once too: it is on an account platform, where a
transaction pays one withdrawal, and is not for a UTXO batch
(`MCWithdrawals_batch_fee` below).

### Seeding and collecting

Deposits of tokens lie at addresses without native coin. The collector
(`collectorDoProcess.ts`) marks them `seed_requested`; the fee seeder
(`feeSeederDoProcess.ts`) builds, signs and broadcasts a transfer from a hot
wallet in one tick and inserts its `internal_transfer` row and a `deposit_log`
row last; the verifier hands the deposits back to the collector. The collector
then sweeps deposits into a hot wallet with the same broadcast-then-commit
order. State: `deposit.collect_status`, `deposit_log`, `internal_transfer`.

Hard behaviours: the seeder spends nonces of the same hot wallets as the
picker; a crash after the broadcast; several deposits at one address; a failed
seed. What makes it correct: one recorded seed in flight per address; a deposit
is released only when its address was funded; a deposit is collected once.

### Gateways (`src/libs/sota-*`)

`BaseGateway` caches transactions and blocks (LRU, five minutes, renewed by
every write). `EthGateway` and `BscGateway` read nonces, broadcast and wait for
receipts, with single-flight maps; `BitcoinBasedGateway` selects outputs and
asks an explorer. What makes them correct: an answer about a transaction is
about the best chain; a request that fails does not block later ones.

### Crawler (`src/libs/sota-common/src/BaseCrawler.ts`, `callbacks/crawl`)

Reads blocks behind the head, inserts deposits, stores `latest_block`. Hard: a
failure inside a range, reorganisations, check-then-insert in `insertDeposit`.
Correct: every deposit of the best chain is inserted once; `latest_block`
passes no block that was not processed.

### Webhooks (`WebhookProcessor.ts`)

Takes the oldest unprocessed event, calls the client, marks it processed or
moves it to the back. Hard: the call precedes the commit (duplicates), a failed
delivery changes the order, a row without a webhook or an url blocks the queue,
and so does a row whose record the worker cannot read, such as a deposit in a
token that its registry does not know; an error is caught inside the database
transaction, which then commits what was written before it. Correct: every event
arrives, and out of order only after a refusal.

### Thresholds (`rawdb/checkBalance.ts`)

When a hot wallet holds more than its upper threshold, a withdrawal to the cold
wallet is inserted, by the picker when it is idle and by the web service when a
threshold is set. Hard: test and insert in two processes, amounts read from the
network at different moments. Correct: one sweep for one surplus, paid by the
hot wallet it was computed for.

### Web services (`src/bin/*/*WebService.ts`, `hd_wallet/Utils.ts`, `hd_wallet/DBUtils.ts`)

Requests create wallets and addresses, insert withdrawals, change thresholds,
cold wallets, settings and tokens, each in a transaction of its own, most of
them answered before that transaction commits. Each platform has a service of
its own with the routes that it offers; a proxy passes a request to it by the
name of the currency. State: nearly every table. Hard:
two requests at once, each deciding from a snapshot (`createAddresses` numbers
new addresses from a count of rows), aborts after the answer, `save` writing
only what differs from the snapshot. Correct: no address is given to two
customers; thresholds stay ordered.

### Registries and worker loop

`prepareEnvironment.ts` fills the registries of a process from the tables and
then follows Redis messages about tokens, which the services publish before they
commit. Correct: no process works with a token that does not exist.
`BaseIntervalWorker` runs one tick at a time and ends the process when a tick
takes five minutes.

### Other platforms (`src/libs/sota-xrp`, `sota-eos`, `sota-ada`)

One hot wallet whose transactions expire; three ideas of what the id of a
transaction is and when it counts as sent. Hard: submissions that are refused,
time out or are repeated; ids that only the answer carries; nodes without
history. Correct: the promise of the pipeline.

## Modules

| module | content |
|--------|---------|
| `Chain` | the network of an account or UTXO platform: status, payer and slot of every transaction, what is mined, what the gateways of the sender and of the verifier have cached; the gateway operations that read or change it |
| `Payout` | abstract: withdrawals are asked, paid at most once, and settled truthfully |
| `Withdrawals` | the pipeline of one platform on top of `Chain`; refines `Payout` |
| `Seeding` | `Withdrawals` with the fee seeder, the collector's requests and the verifier of seeds |
| `Submission` | the pipeline on Ripple, EOS and Cardano; refines `Payout` too |
| `DepositBook` | abstract: a transfer is credited once, and only when it is final |
| `Deposits` | the crawler of one platform with a gateway per currency; refines `DepositBook` |
| `Collection` | deposits from their insertion to a hot wallet: collector, seeds, verifier |
| `Webhooks` | events, their queue, calls, refusals |
| `WalletService` | the requests as concurrent database transactions, and which service offers which |
| `Tokens` | `WalletService` with the token requests, Redis and the registries |
| `Coins` | which outputs a UTXO transaction spends, what fee it pays, what is left |
| `MC*` | values and symmetry for TLC |
| `*Proofs` | the theorems; see Proofs |

`Seeding` and `Tokens` extend the module they compose with, `Withdrawals` the
network it runs on; the refinements are `INSTANCE Payout` in `Withdrawals` and
`Submission` and `INSTANCE DepositBook` in `Deposits`.

### How state maps to the code

**Pipeline.** `wStatus`, `wFrom`, `wTx` are columns of `withdrawal`; `tStatus`
is the status of `withdrawal_tx`, `pays` what its `unsigned_raw` pays, and
`payer` its `hot_wallet_address`. `wOlder` and `tOlder` are the order by
`updated_at` as the relation "strictly older", so that rows updated by one
statement are tied and the query may return either of them. `debited` and
`feeDebits` count the updates of `wallet_balance`, `notices` is the sequence of
`webhook_progress` rows of a withdrawal. A transaction on the network is
identified with the row that stores its signed bytes, because signing is
deterministic. `slot` is a nonce; on a UTXO platform it stands for the outputs
that were unspent when the transaction was built.

**Submission.** The same rows with `txid` as what the row believes its id to be:
none, temporary, a hash of the unsigned content, or the one the network uses.
`deep` are the irreversible transactions, `expired` those no block takes any
more, `cached` those that the verifier's gateway has read in a block and
remembers, on EOS and Cardano (`BaseGateway.getOneTransaction`).

**Deposits.** `chain` is the best chain as a sequence of sets of transactions;
`blockCache` and `txCache` are the caches of `BaseGateway`, one per currency;
`crawler` is a tick: the range, the head it saw, and which currencies are read
(`CrawlerRead`), committed (`onCrawlingTxs`) or failed (`CrawlerFail`), in any
order, as in the `Promise.all` of `BasePlatformCrawler`. `latestBlock` is the
table, `processed` the variable of the process. `since` is a history variable.

**Collection.** `older` is the order of the deposits by `updated_at`, as the
pairs of which the first was updated earlier; `collectedTxid`, `collectStatus`
and `transfer` are columns of `deposit` and `internal_transfer`. `net`, `deep`,
`nonce` and `claims` are the network: the state of a transaction, those with
enough confirmations, the nonce, and the deposits that it moves; `Mine` puts it
into a block, `Reorg` takes it out of one, `Deepen` gives it its confirmations.
`cached` are the transactions that the verifier's gateway has seen in a block. A
deposit is one unit of its currency; `coin` is the native coin of an address in
units.

**Webhooks.** `pending` is the order of open `webhook_progress` rows, `refused`
those that were put back after a call that failed, `received` what the client
heard, `readable` the records that `_getRefData` can build from the tokens the
worker has read. `webhook_log` is left out: nothing reads it.

**WalletService, Tokens.** `db` maps cells (table, key) to committed values,
`tx[q]` is the transaction of request q: what it will write, from the snapshot
it read, and how far it is (`Reads`, `Writes`, `Answers`, `Commits`, `Aborts`).
`Services` holds the requests that each service offers; BSC tokens are added at
that service itself, because the proxy has no route for them. `inbox` is a Redis subscription, `known` and `erc20` are `allCurrencies` and
`allErc20Tokens` of a process.

**Coins.** The outputs of the hot wallet in the order the node lists them;
`last` is the transaction built last, or the failure to build one.

### Atomicity

A tick is one database transaction, and an action when its reads stay true
until it commits. Ticks that talk to the network in the middle are split: the
picker (`PickerConstruct`, `PickerCommit`, `PickerCrash`), the sender
(`SenderSubmit`, `SenderCommit`, `SenderCrash`), the seeder, the collector, the
webhook processor, and the crawler, whose database transactions are one per
currency. Between two such steps the network and all other workers may move. A
tick that throws or has nothing to do is a stuttering step. There is one process
of each kind per platform, as in the worker files of `src/bin`. Other platforms
are visible in one place: `checkHotWalletIsBusy` counts the pending seed
transfers of all of them, so their rows (`ForeignSeed`) come and go.

### The network

`Fault` selects what it may do: `drop` (a pooled transaction is forgotten),
`replace`, `reorg` (a block with too few confirmations is disconnected), `revert`
(execution fails on an account platform), `node` (a request is refused or not
answered), `crash` (a process dies, or its database transaction does not commit),
`stale` (a cached transaction survives the block it was read from). The sender
and the verifier are two processes with a cache each, and both ask
`getTransactionStatus`, which reads it (`BaseGateway.ts:128-139`): the sender
remembers a transaction too when it saw it in a block and its row stays `signed`
because the update did not commit or the count of blocks failed
(`SenderSeesInVain`). A transaction with `requiredConfirmations` is not
reorganised; that is the meaning of the setting. `NetworkStatus` follows the
gateways: on an account platform a pooled transaction has no block number and
the request *throws*; on a UTXO platform a pooled one is unknown and an
unheard-of one throws. A transfer of a token that was reverted has no log, so
the gateway finds no transaction (`Erc20Gateway.ts:150`, `Bep20Gateway.ts:149`),
and the verifier throws when it asks for the fee (`verifierDoProcess.ts:103`,
`:133`): the row stays `sent` (`NoFeeToRead`, and `Unverifiable` in
`Collection`).

### Abstractions and assumptions of the models

* Amounts are left out of the pipeline: whether a hot wallet has enough is an
  answer of the network. They are in `Coins` and, as thresholds, in
  `WalletService`.
* The rows of an instance belong to one wallet and, on a UTXO platform, to one
  currency. Limits of queries (100 rows) are above the bounds. The newest block
  on an account platform (one confirmation is counted from zero there) is not
  told from a pooled transaction.
* `Deposits`: the chain is longer than `RequiredConfirmations` when the wallet is
  installed, a reorganisation replaces blocks by as many others, and
  `FORCE_CRAWL_BLOCK` is used on an existing `latest_block` row only. Proofs and
  runs give it values that do not jump over blocks. `Listing` says how a gateway
  lists a block. The run has `height` and `cached`; with `account` or `slot` and
  a node that does not answer, `NothingMissed` fails: `XrpGateway.ts:167` takes
  missing history for no transactions, and `CardanoGateway.ts:517` passes over a
  block whose hash it is not told. Both are listed as hazards.
* `Collection`: the hot wallet is never missing. Amounts are counted in units: a
  deposit is one unit, and a unit of native coin is a seed and the fee of one
  token transfer. A native group is worth its transaction when it reaches the
  `minimumCollectAmount` of the platform or, without one, three seeds
  (`collectorDoProcess.ts:72-85`); below that its coin pays the fees of tokens. A
  transfer of native coin may be reverted in the model, which is more than most
  receivers do.
* `Webhooks`: a record has as many events as `LastEvent` says. What the worker
  cannot read it reads when it was started again, because it then reads the
  tokens.
* `WalletService`: snapshot reads, the locks of one transaction taken in one
  step, a deadlock is an abort. The workers do not run beside the requests.

## Runs

All passing runs disable the deadlock check: the systems stop when the rows,
events, requests or coins of the instance are used up.

| run | instance | distinct states | what it checks |
|-----|----------|-----------------|----------------|
| `account` | 2 client withdrawals, a sweep of a token, 4 transactions, 2 hot wallets and one external account; drop, reorg, revert, node, crash | 87 252 | `TypeOK` `RowsAgree` `NoDoublePayout` `LedgerMatchesChain` `OneTxPerHotWallet` `StillMineable` `NoticesInOrder` `ImplementsPayout` |
| `cache` | 2 withdrawals, 2 transactions, 2 hot wallets; reorg, revert, crash, stale | 44 716 | `OneTxPerHotWallet` `NoticesInOrder` |
| `utxo` | 2 withdrawals, a sweep, 3 transactions, a seed of another platform; drop, reorg, node, crash | 11 928 | batches: `RowsAgree` `NoDoublePayout` `AmountsMatchChain` `ImplementsPayout` |
| `live` | a withdrawal and a sweep, 2 transactions, a seed of another platform; reorg, node, crash | 4 952 | `EveryWithdrawalSettles` |
| `seeding` | a withdrawal, 2 transactions, 2 seeds, 2 deposits at one address; all faults but stale | 150 286 | `SeedingTypeOK` `AtMostOneSeedInFlight` `NoDoublePayout` `LedgerMatchesChain` `ReleasedOnlyWhenFunded` |
| `submission` | 3 withdrawals, 5 rows, each of the three platforms; crash, timeout, refuse, lag, drop, fork, expire | 20 939 | `SubmissionTypeOK` `ImplementsPayout` `SettledUnlessLost` |
| `deposits` | 2 currencies, 2 transactions, 3 outputs, 2 confirmations, up to 6 blocks, a forced block; reorg, node, crash | 129 989 | `DepositsTypeOK` `NothingMissed` `ImplementsDepositBook` `EveryDepositIsRecorded` |
| `collection` | 2 native deposits and a token deposit at one address, with a minimum of two units for native coin and one for the others, or 2 UTXO deposits; 2 transactions; crash, node, drop, replace, reorg, revert, lost | 26 492 | `CollectionTypeOK` `CollectedMeansMoved` `Solvent` `EveryDepositIsCollected` |
| `webhooks` | 2 webhooks, one of which loses its url, a withdrawal with 2 events and a deposit with one, which the worker may be unable to read; crash, refuse, save | 49 542 | `WebhooksTypeOK` `ReorderedOnlyAfterRefusal` `EveryNoticeIsDelivered` |
| `service` | 8 sets of three or four requests that meet, a crawler process; abort | 15 735 | `TokensTypeOK` `NoAddressServedTwice` `KnownTokensWereCommitted` |
| `coins` | coins below, near and above the price of an input, 2 fee rates, 3 payments | 157 064 | `CoinsTypeOK` `FeeIsRight` `ThrowsOnlyWhenShort` |
| `completed` | 1 withdrawal; reorg, stale | (violation) | `CompletedIsConfirmed` |

What the properties say is in the comment above each of them.

**Bounds.** The pipeline caps the number of `withdrawal_tx` rows
(`PickerConstruct` needs a free one; `RowCount` in `Submission`), which bounds
how often a failed withdrawal is retried. With two withdrawals, two hot wallets
and three or four transactions (two in `live` and `cache`) the instances contain two
transactions of one hot wallet one after the other, two at the same time, a
retry with the same and with another hot wallet, a sweep competing with a
client, and a batch joined by a sweep. No property relates more than two
transactions, and two are enough for `cache`: a transaction that is given up,
and the one that follows it. `MaxHeight` bounds the chain of `Deposits`: with
three blocks to start with it leaves room for a block to be read, reorganised,
read again and become final while a second range is read. `TxCount` and
`RevertCount` bound `Collection` (two transactions are two groups, or a group
and its retry; with three the safety properties hold too, in 210 780 states),
`LastEvent`, `EventCount` and `RefusedCount` `Webhooks`, where two events of a
record, one of another and one refusal meet in one queue, `Funds` and `Unspent`
`Coins`; `Coins` stops after a failed construction. In `Tokens` a process starts
only in scenarios with token requests. Rows, hot wallets and transactions are
interchangeable, so symmetry is used where no liveness property is checked.

**Fairness.** Each worker is an interval timer, and its process is restarted when
it ends, so each is weakly fair. Strong fairness of the steps that need an
answer of a node or a commit (`PickerConstruct`, `PickerCommit`, `SenderCommit`,
`SeederCommit`, `CollectorSend`, `CollectorCommit`, `CallAnswered`,
`CrawlerFinish`) says that neither the node nor the process fails at every
single attempt; of `Finalise` and `Deepen`, that a block is not disconnected for
ever. `Mine` is weakly fair in `Withdrawals`: a transaction that stays in the pool
with the right nonce is mined; in `Collection` it is strongly fair, because nonces
of an address come and go. Nothing is assumed of the clients, except that a webhook
does not refuse for ever and that an operator repairs a lost url. Nobody need
restart a worker that lives, so nothing is assumed to make a record readable:
`EveryNoticeIsDelivered` excepts the behaviours in which the first row of the
queue stays one that the worker cannot read. Where more is assumed:

* `deposits`: failures and deaths end in some moment (`DepositsFairness`),
  because a tick needs all its currencies to succeed, and a process that dies
  may begin again at `FORCE_CRAWL_BLOCK`.
* `collection`: the verifier's ticks for internal transfers, which run only when
  no withdrawal is sent, are strongly fair: withdrawals leave gaps. The rows
  that the collector touched are ripe again a minute later. The five ways in
  which the code strands a deposit are in `Stranded`: the commit that followed a
  broadcast is lost (`LostCommit`); the network has forgotten a transfer that is
  `sent`, or takes it no more (`Forgotten`); a token transfer was reverted
  (`Unverifiable`); a second deposit asks for a seed at an address whose log says
  that it was given one (`SecondSeed`); the coin of a native deposit has paid a
  fee, and its group asks for more than is left (`PaidByDeposit`).
  `SettledUnlessLost` names the three ways in which a transaction is lost in
  `Submission`.
* `live` leaves out four faults. A dropped transaction that is already `sent` is
  never broadcast again; each revert takes a transaction row of the bound; a
  reverted transfer of a token is never settled; and with `stale` the property
  fails, because a withdrawal that is completed from a disconnected block leaves
  its transaction in the pool, and the next one of that hot wallet with the same
  nonce can never be sent.

## Where the code disagrees with what it says

The run `completed` expects a violation: "Check whether the txid is confirmed on
the blockchain network" (`verifierDoProcess.ts:50`). A transaction that was
cached in a block and then reorganised completes from the old block number
(`BaseGateway.ts:138`).

The following configurations show further disagreements. They are not among the
runs above; TLC ends each of them with a counterexample.

| configuration | property | what is said | what happens |
|---------------|----------|--------------|--------------|
| `MCWithdrawals_one_pending` | `OnePendingTxPerPlatform` | "there's only 1 withdrawal tx is being processed at the same time for each platform" (`getNextPickedWithdrawals.ts:9`) | the conditions (line 26) do not use the lists they are given, so the count is always zero |
| `MCWithdrawals_failed_tx` | `FailedTxFailsWithdrawal` | "If transaction is determined as failed, the withdrawal is failed as well" (`senderDoProcess.ts:63`) | it becomes `unsigned` (line 137) and is paid by a new transaction; without stale caches that is safe (`NoDoublePayout`) |
| `MCWithdrawals_double_payout` | `NoDoublePayout` | "We'll check whether its status is determined or not on the network" (`senderDoProcess.ts:54`) | the status (line 57) comes from a cache. A transaction that was reverted in a block, and whose row stayed `signed`, reads as failed after that block was disconnected; its withdrawals go back to `unsigned` and are paid again while it waits in the pool |
| `MCWithdrawals_reverted_token` | `RevertedIsFailed` | "Just treat the transaction as failed" (`Erc20Gateway.ts:151`, `Bep20Gateway.ts:150`) | the verifier throws when it asks the missing transaction for its fee (`verifierDoProcess.ts:103`), and the withdrawal stays `sent` |
| `MCCollection_reverted` | `RevertedIsFailed` | the same | the same for an internal transfer (line 133): it stays first of its queue, and the deposits `collecting` |
| `MCWithdrawals_batch_fee` | `FeeDebitedOnce` | nothing; the chain takes one fee for a transaction | the fee is debited for each withdrawal of the batch (`updateWithdrawalTxWallets.ts:82-93`) |
| `MCWithdrawals_sweep_wallet` | `SweepLeavesItsHotWallet` | the log names the hot wallet a sweep leaves from (`checkBalance.ts:124`) | on account platforms the picker (line 83) takes any other one |
| `MCSeeding_free` | `PickedWalletHasNoPendingTransaction` | "Get a hot wallet that has no pending transaction" (`findHotWallets.ts:14`) | the seeder stores a placeholder as sender (`feeSeederDoProcess.ts:113`) |
| `MCSeeding_stale` | `StaleIsReconstructed` | "It must be reconstructed" (`senderDoProcess.ts:103`) | the call is commented out (line 106), and the transaction stays `signed` for ever |
| `MCDeposits_stale` | `CreditedIsConfirmed` | "If transaction is not confirmed, also do nothing" (`processOneDepositTransaction.ts:30`) | confirmations are counted from the cached block (`BaseGateway.ts:128`, `:186`), which may be disconnected |
| `MCCollection_stale` | `CollectedMeansMoved` | "Check whether the txid is confirmed on the blockchain network" (`verifierDoProcess.ts:50`) | a deposit is called collected from the number of a disconnected block (line 119) |
| `MCCollection_seed` | `SeedRequestIsServed` | "Send fee to deposit address if needed to collect tokens" (`collectorDoProcess.ts:45`) | an address whose earlier deposit has a seed log is excluded (`feeSeederDoProcess.ts:30`) |
| `MCSubmission_refused` | `SentIsSubmitted` | "Now the tx should be submitted to the network, and wait for the verifying phase" (`senderDoProcess.ts:31`) | the result of a submission to Ripple is not looked at (`XrpGateway.ts:315`) |
| `MCSubmission_stale` | `CompletedIsFinal` | "Check whether a transaction is finalized on blockchain network" (`EosGateway.ts:204`) | a transaction that was read in a block and forked away counts on from that block, on EOS and Cardano |
| `MCWebhooks_unread` | `EveryRowIsSent` | "No pending webhook to call. Let's wait for the next tick..." (`WebhookProcessor.ts`): each tick takes one row | the row of a deposit that `_getRefData` cannot build is not touched and is taken at every tick (lines 57, 111-129), so nothing behind it is sent |
| `MCTokens_thresholds` | `ThresholdsOrdered` | "upperThreshold must be greater than lowerThreshold" (`hd_wallet/Utils.ts:225`) | two operators at once leave the opposite (`DBUtils.ts:421`) |

Observed while modelling, without a property of their own:

* the seeder inserts its row after the broadcast, so a crash in between makes it
  seed the same address twice; a failed seed is not tried again;
* one spent output of a UTXO deposit makes the construction of its whole group
  fail (`collectorDoProcess.ts:237`); `minimumCollectAmount` is looked up by
  currency alone (`findDeposits.ts:59`);
* two first requests for a platform without a seed can each make one; the second
  overwrites the first, and its hot wallet is another (`DBUtils.ts:227`);
* most handlers answer before their transaction commits (`EthWebService.ts:36`),
  and token messages leave before it (`:89`);
* `saveThreshold` (`Utils.ts:240`) and the picker may both insert a sweep for the
  same surplus;
* a token that is added under an existing symbol takes that row over
  (`DBUtils.ts:548`); `allErc20Tokens` repeats a token that is registered again
  (`CurrencyRegistry.ts:336`); `unregisterCurrency` does not lower-case its key;
  BEP20 tokens are stored as `erc20_token` (`BscWebService.ts:84`);
* tables are read before Redis is subscribed (`prepareEnvironment.ts:39-99`), so
  a token that is added in between stays unknown to the process;
* a UTXO construction throws when the coins equal outputs plus fee
  (`BitcoinBasedGateway.ts:120`).

## Proofs

Assumptions: the named `ASSUME` of each module (sets of rows are disjoint where
they are different tables, `Withdrawal` is finite, hot wallets are accounts,
placeholders are not members, bounds are numbers; deposits and webhooks are
finite; the requests of a scenario have ids of their own; the amounts and fee
rates of `Coins` are natural numbers). The sets may otherwise be of any size and
`Fault` may be any set; theorems marked (c) need
`NoStaleReads == "stale" \notin Fault`. The runs with fairness check
`FairCollectionSpec` and the like; the theorems are about the specifications
without it, which those imply.

| module | theorem | statement |
|--------|---------|-----------|
| `WithdrawalsProofs` | `TypeCorrect` | `Spec => []TypeOK` |
| | `PayoutOnce` (c) | `Spec => []NoDoublePayout` |
| | `AmountsAreTrue` (c) | `Spec => []AmountsMatchChain` |
| | `LedgerIsTrue` (c) | `Spec => []LedgerMatchesChain`, with `~UtxoBased` |
| | `PipelineImplementsPayout` (c) | `Spec => ImplementsPayout` |
| | `HotWalletServesOne` | `Spec => []OneTxPerHotWallet` |
| | `PickedNonceStaysNext` (c) | `Spec => []StillMineable` |
| | `CopiesAgree` | `Spec => []RowsAgree` |
| | `NoticesMakeSense` | `Spec => []NoticesInOrder` |
| `SeedingProofs` | `SeedingTypeCorrect` | `SeedingSpec => []SeedingTypeOK` |
| | `OneSeedInFlight` | `SeedingSpec => []AtMostOneSeedInFlight` |
| | `PayoutOnceBesideSeeding` (c) | `SeedingSpec => []NoDoublePayout` |
| | `LedgerIsTrueBesideSeeding` (c) | `SeedingSpec => []LedgerMatchesChain`, with `~UtxoBased` |
| | `ReleasedWithCoin` (c) | `SeedingSpec => ReleasedOnlyWhenFunded` |
| `SubmissionProofs` | `SubmissionTypeCorrect` | `SubmissionSpec => []SubmissionTypeOK` |
| | `SubmissionPaysOnce` | `SubmissionSpec => []PaidOnce` |
| | `SubmissionImplementsPayout` (c) | `SubmissionSpec => ImplementsPayout` |
| `DepositsProofs` | `DepositsTypeCorrect` | `DepositsSpec => []DepositsTypeOK` |
| | `CreditedOnceWhenFinal` (c) | `DepositsSpec => ImplementsDepositBook` |
| | `NothingSlipsThrough` (c) | `DepositsSpec => []NothingMissed`, with `ProgressAssumptions` |
| `CollectionProofs` | `CollectedForGood` (c) | `CollectionSpec => []CollectedMeansMoved` |
| | `AddressesAreSolvent` | `CollectionSpec => []Solvent` |
| | `CollectionTypeCorrect` | `CollectionSpec => []CollectionTypeOK` |
| `WebhooksProofs` | `WebhooksTypeCorrect` | `WebhooksSpec => []WebhooksTypeOK` |
| | `OvertakenOnlyAfterRefusal` | `WebhooksSpec => []ReorderedOnlyAfterRefusal` |
| `TokensProofs` | `KnownWasCommitted` | `TokensSpec => []KnownTokensWereCommitted` |
| | `AddressesServedOnce` | `TokensSpec => []NoAddressServedTwice` |
| | `TokensTypeCorrect` | `TokensSpec => []TokensTypeOK` |
| `CoinsProofs` | `CoinsTypeCorrect` | `CoinsSpec => []CoinsTypeOK` |
| | `FeeIsAlwaysRight` | `CoinsSpec => []FeeIsRight` |
| | `ThrownOnlyWhenShort` | `CoinsSpec => []ThrowsOnlyWhenShort` |

**Pipeline.** `NoDoublePayout` is not inductive: it says nothing of the
transactions that can still be built. `WithdrawalsProofs` strengthens it to
`IInv`, whose parts tie the two tables together: a transaction that a withdrawal
has left behind was given up by the sender; the rows linked to a pending
transaction are the ones it pays; what the picker holds is unsigned; what the
sender holds is signed. Where no cache is stale (`NothingStale`: neither gateway
remembers anything), what was given up is reverted on the network and what is
settled has the outcome that its row states (`TxTellsTruth`). A retry is then
safe, because only a reverted transaction sends its rows back, and `reverted` is
for ever in `Chain`; with a stale cache a transaction of a disconnected block
does too, and `MCWithdrawals_double_payout` is the counterexample. The amounts
(`AmountsMatchChain`) follow from this on both kinds of platforms; that the fee
is debited once (`FeeDebitedOnce`) needs batches of one, `BatchesOfOne`, which
hold on account platforms only. The parts without the assumption carry
`CopiesAgree`, `HotWalletServesOne` and `NoticesMakeSense`. From the whole
follows the refinement, where each step of the pipeline is a `Request`, a `Pay`
(the network finalises a transaction), a `Settle`, or a stutter.

**Hot wallets.** `HotWalletInv` says that a picker that holds rows holds a hot
wallet with no pending transaction (signer, sender and verifier only ever free
hot wallets, and there is one picker), that the withdrawal rows carry the hot
wallet of their pending transaction, so that the busy check sees every one, and
that all that spends from a hot wallet in `Withdrawals` is a withdrawal
transaction. The nonce of a pending transaction then cannot be overtaken. With a
fee seeder that last part is false, which is what `MCSeeding_stale` shows.

**Notices.** `NoticesInv` relates the last event of a withdrawal to its status;
that its status moves with its transaction comes from `IInv`.

**Seeding.** `SeedIInv` adds to `IInv` what the seeder holds and what the log
says: an address with a recorded seed in flight has a logged deposit, which
excludes it. The steps of the pipeline keep the part about seeds and the steps
of the seeder the part about withdrawals, because a seed that knocks a
transaction out of the pool does not make it fail.

**Submission.** `SInv`: one row is pending, withdrawals move with it, and of two
rows that pay the same withdrawal one was given up, which happens only when its
transaction is in a ledger of Ripple without effect. That is never read from a
cache, so nobody is paid twice even when caches are stale (`SubmissionPaysOnce`). A
completion may be read from a cache, on EOS and Cardano, so the refinement, which
says that what is settled is final, assumes that none is stale; without that
`MCSubmission_stale` is a counterexample.

**Deposits.** `BookInv`: nothing is cached, a transaction is in one block, what a
tick has found is final, and the balance moves with the row. `NetworkKeepsBlocks`
and `FinalStays` carry it through reorganisations. `ProgressInv` adds that the
blocks up to `latest_block`, up to the progress in memory and below the range of
the tick are covered and do not change any more, and that within the range each
currency that was read has its confirmed deposits found and each that is done has
them recorded. `SafeBlock` is then covered when a tick ends without an error.
`ProgressAssumptions` are that no cache is stale, that the gateways list every
block (not those of Ripple and Cardano, see above), and that an operator does not
force the crawler past blocks that were not read.

**Collection.** That an address never sends what it does not have needs
`SolventInv`: a deposit points to a transaction that was built for it
(`PointsToItsTx`), and what is in `internal_transfer` is not built again
(`SendsOnce`); the three places that speak of a transfer, `deposit`,
`internal_transfer` and the network, agree (`TransfersAgree`), where a token
transfer is never called failed; what is under construction is for deposits that
still wait (`BuildsForWaiting`), and the queue is an order (`InOrder`, from which
the picked group has a first row). Then every transfer of a token in a block moved
deposits that no other recorded one moved (`MovedOnce`), and counting both sides
gives the balance, less what transactions took whose commit was lost
(`BooksBalance`, `Unrecorded`). None of this depends on the caches: a stale answer
settles a row early, and does not make the collector build for its deposits
again. That what is called collected has its confirmations does depend on them:
`DeepInv`, for `CollectedForGood`; what is deep stays so (`DeepStays`).

**Webhooks.** Whether an event may be overtaken depends on the whole history of
its queue. `DeliveryInv`: the queue holds only what happened, in the order in
which it happened save for refused rows (`QueueInOrder`), what is being sent is
its head (`SendsFirst`), and a row is closed only when the client has heard it
or its call was refused before (`ClosedIsHeard`). An update that fails leaves
the row where it was, so the order survives it.

**Tokens.** `KnownInv`: what a process has read, knows or lists was in the table
at some time, whatever the messages say. The addresses need `ServiceInv`, about
all requests at once: the index of every derived address is below the count of
the rows that were there when it was derived, so that the count of today is
above every index in the table (`DbInv`); what a transaction will write follows
from its request and some earlier table, and the tables only grow where addresses
are concerned (`TxInv`); a request that has inserted but not committed holds the
keys (`LockInv`); what was answered and committed is in the table (`DoneInv`).
Two requests with the same snapshot derive the same addresses, and the second is
refused by the primary key.

**Coins.** The constructions compute with sums, which the modules write as folds.
The induction theorems of the library cannot be instantiated with a property of
one's own, so the lemmas take the smallest counterexample instead: the strict
subsets of a finite set are well-founded (`MinimalMember`), a fold of a sum is
unfolded at one member (`SumUnfolds`), and does not depend on which (`SumRemoves`).
From there `Total` of a concatenation is the sum of the totals. `FeeIsRight`
follows construction by construction; `ThrowsOnlyWhenShort` needs `Shortage`,
that what could not be built asked for at least all the coins together with the
fee for spending them all, and `AllCoinsPayMost`, that where each coin is worth more
than its input no choice of coins leaves more than all of them do.

Every invariant and step property that a passing run checks is stated by a
theorem. Only model-checked: liveness (`EveryWithdrawalSettles`,
`EveryDepositIsRecorded`, `EveryDepositIsCollected`, `EveryNoticeIsDelivered`,
`SettledUnlessLost`), which is out of the prover's reach, and the violations.

To run: `tlc -config MCWithdrawals_account.cfg MCWithdrawals` and so on for each
configuration (`MCTokens.cfg` with `MCTokens`); `tlapm WithdrawalsProofs.tla` and
the other proof modules.

## Not modelled

* Alerts and balance checks, mails: computed from tables, no state that another
  part reads. Encryption of keys, HTTP routing, key derivation: no protocol state.
* The Omni layer of BTC: its gateway has only an estimate of its own for the fee.
* The single-flight flags of `EthGateway` (line 335), which are not removed when a
  request throws: the requests that wait for ever end with the five-minute
  timeout of the worker, which is a crash in the models.
* The amounts of the picker's threshold check: a sweep is a row that may appear
  when there is nothing to pick. The fee that is debited for an internal
  transfer.
* Reserves, fees and transaction formats of Ripple, EOS and Cardano; fees of the
  account platforms.
* The timer of `BaseIntervalWorker` itself; it is represented by fairness.
