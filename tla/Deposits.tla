------------------------------- MODULE Deposits -------------------------------
(***************************************************************************)
(* The crawler of one platform: it reads the blocks behind the head of the *)
(* chain again and again until they have enough confirmations, and inserts *)
(* the deposits it finds.                                                  *)
(*                                                                         *)
(* A tick handles the currencies of the platform concurrently: each has a  *)
(* gateway of its own, which lists the transactions of the range, and a    *)
(* database transaction of its own.  The tick advances only when all of    *)
(* them succeeded; a process that dies resumes from the latest_block row.  *)
(*                                                                         *)
(* An Output is a transfer of one currency to one watched address by one   *)
(* transaction: the key (currency, txid, to_address) of the deposit table. *)
(* Fault: "reorg" disconnects blocks with too few confirmations, "node" is *)
(* a request that fails, "crash" the death of the process, "stale" a       *)
(* gateway cache that survives a reorganisation.                           *)
(***************************************************************************)
EXTENDS Naturals, Sequences, FiniteSets

CONSTANTS
  Tx, Output, Currency,
  txOf, currencyOf,       \* of each output
  OwnTx,                  \* transactions that the wallet sent
  FailedTx,               \* transactions whose execution failed
  ExternalOutput,         \* to addresses whose keys the wallet does not hold
  Listing,                \* how the gateway of each currency lists a block
  RequiredConfirmations,
  ForceCrawlBlock,        \* values an operator gives FORCE_CRAWL_BLOCK
  MaxHeight,              \* bound: height of the chain
  Unread,                 \* a block that is not in the cache
  Fault

ASSUME DepositsAssumption ==
  /\ OwnTx \cup FailedTx \subseteq Tx
  /\ txOf \in [Output -> Tx]
  /\ currencyOf \in [Output -> Currency]
  /\ RequiredConfirmations \in Nat \ {0}
  /\ ForceCrawlBlock \subseteq Nat
  /\ MaxHeight \in Nat /\ MaxHeight > RequiredConfirmations

VARIABLES
  chain,        \* the best chain: the transactions of each block
  blockCache,   \* per gateway: the blocks it remembers, by number
  txCache,      \* per gateway: the height of the transactions it remembers
  latestBlock,  \* latest_block row (0: none)
  processed,    \* LATEST_PROCESSED_BLOCK of the process (0: none)
  crawler,      \* local state of a tick
  rows,         \* deposit table
  credited,     \* times wallet_balance was increased
  since         \* history: the height at which latest_block was created

networkVars == <<chain>>
gatewayVars == <<blockCache, txCache>>
progressVars == <<latestBlock, processed, since>>
bookVars == <<rows, credited>>
vars == <<networkVars, gatewayVars, progressVars, crawler, bookVars>>

Height == 1 .. MaxHeight
Empty == [height \in Height |-> Unread]
Idle == [from |-> 1, to |-> 0, head |-> 0, todo |-> {}, read |-> {}, found |-> {}, failed |-> FALSE]

DepositsTypeOK ==
  /\ chain \in Seq(SUBSET Tx)
  /\ blockCache \in [Currency -> [Height -> {Unread} \cup SUBSET Tx]]
  /\ txCache \in [Currency -> [Tx -> Nat]]
  /\ {latestBlock, processed, since} \subseteq Nat
  /\ crawler \in [from : Nat, to : Nat, head : Nat, todo : SUBSET Currency,
                  read : SUBSET Currency, found : SUBSET Output, failed : BOOLEAN]
  /\ rows \subseteq Output
  /\ credited \in [Output -> Nat]

\* The chain is long before the wallet is installed.
DepositsInit ==
  /\ chain = [height \in 1 .. RequiredConfirmations + 1 |-> {}]
  /\ blockCache = [c \in Currency |-> Empty]
  /\ txCache = [c \in Currency |-> [x \in Tx |-> 0]]
  /\ latestBlock = 0 /\ processed = 0 /\ since = 0
  /\ crawler = Idle
  /\ rows = {}
  /\ credited = [o \in Output |-> 0]

-----------------------------------------------------------------------------
\* The network

Min2(a, b) == IF a < b THEN a ELSE b
HeightIn(blocks, x) == IF \E i \in DOMAIN blocks : x \in blocks[i]
                         THEN CHOOSE i \in DOMAIN blocks : x \in blocks[i] ELSE 0
Confirmations(height) == Len(chain) - height + 1
Mined == UNION {chain[i] : i \in DOMAIN chain}

NewBlock ==
  /\ Len(chain) < MaxHeight
  /\ \E txs \in SUBSET (Tx \ Mined) : chain' = Append(chain, txs)
  /\ UNCHANGED <<gatewayVars, progressVars, crawler, bookVars>>

\* Blocks without enough confirmations give way to as many others.
Reorganise(first, blocks) ==
  /\ "reorg" \in Fault
  /\ \A i, j \in DOMAIN blocks : i # j => blocks[i] \cap blocks[j] = {}
  /\ \A i \in DOMAIN blocks, j \in 1 .. first - 1 : blocks[i] \cap chain[j] = {}
  /\ chain' = [i \in DOMAIN chain |-> IF i \in DOMAIN blocks THEN blocks[i] ELSE chain[i]]
  /\ UNCHANGED <<gatewayVars, progressVars, crawler, bookVars>>

Network ==
  \/ NewBlock
  \/ \E first \in {i \in DOMAIN chain : Confirmations(i) < RequiredConfirmations} :
       \E blocks \in [first .. Len(chain) -> SUBSET Tx] : Reorganise(first, blocks)

-----------------------------------------------------------------------------
\* The gateways

\* The gateways of the bitcoin family list the transactions of a height anew.
listByHeight(number) == chain[number]

\* BaseGateway.getOneBlock answers from a cache that is keyed by number.
\* live: the entries that are not yet five minutes old.
getOneBlock(c, number, live) ==
  IF number \in live THEN blockCache[c][number] ELSE chain[number]

getBlockTransactions(c, number, live) ==
  IF Listing[c] = "cached" THEN getOneBlock(c, number, live) ELSE listByHeight(number)

\* The block that getOneTransaction counts confirmations from; 0 when no node
\* knows one.
BlockNumberOf(c, x) == IF txCache[c][x] # 0 THEN txCache[c][x] ELSE HeightIn(chain, x)

\* XrpGateway asks for the transactions of an account in the whole range, and
\* takes missing history for no transactions.
SkippedLedgers == {{}, crawler.from .. crawler.to}

\* CardanoGateway passes over a block whose hash it is not told.
SkippedSlots == SUBSET (crawler.from .. crawler.to)

Skipped(c) ==
  CASE Listing[c] = "account" /\ "node" \in Fault -> SkippedLedgers
    [] Listing[c] = "slot" /\ "node" \in Fault -> SkippedSlots
    [] OTHER -> {{}}

\* What is remembered matters only when it can outlive a block.
Cache(c, listed, numbers, live) ==
  IF "stale" \in Fault
    THEN /\ txCache' = [txCache EXCEPT ![c] =
                          [x \in Tx |-> IF x \in listed THEN BlockNumberOf(c, x) ELSE @[x]]]
         /\ blockCache' = [blockCache EXCEPT ![c] =
                             [i \in Height |-> IF i \in numbers THEN getBlockTransactions(c, i, live) ELSE @[i]]]
    ELSE UNCHANGED gatewayVars

-----------------------------------------------------------------------------
\* The crawler

\* In memory, from the environment, or from the table, whose row is created
\* when it does not exist.  FORCE_CRAWL_BLOCK is used on an existing row.
ResumeFrom ==
  CASE processed # 0   -> {processed}
    [] latestBlock # 0 -> ForceCrawlBlock \cup {latestBlock}
    [] OTHER           -> {Len(chain)}

CrawlerStart ==
  /\ crawler = Idle
  /\ \E start \in ResumeFrom :
       /\ latestBlock' = IF latestBlock = 0 THEN start ELSE latestBlock
       /\ since' = IF latestBlock = 0 THEN start ELSE since
       /\ crawler' = IF start < Len(chain)
                       THEN [from |-> start + 1,
                             to |-> Min2(start + RequiredConfirmations + 1, Len(chain)),
                             head |-> Len(chain), todo |-> Currency,
                             read |-> {}, found |-> {}, failed |-> FALSE]
                       ELSE Idle
  /\ UNCHANGED <<networkVars, gatewayVars, processed, bookVars>>

\* processOneDepositTransaction: "If transaction is not confirmed, also do nothing".
Confirmed(height) == Confirmations(height) >= RequiredConfirmations

\* The sender is an address of the wallet, a hot wallet, or in internal_transfer.
isInternalTransfer(x) == x \in OwnTx
Creditable(x) == ~isInternalTransfer(x) /\ x \notin FailedTx

\* getMultiBlocksTransactions, and the filters of onCrawlingTxs.
CrawlerRead(c) ==
  /\ c \in crawler.todo \ crawler.read
  /\ \E live \in SUBSET {i \in crawler.from .. crawler.to : blockCache[c][i] # Unread},
        skipped \in Skipped(c) :
       LET numbers == (crawler.from .. crawler.to) \ skipped
           listed == UNION {getBlockTransactions(c, i, live) : i \in numbers}
           deposits == {o \in Output : /\ currencyOf[o] = c
                                       /\ txOf[o] \in listed
                                       /\ Creditable(txOf[o])
                                       /\ Confirmed(BlockNumberOf(c, txOf[o]))} IN
       /\ \A x \in listed : BlockNumberOf(c, x) # 0
       /\ Cache(c, listed, numbers, live)
       /\ crawler' = [crawler EXCEPT !.read = @ \cup {c}, !.found = @ \cup deposits]
  /\ UNCHANGED <<networkVars, progressVars, bookVars>>

\* Mutant of NewDeposits: the row is not looked for.
NewDeposits_all(found) == found

\* insertDeposit: "Deposit was recorded already".
NewDeposits(found) == found \ rows

\* The database transaction of one currency commits.
onCrawlingTxs(c) ==
  /\ c \in crawler.todo \cap crawler.read
  /\ LET fresh == NewDeposits({o \in crawler.found : currencyOf[o] = c}) IN
     /\ rows' = rows \cup fresh
     /\ credited' = [o \in Output |-> IF o \in fresh \ ExternalOutput THEN credited[o] + 1
                                      ELSE credited[o]]
  /\ crawler' = [crawler EXCEPT !.todo = @ \ {c}, !.found = {o \in @ : currencyOf[o] # c}]
  /\ UNCHANGED <<networkVars, gatewayVars, progressVars>>

\* A request or a statement fails: the others go on, and the tick throws.
CrawlerFail(c) ==
  /\ c \in crawler.todo
  /\ {"node", "stale"} \cap Fault # {}
  /\ crawler' = [crawler EXCEPT !.todo = @ \ {c}, !.failed = TRUE,
                                !.found = {o \in @ : currencyOf[o] # c}]
  /\ UNCHANGED <<networkVars, gatewayVars, progressVars, bookVars>>

\* Mutants of SafeBlock: the whole range counts as done; the confirmations
\* are subtracted twice.
SafeBlock_to == crawler.to
SafeBlock_twice == crawler.head - 2 * RequiredConfirmations

\* "Safe block number is the highest crawled block that has enough confirmations"
SafeBlock == Min2(crawler.head - RequiredConfirmations, crawler.to)

\* Mutant of AllSucceeded: the error of one currency is not raised.
AllSucceeded_any == crawler.todo = {}
AllSucceeded == crawler.todo = {} /\ ~crawler.failed

\* onBlockCrawled, when the node has the block, and the progress in memory
CrawlerFinish ==
  /\ crawler # Idle
  /\ AllSucceeded
  /\ \E answered \in {TRUE} \cup (IF "node" \in Fault THEN {FALSE} ELSE {}) :
       latestBlock' = IF answered THEN SafeBlock ELSE latestBlock
  /\ processed' = SafeBlock
  /\ crawler' = Idle
  /\ UNCHANGED <<networkVars, gatewayVars, since, bookVars>>

CrawlerThrow ==
  /\ crawler # Idle
  /\ crawler.todo = {}
  /\ crawler.failed \/ "node" \in Fault
  /\ crawler' = Idle
  /\ UNCHANGED <<networkVars, gatewayVars, progressVars, bookVars>>

CrawlerCrash ==
  /\ "crash" \in Fault
  /\ processed # 0 \/ crawler # Idle
  /\ crawler' = Idle
  /\ processed' = 0
  /\ blockCache' = [c \in Currency |-> Empty]
  /\ txCache' = [c \in Currency |-> [x \in Tx |-> 0]]
  /\ UNCHANGED <<networkVars, latestBlock, since, bookVars>>

Crawler ==
  \/ CrawlerStart \/ CrawlerFinish \/ CrawlerThrow
  \/ \E c \in Currency : CrawlerRead(c) \/ onCrawlingTxs(c) \/ CrawlerFail(c)

DepositsNext == Crawler \/ CrawlerCrash \/ Network

DepositsSpec == DepositsInit /\ [][DepositsNext]_vars

\* The crawler ticks for ever.  A tick needs all its currencies to succeed, and
\* a process that dies may begin again at FORCE_CRAWL_BLOCK: failures end.
DepositsFairness ==
  /\ WF_vars(Crawler) /\ SF_vars(CrawlerFinish)
  /\ <>[][~CrawlerCrash /\ \A c \in Currency : ~CrawlerFail(c)]_vars

FairDepositsSpec == DepositsSpec /\ DepositsFairness

-----------------------------------------------------------------------------
HeightOf(o) == HeightIn(chain, txOf[o])
Final(o) == HeightOf(o) # 0 /\ Confirmations(HeightOf(o)) >= RequiredConfirmations /\ Creditable(txOf[o])

\* No deposit slips through: every block that latest_block or the memory of
\* the process has passed had all its deposits recorded, whichever currency
\* failed, whenever the process died and whatever was reorganised on the way
\* (the arithmetic of safeBlockNumber in BaseCrawler.doProcess).
NothingMissed ==
  \A o \in Output :
    /\ since < HeightOf(o)
    /\ HeightOf(o) <= latestBlock \/ HeightOf(o) <= processed
    /\ Creditable(txOf[o])
    => o \in rows

\* Deposits that the network confirmed after the wallet was installed.
Due == {o \in Output : since # 0 /\ since < HeightOf(o) /\ Final(o)}

\* Each of them is recorded in the end.
EveryDepositIsRecorded == \A o \in Output : o \in Due ~> o \in rows

Book ==
  INSTANCE DepositBook WITH confirmed <- {o \in Output \ ExternalOutput : Final(o)}

\* Money is credited only when it is confirmed for good, and once.
ImplementsDepositBook == Book!Spec

-----------------------------------------------------------------------------
\* What a comment of the code says and the code does not do

\* processOneDepositTransaction.ts: "If transaction is not confirmed, also do
\* nothing".
CreditedIsConfirmed == \A o \in Output : credited[o] > 0 => Final(o)
=============================================================================
