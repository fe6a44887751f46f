------------------------------ MODULE Collection ------------------------------
(***************************************************************************)
(* The collector of one platform moves deposits from the addresses of the  *)
(* users to a hot wallet: it takes the deposits that were touched longest  *)
(* ago, builds one transaction for a group of them, broadcasts it inside   *)
(* its database transaction and marks them at the end.  The verifier       *)
(* settles what was sent when no withdrawal waits for it.  A token can     *)
(* only be moved with native coin at its address: the collector asks the   *)
(* fee seeder for it.                                                      *)
(*                                                                         *)
(* A deposit is one unit of its currency: "native" and "token" on an       *)
(* account platform, "utxo" on one of the bitcoin family.  A unit of       *)
(* native coin is a seed: it pays the fee of one token transfer; native    *)
(* deposits pay the fee of their own transfer out of what is moved.  One   *)
(* wallet, with a hot wallet that is never missing.                        *)
(* Fault: "crash" the tick dies, "node" a request fails, "drop" the        *)
(* network forgets a transaction, "replace" a rival takes its place,       *)
(* "reorg" a block is disconnected, "revert" a transfer fails, "lost" an   *)
(* update that is not awaited, "stale" the verifier's gateway answers from *)
(* a block that was disconnected.                                          *)
(***************************************************************************)
EXTENDS Naturals, FiniteSets

CONSTANTS
  Deposit, Address,
  toAddress, currencyOf,  \* of each deposit
  minimumCollectAmount,   \* of each currency that has one, in units
  NoMinimum,
  TxCount,                \* bound: number of collect transactions
  RevertCount,            \* bound: number of reverted transactions
  NoTx,
  Fault

Currency == {"native", "token", "utxo"}
CollectTx == 1 .. TxCount

ASSUME CollectionAssumption ==
  /\ IsFiniteSet(Deposit)
  /\ toAddress \in [Deposit -> Address]
  /\ currencyOf \in [Deposit -> Currency]
  /\ minimumCollectAmount \in [Currency -> Nat \cup {NoMinimum}]
  /\ {TxCount, RevertCount} \subseteq Nat
  /\ NoTx \notin CollectTx

VARIABLES
  platform,       \* which family of platforms the process serves
  collectStatus,  \* deposit: collect_status
  collectedTxid,  \* deposit: collected_txid
  older,          \* deposit: the order by updated_at, as pairs of rows
  transfer,       \* internal_transfer: status of each collect transaction
  claims,         \* the deposits that a built transaction is made for
  nonce,          \* its nonce
  net,            \* where it stands: "mined" and "reverted" in a block
  deep,           \* the ones with enough confirmations
  coin,           \* native coin that an address holds
  cached,         \* what the verifier's gateway remembers: "fresh", or the answer of a block that is gone
  seedLog,        \* deposit_log: the deposits that a seed was sent for
  seedSent,       \* addresses whose seed transfer is not verified
  collector       \* local state of the collector

rowVars == <<collectStatus, collectedTxid, older>>
chainVars == <<claims, nonce, net, deep, coin, cached>>
seedVars == <<seedLog, seedSent>>
vars == <<platform, rowVars, transfer, chainVars, seedVars, collector>>

Idle == [tx |-> NoTx, sent |-> FALSE]

Arrived == {d \in Deposit : collectStatus[d] # "none"}

IsStrictlyTotal(order) ==
  /\ \A d \in Arrived : <<d, d>> \notin order
  /\ \A d, e \in Arrived : d # e => <<d, e>> \in order \/ <<e, d>> \in order
  /\ \A d, e, f \in Arrived : <<d, e>> \in order /\ <<e, f>> \in order => <<d, f>> \in order

CollectionTypeOK ==
  /\ platform \in {"account", "utxo"}
  /\ collectStatus \in [Deposit -> {"none", "uncollected", "seed_requested", "collecting", "collected"}]
  /\ collectedTxid \in [Deposit -> CollectTx \cup {NoTx}]
  /\ older \subseteq Arrived \X Arrived /\ IsStrictlyTotal(older)
  /\ transfer \in [CollectTx -> {"none", "sent", "completed", "failed"}]
  /\ claims \in [CollectTx -> SUBSET Deposit]
  /\ nonce \in [CollectTx -> Nat]
  /\ net \in [CollectTx -> {"absent", "pool", "mined", "reverted"}]
  /\ deep \subseteq {x \in CollectTx : net[x] \in {"mined", "reverted"}}
  /\ coin \in [Address -> Nat]
  /\ cached \in [CollectTx -> {"no", "fresh", "completed", "failed"}]
  /\ seedLog \subseteq Deposit
  /\ seedSent \subseteq Address
  /\ collector \in [tx : CollectTx \cup {NoTx}, sent : BOOLEAN]

CollectionInit ==
  /\ platform \in {"account", "utxo"}
  /\ collectStatus = [d \in Deposit |-> "none"]
  /\ collectedTxid = [d \in Deposit |-> NoTx]
  /\ older = {}
  /\ transfer = [x \in CollectTx |-> "none"]
  /\ claims = [x \in CollectTx |-> {}]
  /\ nonce = [x \in CollectTx |-> 0]
  /\ net = [x \in CollectTx |-> "absent"]
  /\ deep = {}
  /\ coin = [a \in Address |-> 0]
  /\ cached = [x \in CollectTx |-> "no"]
  /\ seedLog = {} /\ seedSent = {}
  /\ collector = Idle

-----------------------------------------------------------------------------
\* The network

At(a, c) == {d \in Arrived : toAddress[d] = a /\ currencyOf[d] = c}
Sender(x) == {toAddress[d] : d \in claims[x]}
TxFrom(a) == {x \in CollectTx : a \in Sender(x)}
InBlock(x) == net[x] \in {"mined", "reverted"}
Landed == {x \in CollectTx : net[x] = "mined"}
IsToken(x) == \E d \in claims[x] : currencyOf[d] = "token"

\* getAddressBalance of a token, and the unspent outputs
Held(a, c) ==
  Cardinality(At(a, c)) - Cardinality({p \in Landed \X At(a, c) : p[2] \in claims[p[1]]})

\* getTransactionCount: the latest block, without the pool
NextNonce(a) == Cardinality({x \in TxFrom(a) : InBlock(x)})

\* getOneTxVouts names the transaction that spent an output.
Spent(d) == \E x \in CollectTx : d \in claims[x] /\ net[x] \in {"pool", "mined"}

Rival(x) ==
  {y \in CollectTx \ {x} : net[y] = "pool" /\ Sender(y) \cap Sender(x) # {} /\ nonce[y] = nonce[x]}

\* A node takes x: its nonce, or its outputs, are not spent.
Accepts(x) ==
  \/ net[x] = "pool"
  \/ /\ net[x] = "absent"
     /\ IF platform = "utxo" THEN \A d \in claims[x] : ~Spent(d)
        ELSE /\ \A a \in Sender(x) : nonce[x] >= NextNonce(a)
             /\ Rival(x) = {} \/ "replace" \in Fault

sendRawTransaction(x) ==
  /\ Accepts(x)
  /\ net' = [y \in CollectTx |-> IF y = x THEN "pool"
                                 ELSE IF platform = "account" /\ y \in Rival(x) THEN "absent" ELSE net[y]]
  /\ UNCHANGED <<claims, nonce, deep, coin, cached>>

\* What x takes from its address: a native transfer that fails, its fee.
Cost(x, outcome) ==
  IF platform = "utxo" THEN 0
  ELSE IF IsToken(x) \/ outcome = "reverted" THEN 1 ELSE Cardinality(claims[x])

Mine(x, outcome) ==
  /\ net[x] = "pool"
  /\ platform = "account" => \A a \in Sender(x) :
       /\ nonce[x] = NextNonce(a)
       /\ coin[a] >= Cost(x, "mined")
       /\ outcome = "mined" /\ IsToken(x) => Held(a, "token") >= Cardinality(claims[x])
  /\ outcome = "reverted" =>
       /\ "revert" \in Fault /\ platform = "account"
       /\ Cardinality({y \in CollectTx : net[y] = "reverted"}) < RevertCount
  /\ net' = [net EXCEPT ![x] = outcome]
  /\ coin' = [a \in Address |-> IF a \in Sender(x) THEN coin[a] - Cost(x, outcome) ELSE coin[a]]
  /\ UNCHANGED <<platform, rowVars, transfer, claims, nonce, deep, cached, seedVars, collector>>

Deepen(x) ==
  /\ InBlock(x) /\ x \notin deep
  /\ deep' = deep \cup {x}
  /\ UNCHANGED <<platform, rowVars, transfer, claims, nonce, net, coin, cached, seedVars, collector>>

\* The last transaction of its address goes back to the pool.
Reorg(x) ==
  /\ "reorg" \in Fault
  /\ InBlock(x) /\ x \notin deep
  /\ platform = "account" => \A a \in Sender(x) : nonce[x] + 1 = NextNonce(a)
  /\ net' = [net EXCEPT ![x] = "pool"]
  /\ coin' = [a \in Address |-> IF a \in Sender(x) THEN coin[a] + Cost(x, net[x]) ELSE coin[a]]
  /\ cached' = IF cached[x] = "fresh"
                 THEN [cached EXCEPT ![x] = IF net[x] = "mined" THEN "completed" ELSE "failed"]
               ELSE cached
  /\ UNCHANGED <<platform, rowVars, transfer, claims, nonce, deep, seedVars, collector>>

Drop(x) ==
  /\ "drop" \in Fault
  /\ net[x] = "pool"
  /\ net' = [net EXCEPT ![x] = "absent"]
  /\ UNCHANGED <<platform, rowVars, transfer, claims, nonce, deep, coin, cached, seedVars, collector>>

Network ==
  \E x \in CollectTx : Mine(x, "mined") \/ Mine(x, "reverted") \/ Deepen(x) \/ Reorg(x) \/ Drop(x)

\* The crawler inserts a deposit.
insertDeposit(d) ==
  /\ collectStatus[d] = "none"
  /\ (currencyOf[d] = "utxo") = (platform = "utxo")
  /\ collectStatus' = [collectStatus EXCEPT ![d] = "uncollected"]
  /\ older' = older \cup (Arrived \X {d})
  /\ coin' = IF currencyOf[d] = "native" THEN [coin EXCEPT ![toAddress[d]] = @ + 1] ELSE coin
  /\ UNCHANGED <<platform, collectedTxid, transfer, claims, nonce, net, deep, cached, seedVars, collector>>

-----------------------------------------------------------------------------
\* Choosing deposits

Collectable == {"uncollected"}

\* The rows older than one minute that can be collected: d is the youngest that
\* is so old.
Ripe(d) == {e \in Arrived : (e = d \/ <<e, d>> \in older) /\ collectStatus[e] \in Collectable}
AllRipe == {e \in Arrived : collectStatus[e] \in Collectable}

\* The rows are read in the order of updated_at.
First(rows) == CHOOSE d \in rows : \A e \in rows \ {d} : <<d, e>> \in older

\* findOneGroupOfCollectableDeposits: with the first row go the others of its
\* currency, on an account platform only those of its address.
GroupOf(rows) ==
  {d \in rows :
     /\ currencyOf[d] = currencyOf[First(rows)]
     /\ platform = "account" => toAddress[d] = toAddress[First(rows)]}

\* Mutant of Touch: the rows of one update are left without an order.
Touch_tied(group) ==
  older' = {p \in older : p[1] \notin group /\ p[2] \notin group} \cup ((Arrived \ group) \X group)

\* updateRecordsTimestamp: the rows of the group become the youngest.
Touch(group) ==
  older' = {p \in older : (p[1] \in group) = (p[2] \in group)} \cup ((Arrived \ group) \X group)

\* Mutant of TouchUnawaited: the row keeps its place.
TouchUnawaited_never(group) == UNCHANGED older

\* The same, when the promise is not awaited.
TouchUnawaited(group) == Touch(group) \/ ("lost" \in Fault /\ UNCHANGED older)

\* The balance is so high that the deposit "is pending": it reaches the minimum of
\* the platform's own currency, or three seeds where there is none.
PendingCoin == IF minimumCollectAmount["native"] = NoMinimum THEN 3 ELSE minimumCollectAmount["native"]
Pending(d) == currencyOf[d] = "token" /\ coin[toAddress[d]] >= PendingCoin

\* The gateway builds the transaction; "multiple tx seeding is not supported".
Constructible(group) ==
  IF platform = "utxo" THEN \A d \in group : ~Spent(d)
  ELSE \A d \in group :
         /\ currencyOf[d] = "native" => coin[toAddress[d]] >= Cardinality(group)
         /\ currencyOf[d] = "token" =>
              group = {d} /\ Held(toAddress[d], "token") > 0 /\ coin[toAddress[d]] > 0

-----------------------------------------------------------------------------
\* The collector

\* Each action below is one way a tick goes on, once it has read its rows.
CollectorReads(rows) == collector = Idle /\ rows # {}
Enough(group) ==
  \A d \in group : LET minimum == minimumCollectAmount[currencyOf[d]] IN
    minimum = NoMinimum \/ Cardinality(group) >= minimum

CollectorSkips(rows) ==
  LET group == GroupOf(rows) IN
  /\ CollectorReads(rows)
  /\ \/ ~Enough(group)
     \/ Cardinality(group) = 1 /\ \E d \in group : Pending(d)
  /\ TouchUnawaited(group)
  /\ UNCHANGED <<platform, collectStatus, collectedTxid, transfer, chainVars, seedVars, collector>>

\* "Cannot create raw transaction, may need fee seeder"
CollectorCannotConstruct(rows) ==
  LET group == GroupOf(rows)
      token == currencyOf[First(rows)] = "token" IN
  /\ CollectorReads(rows)
  /\ Enough(group)
  /\ ~(Cardinality(group) = 1 /\ Pending(First(rows)))
  /\ ~Constructible(group) \/ "node" \in Fault
  /\ Touch(group)
  /\ collectStatus' = IF token THEN [collectStatus EXCEPT ![First(rows)] = "seed_requested"]
                      ELSE collectStatus
  /\ UNCHANGED <<platform, collectedTxid, transfer, chainVars, seedVars, collector>>

\* What was built before and is still in a pool is built again as it was.
TxFor(group, n) ==
  LET unused == {x \in CollectTx : net[x] = "absent" /\ transfer[x] = "none"} IN
  {x \in unused : \A y \in unused : x <= y}
    \cup {x \in CollectTx : net[x] = "pool" /\ transfer[x] = "none" /\ claims[x] = group /\ nonce[x] = n}

CollectorConstruct(rows) ==
  LET group == GroupOf(rows)
      n == IF platform = "utxo" THEN 0 ELSE NextNonce(toAddress[First(rows)]) IN
  /\ CollectorReads(rows)
  /\ Enough(group)
  /\ ~(Cardinality(group) = 1 /\ Pending(First(rows)))
  /\ Constructible(group)
  /\ \E x \in TxFor(group, n) :
       /\ claims' = [claims EXCEPT ![x] = group]
       /\ nonce' = [nonce EXCEPT ![x] = n]
       /\ collector' = [tx |-> x, sent |-> FALSE]
  /\ UNCHANGED <<platform, rowVars, transfer, net, deep, coin, cached, seedVars>>

CollectorSend ==
  /\ collector # Idle /\ ~collector.sent
  /\ sendRawTransaction(collector.tx)
  /\ collector' = [collector EXCEPT !.sent = TRUE]
  /\ UNCHANGED <<platform, rowVars, transfer, seedVars>>

\* The node refuses: the update to notcollect is made and, with the error that
\* is thrown again, rolled back.
CollectorThrow ==
  /\ collector # Idle /\ ~collector.sent
  /\ ~Accepts(collector.tx) \/ "node" \in Fault
  /\ collector' = Idle
  /\ UNCHANGED <<platform, rowVars, transfer, chainVars, seedVars>>

\* Mutant of Marked: only the first deposit of the group is marked.
Marked_one(x) == {CHOOSE d \in claims[x] : TRUE}
Marked(x) == claims[x]

\* The internal_transfer row, the deposits, and the commit
CollectorCommit ==
  /\ collector.sent
  /\ LET x == collector.tx IN
     /\ transfer' = [transfer EXCEPT ![x] = "sent"]
     /\ collectStatus' = [d \in Deposit |-> IF d \in Marked(x) THEN "collecting" ELSE collectStatus[d]]
     /\ collectedTxid' = [d \in Deposit |-> IF d \in Marked(x) THEN x ELSE collectedTxid[d]]
     /\ Touch(Marked(x))
  /\ collector' = Idle
  /\ UNCHANGED <<platform, chainVars, seedVars>>

\* The process dies, or the commit is lost.
CollectorCrash ==
  /\ "crash" \in Fault
  /\ collector # Idle
  /\ collector' = Idle
  /\ UNCHANGED <<platform, rowVars, transfer, chainVars, seedVars>>

CollectorTick(rows) ==
  CollectorSkips(rows) \/ CollectorCannotConstruct(rows) \/ CollectorConstruct(rows)
Collector ==
  \/ \E d \in Arrived : CollectorTick(Ripe(d))
  \/ CollectorSend \/ CollectorThrow \/ CollectorCommit

-----------------------------------------------------------------------------
\* The fee seeder and the verifier

Requested == {d \in Deposit : collectStatus[d] = "seed_requested"}

\* feeSeederDoProcess: no address with a requested deposit that has a seed log
SeedCandidates == {d \in Requested : \A e \in Requested \cap seedLog : toAddress[e] # toAddress[d]}

Seeder(d) ==
  /\ d \in SeedCandidates
  /\ seedLog' = seedLog \cup {d}
  /\ seedSent' = seedSent \cup {toAddress[d]}
  /\ coin' = [coin EXCEPT ![toAddress[d]] = @ + 1]
  /\ UNCHANGED <<platform, rowVars, transfer, claims, nonce, net, deep, cached, collector>>

verifySeed(a) ==
  LET released == {d \in Requested : toAddress[d] = a} IN
  /\ a \in seedSent
  /\ seedSent' = seedSent \ {a}
  /\ collectStatus' = [d \in Deposit |-> IF d \in released THEN "uncollected" ELSE collectStatus[d]]
  /\ Touch(released)
  /\ UNCHANGED <<platform, collectedTxid, transfer, chainVars, seedLog, collector>>

\* Mutant of NetworkStatus: one confirmation is enough.
NetworkStatus_oneConfirmation(x) ==
  CASE ~InBlock(x) -> "unknown"
    [] net[x] = "mined" -> "completed"
    [] net[x] = "reverted" -> "failed"

NetworkStatus(x) ==
  CASE ~InBlock(x) -> "unknown"
    [] InBlock(x) /\ x \notin deep -> "confirming"
    [] x \in deep /\ net[x] = "mined" -> "completed"
    [] x \in deep /\ net[x] = "reverted" -> "failed"

\* BaseGateway.getOneTransaction looks into its cache first: an entry of a block
\* that is gone counts its confirmations on, until it is forgotten.
getTransactionStatus(x) ==
  {NetworkStatus(x)} \cup IF cached[x] \in {"completed", "failed"} THEN {"confirming", cached[x]} ELSE {}

\* Wait until new tx state.  What was read in a block is cached; without "stale"
\* no entry is left when the block is disconnected.
VerifierWaits(x) ==
  /\ transfer[x] = "sent"
  /\ NetworkStatus(x) = "confirming"
  /\ cached' = IF "stale" \in Fault /\ cached[x] = "no" THEN [cached EXCEPT ![x] = "fresh"] ELSE cached
  /\ UNCHANGED <<platform, rowVars, transfer, claims, nonce, net, deep, coin, seedVars, collector>>

\* A token transfer that failed has no log, and so no transaction to ask for its
\* fee: the tick throws.
NoFeeToRead(x, status) == status = "failed" /\ IsToken(x)

CollectOutcome(status) == IF status = "failed" THEN "uncollected" ELSE "collected"

\* updateInternalTransfer and updateDepositCollectStatus, by collected_txid
verifyCollect(x) ==
  /\ transfer[x] = "sent"
  /\ \E status \in {"completed", "failed"} \cap getTransactionStatus(x) :
       /\ ~NoFeeToRead(x, status)
       /\ transfer' = [transfer EXCEPT ![x] = status]
       /\ collectStatus' = [d \in Deposit |-> IF collectedTxid[d] = x THEN CollectOutcome(status)
                                              ELSE collectStatus[d]]
  /\ UNCHANGED <<platform, collectedTxid, older, chainVars, seedVars, collector>>

-----------------------------------------------------------------------------
CollectionNext ==
  \/ \E d \in Deposit : insertDeposit(d) \/ Seeder(d)
  \/ Collector \/ CollectorCrash
  \/ \E a \in Address : verifySeed(a)
  \/ \E x \in CollectTx : VerifierWaits(x) \/ verifyCollect(x)
  \/ Network

CollectionSpec == CollectionInit /\ [][CollectionNext]_vars

\* The workers tick for ever.  A collector ticks once a minute, so the rows
\* that its last tick touched are ripe again.  Transactions that stay in the
\* pool are mined, not every block is disconnected, nodes answer again and again,
\* processes live long enough to commit again and again, and the verifier, which
\* looks at withdrawals first, is not kept by them for ever.
CollectionFairness ==
  /\ WF_vars(Collector) /\ SF_vars(CollectorSend) /\ SF_vars(CollectorCommit)
  /\ SF_vars(CollectorTick(AllRipe)) /\ SF_vars(CollectorConstruct(AllRipe))
  /\ WF_vars(\E d \in Deposit : Seeder(d))
  /\ WF_vars(\E a \in Address : verifySeed(a)) /\ WF_vars(\E x \in CollectTx : verifyCollect(x))
  /\ SF_vars(\E x \in CollectTx : Mine(x, "mined")) /\ SF_vars(\E x \in CollectTx : Deepen(x))

FairCollectionSpec == CollectionSpec /\ CollectionFairness

-----------------------------------------------------------------------------
Moved(d) ==
  /\ collectStatus[d] \in {"collecting", "collected"}
  /\ d \in claims[collectedTxid[d]]
  /\ net[collectedTxid[d]] = "mined"

\* A deposit is called collected only when a transaction that was built for it
\* has moved it and has its confirmations, whatever group it was in and whichever
\* transactions failed or were disconnected before (updateDepositCollectStatus
\* finds the rows by collected_txid).  Without stale caches.
CollectedMeansMoved ==
  \A d \in Deposit : collectStatus[d] = "collected" => Moved(d) /\ collectedTxid[d] \in deep

\* What transactions that no row tells of have taken: the one that the collector
\* has in hand, and those whose commit was lost
Unrecorded(a, c) ==
  Cardinality({p \in Landed \X At(a, c) : p[2] \in claims[p[1]] /\ transfer[p[1]] = "none"})

\* An address holds the tokens and outputs of its deposits that have not moved, but
\* for those that unrecorded transactions took.  So no transaction of the table
\* moves a deposit at the cost of another one, and none is believed to have left
\* that is still there; a lost commit (_collectorSubmitDoProcess) costs an address
\* what its transaction moved, and no more.
Solvent ==
  \A a \in Address, c \in {"token", "utxo"} :
    Held(a, c) = Cardinality({d \in At(a, c) : ~Moved(d)}) - Unrecorded(a, c)

\* A transaction that the network took and that no row tells of
Orphan(x) == transfer[x] = "none" /\ net[x] # "absent" /\ collector.tx # x

\* The ways in which the code can strand a deposit.
LostCommit == \E x \in CollectTx : Orphan(x)
\* No block takes it: the nonce before it belongs to one that was forgotten, or its
\* coin went with another.
NotTaken(x) ==
  \E a \in Sender(x) :
    \/ nonce[x] > NextNonce(a) /\ \A y \in TxFrom(a) : net[y] = "pool" => nonce[y] # NextNonce(a)
    \/ coin[a] < Cost(x, "mined")
Forgotten ==
  \E x \in CollectTx :
    transfer[x] = "sent" /\ (net[x] = "absent" \/ (net[x] = "pool" /\ NotTaken(x)))
Unverifiable == \E x \in CollectTx : transfer[x] = "sent" /\ net[x] = "reverted" /\ IsToken(x)
SecondSeed == \E d \in Requested \cap seedLog : toAddress[d] \notin seedSent
\* A native deposit below the minimum has paid for a token, or for a transfer
\* that failed: the group asks for more than the address holds.
PaidByDeposit ==
  \E a \in Address : coin[a] < Cardinality({d \in At(a, "native") : collectStatus[d] = "uncollected"})

Stranded == LostCommit \/ Forgotten \/ Unverifiable \/ SecondSeed \/ PaidByDeposit

AllArrived == \A d \in Deposit : (currencyOf[d] = "utxo") = (platform = "utxo") => d \in Arrived
AllCollected == \A d \in Arrived : collectStatus[d] = "collected"

\* Every deposit reaches the hot wallet, although ticks end early, nodes refuse,
\* blocks are disconnected and transfers fail: only one of the five ways above
\* keeps one back.
EveryDepositIsCollected == AllArrived ~> AllCollected \/ Stranded

-----------------------------------------------------------------------------
\* What comments of the code say and the code does not do

\* collectorDoProcess.ts: "Send fee to deposit address if needed to collect
\* tokens (ERC20, USDT, ...)".
SeedRequestIsServed == \A d \in Deposit : d \in Requested ~> d \notin Requested

\* Erc20Gateway.ts: "Cannot find any transfer log event.  Just treat the transaction
\* as failed".
RevertedIsFailed ==
  \A x \in CollectTx : transfer[x] = "sent" /\ net[x] = "reverted" ~> transfer[x] # "sent"
=============================================================================
