--------------------------- MODULE CollectionProofs ---------------------------
(***************************************************************************)
(* The collector, for every number of deposits, addresses and              *)
(* transactions and every fault: the books of the transfers, what the      *)
(* addresses hold, and, without stale caches, that what the table calls    *)
(* collected has been moved for good by a transaction built for it.        *)
(***************************************************************************)
EXTENDS Collection, FiniteSetTheorems, WellFoundedInduction, TLAPS

\* What the functions are defined on.
Shape ==
  /\ DOMAIN collectStatus = Deposit
  /\ collectedTxid \in [Deposit -> CollectTx \cup {NoTx}]
  /\ transfer \in [CollectTx -> {"none", "sent", "completed", "failed"}]
  /\ claims \in [CollectTx -> SUBSET Deposit]
  /\ collector \in [tx : CollectTx \cup {NoTx}, sent : BOOLEAN]

\* What the network and the cache of the verifier can say of a transaction
NetOK ==
  /\ platform \in {"account", "utxo"}
  /\ net \in [CollectTx -> {"absent", "pool", "mined", "reverted"}]
  /\ deep \subseteq {x \in CollectTx : InBlock(x)}
  /\ cached \in [CollectTx -> {"no", "fresh", "completed", "failed"}]

\* No transaction of the bitcoin family is reverted, nor said to be.
NoneReverted ==
  platform = "utxo" => \A x \in CollectTx : net[x] # "reverted" /\ cached[x] # "failed"

\* Outputs are deposits of the bitcoin family, and only they.
OfPlatform == \A d \in Arrived : (currencyOf[d] = "utxo") <=> (platform = "utxo")

\* A transaction that deposits point to is in internal_transfer, and was built
\* for them; it is not built again (it is, until it is in internal_transfer).
PointsToItsTx ==
  \A d \in Deposit :
    /\ collectedTxid[d] # NoTx => d \in claims[collectedTxid[d]] /\ transfer[collectedTxid[d]] # "none"
    /\ collectStatus[d] \in {"collecting", "collected"} => collectedTxid[d] # NoTx

\* What the collector is about to send is not in internal_transfer.
SendsOnce ==
  /\ collector.tx # NoTx => transfer[collector.tx] = "none"
  /\ collector.sent => collector.tx # NoTx

\* What internal_transfer and the deposits say of a transaction agrees: the
\* deposits of a sent one wait for it, those of a completed one are collected, and
\* only transfers of native coin are called failed.
TransfersAgree ==
  \A x \in CollectTx :
    /\ transfer[x] \in {"none", "sent", "completed", "failed"}
    /\ claims[x] \subseteq Arrived
    /\ transfer[x] = "sent" =>
         \A d \in claims[x] : collectedTxid[d] = x /\ collectStatus[d] = "collecting"
    /\ transfer[x] = "completed" =>
         \A d \in claims[x] : collectedTxid[d] = x /\ collectStatus[d] = "collected"
    /\ transfer[x] = "failed" => \A d \in claims[x] : currencyOf[d] = "native"

\* Nobody else takes the deposits that the collector builds a transaction for.
BuildsForWaiting ==
  collector.tx # NoTx => \A d \in claims[collector.tx] : collectStatus[d] = "uncollected"

\* The order by updated_at is one of the rows, and no two are tied.
InOrder == older \subseteq Arrived \X Arrived /\ IsStrictlyTotal(older)

NetInv == NetOK /\ NoneReverted /\ OfPlatform
BooksInv == TransfersAgree /\ BuildsForWaiting /\ InOrder
SolventInv == Shape /\ NetInv /\ PointsToItsTx /\ SendsOnce /\ BooksInv

-----------------------------------------------------------------------------
LEMMA SolventInit == CollectionInit => SolventInv
<1> SUFFICES ASSUME CollectionInit PROVE SolventInv OBVIOUS
<1>1. Arrived = {} BY DEF CollectionInit, Arrived
<1>2. Shape /\ PointsToItsTx /\ SendsOnce BY CollectionAssumption DEF CollectionInit, Shape, PointsToItsTx, SendsOnce, Idle
<1>3. NetInv BY <1>1 DEF CollectionInit, NetInv, NetOK, NoneReverted, OfPlatform
<1>4. BooksInv BY <1>1 DEF CollectionInit, BooksInv, TransfersAgree, BuildsForWaiting, InOrder, IsStrictlyTotal, Idle
<1> QED BY <1>2, <1>3, <1>4 DEF SolventInv

-----------------------------------------------------------------------------
\* Steps of the network, a broadcast, and what a tick of the verifier remembers
WorldStep == CollectorSend \/ Network \/ \E x \in CollectTx : VerifierWaits(x)

Tables == <<platform, collectStatus, collectedTxid, older, transfer, claims, nonce>>

\* A confirmed transaction stays where it is.
DeepStays == deep \subseteq deep' /\ \A x \in deep : net'[x] = net[x]

LEMMA WorldSend ==
  ASSUME SolventInv, CollectorSend
  PROVE  /\ NetOK' /\ NoneReverted' /\ DeepStays /\ UNCHANGED Tables
         /\ UNCHANGED <<seedVars, coin, cached>>
         /\ collector' = [collector EXCEPT !.sent = TRUE] /\ collector.tx # NoTx
<1> DEFINE x == collector.tx
<1>1. /\ collector # Idle /\ ~collector.sent /\ sendRawTransaction(x)
      /\ collector' = [collector EXCEPT !.sent = TRUE]
      /\ UNCHANGED <<platform, collectStatus, collectedTxid, older, transfer, seedVars>>
  BY DEF CollectorSend, rowVars
<1>2. collector \in [tx : CollectTx \cup {NoTx}, sent : BOOLEAN] BY DEF SolventInv, Shape
<1>3. x # NoTx /\ x \in CollectTx BY <1>1, <1>2 DEF Idle
<1> HIDE DEF x
<1>4. /\ Accepts(x)
      /\ net' = [y \in CollectTx |-> IF y = x THEN "pool"
                                     ELSE IF platform = "account" /\ y \in Rival(x) THEN "absent" ELSE net[y]]
      /\ UNCHANGED <<claims, nonce, deep, coin, cached>>
  BY <1>1 DEF sendRawTransaction
<1>5. net[x] \in {"absent", "pool"} BY <1>4 DEF Accepts
<1>6. \A y \in Rival(x) : net[y] = "pool" BY DEF Rival
<1>7. NetOK BY DEF SolventInv, NetInv
<1>8. net' \in [CollectTx -> {"absent", "pool", "mined", "reverted"}] BY <1>4, <1>7 DEF NetOK
<1>9. \A y \in CollectTx : net[y] \in {"mined", "reverted"} => net'[y] = net[y] BY <1>4, <1>5, <1>6
<1>10. DeepStays BY <1>4, <1>7, <1>9 DEF DeepStays, NetOK, InBlock
<1>11. NetOK' BY <1>1, <1>4, <1>7, <1>8, <1>9 DEF NetOK, InBlock
<1>12. NoneReverted' BY <1>1, <1>4 DEF SolventInv, NetInv, NoneReverted
<1> QED BY <1>1, <1>3, <1>4, <1>10, <1>11, <1>12 DEF Tables, x

LEMMA WorldNetwork ==
  ASSUME SolventInv, Network \/ \E x \in CollectTx : VerifierWaits(x)
  PROVE  /\ NetOK' /\ NoneReverted' /\ DeepStays /\ UNCHANGED Tables
         /\ UNCHANGED <<seedVars, collector>>
<1>1. NetOK /\ NoneReverted BY DEF SolventInv, NetInv
<1>2. UNCHANGED Tables /\ UNCHANGED <<seedVars, collector>>
  BY DEF Network, Mine, Deepen, Reorg, Drop, VerifierWaits, Tables, rowVars
<1>3. ASSUME NEW x \in CollectTx, Mine(x, "mined") \/ Mine(x, "reverted") \/ Drop(x)
      PROVE  NetOK' /\ NoneReverted' /\ DeepStays
  <2>1. PICK r \in {"absent", "mined", "reverted"} :
          /\ net[x] = "pool" /\ net' = [net EXCEPT ![x] = r] /\ UNCHANGED <<deep, cached, platform>>
          /\ r = "reverted" => platform = "account"
    BY <1>3 DEF Mine, Drop
  <2> QED BY <1>1, <2>1 DEF NetOK, NoneReverted, DeepStays, InBlock
<1>4. ASSUME NEW x \in CollectTx, Deepen(x) PROVE NetOK' /\ NoneReverted' /\ DeepStays
  BY <1>1, <1>4 DEF Deepen, NetOK, NoneReverted, DeepStays, InBlock
<1>5. ASSUME NEW x \in CollectTx, Reorg(x) PROVE NetOK' /\ NoneReverted' /\ DeepStays
  <2>1. /\ InBlock(x) /\ x \notin deep /\ net' = [net EXCEPT ![x] = "pool"] /\ UNCHANGED <<deep, platform>>
        /\ \/ cached' = [cached EXCEPT ![x] = "completed"]
           \/ cached' = [cached EXCEPT ![x] = "failed"] /\ net[x] = "reverted"
           \/ cached' = cached
    BY <1>5 DEF Reorg, InBlock
  <2> QED BY <1>1, <2>1 DEF NetOK, NoneReverted, DeepStays, InBlock
<1>6. ASSUME NEW x \in CollectTx, VerifierWaits(x) PROVE NetOK' /\ NoneReverted' /\ DeepStays
  <2>1. UNCHANGED <<net, deep, platform>> /\ (cached' = cached \/ cached' = [cached EXCEPT ![x] = "fresh"])
    BY <1>6 DEF VerifierWaits
  <2> QED BY <1>1, <2>1 DEF NetOK, NoneReverted, DeepStays, InBlock
<1> QED BY <1>2, <1>3, <1>4, <1>5, <1>6 DEF Network

LEMMA SolventWorld ==
  ASSUME SolventInv, WorldStep
  PROVE  SolventInv'
<1>1. /\ NetOK' /\ NoneReverted' /\ UNCHANGED Tables
      /\ \/ collector' = collector
         \/ collector' = [collector EXCEPT !.sent = TRUE] /\ collector.tx # NoTx
  BY WorldSend, WorldNetwork DEF WorldStep
<1>2. UNCHANGED <<platform, collectStatus, collectedTxid, older, transfer, claims>> BY <1>1 DEF Tables
<1>3. /\ collector' \in [tx : CollectTx \cup {NoTx}, sent : BOOLEAN] /\ collector'.tx = collector.tx
      /\ collector'.sent => collector'.tx # NoTx
  BY <1>1 DEF SolventInv, Shape, SendsOnce
<1>4. Arrived' = Arrived BY <1>2 DEF Arrived
<1>5. NetInv' BY <1>1, <1>2, <1>4 DEF SolventInv, NetInv, OfPlatform
<1>6. Shape' /\ PointsToItsTx' /\ SendsOnce' BY <1>2, <1>3 DEF SolventInv, Shape, PointsToItsTx, SendsOnce
<1>7. BooksInv'
  BY <1>2, <1>3, <1>4 DEF SolventInv, BooksInv, TransfersAgree, BuildsForWaiting, InOrder, IsStrictlyTotal
<1> QED BY <1>5, <1>6, <1>7 DEF SolventInv

-----------------------------------------------------------------------------
\* The order of the rows

\* The first of some rows is one of them.
LEMMA FirstIsRow ==
  ASSUME InOrder, NEW rows \in SUBSET Arrived, rows # {}
  PROVE  First(rows) \in rows
<1> DEFINE Earlier(d) == {e \in rows : <<e, d>> \in older}
           Family == {Earlier(d) : d \in rows}
<1>1. rows \in SUBSET Deposit BY DEF Arrived
<1>2. Family \subseteq FiniteSubsetsOf(Deposit) /\ Family # {}
  <2>1. ASSUME NEW d \in rows PROVE Earlier(d) \in FiniteSubsetsOf(Deposit)
    <3>1. Earlier(d) \in SUBSET Deposit BY <1>1
    <3> QED BY <3>1, FS_Subset, CollectionAssumption DEF FiniteSubsetsOf
  <2> QED BY <2>1
<1> HIDE DEF Family
<1>3. PICK E \in Family : \A F \in Family : <<F, E>> \notin StrictSubsetOrdering(Deposit)
  BY <1>2, WFMin, FS_StrictSubsetOrderingWellFounded
<1> USE DEF Family
<1>4. PICK d \in rows : E = Earlier(d) OBVIOUS
<1>5. ASSUME NEW e \in rows \ {d} PROVE <<d, e>> \in older
  <2>1. CASE <<e, d>> \in older
    <3>1. Earlier(e) \subseteq Earlier(d) BY <2>1 DEF InOrder, IsStrictlyTotal
    <3>2. e \in Earlier(d) /\ e \notin Earlier(e) BY <2>1 DEF InOrder, IsStrictlyTotal
    <3>3. Earlier(e) \in SUBSET Deposit /\ Earlier(d) \in SUBSET Deposit BY <1>1
    <3>4. <<Earlier(e), E>> \in StrictSubsetOrdering(Deposit) BY <1>4, <3>1, <3>2, <3>3 DEF StrictSubsetOrdering
    <3> QED BY <1>3, <3>4
  <2> QED BY <2>1 DEF InOrder, IsStrictlyTotal
<1> QED BY <1>5 DEF First

LEMMA TouchKeepsOrder ==
  ASSUME InOrder, NEW group \in SUBSET Arrived, Touch(group), Arrived' = Arrived
  PROVE  InOrder'
<1>1. older' = {p \in older : (p[1] \in group) = (p[2] \in group)} \cup ((Arrived \ group) \X group)
  BY DEF Touch
<1>2. older' \subseteq Arrived \X Arrived BY <1>1 DEF InOrder
<1>3. \A d, e \in Arrived :
        <<d, e>> \in older' <=> \/ <<d, e>> \in older /\ (d \in group <=> e \in group)
                                \/ d \notin group /\ e \in group
  BY <1>1
<1>4. IsStrictlyTotal(older)' BY <1>3 DEF InOrder, IsStrictlyTotal
<1> QED BY <1>2, <1>4 DEF InOrder

-----------------------------------------------------------------------------
\* Steps of the tables

\* A step that leaves the transfers, their deposits and the network alone, and
\* of the others changes the status of those that nobody claims.
LEMMA SolventStatus ==
  ASSUME SolventInv,
         UNCHANGED <<platform, collectedTxid, transfer, claims, net, deep, cached>>,
         collector' \in {collector, Idle},
         DOMAIN collectStatus' = Deposit, Arrived \subseteq Arrived', OfPlatform', InOrder',
         \A d \in Deposit : collectStatus[d] \in {"collecting", "collected"} => collectStatus'[d] = collectStatus[d],
         \A d \in Deposit : collectStatus'[d] \in {"collecting", "collected"} => collectStatus'[d] = collectStatus[d],
         \A d \in Deposit : collector'.tx # NoTx /\ collectStatus[d] = "uncollected" => collectStatus'[d] = "uncollected"
  PROVE  SolventInv'
<1>1. \A x \in CollectTx : claims[x] \subseteq Deposit BY DEF SolventInv, BooksInv, TransfersAgree, Arrived
<1>2. /\ collector' \in [tx : CollectTx \cup {NoTx}, sent : BOOLEAN]
      /\ collector'.tx # NoTx => collector' = collector
      /\ collector'.sent => collector'.tx # NoTx
  <2>1. CASE collector' = collector BY <2>1 DEF SolventInv, Shape, SendsOnce
  <2>2. CASE collector' = Idle
    <3>1. Idle.tx = NoTx /\ Idle.sent = FALSE /\ Idle \in [tx : CollectTx \cup {NoTx}, sent : BOOLEAN] BY DEF Idle
    <3> QED BY <2>2, <3>1
  <2> QED BY <2>1, <2>2
<1>3. TransfersAgree' BY <1>1 DEF SolventInv, BooksInv, TransfersAgree
<1>4. collector.tx \in CollectTx \cup {NoTx} BY DEF SolventInv, Shape
<1>5. BuildsForWaiting' BY <1>1, <1>2, <1>4 DEF SolventInv, BooksInv, BuildsForWaiting
<1>6. Shape' /\ SendsOnce' BY <1>2 DEF SolventInv, Shape, SendsOnce
<1>7. PointsToItsTx' BY DEF SolventInv, PointsToItsTx
<1>8. NetInv' BY DEF SolventInv, NetInv, NetOK, NoneReverted, InBlock
<1> QED BY <1>3, <1>5, <1>6, <1>7, <1>8 DEF SolventInv, BooksInv

LEMMA SolventInsert ==
  ASSUME SolventInv, NEW d \in Deposit, insertDeposit(d)
  PROVE  SolventInv'
<1>1. /\ collectStatus[d] = "none"
      /\ (currencyOf[d] = "utxo") = (platform = "utxo")
      /\ collectStatus' = [collectStatus EXCEPT ![d] = "uncollected"]
      /\ older' = older \cup (Arrived \X {d})
      /\ UNCHANGED <<platform, collectedTxid, transfer, claims, net, deep, cached, collector>>
  BY DEF insertDeposit
<1>2. DOMAIN collectStatus = Deposit BY DEF SolventInv, Shape
<1>3. Arrived' = Arrived \cup {d} /\ d \notin Arrived BY <1>1, <1>2 DEF Arrived
<1>4. OfPlatform' BY <1>1, <1>3 DEF SolventInv, NetInv, OfPlatform
<1>5. older' \subseteq Arrived' \X Arrived' BY <1>1, <1>3 DEF SolventInv, BooksInv, InOrder
<1>6. \A e, f \in Arrived' : <<e, f>> \in older' <=> <<e, f>> \in older \/ (e \in Arrived /\ f = d)
  BY <1>1, <1>3
<1>7. \A e, f \in Arrived' : <<e, f>> \in older => e \in Arrived /\ f \in Arrived
  BY DEF SolventInv, BooksInv, InOrder
<1>8. IsStrictlyTotal(older)' BY <1>3, <1>6, <1>7 DEF SolventInv, BooksInv, InOrder, IsStrictlyTotal
<1>9. InOrder' BY <1>5, <1>8 DEF InOrder
<1> QED BY <1>1, <1>2, <1>3, <1>4, <1>9, SolventStatus

LEMMA SolventRest ==
  ASSUME SolventInv,
         (\E d \in Deposit : Seeder(d)) \/ UNCHANGED vars \/ CollectorThrow \/ CollectorCrash
  PROVE  SolventInv'
<1>1. UNCHANGED <<platform, rowVars, transfer, claims, net, deep, cached>> /\ collector' \in {collector, Idle}
  <2>1. CASE UNCHANGED vars BY <2>1 DEF vars, chainVars
  <2>2. CASE CollectorThrow \/ CollectorCrash BY <2>2 DEF CollectorThrow, CollectorCrash, chainVars
  <2>3. ASSUME NEW d \in Deposit, Seeder(d)
        PROVE  UNCHANGED <<platform, rowVars, transfer, claims, net, deep, cached>> /\ collector' \in {collector, Idle}
    BY <2>3 DEF Seeder
  <2> QED BY <2>1, <2>2, <2>3
<1>2. UNCHANGED <<collectStatus, collectedTxid, older>> BY <1>1 DEF rowVars
<1>3. Arrived' = Arrived BY <1>2 DEF Arrived
<1>4. OfPlatform' BY <1>1, <1>3 DEF SolventInv, NetInv, OfPlatform
<1>5. InOrder' BY <1>2, <1>3 DEF SolventInv, BooksInv, InOrder, IsStrictlyTotal
<1>6. DOMAIN collectStatus' = Deposit BY <1>2 DEF SolventInv, Shape
<1> QED BY <1>1, <1>2, <1>3, <1>4, <1>5, <1>6, SolventStatus

LEMMA SolventVerifySeed ==
  ASSUME SolventInv, NEW a \in Address, verifySeed(a)
  PROVE  SolventInv'
<1> DEFINE released == {d \in Requested : toAddress[d] = a}
<1>1. /\ collectStatus' = [d \in Deposit |-> IF d \in released THEN "uncollected" ELSE collectStatus[d]]
      /\ Touch(released)
      /\ UNCHANGED <<platform, collectedTxid, transfer, claims, net, deep, cached, collector>>
  BY DEF verifySeed, chainVars
<1>2. released \in SUBSET Arrived /\ \A d \in released : collectStatus[d] = "seed_requested"
  BY DEF Requested, Arrived
<1> HIDE DEF released
<1>3. Arrived' = Arrived BY <1>1, <1>2 DEF Arrived
<1>4. OfPlatform' BY <1>1, <1>3 DEF SolventInv, NetInv, OfPlatform
<1>5. InOrder' BY <1>1, <1>2, <1>3, TouchKeepsOrder DEF SolventInv, BooksInv
<1> QED BY <1>1, <1>2, <1>3, <1>4, <1>5, SolventStatus

LEMMA SolventTick ==
  ASSUME SolventInv, NEW d \in Arrived, CollectorTick(Ripe(d))
  PROVE  SolventInv'
<1> DEFINE rows == Ripe(d)
           group == GroupOf(rows)
<1>1. /\ collector = Idle /\ rows # {}
      /\ CollectorSkips(rows) \/ CollectorCannotConstruct(rows) \/ CollectorConstruct(rows)
  BY DEF CollectorTick, CollectorSkips, CollectorCannotConstruct, CollectorConstruct, CollectorReads
<1>2. rows \in SUBSET Arrived /\ \A e \in rows : collectStatus[e] = "uncollected" BY DEF Ripe, Collectable
<1>3. group \in SUBSET Arrived /\ \A e \in group : collectStatus[e] = "uncollected" BY <1>2 DEF GroupOf
<1> HIDE DEF rows
<1>4. First(rows) \in Deposit /\ collectStatus[First(rows)] = "uncollected"
  BY <1>1, <1>2, FirstIsRow DEF SolventInv, BooksInv, Arrived
<1>5. DOMAIN collectStatus = Deposit BY DEF SolventInv, Shape
<1> HIDE DEF group
<1>6. CASE CollectorSkips(rows)
  <2>1. /\ UNCHANGED <<platform, collectStatus, collectedTxid, transfer, claims, net, deep, cached, collector>>
        /\ TouchUnawaited(group)
    BY <1>6 DEF CollectorSkips, chainVars, group
  <2>2. Arrived' = Arrived BY <2>1 DEF Arrived
  <2>3. InOrder'
    <3>1. CASE Touch(group) BY <3>1, <2>2, <1>3, TouchKeepsOrder DEF SolventInv, BooksInv
    <3>2. CASE UNCHANGED older BY <3>2, <2>2 DEF SolventInv, BooksInv, InOrder, IsStrictlyTotal
    <3> QED BY <2>1, <3>1, <3>2 DEF TouchUnawaited
  <2>4. OfPlatform' BY <2>1, <2>2 DEF SolventInv, NetInv, OfPlatform
  <2> QED BY <2>1, <2>2, <2>3, <2>4, <1>5, SolventStatus
<1>7. CASE CollectorCannotConstruct(rows)
  <2>1. /\ UNCHANGED <<platform, collectedTxid, transfer, claims, net, deep, cached, collector>> /\ Touch(group)
        /\ \/ UNCHANGED collectStatus
           \/ collectStatus' = [collectStatus EXCEPT ![First(rows)] = "seed_requested"]
    BY <1>7 DEF CollectorCannotConstruct, chainVars, group
  <2>2. Arrived' = Arrived BY <2>1, <1>4, <1>5 DEF Arrived
  <2>3. InOrder' BY <2>1, <2>2, <1>3, TouchKeepsOrder DEF SolventInv, BooksInv
  <2>4. collector'.tx = NoTx BY <2>1, <1>1 DEF Idle
  <2>5. OfPlatform' BY <2>1, <2>2 DEF SolventInv, NetInv, OfPlatform
  <2>6. \A e \in Deposit : collectStatus'[e] = collectStatus[e]
                             \/ (collectStatus[e] = "uncollected" /\ collectStatus'[e] = "seed_requested")
    BY <2>1, <1>4, <1>5
  <2> QED BY <2>1, <2>2, <2>3, <2>4, <2>5, <2>6, <1>5, SolventStatus
<1>8. CASE CollectorConstruct(rows)
  <2>1. PICK x \in CollectTx :
          /\ transfer[x] = "none"
          /\ claims' = [claims EXCEPT ![x] = group] /\ collector' = [tx |-> x, sent |-> FALSE]
    BY <1>8 DEF CollectorConstruct, TxFor, group
  <2>2. UNCHANGED <<platform, collectStatus, collectedTxid, older, transfer, net, deep, cached>>
    BY <1>8 DEF CollectorConstruct, rowVars
  <2>3. Arrived' = Arrived BY <2>2 DEF Arrived
  <2>4. /\ DOMAIN claims = CollectTx /\ claims'[x] = group
        /\ \A y \in CollectTx \ {x} : claims'[y] = claims[y]
    BY <2>1 DEF SolventInv, Shape
  <2>5. TransfersAgree' BY <1>3, <2>1, <2>2, <2>3, <2>4 DEF SolventInv, BooksInv, TransfersAgree
  <2>6. BuildsForWaiting' BY <1>3, <2>1, <2>2, <2>4 DEF BuildsForWaiting
  <2>7. InOrder' BY <2>2, <2>3 DEF SolventInv, BooksInv, InOrder, IsStrictlyTotal
  <2>8. NetInv' BY <2>2, <2>3 DEF SolventInv, NetInv, NetOK, NoneReverted, OfPlatform, InBlock
  <2>9. Shape' BY <1>3, <2>1, <2>2 DEF SolventInv, Shape, Arrived
  <2>10. PointsToItsTx' BY <2>1, <2>2, <2>4 DEF SolventInv, Shape, PointsToItsTx
  <2>11. SendsOnce' BY <2>1, <2>2 DEF SendsOnce
  <2> QED BY <2>5, <2>6, <2>7, <2>8, <2>9, <2>10, <2>11 DEF SolventInv, BooksInv
<1> QED BY <1>1, <1>6, <1>7, <1>8

LEMMA SolventCommit ==
  ASSUME SolventInv, CollectorCommit
  PROVE  SolventInv'
<1> DEFINE x == collector.tx
<1>1. /\ collector.sent
      /\ transfer' = [transfer EXCEPT ![x] = "sent"]
      /\ collectStatus' = [d \in Deposit |-> IF d \in claims[x] THEN "collecting" ELSE collectStatus[d]]
      /\ collectedTxid' = [d \in Deposit |-> IF d \in claims[x] THEN x ELSE collectedTxid[d]]
      /\ Touch(claims[x])
      /\ UNCHANGED <<platform, claims, net, deep, cached>>
      /\ collector' = Idle
  BY DEF CollectorCommit, Marked, chainVars
<1>2. x \in CollectTx /\ transfer[x] = "none" BY <1>1 DEF SolventInv, SendsOnce, Shape
<1>3. \A d \in claims[x] : collectStatus[d] = "uncollected"
  BY <1>2, CollectionAssumption DEF SolventInv, BooksInv, BuildsForWaiting
<1> HIDE DEF x
<1>4. claims[x] \in SUBSET Arrived BY <1>2 DEF SolventInv, BooksInv, TransfersAgree
<1>5. Arrived' = Arrived BY <1>1, <1>4 DEF Arrived
<1>6. InOrder' BY <1>1, <1>4, <1>5, TouchKeepsOrder DEF SolventInv, BooksInv
<1>7. Idle.tx = NoTx /\ Idle.sent = FALSE /\ Idle \in [tx : CollectTx \cup {NoTx}, sent : BOOLEAN] BY DEF Idle
<1>8. BuildsForWaiting' /\ SendsOnce' BY <1>1, <1>7 DEF BuildsForWaiting, SendsOnce
<1>9. DOMAIN transfer = CollectTx /\ DOMAIN claims = CollectTx BY DEF SolventInv, Shape
<1>10. Shape' BY <1>1, <1>2, <1>7 DEF SolventInv, Shape
<1>11. NetInv' BY <1>1, <1>5 DEF SolventInv, NetInv, NetOK, NoneReverted, OfPlatform, InBlock
<1>12. ASSUME NEW d \in Deposit
       PROVE  /\ collectedTxid'[d] # NoTx =>
                   d \in claims'[collectedTxid'[d]] /\ transfer'[collectedTxid'[d]] # "none"
              /\ collectStatus'[d] \in {"collecting", "collected"} => collectedTxid'[d] # NoTx
  <2>1. CASE d \in claims[x] BY <1>1, <1>2, <1>9, <2>1, CollectionAssumption
  <2>2. CASE d \notin claims[x]
    <3>1. collectedTxid'[d] = collectedTxid[d] /\ collectStatus'[d] = collectStatus[d] BY <1>1, <2>2
    <3>2. collectedTxid[d] \in CollectTx \cup {NoTx} BY DEF SolventInv, Shape
    <3> QED BY <1>1, <1>9, <3>1, <3>2 DEF SolventInv, PointsToItsTx
  <2> QED BY <2>1, <2>2
<1>13. PointsToItsTx' BY <1>12 DEF PointsToItsTx
<1>14. ASSUME NEW y \in CollectTx
       PROVE  /\ transfer'[y] \in {"none", "sent", "completed", "failed"}
              /\ claims'[y] \subseteq Arrived'
              /\ transfer'[y] = "sent" =>
                   \A d \in claims'[y] : collectedTxid'[d] = y /\ collectStatus'[d] = "collecting"
              /\ transfer'[y] = "completed" =>
                   \A d \in claims'[y] : collectedTxid'[d] = y /\ collectStatus'[d] = "collected"
              /\ transfer'[y] = "failed" => \A d \in claims'[y] : currencyOf[d] = "native"
  <2>1. CASE y = x BY <1>1, <1>2, <1>4, <1>5, <1>9, <2>1 DEF Arrived
  <2>2. CASE y # x
    <3>1. transfer'[y] = transfer[y] BY <1>1, <1>2, <1>9, <2>2
    <3>2. ASSUME transfer[y] \in {"sent", "completed"} PROVE claims[y] \cap claims[x] = {}
      BY <1>3, <3>2 DEF SolventInv, BooksInv, TransfersAgree
    <3>3. claims[y] \subseteq Deposit BY DEF SolventInv, BooksInv, TransfersAgree, Arrived
    <3> QED BY <1>1, <1>5, <3>1, <3>2, <3>3 DEF SolventInv, BooksInv, TransfersAgree
  <2> QED BY <2>1, <2>2
<1>15. TransfersAgree' BY <1>14 DEF TransfersAgree
<1> QED BY <1>6, <1>8, <1>10, <1>11, <1>13, <1>15 DEF SolventInv, BooksInv

\* A token transfer is never called failed, nor is one of the bitcoin family.
LEMMA FailedIsNative ==
  ASSUME SolventInv, NEW x \in CollectTx,
         "failed" \in getTransactionStatus(x), ~NoFeeToRead(x, "failed")
  PROVE  \A d \in claims[x] : currencyOf[d] = "native"
<1>1. claims[x] \subseteq Arrived BY DEF SolventInv, BooksInv, TransfersAgree
<1>2. net[x] = "reverted" \/ cached[x] = "failed"
  <2>1. NetworkStatus(x) = "failed" => net[x] = "reverted"
    BY DEF NetworkStatus, SolventInv, NetInv, NetOK, InBlock
  <2> QED BY <2>1 DEF getTransactionStatus
<1>3. platform # "utxo" BY <1>2 DEF SolventInv, NetInv, NoneReverted
<1>4. \A d \in claims[x] : currencyOf[d] \in Currency /\ currencyOf[d] \notin {"token", "utxo"}
  BY <1>1, <1>3, CollectionAssumption DEF NoFeeToRead, IsToken, SolventInv, NetInv, OfPlatform, Arrived
<1> QED BY <1>4 DEF Currency

LEMMA SolventVerify ==
  ASSUME SolventInv, NEW x \in CollectTx, verifyCollect(x)
  PROVE  SolventInv'
<1>1. PICK status \in {"completed", "failed"} \cap getTransactionStatus(x) :
        /\ ~NoFeeToRead(x, status)
        /\ transfer' = [transfer EXCEPT ![x] = status]
        /\ collectStatus' = [d \in Deposit |-> IF collectedTxid[d] = x THEN CollectOutcome(status)
                                               ELSE collectStatus[d]]
  BY DEF verifyCollect
<1>2. transfer[x] = "sent" /\ UNCHANGED <<platform, collectedTxid, older, claims, net, deep, cached, collector>>
  BY DEF verifyCollect, chainVars
<1>3. DOMAIN transfer = CollectTx /\ DOMAIN claims = CollectTx BY DEF SolventInv, Shape
<1>4. /\ transfer'[x] = status /\ \A y \in CollectTx \ {x} : transfer'[y] = transfer[y]
      /\ CollectOutcome(status) = IF status = "completed" THEN "collected" ELSE "uncollected"
  BY <1>1, <1>3 DEF CollectOutcome
<1>5. status = "failed" => \A d \in claims[x] : currencyOf[d] = "native" BY <1>1, FailedIsNative
\* The deposits that point to x are those it claims.
<1>6. \A d \in Deposit : collectedTxid[d] = x => d \in claims[x] /\ collectStatus[d] = "collecting"
  BY <1>2, CollectionAssumption DEF SolventInv, PointsToItsTx, BooksInv, TransfersAgree
<1>7. Arrived' = Arrived BY <1>1, <1>4, <1>6 DEF Arrived
<1>8. InOrder' BY <1>2, <1>7 DEF SolventInv, BooksInv, InOrder, IsStrictlyTotal
<1>9. NetInv' BY <1>2, <1>7 DEF SolventInv, NetInv, NetOK, NoneReverted, OfPlatform, InBlock
<1>10. Shape' BY <1>1, <1>2 DEF SolventInv, Shape
<1>11. PointsToItsTx'
  <2> SUFFICES ASSUME NEW d \in Deposit
               PROVE  /\ collectedTxid[d] # NoTx =>
                           d \in claims[collectedTxid[d]] /\ transfer'[collectedTxid[d]] # "none"
                      /\ collectStatus'[d] \in {"collecting", "collected"} => collectedTxid[d] # NoTx
    BY <1>2 DEF PointsToItsTx
  <2>1. collectedTxid[d] \in CollectTx \cup {NoTx} BY DEF SolventInv, Shape
  <2>2. collectedTxid[d] # x => collectStatus'[d] = collectStatus[d] BY <1>1
  <2> QED BY <1>4, <2>1, <2>2, CollectionAssumption DEF SolventInv, PointsToItsTx
<1>12. collector.tx # x BY <1>2, CollectionAssumption DEF SolventInv, SendsOnce
<1>13. collector.tx \in CollectTx \cup {NoTx} BY DEF SolventInv, Shape
<1>14. SendsOnce' BY <1>2, <1>4, <1>12, <1>13 DEF SolventInv, SendsOnce
<1>15. BuildsForWaiting'
  <2>1. ASSUME collector.tx # NoTx, NEW d \in claims[collector.tx] PROVE collectStatus'[d] = "uncollected"
    <3>1. collector.tx \in CollectTx BY <1>13, <2>1
    <3>2. d \in Deposit /\ collectStatus[d] = "uncollected"
      BY <2>1, <3>1 DEF SolventInv, BooksInv, TransfersAgree, BuildsForWaiting, Arrived
    <3> QED BY <1>1, <1>6, <3>2
  <2> QED BY <1>2, <2>1 DEF BuildsForWaiting
<1>16. ASSUME NEW y \in CollectTx
       PROVE  /\ transfer'[y] \in {"none", "sent", "completed", "failed"}
              /\ claims'[y] \subseteq Arrived'
              /\ transfer'[y] = "sent" =>
                   \A d \in claims'[y] : collectedTxid'[d] = y /\ collectStatus'[d] = "collecting"
              /\ transfer'[y] = "completed" =>
                   \A d \in claims'[y] : collectedTxid'[d] = y /\ collectStatus'[d] = "collected"
              /\ transfer'[y] = "failed" => \A d \in claims'[y] : currencyOf[d] = "native"
  <2>1. claims[y] \subseteq Deposit BY DEF SolventInv, BooksInv, TransfersAgree, Arrived
  <2>2. CASE y = x BY <1>1, <1>2, <1>4, <1>5, <1>7, <2>1, <2>2 DEF SolventInv, BooksInv, TransfersAgree
  <2>3. CASE y # x BY <1>1, <1>2, <1>4, <1>7, <2>1, <2>3 DEF SolventInv, BooksInv, TransfersAgree
  <2> QED BY <2>2, <2>3
<1>17. TransfersAgree' BY <1>16 DEF TransfersAgree
<1> QED BY <1>8, <1>9, <1>10, <1>11, <1>14, <1>15, <1>17 DEF SolventInv, BooksInv

LEMMA SolventNext == SolventInv /\ [CollectionNext]_vars => SolventInv'
<1> SUFFICES ASSUME SolventInv, [CollectionNext]_vars PROVE SolventInv' OBVIOUS
<1>1. ASSUME NEW d \in Arrived, CollectorTick(Ripe(d)) PROVE SolventInv' BY <1>1, SolventTick
<1> QED
  BY <1>1, SolventWorld, SolventInsert, SolventRest, SolventVerifySeed, SolventCommit, SolventVerify
  DEF CollectionNext, Collector, WorldStep

-----------------------------------------------------------------------------
\* Without stale caches

NoStaleReads == "stale" \notin Fault

\* The verifier's gateway remembers nothing, and what is called collected has the
\* confirmations.
DeepInv ==
  /\ \A x \in CollectTx : cached[x] = "no"
  /\ \A d \in Deposit :
       collectStatus[d] = "collected" => net[collectedTxid[d]] = "mined" /\ collectedTxid[d] \in deep

LEMMA DeepInit == CollectionInit => DeepInv
BY DEF CollectionInit, DeepInv

\* A step that collects nothing
LEMMA DeepStatus ==
  ASSUME SolventInv, DeepInv, UNCHANGED <<net, deep, cached>>,
         \A d \in Deposit : collectStatus'[d] = "collected" =>
           collectStatus[d] = "collected" /\ collectedTxid'[d] = collectedTxid[d]
  PROVE  DeepInv'
BY DEF DeepInv

LEMMA DeepNext == NoStaleReads /\ SolventInv /\ DeepInv /\ [CollectionNext]_vars => DeepInv'
<1> SUFFICES ASSUME NoStaleReads, SolventInv, DeepInv, [CollectionNext]_vars PROVE DeepInv' OBVIOUS
<1>1. CASE CollectorSend \/ Network \/ \E x \in CollectTx : VerifierWaits(x)
  <2>1. DeepStays /\ UNCHANGED Tables BY <1>1, WorldSend, WorldNetwork
  <2>2. UNCHANGED cached
    <3>1. CASE CollectorSend BY <3>1, WorldSend
    <3>2. ASSUME NEW x \in CollectTx, Reorg(x) PROVE UNCHANGED cached BY <3>2 DEF Reorg, DeepInv
    <3>3. CASE Network BY <3>2, <3>3 DEF Network, Mine, Deepen, Drop
    <3>4. ASSUME NEW x \in CollectTx, VerifierWaits(x) PROVE UNCHANGED cached
      BY <3>4 DEF VerifierWaits, NoStaleReads
    <3> QED BY <1>1, <3>1, <3>3, <3>4
  <2> QED BY <2>1, <2>2 DEF DeepInv, DeepStays, Tables
<1>2. ASSUME NEW d \in Deposit, insertDeposit(d) PROVE DeepInv'
  <2>1. DOMAIN collectStatus = Deposit BY DEF SolventInv, Shape
  <2> QED BY <1>2, <2>1, DeepStatus DEF insertDeposit
<1>3. ASSUME NEW d \in Deposit, Seeder(d) PROVE DeepInv' BY <1>3, DeepStatus DEF Seeder, rowVars
<1>4. ASSUME NEW a \in Address, verifySeed(a) PROVE DeepInv' BY <1>4, DeepStatus DEF verifySeed, chainVars
<1>5. ASSUME NEW d \in Arrived, CollectorTick(Ripe(d)) PROVE DeepInv'
  <2> DEFINE rows == Ripe(d)
  <2>1. CASE CollectorSkips(rows) BY <2>1, DeepStatus DEF CollectorSkips, chainVars
  <2>2. CASE CollectorCannotConstruct(rows)
    <3>1. /\ UNCHANGED <<net, deep, cached, collectedTxid>>
          /\ \/ UNCHANGED collectStatus
             \/ collectStatus' = [collectStatus EXCEPT ![First(rows)] = "seed_requested"]
      BY <2>2 DEF CollectorCannotConstruct, chainVars
    <3>2. DOMAIN collectStatus = Deposit BY DEF SolventInv, Shape
    <3> QED BY <3>1, <3>2, DeepStatus
  <2>3. CASE CollectorConstruct(rows) BY <2>3, DeepStatus DEF CollectorConstruct, rowVars
  <2> QED BY <1>5, <2>1, <2>2, <2>3 DEF CollectorTick
<1>6. CASE CollectorThrow \/ CollectorCrash
  BY <1>6, DeepStatus DEF CollectorThrow, CollectorCrash, rowVars, chainVars
<1>7. CASE CollectorCommit
  <2>1. UNCHANGED <<net, deep, cached>> BY <1>7 DEF CollectorCommit, chainVars
  <2>2. \A d \in Deposit : collectStatus'[d] = "collected" =>
          collectStatus[d] = "collected" /\ collectedTxid'[d] = collectedTxid[d]
    BY <1>7 DEF CollectorCommit
  <2> QED BY <2>1, <2>2, DeepStatus
<1>8. ASSUME NEW x \in CollectTx, verifyCollect(x) PROVE DeepInv'
  <2>1. PICK status \in {"completed", "failed"} \cap getTransactionStatus(x) :
          collectStatus' = [d \in Deposit |-> IF collectedTxid[d] = x THEN CollectOutcome(status)
                                              ELSE collectStatus[d]]
    BY <1>8 DEF verifyCollect
  <2>2. UNCHANGED <<collectedTxid, net, deep, cached>> BY <1>8 DEF verifyCollect, chainVars
  <2>3. status = NetworkStatus(x) BY <2>1 DEF getTransactionStatus, DeepInv
  <2>4. CollectOutcome(status) = "collected" => net[x] = "mined" /\ x \in deep
    BY <2>1, <2>3 DEF CollectOutcome, NetworkStatus, SolventInv, NetInv, NetOK, InBlock
  <2> QED BY <2>1, <2>2, <2>4 DEF DeepInv
<1>9. ASSUME UNCHANGED vars PROVE DeepInv' BY <1>9, DeepStatus DEF vars, rowVars, chainVars
<1> QED
  BY <1>1, <1>2, <1>3, <1>4, <1>5, <1>6, <1>7, <1>8, <1>9 DEF CollectionNext, Collector

\* Without stale caches, a deposit is called collected only when a transaction that
\* was built for it has moved it and has its confirmations: under crashes, lost
\* commits, reverts, reorganisations and transactions that are forgotten or replaced
\* (updateDepositCollectStatus finds the rows by collected_txid).
THEOREM CollectedForGood ==
  ASSUME NoStaleReads
  PROVE  CollectionSpec => []CollectedMeansMoved
<1>1. SolventInv /\ DeepInv => CollectedMeansMoved
  <2> SUFFICES ASSUME SolventInv, DeepInv, NEW d \in Deposit, collectStatus[d] = "collected"
               PROVE  Moved(d) /\ collectedTxid[d] \in deep
    BY DEF CollectedMeansMoved
  <2> QED BY DEF SolventInv, DeepInv, PointsToItsTx, Moved
<1>2. CollectionInit => SolventInv /\ DeepInv BY SolventInit, DeepInit
<1>3. SolventInv /\ DeepInv /\ [CollectionNext]_vars => (SolventInv /\ DeepInv)' BY SolventNext, DeepNext
<1> QED BY <1>1, <1>2, <1>3, PTL DEF CollectionSpec

-----------------------------------------------------------------------------
\* What the addresses hold

\* A token or an output that left with a recorded transaction counts as moved.
LEMMA MovedOnce ==
  ASSUME SolventInv, NEW x \in CollectTx, transfer[x] # "none", net[x] = "mined",
         NEW d \in claims[x], currencyOf[d] # "native"
  PROVE  collectedTxid[d] = x /\ Moved(d)
<1>1. transfer[x] \in {"sent", "completed"} BY DEF SolventInv, BooksInv, TransfersAgree
<1> QED BY <1>1 DEF SolventInv, BooksInv, TransfersAgree, Moved

LEMMA BooksBalance ==
  ASSUME SolventInv, NEW a \in Address, NEW c \in {"token", "utxo"}
  PROVE  Held(a, c) = Cardinality({d \in At(a, c) : ~Moved(d)}) - Unrecorded(a, c)
<1> DEFINE S == At(a, c)
           M == {d \in S : Moved(d)}
           Pairs == {p \in Landed \X S : p[2] \in claims[p[1]]}
           Lost == {p \in Landed \X S : p[2] \in claims[p[1]] /\ transfer[p[1]] = "none"}
           Kept == {p \in Pairs : transfer[p[1]] # "none"}
           f == [d \in M |-> <<collectedTxid[d], d>>]
<1>1. S \subseteq Deposit /\ \A d \in S : currencyOf[d] # "native" BY DEF At, Arrived
<1>2. IsFiniteSet(S) BY <1>1, FS_Subset, CollectionAssumption
<1>3. \A d \in M : /\ collectedTxid[d] \in Landed /\ d \in claims[collectedTxid[d]]
                   /\ transfer[collectedTxid[d]] # "none"
  <2> SUFFICES ASSUME NEW d \in M
               PROVE  /\ collectedTxid[d] \in Landed /\ d \in claims[collectedTxid[d]]
                      /\ transfer[collectedTxid[d]] # "none"
    OBVIOUS
  <2>1. /\ d \in Deposit /\ d \in claims[collectedTxid[d]] /\ net[collectedTxid[d]] = "mined"
        /\ collectStatus[d] \in {"collecting", "collected"}
    BY <1>1 DEF Moved
  <2>2. collectedTxid[d] \in CollectTx \cup {NoTx} BY <2>1 DEF SolventInv, Shape
  <2>3. collectedTxid[d] \in CollectTx /\ transfer[collectedTxid[d]] # "none"
    BY <2>1, <2>2 DEF SolventInv, PointsToItsTx
  <2> QED BY <2>1, <2>3 DEF Landed
<1>4. f \in [M -> Kept] BY <1>3
<1>5. \A p \in Kept : p[2] \in M /\ f[p[2]] = p
  <2> SUFFICES ASSUME NEW p \in Kept PROVE p[2] \in M /\ f[p[2]] = p OBVIOUS
  <2>1. p \in Landed \X S /\ p[2] \in claims[p[1]] /\ transfer[p[1]] # "none" OBVIOUS
  <2>2. p[1] \in CollectTx /\ net[p[1]] = "mined" /\ p = <<p[1], p[2]>> BY <2>1 DEF Landed
  <2>3. p[2] \in S /\ currencyOf[p[2]] # "native" BY <1>1, <2>1
  <2> HIDE DEF S, Kept
  <2>4. collectedTxid[p[2]] = p[1] /\ Moved(p[2]) BY <2>1, <2>2, <2>3, MovedOnce
  <2> QED BY <2>2, <2>3, <2>4
<1>6. f \in Bijection(M, Kept)
  <2>1. \A d, e \in M : f[d] = f[e] => d = e OBVIOUS
  <2>2. \A p \in Kept : \E d \in M : f[d] = p BY <1>5
  <2> QED BY <1>4, <2>1, <2>2 DEF Bijection, Injection, Surjection, IsInjective
<1>7. M \in SUBSET S OBVIOUS
<1>8. IsFiniteSet(M) BY <1>2, <1>7, FS_Subset
<1>9. Cardinality(Kept) = Cardinality(M) BY <1>6, <1>8, FS_Bijection DEF ExistsBijection
<1>10. IsFiniteSet(Pairs)
  <2>1. IsFiniteSet(CollectTx) BY FS_Interval, CollectionAssumption DEF CollectTx
  <2>2. IsFiniteSet(Landed) BY <2>1, FS_Subset DEF Landed
  <2>3. IsFiniteSet(Landed \X S) BY <1>2, <2>2, FS_Product
  <2>4. Pairs \subseteq Landed \X S OBVIOUS
  <2> QED BY <2>3, <2>4, FS_Subset
<1>11. Cardinality(Pairs) = Cardinality(Kept) + Cardinality(Lost)
  <2>1. Kept \subseteq Pairs /\ Lost = Pairs \ Kept /\ Pairs \cap Kept = Kept OBVIOUS
  <2>2. IsFiniteSet(Kept) /\ IsFiniteSet(Lost) BY <1>10, <2>1, FS_Subset
  <2> HIDE DEF Kept, Lost, Pairs
  <2>3. Cardinality(Lost) = Cardinality(Pairs) - Cardinality(Kept)
    <3>1. Cardinality(Pairs \ Kept) = Cardinality(Pairs) - Cardinality(Pairs \cap Kept) BY <1>10, FS_Difference
    <3> QED BY <2>1, <3>1
  <2>4. Cardinality(Lost) \in Nat /\ Cardinality(Pairs) \in Nat /\ Cardinality(Kept) \in Nat
    BY <1>10, <2>2, FS_CardinalityType
  <2> QED BY <2>3, <2>4
<1>12. Cardinality(S \ M) = Cardinality(S) - Cardinality(M)
  <2>1. S \cap M = M OBVIOUS
  <2> QED BY <1>2, <2>1, FS_Difference
<1>13. Cardinality({d \in At(a, c) : ~Moved(d)}) = Cardinality(S \ M)
  <2>1. {d \in S : ~Moved(d)} = S \ M OBVIOUS
  <2> QED BY <2>1
<1>14. Held(a, c) = Cardinality(S) - Cardinality(Pairs) /\ Unrecorded(a, c) = Cardinality(Lost)
  BY DEF Held, Unrecorded
<1>15. Cardinality(S) \in Nat /\ Cardinality(M) \in Nat /\ Cardinality(Lost) \in Nat
  <2>1. Lost \subseteq Pairs OBVIOUS
  <2>2. IsFiniteSet(Lost) BY <1>10, <2>1, FS_Subset
  <2> QED BY <1>2, <1>8, <2>2, FS_CardinalityType
<1> HIDE DEF Pairs, Kept, Lost, M, S
<1>16. Cardinality(Pairs) = Cardinality(M) + Cardinality(Lost) BY <1>9, <1>11
<1> QED BY <1>12, <1>13, <1>14, <1>15, <1>16

\* An address holds the tokens and the outputs of its deposits that have not moved,
\* but for what transactions took that no row tells of: whatever the network, the
\* nodes, the caches and lost commits do, no recorded transaction moves a deposit at
\* the cost of another one, and none is believed to have left that is still there
\* (_collectorSubmitDoProcess, verifyCollectDoProcess).
THEOREM AddressesAreSolvent == CollectionSpec => []Solvent
<1>1. SolventInv => Solvent BY BooksBalance DEF Solvent
<1> QED BY <1>1, SolventInit, SolventNext, PTL DEF CollectionSpec

-----------------------------------------------------------------------------
\* Types

TypesInv ==
  /\ nonce \in [CollectTx -> Nat]
  /\ coin \in [Address -> Nat]
  /\ collectStatus \in [Deposit -> {"none", "uncollected", "seed_requested", "collecting", "collected"}]
  /\ seedLog \subseteq Deposit /\ seedSent \subseteq Address

LEMMA CostType ==
  ASSUME SolventInv, NEW x \in CollectTx, NEW outcome
  PROVE  /\ Cost(x, outcome) \in Nat
         /\ Sender(x) # {} => Cost(x, outcome) <= Cost(x, "mined")
<1>1. IsFiniteSet(claims[x])
  <2>1. claims[x] \subseteq Deposit BY DEF SolventInv, BooksInv, TransfersAgree, Arrived
  <2> QED BY <2>1, FS_Subset, CollectionAssumption
<1>2. Cardinality(claims[x]) \in Nat BY <1>1, FS_CardinalityType
<1>3. Sender(x) # {} => Cardinality(claims[x]) # 0
  <2>1. Sender(x) # {} => claims[x] # {} BY DEF Sender
  <2> QED BY <1>1, <2>1, FS_EmptySet
<1> QED BY <1>2, <1>3 DEF Cost

LEMMA NextNonceType == ASSUME NEW a PROVE NextNonce(a) \in Nat
<1>1. IsFiniteSet(CollectTx) BY FS_Interval, CollectionAssumption DEF CollectTx
<1>2. IsFiniteSet({x \in TxFrom(a) : InBlock(x)})
  <2>1. {x \in TxFrom(a) : InBlock(x)} \subseteq CollectTx BY DEF TxFrom
  <2> QED BY <1>1, <2>1, FS_Subset
<1> QED BY <1>2, FS_CardinalityType DEF NextNonce

LEMMA TypesWorld ==
  ASSUME SolventInv, TypesInv, WorldStep
  PROVE  TypesInv'
<1>1. UNCHANGED <<collectStatus, nonce, seedLog, seedSent>> BY WorldSend, WorldNetwork DEF WorldStep, Tables, seedVars
<1>2. coin' \in [Address -> Nat]
  <2>1. ASSUME NEW x \in CollectTx, NEW outcome, Mine(x, outcome), outcome \in {"mined", "reverted"}
        PROVE  coin' \in [Address -> Nat]
    <3>1. /\ coin' = [a \in Address |-> IF a \in Sender(x) THEN coin[a] - Cost(x, outcome) ELSE coin[a]]
          /\ platform = "account" => \A a \in Sender(x) : coin[a] >= Cost(x, "mined")
      BY <2>1 DEF Mine
    <3>2. Cost(x, outcome) \in Nat /\ Cost(x, "mined") \in Nat /\ platform = "utxo" => Cost(x, outcome) = 0
      BY CostType DEF Cost
    <3>3. \A a \in Address : a \in Sender(x) => Cost(x, outcome) <= Cost(x, "mined") BY CostType
    <3>4. platform \in {"account", "utxo"} BY DEF SolventInv, NetInv, NetOK
    <3>5. Cost(x, outcome) \in Nat /\ Cost(x, "mined") \in Nat BY CostType
    <3>6. platform = "utxo" => Cost(x, outcome) = 0 BY DEF Cost
    <3> DEFINE cost == Cost(x, outcome)
               full == Cost(x, "mined")
               senders == Sender(x)
    <3>7. \A a \in senders : platform = "account" => coin[a] >= full BY <3>1
    <3>8. cost \in Nat /\ full \in Nat /\ (platform = "utxo" => cost = 0) BY <3>5, <3>6
    <3>9. \A a \in Address : a \in senders => cost <= full BY <3>3
    <3>10. coin' = [a \in Address |-> IF a \in senders THEN coin[a] - cost ELSE coin[a]] BY <3>1
    <3>11. coin \in [Address -> Nat] BY DEF TypesInv
    <3> HIDE DEF cost, full, senders
    <3>12. \A a \in Address : a \in senders => coin[a] - cost \in Nat BY <3>4, <3>7, <3>8, <3>9, <3>11
    <3> QED BY <3>10, <3>11, <3>12
  <2>2. ASSUME NEW x \in CollectTx, Reorg(x) PROVE coin' \in [Address -> Nat]
    <3> DEFINE cost == Cost(x, net[x])
               senders == Sender(x)
    <3>1. coin' = [a \in Address |-> IF a \in senders THEN coin[a] + cost ELSE coin[a]] BY <2>2 DEF Reorg
    <3>2. cost \in Nat BY CostType
    <3>3. coin \in [Address -> Nat] BY DEF TypesInv
    <3> HIDE DEF cost, senders
    <3> QED BY <3>1, <3>2, <3>3
  <2>3. CASE CollectorSend BY <2>3, WorldSend DEF TypesInv
  <2>4. ASSUME NEW x \in CollectTx, Deepen(x) \/ Drop(x) \/ VerifierWaits(x) PROVE coin' \in [Address -> Nat]
    BY <2>4 DEF Deepen, Drop, VerifierWaits, TypesInv
  <2> QED BY <2>1, <2>2, <2>3, <2>4 DEF WorldStep, Network
<1> QED BY <1>1, <1>2 DEF TypesInv

LEMMA TypesTick ==
  ASSUME SolventInv, TypesInv, NEW d \in Arrived, CollectorTick(Ripe(d))
  PROVE  TypesInv'
<1> DEFINE rows == Ripe(d)
<1>1. rows \in SUBSET Arrived BY DEF Ripe
<1> HIDE DEF rows
<1>2. CASE CollectorSkips(rows) BY <1>2 DEF CollectorSkips, chainVars, seedVars, TypesInv
<1>3. CASE CollectorCannotConstruct(rows)
  <2>1. /\ UNCHANGED <<nonce, coin, seedLog, seedSent>>
        /\ \/ UNCHANGED collectStatus
           \/ collectStatus' = [collectStatus EXCEPT ![First(rows)] = "seed_requested"]
    BY <1>3 DEF CollectorCannotConstruct, chainVars, seedVars
  <2> QED BY <2>1 DEF TypesInv
<1>4. CASE CollectorConstruct(rows)
  <2>1. PICK x \in CollectTx, n \in Nat : nonce' = [nonce EXCEPT ![x] = n]
    <3> DEFINE n == IF platform = "utxo" THEN 0 ELSE NextNonce(toAddress[First(rows)])
    <3>1. n \in Nat BY NextNonceType
    <3>2. \E x \in TxFor(GroupOf(rows), n) : nonce' = [nonce EXCEPT ![x] = n] BY <1>4 DEF CollectorConstruct
    <3> HIDE DEF n
    <3> QED BY <3>1, <3>2 DEF TxFor
  <2>2. UNCHANGED <<collectStatus, coin, seedLog, seedSent>> BY <1>4 DEF CollectorConstruct, rowVars, seedVars
  <2> QED BY <2>1, <2>2 DEF TypesInv
<1> QED BY <1>2, <1>3, <1>4 DEF CollectorTick, rows

LEMMA TypesNext == SolventInv /\ TypesInv /\ [CollectionNext]_vars => TypesInv'
<1> SUFFICES ASSUME SolventInv, TypesInv, [CollectionNext]_vars PROVE TypesInv' OBVIOUS
<1>1. ASSUME NEW d \in Arrived, CollectorTick(Ripe(d)) PROVE TypesInv' BY <1>1, TypesTick
<1>2. ASSUME NEW d \in Deposit, insertDeposit(d) PROVE TypesInv'
  <2>1. coin' = coin \/ coin' = [coin EXCEPT ![toAddress[d]] = @ + 1] BY <1>2 DEF insertDeposit
  <2>2. UNCHANGED <<nonce, seedLog, seedSent>> /\ collectStatus' = [collectStatus EXCEPT ![d] = "uncollected"]
    BY <1>2 DEF insertDeposit, seedVars
  <2> QED BY <2>1, <2>2 DEF TypesInv
<1>3. ASSUME NEW d \in Deposit, Seeder(d) PROVE TypesInv'
  <2>1. /\ seedLog' = seedLog \cup {d} /\ seedSent' = seedSent \cup {toAddress[d]}
        /\ coin' = [coin EXCEPT ![toAddress[d]] = @ + 1]
        /\ UNCHANGED <<collectStatus, nonce>>
    BY <1>3 DEF Seeder, rowVars
  <2>2. toAddress[d] \in Address BY CollectionAssumption
  <2> QED BY <2>1, <2>2 DEF TypesInv
<1>4. ASSUME NEW a \in Address, verifySeed(a) PROVE TypesInv' BY <1>4 DEF verifySeed, chainVars, TypesInv
<1>5. CASE CollectorThrow \/ CollectorCrash
  BY <1>5 DEF CollectorThrow, CollectorCrash, rowVars, chainVars, seedVars, TypesInv
<1>6. CASE CollectorCommit BY <1>6 DEF CollectorCommit, chainVars, seedVars, TypesInv
<1>7. ASSUME NEW x \in CollectTx, verifyCollect(x) PROVE TypesInv'
  <2>1. PICK status :
          collectStatus' = [d \in Deposit |-> IF collectedTxid[d] = x THEN CollectOutcome(status)
                                              ELSE collectStatus[d]]
    BY <1>7 DEF verifyCollect
  <2>2. UNCHANGED <<nonce, coin, seedLog, seedSent>> BY <1>7 DEF verifyCollect, chainVars, seedVars
  <2> QED BY <2>1, <2>2 DEF TypesInv, CollectOutcome
<1>8. ASSUME UNCHANGED vars PROVE TypesInv' BY <1>8 DEF vars, rowVars, chainVars, seedVars, TypesInv
<1> QED
  BY <1>1, <1>2, <1>3, <1>4, <1>5, <1>6, <1>7, <1>8, TypesWorld DEF CollectionNext, Collector, WorldStep

\* Every variable of the collector keeps its type, under every combination of
\* faults, stale caches included: the order of the rows stays strict, whichever
\* update of it is lost (updateRecordsTimestamp), and no address pays a fee out of
\* coin that it does not hold.
THEOREM CollectionTypeCorrect == CollectionSpec => []CollectionTypeOK
<1>1. CollectionInit => TypesInv BY DEF CollectionInit, TypesInv
<1>2. SolventInv /\ TypesInv => CollectionTypeOK
  <2> SUFFICES ASSUME SolventInv, TypesInv PROVE CollectionTypeOK OBVIOUS
  <2>1. NetOK /\ Shape /\ InOrder BY DEF SolventInv, NetInv, BooksInv
  <2> QED BY <2>1 DEF TypesInv, CollectionTypeOK, NetOK, Shape, InOrder, InBlock
<1> QED BY <1>1, <1>2, SolventInit, SolventNext, TypesNext, PTL DEF CollectionSpec
===============================================================================
