----------------------------- MODULE DepositsProofs -----------------------------
(***************************************************************************)
(* The crawler, for every number of transactions, outputs and currencies,  *)
(* every number of confirmations and every length of the chain: its        *)
(* variables keep their types; and where caches are not stale, money is    *)
(* credited once and only when it is final, and no block is passed whose   *)
(* deposits are not recorded.                                              *)
(***************************************************************************)
EXTENDS Deposits, Integers, TLAPS

\* The types, and where a tick stands on the chain.
Typed ==
  /\ DepositsTypeOK
  /\ Len(chain) \in RequiredConfirmations + 1 .. MaxHeight
  /\ crawler = Idle \/ (/\ crawler.head \in RequiredConfirmations + 1 .. Len(chain)
                        /\ crawler.to \in 1 .. crawler.head
                        /\ crawler.from >= 1)

-----------------------------------------------------------------------------
LEMMA TypedInit == DepositsInit => Typed
<1> SUFFICES ASSUME DepositsInit PROVE Typed OBVIOUS
<1>1. chain \in Seq(SUBSET Tx) /\ Len(chain) = RequiredConfirmations + 1
  <2>1. chain \in [1 .. RequiredConfirmations + 1 -> SUBSET Tx] BY DEF DepositsInit
  <2> QED BY <2>1, DepositsAssumption DEF DepositsInit
<1>2. crawler \in [from : Nat, to : Nat, head : Nat, todo : SUBSET Currency,
                   read : SUBSET Currency, found : SUBSET Output, failed : BOOLEAN]
  BY DEF DepositsInit, Idle
<1> QED BY <1>1, <1>2, DepositsAssumption DEF DepositsInit, Typed, DepositsTypeOK, Empty, Height

LEMMA HeightIsNat ==
  ASSUME NEW blocks, NEW x, DOMAIN blocks \subseteq Nat
  PROVE  /\ HeightIn(blocks, x) \in Nat
         /\ HeightIn(blocks, x) # 0 => HeightIn(blocks, x) \in DOMAIN blocks /\ x \in blocks[HeightIn(blocks, x)]
BY DEF HeightIn

\* The chain does not get shorter, and blocks with enough confirmations stay.
LEMMA NetworkKeepsBlocks ==
  ASSUME Typed, Network
  PROVE  /\ chain' \in Seq(SUBSET Tx)
         /\ Len(chain) <= Len(chain') /\ Len(chain') <= MaxHeight
         /\ \A i \in DOMAIN chain : Confirmations(i) >= RequiredConfirmations => chain'[i] = chain[i]
         /\ UNCHANGED <<gatewayVars, progressVars, crawler, bookVars>>
<1>1. CASE NewBlock
  <2>1. PICK txs \in SUBSET (Tx \ Mined) : chain' = Append(chain, txs) BY <1>1 DEF NewBlock
  <2> QED BY <1>1, <2>1, DepositsAssumption DEF NewBlock, Typed, DepositsTypeOK
<1>2. ASSUME NEW first \in {i \in DOMAIN chain : Confirmations(i) < RequiredConfirmations},
             NEW blocks \in [first .. Len(chain) -> SUBSET Tx], Reorganise(first, blocks)
      PROVE  /\ chain' \in Seq(SUBSET Tx)
             /\ Len(chain') = Len(chain)
             /\ \A i \in DOMAIN chain : Confirmations(i) >= RequiredConfirmations => chain'[i] = chain[i]
             /\ UNCHANGED <<gatewayVars, progressVars, crawler, bookVars>>
  <2>1. chain' = [i \in DOMAIN chain |-> IF i \in DOMAIN blocks THEN blocks[i] ELSE chain[i]]
    BY <1>2 DEF Reorganise
  <2>2. chain \in Seq(SUBSET Tx) /\ DOMAIN chain = 1 .. Len(chain) /\ Len(chain) \in Nat
    BY DEF Typed, DepositsTypeOK
  <2>3. chain' \in [1 .. Len(chain) -> SUBSET Tx] BY <2>1, <2>2
  <2>4. chain' \in Seq(SUBSET Tx) /\ Len(chain') = Len(chain) BY <2>2, <2>3
  <2>5. \A i \in DOMAIN chain : Confirmations(i) >= RequiredConfirmations => i \notin DOMAIN blocks
    BY <2>2, DepositsAssumption DEF Confirmations
  <2> QED BY <1>2, <2>1, <2>4, <2>5 DEF Reorganise
<1> QED BY <1>1, <1>2 DEF Network, Typed

LEMMA TypedStart == ASSUME Typed, CrawlerStart PROVE Typed'
<1>1. PICK start \in ResumeFrom :
        /\ latestBlock' = IF latestBlock = 0 THEN start ELSE latestBlock
        /\ since' = IF latestBlock = 0 THEN start ELSE since
        /\ crawler' = IF start < Len(chain)
                        THEN [from |-> start + 1,
                              to |-> Min2(start + RequiredConfirmations + 1, Len(chain)),
                              head |-> Len(chain), todo |-> Currency,
                              read |-> {}, found |-> {}, failed |-> FALSE]
                        ELSE Idle
  BY DEF CrawlerStart
<1>2. start \in Nat /\ Len(chain) \in Nat BY DepositsAssumption DEF ResumeFrom, Typed, DepositsTypeOK
<1>3. /\ start < Len(chain) => Min2(start + RequiredConfirmations + 1, Len(chain)) \in 1 .. Len(chain)
  BY <1>2, DepositsAssumption DEF Min2
<1>4. CASE start < Len(chain)
  <2> DEFINE last == Min2(start + RequiredConfirmations + 1, Len(chain))
  <2>1. crawler' = [from |-> start + 1, to |-> last, head |-> Len(chain), todo |-> Currency,
                    read |-> {}, found |-> {}, failed |-> FALSE]
    BY <1>1, <1>4
  <2> HIDE DEF last
  <2>2. last \in 1 .. Len(chain) BY <1>3, <1>4 DEF last
  <2>3. /\ crawler' \in [from : Nat, to : Nat, head : Nat, todo : SUBSET Currency,
                         read : SUBSET Currency, found : SUBSET Output, failed : BOOLEAN]
        /\ crawler'.head = Len(chain) /\ crawler'.to = last /\ crawler'.from = start + 1
    BY <1>2, <2>1, <2>2
  <2>4. {latestBlock', processed', since'} \subseteq Nat
    BY <1>1, <1>2 DEF CrawlerStart, Typed, DepositsTypeOK
  <2>5. UNCHANGED <<chain, blockCache, txCache, rows, credited>>
    BY DEF CrawlerStart, networkVars, gatewayVars, bookVars
  <2> QED BY <1>2, <2>2, <2>3, <2>4, <2>5 DEF Typed, DepositsTypeOK
<1>5. CASE ~(start < Len(chain))
  BY <1>1, <1>2, <1>5 DEF CrawlerStart, Typed, DepositsTypeOK, Idle, networkVars, gatewayVars, bookVars
<1> QED BY <1>4, <1>5

LEMMA TypedRead == ASSUME Typed, NEW c \in Currency, CrawlerRead(c) PROVE Typed'
<1>1. PICK live \in SUBSET {i \in crawler.from .. crawler.to : blockCache[c][i] # Unread}, skipped \in Skipped(c) :
        LET numbers == (crawler.from .. crawler.to) \ skipped
            listed == UNION {getBlockTransactions(c, i, live) : i \in numbers}
            deposits == {o \in Output : /\ currencyOf[o] = c
                                        /\ txOf[o] \in listed
                                        /\ Creditable(txOf[o])
                                        /\ Confirmed(BlockNumberOf(c, txOf[o]))} IN
        /\ Cache(c, listed, numbers, live)
        /\ crawler' = [crawler EXCEPT !.read = @ \cup {c}, !.found = @ \cup deposits]
  BY DEF CrawlerRead
<1> DEFINE numbers == (crawler.from .. crawler.to) \ skipped
           listed == UNION {getBlockTransactions(c, i, live) : i \in numbers}
<1>2. crawler # Idle BY DEF CrawlerRead, Idle
<1>3. numbers \subseteq 1 .. Len(chain)
  BY <1>2 DEF Typed, DepositsTypeOK
<1>4. \A i \in numbers \cap Height : getBlockTransactions(c, i, live) \in {Unread} \cup SUBSET Tx
  BY <1>3 DEF getBlockTransactions, getOneBlock, listByHeight, Typed, DepositsTypeOK
<1>5. \A x \in Tx : BlockNumberOf(c, x) \in Nat
  <2>1. DOMAIN chain \subseteq Nat BY DEF Typed, DepositsTypeOK
  <2>2. \A x \in Tx : HeightIn(chain, x) \in Nat BY <2>1, HeightIsNat
  <2> QED BY <2>2 DEF BlockNumberOf, Typed, DepositsTypeOK
<1>6. blockCache' \in [Currency -> [Height -> {Unread} \cup SUBSET Tx]] /\ txCache' \in [Currency -> [Tx -> Nat]]
  <2>1. CASE "stale" \in Fault
    <3>1. Cache(c, listed, numbers, live) BY <1>1
    <3> HIDE DEF numbers, listed
    <3>2. txCache' = [txCache EXCEPT ![c] = [x \in Tx |-> IF x \in listed THEN BlockNumberOf(c, x) ELSE @[x]]]
      BY <2>1, <3>1 DEF Cache
    <3>3. blockCache' = [blockCache EXCEPT ![c] =
            [i \in Height |-> IF i \in numbers THEN getBlockTransactions(c, i, live) ELSE @[i]]]
      BY <2>1, <3>1 DEF Cache
    <3>4. txCache' \in [Currency -> [Tx -> Nat]] BY <1>5, <3>2 DEF Typed, DepositsTypeOK
    <3>5. blockCache' \in [Currency -> [Height -> {Unread} \cup SUBSET Tx]]
      BY <1>4, <3>3 DEF Typed, DepositsTypeOK
    <3> QED BY <3>4, <3>5
  <2>2. CASE "stale" \notin Fault BY <1>1, <2>2 DEF Cache, gatewayVars, Typed, DepositsTypeOK
  <2> QED BY <2>1, <2>2
<1>7. PICK S \in SUBSET Output : crawler' = [crawler EXCEPT !.read = @ \cup {c}, !.found = @ \cup S]
  BY <1>1
<1>8. /\ crawler' \in [from : Nat, to : Nat, head : Nat, todo : SUBSET Currency,
                       read : SUBSET Currency, found : SUBSET Output, failed : BOOLEAN]
      /\ crawler'.from = crawler.from /\ crawler'.to = crawler.to /\ crawler'.head = crawler.head
  BY <1>7 DEF Typed, DepositsTypeOK
<1> QED BY <1>2, <1>6, <1>8 DEF CrawlerRead, Typed, DepositsTypeOK, networkVars, progressVars, bookVars

\* A currency commits, or fails.
LEMMA TypedCurrency ==
  ASSUME Typed, NEW c \in Currency,
         onCrawlingTxs(c) \/ CrawlerFail(c)
  PROVE  Typed'
<1>1. CASE onCrawlingTxs(c)
  <2> DEFINE fresh == NewDeposits({o \in crawler.found : currencyOf[o] = c})
  <2>1. /\ rows' = rows \cup fresh
        /\ credited' = [o \in Output |-> IF o \in fresh \ ExternalOutput THEN credited[o] + 1 ELSE credited[o]]
    BY <1>1 DEF onCrawlingTxs
  <2>0. fresh \subseteq Output BY DEF NewDeposits, Typed, DepositsTypeOK
  <2> HIDE DEF fresh
  <2>2. rows' \subseteq Output /\ credited' \in [Output -> Nat] BY <2>0, <2>1 DEF Typed, DepositsTypeOK
  <2>3. PICK T \in SUBSET Currency, S \in SUBSET Output : crawler' = [crawler EXCEPT !.todo = T, !.found = S]
    BY <1>1 DEF onCrawlingTxs, Typed, DepositsTypeOK
  <2>4. crawler # Idle BY <1>1 DEF onCrawlingTxs, Idle
  <2> QED BY <1>1, <2>2, <2>3, <2>4 DEF onCrawlingTxs, Typed, DepositsTypeOK, networkVars, gatewayVars, progressVars
<1>2. CASE CrawlerFail(c)
  <2>1. PICK T \in SUBSET Currency, S \in SUBSET Output :
          crawler' = [crawler EXCEPT !.todo = T, !.failed = TRUE, !.found = S]
    BY <1>2 DEF CrawlerFail, Typed, DepositsTypeOK
  <2>2. crawler # Idle BY <1>2 DEF CrawlerFail, Idle
  <2> QED BY <1>2, <2>1, <2>2
          DEF CrawlerFail, Typed, DepositsTypeOK, networkVars, gatewayVars, progressVars, bookVars
<1> QED BY <1>1, <1>2

LEMMA TypedNext == Typed /\ [DepositsNext]_vars => Typed'
<1> SUFFICES ASSUME Typed, [DepositsNext]_vars PROVE Typed' OBVIOUS
<1>1. CASE CrawlerStart BY <1>1, TypedStart
<1>2. ASSUME NEW c \in Currency, CrawlerRead(c) PROVE Typed' BY <1>2, TypedRead
<1>3. ASSUME NEW c \in Currency, onCrawlingTxs(c) \/ CrawlerFail(c) PROVE Typed' BY <1>3, TypedCurrency
<1>4. CASE CrawlerFinish
  <2>1. SafeBlock \in Nat BY <1>4, DepositsAssumption DEF CrawlerFinish, SafeBlock, Min2, Typed, DepositsTypeOK
  <2>2. latestBlock' \in Nat /\ processed' \in Nat BY <1>4, <2>1 DEF CrawlerFinish, Typed, DepositsTypeOK
  <2> QED BY <1>4, <2>2 DEF CrawlerFinish, Typed, DepositsTypeOK, Idle, networkVars, gatewayVars, bookVars
<1>5. CASE CrawlerThrow
  BY <1>5 DEF CrawlerThrow, Typed, DepositsTypeOK, Idle, networkVars, gatewayVars, progressVars, bookVars
<1>6. CASE CrawlerCrash BY <1>6 DEF CrawlerCrash, Typed, DepositsTypeOK, Idle, Empty, networkVars, bookVars
<1>7. CASE Network
  BY <1>7, NetworkKeepsBlocks, DepositsAssumption DEF Typed, DepositsTypeOK, gatewayVars, progressVars, bookVars
<1>8. CASE UNCHANGED vars
  BY <1>8 DEF vars, Typed, DepositsTypeOK, networkVars, gatewayVars, progressVars, bookVars
<1> QED BY <1>1, <1>2, <1>3, <1>4, <1>5, <1>6, <1>7, <1>8 DEF DepositsNext, Crawler

LEMMA TypedAlways == DepositsSpec => []Typed
BY TypedInit, TypedNext, PTL DEF DepositsSpec

\* Every variable of the crawler keeps its type, stale caches included; the block
\* number that latest_block stores is one (safeBlockNumber in BaseCrawler.doProcess).
THEOREM DepositsTypeCorrect == DepositsSpec => []DepositsTypeOK
<1>1. Typed => DepositsTypeOK BY DEF Typed
<1> QED BY <1>1, TypedAlways, PTL

-----------------------------------------------------------------------------
\* Where no cache outlives a block, none is ever read.
NoStaleReads == "stale" \notin Fault

NothingCached ==
  /\ \A c \in Currency, i \in Height : blockCache[c][i] = Unread
  /\ \A c \in Currency, x \in Tx : txCache[c][x] = 0

\* A transaction is mined once.
MinedOnce == \A i, j \in DOMAIN chain : i # j => chain[i] \cap chain[j] = {}

\* What a tick has found is final, and is in its range of the chain.
FoundIsFinal == \A o \in crawler.found : Final(o)

\* The deposit row and the balance are written together.
CreditedWithRow ==
  /\ credited \in [Output -> {0, 1}]
  /\ \A o \in Output : o \notin rows => credited[o] = 0

BookInv == Typed /\ NothingCached /\ MinedOnce /\ FoundIsFinal /\ CreditedWithRow

-----------------------------------------------------------------------------
LEMMA HeightIsUnique ==
  ASSUME NEW blocks, NEW x, NEW i \in DOMAIN blocks, x \in blocks[i],
         \A j, k \in DOMAIN blocks : j # k => blocks[j] \cap blocks[k] = {}
  PROVE  HeightIn(blocks, x) = i
BY DEF HeightIn

LEMMA NetworkMinesOnce == ASSUME Typed, MinedOnce, Network PROVE MinedOnce'
<1>1. CASE NewBlock
  <2>1. PICK txs \in SUBSET (Tx \ Mined) : chain' = Append(chain, txs) BY <1>1 DEF NewBlock
  <2>2. chain \in Seq(SUBSET Tx) BY DEF Typed, DepositsTypeOK
  <2>3. \A i \in DOMAIN chain : chain'[i] = chain[i] /\ chain[i] \cap txs = {} BY <2>1, <2>2 DEF Mined
  <2>4. DOMAIN chain' = DOMAIN chain \cup {Len(chain) + 1} /\ chain'[Len(chain) + 1] = txs BY <2>1, <2>2
  <2> QED BY <2>3, <2>4 DEF MinedOnce
<1>2. ASSUME NEW first \in {i \in DOMAIN chain : Confirmations(i) < RequiredConfirmations},
             NEW blocks \in [first .. Len(chain) -> SUBSET Tx], Reorganise(first, blocks)
      PROVE  MinedOnce'
  <2>1. /\ chain' = [i \in DOMAIN chain |-> IF i \in DOMAIN blocks THEN blocks[i] ELSE chain[i]]
        /\ \A i, j \in DOMAIN blocks : i # j => blocks[i] \cap blocks[j] = {}
        /\ \A i \in DOMAIN blocks, j \in 1 .. first - 1 : blocks[i] \cap chain[j] = {}
    BY <1>2 DEF Reorganise
  <2>2. \A i \in DOMAIN chain : i \in DOMAIN blocks \/ i \in 1 .. first - 1
    BY DEF Typed, DepositsTypeOK
  <2> QED BY <2>1, <2>2 DEF MinedOnce
<1> QED BY <1>1, <1>2 DEF Network

\* What is in a block with enough confirmations stays there.
LEMMA FinalStays ==
  ASSUME Typed, MinedOnce, Network, NEW o \in Output, Final(o)
  PROVE  Final(o)' /\ HeightOf(o)' = HeightOf(o)
<1> DEFINE h == HeightOf(o)
<1>1. chain \in Seq(SUBSET Tx) /\ chain' \in Seq(SUBSET Tx) /\ Len(chain) <= Len(chain')
  BY NetworkKeepsBlocks DEF Typed, DepositsTypeOK
<1>2. h \in DOMAIN chain /\ txOf[o] \in chain[h] BY <1>1, HeightIsNat DEF Final, HeightOf
<1>3. Confirmations(h) >= RequiredConfirmations BY DEF Final
<1>4. h \in DOMAIN chain' /\ chain'[h] = chain[h] BY <1>1, <1>2, <1>3, NetworkKeepsBlocks
<1>5. MinedOnce' BY NetworkMinesOnce
<1>6. HeightIn(chain', txOf[o]) = h BY <1>2, <1>4, <1>5, HeightIsUnique DEF MinedOnce
<1>7. HeightOf(o)' = h BY <1>6 DEF HeightOf
<1>8. Len(chain') - h + 1 >= RequiredConfirmations
  BY <1>1, <1>2, <1>3, DepositsAssumption DEF Confirmations
<1>9. h # 0 /\ Creditable(txOf[o]) BY DEF Final
<1> HIDE DEF h
<1>10. Final(o)' BY <1>7, <1>8, <1>9 DEF Final, Confirmations, Creditable, isInternalTransfer
<1> QED BY <1>7, <1>10 DEF h

LEMMA BookInit == NoStaleReads /\ DepositsInit => BookInv
<1> SUFFICES ASSUME NoStaleReads, DepositsInit PROVE BookInv OBVIOUS
<1>1. Typed BY TypedInit
<1>2. CreditedWithRow BY DEF DepositsInit, CreditedWithRow
<1>3. MinedOnce BY DEF DepositsInit, MinedOnce
<1> QED BY <1>1, <1>2, <1>3 DEF DepositsInit, BookInv, NothingCached, FoundIsFinal, Empty, Idle, Height

\* Where nothing is cached, the gateways answer from the chain.
LEMMA ReadsTheChain ==
  ASSUME BookInv, NEW c \in Currency, CrawlerRead(c), NoStaleReads
  PROVE  \E skipped \in Skipped(c) :
           LET numbers == (crawler.from .. crawler.to) \ skipped
               listed == UNION {chain[i] : i \in numbers}
               deposits == {o \in Output : /\ currencyOf[o] = c
                                           /\ txOf[o] \in listed
                                           /\ Creditable(txOf[o])
                                           /\ Confirmed(HeightOf(o))} IN
           /\ \A x \in listed : HeightIn(chain, x) # 0
           /\ crawler' = [crawler EXCEPT !.read = @ \cup {c}, !.found = @ \cup deposits]
           /\ UNCHANGED gatewayVars
<1>1. PICK live \in SUBSET {i \in crawler.from .. crawler.to : blockCache[c][i] # Unread}, skipped \in Skipped(c) :
        LET numbers == (crawler.from .. crawler.to) \ skipped
            listed == UNION {getBlockTransactions(c, i, live) : i \in numbers}
            deposits == {o \in Output : /\ currencyOf[o] = c
                                        /\ txOf[o] \in listed
                                        /\ Creditable(txOf[o])
                                        /\ Confirmed(BlockNumberOf(c, txOf[o]))} IN
        /\ \A x \in listed : BlockNumberOf(c, x) # 0
        /\ Cache(c, listed, numbers, live)
        /\ crawler' = [crawler EXCEPT !.read = @ \cup {c}, !.found = @ \cup deposits]
  BY DEF CrawlerRead
<1>2. crawler.from .. crawler.to \subseteq Height
  <2>1. crawler # Idle BY DEF CrawlerRead, Idle
  <2> QED BY <2>1, DepositsAssumption DEF BookInv, Typed, DepositsTypeOK, Height
<1>3. \A i \in crawler.from .. crawler.to : getBlockTransactions(c, i, live) = chain[i]
  BY <1>2 DEF getBlockTransactions, getOneBlock, listByHeight, BookInv, NothingCached
<1>4. \A x \in Tx : BlockNumberOf(c, x) = HeightIn(chain, x)
  BY DEF BlockNumberOf, BookInv, NothingCached
<1> DEFINE numbers == (crawler.from .. crawler.to) \ skipped
           listed == UNION {chain[i] : i \in numbers}
<1>5. UNION {getBlockTransactions(c, i, live) : i \in numbers} = listed BY <1>3
<1>6. listed \subseteq Tx
  <2>1. crawler # Idle BY DEF CrawlerRead, Idle
  <2>2. numbers \subseteq 1 .. Len(chain) BY <2>1 DEF BookInv, Typed, DepositsTypeOK
  <2> QED BY <2>2 DEF BookInv, Typed, DepositsTypeOK
<1>7. {o \in Output : /\ currencyOf[o] = c /\ txOf[o] \in listed /\ Creditable(txOf[o])
                      /\ Confirmed(BlockNumberOf(c, txOf[o]))}
      = {o \in Output : /\ currencyOf[o] = c /\ txOf[o] \in listed /\ Creditable(txOf[o])
                        /\ Confirmed(HeightOf(o))}
  BY <1>4, <1>6 DEF HeightOf
<1>8. UNCHANGED gatewayVars BY <1>1 DEF Cache, NoStaleReads
<1> HIDE DEF listed
<1> QED BY <1>1, <1>4, <1>5, <1>6, <1>7, <1>8 DEF listed

LEMMA BookNext == NoStaleReads /\ BookInv /\ [DepositsNext]_vars => BookInv'
<1> SUFFICES ASSUME NoStaleReads, BookInv, [DepositsNext]_vars PROVE BookInv' OBVIOUS
<1>0. Typed' BY TypedNext DEF BookInv
<1>1. CASE CrawlerStart
  <2>1. crawler'.found = {} BY <1>1 DEF CrawlerStart, Idle
  <2> QED BY <1>0, <1>1, <2>1
          DEF CrawlerStart, BookInv, NothingCached, MinedOnce, FoundIsFinal, CreditedWithRow,
              networkVars, gatewayVars, bookVars
<1>2. ASSUME NEW c \in Currency, CrawlerRead(c) PROVE BookInv'
  <2>0. PICK skipped \in Skipped(c) :
           LET numbers == (crawler.from .. crawler.to) \ skipped
               listed == UNION {chain[i] : i \in numbers}
               deposits == {o \in Output : /\ currencyOf[o] = c
                                           /\ txOf[o] \in listed
                                           /\ Creditable(txOf[o])
                                           /\ Confirmed(HeightOf(o))} IN
           /\ \A x \in listed : HeightIn(chain, x) # 0
           /\ crawler' = [crawler EXCEPT !.read = @ \cup {c}, !.found = @ \cup deposits]
           /\ UNCHANGED gatewayVars
    BY <1>2, ReadsTheChain
  <2> DEFINE listed == UNION {chain[i] : i \in (crawler.from .. crawler.to) \ skipped}
             S == {o \in Output : /\ currencyOf[o] = c /\ txOf[o] \in listed /\ Creditable(txOf[o])
                                  /\ Confirmed(HeightOf(o))}
  <2>1. /\ \A o \in S : HeightOf(o) # 0 /\ Creditable(txOf[o]) /\ Confirmed(HeightOf(o))
        /\ crawler' = [crawler EXCEPT !.read = @ \cup {c}, !.found = @ \cup S]
        /\ UNCHANGED gatewayVars
        /\ S \subseteq Output
    BY <2>0 DEF HeightOf
  <2> HIDE DEF S
  <2>2. crawler'.found = crawler.found \cup S BY <2>1 DEF BookInv, Typed, DepositsTypeOK
  <2>3. UNCHANGED <<chain, rows, credited>> BY <1>2 DEF CrawlerRead, networkVars, bookVars
  <2>4. \A o \in S : Final(o) BY <2>1 DEF Final, Confirmed
  <2>5. FoundIsFinal' BY <2>2, <2>3, <2>4 DEF BookInv, FoundIsFinal, Final, HeightOf, Confirmations
  <2> QED BY <1>0, <2>1, <2>3, <2>5 DEF BookInv, NothingCached, MinedOnce, CreditedWithRow, gatewayVars
<1>3. ASSUME NEW c \in Currency, onCrawlingTxs(c) PROVE BookInv'
  <2> DEFINE fresh == NewDeposits({o \in crawler.found : currencyOf[o] = c})
  <2>1. /\ rows' = rows \cup fresh
        /\ credited' = [o \in Output |-> IF o \in fresh \ ExternalOutput THEN credited[o] + 1 ELSE credited[o]]
    BY <1>3 DEF onCrawlingTxs
  <2>2. fresh \cap rows = {} BY DEF NewDeposits
  <2> HIDE DEF fresh
  <2>3. CreditedWithRow' BY <2>1, <2>2 DEF BookInv, CreditedWithRow
  <2>4. crawler'.found \subseteq crawler.found BY <1>3 DEF onCrawlingTxs, BookInv, Typed, DepositsTypeOK
  <2>5. UNCHANGED <<chain, blockCache, txCache>> BY <1>3 DEF onCrawlingTxs, networkVars, gatewayVars
  <2>6. FoundIsFinal' BY <2>4, <2>5 DEF BookInv, FoundIsFinal, Final, HeightOf, Confirmations
  <2> QED BY <1>0, <2>3, <2>5, <2>6 DEF BookInv, NothingCached, MinedOnce
<1>4. ASSUME NEW c \in Currency, CrawlerFail(c) PROVE BookInv'
  <2>1. crawler'.found \subseteq crawler.found BY <1>4 DEF CrawlerFail, BookInv, Typed, DepositsTypeOK
  <2>2. UNCHANGED <<chain, blockCache, txCache, rows, credited>>
    BY <1>4 DEF CrawlerFail, networkVars, gatewayVars, bookVars
  <2>3. FoundIsFinal' BY <2>1, <2>2 DEF BookInv, FoundIsFinal, Final, HeightOf, Confirmations
  <2> QED BY <1>0, <2>2, <2>3 DEF BookInv, NothingCached, MinedOnce, CreditedWithRow
<1>5. CASE CrawlerFinish \/ CrawlerThrow \/ CrawlerCrash
  <2>0. crawler' = Idle BY <1>5 DEF CrawlerFinish, CrawlerThrow, CrawlerCrash
  <2>1. crawler'.found = {} BY <2>0 DEF Idle
  <2>2. UNCHANGED <<chain, rows, credited>>
    BY <1>5 DEF CrawlerFinish, CrawlerThrow, CrawlerCrash, networkVars, bookVars
  <2>3. NothingCached'
    <3>1. CASE CrawlerFinish \/ CrawlerThrow
      BY <3>1 DEF CrawlerFinish, CrawlerThrow, gatewayVars, BookInv, NothingCached
    <3>2. CASE CrawlerCrash BY <3>2 DEF CrawlerCrash, NothingCached, Empty
    <3> QED BY <1>5, <3>1, <3>2
  <2> QED BY <1>0, <2>1, <2>2, <2>3 DEF BookInv, MinedOnce, FoundIsFinal, CreditedWithRow
<1>6. CASE Network
  <2>1. UNCHANGED <<blockCache, txCache, crawler, rows, credited>>
    BY <1>6, NetworkKeepsBlocks DEF BookInv, gatewayVars, bookVars
  <2>2. MinedOnce' BY <1>6, NetworkMinesOnce DEF BookInv
  <2>3. FoundIsFinal'
    <3>1. crawler.found \subseteq Output BY DEF BookInv, Typed, DepositsTypeOK
    <3> QED BY <1>6, <2>1, <3>1, FinalStays DEF BookInv, FoundIsFinal
  <2> QED BY <1>0, <2>1, <2>2, <2>3 DEF BookInv, NothingCached, CreditedWithRow
<1>7. CASE UNCHANGED vars
  BY <1>0, <1>7 DEF vars, networkVars, gatewayVars, bookVars, BookInv, NothingCached, MinedOnce,
                    FoundIsFinal, CreditedWithRow, Final, HeightOf, Confirmations
<1> QED BY <1>1, <1>2, <1>3, <1>4, <1>5, <1>6, <1>7 DEF DepositsNext, Crawler

LEMMA BookAlways == NoStaleReads /\ DepositsSpec => []BookInv
<1>1. ASSUME NoStaleReads PROVE DepositsSpec => []BookInv
  <2>1. DepositsInit => BookInv BY <1>1, BookInit
  <2>2. BookInv /\ [DepositsNext]_vars => BookInv' BY <1>1, BookNext
  <2> QED BY <2>1, <2>2, PTL DEF DepositsSpec
<1> QED BY <1>1

-----------------------------------------------------------------------------
ConfirmedOutputs == {o \in Output \ ExternalOutput : Final(o)}

LEMMA BookStep ==
  ASSUME NoStaleReads, BookInv, [DepositsNext]_vars
  PROVE  [Book!Next]_<<ConfirmedOutputs, credited>>
<1>1. CASE Network
  <2>1. credited' = credited BY <1>1, NetworkKeepsBlocks DEF BookInv, bookVars
  <2>2. \A o \in Output : Final(o) => Final(o)' BY <1>1, FinalStays DEF BookInv
  <2>3. ConfirmedOutputs \subseteq ConfirmedOutputs' BY <2>2 DEF ConfirmedOutputs
  <2>4. ConfirmedOutputs' \subseteq Output BY DEF ConfirmedOutputs
  <2> QED BY <2>1, <2>3, <2>4 DEF Book!Next, Book!Confirm, ConfirmedOutputs
<1>2. ASSUME NEW c \in Currency, onCrawlingTxs(c) PROVE Book!Next
  <2> DEFINE fresh == NewDeposits({o \in crawler.found : currencyOf[o] = c})
  <2>1. credited' = [o \in Output |-> IF o \in fresh \ ExternalOutput THEN credited[o] + 1 ELSE credited[o]]
    BY <1>2 DEF onCrawlingTxs
  <2>2. \A o \in fresh : o \in Output /\ o \notin rows /\ Final(o)
    BY DEF NewDeposits, BookInv, FoundIsFinal, Typed, DepositsTypeOK
  <2> HIDE DEF fresh
  <2>3. \A o \in Output : credited'[o] # credited[o] => o \in fresh \ ExternalOutput
    BY <2>1 DEF BookInv, CreditedWithRow
  <2>4. \A o \in Output : credited'[o] # credited[o] => o \in ConfirmedOutputs /\ credited[o] = 0
    BY <2>2, <2>3 DEF ConfirmedOutputs, BookInv, CreditedWithRow
  <2>5. credited' \in [Output -> {0, 1}] BY <2>1, <2>2 DEF BookInv, CreditedWithRow
  <2>6. ConfirmedOutputs' = ConfirmedOutputs
    BY <1>2 DEF onCrawlingTxs, networkVars, ConfirmedOutputs, Final, HeightOf, Confirmations
  <2> QED BY <2>4, <2>5, <2>6 DEF Book!Next, Book!Credit, ConfirmedOutputs
<1>3. ASSUME UNCHANGED <<chain, credited>> PROVE UNCHANGED <<ConfirmedOutputs, credited>>
  BY <1>3 DEF ConfirmedOutputs, Final, HeightOf, Confirmations
<1>4. ASSUME NEW c \in Currency, CrawlerRead(c) \/ CrawlerFail(c) PROVE UNCHANGED <<chain, credited>>
  BY <1>4 DEF CrawlerRead, CrawlerFail, networkVars, bookVars
<1>5. CASE CrawlerStart \/ CrawlerFinish \/ CrawlerThrow \/ CrawlerCrash
  BY <1>3, <1>5 DEF CrawlerStart, CrawlerFinish, CrawlerThrow, CrawlerCrash, networkVars, bookVars
<1>6. CASE UNCHANGED vars BY <1>3, <1>6 DEF vars, networkVars, bookVars
<1> QED BY <1>1, <1>2, <1>3, <1>4, <1>5, <1>6 DEF DepositsNext, Crawler

\* Money is credited only when the network has confirmed it for good, and once,
\* whichever currency fails, whenever the process dies, wherever it begins again
\* and whatever is reorganised meanwhile (onCrawlingTxs, insertDeposit).
THEOREM CreditedOnceWhenFinal == NoStaleReads /\ DepositsSpec => ImplementsDepositBook
<1>1. DepositsInit => Book!Init
  BY DepositsAssumption DEF DepositsInit, Book!Init, Final, HeightOf, HeightIn
<1>2. ASSUME NoStaleReads PROVE DepositsSpec => Book!Spec
  <2>1. DepositsSpec => []BookInv BY <1>2, BookAlways
  <2>2. BookInv /\ [DepositsNext]_vars => [Book!Next]_<<ConfirmedOutputs, credited>> BY <1>2, BookStep
  <2> QED BY <1>1, <2>1, <2>2, PTL DEF DepositsSpec, Book!Spec, ConfirmedOutputs
<1> QED BY <1>2 DEF ImplementsDepositBook

-----------------------------------------------------------------------------
\* The gateways of the bitcoin and ethereum families take no missing answer for
\* an empty block, and an operator does not jump over blocks.
EveryBlockIsListed == \A c \in Currency : Listing[c] \in {"height", "cached"}
NoBlockIsJumpedOver == \A f \in ForceCrawlBlock : f <= RequiredConfirmations + 1

\* The deposits of the blocks up to h are recorded.
Covered(h) ==
  \A o \in Output : since < HeightOf(o) /\ HeightOf(o) <= h /\ Creditable(txOf[o]) => o \in rows

\* The blocks up to h do not change any more, as far as they count.
Fixed(h) == h <= since \/ h + RequiredConfirmations <= Len(chain)

\* What the crawler has behind it: latest_block, its memory, and the block
\* before the range it reads.
Behind == {latestBlock, processed, crawler.from - 1}

\* Of the part of the range that was confirmed when the tick began, each currency
\* that was read has its deposits found, and each that is done has them recorded.
RangeIsRead ==
  ~crawler.failed =>
    \A o \in Output :
      /\ crawler.from <= HeightOf(o) /\ HeightOf(o) <= crawler.to
      /\ HeightOf(o) + RequiredConfirmations <= crawler.head
      /\ Creditable(txOf[o])
      => IF currencyOf[o] \in crawler.todo
         THEN currencyOf[o] \in crawler.read => o \in crawler.found
         ELSE o \in rows

Installed ==
  /\ latestBlock # 0 => since > RequiredConfirmations
  /\ latestBlock = 0 => processed = 0 /\ crawler = Idle /\ since = 0

ProgressInv ==
  /\ BookInv
  /\ Installed
  /\ \A h \in Behind : Covered(h) /\ Fixed(h)
  /\ RangeIsRead

ProgressAssumptions == NoStaleReads /\ EveryBlockIsListed /\ NoBlockIsJumpedOver

-----------------------------------------------------------------------------
LEMMA HeightOfIsNat ==
  ASSUME Typed, NEW o \in Output
  PROVE  /\ HeightOf(o) \in Nat
         /\ HeightOf(o) # 0 => HeightOf(o) \in 1 .. Len(chain) /\ txOf[o] \in chain[HeightOf(o)]
<1>1. DOMAIN chain = 1 .. Len(chain) /\ Len(chain) \in Nat BY DEF Typed, DepositsTypeOK
<1> QED BY <1>1, HeightIsNat DEF HeightOf

LEMMA ProgressInit == ProgressAssumptions /\ DepositsInit => ProgressInv
<1> SUFFICES ASSUME ProgressAssumptions, DepositsInit PROVE ProgressInv OBVIOUS
<1>1. BookInv BY BookInit DEF ProgressAssumptions
<1>2. latestBlock = 0 /\ processed = 0 /\ since = 0 /\ crawler = Idle BY DEF DepositsInit
<1>3. Behind = {0} BY <1>2 DEF Behind, Idle
<1>4. \A o \in Output : HeightOf(o) \in Nat BY <1>1, HeightOfIsNat DEF BookInv
<1>5. Covered(0) /\ Fixed(0) BY <1>2, <1>4 DEF Covered, Fixed
<1>6. RangeIsRead BY <1>2, <1>4 DEF RangeIsRead, Idle
<1> QED BY <1>1, <1>2, <1>3, <1>5, <1>6 DEF ProgressInv, Installed

\* Blocks that are fixed keep their deposits.
LEMMA NetworkKeepsFixed ==
  ASSUME ProgressInv, Network, NEW o \in Output,
         HeightOf(o)' # 0, HeightOf(o)' + RequiredConfirmations <= Len(chain)
  PROVE  HeightOf(o) = HeightOf(o)'
<1> DEFINE h == HeightOf(o)'
<1>1. /\ chain \in Seq(SUBSET Tx) /\ chain' \in Seq(SUBSET Tx) /\ Len(chain) <= Len(chain')
      /\ \A i \in DOMAIN chain : Confirmations(i) >= RequiredConfirmations => chain'[i] = chain[i]
  BY NetworkKeepsBlocks DEF ProgressInv, BookInv, Typed, DepositsTypeOK
<1>2. DOMAIN chain' \subseteq Nat BY <1>1
<1>3. h = HeightIn(chain', txOf[o]) BY DEF HeightOf
<1>4. h \in DOMAIN chain' /\ txOf[o] \in chain'[h] BY <1>2, <1>3, HeightIsNat
<1>5. h \in DOMAIN chain /\ Confirmations(h) >= RequiredConfirmations
  <2>1. h \in Nat /\ h >= 1 /\ h + RequiredConfirmations <= Len(chain) BY <1>1, <1>4
  <2> HIDE DEF h
  <2> QED BY <1>1, <2>1, DepositsAssumption DEF Confirmations
<1>6. txOf[o] \in chain[h] BY <1>1, <1>4, <1>5
<1>7. HeightIn(chain, txOf[o]) = h
  BY <1>5, <1>6, HeightIsUnique DEF ProgressInv, BookInv, MinedOnce
<1> QED BY <1>7 DEF HeightOf

LEMMA ProgressNetwork == ASSUME ProgressInv, ProgressAssumptions, Network PROVE ProgressInv'
<1>1. /\ UNCHANGED <<latestBlock, processed, since, crawler, rows>>
      /\ chain' \in Seq(SUBSET Tx) /\ Len(chain) <= Len(chain') /\ Len(chain) \in Nat /\ Len(chain') \in Nat
  BY NetworkKeepsBlocks DEF ProgressInv, BookInv, Typed, DepositsTypeOK, progressVars, bookVars
<1>2. BookInv'
  <2>1. [DepositsNext]_vars BY DEF DepositsNext
  <2> QED BY <2>1, BookNext DEF ProgressInv, ProgressAssumptions
<1>3. \A o \in Output : HeightOf(o)' \in Nat /\ HeightOf(o) \in Nat
  <2>1. Typed /\ Typed' BY <1>2 DEF ProgressInv, BookInv
  <2>2. DOMAIN chain' \subseteq Nat BY <1>1
  <2>3. \A o \in Output : HeightIn(chain', txOf[o]) \in Nat BY <2>2, HeightIsNat
  <2> QED BY <2>1, <2>3, HeightOfIsNat DEF HeightOf
<1>4. ASSUME NEW h \in Behind PROVE Covered(h)' /\ Fixed(h)'
  <2>1. h \in Int /\ since \in Nat BY DEF Behind, ProgressInv, BookInv, Typed, DepositsTypeOK
  <2>2. Covered(h) /\ Fixed(h) BY DEF ProgressInv
  <2> HIDE DEF Behind
  <2>3. h' = h OBVIOUS
  <2>4. h <= since \/ h + RequiredConfirmations <= Len(chain') BY <1>1, <2>1, <2>2, DepositsAssumption DEF Fixed
  <2>5. ASSUME NEW o \in Output, since < HeightOf(o)', HeightOf(o)' <= h, Creditable(txOf[o])
        PROVE  o \in rows
    <3>1. h + RequiredConfirmations <= Len(chain)
      BY <1>3, <2>1, <2>2, <2>5 DEF Fixed
    <3>2. HeightOf(o)' # 0 /\ HeightOf(o)' + RequiredConfirmations <= Len(chain)
      BY <1>1, <1>3, <2>1, <2>5, <3>1, DepositsAssumption
    <3>3. HeightOf(o) = HeightOf(o)' BY <3>2, NetworkKeepsFixed
    <3> QED BY <2>2, <2>5, <3>3 DEF Covered
  <2> QED BY <1>1, <2>4, <2>5 DEF Covered, Fixed, Creditable, isInternalTransfer
<1>5. RangeIsRead'
  <2>1. SUFFICES ASSUME ~crawler.failed, NEW o \in Output,
                        crawler.from <= HeightOf(o)', HeightOf(o)' <= crawler.to,
                        HeightOf(o)' + RequiredConfirmations <= crawler.head, Creditable(txOf[o])
                 PROVE  IF currencyOf[o] \in crawler.todo
                        THEN currencyOf[o] \in crawler.read => o \in crawler.found
                        ELSE o \in rows
    BY <1>1 DEF RangeIsRead, Creditable, isInternalTransfer
  <2>2. crawler.from >= 1 /\ crawler.from \in Nat /\ crawler.head \in Nat /\ crawler.head <= Len(chain)
    BY <1>1 DEF ProgressInv, BookInv, Typed, DepositsTypeOK, Idle
  <2>3. HeightOf(o)' # 0 /\ HeightOf(o)' + RequiredConfirmations <= Len(chain)
    BY <1>1, <1>3, <2>1, <2>2, DepositsAssumption
  <2>4. HeightOf(o) = HeightOf(o)' BY <2>3, NetworkKeepsFixed
  <2> QED BY <2>1, <2>4 DEF ProgressInv, RangeIsRead
<1>6. Installed' BY <1>1 DEF ProgressInv, Installed
<1>7. Behind' = Behind BY <1>1 DEF Behind
<1> QED BY <1>2, <1>4, <1>5, <1>6, <1>7 DEF ProgressInv
\* What a step leaves behind it is covered when it is so much that was before,
\* or nothing, and no row is lost.
LEMMA StaysCovered ==
  ASSUME ProgressInv, Typed', UNCHANGED <<chain, since>>, rows \subseteq rows',
         NEW h \in Nat, Covered(h), Fixed(h)
  PROVE  Covered(h)' /\ Fixed(h)'
BY DEF Covered, Fixed, HeightOf, Creditable, isInternalTransfer

LEMMA NothingBehind ==
  ASSUME ProgressInv PROVE Covered(0) /\ Fixed(0)
<1>1. \A o \in Output : HeightOf(o) \in Nat BY HeightOfIsNat DEF ProgressInv, BookInv
<1>2. since \in Nat BY DEF ProgressInv, BookInv, Typed, DepositsTypeOK
<1> QED BY <1>1, <1>2 DEF Covered, Fixed

LEMMA IdleReadsNothing == ASSUME Typed', crawler' = Idle PROVE RangeIsRead'
<1>1. crawler'.from = 1 /\ crawler'.to = 0 BY DEF Idle
<1>2. DOMAIN chain' \subseteq Nat BY DEF Typed, DepositsTypeOK
<1>3. \A o \in Output : HeightIn(chain', txOf[o]) \in Nat BY <1>2, HeightIsNat
<1> QED BY <1>1, <1>3 DEF RangeIsRead, HeightOf

LEMMA ProgressStart == ASSUME ProgressInv, ProgressAssumptions, CrawlerStart PROVE ProgressInv'
<1>1. PICK start \in ResumeFrom :
        /\ latestBlock' = IF latestBlock = 0 THEN start ELSE latestBlock
        /\ since' = IF latestBlock = 0 THEN start ELSE since
        /\ crawler' = IF start < Len(chain)
                        THEN [from |-> start + 1,
                              to |-> Min2(start + RequiredConfirmations + 1, Len(chain)),
                              head |-> Len(chain), todo |-> Currency,
                              read |-> {}, found |-> {}, failed |-> FALSE]
                        ELSE Idle
  BY DEF CrawlerStart
<1>2. crawler = Idle /\ UNCHANGED <<chain, processed, rows>> BY DEF CrawlerStart, networkVars, bookVars
<1>3. BookInv'
  <2>1. [DepositsNext]_vars BY DEF DepositsNext, Crawler
  <2> QED BY <2>1, BookNext DEF ProgressInv, ProgressAssumptions
<1>4. Typed /\ Typed' BY <1>3 DEF ProgressInv, BookInv
<1>5. /\ Len(chain) \in Nat /\ Len(chain) > RequiredConfirmations
      /\ {since, since', latestBlock, processed} \subseteq Nat
  BY <1>4, DepositsAssumption DEF Typed, DepositsTypeOK
<1>6. start \in Nat BY <1>5, DepositsAssumption DEF ResumeFrom
<1>7. \A o \in Output : HeightOf(o) \in Nat /\ HeightOf(o)' = HeightOf(o)
  BY <1>2, <1>4, HeightOfIsNat DEF HeightOf
<1>8. Covered(start)' /\ Fixed(start)'
  <2>1. CASE latestBlock = 0
    BY <1>1, <1>5, <1>6, <1>7, <2>1 DEF Covered, Fixed
  <2>2. CASE latestBlock # 0 /\ start \in ForceCrawlBlock
    <3>1. start <= since'
      BY <1>1, <1>5, <1>6, <2>2, DepositsAssumption
         DEF ProgressAssumptions, NoBlockIsJumpedOver, ProgressInv, Installed
    <3> QED BY <1>5, <1>6, <1>7, <3>1 DEF Covered, Fixed
  <2>3. CASE latestBlock # 0 /\ start \notin ForceCrawlBlock
    <3>1. start \in Behind BY <2>3 DEF ResumeFrom, Behind
    <3>2. Covered(start) /\ Fixed(start) BY <3>1 DEF ProgressInv
    <3> QED BY <1>1, <1>2, <1>4, <1>6, <2>3, <3>2, StaysCovered
  <2> QED BY <2>1, <2>2, <2>3
<1>9. ASSUME NEW h \in Behind' PROVE Covered(h)' /\ Fixed(h)'
  <2>1. crawler'.from = start + 1 \/ crawler'.from = 1 BY <1>1 DEF Idle
  <2>2. h = latestBlock' \/ h = processed \/ h = start \/ h = 0
    BY <1>2, <1>6, <2>1 DEF Behind
  <2>3. CASE latestBlock = 0
    <3>1. processed = 0 BY <2>3 DEF ProgressInv, Installed
    <3>2. h = start \/ h = 0 BY <1>1, <2>2, <2>3, <3>1
    <3>3. Covered(0)' /\ Fixed(0)' BY <1>5, <1>7 DEF Covered, Fixed
    <3> QED BY <1>8, <3>2, <3>3
  <2>4. CASE latestBlock # 0
    <3>1. h \in {latestBlock, processed, 0} \/ h = start BY <1>1, <2>2, <2>4
    <3>2. h \in {latestBlock, processed, 0} => Covered(h) /\ Fixed(h)
      BY NothingBehind DEF ProgressInv, Behind
    <3>3. h \in {latestBlock, processed, 0} => h \in Nat BY <1>5
    <3>4. UNCHANGED <<chain, since, rows>> BY <1>1, <1>2, <2>4
    <3> QED BY <1>4, <1>8, <3>1, <3>2, <3>3, <3>4, StaysCovered
  <2> QED BY <2>3, <2>4
<1>10. RangeIsRead'
  <2>1. CASE start < Len(chain)
    <3>1. crawler'.read = {} /\ crawler'.todo = Currency BY <1>1, <2>1
    <3> QED BY <3>1, DepositsAssumption DEF RangeIsRead
  <2>2. CASE ~(start < Len(chain)) BY <1>1, <1>4, <2>2, IdleReadsNothing
  <2> QED BY <2>1, <2>2
<1>11. Installed'
  <2>1. latestBlock = 0 => processed = 0 /\ start = Len(chain) BY DEF ProgressInv, Installed, ResumeFrom
  <2> QED BY <1>1, <1>2, <1>5, <1>6, <2>1, DepositsAssumption DEF ProgressInv, Installed
<1> QED BY <1>3, <1>9, <1>10, <1>11 DEF ProgressInv
LEMMA ProgressRead ==
  ASSUME ProgressInv, ProgressAssumptions, NEW c \in Currency, CrawlerRead(c) PROVE ProgressInv'
<1>1. BookInv'
  <2>1. [DepositsNext]_vars BY DEF DepositsNext, Crawler
  <2> QED BY <2>1, BookNext DEF ProgressInv, ProgressAssumptions
<1>2. Typed /\ Typed' BY <1>1 DEF ProgressInv, BookInv
<1>3. UNCHANGED <<chain, latestBlock, processed, since, rows>>
  BY DEF CrawlerRead, networkVars, progressVars, bookVars
<1>4. Skipped(c) = {{}} BY DEF Skipped, ProgressAssumptions, EveryBlockIsListed
<1> DEFINE listed == UNION {chain[i] : i \in crawler.from .. crawler.to}
           S == {o \in Output : /\ currencyOf[o] = c /\ txOf[o] \in listed /\ Creditable(txOf[o])
                                /\ Confirmed(HeightOf(o))}
<1>5. crawler' = [crawler EXCEPT !.read = @ \cup {c}, !.found = @ \cup S]
  <2>1. PICK skipped \in Skipped(c) :
           LET numbers == (crawler.from .. crawler.to) \ skipped
               seen == UNION {chain[i] : i \in numbers}
               deposits == {o \in Output : /\ currencyOf[o] = c
                                           /\ txOf[o] \in seen
                                           /\ Creditable(txOf[o])
                                           /\ Confirmed(HeightOf(o))} IN
           /\ \A x \in seen : HeightIn(chain, x) # 0
           /\ crawler' = [crawler EXCEPT !.read = @ \cup {c}, !.found = @ \cup deposits]
           /\ UNCHANGED gatewayVars
    BY ReadsTheChain DEF ProgressInv, ProgressAssumptions
  <2>2. (crawler.from .. crawler.to) \ skipped = crawler.from .. crawler.to BY <1>4, <2>1
  <2> QED BY <2>1, <2>2
<1>6. ASSUME NEW o \in Output, currencyOf[o] = c, Creditable(txOf[o]),
             crawler.from <= HeightOf(o), HeightOf(o) <= crawler.to,
             HeightOf(o) + RequiredConfirmations <= crawler.head
      PROVE  o \in S
  <2>0. crawler # Idle BY DEF CrawlerRead, Idle
  <2>1. crawler # Idle /\ crawler.from \in Nat /\ crawler.to \in Nat /\ crawler.head \in Nat
    BY <1>2, <2>0 DEF Typed, DepositsTypeOK
  <2>2. crawler.head <= Len(chain) /\ Len(chain) \in Nat /\ crawler.from >= 1
    BY <1>2, <2>1 DEF Typed, DepositsTypeOK
  <2>3. HeightOf(o) \in Nat BY <1>2, HeightOfIsNat
  <2>4. HeightOf(o) # 0 BY <1>6, <2>1, <2>2, <2>3
  <2>5. txOf[o] \in chain[HeightOf(o)] BY <1>2, <2>4, HeightOfIsNat
  <2>6. HeightOf(o) \in crawler.from .. crawler.to BY <1>6, <2>1, <2>3
  <2>7. txOf[o] \in listed BY <2>5, <2>6
  <2>8. Confirmed(HeightOf(o))
    BY <1>6, <2>1, <2>2, <2>3, DepositsAssumption DEF Confirmed, Confirmations
  <2> QED BY <1>6, <2>7, <2>8
<1> HIDE DEF S
<1>7. /\ crawler'.from = crawler.from /\ crawler'.to = crawler.to /\ crawler'.head = crawler.head
      /\ crawler'.todo = crawler.todo /\ crawler'.failed = crawler.failed
      /\ crawler'.read = crawler.read \cup {c} /\ crawler'.found = crawler.found \cup S
  BY <1>2, <1>5 DEF Typed, DepositsTypeOK
<1>8. \A o \in Output : HeightOf(o)' = HeightOf(o) BY <1>3 DEF HeightOf
<1>9. RangeIsRead'
  BY <1>3, <1>6, <1>7, <1>8 DEF ProgressInv, RangeIsRead, Creditable, isInternalTransfer
<1>10. Behind' = Behind BY <1>3, <1>7 DEF Behind
<1>11. \A h \in Behind : Covered(h)' /\ Fixed(h)'
  BY <1>3, <1>8 DEF ProgressInv, Covered, Fixed, Creditable, isInternalTransfer
<1>12. Installed'
  <2>1. latestBlock # 0 BY DEF CrawlerRead, Idle, ProgressInv, Installed
  <2> QED BY <1>3, <2>1 DEF ProgressInv, Installed
<1> QED BY <1>1, <1>9, <1>10, <1>11, <1>12 DEF ProgressInv

LEMMA ProgressCurrency ==
  ASSUME ProgressInv, ProgressAssumptions, NEW c \in Currency, onCrawlingTxs(c) \/ CrawlerFail(c)
  PROVE  ProgressInv'
<1>1. BookInv'
  <2>1. [DepositsNext]_vars BY DEF DepositsNext, Crawler
  <2> QED BY <2>1, BookNext DEF ProgressInv, ProgressAssumptions
<1>2. Typed /\ Typed' BY <1>1 DEF ProgressInv, BookInv
<1>3. UNCHANGED <<chain, latestBlock, processed, since>>
  BY DEF onCrawlingTxs, CrawlerFail, networkVars, progressVars
<1>4. rows \subseteq rows' BY DEF onCrawlingTxs, CrawlerFail, bookVars
<1>5. \A o \in Output : HeightOf(o)' = HeightOf(o) BY <1>3 DEF HeightOf
<1>6. crawler'.from = crawler.from
  BY <1>2 DEF onCrawlingTxs, CrawlerFail, Typed, DepositsTypeOK
<1>7. RangeIsRead'
  <2>1. CASE onCrawlingTxs(c)
    <3>1. /\ crawler'.todo = crawler.todo \ {c} /\ crawler'.read = crawler.read
          /\ crawler'.found = {o \in crawler.found : currencyOf[o] # c}
          /\ crawler'.to = crawler.to /\ crawler'.head = crawler.head /\ crawler'.failed = crawler.failed
          /\ c \in crawler.todo /\ c \in crawler.read
      BY <1>2, <2>1 DEF onCrawlingTxs, Typed, DepositsTypeOK
    <3>2. \A o \in crawler.found : currencyOf[o] = c => o \in rows'
      BY <2>1 DEF onCrawlingTxs, NewDeposits
    <3> QED BY <1>3, <1>4, <1>5, <1>6, <3>1, <3>2
            DEF ProgressInv, RangeIsRead, Creditable, isInternalTransfer
  <2>2. CASE CrawlerFail(c)
    <3>1. crawler'.failed BY <1>2, <2>2 DEF CrawlerFail, Typed, DepositsTypeOK
    <3> QED BY <3>1 DEF RangeIsRead
  <2> QED BY <2>1, <2>2
<1>8. Behind' = Behind BY <1>3, <1>6 DEF Behind
<1>9. \A h \in Behind : Covered(h)' /\ Fixed(h)'
  BY <1>3, <1>4, <1>5 DEF ProgressInv, Covered, Fixed, Creditable, isInternalTransfer
<1>10. Installed'
  <2>1. latestBlock # 0 BY DEF onCrawlingTxs, CrawlerFail, Idle, ProgressInv, Installed
  <2> QED BY <1>3, <2>1 DEF ProgressInv, Installed
<1> QED BY <1>1, <1>7, <1>8, <1>9, <1>10 DEF ProgressInv

\* A tick that ends leaves behind it what its safe block covers, or what was there.
LEMMA ProgressEnd ==
  ASSUME ProgressInv, ProgressAssumptions, CrawlerFinish \/ CrawlerThrow \/ CrawlerCrash
  PROVE  ProgressInv'
<1>1. BookInv'
  <2>1. [DepositsNext]_vars BY DEF DepositsNext, Crawler
  <2> QED BY <2>1, BookNext DEF ProgressInv, ProgressAssumptions
<1>2. Typed /\ Typed' BY <1>1 DEF ProgressInv, BookInv
<1>3. crawler' = Idle /\ UNCHANGED <<chain, since, rows>>
  BY DEF CrawlerFinish, CrawlerThrow, CrawlerCrash, networkVars, progressVars, bookVars
<1>4. RangeIsRead' BY <1>2, <1>3, IdleReadsNothing
<1>5. ASSUME CrawlerFinish PROVE SafeBlock \in Nat \ {0} /\ Covered(SafeBlock) /\ Fixed(SafeBlock)
  <2>1. /\ crawler.todo = {} /\ ~crawler.failed /\ crawler # Idle
        /\ {crawler.from, crawler.to, crawler.head, since, Len(chain)} \subseteq Nat
        /\ crawler.from >= 1 /\ crawler.to >= 1 /\ crawler.head <= Len(chain)
        /\ crawler.head > RequiredConfirmations
    BY <1>2, <1>5, DepositsAssumption DEF CrawlerFinish, AllSucceeded, Typed, DepositsTypeOK
  <2>2. /\ SafeBlock \in Nat \ {0} /\ SafeBlock <= crawler.to
        /\ SafeBlock + RequiredConfirmations <= crawler.head
    BY <2>1, DepositsAssumption DEF SafeBlock, Min2
  <2>3. Fixed(SafeBlock) BY <2>1, <2>2, DepositsAssumption DEF Fixed
  <2>4. ASSUME NEW o \in Output, since < HeightOf(o), HeightOf(o) <= SafeBlock, Creditable(txOf[o])
        PROVE  o \in rows
    <3>1. HeightOf(o) \in Nat BY <1>2, HeightOfIsNat
    <3>2. CASE HeightOf(o) < crawler.from
      <4>1. crawler.from - 1 \in Behind BY DEF Behind
      <4>2. Covered(crawler.from - 1) BY <4>1 DEF ProgressInv
      <4>3. HeightOf(o) <= crawler.from - 1 BY <2>1, <3>1, <3>2
      <4> QED BY <2>4, <4>2, <4>3 DEF Covered
    <3>3. CASE HeightOf(o) >= crawler.from
      <4>1. HeightOf(o) <= crawler.to /\ HeightOf(o) + RequiredConfirmations <= crawler.head
        BY <2>1, <2>2, <2>4, <3>1, DepositsAssumption
      <4>2. currencyOf[o] \notin crawler.todo BY <2>1
      <4> QED BY <2>1, <2>4, <3>3, <4>1, <4>2 DEF ProgressInv, RangeIsRead
    <3> QED BY <2>1, <3>1, <3>2, <3>3
  <2> QED BY <2>2, <2>3, <2>4 DEF Covered
<1>6. ASSUME NEW h \in Behind' PROVE Covered(h)' /\ Fixed(h)'
  <2>1. crawler'.from - 1 = 0 BY <1>3 DEF Idle
  <2>2. \/ h \in {latestBlock, processed, 0}
        \/ CrawlerFinish /\ h = SafeBlock
    <3>1. CASE CrawlerFinish
      <4>1. processed' = SafeBlock /\ latestBlock' \in {SafeBlock, latestBlock} BY <3>1 DEF CrawlerFinish
      <4> QED BY <2>1, <3>1, <4>1 DEF Behind
    <3>2. CASE CrawlerThrow BY <2>1, <3>2 DEF CrawlerThrow, progressVars, Behind
    <3>3. CASE CrawlerCrash BY <2>1, <3>3 DEF CrawlerCrash, Behind
    <3> QED BY <3>1, <3>2, <3>3
  <2>3. h \in {latestBlock, processed, 0} => h \in Nat /\ Covered(h) /\ Fixed(h)
    BY <1>2, NothingBehind DEF ProgressInv, Behind, Typed, DepositsTypeOK
  <2>4. h \in Nat /\ Covered(h) /\ Fixed(h) BY <1>5, <2>2, <2>3
  <2> QED BY <1>2, <1>3, <2>4, StaysCovered
<1>7. Installed'
  <2>1. CASE CrawlerFinish
    <3>1. latestBlock # 0 BY <2>1 DEF CrawlerFinish, ProgressInv, Installed
    <3>2. latestBlock' # 0
      <4>1. latestBlock' \in {SafeBlock, latestBlock} BY <2>1 DEF CrawlerFinish
      <4> QED BY <1>5, <2>1, <3>1, <4>1
    <3> QED BY <1>3, <3>1, <3>2 DEF ProgressInv, Installed
  <2>2. CASE CrawlerThrow BY <1>3, <2>2 DEF CrawlerThrow, progressVars, ProgressInv, Installed
  <2>3. CASE CrawlerCrash BY <1>3, <2>3 DEF CrawlerCrash, ProgressInv, Installed
  <2> QED BY <2>1, <2>2, <2>3
<1> QED BY <1>1, <1>4, <1>6, <1>7 DEF ProgressInv

LEMMA ProgressNext == ASSUME ProgressInv, ProgressAssumptions, [DepositsNext]_vars PROVE ProgressInv'
<1>1. CASE CrawlerStart BY <1>1, ProgressStart
<1>2. ASSUME NEW c \in Currency, CrawlerRead(c) PROVE ProgressInv' BY <1>2, ProgressRead
<1>3. ASSUME NEW c \in Currency, onCrawlingTxs(c) \/ CrawlerFail(c) PROVE ProgressInv'
  BY <1>3, ProgressCurrency
<1>4. CASE CrawlerFinish \/ CrawlerThrow \/ CrawlerCrash BY <1>4, ProgressEnd
<1>5. CASE Network BY <1>5, ProgressNetwork
<1>6. CASE UNCHANGED vars
  <2>1. BookInv' BY BookNext DEF ProgressInv, ProgressAssumptions
  <2>2. UNCHANGED <<chain, latestBlock, processed, since, crawler, rows>>
    BY <1>6 DEF vars, networkVars, progressVars, bookVars
  <2> QED BY <2>1, <2>2 DEF ProgressInv, Installed, Behind, Covered, Fixed, RangeIsRead, HeightOf,
                            Creditable, isInternalTransfer
<1> QED BY <1>1, <1>2, <1>3, <1>4, <1>5, <1>6 DEF DepositsNext, Crawler

\* No deposit slips through: what latest_block or the memory of the process has
\* passed is recorded, whichever currency failed, whenever the process died and
\* whatever was reorganised on the way (safeBlockNumber in BaseCrawler.doProcess,
\* latest_block in onBlockCrawled), where the gateways list every block.
THEOREM NothingSlipsThrough == ProgressAssumptions /\ DepositsSpec => []NothingMissed
<1>1. ASSUME ProgressAssumptions PROVE DepositsSpec => []NothingMissed
  <2>1. DepositsInit => ProgressInv BY <1>1, ProgressInit
  <2>2. ProgressInv /\ [DepositsNext]_vars => ProgressInv' BY <1>1, ProgressNext
  <2>3. ProgressInv => NothingMissed BY DEF ProgressInv, Behind, Covered, NothingMissed
  <2> QED BY <2>1, <2>2, <2>3, PTL DEF DepositsSpec
<1> QED BY <1>1
=============================================================================
