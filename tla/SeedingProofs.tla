----------------------------- MODULE SeedingProofs -----------------------------
(***************************************************************************)
(* The fee seeder beside the pipeline: what the pipeline guarantees it     *)
(* still guarantees when the seeder spends from the same hot wallets, and  *)
(* an address is seeded by one recorded transfer at a time.  Proved for    *)
(* every number of deposits, addresses, seeds and withdrawals.             *)
(***************************************************************************)
EXTENDS Seeding, WithdrawalsProofs

\* A sent seed of this platform has a logged deposit that still waits, and
\* pays the address of that deposit only.
SentSeedIsLogged ==
  \A s \in Seed \ ForeignSeed :
    seedStatus[s] = "sent" =>
      \E d \in Requested : <<s, d>> \in seedLog /\ seedTo[s] = {toAddress[d]}

\* The rows of the other platforms pay none of our addresses.
ForeignSeedsPayElsewhere == \A s \in ForeignSeed : seedTo[s] = {}

\* What the seeder read stays true until it writes.
SeederUpToDate ==
  seeder # Idle =>
    /\ seeder.seed \in Seed \ ForeignSeed
    /\ seedStatus[seeder.seed] = "none"
    /\ \E d \in Requested :
         /\ seeder.deposit = {d}
         /\ seedTo[seeder.seed] = {toAddress[d]}
         /\ \A s \in Seed : seedStatus[s] = "sent" => toAddress[d] \notin seedTo[s]

SeedConsistent ==
  /\ SentSeedIsLogged
  /\ ForeignSeedsPayElsewhere
  /\ SeederUpToDate
  /\ AtMostOneSeedInFlight

SeedIInv == SeedingTypeOK /\ Consistent /\ NothingStale /\ SeedConsistent

-----------------------------------------------------------------------------
\* The pipeline under the steps of the seeder

LEMMA SeedIInvInit == SeedingInit => SeedIInv
<1> SUFFICES ASSUME SeedingInit PROVE SeedIInv OBVIOUS
<1>1. TypeOK /\ Consistent /\ NothingStale BY TypeInit, ConsistentInit DEF SeedingInit
<1>2. SeedingTypeOK BY <1>1 DEF SeedingInit, SeedingTypeOK, Idle
<1>3. \A s \in Seed : seedStatus[s] = "none" BY DEF SeedingInit, Init
<1>4. SeedConsistent
  BY <1>3, WithdrawalsAssumption
  DEF SeedingInit, SeedConsistent, SentSeedIsLogged, ForeignSeedsPayElsewhere, SeederUpToDate,
      AtMostOneSeedInFlight
<1> QED BY <1>1, <1>2, <1>4 DEF SeedIInv

\* A step that leaves the rows alone, and no transaction that was given up,
\* settled or not yet sent, keeps the pipeline consistent.
LEMMA ConsistentAround ==
  ASSUME Consistent,
         UNCHANGED <<wStatus, wTx, tStatus, pays, debited, feeDebits, picker, sender>>,
         \A t \in WithdrawalTx : net[t] \in {"absent", "final", "reverted"} => net'[t] = net[t]
  PROVE  Consistent'
BY DEF Consistent, LinkedToPayer, PendingLinked, StatusShared, OthersGivenUp, TxTellsTruth,
       WorkersUpToDate, BatchesOfOne, LedgerFollows, PendingTx

\* The steps of the seeder, and of the verifier with a seed.
SeedStep ==
  \/ Seeder \/ SeederCrash
  \/ \E d \in Deposit : requestSeed(d)
  \/ \E s \in Seed \ ForeignSeed : verifySeed(s) \/ waitForSeed(s)

\* What such a step does to the variables of the pipeline.
LEMMA SeedStepOnPipeline ==
  ASSUME SeedIInv, SeedStep
  PROVE  TypeOK' /\ Consistent' /\ NothingStale'
<1> USE DEF rowVars, ledgerVars, localVars
<1>0. TypeOK /\ ChainTypeOK /\ Consistent BY DEF SeedIInv, SeedingTypeOK, TypeOK
<1>1. CASE UNCHANGED vars
  BY <1>0, <1>1, ConsistentAround
  DEF vars, chainVars, TypeOK, ChainTypeOK, NothingStale, SeedIInv
<1>2. ASSUME NEW s \in Seed, NEW h \in HotWallet, Record(s, h, mined[h]),
             UNCHANGED <<rowVars, seedStatus, ledgerVars, localVars>>
      PROVE  TypeOK' /\ Consistent' /\ NothingStale'
  <2>1. ChainTypeOK'
    BY <1>0, <1>2, WithdrawalsAssumption DEF ChainTypeOK, Record
  <2> QED BY <1>0, <1>2, <2>1, ConsistentAround DEF TypeOK, Record, NothingStale, SeedIInv
<1>3. ASSUME NEW s \in Seed, sendRawTransaction(s),
             UNCHANGED <<rowVars, seedStatus, ledgerVars, localVars>>
      PROVE  TypeOK' /\ Consistent' /\ NothingStale'
  <2>1. s \in Tx /\ s \notin WithdrawalTx BY WithdrawalsAssumption
  <2>2. ChainTypeOK' BY <1>0, <1>3, <2>1, TypeAccept
  <2>3. \A t \in WithdrawalTx : net[t] \in {"absent", "final", "reverted"} => net'[t] = net[t]
    BY <1>0, <1>3, <2>1, WithdrawalsAssumption
    DEF sendRawTransaction, Accept, chainVars, ChainTypeOK
  <2> QED BY <1>0, <1>3, <2>2, <2>3, ConsistentAround
          DEF TypeOK, NothingStale, SeedIInv, sendRawTransaction, Accept, chainVars
<1>4. ASSUME NEW s \in Seed, seedStatus' = [seedStatus EXCEPT ![s] = "sent"],
             UNCHANGED <<chainVars, rowVars, ledgerVars, localVars>>
      PROVE  TypeOK' /\ Consistent' /\ NothingStale'
  BY <1>0, <1>4, ConsistentAround DEF TypeOK, ChainTypeOK, chainVars, NothingStale, SeedIInv
<1>5. ASSUME NEW s \in Seed, verifySeed(s)
      PROVE  TypeOK' /\ Consistent' /\ NothingStale'
  BY <1>0, <1>5, ConsistentAround
  DEF verifySeed, Settled, TypeOK, ChainTypeOK, chainVars, NothingStale, SeedIInv
<1>6. ASSUME NEW s \in Seed, waitForSeed(s)
      PROVE  TypeOK' /\ Consistent' /\ NothingStale'
  <2>1. cached' \in [Reader \X Tx -> CacheEntry]
    BY <1>0, <1>6, TypeRemember, WithdrawalsAssumption DEF waitForSeed, Reader
  <2>2. NothingStale' BY <1>6 DEF waitForSeed, Remember, NothingStale, NoStaleReads, SeedIInv
  <2> QED BY <1>0, <1>6, <2>1, <2>2, ConsistentAround DEF waitForSeed, TypeOK, ChainTypeOK
<1>7. CASE \E d \in Deposit, s \in Seed \ ForeignSeed : SeederConstruct(d, s)
  BY <1>2, <1>7 DEF SeederConstruct, findFreeHotWallets
<1>8. CASE SeederSend
  BY <1>3, <1>8 DEF SeederSend, SeedIInv, SeedConsistent, SeederUpToDate
<1>9. CASE SeederCommit
  <2>1. seeder # Idle BY <1>9 DEF SeederCommit, Idle
  <2> QED BY <1>4, <1>9, <2>1 DEF SeederCommit, SeedIInv, SeedConsistent, SeederUpToDate
<1> QED BY <1>1, <1>5, <1>6, <1>7, <1>8, <1>9
        DEF SeedStep, Seeder, SeederThrow, SeederCrash, requestSeed

-----------------------------------------------------------------------------
\* The seeds under every step

\* The steps of the pipeline leave the seeds of this platform alone.
LEMMA SeedStatusInNext ==
  ASSUME SeedIInv, [Next]_vars PROVE \A s \in Seed \ ForeignSeed : seedStatus'[s] = seedStatus[s]
<1> USE DEF rowVars, chainVars, ledgerVars, localVars
<1>1. CASE OtherPlatform
  BY <1>1 DEF OtherPlatform, ForeignSeedSent, ForeignSeedSettled, SeedIInv, SeedingTypeOK, TypeOK
<1>2. CASE WebService
  BY <1>2 DEF WebService, approveTransaction, saveThreshold, InsertSweeps
<1>3. CASE Picker \/ PickerCrash
  BY <1>3 DEF Picker, PickerCrash, checkUpperThreshold, InsertSweeps, PickerConstruct,
              PickerPostpone, PickerCommit
<1>4. CASE Signer BY <1>4 DEF Signer, SignerPostpone, SignerSign
<1>5. CASE Sender \/ SenderCrash
  BY <1>5 DEF Sender, SenderCrash, SenderCommit, SenderMark, MarkSent, SenderReconstruct,
              SenderSubmit, SenderSeesInVain
<1>6. CASE Verifier BY <1>6 DEF Verifier, VerifierWait, VerifierSettle
<1>7. CASE Network BY <1>7 DEF Network
<1>8. CASE UNCHANGED vars BY <1>8 DEF vars
<1> QED BY <1>1, <1>2, <1>3, <1>4, <1>5, <1>6, <1>7, <1>8 DEF Next, WorkerStep

\* The seeds of the other platforms do not matter: they pay no address of ours.
LEMMA SeedsUndisturbed ==
  ASSUME SeedIInv, UNCHANGED <<seedLog, seedTo, seeder>>, Requested \subseteq Requested',
         \A s \in Seed \ ForeignSeed : seedStatus'[s] = seedStatus[s]
  PROVE  SeedConsistent'
<1> USE DEF SeedIInv, SeedConsistent
<1>1. SentSeedIsLogged' BY DEF SentSeedIsLogged
<1>2. ForeignSeedsPayElsewhere' BY DEF ForeignSeedsPayElsewhere
<1>3. \A s \in Seed : seedTo[s] # {} => seedStatus'[s] = seedStatus[s] BY DEF ForeignSeedsPayElsewhere
<1>4. AtMostOneSeedInFlight' BY <1>3 DEF AtMostOneSeedInFlight
<1>5. SeederUpToDate' BY <1>3 DEF SeederUpToDate
<1> QED BY <1>1, <1>2, <1>4, <1>5

\* A candidate's address is not paid by a sent seed.
LEMMA CandidateIsFree ==
  ASSUME SeedIInv, NEW d \in SeedCandidates, NEW s \in Seed, seedStatus[s] = "sent"
  PROVE  toAddress[d] \notin seedTo[s]
<1>1. CASE s \in ForeignSeed BY <1>1 DEF SeedIInv, SeedConsistent, ForeignSeedsPayElsewhere
<1>2. CASE s \notin ForeignSeed
  <2>1. PICK e \in Requested : <<s, e>> \in seedLog /\ seedTo[s] = {toAddress[e]}
    BY <1>2 DEF SeedIInv, SeedConsistent, SentSeedIsLogged
  <2>2. toAddress[e] \in SeedingAddresses BY <2>1 DEF SeedingAddresses
  <2> QED BY <2>1, <2>2 DEF SeedCandidates
<1> QED BY <1>1, <1>2

LEMMA SeedConstruct ==
  ASSUME SeedIInv, NEW d \in Deposit, NEW s \in Seed \ ForeignSeed, SeederConstruct(d, s)
  PROVE  SeedConsistent'
<1> USE DEF SeedIInv, SeedConsistent, SeederConstruct
<1>1. seedTo \in [Seed -> SUBSET Address] BY DEF SeedingTypeOK
<1>2. \A u \in Seed : seedTo'[u] = IF u = s THEN {toAddress[d]} ELSE seedTo[u] BY <1>1
<1>3. Requested' = Requested /\ d \in Requested /\ UNCHANGED <<seedStatus, seedLog>>
  BY DEF Requested, SeedCandidates
<1>4. seedStatus[s] = "none" OBVIOUS
<1>5. SentSeedIsLogged'
  <2>1. SentSeedIsLogged OBVIOUS
  <2>2. \A u \in Seed : seedStatus'[u] = "sent" => u # s /\ seedTo'[u] = seedTo[u] BY <1>2, <1>3, <1>4
  <2> QED BY ONLY <1>3, <2>1, <2>2 DEF SentSeedIsLogged
<1>6. ForeignSeedsPayElsewhere' BY <1>2, WithdrawalsAssumption DEF ForeignSeedsPayElsewhere
<1>7. AtMostOneSeedInFlight' BY <1>2, <1>3, <1>4 DEF AtMostOneSeedInFlight
<1>8. SeederUpToDate' BY <1>2, <1>3, <1>4, CandidateIsFree DEF SeederUpToDate
<1> QED BY <1>5, <1>6, <1>7, <1>8

LEMMA SeedCommit ==
  ASSUME SeedIInv, SeederCommit PROVE SeedConsistent'
<1> USE DEF SeedIInv, SeedConsistent, SeederCommit
<1>1. seeder # Idle BY DEF Idle
<1> DEFINE s == seeder.seed
<1>2. s \in Seed \ ForeignSeed BY <1>1 DEF SeederUpToDate
<1>3. PICK d \in Requested :
        /\ seeder.deposit = {d}
        /\ seedTo[s] = {toAddress[d]}
        /\ \A u \in Seed : seedStatus[u] = "sent" => toAddress[d] \notin seedTo[u]
  BY <1>1 DEF SeederUpToDate
<1>4. seedStatus' = [seedStatus EXCEPT ![s] = "sent"] OBVIOUS
<1> HIDE DEF s
<1>5. \A u \in Seed : seedStatus'[u] = IF u = s THEN "sent" ELSE seedStatus[u]
  BY <1>4 DEF SeedingTypeOK, TypeOK
<1>6. Requested' = Requested /\ seedTo' = seedTo /\ seedLog \subseteq seedLog' BY DEF Requested
<1>7. <<s, d>> \in seedLog' BY <1>3 DEF s
<1>8. SentSeedIsLogged'
  <2>1. SentSeedIsLogged OBVIOUS
  <2> QED BY ONLY <1>3, <1>5, <1>6, <1>7, <2>1 DEF SentSeedIsLogged
<1>9. ForeignSeedsPayElsewhere' BY <1>6 DEF ForeignSeedsPayElsewhere
<1>10. AtMostOneSeedInFlight' BY <1>3, <1>5, <1>6 DEF AtMostOneSeedInFlight
<1>11. SeederUpToDate' BY DEF SeederUpToDate
<1> QED BY <1>8, <1>9, <1>10, <1>11

\* The deposits that a settled seed releases are not the ones another waits for.
LEMMA SeedVerified ==
  ASSUME SeedIInv, NEW s \in Seed \ ForeignSeed, verifySeed(s) PROVE SeedConsistent'
<1> USE DEF SeedIInv, SeedConsistent, verifySeed
<1>1. \A u \in Seed : seedStatus'[u] = "sent" <=> u # s /\ seedStatus[u] = "sent"
  BY DEF Settled, SeedingTypeOK, TypeOK
<1>2. \A d \in Requested : toAddress[d] \notin seedTo[s] => d \in Requested'
  BY DEF SetAll, Released, Requested, SeedingTypeOK
<1>3. \A u \in Seed : u # s /\ seedStatus[u] = "sent" => seedTo[u] \cap seedTo[s] = {}
  BY DEF AtMostOneSeedInFlight
<1>4. SentSeedIsLogged' BY <1>1, <1>2, <1>3 DEF SentSeedIsLogged
<1>5. ForeignSeedsPayElsewhere' BY DEF ForeignSeedsPayElsewhere
<1>6. AtMostOneSeedInFlight' BY <1>1 DEF AtMostOneSeedInFlight
<1>7. SeederUpToDate'
  <2> SUFFICES ASSUME seeder # Idle PROVE SeederUpToDate' BY DEF SeederUpToDate
  <2>1. PICK d \in Requested :
          /\ seeder.deposit = {d}
          /\ seedTo[seeder.seed] = {toAddress[d]}
          /\ \A u \in Seed : seedStatus[u] = "sent" => toAddress[d] \notin seedTo[u]
    BY DEF SeederUpToDate
  <2>2. seeder.seed \in Seed \ ForeignSeed /\ seedStatus[seeder.seed] = "none" BY DEF SeederUpToDate
  <2>3. d \in Requested' BY <1>2, <2>1
  <2>4. seedStatus'[seeder.seed] = "none" BY <2>2 DEF SeedingTypeOK, TypeOK
  <2> QED BY <1>1, <2>1, <2>2, <2>3, <2>4 DEF SeederUpToDate
<1> QED BY <1>4, <1>5, <1>6, <1>7

LEMMA SeedConsistentNext ==
  ASSUME SeedIInv, [SeedingNext]_seedingVars PROVE SeedConsistent'
<1>1. CASE [Next]_vars /\ UNCHANGED <<depositVars, seeder>>
  BY <1>1, SeedStatusInNext, SeedsUndisturbed DEF depositVars, Requested
<1>2. ASSUME NEW d \in Deposit, requestSeed(d) PROVE SeedConsistent'
  <2>1. Requested \subseteq Requested' BY <1>2 DEF requestSeed, Requested, SeedIInv, SeedingTypeOK
  <2> QED BY <1>2, <2>1, SeedsUndisturbed DEF requestSeed, vars
<1>3. CASE SeederSend
  <2>1. UNCHANGED <<seedStatus, seedTo, seedLog, Requested>>
    BY <1>3 DEF SeederSend, depositVars, Requested
  <2>2. seeder'.seed = seeder.seed /\ seeder'.deposit = seeder.deposit
    BY <1>3 DEF SeederSend, SeedIInv, SeedingTypeOK
  <2> QED BY <1>3, <2>1, <2>2
          DEF SeederSend, SeedIInv, SeedConsistent, SentSeedIsLogged, ForeignSeedsPayElsewhere,
              SeederUpToDate, AtMostOneSeedInFlight
<1>4. CASE SeederThrow \/ SeederCrash
  <2>1. seeder' = Idle /\ UNCHANGED <<seedStatus, collectStatus, seedLog, seedTo>>
    BY <1>4 DEF SeederThrow, SeederCrash, vars, depositVars
  <2>2. Requested' = Requested BY <2>1 DEF Requested
  <2>3. SentSeedIsLogged' /\ ForeignSeedsPayElsewhere' /\ AtMostOneSeedInFlight'
    BY <2>1, <2>2
    DEF SeedIInv, SeedConsistent, SentSeedIsLogged, ForeignSeedsPayElsewhere, AtMostOneSeedInFlight
  <2> QED BY <2>1, <2>3 DEF SeedConsistent, SeederUpToDate
<1>5. ASSUME NEW s \in Seed \ ForeignSeed, waitForSeed(s) PROVE SeedConsistent'
  BY <1>5, SeedsUndisturbed DEF waitForSeed, depositVars, Requested
<1> QED BY <1>1, <1>2, <1>3, <1>4, <1>5, SeedConstruct, SeedCommit, SeedVerified
        DEF SeedingNext, Seeder, seedingVars

-----------------------------------------------------------------------------
LEMMA SeedingTypeNext ==
  ASSUME SeedIInv, TypeOK', SeedStep PROVE SeedingTypeOK'
<1> USE DEF SeedIInv, SeedingTypeOK
<1>1. ASSUME NEW d \in Deposit, requestSeed(d) PROVE SeedingTypeOK' BY <1>1 DEF requestSeed
<1>2. ASSUME NEW d \in Deposit, NEW s \in Seed \ ForeignSeed, SeederConstruct(d, s) PROVE SeedingTypeOK'
  BY <1>2, SeedingAssumption DEF SeederConstruct
<1>3. CASE SeederSend BY <1>3 DEF SeederSend, depositVars
<1>4. CASE SeederThrow \/ SeederCrash
  <2>1. seeder' = Idle /\ UNCHANGED <<collectStatus, seedLog, seedTo>>
    BY <1>4 DEF SeederThrow, SeederCrash, depositVars
  <2> QED BY <2>1 DEF Idle
<1>5. CASE SeederCommit
  <2>1. seeder.seed \in Seed BY <1>5 DEF SeederCommit, SeedConsistent, SeederUpToDate, Idle
  <2> QED BY <1>5, <2>1 DEF SeederCommit, Idle
<1>6. ASSUME NEW s \in Seed, verifySeed(s) PROVE SeedingTypeOK' BY <1>6 DEF verifySeed, SetAll
<1>7. ASSUME NEW s \in Seed, waitForSeed(s) PROVE SeedingTypeOK' BY <1>7 DEF waitForSeed, depositVars
<1> QED BY <1>1, <1>2, <1>3, <1>4, <1>5, <1>6, <1>7 DEF SeedStep, Seeder

LEMMA SeedIInvNext == SeedIInv /\ [SeedingNext]_seedingVars => SeedIInv'
<1> SUFFICES ASSUME SeedIInv, [SeedingNext]_seedingVars PROVE SeedIInv' OBVIOUS
<1>1. SeedConsistent' BY SeedConsistentNext
<1>2. CASE [Next]_vars /\ UNCHANGED <<depositVars, seeder>>
  <2>1. IInv' BY <1>2, ConsistentNext DEF SeedIInv, SeedingTypeOK, IInv
  <2> QED BY <1>1, <1>2, <2>1 DEF SeedIInv, SeedingTypeOK, IInv, depositVars
<1>3. CASE SeedStep
  BY <1>1, <1>3, SeedStepOnPipeline, SeedingTypeNext DEF SeedIInv
<1> QED BY <1>2, <1>3 DEF SeedingNext, seedingVars, SeedStep

LEMMA SeedIInvAlways == SeedingSpec => []SeedIInv
BY SeedIInvInit, SeedIInvNext, PTL DEF SeedingSpec

\* Every reachable state of seeding is well typed: the seeder holds a seed of its
\* own platform and the log names deposits.
THEOREM SeedingTypeCorrect == SeedingSpec => []SeedingTypeOK
<1>1. SeedIInv => SeedingTypeOK BY DEF SeedIInv
<1> QED BY <1>1, SeedIInvAlways, PTL

\* No address is paid by two recorded seeds at once, however many of its deposits
\* ask, and wherever the seeder dies (feeSeederDoProcess).
THEOREM OneSeedInFlight == SeedingSpec => []AtMostOneSeedInFlight
<1>1. SeedIInv => AtMostOneSeedInFlight BY DEF SeedIInv, SeedConsistent
<1> QED BY <1>1, SeedIInvAlways, PTL

\* The seeder may take the nonce of a withdrawal, but it never makes one be paid
\* twice: what it knocks out of the pool was not given up by the sender.
THEOREM PayoutOnceBesideSeeding == ASSUME NoStaleReads PROVE SeedingSpec => []NoDoublePayout
<1>1. SeedIInv => NoDoublePayout BY NoDoublePayoutFromIInv DEF SeedIInv, SeedingTypeOK, IInv
<1> QED BY <1>1, SeedIInvAlways, PTL

\* Outcomes and debits are what the chain says, beside a seeder too, on the
\* account platforms, which are the ones that seed.
THEOREM LedgerIsTrueBesideSeeding ==
  ASSUME NoStaleReads, ~UtxoBased PROVE SeedingSpec => []LedgerMatchesChain
<1>1. SeedIInv => LedgerMatchesChain
  BY AmountsFromIInv, FeesFromIInv DEF SeedIInv, SeedingTypeOK, IInv, LedgerMatchesChain
<1> QED BY <1>1, SeedIInvAlways, PTL

\* The collector gets a deposit back only after coin has reached its address.
THEOREM ReleasedWithCoin == ASSUME NoStaleReads PROVE SeedingSpec => ReleasedOnlyWhenFunded
<1> DEFINE Funded ==
      \A d \in Deposit :
        collectStatus[d] = "seed_requested" /\ collectStatus'[d] = "uncollected"
          => \E s \in Seed : toAddress[d] \in seedTo[s] /\ net[s] = "final"
<1>1. SeedIInv /\ [SeedingNext]_seedingVars => [Funded]_seedingVars
  <2> SUFFICES ASSUME SeedIInv, SeedingNext PROVE Funded OBVIOUS
  <2>1. ASSUME NEW s \in Seed, verifySeed(s) PROVE Funded
    <3>1. NetworkStatus(s) = "completed" => net[s] = "final" BY WithdrawalsAssumption DEF NetworkStatus, SeedIInv, SeedingTypeOK, TypeOK, ChainTypeOK, NetStatus
    <3>2. getTransactionStatus("verifier", s) = "completed" => net[s] = "final"
      BY <3>1, WithdrawalsAssumption DEF getTransactionStatus, SeedIInv, NothingStale, Reader
    <3> QED BY <2>1, <3>2 DEF verifySeed, SetAll, Released, SeedIInv, SeedingTypeOK
  <2>2. CASE UNCHANGED collectStatus BY <2>2
  <2>3. ASSUME NEW d \in Deposit, requestSeed(d) PROVE Funded
    BY <2>3 DEF requestSeed, SeedIInv, SeedingTypeOK
  <2> QED BY <2>1, <2>2, <2>3
          DEF SeedingNext, Seeder, SeederConstruct, SeederSend, SeederThrow, SeederCommit, SeederCrash,
              waitForSeed, depositVars
<1> QED BY <1>1, SeedIInvAlways, PTL DEF SeedingSpec, ReleasedOnlyWhenFunded
=============================================================================
