-------------------------------- MODULE Seeding --------------------------------
(***************************************************************************)
(* Fee seeding beside the withdrawal pipeline.  A token deposit can only   *)
(* be collected when its address holds native coin, so the collector marks *)
(* it seed_requested, the fee seeder sends coin from a hot wallet, and the *)
(* verifier hands the deposit back to the collector.  The seeder shares    *)
(* the hot wallets, and so their nonces, with the picker.                  *)
(*                                                                         *)
(* The seeder signs and broadcasts inside its tick and inserts the         *)
(* internal_transfer row last; sendRawTransaction of the account gateways  *)
(* waits for the receipt, so what happens in between can take minutes.     *)
(* Which of several pending seed transfers the verifier looks at first is  *)
(* left open.                                                              *)
(***************************************************************************)
EXTENDS Withdrawals

CONSTANTS
  Deposit,    \* deposit rows of tokens
  Address,    \* addresses given to the users
  toAddress,  \* the address of each deposit
  NoSeed

ASSUME SeedingAssumption ==
  /\ toAddress \in [Deposit -> Address]
  /\ NoSeed \notin Seed

VARIABLES
  collectStatus,  \* deposit: collect_status
  seedLog,        \* deposit_log: <<seed txid, deposit>> of the seeding events
  seedTo,         \* the addresses that a built seed transaction pays
  seeder          \* local state of the fee seeder

depositVars == <<collectStatus, seedLog, seedTo>>
seedingVars == <<vars, depositVars, seeder>>

Idle == [seed |-> NoSeed, deposit |-> {}, sent |-> FALSE]

SeedingTypeOK ==
  /\ TypeOK
  /\ collectStatus \in [Deposit -> {"uncollected", "seed_requested"}]
  /\ seedLog \subseteq Seed \X Deposit
  /\ seedTo \in [Seed -> SUBSET Address]
  /\ seeder \in [seed : Seed \cup {NoSeed}, deposit : SUBSET Deposit, sent : BOOLEAN]

SeedingInit ==
  /\ Init
  /\ collectStatus = [d \in Deposit |-> "uncollected"]
  /\ seedLog = {}
  /\ seedTo = [s \in Seed |-> {}]
  /\ seeder = Idle

-----------------------------------------------------------------------------
\* The collector finds too little coin, or several deposits, at the address:
\* how much coin an address holds is an answer of the network.
requestSeed(d) ==
  /\ collectStatus[d] = "uncollected"
  /\ collectStatus' = [collectStatus EXCEPT ![d] = "seed_requested"]
  /\ UNCHANGED <<vars, seedLog, seedTo, seeder>>

Requested == {d \in Deposit : collectStatus[d] = "seed_requested"}

\* Mutant of SeedCandidates: only the deposits already seeded are left out.
SeedCandidates_perDeposit == Requested \ {p[2] : p \in seedLog}

\* Addresses of the requested deposits that a seeding event already names
SeedingAddresses == {toAddress[p[2]] : p \in {q \in seedLog : q[2] \in Requested}}
SeedCandidates == {d \in Requested : toAddress[d] \notin SeedingAddresses}

-----------------------------------------------------------------------------
\* The fee seeder

\* Construct and sign.  After a lost commit the same address is seeded again:
\* with the same nonce that can be the same transaction or, when the average
\* fee has moved, another one.
SeederConstruct(d, s) ==
  /\ seeder = Idle
  /\ d \in SeedCandidates
  /\ seedStatus[s] = "none"
  /\ \E h \in findFreeHotWallets :
       /\ payer[s] # NoAccount =>
            payer[s] = h /\ slot[s] = mined[h] /\ seedTo[s] = {toAddress[d]}
       /\ Record(s, h, mined[h])
  /\ seedTo' = [seedTo EXCEPT ![s] = {toAddress[d]}]
  /\ seeder' = [seed |-> s, deposit |-> {d}, sent |-> FALSE]
  /\ UNCHANGED <<rowVars, seedStatus, ledgerVars, localVars, collectStatus, seedLog>>

SeederSend ==
  /\ seeder # Idle /\ ~seeder.sent
  /\ sendRawTransaction(seeder.seed)
  /\ seeder' = [seeder EXCEPT !.sent = TRUE]
  /\ UNCHANGED <<rowVars, seedStatus, ledgerVars, localVars, depositVars>>

\* The node refuses the transaction, and the tick throws.
SeederThrow ==
  /\ seeder # Idle /\ ~seeder.sent
  /\ "node" \in Fault \/ slot[seeder.seed] < mined[payer[seeder.seed]]
  /\ seeder' = Idle
  /\ UNCHANGED <<vars, depositVars>>

\* insertInternalTransfer, the seeding log, and the commit of the tick
SeederCommit ==
  /\ seeder.sent
  /\ seedStatus' = [seedStatus EXCEPT ![seeder.seed] = "sent"]
  /\ seedLog' = seedLog \cup ({seeder.seed} \X seeder.deposit)
  /\ seeder' = Idle
  /\ UNCHANGED <<chainVars, rowVars, ledgerVars, localVars, collectStatus, seedTo>>

SeederCrash ==
  /\ "crash" \in Fault
  /\ seeder # Idle
  /\ seeder' = Idle
  /\ UNCHANGED <<vars, depositVars>>

Seeder ==
  \/ SeederSend \/ SeederThrow \/ SeederCommit
  \/ \E d \in Deposit, s \in Seed \ ForeignSeed : SeederConstruct(d, s)

-----------------------------------------------------------------------------
\* Mutant of Released: a failed seed releases its deposits too.
Released_failed(s) == {d \in Requested : toAddress[d] \in seedTo[s]}
Released(s) ==
  {d \in Requested : getTransactionStatus("verifier", s) = "completed" /\ toAddress[d] \in seedTo[s]}

\* The verifier turns to internal transfers when no withdrawal waits for it.
\* A failed seed leaves its deposits as they are.
verifySeed(s) ==
  /\ findOneWithdrawalTx("sent") = {}
  /\ seedStatus[s] = "sent"
  /\ getTransactionStatus("verifier", s) \in Settled
  /\ seedStatus' = [seedStatus EXCEPT ![s] = getTransactionStatus("verifier", s)]
  /\ collectStatus' = SetAll(collectStatus, Released(s), "uncollected")
  /\ UNCHANGED <<chainVars, rowVars, ledgerVars, localVars, seedLog, seedTo, seeder>>

\* Not settled yet: only the cache of the gateway may change.
waitForSeed(s) ==
  /\ findOneWithdrawalTx("sent") = {}
  /\ seedStatus[s] = "sent"
  /\ getTransactionStatus("verifier", s) \in {"unknown", "confirming"}
  /\ Remember("verifier", s)
  /\ UNCHANGED <<net, payer, slot, mined>>
  /\ UNCHANGED <<rowVars, seedStatus, ledgerVars, localVars, depositVars, seeder>>

-----------------------------------------------------------------------------
SeedingNext ==
  \/ Next /\ UNCHANGED <<depositVars, seeder>>
  \/ Seeder \/ SeederCrash
  \/ \E d \in Deposit : requestSeed(d)
  \/ \E s \in Seed \ ForeignSeed : verifySeed(s) \/ waitForSeed(s)

SeedingSpec == SeedingInit /\ [][SeedingNext]_seedingVars

SeedingFairness ==
  /\ Fairness
  /\ WF_seedingVars(Seeder) /\ SF_seedingVars(SeederCommit)
  /\ \A s \in Seed \ ForeignSeed : WF_seedingVars(verifySeed(s))

FairSeedingSpec == SeedingSpec /\ SeedingFairness

-----------------------------------------------------------------------------
\* One address is never seeded by two transfers at once, whichever of its
\* deposits asked for it (the deposit_log query of feeSeederDoProcess.ts).
AtMostOneSeedInFlight ==
  \A s1, s2 \in Seed :
    s1 # s2 /\ seedStatus[s1] = "sent" /\ seedStatus[s2] = "sent" => seedTo[s1] \cap seedTo[s2] = {}

\* A deposit goes back to the collector only when coin has reached its
\* address for good (verifySeedDoProcess).
ReleasedOnlyWhenFunded ==
  [][\A d \in Deposit :
       collectStatus[d] = "seed_requested" /\ collectStatus'[d] = "uncollected"
         => \E s \in Seed : toAddress[d] \in seedTo[s] /\ net[s] = "final"]_seedingVars

-----------------------------------------------------------------------------
\* What comments of the code say and the code does not do

\* findHotWallets.ts: "Get a hot wallet that has no pending transaction".
PickedWalletHasNoPendingTransaction ==
  [][picker = NoPick /\ picker' # NoPick
       => \A s \in Seed : seedStatus[s] = "sent" => payer[s] # picker'.hot]_seedingVars

\* senderDoProcess.ts: "The withdrawal record is created wrongly. It must be
\* reconstructed", of a transaction whose nonce is spent by another one.
StaleIsReconstructed ==
  \A t \in WithdrawalTx :
    (tStatus[t] = "signed" /\ net[t] = "absent" /\ slot[t] < mined[payer[t]]) ~> tStatus[t] = "unsigned"
=============================================================================
