----------------------------- MODULE Withdrawals -----------------------------
(***************************************************************************)
(* The withdrawal pipeline of one platform: the web service that inserts   *)
(* withdrawal rows and the picker, signer, sender and verifier processes,  *)
(* which share nothing but the MySQL tables and the network.               *)
(*                                                                         *)
(* Every tick of a worker is one database transaction.  A tick whose reads *)
(* stay true until it commits is one action; a tick that can be overtaken  *)
(* or cut short between a remote call and its commit is split there, and   *)
(* what it holds meanwhile is its local state (picker, sender).  A tick    *)
(* that throws or returns without writing is a stuttering step.            *)
(*                                                                         *)
(* The rows belong to one wallet (the wallet of a platform) and, on a UTXO *)
(* platform, to one currency.  Amounts are abstracted: whether a hot       *)
(* wallet has enough is an answer of the network ("node" in Fault lets it  *)
(* be no).  An order by updated_at is the relation "strictly older"; rows  *)
(* updated in one statement are tied.                                      *)
(***************************************************************************)
EXTENDS Chain, Sequences, FiniteSets

CONSTANTS
  Withdrawal,      \* withdrawal rows
  ColdWithdrawal,  \* those reserved for sweeps to a cold wallet
  TokenWithdrawal, \* those of an ERC20 or BEP20 token
  WithdrawalTx,    \* withdrawal_tx rows
  HotWallet,       \* addresses of the internal hot wallets
  Seed,            \* internal_transfer rows of type seed
  ForeignSeed,     \* those of other platforms, in the same table
  TmpAddress, NoTx

ASSUME WithdrawalsAssumption ==
  /\ IsFiniteSet(Withdrawal)
  /\ ColdWithdrawal \subseteq Withdrawal
  /\ TokenWithdrawal \subseteq Withdrawal
  /\ WithdrawalTx \subseteq Tx
  /\ Seed \subseteq Tx
  /\ ForeignSeed \subseteq Seed
  /\ WithdrawalTx \cap Seed = {}
  /\ HotWallet \subseteq Account
  /\ TmpAddress \notin HotWallet
  /\ NoTx \notin WithdrawalTx

VARIABLES
  wStatus, wFrom, wTx,  \* withdrawal: status, from_address, withdrawal_tx_id
  wOlder,               \* updated_at order of the unsigned withdrawals
  tStatus,              \* withdrawal_tx: status (hot_wallet_address is payer)
  pays,                 \* the withdrawals that unsigned_raw pays
  tOlder,               \* updated_at order of the pending withdrawal_tx rows
  seedStatus,           \* internal_transfer: status of the seed transfers
  debited, feeDebits,   \* times wallet_balance was reduced by amount, by fee
  notices,              \* events stored for the client, per withdrawal
  picker, sender        \* local state of the two split workers

rowVars == <<wStatus, wFrom, wTx, wOlder, tStatus, pays, tOlder>>
ledgerVars == <<debited, feeDebits, notices>>
localVars == <<picker, sender>>
vars == <<chainVars, rowVars, seedStatus, ledgerVars, localVars>>

Pending == {"signing", "signed", "sent"}
Settled == {"completed", "failed"}
Status == {"none", "unsigned"} \cup Pending \cup Settled
Event == {"sent", "txid_changed", "completed", "failed"}
NoPick == [ids |-> {}, hot |-> NoAccount, slot |-> 0]

TypeOK ==
  /\ ChainTypeOK
  /\ wStatus \in [Withdrawal -> Status]
  /\ wFrom \in [Withdrawal -> HotWallet \cup {TmpAddress}]
  /\ wTx \in [Withdrawal -> WithdrawalTx \cup {NoTx}]
  /\ wOlder \subseteq Withdrawal \X Withdrawal
  /\ tStatus \in [WithdrawalTx -> Status]
  /\ pays \in [WithdrawalTx -> SUBSET Withdrawal]
  /\ tOlder \subseteq WithdrawalTx \X WithdrawalTx
  /\ seedStatus \in [Seed -> {"none", "sent", "completed", "failed"}]
  /\ debited \in [Withdrawal -> Nat]
  /\ feeDebits \in [WithdrawalTx -> Nat]
  /\ notices \in [Withdrawal -> Seq(Event)]
  /\ picker \in {NoPick} \cup [ids : SUBSET Withdrawal, hot : HotWallet, slot : Nat]
  /\ sender \in WithdrawalTx \cup {NoTx}

Init ==
  /\ ChainInit
  /\ wStatus = [w \in Withdrawal |-> "none"]
  /\ wFrom = [w \in Withdrawal |-> TmpAddress]
  /\ wTx = [w \in Withdrawal |-> NoTx]
  /\ wOlder = {}
  /\ tStatus = [t \in WithdrawalTx |-> "none"]
  /\ pays = [t \in WithdrawalTx |-> {}]
  /\ tOlder = {}
  /\ seedStatus = [s \in Seed |-> "none"]
  /\ debited = [w \in Withdrawal |-> 0]
  /\ feeDebits = [t \in WithdrawalTx |-> 0]
  /\ notices = [w \in Withdrawal |-> <<>>]
  /\ picker = NoPick
  /\ sender = NoTx

-----------------------------------------------------------------------------
\* Rows and their order

Unsigned == {w \in Withdrawal : wStatus[w] = "unsigned"}
PendingTx == {t \in WithdrawalTx : tStatus[t] \in Pending}

\* Mutant of RowsOf: the rows of a transaction are found by hot wallet.
RowsOf_byHotWallet(t) == {w \in Withdrawal : wFrom[w] = payer[t]}

RowsOf(t) == {w \in Withdrawal : wTx[w] = t}

\* The rows of S take the current time, and leave or join the rows of all.
Touch(older, all, S) ==
  {p \in older : p[1] \notin S /\ p[2] \notin S} \cup ((all \ S) \X S)
Forget(older, S) == {p \in older : p[1] \notin S /\ p[2] \notin S}
Oldest(older, S) == {x \in S : \A y \in S : <<y, x>> \notin older}

SetAll(f, S, v) == [x \in DOMAIN f |-> IF x \in S THEN v ELSE f[x]]
Notify(S, event) == [w \in Withdrawal |-> IF w \in S THEN Append(notices[w], event) ELSE notices[w]]

\* Mutants of findFreeHotWallets: external hot wallets are not filtered out;
\* withdrawals that are still to be signed, or that are sent, are overlooked.
findFreeHotWallets_external ==
  {h \in Account : \A w \in Withdrawal : wStatus[w] \in Pending => wFrom[w] # h}
findFreeHotWallets_signing ==
  {h \in HotWallet : \A w \in Withdrawal : wStatus[w] \in {"signed", "sent"} => wFrom[w] # h}
findFreeHotWallets_sent ==
  {h \in HotWallet : \A w \in Withdrawal : wStatus[w] \in {"signing", "signed"} => wFrom[w] # h}

\* A pending seed does not make its hot wallet busy here: the seeder stores
\* a placeholder in from_address, so the filter never matches an address.
findFreeHotWallets ==
  {h \in HotWallet : \A w \in Withdrawal : wStatus[w] \in Pending => wFrom[w] # h}

\* Any pending seed transfer, of whatever hot wallet and platform, counts here.
checkHotWalletIsBusy(h, statuses) ==
  \/ \E w \in Withdrawal : wFrom[w] = h /\ wStatus[w] \in statuses
  \/ \E s \in Seed : seedStatus[s] \in statuses

-----------------------------------------------------------------------------
\* The web service

\* POST withdraw: hd.approveTransaction inserts one row.
approveTransaction(w) ==
  /\ w \notin ColdWithdrawal
  /\ wStatus[w] = "none"
  /\ wStatus' = [wStatus EXCEPT ![w] = "unsigned"]
  /\ wOlder' = Touch(wOlder, Unsigned, {w})
  /\ UNCHANGED <<chainVars, wFrom, wTx, tStatus, pays, tOlder, seedStatus, ledgerVars, localVars>>

\* upperThresholdHandle inserts one row per hot wallet and currency whose
\* balance is above the upper threshold; from is the hot wallet of each row.
InsertSweeps(from) ==
  LET C == DOMAIN from IN
  /\ C \subseteq {w \in ColdWithdrawal : wStatus[w] = "none"}
  /\ C # {}
  /\ wStatus' = SetAll(wStatus, C, "unsigned")
  /\ wFrom' = [w \in Withdrawal |-> IF w \in C THEN from[w] ELSE wFrom[w]]
  /\ wOlder' = Touch(wOlder, Unsigned, C)
  /\ UNCHANGED <<chainVars, wTx, tStatus, pays, tOlder, seedStatus, ledgerVars, localVars>>

\* POST setting threshold: saveThreshold looks at one hot wallet.
saveThreshold(w, h) ==
  /\ ~checkHotWalletIsBusy(h, Pending \cup {"unsigned"})
  /\ InsertSweeps([x \in {w} |-> h])

-----------------------------------------------------------------------------
\* The picker

PickedFirst(w) == IF UtxoBased THEN {v \in Unsigned : wFrom[v] = TmpAddress} ELSE {w}

\* Mutant of Picked: the rows of the hot wallet are taken whatever their status.
Picked_anyStatus(w, h) ==
  PickedFirst(w) \cup (IF UtxoBased THEN {v \in Withdrawal : wFrom[v] = h} ELSE {})

Picked(w, h) == PickedFirst(w) \cup (IF UtxoBased THEN {v \in Unsigned : wFrom[v] = h} ELSE {})

\* Nothing to pick: the tick looks for hot wallets above the threshold.
checkUpperThreshold ==
  /\ picker = NoPick
  /\ Unsigned = {}
  /\ \E C \in SUBSET ColdWithdrawal : \E from \in [C -> findFreeHotWallets] :
       /\ \A w \in C : ~checkHotWalletIsBusy(from[w], Pending)
       /\ InsertSweeps(from)

\* Reads the rows and constructs the transaction; the nonce is read now.
PickerConstruct ==
  /\ picker = NoPick
  /\ \E t \in WithdrawalTx : tStatus[t] = "none"  \* bound: rows left
  /\ \E w \in Oldest(wOlder, Unsigned), h \in findFreeHotWallets :
       /\ Picked(w, h) # {}
       /\ picker' = [ids |-> Picked(w, h), hot |-> h, slot |-> mined[h]]
  /\ UNCHANGED <<chainVars, rowVars, seedStatus, ledgerVars, sender>>

\* No free or sufficient hot wallet, or the construction fails.
PickerPostpone ==
  /\ picker = NoPick
  /\ \E w \in Oldest(wOlder, Unsigned) :
       \E ids \in {PickedFirst(w)} \cup {Picked(w, h) : h \in findFreeHotWallets} :
         /\ findFreeHotWallets = {} \/ "node" \in Fault
         /\ ids # {}
         /\ wOlder' = Touch(wOlder, Unsigned, ids)
  /\ UNCHANGED <<chainVars, wStatus, wFrom, wTx, tStatus, pays, tOlder, seedStatus, ledgerVars, localVars>>

\* doPickingWithdrawals, and the commit of the tick.
PickerCommit ==
  /\ picker # NoPick
  /\ \E t \in WithdrawalTx :
       /\ tStatus[t] = "none"
       /\ Record(t, picker.hot, picker.slot)
       /\ tStatus' = [tStatus EXCEPT ![t] = "signing"]
       /\ pays' = [pays EXCEPT ![t] = picker.ids]
       /\ tOlder' = Touch(tOlder, PendingTx, {t})
       /\ wTx' = SetAll(wTx, picker.ids, t)
  /\ wStatus' = SetAll(wStatus, picker.ids, "signing")
  /\ wFrom' = SetAll(wFrom, picker.ids, picker.hot)
  /\ wOlder' = Forget(wOlder, picker.ids)
  /\ picker' = NoPick
  /\ UNCHANGED <<seedStatus, ledgerVars, sender>>

PickerCrash ==
  /\ "crash" \in Fault
  /\ picker # NoPick
  /\ picker' = NoPick
  /\ UNCHANGED <<chainVars, rowVars, seedStatus, ledgerVars, sender>>

Picker == checkUpperThreshold \/ PickerConstruct \/ PickerPostpone \/ PickerCommit

-----------------------------------------------------------------------------
\* The signer

findOneWithdrawalTx(status) == Oldest(tOlder, {t \in WithdrawalTx : tStatus[t] = status})
SignerBusy(t) == checkHotWalletIsBusy(payer[t], {"signed", "sent"})

SignerPostpone(t) ==
  /\ t \in findOneWithdrawalTx("signing")
  /\ SignerBusy(t)
  /\ tOlder' = Touch(tOlder, PendingTx, {t})
  /\ UNCHANGED <<chainVars, wStatus, wFrom, wTx, wOlder, tStatus, pays, seedStatus, ledgerVars, localVars>>

SignerSign(t) ==
  /\ t \in findOneWithdrawalTx("signing")
  /\ ~SignerBusy(t)
  /\ tStatus' = [tStatus EXCEPT ![t] = "signed"]
  /\ tOlder' = Touch(tOlder, PendingTx, {t})
  /\ wStatus' = SetAll(wStatus, RowsOf(t), "signed")
  /\ UNCHANGED <<chainVars, wFrom, wTx, wOlder, pays, seedStatus, ledgerVars, localVars>>

Signer == \E t \in WithdrawalTx : SignerPostpone(t) \/ SignerSign(t)

-----------------------------------------------------------------------------
\* The sender.  It asks its own gateway, which has a cache like the verifier's.

\* Mutant of OnNetwork: a confirmed transaction is not recognised.
OnNetwork_confirming(t) == getTransactionStatus("sender", t) = "confirming"
OnNetwork(t) == getTransactionStatus("sender", t) \in {"completed", "confirming"}

\* Mutant of MustReconstruct: what the network does not know is rebuilt.
MustReconstruct_unknown(t) == getTransactionStatus("sender", t) \in {"failed", "unknown", "throws"}
MustReconstruct(t) == getTransactionStatus("sender", t) = "failed"

\* updateWithdrawalAndWithdrawalTx with status SENT
MarkSent(t) ==
  /\ tStatus' = [tStatus EXCEPT ![t] = "sent"]
  /\ tOlder' = Touch(tOlder, PendingTx, {t})
  /\ wStatus' = SetAll(wStatus, RowsOf(t), "sent")
  /\ notices' = Notify(RowsOf(t), "sent")
  /\ UNCHANGED <<wFrom, wTx, wOlder, pays, seedStatus, debited, feeDebits, picker>>

\* The network already has it, from an attempt whose commit was lost.  What
\* the gateway remembers of a row that is marked is never read again.
SenderMark(t) ==
  /\ sender = NoTx
  /\ t \in findOneWithdrawalTx("signed")
  /\ OnNetwork(t)
  /\ MarkSent(t)
  /\ UNCHANGED <<chainVars, sender>>

\* The transaction was read and cached, but the row stays signed: the update
\* does not commit, or the request for the block count fails or is one behind.
SenderSeesInVain(t) ==
  /\ Fault \cap {"crash", "node"} # {}
  /\ sender = NoTx
  /\ t \in findOneWithdrawalTx("signed")
  /\ Remember("sender", t)
  /\ UNCHANGED <<net, payer, slot, mined>>
  /\ UNCHANGED <<rowVars, seedStatus, ledgerVars, localVars>>

\* updateWithdrawalAndWithdrawalTx with status FAILED: back to unsigned.
SenderReconstruct(t) ==
  /\ sender = NoTx
  /\ t \in findOneWithdrawalTx("signed")
  /\ MustReconstruct(t)
  /\ tStatus' = [tStatus EXCEPT ![t] = "unsigned"]
  /\ tOlder' = Forget(tOlder, {t})
  /\ wStatus' = SetAll(wStatus, RowsOf(t), "unsigned")
  /\ wOlder' = Touch(wOlder, Unsigned, RowsOf(t))
  /\ notices' = Notify(RowsOf(t), "txid_changed")
  /\ UNCHANGED <<chainVars, wFrom, wTx, pays, seedStatus, debited, feeDebits, localVars>>

\* Unknown to the network, or the status could not be read: hand it over.
SenderSubmit(t) ==
  /\ sender = NoTx
  /\ t \in findOneWithdrawalTx("signed")
  /\ getTransactionStatus("sender", t) \in {"unknown", "throws"} \/ "node" \in Fault
  /\ sendRawTransaction(t)
  /\ sender' = t
  /\ UNCHANGED <<rowVars, seedStatus, ledgerVars, picker>>

SenderCommit ==
  /\ sender # NoTx
  /\ MarkSent(sender)
  /\ sender' = NoTx
  /\ UNCHANGED chainVars

\* Mutant of SenderCrash: the event was stored outside the transaction.
SenderCrash_notified ==
  /\ "crash" \in Fault
  /\ sender # NoTx
  /\ notices' = Notify(RowsOf(sender), "sent")
  /\ sender' = NoTx
  /\ UNCHANGED <<chainVars, rowVars, seedStatus, debited, feeDebits, picker>>

\* The process exits after the network took the transaction, or the answer
\* is lost and sendRawTransaction throws in the end.
SenderCrash ==
  /\ "crash" \in Fault
  /\ sender # NoTx
  /\ sender' = NoTx
  /\ UNCHANGED <<chainVars, rowVars, seedStatus, ledgerVars, picker>>

Sender ==
  \/ SenderCommit
  \/ \E t \in WithdrawalTx :
       SenderMark(t) \/ SenderSeesInVain(t) \/ SenderReconstruct(t) \/ SenderSubmit(t)

-----------------------------------------------------------------------------
\* The verifier

VerifierWait(t) ==
  /\ t \in findOneWithdrawalTx("sent")
  /\ getTransactionStatus("verifier", t) \in {"unknown", "confirming"}
  /\ tOlder' = Touch(tOlder, PendingTx, {t})
  /\ Remember("verifier", t)
  /\ UNCHANGED <<net, payer, slot, mined>>
  /\ UNCHANGED <<wStatus, wFrom, wTx, wOlder, tStatus, pays, seedStatus, ledgerVars, localVars>>

\* Mutant of AmountDebits: failed withdrawals are debited too.
AmountDebits_failed(rows, verified) ==
  [w \in Withdrawal |-> IF w \in rows THEN debited[w] + 1 ELSE debited[w]]
AmountDebits(rows, verified) ==
  [w \in Withdrawal |-> IF w \in rows /\ verified = "completed" THEN debited[w] + 1 ELSE debited[w]]

\* A failed token transfer left no event log, so getOneTransaction finds
\* nothing and the tick throws at the fee: the row stays the first in line.
NoFeeToRead(t) ==
  getTransactionStatus("verifier", t) = "failed" /\ pays[t] \cap TokenWithdrawal # {}

\* Statuses, client events and wallet_balance, which pays the network fee
\* once for every withdrawal row of the transaction.
VerifierSettle(t) ==
  /\ t \in findOneWithdrawalTx("sent")
  /\ getTransactionStatus("verifier", t) \in Settled
  /\ ~NoFeeToRead(t)
  /\ LET verified == getTransactionStatus("verifier", t)
         rows == RowsOf(t) IN
     /\ tStatus' = [tStatus EXCEPT ![t] = verified]
     /\ wStatus' = SetAll(wStatus, rows, verified)
     /\ notices' = Notify(rows, verified)
     /\ debited' = AmountDebits(rows, verified)
     /\ feeDebits' = [feeDebits EXCEPT ![t] = @ + Cardinality(rows)]
  /\ tOlder' = Forget(tOlder, {t})
  /\ UNCHANGED <<chainVars, wFrom, wTx, wOlder, pays, seedStatus, localVars>>

Verifier == \E t \in WithdrawalTx : VerifierWait(t) \/ VerifierSettle(t)

-----------------------------------------------------------------------------
\* The fee seeder and the verifier of another platform

ForeignSeedSent(s) ==
  /\ seedStatus[s] = "none"
  /\ seedStatus' = [seedStatus EXCEPT ![s] = "sent"]
  /\ UNCHANGED <<chainVars, rowVars, ledgerVars, localVars>>

ForeignSeedSettled(s) ==
  /\ seedStatus[s] = "sent"
  /\ \E r \in Settled : seedStatus' = [seedStatus EXCEPT ![s] = r]
  /\ UNCHANGED <<chainVars, rowVars, ledgerVars, localVars>>

OtherPlatform == \E s \in ForeignSeed : ForeignSeedSent(s) \/ ForeignSeedSettled(s)

-----------------------------------------------------------------------------
WebService ==
  \E w \in Withdrawal : approveTransaction(w) \/ \E h \in HotWallet : saveThreshold(w, h)

Network == ChainStep /\ UNCHANGED <<rowVars, seedStatus, ledgerVars, localVars>>

WorkerStep == Picker \/ PickerCrash \/ Signer \/ Sender \/ SenderCrash \/ Verifier

Next == WebService \/ WorkerStep \/ OtherPlatform \/ Network

Spec == Init /\ [][Next]_vars

\* Every worker ticks for ever: an interval timer, restarted with the process.
\* The network mines what stays pooled; it does not disconnect the same block
\* for ever, and neither the node nor the process fails at every attempt.  The
\* seed transfers of other platforms end like everything on their networks.
Fairness ==
  /\ WF_vars(Picker) /\ SF_vars(PickerConstruct) /\ SF_vars(PickerCommit)
  /\ WF_vars(Signer)
  /\ WF_vars(Sender) /\ SF_vars(SenderCommit)
  /\ WF_vars(Verifier)
  /\ \A s \in ForeignSeed : WF_vars(ForeignSeedSettled(s))
  /\ \A x \in Tx : WF_vars(Mine(x) /\ Network) /\ SF_vars(Finalise(x) /\ Network)

FairSpec == Spec /\ Fairness

-----------------------------------------------------------------------------
\* Safety

\* Money leaves once: of two transactions that pay the same withdrawal, one
\* has failed on the chain for good.  (Crashes of the sender, reorganised
\* blocks and the way back to unsigned in senderDoProcess.)
NoDoublePayout ==
  \A t1, t2 \in WithdrawalTx :
    t1 # t2 /\ pays[t1] \cap pays[t2] # {} => "reverted" \in {net[t1], net[t2]}

\* The copies agree: the rows linked to a pending withdrawal_tx are the ones
\* its bytes pay, with its status and its hot wallet.  The busy checks of
\* findHotWallets.ts read the copies, never the withdrawal_tx.
RowsAgree ==
  \A t \in PendingTx :
    /\ RowsOf(t) = pays[t]
    /\ pays[t] # {}
    /\ \A w \in pays[t] : wStatus[w] = tStatus[t] /\ wFrom[w] = payer[t]

\* What the client is told and what wallet_balance lost are what the chain
\* says: completed means confirmed and debited once, failed means that no
\* transaction ever paid it and nothing was debited (updateWithdrawalTxWallets).
AmountsMatchChain ==
  \A w \in Withdrawal :
    /\ debited[w] = IF wStatus[w] = "completed" THEN 1 ELSE 0
    /\ wStatus[w] = "completed" => \E t \in WithdrawalTx : w \in pays[t] /\ net[t] = "final"
    /\ wStatus[w] = "failed" => \A t \in WithdrawalTx : w \in pays[t] => net[t] = "reverted"

\* The chain takes one fee for a transaction, however many withdrawals it pays.
FeeDebitedOnce ==
  \A t \in WithdrawalTx : feeDebits[t] = IF tStatus[t] \in Settled THEN 1 ELSE 0

\* The balance that is left agrees with the chain: amounts and fees are each
\* debited once, whatever was retried (updateWithdrawalTxWallets, for the
\* transactions of account platforms).
LedgerMatchesChain == AmountsMatchChain /\ FeeDebitedOnce

\* Two pending transactions never share a hot wallet (findFreeHotWallets).
OneTxPerHotWallet ==
  \A t1, t2 \in PendingTx : t1 # t2 => payer[t1] # payer[t2]

\* The nonce read by the picker is still the right one however late the
\* transaction is signed, sent, re-sent or reorganised: a pending
\* transaction that is not in a block is always the next of its hot wallet.
StillMineable ==
  \A t \in PendingTx :
    CASE net[t] \in {"absent", "pool"} -> slot[t] = mined[payer[t]]
      [] net[t] = "block" -> slot[t] + 1 = mined[payer[t]]
      [] OTHER -> TRUE

\* The webhook events of a withdrawal make sense in the order they are stored:
\* any number of txid_changed, then sent, then one outcome; and the last one
\* agrees with the status a client can query (updateWithdrawalsStatus).
NoticesInOrder ==
  \A w \in Withdrawal :
    LET n == notices[w] IN
    /\ \A i \in 1 .. Len(n) :
         /\ n[i] \in Settled => i = Len(n) /\ i > 1 /\ n[i - 1] = "sent"
         /\ n[i] = "sent" => i = Len(n) \/ n[i + 1] \in Settled
    /\ IF n = <<>> \/ n[Len(n)] = "txid_changed"
         THEN wStatus[w] \in {"none", "unsigned", "signing", "signed"}
         ELSE wStatus[w] = n[Len(n)]

-----------------------------------------------------------------------------
\* Liveness

\* Every withdrawal that was accepted reaches an outcome.
EveryWithdrawalSettles ==
  \A w \in Withdrawal : wStatus[w] = "unsigned" ~> wStatus[w] \in Settled

-----------------------------------------------------------------------------
\* The pipeline implements what the wallet promises

Asked == {w \in Withdrawal : wStatus[w] # "none"}
Paid == [w \in Withdrawal |-> {t \in WithdrawalTx : w \in pays[t] /\ net[t] = "final"}]
Told == [w \in Withdrawal |-> IF wStatus[w] \in Settled THEN wStatus[w] ELSE "open"]

Promise ==
  INSTANCE Payout WITH Receipt <- WithdrawalTx, asked <- Asked, paid <- Paid, outcome <- Told

\* Money leaves at most once per request, never after a failure was reported,
\* and a reported outcome is true and never revised.
ImplementsPayout == Promise!Spec

-----------------------------------------------------------------------------
\* What comments of the code say and the code does not do

\* getNextPickedWithdrawals.ts: "there's only 1 withdrawal tx is being
\* processed at the same time for each platform".
OnePendingTxPerPlatform == Cardinality(PendingTx) <= 1

\* senderDoProcess.ts: "If transaction is determined as failed, the
\* withdrawal is failed as well".
FailedTxFailsWithdrawal ==
  [][\A w \in Withdrawal : wStatus[w] = "signed" => wStatus'[w] # "unsigned"]_vars

\* Erc20Gateway.ts and Bep20Gateway.ts: "Cannot find any transfer log event.
\* Just treat the transaction as failed".
RevertedIsFailed ==
  \A t \in WithdrawalTx : (tStatus[t] = "sent" /\ net[t] = "reverted") ~> tStatus[t] = "failed"

\* verifierDoProcess.ts: "Check whether the txid is confirmed on the blockchain
\* network", of what becomes completed.
CompletedIsConfirmed ==
  \A t \in WithdrawalTx : tStatus[t] = "completed" => net[t] \in {"block", "final"}

\* checkBalance.ts announces each sweep as "created from hot wallet
\* address=... to cold wallet": it leaves from that hot wallet.
SweepLeavesItsHotWallet ==
  [][\A w \in ColdWithdrawal : wFrom[w] \in HotWallet => wFrom'[w] = wFrom[w]]_vars
=============================================================================
