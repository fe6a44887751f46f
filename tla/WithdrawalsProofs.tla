--------------------------- MODULE WithdrawalsProofs ---------------------------
(***************************************************************************)
(* What holds of the withdrawal pipeline for every number of withdrawals,  *)
(* hot wallets and retries, on both kinds of chain.  What depends on the   *)
(* verifier reading the current chain says so with NoStaleReads.           *)
(***************************************************************************)
EXTENDS Withdrawals, FiniteSetTheorems, TLAPS

-----------------------------------------------------------------------------
\* Helpers

\* Touching rows keeps an order inside the table.
LEMMA TouchType ==
  ASSUME NEW T, NEW older \in SUBSET (T \X T), NEW all \in SUBSET T, NEW S \in SUBSET T
  PROVE  Touch(older, all, S) \in SUBSET (T \X T) /\ Forget(older, S) \in SUBSET (T \X T)
BY DEF Touch, Forget

\* Setting a column for a set of rows keeps its type.
LEMMA SetAllType ==
  ASSUME NEW D, NEW R, NEW f \in [D -> R], NEW S, NEW v \in R
  PROVE  SetAll(f, S, v) \in [D -> R]
BY DEF SetAll

\* Storing an event keeps the type of the event logs.
LEMMA NotifyType ==
  ASSUME TypeOK, NEW S, NEW e \in Event
  PROVE  Notify(S, e) \in [Withdrawal -> Seq(Event)]
<1>1. ASSUME NEW w \in Withdrawal PROVE Append(notices[w], e) \in Seq(Event)
  BY DEF TypeOK
<1> QED BY <1>1 DEF Notify, TypeOK

\* The number of rows of a transaction is a natural number.
LEMMA RowsCount ==
  ASSUME NEW t PROVE Cardinality(RowsOf(t)) \in Nat
<1>1. RowsOf(t) \subseteq Withdrawal BY DEF RowsOf
<1> QED BY <1>1, WithdrawalsAssumption, FS_Subset, FS_CardinalityType

\* A gateway's entry of x grows old or is forgotten.
CacheMoves(x) == \E r \in Reader : Age(r, x) \/ Expire(r, x)

-----------------------------------------------------------------------------
\* Type correctness

LEMMA TypeInit == Init => TypeOK
BY ChainAssumption, WithdrawalsAssumption
   DEF Init, TypeOK, ChainInit, ChainTypeOK, NetStatus, CacheEntry, Reader, Status, Pending, Settled, Event, NoPick

LEMMA SweepsType ==
  ASSUME TypeOK, NEW C \in SUBSET Withdrawal, NEW from \in [C -> HotWallet], InsertSweeps(from)
  PROVE  TypeOK'
<1>1. wStatus' \in [Withdrawal -> Status]
  <2>1. wStatus \in [Withdrawal -> Status] /\ "unsigned" \in Status BY DEF TypeOK, Status
  <2> QED BY <2>1, SetAllType DEF InsertSweeps
<1>2. wFrom' \in [Withdrawal -> HotWallet \cup {TmpAddress}]
  BY DEF TypeOK, InsertSweeps
<1>3. wOlder' \in SUBSET (Withdrawal \X Withdrawal)
  <2>1. wOlder \in SUBSET (Withdrawal \X Withdrawal) /\ Unsigned \in SUBSET Withdrawal
    BY DEF TypeOK, Unsigned
  <2> QED BY <2>1, TouchType DEF InsertSweeps
<1> QED BY <1>1, <1>2, <1>3
  DEF InsertSweeps, TypeOK, ChainTypeOK, chainVars, ledgerVars, localVars

LEMMA TypeWebService ==
  ASSUME TypeOK, WebService PROVE TypeOK'
<1>1. PICK w \in Withdrawal : approveTransaction(w) \/ \E h \in HotWallet : saveThreshold(w, h)
  BY DEF WebService
<1>2. CASE approveTransaction(w)
  <2>1. wOlder' \in SUBSET (Withdrawal \X Withdrawal)
    <3>1. wOlder \in SUBSET (Withdrawal \X Withdrawal) /\ Unsigned \in SUBSET Withdrawal /\ {w} \in SUBSET Withdrawal
      BY DEF TypeOK, Unsigned
    <3> QED BY <1>2, <3>1, TouchType DEF approveTransaction
  <2> QED BY <1>2, <2>1
    DEF approveTransaction, TypeOK, ChainTypeOK, Status, chainVars, ledgerVars, localVars
<1>3. ASSUME NEW h \in HotWallet, saveThreshold(w, h) PROVE TypeOK'
  <2>1. [x \in {w} |-> h] \in [{w} -> HotWallet] /\ {w} \in SUBSET Withdrawal OBVIOUS
  <2> QED BY <1>3, <2>1, SweepsType DEF saveThreshold
<1> QED BY <1>1, <1>2, <1>3

LEMMA TypePicker ==
  ASSUME TypeOK, Picker \/ PickerCrash PROVE TypeOK'
<1> USE DEF chainVars, rowVars, ledgerVars, localVars
<1>0. Unsigned \in SUBSET Withdrawal /\ wOlder \in SUBSET (Withdrawal \X Withdrawal)
  BY DEF TypeOK, Unsigned
<1>1. CASE checkUpperThreshold
  <2>1. PICK C \in SUBSET ColdWithdrawal : \E from \in [C -> findFreeHotWallets] : InsertSweeps(from)
    BY <1>1 DEF checkUpperThreshold
  <2>4. PICK from \in [C -> findFreeHotWallets] : InsertSweeps(from)
    BY <2>1
  <2>2. from \in [C -> HotWallet] BY DEF findFreeHotWallets
  <2>3. C \in SUBSET Withdrawal BY WithdrawalsAssumption
  <2> QED BY <2>2, <2>3, <2>4, SweepsType
<1>2. CASE PickerConstruct
  <2>1. picker' \in [ids : SUBSET Withdrawal, hot : HotWallet, slot : Nat]
    <3>1. PICK w \in Oldest(wOlder, Unsigned), h \in findFreeHotWallets :
            picker' = [ids |-> Picked(w, h), hot |-> h, slot |-> mined[h]]
      BY <1>2 DEF PickerConstruct
    <3>2. w \in Withdrawal /\ h \in HotWallet BY <1>0 DEF Oldest, findFreeHotWallets
    <3>3. Picked(w, h) \in SUBSET Withdrawal BY <1>0, <3>2 DEF Picked, PickedFirst
    <3>4. mined[h] \in Nat BY <3>2, WithdrawalsAssumption DEF TypeOK, ChainTypeOK
    <3> QED BY <3>1, <3>2, <3>3, <3>4
  <2> QED BY <1>2, <2>1 DEF PickerConstruct, TypeOK, ChainTypeOK
<1>3. CASE PickerPostpone
  <2>1. PICK ids : wOlder' = Touch(wOlder, Unsigned, ids) /\ ids \in SUBSET Withdrawal
    <3>1. PICK w \in Oldest(wOlder, Unsigned) :
            \E ids \in {PickedFirst(w)} \cup {Picked(w, h) : h \in findFreeHotWallets} :
              wOlder' = Touch(wOlder, Unsigned, ids)
      BY <1>3 DEF PickerPostpone
    <3>2. w \in Withdrawal BY <1>0 DEF Oldest
    <3> QED BY <1>0, <3>1, <3>2 DEF Picked, PickedFirst
  <2>2. wOlder' \in SUBSET (Withdrawal \X Withdrawal) BY <1>0, <2>1, TouchType
  <2> QED BY <1>3, <2>2 DEF PickerPostpone, TypeOK, ChainTypeOK
<1>4. CASE PickerCommit
  <2>1. PICK t \in WithdrawalTx :
          /\ Record(t, picker.hot, picker.slot)
          /\ tStatus' = [tStatus EXCEPT ![t] = "signing"]
          /\ pays' = [pays EXCEPT ![t] = picker.ids]
          /\ tOlder' = Touch(tOlder, PendingTx, {t})
          /\ wTx' = SetAll(wTx, picker.ids, t)
    BY <1>4 DEF PickerCommit
  <2>2. /\ picker.ids \in SUBSET Withdrawal
        /\ picker.hot \in HotWallet
        /\ picker.slot \in Nat
    BY <1>4 DEF TypeOK, PickerCommit, NoPick
  <2>3. wStatus' \in [Withdrawal -> Status] /\ wFrom' \in [Withdrawal -> HotWallet \cup {TmpAddress}]
    <3>1. wStatus \in [Withdrawal -> Status] /\ wFrom \in [Withdrawal -> HotWallet \cup {TmpAddress}]
      BY DEF TypeOK
    <3> QED BY <1>4, <2>2, <3>1, SetAllType DEF PickerCommit, Status, Pending
  <2>4. wTx' \in [Withdrawal -> WithdrawalTx \cup {NoTx}]
    <3>1. wTx \in [Withdrawal -> WithdrawalTx \cup {NoTx}] BY DEF TypeOK
    <3> QED BY <2>1, <3>1, SetAllType
  <2>5. tOlder' \in SUBSET (WithdrawalTx \X WithdrawalTx)
    <3>1. tOlder \in SUBSET (WithdrawalTx \X WithdrawalTx) /\ PendingTx \in SUBSET WithdrawalTx
      BY DEF TypeOK, PendingTx
    <3> QED BY <2>1, <3>1, TouchType
  <2>8. wOlder' \in SUBSET (Withdrawal \X Withdrawal)
    BY <1>0, <1>4, <2>2, TouchType DEF PickerCommit
  <2>6. tStatus' \in [WithdrawalTx -> Status] /\ pays' \in [WithdrawalTx -> SUBSET Withdrawal]
    BY <2>1, <2>2 DEF TypeOK, Status, Pending
  <2>7. ChainTypeOK'
    BY <2>1, <2>2, WithdrawalsAssumption DEF TypeOK, ChainTypeOK, Record
  <2> QED BY <1>4, <2>3, <2>4, <2>5, <2>6, <2>7, <2>8 DEF PickerCommit, TypeOK
<1>5. CASE PickerCrash
  BY <1>5 DEF PickerCrash, TypeOK, ChainTypeOK, NoPick
<1> QED BY <1>1, <1>2, <1>3, <1>4, <1>5 DEF Picker

LEMMA TypeSigner ==
  ASSUME TypeOK, Signer PROVE TypeOK'
<1> USE DEF chainVars, ledgerVars, localVars
<1>0. tOlder \in SUBSET (WithdrawalTx \X WithdrawalTx) /\ PendingTx \in SUBSET WithdrawalTx
  BY DEF TypeOK, PendingTx
<1>1. PICK t \in WithdrawalTx : SignerPostpone(t) \/ SignerSign(t) BY DEF Signer
<1>2. tOlder' \in SUBSET (WithdrawalTx \X WithdrawalTx)
  <2>1. tOlder' = Touch(tOlder, PendingTx, {t}) BY <1>1 DEF SignerPostpone, SignerSign
  <2> QED BY <1>0, <2>1, TouchType
<1>3. CASE SignerPostpone(t)
  BY <1>2, <1>3 DEF SignerPostpone, TypeOK, ChainTypeOK
<1>4. CASE SignerSign(t)
  <2>1. wStatus' \in [Withdrawal -> Status]
    BY <1>4, SetAllType DEF SignerSign, TypeOK, Status, Pending
  <2>2. tStatus' \in [WithdrawalTx -> Status]
    BY <1>4 DEF SignerSign, TypeOK, Status, Pending
  <2> QED BY <1>2, <1>4, <2>1, <2>2 DEF SignerSign, TypeOK, ChainTypeOK
<1> QED BY <1>1, <1>3, <1>4

\* What the network does keeps the type of its variables.
LEMMA TypeAccept ==
  ASSUME ChainTypeOK, NEW x \in Tx, sendRawTransaction(x) PROVE ChainTypeOK'
BY DEF ChainTypeOK, sendRawTransaction, Accept, chainVars, NetStatus

LEMMA TypeRemember ==
  ASSUME ChainTypeOK, NEW r \in Reader, NEW x \in Tx, Remember(r, x)
  PROVE  cached' \in [Reader \X Tx -> CacheEntry]
BY DEF ChainTypeOK, Remember, CacheEntry

LEMMA TypeChainStep ==
  ASSUME ChainTypeOK, ChainStep PROVE ChainTypeOK'
<1>1. PICK x \in Tx : Mine(x) \/ Finalise(x) \/ Reorg(x) \/ Drop(x) \/ CacheMoves(x)
  BY DEF ChainStep, CacheMoves
<1>2. CASE Mine(x)
  <2>1. ASSUME payer[x] \in Account PROVE mined[payer[x]] + 1 \in Nat
    BY <2>1 DEF ChainTypeOK
  <2> QED BY <1>2, <2>1 DEF Mine, ChainTypeOK, NetStatus
<1>3. CASE Finalise(x) BY <1>3 DEF Finalise, ChainTypeOK, NetStatus
<1>4. CASE Reorg(x)
  <2>1. ASSUME payer[x] \in Account PROVE mined[payer[x]] - 1 \in Nat
    BY <1>4, <2>1 DEF Reorg, ChainTypeOK
  <2> QED BY <1>4, <2>1 DEF Reorg, ChainTypeOK, NetStatus, CacheEntry
<1>5. CASE Drop(x) BY <1>5 DEF Drop, ChainTypeOK, NetStatus
<1>6. CASE CacheMoves(x)
  <2>1. PICK r \in Reader : Age(r, x) \/ Expire(r, x) BY <1>6 DEF CacheMoves
  <2> QED BY <2>1 DEF Age, Expire, ChainTypeOK, CacheEntry
<1> QED BY <1>1, <1>2, <1>3, <1>4, <1>5, <1>6

LEMMA TypeMarkSent ==
  ASSUME TypeOK, NEW t \in WithdrawalTx, MarkSent(t),
         ChainTypeOK', sender' \in WithdrawalTx \cup {NoTx}
  PROVE  TypeOK'
<1>1. tOlder' \in SUBSET (WithdrawalTx \X WithdrawalTx)
  <2>1. tOlder \in SUBSET (WithdrawalTx \X WithdrawalTx) /\ PendingTx \in SUBSET WithdrawalTx
    BY DEF TypeOK, PendingTx
  <2>2. {t} \in SUBSET WithdrawalTx OBVIOUS
  <2>3. Touch(tOlder, PendingTx, {t}) \in SUBSET (WithdrawalTx \X WithdrawalTx) BY ONLY <2>1, <2>2, TouchType
  <2> QED BY <2>3 DEF MarkSent
<1>2. wStatus' \in [Withdrawal -> Status]
  BY SetAllType DEF MarkSent, TypeOK, Status, Pending
<1>3. notices' \in [Withdrawal -> Seq(Event)] BY NotifyType DEF MarkSent, Event
<1> QED BY <1>1, <1>2, <1>3 DEF MarkSent, TypeOK, Status, Pending

LEMMA TypeSender ==
  ASSUME TypeOK, Sender \/ SenderCrash PROVE TypeOK'
<1> USE DEF chainVars, rowVars, ledgerVars, localVars
<1>1. CASE SenderCommit
  BY <1>1, TypeMarkSent DEF SenderCommit, TypeOK, ChainTypeOK
<1>2. CASE SenderCrash
  BY <1>2 DEF SenderCrash, TypeOK, ChainTypeOK
<1>3. ASSUME NEW t \in WithdrawalTx, SenderMark(t) PROVE TypeOK'
  BY <1>3, TypeMarkSent DEF SenderMark, TypeOK, ChainTypeOK
<1>4. ASSUME NEW t \in WithdrawalTx, SenderReconstruct(t) PROVE TypeOK'
  <2>1. wStatus' \in [Withdrawal -> Status]
    BY <1>4, SetAllType DEF SenderReconstruct, TypeOK, Status
  <2>2. notices' \in [Withdrawal -> Seq(Event)]
    BY <1>4, NotifyType DEF SenderReconstruct, Event
  <2>3. tOlder' \in SUBSET (WithdrawalTx \X WithdrawalTx)
    BY <1>4 DEF SenderReconstruct, TypeOK, Forget
  <2>4. wOlder' \in SUBSET (Withdrawal \X Withdrawal)
    <3>1. /\ wOlder \in SUBSET (Withdrawal \X Withdrawal) /\ Unsigned \in SUBSET Withdrawal
          /\ RowsOf(t) \in SUBSET Withdrawal
      BY DEF TypeOK, Unsigned, RowsOf
    <3> QED BY <1>4, <3>1, TouchType DEF SenderReconstruct
  <2> QED BY <1>4, <2>1, <2>2, <2>3, <2>4 DEF SenderReconstruct, TypeOK, ChainTypeOK, Status
<1>5. ASSUME NEW t \in WithdrawalTx, SenderSubmit(t) PROVE TypeOK'
  <2>1. ChainTypeOK'
    BY <1>5, TypeAccept, WithdrawalsAssumption DEF SenderSubmit, TypeOK
  <2> QED BY <1>5, <2>1 DEF SenderSubmit, TypeOK
<1>6. ASSUME NEW t \in WithdrawalTx, SenderSeesInVain(t) PROVE TypeOK'
  <2>1. cached' \in [Reader \X Tx -> CacheEntry]
    BY <1>6, TypeRemember, WithdrawalsAssumption DEF SenderSeesInVain, TypeOK, Reader
  <2> QED BY <1>6, <2>1 DEF SenderSeesInVain, TypeOK, ChainTypeOK
<1> QED BY <1>1, <1>2, <1>3, <1>4, <1>5, <1>6 DEF Sender

LEMMA TypeVerifier ==
  ASSUME TypeOK, Verifier PROVE TypeOK'
<1> USE DEF chainVars, ledgerVars, localVars
<1>1. PICK t \in WithdrawalTx : VerifierWait(t) \/ VerifierSettle(t) BY DEF Verifier
<1>2. CASE VerifierWait(t)
  <2>1. tOlder' \in SUBSET (WithdrawalTx \X WithdrawalTx)
    <3>1. tOlder \in SUBSET (WithdrawalTx \X WithdrawalTx) /\ PendingTx \in SUBSET WithdrawalTx
      BY DEF TypeOK, PendingTx
    <3>2. {t} \in SUBSET WithdrawalTx OBVIOUS
    <3>3. Touch(tOlder, PendingTx, {t}) \in SUBSET (WithdrawalTx \X WithdrawalTx) BY ONLY <3>1, <3>2, TouchType
    <3> QED BY <1>2, <3>3 DEF VerifierWait
  <2>2. cached' \in [Reader \X Tx -> CacheEntry]
    BY <1>2, TypeRemember, WithdrawalsAssumption DEF VerifierWait, TypeOK, Reader
  <2> QED BY <1>2, <2>1, <2>2 DEF VerifierWait, TypeOK, ChainTypeOK
<1>3. CASE VerifierSettle(t)
  <2> DEFINE verified == getTransactionStatus("verifier", t)
  <2>0. verified \in Status /\ verified \in Event
    BY <1>3 DEF VerifierSettle, Settled, Status, Event
  <2>1. wStatus' \in [Withdrawal -> Status]
    BY <1>3, <2>0, SetAllType DEF VerifierSettle, TypeOK
  <2>2. notices' \in [Withdrawal -> Seq(Event)] BY <1>3, <2>0, NotifyType DEF VerifierSettle
  <2>3. debited' \in [Withdrawal -> Nat]
    BY <1>3 DEF VerifierSettle, AmountDebits, TypeOK
  <2>4. feeDebits' \in [WithdrawalTx -> Nat]
    BY <1>3, RowsCount DEF VerifierSettle, TypeOK
  <2>5. tStatus' \in [WithdrawalTx -> Status]
    BY <1>3, <2>0 DEF VerifierSettle, TypeOK
  <2>6. tOlder' \in SUBSET (WithdrawalTx \X WithdrawalTx)
    BY <1>3 DEF VerifierSettle, TypeOK, Forget
  <2> QED BY <1>3, <2>1, <2>2, <2>3, <2>4, <2>5, <2>6 DEF VerifierSettle, TypeOK, ChainTypeOK
<1> QED BY <1>1, <1>2, <1>3

LEMMA TypeNext == TypeOK /\ [Next]_vars => TypeOK'
<1> SUFFICES ASSUME TypeOK, [Next]_vars PROVE TypeOK' OBVIOUS
<1>1. CASE Network
  BY <1>1, TypeChainStep DEF Network, TypeOK, rowVars, ledgerVars, localVars
<1>2. CASE UNCHANGED vars
  BY <1>2 DEF vars, TypeOK, ChainTypeOK, chainVars, rowVars, ledgerVars, localVars
<1>3. CASE OtherPlatform
  <2>1. seedStatus' \in [Seed -> {"none", "sent", "completed", "failed"}]
    BY <1>3 DEF OtherPlatform, ForeignSeedSent, ForeignSeedSettled, Settled, TypeOK
  <2>2. UNCHANGED <<chainVars, rowVars, ledgerVars, localVars>>
    BY <1>3 DEF OtherPlatform, ForeignSeedSent, ForeignSeedSettled
  <2> QED BY <2>1, <2>2 DEF TypeOK, ChainTypeOK, chainVars, rowVars, ledgerVars, localVars
<1> QED BY <1>1, <1>2, <1>3, TypeWebService, TypePicker, TypeSigner, TypeSender, TypeVerifier
  DEF Next, WorkerStep

\* Every reachable state of the pipeline is well typed: the enumerated status
\* columns, the references between the tables and the workers' local state.
THEOREM TypeCorrect == Spec => []TypeOK
BY TypeInit, TypeNext, PTL DEF Spec

-----------------------------------------------------------------------------
(***************************************************************************)
(* The inductive invariant.  Each part says how far one of the copies may  *)
(* lag behind: a row behind its withdrawal_tx, a withdrawal_tx behind the  *)
(* network, a worker behind the rows it read.                              *)
(***************************************************************************)

\* A row points only to a transaction that pays it.
LinkedToPayer == \A w \in Withdrawal, t \in WithdrawalTx : wTx[w] = t => w \in pays[t]

\* The withdrawals a pending transaction pays are linked to it and move with it.
PendingLinked ==
  \A t \in PendingTx : \A w \in pays[t] : wTx[w] = t /\ wStatus[w] = tStatus[t]

\* A row past unsigned has the status of the transaction it points to.
StatusShared ==
  \A w \in Withdrawal :
    wStatus[w] \notin {"none", "unsigned"} => wTx[w] \in WithdrawalTx /\ tStatus[wTx[w]] = wStatus[w]

\* Whatever else once paid a row, or paid a row that is unsigned again, was
\* given up by the sender.
OthersGivenUp ==
  \A w \in Withdrawal, t \in WithdrawalTx :
    w \in pays[t] /\ (wTx[w] # t \/ wStatus[w] \in {"none", "unsigned"}) => tStatus[t] = "unsigned"

\* No gateway answers from a block that was disconnected.
NoStaleReads == "stale" \notin Fault
NothingStale == NoStaleReads => cached = [k \in Reader \X Tx |-> "no"]

\* What a row of withdrawal_tx says of the chain.
TxTellsTruth ==
  \A t \in WithdrawalTx :
    /\ NoStaleReads => /\ tStatus[t] \in {"unsigned", "failed"} => net[t] = "reverted"
                       /\ tStatus[t] = "completed" => net[t] = "final"
    /\ tStatus[t] \in {"none", "signing"} => net[t] = "absent"
    /\ tStatus[t] = "none" => pays[t] = {}

\* What the split workers read stays true until they write.
WorkersUpToDate ==
  /\ sender # NoTx => tStatus[sender] = "signed"
  /\ \A w \in picker.ids : wStatus[w] = "unsigned"

\* A transaction of an account platform pays one withdrawal.
BatchesOfOne ==
  ~UtxoBased =>
    /\ picker = NoPick \/ \E w \in Withdrawal : picker.ids = {w}
    /\ \A t \in WithdrawalTx : tStatus[t] # "none" => \E w \in Withdrawal : pays[t] = {w}

\* wallet_balance follows the status columns.
LedgerFollows ==
  /\ \A w \in Withdrawal : debited[w] = IF wStatus[w] = "completed" THEN 1 ELSE 0
  /\ \A t \in WithdrawalTx :
       feeDebits[t] = IF tStatus[t] \in Settled THEN Cardinality(pays[t]) ELSE 0

Consistent ==
  /\ LinkedToPayer
  /\ PendingLinked
  /\ StatusShared
  /\ OthersGivenUp
  /\ TxTellsTruth
  /\ WorkersUpToDate
  /\ BatchesOfOne
  /\ LedgerFollows

IInv == TypeOK /\ Consistent /\ NothingStale

LEMMA ConsistentInit == Init => Consistent /\ NothingStale
BY WithdrawalsAssumption
   DEF Init, ChainInit, Consistent, LinkedToPayer, PendingLinked, StatusShared, OthersGivenUp,
       TxTellsTruth, WorkersUpToDate, BatchesOfOne, LedgerFollows, PendingTx, Pending, Settled, NoPick,
       NothingStale

\* The rows of a pending transaction are exactly the ones it pays.
LEMMA RowsOfPending ==
  ASSUME IInv, NEW t \in PendingTx PROVE RowsOf(t) = pays[t]
BY DEF IInv, Consistent, LinkedToPayer, PendingLinked, TypeOK, RowsOf, PendingTx

LEMMA NoDoublePayoutFromIInv == ASSUME NoStaleReads PROVE IInv => NoDoublePayout
<1> SUFFICES ASSUME IInv, NEW t1 \in WithdrawalTx, NEW t2 \in WithdrawalTx, t1 # t2,
                    NEW w \in pays[t1] \cap pays[t2]
             PROVE  net[t1] = "reverted" \/ net[t2] = "reverted"
  BY DEF NoDoublePayout
<1>1. w \in Withdrawal BY DEF IInv, TypeOK
<1>2. tStatus[t1] = "unsigned" \/ tStatus[t2] = "unsigned"
  BY <1>1 DEF IInv, Consistent, OthersGivenUp
<1> QED BY <1>2 DEF IInv, Consistent, TxTellsTruth

LEMMA AmountsFromIInv == ASSUME NoStaleReads, IInv PROVE AmountsMatchChain
<1>1. ASSUME NEW w \in Withdrawal, wStatus[w] = "completed"
      PROVE  \E t \in WithdrawalTx : w \in pays[t] /\ net[t] = "final"
  BY <1>1 DEF IInv, Consistent, StatusShared, LinkedToPayer, TxTellsTruth
<1>2. ASSUME NEW w \in Withdrawal, wStatus[w] = "failed", NEW t \in WithdrawalTx, w \in pays[t]
      PROVE  net[t] = "reverted"
  BY <1>2 DEF IInv, Consistent, StatusShared, OthersGivenUp, TxTellsTruth
<1> QED BY <1>1, <1>2 DEF IInv, Consistent, LedgerFollows, AmountsMatchChain

\* The code debits one fee per withdrawal row, so once for a batch of one.
LEMMA FeesFromIInv == ASSUME ~UtxoBased, IInv PROVE FeeDebitedOnce
<1> SUFFICES ASSUME NEW t \in WithdrawalTx
             PROVE  feeDebits[t] = IF tStatus[t] \in Settled THEN 1 ELSE 0
  BY DEF FeeDebitedOnce
<1>1. feeDebits[t] = IF tStatus[t] \in Settled THEN Cardinality(pays[t]) ELSE 0
  BY DEF IInv, Consistent, LedgerFollows
<1>2. ASSUME tStatus[t] \in Settled PROVE Cardinality(pays[t]) = 1
  <2>1. PICK w \in Withdrawal : pays[t] = {w}
    BY <1>2 DEF IInv, Consistent, BatchesOfOne, Settled
  <2> QED BY <2>1, FS_Singleton
<1> QED BY <1>1, <1>2

-----------------------------------------------------------------------------
\* Every step preserves the invariant

\* A pending transaction and its rows take the status b together, with what
\* the chain says to back it.  Signer, sender and verifier do nothing else.
LEMMA ConsistentMove ==
  ASSUME IInv, NEW t \in PendingTx,
         NEW b \in {"unsigned", "signed", "sent", "completed", "failed"},
         NoStaleReads /\ b \in {"unsigned", "failed"} => net[t] = "reverted",
         NoStaleReads /\ b = "completed" => net[t] = "final",
         tStatus' = [tStatus EXCEPT ![t] = b],
         wStatus' = SetAll(wStatus, RowsOf(t), b),
         UNCHANGED <<net, wTx, pays, picker>>,
         sender' \in {sender, NoTx}, sender' # t,
         LedgerFollows'
  PROVE  Consistent'
<1>0. RowsOf(t) = pays[t] /\ t \in WithdrawalTx
  BY RowsOfPending DEF PendingTx
<1>1. /\ \A w \in Withdrawal : wStatus'[w] = IF w \in pays[t] THEN b ELSE wStatus[w]
      /\ \A u \in WithdrawalTx : tStatus'[u] = IF u = t THEN b ELSE tStatus[u]
  BY <1>0 DEF SetAll, IInv, TypeOK
<1>2. pays \in [WithdrawalTx -> SUBSET Withdrawal] /\ tStatus[t] \in Pending
  BY DEF IInv, TypeOK, PendingTx
<1>3. LinkedToPayer' BY DEF IInv, Consistent, LinkedToPayer
<1>4. PendingLinked'
  <2> SUFFICES ASSUME NEW u \in PendingTx', NEW w \in pays'[u]
               PROVE  wTx'[w] = u /\ wStatus'[w] = tStatus'[u]
    BY DEF PendingLinked
  <2>1. u \in PendingTx /\ w \in pays[u] /\ w \in Withdrawal
    BY <1>0, <1>1, <1>2 DEF PendingTx, Pending
  <2>2. wTx[w] = u /\ wStatus[w] = tStatus[u]
    BY <2>1 DEF IInv, Consistent, PendingLinked
  <2>3. w \in pays[t] => u = t
    BY <1>0, <2>2 DEF IInv, Consistent, PendingLinked
  <2> QED BY <1>1, <2>1, <2>2, <2>3 DEF PendingTx
<1>5. StatusShared'
  <2> SUFFICES ASSUME NEW w \in Withdrawal, wStatus'[w] \notin {"none", "unsigned"}
               PROVE  wTx'[w] \in WithdrawalTx /\ tStatus'[wTx'[w]] = wStatus'[w]
    BY DEF StatusShared
  <2>1. CASE w \in pays[t]
    BY <1>0, <1>1, <2>1 DEF IInv, Consistent, PendingLinked
  <2>2. CASE w \notin pays[t]
    BY <1>1, <2>2 DEF IInv, Consistent, StatusShared, LinkedToPayer
  <2> QED BY <2>1, <2>2
<1>6. OthersGivenUp'
  <2> SUFFICES ASSUME NEW w \in Withdrawal, NEW u \in WithdrawalTx, w \in pays[u],
                      wTx[w] # u \/ wStatus'[w] \in {"none", "unsigned"}
               PROVE  tStatus'[u] = "unsigned"
    BY DEF OthersGivenUp
  <2>1. CASE w \in pays[t] /\ u = t
    BY <1>1, <2>1 DEF IInv, Consistent, PendingLinked
  <2>2. CASE w \in pays[t] /\ u # t
    BY <1>1, <2>2 DEF IInv, Consistent, PendingLinked, OthersGivenUp
  <2>3. CASE w \notin pays[t]
    BY <1>1, <2>3 DEF IInv, Consistent, OthersGivenUp
  <2> QED BY <2>1, <2>2, <2>3
<1>7. TxTellsTruth' BY <1>1, <1>2 DEF IInv, Consistent, TxTellsTruth, Pending
<1>8. WorkersUpToDate'
  <2>1. sender' # NoTx => tStatus'[sender'] = "signed"
    BY <1>1 DEF IInv, Consistent, WorkersUpToDate, TypeOK
  <2>2. ASSUME NEW w \in picker.ids PROVE wStatus'[w] = "unsigned"
    <3>1. w \in Withdrawal /\ wStatus[w] = "unsigned"
      BY DEF IInv, Consistent, WorkersUpToDate, TypeOK, NoPick
    <3>2. w \notin pays[t]
      BY <1>2, <3>1 DEF IInv, Consistent, PendingLinked, Pending
    <3> QED BY <1>1, <3>1, <3>2
  <2> QED BY <2>1, <2>2 DEF WorkersUpToDate
<1>9. BatchesOfOne' BY <1>1, <1>2 DEF IInv, Consistent, BatchesOfOne, Pending
<1> QED BY <1>3, <1>4, <1>5, <1>6, <1>7, <1>8, <1>9 DEF Consistent

\* The ledger is left alone by a move that settles nothing.
LEMMA LedgerMove ==
  ASSUME IInv, NEW t \in PendingTx, NEW b \in {"unsigned", "signed", "sent"},
         tStatus' = [tStatus EXCEPT ![t] = b],
         wStatus' = SetAll(wStatus, RowsOf(t), b),
         UNCHANGED <<pays, debited, feeDebits>>
  PROVE  LedgerFollows'
<1>1. \A w \in Withdrawal : (wStatus'[w] = "completed") <=> (wStatus[w] = "completed")
  BY RowsOfPending DEF SetAll, IInv, TypeOK, Consistent, PendingLinked, PendingTx, Pending
<1>2. \A u \in WithdrawalTx : (tStatus'[u] \in Settled) <=> (tStatus[u] \in Settled)
  BY DEF IInv, TypeOK, PendingTx, Pending, Settled
<1> QED BY <1>1, <1>2 DEF IInv, Consistent, LedgerFollows

\* What a gateway without stale entries answers is where the transaction is.
LEMMA ReadOnChain ==
  ASSUME IInv, NoStaleReads, NEW r \in Reader, NEW t \in WithdrawalTx
  PROVE  /\ (getTransactionStatus(r, t) = "completed") <=> (net[t] = "final")
         /\ (getTransactionStatus(r, t) = "failed") <=> (net[t] = "reverted")
<1>1. t \in Tx /\ net[t] \in NetStatus BY WithdrawalsAssumption DEF IInv, TypeOK, ChainTypeOK
<1>2. cached[<<r, t>>] = "no" BY <1>1 DEF IInv, NothingStale
<1>3. getTransactionStatus(r, t) = NetworkStatus(t) BY <1>2 DEF getTransactionStatus
<1> QED BY <1>1, <1>3 DEF NetworkStatus, NetStatus

LEMMA ConsistentMarkSent ==
  ASSUME IInv, NEW t \in WithdrawalTx, tStatus[t] = "signed", MarkSent(t),
         UNCHANGED chainVars, sender' \in {sender, NoTx}, sender' # t
  PROVE  Consistent'
<1>1. t \in PendingTx BY DEF PendingTx, Pending
<1> QED BY <1>1, ConsistentMove, LedgerMove DEF MarkSent, chainVars

\* The network moves: no status column looks at a transaction it can change.
LEMMA ConsistentNetwork ==
  ASSUME IInv, Network PROVE Consistent'
<1> USE DEF rowVars, ledgerVars, localVars
<1>1. PICK x \in Tx : Mine(x) \/ Finalise(x) \/ Reorg(x) \/ Drop(x) \/ CacheMoves(x)
  BY DEF Network, ChainStep, CacheMoves
<1>2. \A t \in WithdrawalTx : net[t] \in {"absent", "final", "reverted"} => net'[t] = net[t]
  BY <1>1, WithdrawalsAssumption
  DEF Mine, Finalise, Reorg, Drop, CacheMoves, Age, Expire, IInv, TypeOK, ChainTypeOK
<1>3. TxTellsTruth' BY <1>2 DEF Network, IInv, Consistent, TxTellsTruth
<1> QED BY <1>3
  DEF Network, IInv, Consistent, LinkedToPayer, PendingLinked, StatusShared, OthersGivenUp,
      WorkersUpToDate, BatchesOfOne, LedgerFollows, PendingTx

LEMMA ConsistentAsked ==
  ASSUME IInv,
         \A w \in Withdrawal :
           wStatus'[w] = wStatus[w] \/ (wStatus[w] = "none" /\ wStatus'[w] = "unsigned"),
         UNCHANGED <<net, wTx, tStatus, pays, debited, feeDebits, picker, sender>>
  PROVE  Consistent'
<1>1. PendingTx' = PendingTx BY DEF PendingTx
<1>2. PendingLinked'
  <2>1. \A t \in PendingTx : t \in WithdrawalTx /\ tStatus[t] # "none" BY DEF PendingTx, Pending
  <2>2. pays \in [WithdrawalTx -> SUBSET Withdrawal] BY DEF IInv, TypeOK
  <2> QED BY <1>1, <2>1, <2>2 DEF IInv, Consistent, PendingLinked
<1>3. StatusShared' BY DEF IInv, Consistent, StatusShared
<1>4. OthersGivenUp' BY DEF IInv, Consistent, OthersGivenUp
<1>5. WorkersUpToDate'
  <2>1. picker.ids \subseteq Withdrawal BY DEF IInv, TypeOK, NoPick
  <2> QED BY <2>1 DEF IInv, Consistent, WorkersUpToDate
<1>6. LedgerFollows' BY DEF IInv, Consistent, LedgerFollows
<1>7. BatchesOfOne' BY DEF IInv, Consistent, BatchesOfOne
<1> QED BY <1>2, <1>3, <1>4, <1>5, <1>6, <1>7
  DEF IInv, Consistent, LinkedToPayer, TxTellsTruth

LEMMA ConsistentSweeps ==
  ASSUME IInv, NEW from, InsertSweeps(from) PROVE Consistent'
<1>1. \A v \in Withdrawal :
        wStatus'[v] = wStatus[v] \/ (wStatus[v] = "none" /\ wStatus'[v] = "unsigned")
  BY DEF InsertSweeps, SetAll, IInv, TypeOK
<1>2. UNCHANGED <<net, wTx, tStatus, pays, debited, feeDebits, picker, sender>>
  BY DEF InsertSweeps, chainVars, ledgerVars, localVars
<1> QED BY <1>1, <1>2, ConsistentAsked

LEMMA ConsistentWebService ==
  ASSUME IInv, WebService PROVE Consistent'
<1> USE DEF chainVars, ledgerVars, localVars
<1>1. PICK w \in Withdrawal : approveTransaction(w) \/ \E h \in HotWallet : saveThreshold(w, h)
  BY DEF WebService
<1>2. CASE approveTransaction(w)
  <2>1. \A v \in Withdrawal :
          wStatus'[v] = wStatus[v] \/ (wStatus[v] = "none" /\ wStatus'[v] = "unsigned")
    BY <1>2 DEF approveTransaction, IInv, TypeOK
  <2>2. UNCHANGED <<net, wTx, tStatus, pays, debited, feeDebits, picker, sender>>
    BY <1>2 DEF approveTransaction
  <2> QED BY <2>1, <2>2, ConsistentAsked
<1>3. ASSUME NEW h \in HotWallet, saveThreshold(w, h) PROVE Consistent'
  BY <1>3, ConsistentSweeps DEF saveThreshold
<1> QED BY <1>1, <1>2, <1>3

LEMMA ConsistentSigner ==
  ASSUME IInv, Signer PROVE Consistent'
<1> USE DEF chainVars, ledgerVars, localVars
<1>1. PICK t \in WithdrawalTx : SignerPostpone(t) \/ SignerSign(t) BY DEF Signer
<1>2. CASE SignerPostpone(t)
  <2>1. UNCHANGED <<net, wTx, wStatus, tStatus, pays, debited, feeDebits, picker, sender>>
    BY <1>2 DEF SignerPostpone
  <2> QED BY <2>1, ConsistentAsked
<1>3. CASE SignerSign(t)
  <2>1. tStatus[t] = "signing" BY <1>3 DEF SignerSign, findOneWithdrawalTx, Oldest
  <2>2. t \in PendingTx /\ sender # t
    BY <2>1, WithdrawalsAssumption DEF PendingTx, Pending, IInv, Consistent, WorkersUpToDate
  <2> QED BY <1>3, <2>2, ConsistentMove, LedgerMove DEF SignerSign
<1> QED BY <1>1, <1>2, <1>3

LEMMA ConsistentPickerCommit ==
  ASSUME IInv, PickerCommit PROVE Consistent'
<1> USE DEF chainVars, ledgerVars, localVars
<1>1. PICK t \in WithdrawalTx :
        /\ tStatus[t] = "none"
        /\ Record(t, picker.hot, picker.slot)
        /\ tStatus' = [tStatus EXCEPT ![t] = "signing"]
        /\ pays' = [pays EXCEPT ![t] = picker.ids]
        /\ wTx' = SetAll(wTx, picker.ids, t)
  BY DEF PickerCommit
<1>2. /\ picker.ids \subseteq Withdrawal
      /\ pays \in [WithdrawalTx -> SUBSET Withdrawal]
      /\ \A w \in picker.ids : wStatus[w] = "unsigned"
  BY DEF IInv, TypeOK, NoPick, Consistent, WorkersUpToDate
<1>3. /\ \A w \in Withdrawal :
           /\ wStatus'[w] = IF w \in picker.ids THEN "signing" ELSE wStatus[w]
           /\ wTx'[w] = IF w \in picker.ids THEN t ELSE wTx[w]
      /\ \A u \in WithdrawalTx :
           /\ tStatus'[u] = IF u = t THEN "signing" ELSE tStatus[u]
           /\ pays'[u] = IF u = t THEN picker.ids ELSE pays[u]
      /\ UNCHANGED <<net, debited, feeDebits, sender>>
      /\ picker' = NoPick
  BY <1>1 DEF PickerCommit, Record, SetAll, IInv, TypeOK
<1>4. pays[t] = {} BY <1>1 DEF IInv, Consistent, TxTellsTruth
<1>5. LinkedToPayer' BY <1>3, <1>4 DEF IInv, Consistent, LinkedToPayer
<1>6. PendingLinked'
  <2> SUFFICES ASSUME NEW u \in PendingTx', NEW w \in pays'[u]
               PROVE  wTx'[w] = u /\ wStatus'[w] = tStatus'[u]
    BY DEF PendingLinked
  <2>1. u \in WithdrawalTx /\ w \in Withdrawal BY <1>2, <1>3 DEF PendingTx
  <2>2. CASE u = t BY <1>3, <2>1, <2>2
  <2>3. CASE u # t
    <3>1. u \in PendingTx /\ w \in pays[u] BY <1>3, <2>1, <2>3 DEF PendingTx
    <3>2. wTx[w] = u /\ wStatus[w] = tStatus[u] BY <3>1 DEF IInv, Consistent, PendingLinked
    <3>3. w \notin picker.ids BY <1>2, <3>1, <3>2 DEF PendingTx, Pending
    <3> QED BY <1>3, <2>1, <2>3, <3>2, <3>3
  <2> QED BY <2>2, <2>3
<1>7. StatusShared' BY <1>1, <1>3 DEF IInv, Consistent, StatusShared
<1>8. OthersGivenUp'
  <2> SUFFICES ASSUME NEW w \in Withdrawal, NEW u \in WithdrawalTx, w \in pays'[u],
                      wTx'[w] # u \/ wStatus'[w] \in {"none", "unsigned"}
               PROVE  tStatus'[u] = "unsigned"
    BY DEF OthersGivenUp
  <2>1. u # t /\ w \in pays[u] BY <1>3
  <2>2. tStatus[u] = "unsigned"
    BY <1>2, <1>3, <2>1 DEF IInv, Consistent, OthersGivenUp
  <2> QED BY <1>3, <2>1, <2>2
<1>9. TxTellsTruth' BY <1>1, <1>3 DEF IInv, Consistent, TxTellsTruth
<1>10. WorkersUpToDate'
  <2>1. sender # NoTx => sender \in WithdrawalTx /\ sender # t
    BY <1>1 DEF IInv, TypeOK, Consistent, WorkersUpToDate
  <2> QED BY <1>3, <2>1 DEF IInv, Consistent, WorkersUpToDate, NoPick
<1>11. LedgerFollows'
  BY <1>1, <1>2, <1>3 DEF IInv, Consistent, LedgerFollows, Settled
<1>12. BatchesOfOne'
  <2> SUFFICES ASSUME ~UtxoBased, NEW u \in WithdrawalTx, tStatus'[u] # "none"
               PROVE  \E w \in Withdrawal : pays'[u] = {w}
    BY <1>3 DEF BatchesOfOne
  <2>1. CASE u = t BY <1>3, <2>1 DEF PickerCommit, IInv, Consistent, BatchesOfOne
  <2>2. CASE u # t BY <1>3, <2>2 DEF IInv, Consistent, BatchesOfOne
  <2> QED BY <2>1, <2>2
<1> QED BY <1>5, <1>6, <1>7, <1>8, <1>9, <1>10, <1>11, <1>12 DEF Consistent

LEMMA ConsistentPicker ==
  ASSUME IInv, Picker \/ PickerCrash PROVE Consistent'
<1> USE DEF chainVars, rowVars, ledgerVars, localVars
<1>1. CASE checkUpperThreshold
  <2>1. \E from : InsertSweeps(from) BY <1>1 DEF checkUpperThreshold
  <2> QED BY <2>1, ConsistentSweeps
<1>2. CASE PickerConstruct \/ PickerCrash
  <2>1. \A w \in picker'.ids : wStatus[w] = "unsigned"
    <3>1. CASE PickerCrash BY <3>1 DEF PickerCrash, NoPick
    <3>2. CASE PickerConstruct
      <4>1. PICK w \in Oldest(wOlder, Unsigned), h \in findFreeHotWallets :
              picker' = [ids |-> Picked(w, h), hot |-> h, slot |-> mined[h]]
        BY <3>2 DEF PickerConstruct
      <4>2. Picked(w, h) \subseteq Unsigned BY DEF Picked, PickedFirst, Oldest
      <4> QED BY <4>1, <4>2 DEF Unsigned
    <3> QED BY <1>2, <3>1, <3>2
  <2>2. UNCHANGED <<net, wStatus, wTx, tStatus, pays, debited, feeDebits, sender>>
    BY <1>2 DEF PickerConstruct, PickerCrash
  <2>3. ~UtxoBased => picker' = NoPick \/ \E w \in Withdrawal : picker'.ids = {w}
    <3>1. CASE PickerCrash BY <3>1 DEF PickerCrash
    <3>2. CASE PickerConstruct
      <4>1. PICK w \in Oldest(wOlder, Unsigned), h \in findFreeHotWallets :
              picker' = [ids |-> Picked(w, h), hot |-> h, slot |-> mined[h]]
        BY <3>2 DEF PickerConstruct
      <4>2. w \in Withdrawal /\ (~UtxoBased => Picked(w, h) = {w})
        BY DEF Picked, PickedFirst, Oldest, Unsigned
      <4> QED BY <4>1, <4>2
    <3> QED BY <1>2, <3>1, <3>2
  <2>4. BatchesOfOne' BY <2>2, <2>3 DEF IInv, Consistent, BatchesOfOne
  <2> QED BY <2>1, <2>2, <2>4
    DEF IInv, Consistent, LinkedToPayer, PendingLinked, StatusShared, OthersGivenUp,
        TxTellsTruth, WorkersUpToDate, LedgerFollows, PendingTx
<1>3. CASE PickerPostpone
  <2>1. UNCHANGED <<net, wTx, wStatus, tStatus, pays, debited, feeDebits, picker, sender>>
    BY <1>3 DEF PickerPostpone
  <2> QED BY <2>1, ConsistentAsked
<1> QED BY <1>1, <1>2, <1>3, ConsistentPickerCommit DEF Picker

LEMMA ConsistentSender ==
  ASSUME IInv, Sender \/ SenderCrash PROVE Consistent'
<1> USE DEF chainVars, rowVars, ledgerVars, localVars
<1>1. CASE SenderCommit
  <2>1. sender \in WithdrawalTx /\ tStatus[sender] = "signed" /\ sender' = NoTx
    BY <1>1 DEF SenderCommit, IInv, TypeOK, Consistent, WorkersUpToDate
  <2>2. MarkSent(sender) /\ UNCHANGED chainVars BY <1>1 DEF SenderCommit
  <2> QED BY <2>1, <2>2, WithdrawalsAssumption, ConsistentMarkSent
<1>2. CASE SenderCrash
  BY <1>2 DEF SenderCrash, IInv, Consistent, LinkedToPayer, PendingLinked, StatusShared,
              OthersGivenUp, TxTellsTruth, WorkersUpToDate, BatchesOfOne, LedgerFollows, PendingTx
<1>3. ASSUME NEW t \in WithdrawalTx, SenderMark(t) PROVE Consistent'
  <2>1. tStatus[t] = "signed" BY <1>3 DEF SenderMark, findOneWithdrawalTx, Oldest
  <2>2. MarkSent(t) /\ UNCHANGED chainVars /\ sender' = sender /\ sender' # t
    BY <1>3, WithdrawalsAssumption DEF SenderMark
  <2> QED BY <2>1, <2>2, ConsistentMarkSent
<1>4. ASSUME NEW t \in WithdrawalTx, SenderReconstruct(t) PROVE Consistent'
  <2>1. t \in PendingTx
    BY <1>4 DEF SenderReconstruct, findOneWithdrawalTx, Oldest, PendingTx, Pending
  <2>2. NoStaleReads => net[t] = "reverted"
    BY <1>4, ReadOnChain DEF SenderReconstruct, MustReconstruct, Reader
  <2>3. sender' = sender /\ sender' # t
    BY <1>4, WithdrawalsAssumption DEF SenderReconstruct
  <2> QED BY <1>4, <2>1, <2>2, <2>3, ConsistentMove, LedgerMove DEF SenderReconstruct
<1>5. ASSUME NEW t \in WithdrawalTx, SenderSubmit(t) PROVE Consistent'
  <2>1. tStatus[t] = "signed" BY <1>5 DEF SenderSubmit, findOneWithdrawalTx, Oldest
  <2>2. \A u \in WithdrawalTx : u # t /\ net[u] # "pool" => net'[u] = net[u]
    BY <1>5, WithdrawalsAssumption DEF SenderSubmit, sendRawTransaction, Accept
  <2>3. TxTellsTruth'
    <3>1. \A u \in WithdrawalTx :
            u # t /\ net[u] \in {"absent", "final", "reverted"} => net'[u] = net[u]
      BY <2>2
    <3> QED BY <1>5, <2>1, <3>1 DEF SenderSubmit, IInv, Consistent, TxTellsTruth
  <2>4. WorkersUpToDate'
    BY <1>5, <2>1 DEF SenderSubmit, IInv, Consistent, WorkersUpToDate
  <2> QED BY <1>5, <2>3, <2>4
    DEF SenderSubmit, IInv, Consistent, LinkedToPayer, PendingLinked, StatusShared,
        OthersGivenUp, BatchesOfOne, LedgerFollows, PendingTx
<1>6. ASSUME NEW t \in WithdrawalTx, SenderSeesInVain(t) PROVE Consistent'
  <2>1. UNCHANGED <<net, wTx, wStatus, tStatus, pays, debited, feeDebits, picker, sender>>
    BY <1>6 DEF SenderSeesInVain
  <2> QED BY <2>1, ConsistentAsked
<1> QED BY <1>1, <1>2, <1>3, <1>4, <1>5, <1>6 DEF Sender

\* Settling debits each row of the transaction once, as its rows are the ones
\* it pays and none of them was settled before.
LEMMA LedgerSettle ==
  ASSUME IInv, NEW t \in PendingTx, VerifierSettle(t) PROVE LedgerFollows'
<1> DEFINE verified == getTransactionStatus("verifier", t)
<1>1. RowsOf(t) = pays[t] /\ t \in WithdrawalTx /\ tStatus[t] \in Pending /\ verified \in Settled
  BY RowsOfPending DEF PendingTx, VerifierSettle
<1>2. ASSUME NEW w \in Withdrawal
      PROVE  debited'[w] = IF wStatus'[w] = "completed" THEN 1 ELSE 0
  <2>1. debited[w] = IF wStatus[w] = "completed" THEN 1 ELSE 0
    BY DEF IInv, Consistent, LedgerFollows
  <2>2. CASE w \in pays[t]
    <3>1. wStatus[w] # "completed"
      BY <1>1, <2>2 DEF IInv, Consistent, PendingLinked, Pending
    <3>2. wStatus'[w] = verified
      BY <1>1, <2>2 DEF VerifierSettle, SetAll, IInv, TypeOK
    <3>3. debited'[w] = IF verified = "completed" THEN debited[w] + 1 ELSE debited[w]
      BY <1>1, <2>2 DEF VerifierSettle, AmountDebits
    <3> QED BY <2>1, <3>1, <3>2, <3>3
  <2>3. CASE w \notin pays[t]
    BY <1>1, <2>1, <2>3 DEF VerifierSettle, AmountDebits, SetAll, IInv, TypeOK
  <2> QED BY <2>2, <2>3
<1>3. ASSUME NEW u \in WithdrawalTx
      PROVE  feeDebits'[u] = IF tStatus'[u] \in Settled THEN Cardinality(pays'[u]) ELSE 0
  <2>1. feeDebits[u] = IF tStatus[u] \in Settled THEN Cardinality(pays[u]) ELSE 0
    BY DEF IInv, Consistent, LedgerFollows
  <2>2. CASE u = t
    <3>1. feeDebits[t] = 0 BY <1>1, <2>1, <2>2 DEF Pending, Settled
    <3>2. feeDebits'[t] = 0 + Cardinality(pays[t])
      BY <1>1, <3>1 DEF VerifierSettle, IInv, TypeOK
    <3>3. tStatus'[t] \in Settled BY <1>1 DEF VerifierSettle, IInv, TypeOK
    <3>4. Cardinality(pays[t]) \in Nat BY <1>1, RowsCount
    <3>5. pays' = pays BY DEF VerifierSettle
    <3> QED BY <2>2, <3>2, <3>3, <3>4, <3>5
  <2>3. CASE u # t
    BY <2>1, <2>3 DEF VerifierSettle, IInv, TypeOK
  <2> QED BY <2>2, <2>3
<1> QED BY <1>2, <1>3 DEF LedgerFollows

LEMMA ConsistentVerifier ==
  ASSUME IInv, Verifier PROVE Consistent'
<1> USE DEF chainVars, ledgerVars, localVars
<1>1. PICK t \in WithdrawalTx : VerifierWait(t) \/ VerifierSettle(t) BY DEF Verifier
<1>2. CASE VerifierWait(t)
  <2>1. UNCHANGED <<net, wTx, tStatus, pays, debited, feeDebits, picker, sender>> /\ wStatus' = wStatus
    BY <1>2 DEF VerifierWait
  <2> QED BY <2>1, ConsistentAsked
<1>3. CASE VerifierSettle(t)
  <2> DEFINE verified == getTransactionStatus("verifier", t)
  <2>1. tStatus[t] = "sent" BY <1>3 DEF VerifierSettle, findOneWithdrawalTx, Oldest
  <2>2. t \in PendingTx /\ sender # t
    BY <2>1, WithdrawalsAssumption DEF PendingTx, Pending, IInv, Consistent, WorkersUpToDate
  <2>3. /\ verified \in {"completed", "failed"}
        /\ NoStaleReads /\ verified = "failed" => net[t] = "reverted"
        /\ NoStaleReads /\ verified = "completed" => net[t] = "final"
    BY <1>3, ReadOnChain DEF VerifierSettle, Settled, Reader
  <2>4. /\ tStatus' = [tStatus EXCEPT ![t] = verified]
        /\ wStatus' = SetAll(wStatus, RowsOf(t), verified)
        /\ UNCHANGED <<net, wTx, pays, picker>>
        /\ sender' = sender
    BY <1>3 DEF VerifierSettle
  <2>5. LedgerFollows' BY <1>3, <2>2, LedgerSettle
  <2> HIDE DEF verified
  <2> QED BY <2>2, <2>3, <2>4, <2>5, ConsistentMove
<1> QED BY <1>1, <1>2, <1>3

LEMMA NothingStaleNext == NothingStale /\ [Next]_vars => NothingStale'
<1> SUFFICES ASSUME NothingStale, [Next]_vars, NoStaleReads PROVE cached' = cached
  BY DEF NothingStale
<1>0. cached = [k \in Reader \X Tx |-> "no"] BY DEF NothingStale
<1> USE DEF chainVars
<1>1. CASE WebService
  BY <1>1 DEF WebService, approveTransaction, saveThreshold, InsertSweeps
<1>2. CASE Picker \/ PickerCrash
  BY <1>2 DEF Picker, PickerCrash, checkUpperThreshold, InsertSweeps, PickerConstruct,
              PickerPostpone, PickerCommit, Record
<1>3. CASE Signer
  BY <1>3 DEF Signer, SignerPostpone, SignerSign
<1>4. CASE Sender \/ SenderCrash
  BY <1>4 DEF Sender, SenderCrash, SenderCommit, SenderMark, SenderReconstruct, SenderSubmit,
              SenderSeesInVain, Remember, NoStaleReads, sendRawTransaction, Accept
<1>5. CASE Verifier
  BY <1>5 DEF Verifier, VerifierWait, VerifierSettle, Remember, NoStaleReads
<1>6. CASE Network
  <2>1. PICK x \in Tx : Mine(x) \/ Finalise(x) \/ Reorg(x) \/ Drop(x) \/ CacheMoves(x)
    BY <1>6 DEF Network, ChainStep, CacheMoves
  <2> QED BY <1>0, <2>1 DEF Mine, Finalise, Reorg, Drop, CacheMoves, Age, Expire
<1>7. CASE UNCHANGED vars BY <1>7 DEF vars
<1>8. CASE OtherPlatform
  BY <1>8 DEF OtherPlatform, ForeignSeedSent, ForeignSeedSettled
<1> QED BY <1>1, <1>2, <1>3, <1>4, <1>5, <1>6, <1>7, <1>8 DEF Next, WorkerStep

LEMMA ConsistentNext == IInv /\ [Next]_vars => IInv'
<1> SUFFICES ASSUME IInv, [Next]_vars PROVE IInv' OBVIOUS
<1>1. TypeOK' /\ NothingStale' BY TypeNext, NothingStaleNext DEF IInv
<1>2. CASE UNCHANGED <<chainVars, rowVars, ledgerVars, localVars>>
  BY <1>1, <1>2
  DEF chainVars, rowVars, ledgerVars, localVars, IInv, Consistent, LinkedToPayer,
      PendingLinked, StatusShared, OthersGivenUp, TxTellsTruth, WorkersUpToDate,
      BatchesOfOne, LedgerFollows, PendingTx
<1>3. CASE WebService \/ WorkerStep \/ Network
  BY <1>1, <1>3, ConsistentWebService, ConsistentPicker, ConsistentSigner, ConsistentSender,
     ConsistentVerifier, ConsistentNetwork
  DEF WorkerStep, IInv
<1> QED BY <1>2, <1>3 DEF Next, OtherPlatform, ForeignSeedSent, ForeignSeedSettled, vars

LEMMA IInvAlways == Spec => []IInv
<1>1. Init => IInv BY TypeInit, ConsistentInit DEF IInv
<1> QED BY <1>1, ConsistentNext, PTL DEF Spec

-----------------------------------------------------------------------------
\* Money leaves at most once for each withdrawal, however often it is picked
\* again, whatever crashes and whatever the network does, as long as the sender
\* does not give up a transaction for what a disconnected block said of it.
THEOREM PayoutOnce == ASSUME NoStaleReads PROVE Spec => []NoDoublePayout
<1>1. IInv => NoDoublePayout BY NoDoublePayoutFromIInv
<1> QED BY <1>1, IInvAlways, PTL

\* The status a client sees and the amounts wallet_balance lost are what the
\* chain says (updateWithdrawalTxWallets), on both kinds of platform.  This
\* needs gateways that do not count from a disconnected block.
THEOREM AmountsAreTrue == ASSUME NoStaleReads PROVE Spec => []AmountsMatchChain
<1>1. IInv => AmountsMatchChain BY AmountsFromIInv
<1> QED BY <1>1, IInvAlways, PTL

\* On an account platform the network fee of a settled transaction is debited
\* once as well.
THEOREM LedgerIsTrue == ASSUME NoStaleReads, ~UtxoBased PROVE Spec => []LedgerMatchesChain
<1>1. IInv => LedgerMatchesChain BY AmountsFromIInv, FeesFromIInv DEF LedgerMatchesChain
<1> QED BY <1>1, IInvAlways, PTL

-----------------------------------------------------------------------------
\* The pipeline implements Payout

LEMMA PayoutInit == Init => Promise!Init
BY DEF Init, ChainInit, Promise!Init, Asked, Paid, Told, Settled

\* A step that asks for nothing, settles nothing and confirms no transaction
\* that pays is invisible to the clients.
LEMMA Quiet ==
  ASSUME IInv, IInv',
         \A w \in Withdrawal :
           /\ (wStatus'[w] = "none") <=> (wStatus[w] = "none")
           /\ wStatus[w] \in Settled \/ wStatus'[w] \in Settled => wStatus'[w] = wStatus[w],
         \A t \in WithdrawalTx : net'[t] = "final" \/ net[t] = "final" =>
           net'[t] = net[t] /\ pays'[t] = pays[t]
  PROVE  UNCHANGED Promise!payoutVars
<1>1. Asked' = Asked BY DEF Asked
<1>2. Paid' = Paid BY DEF Paid
<1>3. Told' = Told BY DEF Told
<1> QED BY <1>1, <1>2, <1>3 DEF Promise!payoutVars

\* New rows are requests.
LEMMA PayoutAsked ==
  ASSUME IInv, IInv',
         \A w \in Withdrawal :
           wStatus'[w] = wStatus[w] \/ (wStatus[w] = "none" /\ wStatus'[w] = "unsigned"),
         UNCHANGED <<net, pays>>
  PROVE  Promise!Next
<1> DEFINE S == Asked' \ Asked
<1>1. S \in SUBSET Withdrawal BY DEF Asked
<1>2. Asked' = Asked \cup S BY DEF Asked
<1>3. Paid' = Paid BY DEF Paid
<1>4. Told' = Told BY DEF Told, Settled
<1>5. Promise!Request(S) BY <1>2, <1>3, <1>4 DEF Promise!Request
<1> QED BY <1>1, <1>5 DEF Promise!Next

\* Until a pending transaction is settled nobody else has paid its rows.
LEMMA PendingIsOpen ==
  ASSUME NoStaleReads, IInv, NEW t \in PendingTx
  PROVE  /\ pays[t] \in SUBSET Withdrawal
         /\ Promise!IsOpen(pays[t])
         /\ \A w \in pays[t] : Paid[w] = IF net[t] = "final" THEN {t} ELSE {}
<1>1. t \in WithdrawalTx /\ tStatus[t] \in Pending /\ pays[t] \in SUBSET Withdrawal
  BY DEF PendingTx, IInv, TypeOK
<1>2. ASSUME NEW w \in pays[t] PROVE w \in Asked /\ Told[w] = "open"
  <2>1. w \in Withdrawal /\ wStatus[w] \in Pending
    BY <1>1 DEF IInv, Consistent, PendingLinked
  <2> QED BY <2>1 DEF Asked, Told, Pending, Settled
<1>3. ASSUME NEW w \in pays[t], NEW u \in WithdrawalTx, u # t, w \in pays[u] PROVE net[u] # "final"
  <2>1. tStatus[u] = "unsigned"
    BY <1>1, <1>3 DEF IInv, Consistent, PendingLinked, OthersGivenUp
  <2> QED BY <2>1 DEF IInv, Consistent, TxTellsTruth
<1>4. ASSUME NEW w \in pays[t] PROVE Paid[w] = IF net[t] = "final" THEN {t} ELSE {}
  BY <1>1, <1>3 DEF Paid
<1> QED BY <1>1, <1>2, <1>4 DEF Promise!IsOpen

LEMMA PayoutNetwork ==
  ASSUME NoStaleReads, IInv, IInv', Network PROVE [Promise!Next]_(Promise!payoutVars)
<1>1. UNCHANGED <<wStatus, pays, tStatus>> BY DEF Network, rowVars
<1>2. PICK x \in Tx : Mine(x) \/ Finalise(x) \/ Reorg(x) \/ Drop(x) \/ CacheMoves(x)
  BY DEF Network, ChainStep, CacheMoves
<1>3. CASE x \in WithdrawalTx /\ net[x] = "block" /\ net' = [net EXCEPT ![x] = "final"]
  <2>1. x \in PendingTx
    BY <1>3 DEF PendingTx, Pending, Settled, Status, IInv, TypeOK, Consistent, TxTellsTruth
  <2>2. \A w \in pays[x] : Paid[w] = {}
    BY <1>3, <2>1, PendingIsOpen
  <2>3. Paid' = [w \in Withdrawal |-> IF w \in pays[x] THEN {x} ELSE Paid[w]]
    <3>1. \A u \in WithdrawalTx : net'[u] = "final" <=> u = x \/ net[u] = "final"
      BY <1>3 DEF IInv, TypeOK, ChainTypeOK
    <3>2. ASSUME NEW w \in Withdrawal
          PROVE  {u \in WithdrawalTx : w \in pays[u] /\ net'[u] = "final"}
                   = IF w \in pays[x] THEN {x} ELSE Paid[w]
      BY <1>3, <2>2, <3>1, <3>2 DEF Paid
    <3>3. Paid' = [w \in Withdrawal |-> {u \in WithdrawalTx : w \in pays[u] /\ net'[u] = "final"}]
      BY <1>1 DEF Paid
    <3> QED BY <3>2, <3>3
  <2>4. Asked' = Asked /\ Told' = Told BY <1>1 DEF Asked, Told
  <2>5. Promise!Pay(pays[x], x)
    BY <2>1, <2>2, <2>3, <2>4, PendingIsOpen DEF Promise!Pay
  <2> QED BY <1>3, <2>1, <2>5, PendingIsOpen DEF Promise!Next
<1>4. CASE ~(x \in WithdrawalTx /\ net[x] = "block" /\ net' = [net EXCEPT ![x] = "final"])
  <2>1. \A t \in WithdrawalTx : net'[t] = "final" \/ net[t] = "final" => net'[t] = net[t]
    BY <1>2, <1>4, WithdrawalsAssumption
    DEF Mine, Finalise, Reorg, Drop, CacheMoves, Age, Expire, IInv, TypeOK, ChainTypeOK
  <2> QED BY <1>1, <2>1, Quiet
<1> QED BY <1>3, <1>4

LEMMA PayoutSettle ==
  ASSUME NoStaleReads, IInv, IInv', NEW t \in WithdrawalTx, VerifierSettle(t) PROVE Promise!Next
<1> DEFINE verified == getTransactionStatus("verifier", t)
<1>1. t \in PendingTx
  BY DEF VerifierSettle, findOneWithdrawalTx, Oldest, PendingTx, Pending
<1>2. (net[t] = "final") <=> (verified = "completed") BY ReadOnChain DEF Reader
<1>3. verified \in Settled /\ RowsOf(t) = pays[t] /\ UNCHANGED <<net, pays>>
  BY <1>1, RowsOfPending DEF VerifierSettle, chainVars
<1>4. \A w \in Withdrawal : wStatus'[w] = IF w \in pays[t] THEN verified ELSE wStatus[w]
  BY <1>3 DEF VerifierSettle, SetAll, IInv, TypeOK
<1>5. \A w \in pays[t] : (Paid[w] # {}) <=> (verified = "completed")
  BY <1>1, <1>2, PendingIsOpen
<1> HIDE DEF verified
<1>6. Told' = [w \in Withdrawal |-> IF w \in pays[t] THEN verified ELSE Told[w]]
  BY <1>3, <1>4 DEF Told
<1>7. Asked' = Asked
  <2>1. pays[t] \subseteq Asked BY <1>1, PendingIsOpen DEF Promise!IsOpen
  <2> QED BY <1>3, <1>4, <2>1 DEF Asked, Settled
<1>8. Paid' = Paid BY <1>3 DEF Paid
<1>9. Promise!Settle(pays[t], verified)
  BY <1>1, <1>5, <1>6, <1>7, <1>8, PendingIsOpen DEF Promise!Settle
<1>10. verified \in Promise!Outcome \ {"open"} BY <1>3 DEF Settled, Promise!Outcome
<1> QED BY <1>1, <1>9, <1>10, PendingIsOpen DEF Promise!Next

\* A pending transaction that does not settle moves no money and tells nothing.
LEMMA QuietMove ==
  ASSUME IInv, IInv', NEW t \in PendingTx, NEW b \in {"unsigned", "signed", "sent"},
         wStatus' = SetAll(wStatus, RowsOf(t), b), UNCHANGED <<net, pays>>
  PROVE  UNCHANGED Promise!payoutVars
<1>1. \A w \in Withdrawal : wStatus'[w] = IF w \in pays[t] THEN b ELSE wStatus[w]
  BY RowsOfPending DEF SetAll, IInv, TypeOK
<1>2. \A w \in pays[t] : wStatus[w] \in Pending
  BY DEF IInv, Consistent, PendingLinked, PendingTx
<1>3. \A w \in Withdrawal :
        /\ (wStatus'[w] = "none") <=> (wStatus[w] = "none")
        /\ wStatus[w] \in Settled \/ wStatus'[w] \in Settled => wStatus'[w] = wStatus[w]
  BY <1>1, <1>2 DEF Pending, Settled
<1> QED BY <1>3, Quiet

LEMMA PayoutPicker ==
  ASSUME IInv, IInv', Picker \/ PickerCrash PROVE [Promise!Next]_(Promise!payoutVars)
<1> USE DEF chainVars, rowVars, ledgerVars, localVars
<1>1. CASE checkUpperThreshold
  <2>1. PICK from : InsertSweeps(from) BY <1>1 DEF checkUpperThreshold
  <2>2. \A w \in Withdrawal :
          wStatus'[w] = wStatus[w] \/ (wStatus[w] = "none" /\ wStatus'[w] = "unsigned")
    BY <2>1 DEF InsertSweeps, SetAll, IInv, TypeOK
  <2>3. UNCHANGED <<net, pays>> BY <2>1 DEF InsertSweeps
  <2> QED BY <2>2, <2>3, PayoutAsked
<1>2. CASE PickerConstruct \/ PickerPostpone \/ PickerCrash
  <2>1. UNCHANGED <<net, pays, wStatus>>
    BY <1>2 DEF PickerConstruct, PickerPostpone, PickerCrash
  <2> QED BY <2>1, Quiet
<1>3. CASE PickerCommit
  <2>1. PICK t \in WithdrawalTx :
          tStatus[t] = "none" /\ pays' = [pays EXCEPT ![t] = picker.ids]
    BY <1>3 DEF PickerCommit
  <2>2. net' = net /\ net[t] = "absent"
    BY <1>3, <2>1 DEF PickerCommit, Record, IInv, Consistent, TxTellsTruth
  <2>3. \A w \in Withdrawal :
          /\ (wStatus'[w] = "none") <=> (wStatus[w] = "none")
          /\ wStatus[w] \in Settled \/ wStatus'[w] \in Settled => wStatus'[w] = wStatus[w]
    BY <1>3 DEF PickerCommit, SetAll, Settled, IInv, TypeOK, Consistent, WorkersUpToDate
  <2> QED BY <2>1, <2>2, <2>3, Quiet DEF IInv, TypeOK
<1> QED BY <1>1, <1>2, <1>3 DEF Picker

LEMMA PayoutSigner ==
  ASSUME IInv, IInv', Signer PROVE UNCHANGED Promise!payoutVars
<1> USE DEF chainVars
<1>1. PICK t \in WithdrawalTx : SignerPostpone(t) \/ SignerSign(t) BY DEF Signer
<1>2. CASE SignerPostpone(t)
  <2>1. UNCHANGED <<net, pays, wStatus>> BY <1>2 DEF SignerPostpone
  <2> QED BY <2>1, Quiet
<1>3. CASE SignerSign(t)
  <2>1. t \in PendingTx
    BY <1>3 DEF SignerSign, findOneWithdrawalTx, Oldest, PendingTx, Pending
  <2> QED BY <1>3, <2>1, QuietMove DEF SignerSign
<1> QED BY <1>1, <1>2, <1>3

LEMMA PayoutSender ==
  ASSUME IInv, IInv', Sender \/ SenderCrash PROVE UNCHANGED Promise!payoutVars
<1> USE DEF chainVars, rowVars
<1>1. ASSUME NEW t \in PendingTx, MarkSent(t), UNCHANGED chainVars
      PROVE  UNCHANGED Promise!payoutVars
  BY <1>1, QuietMove DEF MarkSent
<1>2. CASE SenderCommit
  <2>1. sender \in PendingTx
    BY <1>2 DEF SenderCommit, IInv, TypeOK, Consistent, WorkersUpToDate, PendingTx, Pending
  <2> QED BY <1>1, <1>2, <2>1 DEF SenderCommit
<1>3. CASE SenderCrash
  <2>1. UNCHANGED <<net, pays, wStatus>> BY <1>3 DEF SenderCrash
  <2> QED BY <2>1, Quiet
<1>4. ASSUME NEW t \in WithdrawalTx, SenderMark(t) \/ SenderReconstruct(t) \/ SenderSubmit(t)
      PROVE  UNCHANGED Promise!payoutVars
  <2>1. t \in PendingTx
    BY <1>4 DEF SenderMark, SenderReconstruct, SenderSubmit, findOneWithdrawalTx, Oldest,
                PendingTx, Pending
  <2>2. CASE SenderMark(t) BY <1>1, <2>1, <2>2 DEF SenderMark
  <2>3. CASE SenderReconstruct(t) BY <2>1, <2>3, QuietMove DEF SenderReconstruct
  <2>4. CASE SenderSubmit(t)
    <3>1. UNCHANGED <<pays, wStatus>> BY <2>4 DEF SenderSubmit
    <3>2. \A u \in WithdrawalTx : net'[u] = "final" \/ net[u] = "final" => net'[u] = net[u]
      BY <2>4, WithdrawalsAssumption DEF SenderSubmit, sendRawTransaction, Accept
    <3> QED BY <3>1, <3>2, Quiet
  <2> QED BY <1>4, <2>2, <2>3, <2>4
<1>5. ASSUME NEW t \in WithdrawalTx, SenderSeesInVain(t) PROVE UNCHANGED Promise!payoutVars
  <2>1. UNCHANGED <<net, pays, wStatus>> BY <1>5 DEF SenderSeesInVain
  <2> QED BY <2>1, Quiet
<1> QED BY <1>2, <1>3, <1>4, <1>5 DEF Sender

LEMMA PayoutStep ==
  ASSUME NoStaleReads, IInv, IInv', [Next]_vars PROVE [Promise!Next]_(Promise!payoutVars)
<1>1. CASE WebService
  <2>1. PICK w \in Withdrawal : approveTransaction(w) \/ \E h \in HotWallet : saveThreshold(w, h)
    BY <1>1 DEF WebService
  <2>2. \A v \in Withdrawal :
          wStatus'[v] = wStatus[v] \/ (wStatus[v] = "none" /\ wStatus'[v] = "unsigned")
    BY <2>1 DEF approveTransaction, saveThreshold, InsertSweeps, SetAll, IInv, TypeOK
  <2>3. UNCHANGED <<net, pays>>
    BY <2>1 DEF approveTransaction, saveThreshold, InsertSweeps, chainVars
  <2> QED BY <2>2, <2>3, PayoutAsked
<1>2. CASE Verifier
  <2>1. PICK t \in WithdrawalTx : VerifierWait(t) \/ VerifierSettle(t) BY <1>2 DEF Verifier
  <2>2. CASE VerifierWait(t)
    <3>1. UNCHANGED <<net, pays, wStatus>> BY <2>2 DEF VerifierWait, chainVars
    <3> QED BY <3>1, Quiet
  <2> QED BY <2>1, <2>2, PayoutSettle
<1>3. CASE OtherPlatform \/ UNCHANGED vars
  <2>1. UNCHANGED <<net, pays, wStatus>>
    BY <1>3 DEF OtherPlatform, ForeignSeedSent, ForeignSeedSettled, vars, chainVars, rowVars
  <2> QED BY <2>1, Quiet
<1> QED BY <1>1, <1>2, <1>3, PayoutPicker, PayoutSigner, PayoutSender, PayoutNetwork
  DEF Next, WorkerStep

\* The pipeline keeps the promise of Payout: one irreversible payment at most
\* per request, and outcomes that are true when told and never revised.
THEOREM PipelineImplementsPayout == ASSUME NoStaleReads PROVE Spec => ImplementsPayout
<1>1. IInv /\ IInv' /\ [Next]_vars => [Promise!Next]_(Promise!payoutVars) BY PayoutStep
<1> QED BY <1>1, IInvAlways, PayoutInit, PTL DEF Spec, ImplementsPayout, Promise!Spec

-----------------------------------------------------------------------------
(***************************************************************************)
(* A hot wallet serves one pending transaction at a time, and the nonce    *)
(* that the picker read for it stays the next one of the hot wallet until  *)
(* the network includes it.  Proved of the pipeline without fee seeding,   *)
(* for every number of withdrawals, hot wallets and retries.               *)
(***************************************************************************)

\* The hot wallet the picker holds is free and its nonce is the next one.
PickerHolds ==
  picker # NoPick =>
    /\ picker.ids # {}
    /\ \A w \in Withdrawal : wStatus[w] \in Pending => wFrom[w] # picker.hot
    /\ NoStaleReads => picker.slot = mined[picker.hot]

\* Only withdrawal transactions use the network.
OnlyWithdrawals == \A x \in Tx \ WithdrawalTx : net[x] = "absent"

\* Every pending transaction has a hot wallet, and rows that carry it.
RowsCarryWallet ==
  \A t \in PendingTx :
    /\ payer[t] \in HotWallet
    /\ pays[t] # {}
    /\ \A w \in pays[t] : wFrom[w] = payer[t]

HotWalletInv ==
  /\ PickerHolds
  /\ OnlyWithdrawals
  /\ RowsCarryWallet
  /\ OneTxPerHotWallet
  /\ NoStaleReads => StillMineable

HInv == IInv /\ HotWalletInv

-----------------------------------------------------------------------------
LEMMA HotWalletInit == Init => HotWalletInv
BY DEF Init, ChainInit, HotWalletInv, PickerHolds, OnlyWithdrawals, RowsCarryWallet,
       OneTxPerHotWallet, StillMineable, PendingTx, Pending

\* The rows of a pending transaction keep the picker away from its wallet.
LEMMA HeldIsNotPaying ==
  ASSUME HInv, picker # NoPick, NEW t \in PendingTx PROVE payer[t] # picker.hot
<1>1. PICK w \in pays[t] : wFrom[w] = payer[t] BY DEF HInv, HotWalletInv, RowsCarryWallet
<1>2. w \in Withdrawal /\ wStatus[w] \in Pending
  BY DEF HInv, IInv, TypeOK, Consistent, PendingLinked, PendingTx
<1> QED BY <1>1, <1>2 DEF HInv, HotWalletInv, PickerHolds

\* What is in the pool or in a block is a pending transaction.
LEMMA OnNetworkIsPending ==
  ASSUME HInv, NoStaleReads, NEW x \in Tx, net[x] \in {"pool", "block"} PROVE x \in PendingTx
BY DEF HInv, HotWalletInv, OnlyWithdrawals, IInv, TypeOK, Consistent, TxTellsTruth,
       PendingTx, Pending, Settled, Status

\* A pending transaction is paid by a hot wallet, whose nonces are numbers.
LEMMA PayerIsWallet ==
  ASSUME HInv, NEW t \in PendingTx
  PROVE  payer[t] \in Account /\ mined[payer[t]] \in Nat /\ slot[t] \in Nat
<1>1. payer[t] \in HotWallet BY DEF HInv, HotWalletInv, RowsCarryWallet
<1>2. t \in WithdrawalTx /\ t \in Tx BY WithdrawalsAssumption DEF PendingTx
<1> QED BY <1>1, <1>2, WithdrawalsAssumption DEF HInv, IInv, TypeOK, ChainTypeOK

-----------------------------------------------------------------------------
\* Every step preserves the invariant

\* Steps that touch neither the network nor the link between rows and wallets,
\* and make no row pending that was not.
LEMMA HotWalletSame ==
  ASSUME HInv,
         UNCHANGED <<net, payer, slot, mined, picker, pays>>,
         PendingTx' \subseteq PendingTx,
         \A w \in Withdrawal :
           wStatus'[w] \in Pending => wStatus[w] \in Pending /\ wFrom'[w] = wFrom[w],
         \A t \in PendingTx' : \A w \in pays[t] : wFrom'[w] = wFrom[w]
  PROVE  HotWalletInv'
<1>1. PickerHolds' BY DEF HInv, HotWalletInv, PickerHolds
<1>2. OnlyWithdrawals' BY DEF HInv, HotWalletInv, OnlyWithdrawals
<1>3. RowsCarryWallet' BY DEF HInv, HotWalletInv, RowsCarryWallet
<1>4. OneTxPerHotWallet' BY DEF HInv, HotWalletInv, OneTxPerHotWallet
<1>5. (NoStaleReads => StillMineable)' BY DEF HInv, HotWalletInv, StillMineable, NoStaleReads
<1> QED BY <1>1, <1>2, <1>3, <1>4, <1>5 DEF HotWalletInv

\* A pending transaction and its rows take another status together.
LEMMA HotWalletMove ==
  ASSUME HInv, NEW t \in PendingTx, NEW b,
         tStatus' = [tStatus EXCEPT ![t] = b],
         wStatus' = SetAll(wStatus, RowsOf(t), b),
         UNCHANGED <<net, payer, slot, mined, picker, pays, wFrom>>
  PROVE  HotWalletInv'
<1>0. IInv /\ t \in WithdrawalTx BY DEF HInv, PendingTx
<1>1. \A w \in Withdrawal : wStatus'[w] = IF w \in pays[t] THEN b ELSE wStatus[w]
  BY <1>0, RowsOfPending DEF SetAll, IInv, TypeOK
<1>2. PendingTx' \subseteq PendingTx
  BY <1>0 DEF PendingTx, IInv, TypeOK
<1>3. \A w \in Withdrawal : wStatus'[w] \in Pending => wStatus[w] \in Pending
  BY <1>0, <1>1 DEF IInv, Consistent, PendingLinked, PendingTx
<1> QED BY <1>2, <1>3, HotWalletSame

LEMMA HotWalletNew ==
  ASSUME HInv,
         UNCHANGED <<net, payer, slot, mined, picker, pays, tStatus>>,
         \A w \in Withdrawal :
           (wStatus'[w] = wStatus[w] /\ wFrom'[w] = wFrom[w])
             \/ (wStatus[w] = "none" /\ wStatus'[w] = "unsigned")
  PROVE  HotWalletInv'
<1>1. PendingTx' = PendingTx BY DEF PendingTx
<1>2. \A w \in Withdrawal :
        wStatus'[w] \in Pending => wStatus[w] \in Pending /\ wFrom'[w] = wFrom[w]
  BY DEF Pending
<1>3. \A t \in PendingTx : \A w \in pays[t] : w \in Withdrawal /\ wStatus[w] \in Pending
  BY DEF HInv, IInv, TypeOK, Consistent, PendingLinked, PendingTx
<1>4. \A t \in PendingTx' : \A w \in pays[t] : wFrom'[w] = wFrom[w]
  BY <1>1, <1>3 DEF Pending
<1> QED BY <1>1, <1>2, <1>4, HotWalletSame

LEMMA HotWalletSweeps ==
  ASSUME HInv, NEW from, InsertSweeps(from) PROVE HotWalletInv'
<1>1. \A w \in Withdrawal :
        (wStatus'[w] = wStatus[w] /\ wFrom'[w] = wFrom[w])
          \/ (wStatus[w] = "none" /\ wStatus'[w] = "unsigned")
  BY DEF InsertSweeps, SetAll, HInv, IInv, TypeOK
<1>2. UNCHANGED <<net, payer, slot, mined, picker, pays, tStatus>>
  BY DEF InsertSweeps, chainVars, localVars
<1> QED BY <1>1, <1>2, HotWalletNew

LEMMA HotWalletWebService ==
  ASSUME HInv, WebService PROVE HotWalletInv'
<1>1. PICK w \in Withdrawal : approveTransaction(w) \/ \E h \in HotWallet : saveThreshold(w, h)
  BY DEF WebService
<1>2. CASE approveTransaction(w)
  <2>1. \A v \in Withdrawal :
          (wStatus'[v] = wStatus[v] /\ wFrom'[v] = wFrom[v])
            \/ (wStatus[v] = "none" /\ wStatus'[v] = "unsigned")
    BY <1>2 DEF approveTransaction, HInv, IInv, TypeOK
  <2>2. UNCHANGED <<net, payer, slot, mined, picker, pays, tStatus>>
    BY <1>2 DEF approveTransaction, chainVars, localVars
  <2> QED BY <2>1, <2>2, HotWalletNew
<1>3. ASSUME NEW h \in HotWallet, saveThreshold(w, h) PROVE HotWalletInv'
  BY <1>3, HotWalletSweeps DEF saveThreshold
<1> QED BY <1>1, <1>2, <1>3

LEMMA HotWalletPicker ==
  ASSUME HInv, Picker \/ PickerCrash PROVE HotWalletInv'
<1> USE DEF chainVars, rowVars, ledgerVars, localVars
<1>1. CASE checkUpperThreshold
  <2>1. PICK from : InsertSweeps(from) BY <1>1 DEF checkUpperThreshold
  <2> QED BY <2>1, HotWalletSweeps
<1>2. CASE PickerPostpone
  <2>1. UNCHANGED <<net, payer, slot, mined, picker, pays, tStatus, wStatus, wFrom>>
    BY <1>2 DEF PickerPostpone
  <2> QED BY <2>1, HotWalletNew
<1>3. CASE PickerConstruct \/ PickerCrash
  <2>1. PickerHolds'
    <3>1. CASE PickerCrash BY <3>1 DEF PickerCrash, PickerHolds
    <3>2. CASE PickerConstruct
      <4>1. PICK w \in Oldest(wOlder, Unsigned), h \in findFreeHotWallets :
              /\ Picked(w, h) # {}
              /\ picker' = [ids |-> Picked(w, h), hot |-> h, slot |-> mined[h]]
        BY <3>2 DEF PickerConstruct
      <4>2. UNCHANGED <<mined, wStatus, wFrom>> BY <3>2 DEF PickerConstruct
      <4> QED BY <4>1, <4>2 DEF PickerHolds, findFreeHotWallets
    <3> QED BY <1>3, <3>1, <3>2
  <2>2. UNCHANGED <<net, payer, slot, mined, pays, tStatus, wFrom>>
    BY <1>3 DEF PickerConstruct, PickerCrash
  <2> QED BY <2>1, <2>2
    DEF HInv, HotWalletInv, OnlyWithdrawals, RowsCarryWallet, OneTxPerHotWallet, StillMineable,
        NoStaleReads, PendingTx
<1>4. CASE PickerCommit
  <2>1. PICK t \in WithdrawalTx :
          /\ tStatus[t] = "none"
          /\ Record(t, picker.hot, picker.slot)
          /\ tStatus' = [tStatus EXCEPT ![t] = "signing"]
          /\ pays' = [pays EXCEPT ![t] = picker.ids]
    BY <1>4 DEF PickerCommit
  <2>2. /\ picker # NoPick /\ picker' = NoPick
        /\ picker.ids \subseteq Withdrawal /\ picker.hot \in HotWallet
        /\ \A w \in picker.ids : wStatus[w] = "unsigned"
    BY <1>4 DEF PickerCommit, HInv, IInv, TypeOK, Consistent, WorkersUpToDate
  <2>3. /\ UNCHANGED <<net, mined>>
        /\ \A w \in Withdrawal : wFrom'[w] = IF w \in picker.ids THEN picker.hot ELSE wFrom[w]
        /\ \A u \in WithdrawalTx :
             /\ payer'[u] = IF u = t THEN picker.hot ELSE payer[u]
             /\ slot'[u] = IF u = t THEN picker.slot ELSE slot[u]
             /\ pays'[u] = IF u = t THEN picker.ids ELSE pays[u]
    BY <1>4, <2>1, <2>2, WithdrawalsAssumption
    DEF PickerCommit, Record, SetAll, HInv, IInv, TypeOK, ChainTypeOK
  <2>4. \A u \in PendingTx' : u = t \/ (u # t /\ u \in PendingTx)
    BY <2>1 DEF PendingTx, HInv, IInv, TypeOK
  <2>5. \A u \in PendingTx : /\ u \in WithdrawalTx /\ payer[u] # picker.hot
                             /\ \A w \in pays[u] : w \in Withdrawal /\ w \notin picker.ids
    BY <2>2, HeldIsNotPaying DEF HInv, IInv, TypeOK, Consistent, PendingLinked, PendingTx, Pending
  <2>6. PickerHolds' BY <2>2 DEF PickerHolds
  <2>7. OnlyWithdrawals' BY <2>3 DEF HInv, HotWalletInv, OnlyWithdrawals
  <2>8. RowsCarryWallet'
    <3> SUFFICES ASSUME NEW u \in PendingTx'
                 PROVE  /\ payer'[u] \in HotWallet
                        /\ pays'[u] # {}
                        /\ \A w \in pays'[u] : wFrom'[w] = payer'[u]
      BY DEF RowsCarryWallet
    <3>1. CASE u = t
      BY <2>1, <2>2, <2>3, <3>1 DEF HInv, HotWalletInv, PickerHolds
    <3>2. CASE u # t
      BY <2>3, <2>4, <2>5, <3>2 DEF HInv, HotWalletInv, RowsCarryWallet
    <3> QED BY <3>1, <3>2
  <2>9. OneTxPerHotWallet'
    BY <2>3, <2>4, <2>5 DEF HInv, HotWalletInv, OneTxPerHotWallet
  <2>10. ASSUME NoStaleReads PROVE StillMineable'
    <3> SUFFICES ASSUME NEW u \in PendingTx'
                 PROVE  CASE net'[u] \in {"absent", "pool"} -> slot'[u] = mined'[payer'[u]]
                          [] net'[u] = "block" -> slot'[u] + 1 = mined'[payer'[u]]
                          [] OTHER -> TRUE
      BY DEF StillMineable
    <3>1. CASE u = t
      <4>1. net[t] = "absent" BY <2>1 DEF HInv, IInv, Consistent, TxTellsTruth
      <4> QED BY <2>1, <2>2, <2>3, <2>10, <3>1, <4>1 DEF HInv, HotWalletInv, PickerHolds
    <3>2. CASE u # t
      BY <2>3, <2>4, <2>5, <2>10, <3>2 DEF HInv, HotWalletInv, StillMineable
    <3> QED BY <3>1, <3>2
  <2> QED BY <2>6, <2>7, <2>8, <2>9, <2>10 DEF HotWalletInv, NoStaleReads
<1> QED BY <1>1, <1>2, <1>3, <1>4 DEF Picker

LEMMA HotWalletSigner ==
  ASSUME HInv, Signer PROVE HotWalletInv'
<1> USE DEF chainVars, localVars
<1>1. PICK t \in WithdrawalTx : SignerPostpone(t) \/ SignerSign(t) BY DEF Signer
<1>2. CASE SignerPostpone(t)
  <2>1. UNCHANGED <<net, payer, slot, mined, picker, pays, tStatus, wStatus, wFrom>>
    BY <1>2 DEF SignerPostpone
  <2> QED BY <2>1, HotWalletNew
<1>3. CASE SignerSign(t)
  <2>1. t \in PendingTx
    BY <1>3 DEF SignerSign, findOneWithdrawalTx, Oldest, PendingTx, Pending
  <2> QED BY <1>3, <2>1, HotWalletMove DEF SignerSign
<1> QED BY <1>1, <1>2, <1>3

\* Handing a transaction over moves it, and only it, into the pool; a rival
\* of the same slot would have to be pending at the same hot wallet.
LEMMA HotWalletAccept ==
  ASSUME HInv, NEW x \in PendingTx, Accept(x),
         UNCHANGED <<picker, pays, wFrom, wStatus, tStatus>>
  PROVE  HotWalletInv'
<1>1. x \in Tx /\ x \in WithdrawalTx BY WithdrawalsAssumption DEF PendingTx
<1>2. net[x] = "absent" /\ UNCHANGED <<payer, slot, mined>> BY DEF Accept
<1>3. PendingTx' = PendingTx /\ PendingTx \subseteq Tx BY WithdrawalsAssumption DEF PendingTx
<1>4. PickerHolds' BY <1>2 DEF HInv, HotWalletInv, PickerHolds, NoStaleReads
<1>5. OnlyWithdrawals' BY <1>1 DEF Accept, HInv, HotWalletInv, OnlyWithdrawals
<1>6. RowsCarryWallet' BY <1>2, <1>3 DEF HInv, HotWalletInv, RowsCarryWallet
<1>7. OneTxPerHotWallet' BY <1>2, <1>3 DEF HInv, HotWalletInv, OneTxPerHotWallet
<1>8. ASSUME NoStaleReads PROVE StillMineable'
  <2> SUFFICES ASSUME NEW u \in PendingTx
               PROVE  CASE net'[u] \in {"absent", "pool"} -> slot[u] = mined[payer[u]]
                        [] net'[u] = "block" -> slot[u] + 1 = mined[payer[u]]
                        [] OTHER -> TRUE
    BY <1>2, <1>3 DEF StillMineable
  <2>1. CASE u # x
    <3>1. u \notin Rival(x) BY <2>1 DEF Rival, HInv, HotWalletInv, OneTxPerHotWallet
    <3>2. net'[u] = net[u] BY <1>3, <2>1, <3>1 DEF Accept
    <3> QED BY <1>8, <3>2 DEF HInv, HotWalletInv, StillMineable
  <2>2. CASE u = x
    <3>1. net'[x] = "pool" BY <1>1 DEF Accept
    <3> QED BY <1>2, <1>8, <2>2, <3>1 DEF HInv, HotWalletInv, StillMineable
  <2> QED BY <2>1, <2>2
<1> QED BY <1>4, <1>5, <1>6, <1>7, <1>8 DEF HotWalletInv, NoStaleReads

LEMMA HotWalletSender ==
  ASSUME HInv, Sender \/ SenderCrash PROVE HotWalletInv'
<1> USE DEF chainVars, rowVars
<1>1. ASSUME NEW t \in PendingTx, MarkSent(t), UNCHANGED chainVars PROVE HotWalletInv'
  BY <1>1, HotWalletMove DEF MarkSent
<1>2. CASE SenderCommit
  <2>1. sender \in PendingTx
    BY <1>2 DEF SenderCommit, HInv, IInv, TypeOK, Consistent, WorkersUpToDate, PendingTx, Pending
  <2> QED BY <1>1, <1>2, <2>1 DEF SenderCommit
<1>3. CASE SenderCrash
  <2>1. UNCHANGED <<net, payer, slot, mined, picker, pays, tStatus, wStatus, wFrom>>
    BY <1>3 DEF SenderCrash
  <2> QED BY <2>1, HotWalletNew
<1>4. ASSUME NEW t \in WithdrawalTx, SenderMark(t) \/ SenderReconstruct(t) \/ SenderSubmit(t)
      PROVE  HotWalletInv'
  <2>1. t \in PendingTx
    BY <1>4 DEF SenderMark, SenderReconstruct, SenderSubmit, findOneWithdrawalTx, Oldest,
                PendingTx, Pending
  <2>2. CASE SenderMark(t) BY <1>1, <2>1, <2>2 DEF SenderMark
  <2>3. CASE SenderReconstruct(t)
    BY <2>1, <2>3, HotWalletMove DEF SenderReconstruct, localVars
  <2>4. CASE SenderSubmit(t)
    <3>1. UNCHANGED <<picker, pays, wFrom, wStatus, tStatus>> BY <2>4 DEF SenderSubmit
    <3>2. CASE Accept(t) BY <2>1, <3>1, <3>2, HotWalletAccept
    <3>3. CASE UNCHANGED chainVars BY <3>1, <3>3, HotWalletNew
    <3> QED BY <2>4, <3>2, <3>3 DEF SenderSubmit, sendRawTransaction
  <2> QED BY <1>4, <2>2, <2>3, <2>4
<1>5. ASSUME NEW t \in WithdrawalTx, SenderSeesInVain(t) PROVE HotWalletInv'
  <2>1. UNCHANGED <<net, payer, slot, mined, picker, pays, tStatus, wStatus, wFrom>>
    BY <1>5 DEF SenderSeesInVain, localVars
  <2> QED BY <2>1, HotWalletNew
<1> QED BY <1>2, <1>3, <1>4, <1>5 DEF Sender

LEMMA HotWalletVerifier ==
  ASSUME HInv, Verifier PROVE HotWalletInv'
<1> USE DEF chainVars, localVars
<1>1. PICK t \in WithdrawalTx : VerifierWait(t) \/ VerifierSettle(t) BY DEF Verifier
<1>2. CASE VerifierWait(t)
  <2>1. UNCHANGED <<net, payer, slot, mined, picker, pays, tStatus, wStatus, wFrom>>
    BY <1>2 DEF VerifierWait
  <2> QED BY <2>1, HotWalletNew
<1>3. CASE VerifierSettle(t)
  <2>1. t \in PendingTx
    BY <1>3 DEF VerifierSettle, findOneWithdrawalTx, Oldest, PendingTx, Pending
  <2> QED BY <1>3, <2>1, HotWalletMove DEF VerifierSettle
<1> QED BY <1>1, <1>2, <1>3

\* Blocks come and go at the slot of one pending transaction; the other ones,
\* and the picker, are at other hot wallets.
LEMMA NonceNetwork ==
  ASSUME HInv, NoStaleReads, ChainStep, UNCHANGED <<picker, tStatus>>
  PROVE  /\ picker # NoPick => mined'[picker.hot] = mined[picker.hot]
         /\ StillMineable'
<1>0. UNCHANGED <<payer, slot>> BY DEF ChainStep, Mine, Finalise, Reorg, Drop, CacheMoves, Age, Expire
<1>1. PICK x \in Tx : Mine(x) \/ Finalise(x) \/ Reorg(x) \/ Drop(x) \/ CacheMoves(x)
  BY DEF ChainStep, CacheMoves
<1>2. PendingTx' = PendingTx /\ PendingTx \subseteq Tx BY WithdrawalsAssumption DEF PendingTx
<1>3. CASE CacheMoves(x)
  BY <1>0, <1>2, <1>3 DEF CacheMoves, Age, Expire, HInv, HotWalletInv, StillMineable
<1>4. CASE Mine(x) \/ Finalise(x) \/ Reorg(x) \/ Drop(x)
  <2>1. x \in PendingTx BY <1>4, OnNetworkIsPending DEF Mine, Finalise, Reorg, Drop
  <2>2. payer[x] \in Account /\ mined[payer[x]] \in Nat /\ slot[x] \in Nat BY <2>1, PayerIsWallet
  <2>3. \A y \in Tx : y # x => net'[y] = net[y]
    BY <1>4 DEF Mine, Finalise, Reorg, Drop, HInv, IInv, TypeOK, ChainTypeOK
  <2>4. \A h \in Account : h # payer[x] => mined'[h] = mined[h]
    BY <1>4 DEF Mine, Finalise, Reorg, Drop, HInv, IInv, TypeOK, ChainTypeOK
  <2>5. ASSUME picker # NoPick PROVE mined'[picker.hot] = mined[picker.hot]
    <3>1. picker.hot \in Account BY <2>5, WithdrawalsAssumption DEF HInv, IInv, TypeOK
    <3>2. picker.hot # payer[x] BY <2>1, <2>5, HeldIsNotPaying
    <3> QED BY <2>4, <3>1, <3>2
  <2>6. StillMineable'
    <3> SUFFICES ASSUME NEW u \in PendingTx
                 PROVE  CASE net'[u] \in {"absent", "pool"} -> slot[u] = mined'[payer[u]]
                          [] net'[u] = "block" -> slot[u] + 1 = mined'[payer[u]]
                          [] OTHER -> TRUE
      BY <1>0, <1>2 DEF StillMineable
    <3>1. CASE u # x
      <4>1. net'[u] = net[u] BY <1>2, <2>3, <3>1
      <4>2. payer[u] # payer[x] BY <2>1, <3>1 DEF HInv, HotWalletInv, OneTxPerHotWallet
      <4>3. mined'[payer[u]] = mined[payer[u]] BY <2>4, <4>2, PayerIsWallet
      <4> QED BY <4>1, <4>3 DEF HInv, HotWalletInv, StillMineable
    <3>2. CASE u = x
      <4>0. net \in [Tx -> NetStatus] /\ mined \in [Account -> Nat]
        BY DEF HInv, IInv, TypeOK, ChainTypeOK
      <4>1. CASE Mine(x)
        <5>1. net'[x] = "block" /\ mined'[payer[x]] = mined[payer[x]] + 1 /\ slot[x] = mined[payer[x]]
          BY <2>2, <4>0, <4>1 DEF Mine
        <5> QED BY <3>2, <5>1
      <4>2. CASE Finalise(x)
        <5>1. net'[x] \in {"final", "reverted"} BY <4>0, <4>2 DEF Finalise
        <5> QED BY <3>2, <5>1
      <4>3. CASE Reorg(x)
        <5>1. net'[x] = "pool" /\ mined'[payer[x]] = mined[payer[x]] - 1 /\ slot[x] + 1 = mined[payer[x]]
          BY <2>2, <4>0, <4>3 DEF Reorg
        <5> QED BY <2>2, <3>2, <5>1
      <4>4. CASE Drop(x)
        <5>1. net[x] = "pool" /\ net'[x] = "absent" /\ mined' = mined BY <4>0, <4>4 DEF Drop
        <5>2. slot[x] = mined[payer[x]] BY <2>1, <5>1 DEF HInv, HotWalletInv, StillMineable
        <5> QED BY <3>2, <5>1, <5>2
      <4> QED BY <1>4, <4>1, <4>2, <4>3, <4>4
    <3> QED BY <3>1, <3>2
  <2> QED BY <2>5, <2>6
<1> QED BY <1>1, <1>3, <1>4

LEMMA HotWalletNetwork ==
  ASSUME HInv, Network PROVE HotWalletInv'
<1>0. ChainStep /\ UNCHANGED <<picker, pays, wFrom, wStatus, tStatus>>
  BY DEF Network, rowVars, localVars
<1>1. UNCHANGED <<payer, slot>> BY <1>0 DEF ChainStep, Mine, Finalise, Reorg, Drop, CacheMoves, Age, Expire
<1>2. PendingTx' = PendingTx BY <1>0 DEF PendingTx
<1>3. PickerHolds' BY <1>0, NonceNetwork DEF HInv, HotWalletInv, PickerHolds, NoStaleReads
<1>4. OnlyWithdrawals'
  <2>1. \A y \in Tx : net[y] = "absent" => net'[y] = "absent"
    BY <1>0 DEF ChainStep, Mine, Finalise, Reorg, Drop, CacheMoves, Age, Expire, HInv, IInv, TypeOK, ChainTypeOK
  <2> QED BY <2>1 DEF HInv, HotWalletInv, OnlyWithdrawals
<1>5. RowsCarryWallet' BY <1>0, <1>1, <1>2 DEF HInv, HotWalletInv, RowsCarryWallet
<1>6. OneTxPerHotWallet' BY <1>0, <1>1, <1>2 DEF HInv, HotWalletInv, OneTxPerHotWallet
<1> QED BY <1>0, <1>3, <1>4, <1>5, <1>6, NonceNetwork DEF HotWalletInv, NoStaleReads

LEMMA HotWalletNext == HInv /\ [Next]_vars => HInv'
<1> SUFFICES ASSUME HInv, [Next]_vars PROVE HInv' OBVIOUS
<1>1. IInv' BY ConsistentNext DEF HInv
<1>2. CASE OtherPlatform \/ UNCHANGED vars
  <2>1. UNCHANGED <<net, payer, slot, mined, picker, pays, tStatus, wStatus, wFrom>>
    BY <1>2 DEF OtherPlatform, ForeignSeedSent, ForeignSeedSettled, vars, chainVars, rowVars, localVars
  <2> QED BY <1>1, <2>1, HotWalletNew DEF HInv
<1>3. CASE WebService \/ WorkerStep \/ Network
  BY <1>1, <1>3, HotWalletWebService, HotWalletPicker, HotWalletSigner, HotWalletSender,
     HotWalletVerifier, HotWalletNetwork
  DEF WorkerStep, HInv
<1> QED BY <1>2, <1>3 DEF Next

LEMMA HInvAlways == Spec => []HInv
<1>1. Init => HInv BY TypeInit, ConsistentInit, HotWalletInit DEF IInv, HInv
<1> QED BY <1>1, HotWalletNext, PTL DEF Spec

-----------------------------------------------------------------------------
\* However the picker, the signer and the sender overtake each other, two
\* pending transactions are never paid by the same hot wallet.
THEOREM HotWalletServesOne == Spec => []OneTxPerHotWallet
<1>1. HInv => OneTxPerHotWallet BY DEF HInv, HotWalletInv
<1> QED BY <1>1, HInvAlways, PTL

\* The nonce read when a withdrawal was picked is never too low or too high
\* while the transaction waits, is re-sent, dropped or reorganised, as long as
\* the verifier does not settle it on the word of a disconnected block.
THEOREM PickedNonceStaysNext == ASSUME NoStaleReads PROVE Spec => []StillMineable
<1>1. HInv => StillMineable BY DEF HInv, HotWalletInv
<1> QED BY <1>1, HInvAlways, PTL

\* The status and hot wallet copied into the withdrawal rows, which every
\* busy check reads, are those of the transaction that pays them.
THEOREM CopiesAgree == Spec => []RowsAgree
<1>1. HInv => RowsAgree
  <2> SUFFICES ASSUME HInv, NEW t \in PendingTx
               PROVE  /\ RowsOf(t) = pays[t]
                      /\ pays[t] # {}
                      /\ \A w \in pays[t] : wStatus[w] = tStatus[t] /\ wFrom[w] = payer[t]
    BY DEF RowsAgree
  <2> QED BY RowsOfPending DEF HInv, HotWalletInv, RowsCarryWallet, IInv, Consistent, PendingLinked
<1> QED BY <1>1, HInvAlways, PTL

-----------------------------------------------------------------------------
(***************************************************************************)
(* The events that the clients of a withdrawal are told make sense in the  *)
(* order in which they are stored, although three workers store them and   *)
(* any of them may lose a commit.  Proved for every instance, the ones     *)
(* with stale caches included.                                             *)
(***************************************************************************)

\* The two halves of NoticesInOrder: the events n by themselves, and with the
\* status that the client can query.
Ordered(n) ==
  \A i \in 1 .. Len(n) :
    /\ n[i] \in Settled => i = Len(n) /\ i > 1 /\ n[i - 1] = "sent"
    /\ n[i] = "sent" => i = Len(n) \/ n[i + 1] \in Settled
Starting(n) == n = <<>> \/ n[Len(n)] = "txid_changed"
Agrees(n, status) ==
  IF Starting(n) THEN status \in {"none", "unsigned", "signing", "signed"} ELSE status = n[Len(n)]

LEMMA NoticesSplit ==
  NoticesInOrder <=> \A w \in Withdrawal : Ordered(notices[w]) /\ Agrees(notices[w], wStatus[w])
BY DEF NoticesInOrder, Ordered, Agrees, Starting

LEMMA NoticesSplitPrime ==
  (\A w \in Withdrawal : Ordered(notices'[w]) /\ Agrees(notices'[w], wStatus'[w])) => NoticesInOrder'
BY DEF NoticesInOrder, Ordered, Agrees, Starting

\* An event may be stored after the ones that it makes sense after.
LEMMA OrderedAppend ==
  ASSUME NEW n \in Seq(Event), NEW e \in Event, Ordered(n),
         IF e \in Settled THEN n # <<>> /\ n[Len(n)] = "sent" ELSE Starting(n)
  PROVE  /\ Ordered(Append(n, e))
         /\ \A s : Agrees(Append(n, e), s) <=>
                     IF e = "txid_changed" THEN s \in {"none", "unsigned", "signing", "signed"}
                     ELSE s = e
<1> DEFINE m == Append(n, e)
<1>1. /\ Len(m) = Len(n) + 1 /\ Len(n) \in Nat /\ m # <<>>
      /\ m[Len(n) + 1] = e
      /\ \A i \in 1 .. Len(n) : m[i] = n[i]
  OBVIOUS
<1>2. Starting(n) => \A i \in 1 .. Len(n) : n[i] \notin Settled /\ n[i] # "sent"
  <2> SUFFICES ASSUME Starting(n), NEW i \in 1 .. Len(n) PROVE n[i] \notin Settled /\ n[i] # "sent"
    OBVIOUS
  <2>1. n[Len(n)] = "txid_changed" BY DEF Starting
  <2>2. i = Len(n) \/ i + 1 \in 1 .. Len(n)
    <3>1. Len(n) \in Nat OBVIOUS
    <3> QED BY <3>1
  <2>3. n[i] \notin Settled BY <2>1, <2>2 DEF Ordered, Settled
  <2>4. ASSUME n[i] = "sent" PROVE FALSE
    <3>1. i # Len(n) BY <2>1, <2>4
    <3>2. n[i + 1] \in Settled BY <2>4, <3>1 DEF Ordered
    <3>3. i + 1 = Len(n) BY <2>2, <3>1, <3>2 DEF Ordered
    <3> QED BY <2>1, <3>2, <3>3 DEF Settled
  <2> QED BY <2>3, <2>4
<1>3. Ordered(m)
  <2> SUFFICES ASSUME NEW i \in 1 .. Len(m)
               PROVE  /\ m[i] \in Settled => i = Len(m) /\ i > 1 /\ m[i - 1] = "sent"
                      /\ m[i] = "sent" => i = Len(m) \/ m[i + 1] \in Settled
    BY DEF Ordered
  <2> HIDE DEF m
  <2>1. CASE i = Len(n) + 1
    <3>1. e \in Settled => Len(n) \in 1 .. Len(n) BY <1>1
    <3> QED BY <1>1, <2>1, <3>1
  <2>2. CASE i \in 1 .. Len(n) /\ Starting(n) BY <1>1, <1>2, <2>2
  <2>3. CASE i \in 1 .. Len(n) /\ e \in Settled
    <3>1. n[Len(n)] = "sent" /\ Len(n) \in 1 .. Len(n) BY <1>1, <2>3
    <3>2. n[i] \notin Settled BY <3>1, <2>3 DEF Ordered, Settled
    <3>3. n[i] = "sent" => i = Len(n)
      <4>1. ASSUME n[i] = "sent", i # Len(n) PROVE FALSE
        <5>1. n[i + 1] \in Settled /\ i + 1 \in 1 .. Len(n) BY <1>1, <2>3, <4>1 DEF Ordered
        <5>2. i + 1 = Len(n) BY <5>1 DEF Ordered
        <5> QED BY <3>1, <5>1, <5>2 DEF Settled
      <4> QED BY <4>1
    <3> QED BY <1>1, <2>3, <3>2, <3>3
  <2> QED BY <1>1, <2>1, <2>2, <2>3
<1>4. ASSUME NEW s
      PROVE  Agrees(m, s) <=> IF e = "txid_changed" THEN s \in {"none", "unsigned", "signing", "signed"}
                              ELSE s = e
  BY <1>1 DEF Agrees, Starting
<1> QED BY <1>3, <1>4

-----------------------------------------------------------------------------
NoticesInv == IInv /\ NoticesInOrder

\* The rows S take the status b, and their clients are told the event e.
LEMMA NoticesMove ==
  ASSUME NoticesInv, NEW S \in SUBSET Withdrawal, NEW a, NEW b, NEW e \in Event,
         \A w \in S : wStatus[w] = a,
         wStatus' = SetAll(wStatus, S, b), notices' = Notify(S, e),
         \/ e \in Settled /\ a = "sent" /\ b = e
         \/ e = "sent" /\ a = "signed" /\ b = "sent"
         \/ e = "txid_changed" /\ a = "signed" /\ b = "unsigned"
  PROVE  NoticesInOrder'
<1> SUFFICES ASSUME NEW w \in Withdrawal PROVE Ordered(notices'[w]) /\ Agrees(notices'[w], wStatus'[w])
  BY NoticesSplitPrime
<1>0. notices[w] \in Seq(Event) /\ Ordered(notices[w]) /\ Agrees(notices[w], wStatus[w])
  BY NoticesSplit DEF NoticesInv, IInv, TypeOK
<1>1. CASE w \notin S
  <2>1. wStatus'[w] = wStatus[w] /\ notices'[w] = notices[w]
    BY <1>1 DEF SetAll, Notify, NoticesInv, IInv, TypeOK
  <2> QED BY <1>0, <2>1
<1>2. CASE w \in S
  <2>1. /\ wStatus'[w] = b /\ notices'[w] = Append(notices[w], e)
    BY <1>2 DEF SetAll, Notify, NoticesInv, IInv, TypeOK
  <2>2. e \in Settled => notices[w] # <<>> /\ notices[w][Len(notices[w])] = "sent"
    <3>1. e \in Settled => wStatus[w] = "sent" BY <1>2 DEF Settled
    <3>2. wStatus[w] = "sent" => ~Starting(notices[w]) /\ notices[w][Len(notices[w])] = "sent"
      BY <1>0 DEF Agrees
    <3>3. ~Starting(notices[w]) => notices[w] # <<>> BY DEF Starting
    <3> QED BY <3>1, <3>2, <3>3
  <2>3. e \notin Settled => Starting(notices[w])
    <3>1. e \notin Settled => wStatus[w] = "signed" BY <1>2
    <3>2. ASSUME ~Starting(notices[w]) PROVE notices[w][Len(notices[w])] \in Event
      BY <1>0, <3>2 DEF Starting
    <3>3. "signed" \notin Event BY DEF Event
    <3> QED BY <1>0, <3>1, <3>2, <3>3 DEF Agrees
  <2> QED BY <1>0, <2>1, <2>2, <2>3, OrderedAppend DEF Settled
<1> QED BY <1>1, <1>2

\* The rows S move inside the statuses of which no client is told.
Quietly == {"none", "unsigned", "signing", "signed"}
LEMMA NoticesQuiet ==
  ASSUME NoticesInv, UNCHANGED notices,
         \A w \in Withdrawal : wStatus'[w] = wStatus[w] \/ {wStatus[w], wStatus'[w]} \subseteq Quietly
  PROVE  NoticesInOrder'
<1> SUFFICES ASSUME NEW w \in Withdrawal PROVE Ordered(notices'[w]) /\ Agrees(notices'[w], wStatus'[w])
  BY NoticesSplitPrime
<1>0. notices[w] \in Seq(Event) /\ Ordered(notices[w]) /\ Agrees(notices[w], wStatus[w])
  BY NoticesSplit DEF NoticesInv, IInv, TypeOK
<1>1. CASE wStatus'[w] = wStatus[w]
  <2>1. notices'[w] = notices[w] OBVIOUS
  <2> QED BY <1>0, <1>1, <2>1
<1>2. CASE {wStatus[w], wStatus'[w]} \subseteq Quietly
  <2>1. Starting(notices[w])
    <3>1. ASSUME ~Starting(notices[w]) PROVE FALSE
      <4>1. /\ Len(notices[w]) \in 1 .. Len(notices[w])
            /\ notices[w][Len(notices[w])] \in Quietly
            /\ notices[w][Len(notices[w])] \in Event
        BY <1>0, <1>2, <3>1 DEF Agrees, Starting
      <4> QED BY <4>1 DEF Quietly, Event
    <3> QED BY <3>1
  <2> QED BY <1>0, <1>2, <2>1 DEF Agrees, Quietly
<1> QED BY <1>1, <1>2

LEMMA NoticesSender ==
  ASSUME NoticesInv, Sender \/ SenderCrash PROVE NoticesInOrder'
<1>1. ASSUME NEW t \in WithdrawalTx, tStatus[t] = "signed", MarkSent(t) PROVE NoticesInOrder'
  <2>1. t \in PendingTx BY <1>1 DEF PendingTx, Pending
  <2>2. RowsOf(t) \in SUBSET Withdrawal BY DEF RowsOf
  <2>3. \A w \in RowsOf(t) : wStatus[w] = "signed"
    BY <1>1, <2>1, RowsOfPending DEF NoticesInv, IInv, Consistent, PendingLinked
  <2> QED BY <1>1, <2>2, <2>3, NoticesMove DEF MarkSent, Event
<1>2. ASSUME NEW t \in WithdrawalTx, SenderReconstruct(t) PROVE NoticesInOrder'
  <2>0. tStatus[t] = "signed" BY <1>2 DEF SenderReconstruct, findOneWithdrawalTx, Oldest
  <2>1. t \in PendingTx BY <2>0 DEF PendingTx, Pending
  <2>2. RowsOf(t) \in SUBSET Withdrawal BY DEF RowsOf
  <2>3. \A w \in RowsOf(t) : wStatus[w] = "signed"
    BY <2>0, <2>1, RowsOfPending DEF NoticesInv, IInv, Consistent, PendingLinked
  <2> QED BY <1>2, <2>2, <2>3, NoticesMove DEF SenderReconstruct, Event
<1>3. ASSUME NEW t \in WithdrawalTx, SenderMark(t) PROVE NoticesInOrder'
  BY <1>1, <1>3 DEF SenderMark, findOneWithdrawalTx, Oldest
<1>4. CASE SenderCommit
  BY <1>1, <1>4 DEF SenderCommit, NoticesInv, IInv, TypeOK, Consistent, WorkersUpToDate
<1>5. ASSUME NEW t \in WithdrawalTx, SenderSubmit(t) PROVE NoticesInOrder'
  BY <1>5, NoticesQuiet DEF SenderSubmit, rowVars, ledgerVars
<1>6. CASE SenderCrash BY <1>6, NoticesQuiet DEF SenderCrash, rowVars, ledgerVars
<1>7. ASSUME NEW t \in WithdrawalTx, SenderSeesInVain(t) PROVE NoticesInOrder'
  BY <1>7, NoticesQuiet DEF SenderSeesInVain, rowVars, ledgerVars
<1> QED BY <1>2, <1>3, <1>4, <1>5, <1>6, <1>7 DEF Sender

LEMMA NoticesVerifier ==
  ASSUME NoticesInv, Verifier PROVE NoticesInOrder'
<1>1. PICK t \in WithdrawalTx : VerifierWait(t) \/ VerifierSettle(t) BY DEF Verifier
<1>2. CASE VerifierWait(t) BY <1>2, NoticesQuiet DEF VerifierWait, ledgerVars
<1>3. CASE VerifierSettle(t)
  <2>0. tStatus[t] = "sent" BY <1>3 DEF VerifierSettle, findOneWithdrawalTx, Oldest
  <2>1. t \in PendingTx BY <2>0 DEF PendingTx, Pending
  <2>2. RowsOf(t) \in SUBSET Withdrawal BY DEF RowsOf
  <2>3. \A w \in RowsOf(t) : wStatus[w] = "sent"
    BY <2>0, <2>1, RowsOfPending DEF NoticesInv, IInv, Consistent, PendingLinked
  <2>4. PICK v \in Settled : wStatus' = SetAll(wStatus, RowsOf(t), v) /\ notices' = Notify(RowsOf(t), v)
    BY <1>3 DEF VerifierSettle
  <2> QED BY <2>2, <2>3, <2>4, NoticesMove DEF Settled, Event
<1> QED BY <1>1, <1>2, <1>3

LEMMA NoticesPicker ==
  ASSUME NoticesInv, Picker \/ PickerCrash PROVE NoticesInOrder'
<1> USE DEF rowVars, ledgerVars
<1>1. CASE checkUpperThreshold
  <2>1. PICK from : InsertSweeps(from) BY <1>1 DEF checkUpperThreshold
  <2> QED BY <2>1, NoticesQuiet DEF InsertSweeps, SetAll, Quietly, NoticesInv, IInv, TypeOK
<1>2. CASE PickerConstruct \/ PickerPostpone \/ PickerCrash
  BY <1>2, NoticesQuiet DEF PickerConstruct, PickerPostpone, PickerCrash
<1>3. CASE PickerCommit
  <2>1. \A w \in picker.ids : wStatus[w] = "unsigned"
    BY DEF NoticesInv, IInv, Consistent, WorkersUpToDate
  <2> QED BY <1>3, <2>1, NoticesQuiet DEF PickerCommit, SetAll, Quietly, NoticesInv, IInv, TypeOK
<1> QED BY <1>1, <1>2, <1>3 DEF Picker

LEMMA NoticesOthers ==
  ASSUME NoticesInv, WebService \/ Signer \/ OtherPlatform \/ Network PROVE NoticesInOrder'
<1> USE DEF rowVars, ledgerVars
<1>1. CASE WebService
  <2>1. ASSUME NEW w \in Withdrawal, approveTransaction(w) PROVE NoticesInOrder'
    <3>1. UNCHANGED notices BY <2>1 DEF approveTransaction
    <3>2. \A v \in Withdrawal : wStatus'[v] = wStatus[v] \/ {wStatus[v], wStatus'[v]} \subseteq Quietly
      BY <2>1 DEF approveTransaction, Quietly, NoticesInv, IInv, TypeOK
    <3> QED BY <3>1, <3>2, NoticesQuiet
  <2>2. ASSUME NEW w \in Withdrawal, NEW h \in HotWallet, saveThreshold(w, h) PROVE NoticesInOrder'
    <3>1. UNCHANGED notices BY <2>2 DEF saveThreshold, InsertSweeps
    <3>2. \A v \in Withdrawal : wStatus'[v] = wStatus[v] \/ {wStatus[v], wStatus'[v]} \subseteq Quietly
      BY <2>2 DEF saveThreshold, InsertSweeps, SetAll, Quietly, NoticesInv, IInv, TypeOK
    <3> QED BY <3>1, <3>2, NoticesQuiet
  <2> QED BY <1>1, <2>1, <2>2 DEF WebService
<1>2. ASSUME NEW t \in WithdrawalTx, SignerSign(t) PROVE NoticesInOrder'
  <2>0. tStatus[t] = "signing" BY <1>2 DEF SignerSign, findOneWithdrawalTx, Oldest
  <2>1. t \in PendingTx BY <2>0 DEF PendingTx, Pending
  <2>2. \A w \in RowsOf(t) : wStatus[w] = "signing"
    BY <2>0, <2>1, RowsOfPending DEF NoticesInv, IInv, Consistent, PendingLinked
  <2> QED BY <1>2, <2>2, NoticesQuiet DEF SignerSign, SetAll, Quietly, NoticesInv, IInv, TypeOK
<1>3. ASSUME NEW t \in WithdrawalTx, SignerPostpone(t) PROVE NoticesInOrder'
  BY <1>3, NoticesQuiet DEF SignerPostpone
<1>4. CASE OtherPlatform \/ Network
  BY <1>4, NoticesQuiet DEF OtherPlatform, ForeignSeedSent, ForeignSeedSettled, Network
<1> QED BY <1>1, <1>2, <1>3, <1>4 DEF Signer

LEMMA NoticesNext == NoticesInv /\ [Next]_vars => NoticesInv'
<1> SUFFICES ASSUME NoticesInv, [Next]_vars PROVE NoticesInv' OBVIOUS
<1>1. IInv' BY ConsistentNext DEF NoticesInv
<1>2. ASSUME UNCHANGED vars PROVE NoticesInOrder'
  <2>1. UNCHANGED <<notices, wStatus>> BY <1>2 DEF vars, rowVars, ledgerVars
  <2> QED BY <2>1, NoticesQuiet
<1>3. NoticesInOrder'
  BY <1>2, NoticesSender, NoticesVerifier, NoticesPicker, NoticesOthers DEF Next, WorkerStep
<1> QED BY <1>1, <1>3 DEF NoticesInv

\* A client never hears of an outcome before it was told that the withdrawal was
\* sent, nor of anything after the outcome, and the last event is the status that
\* it can query (updateWithdrawalsStatus, insertWebhookProgress).
THEOREM NoticesMakeSense == Spec => []NoticesInOrder
<1>1. Init => NoticesInv
  <2>1. Init => IInv BY TypeInit, ConsistentInit DEF IInv
  <2>2. Init => NoticesInOrder BY DEF Init, NoticesInOrder
  <2> QED BY <2>1, <2>2 DEF NoticesInv
<1>2. NoticesInv => NoticesInOrder BY DEF NoticesInv
<1> QED BY <1>1, <1>2, NoticesNext, PTL DEF Spec
=============================================================================
