---------------------------- MODULE SubmissionProofs ----------------------------
(***************************************************************************)
(* Ripple, EOS and Cardano pay each withdrawal once, for every number of   *)
(* withdrawals and rows and every combination of the faults, and settle it *)
(* truly where no cache answers from a block that was forked away.         *)
(***************************************************************************)
EXTENDS Submission, FiniteSetTheorems, TLAPS

\* The columns by themselves; SubmissionTypeOK adds the limit on pending rows.
Typed ==
  /\ platform \in Platform
  /\ wStatus \in [Withdrawal -> {"none", "unsigned"} \cup Pending \cup Settled]
  /\ tStatus \in [Row -> {"none", "unsigned"} \cup Pending \cup Settled]
  /\ pays \in [Row -> SUBSET Withdrawal]
  /\ txid \in [Row -> {"none", "tmp", "draft", "real"}]
  /\ sender \in {Idle} \cup [row : Row, result : BOOLEAN]
  /\ net \in [Row -> {"absent", "pooled", "mined", "failed"}]
  /\ deep \subseteq {t \in Row : net[t] \in {"mined", "failed"}}
  /\ expired \subseteq Row
  /\ cached \in [Reader \X Row -> {"no", "fresh", "stale"}]
  /\ \A t \in Row : tStatus[t] \in {"sent"} \cup Settled => txid[t] = "real"

\* There is one hot wallet, and it serves one row.
OnePending == \A t, u \in Row : tStatus[t] \in Pending /\ tStatus[u] \in Pending => t = u

\* Withdrawals move with the row that pays them.
PaysAgree ==
  \A t \in Row : \A w \in pays[t] :
    tStatus[t] # "none" /\ (tStatus[t] # "unsigned" => wStatus[w] = tStatus[t])

\* Of two rows that pay a withdrawal, one was given up.
OthersGivenUp ==
  \A t, u \in Row : t # u /\ pays[t] \cap pays[u] # {} => "unsigned" \in {tStatus[t], tStatus[u]}

\* No gateway answers from a block that was forked away.
NoStaleReads == "stale" \notin Fault

\* Then nothing is left in a cache that a fork could make stale.
NothingStale == NoStaleReads => \A k \in Reader \X Row : cached[k] = "no"

\* What a row says of its transaction; only Ripple's ledgers hold failures.  What
\* completed is final where nothing is stale.
RowsTellTruth ==
  \A t \in Row :
    /\ tStatus[t] \in {"none", "signing"} => net[t] = "absent"
    /\ tStatus[t] \in {"unsigned", "failed"} => net[t] = "failed"
    /\ tStatus[t] = "completed" /\ NoStaleReads => t \in deep /\ net[t] = "mined"
    /\ net[t] = "failed" => platform = "xrp"

\* The row that was submitted is signed until the sender writes.
SenderUpToDate == sender # Idle => sender.row \in Row /\ tStatus[sender.row] = "signed"

SInv ==
  /\ Typed /\ OnePending /\ PaysAgree /\ OthersGivenUp
  /\ NothingStale /\ RowsTellTruth /\ SenderUpToDate

-----------------------------------------------------------------------------
LEMMA SInit == SubmissionInit => SInv
BY DEF SubmissionInit, SInv, Typed, OnePending, PaysAgree, OthersGivenUp, RowsTellTruth,
       NothingStale, SenderUpToDate, Pending, Settled, Idle

LEMMA SInvIsTypeOK == SInv => SubmissionTypeOK
<1> SUFFICES ASSUME SInv PROVE SubmissionTypeOK OBVIOUS
<1> DEFINE S == {t \in Row : tStatus[t] \in Pending}
<1>1. Cardinality(S) <= 1
  <2>1. CASE S = {}
    <3>1. Cardinality(S) = 0 BY <2>1, FS_EmptySet
    <3> QED BY <3>1
  <2>2. CASE S # {}
    <3>1. PICK t \in S : TRUE BY <2>2
    <3>2. S = {t} BY <3>1 DEF SInv, OnePending
    <3>3. Cardinality({t}) = 1 BY FS_Singleton
    <3>4. Cardinality(S) = 1 BY <3>2, <3>3
    <3> HIDE DEF S
    <3> QED BY <3>4
  <2> QED BY <2>1, <2>2
<1> QED BY <1>1 DEF SInv, Typed, SubmissionTypeOK

\* What the gateways say of a transaction is true, but for a completion that a
\* stale entry counts out.
LEMMA StatusIsTrue ==
  ASSUME SInv, NEW r \in Reader, NEW t \in Row, NEW status \in getTransactionStatus(r, t)
  PROVE  /\ status = "failed" => net[t] = "failed"
         /\ status = "completed" /\ NoStaleReads => t \in deep /\ net[t] = "mined"
         /\ status \in {"unknown", "confirming", "completed", "failed"}
<1> DEFINE told == CASE platform = "xrp" -> XrpStatus(t)
                     [] platform = "eos" -> EosStatus(t)
                     [] platform = "ada" -> AdaStatus(t)
<1>1. \/ status = "unknown"
      \/ status \in CachedStatus(r, t)
      \/ InBlock(t) /\ status = told
  BY DEF getTransactionStatus
<1>2. platform \in {"xrp", "eos", "ada"} BY SubmissionAssumption DEF SInv, Typed
<1>3. net[t] = "failed" => platform = "xrp" BY DEF SInv, RowsTellTruth
<1>4. CASE InBlock(t) /\ status = told
  <2>1. CASE platform = "xrp" BY <1>4, <2>1 DEF XrpStatus, InBlock
  <2>2. CASE platform = "eos" BY <1>3, <1>4, <2>2 DEF EosStatus, InBlock
  <2>3. CASE platform = "ada" BY <1>3, <1>4, <2>3 DEF AdaStatus, InBlock
  <2> QED BY <1>2, <2>1, <2>2, <2>3
<1>5. CASE status \in CachedStatus(r, t)
  <2>1. cached[<<r, t>>] = "stale" /\ status \in {"confirming", "completed"}
    BY <1>5 DEF CachedStatus
  <2>2. ~NoStaleReads BY <2>1 DEF SInv, NothingStale
  <2> QED BY <2>1, <2>2
<1> QED BY <1>1, <1>4, <1>5

\* A reader that remembers keeps the cache as it should be.
LEMMA RememberKeeps ==
  ASSUME SInv, NEW r \in Reader, NEW t \in Row, Remember(r, t)
  PROVE  cached' \in [Reader \X Row -> {"no", "fresh", "stale"}] /\ (NoStaleReads => cached' = cached)
<1>1. <<r, t>> \in Reader \X Row OBVIOUS
<1> HIDE DEF Reader
<1> QED BY <1>1 DEF Remember, SInv, Typed, NoStaleReads

-----------------------------------------------------------------------------
\* A pending row and its withdrawals take the status b.
LEMMA SInvMark ==
  ASSUME SInv, NEW t \in Row, tStatus[t] \in Pending,
         NEW b \in {"signed", "sent", "unsigned", "completed", "failed"}, Mark(t, b),
         UNCHANGED <<platform, pays, net, deep, expired>>,
         b \in {"unsigned", "failed"} => net[t] = "failed",
         b = "completed" /\ NoStaleReads => t \in deep /\ net[t] = "mined",
         NEW id \in {"tmp", "draft", "real"},
         b \in {"sent"} \cup Settled => id = "real",
         txid' = [txid EXCEPT ![t] = id],
         sender' = Idle, cached' = cached
  PROVE  SInv'
<1> USE DEF SInv
<1>1. /\ \A u \in Row : tStatus'[u] = IF u = t THEN b ELSE tStatus[u]
      /\ \A w \in Withdrawal : wStatus'[w] = IF w \in pays[t] THEN b ELSE wStatus[w]
  BY DEF Typed, Mark, SetAll
<1>2. Typed'
  <2>1. tStatus' \in [Row -> {"none", "unsigned"} \cup Pending \cup Settled]
    BY DEF Mark, Typed, Pending, Settled
  <2>2. wStatus' \in [Withdrawal -> {"none", "unsigned"} \cup Pending \cup Settled]
    BY DEF Mark, SetAll, Typed, Pending, Settled
  <2>3. txid' \in [Row -> {"none", "tmp", "draft", "real"}] BY DEF Typed
  <2>4. \A u \in Row : tStatus'[u] \in {"sent"} \cup Settled => txid'[u] = "real"
    BY <1>1 DEF Typed, Settled
  <2>5. sender' \in {Idle} \cup [row : Row, result : BOOLEAN] OBVIOUS
  <2> QED BY <2>1, <2>2, <2>3, <2>4, <2>5 DEF Typed
<1>3. OnePending' BY <1>1 DEF OnePending
<1>4. PaysAgree'
  <2> SUFFICES ASSUME NEW u \in Row, NEW w \in pays[u]
               PROVE  tStatus'[u] # "none" /\ (tStatus'[u] # "unsigned" => wStatus'[w] = tStatus'[u])
    BY DEF PaysAgree
  <2>0. w \in Withdrawal BY DEF Typed
  <2>1. CASE u = t BY <1>1, <2>0, <2>1
  <2>2. CASE u # t /\ w \in pays[t]
    <3>1. tStatus[u] = "unsigned" \/ tStatus[t] = "unsigned" BY <2>2 DEF OthersGivenUp
    <3> QED BY <1>1, <2>0, <2>2, <3>1 DEF Pending
  <2>3. CASE u # t /\ w \notin pays[t] BY <1>1, <2>0, <2>3 DEF PaysAgree
  <2> QED BY <2>1, <2>2, <2>3
<1>5. OthersGivenUp'
  <2> SUFFICES ASSUME NEW u \in Row, NEW v \in Row, u # v, pays[u] \cap pays[v] # {}
               PROVE  "unsigned" \in {tStatus'[u], tStatus'[v]}
    BY DEF OthersGivenUp
  <2>1. "unsigned" \in {tStatus[u], tStatus[v]} BY DEF OthersGivenUp
  <2> QED BY <1>1, <2>1 DEF Pending
<1>6. RowsTellTruth' BY <1>1 DEF RowsTellTruth
<1>7. SenderUpToDate' BY DEF SenderUpToDate
<1>8. NothingStale' BY DEF NothingStale
<1> QED BY <1>2, <1>3, <1>4, <1>5, <1>6, <1>7, <1>8

\* The network and the submission: no row moves, and what a row knows of its
\* transaction is final.
LEMMA SInvNetwork ==
  ASSUME SInv, UNCHANGED <<platform, rowVars>>,
         net' \in [Row -> {"absent", "pooled", "mined", "failed"}],
         deep \subseteq deep', deep' \subseteq {t \in Row : net'[t] \in {"mined", "failed"}},
         expired' \subseteq Row,
         cached' \in [Reader \X Row -> {"no", "fresh", "stale"}],
         NoStaleReads => cached' = cached,
         \A t \in Row : net'[t] # net[t] =>
                          /\ t \notin deep /\ net[t] # "failed"
                          /\ tStatus[t] \notin {"none", "signing"}
                          /\ net'[t] = "failed" => platform = "xrp",
         sender' \in {Idle} \cup [row : Row, result : BOOLEAN],
         sender' # Idle => tStatus[sender'.row] = "signed"
  PROVE  SInv'
<1> USE DEF SInv, rowVars
<1>1. Typed' BY DEF Typed
<1>2. OnePending' /\ PaysAgree' /\ OthersGivenUp' BY DEF OnePending, PaysAgree, OthersGivenUp
<1>3. RowsTellTruth' BY DEF RowsTellTruth
<1>4. SenderUpToDate' BY DEF SenderUpToDate, Idle
<1>5. NothingStale' BY DEF NothingStale
<1> QED BY <1>1, <1>2, <1>3, <1>4, <1>5

LEMMA SInvChain ==
  ASSUME SInv, Network PROVE SInv'
<1> USE DEF SInv, Typed
<1>1. PICK t \in Row : Include(t) \/ FailInLedger(t) \/ Deepen(t) \/ Fork(t) \/ Drop(t) \/ Expire(t)
  BY DEF Network
<1>0. sender # Idle => tStatus[sender.row] = "signed" BY DEF SenderUpToDate
<1>2. net[t] = "pooled" => tStatus[t] \notin {"none", "signing"} BY DEF RowsTellTruth
<1>3. net[t] = "mined" => tStatus[t] \notin {"none", "signing"} BY DEF RowsTellTruth
<1>4. CASE Include(t) BY <1>0, <1>2, <1>4, SInvNetwork DEF Include
<1>5. CASE FailInLedger(t) BY <1>0, <1>2, <1>5, SInvNetwork DEF FailInLedger
<1>6. CASE Deepen(t) BY <1>0, <1>6, SInvNetwork DEF Deepen, InBlock
<1>7. CASE Fork(t)
  <2> HIDE DEF Reader
  <2>1. /\ UNCHANGED <<platform, rowVars, sender, deep, expired>>
        /\ net[t] = "mined" /\ t \notin deep /\ net' = [net EXCEPT ![t] = "pooled"]
        /\ cached' = [k \in Reader \X Row |->
                        IF k[2] = t /\ cached[k] = "fresh" THEN "stale" ELSE cached[k]]
    BY <1>7 DEF Fork
  <2>2. cached' \in [Reader \X Row -> {"no", "fresh", "stale"}] BY <2>1
  <2>3. NoStaleReads => cached' = cached
    <3>1. NoStaleReads => \A k \in Reader \X Row :
            (IF k[2] = t /\ cached[k] = "fresh" THEN "stale" ELSE cached[k]) = cached[k]
      BY DEF NothingStale
    <3> QED BY <2>1, <3>1
  <2>4. net' \in [Row -> {"absent", "pooled", "mined", "failed"}] BY <2>1
  <2>5. deep' \subseteq {u \in Row : net'[u] \in {"mined", "failed"}} BY <2>1
  <2>6. \A u \in Row : net'[u] # net[u] =>
                          /\ u \notin deep /\ net[u] # "failed"
                          /\ tStatus[u] \notin {"none", "signing"}
                          /\ net'[u] = "failed" => platform = "xrp"
    BY <1>3, <2>1
  <2> QED BY <1>0, <2>1, <2>2, <2>3, <2>4, <2>5, <2>6, SInvNetwork
<1>8. CASE Drop(t) BY <1>0, <1>2, <1>8, SInvNetwork DEF Drop
<1>9. CASE Expire(t) BY <1>0, <1>9, SInvNetwork DEF Expire
<1> QED BY <1>1, <1>4, <1>5, <1>6, <1>7, <1>8, <1>9

LEMMA SInvSubmit ==
  ASSUME SInv, NEW t \in Row, SenderSubmit(t) PROVE SInv'
<1>0. Result(TRUE) \in BOOLEAN /\ Result(FALSE) \in BOOLEAN BY DEF Result
<1>1. net' = net \/ (net[t] = "absent" /\ net' = [net EXCEPT ![t] = "pooled"])
  BY DEF SenderSubmit, sendRawTransaction, Acceptable, Accepted
<1>7. PICK r \in BOOLEAN : sender' = [row |-> t, result |-> r]
  BY <1>0 DEF SenderSubmit, sendRawTransaction
<1>2. tStatus[t] = "signed" /\ UNCHANGED <<platform, rowVars, deep, expired, cached>>
  BY DEF SenderSubmit
<1>3. net' \in [Row -> {"absent", "pooled", "mined", "failed"}] BY <1>1 DEF SInv, Typed
<1>8. \A u \in Row : net'[u] = net[u] \/ (u = t /\ net[u] = "absent" /\ net'[u] = "pooled")
  BY <1>1 DEF SInv, Typed
<1>4. deep' \subseteq {u \in Row : net'[u] \in {"mined", "failed"}}
  BY <1>2, <1>8 DEF SInv, Typed
<1>5. sender' \in {Idle} \cup [row : Row, result : BOOLEAN] /\ tStatus[sender'.row] = "signed"
  BY <1>2, <1>7
<1>6. \A u \in Row : net'[u] # net[u] =>
                        /\ u \notin deep /\ net[u] # "failed"
                        /\ tStatus[u] \notin {"none", "signing"}
                        /\ net'[u] = "failed" => platform = "xrp"
  BY <1>2, <1>8 DEF SInv, Typed
<1> QED BY <1>2, <1>3, <1>4, <1>5, <1>6, SInvNetwork DEF SInv, Typed

LEMMA SInvSender ==
  ASSUME SInv, Sender PROVE SInv'
<1>1. ASSUME NEW t \in Row, SenderMark(t) PROVE SInv'
  <2>1. txid[t] = "real" BY <1>1 DEF SenderMark, Known
  <2>2. txid' = [txid EXCEPT ![t] = "real"] BY <1>1, <2>1 DEF SenderMark, SInv, Typed
  <2> QED BY <1>1, <2>2, SInvMark DEF SenderMark, netVars, Pending, Settled
<1>2. ASSUME NEW t \in Row, SenderReconstruct(t) PROVE SInv'
  <2>1. net[t] = "failed"
    BY <1>2, StatusIsTrue DEF SenderReconstruct, GivenUp, Known, Reader
  <2>2. txid[t] = "real" BY <1>2 DEF SenderReconstruct, GivenUp, Known
  <2>3. txid' = [txid EXCEPT ![t] = "real"] BY <1>2, <2>2 DEF SenderReconstruct, SInv, Typed
  <2> QED BY <1>2, <2>1, <2>3, SInvMark DEF SenderReconstruct, netVars, Pending, Settled
<1>3. CASE SenderCommit /\ sender.result
  <2>1. sender.row \in Row /\ tStatus[sender.row] = "signed"
    BY <1>3 DEF SenderCommit, SInv, SenderUpToDate
  <2> QED BY <1>3, <2>1, SInvMark DEF SenderCommit, ReturnedId, netVars, Pending, Settled
<1>4. CASE SenderCommit /\ ~sender.result
  BY <1>4, SInvNetwork DEF SenderCommit, rowVars, netVars, SInv, Typed
<1>5. CASE SenderCrash
  BY <1>5, SInvNetwork DEF SenderCrash, netVars, SInv, Typed
<1>6. ASSUME NEW t \in Row, SenderSeesInVain(t) PROVE SInv'
  <2>1. Remember("sender", t) /\ "sender" \in Reader BY <1>6 DEF SenderSeesInVain, Reader
  <2>2. cached' \in [Reader \X Row -> {"no", "fresh", "stale"}] /\ (NoStaleReads => cached' = cached)
    BY <2>1, RememberKeeps
  <2> QED BY <1>6, <2>2, SInvNetwork DEF SenderSeesInVain, netVars, SInv, Typed
<1> QED BY <1>1, <1>2, <1>3, <1>4, <1>5, <1>6, SInvSubmit DEF Sender

LEMMA SInvSign ==
  ASSUME SInv, NEW t \in Row, SignerSign(t) PROVE SInv'
<1>1. sender = Idle
  <2>1. ASSUME sender # Idle PROVE FALSE
    <3>1. tStatus[sender.row] = "signed" /\ sender.row \in Row BY <2>1 DEF SInv, SenderUpToDate
    <3>2. tStatus[t] = "signing" BY DEF SignerSign
    <3> QED BY <3>1, <3>2 DEF SInv, OnePending, Pending
  <2> QED BY <2>1
<1> QED BY <1>1, SInvMark DEF SignerSign, SignedId, netVars, Pending, Settled

LEMMA SInvVerifier ==
  ASSUME SInv, NEW t \in Row, VerifierWait(t) \/ VerifierSettle(t) PROVE SInv'
<1>1. CASE VerifierWait(t)
  <2>1. Remember("verifier", t) /\ "verifier" \in Reader BY <1>1 DEF VerifierWait, Reader
  <2>2. cached' \in [Reader \X Row -> {"no", "fresh", "stale"}] /\ (NoStaleReads => cached' = cached)
    BY <2>1, RememberKeeps
  <2> QED BY <1>1, <2>2, SInvNetwork DEF VerifierWait, netVars, SInv, Typed, SenderUpToDate
<1>2. CASE VerifierSettle(t)
  <2>1. tStatus[t] = "sent" /\ txid[t] = "real" BY <1>2 DEF VerifierSettle, SInv, Typed
  <2>2. sender = Idle
    <3>1. ASSUME sender # Idle PROVE FALSE
      <4>1. tStatus[sender.row] = "signed" /\ sender.row \in Row BY <3>1 DEF SInv, SenderUpToDate
      <4> QED BY <2>1, <4>1 DEF SInv, OnePending, Pending
    <3> QED BY <3>1
  <2>3. txid' = [txid EXCEPT ![t] = "real"] BY <1>2, <2>1 DEF VerifierSettle, SInv, Typed
  <2>4. PICK b \in Settled \cap getTransactionStatus("verifier", t) : Mark(t, b) BY <1>2 DEF VerifierSettle
  <2>5. "verifier" \in Reader BY DEF Reader
  <2>6. /\ b = "failed" => net[t] = "failed"
        /\ b = "completed" /\ NoStaleReads => t \in deep /\ net[t] = "mined"
    BY <2>4, <2>5, StatusIsTrue
  <2> QED BY <1>2, <2>1, <2>2, <2>3, <2>4, <2>6, SInvMark
          DEF VerifierSettle, netVars, Pending, Settled
<1> QED BY <1>1, <1>2

\* A new row takes withdrawals that nobody pays any more.
LEMMA SInvPicker ==
  ASSUME SInv, NEW t \in Row, PickerCommit(t) PROVE SInv'
<1> USE DEF SInv
<1>1. PICK S \in Picked :
        /\ pays' = [pays EXCEPT ![t] = S]
        /\ tStatus' = [tStatus EXCEPT ![t] = "signing"]
        /\ wStatus' = SetAll(wStatus, S, "signing")
  BY DEF PickerCommit
<1>2. S \in SUBSET Withdrawal /\ \A w \in S : wStatus[w] = "unsigned" BY DEF Picked
<1>3. /\ tStatus[t] = "none" /\ \A u \in Row : tStatus[u] \notin Pending
      /\ txid' = [txid EXCEPT ![t] = TemporaryId]
      /\ UNCHANGED <<platform, sender, net, deep, expired, cached>>
  BY DEF PickerCommit, HotWalletFree, netVars
<1>4. /\ \A u \in Row : tStatus'[u] = IF u = t THEN "signing" ELSE tStatus[u]
      /\ \A u \in Row : pays'[u] = IF u = t THEN S ELSE pays[u]
      /\ \A w \in Withdrawal : wStatus'[w] = IF w \in S THEN "signing" ELSE wStatus[w]
  BY <1>1, <1>2 DEF Typed, SetAll
<1>5. Typed'
  <2>1. tStatus' \in [Row -> {"none", "unsigned"} \cup Pending \cup Settled]
    BY <1>1 DEF Typed, Pending
  <2>2. wStatus' \in [Withdrawal -> {"none", "unsigned"} \cup Pending \cup Settled]
    BY <1>1, <1>2 DEF Typed, Pending, SetAll
  <2>3. pays' \in [Row -> SUBSET Withdrawal] BY <1>1, <1>2 DEF Typed
  <2>4. txid' \in [Row -> {"none", "tmp", "draft", "real"}] BY <1>3 DEF Typed, TemporaryId
  <2>5. \A u \in Row : tStatus'[u] \in {"sent"} \cup Settled => txid'[u] = "real"
    BY <1>3, <1>4 DEF Typed, Settled
  <2> QED BY <1>3, <2>1, <2>2, <2>3, <2>4, <2>5 DEF Typed
<1>6. OnePending' BY <1>3, <1>4 DEF OnePending
<1>7. \A u \in Row : pays[u] \cap S # {} => tStatus[u] = "unsigned"
  <2> SUFFICES ASSUME NEW u \in Row, NEW w \in pays[u], w \in S PROVE tStatus[u] = "unsigned" OBVIOUS
  <2>1. tStatus[u] # "none" /\ (tStatus[u] # "unsigned" => tStatus[u] = "unsigned")
    BY <1>2 DEF PaysAgree
  <2> QED BY <2>1
<1>8. PaysAgree'
  <2> SUFFICES ASSUME NEW u \in Row, NEW w \in pays'[u]
               PROVE  tStatus'[u] # "none" /\ (tStatus'[u] # "unsigned" => wStatus'[w] = tStatus'[u])
    BY DEF PaysAgree
  <2>0. w \in Withdrawal BY <1>2, <1>4 DEF Typed
  <2>1. CASE u = t BY <1>4, <2>0, <2>1
  <2>2. CASE u # t BY <1>4, <1>7, <2>0, <2>2 DEF PaysAgree
  <2> QED BY <2>1, <2>2
<1>9. OthersGivenUp'
  <2> SUFFICES ASSUME NEW u \in Row, NEW v \in Row, u # v, pays'[u] \cap pays'[v] # {}
               PROVE  "unsigned" \in {tStatus'[u], tStatus'[v]}
    BY DEF OthersGivenUp
  <2>1. CASE u = t BY <1>4, <1>7, <2>1
  <2>2. CASE v = t BY <1>4, <1>7, <2>2
  <2>3. CASE u # t /\ v # t BY <1>4, <2>3 DEF OthersGivenUp
  <2> QED BY <2>1, <2>2, <2>3
<1>10. RowsTellTruth' BY <1>3, <1>4 DEF RowsTellTruth
<1>11. SenderUpToDate' BY <1>3 DEF SenderUpToDate, Pending
<1>12. NothingStale' BY <1>3 DEF NothingStale
<1> QED BY <1>5, <1>6, <1>8, <1>9, <1>10, <1>11, <1>12

LEMMA SInvApprove ==
  ASSUME SInv, NEW w \in Withdrawal, approveTransaction(w) PROVE SInv'
<1> USE DEF SInv
<1>1. /\ wStatus[w] = "none" /\ wStatus' = [wStatus EXCEPT ![w] = "unsigned"]
      /\ UNCHANGED <<platform, tStatus, pays, txid, sender, net, deep, expired, cached>>
  BY DEF approveTransaction, netVars
<1>2. Typed' BY <1>1 DEF Typed
<1>3. PaysAgree'
  <2> SUFFICES ASSUME NEW u \in Row, NEW v \in pays[u]
               PROVE  tStatus[u] # "none" /\ (tStatus[u] # "unsigned" => wStatus'[v] = tStatus[u])
    BY <1>1 DEF PaysAgree
  <2>1. tStatus[u] # "none" /\ (tStatus[u] # "unsigned" => wStatus[v] = tStatus[u]) BY DEF PaysAgree
  <2>2. v \in Withdrawal BY DEF Typed
  <2> QED BY <1>1, <2>1, <2>2 DEF Typed
<1>4. OnePending' /\ OthersGivenUp' /\ NothingStale' /\ RowsTellTruth' /\ SenderUpToDate'
  BY <1>1 DEF OnePending, OthersGivenUp, NothingStale, RowsTellTruth, SenderUpToDate
<1> QED BY <1>2, <1>3, <1>4

LEMMA SInvNext == SInv /\ [SubmissionNext]_submissionVars => SInv'
<1> SUFFICES ASSUME SInv, [SubmissionNext]_submissionVars PROVE SInv' OBVIOUS
<1>1. CASE UNCHANGED submissionVars
  BY <1>1 DEF submissionVars, rowVars, netVars, SInv, Typed, OnePending, PaysAgree, OthersGivenUp,
              NothingStale, RowsTellTruth, SenderUpToDate
<1> QED BY <1>1, SInvChain, SInvSender, SInvSign, SInvVerifier, SInvPicker, SInvApprove DEF SubmissionNext

LEMMA SInvAlways == SubmissionSpec => []SInv
BY SInit, SInvNext, PTL DEF SubmissionSpec

\* Every state is well typed: one row is pending at a time, and a row that was sent
\* has the id that the network knows.
THEOREM SubmissionTypeCorrect == SubmissionSpec => []SubmissionTypeOK
BY SInvAlways, SInvIsTypeOK, PTL

\* Whatever fails, and whatever the caches answer, at most one transaction that
\* pays a withdrawal has its effect: the sender builds anew only what failed in a
\* ledger (senderDoProcess).
THEOREM SubmissionPaysOnce == SubmissionSpec => []PaidOnce
<1>1. SInv => PaidOnce BY DEF SInv, OthersGivenUp, RowsTellTruth, PaidOnce
<1> QED BY <1>1, SInvAlways, PTL

-----------------------------------------------------------------------------
\* The abstract variables of Payout
Asked == {w \in Withdrawal : wStatus[w] # "none"}
Paid == [w \in Withdrawal |-> {t \in deep : w \in pays[t] /\ net[t] = "mined"}]
Told == [w \in Withdrawal |-> IF wStatus[w] \in Settled THEN wStatus[w] ELSE "open"]

LEMMA PromiseInit == SubmissionInit => P!Init
BY DEF SubmissionInit, P!Init, Settled

LEMMA SameIsQuiet ==
  ASSUME Asked' = Asked, Paid' = Paid, Told' = Told PROVE UNCHANGED P!payoutVars
BY DEF P!payoutVars, Asked, Paid, Told

\* What is paid depends on the irreversible transactions alone.
LEMMA SamePaid ==
  ASSUME SInv, deep' = deep, \A t \in deep : net'[t] = net[t] /\ pays'[t] = pays[t]
  PROVE  Paid' = Paid
<1>1. \A w \in Withdrawal :
        {t \in deep : w \in pays'[t] /\ net'[t] = "mined"} = {t \in deep : w \in pays[t] /\ net[t] = "mined"}
  OBVIOUS
<1> QED BY <1>1 DEF Paid

\* The withdrawals S move between the statuses that are all open to a client.
LEMMA SameOutcome ==
  ASSUME SInv, NEW S \in SUBSET Withdrawal, NEW b \in {"unsigned", "signing", "signed", "sent"},
         \A w \in S : wStatus[w] \in {"unsigned", "signing", "signed", "sent"},
         wStatus' = SetAll(wStatus, S, b)
  PROVE  Asked' = Asked /\ Told' = Told
<1>1. \A w \in Withdrawal : wStatus'[w] = IF w \in S THEN b ELSE wStatus[w]
  BY DEF SetAll, SInv, Typed
<1>2. Asked' = Asked BY <1>1 DEF Asked
<1>3. \A w \in Withdrawal :
        (IF wStatus'[w] \in Settled THEN wStatus'[w] ELSE "open")
          = IF wStatus[w] \in Settled THEN wStatus[w] ELSE "open"
  BY <1>1 DEF Settled
<1> QED BY <1>2, <1>3 DEF Told

\* A pending row that becomes pending or unsigned tells nothing.
LEMMA MarkIsQuiet ==
  ASSUME SInv, NEW t \in Row, tStatus[t] \in Pending, NEW b \in {"unsigned", "signed", "sent"}, Mark(t, b),
         UNCHANGED <<pays, net, deep>>
  PROVE  UNCHANGED P!payoutVars
<1>1. Paid' = Paid BY SamePaid
<1>2. pays[t] \in SUBSET Withdrawal /\ wStatus' = SetAll(wStatus, pays[t], b) BY DEF SInv, Typed, Mark
<1>3. \A w \in pays[t] : wStatus[w] \in {"unsigned", "signing", "signed", "sent"}
  BY DEF SInv, PaysAgree, Pending
<1>4. Asked' = Asked /\ Told' = Told BY <1>2, <1>3, SameOutcome
<1> QED BY <1>1, <1>4, SameIsQuiet

LEMMA NothingIsQuiet ==
  ASSUME SInv, UNCHANGED <<wStatus, pays, deep>>, \A t \in deep : net'[t] = net[t]
  PROVE  UNCHANGED P!payoutVars
<1>1. Paid' = Paid BY SamePaid
<1>2. Asked' = Asked /\ Told' = Told BY DEF Asked, Told
<1> QED BY <1>1, <1>2, SameIsQuiet

\* The withdrawals of a pending row are open, and nobody else has paid them.
LEMMA PendingIsOpen ==
  ASSUME SInv, NEW t \in Row, tStatus[t] \in Pending, NEW w \in pays[t]
  PROVE  /\ w \in Asked /\ Told[w] = "open"
         /\ \A u \in deep : w \in pays[u] /\ net[u] = "mined" => u = t
<1>1. w \in Withdrawal /\ wStatus[w] = tStatus[t]
  BY DEF SInv, Typed, PaysAgree, Pending
<1>2. w \in Asked /\ Told[w] = "open" BY <1>1 DEF Asked, Told, Pending, Settled
<1>3. ASSUME NEW u \in deep, w \in pays[u], net[u] = "mined", u # t PROVE FALSE
  <2>1. u \in Row BY DEF SInv, Typed
  <2>2. tStatus[u] = "unsigned" BY <1>3, <2>1 DEF SInv, OthersGivenUp, Pending
  <2> QED BY <1>3, <2>1, <2>2 DEF SInv, RowsTellTruth
<1> QED BY <1>2, <1>3

\* A transaction becomes irreversible: it pays its withdrawals, or it failed.
LEMMA DeepenPays ==
  ASSUME SInv, NoStaleReads, NEW t \in Row, Deepen(t) PROVE [P!Next]_(P!payoutVars)
<1>0. t \notin deep /\ deep' = deep \cup {t} /\ UNCHANGED <<wStatus, pays, net, tStatus>>
  BY DEF Deepen, rowVars
<1>1. Asked' = Asked /\ Told' = Told BY <1>0 DEF Asked, Told
<1>2. CASE net[t] # "mined"
  <2>1. \A w \in Withdrawal :
          {u \in deep' : w \in pays[u] /\ net[u] = "mined"} = {u \in deep : w \in pays[u] /\ net[u] = "mined"}
    BY <1>0, <1>2
  <2>2. Paid' = Paid BY <1>0, <2>1 DEF Paid
  <2> QED BY <1>1, <2>2, SameIsQuiet
<1>3. CASE net[t] = "mined"
  <2>1. tStatus[t] \in Pending
    BY <1>0, <1>3 DEF SInv, Typed, RowsTellTruth, Pending, Settled
  <2>2. \A w \in pays[t] : w \in Asked /\ Told[w] = "open" /\ Paid[w] = {}
    <3> SUFFICES ASSUME NEW w \in pays[t] PROVE w \in Asked /\ Told[w] = "open" /\ Paid[w] = {}
      OBVIOUS
    <3>1. w \in Withdrawal BY DEF SInv, Typed
    <3>2. {u \in deep : w \in pays[u] /\ net[u] = "mined"} = {} BY <1>0, <2>1, PendingIsOpen
    <3> QED BY <2>1, <3>1, <3>2, PendingIsOpen DEF Paid
  <2>3. \A w \in Withdrawal :
          {u \in deep' : w \in pays[u] /\ net[u] = "mined"} = IF w \in pays[t] THEN {t} ELSE Paid[w]
    <3> SUFFICES ASSUME NEW w \in Withdrawal
                 PROVE  {u \in deep' : w \in pays[u] /\ net[u] = "mined"} = IF w \in pays[t] THEN {t} ELSE Paid[w]
      OBVIOUS
    <3>1. Paid[w] = {u \in deep : w \in pays[u] /\ net[u] = "mined"} BY DEF Paid
    <3>2. w \in pays[t] => Paid[w] = {} BY <2>2
    <3> QED BY <1>0, <1>3, <3>1, <3>2
  <2>4. Paid' = [w \in Withdrawal |-> IF w \in pays[t] THEN {t} ELSE Paid[w]]
    <3>1. Paid' = [w \in Withdrawal |-> {u \in deep' : w \in pays[u] /\ net[u] = "mined"}]
      BY <1>0 DEF Paid
    <3> QED BY <2>3, <3>1
  <2>5. pays[t] \in SUBSET Withdrawal BY DEF SInv, Typed
  <2>6. PICK S \in SUBSET Withdrawal : S = pays[t] BY <2>5
  <2>7. P!Pay(S, t)
    BY <1>1, <2>2, <2>4, <2>6 DEF P!Pay, P!IsOpen, Asked, Paid, Told
  <2> QED BY <2>7 DEF P!Next
<1> QED BY <1>2, <1>3

LEMMA SettleIsTrue ==
  ASSUME SInv, NoStaleReads, NEW t \in Row, VerifierSettle(t) PROVE P!Next
<1>1. PICK o \in Settled \cap getTransactionStatus("verifier", t) : Mark(t, o) BY DEF VerifierSettle
<1>2. tStatus[t] = "sent" /\ UNCHANGED <<pays, net, deep>> BY DEF VerifierSettle, netVars
<1>3. /\ o = "failed" => net[t] = "failed"
      /\ o = "completed" => t \in deep /\ net[t] = "mined"
  <2>1. "verifier" \in Reader BY DEF Reader
  <2> QED BY <1>1, <2>1, StatusIsTrue
<1>4. Paid' = Paid BY <1>2, SamePaid
<1>5. pays[t] \in SUBSET Withdrawal BY DEF SInv, Typed
<1>6. \A w \in Withdrawal : wStatus'[w] = IF w \in pays[t] THEN o ELSE wStatus[w]
  BY <1>1 DEF Mark, SetAll, SInv, Typed
<1>7. \A w \in pays[t] : w \in Asked /\ Told[w] = "open" /\ ((Paid[w] # {}) <=> (o = "completed"))
  <2> SUFFICES ASSUME NEW w \in pays[t]
               PROVE  w \in Asked /\ Told[w] = "open" /\ ((Paid[w] # {}) <=> (o = "completed"))
    OBVIOUS
  <2>0. w \in Asked /\ Told[w] = "open" /\ \A u \in deep : w \in pays[u] /\ net[u] = "mined" => u = t
    BY <1>2, PendingIsOpen DEF Pending
  <2>1. Paid[w] = {u \in deep : w \in pays[u] /\ net[u] = "mined"} BY <1>5 DEF Paid
  <2>2. CASE o = "completed" BY <1>3, <2>0, <2>1, <2>2
  <2>3. CASE o = "failed" BY <1>3, <2>0, <2>1, <2>3
  <2> QED BY <1>1, <2>2, <2>3 DEF Settled
<1>8. Asked' = Asked
  <2>1. \A w \in pays[t] : wStatus[w] # "none" BY <1>7 DEF Asked
  <2> QED BY <1>1, <1>5, <1>6, <2>1 DEF Asked, Settled
<1>9. Told' = [w \in Withdrawal |-> IF w \in pays[t] THEN o ELSE Told[w]]
  <2>1. \A w \in Withdrawal : (IF wStatus'[w] \in Settled THEN wStatus'[w] ELSE "open")
                                = IF w \in pays[t] THEN o ELSE Told[w]
    BY <1>1, <1>6 DEF Told
  <2> QED BY <2>1 DEF Told
<1>12. PICK S \in SUBSET Withdrawal : S = pays[t] BY <1>5
<1>10. P!Settle(S, o)
  BY <1>12, <1>4, <1>7, <1>8, <1>9 DEF P!Settle, P!IsOpen, Asked, Paid, Told
<1>11. o \in P!Outcome \ {"open"} BY <1>1 DEF P!Outcome, Settled
<1> QED BY <1>10, <1>11 DEF P!Next

LEMMA PromiseNetwork ==
  ASSUME SInv, NoStaleReads, Network PROVE [P!Next]_(P!payoutVars)
<1>1. PICK t \in Row : Include(t) \/ FailInLedger(t) \/ Deepen(t) \/ Fork(t) \/ Drop(t) \/ Expire(t)
  BY DEF Network
<1>2. CASE Include(t) \/ FailInLedger(t) \/ Fork(t) \/ Drop(t) \/ Expire(t)
  <2>1. UNCHANGED <<wStatus, pays, deep>>
    BY <1>2 DEF Include, FailInLedger, Fork, Drop, Expire, rowVars
  <2>2. t \notin deep /\ net' \in {net, [net EXCEPT ![t] = "mined"], [net EXCEPT ![t] = "failed"],
                                  [net EXCEPT ![t] = "pooled"], [net EXCEPT ![t] = "absent"]}
    BY <1>2 DEF Include, FailInLedger, Fork, Drop, Expire, SInv, Typed
  <2>3. \A u \in deep : net'[u] = net[u] BY <2>2 DEF SInv, Typed
  <2> QED BY <2>1, <2>3, NothingIsQuiet
<1> QED BY <1>1, <1>2, DeepenPays

LEMMA PromiseSender ==
  ASSUME SInv, Sender PROVE UNCHANGED P!payoutVars
<1>1. ASSUME NEW t \in Row, SenderMark(t) \/ SenderReconstruct(t) PROVE UNCHANGED P!payoutVars
  BY <1>1, MarkIsQuiet DEF SenderMark, SenderReconstruct, netVars, Pending
<1>2. ASSUME NEW t \in Row, SenderSubmit(t) PROVE UNCHANGED P!payoutVars
  <2>1. net' = net \/ (net[t] = "absent" /\ net' = [net EXCEPT ![t] = "pooled"])
    BY <1>2 DEF SenderSubmit, sendRawTransaction, Acceptable, Accepted
  <2>2. \A u \in deep : net'[u] = net[u] BY <2>1 DEF SInv, Typed
  <2> QED BY <1>2, <2>2, NothingIsQuiet DEF SenderSubmit, rowVars
<1>3. CASE SenderCommit /\ sender.result
  BY <1>3, MarkIsQuiet DEF SenderCommit, SInv, SenderUpToDate, netVars, Pending
<1>4. CASE SenderCommit /\ ~sender.result
  BY <1>4, NothingIsQuiet DEF SenderCommit, netVars
<1>5. CASE SenderCrash BY <1>5, NothingIsQuiet DEF SenderCrash, rowVars, netVars
<1>6. ASSUME NEW t \in Row, SenderSeesInVain(t) PROVE UNCHANGED P!payoutVars
  BY <1>6, NothingIsQuiet DEF SenderSeesInVain, rowVars, netVars
<1> QED BY <1>1, <1>2, <1>3, <1>4, <1>5, <1>6 DEF Sender

LEMMA PromisePicker ==
  ASSUME SInv, NEW t \in Row, PickerCommit(t) PROVE UNCHANGED P!payoutVars
<1>1. PICK S \in Picked : pays' = [pays EXCEPT ![t] = S] /\ wStatus' = SetAll(wStatus, S, "signing")
  BY DEF PickerCommit
<1>2. S \in SUBSET Withdrawal /\ \A w \in S : wStatus[w] = "unsigned" BY DEF Picked
<1>3. t \notin deep /\ UNCHANGED <<net, deep>>
  BY DEF PickerCommit, netVars, SInv, Typed, RowsTellTruth
<1>4. Paid' = Paid BY <1>1, <1>3, SamePaid DEF SInv, Typed
<1>5. Asked' = Asked /\ Told' = Told BY <1>1, <1>2, SameOutcome
<1> QED BY <1>4, <1>5, SameIsQuiet

LEMMA PromiseRequest ==
  ASSUME SInv, NEW w \in Withdrawal, approveTransaction(w) PROVE P!Next
<1>1. wStatus[w] = "none" /\ wStatus' = [wStatus EXCEPT ![w] = "unsigned"] /\ UNCHANGED <<pays, net, deep>>
  BY DEF approveTransaction, netVars
<1>2. Asked' = Asked \cup {w} BY <1>1 DEF Asked, SInv, Typed
<1>3. \A v \in Withdrawal : (IF wStatus'[v] \in Settled THEN wStatus'[v] ELSE "open")
                              = IF wStatus[v] \in Settled THEN wStatus[v] ELSE "open"
  BY <1>1 DEF SInv, Typed, Settled
<1>4. Told' = Told BY <1>3 DEF Told
<1>5. Paid' = Paid BY <1>1, SamePaid
<1>6. P!Request({w}) BY <1>2, <1>4, <1>5 DEF P!Request, Asked, Paid, Told
<1> QED BY <1>6 DEF P!Next

LEMMA PromiseStep == NoStaleReads /\ SInv /\ [SubmissionNext]_submissionVars => [P!Next]_(P!payoutVars)
<1> SUFFICES ASSUME NoStaleReads, SInv, [SubmissionNext]_submissionVars PROVE [P!Next]_(P!payoutVars) OBVIOUS
<1>1. ASSUME NEW t \in Row, SignerSign(t) PROVE UNCHANGED P!payoutVars
  BY <1>1, MarkIsQuiet DEF SignerSign, netVars, Pending
<1>2. ASSUME NEW t \in Row, VerifierWait(t) PROVE UNCHANGED P!payoutVars
  BY <1>2, NothingIsQuiet DEF VerifierWait, rowVars, netVars
<1>3. CASE UNCHANGED submissionVars BY <1>3, NothingIsQuiet DEF submissionVars, rowVars, netVars
<1> QED BY <1>1, <1>2, <1>3, PromiseNetwork, PromiseSender, PromisePicker, PromiseRequest, SettleIsTrue
        DEF SubmissionNext

\* A withdrawal of Ripple, EOS or Cardano is paid once, and its client is told what
\* happened, under every combination of the faults but stale caches: submissions
\* that time out, are refused or repeated, ids that are not known, nodes without
\* history, forks.
THEOREM SubmissionImplementsPayout ==
  ASSUME NoStaleReads PROVE SubmissionSpec => ImplementsPayout
<1>1. SInv /\ [SubmissionNext]_submissionVars => [P!Next]_(P!payoutVars) BY PromiseStep
<1> QED BY <1>1, SInvAlways, PromiseInit, PTL DEF SubmissionSpec, ImplementsPayout, P!Spec
=============================================================================
