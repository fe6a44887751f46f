------------------------------ MODULE Submission ------------------------------
(***************************************************************************)
(* The withdrawals of Ripple, EOS and Cardano: one hot wallet, whose       *)
(* transactions expire, and three ideas of what a transaction's id is and  *)
(* of what it means to have sent it.                                       *)
(*                                                                         *)
(* XRP  The id is known when it is signed.  The result of a submission is  *)
(*      not looked at.  A ledger may hold a payment that failed.           *)
(* EOS  The id is known when it is signed.  A refusal throws.              *)
(* ADA  The id is only in the answer to the submission; until then the row *)
(*      has a temporary one.  One transaction pays all that are unsigned.  *)
(*                                                                         *)
(* The rows and ticks are those of Withdrawals, for a hot wallet alone; a  *)
(* tick that throws, waits or writes nothing is a stuttering step.         *)
(***************************************************************************)
EXTENDS Naturals, FiniteSets

CONSTANTS
  Platform,    \* a subset of {"xrp", "eos", "ada"}
  Withdrawal,
  RowCount,    \* bound: withdrawal_tx rows
  Fault        \* "crash", "timeout", "refuse", "lag", "drop", "fork", "expire", "stale"

ASSUME SubmissionAssumption ==
  /\ Platform \subseteq {"xrp", "eos", "ada"}
  /\ RowCount \in Nat

Row == 1 .. RowCount
NoRow == 0
Reader == {"sender", "verifier"}

VARIABLES
  platform,
  wStatus,          \* withdrawal: status
  tStatus, pays,    \* withdrawal_tx: status, the withdrawals of the row
  txid,             \* withdrawal_tx: "none", "tmp", "draft" (a hash of the unsigned content), "real"
  sender,           \* the row that was submitted, and whether there is a result
  net,              \* the transaction: "absent", "pooled", "mined", "failed" (in a ledger, without effect)
  deep,             \* transactions that are irreversible
  expired,          \* transactions that no block takes any more
  cached            \* what the gateway of a reader remembers: "no", "fresh", "stale" (of a block that was forked away)

rowVars == <<wStatus, tStatus, pays, txid>>
netVars == <<net, deep, expired>>
submissionVars == <<platform, rowVars, sender, netVars, cached>>

Idle == [row |-> NoRow, result |-> FALSE]
Pending == {"signing", "signed", "sent"}
Settled == {"completed", "failed"}

SubmissionTypeOK ==
  /\ platform \in Platform
  /\ wStatus \in [Withdrawal -> {"none", "unsigned"} \cup Pending \cup Settled]
  /\ tStatus \in [Row -> {"none", "unsigned"} \cup Pending \cup Settled]
  /\ pays \in [Row -> SUBSET Withdrawal]
  /\ txid \in [Row -> {"none", "tmp", "draft", "real"}]
  /\ sender \in {Idle} \cup [row : Row, result : BOOLEAN]
  /\ net \in [Row -> {"absent", "pooled", "mined", "failed"}]
  /\ deep \subseteq {t \in Row : net[t] \in {"mined", "failed"}}
  /\ expired \subseteq Row
  /\ cached \in [Reader \X Row -> {"no", "fresh", "stale"}]
  /\ \A t \in Row : tStatus[t] \in {"sent"} \cup Settled => txid[t] = "real"
  /\ Cardinality({t \in Row : tStatus[t] \in Pending}) <= 1

SubmissionInit ==
  /\ platform \in Platform
  /\ wStatus = [w \in Withdrawal |-> "none"]
  /\ tStatus = [t \in Row |-> "none"] /\ pays = [t \in Row |-> {}]
  /\ txid = [t \in Row |-> "none"]
  /\ sender = Idle
  /\ net = [t \in Row |-> "absent"]
  /\ deep = {} /\ expired = {}
  /\ cached = [k \in Reader \X Row |-> "no"]

-----------------------------------------------------------------------------
\* The network

InBlock(t) == net[t] \in {"mined", "failed"}

Include(t) ==
  /\ net[t] = "pooled" /\ t \notin expired
  /\ net' = [net EXCEPT ![t] = "mined"]
  /\ UNCHANGED <<platform, rowVars, sender, deep, expired, cached>>

\* An unfunded payment takes its sequence and its fee.
FailInLedger(t) ==
  /\ platform = "xrp"
  /\ net[t] = "pooled" /\ t \notin expired
  /\ Cardinality({u \in Row : net[u] = "failed"}) < RowCount - Cardinality(Withdrawal)  \* bound: rows left
  /\ net' = [net EXCEPT ![t] = "failed"]
  /\ UNCHANGED <<platform, rowVars, sender, deep, expired, cached>>

Deepen(t) ==
  /\ InBlock(t) /\ t \notin deep
  /\ deep' = deep \cup {t}
  /\ UNCHANGED <<platform, rowVars, sender, net, expired, cached>>

\* Ripple's ledgers are final.
Fork(t) ==
  /\ "fork" \in Fault /\ platform # "xrp"
  /\ net[t] = "mined" /\ t \notin deep
  /\ net' = [net EXCEPT ![t] = "pooled"]
  /\ cached' = [k \in Reader \X Row |->
                  IF k[2] = t /\ cached[k] = "fresh" THEN "stale" ELSE cached[k]]
  /\ UNCHANGED <<platform, rowVars, sender, deep, expired>>

\* The Cardano wallet submits what it accepted again until it expires.
Drop(t) ==
  /\ "drop" \in Fault /\ platform # "ada"
  /\ net[t] = "pooled"
  /\ net' = [net EXCEPT ![t] = "absent"]
  /\ UNCHANGED <<platform, rowVars, sender, deep, expired, cached>>

\* 100 ledgers or half an hour after the construction, or the node's time to live
Expire(t) ==
  /\ "expire" \in Fault
  /\ tStatus[t] # "none" /\ net[t] \in {"absent", "pooled"} /\ t \notin expired
  /\ expired' = expired \cup {t}
  /\ UNCHANGED <<platform, rowVars, sender, net, deep, cached>>

Network ==
  \E t \in Row : Include(t) \/ FailInLedger(t) \/ Deepen(t) \/ Fork(t) \/ Drop(t) \/ Expire(t)

-----------------------------------------------------------------------------
\* The gateways

TemporaryId == IF platform = "xrp" THEN "draft" ELSE "tmp"
SignedId == IF platform = "ada" THEN "tmp" ELSE "real"

\* What the three gateways make of a transaction that is in a block.  XRP and
\* ADA count confirmations, EOS compares its height with the last irreversible
\* one; XRP tells a failure when it is final.
XrpStatus(t) ==
  CASE t \notin deep -> "confirming"
    [] t \in deep /\ net[t] = "failed" -> "failed"
    [] t \in deep /\ net[t] = "mined" -> "completed"

EosStatus(t) == IF t \in deep THEN "completed" ELSE "confirming"

AdaStatus(t) == IF t \in deep THEN "completed" ELSE "confirming"

\* BaseGateway.getOneTransaction looks into its cache first.  An entry of a block
\* that was forked away answers from its height, which more and more blocks
\* follow; it may be forgotten at any time.
CachedStatus(r, t) == IF cached[<<r, t>>] = "stale" THEN {"confirming", "completed"} ELSE {}

\* The answers about an id of the network; a node without history, or one that
\* throws, is "unknown".
getTransactionStatus(r, t) ==
  (IF InBlock(t)
   THEN {CASE platform = "xrp" -> XrpStatus(t) [] platform = "eos" -> EosStatus(t) [] platform = "ada" -> AdaStatus(t)}
   ELSE {"unknown"})
  \cup (IF "lag" \in Fault THEN {"unknown"} ELSE {})
  \cup CachedStatus(r, t)

\* A transaction read in a block is cached.  Without "stale" no entry is left
\* when its block is forked away.
Remember(r, t) ==
  cached' = IF "stale" \in Fault /\ InBlock(t) /\ cached[<<r, t>>] = "no"
              THEN [cached EXCEPT ![<<r, t>>] = "fresh"] ELSE cached

Acceptable(t) == net[t] = "absent" /\ t \notin expired

Accepted(t) == [net EXCEPT ![t] = "pooled"]

\* Whether the gateway returns an id: submit's result is ignored on XRP.
Result(accepted) == platform = "xrp" \/ accepted

\* What a submission does to the network, and whether an id is returned.
sendRawTransaction(t) ==
  \/ Acceptable(t) /\ net' = Accepted(t) /\ sender' = [row |-> t, result |-> Result(TRUE)]
  \/ /\ ~Acceptable(t) \/ "refuse" \in Fault
     /\ net' = net /\ sender' = [row |-> t, result |-> Result(FALSE)]
  \/ /\ "timeout" \in Fault
     /\ \/ net' = net
        \/ Acceptable(t) /\ net' = Accepted(t)
     /\ sender' = [row |-> t, result |-> FALSE]

-----------------------------------------------------------------------------
\* The workers

SetAll(f, S, v) == [x \in DOMAIN f |-> IF x \in S THEN v ELSE f[x]]

\* The statuses of the row and of its withdrawals.
Mark(t, status) ==
  /\ tStatus' = [tStatus EXCEPT ![t] = status]
  /\ wStatus' = SetAll(wStatus, pays[t], status)

approveTransaction(w) ==
  /\ wStatus[w] = "none"
  /\ wStatus' = [wStatus EXCEPT ![w] = "unsigned"]
  /\ UNCHANGED <<platform, tStatus, pays, txid, sender, netVars, cached>>

\* Mutant of HotWalletFree: a row that was given up keeps the wallet busy.
HotWalletFree_unsigned == \A t \in Row : tStatus[t] \notin Pending \cup {"unsigned"}

HotWalletFree == \A t \in Row : tStatus[t] \notin Pending

\* The sets that one transaction may pay
Picked ==
  LET unsigned == {w \in Withdrawal : wStatus[w] = "unsigned"} IN
  IF platform = "ada" THEN {unsigned} \ {{}} ELSE {{w} : w \in unsigned}

PickerCommit(t) ==
  /\ HotWalletFree
  /\ tStatus[t] = "none" /\ \A u \in 1 .. t - 1 : tStatus[u] # "none"
  /\ \E S \in Picked :
       /\ pays' = [pays EXCEPT ![t] = S]
       /\ tStatus' = [tStatus EXCEPT ![t] = "signing"]
       /\ wStatus' = SetAll(wStatus, S, "signing")
  /\ txid' = [txid EXCEPT ![t] = TemporaryId]
  /\ UNCHANGED <<platform, sender, netVars, cached>>

SignerSign(t) ==
  /\ tStatus[t] = "signing"
  /\ Mark(t, "signed")
  /\ txid' = [txid EXCEPT ![t] = SignedId]
  /\ UNCHANGED <<platform, pays, sender, netVars, cached>>

\* What the sender knows of the row before it sends: nothing of a temporary id.
Known(t) == IF txid[t] = "real" THEN getTransactionStatus("sender", t) ELSE {"unknown"}

SenderMark(t) ==
  /\ sender = Idle /\ tStatus[t] = "signed"
  /\ Known(t) \cap {"completed", "confirming"} # {}
  /\ Mark(t, "sent")
  /\ UNCHANGED <<platform, pays, txid, sender, netVars, cached>>

\* It was read and cached, but the row stays signed: the update does not commit,
\* or the next request of the gateway fails.
SenderSeesInVain(t) ==
  /\ Fault \cap {"crash", "lag"} # {}
  /\ sender = Idle /\ tStatus[t] = "signed"
  /\ txid[t] = "real" /\ InBlock(t)
  /\ Remember("sender", t)
  /\ UNCHANGED <<platform, rowVars, sender, netVars>>

\* Mutant of GivenUp: a transaction that nobody knows is built again.
GivenUp_unknown(t) == {"failed", "unknown"} \cap getTransactionStatus("sender", t) # {}

GivenUp(t) == "failed" \in Known(t)

\* Back to unsigned, for a new row.
SenderReconstruct(t) ==
  /\ sender = Idle /\ tStatus[t] = "signed"
  /\ GivenUp(t)
  /\ Mark(t, "unsigned")
  /\ UNCHANGED <<platform, pays, txid, sender, netVars, cached>>

SenderSubmit(t) ==
  /\ sender = Idle /\ tStatus[t] = "signed"
  /\ "unknown" \in Known(t)
  /\ sendRawTransaction(t)
  /\ UNCHANGED <<platform, rowVars, deep, expired, cached>>

\* Mutant of ReturnedId: the id of the answer is not stored.
ReturnedId_kept(t) == txid[t]

ReturnedId(t) == "real"

SenderCommit ==
  /\ sender # Idle
  /\ IF sender.result
     THEN /\ Mark(sender.row, "sent")
          /\ txid' = [txid EXCEPT ![sender.row] = ReturnedId(sender.row)]
     ELSE UNCHANGED <<wStatus, tStatus, txid>>
  /\ sender' = Idle
  /\ UNCHANGED <<platform, pays, netVars, cached>>

SenderCrash ==
  /\ "crash" \in Fault
  /\ sender # Idle
  /\ sender' = Idle
  /\ UNCHANGED <<platform, rowVars, netVars, cached>>

VerifierWait(t) ==
  /\ tStatus[t] = "sent"
  /\ "confirming" \in getTransactionStatus("verifier", t)
  /\ Remember("verifier", t)
  /\ UNCHANGED <<platform, rowVars, sender, netVars>>

VerifierSettle(t) ==
  /\ tStatus[t] = "sent"
  /\ \E status \in Settled \cap getTransactionStatus("verifier", t) : Mark(t, status)
  /\ UNCHANGED <<platform, pays, txid, sender, netVars, cached>>

Sender ==
  \/ \E t \in Row : SenderMark(t) \/ SenderSeesInVain(t) \/ SenderReconstruct(t) \/ SenderSubmit(t)
  \/ SenderCommit
  \/ SenderCrash

SubmissionNext ==
  \/ \E w \in Withdrawal : approveTransaction(w)
  \/ \E t \in Row : PickerCommit(t) \/ SignerSign(t) \/ VerifierWait(t) \/ VerifierSettle(t)
  \/ Sender
  \/ Network

SubmissionSpec == SubmissionInit /\ [][SubmissionNext]_submissionVars

\* The workers tick for ever and do not die at every commit, not every
\* submission is refused or times out, not every block is forked away, and the
\* nodes have the history of what is irreversible.
FairSubmissionSpec ==
  /\ SubmissionSpec
  /\ WF_submissionVars(\E t \in Row : PickerCommit(t) \/ SignerSign(t) \/ VerifierSettle(t))
  /\ SF_submissionVars(\E t \in Row : SenderMark(t) \/ SenderReconstruct(t))
  /\ SF_submissionVars(\E t \in Row : SenderSubmit(t) /\ net' = Accepted(t) /\ sender'.result)
  /\ SF_submissionVars(SenderCommit)
  /\ SF_submissionVars(\E t \in Row : Include(t))
  /\ SF_submissionVars(\E t \in Row : Deepen(t))

-----------------------------------------------------------------------------
P == INSTANCE Payout WITH
  Receipt <- Row,
  asked <- {w \in Withdrawal : wStatus[w] # "none"},
  paid <- [w \in Withdrawal |-> {t \in deep : w \in pays[t] /\ net[t] = "mined"}],
  outcome <- [w \in Withdrawal |-> IF wStatus[w] \in Settled THEN wStatus[w] ELSE "open"]

\* The promise of Withdrawals holds on these platforms too: a withdrawal is paid
\* once and, unless the verifier counts from a block that was forked away, settled
\* truly, although a transaction is submitted again after a
\* crash, a timeout or a refusal that was none, Cardano's sender cannot ask for
\* it, and a row may be given up and built again (senderDoProcess).
ImplementsPayout == P!Spec

\* The row can neither be included nor be given up: it expired, the network forgot
\* it after it was marked sent, or Cardano has it and its id was lost.
Lost(t) ==
  /\ tStatus[t] \in Pending
  /\ \/ t \in expired /\ ~InBlock(t)
     \/ tStatus[t] = "sent" /\ net[t] = "absent"
     \/ /\ platform = "ada" /\ tStatus[t] = "signed" /\ net[t] # "absent"
        /\ sender # [row |-> t, result |-> TRUE]

\* Every withdrawal is settled, unless from some moment on the hot wallet holds a
\* transaction that is lost in one of these three ways; crashes, timeouts,
\* refusals, forks and nodes without history do not stop it (senderDoProcess,
\* verifierWithdrawalDoProcess).
SettledUnlessLost ==
  \A w \in Withdrawal :
    wStatus[w] = "unsigned" ~> wStatus[w] \in Settled \/ [](\E t \in Row : Lost(t))

\* No two of the transactions that pay a withdrawal take effect, whatever the
\* caches answer: what the sender gives up has failed in a ledger of Ripple.
PaidOnce ==
  \A t, u \in Row : t # u /\ pays[t] \cap pays[u] # {} => "failed" \in {net[t], net[u]}

\* 'Now the tx should be submitted to the network, and wait for the verifying
\* phase' (senderDoProcess): where nothing is forgotten, a row that is sent is
\* on the network.
SentIsSubmitted == \A t \in Row : tStatus[t] = "sent" => net[t] # "absent"

\* 'Check whether a transaction is finalized on blockchain network'
\* (EosGateway.getTransactionStatus), of what becomes completed.
CompletedIsFinal == \A t \in Row : tStatus[t] = "completed" => InBlock(t)
=============================================================================
