------------------------------- MODULE Webhooks -------------------------------
(***************************************************************************)
(* The events of withdrawals and deposits reach the users through the      *)
(* table webhook_progress: the transaction that makes an event inserts one *)
(* row for every webhook that the user has at that moment, and one worker  *)
(* sends the row that was touched longest ago, at every tick.              *)
(*                                                                         *)
(* The events of one record are numbered in the order in which they        *)
(* happen.  One user.  Webhooks are rows that an operator writes: no code  *)
(* inserts or changes them.  A call that is refused may have reached the   *)
(* client (a timeout, an error after the work) or not.  The process of the *)
(* worker looks the currency of a deposit up in its own registry, which it *)
(* reads from the tables of tokens when it starts; later tokens reach it   *)
(* by a message that can be lost (Tokens).  webhook_log, which no code     *)
(* reads, is left out.                                                     *)
(***************************************************************************)
EXTENDS Naturals, Sequences, FiniteSets, SequencesExt

CONSTANTS
  Webhook,
  Ref,          \* withdrawals and deposits
  EventCount,   \* bound: events of one record
  LastEvent,    \* bound: events of each record
  RefusedCount, \* bound: rows whose call may be refused
  Neglected,    \* webhooks that may lose their url
  Missed,       \* deposits in a token whose message the worker may have missed
  Fault         \* "crash" the worker dies, "refuse" a call fails, "save" the update does

ASSUME WebhooksAssumption ==
  /\ {EventCount, RefusedCount} \subseteq Nat
  /\ LastEvent \in [Ref -> 0 .. EventCount]
  /\ IsFiniteSet(Webhook)

Event == 1 .. EventCount
Progress == Webhook \X Ref \X Event
NoProgress == <<>>

VARIABLES
  url,         \* webhook: "none" (no row), "empty", "set"
  happened,    \* record: its last event
  pending,     \* webhook_progress: rows that are not processed, by updated_at
  processed,   \* webhook_progress: rows that are
  refused,     \* rows that were put back because their call was refused
  received,    \* webhook: what the client was told, in the order of the first time
  readable,    \* records whose currency the registry of the worker knows
  sender       \* the row that is sent, and the answer

tableVars == <<pending, processed, refused>>
vars == <<url, happened, tableVars, received, readable, sender>>

Idle == [row |-> NoProgress, answer |-> "none"]

WebhooksTypeOK ==
  /\ url \in [Webhook -> {"none", "empty", "set"}]
  /\ happened \in [Ref -> 0 .. EventCount]
  /\ pending \in Seq(Progress) /\ IsInjective(pending)
  /\ processed \subseteq Progress
  /\ refused \subseteq Progress
  /\ received \in [Webhook -> Seq(Ref \X Event)]
  /\ readable \subseteq Ref
  /\ sender \in [row : Progress \cup {NoProgress}, answer : {"none", "ok", "refused"}]

WebhooksInit ==
  /\ url = [w \in Webhook |-> "none"]
  /\ happened = [r \in Ref |-> 0]
  /\ pending = <<>> /\ processed = {} /\ refused = {}
  /\ received = [w \in Webhook |-> <<>>]
  /\ \E missed \in SUBSET Missed : readable = Ref \ missed
  /\ sender = Idle

-----------------------------------------------------------------------------
\* The rows that one event makes, in any order

Notified == {w \in Webhook : url[w] # "none"}

\* An event of r happens.
insertWebhookProgress(r) ==
  /\ happened[r] < LastEvent[r]
  /\ happened' = [happened EXCEPT ![r] = @ + 1]
  /\ \E rows \in SetToSeqs({<<w, r, happened'[r]>> : w \in Notified}) :
       pending' = pending \o rows
  /\ UNCHANGED <<url, processed, refused, received, readable, sender>>

\* An operator inserts a webhook, or repairs one.
SetUrl(w) ==
  /\ url[w] # "set"
  /\ url' = [url EXCEPT ![w] = "set"]
  /\ UNCHANGED <<happened, tableVars, received, readable, sender>>

LoseUrl(w) ==
  /\ url[w] = "set"
  /\ url' = [url EXCEPT ![w] = "empty"]
  /\ UNCHANGED <<happened, tableVars, received, readable, sender>>

-----------------------------------------------------------------------------
\* The worker

\* Mutant of NextProgress: the row touched last.
NextProgress_desc == Last(pending)

NextProgress == Head(pending)

\* A row whose url is empty, or whose record _getRefData cannot build, is not
\* touched and stays the first of the queue.
HasUrl(p) == url[p[1]] = "set"

\* _getRefData: getOneCurrency throws for a token that the registry does not know.
Readable(p) == p[2] \in readable

SenderReads ==
  /\ sender = Idle
  /\ pending # <<>>
  /\ HasUrl(NextProgress) /\ Readable(NextProgress)
  /\ sender' = [Idle EXCEPT !.row = NextProgress]
  /\ UNCHANGED <<url, happened, tableVars, received, readable>>

Hears(p) ==
  received' = [received EXCEPT ![p[1]] = IF Contains(@, <<p[2], p[3]>>) THEN @ ELSE Append(@, <<p[2], p[3]>>)]

\* The client hears and answers 200.
CallAnswered ==
  /\ sender.row # NoProgress /\ sender.answer = "none"
  /\ sender' = [sender EXCEPT !.answer = "ok"]
  /\ Hears(sender.row)
  /\ UNCHANGED <<url, happened, tableVars, readable>>

CallRefused ==
  /\ "refuse" \in Fault
  /\ sender.row # NoProgress /\ sender.answer = "none"
  /\ Cardinality(refused \cup {sender.row}) <= RefusedCount
  /\ sender' = [sender EXCEPT !.answer = "refused"]
  /\ Hears(sender.row) \/ UNCHANGED received
  /\ UNCHANGED <<url, happened, tableVars, readable>>

\* Mutant of Outcome: a call that was refused is not repeated.
Outcome_once(p, answer) ==
  /\ pending' = SelectSeq(pending, LAMBDA q : q # p)
  /\ processed' = processed \cup {p}
  /\ refused' = IF answer = "ok" THEN refused ELSE refused \cup {p}

\* Mutant of Outcome: the repetition is a second row.
Outcome_again(p, answer) ==
  /\ pending' = IF answer = "ok" THEN Remove(pending, p) ELSE Append(pending, p)
  /\ processed' = IF answer = "ok" THEN processed \cup {p} ELSE processed
  /\ refused' = IF answer = "ok" THEN refused ELSE refused \cup {p}

\* isProcessed and updatedAt
Outcome(p, answer) ==
  LET rest == RemoveAt(pending, CHOOSE i \in DOMAIN pending : pending[i] = p) IN
  IF answer = "ok"
  THEN pending' = rest /\ processed' = processed \cup {p} /\ UNCHANGED refused
  ELSE pending' = Append(rest, p) /\ UNCHANGED processed /\ refused' = refused \cup {p}

SenderCommit ==
  /\ sender.answer # "none"
  /\ Outcome(sender.row, sender.answer)
  /\ sender' = Idle
  /\ UNCHANGED <<url, happened, received, readable>>

\* The update of the row fails.  The error is caught inside the transaction, which
\* commits what else was written: the row of webhook_log.
SenderSwallows ==
  /\ "save" \in Fault
  /\ sender.answer # "none"
  /\ sender' = Idle
  /\ UNCHANGED <<url, happened, tableVars, received, readable>>

\* The process dies, and reads the tokens again when it starts.
SenderCrash ==
  /\ "crash" \in Fault
  /\ sender' = Idle /\ readable' = Ref
  /\ UNCHANGED <<url, happened, tableVars, received>>

WebhookProcessor ==
  SenderReads \/ CallAnswered \/ CallRefused \/ SenderCommit \/ SenderSwallows \/ SenderCrash

WebhooksNext ==
  \/ \E r \in Ref : insertWebhookProgress(r)
  \/ \E w \in Webhook : SetUrl(w)
  \/ \E w \in Neglected : LoseUrl(w)
  \/ WebhookProcessor

WebhooksSpec == WebhooksInit /\ [][WebhooksNext]_vars

\* The worker ticks every ten seconds, is restarted when it dies, and does not
\* die or fail at every commit; not all calls are refused, and an operator repairs
\* every webhook.  Nobody need restart a worker that lives.
FairWebhooksSpec ==
  /\ WebhooksSpec
  /\ SF_vars(SenderReads) /\ WF_vars(\E w \in Webhook : SetUrl(w))
  /\ SF_vars(CallAnswered)
  /\ SF_vars(SenderCommit) /\ SF_vars(SenderCommit /\ sender.answer = "ok")

-----------------------------------------------------------------------------
Told(p) == Contains(received[p[1]], <<p[2], p[3]>>)

\* p reached its client before q did, or q has not reached it yet.
Before(p, q) ==
  LET heard == received[p[1]] IN
  \E i \in DOMAIN heard :
    /\ heard[i] = <<p[2], p[3]>>
    /\ \A j \in 1 .. i : heard[j] # <<q[2], q[3]>>

\* A client hears a later event of a record before an earlier one that it is
\* also owed only when the call of the earlier one was refused and its row put back,
\* whoever dies and whichever update fails in between: findOne by updated_at in
\* WebhookProcessor._doProcess, with the rows in the order in which
\* insertWebhookProgress made them.
ReorderedOnlyAfterRefusal ==
  \A w \in Webhook, r \in Ref, e, f \in Event :
    /\ e < f
    /\ Contains(pending, <<w, r, e>>) \/ <<w, r, e>> \in processed
    /\ Before(<<w, r, f>>, <<w, r, e>>)
    => <<w, r, e>> \in refused

\* The first row of the queue is of a deposit that the worker cannot read.
Blocked == pending # <<>> /\ ~Readable(NextProgress)

\* Every row of webhook_progress is sent at last (doProcess takes one at a tick).
EveryRowIsSent == \A p \in Progress : Contains(pending, p) ~> Told(p) /\ p \in processed

\* Every row reaches its client and is closed, although calls are refused, time
\* out after they were heard, the worker dies between the call and the commit, its
\* update fails, and a webhook without a url or a deposit in an unknown token holds
\* up all the others: only a deposit that the worker never gets to read, at the
\* head of the queue for ever (_getRefData throws before the row is touched),
\* keeps a row back.
EveryNoticeIsDelivered == EveryRowIsSent \/ <>[]Blocked
=============================================================================
