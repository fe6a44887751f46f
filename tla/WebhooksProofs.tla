---------------------------- MODULE WebhooksProofs ----------------------------
(***************************************************************************)
(* The delivery of events, for every number of webhooks, records and       *)
(* events and every fault.                                                 *)
(***************************************************************************)
EXTENDS Webhooks, FiniteSetTheorems, TLAPS

\* What a client has heard of.
Heard(w, r, e) == Contains(received[w], <<r, e>>)

\* Nothing is queued or heard that has not happened.
OnlyWhatHappened ==
  /\ \A i \in DOMAIN pending : pending[i][3] <= happened[pending[i][2]]
  /\ \A w \in Webhook, r \in Ref, e \in Event : Heard(w, r, e) => e <= happened[r]

\* What is sent is the first of the queue, and an answer was heard.
SendsFirst ==
  /\ sender.row # NoProgress => pending # <<>> /\ pending[1] = sender.row
  /\ sender.answer # "none" => sender.row # NoProgress
  /\ sender.answer = "ok" => Told(sender.row)

\* An earlier event stands behind a later one of its record only after a refusal.
QueueInOrder ==
  \A i, j \in DOMAIN pending :
    /\ i < j
    /\ pending[i][1] = pending[j][1] /\ pending[i][2] = pending[j][2]
    /\ pending[j][3] < pending[i][3]
    => pending[j] \in refused

\* What was closed without a refusal was heard.
ClosedIsHeard == \A p \in processed \ refused : Told(p)

\* What waits or was closed without a refusal was not overtaken.
NotOvertaken ==
  \A w \in Webhook, r \in Ref, e, f \in Event :
    /\ e < f
    /\ Contains(pending, <<w, r, e>>) \/ <<w, r, e>> \in processed
    /\ <<w, r, e>> \notin refused
    => ~Before(<<w, r, f>>, <<w, r, e>>)

DeliveryInv ==
  /\ WebhooksTypeOK
  /\ OnlyWhatHappened /\ SendsFirst /\ QueueInOrder /\ ClosedIsHeard /\ NotOvertaken

-----------------------------------------------------------------------------
LEMMA RowIsTuple == \A p \in Progress : p = <<p[1], p[2], p[3]>> /\ p[1] \in Webhook /\ p[2] \in Ref /\ p[3] \in Event
BY DEF Progress

LEMMA NoRowIsNoProgress == NoProgress \notin Progress
BY DEF Progress, NoProgress

LEMMA Joined ==
  ASSUME NEW T, NEW s \in Seq(T), NEW t \in Seq(T)
  PROVE  /\ s \o t \in Seq(T) /\ Len(s \o t) = Len(s) + Len(t)
         /\ \A i \in 1 .. Len(s) : (s \o t)[i] = s[i]
         /\ \A i \in Len(s) + 1 .. Len(s) + Len(t) : (s \o t)[i] = t[i - Len(s)] /\ i - Len(s) \in 1 .. Len(t)
         /\ DOMAIN (s \o t) = 1 .. Len(s) + Len(t) /\ DOMAIN s = 1 .. Len(s) /\ Len(s) \in Nat
<1>1. Len(s) \in Nat /\ Len(t) \in Nat OBVIOUS
<1>2. s \o t \in Seq(T) /\ Len(s \o t) = Len(s) + Len(t) OBVIOUS
<1>3. DOMAIN (s \o t) = 1 .. Len(s) + Len(t) /\ DOMAIN s = 1 .. Len(s) BY <1>2
<1>4. \A i \in 1 .. Len(s) : (s \o t)[i] = s[i] BY <1>1
<1>5. \A i \in Len(s) + 1 .. Len(s) + Len(t) : (s \o t)[i] = t[i - Len(s)] /\ i - Len(s) \in 1 .. Len(t) BY <1>1
<1> QED BY <1>1, <1>2, <1>3, <1>4, <1>5

LEMMA DeliveryInit == WebhooksInit => DeliveryInv
<1> SUFFICES ASSUME WebhooksInit PROVE DeliveryInv OBVIOUS
<1>1. pending = <<>> /\ processed = {} /\ refused = {} /\ sender = Idle
      /\ received = [w \in Webhook |-> <<>>] /\ happened = [r \in Ref |-> 0]
  BY DEF WebhooksInit
<1>2. WebhooksTypeOK
  <2>1. pending \in Seq(Progress) /\ IsInjective(pending) BY <1>1 DEF IsInjective
  <2>2. received \in [Webhook -> Seq(Ref \X Event)] BY <1>1
  <2>3. happened \in [Ref -> 0 .. EventCount] BY <1>1, WebhooksAssumption
  <2>4. sender \in [row : Progress \cup {NoProgress}, answer : {"none", "ok", "refused"}] BY <1>1 DEF Idle
  <2> QED BY <1>1, <2>1, <2>2, <2>3, <2>4 DEF WebhooksTypeOK, WebhooksInit
<1>3. \A w \in Webhook : \A r, e : ~Heard(w, r, e) BY <1>1 DEF Heard, Contains
<1>4. OnlyWhatHappened BY <1>1, <1>3 DEF OnlyWhatHappened
<1>5. SendsFirst BY <1>1 DEF SendsFirst, Idle
<1>6. QueueInOrder /\ ClosedIsHeard /\ NotOvertaken BY <1>1 DEF QueueInOrder, ClosedIsHeard, NotOvertaken, Contains
<1> QED BY <1>2, <1>4, <1>5, <1>6 DEF DeliveryInv

\* The rows of one event are new, and behind all others.
LEMMA InsertStep ==
  ASSUME DeliveryInv, NEW r \in Ref, insertWebhookProgress(r)
  PROVE  DeliveryInv'
<1> DEFINE n == happened[r] + 1
           S == {<<w, r, n>> : w \in Notified}
           m == Len(pending)
<1>1. /\ happened' = [happened EXCEPT ![r] = happened[r] + 1] /\ happened[r] < LastEvent[r]
      /\ UNCHANGED <<url, processed, refused, received, readable, sender>>
  BY DEF insertWebhookProgress
<1>2. /\ happened \in [Ref -> 0 .. EventCount]
      /\ pending \in Seq(Progress) /\ IsInjective(pending)
      /\ EventCount \in Nat
  BY WebhooksAssumption DEF DeliveryInv, WebhooksTypeOK
<1>3. /\ n \in Event /\ n \in Nat /\ happened[r] \in Nat
      /\ happened' \in [Ref -> 0 .. EventCount]
      /\ happened'[r] = n /\ \A x \in Ref : happened'[x] \in Nat /\ happened[x] \in Nat /\ happened[x] <= happened'[x]
  <2>1. LastEvent[r] \in 0 .. EventCount BY WebhooksAssumption
  <2>2. happened[r] < EventCount BY <1>1, <1>2, <2>1
  <2> QED BY <1>1, <1>2, <2>2 DEF Event
<1>4. PICK rows \in SetToSeqs(S) : pending' = pending \o rows
  BY <1>3 DEF insertWebhookProgress
<1>5. IsFiniteSet(S)
  <2>1. Notified \subseteq Webhook BY DEF Notified
  <2>2. IsFiniteSet(Notified) BY <2>1, FS_Subset, WebhooksAssumption
  <2> DEFINE f == [w \in Notified |-> <<w, r, n>>]
  <2>3. f \in Surjection(Notified, S) BY DEF Surjection
  <2> HIDE DEF f, S
  <2> QED BY <2>2, <2>3, FS_Surjection
<1>6. /\ rows \in [1 .. Cardinality(S) -> S] /\ Cardinality(S) \in Nat
      /\ \A i, j \in 1 .. Cardinality(S) : i # j => rows[i] # rows[j]
  <2> HIDE DEF S
  <2> QED BY <1>4, <1>5, FS_CardinalityType DEF SetToSeqs
<1>7. S \subseteq Progress BY <1>3 DEF Progress, Notified
<1>8. \A p \in S : p[2] = r /\ p[3] = n OBVIOUS
<1> HIDE DEF S
<1> DEFINE k == Cardinality(S)
<1>9. rows \in Seq(Progress) /\ Len(rows) = k BY <1>6, <1>7
<1>10. /\ pending' \in Seq(Progress) /\ Len(pending') = m + k
       /\ \A i \in 1 .. m : pending'[i] = pending[i]
       /\ \A i \in m + 1 .. m + k : pending'[i] = rows[i - m] /\ i - m \in 1 .. k
       /\ DOMAIN pending' = 1 .. m + k /\ DOMAIN pending = 1 .. m /\ m \in Nat
  <2>1. pending \in Seq(Progress) /\ rows \in Seq(Progress) BY <1>2, <1>9
  <2>2. /\ pending \o rows \in Seq(Progress) /\ Len(pending \o rows) = Len(pending) + Len(rows)
        /\ \A i \in 1 .. Len(pending) : (pending \o rows)[i] = pending[i]
        /\ \A i \in Len(pending) + 1 .. Len(pending) + Len(rows) :
             (pending \o rows)[i] = rows[i - Len(pending)] /\ i - Len(pending) \in 1 .. Len(rows)
        /\ DOMAIN (pending \o rows) = 1 .. Len(pending) + Len(rows)
        /\ DOMAIN pending = 1 .. Len(pending) /\ Len(pending) \in Nat
    BY <2>1, Joined, Zenon
  <2> QED BY <2>2, <1>4, <1>9, Zenon
<1>11. \A i \in 1 .. m + k : /\ i \notin 1 .. m => i \in m + 1 .. m + k
                            /\ i \in m + 1 .. m + k => pending'[i] \in S
  BY <1>6, <1>10
<1>12. \A i \in 1 .. m : pending[i] \in Progress /\ pending[i][3] <= happened[pending[i][2]]
  BY <1>2, <1>10 DEF DeliveryInv, OnlyWhatHappened
<1>13. \A i \in 1 .. m : pending[i] \notin S
  <2> SUFFICES ASSUME NEW i \in 1 .. m, pending[i] \in S PROVE FALSE OBVIOUS
  <2>1. n <= happened[r] BY <1>8, <1>12
  <2> QED BY <1>3, <2>1
<1>14. IsInjective(pending')
  <2> SUFFICES ASSUME NEW i \in 1 .. m + k, NEW j \in 1 .. m + k, pending'[i] = pending'[j] PROVE i = j
    BY <1>10 DEF IsInjective
  <2>1. CASE i \in 1 .. m /\ j \in 1 .. m BY <1>2, <1>10, <2>1 DEF IsInjective
  <2>2. CASE i \in 1 .. m /\ j \notin 1 .. m BY <1>10, <1>11, <1>13, <2>2
  <2>3. CASE i \notin 1 .. m /\ j \in 1 .. m BY <1>10, <1>11, <1>13, <2>3
  <2>4. CASE i \notin 1 .. m /\ j \notin 1 .. m
    <3>1. rows[i - m] = rows[j - m] /\ i - m \in 1 .. k /\ j - m \in 1 .. k BY <1>10, <1>11, <2>4
    <3>2. i - m = j - m BY <1>6, <3>1
    <3> QED BY <1>10, <3>2, <1>6
  <2> QED BY <2>1, <2>2, <2>3, <2>4
<1>15. WebhooksTypeOK' BY <1>1, <1>3, <1>10, <1>14 DEF DeliveryInv, WebhooksTypeOK, Progress, Event
<1>16. OnlyWhatHappened'
  <2>1. ASSUME NEW i \in 1 .. m + k PROVE pending'[i][3] <= happened'[pending'[i][2]]
    <3>1. CASE i \in 1 .. m
      <4>1. pending[i][2] \in Ref /\ pending[i][3] \in Event BY <1>12, <3>1, RowIsTuple
      <4> QED BY <1>3, <1>10, <1>12, <3>1, <4>1 DEF Event
    <3>2. CASE i \notin 1 .. m BY <1>3, <1>8, <1>11, <3>2
    <3> QED BY <3>1, <3>2
  <2>2. ASSUME NEW w \in Webhook, NEW x \in Ref, NEW e \in Event, Heard(w, x, e) PROVE e <= happened'[x]
    <3>1. e <= happened[x] BY <2>2 DEF DeliveryInv, OnlyWhatHappened
    <3> QED BY <1>3, <3>1 DEF Event
  <2> QED BY <1>1, <1>10, <2>1, <2>2 DEF OnlyWhatHappened, Heard, Event
<1>17. SendsFirst'
  <2>1. pending # <<>> => pending' # <<>> /\ pending'[1] = pending[1]
    <3> SUFFICES ASSUME pending # <<>> PROVE pending' # <<>> /\ pending'[1] = pending[1] OBVIOUS
    <3>1. m >= 1 BY <1>2
    <3>2. 1 \in 1 .. m /\ 1 \in 1 .. m + k BY <1>6, <1>10, <3>1
    <3> QED BY <1>10, <3>2
  <2> QED BY <1>1, <2>1 DEF DeliveryInv, SendsFirst, Told
<1>18. QueueInOrder'
  <2> SUFFICES ASSUME NEW i \in 1 .. m + k, NEW j \in 1 .. m + k, i < j,
                      pending'[i][1] = pending'[j][1], pending'[i][2] = pending'[j][2],
                      pending'[j][3] < pending'[i][3]
               PROVE  pending'[j] \in refused
    BY <1>1, <1>10 DEF QueueInOrder
  <2>1. CASE j \in 1 .. m
    <3>1. i \in 1 .. m BY <1>10, <2>1
    <3>2. pending'[i] = pending[i] /\ pending'[j] = pending[j] BY <1>10, <2>1, <3>1
    <3> QED BY <1>10, <2>1, <3>1, <3>2 DEF DeliveryInv, QueueInOrder
  <2>2. CASE j \notin 1 .. m
    <3>1. pending'[j][2] = r /\ pending'[j][3] = n BY <1>8, <1>11, <2>2
    <3>2. CASE i \in 1 .. m
      <4>1. pending[i][3] \in Event /\ pending'[i] = pending[i] BY <1>10, <1>12, <3>2, RowIsTuple
      <4> QED BY <1>3, <1>12, <3>1, <3>2, <4>1 DEF Event
    <3>3. CASE i \notin 1 .. m BY <1>3, <1>8, <1>11, <3>1, <3>3
    <3> QED BY <3>2, <3>3
  <2> QED BY <2>1, <2>2
<1>19. ClosedIsHeard' BY <1>1 DEF DeliveryInv, ClosedIsHeard, Told
<1>20. NotOvertaken'
  <2> SUFFICES ASSUME NEW w \in Webhook, NEW x \in Ref, NEW e \in Event, NEW f \in Event, e < f,
                      Contains(pending', <<w, x, e>>) \/ <<w, x, e>> \in processed,
                      <<w, x, e>> \notin refused, Before(<<w, x, f>>, <<w, x, e>>)
               PROVE  FALSE
    BY <1>1 DEF NotOvertaken, Before, Event
  <2>1. Contains(pending', <<w, x, e>>) /\ ~Contains(pending, <<w, x, e>>)
    BY DEF DeliveryInv, NotOvertaken
  <2>2. PICK i \in 1 .. m + k : pending'[i] = <<w, x, e>> BY <1>10, <2>1 DEF Contains
  <2>3. i \notin 1 .. m BY <1>10, <2>1, <2>2 DEF Contains
  <2>4. x = r /\ e = n BY <1>8, <1>11, <2>2, <2>3
  <2>5. Heard(w, x, f)
    <3>1. received[w] \in Seq(Ref \X Event) BY DEF DeliveryInv, WebhooksTypeOK
    <3>2. PICK q \in DOMAIN received[w] : received[w][q] = <<x, f>> BY DEF Before
    <3>3. q \in 1 .. Len(received[w]) BY <3>1
    <3> QED BY <3>2, <3>3 DEF Heard, Contains
  <2>6. f <= happened[r] BY <2>4, <2>5 DEF DeliveryInv, OnlyWhatHappened
  <2> QED BY <1>3, <2>4, <2>6 DEF Event
<1> QED BY <1>15, <1>16, <1>17, <1>18, <1>19, <1>20 DEF DeliveryInv

\* A call that is heard: the row is the first of the queue.
LEMMA HearsStep ==
  ASSUME DeliveryInv, sender.row # NoProgress, Hears(sender.row),
         UNCHANGED <<url, happened, tableVars, readable>>
  PROVE  /\ received' \in [Webhook -> Seq(Ref \X Event)]
         /\ OnlyWhatHappened' /\ ClosedIsHeard' /\ NotOvertaken'
         /\ Contains(received'[sender.row[1]], <<sender.row[2], sender.row[3]>>)
<1> DEFINE p == sender.row
           u == p[1]
           x == <<p[2], p[3]>>
           h == received[u]
           n == Len(h)
<1>1. /\ pending \in Seq(Progress) /\ received \in [Webhook -> Seq(Ref \X Event)]
      /\ processed \subseteq Progress
      /\ sender \in [row : Progress \cup {NoProgress}, answer : {"none", "ok", "refused"}]
  BY DEF DeliveryInv, WebhooksTypeOK
<1>2. UNCHANGED <<happened, pending, processed, refused>> BY DEF tableVars
<1>3. p \in Progress /\ pending # <<>> /\ pending[1] = p BY <1>1 DEF DeliveryInv, SendsFirst
<1>4. u \in Webhook /\ p[2] \in Ref /\ p[3] \in Event /\ x \in Ref \X Event /\ p = <<u, p[2], p[3]>>
  BY <1>3, RowIsTuple
<1>5. h \in Seq(Ref \X Event) /\ n \in Nat /\ DOMAIN h = 1 .. n BY <1>1, <1>4
<1>6. 1 \in DOMAIN pending /\ Contains(pending, p)
  <2>1. Len(pending) \in Nat /\ Len(pending) # 0 /\ DOMAIN pending = 1 .. Len(pending) BY <1>1, <1>3
  <2> QED BY <1>3, <2>1 DEF Contains
<1>7. received' = [received EXCEPT ![u] = IF Contains(h, x) THEN h ELSE Append(h, x)]
  BY DEF Hears
<1> HIDE DEF p, u, x, h, n
<1>8. Append(h, x) \in Seq(Ref \X Event) BY <1>4, <1>5
<1>9. /\ received' \in [Webhook -> Seq(Ref \X Event)]
      /\ \A w \in Webhook : w # u => received'[w] = received[w]
      /\ received'[u] = IF Contains(h, x) THEN h ELSE Append(h, x)
  BY <1>1, <1>4, <1>5, <1>7, <1>8 DEF h
<1>10. ~Contains(h, x) => /\ Len(received'[u]) = n + 1 /\ DOMAIN received'[u] = 1 .. n + 1
                          /\ received'[u][n + 1] = x
                          /\ \A i \in 1 .. n : received'[u][i] = h[i]
  <2> SUFFICES ASSUME ~Contains(h, x) PROVE /\ Len(received'[u]) = n + 1 /\ DOMAIN received'[u] = 1 .. n + 1
                          /\ received'[u][n + 1] = x
                          /\ \A i \in 1 .. n : received'[u][i] = h[i]
    OBVIOUS
  <2>1. received'[u] = Append(h, x) BY <1>9
  <2> QED BY <2>1, <1>4, <1>5 DEF n
<1>11. \A w \in Webhook : \A y : Contains(received[w], y) => Contains(received'[w], y)
  <2> SUFFICES ASSUME NEW w \in Webhook, NEW y, Contains(received[w], y), w = u, ~Contains(h, x)
               PROVE  Contains(received'[w], y)
    BY <1>9 DEF h
  <2>1. PICK i \in 1 .. n : h[i] = y BY <1>5 DEF Contains, h
  <2>2. i \in 1 .. n + 1 BY <1>5
  <2> QED BY <1>10, <2>1, <2>2 DEF Contains
<1>12. \A w \in Webhook : \A y : Contains(received'[w], y) => Contains(received[w], y) \/ (w = u /\ y = x)
  <2> SUFFICES ASSUME NEW w \in Webhook, NEW y, Contains(received'[w], y), w = u, ~Contains(h, x)
               PROVE  Contains(received[w], y) \/ y = x
    BY <1>9 DEF h
  <2>1. PICK i \in 1 .. n + 1 : received'[u][i] = y BY <1>10 DEF Contains
  <2>2. i = n + 1 \/ i \in 1 .. n BY <1>5
  <2> QED BY <1>5, <1>10, <2>1, <2>2 DEF Contains, h
<1>13. Contains(received'[u], x)
  <2>1. n + 1 \in 1 .. n + 1 BY <1>5
  <2> QED BY <1>9, <1>10, <2>1 DEF Contains
<1>14. OnlyWhatHappened'
  <2> SUFFICES ASSUME NEW w \in Webhook, NEW r \in Ref, NEW e \in Event, Contains(received'[w], <<r, e>>)
               PROVE  e <= happened[r]
    BY <1>2 DEF DeliveryInv, OnlyWhatHappened, Heard, Event
  <2>1. CASE Contains(received[w], <<r, e>>) BY <2>1 DEF DeliveryInv, OnlyWhatHappened, Heard
  <2>2. CASE <<r, e>> = x
    <3>1. r = pending[1][2] /\ e = pending[1][3] BY <1>3, <2>2 DEF x
    <3> QED BY <1>6, <3>1 DEF DeliveryInv, OnlyWhatHappened
  <2> QED BY <1>12, <2>1, <2>2
<1>15. ClosedIsHeard'
  <2> SUFFICES ASSUME NEW q \in processed \ refused PROVE Contains(received'[q[1]], <<q[2], q[3]>>)
    BY <1>2 DEF ClosedIsHeard, Told
  <2>1. q[1] \in Webhook /\ Contains(received[q[1]], <<q[2], q[3]>>)
    BY <1>1, RowIsTuple DEF DeliveryInv, ClosedIsHeard, Told
  <2> QED BY <1>11, <2>1
<1>16. NotOvertaken'
  <2> SUFFICES ASSUME NEW w \in Webhook, NEW r \in Ref, NEW e \in Event, NEW f \in Event, e < f,
                      Contains(pending, <<w, r, e>>) \/ <<w, r, e>> \in processed,
                      <<w, r, e>> \notin refused,
                      NEW i \in DOMAIN received'[w], received'[w][i] = <<r, f>>,
                      \A j \in 1 .. i : received'[w][j] # <<r, e>>
               PROVE  FALSE
    BY <1>2 DEF NotOvertaken, Before, Event
  <2>1. ~Before(<<w, r, f>>, <<w, r, e>>) BY DEF DeliveryInv, NotOvertaken
  <2>2. ~\E k \in DOMAIN received[w] : received[w][k] = <<r, f>> /\ \A j \in 1 .. k : received[w][j] # <<r, e>>
    BY <2>1 DEF Before
  <2>3. w = u /\ ~Contains(h, x) BY <1>9, <2>2 DEF h
  <2>4. i \in 1 .. n + 1 BY <1>10, <2>3
  <2>5. i \notin 1 .. n
    <3> SUFFICES ASSUME i \in 1 .. n PROVE FALSE OBVIOUS
    <3>1. h[i] = <<r, f>> BY <1>10, <2>3
    <3>2. ASSUME NEW j \in 1 .. i PROVE j \in 1 .. n /\ h[j] # <<r, e>>
      <4>1. j \in 1 .. n BY <1>5
      <4>2. received'[w][j] = h[j] BY <1>10, <2>3, <4>1
      <4> QED BY <4>1, <4>2
    <3> QED BY <1>5, <2>2, <2>3, <3>1, <3>2 DEF h
  <2>6. i = n + 1 BY <1>5, <2>4, <2>5
  <2>7. r = p[2] /\ f = p[3] BY <1>10, <2>3, <2>6 DEF x
  <2>8. ~Contains(received[w], <<r, e>>)
    <3> SUFFICES ASSUME NEW k \in 1 .. n, h[k] = <<r, e>> PROVE FALSE
      BY <1>5, <2>3 DEF Contains, h
    <3>1. k \in 1 .. i /\ received'[w][k] = <<r, e>> BY <1>5, <1>10, <2>3, <2>6
    <3> QED BY <3>1
  <2>9. Contains(pending, <<w, r, e>>) BY <2>8 DEF DeliveryInv, ClosedIsHeard, Told
  <2>10. PICK k \in DOMAIN pending : pending[k] = <<w, r, e>> BY <2>9 DEF Contains
  <2>11. pending[1] = <<w, r, f>> BY <1>3, <1>4, <2>3, <2>7
  <2>12. k # 1 BY <2>10, <2>11 DEF Event
  <2>13. 1 < k BY <1>1, <2>12
  <2>14. pending[k] \in refused
    BY <1>6, <2>10, <2>11, <2>13 DEF DeliveryInv, QueueInOrder
  <2> QED BY <2>10, <2>14
<1> QED BY <1>9, <1>13, <1>14, <1>15, <1>16 DEF p, u, x

\* The row that is committed leaves the head of the queue.
LEMMA CommitStep ==
  ASSUME DeliveryInv, SenderCommit
  PROVE  DeliveryInv'
<1> DEFINE p == sender.row
           m == Len(pending)
           first == CHOOSE i \in DOMAIN pending : pending[i] = p
           rest == RemoveAt(pending, first)
<1>1. /\ pending \in Seq(Progress) /\ IsInjective(pending)
      /\ sender \in [row : Progress \cup {NoProgress}, answer : {"none", "ok", "refused"}]
      /\ processed \subseteq Progress /\ refused \subseteq Progress
  BY DEF DeliveryInv, WebhooksTypeOK
<1>2. sender.answer # "none" /\ sender' = Idle /\ UNCHANGED <<url, happened, received, readable>>
      /\ Outcome(p, sender.answer)
  BY DEF SenderCommit
<1>3. p \in Progress /\ pending # <<>> /\ pending[1] = p /\ (sender.answer = "ok" => Told(p))
  BY <1>1, <1>2 DEF DeliveryInv, SendsFirst
<1>4. m \in Nat /\ m >= 1 /\ DOMAIN pending = 1 .. m BY <1>1, <1>3
<1>5. first = 1
  <2>1. 1 \in DOMAIN pending BY <1>4
  <2>2. \A i \in DOMAIN pending : pending[i] = p => i = 1 BY <1>1, <1>3, <2>1 DEF IsInjective
  <2> QED BY <1>3, <2>1, <2>2
<1>6. /\ rest \in Seq(Progress) /\ Len(rest) = m - 1 /\ DOMAIN rest = 1 .. m - 1
      /\ \A i \in 1 .. m - 1 : rest[i] = pending[i + 1]
  <2> HIDE DEF first, m, p
  <2>0. 1 - 1 = 0 /\ 1 + 1 = 2 OBVIOUS
  <2>1. rest = SubSeq(pending, 1, 0) \o SubSeq(pending, 2, m) BY <1>5, <2>0, Zenon DEF RemoveAt, m
  <2>2. SubSeq(pending, 1, 0) = <<>> BY <1>1
  <2>3. /\ SubSeq(pending, 2, m) \in Seq(Progress) /\ Len(SubSeq(pending, 2, m)) = m - 1
        /\ \A i \in 1 .. m - 1 : SubSeq(pending, 2, m)[i] = pending[i + 1]
    BY <1>1, <1>4 DEF m
  <2>4. rest = SubSeq(pending, 2, m) BY <2>1, <2>2, <2>3
  <2> HIDE DEF rest
  <2> QED BY <1>4, <2>3, <2>4
<1>7. \/ sender.answer = "ok" /\ pending' = rest /\ processed' = processed \cup {p} /\ refused' = refused
      \/ sender.answer = "refused" /\ pending' = Append(rest, p) /\ processed' = processed /\ refused' = refused \cup {p}
  BY <1>1, <1>2 DEF Outcome
<1> HIDE DEF p, m, first, rest
<1>8. /\ pending' \in Seq(Progress)
      /\ \E k \in {m - 1, m} :
           /\ DOMAIN pending' = 1 .. k
           /\ k = m => pending'[m] = p /\ p \in refused'
      /\ \A i \in 1 .. m - 1 : pending'[i] = pending[i + 1] /\ i + 1 \in 2 .. m
  <2>0. \A i \in 1 .. m - 1 : i + 1 \in 2 .. m BY <1>4
  <2>1. CASE sender.answer = "ok" BY <1>6, <1>7, <2>0, <2>1
  <2>2. CASE sender.answer = "refused"
    <3>1. pending' = Append(rest, p) /\ p \in refused' BY <1>7, <2>2
    <3>2. /\ Append(rest, p) \in Seq(Progress) /\ Len(Append(rest, p)) = m
          /\ DOMAIN Append(rest, p) = 1 .. m
          /\ Append(rest, p)[m] = p /\ \A i \in 1 .. m - 1 : Append(rest, p)[i] = rest[i]
      BY <1>3, <1>4, <1>6
    <3> QED BY <1>6, <2>0, <3>1, <3>2
  <2> QED BY <1>7, <2>1, <2>2
<1>9. PICK k \in {m - 1, m} : DOMAIN pending' = 1 .. k /\ (k = m => pending'[m] = p /\ p \in refused')
  BY <1>8
<1>10. \A i \in 1 .. k : i \in 1 .. m - 1 \/ (i = m /\ k = m) BY <1>4, <1>9
<1>11. \A i \in 1 .. k : \E j \in 1 .. m : pending'[i] = pending[j]
  <2>1. 1 \in 1 .. m /\ \A i \in 2 .. m : i \in 1 .. m BY <1>4
  <2> QED BY <1>3, <1>8, <1>9, <1>10, <2>1
<1>12. IsInjective(pending')
  <2> SUFFICES ASSUME NEW i \in 1 .. k, NEW j \in 1 .. k, pending'[i] = pending'[j] PROVE i = j
    BY <1>9 DEF IsInjective
  <2>1. 1 \in 1 .. m /\ \A a \in 2 .. m : a \in 1 .. m /\ a # 1 BY <1>4
  <2>2. \A a, b \in 1 .. m : pending[a] = pending[b] => a = b BY <1>1, <1>4 DEF IsInjective
  <2>3. \A a \in 1 .. m - 1 : pending'[a] # p BY <1>3, <1>8, <2>1, <2>2
  <2>4. CASE i \in 1 .. m - 1 /\ j \in 1 .. m - 1
    <3>1. i + 1 = j + 1 BY <1>8, <2>1, <2>2, <2>4
    <3> QED BY <1>4, <2>4, <3>1
  <2> QED BY <1>9, <1>10, <2>3, <2>4
<1>13. WebhooksTypeOK'
  <2>1. processed' \subseteq Progress /\ refused' \subseteq Progress BY <1>1, <1>3, <1>7
  <2>2. sender' \in [row : Progress \cup {NoProgress}, answer : {"none", "ok", "refused"}] BY <1>2 DEF Idle
  <2> QED BY <1>2, <1>8, <1>12, <2>1, <2>2 DEF DeliveryInv, WebhooksTypeOK, Progress, Event
<1>14. OnlyWhatHappened'
  <2>1. \A i \in 1 .. m : pending[i][3] <= happened[pending[i][2]] BY <1>4 DEF DeliveryInv, OnlyWhatHappened
  <2>2. \A i \in 1 .. k : pending'[i][3] <= happened[pending'[i][2]] BY <1>11, <2>1
  <2> QED BY <1>2, <1>9, <2>2 DEF DeliveryInv, OnlyWhatHappened, Heard, Event
<1>15. SendsFirst' BY <1>2 DEF SendsFirst, Idle
<1>16. QueueInOrder'
  <2> SUFFICES ASSUME NEW i \in 1 .. k, NEW j \in 1 .. k, i < j,
                      pending'[i][1] = pending'[j][1], pending'[i][2] = pending'[j][2],
                      pending'[j][3] < pending'[i][3]
               PROVE  pending'[j] \in refused'
    BY <1>9 DEF QueueInOrder
  <2>1. CASE j \in 1 .. m - 1
    <3>1. i \in 1 .. m - 1 BY <1>4, <2>1
    <3>2. i + 1 \in 1 .. m /\ j + 1 \in 1 .. m /\ i + 1 < j + 1 BY <1>4, <2>1, <3>1
    <3>3. pending'[i] = pending[i + 1] /\ pending'[j] = pending[j + 1] BY <1>8, <2>1, <3>1
    <3>4. pending[j + 1] \in refused BY <1>4, <3>2, <3>3 DEF DeliveryInv, QueueInOrder
    <3> QED BY <1>7, <3>3, <3>4
  <2>2. CASE j = m /\ k = m BY <1>9, <2>2
  <2> QED BY <1>10, <2>1, <2>2
<1>17. ClosedIsHeard'
  <2> SUFFICES ASSUME NEW q \in processed' \ refused' PROVE Told(q) BY <1>2 DEF ClosedIsHeard, Told
  <2>1. CASE q \in processed \ refused BY <2>1 DEF DeliveryInv, ClosedIsHeard
  <2>2. CASE q \notin processed \ refused BY <1>3, <1>7, <2>2
  <2> QED BY <2>1, <2>2
<1>18. NotOvertaken'
  <2>0. received' = received BY <1>2
  <2> SUFFICES ASSUME NEW w \in Webhook, NEW r \in Ref, NEW e \in Event, NEW f \in Event, e < f,
                      Contains(pending', <<w, r, e>>) \/ <<w, r, e>> \in processed',
                      <<w, r, e>> \notin refused'
               PROVE  ~Before(<<w, r, f>>, <<w, r, e>>)
    BY <2>0 DEF NotOvertaken, Before, Event
  <2>1. <<w, r, e>> \notin refused BY <1>7
  <2>2. Contains(pending', <<w, r, e>>) => Contains(pending, <<w, r, e>>)
    BY <1>4, <1>9, <1>11 DEF Contains
  <2>3. 1 \in DOMAIN pending BY <1>4
  <2>4. Contains(pending, p) BY <1>3, <2>3 DEF Contains
  <2>5. <<w, r, e>> \in processed' => <<w, r, e>> \in processed \/ Contains(pending, <<w, r, e>>)
    BY <1>7, <2>4
  <2> QED BY <2>1, <2>2, <2>5 DEF DeliveryInv, NotOvertaken
<1> QED BY <1>13, <1>14, <1>15, <1>16, <1>17, <1>18 DEF DeliveryInv

\* What leaves the queue, the log and the client alone.
LEMMA OtherStep ==
  ASSUME DeliveryInv, UNCHANGED <<happened, tableVars, received>>,
         url' \in [Webhook -> {"none", "empty", "set"}], readable' \subseteq Ref,
         sender' \in [row : Progress \cup {NoProgress}, answer : {"none", "ok", "refused"}],
         SendsFirst'
  PROVE  DeliveryInv'
<1>1. UNCHANGED <<happened, pending, processed, refused, received>> BY DEF tableVars
<1>2. WebhooksTypeOK' BY <1>1 DEF DeliveryInv, WebhooksTypeOK, Progress, Event
<1>3. OnlyWhatHappened' BY <1>1 DEF DeliveryInv, OnlyWhatHappened, Heard, Event
<1>4. QueueInOrder' /\ ClosedIsHeard' BY <1>1 DEF DeliveryInv, QueueInOrder, ClosedIsHeard, Told
<1>5. NotOvertaken'
  <2>1. \A p, q \in Progress : Before(p, q)' <=> Before(p, q) BY <1>1 DEF Before
  <2>2. \A w \in Webhook, r \in Ref, e \in Event : <<w, r, e>> \in Progress BY DEF Progress
  <2> SUFFICES ASSUME NEW w \in Webhook, NEW r \in Ref, NEW e \in Event, NEW f \in Event, e < f,
                      Contains(pending, <<w, r, e>>) \/ <<w, r, e>> \in processed,
                      <<w, r, e>> \notin refused
               PROVE  ~Before(<<w, r, f>>, <<w, r, e>>)
    BY <1>1, <2>1, <2>2 DEF NotOvertaken, Event
  <2> QED BY DEF DeliveryInv, NotOvertaken
<1> QED BY <1>2, <1>3, <1>4, <1>5 DEF DeliveryInv

LEMMA DeliveryStep == DeliveryInv /\ [WebhooksNext]_vars => DeliveryInv'
<1> SUFFICES ASSUME DeliveryInv, [WebhooksNext]_vars PROVE DeliveryInv' OBVIOUS
<1> USE DEF tableVars
<1>0. /\ url \in [Webhook -> {"none", "empty", "set"}]
      /\ sender \in [row : Progress \cup {NoProgress}, answer : {"none", "ok", "refused"}]
      /\ pending \in Seq(Progress) /\ SendsFirst /\ readable \subseteq Ref
  BY DEF DeliveryInv, WebhooksTypeOK
<1>1. ASSUME NEW r \in Ref, insertWebhookProgress(r) PROVE DeliveryInv' BY <1>1, InsertStep
<1>2. ASSUME NEW w \in Webhook, SetUrl(w) PROVE DeliveryInv'
  <2>1. UNCHANGED <<happened, tableVars, received, readable, sender>> BY <1>2 DEF SetUrl
  <2>2. url' \in [Webhook -> {"none", "empty", "set"}] BY <1>0, <1>2 DEF SetUrl
  <2>3. SendsFirst' BY <1>0, <2>1 DEF SendsFirst, Told
  <2> QED BY <1>0, <2>1, <2>2, <2>3, OtherStep
<1>3. ASSUME SenderReads PROVE DeliveryInv'
  <2>1. /\ UNCHANGED <<url, happened, tableVars, received, readable>> /\ pending # <<>>
        /\ sender' = [row |-> pending[1], answer |-> "none"]
    BY <1>0, <1>3 DEF SenderReads, NextProgress, Idle
  <2>2. pending[1] \in Progress
    <3>1. 1 \in DOMAIN pending BY <1>0, <2>1
    <3> QED BY <1>0, <3>1
  <2>3. SendsFirst' BY <2>1 DEF SendsFirst
  <2> QED BY <1>0, <2>1, <2>2, <2>3, OtherStep
<1>4. ASSUME CallAnswered PROVE DeliveryInv'
  <2>1. /\ sender.row # NoProgress /\ Hears(sender.row)
        /\ sender' = [sender EXCEPT !.answer = "ok"]
        /\ UNCHANGED <<url, happened, pending, processed, refused, readable>>
    BY <1>4 DEF CallAnswered
  <2>2. /\ received' \in [Webhook -> Seq(Ref \X Event)]
        /\ OnlyWhatHappened' /\ ClosedIsHeard' /\ NotOvertaken'
        /\ Contains(received'[sender.row[1]], <<sender.row[2], sender.row[3]>>)
    BY <2>1, HearsStep
  <2>3. sender' \in [row : Progress \cup {NoProgress}, answer : {"none", "ok", "refused"}]
        /\ sender'.row = sender.row /\ sender'.answer = "ok"
    BY <1>0, <2>1
  <2>4. WebhooksTypeOK' BY <2>1, <2>2, <2>3 DEF DeliveryInv, WebhooksTypeOK, Progress, Event
  <2>5. SendsFirst' BY <1>0, <2>1, <2>2, <2>3 DEF SendsFirst, Told
  <2>6. QueueInOrder' BY <2>1 DEF DeliveryInv, QueueInOrder
  <2> QED BY <2>2, <2>4, <2>5, <2>6 DEF DeliveryInv
<1>5. ASSUME CallRefused PROVE DeliveryInv'
  <2>1. /\ sender.row # NoProgress /\ (Hears(sender.row) \/ UNCHANGED received)
        /\ sender' = [sender EXCEPT !.answer = "refused"]
        /\ UNCHANGED <<url, happened, pending, processed, refused, readable>>
    BY <1>5 DEF CallRefused
  <2>2. sender' \in [row : Progress \cup {NoProgress}, answer : {"none", "ok", "refused"}]
        /\ sender'.row = sender.row /\ sender'.answer = "refused"
    BY <1>0, <2>1
  <2>3. SendsFirst' BY <1>0, <2>1, <2>2 DEF SendsFirst
  <2>4. CASE UNCHANGED received BY <1>0, <2>1, <2>2, <2>3, <2>4, OtherStep
  <2>5. CASE Hears(sender.row)
    <3>1. /\ received' \in [Webhook -> Seq(Ref \X Event)]
          /\ OnlyWhatHappened' /\ ClosedIsHeard' /\ NotOvertaken'
      BY <2>1, <2>5, HearsStep
    <3>2. WebhooksTypeOK' BY <2>1, <2>2, <3>1 DEF DeliveryInv, WebhooksTypeOK, Progress, Event
    <3>3. QueueInOrder' BY <2>1 DEF DeliveryInv, QueueInOrder
    <3> QED BY <2>3, <3>1, <3>2, <3>3 DEF DeliveryInv
  <2> QED BY <2>1, <2>4, <2>5
<1>6. ASSUME SenderCommit PROVE DeliveryInv' BY <1>6, CommitStep
<1>7. ASSUME SenderSwallows \/ SenderCrash PROVE DeliveryInv'
  <2>1. /\ UNCHANGED <<url, happened, tableVars, received>> /\ readable' \in {readable, Ref}
        /\ sender' = [row |-> NoProgress, answer |-> "none"]
    BY <1>7 DEF SenderSwallows, SenderCrash, Idle
  <2>2. SendsFirst' BY <2>1 DEF SendsFirst
  <2> QED BY <1>0, <2>1, <2>2, OtherStep
<1>8. ASSUME UNCHANGED vars PROVE DeliveryInv'
  <2>1. UNCHANGED <<url, happened, tableVars, received, readable, sender>> BY <1>8 DEF vars
  <2>2. SendsFirst' BY <1>0, <2>1 DEF SendsFirst, Told
  <2> QED BY <1>0, <2>1, <2>2, OtherStep
<1>9. \/ \E r \in Ref : insertWebhookProgress(r)
      \/ \E w \in Webhook : SetUrl(w)
      \/ \E w \in Neglected : LoseUrl(w)
      \/ SenderReads \/ CallAnswered \/ CallRefused \/ SenderCommit \/ SenderSwallows \/ SenderCrash
      \/ UNCHANGED vars
  BY DEF WebhooksNext, WebhookProcessor
<1>10. ASSUME NEW w \in Neglected, LoseUrl(w) PROVE DeliveryInv'
  <2>1. UNCHANGED <<happened, tableVars, received, readable, sender>> BY <1>10 DEF LoseUrl
  <2>2. url' \in [Webhook -> {"none", "empty", "set"}] BY <1>0, <1>10 DEF LoseUrl
  <2>3. SendsFirst' BY <1>0, <2>1 DEF SendsFirst, Told
  <2> QED BY <1>0, <2>1, <2>2, <2>3, OtherStep
<1> QED BY <1>1, <1>2, <1>3, <1>4, <1>5, <1>6, <1>7, <1>8, <1>9, <1>10

LEMMA Delivery == WebhooksSpec => []DeliveryInv
BY DeliveryInit, DeliveryStep, PTL DEF WebhooksSpec

\* The tables, the worker and what the clients were told are well-formed, and no
\* row is queued twice: one row of webhook_progress for each event of a record and
\* webhook (insertWebhookProgress in wallet-core).
THEOREM WebhooksTypeCorrect == WebhooksSpec => []WebhooksTypeOK
<1>1. DeliveryInv => WebhooksTypeOK BY DEF DeliveryInv
<1> QED BY <1>1, Delivery, PTL

\* A client hears a later event of a record before an earlier one that it is also
\* owed only when the call of the earlier one was refused: the queue by updated_at
\* of WebhookProcessor._doProcess keeps the order whenever the worker dies, and
\* whichever update of a row fails.
THEOREM OvertakenOnlyAfterRefusal == WebhooksSpec => []ReorderedOnlyAfterRefusal
<1>1. DeliveryInv => ReorderedOnlyAfterRefusal
  BY DEF DeliveryInv, NotOvertaken, ReorderedOnlyAfterRefusal
<1> QED BY <1>1, Delivery, PTL
===============================================================================
