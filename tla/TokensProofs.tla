----------------------------- MODULE TokensProofs -----------------------------
(***************************************************************************)
(* The addresses that the services give out and the tokens that the        *)
(* processes know, for every number of services, processes, tokens and     *)
(* requests.                                                               *)
(***************************************************************************)
EXTENDS Tokens, FiniteSetTheorems, TLAPS

\* What a process reads when it starts, knows or lists is or was in the table.
KnownInv ==
  /\ Erc20Table \subseteq stored
  /\ DOMAIN loading = Process /\ DOMAIN known = Process
  /\ erc20 \in [Process -> [Token -> Nat]]
  /\ \A p \in Process : loading[p] \subseteq stored /\ known[p] \subseteq stored
  /\ \A p \in Process, t \in Token : erc20[p][t] > 0 => t \in stored

-----------------------------------------------------------------------------
LEMMA KnownInit == TokensInit => KnownInv
<1> SUFFICES ASSUME TokensInit PROVE KnownInv OBVIOUS
<1>1. DOMAIN db = {"wallet", "lower", "upper", "middle"} \X Currency BY DEF TokensInit, ServiceInit
<1>2. \A k \in DOMAIN db : k[1] # "erc20" BY <1>1
<1>3. Erc20Table = {} BY <1>2 DEF Erc20Table
<1> QED BY <1>3 DEF TokensInit, KnownInv

\* A request changes nothing in a process but its inbox.
LEMMA KnownRequest ==
  ASSUME KnownInv, stored' = stored \cup Erc20Table', UNCHANGED <<loading, erc20, known>>
  PROVE  KnownInv'
BY DEF KnownInv, Token, TokenRequest, Request

LEMMA KnownProcess ==
  ASSUME KnownInv, NEW p \in Process, ProcessStep(p)
  PROVE  KnownInv'
<1>1. Erc20Table' = Erc20Table /\ stored' = stored
  BY DEF ProcessStep, Load, Subscribe, onRedisMessage, findAndRegisterNewErc20Token, Exit, serviceVars, Erc20Table
<1>2. CASE Load(p) BY <1>1, <1>2 DEF Load, KnownInv
<1>3. CASE Subscribe(p)
  <2>1. /\ erc20' = [erc20 EXCEPT ![p] = [t \in Token |-> IF t \in loading[p] THEN 1 ELSE 0]]
        /\ known' = [known EXCEPT ![p] = loading[p]]
        /\ loading' = [loading EXCEPT ![p] = {}]
    BY <1>3 DEF Subscribe
  <2>2. erc20' \in [Process -> [Token -> Nat]] BY <2>1 DEF KnownInv
  <2>3. \A t \in Token : erc20'[p][t] > 0 => t \in stored BY <2>1 DEF KnownInv
  <2>4. \A q \in Process \ {p} : erc20'[q] = erc20[q] BY <2>1 DEF KnownInv
  <2> QED BY <1>1, <2>1, <2>2, <2>3, <2>4 DEF KnownInv
<1>4. CASE Exit(p)
  <2>1. /\ erc20' = [erc20 EXCEPT ![p] = [t \in Token |-> 0]]
        /\ known' = [known EXCEPT ![p] = {}]
        /\ loading' = [loading EXCEPT ![p] = {}]
    BY <1>4 DEF Exit
  <2> QED BY <1>1, <2>1 DEF KnownInv
<1>5. ASSUME NEW t, registerErc20Token(p, t), IsStored(t), loading' = loading PROVE KnownInv'
  <2>1. /\ erc20' = [erc20 EXCEPT ![p] = [erc20[p] EXCEPT ![t] = erc20[p][t] + 1]]
        /\ known' = [known EXCEPT ![p] = known[p] \cup {t}]
    BY <1>5 DEF registerErc20Token
  <2>2. t \in stored BY <1>5 DEF IsStored, KnownInv
  <2> DEFINE more == [erc20[p] EXCEPT ![t] = erc20[p][t] + 1]
  <2>3. more \in [Token -> Nat] /\ \A u \in Token \ {t} : more[u] = erc20[p][u]
    <3>1. erc20[p] \in [Token -> Nat] BY DEF KnownInv
    <3>2. CASE t \in Token
      <4>1. erc20[p][t] + 1 \in Nat BY <3>1, <3>2
      <4> QED BY <3>1, <4>1
    <3>3. CASE t \notin Token BY <3>1, <3>3
    <3> QED BY <3>2, <3>3
  <2>4. erc20' = [erc20 EXCEPT ![p] = more] BY <2>1
  <2> HIDE DEF more
  <2>5. erc20' \in [Process -> [Token -> Nat]] BY <2>4, <2>3 DEF KnownInv
  <2>6. \A u \in Token : erc20'[p][u] > 0 => u \in stored BY <2>4, <2>2, <2>3 DEF KnownInv
  <2>7. \A q \in Process \ {p} : erc20'[q] = erc20[q] BY <2>4 DEF KnownInv
  <2>8. \A q \in Process : known'[q] \subseteq stored BY <2>1, <2>2 DEF KnownInv
  <2> QED BY <1>1, <1>5, <2>1, <2>5, <2>6, <2>7, <2>8 DEF KnownInv
<1>6. ASSUME NEW t, loading' = loading,
             unregisterErc20Token(p, t) \/ unregisterBep20Token(p, t)
      PROVE  KnownInv'
  <2>1. known' = [known EXCEPT ![p] = known[p]] \/ known' = [known EXCEPT ![p] = known[p] \ {t}]
    BY <1>6 DEF unregisterErc20Token, unregisterBep20Token, unregisterCurrency
  <2>2. DOMAIN known' = Process /\ \A q \in Process : known'[q] \subseteq known[q] BY <2>1 DEF KnownInv
  <2>3. /\ erc20' \in [Process -> [Token -> Nat]]
        /\ \A q \in Process, u \in Token : erc20'[q][u] > 0 => erc20[q][u] > 0
    <3>1. CASE erc20' = erc20 BY <3>1 DEF KnownInv
    <3>2. CASE unregisterErc20Token(p, t)
      <4> DEFINE less == [erc20[p] EXCEPT ![t] = IF erc20[p][t] > 0 THEN erc20[p][t] - 1 ELSE 0]
      <4>1. erc20' = [erc20 EXCEPT ![p] = less] BY <3>2 DEF unregisterErc20Token
      <4>2. less \in [Token -> Nat] /\ \A u \in Token : less[u] > 0 => erc20[p][u] > 0
        <5>1. erc20[p] \in [Token -> Nat] BY DEF KnownInv
        <5>2. CASE t \in Token
          <6>1. (IF erc20[p][t] > 0 THEN erc20[p][t] - 1 ELSE 0) \in Nat BY <5>1, <5>2
          <6>2. (IF erc20[p][t] > 0 THEN erc20[p][t] - 1 ELSE 0) > 0 => erc20[p][t] > 0 BY <5>1, <5>2
          <6> QED BY <5>1, <5>2, <6>1, <6>2
        <5>3. CASE t \notin Token BY <5>1, <5>3
        <5> QED BY <5>2, <5>3
      <4> HIDE DEF less
      <4> QED BY <4>1, <4>2 DEF KnownInv
    <3> QED BY <1>6, <3>1, <3>2 DEF unregisterBep20Token
  <2> QED BY <1>1, <1>6, <2>2, <2>3 DEF KnownInv
<1>7. ASSUME UNCHANGED <<erc20, known, loading>> PROVE KnownInv' BY <1>1, <1>7 DEF KnownInv
<1>8. CASE onRedisMessage(p)
  BY <1>6, <1>7, <1>8 DEF onRedisMessage
<1>9. CASE findAndRegisterNewErc20Token(p)
  BY <1>5, <1>7, <1>9 DEF findAndRegisterNewErc20Token
<1> QED BY <1>2, <1>3, <1>4, <1>8, <1>9 DEF ProcessStep

LEMMA KnownNext == KnownInv /\ [TokensNext]_tokenVars => KnownInv'
<1> SUFFICES ASSUME KnownInv, [TokensNext]_tokenVars PROVE KnownInv' OBVIOUS
<1>1. ASSUME NEW q \in TokenRequest, TokenRequestStep(q), stored' = stored \cup Erc20Table' PROVE KnownInv'
  BY <1>1, KnownRequest DEF TokenRequestStep, processVars
<1>2. ASSUME NEW q \in Request, UNCHANGED processVars, stored' = stored \cup Erc20Table' PROVE KnownInv'
  BY <1>2, KnownRequest DEF processVars
<1>3. ASSUME NEW p \in Process, ProcessStep(p) PROVE KnownInv' BY <1>3, KnownProcess
<1>4. CASE UNCHANGED tokenVars
  <2>1. UNCHANGED <<db, stored, loading, erc20, known>> BY <1>4 DEF tokenVars, serviceVars, processVars
  <2>2. Erc20Table' = Erc20Table BY <2>1 DEF Erc20Table
  <2> QED BY <2>1, <2>2 DEF KnownInv
<1> QED BY <1>1, <1>2, <1>3, <1>4 DEF TokensNext

\* No process works with a token whose addition was never committed, although
\* addErc20 publishes it before the commit, the transaction may still fail, and
\* messages are lost or late (findAndRegisterNewErc20Token looks in the table).
THEOREM KnownWasCommitted == TokensSpec => []KnownTokensWereCommitted
<1>1. KnownInv => KnownTokensWereCommitted BY DEF KnownInv, KnownTokensWereCommitted
<1> QED BY <1>1, KnownInit, KnownNext, PTL DEF TokensSpec
-----------------------------------------------------------------------------
\* Addresses.  A cell is <<table, key...>>; an address is a tuple whose first
\* member says where it comes from.

IsDerived(a, c) == a = <<"hd", c, a[3], a[4]>> /\ a[4] \in Nat

\* What an address row says: an address of a platform with a seed is derived for
\* it, one of another platform is not derived.
AddressRow(k, c) ==
  IF c \in HdCurrency THEN k = addressCell(k[2]) /\ IsDerived(k[2], c) ELSE k[2][1] # "hd"

\* A row with value v, beside the cells that there are (or will be).
GoodRow(k, v, cells) ==
  /\ k[1] = "address" => AddressRow(k, v)
  /\ k[1] = "hot" /\ k[2] \in HdCurrency => addressCell(v) \in cells
  /\ k[1] = "erc20" => v \in Token

\* The indices of the addresses of a platform are below the next one.
IndicesCounted ==
  \A c \in HdCurrency :
    /\ IsFiniteSet(AddressesOf(c))
    /\ \A k \in AddressesOf(c) : k[2][4] < calIndex(Cardinality(AddressesOf(c)))

BaseCells == {"wallet", "lower", "upper", "middle"} \X Currency

DbInv ==
  /\ BaseCells \subseteq DOMAIN db
  /\ \A k \in DOMAIN db : GoodRow(k, db[k], DOMAIN db)
  /\ IndicesCounted

Transaction(q) ==
  [phase |-> tx[q].phase, put |-> tx[q].put, inserts |-> tx[q].inserts, del |-> tx[q].del, gives |-> tx[q].gives]

TxInv ==
  /\ asked \in Scenario
  /\ DOMAIN tx = Request
  /\ \A q \in Request :
       /\ tx[q] = Transaction(q)
       /\ tx[q].phase \in Phase
       /\ tx[q].phase # "none" => q \in asked
       /\ tx[q].inserts \subseteq DOMAIN tx[q].put

Active(q) == tx[q].phase \in {"open", "written", "answered"}
NewAddresses(q) == {k \in DOMAIN tx[q].put : k[1] = "address"}

\* What a transaction in progress will write.
WillWrite(q) ==
  /\ \A k \in DOMAIN tx[q].put : GoodRow(k, tx[q].put[k], DOMAIN tx[q].put \cup DOMAIN db)
  /\ NewAddresses(q) \subseteq tx[q].inserts \cup DOMAIN db
  /\ \A k \in tx[q].del : k[1] \in {"cold", "erc20", "balance"}
  /\ q.op # "createAddresses" => \A k \in NewAddresses(q) : tx[q].put[k] \notin HdCurrency

\* createAddresses only inserts, and counts what it inserts.
WillInsert(q) ==
  LET c == q.currency IN
  /\ IsFiniteSet(NewAddresses(q))
  /\ NewAddresses(q) \subseteq tx[q].inserts
  /\ \A k \in NewAddresses(q) :
       /\ tx[q].put[k] = c
       /\ k[2][4] < calIndex(Cardinality(AddressesOf(c)) + Cardinality(NewAddresses(q)))
  /\ \A a \in tx[q].gives : addressCell(a) \in tx[q].inserts

\* The addresses that are answered.
Gives(q) ==
  \A a \in tx[q].gives :
    \/ q.op = "createAddresses" /\ IsDerived(a, q.currency)
    \/ q.op = "createAdaAddresses" /\ a = <<"remote", q.id, a[3]>>

RequestInv ==
  \A q \in Request :
    /\ Active(q) => WillWrite(q) /\ (q.op = "createAddresses" => WillInsert(q))
    /\ Gives(q)
    /\ tx[q].phase = "done" /\ q.op = "createAddresses" =>
         \A a \in tx[q].gives : addressCell(a) \in DOMAIN db

\* The keys that are locked
LockInv ==
  /\ \A q \in LockHolders : tx[q].inserts \cap DOMAIN db = {}
  /\ \A q, r \in LockHolders : q # r => Locked(q) \cap Locked(r) = {}

DoneInv ==
  \A q, r \in Request :
    q # r /\ tx[q].phase = "done" /\ tx[r].phase = "done" => tx[q].gives \cap tx[r].gives = {}

ServiceInv == DbInv /\ TxInv /\ RequestInv /\ LockInv /\ DoneInv

-----------------------------------------------------------------------------
\* What requests want to write

\* A change that keeps the tables as DbInv says.
Rows(ch) == {k \in DOMAIN ch.put : k[1] = "address"}

ChangeGood(q, ch) ==
  /\ \A k \in DOMAIN ch.put : GoodRow(k, ch.put[k], DOMAIN ch.put \cup DOMAIN db)
  /\ \A k \in ch.del : k[1] \in {"cold", "erc20", "balance"}
  /\ q.op # "createAddresses" => \A k \in Rows(ch) : ch.put[k] \notin HdCurrency
  /\ q.op = "createAddresses" =>
       /\ IsFiniteSet(Rows(ch))
       /\ Rows(ch) \cap DOMAIN db = {}
       /\ \A k \in Rows(ch) :
            /\ ch.put[k] = q.currency
            /\ k[2][4] < calIndex(Cardinality(AddressesOf(q.currency)) + Cardinality(Rows(ch)))
       /\ \A a \in ch.gives : addressCell(a) \in Rows(ch)
  /\ \A a \in ch.gives :
       \/ q.op = "createAddresses" /\ IsDerived(a, q.currency)
       \/ q.op = "createAdaAddresses" /\ a = <<"remote", q.id, a[3]>>

\* Rows that are good beside the cells are good together.
Good(f, cells) == \A k \in DOMAIN f : GoodRow(k, f[k], cells)

LEMMA GoodOver ==
  ASSUME NEW f, NEW g, NEW cells, Good(f, cells), Good(g, cells)
  PROVE  Good(f ++ g, cells)
BY DEF Good, ++

LEMMA GoodCell ==
  ASSUME NEW k, NEW v, NEW cells, GoodRow(k, v, cells)
  PROVE  Good(k := v, cells)
BY DEF Good, :=

LEMMA GoodEmpty == \A cells : Good(<<>>, cells)
BY DEF Good

\* The rows of other tables are good whatever they say.
LEMMA GoodOther ==
  ASSUME NEW k, NEW v, NEW cells, k[1] \notin {"address", "hot", "erc20"}
  PROVE  GoodRow(k, v, cells)
BY DEF GoodRow

\* A derived address that is not below the next index is not in the table.
LEMMA NextIsFree ==
  ASSUME DbInv, NEW c \in HdCurrency, NEW seed, NEW i \in Nat,
         i >= calIndex(Cardinality(AddressesOf(c)))
  PROVE  addressCell(Derived(c, seed, i)) \notin DOMAIN db
<1> DEFINE k == addressCell(Derived(c, seed, i))
<1> SUFFICES ASSUME k \in DOMAIN db PROVE FALSE OBVIOUS
<1>1. k[1] = "address" /\ k[2] = <<"hd", c, seed, i>> BY DEF addressCell, Derived
<1> HIDE DEF k
<1>2. k[2][1] = "hd" /\ k[2][2] = c /\ k[2][4] = i BY <1>1
<1>3. AddressRow(k, db[k]) BY <1>1 DEF DbInv, GoodRow
<1>4. db[k] \in HdCurrency BY <1>2, <1>3 DEF AddressRow
<1>5. k[2] = <<"hd", db[k], k[2][3], k[2][4]>> BY <1>3, <1>4 DEF AddressRow, IsDerived
<1>6. k[2][2] = db[k] BY <1>5
<1>7. k \in AddressesOf(c) BY <1>1, <1>2, <1>6 DEF AddressesOf
<1>8. k[2][4] < calIndex(Cardinality(AddressesOf(c))) BY <1>7 DEF DbInv, IndicesCounted
<1>9. Cardinality(AddressesOf(c)) \in Nat BY FS_CardinalityType DEF DbInv, IndicesCounted
<1> QED BY <1>2, <1>8, <1>9 DEF calIndex

\* As many rows as indices
IndexRows(c, seed, a, n) == {addressCell(Derived(c, seed, i)) : i \in a .. a + n - 1}

LEMMA RowsOfIndices ==
  ASSUME NEW c, NEW seed, NEW a \in Nat, NEW n \in Nat
  PROVE  IsFiniteSet(IndexRows(c, seed, a, n)) /\ Cardinality(IndexRows(c, seed, a, n)) = n
<1> DEFINE S == a .. a + n - 1
           rows == IndexRows(c, seed, a, n)
           f == [i \in S |-> addressCell(Derived(c, seed, i))]
<1>1. f \in [S -> rows] BY DEF IndexRows
<1>2. \A i, j \in S : f[i] = f[j] => i = j
  <2> SUFFICES ASSUME NEW i \in S, NEW j \in S, f[i] = f[j] PROVE i = j OBVIOUS
  <2>1. Derived(c, seed, i) = Derived(c, seed, j) BY DEF addressCell
  <2> QED BY <2>1 DEF Derived
<1>3. \A k \in rows : \E i \in S : f[i] = k BY DEF IndexRows
<1>4. f \in Bijection(S, rows) BY <1>1, <1>2, <1>3 DEF Bijection, Injection, Surjection, IsInjective
<1>5. ExistsBijection(S, rows) BY <1>4 DEF ExistsBijection
<1>6. IsFiniteSet(S) /\ Cardinality(S) = n
  <2>1. a + n - 1 \in Int /\ a \in Int OBVIOUS
  <2>2. IsFiniteSet(S) /\ Cardinality(S) = IF a > a + n - 1 THEN 0 ELSE (a + n - 1) - a + 1 BY <2>1, FS_Interval
  <2> QED BY <2>2
<1> HIDE DEF S, rows
<1>7. IsFiniteSet(rows) /\ Cardinality(rows) = n BY <1>5, <1>6, FS_Bijection
<1> QED BY <1>7 DEF rows

\* createAddresses: the hot wallet that is there has its address row, so at most
\* the row of index 0 is added to those that follow the count.
LEMMA CreateGood ==
  ASSUME DbInv, NEW q \in Request, q.op = "createAddresses", NEW ch \in createAddresses(q)
  PROVE  ChangeGood(q, ch)
<1> DEFINE c == q.currency
           seed == findOrCreateWallet(q, c)
           first == Derived(c, seed, 0)
           own(h) == HotAddressRow(c, h[1], first)
           index(h) == calIndex(Cardinality(AddressesOf(c)) + Cardinality(DOMAIN own(h)))
           new(h) == {Derived(c, seed, i) : i \in index(h) .. index(h) + q.amount - 1}
           cellsOf(h) == {addressCell(a) : a \in new(h)}
<1>1. PICK h \in saveHotWallet(q, c, first) :
        ch = Change((<<"wallet", c>> := seed) ++ h[2] ++ own(h) ++ [k \in cellsOf(h) |-> c], {}, new(h))
  BY DEF createAddresses
<1> DEFINE ownh == own(h)
           n == index(h)
           newh == new(h)
           added == cellsOf(h)
           count == Cardinality(AddressesOf(c))
           cells == DOMAIN ch.put \cup DOMAIN db
<1>2. c \in HdCurrency /\ q.amount \in Nat BY WalletServiceAssumption
<1>3. count \in Nat BY <1>2, FS_CardinalityType DEF DbInv, IndicesCounted
<1>4. \/ ownh = <<>>
      \/ ownh = (addressCell(first) := c) /\ addressCell(first) \notin DOMAIN db
  <2>1. CASE RowsOf("hot", c) = {}
    <3>1. h[1] = first BY <1>1, <2>1 DEF saveHotWallet
    <3> QED BY <3>1 DEF HotAddressRow
  <2>2. CASE RowsOf("hot", c) # {}
    <3>1. PICK k \in RowsOf("hot", c) : h = <<db[k], <<>> >> BY <1>1, <2>2 DEF saveHotWallet
    <3>2. addressCell(db[k]) \in DOMAIN db BY <1>2 DEF RowsOf, DbInv, GoodRow
    <3> QED BY <3>1, <3>2 DEF HotAddressRow
  <2> QED BY <2>1, <2>2
<1>5. \/ h[2] = <<>>
      \/ h[2] = (<<"hot", c, q.id>> := first) /\ addressCell(first) \in DOMAIN ownh \cup DOMAIN db
  <2>1. CASE RowsOf("hot", c) = {}
    <3>1. h = <<first, <<"hot", c, q.id>> := first>> BY <1>1, <2>1 DEF saveHotWallet
    <3>2. addressCell(first) \in DOMAIN ownh \cup DOMAIN db BY <3>1 DEF HotAddressRow, :=
    <3> QED BY <3>1, <3>2
  <2>2. CASE RowsOf("hot", c) # {} BY <1>1, <2>2 DEF saveHotWallet
  <2> QED BY <2>1, <2>2
<1>6. DOMAIN ownh = {} \/ DOMAIN ownh = {addressCell(first)}
  <2> HIDE DEF ownh, first
  <2> QED BY <1>4 DEF :=
<1>7. Cardinality(DOMAIN ownh) \in {0, 1} /\ IsFiniteSet(DOMAIN ownh)
      /\ (DOMAIN ownh # {} => Cardinality(DOMAIN ownh) = 1)
  <2> HIDE DEF ownh, first
  <2> QED BY <1>6, FS_EmptySet, FS_Singleton
<1>8. n \in Nat /\ n = count + Cardinality(DOMAIN ownh) + 100 BY <1>3, <1>7 DEF calIndex
<1>9. added = IndexRows(c, seed, n, q.amount) BY DEF IndexRows
<1>10. IsFiniteSet(added) /\ Cardinality(added) = q.amount
  <2> HIDE DEF added, n, c, seed
  <2> QED BY <1>2, <1>8, <1>9, RowsOfIndices
<1>11. \A k \in added : \E i \in n .. n + q.amount - 1 : k = addressCell(Derived(c, seed, i)) OBVIOUS
<1>12. addressCell(first) \notin added
  <2> SUFFICES ASSUME addressCell(first) \in added PROVE FALSE OBVIOUS
  <2>1. PICK i \in n .. n + q.amount - 1 : addressCell(first) = addressCell(Derived(c, seed, i)) BY <1>11
  <2>2. first[4] = i BY <2>1 DEF addressCell, Derived
  <2>3. first[4] = 0 BY DEF Derived
  <2> QED BY <2>2, <2>3, <1>2, <1>3, <1>7, <1>8
<1> DEFINE put == (<<"wallet", c>> := seed) ++ h[2] ++ ownh ++ [k \in added |-> c]
<1>13. ch = [put |-> put, del |-> {}, gives |-> newh] BY <1>1 DEF Change
<1>14. DOMAIN put = {<<"wallet", c>>} \cup DOMAIN h[2] \cup DOMAIN ownh \cup added BY DEF ++, :=
<1>15. \A k \in DOMAIN ownh : ownh[k] = c BY <1>4 DEF :=
<1>16. \A k \in DOMAIN h[2] : k[1] = "hot" BY <1>5 DEF :=
<1>17. \A k \in added \cup DOMAIN ownh : k[1] = "address" BY <1>6, <1>11 DEF addressCell
<1>18. Rows(ch) = DOMAIN ownh \cup added
  <2> HIDE DEF put, ownh, added
  <2>1. <<"wallet", c>>[1] = "wallet" OBVIOUS
  <2> QED BY <1>13, <1>14, <1>16, <1>17, <2>1 DEF Rows
<1>19. \A k \in Rows(ch) : ch.put[k] = c
  <2>1. \A k \in DOMAIN ownh \cup added : k # <<"wallet", c>> /\ k \notin DOMAIN h[2] BY <1>16, <1>17
  <2>2. \A k \in DOMAIN ownh \cup added : put[k] = c
    <3> HIDE DEF ownh, added
    <3> QED BY <2>1, <1>15 DEF ++, :=
  <2> QED BY <1>13, <1>18, <2>2
<1>20. \A k \in Rows(ch) : \E i \in Nat :
          /\ k = addressCell(Derived(c, seed, i))
          /\ i < n + q.amount
          /\ i = 0 \/ i >= n
  <2>1. \A k \in DOMAIN ownh : k = addressCell(Derived(c, seed, 0)) BY <1>6
  <2>2. \A k \in added : \E i \in Nat : k = addressCell(Derived(c, seed, i)) /\ i < n + q.amount /\ i >= n
    BY <1>2, <1>8, <1>11
  <2> HIDE DEF ownh, added, n
  <2>3. 0 < n + q.amount BY <1>2, <1>3, <1>7, <1>8
  <2> QED BY <1>18, <2>1, <2>2, <2>3
<1>21. \A k \in Rows(ch) : GoodRow(k, c, cells)
  <2> SUFFICES ASSUME NEW k \in Rows(ch) PROVE GoodRow(k, c, cells) OBVIOUS
  <2>1. PICK i \in Nat : k = addressCell(Derived(c, seed, i)) BY <1>20
  <2> HIDE DEF cells, c, seed
  <2>2. k[1] = "address" /\ k[2] = <<"hd", c, seed, i>> /\ k = addressCell(k[2]) BY <2>1 DEF addressCell, Derived
  <2>3. IsDerived(k[2], c) BY <2>2 DEF IsDerived
  <2> QED BY <2>2, <2>3, <1>2 DEF GoodRow, AddressRow
<1>22. \A k \in DOMAIN ch.put : GoodRow(k, ch.put[k], cells)
  <2>1. CASE TRUE
    <3> SUFFICES ASSUME NEW k \in DOMAIN ch.put PROVE GoodRow(k, ch.put[k], cells) OBVIOUS
    <3>1. CASE k \in Rows(ch) BY <3>1, <1>19, <1>21
    <3>2. CASE k \notin Rows(ch)
      <4>1. k = <<"wallet", c>> \/ k \in DOMAIN h[2]
        <5> HIDE DEF ownh, added, put
        <5> QED BY <3>2, <1>13, <1>14, <1>18
      <4>2. CASE k = <<"wallet", c>>
        <5> HIDE DEF cells
        <5> QED BY <4>2 DEF GoodRow
      <4>3. CASE k \in DOMAIN h[2] /\ k # <<"wallet", c>>
        <5>1. h[2] = (<<"hot", c, q.id>> := first) /\ addressCell(first) \in DOMAIN ownh \cup DOMAIN db
          BY <4>3, <1>5
        <5>2. k = <<"hot", c, q.id>> BY <4>3, <5>1 DEF :=
        <5>3. ch.put[k] = first
          <6> HIDE DEF ownh, added, first
          <6> QED BY <4>3, <5>1, <5>2, <1>13 DEF ++, :=
        <5>4. addressCell(first) \in cells BY <5>1, <1>13, <1>14
        <5> HIDE DEF cells, first
        <5> QED BY <5>2, <5>3, <5>4 DEF GoodRow
      <4> QED BY <4>1, <4>2, <4>3
    <3> QED BY <3>1, <3>2
  <2> QED BY <2>1
<1>23. IsFiniteSet(Rows(ch)) /\ Cardinality(Rows(ch)) = Cardinality(DOMAIN ownh) + q.amount
  <2>1. DOMAIN ownh \cap added = {} BY <1>6, <1>12
  <2> HIDE DEF ownh, added
  <2>2. Cardinality(DOMAIN ownh \cap added) = 0 BY <2>1, FS_EmptySet
  <2>3. IsFiniteSet(DOMAIN ownh \cup added)
        /\ Cardinality(DOMAIN ownh \cup added) = Cardinality(DOMAIN ownh) + Cardinality(added) - Cardinality(DOMAIN ownh \cap added)
    BY <1>7, <1>10, FS_Union
  <2> QED BY <1>2, <1>7, <1>10, <1>18, <2>2, <2>3
<1>24. Rows(ch) \cap DOMAIN db = {}
  <2>1. \A k \in DOMAIN ownh : k \notin DOMAIN db BY <1>4 DEF :=
  <2>2. \A k \in added : k \notin DOMAIN db
    <3> SUFFICES ASSUME NEW k \in added PROVE k \notin DOMAIN db OBVIOUS
    <3>1. PICK i \in n .. n + q.amount - 1 : k = addressCell(Derived(c, seed, i)) BY <1>11
    <3>2. i \in Nat /\ i >= calIndex(count) BY <1>2, <1>3, <1>7, <1>8 DEF calIndex
    <3> HIDE DEF c, seed, n, added
    <3> QED BY <1>2, <3>1, <3>2, NextIsFree
  <2> HIDE DEF ownh, added
  <2> QED BY <1>18, <2>1, <2>2
<1>25. \A k \in Rows(ch) : k[2][4] < calIndex(count + Cardinality(Rows(ch)))
  <2> SUFFICES ASSUME NEW k \in Rows(ch) PROVE k[2][4] < calIndex(count + Cardinality(Rows(ch))) OBVIOUS
  <2>1. PICK i \in Nat : k = addressCell(Derived(c, seed, i)) /\ i < n + q.amount BY <1>20
  <2>2. k[2][4] = i BY <2>1 DEF addressCell, Derived
  <2> HIDE DEF n, count, ownh
  <2> QED BY <2>1, <2>2, <1>2, <1>3, <1>7, <1>8, <1>23 DEF calIndex
<1>26. \A a \in newh : addressCell(a) \in Rows(ch) /\ IsDerived(a, c)
  <2> SUFFICES ASSUME NEW a \in newh PROVE addressCell(a) \in Rows(ch) /\ IsDerived(a, c) OBVIOUS
  <2>1. PICK i \in n .. n + q.amount - 1 : a = Derived(c, seed, i) OBVIOUS
  <2>2. i \in Nat BY <1>2, <1>8
  <2>3. addressCell(a) \in added OBVIOUS
  <2> HIDE DEF added, c, seed, n
  <2> QED BY <2>1, <2>2, <2>3, <1>18 DEF Derived, IsDerived
<1>27. ch.del = {} /\ ch.gives = newh BY <1>13
<1> HIDE DEF newh, cells
<1> QED BY <1>19, <1>22, <1>23, <1>24, <1>25, <1>26, <1>27 DEF ChangeGood, cells

\* A change without addresses of platforms that have a seed.
LEMMA PlainGood ==
  ASSUME NEW q \in Request, q.op # "createAddresses", NEW ch,
         Good(ch.put, DOMAIN ch.put \cup DOMAIN db),
         \A k \in ch.del : k[1] \in {"cold", "erc20", "balance"},
         \A k \in DOMAIN ch.put : k[1] = "address" => ch.put[k] \notin HdCurrency,
         ch.gives = {} \/ (q.op = "createAdaAddresses" /\ \A a \in ch.gives : a = <<"remote", q.id, a[3]>>)
  PROVE  ChangeGood(q, ch)
BY DEF ChangeGood, Good, Rows

\* The tables whose rows may say anything.
OtherTable(f) == \A k \in DOMAIN f : k[1] \notin {"address", "hot", "erc20"}

LEMMA OtherTables ==
  /\ OtherTable(<<>>)
  /\ \A k, v : k[1] \notin {"address", "hot", "erc20"} => OtherTable(k := v)
  /\ \A f, g : OtherTable(f) /\ OtherTable(g) => OtherTable(f ++ g)
<1>1. OtherTable(<<>>) BY DEF OtherTable
<1>2. \A k, v : k[1] \notin {"address", "hot", "erc20"} => OtherTable(k := v) BY DEF OtherTable, :=
<1>3. \A f, g : OtherTable(f) /\ OtherTable(g) => OtherTable(f ++ g) BY DEF OtherTable, ++
<1> QED BY <1>1, <1>2, <1>3

LEMMA OtherTableGood ==
  ASSUME NEW q \in Request, q.op \notin {"createAddresses", "createAdaAddresses"}, NEW ch, OtherTable(ch.put),
         \A k \in ch.del : k[1] \in {"cold", "erc20", "balance"}, ch.gives = {}
  PROVE  ChangeGood(q, ch)
<1>1. Good(ch.put, DOMAIN ch.put \cup DOMAIN db) BY GoodOther DEF Good, OtherTable
<1> QED BY <1>1, PlainGood DEF OtherTable

\* One address of a platform, with its hot wallet
LEMMA GoodHere ==
  ASSUME NEW c \in Currency \ HdCurrency, NEW a, a[1] # "hd", NEW id, NEW cells
  PROVE  /\ Good(<<"hot", c, id>> := a, cells)
         /\ Good(addressCell(a) := c, cells)
<1>1. GoodRow(<<"hot", c, id>>, a, cells) BY DEF GoodRow
<1>2. GoodRow(addressCell(a), c, cells) BY DEF GoodRow, AddressRow, addressCell
<1> QED BY <1>1, <1>2, GoodCell

LEMMA AdaGood ==
  ASSUME NEW q \in Request, q.op = "createAdaAddresses", NEW ch \in createAdaAddresses(q)
  PROVE  ChangeGood(q, ch)
<1> DEFINE c == q.currency
           new == {createWalletAddress(q, n) : n \in 1 .. q.amount}
           rows == [k \in {addressCell(a) : a \in new} |-> c]
           account == findOrCreateWallet(q, c)
           receipt == createWalletAddress(q, 0)
<1>1. PICK wallet \in findOrCreateAdaWallet(q) : ch = Change(wallet ++ rows, {}, new)
  BY DEF createAdaAddresses
<1> DEFINE cells == DOMAIN ch.put \cup DOMAIN db
           made == IF RowsOf("receipt", c) # {} THEN <<>>
                   ELSE (<<"receipt", c, q.id>> := receipt) ++ (addressCell(receipt) := c)
<1>2. PICK h \in saveHotWallet(q, c, <<"account", account>>) : wallet = (<<"wallet", c>> := account) ++ h[2] ++ made
  BY <1>1 DEF findOrCreateAdaWallet
<1>3. c \in Currency \ HdCurrency BY WalletServiceAssumption
<1>4. \A a \in new : a = <<"remote", q.id, a[3]>> BY DEF createWalletAddress
<1>5. receipt[1] = "remote" BY DEF createWalletAddress
<1> DEFINE Plain(f) == Good(f, cells) /\ \A k \in DOMAIN f : k[1] = "address" => f[k] \notin HdCurrency
<1>6. ASSUME NEW f, NEW g, Plain(f), Plain(g) PROVE Plain(f ++ g)
  <2>1. Good(f ++ g, cells)
    <3> HIDE DEF cells
    <3> QED BY <1>6, GoodOver
  <2>2. \A k \in DOMAIN (f ++ g) : k[1] = "address" => (f ++ g)[k] \notin HdCurrency BY <1>6 DEF ++
  <2> QED BY <2>1, <2>2
<1>7. \A k, v : k[1] \notin {"address", "hot", "erc20"} => Plain(k := v)
  <2> SUFFICES ASSUME NEW k, NEW v, k[1] \notin {"address", "hot", "erc20"} PROVE Plain(k := v) OBVIOUS
  <2> HIDE DEF cells
  <2>1. Good(k := v, cells) BY GoodOther, GoodCell
  <2>2. \A l \in DOMAIN (k := v) : l = k BY DEF :=
  <2> QED BY <2>1, <2>2
<1>8. Plain(<<>>)
  <2> HIDE DEF cells
  <2> QED BY GoodEmpty
<1>9. Plain(h[2])
  <2>1. CASE RowsOf("hot", c) = {}
    <3> DEFINE a == <<"account", account>>
    <3>1. h[2] = (<<"hot", c, q.id>> := a) BY <1>2, <2>1 DEF saveHotWallet
    <3>2. a[1] # "hd" OBVIOUS
    <3> HIDE DEF cells, a
    <3>3. Good(h[2], cells) BY <1>3, <3>1, <3>2, GoodHere
    <3>4. \A k \in DOMAIN h[2] : k[1] = "hot" BY <3>1 DEF :=
    <3> QED BY <3>3, <3>4
  <2>2. CASE RowsOf("hot", c) # {}
    <3>1. h[2] = <<>> BY <1>2, <2>2 DEF saveHotWallet
    <3> QED BY <1>8, <3>1
  <2> QED BY <2>1, <2>2
<1>10. Plain(addressCell(receipt) := c)
  <2> HIDE DEF cells, receipt
  <2>1. Good(addressCell(receipt) := c, cells) BY <1>3, <1>5, GoodHere
  <2>2. \A k \in DOMAIN (addressCell(receipt) := c) : (addressCell(receipt) := c)[k] = c BY DEF :=
  <2> QED BY <1>3, <2>1, <2>2
<1>11. Plain(made)
  <2>1. Plain(<<"receipt", c, q.id>> := receipt) BY <1>7
  <2> HIDE DEF Plain, receipt
  <2> QED BY <1>6, <1>8, <1>10, <2>1
<1>12. Plain(rows)
  <2> SUFFICES ASSUME NEW k \in DOMAIN rows PROVE GoodRow(k, rows[k], cells) /\ rows[k] \notin HdCurrency
    BY DEF Good
  <2>1. PICK a \in new : k = addressCell(a) OBVIOUS
  <2>2. rows[k] = c OBVIOUS
  <2> HIDE DEF cells, new, rows
  <2>3. k[1] = "address" /\ k[2][1] = "remote" BY <1>4, <2>1 DEF addressCell
  <2> QED BY <1>3, <2>2, <2>3 DEF GoodRow, AddressRow
<1>13. Plain(ch.put)
  <2>1. Plain(<<"wallet", c>> := account) BY <1>7
  <2>2. ch.put = ((<<"wallet", c>> := account) ++ h[2] ++ made) ++ rows BY <1>1, <1>2 DEF Change
  <2> HIDE DEF Plain, made, rows
  <2> QED BY <1>6, <1>9, <1>11, <1>12, <2>1, <2>2
<1>14. ch.del = {} /\ ch.gives = new BY <1>1 DEF Change
<1> HIDE DEF new
<1> QED BY <1>4, <1>13, <1>14, PlainGood

LEMMA AddAddressGood ==
  ASSUME NEW q \in Request, q.op = "addAddress", NEW ch \in addAddressOneAddressCurrency(q)
  PROVE  ChangeGood(q, ch)
<1> DEFINE c == q.currency
           a == q.address
           hot == (<<"hot", c, q.id>> := a)
           row == (addressCell(a) := c)
           cells == DOMAIN ch.put \cup DOMAIN db
<1>1. ch = Change(hot ++ row, {}, {}) BY DEF addAddressOneAddressCurrency
<1>2. c \in Currency \ HdCurrency /\ a[1] # "hd" BY WalletServiceAssumption
<1>3. ch.put = hot ++ row /\ ch.del = {} /\ ch.gives = {} BY <1>1 DEF Change
<1>4. Good(hot, cells) /\ Good(row, cells)
  <2> HIDE DEF cells, a, c
  <2> QED BY <1>2, GoodHere
<1>5. \A k \in DOMAIN ch.put : k[1] = "address" => ch.put[k] \notin HdCurrency
  BY <1>2, <1>3 DEF ++, :=, addressCell
<1>6. Good(ch.put, cells)
  <2> HIDE DEF cells, hot, row
  <2> QED BY <1>3, <1>4, GoodOver
<1> QED BY <1>3, <1>5, <1>6, PlainGood

LEMMA ChangesGood ==
  ASSUME DbInv, NEW q \in Request \ TokenRequest, NEW ch \in Changes(q)
  PROVE  ChangeGood(q, ch)
<1> USE DEF Changes
<1>1. CASE q.op = "createAddresses" BY <1>1, CreateGood
<1>2. CASE q.op = "createAdaAddresses" BY <1>2, AdaGood
<1>3. CASE q.op = "addAddress" BY <1>3, AddAddressGood
<1>4. CASE q.op = "approveTransaction"
  <2>1. ch = Change(<<"withdrawal", q.currency, q.id>> := q.amount, {}, {}) BY <1>4 DEF approveTransaction
  <2>2. ch.put = (<<"withdrawal", q.currency, q.id>> := q.amount) /\ ch.del = {} /\ ch.gives = {} BY <2>1 DEF Change
  <2>3. <<"withdrawal", q.currency, q.id>>[1] = "withdrawal" OBVIOUS
  <2>4. OtherTable(ch.put) BY <2>2, <2>3, OtherTables
  <2> QED BY <1>4, <2>2, <2>4, OtherTableGood
<1>5. CASE q.op = "settingThreshold"
  <2>1. ch = Change(saveCurrencyThresholdInfo(q) ++ saveColdWallet(q) ++ upperThresholdHandle(q), {}, {})
    BY <1>5 DEF saveThreshold
  <2>2. OtherTable(saveCurrencyThresholdInfo(q))
    <3>1. /\ OtherTable(<<"upper", q.currency>> := q.upper)
          /\ OtherTable(<<"lower", q.currency>> := q.lower)
          /\ OtherTable(<<"middle", q.currency>> := MiddleOf(q.upper, q.lower))
      BY OtherTables
    <3> QED BY <3>1, OtherTables DEF saveCurrencyThresholdInfo
  <2>3. OtherTable(saveColdWallet(q)) BY OtherTables DEF saveColdWallet
  <2>4. OtherTable(upperThresholdHandle(q))
    <3> DEFINE c == q.currency
               v == OnChain[c] - findTotalAmountWithdrawlPending(c) - MiddleOf(q.upper, q.lower)
    <3>1. upperThresholdHandle(q) \in {<<>>, <<"sweep", c, q.id>> := v} BY DEF upperThresholdHandle
    <3>2. OtherTable(<<"sweep", c, q.id>> := v)
      <4> HIDE DEF v
      <4> QED BY OtherTables
    <3> HIDE DEF v
    <3> QED BY <3>1, <3>2, OtherTables
  <2>5. ch.put = saveCurrencyThresholdInfo(q) ++ saveColdWallet(q) ++ upperThresholdHandle(q) /\ ch.del = {} /\ ch.gives = {}
    BY <2>1 DEF Change
  <2>6. OtherTable(ch.put) BY <2>2, <2>3, <2>4, <2>5, OtherTables
  <2> QED BY <1>5, <2>5, <2>6, OtherTableGood
<1>6. CASE q.op = "resetSettingColdWallet"
  <2>1. ch.del = {<<"cold", q.currency>>} /\ ch.gives = {}
        /\ ch.put = [k \in {"lower", "upper", "middle"} \X {q.currency} |-> Null]
    BY <1>6 DEF resetSettingColdWallet, Change
  <2>2. OtherTable(ch.put) BY <2>1 DEF OtherTable
  <2> QED BY <1>6, <2>1, <2>2, OtherTableGood
<1>7. CASE q.op = "settingMailer"
  <2>1. ch.put = (<<"env", "MAIL_HOLDER_COLD_WALLET">> := q.id) /\ ch.del = {} /\ ch.gives = {}
    BY <1>7 DEF saveMailerReceive, Change
  <2>2. OtherTable(ch.put) BY <2>1, OtherTables
  <2> QED BY <1>7, <2>1, <2>2, OtherTableGood
<1>8. CASE q.op = "getSeed"
  <2>1. /\ ch.put = [k \in {k \in {"wallet"} \X HdCurrency : db[k] = NoSeed} |-> q.id]
        /\ ch.del = {} /\ ch.gives = {}
    BY <1>8 DEF saveSecret, Change
  <2>2. OtherTable(ch.put) BY <2>1 DEF OtherTable
  <2> QED BY <1>8, <2>1, <2>2, OtherTableGood
<1> QED BY <1>1, <1>2, <1>3, <1>4, <1>5, <1>6, <1>7, <1>8, TokensAssumption DEF ServiceOp

LEMMA TokenChangesGood ==
  ASSUME NEW q \in TokenRequest, NEW ch \in TokenChanges(q)
  PROVE  ChangeGood(q, ch)
<1>1. q \in Request /\ q.op \in {"addErc20", "deleteErc20"} /\ q.contract \in Token
  BY DEF TokenRequest, Token
<1>2. CASE q.op = "addErc20"
  <2> DEFINE row == (<<"erc20", q.symbol>> := q.contract)
             balance == IF RowsOf("balance", q.contract) # {} THEN <<>>
                        ELSE <<"balance", q.contract, q.id>> := Null
             cells == DOMAIN ch.put \cup DOMAIN db
  <2>1. ch.put = row ++ balance /\ ch.del = {} /\ ch.gives = {} BY <1>2 DEF TokenChanges, addErc20, Change
  <2>2. GoodRow(<<"erc20", q.symbol>>, q.contract, cells) BY <1>1 DEF GoodRow
  <2>3. OtherTable(balance) BY OtherTables
  <2>4. Good(row, cells) /\ Good(balance, cells)
    <3> HIDE DEF cells, balance
    <3> QED BY <2>2, <2>3, GoodCell, GoodOther DEF Good, OtherTable
  <2>5. \A k \in DOMAIN ch.put : k[1] # "address"
    <3> HIDE DEF balance
    <3> QED BY <2>1, <2>3 DEF OtherTable, ++, :=
  <2>6. Good(ch.put, cells)
    <3> HIDE DEF cells, row, balance
    <3> QED BY <2>1, <2>4, GoodOver
  <2> QED BY <1>1, <2>1, <2>5, <2>6, PlainGood
<1>3. CASE q.op = "deleteErc20"
  <2> DEFINE tokens == {k \in DOMAIN db : k[1] = "erc20" /\ db[k] = q.contract}
             balances == RowsOf("balance", q.contract)
  <2>1. PICK b \in IF balances = {} THEN {{}} ELSE {{k} : k \in balances} : ch = Change(<<>>, tokens \cup b, {})
    BY <1>3 DEF TokenChanges, deleteErc20
  <2>2. b \subseteq balances BY <2>1
  <2>3. ch.put = <<>> /\ ch.del = tokens \cup b /\ ch.gives = {} BY <2>1 DEF Change
  <2>4. \A k \in ch.del : k[1] \in {"cold", "erc20", "balance"} BY <2>2, <2>3 DEF RowsOf
  <2>5. OtherTable(ch.put) BY <2>3, OtherTables
  <2> QED BY <1>1, <1>3, <2>3, <2>4, <2>5, OtherTableGood
<1> QED BY <1>1, <1>2, <1>3

-----------------------------------------------------------------------------
\* The steps of a transaction

LEMMA ServiceInitInv == ServiceInit => ServiceInv
<1> SUFFICES ASSUME ServiceInit PROVE ServiceInv OBVIOUS
<1>1. db = [k \in BaseCells |-> Null] BY DEF ServiceInit, BaseCells
<1>2. DOMAIN db = BaseCells BY <1>1
<1>3. \A k \in DOMAIN db : k[1] \notin {"address", "hot", "erc20"} BY <1>2 DEF BaseCells
<1>4. DbInv
  <2>1. \A c : AddressesOf(c) = {} BY <1>3 DEF AddressesOf
  <2>2. IndicesCounted BY <2>1, FS_EmptySet DEF IndicesCounted
  <2>3. \A k \in DOMAIN db : GoodRow(k, db[k], DOMAIN db) BY <1>3, GoodOther
  <2> QED BY <1>2, <2>2, <2>3 DEF DbInv
<1>5. asked \in Scenario /\ tx = [q \in Request |-> Idle] BY DEF ServiceInit
<1>6. TxInv BY <1>5 DEF TxInv, Transaction, Idle, Phase
<1>7. \A q \in Request : tx[q].phase = "none" /\ tx[q].gives = {} BY <1>5 DEF Idle
<1> QED BY <1>4, <1>6, <1>7 DEF ServiceInv, RequestInv, Active, Gives, LockInv, LockHolders, DoneInv

LEMMA DbSame == ASSUME DbInv, db' = db PROVE DbInv'
BY DEF DbInv, GoodRow, AddressRow, addressCell, IsDerived, IndicesCounted, AddressesOf, BaseCells, Token, TokenRequest, Request

\* What is said of a transaction is about its record and the tables.
LEMMA SameRequest ==
  ASSUME NEW q \in Request, db' = db,
         tx'[q].put = tx[q].put, tx'[q].inserts = tx[q].inserts, tx'[q].del = tx[q].del, tx'[q].gives = tx[q].gives
  PROVE  /\ WillWrite(q) => WillWrite(q)'
         /\ WillInsert(q) => WillInsert(q)'
         /\ Gives(q) => Gives(q)'
<1>1. WillWrite(q) => WillWrite(q)'
  BY DEF WillWrite, NewAddresses, GoodRow, AddressRow, addressCell, IsDerived, Token, TokenRequest, Request
<1>2. AddressesOf(q.currency)' = AddressesOf(q.currency) /\ NewAddresses(q)' = NewAddresses(q)
  BY DEF AddressesOf, NewAddresses
<1>3. WillInsert(q) => WillInsert(q)' BY <1>2 DEF WillInsert, addressCell
<1>4. Gives(q) => Gives(q)' BY DEF Gives, IsDerived
<1> QED BY <1>1, <1>3, <1>4

\* A transaction goes on, and the tables are as they were.
LEMMA PhaseStep ==
  ASSUME ServiceInv, NEW q \in asked, NEW p \in Phase \ {"none", "done"},
         tx' = [tx EXCEPT ![q].phase = p], UNCHANGED <<db, asked>>,
         p \in {"open", "written", "answered"} => Active(q),
         p \in {"written", "answered"} /\ q \notin LockHolders =>
           /\ tx[q].inserts \cap DOMAIN db = {}
           /\ \A r \in LockHolders : Locked(q) \cap Locked(r) = {}
  PROVE  ServiceInv'
<1>1. q \in Request BY DEF Request, ServiceInv, TxInv
<1>2. /\ tx'[q] = [tx[q] EXCEPT !.phase = p]
      /\ \A r \in Request \ {q} : tx'[r] = tx[r]
      /\ DOMAIN tx' = Request
  BY <1>1 DEF ServiceInv, TxInv
<1>3. /\ tx'[q].phase = p /\ tx'[q].put = tx[q].put /\ tx'[q].inserts = tx[q].inserts
      /\ tx'[q].del = tx[q].del /\ tx'[q].gives = tx[q].gives
      /\ tx'[q] = [phase |-> p, put |-> tx[q].put, inserts |-> tx[q].inserts, del |-> tx[q].del, gives |-> tx[q].gives]
  <2>1. tx[q] = Transaction(q) BY <1>1 DEF ServiceInv, TxInv
  <2> QED BY <1>2, <2>1 DEF Transaction
<1>4. DbInv' BY DbSame DEF ServiceInv
<1>5. TxInv'
  <2> SUFFICES ASSUME NEW r \in Request
               PROVE  /\ tx'[r] = Transaction(r)' /\ tx'[r].phase \in Phase
                      /\ tx'[r].phase # "none" => r \in asked
                      /\ tx'[r].inserts \subseteq DOMAIN tx'[r].put
    BY <1>2 DEF ServiceInv, TxInv, Request
  <2>1. CASE r = q BY <1>1, <1>3, <2>1 DEF ServiceInv, TxInv, Transaction
  <2>2. CASE r # q BY <1>2, <2>2 DEF ServiceInv, TxInv, Transaction
  <2> QED BY <2>1, <2>2
<1>6. RequestInv'
  <2> SUFFICES ASSUME NEW r \in Request
               PROVE  /\ Active(r)' => WillWrite(r)' /\ (r.op = "createAddresses" => WillInsert(r)')
                      /\ Gives(r)'
                      /\ tx'[r].phase = "done" /\ r.op = "createAddresses" =>
                           \A a \in tx'[r].gives : addressCell(a) \in DOMAIN db'
    BY DEF RequestInv, Request, addressCell
  <2>1. /\ WillWrite(r) => WillWrite(r)'
        /\ WillInsert(r) => WillInsert(r)'
        /\ Gives(r) => Gives(r)'
    BY <1>2, <1>3, SameRequest
  <2>2. /\ Active(r) => WillWrite(r) /\ (r.op = "createAddresses" => WillInsert(r))
        /\ Gives(r)
        /\ tx[r].phase = "done" /\ r.op = "createAddresses" =>
             \A a \in tx[r].gives : addressCell(a) \in DOMAIN db
    BY DEF ServiceInv, RequestInv
  <2>3. Active(r)' => Active(r) BY <1>2, <1>3 DEF Active
  <2>4. tx'[r].phase = "done" => tx[r].phase = "done" /\ tx'[r].gives = tx[r].gives BY <1>2, <1>3
  <2> QED BY <2>1, <2>2, <2>3, <2>4
<1>7. /\ LockHolders' \subseteq LockHolders \cup {q}
      /\ q \in LockHolders' => p \in {"written", "answered"}
  BY <1>2, <1>3 DEF LockHolders, Request
<1>8. \A r \in Request : Locked(r)' = Locked(r) /\ tx'[r].inserts = tx[r].inserts
  BY <1>2, <1>3 DEF Locked
<1>9. LockInv'
  <2>1. LockInv BY DEF ServiceInv
  <2>2. LockHolders \subseteq Request BY DEF LockHolders
  <2>3. \A r \in LockHolders' : tx[r].inserts \cap DOMAIN db = {} BY <1>7, <2>1 DEF LockInv
  <2>4. \A r, s \in LockHolders' : r # s => Locked(r) \cap Locked(s) = {} BY <1>7, <2>1 DEF LockInv
  <2>5. LockHolders' \subseteq Request BY <1>1, <1>7, <2>2
  <2> QED BY <1>8, <2>3, <2>4, <2>5 DEF LockInv
<1>10. DoneInv'
  <2>1. \A r \in Request : tx'[r].phase = "done" => tx[r].phase = "done" /\ tx'[r].gives = tx[r].gives BY <1>2, <1>3
  <2> QED BY <2>1 DEF ServiceInv, DoneInv, Request
<1> QED BY <1>4, <1>5, <1>6, <1>9, <1>10 DEF ServiceInv

\* A transaction has read its snapshot.
LEMMA ReadStep ==
  ASSUME ServiceInv, NEW q \in Request, NEW changes, ReadsFor(q, changes),
         \A ch \in changes : ChangeGood(q, ch)
  PROVE  ServiceInv'
<1>1. q \in asked /\ tx[q] = Idle /\ UNCHANGED <<db, asked>> BY DEF ReadsFor
<1>2. CASE changes = {} /\ tx' = [tx EXCEPT ![q].phase = "failed"]
  <2> DEFINE p == "failed"
  <2>1. p \in Phase \ {"none", "done"} /\ p \notin {"open", "written", "answered"} BY DEF Phase
  <2>2. tx' = [tx EXCEPT ![q].phase = p] BY <1>2
  <2> HIDE DEF p
  <2> QED BY <1>1, <2>1, <2>2, PhaseStep
<1>3. ASSUME NEW ch \in changes, NEW put, put = Changed(ch.put),
             tx' = [tx EXCEPT ![q] = [phase |-> "open", put |-> put, inserts |-> DOMAIN put \ DOMAIN db,
                                      del |-> ch.del, gives |-> ch.gives]]
      PROVE  ServiceInv'
  <2>1. ChangeGood(q, ch) BY <1>3
  <2>2. /\ tx'[q] = [phase |-> "open", put |-> put, inserts |-> DOMAIN put \ DOMAIN db, del |-> ch.del, gives |-> ch.gives]
        /\ \A r \in Request \ {q} : tx'[r] = tx[r]
        /\ DOMAIN tx' = Request
    BY <1>3 DEF ServiceInv, TxInv
  <2>3. /\ tx'[q].phase = "open" /\ tx'[q].put = put /\ tx'[q].inserts = DOMAIN put \ DOMAIN db
        /\ tx'[q].del = ch.del /\ tx'[q].gives = ch.gives
    BY <2>2
  <2>4. /\ DOMAIN put = {k \in DOMAIN ch.put : k \in DOMAIN db => ch.put[k] # db[k]}
        /\ \A k \in DOMAIN put : put[k] = ch.put[k]
    BY <1>3 DEF Changed, Restrict
  <2>5. DOMAIN put \cup DOMAIN db = DOMAIN ch.put \cup DOMAIN db BY <2>4
  <2>6. DbInv' BY <1>1, DbSame DEF ServiceInv
  <2>7. TxInv'
    <3> SUFFICES ASSUME NEW r \in Request
                 PROVE  /\ tx'[r] = Transaction(r)' /\ tx'[r].phase \in Phase
                        /\ tx'[r].phase # "none" => r \in asked
                        /\ tx'[r].inserts \subseteq DOMAIN tx'[r].put
      BY <1>1, <2>2 DEF ServiceInv, TxInv, Request
    <3>1. CASE r = q BY <1>1, <2>2, <2>3, <3>1 DEF Transaction, Phase
    <3>2. CASE r # q BY <2>2, <3>2 DEF ServiceInv, TxInv, Transaction
    <3> QED BY <3>1, <3>2
  <2>8. NewAddresses(q)' = {k \in DOMAIN put : k[1] = "address"} BY <2>3 DEF NewAddresses
  <2>9. WillWrite(q)'
    <3>1. \A k \in DOMAIN put : GoodRow(k, put[k], DOMAIN put \cup DOMAIN db) BY <2>1, <2>4, <2>5 DEF ChangeGood
    <3>2. q.op # "createAddresses" => \A k \in NewAddresses(q)' : put[k] \notin HdCurrency
      BY <2>1, <2>4, <2>8 DEF ChangeGood, Rows
    <3>3. \A k \in ch.del : k[1] \in {"cold", "erc20", "balance"} BY <2>1 DEF ChangeGood
    <3>4. \A k \in DOMAIN tx'[q].put : GoodRow(k, tx'[q].put[k], DOMAIN tx'[q].put \cup DOMAIN db') BY <1>1, <2>3, <3>1
    <3>5. \A k \in DOMAIN tx'[q].put : GoodRow(k, tx[q].put[k], DOMAIN tx[q].put \cup DOMAIN db)'
      BY <3>4 DEF GoodRow, AddressRow, addressCell, IsDerived, Token, TokenRequest, Request
    <3>6. NewAddresses(q)' \subseteq tx'[q].inserts \cup DOMAIN db' BY <1>1, <2>3, <2>8
    <3> QED BY <2>3, <3>2, <3>3, <3>5, <3>6 DEF WillWrite
  <2>10. q.op = "createAddresses" => WillInsert(q)'
    <3> SUFFICES ASSUME q.op = "createAddresses" PROVE WillInsert(q)' OBVIOUS
    <3> DEFINE c == q.currency
    <3>1. /\ IsFiniteSet(Rows(ch))
          /\ Rows(ch) \cap DOMAIN db = {}
          /\ \A k \in Rows(ch) :
               /\ ch.put[k] = c
               /\ k[2][4] < calIndex(Cardinality(AddressesOf(c)) + Cardinality(Rows(ch)))
          /\ \A a \in ch.gives : addressCell(a) \in Rows(ch)
      BY <2>1 DEF ChangeGood
    <3>2. NewAddresses(q)' = Rows(ch) BY <2>4, <2>8, <3>1 DEF Rows
    <3>3. AddressesOf(c)' = AddressesOf(c) BY <1>1 DEF AddressesOf
    <3>4. Rows(ch) \subseteq DOMAIN put \ DOMAIN db BY <2>4, <3>1 DEF Rows
    <3>5. \A k \in Rows(ch) : put[k] = c BY <2>4, <3>1, <3>4
    <3>6. \A a \in ch.gives : <<"address", a>> \in DOMAIN put \ DOMAIN db BY <3>1, <3>4 DEF addressCell
    <3> QED BY <2>3, <3>1, <3>2, <3>3, <3>4, <3>5, <3>6 DEF WillInsert, calIndex, addressCell
  <2>11. Gives(q)' BY <2>1, <2>3 DEF Gives, ChangeGood, IsDerived
  <2>12. RequestInv'
    <3> SUFFICES ASSUME NEW r \in Request
                 PROVE  /\ Active(r)' => WillWrite(r)' /\ (r.op = "createAddresses" => WillInsert(r)')
                        /\ Gives(r)'
                        /\ tx'[r].phase = "done" /\ r.op = "createAddresses" =>
                             \A a \in tx'[r].gives : addressCell(a) \in DOMAIN db'
      BY DEF RequestInv, Request, addressCell
    <3>1. CASE r = q BY <2>3, <2>9, <2>10, <2>11, <3>1
    <3>2. CASE r # q
      <4>1. tx'[r] = tx[r] /\ db' = db BY <1>1, <2>2, <3>2
      <4>2. /\ WillWrite(r) => WillWrite(r)'
            /\ WillInsert(r) => WillInsert(r)'
            /\ Gives(r) => Gives(r)'
        BY <4>1, SameRequest
      <4>3. Active(r)' => Active(r) BY <4>1 DEF Active
      <4> QED BY <4>1, <4>2, <4>3 DEF ServiceInv, RequestInv
    <3> QED BY <3>1, <3>2
  <2>13. LockHolders' = LockHolders /\ q \notin LockHolders
    <3>1. q \notin LockHolders BY <1>1 DEF LockHolders, Idle
    <3>2. \A r \in Request : tx'[r].phase \in {"written", "answered"} <=> tx[r].phase \in {"written", "answered"}
      BY <1>1, <2>2, <2>3 DEF Idle
    <3> QED BY <3>1, <3>2 DEF LockHolders, Request
  <2>14. \A r \in LockHolders : Locked(r)' = Locked(r) /\ tx'[r].inserts = tx[r].inserts
    BY <2>2, <2>13 DEF Locked, LockHolders
  <2>15. LockInv' BY <1>1, <2>13, <2>14 DEF ServiceInv, LockInv
  <2>16. \A r \in Request : tx'[r].phase = "done" => r # q BY <2>3
  <2>17. DoneInv' BY <2>2, <2>16 DEF ServiceInv, DoneInv, Request
  <2> QED BY <2>6, <2>7, <2>12, <2>15, <2>17 DEF ServiceInv
<1> QED BY <1>2, <1>3 DEF ReadsFor

LEMMA WriteStep ==
  ASSUME ServiceInv, NEW q \in Request, Writes(q)
  PROVE  ServiceInv'
<1> DEFINE p == IF Duplicate(q) THEN "failed" ELSE "written"
<1>1. q \in asked /\ Active(q) BY DEF Writes, ServiceInv, TxInv, Active
<1>2. p \in Phase \ {"none", "done"} BY DEF Phase
<1>3. tx' = [tx EXCEPT ![q].phase = p] /\ UNCHANGED <<db, asked>> BY DEF Writes
<1>4. p = "written" => tx[q].inserts \cap DOMAIN db = {} BY DEF Duplicate
<1>5. p # "answered" OBVIOUS
<1>6. \A r \in LockHolders : Locked(q) \cap Locked(r) = {} BY DEF Writes
<1> HIDE DEF p
<1> QED BY <1>1, <1>2, <1>3, <1>4, <1>5, <1>6, PhaseStep

LEMMA AnswerStep ==
  ASSUME ServiceInv, NEW q \in Request, Answers(q)
  PROVE  ServiceInv'
<1> DEFINE p == "answered"
<1>1. q \in asked /\ Active(q) /\ q \in LockHolders BY DEF Answers, ServiceInv, TxInv, Active, LockHolders
<1>2. p \in Phase \ {"none", "done"} BY DEF Phase
<1>3. tx' = [tx EXCEPT ![q].phase = p] /\ UNCHANGED <<db, asked>> BY DEF Answers
<1> HIDE DEF p
<1> QED BY <1>1, <1>2, <1>3, PhaseStep

LEMMA AbortStep ==
  ASSUME ServiceInv, NEW q \in Request, Aborts(q)
  PROVE  ServiceInv'
<1> DEFINE p == IF tx[q].phase = "answered" THEN "lost" ELSE "failed"
<1>1. q \in asked BY DEF Aborts, ServiceInv, TxInv
<1>2. p \in Phase \ {"none", "done"} /\ p \notin {"open", "written", "answered"} BY DEF Phase
<1>3. tx' = [tx EXCEPT ![q].phase = p] /\ UNCHANGED <<db, asked>> BY DEF Aborts
<1> HIDE DEF p
<1> QED BY <1>1, <1>2, <1>3, PhaseStep

\* A commit: what is written has not been in the table if it was to be inserted,
\* so no two transactions insert one key, and the count keeps up with the indices.
LEMMA CommitStep ==
  ASSUME ServiceInv, NEW q \in Request, Commits(q)
  PROVE  ServiceInv'
<1> DEFINE put == Restrict(tx[q].put, DOMAIN tx[q].put \cap (DOMAIN db \cup tx[q].inserts))
<1>1. /\ tx[q].phase \in {"written", "answered"}
      /\ db' = Restrict(put ++ db, (DOMAIN put \cup DOMAIN db) \ tx[q].del)
      /\ tx' = [tx EXCEPT ![q].phase = "done"]
      /\ asked' = asked
  BY DEF Commits
<1>2. q \in asked /\ Active(q) /\ q \in LockHolders BY <1>1 DEF ServiceInv, TxInv, Active, LockHolders
<1>3. WillWrite(q) /\ (q.op = "createAddresses" => WillInsert(q)) /\ Gives(q)
  BY <1>2 DEF ServiceInv, RequestInv
<1>4. /\ tx[q].inserts \subseteq DOMAIN tx[q].put
      /\ tx[q].inserts \cap DOMAIN db = {}
  BY <1>2 DEF ServiceInv, TxInv, LockInv
<1>5. DOMAIN put = DOMAIN tx[q].put \cap (DOMAIN db \cup tx[q].inserts)
      /\ \A k \in DOMAIN put : put[k] = tx[q].put[k]
  BY DEF Restrict
<1>6. /\ DOMAIN db' = (DOMAIN put \cup DOMAIN db) \ tx[q].del
      /\ \A k \in DOMAIN db' : k \in DOMAIN put => db'[k] = tx[q].put[k]
      /\ \A k \in DOMAIN db' : k \notin DOMAIN put => k \in DOMAIN db /\ db'[k] = db[k]
  <2> HIDE DEF put
  <2>1. db' = [k \in (DOMAIN put \cup DOMAIN db) \ tx[q].del |-> (put ++ db)[k]] BY <1>1 DEF Restrict
  <2>2. DOMAIN db' = (DOMAIN put \cup DOMAIN db) \ tx[q].del BY <2>1
  <2>3. \A k \in DOMAIN db' : db'[k] = (put ++ db)[k] BY <2>1
  <2>4. \A k \in DOMAIN db' : db'[k] = IF k \in DOMAIN put THEN put[k] ELSE db[k]
    BY <2>2, <2>3 DEF ++
  <2> QED BY <1>5, <2>2, <2>4
<1> HIDE DEF put
<1>7. /\ tx'[q] = [phase |-> "done", put |-> tx[q].put, inserts |-> tx[q].inserts, del |-> tx[q].del, gives |-> tx[q].gives]
      /\ \A r \in Request \ {q} : tx'[r] = tx[r]
      /\ DOMAIN tx' = Request
  <2>1. tx[q] = Transaction(q) /\ DOMAIN tx = Request BY DEF ServiceInv, TxInv
  <2>2. tx'[q] = [tx[q] EXCEPT !.phase = "done"] /\ DOMAIN tx' = Request /\ \A r \in Request \ {q} : tx'[r] = tx[r]
    BY <1>1, <2>1
  <2> QED BY <2>1, <2>2 DEF Transaction
<1>8. /\ tx'[q].phase = "done" /\ tx'[q].put = tx[q].put /\ tx'[q].inserts = tx[q].inserts
      /\ tx'[q].gives = tx[q].gives
  BY <1>7
<1>9. \A k \in tx[q].del : k[1] \in {"cold", "erc20", "balance"} BY <1>3 DEF WillWrite
<1>10. \A k \in DOMAIN db : k[1] = "address" => k \in DOMAIN db' BY <1>6, <1>9
<1>11. \A k \in NewAddresses(q) : k \in DOMAIN put /\ k \in DOMAIN db'
  <2>1. \A k \in NewAddresses(q) : k \in DOMAIN put BY <1>3, <1>5 DEF WillWrite, NewAddresses
  <2> QED BY <2>1, <1>6, <1>9 DEF NewAddresses
<1>12. \A k \in DOMAIN db' : GoodRow(k, db'[k], DOMAIN db')
  <2> SUFFICES ASSUME NEW k \in DOMAIN db' PROVE GoodRow(k, db'[k], DOMAIN db') OBVIOUS
  <2>1. ASSUME NEW v, NEW cells, GoodRow(k, v, cells), cells \in {DOMAIN db, DOMAIN tx[q].put \cup DOMAIN db}
        PROVE  GoodRow(k, v, DOMAIN db')
    <3>1. ASSUME addressCell(v) \in cells PROVE addressCell(v) \in DOMAIN db'
      <4>1. addressCell(v)[1] = "address" BY DEF addressCell
      <4>2. CASE addressCell(v) \in DOMAIN db BY <1>10, <4>1, <4>2
      <4>3. CASE addressCell(v) \in DOMAIN tx[q].put BY <1>11, <4>1, <4>3 DEF NewAddresses
      <4> QED BY <2>1, <3>1, <4>2, <4>3
    <3> QED BY <2>1, <3>1 DEF GoodRow
  <2>2. CASE k \in DOMAIN put
    <3>1. GoodRow(k, tx[q].put[k], DOMAIN tx[q].put \cup DOMAIN db) BY <1>3, <1>5, <2>2 DEF WillWrite
    <3> QED BY <1>6, <2>1, <2>2, <3>1
  <2>3. CASE k \notin DOMAIN put
    <3>1. k \in DOMAIN db /\ db'[k] = db[k] BY <1>6, <2>3
    <3>2. GoodRow(k, db[k], DOMAIN db) BY <3>1 DEF ServiceInv, DbInv
    <3> QED BY <2>1, <3>1, <3>2
  <2> QED BY <2>2, <2>3
<1>13. BaseCells \subseteq DOMAIN db'
  <2>1. BaseCells \subseteq DOMAIN db BY DEF ServiceInv, DbInv
  <2>2. \A k \in BaseCells : k \notin tx[q].del BY <1>9 DEF BaseCells
  <2> QED BY <1>6, <2>1, <2>2
\* The addresses of a platform with a seed
<1>14. ASSUME NEW c \in HdCurrency, NEW k \in AddressesOf(c) PROVE k \in AddressesOf(c)' /\ k \notin tx[q].inserts
  <2>1. k \in DOMAIN db /\ k[1] = "address" /\ db[k] = c BY <1>14 DEF AddressesOf
  <2>2. AddressRow(k, c) BY <2>1 DEF ServiceInv, DbInv, GoodRow
  <2>3. k[2] = <<"hd", c, k[2][3], k[2][4]>> BY <1>14, <2>2 DEF AddressRow, IsDerived
  <2>4. k[2][1] = "hd" /\ k[2][2] = c BY <2>3
  <2>5. k \notin tx[q].inserts BY <1>4, <2>1
  <2>6. db'[k] = c
    <3>1. CASE k \in DOMAIN put
      <4>1. k \in NewAddresses(q) /\ AddressRow(k, tx[q].put[k])
        BY <1>3, <1>5, <2>1, <3>1 DEF NewAddresses, WillWrite, GoodRow
      <4>2. q.op # "createAddresses" BY <1>3, <2>5, <4>1 DEF WillInsert
      <4>3. tx[q].put[k] \notin HdCurrency BY <1>3, <4>1, <4>2 DEF WillWrite
      <4> QED BY <2>4, <4>1, <4>3 DEF AddressRow
    <3>2. CASE k \notin DOMAIN put BY <1>6, <1>10, <2>1, <3>2
    <3> QED BY <3>1, <3>2
  <2> QED BY <1>10, <2>1, <2>5, <2>6 DEF AddressesOf
<1>15. ASSUME NEW c \in HdCurrency
       PROVE  AddressesOf(c)' = AddressesOf(c) \cup IF q.op = "createAddresses" /\ c = q.currency THEN NewAddresses(q) ELSE {}
  <2>1. ASSUME NEW k \in AddressesOf(c)', k \notin AddressesOf(c)
        PROVE  q.op = "createAddresses" /\ c = q.currency /\ k \in NewAddresses(q)
    <3>1. k \in DOMAIN db' /\ k[1] = "address" /\ db'[k] = c BY <2>1 DEF AddressesOf
    <3>2. k \in DOMAIN put BY <1>6, <2>1, <3>1 DEF AddressesOf
    <3>3. k \in NewAddresses(q) /\ tx[q].put[k] = c BY <1>5, <1>6, <3>1, <3>2 DEF NewAddresses
    <3>4. q.op = "createAddresses" BY <1>3, <1>15, <3>3 DEF WillWrite
    <3> QED BY <1>3, <3>3, <3>4 DEF WillInsert
  <2>2. ASSUME NEW k \in NewAddresses(q), q.op = "createAddresses", c = q.currency PROVE k \in AddressesOf(c)'
    <3>1. k \in DOMAIN put /\ k \in DOMAIN db' BY <1>11, <2>2
    <3>2. db'[k] = c BY <1>3, <1>6, <2>2, <3>1 DEF WillInsert
    <3> QED BY <3>1, <3>2, <2>2 DEF AddressesOf, NewAddresses
  <2> QED BY <2>1, <2>2, <1>14, <1>15
<1>16. ASSUME NEW c \in HdCurrency
       PROVE  /\ IsFiniteSet(AddressesOf(c)')
              /\ Cardinality(AddressesOf(c)') \in Nat /\ Cardinality(AddressesOf(c)) \in Nat
              /\ Cardinality(AddressesOf(c)') >= Cardinality(AddressesOf(c))
              /\ q.op = "createAddresses" /\ c = q.currency =>
                   Cardinality(AddressesOf(c)') = Cardinality(AddressesOf(c)) + Cardinality(NewAddresses(q))
  <2>1. IsFiniteSet(AddressesOf(c)) BY <1>16 DEF ServiceInv, DbInv, IndicesCounted
  <2>2. Cardinality(AddressesOf(c)) \in Nat BY <2>1, FS_CardinalityType
  <2>3. CASE q.op = "createAddresses" /\ c = q.currency
    <3> DEFINE A == AddressesOf(c)  N == NewAddresses(q)
    <3>1. IsFiniteSet(N) BY <1>3, <2>3 DEF WillInsert
    <3>2. A \cap N = {} BY <1>3, <1>14, <1>16, <2>3 DEF WillInsert
    <3>3. AddressesOf(c)' = A \cup N BY <1>15, <1>16, <2>3
    <3>4. IsFiniteSet(A) /\ Cardinality(A) \in Nat BY <2>1, <2>2
    <3> HIDE DEF A, N
    <3>5. Cardinality(A \cap N) = 0 BY <3>2, FS_EmptySet
    <3>6. IsFiniteSet(A \cup N) /\ Cardinality(A \cup N) = Cardinality(A) + Cardinality(N) - Cardinality(A \cap N)
      BY <3>1, <3>4, FS_Union
    <3>7. Cardinality(N) \in Nat BY <3>1, FS_CardinalityType
    <3>8. Cardinality(A \cup N) = Cardinality(A) + Cardinality(N) BY <3>4, <3>5, <3>6, <3>7
    <3>9. IsFiniteSet(AddressesOf(c)') /\ Cardinality(AddressesOf(c)') = Cardinality(A) + Cardinality(N)
      BY <3>3, <3>6, <3>8
    <3> QED BY <3>4, <3>7, <3>9 DEF A, N
  <2>4. CASE ~(q.op = "createAddresses" /\ c = q.currency)
    <3>1. AddressesOf(c)' = AddressesOf(c) BY <1>15, <1>16, <2>4
    <3> QED BY <2>1, <2>2, <2>4, <3>1
  <2> QED BY <2>3, <2>4
<1>17. IndicesCounted'
  <2> SUFFICES ASSUME NEW c \in HdCurrency
               PROVE  /\ IsFiniteSet(AddressesOf(c)')
                      /\ \A k \in AddressesOf(c)' : k[2][4] < calIndex(Cardinality(AddressesOf(c)'))
    BY DEF IndicesCounted, calIndex
  <2> SUFFICES ASSUME NEW k \in AddressesOf(c)' PROVE k[2][4] < calIndex(Cardinality(AddressesOf(c)'))
    BY <1>16
  <2> DEFINE i == k[2][4]
  <2>1. i \in Nat
    <3>1. k \in DOMAIN db' /\ k[1] = "address" /\ db'[k] = c BY DEF AddressesOf
    <3>2. GoodRow(k, db'[k], DOMAIN db') BY <1>12, <3>1
    <3> QED BY <3>1, <3>2 DEF GoodRow, AddressRow, IsDerived
  <2>2. CASE k \in AddressesOf(c)
    <3>1. i < calIndex(Cardinality(AddressesOf(c))) BY <2>2 DEF ServiceInv, DbInv, IndicesCounted
    <3>2. Cardinality(AddressesOf(c)') \in Nat /\ Cardinality(AddressesOf(c)) \in Nat
          /\ Cardinality(AddressesOf(c)') >= Cardinality(AddressesOf(c))
      BY <1>16
    <3> HIDE DEF i
    <3>3. i < calIndex(Cardinality(AddressesOf(c)')) BY <2>1, <3>1, <3>2 DEF calIndex
    <3> QED BY <3>3 DEF i
  <2>3. CASE k \notin AddressesOf(c)
    <3>1. q.op = "createAddresses" /\ c = q.currency /\ k \in NewAddresses(q) BY <1>15, <2>3
    <3>2. i < calIndex(Cardinality(AddressesOf(c)) + Cardinality(NewAddresses(q))) BY <1>3, <3>1 DEF WillInsert
    <3>3. Cardinality(AddressesOf(c)') = Cardinality(AddressesOf(c)) + Cardinality(NewAddresses(q)) BY <1>16, <3>1
    <3> HIDE DEF i
    <3>4. i < calIndex(Cardinality(AddressesOf(c)')) BY <3>2, <3>3
    <3> QED BY <3>4 DEF i
  <2> QED BY <2>2, <2>3
<1>18. DbInv'
  <2>1. BaseCells' = BaseCells BY DEF BaseCells
  <2>2. \A k \in DOMAIN db' : GoodRow(k, db[k], DOMAIN db)'
    BY <1>12 DEF GoodRow, AddressRow, addressCell, IsDerived, Token, TokenRequest, Request
  <2> QED BY <1>13, <1>17, <2>1, <2>2 DEF DbInv
<1>19. TxInv'
  <2> SUFFICES ASSUME NEW r \in Request
               PROVE  /\ tx'[r] = Transaction(r)' /\ tx'[r].phase \in Phase
                      /\ tx'[r].phase # "none" => r \in asked
                      /\ tx'[r].inserts \subseteq DOMAIN tx'[r].put
    BY <1>1, <1>7 DEF ServiceInv, TxInv, Request
  <2>1. CASE r = q BY <1>2, <1>4, <1>7, <1>8, <2>1 DEF Transaction, Phase
  <2>2. CASE r # q BY <1>7, <2>2 DEF ServiceInv, TxInv, Transaction
  <2> QED BY <2>1, <2>2
<1>20. ASSUME NEW r \in Request \ {q}, WillWrite(r) PROVE WillWrite(r)'
  <2>1. tx'[r] = tx[r] BY <1>7
  <2>2. \A k \in DOMAIN tx[r].put : GoodRow(k, tx[r].put[k], DOMAIN tx[r].put \cup DOMAIN db') 
    <3> SUFFICES ASSUME NEW k \in DOMAIN tx[r].put PROVE GoodRow(k, tx[r].put[k], DOMAIN tx[r].put \cup DOMAIN db') OBVIOUS
    <3> DEFINE v == tx[r].put[k]
    <3>1. GoodRow(k, v, DOMAIN tx[r].put \cup DOMAIN db) BY <1>20 DEF WillWrite
    <3>2. addressCell(v)[1] = "address" BY DEF addressCell
    <3>3. addressCell(v) \in DOMAIN tx[r].put \cup DOMAIN db => addressCell(v) \in DOMAIN tx[r].put \cup DOMAIN db'
      BY <1>10, <3>2
    <3> HIDE DEF v
    <3>4. GoodRow(k, v, DOMAIN tx[r].put \cup DOMAIN db') BY <3>1, <3>3 DEF GoodRow
    <3> QED BY <3>4 DEF v
  <2>3. \A k \in DOMAIN tx'[r].put : GoodRow(k, tx[r].put[k], DOMAIN tx[r].put \cup DOMAIN db)'
    BY <2>1, <2>2 DEF GoodRow, AddressRow, addressCell, IsDerived, Token, TokenRequest, Request
  <2>4. NewAddresses(r)' = NewAddresses(r) BY <2>1 DEF NewAddresses
  <2>5. NewAddresses(r)' \subseteq tx'[r].inserts \cup DOMAIN db'
    BY <1>10, <1>20, <2>1, <2>4 DEF WillWrite, NewAddresses
  <2> QED BY <1>20, <2>1, <2>3, <2>4, <2>5 DEF WillWrite
<1>21. ASSUME NEW r \in Request \ {q}, r.op = "createAddresses", WillWrite(r), WillInsert(r) PROVE WillInsert(r)'
  <2> DEFINE c == r.currency
  <2>1. tx'[r] = tx[r] /\ NewAddresses(r)' = NewAddresses(r) BY <1>7 DEF NewAddresses
  <2>2. c \in HdCurrency BY <1>21, WalletServiceAssumption
  <2>3. Cardinality(AddressesOf(c)') \in Nat /\ Cardinality(AddressesOf(c)) \in Nat
        /\ Cardinality(AddressesOf(c)') >= Cardinality(AddressesOf(c))
    BY <1>16, <2>2
  <2>4. IsFiniteSet(NewAddresses(r)) BY <1>21 DEF WillInsert
  <2>5. Cardinality(NewAddresses(r)) \in Nat BY <2>4, FS_CardinalityType
  <2>6. \A k \in NewAddresses(r) : k[2][4] < calIndex(Cardinality(AddressesOf(c)') + Cardinality(NewAddresses(r)))
    <3> SUFFICES ASSUME NEW k \in NewAddresses(r)
                 PROVE  k[2][4] < calIndex(Cardinality(AddressesOf(c)') + Cardinality(NewAddresses(r)))
      OBVIOUS
    <3> DEFINE i == k[2][4]
    <3>2. i < calIndex(Cardinality(AddressesOf(c)) + Cardinality(NewAddresses(r))) BY <1>21 DEF WillInsert
    <3>3. i \in Nat
      <4>1. tx[r].put[k] = c /\ k[1] = "address" /\ k \in DOMAIN tx[r].put BY <1>21 DEF WillInsert, NewAddresses
      <4>2. AddressRow(k, c) BY <1>21, <4>1 DEF WillWrite, GoodRow
      <4> QED BY <2>2, <4>2 DEF AddressRow, IsDerived
    <3> HIDE DEF i
    <3>4. i < calIndex(Cardinality(AddressesOf(c)') + Cardinality(NewAddresses(r)))
      BY <2>3, <2>5, <3>2, <3>3 DEF calIndex
    <3> QED BY <3>4 DEF i
  <2> QED BY <1>21, <2>1, <2>6 DEF WillInsert, calIndex, addressCell
<1>22. RequestInv'
  <2> SUFFICES ASSUME NEW r \in Request
               PROVE  /\ Active(r)' => WillWrite(r)' /\ (r.op = "createAddresses" => WillInsert(r)')
                      /\ Gives(r)'
                      /\ tx'[r].phase = "done" /\ r.op = "createAddresses" =>
                           \A a \in tx'[r].gives : addressCell(a) \in DOMAIN db'
    BY DEF RequestInv, Request, addressCell
  <2>1. CASE r = q
    <3>1. ~Active(r)' BY <1>8, <2>1 DEF Active
    <3>2. Gives(r)' BY <1>3, <1>8, <2>1 DEF Gives, IsDerived
    <3>3. ASSUME r.op = "createAddresses", NEW a \in tx[q].gives PROVE addressCell(a) \in DOMAIN db'
      <4>1. addressCell(a) \in tx[q].inserts BY <1>3, <2>1, <3>3 DEF WillInsert
      <4>2. addressCell(a)[1] = "address" BY DEF addressCell
      <4>3. addressCell(a) \in NewAddresses(q) BY <1>4, <4>1, <4>2 DEF NewAddresses
      <4> QED BY <1>11, <4>3
    <3> QED BY <1>8, <2>1, <3>1, <3>2, <3>3
  <2>2. CASE r # q
    <3>1. tx'[r] = tx[r] BY <1>7, <2>2
    <3>2. Active(r)' => Active(r) BY <3>1 DEF Active
    <3>3. Active(r) => WillWrite(r) /\ (r.op = "createAddresses" => WillInsert(r)) BY DEF ServiceInv, RequestInv
    <3>4. Gives(r)' BY <3>1 DEF ServiceInv, RequestInv, Gives, IsDerived
    <3>5. tx[r].phase = "done" /\ r.op = "createAddresses" => \A a \in tx[r].gives : addressCell(a) \in DOMAIN db
      BY DEF ServiceInv, RequestInv
    <3>6. \A a : addressCell(a) \in DOMAIN db => addressCell(a) \in DOMAIN db' BY <1>10 DEF addressCell
    <3> QED BY <1>20, <1>21, <2>2, <3>1, <3>2, <3>3, <3>4, <3>5, <3>6
  <2> QED BY <2>1, <2>2
<1>23. LockInv'
  <2>1. \A r \in LockHolders' : r \in LockHolders /\ r # q /\ r \in Request BY <1>7, <1>8 DEF LockHolders, Request
  <2>2. \A r \in LockHolders' : Locked(r)' = Locked(r) /\ tx'[r].inserts = tx[r].inserts BY <1>7, <2>1 DEF Locked
  <2>3. ASSUME NEW r \in LockHolders' PROVE tx[r].inserts \cap DOMAIN db' = {}
    <3>1. Locked(q) \cap Locked(r) = {} /\ tx[r].inserts \cap DOMAIN db = {} BY <1>2, <2>1 DEF ServiceInv, LockInv
    <3>2. tx[r].inserts \subseteq Locked(r) BY <2>1 DEF ServiceInv, TxInv, Locked
    <3>3. DOMAIN put \subseteq Locked(q) BY <1>5 DEF Locked
    <3> QED BY <1>6, <3>1, <3>2, <3>3
  <2>4. \A r, s \in LockHolders' : r # s => Locked(r) \cap Locked(s) = {} BY <2>1 DEF ServiceInv, LockInv
  <2> QED BY <2>2, <2>3, <2>4 DEF LockInv
<1>24. DoneInv'
  <2>1. ASSUME NEW r \in Request \ {q}, tx[r].phase = "done" PROVE tx[q].gives \cap tx[r].gives = {}
    <3> SUFFICES ASSUME NEW a \in tx[q].gives \cap tx[r].gives PROVE FALSE OBVIOUS
    <3>1. Gives(r) BY DEF ServiceInv, RequestInv
    <3>2. r \in asked BY <2>1 DEF ServiceInv, TxInv
    <3>3. q.id # r.id BY <1>2, <2>1, <3>2, WalletServiceAssumption DEF ServiceInv, TxInv
    <3>4. CASE q.op = "createAddresses" /\ r.op = "createAddresses"
      <4>1. addressCell(a) \in DOMAIN db BY <2>1, <3>4 DEF ServiceInv, RequestInv
      <4>2. addressCell(a) \in tx[q].inserts BY <1>3, <3>4 DEF WillInsert
      <4> QED BY <1>4, <4>1, <4>2
    <3>5. q.op = "createAddresses" => a[1] = "hd" BY <1>3 DEF Gives, IsDerived
    <3>6. r.op = "createAddresses" => a[1] = "hd" BY <3>1 DEF Gives, IsDerived
    <3>7. q.op # "createAddresses" => a[1] = "remote" /\ a[2] = q.id BY <1>3 DEF Gives
    <3>8. r.op # "createAddresses" => a[1] = "remote" /\ a[2] = r.id BY <3>1 DEF Gives
    <3> QED BY <3>3, <3>4, <3>5, <3>6, <3>7, <3>8
  <2>2. \A r \in Request : tx'[r].gives = tx[r].gives /\ (tx'[r].phase = "done" /\ r # q => tx[r].phase = "done")
    BY <1>7, <1>8
  <2>3. \A r, s \in Request : r # s /\ r # q /\ s # q /\ tx[r].phase = "done" /\ tx[s].phase = "done" =>
          tx[r].gives \cap tx[s].gives = {}
    BY DEF ServiceInv, DoneInv
  <2>4. \A r, s \in Request : r # s /\ tx'[r].phase = "done" /\ tx'[s].phase = "done" =>
          tx[r].gives \cap tx[s].gives = {}
    BY <2>1, <2>2, <2>3
  <2> QED BY <2>2, <2>4 DEF DoneInv, Request
<1> QED BY <1>18, <1>19, <1>22, <1>23, <1>24 DEF ServiceInv

LEMMA ServiceStepInv ==
  ASSUME ServiceInv, NEW q \in Request,
         \/ q \notin TokenRequest /\ ServiceStep(q)
         \/ q \in TokenRequest /\ TokenRequestStep(q)
  PROVE  ServiceInv'
<1>1. CASE q \notin TokenRequest /\ Reads(q) BY <1>1, ReadStep, ChangesGood DEF Reads, ServiceInv
<1>2. CASE q \in TokenRequest /\ ReadsFor(q, TokenChanges(q)) BY <1>2, ReadStep, TokenChangesGood
<1> QED BY <1>1, <1>2, WriteStep, AnswerStep, CommitStep, AbortStep DEF ServiceStep, TokenRequestStep

LEMMA ServiceSame == ASSUME ServiceInv, UNCHANGED serviceVars PROVE ServiceInv'
<1>1. db' = db /\ asked' = asked /\ tx' = tx BY DEF serviceVars
<1>2. DbInv' BY <1>1, DbSame DEF ServiceInv
<1>3. TxInv' BY <1>1 DEF ServiceInv, TxInv, Transaction, Request
<1>4. \A q \in Request : /\ WillWrite(q) => WillWrite(q)'
                         /\ WillInsert(q) => WillInsert(q)'
                         /\ Gives(q) => Gives(q)'
                         /\ Active(q)' = Active(q)
  BY <1>1, SameRequest DEF Active
<1>5. RequestInv'
  <2>1. \A q \in Request :
          /\ Active(q)' => WillWrite(q)' /\ (q.op = "createAddresses" => WillInsert(q)')
          /\ Gives(q)'
          /\ tx'[q].phase = "done" /\ q.op = "createAddresses" =>
               \A a \in tx'[q].gives : addressCell(a) \in DOMAIN db'
    BY <1>1, <1>4 DEF ServiceInv, RequestInv
  <2> QED BY <2>1 DEF RequestInv, Request, addressCell
<1>6. LockInv' /\ DoneInv' BY <1>1 DEF ServiceInv, LockInv, DoneInv, LockHolders, Locked, Request
<1> QED BY <1>2, <1>3, <1>5, <1>6 DEF ServiceInv

\* The answers that two requests are about to commit, or have committed, differ.
LEMMA ServedOnce == ServiceInv => NoAddressServedTwice
<1> SUFFICES ASSUME ServiceInv, NEW q \in Request, NEW r \in Request, q # r,
                    tx[q].phase \in {"written", "answered", "done"},
                    tx[r].phase \in {"written", "answered", "done"},
                    NEW a \in tx[q].gives \cap tx[r].gives
             PROVE  FALSE
  BY DEF NoAddressServedTwice
<1>1. Gives(q) /\ Gives(r) BY DEF ServiceInv, RequestInv
<1>2. q \in asked /\ r \in asked /\ asked \in Scenario BY DEF ServiceInv, TxInv
<1>3. q.id # r.id BY <1>2, WalletServiceAssumption
<1>4. ~(tx[q].phase = "done" /\ tx[r].phase = "done") BY DEF ServiceInv, DoneInv
<1>5. q.op = "createAddresses" <=> a[1] = "hd" BY <1>1 DEF Gives, IsDerived
<1>6. r.op = "createAddresses" <=> a[1] = "hd" BY <1>1 DEF Gives, IsDerived
<1>7. a[1] # "hd" => a[2] = q.id /\ a[2] = r.id BY <1>1 DEF Gives, IsDerived
<1>8. q.op = "createAddresses" /\ r.op = "createAddresses" BY <1>3, <1>5, <1>6, <1>7
<1>9. ASSUME NEW s \in Request, s.op = "createAddresses", a \in tx[s].gives
      PROVE  /\ s \in LockHolders => addressCell(a) \in tx[s].inserts /\ addressCell(a) \notin DOMAIN db
                                     /\ addressCell(a) \in Locked(s)
             /\ tx[s].phase = "done" => addressCell(a) \in DOMAIN db
  <2>1. tx[s].phase = "done" => addressCell(a) \in DOMAIN db BY <1>9 DEF ServiceInv, RequestInv
  <2>2. ASSUME s \in LockHolders PROVE addressCell(a) \in tx[s].inserts
    <3>1. Active(s) BY <2>2 DEF LockHolders, Active
    <3> QED BY <3>1, <1>9 DEF ServiceInv, RequestInv, WillInsert
  <2>3. tx[s].inserts \subseteq Locked(s) BY DEF ServiceInv, TxInv, Locked
  <2>4. s \in LockHolders => tx[s].inserts \cap DOMAIN db = {} BY DEF ServiceInv, LockInv
  <2> QED BY <2>1, <2>2, <2>3, <2>4
<1>10. \A s \in {q, r} : tx[s].phase = "done" \/ s \in LockHolders BY DEF LockHolders
<1>11. q \in LockHolders /\ r \in LockHolders => Locked(q) \cap Locked(r) = {} BY DEF ServiceInv, LockInv
<1> QED BY <1>4, <1>8, <1>9, <1>10, <1>11

LEMMA ServiceTyped == ServiceInv => ServiceTypeOK
<1> SUFFICES ASSUME ServiceInv PROVE ServiceTypeOK OBVIOUS
<1>1. \A q \in Request : /\ tx[q].phase \in IF q \in asked THEN Phase ELSE {"none"}
                         /\ tx[q].inserts \subseteq DOMAIN tx[q].put
  BY DEF ServiceInv, TxInv
<1>2. \A c \in Currency : {<<"wallet", c>>, <<"lower", c>>, <<"upper", c>>, <<"middle", c>>} \subseteq BaseCells
  BY DEF BaseCells
<1> QED BY <1>1, <1>2 DEF ServiceTypeOK, ServiceInv, DbInv, TxInv

-----------------------------------------------------------------------------
\* The processes

ProcessInv ==
  /\ phase \in [Process -> {"down", "loaded", "up"}]
  /\ inbox \in [Process -> Seq(Event \X Token)]
  /\ loading \in [Process -> SUBSET Token]
  /\ finding \in [Process -> SUBSET Token]
  /\ known \in [Process -> SUBSET Token]
  /\ \A p \in Process : phase[p] # "up" => inbox[p] = <<>> /\ finding[p] = {}

LEMMA StoredAreTokens == DbInv => Erc20Table \subseteq Token
BY DEF DbInv, GoodRow, Erc20Table

LEMMA ProcessRequest ==
  ASSUME ProcessInv, NEW q \in TokenRequest, publishRedis(q), UNCHANGED <<phase, loading, finding, known>>
  PROVE  ProcessInv'
<1> DEFINE m == <<EventOf(q), q.contract>>
<1>1. m \in Event \X Token BY DEF EventOf, Event, Token
<1>2. inbox' = [p \in Process |-> IF phase[p] = "up" THEN Append(inbox[p], m) ELSE inbox[p]]
  BY DEF publishRedis
<1> HIDE DEF m
<1>3. \A p \in Process : Append(inbox[p], m) \in Seq(Event \X Token) BY <1>1 DEF ProcessInv
<1>4. inbox' \in [Process -> Seq(Event \X Token)] BY <1>2, <1>3 DEF ProcessInv
<1>5. \A p \in Process : phase[p] # "up" => inbox'[p] = <<>> BY <1>2 DEF ProcessInv
<1> QED BY <1>4, <1>5 DEF ProcessInv, Token, TokenRequest, Request, Event

LEMMA ProcessSame == ASSUME ProcessInv, UNCHANGED <<phase, inbox, loading, finding, known>> PROVE ProcessInv'
BY DEF ProcessInv, Token, TokenRequest, Request, Event

LEMMA ProcessStepInv ==
  ASSUME ProcessInv, DbInv, NEW p \in Process, ProcessStep(p)
  PROVE  ProcessInv'
<1> USE DEF ProcessInv
<1>0. Token' = Token /\ Event' = Event BY DEF Token, TokenRequest, Request, Event
<1>1. CASE Load(p)
  <2>1. Erc20Table \in SUBSET Token BY StoredAreTokens
  <2>2. phase' = [phase EXCEPT ![p] = "loaded"] /\ loading' = [loading EXCEPT ![p] = Erc20Table]
        /\ UNCHANGED <<inbox, finding, known>> /\ phase[p] = "down"
    BY <1>1 DEF Load
  <2>3. phase' \in [Process -> {"down", "loaded", "up"}] BY <2>2
  <2>4. loading' \in [Process -> SUBSET Token] BY <2>1, <2>2
  <2>5. \A r \in Process : phase'[r] # "up" => phase[r] # "up" BY <2>2
  <2> QED BY <1>0, <2>2, <2>3, <2>4, <2>5
<1>2. CASE Subscribe(p)
  <2>1. phase' = [phase EXCEPT ![p] = "up"] /\ known' = [known EXCEPT ![p] = loading[p]]
        /\ loading' = [loading EXCEPT ![p] = {}] /\ UNCHANGED <<inbox, finding>>
    BY <1>2 DEF Subscribe
  <2>2. phase' \in [Process -> {"down", "loaded", "up"}] BY <2>1
  <2>3. loading' \in [Process -> SUBSET Token] /\ known' \in [Process -> SUBSET Token] BY <2>1
  <2>4. \A r \in Process : phase'[r] # "up" => phase[r] # "up" BY <2>1
  <2> QED BY <1>0, <2>1, <2>2, <2>3, <2>4
<1>3. CASE onRedisMessage(p)
  <2>1. /\ inbox[p] # <<>> /\ inbox' = [inbox EXCEPT ![p] = Tail(inbox[p])]
        /\ UNCHANGED <<phase, loading>>
    BY <1>3 DEF onRedisMessage
  <2>2. inbox[p] \in Seq(Event \X Token) OBVIOUS
  <2>3. Tail(inbox[p]) \in Seq(Event \X Token) /\ Head(inbox[p]) \in Event \X Token BY <2>1, <2>2
  <2>4. Head(inbox[p])[2] \in Token BY <2>3
  <2> DEFINE t == Head(inbox[p])[2]
  <2>5. /\ finding' = finding \/ finding' = [finding EXCEPT ![p] = finding[p] \cup {t}]
        /\ known' = known \/ known' = [known EXCEPT ![p] = known[p]] \/ known' = [known EXCEPT ![p] = known[p] \ {t}]
    BY <1>3 DEF onRedisMessage, unregisterErc20Token, unregisterBep20Token, unregisterCurrency
  <2>6. inbox' \in [Process -> Seq(Event \X Token)] BY <2>1, <2>3
  <2>7. phase[p] = "up" BY <2>1
  <2>8. finding' \in [Process -> SUBSET Token] /\ \A r \in Process \ {p} : finding'[r] = finding[r]
    <3>1. t \in Token BY <2>4
    <3> HIDE DEF t
    <3>2. CASE finding' = finding BY <3>2
    <3>3. CASE finding' = [finding EXCEPT ![p] = finding[p] \cup {t}] BY <3>1, <3>3
    <3> QED BY <2>5, <3>2, <3>3
  <2>9. known' \in [Process -> SUBSET Token] BY <2>5
  <2>10. \A r \in Process \ {p} : inbox'[r] = inbox[r] BY <2>1
  <2>11. \A r \in Process : phase'[r] # "up" => inbox'[r] = <<>> /\ finding'[r] = {} BY <2>1, <2>7, <2>8, <2>10
  <2> QED BY <1>0, <2>1, <2>6, <2>8, <2>9, <2>11
<1>4. CASE findAndRegisterNewErc20Token(p)
  <2>1. PICK t \in finding[p] :
          /\ finding' = [finding EXCEPT ![p] = finding[p] \ {t}]
          /\ known' = known \/ known' = [known EXCEPT ![p] = known[p] \cup {t}]
    BY <1>4 DEF findAndRegisterNewErc20Token, registerErc20Token
  <2>2. UNCHANGED <<inbox, phase, loading>> BY <1>4 DEF findAndRegisterNewErc20Token
  <2>3. t \in Token OBVIOUS
  <2>4. finding' \in [Process -> SUBSET Token] /\ \A r \in Process : finding'[r] \subseteq finding[r] BY <2>1
  <2>5. known' \in [Process -> SUBSET Token] BY <2>1, <2>3
  <2>6. \A r \in Process : phase'[r] # "up" => inbox'[r] = <<>> /\ finding'[r] = {} BY <2>2, <2>4
  <2> QED BY <1>0, <2>2, <2>4, <2>5, <2>6
<1>5. CASE Exit(p)
  <2>1. /\ phase' = [phase EXCEPT ![p] = "down"] /\ inbox' = [inbox EXCEPT ![p] = <<>>]
        /\ loading' = [loading EXCEPT ![p] = {}] /\ finding' = [finding EXCEPT ![p] = {}]
        /\ known' = [known EXCEPT ![p] = {}]
    BY <1>5 DEF Exit
  <2>2. <<>> \in Seq(Event \X Token) OBVIOUS
  <2>3. inbox' \in [Process -> Seq(Event \X Token)] BY <2>1, <2>2
  <2>4. /\ loading' \in [Process -> SUBSET Token] /\ finding' \in [Process -> SUBSET Token]
        /\ known' \in [Process -> SUBSET Token] /\ phase' \in [Process -> {"down", "loaded", "up"}]
    BY <2>1
  <2>5. \A r \in Process : phase'[r] # "up" => inbox'[r] = <<>> /\ finding'[r] = {} BY <2>1
  <2> QED BY <1>0, <2>3, <2>4, <2>5
<1> QED BY <1>1, <1>2, <1>3, <1>4, <1>5 DEF ProcessStep

LEMMA ServedNext == ServiceInv /\ [TokensNext]_tokenVars => ServiceInv'
<1> SUFFICES ASSUME ServiceInv, [TokensNext]_tokenVars PROVE ServiceInv' OBVIOUS
<1>1. ASSUME NEW q \in TokenRequest, TokenRequestStep(q) PROVE ServiceInv'
  <2>1. q \in Request BY DEF TokenRequest
  <2> QED BY <1>1, <2>1, ServiceStepInv
<1>2. ASSUME NEW q \in Request \ TokenRequest, ServiceStep(q) PROVE ServiceInv' BY <1>2, ServiceStepInv
<1>3. ASSUME NEW p \in Process, ProcessStep(p) PROVE ServiceInv'
  <2>1. UNCHANGED serviceVars
    BY <1>3 DEF ProcessStep, Load, Subscribe, onRedisMessage, findAndRegisterNewErc20Token, Exit
  <2> QED BY <2>1, ServiceSame
<1>4. CASE UNCHANGED tokenVars
  <2>1. UNCHANGED serviceVars BY <1>4 DEF tokenVars
  <2> QED BY <2>1, ServiceSame
<1> QED BY <1>1, <1>2, <1>3, <1>4 DEF TokensNext

LEMMA ProcessNext == ServiceInv /\ ProcessInv /\ [TokensNext]_tokenVars => ProcessInv'
<1> SUFFICES ASSUME ServiceInv, ProcessInv, [TokensNext]_tokenVars PROVE ProcessInv' OBVIOUS
<1>1. ASSUME NEW q \in TokenRequest, TokenRequestStep(q) PROVE ProcessInv'
  <2>1. CASE publishRedis(q) /\ UNCHANGED <<phase, loading, finding, erc20, known>> BY <2>1, ProcessRequest
  <2>2. CASE UNCHANGED processVars BY <2>2, ProcessSame DEF processVars
  <2> QED BY <1>1, <2>1, <2>2 DEF TokenRequestStep
<1>2. ASSUME UNCHANGED processVars PROVE ProcessInv' BY <1>2, ProcessSame DEF processVars
<1>3. ASSUME NEW p \in Process, ProcessStep(p) PROVE ProcessInv' BY <1>3, ProcessStepInv DEF ServiceInv
<1>4. CASE UNCHANGED tokenVars BY <1>2, <1>4 DEF tokenVars
<1> QED BY <1>1, <1>2, <1>3, <1>4 DEF TokensNext

\* No two customers are given one address, however many requests count the
\* addresses of however many platforms at once, in whatever order they lock, fail
\* and commit (createAddresses in hd_wallet/Utils.ts): an index that is not yet
\* counted is not in the table, so the key refuses the second insert.
THEOREM AddressesServedOnce == TokensSpec => []NoAddressServedTwice
<1>1. TokensInit => ServiceInv BY ServiceInitInv DEF TokensInit
<1> QED BY <1>1, ServedNext, ServedOnce, PTL DEF TokensSpec

\* Every variable of the services and the processes keeps its type, the rows of
\* the migrations stay, and a process that is not up has no messages.
THEOREM TokensTypeCorrect == TokensSpec => []TokensTypeOK
<1>1. TokensInit => ServiceInv /\ ProcessInv /\ KnownInv
  <2>1. TokensInit => ServiceInv BY ServiceInitInv DEF TokensInit
  <2>2. TokensInit => ProcessInv BY DEF TokensInit, ProcessInv
  <2> QED BY <2>1, <2>2, KnownInit
<1>2. ServiceInv /\ ProcessInv /\ KnownInv => TokensTypeOK
  <2> SUFFICES ASSUME ServiceInv, ProcessInv, KnownInv PROVE TokensTypeOK OBVIOUS
  <2>1. ServiceTypeOK BY ServiceTyped
  <2>2. \A p \in Process : inbox[p] \in Seq(Event \X Token) BY DEF ProcessInv
  <2>3. \A p \in Process : \A i \in DOMAIN inbox[p] : inbox[p][i] \in Event \X Token BY <2>2
  <2>4. \A p \in Process :
          /\ phase[p] \in {"down", "loaded", "up"}
          /\ loading[p] \cup finding[p] \cup known[p] \subseteq Token
          /\ phase[p] # "up" => inbox[p] = <<>> /\ finding[p] = {}
    BY DEF ProcessInv
  <2>5. \A p \in Process : erc20[p] \in [Token -> Nat] BY DEF KnownInv
  <2> QED BY <2>1, <2>3, <2>4, <2>5 DEF TokensTypeOK
<1> QED BY <1>1, <1>2, ServedNext, ProcessNext, KnownNext, PTL DEF TokensSpec
===============================================================================
