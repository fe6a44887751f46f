----------------------------- MODULE WalletService -----------------------------
(***************************************************************************)
(* The web services of the platforms: every request runs in a transaction  *)
(* of its own, and several services and the operator's browser send them   *)
(* at once.  A transaction reads a snapshot (the isolation that MySQL      *)
(* gives), TypeORM's save writes only the columns that differ from the     *)
(* snapshot, and a row that somebody else inserted is a duplicate key.     *)
(*                                                                         *)
(* A cell of the database is a tuple <<table, key...>>.  A table without a *)
(* unique key over the columns in question has the request in its key.     *)
(* The locks of one transaction are taken in one step; a deadlock or a     *)
(* lost connection is an abort.  The workers do not run here.              *)
(***************************************************************************)
EXTENDS Naturals, FiniteSets, Sequences, Functions, FiniteSetsExt

CONSTANTS
  Scenario,   \* sets of requests that are sent together
  HdCurrency, \* platforms whose addresses are derived from a seed
  Currency,   \* all platforms
  OnChain,    \* the balance of the hot wallet of a platform
  Fault       \* "abort"

Request == UNION Scenario

\* What the service of each platform writes. The routes for new addresses of EOS and
\* XRP only read the hot wallet that addAddress has made, and are left out with the
\* other queries.
BtcWebService == {"createAddresses", "approveTransaction", "settingThreshold", "settingMailer", "getSeed"}
EthWebService == {"createAddresses", "approveTransaction", "settingThreshold", "resetSettingColdWallet",
                  "addErc20", "deleteErc20"}
BscWebService == EthWebService
BchWebService == {"createAddresses", "approveTransaction", "settingThreshold", "settingMailer"}
LtcWebService == BchWebService
AdaWebService == {"createAdaAddresses", "approveTransaction", "settingThreshold", "settingMailer"}
EosWebService == {"addAddress", "approveTransaction", "settingThreshold", "settingMailer"}
XrpWebService == EosWebService

Services == [btc |-> BtcWebService, eth |-> EthWebService, bnb |-> BscWebService, bch |-> BchWebService,
             ltc |-> LtcWebService, ada |-> AdaWebService, eos |-> EosWebService, xrp |-> XrpWebService]

\* The service that a request is passed on to. The token routes of BSC have the names
\* of those of Ethereum, so they are reached at the service itself.
WebService(q) ==
  CASE q.op = "resetSettingColdWallet" -> "eth"
    [] q.op \in {"settingMailer", "getSeed"} -> "btc"
    [] q.op \in {"addErc20", "deleteErc20"} -> q.chain
    [] OTHER -> q.currency

\* Requests have ids; addresses are derived, made by the Cardano node, or given by
\* the operator (EOS and XRP), depending on the platform.
ASSUME WalletServiceAssumption ==
  /\ HdCurrency \subseteq Currency
  /\ \A scenario \in Scenario : \A q, r \in scenario : q.id = r.id => q = r
  /\ \A q \in Request :
       /\ WebService(q) \in DOMAIN Services /\ q.op \in Services[WebService(q)]
       /\ q.op = "createAddresses" => q.currency \in HdCurrency /\ q.amount \in Nat
       /\ q.op \in {"createAdaAddresses", "addAddress"} => q.currency \in Currency \ HdCurrency
       /\ q.op = "addAddress" => q.address[1] = "given"

NoSeed == 0
Null == 0

VARIABLES
  db,    \* the committed cells
  asked, \* the requests of this behaviour
  tx     \* their transactions

serviceVars == <<db, asked, tx>>

Idle == [phase |-> "none", put |-> <<>>, inserts |-> {}, del |-> {}, gives |-> {}]

Phase == {"none", "open", "written", "answered", "done", "failed", "lost"}

ServiceTypeOK ==
  /\ asked \in Scenario
  /\ DOMAIN tx = Request
  /\ \A q \in Request :
       /\ tx[q].phase \in IF q \in asked THEN Phase ELSE {"none"}
       /\ tx[q].inserts \subseteq DOMAIN tx[q].put
  /\ \A c \in Currency : {<<"wallet", c>>, <<"lower", c>>, <<"upper", c>>, <<"middle", c>>} \subseteq DOMAIN db

\* The rows of the migrations
ServiceInit ==
  /\ asked \in Scenario
  /\ tx = [q \in Request |-> Idle]
  /\ db = [k \in {"wallet", "lower", "upper", "middle"} \X Currency |-> Null]

-----------------------------------------------------------------------------
\* What a request wants to write, from what it reads: nothing when it throws

RowsOf(table, c) == {k \in DOMAIN db : k[1] = table /\ k[2] = c}
AddressesOf(c) == {k \in DOMAIN db : k[1] = "address" /\ db[k] = c}
addressCell(a) == <<"address", a>>
Derived(c, seed, index) == <<"hd", c, seed, index>>

\* Cells and their values; of two changes of one cell the left one is made.
cell := value == [k \in {cell} |-> value]
f ++ g == [k \in DOMAIN f \cup DOMAIN g |-> IF k \in DOMAIN f THEN f[k] ELSE g[k]]

Change(put, del, gives) == [put |-> put, del |-> del, gives |-> gives]

calIndex(number) == number + 100

\* The seed of wallet c, made by this request when there is none.
findOrCreateWallet(q, c) ==
  IF db[<<"wallet", c>>] = NoSeed THEN q.id ELSE db[<<"wallet", c>>]

\* The hot wallet of c: one that is there, or the address of index 0.
saveHotWallet(q, c, new) ==
  IF RowsOf("hot", c) = {}
  THEN {<<new, <<"hot", c, q.id>> := new>>}
  ELSE {<<db[k], <<>> >> : k \in RowsOf("hot", c)}

\* The address row of the hot wallet.
HotAddressRow(c, hot, new) ==
  IF addressCell(hot) \in DOMAIN db THEN <<>> ELSE addressCell(new) := c

createAddresses(q) ==
  LET c == q.currency
      seed == findOrCreateWallet(q, c)
      first == Derived(c, seed, 0) IN
  {LET own == HotAddressRow(c, h[1], first)
       index == calIndex(Cardinality(AddressesOf(c)) + Cardinality(DOMAIN own))
       new == {Derived(c, seed, i) : i \in index .. index + q.amount - 1}
   IN Change((<<"wallet", c>> := seed) ++ h[2] ++ own ++ [k \in {addressCell(a) : a \in new} |-> c], {}, new)
   : h \in saveHotWallet(q, c, first)}

\* A wallet of the Cardano node: its account, and a fresh address for every call.
createWalletAddress(q, n) == <<"remote", q.id, n>>

findOrCreateAdaWallet(q) ==
  LET c == q.currency
      account == findOrCreateWallet(q, c)
      receipt == createWalletAddress(q, 0) IN
  {(<<"wallet", c>> := account) ++ h[2]
     ++ (IF RowsOf("receipt", c) # {} THEN <<>>
         ELSE (<<"receipt", c, q.id>> := receipt) ++ (addressCell(receipt) := c))
   : h \in saveHotWallet(q, c, <<"account", account>>)}

createAdaAddresses(q) ==
  LET new == {createWalletAddress(q, n) : n \in 1 .. q.amount} IN
  {Change(wallet ++ [k \in {addressCell(a) : a \in new} |-> q.currency], {}, new) :
     wallet \in findOrCreateAdaWallet(q)}

\* The one address of EOS and XRP.
addAddressOneAddressCurrency(q) ==
  IF RowsOf("hot", q.currency) # {} \/ AddressesOf(q.currency) # {} THEN {}
  ELSE {Change((<<"hot", q.currency, q.id>> := q.address) ++ (addressCell(q.address) := q.currency), {}, {})}

checkInternalAddress(a) == addressCell(a) \in DOMAIN db

approveTransaction(q) ==
  IF checkInternalAddress(q.to) THEN {}
  ELSE {Change(<<"withdrawal", q.currency, q.id>> := q.amount, {}, {})}

findTotalAmountWithdrawlPending(c) ==
  MapThenSumSet(LAMBDA k : db[k], RowsOf("withdrawal", c) \cup RowsOf("sweep", c))

\* Half of both thresholds: middle_threshold
MiddleOf(upper, lower) == (upper + lower) \div 2

\* A withdrawal to the cold wallet, unless one is there: the wallet is busy then.
upperThresholdHandle(q) ==
  LET c == q.currency
      pending == findTotalAmountWithdrawlPending(c) IN
  IF RowsOf("sweep", c) # {} \/ OnChain[c] < pending + q.upper THEN <<>>
  ELSE <<"sweep", c, q.id>> := OnChain[c] - pending - MiddleOf(q.upper, q.lower)

ThresholdsAccepted(q) == q.upper # 0 /\ q.lower # 0 /\ q.upper >= q.lower

saveCurrencyThresholdInfo(q) ==
  (<<"upper", q.currency>> := q.upper) ++ (<<"lower", q.currency>> := q.lower)
    ++ (<<"middle", q.currency>> := MiddleOf(q.upper, q.lower))

saveColdWallet(q) == <<"cold", q.currency>> := q.address

saveThreshold(q) ==
  IF ~ThresholdsAccepted(q) \/ RowsOf("hot", q.currency) = {} THEN {}
  ELSE {Change(saveCurrencyThresholdInfo(q) ++ saveColdWallet(q) ++ upperThresholdHandle(q), {}, {})}

\* Mutant of resetSettingColdWallet: the thresholds are removed with the row.
resetSettingColdWallet_rows(q) ==
  {Change(<<>>, {"lower", "upper", "middle", "cold"} \X {q.currency}, {})}

resetSettingColdWallet(q) ==
  {Change([k \in {"lower", "upper", "middle"} \X {q.currency} |-> Null], {<<"cold", q.currency>>}, {})}

saveMailerReceive(q) == {Change(<<"env", "MAIL_HOLDER_COLD_WALLET">> := q.id, {}, {})}

\* GET /api/get_seed
saveSecret(q) ==
  LET bare == {k \in {"wallet"} \X HdCurrency : db[k] = NoSeed} IN
  {Change([k \in bare |-> q.id], {}, {})}

ServiceOp == {"createAddresses", "createAdaAddresses", "addAddress", "approveTransaction",
              "settingThreshold", "resetSettingColdWallet", "settingMailer", "getSeed"}

Changes(q) ==
  CASE q.op = "createAddresses" -> createAddresses(q)
    [] q.op = "createAdaAddresses" -> createAdaAddresses(q)
    [] q.op = "addAddress" -> addAddressOneAddressCurrency(q)
    [] q.op = "approveTransaction" -> approveTransaction(q)
    [] q.op = "settingThreshold" -> saveThreshold(q)
    [] q.op = "resetSettingColdWallet" -> resetSettingColdWallet(q)
    [] q.op = "settingMailer" -> saveMailerReceive(q)
    [] q.op = "getSeed" -> saveSecret(q)

\* The handlers that answer inside the transaction, before it commits
AnswersEarly(q) == q.op \notin {"settingThreshold", "resetSettingColdWallet", "settingMailer"}

-----------------------------------------------------------------------------
\* The transaction of a request

\* The columns that differ from what was read.
Changed(put) == Restrict(put, {k \in DOMAIN put : k \in DOMAIN db => put[k] # db[k]})

ReadsFor(q, changes) ==
  /\ q \in asked /\ tx[q] = Idle
  /\ \/ \E ch \in changes :
          LET put == Changed(ch.put) IN
          tx' = [tx EXCEPT ![q] = [phase |-> "open", put |-> put, inserts |-> DOMAIN put \ DOMAIN db,
                                   del |-> ch.del, gives |-> ch.gives]]
     \/ changes = {} /\ tx' = [tx EXCEPT ![q].phase = "failed"]
  /\ UNCHANGED <<db, asked>>

Reads(q) == ReadsFor(q, Changes(q))

Locked(q) == DOMAIN tx[q].put \cup tx[q].del

LockHolders == {q \in Request : tx[q].phase \in {"written", "answered"}}

\* Mutant of Duplicate: the primary keys are not enforced.
Duplicate_never(q) == FALSE

\* The primary keys, and the unique address of a token's contract
Duplicate(q) ==
  \/ tx[q].inserts \cap DOMAIN db # {}
  \/ \E k \in DOMAIN tx[q].put, l \in DOMAIN db :
       k[1] = "erc20" /\ l[1] = "erc20" /\ k # l /\ tx[q].put[k] = db[l]

\* Waits for the locks of the others.
Writes(q) ==
  /\ tx[q].phase = "open"
  /\ \A r \in LockHolders : Locked(q) \cap Locked(r) = {}
  /\ tx' = [tx EXCEPT ![q].phase = IF Duplicate(q) THEN "failed" ELSE "written"]
  /\ UNCHANGED <<db, asked>>

Answers(q) ==
  /\ tx[q].phase = "written" /\ AnswersEarly(q)
  /\ tx' = [tx EXCEPT ![q].phase = "answered"]
  /\ UNCHANGED <<db, asked>>

\* A row that was deleted in the meantime is not updated.
Commits(q) ==
  /\ tx[q].phase = IF AnswersEarly(q) THEN "answered" ELSE "written"
  /\ LET put == Restrict(tx[q].put, DOMAIN tx[q].put \cap (DOMAIN db \cup tx[q].inserts)) IN
     db' = Restrict(put ++ db, (DOMAIN put \cup DOMAIN db) \ tx[q].del)
  /\ tx' = [tx EXCEPT ![q].phase = "done"]
  /\ UNCHANGED asked

\* What was answered is lost.
Aborts(q) ==
  /\ "abort" \in Fault
  /\ tx[q].phase \in {"open", "written", "answered"}
  /\ tx' = [tx EXCEPT ![q].phase = IF @ = "answered" THEN "lost" ELSE "failed"]
  /\ UNCHANGED <<db, asked>>

ServiceStep(q) == Reads(q) \/ Writes(q) \/ Answers(q) \/ Commits(q) \/ Aborts(q)

ServiceNext == \E q \in Request : ServiceStep(q)

ServiceSpec == ServiceInit /\ [][ServiceNext]_serviceVars

-----------------------------------------------------------------------------
\* No two customers are given one address: two requests that count the addresses
\* of a platform at the same time (createAddresses in hd_wallet/Utils.ts) take
\* the same indexes, and the key of the table must refuse the second, also when
\* the first aborts or makes a seed of its own.
NoAddressServedTwice ==
  \A q, r \in Request :
    /\ q # r
    /\ tx[q].phase \in {"written", "answered", "done"} /\ tx[r].phase \in {"written", "answered", "done"}
    => tx[q].gives \cap tx[r].gives = {}

\* 'upperThreshold must be greater than lowerThreshold' (saveThreshold).
ThresholdsOrdered == \A c \in Currency : db[<<"lower", c>>] <= db[<<"upper", c>>]
=============================================================================
