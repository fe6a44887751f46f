-------------------------------- MODULE Tokens --------------------------------
(***************************************************************************)
(* The tokens of Ethereum and BSC: the web services write them and tell    *)
(* the other processes by Redis, which keeps no message for a process that *)
(* is not subscribed.  The message leaves before the transaction commits.  *)
(* Every process has a registry, filled from the tables when it starts.    *)
(*                                                                         *)
(* A token is its contract address; the currencies of a process are keyed  *)
(* by the address in lower case, with the prefix erc20 for both chains.    *)
(* The table of BEP20 tokens is written by no code.                        *)
(***************************************************************************)
EXTENDS WalletService

CONSTANTS
  Process,
  Checksummed \* contracts whose address is sent with capitals

VARIABLES
  inbox,   \* process: the messages that Redis has pushed
  phase,   \* process: "down", "loaded", "up"
  loading, \* process: the tokens that were read at the start
  finding, \* process: the tokens that are looked for in the table
  erc20,   \* process: how often each token is in allErc20Tokens
  known,   \* process: the tokens of allCurrencies
  stored   \* the tokens that were ever committed

processVars == <<inbox, phase, loading, finding, erc20, known>>
tokenVars == <<serviceVars, processVars, stored>>

Event == {"EVENT_NEW_ERC20_TOKEN_ADDED", "EVENT_NEW_ERC20_TOKEN_REMOVED",
          "EVENT_NEW_BEP20_TOKEN_ADDED", "EVENT_NEW_BEP20_TOKEN_REMOVED"}

TokenRequest == {q \in Request : q.op \in {"addErc20", "deleteErc20"}}
ASSUME TokensAssumption == \A q \in Request \ TokenRequest : q.op \in ServiceOp

Token == {q.contract : q \in TokenRequest}
Erc20Table == {db[k] : k \in {k \in DOMAIN db : k[1] = "erc20"}}

TokensTypeOK ==
  /\ ServiceTypeOK
  /\ \A p \in Process :
       /\ phase[p] \in {"down", "loaded", "up"}
       /\ \A i \in DOMAIN inbox[p] : inbox[p][i] \in Event \X Token
       /\ loading[p] \cup finding[p] \cup known[p] \subseteq Token
       /\ erc20[p] \in [Token -> Nat]
       /\ phase[p] # "up" => inbox[p] = <<>> /\ finding[p] = {}

TokensInit ==
  /\ ServiceInit
  /\ inbox = [p \in Process |-> <<>>]
  /\ phase = [p \in Process |-> "down"]
  /\ loading = [p \in Process |-> {}]
  /\ finding = [p \in Process |-> {}]
  /\ erc20 = [p \in Process |-> [t \in Token |-> 0]]
  /\ known = [p \in Process |-> {}]
  /\ stored = {}

-----------------------------------------------------------------------------
\* The requests

\* The row is found by its symbol, so a token with the symbol of another takes
\* its row over.
addErc20(q) ==
  LET balances == RowsOf("balance", q.contract) IN
  {Change((<<"erc20", q.symbol>> := q.contract)
            ++ (IF balances # {} THEN <<>> ELSE <<"balance", q.contract, q.id>> := Null), {}, {})}

deleteErc20(q) ==
  LET tokens == {k \in DOMAIN db : k[1] = "erc20" /\ db[k] = q.contract}
      balances == RowsOf("balance", q.contract) IN
  IF tokens \cup balances = {} THEN {}
  ELSE {Change(<<>>, tokens \cup b, {}) : b \in IF balances = {} THEN {{}} ELSE {{k} : k \in balances}}

TokenChanges(q) == IF q.op = "addErc20" THEN addErc20(q) ELSE deleteErc20(q)

EventOf(q) ==
  IF q.chain = "eth"
  THEN IF q.op = "addErc20" THEN "EVENT_NEW_ERC20_TOKEN_ADDED" ELSE "EVENT_NEW_ERC20_TOKEN_REMOVED"
  ELSE IF q.op = "addErc20" THEN "EVENT_NEW_BEP20_TOKEN_ADDED" ELSE "EVENT_NEW_BEP20_TOKEN_REMOVED"

publishRedis(q) ==
  inbox' = [p \in Process |-> IF phase[p] = "up" THEN Append(inbox[p], <<EventOf(q), q.contract>>) ELSE inbox[p]]

TokenRequestStep(q) ==
  \/ ReadsFor(q, TokenChanges(q)) /\ UNCHANGED processVars
  \/ Writes(q) /\ UNCHANGED processVars
  \/ Answers(q) /\ publishRedis(q) /\ UNCHANGED <<phase, loading, finding, erc20, known>>
  \/ Commits(q) /\ UNCHANGED processVars
  \/ Aborts(q) /\ UNCHANGED processVars

-----------------------------------------------------------------------------
\* A process

\* The tables are read, then everything is registered and the channel subscribed.
Load(p) ==
  /\ phase[p] = "down"
  /\ asked \cap TokenRequest # {}  \* bound: no process where no token is asked for
  /\ phase' = [phase EXCEPT ![p] = "loaded"]
  /\ loading' = [loading EXCEPT ![p] = Erc20Table]
  /\ UNCHANGED <<serviceVars, inbox, finding, erc20, known, stored>>

Subscribe(p) ==
  /\ phase[p] = "loaded"
  /\ phase' = [phase EXCEPT ![p] = "up"]
  /\ erc20' = [erc20 EXCEPT ![p] = [t \in Token |-> IF t \in loading[p] THEN 1 ELSE 0]]
  /\ known' = [known EXCEPT ![p] = loading[p]]
  /\ loading' = [loading EXCEPT ![p] = {}]
  /\ UNCHANGED <<serviceVars, inbox, finding, stored>>

\* The list grows although the currency is known.
registerErc20Token(p, t) ==
  /\ erc20' = [erc20 EXCEPT ![p][t] = @ + 1]
  /\ known' = [known EXCEPT ![p] = @ \cup {t}]

\* The key is not put in lower case here.
unregisterCurrency(p, t) ==
  known' = [known EXCEPT ![p] = IF t \in Checksummed THEN @ ELSE @ \ {t}]

\* The first of the list is removed.
unregisterErc20Token(p, t) ==
  /\ erc20' = [erc20 EXCEPT ![p][t] = IF @ > 0 THEN @ - 1 ELSE 0]
  /\ unregisterCurrency(p, t)

\* The list of BEP20 tokens is always empty.
unregisterBep20Token(p, t) == unregisterCurrency(p, t) /\ UNCHANGED erc20

onRedisMessage(p) ==
  /\ inbox[p] # <<>>
  /\ LET event == Head(inbox[p])[1]
         t == Head(inbox[p])[2] IN
     \/ /\ event = "EVENT_NEW_ERC20_TOKEN_ADDED"
        /\ finding' = [finding EXCEPT ![p] = @ \cup {t}]
        /\ UNCHANGED <<erc20, known>>
     \/ /\ event = "EVENT_NEW_ERC20_TOKEN_REMOVED"
        /\ unregisterErc20Token(p, t)
        /\ UNCHANGED finding
     \/ /\ event = "EVENT_NEW_BEP20_TOKEN_ADDED"
        /\ UNCHANGED <<finding, erc20, known>>
     \/ /\ event = "EVENT_NEW_BEP20_TOKEN_REMOVED"
        /\ unregisterBep20Token(p, t)
        /\ UNCHANGED finding
  /\ inbox' = [inbox EXCEPT ![p] = Tail(@)]
  /\ UNCHANGED <<serviceVars, phase, loading, stored>>

\* Mutant of IsStored: the token is taken from the message.
IsStored_told(t) == t \in Token

IsStored(t) == t \in Erc20Table

findAndRegisterNewErc20Token(p) ==
  /\ \E t \in finding[p] :
       /\ finding' = [finding EXCEPT ![p] = @ \ {t}]
       /\ IF IsStored(t) THEN registerErc20Token(p, t) ELSE UNCHANGED <<erc20, known>>
  /\ UNCHANGED <<serviceVars, inbox, phase, loading, stored>>

\* The process exits: its registry is gone and nobody keeps its messages.
Exit(p) ==
  /\ "abort" \in Fault
  /\ phase[p] # "down"
  /\ phase' = [phase EXCEPT ![p] = "down"]
  /\ inbox' = [inbox EXCEPT ![p] = <<>>]
  /\ loading' = [loading EXCEPT ![p] = {}]
  /\ finding' = [finding EXCEPT ![p] = {}]
  /\ erc20' = [erc20 EXCEPT ![p] = [t \in Token |-> 0]]
  /\ known' = [known EXCEPT ![p] = {}]
  /\ UNCHANGED <<serviceVars, stored>>

ProcessStep(p) ==
  Load(p) \/ Subscribe(p) \/ onRedisMessage(p) \/ findAndRegisterNewErc20Token(p) \/ Exit(p)

TokensNext ==
  \/ /\ \/ \E q \in TokenRequest : TokenRequestStep(q)
        \/ \E q \in Request \ TokenRequest : ServiceStep(q) /\ UNCHANGED processVars
     /\ stored' = stored \cup Erc20Table'
  \/ \E p \in Process : ProcessStep(p)

TokensSpec == TokensInit /\ [][TokensNext]_tokenVars

-----------------------------------------------------------------------------
\* No process works with a token whose addition was never committed, although
\* addErc20 publishes it before the commit, the transaction may still fail and the
\* messages arrive in any state of the process: findAndRegisterNewErc20Token in
\* prepareEnvironment.ts looks in the table.
KnownTokensWereCommitted ==
  \A p \in Process : known[p] \cup {t \in Token : erc20[p][t] > 0} \subseteq stored
=============================================================================
