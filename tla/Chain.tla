-------------------------------- MODULE Chain --------------------------------
(***************************************************************************)
(* The blockchain network as the gateways under libs/sota-* observe it.    *)
(*                                                                         *)
(* A transaction is identified by the database row that stores its signed  *)
(* bytes, because signing is deterministic.  It spends one slot of its     *)
(* payer: the nonce that constructRawTransaction reads with                *)
(* getTransactionCount on an account chain, the unspent outputs it         *)
(* selected on a UTXO chain.  The network confirms at most one transaction *)
(* per slot.  The code never decides any of the steps below; it only       *)
(* builds a transaction, hands it over and asks for its status.            *)
(*                                                                         *)
(* Fault names what the environment may do in an instance:                 *)
(*   "drop"    a pooled transaction is forgotten by every node             *)
(*   "replace" a pooled transaction gives way to one of the same slot      *)
(*   "reorg"   a block with too few confirmations is disconnected          *)
(*   "revert"  an executed transaction fails (account chains)              *)
(*   "node"    the node refuses or does not answer a request               *)
(*   "crash"   a worker process dies, or its database transaction fails,   *)
(*             between two of its steps                                    *)
(*   "stale"   what a gateway cached outlives the block it was read from   *)
(***************************************************************************)
EXTENDS Naturals

CONSTANTS Tx, Account, NoAccount, UtxoBased, Fault

ASSUME ChainAssumption ==
  /\ NoAccount \notin Account
  /\ UtxoBased \in BOOLEAN

VARIABLES
  net,    \* where each transaction stands on the network
  payer,  \* the sending address of a built transaction
  slot,   \* the nonce (or generation of outputs) it spends
  mined,  \* how many slots of each address are spent in the best chain
  cached  \* what the gateway of each reader remembers of a transaction

chainVars == <<net, payer, slot, mined, cached>>

NetStatus == {"absent", "pool", "block", "final", "reverted"}

\* The processes that ask for a status; each has gateways of its own.
Reader == {"sender", "verifier"}

\* fresh: the cached block is in the best chain.  The others are the answers
\* counted from a block that was disconnected.
CacheEntry == {"no", "fresh", "confirming", "completed", "failed"}

ChainTypeOK ==
  /\ net \in [Tx -> NetStatus]
  /\ payer \in [Tx -> Account \cup {NoAccount}]
  /\ slot \in [Tx -> Nat]
  /\ mined \in [Account -> Nat]
  /\ cached \in [Reader \X Tx -> CacheEntry]

ChainInit ==
  /\ net = [x \in Tx |-> "absent"]
  /\ payer = [x \in Tx |-> NoAccount]
  /\ slot = [x \in Tx |-> 0]
  /\ mined = [a \in Account |-> 0]
  /\ cached = [k \in Reader \X Tx |-> "no"]

\* The row that stores transaction x now exists: h pays, with slot n.
Record(x, h, n) ==
  /\ payer' = [payer EXCEPT ![x] = h]
  /\ slot' = [slot EXCEPT ![x] = n]
  /\ UNCHANGED <<net, mined, cached>>

\* Mutant of NetworkStatus: one confirmation is enough.
NetworkStatus_oneConfirmation(x) ==
  CASE net[x] \in {"absent", "pool"} -> "unknown"
    [] net[x] \in {"block", "final"} -> "completed"
    [] net[x] = "reverted" -> "failed"

\* What gateway.getTransactionStatus makes of the answer of a node.  A pooled
\* transaction has no block: EthGateway throws, BitcoinBasedGateway counts it
\* as unknown and throws for the ones its explorer has never heard of.
NetworkStatus(x) ==
  CASE net[x] = "absent"   -> IF UtxoBased THEN "throws" ELSE "unknown"
    [] net[x] = "pool"     -> IF UtxoBased THEN "unknown" ELSE "throws"
    [] net[x] = "block"    -> "confirming"
    [] net[x] = "final"    -> "completed"
    [] net[x] = "reverted" -> "failed"

\* BaseGateway.getOneTransaction looks into its cache first, and counts the
\* confirmations from the block number that it finds there.
getTransactionStatus(r, x) ==
  IF cached[<<r, x>>] \in {"no", "fresh"} THEN NetworkStatus(x) ELSE cached[<<r, x>>]

\* A transaction that was read in a block is cached, again and again while it
\* is polled.  Without "stale" no entry is left when its block is disconnected.
Remember(r, x) ==
  cached' = IF "stale" \in Fault /\ NetworkStatus(x) = "confirming" /\ cached[<<r, x>>] = "no"
              THEN [cached EXCEPT ![<<r, x>>] = "fresh"] ELSE cached

\* The transactions that spend the slot of x.
Rival(x) == {y \in Tx \ {x} : payer[y] = payer[x] /\ slot[y] = slot[x]}

\* A node takes x into its pool: its slot is unspent ("nonce too low"
\* otherwise), and no pooled rival stands in the way or it is replaced.
Accept(x) ==
  /\ net[x] = "absent"
  /\ mined[payer[x]] <= slot[x]
  /\ "replace" \in Fault \/ \A y \in Rival(x) : net[y] # "pool"
  /\ net' = [y \in Tx |-> IF y = x THEN "pool"
                          ELSE IF y \in Rival(x) /\ net[y] = "pool" THEN "absent"
                          ELSE net[y]]
  /\ UNCHANGED <<payer, slot, mined, cached>>

\* gateway.sendRawTransaction returns a txid: accepted, or "already known".
sendRawTransaction(x) ==
  \/ Accept(x)
  \/ net[x] = "pool" /\ UNCHANGED chainVars

Mine(x) ==
  /\ net[x] = "pool"
  /\ slot[x] = mined[payer[x]]
  /\ net' = [net EXCEPT ![x] = "block"]
  /\ mined' = [mined EXCEPT ![payer[x]] = @ + 1]
  /\ UNCHANGED <<payer, slot, cached>>

\* The transaction reaches requiredConfirmations, with success or failure.
Finalise(x) ==
  /\ net[x] = "block"
  /\ \E r \in {"final"} \cup (IF "revert" \in Fault /\ ~UtxoBased THEN {"reverted"} ELSE {}) :
       net' = [net EXCEPT ![x] = r]
  /\ UNCHANGED <<payer, slot, mined, cached>>

Reorg(x) ==
  /\ "reorg" \in Fault
  /\ net[x] = "block"
  /\ slot[x] + 1 = mined[payer[x]]
  /\ net' = [net EXCEPT ![x] = "pool"]
  /\ mined' = [mined EXCEPT ![payer[x]] = @ - 1]
  /\ cached' = [k \in Reader \X Tx |->
                  IF k[2] = x /\ cached[k] = "fresh" THEN "confirming" ELSE cached[k]]
  /\ UNCHANGED <<payer, slot>>

Drop(x) ==
  /\ "drop" \in Fault
  /\ net[x] = "pool"
  /\ net' = [net EXCEPT ![x] = "absent"]
  /\ UNCHANGED <<payer, slot, mined, cached>>

\* Enough blocks follow the number of the disconnected block; the outcome is
\* the one that its receipt had.
Age(r, x) ==
  /\ cached[<<r, x>>] = "confirming"
  /\ \E o \in {"completed"} \cup (IF "revert" \in Fault /\ ~UtxoBased THEN {"failed"} ELSE {}) :
       cached' = [cached EXCEPT ![<<r, x>>] = o]
  /\ UNCHANGED <<net, payer, slot, mined>>

\* The entry was not read for five minutes, or the process restarts.
Expire(r, x) ==
  /\ cached[<<r, x>>] # "no"
  /\ cached' = [cached EXCEPT ![<<r, x>>] = "no"]
  /\ UNCHANGED <<net, payer, slot, mined>>

ChainStep ==
  \E x \in Tx :
    \/ Mine(x) \/ Finalise(x) \/ Reorg(x) \/ Drop(x)
    \/ \E r \in Reader : Age(r, x) \/ Expire(r, x)
=============================================================================
