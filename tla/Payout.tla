-------------------------------- MODULE Payout --------------------------------
(***************************************************************************)
(* What the wallet promises to the clients who ask for withdrawals,        *)
(* without rows, workers or the state of the network: money leaves at most *)
(* once for each request, and the outcome a client is told is final and    *)
(* true.                                                                   *)
(***************************************************************************)
CONSTANTS Withdrawal, Receipt

VARIABLES
  asked,    \* the withdrawals that were requested
  paid,     \* the irreversible payments of each
  outcome   \* what the client was told of each

payoutVars == <<asked, paid, outcome>>

Outcome == {"open", "completed", "failed"}
IsOpen(S) == S \subseteq asked /\ \A w \in S : outcome[w] = "open"

Init ==
  /\ asked = {}
  /\ paid = [w \in Withdrawal |-> {}]
  /\ outcome = [w \in Withdrawal |-> "open"]

Request(S) ==
  /\ asked' = asked \cup S
  /\ UNCHANGED <<paid, outcome>>

\* One confirmed transaction pays all of S; none of them was paid before.
Pay(S, r) ==
  /\ IsOpen(S)
  /\ \A w \in S : paid[w] = {}
  /\ paid' = [w \in Withdrawal |-> IF w \in S THEN {r} ELSE paid[w]]
  /\ UNCHANGED <<asked, outcome>>

Settle(S, o) ==
  /\ IsOpen(S)
  /\ \A w \in S : (paid[w] # {}) <=> (o = "completed")
  /\ outcome' = [w \in Withdrawal |-> IF w \in S THEN o ELSE outcome[w]]
  /\ UNCHANGED <<asked, paid>>

Next ==
  \E S \in SUBSET Withdrawal :
    \/ Request(S)
    \/ \E r \in Receipt : Pay(S, r)
    \/ \E o \in Outcome \ {"open"} : Settle(S, o)

Spec == Init /\ [][Next]_payoutVars
=============================================================================
