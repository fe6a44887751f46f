------------------------------ MODULE DepositBook ------------------------------
(***************************************************************************)
(* What the wallet promises about incoming money: a transfer to a watched  *)
(* address is credited to wallet_balance only after the network confirmed  *)
(* it, and only once.                                                      *)
(***************************************************************************)
EXTENDS Naturals

CONSTANT Output

VARIABLES confirmed, credited

Init ==
  /\ confirmed = {}
  /\ credited = [o \in Output |-> 0]

\* The network confirms transfers for good.
Confirm ==
  /\ confirmed \subseteq confirmed' /\ confirmed' \subseteq Output
  /\ UNCHANGED credited

Credit ==
  /\ credited' \in [Output -> {0, 1}]
  /\ \A o \in Output : credited'[o] # credited[o] => o \in confirmed /\ credited[o] = 0
  /\ UNCHANGED confirmed

Next == Confirm \/ Credit

Spec == Init /\ [][Next]_<<confirmed, credited>>
=============================================================================
