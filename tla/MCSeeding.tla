------------------------------- MODULE MCSeeding -------------------------------
(***************************************************************************)
(* Small instances of fee seeding beside the withdrawal pipeline for TLC.  *)
(***************************************************************************)
EXTENDS Seeding, TLC

CONSTANTS w1, t1, t2, s1, s2, h1, h2, x1, d1, d2, a1

\* Both deposits are at the same address.
MCtoAddress == [d \in Deposit |-> a1]

MCSymmetry ==
  Permutations(WithdrawalTx) \cup Permutations(HotWallet)
    \cup Permutations(Seed) \cup Permutations(Deposit)
=============================================================================
