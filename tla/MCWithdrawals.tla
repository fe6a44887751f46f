----------------------------- MODULE MCWithdrawals -----------------------------
(***************************************************************************)
(* Small instances of the withdrawal pipeline for TLC.                     *)
(***************************************************************************)
EXTENDS Withdrawals, TLC

CONSTANTS w1, w2, c1, t1, t2, t3, t4, h1, h2, x1, s1

MCSymmetry ==
  Permutations(WithdrawalTx) \cup Permutations(HotWallet)
    \cup Permutations(Withdrawal \ ColdWithdrawal)
=============================================================================
