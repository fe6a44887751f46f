----------------------------- MODULE MCSubmission -----------------------------
(***************************************************************************)
(* Instance: three withdrawals, and two more rows for those that are built *)
(* again.                                                                  *)
(***************************************************************************)
EXTENDS Submission

CONSTANTS w1, w2, w3

MCWithdrawal == {w1, w2, w3}
=============================================================================
