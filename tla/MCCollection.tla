----------------------------- MODULE MCCollection -----------------------------
(***************************************************************************)
(* Values for TLC: two native deposits and a token deposit at one address  *)
(* of an account platform, one deposit at each of two addresses of a UTXO  *)
(* platform.  The native deposits are worth collecting only together.      *)
(***************************************************************************)
EXTENDS Collection, TLC

CONSTANTS n1, n2, t1, t2, u1, u2, a, b

MCToAddress == n1 :> a @@ n2 :> a @@ t1 :> a @@ u1 :> a @@ u2 :> b
MCCurrencyOf ==
  n1 :> "native" @@ n2 :> "native" @@ t1 :> "token" @@
  u1 :> "utxo" @@ u2 :> "utxo"
MCMinimum == [native |-> 2, token |-> 1, utxo |-> 1]

\* Two token deposits at one address
MCToAddress2 == t1 :> a @@ t2 :> a
MCCurrencyOf2 == t1 :> "token" @@ t2 :> "token"
=============================================================================
