--------------------------------- MODULE Coins ---------------------------------
(***************************************************************************)
(* The coins of the hot wallet of a UTXO platform, and of the deposit      *)
(* addresses from which the collector fills it: which coins a transaction  *)
(* spends, what fee it pays, and what is left.  Amounts are in satoshis.   *)
(*                                                                         *)
(* Every transaction that is built is mined at once.  The fee rate may be  *)
(* another at every question: BTC asks a web site, at most 60; LTC and BCH *)
(* have one rate.                                                          *)
(***************************************************************************)
EXTENDS Integers, Sequences, Functions, FiniteSetsExt

CONSTANTS
  Rate,        \* satoshis per byte
  DepositValue,
  Payment,     \* the outputs that withdrawals ask for: sequences of amounts
  Funds,       \* bound: all that is ever deposited
  Unspent      \* bound: outputs of the wallet

ASSUME CoinsAssumption ==
  Rate \subseteq Nat /\ DepositValue \subseteq Nat /\ Payment \subseteq Seq(Nat) /\ Funds \in Nat

VARIABLES
  coins,     \* the outputs of the hot wallet, by confirmations
  deposits,  \* the outputs of the deposit addresses
  received,  \* what has ever arrived
  last       \* the last transaction, built or not

coinVars == <<coins, deposits, received, last>>

Dust == 546
Nothing == [inputs |-> <<>>, outs |-> <<>>, change |-> <<>>, rate |-> 0, fee |-> 0, built |-> FALSE]

Total(seq) == SumFunction(seq)

CoinsTypeOK ==
  /\ coins \in Seq(Nat)
  /\ deposits \in Seq(DepositValue)
  /\ received \in 0 .. Funds
  /\ Total(coins) + Total(deposits) <= received
  /\ last.fee \in Nat /\ last.rate \in Rate \cup {0} /\ last.built \in BOOLEAN

CoinsInit ==
  /\ coins = <<>> /\ deposits = <<>>
  /\ received = 0
  /\ last = Nothing

-----------------------------------------------------------------------------
\* The estimated bytes of a transaction
Size(inputs, outs) == outs * 34 + 10 + inputs * 181

FeeOf(inputs, outs, rate) == Size(inputs, outs) * rate

\* Mutant of Enough: the last coin is overlooked.
Enough_last(k, outs, rate) ==
  k < Len(coins) /\ Total(SubSeq(coins, 1, k)) > Total(outs) + FeeOf(k, Len(outs), rate)

\* The first k coins pay for the outputs and their fee, with something to spare.
Enough(k, outs, rate) ==
  Total(SubSeq(coins, 1, k)) > Total(outs) + FeeOf(k, Len(outs), rate)

\* The change goes back to the address, unless it is dust.
Change(left) == IF left >= Dust THEN <<left>> ELSE <<>>

\* Mutant of Payable: an amount may be negative.
Payable_any(outs) == TRUE

\* The library throws at an amount that is not a natural number.
Payable(outs) == \A i \in DOMAIN outs : outs[i] >= 0

\* Throws where the coins do not cover the outputs and the fee.
_constructRawTransaction(inputs, outs, rate, estimate) ==
  LET change == Change(Total(inputs) - Total(outs) - estimate) IN
  [inputs |-> inputs, outs |-> outs, change |-> change, rate |-> rate,
   fee |-> Total(inputs) - Total(outs) - Total(change),
   built |-> Total(inputs) >= Total(outs) + estimate /\ Payable(outs)]

\* The node lists the coins by confirmations: the oldest are spent first.
Picked(k) == SubSeq(coins, 1, k)

\* The loop over the coins asks for the rate at each.
constructRawTransaction(outs, rates) ==
  LET picks == {k \in DOMAIN coins : Enough(k, outs, rates[k])}
      k == IF picks = {} THEN Len(coins) ELSE Min(picks) IN
  IF picks = {}
  THEN [Nothing EXCEPT !.inputs = coins, !.outs = outs, !.rate = IF k = 0 THEN 0 ELSE rates[k]]
  ELSE _constructRawTransaction(Picked(k), outs, rates[k], FeeOf(k, Len(outs), rates[k]))

Withdraw(outs) ==
  /\ last.built \/ last = Nothing  \* bound: nothing after a failure
  /\ \E rates \in [DOMAIN coins -> Rate] : last' = constructRawTransaction(outs, rates)
  /\ coins' = IF last'.built
              THEN SubSeq(coins, Len(last'.inputs) + 1, Len(coins)) \o last'.change
              ELSE coins
  /\ UNCHANGED <<deposits, received>>

\* Mutant of constructRawConsolidateTransaction: the fee of a payment.
constructRawConsolidateTransaction_payment(inputs, rate) ==
  LET fee == FeeOf(1, 1, rate) IN _constructRawTransaction(inputs, <<Total(inputs) - fee>>, rate, fee)

\* A group of deposits goes to the hot wallet, less the fee.
constructRawConsolidateTransaction(inputs, rate) ==
  LET fee == FeeOf(Len(inputs), 1, rate) IN _constructRawTransaction(inputs, <<Total(inputs) - fee>>, rate, fee)

Collect(rate) ==
  \E k \in DOMAIN deposits :
    /\ last' = constructRawConsolidateTransaction(SubSeq(deposits, 1, k), rate)
    /\ last'.built
    /\ coins' = coins \o last'.outs
    /\ deposits' = SubSeq(deposits, k + 1, Len(deposits))
    /\ UNCHANGED received

Deposit(v) ==
  /\ received + v <= Funds /\ Len(deposits) + Len(coins) < Unspent
  /\ deposits' = Append(deposits, v)
  /\ received' = received + v
  /\ UNCHANGED <<coins, last>>

CoinsNext ==
  \/ \E v \in DepositValue : Deposit(v)
  \/ \E rate \in Rate : Collect(rate)
  \/ \E outs \in Payment : Withdraw(outs)

CoinsSpec == CoinsInit /\ [][CoinsNext]_coinVars

-----------------------------------------------------------------------------
\* The size of a transaction by its bytes: 34 for an output, 181 for an input.
Bytes(tx) == 34 * Len(tx.outs) + 181 * Len(tx.inputs) + 10

\* A transaction that is built pays the rate of the last question for all of its
\* bytes, and at most a change that would be dust on top of it, although the
\* rate moves between the coins (constructRawTransaction, _constructRawTransaction).
FeeIsRight ==
  last.built => last.fee - Bytes(last) * last.rate \in 0 .. Dust - 1

\* The construction fails only when the wallet cannot pay: where every coin is
\* worth more than its own input, no set of coins covers the outputs and the fee
\* with something to spare.
ThrowsOnlyWhenShort ==
  ~last.built /\ last # Nothing /\ (\A i \in DOMAIN coins : coins[i] > 181 * last.rate) =>
    \A S \in SUBSET DOMAIN coins :
      SumFunctionOnSet(coins, S) <= Total(last.outs) + (34 * Len(last.outs) + 10 + 181 * Cardinality(S)) * last.rate
=============================================================================
