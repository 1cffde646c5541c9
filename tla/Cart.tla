-------------------------------- MODULE Cart --------------------------------
(***************************************************************************)
(* Money, attributes and the cart (core/src/money.ts, domain/attributes.ts *)
(* and domain/cart.ts): the arithmetic every verification stage rests on.  *)
(*                                                                         *)
(* An amount is an integer of minor units with its currency. Arithmetic    *)
(* throws on a second currency or beyond MaxAmount; an operator that may   *)
(* throw has a companion saying when.                                      *)
(***************************************************************************)
EXTENDS Integers, FiniteSetsExt, SequencesExt

CONSTANTS MaxAmount,  \* MAX_AMOUNT_MINOR
          Null

ASSUME MaxAmountAssumption == MaxAmount \in Nat

InRange(amountMinor) == amountMinor \in (-MaxAmount)..MaxAmount

Money(currency, amountMinor) == [currency |-> currency, amountMinor |-> amountMinor]

\* applyBasisPoints, of a non-negative amount
BasisPointsOf(amountMinor, basisPoints) == (amountMinor * basisPoints) \div 10000

-----------------------------------------------------------------------------

\* Attributes are the set of their name and value pairs.
ValuesOf(attributes, name) == {a[2] : a \in {b \in attributes : b[1] = name}}

Satisfies(attributes, predicate) == ValuesOf(attributes, predicate.name) \cap predicate.anyOf # {}

-----------------------------------------------------------------------------

LineTotal(line) == line.unitPrice.amountMinor * line.quantity

SumOf(amounts, S) == MapThenSumSet(LAMBDA i : amounts[i], S)

LineTotals(cart) == [i \in DOMAIN cart.lines |-> LineTotal(cart.lines[i])]
AmountsOf(cart) == [i \in DOMAIN cart.adjustments |-> cart.adjustments[i].amount.amountMinor]

\* The places of the adjustments of a type, and of those that are not discounts.
AdjustmentsOf(cart, type) == {i \in DOMAIN cart.adjustments : cart.adjustments[i].type = type}
FeesOf(cart) == {i \in DOMAIN cart.adjustments : cart.adjustments[i].type # "DISCOUNT"}

ItemSubtotal(cart) == SumOf(LineTotals(cart), DOMAIN cart.lines)
FeeTotal(cart) == SumOf(AmountsOf(cart), FeesOf(cart))
DiscountTotal(cart) == SumOf(AmountsOf(cart), AdjustmentsOf(cart, "DISCOUNT"))
FeeByType(cart, type) == SumOf(AmountsOf(cart), AdjustmentsOf(cart, type))

ComputedTotal(cart) == ItemSubtotal(cart) + FeeTotal(cart) - DiscountTotal(cart)

LineCurrenciesAgree(cart) == \A i \in DOMAIN cart.lines : cart.lines[i].unitPrice.currency = cart.currency

AdjustmentCurrenciesAgree(cart) ==
  \A i \in DOMAIN cart.adjustments : cart.adjustments[i].amount.currency = cart.currency

\* The amounts are non-negative, so a partial sum is in range when the whole is.
SumsInRange(cart) ==
  /\ InRange(ItemSubtotal(cart)) /\ InRange(FeeTotal(cart))
  /\ InRange(DiscountTotal(cart)) /\ InRange(ComputedTotal(cart))

\* computeCartTotals returns
TotalsComputable(cart) ==
  LineCurrenciesAgree(cart) /\ AdjustmentCurrenciesAgree(cart) /\ SumsInRange(cart)

\* What a cart's hash commits to: the order of its adjustments is not in it.
CartHash(cart) ==
  [cart EXCEPT !.adjustments =
     [a \in ToSet(@) |-> Cardinality({i \in DOMAIN cart.adjustments : cart.adjustments[i] = a})]]

=============================================================================
