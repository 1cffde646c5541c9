-------------------------- MODULE MCVerification --------------------------
(* A small world for TLC: two items, a few mandates, policies and fees.    *)
EXTENDS Verification

INR(amountMinor) == Money("INR", amountMinor)

Shoe == [category |-> "shoes", attributes |-> {<<"size", "9">>}, unitPrice |-> INR(100),
         available |-> TRUE, stock |-> 2, subscriptionOnly |-> FALSE]
Sock == [Shoe EXCEPT !.category = "socks", !.unitPrice = INR(20)]

MCCatalogue == [shoe |-> Shoe, sock |-> Sock]

MCItemStates ==
  {[Shoe EXCEPT !.unitPrice = INR(90)], [Shoe EXCEPT !.unitPrice = Money("USD", 100)],
   [Shoe EXCEPT !.stock = 1], [Shoe EXCEPT !.available = FALSE],
   [Shoe EXCEPT !.attributes = {<<"size", "9">>, <<"cut", "wide">>}],
   [Shoe EXCEPT !.category = "boots"], [Shoe EXCEPT !.subscriptionOnly = TRUE]}

Fee(type, amount) == [type |-> type, label |-> "standard", amount |-> amount]

Discount == Fee("DISCOUNT", INR(5))

\* What a cart is quoted at, the same with a second fee of its label in another currency, and a
\* discount of more than any cart.
MCFeeQuotes ==
  {<<Fee("TAX", INR(10)), Discount>>,
   <<Fee("TAX", Money("USD", 20)), Fee("TAX", INR(10)), Discount>>,
   <<Fee("DISCOUNT", INR(250))>>}

Line(sku, quantity) == [sku |-> sku, quantity |-> quantity]

Request(lines) == [lines |-> lines, recurring |-> FALSE, shipTo |-> "IN"]

MCRequests ==
  {Request(<<Line("shoe", 2), Line("sock", 1)>>), Request(<<Line("shoe", 1), Line("shoe", 2)>>),
   Request(<<Line("shoe", 3)>>),
   [Request(<<Line("shoe", 1)>>) EXCEPT !.recurring = TRUE, !.shipTo = "US"]}

Intent1(feeCurrency) ==
  [currency |-> "INR", maxTotal |-> 235, maxUnitPrice |-> 100, quantity |-> 1..2,
   allowedCategories |-> {}, forbiddenCategories |-> {"boots"},
   requiredAttributes |-> {[name |-> "size", anyOf |-> {"9"}]}, forbiddenAttributes |-> {},
   merchants |-> {"shop"}, fees |-> [TAX |-> INR(30), ALL |-> Money(feeCurrency, 30)],
   recurrence |-> "ONE_TIME_ONLY", geography |-> {"IN"},
   maxSnapshotAge |-> 1, notBefore |-> 0, notAfter |-> 2]

\* A mandate whose quotes last, and one that ends before its quotes do.
Patient == [Intent1("INR") EXCEPT !.maxSnapshotAge = 2]
Brief == [Patient EXCEPT !.notAfter = 1]

Rule(id, kind, severity) == [id |-> id, kind |-> kind, severity |-> severity]
Ceiling(id, currency, amount, severity) ==
  Rule(id, "MAX_TOTAL", severity) @@ [max |-> Money(currency, amount)]
Age(id, limit) == Rule(id, "MAX_SNAPSHOT_AGE_SECONDS", "PAUSE") @@ [limit |-> limit]

Lenient ==
  <<Ceiling("pause_large", "INR", 210, "PAUSE"),
    Rule("tax_ratio", "MAX_FEE_RATIO_BPS", "DENY") @@ [type |-> "TAX", limit |-> 1000],
    Rule("no_boots", "PROHIBITED_CATEGORIES", "DENY") @@ [set |-> {"boots"}]>>

\* A rule of each kind that Lenient has none of.
Detailed ==
  <<Rule("unit", "MAX_UNIT_PRICE", "DENY") @@ [max |-> INR(100)],
    Rule("bulk", "MAX_QUANTITY_PER_ITEM", "PAUSE") @@ [limit |-> 1],
    Rule("size", "MAX_LINE_ITEMS", "DENY") @@ [limit |-> 2],
    Rule("rupees", "ALLOWED_CURRENCIES", "DENY") @@ [set |-> {"INR"}],
    Rule("trusted", "MERCHANT_ALLOWLIST", "DENY") @@ [set |-> {"shop"}],
    Rule("banned", "MERCHANT_DENYLIST", "DENY") @@ [set |-> {"bazaar"}],
    Rule("tax", "MAX_FEE", "PAUSE") @@ [type |-> "TAX", max |-> INR(20)],
    Rule("fees", "MAX_TOTAL_FEES", "DENY") @@ [max |-> INR(30)],
    Rule("footwear", "ALLOWED_CATEGORIES", "DENY") @@ [set |-> {"shoes", "socks"}],
    Rule("fit", "REQUIRE_ATTRIBUTES", "DENY") @@ [set |-> {[name |-> "size", anyOf |-> {"9"}]}],
    Rule("once", "FORBID_SUBSCRIPTION", "DENY")>>

MCMandates ==
  {[intent |-> Patient,
    rules |-> <<Ceiling("deny_large", "INR", 225, "DENY"), Age("stale", 0), Age("very_stale", 1)>>],
   [intent |-> Brief, rules |-> Lenient \o Detailed],
   [intent |-> Intent1("USD"), rules |-> Lenient],
   [intent |-> Intent1("INR"), rules |-> <<Ceiling("foreign", "USD", 1000, "PAUSE")>>],
   [intent |-> Intent1("INR"), rules |-> <<Rule("from_a_later_build", "MAX_CARBON", "PAUSE")>>]}

MCJudgements == {"ALIGNED", "MARGINAL"}
=============================================================================
