SPECIFICATION Spec
CONSTANTS
  b1 = b1
  b2 = b2
  b3 = b3
  k1 = k1
  k2 = k2
  Purchase = {b1, b2, b3}
  KeyOf <- Repeated
  Price = {2}
  Total = 5
  MaxPerPurchase = 2
CHECK_DEADLOCK FALSE
SYMMETRY Twins
INVARIANTS MoneyIsWithinBudget SpendHasMoved OnePurchasePerKey
PROPERTY BudgetKept
