SPECIFICATION Spec
CONSTANTS
  Products = {p1}
  None = None
  ProductCap = 1
  MaxDay = 2
  MaxRev = 4
  MaxItems = 1
  Quantities <- UnitQuantities
  Deltas <- UnitDeltas
  Prices <- OnePrice
  Amounts <- NoAmounts
  Units <- BothUnits
  MonthDays = 2
INVARIANTS DonaIsCountable
CHECK_DEADLOCK FALSE
