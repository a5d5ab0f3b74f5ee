SPECIFICATION Spec
CONSTANTS
  Products = {p1, p2}
  None = None
  ProductCap = 2
  MaxDay = 2
  MaxRev = 4
  MaxItems = 2
  Quantities <- ThreeHalf
  Deltas <- OneDelta
  Prices <- OnePrice
  Amounts <- NoAmounts
  Units <- BothUnits
  MonthDays = 2
INVARIANTS ProjectionsWithinRounding SnapshotDerived
CHECK_DEADLOCK FALSE
