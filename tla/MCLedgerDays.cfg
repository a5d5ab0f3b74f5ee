SPECIFICATION Spec
CONSTANTS
  Products = {p1}
  None = None
  ProductCap = 1
  MaxDay = 3
  MaxRev = 4
  MaxItems = 1
  Quantities <- WholeQuantity
  Deltas <- MoneyDeltas
  Prices <- TwoPrices
  Amounts <- OneAmount
  Units <- Pieces
  MonthDays = 2
INVARIANTS TypeOK TodayPricesAgree LedgerMatchesTrail ReportsAgree
PROPERTIES UnitsConserved ClosedDaysOnlyGainSales
CHECK_DEADLOCK FALSE
