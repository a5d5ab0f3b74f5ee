SPECIFICATION Spec
CONSTANTS
  card = card
  click = click
  tez = tez
  Payments <- ThreePayments
  MethodOf <- Methods
  TierOf <- OneOfPro
  MonthsOf <- OneMonth
  Terms <- OneTerm
  Trans = {t1}
  Bills = {b1}
  Events = {e1, e2}
  None = None
  KeptEvents = 1
  MaxRefund = 1
  MaxNow = 2
  MaxEnd = 2
  MaxPeriods = 2
  MaxWithdrawals = 1
PROPERTIES RejectedReceiptLosesTier
CHECK_DEADLOCK FALSE
