SPECIFICATION Spec
CONSTANTS
  card = card
  click = click
  tez = tez
  Payments <- ThreePayments
  MethodOf <- Methods
  TierOf <- OneOfPro
  MonthsOf <- OneMonth
  Terms <- OneTerm
  Trans = {t1, t2}
  Bills = {b1}
  Events = {e1, e2}
  None = None
  KeptEvents = 1
  MaxRefund = 1
  MaxNow = 2
  MaxEnd = 2
  MaxPeriods = 1
  MaxWithdrawals = 1
INVARIANTS CompletedIffGranted RefundsAwaitReview RemindedOfThisPeriod
PROPERTIES DecidedOnce RefundedNeverBuys ImplementsEntitlement
CHECK_DEADLOCK FALSE
