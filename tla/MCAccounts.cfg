SPECIFICATION Spec
SYMMETRY Interchangeable
CONSTANTS
  Forms = {1, 2}
  Signups = {r1, r2}
  Admins = {a1}
  Phones = {p1, p2}
  Telegrams = {t1, t2}
  Collections = {c1, c2}
  Absent = Absent
  DayHours = 3
  StartHours = {0, 1, 2}
  MaxTime = 12
  Visits = {v1, v2}
  Unset = Unset
  Debtors = {d1, d2}
  Amounts = {0, 1, 2, 5}
  MaxHistory = 4
INVARIANTS RegisteredOnce DeletedLast DebtIsHistory
PROPERTIES DatesForward ChangesKept
CHECK_DEADLOCK FALSE
