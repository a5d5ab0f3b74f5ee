---------------------------- MODULE RangeReports ----------------------------
(***************************************************************************)
(* What an owner reads about a range of business days: the inventory       *)
(* report from the daily entries (aggregateInventoryForRange of            *)
(* inventory.logic.ts), the procurement analytics from procurements and    *)
(* snapshots (procurement.analytics.ts) and the summary of the current     *)
(* month.  Each reads one MongoDB snapshot, so a report is a function of   *)
(* the committed collections.  Suppliers and the value of the stock are    *)
(* left out.                                                               *)
(***************************************************************************)
EXTENDS StockLedger, FiniteSetsExt

CONSTANT MonthDays  \* days of a month; day MonthDays is the first of one

ASSUME MonthAssumption == MonthDays \in Nat \ {0}

\* An owner has finitely many products.
ASSUME ProductsAssumption == IsFiniteSet(Products)

\* The entries of p in the range: those of deleted products count as well.
Rows(p, from, to) == db.entered[p] \cap (from..to)

\* isProductVisibleOnDate: a product has an entry on the day it is created.
Visible(p, d) == \E first \in db.entered[p] : first <= d

\* deriveMissingInventoryEntry: the stock of now, nothing sold.
DerivedRow(p) == FreshEntry(db.product[p], db.product[p].qty)

\* The report of a single day also shows the products without an entry.
Derived(from, to) == {p \in db.live : from = to /\ from \notin db.entered[p] /\ Visible(p, from)}

\* aggregateInventoryForRange: sales of every day, the opening stock of each product's
\* first day and what its last day has left.
InventoryReport(from, to) ==
  LET entered     == {p \in Products : Rows(p, from, to) # {}}
      derived     == Derived(from, to)
      first(p)    == IF p \in derived THEN DerivedRow(p) ELSE db.entry[p][Min(Rows(p, from, to))]
      last(p)     == IF p \in derived THEN DerivedRow(p) ELSE db.entry[p][Max(Rows(p, from, to))]
      total(F(_)) == SumFunction([p \in entered |->
                       SumFunction([d \in Rows(p, from, to) |-> F(db.entry[p][d])])])
  IN  [sold    |-> total(Sold), revenue |-> total(Revenue), profit |-> total(Profit),
       start   |-> SumFunction([p \in entered \cup derived |-> first(p).start + first(p).lockedSold]),
       current |-> SumFunction([p \in entered \cup derived |-> last(p).current])]

FirstOfMonth(d) == (d \div MonthDays) * MonthDays

\* The day or the month a document's date belongs to.
Bucket(d, monthly) == IF monthly THEN FirstOfMonth(d) ELSE d

\* Mutant: months are counted from the first day of the range.
TrendKeysFromThatDay(from, to, monthly) ==
  {Bucket(d, monthly) : d \in {x \in from..to : monthly => (x - from) % MonthDays = 0}}

\* trendKeys: day by day, or month by month from the first of the month.
TrendKeys(from, to, monthly) ==
  LET start == IF monthly THEN FirstOfMonth(from) ELSE from
  IN  {Bucket(d, monthly) : d \in {x \in start..to : monthly => (x - start) % MonthDays = 0}}

Figures == {"spend", "revenue", "profit"}

\* What a business day adds to the totals: its procurements, or its snapshot's
\* totalRevenue or totalProfit.
Figure(figure, d) ==
  IF figure = "spend" THEN db.procured[d]
  ELSE SumFunction([i \in db.snapshot[d].items |-> i[figure]])

\* procurementAnalytics: the totals of some days, and the trend lines of a range.
Totals(figure, days) == SumFunction([d \in days |-> Figure(figure, d)])

Trends(figure, from, to, monthly) ==
  [k \in TrendKeys(from, to, monthly) |->
     Totals(figure, {d \in from..to : Bucket(d, monthly) = k})]

\* procurementSummary: the month so far.
MonthSpend == Totals("spend", (FirstOfMonth(today)..today) \cap Days)

\* procurementRange: the days of a month.
MonthOf(d) == FirstOfMonth(d)..(FirstOfMonth(d) + MonthDays - 1)
----------------------------------------------------------------------------
\* The screens of one range never contradict each other: the procurement analytics, built
\* from snapshots, earn what the inventory report, built from entries, earns; the trend
\* lines, by day or by month, add up to the totals above them; a single day has sold what
\* it opened with less what is left; and the summary's month is the analytics' month.
\* (While a batch is open the committed data is what it was before.)
ReportsAgree == batch.kind = "none" =>
  /\ \A from \in Days : \A to \in from..MaxDay :
       LET report == InventoryReport(from, to)
       IN  /\ from = to => report.start - report.current = report.sold
           /\ \A figure \in Figures :
                LET total == Totals(figure, from..to)
                IN  /\ figure # "spend" => total = report[figure]
                    /\ \A monthly \in BOOLEAN :
                         total = SumFunction(Trends(figure, from, to, monthly))
  /\ MonthSpend = Totals("spend", MonthOf(today) \cap Days)
=============================================================================
