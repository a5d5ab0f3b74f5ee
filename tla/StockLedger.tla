---------------------------- MODULE StockLedger ----------------------------
(***************************************************************************)
(* The stock ledger of one owner: products, daily inventory entries, daily *)
(* snapshots and procurement cost, as product.service, inventory.service,  *)
(* procurement.service and snapshot.service write them.  Transactions of   *)
(* one owner are serialised by the owner fence (lib/transaction.ts).  A    *)
(* request takes the fence and reads the business date; midnight may pass  *)
(* before it commits.  An operation on one product then writes and commits *)
(* in one step; an operation on a list of items works item by item on the  *)
(* transaction's own copy of the data (`work'), which is committed as a    *)
(* whole or dropped.                                                       *)
(*                                                                         *)
(* Quantities are counted in HALF units: an even quantity is a whole       *)
(* number of pieces, an odd one is a fraction only a "kg" product may      *)
(* hold.  Prices are per half unit, so that quantity * price is exact and  *)
(* the code's rounding to 2 decimals is left out (see README).             *)
(***************************************************************************)
EXTENDS Integers, FiniteSets, Functions

CONSTANTS
  Products,    \* product localIds
  None,        \* an optional field that the request leaves out
  ProductCap,  \* products the "bor" tier may hold (100 in the code)
  MaxDay,      \* bound: business days explored
  MaxRev,      \* bound: committed transactions
  MaxItems,    \* bound: items in one batch request
  Quantities,  \* absolute quantities a request may state
  Deltas,      \* quantities a sale, a restock or a purchase may state
  Prices,      \* prices a request may state
  Amounts,     \* money amounts a sale or a count may state
  Units        \* units a request may state

ASSUME BoundsAssumption ==
  /\ MaxDay \in Nat \ {0} /\ MaxRev \in Nat /\ MaxItems \in Nat /\ ProductCap \in Nat
ASSUME InputAssumption ==
  /\ Quantities \subseteq Nat /\ Deltas \subseteq Nat
  /\ Prices \subseteq Nat /\ Amounts \subseteq Nat
  /\ Units \subseteq {"dona", "kg"}
ASSUME NoneAssumption == None \notin Nat /\ None \notin {"dona", "kg"}

VARIABLES
  db,      \* the committed collections
  work,    \* the open transaction's view; equals db when none is open
  batch,   \* the open request: one product's, or a batch of items
  today,   \* the current business date
  rev      \* owner_write_versions.revision

vars == <<db, work, batch, today, rev>>

Days == 1..MaxDay

-----------------------------------------------------------------------------
(* Documents.                                                              *)

Product == [qty : Nat, unit : {"dona", "kg"}, buy : Nat, sell : Nat, epoch : Nat]

Entry == [start : Nat, current : Nat, buy : Nat, sell : Nat,
          lockedSold : Nat, lockedRevenue : Int, lockedProfit : Int]

\* A row of daily_snapshots.items.
SnapshotItem == [product : Products, sold : Nat, buy : Nat, sell : Nat,
                 revenue : Int, profit : Int]

Snapshot == [made : BOOLEAN, items : SUBSET SnapshotItem, cost : Int]

\* What the audit log adds up to for one product and day.
Trail == [sold : Int, revenue : Int, cost : Int, opening : Int]

NoProduct == [qty |-> 0, unit |-> "dona", buy |-> 0, sell |-> 0, epoch |-> 0]

NoEntry == [start |-> 0, current |-> 0, buy |-> 0, sell |-> 0,
            lockedSold |-> 0, lockedRevenue |-> 0, lockedProfit |-> 0]

NoSnapshot == [made |-> FALSE, items |-> {}, cost |-> 0]

FirstTrail(q) == [sold |-> 0, revenue |-> 0, cost |-> 0, opening |-> q]

NoBatch == [kind |-> "none", date |-> 0, late |-> FALSE, touched |-> {},
            count |-> 0, cost |-> 0]

-----------------------------------------------------------------------------
(* Quantities and money.                                                   *)

\* assertQuantityFitsUnit: only "kg" may hold a fraction.
FitsUnit(q, unit) == unit = "kg" \/ q % 2 = 0

\* normalizeQuantity: "dona" is rounded half up to a whole piece.
NormalizeQuantity(q, unit) == IF unit = "kg" THEN q ELSE 2 * ((q + 1) \div 2)

\* The units a day counts as sold by the fall from start to current.
NewSold(e) == IF e.start > e.current THEN e.start - e.current ELSE 0

Sold(e)    == e.lockedSold + NewSold(e)
Revenue(e) == e.lockedRevenue + NewSold(e) * e.sell
Profit(e)  == e.lockedProfit + NewSold(e) * (e.sell - e.buy)

\* Mutant: the frozen sales keep their revenue and lose their profit.
FreezeRevenueOnly(e) == [e EXCEPT
  !.start         = e.current,
  !.lockedSold    = @ + NewSold(e),
  !.lockedRevenue = @ + NewSold(e) * e.sell]

\* Move everything sold so far into the locked figures, at the entry's prices.
Freeze(e) == [e EXCEPT
  !.start         = e.current,
  !.lockedSold    = @ + NewSold(e),
  !.lockedRevenue = @ + NewSold(e) * e.sell,
  !.lockedProfit  = @ + NewSold(e) * (e.sell - e.buy)]

Given(field, fallback) == IF field = None THEN fallback ELSE field

-----------------------------------------------------------------------------
(* The collections, and how one operation changes them.  s is a view of    *)
(* the data, d the business date and r the transaction's revision, which    *)
(* becomes a counted product's stockEpoch.                                 *)

EmptyDb == [
  live     |-> {},                                   \* products
  tombs    |-> {},                                   \* product_tombstones
  product  |-> [p \in Products |-> NoProduct],
  entered  |-> [p \in Products |-> {}],              \* days with an entry
  entry    |-> [p \in Products |-> [d \in Days |-> NoEntry]],
  snapshot |-> [d \in Days |-> NoSnapshot],
  procured |-> [d \in Days |-> 0],                   \* sum of procurements
  trail    |-> [p \in Products |-> [d \in Days |-> FirstTrail(0)]],
  received |-> [p \in Products |-> 0]]               \* units taken in

FreshEntry(pr, q) ==
  [start |-> q, current |-> q, buy |-> pr.buy, sell |-> pr.sell,
   lockedSold |-> 0, lockedRevenue |-> 0, lockedProfit |-> 0]

\* The entry of p on d, or what the code falls back to when there is none.
EntryOr(s, p, d) == IF d \in s.entered[p] THEN s.entry[p][d]
                    ELSE FreshEntry(s.product[p], s.product[p].qty)

\* What an operation on one product stores: its row, its entry of the day, and
\* the audit log line.
Store(s, p, d, pr, e, t) == [s EXCEPT
  !.product[p]  = pr,
  !.entered[p]  = @ \cup {d},
  !.entry[p][d] = e,
  !.trail[p][d] = t]

\* today's entry, when there is one, tells the same stock as the product
ProjectionsAgree(s, p, d) ==
  d \in s.entered[p] => s.entry[p][d].current = s.product[p].qty

BuildSnapshotItem(s, p, d) == LET e == s.entry[p][d] IN
  [product |-> p, sold |-> Sold(e), buy |-> e.buy, sell |-> e.sell,
   revenue |-> Revenue(e), profit |-> Profit(e)]

\* snapshotService.recompute of one day: only the rows of ids are rebuilt when
\* a snapshot is there already, everything otherwise.
Rebuilt(s, d, ids) ==
  LET incremental == s.snapshot[d].made /\ ids # {}
      rows == {p \in Products : d \in s.entered[p] /\ (incremental => p \in ids)}
      kept == {i \in s.snapshot[d].items : incremental /\ i.product \notin ids}
  IN  [made  |-> TRUE,
       items |-> kept \cup {BuildSnapshotItem(s, p, d) : p \in rows},
       cost  |-> s.procured[d]]

Recompute(s, days, ids) == [s EXCEPT
  !.snapshot = [d \in Days |-> IF d \in days THEN Rebuilt(s, d, ids) ELSE @[d]]]

WriteProduct(s, d, p, q, unit, buy, sell, receipt) ==
  LET qty == NormalizeQuantity(q, unit)
      pr  == [qty |-> qty, unit |-> unit, buy |-> buy, sell |-> sell, epoch |-> 0]
  IN  [Store(s, p, d, pr, FreshEntry(pr, qty), FirstTrail(qty)) EXCEPT
         !.live        = @ \cup {p},
         !.procured[d] = IF receipt THEN @ + qty * buy ELSE @,
         !.received[p] = qty]

\* product.service update: the stock count changes only when the request states
\* a quantity; a changed price first freezes today's sales at the old price.
Edited(s, r, d, p, pay) ==
  LET old      == s.product[p]
      explicit == pay.quantity # None
      unit     == Given(pay.unit, old.unit)
      qty      == NormalizeQuantity(Given(pay.quantity, old.qty), unit)
      pr       == [qty     |-> IF explicit THEN qty ELSE old.qty,
                   unit    |-> unit,
                   buy     |-> Given(pay.buy, old.buy),
                   sell    |-> Given(pay.sell, old.sell),
                   epoch   |-> IF explicit /\ qty # old.qty THEN r ELSE old.epoch]
      was      == s.entry[p][d]
      newSell  == pay.sell # None /\ pay.sell # was.sell
      newBuy   == pay.buy # None /\ pay.buy # was.buy
      counted  == IF explicit
                  THEN [was EXCEPT !.start = NewSold(was) + qty, !.current = qty]
                  ELSE was
      frozen   == IF (newSell \/ newBuy) /\ NewSold(was) > 0
                  THEN Freeze(counted) ELSE counted
      next     == IF d \in s.entered[p]
                  THEN [frozen EXCEPT !.sell = IF newSell THEN pay.sell ELSE @,
                                      !.buy  = IF newBuy THEN pay.buy ELSE @]
                  ELSE FreshEntry(pr, qty)
      opening  == IF explicit \/ d \notin s.entered[p]
                  THEN s.trail[p][d].sold + qty ELSE s.trail[p][d].opening
  IN  Store(s, p, d, pr, next, [s.trail[p][d] EXCEPT !.opening = opening])

\* The entry after delta units came in on top of base.
Raise(base, delta) == [base EXCEPT !.start = @ + delta, !.current = @ + delta]

\* Goods come in: the product's row becomes pr, and the day's entry rises by
\* delta, or starts at the product's new quantity.  The base entry is what the
\* day's figures are when the goods arrive.
Received(s, d, p, delta, pr, base) ==
  LET next == IF d \in s.entered[p]
              THEN Raise(base, delta)
              ELSE FreshEntry(pr, pr.qty)
      opening == IF d \in s.entered[p] THEN s.trail[p][d].opening + delta ELSE pr.qty
  IN  [Store(s, p, d, pr, next, [s.trail[p][d] EXCEPT !.opening = opening]) EXCEPT
         !.received[p] = @ + delta]

Restocked(s, d, p, delta) ==
  Received(s, d, p, delta,
           [s.product[p] EXCEPT !.qty = @ + delta], s.entry[p][d])

\* Mutant: only the product learns the new cost.
PurchasedOldDailyCost(s, r, d, p, delta, buy) ==
  Received(s, d, p, delta,
           [s.product[p] EXCEPT !.qty = @ + delta, !.buy = buy, !.epoch = r],
           Freeze(s.entry[p][d]))

\* A purchase also sets the cost, so the day's earlier sales are frozen first.
Purchased(s, r, d, p, delta, buy) ==
  Received(s, d, p, delta,
           [s.product[p] EXCEPT !.qty = @ + delta, !.buy = buy, !.epoch = r],
           [Freeze(s.entry[p][d]) EXCEPT !.buy = buy])

\* Mutant: the epoch stays, so queued sales would cross the count.
AtCountSameEpoch(pr, current, r) == [pr EXCEPT !.qty = current]

\* An absolute count overwrites the product's stock and starts a new epoch.
AtCount(pr, current, r) == [pr EXCEPT !.qty = current, !.epoch = r]

\* inventory.service startDay, one item.
Opened(s, r, d, p, start, current) ==
  LET was  == EntryOr(s, p, d)
      next == [was EXCEPT !.start = start, !.current = current,
                          !.buy = s.product[p].buy, !.sell = s.product[p].sell]
  IN  Store(s, p, d, AtCount(s.product[p], current, r), next,
            [sold    |-> Sold(next),
             revenue |-> Revenue(next),
             cost    |-> Revenue(next) - Profit(next),
             opening |-> start + next.lockedSold])

\* inventory.service bulkUpdateCurrent, one item; revenue restates the money of
\* everything the day has sold.
Counted(s, r, d, p, current, revenue) ==
  LET was     == EntryOr(s, p, d)
      derived == [was EXCEPT !.current = current]
      restate == revenue # None /\ Sold(derived) > 0
      next    == IF restate
                 THEN [derived EXCEPT
                         !.start         = current,
                         !.lockedSold    = Sold(derived),
                         !.lockedProfit  = was.lockedProfit + revenue - was.lockedRevenue
                                             - NewSold(derived) * was.buy,
                         !.lockedRevenue = revenue]
                 ELSE derived
      gone    == was.current - current
      t       == s.trail[p][d]
  IN  Store(s, p, d, AtCount(s.product[p], current, r), next,
            [sold    |-> t.sold + gone,
             revenue |-> IF restate THEN revenue ELSE t.revenue + gone * was.sell,
             cost    |-> t.cost + gone * was.buy,
             opening |-> IF d \in s.entered[p] THEN t.opening ELSE was.start])

\* Mutant: the sold day's figure is taken for the live stock.
LiveFromDay(pr, late, q, current) == current

\* The stock left after a sale of q units: for a late sale it is not the day's
\* own figure.
LiveQuantity(pr, late, q, current) == IF late THEN pr.qty - q ELSE current

\* Mutant: from what is left only.
ShiftCurrentOnly(e, q) == [e EXCEPT !.current = @ - q]

\* A late sale takes its units out of a later day's entry, from both sides.
Shift(e, q) == [e EXCEPT !.start = @ - q, !.current = @ - q]

\* The sold-from entry: units at another price than the list price move into
\* the locked figures and leave the derived span.
AfterSale(was, q, charged) ==
  LET offList == charged # q * was.sell
      left    == [was EXCEPT !.current = @ - q]
  IN  IF offList
      THEN [left EXCEPT !.start         = @ - q,
                        !.lockedSold    = @ + q,
                        !.lockedRevenue = @ + charged,
                        !.lockedProfit  = @ + charged - q * was.buy]
      ELSE left

\* inventory.service sales, one line of q units that took `charged' money.  A
\* late line also takes the units out of every later day and rebuilds those
\* days' snapshots.
SoldLine(s, d, late, p, q, charged) ==
  LET was     == EntryOr(s, p, d)
      next    == AfterSale(was, q, charged)
      later   == {d2 \in s.entered[p] : late /\ d2 > d}
      shifted == [s EXCEPT
        !.entry[p] = [d2 \in Days |-> IF d2 \in later THEN Shift(s.entry[p][d2], q)
                                      ELSE s.entry[p][d2]],
        !.trail[p] = [d2 \in Days |-> IF d2 \in later
                                      THEN [s.trail[p][d2] EXCEPT !.opening = @ - q]
                                      ELSE s.trail[p][d2]]]
      t       == s.trail[p][d]
      pr      == [s.product[p] EXCEPT
                    !.qty = LiveQuantity(s.product[p], late, q, next.current)]
  IN  Recompute(Store(shifted, p, d, pr, next,
                      [sold    |-> t.sold + q,
                       revenue |-> t.revenue + charged,
                       cost    |-> t.cost + q * was.buy,
                       opening |-> IF d \in s.entered[p] THEN t.opening
                                   ELSE was.start]),
                later, {p})

-----------------------------------------------------------------------------
(* The owner's transactions.                                               *)

Init ==
  /\ db = EmptyDb
  /\ work = EmptyDb
  /\ batch = NoBatch
  /\ today = 1
  /\ rev = 0

\* The owner fence is free: no request of the same owner is open.
Idle == batch.kind = "none" /\ rev < MaxRev

CommitDb(s) == db' = s /\ work' = s /\ rev' = rev + 1

\* A request takes the fence, then reads the clock; every caller of the services holds
\* the fence already (idempotency.service 36).  A queued offline sale is of the earlier
\* day it was made on.
BeginBatch == \E kind \in {"product", "opening", "count", "sale", "purchase"}, d \in 1..today :
  /\ Idle
  /\ d < today => kind = "sale"
  /\ batch' = [kind |-> kind, date |-> d, late |-> d < today, touched |-> {},
                count |-> 0, cost |-> 0]
  /\ UNCHANGED <<db, work, today, rev>>

\* The open request is for one product: it commits what it has made of the committed
\* data, with the snapshot of its own day, and ends.
CommitProduct(p, s) ==
  /\ batch.kind = "product"
  /\ CommitDb(Recompute(s, {batch.date}, {p}))
  /\ batch' = NoBatch
  /\ UNCHANGED today

CanCreate(s, p) ==
  /\ p \notin s.live
  /\ p \notin s.tombs
  /\ Cardinality(s.live) < ProductCap

CreateProduct == \E p \in Products, q \in Quantities, unit \in Units,
                    buy \in Prices, sell \in Prices :
  /\ CanCreate(db, p)
  /\ sell >= buy
  /\ CommitProduct(p, WriteProduct(db, batch.date, p, q, unit, buy, sell, TRUE))

UpdateProduct == \E p \in db.live :
  \E pay \in [quantity : Quantities \cup {None}, unit : Units \cup {None},
              buy : Prices \cup {None}, sell : Prices \cup {None}] :
  /\ Given(pay.sell, db.product[p].sell) >= Given(pay.buy, db.product[p].buy)
  /\ CommitProduct(p, Edited(db, rev + 1, batch.date, p, pay))

Restock == \E p \in db.live, q \in Deltas :
  LET delta == NormalizeQuantity(q, db.product[p].unit) IN
  /\ delta > 0
  /\ ProjectionsAgree(db, p, batch.date)
  /\ CommitProduct(p, Restocked(db, batch.date, p, delta))

\* The one operation that needs no date.
RemoveProduct == \E p \in db.live :
  /\ Idle
  /\ CommitDb([db EXCEPT !.live = @ \ {p}, !.tombs = @ \cup {p},
                         !.product[p] = NoProduct])
  /\ UNCHANGED <<batch, today>>

\* snapshotService.createOrUpdate: a full rebuild of the snapshot of the day it was when
\* the request began, which may have waited for the fence since.
RebuildSnapshot == \E d \in 1..today :
  /\ Idle
  /\ CommitDb(Recompute(db, {d}, {}))
  /\ UNCHANGED <<batch, today>>

NextItem(p, cost) ==
  /\ batch.count < MaxItems
  /\ batch' = [batch EXCEPT !.touched = @ \cup {p}, !.count = @ + 1, !.cost = @ + cost]
  /\ UNCHANGED <<db, today, rev>>

\* Mutant: only the live stock is compared with the sold quantity.
LaterDaysUnchecked(s, p, d, q) == TRUE

LaterDaysHold(s, p, d, q) == \A d2 \in s.entered[p] : d2 > d =>
  s.entry[p][d2].current >= q /\ s.entry[p][d2].start >= q

OpenItem == \E p \in work.live, start \in Quantities, current \in Quantities :
  /\ batch.kind = "opening"
  /\ FitsUnit(start, work.product[p].unit)
  /\ FitsUnit(current, work.product[p].unit)
  /\ current <= start
  /\ work' = Opened(work, rev + 1, batch.date, p, start, current)
  /\ NextItem(p, 0)

CountItem == \E p \in work.live, current \in Quantities,
                revenue \in Amounts \cup {None} :
  LET was == EntryOr(work, p, batch.date) IN
  /\ batch.kind = "count"
  /\ FitsUnit(current, work.product[p].unit)
  /\ current <= was.start
  /\ revenue # None /\ revenue > 0 => Sold([was EXCEPT !.current = current]) > 0
  /\ work' = Counted(work, rev + 1, batch.date, p, current, revenue)
  /\ NextItem(p, 0)

SaleLine == \E p \in work.live, q \in Deltas, amount \in Amounts \cup {None} :
  LET was == EntryOr(work, p, batch.date) IN
  /\ batch.kind = "sale"
  /\ q > 0
  /\ FitsUnit(q, work.product[p].unit)
  /\ ~batch.late => ProjectionsAgree(work, p, batch.date)
  /\ q <= was.current
  /\ q <= work.product[p].qty
  /\ batch.late => LaterDaysHold(work, p, batch.date, q)
  /\ work' = SoldLine(work, batch.date, batch.late, p, q,
                      Given(amount, q * was.sell))
  /\ NextItem(p, 0)

\* The id of a product that the same request has made is the server's: no item names it.
PurchaseItem == \E p \in work.live, q \in Deltas, buy \in Prices :
  /\ batch.kind = "purchase"
  /\ p \in db.live
  /\ q > 0
  /\ FitsUnit(q, work.product[p].unit)
  /\ ProjectionsAgree(work, p, batch.date)
  /\ work' = Purchased(work, rev + 1, batch.date, p, q, buy)
  /\ NextItem(p, q * buy)

\* A purchase of something new: the price to sell at may be left out.  The product is made
\* by productService.create, which reads the clock again: past midnight its entry is of
\* the new day, while the procurement stays with the day of the request.
PurchaseNew == \E p \in Products, q \in Deltas, unit \in Units, buy \in Prices,
                  sell \in Prices \cup {None} :
  /\ batch.kind = "purchase"
  /\ q > 0
  /\ FitsUnit(q, unit)
  /\ CanCreate(work, p)
  /\ work' = Recompute(WriteProduct(work, today, p, q, unit, buy, Given(sell, buy), FALSE),
                       {today}, {p})
  /\ NextItem(p, q * buy)

\* Mutant: the snapshot is taken before the procurement document is stored.
CommitBatchSnapshotFirst ==
  /\ batch.count > 0
  /\ CommitDb([Recompute(work, {batch.date}, batch.touched) EXCEPT
                !.procured[batch.date] = @ + batch.cost])
  /\ batch' = NoBatch
  /\ UNCHANGED today

\* The procurement document and the day's snapshot come last, then everything
\* becomes visible at once.
CommitBatch ==
  /\ batch.count > 0
  /\ CommitDb(Recompute([work EXCEPT !.procured[batch.date] = @ + batch.cost],
                        {batch.date}, batch.touched))
  /\ batch' = NoBatch
  /\ UNCHANGED today

\* Any item's error, or a crash, drops the transaction.
AbortBatch ==
  /\ batch.kind # "none"
  /\ work' = db
  /\ batch' = NoBatch
  /\ UNCHANGED <<db, today, rev>>

\* Midnight may pass while a request is open; the request keeps its date.
NextDay ==
  /\ today < MaxDay
  /\ today' = today + 1
  /\ UNCHANGED <<db, work, batch, rev>>

Next ==
  \/ CreateProduct \/ UpdateProduct \/ Restock \/ RemoveProduct \/ RebuildSnapshot
  \/ BeginBatch \/ OpenItem \/ CountItem \/ SaleLine \/ PurchaseItem \/ PurchaseNew
  \/ CommitBatch \/ AbortBatch \/ NextDay

Spec == Init /\ [][Next]_vars

-----------------------------------------------------------------------------
(* Properties.                                                             *)

Db == [
  live     : SUBSET Products,
  tombs    : SUBSET Products,
  product  : [Products -> Product],
  entered  : [Products -> SUBSET Days],
  entry    : [Products -> [Days -> Entry]],
  snapshot : [Days -> Snapshot],
  procured : [Days -> Int],
  trail    : [Products -> [Days -> Trail]],
  received : [Products -> Int]]

Batch == [kind : {"none", "product", "opening", "count", "sale", "purchase"},
          date : Nat, late : BOOLEAN, touched : SUBSET Products,
          count : Nat, cost : Int]

\* The collections, the open transaction and the counters hold values of their
\* types; in particular no operation drives a quantity below zero, neither a
\* sale nor the shift a late sale makes in later days.
TypeOK ==
  /\ db \in Db
  /\ work \in Db
  /\ batch \in Batch
  /\ today \in Nat
  /\ rev \in Nat

\* A day never shows more stock left than it started with, whichever mix of
\* counts, off-list sales, late sales, restocks and frozen prices produced the
\* two numbers (inventory.service, product.service, procurement.service): what
\* is sold is their difference and is never negative.
CurrentWithinStart ==
  \A p \in Products : \A d \in db.entered[p] :
    db.entry[p][d].current <= db.entry[p][d].start

\* The two places that hold today's stock, the product and today's entry, never
\* drift apart by more than the half unit that switching a fractional product
\* to "dona" rounds away (product.service update on a day without an entry).
ProjectionsWithinRounding ==
  \A p \in db.live : today \in db.entered[p] =>
    LET gap == db.entry[p][today].current - db.product[p].qty
    IN  -1 <= gap /\ gap <= 1

\* Today's entry values sales at the product's own prices, after any mix of
\* price edits, purchases at a new cost, counts and late sales: the cashier
\* and the product page never quote different prices (procurement.service
\* 121-123 and product.service 388-406 change both places).
TodayPricesAgree ==
  \A p \in db.live : today \in db.entered[p] =>
    /\ db.entry[p][today].buy = db.product[p].buy
    /\ db.entry[p][today].sell = db.product[p].sell

\* What a day's entry reports as sold, taken and earned is exactly what the
\* audit trail of sales and counts adds up to, with every unit valued at the
\* price and cost in force when it was sold: no price edit, purchase, restock,
\* stock correction or late sale of another day re-values past sales. The
\* opening stock stays recoverable as startQuantity + lockedSold (README 97-98
\* and the comment of inventory.service sales).
LedgerMatchesTrail ==
  \A p \in Products : \A d \in db.entered[p] :
    LET e == db.entry[p][d]
        t == db.trail[p][d]
    IN  /\ Sold(e) = t.sold
        /\ Revenue(e) = t.revenue
        /\ Profit(e) = t.revenue - t.cost
        /\ e.start + e.lockedSold = t.opening

\* Every day with an entry has a snapshot, and each committed snapshot, built
\* incrementally by whatever operations touched that day or shifted it from an
\* earlier one, equals a full rebuild from the day's entries and procurements.
SnapshotDerived ==
  \A d \in Days :
    /\ (\E p \in Products : d \in db.entered[p]) => db.snapshot[d].made
    /\ db.snapshot[d].made => db.snapshot[d] = Rebuilt(db, d, {})

\* What all days of p report as sold.
SoldInAll(s, p) == SumFunction([d \in s.entered[p] |-> Sold(s.entry[p][d])])

\* Between two absolute counts of a product (its stockEpoch stays the same)
\* units neither appear nor vanish: what is on hand plus what all its days
\* report as sold, less what came in, is constant.
UnitsConserved ==
  [][\A p \in db.live \cap db'.live :
       db'.product[p].epoch = db.product[p].epoch =>
         db'.product[p].qty + SoldInAll(db', p) - db'.received[p]
           = db.product[p].qty + SoldInAll(db, p) - db.received[p]]_vars

\* What a closed day has sold, taken and earned changes only when a sale, a count or an
\* opening dated that very day commits (a queued sale, or a request that midnight
\* overtook), and a queued sale only adds to it.  Whatever else the owner does leaves it
\* alone, also when midnight overtakes it and its entry still goes to the closed day: an
\* edit or a purchase at another price, a restock, a new product, a late sale of another
\* day.  A closed day's entry is never lost.
ClosedDaysOnlyGainSales ==
  [][\A p \in Products : \A d \in Days : d < today =>
       LET e == db.entry[p][d]
           f == db'.entry[p][d]
       IN  /\ d \in db.entered[p] => d \in db'.entered[p]
           /\ IF batch.date = d /\ batch.kind \in {"sale", "count", "opening"}
              THEN batch.late => Sold(f) >= Sold(e) /\ Revenue(f) >= Revenue(e)
              ELSE Sold(f) = Sold(e) /\ Revenue(f) = Revenue(e) /\ Profit(f) = Profit(e)]_vars

\* What the comment at product.service 235-236 says: switching a product to
\* "dona" also makes its existing stock countable.
DonaIsCountable ==
  \A p \in db.live : db.product[p].unit = "dona" => db.product[p].qty % 2 = 0
=============================================================================
