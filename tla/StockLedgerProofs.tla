------------------------- MODULE StockLedgerProofs -------------------------
(***************************************************************************)
(* For every set of products, every bound and every set of inputs, the     *)
(* stock ledger keeps its types (so no quantity is ever negative), never   *)
(* shows more stock left than a day started with, and keeps the product    *)
(* and today's entry within one half unit.                                 *)
(*                                                                         *)
(* The three hold together or not at all: a sale stays in Nat only because *)
(* current <= start, and both are lost if an open request may reach a day  *)
(* after the one it was opened for.  IInv adds what is needed: the open    *)
(* transaction's view satisfies what the committed one does, and no entry  *)
(* lies after the day that the present writer works on, but for products   *)
(* that a purchase overtaken by midnight makes itself, on the new day.     *)
(*                                                                         *)
(* The money rests on it: MoneyInv says of both views that every entry     *)
(* reports what the audit trail adds up to, that today's entry quotes the  *)
(* product's prices, that only products there are or were have entries,    *)
(* and of an open request that it has kept what the days reported: those   *)
(* it is not about, and all of them when it records no sale.  One lemma    *)
(* per operation says what it does to the figures of the entry it writes;  *)
(* that an edit, a restock or a purchase keeps them, even on a day that    *)
(* has closed meanwhile, follows from its audit line, which says that      *)
(* nothing was sold.                                                       *)
(* SnapInv does the same for the snapshots: outside an open batch's day    *)
(* they are what a full rebuild gives, and on that day only the rows of    *)
(* products the batch has touched may be out of date.                      *)
(*                                                                         *)
(* The units rest on sums over the days an entry exists for (Sums).        *)
(* UnitsInv says of both views that what the stock has received less what  *)
(* the entries have sold is what the product has, and of an open batch how *)
(* far it is from that; every operation moves both sides alike.            *)
(*                                                                         *)
(* The reports read the committed data between two transactions, when      *)
(* every snapshot has the rows of its day's entries (SnapInv) and a day    *)
(* without an entry has no figures (MoneyInv): what is then left to show   *)
(* is that the same table is added up by rows, by columns and by months.   *)
(***************************************************************************)
EXTENDS RangeReports, Sums, TLAPS

\* No day of the view shows more stock left than it started with.
Ordered(s) == \A p \in Products : \A d \in s.entered[p] :
  s.entry[p][d].current <= s.entry[p][d].start

\* No entry lies after day n.
UpTo(s, n) == \A p \in Products : s.entered[p] \subseteq 1..n

\* At most the half unit that a change of unit rounds away.
Gap(a, b) == -1 <= a - b /\ a - b <= 1

\* The product and its entry of day t tell the same stock, but for rounding.
Near(s, t) == \A p \in s.live : t \in s.entered[p] =>
  Gap(s.entry[p][t].current, s.product[p].qty)

ViewOK(s, last, t) == s \in Db /\ Ordered(s) /\ UpTo(s, last) /\ Near(s, t)

\* The last day an entry may exist for: today, or the day of an open request that
\* midnight may have overtaken.
Last == IF batch.kind # "none" /\ ~batch.late THEN batch.date ELSE today

\* Only a sale may be dated in the past from its beginning.
BatchOK ==
  /\ batch \in Batch
  /\ batch.kind # "none" => batch.date \in 1..today
  /\ batch.late => batch.kind = "sale" /\ batch.date < today

\* The same for the open request's view: a purchase overtaken by midnight makes its new
\* products on the new day.
Reach == IF batch.kind = "purchase" THEN today ELSE Last

\* After its own day a purchase has entries of products it made itself only.
NewOnly(w) == /\ db.live \subseteq w.live
              /\ \A p \in Products : \/ w.entered[p] \subseteq 1..batch.date
                                     \/ p \in w.live \ db.live

\* The inductive invariant.
IInv ==
  /\ today \in Days
  /\ rev \in Nat
  /\ BatchOK
  /\ ViewOK(db, Last, today)
  /\ ViewOK(work, Reach, today)
  /\ batch.kind = "purchase" => NewOnly(work)
  /\ batch.kind \in {"none", "product"} => work = db

-----------------------------------------------------------------------------
(* Entries.                                                                *)

\* The figures of an entry: what was sold is never negative.
LEMMA FiguresType ==
  ASSUME NEW e \in Entry
  PROVE  /\ NewSold(e) \in Nat
         /\ Sold(e) \in Nat
         /\ Revenue(e) \in Int
         /\ Profit(e) \in Int
<1>1. /\ e.start \in Nat /\ e.current \in Nat /\ e.buy \in Nat /\ e.sell \in Nat
      /\ e.lockedSold \in Nat /\ e.lockedRevenue \in Int /\ e.lockedProfit \in Int
  BY DEF Entry
<1>2. NewSold(e) \in Nat
  BY <1>1 DEF NewSold
<1> HIDE DEF NewSold
<1>3. /\ NewSold(e) * e.sell \in Int
      /\ NewSold(e) * (e.sell - e.buy) \in Int
  BY <1>1, <1>2
<1> QED
  BY <1>1, <1>2, <1>3 DEF Sold, Revenue, Profit

\* Freezing the day's sales leaves nothing in the derived span.
LEMMA FreezeEntry ==
  ASSUME NEW e \in Entry
  PROVE  /\ Freeze(e) \in Entry
         /\ Freeze(e).start = e.current
         /\ Freeze(e).current = e.current
<1>1. /\ e.lockedSold + NewSold(e) \in Nat
      /\ e.lockedRevenue + NewSold(e) * e.sell \in Int
      /\ e.lockedProfit + NewSold(e) * (e.sell - e.buy) \in Int
  BY FiguresType DEF Sold, Revenue, Profit
<1> HIDE DEF NewSold
<1> QED
  BY <1>1 DEF Freeze, Entry

\* Rounding to a whole piece adds half a unit at most and takes nothing away.
LEMMA NormalizeRange ==
  ASSUME NEW q \in Nat, NEW unit
  PROVE  /\ NormalizeQuantity(q, unit) \in Nat
         /\ q <= NormalizeQuantity(q, unit)
         /\ NormalizeQuantity(q, unit) <= q + 1
BY DEF NormalizeQuantity

\* A first entry starts and stands at the quantity it is made with.
LEMMA FreshOK ==
  ASSUME NEW pr \in Product, NEW q \in Nat
  PROVE  /\ FreshEntry(pr, q) \in Entry
         /\ FreshEntry(pr, q).start = q
         /\ FreshEntry(pr, q).current = q
BY DEF FreshEntry, Entry, Product

\* Goods coming in raise both sides alike.
LEMMA RaiseEntry ==
  ASSUME NEW e \in Entry, NEW delta \in Nat
  PROVE  /\ Raise(e, delta) \in Entry
         /\ Raise(e, delta).start = e.start + delta
         /\ Raise(e, delta).current = e.current + delta
<1>1. e.start + delta \in Nat /\ e.current + delta \in Nat
  BY DEF Entry
<1> QED
  BY <1>1 DEF Raise, Entry

-----------------------------------------------------------------------------
(* Views.                                                                  *)

\* The entry a handler works from is in order, stored or not.
LEMMA EntryOrOK ==
  ASSUME NEW s \in Db, Ordered(s), NEW p \in Products, NEW d \in Days
  PROVE  /\ EntryOr(s, p, d) \in Entry
         /\ EntryOr(s, p, d).current <= EntryOr(s, p, d).start
         /\ d \in s.entered[p] => EntryOr(s, p, d) = s.entry[p][d]
         /\ d \notin s.entered[p] => EntryOr(s, p, d).current = s.product[p].qty
<1>1. s.product[p] \in Product /\ s.product[p].qty \in Nat /\ s.entry[p][d] \in Entry
  BY DEF Db, Product
<1>2. CASE d \in s.entered[p]
  BY <1>1, <1>2 DEF EntryOr, Ordered
<1>3. CASE d \notin s.entered[p]
  BY <1>1, <1>3, FreshOK DEF EntryOr
<1> QED
  BY <1>2, <1>3

\* One value of a function of functions is replaced.
LEMMA NestedUpdate ==
  ASSUME NEW A, NEW B, NEW C, NEW f \in [A -> [B -> C]],
         NEW a \in A, NEW b \in B, NEW c \in C
  PROVE  /\ [f EXCEPT ![a][b] = c] \in [A -> [B -> C]]
         /\ \A a2 \in A, b2 \in B :
              [f EXCEPT ![a][b] = c][a2][b2] = IF a2 = a /\ b2 = b THEN c ELSE f[a2][b2]
OBVIOUS

\* w is s but for the row and one entry of p.
Stored(w, s, p, d, pr, e) ==
  /\ w \in Db
  /\ w.live = s.live
  /\ \A p2 \in Products :
       /\ w.product[p2] = IF p2 = p THEN pr ELSE s.product[p2]
       /\ w.entered[p2] = IF p2 = p THEN s.entered[p] \cup {d} ELSE s.entered[p2]
       /\ \A d2 \in Days : w.entry[p2][d2] = IF p2 = p /\ d2 = d THEN e
                                             ELSE s.entry[p2][d2]

\* Storing changes one product, one entry and one audit line, and nothing else.
LEMMA StoreType ==
  ASSUME NEW s \in Db, NEW p \in Products, NEW d \in Days,
         NEW pr \in Product, NEW e \in Entry, NEW a \in Trail
  PROVE  Stored(Store(s, p, d, pr, e, a), s, p, d, pr, e)
<1> DEFINE w == Store(s, p, d, pr, e, a)
<1>0. /\ s.product \in [Products -> Product]
      /\ s.entered \in [Products -> SUBSET Days]
      /\ s.entry \in [Products -> [Days -> Entry]]
      /\ s.trail \in [Products -> [Days -> Trail]]
  BY DEF Db
<1>1. /\ [s.product EXCEPT ![p] = pr] \in [Products -> Product]
      /\ [s.entered EXCEPT ![p] = @ \cup {d}] \in [Products -> SUBSET Days]
  BY <1>0
<1>2. /\ [s.entry EXCEPT ![p][d] = e] \in [Products -> [Days -> Entry]]
      /\ [s.trail EXCEPT ![p][d] = a] \in [Products -> [Days -> Trail]]
  BY <1>0, NestedUpdate
<1>3. w = [s EXCEPT !.product = [s.product EXCEPT ![p] = pr],
                    !.entered = [s.entered EXCEPT ![p] = @ \cup {d}],
                    !.entry   = [s.entry EXCEPT ![p][d] = e],
                    !.trail   = [s.trail EXCEPT ![p][d] = a]]
  BY DEF Store
<1> HIDE DEF w
<1>4. /\ w \in Db /\ w.live = s.live
      /\ w.product = [s.product EXCEPT ![p] = pr]
      /\ w.entered = [s.entered EXCEPT ![p] = @ \cup {d}]
      /\ w.entry = [s.entry EXCEPT ![p][d] = e]
  BY <1>1, <1>2, <1>3 DEF Db
<1>5. \A p2 \in Products :
        /\ w.product[p2] = IF p2 = p THEN pr ELSE s.product[p2]
        /\ w.entered[p2] = IF p2 = p THEN s.entered[p] \cup {d} ELSE s.entered[p2]
  BY <1>0, <1>4
<1>6. \A p2 \in Products : \A d2 \in Days :
        w.entry[p2][d2] = IF p2 = p /\ d2 = d THEN e ELSE s.entry[p2][d2]
  <2> DEFINE f == [s.entry EXCEPT ![p][d] = e]
  <2>1. \A p2 \in Products, d2 \in Days :
          f[p2][d2] = IF p2 = p /\ d2 = d THEN e ELSE s.entry[p2][d2]
    BY <1>0, NestedUpdate
  <2>2. w.entry = f
    BY <1>4
  <2> HIDE DEF f
  <2> TAKE p2 \in Products
  <2> TAKE d2 \in Days
  <2>3. f[p2][d2] = IF p2 = p /\ d2 = d THEN e ELSE s.entry[p2][d2]
    BY <2>1
  <2> QED
    BY <2>2, <2>3
<1>7. Stored(w, s, p, d, pr, e)
  BY <1>4, <1>5, <1>6 DEF Stored
<1> QED
  BY <1>7 DEF w

\* A rebuilt snapshot holds values of its types.
LEMMA SnapshotType ==
  ASSUME NEW s \in Db, NEW d \in Days, NEW ids
  PROVE  Rebuilt(s, d, ids) \in Snapshot
<1>1. \A p \in Products : BuildSnapshotItem(s, p, d) \in SnapshotItem
  <2> TAKE p \in Products
  <2>1. s.entry[p][d] \in Entry
    BY DEF Db
  <2>2. s.entry[p][d].buy \in Nat /\ s.entry[p][d].sell \in Nat
    BY <2>1 DEF Entry
  <2> HIDE DEF Sold, Revenue, Profit
  <2> QED
    BY <2>1, <2>2, FiguresType DEF BuildSnapshotItem, SnapshotItem
<1>2. s.snapshot[d].items \subseteq SnapshotItem /\ s.procured[d] \in Int
  BY DEF Db, Snapshot
<1> QED
  BY <1>1, <1>2 DEF Rebuilt, Snapshot

\* Rebuilding snapshots changes snapshots only.
LEMMA RecomputeOK ==
  ASSUME NEW s, NEW last, NEW t, ViewOK(s, last, t), NEW days, NEW ids
  PROVE  ViewOK(Recompute(s, days, ids), last, t)
<1> DEFINE w == Recompute(s, days, ids)
<1>1. [d \in Days |-> IF d \in days THEN Rebuilt(s, d, ids) ELSE s.snapshot[d]]
        \in [Days -> Snapshot]
  BY SnapshotType DEF ViewOK, Db
<1>2. /\ w \in Db
      /\ w.live = s.live /\ w.product = s.product
      /\ w.entered = s.entered /\ w.entry = s.entry
  BY <1>1 DEF Recompute, ViewOK, Db
<1> QED
  BY <1>2 DEF ViewOK, Ordered, UpTo, Near

\* The day a writer works on is the last one written to, and is today unless
\* midnight has overtaken the writer.
Writing(s, d, t) == d \in Days /\ ViewOK(s, d, t) /\ (t = d \/ t \notin 1..d)

\* What p needs of it: only its own entries end with the day it is written on.
WritingOf(s, p, d, last, t) ==
  /\ d \in Days /\ d \in 1..last /\ ViewOK(s, last, t)
  /\ s.entered[p] \subseteq 1..d
  /\ t = d \/ t \notin 1..d

LEMMA WritingEach ==
  ASSUME NEW s, NEW d, NEW t, Writing(s, d, t), NEW p \in Products
  PROVE  WritingOf(s, p, d, d, t)
<1>1. d \in 1..d
  BY BoundsAssumption DEF Writing, Days
<1> QED
  BY <1>1 DEF Writing, WritingOf, ViewOK, UpTo

\* Storing keeps a view in order when the entry is.
LEMMA StoreOneOK ==
  ASSUME NEW s, NEW p \in Products, NEW d, NEW last, NEW t, WritingOf(s, p, d, last, t),
         NEW pr \in Product, NEW e \in Entry, NEW a \in Trail,
         e.current <= e.start, t = d => Gap(e.current, pr.qty)
  PROVE  ViewOK(Store(s, p, d, pr, e, a), last, t)
<1> DEFINE w == Store(s, p, d, pr, e, a)
<1>0. /\ s \in Db /\ Ordered(s) /\ UpTo(s, last) /\ Near(s, t) /\ d \in Days /\ d \in 1..last
      /\ s.live \subseteq Products /\ s.entered \in [Products -> SUBSET Days]
      /\ s.entered[p] \subseteq 1..d /\ (t = d \/ t \notin 1..d)
  BY DEF WritingOf, ViewOK, Db
<1>a. Stored(w, s, p, d, pr, e)
  BY <1>0, StoreType
<1> HIDE DEF w
<1>1. /\ w \in Db
      /\ w.live = s.live
      /\ \A p2 \in Products :
           /\ w.product[p2] = IF p2 = p THEN pr ELSE s.product[p2]
           /\ w.entered[p2] = IF p2 = p THEN s.entered[p] \cup {d} ELSE s.entered[p2]
           /\ \A d2 \in Days : w.entry[p2][d2] = IF p2 = p /\ d2 = d THEN e
                                                 ELSE s.entry[p2][d2]
  BY <1>a DEF Stored
<1>2. Ordered(w)
  <2> SUFFICES ASSUME NEW p2 \in Products, NEW d2 \in w.entered[p2]
               PROVE  w.entry[p2][d2].current <= w.entry[p2][d2].start
    BY DEF Ordered
  <2>0. w.entered \in [Products -> SUBSET Days]
    BY <1>1 DEF Db
  <2>1. d2 \in Days
    BY <2>0
  <2>3. w.entry[p2][d2] = IF p2 = p /\ d2 = d THEN e ELSE s.entry[p2][d2]
    BY <1>1, <2>1
  <2>2. (p2 = p /\ d2 = d) \/ d2 \in s.entered[p2]
    BY <1>1
  <2> QED
    BY <1>0, <2>2, <2>3 DEF Ordered
<1>3. UpTo(w, last)
  BY <1>0, <1>1 DEF UpTo
<1>4. Near(w, t)
  <2> SUFFICES ASSUME NEW p2 \in w.live, t \in w.entered[p2]
               PROVE  Gap(w.entry[p2][t].current, w.product[p2].qty)
    BY DEF Near, Gap
  <2>1. p2 \in Products /\ p2 \in s.live
    BY <1>0, <1>1
  <2>2. CASE p2 = p
    <3>1. t = d
      BY <1>0, <1>1, <2>2 DEF Days
    <3> QED
      BY <2>1, <2>2, <3>1, <1>0, <1>1
  <2>3. CASE p2 # p
    <3>1. t \in s.entered[p2] /\ t \in Days
      BY <2>1, <2>3, <1>0, <1>1
    <3> QED
      BY <2>1, <2>3, <3>1, <1>0, <1>1 DEF Near, Gap
  <2> QED
    BY <2>2, <2>3
<1> QED
  BY <1>1, <1>2, <1>3, <1>4 DEF ViewOK, w

LEMMA StoreOK ==
  ASSUME NEW s, NEW d, NEW t, Writing(s, d, t), NEW p \in Products,
         NEW pr \in Product, NEW e \in Entry, NEW a \in Trail,
         e.current <= e.start, t = d => Gap(e.current, pr.qty)
  PROVE  ViewOK(Store(s, p, d, pr, e, a), d, t)
<1>1. WritingOf(s, p, d, d, t)
  BY WritingEach
<1> QED
  BY <1>1, StoreOneOK

\* What no part of the invariant looks at may change freely, and a product may
\* come to life whose stock and entry agree.
LEMMA SideFields ==
  ASSUME NEW s, NEW last, NEW t, ViewOK(s, last, t), NEW w \in Db,
         w.product = s.product, w.entered = s.entered, w.entry = s.entry,
         \A p \in w.live \ s.live : t \in s.entered[p] =>
            Gap(s.entry[p][t].current, s.product[p].qty)
  PROVE  ViewOK(w, last, t)
BY DEF ViewOK, Ordered, UpTo, Near, Gap

-----------------------------------------------------------------------------
(* One operation.                                                          *)

\* Creating a product, by itself or inside a purchase, keeps a view in order.
LEMMA WriteProductOK ==
  ASSUME NEW s, NEW d, NEW t, Writing(s, d, t),
         NEW p \in Products, NEW q \in Nat, NEW unit \in {"dona", "kg"},
         NEW buy \in Nat, NEW sell \in Nat, NEW receipt \in BOOLEAN
  PROVE  ViewOK(WriteProduct(s, d, p, q, unit, buy, sell, receipt), d, t)
<1> DEFINE qty == NormalizeQuantity(q, unit)
           pr  == [qty |-> qty, unit |-> unit, buy |-> buy, sell |-> sell,
                   epoch |-> 0]
           e   == FreshEntry(pr, qty)
           put == Store(s, p, d, pr, e, FirstTrail(qty))
           w   == WriteProduct(s, d, p, q, unit, buy, sell, receipt)
<1>0. s \in Db /\ d \in Days
  BY DEF Writing, ViewOK
<1>1. qty \in Nat
  BY NormalizeRange
<1>5. w = [put EXCEPT !.live        = @ \cup {p},
                      !.procured[d] = IF receipt THEN @ + qty * buy ELSE @,
                      !.received[p] = qty]
  BY DEF WriteProduct
<1> HIDE DEF qty
<1>2. pr \in Product /\ pr.qty = qty
  BY <1>1 DEF Product
<1> HIDE DEF pr
<1>3. e \in Entry /\ e.start = qty /\ e.current = qty
  BY <1>1, <1>2, FreshOK
<1>4. FirstTrail(qty) \in Trail /\ qty * buy \in Int
  BY <1>1 DEF FirstTrail, Trail
<1> HIDE DEF e
<1>6. ViewOK(put, d, t)
  BY <1>1, <1>2, <1>3, <1>4, StoreOK DEF Gap
<1>a. Stored(put, s, p, d, pr, e)
  BY <1>0, <1>2, <1>3, <1>4, StoreType
<1>7. put.product[p] = pr /\ put.entry[p][d] = e
  BY <1>0, <1>a DEF Stored
<1> HIDE DEF put, w
<1>8. /\ [put.procured EXCEPT ![d] = IF receipt THEN @ + qty * buy ELSE @] \in [Days -> Int]
      /\ [put.received EXCEPT ![p] = qty] \in [Products -> Int]
  BY <1>0, <1>1, <1>4, <1>6 DEF ViewOK, Db
<1>9. /\ w \in Db
      /\ w.product = put.product /\ w.entered = put.entered /\ w.entry = put.entry
      /\ w.live = put.live \cup {p}
  BY <1>5, <1>6, <1>8 DEF ViewOK, Db
<1>10. t \in put.entered[p] => t = d
  BY <1>6 DEF ViewOK, UpTo, Writing
<1>11. ViewOK(w, d, t)
  <2> SUFFICES ASSUME NEW p2 \in w.live \ put.live, t \in put.entered[p2]
               PROVE  Gap(put.entry[p2][t].current, put.product[p2].qty)
    BY <1>6, <1>9, SideFields
  <2> QED
    BY <1>1, <1>2, <1>3, <1>7, <1>9, <1>10 DEF Gap
<1> QED
  BY <1>11 DEF w

\* What an update request may state.
Pay == [quantity : Nat \cup {None}, unit : {"dona", "kg"} \cup {None},
        buy : Nat \cup {None}, sell : Nat \cup {None}]

\* A product edit keeps a view in order: a stated quantity moves both places,
\* a frozen day starts where it stands.
LEMMA EditedOK ==
  ASSUME NEW s, NEW d, NEW t, Writing(s, d, t), NEW r \in Nat,
         NEW p \in s.live, NEW pay \in Pay
  PROVE  ViewOK(Edited(s, r, d, p, pay), d, t)
<1> DEFINE old      == s.product[p]
           explicit == pay.quantity # None
           unit     == Given(pay.unit, old.unit)
           qty      == NormalizeQuantity(Given(pay.quantity, old.qty), unit)
           pr       == [qty     |-> IF explicit THEN qty ELSE old.qty,
                        unit    |-> unit,
                        buy     |-> Given(pay.buy, old.buy),
                        sell    |-> Given(pay.sell, old.sell),
                        epoch   |-> IF explicit /\ qty # old.qty THEN r ELSE old.epoch]
           was      == s.entry[p][d]
           newSell  == pay.sell # None /\ pay.sell # was.sell
           newBuy   == pay.buy # None /\ pay.buy # was.buy
           counted  == IF explicit
                       THEN [was EXCEPT !.start = NewSold(was) + qty, !.current = qty]
                       ELSE was
           frozen   == IF (newSell \/ newBuy) /\ NewSold(was) > 0
                       THEN Freeze(counted) ELSE counted
           kept     == [frozen EXCEPT !.sell    = IF newSell THEN pay.sell ELSE @,
                                      !.buy     = IF newBuy THEN pay.buy ELSE @]
           next     == IF d \in s.entered[p] THEN kept ELSE FreshEntry(pr, qty)
           opening  == IF explicit \/ d \notin s.entered[p]
                       THEN s.trail[p][d].sold + qty ELSE s.trail[p][d].opening
           audit    == [s.trail[p][d] EXCEPT !.opening = opening]
<1>0. /\ s \in Db /\ d \in Days /\ p \in Products /\ Ordered(s) /\ Near(s, t)
      /\ was \in Entry /\ old \in Product /\ s.trail[p][d] \in Trail
  BY DEF Writing, ViewOK, Db
<1>x. Edited(s, r, d, p, pay) = Store(s, p, d, pr, next, audit)
  BY DEF Edited
<1>1. /\ unit \in {"dona", "kg"}
      /\ Given(pay.quantity, old.qty) \in Nat
      /\ Given(pay.buy, old.buy) \in Nat
      /\ Given(pay.sell, old.sell) \in Nat
      /\ ~explicit => Given(pay.quantity, old.qty) = old.qty
  BY <1>0 DEF Pay, Given, Product
<1>2. qty \in Nat /\ (~explicit => old.qty <= qty /\ qty <= old.qty + 1)
  BY <1>1, NormalizeRange
<1>3. pr \in Product /\ pr.qty = IF explicit THEN qty ELSE old.qty
  BY <1>0, <1>1, <1>2 DEF Product
<1>4. counted \in Entry /\ counted.current = IF explicit THEN qty ELSE was.current
  <2>1. NewSold(was) + qty \in Nat
    BY <1>0, <1>2, FiguresType
  <2> HIDE DEF qty, was, explicit
  <2> QED
    BY <1>0, <1>2, <2>1 DEF Entry
<1>5. d \in s.entered[p] => counted.current <= counted.start
  <2>1. was.current <= was.start \/ d \notin s.entered[p]
    BY <1>0 DEF Ordered
  <2>2. explicit => counted.start = NewSold(was) + qty
    BY <1>0 DEF Entry
  <2> QED
    BY <1>0, <1>2, <1>4, <2>1, <2>2, FiguresType
<1>6. /\ frozen \in Entry
      /\ frozen.current = counted.current
      /\ d \in s.entered[p] => frozen.current <= frozen.start
  <2> HIDE DEF counted
  <2>1. frozen = counted \/ frozen = Freeze(counted)
    OBVIOUS
  <2>2. counted.current \in Nat
    BY <1>4 DEF Entry
  <2> HIDE DEF frozen
  <2> QED
    BY <1>4, <1>5, <2>1, <2>2, FreezeEntry
<1>7. (newSell => pay.sell \in Nat) /\ (newBuy => pay.buy \in Nat)
  BY DEF Pay
<1>8. /\ kept \in Entry
      /\ kept.current = frozen.current /\ kept.start = frozen.start
  <2> HIDE DEF frozen, newSell, newBuy
  <2>1. /\ (IF newSell THEN pay.sell ELSE frozen.sell) \in Nat
        /\ (IF newBuy THEN pay.buy ELSE frozen.buy) \in Nat
    BY <1>6, <1>7 DEF Entry
  <2> QED
    BY <1>6, <2>1 DEF Entry
<1> HIDE DEF kept, frozen, counted, unit
<1>9. next \in Entry /\ next.current <= next.start
  <2>1. CASE d \in s.entered[p]
    BY <1>6, <1>8, <2>1
  <2>2. CASE d \notin s.entered[p]
    <3> HIDE DEF pr, qty
    <3> QED
      BY <1>2, <1>3, <2>2, FreshOK
  <2> QED
    BY <2>1, <2>2
<1>10. t = d => Gap(next.current, pr.qty)
  <2> SUFFICES ASSUME t = d PROVE Gap(next.current, pr.qty)
    OBVIOUS
  <2>1. old.qty \in Nat
    BY <1>0 DEF Product
  <2>2. CASE d \in s.entered[p]
    <3>1. Gap(was.current, old.qty)
      BY <2>2, <1>0 DEF Near, Gap
    <3>2. next.current = IF explicit THEN qty ELSE was.current
      BY <2>2, <1>4, <1>6, <1>8
    <3> HIDE DEF next, pr, qty, explicit, was, old
    <3> QED
      BY <1>2, <1>3, <3>1, <3>2, <2>1 DEF Gap
  <2>3. CASE d \notin s.entered[p]
    <3> HIDE DEF pr, qty
    <3>1. next.current = qty
      BY <1>2, <1>3, <2>3, FreshOK
    <3> HIDE DEF next, explicit, old
    <3> QED
      BY <1>2, <1>3, <3>1, <2>1 DEF Gap
  <2> QED
    BY <2>2, <2>3
<1>11. audit \in Trail
  <2>1. opening \in Int
    <3> HIDE DEF qty, explicit
    <3> QED
      BY <1>0, <1>2 DEF Trail
  <2> HIDE DEF opening
  <2> QED
    BY <1>0, <2>1 DEF Trail
<1> HIDE DEF next, pr, audit
<1> QED
  BY <1>0, <1>3, <1>9, <1>10, <1>11, <1>x, StoreOK

\* Goods coming in keep a view in order.
LEMMA ReceivedOK ==
  ASSUME NEW s, NEW p \in Products, NEW d, NEW last, NEW t, WritingOf(s, p, d, last, t),
         NEW delta \in Nat,
         NEW pr \in Product, pr.qty = s.product[p].qty + delta,
         NEW base \in Entry,
         d \in s.entered[p] => /\ base.current <= base.start
                               /\ base.current = s.entry[p][d].current,
         t = d /\ d \in s.entered[p] => Gap(s.entry[p][d].current, s.product[p].qty)
  PROVE  ViewOK(Received(s, d, p, delta, pr, base), last, t)
<1> DEFINE next    == IF d \in s.entered[p] THEN Raise(base, delta)
                      ELSE FreshEntry(pr, pr.qty)
           opening == IF d \in s.entered[p] THEN s.trail[p][d].opening + delta ELSE pr.qty
           audit   == [s.trail[p][d] EXCEPT !.opening = opening]
           put     == Store(s, p, d, pr, next, audit)
           w       == Received(s, d, p, delta, pr, base)
<1>0. /\ s \in Db /\ d \in Days
      /\ s.product[p] \in Product /\ s.trail[p][d] \in Trail /\ s.entry[p][d] \in Entry
  BY DEF WritingOf, ViewOK, Db
<1>1. w = [put EXCEPT !.received[p] = @ + delta]
  BY DEF Received
<1>2. /\ pr.qty \in Nat /\ s.product[p].qty \in Nat
      /\ base.current \in Nat /\ base.start \in Nat
      /\ s.entry[p][d].current \in Nat
  BY <1>0 DEF Product, Entry
<1>3. /\ next \in Entry
      /\ d \in s.entered[p] => /\ next.start = base.start + delta
                                /\ next.current = base.current + delta
      /\ d \notin s.entered[p] => /\ next.start = pr.qty
                                   /\ next.current = pr.qty
  <2>1. CASE d \in s.entered[p]
    BY <2>1, RaiseEntry
  <2>2. CASE d \notin s.entered[p]
    BY <1>2, <2>2, FreshOK
  <2> QED
    BY <2>1, <2>2
<1>4. audit \in Trail
  <2>1. opening \in Int
    BY <1>0, <1>2 DEF Trail
  <2> HIDE DEF opening
  <2> QED
    BY <1>0, <2>1 DEF Trail
<1> HIDE DEF next, audit
<1>5. next.current <= next.start /\ (t = d => Gap(next.current, pr.qty))
  BY <1>2, <1>3 DEF Gap
<1>6. ViewOK(put, last, t)
  BY <1>3, <1>4, <1>5, StoreOneOK
<1> HIDE DEF put, w
<1>7. [put.received EXCEPT ![p] = @ + delta] \in [Products -> Int]
  BY <1>6 DEF ViewOK, Db
<1>8. /\ w \in Db /\ w.live = put.live
      /\ w.product = put.product /\ w.entered = put.entered /\ w.entry = put.entry
  BY <1>1, <1>6, <1>7 DEF ViewOK, Db
<1>9. ViewOK(w, last, t)
  BY <1>6, <1>8, SideFields
<1> QED
  BY <1>9 DEF w

\* A restock keeps a view in order.
LEMMA RestockedOK ==
  ASSUME NEW s, NEW p \in s.live, NEW d, NEW last, NEW t, WritingOf(s, p, d, last, t),
         NEW delta \in Nat
  PROVE  ViewOK(Restocked(s, d, p, delta), last, t)
<1> DEFINE pr == [s.product[p] EXCEPT !.qty = @ + delta]
<1>1. /\ p \in Products /\ s.product[p] \in Product /\ s.entry[p][d] \in Entry
      /\ Ordered(s) /\ Near(s, t)
  BY DEF WritingOf, ViewOK, Db
<1>2. pr \in Product /\ pr.qty = s.product[p].qty + delta
  <2>1. s.product[p].qty + delta \in Nat
    BY <1>1 DEF Product
  <2> QED
    BY <1>1, <2>1 DEF Product
<1>3. d \in s.entered[p] => s.entry[p][d].current <= s.entry[p][d].start
  BY <1>1 DEF Ordered
<1>4. t = d /\ d \in s.entered[p] => Gap(s.entry[p][d].current, s.product[p].qty)
  BY <1>1 DEF Near, Gap
<1>5. Restocked(s, d, p, delta) = Received(s, d, p, delta, pr, s.entry[p][d])
  BY DEF Restocked
<1> HIDE DEF pr
<1> QED
  BY <1>1, <1>2, <1>3, <1>4, <1>5, ReceivedOK

\* A purchase of a known product keeps a view in order.
LEMMA PurchasedOK ==
  ASSUME NEW s, NEW p \in s.live, NEW d, NEW last, NEW t, WritingOf(s, p, d, last, t),
         NEW r \in Nat, NEW delta \in Nat, NEW buy \in Nat
  PROVE  ViewOK(Purchased(s, r, d, p, delta, buy), last, t)
<1> DEFINE pr   == [s.product[p] EXCEPT !.qty = @ + delta, !.buy = buy, !.epoch = r]
           base == [Freeze(s.entry[p][d]) EXCEPT !.buy = buy]
<1>1. /\ p \in Products /\ s.product[p] \in Product /\ s.entry[p][d] \in Entry
      /\ Near(s, t)
  BY DEF WritingOf, ViewOK, Db
<1>2. pr \in Product /\ pr.qty = s.product[p].qty + delta
  <2>1. s.product[p].qty + delta \in Nat
    BY <1>1 DEF Product
  <2> QED
    BY <1>1, <2>1 DEF Product
<1>3. /\ base \in Entry
      /\ base.current <= base.start
      /\ base.current = s.entry[p][d].current
  <2>1. /\ Freeze(s.entry[p][d]) \in Entry
        /\ Freeze(s.entry[p][d]).start = s.entry[p][d].current
        /\ Freeze(s.entry[p][d]).current = s.entry[p][d].current
        /\ s.entry[p][d].current \in Nat
    BY <1>1, FreezeEntry DEF Entry
  <2> QED
    BY <2>1 DEF Entry
<1>4. t = d /\ d \in s.entered[p] => Gap(s.entry[p][d].current, s.product[p].qty)
  BY <1>1 DEF Near, Gap
<1>5. Purchased(s, r, d, p, delta, buy) = Received(s, d, p, delta, pr, base)
  BY DEF Purchased
<1> HIDE DEF pr, base
<1> QED
  BY <1>1, <1>2, <1>3, <1>4, <1>5, ReceivedOK

\* A count makes the product's stock the entry's.
LEMMA AtCountOK ==
  ASSUME NEW pr \in Product, NEW q \in Nat, NEW r \in Nat
  PROVE  AtCount(pr, q, r) \in Product /\ AtCount(pr, q, r).qty = q
BY DEF AtCount, Product

\* Opening a day keeps a view in order.
LEMMA OpenedOK ==
  ASSUME NEW s, NEW d, NEW t, Writing(s, d, t), NEW r \in Nat,
         NEW p \in s.live, NEW start \in Nat, NEW current \in Nat, current <= start
  PROVE  ViewOK(Opened(s, r, d, p, start, current), d, t)
<1> DEFINE was   == EntryOr(s, p, d)
           next  == [was EXCEPT !.start = start, !.current = current,
                                !.buy = s.product[p].buy, !.sell = s.product[p].sell]
           audit == [sold    |-> Sold(next),
                     revenue |-> Revenue(next),
                     cost    |-> Revenue(next) - Profit(next),
                     opening |-> start + next.lockedSold]
<1>1. /\ p \in Products /\ s \in Db /\ d \in Days /\ Ordered(s)
      /\ s.product[p] \in Product
      /\ s.product[p].buy \in Nat /\ s.product[p].sell \in Nat
  BY DEF Writing, ViewOK, Db, Product
<1>2. was \in Entry
  BY <1>1, EntryOrOK
<1>3. Opened(s, r, d, p, start, current)
        = Store(s, p, d, AtCount(s.product[p], current, r), next, audit)
  BY DEF Opened
<1> HIDE DEF was
<1>4. next \in Entry /\ next.start = start /\ next.current = current
  BY <1>1, <1>2 DEF Entry
<1> HIDE DEF next
<1>5. audit \in Trail
  <2>1. /\ Sold(next) \in Int /\ Revenue(next) \in Int /\ Profit(next) \in Int
        /\ next.lockedSold \in Nat
    BY <1>4, FiguresType DEF Entry
  <2> HIDE DEF Sold, Revenue, Profit
  <2> QED
    BY <2>1 DEF Trail
<1> HIDE DEF audit
<1>6. /\ AtCount(s.product[p], current, r) \in Product
      /\ AtCount(s.product[p], current, r).qty = current
  BY <1>1, AtCountOK
<1> QED
  BY <1>1, <1>3, <1>4, <1>5, <1>6, StoreOK DEF Gap

\* A count, with the money restated or not, keeps a view in order.
LEMMA CountedOK ==
  ASSUME NEW s, NEW d, NEW t, Writing(s, d, t), NEW r \in Nat,
         NEW p \in s.live, NEW current \in Nat,
         current <= EntryOr(s, p, d).start, NEW revenue \in Nat \cup {None}
  PROVE  ViewOK(Counted(s, r, d, p, current, revenue), d, t)
<1> DEFINE was      == EntryOr(s, p, d)
           derived  == [was EXCEPT !.current = current]
           restate  == revenue # None /\ Sold(derived) > 0
           profit   == was.lockedProfit + revenue - was.lockedRevenue
                         - NewSold(derived) * was.buy
           restated == [derived EXCEPT
                          !.start         = current,
                          !.lockedSold    = Sold(derived),
                          !.lockedProfit  = profit,
                          !.lockedRevenue = revenue]
           next     == IF restate THEN restated ELSE derived
           gone     == was.current - current
           a        == s.trail[p][d]
           audit    == [sold    |-> a.sold + gone,
                        revenue |-> IF restate THEN revenue ELSE a.revenue + gone * was.sell,
                        cost    |-> a.cost + gone * was.buy,
                        opening |-> IF d \in s.entered[p] THEN a.opening ELSE was.start]
<1>1. /\ p \in Products /\ s \in Db /\ d \in Days /\ Ordered(s)
      /\ s.product[p] \in Product /\ a \in Trail
  BY DEF Writing, ViewOK, Db
<1>2. /\ was \in Entry
      /\ was.start \in Nat /\ was.current \in Nat /\ was.buy \in Nat /\ was.sell \in Nat
      /\ was.lockedProfit \in Int /\ was.lockedRevenue \in Int
  BY <1>1, EntryOrOK DEF Entry
<1>3. Counted(s, r, d, p, current, revenue)
        = Store(s, p, d, AtCount(s.product[p], current, r), next, audit)
  BY DEF Counted
<1>4. current <= was.start
  OBVIOUS
<1> HIDE DEF was
<1>5. /\ derived \in Entry
      /\ derived.start = was.start /\ derived.current = current
  BY <1>2 DEF Entry
<1>6. NewSold(derived) \in Nat /\ Sold(derived) \in Nat
  BY <1>5, FiguresType
<1> HIDE DEF derived, NewSold, Sold
<1>7. restate => /\ restated \in Entry
                 /\ restated.start = current /\ restated.current = current
  <2> SUFFICES ASSUME restate
               PROVE  /\ restated \in Entry
                      /\ restated.start = current /\ restated.current = current
    OBVIOUS
  <2>1. revenue \in Int
    OBVIOUS
  <2>2. profit \in Int
    BY <1>2, <1>6, <2>1
  <2> HIDE DEF profit
  <2> QED
    BY <1>5, <1>6, <2>1, <2>2 DEF Entry
<1> HIDE DEF restated
<1>8. next \in Entry /\ next.current = current /\ next.current <= next.start
  BY <1>4, <1>5, <1>7
<1>9. audit \in Trail
  <2>1. gone \in Int /\ gone * was.sell \in Int /\ gone * was.buy \in Int
    BY <1>2
  <2> HIDE DEF gone
  <2>2. restate => revenue \in Int
    OBVIOUS
  <2> HIDE DEF restate, a
  <2> QED
    BY <1>1, <1>2, <2>1, <2>2 DEF Trail
<1> HIDE DEF next, audit
<1>10. /\ AtCount(s.product[p], current, r) \in Product
       /\ AtCount(s.product[p], current, r).qty = current
  BY <1>1, AtCountOK
<1> QED
  BY <1>1, <1>3, <1>8, <1>9, <1>10, StoreOK DEF Gap

\* What is left after a sale of no more than there was.
LEMMA AfterSaleOK ==
  ASSUME NEW e \in Entry, e.current <= e.start, NEW q \in Nat, q <= e.current,
         NEW charged \in Int
  PROVE  /\ AfterSale(e, q, charged) \in Entry
         /\ AfterSale(e, q, charged).current = e.current - q
         /\ AfterSale(e, q, charged).current <= AfterSale(e, q, charged).start
<1> DEFINE left  == [e EXCEPT !.current = @ - q]
           money == e.lockedProfit + charged - q * e.buy
           taken == [left EXCEPT !.start         = @ - q,
                                 !.lockedSold    = @ + q,
                                 !.lockedRevenue = @ + charged,
                                 !.lockedProfit  = @ + charged - q * e.buy]
<1>1. /\ e.start \in Nat /\ e.current \in Nat /\ e.buy \in Nat
      /\ e.lockedSold \in Nat /\ e.lockedRevenue \in Int /\ e.lockedProfit \in Int
  BY DEF Entry
<1>2. /\ e.current - q \in Nat /\ e.start - q \in Nat
      /\ e.lockedSold + q \in Nat /\ e.lockedRevenue + charged \in Int
  BY <1>1
<1>3. money \in Int
  BY <1>1
<1>4. /\ left \in Entry /\ left.current = e.current - q /\ left.start = e.start
      /\ left.lockedSold = e.lockedSold /\ left.lockedRevenue = e.lockedRevenue
      /\ left.lockedProfit = e.lockedProfit
  BY <1>2 DEF Entry
<1> HIDE DEF left
<1>5. taken = [left EXCEPT !.start = e.start - q, !.lockedSold = e.lockedSold + q,
                           !.lockedRevenue = e.lockedRevenue + charged,
                           !.lockedProfit = money]
  BY <1>4
<1> HIDE DEF taken, money
<1>6. /\ taken \in Entry /\ taken.current = e.current - q /\ taken.start = e.start - q
  BY <1>2, <1>3, <1>4, <1>5 DEF Entry
<1>7. AfterSale(e, q, charged) \in {left, taken}
  BY DEF AfterSale, left, taken
<1> QED
  BY <1>1, <1>4, <1>6, <1>7

\* A late sale's shift of a later day that holds enough leaves both sides in Nat.
LEMMA ShiftOK ==
  ASSUME NEW e \in Entry, NEW q \in Nat, q <= e.start, q <= e.current
  PROVE  /\ Shift(e, q) \in Entry
         /\ Shift(e, q).start = e.start - q
         /\ Shift(e, q).current = e.current - q
<1>1. e.start - q \in Nat /\ e.current - q \in Nat
  BY DEF Entry
<1> QED
  BY <1>1 DEF Shift, Entry

\* A sale on the writer's day, or a late one on a day before today.
LEMMA SoldLineOK ==
  ASSUME NEW s, NEW last, NEW t, ViewOK(s, last, t), NEW d \in Days, d \in 1..last,
         NEW late \in BOOLEAN,
         late => last = t /\ t \in Days /\ d < t,
         ~late => last = d /\ (t = d \/ t \notin 1..d),
         NEW p \in s.live, NEW q \in Nat, NEW charged \in Int,
         q <= EntryOr(s, p, d).current, q <= s.product[p].qty,
         late => LaterDaysHold(s, p, d, q),
         ~late => ProjectionsAgree(s, p, d)
  PROVE  ViewOK(SoldLine(s, d, late, p, q, charged), last, t)
<1> DEFINE was     == EntryOr(s, p, d)
           next    == AfterSale(was, q, charged)
           later   == {d2 \in s.entered[p] : late /\ d2 > d}
           row     == [d2 \in Days |-> IF d2 \in later THEN Shift(s.entry[p][d2], q)
                                       ELSE s.entry[p][d2]]
           log     == [d2 \in Days |-> IF d2 \in later
                                       THEN [s.trail[p][d2] EXCEPT !.opening = @ - q]
                                       ELSE s.trail[p][d2]]
           shifted == [s EXCEPT !.entry[p] = row, !.trail[p] = log]
           a       == s.trail[p][d]
           pr      == [s.product[p] EXCEPT
                         !.qty     = LiveQuantity(s.product[p], late, q, next.current)]
           audit   == [sold    |-> a.sold + q,
                       revenue |-> a.revenue + charged,
                       cost    |-> a.cost + q * was.buy,
                       opening |-> IF d \in s.entered[p] THEN a.opening ELSE was.start]
           w       == Store(shifted, p, d, pr, next, audit)
<1>0. /\ s \in Db /\ Ordered(s) /\ UpTo(s, last) /\ Near(s, t)
      /\ p \in Products /\ s.product[p] \in Product /\ s.product[p].qty \in Nat
      /\ s.entered \in [Products -> SUBSET Days]
      /\ s.entry \in [Products -> [Days -> Entry]]
      /\ s.trail \in [Products -> [Days -> Trail]]
      /\ a \in Trail /\ s.live \subseteq Products
  BY DEF ViewOK, Db, Product
<1>x. SoldLine(s, d, late, p, q, charged) = Recompute(w, later, {p})
  BY DEF SoldLine
<1>1. /\ was \in Entry /\ was.current <= was.start
      /\ was.start \in Nat /\ was.current \in Nat /\ was.buy \in Nat
      /\ ~late => was.current = s.product[p].qty
  <2>1. was \in Entry /\ was.current <= was.start
    BY <1>0, EntryOrOK
  <2>2. was.start \in Nat /\ was.current \in Nat /\ was.buy \in Nat
    BY <2>1 DEF Entry
  <2>3. ~late => was.current = s.product[p].qty
    <3>1. CASE d \in s.entered[p]
      BY <3>1, <1>0, EntryOrOK DEF ProjectionsAgree
    <3>2. CASE d \notin s.entered[p]
      BY <3>2, <1>0, EntryOrOK
    <3> QED
      BY <3>1, <3>2
  <2> QED
    BY <2>1, <2>2, <2>3
<1> HIDE DEF was
<1>2. /\ next \in Entry /\ next.current = was.current - q /\ next.current <= next.start
  BY <1>1, AfterSaleOK DEF was
<1> HIDE DEF next
<1>3. \A d2 \in Days :
        /\ row[d2] \in Entry
        /\ d2 \in later => /\ row[d2].start = s.entry[p][d2].start - q
                           /\ row[d2].current = s.entry[p][d2].current - q
        /\ d2 \notin later => row[d2] = s.entry[p][d2]
  <2> TAKE d2 \in Days
  <2>1. s.entry[p][d2] \in Entry
    BY <1>0
  <2>2. CASE d2 \in later
    <3>1. q <= s.entry[p][d2].start /\ q <= s.entry[p][d2].current
      BY <2>1, <2>2 DEF LaterDaysHold, Entry
    <3> QED
      BY <2>1, <2>2, <3>1, ShiftOK
  <2>3. CASE d2 \notin later
    BY <2>1, <2>3
  <2> QED
    BY <2>2, <2>3
<1>4. row \in [Days -> Entry] /\ log \in [Days -> Trail]
  <2>1. \A d2 \in Days : [s.trail[p][d2] EXCEPT !.opening = @ - q] \in Trail
    <3> TAKE d2 \in Days
    <3>1. s.trail[p][d2] \in Trail
      BY <1>0
    <3> QED
      BY <3>1 DEF Trail
  <2> QED
    BY <1>0, <1>3, <2>1
<1> HIDE DEF row, log
<1>5. /\ shifted \in Db /\ shifted.live = s.live
      /\ shifted.product = s.product /\ shifted.entered = s.entered
      /\ shifted.entry = [s.entry EXCEPT ![p] = row]
  BY <1>0, <1>4 DEF Db
<1> HIDE DEF shifted
<1>6. pr \in Product /\ pr.qty = IF late THEN s.product[p].qty - q ELSE next.current
  <2>1. LiveQuantity(s.product[p], late, q, next.current) \in Nat
    BY <1>0, <1>2 DEF LiveQuantity, Entry
  <2> QED
    BY <1>0, <2>1 DEF Product, LiveQuantity
<1> HIDE DEF pr
<1>7. audit \in Trail
  <2>1. q * was.buy \in Int
    BY <1>1
  <2> HIDE DEF a
  <2> QED
    BY <1>0, <1>1, <2>1 DEF Trail
<1> HIDE DEF audit
<1>8. Stored(w, shifted, p, d, pr, next)
  BY <1>0, <1>2, <1>5, <1>6, <1>7, StoreType
<1> HIDE DEF w
<1>9. /\ w \in Db
      /\ w.live = s.live
      /\ \A p2 \in Products :
           /\ w.product[p2] = IF p2 = p THEN pr ELSE s.product[p2]
           /\ w.entered[p2] = IF p2 = p THEN s.entered[p] \cup {d} ELSE s.entered[p2]
           /\ \A d2 \in Days : w.entry[p2][d2] = IF p2 = p
                                                 THEN IF d2 = d THEN next ELSE row[d2]
                                                 ELSE s.entry[p2][d2]
  <2>1. \A p2 \in Products : shifted.entry[p2] = IF p2 = p THEN row ELSE s.entry[p2]
    BY <1>0, <1>5
  <2>2. /\ w \in Db
        /\ w.live = s.live
        /\ \A p2 \in Products :
             /\ w.product[p2] = IF p2 = p THEN pr ELSE s.product[p2]
             /\ w.entered[p2] = IF p2 = p THEN s.entered[p] \cup {d} ELSE s.entered[p2]
    BY <1>5, <1>8 DEF Stored
  <2>3. \A p2 \in Products : \A d2 \in Days :
          w.entry[p2][d2] = IF p2 = p /\ d2 = d THEN next ELSE shifted.entry[p2][d2]
    BY <1>8 DEF Stored
  <2>4. \A p2 \in Products : \A d2 \in Days :
          w.entry[p2][d2] = IF p2 = p THEN IF d2 = d THEN next ELSE row[d2]
                            ELSE s.entry[p2][d2]
    BY <2>1, <2>3
  <2> QED
    BY <2>2, <2>4
<1>10. Ordered(w)
  <2> SUFFICES ASSUME NEW p2 \in Products, NEW d2 \in w.entered[p2]
               PROVE  w.entry[p2][d2].current <= w.entry[p2][d2].start
    BY DEF Ordered
  <2>1. d2 \in Days
    BY <1>0, <1>9
  <2>2. CASE p2 # p
    BY <1>0, <1>9, <2>1, <2>2 DEF Ordered
  <2>3. CASE p2 = p /\ d2 = d
    BY <1>2, <1>9, <2>1, <2>3
  <2>4. CASE p2 = p /\ d2 # d
    <3>1. /\ s.entry[p][d2].current <= s.entry[p][d2].start
          /\ s.entry[p][d2].current \in Nat /\ s.entry[p][d2].start \in Nat
      <4>1. d2 \in s.entered[p]
        BY <1>9, <2>4
      <4>2. p \in Products /\ s.entry[p][d2] \in Entry
        BY <1>0, <2>1 DEF Db
      <4>3. s.entry[p][d2].current <= s.entry[p][d2].start
        BY <1>0, <4>1, <4>2 DEF Ordered
      <4> QED
        BY <4>2, <4>3 DEF Entry
    <3>2. w.entry[p2][d2] = row[d2]
      <4>1. \A p3 \in Products : \A d3 \in Days :
              p3 = p /\ d3 # d => w.entry[p3][d3] = row[d3]
        BY <1>9
      <4> HIDE DEF later
      <4> QED
        BY <2>1, <2>4, <4>1, Zenon
    <3> HIDE DEF later
    <3>3. row[d2].current <= row[d2].start
      BY <1>3, <2>1, <3>1
    <3> QED
      BY <3>2, <3>3
  <2> QED
    BY <2>2, <2>3, <2>4
<1>11. UpTo(w, last)
  BY <1>0, <1>9 DEF UpTo
<1>12. Near(w, t)
  <2> SUFFICES ASSUME NEW p2 \in w.live, t \in w.entered[p2]
               PROVE  Gap(w.entry[p2][t].current, w.product[p2].qty)
    BY DEF Near, Gap
  <2>1. p2 \in Products /\ t \in Days /\ t \in 1..last
    BY <1>0, <1>9, <1>11 DEF UpTo
  <2>2. CASE p2 # p
    BY <1>0, <1>9, <2>1, <2>2 DEF Near, Gap
  <2>3. CASE p2 = p /\ late
    <3>1. t # d /\ t > d /\ t \in s.entered[p]
      BY <1>9, <2>1, <2>3 DEF Days
    <3>2. Gap(s.entry[p][t].current, s.product[p].qty)
      BY <1>0, <3>1 DEF Near, Gap
    <3>3. s.entry[p][t].current \in Nat
      BY <1>0, <2>1 DEF Entry
    <3>4. t \in later
      BY <2>3, <3>1
    <3> HIDE DEF later
    <3>5. w.entry[p][t].current = s.entry[p][t].current - q
      BY <1>0, <1>3, <1>9, <2>1, <3>1, <3>4
    <3>6. w.product[p].qty = s.product[p].qty - q
      BY <1>0, <1>6, <1>9, <2>3
    <3> QED
      BY <1>0, <2>3, <3>2, <3>3, <3>5, <3>6 DEF Gap
  <2>4. CASE p2 = p /\ ~late
    <3>1. t = d
      BY <2>1, <2>4
    <3>2. w.entry[p][t].current = next.current /\ w.product[p].qty = next.current
      BY <1>6, <1>9, <2>1, <2>4, <3>1
    <3>3. next.current \in Int
      BY <1>2 DEF Entry
    <3> QED
      BY <2>4, <3>2, <3>3 DEF Gap
  <2> QED
    BY <2>2, <2>3, <2>4
<1>13. ViewOK(w, last, t)
  BY <1>9, <1>10, <1>11, <1>12 DEF ViewOK
<1> HIDE DEF later
<1> QED
  BY <1>13, <1>x, RecomputeOK

-----------------------------------------------------------------------------
(* The invariant.                                                          *)

\* The empty collections satisfy the invariant.
LEMMA InitIInv == Init => IInv
<1> SUFFICES ASSUME Init PROVE IInv
  OBVIOUS
<1> USE DEF Init
<1>1. 1 \in Days
  BY BoundsAssumption DEF Days
<1>2. EmptyDb \in Db
  <2>1. NoProduct \in Product /\ NoEntry \in Entry /\ NoSnapshot \in Snapshot
        /\ FirstTrail(0) \in Trail
    BY DEF NoProduct, Product, NoEntry, Entry, NoSnapshot, Snapshot, FirstTrail, Trail
  <2> QED
    BY <2>1 DEF EmptyDb, Db
<1>3. ViewOK(EmptyDb, 1, 1)
  <2>1. EmptyDb.live = {} /\ \A p \in Products : EmptyDb.entered[p] = {}
    BY DEF EmptyDb
  <2> QED
    BY <1>2, <2>1 DEF ViewOK, Ordered, UpTo, Near
<1>4. BatchOK
  BY DEF BatchOK, Batch, NoBatch
<1>5. Last = 1 /\ Reach = 1 /\ batch.kind = "none"
  BY DEF Last, Reach, NoBatch
<1> QED
  BY <1>1, <1>3, <1>4, <1>5 DEF IInv

\* A transaction of one step, made while the owner has no request open.
LEMMA IdleCommit ==
  ASSUME IInv, Idle, NEW s, ViewOK(s, today, today), CommitDb(s),
         UNCHANGED <<batch, today>>
  PROVE  IInv'
<1>1. Last' = today /\ Reach' = today /\ batch'.kind # "purchase"
  BY DEF Last, Reach, Idle
<1>2. BatchOK'
  BY DEF IInv, BatchOK
<1> QED
  BY <1>1, <1>2 DEF IInv, CommitDb

\* Without an open request the writer's day is today.
LEMMA IdleWriting ==
  ASSUME IInv, Idle
  PROVE  Writing(db, today, today) /\ ViewOK(db, today, today) /\ rev + 1 \in Nat
BY DEF IInv, Last, Idle, Writing

\* A request for one product works on the committed data, on the day it was begun.
LEMMA ProductWriting ==
  ASSUME IInv, batch.kind = "product"
  PROVE  /\ Writing(db, batch.date, today) /\ rev + 1 \in Nat
         /\ batch.date \in 1..today /\ batch.date \in Days
<1>1. /\ batch.date \in 1..today /\ ~batch.late /\ rev + 1 \in Nat
      /\ today \in Days
  BY DEF IInv, BatchOK, Batch
<1>2. Last = batch.date
  BY <1>1 DEF Last
<1>3. batch.date \in Days /\ (today = batch.date \/ today \notin 1..batch.date)
  BY <1>1, BoundsAssumption DEF Days
<1> QED
  BY <1>1, <1>2, <1>3 DEF IInv, Writing

\* Its commit ends it.
LEMMA ProductCommit ==
  ASSUME IInv, NEW p, NEW s, CommitProduct(p, s), ViewOK(s, batch.date, today)
  PROVE  IInv'
<1> DEFINE w == Recompute(s, {batch.date}, {p})
<1>1. /\ batch.kind = "product" /\ batch' = NoBatch /\ today' = today
      /\ db' = w /\ work' = w /\ rev' = rev + 1
  BY DEF CommitProduct, CommitDb
<1>2. /\ batch.date \in 1..today /\ today \in Nat /\ rev + 1 \in Nat /\ today \in Days
  BY <1>1, ProductWriting, BoundsAssumption DEF IInv, Days
<1>3. ViewOK(s, today, today)
  <2>1. UpTo(s, today)
    BY <1>2 DEF ViewOK, UpTo
  <2> QED
    BY <2>1 DEF ViewOK
<1>4. ViewOK(w, today, today)
  BY <1>3, RecomputeOK
<1> HIDE DEF w
<1>5. Last' = today /\ Reach' = today /\ batch'.kind # "purchase" /\ BatchOK'
  BY <1>1 DEF Last, Reach, BatchOK, Batch, NoBatch
<1> QED
  BY <1>1, <1>2, <1>4, <1>5 DEF IInv

\* One item of the open batch.
LEMMA ItemStep ==
  ASSUME IInv, NEW p \in Products, NEW cost \in Int, NextItem(p, cost),
         batch.kind \notin {"none", "product"}, ViewOK(work', Reach, today),
         batch.kind = "purchase" => NewOnly(work')
  PROVE  IInv'
<1>1. /\ batch' \in Batch /\ batch'.kind = batch.kind /\ batch'.date = batch.date
      /\ batch'.late = batch.late
  <2>1. /\ batch \in Batch
        /\ batch' = [batch EXCEPT !.touched = @ \cup {p}, !.count = @ + 1, !.cost = @ + cost]
    BY DEF IInv, BatchOK, NextItem
  <2>2. batch.touched \cup {p} \subseteq Products /\ batch.count + 1 \in Nat
        /\ batch.cost + cost \in Int
    BY <2>1 DEF Batch
  <2> QED
    BY <2>1, <2>2 DEF Batch
<1>2. Last' = Last /\ Reach' = Reach /\ today' = today /\ db' = db /\ rev' = rev
  BY <1>1 DEF Last, Reach, NextItem
<1>3. BatchOK'
  BY <1>1, <1>2 DEF IInv, BatchOK
<1>4. batch'.kind = "purchase" => NewOnly(work)'
  BY <1>1, <1>2 DEF NewOnly
<1> QED
  BY <1>1, <1>2, <1>3, <1>4 DEF IInv

\* Openings, counts and sales reach no further than the committed data.
LEMMA ItemStepHere ==
  ASSUME IInv, NEW p \in Products, NEW cost \in Int, NextItem(p, cost),
         batch.kind \notin {"none", "product", "purchase"}, ViewOK(work', Last, today)
  PROVE  IInv'
<1>1. Reach = Last
  BY DEF Reach
<1> QED
  BY <1>1, ItemStep

\* A batch that only sales may date in the past works on its own day.
LEMMA BatchWriting ==
  ASSUME IInv, batch.kind \notin {"none", "purchase"}, ~batch.late
  PROVE  Last = batch.date /\ Writing(work, batch.date, today)
<1>1. batch.date \in Days
  BY BoundsAssumption DEF IInv, BatchOK, Days
<1>2. today = batch.date \/ today \notin 1..batch.date
  BY BoundsAssumption DEF IInv, BatchOK, Days
<1> QED
  BY <1>1, <1>2 DEF IInv, Last, Reach, Writing

\* So does a purchase, for a product it has not made itself; what it makes it makes today.
LEMMA PurchaseWriting ==
  ASSUME IInv, batch.kind = "purchase"
  PROVE  /\ Writing(work, today, today) /\ Reach = today /\ NewOnly(work)
         /\ Last = batch.date /\ batch.date \in 1..today /\ batch.date \in Days
         /\ \A p \in db.live : p \in Products => WritingOf(work, p, batch.date, today, today)
<1>1. /\ batch.date \in 1..today /\ ~batch.late /\ today \in Days /\ NewOnly(work)
      /\ ViewOK(work, today, today) /\ Reach = today
  BY DEF IInv, BatchOK, Batch, Reach
<1>2. batch.date \in Days /\ (today = batch.date \/ today \notin 1..batch.date)
  BY <1>1, BoundsAssumption DEF Days
<1>3. ASSUME NEW p \in db.live, p \in Products PROVE work.entered[p] \subseteq 1..batch.date
  BY <1>1, <1>3 DEF NewOnly
<1> QED
  BY <1>1, <1>2, <1>3 DEF Writing, WritingOf, Last

\* The day of an open batch: a late one lies before today, any other is the last
\* day with entries.
LEMMA SaleDay ==
  ASSUME IInv, batch.kind # "none"
  PROVE  /\ batch.date \in Days /\ batch.date \in 1..Last
         /\ batch.late => Last = today /\ batch.date < today
         /\ ~batch.late => /\ Last = batch.date
                           /\ today = batch.date \/ today \notin 1..batch.date
<1>1. batch.date \in 1..today /\ today \in 1..MaxDay
  BY DEF IInv, BatchOK, Days
<1>2. MaxDay \in Nat /\ today \in Nat /\ batch.date \in Nat /\ batch.date \in Days
  BY <1>1, BoundsAssumption DEF Days
<1>3. CASE batch.late
  <2>1. Last = today
    BY <1>3 DEF Last
  <2>2. batch.date < today
    BY <1>3 DEF IInv, BatchOK
  <2> QED
    BY <1>1, <1>2, <1>3, <2>1, <2>2, Zenon
<1>4. CASE ~batch.late
  <2>1. Last = batch.date
    BY <1>4 DEF Last
  <2>2. today = batch.date \/ today \notin 1..batch.date
    BY <1>1, <1>2
  <2>3. batch.date \in 1..batch.date
    BY <1>1, <1>2
  <2> QED
    BY <1>2, <1>4, <2>1, <2>2, <2>3, Zenon
<1> QED
  BY <1>3, <1>4

\* Every action keeps the invariant.
LEMMA NextIInv == IInv /\ [Next]_vars => IInv'
<1> SUFFICES ASSUME IInv, [Next]_vars PROVE IInv'
  OBVIOUS
<1>0. work.live \subseteq Products /\ db.live \subseteq Products /\ rev + 1 \in Nat
  BY DEF IInv, ViewOK, Db
<1>1. CASE CreateProduct
  <2>1. PICK p \in Products, q \in Quantities, unit \in Units, buy \in Prices, sell \in Prices :
          CommitProduct(p, WriteProduct(db, batch.date, p, q, unit, buy, sell, TRUE))
    BY <1>1 DEF CreateProduct
  <2>2. Writing(db, batch.date, today)
    BY <2>1, ProductWriting DEF CommitProduct
  <2>3. q \in Nat /\ unit \in {"dona", "kg"} /\ buy \in Nat /\ sell \in Nat
    BY InputAssumption
  <2>4. ViewOK(WriteProduct(db, batch.date, p, q, unit, buy, sell, TRUE), batch.date, today)
    BY <1>0, <2>2, <2>3, WriteProductOK
  <2> QED
    BY <2>1, <2>4, ProductCommit
<1>2. CASE UpdateProduct
  <2>1. PICK p \in db.live,
             pay \in [quantity : Quantities \cup {None}, unit : Units \cup {None},
                     buy : Prices \cup {None}, sell : Prices \cup {None}] :
          CommitProduct(p, Edited(db, rev + 1, batch.date, p, pay))
    BY <1>2 DEF UpdateProduct
  <2>2. Writing(db, batch.date, today)
    BY <2>1, ProductWriting DEF CommitProduct
  <2>3. pay \in Pay
    BY InputAssumption DEF Pay
  <2>4. ViewOK(Edited(db, rev + 1, batch.date, p, pay), batch.date, today)
    BY <1>0, <2>2, <2>3, EditedOK
  <2> QED
    BY <2>1, <2>4, ProductCommit
<1>3. CASE Restock
  <2>1. PICK p \in db.live, q \in Deltas :
          CommitProduct(p, Restocked(db, batch.date, p, NormalizeQuantity(q, db.product[p].unit)))
    BY <1>3 DEF Restock
  <2> DEFINE delta == NormalizeQuantity(q, db.product[p].unit)
  <2>2. Writing(db, batch.date, today) /\ WritingOf(db, p, batch.date, batch.date, today)
    BY <1>0, <2>1, ProductWriting, WritingEach DEF CommitProduct
  <2>3. delta \in Nat
    BY InputAssumption, NormalizeRange
  <2>4. ViewOK(Restocked(db, batch.date, p, delta), batch.date, today)
    BY <1>0, <2>2, <2>3, RestockedOK
  <2> QED
    BY <2>1, <2>4, ProductCommit
<1>4. CASE RemoveProduct
  <2>1. PICK p \in db.live :
          /\ Idle
          /\ CommitDb([db EXCEPT !.live = @ \ {p}, !.tombs = @ \cup {p},
                                 !.product[p] = NoProduct])
          /\ UNCHANGED <<batch, today>>
    BY <1>4 DEF RemoveProduct
  <2> DEFINE w == [db EXCEPT !.live = @ \ {p}, !.tombs = @ \cup {p},
                             !.product[p] = NoProduct]
  <2>2. ViewOK(db, today, today) /\ db \in Db /\ p \in Products
    BY <1>0, <2>1, IdleWriting DEF ViewOK
  <2>3. [db.product EXCEPT ![p] = NoProduct] \in [Products -> Product]
    BY <2>2 DEF Db, NoProduct, Product
  <2>4. /\ w \in Db /\ w.live = db.live \ {p}
        /\ w.product = [db.product EXCEPT ![p] = NoProduct]
        /\ w.entered = db.entered /\ w.entry = db.entry
    BY <2>2, <2>3 DEF Db
  <2> HIDE DEF w
  <2>5. \A p2 \in w.live : p2 \in db.live /\ w.product[p2] = db.product[p2]
    BY <1>0, <2>2, <2>4 DEF Db
  <2>6. ViewOK(w, today, today)
    BY <2>2, <2>4, <2>5 DEF ViewOK, Ordered, UpTo, Near
  <2> QED
    BY <2>1, <2>6, IdleCommit DEF w
<1>5. CASE RebuildSnapshot
  <2>1. PICK d \in 1..today :
          Idle /\ CommitDb(Recompute(db, {d}, {})) /\ UNCHANGED <<batch, today>>
    BY <1>5 DEF RebuildSnapshot
  <2> QED
    BY <2>1, IdleWriting, RecomputeOK, IdleCommit
<1>6. CASE BeginBatch
  <2>1. PICK kind \in {"product", "opening", "count", "sale", "purchase"}, d \in 1..today :
          /\ Idle
          /\ d < today => kind = "sale"
          /\ batch' = [kind |-> kind, date |-> d, late |-> d < today, touched |-> {},
                        count |-> 0, cost |-> 0]
          /\ UNCHANGED <<db, work, today, rev>>
    BY <1>6 DEF BeginBatch
  <2>2. today \in Nat /\ d \in Nat
    BY BoundsAssumption DEF IInv, Days
  <2>3. batch'.kind = kind /\ batch'.date = d /\ kind # "none"
    BY <2>1
  <2>4. batch'.late <=> d < today
    BY <2>1, <2>2
  <2>5. batch' \in Batch
    BY <2>1, <2>2 DEF Batch
  <2>6. Last = today
    BY <2>1 DEF Last, Idle
  <2>7. Last' = today
    <3>1. CASE d < today
      <4>1. batch'.late
        BY <2>4, <3>1
      <4> QED
        BY <2>1, <4>1 DEF Last
    <3>2. CASE d = today
      <4>1. ~batch'.late
        BY <2>2, <2>4, <3>2
      <4> QED
        BY <2>3, <3>2, <4>1 DEF Last
    <3> QED
      BY <2>2, <3>1, <3>2
  <2>8. BatchOK'
    BY <2>1, <2>2, <2>3, <2>4, <2>5 DEF BatchOK
  <2>9. Reach = today /\ Reach' = today
    BY <2>1, <2>6, <2>7 DEF Reach, Idle
  <2>10. batch'.kind = "purchase" => NewOnly(work)'
    <3>1. CASE kind # "purchase"
      BY <2>3, <3>1
    <3>2. CASE kind = "purchase"
      <4>1. batch'.date = today
        BY <2>1, <2>2, <2>3, <3>2
      <4>2. work = db
        BY <2>1 DEF IInv, Idle
      <4> QED
        BY <2>1, <2>6, <4>1, <4>2 DEF NewOnly, IInv, ViewOK, UpTo
    <3> QED
      BY <3>1, <3>2
  <2> QED
    BY <2>1, <2>6, <2>7, <2>8, <2>9, <2>10 DEF IInv, Idle
<1>7. CASE OpenItem
  <2>1. PICK p \in work.live, start \in Quantities, current \in Quantities :
          /\ batch.kind = "opening"
          /\ current <= start
          /\ work' = Opened(work, rev + 1, batch.date, p, start, current)
          /\ NextItem(p, 0)
    BY <1>7 DEF OpenItem
  <2>2. Last = batch.date /\ Writing(work, batch.date, today)
    BY <2>1, BatchWriting DEF IInv, BatchOK
  <2>3. start \in Nat /\ current \in Nat
    BY InputAssumption
  <2>4. ViewOK(work', Last, today)
    BY <1>0, <2>1, <2>2, <2>3, OpenedOK
  <2> QED
    BY <1>0, <2>1, <2>4, ItemStepHere
<1>8. CASE CountItem
  <2>1. PICK p \in work.live, current \in Quantities, revenue \in Amounts \cup {None} :
          /\ batch.kind = "count"
          /\ current <= EntryOr(work, p, batch.date).start
          /\ work' = Counted(work, rev + 1, batch.date, p, current, revenue)
          /\ NextItem(p, 0)
    BY <1>8 DEF CountItem
  <2>2. Last = batch.date /\ Writing(work, batch.date, today)
    BY <2>1, BatchWriting DEF IInv, BatchOK
  <2>3. current \in Nat /\ revenue \in Nat \cup {None}
    BY InputAssumption
  <2>4. ViewOK(work', Last, today)
    BY <1>0, <2>1, <2>2, <2>3, CountedOK
  <2> QED
    BY <1>0, <2>1, <2>4, ItemStepHere
<1>9. CASE SaleLine
  <2>1. PICK p \in work.live, q \in Deltas, amount \in Amounts \cup {None} :
          LET was == EntryOr(work, p, batch.date) IN
          /\ batch.kind = "sale"
          /\ ~batch.late => ProjectionsAgree(work, p, batch.date)
          /\ q <= was.current
          /\ q <= work.product[p].qty
          /\ batch.late => LaterDaysHold(work, p, batch.date, q)
          /\ work' = SoldLine(work, batch.date, batch.late, p, q,
                              Given(amount, q * was.sell))
          /\ NextItem(p, 0)
    BY <1>9 DEF SaleLine
  <2> DEFINE was     == EntryOr(work, p, batch.date)
             charged == Given(amount, q * was.sell)
  <2>2. ViewOK(work, Last, today) /\ batch.late \in BOOLEAN /\ today \in Days
    BY <2>1 DEF IInv, BatchOK, Batch, Reach
  <2>3. /\ batch.date \in Days /\ batch.date \in 1..Last
        /\ batch.late => Last = today /\ batch.date < today
        /\ ~batch.late => /\ Last = batch.date
                          /\ today = batch.date \/ today \notin 1..batch.date
    BY <2>1, SaleDay
  <2>4. q \in Nat
    BY InputAssumption
  <2>5. charged \in Int
    <3>1. was \in Entry
      BY <1>0, <2>2, <2>3, EntryOrOK DEF ViewOK
    <3>2. was.sell \in Nat
      BY <3>1 DEF Entry
    <3> HIDE DEF was
    <3>3. q * was.sell \in Int
      BY <2>4, <3>2
    <3>4. amount # None => amount \in Int
      BY InputAssumption
    <3> QED
      BY <3>3, <3>4 DEF Given
  <2>6. ViewOK(work', Last, today)
    <3> HIDE DEF charged
    <3>1. work' = SoldLine(work, batch.date, batch.late, p, q, charged)
      BY <2>1 DEF charged
    <3> QED
      BY <1>0, <2>1, <2>2, <2>3, <2>4, <2>5, <3>1, SoldLineOK
  <2> QED
    BY <1>0, <2>1, <2>6, ItemStepHere
<1>10. CASE PurchaseItem
  <2>1. PICK p \in work.live, q \in Deltas, buy \in Prices :
          /\ batch.kind = "purchase"
          /\ p \in db.live
          /\ work' = Purchased(work, rev + 1, batch.date, p, q, buy)
          /\ NextItem(p, q * buy)
    BY <1>10 DEF PurchaseItem
  <2>2. /\ WritingOf(work, p, batch.date, today, today) /\ Reach = today /\ NewOnly(work)
        /\ p \in Products
    BY <1>0, <2>1, PurchaseWriting
  <2>3. q \in Nat /\ buy \in Nat /\ q * buy \in Int
    BY InputAssumption
  <2>4. ViewOK(work', Reach, today)
    BY <1>0, <2>1, <2>2, <2>3, PurchasedOK
  <2>5. /\ work'.live = work.live
        /\ \A p2 \in Products : p2 # p => work'.entered[p2] = work.entered[p2]
    BY <2>1, <2>2 DEF Purchased, Received, Store, IInv, ViewOK, Db
  <2>6. NewOnly(work')
    <3>1. batch.date \in 1..batch.date /\ work.entered[p] \subseteq 1..batch.date
      BY <1>0, <2>1, <2>2, PurchaseWriting, BoundsAssumption DEF WritingOf, Days
    <3>2. work'.entered[p] = work.entered[p] \cup {batch.date}
      BY <2>1, <2>2 DEF Purchased, Received, Store, WritingOf, ViewOK, Db
    <3> QED
      BY <2>2, <2>5, <3>1, <3>2 DEF NewOnly
  <2> QED
    BY <2>1, <2>2, <2>3, <2>4, <2>6, ItemStep
<1>11. CASE PurchaseNew
  <2>1. PICK p \in Products, q \in Deltas, unit \in Units, buy \in Prices,
             sell \in Prices \cup {None} :
          /\ batch.kind = "purchase"
          /\ p \notin work.live
          /\ work' = Recompute(WriteProduct(work, today, p, q, unit, buy,
                                            Given(sell, buy), FALSE),
                               {today}, {p})
          /\ NextItem(p, q * buy)
    BY <1>11 DEF PurchaseNew, CanCreate
  <2>2. Writing(work, today, today) /\ Reach = today /\ NewOnly(work)
    BY <2>1, PurchaseWriting
  <2>3. /\ q \in Nat /\ buy \in Nat /\ q * buy \in Int
        /\ unit \in {"dona", "kg"} /\ Given(sell, buy) \in Nat
    BY InputAssumption DEF Given
  <2> DEFINE made == WriteProduct(work, today, p, q, unit, buy, Given(sell, buy), FALSE)
  <2>4. ViewOK(made, today, today)
    BY <2>2, <2>3, WriteProductOK
  <2>5. /\ made.live = work.live \cup {p}
        /\ \A p2 \in Products : p2 # p => made.entered[p2] = work.entered[p2]
    BY <2>2 DEF WriteProduct, Store, Writing, ViewOK, Db
  <2> HIDE DEF made
  <2>6. work' = Recompute(made, {today}, {p})
    BY <2>1 DEF made
  <2>7. work'.live = made.live /\ work'.entered = made.entered
    BY <2>4, <2>6 DEF Recompute, ViewOK, Db
  <2>8. ViewOK(work', Reach, today)
    BY <2>2, <2>4, <2>6, RecomputeOK
  <2>9. NewOnly(work')
    BY <2>1, <2>2, <2>5, <2>7 DEF NewOnly
  <2> QED
    BY <2>1, <2>3, <2>8, <2>9, ItemStep
<1>12. CASE CommitBatch
  <2> DEFINE w == [work EXCEPT !.procured[batch.date] = @ + batch.cost]
  <2>1. /\ CommitDb(Recompute(w, {batch.date}, batch.touched))
        /\ batch' = NoBatch /\ today' = today
    BY <1>12 DEF CommitBatch
  <2>2. /\ today \in Nat /\ batch.cost \in Int /\ work \in Db
        /\ ViewOK(work, Reach, today) /\ (Reach \in 1..today \/ Reach = today)
    BY BoundsAssumption DEF IInv, BatchOK, Batch, Last, Reach, Days, ViewOK
  <2>3. [work.procured EXCEPT ![batch.date] = @ + batch.cost] \in [Days -> Int]
    <3>1. work.procured \in [Days -> Int]
      BY <2>2 DEF Db
    <3>2. CASE batch.date \in Days
      BY <2>2, <3>1, <3>2
    <3>3. CASE batch.date \notin Days
      BY <3>1, <3>3
    <3> QED
      BY <3>2, <3>3
  <2>4. /\ w \in Db /\ w.live = work.live /\ w.product = work.product
        /\ w.entered = work.entered /\ w.entry = work.entry
    BY <2>2, <2>3 DEF Db
  <2> HIDE DEF w
  <2>5. ViewOK(w, today, today)
    BY <2>2, <2>4 DEF ViewOK, Ordered, UpTo, Near
  <2>6. ViewOK(Recompute(w, {batch.date}, batch.touched), today, today)
    BY <2>5, RecomputeOK
  <2>7. Last' = today /\ Reach' = today /\ BatchOK' /\ batch'.kind = "none"
    BY <2>1 DEF Last, Reach, BatchOK, Batch, NoBatch
  <2> QED
    BY <1>0, <2>1, <2>6, <2>7 DEF IInv, CommitDb
<1>13. CASE AbortBatch
  <2>1. work' = db /\ batch' = NoBatch /\ UNCHANGED <<db, today, rev>>
    BY <1>13 DEF AbortBatch
  <2>2. Last' = today /\ Reach' = today /\ BatchOK' /\ batch'.kind = "none"
    BY <2>1 DEF Last, Reach, BatchOK, Batch, NoBatch
  <2>3. ViewOK(db, today, today)
    BY DEF IInv, BatchOK, Last, Days, ViewOK, UpTo
  <2> QED
    BY <2>1, <2>2, <2>3 DEF IInv
<1>14. CASE NextDay
  <2>1. today' = today + 1 /\ today < MaxDay /\ UNCHANGED <<db, work, batch, rev>>
    BY <1>14 DEF NextDay
  <2>2. today \in Nat /\ today' \in Days /\ (Last \in 1..today \/ Last = today)
    BY <2>1, BoundsAssumption DEF IInv, BatchOK, Last, Days
  <2>3. BatchOK'
    BY <2>1, <2>2 DEF IInv, BatchOK
  <2>4. /\ Last' = Last \/ Last' = today'
        /\ Reach' = Reach \/ Reach' = today'
        /\ Reach \in 1..today \/ Reach = today
    BY <2>1, <2>2 DEF Last, Reach
  <2>5. ASSUME NEW s, NEW n, NEW m, ViewOK(s, n, today), n \in 1..today \/ n = today,
               m = n \/ m = today'
        PROVE  ViewOK(s, m, today')
    <3>1. s \in Db /\ Ordered(s) /\ s.live \subseteq Products
      BY <2>5 DEF ViewOK, Db
    <3>2. UpTo(s, m)
      BY <2>1, <2>2, <2>5 DEF ViewOK, UpTo
    <3>3. \A p \in Products : today' \notin s.entered[p]
      BY <2>1, <2>2, <2>5 DEF ViewOK, UpTo
    <3> QED
      BY <3>1, <3>2, <3>3 DEF ViewOK, Near
  <2>6. ViewOK(db, Last', today') /\ ViewOK(work, Reach', today')
    BY <2>2, <2>4, <2>5 DEF IInv
  <2>7. batch'.kind = "purchase" => NewOnly(work)'
    BY <2>1 DEF IInv, NewOnly
  <2> QED
    BY <2>1, <2>2, <2>3, <2>6, <2>7 DEF IInv
<1>15. CASE UNCHANGED vars
  BY <1>15 DEF vars, IInv, BatchOK, Last, Reach, NewOnly
<1> QED
  BY <1>1, <1>2, <1>3, <1>4, <1>5, <1>6, <1>7, <1>8, <1>9, <1>10, <1>11, <1>12,
     <1>13, <1>14, <1>15 DEF Next

\* The invariant implies the three properties.
LEMMA IInvImplies ==
  IInv => TypeOK /\ CurrentWithinStart /\ ProjectionsWithinRounding
<1> SUFFICES ASSUME IInv PROVE TypeOK /\ CurrentWithinStart /\ ProjectionsWithinRounding
  OBVIOUS
<1>1. TypeOK
  BY DEF IInv, ViewOK, BatchOK, TypeOK, Days
<1>2. CurrentWithinStart
  BY DEF IInv, ViewOK, Ordered, CurrentWithinStart
<1>3. ProjectionsWithinRounding
  BY DEF IInv, ViewOK, Near, Gap, ProjectionsWithinRounding
<1> QED
  BY <1>1, <1>2, <1>3

\* The invariant holds in every behaviour.
THEOREM Invariance == Spec => []IInv
BY InitIInv, NextIInv, PTL DEF Spec

\* No operation, and no sequence of them, drives a quantity below zero or
\* stores a value of a wrong type, in the committed collections or in an open
\* transaction (the writes of product, inventory, procurement and snapshot
\* services).
THEOREM TypeCorrect == Spec => []TypeOK
BY Invariance, IInvImplies, PTL

\* No day of any product ever shows more stock left than it started with
\* (daily_inventories, whichever service wrote the entry).
THEOREM StockWithinStart == Spec => []CurrentWithinStart
BY Invariance, IInvImplies, PTL

\* The product's stock and today's entry never differ by more than the half
\* unit that a change of unit rounds away.
THEOREM ProjectionsStayClose == Spec => []ProjectionsWithinRounding
BY Invariance, IInvImplies, PTL

-----------------------------------------------------------------------------
(* The money of an entry.                                                  *)

\* The entry's report and the audit trail say the same.
Matches(e, a) ==
  /\ Sold(e) = a.sold
  /\ Revenue(e) = a.revenue
  /\ Profit(e) = a.revenue - a.cost
  /\ e.start + e.lockedSold = a.opening

SamePrices(e, pr) == e.buy = pr.buy /\ e.sell = pr.sell

\* Two entries report the same sales.
SameFigures(e, f) == Sold(e) = Sold(f) /\ Revenue(e) = Revenue(f) /\ Profit(e) = Profit(f)

\* e reports the sales of f, and no other opening stock but for n units.
SameBut(e, f, n) == SameFigures(e, f) /\ e.start + e.lockedSold = f.start + f.lockedSold + n

\* What an entry reports, with the units of its derived span.
LEMMA Spelled ==
  ASSUME NEW e \in Entry, e.current <= e.start
  PROVE  /\ NewSold(e) = e.start - e.current /\ NewSold(e) \in Nat
         /\ Sold(e) = e.lockedSold + (e.start - e.current)
         /\ Revenue(e) = e.lockedRevenue + NewSold(e) * e.sell
         /\ Profit(e) = e.lockedProfit + NewSold(e) * (e.sell - e.buy)
<1>1. e.start \in Nat /\ e.current \in Nat
  BY DEF Entry
<1>2. NewSold(e) = e.start - e.current
  BY <1>1 DEF NewSold
<1> QED
  BY <1>1, <1>2 DEF Sold, Revenue, Profit

\* Without a derived span the locked figures are all there is.
LEMMA SpelledLocked ==
  ASSUME NEW e \in Entry, e.current = e.start
  PROVE  /\ Sold(e) = e.lockedSold /\ Revenue(e) = e.lockedRevenue
         /\ Profit(e) = e.lockedProfit
<1>1. /\ e.start \in Nat /\ e.current \in Nat /\ e.buy \in Nat /\ e.sell \in Nat
      /\ e.lockedSold \in Nat /\ e.lockedRevenue \in Int /\ e.lockedProfit \in Int
  BY DEF Entry
<1>2. NewSold(e) = 0
  BY <1>1 DEF NewSold
<1>3. NewSold(e) * e.sell = 0 /\ NewSold(e) * (e.sell - e.buy) = 0
  BY <1>1, <1>2
<1> HIDE DEF NewSold
<1> QED
  BY <1>1, <1>2, <1>3 DEF Sold, Revenue, Profit

\* A first entry has sold nothing.
LEMMA FreshFigures ==
  ASSUME NEW pr \in Product, NEW q \in Nat
  PROVE  LET e == FreshEntry(pr, q)
         IN  /\ Sold(e) = 0 /\ Revenue(e) = 0 /\ Profit(e) = 0
             /\ e.start + e.lockedSold = q /\ SamePrices(e, pr)
<1> DEFINE e == FreshEntry(pr, q)
<1>1. /\ e.lockedSold = 0 /\ e.lockedRevenue = 0 /\ e.lockedProfit = 0
      /\ e.buy = pr.buy /\ e.sell = pr.sell
  BY DEF FreshEntry
<1>2. e \in Entry /\ e.start = q /\ e.current = q
  BY FreshOK
<1> HIDE DEF e
<1>3. Sold(e) = 0 /\ Revenue(e) = 0 /\ Profit(e) = 0
  BY <1>1, <1>2, SpelledLocked
<1>4. e.start + e.lockedSold = q /\ SamePrices(e, pr)
  BY <1>1, <1>2 DEF SamePrices
<1> QED
  BY <1>3, <1>4 DEF e

\* Entries with the same numbers and prices report the same.
LEMMA LikeFigures ==
  ASSUME NEW e \in Entry, NEW f \in Entry, e.current <= e.start, f.current <= f.start,
         f.start - f.current = e.start - e.current,
         f.lockedSold = e.lockedSold, f.lockedRevenue = e.lockedRevenue,
         f.lockedProfit = e.lockedProfit,
         f.start = f.current \/ SamePrices(f, e)
  PROVE  SameFigures(f, e)
<1>1. CASE f.start = f.current
  <2>1. e.current = e.start
    BY <1>1 DEF Entry
  <2> QED
    BY <1>1, <2>1, SpelledLocked DEF SameFigures
<1>2. CASE SamePrices(f, e)
  <2>1. NewSold(f) = NewSold(e)
    BY Spelled
  <2> QED
    BY <1>2, <2>1, Spelled DEF SameFigures, SamePrices
<1> QED
  BY <1>1, <1>2

\* Freezing moves the sales and changes none of them.
LEMMA FreezeFigures ==
  ASSUME NEW e \in Entry, e.current <= e.start
  PROVE  SameBut(Freeze(e), e, 0) /\ SamePrices(Freeze(e), e)
<1> DEFINE f == Freeze(e)
<1>1. f \in Entry /\ f.start = e.current /\ f.current = e.current
  BY FreezeEntry
<1>2. /\ e.start \in Nat /\ e.current \in Nat /\ e.lockedSold \in Nat
  BY DEF Entry
<1>3. /\ f.lockedSold = Sold(e) /\ f.lockedRevenue = Revenue(e)
      /\ f.lockedProfit = Profit(e) /\ SamePrices(f, e)
  <2> HIDE DEF NewSold
  <2> QED
    BY DEF Freeze, Entry, Sold, Revenue, Profit, SamePrices
<1> HIDE DEF f
<1>4. SameFigures(f, e)
  BY <1>1, <1>3, SpelledLocked DEF SameFigures
<1>5. f.start + f.lockedSold = e.start + e.lockedSold + 0
  BY <1>1, <1>2, <1>3, Spelled
<1>6. SameBut(f, e, 0) /\ SamePrices(f, e)
  BY <1>3, <1>4, <1>5 DEF SameBut
<1> QED
  BY <1>6 DEF f

\* Goods that come in are not sold.
LEMMA RaiseFigures ==
  ASSUME NEW e \in Entry, e.current <= e.start, NEW delta \in Nat
  PROVE  SameBut(Raise(e, delta), e, delta) /\ SamePrices(Raise(e, delta), e)
<1> DEFINE f == Raise(e, delta)
<1>1. f \in Entry /\ f.start = e.start + delta /\ f.current = e.current + delta
  BY RaiseEntry
<1>2. e.start \in Nat /\ e.current \in Nat /\ e.lockedSold \in Nat
  BY DEF Entry
<1>3. /\ f.lockedSold = e.lockedSold /\ f.lockedRevenue = e.lockedRevenue
      /\ f.lockedProfit = e.lockedProfit /\ SamePrices(f, e)
  BY DEF Raise, Entry, SamePrices
<1> HIDE DEF f
<1>4. SameFigures(f, e)
  BY <1>1, <1>2, <1>3, LikeFigures
<1>5. f.start + f.lockedSold = e.start + e.lockedSold + delta
  BY <1>1, <1>2, <1>3
<1>6. SameBut(f, e, delta) /\ SamePrices(f, e)
  BY <1>3, <1>4, <1>5 DEF SameBut
<1> QED
  BY <1>6 DEF f

\* A late sale of another day changes nothing but the opening stock.
LEMMA ShiftFigures ==
  ASSUME NEW e \in Entry, e.current <= e.start, NEW q \in Nat, q <= e.start, q <= e.current
  PROVE  SameBut(Shift(e, q), e, -q) /\ SamePrices(Shift(e, q), e)
<1> DEFINE f == Shift(e, q)
<1>1. f \in Entry /\ f.start = e.start - q /\ f.current = e.current - q
  BY ShiftOK
<1>2. e.start \in Nat /\ e.current \in Nat /\ e.lockedSold \in Nat
  BY DEF Entry
<1>3. /\ f.lockedSold = e.lockedSold /\ f.lockedRevenue = e.lockedRevenue
      /\ f.lockedProfit = e.lockedProfit /\ SamePrices(f, e)
  BY DEF Shift, Entry, SamePrices
<1> HIDE DEF f
<1>4. SameFigures(f, e)
  BY <1>1, <1>2, <1>3, LikeFigures
<1>5. f.start + f.lockedSold = e.start + e.lockedSold + (-q)
  BY <1>1, <1>2, <1>3
<1>6. SameBut(f, e, -q) /\ SamePrices(f, e)
  BY <1>3, <1>4, <1>5 DEF SameBut
<1> QED
  BY <1>6 DEF f

\* Products of sums, for a unit count, a price and a cost.
LEMMA Distributes ==
  ASSUME NEW m \in Int, NEW n \in Int, NEW x \in Int, NEW y \in Int
  PROVE  /\ (m + n) * x = m * x + n * x
         /\ m * (x - y) = m * x - m * y
         /\ m * x \in Int
OBVIOUS

\* A sale adds its units, its money and their cost, at whatever price.
LEMMA AfterSaleFigures ==
  ASSUME NEW e \in Entry, e.current <= e.start, NEW q \in Nat, q <= e.current,
         NEW charged \in Int
  PROVE  LET f == AfterSale(e, q, charged)
         IN  /\ Sold(f) = Sold(e) + q
             /\ Revenue(f) = Revenue(e) + charged
             /\ Profit(f) = Profit(e) + charged - q * e.buy
             /\ f.start + f.lockedSold = e.start + e.lockedSold
             /\ SamePrices(f, e)
<1> DEFINE f     == AfterSale(e, q, charged)
           n     == NewSold(e)
           money == e.lockedProfit + charged - q * e.buy
<1>1. /\ e.start \in Nat /\ e.current \in Nat /\ e.buy \in Nat /\ e.sell \in Nat
      /\ e.lockedSold \in Nat /\ e.lockedRevenue \in Int /\ e.lockedProfit \in Int
  BY DEF Entry
<1>2. f \in Entry /\ f.current = e.current - q /\ f.current <= f.start
  BY AfterSaleOK
<1>3. /\ n = e.start - e.current /\ n \in Int
      /\ Sold(e) = e.lockedSold + n
      /\ Revenue(e) = e.lockedRevenue + n * e.sell
      /\ Profit(e) = e.lockedProfit + n * (e.sell - e.buy)
  BY <1>1, Spelled
<1>4. /\ Sold(f) = f.lockedSold + (f.start - f.current)
      /\ NewSold(f) = f.start - f.current
      /\ Revenue(f) = f.lockedRevenue + NewSold(f) * f.sell
      /\ Profit(f) = f.lockedProfit + NewSold(f) * (f.sell - f.buy)
  BY <1>2, Spelled
<1>5. CASE charged # q * e.sell
  <2>1. /\ f.start = e.start - q /\ f.lockedSold = e.lockedSold + q
        /\ f.lockedRevenue = e.lockedRevenue + charged /\ f.lockedProfit = money
        /\ f.buy = e.buy /\ f.sell = e.sell
    BY <1>5 DEF AfterSale, Entry
  <2>2. q * e.buy \in Int
    BY <1>1
  <2>3. NewSold(f) = n
    BY <1>1, <1>2, <1>3, <1>4, <2>1
  <2> HIDE DEF f, n
  <2>4. n * e.sell \in Int /\ n * (e.sell - e.buy) \in Int
    BY <1>1, <1>3
  <2>5. f.lockedProfit = e.lockedProfit + charged - q * e.buy
    BY <2>1
  <2> HIDE DEF money
  <2>6. Sold(f) = Sold(e) + q /\ Revenue(f) = Revenue(e) + charged
    BY <1>1, <1>2, <1>3, <1>4, <2>1, <2>3, <2>4
  <2>7. Profit(f) = Profit(e) + charged - q * e.buy
    BY <1>1, <1>3, <1>4, <2>1, <2>2, <2>3, <2>4, <2>5
  <2>8. f.start + f.lockedSold = e.start + e.lockedSold /\ SamePrices(f, e)
    BY <1>1, <2>1 DEF SamePrices
  <2> QED
    BY <2>6, <2>7, <2>8 DEF f
<1>6. CASE charged = q * e.sell
  <2>1. /\ f.start = e.start /\ f.lockedSold = e.lockedSold
        /\ f.lockedRevenue = e.lockedRevenue /\ f.lockedProfit = e.lockedProfit
        /\ f.buy = e.buy /\ f.sell = e.sell
    BY <1>6 DEF AfterSale, Entry
  <2>2. NewSold(f) = n + q
    BY <1>1, <1>2, <1>3, <1>4, <2>1
  <2> HIDE DEF f, n
  <2>3. /\ (n + q) * e.sell = n * e.sell + q * e.sell
        /\ (n + q) * (e.sell - e.buy) = n * (e.sell - e.buy) + q * (e.sell - e.buy)
        /\ q * (e.sell - e.buy) = q * e.sell - q * e.buy
        /\ n * e.sell \in Int /\ n * (e.sell - e.buy) \in Int
        /\ q * e.sell \in Int /\ q * e.buy \in Int
    BY <1>1, <1>3, Distributes
  <2> QED
    BY <1>1, <1>2, <1>3, <1>4, <1>6, <2>1, <2>2, <2>3 DEF f, SamePrices
<1> QED
  BY <1>5, <1>6

\* A count sells what is gone, at the entry's prices.
LEMMA CountFigures ==
  ASSUME NEW e \in Entry, e.current <= e.start, NEW c \in Nat, c <= e.start
  PROVE  LET f    == [e EXCEPT !.current = c]
             gone == e.current - c
         IN  /\ f \in Entry /\ f.start = e.start /\ f.current = c
             /\ Sold(f) = Sold(e) + gone
             /\ Revenue(f) = Revenue(e) + gone * e.sell
             /\ Profit(f) = Profit(e) + gone * e.sell - gone * e.buy
             /\ f.start + f.lockedSold = e.start + e.lockedSold
             /\ SamePrices(f, e)
<1> DEFINE f    == [e EXCEPT !.current = c]
           gone == e.current - c
           n    == NewSold(e)
<1>1. /\ e.start \in Nat /\ e.current \in Nat /\ e.buy \in Nat /\ e.sell \in Nat
      /\ e.lockedSold \in Nat /\ e.lockedRevenue \in Int /\ e.lockedProfit \in Int
      /\ gone \in Int
  BY DEF Entry
<1>2. /\ f \in Entry /\ f.current = c /\ f.start = e.start /\ f.lockedSold = e.lockedSold
      /\ f.lockedRevenue = e.lockedRevenue /\ f.lockedProfit = e.lockedProfit
      /\ f.buy = e.buy /\ f.sell = e.sell
  BY DEF Entry
<1>3. /\ n = e.start - e.current /\ n \in Int
      /\ Sold(e) = e.lockedSold + n
      /\ Revenue(e) = e.lockedRevenue + n * e.sell
      /\ Profit(e) = e.lockedProfit + n * (e.sell - e.buy)
  BY <1>1, Spelled
<1> HIDE DEF f
<1>4. /\ Sold(f) = f.lockedSold + (f.start - f.current)
      /\ NewSold(f) = f.start - f.current
      /\ Revenue(f) = f.lockedRevenue + NewSold(f) * f.sell
      /\ Profit(f) = f.lockedProfit + NewSold(f) * (f.sell - f.buy)
  BY <1>2, Spelled
<1>5. NewSold(f) = n + gone
  BY <1>1, <1>2, <1>3, <1>4
<1>6. Sold(f) = Sold(e) + gone
  BY <1>1, <1>2, <1>3, <1>4
<1> HIDE DEF n, gone
<1>7. /\ (n + gone) * e.sell = n * e.sell + gone * e.sell
      /\ (n + gone) * (e.sell - e.buy) = n * (e.sell - e.buy) + gone * (e.sell - e.buy)
      /\ gone * (e.sell - e.buy) = gone * e.sell - gone * e.buy
      /\ n * e.sell \in Int /\ n * (e.sell - e.buy) \in Int
      /\ gone * e.sell \in Int /\ gone * e.buy \in Int
  BY <1>1, <1>3, Distributes
<1>8. /\ Revenue(f) = Revenue(e) + gone * e.sell
      /\ Profit(f) = Profit(e) + gone * e.sell - gone * e.buy
  BY <1>1, <1>2, <1>3, <1>4, <1>5, <1>7
<1>9. SamePrices(f, e) /\ f.start + f.lockedSold = e.start + e.lockedSold
  BY <1>2 DEF SamePrices
<1> QED
  BY <1>2, <1>6, <1>8, <1>9 DEF f, gone

-----------------------------------------------------------------------------
(* The money of a view.                                                    *)

\* Every entry says what its audit line says, and a day without an entry has no figures.
Accounts(s) == \A p \in Products : \A d \in Days :
  IF d \in s.entered[p]
  THEN Matches(s.entry[p][d], s.trail[p][d])
  ELSE /\ s.entry[p][d] = NoEntry
       /\ s.trail[p][d].sold = 0 /\ s.trail[p][d].revenue = 0 /\ s.trail[p][d].cost = 0

\* The entries of day t quote the prices of their products.
Priced(s, t, ps) == \A p \in ps : t \in s.entered[p] => SamePrices(s.entry[p][t], s.product[p])

MoneyOK(s, t) == Accounts(s) /\ Priced(s, t, s.live)

\* w differs from s on day d only, and has every entry that s has.
OnlyDay(w, s, d) == \A p \in Products : \A d2 \in Days :
  /\ d2 \in s.entered[p] => d2 \in w.entered[p]
  /\ d2 # d => /\ d2 \in w.entered[p] <=> d2 \in s.entered[p]
               /\ w.entry[p][d2] = s.entry[p][d2]

\* Storing an entry that says what its line says, at the prices of the product.
LEMMA StoreOneMoney ==
  ASSUME NEW s, NEW p \in Products, NEW d, NEW last, NEW t,
         WritingOf(s, p, d, last, t), MoneyOK(s, t),
         NEW pr \in Product, NEW e \in Entry, NEW a \in Trail,
         Matches(e, a), t = d => SamePrices(e, pr)
  PROVE  LET w == Store(s, p, d, pr, e, a)
         IN  Accounts(w) /\ Priced(w, t, s.live \cup {p}) /\ OnlyDay(w, s, d)
<1> DEFINE w == Store(s, p, d, pr, e, a)
<1>0. /\ s \in Db /\ s.entered[p] \subseteq 1..d /\ d \in Days /\ s.live \subseteq Products
      /\ t = d \/ t \notin 1..d
      /\ s.trail \in [Products -> [Days -> Trail]]
  BY DEF WritingOf, ViewOK, Db
<1>1. Stored(w, s, p, d, pr, e)
  BY <1>0, StoreType
<1>2. w.trail = [s.trail EXCEPT ![p][d] = a]
  BY <1>0 DEF Store, Db
<1> HIDE DEF w
<1>3. \A p2 \in Products, d2 \in Days :
        w.trail[p2][d2] = IF p2 = p /\ d2 = d THEN a ELSE s.trail[p2][d2]
  BY <1>0, <1>2, NestedUpdate
<1>4. \A p2 \in Products, d2 \in Days :
        /\ w.entry[p2][d2] = IF p2 = p /\ d2 = d THEN e ELSE s.entry[p2][d2]
        /\ d2 \in w.entered[p2] <=> d2 \in s.entered[p2] \/ (p2 = p /\ d2 = d)
  BY <1>1 DEF Stored
<1>5. Accounts(w)
  <2> SUFFICES ASSUME NEW p2 \in Products, NEW d2 \in Days
               PROVE  IF d2 \in w.entered[p2]
                      THEN Matches(w.entry[p2][d2], w.trail[p2][d2])
                      ELSE /\ w.entry[p2][d2] = NoEntry
                           /\ w.trail[p2][d2].sold = 0 /\ w.trail[p2][d2].revenue = 0
                           /\ w.trail[p2][d2].cost = 0
    BY DEF Accounts
  <2>1. CASE p2 = p /\ d2 = d
    BY <1>3, <1>4, <2>1
  <2>2. CASE ~(p2 = p /\ d2 = d)
    <3>1. /\ w.trail[p2][d2] = s.trail[p2][d2] /\ w.entry[p2][d2] = s.entry[p2][d2]
          /\ d2 \in w.entered[p2] <=> d2 \in s.entered[p2]
      BY <1>3, <1>4, <2>2
    <3> QED
      BY <3>1 DEF MoneyOK, Accounts
  <2> QED
    BY <2>1, <2>2
<1>6. Priced(w, t, s.live \cup {p})
  <2> SUFFICES ASSUME NEW p2 \in s.live \cup {p}, t \in w.entered[p2]
               PROVE  SamePrices(w.entry[p2][t], w.product[p2])
    BY DEF Priced
  <2>1. p2 \in Products
    BY <1>0
  <2>2. CASE p2 = p
    <3>1. t = d
      BY <1>0, <1>1, <2>2 DEF Stored
    <3> QED
      BY <1>0, <1>1, <2>1, <2>2, <3>1 DEF Stored
  <2>3. CASE p2 # p
    <3>1. /\ w.product[p2] = s.product[p2] /\ t \in s.entered[p2] /\ p2 \in s.live
      BY <1>1, <2>1, <2>3 DEF Stored
    <3>2. t \in Days
      BY <1>0, <2>1, <3>1 DEF Db
    <3>3. w.entry[p2][t] = s.entry[p2][t]
      BY <1>4, <2>1, <2>3, <3>2
    <3> QED
      BY <3>1, <3>3 DEF MoneyOK, Priced
  <2> QED
    BY <2>2, <2>3
<1>7. OnlyDay(w, s, d)
  BY <1>4 DEF OnlyDay
<1> QED
  BY <1>5, <1>6, <1>7 DEF w

\* The same for a product that is there already.
LEMMA StoreOneLive ==
  ASSUME NEW s, NEW p \in s.live, NEW d, NEW last, NEW t,
         WritingOf(s, p, d, last, t), MoneyOK(s, t),
         NEW pr \in Product, NEW e \in Entry, NEW a \in Trail,
         Matches(e, a), t = d => SamePrices(e, pr)
  PROVE  LET w == Store(s, p, d, pr, e, a)
         IN  MoneyOK(w, t) /\ OnlyDay(w, s, d)
<1> DEFINE w == Store(s, p, d, pr, e, a)
<1>1. p \in Products /\ s.live \cup {p} = s.live /\ s \in Db /\ d \in Days
  BY DEF WritingOf, ViewOK, Db
<1>2. Accounts(w) /\ Priced(w, t, s.live \cup {p}) /\ OnlyDay(w, s, d)
  BY <1>1, StoreOneMoney
<1>a. Stored(w, s, p, d, pr, e)
  BY <1>1, StoreType
<1> HIDE DEF w
<1>3. w.live = s.live
  BY <1>a DEF Stored
<1>4. MoneyOK(w, t) /\ OnlyDay(w, s, d)
  BY <1>1, <1>2, <1>3 DEF MoneyOK
<1> QED
  BY <1>4 DEF w

\* Either on the last day of the view.
LEMMA StoreMoney ==
  ASSUME NEW s, NEW d, NEW t, Writing(s, d, t), MoneyOK(s, t), NEW p \in Products,
         NEW pr \in Product, NEW e \in Entry, NEW a \in Trail,
         Matches(e, a), t = d => SamePrices(e, pr)
  PROVE  LET w == Store(s, p, d, pr, e, a)
         IN  Accounts(w) /\ Priced(w, t, s.live \cup {p}) /\ OnlyDay(w, s, d)
<1>1. WritingOf(s, p, d, d, t)
  BY WritingEach
<1> QED
  BY <1>1, StoreOneMoney

LEMMA StoreLive ==
  ASSUME NEW s, NEW d, NEW t, Writing(s, d, t), MoneyOK(s, t), NEW p \in s.live,
         NEW pr \in Product, NEW e \in Entry, NEW a \in Trail,
         Matches(e, a), t = d => SamePrices(e, pr)
  PROVE  LET w == Store(s, p, d, pr, e, a)
         IN  MoneyOK(w, t) /\ OnlyDay(w, s, d)
<1>1. p \in Products
  BY DEF Writing, ViewOK, Db
<1>2. WritingOf(s, p, d, d, t)
  BY <1>1, WritingEach
<1> QED
  BY <1>2, StoreOneLive

\* Snapshots are not part of it.
LEMMA RecomputeMoney ==
  ASSUME NEW s \in Db, NEW t, MoneyOK(s, t), NEW days, NEW ids
  PROVE  LET w == Recompute(s, days, ids)
         IN  /\ MoneyOK(w, t)
             /\ w.entered = s.entered /\ w.entry = s.entry
<1> DEFINE w == Recompute(s, days, ids)
<1>1. /\ w.live = s.live /\ w.product = s.product /\ w.entered = s.entered
      /\ w.entry = s.entry /\ w.trail = s.trail
  BY DEF Recompute, Db
<1> HIDE DEF w
<1>2. MoneyOK(w, t) /\ w.entered = s.entered /\ w.entry = s.entry
  BY <1>1 DEF MoneyOK, Accounts, Priced
<1> QED
  BY <1>2 DEF w

\* A new product.
LEMMA WriteProductMoney ==
  ASSUME NEW s, NEW d, NEW t, Writing(s, d, t), MoneyOK(s, t),
         NEW p \in Products, NEW q \in Nat, NEW unit \in {"dona", "kg"},
         NEW buy \in Nat, NEW sell \in Nat, NEW receipt \in BOOLEAN
  PROVE  LET w == WriteProduct(s, d, p, q, unit, buy, sell, receipt)
         IN  MoneyOK(w, t) /\ OnlyDay(w, s, d)
<1> DEFINE qty == NormalizeQuantity(q, unit)
           pr  == [qty |-> qty, unit |-> unit, buy |-> buy, sell |-> sell,
                   epoch |-> 0]
           e   == FreshEntry(pr, qty)
           put == Store(s, p, d, pr, e, FirstTrail(qty))
           w   == WriteProduct(s, d, p, q, unit, buy, sell, receipt)
<1>0. s \in Db /\ d \in Days
  BY DEF Writing, ViewOK
<1>1. qty \in Nat
  BY NormalizeRange
<1>2. w = [put EXCEPT !.live        = @ \cup {p},
                      !.procured[d] = IF receipt THEN @ + qty * buy ELSE @,
                      !.received[p] = qty]
  BY DEF WriteProduct
<1> HIDE DEF qty
<1>3. pr \in Product
  BY <1>1 DEF Product
<1> HIDE DEF pr
<1>4. /\ e \in Entry /\ FirstTrail(qty) \in Trail
      /\ Sold(e) = 0 /\ Revenue(e) = 0 /\ Profit(e) = 0
      /\ e.start + e.lockedSold = qty /\ SamePrices(e, pr)
  BY <1>1, <1>3, FreshOK, FreshFigures DEF FirstTrail, Trail
<1> HIDE DEF e
<1>5. Matches(e, FirstTrail(qty))
  BY <1>4 DEF Matches, FirstTrail
<1>a. Stored(put, s, p, d, pr, e)
  BY <1>0, <1>3, <1>4, StoreType
<1>b. Accounts(put) /\ Priced(put, t, s.live \cup {p}) /\ OnlyDay(put, s, d)
  BY <1>3, <1>4, <1>5, StoreMoney
<1> HIDE DEF put, w
<1>6. put \in Db /\ put.live = s.live
  BY <1>a DEF Stored
<1>7. /\ w.live = s.live \cup {p} /\ w.product = put.product
      /\ w.entered = put.entered /\ w.entry = put.entry /\ w.trail = put.trail
  BY <1>2, <1>6 DEF Db
<1>8. MoneyOK(w, t) /\ OnlyDay(w, s, d)
  BY <1>b, <1>7 DEF MoneyOK, Accounts, Priced, OnlyDay
<1> QED
  BY <1>8 DEF w

\* The line of an entry, before the operation.
LEMMA LineOf ==
  ASSUME NEW s \in Db, NEW t, MoneyOK(s, t), NEW p \in Products, NEW d \in Days
  PROVE  /\ s.entry[p][d] \in Entry /\ s.trail[p][d] \in Trail
         /\ s.trail[p][d].sold \in Int /\ s.trail[p][d].revenue \in Int
         /\ s.trail[p][d].cost \in Int /\ s.trail[p][d].opening \in Int
         /\ d \in s.entered[p] => Matches(s.entry[p][d], s.trail[p][d])
         /\ d \notin s.entered[p] => /\ s.entry[p][d] = NoEntry
                                     /\ s.trail[p][d].sold = 0
                                     /\ s.trail[p][d].revenue = 0
                                     /\ s.trail[p][d].cost = 0
<1>1. s.entry[p][d] \in Entry /\ s.trail[p][d] \in Trail
  BY DEF Db
<1> QED
  BY <1>1 DEF MoneyOK, Accounts, Trail

\* Goods that come in, on top of an entry that says what its line says.
LEMMA ReceivedMoney ==
  ASSUME NEW s, NEW p \in s.live, NEW d, NEW last, NEW t,
         WritingOf(s, p, d, last, t), MoneyOK(s, t),
         NEW delta \in Nat, NEW pr \in Product, NEW base \in Entry,
         d \in s.entered[p] => /\ base.current <= base.start
                               /\ SameBut(base, s.entry[p][d], 0)
                               /\ t = d => SamePrices(base, pr)
  PROVE  LET w == Received(s, d, p, delta, pr, base)
         IN  MoneyOK(w, t) /\ OnlyDay(w, s, d)
<1> DEFINE next    == IF d \in s.entered[p] THEN Raise(base, delta)
                      ELSE FreshEntry(pr, pr.qty)
           a       == s.trail[p][d]
           opening == IF d \in s.entered[p] THEN a.opening + delta ELSE pr.qty
           audit   == [a EXCEPT !.opening = opening]
           put     == Store(s, p, d, pr, next, audit)
           w       == Received(s, d, p, delta, pr, base)
<1>0. s \in Db /\ d \in Days /\ p \in Products
  BY DEF WritingOf, ViewOK, Db
<1>1. w = [put EXCEPT !.received[p] = @ + delta]
  BY DEF Received
<1>2. /\ s.entry[p][d] \in Entry /\ a \in Trail
      /\ a.sold \in Int /\ a.revenue \in Int /\ a.cost \in Int /\ a.opening \in Int
      /\ d \in s.entered[p] => Matches(s.entry[p][d], a)
      /\ d \notin s.entered[p] => a.sold = 0 /\ a.revenue = 0 /\ a.cost = 0
      /\ pr.qty \in Nat
  BY <1>0, LineOf DEF Product
<1> HIDE DEF a
<1>3. /\ audit \in Trail /\ audit.opening = opening
      /\ audit.sold = a.sold /\ audit.revenue = a.revenue /\ audit.cost = a.cost
  BY <1>2 DEF Trail
<1> HIDE DEF audit
<1>4. next \in Entry /\ Matches(next, audit) /\ (t = d => SamePrices(next, pr))
  <2>1. CASE d \in s.entered[p]
    <3>1. next \in Entry /\ SameBut(next, base, delta) /\ SamePrices(next, base)
      BY <2>1, RaiseEntry, RaiseFigures
    <3> HIDE DEF next
    <3>2. base.start + base.lockedSold = a.opening + 0
      BY <1>2, <2>1 DEF SameBut, Matches
    <3>3. next.start + next.lockedSold = base.start + base.lockedSold + delta
      BY <3>1 DEF SameBut
    <3>4. next.start + next.lockedSold = a.opening + delta
      BY <1>2, <3>2, <3>3
    <3>5. SameFigures(next, s.entry[p][d]) /\ (t = d => SamePrices(next, pr))
      BY <2>1, <3>1 DEF SameBut, SameFigures, SamePrices
    <3> QED
      BY <1>2, <1>3, <2>1, <3>1, <3>4, <3>5 DEF Matches, SameFigures
  <2>2. CASE d \notin s.entered[p]
    <3>1. /\ next \in Entry /\ Sold(next) = 0 /\ Revenue(next) = 0 /\ Profit(next) = 0
          /\ next.start + next.lockedSold = pr.qty /\ SamePrices(next, pr)
      BY <1>2, <2>2, FreshOK, FreshFigures
    <3> QED
      BY <1>2, <1>3, <2>2, <3>1 DEF Matches
  <2> QED
    BY <2>1, <2>2
<1> HIDE DEF next
<1>5. MoneyOK(put, t) /\ OnlyDay(put, s, d)
  BY <1>3, <1>4, StoreOneLive
<1>6. put \in Db
  BY <1>0, <1>3, <1>4, StoreType DEF Stored
<1> HIDE DEF put, w
<1>7. /\ w.live = put.live /\ w.product = put.product
      /\ w.entered = put.entered /\ w.entry = put.entry /\ w.trail = put.trail
  BY <1>1, <1>6 DEF Db
<1>8. MoneyOK(w, t) /\ OnlyDay(w, s, d)
  BY <1>5, <1>7 DEF MoneyOK, Accounts, Priced, OnlyDay
<1> QED
  BY <1>8 DEF w

\* A restock.
LEMMA RestockedMoney ==
  ASSUME NEW s, NEW p \in s.live, NEW d, NEW last, NEW t,
         WritingOf(s, p, d, last, t), MoneyOK(s, t), NEW delta \in Nat
  PROVE  LET w == Restocked(s, d, p, delta)
         IN  MoneyOK(w, t) /\ OnlyDay(w, s, d)
<1> DEFINE pr == [s.product[p] EXCEPT !.qty = @ + delta]
           e  == s.entry[p][d]
<1>1. /\ p \in Products /\ s.product[p] \in Product /\ e \in Entry /\ Ordered(s)
  BY DEF WritingOf, ViewOK, Db
<1>2. /\ pr \in Product /\ pr.buy = s.product[p].buy /\ pr.sell = s.product[p].sell
  <2>1. s.product[p].qty + delta \in Nat
    BY <1>1 DEF Product
  <2> QED
    BY <1>1, <2>1 DEF Product
<1>3. d \in s.entered[p] => e.current <= e.start
  BY <1>1 DEF Ordered
<1>4. SameBut(e, e, 0)
  <2>1. e.start + e.lockedSold \in Int
    BY <1>1 DEF Entry
  <2> QED
    BY <2>1 DEF SameBut, SameFigures
<1>5. d \in s.entered[p] /\ t = d => SamePrices(e, pr)
  BY <1>2 DEF MoneyOK, Priced, SamePrices
<1>6. Restocked(s, d, p, delta) = Received(s, d, p, delta, pr, e)
  BY DEF Restocked
<1> HIDE DEF pr, e
<1>7. LET w == Received(s, d, p, delta, pr, e) IN MoneyOK(w, t) /\ OnlyDay(w, s, d)
  BY <1>1, <1>2, <1>3, <1>4, <1>5, ReceivedMoney DEF e
<1> QED
  BY <1>6, <1>7

\* A purchase of a known product: the earlier sales keep their cost.
LEMMA PurchasedMoney ==
  ASSUME NEW s, NEW p \in s.live, NEW d, NEW last, NEW t,
         WritingOf(s, p, d, last, t), MoneyOK(s, t),
         NEW r \in Nat, NEW delta \in Nat, NEW buy \in Nat
  PROVE  LET w == Purchased(s, r, d, p, delta, buy)
         IN  MoneyOK(w, t) /\ OnlyDay(w, s, d)
<1> DEFINE pr   == [s.product[p] EXCEPT !.qty = @ + delta, !.buy = buy, !.epoch = r]
           e    == s.entry[p][d]
           f    == Freeze(e)
           base == [f EXCEPT !.buy = buy]
<1>1. /\ p \in Products /\ s.product[p] \in Product /\ e \in Entry /\ Ordered(s)
  BY DEF WritingOf, ViewOK, Db
<1>2. /\ pr \in Product /\ pr.buy = buy /\ pr.sell = s.product[p].sell
  <2>1. s.product[p].qty + delta \in Nat
    BY <1>1 DEF Product
  <2> QED
    BY <1>1, <2>1 DEF Product
<1>3. d \in s.entered[p] => e.current <= e.start
  BY <1>1 DEF Ordered
<1>4. Purchased(s, r, d, p, delta, buy) = Received(s, d, p, delta, pr, base)
  BY DEF Purchased
<1>5. f \in Entry /\ f.start = f.current
  BY <1>1, FreezeEntry
<1>6. d \in s.entered[p] => SameBut(f, e, 0) /\ SamePrices(f, e)
  BY <1>1, <1>3, FreezeFigures
<1> HIDE DEF f
<1>7. /\ base \in Entry /\ base.start = f.start /\ base.current = f.current
      /\ base.lockedSold = f.lockedSold /\ base.lockedRevenue = f.lockedRevenue
      /\ base.lockedProfit = f.lockedProfit /\ base.buy = buy /\ base.sell = f.sell
  BY <1>5 DEF Entry
<1> HIDE DEF base, pr
<1>8. SameFigures(base, f)
  BY <1>5, <1>7, SpelledLocked DEF SameFigures
<1>9. d \in s.entered[p] => SameBut(base, e, 0) /\ (t = d => SamePrices(base, pr))
  <2> SUFFICES ASSUME d \in s.entered[p]
               PROVE  SameBut(base, e, 0) /\ (t = d => SamePrices(base, pr))
    OBVIOUS
  <2>1. SameFigures(base, e)
    BY <1>6, <1>8 DEF SameBut, SameFigures
  <2>2. base.start + base.lockedSold = e.start + e.lockedSold + 0
    BY <1>6, <1>7 DEF SameBut
  <2>3. t = d => e.sell = s.product[p].sell
    BY DEF MoneyOK, Priced, SamePrices
  <2> QED
    BY <1>2, <1>6, <1>7, <2>1, <2>2, <2>3 DEF SameBut, SamePrices
<1>10. d \in s.entered[p] => base.current <= base.start
  BY <1>5, <1>7 DEF Entry
<1> HIDE DEF e
<1>11. LET w == Received(s, d, p, delta, pr, base) IN MoneyOK(w, t) /\ OnlyDay(w, s, d)
  BY <1>2, <1>7, <1>9, <1>10, ReceivedMoney DEF e
<1> QED
  BY <1>4, <1>11

\* Opening a day writes the line from the entry.
LEMMA OpenedMoney ==
  ASSUME NEW s, NEW d, NEW t, Writing(s, d, t), MoneyOK(s, t), NEW r \in Nat,
         NEW p \in s.live, NEW start \in Nat, NEW current \in Nat, current <= start
  PROVE  LET w == Opened(s, r, d, p, start, current)
         IN  MoneyOK(w, t) /\ OnlyDay(w, s, d)
<1> DEFINE was   == EntryOr(s, p, d)
           pr    == AtCount(s.product[p], current, r)
           next  == [was EXCEPT !.start = start, !.current = current,
                                !.buy = s.product[p].buy, !.sell = s.product[p].sell]
           audit == [sold    |-> Sold(next),
                     revenue |-> Revenue(next),
                     cost    |-> Revenue(next) - Profit(next),
                     opening |-> start + next.lockedSold]
<1>1. /\ p \in Products /\ s \in Db /\ d \in Days /\ Ordered(s)
      /\ s.product[p] \in Product
      /\ s.product[p].buy \in Nat /\ s.product[p].sell \in Nat
  BY DEF Writing, ViewOK, Db, Product
<1>2. was \in Entry
  BY <1>1, EntryOrOK
<1>3. Opened(s, r, d, p, start, current) = Store(s, p, d, pr, next, audit)
  BY DEF Opened
<1> HIDE DEF was
<1>4. /\ next \in Entry /\ next.start = start
      /\ next.buy = s.product[p].buy /\ next.sell = s.product[p].sell
  BY <1>1, <1>2 DEF Entry
<1>5. pr \in Product /\ pr.buy = s.product[p].buy /\ pr.sell = s.product[p].sell
  BY <1>1, AtCountOK DEF AtCount, Product
<1> HIDE DEF next, pr
<1>6. /\ Sold(next) \in Int /\ Revenue(next) \in Int /\ Profit(next) \in Int
      /\ next.lockedSold \in Nat
  BY <1>4, FiguresType DEF Entry
<1> HIDE DEF Sold, Revenue, Profit
<1>7. audit \in Trail
  BY <1>6 DEF Trail
<1>8. Matches(next, audit)
  BY <1>4, <1>6 DEF Matches
<1>9. SamePrices(next, pr)
  BY <1>4, <1>5 DEF SamePrices
<1> HIDE DEF audit
<1>10. LET w == Store(s, p, d, pr, next, audit) IN MoneyOK(w, t) /\ OnlyDay(w, s, d)
  BY <1>4, <1>5, <1>7, <1>8, <1>9, StoreLive
<1> QED
  BY <1>3, <1>10

\* What a day's entry says before a count or a sale, or the first entry it would get.
LEMMA WasOf ==
  ASSUME NEW s \in Db, Ordered(s), NEW t, MoneyOK(s, t), NEW p \in s.live, NEW d \in Days
  PROVE  LET e == EntryOr(s, p, d)
             a == s.trail[p][d]
         IN  /\ p \in Products /\ e \in Entry /\ e.current <= e.start /\ a \in Trail
             /\ Sold(e) = a.sold /\ Revenue(e) = a.revenue /\ Profit(e) = a.revenue - a.cost
             /\ e.start + e.lockedSold = IF d \in s.entered[p] THEN a.opening ELSE e.start
             /\ t = d => SamePrices(e, s.product[p])
<1> DEFINE e == EntryOr(s, p, d)
           a == s.trail[p][d]
<1>1. p \in Products /\ s.product[p] \in Product /\ s.product[p].qty \in Nat
  BY DEF Db, Product
<1>2. /\ e \in Entry /\ e.current <= e.start /\ a \in Trail
      /\ d \in s.entered[p] => e = s.entry[p][d] /\ Matches(e, a)
      /\ d \notin s.entered[p] => a.sold = 0 /\ a.revenue = 0 /\ a.cost = 0
  BY <1>1, EntryOrOK, LineOf
<1>3. CASE d \in s.entered[p]
  <2>1. t = d => SamePrices(e, s.product[p])
    BY <1>2, <1>3 DEF MoneyOK, Priced
  <2> HIDE DEF e, a
  <2>2. /\ Sold(e) = a.sold /\ Revenue(e) = a.revenue /\ Profit(e) = a.revenue - a.cost
        /\ e.start + e.lockedSold = a.opening
    BY <1>2, <1>3 DEF Matches
  <2> QED
    BY <1>1, <1>2, <1>3, <2>1, <2>2 DEF e, a
<1>4. CASE d \notin s.entered[p]
  <2> DEFINE f == FreshEntry(s.product[p], s.product[p].qty)
  <2>1. e = f
    BY <1>4 DEF EntryOr
  <2>2. /\ Sold(f) = 0 /\ Revenue(f) = 0 /\ Profit(f) = 0
        /\ f.start + f.lockedSold = f.start /\ SamePrices(f, s.product[p])
    BY <1>1, FreshOK, FreshFigures
  <2> HIDE DEF e, a, f
  <2>3. /\ Sold(e) = a.sold /\ Revenue(e) = a.revenue /\ Profit(e) = a.revenue - a.cost
        /\ e.start + e.lockedSold = e.start /\ SamePrices(e, s.product[p])
    BY <1>2, <1>4, <2>1, <2>2
  <2> QED
    BY <1>1, <1>2, <1>4, <2>3 DEF e, a
<1> QED
  BY <1>3, <1>4

\* A count; restated money replaces what the day has taken and keeps its cost.
LEMMA CountedMoney ==
  ASSUME NEW s, NEW d, NEW t, Writing(s, d, t), MoneyOK(s, t), NEW r \in Nat,
         NEW p \in s.live, NEW current \in Nat,
         current <= EntryOr(s, p, d).start, NEW revenue \in Nat \cup {None}
  PROVE  LET w == Counted(s, r, d, p, current, revenue)
         IN  MoneyOK(w, t) /\ OnlyDay(w, s, d)
<1> DEFINE was      == EntryOr(s, p, d)
           derived  == [was EXCEPT !.current = current]
           restate  == revenue # None /\ Sold(derived) > 0
           profit   == was.lockedProfit + revenue - was.lockedRevenue
                         - NewSold(derived) * was.buy
           restated == [derived EXCEPT
                          !.start         = current,
                          !.lockedSold    = Sold(derived),
                          !.lockedProfit  = profit,
                          !.lockedRevenue = revenue]
           next     == IF restate THEN restated ELSE derived
           gone     == was.current - current
           a        == s.trail[p][d]
           audit    == [sold    |-> a.sold + gone,
                        revenue |-> IF restate THEN revenue ELSE a.revenue + gone * was.sell,
                        cost    |-> a.cost + gone * was.buy,
                        opening |-> IF d \in s.entered[p] THEN a.opening ELSE was.start]
           pr       == AtCount(s.product[p], current, r)
<1>1. /\ s \in Db /\ d \in Days /\ Ordered(s) /\ p \in Products /\ s.product[p] \in Product
  BY DEF Writing, ViewOK, Db
<1>2. /\ was \in Entry /\ was.current <= was.start /\ a \in Trail
      /\ Sold(was) = a.sold /\ Revenue(was) = a.revenue
      /\ Profit(was) = a.revenue - a.cost
      /\ was.start + was.lockedSold = IF d \in s.entered[p] THEN a.opening ELSE was.start
      /\ t = d => SamePrices(was, s.product[p])
  BY <1>1, WasOf
<1>3. current <= was.start
  OBVIOUS
<1>4. Counted(s, r, d, p, current, revenue) = Store(s, p, d, pr, next, audit)
  BY DEF Counted
<1> HIDE DEF was, a
<1>5. /\ was.start \in Nat /\ was.current \in Nat /\ was.buy \in Nat /\ was.sell \in Nat
      /\ was.lockedSold \in Nat /\ was.lockedRevenue \in Int /\ was.lockedProfit \in Int
      /\ a.sold \in Int /\ a.revenue \in Int /\ a.cost \in Int /\ a.opening \in Int
      /\ gone \in Int /\ gone * was.sell \in Int /\ gone * was.buy \in Int
  BY <1>2 DEF Entry, Trail
<1>6. /\ derived \in Entry /\ derived.start = was.start /\ derived.current = current
      /\ Sold(derived) = Sold(was) + gone
      /\ Revenue(derived) = Revenue(was) + gone * was.sell
      /\ Profit(derived) = Profit(was) + gone * was.sell - gone * was.buy
      /\ derived.start + derived.lockedSold = was.start + was.lockedSold
      /\ SamePrices(derived, was)
  BY <1>2, <1>3, CountFigures
<1> HIDE DEF derived
<1>7. NewSold(derived) = (was.start - was.current) + gone /\ Sold(derived) \in Nat
  <2>1. NewSold(derived) = derived.start - derived.current
    BY <1>3, <1>6, Spelled
  <2> QED
    BY <1>3, <1>5, <1>6, <2>1, FiguresType
<1>8. NewSold(derived) * was.buy = NewSold(was) * was.buy + gone * was.buy
  <2>1. NewSold(was) = was.start - was.current /\ NewSold(was) \in Int
    BY <1>2, Spelled
  <2>2. NewSold(derived) = NewSold(was) + gone
    BY <1>7, <2>1
  <2> HIDE DEF gone, derived
  <2> QED
    BY <1>5, <2>1, <2>2, Distributes
<1>9. a.cost = was.lockedRevenue - was.lockedProfit + NewSold(was) * was.buy
      /\ NewSold(was) * was.buy \in Int
  <2>1. /\ Revenue(was) = was.lockedRevenue + NewSold(was) * was.sell
        /\ Profit(was) = was.lockedProfit + NewSold(was) * (was.sell - was.buy)
        /\ NewSold(was) \in Nat
    BY <1>2, Spelled
  <2>2. /\ NewSold(was) * (was.sell - was.buy) = NewSold(was) * was.sell - NewSold(was) * was.buy
        /\ NewSold(was) * was.sell \in Int /\ NewSold(was) * was.buy \in Int
    BY <1>5, <2>1, Distributes
  <2> DEFINE total  == a.revenue
             cost   == a.cost
             paid   == was.lockedRevenue
             earned == was.lockedProfit
             x      == NewSold(was) * was.sell
             y      == NewSold(was) * was.buy
  <2>3. /\ total \in Int /\ cost \in Int /\ paid \in Int /\ earned \in Int
        /\ x \in Int /\ y \in Int
    BY <1>5, <2>2
  <2>4. total = paid + x /\ total - cost = earned + (x - y)
    BY <1>2, <2>1, <2>2
  <2> HIDE DEF total, cost, paid, earned, x, y
  <2>5. cost = paid - earned + y
    BY <2>3, <2>4
  <2> QED
    BY <2>3, <2>5 DEF cost, paid, earned, y
<1> HIDE DEF gone
<1> DEFINE Fits == /\ next \in Entry /\ audit \in Trail
                   /\ Matches(next, audit) /\ SamePrices(next, was)
<1>10. ASSUME restate PROVE Fits
  <2>1. revenue \in Int
    BY <1>10
  <2>2. /\ profit \in Int
        /\ profit = revenue - (a.cost + gone * was.buy)
    BY <1>5, <1>8, <1>9, <2>1
  <2> HIDE DEF profit
  <2>3. /\ restated \in Entry /\ restated.start = current /\ restated.current = current
        /\ restated.lockedSold = Sold(derived) /\ restated.lockedRevenue = revenue
        /\ restated.lockedProfit = profit
        /\ restated.buy = derived.buy /\ restated.sell = derived.sell
    BY <1>6, <1>7, <2>1, <2>2 DEF Entry
  <2>4. next = restated
    BY <1>10
  <2> HIDE DEF next, restated
  <2>5. /\ Sold(restated) = Sold(derived) /\ Revenue(restated) = revenue
        /\ Profit(restated) = profit
    BY <2>3, SpelledLocked
  <2>6. restated.start + restated.lockedSold = was.start + was.lockedSold
    <3>1. Sold(derived) = derived.lockedSold + (derived.start - derived.current)
      BY <1>3, <1>6, Spelled
    <3>2. derived.lockedSold \in Nat
      BY <1>6 DEF Entry
    <3> QED
      BY <1>5, <1>6, <2>3, <3>1, <3>2
  <2>7. audit.revenue = revenue
    BY <1>10
  <2>8. /\ audit.sold = a.sold + gone /\ audit.cost = a.cost + gone * was.buy
        /\ audit.opening = IF d \in s.entered[p] THEN a.opening ELSE was.start
        /\ audit \in Trail
    BY <1>2, <1>5, <1>10, <2>1 DEF Trail
  <2> HIDE DEF audit
  <2>9. Matches(restated, audit)
    BY <1>2, <1>5, <1>6, <2>2, <2>5, <2>6, <2>7, <2>8 DEF Matches
  <2>10. SamePrices(restated, was)
    BY <1>6, <2>3 DEF SamePrices
  <2>11. next \in Entry /\ audit \in Trail /\ Matches(next, audit) /\ SamePrices(next, was)
    BY <2>3, <2>4, <2>8, <2>9, <2>10
  <2> QED
    BY <2>11
<1>11. ASSUME ~restate PROVE Fits
  <2>4. next = derived
    BY <1>11
  <2>7. audit.revenue = a.revenue + gone * was.sell
    BY <1>11
  <2>8. /\ audit.sold = a.sold + gone /\ audit.cost = a.cost + gone * was.buy
        /\ audit.opening = IF d \in s.entered[p] THEN a.opening ELSE was.start
        /\ audit \in Trail
    BY <1>2, <1>5, <1>11 DEF Trail
  <2> HIDE DEF audit, next
  <2>9. Matches(derived, audit)
    BY <1>2, <1>5, <1>6, <2>7, <2>8 DEF Matches
  <2>11. next \in Entry /\ audit \in Trail /\ Matches(next, audit) /\ SamePrices(next, was)
    BY <1>6, <2>4, <2>8, <2>9
  <2> QED
    BY <2>11
<1>12. Fits
  BY <1>10, <1>11
<1>13. pr \in Product /\ pr.buy = s.product[p].buy /\ pr.sell = s.product[p].sell
  BY <1>1, AtCountOK DEF AtCount, Product
<1> HIDE DEF next, audit, pr
<1>14. t = d => SamePrices(next, pr)
  BY <1>2, <1>12, <1>13 DEF SamePrices
<1>15. LET w == Store(s, p, d, pr, next, audit) IN MoneyOK(w, t) /\ OnlyDay(w, s, d)
  BY <1>12, <1>13, <1>14, StoreLive
<1> QED
  BY <1>4, <1>15

\* A product edit: a stated quantity changes the opening stock only, and a new price
\* finds the earlier sales frozen.
LEMMA EditedMoney ==
  ASSUME NEW s, NEW d, NEW t, Writing(s, d, t), MoneyOK(s, t), NEW r \in Nat,
         NEW p \in s.live, NEW pay \in Pay
  PROVE  LET w == Edited(s, r, d, p, pay)
         IN  MoneyOK(w, t) /\ OnlyDay(w, s, d)
<1> DEFINE old      == s.product[p]
           explicit == pay.quantity # None
           unit     == Given(pay.unit, old.unit)
           qty      == NormalizeQuantity(Given(pay.quantity, old.qty), unit)
           pr       == [qty     |-> IF explicit THEN qty ELSE old.qty,
                        unit    |-> unit,
                        buy     |-> Given(pay.buy, old.buy),
                        sell    |-> Given(pay.sell, old.sell),
                        epoch   |-> IF explicit /\ qty # old.qty THEN r ELSE old.epoch]
           was      == s.entry[p][d]
           newSell  == pay.sell # None /\ pay.sell # was.sell
           newBuy   == pay.buy # None /\ pay.buy # was.buy
           counted  == IF explicit
                       THEN [was EXCEPT !.start = NewSold(was) + qty, !.current = qty]
                       ELSE was
           frozen   == IF (newSell \/ newBuy) /\ NewSold(was) > 0
                       THEN Freeze(counted) ELSE counted
           kept     == [frozen EXCEPT !.sell    = IF newSell THEN pay.sell ELSE @,
                                      !.buy     = IF newBuy THEN pay.buy ELSE @]
           next     == IF d \in s.entered[p] THEN kept ELSE FreshEntry(pr, qty)
           a        == s.trail[p][d]
           opening  == IF explicit \/ d \notin s.entered[p] THEN a.sold + qty ELSE a.opening
           audit    == [a EXCEPT !.opening = opening]
<1>0. /\ s \in Db /\ d \in Days /\ p \in Products /\ Ordered(s)
      /\ was \in Entry /\ old \in Product /\ a \in Trail
  BY DEF Writing, ViewOK, Db
<1>x. Edited(s, r, d, p, pay) = Store(s, p, d, pr, next, audit)
  BY DEF Edited
<1>1. /\ unit \in {"dona", "kg"}
      /\ Given(pay.quantity, old.qty) \in Nat
      /\ Given(pay.buy, old.buy) \in Nat
      /\ Given(pay.sell, old.sell) \in Nat
  BY <1>0 DEF Pay, Given, Product
<1>2. qty \in Nat
  BY <1>1, NormalizeRange
<1>3. /\ pr \in Product /\ pr.buy = Given(pay.buy, old.buy)
      /\ pr.sell = Given(pay.sell, old.sell)
  BY <1>0, <1>1, <1>2 DEF Product
<1>4. /\ a.sold \in Int /\ a.revenue \in Int /\ a.cost \in Int /\ a.opening \in Int
      /\ d \in s.entered[p] => Matches(was, a)
      /\ d \notin s.entered[p] => a.sold = 0 /\ a.revenue = 0 /\ a.cost = 0
  BY <1>0, LineOf
<1>5. t = d /\ d \in s.entered[p] => was.buy = old.buy /\ was.sell = old.sell
  BY DEF MoneyOK, Priced, SamePrices
<1>6. /\ was.start \in Nat /\ was.current \in Nat /\ was.lockedSold \in Nat
      /\ NewSold(was) \in Nat
  BY <1>0, FiguresType DEF Entry
<1>7. (newSell => pay.sell \in Nat) /\ (newBuy => pay.buy \in Nat)
  BY DEF Pay
<1> HIDE DEF qty, a
<1>8. ASSUME d \in s.entered[p]
      PROVE  /\ counted \in Entry /\ counted.current <= counted.start
             /\ counted.start - counted.current = was.start - was.current
             /\ SameFigures(counted, was) /\ SamePrices(counted, was)
             /\ counted.start + counted.lockedSold
                  = IF explicit THEN a.sold + qty ELSE a.opening
  <2>1. was.current <= was.start
    BY <1>0, <1>8 DEF Ordered
  <2>2. NewSold(was) = was.start - was.current /\ Sold(was) = was.lockedSold + NewSold(was)
    BY <1>0, <1>6, <2>1, Spelled
  <2>3. CASE explicit
    <3>1. counted = [was EXCEPT !.start = NewSold(was) + qty, !.current = qty]
      BY <2>3
    <3>2. NewSold(was) + qty \in Nat
      BY <1>2, <1>6
    <3> HIDE DEF counted, was, NewSold
    <3>3. /\ counted \in Entry /\ counted.start = NewSold(was) + qty
          /\ counted.current = qty /\ counted.lockedSold = was.lockedSold
          /\ counted.lockedRevenue = was.lockedRevenue
          /\ counted.lockedProfit = was.lockedProfit
          /\ counted.buy = was.buy /\ counted.sell = was.sell
      BY <1>0, <1>2, <3>1, <3>2 DEF Entry
    <3>4. /\ counted.current <= counted.start
          /\ counted.start - counted.current = was.start - was.current
      BY <1>2, <1>6, <2>2, <3>3
    <3>5. SamePrices(counted, was)
      BY <3>3 DEF SamePrices
    <3>6. SameFigures(counted, was)
      BY <1>0, <2>1, <3>3, <3>4, <3>5, LikeFigures
    <3>7. counted.start + counted.lockedSold = a.sold + qty
      BY <1>2, <1>4, <1>6, <1>8, <2>2, <3>3 DEF Matches
    <3> QED
      BY <2>3, <3>3, <3>4, <3>5, <3>6, <3>7
  <2>4. CASE ~explicit
    <3>1. counted = was
      BY <2>4
    <3> HIDE DEF counted, was
    <3> QED
      BY <1>0, <1>4, <1>8, <2>1, <2>4, <3>1 DEF Matches, SameFigures, SamePrices
  <2> QED
    BY <2>3, <2>4
<1> HIDE DEF counted
<1>9. ASSUME d \in s.entered[p]
      PROVE  /\ frozen \in Entry /\ frozen.current <= frozen.start
             /\ SameFigures(frozen, was) /\ SamePrices(frozen, was)
             /\ frozen.start + frozen.lockedSold
                  = IF explicit THEN a.sold + qty ELSE a.opening
             /\ newSell \/ newBuy => frozen.start = frozen.current
  <2>0. /\ counted.start \in Nat /\ counted.current \in Nat /\ counted.lockedSold \in Nat
    BY <1>8, <1>9 DEF Entry
  <2>1. CASE (newSell \/ newBuy) /\ NewSold(was) > 0
    <3>1. frozen = Freeze(counted)
      BY <2>1
    <3>2. /\ frozen \in Entry /\ frozen.start = counted.current
          /\ frozen.current = counted.current
          /\ SameBut(frozen, counted, 0) /\ SamePrices(frozen, counted)
      BY <1>8, <1>9, <3>1, FreezeEntry, FreezeFigures
    <3> HIDE DEF frozen, was, NewSold
    <3> QED
      BY <1>8, <1>9, <2>0, <3>2 DEF SameBut, SameFigures, SamePrices
  <2>2. CASE ~((newSell \/ newBuy) /\ NewSold(was) > 0)
    <3>1. frozen = counted
      BY <2>2
    <3>2. newSell \/ newBuy => NewSold(was) = 0
      BY <1>6, <2>2
    <3>3. was.current <= was.start
      BY <1>0, <1>9 DEF Ordered
    <3>4. NewSold(was) = was.start - was.current
      BY <1>0, <3>3, Spelled
    <3> HIDE DEF frozen, was, newSell, newBuy, NewSold
    <3> QED
      BY <1>6, <1>8, <1>9, <2>0, <3>1, <3>2, <3>4
  <2> QED
    BY <2>1, <2>2
<1> HIDE DEF frozen
<1>10. ASSUME d \in s.entered[p]
       PROVE  /\ kept \in Entry /\ SameFigures(kept, was)
              /\ kept.start + kept.lockedSold
                   = IF explicit THEN a.sold + qty ELSE a.opening
              /\ kept.sell = IF newSell THEN pay.sell ELSE was.sell
              /\ kept.buy = IF newBuy THEN pay.buy ELSE was.buy
  <2>1. /\ frozen.sell = was.sell /\ frozen.buy = was.buy
        /\ was.sell \in Nat /\ was.buy \in Nat
    BY <1>0, <1>9, <1>10 DEF SamePrices, Entry
  <2> HIDE DEF newSell, newBuy
  <2>2. /\ kept.start = frozen.start /\ kept.current = frozen.current
        /\ kept.lockedSold = frozen.lockedSold /\ kept.lockedRevenue = frozen.lockedRevenue
        /\ kept.lockedProfit = frozen.lockedProfit
        /\ kept.sell = (IF newSell THEN pay.sell ELSE was.sell)
        /\ kept.buy = (IF newBuy THEN pay.buy ELSE was.buy)
        /\ kept \in Entry
    BY <1>7, <1>9, <1>10, <2>1 DEF Entry
  <2> HIDE DEF kept, was
  <2>3. kept.start = kept.current \/ SamePrices(kept, frozen)
    BY <1>9, <1>10, <2>1, <2>2 DEF SamePrices
  <2>4. SameFigures(kept, frozen)
    BY <1>9, <1>10, <2>2, <2>3, LikeFigures
  <2> QED
    BY <1>9, <1>10, <2>2, <2>4 DEF SameFigures
<1> HIDE DEF kept
<1>11. /\ audit \in Trail /\ audit.sold = a.sold /\ audit.revenue = a.revenue
       /\ audit.cost = a.cost /\ audit.opening = opening
  BY <1>0, <1>2, <1>4 DEF Trail
<1> HIDE DEF audit
<1>12. next \in Entry /\ Matches(next, audit) /\ (t = d => SamePrices(next, pr))
  <2>1. CASE d \in s.entered[p]
    <3>1. next = kept
      BY <2>1
    <3>2. Matches(kept, audit)
      <4> HIDE DEF was
      <4> QED
        BY <1>4, <1>10, <1>11, <2>1 DEF Matches, SameFigures
    <3>3. t = d => SamePrices(kept, pr)
      <4> SUFFICES ASSUME t = d PROVE SamePrices(kept, pr)
        OBVIOUS
      <4>1. was.buy = old.buy /\ was.sell = old.sell
        BY <1>5, <2>1
      <4>2. /\ kept.sell = (IF newSell THEN pay.sell ELSE was.sell)
            /\ kept.buy = (IF newBuy THEN pay.buy ELSE was.buy)
        BY <1>10, <2>1
      <4> HIDE DEF pr, was, old
      <4>3. kept.sell = Given(pay.sell, old.sell) /\ kept.buy = Given(pay.buy, old.buy)
        BY <4>1, <4>2 DEF Given
      <4> QED
        BY <1>3, <4>3 DEF SamePrices
    <3> QED
      BY <1>10, <2>1, <3>1, <3>2, <3>3
  <2>2. CASE d \notin s.entered[p]
    <3> HIDE DEF pr
    <3>1. next = FreshEntry(pr, qty)
      BY <2>2
    <3>2. /\ next \in Entry /\ Sold(next) = 0 /\ Revenue(next) = 0 /\ Profit(next) = 0
          /\ next.start + next.lockedSold = qty /\ SamePrices(next, pr)
      BY <1>2, <1>3, <3>1, FreshOK, FreshFigures
    <3> HIDE DEF next
    <3> QED
      BY <1>2, <1>4, <1>11, <2>2, <3>2 DEF Matches
  <2> QED
    BY <2>1, <2>2
<1> HIDE DEF next, pr
<1>13. LET w == Store(s, p, d, pr, next, audit) IN MoneyOK(w, t) /\ OnlyDay(w, s, d)
  BY <1>3, <1>11, <1>12, StoreLive
<1> QED
  BY <1>x, <1>13

\* No entry is lost, and the figures of w are those of s, but for day d; there, if late,
\* they only grow.
Kept(w, s, d, late) == \A p \in Products : \A d2 \in Days :
  /\ d2 \in s.entered[p] => d2 \in w.entered[p]
  /\ IF d2 = d
     THEN late => /\ Sold(w.entry[p][d2]) >= Sold(s.entry[p][d2])
                  /\ Revenue(w.entry[p][d2]) >= Revenue(s.entry[p][d2])
     ELSE SameFigures(w.entry[p][d2], s.entry[p][d2])

\* A sale, on the writer's day or late: the sold day gains it, later days lose opening
\* stock only.
LEMMA SoldLineMoney ==
  ASSUME NEW s, NEW last, NEW t, ViewOK(s, last, t), MoneyOK(s, t),
         NEW d \in Days, d \in 1..last,
         NEW late \in BOOLEAN,
         late => last = t /\ t \in Days /\ d < t,
         ~late => last = d /\ (t = d \/ t \notin 1..d),
         NEW p \in s.live, NEW q \in Nat, NEW charged \in Nat,
         q <= EntryOr(s, p, d).current, q <= s.product[p].qty,
         late => LaterDaysHold(s, p, d, q)
  PROVE  LET w == SoldLine(s, d, late, p, q, charged)
         IN  MoneyOK(w, t) /\ Kept(w, s, d, late)
<1> DEFINE was     == EntryOr(s, p, d)
           next    == AfterSale(was, q, charged)
           later   == {d2 \in s.entered[p] : late /\ d2 > d}
           row     == [d2 \in Days |-> IF d2 \in later THEN Shift(s.entry[p][d2], q)
                                       ELSE s.entry[p][d2]]
           log     == [d2 \in Days |-> IF d2 \in later
                                       THEN [s.trail[p][d2] EXCEPT !.opening = @ - q]
                                       ELSE s.trail[p][d2]]
           shifted == [s EXCEPT !.entry[p] = row, !.trail[p] = log]
           a       == s.trail[p][d]
           pr      == [s.product[p] EXCEPT
                         !.qty     = LiveQuantity(s.product[p], late, q, next.current)]
           audit   == [sold    |-> a.sold + q,
                       revenue |-> a.revenue + charged,
                       cost    |-> a.cost + q * was.buy,
                       opening |-> IF d \in s.entered[p] THEN a.opening ELSE was.start]
           w       == Store(shifted, p, d, pr, next, audit)
<1>0. /\ s \in Db /\ Ordered(s) /\ UpTo(s, last)
      /\ p \in Products /\ s.product[p] \in Product /\ s.product[p].qty \in Nat
      /\ s.entered \in [Products -> SUBSET Days]
      /\ s.entry \in [Products -> [Days -> Entry]]
      /\ s.trail \in [Products -> [Days -> Trail]]
      /\ a \in Trail /\ s.live \subseteq Products
  BY DEF ViewOK, Db, Product
<1>x. SoldLine(s, d, late, p, q, charged) = Recompute(w, later, {p})
  BY DEF SoldLine
<1>1. /\ was \in Entry /\ was.current <= was.start
      /\ Sold(was) = a.sold /\ Revenue(was) = a.revenue /\ Profit(was) = a.revenue - a.cost
      /\ was.start + was.lockedSold = IF d \in s.entered[p] THEN a.opening ELSE was.start
      /\ t = d => SamePrices(was, s.product[p])
  BY <1>0, WasOf
<1>2. a.sold \in Int /\ a.revenue \in Int /\ a.cost \in Int /\ a.opening \in Int
  BY <1>0, LineOf
<1> HIDE DEF was
<1>3. was.start \in Nat /\ was.current \in Nat /\ was.buy \in Nat /\ q * was.buy \in Int
  BY <1>1 DEF Entry
<1>4. /\ next \in Entry /\ next.current = was.current - q
      /\ Sold(next) = Sold(was) + q /\ Revenue(next) = Revenue(was) + charged
      /\ Profit(next) = Profit(was) + charged - q * was.buy
      /\ next.start + next.lockedSold = was.start + was.lockedSold
      /\ SamePrices(next, was)
  BY <1>1, AfterSaleOK, AfterSaleFigures DEF was
<1> HIDE DEF next, a
<1>5. audit \in Trail /\ Matches(next, audit)
  <2>1. /\ audit \in Trail /\ audit.sold = a.sold + q /\ audit.revenue = a.revenue + charged
        /\ audit.cost = a.cost + q * was.buy
        /\ audit.opening = IF d \in s.entered[p] THEN a.opening ELSE was.start
    BY <1>2, <1>3 DEF Trail
  <2> HIDE DEF audit
  <2> QED
    BY <1>1, <1>2, <1>3, <1>4, <2>1 DEF Matches
<1> HIDE DEF audit
<1>6. \A d2 \in Days :
        /\ row[d2] \in Entry /\ log[d2] \in Trail
        /\ SameFigures(row[d2], s.entry[p][d2]) /\ SamePrices(row[d2], s.entry[p][d2])
        /\ d2 \in s.entered[p] => Matches(row[d2], log[d2])
        /\ d2 \notin s.entered[p] => row[d2] = s.entry[p][d2] /\ log[d2] = s.trail[p][d2]
  <2> SUFFICES ASSUME NEW d2 \in Days
               PROVE  /\ row[d2] \in Entry /\ log[d2] \in Trail
                      /\ SameFigures(row[d2], s.entry[p][d2])
                      /\ SamePrices(row[d2], s.entry[p][d2])
                      /\ d2 \in s.entered[p] => Matches(row[d2], log[d2])
                      /\ d2 \notin s.entered[p] => /\ row[d2] = s.entry[p][d2]
                                                   /\ log[d2] = s.trail[p][d2]
    OBVIOUS
  <2> DEFINE e == s.entry[p][d2]
             l == s.trail[p][d2]
  <2>1. /\ e \in Entry /\ l \in Trail /\ l.opening \in Int
        /\ d2 \in s.entered[p] => Matches(e, l)
    BY <1>0, LineOf
  <2>2. CASE d2 \in later
    <3>1. d2 \in s.entered[p] /\ q <= e.start /\ q <= e.current /\ e.current <= e.start
      BY <1>0, <2>1, <2>2 DEF LaterDaysHold, Ordered
    <3>2. row[d2] = Shift(e, q) /\ log[d2] = [l EXCEPT !.opening = @ - q]
      BY <2>2
    <3> HIDE DEF row, log, e, l, later
    <3>3. Shift(e, q) \in Entry /\ SameBut(Shift(e, q), e, -q) /\ SamePrices(Shift(e, q), e)
      BY <2>1, <3>1, ShiftOK, ShiftFigures
    <3>4. /\ log[d2] \in Trail /\ log[d2].sold = l.sold /\ log[d2].revenue = l.revenue
          /\ log[d2].cost = l.cost /\ log[d2].opening = l.opening - q
      BY <2>1, <3>2 DEF Trail
    <3>5. Matches(row[d2], log[d2])
      BY <2>1, <3>1, <3>2, <3>3, <3>4 DEF Matches, SameBut, SameFigures
    <3> QED
      BY <3>1, <3>2, <3>3, <3>4, <3>5 DEF SameBut, e
  <2>3. CASE d2 \notin later
    <3>1. row[d2] = e /\ log[d2] = l
      BY <2>3
    <3> HIDE DEF row, log, e, l, later
    <3>2. SameFigures(e, e) /\ SamePrices(e, e)
      BY DEF SameFigures, SamePrices
    <3> QED
      BY <2>1, <3>1, <3>2 DEF e, l
  <2> QED
    BY <2>2, <2>3
<1>7. row \in [Days -> Entry] /\ log \in [Days -> Trail]
  BY <1>6
<1> HIDE DEF row, log
<1>8. /\ shifted \in Db /\ shifted.live = s.live
      /\ shifted.product = s.product /\ shifted.entered = s.entered
      /\ shifted.entry = [s.entry EXCEPT ![p] = row]
      /\ shifted.trail = [s.trail EXCEPT ![p] = log]
  BY <1>0, <1>7 DEF Db
<1> HIDE DEF shifted
<1>9. pr \in Product /\ pr.buy = s.product[p].buy /\ pr.sell = s.product[p].sell
  <2>1. LiveQuantity(s.product[p], late, q, next.current) \in Nat
    BY <1>0, <1>4 DEF LiveQuantity, Entry
  <2> QED
    BY <1>0, <2>1 DEF Product, LiveQuantity
<1> HIDE DEF pr
<1>10. Stored(w, shifted, p, d, pr, next)
  BY <1>0, <1>4, <1>5, <1>8, <1>9, StoreType
<1>11. w.trail = [shifted.trail EXCEPT ![p][d] = audit]
  BY <1>8 DEF Store, Db
<1> HIDE DEF w
<1>12. \A p2 \in Products : \A d2 \in Days :
         /\ w.entry[p2][d2] = IF p2 = p THEN IF d2 = d THEN next ELSE row[d2]
                              ELSE s.entry[p2][d2]
         /\ w.trail[p2][d2] = IF p2 = p THEN IF d2 = d THEN audit ELSE log[d2]
                              ELSE s.trail[p2][d2]
         /\ d2 \in w.entered[p2] <=> d2 \in s.entered[p2] \/ (p2 = p /\ d2 = d)
  <2>1. \A p2 \in Products : /\ shifted.entry[p2] = IF p2 = p THEN row ELSE s.entry[p2]
                             /\ shifted.trail[p2] = IF p2 = p THEN log ELSE s.trail[p2]
    BY <1>0, <1>8
  <2>2. \A p2 \in Products : \A d2 \in Days :
          w.trail[p2][d2] = IF p2 = p /\ d2 = d THEN audit ELSE shifted.trail[p2][d2]
    <3> DEFINE f == [shifted.trail EXCEPT ![p][d] = audit]
    <3>1. shifted.trail \in [Products -> [Days -> Trail]]
      BY <1>8 DEF Db
    <3>a. p \in Products /\ audit \in Trail
      BY <1>0, <1>5
    <3>2. \A p2 \in Products, d2 \in Days :
            f[p2][d2] = IF p2 = p /\ d2 = d THEN audit ELSE shifted.trail[p2][d2]
      BY <3>1, <3>a, NestedUpdate
    <3>3. w.trail = f
      BY <1>11
    <3> HIDE DEF f
    <3> QED
      BY <3>2, <3>3
  <2>3. \A p2 \in Products : \A d2 \in Days :
          /\ w.entry[p2][d2] = IF p2 = p /\ d2 = d THEN next ELSE shifted.entry[p2][d2]
          /\ d2 \in w.entered[p2] <=> d2 \in s.entered[p2] \/ (p2 = p /\ d2 = d)
    BY <1>8, <1>10 DEF Stored
  <2> QED
    BY <2>1, <2>2, <2>3
<1>13. Accounts(w)
  <2> SUFFICES ASSUME NEW p2 \in Products, NEW d2 \in Days
               PROVE  IF d2 \in w.entered[p2]
                      THEN Matches(w.entry[p2][d2], w.trail[p2][d2])
                      ELSE /\ w.entry[p2][d2] = NoEntry
                           /\ w.trail[p2][d2].sold = 0 /\ w.trail[p2][d2].revenue = 0
                           /\ w.trail[p2][d2].cost = 0
    BY DEF Accounts
  <2>1. IF d2 \in s.entered[p2]
        THEN Matches(s.entry[p2][d2], s.trail[p2][d2])
        ELSE /\ s.entry[p2][d2] = NoEntry
             /\ s.trail[p2][d2].sold = 0 /\ s.trail[p2][d2].revenue = 0
             /\ s.trail[p2][d2].cost = 0
    BY DEF MoneyOK, Accounts
  <2>2. CASE p2 = p /\ d2 = d
    BY <1>5, <1>12, <2>2
  <2>3. CASE p2 = p /\ d2 # d
    <3>1. /\ w.entry[p2][d2] = row[d2] /\ w.trail[p2][d2] = log[d2]
          /\ d2 \in w.entered[p2] <=> d2 \in s.entered[p]
      BY <1>12, <2>3
    <3> QED
      BY <1>6, <2>1, <2>3, <3>1
  <2>4. CASE p2 # p
    <3>1. /\ w.entry[p2][d2] = s.entry[p2][d2] /\ w.trail[p2][d2] = s.trail[p2][d2]
          /\ d2 \in w.entered[p2] <=> d2 \in s.entered[p2]
      BY <1>12, <2>4
    <3> QED
      BY <2>1, <3>1
  <2> QED
    BY <2>2, <2>3, <2>4
<1>14. Priced(w, t, w.live)
  <2> SUFFICES ASSUME NEW p2 \in w.live, t \in w.entered[p2]
               PROVE  SamePrices(w.entry[p2][t], w.product[p2])
    BY DEF Priced
  <2>1. /\ p2 \in Products /\ p2 \in s.live /\ w.entered[p2] \subseteq Days /\ t \in Days
    BY <1>0, <1>8, <1>10 DEF Stored, Db
  <2>2. w.product[p2] = IF p2 = p THEN pr ELSE s.product[p2]
    BY <1>8, <1>10, <2>1 DEF Stored
  <2>3. t \in s.entered[p2] => SamePrices(s.entry[p2][t], s.product[p2])
    BY <2>1 DEF MoneyOK, Priced
  <2>4. t \in s.entered[p2] \/ (p2 = p /\ t = d)
    BY <1>12, <2>1
  <2>5. CASE p2 = p /\ t = d
    BY <1>1, <1>4, <1>9, <1>12, <2>1, <2>2, <2>5 DEF SamePrices
  <2>6. CASE p2 = p /\ t # d
    BY <1>6, <1>9, <1>12, <2>1, <2>2, <2>3, <2>4, <2>6 DEF SamePrices
  <2>7. CASE p2 # p
    BY <1>12, <2>1, <2>2, <2>3, <2>4, <2>7
  <2> QED
    BY <2>5, <2>6, <2>7
<1>15. Kept(w, s, d, late)
  <2> SUFFICES ASSUME NEW p2 \in Products, NEW d2 \in Days
               PROVE  /\ d2 \in s.entered[p2] => d2 \in w.entered[p2]
                      /\ IF d2 = d
                         THEN late => /\ Sold(w.entry[p2][d2]) >= Sold(s.entry[p2][d2])
                                      /\ Revenue(w.entry[p2][d2]) >= Revenue(s.entry[p2][d2])
                         ELSE SameFigures(w.entry[p2][d2], s.entry[p2][d2])
    BY DEF Kept
  <2>a. s.entry[p2][d2] \in Entry
    BY <1>0
  <2>0. Sold(s.entry[p2][d2]) \in Int /\ Revenue(s.entry[p2][d2]) \in Int
    BY <2>a, FiguresType
  <2>1. CASE p2 # p
    <3>1. w.entry[p2][d2] = s.entry[p2][d2] /\ (d2 \in w.entered[p2] <=> d2 \in s.entered[p2])
      BY <1>12, <2>1
    <3> QED
      BY <2>0, <3>1 DEF SameFigures
  <2>2. CASE p2 = p /\ d2 = d
    <3>1. w.entry[p2][d2] = next /\ d2 \in w.entered[p2]
      BY <1>12, <2>2
    <3>2. Sold(next) = a.sold + q /\ Revenue(next) = a.revenue + charged
      BY <1>1, <1>4
    <3>3. Sold(s.entry[p][d]) = a.sold /\ Revenue(s.entry[p][d]) = a.revenue
      <4>1. d \in s.entered[p] => Matches(s.entry[p][d], s.trail[p][d])
        BY <1>0, LineOf
      <4>2. d \notin s.entered[p] => /\ s.entry[p][d] = NoEntry
                                     /\ s.trail[p][d].sold = 0 /\ s.trail[p][d].revenue = 0
        BY <1>0, LineOf
      <4>3. Sold(NoEntry) = 0 /\ Revenue(NoEntry) = 0
        BY DEF NoEntry, Sold, Revenue, NewSold
      <4> QED
        BY <4>1, <4>2, <4>3 DEF Matches, a
    <3> QED
      BY <1>2, <2>2, <3>1, <3>2, <3>3
  <2>3. CASE p2 = p /\ d2 # d
    <3>1. w.entry[p2][d2] = row[d2] /\ (d2 \in w.entered[p2] <=> d2 \in s.entered[p2])
      BY <1>12, <2>3
    <3> QED
      BY <1>6, <2>3, <3>1
  <2> QED
    BY <2>1, <2>2, <2>3
<1>16. w \in Db /\ MoneyOK(w, t)
  BY <1>10, <1>13, <1>14 DEF Stored, MoneyOK
<1> HIDE DEF later
<1> DEFINE u == Recompute(w, later, {p})
<1>17. MoneyOK(u, t) /\ u.entered = w.entered /\ u.entry = w.entry
  BY <1>16, RecomputeMoney
<1> HIDE DEF u
<1>18. MoneyOK(u, t) /\ Kept(u, s, d, late)
  BY <1>15, <1>17 DEF Kept
<1> QED
  BY <1>x, <1>18 DEF u

-----------------------------------------------------------------------------
(* The money in every behaviour.                                           *)

\* What ClosedDaysOnlyGainSales says of a step.
ClosedStep == \A p \in Products : \A d \in Days : d < today =>
  LET e == db.entry[p][d]
      f == db'.entry[p][d]
  IN  /\ d \in db.entered[p] => d \in db'.entered[p]
      /\ IF batch.date = d /\ batch.kind \in {"sale", "count", "opening"}
         THEN batch.late => Sold(f) >= Sold(e) /\ Revenue(f) >= Revenue(e)
         ELSE Sold(f) = Sold(e) /\ Revenue(f) = Revenue(e) /\ Profit(f) = Profit(e)

\* The day whose figures the open request is about; none for an edit or a purchase.
Dated == IF batch.kind \in {"sale", "count", "opening"} THEN batch.date ELSE 0

\* Only products that are there, or were, have entries: a new one starts with none.
Owned(s) == \A p \in Products : s.entered[p] # {} => p \in s.live \/ p \in s.tombs

\* The inductive invariant of the money: both views are right, and the open
\* request has kept what the days reported when it was opened.
MoneyInv ==
  /\ IInv
  /\ MoneyOK(db, today) /\ Owned(db)
  /\ MoneyOK(work, today) /\ Owned(work)
  /\ Kept(work, db, Dated, batch.late)

\* p, which may be new, has an entry of day d now; no other entry came or went.
Enters(w, s, p, d) ==
  /\ w.live = s.live \cup {p} /\ w.tombs = s.tombs
  /\ w.entered = [s.entered EXCEPT ![p] = @ \cup {d}]

LEMMA OperationEnters ==
  ASSUME NEW s \in Db, NEW p \in Products, NEW d \in Days
  PROVE  /\ \A q, unit, buy, sell, receipt :
              Enters(WriteProduct(s, d, p, q, unit, buy, sell, receipt), s, p, d)
         /\ p \in s.live =>
              /\ \A r, pay : Enters(Edited(s, r, d, p, pay), s, p, d)
              /\ \A delta : Enters(Restocked(s, d, p, delta), s, p, d)
              /\ \A r, delta, buy : Enters(Purchased(s, r, d, p, delta, buy), s, p, d)
              /\ \A r, start, current : Enters(Opened(s, r, d, p, start, current), s, p, d)
              /\ \A r, current, revenue :
                   Enters(Counted(s, r, d, p, current, revenue), s, p, d)
              /\ \A late, q, charged : Enters(SoldLine(s, d, late, p, q, charged), s, p, d)
<1>1. p \in s.live => s.live = s.live \cup {p}
  OBVIOUS
<1>2. ASSUME p \in s.live, NEW pr, NEW e, NEW a
      PROVE  Enters(Store(s, p, d, pr, e, a), s, p, d)
  BY <1>1, <1>2 DEF Enters, Store, Db
<1>3. \A q, unit, buy, sell, receipt :
        Enters(WriteProduct(s, d, p, q, unit, buy, sell, receipt), s, p, d)
  BY DEF Enters, WriteProduct, Store, Db
<1>4. p \in s.live => \A r, pay : Enters(Edited(s, r, d, p, pay), s, p, d)
  <2>1. \A r, pay : \E pr, e, a : Edited(s, r, d, p, pay) = Store(s, p, d, pr, e, a)
    BY DEF Edited
  <2> QED
    BY <1>2, <2>1
<1>5. ASSUME p \in s.live, NEW delta, NEW pr, NEW base
      PROVE  Enters(Received(s, d, p, delta, pr, base), s, p, d)
  BY <1>1, <1>5 DEF Enters, Received, Store, Db
<1>6. p \in s.live =>
        /\ \A delta : Enters(Restocked(s, d, p, delta), s, p, d)
        /\ \A r, delta, buy : Enters(Purchased(s, r, d, p, delta, buy), s, p, d)
  BY <1>5 DEF Restocked, Purchased
<1>7. p \in s.live => \A r, start, current : Enters(Opened(s, r, d, p, start, current), s, p, d)
  <2>1. \A r, start, current : \E pr, e, a :
          Opened(s, r, d, p, start, current) = Store(s, p, d, pr, e, a)
    BY DEF Opened
  <2> QED
    BY <1>2, <2>1
<1>8. p \in s.live => \A r, current, revenue :
        Enters(Counted(s, r, d, p, current, revenue), s, p, d)
  <2>1. \A r, current, revenue : \E pr, e, a :
          Counted(s, r, d, p, current, revenue) = Store(s, p, d, pr, e, a)
    BY DEF Counted
  <2> QED
    BY <1>2, <2>1
<1>9. p \in s.live => \A late, q, charged : Enters(SoldLine(s, d, late, p, q, charged), s, p, d)
  <2> SUFFICES ASSUME p \in s.live, NEW late, NEW q, NEW charged
               PROVE  Enters(SoldLine(s, d, late, p, q, charged), s, p, d)
    OBVIOUS
  <2>1. ASSUME NEW rows, NEW log, NEW pr, NEW e, NEW a,
               NEW put, put = Store([s EXCEPT !.entry[p] = rows, !.trail[p] = log], p, d, pr, e, a)
        PROVE  Enters(put, s, p, d)
    BY <1>1, <2>1 DEF Enters, Store, Db
  <2>2. ASSUME NEW put, Enters(put, s, p, d), NEW days, NEW ids
        PROVE  Enters(Recompute(put, days, ids), s, p, d)
    BY <2>2 DEF Enters, Recompute
  <2>3. \E rows, log, pr, e, a, days :
          SoldLine(s, d, late, p, q, charged) =
            Recompute(Store([s EXCEPT !.entry[p] = rows, !.trail[p] = log], p, d, pr, e, a),
                      days, {p})
    BY DEF SoldLine
  <2> QED
    BY <2>1, <2>2, <2>3
<1> QED
  BY <1>3, <1>4, <1>6, <1>7, <1>8, <1>9

LEMMA EntersOwned ==
  ASSUME NEW s \in Db, NEW w, NEW p \in Products, NEW d, Owned(s), Enters(w, s, p, d)
  PROVE  Owned(w)
BY DEF Owned, Enters, Db

\* The audit trails of both views tell the same sales.
SameSales(w, s) == \A p \in Products : \A d \in Days :
  /\ w.trail[p][d].sold = s.trail[p][d].sold
  /\ w.trail[p][d].revenue = s.trail[p][d].revenue
  /\ w.trail[p][d].cost = s.trail[p][d].cost

\* An operation whose audit line states an opening only.
LEMMA LineSales ==
  ASSUME NEW s \in Db, NEW w, NEW p \in Products, NEW d \in Days, NEW a \in Trail,
         w.trail = [s.trail EXCEPT ![p][d] = a],
         a.sold = s.trail[p][d].sold, a.revenue = s.trail[p][d].revenue,
         a.cost = s.trail[p][d].cost
  PROVE  SameSales(w, s)
<1>1. s.trail \in [Products -> [Days -> Trail]]
  BY DEF Db
<1>2. \A p2 \in Products, d2 \in Days :
        w.trail[p2][d2] = IF p2 = p /\ d2 = d THEN a ELSE s.trail[p2][d2]
  BY <1>1, NestedUpdate
<1> QED
  BY <1>2 DEF SameSales

\* No edit, restock or purchase says that something was sold.
LEMMA OperationSales ==
  ASSUME NEW s \in Db, NEW p \in Products, NEW d \in Days
  PROVE  /\ \A q, unit, buy, sell, receipt :
              /\ NormalizeQuantity(q, unit) \in Int
              /\ s.trail[p][d].sold = 0 /\ s.trail[p][d].revenue = 0
              /\ s.trail[p][d].cost = 0
              => SameSales(WriteProduct(s, d, p, q, unit, buy, sell, receipt), s)
         /\ \A r \in Nat, pay \in Pay : SameSales(Edited(s, r, d, p, pay), s)
         /\ \A delta \in Nat : SameSales(Restocked(s, d, p, delta), s)
         /\ \A r \in Nat, delta \in Nat, buy \in Nat :
              SameSales(Purchased(s, r, d, p, delta, buy), s)
<1> DEFINE a == s.trail[p][d]
<1>1. /\ a \in Trail /\ a.sold \in Int /\ a.opening \in Int
      /\ s.product[p].qty \in Nat /\ s.product[p] \in Product
  BY DEF Db, Trail, Product
<1>2. ASSUME NEW pr, NEW e, NEW x \in Int
      PROVE  SameSales(Store(s, p, d, pr, e, [a EXCEPT !.opening = x]), s)
  <2> DEFINE line == [a EXCEPT !.opening = x]
  <2>1. /\ line \in Trail /\ line.sold = a.sold /\ line.revenue = a.revenue
        /\ line.cost = a.cost
    BY <1>1 DEF Trail
  <2> HIDE DEF line
  <2>2. Store(s, p, d, pr, e, line).trail = [s.trail EXCEPT ![p][d] = line]
    BY DEF Store, Db
  <2>3. SameSales(Store(s, p, d, pr, e, line), s)
    BY <2>1, <2>2, LineSales
  <2> QED
    BY <2>3 DEF line
<1>3. ASSUME NEW q, NEW unit, NEW buy, NEW sell, NEW receipt,
             NormalizeQuantity(q, unit) \in Int,
             a.sold = 0, a.revenue = 0, a.cost = 0
      PROVE  SameSales(WriteProduct(s, d, p, q, unit, buy, sell, receipt), s)
  <2> DEFINE line == FirstTrail(NormalizeQuantity(q, unit))
             w    == WriteProduct(s, d, p, q, unit, buy, sell, receipt)
  <2>1. /\ line \in Trail /\ line.sold = a.sold /\ line.revenue = a.revenue
        /\ line.cost = a.cost
    BY <1>3 DEF FirstTrail, Trail
  <2>2. w.trail = [s.trail EXCEPT ![p][d] = line]
    BY DEF WriteProduct, Store, Db
  <2> HIDE DEF line, w
  <2>3. SameSales(w, s)
    BY <2>1, <2>2, LineSales
  <2> QED
    BY <2>3 DEF w
<1>4. ASSUME NEW r \in Nat, NEW pay \in Pay PROVE SameSales(Edited(s, r, d, p, pay), s)
  <2> DEFINE qty == NormalizeQuantity(Given(pay.quantity, s.product[p].qty),
                                      Given(pay.unit, s.product[p].unit))
             x   == IF pay.quantity # None \/ d \notin s.entered[p]
                    THEN a.sold + qty ELSE a.opening
  <2>1. Given(pay.quantity, s.product[p].qty) \in Nat
    BY <1>1 DEF Pay, Given
  <2>2. Given(pay.unit, s.product[p].unit) \in {"dona", "kg"}
    BY <1>1 DEF Pay, Given, Product
  <2>3. qty \in Int
    BY <2>1, <2>2, NormalizeRange
  <2>4. x \in Int
    BY <1>1, <2>3
  <2>5. \E pr, e : Edited(s, r, d, p, pay) = Store(s, p, d, pr, e, [a EXCEPT !.opening = x])
    BY DEF Edited
  <2> QED
    BY <1>2, <2>4, <2>5
<1>5. ASSUME NEW delta \in Nat, NEW pr, pr.qty \in Nat, NEW base
      PROVE  SameSales(Received(s, d, p, delta, pr, base), s)
  <2> DEFINE x    == IF d \in s.entered[p] THEN a.opening + delta ELSE pr.qty
             next == IF d \in s.entered[p] THEN Raise(base, delta)
                     ELSE FreshEntry(pr, pr.qty)
             put  == Store(s, p, d, pr, next, [a EXCEPT !.opening = x])
             w    == Received(s, d, p, delta, pr, base)
  <2>1. x \in Int
    BY <1>1, <1>5
  <2>2. SameSales(put, s)
    BY <1>2, <2>1
  <2>3. w.trail = put.trail
    BY DEF Received, Store, Db
  <2> HIDE DEF put, w
  <2>4. SameSales(w, s)
    BY <2>2, <2>3 DEF SameSales
  <2> QED
    BY <2>4 DEF w
<1>6. ASSUME NEW delta \in Nat PROVE SameSales(Restocked(s, d, p, delta), s)
  <2>1. [s.product[p] EXCEPT !.qty = @ + delta].qty \in Nat
    BY <1>1 DEF Product
  <2> QED
    BY <1>5, <2>1 DEF Restocked
<1>7. ASSUME NEW r \in Nat, NEW delta \in Nat, NEW buy \in Nat
      PROVE  SameSales(Purchased(s, r, d, p, delta, buy), s)
  <2>1. [s.product[p] EXCEPT !.qty = @ + delta, !.buy = buy, !.epoch = r].qty \in Nat
    BY <1>1 DEF Product
  <2> QED
    BY <1>5, <2>1 DEF Purchased
<1> QED
  BY <1>3, <1>4, <1>6, <1>7

\* Entries that say what their lines say tell the figures of the trail, and days without
\* an entry have none.
LEMMA FiguresOfTrail ==
  ASSUME NEW s \in Db, Accounts(s), NEW p \in Products, NEW d \in Days
  PROVE  /\ Sold(s.entry[p][d]) = s.trail[p][d].sold
         /\ Revenue(s.entry[p][d]) = s.trail[p][d].revenue
         /\ Profit(s.entry[p][d]) = s.trail[p][d].revenue - s.trail[p][d].cost
<1>1. Sold(NoEntry) = 0 /\ Revenue(NoEntry) = 0 /\ Profit(NoEntry) = 0
  BY DEF NoEntry, Sold, Revenue, Profit, NewSold
<1>2. CASE d \in s.entered[p]
  BY <1>2 DEF Accounts, Matches
<1>3. CASE d \notin s.entered[p]
  <2>1. /\ s.entry[p][d] = NoEntry /\ s.trail[p][d].sold = 0 /\ s.trail[p][d].revenue = 0
        /\ s.trail[p][d].cost = 0
    BY <1>3 DEF Accounts
  <2> QED
    BY <1>1, <2>1
<1> QED
  BY <1>2, <1>3

\* What records no sale keeps the figures of every day, its own and closed ones too.
LEMMA KeptAll ==
  ASSUME NEW s \in Db, NEW w \in Db, Accounts(s), Accounts(w), SameSales(w, s),
         NEW p \in Products, NEW d, Enters(w, s, p, d)
  PROVE  Kept(w, s, 0, FALSE)
<1> SUFFICES ASSUME NEW p2 \in Products, NEW d2 \in Days
             PROVE  /\ d2 \in s.entered[p2] => d2 \in w.entered[p2]
                    /\ SameFigures(w.entry[p2][d2], s.entry[p2][d2])
  BY DEF Kept
<1>1. d2 \in s.entered[p2] => d2 \in w.entered[p2]
  BY DEF Enters, Db
<1>2. SameFigures(w.entry[p2][d2], s.entry[p2][d2])
  BY FiguresOfTrail DEF SameSales, SameFigures
<1> QED
  BY <1>1, <1>2

\* A view keeps its own figures.
LEMMA KeptSelf ==
  ASSUME NEW s \in Db, NEW w, w.entered = s.entered, w.entry = s.entry, NEW d, NEW late
  PROVE  Kept(w, s, d, late)
<1> SUFFICES ASSUME NEW p \in Products, NEW d2 \in Days
             PROVE  /\ Sold(s.entry[p][d2]) >= Sold(s.entry[p][d2])
                    /\ Revenue(s.entry[p][d2]) >= Revenue(s.entry[p][d2])
  BY DEF Kept, SameFigures
<1>1. s.entry[p][d2] \in Entry
  BY DEF Db
<1>2. Sold(s.entry[p][d2]) \in Int /\ Revenue(s.entry[p][d2]) \in Int
  BY <1>1, FiguresType
<1> QED
  BY <1>2

\* Who writes day d only keeps all others.
LEMMA KeptOthers ==
  ASSUME NEW s, NEW w, NEW d, OnlyDay(w, s, d)
  PROVE  Kept(w, s, d, FALSE)
BY DEF OnlyDay, Kept, SameFigures

\* What one item keeps, and the items before it kept, the batch keeps.
LEMMA KeptAlong ==
  ASSUME NEW s \in Db, NEW v \in Db, NEW w \in Db, NEW d, NEW late,
         Kept(v, s, d, late), Kept(w, v, d, late)
  PROVE  Kept(w, s, d, late)
<1> SUFFICES ASSUME NEW p \in Products, NEW d2 \in Days
             PROVE  /\ d2 \in s.entered[p] => d2 \in w.entered[p]
                    /\ IF d2 = d
                       THEN late => /\ Sold(w.entry[p][d2]) >= Sold(s.entry[p][d2])
                                    /\ Revenue(w.entry[p][d2]) >= Revenue(s.entry[p][d2])
                       ELSE SameFigures(w.entry[p][d2], s.entry[p][d2])
  BY DEF Kept
<1>a. d2 \in s.entered[p] => d2 \in w.entered[p]
  BY DEF Kept
<1>1. s.entry[p][d2] \in Entry /\ v.entry[p][d2] \in Entry /\ w.entry[p][d2] \in Entry
  BY DEF Db
<1>2. CASE d2 = d
  <2>1. late => /\ Sold(v.entry[p][d2]) >= Sold(s.entry[p][d2])
                /\ Revenue(v.entry[p][d2]) >= Revenue(s.entry[p][d2])
                /\ Sold(w.entry[p][d2]) >= Sold(v.entry[p][d2])
                /\ Revenue(w.entry[p][d2]) >= Revenue(v.entry[p][d2])
    BY <1>2 DEF Kept
  <2>2. /\ Sold(s.entry[p][d2]) \in Int /\ Revenue(s.entry[p][d2]) \in Int
        /\ Sold(v.entry[p][d2]) \in Int /\ Revenue(v.entry[p][d2]) \in Int
        /\ Sold(w.entry[p][d2]) \in Int /\ Revenue(w.entry[p][d2]) \in Int
    BY <1>1, FiguresType
  <2> QED
    BY <1>2, <1>a, <2>1, <2>2
<1>3. CASE d2 # d
  BY <1>3, <1>a DEF Kept, SameFigures
<1> QED
  BY <1>2, <1>3

\* As long as nothing is committed no day changes.
LEMMA NothingCommitted ==
  ASSUME MoneyInv, db' = db
  PROVE  ClosedStep
<1> SUFFICES ASSUME NEW p \in Products, NEW d \in Days
             PROVE  /\ Sold(db.entry[p][d]) >= Sold(db.entry[p][d])
                    /\ Revenue(db.entry[p][d]) >= Revenue(db.entry[p][d])
  BY DEF ClosedStep
<1>1. db.entry[p][d] \in Entry
  BY DEF MoneyInv, IInv, ViewOK, Db
<1>2. Sold(db.entry[p][d]) \in Int /\ Revenue(db.entry[p][d]) \in Int
  BY <1>1, FiguresType
<1> QED
  BY <1>2

\* What is committed has kept the figures of all days, but for the day it is about.
LEMMA KeptCommitted ==
  ASSUME IInv, Kept(db', db, Dated, batch.late)
  PROVE  ClosedStep
<1> SUFFICES ASSUME NEW p \in Products, NEW d \in Days, d < today
             PROVE  LET e == db.entry[p][d]
                        f == db'.entry[p][d]
                    IN  /\ d \in db.entered[p] => d \in db'.entered[p]
                        /\ IF batch.date = d /\ batch.kind \in {"sale", "count", "opening"}
                           THEN batch.late => Sold(f) >= Sold(e) /\ Revenue(f) >= Revenue(e)
                           ELSE Sold(f) = Sold(e) /\ Revenue(f) = Revenue(e)
                                /\ Profit(f) = Profit(e)
  BY DEF ClosedStep
<1>1. d # 0
  BY BoundsAssumption DEF Days
<1>2. d = Dated <=> batch.date = d /\ batch.kind \in {"sale", "count", "opening"}
  BY <1>1 DEF Dated
<1> QED
  BY <1>2 DEF Kept, SameFigures

\* A transaction of one step made while no request is open, which leaves the entries alone.
LEMMA IdleMoney ==
  ASSUME MoneyInv, IInv', Idle, NEW s, MoneyOK(s, today), Owned(s),
         s.entered = db.entered, s.entry = db.entry,
         CommitDb(s), UNCHANGED <<batch, today>>
  PROVE  MoneyInv' /\ ClosedStep
<1>1. /\ db' = s /\ work' = s /\ today' = today /\ batch' = batch
      /\ db \in Db /\ db' \in Db
  BY DEF CommitDb, MoneyInv, IInv, ViewOK
<1>2. Kept(s, s, Dated, batch.late) /\ Kept(s, db, Dated, batch.late)
  BY <1>1, KeptSelf
<1>3. MoneyInv'
  BY <1>1, <1>2 DEF MoneyInv, Dated
<1>4. ClosedStep
  BY <1>1, <1>2, KeptCommitted DEF MoneyInv
<1> QED
  BY <1>3, <1>4

\* A request for one product: it records no sale.
LEMMA ProductMoney ==
  ASSUME MoneyInv, IInv', NEW p \in Products, NEW s \in Db, CommitProduct(p, s),
         MoneyOK(s, today), SameSales(s, db), Enters(s, db, p, batch.date)
  PROVE  MoneyInv' /\ ClosedStep
<1> DEFINE w == Recompute(s, {batch.date}, {p})
<1>1. /\ db' = w /\ work' = w /\ today' = today /\ batch' = NoBatch
      /\ batch.kind = "product" /\ db \in Db /\ db' \in Db /\ MoneyOK(db, today) /\ Owned(db)
  BY DEF CommitProduct, CommitDb, MoneyInv, IInv, ViewOK
<1>2. /\ MoneyOK(w, today) /\ w.entered = s.entered /\ w.entry = s.entry
  BY RecomputeMoney
<1>3. w.live = s.live /\ w.tombs = s.tombs
  BY DEF Recompute, Db
<1> HIDE DEF w
<1>4. Kept(s, db, 0, FALSE)
  BY <1>1, KeptAll DEF MoneyOK
<1>5. Dated = 0 /\ batch.late = FALSE
  BY <1>1 DEF Dated, MoneyInv, IInv, BatchOK, Batch
<1>6. Kept(w, db, Dated, batch.late)
  BY <1>2, <1>4, <1>5 DEF Kept
<1>7. Owned(w)
  <2>1. Owned(s)
    BY <1>1, EntersOwned
  <2> QED
    BY <1>2, <1>3, <2>1 DEF Owned
<1>8. Kept(w, w, Dated', batch'.late)
  BY <1>1, KeptSelf
<1>9. MoneyInv'
  BY <1>1, <1>2, <1>7, <1>8 DEF MoneyInv
<1> QED
  BY <1>1, <1>6, <1>9, KeptCommitted DEF MoneyInv

\* One item of the open batch.
LEMMA ItemMoney ==
  ASSUME MoneyInv, IInv', NEW p \in Products, NEW cost, NextItem(p, cost),
         NEW d, Enters(work', work, p, d),
         MoneyOK(work', today), Kept(work', work, Dated, batch.late)
  PROVE  MoneyInv' /\ ClosedStep
<1>1. /\ batch'.kind = batch.kind /\ batch'.date = batch.date /\ batch'.late = batch.late
      /\ db' = db /\ today' = today
  BY DEF NextItem, MoneyInv, IInv, BatchOK, Batch
<1>2. db \in Db /\ work \in Db /\ work' \in Db
  BY DEF MoneyInv, IInv, ViewOK
<1>3. Kept(work, db, Dated, batch.late) /\ Dated' = Dated
  BY <1>1 DEF MoneyInv, Dated
<1>4. Kept(work', db, Dated, batch.late)
  BY <1>2, <1>3, KeptAlong
<1>5. Owned(work')
  BY <1>2, EntersOwned DEF MoneyInv
<1> QED
  BY <1>1, <1>3, <1>4, <1>5, NothingCommitted DEF MoneyInv

\* An item of an opening or a count writes the batch's day only.
LEMMA DayItemMoney ==
  ASSUME MoneyInv, IInv', batch.kind \in {"opening", "count"},
         NEW p \in Products, NEW cost, NextItem(p, cost),
         Enters(work', work, p, batch.date),
         MoneyOK(work', today), OnlyDay(work', work, batch.date)
  PROVE  MoneyInv' /\ ClosedStep
<1>1. batch.late = FALSE /\ Dated = batch.date
  BY DEF MoneyInv, IInv, BatchOK, Batch, Dated
<1>2. Kept(work', work, Dated, batch.late)
  BY <1>1, KeptOthers
<1> QED
  BY <1>2, ItemMoney

\* An item of a purchase records no sale.
LEMMA PurchaseMoney ==
  ASSUME MoneyInv, IInv', batch.kind = "purchase",
         NEW p \in Products, NEW cost, NextItem(p, cost), NEW d,
         Enters(work', work, p, d), MoneyOK(work', today), SameSales(work', work)
  PROVE  MoneyInv' /\ ClosedStep
<1>1. batch.late = FALSE /\ Dated = 0
  BY DEF MoneyInv, IInv, BatchOK, Batch, Dated
<1>2. work \in Db /\ work' \in Db /\ MoneyOK(work, today)
  BY DEF MoneyInv, IInv, ViewOK
<1>3. Kept(work', work, 0, FALSE)
  BY <1>2, KeptAll DEF MoneyOK
<1> QED
  BY <1>1, <1>3, ItemMoney

\* The empty collections have no figures to differ.
LEMMA InitMoney == Init => MoneyInv
<1> SUFFICES ASSUME Init PROVE MoneyInv
  OBVIOUS
<1>1. IInv
  BY InitIInv
<1>2. /\ db = EmptyDb /\ work = EmptyDb /\ batch.kind = "none"
  BY DEF Init, NoBatch
<1>3. MoneyOK(EmptyDb, today) /\ Owned(EmptyDb)
  BY DEF MoneyOK, Accounts, Priced, Owned, EmptyDb, FirstTrail
<1>4. Kept(work, db, Dated, batch.late)
  BY <1>1, <1>2, KeptSelf DEF IInv, ViewOK
<1> QED
  BY <1>1, <1>2, <1>3, <1>4 DEF MoneyInv

\* Every action keeps it, and what the closed days have reported.
LEMMA NextMoney == MoneyInv /\ [Next]_vars => MoneyInv' /\ ClosedStep
<1> SUFFICES ASSUME MoneyInv, [Next]_vars PROVE MoneyInv' /\ ClosedStep
  OBVIOUS
<1>a. IInv /\ IInv'
  BY NextIInv DEF MoneyInv
<1>0. /\ work.live \subseteq Products /\ db.live \subseteq Products /\ rev + 1 \in Nat
      /\ db \in Db /\ work \in Db
      /\ MoneyOK(db, today) /\ MoneyOK(work, today) /\ Owned(db) /\ Owned(work)
  BY <1>a DEF MoneyInv, IInv, ViewOK, Db
<1>1. CASE CreateProduct
  <2>1. PICK p \in Products, q \in Quantities, unit \in Units, buy \in Prices, sell \in Prices :
          /\ CanCreate(db, p)
          /\ CommitProduct(p, WriteProduct(db, batch.date, p, q, unit, buy, sell, TRUE))
    BY <1>1 DEF CreateProduct
  <2> DEFINE w == WriteProduct(db, batch.date, p, q, unit, buy, sell, TRUE)
  <2>2. Writing(db, batch.date, today) /\ batch.date \in Days
    BY <1>a, <2>1, ProductWriting DEF CommitProduct
  <2>3. q \in Nat /\ unit \in {"dona", "kg"} /\ buy \in Nat /\ sell \in Nat
    BY InputAssumption
  <2>4. w \in Db /\ MoneyOK(w, today)
    BY <1>0, <2>2, <2>3, WriteProductOK, WriteProductMoney DEF ViewOK
  <2>5. Enters(w, db, p, batch.date)
    BY <1>0, <2>2, OperationEnters
  <2>6. SameSales(w, db)
    <3>1. db.entered[p] = {}
      BY <1>0, <2>1 DEF CanCreate, Owned
    <3>2. NormalizeQuantity(q, unit) \in Int
      BY <2>3, NormalizeRange
    <3> QED
      BY <1>0, <2>2, <3>1, <3>2, LineOf, OperationSales
  <2> HIDE DEF w
  <2>7. CommitProduct(p, w)
    BY <2>1 DEF w
  <2> QED
    BY <1>a, <2>4, <2>5, <2>6, <2>7, ProductMoney
<1>2. CASE UpdateProduct
  <2>1. PICK p \in db.live,
             pay \in [quantity : Quantities \cup {None}, unit : Units \cup {None},
                     buy : Prices \cup {None}, sell : Prices \cup {None}] :
          CommitProduct(p, Edited(db, rev + 1, batch.date, p, pay))
    BY <1>2 DEF UpdateProduct
  <2> DEFINE w == Edited(db, rev + 1, batch.date, p, pay)
  <2>2. Writing(db, batch.date, today) /\ batch.date \in Days /\ p \in Products
    BY <1>0, <1>a, <2>1, ProductWriting DEF CommitProduct
  <2>3. pay \in Pay
    BY InputAssumption DEF Pay
  <2>4. w \in Db /\ MoneyOK(w, today)
    BY <1>0, <2>2, <2>3, EditedOK, EditedMoney DEF ViewOK
  <2>5. Enters(w, db, p, batch.date)
    BY <1>0, <2>2, OperationEnters
  <2>6. SameSales(w, db)
    BY <1>0, <2>2, <2>3, OperationSales
  <2> HIDE DEF w
  <2>7. CommitProduct(p, w)
    BY <2>1 DEF w
  <2> QED
    BY <1>a, <2>2, <2>4, <2>5, <2>6, <2>7, ProductMoney
<1>3. CASE Restock
  <2>1. PICK p \in db.live, q \in Deltas :
          CommitProduct(p, Restocked(db, batch.date, p, NormalizeQuantity(q, db.product[p].unit)))
    BY <1>3 DEF Restock
  <2> DEFINE delta == NormalizeQuantity(q, db.product[p].unit)
             w     == Restocked(db, batch.date, p, delta)
  <2>2. /\ WritingOf(db, p, batch.date, batch.date, today) /\ batch.date \in Days
        /\ p \in Products
    BY <1>0, <1>a, <2>1, ProductWriting, WritingEach DEF CommitProduct
  <2>3. delta \in Nat
    BY InputAssumption, NormalizeRange
  <2>7. CommitProduct(p, w)
    BY <2>1
  <2> HIDE DEF delta
  <2>4. w \in Db /\ MoneyOK(w, today)
    BY <1>0, <2>2, <2>3, RestockedOK, RestockedMoney DEF ViewOK
  <2>5. Enters(w, db, p, batch.date)
    BY <1>0, <2>2, OperationEnters
  <2>6. SameSales(w, db)
    BY <1>0, <2>2, <2>3, OperationSales
  <2> HIDE DEF w
  <2> QED
    BY <1>a, <2>2, <2>4, <2>5, <2>6, <2>7, ProductMoney
<1>4. CASE RemoveProduct
  <2>1. PICK p \in db.live :
          /\ Idle
          /\ CommitDb([db EXCEPT !.live = @ \ {p}, !.tombs = @ \cup {p},
                                 !.product[p] = NoProduct])
          /\ UNCHANGED <<batch, today>>
    BY <1>4 DEF RemoveProduct
  <2> DEFINE w == [db EXCEPT !.live = @ \ {p}, !.tombs = @ \cup {p},
                             !.product[p] = NoProduct]
  <2>2. /\ w.live = db.live \ {p}
        /\ w.product = [db.product EXCEPT ![p] = NoProduct] /\ w.tombs = db.tombs \cup {p}
        /\ w.entered = db.entered /\ w.entry = db.entry /\ w.trail = db.trail
    BY <1>0 DEF Db
  <2>3. CommitDb(w)
    BY <2>1
  <2> HIDE DEF w
  <2>4. \A p2 \in w.live : p2 \in db.live /\ w.product[p2] = db.product[p2]
    BY <1>0, <2>2 DEF Db
  <2>5. MoneyOK(w, today)
    BY <1>0, <2>2, <2>4 DEF MoneyOK, Accounts, Priced
  <2>6. Owned(w)
    BY <1>0, <2>2 DEF Owned
  <2> QED
    BY <1>a, <2>1, <2>2, <2>3, <2>5, <2>6, IdleMoney
<1>5. CASE RebuildSnapshot
  <2>1. PICK d \in 1..today :
          Idle /\ CommitDb(Recompute(db, {d}, {})) /\ UNCHANGED <<batch, today>>
    BY <1>5 DEF RebuildSnapshot
  <2> DEFINE w == Recompute(db, {d}, {})
  <2>2. MoneyOK(w, today) /\ w.entered = db.entered /\ w.entry = db.entry
    BY <1>0, RecomputeMoney
  <2>3. w.live = db.live /\ w.tombs = db.tombs
    BY <1>0 DEF Recompute, Db
  <2> HIDE DEF w
  <2>4. Owned(w)
    BY <1>0, <2>2, <2>3 DEF Owned
  <2> QED
    BY <1>a, <2>1, <2>2, <2>4, IdleMoney DEF w
<1>6. CASE BeginBatch
  <2>1. Idle /\ UNCHANGED <<db, work, today, rev>>
    BY <1>6 DEF BeginBatch
  <2>2. work = db
    BY <1>a, <2>1 DEF IInv, Idle
  <2>3. Kept(work', db', Dated', batch'.late)
    BY <1>0, <2>1, <2>2, KeptSelf
  <2> QED
    BY <1>0, <1>a, <2>1, <2>3, NothingCommitted DEF MoneyInv
<1>7. CASE OpenItem
  <2>1. PICK p \in work.live, start \in Quantities, current \in Quantities :
          /\ batch.kind = "opening"
          /\ current <= start
          /\ work' = Opened(work, rev + 1, batch.date, p, start, current)
          /\ NextItem(p, 0)
    BY <1>7 DEF OpenItem
  <2>2. ~batch.late /\ Writing(work, batch.date, today)
    BY <1>a, <2>1, BatchWriting DEF IInv, BatchOK
  <2>3. start \in Nat /\ current \in Nat
    BY InputAssumption
  <2>4. MoneyOK(work', today) /\ OnlyDay(work', work, batch.date)
    BY <1>0, <2>1, <2>2, <2>3, OpenedMoney
  <2>5. Enters(work', work, p, batch.date) /\ p \in Products
    BY <1>0, <2>1, <2>2, OperationEnters DEF Writing
  <2> QED
    BY <1>a, <2>1, <2>4, <2>5, DayItemMoney
<1>8. CASE CountItem
  <2>1. PICK p \in work.live, current \in Quantities, revenue \in Amounts \cup {None} :
          /\ batch.kind = "count"
          /\ current <= EntryOr(work, p, batch.date).start
          /\ work' = Counted(work, rev + 1, batch.date, p, current, revenue)
          /\ NextItem(p, 0)
    BY <1>8 DEF CountItem
  <2>2. ~batch.late /\ Writing(work, batch.date, today)
    BY <1>a, <2>1, BatchWriting DEF IInv, BatchOK
  <2>3. current \in Nat /\ revenue \in Nat \cup {None}
    BY InputAssumption
  <2>4. MoneyOK(work', today) /\ OnlyDay(work', work, batch.date)
    BY <1>0, <2>1, <2>2, <2>3, CountedMoney
  <2>5. Enters(work', work, p, batch.date) /\ p \in Products
    BY <1>0, <2>1, <2>2, OperationEnters DEF Writing
  <2> QED
    BY <1>a, <2>1, <2>4, <2>5, DayItemMoney
<1>9. CASE SaleLine
  <2>1. PICK p \in work.live, q \in Deltas, amount \in Amounts \cup {None} :
          LET was == EntryOr(work, p, batch.date) IN
          /\ batch.kind = "sale"
          /\ q <= was.current
          /\ q <= work.product[p].qty
          /\ batch.late => LaterDaysHold(work, p, batch.date, q)
          /\ work' = SoldLine(work, batch.date, batch.late, p, q,
                              Given(amount, q * was.sell))
          /\ NextItem(p, 0)
    BY <1>9 DEF SaleLine
  <2> DEFINE was     == EntryOr(work, p, batch.date)
             charged == Given(amount, q * was.sell)
  <2>2. ViewOK(work, Last, today) /\ batch.late \in BOOLEAN /\ today \in Days
    BY <1>a, <2>1 DEF IInv, BatchOK, Batch, Reach
  <2>3. /\ batch.date \in Days /\ batch.date \in 1..Last
        /\ batch.late => Last = today /\ batch.date < today
        /\ ~batch.late => /\ Last = batch.date
                          /\ today = batch.date \/ today \notin 1..batch.date
    BY <1>a, <2>1, SaleDay
  <2>4. q \in Nat
    BY InputAssumption
  <2>5. charged \in Nat
    <3>1. was \in Entry
      BY <1>0, <2>2, <2>3, EntryOrOK DEF ViewOK
    <3>2. was.sell \in Nat
      BY <3>1 DEF Entry
    <3> HIDE DEF was
    <3>3. q * was.sell \in Nat
      BY <2>4, <3>2
    <3>4. amount # None => amount \in Nat
      BY InputAssumption
    <3> QED
      BY <3>3, <3>4 DEF Given
  <2>6. MoneyOK(work', today) /\ Kept(work', work, batch.date, batch.late)
    <3> HIDE DEF charged
    <3>1. work' = SoldLine(work, batch.date, batch.late, p, q, charged)
      BY <2>1 DEF charged
    <3> QED
      BY <1>0, <2>1, <2>2, <2>3, <2>4, <2>5, <3>1, SoldLineMoney
  <2>7. Enters(work', work, p, batch.date) /\ p \in Products
    BY <1>0, <2>1, <2>3, OperationEnters
  <2>8. Dated = batch.date
    BY <2>1 DEF Dated
  <2> QED
    BY <1>a, <2>1, <2>6, <2>7, <2>8, ItemMoney
<1>10. CASE PurchaseItem
  <2>1. PICK p \in work.live, q \in Deltas, buy \in Prices :
          /\ batch.kind = "purchase"
          /\ p \in db.live
          /\ work' = Purchased(work, rev + 1, batch.date, p, q, buy)
          /\ NextItem(p, q * buy)
    BY <1>10 DEF PurchaseItem
  <2>2. /\ WritingOf(work, p, batch.date, today, today) /\ batch.date \in Days
        /\ p \in Products
    BY <1>0, <1>a, <2>1, PurchaseWriting
  <2>3. q \in Nat /\ buy \in Nat
    BY InputAssumption
  <2>4. MoneyOK(work', today)
    BY <1>0, <2>1, <2>2, <2>3, PurchasedMoney
  <2>5. Enters(work', work, p, batch.date)
    BY <1>0, <2>1, <2>2, OperationEnters
  <2>6. SameSales(work', work)
    BY <1>0, <2>1, <2>2, <2>3, OperationSales
  <2> QED
    BY <1>a, <2>1, <2>2, <2>4, <2>5, <2>6, PurchaseMoney
<1>11. CASE PurchaseNew
  <2>1. PICK p \in Products, q \in Deltas, unit \in Units, buy \in Prices,
             sell \in Prices \cup {None} :
          /\ batch.kind = "purchase"
          /\ CanCreate(work, p)
          /\ work' = Recompute(WriteProduct(work, today, p, q, unit, buy,
                                            Given(sell, buy), FALSE),
                               {today}, {p})
          /\ NextItem(p, q * buy)
    BY <1>11 DEF PurchaseNew
  <2> DEFINE w == WriteProduct(work, today, p, q, unit, buy, Given(sell, buy), FALSE)
  <2>2. Writing(work, today, today) /\ today \in Days
    BY <1>a, <2>1, PurchaseWriting DEF IInv
  <2>3. q \in Nat /\ buy \in Nat /\ unit \in {"dona", "kg"} /\ Given(sell, buy) \in Nat
    BY InputAssumption DEF Given
  <2>4. w \in Db /\ MoneyOK(w, today)
    BY <1>0, <2>2, <2>3, WriteProductOK, WriteProductMoney DEF ViewOK
  <2>5. Enters(w, work, p, today)
    BY <1>0, <2>2, OperationEnters
  <2>6. SameSales(w, work)
    <3>1. work.entered[p] = {}
      BY <1>0, <2>1 DEF CanCreate, Owned
    <3>2. NormalizeQuantity(q, unit) \in Int
      BY <2>3, NormalizeRange
    <3> QED
      BY <1>0, <2>2, <3>1, <3>2, LineOf, OperationSales
  <2>7. work' = Recompute(w, {today}, {p})
    BY <2>1
  <2> HIDE DEF w
  <2>8. MoneyOK(work', today) /\ work'.entered = w.entered
    BY <2>4, <2>7, RecomputeMoney
  <2>9. /\ work'.live = w.live /\ work'.tombs = w.tombs /\ work'.trail = w.trail
    BY <2>4, <2>7 DEF Recompute, Db
  <2>10. Enters(work', work, p, today) /\ SameSales(work', work)
    BY <2>5, <2>6, <2>8, <2>9 DEF Enters, SameSales
  <2> QED
    BY <1>a, <2>1, <2>8, <2>10, PurchaseMoney
<1>12. CASE CommitBatch
  <2> DEFINE w == [work EXCEPT !.procured[batch.date] = @ + batch.cost]
             u == Recompute(w, {batch.date}, batch.touched)
  <2>1. /\ db' = u /\ work' = u /\ batch' = NoBatch /\ today' = today
    BY <1>12 DEF CommitBatch, CommitDb
  <2>2. Kept(work, db, Dated, batch.late)
    BY DEF MoneyInv
  <2>3. [work.procured EXCEPT ![batch.date] = @ + batch.cost] \in [Days -> Int]
    <3>1. work.procured \in [Days -> Int] /\ batch.cost \in Int
      BY <1>0, <1>a DEF Db, IInv, BatchOK, Batch
    <3>2. CASE batch.date \in Days
      BY <3>1, <3>2
    <3>3. CASE batch.date \notin Days
      BY <3>1, <3>3
    <3> QED
      BY <3>2, <3>3
  <2>4. /\ w \in Db /\ w.live = work.live /\ w.product = work.product
        /\ w.entered = work.entered /\ w.entry = work.entry /\ w.trail = work.trail
        /\ w.tombs = work.tombs
    BY <1>0, <2>3 DEF Db
  <2> HIDE DEF w
  <2>5. MoneyOK(w, today)
    BY <1>0, <2>4 DEF MoneyOK, Accounts, Priced
  <2>6. MoneyOK(u, today) /\ u.entered = work.entered /\ u.entry = work.entry
    BY <2>4, <2>5, RecomputeMoney
  <2>7. u.live = work.live /\ u.tombs = work.tombs
    BY <2>4 DEF Recompute, Db
  <2> HIDE DEF u
  <2>8. Owned(u)
    BY <1>0, <2>6, <2>7 DEF Owned
  <2>9. Kept(u, u, Dated', batch'.late)
    BY <1>a, <2>1, KeptSelf DEF IInv, ViewOK
  <2>10. MoneyInv'
    BY <1>a, <2>1, <2>6, <2>8, <2>9 DEF MoneyInv
  <2>11. Kept(u, db, Dated, batch.late)
    BY <2>2, <2>6 DEF Kept
  <2> QED
    BY <1>a, <2>1, <2>10, <2>11, KeptCommitted
<1>13. CASE AbortBatch
  <2>1. work' = db /\ batch' = NoBatch /\ UNCHANGED <<db, today, rev>>
    BY <1>13 DEF AbortBatch
  <2>2. Kept(db, db, Dated', batch'.late)
    BY <1>0, KeptSelf
  <2> QED
    BY <1>0, <1>a, <2>1, <2>2, NothingCommitted DEF MoneyInv
<1>14. CASE NextDay
  <2>1. today' = today + 1 /\ UNCHANGED <<db, work, batch, rev>>
    BY <1>14 DEF NextDay
  <2>2. /\ today \in Nat /\ (Last \in 1..today \/ Last = today)
        /\ Reach \in 1..today \/ Reach = today
    BY <1>a, BoundsAssumption DEF IInv, BatchOK, Last, Reach, Days
  <2>3. ASSUME NEW s \in Db, NEW n, n \in 1..today \/ n = today, UpTo(s, n), MoneyOK(s, today)
        PROVE  MoneyOK(s, today')
    <3>1. \A p \in s.live : today' \notin s.entered[p]
      BY <2>1, <2>2, <2>3 DEF UpTo, Db
    <3> QED
      BY <2>3, <3>1 DEF MoneyOK, Priced
  <2>4. MoneyOK(db, today') /\ MoneyOK(work, today')
    BY <1>0, <1>a, <2>2, <2>3 DEF IInv, ViewOK
  <2> QED
    BY <1>a, <2>1, <2>4, NothingCommitted DEF MoneyInv, Dated
<1>15. CASE UNCHANGED vars
  BY <1>a, <1>15, NothingCommitted DEF vars, MoneyInv, Dated
<1> QED
  BY <1>1, <1>2, <1>3, <1>4, <1>5, <1>6, <1>7, <1>8, <1>9, <1>10, <1>11, <1>12,
     <1>13, <1>14, <1>15 DEF Next

\* The money's invariant holds in every behaviour.
THEOREM MoneyInvariance == Spec => []MoneyInv
BY InitMoney, NextMoney, PTL DEF Spec

\* Today's entry and the product quote the same prices, after any sequence of price
\* edits, purchases at another cost, counts and sales (product.service update,
\* procurement.service create).
THEOREM PricesAgree == Spec => []TodayPricesAgree
<1>1. MoneyInv => TodayPricesAgree
  BY DEF MoneyInv, MoneyOK, Priced, SamePrices, TodayPricesAgree
<1> QED
  BY <1>1, MoneyInvariance, PTL

\* What every entry reports as sold, taken and earned is what the audit trail
\* of sales and counts adds up to, and the opening stock is recoverable from it:
\* no operation ever re-values what was sold before (inventory.service sales
\* and bulkUpdateCurrent, product.service update, procurement.service create).
THEOREM MoneyMatchesTrail == Spec => []LedgerMatchesTrail
<1>1. ASSUME MoneyInv PROVE LedgerMatchesTrail
  <2>1. Accounts(db) /\ db \in Db
    BY <1>1 DEF MoneyInv, MoneyOK, IInv, ViewOK
  <2>2. \A p \in Products : db.entered[p] \subseteq Days
    BY <2>1 DEF Db
  <2> QED
    BY <2>1, <2>2 DEF Accounts, Matches, LedgerMatchesTrail
<1> QED
  BY <1>1, MoneyInvariance, PTL

\* A closed day's figures change only when a sale, a count or an opening of that very day
\* commits, and a queued sale only adds to them.  An edit, a restock, a new product or a
\* purchase whose transaction began before midnight and commits after it does write the
\* closed day's entry, and leaves what it reports alone (product.service 84, 312 and 503
\* read the date; procurement.service 41 and 218-231).
THEOREM ClosedDaysKept == Spec => ClosedDaysOnlyGainSales
<1>1. MoneyInv /\ [Next]_vars => [ClosedStep]_vars
  BY NextMoney
<1> QED
  BY <1>1, MoneyInvariance, PTL DEF Spec, ClosedDaysOnlyGainSales, ClosedStep

-----------------------------------------------------------------------------
(* Snapshots.                                                              *)

\* Day d has a snapshot once it has an entry.
Made(s, d) == (\E p \in Products : d \in s.entered[p]) => s.snapshot[d].made

\* The snapshot of day d is what a full rebuild would make.
DerivedDay(s, d) == s.snapshot[d].made => s.snapshot[d] = Rebuilt(s, d, {})

\* The rows of a full rebuild, but for those of `dirty'.
RowsBut(s, d, dirty) ==
  {BuildSnapshotItem(s, p, d) : p \in {q \in Products : d \in s.entered[q] /\ q \notin dirty}}

\* Only the rows of `dirty' are out of date.
ItemsFit(s, d, dirty) == s.snapshot[d].made =>
  {i \in s.snapshot[d].items : i.product \notin dirty} = RowsBut(s, d, dirty)

\* w is s but for the entries of p on `days', and the procurements of those days.
Touches(w, s, p, days) ==
  /\ w.snapshot = s.snapshot
  /\ \A d \in Days \ days : w.procured[d] = s.procured[d]
  /\ \A p2 \in Products, d \in Days : (p2 # p \/ d \notin days) =>
       /\ d \in w.entered[p2] <=> d \in s.entered[p2]
       /\ w.entry[p2][d] = s.entry[p2][d]

\* u is w with the snapshots of `days' rebuilt.
Rebuilds(u, w, days, ids) ==
  /\ u.entered = w.entered /\ u.entry = w.entry /\ u.procured = w.procured
  /\ \A d \in Days : u.snapshot[d] = IF d \in days THEN Rebuilt(w, d, ids)
                                     ELSE w.snapshot[d]

\* Recompute rebuilds the days it is given.
LEMMA RecomputeRebuilds ==
  ASSUME NEW w \in Db, NEW days, NEW ids
  PROVE  Rebuilds(Recompute(w, days, ids), w, days, ids)
<1> DEFINE u == Recompute(w, days, ids)
<1>1. /\ u.entered = w.entered /\ u.entry = w.entry /\ u.procured = w.procured
      /\ u.snapshot = [d \in Days |-> IF d \in days THEN Rebuilt(w, d, ids)
                                      ELSE w.snapshot[d]]
  BY DEF Recompute, Db
<1> HIDE DEF u
<1>2. Rebuilds(u, w, days, ids)
  BY <1>1 DEF Rebuilds
<1> QED
  BY <1>2 DEF u

\* A full rebuild takes the rows of all products and nothing of the old snapshot.
LEMMA FullRebuild ==
  ASSUME NEW s, NEW d
  PROVE  Rebuilt(s, d, {}) = [made |-> TRUE, items |-> RowsBut(s, d, {}),
                             cost |-> s.procured[d]]
<1>1. {i \in s.snapshot[d].items : s.snapshot[d].made /\ {} # {} /\ i.product \notin {}} = {}
  OBVIOUS
<1>2. {p \in Products : d \in s.entered[p] /\ (s.snapshot[d].made /\ {} # {} => p \in {})}
        = {q \in Products : d \in s.entered[q] /\ q \notin {}}
  OBVIOUS
<1> HIDE DEF BuildSnapshotItem
<1> QED
  BY <1>1, <1>2 DEF Rebuilt, RowsBut

\* The product of a row.
LEMMA RowProduct ==
  ASSUME NEW s, NEW p, NEW d
  PROVE  BuildSnapshotItem(s, p, d).product = p
BY DEF BuildSnapshotItem

\* An incremental rebuild of what is out of date is a full one.
LEMMA IncrementalIsFull ==
  ASSUME NEW s, NEW d, NEW ids, ItemsFit(s, d, ids)
  PROVE  Rebuilt(s, d, ids) = Rebuilt(s, d, {})
<1> DEFINE incremental == s.snapshot[d].made /\ ids # {}
           rows == {p \in Products : d \in s.entered[p] /\ (incremental => p \in ids)}
           kept == {i \in s.snapshot[d].items : incremental /\ i.product \notin ids}
           made == {BuildSnapshotItem(s, p, d) : p \in rows}
<1>1. Rebuilt(s, d, ids) = [made |-> TRUE, items |-> kept \cup made, cost |-> s.procured[d]]
  BY DEF Rebuilt
<1>2. kept \cup made = RowsBut(s, d, {})
  <2>1. CASE incremental
    <3>1. kept = RowsBut(s, d, ids)
      BY <2>1 DEF ItemsFit
    <3>2. RowsBut(s, d, ids) \cup made = RowsBut(s, d, {})
      BY <2>1 DEF RowsBut
    <3> QED
      BY <3>1, <3>2
  <2>2. CASE ~incremental
    <3>1. kept = {}
      BY <2>2
    <3>2. rows = {q \in Products : d \in s.entered[q] /\ q \notin {}}
      BY <2>2
    <3> QED
      BY <3>1, <3>2 DEF RowsBut
  <2> QED
    BY <2>1, <2>2
<1> QED
  BY <1>1, <1>2, FullRebuild

\* A derived snapshot has no row out of date.
LEMMA DerivedFits ==
  ASSUME NEW s, NEW d, DerivedDay(s, d), NEW dirty
  PROVE  ItemsFit(s, d, dirty)
<1> SUFFICES ASSUME s.snapshot[d].made
             PROVE  {i \in s.snapshot[d].items : i.product \notin dirty} = RowsBut(s, d, dirty)
  BY DEF ItemsFit
<1>1. s.snapshot[d].items = RowsBut(s, d, {})
  BY FullRebuild DEF DerivedDay
<1>2. \A p : BuildSnapshotItem(s, p, d).product = p
  BY RowProduct
<1> HIDE DEF BuildSnapshotItem
<1> QED
  BY <1>1, <1>2 DEF RowsBut

\* The rows of products that were not touched stay.
LEMMA RowsStay ==
  ASSUME NEW s, NEW w, NEW p, NEW days, Touches(w, s, p, days), NEW d \in Days,
         NEW dirty, p \in dirty \/ d \notin days
  PROVE  RowsBut(w, d, dirty) = RowsBut(s, d, dirty)
<1>1. {q \in Products : d \in w.entered[q] /\ q \notin dirty}
        = {q \in Products : d \in s.entered[q] /\ q \notin dirty}
  BY DEF Touches
<1>2. \A q \in Products : q \notin dirty =>
        BuildSnapshotItem(w, q, d) = BuildSnapshotItem(s, q, d)
  <2> SUFFICES ASSUME NEW q \in Products, q \notin dirty
               PROVE  w.entry[q][d] = s.entry[q][d]
    BY DEF BuildSnapshotItem
  <2> QED
    BY DEF Touches
<1> HIDE DEF BuildSnapshotItem
<1> QED
  BY <1>1, <1>2 DEF RowsBut

\* A day that was derived is derived again, if it was rebuilt or not touched.
LEMMA CleanDay ==
  ASSUME NEW s, NEW w, NEW u, NEW p, NEW days, Touches(w, s, p, days),
         NEW again, NEW ids, Rebuilds(u, w, again, ids),
         NEW d \in Days, Made(s, d), DerivedDay(s, d),
         d \in again => p \in ids, d \in days => d \in again
  PROVE  Made(u, d) /\ DerivedDay(u, d)
<1>1. /\ u.entered = w.entered /\ u.entry = w.entry /\ u.procured = w.procured
      /\ w.snapshot = s.snapshot
  BY DEF Rebuilds, Touches
<1>2. Rebuilt(u, d, {}) = Rebuilt(w, d, {})
  <2>1. RowsBut(u, d, {}) = RowsBut(w, d, {})
    BY <1>1 DEF RowsBut, BuildSnapshotItem
  <2> QED
    BY <1>1, <2>1, FullRebuild
<1>3. CASE d \in again
  <2>1. u.snapshot[d] = Rebuilt(w, d, ids)
    BY <1>3 DEF Rebuilds
  <2>2. ItemsFit(s, d, ids)
    BY DerivedFits
  <2>3. RowsBut(w, d, ids) = RowsBut(s, d, ids)
    BY <1>3, RowsStay
  <2>4. ItemsFit(w, d, ids)
    BY <1>1, <2>2, <2>3 DEF ItemsFit
  <2>5. u.snapshot[d] = Rebuilt(u, d, {})
    BY <1>2, <2>1, <2>4, IncrementalIsFull
  <2>6. u.snapshot[d].made
    BY <2>1 DEF Rebuilt
  <2> QED
    BY <2>5, <2>6 DEF Made, DerivedDay
<1>4. CASE d \notin again
  <2>1. u.snapshot[d] = s.snapshot[d] /\ d \notin days
    BY <1>1, <1>4 DEF Rebuilds
  <2>2. RowsBut(w, d, {}) = RowsBut(s, d, {}) /\ w.procured[d] = s.procured[d]
    BY <2>1, RowsStay DEF Touches
  <2>3. Rebuilt(u, d, {}) = Rebuilt(s, d, {})
    BY <1>2, <2>2, FullRebuild
  <2>4. \A p2 \in Products : d \in u.entered[p2] <=> d \in s.entered[p2]
    BY <1>1, <2>1 DEF Touches
  <2> QED
    BY <2>1, <2>3, <2>4 DEF Made, DerivedDay
<1> QED
  BY <1>3, <1>4

\* On the day of the batch the rows of p may be out of date afterwards, and no others.
LEMMA DirtyDay ==
  ASSUME NEW s, NEW w, NEW u, NEW p, NEW days, Touches(w, s, p, days),
         NEW again, Rebuilds(u, w, again, {p}),
         NEW d \in Days, NEW dirty, ItemsFit(s, d, dirty)
  PROVE  ItemsFit(u, d, dirty \cup {p})
<1> DEFINE more == dirty \cup {p}
<1>1. /\ u.entered = w.entered /\ u.entry = w.entry /\ w.snapshot = s.snapshot
  BY DEF Rebuilds, Touches
<1>2. RowsBut(u, d, more) = RowsBut(w, d, more)
  BY <1>1 DEF RowsBut, BuildSnapshotItem
<1>3. RowsBut(w, d, more) = RowsBut(s, d, more)
  BY RowsStay
<1>4. ItemsFit(s, d, more)
  <2> SUFFICES ASSUME s.snapshot[d].made
               PROVE  {i \in s.snapshot[d].items : i.product \notin more}
                        = RowsBut(s, d, more)
    BY DEF ItemsFit
  <2>1. {i \in s.snapshot[d].items : i.product \notin more}
          = {i \in RowsBut(s, d, dirty) : i.product # p}
    BY DEF ItemsFit
  <2>2. \A q : BuildSnapshotItem(s, q, d).product = q
    BY RowProduct
  <2> HIDE DEF BuildSnapshotItem
  <2>3. {i \in RowsBut(s, d, dirty) : i.product # p} = RowsBut(s, d, more)
    BY <2>2 DEF RowsBut
  <2> QED
    BY <2>1, <2>3
<1>5. CASE d \notin again
  BY <1>1, <1>2, <1>3, <1>4, <1>5 DEF ItemsFit, Rebuilds
<1>6. CASE d \in again
  <2> DEFINE incremental == w.snapshot[d].made /\ {p} # {}
             rows == {q \in Products : d \in w.entered[q] /\ (incremental => q \in {p})}
             kept == {i \in w.snapshot[d].items : incremental /\ i.product \notin {p}}
  <2>1. u.snapshot[d].items = kept \cup {BuildSnapshotItem(w, q, d) : q \in rows}
    <3>1. u.snapshot[d] = Rebuilt(w, d, {p})
      BY <1>6 DEF Rebuilds
    <3>2. Rebuilt(w, d, {p}).items = kept \cup {BuildSnapshotItem(w, q, d) : q \in rows}
      BY DEF Rebuilt
    <3> QED
      BY <3>1, <3>2
  <2>2. \A q : BuildSnapshotItem(w, q, d).product = q
    BY RowProduct
  <2> HIDE DEF BuildSnapshotItem
  <2>3. CASE w.snapshot[d].made
    <3>1. {i \in u.snapshot[d].items : i.product \notin more}
            = {i \in w.snapshot[d].items : i.product \notin more}
      BY <2>1, <2>2, <2>3
    <3> QED
      BY <1>1, <1>2, <1>3, <1>4, <2>3, <3>1 DEF ItemsFit
  <2>4. CASE ~w.snapshot[d].made
    <3>1. {i \in u.snapshot[d].items : i.product \notin more} = RowsBut(w, d, more)
      BY <2>1, <2>2, <2>4 DEF RowsBut
    <3> QED
      BY <1>2, <3>1 DEF ItemsFit
  <2> QED
    BY <2>3, <2>4
<1> QED
  BY <1>5, <1>6

\* A replaced value leaves the others of a function of functions alone.
LEMMA NestedOther ==
  ASSUME NEW A, NEW B, NEW C, NEW f \in [A -> [B -> C]],
         NEW a \in A, NEW b \in B, NEW c, NEW a2 \in A, NEW b2 \in B, a2 # a \/ b2 # b
  PROVE  [f EXCEPT ![a][b] = c][a2][b2] = f[a2][b2]
OBVIOUS

\* Storing touches one entry.
LEMMA StoreTouches ==
  ASSUME NEW s \in Db, NEW p \in Products, NEW d \in Days, NEW pr, NEW e, NEW a
  PROVE  Touches(Store(s, p, d, pr, e, a), s, p, {d})
<1> DEFINE w == Store(s, p, d, pr, e, a)
<1>1. /\ s.entered \in [Products -> SUBSET Days]
      /\ s.entry \in [Products -> [Days -> Entry]]
  BY DEF Db
<1>2. /\ w.snapshot = s.snapshot /\ w.procured = s.procured
      /\ w.entered = [s.entered EXCEPT ![p] = @ \cup {d}]
      /\ w.entry = [s.entry EXCEPT ![p][d] = e]
  BY DEF Store, Db
<1> HIDE DEF w
<1>3. ASSUME NEW p2 \in Products, NEW d2 \in Days, p2 # p \/ d2 # d
      PROVE  /\ d2 \in w.entered[p2] <=> d2 \in s.entered[p2]
             /\ w.entry[p2][d2] = s.entry[p2][d2]
  <2>1. d2 \in w.entered[p2] <=> d2 \in s.entered[p2]
    BY <1>1, <1>2, <1>3
  <2>2. w.entry[p2][d2] = s.entry[p2][d2]
    BY <1>1, <1>2, <1>3, NestedOther
  <2> QED
    BY <2>1, <2>2
<1>4. Touches(w, s, p, {d})
  BY <1>2, <1>3 DEF Touches
<1> QED
  BY <1>4 DEF w

\* Each operation on one product touches one entry.  A product edit:
LEMMA EditedTouches ==
  ASSUME NEW s \in Db, NEW r, NEW d \in Days, NEW p \in Products, NEW pay
  PROVE  Touches(Edited(s, r, d, p, pay), s, p, {d})
BY StoreTouches DEF Edited

\* A day opening.
LEMMA OpenedTouches ==
  ASSUME NEW s \in Db, NEW r, NEW d \in Days, NEW p \in Products, NEW start, NEW current
  PROVE  Touches(Opened(s, r, d, p, start, current), s, p, {d})
BY StoreTouches DEF Opened

\* A count.
LEMMA CountedTouches ==
  ASSUME NEW s \in Db, NEW r, NEW d \in Days, NEW p \in Products, NEW current, NEW revenue
  PROVE  Touches(Counted(s, r, d, p, current, revenue), s, p, {d})
BY StoreTouches DEF Counted

\* A restock or a purchase.
LEMMA ReceivedTouches ==
  ASSUME NEW s \in Db, NEW d \in Days, NEW p \in Products, NEW delta, NEW pr, NEW base
  PROVE  Touches(Received(s, d, p, delta, pr, base), s, p, {d})
<1> DEFINE next    == IF d \in s.entered[p] THEN Raise(base, delta)
                      ELSE FreshEntry(pr, pr.qty)
           opening == IF d \in s.entered[p] THEN s.trail[p][d].opening + delta ELSE pr.qty
           put     == Store(s, p, d, pr, next, [s.trail[p][d] EXCEPT !.opening = opening])
           w       == Received(s, d, p, delta, pr, base)
<1>1. w = [put EXCEPT !.received[p] = @ + delta]
  BY DEF Received
<1>2. Touches(put, s, p, {d})
  BY StoreTouches
<1>3. /\ put.snapshot = [put EXCEPT !.received[p] = @ + delta].snapshot
      /\ put.procured = [put EXCEPT !.received[p] = @ + delta].procured
      /\ put.entered = [put EXCEPT !.received[p] = @ + delta].entered
      /\ put.entry = [put EXCEPT !.received[p] = @ + delta].entry
  BY DEF Store, Db
<1> HIDE DEF put, w
<1>4. Touches(w, s, p, {d})
  BY <1>1, <1>2, <1>3 DEF Touches
<1> QED
  BY <1>4 DEF w

\* A new product.
LEMMA WriteProductTouches ==
  ASSUME NEW s \in Db, NEW d \in Days, NEW p \in Products, NEW q, NEW unit, NEW buy, NEW sell,
         NEW receipt
  PROVE  Touches(WriteProduct(s, d, p, q, unit, buy, sell, receipt), s, p, {d})
<1> DEFINE qty  == NormalizeQuantity(q, unit)
           pr   == [qty |-> qty, unit |-> unit, buy |-> buy, sell |-> sell, epoch |-> 0]
           put  == Store(s, p, d, pr, FreshEntry(pr, qty), FirstTrail(qty))
           sum  == IF receipt THEN put.procured[d] + qty * buy ELSE put.procured[d]
           w    == WriteProduct(s, d, p, q, unit, buy, sell, receipt)
<1>1. Touches(put, s, p, {d})
  BY StoreTouches
<1>2. /\ w.snapshot = put.snapshot /\ w.entered = put.entered /\ w.entry = put.entry
      /\ w.procured = [put.procured EXCEPT ![d] = sum]
      /\ put.procured = s.procured
  BY DEF WriteProduct, Store, Db
<1> HIDE DEF put, w, sum
<1>3. \A d2 \in Days \ {d} : w.procured[d2] = put.procured[d2]
  BY <1>2 DEF Db
<1>4. Touches(w, s, p, {d})
  BY <1>1, <1>2, <1>3 DEF Touches
<1> QED
  BY <1>4 DEF w

\* The days a sale of day d shifts.
Shifted(s, d, late, p) == {d2 \in s.entered[p] : late /\ d2 > d}

\* A sale touches its own day and the later days it shifts, and rebuilds these.
LEMMA SoldLineTouches ==
  ASSUME NEW s \in Db, NEW d \in Days, NEW late, NEW p \in Products, NEW q, NEW charged
  PROVE  \E w : /\ Touches(w, s, p, Shifted(s, d, late, p) \cup {d})
                /\ Rebuilds(SoldLine(s, d, late, p, q, charged), w,
                            Shifted(s, d, late, p), {p})
<1> DEFINE was     == EntryOr(s, p, d)
           next    == AfterSale(was, q, charged)
           later   == {d2 \in s.entered[p] : late /\ d2 > d}
           row     == [d2 \in Days |-> IF d2 \in later THEN Shift(s.entry[p][d2], q)
                                       ELSE s.entry[p][d2]]
           log     == [d2 \in Days |-> IF d2 \in later
                                       THEN [s.trail[p][d2] EXCEPT !.opening = @ - q]
                                       ELSE s.trail[p][d2]]
           shifted == [s EXCEPT !.entry[p] = row, !.trail[p] = log]
           a       == s.trail[p][d]
           pr      == [s.product[p] EXCEPT
                         !.qty     = LiveQuantity(s.product[p], late, q, next.current)]
           audit   == [sold    |-> a.sold + q,
                       revenue |-> a.revenue + charged,
                       cost    |-> a.cost + q * was.buy,
                       opening |-> IF d \in s.entered[p] THEN a.opening ELSE was.start]
           w       == Store(shifted, p, d, pr, next, audit)
           u       == SoldLine(s, d, late, p, q, charged)
           Kinds   == Entry \cup {row[d2] : d2 \in Days}
<1>1. u = Recompute(w, later, {p})
  BY DEF SoldLine
<1>2. /\ s.entered \in [Products -> SUBSET Days]
      /\ s.entry \in [Products -> [Days -> Entry]]
  BY DEF Db
<1>3. \A d2 \in Days \ later : row[d2] = s.entry[p][d2]
  OBVIOUS
<1>4. row \in [Days -> Kinds]
  OBVIOUS
<1> HIDE DEF was, next, row, log, pr, audit, a
<1>5. /\ w.snapshot = s.snapshot /\ w.procured = s.procured
      /\ w.entered = [s.entered EXCEPT ![p] = @ \cup {d}]
      /\ w.entry = [[s.entry EXCEPT ![p] = row] EXCEPT ![p][d] = next]
  BY DEF Store, Db
<1>6. /\ u.entered = w.entered /\ u.entry = w.entry /\ u.procured = w.procured
      /\ u.snapshot = [d2 \in Days |-> IF d2 \in later THEN Rebuilt(w, d2, {p})
                                       ELSE w.snapshot[d2]]
  BY <1>1 DEF Recompute, Store, Db
<1> HIDE DEF u, w, shifted, later, Kinds
<1>7. Rebuilds(u, w, later, {p})
  BY <1>6 DEF Rebuilds
<1>8. Kinds = Entry \cup Kinds
  BY DEF Kinds
<1>9. ASSUME NEW p2 \in Products, NEW d2 \in Days, p2 # p \/ d2 \notin later \cup {d}
      PROVE  /\ d2 \in w.entered[p2] <=> d2 \in s.entered[p2]
             /\ w.entry[p2][d2] = s.entry[p2][d2]
  <2> DEFINE f == [s.entry EXCEPT ![p] = row]
  <2>1. f \in [Products -> [Days -> Kinds]]
    BY <1>2, <1>4, <1>8
  <2>2. f[p2][d2] = s.entry[p2][d2]
    BY <1>2, <1>3, <1>9
  <2>3. w.entry = [f EXCEPT ![p][d] = next]
    BY <1>5
  <2> HIDE DEF f
  <2>4. p2 # p \/ d2 # d
    BY <1>9
  <2>5. w.entry[p2][d2] = f[p2][d2]
    BY <2>1, <2>3, <2>4, NestedOther
  <2>6. d2 \in w.entered[p2] <=> d2 \in s.entered[p2]
    BY <1>2, <1>5, <2>4
  <2> QED
    BY <2>2, <2>5, <2>6
<1>10. Touches(w, s, p, later \cup {d})
  BY <1>5, <1>9 DEF Touches
<1> QED
  BY <1>7, <1>10 DEF u, later, Shifted

-----------------------------------------------------------------------------
(* Snapshots in every behaviour.                                           *)

\* Nothing is bought after day n, and a snapshot that was never made has no rows.
Blank(s, n) == \A d \in Days :
  (d > n => s.procured[d] = 0) /\ (~s.snapshot[d].made => s.snapshot[d].items = {})

\* Neither an operation on days up to n nor a rebuild changes that.
LEMMA BlankKept ==
  ASSUME NEW s, NEW w, NEW u, NEW p, NEW n \in Nat, NEW days \in SUBSET (1..n), NEW again,
         NEW ids, Touches(w, s, p, days), Rebuilds(u, w, again, ids), Blank(s, n)
  PROVE  Blank(u, n)
<1> SUFFICES ASSUME NEW d \in Days
             PROVE  /\ d > n => u.procured[d] = 0
                    /\ ~u.snapshot[d].made => u.snapshot[d].items = {}
  BY DEF Blank
<1>1. d > n => d \notin days
  BY DEF Days
<1>2. d > n => u.procured[d] = s.procured[d]
  BY <1>1 DEF Touches, Rebuilds
<1>3. d \in again => u.snapshot[d].made
  <2>1. Rebuilt(w, d, ids).made
    BY DEF Rebuilt
  <2> QED
    BY <2>1 DEF Rebuilds
<1>4. d \notin again => u.snapshot[d] = s.snapshot[d]
  BY DEF Touches, Rebuilds
<1> QED
  BY <1>2, <1>3, <1>4 DEF Blank

\* The inductive invariant: what is committed is derived; of an open batch the
\* day it writes may have out of date rows, of the products it has touched.
SnapInv ==
  /\ IInv
  /\ batch.kind = "none" => batch.count = 0
  /\ Blank(db, today) /\ Blank(work, today)
  /\ \A d \in Days : Made(db, d) /\ DerivedDay(db, d)
  /\ \A d \in Days : IF d = batch.date THEN ItemsFit(work, d, batch.touched)
                     ELSE Made(work, d) /\ DerivedDay(work, d)

\* A transaction of one step that leaves every day derived.
LEMMA CleanCommit ==
  ASSUME SnapInv, IInv', NEW u, \A d \in Days : Made(u, d) /\ DerivedDay(u, d),
         Blank(u, today), CommitDb(u), today' = today,
         batch' \in {batch, NoBatch}
  PROVE  SnapInv'
<1>1. db' = u /\ work' = u
  BY DEF CommitDb
<1>2. \A d \in Days : ItemsFit(u, d, batch'.touched)
  BY DerivedFits
<1> QED
  BY <1>1, <1>2 DEF SnapInv, NoBatch

\* A request for one product rebuilds the day it touches.
LEMMA ProductSnap ==
  ASSUME SnapInv, IInv', NEW w \in Db, NEW p \in Products, Touches(w, db, p, {batch.date}),
         CommitProduct(p, w)
  PROVE  SnapInv'
<1> DEFINE u == Recompute(w, {batch.date}, {p})
<1>1. CommitDb(u) /\ today' = today /\ batch' = NoBatch /\ batch.kind = "product"
  BY DEF CommitProduct
<1>2. Rebuilds(u, w, {batch.date}, {p})
  BY RecomputeRebuilds
<1> HIDE DEF u
<1>3. \A d \in Days : Made(u, d) /\ DerivedDay(u, d)
  BY <1>2, CleanDay DEF SnapInv
<1>4. today \in Nat /\ {batch.date} \in SUBSET (1..today)
  BY <1>1 DEF SnapInv, IInv, BatchOK, Days
<1>5. Blank(u, today)
  BY <1>2, <1>4, BlankKept DEF SnapInv
<1> QED
  BY <1>1, <1>3, <1>5, CleanCommit

\* One item of a batch: it touches the batch's day, and rebuilds the others it touches.
LEMMA ItemSnap ==
  ASSUME SnapInv, IInv', batch.kind # "none", NEW p \in Products, NEW cost,
         NextItem(p, cost),
         NEW w, NEW days, Touches(w, work, p, days),
         NEW again, Rebuilds(work', w, again, {p}), days \ {batch.date} \subseteq again,
         days \in SUBSET (1..today)
  PROVE  SnapInv'
<1>1. /\ batch'.kind = batch.kind /\ batch'.date = batch.date
      /\ batch'.touched = batch.touched \cup {p} /\ db' = db
  BY DEF NextItem, SnapInv, IInv, BatchOK, Batch
<1>2. ASSUME NEW d \in Days, d = batch.date
      PROVE  ItemsFit(work', d, batch.touched \cup {p})
  <2>1. ItemsFit(work, d, batch.touched)
    BY <1>2 DEF SnapInv
  <2> QED
    BY <2>1, DirtyDay
<1>3. ASSUME NEW d \in Days, d # batch.date
      PROVE  Made(work', d) /\ DerivedDay(work', d)
  <2>1. Made(work, d) /\ DerivedDay(work, d) /\ (d \in days => d \in again)
    BY <1>3 DEF SnapInv
  <2> QED
    BY <2>1, CleanDay
<1>4. today' = today /\ today \in Nat
  BY DEF NextItem, SnapInv, IInv, Days
<1>5. Blank(work', today)
  BY <1>4, BlankKept DEF SnapInv
<1> QED
  BY <1>1, <1>2, <1>3, <1>4, <1>5 DEF SnapInv

\* The same for an item that rebuilds nothing.
LEMMA PlainItemSnap ==
  ASSUME SnapInv, IInv', batch.kind # "none", NEW p \in Products, NEW cost,
         NextItem(p, cost), Touches(work', work, p, {batch.date})
  PROVE  SnapInv'
<1>1. Rebuilds(work', work', {}, {p})
  BY DEF Rebuilds
<1>2. {batch.date} \in SUBSET (1..today)
  BY DEF SnapInv, IInv, BatchOK
<1> QED
  BY <1>1, <1>2, ItemSnap

\* Without collections there is nothing to derive.
LEMMA InitSnap == Init => SnapInv
<1> SUFFICES ASSUME Init PROVE SnapInv
  OBVIOUS
<1>1. IInv /\ db = EmptyDb /\ work = EmptyDb
  BY InitIInv DEF Init
<1>2. \A d \in Days : Made(EmptyDb, d) /\ DerivedDay(EmptyDb, d)
  BY DEF Made, DerivedDay, EmptyDb, NoSnapshot
<1>3. \A d \in Days : ItemsFit(EmptyDb, d, batch.touched)
  BY <1>2, DerivedFits
<1>4. Blank(EmptyDb, today)
  BY DEF Blank, EmptyDb, NoSnapshot
<1>5. batch.kind = "none" => batch.count = 0
  BY DEF Init, NoBatch
<1> QED
  BY <1>1, <1>2, <1>3, <1>4, <1>5 DEF SnapInv

\* Every action keeps the invariant.
LEMMA NextSnap == SnapInv /\ [Next]_vars => SnapInv'
<1> SUFFICES ASSUME SnapInv, [Next]_vars PROVE SnapInv'
  OBVIOUS
<1>a. IInv /\ IInv'
  BY NextIInv DEF SnapInv
<1>0. /\ work.live \subseteq Products /\ db.live \subseteq Products /\ rev + 1 \in Nat
      /\ db \in Db /\ work \in Db /\ today \in Days
  BY <1>a DEF IInv, ViewOK, Db
<1>b. batch.kind # "none" => batch.date \in Days
  BY <1>a, SaleDay
<1>c. /\ today \in Nat /\ {} \in SUBSET (1..today)
      /\ batch.kind # "none" => {batch.date} \in SUBSET (1..today)
  BY <1>0, <1>a DEF IInv, BatchOK, Days
<1>1. CASE CreateProduct
  <2>1. PICK p \in Products, q \in Quantities, unit \in Units, buy \in Prices, sell \in Prices :
          CommitProduct(p, WriteProduct(db, batch.date, p, q, unit, buy, sell, TRUE))
    BY <1>1 DEF CreateProduct
  <2> DEFINE w == WriteProduct(db, batch.date, p, q, unit, buy, sell, TRUE)
  <2>2. Writing(db, batch.date, today) /\ batch.date \in Days
    BY <1>a, <2>1, ProductWriting DEF CommitProduct
  <2>3. q \in Nat /\ unit \in {"dona", "kg"} /\ buy \in Nat /\ sell \in Nat
    BY InputAssumption
  <2>4. w \in Db
    BY <2>2, <2>3, WriteProductOK DEF ViewOK
  <2>5. Touches(w, db, p, {batch.date})
    BY <1>0, <2>2, WriteProductTouches
  <2> QED
    BY <1>a, <2>1, <2>4, <2>5, ProductSnap
<1>2. CASE UpdateProduct
  <2>1. PICK p \in db.live,
             pay \in [quantity : Quantities \cup {None}, unit : Units \cup {None},
                     buy : Prices \cup {None}, sell : Prices \cup {None}] :
          CommitProduct(p, Edited(db, rev + 1, batch.date, p, pay))
    BY <1>2 DEF UpdateProduct
  <2> DEFINE w == Edited(db, rev + 1, batch.date, p, pay)
  <2>2. Writing(db, batch.date, today) /\ batch.date \in Days
    BY <1>a, <2>1, ProductWriting DEF CommitProduct
  <2>3. pay \in Pay
    BY InputAssumption DEF Pay
  <2>4. w \in Db
    BY <1>0, <2>2, <2>3, EditedOK DEF ViewOK
  <2>5. Touches(w, db, p, {batch.date})
    BY <1>0, <2>2, EditedTouches
  <2> QED
    BY <1>0, <1>a, <2>1, <2>4, <2>5, ProductSnap
<1>3. CASE Restock
  <2>1. PICK p \in db.live, q \in Deltas :
          CommitProduct(p, Restocked(db, batch.date, p, NormalizeQuantity(q, db.product[p].unit)))
    BY <1>3 DEF Restock
  <2> DEFINE delta == NormalizeQuantity(q, db.product[p].unit)
             w     == Restocked(db, batch.date, p, delta)
  <2>2. WritingOf(db, p, batch.date, batch.date, today) /\ batch.date \in Days
    BY <1>0, <1>a, <2>1, ProductWriting, WritingEach DEF CommitProduct
  <2>3. delta \in Nat
    BY InputAssumption, NormalizeRange
  <2>6. CommitProduct(p, w)
    BY <2>1
  <2> HIDE DEF delta
  <2>4. w \in Db
    BY <1>0, <2>2, <2>3, RestockedOK DEF ViewOK
  <2>5. Touches(w, db, p, {batch.date})
    BY <1>0, <2>2, ReceivedTouches DEF Restocked
  <2> QED
    BY <1>0, <1>a, <2>4, <2>5, <2>6, ProductSnap
<1>4. CASE RemoveProduct
  <2>1. PICK p \in db.live :
          CommitDb([db EXCEPT !.live = @ \ {p}, !.tombs = @ \cup {p},
                              !.product[p] = NoProduct])
    BY <1>4 DEF RemoveProduct
  <2>7. batch' = batch /\ today' = today
    BY <1>4 DEF RemoveProduct
  <2> DEFINE w == [db EXCEPT !.live = @ \ {p}, !.tombs = @ \cup {p},
                             !.product[p] = NoProduct]
  <2>2. /\ w.snapshot = db.snapshot /\ w.procured = db.procured
        /\ w.entered = db.entered /\ w.entry = db.entry
    BY <1>0 DEF Db
  <2>3. CommitDb(w)
    BY <2>1
  <2> HIDE DEF w
  <2>4. Touches(w, db, p, {}) /\ Rebuilds(w, w, {}, {})
    BY <2>2 DEF Touches, Rebuilds
  <2>5. \A d \in Days : Made(w, d) /\ DerivedDay(w, d)
    BY <2>4, CleanDay DEF SnapInv
  <2>6. Blank(w, today)
    BY <1>c, <2>4, BlankKept DEF SnapInv
  <2> QED
    BY <1>a, <2>3, <2>5, <2>6, <2>7, CleanCommit
<1>5. CASE RebuildSnapshot
  <2>0. PICK n \in 1..today :
          CommitDb(Recompute(db, {n}, {})) /\ UNCHANGED <<batch, today>>
    BY <1>5 DEF RebuildSnapshot
  <2> DEFINE u == Recompute(db, {n}, {})
  <2>1. CommitDb(u) /\ UNCHANGED <<batch, today>>
    BY <2>0
  <2>2. Rebuilds(u, db, {n}, {})
    BY <1>0, RecomputeRebuilds
  <2> HIDE DEF u
  <2>3. ASSUME NEW d \in Days PROVE Made(u, d) /\ DerivedDay(u, d)
    <3>1. Rebuilt(u, d, {}) = Rebuilt(db, d, {})
      <4>1. RowsBut(u, d, {}) = RowsBut(db, d, {}) /\ u.procured = db.procured
        BY <2>2 DEF Rebuilds, RowsBut, BuildSnapshotItem
      <4> QED
        BY <4>1, FullRebuild
    <3>2. u.entered = db.entered /\ Rebuilt(db, d, {}).made
      BY <2>2 DEF Rebuilds, Rebuilt
    <3>3. u.snapshot[d] = IF d = n THEN Rebuilt(db, d, {}) ELSE db.snapshot[d]
      BY <2>2 DEF Rebuilds
    <3> QED
      BY <3>1, <3>2, <3>3 DEF SnapInv, Made, DerivedDay
  <2>4. \A p : Touches(db, db, p, {})
    BY DEF Touches
  <2>5. Blank(u, today)
    BY <1>c, <2>2, <2>4, BlankKept DEF SnapInv
  <2> QED
    BY <1>a, <2>1, <2>3, <2>5, CleanCommit
<1>6. CASE BeginBatch
  <2>1. Idle /\ batch'.kind # "none" /\ UNCHANGED <<db, work, today, rev>>
    BY <1>6 DEF BeginBatch
  <2>2. work = db
    BY <1>a, <2>1 DEF IInv, Idle
  <2>3. \A d \in Days : ItemsFit(db, d, batch'.touched)
    BY DerivedFits DEF SnapInv
  <2> QED
    BY <1>a, <2>1, <2>2, <2>3 DEF SnapInv
<1>7. CASE OpenItem
  <2>1. PICK p \in work.live, start \in Quantities, current \in Quantities :
          /\ batch.kind = "opening"
          /\ work' = Opened(work, rev + 1, batch.date, p, start, current)
          /\ NextItem(p, 0)
    BY <1>7 DEF OpenItem
  <2>2. Touches(work', work, p, {batch.date})
    BY <1>0, <1>b, <2>1, OpenedTouches
  <2> QED
    BY <1>0, <1>a, <2>1, <2>2, PlainItemSnap
<1>8. CASE CountItem
  <2>1. PICK p \in work.live, current \in Quantities, revenue \in Amounts \cup {None} :
          /\ batch.kind = "count"
          /\ work' = Counted(work, rev + 1, batch.date, p, current, revenue)
          /\ NextItem(p, 0)
    BY <1>8 DEF CountItem
  <2>2. Touches(work', work, p, {batch.date})
    BY <1>0, <1>b, <2>1, CountedTouches
  <2> QED
    BY <1>0, <1>a, <2>1, <2>2, PlainItemSnap
<1>9. CASE SaleLine
  <2>1. PICK p \in work.live, q \in Deltas, amount \in Amounts \cup {None} :
          LET money == Given(amount, q * EntryOr(work, p, batch.date).sell) IN
          /\ batch.kind = "sale"
          /\ work' = SoldLine(work, batch.date, batch.late, p, q, money)
          /\ NextItem(p, 0)
    BY <1>9 DEF SaleLine
  <2> DEFINE money == Given(amount, q * EntryOr(work, p, batch.date).sell)
             later == Shifted(work, batch.date, batch.late, p)
             days  == later \cup {batch.date}
  <2>2. /\ batch.kind # "none" /\ p \in Products /\ NextItem(p, 0)
        /\ work' = SoldLine(work, batch.date, batch.late, p, q, money)
        /\ work \in Db /\ batch.date \in Days
    BY <1>0, <1>b, <2>1
  <2> HIDE DEF money
  <2>3. \E w : /\ Touches(w, work, p, days)
               /\ Rebuilds(SoldLine(work, batch.date, batch.late, p, q, money),
                           w, later, {p})
    BY <2>2, SoldLineTouches
  <2>4. PICK w : Touches(w, work, p, days) /\ Rebuilds(work', w, later, {p})
    BY <2>2, <2>3
  <2>5. days \ {batch.date} \subseteq later
    OBVIOUS
  <2>6. days \in SUBSET (1..today)
    <3>1. work.entered[p] \subseteq 1..today
      BY <1>a, <1>b, <2>2 DEF IInv, ViewOK, UpTo, Reach, Last, BatchOK, Days
    <3> QED
      BY <1>c, <2>2, <3>1 DEF Shifted
  <2> HIDE DEF later, days
  <2> QED
    BY <1>a, <2>2, <2>4, <2>5, <2>6, ItemSnap
<1>10. CASE PurchaseItem
  <2>1. PICK p \in work.live, q \in Deltas, buy \in Prices :
          /\ batch.kind = "purchase"
          /\ work' = Purchased(work, rev + 1, batch.date, p, q, buy)
          /\ NextItem(p, q * buy)
    BY <1>10 DEF PurchaseItem
  <2>2. Touches(work', work, p, {batch.date})
    BY <1>0, <1>b, <2>1, ReceivedTouches DEF Purchased
  <2> QED
    BY <1>0, <1>a, <2>1, <2>2, PlainItemSnap
<1>11. CASE PurchaseNew
  <2>1. PICK p \in Products, q \in Deltas, unit \in Units, buy \in Prices,
             sell \in Prices \cup {None} :
          /\ batch.kind = "purchase"
          /\ work' = Recompute(WriteProduct(work, today, p, q, unit, buy,
                                            Given(sell, buy), FALSE),
                               {today}, {p})
          /\ NextItem(p, q * buy)
    BY <1>11 DEF PurchaseNew
  <2> DEFINE w == WriteProduct(work, today, p, q, unit, buy, Given(sell, buy), FALSE)
  <2>2. Writing(work, today, today)
    BY <1>a, <2>1, PurchaseWriting
  <2>3. q \in Nat /\ buy \in Nat /\ unit \in {"dona", "kg"} /\ Given(sell, buy) \in Nat
    BY InputAssumption DEF Given
  <2>4. w \in Db
    BY <2>2, <2>3, WriteProductOK DEF ViewOK
  <2>5. Touches(w, work, p, {today})
    BY <1>0, WriteProductTouches
  <2>6. work' = Recompute(w, {today}, {p})
    BY <2>1
  <2> HIDE DEF w
  <2>7. Rebuilds(work', w, {today}, {p})
    BY <2>4, <2>6, RecomputeRebuilds
  <2>8. {today} \in SUBSET (1..today)
    BY <1>0, <1>c DEF Days
  <2> QED
    BY <1>a, <2>1, <2>5, <2>7, <2>8, ItemSnap
<1>12. CASE CommitBatch
  <2> DEFINE w == [work EXCEPT !.procured[batch.date] = @ + batch.cost]
             u == Recompute(w, {batch.date}, batch.touched)
  <2>1. CommitDb(u) /\ today' = today /\ batch' = NoBatch
    BY <1>12 DEF CommitBatch
  <2>2. /\ w.entered = work.entered /\ w.entry = work.entry /\ w.snapshot = work.snapshot
        /\ \A d \in Days : d # batch.date => w.procured[d] = work.procured[d]
    BY <1>0 DEF Db
  <2>3. /\ u.entered = w.entered /\ u.entry = w.entry /\ u.procured = w.procured
        /\ u.snapshot = [d \in Days |-> IF d \in {batch.date}
                                        THEN Rebuilt(w, d, batch.touched)
                                        ELSE w.snapshot[d]]
    BY <1>0 DEF Recompute, Db
  <2> HIDE DEF u, w
  <2>4. ASSUME NEW d \in Days PROVE Made(u, d) /\ DerivedDay(u, d)
    <3>1. RowsBut(u, d, {}) = RowsBut(work, d, {})
      BY <2>2, <2>3 DEF RowsBut, BuildSnapshotItem
    <3>2. RowsBut(w, d, {}) = RowsBut(work, d, {})
      BY <2>2 DEF RowsBut, BuildSnapshotItem
    <3>3. RowsBut(w, d, batch.touched) = RowsBut(work, d, batch.touched)
      BY <2>2 DEF RowsBut, BuildSnapshotItem
    <3>4. CASE d = batch.date
      <4>1. ItemsFit(w, d, batch.touched)
        BY <2>2, <3>3, <3>4 DEF SnapInv, ItemsFit
      <4>2. u.snapshot[d] = Rebuilt(w, d, {})
        BY <2>3, <3>4, <4>1, IncrementalIsFull
      <4>3. Rebuilt(u, d, {}) = Rebuilt(w, d, {})
        <5>1. RowsBut(u, d, {}) = RowsBut(w, d, {}) /\ u.procured = w.procured
          BY <2>3, <3>1, <3>2
        <5> QED
          BY <5>1, FullRebuild
      <4>4. Rebuilt(w, d, {}).made
        BY DEF Rebuilt
      <4> QED
        BY <4>2, <4>3, <4>4 DEF Made, DerivedDay
    <3>5. CASE d # batch.date
      <4>1. u.snapshot[d] = work.snapshot[d] /\ u.procured[d] = work.procured[d]
        BY <2>2, <2>3, <3>5
      <4>2. Rebuilt(u, d, {}) = Rebuilt(work, d, {})
        BY <3>1, <4>1, FullRebuild
      <4>3. Made(work, d) /\ DerivedDay(work, d)
        BY <3>5 DEF SnapInv
      <4> QED
        BY <2>2, <2>3, <4>1, <4>2, <4>3 DEF Made, DerivedDay
    <3> QED
      BY <3>4, <3>5
  <2>5. batch.kind # "none"
    BY <1>12 DEF CommitBatch, SnapInv
  <2>6. Blank(u, today)
    <3>1. ASSUME NEW p PROVE Touches(w, work, p, {batch.date})
      BY <2>2 DEF Touches
    <3>2. Rebuilds(u, w, {batch.date}, batch.touched)
      BY <2>3 DEF Rebuilds
    <3> QED
      BY <1>c, <2>5, <3>1, <3>2, BlankKept DEF SnapInv
  <2> QED
    BY <1>a, <2>1, <2>4, <2>6, CleanCommit
<1>13. CASE AbortBatch
  <2>1. work' = db /\ db' = db /\ today' = today /\ batch'.count = 0
    BY <1>13 DEF AbortBatch, NoBatch
  <2>2. \A d \in Days : ItemsFit(db, d, batch'.touched)
    BY DerivedFits DEF SnapInv
  <2> QED
    BY <1>a, <2>1, <2>2 DEF SnapInv
<1>14. CASE NextDay
  <2>1. today' = today + 1 /\ db' = db /\ work' = work /\ batch' = batch
    BY <1>14 DEF NextDay
  <2>2. Blank(db, today + 1) /\ Blank(work, today + 1)
    BY <1>c DEF SnapInv, Blank, Days
  <2> QED
    BY <1>a, <2>1, <2>2 DEF SnapInv
<1>15. CASE UNCHANGED vars
  BY <1>a, <1>15 DEF vars, SnapInv
<1> QED
  BY <1>1, <1>2, <1>3, <1>4, <1>5, <1>6, <1>7, <1>8, <1>9, <1>10, <1>11, <1>12,
     <1>13, <1>14, <1>15 DEF Next

\* The snapshots' invariant holds in every behaviour.
THEOREM SnapshotInvariance == Spec => []SnapInv
BY InitSnap, NextSnap, PTL DEF Spec

\* Every day with an entry has a snapshot, and whatever operations built a
\* snapshot incrementally, or shifted its day from an earlier one, it is what a
\* full rebuild from the day's entries and procurements gives
\* (snapshotService.recompute).
THEOREM SnapshotsAreDerived == Spec => []SnapshotDerived
<1>1. SnapInv => SnapshotDerived
  BY DEF SnapInv, Made, DerivedDay, SnapshotDerived
<1> QED
  BY <1>1, SnapshotInvariance, PTL

-----------------------------------------------------------------------------
(* Units are conserved.                                                    *)

\* What the days of p have sold adds up the entries' figures: one entry written moves the
\* sum by what its own figure moves.
LEMMA SoldMoves ==
  ASSUME NEW s \in Db, NEW w \in Db, Accounts(s), NEW p \in Products, NEW d \in Days,
         w.entered[p] = s.entered[p] \cup {d},
         \A d2 \in s.entered[p] \ {d} : Sold(w.entry[p][d2]) = Sold(s.entry[p][d2])
  PROVE  /\ SoldInAll(s, p) \in Int
         /\ SoldInAll(w, p) = SoldInAll(s, p) + (Sold(w.entry[p][d]) - Sold(s.entry[p][d]))
<1> DEFINE S == s.entered[p]
           f == [d2 \in S |-> Sold(s.entry[p][d2])]
           e == [d2 \in S \cup {d} |-> Sold(w.entry[p][d2])]
<1>1. S \subseteq Days /\ IsFiniteSet(S)
  <2>1. S \subseteq Days
    BY DEF Db
  <2>2. MaxDay \in Int /\ 1 \in Int
    BY BoundsAssumption
  <2>3. IsFiniteSet(Days)
    BY <2>2, FS_Interval DEF Days
  <2> QED BY <2>1, <2>3, FS_Subset
<1>2. \A d2 \in Days : Sold(s.entry[p][d2]) \in Int /\ Sold(w.entry[p][d2]) \in Int
  <2>1. \A d2 \in Days : s.entry[p][d2] \in Entry /\ w.entry[p][d2] \in Entry
    BY DEF Db
  <2> QED BY <2>1, FiguresType
<1>3. SoldInAll(s, p) = SumFunctionOnSet(f, S)
  BY DEF SoldInAll, SumFunction
<1>4. SoldInAll(w, p) = SumFunctionOnSet(e, S \cup {d})
  BY DEF SoldInAll, SumFunction
<1>5. (\A x \in S : f[x] \in Int /\ f[x] = Sold(s.entry[p][x])) /\ \A x \in S \cup {d} : e[x] \in Int
  BY <1>1, <1>2
<1>6. e[d] = Sold(w.entry[p][d]) /\ \A x \in S \ {d} : e[x] = f[x]
  OBVIOUS
<1> HIDE DEF S, e, f
<1>7. SoldInAll(s, p) \in Int
  BY <1>1, <1>3, <1>5, SumStep
<1>8. CASE d \in S
  <2>1. S \cup {d} = S
    BY <1>8
  <2>2. SumFunctionOnSet(e, S) = SumFunctionOnSet(f, S) + (e[d] - f[d])
    BY <1>1, <1>5, <1>6, <1>8, SumChange
  <2> QED BY <1>3, <1>4, <1>5, <1>6, <1>7, <1>8, <2>1, <2>2
<1>9. CASE d \notin S
  <2>1. SumFunctionOnSet(e, S \cup {d}) = SumFunctionOnSet(e, S) + e[d]
    BY <1>1, <1>5, <1>9, SumAdd
  <2>2. \A x \in S : e[x] = f[x] /\ f[x] \in Int
    BY <1>5, <1>6, <1>9
  <2>3. SumFunctionOnSet(e, S) = SumFunctionOnSet(f, S)
    BY <1>1, <2>2, SumSame
  <2>4. Sold(s.entry[p][d]) = 0
    <3>1. s.entry[p][d] = NoEntry
      BY <1>9 DEF Accounts, S
    <3> QED BY <3>1 DEF NoEntry, Sold, NewSold
  <2> QED BY <1>2, <1>3, <1>4, <1>6, <1>7, <2>1, <2>3, <2>4
<1> QED BY <1>7, <1>8, <1>9


\* What is on hand and sold of p, less what came in.
Balance(s, p) == s.product[p].qty + SoldInAll(s, p) - s.received[p]

\* p was counted at revision r, or its epoch and its balance are what they were.
Steady(w, s, p, r) ==
  \/ w.product[p].epoch = r
  \/ w.product[p].epoch = s.product[p].epoch /\ Balance(w, p) = Balance(s, p)

\* No product was counted after revision r.
EpochsUpTo(s, r) == \A p \in Products : s.product[p].epoch <= r

\* The day's entry of p reports what the trail says; without one both say nothing.
LEMMA TrailSold ==
  ASSUME NEW s \in Db, Accounts(s), NEW p \in Products, NEW d \in Days
  PROVE  /\ Sold(s.entry[p][d]) = s.trail[p][d].sold /\ s.trail[p][d].sold \in Int
         /\ s.received[p] \in Int /\ s.product[p].qty \in Nat /\ s.product[p].epoch \in Nat
<1>1. s.trail[p][d] \in Trail /\ s.product[p] \in Product /\ s.received[p] \in Int
  BY DEF Db
<1>2. CASE d \in s.entered[p]
  BY <1>1, <1>2 DEF Accounts, Matches, Trail, Product
<1>3. CASE d \notin s.entered[p]
  <2>1. s.entry[p][d] = NoEntry /\ s.trail[p][d].sold = 0
    BY <1>3 DEF Accounts
  <2>2. Sold(NoEntry) = 0
    BY DEF NoEntry, Sold, NewSold
  <2> QED BY <1>1, <2>1, <2>2 DEF Product
<1> QED BY <1>2, <1>3

\* An untouched product keeps its balance.
LEMMA BalanceKept ==
  ASSUME NEW s \in Db, NEW w \in Db, NEW p \in Products, w.product[p] = s.product[p],
         w.received[p] = s.received[p],
         \A d \in Days : /\ d \in w.entered[p] <=> d \in s.entered[p]
                         /\ Sold(w.entry[p][d]) = Sold(s.entry[p][d])
  PROVE  Balance(w, p) = Balance(s, p)
<1>1. w.entered[p] = s.entered[p] /\ s.entered[p] \subseteq Days
  BY DEF Db
<1>2. [d \in w.entered[p] |-> Sold(w.entry[p][d])] = [d \in s.entered[p] |-> Sold(s.entry[p][d])]
  BY <1>1
<1>3. SoldInAll(w, p) = SoldInAll(s, p)
  BY <1>2, Zenon DEF SoldInAll
<1> QED BY <1>3 DEF Balance

\* An operation on day d of p, which may shift what other days of p have left.
LEMMA OneProduct ==
  ASSUME NEW s \in Db, NEW w \in Db, Accounts(s), Accounts(w),
         NEW p \in Products, NEW d \in Days, NEW r \in Nat,
         d \in w.entered[p],
         \A p2 \in Products, d2 \in Days : p2 # p =>
           /\ d2 \in w.entered[p2] <=> d2 \in s.entered[p2]
           /\ w.entry[p2][d2] = s.entry[p2][d2],
         \A d2 \in Days : d2 # d =>
           /\ d2 \in w.entered[p] <=> d2 \in s.entered[p]
           /\ Sold(w.entry[p][d2]) = Sold(s.entry[p][d2]),
         \A p2 \in Products : p2 # p =>
           w.product[p2] = s.product[p2] /\ w.received[p2] = s.received[p2],
         p \in s.live \cap w.live =>
           \/ w.product[p].epoch = r
           \/ /\ w.product[p].epoch = s.product[p].epoch
              /\ w.product[p].qty + w.trail[p][d].sold - w.received[p]
                   = s.product[p].qty + s.trail[p][d].sold - s.received[p]
  PROVE  \A p2 \in s.live \cap w.live : Steady(w, s, p2, r)
<1> SUFFICES ASSUME NEW p2 \in s.live \cap w.live PROVE Steady(w, s, p2, r)
  OBVIOUS
<1>0. p2 \in Products
  BY DEF Db
<1>1. CASE p2 # p
  <2>1. Balance(w, p2) = Balance(s, p2)
    BY <1>0, <1>1, BalanceKept
  <2> QED BY <1>0, <1>1, <2>1 DEF Steady
<1>2. CASE p2 = p /\ w.product[p].epoch = r
  BY <1>2 DEF Steady
<1>3. CASE p2 = p /\ w.product[p].epoch # r
  <2>1. w.entered[p] = s.entered[p] \cup {d} /\ s.entered[p] \subseteq Days
    <3>1. w.entered[p] \subseteq Days /\ s.entered[p] \subseteq Days
      BY DEF Db
    <3> QED BY <3>1
  <2>2. SoldInAll(s, p) \in Int
        /\ SoldInAll(w, p) = SoldInAll(s, p) + (Sold(w.entry[p][d]) - Sold(s.entry[p][d]))
    BY <2>1, SoldMoves
  <2>3. /\ Sold(w.entry[p][d]) = w.trail[p][d].sold /\ w.trail[p][d].sold \in Int
        /\ w.received[p] \in Int /\ w.product[p].qty \in Nat
        /\ Sold(s.entry[p][d]) = s.trail[p][d].sold /\ s.trail[p][d].sold \in Int
        /\ s.received[p] \in Int /\ s.product[p].qty \in Nat
    BY TrailSold
  <2>4. /\ w.product[p].epoch = s.product[p].epoch
        /\ w.product[p].qty + w.trail[p][d].sold - w.received[p]
             = s.product[p].qty + s.trail[p][d].sold - s.received[p]
    BY <1>3
  <2>5. Balance(w, p) = Balance(s, p)
    BY <2>2, <2>3, <2>4 DEF Balance
  <2> QED BY <1>3, <2>4, <2>5 DEF Steady
<1> QED BY <1>1, <1>2, <1>3

\* What storing leaves in the fields the balances are made of.
LEMMA StoreEffect ==
  ASSUME NEW s \in Db, NEW p \in Products, NEW d \in Days, NEW pr, NEW e, NEW a
  PROVE  LET w == Store(s, p, d, pr, e, a)
         IN  /\ w.live = s.live /\ w.received = s.received
             /\ \A p2 \in Products : w.product[p2] = IF p2 = p THEN pr ELSE s.product[p2]
             /\ d \in w.entered[p] /\ w.trail[p][d] = a
<1> DEFINE w == Store(s, p, d, pr, e, a)
<1>1. /\ s.product \in [Products -> Product] /\ s.entered \in [Products -> SUBSET Days]
      /\ s.trail \in [Products -> [Days -> Trail]]
  BY DEF Db
<1>2. /\ w.live = s.live /\ w.received = s.received
      /\ w.product = [s.product EXCEPT ![p] = pr]
      /\ w.entered = [s.entered EXCEPT ![p] = @ \cup {d}]
      /\ w.trail = [s.trail EXCEPT ![p][d] = a]
  BY DEF Store, Db
<1> HIDE DEF w
<1>3. \A p2 \in Products : w.product[p2] = IF p2 = p THEN pr ELSE s.product[p2]
  BY <1>1, <1>2
<1>4. d \in w.entered[p]
  BY <1>1, <1>2
<1>5. w.trail[p][d] = a
  BY <1>1, <1>2
<1> QED BY <1>2, <1>3, <1>4, <1>5 DEF w

\* An operation that stores one entry of p and may count goods in.
LEMMA OneEntry ==
  ASSUME NEW s \in Db, NEW w \in Db, Accounts(s), Accounts(w),
         NEW p \in Products, NEW d \in Days, NEW r \in Nat, NEW a,
         Touches(w, s, p, {d}), d \in w.entered[p], w.trail[p][d] = a,
         \A p2 \in Products : p2 # p =>
           w.product[p2] = s.product[p2] /\ w.received[p2] = s.received[p2],
         p \in s.live \cap w.live =>
           \/ w.product[p].epoch = r
           \/ /\ w.product[p].epoch = s.product[p].epoch
              /\ w.product[p].qty + a.sold - w.received[p]
                   = s.product[p].qty + s.trail[p][d].sold - s.received[p]
  PROVE  \A p2 \in s.live \cap w.live : Steady(w, s, p2, r)
<1>1. \A p2 \in Products, d2 \in Days : p2 # p =>
           /\ d2 \in w.entered[p2] <=> d2 \in s.entered[p2]
           /\ w.entry[p2][d2] = s.entry[p2][d2]
  BY DEF Touches
<1>2. \A d2 \in Days : d2 # d =>
           /\ d2 \in w.entered[p] <=> d2 \in s.entered[p]
           /\ Sold(w.entry[p][d2]) = Sold(s.entry[p][d2])
  BY DEF Touches
<1> QED BY <1>1, <1>2, OneProduct


\* An operation of revision r: each product stays steady or is counted at r.
UnitsOK(w, s, r) ==
  /\ s.live \subseteq w.live
  /\ \A p \in s.live \cap w.live : Steady(w, s, p, r)
  /\ EpochsUpTo(w, r)

\* Rebuilt snapshots do not count.
LEMMA RecomputeUnits ==
  ASSUME NEW w \in Db, NEW s, NEW r, UnitsOK(w, s, r), NEW days, NEW ids
  PROVE  UnitsOK(Recompute(w, days, ids), s, r)
<1> DEFINE u == Recompute(w, days, ids)
<1>1. /\ u.live = w.live /\ u.product = w.product /\ u.entered = w.entered
      /\ u.entry = w.entry /\ u.received = w.received
  BY DEF Recompute, Db
<1> HIDE DEF u
<1>2. \A p : SoldInAll(u, p) = SoldInAll(w, p)
  BY <1>1 DEF SoldInAll
<1>3. \A p : Balance(u, p) = Balance(w, p)
  BY <1>1, <1>2 DEF Balance
<1>4. UnitsOK(u, s, r)
  BY <1>1, <1>3 DEF UnitsOK, Steady, EpochsUpTo
<1> QED BY <1>4 DEF u

\* A new product: the others are not touched.
LEMMA WriteProductUnits ==
  ASSUME NEW s, NEW d, NEW t, Writing(s, d, t), MoneyOK(s, t), NEW r \in Nat, EpochsUpTo(s, r),
         NEW p \in Products \ s.live, NEW q \in Nat, NEW unit \in {"dona", "kg"},
         NEW buy \in Nat, NEW sell \in Nat, NEW receipt \in BOOLEAN
  PROVE  UnitsOK(WriteProduct(s, d, p, q, unit, buy, sell, receipt), s, r)
<1> DEFINE qty == NormalizeQuantity(q, unit)
           pr  == [qty |-> qty, unit |-> unit, buy |-> buy, sell |-> sell, epoch |-> 0]
           put == Store(s, p, d, pr, FreshEntry(pr, qty), FirstTrail(qty))
           w   == WriteProduct(s, d, p, q, unit, buy, sell, receipt)
<1>0. s \in Db /\ d \in Days /\ w \in Db /\ Accounts(s) /\ Accounts(w)
  BY WriteProductOK, WriteProductMoney DEF Writing, ViewOK, MoneyOK
<1>1. Touches(w, s, p, {d})
  BY <1>0, WriteProductTouches
<1>2. /\ put.live = s.live /\ put.received = s.received
      /\ \A p2 \in Products : put.product[p2] = IF p2 = p THEN pr ELSE s.product[p2]
      /\ d \in put.entered[p] /\ put.trail[p][d] = FirstTrail(qty)
  BY <1>0, StoreEffect
<1>3. /\ w.live = put.live \cup {p} /\ w.product = put.product
      /\ w.entered = put.entered /\ w.trail = put.trail
      /\ w.received = [put.received EXCEPT ![p] = qty]
  BY DEF WriteProduct, Store, Db
<1>4. pr.epoch = 0
  OBVIOUS
<1> HIDE DEF w, put, pr, qty
<1>5. \A p2 \in Products : p2 # p =>
        w.product[p2] = s.product[p2] /\ w.received[p2] = s.received[p2]
  <2>1. s.received \in [Products -> Int]
    BY <1>0 DEF Db
  <2> QED BY <1>2, <1>3, <2>1
<1>6. \A p2 \in s.live \cap w.live : Steady(w, s, p2, r)
  <2>1. d \in w.entered[p] /\ w.trail[p][d] = FirstTrail(qty) /\ p \notin s.live
    BY <1>2, <1>3
  <2> QED BY <1>0, <1>1, <1>5, <2>1, OneEntry
<1>7. EpochsUpTo(w, r)
  BY <1>2, <1>3, <1>4 DEF EpochsUpTo
<1>8. UnitsOK(w, s, r)
  BY <1>2, <1>3, <1>6, <1>7 DEF UnitsOK
<1> QED BY <1>8 DEF w

\* What storing means for the units: the row pr and the units sold in a.
LEMMA StoreUnits ==
  ASSUME NEW s \in Db, Accounts(s), NEW r \in Nat, EpochsUpTo(s, r), NEW p \in s.live, NEW d \in Days,
         NEW pr \in Product, NEW e, NEW a, pr.epoch <= r,
         NEW w, w = Store(s, p, d, pr, e, a), w \in Db, Accounts(w),
         \/ pr.epoch = r
         \/ /\ pr.epoch = s.product[p].epoch
            /\ pr.qty + a.sold = s.product[p].qty + s.trail[p][d].sold
  PROVE  UnitsOK(w, s, r)
<1>0. p \in Products
  BY DEF Db
<1>1. /\ w.live = s.live /\ w.received = s.received
      /\ \A p2 \in Products : w.product[p2] = IF p2 = p THEN pr ELSE s.product[p2]
      /\ d \in w.entered[p] /\ w.trail[p][d] = a
  BY <1>0, StoreEffect
<1>2. Touches(w, s, p, {d})
  BY <1>0, StoreTouches
<1>3. s.received[p] \in Int /\ s.product[p].qty \in Nat /\ s.trail[p][d].sold \in Int
      /\ a.sold \in Int /\ pr.qty \in Nat
  <2>1. w.trail[p][d].sold \in Int
    BY <1>0, TrailSold
  <2> QED BY <1>0, <1>1, <2>1, TrailSold DEF Product
<1>4. \/ w.product[p].epoch = r
      \/ /\ w.product[p].epoch = s.product[p].epoch
         /\ w.product[p].qty + a.sold - w.received[p]
              = s.product[p].qty + s.trail[p][d].sold - s.received[p]
  BY <1>0, <1>1, <1>3
<1>5. \A p2 \in Products : p2 # p =>
        w.product[p2] = s.product[p2] /\ w.received[p2] = s.received[p2]
  BY <1>1
<1>6. \A p2 \in s.live \cap w.live : Steady(w, s, p2, r)
  BY <1>0, <1>1, <1>2, <1>4, <1>5, OneEntry
<1>7. EpochsUpTo(w, r)
  BY <1>1 DEF EpochsUpTo
<1> QED BY <1>1, <1>6, <1>7 DEF UnitsOK

\* A product edit counts the product or leaves its stock alone.
LEMMA EditedUnits ==
  ASSUME NEW s, NEW d, NEW t, Writing(s, d, t), MoneyOK(s, t), NEW r \in Nat, EpochsUpTo(s, r),
         NEW p \in s.live, NEW pay \in Pay
  PROVE  UnitsOK(Edited(s, r, d, p, pay), s, r)
<1> DEFINE old      == s.product[p]
           explicit == pay.quantity # None
           unit     == Given(pay.unit, old.unit)
           qty      == NormalizeQuantity(Given(pay.quantity, old.qty), unit)
           pr       == [qty     |-> IF explicit THEN qty ELSE old.qty,
                        unit    |-> unit,
                        buy     |-> Given(pay.buy, old.buy),
                        sell    |-> Given(pay.sell, old.sell),
                        epoch   |-> IF explicit /\ qty # old.qty THEN r ELSE old.epoch]
           was      == s.entry[p][d]
           newSell  == pay.sell # None /\ pay.sell # was.sell
           newBuy   == pay.buy # None /\ pay.buy # was.buy
           counted  == IF explicit
                       THEN [was EXCEPT !.start = NewSold(was) + qty, !.current = qty]
                       ELSE was
           frozen   == IF (newSell \/ newBuy) /\ NewSold(was) > 0
                       THEN Freeze(counted) ELSE counted
           next     == IF d \in s.entered[p]
                       THEN [frozen EXCEPT !.sell = IF newSell THEN pay.sell ELSE @,
                                           !.buy  = IF newBuy THEN pay.buy ELSE @]
                       ELSE FreshEntry(pr, qty)
           opening  == IF explicit \/ d \notin s.entered[p]
                       THEN s.trail[p][d].sold + qty ELSE s.trail[p][d].opening
           w        == Edited(s, r, d, p, pay)
           a        == [s.trail[p][d] EXCEPT !.opening = opening]
<1>0. s \in Db /\ d \in Days /\ w \in Db /\ Accounts(s) /\ Accounts(w) /\ p \in Products
  BY EditedOK, EditedMoney DEF Writing, ViewOK, MoneyOK, Db
<1>1. w = Store(s, p, d, pr, next, a)
  BY DEF Edited
<1>2. old \in Product /\ old.qty \in Nat /\ old.epoch \in Nat /\ old.epoch <= r
  BY <1>0 DEF Db, Product, EpochsUpTo
<1>3. pr \in Product
  <2>1. /\ old.unit \in {"dona", "kg"} /\ old.buy \in Nat /\ old.sell \in Nat
        /\ pay.unit \in {"dona", "kg"} \cup {None} /\ pay.buy \in Nat \cup {None}
        /\ pay.sell \in Nat \cup {None} /\ pay.quantity \in Nat \cup {None}
    BY <1>2 DEF Pay, Product
  <2>2. /\ unit \in {"dona", "kg"} /\ Given(pay.buy, old.buy) \in Nat
        /\ Given(pay.sell, old.sell) \in Nat /\ Given(pay.quantity, old.qty) \in Nat
    BY <1>2, <2>1 DEF Given
  <2>3. qty \in Nat
    BY <2>2, NormalizeRange
  <2> HIDE DEF unit, qty, old
  <2> QED BY <1>2, <2>2, <2>3 DEF Product
<1>4. pr.epoch <= r /\ (pr.epoch = r \/ (pr.epoch = old.epoch /\ pr.qty = old.qty))
  <2>1. /\ pr.qty = IF explicit THEN qty ELSE old.qty
        /\ pr.epoch = IF explicit /\ qty # old.qty THEN r ELSE old.epoch
    OBVIOUS
  <2> HIDE DEF pr, qty, old
  <2> QED BY <1>2, <2>1
<1>5. a.sold = s.trail[p][d].sold
  <2>1. s.trail[p][d] \in Trail
    BY <1>0 DEF Db
  <2> QED BY <2>1 DEF Trail
<1> HIDE DEF w, pr, next, a
<1>6. UnitsOK(w, s, r)
  <2>1. \/ pr.epoch = r
        \/ /\ pr.epoch = s.product[p].epoch
           /\ pr.qty + a.sold = s.product[p].qty + s.trail[p][d].sold
    BY <1>4, <1>5
  <2> QED BY <1>0, <1>1, <1>3, <1>4, <2>1, StoreUnits
<1> QED BY <1>6 DEF w

\* What comes in is counted as received.
LEMMA ReceivedUnits ==
  ASSUME NEW s \in Db, Accounts(s), NEW r \in Nat, EpochsUpTo(s, r), NEW p \in s.live, NEW d \in Days,
         NEW delta \in Nat, NEW pr \in Product, pr.epoch <= r, NEW base,
         NEW w, w = Received(s, d, p, delta, pr, base), w \in Db, Accounts(w),
         pr.epoch = r \/ pr.epoch = s.product[p].epoch, pr.qty = s.product[p].qty + delta
  PROVE  UnitsOK(w, s, r)
<1>0. p \in Products
  BY DEF Db
<1> DEFINE next    == IF d \in s.entered[p] THEN Raise(base, delta)
                      ELSE FreshEntry(pr, pr.qty)
           opening == IF d \in s.entered[p] THEN s.trail[p][d].opening + delta ELSE pr.qty
           a       == [s.trail[p][d] EXCEPT !.opening = opening]
           put     == Store(s, p, d, pr, next, a)
<1>1. w = [put EXCEPT !.received[p] = @ + delta]
  BY DEF Received
<1>2. /\ put.live = s.live /\ put.received = s.received
      /\ \A p2 \in Products : put.product[p2] = IF p2 = p THEN pr ELSE s.product[p2]
      /\ d \in put.entered[p] /\ put.trail[p][d] = a
  BY <1>0, StoreEffect
<1>3. /\ w.live = put.live /\ w.product = put.product /\ w.entered = put.entered
      /\ w.trail = put.trail /\ w.received = [put.received EXCEPT ![p] = @ + delta]
  <2>1. ASSUME NEW e, NEW b, NEW u, u = Store(s, p, d, pr, e, b)
        PROVE  LET v == [u EXCEPT !.received[p] = @ + delta]
               IN  /\ v.live = u.live /\ v.product = u.product /\ v.entered = u.entered
                   /\ v.trail = u.trail /\ v.received = [u.received EXCEPT ![p] = @ + delta]
    BY <2>1 DEF Store, Db
  <2>2. PICK e, b : put = Store(s, p, d, pr, e, b)
    OBVIOUS
  <2> HIDE DEF put
  <2> QED
    BY <1>1, <2>1, <2>2
<1>4. a.sold = s.trail[p][d].sold
  <2>1. s.trail[p][d] \in Trail
    BY <1>0 DEF Db
  <2> QED BY <2>1 DEF Trail
<1>5. Touches(w, s, p, {d})
  BY <1>0, ReceivedTouches
<1> HIDE DEF put, a, next
<1>6. s.received \in [Products -> Int] /\ s.product[p].qty \in Nat /\ s.trail[p][d].sold \in Int
  BY <1>0, TrailSold DEF Db
<1>7. /\ w.received[p] = s.received[p] + delta
      /\ \A p2 \in Products : p2 # p =>
           w.product[p2] = s.product[p2] /\ w.received[p2] = s.received[p2]
  BY <1>0, <1>2, <1>3, <1>6
<1>8. w.product[p].qty + a.sold - w.received[p]
        = s.product[p].qty + s.trail[p][d].sold - s.received[p]
  BY <1>0, <1>2, <1>3, <1>4, <1>6, <1>7
<1>9. \A p2 \in s.live \cap w.live : Steady(w, s, p2, r)
  <2>1. d \in w.entered[p] /\ w.trail[p][d] = a /\ w.product[p] = pr
    BY <1>0, <1>2, <1>3
  <2> QED BY <1>0, <1>5, <1>7, <1>8, <2>1, OneEntry
<1>10. EpochsUpTo(w, r)
  BY <1>2, <1>3 DEF EpochsUpTo
<1> QED BY <1>2, <1>3, <1>9, <1>10 DEF UnitsOK

\* A restock is goods that come in.
LEMMA RestockedUnits ==
  ASSUME NEW s, NEW p \in s.live, NEW d, NEW last, NEW t,
         WritingOf(s, p, d, last, t), MoneyOK(s, t), NEW r \in Nat, EpochsUpTo(s, r),
         NEW delta \in Nat
  PROVE  UnitsOK(Restocked(s, d, p, delta), s, r)
<1> DEFINE pr == [s.product[p] EXCEPT !.qty = @ + delta]
           w  == Restocked(s, d, p, delta)
<1>0. s \in Db /\ d \in Days /\ w \in Db /\ Accounts(s) /\ Accounts(w) /\ p \in Products
  BY RestockedOK, RestockedMoney DEF WritingOf, ViewOK, MoneyOK, Db
<1>1. w = Received(s, d, p, delta, pr, s.entry[p][d])
  BY DEF Restocked
<1>2. s.product[p] \in Product /\ s.product[p].epoch <= r
  BY <1>0 DEF Db, EpochsUpTo
<1>3. /\ pr \in Product /\ pr.epoch <= r /\ pr.epoch = s.product[p].epoch
      /\ pr.qty = s.product[p].qty + delta
  BY <1>2 DEF Product
<1> HIDE DEF w, pr
<1>4. UnitsOK(w, s, r)
  BY <1>0, <1>1, <1>3, ReceivedUnits
<1> QED BY <1>4 DEF w

\* A purchase is goods that come in, of the transaction's own epoch.
LEMMA PurchasedUnits ==
  ASSUME NEW s, NEW p \in s.live, NEW d, NEW last, NEW t,
         WritingOf(s, p, d, last, t), MoneyOK(s, t), NEW r \in Nat, EpochsUpTo(s, r),
         NEW delta \in Nat, NEW buy \in Nat
  PROVE  UnitsOK(Purchased(s, r, d, p, delta, buy), s, r)
<1> DEFINE pr   == [s.product[p] EXCEPT !.qty = @ + delta, !.buy = buy, !.epoch = r]
           base == [Freeze(s.entry[p][d]) EXCEPT !.buy = buy]
           w    == Purchased(s, r, d, p, delta, buy)
<1>0. s \in Db /\ d \in Days /\ w \in Db /\ Accounts(s) /\ Accounts(w) /\ p \in Products
  BY PurchasedOK, PurchasedMoney DEF WritingOf, ViewOK, MoneyOK, Db
<1>1. w = Received(s, d, p, delta, pr, base)
  BY DEF Purchased
<1>2. s.product[p] \in Product
  BY <1>0 DEF Db
<1>3. pr \in Product /\ pr.epoch = r /\ pr.qty = s.product[p].qty + delta
  <2>1. s.product[p].qty + delta \in Nat
    BY <1>2 DEF Product
  <2> QED BY <1>2, <2>1 DEF Product
<1> HIDE DEF w, pr, base
<1>4. UnitsOK(w, s, r)
  BY <1>0, <1>1, <1>3, ReceivedUnits
<1> QED BY <1>4 DEF w

\* The opening of a day counts the product.
LEMMA OpenedUnits ==
  ASSUME NEW s, NEW d, NEW t, Writing(s, d, t), MoneyOK(s, t), NEW r \in Nat, EpochsUpTo(s, r),
         NEW p \in s.live, NEW start \in Nat, NEW current \in Nat, current <= start
  PROVE  UnitsOK(Opened(s, r, d, p, start, current), s, r)
<1> DEFINE was  == EntryOr(s, p, d)
           next == [was EXCEPT !.start = start, !.current = current,
                               !.buy = s.product[p].buy, !.sell = s.product[p].sell]
           a    == [sold    |-> Sold(next),
                    revenue |-> Revenue(next),
                    cost    |-> Revenue(next) - Profit(next),
                    opening |-> start + next.lockedSold]
           pr   == AtCount(s.product[p], current, r)
           w    == Opened(s, r, d, p, start, current)
<1>0. s \in Db /\ d \in Days /\ w \in Db /\ Accounts(s) /\ Accounts(w) /\ p \in Products
  BY OpenedOK, OpenedMoney DEF Writing, ViewOK, MoneyOK, Db
<1>1. w = Store(s, p, d, pr, next, a)
  BY DEF Opened
<1>2. s.product[p] \in Product
  BY <1>0 DEF Db
<1>3. pr \in Product /\ pr.epoch = r
  BY <1>2 DEF Product, AtCount
<1> HIDE DEF w, pr, next, a
<1>4. UnitsOK(w, s, r)
  BY <1>0, <1>1, <1>3, StoreUnits
<1> QED BY <1>4 DEF w

\* A count of the day counts the product.
LEMMA CountedUnits ==
  ASSUME NEW s, NEW d, NEW t, Writing(s, d, t), MoneyOK(s, t), NEW r \in Nat, EpochsUpTo(s, r),
         NEW p \in s.live, NEW current \in Nat,
         current <= EntryOr(s, p, d).start, NEW revenue \in Nat \cup {None}
  PROVE  UnitsOK(Counted(s, r, d, p, current, revenue), s, r)
<1> DEFINE was     == EntryOr(s, p, d)
           derived == [was EXCEPT !.current = current]
           restate == revenue # None /\ Sold(derived) > 0
           next    == IF restate
                      THEN [derived EXCEPT
                              !.start         = current,
                              !.lockedSold    = Sold(derived),
                              !.lockedProfit  = was.lockedProfit + revenue
                                                  - was.lockedRevenue
                                                  - NewSold(derived) * was.buy,
                              !.lockedRevenue = revenue]
                      ELSE derived
           gone    == was.current - current
           l       == s.trail[p][d]
           a       == [sold    |-> l.sold + gone,
                       revenue |-> IF restate THEN revenue ELSE l.revenue + gone * was.sell,
                       cost    |-> l.cost + gone * was.buy,
                       opening |-> IF d \in s.entered[p] THEN l.opening ELSE was.start]
           pr      == AtCount(s.product[p], current, r)
           w       == Counted(s, r, d, p, current, revenue)
<1>0. s \in Db /\ d \in Days /\ w \in Db /\ Accounts(s) /\ Accounts(w) /\ p \in Products
  BY CountedOK, CountedMoney DEF Writing, ViewOK, MoneyOK, Db
<1>1. w = Store(s, p, d, pr, next, a)
  BY DEF Counted
<1>2. s.product[p] \in Product
  BY <1>0 DEF Db
<1>3. pr \in Product /\ pr.epoch = r
  BY <1>2 DEF Product, AtCount
<1> HIDE DEF w, pr, next, a
<1>4. UnitsOK(w, s, r)
  BY <1>0, <1>1, <1>3, StoreUnits
<1> QED BY <1>4 DEF w

\* A sale, on the writer's day or late, takes from the stock what it adds to the sales.
LEMMA SoldLineUnits ==
  ASSUME NEW s, NEW last, NEW t, ViewOK(s, last, t), MoneyOK(s, t),
         NEW d \in Days, d \in 1..last,
         NEW late \in BOOLEAN,
         late => last = t /\ t \in Days /\ d < t,
         ~late => last = d /\ (t = d \/ t \notin 1..d),
         NEW p \in s.live, NEW q \in Nat, NEW charged \in Nat,
         q <= EntryOr(s, p, d).current, q <= s.product[p].qty,
         late => LaterDaysHold(s, p, d, q),
         ~late => ProjectionsAgree(s, p, d),
         NEW r \in Nat, EpochsUpTo(s, r)
  PROVE  UnitsOK(SoldLine(s, d, late, p, q, charged), s, r)
<1> DEFINE was     == EntryOr(s, p, d)
           next    == AfterSale(was, q, charged)
           later   == {d2 \in s.entered[p] : late /\ d2 > d}
           row     == [d2 \in Days |-> IF d2 \in later THEN Shift(s.entry[p][d2], q)
                                       ELSE s.entry[p][d2]]
           log     == [d2 \in Days |-> IF d2 \in later
                                       THEN [s.trail[p][d2] EXCEPT !.opening = @ - q]
                                       ELSE s.trail[p][d2]]
           shifted == [s EXCEPT !.entry[p] = row, !.trail[p] = log]
           a       == s.trail[p][d]
           pr      == [s.product[p] EXCEPT
                         !.qty     = LiveQuantity(s.product[p], late, q, next.current)]
           audit   == [sold    |-> a.sold + q,
                       revenue |-> a.revenue + charged,
                       cost    |-> a.cost + q * was.buy,
                       opening |-> IF d \in s.entered[p] THEN a.opening ELSE was.start]
           put     == Store(shifted, p, d, pr, next, audit)
           w       == SoldLine(s, d, late, p, q, charged)
<1>0. /\ s \in Db /\ Ordered(s) /\ w \in Db /\ Accounts(s) /\ Accounts(w)
      /\ Kept(w, s, d, late) /\ p \in Products /\ s.product[p] \in Product
  <2> HIDE DEF was, next, row, log, pr, audit, a, later, w
  <2>1. ViewOK(w, last, t)
    BY SoldLineOK DEF w
  <2>2. MoneyOK(w, t) /\ Kept(w, s, d, late)
    BY SoldLineMoney DEF w
  <2> QED BY <2>1, <2>2 DEF ViewOK, MoneyOK, Db
<1>1. w = Recompute(put, later, {p})
  BY DEF SoldLine
<1>2. /\ s.entered \in [Products -> SUBSET Days]
      /\ s.trail \in [Products -> [Days -> Trail]]
      /\ s.product \in [Products -> Product]
  BY <1>0 DEF Db
<1>3. audit.sold = a.sold + q /\ pr.epoch = s.product[p].epoch
      /\ pr.qty = LiveQuantity(s.product[p], late, q, next.current)
  BY <1>0 DEF Product
<1>4. pr.qty = s.product[p].qty - q
  <2>1. /\ was \in Entry /\ was.current <= was.start
        /\ d \in s.entered[p] => was = s.entry[p][d]
        /\ d \notin s.entered[p] => was.current = s.product[p].qty
    BY <1>0, EntryOrOK
  <2>2. ~late => was.current = s.product[p].qty
    BY <2>1 DEF ProjectionsAgree
  <2> HIDE DEF was
  <2>3. next.current = was.current - q
    BY <2>1, AfterSaleOK DEF was
  <2> HIDE DEF next, pr
  <2> QED BY <1>3, <2>2, <2>3 DEF LiveQuantity
<1> HIDE DEF was, next, row, log, audit, pr, a
<1>a. /\ put.live = s.live /\ put.received = s.received
      /\ put.product = [s.product EXCEPT ![p] = pr]
      /\ put.entered = [s.entered EXCEPT ![p] = @ \cup {d}]
      /\ put.trail = [[s.trail EXCEPT ![p] = log] EXCEPT ![p][d] = audit]
  BY <1>0 DEF Store, Db
<1>b. /\ w.live = put.live /\ w.received = put.received /\ w.product = put.product
      /\ w.entered = put.entered /\ w.trail = put.trail
  <2>1. s \in Db
    BY <1>0
  <2> HIDE DEF w
  <2> QED BY <1>1, <2>1 DEF Recompute, Store, Db
<1>5. /\ w.live = s.live /\ w.received = s.received
      /\ w.product = [s.product EXCEPT ![p] = pr]
      /\ w.entered = [s.entered EXCEPT ![p] = @ \cup {d}]
      /\ w.trail = [[s.trail EXCEPT ![p] = log] EXCEPT ![p][d] = audit]
  BY <1>a, <1>b
<1> HIDE DEF w, put, shifted, later
<1>6. \A p2 \in Products : w.product[p2] = IF p2 = p THEN pr ELSE s.product[p2]
  BY <1>2, <1>5
<1>7. /\ d \in w.entered[p]
      /\ \A p2 \in Products, d2 \in Days : p2 # p \/ d2 # d =>
           (d2 \in w.entered[p2] <=> d2 \in s.entered[p2])
  BY <1>0, <1>2, <1>5
<1>8. w.trail[p][d] = audit
  BY <1>0, <1>2, <1>5 DEF log
<1>9. PICK v : /\ Touches(v, s, p, Shifted(s, d, late, p) \cup {d})
               /\ Rebuilds(w, v, Shifted(s, d, late, p), {p})
  BY <1>0, SoldLineTouches DEF w
<1>10. \A p2 \in Products, d2 \in Days : p2 # p => w.entry[p2][d2] = s.entry[p2][d2]
  BY <1>9 DEF Touches, Rebuilds
<1>11. \A d2 \in Days : d2 # d => Sold(w.entry[p][d2]) = Sold(s.entry[p][d2])
  <2> SUFFICES ASSUME NEW d2 \in Days, d2 # d
               PROVE  Sold(w.entry[p][d2]) = Sold(s.entry[p][d2])
    OBVIOUS
  <2>1. CASE d2 \in s.entered[p]
    BY <1>0, <1>7, <2>1 DEF Kept, SameFigures
  <2>2. CASE d2 \notin s.entered[p]
    <3>1. w.entry[p][d2] = NoEntry /\ s.entry[p][d2] = NoEntry
      BY <1>0, <1>7, <2>2 DEF Accounts
    <3> QED BY <3>1
  <2> QED BY <2>1, <2>2
<1>12. w.product[p].epoch = s.product[p].epoch
       /\ w.product[p].qty + w.trail[p][d].sold - w.received[p]
            = s.product[p].qty + s.trail[p][d].sold - s.received[p]
  <2>1. /\ s.trail[p][d].sold \in Int /\ s.received[p] \in Int /\ s.product[p].qty \in Nat
    BY <1>0, TrailSold
  <2> QED BY <1>0, <1>3, <1>4, <1>5, <1>6, <1>8, <2>1 DEF a
<1>13. \A p2 \in s.live \cap w.live : Steady(w, s, p2, r)
  <2>1. \A p2 \in Products : p2 # p =>
           w.product[p2] = s.product[p2] /\ w.received[p2] = s.received[p2]
    BY <1>5, <1>6
  <2>2. \A p2 \in Products, d2 \in Days : p2 # p =>
          /\ d2 \in w.entered[p2] <=> d2 \in s.entered[p2]
          /\ w.entry[p2][d2] = s.entry[p2][d2]
    BY <1>7, <1>10
  <2>3. \A d2 \in Days : d2 # d =>
          /\ d2 \in w.entered[p] <=> d2 \in s.entered[p]
          /\ Sold(w.entry[p][d2]) = Sold(s.entry[p][d2])
    BY <1>0, <1>7, <1>11
  <2>4. s \in Db /\ w \in Db /\ Accounts(s) /\ Accounts(w) /\ p \in Products
        /\ d \in w.entered[p]
    BY <1>0, <1>7
  <2> QED BY <1>12, <2>1, <2>2, <2>3, <2>4, OneProduct
<1>14. EpochsUpTo(w, r)
  BY <1>0, <1>3, <1>6 DEF EpochsUpTo
<1>15. UnitsOK(w, s, r)
  BY <1>5, <1>13, <1>14 DEF UnitsOK
<1> QED BY <1>15 DEF w

-----------------------------------------------------------------------------
(* The units in every behaviour.                                           *)

\* The inductive invariant of the units: no product was counted later than the last
\* commit, and the open transaction has kept every balance but of what it counted.
UnitsInv ==
  /\ MoneyInv
  /\ EpochsUpTo(db, rev)
  /\ UnitsOK(work, db, rev + 1)

\* What UnitsConserved says of a step.
UnitsStep == \A p \in db.live \cap db'.live :
  db'.product[p].epoch = db.product[p].epoch => Balance(db', p) = Balance(db, p)

\* A view without an operation has kept everything.
LEMMA UnitsSelf ==
  ASSUME NEW s \in Db, NEW r \in Nat, EpochsUpTo(s, r)
  PROVE  UnitsOK(s, s, r + 1) /\ EpochsUpTo(s, r + 1)
<1>1. \A p \in Products : s.product[p].epoch \in Nat
  BY DEF Db, Product
<1> QED
  BY <1>1 DEF UnitsOK, EpochsUpTo, Steady

\* What one item keeps, and the items before it kept, the batch keeps.
LEMMA UnitsAlong ==
  ASSUME NEW s, NEW v, NEW w, NEW r, UnitsOK(v, s, r), UnitsOK(w, v, r)
  PROVE  UnitsOK(w, s, r)
<1> SUFFICES ASSUME NEW p \in s.live \cap w.live PROVE Steady(w, s, p, r)
  BY DEF UnitsOK
<1>1. Steady(v, s, p, r) /\ Steady(w, v, p, r)
  BY DEF UnitsOK
<1> QED
  BY <1>1 DEF Steady

\* A commit of what was kept: counted products get a new epoch, all others balance.
LEMMA CommitUnits ==
  ASSUME UnitsInv, MoneyInv', NEW u, UnitsOK(u, db, rev + 1), db' = u, work' = u, rev' = rev + 1
  PROVE  UnitsInv' /\ UnitsStep
<1>1. db \in Db /\ u \in Db /\ rev \in Nat
  BY DEF UnitsInv, MoneyInv, IInv, ViewOK
<1>2. EpochsUpTo(u, rev + 1) /\ UnitsOK(u, u, rev + 1 + 1)
  BY <1>1, UnitsSelf DEF UnitsOK
<1>3. UnitsInv'
  BY <1>2 DEF UnitsInv
<1>4. UnitsStep
  <2> SUFFICES ASSUME NEW p \in db.live \cap u.live,
                      u.product[p].epoch = db.product[p].epoch
               PROVE  Balance(u, p) = Balance(db, p)
    BY DEF UnitsStep
  <2>1. Steady(u, db, p, rev + 1)
    BY DEF UnitsOK
  <2>2. db.product[p].epoch <= rev /\ db.product[p].epoch \in Nat
    BY <1>1 DEF UnitsInv, EpochsUpTo, Db, Product
  <2>3. db.product[p].epoch # rev + 1
    BY <1>1, <2>2
  <2> QED
    BY <2>1, <2>3 DEF Steady
<1> QED
  BY <1>3, <1>4

\* A transaction of one step, with a day's snapshot rebuilt.
LEMMA IdleUnits ==
  ASSUME UnitsInv, MoneyInv', NEW w \in Db, UnitsOK(w, db, rev + 1), NEW days, NEW ids,
         CommitDb(Recompute(w, days, ids))
  PROVE  UnitsInv' /\ UnitsStep
<1> DEFINE u == Recompute(w, days, ids)
<1>1. UnitsOK(u, db, rev + 1)
  BY RecomputeUnits
<1>2. db' = u /\ work' = u /\ rev' = rev + 1
  BY DEF CommitDb
<1> HIDE DEF u
<1> QED
  BY <1>1, <1>2, CommitUnits

\* As long as nothing is committed no balance changes.
LEMMA NothingUnits ==
  ASSUME db' = db
  PROVE  UnitsStep
BY DEF UnitsStep

\* One item of the open batch.
LEMMA ItemUnits ==
  ASSUME UnitsInv, MoneyInv', NEW p, NEW cost, NextItem(p, cost), UnitsOK(work', work, rev + 1)
  PROVE  UnitsInv' /\ UnitsStep
<1>1. db' = db /\ rev' = rev
  BY DEF NextItem
<1>2. UnitsOK(work', db, rev + 1)
  BY UnitsAlong DEF UnitsInv
<1> QED
  BY <1>1, <1>2, NothingUnits DEF UnitsInv

\* The empty collections have counted nothing.
LEMMA InitUnits == Init => UnitsInv
<1> SUFFICES ASSUME Init PROVE UnitsInv
  OBVIOUS
<1>1. MoneyInv /\ db = EmptyDb /\ work = EmptyDb /\ rev = 0
  BY InitMoney DEF Init
<1>2. EpochsUpTo(EmptyDb, 0)
  BY DEF EpochsUpTo, EmptyDb, NoProduct
<1>3. EmptyDb \in Db
  BY <1>1 DEF MoneyInv, IInv, ViewOK
<1>4. UnitsOK(EmptyDb, EmptyDb, 0 + 1)
  BY <1>2, <1>3, UnitsSelf
<1> QED
  BY <1>1, <1>2, <1>4 DEF UnitsInv

\* Every action keeps it, and the balances of what it does not count.
LEMMA NextUnits == UnitsInv /\ [Next]_vars => UnitsInv' /\ UnitsStep
<1> SUFFICES ASSUME UnitsInv, [Next]_vars PROVE UnitsInv' /\ UnitsStep
  OBVIOUS
<1>a. IInv /\ MoneyInv /\ MoneyInv'
  BY NextMoney DEF UnitsInv, MoneyInv
<1>0. /\ work.live \subseteq Products /\ db.live \subseteq Products /\ rev \in Nat /\ rev + 1 \in Nat
      /\ db \in Db /\ work \in Db
      /\ MoneyOK(db, today) /\ MoneyOK(work, today)
  BY <1>a DEF MoneyInv, IInv, ViewOK, Db
<1>b. EpochsUpTo(db, rev + 1) /\ EpochsUpTo(work, rev + 1) /\ UnitsOK(db, db, rev + 1)
  BY <1>0, UnitsSelf DEF UnitsInv, UnitsOK
<1>1. CASE CreateProduct
  <2>1. PICK p \in Products, q \in Quantities, unit \in Units, buy \in Prices, sell \in Prices :
          /\ CanCreate(db, p)
          /\ CommitProduct(p, WriteProduct(db, batch.date, p, q, unit, buy, sell, TRUE))
    BY <1>1 DEF CreateProduct
  <2> DEFINE w == WriteProduct(db, batch.date, p, q, unit, buy, sell, TRUE)
  <2>2. Writing(db, batch.date, today)
    BY <1>a, <2>1, ProductWriting DEF CommitProduct
  <2>3. q \in Nat /\ unit \in {"dona", "kg"} /\ buy \in Nat /\ sell \in Nat
        /\ p \in Products \ db.live
    BY <2>1, InputAssumption DEF CanCreate
  <2>4. w \in Db
    BY <1>0, <2>2, <2>3, WriteProductOK DEF ViewOK
  <2>5. UnitsOK(w, db, rev + 1)
    BY <1>0, <1>b, <2>2, <2>3, WriteProductUnits
  <2> QED
    BY <1>a, <2>1, <2>4, <2>5, IdleUnits DEF CommitProduct
<1>2. CASE UpdateProduct
  <2>1. PICK p \in db.live,
             pay \in [quantity : Quantities \cup {None}, unit : Units \cup {None},
                     buy : Prices \cup {None}, sell : Prices \cup {None}] :
          CommitProduct(p, Edited(db, rev + 1, batch.date, p, pay))
    BY <1>2 DEF UpdateProduct
  <2> DEFINE w == Edited(db, rev + 1, batch.date, p, pay)
  <2>2. Writing(db, batch.date, today)
    BY <1>a, <2>1, ProductWriting DEF CommitProduct
  <2>3. pay \in Pay
    BY InputAssumption DEF Pay
  <2>4. w \in Db
    BY <1>0, <2>2, <2>3, EditedOK DEF ViewOK
  <2>5. UnitsOK(w, db, rev + 1)
    BY <1>0, <1>b, <2>2, <2>3, EditedUnits
  <2> QED
    BY <1>a, <2>1, <2>4, <2>5, IdleUnits DEF CommitProduct
<1>3. CASE Restock
  <2>1. PICK p \in db.live, q \in Deltas :
          CommitProduct(p, Restocked(db, batch.date, p, NormalizeQuantity(q, db.product[p].unit)))
    BY <1>3 DEF Restock
  <2> DEFINE delta == NormalizeQuantity(q, db.product[p].unit)
             w     == Restocked(db, batch.date, p, delta)
  <2>2. WritingOf(db, p, batch.date, batch.date, today)
    BY <1>0, <1>a, <2>1, ProductWriting, WritingEach DEF CommitProduct
  <2>3. delta \in Nat
    BY InputAssumption, NormalizeRange
  <2>6. CommitProduct(p, w)
    BY <2>1
  <2> HIDE DEF delta
  <2>4. w \in Db
    BY <1>0, <2>2, <2>3, RestockedOK DEF ViewOK
  <2>5. UnitsOK(w, db, rev + 1)
    BY <1>0, <1>b, <2>2, <2>3, RestockedUnits
  <2> HIDE DEF w
  <2> QED
    BY <1>a, <2>4, <2>5, <2>6, IdleUnits DEF CommitProduct
<1>4. CASE RemoveProduct
  <2>1. PICK p \in db.live :
          CommitDb([db EXCEPT !.live = @ \ {p}, !.tombs = @ \cup {p},
                              !.product[p] = NoProduct])
    BY <1>4 DEF RemoveProduct
  <2> DEFINE w == [db EXCEPT !.live = @ \ {p}, !.tombs = @ \cup {p},
                             !.product[p] = NoProduct]
  <2>2. /\ w.live = db.live \ {p}
        /\ w.product = [db.product EXCEPT ![p] = NoProduct]
        /\ w.entered = db.entered /\ w.entry = db.entry /\ w.received = db.received
    BY <1>0 DEF Db
  <2>3. db' = w /\ work' = w /\ rev' = rev + 1
    BY <2>1 DEF CommitDb
  <2> HIDE DEF w
  <2>4. \A p2 \in Products : w.product[p2] = IF p2 = p THEN NoProduct ELSE db.product[p2]
    BY <1>0, <2>2 DEF Db
  <2>5. EpochsUpTo(w, rev + 1)
    BY <1>0, <1>b, <2>4 DEF EpochsUpTo, NoProduct
  <2>6. db' \in Db /\ rev' \in Nat
    BY <1>a DEF MoneyInv, IInv, ViewOK
  <2>7. UnitsInv'
    BY <1>0, <1>a, <2>3, <2>5, <2>6, UnitsSelf DEF UnitsInv
  <2>8. UnitsStep
    <3> SUFFICES ASSUME NEW p2 \in w.live PROVE Balance(w, p2) = Balance(db, p2)
      BY <2>3 DEF UnitsStep
    <3>1. w.product[p2] = db.product[p2]
      BY <1>0, <2>2, <2>4
    <3>2. SoldInAll(w, p2) = SoldInAll(db, p2)
      BY <2>2 DEF SoldInAll
    <3> QED
      BY <2>2, <3>1, <3>2 DEF Balance
  <2> QED
    BY <2>7, <2>8
<1>5. CASE RebuildSnapshot
  <2>1. PICK d \in 1..today : CommitDb(Recompute(db, {d}, {}))
    BY <1>5 DEF RebuildSnapshot
  <2> QED
    BY <1>0, <1>a, <1>b, <2>1, IdleUnits
<1>6. CASE BeginBatch
  <2>1. UNCHANGED <<db, work, today, rev>>
    BY <1>6 DEF BeginBatch
  <2> QED
    BY <1>a, <2>1, NothingUnits DEF UnitsInv
<1>7. CASE OpenItem
  <2>1. PICK p \in work.live, start \in Quantities, current \in Quantities :
          /\ batch.kind = "opening"
          /\ current <= start
          /\ work' = Opened(work, rev + 1, batch.date, p, start, current)
          /\ NextItem(p, 0)
    BY <1>7 DEF OpenItem
  <2>2. Writing(work, batch.date, today)
    BY <1>a, <2>1, BatchWriting DEF IInv, BatchOK
  <2>3. start \in Nat /\ current \in Nat
    BY InputAssumption
  <2>4. UnitsOK(work', work, rev + 1)
    BY <1>0, <1>b, <2>1, <2>2, <2>3, OpenedUnits
  <2> QED
    BY <1>a, <2>1, <2>4, ItemUnits
<1>8. CASE CountItem
  <2>1. PICK p \in work.live, current \in Quantities, revenue \in Amounts \cup {None} :
          /\ batch.kind = "count"
          /\ current <= EntryOr(work, p, batch.date).start
          /\ work' = Counted(work, rev + 1, batch.date, p, current, revenue)
          /\ NextItem(p, 0)
    BY <1>8 DEF CountItem
  <2>2. Writing(work, batch.date, today)
    BY <1>a, <2>1, BatchWriting DEF IInv, BatchOK
  <2>3. current \in Nat /\ revenue \in Nat \cup {None}
    BY InputAssumption
  <2>4. UnitsOK(work', work, rev + 1)
    BY <1>0, <1>b, <2>1, <2>2, <2>3, CountedUnits
  <2> QED
    BY <1>a, <2>1, <2>4, ItemUnits
<1>9. CASE SaleLine
  <2>1. PICK p \in work.live, q \in Deltas, amount \in Amounts \cup {None} :
          LET was == EntryOr(work, p, batch.date) IN
          /\ batch.kind = "sale"
          /\ ~batch.late => ProjectionsAgree(work, p, batch.date)
          /\ q <= was.current
          /\ q <= work.product[p].qty
          /\ batch.late => LaterDaysHold(work, p, batch.date, q)
          /\ work' = SoldLine(work, batch.date, batch.late, p, q,
                              Given(amount, q * was.sell))
          /\ NextItem(p, 0)
    BY <1>9 DEF SaleLine
  <2> DEFINE was     == EntryOr(work, p, batch.date)
             charged == Given(amount, q * was.sell)
  <2>2. ViewOK(work, Last, today) /\ batch.late \in BOOLEAN /\ today \in Days
    BY <1>a, <2>1 DEF IInv, BatchOK, Batch, Reach
  <2>3. /\ batch.date \in Days /\ batch.date \in 1..Last
        /\ batch.late => Last = today /\ batch.date < today
        /\ ~batch.late => /\ Last = batch.date
                          /\ today = batch.date \/ today \notin 1..batch.date
    BY <1>a, <2>1, SaleDay
  <2>4. q \in Nat
    BY InputAssumption
  <2>5. charged \in Nat
    <3>1. was \in Entry
      BY <1>0, <2>2, <2>3, EntryOrOK DEF ViewOK
    <3>2. was.sell \in Nat
      BY <3>1 DEF Entry
    <3> HIDE DEF was
    <3>3. q * was.sell \in Nat
      BY <2>4, <3>2
    <3>4. amount # None => amount \in Nat
      BY InputAssumption
    <3> QED
      BY <3>3, <3>4 DEF Given
  <2>6. UnitsOK(work', work, rev + 1)
    <3> HIDE DEF charged
    <3>1. work' = SoldLine(work, batch.date, batch.late, p, q, charged)
      BY <2>1 DEF charged
    <3> QED
      BY <1>0, <1>b, <2>1, <2>2, <2>3, <2>4, <2>5, <3>1, SoldLineUnits
  <2> QED
    BY <1>a, <2>1, <2>6, ItemUnits
<1>10. CASE PurchaseItem
  <2>1. PICK p \in work.live, q \in Deltas, buy \in Prices :
          /\ batch.kind = "purchase"
          /\ p \in db.live
          /\ work' = Purchased(work, rev + 1, batch.date, p, q, buy)
          /\ NextItem(p, q * buy)
    BY <1>10 DEF PurchaseItem
  <2>2. WritingOf(work, p, batch.date, today, today)
    BY <1>0, <1>a, <2>1, PurchaseWriting
  <2>3. q \in Nat /\ buy \in Nat
    BY InputAssumption
  <2>4. UnitsOK(work', work, rev + 1)
    BY <1>0, <1>b, <2>1, <2>2, <2>3, PurchasedUnits
  <2> QED
    BY <1>a, <2>1, <2>4, ItemUnits
<1>11. CASE PurchaseNew
  <2>1. PICK p \in Products, q \in Deltas, unit \in Units, buy \in Prices,
             sell \in Prices \cup {None} :
          /\ batch.kind = "purchase"
          /\ CanCreate(work, p)
          /\ work' = Recompute(WriteProduct(work, today, p, q, unit, buy,
                                            Given(sell, buy), FALSE),
                               {today}, {p})
          /\ NextItem(p, q * buy)
    BY <1>11 DEF PurchaseNew
  <2> DEFINE w == WriteProduct(work, today, p, q, unit, buy, Given(sell, buy), FALSE)
  <2>2. Writing(work, today, today)
    BY <1>a, <2>1, PurchaseWriting
  <2>3. q \in Nat /\ buy \in Nat /\ unit \in {"dona", "kg"} /\ Given(sell, buy) \in Nat
        /\ p \in Products \ work.live
    BY <2>1, InputAssumption DEF Given, CanCreate
  <2>4. w \in Db
    BY <1>0, <2>2, <2>3, WriteProductOK DEF ViewOK
  <2>5. UnitsOK(w, work, rev + 1)
    BY <1>0, <1>b, <2>2, <2>3, WriteProductUnits
  <2>6. work' = Recompute(w, {today}, {p})
    BY <2>1
  <2> HIDE DEF w
  <2>7. UnitsOK(work', work, rev + 1)
    BY <2>4, <2>5, <2>6, RecomputeUnits
  <2> QED
    BY <1>a, <2>1, <2>7, ItemUnits
<1>12. CASE CommitBatch
  <2> DEFINE w == [work EXCEPT !.procured[batch.date] = @ + batch.cost]
             u == Recompute(w, {batch.date}, batch.touched)
  <2>1. db' = u /\ work' = u /\ rev' = rev + 1
    BY <1>12 DEF CommitBatch, CommitDb
  <2>2. [work.procured EXCEPT ![batch.date] = @ + batch.cost] \in [Days -> Int]
    <3>1. work.procured \in [Days -> Int] /\ batch.cost \in Int
      BY <1>0, <1>a DEF Db, IInv, BatchOK, Batch
    <3>2. CASE batch.date \in Days
      BY <3>1, <3>2
    <3>3. CASE batch.date \notin Days
      BY <3>1, <3>3
    <3> QED
      BY <3>2, <3>3
  <2>3. /\ w \in Db /\ w.live = work.live /\ w.product = work.product
        /\ w.entered = work.entered /\ w.entry = work.entry /\ w.received = work.received
    BY <1>0, <2>2 DEF Db
  <2> HIDE DEF w
  <2>4. \A p : Balance(w, p) = Balance(work, p)
    BY <2>3 DEF Balance, SoldInAll
  <2>5. UnitsOK(w, db, rev + 1)
    BY <2>3, <2>4 DEF UnitsInv, UnitsOK, Steady, EpochsUpTo
  <2>6. UnitsOK(u, db, rev + 1)
    BY <2>3, <2>5, RecomputeUnits
  <2> HIDE DEF u
  <2> QED
    BY <1>a, <2>1, <2>6, CommitUnits
<1>13. CASE AbortBatch
  <2>1. work' = db /\ UNCHANGED <<db, rev>>
    BY <1>13 DEF AbortBatch
  <2> QED
    BY <1>a, <1>b, <2>1, NothingUnits DEF UnitsInv
<1>14. CASE NextDay
  <2>1. UNCHANGED <<db, work, rev>>
    BY <1>14 DEF NextDay
  <2> QED
    BY <1>a, <2>1, NothingUnits DEF UnitsInv
<1>15. CASE UNCHANGED vars
  BY <1>a, <1>15, NothingUnits DEF vars, UnitsInv
<1> QED
  BY <1>1, <1>2, <1>3, <1>4, <1>5, <1>6, <1>7, <1>8, <1>9, <1>10, <1>11, <1>12,
     <1>13, <1>14, <1>15 DEF Next

\* The units' invariant holds in every behaviour.
THEOREM UnitsInvariance == Spec => []UnitsInv
BY InitUnits, NextUnits, PTL DEF Spec

\* Between two absolute counts of a product units neither appear nor vanish: what is on
\* hand plus what all its days report as sold, less what came in, is constant, through
\* sales of today and of past days, restocks, edits and batches (inventory.service sales,
\* product.service update, procurement.service create).
THEOREM UnitsAreConserved == Spec => UnitsConserved
<1>1. UnitsInv /\ [Next]_vars => [UnitsStep]_vars
  BY NextUnits
<1> QED
  BY <1>1, UnitsInvariance, PTL DEF Spec, UnitsConserved, UnitsStep, Balance

-----------------------------------------------------------------------------
(* Reports.                                                                *)

\* The months lie one after the other.
LEMMA Months ==
  ASSUME NEW d \in Nat
  PROVE  /\ FirstOfMonth(d) \in Nat /\ FirstOfMonth(d) <= d
         /\ d <= FirstOfMonth(d) + MonthDays - 1
         /\ FirstOfMonth(FirstOfMonth(d)) = FirstOfMonth(d)
         /\ \A c \in Nat : c <= d => /\ FirstOfMonth(c) <= FirstOfMonth(d)
                                     /\ (FirstOfMonth(d) - FirstOfMonth(c)) % MonthDays = 0
<1> DEFINE m == MonthDays
           k == d \div m
<1>1. m \in Nat \ {0}
  BY MonthAssumption
<1> HIDE DEF m
<1>2. k \in Nat /\ k * m \in Nat /\ k * m <= d /\ d <= k * m + m - 1 /\ (k * m) \div m = k
  <2>1. k \in Nat
    BY <1>1
  <2>2. k * m <= d /\ d < k * m + m
    BY <1>1
  <2>3. (k * m) \div m = k
    BY <1>1, <2>1
  <2>4. k * m \in Nat
    BY <1>1, <2>1
  <2> HIDE DEF k
  <2> QED BY <1>1, <2>1, <2>2, <2>3, <2>4
<1>3. ASSUME NEW c \in Nat, c <= d
      PROVE  (c \div m) * m <= k * m /\ (k * m - (c \div m) * m) % m = 0
  <2> DEFINE l == c \div m
  <2>1. l \in Nat /\ l <= k
    BY <1>1, <1>3
  <2> HIDE DEF l, k
  <2>2. k \in Nat /\ k - l \in Nat
    BY <1>2, <2>1
  <2>3. (k - l) * m = k * m - l * m /\ l * m <= k * m
    BY <1>1, <2>1, <2>2
  <2>4. ((k - l) * m) % m = 0
    BY <1>1, <2>2
  <2> QED BY <2>3, <2>4 DEF l
<1>4. FirstOfMonth(d) = k * m /\ FirstOfMonth(k * m) = ((k * m) \div m) * m
      /\ \A c \in Nat : FirstOfMonth(c) = (c \div m) * m
  BY DEF FirstOfMonth, m
<1> HIDE DEF k
<1> QED BY <1>2, <1>3, <1>4 DEF m

\* Every day of a range belongs to one of the range's trend lines.
LEMMA EveryDayHasALine ==
  ASSUME NEW from \in Nat, NEW to \in Nat, NEW monthly \in BOOLEAN
  PROVE  /\ IsFiniteSet(TrendKeys(from, to, monthly))
         /\ \A d \in from..to : Bucket(d, monthly) \in TrendKeys(from, to, monthly)
<1>1. CASE monthly = FALSE
  <2>1. TrendKeys(from, to, FALSE) = from..to
    BY DEF TrendKeys, Bucket
  <2>2. \A d : Bucket(d, FALSE) = d
    BY DEF Bucket
  <2>3. IsFiniteSet(from..to)
    BY FS_Interval
  <2> HIDE DEF Bucket, TrendKeys
  <2> QED BY <1>1, <2>1, <2>2, <2>3
<1>2. CASE monthly = TRUE
  <2> DEFINE start == FirstOfMonth(from)
             K     == TrendKeys(from, to, TRUE)
  <2>1. K = {FirstOfMonth(d) : d \in {x \in start..to : (x - start) % MonthDays = 0}}
    BY DEF TrendKeys, Bucket
  <2>2. start \in Nat /\ start <= from
    BY Months
  <2>3. \A d \in start..to : FirstOfMonth(d) \in 0..to
    <3>1. ASSUME NEW d \in start..to PROVE FirstOfMonth(d) \in 0..to
      <4>1. d \in Nat
        BY <2>2
      <4>2. FirstOfMonth(d) \in Nat /\ FirstOfMonth(d) <= d
        BY <4>1, Months
      <4> QED BY <4>1, <4>2
    <3> QED BY <3>1
  <2>4. ASSUME NEW d \in from..to
        PROVE  \E x \in start..to : (x - start) % MonthDays = 0 /\ FirstOfMonth(x) = FirstOfMonth(d)
    <3> DEFINE x == FirstOfMonth(d)
    <3>1. d \in Nat /\ from <= d
      OBVIOUS
    <3>2. x \in Nat /\ x <= d /\ FirstOfMonth(x) = x /\ start <= x /\ (x - start) % MonthDays = 0
      BY <3>1, Months
    <3> HIDE DEF x
    <3>3. x \in start..to
      BY <2>2, <3>2
    <3> QED BY <3>2, <3>3 DEF x
  <2>5. K \subseteq 0..to
    BY <2>1, <2>3
  <2>6. IsFiniteSet(K)
    <3>1. IsFiniteSet(0..to)
      BY FS_Interval
    <3> QED BY <2>5, <3>1, FS_Subset
  <2>7. \A d \in from..to : FirstOfMonth(d) \in K
    BY <2>1, <2>4
  <2>8. \A d : Bucket(d, TRUE) = FirstOfMonth(d)
    BY DEF Bucket
  <2> QED BY <1>2, <2>6, <2>7, <2>8
<1> QED BY <1>1, <1>2

\* What an entry adds to a figure.
Value(figure, e) == IF figure = "revenue" THEN Revenue(e) ELSE Profit(e)

\* What the entries of all products add to a figure, day by day.
Table(figure) == [p \in Products |-> [d \in Days |-> Value(figure, db.entry[p][d])]]
Column(figure, d) == [p \in Products |-> Value(figure, db.entry[p][d])]

\* What is known of the committed data when a report reads it.
Readable ==
  /\ db \in Db /\ Ordered(db) /\ today \in Days /\ Blank(db, today)
  /\ \A p \in Products : \A d \in Days \ db.entered[p] : db.entry[p][d] = NoEntry
  /\ \A d \in Days : db.snapshot[d].items = RowsBut(db, d, {})

\* The values are integers, and none where there is no entry.
LEMMA ValueType ==
  ASSUME Readable, NEW figure
  PROVE  \A p \in Products : \A d \in Days :
           /\ Value(figure, db.entry[p][d]) \in Int
           /\ d \notin db.entered[p] => Value(figure, db.entry[p][d]) = 0
<1> SUFFICES ASSUME NEW p \in Products, NEW d \in Days
             PROVE  /\ Value(figure, db.entry[p][d]) \in Int
                    /\ d \notin db.entered[p] => Value(figure, db.entry[p][d]) = 0
  OBVIOUS
<1>1. db.entry[p][d] \in Entry
  BY DEF Readable, Db
<1>2. Value(figure, db.entry[p][d]) \in Int
  BY <1>1, FiguresType DEF Value
<1>3. Revenue(NoEntry) = 0 /\ Profit(NoEntry) = 0
  BY DEF Revenue, Profit, NewSold, NoEntry
<1>4. d \notin db.entered[p] => db.entry[p][d] = NoEntry
  BY DEF Readable
<1> QED BY <1>2, <1>3, <1>4 DEF Value

\* A row of a snapshot has the figures of its entry.
LEMMA RowFigures ==
  ASSUME NEW p, NEW d, NEW figure \in {"revenue", "profit"}
  PROVE  BuildSnapshotItem(db, p, d)[figure] = Value(figure, db.entry[p][d])
<1> DEFINE i == BuildSnapshotItem(db, p, d)
<1>1. i.revenue = Revenue(db.entry[p][d]) /\ i.profit = Profit(db.entry[p][d])
  BY DEF BuildSnapshotItem
<1> HIDE DEF i
<1> QED BY <1>1 DEF Value, i

\* A day's figure, read from its snapshot, is what the entries of the day add up to.
LEMMA FigureIsColumn ==
  ASSUME Readable, NEW figure \in {"revenue", "profit"}, NEW d \in Days
  PROVE  Figure(figure, d) = SumFunctionOnSet(Column(figure, d), Products)
<1> DEFINE E     == {p \in Products : d \in db.entered[p]}
           row(p) == BuildSnapshotItem(db, p, d)
           b     == [p \in E |-> row(p)]
           f     == Column(figure, d)
           M     == db.snapshot[d].items
           e     == [i \in M |-> i[figure]]
<1>1. M = {row(p) : p \in E}
  <2>1. {q \in Products : d \in db.entered[q] /\ q \notin {}} = E
    OBVIOUS
  <2>2. RowsBut(db, d, {}) = {row(p) : p \in {q \in Products : d \in db.entered[q] /\ q \notin {}}}
    BY DEF RowsBut
  <2> HIDE DEF row
  <2> QED BY <2>1, <2>2 DEF Readable
<1>2. \A p : row(p).product = p
  BY RowProduct
<1>3. \A p \in Products : row(p)[figure] = f[p] /\ f[p] \in Int /\ (p \notin E => f[p] = 0)
  BY RowFigures, ValueType DEF Column
<1> HIDE DEF row, M, f
<1>4. Moves(b, E, f, M, e)
  BY <1>1, <1>2, <1>3 DEF Moves
<1>5. IsFiniteSet(E) /\ IsFiniteSet(Products) /\ E \in SUBSET Products
  BY ProductsAssumption, FS_Subset
<1>6. DOMAIN e = M
  OBVIOUS
<1>7. Figure(figure, d) = SumFunctionOnSet(e, M)
  BY <1>6 DEF Figure, SumFunction, M
<1> HIDE DEF E, b, e
<1>8. SumFunctionOnSet(e, M) = SumFunctionOnSet(f, E)
  BY <1>4, <1>5, SumMoved
<1>9. (\A x \in Products : f[x] \in Int) /\ \A x \in Products \ E : f[x] = 0
  BY <1>3
<1>10. SumFunctionOnSet(f, E) = SumFunctionOnSet(f, Products)
  BY <1>5, <1>9, SumOnly
<1> QED BY <1>7, <1>8, <1>10 DEF f
\* The days of a range are finitely many, and so are the products.
LEMMA RangeDays ==
  ASSUME NEW from \in Days, NEW to \in from..MaxDay
  PROVE  /\ from \in Nat /\ to \in Nat /\ from..to \subseteq Days
         /\ IsFiniteSet(from..to) /\ IsFiniteSet(Products)
<1>1. from \in Nat /\ to \in Nat /\ from..to \subseteq Days
  BY BoundsAssumption DEF Days
<1> QED BY <1>1, FS_Interval, ProductsAssumption

\* The rows of a product in a range add up to what all days of the range add up to.
LEMMA RowsAddUp ==
  ASSUME Readable, NEW figure, NEW p \in Products, NEW from \in Days, NEW to \in from..MaxDay
  PROVE  SumFunctionOnSet(Table(figure)[p], Rows(p, from, to))
           = SumFunctionOnSet(Table(figure)[p], from..to)
<1> DEFINE S == from..to
           R == Rows(p, from, to)
           f == Table(figure)[p]
<1>1. S \subseteq Days
  BY RangeDays
<1>2. IsFiniteSet(S)
  BY RangeDays
<1>3. R \in SUBSET S
  BY DEF Rows
<1>4. \A d \in S : f[d] = Value(figure, db.entry[p][d]) /\ f[d] \in Int
  BY <1>1, ValueType DEF Table
<1>5. \A d \in S \ R : f[d] = 0
  BY <1>1, <1>4, ValueType DEF Rows
<1> HIDE DEF S, R, f
<1>6. SumFunctionOnSet(f, R) = SumFunctionOnSet(f, S)
  BY <1>2, <1>3, <1>4, <1>5, SumOnly
<1> QED BY <1>6 DEF S, R, f

\* The inventory report's figure, from the entries, is what the days of the range add up to.
LEMMA ReportAddsUp ==
  ASSUME Readable, NEW figure, NEW from \in Days, NEW to \in from..MaxDay,
         NEW E \in SUBSET Products, \A p \in Products \ E : Rows(p, from, to) = {},
         NEW rows, \A p \in E : rows[p] = SumFunctionOnSet(Table(figure)[p], Rows(p, from, to))
  PROVE  SumFunctionOnSet(rows, E)
           = SumFunctionOnSet([d \in from..to |-> SumFunctionOnSet(Column(figure, d), Products)],
                              from..to)
<1> DEFINE S      == from..to
           f      == Table(figure)
           full   == [p \in Products |-> SumFunctionOnSet(f[p], S)]
           col    == [d \in S |-> Column(figure, d)]
           foot   == [d \in S |-> SumFunctionOnSet(Column(figure, d), Products)]
<1>1. S \subseteq Days
  BY RangeDays
<1>2. IsFiniteSet(S) /\ IsFiniteSet(Products) /\ IsFiniteSet(E)
  BY RangeDays, FS_Subset
<1>3. \A p \in Products : \A d \in S : f[p][d] = Value(figure, db.entry[p][d]) /\ f[p][d] \in Int
  BY <1>1, ValueType DEF Table
<1>4. Turned(col, f, Products, S)
  BY <1>3 DEF Turned, Column
<1>5. \A p \in Products : SumFunctionOnSet(f[p], Rows(p, from, to)) = full[p]
  BY RowsAddUp
<1>6. \A p \in Products : SumFunctionOnSet(f[p], S) \in Int
  BY <1>2, <1>3, SumStep
<1>7. \A p \in Products : full[p] \in Int
  BY <1>6
<1>8. \A p \in Products \ E : full[p] = 0
  BY <1>5, SumEmpty
<1>9. \A p \in E : rows[p] = full[p] /\ full[p] \in Int
  BY <1>5, <1>7
<1>10. RowSums(full, f, Products, S)
  BY DEF RowSums
<1>11. RowSums(foot, col, S, Products)
  BY DEF RowSums
<1> HIDE DEF full, col, foot, S, f
<1>12. SumFunctionOnSet(rows, E) = SumFunctionOnSet(full, E)
  BY <1>2, <1>9, SumSame
<1>13. SumFunctionOnSet(full, E) = SumFunctionOnSet(full, Products)
  BY <1>2, <1>7, <1>8, SumOnly
<1>14. SumFunctionOnSet(full, Products) = SumFunctionOnSet(foot, S)
  BY <1>2, <1>4, <1>10, <1>11, SumSwap
<1> QED BY <1>12, <1>13, <1>14 DEF S, foot

\* The totals of the days of a range.
LEMMA TotalsAddUp ==
  ASSUME Readable, NEW figure \in {"revenue", "profit"}, NEW from \in Days, NEW to \in from..MaxDay
  PROVE  Totals(figure, from..to)
           = SumFunctionOnSet([d \in from..to |-> SumFunctionOnSet(Column(figure, d), Products)],
                              from..to)
<1> DEFINE S == from..to
           f == [d \in S |-> Figure(figure, d)]
           e == [d \in S |-> SumFunctionOnSet(Column(figure, d), Products)]
<1>1. \A d \in S : d \in Days
  BY RangeDays
<1>2. f = e
  <2>1. \A d \in S : Figure(figure, d) = SumFunctionOnSet(Column(figure, d), Products)
    BY <1>1, FigureIsColumn
  <2> HIDE DEF S
  <2> QED BY <2>1
<1>3. DOMAIN f = S
  OBVIOUS
<1>4. Totals(figure, S) = SumFunctionOnSet(f, S)
  BY <1>3 DEF Totals, SumFunction
<1> HIDE DEF f, e
<1> QED BY <1>2, <1>4 DEF e, S

\* The analytics' totals are the inventory report's.
LEMMA AnalyticsMatchInventory ==
  ASSUME Readable, NEW from \in Days, NEW to \in from..MaxDay
  PROVE  /\ Totals("revenue", from..to) = InventoryReport(from, to).revenue
         /\ Totals("profit", from..to) = InventoryReport(from, to).profit
<1> DEFINE E  == {p \in Products : Rows(p, from, to) # {}}
           sumR(p) == SumFunction([d \in Rows(p, from, to) |-> Revenue(db.entry[p][d])])
           sumP(p) == SumFunction([d \in Rows(p, from, to) |-> Profit(db.entry[p][d])])
           rr == [p \in E |-> sumR(p)]
           rp == [p \in E |-> sumP(p)]
<1>1. InventoryReport(from, to).revenue = SumFunction(rr)
  BY DEF InventoryReport
<1>2. InventoryReport(from, to).profit = SumFunction(rp)
  BY DEF InventoryReport
<1>3. SumFunction(rr) = SumFunctionOnSet(rr, E) /\ SumFunction(rp) = SumFunctionOnSet(rp, E)
  <2>1. DOMAIN rr = E /\ DOMAIN rp = E
    OBVIOUS
  <2> HIDE DEF rr, rp
  <2> QED BY <2>1 DEF SumFunction
<1>4. E \in SUBSET Products /\ \A p \in Products \ E : Rows(p, from, to) = {}
  OBVIOUS
<1>5. ASSUME NEW p \in Products
      PROVE  /\ sumR(p) = SumFunctionOnSet(Table("revenue")[p], Rows(p, from, to))
             /\ sumP(p) = SumFunctionOnSet(Table("profit")[p], Rows(p, from, to))
  <2> DEFINE R == Rows(p, from, to)
             f == [d \in R |-> Revenue(db.entry[p][d])]
             g == [d \in R |-> Profit(db.entry[p][d])]
  <2>1. R \in SUBSET Days /\ IsFiniteSet(R)
    <3>1. IsFiniteSet(from..to) /\ from..to \subseteq Days
      BY RangeDays
    <3>2. R \subseteq from..to
      BY DEF Rows
    <3> QED BY <3>1, <3>2, FS_Subset
  <2>2. \A d \in R : /\ Table("revenue")[p][d] = f[d] /\ f[d] \in Int
                     /\ Table("profit")[p][d] = g[d] /\ g[d] \in Int
    BY <2>1, ValueType DEF Table, Value
  <2>3. DOMAIN f = R /\ DOMAIN g = R
    OBVIOUS
  <2>4. sumR(p) = SumFunctionOnSet(f, R)
    BY <2>3 DEF SumFunction
  <2>5. sumP(p) = SumFunctionOnSet(g, R)
    BY <2>3 DEF SumFunction
  <2> HIDE DEF f, g, R
  <2>6. SumFunctionOnSet(Table("revenue")[p], R) = SumFunctionOnSet(f, R)
    BY <2>1, <2>2, SumSame
  <2>7. SumFunctionOnSet(Table("profit")[p], R) = SumFunctionOnSet(g, R)
    BY <2>1, <2>2, SumSame
  <2> QED BY <2>4, <2>5, <2>6, <2>7 DEF R
<1>6. \A p \in E : /\ rr[p] = SumFunctionOnSet(Table("revenue")[p], Rows(p, from, to))
                   /\ rp[p] = SumFunctionOnSet(Table("profit")[p], Rows(p, from, to))
  BY <1>5
<1> HIDE DEF E, rr, rp, sumR, sumP
<1> DEFINE all(figure) ==
      SumFunctionOnSet([d \in from..to |-> SumFunctionOnSet(Column(figure, d), Products)], from..to)
<1>7. SumFunctionOnSet(rr, E) = all("revenue")
  BY <1>4, <1>6, ReportAddsUp
<1>8. SumFunctionOnSet(rp, E) = all("profit")
  BY <1>4, <1>6, ReportAddsUp
<1>9. Totals("revenue", from..to) = all("revenue") /\ Totals("profit", from..to) = all("profit")
  BY TotalsAddUp
<1> HIDE DEF all
<1> QED BY <1>1, <1>2, <1>3, <1>7, <1>8, <1>9

\* What the report of a single day shows as sold is what the day opened with less what is
\* left: a derived row has sold nothing.
LEMMA OneDayReport ==
  ASSUME Readable, NEW d \in Days
  PROVE  InventoryReport(d, d).start - InventoryReport(d, d).current = InventoryReport(d, d).sold
<1> DEFINE E        == {p \in Products : Rows(p, d, d) # {}}
           D        == Derived(d, d)
           P        == E \cup D
           first(p) == IF p \in D THEN DerivedRow(p) ELSE db.entry[p][Min(Rows(p, d, d))]
           last(p)  == IF p \in D THEN DerivedRow(p) ELSE db.entry[p][Max(Rows(p, d, d))]
           f        == [p \in P |-> first(p).start + first(p).lockedSold]
           g        == [p \in P |-> last(p).current]
           r        == [p \in E |->
                          SumFunction([c \in Rows(p, d, d) |-> Sold(db.entry[p][c])])]
           h        == [p \in P |-> IF p \in E THEN Sold(db.entry[p][d]) ELSE 0]
<1>1. /\ InventoryReport(d, d).start = SumFunction(f)
      /\ InventoryReport(d, d).current = SumFunction(g)
      /\ InventoryReport(d, d).sold = SumFunction(r)
  BY DEF InventoryReport
<1>2. /\ SumFunction(f) = SumFunctionOnSet(f, P)
      /\ SumFunction(g) = SumFunctionOnSet(g, P)
      /\ SumFunction(r) = SumFunctionOnSet(r, E)
  <2>1. DOMAIN f = P /\ DOMAIN g = P /\ DOMAIN r = E
    OBVIOUS
  <2> HIDE DEF f, g, r, P, E
  <2> QED BY <2>1 DEF SumFunction
<1>3. d \in Nat /\ IsFiniteSet(Products) /\ P \in SUBSET Products /\ E \in SUBSET P
  <2>1. d \in Nat /\ d \in d..MaxDay
    BY BoundsAssumption DEF Days
  <2>2. db.live \subseteq Products
    BY DEF Readable, Db
  <2> QED BY <2>1, <2>2, ProductsAssumption DEF Derived
<1>4. IsFiniteSet(P) /\ IsFiniteSet(E)
  BY <1>3, FS_Subset
<1>5. ASSUME NEW p \in E
      PROVE  /\ p \in Products /\ p \notin D /\ d \in db.entered[p] /\ Rows(p, d, d) = {d}
             /\ Min(Rows(p, d, d)) = d /\ Max(Rows(p, d, d)) = d
  <2>1. Rows(p, d, d) \subseteq {d}
    BY <1>3 DEF Rows
  <2>2. Rows(p, d, d) = {d} /\ d \in db.entered[p]
    BY <2>1 DEF Rows
  <2>3. Min({d}) = d /\ Max({d}) = d
    BY <1>3 DEF Min, Max
  <2>4. p \notin D
    BY <2>2 DEF Derived
  <2> QED BY <2>2, <2>3, <2>4
<1>6. ASSUME NEW p \in E
      PROVE  /\ f[p] \in Int /\ g[p] \in Int /\ h[p] \in Int /\ f[p] = g[p] + h[p]
             /\ r[p] = h[p]
  <2> DEFINE e == db.entry[p][d]
             k == [c \in Rows(p, d, d) |-> Sold(db.entry[p][c])]
  <2>1. e \in Entry /\ e.current <= e.start
    BY <1>5 DEF Readable, Db, Ordered
  <2>2. f[p] = e.start + e.lockedSold /\ g[p] = e.current /\ h[p] = Sold(e)
    BY <1>5
  <2>3. Sold(e) \in Nat
    BY <2>1, FiguresType
  <2>4. e.start \in Nat /\ e.current \in Nat /\ e.lockedSold \in Nat
    BY <2>1 DEF Entry
  <2>5. Sold(e) = e.lockedSold + (e.start - e.current)
    BY <2>1, <2>4 DEF Sold, NewSold
  <2>6. r[p] = SumFunction(k)
    OBVIOUS
  <2>7. DOMAIN k = {} \cup {d} /\ k[d] = Sold(e)
    BY <1>5
  <2> HIDE DEF f, g, h, r, k, e
  <2>8. SumFunctionOnSet(k, {} \cup {d}) = SumFunctionOnSet(k, {}) + k[d]
    BY <2>3, <2>7, FS_EmptySet, SumAdd
  <2>9. r[p] = Sold(e)
    BY <2>3, <2>6, <2>7, <2>8, SumEmpty DEF SumFunction
  <2> QED BY <2>2, <2>3, <2>4, <2>5, <2>9
<1>7. ASSUME NEW p \in P \ E
      PROVE  f[p] \in Int /\ g[p] \in Int /\ h[p] = 0 /\ f[p] = g[p] + h[p]
  <2> DEFINE e == DerivedRow(p)
  <2>1. p \in D
    OBVIOUS
  <2>2. f[p] = e.start + e.lockedSold /\ g[p] = e.current /\ h[p] = 0
    BY <2>1
  <2>3. db.product[p].qty \in Nat
    BY <1>3 DEF Readable, Db, Product
  <2>4. e.start = db.product[p].qty /\ e.current = db.product[p].qty /\ e.lockedSold = 0
    BY DEF DerivedRow, FreshEntry
  <2> HIDE DEF f, g, h, e
  <2> QED BY <2>2, <2>3, <2>4
<1> HIDE DEF E, D, P, f, g, h, r
<1>8. \A p \in P : g[p] \in Int /\ h[p] \in Int /\ f[p] = g[p] + h[p]
  BY <1>6, <1>7
<1>9. SumFunctionOnSet(f, P) = SumFunctionOnSet(g, P) + SumFunctionOnSet(h, P)
  BY <1>4, <1>8, SumPlus
<1>10. SumFunctionOnSet(h, E) = SumFunctionOnSet(h, P)
  <2>1. (\A p \in P : h[p] \in Int) /\ \A p \in P \ E : h[p] = 0
    BY <1>7, <1>8
  <2> QED BY <1>3, <1>4, <2>1, SumOnly
<1>11. SumFunctionOnSet(r, E) = SumFunctionOnSet(h, E)
  <2>1. \A p \in E : r[p] = h[p] /\ h[p] \in Int
    BY <1>6
  <2> QED BY <1>4, <2>1, SumSame
<1>12. SumFunctionOnSet(g, P) \in Int /\ SumFunctionOnSet(h, P) \in Int
  BY <1>4, <1>8, SumStep
<1> QED BY <1>1, <1>2, <1>9, <1>10, <1>11, <1>12

\* A day's figure is an integer.
LEMMA FigureType ==
  ASSUME Readable, NEW figure \in Figures, NEW d \in Days
  PROVE  Figure(figure, d) \in Int
<1>1. CASE figure = "spend"
  BY <1>1 DEF Figure, Readable, Db
<1>2. CASE figure \in {"revenue", "profit"}
  <2>1. \A p \in Products : Column(figure, d)[p] \in Int
    BY ValueType DEF Column
  <2>2. SumFunctionOnSet(Column(figure, d), Products) \in Int
    BY <2>1, ProductsAssumption, SumStep
  <2> QED BY <1>2, <2>2, FigureIsColumn
<1> QED BY <1>1, <1>2 DEF Figures

\* The trend lines of a range, by day or by month, add up to the range's totals.
LEMMA TrendsAddUp ==
  ASSUME Readable, NEW figure \in Figures, NEW from \in Days, NEW to \in from..MaxDay,
         NEW monthly \in BOOLEAN
  PROVE  Totals(figure, from..to) = SumFunction(Trends(figure, from, to, monthly))
<1> DEFINE S       == from..to
           K       == TrendKeys(from, to, monthly)
           b       == [d \in S |-> Bucket(d, monthly)]
           f       == [d \in S |-> Figure(figure, d)]
           days(k) == {d \in S : Bucket(d, monthly) = k}
           lines   == Trends(figure, from, to, monthly)
<1>1. S \subseteq Days /\ IsFiniteSet(S) /\ from \in Nat /\ to \in Nat
  BY RangeDays
<1>2. IsFiniteSet(K) /\ \A d \in S : b[d] \in K
  BY <1>1, EveryDayHasALine
<1>3. \A d \in S : f[d] \in Int
  BY <1>1, FigureType
<1>4. lines = [k \in K |-> Totals(figure, days(k))]
  BY DEF Trends
<1>5. ASSUME NEW k \in K
      PROVE  lines[k] = SumFunctionOnSet(f, Part(S, b, k))
  <2> DEFINE e == [d \in days(k) |-> Figure(figure, d)]
  <2>1. Part(S, b, k) = days(k)
    BY DEF Part
  <2>2. lines[k] = SumFunction(e)
    BY <1>4 DEF Totals
  <2>3. DOMAIN e = days(k)
    OBVIOUS
  <2>4. \A d \in days(k) : f[d] = e[d] /\ e[d] \in Int
    BY <1>3
  <2>5. IsFiniteSet(days(k))
    <3>1. days(k) \subseteq S
      OBVIOUS
    <3> HIDE DEF days, S
    <3> QED BY <1>1, <3>1, FS_Subset
  <2> HIDE DEF e, f, days, S, K, lines, b
  <2>6. SumFunctionOnSet(f, days(k)) = SumFunctionOnSet(e, days(k))
    BY <2>4, <2>5, SumSame
  <2> QED BY <2>1, <2>2, <2>3, <2>6 DEF SumFunction
<1>6. DOMAIN lines = K /\ DOMAIN f = S
  BY <1>4
<1>7. Totals(figure, S) = SumFunctionOnSet(f, S)
  BY <1>6 DEF Totals, SumFunction
<1>8. SumFunction(lines) = SumFunctionOnSet(lines, K)
  BY <1>6 DEF SumFunction
<1> HIDE DEF f, S, K, b, lines, days
<1>9. PartSums(lines, f, S, b, K)
  BY <1>5 DEF PartSums
<1>10. SumFunctionOnSet(lines, K) = SumFunctionOnSet(f, S)
  <2>1. IsFiniteSet(S) /\ IsFiniteSet(K)
    BY <1>1, <1>2
  <2>2. \A d \in S : b[d] \in K
    BY <1>2
  <2> QED BY <1>3, <1>9, <2>1, <2>2, SumParts
<1> QED BY <1>7, <1>8, <1>10 DEF S, lines

\* The summary's month so far spends what the whole month does: nothing is bought in advance.
LEMMA MonthSoFar ==
  ASSUME Readable
  PROVE  MonthSpend = Totals("spend", MonthOf(today) \cap Days)
<1> DEFINE S == MonthOf(today) \cap Days
           T == (FirstOfMonth(today)..today) \cap Days
           f == [d \in S |-> Figure("spend", d)]
           e == [d \in T |-> Figure("spend", d)]
<1>1. today \in Nat /\ IsFiniteSet(Days)
  <2>1. MaxDay \in Nat /\ today \in 1..MaxDay
    BY BoundsAssumption DEF Readable, Days
  <2>2. IsFiniteSet(1..MaxDay)
    BY <2>1, FS_Interval
  <2> QED BY <2>1, <2>2 DEF Days
<1>2. /\ FirstOfMonth(today) \in Nat /\ MonthDays \in Nat
      /\ today <= FirstOfMonth(today) + MonthDays - 1
  BY <1>1, Months, MonthAssumption
<1>3. T \subseteq S /\ \A d \in S \ T : d > today
  BY <1>1, <1>2 DEF MonthOf, Days
<1>4. IsFiniteSet(S) /\ IsFiniteSet(T)
  BY <1>1, <1>3, FS_Subset
<1>5. \A d \in S : f[d] = db.procured[d] /\ f[d] \in Int
  BY DEF Figure, Readable, Db
<1>6. \A d \in S \ T : f[d] = 0
  BY <1>3, <1>5 DEF Readable, Blank
<1>7. \A d \in T : e[d] = f[d] /\ f[d] \in Int
  BY <1>3, <1>5
<1>8. DOMAIN f = S /\ DOMAIN e = T
  OBVIOUS
<1>9. Totals("spend", S) = SumFunctionOnSet(f, S)
  BY <1>8 DEF Totals, SumFunction
<1>10. MonthSpend = SumFunctionOnSet(e, T)
  BY <1>8 DEF MonthSpend, Totals, SumFunction
<1> HIDE DEF S, T, f, e
<1>11. SumFunctionOnSet(e, T) = SumFunctionOnSet(f, T)
  BY <1>4, <1>7, SumSame
<1>12. SumFunctionOnSet(f, T) = SumFunctionOnSet(f, S)
  BY <1>3, <1>4, <1>5, <1>6, SumOnly
<1> QED BY <1>9, <1>10, <1>11, <1>12 DEF S

\* Between two transactions the reports read data that is fit for it.
LEMMA ReportsReadable == MoneyInv /\ SnapInv => Readable
<1> SUFFICES ASSUME MoneyInv, SnapInv PROVE Readable
  OBVIOUS
<1>1. db \in Db /\ Ordered(db) /\ today \in Days /\ Blank(db, today)
  BY DEF SnapInv, IInv, ViewOK
<1>2. \A p \in Products : \A d \in Days \ db.entered[p] : db.entry[p][d] = NoEntry
  BY DEF MoneyInv, MoneyOK, Accounts
<1>3. ASSUME NEW d \in Days PROVE db.snapshot[d].items = RowsBut(db, d, {})
  <2>1. Made(db, d) /\ DerivedDay(db, d)
    BY DEF SnapInv
  <2>2. CASE db.snapshot[d].made
    BY <2>1, <2>2, FullRebuild DEF DerivedDay
  <2>3. CASE ~db.snapshot[d].made
    <3>1. db.snapshot[d].items = {}
      BY <1>1, <2>3 DEF Blank
    <3>2. {q \in Products : d \in db.entered[q] /\ q \notin {}} = {}
      BY <2>1, <2>3 DEF Made
    <3> HIDE DEF BuildSnapshotItem
    <3> QED BY <3>1, <3>2 DEF RowsBut
  <2> QED BY <2>2, <2>3
<1> QED BY <1>1, <1>2, <1>3 DEF Readable

\* The screens of one range never contradict each other: the procurement analytics, built
\* from snapshots, earn what the inventory report, built from entries, earns
\* (procurement.analytics.ts, inventory.logic.ts); the trend lines, by day or by month, add up
\* to the totals above them; a single day has sold what it opened with less what is left; and
\* the summary's month is the analytics' month.
THEOREM ReportsNeverDisagree == Spec => []ReportsAgree
<1>1. ASSUME Readable PROVE ReportsAgree
  <2>1. ASSUME NEW from \in Days, NEW to \in from..MaxDay
        PROVE  /\ from = to => InventoryReport(from, to).start - InventoryReport(from, to).current
                                 = InventoryReport(from, to).sold
               /\ Totals("revenue", from..to) = InventoryReport(from, to).revenue
               /\ Totals("profit", from..to) = InventoryReport(from, to).profit
               /\ \A figure \in Figures, monthly \in BOOLEAN :
                    Totals(figure, from..to) = SumFunction(Trends(figure, from, to, monthly))
    <3>1. from = to => InventoryReport(from, to).start - InventoryReport(from, to).current
                         = InventoryReport(from, to).sold
      BY <1>1, OneDayReport
    <3>2. /\ Totals("revenue", from..to) = InventoryReport(from, to).revenue
          /\ Totals("profit", from..to) = InventoryReport(from, to).profit
      BY <1>1, AnalyticsMatchInventory
    <3>3. \A figure \in Figures, monthly \in BOOLEAN :
            Totals(figure, from..to) = SumFunction(Trends(figure, from, to, monthly))
      BY <1>1, TrendsAddUp
    <3> QED BY <3>1, <3>2, <3>3
  <2>2. \A figure \in Figures : figure # "spend" => figure \in {"revenue", "profit"}
    BY DEF Figures
  <2>3. MonthSpend = Totals("spend", MonthOf(today) \cap Days)
    BY <1>1, MonthSoFar
  <2> QED BY <2>1, <2>2, <2>3 DEF ReportsAgree
<1>2. MoneyInv /\ SnapInv => ReportsAgree
  BY <1>1, ReportsReadable
<1> QED
  BY <1>2, MoneyInvariance, SnapshotInvariance, PTL
=============================================================================
