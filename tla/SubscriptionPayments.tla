------------------------ MODULE SubscriptionPayments ------------------------
(***************************************************************************)
(* The payments and the subscription of one business: payment.service,     *)
(* tezcheck.service, the Click callbacks, subscription.service and the     *)
(* hourly jobs of server.ts.  Every handler that writes runs in a          *)
(* transaction under the owner's fence (OwnerTransaction), so each is one  *)
(* action; what the expiry job and the reminders read without the fence is *)
(* kept in "lapsing" and "told" and may be stale when they write.          *)
(* Callbacks, bot calls and jobs may come in any order, any number of      *)
(* times and arbitrarily late.  Receipts and card details, amounts and     *)
(* signatures are left out: no grant depends on them.  Months are counted  *)
(* from an arbitrary start; calendar days are left out.                    *)
(***************************************************************************)
EXTENDS Naturals, Sequences

CONSTANTS
    Payments,       \* the payments the business may open
    MethodOf,       \* how each is paid: "click", "manual_card" or "tezcheck"
    TierOf,         \* the tier each buys
    MonthsOf,       \* the months each buys
    Terms,          \* the months a superAdmin may grant
    Trans,          \* Click transaction ids
    Bills,          \* TezCheck bill ids
    Events,         \* TezCheck event ids
    None,
    KeptEvents,     \* how many processed event ids a payment remembers
    MaxRefund,      \* bound on the refunded amount an event reports
    MaxNow,         \* bound on time
    MaxEnd,         \* bound on the deadline a superAdmin's grant reaches
    MaxPeriods,     \* bound on the subscription documents
    MaxWithdrawals  \* bound on the deactivations

ASSUME PlanAssumption ==
    /\ MethodOf \in [Payments -> {"click", "manual_card", "tezcheck"}]
    /\ TierOf \in [Payments -> {"bor", "pro"}]
    /\ MonthsOf \in [Payments -> Nat \ {0}]
    /\ Terms \subseteq Nat \ {0}
    /\ None \notin Trans \cup Bills
    /\ {KeptEvents, MaxRefund, MaxNow, MaxEnd, MaxPeriods, MaxWithdrawals} \subseteq Nat

VARIABLES
    now,            \* the current month
    payments,       \* the payment documents
    sub,            \* the latest subscription document
    grants,         \* subscription_grants: the payments that have a grant
    open,           \* whether the account is active
    lapsing,        \* subscriptions the expiry job found and has yet to close
    told,           \* periods whose expiry the bot has announced
    withdrawals     \* the audit records of deactivations

vars == <<now, payments, sub, grants, open, lapsing, told, withdrawals>>

Tiers == {"bor", "pro"}
Statuses == {"absent", "pending", "provisioned", "rejected", "completed",
             "cancelled"}

Payment == [status : Statuses, review : BOOLEAN, trans : Trans \cup {None},
            bill : Bills \cup {None}, refunded : Nat, events : Seq(Events)]
Subscription == [id : Nat, tier : Tiers, end : Nat, active : BOOLEAN,
                 reminded : BOOLEAN]
Period == [id : Nat, end : Nat]

NoPayment == [status |-> "absent", review |-> FALSE, trans |-> None,
              bill |-> None, refunded |-> 0, events |-> <<>>]

-----------------------------------------------------------------------------
(* The subscription document *)

\* computeTier: the expiry is read, never the isPayed flag or the job's work.
InForce == sub.active /\ sub.end > now
Tier == IF InForce THEN sub.tier ELSE "tekin"

Later(a, b) == IF a > b THEN a ELSE b

\* A Bor purchase may not overwrite Pro time that still runs.
MayActivate(tier) == ~(InForce /\ sub.tier = "pro" /\ tier = "bor")

\* Extend the active document, or open the next one.
Activated(tier, months) ==
    IF sub.active
    THEN [sub EXCEPT !.tier = tier, !.end = Later(sub.end, now) + months,
                     !.reminded = FALSE]
    ELSE [id |-> sub.id + 1, tier |-> tier, end |-> now + months,
          active |-> TRUE, reminded |-> FALSE]

\* Mutant: a refused activation is swallowed and the payment completes.
ActivateOrIgnore(p) ==
    IF open /\ p \notin grants /\ MayActivate(TierOf[p])
    THEN sub' = Activated(TierOf[p], MonthsOf[p]) /\ grants' = grants \cup {p}
    ELSE UNCHANGED <<sub, grants>>

\* activateFromPayment inside the transaction that completes the payment: a
\* refusal (closed account, running Pro period) undoes the whole transaction.
\* A payment that has its grant already moves nothing.
ActivateFromPayment(p) ==
    /\ open
    /\ \/ p \in grants /\ UNCHANGED <<sub, grants>>
       \/ /\ p \notin grants
          /\ MayActivate(TierOf[p])
          /\ sub' = Activated(TierOf[p], MonthsOf[p])
          /\ grants' = grants \cup {p}

-----------------------------------------------------------------------------
(* What administrators are shown *)

\* getPending.
PendingList == {p \in Payments : \/ payments[p].status \in {"pending", "provisioned"}
                                \/ payments[p].review}

\* The columns the summary of listPaymentHistory counts and sums.
HistorySummary ==
    LET column(statuses) == {p \in Payments : payments[p].status \in statuses}
    IN  [total    |-> column(Statuses \ {"absent"}),
         settled  |-> column({"completed", "approved"}),
         pending  |-> column({"pending", "provisioned"}),
         rejected |-> column({"rejected", "cancelled"})]

-----------------------------------------------------------------------------
\* The documents a business may begin with: none, a Bor trial, or the one an
\* earlier release wrote when it read the amount on a receipt of p and gave the
\* tier at once, without a grant record.
Unsubscribed == [id |-> 0, tier |-> "bor", end |-> 0, active |-> FALSE,
                 reminded |-> FALSE]
Trial == [id |-> 1, tier |-> "bor", end |-> 1, active |-> TRUE,
          reminded |-> FALSE]
Provisional(p) == [id |-> 1, tier |-> TierOf[p], end |-> MonthsOf[p],
                   active |-> TRUE, reminded |-> FALSE]

\* Manual payments of an earlier release may still be provisioned; the
\* subscription that runs is then what the last of them gave.
Init == /\ now = 0
        /\ \E legacy \in SUBSET {p \in Payments : MethodOf[p] = "manual_card"} :
              /\ sub \in IF legacy = {} THEN {Unsubscribed, Trial}
                                       ELSE {Provisional(p) : p \in legacy}
              /\ payments = [p \in Payments |->
                    IF p \in legacy THEN [NoPayment EXCEPT !.status = "provisioned"]
                                    ELSE NoPayment]
        /\ grants = {}
        /\ open = TRUE
        /\ lapsing = {}
        /\ told = {}
        /\ withdrawals = 0

\* createManualPayment, createClickPending and TezCheck create, whose request
\* key makes a repeated order answer with the first one.
CreatePayment(p) ==
    /\ open
    /\ payments[p].status = "absent"
    /\ payments' = [payments EXCEPT ![p].status = "pending"]
    /\ UNCHANGED <<now, sub, grants, open, lapsing, told, withdrawals>>

\* approveManualPayment.
ApproveManual(p) ==
    /\ MethodOf[p] = "manual_card"
    /\ payments[p].status = "pending"
    /\ ActivateFromPayment(p)
    /\ payments' = [payments EXCEPT ![p].status = "completed"]
    /\ UNCHANGED <<now, open, lapsing, told, withdrawals>>

\* rejectPayment, of an administrator or of the job that gives up on old
\* provisional receipts: the subscription is left alone and the payment of a
\* provisional grant goes to review.
Rejectable(p) == /\ payments[p].status \in {"pending", "provisioned"}
                 /\ MethodOf[p] = "tezcheck" => payments[p].review

RejectPayment(p) ==
    /\ Rejectable(p)
    /\ payments' = [payments EXCEPT
            ![p].status = "rejected",
            ![p].review = payments[p].status = "provisioned"]
    /\ UNCHANGED <<now, sub, grants, open, lapsing, told, withdrawals>>

-----------------------------------------------------------------------------
(* Click *)

\* A Click transaction id belongs to one payment (idx_unique_click_transaction).
TransFits(p, t) == /\ payments[p].trans \in {None, t}
                   /\ \A q \in Payments \ {p} : payments[q].trans # t

\* completeClickPayment: everything the controller compared is read again under
\* the fence, so what it read before is left out.
CompleteClick(p, t) ==
    /\ MethodOf[p] = "click"
    /\ payments[p].status = "pending"
    /\ TransFits(p, t)
    /\ ActivateFromPayment(p)
    /\ payments' = [payments EXCEPT ![p].status = "completed", ![p].trans = t]
    /\ UNCHANGED <<now, open, lapsing, told, withdrawals>>

\* Mutant: a late failure callback cancels whatever is not cancelled yet.
NotCancelled(p) == payments[p].status \notin {"absent", "cancelled"}

\* cancelClickPayment: the provider reports a failure, now or long ago.
Cancellable(p) == payments[p].status = "pending"

CancelClick(p) ==
    /\ MethodOf[p] = "click"
    /\ Cancellable(p)
    /\ payments' = [payments EXCEPT ![p].status = "cancelled"]
    /\ UNCHANGED <<now, sub, grants, open, lapsing, told, withdrawals>>

-----------------------------------------------------------------------------
(* TezCheck *)

\* bind: the bill of the checkout; a completed payment is left as it is.
BindBill(p, b) ==
    /\ MethodOf[p] = "tezcheck"
    /\ payments[p].status = "pending"
    /\ payments[p].bill \in {None, b}
    /\ \A q \in Payments \ {p} : payments[q].bill # b
    /\ payments' = [payments EXCEPT ![p].bill = b]
    /\ UNCHANGED <<now, sub, grants, open, lapsing, told, withdrawals>>

\* The last event ids, the new one included.
Remembered(events, e) ==
    LET all == Append(events, e)
    IN  IF Len(all) > KeptEvents
        THEN SubSeq(all, Len(all) - KeptEvents + 1, Len(all))
        ELSE all

\* settle, for an event that is not known: what it records of the provider.
Settled(p, e, b, refund) ==
    [payments[p] EXCEPT !.bill = b,
                        !.refunded = Later(payments[p].refunded, refund),
                        !.events = Remembered(payments[p].events, e)]

\* Mutant: the refunded amount of a succeeded payment is not looked at.
CleanState(state, refund) == state = "succeeded"

Clean(state, refund) == state = "succeeded" /\ refund = 0

\* Mutant: the review flag is not looked at.
StillPending(p) == payments[p].status = "pending"

\* A payment under review is not granted by a later success.
Settleable(p) == payments[p].status = "pending" /\ ~payments[p].review

Settle(p, e, b, state, refund) ==
    /\ MethodOf[p] = "tezcheck"
    /\ payments[p].status # "absent"
    /\ payments[p].bill \in {None, b}
    /\ \A q \in Payments \ {p} : payments[q].bill # b
    /\ \A i \in 1..Len(payments[p].events) : payments[p].events[i] # e
    /\ \/ /\ ~Clean(state, refund)
          /\ payments' = [payments EXCEPT
                ![p] = [Settled(p, e, b, refund) EXCEPT !.review = TRUE]]
          /\ UNCHANGED <<sub, grants>>
       \/ /\ Clean(state, refund)
          /\ Settleable(p)
          /\ ActivateFromPayment(p)
          /\ payments' = [payments EXCEPT
                ![p] = [Settled(p, e, b, refund) EXCEPT !.status = "completed"]]
       \/ /\ Clean(state, refund)
          /\ payments[p].status = "completed"
          /\ payments' = [payments EXCEPT ![p] = Settled(p, e, b, refund)]
          /\ UNCHANGED <<sub, grants>>
    /\ UNCHANGED <<now, open, lapsing, told, withdrawals>>

-----------------------------------------------------------------------------
(* The superAdmin *)

Activate(tier, months) ==
    /\ open
    /\ MayActivate(tier)
    /\ Activated(tier, months).end <= MaxEnd
    /\ Activated(tier, months).id <= MaxPeriods
    /\ sub' = Activated(tier, months)
    /\ UNCHANGED <<now, payments, grants, open, lapsing, told, withdrawals>>

\* The withdrawal leaves an audit record, a lapse does not.
Deactivate == /\ open
              /\ withdrawals < MaxWithdrawals
              /\ sub' = [sub EXCEPT !.active = FALSE]
              /\ withdrawals' = withdrawals + 1
              /\ UNCHANGED <<now, payments, grants, open, lapsing, told>>

\* updateAdmin closes or reopens the account.
SetOpen == /\ open' = ~open
           /\ UNCHANGED <<now, payments, sub, grants, lapsing, told, withdrawals>>

-----------------------------------------------------------------------------
(* Background jobs and the bot *)

\* refreshExpiredSubscriptions finds without the fence and closes under it.
FindExpired == /\ sub.active /\ sub.end < now
               /\ lapsing' = lapsing \cup {sub.id}
               /\ UNCHANGED <<now, payments, sub, grants, open, told, withdrawals>>

\* Mutant: the job trusts what it found before it took the fence.
FoundExpired(id) == sub.id = id /\ sub.active

StillExpired(id) == sub.id = id /\ sub.active /\ sub.end < now

CloseExpired(id) ==
    /\ id \in lapsing
    /\ lapsing' = lapsing \ {id}
    /\ sub' = IF StillExpired(id) THEN [sub EXCEPT !.active = FALSE] ELSE sub
    /\ UNCHANGED <<now, payments, grants, open, told, withdrawals>>

\* findExpiringSoon, then the bot's message to the owner.
RemindOwner ==
    /\ sub.active /\ sub.end >= now /\ ~sub.reminded
    /\ told' = told \cup {[id |-> sub.id, end |-> sub.end]}
    /\ UNCHANGED <<now, payments, sub, grants, open, lapsing, withdrawals>>

\* Mutant: the mark names the subscription but not its period.
SameSubscription(t) == sub.id = t.id /\ sub.active

\* markReminderSent, repeated or late; a lost one never comes.
SamePeriod(t) == sub.id = t.id /\ sub.end = t.end /\ sub.active

MarkReminderSent(t) ==
    /\ t \in told
    /\ SamePeriod(t)
    /\ sub' = [sub EXCEPT !.reminded = TRUE]
    /\ UNCHANGED <<now, payments, grants, open, lapsing, told, withdrawals>>

Tick == /\ now < MaxNow
        /\ now' = now + 1
        /\ UNCHANGED <<payments, sub, grants, open, lapsing, told, withdrawals>>

-----------------------------------------------------------------------------
Next == \/ \E p \in Payments :
              \/ CreatePayment(p)
              \/ ApproveManual(p)
              \/ RejectPayment(p)
              \/ \E t \in Trans : CompleteClick(p, t)
              \/ CancelClick(p)
              \/ \E b \in Bills : BindBill(p, b)
              \/ \E e \in Events, b \in Bills,
                    state \in {"succeeded", "disputed"}, r \in 0..MaxRefund :
                    Settle(p, e, b, state, r)
        \/ \E t \in Tiers, m \in Terms : Activate(t, m)
        \/ Deactivate
        \/ SetOpen
        \/ FindExpired
        \/ \E id \in lapsing : CloseExpired(id)
        \/ RemindOwner
        \/ \E t \in told : MarkReminderSent(t)
        \/ Tick

Spec == Init /\ [][Next]_vars

-----------------------------------------------------------------------------
(* Properties *)

\* The documents are well formed, a payment remembers no more event ids than
\* it may (tezcheck.service.ts:45), and only TezCheck reports refunds.
TypeOK ==
    /\ now \in 0..MaxNow
    /\ payments \in [Payments -> Payment]
    /\ sub \in Subscription
    /\ grants \subseteq Payments
    /\ open \in BOOLEAN
    /\ lapsing \subseteq Nat
    /\ told \subseteq Period
    /\ withdrawals \in 0..MaxWithdrawals
    /\ \A p \in Payments : /\ Len(payments[p].events) <= KeptEvents
                           /\ payments[p].refunded > 0 => MethodOf[p] = "tezcheck"

\* A payment and its grant commit together: a payment is completed exactly
\* when its months were added, whatever failed or was repeated on the way.  What
\* the history counts as settled was granted, and its columns miss no payment.
CompletedIffGranted ==
    /\ \A p \in Payments : payments[p].status = "completed" <=> p \in grants
    /\ HistorySummary.settled = grants
    /\ HistorySummary.total = grants \cup HistorySummary.pending \cup HistorySummary.rejected

\* A payment the provider took money back from is marked for review, and in the
\* list of an administrator, until it is rejected, in whatever order its events
\* arrive.
RefundsAwaitReview ==
    \A p \in Payments : payments[p].refunded > 0 =>
        \/ payments[p].status = "rejected"
        \/ payments[p].review /\ p \in PendingList

\* A subscription is marked as reminded only when the bot announced the end of
\* the period that runs now: a renewal between the message and the mark gets
\* its own reminder.
RemindedOfThisPeriod ==
    sub.active /\ sub.reminded => [id |-> sub.id, end |-> sub.end] \in told

\* A payment is decided once: no late approval, callback, settlement or job
\* moves a completed, rejected or cancelled payment.
DecidedOnce ==
    [][\A p \in Payments :
          payments[p].status \in {"completed", "rejected", "cancelled"} =>
              payments'[p].status = payments[p].status]_vars

\* A refund that is seen before the success it undoes keeps the payment from
\* ever buying time.
RefundedNeverBuys ==
    [][\A p \in Payments :
          payments[p].refunded > 0 /\ p \notin grants => p \notin grants']_vars

\* The paid time of the business is the promised one: payments add their
\* months once and after what was already paid, only the superAdmin withdraws
\* it, and the expiry job, the reminders and repeated callbacks do not touch it.
Until == IF InForce THEN sub.end ELSE 0

Promise == INSTANCE Entitlement
              WITH until <- Until, tier <- Tier, credited <- grants

ImplementsEntitlement == Promise!Spec

\* The running period is the one the receipt of p gave: every activation since
\* would have moved its end or opened another document.
GivenByReceipt(p) == /\ InForce
                     /\ [sub EXCEPT !.reminded = FALSE] = Provisional(p)

\* server.ts:61-64: a provisional payment nobody confirmed "has its tier taken
\* back automatically, the same way an admin's Reject would".  What is to be
\* taken back is the very tier the receipt gave, when nothing else bought it.
RejectedReceiptLosesTier ==
    [][\A p \in Payments :
          /\ payments[p].status = "provisioned"
          /\ payments'[p].status = "rejected"
          /\ GivenByReceipt(p)
          => Tier' = "tekin"]_vars
=============================================================================
