--------------------- MODULE SubscriptionPaymentsProofs ---------------------
(***************************************************************************)
(* Proofs about SubscriptionPayments for every set of payments, every plan *)
(* and every bound: its invariants, that a payment is decided once, that a *)
(* refunded payment never buys time, and that the paid time of a business  *)
(* is the one Entitlement promises.                                        *)
(***************************************************************************)
EXTENDS SubscriptionPayments, SequenceTheorems, TLAPS

\* The parts of two invariants that are inductive; what administrators are
\* shown follows from them.
DoneIffGranted == \A p \in Payments : payments[p].status = "completed" <=> p \in grants
RefundsMarked == \A p \in Payments : payments[p].refunded > 0 =>
                    payments[p].review \/ payments[p].status = "rejected"

\* The inductive invariant.
IInv == /\ TypeOK
        /\ DoneIffGranted
        /\ RefundsMarked
        /\ RemindedOfThisPeriod

\* Extending or opening a subscription gives a well-formed document that is
\* in force, whose reminder is still to come.
LEMMA ActivatedType ==
    ASSUME sub \in Subscription, now \in Nat, NEW t \in Tiers, NEW m \in Nat
    PROVE  /\ Activated(t, m) \in Subscription
           /\ ~Activated(t, m).reminded
<1>1. Later(sub.end, now) + m \in Nat /\ now + m \in Nat /\ sub.id + 1 \in Nat
  BY DEF Later, Subscription
<1>2. CASE sub.active
  <2> DEFINE end == Later(sub.end, now) + m
  <2>1. Activated(t, m) = [sub EXCEPT !.tier = t, !.end = end, !.reminded = FALSE]
    BY <1>2 DEF Activated
  <2> HIDE DEF end
  <2>2. end \in Nat
    BY <1>1 DEF end
  <2> QED BY <2>1, <2>2 DEF Subscription
<1>3. CASE ~sub.active
  <2>1. Activated(t, m) = [id |-> sub.id + 1, tier |-> t, end |-> now + m,
                           active |-> TRUE, reminded |-> FALSE]
    BY <1>3, Zenon DEF Activated
  <2> QED BY <1>1, <2>1 DEF Subscription
<1> QED BY <1>2, <1>3

\* The remembered event ids are event ids, and no more than may be kept.
LEMMA RememberedType ==
    ASSUME NEW events \in Seq(Events), NEW e \in Events
    PROVE  /\ Remembered(events, e) \in Seq(Events)
           /\ Len(Remembered(events, e)) <= KeptEvents
<1> DEFINE all == Append(events, e)
<1> USE PlanAssumption
<1>1. all \in Seq(Events) /\ Len(all) = Len(events) + 1 /\ Len(all) \in Nat
  OBVIOUS
<1>2. CASE Len(all) > KeptEvents
  <2> DEFINE tail == SubSeq(all, Len(all) - KeptEvents + 1, Len(all))
  <2>1. Remembered(events, e) = tail
    BY <1>2 DEF Remembered
  <2>2. /\ Len(all) - KeptEvents + 1 \in 1..(Len(all) + 1)
        /\ Len(all) - KeptEvents + 1 \in Int /\ Len(all) \in Int
        /\ KeptEvents \in Nat
        /\ KeptEvents = 0 => ~(Len(all) - KeptEvents + 1 <= Len(all))
    BY <1>1, <1>2
  <2>3. \A i \in (Len(all) - KeptEvents + 1)..Len(all) : all[i] \in Events
    <3> HIDE DEF all
    <3> QED BY <1>1, <2>2, ElementOfSeq
  <2>4. /\ tail \in Seq(Events)
        /\ Len(tail) = IF Len(all) - KeptEvents + 1 <= Len(all)
                       THEN Len(all) - (Len(all) - KeptEvents + 1) + 1 ELSE 0
    <3> HIDE DEF all
    <3> QED BY <2>2, <2>3, SubSeqProperties
  <2>5. Len(tail) <= KeptEvents
    <3> HIDE DEF tail, all
    <3> QED BY <1>1, <2>2, <2>4
  <2> HIDE DEF tail, all
  <2> QED BY <2>1, <2>4, <2>5
<1>3. CASE ~(Len(all) > KeptEvents)
  BY <1>1, <1>3 DEF Remembered
<1> QED BY <1>2, <1>3

\* A payment after an accepted event.
LEMMA SettledType ==
    ASSUME TypeOK, NEW p \in Payments, NEW e \in Events, NEW b \in Bills,
           NEW r \in 0..MaxRefund
    PROVE  /\ Settled(p, e, b, r) \in Payment
           /\ Len(Settled(p, e, b, r).events) <= KeptEvents
           /\ Settled(p, e, b, r).status = payments[p].status
           /\ Settled(p, e, b, r).review = payments[p].review
           /\ Settled(p, e, b, r).refunded = Later(payments[p].refunded, r)
<1> DEFINE kept == Remembered(payments[p].events, e)
<1>1. payments[p] \in Payment
  BY DEF TypeOK
<1>2. kept \in Seq(Events) /\ Len(kept) <= KeptEvents
  BY <1>1, RememberedType DEF Payment
<1>3. Later(payments[p].refunded, r) \in Nat
  BY <1>1, PlanAssumption DEF Payment, Later
<1> HIDE DEF kept
<1>4. Settled(p, e, b, r) = [payments[p] EXCEPT !.bill = b,
          !.refunded = Later(payments[p].refunded, r), !.events = kept]
  BY DEF Settled, kept
<1> QED BY <1>1, <1>2, <1>3, <1>4 DEF Payment

\* What a completed activation leaves, whatever action it is part of.
LEMMA ActivationStep ==
    ASSUME IInv, NEW p \in Payments, ActivateFromPayment(p),
           payments[p].status = "pending", UNCHANGED <<now, told>>
    PROVE  /\ p \notin grants
           /\ MayActivate(TierOf[p])
           /\ sub' = Activated(TierOf[p], MonthsOf[p])
           /\ grants' = grants \cup {p}
           /\ sub' \in Subscription
           /\ RemindedOfThisPeriod'
<1>1. p \notin grants
  BY DEF IInv, DoneIffGranted
<1>2. /\ MayActivate(TierOf[p])
      /\ sub' = Activated(TierOf[p], MonthsOf[p])
      /\ grants' = grants \cup {p}
  BY <1>1 DEF ActivateFromPayment
<1>3. TierOf[p] \in Tiers /\ MonthsOf[p] \in Nat /\ sub \in Subscription /\ now \in Nat
  BY PlanAssumption DEF IInv, TypeOK, Tiers
<1>4. sub' \in Subscription /\ ~sub'.reminded
  BY <1>2, <1>3, ActivatedType
<1> QED BY <1>1, <1>2, <1>4 DEF RemindedOfThisPeriod

\* A step that writes one payment and leaves the subscription alone.
LEMMA PaymentStep ==
    ASSUME IInv, NEW p \in Payments, NEW d \in Payment,
           payments' = [payments EXCEPT ![p] = d],
           Len(d.events) <= KeptEvents,
           d.status = "completed" <=> p \in grants',
           d.refunded > 0 => d.review \/ d.status = "rejected",
           d.refunded > 0 => MethodOf[p] = "tezcheck",
           \/ grants' = grants
           \/ grants' = grants \cup {p},
           sub' \in Subscription, RemindedOfThisPeriod',
           UNCHANGED <<now, open, lapsing, told, withdrawals>>
    PROVE  IInv'
<1>1. \A q \in Payments : payments'[q] = IF q = p THEN d ELSE payments[q]
  BY DEF IInv, TypeOK
<1>2. payments' \in [Payments -> Payment]
  BY DEF IInv, TypeOK
<1>3. TypeOK'
  BY <1>1, <1>2 DEF IInv, TypeOK
<1>4. DoneIffGranted'
  BY <1>1 DEF IInv, DoneIffGranted
<1>5. RefundsMarked'
  BY <1>1 DEF IInv, RefundsMarked
<1> QED BY <1>3, <1>4, <1>5 DEF IInv

\* A step that leaves the payments and grants alone.
LEMMA SubscriptionStep ==
    ASSUME IInv, UNCHANGED <<payments, grants>>,
           now' \in 0..MaxNow, sub' \in Subscription, open' \in BOOLEAN,
           lapsing' \subseteq Nat, told' \subseteq Period,
           withdrawals' \in 0..MaxWithdrawals, RemindedOfThisPeriod'
    PROVE  IInv'
BY DEF IInv, TypeOK, DoneIffGranted, RefundsMarked

\* The invariant of one payment.
LEMMA Facts ==
    ASSUME IInv, NEW p \in Payments
    PROVE  /\ payments[p] \in Payment
           /\ Len(payments[p].events) <= KeptEvents
           /\ payments[p].status = "completed" <=> p \in grants
           /\ payments[p].refunded > 0 =>
                  payments[p].review \/ payments[p].status = "rejected"
           /\ payments[p].refunded > 0 => MethodOf[p] = "tezcheck"
<1>1. TypeOK
  BY DEF IInv
<1>2. payments[p] \in Payment
  BY <1>1 DEF TypeOK
<1>3. /\ Len(payments[p].events) <= KeptEvents
      /\ payments[p].refunded > 0 => MethodOf[p] = "tezcheck"
  BY <1>1, Zenon DEF TypeOK
<1>4. /\ payments[p].status = "completed" <=> p \in grants
      /\ payments[p].refunded > 0 =>
             payments[p].review \/ payments[p].status = "rejected"
  BY Zenon DEF IInv, DoneIffGranted, RefundsMarked
<1> QED BY <1>2, <1>3, <1>4, Zenon

\* The document a business begins with is well formed, and is in force
\* unless there is none.
LEMMA FirstDocument ==
    ASSUME NEW legacy \in SUBSET Payments,
           NEW d \in IF legacy = {} THEN {Unsubscribed, Trial}
                                   ELSE {Provisional(p) : p \in legacy}
    PROVE  /\ d \in Subscription
           /\ ~d.reminded
           /\ ~d.active \/ d.end > 0
<1>1. CASE d = Unsubscribed
  BY <1>1 DEF Unsubscribed, Subscription, Tiers
<1>2. CASE d = Trial
  BY <1>2 DEF Trial, Subscription, Tiers
<1>3. ASSUME NEW p \in Payments, d = Provisional(p)
      PROVE  /\ d \in Subscription
             /\ ~d.reminded
             /\ d.end > 0
  <2>1. TierOf[p] \in Tiers /\ MonthsOf[p] \in Nat /\ MonthsOf[p] > 0
    BY PlanAssumption DEF Tiers
  <2> QED BY <1>3, <2>1 DEF Provisional, Subscription
<1>4. d = Unsubscribed \/ d = Trial \/ \E p \in Payments : d = Provisional(p)
  BY Zenon
<1> QED BY <1>1, <1>2, <1>3, <1>4

\* Init establishes the invariant.
LEMMA InitInvariant == Init => IInv
<1> SUFFICES ASSUME Init PROVE IInv
  OBVIOUS
<1>0. KeptEvents \in Nat /\ MaxNow \in Nat /\ MaxWithdrawals \in Nat
  BY PlanAssumption
<1>1. PICK legacy \in SUBSET {p \in Payments : MethodOf[p] = "manual_card"} :
          /\ sub \in IF legacy = {} THEN {Unsubscribed, Trial}
                                   ELSE {Provisional(p) : p \in legacy}
          /\ payments = [p \in Payments |->
                IF p \in legacy THEN [NoPayment EXCEPT !.status = "provisioned"]
                                ELSE NoPayment]
  BY DEF Init
<1>2. sub \in Subscription /\ ~sub.reminded
  BY <1>1, FirstDocument
<1>3. payments = [p \in Payments |->
          IF p \in legacy THEN [NoPayment EXCEPT !.status = "provisioned"]
                          ELSE NoPayment]
  BY <1>1
<1>4. /\ NoPayment \in Payment
      /\ [NoPayment EXCEPT !.status = "provisioned"] \in Payment
  <2>1. <<>> \in Seq(Events) /\ None \in Trans \cup {None} /\ None \in Bills \cup {None}
    OBVIOUS
  <2>2. NoPayment \in Payment
    BY <2>1 DEF NoPayment, Payment, Statuses
  <2>3. "provisioned" \in Statuses
    BY DEF Statuses
  <2> QED BY <2>2, <2>3 DEF Payment
<1>5. \A p \in Payments : /\ payments[p] \in Payment
                          /\ payments[p].status # "completed"
                          /\ payments[p].refunded = 0
                          /\ Len(payments[p].events) = 0
  <2> SUFFICES ASSUME NEW p \in Payments
               PROVE  /\ payments[p] \in Payment
                      /\ payments[p].status # "completed"
                      /\ payments[p].refunded = 0
                      /\ Len(payments[p].events) = 0
    OBVIOUS
  <2>1. CASE p \in legacy
    <3>1. payments[p] = [NoPayment EXCEPT !.status = "provisioned"]
      BY <1>3, <2>1
    <3> QED BY <1>4, <3>1 DEF NoPayment
  <2>2. CASE p \notin legacy
    <3>1. payments[p] = NoPayment
      BY <1>3, <2>2
    <3> QED BY <1>4, <3>1 DEF NoPayment
  <2> QED BY <2>1, <2>2
<1>6. payments \in [Payments -> Payment]
  BY <1>3, <1>4
<1>7. TypeOK
  <2>1. \A p \in Payments : /\ Len(payments[p].events) <= KeptEvents
                            /\ payments[p].refunded > 0 => MethodOf[p] = "tezcheck"
    <3>1. KeptEvents >= 0
      BY <1>0
    <3> TAKE p \in Payments
    <3>2. Len(payments[p].events) = 0 /\ payments[p].refunded = 0
      BY <1>5
    <3> QED BY <1>0, <3>1, <3>2
  <2>2. now \in 0..MaxNow /\ withdrawals \in 0..MaxWithdrawals
    BY <1>0 DEF Init
  <2>3. /\ grants \subseteq Payments /\ open \in BOOLEAN
        /\ lapsing \subseteq Nat /\ told \subseteq Period
    BY DEF Init
  <2> QED BY <1>2, <1>6, <2>1, <2>2, <2>3 DEF TypeOK
<1>8. DoneIffGranted /\ RefundsMarked /\ RemindedOfThisPeriod
  BY <1>2, <1>5 DEF Init, DoneIffGranted, RefundsMarked, RemindedOfThisPeriod
<1> QED BY <1>7, <1>8 DEF IInv

\* Settlement of an event, the longest handler.
LEMMA SettleInvariant ==
    ASSUME IInv, NEW p \in Payments, NEW e \in Events, NEW b \in Bills,
           NEW state \in {"succeeded", "disputed"}, NEW r \in 0..MaxRefund,
           Settle(p, e, b, state, r)
    PROVE  IInv'
<1> DEFINE s == Settled(p, e, b, r)
<1>1. /\ s \in Payment /\ Len(s.events) <= KeptEvents
      /\ s.status = payments[p].status /\ s.review = payments[p].review
      /\ s.refunded = Later(payments[p].refunded, r)
  BY SettledType DEF IInv
<1>2. /\ payments[p] \in Payment /\ sub \in Subscription
      /\ payments[p].status = "completed" <=> p \in grants
      /\ payments[p].refunded > 0 => payments[p].review \/ payments[p].status = "rejected"
      /\ RemindedOfThisPeriod
  BY DEF IInv, TypeOK, DoneIffGranted, RefundsMarked
<1>3. /\ UNCHANGED <<now, open, lapsing, told, withdrawals>>
      /\ MethodOf[p] = "tezcheck"
  BY DEF Settle
<1>4. r \in Nat /\ payments[p].refunded \in Nat
  BY <1>2, PlanAssumption DEF Payment
<1>5. r = 0 => s.refunded = payments[p].refunded
  BY <1>1, <1>4 DEF Later
<1>6. CASE /\ ~Clean(state, r)
           /\ payments' = [payments EXCEPT ![p] = [s EXCEPT !.review = TRUE]]
           /\ UNCHANGED <<sub, grants>>
  <2> DEFINE d == [s EXCEPT !.review = TRUE]
  <2>1. /\ d \in Payment /\ d.events = s.events /\ d.status = payments[p].status
        /\ d.review
    <3> HIDE DEF s
    <3> QED BY <1>1 DEF Payment
  <2>2. RemindedOfThisPeriod'
    BY <1>2, <1>3, <1>6 DEF RemindedOfThisPeriod
  <2>3. payments' = [payments EXCEPT ![p] = d]
    BY <1>6
  <2>4. /\ Len(d.events) <= KeptEvents
        /\ d.status = "completed" <=> p \in grants
    BY <1>1, <1>2, <2>1
  <2> HIDE DEF d, s
  <2> QED BY <1>2, <1>3, <1>6, <2>1, <2>2, <2>3, <2>4, PaymentStep
<1>7. CASE /\ Clean(state, r)
           /\ Settleable(p)
           /\ ActivateFromPayment(p)
           /\ payments' = [payments EXCEPT ![p] = [s EXCEPT !.status = "completed"]]
  <2> DEFINE d == [s EXCEPT !.status = "completed"]
  <2>1. /\ d \in Payment /\ d.events = s.events /\ d.status = "completed"
        /\ d.refunded = payments[p].refunded /\ d.review = payments[p].review
    <3>1. r = 0
      BY <1>7 DEF Clean
    <3>2. s \in Payment /\ s.refunded = payments[p].refunded
      BY <1>1, <1>5, <3>1
    <3> HIDE DEF s
    <3> QED BY <1>1, <3>2 DEF Payment, Statuses
  <2>2. /\ p \notin grants /\ grants' = grants \cup {p}
        /\ sub' \in Subscription /\ RemindedOfThisPeriod'
    BY <1>3, <1>7, ActivationStep DEF Settleable
  <2>3. ~(d.refunded > 0)
    BY <1>2, <1>7, <2>1 DEF Settleable
  <2>4. payments' = [payments EXCEPT ![p] = d]
    BY <1>7
  <2> HIDE DEF d, s
  <2> QED BY <1>1, <1>3, <2>1, <2>2, <2>3, <2>4, PaymentStep
<1>8. CASE /\ Clean(state, r)
           /\ payments[p].status = "completed"
           /\ payments' = [payments EXCEPT ![p] = s]
           /\ UNCHANGED <<sub, grants>>
  <2>1. s.refunded = payments[p].refunded
    BY <1>5, <1>8 DEF Clean
  <2>2. RemindedOfThisPeriod'
    BY <1>2, <1>3, <1>8 DEF RemindedOfThisPeriod
  <2> HIDE DEF s
  <2> QED BY <1>1, <1>2, <1>3, <1>8, <2>1, <2>2, PaymentStep
<1> QED BY <1>6, <1>7, <1>8 DEF Settle

\* Every step keeps the invariant.
LEMMA StepInvariant == IInv /\ [Next]_vars => IInv'
<1> SUFFICES ASSUME IInv, [Next]_vars PROVE IInv'
  OBVIOUS
<1>0. /\ TypeOK /\ RemindedOfThisPeriod
      /\ now \in Nat /\ sub \in Subscription
      /\ KeptEvents \in Nat /\ MaxNow \in Nat /\ MaxWithdrawals \in Nat
  BY PlanAssumption DEF IInv, TypeOK
<1>1. ASSUME NEW p \in Payments
      PROVE  /\ payments[p] \in Payment
             /\ Len(payments[p].events) <= KeptEvents
             /\ payments[p].status = "completed" <=> p \in grants
             /\ payments[p].refunded > 0 =>
                    payments[p].review \/ payments[p].status = "rejected"
             /\ payments[p].refunded > 0 => MethodOf[p] = "tezcheck"
  BY Facts
<1>2. ASSUME NEW p \in Payments, CreatePayment(p) PROVE IInv'
  <2> DEFINE d == [payments[p] EXCEPT !.status = "pending"]
  <2>1. /\ d \in Payment /\ d.events = payments[p].events
        /\ d.status = "pending" /\ d.review = payments[p].review
        /\ d.refunded = payments[p].refunded
    BY <1>1 DEF Payment, Statuses
  <2>2. payments' = [payments EXCEPT ![p] = d]
    BY <1>2 DEF CreatePayment
  <2>3. /\ UNCHANGED <<now, sub, grants, open, lapsing, told, withdrawals>>
        /\ payments[p].status = "absent"
    BY <1>2 DEF CreatePayment
  <2>4. RemindedOfThisPeriod'
    BY <1>0, <2>3 DEF RemindedOfThisPeriod
  <2> HIDE DEF d
  <2> QED BY <1>0, <1>1, <2>1, <2>2, <2>3, <2>4, PaymentStep
<1>3. ASSUME NEW p \in Payments, ApproveManual(p) PROVE IInv'
  <2> DEFINE d == [payments[p] EXCEPT !.status = "completed"]
  <2>1. /\ d \in Payment /\ d.events = payments[p].events
        /\ d.status = "completed" /\ d.review = payments[p].review
        /\ d.refunded = payments[p].refunded
    BY <1>1 DEF Payment, Statuses
  <2>2. payments' = [payments EXCEPT ![p] = d]
    BY <1>3 DEF ApproveManual
  <2>3. /\ UNCHANGED <<now, open, lapsing, told, withdrawals>>
        /\ payments[p].status = "pending"
    BY <1>3 DEF ApproveManual
  <2>4. /\ grants' = grants \cup {p}
        /\ sub' \in Subscription /\ RemindedOfThisPeriod'
    BY <1>3, <2>3, ActivationStep DEF ApproveManual
  <2> HIDE DEF d
  <2> QED BY <1>1, <2>1, <2>2, <2>3, <2>4, PaymentStep
<1>4. ASSUME NEW p \in Payments, RejectPayment(p) PROVE IInv'
  <2> DEFINE d == [payments[p] EXCEPT
                      !.status = "rejected",
                      !.review = payments[p].status = "provisioned"]
  <2>1. /\ d \in Payment /\ d.events = payments[p].events
        /\ d.status = "rejected" /\ d.refunded = payments[p].refunded
    BY <1>1 DEF Payment, Statuses
  <2>2. payments' = [payments EXCEPT ![p] = d]
    BY <1>4 DEF RejectPayment
  <2>3. /\ UNCHANGED <<now, sub, grants, open, lapsing, told, withdrawals>>
        /\ payments[p].status # "completed"
    BY <1>4 DEF RejectPayment, Rejectable
  <2>4. RemindedOfThisPeriod'
    BY <1>0, <2>3 DEF RemindedOfThisPeriod
  <2> HIDE DEF d
  <2> QED BY <1>0, <1>1, <2>1, <2>2, <2>3, <2>4, PaymentStep
<1>5. ASSUME NEW p \in Payments, NEW t \in Trans, CompleteClick(p, t) PROVE IInv'
  <2> DEFINE d == [payments[p] EXCEPT !.status = "completed", !.trans = t]
  <2>1. /\ d \in Payment /\ d.events = payments[p].events
        /\ d.status = "completed" /\ d.review = payments[p].review
        /\ d.refunded = payments[p].refunded
    BY <1>1 DEF Payment, Statuses
  <2>2. payments' = [payments EXCEPT ![p] = d]
    BY <1>5 DEF CompleteClick
  <2>3. /\ UNCHANGED <<now, open, lapsing, told, withdrawals>>
        /\ payments[p].status = "pending"
    BY <1>5 DEF CompleteClick
  <2>4. /\ grants' = grants \cup {p}
        /\ sub' \in Subscription /\ RemindedOfThisPeriod'
    BY <1>5, <2>3, ActivationStep DEF CompleteClick
  <2> HIDE DEF d
  <2> QED BY <1>1, <2>1, <2>2, <2>3, <2>4, PaymentStep
<1>6. ASSUME NEW p \in Payments, CancelClick(p) PROVE IInv'
  <2> DEFINE d == [payments[p] EXCEPT !.status = "cancelled"]
  <2>1. /\ d \in Payment /\ d.events = payments[p].events
        /\ d.status = "cancelled" /\ d.review = payments[p].review
        /\ d.refunded = payments[p].refunded
    BY <1>1 DEF Payment, Statuses
  <2>2. payments' = [payments EXCEPT ![p] = d]
    BY <1>6 DEF CancelClick
  <2>3. /\ UNCHANGED <<now, sub, grants, open, lapsing, told, withdrawals>>
        /\ payments[p].status = "pending"
    BY <1>6 DEF CancelClick, Cancellable
  <2>4. RemindedOfThisPeriod'
    BY <1>0, <2>3 DEF RemindedOfThisPeriod
  <2> HIDE DEF d
  <2> QED BY <1>0, <1>1, <2>1, <2>2, <2>3, <2>4, PaymentStep
<1>7. ASSUME NEW p \in Payments, NEW b \in Bills, BindBill(p, b) PROVE IInv'
  <2> DEFINE d == [payments[p] EXCEPT !.bill = b]
  <2>1. /\ d \in Payment /\ d.events = payments[p].events
        /\ d.status = payments[p].status /\ d.review = payments[p].review
        /\ d.refunded = payments[p].refunded
    BY <1>1 DEF Payment
  <2>2. payments' = [payments EXCEPT ![p] = d]
    BY <1>7 DEF BindBill
  <2>3. UNCHANGED <<now, sub, grants, open, lapsing, told, withdrawals>>
    BY <1>7 DEF BindBill
  <2>4. RemindedOfThisPeriod'
    BY <1>0, <2>3 DEF RemindedOfThisPeriod
  <2> HIDE DEF d
  <2> QED BY <1>0, <1>1, <2>1, <2>2, <2>3, <2>4, PaymentStep
<1>8. ASSUME NEW t \in Tiers, NEW m \in Terms, Activate(t, m) PROVE IInv'
  <2>1. m \in Nat
    BY PlanAssumption
  <2>2. sub' \in Subscription /\ ~sub'.reminded
    BY <1>0, <1>8, <2>1, ActivatedType DEF Activate
  <2>3. RemindedOfThisPeriod'
    BY <2>2 DEF RemindedOfThisPeriod
  <2> QED BY <1>0, <1>8, <2>2, <2>3, SubscriptionStep DEF Activate, TypeOK
<1>9. ASSUME Deactivate PROVE IInv'
  <2>1. sub' \in Subscription /\ ~sub'.active
    BY <1>0, <1>9 DEF Deactivate, Subscription
  <2>2. RemindedOfThisPeriod'
    BY <2>1 DEF RemindedOfThisPeriod
  <2>3. withdrawals' \in 0..MaxWithdrawals
    BY <1>0, <1>9 DEF Deactivate, TypeOK
  <2> QED BY <1>0, <1>9, <2>1, <2>2, <2>3, SubscriptionStep DEF Deactivate, TypeOK
<1>10. ASSUME SetOpen PROVE IInv'
  <2>1. RemindedOfThisPeriod' /\ open' \in BOOLEAN
    BY <1>0, <1>10 DEF SetOpen, TypeOK, RemindedOfThisPeriod
  <2> QED BY <1>0, <1>10, <2>1, SubscriptionStep DEF SetOpen, TypeOK
<1>11. ASSUME FindExpired PROVE IInv'
  <2>1. RemindedOfThisPeriod' /\ lapsing' \subseteq Nat
    BY <1>0, <1>11 DEF FindExpired, TypeOK, RemindedOfThisPeriod, Subscription
  <2> QED BY <1>0, <1>11, <2>1, SubscriptionStep DEF FindExpired, TypeOK
<1>12. ASSUME NEW id \in lapsing, CloseExpired(id) PROVE IInv'
  <2>1. CASE StillExpired(id)
    <3>1. sub' = [sub EXCEPT !.active = FALSE]
      BY <1>12, <2>1 DEF CloseExpired
    <3>2. sub' \in Subscription /\ ~sub'.active
      BY <1>0, <3>1 DEF Subscription
    <3>3. RemindedOfThisPeriod' /\ lapsing' \subseteq Nat
      BY <1>0, <1>12, <3>2 DEF CloseExpired, TypeOK, RemindedOfThisPeriod
    <3> QED BY <1>0, <1>12, <3>2, <3>3, SubscriptionStep DEF CloseExpired, TypeOK
  <2>2. CASE ~StillExpired(id)
    <3>1. sub' = sub
      BY <1>12, <2>2 DEF CloseExpired
    <3>2. RemindedOfThisPeriod' /\ lapsing' \subseteq Nat
      BY <1>0, <1>12, <3>1 DEF CloseExpired, TypeOK, RemindedOfThisPeriod
    <3> QED BY <1>0, <1>12, <3>1, <3>2, SubscriptionStep DEF CloseExpired, TypeOK
  <2> QED BY <2>1, <2>2
<1>13. ASSUME RemindOwner PROVE IInv'
  <2>1. told' \subseteq Period /\ told \subseteq told'
    BY <1>0, <1>13 DEF RemindOwner, TypeOK, Subscription, Period
  <2>2. RemindedOfThisPeriod'
    BY <1>0, <1>13, <2>1 DEF RemindOwner, RemindedOfThisPeriod
  <2> QED BY <1>0, <1>13, <2>1, <2>2, SubscriptionStep DEF RemindOwner, TypeOK
<1>14. ASSUME NEW t \in told, MarkReminderSent(t) PROVE IInv'
  <2>1. t \in Period
    BY <1>0 DEF TypeOK
  <2>2. /\ sub' \in Subscription /\ sub'.id = t.id /\ sub'.end = t.end
    BY <1>0, <1>14 DEF MarkReminderSent, SamePeriod, Subscription
  <2>3. [id |-> sub'.id, end |-> sub'.end] = t
    BY <2>1, <2>2 DEF Period
  <2>4. RemindedOfThisPeriod'
    BY <1>14, <2>3 DEF MarkReminderSent, RemindedOfThisPeriod
  <2> QED BY <1>0, <1>14, <2>2, <2>4, SubscriptionStep DEF MarkReminderSent, TypeOK
<1>15. ASSUME Tick PROVE IInv'
  <2>1. now' \in 0..MaxNow
    BY <1>0, <1>15 DEF Tick, TypeOK
  <2>2. RemindedOfThisPeriod'
    BY <1>0, <1>15 DEF Tick, RemindedOfThisPeriod
  <2> QED BY <1>0, <1>15, <2>1, <2>2, SubscriptionStep DEF Tick, TypeOK
<1>16. ASSUME UNCHANGED vars PROVE IInv'
  <2>1. RemindedOfThisPeriod'
    BY <1>0, <1>16 DEF vars, RemindedOfThisPeriod
  <2> QED BY <1>0, <1>16, <2>1, SubscriptionStep DEF vars, TypeOK
<1> QED
  BY <1>2, <1>3, <1>4, <1>5, <1>6, <1>7, <1>8, <1>9, <1>10, <1>11, <1>12, <1>13,
     <1>14, <1>15, <1>16, SettleInvariant, Zenon DEF Next

\* The documents stay consistent with one another in every reachable state.
THEOREM Invariance == Spec => []IInv
<1>1. Init => IInv
  BY InitInvariant
<1>2. IInv /\ [Next]_vars => IInv'
  BY StepInvariant
<1> QED BY <1>1, <1>2, PTL DEF Spec

\* The history's settled column holds the granted payments, and no payment is
\* missing from its columns.
LEMMA SettledAreGranted == IInv => CompletedIffGranted
<1> SUFFICES ASSUME IInv PROVE CompletedIffGranted
  OBVIOUS
<1>1. grants \subseteq Payments /\ \A p \in Payments : payments[p].status \in Statuses
  BY DEF IInv, TypeOK, Payment
<1>2. \A p \in Payments : payments[p].status = "completed" <=> p \in grants
  BY DEF IInv, DoneIffGranted
<1>3. HistorySummary.settled = grants
  BY <1>1, <1>2 DEF HistorySummary, Statuses
<1>4. HistorySummary.total = grants \cup HistorySummary.pending \cup HistorySummary.rejected
  BY <1>1, <1>2 DEF HistorySummary, Statuses
<1> QED BY <1>2, <1>3, <1>4 DEF CompletedIffGranted

\* A payment marked for review is in the list.
LEMMA MarkedAreListed == IInv => RefundsAwaitReview
BY DEF IInv, RefundsMarked, RefundsAwaitReview, PendingList

\* Payments, grants and subscriptions stay well formed, and a payment
\* remembers no more TezCheck events than it may.
THEOREM TypeCorrect == Spec => []TypeOK
BY Invariance, PTL DEF IInv

\* Whatever fails, is refused or repeated, a payment is completed exactly when
\* its months were added to the subscription.
THEOREM GrantsFollowPayments == Spec => []CompletedIffGranted
BY Invariance, SettledAreGranted, PTL

\* In whatever order TezCheck's events arrive, a refunded payment stays in the
\* review list until an administrator rejects it.
THEOREM RefundsReviewed == Spec => []RefundsAwaitReview
BY Invariance, MarkedAreListed, PTL

\* A renewal between the bot's message and its mark keeps its own reminder.
THEOREM RemindersPerPeriod == Spec => []RemindedOfThisPeriod
BY Invariance, PTL DEF IInv

-----------------------------------------------------------------------------
\* What a step does to the status and grant of a payment.
LEMMA StatusStep ==
    ASSUME IInv, [Next]_vars, NEW p \in Payments
    PROVE  /\ payments[p].status \in {"completed", "rejected", "cancelled"} =>
                  payments'[p].status = payments[p].status
           /\ payments[p].refunded > 0 /\ p \notin grants => p \notin grants'
<1>1. /\ payments \in [Payments -> Payment]
      /\ \A q \in Payments :
            /\ payments[q].refunded > 0 /\ payments[q].status = "pending"
                  => payments[q].review
            /\ payments[q].refunded > 0 => MethodOf[q] = "tezcheck"
  <2>1. payments \in [Payments -> Payment]
    BY DEF IInv, TypeOK
  <2>2. ASSUME NEW q \in Payments, payments[q].status = "pending",
               payments[q].refunded > 0
        PROVE  payments[q].review
    BY <2>2, Facts
  <2> QED BY <2>1, <2>2, Facts, Zenon
<1>2. CASE UNCHANGED <<payments, grants>>
  BY <1>2
<1>3. ASSUME NEW q \in Payments,
             \/ CreatePayment(q) \/ RejectPayment(q) \/ CancelClick(q)
             \/ \E b \in Bills : BindBill(q, b)
      PROVE  /\ UNCHANGED grants
             /\ payments[q].status \in {"absent", "pending", "provisioned"}
             /\ \A r \in Payments \ {q} : payments'[r] = payments[r]
  BY <1>1, <1>3 DEF CreatePayment, RejectPayment, CancelClick, BindBill, Rejectable,
     Cancellable
<1>4. ASSUME NEW q \in Payments,
             ApproveManual(q) \/ \E t \in Trans : CompleteClick(q, t)
      PROVE  /\ grants' \subseteq grants \cup {q}
             /\ payments[q].status = "pending"
             /\ MethodOf[q] # "tezcheck"
             /\ \A r \in Payments \ {q} : payments'[r] = payments[r]
  BY <1>1, <1>4 DEF ApproveManual, CompleteClick, ActivateFromPayment
<1>5. ASSUME NEW q \in Payments, NEW e \in Events, NEW b \in Bills,
             NEW state \in {"succeeded", "disputed"}, NEW r \in 0..MaxRefund,
             Settle(q, e, b, state, r)
      PROVE  /\ \/ grants' = grants /\ payments'[q].status = payments[q].status
                \/ /\ grants' \subseteq grants \cup {q} /\ Settleable(q)
             /\ \A o \in Payments \ {q} : payments'[o] = payments[o]
  <2> DEFINE s == Settled(q, e, b, r)
  <2>1. s \in Payment /\ s.status = payments[q].status
    BY SettledType DEF IInv
  <2>2. CASE ~(grants' = grants)
    BY <1>1, <1>5, <2>2 DEF Settle, ActivateFromPayment
  <2>3. CASE grants' = grants
    <3>1. \A o \in Payments \ {q} : payments'[o] = payments[o]
      BY <1>1, <1>5 DEF Settle
    <3>2. \/ payments' = [payments EXCEPT ![q] = [s EXCEPT !.review = TRUE]]
          \/ Settleable(q)
          \/ payments' = [payments EXCEPT ![q] = s]
      BY <1>5 DEF Settle
    <3> HIDE DEF s
    <3> QED BY <1>1, <2>1, <2>3, <3>1, <3>2 DEF Payment
  <2> QED BY <2>2, <2>3
<1>6. CASE \E q \in Payments :
              \/ CreatePayment(q) \/ RejectPayment(q) \/ CancelClick(q)
              \/ \E b \in Bills : BindBill(q, b)
  BY <1>3, <1>6
<1>7. CASE \E q \in Payments : ApproveManual(q) \/ \E t \in Trans : CompleteClick(q, t)
  BY <1>1, <1>4, <1>7
<1>8. CASE \E q \in Payments, e \in Events, b \in Bills,
              state \in {"succeeded", "disputed"}, r \in 0..MaxRefund :
              Settle(q, e, b, state, r)
  BY <1>1, <1>5, <1>8 DEF Settleable
<1>9. UNCHANGED <<payments, grants>> \/ Next
  BY DEF vars
<1>10. Next => \/ UNCHANGED <<payments, grants>>
               \/ \E q \in Payments :
                     \/ CreatePayment(q) \/ RejectPayment(q) \/ CancelClick(q)
                     \/ \E b \in Bills : BindBill(q, b)
               \/ \E q \in Payments :
                     ApproveManual(q) \/ \E t \in Trans : CompleteClick(q, t)
               \/ \E q \in Payments, e \in Events, b \in Bills,
                     state \in {"succeeded", "disputed"}, r \in 0..MaxRefund :
                     Settle(q, e, b, state, r)
  BY Zenon DEF Next, Activate, Deactivate, SetOpen, FindExpired, CloseExpired, RemindOwner,
     MarkReminderSent, Tick
<1> QED BY <1>2, <1>6, <1>7, <1>8, <1>9, <1>10

\* No late approval, callback, settlement or job moves a payment that was
\* completed, rejected or cancelled.
THEOREM DecisionsFinal == Spec => DecidedOnce
<1>1. IInv /\ [Next]_vars =>
        [\A p \in Payments :
            payments[p].status \in {"completed", "rejected", "cancelled"} =>
                payments'[p].status = payments[p].status]_vars
  BY StatusStep
<1> QED BY <1>1, Invariance, PTL DEF Spec, DecidedOnce

\* A refund that overtakes the success it undoes keeps the payment from ever
\* adding months.
THEOREM RefundsNeverBuy == Spec => RefundedNeverBuys
<1>1. IInv /\ [Next]_vars =>
        [\A p \in Payments :
            payments[p].refunded > 0 /\ p \notin grants => p \notin grants']_vars
  BY StatusStep
<1> QED BY <1>1, Invariance, PTL DEF Spec, RefundedNeverBuys

-----------------------------------------------------------------------------
(* The paid time is the promised one. *)

\* The initial states are the promise's.
LEMMA PromisedInit == Init => Promise!Init
<1> SUFFICES ASSUME Init PROVE Promise!Init
  OBVIOUS
<1>1. PICK legacy \in SUBSET {p \in Payments : MethodOf[p] = "manual_card"} :
          sub \in IF legacy = {} THEN {Unsubscribed, Trial}
                                 ELSE {Provisional(p) : p \in legacy}
  BY DEF Init
<1>2. now = 0 /\ grants = {} /\ withdrawals = 0
  BY DEF Init
<1>3. sub \in Subscription /\ (~sub.active \/ sub.end > 0)
  BY <1>1, FirstDocument
<1>4. CASE sub.active
  BY <1>2, <1>3, <1>4
     DEF Subscription, Tiers, Promise!Init, Promise!Tiers, Until, Tier, InForce
<1>5. CASE ~sub.active
  BY <1>2, <1>5 DEF Promise!Init, Until, Tier, InForce
<1> QED BY <1>4, <1>5

\* An activation extends the promised time.
LEMMA PromisedActivation ==
    ASSUME sub \in Subscription, now \in Nat, NEW t \in Tiers, NEW m \in Nat \ {0},
           MayActivate(t), sub' = Activated(t, m), UNCHANGED <<now, withdrawals>>
    PROVE  Promise!Extend(t, m)
<1>1. /\ sub'.active /\ sub'.tier = t
      /\ sub'.end = IF sub.active THEN Later(sub.end, now) + m ELSE now + m
  <2>1. CASE sub.active
    BY <2>1 DEF Activated, Subscription
  <2>2. CASE ~sub.active
    BY <2>2 DEF Activated, Subscription
  <2> QED BY <2>1, <2>2
<1>2. sub'.end = Later(Until, now) + m
  BY <1>1 DEF Until, InForce, Later, Subscription
<1>3. sub'.end > now'
  BY <1>2 DEF Until, InForce, Later, Subscription
<1>4. Until' = Later(Until, now) + m /\ Tier' = t
  BY <1>1, <1>2, <1>3 DEF Until, Tier, InForce
<1>5. Promise!MayBuy(t)
  BY DEF MayActivate, Promise!MayBuy, Tier
<1>6. Promise!Later(Until, now) = Later(Until, now)
  BY DEF Promise!Later, Later
<1> QED BY <1>4, <1>5, <1>6 DEF Promise!Extend

\* A payment that completes is credited.
LEMMA PromisedCredit ==
    ASSUME IInv, NEW p \in Payments, ActivateFromPayment(p),
           payments[p].status = "pending", UNCHANGED <<now, told, withdrawals>>
    PROVE  Promise!Credit(p)
<1>1. /\ p \notin grants /\ MayActivate(TierOf[p])
      /\ sub' = Activated(TierOf[p], MonthsOf[p]) /\ grants' = grants \cup {p}
  BY ActivationStep
<1>2. /\ TierOf[p] \in Tiers /\ MonthsOf[p] \in Nat \ {0}
      /\ sub \in Subscription /\ now \in Nat
  BY PlanAssumption DEF IInv, TypeOK, Tiers
<1>3. Promise!Extend(TierOf[p], MonthsOf[p])
  BY <1>1, <1>2, PromisedActivation
<1> QED BY <1>1, <1>3 DEF Promise!Credit

\* Every step is a step of the promise, or stutters.
LEMMA PromisedNext == IInv /\ [Next]_vars => [Promise!Next]_(Promise!vars)
<1> SUFFICES ASSUME IInv, [Next]_vars
             PROVE  Promise!Next \/ UNCHANGED Promise!vars
  OBVIOUS
<1>0. sub \in Subscription /\ now \in Nat
  BY DEF IInv, TypeOK
<1>1. ASSUME UNCHANGED <<now, sub, grants, withdrawals>>
      PROVE  UNCHANGED Promise!vars
  BY <1>1 DEF Promise!vars, Until, Tier, InForce
<1>2. ASSUME NEW p \in Payments, ApproveManual(p) PROVE Promise!Credit(p)
  BY <1>2, PromisedCredit DEF ApproveManual
<1>3. ASSUME NEW p \in Payments, NEW t \in Trans, CompleteClick(p, t)
      PROVE  Promise!Credit(p)
  BY <1>3, PromisedCredit DEF CompleteClick
<1>4. ASSUME NEW p \in Payments, NEW e \in Events, NEW b \in Bills,
             NEW state \in {"succeeded", "disputed"}, NEW r \in 0..MaxRefund,
             Settle(p, e, b, state, r)
      PROVE  Promise!Credit(p) \/ UNCHANGED Promise!vars
  <2>1. UNCHANGED <<now, told, withdrawals>>
    BY <1>4 DEF Settle
  <2>2. \/ UNCHANGED <<sub, grants>>
        \/ ActivateFromPayment(p) /\ payments[p].status = "pending"
    BY <1>4 DEF Settle, Settleable
  <2> QED BY <1>1, <2>1, <2>2, PromisedCredit
<1>5. ASSUME NEW t \in Tiers, NEW m \in Terms, Activate(t, m) PROVE Promise!Grant
  <2>1. m \in Nat \ {0}
    BY PlanAssumption
  <2>2. Promise!Extend(t, m) /\ UNCHANGED grants
    BY <1>0, <1>5, <2>1, PromisedActivation DEF Activate
  <2> QED BY <2>2 DEF Promise!Grant, Promise!Tiers, Tiers
<1>6. ASSUME Deactivate PROVE Promise!Withdraw
  <2>1. ~sub'.active
    BY <1>0, <1>6 DEF Deactivate, Subscription
  <2> QED BY <1>6, <2>1 DEF Deactivate, Promise!Withdraw, Until, Tier, InForce
<1>7. ASSUME NEW id \in lapsing, CloseExpired(id) PROVE UNCHANGED Promise!vars
  <2>1. UNCHANGED <<now, grants, withdrawals>>
    BY <1>7 DEF CloseExpired
  <2>2. CASE StillExpired(id)
    <3>1. ~InForce
      BY <1>0, <2>2 DEF StillExpired, InForce, Subscription
    <3>2. ~sub'.active
      BY <1>0, <1>7, <2>2 DEF CloseExpired, Subscription
    <3> QED BY <2>1, <3>1, <3>2 DEF Promise!vars, Until, Tier, InForce
  <2>3. CASE ~StillExpired(id)
    BY <1>1, <1>7, <2>1, <2>3 DEF CloseExpired
  <2> QED BY <2>2, <2>3
<1>8. ASSUME NEW t \in told, MarkReminderSent(t) PROVE UNCHANGED Promise!vars
  <2>1. /\ sub'.active = sub.active /\ sub'.end = sub.end /\ sub'.tier = sub.tier
        /\ UNCHANGED <<now, grants, withdrawals>>
    BY <1>0, <1>8 DEF MarkReminderSent, Subscription
  <2> QED BY <2>1 DEF Promise!vars, Until, Tier, InForce
<1>9. ASSUME Tick PROVE Promise!Tick
  <2>1. now' = now + 1 /\ UNCHANGED <<sub, grants, withdrawals>>
    BY <1>9 DEF Tick
  <2>2. CASE Until > now'
    BY <1>0, <2>1, <2>2 DEF Promise!Tick, Until, Tier, InForce, Subscription
  <2>3. CASE ~(Until > now')
    BY <1>0, <2>1, <2>3 DEF Promise!Tick, Until, Tier, InForce, Subscription
  <2> QED BY <2>2, <2>3
<1>10. ASSUME NEW p \in Payments,
              \/ CreatePayment(p) \/ RejectPayment(p) \/ CancelClick(p)
              \/ \E b \in Bills : BindBill(p, b)
       PROVE  UNCHANGED Promise!vars
  BY <1>1, <1>10 DEF CreatePayment, RejectPayment, CancelClick, BindBill
<1>11. ASSUME SetOpen \/ FindExpired \/ RemindOwner \/ UNCHANGED vars
       PROVE  UNCHANGED Promise!vars
  BY <1>1, <1>11 DEF SetOpen, FindExpired, RemindOwner, vars
<1> QED
  BY <1>2, <1>3, <1>4, <1>5, <1>6, <1>7, <1>8, <1>9, <1>10, <1>11, Zenon
     DEF Next, Promise!Next

\* The subscription and payment handlers keep the promise of Entitlement: the
\* paid time moves only with a payment, once, a grant or a withdrawal.
THEOREM Refinement == Spec => ImplementsEntitlement
<1>1. Init => Promise!Init
  BY PromisedInit
<1>2. IInv /\ [Next]_vars => [Promise!Next]_(Promise!vars)
  BY PromisedNext
<1> QED BY <1>1, <1>2, Invariance, PTL DEF Spec, ImplementsEntitlement, Promise!Spec
=============================================================================
