---------------------------- MODULE Entitlement ----------------------------
(***************************************************************************)
(* What subscriptions and payments promise one business, whatever the      *)
(* order of payment callbacks, approvals, background jobs and retries:     *)
(* paid time is a deadline that only a purchase, a grant of the operator   *)
(* or a withdrawal by the operator moves.  A payment moves it once, from   *)
(* the later of now and the deadline, so nothing already paid for is lost; *)
(* time passing only lets it lapse.  Time is counted in whole months.      *)
(***************************************************************************)
EXTENDS Naturals

CONSTANTS
    Payments,       \* the payments of the business
    TierOf,         \* the tier each payment buys
    MonthsOf,       \* the months each payment buys
    Terms           \* the months an operator may grant

Tiers == {"bor", "pro"}

VARIABLES
    now,            \* the current month
    until,          \* the deadline of the paid time, 0 when there is none
    tier,           \* the tier in force, "tekin" (free) when there is none
    credited,       \* the payments whose months were added
    withdrawals     \* how often the operator withdrew the paid time

vars == <<now, until, tier, credited, withdrawals>>

Init == /\ now = 0
        /\ credited = {}
        /\ withdrawals = 0
        /\ \/ until = 0 /\ tier = "tekin"
           \/ until > 0 /\ tier \in Tiers

Later(a, b) == IF a > b THEN a ELSE b

\* Pro time that was paid for is never turned into Bor time.
MayBuy(t) == ~(tier = "pro" /\ t = "bor")

Extend(t, months) == /\ MayBuy(t)
                     /\ tier' = t
                     /\ until' = Later(until, now) + months
                     /\ UNCHANGED <<now, withdrawals>>

Credit(p) == /\ p \notin credited
             /\ credited' = credited \cup {p}
             /\ Extend(TierOf[p], MonthsOf[p])

Grant == /\ \E t \in Tiers, m \in Terms : Extend(t, m)
         /\ UNCHANGED credited

Withdraw == /\ until' = 0
            /\ tier' = "tekin"
            /\ withdrawals' = withdrawals + 1
            /\ UNCHANGED <<now, credited>>

Tick == /\ now' = now + 1
        /\ IF until > now' THEN UNCHANGED <<until, tier>>
                           ELSE until' = 0 /\ tier' = "tekin"
        /\ UNCHANGED <<credited, withdrawals>>

Next == \/ \E p \in Payments : Credit(p)
        \/ Grant
        \/ Withdraw
        \/ Tick

Spec == Init /\ [][Next]_vars
=============================================================================
