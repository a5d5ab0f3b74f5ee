----------------------- MODULE MCSubscriptionPayments -----------------------
(***************************************************************************)
(* A small instance of SubscriptionPayments for TLC: one payment of each   *)
(* method, a Pro one among them.                                           *)
(***************************************************************************)
EXTENDS SubscriptionPayments

CONSTANTS card, click, tez

ThreePayments == {card, click, tez}
Methods == [p \in ThreePayments |-> CASE p = card  -> "manual_card"
                                      [] p = click -> "click"
                                      [] p = tez   -> "tezcheck"]
OneOfPro  == [p \in ThreePayments |-> IF p = card THEN "pro" ELSE "bor"]
OneMonth  == [p \in ThreePayments |-> 1]
OneTerm   == {1}
=============================================================================
