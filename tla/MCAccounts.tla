----------------------------- MODULE MCAccounts -----------------------------
(***************************************************************************)
(* Registration, BusinessDay and Debtors in one run.  They share no state, *)
(* so a behaviour follows one of them: their states add up and do not      *)
(* multiply.  To keep them few, a behaviour of Registration has either     *)
(* deletions or changed phones.  Sign-ups, phones, Telegram users,         *)
(* requests, collections and debtors are interchangeable.                  *)
(***************************************************************************)
EXTENDS Registration, BusinessDay, Debtors, TLC

VARIABLE part  \* the one that moves

Init == /\ RegistrationInit /\ DayInit /\ DebtorInit
        /\ part \in {"deletions", "phones", "day", "debtors"}
        /\ part # "day" => owner = NoOwner
        /\ part \notin {"deletions", "phones"} => public

Next ==
  /\ UNCHANGED part
  /\ \/ /\ part \in {"deletions", "phones"}
        /\ RegistrationNext /\ UNCHANGED <<dayVars, debtorVars>>
        /\ IF part = "phones" THEN \A a \in Accounts : ~Removing(a)'
                              ELSE \A a \in Accounts : ~account'[a].moved
     \/ part = "day" /\ DayNext /\ UNCHANGED <<registrationVars, debtorVars>>
     \/ part = "debtors" /\ DebtorNext /\ UNCHANGED <<registrationVars, dayVars>>

Spec == Init /\ [][Next]_<<registrationVars, dayVars, debtorVars, part>>

Interchangeable ==
  Permutations(Signups) \cup Permutations(Phones) \cup Permutations(Telegrams)
    \cup Permutations(Visits) \cup Permutations(Collections) \cup Permutations(Debtors)
=============================================================================
