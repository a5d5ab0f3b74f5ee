------------------------------ MODULE Debtors ------------------------------
(***************************************************************************)
(* The debts customers owe to an owner (debtor.service.ts).  Each request  *)
(* is one statement under the owner's fence, once per operation id         *)
(* (OwnerTransaction), so each is one action.  Amounts are half cents:     *)
(* requests may state fractions of a cent.  Names and notes are left out.  *)
(***************************************************************************)
EXTENDS Integers, Sequences, SequencesExt

CONSTANTS
  Debtors,    \* ids of debtors
  Amounts,    \* amounts a request may state, in half cents
  MaxHistory  \* bound: entries of a debtor's history

ASSUME AmountsAssumption == Amounts \subseteq Nat /\ MaxHistory \in Nat

VARIABLE debtor  \* the documents, by id

debtorVars == <<debtor>>

Change == [amount : Nat, type : {"add", "subtract"}]
Debtor == [amount : Int, history : Seq(Change)]

DebtorInit == debtor = [i \in {} |-> [amount |-> 0, history |-> <<>>]]

\* roundMoney, to whole cents: a half is rounded up.
RoundMoney(a) == ((a + 1) \div 2) * 2

\* $round of the database: a half is rounded to the even cent.
RoundEven(a) == IF a % 4 = 3 THEN a + 1 ELSE IF a % 4 = 1 THEN a - 1 ELSE a

\* The opening debt is stored as it is stated.
CreateDebtor(i, a) ==
  /\ i \notin DOMAIN debtor
  /\ debtor' = [x \in DOMAIN debtor \cup {i} |->
                  IF x # i THEN debtor[x]
                  ELSE [amount  |-> a,
                        history |-> IF a > 0 THEN <<[amount |-> a, type |-> "add"]>> ELSE <<>>]]

\* Mutant: the history keeps the amount of the request.
RecordedAsStated(a) == a

\* The history keeps what was added or taken off.
Recorded(a) == RoundMoney(a)

\* The debt cannot be paid back more than once: the statement finds no such document.
Adjust(i, a, type) ==
  LET amount == RoundMoney(a)
      owed   == debtor[i].amount
  IN  /\ amount > 0 /\ Len(debtor[i].history) < MaxHistory
      /\ type = "subtract" => owed >= amount
      /\ debtor' = [debtor EXCEPT ![i] =
           [amount  |-> RoundEven(IF type = "add" THEN owed + amount ELSE owed - amount),
            history |-> Append(@.history, [amount |-> Recorded(a), type |-> type])]]

RemoveDebtor(i) == debtor' = [x \in DOMAIN debtor \ {i} |-> debtor[x]]

DebtorNext ==
  \/ \E i \in Debtors, a \in Amounts : CreateDebtor(i, a)
  \/ \E i \in DOMAIN debtor : \/ RemoveDebtor(i)
                              \/ \E a \in Amounts, type \in {"add", "subtract"} : Adjust(i, a, type)

DebtorSpec == DebtorInit /\ [][DebtorNext]_debtorVars
----------------------------------------------------------------------------
DebtorTypeOK == DOMAIN debtor \subseteq Debtors /\ \A i \in DOMAIN debtor : debtor[i] \in Debtor

Owed(history) ==
  FoldLeft(LAMBDA sum, c : IF c.type = "add" THEN sum + c.amount ELSE sum - c.amount, 0, history)

\* What a customer owes is what the history adds up to, but for the fraction of a cent of
\* the opening debt, and never less than nothing: the two roundings, of the request and of
\* the database, do not drift apart however often the debt changes (debtor.service.ts 45-70).
DebtIsHistory ==
  \A i \in DOMAIN debtor :
    debtor[i].amount >= 0 /\ debtor[i].amount - Owed(debtor[i].history) \in -1..1
============================================================================
