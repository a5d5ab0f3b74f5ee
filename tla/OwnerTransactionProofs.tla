----------------------- MODULE OwnerTransactionProofs -----------------------
(***************************************************************************)
(* For any number of attempts, keys and fingerprints: each key is applied  *)
(* once, receipts are final, answers agree, notifications are sent once,   *)
(* and what a client sees is a behaviour of SerializedOwner.               *)
(*                                                                         *)
(* The argument: only the holder of the fence has an open transaction, and *)
(* only it can commit, so its view stays exactly the committed data plus   *)
(* what its stage has written (ViewIs).  The key it is about to apply is   *)
(* therefore still absent from the committed receipts when it commits.     *)
(***************************************************************************)
EXTENDS OwnerTransaction, TLAPS

\* What the open transaction of a reads: the committed data, the next revision,
\* and the writes of the stages it has been through.
ViewIs(a) ==
  LET k  == att[a].key
      pc == att[a].pc
  IN
  /\ view[a].rev = db.rev + 1
  /\ pc \in {"locked", "replaying"} => view[a].receipt = db.receipt
  /\ pc \in {"claimed", "worked"} => view[a].receipt =
       [db.receipt EXCEPT ![k] = [state |-> "IN_PROGRESS", print |-> att[a].print,
                                  result |-> 0]]
  /\ pc = "recorded" => view[a].receipt =
       [db.receipt EXCEPT ![k] = [state |-> "COMPLETED", print |-> att[a].print,
                                  result |-> db.rev + 1]]
  /\ pc \in {"locked", "replaying", "claimed"} => view[a].runs = db.runs
  /\ pc \in {"worked", "recorded"} => view[a].runs = [db.runs EXCEPT ![k] = @ + 1]

\* The attempt holds the result of a durable operation it has asked for.
Settled(a) ==
  /\ att[a].key \in history
  /\ db.receipt[att[a].key].print = att[a].print
  /\ db.receipt[att[a].key].result = att[a].result

AttemptOK(a) ==
  /\ InTransaction(a) => fence = a /\ ViewIs(a)
  /\ att[a].pc \in {"claimed", "worked", "recorded"} => att[a].key \notin history
  /\ att[a].pc = "recorded" => att[a].result = db.rev + 1
  /\ att[a].pc \in {"replaying", "committed", "answered"} => Settled(a)
  /\ att[a].pc \in {"worked", "recorded"} => att[a].effects = 1
  /\ att[a].pc = "committed" => /\ att[a].effects \in {0, 1}
                                /\ att[a].effects = 1 => sent[att[a].key] = 0
  /\ att[a].pc \notin {"worked", "recorded", "committed"} => att[a].effects = 0

\* No two attempts are about to notify the world of the same key.
OneNotifier == \A a, b \in Attempts :
  /\ att[a].pc = "committed" /\ att[a].effects = 1
  /\ att[b].pc = "committed" /\ att[b].effects = 1
  /\ att[a].key = att[b].key
  => a = b

\* The inductive invariant.
IInv ==
  /\ TypeOK
  /\ AppliedOnce /\ ReceiptsFinal /\ NotifiedOnce
  /\ \A a \in Attempts : AttemptOK(a)
  /\ OneNotifier

-----------------------------------------------------------------------------
(* One step.                                                               *)

\* What TypeOK says of the attempts and of the views.
LEMMA Types ==
  ASSUME TypeOK, NEW a \in Attempts
  PROVE  /\ att \in [Attempts -> Attempt] /\ att[a] \in Attempt
         /\ att[a].pc \in Stages
         /\ att[a].print \in Prints \cup {None}
         /\ att[a].effects \in Nat /\ att[a].result \in Nat
         /\ att[a].pc # "free" => att[a].key \in Keys
         /\ view \in [Attempts -> Data] /\ view[a] \in Data
         /\ db \in Data /\ db.rev \in Nat
         /\ db.receipt \in [Keys -> Receipt] /\ db.runs \in [Keys -> Nat]
BY DEF TypeOK, Attempt, Data

\* The rest of the invariant survives a step of one attempt that leaves the
\* committed data, the history and the notifications alone.
LEMMA QuietStep ==
  ASSUME IInv, NEW a \in Attempts, NEW r \in Attempt, att' = [att EXCEPT ![a] = r],
         db' = db, sent' = sent, history' = history, retries' \in Nat,
         NEW v \in Data, view' = [view EXCEPT ![a] = v],
         fence' \in Attempts \cup {None},
         \A b \in Attempts \ {a} : fence = b => fence' = b,
         r.pc # "free" => r.key \in Keys,
         r.pc = "committed" => r.effects = 0,
         AttemptOK(a)'
  PROVE  IInv'
<1>1. /\ att'[a] = r /\ view'[a] = v
      /\ \A b \in Attempts \ {a} : att'[b] = att[b] /\ view'[b] = view[b]
  BY DEF IInv, TypeOK
<1>2. TypeOK'
  BY <1>1 DEF IInv, TypeOK
<1>3. \A b \in Attempts \ {a} : AttemptOK(b)'
  <2> SUFFICES ASSUME NEW b \in Attempts \ {a} PROVE AttemptOK(b)'
    OBVIOUS
  <2>1. AttemptOK(b) /\ att'[b] = att[b] /\ view'[b] = view[b]
    BY <1>1 DEF IInv
  <2>2. ViewIs(b)' <=> ViewIs(b)
    BY <2>1 DEF ViewIs
  <2>3. Settled(b)' <=> Settled(b)
    BY <2>1 DEF Settled
  <2>4. InTransaction(b)' <=> InTransaction(b)
    BY <2>1 DEF InTransaction
  <2> QED
    BY <2>1, <2>2, <2>3, <2>4 DEF AttemptOK
<1>4. AppliedOnce' /\ ReceiptsFinal' /\ NotifiedOnce'
  BY DEF IInv, AppliedOnce, ReceiptsFinal, NotifiedOnce
<1>5. OneNotifier'
  BY <1>1 DEF IInv, OneNotifier
<1> QED
  BY <1>2, <1>3, <1>4, <1>5 DEF IInv

\* Only the holder of the fence is inside a transaction.
LEMMA Holder ==
  ASSUME IInv, NEW a \in Attempts, InTransaction(a)
  PROVE  fence = a /\ ViewIs(a) /\ att[a].key \in Keys
<1>1. att[a].pc # "free"
  BY DEF InTransaction
<1> QED
  BY <1>1 DEF IInv, AttemptOK, TypeOK

\* An empty view is well-typed.
LEMMA EmptyData == Empty \in Data
BY DEF Empty, Data, Receipt, NoReceipt

\* A dropped transaction leaves nothing behind.
LEMMA DropStep ==
  ASSUME IInv, NEW a \in Attempts, InTransaction(a), NEW stage \in {"waiting", "refused"},
         Drop(a, stage), db' = db, sent' = sent, history' = history, retries' \in Nat
  PROVE  IInv'
<1> DEFINE r == [att[a] EXCEPT !.pc = stage, !.effects = 0]
<1>1. fence = a /\ att[a].key \in Keys
  BY Holder
<1>2. /\ r \in Attempt /\ r.pc = stage /\ r.effects = 0 /\ r.key = att[a].key
      /\ att' = [att EXCEPT ![a] = r]
  BY Types DEF IInv, Attempt, Stages, Drop
<1> HIDE DEF r
<1>3. att'[a] = r
  BY <1>2, Types DEF IInv
<1>4. AttemptOK(a)'
  BY <1>2, <1>3 DEF AttemptOK, InTransaction
<1>5. view' = [view EXCEPT ![a] = Empty] /\ fence' = None
  BY DEF Drop
<1> QED
  BY <1>1, <1>2, <1>4, <1>5, EmptyData, QuietStep, NoneAssumption

\* The server starts inside the invariant, ...
LEMMA InitIInv == Init => IInv
<1> SUFFICES ASSUME Init PROVE IInv
  OBVIOUS
<1> USE DEF Init
<1>1. TypeOK
  BY EmptyData, RetryAssumption DEF TypeOK, Attempt, Stages
<1>2. \A a \in Attempts : att[a].pc = "free" /\ att[a].effects = 0
  OBVIOUS
<1>3. \A a \in Attempts : AttemptOK(a)
  BY <1>2 DEF AttemptOK, InTransaction
<1>4. AppliedOnce /\ ReceiptsFinal /\ NotifiedOnce
  BY DEF AppliedOnce, ReceiptsFinal, NotifiedOnce, Empty, NoReceipt
<1>5. OneNotifier
  BY <1>2 DEF OneNotifier
<1> QED
  BY <1>1, <1>3, <1>4, <1>5 DEF IInv

\* A step outside the transaction that only moves the attempt on.
LEMMA OutsideStep ==
  ASSUME IInv, NEW a \in Attempts, NEW r \in Attempt, att' = [att EXCEPT ![a] = r],
         r.pc \in {"received", "waiting", "refused"}, r.key \in Keys, r.effects = 0,
         UNCHANGED <<db, fence, view, sent, history, retries>>
  PROVE  IInv'
<1>1. att'[a] = r /\ view' = [view EXCEPT ![a] = view[a]] /\ view[a] \in Data
      /\ fence \in Attempts \cup {None} /\ retries \in Nat
  BY Types DEF IInv, TypeOK
<1>2. AttemptOK(a)'
  BY <1>1 DEF AttemptOK, InTransaction
<1> QED
  BY <1>1, <1>2, QuietStep

\* ... no step of an attempt leaves it, ...
LEMMA StepIInv ==
  ASSUME IInv, NEW a \in Attempts,
         Receive(a) \/ Step(a) \/ GiveUp(a) \/ Reject(a) \/ Retry(a) \/ Crash(a)
  PROVE  IInv'
<1>0. /\ att \in [Attempts -> Attempt] /\ att[a] \in Attempt
      /\ att[a].print \in Prints \cup {None}
      /\ att[a].effects \in Nat /\ att[a].result \in Nat
      /\ att[a].pc # "free" => att[a].key \in Keys
      /\ view \in [Attempts -> Data] /\ view[a] \in Data
      /\ db \in Data /\ db.rev \in Nat
      /\ db.receipt \in [Keys -> Receipt] /\ db.runs \in [Keys -> Nat]
  BY Types DEF IInv
<1>00. /\ AttemptOK(a) /\ retries \in Nat /\ fence \in Attempts \cup {None}
       /\ AppliedOnce /\ ReceiptsFinal /\ NotifiedOnce /\ OneNotifier
  BY DEF IInv, TypeOK
<1>1. CASE Receive(a)
  <2>1. PICK k \in Keys, f \in Prints \cup {None} :
          att' = [att EXCEPT ![a].pc = "received", ![a].key = k, ![a].print = f]
    BY <1>1 DEF Receive
  <2> DEFINE r == [att[a] EXCEPT !.pc = "received", !.key = k, !.print = f]
  <2>2. att[a].effects = 0
    BY <1>1, <1>00 DEF Receive, AttemptOK
  <2>3. /\ r \in Attempt /\ r.pc = "received" /\ r.key = k /\ r.effects = 0
        /\ att' = [att EXCEPT ![a] = r]
    BY <1>0, <2>1, <2>2 DEF Attempt, Stages
  <2> QED
    BY <1>1, <2>3, OutsideStep DEF Receive
<1>2. CASE ReplayFast(a)
  <2> DEFINE receipt == db.receipt[att[a].key]
             r == [att[a] EXCEPT !.pc = "committed", !.result = receipt.result]
  <2>1. /\ att[a].key \in Keys /\ receipt.state = "COMPLETED" /\ receipt.print = att[a].print
        /\ att' = [att EXCEPT ![a] = r] /\ att[a].effects = 0
    BY <1>0, <1>2, <1>00 DEF ReplayFast, SameIntent, AttemptOK
  <2>2. receipt.result \in Nat /\ att[a].key \in history
    BY <1>0, <1>00, <2>1 DEF Receipt, ReceiptsFinal
  <2>3. /\ r \in Attempt /\ r.pc = "committed" /\ r.effects = 0 /\ r.key = att[a].key
        /\ r.print = att[a].print /\ r.result = receipt.result /\ att'[a] = r
    BY <1>0, <2>1, <2>2 DEF Attempt, Stages
  <2> HIDE DEF r
  <2>4. UNCHANGED <<db, fence, view, sent, history, retries>>
    BY <1>2 DEF ReplayFast
  <2>5. AttemptOK(a)'
    BY <2>1, <2>2, <2>3, <2>4 DEF AttemptOK, Settled, InTransaction
  <2>6. view' = [view EXCEPT ![a] = view[a]]
    BY <1>0, <2>4
  <2> QED
    BY <1>0, <1>00, <2>1, <2>3, <2>4, <2>5, <2>6, QuietStep
<1>3. CASE RefuseFast(a) \/ Miss(a) \/ GiveUp(a)
  <2>1. PICK stage \in {"waiting", "refused"} : Goto(a, stage)
    BY <1>3 DEF RefuseFast, Miss, GiveUp
  <2> DEFINE r == [att[a] EXCEPT !.pc = stage]
  <2>2. att[a].pc \in {"received", "waiting"}
    BY <1>3 DEF RefuseFast, Miss, GiveUp
  <2>3. /\ r \in Attempt /\ r.pc = stage /\ r.key \in Keys /\ r.effects = 0
        /\ att' = [att EXCEPT ![a] = r]
    BY <1>0, <1>00, <2>1, <2>2 DEF Goto, Attempt, Stages, AttemptOK
  <2>4. UNCHANGED <<db, fence, view, sent, history, retries>>
    BY <1>3 DEF RefuseFast, Miss, GiveUp
  <2> QED
    BY <2>1, <2>3, <2>4, OutsideStep
<1>4. CASE Lock(a)
  <2> DEFINE r == [att[a] EXCEPT !.pc = "locked"]
             v == [db EXCEPT !.rev = @ + 1]
  <2>1. /\ att[a].pc = "waiting" /\ fence = None /\ fence' = a
        /\ view' = [view EXCEPT ![a] = v] /\ att' = [att EXCEPT ![a] = r]
        /\ UNCHANGED <<db, sent, history, retries>>
    BY <1>4 DEF Lock, Goto
  <2>2. /\ r \in Attempt /\ r.pc = "locked" /\ r.key \in Keys /\ r.effects = 0
        /\ att'[a] = r
    BY <1>0, <1>00, <2>1 DEF Attempt, Stages, AttemptOK
  <2>3. /\ v \in Data /\ v.rev = db.rev + 1 /\ v.receipt = db.receipt /\ v.runs = db.runs
        /\ view'[a] = v
    <3>1. db \in Data
      BY <1>0
    <3>2. v \in Data /\ v.rev = db.rev + 1 /\ v.receipt = db.receipt /\ v.runs = db.runs
      BY <3>1 DEF Data
    <3> HIDE DEF r, v
    <3> QED
      BY <1>0, <2>1, <3>2
  <2> HIDE DEF r, v
  <2>4. AttemptOK(a)'
    BY <2>1, <2>2, <2>3 DEF AttemptOK, ViewIs, InTransaction
  <2>5. fence' \in Attempts \cup {None} /\ retries' \in Nat
    BY <1>00, <2>1
  <2>6. \A b \in Attempts \ {a} : fence = b => fence' = b
    BY <2>1, NoneAssumption
  <2> QED
    BY <2>1, <2>2, <2>3, <2>4, <2>5, <2>6, QuietStep
<1>5. CASE Replay(a)
  <2> DEFINE receipt == db.receipt[att[a].key]
             r == [att[a] EXCEPT !.pc = "replaying", !.result = receipt.result]
  <2>1. att[a].pc = "locked" /\ UNCHANGED <<db, fence, view, sent, history, retries>>
    BY <1>5 DEF Replay
  <2>2. fence = a /\ ViewIs(a) /\ att[a].key \in Keys /\ view[a].receipt = db.receipt
    BY <2>1, Holder DEF InTransaction, ViewIs
  <2>3. /\ receipt.state = "COMPLETED" /\ receipt.print = att[a].print
        /\ att' = [att EXCEPT ![a] = r] /\ att[a].effects = 0
    BY <1>5, <1>00, <2>1, <2>2 DEF Replay, SameIntent, AttemptOK
  <2>4. receipt.result \in Nat /\ att[a].key \in history
    BY <1>0, <1>00, <2>2, <2>3 DEF Receipt, ReceiptsFinal
  <2>5. /\ r \in Attempt /\ r.pc = "replaying" /\ r.effects = 0 /\ r.key = att[a].key
        /\ r.print = att[a].print /\ r.result = receipt.result /\ att'[a] = r
    BY <1>0, <2>3, <2>4 DEF Attempt, Stages
  <2> HIDE DEF r
  <2>6. ViewIs(a)'
    BY <2>1, <2>2, <2>5 DEF ViewIs
  <2>7. AttemptOK(a)'
    BY <2>1, <2>2, <2>3, <2>4, <2>5, <2>6 DEF AttemptOK, Settled, InTransaction
  <2>8. view' = [view EXCEPT ![a] = view[a]]
    BY <1>0, <2>1
  <2> QED
    BY <1>0, <1>00, <2>1, <2>2, <2>3, <2>5, <2>7, <2>8, QuietStep
<1>6. CASE Refuse(a) \/ Reject(a) \/ Retry(a)
  <2>1. InTransaction(a)
    BY <1>6 DEF Refuse, Reject, Retry, InTransaction
  <2>2. PICK stage \in {"waiting", "refused"} : Drop(a, stage)
    BY <1>6 DEF Refuse, Reject, Retry
  <2>3. UNCHANGED <<db, sent, history>> /\ retries' \in Nat
    BY <1>6, <1>00 DEF Refuse, Reject, Retry
  <2> QED
    BY <2>1, <2>2, <2>3, DropStep
<1>7. CASE Claim(a)
  <2> DEFINE k == att[a].key
             claim == [state |-> "IN_PROGRESS", print |-> att[a].print, result |-> 0]
             r == [att[a] EXCEPT !.pc = "claimed"]
             v == [view[a] EXCEPT !.receipt = [view[a].receipt EXCEPT ![k] = claim]]
  <2>1. /\ att[a].pc = "locked" /\ view[a].receipt[k].state = "NONE"
        /\ view' = [view EXCEPT ![a] = v] /\ att' = [att EXCEPT ![a] = r]
        /\ UNCHANGED <<db, fence, sent, history, retries>>
    BY <1>7 DEF Claim, Goto
  <2>2. /\ fence = a /\ k \in Keys /\ view[a].receipt = db.receipt
        /\ view[a].rev = db.rev + 1 /\ view[a].runs = db.runs
    BY <2>1, Holder DEF InTransaction, ViewIs
  <2>3. /\ r \in Attempt /\ r.pc = "claimed" /\ r.key = k /\ r.effects = 0
        /\ r.print = att[a].print /\ att'[a] = r
    BY <1>0, <1>00, <2>1 DEF Attempt, Stages, AttemptOK
  <2>4. claim \in Receipt /\ k \notin history
    BY <1>0, <1>00, <2>1, <2>2 DEF Receipt, ReceiptsFinal
  <2>5. /\ v \in Data /\ v.rev = db.rev + 1 /\ v.runs = db.runs
        /\ v.receipt = [db.receipt EXCEPT ![k] = claim] /\ view'[a] = v
    <3>1. [view[a].receipt EXCEPT ![k] = claim] \in [Keys -> Receipt]
      BY <1>0, <2>2, <2>4
    <3> HIDE DEF claim
    <3> QED
      BY <1>0, <2>1, <2>2, <3>1 DEF Data
  <2> HIDE DEF r, v
  <2>6. ViewIs(a)'
    BY <2>1, <2>2, <2>3, <2>5 DEF ViewIs
  <2>7. AttemptOK(a)'
    BY <2>1, <2>2, <2>3, <2>4, <2>6 DEF AttemptOK, InTransaction
  <2> QED
    BY <1>00, <2>1, <2>2, <2>3, <2>5, <2>7, QuietStep
<1>8. CASE Work(a)
  <2> DEFINE k == att[a].key
             r == [att[a] EXCEPT !.pc = "worked", !.effects = @ + 1]
             v == [view[a] EXCEPT !.runs = [view[a].runs EXCEPT ![k] = view[a].runs[k] + 1]]
  <2>1. /\ att[a].pc = "claimed"
        /\ view' = [view EXCEPT ![a] = v] /\ att' = [att EXCEPT ![a] = r]
        /\ UNCHANGED <<db, fence, sent, history, retries>>
    BY <1>8 DEF Work
  <2>2. /\ fence = a /\ k \in Keys /\ view[a].rev = db.rev + 1 /\ view[a].runs = db.runs
        /\ view[a].receipt = [db.receipt EXCEPT ![k] =
              [state |-> "IN_PROGRESS", print |-> att[a].print, result |-> 0]]
    BY <2>1, Holder DEF InTransaction, ViewIs
  <2>3. /\ r \in Attempt /\ r.pc = "worked" /\ r.key = k /\ r.effects = 1
        /\ r.print = att[a].print /\ att'[a] = r
    <3>1. att[a].effects = 0
      BY <1>00, <2>1 DEF AttemptOK
    <3>2. att[a].effects + 1 = 1 /\ 1 \in Nat /\ "worked" \in Stages
      BY <3>1 DEF Stages
    <3> QED
      BY <1>0, <2>1, <3>2 DEF Attempt
  <2>4. k \notin history
    BY <1>00, <2>1 DEF AttemptOK
  <2>5. /\ v \in Data /\ v.rev = db.rev + 1 /\ v.receipt = view[a].receipt
        /\ v.runs = [db.runs EXCEPT ![k] = @ + 1] /\ view'[a] = v
    <3>1. [view[a].runs EXCEPT ![k] = @ + 1] \in [Keys -> Nat]
      BY <1>0, <2>2
    <3> QED
      BY <1>0, <2>1, <2>2, <3>1 DEF Data
  <2> HIDE DEF r, v
  <2>6. ViewIs(a)'
    BY <2>1, <2>2, <2>3, <2>5 DEF ViewIs
  <2>7. AttemptOK(a)'
    BY <2>1, <2>2, <2>3, <2>4, <2>6 DEF AttemptOK, InTransaction
  <2> QED
    BY <1>00, <2>1, <2>2, <2>3, <2>5, <2>7, QuietStep
<1>9. CASE Record(a)
  <2> DEFINE k == att[a].key
             final == [state |-> "COMPLETED", print |-> att[a].print, result |-> view[a].rev]
             r == [att[a] EXCEPT !.pc = "recorded", !.result = view[a].rev]
             v == [view[a] EXCEPT !.receipt = [view[a].receipt EXCEPT ![k] = final]]
  <2>1. /\ att[a].pc = "worked"
        /\ view' = [view EXCEPT ![a] = v] /\ att' = [att EXCEPT ![a] = r]
        /\ UNCHANGED <<db, fence, sent, history, retries>>
    BY <1>9 DEF Record
  <2>2. /\ fence = a /\ k \in Keys /\ view[a].rev = db.rev + 1
        /\ view[a].runs = [db.runs EXCEPT ![k] = @ + 1]
        /\ view[a].receipt = [db.receipt EXCEPT ![k] =
              [state |-> "IN_PROGRESS", print |-> att[a].print, result |-> 0]]
    BY <2>1, Holder DEF InTransaction, ViewIs
  <2>3. /\ r \in Attempt /\ r.pc = "recorded" /\ r.key = k /\ r.effects = 1
        /\ r.print = att[a].print /\ r.result = db.rev + 1 /\ att'[a] = r
    <3>1. att[a].effects = 1
      BY <1>00, <2>1 DEF AttemptOK
    <3>2. view[a].rev = db.rev + 1 /\ view[a].rev \in Nat /\ "recorded" \in Stages
      BY <1>0, <2>2 DEF Stages
    <3> QED
      BY <1>0, <2>1, <3>1, <3>2 DEF Attempt
  <2>4. k \notin history /\ final \in Receipt
    BY <1>0, <1>00, <2>1, <2>2 DEF AttemptOK, Receipt
  <2>5. /\ v \in Data /\ v.rev = db.rev + 1 /\ v.runs = [db.runs EXCEPT ![k] = @ + 1]
        /\ v.receipt = [db.receipt EXCEPT ![k] = final] /\ view'[a] = v
    <3>1. [view[a].receipt EXCEPT ![k] = final] = [db.receipt EXCEPT ![k] = final]
      BY <1>0, <2>2
    <3>2. [db.receipt EXCEPT ![k] = final] \in [Keys -> Receipt]
      BY <1>0, <2>2, <2>4
    <3> HIDE DEF final
    <3> QED
      BY <1>0, <2>1, <2>2, <3>1, <3>2 DEF Data
  <2> HIDE DEF r, v
  <2>6. ViewIs(a)'
    BY <2>1, <2>2, <2>3, <2>5 DEF ViewIs
  <2>7. AttemptOK(a)'
    BY <2>1, <2>2, <2>3, <2>4, <2>6 DEF AttemptOK, InTransaction
  <2> QED
    BY <1>00, <2>1, <2>2, <2>3, <2>5, <2>7, QuietStep
<1>10. CASE Crash(a)
  <2> DEFINE r == [att[a] EXCEPT !.pc = "gone", !.effects = 0]
  <2>1. /\ att[a].pc # "free" /\ att' = [att EXCEPT ![a] = r]
        /\ view' = [view EXCEPT ![a] = Empty]
        /\ UNCHANGED <<db, fence, sent, history, retries>>
    BY <1>10 DEF Crash
  <2>2. r \in Attempt /\ r.pc = "gone" /\ r.effects = 0 /\ r.key \in Keys /\ att'[a] = r
    BY <1>0, <2>1 DEF Attempt, Stages
  <2> HIDE DEF r
  <2>3. AttemptOK(a)'
    BY <2>2 DEF AttemptOK, InTransaction
  <2> QED
    BY <1>00, <2>1, <2>2, <2>3, EmptyData, QuietStep
<1>11. CASE Expire(a)
  <2>1. /\ fence = a /\ att[a].pc = "gone" /\ fence' = None
        /\ UNCHANGED <<db, view, att, sent, history, retries>>
    BY <1>11 DEF Expire
  <2>2. \A b \in Attempts : ~InTransaction(b)
    BY <2>1 DEF IInv, AttemptOK, InTransaction
  <2>3. \A b \in Attempts : AttemptOK(b)'
    BY <2>1, <2>2 DEF IInv, AttemptOK, InTransaction, Settled
  <2> QED
    BY <2>1, <2>3 DEF IInv, TypeOK, AppliedOnce, ReceiptsFinal, NotifiedOnce, OneNotifier
<1>12. CASE Commit(a)
  <2> DEFINE k == att[a].key
             r == [att[a] EXCEPT !.pc = "committed"]
  <2>1. /\ att[a].pc \in {"recorded", "replaying"} /\ db' = view[a] /\ fence' = None
        /\ history' = IF att[a].pc = "recorded" THEN history \cup {k} ELSE history
        /\ att' = [att EXCEPT ![a] = r] /\ view' = [view EXCEPT ![a] = Empty]
        /\ UNCHANGED <<sent, retries>>
    BY <1>12 DEF Commit, Goto
  <2>2. /\ fence = a /\ k \in Keys /\ view[a].rev = db.rev + 1
        /\ att[a].pc = "replaying" =>
             view[a].receipt = db.receipt /\ view[a].runs = db.runs
        /\ att[a].pc = "recorded" =>
             /\ view[a].runs = [db.runs EXCEPT ![k] = @ + 1]
             /\ view[a].receipt = [db.receipt EXCEPT ![k] =
                   [state |-> "COMPLETED", print |-> att[a].print, result |-> db.rev + 1]]
    BY <2>1, Holder DEF InTransaction, ViewIs
  <2>3. /\ r \in Attempt /\ r.pc = "committed" /\ r.key = k /\ r.effects = att[a].effects
        /\ r.print = att[a].print /\ r.result = att[a].result /\ att'[a] = r
        /\ \A b \in Attempts \ {a} : att'[b] = att[b]
    BY <1>0, <2>1 DEF Attempt, Stages
  <2> HIDE DEF r
  <2>4. \A b \in Attempts \ {a} : ~InTransaction(b)
    BY <2>2 DEF IInv, AttemptOK
  <2>5. TypeOK'
    BY <1>0, <2>1, <2>2, <2>3, EmptyData DEF IInv, TypeOK
  <2>6. CASE att[a].pc = "recorded"
    <3>1. /\ k \notin history /\ history' = history \cup {k} /\ att[a].effects = 1
          /\ att[a].result = db.rev + 1 /\ sent[k] = 0
      BY <1>00, <2>1, <2>2, <2>6 DEF AttemptOK, NotifiedOnce, IInv, TypeOK
    <3>2. \A j \in Keys :
            /\ db'.receipt[j] = IF j = k
                 THEN [state |-> "COMPLETED", print |-> att[a].print, result |-> db.rev + 1]
                 ELSE db.receipt[j]
            /\ db'.runs[j] = IF j = k THEN db.runs[k] + 1 ELSE db.runs[j]
      BY <1>0, <2>1, <2>2, <2>6
    <3>3. AppliedOnce' /\ ReceiptsFinal' /\ NotifiedOnce'
      BY <1>00, <2>1, <2>2, <3>1, <3>2 DEF AppliedOnce, ReceiptsFinal, NotifiedOnce
    <3>4. AttemptOK(a)'
      BY <2>1, <2>2, <2>3, <3>1, <3>2 DEF AttemptOK, Settled, InTransaction
    <3>5. ASSUME NEW b \in Attempts \ {a} PROVE AttemptOK(b)'
      <4>1. AttemptOK(b) /\ att'[b] = att[b] /\ ~InTransaction(b)
        BY <2>3, <2>4 DEF IInv
      <4>2. att[b].pc \in {"committed", "answered"} => Settled(b)'
        <5> SUFFICES ASSUME att[b].pc \in {"committed", "answered"} PROVE Settled(b)'
          OBVIOUS
        <5>1. Settled(b) /\ att[b].key \in Keys /\ att[b].key # k
          BY <3>1, <4>1 DEF AttemptOK, Settled, IInv, TypeOK
        <5> QED
          BY <3>1, <3>2, <4>1, <5>1 DEF Settled
      <4> QED
        BY <2>1, <4>1, <4>2 DEF AttemptOK, InTransaction
    <3>6. OneNotifier'
      <4>1. \A b \in Attempts \ {a} : att[b].pc = "committed" => att[b].key # k
        BY <3>1 DEF IInv, AttemptOK, Settled
      <4> QED
        BY <1>00, <2>3, <4>1 DEF OneNotifier
    <3> QED
      BY <2>5, <3>3, <3>4, <3>5, <3>6 DEF IInv
  <2>7. CASE att[a].pc = "replaying"
    <3>1. /\ db'.receipt = db.receipt /\ db'.runs = db.runs /\ history' = history
          /\ att[a].effects = 0 /\ Settled(a)
      BY <1>00, <2>1, <2>2, <2>7 DEF AttemptOK
    <3>2. AppliedOnce' /\ ReceiptsFinal' /\ NotifiedOnce'
      BY <1>00, <2>1, <3>1 DEF AppliedOnce, ReceiptsFinal, NotifiedOnce
    <3>3. AttemptOK(a)'
      BY <2>1, <2>3, <3>1 DEF AttemptOK, Settled, InTransaction
    <3>4. ASSUME NEW b \in Attempts \ {a} PROVE AttemptOK(b)'
      <4>1. AttemptOK(b) /\ att'[b] = att[b] /\ ~InTransaction(b)
        BY <2>3, <2>4 DEF IInv
      <4>2. Settled(b)' <=> Settled(b)
        BY <3>1, <4>1 DEF Settled
      <4> QED
        BY <2>1, <4>1, <4>2 DEF AttemptOK, InTransaction
    <3>5. OneNotifier'
      BY <1>00, <2>3, <3>1 DEF OneNotifier
    <3> QED
      BY <2>5, <3>2, <3>3, <3>4, <3>5 DEF IInv
  <2> QED
    BY <2>1, <2>6, <2>7
<1>13. CASE Deliver(a)
  <2> DEFINE k == att[a].key
             r == [att[a] EXCEPT !.pc = "answered", !.effects = 0]
  <2>1. /\ att[a].pc = "committed" /\ sent' = [sent EXCEPT ![k] = @ + att[a].effects]
        /\ att' = [att EXCEPT ![a] = r] /\ UNCHANGED <<db, fence, view, history, retries>>
    BY <1>13 DEF Deliver
  <2>2. /\ Settled(a) /\ k \in Keys /\ k \in history
        /\ att[a].effects \in {0, 1} /\ (att[a].effects = 1 => sent[k] = 0)
    BY <1>0, <1>00, <2>1 DEF AttemptOK, Settled
  <2>3. /\ r \in Attempt /\ r.pc = "answered" /\ r.key = k /\ r.effects = 0
        /\ r.print = att[a].print /\ r.result = att[a].result /\ att'[a] = r
        /\ \A b \in Attempts \ {a} : att'[b] = att[b]
    BY <1>0, <2>1 DEF Attempt, Stages
  <2> HIDE DEF r
  <2>4. /\ sent \in [Keys -> Nat] /\ sent' \in [Keys -> Nat]
        /\ \A j \in Keys : sent'[j] = IF j = k THEN sent[k] + att[a].effects ELSE sent[j]
    BY <1>0, <2>1, <2>2 DEF IInv, TypeOK
  <2>5. TypeOK'
    BY <1>0, <2>1, <2>2, <2>3, <2>4 DEF IInv, TypeOK
  <2>6. AppliedOnce' /\ ReceiptsFinal' /\ NotifiedOnce'
    BY <1>00, <2>1, <2>2, <2>4 DEF AppliedOnce, ReceiptsFinal, NotifiedOnce
  <2>7. AttemptOK(a)'
    BY <2>1, <2>2, <2>3 DEF AttemptOK, Settled, InTransaction
  <2>8. ASSUME NEW b \in Attempts \ {a} PROVE AttemptOK(b)'
    <3>1. AttemptOK(b) /\ att'[b] = att[b]
      BY <2>3 DEF IInv
    <3>2. (ViewIs(b)' <=> ViewIs(b)) /\ (Settled(b)' <=> Settled(b))
          /\ (InTransaction(b)' <=> InTransaction(b))
      BY <2>1, <3>1 DEF ViewIs, Settled, InTransaction
    <3>3. att[b].pc = "committed" /\ att[b].effects = 1 => sent'[att[b].key] = 0
      <4> SUFFICES ASSUME att[b].pc = "committed", att[b].effects = 1
                   PROVE  sent'[att[b].key] = 0
        OBVIOUS
      <4>1. att[b].key \in Keys /\ sent[att[b].key] = 0
        BY <3>1 DEF AttemptOK, IInv, TypeOK
      <4>2. att[b].key = k => att[a].effects # 1
        BY <1>00, <2>1 DEF OneNotifier
      <4> QED
        BY <2>2, <2>4, <4>1, <4>2
    <3> QED
      BY <2>1, <3>1, <3>2, <3>3 DEF AttemptOK
  <2>9. OneNotifier'
    BY <1>00, <2>3 DEF OneNotifier
  <2> QED
    BY <2>5, <2>6, <2>7, <2>8, <2>9 DEF IInv
<1> QED
  BY <1>1, <1>2, <1>3, <1>4, <1>5, <1>6, <1>7, <1>8, <1>9, <1>10, <1>11, <1>12, <1>13
  DEF Step

\* ... and neither does anything else.
LEMMA NextIInv == IInv /\ [Next]_vars => IInv'
<1> SUFFICES ASSUME IInv, [Next]_vars PROVE IInv'
  OBVIOUS
<1>1. CASE Next
  BY <1>1, StepIInv DEF Next
<1>2. CASE UNCHANGED vars
  <2>1. \A a \in Attempts : AttemptOK(a)'
    BY <1>2 DEF vars, IInv, AttemptOK, ViewIs, Settled, InTransaction
  <2> QED
    BY <1>2, <2>1 DEF vars, IInv, TypeOK, AppliedOnce, ReceiptsFinal, NotifiedOnce, OneNotifier
<1> QED
  BY <1>1, <1>2

\* The invariant holds in every behaviour.
THEOREM Invariance == Spec => []IInv
BY InitIInv, NextIInv, PTL DEF Spec

\* Collections and attempts hold values of their types.
THEOREM TypeCorrect == Spec => []TypeOK
<1>1. IInv => TypeOK
  BY DEF IInv
<1> QED
  BY <1>1, Invariance, PTL

\* However requests are retried, interleaved and killed, the writes of an
\* operation are in the documents once (withIdempotency, lockOwner).
THEOREM OperationsApplyOnce == Spec => []AppliedOnce
<1>1. IInv => AppliedOnce
  BY DEF IInv
<1> QED
  BY <1>1, Invariance, PTL

\* No claim is ever visible outside its transaction.
THEOREM ReceiptsAreFinal == Spec => []ReceiptsFinal
<1>1. IInv => ReceiptsFinal
  BY DEF IInv
<1> QED
  BY <1>1, Invariance, PTL

\* Every answer to a key tells the one durable result.
THEOREM AnswersAreOne == Spec => []AnswersAgree
<1>1. IInv => AnswersAgree
  BY DEF IInv, AnswersAgree, AttemptOK, Settled
<1> QED
  BY <1>1, Invariance, PTL

\* A notification leaves once, and only for durable writes.
THEOREM NotificationsAreOne == Spec => []NotifiedOnce
<1>1. IInv => NotifiedOnce
  BY DEF IInv
<1> QED
  BY <1>1, Invariance, PTL

-----------------------------------------------------------------------------
(* What a client sees.                                                     *)

\* A step that keeps what is asked, told, applied and notified is a stutter.
LEMMA Unseen ==
  ASSUME IInv, NEW a \in Attempts, NEW r \in Attempt, att' = [att EXCEPT ![a] = r],
         att[a].pc \notin {"free", "answered"}, r.pc \notin {"free", "answered"},
         r.key = att[a].key, r.print = att[a].print, db' = db, sent' = sent
  PROVE  UNCHANGED Serialized!vars
<1>1. att'[a] = r /\ \A b \in Attempts \ {a} : att'[b] = att[b]
  BY Types DEF IInv
<1>2. Asked' = Asked /\ Told' = Told
  BY <1>1 DEF Asked, Told
<1>3. Applied' = Applied
  BY DEF Applied
<1> QED
  BY <1>2, <1>3 DEF Serialized!vars

\* What an attempt asks for is not None, and neither is a completed receipt.
LEMMA Present ==
  ASSUME IInv, NEW a \in Attempts, att[a].pc # "free"
  PROVE  /\ Asked[a] = [key |-> att[a].key, print |-> att[a].print] /\ Asked[a] # None
         /\ \A k \in Keys : db.receipt[k].state = "COMPLETED" =>
              /\ Applied[k] = [print |-> db.receipt[k].print, result |-> db.receipt[k].result]
              /\ Applied[k] # None
<1>1. /\ att[a].key \in Keys /\ att[a].print \in Prints \cup {None}
      /\ db.receipt \in [Keys -> Receipt]
  BY Types DEF IInv
<1>2. Asked[a] = [key |-> att[a].key, print |-> att[a].print]
  BY DEF Asked
<1>3. Asked[a] # None
  BY <1>1, <1>2, NoneAssumption
<1>4. ASSUME NEW k \in Keys, db.receipt[k].state = "COMPLETED"
      PROVE  /\ Applied[k] = [print |-> db.receipt[k].print, result |-> db.receipt[k].result]
             /\ Applied[k] # None
  <2>1. db.receipt[k].print \in Prints \cup {None} /\ db.receipt[k].result \in Nat
    BY <1>1 DEF Receipt
  <2>2. Applied[k] = [print |-> db.receipt[k].print, result |-> db.receipt[k].result]
    BY <1>4 DEF Applied
  <2> QED
    BY <2>1, <2>2, NoneAssumption
<1> QED
  BY <1>2, <1>3, <1>4

\* Initial states map to initial states.
LEMMA RefinesInit == Init => Serialized!Init
<1> SUFFICES ASSUME Init PROVE Serialized!Init
  OBVIOUS
<1>1. Asked = [a \in Attempts |-> None] /\ Told = [a \in Attempts |-> None]
  BY DEF Init, Asked, Told
<1>2. Applied = [k \in Keys |-> None]
  BY DEF Init, Empty, NoReceipt, Applied
<1>3. {k \in Keys : sent[k] > 0} = {} /\ db.rev = 0
  BY DEF Init, Empty
<1> QED
  BY <1>1, <1>2, <1>3 DEF Serialized!Init

\* Receive is Ask.
LEMMA RefinesReceive ==
  ASSUME IInv, NEW a \in Attempts, Receive(a) PROVE Serialized!Ask(a)
<1>1. PICK k \in Keys, f \in Prints \cup {None} :
        att' = [att EXCEPT ![a].pc = "received", ![a].key = k, ![a].print = f]
  BY DEF Receive
<1>2. att[a].pc = "free" /\ UNCHANGED <<db, sent>>
  BY DEF Receive
<1>3. /\ att'[a].pc = "received" /\ att'[a].key = k /\ att'[a].print = f
      /\ \A b \in Attempts \ {a} : att'[b] = att[b]
  BY <1>1, Types DEF IInv, Attempt
<1>4. Asked[a] = None /\ Asked' = [Asked EXCEPT ![a] = [key |-> k, print |-> f]]
  BY <1>2, <1>3 DEF Asked
<1>5. Told' = Told /\ Applied' = Applied
  BY <1>2, <1>3 DEF Told, Applied
<1> QED
  BY <1>2, <1>4, <1>5 DEF Serialized!Ask

\* Commit is Apply, or Pass when the transaction found its work done.
LEMMA RefinesCommit ==
  ASSUME IInv, NEW a \in Attempts, Commit(a)
  PROVE  Serialized!Apply(a) \/ Serialized!Pass
<1> DEFINE k == att[a].key
           final == [state |-> "COMPLETED", print |-> att[a].print, result |-> db.rev + 1]
<1>1. /\ att[a].pc \in {"recorded", "replaying"} /\ db' = view[a] /\ sent' = sent
      /\ att' = [att EXCEPT ![a].pc = "committed"]
  BY DEF Commit, Goto
<1>2. /\ k \in Keys /\ db'.rev = db.rev + 1 /\ db.rev \in Nat
      /\ att[a].pc = "replaying" => db'.receipt = db.receipt
      /\ att[a].pc = "recorded" => db'.receipt = [db.receipt EXCEPT ![k] = final]
  BY <1>1, Holder, Types DEF InTransaction, ViewIs, IInv
<1>3. /\ att'[a].pc = "committed" /\ att'[a].key = k /\ att'[a].print = att[a].print
      /\ \A b \in Attempts \ {a} : att'[b] = att[b]
  BY <1>1, Types DEF IInv, Attempt
<1>4. Asked' = Asked /\ Told' = Told
  BY <1>1, <1>3 DEF Asked, Told
<1>5. (db.rev)' > db.rev
  BY <1>2
<1>6. CASE att[a].pc = "replaying"
  <2>1. Applied' = Applied
    BY <1>2, <1>6 DEF Applied
  <2> QED
    BY <1>1, <1>4, <1>5, <2>1 DEF Serialized!Pass
<1>7. CASE att[a].pc = "recorded"
  <2>1. db.receipt[k].state # "COMPLETED"
    BY <1>2, <1>7 DEF IInv, AttemptOK, ReceiptsFinal
  <2>2. Applied[k] = None
    BY <1>2, <2>1 DEF Applied
  <2>3. \A j \in Keys : db'.receipt[j] = IF j = k THEN final ELSE db.receipt[j]
    BY <1>2, <1>7, Types DEF IInv
  <2>4. Applied' = [Applied EXCEPT ![k] = [print |-> att[a].print, result |-> db'.rev]]
    <3> DEFINE Shown(receipt) == IF receipt.state # "COMPLETED" THEN None
                                 ELSE [print |-> receipt.print, result |-> receipt.result]
    <3>1. Shown(final) = [print |-> att[a].print, result |-> db'.rev]
      BY <1>2
    <3>2. \A j \in Keys : Shown(db'.receipt[j]) =
            IF j = k THEN [print |-> att[a].print, result |-> db'.rev]
            ELSE Shown(db.receipt[j])
      BY <2>3, <3>1
    <3>3. Applied = [j \in Keys |-> Shown(db.receipt[j])]
      BY DEF Applied
    <3>4. Applied' = [j \in Keys |-> Shown(db'.receipt[j])]
      BY DEF Applied
    <3> HIDE DEF Shown
    <3> QED
      BY <1>2, <3>2, <3>3, <3>4
  <2>5. Asked[a] # None /\ Asked[a] = [key |-> k, print |-> att[a].print]
    BY <1>7, Present, Zenon
  <2> QED
    BY <1>1, <1>4, <1>5, <2>2, <2>4, <2>5 DEF Serialized!Apply
<1> QED
  BY <1>1, <1>6, <1>7

\* Deliver is Tell, with the notification when there is one to send.
LEMMA RefinesDeliver ==
  ASSUME IInv, NEW a \in Attempts, Deliver(a)
  PROVE  Serialized!Tell(a) \/ Serialized!TellAndNotify(a)
<1> DEFINE k == att[a].key
           Notified == {j \in Keys : sent[j] > 0}
<1>1. /\ att[a].pc = "committed" /\ sent' = [sent EXCEPT ![k] = @ + att[a].effects]
      /\ att' = [att EXCEPT ![a].pc = "answered", ![a].effects = 0] /\ db' = db
  BY DEF Deliver
<1>2. /\ att[a].effects \in {0, 1} /\ (att[a].effects = 1 => sent[k] = 0)
      /\ Settled(a) /\ k \in Keys /\ sent \in [Keys -> Nat]
  BY <1>1 DEF IInv, AttemptOK, TypeOK
<1>3. db.receipt[k].state = "COMPLETED"
  BY <1>2 DEF IInv, ReceiptsFinal, Settled
<1>4. /\ Asked[a] # None /\ Asked[a].key = k /\ Asked[a].print = att[a].print
      /\ Applied[k] # None /\ Applied[k].print = att[a].print
      /\ Applied[k].result = att[a].result
  <2>1. att[a].pc # "free"
    BY <1>1
  <2>2. Asked[a] = [key |-> k, print |-> att[a].print] /\ Asked[a] # None
    BY <2>1, Present, Zenon
  <2>3. /\ Applied[k] = [print |-> db.receipt[k].print, result |-> db.receipt[k].result]
        /\ Applied[k] # None
    BY <1>2, <1>3, <2>1, Present, Zenon
  <2> QED
    BY <1>2, <2>2, <2>3 DEF Settled
<1>5. Serialized!Known(a)
  BY <1>4 DEF Serialized!Known
<1>6. /\ att'[a].pc = "answered" /\ att'[a].key = k /\ att'[a].print = att[a].print
      /\ att'[a].result = att[a].result
      /\ \A b \in Attempts \ {a} : att'[b] = att[b]
  BY <1>1, Types DEF IInv, Attempt
<1>7. Asked' = Asked /\ Applied' = Applied
  BY <1>1, <1>6 DEF Asked, Applied
<1>8. Told[a] = None /\ Told' = [Told EXCEPT ![a] = att[a].result]
  <2> DEFINE Heard(r) == IF r.pc = "answered" THEN r.result ELSE None
  <2>1. Heard(att[a]) = None
    BY <1>1
  <2>2. Heard(att'[a]) = att[a].result
    BY <1>6
  <2>3. Told = [b \in Attempts |-> Heard(att[b])] /\ Told' = [b \in Attempts |-> Heard(att'[b])]
    BY DEF Told
  <2> HIDE DEF Heard
  <2> QED
    BY <1>6, <2>1, <2>2, <2>3
<1>9. CASE att[a].effects = 0
  <2>1. sent' = sent
    BY <1>1, <1>2, <1>9
  <2> QED
    BY <1>1, <1>4, <1>5, <1>7, <1>8, <2>1 DEF Serialized!Tell
<1>10. CASE att[a].effects = 1
  <2>1. \A j \in Keys : sent'[j] = IF j = k THEN 1 ELSE sent[j]
    BY <1>1, <1>2, <1>10
  <2>2. k \notin Notified /\ Notified' = Notified \cup {k}
    BY <1>2, <1>10, <2>1
  <2> QED
    BY <1>1, <1>4, <1>5, <1>7, <1>8, <2>2 DEF Serialized!TellAndNotify
<1> QED
  BY <1>2, <1>9, <1>10

\* Every step maps to a step of the serial owner or to a stutter.
LEMMA RefinesNext == IInv /\ [Next]_vars => [Serialized!Next]_(Serialized!vars)
<1> SUFFICES ASSUME IInv, [Next]_vars
             PROVE  Serialized!Next \/ UNCHANGED Serialized!vars
  OBVIOUS
<1>1. CASE UNCHANGED vars
  BY <1>1 DEF vars, Serialized!vars, Asked, Applied, Told
<1>2. CASE Next
  <2>1. PICK a \in Attempts :
          Receive(a) \/ Step(a) \/ GiveUp(a) \/ Reject(a) \/ Retry(a) \/ Crash(a)
    BY <1>2 DEF Next
  <2>2. CASE Receive(a)
    BY <2>2, RefinesReceive DEF Serialized!Next
  <2>3. CASE Commit(a)
    BY <2>3, RefinesCommit DEF Serialized!Next
  <2>4. CASE Deliver(a)
    BY <2>4, RefinesDeliver DEF Serialized!Next
  <2>5. CASE Expire(a)
    BY <2>5 DEF Expire, Serialized!vars, Asked, Applied, Told
  <2>6. CASE \/ ReplayFast(a) \/ RefuseFast(a) \/ Miss(a) \/ Lock(a) \/ GiveUp(a)
             \/ Replay(a) \/ Refuse(a) \/ Claim(a) \/ Work(a) \/ Reject(a) \/ Record(a)
             \/ Retry(a) \/ Crash(a)
    <3>1. /\ att[a].pc \notin {"free", "answered"} /\ db' = db /\ sent' = sent
          /\ att' = [att EXCEPT ![a] = att'[a]]
          /\ att'[a].pc \notin {"free", "answered"}
          /\ att'[a].key = att[a].key /\ att'[a].print = att[a].print
      <4>1. att \in [Attempts -> Attempt] /\ att[a] \in Attempt
        BY Types DEF IInv
      <4>2. CASE RefuseFast(a) \/ Miss(a) \/ Lock(a) \/ GiveUp(a) \/ Claim(a)
        BY <4>1, <4>2 DEF RefuseFast, Miss, Lock, GiveUp, Claim, Goto, Attempt
      <4>3. CASE Refuse(a) \/ Reject(a) \/ Retry(a)
        BY <4>1, <4>3 DEF Refuse, Reject, Retry, Drop, InTransaction, Attempt
      <4>4. CASE ReplayFast(a) \/ Replay(a)
        BY <4>1, <4>4 DEF ReplayFast, Replay, Attempt
      <4>5. CASE Work(a) \/ Record(a)
        BY <4>1, <4>5 DEF Work, Record, Attempt
      <4>6. CASE Crash(a)
        BY <4>1, <4>6 DEF Crash, Ended, Attempt
      <4> QED
        BY <2>6, <4>2, <4>3, <4>4, <4>5, <4>6
    <3>2. att'[a] \in Attempt
      <4>1. IInv'
        BY <2>1, StepIInv
      <4> QED
        BY <4>1 DEF IInv, TypeOK
    <3> QED
      BY <3>1, <3>2, Unseen
  <2> QED
    BY <2>1, <2>2, <2>3, <2>4, <2>5, <2>6 DEF Step
<1> QED
  BY <1>1, <1>2

\* The owner's operations, run by crashing and retrying processes, are a
\* behaviour of the serial owner: each key once, one result for all who ask.
THEOREM Refinement == Spec => ImplementsSerialized
<1>1. Init => Serialized!Init
  BY RefinesInit
<1>2. IInv /\ [Next]_vars => [Serialized!Next]_(Serialized!vars)
  BY RefinesNext
<1>3. QED
  BY <1>1, <1>2, Invariance, PTL DEF Spec, ImplementsSerialized, Serialized!Spec
=============================================================================
