-------------------------- MODULE OwnerTransaction --------------------------
(***************************************************************************)
(* withIdempotency on top of withOwnerTransaction: how one owner's         *)
(* operations, retried by clients and by the MongoDB driver, interleaved   *)
(* over several server processes that may crash at any point, become a     *)
(* sequence in which each operation happens once.                          *)
(*                                                                         *)
(* A request (an attempt) carries an operation key and, in v2, the         *)
(* fingerprint of what it asks for.  Its transaction reads a snapshot, and *)
(* the first thing it does is to increment the owner's fence document;     *)
(* MongoDB refuses that write while another transaction holds it.          *)
(***************************************************************************)
EXTENDS Naturals

CONSTANTS
  Attempts,    \* requests that reach the server, first tries and retries alike
  Keys,        \* operation ids of one owner
  Prints,      \* request fingerprints
  None,        \* no fingerprint (v1 endpoints), no attempt, no key
  MaxRetries   \* bound: transient errors, over all attempts

ASSUME RetryAssumption == MaxRetries \in Nat
ASSUME NoneAssumption ==
  /\ None \notin Attempts /\ None \notin Keys /\ None \notin Prints /\ None \notin Nat
  /\ None \notin [key : Keys, print : Prints \cup {None}]
  /\ None \notin [print : Prints \cup {None}, result : Nat]

VARIABLES
  db,        \* committed: fence revision, receipts, business documents
  fence,     \* the attempt whose open transaction wrote the fence, or None
  view,      \* what each open transaction reads and writes
  att,       \* the control state of each attempt
  sent,      \* notifications that left the server, per key
  history,   \* keys whose business writes were ever committed
  retries    \* transient errors so far

vars == <<db, fence, view, att, sent, history, retries>>

-----------------------------------------------------------------------------

Receipt == [state : {"NONE", "IN_PROGRESS", "COMPLETED"}, print : Prints \cup {None},
            result : Nat]

\* runs[k]: how often k's business writes are in the documents
Data == [rev : Nat, receipt : [Keys -> Receipt], runs : [Keys -> Nat]]

Stages == {"free", "received", "waiting", "locked", "claimed", "worked", "recorded",
           "replaying", "committed", "answered", "refused", "gone"}

Attempt == [pc : Stages, key : Keys \cup {None}, print : Prints \cup {None},
            effects : Nat, result : Nat]

NoReceipt == [state |-> "NONE", print |-> None, result |-> 0]

InTransaction(a) ==
  att[a].pc \in {"locked", "claimed", "worked", "recorded", "replaying"}

Ended(a) == att[a].pc \in {"answered", "refused", "gone"}

Empty == [rev |-> 0, receipt |-> [k \in Keys |-> NoReceipt], runs |-> [k \in Keys |-> 0]]

Init ==
  /\ db = Empty
  /\ fence = None
  /\ view = [a \in Attempts |-> Empty]
  /\ att = [a \in Attempts |-> [pc |-> "free", key |-> None, print |-> None,
                                effects |-> 0, result |-> 0]]
  /\ sent = [k \in Keys |-> 0]
  /\ history = {}
  /\ retries = 0

\* The attempt moves on to another stage.
Goto(a, stage) == att' = [att EXCEPT ![a].pc = stage]

\* The open transaction is dropped, with its writes and the queue of its notifications.
Drop(a, stage) ==
  /\ att' = [att EXCEPT ![a].pc = stage, ![a].effects = 0]
  /\ view' = [view EXCEPT ![a] = Empty]
  /\ fence' = None

\* Mutant: whoever has the key is answered.
AnyIntent(receipt, print) == TRUE

\* replay: a receipt answers only the intent it was made for.
SameIntent(receipt, print) == receipt.print = print

-----------------------------------------------------------------------------
(* Before the transaction.                                                 *)

\* A request without an operation id is refused at once; any other goes on.
Receive(a) ==
  /\ att[a].pc = "free"
  /\ \E k \in Keys, f \in Prints \cup {None} :
       att' = [att EXCEPT ![a].pc = "received", ![a].key = k, ![a].print = f]
  /\ UNCHANGED <<db, fence, view, sent, history, retries>>

\* A committed receipt is replayed without taking the fence, ...
ReplayFast(a) ==
  LET receipt == db.receipt[att[a].key] IN
  /\ att[a].pc = "received"
  /\ receipt.state = "COMPLETED"
  /\ SameIntent(receipt, att[a].print)
  /\ att' = [att EXCEPT ![a].pc = "committed", ![a].result = receipt.result]
  /\ UNCHANGED <<db, fence, view, sent, history, retries>>

\* ... refused when it was made for something else, ...
RefuseFast(a) ==
  LET receipt == db.receipt[att[a].key] IN
  /\ att[a].pc = "received"
  /\ receipt.state = "COMPLETED"
  /\ ~SameIntent(receipt, att[a].print)
  /\ Goto(a, "refused")
  /\ UNCHANGED <<db, fence, view, sent, history, retries>>

\* ... and without one the attempt goes for the fence.
Miss(a) ==
  /\ att[a].pc = "received"
  /\ db.receipt[att[a].key].state # "COMPLETED"
  /\ Goto(a, "waiting")
  /\ UNCHANGED <<db, fence, view, sent, history, retries>>

-----------------------------------------------------------------------------
(* The transaction.                                                        *)

\* Mutant: nobody looks whether the fence is held.
LockUnfenced(a) ==
  /\ att[a].pc = "waiting"
  /\ fence' = a
  /\ view' = [view EXCEPT ![a] = [db EXCEPT !.rev = @ + 1]]
  /\ Goto(a, "locked")
  /\ UNCHANGED <<db, sent, history, retries>>

\* lockOwner: the snapshot is taken and the fence incremented in one step.  A
\* write conflict makes the driver start over, which leaves the attempt here.
Lock(a) ==
  /\ att[a].pc = "waiting"
  /\ fence = None
  /\ fence' = a
  /\ view' = [view EXCEPT ![a] = [db EXCEPT !.rev = @ + 1]]
  /\ Goto(a, "locked")
  /\ UNCHANGED <<db, sent, history, retries>>

\* The driver stops trying after its time limit.
GiveUp(a) ==
  /\ att[a].pc = "waiting"
  /\ fence # None
  /\ Goto(a, "refused")
  /\ UNCHANGED <<db, fence, view, sent, history, retries>>

\* Another attempt with this key committed after the fast look.
Replay(a) ==
  LET receipt == view[a].receipt[att[a].key] IN
  /\ att[a].pc = "locked"
  /\ receipt.state = "COMPLETED"
  /\ SameIntent(receipt, att[a].print)
  /\ att' = [att EXCEPT ![a].pc = "replaying", ![a].result = receipt.result]
  /\ UNCHANGED <<db, fence, view, sent, history, retries>>

\* Another intent, or a claim that is still open.
Refuse(a) ==
  LET receipt == view[a].receipt[att[a].key] IN
  /\ att[a].pc = "locked"
  /\ receipt.state # "NONE"
  /\ receipt.state = "IN_PROGRESS" \/ ~SameIntent(receipt, att[a].print)
  /\ Drop(a, "refused")
  /\ UNCHANGED <<db, sent, history, retries>>

\* Mutant: the receipt is not looked for again under the fence.
ClaimUnchecked(a) ==
  /\ att[a].pc = "locked"
  /\ view' = [view EXCEPT ![a].receipt[att[a].key] =
                [state |-> "IN_PROGRESS", print |-> att[a].print, result |-> 0]]
  /\ Goto(a, "claimed")
  /\ UNCHANGED <<db, fence, sent, history, retries>>

Claim(a) ==
  /\ att[a].pc = "locked"
  /\ view[a].receipt[att[a].key].state = "NONE"
  /\ view' = [view EXCEPT ![a].receipt[att[a].key] =
                [state |-> "IN_PROGRESS", print |-> att[a].print, result |-> 0]]
  /\ Goto(a, "claimed")
  /\ UNCHANGED <<db, fence, sent, history, retries>>

\* The business callback writes its documents and queues a notification, ...
Work(a) ==
  /\ att[a].pc = "claimed"
  /\ view' = [view EXCEPT ![a].runs[att[a].key] = @ + 1]
  /\ att' = [att EXCEPT ![a].pc = "worked", ![a].effects = @ + 1]
  /\ UNCHANGED <<db, fence, sent, history, retries>>

\* ... or refuses the request, and the claim goes with everything else.
Reject(a) ==
  /\ att[a].pc = "claimed"
  /\ Drop(a, "refused")
  /\ UNCHANGED <<db, sent, history, retries>>

\* The receipt keeps the result, here the revision of the transaction.
Record(a) ==
  /\ att[a].pc = "worked"
  /\ view' = [view EXCEPT ![a].receipt[att[a].key] =
                [state |-> "COMPLETED", print |-> att[a].print, result |-> view[a].rev]]
  /\ att' = [att EXCEPT ![a].pc = "recorded", ![a].result = view[a].rev]
  /\ UNCHANGED <<db, fence, sent, history, retries>>

Commit(a) ==
  /\ att[a].pc \in {"recorded", "replaying"}
  /\ db' = view[a]
  /\ history' = IF att[a].pc = "recorded" THEN history \cup {att[a].key} ELSE history
  /\ view' = [view EXCEPT ![a] = Empty]
  /\ fence' = None
  /\ Goto(a, "committed")
  /\ UNCHANGED <<sent, retries>>

\* Mutant: the queue of notifications survives the transaction it belongs to.
RetryKeepsEffects(a) ==
  /\ InTransaction(a)
  /\ retries < MaxRetries
  /\ retries' = retries + 1
  /\ view' = [view EXCEPT ![a] = Empty]
  /\ fence' = None
  /\ Goto(a, "waiting")
  /\ UNCHANGED <<db, sent, history>>

\* A transient error (an election, a lost connection): withTransaction calls the
\* callback again, with a fresh scope.
Retry(a) ==
  /\ InTransaction(a)
  /\ retries < MaxRetries
  /\ retries' = retries + 1
  /\ Drop(a, "waiting")
  /\ UNCHANGED <<db, sent, history>>

-----------------------------------------------------------------------------
(* After the transaction.                                                  *)

\* The queued notifications leave, then the reply.
Deliver(a) ==
  /\ att[a].pc = "committed"
  /\ sent' = [sent EXCEPT ![att[a].key] = @ + att[a].effects]
  /\ att' = [att EXCEPT ![a].pc = "answered", ![a].effects = 0]
  /\ UNCHANGED <<db, fence, view, history, retries>>

\* The process dies.  A transaction it had open still holds the fence.
Crash(a) ==
  /\ att[a].pc # "free" /\ ~Ended(a)
  /\ att' = [att EXCEPT ![a].pc = "gone", ![a].effects = 0]
  /\ view' = [view EXCEPT ![a] = Empty]
  /\ UNCHANGED <<db, fence, sent, history, retries>>

\* Mutant: a crashed holder is never noticed.
ExpireNever(a) == FALSE /\ UNCHANGED vars

\* MongoDB aborts a transaction whose client is gone.
Expire(a) ==
  /\ fence = a /\ att[a].pc = "gone"
  /\ fence' = None
  /\ UNCHANGED <<db, view, att, sent, history, retries>>

Step(a) ==
  \/ ReplayFast(a) \/ RefuseFast(a) \/ Miss(a)
  \/ Lock(a) \/ Replay(a) \/ Refuse(a) \/ Claim(a) \/ Work(a) \/ Record(a)
  \/ Commit(a) \/ Deliver(a) \/ Expire(a)

Next == \E a \in Attempts :
  Receive(a) \/ Step(a) \/ GiveUp(a) \/ Reject(a) \/ Retry(a) \/ Crash(a)

Spec == Init /\ [][Next]_vars

\* Every process goes on with its request while it lives, and the driver tries
\* again when the fence was held; nothing has to arrive, fail or crash.
Fairness == \A a \in Attempts : WF_vars(Step(a))

FairSpec == Spec /\ Fairness

-----------------------------------------------------------------------------
(* Properties.                                                             *)

\* The collections and the attempts hold values of their types; in particular
\* no request goes on without an operation id.
TypeOK ==
  /\ db \in Data
  /\ fence \in Attempts \cup {None}
  /\ view \in [Attempts -> Data]
  /\ att \in [Attempts -> Attempt]
  /\ \A a \in Attempts : att[a].pc # "free" => att[a].key \in Keys
  /\ sent \in [Keys -> Nat]
  /\ history \subseteq Keys
  /\ retries \in Nat

\* The business writes of a key are in the documents exactly once from the
\* moment they were first committed: no retry, replay, crash or concurrent
\* writer applies them again, and none overwrites them with older documents
\* (idempotency.service 29-51, transaction.ts lockOwner).
AppliedOnce == \A k \in Keys : db.runs[k] = IF k \in history THEN 1 ELSE 0

\* A committed receipt is always final and stands for writes that are there: a
\* claim is never visible outside its transaction, so no key is stuck "still
\* being processed" after a crash (comment of idempotency.service 41-43).
ReceiptsFinal == \A k \in Keys :
  /\ db.receipt[k].state # "IN_PROGRESS"
  /\ db.receipt[k].state = "COMPLETED" <=> k \in history

\* Whoever is told that a key succeeded is told of writes that are durable, with
\* the result and for the intent every other attempt was told.
AnswersAgree ==
  \A a \in Attempts : att[a].pc = "answered" =>
    LET receipt == db.receipt[att[a].key] IN
    /\ att[a].key \in history
    /\ receipt.print = att[a].print
    /\ receipt.result = att[a].result

\* The outside world hears of an operation only after it is durable, and once
\* (comment of transaction.ts 13).
NotifiedOnce == \A k \in Keys : sent[k] <= IF k \in history THEN 1 ELSE 0

\* Every request that arrives is answered or refused unless its process dies,
\* although any of the others may die holding the fence.
RequestsEnd == \A a \in Attempts : att[a].pc = "received" ~> Ended(a)

-----------------------------------------------------------------------------
(* What a client sees.                                                     *)

Asked   == [a \in Attempts |-> IF att[a].pc = "free" THEN None
                               ELSE [key |-> att[a].key, print |-> att[a].print]]
Applied == [k \in Keys |-> IF db.receipt[k].state # "COMPLETED" THEN None
                           ELSE [print  |-> db.receipt[k].print,
                                 result |-> db.receipt[k].result]]
Told    == [a \in Attempts |-> IF att[a].pc = "answered" THEN att[a].result ELSE None]

Serialized == INSTANCE SerializedOwner WITH
  Prints   <- Prints \cup {None},
  asked    <- Asked,
  rev      <- db.rev,
  applied  <- Applied,
  told     <- Told,
  notified <- {k \in Keys : sent[k] > 0}

\* The operations of an owner form a sequence in which each key happens once.
ImplementsSerialized == Serialized!Spec
=============================================================================
