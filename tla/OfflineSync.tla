---------------------------- MODULE OfflineSync ----------------------------
(***************************************************************************)
(* One device of an owner and the server's sync endpoint.  The device      *)
(* queues edits against the versions it has seen and sends them, as often  *)
(* as it takes, with an operation id each (sync.service.ts); and it pulls  *)
(* what the owner's other devices wrote, page by page, in a revision       *)
(* window fixed when the pull began (sync.pull.ts).  A page reads its      *)
(* collections one by one while writers go on; replies may be lost; the    *)
(* business day and the owner's tier may change at any point.              *)
(*                                                                         *)
(* A document is known by the revision that last wrote it (serverVersion): *)
(* its content never matters here.  An operation is one step: its          *)
(* transaction is atomic (OwnerTransaction).                               *)
(***************************************************************************)
EXTENDS Naturals, FiniteSets

CONSTANTS
  Collections,  \* of "products", "inventory", "daily" and "deletedProducts"
  MaxProduct,   \* bound: products, by the order of their _ids
  MaxDay,       \* bound: business days; a dated document is that of its day
  MaxRev,       \* bound: committed transactions of the owner
  MaxWrites,    \* bound: documents one transaction writes
  MaxTurns,     \* bound: changes of tier
  MaxLosses,    \* bound: lost replies
  PageSize,     \* documents of each collection on a page
  Ops,          \* operation ids the device may use
  None          \* no document, token, page or operation

ASSUME CollectionsAssumption ==
  /\ Collections \subseteq {"products", "inventory", "daily", "deletedProducts"}
  /\ {"products", "deletedProducts"} \subseteq Collections
ASSUME BoundsAssumption ==
  /\ MaxProduct \in Nat /\ MaxDay \in Nat \ {0} /\ MaxRev \in Nat /\ MaxWrites \in Nat
  /\ MaxTurns \in Nat /\ MaxLosses \in Nat /\ PageSize \in Nat \ {0}
ASSUME NoneAssumption == None \notin Nat

VARIABLES
  rev,         \* the owner's committed revision
  docs,        \* serverVersion of each document, None where there is none
  today, tier, \* what decides the scope of a pull
  turns, losses,
  replica,     \* the device's copy of the documents
  checkpoint,  \* the device's last completed pull
  cursor,      \* the device's place in an unfinished pull
  pull,        \* the page the server is at work on
  ops,         \* the edits the device queued
  receipts,    \* operations with a committed receipt
  verdicts,    \* what the device was told of each operation
  applied      \* how often each operation's writes were committed

server == <<rev, docs, today, tier, turns>>
device == <<replica, checkpoint, cursor>>
queue  == <<ops, receipts, verdicts, applied>>
vars   == <<server, losses, device, pull, queue>>

Products == 1..MaxProduct
Days     == 1..MaxDay
Dated    == Collections \cap {"inventory", "daily"}

Ids(c) == IF c \in Dated THEN Days ELSE Products
Docs   == UNION {{c} \X Ids(c) : c \in Collections}

Row(p)  == <<"products", p>>
Tomb(p) == <<"deletedProducts", p>>

Version == Nat \cup {None}

Position == [id : Nat, revision : Nat]

\* A sync token: a completed pull has a scope and an upper bound; one under way
\* also has a lower bound and a place in each collection.
Checkpoint == [scope : Nat, high : Nat]
Token == [scope : Nat, high : Nat, low : Version,
          at : [Collections -> Position \cup {None}], done : [Collections -> BOOLEAN]]

Page == [token : Token, items : SUBSET [doc : Docs, version : Nat],
         read : SUBSET Collections]

Op == [kind : {"put", "delete"}, product : Products, base : Nat]

\* The free tier sees the present day only; 0 stands for everything.
Scope == IF tier = "tekin" THEN today ELSE 0

InScope(d, scope) == d[1] \in Dated /\ scope # 0 => d[2] = scope

Init ==
  /\ rev = 0
  /\ docs = [d \in Docs |-> IF d = Row(1) THEN 0 ELSE None]  \* older than the versions
  /\ today = 1
  /\ tier = "bor"
  /\ turns = 0 /\ losses = 0
  /\ replica = [d \in Docs |-> None]
  /\ checkpoint = None /\ cursor = None /\ pull = None
  /\ ops = [o \in Ops |-> None]
  /\ receipts = {}
  /\ verdicts = [o \in Ops |-> {}]
  /\ applied = [o \in Ops |-> 0]

-----------------------------------------------------------------------------
(* The owner's other devices.                                              *)

\* serverVersionPlugin: whatever a transaction writes carries its revision.
Stamp(written, gone) ==
  /\ rev < MaxRev
  /\ rev' = rev + 1
  /\ docs' = [d \in Docs |-> IF d \in gone THEN None
                             ELSE IF d \in written THEN rev + 1 ELSE docs[d]]
  /\ UNCHANGED <<today, tier, turns>>

\* Mutant: the id of a deleted product may be used again.
AnyId(p) == TRUE

\* product.service create: the id of a deleted product stays taken.
FreshId(p) == docs[Tomb(p)] = None

Exists(p) == docs[Row(p)] # None

\* Any operation of another device, or of the web: it writes products, old and
\* new, and documents of days up to today.
Write ==
  LET writable == {Row(p) : p \in {q \in Products : Exists(q) \/ FreshId(q)}}
                    \cup (Dated \X (1..today))
  IN  \E written \in SUBSET writable :
        /\ Cardinality(written) <= MaxWrites
        /\ Stamp(written, {})
        /\ UNCHANGED <<losses, device, pull, queue>>

\* removeInTransaction: the document goes, its tombstone comes, and the entries
\* that carry its name are rewritten.
Removed(p, written) == Stamp(written \cup {Tomb(p)}, {Row(p)})

Entries == {d \in Docs : d[1] = "inventory" /\ docs[d] # None}

Remove == \E p \in Products : \E written \in SUBSET Entries :
  /\ Exists(p)
  /\ Removed(p, written)
  /\ UNCHANGED <<losses, device, pull, queue>>

NextDay ==
  /\ today < MaxDay
  /\ today' = today + 1
  /\ UNCHANGED <<rev, docs, tier, turns, losses, device, pull, queue>>

\* A subscription begins, is bought or runs out.
ChangeTier ==
  /\ turns < MaxTurns
  /\ turns' = turns + 1
  /\ tier' \in {"tekin", "bor"} \ {tier}
  /\ UNCHANGED <<rev, docs, today, losses, device, pull, queue>>

-----------------------------------------------------------------------------
(* The device's queue.                                                     *)

\* The device edits or deletes what it has, or makes something new.
Queue(o) == \E p \in Products, kind \in {"put", "delete"} :
  LET seen == replica[Row(p)] IN
  /\ ops[o] = None
  /\ kind = "delete" => seen # None
  /\ ops' = [ops EXCEPT ![o] = [kind |-> kind, product |-> p,
                                base |-> IF seen = None THEN 0 ELSE seen]]
  /\ UNCHANGED <<server, losses, device, pull, receipts, verdicts, applied>>

\* The reply reaches the device, or is lost and the operation sent again; the
\* server may meet an operation at any time after it was queued.
Tell(o, verdict) ==
  \/ /\ verdicts' = [verdicts EXCEPT ![o] = @ \cup {verdict}]
     /\ UNCHANGED losses
  \/ /\ losses < MaxLosses
     /\ losses' = losses + 1
     /\ UNCHANGED verdicts

Acknowledge(o) ==
  /\ receipts' = receipts \cup {o}
  /\ applied' = [applied EXCEPT ![o] = @ + 1]
  /\ Tell(o, "acknowledged")
  /\ UNCHANGED <<device, pull, ops>>

\* Mutant: a second delivery is taken for a first one.
UndoneTwice(o) == ops[o] # None

\* No receipt yet: the operation is to be applied.
Undone(o) == ops[o] # None /\ o \notin receipts

\* assertBaseVersion: the edit was made on the version that is there.
BaseHolds(op) == docs[Row(op.product)] = op.base

\* An edit of what exists also rewrites today's documents; a new product is one
\* that the device made (base 0) and nobody deleted.
Put(o) ==
  LET op == ops[o] IN
  /\ Undone(o)
  /\ op.kind = "put"
  /\ IF Exists(op.product) THEN BaseHolds(op) ELSE op.base = 0 /\ FreshId(op.product)
  /\ Stamp({Row(op.product)} \cup (Dated \X {today}), {})
  /\ Acknowledge(o)

Delete(o) ==
  LET op == ops[o] IN
  /\ Undone(o)
  /\ op.kind = "delete"
  /\ Exists(op.product) /\ BaseHolds(op)
  /\ \E written \in SUBSET Entries : Removed(op.product, written)
  /\ Acknowledge(o)

\* STALE_VERSION or ENTITY_DELETED: the transaction is dropped, receipt and all.
\* (A create that only the tier's cap refuses is as if it had not been sent.)
Conflict(o) ==
  LET op == ops[o] IN
  /\ Undone(o)
  /\ IF Exists(op.product) THEN ~BaseHolds(op)
     ELSE op.kind = "delete" \/ op.base # 0 \/ ~FreshId(op.product)
  /\ Tell(o, "conflict")
  /\ UNCHANGED <<server, device, pull, ops, receipts, applied>>

\* withIdempotency: a receipt answers a repeated delivery.
Replay(o) ==
  /\ o \in receipts
  /\ Tell(o, "acknowledged")
  /\ UNCHANGED <<server, device, pull, ops, receipts, applied>>

-----------------------------------------------------------------------------
(* Pulling.                                                                *)

\* What the device has already; None asks for the baseline.
LowerBound == IF checkpoint # None /\ checkpoint.scope = Scope THEN checkpoint.high ELSE None

Open(token) ==
  pull' = [token |-> token, items |-> {}, read |-> {c \in Collections : token.done[c]}]

\* The window is fixed by the committed revision.  (The code refuses a lower
\* bound above it; revisions only grow, so that takes a restored backup.)
BeginPull ==
  /\ pull = None /\ cursor = None
  /\ LowerBound # None => LowerBound <= rev
  /\ Open([scope |-> Scope, high |-> rev, low |-> LowerBound,
           at |-> [c \in Collections |-> None], done |-> [c \in Collections |-> FALSE]])
  /\ UNCHANGED <<server, losses, device, queue>>

ContinuePull ==
  /\ pull = None /\ cursor # None
  /\ cursor.scope = Scope
  /\ Open(cursor)
  /\ UNCHANGED <<server, losses, device, queue>>

\* SYNC_SCOPE_CHANGED: the device forgets its place and its checkpoint, and
\* nothing else (docs/reliability-remediation.md).
ScopeChanged ==
  /\ pull = None /\ cursor # None
  /\ cursor.scope # Scope
  /\ cursor' = None /\ checkpoint' = None
  /\ UNCHANGED <<server, losses, replica, pull, queue>>

\* Mutant: of the documents of one revision only those of one page are sent.
AfterRevision(t, c, i) ==
  \/ t.at[c] = None
  \/ t.low = None /\ i > t.at[c].id
  \/ t.low # None /\ docs[<<c, i>>] > t.at[c].revision

\* Beyond the token's place in the order of the pull.
After(t, c, i) ==
  \/ t.at[c] = None
  \/ t.low = None /\ i > t.at[c].id
  \/ t.low # None /\ docs[<<c, i>>] > t.at[c].revision
  \/ t.low # None /\ docs[<<c, i>>] = t.at[c].revision /\ i > t.at[c].id

\* What is left to send of a collection: the baseline in the order of _ids, a
\* window in the order of revisions.
Matching(t, c) == {i \in Ids(c) :
  /\ docs[<<c, i>>] # None
  /\ InScope(<<c, i>>, t.scope)
  /\ docs[<<c, i>>] <= t.high
  /\ t.low # None => docs[<<c, i>>] > t.low
  /\ After(t, c, i)}

Precedes(t, c, i, j) ==
  IF t.low = None THEN i < j
  ELSE \/ docs[<<c, i>>] < docs[<<c, j>>]
       \/ docs[<<c, i>>] = docs[<<c, j>>] /\ i < j

Rank(t, c, i) == Cardinality({j \in Matching(t, c) : Precedes(t, c, j, i)})

PageOf(t, c) == {i \in Matching(t, c) : Rank(t, c, i) < PageSize}

\* One collection is read, at its own moment.
Read(c) ==
  LET t    == pull.token
      page == PageOf(t, c)
      last == CHOOSE i \in page : \A j \in page : i = j \/ Precedes(t, c, j, i)
  IN
  /\ pull # None
  /\ c \notin pull.read
  /\ pull' = [pull EXCEPT
       !.token.done[c] = Matching(t, c) = page,
       !.token.at[c]   = IF page = {} THEN @
                         ELSE [id |-> last, revision |-> docs[<<c, last>>]],
       !.items = @ \cup {[doc |-> <<c, i>>, version |-> docs[<<c, i>>]] : i \in page},
       !.read  = @ \cup {c}]
  /\ UNCHANGED <<server, losses, device, queue>>

\* The device takes over a page: a tombstone removes its product.
Merged(items) == [d \in Docs |->
  IF \E i \in items : i.doc = d THEN (CHOOSE i \in items : i.doc = d).version
  ELSE IF d[1] = "products" /\ \E i \in items : i.doc = Tomb(d[2]) THEN None
  ELSE replica[d]]

\* Mutant: the device keeps its cursor after the last page.
DeliverKeepsCursor ==
  /\ pull # None /\ pull.read = Collections
  /\ replica' = Merged(pull.items)
  /\ IF \A c \in Collections : pull.token.done[c]
     THEN checkpoint' = [scope |-> pull.token.scope, high |-> pull.token.high]
     ELSE UNCHANGED checkpoint
  /\ cursor' = pull.token
  /\ pull' = None
  /\ UNCHANGED <<server, losses, queue>>

\* The reply arrives: the last page carries the checkpoint, any other a cursor.
Deliver ==
  /\ pull # None /\ pull.read = Collections
  /\ replica' = Merged(pull.items)
  /\ IF \A c \in Collections : pull.token.done[c]
     THEN /\ checkpoint' = [scope |-> pull.token.scope, high |-> pull.token.high]
          /\ cursor' = None
     ELSE cursor' = pull.token /\ UNCHANGED checkpoint
  /\ pull' = None
  /\ UNCHANGED <<server, losses, queue>>

\* The request or its reply is lost, or the server dies; the device asks again
\* from where it was, or after a restart from its checkpoint.
Lose ==
  /\ pull # None
  /\ losses < MaxLosses
  /\ losses' = losses + 1
  /\ pull' = None
  /\ cursor' \in {cursor, None}
  /\ UNCHANGED <<server, replica, checkpoint, queue>>

Pulling ==
  \/ BeginPull \/ ContinuePull \/ ScopeChanged \/ Deliver
  \/ \E c \in Collections : Read(c)

Next ==
  \/ Write \/ Remove \/ NextDay \/ ChangeTier \/ Lose
  \/ Pulling
  \/ \E o \in Ops : Queue(o) \/ Put(o) \/ Delete(o) \/ Conflict(o) \/ Replay(o)

Spec == Init /\ [][Next]_vars

\* The device keeps pulling and the server keeps answering; nobody has to write,
\* and only finitely many replies are lost.
FairSpec == Spec /\ WF_vars(Pulling)

-----------------------------------------------------------------------------
(* Properties.                                                             *)

\* Variables hold values of their types; a page holds at most PageSize documents
\* of a collection, whatever is written while its collections are read.
TypeOK ==
  /\ rev \in Nat
  /\ docs \in [Docs -> Version] /\ replica \in [Docs -> Version]
  /\ today \in Days /\ tier \in {"tekin", "bor"}
  /\ turns \in Nat /\ losses \in Nat
  /\ checkpoint \in Checkpoint \cup {None}
  /\ cursor \in Token \cup {None}
  /\ pull # None =>
       /\ pull \in Page
       /\ \A c \in Collections :
            Cardinality({i \in pull.items : i.doc[1] = c}) <= PageSize
  /\ ops \in [Ops -> Op \cup {None}]
  /\ receipts \subseteq Ops
  /\ verdicts \in [Ops -> SUBSET {"acknowledged", "conflict"}]
  /\ applied \in [Ops -> Nat]

\* A checkpoint is complete: whatever the server last wrote at or before it and
\* has in its scope is in the device's copy, in that very version, and what was
\* deleted by then is not, although documents moved out of the window between
\* the pages, and between the collections of a page (sync.pull.ts 54-91).
NothingMissed ==
  checkpoint # None => \A d \in Docs :
    /\ docs[d] # None /\ docs[d] <= checkpoint.high /\ InScope(d, checkpoint.scope)
         => replica[d] = docs[d]
    /\ d[1] = "products" /\ docs[Tomb(d[2])] # None /\ docs[Tomb(d[2])] <= checkpoint.high
         => replica[d] = None

\* The device's copy never goes back: no page brings an older version than it
\* has, nor a product it knows to be deleted (product-tombstone.model.ts 11: a
\* device offline for months cannot resurrect a deleted id).
NeverBack ==
  [][\A d \in Docs :
       /\ replica[d] # None /\ replica'[d] # None => replica'[d] >= replica[d]
       /\ d[1] = "products" /\ replica[Tomb(d[2])] # None => replica'[d] = None]_vars

\* What the device is told of an operation is final and true: an acknowledged
\* one was applied once however often it was delivered; one told to be in
\* conflict was not applied and never will be, not even by a delivery that is
\* still under way (sync.service.ts 25-59).
VerdictsTrue == \A o \in Ops :
  /\ applied[o] <= 1
  /\ "acknowledged" \in verdicts[o] => applied[o] = 1
  /\ "conflict" \in verdicts[o] => applied[o] = 0

UpToDate == \A d \in Docs : InScope(d, Scope) => replica[d] = docs[d]

\* When writes, days, tiers and losses come to rest, the device ends up with
\* exactly the documents of its scope.
Converges == <>[]UpToDate
=============================================================================
