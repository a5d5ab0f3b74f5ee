----------------------------- MODULE ReadCache -----------------------------
(***************************************************************************)
(* The cached reads of one owner's catalog and analytics in one API        *)
(* process.  A request reads the owner's revision, which every committed   *)
(* write advances (transaction.ts), and makes it part of the key           *)
(* (cached-owner-read.ts); the cache (read-cache.ts) answers from memory,  *)
(* joins a fill under way or starts one.  Writers, of this process and of  *)
(* others, commit at any moment, also between the revision, the lookup and *)
(* the load.  A stored value is known by the route and by the revision its *)
(* load found.                                                             *)
(***************************************************************************)
EXTENDS Naturals, Sequences, FiniteSets, SequencesExt

CONSTANTS
  Reads,       \* read requests, each made once
  Routes,      \* route, query, scope, tier and business date of a request
  MaxRev,      \* bound: committed writes
  Sizes,       \* sizes of a serialized response with its key
  Budget,      \* bytes all entries may have: 32 MiB
  MaxValue,    \* bytes one entry may have: 1 MiB
  MaxEntries,  \* entries: 2000
  MaxPending,  \* fills under way: 1024
  NoValue      \* no key, no value

ASSUME CacheAssumption ==
  /\ MaxRev \in Nat /\ Sizes \subseteq Nat \ {0} /\ MaxEntries \in Nat \ {0}
  /\ Budget \in Nat /\ MaxValue \in Nat /\ MaxPending \in Nat
ASSUME NoValueAssumption == NoValue \notin [route : Routes, rev : Nat]

VARIABLES
  rev,      \* the owner's committed revision
  read,     \* the requests
  entries,  \* the stored responses, the least recently used first
  bytes,    \* what the cache believes they take
  pending   \* the fills under way

cacheVars == <<rev, read, entries, bytes, pending>>

Key     == [route : Routes, rev : Nat]
Value   == [route : Routes, rev : Nat]
Request == [stage : {"new", "keyed", "joined", "answered", "failed"},
            asked : Nat, key : Key \cup {NoValue}, value : Value \cup {NoValue}]
Entry   == [key : Key, value : Value, bytes : Nat, live : BOOLEAN]
Pending == [key : Key, value : Value \cup {NoValue}]

CacheInit ==
  /\ rev = 0
  /\ read = [r \in Reads |-> [stage |-> "new", asked |-> 0, key |-> NoValue, value |-> NoValue]]
  /\ entries = <<>> /\ bytes = 0 /\ pending = {}

\* A write of the owner commits, in whatever process.
Commit ==
  /\ rev < MaxRev /\ rev' = rev + 1
  /\ UNCHANGED <<read, entries, bytes, pending>>

\* Mutant: the key leaves the revision out.
KeyOfRoute(q) == [route |-> q, rev |-> 0]

KeyOf(q) == [route |-> q, rev |-> rev]

\* A request reads the revision and makes its key.
AskRead(r, q) ==
  /\ read[r].stage = "new"
  /\ read' = [read EXCEPT ![r].stage = "keyed", ![r].asked = rev, ![r].key = KeyOf(q)]
  /\ UNCHANGED <<rev, entries, bytes, pending>>

Found(k)   == {i \in DOMAIN entries : entries[i].key = k}
Filling(k) == {p \in pending : p.key = k}

SizeOf(s) == FoldSeq(LAMBDA e, sum : e.bytes + sum, 0, s)

Answer(R, stage, value) ==
  [r \in Reads |-> IF r \in R THEN [read[r] EXCEPT !.stage = stage, !.value = value] ELSE read[r]]

\* A live entry answers, and becomes the most recently used.
Hit(r) ==
  /\ read[r].stage = "keyed"
  /\ \E i \in Found(read[r].key) :
       /\ entries[i].live
       /\ read' = Answer({r}, "answered", entries[i].value)
       /\ entries' = Append(RemoveAt(entries, i), entries[i])
  /\ UNCHANGED <<rev, bytes, pending>>

\* An entry that has expired is dropped when it is looked up.
DropExpired(k) ==
  \/ Found(k) = {} /\ UNCHANGED <<entries, bytes>>
  \/ \E i \in Found(k) : entries' = RemoveAt(entries, i) /\ bytes' = bytes - entries[i].bytes

\* There is no live entry: the request joins a fill, starts one, or is refused.
Miss(r) ==
  LET k == read[r].key IN
  /\ read[r].stage = "keyed"
  /\ \A i \in Found(k) : ~entries[i].live
  /\ DropExpired(k)
  /\ \/ /\ Filling(k) # {}
        /\ read' = [read EXCEPT ![r].stage = "joined"]
        /\ UNCHANGED pending
     \/ /\ Filling(k) = {} /\ Cardinality(pending) < MaxPending
        /\ read' = [read EXCEPT ![r].stage = "joined"]
        /\ pending' = pending \cup {[key |-> k, value |-> NoValue]}
     \/ /\ Filling(k) = {} /\ Cardinality(pending) >= MaxPending
        /\ read' = [read EXCEPT ![r].stage = "failed"]
        /\ UNCHANGED pending
  /\ UNCHANGED rev

\* The load reads the documents, some time after the key was made.
Load(p) ==
  /\ p \in pending /\ p.value = NoValue
  /\ pending' = (pending \ {p}) \cup {[p EXCEPT !.value = [route |-> p.key.route, rev |-> rev]]}
  /\ UNCHANGED <<rev, read, entries, bytes>>

Joined(p) == {r \in Reads : read[r].stage = "joined" /\ read[r].key = p.key}

\* A response has room once the n oldest entries are gone.
Room(n, size) ==
  \/ n = Len(entries)
  \/ bytes - SizeOf(SubSeq(entries, 1, n)) + size <= Budget /\ Len(entries) - n < MaxEntries

\* The response is serialized: it is stored unless it is large, and all who joined get it.
Fill(p, size) ==
  /\ p \in pending /\ p.value # NoValue
  /\ read' = Answer(Joined(p), "answered", p.value)
  /\ pending' = pending \ {p}
  /\ IF size > MaxValue \/ size > Budget
     THEN UNCHANGED <<entries, bytes>>
     ELSE \E n \in 0..Len(entries) :
          /\ Room(n, size) /\ \A m \in 0..n - 1 : ~Room(m, size)
          /\ entries' = Append(SubSeq(entries, n + 1, Len(entries)),
                               [key |-> p.key, value |-> p.value, bytes |-> size, live |-> TRUE])
          /\ bytes' = bytes - SizeOf(SubSeq(entries, 1, n)) + size
  /\ UNCHANGED rev

\* The load fails (also when the analytics gate refuses it): nothing is stored.
LoadFails(p) ==
  /\ p \in pending
  /\ read' = Answer(Joined(p), "failed", NoValue)
  /\ pending' = pending \ {p}
  /\ UNCHANGED <<rev, entries, bytes>>

\* Five seconds pass.
ExpireEntry(i) ==
  /\ i \in DOMAIN entries /\ entries[i].live
  /\ entries' = [entries EXCEPT ![i].live = FALSE]
  /\ UNCHANGED <<rev, read, bytes, pending>>

CacheNext ==
  \/ Commit
  \/ \E r \in Reads : Hit(r) \/ Miss(r) \/ \E q \in Routes : AskRead(r, q)
  \/ \E p \in pending : Load(p) \/ LoadFails(p) \/ \E size \in Sizes : Fill(p, size)
  \/ \E i \in DOMAIN entries : ExpireEntry(i)

CacheSpec == CacheInit /\ [][CacheNext]_cacheVars
----------------------------------------------------------------------------
CacheTypeOK ==
  /\ rev \in 0..MaxRev /\ read \in [Reads -> Request] /\ entries \in Seq(Entry)
  /\ pending \subseteq Pending /\ bytes \in Nat

\* Whoever asks is answered for its own route with data that has everything committed
\* when it asked, and nothing that is not committed (cached-owner-read.ts 10-12).
Fresh ==
  \A r \in Reads : read[r].stage = "answered" =>
    /\ read[r].value.route = read[r].key.route
    /\ read[r].asked <= read[r].value.rev /\ read[r].value.rev <= rev

\* Answers are fresh; the cache keeps its budget and stores or fills a key once
\* (read-cache.ts 15-25).
ReadsAreFresh ==
  /\ Fresh
  /\ bytes = SizeOf(entries) /\ bytes <= Budget /\ Len(entries) <= MaxEntries
  /\ Cardinality({entries[i].key : i \in DOMAIN entries} \cup {p.key : p \in pending})
       = Len(entries) + Cardinality(pending)
=============================================================================
