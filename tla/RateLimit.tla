----------------------------- MODULE RateLimit -----------------------------
(***************************************************************************)
(* Rate limits across an API cluster.  A worker asks the primary to count  *)
(* a request (rate-limit-store.ts, the class ClusterRateStore) and lets it *)
(* pass or refuses it by the count it is told (express-rate-limit); the    *)
(* primary counts in windows that begin with the first request of a key    *)
(* (the class WindowBuckets) and end at any moment later.  Commands and    *)
(* results travel between the processes; a worker may exit with commands   *)
(* under way, and an answer may come after the worker has given up on it.  *)
(***************************************************************************)
EXTENDS Supervision

CONSTANTS
  Requests,    \* requests, numbered as they arrive
  Keys,        \* what is limited: policy and client
  Limit,       \* requests of a key a window lets pass
  Capacity,    \* windows the primary holds: 200000
  MaxPending,  \* commands a worker has under way: 2048
  None         \* no slot, no key

ASSUME LimitAssumption ==
  Requests \subseteq Nat /\ Limit \in Nat /\ Capacity \in Nat /\ MaxPending \in Nat
ASSUME NoneAssumption == None \notin Slots \cup Keys

VARIABLES
  request,  \* what became of each request
  command,  \* where the command of each request is
  buckets,  \* the windows the primary holds
  begun,    \* how many windows of each key have begun
  ended     \* how many are over by the clock

limitVars == <<request, command, buckets, begun, ended>>
vars      == <<supervisionVars, limitVars>>

Stages   == {"new", "asked", "allowed", "limited", "unavailable", "gone"}
Places   == {"none", "sent", "replied", "done"}
Bucket   == [window : Nat, hits : Nat]
Command  == [place : Places, hits : Nat, window : Nat]

Init ==
  /\ SupervisionInit
  /\ request = [r \in Requests |-> [stage |-> "new", slot |-> None, key |-> None]]
  /\ command = [r \in Requests |-> [place |-> "none", hits |-> 0, window |-> 0]]
  /\ buckets = [k \in {} |-> [window |-> 0, hits |-> 0]]
  /\ begun = [k \in Keys |-> 0] /\ ended = [k \in Keys |-> 0]

Pending(s) == {r \in Requests : request[r].slot = s /\ request[r].stage = "asked"}

Room(s) == Cardinality(Pending(s)) < MaxPending

\* The next request arrives at a worker, which sends a command unless too many are under way.
Ask(r, s, k) ==
  /\ request[r].stage = "new" /\ \A x \in Requests : x < r => request[x].stage # "new"
  /\ slot[s] = "up"
  /\ \/ /\ Room(s)
        /\ request' = [request EXCEPT ![r] = [stage |-> "asked", slot |-> s, key |-> k]]
        /\ command' = [command EXCEPT ![r].place = "sent"]
     \/ /\ ~Room(s)
        /\ request' = [request EXCEPT ![r] = [stage |-> "unavailable", slot |-> s, key |-> k]]
        /\ UNCHANGED command
  /\ UNCHANGED <<supervisionVars, buckets, begun, ended>>

\* The time of a window is over, whether it is held or not (of interest to a request to come).
WindowEnds(k) ==
  /\ ended[k] < begun[k] /\ \E r \in Requests : command[r].place \in {"none", "sent"}
  /\ ended' = [ended EXCEPT ![k] = begun[k]]
  /\ UNCHANGED <<supervisionVars, request, command, buckets, begun>>

Expired == {k \in DOMAIN buckets : buckets[k].window <= ended[k]}

\* Mutant: the sweep makes room by dropping windows that run.
SweptAny == SUBSET DOMAIN buckets

\* The sweep looks at a few windows and drops those of them that are over.
Swept == SUBSET Expired

Connected(r) == slot[request[r].slot] \in {"up", "draining"} /\ request[r].stage # "gone"

Replied(r, hits, window) ==
  [command EXCEPT ![r] = [place |-> IF Connected(r) THEN "replied" ELSE "done",
                          hits |-> hits, window |-> window]]

\* The primary counts a request in the running window of its key or in a new one; without
\* room for a new window it replies that it failed (no hits).
Count(r) ==
  LET k == request[r].key IN
  /\ command[r].place = "sent"
  /\ \E swept \in Swept :
       LET kept  == [x \in DOMAIN buckets \ (swept \cup ({k} \cap Expired)) |-> buckets[x]]
           first == [window |-> begun[k] + 1, hits |-> 1]
       IN  \/ /\ k \in DOMAIN kept
              /\ buckets' = [kept EXCEPT ![k].hits = @ + 1]
              /\ command' = Replied(r, kept[k].hits + 1, kept[k].window)
              /\ UNCHANGED begun
           \/ /\ k \notin DOMAIN kept /\ Cardinality(DOMAIN kept) < Capacity
              /\ buckets' = [x \in DOMAIN kept \cup {k} |-> IF x = k THEN first ELSE kept[x]]
              /\ command' = Replied(r, 1, first.window)
              /\ begun' = [begun EXCEPT ![k] = @ + 1]
           \/ /\ k \notin DOMAIN kept /\ Cardinality(DOMAIN kept) >= Capacity
              /\ buckets' = kept
              /\ command' = Replied(r, 0, 0)
              /\ UNCHANGED begun
  /\ UNCHANGED <<supervisionVars, request, ended>>

Verdict(hits) == CASE hits = 0     -> "unavailable"
                   [] hits > Limit -> "limited"
                   [] OTHER        -> "allowed"

\* The result arrives; nobody waits for it when the worker has given up.
Answer(r) ==
  /\ command[r].place = "replied"
  /\ command' = [command EXCEPT ![r].place = "done"]
  /\ request' = [request EXCEPT ![r].stage = IF @ = "asked" THEN Verdict(command[r].hits) ELSE @]
  /\ UNCHANGED <<supervisionVars, buckets, begun, ended>>

\* No answer in five seconds, or the command could not be sent; it may still be counted.
GiveUp(r) ==
  /\ request[r].stage = "asked"
  /\ request' = [request EXCEPT ![r].stage = "unavailable"]
  /\ UNCHANGED <<supervisionVars, command, buckets, begun, ended>>

\* What a worker had under way ends with it; a command it has sent may get lost or not.
Abandoned(s) ==
  /\ request' = [r \in Requests |-> IF r \in Pending(s) THEN [request[r] EXCEPT !.stage = "gone"]
                                                        ELSE request[r]]
  /\ \E lost \in SUBSET {r \in Requests : request[r].slot = s /\ command[r].place # "none"} :
       command' = [r \in Requests |-> IF r \in lost \/ (request[r].slot = s /\ command[r].place = "replied")
                                      THEN [command[r] EXCEPT !.place = "done"] ELSE command[r]]
  /\ UNCHANGED <<buckets, begun, ended>>

Next ==
  \/ \E s \in Slots : (Fails(s) \/ Leaves(s)) /\ Abandoned(s)
  \/ \E s \in Slots : (GrowsOld(s) \/ Respawn(s) \/ Drain(s)) /\ UNCHANGED limitVars
  \/ Signal /\ UNCHANGED limitVars
  \/ \E k \in Keys : WindowEnds(k)
  \/ \E r \in Requests, s \in Slots, k \in Keys : Ask(r, s, k)
  \/ \E r \in Requests : Count(r) \/ Answer(r) \/ GiveUp(r)

\* Timers fire: a restart comes, and a worker that drains ends by its deadline.
Fairness ==
  \A s \in Slots : /\ WF_vars(Respawn(s) /\ UNCHANGED limitVars)
                   /\ WF_vars(Leaves(s) /\ Abandoned(s))

Spec == Init /\ [][Next]_vars /\ Fairness
----------------------------------------------------------------------------
TypeOK ==
  /\ SupervisionTypeOK
  /\ request \in [Requests -> [stage : Stages, slot : Slots \cup {None}, key : Keys \cup {None}]]
  /\ command \in [Requests -> Command]
  /\ DOMAIN buckets \subseteq Keys /\ \A k \in DOMAIN buckets : buckets[k] \in Bucket
  /\ begun \in [Keys -> Nat] /\ ended \in [Keys -> Nat]

Passed(k, n) ==
  {r \in Requests : request[r].stage = "allowed" /\ request[r].key = k /\ command[r].window = n}

\* A window lets at most Limit requests of its key pass, and none begins before the last
\* one is over: whatever workers exit, answers are late and windows are swept.  The tables
\* of windows and of commands under way keep their sizes
\* (rate-limit-store.ts 11-29; docs/high-scale-architecture.md 20).
LimitsHold ==
  /\ Cardinality(DOMAIN buckets) <= Capacity
  /\ \A s \in Slots : Cardinality(Pending(s)) <= MaxPending
  /\ \A k \in Keys :
    /\ begun[k] <= ended[k] + 1
    /\ \A n \in 0..begun[k] : Cardinality(Passed(k, n)) <= (IF n = 0 THEN 0 ELSE Limit)

\* A slot whose worker failed gets a new one or the cluster stops, and a cluster that
\* stops is gone in the end (cluster.ts 20-30, 42).
NobodyForgotten ==
  /\ \A s \in Slots : (slot[s] = "waiting") ~> (slot[s] = "up" \/ stopping)
  /\ stopping ~> \A s \in Slots : slot[s] = "down"
=============================================================================
