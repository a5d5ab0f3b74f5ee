---------------------------- MODULE ClusterProofs ----------------------------
(***************************************************************************)
(* Proofs about a cluster (MCCluster): its supervision, its rate limits    *)
(* and its preparation, for any number of slots, requests, keys and users. *)
(***************************************************************************)
EXTENDS MCCluster, FiniteSetTheorems, TLAPS

-----------------------------------------------------------------------------
(* Supervision: what the primary remembers of a slot are its last exits,   *)
(* and at least those that are not old.                                    *)

Remembers(s) ==
  /\ restarts[s] \subseteq 1..exits[s]
  /\ (old[s] + 1)..exits[s] \subseteq restarts[s]

SupervisionInv ==
  /\ SupervisionTypeOK
  /\ \A s \in Slots : Remembers(s)
  /\ failed => stopping
  /\ StopsOnRepeatedFailures

\* One more exit makes one more recent exit.
LEMMA RecentAreCounted ==
  ASSUME SupervisionInv, NEW s \in Slots
  PROVE  /\ Recent(s) \cup {exits[s] + 1} = (old[s] + 1)..(exits[s] + 1)
         /\ Cardinality(Recent(s) \cup {exits[s] + 1}) = exits[s] + 1 - old[s]
<1>1. exits[s] \in Nat /\ old[s] \in Nat /\ old[s] <= exits[s]
  BY DEF SupervisionInv, SupervisionTypeOK
<1>2. Recent(s) \cup {exits[s] + 1} = (old[s] + 1)..(exits[s] + 1)
  <2>1. Remembers(s)
    BY DEF SupervisionInv
  <2>2. \A e \in restarts[s] : e \in Nat /\ e <= exits[s]
    BY <1>1, <2>1 DEF Remembers
  <2>3. \A e \in (old[s] + 1)..exits[s] : e \in restarts[s]
    BY <2>1 DEF Remembers
  <2>4. ASSUME NEW e PROVE e \in Recent(s) \cup {exits[s] + 1} <=> e \in (old[s] + 1)..(exits[s] + 1)
    <3>1. e \in Recent(s) <=> e \in restarts[s] /\ e > old[s]
      BY DEF Recent
    <3>2. e \in Recent(s) <=> e \in (old[s] + 1)..exits[s]
      BY <1>1, <2>2, <2>3, <3>1
    <3> QED
      BY <1>1, <3>2
  <2> QED
    BY <2>4
<1>3. Cardinality((old[s] + 1)..(exits[s] + 1)) = exits[s] + 1 - old[s]
  <2>1. old[s] + 1 \in Int /\ exits[s] + 1 \in Int /\ ~(old[s] + 1 > exits[s] + 1)
    BY <1>1
  <2>2. \A a, b \in Int : ~(a > b) => Cardinality(a..b) = b - a + 1
    BY FS_Interval
  <2>3. PICK a \in Int, b \in Int : a = old[s] + 1 /\ b = exits[s] + 1
    BY <2>1
  <2>4. Cardinality(a..b) = b - a + 1
    BY <2>1, <2>2, <2>3
  <2> QED
    <3>1. b - a + 1 = exits[s] + 1 - old[s]
      BY <1>1, <2>3
    <3>2. a..b = (old[s] + 1)..(exits[s] + 1)
      BY <2>3, Zenon
    <3> QED
      BY <2>4, <3>1, <3>2, Zenon
<1> QED
  BY <1>2, <1>3

\* No worker has exited at first.
LEMMA SupervisionInitOK == SupervisionInit => SupervisionInv
<1> SUFFICES ASSUME SupervisionInit PROVE SupervisionInv
  OBVIOUS
<1>1. SupervisionTypeOK
  <2>1. \A s \in Slots : old[s] <= exits[s]
    BY DEF SupervisionInit
  <2> QED
    BY <2>1 DEF SupervisionInit, SupervisionTypeOK, SlotStates
<1>2. ASSUME NEW s \in Slots PROVE Remembers(s)
  <2>1. restarts[s] = {} /\ exits[s] = 0 /\ old[s] = 0
    BY DEF SupervisionInit
  <2> QED
    BY <2>1 DEF Remembers
<1>3. StopsOnRepeatedFailures
  BY SupervisionAssumption DEF SupervisionInit, StopsOnRepeatedFailures
<1> QED
  BY <1>1, <1>2, <1>3 DEF SupervisionInit, SupervisionInv

\* A worker exits.
LEMMA FailsOK == ASSUME SupervisionInv, NEW s \in Slots, Fails(s) PROVE SupervisionInv'
<1> DEFINE recent == Recent(s) \cup {exits[s] + 1}
<1> USE DEF SupervisionInv, SupervisionTypeOK
<1>1. /\ slot \in [Slots -> SlotStates] /\ restarts \in [Slots -> SUBSET Nat]
      /\ exits \in [Slots -> Nat] /\ old \in [Slots -> Nat]
      /\ \A x \in Slots : old[x] <= exits[x]
      /\ ~stopping /\ ~failed
  BY DEF Fails
<1>2. /\ exits' = [exits EXCEPT ![s] = exits[s] + 1]
      /\ restarts' = [restarts EXCEPT ![s] = recent]
      /\ old' = old
  BY DEF Fails
<1>3. recent = (old[s] + 1)..(exits[s] + 1) /\ Cardinality(recent) = exits[s] + 1 - old[s]
  BY RecentAreCounted
<1>4. \/ /\ Cardinality(recent) >= MaxExits /\ stopping' = TRUE /\ failed' = TRUE
      \/ /\ Cardinality(recent) < MaxExits /\ stopping' = stopping /\ failed' = failed
  BY DEF Fails, Stop
<1>5. slot' \in [Slots -> SlotStates]
  BY <1>1 DEF Fails, Stop, SlotStates
<1>6. SupervisionTypeOK'
  <2>1. recent \in SUBSET Nat
    BY <1>1, <1>3
  <2>2. \A x \in Slots : old'[x] <= exits'[x]
    BY <1>1, <1>2
  <2>3. stopping' \in BOOLEAN /\ failed' \in BOOLEAN
    BY <1>1, <1>4
  <2> QED
    BY <1>1, <1>2, <1>5, <2>1, <2>2, <2>3
<1>7. \A x \in Slots : Remembers(x)'
  BY <1>1, <1>2, <1>3 DEF Remembers
<1>8. failed' <=> \E x \in Slots : exits'[x] - old'[x] >= MaxExits
  BY <1>1, <1>2, <1>3, <1>4, SupervisionAssumption DEF StopsOnRepeatedFailures
<1> QED
  BY <1>1, <1>4, <1>6, <1>7, <1>8 DEF StopsOnRepeatedFailures

\* An exit leaves the window.
LEMMA GrowsOldOK == ASSUME SupervisionInv, NEW s \in Slots, GrowsOld(s) PROVE SupervisionInv'
<1> USE DEF SupervisionInv, SupervisionTypeOK
<1>1. /\ exits \in [Slots -> Nat] /\ old \in [Slots -> Nat] /\ old[s] < exits[s]
      /\ old' = [old EXCEPT ![s] = old[s] + 1]
      /\ ~stopping /\ ~failed
      /\ UNCHANGED <<slot, exits, restarts, stopping, failed>>
  BY DEF GrowsOld
<1>2. SupervisionTypeOK'
  BY <1>1
<1>3. \A x \in Slots : Remembers(x)'
  BY <1>1 DEF Remembers
<1>4. StopsOnRepeatedFailures'
  BY <1>1, SupervisionAssumption DEF StopsOnRepeatedFailures
<1> QED
  BY <1>1, <1>2, <1>3, <1>4

\* The other steps leave the exits alone, and the cluster never starts again.
LEMMA SlotMovesOK ==
  ASSUME SupervisionInv, slot' \in [Slots -> SlotStates], stopping' \in BOOLEAN,
         stopping => stopping', UNCHANGED <<exits, old, restarts, failed>>
  PROVE  SupervisionInv'
  BY DEF SupervisionInv, SupervisionTypeOK, Remembers, StopsOnRepeatedFailures

\* Every step of the supervision.
LEMMA SupervisionKept ==
  ASSUME SupervisionInv, SupervisionNext PROVE SupervisionInv'
<1>1. CASE Signal
  BY <1>1, SlotMovesOK DEF Signal, Stop, SupervisionInv, SupervisionTypeOK, SlotStates
<1>2. ASSUME NEW s \in Slots, Respawn(s) \/ Drain(s) \/ Leaves(s) PROVE SupervisionInv'
  BY <1>2, SlotMovesOK
     DEF Respawn, Drain, Leaves, SupervisionInv, SupervisionTypeOK, SlotStates
<1> QED
  BY <1>1, <1>2, FailsOK, GrowsOldOK DEF SupervisionNext

-----------------------------------------------------------------------------
(* Rate limits: the requests counted in one window have different numbers, *)
(* and a window is left only when it is over.                              *)

\* What is known of a command tells what became of its request.
CommandKnown(r) ==
  /\ request[r].stage # "new" => request[r].slot \in Slots /\ request[r].key \in Keys
  /\ request[r].stage = "new" => command[r].place = "none"
  /\ command[r].place \in {"none", "sent"} => command[r].hits = 0
  /\ command[r].hits = 0 <=> command[r].window = 0
  /\ request[r].stage = "allowed" => command[r].hits \in 1..Limit

\* A held window is the latest of its key; without one the last window is over.
WindowInOrder(k) ==
  /\ ended[k] <= begun[k] /\ begun[k] <= ended[k] + 1
  /\ k \in DOMAIN buckets => buckets[k].window = begun[k] /\ begun[k] >= 1
  /\ k \notin DOMAIN buckets => begun[k] <= ended[k]

\* A number given out is of a window that has begun, and the bucket has passed it.
Numbered(r, k) ==
  request[r].key = k /\ command[r].hits # 0 =>
    /\ command[r].window <= begun[k]
    /\ k \in DOMAIN buckets /\ command[r].window = begun[k] => command[r].hits <= buckets[k].hits

Different(r, q) ==
  r # q /\ request[r].key = request[q].key /\ command[r].window = command[q].window
        /\ command[r].hits # 0
    => command[r].hits # command[q].hits

CountInv ==
  /\ \A r \in Requests : CommandKnown(r)
  /\ \A k \in Keys : WindowInOrder(k)
  /\ \A r \in Requests, k \in Keys : Numbered(r, k)
  /\ \A r, q \in Requests : Different(r, q)

\* The sizes of the tables.
SizeInv ==
  /\ IsFiniteSet(DOMAIN buckets) /\ Cardinality(DOMAIN buckets) <= Capacity
  /\ \A s \in Slots : IsFiniteSet(Pending(s)) /\ Cardinality(Pending(s)) <= MaxPending

LimitInv == TypeOK /\ CountInv /\ SizeInv

\* Different numbers up to Limit are at most Limit.
LEMMA PassedWithinLimit ==
  ASSUME LimitInv, NEW k \in Keys, NEW n \in Nat
  PROVE  Cardinality(Passed(k, n)) <= (IF n = 0 THEN 0 ELSE Limit)
<1> USE LimitAssumption
<1>1. \A r \in Passed(k, n) : /\ r \in Requests /\ command[r].hits \in 1..Limit
                             /\ command[r].window = n /\ n # 0
  BY DEF LimitInv, CountInv, CommandKnown, Passed, TypeOK, Command
<1>2. CASE n = 0
  <2>1. Passed(k, n) = {}
    BY <1>1, <1>2
  <2> QED
    BY <1>2, <2>1, FS_EmptySet
<1>3. CASE n # 0
  <2> DEFINE f == [r \in Passed(k, n) |-> command[r].hits]
  <2>1. f \in [Passed(k, n) -> 1..Limit]
    BY <1>1
  <2>2. \A r, q \in Passed(k, n) : f[r] = f[q] => r = q
    <3> SUFFICES ASSUME NEW r \in Passed(k, n), NEW q \in Passed(k, n), f[r] = f[q], r # q
                 PROVE  FALSE
      OBVIOUS
    <3>1. Different(r, q)
      BY <1>1 DEF LimitInv, CountInv
    <3>2. request[r].key = k /\ request[q].key = k
      BY DEF Passed
    <3>3. command[r].hits # 0
      BY <1>1
    <3> QED
      BY <1>1, <3>1, <3>2, <3>3 DEF Different
  <2>3. f \in Injection(Passed(k, n), 1..Limit)
    BY <2>1, <2>2 DEF Injection, IsInjective
  <2>4. IsFiniteSet(1..Limit) /\ Cardinality(1..Limit) = Limit
    <3>1. \A a, b \in Int : ~(a > b) => Cardinality(a..b) = b - a + 1
      BY FS_Interval
    <3>2. \A a, b \in Int : IsFiniteSet(a..b)
      BY FS_Interval
    <3>3. Limit = 0 => 1..Limit = {}
      OBVIOUS
    <3>4. Limit # 0 => Cardinality(1..Limit) = Limit - 1 + 1
      BY <3>1
    <3>5. IsFiniteSet(1..Limit)
      BY <3>2
    <3> QED
      BY <3>3, <3>4, <3>5, FS_EmptySet
  <2>5. Cardinality(Passed(k, n)) <= Cardinality(1..Limit)
    BY <2>3, <2>4, FS_Injection
  <2> QED
    BY <1>3, <2>4, <2>5
<1> QED
  BY <1>2, <1>3

\* Different numbers up to the limit let no more than the limit pass.
LEMMA LimitsFollow == LimitInv => LimitsHold
<1> SUFFICES ASSUME LimitInv PROVE LimitsHold
  OBVIOUS
<1>1. \A k \in Keys : begun[k] \in Nat /\ begun[k] <= ended[k] + 1
  BY DEF LimitInv, CountInv, WindowInOrder, TypeOK
<1>2. \A k \in Keys : \A n \in 0..begun[k] : n \in Nat
  BY <1>1
<1> QED
  BY <1>1, <1>2, PassedWithinLimit DEF LimitsHold, LimitInv, SizeInv

\* Nothing has been counted at first.
LEMMA LimitInitOK == Init => LimitInv
<1> SUFFICES ASSUME Init PROVE LimitInv
  OBVIOUS
<1> USE LimitAssumption
<1>1. TypeOK
  <2>1. SupervisionTypeOK
    BY SupervisionInitOK DEF Init, SupervisionInv
  <2> QED
    BY <2>1 DEF Init, TypeOK, Stages, Command, Places, Bucket
<1>2. CountInv
  <2>1. \A r \in Requests : CommandKnown(r)
    BY DEF Init, CommandKnown
  <2>2. \A k \in Keys : WindowInOrder(k)
    BY DEF Init, WindowInOrder
  <2>3. \A r \in Requests, k \in Keys : Numbered(r, k)
    BY DEF Init, Numbered
  <2>4. \A r, q \in Requests : Different(r, q)
    BY DEF Init, Different
  <2> QED
    BY <2>1, <2>2, <2>3, <2>4 DEF CountInv
<1>3. SizeInv
  <2>1. DOMAIN buckets = {}
    BY DEF Init
  <2>2. \A s \in Slots : Pending(s) = {}
    BY DEF Init, Pending
  <2>3. IsFiniteSet({}) /\ Cardinality({}) <= Capacity /\ Cardinality({}) <= MaxPending
    <3>1. IsFiniteSet({}) /\ Cardinality({}) = 0
      BY FS_EmptySet
    <3> QED
      BY <3>1
  <2>4. IsFiniteSet(DOMAIN buckets) /\ Cardinality(DOMAIN buckets) <= Capacity
    BY <2>1, <2>3, Zenon
  <2>5. \A s \in Slots : IsFiniteSet(Pending(s)) /\ Cardinality(Pending(s)) <= MaxPending
    BY <2>2, <2>3, Zenon
  <2> QED
    BY <2>4, <2>5 DEF SizeInv
<1> QED
  BY <1>1, <1>2, <1>3 DEF LimitInv

\* The next request: its command has no number yet.
LEMMA AskOK ==
  ASSUME LimitInv, NEW r \in Requests, NEW s \in Slots, NEW k \in Keys, Ask(r, s, k)
  PROVE  LimitInv'
<1> USE LimitAssumption, NoneAssumption
<1>1. /\ request[r].stage = "new" /\ command[r].place = "none" /\ command[r].hits = 0
      /\ UNCHANGED <<supervisionVars, buckets, begun, ended>>
      /\ request \in [Requests -> [stage : Stages, slot : Slots \cup {None}, key : Keys \cup {None}]]
      /\ command \in [Requests -> Command]
  BY DEF Ask, LimitInv, CountInv, CommandKnown, TypeOK
<1>2. /\ \A x \in Requests : x # r => request'[x] = request[x] /\ command'[x] = command[x]
      /\ request'[r].slot = s /\ request'[r].key = k
      /\ request'[r].stage \in {"asked", "unavailable"}
      /\ command'[r].hits = 0 /\ command'[r].window = command[r].window
      /\ request'[r].stage = "asked" => Room(s)
  BY <1>1 DEF Ask, Command
<1>3. TypeOK'
  <2>1. request' \in [Requests -> [stage : Stages, slot : Slots \cup {None}, key : Keys \cup {None}]]
    BY <1>1 DEF Ask, Stages
  <2>2. command' \in [Requests -> Command]
    BY <1>1 DEF Ask, Command, Places
  <2> QED
    BY <1>1, <2>1, <2>2 DEF LimitInv, TypeOK, SupervisionTypeOK, supervisionVars
<1>4. CountInv'
  <2>1. ASSUME NEW x \in Requests PROVE CommandKnown(x)'
    BY <1>1, <1>2 DEF LimitInv, CountInv, CommandKnown
  <2>2. \A x \in Keys : WindowInOrder(x)'
    BY <1>1 DEF LimitInv, CountInv, WindowInOrder
  <2>3. ASSUME NEW x \in Requests, NEW y \in Keys PROVE Numbered(x, y)'
    BY <1>1, <1>2 DEF LimitInv, CountInv, Numbered
  <2>4. ASSUME NEW x \in Requests, NEW y \in Requests PROVE Different(x, y)'
    BY <1>1, <1>2 DEF LimitInv, CountInv, Different
  <2> QED
    BY <2>1, <2>2, <2>3, <2>4 DEF CountInv
<1>5. SizeInv'
  <2>1. ASSUME NEW t \in Slots
        PROVE  IsFiniteSet(Pending(t))' /\ (Cardinality(Pending(t)) <= MaxPending)'
    <3>1. IsFiniteSet(Pending(t)) /\ Cardinality(Pending(t)) <= MaxPending
      BY DEF LimitInv, SizeInv
    <3>2. CASE t = s /\ Room(s)
      <4>1. Pending(t)' \subseteq Pending(t) \cup {r}
        BY <1>1, <1>2 DEF Pending
      <4>2. IsFiniteSet(Pending(t) \cup {r}) /\ Cardinality(Pending(t) \cup {r}) <= Cardinality(Pending(t)) + 1
        <5>1. Cardinality(Pending(t)) \in Nat
          BY <3>1, FS_CardinalityType
        <5>2. /\ IsFiniteSet(Pending(t) \cup {r})
              /\ \/ Cardinality(Pending(t) \cup {r}) = Cardinality(Pending(t))
                 \/ Cardinality(Pending(t) \cup {r}) = Cardinality(Pending(t)) + 1
          BY <3>1, FS_AddElement, Zenon
        <5> QED
          BY <5>1, <5>2
      <4>3. IsFiniteSet(Pending(t)') /\ Cardinality(Pending(t)') <= Cardinality(Pending(t) \cup {r})
        BY <4>1, <4>2, FS_Subset
      <4>4. /\ Cardinality(Pending(t)) \in Nat /\ Cardinality(Pending(t) \cup {r}) \in Nat
            /\ Cardinality(Pending(t)') \in Nat
        BY <3>1, <4>2, <4>3, FS_CardinalityType
      <4> QED
        BY <3>2, <4>2, <4>3, <4>4 DEF Room
    <3>3. CASE ~(t = s /\ Room(s))
      <4>1. Pending(t)' \subseteq Pending(t)
        BY <1>1, <1>2, <3>3 DEF Pending
      <4>2. IsFiniteSet(Pending(t)') /\ Cardinality(Pending(t)') <= Cardinality(Pending(t))
        BY <3>1, <4>1, FS_Subset
      <4>3. Cardinality(Pending(t)) \in Nat /\ Cardinality(Pending(t)') \in Nat
        BY <3>1, <4>2, FS_CardinalityType
      <4> QED
        BY <3>1, <4>2, <4>3
    <3> QED
      BY <3>2, <3>3
  <2>2. DOMAIN buckets' = DOMAIN buckets
    BY <1>1
  <2> QED
    BY <2>1, <2>2 DEF LimitInv, SizeInv
<1> QED
  BY <1>3, <1>4, <1>5 DEF LimitInv

\* A step that gives no request a new place in Pending.
LEMMA PendingShrinks ==
  ASSUME SizeInv, NEW s \in Slots, Pending(s)' \subseteq Pending(s)
  PROVE  IsFiniteSet(Pending(s)') /\ Cardinality(Pending(s)') <= MaxPending
<1> USE LimitAssumption
<1>1. IsFiniteSet(Pending(s)) /\ Cardinality(Pending(s)) <= MaxPending
  BY DEF SizeInv
<1>2. IsFiniteSet(Pending(s)') /\ Cardinality(Pending(s)') <= Cardinality(Pending(s))
  BY <1>1, FS_Subset
<1>3. Cardinality(Pending(s)) \in Nat /\ Cardinality(Pending(s)') \in Nat
  BY <1>1, <1>2, FS_CardinalityType
<1> QED
  BY <1>1, <1>2, <1>3

\* A step that leaves the windows alone and gives out no number: requests end, and
\* commands are at most lost or delivered.
LEMMA RequestsMoveOn ==
  ASSUME LimitInv, SupervisionTypeOK', UNCHANGED <<buckets, begun, ended>>,
         request' \in [Requests -> [stage : Stages, slot : Slots \cup {None}, key : Keys \cup {None}]],
         command' \in [Requests -> Command],
         \A r \in Requests :
           /\ request'[r].slot = request[r].slot /\ request'[r].key = request[r].key
           /\ command'[r].hits = command[r].hits /\ command'[r].window = command[r].window
           /\ request'[r].stage # request[r].stage =>
                request[r].stage = "asked" /\ request'[r].stage # "new" 
           /\ command'[r].place # command[r].place =>
                command[r].place # "none" /\ command'[r].place \notin {"none", "sent"}
           /\ request'[r].stage = "allowed" => command[r].hits \in 1..Limit
  PROVE  LimitInv'
<1>1. TypeOK'
  BY DEF LimitInv, TypeOK
<1>2. CountInv'
  <2>1. ASSUME NEW r \in Requests PROVE CommandKnown(r)'
    BY DEF LimitInv, CountInv, CommandKnown
  <2>2. \A k \in Keys : WindowInOrder(k)'
    BY DEF LimitInv, CountInv, WindowInOrder
  <2>3. ASSUME NEW r \in Requests, NEW k \in Keys PROVE Numbered(r, k)'
    BY DEF LimitInv, CountInv, Numbered
  <2>4. ASSUME NEW r \in Requests, NEW q \in Requests PROVE Different(r, q)'
    BY DEF LimitInv, CountInv, Different
  <2> QED
    BY <2>1, <2>2, <2>3, <2>4 DEF CountInv
<1>3. SizeInv'
  <2>1. ASSUME NEW s \in Slots PROVE Pending(s)' \subseteq Pending(s)
    BY DEF Pending, LimitInv
  <2>2. \A s \in Slots : IsFiniteSet(Pending(s)') /\ Cardinality(Pending(s)') <= MaxPending
    BY <2>1, PendingShrinks DEF LimitInv
  <2> QED
    BY <2>2 DEF LimitInv, SizeInv
<1> QED
  BY <1>1, <1>2, <1>3 DEF LimitInv

\* The primary's answer arrives.
LEMMA AnswerOK == ASSUME LimitInv, NEW r \in Requests, Answer(r) PROVE LimitInv'
<1> USE LimitAssumption
<1>1. /\ request \in [Requests -> [stage : Stages, slot : Slots \cup {None}, key : Keys \cup {None}]]
      /\ command \in [Requests -> Command]
      /\ command[r].place = "replied" /\ command[r].hits \in Nat
  BY DEF LimitInv, TypeOK, Command, Answer
<1>2. /\ Verdict(command[r].hits) \in {"unavailable", "limited", "allowed"}
      /\ Verdict(command[r].hits) = "allowed" => command[r].hits \in 1..Limit
  BY <1>1 DEF Verdict
<1>3. \A x \in Requests : CommandKnown(x)
  BY DEF LimitInv, CountInv
<1>4. command' \in [Requests -> Command]
  BY <1>1 DEF Answer, Command, Places
<1>5. request' \in [Requests -> [stage : Stages, slot : Slots \cup {None}, key : Keys \cup {None}]]
  BY <1>1, <1>2 DEF Answer, Stages
<1>6. ASSUME NEW x \in Requests
      PROVE  /\ request'[x].slot = request[x].slot /\ request'[x].key = request[x].key
             /\ command'[x].hits = command[x].hits /\ command'[x].window = command[x].window
             /\ request'[x].stage # request[x].stage =>
                  request[x].stage = "asked" /\ request'[x].stage # "new"
             /\ command'[x].place # command[x].place =>
                  command[x].place # "none" /\ command'[x].place \notin {"none", "sent"}
             /\ request'[x].stage = "allowed" => command[x].hits \in 1..Limit
  BY <1>1, <1>2, <1>3 DEF Answer, Command, CommandKnown
<1>7. SupervisionTypeOK' /\ UNCHANGED <<buckets, begun, ended>>
  BY DEF Answer, supervisionVars, LimitInv, TypeOK, SupervisionTypeOK
<1> QED
  BY <1>4, <1>5, <1>6, <1>7, RequestsMoveOn

\* A worker stops waiting for an answer.
LEMMA GiveUpOK == ASSUME LimitInv, NEW r \in Requests, GiveUp(r) PROVE LimitInv'
<1>1. /\ request \in [Requests -> [stage : Stages, slot : Slots \cup {None}, key : Keys \cup {None}]]
      /\ command \in [Requests -> Command]
  BY DEF LimitInv, TypeOK
<1>2. request' \in [Requests -> [stage : Stages, slot : Slots \cup {None}, key : Keys \cup {None}]]
  BY <1>1 DEF GiveUp, Stages
<1>3. ASSUME NEW x \in Requests
      PROVE  /\ request'[x].slot = request[x].slot /\ request'[x].key = request[x].key
             /\ request'[x].stage # request[x].stage =>
                  request[x].stage = "asked" /\ request'[x].stage # "new"
             /\ request'[x].stage = "allowed" => request[x].stage = "allowed"
  BY <1>1 DEF GiveUp
<1>4. \A x \in Requests : CommandKnown(x)
  BY DEF LimitInv, CountInv
<1>5. SupervisionTypeOK' /\ UNCHANGED <<command, buckets, begun, ended>>
  BY DEF GiveUp, supervisionVars, LimitInv, TypeOK, SupervisionTypeOK
<1> QED
  BY <1>1, <1>2, <1>3, <1>4, <1>5, RequestsMoveOn DEF CommandKnown

\* A worker exits.
LEMMA AbandonedOK ==
  ASSUME LimitInv, SupervisionTypeOK', NEW s \in Slots, Abandoned(s) PROVE LimitInv'
<1>1. /\ request \in [Requests -> [stage : Stages, slot : Slots \cup {None}, key : Keys \cup {None}]]
      /\ command \in [Requests -> Command]
      /\ \A x \in Requests : CommandKnown(x)
  BY DEF LimitInv, TypeOK, CountInv
<1>2. PICK lost \in SUBSET {r \in Requests : request[r].slot = s /\ command[r].place # "none"} :
        command' = [r \in Requests |-> IF r \in lost \/ (request[r].slot = s /\ command[r].place = "replied")
                                       THEN [command[r] EXCEPT !.place = "done"] ELSE command[r]]
  BY DEF Abandoned
<1>3. /\ request' = [r \in Requests |-> IF r \in Pending(s) THEN [request[r] EXCEPT !.stage = "gone"]
                                                            ELSE request[r]]
      /\ UNCHANGED <<buckets, begun, ended>>
  BY DEF Abandoned
<1>4. request' \in [Requests -> [stage : Stages, slot : Slots \cup {None}, key : Keys \cup {None}]]
  BY <1>1, <1>3 DEF Stages
<1>5. command' \in [Requests -> Command]
  BY <1>1, <1>2 DEF Command, Places
<1>6. ASSUME NEW x \in Requests
      PROVE  /\ request'[x].slot = request[x].slot /\ request'[x].key = request[x].key
             /\ request'[x].stage # request[x].stage =>
                  request[x].stage = "asked" /\ request'[x].stage # "new"
             /\ request'[x].stage = "allowed" => request[x].stage = "allowed"
  BY <1>1, <1>3 DEF Pending
<1>7. ASSUME NEW x \in Requests
      PROVE  /\ command'[x].hits = command[x].hits /\ command'[x].window = command[x].window
             /\ command'[x].place # command[x].place =>
                  command[x].place # "none" /\ command'[x].place \notin {"none", "sent"}
  BY <1>1, <1>2 DEF Command
<1> QED
  BY <1>1, <1>3, <1>4, <1>5, <1>6, <1>7, RequestsMoveOn DEF CommandKnown

\* A window ends.
LEMMA WindowEndsOK == ASSUME LimitInv, NEW k \in Keys, WindowEnds(k) PROVE LimitInv'
<1>1. /\ ended' = [ended EXCEPT ![k] = begun[k]]
      /\ begun \in [Keys -> Nat] /\ ended \in [Keys -> Nat]
      /\ UNCHANGED <<supervisionVars, request, command, buckets, begun>>
  BY DEF WindowEnds, LimitInv, TypeOK
<1>2. TypeOK'
  BY <1>1 DEF LimitInv, TypeOK, SupervisionTypeOK, supervisionVars
<1>3. CountInv'
  BY <1>1 DEF LimitInv, CountInv, CommandKnown, WindowInOrder, Numbered, Different
<1>4. SizeInv'
  BY <1>1 DEF LimitInv, SizeInv, Pending
<1> QED
  BY <1>2, <1>3, <1>4 DEF LimitInv

\* The number of a request and the bucket it came from.
LEMMA CountOK == ASSUME LimitInv, NEW r \in Requests, Count(r) PROVE LimitInv'
<1> USE LimitAssumption
<1> DEFINE k == request[r].key
<1>1. /\ request \in [Requests -> [stage : Stages, slot : Slots \cup {None}, key : Keys \cup {None}]]
      /\ command \in [Requests -> Command]
      /\ DOMAIN buckets \subseteq Keys /\ \A x \in DOMAIN buckets : buckets[x] \in Bucket
      /\ begun \in [Keys -> Nat] /\ ended \in [Keys -> Nat]
      /\ k \in Keys /\ command[r].place = "sent" /\ command[r].hits = 0
      /\ UNCHANGED <<supervisionVars, request, ended>>
  BY DEF LimitInv, TypeOK, CountInv, CommandKnown, Count
<1>2. /\ \A x \in Requests : CommandKnown(x)
      /\ \A x \in Keys : WindowInOrder(x)
      /\ \A x \in Requests, y \in Keys : Numbered(x, y)
      /\ \A x, y \in Requests : Different(x, y)
  BY DEF LimitInv, CountInv
<1>3. PICK swept \in SUBSET Expired :
        LET kept  == [x \in DOMAIN buckets \ (swept \cup ({k} \cap Expired)) |-> buckets[x]]
            first == [window |-> begun[k] + 1, hits |-> 1]
        IN  \/ /\ k \in DOMAIN kept
               /\ buckets' = [kept EXCEPT ![k].hits = @ + 1]
               /\ command' = Replied(r, kept[k].hits + 1, kept[k].window)
               /\ UNCHANGED begun
            \/ /\ k \notin DOMAIN kept /\ Cardinality(DOMAIN kept) < Capacity
               /\ buckets' = [x \in DOMAIN kept \cup {k} |-> IF x = k THEN first ELSE kept[x]]
               /\ command' = Replied(r, 1, first.window)
               /\ begun' = [begun EXCEPT ![k] = @ + 1]
            \/ /\ k \notin DOMAIN kept /\ Cardinality(DOMAIN kept) >= Capacity
               /\ buckets' = kept
               /\ command' = Replied(r, 0, 0)
               /\ UNCHANGED begun
  BY DEF Count, Swept
<1> DEFINE rest == DOMAIN buckets \ (swept \cup ({k} \cap Expired))
           kept == [x \in rest |-> buckets[x]]
<1>4. /\ DOMAIN kept = rest /\ rest \subseteq DOMAIN buckets /\ rest \subseteq Keys
      /\ \A x \in rest : kept[x] = buckets[x] /\ kept[x] \in Bucket
      /\ \A x \in DOMAIN buckets : x \notin rest => buckets[x].window <= ended[x]
      /\ k \in rest => ~(buckets[k].window <= ended[k])
  BY <1>1 DEF Expired
<1> HIDE DEF rest, kept
<1>5. IsFiniteSet(rest) /\ Cardinality(rest) <= Capacity /\ Cardinality(rest) \in Nat
  <2>1. IsFiniteSet(DOMAIN buckets) /\ Cardinality(DOMAIN buckets) <= Capacity
    BY DEF LimitInv, SizeInv
  <2>2. IsFiniteSet(rest) /\ Cardinality(rest) <= Cardinality(DOMAIN buckets)
    BY <1>4, <2>1, FS_Subset
  <2>3. Cardinality(DOMAIN buckets) \in Nat /\ Cardinality(rest) \in Nat
    BY <2>1, <2>2, FS_CardinalityType
  <2> QED
    BY <2>1, <2>2, <2>3
<1>6. SupervisionTypeOK'
  BY <1>1 DEF LimitInv, TypeOK, SupervisionTypeOK, supervisionVars
<1>7. \A s \in Slots : Pending(s)' = Pending(s)
  BY <1>1 DEF Pending
<1>8. ASSUME NEW hits \in Nat, NEW window \in Nat, command' = Replied(r, hits, window)
      PROVE  /\ command' \in [Requests -> Command]
             /\ command'[r].hits = hits /\ command'[r].window = window
             /\ command'[r].place \in {"replied", "done"}
             /\ \A x \in Requests : x # r => command'[x] = command[x]
  BY <1>1, <1>8 DEF Replied, Command, Places
<1>9. \A x \in Requests : command[x].hits # 0 /\ request[x].key = k => x # r
  BY <1>1
<1>10. CASE /\ k \in rest
            /\ buckets' = [kept EXCEPT ![k].hits = @ + 1]
            /\ command' = Replied(r, kept[k].hits + 1, kept[k].window)
            /\ begun' = begun
  <2>1. /\ kept[k].hits \in Nat /\ kept[k].window \in Nat
        /\ kept[k] = buckets[k] /\ buckets[k].window = begun[k] /\ begun[k] >= 1
    BY <1>1, <1>2, <1>4, <1>10 DEF Bucket, WindowInOrder
  <2>2. /\ DOMAIN buckets' = rest
        /\ \A x \in rest : x # k => buckets'[x] = buckets[x]
        /\ buckets'[k].window = begun[k] /\ buckets'[k].hits = buckets[k].hits + 1
        /\ buckets'[k] \in Bucket
    BY <1>4, <1>10, <2>1 DEF Bucket
  <2>3. /\ command' \in [Requests -> Command]
        /\ command'[r].hits = buckets[k].hits + 1 /\ command'[r].window = begun[k]
        /\ command'[r].place \in {"replied", "done"}
        /\ \A x \in Requests : x # r => command'[x] = command[x]
    <3>1. kept[k].hits + 1 \in Nat
      BY <2>1
    <3>2. /\ command' \in [Requests -> Command]
          /\ command'[r].hits = kept[k].hits + 1 /\ command'[r].window = kept[k].window
          /\ command'[r].place \in {"replied", "done"}
          /\ \A x \in Requests : x # r => command'[x] = command[x]
      BY <1>8, <1>10, <2>1, <3>1
    <3> QED
      BY <2>1, <3>2
  <2>4. TypeOK'
    BY <1>1, <1>4, <1>6, <1>10, <2>2, <2>3 DEF TypeOK
  <2>5. ASSUME NEW x \in Requests PROVE CommandKnown(x)'
    BY <1>1, <1>2, <2>1, <2>3 DEF CommandKnown
  <2>6. ASSUME NEW x \in Keys PROVE WindowInOrder(x)'
    BY <1>1, <1>2, <1>4, <1>10, <2>1, <2>2 DEF WindowInOrder
  <2>7. ASSUME NEW x \in Requests, NEW y \in Keys PROVE Numbered(x, y)'
    <3>1. CASE x = r
      BY <1>1, <1>10, <2>1, <2>2, <2>3, <3>1 DEF Numbered
    <3>2. CASE x # r
      <4>1. Numbered(x, y) /\ command[x].hits \in Nat /\ buckets[k].hits \in Nat
        BY <1>1, <1>2, <2>1 DEF Command
      <4>2. command'[x] = command[x] /\ request'[x] = request[x] /\ begun' = begun
        BY <1>1, <1>10, <2>3, <3>2
      <4>3. CASE y = k
        <5>1. k \in DOMAIN buckets /\ buckets'[k].hits = buckets[k].hits + 1
          BY <1>4, <1>10, <2>2
        <5>2. request[x].key = k /\ command[x].hits # 0 => command[x].window <= begun[k]
          BY <4>1, <4>3 DEF Numbered
        <5>3. request[x].key = k /\ command[x].hits # 0 /\ command[x].window = begun[k]
                => command[x].hits <= buckets'[k].hits
          BY <4>1, <4>3, <5>1 DEF Numbered
        <5> QED
          BY <4>2, <4>3, <5>2, <5>3 DEF Numbered
      <4>4. CASE y # k
        BY <1>4, <2>2, <4>1, <4>2, <4>4 DEF Numbered
      <4> QED
        BY <4>3, <4>4
    <3> QED
      BY <3>1, <3>2
  <2>8. ASSUME NEW x \in Requests, NEW y \in Requests PROVE Different(x, y)'
    <3>1. \A q \in Requests : q # r /\ request[q].key = k /\ command[q].window = begun[k]
                             /\ command[q].hits # 0 => command[q].hits <= buckets[k].hits
      BY <1>1, <1>2, <1>4, <1>10 DEF Numbered
    <3>2. \A q \in Requests : command[q].hits \in Nat
      BY <1>1 DEF Command
    <3> QED
      BY <1>1, <1>2, <2>1, <2>3, <3>1, <3>2 DEF Different
  <2> QED
    BY <1>5, <1>7, <2>2, <2>4, <2>5, <2>6, <2>7, <2>8 DEF LimitInv, CountInv, SizeInv
<1>11. CASE /\ k \notin rest /\ Cardinality(rest) < Capacity
            /\ buckets' = [x \in rest \cup {k} |->
                             IF x = k THEN [window |-> begun[k] + 1, hits |-> 1] ELSE kept[x]]
            /\ command' = Replied(r, 1, begun[k] + 1)
            /\ begun' = [begun EXCEPT ![k] = @ + 1]
  <2>1. begun[k] \in Nat /\ ended[k] \in Nat /\ begun[k] <= ended[k]
    BY <1>1, <1>2, <1>4, <1>11 DEF WindowInOrder
  <2>2. /\ DOMAIN buckets' = rest \cup {k}
        /\ \A x \in rest : x # k => buckets'[x] = buckets[x]
        /\ buckets'[k].window = begun[k] + 1 /\ buckets'[k].hits = 1
        /\ buckets'[k] \in Bucket
        /\ begun' \in [Keys -> Nat] /\ begun'[k] = begun[k] + 1
        /\ \A x \in Keys : x # k => begun'[x] = begun[x]
    BY <1>1, <1>4, <1>11, <2>1 DEF Bucket
  <2>3. /\ command' \in [Requests -> Command]
        /\ command'[r].hits = 1 /\ command'[r].window = begun[k] + 1
        /\ command'[r].place \in {"replied", "done"}
        /\ \A x \in Requests : x # r => command'[x] = command[x]
    BY <1>8, <1>11, <2>1
  <2>4. TypeOK'
    BY <1>1, <1>4, <1>6, <2>2, <2>3 DEF TypeOK
  <2>5. ASSUME NEW x \in Requests PROVE CommandKnown(x)'
    BY <1>1, <1>2, <2>1, <2>3 DEF CommandKnown
  <2>6. ASSUME NEW x \in Keys PROVE WindowInOrder(x)'
    <3>1. WindowInOrder(x)
      BY <1>2
    <3>2. CASE x = k
      <4>1. /\ ended'[k] = ended[k] /\ begun'[k] = begun[k] + 1 /\ k \in DOMAIN buckets'
            /\ buckets'[k].window = begun[k] + 1
        BY <1>1, <2>2
      <4>2. ended'[k] <= begun'[k] /\ begun'[k] <= ended'[k] + 1 /\ begun'[k] >= 1
        <5>1. ended[k] <= begun[k]
          BY <3>1, <3>2 DEF WindowInOrder
        <5> QED
          BY <2>1, <4>1, <5>1
      <4> QED
        BY <3>2, <4>1, <4>2 DEF WindowInOrder
    <3>3. CASE x # k
      BY <1>1, <1>4, <2>2, <3>1, <3>3 DEF WindowInOrder
    <3> QED
      BY <3>2, <3>3
  <2>7. ASSUME NEW x \in Requests, NEW y \in Keys PROVE Numbered(x, y)'
    <3>1. CASE x = r
      BY <1>1, <2>1, <2>2, <2>3, <3>1 DEF Numbered
    <3>2. CASE x # r
      <4>1. Numbered(x, y) /\ command[x].window \in Nat /\ command'[x] = command[x]
        BY <1>1, <1>2, <2>3, <3>2 DEF Command
      <4>2. CASE y = k
        BY <1>1, <2>1, <2>2, <4>1, <4>2 DEF Numbered
      <4>3. CASE y # k
        BY <1>1, <1>4, <2>2, <4>1, <4>3 DEF Numbered
      <4> QED
        BY <4>2, <4>3
    <3> QED
      BY <3>1, <3>2
  <2>8. ASSUME NEW x \in Requests, NEW y \in Requests PROVE Different(x, y)'
    <3>1. \A q \in Requests : request[q].key = k /\ command[q].hits # 0 =>
                              command[q].window <= begun[k]
      BY <1>1, <1>2 DEF Numbered
    <3>2. \A q \in Requests : command[q].window \in Nat
      BY <1>1 DEF Command
    <3>3. CommandKnown(x) /\ CommandKnown(y) /\ Different(x, y)
      BY <1>2
    <3> QED
      BY <1>1, <2>1, <2>3, <3>1, <3>2, <3>3 DEF Different, CommandKnown
  <2>9. IsFiniteSet(rest \cup {k}) /\ Cardinality(rest \cup {k}) <= Capacity
    <3>1. IsFiniteSet(rest \cup {k}) /\ Cardinality(rest \cup {k}) = Cardinality(rest) + 1
      BY <1>5, <1>11, FS_AddElement, Zenon
    <3> QED
      BY <1>5, <1>11, <3>1
  <2> QED
    BY <1>7, <2>2, <2>4, <2>5, <2>6, <2>7, <2>8, <2>9 DEF LimitInv, CountInv, SizeInv
<1>12. CASE /\ k \notin rest
            /\ buckets' = kept
            /\ command' = Replied(r, 0, 0)
            /\ begun' = begun
  <2>1. /\ command' \in [Requests -> Command]
        /\ command'[r].hits = 0 /\ command'[r].window = 0
        /\ command'[r].place \in {"replied", "done"}
        /\ \A x \in Requests : x # r => command'[x] = command[x]
    BY <1>8, <1>12
  <2>2. TypeOK'
    BY <1>1, <1>4, <1>6, <1>12, <2>1 DEF TypeOK
  <2>3. ASSUME NEW x \in Requests PROVE CommandKnown(x)'
    BY <1>1, <1>2, <2>1 DEF CommandKnown
  <2>4. ASSUME NEW x \in Keys PROVE WindowInOrder(x)'
    BY <1>1, <1>2, <1>4, <1>12 DEF WindowInOrder
  <2>5. ASSUME NEW x \in Requests, NEW y \in Keys PROVE Numbered(x, y)'
    BY <1>1, <1>2, <1>4, <1>12, <2>1 DEF Numbered
  <2>6. ASSUME NEW x \in Requests, NEW y \in Requests PROVE Different(x, y)'
    BY <1>1, <1>2, <2>1 DEF Different
  <2> QED
    BY <1>4, <1>5, <1>7, <1>12, <2>2, <2>3, <2>4, <2>5, <2>6 DEF LimitInv, CountInv, SizeInv
<1> QED
  BY <1>3, <1>4, <1>10, <1>11, <1>12 DEF rest, kept

\* Every step of the rate limits.
LEMMA LimitKept ==
  ASSUME LimitInv, SupervisionInv, Next PROVE LimitInv' /\ SupervisionInv'
<1>1. ASSUME SupervisionInv', UNCHANGED limitVars PROVE LimitInv'
  BY <1>1 DEF limitVars, LimitInv, CountInv, SizeInv, TypeOK, SupervisionInv, CommandKnown,
              WindowInOrder, Numbered, Different, Pending
<1>2. ASSUME UNCHANGED supervisionVars PROVE SupervisionInv'
  BY <1>2 DEF supervisionVars, SupervisionInv, SupervisionTypeOK, Remembers,
              StopsOnRepeatedFailures
<1>3. ASSUME NEW s \in Slots, (Fails(s) \/ Leaves(s)) /\ Abandoned(s)
      PROVE  LimitInv' /\ SupervisionInv'
  <2>1. SupervisionInv'
    BY <1>3, SupervisionKept DEF SupervisionNext
  <2> QED
    BY <1>3, <2>1, AbandonedOK DEF SupervisionInv
<1>4. CASE \/ \E s \in Slots : (GrowsOld(s) \/ Respawn(s) \/ Drain(s)) /\ UNCHANGED limitVars
           \/ Signal /\ UNCHANGED limitVars
  BY <1>1, <1>4, SupervisionKept DEF SupervisionNext
<1>5. ASSUME NEW k \in Keys, WindowEnds(k) PROVE LimitInv' /\ SupervisionInv'
  BY <1>2, <1>5, WindowEndsOK DEF WindowEnds
<1>6. ASSUME NEW r \in Requests, NEW s \in Slots, NEW k \in Keys, Ask(r, s, k)
      PROVE  LimitInv' /\ SupervisionInv'
  BY <1>2, <1>6, AskOK DEF Ask
<1>7. ASSUME NEW r \in Requests, Count(r) PROVE LimitInv' /\ SupervisionInv'
  BY <1>2, <1>7, CountOK DEF Count
<1>8. ASSUME NEW r \in Requests, Answer(r) PROVE LimitInv' /\ SupervisionInv'
  BY <1>2, <1>8, AnswerOK DEF Answer
<1>9. ASSUME NEW r \in Requests, GiveUp(r) PROVE LimitInv' /\ SupervisionInv'
  BY <1>2, <1>9, GiveUpOK DEF GiveUp
<1> QED
  BY <1>3, <1>4, <1>5, <1>6, <1>7, <1>8, <1>9 DEF Next

\* So does a step of something else.
LEMMA LimitStutters ==
  ASSUME LimitInv, SupervisionInv, UNCHANGED vars PROVE LimitInv' /\ SupervisionInv'
<1> USE DEF vars, limitVars, supervisionVars
<1>1. SupervisionInv'
  BY DEF SupervisionInv, SupervisionTypeOK, Remembers, StopsOnRepeatedFailures
<1>2. LimitInv'
  BY <1>1 DEF LimitInv, CountInv, SizeInv, TypeOK, SupervisionInv, CommandKnown,
              WindowInOrder, Numbered, Different, Pending
<1> QED
  BY <1>1, <1>2

-----------------------------------------------------------------------------
(* The preparation of the database.                                        *)

\* A unique index admits no shared barcodes, and a primary that has migrated and is past
\* the backfill left nobody without digits.
Migrated(q) == stage[q] \in {"verify", "prepared"} /\ q \in enabled => unfilled = {}

StartupInv ==
  /\ StartupTypeOK
  /\ index \in {"sparse", "unique"} => ~shared
  /\ \A q \in Primaries : Migrated(q)
  /\ \A q \in Primaries : stage[q] = "prepared" => index = "unique"

\* No process has started at first.
LEMMA StartupInitOK == StartupInit => StartupInv
  BY DEF StartupInit, Off, StartupInv, StartupTypeOK, StartStages, Migrated

\* Every step of a start or stop, when there is one primary.
LEMMA StartupKept ==
  ASSUME \A q1, q2 \in Primaries : q1 = q2, StartupInv, StartupNext PROVE StartupInv'
<1> USE DEF StartupInv, StartupTypeOK, StartStages, Migrated
<1>1. CASE ShareBarcode
  BY <1>1 DEF ShareBarcode
<1>2. CASE Repair
  BY <1>2 DEF Repair
<1>3. ASSUME NEW q \in Primaries, Start(q) PROVE StartupInv'
  BY <1>3 DEF Start, Moves
<1>4. ASSUME NEW q \in Primaries, CheckBarcodes(q) PROVE StartupInv'
  BY <1>4 DEF CheckBarcodes, Moves
<1>5. ASSUME NEW q \in Primaries, DropIndex(q) PROVE StartupInv'
  BY <1>5 DEF DropIndex, Moves
<1>6. ASSUME NEW q \in Primaries, CreateIndex(q) PROVE StartupInv'
  BY <1>6 DEF CreateIndex, Moves
<1>7. ASSUME NEW q \in Primaries, BackfillPhone(q) PROVE StartupInv'
  BY <1>7 DEF BackfillPhone, PhonesDone, Moves
<1>8. ASSUME NEW q \in Primaries, Verify(q) PROVE StartupInv'
  BY <1>8 DEF Verify, Ready, Moves
<1>9. ASSUME NEW q \in Primaries, Crash(q) PROVE StartupInv'
  BY <1>9 DEF Crash
<1> QED
  BY <1>1, <1>2, <1>3, <1>4, <1>5, <1>6, <1>7, <1>8, <1>9 DEF StartupNext

-----------------------------------------------------------------------------
(* The theorems.                                                           *)

ServingInv == LimitInv /\ SupervisionInv

\* The parts of the cluster together.
LEMMA ServingKept ==
  ASSUME ServingInv, [ClusterNext]_<<vars, startupVars>> PROVE ServingInv'
<1>1. CASE Next
  BY <1>1, LimitKept DEF ServingInv
<1>2. CASE UNCHANGED vars
  BY <1>2, LimitStutters DEF ServingInv
<1> QED
  BY <1>1, <1>2 DEF ClusterNext

\* The inductive invariant of the workers and their supervision, with the types of both
\* (cluster.ts, rate-limit-store.ts).
THEOREM ServingInvariance == ClusterSpec => []ServingInv
<1>1. ClusterInit => ServingInv
  BY LimitInitOK, SupervisionInitOK DEF ClusterInit, Init, ServingInv
<1>2. ServingInv /\ [ClusterNext]_<<vars, startupVars>> => ServingInv'
  BY ServingKept
<1> QED
  BY <1>1, <1>2, PTL DEF ClusterSpec

\* The cluster gives up exactly when one slot has failed MaxExits times within a minute
\* (cluster.ts 38-41), for any number of slots and failures.
THEOREM StopsWhenItShould == ClusterSpec => []StopsOnRepeatedFailures
<1>1. ServingInv => StopsOnRepeatedFailures
  BY DEF ServingInv, SupervisionInv
<1> QED
  BY <1>1, ServingInvariance, PTL

\* No window lets more than Limit requests of its key pass, no two windows of a key run at
\* once, and the tables keep their sizes (rate-limit-store.ts 11-29, 64-75), for any limits.
THEOREM LimitsAlwaysHold == ClusterSpec => []LimitsHold
<1>1. ServingInv => LimitsHold
  BY LimitsFollow DEF ServingInv
<1> QED
  BY <1>1, ServingInvariance, PTL

\* With one primary, as cluster.ts 12-13 has it, nobody is served before the indexes and,
\* after a migration, the phone digits are in place (server.ts 30-43).
THEOREM ServesWhenReady ==
  ASSUME \A q1, q2 \in Primaries : q1 = q2
  PROVE  ClusterSpec => []ServesReady
<1>1. ClusterInit => StartupInv
  BY StartupInitOK DEF ClusterInit
<1>2. StartupInv /\ [ClusterNext]_<<vars, startupVars>> => StartupInv'
  <2> SUFFICES ASSUME StartupInv, [ClusterNext]_<<vars, startupVars>> PROVE StartupInv'
    OBVIOUS
  <2>1. CASE StartupNext
    BY <2>1, StartupKept
  <2>2. CASE UNCHANGED startupVars
    BY <2>2 DEF startupVars, StartupInv, StartupTypeOK, Migrated
  <2> QED
    BY <2>1, <2>2 DEF ClusterNext
<1>3. StartupInv => ServesReady
  BY DEF StartupInv, Migrated, ServesReady
<1> QED
  BY <1>1, <1>2, <1>3, PTL DEF ClusterSpec
=============================================================================
