---------------------------- MODULE Supervision ----------------------------
(***************************************************************************)
(* The primary process of an API cluster (cluster.ts): it keeps a worker   *)
(* in every slot, restarts one that exits after a growing delay, and stops *)
(* the cluster when one slot fails too often within a minute or when it is *)
(* told to; workers then drain and leave (server.ts).  Of time it matters  *)
(* only which exits are more than a minute old: they grow old in their     *)
(* order, at any moment.                                                   *)
(***************************************************************************)
EXTENDS Naturals, FiniteSets, FiniteSetsExt

CONSTANTS
  Slots,       \* worker slots
  MaxExits,    \* exits of a slot within a minute that stop the cluster: 5
  MaxFailures  \* bound: exits of all slots

ASSUME SupervisionAssumption == MaxExits \in Nat \ {0} /\ MaxFailures \in Nat

VARIABLES
  slot,      \* what became of the worker of each slot
  exits,     \* how often the worker of each slot has failed
  old,       \* how many of these exits are more than a minute old
  restarts,  \* the exits of each slot the primary remembers, by number
  stopping,
  failed     \* exit code 1: stopped because of repeated failures

supervisionVars == <<slot, exits, old, restarts, stopping, failed>>

SlotStates == {"up", "draining", "waiting", "down"}

SupervisionInit ==
  /\ slot = [s \in Slots |-> "up"]
  /\ exits = [s \in Slots |-> 0] /\ old = [s \in Slots |-> 0]
  /\ restarts = [s \in Slots |-> {}]
  /\ stopping = FALSE /\ failed = FALSE

\* A minute has passed since the first exit that is not old yet.
GrowsOld(s) ==
  /\ ~stopping /\ old[s] < exits[s]
  /\ old' = [old EXCEPT ![s] = @ + 1]
  /\ UNCHANGED <<slot, exits, restarts, stopping, failed>>

\* Mutant: exits are never forgotten.
Remembered(s) == restarts[s]

\* The exits of a slot within the last minute.
Recent(s) == {e \in restarts[s] : e > old[s]}

\* stop(): the restarts under way are given up, the live workers will be told.
Stop(slots) ==
  /\ stopping' = TRUE
  /\ slot' = [s \in Slots |-> IF slots[s] = "waiting" THEN "down" ELSE slots[s]]

Failures == MapThenSumSet(LAMBDA s : exits[s], Slots)

\* The worker of a slot exits while the cluster runs.
Fails(s) ==
  LET recent == Recent(s) \cup {exits[s] + 1}
      waits  == [slot EXCEPT ![s] = "waiting"]
  IN  /\ slot[s] = "up" /\ ~stopping /\ Failures < MaxFailures
      /\ exits' = [exits EXCEPT ![s] = @ + 1]
      /\ restarts' = [restarts EXCEPT ![s] = recent]
      /\ \/ Cardinality(recent) >= MaxExits /\ Stop(waits) /\ failed' = TRUE
         \/ Cardinality(recent) < MaxExits /\ slot' = waits /\ UNCHANGED <<stopping, failed>>
      /\ UNCHANGED old

\* Mutant: the timer of a restart is lost when another slot fails.
RespawnAlone(s) ==
  /\ slot[s] = "waiting" /\ \A x \in Slots \ {s} : slot[x] # "waiting"
  /\ slot' = [slot EXCEPT ![s] = "up"]
  /\ UNCHANGED <<exits, old, restarts, stopping, failed>>

\* The delay is over: a new worker takes the slot.
Respawn(s) ==
  /\ slot[s] = "waiting"
  /\ slot' = [slot EXCEPT ![s] = "up"]
  /\ UNCHANGED <<exits, old, restarts, stopping, failed>>

\* SIGTERM, SIGINT.
Signal ==
  /\ ~stopping /\ Stop(slot)
  /\ UNCHANGED <<exits, old, restarts, failed>>

\* A worker learns of it and accepts no more connections.
Drain(s) ==
  /\ stopping /\ slot[s] = "up"
  /\ slot' = [slot EXCEPT ![s] = "draining"]
  /\ UNCHANGED <<exits, old, restarts, stopping, failed>>

\* A worker leaves: it has drained, failed, or its deadline or the primary's has passed.
Leaves(s) ==
  /\ stopping /\ slot[s] \in {"up", "draining"}
  /\ slot' = [slot EXCEPT ![s] = "down"]
  /\ UNCHANGED <<exits, old, restarts, stopping, failed>>

SupervisionNext ==
  \/ Signal
  \/ \E s \in Slots : Fails(s) \/ GrowsOld(s) \/ Respawn(s) \/ Drain(s) \/ Leaves(s)

SupervisionSpec == SupervisionInit /\ [][SupervisionNext]_supervisionVars
----------------------------------------------------------------------------
SupervisionTypeOK ==
  /\ slot \in [Slots -> SlotStates] /\ restarts \in [Slots -> SUBSET Nat]
  /\ exits \in [Slots -> Nat] /\ old \in [Slots -> Nat] /\ \A s \in Slots : old[s] <= exits[s]
  /\ stopping \in BOOLEAN /\ failed \in BOOLEAN

\* The cluster gives up exactly when one slot has failed MaxExits times within a minute:
\* slow failures, and failures of different slots, do not add up (cluster.ts 38-41).
StopsOnRepeatedFailures == failed <=> \E s \in Slots : exits[s] - old[s] >= MaxExits
=============================================================================
