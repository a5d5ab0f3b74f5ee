---------------------------- MODULE ReportExport ----------------------------
(***************************************************************************)
(* The export of procurement reports in one API process.  A request passes *)
(* a gate with few slots and a short queue (work-gate.ts), reads its data, *)
(* and hands it to a lazily created worker thread (report-worker.ts),      *)
(* which formats one report at a time.  Timers end a wait for a slot, a    *)
(* report that takes too long and a thread nobody needs; a thread may die  *)
(* at any time, and what an abandoned thread still sends comes late.       *)
(* JavaScript runs one callback at a time: each action is one callback     *)
(* with the promise reactions it causes.                                   *)
(***************************************************************************)
EXTENDS Naturals, Sequences, FiniteSets, SequencesExt

CONSTANTS
  Exports,      \* export requests, each made once
  Concurrency,  \* slots of the gate: 1
  MaxQueue,     \* requests that may wait for a slot: 4
  MaxTasks,     \* tasks that may wait for the thread: 4
  MaxDeaths,    \* bound: deaths of the thread in use
  None          \* no request, no thread, no timer

ASSUME SizesAssumption ==
  Concurrency \in Nat \ {0} /\ MaxQueue \in Nat /\ MaxTasks \in Nat /\ MaxDeaths \in Nat
ASSUME ExportsAssumption == IsFiniteSet(Exports) /\ None \notin Exports \cup Nat

VARIABLES
  stage,   \* how far each request is
  report,  \* whose report the client of a request was sent
  gate,    \* slots taken and the queue for them
  pool,    \* the module state of report-worker.ts, and the running threads
  deaths

exportVars == <<stage, report, gate, pool, deaths>>

Threads == 1..Cardinality(Exports)               \* a start makes at most one thread
Timers  == 1..(Cardinality(Exports) + MaxDeaths + 1)

Stages == {"new", "waiting", "reading", "exporting", "answered", "failed"}

Inside  == {j \in Exports : stage[j] \in {"reading", "exporting"}}
Over(j) == stage[j] \in {"answered", "failed"}

InSeq(s) == {s[i] : i \in DOMAIN s}

ExportInit ==
  /\ stage = [j \in Exports |-> "new"]
  /\ report = [j \in Exports |-> None]
  /\ gate = [active |-> 0, waiting |-> <<>>]
  /\ pool = [queue |-> <<>>, active |-> None, worker |-> None, deadline |-> FALSE,
             idle |-> None, armed |-> {}, running |-> [w \in Threads |-> "gone"],
             stopping |-> FALSE]
  /\ deaths = 0
----------------------------------------------------------------------------
(* The gate.                                                               *)

\* Some of the requests inside end: each hands its slot to the longest waiting
\* request or gives it back.
Entering(n) == {gate.waiting[i] : i \in {i \in DOMAIN gate.waiting : i <= n}}

Handed(n) ==
  LET k == IF n < Len(gate.waiting) THEN n ELSE Len(gate.waiting)
  IN  [active |-> gate.active - (n - k), waiting |-> SubSeq(gate.waiting, k + 1, Len(gate.waiting))]

\* The requests of "failed" and "answered" leave, others take their slots.
Leave(stages, failed, answered) ==
  LET n == Cardinality(failed \cup answered)
  IN  /\ gate' = Handed(n)
      /\ stage' = [j \in Exports |-> CASE j \in failed      -> "failed"
                                       [] j \in answered    -> "answered"
                                       [] stages[j] = "waiting" /\ j \in Entering(n) -> "reading"
                                       [] OTHER             -> stages[j]]

\* A request arrives: it gets a slot, waits for one, or is refused.
Ask(j) ==
  /\ stage[j] = "new" /\ ~pool.stopping
  /\ \/ /\ gate.active < Concurrency
        /\ gate' = [gate EXCEPT !.active = @ + 1]
        /\ stage' = [stage EXCEPT ![j] = "reading"]
     \/ /\ gate.active >= Concurrency /\ Len(gate.waiting) < MaxQueue
        /\ gate' = [gate EXCEPT !.waiting = Append(@, j)]
        /\ stage' = [stage EXCEPT ![j] = "waiting"]
     \/ /\ gate.active >= Concurrency /\ Len(gate.waiting) >= MaxQueue
        /\ stage' = [stage EXCEPT ![j] = "failed"]
        /\ UNCHANGED gate
  /\ UNCHANGED <<report, pool, deaths>>

\* Mutant: the request gives up and stays in the queue.
Stays(s, j) == s

\* The queue without j, which is there once.
Without(s, j) == RemoveFirst(s, j)

\* The wait for a slot took too long.
WaitExpires(j) ==
  /\ stage[j] = "waiting"
  /\ gate' = [gate EXCEPT !.waiting = Without(@, j)]
  /\ stage' = [stage EXCEPT ![j] = "failed"]
  /\ UNCHANGED <<report, pool, deaths>>
----------------------------------------------------------------------------
(* The worker thread.                                                      *)

Least(S)      == CHOOSE x \in S : \A y \in S : x <= y
FreeThread(p) == Least({w \in Threads : p.running[w] = "gone"})
FreeTimer(p)  == Least(Timers \ p.armed)

\* Nothing to do: a timer is armed, and its handle replaces that of an earlier one.
Rested(p) == [p EXCEPT !.idle = FreeTimer(p), !.armed = @ \cup {FreeTimer(p)}]

\* There is a task: no teardown now, and a thread if there is none.
Awake(p) ==
  LET w == IF p.worker = None THEN FreeThread(p) ELSE p.worker
  IN  [p EXCEPT !.armed = @ \ {p.idle}, !.worker = w,
                !.running[w] = IF p.worker = None THEN None ELSE @]

\* Mutant: a task begins without a time limit.
StartedUnlimited(p) ==
  [p EXCEPT !.queue = Tail(@), !.active = Head(p.queue), !.running[p.worker] = Head(p.queue)]

\* The first task is posted to the thread.
Started(p) ==
  [p EXCEPT !.queue = Tail(@), !.active = Head(p.queue), !.running[p.worker] = Head(p.queue),
            !.deadline = TRUE]

Skipped(p, n) == [p EXCEPT !.queue = SubSeq(@, n + 1, Len(@))]

\* drain(), when the data of the first n tasks cannot be posted.
Drained(p, n) ==
  IF p.active # None \/ p.stopping THEN p
  ELSE IF p.queue = <<>> THEN Rested(p)
  ELSE LET q == Skipped(Awake(p), n) IN IF q.queue = <<>> THEN Rested(q) ELSE Started(q)

\* drain() is called on the pool p: tasks that cannot be posted fail.
Drain(p, stages, failed, answered) ==
  \E n \in 0..(IF p.active # None \/ p.stopping THEN 0 ELSE Len(p.queue)) :
    /\ pool' = Drained(p, n)
    /\ Leave(stages, failed \cup {p.queue[i] : i \in 1..n}, answered)

\* The data was read: the task is queued, unless the queue is full or closed.
Export(j) ==
  /\ stage[j] = "reading"
  /\ IF pool.stopping \/ Len(pool.queue) >= MaxTasks
     THEN Leave(stage, {j}, {}) /\ UNCHANGED pool
     ELSE Drain([pool EXCEPT !.queue = Append(@, j)], [stage EXCEPT ![j] = "exporting"], {}, {})
  /\ UNCHANGED <<report, deaths>>

\* The data could not be read.
ReadFails(j) ==
  /\ stage[j] = "reading"
  /\ Leave(stage, {j}, {})
  /\ UNCHANGED <<report, pool, deaths>>

\* Mutant: any thread may answer for the task in hand.
AnyThread(w) == pool.active # None

\* Only the thread in use is listened to.
InUse(w) == pool.worker = w /\ pool.active # None

Freed(w) == [pool EXCEPT !.running[w] = None]

\* A thread sends a report, or that it failed; one that was abandoned may still do so.
Message(w) ==
  /\ pool.running[w] \in Exports
  /\ IF ~InUse(w)
     THEN pool' = Freed(w) /\ UNCHANGED <<stage, report, gate>>
     ELSE LET done == pool.active
              next == [Freed(w) EXCEPT !.active = None, !.deadline = FALSE]
          IN  \/ /\ Drain(next, stage, {}, {done})
                 /\ report' = [report EXCEPT ![done] = pool.running[w]]
              \/ Drain(next, stage, {done}, {}) /\ UNCHANGED report
  /\ UNCHANGED deaths

Current == {pool.active} \ {None}

\* The thread in use dies, of an error or of its memory limit.
Dies(w) ==
  /\ pool.worker = w /\ deaths < MaxDeaths
  /\ deaths' = deaths + 1
  /\ Drain([pool EXCEPT !.worker = None, !.deadline = FALSE, !.active = None,
                        !.running[w] = "gone"], stage, Current, {})
  /\ UNCHANGED report

\* A thread that was terminated is gone at last; nobody listens.
Exits(w) ==
  /\ pool.running[w] # "gone" /\ pool.worker # w
  /\ pool' = [pool EXCEPT !.running[w] = "gone"]
  /\ UNCHANGED <<stage, report, gate, deaths>>

\* The report took too long: its thread is terminated.
Deadline ==
  /\ pool.deadline
  /\ Drain([pool EXCEPT !.worker = None, !.deadline = FALSE, !.active = None], stage, Current, {})
  /\ UNCHANGED <<report, deaths>>

\* A timer armed when there was nothing to do fires: the thread in use is terminated.
IdleFires(t) ==
  /\ t \in pool.armed
  /\ pool' = [pool EXCEPT !.armed = @ \ {t}, !.worker = None]
  /\ UNCHANGED <<stage, report, gate, deaths>>

\* The server has closed its connections; a client may have left its request behind.
Close ==
  /\ ~pool.stopping
  /\ pool' = [pool EXCEPT !.stopping = TRUE, !.armed = @ \ {pool.idle}, !.deadline = FALSE,
                          !.active = None, !.queue = <<>>, !.worker = None]
  /\ Leave(stage, Current \cup InSeq(pool.queue), {})
  /\ UNCHANGED <<report, deaths>>

ExportNext ==
  \/ \E j \in Exports : Ask(j) \/ WaitExpires(j) \/ Export(j) \/ ReadFails(j)
  \/ \E w \in Threads : Message(w) \/ Dies(w) \/ Exits(w)
  \/ \E t \in Timers : IdleFires(t)
  \/ Deadline \/ Close

\* Timers fire and the reads, which have time limits, end; a thread may hang for ever.
ExportFairness ==
  /\ \A j \in Exports : WF_exportVars(WaitExpires(j)) /\ WF_exportVars(Export(j) \/ ReadFails(j))
  /\ WF_exportVars(Deadline)

ExportSpec == ExportInit /\ [][ExportNext]_exportVars
----------------------------------------------------------------------------
Task == Exports \cup {None}
Pool == [queue : Seq(Exports), active : Task, worker : Threads \cup {None},
         deadline : BOOLEAN, idle : Timers \cup {None}, armed : SUBSET Timers,
         running : [Threads -> Task \cup {"gone"}], stopping : BOOLEAN]

ExportTypeOK ==
  /\ stage \in [Exports -> Stages] /\ report \in [Exports -> Task]
  /\ gate \in [active : Nat, waiting : Seq(Exports)]
  /\ pool \in Pool /\ deaths \in Nat

\* Every slot of the gate has a request inside, nobody waits next to a free slot, and
\* exactly the requests that wait are in the queue: a slot passed on while waits expire
\* is neither lost nor given twice (work-gate.ts).  The thread and its queue hold exactly
\* the requests that wait for a report, and a task in hand has a time limit
\* (report-worker.ts).
SlotsConserved ==
  /\ gate.active = Cardinality(Inside) /\ gate.active <= Concurrency
  /\ gate.waiting # <<>> => gate.active = Concurrency
  /\ InSeq(gate.waiting) = {j \in Exports : stage[j] = "waiting"}
  /\ Len(gate.waiting) = Cardinality(InSeq(gate.waiting))
  /\ InSeq(pool.queue) \cup Current = {j \in Exports : stage[j] = "exporting"}
  /\ pool.deadline <=> pool.active # None

\* A client gets the report it asked for, whatever abandoned threads send late
\* (report-worker.ts, the listener of "message").
OwnReport == \A j \in Exports : stage[j] = "answered" => report[j] = j

\* Every request ends: threads may hang or die and waits expire.
ExportsEnd == \A j \in Exports : (stage[j] # "new") ~> Over(j)

\* The teardown of an idle thread never hits one that is at work
\* (docs/high-scale-architecture.md 40: "30-second idle teardown").
IdleTeardown == [][\A t \in Timers : IdleFires(t) => pool.active = None]_exportVars
=============================================================================
