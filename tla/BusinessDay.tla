---------------------------- MODULE BusinessDay ----------------------------
(***************************************************************************)
(* The business day of an owner (business-day.ts).  It begins at an hour   *)
(* the owner may change (updateMe of auth.service.ts): the change waits    *)
(* until tomorrow's business day begins, and the first request after that  *)
(* makes it the hour in force (auth.middleware.ts,                         *)
(* promoteBusinessDayHourIfDue of auth.repository.ts).  Requests overlap,  *)
(* but have ended when the next hour begins.                               *)
(***************************************************************************)
EXTENDS Integers

CONSTANTS
  DayHours,   \* hours of a day: 24
  StartHours, \* hours at which a business day may begin
  MaxTime,    \* bound: hours explored
  Visits,     \* requests of the owner that may be under way
  Unset       \* no hour

ASSUME HoursAssumption ==
  /\ DayHours \in Nat \ {0} /\ StartHours \subseteq 0..DayHours - 1 /\ MaxTime \in Nat
  /\ Unset \notin Int

VARIABLES
  now,      \* local time in hours, of the business's time zone
  owner,    \* the hour in force, the pending one and when it is due
  visit,    \* the requests
  reached   \* the latest business date a request has worked with

dayVars == <<now, owner, visit, reached>>

Owner == [hour : StartHours, pending : StartHours \cup {Unset}, from : Nat]

NoOwner == [hour |-> CHOOSE h \in StartHours : TRUE, pending |-> Unset, from |-> 0]
Idle    == [stage |-> "idle", actor |-> NoOwner, floor |-> 0, change |-> Unset]

DayInit ==
  /\ now = DayHours
  /\ owner \in [hour : StartHours, pending : {Unset}, from : {0}]
  /\ visit = [v \in Visits |-> Idle]
  /\ reached = 0

\* getBusinessDate: before the hour it is still yesterday.
BusinessDate(t, hour) == t \div DayHours - (IF t % DayHours < hour THEN 1 ELSE 0)

\* Mutant: tomorrow's hour is meant in UTC, two hours behind.
NextStartUtc(hour, t) == (t \div DayHours + 1) * DayHours + hour + 2

\* getNextBusinessDayStart.
NextStart(hour, t) == (t \div DayHours + 1) * DayHours + hour

Due(o, t) == o.pending # Unset /\ o.from <= t

\* getEffectiveHour: a request that was let in before the hour knows the pending one.
EffectiveHour(o, t) == IF Due(o, t) THEN o.pending ELSE o.hour

Promoted(o) == [hour |-> o.pending, pending |-> Unset, from |-> 0]

\* A request comes, perhaps one that changes the hour (one at a time), and reads the owner.
Read(v, change) ==
  /\ visit[v].stage = "idle"
  /\ change # Unset => \A x \in Visits : visit[x].change = Unset
  /\ visit' = [visit EXCEPT ![v] = [stage |-> "read", actor |-> owner, floor |-> reached,
                                    change |-> change]]
  /\ UNCHANGED <<now, owner, reached>>

\* Mutant: whatever is pending now counts as what was due.
StillPendingAny(o) == owner.pending # Unset

\* What was due is still what is pending.
StillPending(o) == owner.pending = o.pending /\ owner.from = o.from

\* A change that is due is made the hour in force, unless another request has done so.
LetIn(v) ==
  LET o == visit[v].actor IN
  /\ visit[v].stage = "read"
  /\ \/ /\ Due(o, now)
        /\ owner' = IF StillPending(o) THEN Promoted(o) ELSE owner
        /\ visit' = [visit EXCEPT ![v].stage = "in", ![v].actor = Promoted(o)]
     \/ /\ ~Due(o, now)
        /\ visit' = [visit EXCEPT ![v].stage = "in"]
        /\ UNCHANGED owner
  /\ UNCHANGED <<now, reached>>

WorkDate(v) == BusinessDate(now, EffectiveHour(visit[v].actor, now))

\* The request does its work on a business date.
Work(v) ==
  /\ visit[v].stage = "in" /\ visit[v].change = Unset
  /\ reached' = IF WorkDate(v) > reached THEN WorkDate(v) ELSE reached
  /\ visit' = [visit EXCEPT ![v] = Idle]
  /\ UNCHANGED <<now, owner>>

\* updateMe: only the pending hour is written.
ChangeHour(v) ==
  /\ visit[v].stage = "in" /\ visit[v].change # Unset
  /\ owner' = [owner EXCEPT !.pending = visit[v].change,
                            !.from = NextStart(visit[v].change, now)]
  /\ visit' = [visit EXCEPT ![v] = Idle]
  /\ UNCHANGED <<now, reached>>

\* The next hour begins.
Tick ==
  /\ now < MaxTime /\ \A v \in Visits : visit[v].stage = "idle"
  /\ now' = now + 1
  /\ UNCHANGED <<owner, visit, reached>>

DayNext ==
  \/ Tick
  \/ \E v \in Visits : LetIn(v) \/ Work(v) \/ ChangeHour(v)
                       \/ \E change \in StartHours \cup {Unset} : Read(v, change)

DaySpec == DayInit /\ [][DayNext]_dayVars
----------------------------------------------------------------------------
Visit == [stage : {"idle", "read", "in"}, actor : Owner, floor : Nat,
          change : StartHours \cup {Unset}]

DayTypeOK ==
  /\ now \in Nat /\ owner \in Owner /\ visit \in [Visits -> Visit] /\ reached \in Nat

\* The business date never runs backwards for a request that begins after another one has
\* ended, whatever hours come into force in between: no closed day opens again
\* (auth.service.ts 508-516, auth.middleware.ts 133-150).
DatesForward == [][\A v \in Visits : Work(v) => WorkDate(v) >= visit[v].floor]_dayVars

\* A pending change goes away only by coming into force when it is due, whatever requests
\* promote it or make a newer one (auth.repository.ts 155-180).
ChangesKept ==
  [][owner.pending # Unset /\ owner'.pending = Unset =>
       owner.from <= now /\ owner'.hour = owner.pending]_dayVars
=============================================================================
