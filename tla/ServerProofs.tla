---------------------------- MODULE ServerProofs ----------------------------
(***************************************************************************)
(* Proofs about the parts of a server: Registration, BusinessDay and       *)
(* Debtors, for any number of requests, forms, accounts, hours and debts,  *)
(* and what a process keeps in memory (ApiProcess), for any number of      *)
(* requests, routes, sizes, slots and threads.  They share no state, and   *)
(* every theorem is about the specification of one of them.                *)
(***************************************************************************)
EXTENDS ApiProcess, Registration, BusinessDay, Debtors, Sums, SequenceTheorems, TLAPS

-----------------------------------------------------------------------------
(* The business date of an instant.                                        *)

\* An hour of the clock is a day and an hour of that day.
LEMMA Hours ==
  ASSUME NEW t \in Nat
  PROVE  /\ t \div DayHours \in Nat
         /\ t % DayHours \in Nat /\ t % DayHours < DayHours
<1>1. DayHours \in Nat /\ DayHours > 0
  BY HoursAssumption
<1>2. t \div DayHours \in Nat
  BY <1>1
<1>3. t % DayHours \in Nat /\ t % DayHours < DayHours
  BY <1>1
<1> QED
  BY <1>2, <1>3

\* The clock, put together from its day and its hour.
LEMMA Division ==
  ASSUME NEW t \in Nat
  PROVE  t = (t \div DayHours) * DayHours + (t % DayHours)
  BY HoursAssumption, Hours

\* The start of the next calendar day's business day lies ahead.
LEMMA Later ==
  ASSUME NEW t \in Nat, NEW h \in StartHours
  PROVE  (t \div DayHours + 1) * DayHours + h > t
<1>1. DayHours \in Nat /\ DayHours > 0 /\ h \in Nat
  BY HoursAssumption
<1>2. (t \div DayHours) * DayHours + DayHours = (t \div DayHours + 1) * DayHours
  BY <1>1, Hours
<1> QED
  BY <1>1, <1>2, Hours, Division

\* The next hour is the next one of this day, or the first of the next day.
LEMMA NextHour ==
  ASSUME NEW t \in Nat
  PROVE  \/ (t + 1) \div DayHours = t \div DayHours /\ (t + 1) % DayHours = (t % DayHours) + 1
         \/ (t + 1) \div DayHours = t \div DayHours + 1 /\ (t + 1) % DayHours = 0
  BY HoursAssumption, Hours, Division

\* The hour at which a business day that starts at hour h starts.
LEMMA StartsAtHour ==
  ASSUME NEW x \in Nat, NEW h \in StartHours
  PROVE  (x * DayHours + h) % DayHours = h
  BY HoursAssumption

-----------------------------------------------------------------------------
(* The business date of requests that follow one another.                  *)

\* What holds at every moment.  A request that is under way sees the same hour in force as
\* a new one would, and what is due has not been touched since the request has read it.
InStep(v) ==
  visit[v].stage # "idle" =>
    /\ visit[v].floor <= reached
    /\ EffectiveHour(visit[v].actor, now) = EffectiveHour(owner, now)
    /\ Due(owner, now) => visit[v].stage = "read" /\ visit[v].actor = owner

DayInv ==
  /\ DayTypeOK
  /\ reached <= BusinessDate(now, EffectiveHour(owner, now))
  /\ owner.pending # Unset => owner.from % DayHours = owner.pending
  /\ \A v \in Visits : InStep(v)

\* Promoting a pending hour changes neither types nor the hour in force, and leaves nothing due.
LEMMA HourTypes ==
  ASSUME NEW o \in Owner, NEW t \in Nat
  PROVE  /\ EffectiveHour(o, t) \in StartHours
         /\ Due(o, t) => Promoted(o) \in Owner /\ ~Due(Promoted(o), t)
         /\ Due(o, t) => EffectiveHour(Promoted(o), t) = EffectiveHour(o, t)
  BY HoursAssumption DEF Owner, EffectiveHour, Due, Promoted

\* A business date is the calendar's or earlier, and time does not take it back.
LEMMA DateTypes ==
  ASSUME NEW t \in Nat, NEW h \in StartHours
  PROVE  /\ BusinessDate(t, h) \in Int
         /\ BusinessDate(t, h) <= t \div DayHours
         /\ BusinessDate(t, h) <= BusinessDate(t + 1, h)
<1>1. h \in Int /\ t + 1 \in Nat
  BY HoursAssumption
<1> QED
  BY <1>1, Hours, NextHour DEF BusinessDate

\* The first owner has nothing pending and no request under way.
LEMMA DayStart == DayInit => DayInv
<1> SUFFICES ASSUME DayInit PROVE DayInv
  OBVIOUS
<1>1. owner \in Owner /\ owner.pending = Unset /\ owner.hour \in StartHours
  BY DEF DayInit, Owner
<1>2. NoOwner \in Owner
  BY <1>1 DEF NoOwner, Owner
<1>3. Idle \in Visit
  BY <1>2 DEF Idle, Visit
<1>4. DayTypeOK
  BY <1>1, <1>3, HoursAssumption DEF DayInit, DayTypeOK
<1>5. EffectiveHour(owner, now) = owner.hour
  BY <1>1 DEF EffectiveHour, Due
<1>6. now \div DayHours = 1
  BY HoursAssumption DEF DayInit
<1>7. reached <= BusinessDate(now, owner.hour)
  BY <1>1, <1>6 DEF DayInit, BusinessDate
<1>8. \A v \in Visits : InStep(v)
  BY DEF DayInit, InStep, Idle
<1> QED
  BY <1>1, <1>4, <1>5, <1>7, <1>8 DEF DayInv

\* A tick, a setting or a step of a request keeps the days in order.
LEMMA DayStep == DayInv /\ [DayNext]_dayVars => DayInv'
<1> SUFFICES ASSUME DayInv, [DayNext]_dayVars PROVE DayInv'
  OBVIOUS
<1> USE DEF DayInv
<1>a. /\ now \in Nat /\ owner \in Owner /\ visit \in [Visits -> Visit] /\ reached \in Nat
      /\ \A v \in Visits : visit[v].actor \in Owner /\ visit[v].floor \in Nat
  BY DEF DayTypeOK, Visit
<1>1. CASE Tick
  <2>1. now + 1 \in Nat /\ now' = now + 1 /\ UNCHANGED <<owner, visit, reached>>
    BY <1>1, <1>a DEF Tick
  <2>2. EffectiveHour(owner, now) \in StartHours /\ EffectiveHour(owner, now + 1) \in StartHours
    BY <1>a, <2>1, HourTypes
  <2>3. reached <= BusinessDate(now + 1, EffectiveHour(owner, now + 1))
    <3>1. CASE Due(owner, now + 1) /\ ~Due(owner, now)
      <4>1. owner.from = now + 1 /\ owner.pending # Unset /\ owner.pending \in StartHours
        BY <1>a, <3>1 DEF Due, Owner
      <4>2. (now + 1) % DayHours = owner.pending /\ EffectiveHour(owner, now + 1) = owner.pending
        BY <4>1, <3>1 DEF EffectiveHour
      <4>3. BusinessDate(now + 1, owner.pending) = (now + 1) \div DayHours
        BY <1>a, <2>1, <4>1, <4>2, Hours, HoursAssumption DEF BusinessDate
      <4>4. (now + 1) \div DayHours >= now \div DayHours
        BY <1>a, <2>1, Hours, NextHour
      <4>5. /\ BusinessDate(now, EffectiveHour(owner, now)) <= now \div DayHours
            /\ BusinessDate(now, EffectiveHour(owner, now)) \in Int
        BY <1>a, <2>2, DateTypes
      <4> QED
        BY <1>a, <2>1, <4>2, <4>3, <4>4, <4>5, Hours
    <3>2. CASE ~(Due(owner, now + 1) /\ ~Due(owner, now))
      <4>1. EffectiveHour(owner, now + 1) = EffectiveHour(owner, now)
        BY <1>a, <3>2 DEF EffectiveHour, Due, Owner
      <4> QED
        BY <1>a, <2>1, <2>2, <4>1, DateTypes
    <3> QED
      BY <3>1, <3>2
  <2>4. \A v \in Visits : InStep(v)'
    BY <1>1 DEF Tick, InStep
  <2> QED
    BY <1>a, <2>1, <2>3, <2>4 DEF DayTypeOK
<1>2. ASSUME NEW v \in Visits, NEW change \in StartHours \cup {Unset}, Read(v, change)
      PROVE  DayInv'
  <2>1. /\ UNCHANGED <<now, owner, reached>>
        /\ visit' = [visit EXCEPT ![v] = [stage |-> "read", actor |-> owner, floor |-> reached,
                                          change |-> change]]
    BY <1>2 DEF Read
  <2>2. visit' \in [Visits -> Visit]
    BY <1>a, <2>1 DEF Visit
  <2>3. ASSUME NEW x \in Visits PROVE InStep(x)'
    <3>1. x # v => visit'[x] = visit[x]
      BY <2>1, <1>a
    <3>2. visit'[v] = [stage |-> "read", actor |-> owner, floor |-> reached, change |-> change]
      BY <2>1, <1>a
    <3> QED
      BY <1>a, <2>1, <3>1, <3>2 DEF InStep, Due, EffectiveHour
  <2> QED
    BY <1>a, <2>1, <2>2, <2>3 DEF DayTypeOK
<1>3. ASSUME NEW v \in Visits, LetIn(v) PROVE DayInv'
  <2> DEFINE o == visit[v].actor
  <2>0. visit[v].stage = "read" /\ UNCHANGED <<now, reached>> /\ o \in Owner
    BY <1>3, <1>a DEF LetIn
  <2>1. EffectiveHour(o, now) = EffectiveHour(owner, now) /\ (Due(owner, now) => o = owner)
    BY <2>0 DEF InStep
  <2>2. CASE Due(o, now)
    <3>1. /\ owner' = IF StillPending(o) THEN Promoted(o) ELSE owner
          /\ visit' = [visit EXCEPT ![v].stage = "in", ![v].actor = Promoted(o)]
      BY <1>3, <2>2 DEF LetIn
    <3>2. /\ Promoted(o) \in Owner /\ ~Due(Promoted(o), now)
          /\ EffectiveHour(Promoted(o), now) = EffectiveHour(o, now)
      BY <1>a, <2>0, <2>2, HourTypes
    <3>3. owner' \in Owner /\ ~Due(owner', now)
          /\ EffectiveHour(owner', now) = EffectiveHour(owner, now)
          /\ (owner'.pending # Unset => owner' = owner)
      BY <1>a, <2>1, <2>2, <3>1, <3>2 DEF StillPending, Promoted
    <3>4. visit' \in [Visits -> Visit]
      BY <1>a, <3>1, <3>2 DEF Visit
    <3>5. ASSUME NEW x \in Visits PROVE InStep(x)'
      <4>1. x # v => visit'[x] = visit[x]
        BY <3>1, <1>a
      <4>2. visit'[v].actor = Promoted(o) /\ visit'[v].floor = visit[v].floor
        BY <3>1, <1>a DEF Visit
      <4>3. CASE x = v
        BY <4>2, <4>3, <2>0, <2>1, <3>2, <3>3 DEF InStep
      <4>4. CASE x # v
        BY <4>1, <4>4, <2>0, <2>1, <3>3 DEF InStep
      <4> QED
        BY <4>3, <4>4
    <3> QED
      BY <1>a, <2>0, <3>3, <3>4, <3>5 DEF DayTypeOK
  <2>3. CASE ~Due(o, now)
    <3>1. UNCHANGED owner /\ visit' = [visit EXCEPT ![v].stage = "in"] /\ ~Due(owner, now)
      BY <1>3, <2>1, <2>3 DEF LetIn
    <3>2. visit' \in [Visits -> Visit]
      BY <1>a, <3>1 DEF Visit
    <3>3. ASSUME NEW x \in Visits PROVE InStep(x)'
      <4>1. x # v => visit'[x] = visit[x]
        BY <3>1, <1>a
      <4>2. visit'[v].actor = visit[v].actor /\ visit'[v].floor = visit[v].floor
        BY <3>1, <1>a DEF Visit
      <4>3. CASE x = v
        BY <4>2, <4>3, <2>0, <3>1 DEF InStep
      <4>4. CASE x # v
        BY <4>1, <4>4, <2>0, <3>1 DEF InStep
      <4> QED
        BY <4>3, <4>4
    <3> QED
      BY <1>a, <2>0, <3>1, <3>2, <3>3 DEF DayTypeOK
  <2> QED
    BY <2>2, <2>3
<1>4. ASSUME NEW v \in Visits, Work(v) PROVE DayInv'
  <2>1. /\ UNCHANGED <<now, owner>> /\ visit' = [visit EXCEPT ![v] = Idle]
        /\ visit[v].stage = "in"
        /\ reached' = IF WorkDate(v) > reached THEN WorkDate(v) ELSE reached
    BY <1>4 DEF Work
  <2>2. WorkDate(v) = BusinessDate(now, EffectiveHour(owner, now))
    BY <2>1 DEF InStep, WorkDate
  <2>3. WorkDate(v) \in Int /\ reached' \in Nat /\ reached <= reached' /\ reached' <= WorkDate(v)
    <3>1. WorkDate(v) \in Int
      BY <1>a, <2>2, HourTypes, DateTypes
    <3>2. reached <= WorkDate(v)
      BY <2>2
    <3> QED
      BY <1>a, <2>1, <3>1, <3>2
  <2>4. Idle \in Visit
    <3>1. NoOwner \in Owner
      BY <1>a DEF NoOwner, Owner
    <3> QED
      BY <3>1 DEF Idle, Visit
  <2>5. visit' \in [Visits -> Visit]
    BY <1>a, <2>1, <2>4
  <2>6. ASSUME NEW x \in Visits PROVE InStep(x)'
    <3>1. (x # v => visit'[x] = visit[x]) /\ visit'[v] = Idle
      BY <2>1, <1>a
    <3> QED
      BY <1>a, <2>1, <2>3, <3>1 DEF InStep, Idle
  <2> QED
    BY <1>a, <2>1, <2>2, <2>3, <2>5, <2>6 DEF DayTypeOK
<1>5. ASSUME NEW v \in Visits, ChangeHour(v) PROVE DayInv'
  <2> DEFINE h == visit[v].change
  <2>1. /\ UNCHANGED <<now, reached>> /\ visit' = [visit EXCEPT ![v] = Idle]
        /\ visit[v].stage = "in" /\ h \in StartHours /\ h # Unset
        /\ owner' = [owner EXCEPT !.pending = h, !.from = NextStart(h, now)]
    BY <1>5, <1>a DEF ChangeHour, Visit
  <2>2. NextStart(h, now) \in Nat /\ NextStart(h, now) > now /\ NextStart(h, now) % DayHours = h
    <3>1. now \div DayHours + 1 \in Nat /\ h \in Nat /\ DayHours \in Nat
      BY <1>a, <2>1, Hours, HoursAssumption
    <3> HIDE DEF h
    <3>2. (now \div DayHours + 1) * DayHours \in Nat
      BY <3>1
    <3>3. (now \div DayHours + 1) * DayHours + h > now
      BY <1>a, <2>1, Later
    <3>4. ((now \div DayHours + 1) * DayHours + h) % DayHours = h
      BY <2>1, <3>1, StartsAtHour
    <3> QED
      BY <3>1, <3>2, <3>3, <3>4 DEF NextStart
  <2>3. ~Due(owner, now)
    BY <2>1 DEF InStep
  <2>4. /\ owner' \in Owner /\ owner'.pending = h /\ owner'.hour = owner.hour
        /\ owner'.from = NextStart(h, now)
    BY <1>a, <2>1, <2>2 DEF Owner
  <2>5. ~Due(owner', now) /\ EffectiveHour(owner', now) = EffectiveHour(owner, now)
    BY <1>a, <2>2, <2>3, <2>4 DEF Due, EffectiveHour
  <2>6. Idle \in Visit
    <3>1. NoOwner \in Owner
      BY <1>a DEF NoOwner, Owner
    <3> QED
      BY <3>1 DEF Idle, Visit
  <2>7. visit' \in [Visits -> Visit]
    BY <1>a, <2>1, <2>6
  <2>8. ASSUME NEW x \in Visits PROVE InStep(x)'
    <3>1. (x # v => visit'[x] = visit[x]) /\ visit'[v] = Idle
      BY <2>1, <1>a
    <3> QED
      BY <2>1, <2>3, <2>5, <3>1 DEF InStep, Idle
  <2> QED
    BY <1>a, <2>1, <2>2, <2>4, <2>5, <2>7, <2>8 DEF DayTypeOK
<1>6. CASE UNCHANGED dayVars
  BY <1>6 DEF dayVars, DayTypeOK, InStep
<1> QED
  BY <1>1, <1>2, <1>3, <1>4, <1>5, <1>6 DEF DayNext

\* The types of the owner, of the requests and of the clock (type correctness of BusinessDay).
THEOREM DaysTyped == DaySpec => []DayTypeOK
<1>1. DayInv => DayTypeOK
  BY DEF DayInv
<1> QED
  BY <1>1, DayStart, DayStep, PTL DEF DaySpec

\* A request that begins after another one has ended works with the same business date or a
\* later one, whatever hours come into force in between and whoever promotes them.
THEOREM DatesGoForward == DaySpec => DatesForward
<1>1. DayInv /\ [DayNext]_dayVars =>
        [\A v \in Visits : Work(v) => WorkDate(v) >= visit[v].floor]_dayVars
  <2> SUFFICES ASSUME DayInv, NEW v \in Visits, Work(v)
               PROVE  WorkDate(v) >= visit[v].floor
    OBVIOUS
  <2>1. /\ now \in Nat /\ owner \in Owner /\ reached \in Nat /\ visit[v].floor \in Nat
    BY DEF DayInv, DayTypeOK, Visit
  <2>2. visit[v].floor <= reached /\ WorkDate(v) = BusinessDate(now, EffectiveHour(owner, now))
    BY DEF DayInv, InStep, Work, WorkDate
  <2>3. WorkDate(v) \in Int /\ reached <= WorkDate(v)
    BY <2>1, <2>2, HourTypes, DateTypes DEF DayInv
  <2> QED
    BY <2>1, <2>2, <2>3
<1> QED
  BY <1>1, DayStart, DayStep, PTL DEF DaySpec, DatesForward

\* A change of the hour that waits is lost by no promotion: it goes away only by coming into
\* force, when it is due.
THEOREM ChangesComeIntoForce == DaySpec => ChangesKept
<1>1. DayInv /\ [DayNext]_dayVars =>
        [owner.pending # Unset /\ owner'.pending = Unset =>
           owner.from <= now /\ owner'.hour = owner.pending]_dayVars
  <2> SUFFICES ASSUME DayInv, DayNext, owner.pending # Unset, owner'.pending = Unset
               PROVE  owner.from <= now /\ owner'.hour = owner.pending
    OBVIOUS
  <2>1. ASSUME NEW v \in Visits, LetIn(v)
        PROVE  owner.from <= now /\ owner'.hour = owner.pending
    BY <2>1 DEF LetIn, StillPending, Promoted, Due
  <2>2. ASSUME NEW v \in Visits, ChangeHour(v) PROVE FALSE
    <3>1. owner \in Owner
      BY DEF DayInv, DayTypeOK
    <3>2. owner'.pending = visit[v].change
      BY <2>2, <3>1 DEF ChangeHour, Owner
    <3> QED
      BY <2>2, <3>2 DEF ChangeHour
  <2> QED
    BY <2>1, <2>2 DEF DayNext, Tick, Read, Work
<1> QED
  BY <1>1, DayStart, DayStep, PTL DEF DaySpec, ChangesKept

-----------------------------------------------------------------------------
(* A deletion.                                                             *)

\* What an account under deletion still holds of old is still to be emptied.
DeletionInv ==
  \A a \in Accounts, c \in Collections : rows[a][c] = "old" =>
    account[a].state # "deleted" /\ (account[a].state = "removing" => c \in account[a].todo)

-----------------------------------------------------------------------------
(* Registrations.                                                          *)

Trying(r)     == signup[r].stage \in {"verified", "open", "phone", "both"}
InProgress(r) == signup[r].stage \in {"open", "phone", "both"}
Made(r)       == signup[r].stage = "made"

\* The fences a registration has taken.
Holds(r, k) ==
  \/ signup[r].stage \in {"phone", "both"} /\ k = signup[r].phone
  \/ signup[r].stage = "both" /\ k = signup[r].telegram

\* What was verified is what the proof says for as long as it is open.
Verified(r) ==
  /\ Trying(r) \/ Made(r) =>
       /\ signup[r].form \in Forms /\ signup[r].phone \in Phones
       /\ signup[r].telegram \in Telegrams /\ proof[signup[r].form].state # "none"
  /\ Trying(r) /\ proof[signup[r].form].state = "open" =>
       /\ proof[signup[r].form].phone = signup[r].phone
       /\ proof[signup[r].form].telegram = signup[r].telegram

\* A transaction sees no fence newer than the fence is; one it holds is as it has seen it.
SeesFences(r) ==
  \A k \in Fences :
    /\ InProgress(r) => signup[r].seen[k] <= fence[k].version
    /\ Holds(r, k) => fence[k].holder = r /\ fence[k].version = signup[r].seen[k]
    /\ fence[k].holder = r => Holds(r, k)

\* Nobody has registered the phone since the transaction began, unless its fence has moved:
\* a registered account that has it now got it by a change.
StillFree(r) ==
  InProgress(r) /\ signup[r].free /\ fence[signup[r].phone].version = signup[r].seen[signup[r].phone]
    => \A q \in Signups \cap Live : account[q].moved \/ account[q].phone # signup[r].phone

\* An account made is of the phone, until it is changed, and of the user of its proof, which
\* nobody else can use.
MadeOf(r) ==
  /\ ~Made(r) => account[r].state = "none"
  /\ Made(r) => /\ proof[signup[r].form].state = "consumed"
                /\ account[r].moved \/ account[r].phone = signup[r].phone
                /\ account[r].telegram = signup[r].telegram
                /\ proof[signup[r].form].phone = signup[r].phone
                /\ proof[signup[r].form].telegram = signup[r].telegram

\* An account is of no Telegram user before it is made.
Blank == \A a \in Accounts : account[a].state = "none" => account[a].telegram = Absent

RegInv ==
  /\ RegistrationTypeOK /\ RegisteredOnce /\ Blank
  /\ \A r \in Signups : Verified(r) /\ SeesFences(r) /\ StillFree(r) /\ MadeOf(r)
\* The types of the registration's state, spelled out.
LEMMA Registered ==
  ASSUME RegInv
  PROVE  /\ proof \in [Forms -> Proof] /\ signup \in [Signups -> Signup]
         /\ fence \in [Fences -> [version : Nat, holder : Signups \cup {Absent}]]
         /\ account \in [Accounts -> Account]
         /\ rows \in [Accounts -> [Collections -> {"none", "old", "new"}]]
         /\ \A r \in Signups : r \in Accounts /\ r # Absent
         /\ Absent \notin Forms /\ Absent \notin Phones /\ Absent \notin Telegrams
  BY AccountsAssumption DEF RegInv, RegistrationTypeOK, Accounts

\* Nobody is registered at first.
LEMMA RegistrationStart == RegistrationInit => RegInv /\ DeletionInv
<1> SUFFICES ASSUME RegistrationInit PROVE RegInv /\ DeletionInv
  OBVIOUS
<1> USE DEF RegistrationInit
<1>1. NewSignup \in Signup /\ NewSignup.stage = "new"
  BY DEF NewSignup, Signup, Unseen
<1>2. proof \in [Forms -> Proof] /\ signup \in [Signups -> Signup]
  BY <1>1 DEF Proof
<1>3. fence \in [Fences -> [version : Nat, holder : Signups \cup {Absent}]]
  OBVIOUS
<1>4. /\ account \in [Accounts -> Account]
      /\ rows \in [Accounts -> [Collections -> {"none", "old", "new"}]]
  BY DEF Account
<1>5. RegistrationTypeOK
  BY <1>2, <1>3, <1>4 DEF RegistrationTypeOK
<1>6. /\ \A r \in Signups : signup[r].stage = "new"
      /\ \A k \in Fences : fence[k].holder = Absent
      /\ \A a \in Accounts : account[a].state = "none"
      /\ \A a \in Accounts, c \in Collections : rows[a][c] = "new"
  BY <1>1
<1>7. RegisteredOnce /\ Blank
  BY <1>6 DEF RegisteredOnce, Live, Blank
<1>8. ASSUME NEW r \in Signups PROVE Verified(r) /\ SeesFences(r) /\ StillFree(r) /\ MadeOf(r)
  BY <1>6, AccountsAssumption
     DEF Verified, SeesFences, StillFree, MadeOf, Trying, InProgress, Made, Holds, Accounts
<1>9. DeletionInv
  BY <1>6 DEF DeletionInv
<1> QED
  BY <1>5, <1>7, <1>8, <1>9 DEF RegInv

\* What a change of the proofs alone must respect.
LEMMA ProofsChange ==
  ASSUME RegInv, UNCHANGED <<public, signup, fence, account, rows>>,
         proof' \in [Forms -> Proof],
         NEW f \in Forms, \A x \in Forms \ {f} : proof'[x] = proof[x],
         proof[f].state # "consumed", proof[f].state = "none" \/ proof'[f].state # "none",
         proof[f].state # "none" /\ proof'[f].state = "open" =>
           /\ proof[f].state = "open"
           /\ proof[f].phone # Absent => proof'[f].phone = proof[f].phone
           /\ proof[f].telegram # Absent => proof'[f].telegram = proof[f].telegram
  PROVE  RegInv'
<1>1. RegistrationTypeOK'
  BY DEF RegInv, RegistrationTypeOK
<1>2. ASSUME NEW r \in Signups PROVE Verified(r)' /\ SeesFences(r)' /\ StillFree(r)' /\ MadeOf(r)'
  <2>1. SeesFences(r)' /\ StillFree(r)'
    BY DEF RegInv, SeesFences, StillFree, InProgress, Holds, Live
  <2>2. Verified(r) /\ MadeOf(r) /\ Absent \notin Phones /\ Absent \notin Telegrams
    BY Registered DEF RegInv
  <2>3. (Trying(r)' <=> Trying(r)) /\ (Made(r)' <=> Made(r))
    BY DEF Trying, Made
  <2>4. Trying(r) \/ Made(r) => signup[r].form \in Forms /\ proof'[signup[r].form].state # "none"
    BY <2>2 DEF Verified
  <2>5. Trying(r) /\ proof'[signup[r].form].state = "open" =>
          /\ proof'[signup[r].form].phone = signup[r].phone
          /\ proof'[signup[r].form].telegram = signup[r].telegram
    BY <2>2 DEF Verified
  <2>6. Verified(r)'
    BY <2>2, <2>3, <2>4, <2>5 DEF Verified
  <2>7. Made(r) => proof'[signup[r].form] = proof[signup[r].form]
    BY <2>2 DEF Verified, MadeOf
  <2>8. MadeOf(r)'
    BY <2>2, <2>3, <2>7 DEF MadeOf
  <2> QED
    BY <2>1, <2>6, <2>8
<1>3. ASSUME NEW r \in Signups, Made(r) PROVE proof'[signup[r].form] = proof[signup[r].form]
  BY <1>3 DEF RegInv, Verified, MadeOf
<1>4. RegisteredOnce' /\ Blank'
  BY <1>3 DEF RegInv, RegisteredOnce, Made, Live, Blank
<1> QED
  BY <1>1, <1>2, <1>4 DEF RegInv
\* What a change of one account must respect, above all when it has registered.
LEMMA AccountChange ==
  ASSUME RegInv, UNCHANGED <<public, proof, signup, fence>>,
         account' \in [Accounts -> Account],
         rows' \in [Accounts -> [Collections -> {"none", "old", "new"}]],
         NEW x \in Accounts, \A y \in Accounts \ {x} : account'[y] = account[y],
         account'[x].state = "none" => account[x].state = "none",
         x \in Signups /\ account[x].state = "none" => account'[x].state = "none",
         x \in Live' => x \in Live \/ account[x].state = "none",
         \/ account'[x].telegram = account[x].telegram
         \/ x \in Live \ Signups /\ WithTelegram(account'[x].telegram) = {},
         \/ x \notin Signups
         \/ account'[x].moved
         \/ account'[x].moved = account[x].moved /\ account'[x].phone = account[x].phone
  PROVE  RegInv'
<1>1. RegistrationTypeOK'
  BY DEF RegInv, RegistrationTypeOK
<1>2. \A r \in Signups : /\ r \in Live' => r \in Live
                         /\ account'[r].telegram = account[r].telegram
                         /\ \/ account'[r].moved
                            \/ /\ account'[r].moved = account[r].moved
                               /\ account'[r].phone = account[r].phone
  <2> SUFFICES ASSUME NEW r \in Signups
               PROVE  /\ r \in Live' => r \in Live
                      /\ account'[r].telegram = account[r].telegram
                      /\ \/ account'[r].moved
                         \/ /\ account'[r].moved = account[r].moved
                            /\ account'[r].phone = account[r].phone
    OBVIOUS
  <2>1. r \in Accounts
    BY Registered
  <2>2. CASE r # x
    <3>1. account'[r] = account[r]
      BY <2>1, <2>2
    <3> QED
      BY <3>1 DEF Live
  <2>3. CASE r = x
    <3>1. x \in Live' => account'[x].state # "none"
      BY DEF Live
    <3> QED
      BY <2>3, <3>1
  <2> QED
    BY <2>2, <2>3
<1>3. Blank'
  BY DEF RegInv, Blank, Live
<1>4. ASSUME NEW a \in Live', NEW b \in Live', a # b, account'[a].telegram # Absent
      PROVE  account'[a].telegram # account'[b].telegram
  <2>1. /\ a \in Accounts /\ b \in Accounts /\ (a # x => a \in Live) /\ (b # x => b \in Live)
        /\ a # x => account'[a] = account[a]
        /\ b # x => account'[b] = account[b]
    BY <1>4 DEF Live
  <2>2. CASE account'[x].telegram = account[x].telegram
    <3>1. account'[a].telegram = account[a].telegram /\ account'[b].telegram = account[b].telegram
      BY <2>1, <2>2
    <3>2. a \in Live /\ (b \in Live \/ account[b].telegram = Absent)
      BY <1>4, <2>1, <3>1 DEF RegInv, Blank
    <3> QED
      BY <1>4, <3>1, <3>2 DEF RegInv, RegisteredOnce
  <2>3. CASE x \in Live /\ WithTelegram(account'[x].telegram) = {}
    <3>1. \A y \in Live : account[y].telegram # account'[x].telegram
      BY <2>3 DEF WithTelegram
    <3>2. CASE a # x /\ b # x
      BY <1>4, <2>1, <3>2 DEF RegInv, RegisteredOnce
    <3>3. CASE a = x \/ b = x
      BY <1>4, <2>1, <3>1, <3>3
    <3> QED
      BY <3>2, <3>3
  <2> QED
    BY <2>2, <2>3
<1>5. RegisteredOnce'
  <2>1. \A r, q \in Signups \cap Live' : r # q /\ account'[r].phone = account'[q].phone =>
          account'[r].moved \/ account'[q].moved
    BY <1>2 DEF RegInv, RegisteredOnce
  <2>2. \A r \in Signups : signup[r].stage = "made" =>
          /\ account'[r].moved \/ account'[r].phone = proof[signup[r].form].phone
          /\ account'[r].telegram = proof[signup[r].form].telegram
          /\ \A q \in Signups : signup[q].stage = "made" /\ signup[q].form = signup[r].form => q = r
    BY <1>2 DEF RegInv, RegisteredOnce
  <2> QED
    BY <1>4, <2>1, <2>2 DEF RegisteredOnce
<1>6. ASSUME NEW r \in Signups PROVE Verified(r)' /\ SeesFences(r)' /\ StillFree(r)' /\ MadeOf(r)'
  <2>1. Verified(r)' /\ SeesFences(r)'
    BY DEF RegInv, Verified, SeesFences, Trying, Made, InProgress, Holds
  <2>2. StillFree(r)'
    BY <1>2 DEF RegInv, StillFree, InProgress
  <2>3. ~Made(r) => account'[r].state = "none"
    BY Registered DEF RegInv, MadeOf
  <2>4. MadeOf(r)'
    BY <1>2, <2>3 DEF RegInv, MadeOf, Made
  <2> QED
    BY <2>1, <2>2, <2>4
<1> QED
  BY <1>1, <1>3, <1>5, <1>6 DEF RegInv

\* What a change of one request, and of the fences it holds, must respect.
LEMMA SignupChange ==
  ASSUME RegInv, NEW r \in Signups, UNCHANGED <<public, proof, account, rows>>,
         signup' \in [Signups -> Signup], \A q \in Signups \ {r} : signup'[q] = signup[q],
         fence' \in [Fences -> [version : Nat, holder : Signups \cup {Absent}]],
         \A k \in Fences : /\ fence'[k].version = fence[k].version
                           /\ \A q \in Signups \ {r} : fence'[k].holder = q <=> fence[k].holder = q,
         ~Made(r), ~Made(r)', Verified(r)', SeesFences(r)', StillFree(r)'
  PROVE  RegInv'
<1>1. RegistrationTypeOK'
  BY DEF RegInv, RegistrationTypeOK
<1>2. Live' = Live
  BY DEF Live
<1>3. \A q \in Signups : signup'[q].stage = "made" =>
        signup'[q].form = signup[q].form /\ signup[q].stage = "made"
  BY DEF Made
<1>4. RegisteredOnce' /\ Blank'
  BY <1>2, <1>3 DEF RegInv, RegisteredOnce, Blank
<1>5. ASSUME NEW q \in Signups PROVE Verified(q)' /\ SeesFences(q)' /\ StillFree(q)' /\ MadeOf(q)'
  <2>1. CASE q = r
    <3>1. MadeOf(r)'
      BY DEF RegInv, MadeOf
    <3> QED
      BY <2>1, <3>1
  <2>2. CASE q # r
    <3>1. signup'[q] = signup[q] /\ Verified(q) /\ SeesFences(q) /\ StillFree(q) /\ MadeOf(q)
      BY <2>2 DEF RegInv
    <3>2. Verified(q)'
      BY <3>1 DEF Verified, Trying, Made
    <3>3. SeesFences(q)'
      BY <2>2, <3>1 DEF SeesFences, InProgress, Holds
    <3>4. InProgress(q) => signup[q].phone \in Fences
      BY <3>1 DEF Verified, Trying, InProgress, Fences
    <3>5. StillFree(q)'
      BY <1>2, <3>1, <3>4 DEF StillFree, InProgress
    <3>6. MadeOf(q)'
      BY <3>1 DEF MadeOf, Made
    <3> QED
      BY <3>2, <3>3, <3>5, <3>6
  <2> QED
    BY <2>1, <2>2
<1> QED
  BY <1>1, <1>4, <1>5 DEF RegInv
\* What happens to a proof before it is used: asked for, confirmed by the bot, expired.
LEMMA ProofSteps ==
  ASSUME RegInv
  PROVE  /\ \A f \in Forms : OpenForm(f) \/ ExpireProof(f) => RegInv'
         /\ \A t \in Telegrams : /\ \A f \in Forms : StartBot(f, t) => RegInv'
                                /\ \A p \in Phones : Confirm(t, p) => RegInv'
<1> USE Registered
<1>1. ASSUME NEW f \in Forms, OpenForm(f) PROVE RegInv'
  <2>1. /\ UNCHANGED <<public, signup, fence, account, rows>> /\ proof[f].state = "none"
        /\ proof' = [proof EXCEPT ![f].state = "open"]
    BY <1>1 DEF OpenForm
  <2>2. proof' \in [Forms -> Proof] /\ \A x \in Forms \ {f} : proof'[x] = proof[x]
    BY <2>1 DEF Proof
  <2> QED
    BY <2>1, <2>2, ProofsChange
<1>2. ASSUME NEW f \in Forms, ExpireProof(f) PROVE RegInv'
  <2>1. /\ UNCHANGED <<public, signup, fence, account, rows>> /\ proof[f].state = "open"
        /\ proof' = [proof EXCEPT ![f] = [state |-> "expired", telegram |-> Absent, phone |-> Absent]]
    BY <1>2 DEF ExpireProof
  <2>2. /\ proof' \in [Forms -> Proof] /\ \A x \in Forms \ {f} : proof'[x] = proof[x]
        /\ proof'[f].state = "expired"
    BY <2>1 DEF Proof
  <2> QED
    BY <2>1, <2>2, ProofsChange
<1>3. ASSUME NEW f \in Forms, NEW t \in Telegrams, StartBot(f, t) PROVE RegInv'
  <2>1. /\ UNCHANGED <<public, signup, fence, account, rows>> /\ proof[f].state = "open"
        /\ proof[f].telegram = Absent /\ proof' = [proof EXCEPT ![f].telegram = t]
    BY <1>3 DEF StartBot
  <2>2. /\ proof' \in [Forms -> Proof] /\ \A x \in Forms \ {f} : proof'[x] = proof[x]
        /\ proof'[f].state = "open" /\ proof'[f].phone = proof[f].phone
    BY <2>1 DEF Proof
  <2> QED
    BY <2>1, <2>2, ProofsChange
<1>4. ASSUME NEW t \in Telegrams, NEW p \in Phones, Confirm(t, p) PROVE RegInv'
  <2>1. PICK x \in Forms : /\ proof[x].state = "open" /\ proof[x].phone = Absent
                           /\ proof' = [proof EXCEPT ![x].phone = p]
    BY <1>4 DEF Confirm
  <2>2. UNCHANGED <<public, signup, fence, account, rows>>
    BY <1>4 DEF Confirm
  <2>3. /\ proof' \in [Forms -> Proof] /\ \A y \in Forms \ {x} : proof'[y] = proof[y]
        /\ proof'[x].state = "open" /\ proof'[x].telegram = proof[x].telegram
    BY <2>1 DEF Proof
  <2> QED
    BY <2>1, <2>2, <2>3, ProofsChange
<1> QED
  BY <1>1, <1>2, <1>3, <1>4

\* What happens to accounts other than by signing up.
LEMMA AccountSteps ==
  ASSUME RegInv
  PROVE  /\ \A a \in Admins, p \in Phones : CreateAdmin(a, p) => RegInv'
         /\ \A a \in Accounts, p \in Phones \cup {Absent} : ChangePhone(a, p) => RegInv'
         /\ \A t \in Telegrams, p \in Phones : LinkTelegram(t, p) => RegInv'
         /\ \A a \in Accounts :
              /\ AskDelete(a) \/ DeleteUser(a) => RegInv'
              /\ \A c \in Collections : Write(a, c) \/ Empty(a, c) \/ EmptyFails(a, c) => RegInv'
<1> USE Registered
<1>1. ASSUME NEW a \in Admins, NEW p \in Phones, CreateAdmin(a, p) PROVE RegInv'
  <2>0. a \in Accounts /\ a \notin Signups
    BY AccountsAssumption DEF Accounts
  <2>1. /\ UNCHANGED <<public, proof, signup, fence, rows>> /\ account[a].state = "none"
        /\ account' = [account EXCEPT ![a].state = "live", ![a].phone = p]
    BY <1>1 DEF CreateAdmin
  <2>2. /\ account[a] \in Account /\ p \in Phones \cup {Absent}
        /\ account' = [account EXCEPT ![a] = [account[a] EXCEPT !.state = "live", !.phone = p]]
    BY <2>0, <2>1
  <2>3. [account[a] EXCEPT !.state = "live", !.phone = p] \in Account
    BY <2>2, Zenon DEF Account
  <2>4. account' \in [Accounts -> Account] /\ \A x \in Accounts \ {a} : account'[x] = account[x]
    BY <2>0, <2>2, <2>3
  <2>5. account'[a].state = "live" /\ account'[a].telegram = account[a].telegram
    BY <2>0, <2>2, <2>4, Zenon DEF Account
  <2> QED
    BY <2>0, <2>1, <2>4, <2>5, AccountChange
<1>2. ASSUME NEW t \in Telegrams, NEW p \in Phones, LinkTelegram(t, p) PROVE RegInv'
  <2>1. PICK x \in Live : /\ account[x].telegram = Absent /\ WithTelegram(t) = {}
                          /\ account' = [account EXCEPT ![x].telegram = t]
    BY <1>2 DEF LinkTelegram
  <2>2. UNCHANGED <<public, proof, signup, fence, rows>> /\ x \in Accounts
    BY <1>2 DEF LinkTelegram, Live
  <2>3. ASSUME x \in Signups PROVE FALSE
    <3>1. account[x].state # "none" /\ MadeOf(x) /\ Verified(x)
      BY <2>3 DEF RegInv, Live
    <3>2. Made(x) /\ account[x].telegram = signup[x].telegram /\ signup[x].telegram \in Telegrams
      BY <3>1 DEF MadeOf, Verified
    <3> QED
      BY <2>1, <3>2
  <2>a. account[x] \in Account /\ t \in Telegrams \cup {Absent}
    BY <2>2
  <2>b. [account[x] EXCEPT !.telegram = t] \in Account
    BY <2>a, Zenon DEF Account
  <2>4. account' \in [Accounts -> Account] /\ \A y \in Accounts \ {x} : account'[y] = account[y]
    BY <2>1, <2>2, <2>b
  <2>5. account'[x].telegram = t /\ account'[x].state = account[x].state
    BY <2>1, <2>2, <2>a, Zenon DEF Account
  <2> QED
    BY <2>1, <2>2, <2>3, <2>4, <2>5, AccountChange DEF Live
<1>3. ASSUME NEW a \in Accounts, AskDelete(a) PROVE RegInv'
  <2>1. /\ UNCHANGED <<public, proof, signup, fence>> /\ account[a].state = "live"
        /\ account' = [account EXCEPT ![a].state = "removing", ![a].todo = Collections]
        /\ rows' = [rows EXCEPT ![a] = [d \in Collections |-> IF @[d] = "none" THEN "none" ELSE "old"]]
    BY <1>3 DEF AskDelete
  <2>a. /\ account[a] \in Account
        /\ account' = [account EXCEPT ![a] = [account[a] EXCEPT !.state = "removing", !.todo = Collections]]
    BY <2>1
  <2>b. [account[a] EXCEPT !.state = "removing", !.todo = Collections] \in Account
    BY <2>a DEF Account
  <2>c. account' \in [Accounts -> Account] /\ \A x \in Accounts \ {a} : account'[x] = account[x]
    BY <2>a, <2>b
  <2>2. /\ account'[a].state = "removing" /\ account'[a].phone = account[a].phone
        /\ account'[a].telegram = account[a].telegram /\ account'[a].moved = account[a].moved
    BY <2>a DEF Account
  <2>3. rows' \in [Accounts -> [Collections -> {"none", "old", "new"}]]
    BY <2>1
  <2> QED
    BY <2>1, <2>2, <2>3, <2>c, AccountChange DEF Live
<1>4. ASSUME NEW a \in Accounts, DeleteUser(a) PROVE RegInv'
  <2>1. /\ UNCHANGED <<public, proof, signup, fence, rows>> /\ account[a].state = "removing"
        /\ account' = [account EXCEPT ![a].state = "deleted"]
    BY <1>4 DEF DeleteUser
  <2>2. /\ account' \in [Accounts -> Account] /\ \A x \in Accounts \ {a} : account'[x] = account[x]
        /\ account'[a].state = "deleted" /\ account'[a].phone = account[a].phone
        /\ account'[a].telegram = account[a].telegram /\ account'[a].moved = account[a].moved
    <3>1. account[a] \in Account
      OBVIOUS
    <3>2. [account[a] EXCEPT !.state = "deleted"] \in Account
      BY <3>1, Zenon DEF Account
    <3>3. account'[a] = [account[a] EXCEPT !.state = "deleted"]
      BY <2>1
    <3>4. /\ account' \in [Accounts -> Account]
          /\ \A x \in Accounts \ {a} : account'[x] = account[x]
      BY <2>1, <3>2
    <3> QED
      BY <3>1, <3>3, <3>4, Zenon DEF Account
  <2> QED
    BY <2>1, <2>2, AccountChange DEF Live
<1>5. ASSUME NEW a \in Accounts, NEW c \in Collections, Write(a, c) PROVE RegInv'
  <2>1. /\ UNCHANGED <<public, proof, signup, fence, account>>
        /\ rows' = [rows EXCEPT ![a][c] = "new"]
    BY <1>5 DEF Write
  <2>2. rows' \in [Accounts -> [Collections -> {"none", "old", "new"}]]
    <3>1. rows[a] \in [Collections -> {"none", "old", "new"}]
      OBVIOUS
    <3>2. [rows[a] EXCEPT ![c] = "new"] \in [Collections -> {"none", "old", "new"}]
      BY <3>1
    <3> QED BY <2>1, <3>2
  <2>3. Live' = Live
    BY <2>1 DEF Live
  <2> QED
    BY <2>1, <2>2, <2>3, AccountChange
<1>6. ASSUME NEW a \in Accounts, NEW c \in Collections, Empty(a, c) PROVE RegInv'
  <2> DEFINE todo == account[a].todo \ {c}
             e == [account[a] EXCEPT !.todo = todo]
  <2>0. account[a] \in Account /\ todo \in SUBSET Collections
    BY DEF Account
  <2>1. /\ UNCHANGED <<public, proof, signup, fence>>
        /\ account' = [account EXCEPT ![a] = e]
        /\ rows' = [rows EXCEPT ![a] = [rows[a] EXCEPT ![c] = "none"]]
    BY <1>6 DEF Empty
  <2> HIDE DEF todo
  <2>a. e \in Account
    BY <2>0, Zenon DEF Account
  <2>b. /\ e.state = account[a].state /\ e.phone = account[a].phone
        /\ e.telegram = account[a].telegram /\ e.moved = account[a].moved
    BY <2>0, Zenon DEF Account
  <2> HIDE DEF e
  <2>2. /\ account' \in [Accounts -> Account] /\ \A x \in Accounts \ {a} : account'[x] = account[x]
        /\ account'[a].state = account[a].state /\ account'[a].phone = account[a].phone
        /\ account'[a].telegram = account[a].telegram /\ account'[a].moved = account[a].moved
    BY <2>1, <2>a, <2>b
  <2>3. rows' \in [Accounts -> [Collections -> {"none", "old", "new"}]]
    <3>1. rows[a] \in [Collections -> {"none", "old", "new"}]
      OBVIOUS
    <3>2. [rows[a] EXCEPT ![c] = "none"] \in [Collections -> {"none", "old", "new"}]
      BY <3>1
    <3> QED BY <2>1, <3>2
  <2> QED
    BY <2>1, <2>2, <2>3, AccountChange DEF Live
<1>7. ASSUME NEW a \in Accounts, NEW c \in Collections, EmptyFails(a, c) PROVE RegInv'
  <2> DEFINE s == IF account[a].state = "removing" THEN "live" ELSE account[a].state
  <2>0. s \in {"none", "live", "deleted"} /\ account[a].todo \ {c} \in SUBSET Collections
    BY DEF Account
  <2>1. /\ UNCHANGED <<public, proof, signup, fence, rows>>
        /\ account' = [account EXCEPT ![a] = [account[a] EXCEPT !.todo = account[a].todo \ {c},
                                                              !.state = s]]
    BY <1>7 DEF EmptyFails
  <2>a. s = "none" <=> account[a].state = "none"
    OBVIOUS
  <2>b. s \in {"live", "removing"} => account[a].state \in {"live", "removing"}
    OBVIOUS
  <2> HIDE DEF s
  <2>c. account[a] \in Account
    OBVIOUS
  <2>d. [account[a] EXCEPT !.todo = account[a].todo \ {c}, !.state = s] \in Account
    BY <2>0, <2>c, Zenon DEF Account
  <2>e. account' \in [Accounts -> Account] /\ \A x \in Accounts \ {a} : account'[x] = account[x]
    BY <2>1, <2>d
  <2>2. /\ account'[a].state = s /\ account'[a].phone = account[a].phone
        /\ account'[a].telegram = account[a].telegram /\ account'[a].moved = account[a].moved
    BY <2>1, <2>c DEF Account
  <2> QED
    BY <2>1, <2>2, <2>a, <2>b, <2>e, AccountChange DEF Live
<1>8. ASSUME NEW a \in Accounts, NEW p \in Phones \cup {Absent}, ChangePhone(a, p) PROVE RegInv'
  <2> DEFINE e == [account[a] EXCEPT !.phone = p, !.moved = TRUE]
  <2>0. account[a] \in Account
    OBVIOUS
  <2>1. /\ UNCHANGED <<public, proof, signup, fence, rows>>
        /\ account' = [account EXCEPT ![a] = e] /\ a \in Live
    BY <1>8 DEF ChangePhone
  <2>2. e \in Account
    BY <2>0, Zenon DEF Account
  <2>3. e.state = account[a].state /\ e.telegram = account[a].telegram /\ e.moved
    BY <2>0, Zenon DEF Account
  <2> HIDE DEF e
  <2>4. /\ account' \in [Accounts -> Account] /\ \A x \in Accounts \ {a} : account'[x] = account[x]
        /\ account'[a] = e
    BY <2>1, <2>2
  <2> QED
    BY <2>1, <2>3, <2>4, AccountChange DEF Live
<1> QED
  BY <1>1, <1>2, <1>3, <1>4, <1>5, <1>6, <1>7, <1>8
\* A transaction that ends gives back its own fences and no others.
LEMMA Releasing ==
  ASSUME RegInv, NEW r \in Signups, fence' = Released(r)
  PROVE  /\ fence' \in [Fences -> [version : Nat, holder : Signups \cup {Absent}]]
         /\ \A k \in Fences : /\ fence'[k].version = fence[k].version
                              /\ \A q \in Signups \ {r} : fence'[k].holder = q <=> fence[k].holder = q
                              /\ fence'[k].holder # r
<1>1. ASSUME NEW k \in Fences
      PROVE  /\ fence'[k] \in [version : Nat, holder : Signups \cup {Absent}]
             /\ fence'[k].version = fence[k].version
             /\ fence'[k].holder = IF fence[k].holder = r THEN Absent ELSE fence[k].holder
  BY Registered DEF Released
<1>2. fence' \in [Fences -> [version : Nat, holder : Signups \cup {Absent}]]
  BY <1>1 DEF Released
<1>3. \A q \in Signups : q # Absent
  BY Registered
<1> QED
  BY <1>1, <1>2, <1>3

\* The steps of a signup before and beside its fences.
LEMMA SignupSteps ==
  ASSUME RegInv, NEW r \in Signups
  PROVE  /\ \A f \in Forms, p \in Phones : Verify(r, f, p) => RegInv'
         /\ OpenTransaction(r) \/ Refuse(r) => RegInv'
<1>0. /\ proof \in [Forms -> Proof] /\ signup \in [Signups -> Signup] /\ signup[r] \in Signup
      /\ fence \in [Fences -> [version : Nat, holder : Signups \cup {Absent}]]
      /\ SeesFences(r) /\ Verified(r) /\ r # Absent /\ Absent \notin Forms
  BY Registered DEF RegInv
<1>1. ASSUME NEW f \in Forms, NEW p \in Phones, Verify(r, f, p) PROVE RegInv'
  <2>1. /\ UNCHANGED <<public, proof, fence, account, rows>> /\ signup[r].stage = "new"
        /\ proof[f].state = "open" /\ proof[f].phone = p /\ proof[f].telegram # Absent
        /\ signup' = [signup EXCEPT ![r] = [signup[r] EXCEPT !.stage = "verified", !.form = f,
                        !.phone = p, !.telegram = proof[f].telegram]]
    BY <1>1 DEF Verify, Proven
  <2>2. proof[f].telegram \in Telegrams
    BY <1>0, <2>1 DEF Proof
  <2>3. [signup[r] EXCEPT !.stage = "verified", !.form = f, !.phone = p,
                          !.telegram = proof[f].telegram] \in Signup
    <3>1. f \in Forms \cup {Absent} /\ p \in Phones \cup {Absent}
          /\ proof[f].telegram \in Telegrams \cup {Absent}
      BY <2>2
    <3> QED
      BY <1>0, <3>1, Zenon DEF Signup
  <2>4. signup' \in [Signups -> Signup] /\ \A q \in Signups \ {r} : signup'[q] = signup[q]
    BY <1>0, <2>1, <2>3
  <2>5. /\ signup'[r].stage = "verified" /\ signup'[r].form = f /\ signup'[r].phone = p
        /\ signup'[r].telegram = proof[f].telegram
    BY <1>0, <2>1 DEF Signup
  <2>6. Verified(r)' /\ StillFree(r)' /\ ~Made(r) /\ ~Made(r)'
    BY <2>1, <2>2, <2>5 DEF Verified, StillFree, InProgress, Made
  <2>7. SeesFences(r)'
    BY <1>0, <2>1, <2>5 DEF SeesFences, InProgress, Holds
  <2> QED
    BY <1>0, <2>1, <2>4, <2>6, <2>7, SignupChange
<1>2. CASE OpenTransaction(r)
  <2> DEFINE seen == [k \in Fences |-> fence[k].version]
             free == WithPhone(signup[r].phone) = {} /\ WithTelegram(signup[r].telegram) = {}
  <2>1. /\ UNCHANGED <<public, proof, fence, account, rows>> /\ signup[r].stage = "verified"
        /\ signup' = [signup EXCEPT ![r] = [signup[r] EXCEPT !.stage = "open", !.seen = seen,
                                                             !.free = free]]
    BY <1>2 DEF OpenTransaction
  <2>2. seen \in [Fences -> Nat] /\ free \in BOOLEAN /\ \A k \in Fences : seen[k] = fence[k].version
    BY <1>0
  <2>a. free => \A q \in Signups \cap Live : account[q].phone # signup[r].phone
    BY DEF WithPhone
  <2> HIDE DEF seen, free
  <2>3. [signup[r] EXCEPT !.stage = "open", !.seen = seen, !.free = free] \in Signup
    BY <1>0, <2>2, Zenon DEF Signup
  <2>4. signup' \in [Signups -> Signup] /\ \A q \in Signups \ {r} : signup'[q] = signup[q]
    BY <1>0, <2>1, <2>3
  <2>5. /\ signup'[r].stage = "open" /\ signup'[r].form = signup[r].form
        /\ signup'[r].phone = signup[r].phone /\ signup'[r].telegram = signup[r].telegram
        /\ signup'[r].seen = seen /\ signup'[r].free = free
    BY <1>0, <2>1, Zenon DEF Signup
  <2>6. Verified(r)' /\ ~Made(r) /\ ~Made(r)'
    BY <1>0, <2>1, <2>5 DEF Verified, Trying, Made
  <2>7. SeesFences(r)'
    BY <1>0, <2>1, <2>2, <2>5 DEF SeesFences, InProgress, Holds
  <2>8. StillFree(r)'
    BY <2>1, <2>a, <2>5 DEF StillFree, Live
  <2> QED
    BY <1>0, <2>1, <2>4, <2>6, <2>7, <2>8, SignupChange
<1>3. CASE Refuse(r)
  <2> DEFINE new == [NewSignup EXCEPT !.stage = "refused"]
  <2>1. /\ UNCHANGED <<public, proof, account, rows>> /\ fence' = Released(r)
        /\ signup[r].stage # "made" /\ signup' = [signup EXCEPT ![r] = new]
    BY <1>3 DEF Refuse
  <2>2. new \in Signup /\ new.stage = "refused"
    BY DEF NewSignup, Signup, Unseen
  <2> HIDE DEF new
  <2>3. signup' \in [Signups -> Signup] /\ \A q \in Signups \ {r} : signup'[q] = signup[q]
    BY <1>0, <2>1, <2>2
  <2>4. signup'[r].stage = "refused"
    BY <1>0, <2>1, <2>2
  <2>5. Verified(r)' /\ StillFree(r)' /\ ~Made(r) /\ ~Made(r)'
    BY <2>1, <2>4 DEF Verified, StillFree, Trying, InProgress, Made
  <2>6. SeesFences(r)'
    BY <2>1, <2>4, Releasing DEF SeesFences, InProgress, Holds
  <2> QED
    BY <1>0, <2>1, <2>3, <2>5, <2>6, Releasing, SignupChange
<1> QED
  BY <1>1, <1>2, <1>3
\* Taking the next fence, with the reads that follow it.
LEMMA FenceSteps ==
  ASSUME RegInv, NEW r \in Signups, TakeFence(r)
  PROVE  RegInv'
<1>0. /\ signup \in [Signups -> Signup] /\ signup[r] \in Signup
      /\ fence \in [Fences -> [version : Nat, holder : Signups \cup {Absent}]]
      /\ SeesFences(r) /\ Verified(r) /\ StillFree(r) /\ \A q \in Signups : q # Absent
  BY Registered DEF RegInv
<1>1. UNCHANGED <<public, proof, account, rows>> /\ Live' = Live
  BY DEF TakeFence, Live
<1>2. PICK k \in Fences, held \in {"phone", "both"} :
        /\ Take(r, k, held)
        /\ \/ held = "phone" /\ signup[r].stage = "open" /\ k = signup[r].phone
           \/ held = "both" /\ signup[r].stage = "phone" /\ k = signup[r].telegram
  <2>1. CASE signup[r].stage = "open" /\ Take(r, signup[r].phone, "phone")
    BY <1>0, <2>1 DEF Verified, Trying, Fences
  <2>2. CASE signup[r].stage = "phone" /\ Take(r, signup[r].telegram, "both")
    BY <1>0, <2>2 DEF Verified, Trying, Fences
  <2> QED
    BY <2>1, <2>2 DEF TakeFence
<1>3. ~Made(r) /\ Trying(r) /\ InProgress(r)
  BY <1>2 DEF Made, Trying, InProgress
<1>4. CASE /\ Untaken(r, k) /\ fence' = [fence EXCEPT ![k].holder = r]
           /\ signup' = [signup EXCEPT ![r].stage = held]
  <2>1. /\ fence' \in [Fences -> [version : Nat, holder : Signups \cup {Absent}]]
        /\ \A x \in Fences : /\ fence'[x].version = fence[x].version
                             /\ x # k => fence'[x].holder = fence[x].holder
        /\ fence'[k].holder = r /\ fence[k].holder = Absent
        /\ fence[k].version = signup[r].seen[k]
    BY <1>0, <1>4 DEF Untaken
  <2>2. \A x \in Fences, q \in Signups \ {r} : fence'[x].holder = q <=> fence[x].holder = q
    BY <1>0, <2>1
  <2>3. [signup[r] EXCEPT !.stage = held] \in Signup
    BY <1>0, Zenon DEF Signup
  <2>4. signup' \in [Signups -> Signup] /\ \A q \in Signups \ {r} : signup'[q] = signup[q]
    BY <1>0, <1>4, <2>3
  <2>5. /\ signup'[r].stage = held /\ signup'[r].form = signup[r].form
        /\ signup'[r].phone = signup[r].phone /\ signup'[r].telegram = signup[r].telegram
        /\ signup'[r].seen = signup[r].seen /\ signup'[r].free = signup[r].free
    BY <1>0, <1>4 DEF Signup
  <2>6. Verified(r)' /\ ~Made(r)'
    BY <1>0, <1>1, <1>3, <2>5 DEF Verified, Trying, Made
  <2>7. SeesFences(r)'
    <3> SUFFICES ASSUME NEW x \in Fences
                 PROVE  /\ InProgress(r)' => signup'[r].seen[x] <= fence'[x].version
                        /\ Holds(r, x)' => /\ fence'[x].holder = r
                                           /\ fence'[x].version = signup'[r].seen[x]
                        /\ fence'[x].holder = r => Holds(r, x)'
      BY DEF SeesFences
    <3>1. signup[r].seen[x] <= fence[x].version
      BY <1>0, <1>3 DEF SeesFences
    <3>2. Holds(r, x)' <=> Holds(r, x) \/ x = k
      BY <1>2, <2>5 DEF Holds
    <3>3. x = k \/ (fence'[x].holder = r <=> fence[x].holder = r)
      BY <2>1
    <3> QED
      BY <1>0, <2>1, <2>5, <3>1, <3>2, <3>3 DEF SeesFences
  <2>8. StillFree(r)'
    <3>1. signup[r].phone \in Fences
      BY <1>0, <1>3 DEF Verified, Fences
    <3> QED
      BY <1>0, <1>1, <1>3, <2>1, <2>5, <3>1 DEF StillFree
  <2> QED
    BY <1>1, <1>3, <2>1, <2>2, <2>4, <2>6, <2>7, <2>8, SignupChange
<1>5. CASE /\ fence' = Released(r)
           /\ signup' = [signup EXCEPT ![r].stage = "verified", ![r].seen = Unseen, ![r].free = FALSE]
  <2>1. [signup[r] EXCEPT !.stage = "verified", !.seen = Unseen, !.free = FALSE] \in Signup
    <3>1. Unseen \in [Fences -> Nat]
      BY DEF Unseen
    <3> QED
      BY <1>0, <3>1, Zenon DEF Signup
  <2>2. signup' = [signup EXCEPT ![r] =
                     [signup[r] EXCEPT !.stage = "verified", !.seen = Unseen, !.free = FALSE]]
    BY <1>5
  <2>3. signup' \in [Signups -> Signup] /\ \A q \in Signups \ {r} : signup'[q] = signup[q]
    BY <1>0, <2>1, <2>2
  <2>4. /\ signup'[r].stage = "verified" /\ signup'[r].form = signup[r].form
        /\ signup'[r].phone = signup[r].phone /\ signup'[r].telegram = signup[r].telegram
    BY <1>0, <2>2, Zenon DEF Signup
  <2>5. Verified(r)' /\ StillFree(r)' /\ ~Made(r)'
    BY <1>0, <1>1, <1>3, <2>4 DEF Verified, StillFree, Trying, InProgress, Made
  <2>6. SeesFences(r)'
    BY <1>5, <2>4, Releasing DEF SeesFences, InProgress, Holds
  <2> QED
    BY <1>1, <1>3, <1>5, <2>3, <2>5, <2>6, Releasing, SignupChange
<1> QED
  BY <1>2, <1>4, <1>5 DEF Take
\* The account is made: both fences are held as the transaction has seen them, so nobody has
\* taken the phone meanwhile, and whoever saw them before starts over.
LEMMA RegisterStep ==
  ASSUME RegInv, NEW r \in Signups, Register(r)
  PROVE  RegInv'
<1> DEFINE s == signup[r]
<1>0. /\ proof \in [Forms -> Proof] /\ signup \in [Signups -> Signup] /\ s \in Signup
      /\ fence \in [Fences -> [version : Nat, holder : Signups \cup {Absent}]]
      /\ account \in [Accounts -> Account] /\ account[r] \in Account
      /\ SeesFences(r) /\ Verified(r) /\ StillFree(r) /\ MadeOf(r)
      /\ \A q \in Signups : q # Absent /\ q \in Accounts
  BY Registered DEF RegInv
<1>1. /\ s.stage = "both" /\ s.free /\ proof[s.form].state = "open" /\ proof[s.form].phone = s.phone
      /\ WithTelegram(s.telegram) = {} /\ UNCHANGED <<public, rows>>
      /\ account' = [account EXCEPT ![r] = [account[r] EXCEPT !.state = "live", !.phone = s.phone,
                                                              !.telegram = s.telegram]]
      /\ proof' = [proof EXCEPT ![s.form] = [proof[s.form] EXCEPT !.state = "consumed"]]
      /\ fence' = [k \in Fences |-> IF fence[k].holder = r
                                    THEN [version |-> fence[k].version + 1, holder |-> Absent]
                                    ELSE fence[k]]
      /\ signup' = [signup EXCEPT ![r] = [signup[r] EXCEPT !.stage = "made", !.seen = Unseen,
                                                           !.free = FALSE]]
  BY DEF Register, Proven
<1>2. /\ s.form \in Forms /\ s.phone \in Phones /\ s.telegram \in Telegrams
      /\ proof[s.form].telegram = s.telegram
  BY <1>0, <1>1 DEF Verified, Trying
<1>3. account[r].state = "none"
  BY <1>0, <1>1 DEF MadeOf, Made
<1>4. fence[s.phone].holder = r /\ fence[s.phone].version = s.seen[s.phone]
  BY <1>0, <1>1, <1>2 DEF SeesFences, Holds, Fences
<1>5. \A q \in Signups \cap Live : account[q].moved \/ account[q].phone # s.phone
  BY <1>0, <1>1, <1>4 DEF StillFree, InProgress
<1>6. \A q \in Live : account[q].telegram # s.telegram
  BY <1>1 DEF WithTelegram
<1>7. /\ account' \in [Accounts -> Account] /\ \A a \in Accounts \ {r} : account'[a] = account[a]
      /\ account'[r].state = "live" /\ account'[r].phone = s.phone /\ account'[r].telegram = s.telegram
  <2>1. s.phone \in Phones \cup {Absent} /\ s.telegram \in Telegrams \cup {Absent}
    BY <1>2
  <2>2. [account[r] EXCEPT !.state = "live", !.phone = s.phone, !.telegram = s.telegram] \in Account
    BY <1>0, <2>1, Zenon DEF Account
  <2>3. account' \in [Accounts -> Account] /\ \A a \in Accounts \ {r} : account'[a] = account[a]
    BY <1>0, <1>1, <2>2
  <2>4. account'[r] = [account[r] EXCEPT !.state = "live", !.phone = s.phone,
                                         !.telegram = s.telegram]
    BY <1>0, <1>1
  <2> QED
    BY <1>0, <2>3, <2>4, Zenon DEF Account
<1>8. /\ proof' \in [Forms -> Proof] /\ \A f \in Forms \ {s.form} : proof'[f] = proof[f]
      /\ proof'[s.form].state = "consumed" /\ proof'[s.form].phone = s.phone
      /\ proof'[s.form].telegram = s.telegram
  BY <1>0, <1>1, <1>2 DEF Proof
<1>9. ASSUME NEW k \in Fences
      PROVE  /\ fence'[k] \in [version : Nat, holder : Signups \cup {Absent}]
             /\ fence[k].version \in Nat
             /\ IF fence[k].holder = r
                THEN fence'[k].version = fence[k].version + 1 /\ fence'[k].holder = Absent
                ELSE fence'[k] = fence[k]
  BY <1>0, <1>1
<1>10. fence' \in [Fences -> [version : Nat, holder : Signups \cup {Absent}]]
  BY <1>1, <1>9
<1>11. /\ signup' \in [Signups -> Signup] /\ \A q \in Signups \ {r} : signup'[q] = signup[q]
       /\ signup'[r].stage = "made" /\ signup'[r].form = s.form
       /\ signup'[r].phone = s.phone /\ signup'[r].telegram = s.telegram
  <2>1. Unseen \in [Fences -> Nat]
    BY DEF Unseen
  <2>2. [signup[r] EXCEPT !.stage = "made", !.seen = Unseen, !.free = FALSE] \in Signup
    BY <1>0, <2>1, Zenon DEF Signup
  <2>3. signup' \in [Signups -> Signup] /\ \A q \in Signups \ {r} : signup'[q] = signup[q]
    BY <1>0, <1>1, <2>2
  <2>4. signup'[r] = [signup[r] EXCEPT !.stage = "made", !.seen = Unseen, !.free = FALSE]
    BY <1>0, <1>1
  <2> QED
    BY <1>0, <2>3, <2>4, Zenon DEF Signup
<1> HIDE DEF s
<1>12. RegistrationTypeOK'
  BY <1>1, <1>7, <1>8, <1>10, <1>11 DEF RegInv, RegistrationTypeOK
<1>13. ASSUME NEW q \in Signups, q # r
       PROVE  Verified(q)' /\ SeesFences(q)' /\ StillFree(q)' /\ MadeOf(q)'
  <2>1. /\ signup'[q] = signup[q] /\ account'[q] = account[q]
        /\ Verified(q) /\ SeesFences(q) /\ StillFree(q) /\ MadeOf(q)
    BY <1>0, <1>7, <1>11, <1>13 DEF RegInv
  <2>2. Verified(q)'
    BY <1>1, <1>8, <2>1 DEF Verified, Trying, Made
  <2>3. MadeOf(q)'
    BY <1>1, <1>8, <2>1 DEF MadeOf, Made, Verified
  <2>4. SeesFences(q)'
    <3> SUFFICES ASSUME NEW k \in Fences
                 PROVE  /\ InProgress(q)' => signup'[q].seen[k] <= fence'[k].version
                        /\ Holds(q, k)' => /\ fence'[k].holder = q
                                           /\ fence'[k].version = signup'[q].seen[k]
                        /\ fence'[k].holder = q => Holds(q, k)'
      BY DEF SeesFences
    <3>1. (InProgress(q)' <=> InProgress(q)) /\ (Holds(q, k)' <=> Holds(q, k))
      BY <2>1 DEF InProgress, Holds
    <3>2. fence[k].version <= fence'[k].version
      BY <1>9
    <3>3. signup[q].seen \in [Fences -> Nat]
      BY <1>0 DEF Signup
    <3>4. fence[k].holder = q \/ fence'[k].holder = q => fence'[k] = fence[k]
      BY <1>0, <1>9, <1>13
    <3> QED
      BY <1>9, <2>1, <3>1, <3>2, <3>3, <3>4 DEF SeesFences
  <2>5. StillFree(q)'
    <3> SUFFICES ASSUME InProgress(q), signup[q].free,
                        fence'[signup[q].phone].version = signup[q].seen[signup[q].phone]
                 PROVE  \A x \in Signups \cap Live' :
                          account'[x].moved \/ account'[x].phone # signup[q].phone
      BY <2>1 DEF StillFree, InProgress
    <3>1. signup[q].phone \in Fences
      BY <2>1 DEF Verified, Trying, InProgress, Fences
    <3>2. signup[q].seen[signup[q].phone] <= fence[signup[q].phone].version
      BY <2>1, <3>1 DEF SeesFences
    <3>3. signup[q].seen[signup[q].phone] \in Nat
      BY <1>0, <3>1 DEF Signup
    <3>4. fence[signup[q].phone].holder # r
      BY <1>9, <3>1, <3>2, <3>3
    <3>5. fence'[signup[q].phone] = fence[signup[q].phone] /\ signup[q].phone # s.phone
      BY <1>4, <1>9, <3>1, <3>4
    <3>6. \A x \in Signups \cap Live : account[x].moved \/ account[x].phone # signup[q].phone
      BY <2>1, <3>5 DEF StillFree
    <3> QED
      BY <1>7, <3>5, <3>6 DEF Live
  <2> QED
    BY <2>2, <2>3, <2>4, <2>5
<1>14. Verified(r)' /\ SeesFences(r)' /\ StillFree(r)' /\ MadeOf(r)'
  <2>1. Verified(r)' /\ StillFree(r)' /\ MadeOf(r)'
    BY <1>2, <1>7, <1>8, <1>11 DEF Verified, StillFree, MadeOf, Trying, Made, InProgress
  <2>2. SeesFences(r)'
    BY <1>0, <1>9, <1>11 DEF SeesFences, InProgress, Holds
  <2> QED
    BY <2>1, <2>2
<1>15. RegisteredOnce'
  <2>0. \A y \in Accounts : y # r /\ y \in Live' => y \in Live /\ account'[y] = account[y]
    BY <1>7 DEF Live
  <2>1. ASSUME NEW x \in Signups \cap Live', NEW q \in Signups \cap Live', x # q,
               account'[x].phone = account'[q].phone
        PROVE  account'[x].moved \/ account'[q].moved
    <3>1. x \in Accounts /\ q \in Accounts
      BY <1>0
    <3>2. CASE x # r /\ q # r
      BY <2>0, <2>1, <3>1, <3>2 DEF RegInv, RegisteredOnce
    <3>3. CASE x = r \/ q = r
      BY <1>5, <1>7, <2>0, <2>1, <3>1, <3>3
    <3> QED
      BY <3>2, <3>3
  <2>a. ASSUME NEW x \in Live', NEW q \in Live', x # q, account'[x].telegram # Absent
        PROVE  account'[x].telegram # account'[q].telegram
    <3>1. x \in Accounts /\ q \in Accounts
      BY DEF Live
    <3>2. CASE x # r /\ q # r
      BY <2>0, <2>a, <3>1, <3>2 DEF RegInv, RegisteredOnce
    <3>3. CASE x = r \/ q = r
      BY <1>6, <1>7, <2>0, <2>a, <3>1, <3>3
    <3> QED
      BY <3>2, <3>3
  <2>2. ASSUME NEW x \in Signups, Made(x)'
        PROVE  /\ account'[x].moved \/ account'[x].phone = proof'[signup'[x].form].phone
               /\ account'[x].telegram = proof'[signup'[x].form].telegram
    BY <1>13, <1>14, <2>2 DEF MadeOf
  <2>3. ASSUME NEW x \in Signups, NEW q \in Signups, Made(x)', Made(q)',
               signup'[q].form = signup'[x].form
        PROVE  q = x
    <3>1. \A y \in Signups : y # r /\ Made(y)' =>
            signup'[y].form = signup[y].form /\ Made(y) /\ proof[signup[y].form].state = "consumed"
      BY <1>11 DEF RegInv, MadeOf, Made
    <3>2. CASE x # r /\ q # r
      BY <2>3, <3>1, <3>2 DEF RegInv, RegisteredOnce, Made
    <3>3. CASE x = r \/ q = r
      BY <1>1, <1>11, <2>3, <3>1, <3>3
    <3> QED
      BY <3>2, <3>3
  <2> QED
    BY <2>1, <2>a, <2>2, <2>3 DEF RegisteredOnce, Made
<1>16. Blank'
  BY <1>7 DEF RegInv, Blank
<1> QED
  BY <1>12, <1>13, <1>14, <1>15, <1>16 DEF RegInv
\* Every step of registrations and deletions.
LEMMA RegistrationStep == RegInv /\ [RegistrationNext]_registrationVars => RegInv'
<1> SUFFICES ASSUME RegInv, [RegistrationNext]_registrationVars PROVE RegInv'
  OBVIOUS
<1>1. CASE UNCHANGED registrationVars
  BY <1>1 DEF registrationVars, RegInv, RegistrationTypeOK, RegisteredOnce, Live, Verified, Trying, Made,
     SeesFences, InProgress, Holds, StillFree, MadeOf, Blank
<1>2. CASE RegistrationNext
  <2>1. CASE \E f \in Forms : OpenForm(f) \/ ExpireProof(f) \/ \E t \in Telegrams : StartBot(f, t)
    BY <2>1, ProofSteps
  <2>2. CASE \E t \in Telegrams, p \in Phones : Confirm(t, p) \/ LinkTelegram(t, p)
    BY <2>2, ProofSteps, AccountSteps
  <2>3. CASE \E r \in Signups, f \in Forms, p \in Phones : Verify(r, f, p)
    BY <2>3, SignupSteps
  <2>4. CASE \E r \in Signups : OpenTransaction(r) \/ TakeFence(r) \/ Register(r) \/ Refuse(r)
    BY <2>4, SignupSteps, FenceSteps, RegisterStep
  <2>5. CASE \/ \E a \in Admins, p \in Phones : CreateAdmin(a, p)
             \/ \E a \in Accounts, p \in Phones \cup {Absent} : ChangePhone(a, p)
             \/ \E a \in Accounts : AskDelete(a) \/ DeleteUser(a)
             \/ \E a \in Accounts, c \in Collections : Write(a, c) \/ Empty(a, c) \/ EmptyFails(a, c)
    BY <2>5, AccountSteps
  <2> QED
    BY <1>2, <2>1, <2>2, <2>3, <2>4, <2>5 DEF RegistrationNext
<1> QED
  BY <1>1, <1>2

\* The same for the rows that a deletion has to remove.
LEMMA DeletionStep ==
  RegInv /\ DeletionInv /\ [RegistrationNext]_registrationVars => DeletionInv'
<1> SUFFICES ASSUME RegInv, DeletionInv, [RegistrationNext]_registrationVars,
                    NEW a \in Accounts, NEW c \in Collections, rows'[a][c] = "old"
             PROVE  /\ account'[a].state # "deleted"
                    /\ account'[a].state = "removing" => c \in account'[a].todo
  BY DEF DeletionInv
<1>0. /\ account \in [Accounts -> Account] /\ rows \in [Accounts -> [Collections -> {"none", "old", "new"}]]
      /\ signup \in [Signups -> Signup] /\ \A r \in Signups : r \in Accounts
      /\ rows[a][c] = "old" => /\ account[a].state # "deleted"
                               /\ account[a].state = "removing" => c \in account[a].todo
  BY Registered DEF DeletionInv
<1>1. CASE UNCHANGED <<account, rows>>
  BY <1>0, <1>1
<1>2. ASSUME NEW r \in Signups, Register(r)
      PROVE  /\ account'[a].state # "deleted"
             /\ account'[a].state = "removing" => c \in account'[a].todo
  <2>1. rows' = rows /\ (a # r => account'[a] = account[a])
    BY <1>0, <1>2 DEF Register
  <2>2. a = r => account'[a].state = "live"
    BY <1>0, <1>2 DEF Register, Account
  <2> QED
    BY <1>0, <2>1, <2>2
<1>3. ASSUME NEW b \in Admins, NEW p \in Phones, CreateAdmin(b, p)
      PROVE  /\ account'[a].state # "deleted"
             /\ account'[a].state = "removing" => c \in account'[a].todo
  <2>1. rows' = rows /\ (a # b => account'[a] = account[a])
    BY <1>0, <1>3 DEF CreateAdmin
  <2>2. a = b => account'[a].state = "live"
    BY <1>0, <1>3 DEF CreateAdmin, Account
  <2> QED
    BY <1>0, <2>1, <2>2
<1>4. ASSUME NEW t \in Telegrams, NEW p \in Phones, LinkTelegram(t, p)
      PROVE  /\ account'[a].state # "deleted"
             /\ account'[a].state = "removing" => c \in account'[a].todo
  <2>1. PICK x \in Accounts : account' = [account EXCEPT ![x].telegram = t] /\ rows' = rows
    BY <1>4 DEF LinkTelegram, Live
  <2>2. account'[a].state = account[a].state /\ account'[a].todo = account[a].todo
    BY <1>0, <2>1 DEF Account
  <2> QED
    BY <1>0, <2>1, <2>2
<1>10. ASSUME NEW b \in Accounts, NEW p \in Phones \cup {Absent}, ChangePhone(b, p)
      PROVE  /\ account'[a].state # "deleted"
             /\ account'[a].state = "removing" => c \in account'[a].todo
  <2>1. /\ account' = [account EXCEPT ![b] = [account[b] EXCEPT !.phone = p, !.moved = TRUE]]
        /\ rows' = rows
    BY <1>10 DEF ChangePhone
  <2>2. account[a] \in Account /\ account[b] \in Account
    BY <1>0
  <2>3. account'[a].state = account[a].state /\ account'[a].todo = account[a].todo
    BY <1>0, <2>1, <2>2, Zenon DEF Account
  <2> QED
    BY <1>0, <2>1, <2>3
<1>5. ASSUME NEW b \in Accounts, AskDelete(b)
      PROVE  /\ account'[a].state # "deleted"
             /\ account'[a].state = "removing" => c \in account'[a].todo
  <2>1. /\ account' = [account EXCEPT ![b].state = "removing", ![b].todo = Collections]
        /\ rows' = [rows EXCEPT ![b] = [d \in Collections |-> IF @[d] = "none" THEN "none" ELSE "old"]]
    BY <1>5 DEF AskDelete
  <2>2. a # b => account'[a] = account[a] /\ rows'[a] = rows[a]
    BY <1>0, <2>1
  <2>3. a = b => account'[a].state = "removing" /\ account'[a].todo = Collections
    BY <1>0, <2>1 DEF Account
  <2> QED
    BY <1>0, <2>2, <2>3
<1>6. ASSUME NEW b \in Accounts, DeleteUser(b)
      PROVE  /\ account'[a].state # "deleted"
             /\ account'[a].state = "removing" => c \in account'[a].todo
  <2>1. /\ account' = [account EXCEPT ![b].state = "deleted"] /\ rows' = rows
        /\ account[b].state = "removing" /\ account[b].todo = {}
    BY <1>6 DEF DeleteUser
  <2>2. a # b
    BY <1>0, <2>1
  <2>3. account'[a] = account[a]
    BY <1>0, <2>1, <2>2
  <2> QED
    BY <1>0, <2>1, <2>3
<1>7. ASSUME NEW b \in Accounts, NEW d \in Collections, Write(b, d)
      PROVE  /\ account'[a].state # "deleted"
             /\ account'[a].state = "removing" => c \in account'[a].todo
  <2>1. account' = account /\ rows' = [rows EXCEPT ![b][d] = "new"]
    BY <1>7 DEF Write
  <2>2. rows[a][c] = "old"
    BY <1>0, <2>1
  <2> QED
    BY <1>0, <2>1, <2>2
<1>8. ASSUME NEW b \in Accounts, NEW d \in Collections, Empty(b, d)
      PROVE  /\ account'[a].state # "deleted"
             /\ account'[a].state = "removing" => c \in account'[a].todo
  <2>1. /\ rows' = [rows EXCEPT ![b][d] = "none"]
        /\ account' = [account EXCEPT ![b].todo = account[b].todo \ {d}]
    BY <1>8 DEF Empty
  <2>2. rows[a][c] = "old" /\ ~(a = b /\ c = d)
    BY <1>0, <2>1
  <2>3. /\ a # b => account'[a] = account[a]
        /\ a = b => account'[a].state = account[a].state /\ account'[a].todo = account[a].todo \ {d}
    BY <1>0, <2>1 DEF Account
  <2> QED
    BY <1>0, <2>2, <2>3
<1>9. ASSUME NEW b \in Accounts, NEW d \in Collections, EmptyFails(b, d)
      PROVE  /\ account'[a].state # "deleted"
             /\ account'[a].state = "removing" => c \in account'[a].todo
  <2> DEFINE s == IF account[b].state = "removing" THEN "live" ELSE account[b].state
             todo == account[b].todo \ {d}
  <2>1. rows' = rows /\ account' = [account EXCEPT ![b] = [account[b] EXCEPT !.todo = todo, !.state = s]]
    BY <1>9 DEF EmptyFails
  <2>2. s # "removing" /\ (account[b].state # "deleted" => s # "deleted")
    OBVIOUS
  <2> HIDE DEF s, todo
  <2>3. a # b => account'[a] = account[a]
    BY <1>0, <2>1
  <2>4. a = b => account'[a].state = s
    <3>1. a = b => account'[a] = [account[b] EXCEPT !.todo = todo, !.state = s]
      BY <1>0, <2>1
    <3>2. account[b] \in Account
      BY <1>0
    <3> QED
      BY <3>1, <3>2, Zenon DEF Account
  <2> QED
    BY <1>0, <2>1, <2>2, <2>3, <2>4
<1> QED
  <2>1. ASSUME RegistrationNext, ~UNCHANGED <<account, rows>>
        PROVE  \/ \E r \in Signups : Register(r)
               \/ \E b \in Admins, p \in Phones : CreateAdmin(b, p)
               \/ \E b \in Accounts, p \in Phones \cup {Absent} : ChangePhone(b, p)
               \/ \E t \in Telegrams, p \in Phones : LinkTelegram(t, p)
               \/ \E b \in Accounts : AskDelete(b) \/ DeleteUser(b)
               \/ \E b \in Accounts, d \in Collections : Write(b, d) \/ Empty(b, d) \/ EmptyFails(b, d)
    BY <2>1 DEF RegistrationNext, OpenForm, ExpireProof, StartBot, Confirm, Verify,
                OpenTransaction, TakeFence, Refuse
  <2>2. CASE RegistrationNext
    BY <1>1, <1>2, <1>3, <1>4, <1>5, <1>6, <1>7, <1>8, <1>9, <1>10, <2>1, <2>2
  <2>3. CASE UNCHANGED registrationVars
    BY <1>1, <2>3 DEF registrationVars
  <2> QED
    BY <2>2, <2>3

\* The types of the proofs, requests, fences and accounts (type correctness of Registration).
THEOREM RegistrationTyped == RegistrationSpec => []RegistrationTypeOK
<1>1. RegInv => RegistrationTypeOK
  BY DEF RegInv
<1> QED
  BY <1>1, RegistrationStart, RegistrationStep, PTL DEF RegistrationSpec

\* However many registrations overlap, two registered accounts share a phone only after one
\* of them was given it by a change, which the code does not check; no Telegram user has two
\* accounts, and no proof makes two.
THEOREM OneAccountPerPhone == RegistrationSpec => []RegisteredOnce
<1>1. RegInv => RegisteredOnce
  BY DEF RegInv
<1> QED
  BY <1>1, RegistrationStart, RegistrationStep, PTL DEF RegistrationSpec

\* However many collections there are, and whatever fails or is written while they are being
\* emptied, an account is deleted only when nothing of before is left.
THEOREM NothingOldIsLeft == RegistrationSpec => []DeletedLast
<1>1. DeletionInv => DeletedLast
  BY DEF DeletionInv, DeletedLast
<1> QED
  BY <1>1, RegistrationStart, RegistrationStep, DeletionStep, PTL DEF RegistrationSpec

-----------------------------------------------------------------------------
(* Debts.                                                                  *)

\* No debt is less than nothing.
NeverOwing == \A i \in DOMAIN debtor : debtor[i].amount >= 0

\* Both roundings of money give amounts.
LEMMA Roundings ==
  ASSUME NEW a \in Nat
  PROVE  RoundMoney(a) \in Nat /\ RoundEven(a) \in Nat
<1>1. (a + 1) \div 2 \in Nat
  OBVIOUS
<1>2. a % 4 = 1 => a >= 1
  OBVIOUS
<1> QED
  BY <1>1, <1>2 DEF RoundMoney, RoundEven

\* Every step of the debtors.
LEMMA DebtorStep ==
  DebtorTypeOK /\ NeverOwing /\ [DebtorNext]_debtorVars => (DebtorTypeOK /\ NeverOwing)'
<1> SUFFICES ASSUME DebtorTypeOK, NeverOwing, [DebtorNext]_debtorVars
             PROVE  (DebtorTypeOK /\ NeverOwing)'
  OBVIOUS
<1> USE DEF DebtorTypeOK, NeverOwing
<1>1. ASSUME NEW i \in Debtors, NEW a \in Amounts, CreateDebtor(i, a)
      PROVE  (DebtorTypeOK /\ NeverOwing)'
  <2> DEFINE history == IF a > 0 THEN <<[amount |-> a, type |-> "add"]>> ELSE <<>>
  <2>1. a \in Nat
    BY AmountsAssumption
  <2>2. history \in Seq(Change)
    <3>1. [amount |-> a, type |-> "add"] \in Change
      BY <2>1 DEF Change
    <3>2. <<[amount |-> a, type |-> "add"]>> \in Seq(Change) /\ <<>> \in Seq(Change)
      BY <3>1
    <3> QED
      BY <3>2
  <2> HIDE DEF history
  <2>3. debtor' = [x \in DOMAIN debtor \cup {i} |->
                     IF x # i THEN debtor[x] ELSE [amount |-> a, history |-> history]]
    BY <1>1 DEF CreateDebtor, history
  <2>4. [amount |-> a, history |-> history] \in Debtor
    BY <2>1, <2>2 DEF Debtor
  <2> QED
    BY <2>1, <2>3, <2>4
<1>2. ASSUME NEW i \in DOMAIN debtor, RemoveDebtor(i) PROVE (DebtorTypeOK /\ NeverOwing)'
  BY <1>2 DEF RemoveDebtor
<1>3. ASSUME NEW i \in DOMAIN debtor, NEW a \in Amounts, NEW type \in {"add", "subtract"},
             Adjust(i, a, type)
      PROVE  (DebtorTypeOK /\ NeverOwing)'
  <2> DEFINE owed    == debtor[i].amount
             rest    == RoundEven(IF type = "add" THEN owed + RoundMoney(a) ELSE owed - RoundMoney(a))
             history == Append(debtor[i].history, [amount |-> Recorded(a), type |-> type])
  <2>1. /\ type = "subtract" => owed >= RoundMoney(a)
        /\ debtor' = [debtor EXCEPT ![i] = [amount |-> rest, history |-> history]]
    BY <1>3 DEF Adjust
  <2>2. RoundMoney(a) \in Nat /\ owed \in Nat /\ debtor[i].history \in Seq(Change)
    BY Roundings, AmountsAssumption DEF Debtor
  <2>3. rest \in Nat
    BY <2>1, <2>2, Roundings
  <2>4. history \in Seq(Change)
    <3>1. [amount |-> Recorded(a), type |-> type] \in Change
      BY <2>2 DEF Recorded, Change
    <3> QED
      BY <2>2, <3>1
  <2> HIDE DEF rest, history
  <2>5. [amount |-> rest, history |-> history] \in Debtor
    BY <2>3, <2>4 DEF Debtor
  <2> QED
    BY <2>1, <2>3, <2>5
<1>4. CASE UNCHANGED debtorVars
  BY <1>4 DEF debtorVars
<1> QED
  BY <1>1, <1>2, <1>3, <1>4 DEF DebtorNext

\* The documents of debtors keep their types, and no customer is ever owed by the owner: what
\* is paid off is never more than the debt, and rounding it does not take it below nothing.
THEOREM DebtsStayDebts == DebtorSpec => [](DebtorTypeOK /\ NeverOwing)
<1>1. DebtorInit => DebtorTypeOK /\ NeverOwing
  BY DEF DebtorInit, DebtorTypeOK, NeverOwing
<1> QED
  BY <1>1, DebtorStep, PTL DEF DebtorSpec

\* What a change adds to the debt.
Signed(c) == IF c.type = "add" THEN c.amount ELSE 0 - c.amount

\* What a history adds up to is the total of its signed amounts: reading it from the last
\* change down and adding or taking off gives what a sum in any order gives.
LEMMA OwedIsTotal ==
  ASSUME NEW s \in Seq(Change)
  PROVE  Owed(s) = Total([i \in 1..Len(s) |-> Signed(s[i])])
<1> DEFINE S == DOMAIN s
           f == [i \in 1..Len(s) |-> Signed(s[i])]
           c == [t \in SUBSET S |-> Max(t)]
           Raw(k) == [t \in SUBSET S |-> IF t = {} THEN 0
                        ELSE IF s[Max(t)].type = "add" THEN k[t \ {Max(t)}] + s[Max(t)].amount
                                                       ELSE k[t \ {Max(t)}] - s[Max(t)].amount]
           Adding(k) == [t \in SUBSET S |-> IF t = {} THEN 0 ELSE f[c[t]] + k[t \ {c[t]}]]
           iter == CHOOSE k : k = Raw(k)
<1>1. Owed(s) = iter[S]
  BY Zenon DEF Owed, FoldLeft, MapThenFoldSet
<1>2. /\ S = 1..Len(s) /\ Len(s) \in Nat /\ IsFiniteSet(S)
      /\ \A i \in S : f[i] = Signed(s[i]) /\ f[i] \in Int /\ s[i].amount \in Nat
  <2>1. S = 1..Len(s) /\ Len(s) \in Nat
    OBVIOUS
  <2>2. IsFiniteSet(1..Len(s))
    BY <2>1, FS_Interval
  <2>3. \A i \in S : s[i] \in Change
    OBVIOUS
  <2> QED BY <2>1, <2>2, <2>3 DEF Change, Signed
<1>3. Chooses(c, S)
  <2>1. ASSUME NEW t \in SUBSET S, t # {} PROVE c[t] \in t
    <3>1. \E x \in t : \A y \in t : x >= y
      <4>1. t \in SUBSET (1..Len(s)) /\ Len(s) \in Nat
        BY <1>2
      <4> QED BY <2>1, <4>1, Largest
    <3>2. Max(t) \in t
      BY <3>1, Zenon DEF Max
    <3> QED BY <3>2
  <2> HIDE DEF c
  <2> QED BY <2>1 DEF Chooses
<1>4. \A t \in SUBSET S : c[t] = Max(t)
  OBVIOUS
<1> HIDE DEF c, f, S
<1>5. PICK g : g = Adding(g) /\ AddsUp(g, f, S)
  <2>1. \E g : g = Adding(g) /\ AddsUp(g, f, S)
    BY <1>2, <1>3, ChosenFold
  <2> QED BY <2>1, Zenon
<1>6. \A t \in SUBSET S : t # {} => c[t] \in S /\ c[t] \in t /\ g[t \ {c[t]}] \in Int
  BY <1>3, <1>5 DEF Chooses, AddsUp
<1>7. \A t \in SUBSET S : g[t] = Raw(g)[t]
  <2>1. \A t \in SUBSET S : g[t] = IF t = {} THEN 0 ELSE f[c[t]] + g[t \ {c[t]}]
    BY <1>5, Zenon
  <2>2. ASSUME NEW t \in SUBSET S, t # {} PROVE g[t] = Raw(g)[t]
    <3> DEFINE m == c[t]
    <3>1. m \in S /\ g[t \ {m}] \in Int /\ g[t] = f[m] + g[t \ {m}] /\ m = Max(t)
      BY <1>4, <1>6, <2>1, <2>2
    <3>2. f[m] = Signed(s[m]) /\ s[m].amount \in Nat
      BY <1>2, <3>1
    <3>3. Raw(g)[t] = IF s[m].type = "add" THEN g[t \ {m}] + s[m].amount ELSE g[t \ {m}] - s[m].amount
      BY <2>2, <3>1
    <3> HIDE DEF m, Raw
    <3> QED BY <3>1, <3>2, <3>3 DEF Signed
  <2>3. g[{}] = Raw(g)[{}]
    BY <2>1
  <2> QED BY <2>2, <2>3
<1>8. g = Raw(g)
  <2>1. g = [t \in SUBSET S |-> g[t]]
    BY <1>5, Zenon
  <2>2. Raw(g) = [t \in SUBSET S |-> Raw(g)[t]]
    BY Zenon
  <2> HIDE DEF Raw
  <2> QED BY <1>7, <2>1, <2>2, Zenon
<1>9. iter = Raw(iter)
  <2> HIDE DEF Raw
  <2> QED BY <1>8, Zenon
\* The step as a function, on whatever values the two folds take.
<1> DEFINE V == {iter[t] : t \in SUBSET S} \cup {g[t] : t \in SUBSET S}
           h == [x \in S |-> [v \in V |-> IF s[x].type = "add" THEN v + s[x].amount ELSE v - s[x].amount]]
<1>10. ASSUME NEW k, k = Raw(k), \A t \in SUBSET S : k[t] \in V PROVE FoldOf(k, S, 0, c, h)
  <2>1. ASSUME NEW t \in SUBSET S, t # {}
        PROVE  h[c[t]][k[t \ {c[t]}]]
                 = IF s[c[t]].type = "add" THEN k[t \ {c[t]}] + s[c[t]].amount ELSE k[t \ {c[t]}] - s[c[t]].amount
    <3>1. c[t] \in S /\ t \ {c[t]} \in SUBSET S /\ k[t \ {c[t]}] \in V
      BY <1>6, <1>10, <2>1
    <3> HIDE DEF V
    <3> QED BY <3>1, Zenon
  <2>2. \A t \in SUBSET S : c[t] = Max(t)
    BY <1>4
  <2>3. k = [t \in SUBSET S |-> IF t = {} THEN 0
               ELSE IF s[c[t]].type = "add" THEN k[t \ {c[t]}] + s[c[t]].amount
                                            ELSE k[t \ {c[t]}] - s[c[t]].amount]
    <3> HIDE DEF V
    <3> QED BY <1>10, <2>2, Zenon
  <2> HIDE DEF h
  <2>4. k = [t \in SUBSET S |-> IF t = {} THEN 0 ELSE h[c[t]][k[t \ {c[t]}]]]
    BY <2>1, <2>3, Zenon
  <2> QED BY <2>4, Zenon DEF FoldOf
<1>11. FoldOf(iter, S, 0, c, h) /\ FoldOf(g, S, 0, c, h)
  <2>1. (\A t \in SUBSET S : iter[t] \in V) /\ \A t \in SUBSET S : g[t] \in V
    <3> HIDE DEF iter
    <3> QED OBVIOUS
  <2> HIDE DEF iter, Raw, h, V
  <2> QED BY <1>8, <1>9, <1>10, <2>1
<1>12. iter[S] = g[S]
  <2> HIDE DEF iter, h, V, Raw, Adding
  <2>1. S \in SUBSET S
    OBVIOUS
  <2>0. IsFiniteSet(S) /\ Chooses(c, S) /\ FoldOf(iter, S, 0, c, h) /\ FoldOf(g, S, 0, c, h)
    BY <1>2, <1>3, <1>11
  <2>2. \A t \in SUBSET S : iter[t] = g[t]
    BY <2>0, <2>1, FoldAgrees
  <2> QED BY <2>1, <2>2
<1>13. g[S] = SumFunctionOnSet(f, S)
  BY <1>2, <1>5, SumAddsUp
<1>14. S = 1..Len(f)
  BY <1>2 DEF f
<1> QED BY <1>1, <1>12, <1>13, <1>14 DEF Total, f

\* One more change moves what is owed by its amount.
LEMMA OwedAppend ==
  ASSUME NEW s \in Seq(Change), NEW c \in Change
  PROVE  Owed(s) \in Int /\ Owed(Append(s, c)) = Owed(s) + Signed(c)
<1> DEFINE W(u) == [i \in 1..Len(u) |-> Signed(u[i])]
           w == Append(s, c)
<1>1. c.amount \in Nat /\ Signed(c) \in Int
  BY DEF Change, Signed
<1>2. w \in Seq(Change) /\ Len(w) = Len(s) + 1 /\ Len(s) \in Nat
      /\ w[Len(s) + 1] = c /\ \A i \in 1..Len(s) : w[i] = s[i]
  OBVIOUS
<1> HIDE DEF w
<1>3. W(s) \in Seq(Int)
  <2>1. ASSUME NEW i \in 1..Len(s) PROVE Signed(s[i]) \in Int
    <3>1. s[i] \in Change
      OBVIOUS
    <3> QED BY <3>1 DEF Change, Signed
  <2> QED BY <1>2, <2>1
<1>4. W(w) = Append(W(s), Signed(c))
  <2>1. Len(W(s)) = Len(s) /\ \A i \in 1..Len(s) : W(s)[i] = Signed(s[i])
    BY <1>2
  <2>2. \A i \in 1..Len(w) : W(w)[i] = Signed(w[i])
    OBVIOUS
  <2> DEFINE A == W(s)
             B == W(w)
             x == Signed(c)
  <2>3. B = [i \in 1..Len(s) + 1 |-> IF i <= Len(s) THEN A[i] ELSE x]
    BY <1>2, <2>1
  <2>4. A \in Seq(Int) /\ x \in Int /\ Len(A) = Len(s)
    BY <1>1, <1>3, <2>1
  <2> HIDE DEF A, B, x, W
  <2>5. B \in Seq(Int) /\ Len(B) = Len(s) + 1
    BY <1>2, <2>3, <2>4
  <2>6. Append(A, x) \in Seq(Int) /\ Len(Append(A, x)) = Len(s) + 1
        /\ \A i \in 1..Len(s) + 1 : Append(A, x)[i] = IF i <= Len(s) THEN A[i] ELSE x
    BY <1>2, <2>4, AppendProperties
  <2>7. B = Append(A, x)
    BY <2>3, <2>5, <2>6, SeqEqual
  <2> QED BY <2>7 DEF A, B, x
<1>5. Total(W(w)) = Total(W(s)) + Signed(c) /\ Total(W(s)) \in Int
  <2> DEFINE A == W(s)
             x == Signed(c)
  <2> HIDE DEF A, x
  <2>1. A \in Seq(Int) /\ x \in Int /\ <<x>> \in Seq(Int)
    BY <1>1, <1>3 DEF A, x
  <2>2. Append(A, x) = A \o <<x>>
    BY <2>1, AppendIsConcat
  <2>3. Total(A \o <<x>>) = Total(A) + Total(<<x>>) /\ Total(A) \in Int
    BY <2>1, TotalConcat
  <2>4. Total(<<x>>) = x
    BY <2>1, TotalOne
  <2> HIDE DEF W
  <2> QED BY <1>4, <2>2, <2>3, <2>4 DEF A, x
<1>6. Owed(s) = Total(W(s)) /\ Owed(w) = Total(W(w))
  BY <1>2, OwedIsTotal
<1> QED BY <1>5, <1>6 DEF w

\* What the documents say of one debt: a fraction of a cent is only there while nothing has
\* been rounded.
Agrees(amount, history) ==
  /\ amount - Owed(history) \in -1..1
  /\ amount % 2 = 1 => amount = Owed(history)

DebtInv == \A i \in DOMAIN debtor : Agrees(debtor[i].amount, debtor[i].history)

\* The rounding of the database gives whole cents, and leaves them alone.
LEMMA EvenRounding ==
  ASSUME NEW a \in Int
  PROVE  /\ RoundEven(a) \in Int /\ RoundEven(a) - a \in -1..1 /\ RoundEven(a) % 2 = 0
         /\ a % 2 = 0 => RoundEven(a) = a
<1>1. a % 4 \in 0..3 /\ (a % 4 = 3 => (a + 1) % 2 = 0) /\ (a % 4 = 1 => (a - 1) % 2 = 0)
  OBVIOUS
<1>2. (a % 4 = 0 \/ a % 4 = 2 <=> a % 2 = 0) /\ (a % 4 = 1 \/ a % 4 = 3 <=> a % 2 = 1)
  OBVIOUS
<1> QED BY <1>1, <1>2 DEF RoundEven

\* A change of whole cents, rounded, keeps a debt and its history together.
LEMMA AgreesOn ==
  ASSUME NEW a \in Int, NEW o \in Int, NEW d \in Int, d % 2 = 0,
         a - o \in -1..1, a % 2 = 1 => a = o
  PROVE  /\ RoundEven(a + d) - (o + d) \in -1..1
         /\ RoundEven(a + d) % 2 = 1 => RoundEven(a + d) = o + d
<1>1. /\ RoundEven(a + d) \in Int /\ RoundEven(a + d) - (a + d) \in -1..1 /\ RoundEven(a + d) % 2 = 0
      /\ (a + d) % 2 = 0 => RoundEven(a + d) = a + d
  BY EvenRounding
<1>2. CASE a % 2 = 0
  <2>1. (a + d) % 2 = 0
    BY <1>2
  <2> QED BY <1>1, <2>1
<1>3. CASE a % 2 = 1
  BY <1>1, <1>3
<1>4. a % 2 = 0 \/ a % 2 = 1
  OBVIOUS
<1> QED BY <1>2, <1>3, <1>4

\* Every step of the debtors keeps the debts with their histories.
LEMMA HistoryStep == DebtorTypeOK /\ DebtInv /\ [DebtorNext]_debtorVars => DebtInv'
<1> SUFFICES ASSUME DebtorTypeOK, DebtInv, [DebtorNext]_debtorVars PROVE DebtInv'
  OBVIOUS
<1>1. ASSUME NEW i \in Debtors, NEW a \in Amounts, CreateDebtor(i, a) PROVE DebtInv'
  <2> DEFINE h == IF a > 0 THEN <<[amount |-> a, type |-> "add"]>> ELSE <<>>
             c == [amount |-> a, type |-> "add"]
  <2>1. a \in Nat /\ c \in Change /\ Signed(c) = a
    BY AmountsAssumption DEF Change, Signed
  <2>2. Owed(<<>>) = 0
    <3>1. <<>> \in Seq(Change) /\ 1..Len(<<>>) = {}
      OBVIOUS
    <3>2. Owed(<<>>) = SumFunctionOnSet([j \in 1..Len(<<>>) |-> Signed(<<>>[j])], {})
      <4> DEFINE f == [j \in 1..Len(<<>>) |-> Signed(<<>>[j])]
      <4>1. 1..Len(f) = {}
        BY <3>1
      <4>2. Owed(<<>>) = Total(f)
        BY <3>1, OwedIsTotal
      <4> QED BY <4>1, <4>2 DEF Total
    <3> QED BY <3>2, SumEmpty
  <2>3. Owed(h) = a
    <3>1. Owed(Append(<<>>, c)) = a
      <4>1. <<>> \in Seq(Change)
        OBVIOUS
      <4>2. Owed(Append(<<>>, c)) = 0 + Signed(c)
        BY <2>1, <2>2, <4>1, OwedAppend
      <4> QED BY <2>1, <4>2
    <3>2. Append(<<>>, c) = <<c>>
      OBVIOUS
    <3>3. CASE a > 0
      BY <3>1, <3>2, <3>3
    <3>4. CASE ~(a > 0)
      BY <2>1, <2>2, <3>4
    <3> QED BY <3>3, <3>4
  <2> HIDE DEF h
  <2>4. Agrees(a, h)
    BY <2>1, <2>3 DEF Agrees
  <2>5. debtor' = [x \in DOMAIN debtor \cup {i} |->
                     IF x # i THEN debtor[x] ELSE [amount |-> a, history |-> h]]
    BY <1>1 DEF CreateDebtor, h
  <2>6. ASSUME NEW x \in DOMAIN debtor' PROVE Agrees(debtor'[x].amount, debtor'[x].history)
    <3>1. CASE x = i
      BY <2>4, <2>5, <3>1
    <3>2. CASE x # i
      BY <2>5, <3>2 DEF DebtInv
    <3> QED BY <3>1, <3>2
  <2> QED BY <2>6 DEF DebtInv
<1>2. ASSUME NEW i \in DOMAIN debtor, RemoveDebtor(i) PROVE DebtInv'
  BY <1>2 DEF RemoveDebtor, DebtInv
<1>3. ASSUME NEW i \in DOMAIN debtor, NEW a \in Amounts, NEW type \in {"add", "subtract"},
             Adjust(i, a, type)
      PROVE  DebtInv'
  <2> DEFINE owed == debtor[i].amount
             s    == debtor[i].history
             m    == RoundMoney(a)
             d    == IF type = "add" THEN m ELSE 0 - m
             c    == [amount |-> m, type |-> type]
  <2>1. debtor' = [debtor EXCEPT ![i] =
           [amount |-> RoundEven(IF type = "add" THEN owed + m ELSE owed - m), history |-> Append(s, c)]]
    BY <1>3 DEF Adjust, Recorded
  <2>2. m \in Nat /\ m % 2 = 0
    <3>1. a \in Nat /\ (a + 1) \div 2 \in Nat
      BY AmountsAssumption
    <3>2. \A q \in Nat : (q * 2) \in Nat /\ (q * 2) % 2 = 0
      OBVIOUS
    <3> QED BY <3>1, <3>2 DEF RoundMoney
  <2>3. owed \in Int /\ s \in Seq(Change) /\ Agrees(owed, s)
    BY DEF DebtorTypeOK, Debtor, DebtInv
  <2> HIDE DEF m
  <2>4. c \in Change /\ Signed(c) = d /\ d \in Int /\ d % 2 = 0
    <3>1. c \in Change
      BY <2>2 DEF Change
    <3>2. d \in Int /\ d % 2 = 0
      BY <2>2
    <3> QED BY <3>1, <3>2 DEF Signed
  <2>5. (IF type = "add" THEN owed + m ELSE owed - m) = owed + d
    BY <2>2, <2>3
  <2>6. Owed(s) \in Int /\ Owed(Append(s, c)) = Owed(s) + d
    BY <2>3, <2>4, OwedAppend
  <2> DEFINE n == Append(s, c)
  <2> HIDE DEF owed, s, c, d, n
  <2>7. Agrees(RoundEven(owed + d), n)
    <3>1. owed - Owed(s) \in -1..1 /\ (owed % 2 = 1 => owed = Owed(s))
      BY <2>3 DEF Agrees
    <3>2. /\ RoundEven(owed + d) - (Owed(s) + d) \in -1..1
          /\ RoundEven(owed + d) % 2 = 1 => RoundEven(owed + d) = Owed(s) + d
      BY <2>3, <2>4, <2>6, <3>1, AgreesOn
    <3> QED BY <2>6, <3>2 DEF Agrees, n
  <2>8. debtor' = [debtor EXCEPT ![i] = [amount |-> RoundEven(owed + d), history |-> n]]
    BY <2>1, <2>5 DEF n
  <2>9. ASSUME NEW x \in DOMAIN debtor' PROVE Agrees(debtor'[x].amount, debtor'[x].history)
    <3>1. CASE x = i
      BY <2>7, <2>8, <3>1
    <3>2. CASE x # i
      BY <2>8, <3>2 DEF DebtInv
    <3> QED BY <3>1, <3>2
  <2> QED BY <2>9 DEF DebtInv
<1>4. CASE UNCHANGED debtorVars
  BY <1>4 DEF debtorVars, DebtInv
<1> QED
  BY <1>1, <1>2, <1>3, <1>4 DEF DebtorNext

\* However often a debt is added to and paid off, it is never less than nothing and what its
\* history adds up to, but for the fraction of a cent of the opening debt: the two roundings do
\* not drift apart.
THEOREM DebtsKeepTheirHistory == DebtorSpec => []DebtIsHistory
<1>1. DebtorInit => DebtorTypeOK /\ NeverOwing /\ DebtInv
  BY DEF DebtorInit, DebtorTypeOK, NeverOwing, DebtInv
<1>2. NeverOwing /\ DebtInv => DebtIsHistory
  BY DEF NeverOwing, DebtInv, Agrees, DebtIsHistory
<1> QED
  BY <1>1, <1>2, DebtorStep, HistoryStep, PTL DEF DebtorSpec

-----------------------------------------------------------------------------
(* The read cache.                                                         *)

\* A value that a key may be answered with: of its route, no older than the key.
Good(k, v) == v \in Value /\ v.route = k.route /\ k.rev <= v.rev /\ v.rev <= rev

GoodEntry   == {e \in Entry : Good(e.key, e.value)}
GoodPending == {p \in Pending : p.key.rev <= rev /\ (p.value # NoValue => Good(p.key, p.value))}
GoodRead    == {x \in Request :
                  /\ x.stage \in {"keyed", "joined", "answered"} =>
                       x.key \in Key /\ x.asked = x.key.rev /\ x.asked <= rev
                  /\ x.stage = "answered" => Good(x.key, x.value)}

CacheInv ==
  /\ rev \in Nat /\ read \in [Reads -> GoodRead]
  /\ entries \in Seq(GoodEntry) /\ pending \subseteq GoodPending

\* Taking an element out of a sequence leaves a sequence.
LEMMA Removed ==
  ASSUME NEW S, NEW s \in Seq(S), NEW i \in DOMAIN s
  PROVE  RemoveAt(s, i) \in Seq(S)
<1>1. SubSeq(s, 1, i - 1) \in Seq(S) /\ SubSeq(s, i + 1, Len(s)) \in Seq(S)
  OBVIOUS
<1> QED
  BY <1>1 DEF RemoveAt

\* An empty cache holds nothing stale.
LEMMA CacheStart == CacheInit => CacheInv
<1> SUFFICES ASSUME CacheInit PROVE CacheInv
  OBVIOUS
<1>1. [stage |-> "new", asked |-> 0, key |-> NoValue, value |-> NoValue] \in GoodRead
  BY DEF GoodRead, Request
<1> QED
  BY <1>1 DEF CacheInit, CacheInv

\* What was good stays good when a write commits.
LEMMA CommitStep == CacheInv /\ Commit => CacheInv'
<1> SUFFICES ASSUME CacheInv, Commit PROVE CacheInv'
  OBVIOUS
<1>1. rev \in Nat /\ rev' = rev + 1 /\ UNCHANGED <<read, entries, pending>>
  BY DEF CacheInv, Commit
<1>2. GoodEntry \subseteq GoodEntry'
  BY <1>1 DEF GoodEntry, Good, Entry, Value
<1>4. GoodPending \subseteq GoodPending'
  BY <1>1 DEF GoodPending, Good, Pending, Key, Value
<1>5. GoodRead \subseteq GoodRead'
  BY <1>1 DEF GoodRead, Good, Request, Key, Value
<1>6. entries \in Seq(GoodEntry')
  BY <1>2 DEF CacheInv
<1> QED
  BY <1>1, <1>4, <1>5, <1>6 DEF CacheInv
\* The requests of a fill are answered or refused together.
LEMMA Answering ==
  ASSUME CacheInv, NEW R \in SUBSET Reads, NEW st \in {"answered", "failed"},
         NEW v \in Value \cup {NoValue}, UNCHANGED rev, read' = Answer(R, st, v),
         st = "answered" => \A r \in R : read[r].stage \in {"keyed", "joined"} /\ Good(read[r].key, v)
  PROVE  read' \in [Reads -> GoodRead']
<1>1. GoodRead' = GoodRead
  BY DEF GoodRead, Good
<1>2. ASSUME NEW r \in Reads PROVE read'[r] \in GoodRead
  <2>1. read[r] \in GoodRead /\ read[r] \in Request
    BY DEF CacheInv, GoodRead
  <2>2. CASE r \in R
    <3> DEFINE x == [read[r] EXCEPT !.stage = st, !.value = v]
    <3>1. read'[r] = x
      BY <2>2 DEF Answer
    <3>2. x \in Request
      <4>1. st \in {"new", "keyed", "joined", "answered", "failed"}
        OBVIOUS
      <4> QED
        BY <2>1, <4>1, Zenon DEF Request
    <3>3. /\ x.stage = st /\ x.value = v /\ x.key = read[r].key /\ x.asked = read[r].asked
      BY <2>1, Zenon DEF Request
    <3> HIDE DEF x
    <3> QED
      BY <2>1, <2>2, <3>1, <3>2, <3>3 DEF GoodRead
  <2>3. CASE r \notin R
    BY <2>1, <2>3 DEF Answer
  <2> QED
    BY <2>2, <2>3
<1> QED
  BY <1>1, <1>2 DEF Answer

\* A request arrives.
LEMMA AskReadStep ==
  ASSUME CacheInv, NEW r \in Reads, NEW q \in Routes, AskRead(r, q)
  PROVE  CacheInv'
<1> DEFINE x == [read[r] EXCEPT !.stage = "keyed", !.asked = rev, !.key = KeyOf(q)]
<1>1. /\ UNCHANGED <<rev, entries, bytes, pending>> /\ read' = [read EXCEPT ![r] = x]
  BY DEF AskRead
<1>2. read \in [Reads -> GoodRead] /\ read[r] \in Request /\ rev \in Nat /\ KeyOf(q) \in Key \cup {NoValue}
  BY DEF CacheInv, GoodRead, KeyOf, Key
<1>3. x \in Request
  BY <1>2, Zenon DEF Request
<1>4. x.stage = "keyed" /\ x.asked = rev /\ x.key = KeyOf(q)
  BY <1>2, Zenon DEF Request
<1>5. KeyOf(q) \in Key /\ KeyOf(q).rev = rev
  BY <1>2 DEF KeyOf, Key
<1> HIDE DEF x
<1>6. x \in GoodRead
  BY <1>2, <1>3, <1>4, <1>5 DEF GoodRead
<1> QED
  BY <1>1, <1>2, <1>6 DEF CacheInv, GoodRead, GoodEntry, GoodPending, Good

\* A request finds an entry.
LEMMA HitStep ==
  ASSUME CacheInv, NEW r \in Reads, Hit(r)
  PROVE  CacheInv'
<1>1. PICK i \in DOMAIN entries :
        /\ entries[i].key = read[r].key
        /\ read' = Answer({r}, "answered", entries[i].value)
        /\ entries' = Append(RemoveAt(entries, i), entries[i])
  BY DEF Hit, Found
<1>2. UNCHANGED <<rev, bytes, pending>> /\ read[r].stage = "keyed"
  BY DEF Hit
<1>3. entries \in Seq(GoodEntry) /\ entries[i] \in GoodEntry
  BY DEF CacheInv
<1>4. entries' \in Seq(GoodEntry)
  BY <1>1, <1>3, Removed
<1>5. entries[i].value \in Value /\ Good(read[r].key, entries[i].value)
  BY <1>1, <1>3 DEF GoodEntry, Good
<1>6. /\ {r} \in SUBSET Reads
      /\ \A y \in {r} : read[y].stage \in {"keyed", "joined"} /\ Good(read[y].key, entries[i].value)
  BY <1>2, <1>5
<1> DEFINE v == entries[i].value
           R == {r}
<1>7. /\ v \in Value \cup {NoValue} /\ R \in SUBSET Reads /\ read' = Answer(R, "answered", v)
      /\ \A y \in R : read[y].stage \in {"keyed", "joined"} /\ Good(read[y].key, v)
  BY <1>1, <1>5, <1>6
<1> HIDE DEF v, R
<1>8. read' \in [Reads -> GoodRead']
  BY <1>2, <1>7, Answering
<1> QED
  BY <1>2, <1>4, <1>8 DEF CacheInv, GoodEntry, GoodPending, Good

\* A request finds none and joins or starts a fill.
LEMMA MissStep ==
  ASSUME CacheInv, NEW r \in Reads, Miss(r)
  PROVE  CacheInv'
<1>1. /\ UNCHANGED rev /\ read[r].stage = "keyed" /\ DropExpired(read[r].key)
      /\ \/ /\ read' = [read EXCEPT ![r].stage = "joined"]
            /\ pending' \in {pending, pending \cup {[key |-> read[r].key, value |-> NoValue]}}
         \/ read' = [read EXCEPT ![r].stage = "failed"] /\ UNCHANGED pending
  BY DEF Miss
<1>2. /\ read \in [Reads -> GoodRead] /\ read[r] \in GoodRead /\ read[r] \in Request
      /\ entries \in Seq(GoodEntry) /\ pending \subseteq GoodPending
      /\ read[r].key \in Key /\ read[r].key.rev <= rev
  BY <1>1 DEF CacheInv, GoodRead
<1>3. entries' \in Seq(GoodEntry)
  BY <1>1, <1>2, Removed DEF DropExpired, Found
<1>4. ASSUME NEW st \in {"joined", "failed"} PROVE [read[r] EXCEPT !.stage = st] \in GoodRead
  <2> DEFINE x == [read[r] EXCEPT !.stage = st]
  <2>1. x \in Request
    <3>1. st \in {"new", "keyed", "joined", "answered", "failed"}
      OBVIOUS
    <3> QED
      BY <1>2, <3>1, Zenon DEF Request
  <2>2. x.stage = st /\ x.key = read[r].key /\ x.asked = read[r].asked
    BY <1>2, Zenon DEF Request
  <2> HIDE DEF x
  <2>3. x \in GoodRead
    BY <1>1, <1>2, <2>1, <2>2 DEF GoodRead
  <2> QED
    BY <2>3 DEF x
<1>5. read' \in [Reads -> GoodRead]
  BY <1>1, <1>2, <1>4
<1>6. [key |-> read[r].key, value |-> NoValue] \in GoodPending
  BY <1>2 DEF GoodPending, Pending
<1>7. pending' \subseteq GoodPending
  BY <1>1, <1>2, <1>6
<1> QED
  BY <1>1, <1>3, <1>5, <1>7 DEF CacheInv, GoodEntry, GoodPending, GoodRead, Good

\* A fill reads the data.
LEMMA LoadStep ==
  ASSUME CacheInv, NEW p \in pending, Load(p)
  PROVE  CacheInv'
<1> DEFINE v == [route |-> p.key.route, rev |-> rev]
           x == [p EXCEPT !.value = v]
<1>1. UNCHANGED <<rev, read, entries, bytes>> /\ pending' = (pending \ {p}) \cup {x}
  BY DEF Load
<1>2. p \in Pending /\ p.key \in Key /\ p.key.rev <= rev /\ rev \in Nat /\ pending \subseteq GoodPending
  BY DEF CacheInv, GoodPending, Pending
<1>3. v \in Value /\ Good(p.key, v)
  BY <1>2 DEF Key, Value, Good
<1> HIDE DEF v
<1>4. x \in Pending /\ x.key = p.key /\ x.value = v
  BY <1>2, <1>3 DEF Pending
<1> HIDE DEF x
<1>5. x \in GoodPending
  BY <1>2, <1>3, <1>4 DEF GoodPending
<1> QED
  BY <1>1, <1>2, <1>5 DEF CacheInv, GoodEntry, GoodPending, GoodRead, Good

\* A fill ends, stored or not, with or without a value.
LEMMA FillStep ==
  ASSUME CacheInv, NEW p \in pending
  PROVE  (\E size \in Sizes : Fill(p, size)) \/ LoadFails(p) => CacheInv'
<1> SUFFICES ASSUME (\E size \in Sizes : Fill(p, size)) \/ LoadFails(p) PROVE CacheInv'
  OBVIOUS
<1>1. /\ p \in GoodPending /\ entries \in Seq(GoodEntry) /\ rev \in Nat /\ p.key \in Key
  BY DEF CacheInv, GoodPending, Pending
<1>2. Joined(p) \in SUBSET Reads
  BY DEF Joined
<1>3. UNCHANGED rev /\ pending' \subseteq GoodPending
  BY DEF Fill, LoadFails, CacheInv
<1>4. ASSUME NEW size \in Sizes, Fill(p, size) PROVE CacheInv'
  <2>1. p.value # NoValue /\ read' = Answer(Joined(p), "answered", p.value) /\ size \in Nat
    BY <1>4, CacheAssumption DEF Fill
  <2>2. p.value \in Value /\ Good(p.key, p.value)
    BY <1>1, <2>1 DEF GoodPending, Good
  <2>3. \A r \in Joined(p) : read[r].stage \in {"keyed", "joined"} /\ Good(read[r].key, p.value)
    BY <2>2 DEF Joined
  <2>4. read' \in [Reads -> GoodRead']
    BY <1>2, <1>3, <2>1, <2>2, <2>3, Answering
  <2>5. [key |-> p.key, value |-> p.value, bytes |-> size, live |-> TRUE] \in GoodEntry
    BY <1>1, <2>1, <2>2 DEF GoodEntry, Entry
  <2>6. entries' \in Seq(GoodEntry)
    <3>1. CASE UNCHANGED <<entries, bytes>>
      BY <1>1, <3>1
    <3>2. CASE \E n \in 0..Len(entries) :
                 entries' = Append(SubSeq(entries, n + 1, Len(entries)),
                                   [key |-> p.key, value |-> p.value, bytes |-> size, live |-> TRUE])
      <4>1. PICK n \in 0..Len(entries) :
                 entries' = Append(SubSeq(entries, n + 1, Len(entries)),
                                   [key |-> p.key, value |-> p.value, bytes |-> size, live |-> TRUE])
        BY <3>2
      <4>2. SubSeq(entries, n + 1, Len(entries)) \in Seq(GoodEntry)
        BY <1>1
      <4> QED
        BY <2>5, <4>1, <4>2
    <3> QED
      BY <1>4, <3>1, <3>2 DEF Fill
  <2> QED
    BY <1>1, <1>3, <2>4, <2>6 DEF CacheInv, GoodEntry, GoodPending, Good
<1>5. CASE LoadFails(p)
  <2>1. UNCHANGED <<entries, bytes>> /\ read' = Answer(Joined(p), "failed", NoValue)
    BY <1>5 DEF LoadFails
  <2>2. read' \in [Reads -> GoodRead']
    BY <1>2, <1>3, <2>1, Answering
  <2> QED
    BY <1>1, <1>3, <2>1, <2>2 DEF CacheInv, GoodEntry, GoodPending, Good
<1> QED
  BY <1>4, <1>5

\* Every step of the cache.
LEMMA CacheStep == CacheInv /\ [CacheNext]_cacheVars => CacheInv'
<1> SUFFICES ASSUME CacheInv, [CacheNext]_cacheVars PROVE CacheInv'
  OBVIOUS
<1>1. ASSUME NEW i \in DOMAIN entries, ExpireEntry(i) PROVE CacheInv'
  <2>1. /\ UNCHANGED <<rev, read, bytes, pending>> /\ entries' = [entries EXCEPT ![i].live = FALSE]
        /\ entries \in Seq(GoodEntry) /\ entries[i] \in GoodEntry
    BY <1>1 DEF ExpireEntry, CacheInv
  <2>2. [entries[i] EXCEPT !.live = FALSE] \in GoodEntry
    BY <2>1 DEF GoodEntry, Entry
  <2>3. entries' \in Seq(GoodEntry)
    BY <2>1, <2>2
  <2> QED
    BY <2>1, <2>3 DEF CacheInv, GoodEntry, GoodPending, GoodRead, Good
<1>2. CASE UNCHANGED cacheVars
  BY <1>2 DEF cacheVars, CacheInv, GoodEntry, GoodPending, GoodRead, Good
<1> QED
  BY <1>1, <1>2, CommitStep, AskReadStep, HitStep, MissStep, LoadStep, FillStep DEF CacheNext
-----------------------------------------------------------------------------
(* Reports reach those who asked.                                          *)

\* That there is always a thread and a timer left to choose is not needed here: these are the
\* threads and timers that a choice may give.
Chosen(S)  == {Least(T) : T \in SUBSET S} \cup {None}
LoosePool  == [queue : Seq(Exports), active : Task, worker : Chosen(Threads), deadline : BOOLEAN,
               idle : Chosen(Timers), armed : SUBSET Chosen(Timers),
               running : [Threads -> Task \cup {"gone"}], stopping : BOOLEAN]

\* The thread in use works on the task in hand.
Linked(p) == p.active # None /\ p.worker \in Threads => p.running[p.worker] = p.active

ReportInv ==
  /\ stage \in [Exports -> Stages] /\ report \in [Exports -> Task]
  /\ pool \in LoosePool /\ Linked(pool) /\ OwnReport

\* The free thread and the free timer are among those there are.
LEMMA Choosing ==
  ASSUME NEW p
  PROVE  FreeThread(p) \in Chosen(Threads) /\ FreeTimer(p) \in Chosen(Timers)
<1>1. {w \in Threads : p.running[w] = "gone"} \in SUBSET Threads /\ Timers \ p.armed \in SUBSET Timers
  OBVIOUS
<1> QED
  BY <1>1 DEF FreeThread, FreeTimer, Chosen

\* Arming the idle timer changes nothing that runs.
LEMMA Resting ==
  ASSUME NEW p \in LoosePool
  PROVE  Rested(p) \in LoosePool /\ Rested(p).active = p.active
<1> DEFINE t == FreeTimer(p)
           a == p.armed \cup {t}
<1>1. t \in Chosen(Timers) /\ p.armed \in SUBSET Chosen(Timers)
  BY Choosing DEF LoosePool
<1> HIDE DEF t
<1>2. a \in SUBSET Chosen(Timers)
  BY <1>1
<1>3. Rested(p) = [p EXCEPT !.idle = t, !.armed = a]
  BY DEF Rested, t, LoosePool
<1> HIDE DEF a
<1> QED
  BY <1>1, <1>2, <1>3, Zenon DEF LoosePool

\* Dropping what waits at the head changes nothing that runs.
LEMMA Skipping ==
  ASSUME NEW p \in LoosePool, NEW n \in Nat
  PROVE  Skipped(p, n) \in LoosePool /\ Skipped(p, n).active = p.active
<1> DEFINE q == SubSeq(p.queue, n + 1, Len(p.queue))
<1>1. p.queue \in Seq(Exports)
  BY DEF LoosePool
<1>2. q \in Seq(Exports)
  BY <1>1
<1>3. Skipped(p, n) = [p EXCEPT !.queue = q]
  BY DEF Skipped, LoosePool
<1> HIDE DEF q
<1> QED
  BY <1>2, <1>3, Zenon DEF LoosePool

\* Making the thread ready changes neither what runs nor what waits.
LEMMA Awaking ==
  ASSUME NEW p \in LoosePool
  PROVE  /\ Awake(p) \in LoosePool /\ Awake(p).active = p.active /\ Awake(p).queue = p.queue
<1> DEFINE w == IF p.worker = None THEN FreeThread(p) ELSE p.worker
           a == p.armed \ {p.idle}
           x == IF p.worker = None THEN None ELSE p.running[w]
           r == [p.running EXCEPT ![w] = x]
<1>1. w \in Chosen(Threads) /\ a \in SUBSET Chosen(Timers)
  BY Choosing DEF LoosePool
<1>2. r \in [Threads -> Task \cup {"gone"}]
  BY DEF LoosePool, Task
<1>3. Awake(p) = [p EXCEPT !.armed = a, !.worker = w, !.running = r]
  BY DEF Awake, LoosePool
<1> HIDE DEF w, a, x, r
<1> QED
  BY <1>1, <1>2, <1>3, Zenon DEF LoosePool

\* A task that is started runs on the thread that is listened to.
LEMMA Starting ==
  ASSUME NEW p \in LoosePool, p.queue # <<>>
  PROVE  Started(p) \in LoosePool /\ Linked(Started(p))
<1> DEFINE q == Tail(p.queue)
           h == Head(p.queue)
           r == [p.running EXCEPT ![p.worker] = h]
<1>1. p.queue \in Seq(Exports) /\ p.running \in [Threads -> Task \cup {"gone"}]
  BY DEF LoosePool
<1>2. q \in Seq(Exports) /\ h \in Task
  BY <1>1 DEF Task
<1>3. r \in [Threads -> Task \cup {"gone"}] /\ (p.worker \in Threads => r[p.worker] = h)
  BY <1>1, <1>2
<1>4. Started(p) = [p EXCEPT !.queue = q, !.active = h, !.running = r, !.deadline = TRUE]
  BY DEF Started, LoosePool
<1> HIDE DEF q, h, r
<1>5. Started(p) \in LoosePool
  BY <1>2, <1>3, <1>4, Zenon DEF LoosePool
<1>6. Started(p).active = h /\ Started(p).running = r /\ Started(p).worker = p.worker
  BY <1>4, Zenon DEF LoosePool
<1> QED
  BY <1>3, <1>5, <1>6 DEF Linked

\* A drain starts one task at most.
LEMMA Draining ==
  ASSUME NEW p \in LoosePool, NEW n \in Nat, Linked(p)
  PROVE  Drained(p, n) \in LoosePool /\ Linked(Drained(p, n))
<1>1. CASE p.active # None \/ p.stopping
  BY <1>1 DEF Drained
<1>2. CASE ~(p.active # None \/ p.stopping) /\ p.queue = <<>>
  BY <1>2, Resting DEF Drained, Linked
<1>3. CASE ~(p.active # None \/ p.stopping) /\ p.queue # <<>>
  <2> DEFINE s == Skipped(Awake(p), n)
  <2>1. s \in LoosePool /\ s.active = None
    BY <1>3, Awaking, Skipping
  <2>2. Drained(p, n) = IF s.queue = <<>> THEN Rested(s) ELSE Started(s)
    BY <1>3 DEF Drained
  <2> HIDE DEF s
  <2>3. s.queue # <<>> => Started(s) \in LoosePool /\ Linked(Started(s))
    BY <2>1, Starting
  <2>4. Rested(s) \in LoosePool /\ Linked(Rested(s))
    BY <2>1, Resting DEF Linked
  <2> QED
    BY <2>2, <2>3, <2>4
<1> QED
  BY <1>1, <1>2, <1>3

\* Whoever leaves as answered is the one named, or had been answered before.
LEMMA Leaving ==
  ASSUME NEW stages \in [Exports -> Stages], NEW failed, NEW answered, Leave(stages, failed, answered)
  PROVE  /\ stage' \in [Exports -> Stages]
         /\ \A j \in Exports : stage'[j] = "answered" => j \in answered \/ stages[j] = "answered"
  BY DEF Leave, Stages

\* A drain, with the answers it gives to those it drops.
LEMMA DrainsStep ==
  ASSUME NEW p \in LoosePool, Linked(p), NEW stages \in [Exports -> Stages], NEW failed, NEW answered,
         Drain(p, stages, failed, answered)
  PROVE  /\ pool' \in LoosePool /\ Linked(pool') /\ stage' \in [Exports -> Stages]
         /\ \A j \in Exports : stage'[j] = "answered" => j \in answered \/ stages[j] = "answered"
<1>1. Len(p.queue) \in Nat
  BY DEF LoosePool
<1>2. PICK n \in 0..(IF p.active # None \/ p.stopping THEN 0 ELSE Len(p.queue)) :
        /\ pool' = Drained(p, n)
        /\ Leave(stages, failed \cup {p.queue[i] : i \in 1..n}, answered)
  BY Zenon DEF Drain
<1>3. n \in Nat
  BY <1>1
<1> QED
  BY <1>2, <1>3, Draining, Leaving

\* No report is under way at first.
LEMMA ReportStart == ExportInit => ReportInv
<1> SUFFICES ASSUME ExportInit PROVE ReportInv
  OBVIOUS
<1>1. pool \in LoosePool /\ Linked(pool)
  BY DEF ExportInit, LoosePool, Linked, Task, Chosen
<1>2. stage \in [Exports -> Stages] /\ report \in [Exports -> Task] /\ OwnReport
  BY DEF ExportInit, OwnReport, Stages, Task
<1> QED
  BY <1>1, <1>2 DEF ReportInv

\* Steps that send no report.
LEMMA SilentStep ==
  ASSUME ReportInv, UNCHANGED report, pool' \in LoosePool, Linked(pool'),
         stage' \in [Exports -> Stages],
         \A j \in Exports : stage'[j] = "answered" => stage[j] = "answered"
  PROVE  ReportInv'
  BY DEF ReportInv, OwnReport

\* The steps of a request that asks for a report.
LEMMA RequestSteps ==
  ASSUME ReportInv, NEW j \in Exports, Ask(j) \/ WaitExpires(j) \/ Export(j) \/ ReadFails(j)
  PROVE  ReportInv'
<1>0. stage \in [Exports -> Stages] /\ pool \in LoosePool /\ Linked(pool)
  BY DEF ReportInv
<1>1. CASE Ask(j) \/ WaitExpires(j)
  <2>1. /\ UNCHANGED <<report, pool>>
        /\ stage' = stage \/ \E st \in {"reading", "waiting", "failed"} : stage' = [stage EXCEPT ![j] = st]
    BY <1>1 DEF Ask, WaitExpires
  <2>2. /\ stage' \in [Exports -> Stages]
        /\ \A x \in Exports : stage'[x] = "answered" => stage[x] = "answered"
    BY <1>0, <2>1 DEF Stages
  <2> QED
    BY <1>0, <2>1, <2>2, SilentStep
<1>2. CASE ReadFails(j)
  BY <1>0, <1>2, Leaving, SilentStep DEF ReadFails
<1>3. CASE Export(j)
  <2>1. UNCHANGED report
    BY <1>3 DEF Export
  <2>2. CASE Leave(stage, {j}, {}) /\ UNCHANGED pool
    BY <1>0, <2>1, <2>2, Leaving, SilentStep
  <2>3. CASE Drain([pool EXCEPT !.queue = Append(pool.queue, j)],
                   [stage EXCEPT ![j] = "exporting"], {}, {})
    <3> DEFINE q == Append(pool.queue, j)
               p == [pool EXCEPT !.queue = q]
               stages == [stage EXCEPT ![j] = "exporting"]
    <3>1. q \in Seq(Exports)
      BY <1>0 DEF LoosePool
    <3> HIDE DEF q
    <3>2. p \in LoosePool
      BY <1>0, <3>1, Zenon DEF LoosePool
    <3>3. p.active = pool.active /\ p.worker = pool.worker /\ p.running = pool.running
      BY <1>0, Zenon DEF LoosePool
    <3>4. Linked(p)
      BY <1>0, <3>3 DEF Linked
    <3>5. /\ stages \in [Exports -> Stages]
          /\ \A x \in Exports : stages[x] = "answered" => stage[x] = "answered"
      BY <1>0 DEF Stages
    <3>6. Drain(p, stages, {}, {})
      BY <2>3 DEF q
    <3> HIDE DEF p, stages
    <3> QED
      BY <2>1, <3>2, <3>4, <3>5, <3>6, DrainsStep, SilentStep
  <2> QED
    BY <1>3, <2>2, <2>3 DEF Export
<1> QED
  BY <1>1, <1>2, <1>3

\* A report is believed only from the thread in use, and that one works on the task in hand.
LEMMA MessageStep ==
  ASSUME ReportInv, NEW w \in Threads, Message(w)
  PROVE  ReportInv'
<1>0. /\ stage \in [Exports -> Stages] /\ report \in [Exports -> Task] /\ OwnReport
      /\ pool \in LoosePool /\ Linked(pool) /\ pool.running \in [Threads -> Task \cup {"gone"}]
  BY DEF ReportInv, LoosePool
<1> DEFINE freed == [pool.running EXCEPT ![w] = None]
<1>1. pool.running[w] \in Exports /\ Freed(w) = [pool EXCEPT !.running = freed]
  BY <1>0 DEF Message, Freed, LoosePool
<1>2. freed \in [Threads -> Task \cup {"gone"}] /\ \A x \in Threads \ {w} : freed[x] = pool.running[x]
  BY <1>0 DEF Task
<1> HIDE DEF freed
<1>3. CASE ~InUse(w)
  <2>1. pool' = [pool EXCEPT !.running = freed] /\ UNCHANGED <<stage, report>>
    BY <1>1, <1>3 DEF Message
  <2>2. pool' \in LoosePool
    BY <1>0, <1>2, <2>1, Zenon DEF LoosePool
  <2>3. pool'.active = pool.active /\ pool'.worker = pool.worker /\ pool'.running = freed
    BY <1>0, <2>1, Zenon DEF LoosePool
  <2>4. Linked(pool')
    BY <1>0, <1>2, <1>3, <2>3 DEF Linked, InUse
  <2> QED
    BY <1>0, <2>1, <2>2, <2>4, SilentStep
<1>4. CASE InUse(w)
  <2> DEFINE p == [pool EXCEPT !.running = freed, !.active = None, !.deadline = FALSE]
  <2>1. /\ [Freed(w) EXCEPT !.active = None, !.deadline = FALSE] = p
    BY <1>0, <1>1 DEF LoosePool
  <2>2. \/ /\ Drain(p, stage, {}, {pool.active})
           /\ report' = [report EXCEPT ![pool.active] = pool.running[w]]
        \/ Drain(p, stage, {pool.active}, {}) /\ UNCHANGED report
    BY <1>4, <2>1 DEF Message
  <2>3. None \in Task
    BY DEF Task
  <2>4. p \in LoosePool /\ p.active = None
    BY <1>0, <1>2, <2>3, Zenon DEF LoosePool
  <2>5. Linked(p)
    BY <2>4 DEF Linked
  <2> HIDE DEF p
  <2>6. pool.active = pool.running[w] /\ pool.active \in Exports
    BY <1>0, <1>1, <1>4 DEF Linked, InUse
  <2>7. CASE /\ Drain(p, stage, {}, {pool.active})
             /\ report' = [report EXCEPT ![pool.active] = pool.running[w]]
    <3>1. /\ pool' \in LoosePool /\ Linked(pool') /\ stage' \in [Exports -> Stages]
          /\ \A j \in Exports : stage'[j] = "answered" => j = pool.active \/ stage[j] = "answered"
      BY <1>0, <2>4, <2>5, <2>7, DrainsStep
    <3>2. report' \in [Exports -> Task]
      BY <1>0, <2>6, <2>7 DEF Task
    <3>3. report'[pool.active] = pool.active
      BY <1>0, <2>6, <2>7
    <3>4. \A j \in Exports : j # pool.active => report'[j] = report[j]
      BY <1>0, <2>7
    <3>5. OwnReport'
      BY <1>0, <3>1, <3>3, <3>4 DEF OwnReport
    <3> QED
      BY <3>1, <3>2, <3>5 DEF ReportInv
  <2>8. CASE Drain(p, stage, {pool.active}, {}) /\ UNCHANGED report
    BY <1>0, <2>4, <2>5, <2>8, DrainsStep, SilentStep
  <2> QED
    BY <2>2, <2>7, <2>8
<1> QED
  BY <1>3, <1>4

\* A thread dies or exits.
LEMMA ThreadSteps ==
  ASSUME ReportInv, NEW w \in Threads, Dies(w) \/ Exits(w)
  PROVE  ReportInv'
<1>0. /\ stage \in [Exports -> Stages] /\ pool \in LoosePool /\ Linked(pool)
      /\ pool.running \in [Threads -> Task \cup {"gone"}]
  BY DEF ReportInv, LoosePool
<1> DEFINE r == [pool.running EXCEPT ![w] = "gone"]
<1>1. r \in [Threads -> Task \cup {"gone"}] /\ \A x \in Threads \ {w} : r[x] = pool.running[x]
  BY <1>0
<1>2. None \in Task /\ None \in Chosen(Threads)
  BY DEF Task, Chosen
<1>3. CASE Dies(w)
  <2> DEFINE p == [pool EXCEPT !.worker = None, !.deadline = FALSE, !.active = None, !.running = r]
  <2>1. Drain(p, stage, Current, {}) /\ UNCHANGED report
    BY <1>0, <1>3 DEF Dies, LoosePool
  <2> HIDE DEF r
  <2>2. p \in LoosePool /\ p.active = None
    BY <1>0, <1>1, <1>2, Zenon DEF LoosePool
  <2>3. Linked(p)
    BY <2>2 DEF Linked
  <2> HIDE DEF p
  <2> QED
    BY <1>0, <2>1, <2>2, <2>3, DrainsStep, SilentStep
<1>4. CASE Exits(w)
  <2>1. pool' = [pool EXCEPT !.running = r] /\ pool.worker # w /\ UNCHANGED <<stage, report>>
    BY <1>0, <1>4 DEF Exits, LoosePool
  <2> HIDE DEF r
  <2>2. pool' \in LoosePool
    BY <1>0, <1>1, <2>1, Zenon DEF LoosePool
  <2>3. pool'.active = pool.active /\ pool'.worker = pool.worker /\ pool'.running = r
    BY <1>0, <2>1, Zenon DEF LoosePool
  <2>4. Linked(pool')
    BY <1>0, <1>1, <2>1, <2>3 DEF Linked
  <2> QED
    BY <1>0, <2>1, <2>2, <2>4, SilentStep
<1> QED
  BY <1>3, <1>4

\* A timer fires, or the process closes.
LEMMA TimerSteps ==
  ASSUME ReportInv, (\E t \in Timers : IdleFires(t)) \/ Deadline \/ Close
  PROVE  ReportInv'
<1>0. stage \in [Exports -> Stages] /\ pool \in LoosePool /\ Linked(pool)
  BY DEF ReportInv
<1>1. None \in Task /\ None \in Chosen(Threads)
  BY DEF Task, Chosen
<1>2. ASSUME NEW t \in Timers, IdleFires(t) PROVE ReportInv'
  <2> DEFINE a == pool.armed \ {t}
  <2>1. pool' = [pool EXCEPT !.armed = a, !.worker = None] /\ UNCHANGED <<stage, report>>
    BY <1>0, <1>2 DEF IdleFires, LoosePool
  <2>2. a \in SUBSET Chosen(Timers)
    BY <1>0 DEF LoosePool
  <2> HIDE DEF a
  <2>3. pool' \in LoosePool /\ pool'.worker = None
    BY <1>0, <1>1, <2>1, <2>2, Zenon DEF LoosePool
  <2>4. Linked(pool')
    BY <2>3, ExportsAssumption DEF Linked, Threads
  <2> QED
    BY <1>0, <2>1, <2>3, <2>4, SilentStep
<1>3. CASE Deadline
  <2> DEFINE p == [pool EXCEPT !.worker = None, !.deadline = FALSE, !.active = None]
  <2>1. Drain(p, stage, Current, {}) /\ UNCHANGED report
    BY <1>3 DEF Deadline
  <2>2. p \in LoosePool /\ p.active = None
    BY <1>0, <1>1, Zenon DEF LoosePool
  <2>3. Linked(p)
    BY <2>2 DEF Linked
  <2> HIDE DEF p
  <2> QED
    BY <1>0, <2>1, <2>2, <2>3, DrainsStep, SilentStep
<1>4. CASE Close
  <2> DEFINE a == pool.armed \ {pool.idle}
             q == <<>>
  <2>1. /\ pool' = [pool EXCEPT !.stopping = TRUE, !.armed = a, !.deadline = FALSE, !.active = None,
                                !.queue = q, !.worker = None]
        /\ Leave(stage, Current \cup InSeq(pool.queue), {}) /\ UNCHANGED report
    BY <1>0, <1>4 DEF Close, LoosePool
  <2>2. a \in SUBSET Chosen(Timers) /\ q \in Seq(Exports)
    BY <1>0 DEF LoosePool
  <2> HIDE DEF a, q
  <2>3. pool' \in LoosePool /\ pool'.active = None
    BY <1>0, <1>1, <2>1, <2>2, Zenon DEF LoosePool
  <2>4. Linked(pool')
    BY <2>3 DEF Linked
  <2> QED
    BY <1>0, <2>1, <2>3, <2>4, Leaving, SilentStep
<1> QED
  BY <1>2, <1>3, <1>4

\* Every step of the report worker.
LEMMA ReportStep == ReportInv /\ [ExportNext]_exportVars => ReportInv'
<1>1. ReportInv /\ UNCHANGED exportVars => ReportInv'
  BY DEF exportVars, ReportInv, LoosePool, Linked, OwnReport
<1> QED
  BY <1>1, RequestSteps, MessageStep, ThreadSteps, TimerSteps DEF ExportNext

-----------------------------------------------------------------------------
(* The process.                                                            *)

\* The process takes a step of the one or of the other.
LEMMA Handling == [Next]_vars => [CacheNext]_cacheVars /\ [ExportNext]_exportVars
  BY DEF Next, Handle, vars, cacheVars, exportVars

\* However many exports, slots and threads there are, a report that an abandoned thread sends
\* late reaches nobody, and each client gets its own.
THEOREM ReportsReachTheirOwn == Spec => []OwnReport
<1>1. ReportInv => OwnReport
  BY DEF ReportInv
<1> QED
  BY <1>1, ReportStart, ReportStep, Handling, PTL DEF Spec, Init

-----------------------------------------------------------------------------
(* What the cache holds.                                                   *)

\* The size of the stored responses is the sum of their sizes.
LEMMA SizeIsTotal ==
  ASSUME NEW s \in Seq(Entry)
  PROVE  SizeOf(s) = Total([i \in 1..Len(s) |-> s[i].bytes])
<1> DEFINE S == DOMAIN s
           f == [i \in 1..Len(s) |-> s[i].bytes]
           Raw(k) == [t \in SUBSET S |-> IF t = {} THEN 0
                        ELSE s[CHOOSE x \in t : TRUE].bytes + k[t \ {CHOOSE x \in t : TRUE}]]
           iter == CHOOSE k : k = Raw(k)
<1>1. SizeOf(s) = iter[S]
  BY Zenon DEF SizeOf, FoldSeq, FoldFunction, FoldFunctionOnSet, MapThenFoldSet
<1>2. S = 1..Len(s) /\ Len(s) \in Nat /\ IsFiniteSet(S) /\ \A i \in S : f[i] = s[i].bytes /\ f[i] \in Int
  <2>1. S = 1..Len(s) /\ Len(s) \in Nat
    OBVIOUS
  <2>2. IsFiniteSet(1..Len(s))
    BY <2>1, FS_Interval
  <2>3. \A i \in S : s[i] \in Entry
    OBVIOUS
  <2> QED BY <2>1, <2>2, <2>3 DEF Entry
<1>3. \A k : AddingFold(k, f, S) <=> k = Raw(k)
  <2>1. \A t \in SUBSET S : t # {} => f[CHOOSE x \in t : TRUE] = s[CHOOSE x \in t : TRUE].bytes
    BY <1>2
  <2> HIDE DEF f, S
  <2> DEFINE Sized(k) == [t \in SUBSET S |-> IF t = {} THEN 0
                           ELSE f[CHOOSE x \in t : TRUE] + k[t \ {CHOOSE x \in t : TRUE}]]
  <2>2. ASSUME NEW k PROVE Raw(k) = Sized(k)
    <3>1. ASSUME NEW t \in SUBSET S PROVE Raw(k)[t] = Sized(k)[t]
      <4>1. CASE t = {}
        BY <4>1
      <4>2. CASE t # {}
        <5>1. f[CHOOSE x \in t : TRUE] = s[CHOOSE x \in t : TRUE].bytes
          BY <2>1, <4>2
        <5> QED BY <4>2, <5>1
      <4> QED BY <4>1, <4>2
    <3> QED BY <3>1, Zenon
  <2> HIDE DEF Raw
  <2>3. \A k : AddingFold(k, f, S) <=> k = Sized(k)
    BY Zenon DEF AddingFold
  <2> HIDE DEF Sized
  <2> QED BY <2>2, <2>3
<1>4. (\E k : AddingFold(k, f, S)) /\ \A k : AddingFold(k, f, S) => k[S] = SumFunctionOnSet(f, S)
  <2> HIDE DEF f, S
  <2> QED BY <1>2, AddingFolds
<1>5. iter = Raw(iter)
  <2> HIDE DEF Raw, f, S
  <2>1. \E k : k = Raw(k)
    BY <1>3, <1>4, Zenon
  <2> QED BY <2>1, Zenon
<1>6. iter[S] = SumFunctionOnSet(f, S)
  <2> HIDE DEF iter, Raw, f, S
  <2> QED BY <1>3, <1>4, <1>5, Zenon
<1>7. S = 1..Len(f)
  BY <1>2
<1> QED BY <1>1, <1>6, <1>7 DEF Total

\* The sizes of two sequences add up.
LEMMA SizeConcat ==
  ASSUME NEW a \in Seq(Entry), NEW z \in Seq(Entry)
  PROVE  SizeOf(a) \in Int /\ SizeOf(z) \in Int /\ SizeOf(a \o z) = SizeOf(a) + SizeOf(z)
<1> DEFINE Sizing(s) == [i \in 1..Len(s) |-> s[i].bytes]
           w == a \o z
<1>1. ASSUME NEW s \in Seq(Entry) PROVE Sizing(s) \in Seq(Int)
  <2>1. ASSUME NEW i \in 1..Len(s) PROVE s[i].bytes \in Int
    <3>1. s[i] \in Entry
      OBVIOUS
    <3> QED BY <3>1 DEF Entry
  <2>2. Len(s) \in Nat
    OBVIOUS
  <2> QED BY <2>1, <2>2
<1>2. w \in Seq(Entry)
  OBVIOUS
<1>3. Sizing(w) = Sizing(a) \o Sizing(z)
  <2>1. /\ Len(w) = Len(a) + Len(z) /\ Len(a) \in Nat /\ Len(z) \in Nat
        /\ \A i \in 1..Len(w) : w[i] = IF i <= Len(a) THEN a[i] ELSE z[i - Len(a)]
    OBVIOUS
  <2>2. Sizing(a) \in Seq(Int) /\ Sizing(z) \in Seq(Int) /\ Sizing(w) \in Seq(Int)
    BY <1>1, <1>2
  <2>3. Len(Sizing(a)) = Len(a) /\ Len(Sizing(z)) = Len(z) /\ Len(Sizing(w)) = Len(w)
    BY <2>1
  <2>4. ASSUME NEW i \in 1..Len(w) PROVE Sizing(w)[i] = (Sizing(a) \o Sizing(z))[i]
    <3>1. Sizing(w)[i] = w[i].bytes
      OBVIOUS
    <3>2. CASE i <= Len(a)
      BY <2>1, <2>2, <2>3, <3>1, <3>2
    <3>3. CASE i > Len(a)
      <4>1. i - Len(a) \in 1..Len(z) /\ w[i] = z[i - Len(a)]
        BY <2>1, <3>3
      <4>2. Sizing(z)[i - Len(a)] = z[i - Len(a)].bytes
        BY <4>1
      <4> QED BY <2>1, <2>2, <2>3, <3>1, <3>3, <4>1, <4>2
    <3> QED BY <2>1, <3>2, <3>3
  <2> HIDE DEF Sizing, w
  <2>5. Sizing(a) \o Sizing(z) \in Seq(Int) /\ Len(Sizing(a) \o Sizing(z)) = Len(w)
    <3> DEFINE A == Sizing(a)
               Z == Sizing(z)
    <3>1. A \in Seq(Int) /\ Z \in Seq(Int) /\ Len(A) = Len(a) /\ Len(Z) = Len(z)
      BY <2>2, <2>3
    <3> HIDE DEF A, Z
    <3>2. A \o Z \in Seq(Int) /\ Len(A \o Z) = Len(A) + Len(Z)
      BY <3>1, ConcatProperties
    <3> QED BY <2>1, <3>1, <3>2 DEF A, Z
  <2> QED BY <2>2, <2>3, <2>4, <2>5, SeqEqual
<1>4. Total(Sizing(a) \o Sizing(z)) = Total(Sizing(a)) + Total(Sizing(z))
      /\ Total(Sizing(a)) \in Int /\ Total(Sizing(z)) \in Int
  <2> HIDE DEF Sizing
  <2> QED BY <1>1, TotalConcat
<1>5. SizeOf(w) = Total(Sizing(w)) /\ SizeOf(a) = Total(Sizing(a)) /\ SizeOf(z) = Total(Sizing(z))
  BY <1>2, SizeIsTotal
<1> QED BY <1>3, <1>4, <1>5

\* The size of one response is the bytes it takes.
LEMMA SizeOne == \A e \in Entry : <<e>> \in Seq(Entry) /\ SizeOf(<<e>>) = e.bytes
<1> SUFFICES ASSUME NEW e \in Entry PROVE <<e>> \in Seq(Entry) /\ SizeOf(<<e>>) = e.bytes
  OBVIOUS
<1>0. <<e>> \in Seq(Entry) /\ Len(<<e>>) = 1
  OBVIOUS
<1>1. <<e>> \in Seq(Entry) /\ Len(<<e>>) = 1 /\ e.bytes \in Int
  BY <1>0 DEF Entry
<1>2. [i \in 1..Len(<<e>>) |-> <<e>>[i].bytes] = <<e.bytes>>
  BY <1>1
<1>3. SizeOf(<<e>>) = Total(<<e.bytes>>)
  BY <1>1, <1>2, SizeIsTotal
<1> QED BY <1>1, <1>3, TotalOne

\* Nothing takes no bytes.
LEMMA SizeNone == SizeOf(<<>>) = 0
<1>1. <<>> \in Seq(Entry) /\ <<>> \o <<>> = <<>>
  BY ConcatEmptySeq
<1>2. SizeOf(<<>>) \in Int /\ SizeOf(<<>>) = SizeOf(<<>>) + SizeOf(<<>>)
  BY <1>1, SizeConcat
<1> QED BY <1>2

\* Storing a response adds its bytes.
LEMMA SizeAppend ==
  ASSUME NEW s \in Seq(Entry), NEW e \in Entry
  PROVE  SizeOf(s) \in Int /\ SizeOf(Append(s, e)) = SizeOf(s) + e.bytes
<1>1. Append(s, e) = s \o <<e>>
  BY AppendIsConcat
<1> QED BY <1>1, SizeConcat, SizeOne

\* What is left of a sequence when the element at a position goes.
LEMMA Positions ==
  ASSUME NEW S, NEW s \in Seq(S), NEW i \in DOMAIN s
  PROVE  /\ RemoveAt(s, i) \in Seq(S) /\ Len(RemoveAt(s, i)) = Len(s) - 1
         /\ \A j \in 1..Len(s) - 1 : RemoveAt(s, i)[j] = s[IF j < i THEN j ELSE j + 1]
<1> DEFINE a == SubSeq(s, 1, i - 1)
           z == SubSeq(s, i + 1, Len(s))
<1>1. Len(s) \in Nat /\ i \in 1..Len(s)
  OBVIOUS
<1>2. a \in Seq(S) /\ Len(a) = i - 1 /\ \A j \in 1..i - 1 : a[j] = s[j]
  BY <1>1
<1>3. z \in Seq(S) /\ Len(z) = Len(s) - i /\ \A j \in 1..Len(s) - i : z[j] = s[j + i]
  BY <1>1
<1> HIDE DEF a, z
<1>4. /\ a \o z \in Seq(S) /\ Len(a \o z) = Len(s) - 1
      /\ \A j \in 1..Len(s) - 1 : (a \o z)[j] = IF j <= i - 1 THEN a[j] ELSE z[j - (i - 1)]
  <2>1. Len(a) + Len(z) = Len(s) - 1
    BY <1>1, <1>2, <1>3
  <2>2. a \in Seq(S) /\ z \in Seq(S) /\ Len(a) = i - 1
    BY <1>2, <1>3
  <2>3. /\ a \o z \in Seq(S) /\ Len(a \o z) = Len(a) + Len(z)
        /\ \A j \in 1..Len(a) + Len(z) : (a \o z)[j] = IF j <= Len(a) THEN a[j] ELSE z[j - Len(a)]
    BY <2>2, ConcatProperties
  <2> QED BY <2>1, <2>2, <2>3
<1>5. ASSUME NEW j \in 1..Len(s) - 1 PROVE (a \o z)[j] = s[IF j < i THEN j ELSE j + 1]
  <2>1. CASE j < i
    BY <1>1, <1>2, <1>4, <2>1
  <2>2. CASE ~(j < i)
    <3>1. (a \o z)[j] = z[j - (i - 1)]
      BY <1>1, <1>4, <2>2
    <3>2. j - (i - 1) \in 1..Len(s) - i /\ (j - (i - 1)) + i = j + 1
      BY <1>1, <2>2
    <3>3. z[j - (i - 1)] = s[j + 1]
      BY <1>3, <3>2
    <3> QED BY <1>1, <2>2, <3>1, <3>3
  <2> QED BY <2>1, <2>2
<1>6. RemoveAt(s, i) = a \o z
  BY DEF RemoveAt, a, z
<1> QED BY <1>4, <1>5, <1>6

\* Dropping a response gives its bytes back.
LEMMA SizeRemove ==
  ASSUME NEW s \in Seq(Entry), NEW i \in DOMAIN s
  PROVE  SizeOf(s) \in Int /\ SizeOf(RemoveAt(s, i)) = SizeOf(s) - s[i].bytes
<1> DEFINE a == SubSeq(s, 1, i - 1)
           z == SubSeq(s, i + 1, Len(s))
           w == SubSeq(s, i, Len(s))
<1>1. Len(s) \in Nat /\ i \in 1..Len(s) /\ s[i] \in Entry /\ i - 1 \in 0..Len(s) /\ (i - 1) + 1 = i
  OBVIOUS
<1>2. a \in Seq(Entry) /\ z \in Seq(Entry) /\ w \in Seq(Entry)
  BY <1>1
<1>3. w = <<s[i]>> \o z
  <2>1. Len(s) \in i..Len(s)
    BY <1>1
  <2> QED BY <1>1, <2>1, SubSeqRecursiveFirst
<1>4. a \o w = s
  <2>1. a \o SubSeq(s, (i - 1) + 1, Len(s)) = SubSeq(s, 1, Len(s))
    <3>1. 1 \in 1..Len(s) + 1 /\ i - 1 \in 1 - 1..Len(s) /\ Len(s) \in i - 1..Len(s)
      BY <1>1
    <3> QED BY <3>1, ConcatAdjacentSubSeq
  <2> QED BY <1>1, <2>1, SubSeqFull
<1> HIDE DEF a, z, w
<1>7. SizeOf(s) = SizeOf(a) + SizeOf(w) /\ SizeOf(a) \in Int /\ SizeOf(s) \in Int
  BY <1>2, <1>4, SizeConcat
<1>8. SizeOf(w) = s[i].bytes + SizeOf(z) /\ SizeOf(z) \in Int
  BY <1>1, <1>2, <1>3, SizeConcat, SizeOne
<1>9. SizeOf(a \o z) = SizeOf(a) + SizeOf(z)
  BY <1>2, SizeConcat
<1>10. RemoveAt(s, i) = a \o z /\ s[i].bytes \in Int
  BY <1>1 DEF RemoveAt, a, z, Entry
<1> QED BY <1>7, <1>8, <1>9, <1>10

\* Dropping the oldest gives back what they took.
LEMMA SizeSplit ==
  ASSUME NEW s \in Seq(Entry), NEW n \in 0..Len(s)
  PROVE  /\ SizeOf(SubSeq(s, n + 1, Len(s))) = SizeOf(s) - SizeOf(SubSeq(s, 1, n))
         /\ SizeOf(s) \in Int /\ SizeOf(SubSeq(s, 1, n)) \in Int
<1> DEFINE a == SubSeq(s, 1, n)
           z == SubSeq(s, n + 1, Len(s))
<1>1. a \in Seq(Entry) /\ z \in Seq(Entry) /\ a \o z = s
  <2>1. a \in Seq(Entry) /\ z \in Seq(Entry) /\ Len(s) \in Nat
    OBVIOUS
  <2>2. a \o z = SubSeq(s, 1, Len(s))
    <3>1. 1 \in 1..Len(s) + 1 /\ n \in 1 - 1..Len(s) /\ Len(s) \in n..Len(s)
      BY <2>1
    <3> QED BY <3>1, ConcatAdjacentSubSeq
  <2> QED BY <2>1, <2>2, SubSeqFull
<1>2. SizeOf(s) = SizeOf(a) + SizeOf(z) /\ SizeOf(a) \in Int /\ SizeOf(z) \in Int
  BY <1>1, SizeConcat
<1> HIDE DEF a, z
<1>3. SizeOf(z) = SizeOf(s) - SizeOf(a) /\ SizeOf(s) \in Int
  BY <1>2
<1> QED BY <1>2, <1>3 DEF a, z

\* A key is stored or filled at most once.
OneEach(s, P) ==
  /\ \A i, j \in DOMAIN s : s[i].key = s[j].key => i = j
  /\ \A p, q \in P : p.key = q.key => p = q
  /\ \A i \in DOMAIN s, p \in P : s[i].key # p.key

\* What the cache holds, against what it believes.
StoreInv ==
  /\ bytes = SizeOf(entries) /\ bytes <= Budget /\ Len(entries) <= MaxEntries
  /\ IsFiniteSet(pending) /\ OneEach(entries, pending)

\* The sequence w has elements of s, each at most once.
Among(w, s) ==
  \E g \in [DOMAIN w -> DOMAIN s] :
     /\ \A i, j \in DOMAIN w : g[i] = g[j] => i = j
     /\ \A i \in DOMAIN w : w[i].key = s[g[i]].key

\* Fewer elements have no more duplicates.
LEMMA FewerKeys ==
  ASSUME NEW s, NEW w, NEW P, NEW Q \in SUBSET P, OneEach(s, P), Among(w, s)
  PROVE  OneEach(w, Q)
<1>1. PICK g \in [DOMAIN w -> DOMAIN s] :
        /\ \A i, j \in DOMAIN w : g[i] = g[j] => i = j
        /\ \A i \in DOMAIN w : w[i].key = s[g[i]].key
  BY DEF Among
<1>2. \A i, j \in DOMAIN w : w[i].key = w[j].key => i = j
  BY <1>1 DEF OneEach
<1>3. \A i \in DOMAIN w, p \in Q : w[i].key # p.key
  BY <1>1 DEF OneEach
<1> QED BY <1>2, <1>3 DEF OneEach

\* Taking one element out leaves the others.
LEMMA OneOut ==
  ASSUME NEW S, NEW s \in Seq(S), NEW i \in DOMAIN s
  PROVE  /\ Among(RemoveAt(s, i), s)
         /\ \E g \in [DOMAIN RemoveAt(s, i) -> DOMAIN s \ {i}] :
               \A j \in DOMAIN RemoveAt(s, i) : RemoveAt(s, i)[j] = s[g[j]]
<1> DEFINE w == RemoveAt(s, i)
           g == [j \in 1..Len(s) - 1 |-> IF j < i THEN j ELSE j + 1]
<1>1. /\ w \in Seq(S) /\ Len(w) = Len(s) - 1 /\ Len(s) \in Nat /\ DOMAIN s = 1..Len(s) /\ i \in 1..Len(s)
      /\ \A j \in 1..Len(s) - 1 : w[j] = s[IF j < i THEN j ELSE j + 1]
  BY Positions
<1> HIDE DEF w
<1>2. DOMAIN w = 1..Len(s) - 1
  BY <1>1
<1>3. g \in [1..Len(s) - 1 -> 1..Len(s)] /\ g \in [1..Len(s) - 1 -> (1..Len(s)) \ {i}]
  BY <1>1
<1>4. \A j, k \in 1..Len(s) - 1 : g[j] = g[k] => j = k
  BY <1>1
<1>5. \A j \in 1..Len(s) - 1 : w[j] = s[g[j]]
  BY <1>1
<1> HIDE DEF g
<1>6. Among(w, s)
  <2>1. /\ g \in [DOMAIN w -> DOMAIN s]
        /\ \A j, k \in DOMAIN w : g[j] = g[k] => j = k
        /\ \A j \in DOMAIN w : w[j].key = s[g[j]].key
    BY <1>1, <1>2, <1>3, <1>4, <1>5
  <2> QED BY <2>1, Zenon DEF Among
<1> QED BY <1>1, <1>2, <1>3, <1>5, <1>6 DEF w

\* Dropping the oldest leaves the others.
LEMMA OldestOut ==
  ASSUME NEW S, NEW s \in Seq(S), NEW n \in 0..Len(s)
  PROVE  /\ SubSeq(s, n + 1, Len(s)) \in Seq(S) /\ Len(SubSeq(s, n + 1, Len(s))) = Len(s) - n
         /\ Among(SubSeq(s, n + 1, Len(s)), s)
<1> DEFINE w == SubSeq(s, n + 1, Len(s))
           g == [j \in 1..Len(s) - n |-> j + n]
<1>1. /\ w \in Seq(S) /\ Len(w) = Len(s) - n /\ Len(s) \in Nat /\ DOMAIN s = 1..Len(s)
      /\ \A j \in 1..Len(s) - n : w[j] = s[j + n]
  OBVIOUS
<1> HIDE DEF w
<1>2. DOMAIN w = 1..Len(s) - n
  BY <1>1
<1>3. g \in [1..Len(s) - n -> 1..Len(s)] /\ \A j, k \in 1..Len(s) - n : g[j] = g[k] => j = k
  BY <1>1
<1>4. \A j \in 1..Len(s) - n : w[j] = s[g[j]]
  BY <1>1
<1> HIDE DEF g
<1>5. Among(w, s)
  <2>1. /\ g \in [DOMAIN w -> DOMAIN s]
        /\ \A j, k \in DOMAIN w : g[j] = g[k] => j = k
        /\ \A j \in DOMAIN w : w[j].key = s[g[j]].key
    BY <1>1, <1>2, <1>3, <1>4
  <2> QED BY <2>1, Zenon DEF Among
<1> QED BY <1>1, <1>5 DEF w

\* Storing under a key that is neither stored nor filled.
LEMMA AddKey ==
  ASSUME NEW S, NEW s \in Seq(S), NEW P, OneEach(s, P), NEW e \in S,
         \A i \in DOMAIN s : s[i].key # e.key, \A p \in P : p.key # e.key
  PROVE  OneEach(Append(s, e), P)
<1> DEFINE w == Append(s, e)
<1>1. DOMAIN s = 1..Len(s) /\ Len(s) \in Nat /\ DOMAIN w = 1..Len(s) + 1
      /\ w[Len(s) + 1] = e /\ \A i \in 1..Len(s) : w[i] = s[i]
  OBVIOUS
<1> HIDE DEF w
<1>2. \A i \in DOMAIN w : i = Len(s) + 1 \/ i \in 1..Len(s)
  BY <1>1
<1> QED BY <1>1, <1>2 DEF OneEach, w

\* The keys are as many as the entries and the fills.
LEMMA KeysCounted ==
  ASSUME NEW S, NEW s \in Seq(S), NEW P, IsFiniteSet(P), OneEach(s, P)
  PROVE  Cardinality({s[i].key : i \in DOMAIN s} \cup {p.key : p \in P}) = Len(s) + Cardinality(P)
<1> DEFINE D == DOMAIN s
           A == {s[i].key : i \in D}
           B == {p.key : p \in P}
           f == [i \in D |-> s[i].key]
           g == [p \in P |-> p.key]
<1>1. D = 1..Len(s) /\ Len(s) \in Nat
  OBVIOUS
<1>2. IsFiniteSet(D) /\ Cardinality(D) = Len(s)
  BY <1>1, FS_Interval
<1>3. IsFiniteSet(A) /\ Cardinality(A) = Len(s)
  <2>1. f \in Bijection(D, A)
    BY Zenon DEF OneEach, Bijection, Injection, Surjection, IsInjective
  <2> HIDE DEF D, A, f
  <2>2. ExistsBijection(D, A)
    BY <2>1, Zenon DEF ExistsBijection
  <2> QED BY <1>2, <2>2, FS_Bijection
<1>4. IsFiniteSet(B) /\ Cardinality(B) = Cardinality(P)
  <2>1. g \in Bijection(P, B)
    BY Zenon DEF OneEach, Bijection, Injection, Surjection, IsInjective
  <2> HIDE DEF B, g
  <2>2. ExistsBijection(P, B)
    BY <2>1, Zenon DEF ExistsBijection
  <2> QED BY <2>2, FS_Bijection
<1>5. A \cap B = {}
  BY DEF OneEach
<1>6. Cardinality(P) \in Nat /\ Cardinality({}) = 0
  BY FS_CardinalityType, FS_EmptySet
<1> HIDE DEF A, B
<1>7. Cardinality(A \cup B) = Len(s) + Cardinality(P)
  <2>1. Cardinality(A \cup B) = Cardinality(A) + Cardinality(B) - Cardinality(A \cap B)
    BY <1>3, <1>4, FS_Union
  <2>2. Cardinality(A \cap B) = 0
    BY <1>5, <1>6
  <2> QED BY <1>1, <1>3, <1>4, <1>6, <2>1, <2>2
<1> QED BY <1>7 DEF A, B, D

\* An empty cache keeps its budget.
LEMMA StoreStart == CacheInit => StoreInv
<1> SUFFICES ASSUME CacheInit PROVE StoreInv
  OBVIOUS
<1>1. entries = <<>> /\ bytes = 0 /\ pending = {}
  BY DEF CacheInit
<1>2. SizeOf(entries) = 0 /\ Len(entries) = 0 /\ DOMAIN entries = {} /\ IsFiniteSet(pending)
  BY <1>1, SizeNone, FS_EmptySet
<1> QED BY <1>1, <1>2, CacheAssumption DEF StoreInv, OneEach

\* The stored responses are entries.
LEMMA Stored == CacheInv => entries \in Seq(Entry) /\ rev \in Nat /\ \A i \in DOMAIN entries : entries[i] \in Entry
  BY DEF CacheInv, GoodEntry

\* An entry that is found moves to the end: nothing is gained or lost.
LEMMA StoreHit ==
  ASSUME CacheInv, StoreInv, NEW r \in Reads, Hit(r)
  PROVE  StoreInv'
<1>1. PICK i \in DOMAIN entries : entries' = Append(RemoveAt(entries, i), entries[i])
  BY DEF Hit, Found
<1>2. UNCHANGED <<bytes, pending>>
  BY DEF Hit
<1>3. entries \in Seq(Entry) /\ entries[i] \in Entry
  BY Stored
<1> DEFINE w == RemoveAt(entries, i)
           e == entries[i]
<1>4. w \in Seq(Entry) /\ Len(w) = Len(entries) - 1
  BY <1>3, Positions
<1>5. Among(w, entries)
  BY <1>3, OneOut
<1>6. PICK g \in [DOMAIN w -> DOMAIN entries \ {i}] : \A j \in DOMAIN w : w[j] = entries[g[j]]
  BY <1>3, OneOut
<1>7. SizeOf(w) = SizeOf(entries) - e.bytes /\ SizeOf(entries) \in Int /\ e.bytes \in Int
  <2>1. SizeOf(w) = SizeOf(entries) - e.bytes /\ SizeOf(entries) \in Int
    BY <1>3, SizeRemove
  <2>2. e.bytes \in Int
    BY <1>3 DEF Entry
  <2> QED BY <2>1, <2>2
<1> HIDE DEF w
<1>8. OneEach(w, pending) /\ \A j \in DOMAIN w : w[j].key # e.key
  <2>1. OneEach(entries, pending) /\ pending \in SUBSET pending
    BY DEF StoreInv
  <2>2. OneEach(w, pending)
    BY <1>5, <2>1, FewerKeys
  <2>3. \A j \in DOMAIN w : g[j] \in DOMAIN entries /\ g[j] # i
    BY <1>6
  <2> QED BY <1>6, <2>1, <2>2, <2>3 DEF OneEach
<1>9. \A p \in pending : p.key # e.key
  BY DEF StoreInv, OneEach
<1> HIDE DEF e
<1>10. e \in Entry /\ entries' = Append(w, e)
  BY <1>1, <1>3 DEF w, e
<1>11. OneEach(entries', pending')
  BY <1>2, <1>4, <1>8, <1>9, <1>10, AddKey
<1>12. SizeOf(entries') = SizeOf(entries) /\ Len(entries') = Len(entries)
  <2>1. SizeOf(Append(w, e)) = SizeOf(w) + e.bytes /\ SizeOf(w) \in Int
    BY <1>4, <1>10, SizeAppend
  <2>2. Len(entries) \in Nat /\ Len(Append(w, e)) = Len(w) + 1
    BY <1>3, <1>4, <1>10
  <2> QED BY <1>4, <1>7, <1>10, <2>1, <2>2
<1> QED BY <1>2, <1>11, <1>12 DEF StoreInv

\* A request that finds nothing drops what has expired, and fills the key at most once.
LEMMA StoreMiss ==
  ASSUME CacheInv, StoreInv, NEW r \in Reads, Miss(r)
  PROVE  StoreInv'
<1> DEFINE k == read[r].key
           e == [key |-> k, value |-> NoValue]
<1>1. entries \in Seq(Entry) /\ \A i \in DOMAIN entries : entries[i] \in Entry
  BY Stored
<1>2. /\ DropExpired(k)
      /\ pending' = pending \/ (Filling(k) = {} /\ pending' = pending \cup {e})
  BY DEF Miss
<1>3. /\ entries' \in Seq(Entry) /\ bytes' = SizeOf(entries') /\ bytes' <= Budget /\ Len(entries') <= MaxEntries
      /\ Among(entries', entries) /\ \A j \in DOMAIN entries' : entries'[j].key # k
  <2>1. CASE Found(k) = {} /\ UNCHANGED <<entries, bytes>>
    <3>1. Among(entries, entries)
      <4>1. [i \in DOMAIN entries |-> i] \in [DOMAIN entries -> DOMAIN entries]
        OBVIOUS
      <4> QED BY <4>1 DEF Among
    <3>2. \A j \in DOMAIN entries : entries[j].key # k
      BY <2>1 DEF Found
    <3> QED BY <1>1, <2>1, <3>1, <3>2 DEF StoreInv
  <2>2. CASE \E i \in Found(k) : entries' = RemoveAt(entries, i) /\ bytes' = bytes - entries[i].bytes
    <3>1. PICK i \in DOMAIN entries : entries[i].key = k
             /\ entries' = RemoveAt(entries, i) /\ bytes' = bytes - entries[i].bytes
      BY <2>2 DEF Found
    <3>2. entries' \in Seq(Entry) /\ Len(entries') = Len(entries) - 1
      BY <1>1, <3>1, Positions
    <3>3. Among(entries', entries)
      BY <1>1, <3>1, OneOut
    <3>4. PICK g \in [DOMAIN entries' -> DOMAIN entries \ {i}] :
                 \A j \in DOMAIN entries' : entries'[j] = entries[g[j]]
      BY <1>1, <3>1, OneOut
    <3>5. \A j \in DOMAIN entries' : entries'[j].key # k
      <4>1. \A j \in DOMAIN entries' : g[j] \in DOMAIN entries /\ g[j] # i
        BY <3>4
      <4> QED BY <3>1, <3>4, <4>1 DEF StoreInv, OneEach
    <3>6. SizeOf(entries') = SizeOf(entries) - entries[i].bytes
          /\ SizeOf(entries) \in Int /\ entries[i].bytes \in Nat /\ Len(entries) \in Nat
      <4>1. SizeOf(RemoveAt(entries, i)) = SizeOf(entries) - entries[i].bytes /\ SizeOf(entries) \in Int
        BY <1>1, <3>1, SizeRemove
      <4>2. entries[i].bytes \in Nat
        BY <1>1, <3>1 DEF Entry
      <4> QED BY <1>1, <3>1, <4>1, <4>2
    <3>7. bytes' = SizeOf(entries') /\ bytes' <= Budget /\ Len(entries') <= MaxEntries
      BY <3>1, <3>2, <3>6, CacheAssumption DEF StoreInv
    <3> QED BY <3>2, <3>3, <3>5, <3>7
  <2> QED BY <1>2, <2>1, <2>2 DEF DropExpired
<1>4. OneEach(entries', pending) /\ IsFiniteSet(pending)
  <2>1. OneEach(entries, pending) /\ pending \in SUBSET pending /\ IsFiniteSet(pending)
    BY DEF StoreInv
  <2> QED BY <1>3, <2>1, FewerKeys
<1>5. OneEach(entries', pending') /\ IsFiniteSet(pending')
  <2>1. CASE pending' = pending
    BY <1>4, <2>1
  <2>2. CASE Filling(k) = {} /\ pending' = pending \cup {e}
    <3>1. e.key = k /\ \A p \in pending : p.key # k
      BY <2>2 DEF Filling
    <3>2. IsFiniteSet(pending')
      BY <1>4, <2>2, FS_AddElement
    <3> HIDE DEF e, k
    <3> QED BY <1>3, <1>4, <2>2, <3>1, <3>2 DEF OneEach
  <2> QED BY <1>2, <2>1, <2>2
<1> QED BY <1>3, <1>5 DEF StoreInv

\* A fill that has read the data is the fill of the same key.
LEMMA StoreLoad ==
  ASSUME CacheInv, StoreInv, NEW p \in pending, Load(p)
  PROVE  StoreInv'
<1> DEFINE x == [p EXCEPT !.value = [route |-> p.key.route, rev |-> rev]]
<1>1. UNCHANGED <<entries, bytes>> /\ pending' = (pending \ {p}) \cup {x}
  BY DEF Load
<1>2. x.key = p.key
  BY DEF CacheInv, GoodPending, Pending
<1>3. IsFiniteSet(pending')
  <2>1. IsFiniteSet(pending \ {p})
    BY FS_RemoveElement DEF StoreInv
  <2> HIDE DEF x
  <2> QED BY <1>1, <2>1, FS_AddElement
<1> HIDE DEF x
<1>4. OneEach(entries', pending')
  BY <1>1, <1>2 DEF StoreInv, OneEach
<1> QED BY <1>1, <1>3, <1>4 DEF StoreInv

\* A response is stored within the budget, the oldest making room.
LEMMA StoreFill ==
  ASSUME CacheInv, StoreInv, NEW p \in pending, NEW size \in Sizes, Fill(p, size)
  PROVE  StoreInv'
<1>1. p.value # NoValue /\ pending' = pending \ {p} /\ size \in Nat
  BY CacheAssumption DEF Fill
<1>2. entries \in Seq(Entry) /\ Len(entries) \in Nat
  BY Stored
<1>3. IsFiniteSet(pending') /\ pending' \in SUBSET pending
  BY <1>1, FS_RemoveElement DEF StoreInv
<1>4. OneEach(entries, pending) /\ \A q \in pending' : q.key # p.key
  BY <1>1 DEF StoreInv, OneEach
<1>5. CASE UNCHANGED <<entries, bytes>>
  BY <1>1, <1>3, <1>5 DEF StoreInv, OneEach
<1>6. CASE size <= Budget /\ \E n \in 0..Len(entries) :
          /\ Room(n, size)
          /\ entries' = Append(SubSeq(entries, n + 1, Len(entries)),
                               [key |-> p.key, value |-> p.value, bytes |-> size, live |-> TRUE])
          /\ bytes' = bytes - SizeOf(SubSeq(entries, 1, n)) + size
  <2> DEFINE e == [key |-> p.key, value |-> p.value, bytes |-> size, live |-> TRUE]
  <2>1. PICK n \in 0..Len(entries) :
          /\ Room(n, size) /\ entries' = Append(SubSeq(entries, n + 1, Len(entries)), e)
          /\ bytes' = bytes - SizeOf(SubSeq(entries, 1, n)) + size
    BY <1>6
  <2> DEFINE w == SubSeq(entries, n + 1, Len(entries))
             gone == SizeOf(SubSeq(entries, 1, n))
  <2>2. w \in Seq(Entry) /\ Len(w) = Len(entries) - n /\ Among(w, entries)
    BY <1>2, OldestOut
  <2>3. SizeOf(w) = SizeOf(entries) - gone /\ SizeOf(entries) \in Int /\ gone \in Int
    BY <1>2, SizeSplit
  <2>4. e \in Entry /\ e.key = p.key /\ e.bytes = size
    BY <1>1 DEF CacheInv, GoodPending, Pending, Entry
  <2> HIDE DEF w, e, gone
  <2>5. entries' = Append(w, e) /\ bytes' = bytes - gone + size
    BY <2>1 DEF w, e, gone
  <2>6. OneEach(w, pending')
    BY <1>3, <1>4, <2>2, FewerKeys
  <2>7. \A j \in DOMAIN w : w[j].key # e.key
    BY <1>4, <2>2, <2>4 DEF Among, OneEach
  <2>8. OneEach(entries', pending')
    BY <1>4, <2>2, <2>4, <2>5, <2>6, <2>7, AddKey
  <2>9. SizeOf(Append(w, e)) = SizeOf(w) + e.bytes /\ Len(Append(w, e)) = Len(w) + 1
    BY <2>2, <2>4, SizeAppend
  <2>10. bytes' = SizeOf(entries')
    BY <1>1, <2>3, <2>4, <2>5, <2>9 DEF StoreInv
  <2>11. bytes' <= Budget /\ Len(entries') <= MaxEntries
    <3>1. CASE n = Len(entries)
      <4>1. Len(w) = 0
        BY <1>2, <2>2, <3>1
      <4>2. w = <<>>
        BY <2>2, <4>1
      <4>3. SizeOf(w) = 0
        BY <4>2, SizeNone
      <4>4. SizeOf(entries') = size /\ Len(entries') = 1
        BY <1>1, <2>4, <2>5, <2>9, <4>1, <4>3
      <4> QED BY <1>6, <2>10, <4>4, CacheAssumption
    <3>2. CASE bytes - gone + size <= Budget /\ Len(entries) - n < MaxEntries
      BY <1>2, <2>2, <2>5, <2>9, <3>2, CacheAssumption
    <3> QED BY <2>1, <3>1, <3>2 DEF Room, gone
  <2> QED BY <1>3, <2>8, <2>10, <2>11 DEF StoreInv
<1>7. UNCHANGED <<entries, bytes>> \/ ~(size > Budget)
  BY DEF Fill
<1>8. ~(size > Budget) => size <= Budget
  BY <1>1, CacheAssumption
<1> QED BY <1>5, <1>6, <1>7, <1>8 DEF Fill

\* A load that fails stores nothing.
LEMMA StoreFails ==
  ASSUME StoreInv, NEW p \in pending, LoadFails(p)
  PROVE  StoreInv'
<1>1. UNCHANGED <<entries, bytes>> /\ pending' = pending \ {p}
  BY DEF LoadFails
<1>2. IsFiniteSet(pending')
  BY <1>1, FS_RemoveElement DEF StoreInv
<1> QED BY <1>1, <1>2 DEF StoreInv, OneEach

\* An entry that expires is counted until it is dropped.
LEMMA StoreExpires ==
  ASSUME CacheInv, StoreInv, NEW i \in DOMAIN entries, ExpireEntry(i)
  PROVE  StoreInv'
<1>1. UNCHANGED <<bytes, pending>> /\ entries' = [entries EXCEPT ![i].live = FALSE]
  BY DEF ExpireEntry
<1>2. entries \in Seq(Entry) /\ entries' \in Seq(Entry) /\ Len(entries') = Len(entries)
      /\ \A j \in DOMAIN entries : entries'[j].key = entries[j].key /\ entries'[j].bytes = entries[j].bytes
  <2>1. entries \in Seq(Entry) /\ \A j \in DOMAIN entries : entries[j] \in Entry
    BY Stored
  <2>2. [entries[i] EXCEPT !.live = FALSE] \in Entry
        /\ [entries[i] EXCEPT !.live = FALSE].key = entries[i].key
        /\ [entries[i] EXCEPT !.live = FALSE].bytes = entries[i].bytes
    BY <2>1 DEF Entry
  <2> HIDE DEF Entry
  <2> QED BY <1>1, <2>1, <2>2
<1>3. DOMAIN entries' = DOMAIN entries
  BY <1>2
<1>4. [j \in 1..Len(entries') |-> entries'[j].bytes] = [j \in 1..Len(entries) |-> entries[j].bytes]
  BY <1>2
<1>5. SizeOf(entries') = SizeOf(entries)
  BY <1>2, <1>4, SizeIsTotal
<1> QED BY <1>1, <1>2, <1>3, <1>5 DEF StoreInv, OneEach

\* Every step of the cache keeps the store within its bounds.
LEMMA StoreStep == CacheInv /\ StoreInv /\ [CacheNext]_cacheVars => StoreInv'
<1> SUFFICES ASSUME CacheInv, StoreInv, [CacheNext]_cacheVars PROVE StoreInv'
  OBVIOUS
<1>1. CASE Commit \/ UNCHANGED cacheVars \/ \E r \in Reads, q \in Routes : AskRead(r, q)
  <2>1. UNCHANGED <<entries, bytes, pending>>
    BY <1>1 DEF Commit, cacheVars, AskRead
  <2> QED BY <2>1 DEF StoreInv, OneEach
<1> QED
  BY <1>1, StoreHit, StoreMiss, StoreLoad, StoreFill, StoreFails, StoreExpires DEF CacheNext

\* However large the responses and however the requests, fills and expiries interleave, the
\* answers are fresh, the cache counts its bytes right, keeps its bounds, and never stores or
\* fills a key twice.
THEOREM TheCacheKeepsItsBudget == Spec => []ReadsAreFresh
<1>1. CacheInv /\ StoreInv => ReadsAreFresh
  <2> SUFFICES ASSUME CacheInv, StoreInv PROVE ReadsAreFresh
    OBVIOUS
  <2>1. Fresh
    BY DEF CacheInv, GoodRead, Good, Fresh
  <2>2. entries \in Seq(Entry)
    BY Stored
  <2>3. Cardinality({entries[i].key : i \in DOMAIN entries} \cup {p.key : p \in pending})
          = Len(entries) + Cardinality(pending)
    BY <2>2, KeysCounted DEF StoreInv
  <2> QED BY <2>1, <2>3 DEF ReadsAreFresh, StoreInv
<1> QED
  BY <1>1, CacheStart, CacheStep, StoreStart, StoreStep, Handling, PTL DEF Spec, Init

-----------------------------------------------------------------------------
(* What the gate and the thread hold.                                      *)

\* A sequence that has each of its elements once.
Once(s) == \A i, k \in DOMAIN s : s[i] = s[k] => i = k

At(st, names) == {j \in Exports : st[j] \in names}
Within(st)    == At(st, {"reading", "exporting"})

\* The gate g, for requests at the stages st: each slot taken has a request inside, nobody
\* waits next to a free one, and the queue has those who wait, once.
GateOK(st, g) ==
  /\ g \in [active : Nat, waiting : Seq(Exports)] /\ Once(g.waiting)
  /\ g.active = Cardinality(Within(st)) /\ g.active <= Concurrency
  /\ g.waiting # <<>> => g.active = Concurrency
  /\ InSeq(g.waiting) = At(st, {"waiting"})

Hand(p) == {p.active} \ {None}

\* The pool p, when the requests of E wait for a report: each is in the queue once or in hand,
\* and a task in hand has a time limit.
PoolOK(p, E) ==
  /\ Once(p.queue) /\ p.active \notin InSeq(p.queue)
  /\ InSeq(p.queue) \cup Hand(p) = E
  /\ p.deadline <=> p.active # None

SlotInv == GateOK(stage, gate) /\ PoolOK(pool, At(stage, {"exporting"}))

\* Who the first n are.
Firsts(s, n) == {s[i] : i \in 1..n}

\* What is left of a queue when the first n have gone, and who they were.
LEMMA Rest ==
  ASSUME NEW S, NEW s \in Seq(S), Once(s), NEW n \in 0..Len(s)
  PROVE  /\ SubSeq(s, n + 1, Len(s)) \in Seq(S) /\ Len(SubSeq(s, n + 1, Len(s))) = Len(s) - n
         /\ Once(SubSeq(s, n + 1, Len(s))) /\ Firsts(s, n) \subseteq InSeq(s)
         /\ InSeq(SubSeq(s, n + 1, Len(s))) = InSeq(s) \ Firsts(s, n)
         /\ IsFiniteSet(Firsts(s, n)) /\ Cardinality(Firsts(s, n)) = n
<1> DEFINE w == SubSeq(s, n + 1, Len(s))
           D == {s[i] : i \in 1..n}
           f == [i \in 1..n |-> s[i]]
<1>1. /\ w \in Seq(S) /\ Len(w) = Len(s) - n /\ Len(s) \in Nat /\ DOMAIN s = 1..Len(s)
      /\ \A j \in 1..Len(s) - n : w[j] = s[j + n]
  OBVIOUS
<1> HIDE DEF w
<1>2. DOMAIN w = 1..Len(s) - n
  BY <1>1
<1>0. \A i, k \in 1..Len(s) : s[i] = s[k] => i = k
  BY <1>1, Zenon DEF Once
<1>3. Once(w)
  <2>1. ASSUME NEW i \in 1..Len(s) - n, NEW k \in 1..Len(s) - n, w[i] = w[k] PROVE i = k
    <3>1. s[i + n] = s[k + n] /\ i + n \in 1..Len(s) /\ k + n \in 1..Len(s)
      BY <1>1, <2>1
    <3>2. i + n = k + n
      BY <1>0, <3>1
    <3> QED BY <3>2
  <2> QED BY <1>2, <2>1, Zenon DEF Once
<1>4. D \subseteq InSeq(s)
  BY <1>1 DEF InSeq
<1>5. InSeq(w) = InSeq(s) \ D
  <2>1. ASSUME NEW x \in InSeq(w) PROVE x \in InSeq(s) \ D
    <3>1. PICK j \in 1..Len(s) - n : x = s[j + n] /\ j + n \in 1..Len(s) /\ j + n > n
      BY <1>1, <1>2 DEF InSeq
    <3>2. \A i \in 1..n : s[i] # s[j + n]
      <4>1. \A i \in 1..n : i \in 1..Len(s) /\ i # j + n
        BY <1>1, <3>1
      <4> QED BY <1>0, <3>1, <4>1
    <3> QED BY <1>1, <3>1, <3>2 DEF InSeq
  <2>2. ASSUME NEW x \in InSeq(s) \ D PROVE x \in InSeq(w)
    <3>1. PICK i \in 1..Len(s) : x = s[i]
      BY <1>1 DEF InSeq
    <3>2. i \notin 1..n
      BY <3>1
    <3>3. i - n \in 1..Len(s) - n /\ w[i - n] = x
      BY <1>1, <3>1, <3>2
    <3> QED BY <1>2, <3>3 DEF InSeq
  <2> QED BY <2>1, <2>2
<1>6. IsFiniteSet(1..n) /\ Cardinality(1..n) = n
  BY <1>1, FS_Interval
<1>7. f \in Bijection(1..n, D)
  <2>1. \A i, k \in 1..n : s[i] = s[k] => i = k
    <3>1. \A i \in 1..n : i \in 1..Len(s)
      BY <1>1
    <3> QED BY <1>0, <3>1
  <2> QED BY <2>1, Zenon DEF Bijection, Injection, Surjection, IsInjective
<1>8. IsFiniteSet(D) /\ Cardinality(D) = n
  <2> DEFINE K == 1..n
  <2>1. ExistsBijection(K, D) /\ IsFiniteSet(K) /\ Cardinality(K) = n
    BY <1>6, <1>7, Zenon DEF ExistsBijection
  <2> HIDE DEF K, D
  <2> QED BY <2>1, FS_Bijection
<1>9. D = Firsts(s, n)
  BY DEF Firsts
<1> HIDE DEF D
<1> QED BY <1>1, <1>3, <1>4, <1>5, <1>8, <1>9 DEF w

\* A sequence that has each element once is as long as they are many.
LEMMA OnceCounted ==
  ASSUME NEW S, NEW s \in Seq(S), Once(s)
  PROVE  Len(s) = Cardinality(InSeq(s)) /\ IsFiniteSet(InSeq(s))
<1>1. Len(s) \in 0..Len(s) /\ InSeq(s) = Firsts(s, Len(s))
  BY DEF InSeq, Firsts
<1>2. IsFiniteSet(Firsts(s, Len(s))) /\ Cardinality(Firsts(s, Len(s))) = Len(s)
  BY <1>1, Rest
<1> QED BY <1>1, <1>2

\* One more, who was not there.
LEMMA OneMore ==
  ASSUME NEW S, NEW s \in Seq(S), Once(s), NEW x \in S, x \notin InSeq(s)
  PROVE  /\ Append(s, x) \in Seq(S) /\ Once(Append(s, x)) /\ InSeq(Append(s, x)) = InSeq(s) \cup {x}
         /\ Append(s, x) # <<>>
<1> DEFINE w == Append(s, x)
<1>1. /\ w \in Seq(S) /\ Len(s) \in Nat /\ DOMAIN s = 1..Len(s) /\ Len(w) = Len(s) + 1
      /\ w[Len(s) + 1] = x /\ \A i \in 1..Len(s) : w[i] = s[i]
  OBVIOUS
<1> HIDE DEF w
<1>2. DOMAIN w = 1..Len(s) + 1 /\ \A i \in DOMAIN w : i \in 1..Len(s) \/ i = Len(s) + 1
  BY <1>1
<1>3. \A i \in 1..Len(s) : s[i] # x
  BY <1>1 DEF InSeq
<1>4. Once(w)
  BY <1>1, <1>2, <1>3 DEF Once
<1>5. InSeq(w) = InSeq(s) \cup {x}
  BY <1>1, <1>2 DEF InSeq
<1>6. w # <<>>
  BY <1>1
<1> QED BY <1>1, <1>4, <1>5, <1>6 DEF w

\* One less.
LEMMA OneFewer ==
  ASSUME NEW S, NEW s \in Seq(S), Once(s), NEW x \in InSeq(s)
  PROVE  Without(s, x) \in Seq(S) /\ Once(Without(s, x)) /\ InSeq(Without(s, x)) = InSeq(s) \ {x}
<1>1. DOMAIN s = 1..Len(s) /\ Len(s) \in Nat
  OBVIOUS
<1> DEFINE I == {i \in 1..Len(s) : s[i] = x}
           m == Min(I)
<1>2. I \in SUBSET Nat /\ I # {}
  BY <1>1 DEF InSeq
<1>3. m \in I
  <2>1. \E i \in I : \A k \in I : i <= k
    <3> HIDE DEF I
    <3> QED BY <1>2, Smallest
  <2> HIDE DEF I
  <2> QED BY <2>1, Zenon DEF Min
<1>4. Without(s, x) = RemoveAt(s, m)
  <2>1. \E i \in 1..Len(s) : s[i] = x
    BY <1>2
  <2>2. SelectInSeq(s, LAMBDA v : v = x) = m
    BY <1>2, Zenon DEF SelectInSeq
  <2> HIDE DEF m, I
  <2> QED BY <2>1, <2>2, Zenon DEF Without, RemoveFirst
<1> HIDE DEF m
<1>5. m \in DOMAIN s /\ s[m] = x
  BY <1>1, <1>3
<1> DEFINE w == RemoveAt(s, m)
<1>6. /\ w \in Seq(S) /\ Len(w) = Len(s) - 1
      /\ \A j \in 1..Len(s) - 1 : w[j] = s[IF j < m THEN j ELSE j + 1]
  BY <1>5, Positions
<1> HIDE DEF w
<1>7. DOMAIN w = 1..Len(s) - 1 /\ m \in 1..Len(s)
  BY <1>1, <1>5, <1>6
<1>8. Once(w)
  <2>0. \A i, k \in 1..Len(s) : s[i] = s[k] => i = k
    BY <1>1, Zenon DEF Once
  <2>1. ASSUME NEW i \in 1..Len(s) - 1, NEW k \in 1..Len(s) - 1, w[i] = w[k] PROVE i = k
    <3> DEFINE a == IF i < m THEN i ELSE i + 1
               b == IF k < m THEN k ELSE k + 1
    <3>1. s[a] = s[b] /\ a \in 1..Len(s) /\ b \in 1..Len(s)
      BY <1>1, <1>6, <1>7, <2>1
    <3>2. a = b
      <4> HIDE DEF a, b
      <4> QED BY <2>0, <3>1
    <3> QED BY <1>7, <3>2
  <2> QED BY <1>7, <2>1, Zenon DEF Once
<1>9. ASSUME NEW y \in InSeq(w) PROVE y \in InSeq(s) \ {x}
  <2>1. PICK j \in 1..Len(s) - 1 : y = s[IF j < m THEN j ELSE j + 1]
    BY <1>6, <1>7 DEF InSeq
  <2>2. PICK i \in 1..Len(s) : i # m /\ y = s[i]
    BY <1>1, <1>7, <2>1
  <2> QED BY <1>1, <1>5, <2>2 DEF InSeq, Once
<1>10. ASSUME NEW y \in InSeq(s) \ {x} PROVE y \in InSeq(w)
  <2>1. PICK i \in 1..Len(s) : y = s[i] /\ i # m
    BY <1>1, <1>5 DEF InSeq
  <2>2. CASE i < m
    <3>1. i \in 1..Len(s) - 1 /\ w[i] = y
      BY <1>1, <1>6, <1>7, <2>1, <2>2
    <3> QED BY <1>7, <3>1 DEF InSeq
  <2>3. CASE i > m
    <3>1. i - 1 \in 1..Len(s) - 1 /\ ~(i - 1 < m) /\ (i - 1) + 1 = i
      BY <1>1, <1>7, <2>3
    <3>2. w[i - 1] = y
      BY <1>6, <2>1, <3>1
    <3> QED BY <1>7, <3>1, <3>2 DEF InSeq
  <2> QED BY <1>7, <2>1, <2>2, <2>3
<1> QED BY <1>4, <1>6, <1>8, <1>9, <1>10 DEF w

\* The fields of a gate.
LEMMA GateFields ==
  ASSUME NEW st, NEW g, GateOK(st, g)
  PROVE  g.active \in Nat /\ g.waiting \in Seq(Exports)
BY DEF GateOK

\* Requests inside leave: each slot goes to the longest waiting request or is given back.
LEMMA LeaveSlots ==
  ASSUME NEW stages \in [Exports -> Stages], GateOK(stages, gate), NEW failed, NEW answered,
         failed \cup answered \subseteq Within(stages), Leave(stages, failed, answered)
  PROVE  /\ GateOK(stage', gate')
         /\ At(stage', {"exporting"}) = At(stages, {"exporting"}) \ (failed \cup answered)
<1> DEFINE F == failed \cup answered
           n == Cardinality(F)
           s == gate.waiting
           k == IF n < Len(s) THEN n ELSE Len(s)
           D == {s[i] : i \in 1..k}
           w == SubSeq(s, k + 1, Len(s))
           I == Within(stages)
           g == [active |-> gate.active - (n - k), waiting |-> w]
<1>1. /\ gate.active \in Nat /\ s \in Seq(Exports) /\ Once(s) /\ gate.active = Cardinality(I)
      /\ gate.active <= Concurrency /\ (s # <<>> => gate.active = Concurrency)
      /\ InSeq(s) = At(stages, {"waiting"}) /\ Len(s) \in Nat
  BY DEF GateOK
<1>2. IsFiniteSet(I) /\ IsFiniteSet(F) /\ n \in Nat /\ n <= gate.active /\ I \subseteq Exports
  <2>1. I \subseteq Exports
    BY DEF Within, At
  <2>2. IsFiniteSet(I)
    BY <2>1, ExportsAssumption, FS_Subset
  <2>3. IsFiniteSet(F) /\ Cardinality(F) <= Cardinality(I) /\ Cardinality(F) \in Nat
    BY <2>2, FS_Subset, FS_CardinalityType
  <2> QED BY <1>1, <2>1, <2>2, <2>3
<1>3. k \in 0..Len(s) /\ k <= n
  BY <1>1, <1>2
<1>4. Entering(n) = D
  <2>1. \A i \in DOMAIN s : i <= n <=> i \in 1..k
    BY <1>1, <1>2
  <2>2. \A i \in 1..k : i \in DOMAIN s
    BY <1>1, <1>3
  <2> HIDE DEF n, k
  <2> QED BY <2>1, <2>2 DEF Entering
<1>5. gate' = g
  BY DEF Leave, Handed
<1>6. \A j \in Exports : stage'[j] = CASE j \in failed   -> "failed"
                                       [] j \in answered -> "answered"
                                       [] stages[j] = "waiting" /\ j \in D -> "reading"
                                       [] OTHER          -> stages[j]
  BY <1>4 DEF Leave
<1>7. /\ w \in Seq(Exports) /\ Len(w) = Len(s) - k /\ Once(w) /\ InSeq(w) = InSeq(s) \ D
      /\ D \subseteq InSeq(s) /\ IsFiniteSet(D) /\ Cardinality(D) = k
  <2> HIDE DEF k, s, D, w
  <2>1. s \in Seq(Exports) /\ Once(s) /\ k \in 0..Len(s)
    BY <1>1, <1>3
  <2>2. w = SubSeq(s, k + 1, Len(s)) /\ D = Firsts(s, k)
    BY DEF w, D, Firsts
  <2> QED BY <2>1, <2>2, Rest
<1> HIDE DEF D, k, n, w
<1>8. \A j \in D : j \in Exports /\ stages[j] = "waiting"
  BY <1>1, <1>7 DEF At
<1>9. \A j \in F : j \in Exports /\ stages[j] \in {"reading", "exporting"}
  BY DEF Within, At
<1>10. Within(stage') = (I \ F) \cup D
  BY <1>6, <1>8, <1>9 DEF Within, At
<1>11. At(stage', {"waiting"}) = At(stages, {"waiting"}) \ D
  BY <1>6, <1>8, <1>9 DEF At
<1>12. At(stage', {"exporting"}) = At(stages, {"exporting"}) \ F
  BY <1>6, <1>8, <1>9 DEF At
<1>13. Cardinality(Within(stage')) = gate.active - (n - k)
  <2>1. IsFiniteSet(I \ F) /\ Cardinality(I \ F) = Cardinality(I) - Cardinality(F)
    <3>1. F \subseteq I /\ I \cap F = F
      OBVIOUS
    <3>2. IsFiniteSet(I \ F) /\ Cardinality(I \ F) = Cardinality(I) - Cardinality(I \cap F)
      BY <1>2, FS_Difference
    <3> QED BY <3>1, <3>2
  <2>2. (I \ F) \cap D = {}
    BY <1>8 DEF Within, At
  <2> DEFINE A == I \ F
  <2> HIDE DEF A
  <2>3. IsFiniteSet(A) /\ A \cap D = {} /\ Cardinality(A) = gate.active - n
    BY <1>1, <2>1, <2>2 DEF A, n
  <2>4. Cardinality(A \cup D) = Cardinality(A) + Cardinality(D) - Cardinality(A \cap D)
    BY <1>7, <2>3, FS_Union
  <2>5. Cardinality(A \cap D) = 0
    BY <2>3, FS_EmptySet
  <2>6. Cardinality(A \cup D) = gate.active - n + k
    BY <1>1, <1>2, <1>3, <1>7, <2>3, <2>4, <2>5
  <2>7. Within(stage') = A \cup D
    BY <1>10 DEF A
  <2> QED BY <1>1, <1>2, <1>3, <2>6, <2>7
<1>14. w # <<>> => gate.active - (n - k) = Concurrency
  <2> SUFFICES ASSUME w # <<>> PROVE gate.active - (n - k) = Concurrency
    OBVIOUS
  <2>1. Len(w) # 0
    BY <1>7
  <2>2. k < Len(s)
    BY <1>1, <1>3, <1>7, <2>1
  <2>3. k = n /\ s # <<>>
    BY <1>1, <1>2, <2>2 DEF k
  <2> QED BY <1>1, <1>2, <2>3
<1>15. gate.active - (n - k) \in Nat /\ gate.active - (n - k) <= Concurrency
  BY <1>1, <1>2, <1>3, SizesAssumption
<1>16. g \in [active : Nat, waiting : Seq(Exports)] /\ g.active = gate.active - (n - k) /\ g.waiting = w
  BY <1>7, <1>15
<1> HIDE DEF g
<1>17. GateOK(stage', g)
  BY <1>1, <1>7, <1>11, <1>13, <1>14, <1>15, <1>16 DEF GateOK
<1> QED BY <1>5, <1>12, <1>17

\* What drain() does to the queue and the task in hand.
LEMMA DrainedFields ==
  ASSUME NEW p \in LoosePool, NEW n \in 0..(IF p.active # None \/ p.stopping THEN 0 ELSE Len(p.queue))
  PROVE  LET d == Drained(p, n) IN
         \/ (p.active # None \/ p.stopping) /\ n = 0 /\ d = p
         \/ /\ p.active = None /\ ~p.stopping /\ n = Len(p.queue)
            /\ d.queue = <<>> /\ d.active = None /\ d.deadline = p.deadline
         \/ /\ p.active = None /\ ~p.stopping /\ n < Len(p.queue)
            /\ d.queue = SubSeq(p.queue, n + 2, Len(p.queue)) /\ d.active = p.queue[n + 1]
            /\ d.deadline = TRUE
<1> DEFINE d == Drained(p, n)
<1>0. p.queue \in Seq(Exports) /\ Len(p.queue) \in Nat
  BY DEF LoosePool
<1>1. CASE p.active # None \/ p.stopping
  BY <1>1 DEF Drained
<1>2. CASE ~(p.active # None \/ p.stopping) /\ p.queue = <<>>
  <2>1. n = 0 /\ Len(p.queue) = 0
    BY <1>0, <1>2
  <2>2. d = Rested(p)
    BY <1>2 DEF Drained
  <2>3. Rested(p).queue = p.queue /\ Rested(p).active = p.active /\ Rested(p).deadline = p.deadline
    BY Zenon DEF Rested, LoosePool
  <2> HIDE DEF d
  <2> QED BY <1>2, <2>1, <2>2, <2>3 DEF d
<1>3. CASE ~(p.active # None \/ p.stopping) /\ p.queue # <<>>
  <2> DEFINE a == Awake(p)
             q == Skipped(a, n)
             rest == SubSeq(p.queue, n + 1, Len(p.queue))
  <2>1. n \in 0..Len(p.queue)
    BY <1>3
  <2>2. a \in LoosePool /\ a.active = p.active /\ a.queue = p.queue
    BY Awaking
  <2>3. a.deadline = p.deadline
    BY Zenon DEF Awake, LoosePool
  <2> HIDE DEF a
  <2>4. q.queue = SubSeq(a.queue, n + 1, Len(a.queue)) /\ q.active = a.active /\ q.deadline = a.deadline
    BY <2>2, Zenon DEF Skipped, LoosePool
  <2>5. q \in LoosePool
    BY <2>1, <2>2, Skipping
  <2>6. d = IF q.queue = <<>> THEN Rested(q) ELSE Started(q)
    BY <1>3 DEF Drained, a
  <2> HIDE DEF q, d
  <2>7. q.queue = rest /\ q.active = None /\ q.deadline = p.deadline
    BY <1>3, <2>2, <2>3, <2>4
  <2>8. rest \in Seq(Exports) /\ Len(rest) = Len(p.queue) - n
        /\ \A i \in 1..Len(p.queue) - n : rest[i] = p.queue[i + n]
    BY <1>0, <2>1
  <2> HIDE DEF rest
  <2>9. CASE q.queue = <<>>
    <3>1. Rested(q).queue = q.queue /\ Rested(q).active = q.active /\ Rested(q).deadline = q.deadline
      BY <2>5, Zenon DEF Rested, LoosePool
    <3>2. n = Len(p.queue)
      <4>1. Len(rest) = 0
        BY <2>7, <2>9
      <4> QED BY <1>0, <2>1, <2>8, <4>1
    <3> QED BY <1>3, <2>6, <2>7, <2>9, <3>1, <3>2 DEF d
  <2>10. CASE q.queue # <<>>
    <3>1. Started(q).queue = Tail(q.queue) /\ Started(q).active = Head(q.queue) /\ Started(q).deadline = TRUE
      BY <2>5, Zenon DEF Started, LoosePool
    <3>2. n < Len(p.queue)
      BY <1>0, <2>1, <2>7, <2>8, <2>10
    <3>3. Head(rest) = p.queue[n + 1]
      BY <1>0, <2>1, <2>7, <2>8, <2>10, <3>2
    <3>4. Tail(rest) = SubSeq(p.queue, n + 2, Len(p.queue))
      <4>1. n + 1 \in 1..Len(p.queue) /\ Len(p.queue) \in n + 1..Len(p.queue) /\ (n + 1) + 1 = n + 2
        BY <1>0, <2>1, <3>2
      <4> QED BY <1>0, <4>1, HeadTailOfSubSeq DEF rest
    <3> QED BY <1>3, <2>6, <2>7, <2>10, <3>1, <3>2, <3>3, <3>4 DEF d
  <2> QED BY <2>9, <2>10
<1> QED BY <1>1, <1>2, <1>3

\* A pool whose queue is as before and that let go of its task waits for the others.
LEMMA LetGo ==
  ASSUME NEW p, NEW q, NEW E, PoolOK(p, E), p.queue \in Seq(Exports),
         q.queue = p.queue, q.active = None, q.deadline = FALSE
  PROVE  Hand(p) \subseteq E /\ PoolOK(q, E \ Hand(p))
<1>1. None \notin InSeq(p.queue)
  BY ExportsAssumption DEF InSeq
<1>2. Once(p.queue) /\ p.active \notin InSeq(p.queue) /\ InSeq(p.queue) \cup Hand(p) = E
  BY DEF PoolOK
<1>3. Hand(q) = {} /\ Hand(p) \subseteq {p.active}
  BY DEF Hand
<1>4. InSeq(p.queue) = E \ Hand(p)
  BY <1>2, <1>3
<1> QED
  BY <1>1, <1>2, <1>3, <1>4 DEF PoolOK

\* A drain, at the end of requests that waited for a report: who cannot be posted leaves as
\* well, and the next one is in hand.
LEMMA DrainSlots ==
  ASSUME NEW p \in LoosePool, NEW stages \in [Exports -> Stages], GateOK(stages, gate),
         NEW failed, NEW answered, failed \cup answered \subseteq At(stages, {"exporting"}),
         PoolOK(p, At(stages, {"exporting"}) \ (failed \cup answered)),
         Drain(p, stages, failed, answered)
  PROVE  GateOK(stage', gate') /\ PoolOK(pool', At(stage', {"exporting"}))
<1> DEFINE E == At(stages, {"exporting"})
           F == failed \cup answered
           s == p.queue
<1>0. s \in Seq(Exports) /\ Len(s) \in Nat /\ p.active \in Task
  BY DEF LoosePool
<1>1. PICK n \in 0..(IF p.active # None \/ p.stopping THEN 0 ELSE Len(s)) :
        /\ pool' = Drained(p, n)
        /\ Leave(stages, failed \cup Firsts(s, n), answered)
  BY Zenon DEF Drain, Firsts
<1>2. n \in 0..Len(s)
  BY <1>0
<1>3. /\ Once(s) /\ p.active \notin InSeq(s) /\ InSeq(s) \cup Hand(p) = E \ F
      /\ (p.deadline <=> p.active # None)
  BY DEF PoolOK
<1> DEFINE D == Firsts(s, n)
<1>4. /\ D \subseteq InSeq(s) /\ Once(SubSeq(s, n + 1, Len(s)))
      /\ InSeq(SubSeq(s, n + 1, Len(s))) = InSeq(s) \ D
  BY <1>0, <1>2, <1>3, Rest
<1>5. E \subseteq Within(stages) /\ E \subseteq Exports
  BY DEF At, Within
<1> DEFINE f == failed \cup D
<1>6. f \cup answered \subseteq Within(stages) /\ f \cup answered = F \cup D
  BY <1>3, <1>4, <1>5
<1>7. Leave(stages, f, answered)
  BY <1>1
<1> HIDE DEF f
<1>8. GateOK(stage', gate') /\ At(stage', {"exporting"}) = E \ (F \cup D)
  BY <1>6, <1>7, LeaveSlots
<1> DEFINE d == Drained(p, n)
<1>9. \/ (p.active # None \/ p.stopping) /\ n = 0 /\ d = p
      \/ /\ p.active = None /\ ~p.stopping /\ n = Len(s)
         /\ d.queue = <<>> /\ d.active = None /\ d.deadline = p.deadline
      \/ /\ p.active = None /\ ~p.stopping /\ n < Len(s)
         /\ d.queue = SubSeq(s, n + 2, Len(s)) /\ d.active = s[n + 1] /\ d.deadline = TRUE
  BY DrainedFields
<1>10. pool' = d
  BY <1>1
<1> HIDE DEF d
<1>11. CASE (p.active # None \/ p.stopping) /\ n = 0 /\ d = p
  <2>1. D = {}
    BY <1>11 DEF Firsts
  <2>2. E \ (F \cup D) = E \ F
    BY <2>1
  <2> QED
    BY <1>8, <1>10, <1>11, <2>2
<1>12. CASE /\ p.active = None /\ n = Len(s)
            /\ d.queue = <<>> /\ d.active = None /\ d.deadline = p.deadline
  <2>1. D = InSeq(s) /\ Hand(p) = {} /\ Hand(d) = {} /\ InSeq(d.queue) = {}
    BY <1>0, <1>12 DEF Firsts, InSeq, Hand
  <2>2. E \ (F \cup D) = {}
    BY <1>3, <2>1
  <2>3. Once(d.queue) /\ (d.deadline <=> d.active # None)
    BY <1>3, <1>12 DEF Once
  <2>4. PoolOK(d, E \ (F \cup D))
    BY <2>1, <2>2, <2>3 DEF PoolOK
  <2> QED
    BY <1>8, <1>10, <2>4
<1>13. CASE /\ p.active = None /\ n < Len(s)
            /\ d.queue = SubSeq(s, n + 2, Len(s)) /\ d.active = s[n + 1] /\ d.deadline = TRUE
  <2> DEFINE m == n + 1
  <2>1. m \in 0..Len(s) /\ m \in 1..Len(s) /\ n + 2 = m + 1 /\ 1..m = (1..n) \cup {m}
        /\ m \notin 1..n /\ \A i \in 1..n : i \in 1..Len(s)
    BY <1>0, <1>2, <1>13
  <2> HIDE DEF m
  <2>2. /\ Once(d.queue) /\ InSeq(d.queue) = InSeq(s) \ Firsts(s, m)
    BY <1>0, <1>3, <1>13, <2>1, Rest
  <2>3. Firsts(s, m) = D \cup {s[m]}
    BY <2>1 DEF Firsts
  <2>4. s[m] \in InSeq(s) /\ s[m] # None
    BY <1>0, <2>1, ExportsAssumption DEF InSeq
  <2>5. s[m] \notin D
    <3>1. \A i \in 1..n : s[i] # s[m]
      BY <1>0, <1>3, <2>1 DEF Once
    <3> QED BY <3>1 DEF Firsts
  <2>6. d.active = s[m]
    BY <1>13 DEF m
  <2>7. Hand(p) = {} /\ Hand(d) = {s[m]}
    BY <1>13, <2>4, <2>6 DEF Hand
  <2>8. InSeq(d.queue) \cup Hand(d) = E \ (F \cup D) /\ d.active \notin InSeq(d.queue)
    <3> DEFINE Q == InSeq(s)
               R == InSeq(d.queue)
               H == Hand(d)
               x == s[m]
    <3>1. Q = E \ F /\ R = Q \ (D \cup {x}) /\ H = {x} /\ x \in Q /\ x \notin D
      BY <1>3, <2>2, <2>3, <2>4, <2>5, <2>7
    <3> HIDE DEF Q, R, H, x, D, E, F
    <3>2. R \cup H = E \ (F \cup D) /\ x \notin R
      BY <3>1
    <3> QED BY <2>6, <3>2 DEF R, H, x
  <2>9. PoolOK(d, E \ (F \cup D))
    BY <1>13, <2>2, <2>4, <2>6, <2>8 DEF PoolOK
  <2> QED
    BY <1>8, <1>10, <2>9
<1> QED
  BY <1>9, <1>11, <1>12, <1>13

\* The facts about the state before a step.
LEMMA SlotFacts ==
  ASSUME ReportInv, SlotInv
  PROVE  /\ stage \in [Exports -> Stages] /\ pool \in LoosePool /\ pool.queue \in Seq(Exports)
         /\ pool.active \in Task /\ gate \in [active : Nat, waiting : Seq(Exports)]
         /\ GateOK(stage, gate) /\ PoolOK(pool, At(stage, {"exporting"}))
         /\ None \in Task /\ None \in Chosen(Threads)
BY DEF ReportInv, SlotInv, LoosePool, GateOK, Task, Chosen

\* A step that leaves the queue, the task in hand and its time limit alone.
LEMMA SameTasks ==
  ASSUME NEW p, NEW q, NEW E, PoolOK(p, E),
         q.queue = p.queue, q.active = p.active, q.deadline = p.deadline
  PROVE  PoolOK(q, E)
BY DEF PoolOK, Hand

\* A request arrives.
LEMMA AskSlots ==
  ASSUME ReportInv, SlotInv, NEW j \in Exports, Ask(j)
  PROVE  SlotInv'
<1> USE SlotFacts
<1> DEFINE I == Within(stage)
           W == At(stage, {"waiting"})
           E == At(stage, {"exporting"})
<1>1. /\ gate.active \in Nat /\ gate.waiting \in Seq(Exports) /\ Once(gate.waiting)
      /\ gate.active = Cardinality(I) /\ gate.active <= Concurrency
      /\ (gate.waiting # <<>> => gate.active = Concurrency) /\ InSeq(gate.waiting) = W
  BY DEF GateOK
<1>2. stage[j] = "new" /\ j \notin I /\ j \notin W /\ j \notin E /\ UNCHANGED pool
  BY DEF Ask, Within, At
<1>3. IsFiniteSet(I)
  <2>1. I \subseteq Exports
    BY DEF Within, At
  <2> QED BY <2>1, ExportsAssumption, FS_Subset
<1>4. CASE /\ gate.active < Concurrency /\ gate' = [gate EXCEPT !.active = gate.active + 1]
           /\ stage' = [stage EXCEPT ![j] = "reading"]
  <2>1. Within(stage') = I \cup {j} /\ At(stage', {"waiting"}) = W /\ At(stage', {"exporting"}) = E
    BY <1>2, <1>4 DEF Within, At
  <2>2. Cardinality(I \cup {j}) = Cardinality(I) + 1
    BY <1>2, <1>3, FS_AddElement
  <2>3. /\ gate'.active = gate.active + 1 /\ gate'.waiting = gate.waiting
        /\ gate' \in [active : Nat, waiting : Seq(Exports)]
    BY <1>1, <1>4
  <2>4. gate.waiting = <<>> /\ gate'.active <= Concurrency
    BY <1>1, <1>4, <2>3, SizesAssumption
  <2>5. GateOK(stage', gate')
    BY <1>1, <2>1, <2>2, <2>3, <2>4 DEF GateOK
  <2> QED BY <1>2, <2>1, <2>5 DEF SlotInv
<1>5. CASE /\ gate.active >= Concurrency
           /\ gate' = [gate EXCEPT !.waiting = Append(gate.waiting, j)]
           /\ stage' = [stage EXCEPT ![j] = "waiting"]
  <2>1. Within(stage') = I /\ At(stage', {"waiting"}) = W \cup {j} /\ At(stage', {"exporting"}) = E
    BY <1>2, <1>5 DEF Within, At
  <2> DEFINE q == Append(gate.waiting, j)
  <2>2. q \in Seq(Exports) /\ Once(q) /\ InSeq(q) = W \cup {j}
    BY <1>1, <1>2, OneMore
  <2>3. /\ gate'.active = gate.active /\ gate'.waiting = q
        /\ gate' \in [active : Nat, waiting : Seq(Exports)]
    BY <1>1, <1>5, <2>2
  <2> HIDE DEF q
  <2>4. gate.active = Concurrency
    BY <1>1, <1>5, SizesAssumption
  <2>5. GateOK(stage', gate')
    BY <1>1, <2>1, <2>2, <2>3, <2>4 DEF GateOK
  <2> QED BY <1>2, <2>1, <2>5 DEF SlotInv
<1>6. CASE stage' = [stage EXCEPT ![j] = "failed"] /\ UNCHANGED gate
  <2>1. Within(stage') = I /\ At(stage', {"waiting"}) = W /\ At(stage', {"exporting"}) = E
    BY <1>2, <1>6 DEF Within, At
  <2>2. GateOK(stage', gate')
    BY <1>1, <1>6, <2>1 DEF GateOK
  <2> QED BY <1>2, <2>1, <2>2 DEF SlotInv
<1> QED BY <1>4, <1>5, <1>6 DEF Ask

\* A wait for a slot ends.
LEMMA WaitSlots ==
  ASSUME ReportInv, SlotInv, NEW j \in Exports, WaitExpires(j)
  PROVE  SlotInv'
<1> USE SlotFacts
<1> DEFINE I == Within(stage)
           W == At(stage, {"waiting"})
           E == At(stage, {"exporting"})
           q == Without(gate.waiting, j)
<1>1. /\ gate.active \in Nat /\ gate.waiting \in Seq(Exports) /\ Once(gate.waiting)
      /\ gate.active = Cardinality(I) /\ gate.active <= Concurrency
      /\ (gate.waiting # <<>> => gate.active = Concurrency) /\ InSeq(gate.waiting) = W
  BY DEF GateOK
<1>2. /\ stage[j] = "waiting" /\ j \in W /\ UNCHANGED pool
      /\ gate' = [gate EXCEPT !.waiting = q] /\ stage' = [stage EXCEPT ![j] = "failed"]
  BY DEF WaitExpires, At
<1>3. q \in Seq(Exports) /\ Once(q) /\ InSeq(q) = W \ {j}
  BY <1>1, <1>2, OneFewer
<1>4. gate.waiting # <<>>
  BY <1>1, <1>2 DEF InSeq
<1> HIDE DEF q
<1>5. /\ gate'.active = gate.active /\ gate'.waiting = q
      /\ gate' \in [active : Nat, waiting : Seq(Exports)]
  BY <1>1, <1>2, <1>3
<1>6. /\ Within(stage') = I /\ At(stage', {"waiting"}) = W \ {j} /\ At(stage', {"exporting"}) = E
  BY <1>2 DEF Within, At
<1>7. GateOK(stage', gate')
  BY <1>1, <1>3, <1>4, <1>5, <1>6 DEF GateOK
<1> QED BY <1>2, <1>6, <1>7 DEF SlotInv

\* A request that reads its data fails, before it asked for a report.
LEMMA FailSlots ==
  ASSUME ReportInv, SlotInv, NEW j \in Exports, stage[j] = "reading", Leave(stage, {j}, {}),
         UNCHANGED pool
  PROVE  SlotInv'
<1> USE SlotFacts
<1> DEFINE F == {j}
           N == {}
<1>1. F \cup N \subseteq Within(stage) /\ At(stage, {"exporting"}) \ (F \cup N) = At(stage, {"exporting"})
  BY DEF Within, At
<1>2. Leave(stage, F, N)
  OBVIOUS
<1> HIDE DEF F, N
<1>3. GateOK(stage', gate') /\ At(stage', {"exporting"}) = At(stage, {"exporting"}) \ (F \cup N)
  BY <1>1, <1>2, LeaveSlots
<1> QED BY <1>1, <1>3 DEF SlotInv

\* A request asks for its report, or is refused.
LEMMA ExportSlots ==
  ASSUME ReportInv, SlotInv, NEW j \in Exports, Export(j)
  PROVE  SlotInv'
<1> USE SlotFacts
<1>0. stage[j] = "reading"
  BY DEF Export
<1>1. CASE Leave(stage, {j}, {}) /\ UNCHANGED pool
  BY <1>0, <1>1, FailSlots
<1>2. CASE Drain([pool EXCEPT !.queue = Append(pool.queue, j)],
                 [stage EXCEPT ![j] = "exporting"], {}, {})
  <2> DEFINE q == Append(pool.queue, j)
             p == [pool EXCEPT !.queue = q]
             stages == [stage EXCEPT ![j] = "exporting"]
             E == At(stage, {"exporting"})
             N == {}
  <2>1. j \notin E
    BY <1>0 DEF At
  <2>2. /\ Once(pool.queue) /\ pool.active \notin InSeq(pool.queue)
        /\ InSeq(pool.queue) \cup Hand(pool) = E /\ (pool.deadline <=> pool.active # None)
    BY DEF PoolOK
  <2>3. j \notin InSeq(pool.queue) /\ j # pool.active
    BY <2>1, <2>2, ExportsAssumption DEF Hand
  <2>4. q \in Seq(Exports) /\ Once(q) /\ InSeq(q) = InSeq(pool.queue) \cup {j}
    BY <2>2, <2>3, OneMore
  <2>5. /\ stages \in [Exports -> Stages] /\ At(stages, {"exporting"}) = E \cup {j}
        /\ Within(stages) = Within(stage) /\ At(stages, {"waiting"}) = At(stage, {"waiting"})
    BY <1>0 DEF At, Within, Stages
  <2>6. Drain(p, stages, N, N)
    BY <1>2
  <2> HIDE DEF q, stages
  <2>7. p \in LoosePool
    BY <2>4, Zenon DEF LoosePool
  <2>8. p.queue = q /\ p.active = pool.active /\ p.deadline = pool.deadline
    BY Zenon DEF LoosePool
  <2> HIDE DEF p
  <2>9. Hand(p) = Hand(pool)
    BY <2>8 DEF Hand
  <2>10. PoolOK(p, At(stages, {"exporting"}) \ (N \cup N))
    <3>1. At(stages, {"exporting"}) \ (N \cup N) = E \cup {j}
      BY <2>5
    <3>2. PoolOK(p, E \cup {j})
      BY <2>2, <2>3, <2>4, <2>8, <2>9 DEF PoolOK
    <3> QED BY <3>1, <3>2
  <2>11. GateOK(stages, gate)
    BY <2>5 DEF GateOK
  <2>12. N \cup N \subseteq At(stages, {"exporting"})
    OBVIOUS
  <2> HIDE DEF N
  <2> QED BY <2>5, <2>6, <2>7, <2>10, <2>11, <2>12, DrainSlots DEF SlotInv
<1> QED BY <1>1, <1>2 DEF Export

\* The task in hand ends, answered or not, and the next ones follow.
LEMMA HandSlots ==
  ASSUME ReportInv, SlotInv, NEW p \in LoosePool, p.queue = pool.queue, p.active = None,
         p.deadline = FALSE, NEW failed, NEW answered, failed \cup answered = Hand(pool),
         Drain(p, stage, failed, answered)
  PROVE  SlotInv'
<1> DEFINE E == At(stage, {"exporting"})
<1>1. /\ PoolOK(pool, E) /\ pool.queue \in Seq(Exports) /\ GateOK(stage, gate)
      /\ stage \in [Exports -> Stages]
  BY SlotFacts
<1> HIDE DEF E
<1>2. Hand(pool) \subseteq E /\ PoolOK(p, E \ Hand(pool))
  BY <1>1, LetGo
<1>3. /\ failed \cup answered \subseteq At(stage, {"exporting"})
      /\ PoolOK(p, At(stage, {"exporting"}) \ (failed \cup answered))
  BY <1>2 DEF E
<1> QED BY <1>1, <1>3, DrainSlots DEF SlotInv

\* A thread sends something.
LEMMA MessageSlots ==
  ASSUME ReportInv, SlotInv, NEW w \in Threads, Message(w)
  PROVE  SlotInv'
<1> USE SlotFacts
<1> DEFINE freed == [pool.running EXCEPT ![w] = None]
<1>0. pool.running \in [Threads -> Task \cup {"gone"}]
  BY DEF LoosePool
<1>1. Freed(w) = [pool EXCEPT !.running = freed] /\ freed \in [Threads -> Task \cup {"gone"}]
  BY <1>0 DEF Freed, LoosePool
<1> HIDE DEF freed
<1>2. CASE ~InUse(w)
  <2>1. pool' = [pool EXCEPT !.running = freed] /\ UNCHANGED <<stage, gate>>
    BY <1>1, <1>2 DEF Message
  <2>2. pool'.queue = pool.queue /\ pool'.active = pool.active /\ pool'.deadline = pool.deadline
    BY <2>1, Zenon DEF LoosePool
  <2>3. PoolOK(pool', At(stage, {"exporting"}))
    BY <2>2, SameTasks
  <2> QED BY <2>1, <2>3 DEF SlotInv
<1>3. CASE InUse(w)
  <2> DEFINE p == [pool EXCEPT !.running = freed, !.active = None, !.deadline = FALSE]
  <2>1. [Freed(w) EXCEPT !.active = None, !.deadline = FALSE] = p
    BY <1>1 DEF LoosePool
  <2>2. Drain(p, stage, {}, {pool.active}) \/ Drain(p, stage, {pool.active}, {})
    BY <1>3, <2>1 DEF Message
  <2>3. p \in LoosePool
    BY <1>1, Zenon DEF LoosePool
  <2>4. p.queue = pool.queue /\ p.active = None /\ p.deadline = FALSE
    BY Zenon DEF LoosePool
  <2>5. Hand(pool) = {pool.active} /\ {} \cup {pool.active} = Hand(pool) /\ {pool.active} \cup {} = Hand(pool)
    BY <1>3 DEF InUse, Hand
  <2> HIDE DEF p
  <2>6. CASE Drain(p, stage, {}, {pool.active})
    BY <2>3, <2>4, <2>5, <2>6, HandSlots
  <2>7. CASE Drain(p, stage, {pool.active}, {})
    BY <2>3, <2>4, <2>5, <2>7, HandSlots
  <2> QED BY <2>2, <2>6, <2>7
<1> QED BY <1>2, <1>3

\* A thread dies or exits, or a report takes too long.
LEMMA ThreadSlots ==
  ASSUME ReportInv, SlotInv, Deadline \/ \E w \in Threads : Dies(w) \/ Exits(w)
  PROVE  SlotInv'
<1> USE SlotFacts
<1>0. pool.running \in [Threads -> Task \cup {"gone"}] /\ Current \cup {} = Hand(pool)
  BY DEF LoosePool, Current, Hand
<1>1. CASE Deadline
  <2> DEFINE p == [pool EXCEPT !.worker = None, !.deadline = FALSE, !.active = None]
  <2>1. Drain(p, stage, Current, {})
    BY <1>1 DEF Deadline
  <2>2. p \in LoosePool
    BY Zenon DEF LoosePool
  <2>3. p.queue = pool.queue /\ p.active = None /\ p.deadline = FALSE
    BY Zenon DEF LoosePool
  <2> HIDE DEF p
  <2> QED BY <1>0, <2>1, <2>2, <2>3, HandSlots
<1>2. ASSUME NEW w \in Threads, Dies(w) PROVE SlotInv'
  <2> DEFINE r == [pool.running EXCEPT ![w] = "gone"]
             p == [pool EXCEPT !.worker = None, !.deadline = FALSE, !.active = None, !.running = r]
  <2>1. Drain(p, stage, Current, {}) /\ r \in [Threads -> Task \cup {"gone"}]
    BY <1>0, <1>2 DEF Dies, LoosePool
  <2> HIDE DEF r
  <2>2. p \in LoosePool
    BY <2>1, Zenon DEF LoosePool
  <2>3. p.queue = pool.queue /\ p.active = None /\ p.deadline = FALSE
    BY Zenon DEF LoosePool
  <2> HIDE DEF p
  <2> QED BY <1>0, <2>1, <2>2, <2>3, HandSlots
<1>3. ASSUME NEW w \in Threads, Exits(w) PROVE SlotInv'
  <2> DEFINE r == [pool.running EXCEPT ![w] = "gone"]
  <2>1. pool' = [pool EXCEPT !.running = r] /\ UNCHANGED <<stage, gate>>
    BY <1>3 DEF Exits, LoosePool
  <2> HIDE DEF r
  <2>2. pool'.queue = pool.queue /\ pool'.active = pool.active /\ pool'.deadline = pool.deadline
    BY <2>1, Zenon DEF LoosePool
  <2>3. PoolOK(pool', At(stage, {"exporting"}))
    BY <2>2, SameTasks
  <2> QED BY <2>1, <2>3 DEF SlotInv
<1> QED BY <1>1, <1>2, <1>3

\* An idle timer fires, or the process closes.
LEMMA CloseSlots ==
  ASSUME ReportInv, SlotInv, Close \/ \E t \in Timers : IdleFires(t)
  PROVE  SlotInv'
<1> USE SlotFacts
<1>1. ASSUME NEW t \in Timers, IdleFires(t) PROVE SlotInv'
  <2> DEFINE a == pool.armed \ {t}
  <2>1. pool' = [pool EXCEPT !.armed = a, !.worker = None] /\ UNCHANGED <<stage, gate>>
    BY <1>1 DEF IdleFires, LoosePool
  <2> HIDE DEF a
  <2>2. pool'.queue = pool.queue /\ pool'.active = pool.active /\ pool'.deadline = pool.deadline
    BY <2>1, Zenon DEF LoosePool
  <2>3. PoolOK(pool', At(stage, {"exporting"}))
    BY <2>2, SameTasks
  <2> QED BY <2>1, <2>3 DEF SlotInv
<1>2. CASE Close
  <2> DEFINE a == pool.armed \ {pool.idle}
             q == <<>>
             F == Current \cup InSeq(pool.queue)
             N == {}
             E == At(stage, {"exporting"})
  <2>1. /\ pool' = [pool EXCEPT !.stopping = TRUE, !.armed = a, !.deadline = FALSE, !.active = None,
                                !.queue = q, !.worker = None]
        /\ Leave(stage, F, N)
    BY <1>2 DEF Close, LoosePool
  <2> HIDE DEF a
  <2>2. pool'.active = None /\ pool'.queue = q /\ pool'.deadline = FALSE
    BY <2>1, Zenon DEF LoosePool
  <2>3. F \cup N = E
    BY DEF PoolOK, Current, Hand
  <2>4. E \subseteq Within(stage)
    BY DEF At, Within
  <2> HIDE DEF F, N, E
  <2>5. GateOK(stage', gate') /\ At(stage', {"exporting"}) = E \ (F \cup N)
    BY <2>1, <2>3, <2>4, LeaveSlots DEF E
  <2>6. At(stage', {"exporting"}) = {}
    BY <2>3, <2>5
  <2>7. Once(q) /\ InSeq(q) = {}
    BY DEF Once, InSeq
  <2>8. PoolOK(pool', {})
    BY <2>2, <2>7 DEF PoolOK, Hand
  <2> QED BY <2>5, <2>6, <2>8 DEF SlotInv
<1> QED BY <1>1, <1>2

\* No slot is taken at first.
LEMMA SlotStart == ExportInit => SlotInv
<1> SUFFICES ASSUME ExportInit PROVE SlotInv
  OBVIOUS
<1>1. /\ gate = [active |-> 0, waiting |-> <<>>] /\ pool.queue = <<>> /\ pool.active = None
      /\ pool.deadline = FALSE /\ \A j \in Exports : stage[j] = "new"
  BY DEF ExportInit
<1>2. Within(stage) = {} /\ At(stage, {"waiting"}) = {} /\ At(stage, {"exporting"}) = {}
  BY <1>1 DEF Within, At
<1>3. Cardinality({}) = 0
  BY FS_EmptySet
<1>4. Once(<<>>) /\ InSeq(<<>>) = {}
  BY DEF Once, InSeq
<1>5. GateOK(stage, gate)
  <2> DEFINE none == <<>>
  <2>1. none \in Seq(Exports) /\ 0 <= Concurrency
    BY SizesAssumption
  <2>2. Once(none) /\ InSeq(none) = {} /\ gate = [active |-> 0, waiting |-> none]
    BY <1>1, <1>4
  <2> HIDE DEF none
  <2>3. gate \in [active : Nat, waiting : Seq(Exports)] /\ gate.active = 0 /\ gate.waiting = none
    BY <2>1, <2>2
  <2>4. none = <<>>
    BY DEF none
  <2> QED BY <1>2, <1>3, <2>1, <2>2, <2>3, <2>4 DEF GateOK
<1>6. PoolOK(pool, At(stage, {"exporting"}))
  BY <1>1, <1>2, <1>4 DEF PoolOK, Hand
<1> QED BY <1>5, <1>6 DEF SlotInv

\* Every step of the gate and the pool.
LEMMA SlotStep == ReportInv /\ SlotInv /\ [ExportNext]_exportVars => SlotInv'
<1> SUFFICES ASSUME ReportInv, SlotInv, [ExportNext]_exportVars PROVE SlotInv'
  OBVIOUS
<1>1. CASE UNCHANGED exportVars
  BY <1>1 DEF exportVars, SlotInv
<1>2. ASSUME NEW j \in Exports, ReadFails(j) PROVE SlotInv'
  BY <1>2, FailSlots DEF ReadFails
<1> QED
  BY <1>1, <1>2, AskSlots, WaitSlots, ExportSlots, MessageSlots, ThreadSlots, CloseSlots
  DEF ExportNext

\* Slots, queue and thread agree with the requests they serve.
LEMMA SlotsFollow == ReportInv /\ SlotInv => SlotsConserved
<1> SUFFICES ASSUME ReportInv, SlotInv PROVE SlotsConserved
  OBVIOUS
<1>1. /\ gate.waiting \in Seq(Exports) /\ GateOK(stage, gate)
      /\ PoolOK(pool, At(stage, {"exporting"}))
  BY SlotFacts
<1>2. Len(gate.waiting) = Cardinality(InSeq(gate.waiting))
  BY <1>1, OnceCounted DEF GateOK
<1>3. Inside = Within(stage) /\ Current = Hand(pool)
  BY DEF Inside, Within, At, Current, Hand
<1>4. /\ At(stage, {"waiting"}) = {j \in Exports : stage[j] = "waiting"}
      /\ At(stage, {"exporting"}) = {j \in Exports : stage[j] = "exporting"}
  BY DEF At
<1> QED BY <1>1, <1>2, <1>3, <1>4 DEF SlotsConserved, GateOK, PoolOK

\* However many requests, slots, places in the queues and threads there are, and whenever waits
\* expire, threads die and reports take too long: each slot taken has a request inside, nobody
\* waits next to a free slot, and the thread and its queue hold whoever waits for a report.
THEOREM NoSlotIsLost == Spec => []SlotsConserved
<1>1. Init => ReportInv /\ SlotInv
  BY ReportStart, SlotStart DEF Init
<1>2. ReportInv /\ SlotInv /\ [Next]_vars => (ReportInv /\ SlotInv)'
  BY Handling, ReportStep, SlotStep
<1> QED
  BY <1>1, <1>2, SlotsFollow, PTL DEF Spec
=============================================================================
