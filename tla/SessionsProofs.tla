---------------------------- MODULE SessionsProofs ----------------------------
(***************************************************************************)
(* Proofs about Sessions.  A session id is fresh when it is made, so no    *)
(* token of an earlier one names it; that, and what a login and a request  *)
(* remember of the account they read, is what IInv adds to the properties. *)
(***************************************************************************)
EXTENDS Sessions, TLAPS

\* Every token names a session that was made.
TokensKnown == \A t \in tokens : t.session \in 1..ids

\* Whoever acts with the token of the present session is up to date.
UpToDate(t) == t.session = user.session => t.begun = user.version /\ t.version = user.version

TokensCurrent == \A t \in tokens : UpToDate(t)

\* A request under way names a session that some device has, and is up to date
\* when that is the present one.
VisitsCurrent == \A v \in Visits : visit[v] # None =>
  visit[v].token.session \in Held /\ UpToDate(visit[v].token)

\* An expired session was logged out or reset: nobody was seen in it, and no
\* device has it.
ExpiredIsGone == user.expired => user.seen = None /\ user.session \notin Held

\* What a login that goes on without a code read was not in use, and still is not.
ReadIdle(l) ==
  /\ login[l].pc \in {"read", "issuing"} =>
       /\ login[l].read \in User
       /\ login[l].read.expired => login[l].read.seen = None
  /\ login[l].pc = "issuing" => ~Live(login[l].read)

ReadsIdle == \A l \in Logins : ReadIdle(l)

\* Only a consumed code gave a session, and it had attempts left.
CodeUsed(l) ==
  /\ login[l].pc \in {"free", "read"} => challenge[l] = None
  /\ challenge[l] = None => granted[l] = 0
  /\ challenge[l] # None /\ ~challenge[l].consumed => granted[l] = 0
  /\ granted[l] <= 1
  /\ challenge[l] # None /\ challenge[l].attempts = MaxAttempts => granted[l] = 0

CodesUsed == \A l \in Logins : CodeUsed(l)

IInv ==
  /\ TypeOK
  /\ TokensKnown
  /\ TokensCurrent
  /\ VisitsCurrent
  /\ ExpiredIsGone
  /\ ReadsIdle
  /\ CodesUsed
  /\ ActivityIsOwn

-----------------------------------------------------------------------------
(* The initial state.                                                      *)

\* At first the account has one session or none.
LEMMA InitOK == Init => IInv
<1> SUFFICES ASSUME Init PROVE IInv
  OBVIOUS
<1> USE SessionsAssumption
<1>0. PICK seen \in {0, None}, session \in {1, None} :
        /\ session = None => seen = None
        /\ user = [open |-> TRUE, version |-> 0, session |-> session, seen |-> seen,
                   expired |-> FALSE]
        /\ ids = IF session = None THEN 0 ELSE 1
        /\ tokens = IF session = None THEN {}
                    ELSE {[session |-> 1, version |-> 0, begun |-> 0]}
        /\ seenBy = IF seen = None THEN None ELSE session
  BY DEF Init
<1>1. TypeOK
  <2>1. 0 \in Time /\ 0 \in 0..MaxVersion
    BY DEF Time
  <2>2. session # None => 1 \in Ids
    BY DEF Ids
  <2> QED
    BY <1>0, <2>1, <2>2 DEF Init, TypeOK, User, Token, Login, Challenge, Proof, Visit
<1>2. TokensKnown /\ TokensCurrent
  BY DEF Init, TokensKnown, TokensCurrent, UpToDate
<1>3. VisitsCurrent /\ ExpiredIsGone /\ ReadsIdle
  BY DEF Init, VisitsCurrent, ExpiredIsGone, ReadsIdle, ReadIdle
<1>4. CodesUsed
  <2>1. \A l \in Logins : challenge[l] = None /\ granted[l] = 0
    BY DEF Init
  <2>2. \A l \in Logins : granted[l] <= 1
    <3> TAKE l \in Logins
    <3>1. granted[l] = 0
      BY <2>1
    <3> QED
      BY <3>1
  <2> QED
    BY <2>1, <2>2, Zenon DEF CodesUsed, CodeUsed
<1>5. ActivityIsOwn
  BY DEF Init, ActivityIsOwn, Held
<1> QED
  BY <1>1, <1>2, <1>3, <1>4, <1>5 DEF IInv

-----------------------------------------------------------------------------
(* What the actions that make a session have in common.                    *)

\* The constants, one by one.
LEMMA Bounds ==
  /\ Ttl \in Nat /\ OtpTtl \in Nat /\ ProofTtl \in Nat /\ MaxAttempts \in Nat
  /\ MaxNow \in Nat /\ MaxIds \in Nat /\ MaxVersion \in Nat
  /\ None \notin Nat
BY SessionsAssumption

\* A fresh id has the next number, and no known token names it.
LEMMA FreshId ==
  ASSUME TypeOK, TokensKnown, Fresh
  PROVE  /\ ids' \in Ids /\ ids' \in 0..MaxIds /\ ids' # None
         /\ \A t \in tokens : t.session # ids'
         /\ \A n \in 1..ids : n \in 1..ids'
         /\ ids' \in 1..ids'
<1>1. ids \in 0..MaxIds /\ ids < MaxIds /\ ids' = ids + 1
  BY DEF TypeOK, Fresh
<1>2. ids' \in Ids /\ ids' \in 0..MaxIds /\ ids' # None /\ ids' \in 1..ids'
  BY <1>1, Bounds DEF Ids
<1>3. \A n \in 1..ids : n \in 1..ids' /\ n # ids'
  BY <1>1, Bounds
<1> QED
  BY <1>2, <1>3 DEF TokensKnown

\* What the session is, who has it and who acts for it.
SessionOK == TokensKnown /\ TokensCurrent /\ VisitsCurrent /\ ExpiredIsGone /\ ActivityIsOwn

\* Nothing about the session changes.
LEMMA SessionKept ==
  ASSUME SessionOK, user'.session = user.session, user'.version = user.version,
         user'.seen = user.seen, user'.expired = user.expired,
         UNCHANGED <<ids, tokens, visit, seenBy>>
  PROVE  SessionOK'
BY DEF SessionOK, TokensKnown, TokensCurrent, UpToDate, VisitsCurrent, Held, ExpiredIsGone,
       ActivityIsOwn

\* A login or a code gives the account a new session, begun under its version.
LEMMA SessionIssued ==
  ASSUME TypeOK, SessionOK, IssueSession(user.version), UNCHANGED visit
  PROVE  SessionOK'
<1> DEFINE new == [session |-> ids', version |-> user.version, begun |-> user.version]
<1>0. /\ user \in User /\ tokens' = tokens \cup {new}
      /\ user' = [user EXCEPT !.session = ids', !.seen = now, !.expired = FALSE]
      /\ seenBy' = ids' /\ Fresh /\ visit' = visit
  BY DEF IssueSession, TypeOK
<1>1. /\ user'.session = ids' /\ user'.version = user.version /\ ~user'.expired
      /\ user'.seen = now
  BY <1>0 DEF User
<1>2. \A t \in tokens : t.session # ids' /\ t.session \in 1..ids'
  BY <1>0, FreshId DEF SessionOK, TokensKnown
<1>3. /\ new.session = ids' /\ new.session \in 1..ids'
      /\ new.version = user.version /\ new.begun = user.version
  BY <1>0, FreshId DEF SessionOK
<1> HIDE DEF new
<1>4. TokensKnown'
  BY <1>0, <1>2, <1>3 DEF TokensKnown
<1>5. TokensCurrent'
  <2>1. \A t \in tokens' :
          t.session = user'.session => t.begun = user'.version /\ t.version = user'.version
    BY <1>0, <1>1, <1>2, <1>3
  <2> QED
    BY <2>1 DEF TokensCurrent, UpToDate
<1>6. VisitsCurrent'
  <2> SUFFICES ASSUME NEW v \in Visits, visit[v] # None
               PROVE  (visit[v].token.session \in Held /\ UpToDate(visit[v].token))'
    BY <1>0 DEF VisitsCurrent
  <2>1. PICK t \in tokens : t.session = visit[v].token.session
    BY DEF SessionOK, VisitsCurrent, Held
  <2> QED
    BY <1>0, <1>1, <1>2, <2>1 DEF UpToDate, Held
<1>7. ExpiredIsGone'
  BY <1>1 DEF ExpiredIsGone
<1>8. ActivityIsOwn'
  BY <1>0, <1>1 DEF ActivityIsOwn
<1> QED
  BY <1>4, <1>5, <1>6, <1>7, <1>8 DEF SessionOK

\* An id that nobody has takes the place of the session.
LEMMA SessionReplaced ==
  ASSUME TypeOK, SessionOK, Fresh, user'.session = ids',
         user'.expired => user'.seen = None,
         UNCHANGED <<tokens, visit>>
  PROVE  SessionOK'
<1>1. \A t \in tokens : t.session # ids' /\ t.session \in 1..ids'
  BY FreshId DEF SessionOK, TokensKnown
<1>2. Held' = Held /\ user'.session \notin Held
  BY <1>1 DEF Held
<1>3. TokensKnown' /\ TokensCurrent'
  BY <1>1 DEF TokensKnown, TokensCurrent, UpToDate
<1>4. VisitsCurrent'
  BY <1>1, <1>2 DEF SessionOK, VisitsCurrent, UpToDate, Held
<1>5. ExpiredIsGone' /\ ActivityIsOwn'
  BY <1>2 DEF ExpiredIsGone, ActivityIsOwn
<1> QED
  BY <1>3, <1>4, <1>5 DEF SessionOK

\* What is not in use does not come into use by waiting.
LEMMA ReadsKept ==
  ASSUME ReadsIdle, now \in Nat, now' \in Nat, now <= now',
         \A l \in Logins : login'[l] = login[l] \/ ReadIdle(l)'
  PROVE  ReadsIdle'
<1> SUFFICES ASSUME NEW l \in Logins, login'[l] = login[l] PROVE ReadIdle(l)'
  BY DEF ReadsIdle
<1>1. ReadIdle(l)
  BY DEF ReadsIdle
<1>2. login[l].read \in User /\ ~Live(login[l].read) => ~Live(login[l].read)'
  BY Bounds DEF Live, User, Time
<1> QED
  BY <1>1, <1>2 DEF ReadIdle

\* No other code is asked for, tried or used.
LEMMA CodesKept ==
  ASSUME CodesUsed,
         \A l \in Logins :
           \/ CodeUsed(l)'
           \/ /\ challenge'[l] = challenge[l] /\ granted'[l] = granted[l]
              /\ login'[l].pc \in {"free", "read"} => login[l].pc \in {"free", "read"}
  PROVE  CodesUsed'
<1> SUFFICES ASSUME NEW l \in Logins, challenge'[l] = challenge[l], granted'[l] = granted[l],
                    login'[l].pc \in {"free", "read"} => login[l].pc \in {"free", "read"}
             PROVE  CodeUsed(l)'
  BY DEF CodesUsed
<1>1. CodeUsed(l)
  BY DEF CodesUsed
<1> QED
  BY <1>1 DEF CodeUsed

\* A new session is well formed.
LEMMA IssueType ==
  ASSUME TypeOK, TokensKnown, NEW v \in 0..MaxVersion, IssueSession(v)
  PROVE  /\ user' \in User /\ ids' \in 0..MaxIds /\ tokens' \subseteq Token
         /\ seenBy' \in Ids \cup {None}
<1>1. ids' \in Ids /\ ids' \in 0..MaxIds
  BY FreshId DEF IssueSession
<1>2. user.version \in 0..MaxVersion /\ user \in User /\ now \in Time
  BY DEF TypeOK, User
<1>3. user' \in User
  BY <1>1, <1>2 DEF IssueSession, User
<1>4. [session |-> ids', version |-> user.version, begun |-> v] \in Token
  BY <1>1, <1>2 DEF Token
<1> QED
  BY <1>1, <1>3, <1>4 DEF IssueSession, TypeOK

-----------------------------------------------------------------------------
(* Every step.                                                             *)

\* Every action keeps the invariant.
LEMMA StepOK == IInv /\ [Next]_vars => IInv'
<1> SUFFICES ASSUME IInv, [Next]_vars
             PROVE  TypeOK' /\ SessionOK' /\ ReadsIdle' /\ CodesUsed'
  BY DEF IInv, SessionOK
<1>0. TypeOK /\ SessionOK /\ ReadsIdle /\ CodesUsed /\ TokensKnown /\ ExpiredIsGone
  BY DEF IInv, SessionOK
<1>t. /\ now \in Time /\ now \in Nat /\ user \in User /\ user.version \in 0..MaxVersion
      /\ tokens \subseteq Token
      /\ login \in [Logins -> Login] /\ visit \in [Visits -> Visit \cup {None}]
      /\ challenge \in [Logins -> Challenge \cup {None}] /\ granted \in [Logins -> Nat]
      /\ proof \in [Proofs -> Proof \cup {None}]
  BY <1>0 DEF TypeOK, User, Time
<1>1. ASSUME NEW l \in Logins, ReadAccount(l)
      PROVE  TypeOK' /\ SessionOK' /\ ReadsIdle' /\ CodesUsed'
  <2>1. /\ login[l].pc = "free" /\ login'[l] = [pc |-> "read", read |-> user]
        /\ \A k \in Logins \ {l} : login'[k] = login[k]
    BY <1>1, <1>t DEF ReadAccount
  <2>2. TypeOK'
    BY <1>1, <1>0 DEF ReadAccount, TypeOK, Login
  <2>3. SessionOK'
    BY <1>1, <1>0, SessionKept DEF ReadAccount
  <2>4. ReadIdle(l)'
    BY <2>1, <1>0, <1>t DEF ReadIdle, ExpiredIsGone
  <2>5. ReadsIdle'
    BY <1>1, <2>1, <2>4, <1>0, <1>t, ReadsKept DEF ReadAccount
  <2>6. CodesUsed'
    BY <1>1, <2>1, <1>0, CodesKept DEF ReadAccount
  <2> QED
    BY <2>2, <2>3, <2>5, <2>6
<1>2. ASSUME NEW l \in Logins, AskCode(l)
      PROVE  TypeOK' /\ SessionOK' /\ ReadsIdle' /\ CodesUsed'
  <2> DEFINE c == [version |-> login[l].read.version, attempts |-> 0, consumed |-> FALSE,
                   expires |-> now + OtpTtl]
  <2>1. /\ login[l].pc = "read" /\ login'[l].pc \in {"asked", "ended"}
        /\ \A k \in Logins \ {l} : login'[k] = login[k] /\ challenge'[k] = challenge[k]
        /\ challenge' = [challenge EXCEPT ![l] = c] \/ challenge' = challenge
    BY <1>2, <1>t DEF AskCode
  <2>2. CodeUsed(l) /\ ReadIdle(l)
    BY <1>0 DEF CodesUsed, ReadsIdle
  <2>3. login[l].read \in User
    BY <2>1, <2>2 DEF ReadIdle
  <2>4. c \in Challenge
    BY <2>3, <1>t, Bounds DEF User, Challenge
  <2>5. login' \in [Logins -> Login]
    BY <1>2, <1>t, <2>3 DEF AskCode, Login
  <2>6. challenge' \in [Logins -> Challenge \cup {None}]
    BY <2>1, <2>4, <1>t
  <2>7. TypeOK'
    BY <1>2, <1>0, <2>5, <2>6 DEF AskCode, TypeOK
  <2>8. SessionOK'
    BY <1>2, <1>0, SessionKept DEF AskCode
  <2>9. ReadsIdle'
    <3>1. ReadIdle(l)'
      BY <2>1 DEF ReadIdle
    <3> QED
      BY <1>2, <1>0, <1>t, <2>1, <3>1, ReadsKept DEF AskCode
  <2>10. CodesUsed'
    <3>1. challenge[l] = None /\ granted[l] = 0 /\ granted' = granted
      BY <1>2, <2>1, <2>2 DEF CodeUsed, AskCode
    <3>2. CodeUsed(l)'
      BY <2>1, <3>1, <1>t DEF CodeUsed
    <3> QED
      BY <2>1, <3>1, <3>2, <1>0, CodesKept
  <2> QED
    BY <2>7, <2>8, <2>9, <2>10
<1>3. ASSUME NEW l \in Logins, SkipCode(l)
      PROVE  TypeOK' /\ SessionOK' /\ ReadsIdle' /\ CodesUsed'
  <2>1. /\ login[l].pc = "read" /\ login'[l].pc = "issuing"
        /\ login'[l].read = login[l].read /\ login[l].read \in User \cup {None}
        /\ \A k \in Logins \ {l} : login'[k] = login[k]
    BY <1>3, <1>t DEF SkipCode, Login
  <2>2. TypeOK'
    BY <1>3, <1>0 DEF SkipCode, TypeOK, Login
  <2>3. SessionOK'
    BY <1>3, <1>0, SessionKept DEF SkipCode
  <2>4. ReadIdle(l)'
    <3>1. ReadIdle(l) /\ ~Live(login[l].read) /\ now' = now
      BY <1>3, <1>0 DEF SkipCode, ReadsIdle
    <3>2. ~Live(login[l].read)'
      BY <2>1, <3>1 DEF Live
    <3> QED
      BY <2>1, <3>1, <3>2 DEF ReadIdle
  <2>5. ReadsIdle'
    BY <1>3, <2>1, <2>4, <1>0, <1>t, ReadsKept DEF SkipCode
  <2>6. CodesUsed'
    BY <1>3, <2>1, <1>0, CodesKept DEF SkipCode
  <2> QED
    BY <2>2, <2>3, <2>5, <2>6
<1>4. ASSUME NEW l \in Logins, Issue(l)
      PROVE  TypeOK' /\ SessionOK' /\ ReadsIdle' /\ CodesUsed'
  <2>1. /\ login[l].pc = "issuing" /\ login'[l].pc = "ended"
        /\ \A k \in Logins \ {l} : login'[k] = login[k]
        /\ login' \in [Logins -> Login]
        /\ UNCHANGED <<now, challenge, granted, proof, visit>>
    BY <1>4, <1>t DEF Issue, Login
  <2>2. ReadsIdle'
    <3>1. ReadIdle(l)'
      BY <2>1 DEF ReadIdle
    <3> QED
      BY <2>1, <3>1, <1>0, <1>t, ReadsKept
  <2>3. CodesUsed'
    BY <2>1, <1>0, CodesKept
  <2>4. CASE UNCHANGED <<user, ids, tokens, seenBy>>
    <3>1. TypeOK'
      BY <2>1, <2>4, <1>0 DEF TypeOK
    <3>2. SessionOK'
      BY <2>1, <2>4, <1>0, SessionKept
    <3> QED
      BY <2>2, <2>3, <3>1, <3>2
  <2>5. CASE IssueSession(user.version)
    <3>1. TypeOK'
      BY <2>1, <2>5, <1>0, <1>t, IssueType DEF TypeOK
    <3>2. SessionOK'
      BY <2>1, <2>5, <1>0, SessionIssued
    <3> QED
      BY <2>2, <2>3, <3>1, <3>2
  <2> QED
    BY <1>4, <2>4, <2>5 DEF Issue, Unchanged
<1>5. ASSUME NEW l \in Logins, WrongCode(l)
      PROVE  TypeOK' /\ SessionOK' /\ ReadsIdle' /\ CodesUsed'
  <2> DEFINE c == [challenge[l] EXCEPT !.attempts = challenge[l].attempts + 1]
  <2>1. /\ challenge[l] # None /\ ~challenge[l].consumed
        /\ challenge[l].attempts < MaxAttempts
        /\ challenge' = [challenge EXCEPT ![l] = c]
        /\ UNCHANGED <<now, user, ids, tokens, login, granted, proof, visit, seenBy>>
    BY <1>5 DEF WrongCode, Open
  <2>2. challenge[l] \in Challenge
    BY <2>1, <1>t
  <2>3. c \in Challenge
    BY <2>1, <2>2, Bounds DEF Challenge
  <2>4. c # None
    BY <2>3, NoneAssumption
  <2>5. TypeOK'
    BY <2>1, <2>3, <1>0 DEF TypeOK
  <2>6. SessionOK' /\ ReadsIdle'
    BY <2>1, <1>0, <1>t, SessionKept, ReadsKept
  <2>7. CodesUsed'
    <3>1. CodeUsed(l)
      BY <1>0 DEF CodesUsed
    <3>2. granted[l] = 0 /\ login[l].pc \notin {"free", "read"}
      BY <2>1, <3>1 DEF CodeUsed
    <3>3. CodeUsed(l)'
      BY <2>1, <3>2 DEF CodeUsed
    <3> QED
      BY <2>1, <3>3, <1>0, CodesKept
  <2> QED
    BY <2>5, <2>6, <2>7
<1>6. ASSUME NEW l \in Logins, VerifyCode(l)
      PROVE  TypeOK' /\ SessionOK' /\ ReadsIdle' /\ CodesUsed'
  <2> DEFINE c == [challenge[l] EXCEPT !.consumed = TRUE]
  <2>1. /\ challenge[l] # None /\ ~challenge[l].consumed
        /\ challenge[l].attempts < MaxAttempts
        /\ challenge' = [challenge EXCEPT ![l] = c]
        /\ granted' = [granted EXCEPT ![l] = granted[l] + 1]
        /\ IssueSession(user.version)
        /\ UNCHANGED <<now, login, proof, visit>>
    BY <1>6 DEF VerifyCode, Open, Claim, Current
  <2>2. challenge[l] \in Challenge /\ None \notin Nat
    BY <2>1, <1>t, Bounds
  <2>3. c \in Challenge /\ c.consumed /\ c.attempts = challenge[l].attempts
    BY <2>2 DEF Challenge
  <2>4. CodeUsed(l) /\ granted[l] = 0 /\ login[l].pc \notin {"free", "read"}
    BY <2>1, <1>0 DEF CodesUsed, CodeUsed
  <2>5. challenge' \in [Logins -> Challenge \cup {None}] /\ granted' \in [Logins -> Nat]
    BY <2>1, <2>3, <1>t
  <2>6. TypeOK'
    BY <2>1, <2>5, <1>0, <1>t, IssueType DEF TypeOK
  <2>7. SessionOK' /\ ReadsIdle'
    BY <2>1, <1>0, <1>t, SessionIssued, ReadsKept
  <2>8. CodesUsed'
    <3>1. challenge'[l] = c /\ granted'[l] = 1
      BY <2>1, <2>4, <1>t
    <3>2. c # None
      BY <2>3, NoneAssumption
    <3>3. c.attempts # MaxAttempts
      BY <2>1, <2>2, <2>3, Bounds DEF Challenge
    <3> HIDE DEF c
    <3>4. CodeUsed(l)'
      BY <2>1, <2>3, <2>4, <3>1, <3>2, <3>3 DEF CodeUsed
    <3> QED
      BY <2>1, <3>4, <1>0, <1>t, CodesKept
  <2> QED
    BY <2>6, <2>7, <2>8
<1>7. ASSUME NEW v \in Visits, Admit(v)
      PROVE  TypeOK' /\ SessionOK' /\ ReadsIdle' /\ CodesUsed'
  <2>1. PICK t \in tokens, kind \in {"request", "refresh"} :
          /\ t.session = user.session
          /\ visit' = [visit EXCEPT ![v] = [token |-> [t EXCEPT !.version = user.version],
                                            kind |-> kind]]
    BY <1>7 DEF Admit
  <2> DEFINE u == [t EXCEPT !.version = user.version]
             r == [token |-> u, kind |-> kind]
  <2>2. UNCHANGED <<now, user, ids, tokens, login, challenge, granted, proof, seenBy>>
    BY <1>7 DEF Admit
  <2>3. /\ u \in Token /\ u.session = t.session
        /\ u.version = user.version /\ u.begun = t.begun
    BY <1>t DEF Token
  <2>4. t.begun = user.version
    BY <2>1, <1>0 DEF SessionOK, TokensCurrent, UpToDate
  <2>5. visit' = [visit EXCEPT ![v] = r]
    BY <2>1
  <2> HIDE DEF u
  <2>6. r \in Visit /\ r.token = u
    BY <2>3 DEF Visit
  <2> HIDE DEF r
  <2>7. TypeOK'
    BY <2>2, <2>5, <2>6, <1>0, <1>t DEF TypeOK
  <2>8. \A w \in Visits : visit'[w] = IF w = v THEN r ELSE visit[w]
    BY <2>5, <1>t
  <2>9. VisitsCurrent'
    <3> SUFFICES ASSUME NEW w \in Visits, visit'[w] # None
                 PROVE  (visit[w].token.session \in Held /\ UpToDate(visit[w].token))'
      BY DEF VisitsCurrent
    <3>1. CASE w = v
      BY <2>2, <2>3, <2>4, <2>6, <2>8, <3>1 DEF Held, UpToDate
    <3>2. CASE w # v
      BY <2>2, <2>8, <3>2, <1>0 DEF SessionOK, VisitsCurrent, Held, UpToDate
    <3> QED
      BY <3>1, <3>2
  <2>10. TokensKnown' /\ TokensCurrent' /\ ExpiredIsGone' /\ ActivityIsOwn'
    BY <2>2, <1>0 DEF SessionOK, TokensKnown, TokensCurrent, UpToDate, ExpiredIsGone,
                      ActivityIsOwn, Held
  <2>11. ReadsIdle' /\ CodesUsed'
    BY <2>2, <1>0, <1>t, ReadsKept, CodesKept
  <2> QED
    BY <2>7, <2>9, <2>10, <2>11 DEF SessionOK
<1>8. ASSUME NEW v \in Visits, Touch(v)
      PROVE  TypeOK' /\ SessionOK' /\ ReadsIdle' /\ CodesUsed'
  <2> DEFINE t == visit[v].token
  <2>1. /\ visit[v] # None /\ visit' = [visit EXCEPT ![v] = None]
        /\ UNCHANGED <<now, ids, login, challenge, granted, proof>>
    BY <1>8 DEF Touch
  <2>2. visit[v] \in Visit /\ t \in Token /\ t.session \in Ids
    BY <2>1, <1>t DEF Visit, Token
  <2>3. t.session \in Held /\ UpToDate(t)
    BY <2>1, <1>0 DEF SessionOK, VisitsCurrent
  <2>4. visit' \in [Visits -> Visit \cup {None}]
    BY <2>1, <1>t
  <2>5. ReadsIdle' /\ CodesUsed'
    BY <2>1, <1>0, <1>t, ReadsKept, CodesKept
  <2>6. \A w \in Visits : visit'[w] # None => visit'[w] = visit[w]
    BY <2>1, <1>t
  <2>7. CASE UNCHANGED <<user, tokens, seenBy>>
    <3>1. TypeOK'
      BY <2>1, <2>4, <2>7, <1>0 DEF TypeOK
    <3>2. VisitsCurrent'
      BY <2>6, <2>7, <1>0 DEF SessionOK, VisitsCurrent, Held, UpToDate
    <3>3. TokensKnown' /\ TokensCurrent' /\ ExpiredIsGone' /\ ActivityIsOwn'
      BY <2>1, <2>7, <1>0 DEF SessionOK, TokensKnown, TokensCurrent, UpToDate,
                              ExpiredIsGone, ActivityIsOwn, Held
    <3> QED
      BY <2>5, <3>1, <3>2, <3>3 DEF SessionOK
  <2>8. CASE /\ StillActive(t)
             /\ user' = [user EXCEPT !.seen = now,
                                     !.expired = @ /\ visit[v].kind = "request"]
             /\ seenBy' = t.session
             /\ tokens' = IF visit[v].kind = "refresh" THEN tokens \cup {t} ELSE tokens
    <3> HIDE DEF t
    <3>1. user.session = t.session /\ ~user.expired
      BY <2>3, <2>8, <1>0 DEF StillActive, ExpiredIsGone
    <3>2. /\ user' \in User /\ user'.session = user.session
          /\ user'.version = user.version /\ ~user'.expired /\ user'.seen = now
      BY <2>8, <3>1, <1>t DEF User
    <3>3. t.begun = user.version /\ t.version = user.version
      BY <2>3, <3>1 DEF UpToDate
    <3>4. tokens' \subseteq tokens \cup {t} /\ tokens \subseteq tokens'
      BY <2>8
    <3>5. Held' = Held
      BY <2>3, <3>4 DEF Held
    <3>6. TypeOK'
      BY <2>1, <2>2, <2>4, <2>8, <3>2, <3>4, <1>0, <1>t DEF TypeOK
    <3>7. TokensKnown'
      <4>1. t.session \in 1..ids
        BY <2>3, <1>0 DEF TokensKnown, Held
      <4> QED
        BY <2>1, <3>4, <4>1, <1>0 DEF TokensKnown
    <3>8. TokensCurrent'
      BY <3>2, <3>3, <3>4, <1>0 DEF SessionOK, TokensCurrent, UpToDate
    <3>9. VisitsCurrent'
      BY <2>6, <3>2, <3>5, <1>0 DEF SessionOK, VisitsCurrent, UpToDate
    <3>10. ExpiredIsGone' /\ ActivityIsOwn'
      BY <2>8, <3>1, <3>2 DEF ExpiredIsGone, ActivityIsOwn
    <3> QED
      BY <2>5, <3>6, <3>7, <3>8, <3>9, <3>10 DEF SessionOK
  <2> QED
    BY <1>8, <2>7, <2>8 DEF Touch
<1>9. ASSUME NEW t \in tokens, Logout(t)
      PROVE  TypeOK' /\ SessionOK' /\ ReadsIdle' /\ CodesUsed'
  <2>1. /\ Fresh
        /\ user' = [user EXCEPT !.session = ids', !.seen = None, !.expired = TRUE]
        /\ seenBy' = None
        /\ UNCHANGED <<now, tokens, login, challenge, granted, proof, visit>>
    BY <1>9 DEF Logout
  <2>2. ids' \in Ids /\ ids' \in 0..MaxIds
    BY <2>1, <1>0, FreshId
  <2>3. user' \in User /\ user'.session = ids' /\ user'.seen = None
    BY <2>1, <2>2, <1>t DEF User
  <2>4. TypeOK'
    BY <2>1, <2>2, <2>3, <1>0 DEF TypeOK
  <2>5. SessionOK'
    BY <2>1, <2>3, <1>0, SessionReplaced
  <2> QED
    BY <2>1, <2>4, <2>5, <1>0, <1>t, ReadsKept, CodesKept
<1>10. ASSUME NEW p \in Proofs, RequestReset(p)
       PROVE  TypeOK' /\ SessionOK' /\ ReadsIdle' /\ CodesUsed'
  <2>1. /\ proof' = [q \in Proofs |->
             IF q = p THEN [version |-> user.version, made |-> now, consumed |-> FALSE]
             ELSE IF proof[q] = None THEN None ELSE [proof[q] EXCEPT !.consumed = TRUE]]
        /\ UNCHANGED <<now, user, ids, tokens, login, challenge, granted, visit, seenBy>>
    BY <1>10 DEF RequestReset
  <2>2. proof' \in [Proofs -> Proof \cup {None}]
    BY <2>1, <1>t DEF Proof
  <2>3. TypeOK'
    BY <2>1, <2>2, <1>0 DEF TypeOK
  <2> QED
    BY <2>1, <2>3, <1>0, <1>t, SessionKept, ReadsKept, CodesKept
<1>11. ASSUME NEW p \in Proofs, ConfirmReset(p)
       PROVE  TypeOK' /\ SessionOK' /\ ReadsIdle' /\ CodesUsed'
  <2>1. /\ Fresh /\ user.version < MaxVersion
        /\ user' = [user EXCEPT !.version = user.version + 1, !.session = ids',
                                !.seen = None, !.expired = TRUE]
        /\ seenBy' = None
        /\ challenge' = [l \in Logins |-> IF challenge[l] = None THEN None
                                          ELSE [challenge[l] EXCEPT !.consumed = TRUE]]
        /\ proof' = [q \in Proofs |-> IF proof[q] = None THEN None
                                      ELSE [proof[q] EXCEPT !.consumed = TRUE]]
        /\ UNCHANGED <<now, tokens, login, granted, visit>>
    BY <1>11 DEF ConfirmReset
  <2>2. ids' \in Ids /\ ids' \in 0..MaxIds
    BY <2>1, <1>0, FreshId
  <2>3. user.version + 1 \in 0..MaxVersion
    BY <2>1, <1>t, Bounds
  <2>4. user' \in User /\ user'.session = ids' /\ user'.seen = None
    BY <2>1, <2>2, <2>3, <1>t DEF User
  <2>5. proof' \in [Proofs -> Proof \cup {None}]
    BY <2>1, <1>t DEF Proof
  <2>6. \A l \in Logins :
          \/ challenge[l] = None /\ challenge'[l] = None
          \/ /\ challenge[l] \in Challenge /\ challenge'[l] \in Challenge
             /\ challenge'[l].attempts = challenge[l].attempts /\ challenge'[l].consumed
    BY <2>1, <1>t DEF Challenge
  <2>7. challenge' \in [Logins -> Challenge \cup {None}]
    BY <2>1, <2>6
  <2>8. TypeOK'
    BY <2>1, <2>2, <2>4, <2>5, <2>7, <1>0 DEF TypeOK
  <2>9. SessionOK'
    BY <2>1, <2>4, <1>0, SessionReplaced
  <2>10. CodesUsed'
    <3> SUFFICES ASSUME NEW l \in Logins PROVE CodeUsed(l)'
      BY DEF CodesUsed
    <3>1. CodeUsed(l)
      BY <1>0 DEF CodesUsed
    <3> QED
      BY <2>1, <2>6, <3>1, NoneAssumption DEF CodeUsed
  <2> QED
    BY <2>1, <2>8, <2>9, <2>10, <1>0, <1>t, ReadsKept
<1>12. ASSUME NEW isOpen \in BOOLEAN, Revoke(isOpen)
       PROVE  TypeOK' /\ SessionOK' /\ ReadsIdle' /\ CodesUsed'
  <2>1. /\ Fresh /\ user.version < MaxVersion
        /\ user' = [user EXCEPT !.version = user.version + 1, !.session = ids',
                                !.open = isOpen]
        /\ UNCHANGED <<now, tokens, login, challenge, granted, proof, visit, seenBy>>
    BY <1>12 DEF Revoke
  <2>2. ids' \in Ids /\ ids' \in 0..MaxIds
    BY <2>1, <1>0, FreshId
  <2>3. user.version + 1 \in 0..MaxVersion
    BY <2>1, <1>t, Bounds
  <2>4. /\ user' \in User /\ user'.session = ids'
        /\ user'.seen = user.seen /\ user'.expired = user.expired
    BY <2>1, <2>2, <2>3, <1>t DEF User
  <2>5. TypeOK'
    BY <2>1, <2>2, <2>4, <1>0 DEF TypeOK
  <2>6. SessionOK'
    BY <2>1, <2>4, <1>0, SessionReplaced DEF ExpiredIsGone
  <2> QED
    BY <2>1, <2>5, <2>6, <1>0, <1>t, ReadsKept, CodesKept
<1>13. ASSUME Reopen
       PROVE  TypeOK' /\ SessionOK' /\ ReadsIdle' /\ CodesUsed'
  <2>1. /\ user' = [user EXCEPT !.open = TRUE]
        /\ UNCHANGED <<now, ids, tokens, login, challenge, granted, proof, visit, seenBy>>
    BY <1>13 DEF Reopen
  <2>2. /\ user' \in User /\ user'.session = user.session /\ user'.version = user.version
        /\ user'.seen = user.seen /\ user'.expired = user.expired
    BY <2>1, <1>t DEF User
  <2>3. TypeOK'
    BY <2>1, <2>2, <1>0 DEF TypeOK
  <2>4. SessionOK'
    BY <2>1, <2>2, <1>0, SessionKept
  <2> QED
    BY <2>1, <2>3, <2>4, <1>0, <1>t, ReadsKept, CodesKept
<1>14. ASSUME Tick
       PROVE  TypeOK' /\ SessionOK' /\ ReadsIdle' /\ CodesUsed'
  <2>1. /\ now' = now + 1 /\ now < MaxNow
        /\ UNCHANGED <<user, ids, tokens, login, challenge, granted, proof, visit, seenBy>>
    BY <1>14 DEF Tick
  <2>2. now' \in Time /\ now' \in Nat /\ now <= now'
    BY <2>1, <1>t, Bounds DEF Time
  <2>3. TypeOK'
    BY <2>1, <2>2, <1>0 DEF TypeOK
  <2> QED
    BY <2>1, <2>2, <2>3, <1>0, <1>t, SessionKept, ReadsKept, CodesKept
<1>15. ASSUME UNCHANGED vars
       PROVE  TypeOK' /\ SessionOK' /\ ReadsIdle' /\ CodesUsed'
  <2>1. TypeOK'
    BY <1>15, <1>0 DEF vars, TypeOK
  <2> QED
    BY <1>15, <2>1, <1>0, <1>t, SessionKept, ReadsKept, CodesKept DEF vars
<1> QED
  BY <1>1, <1>2, <1>3, <1>4, <1>5, <1>6, <1>7, <1>8, <1>9, <1>10, <1>11, <1>12, <1>13,
     <1>14, <1>15 DEF Next

-----------------------------------------------------------------------------
(* Theorems.                                                               *)

\* IInv is an invariant.
THEOREM Invariance == Spec => []IInv
BY InitOK, StepOK, PTL DEF Spec

\* The documents stay well formed; in particular no code takes more than
\* MaxAttempts wrong guesses, and ids and versions stay within their bounds.
THEOREM TypeCorrect == Spec => []TypeOK
<1>1. IInv => TypeOK
  BY DEF IInv
<1> QED
  BY <1>1, Invariance, PTL

\* Whoever has the session began the login under the current security version:
\* a password change, a reset and a closed account end everything begun before.
THEOREM SessionsStayCurrent == Spec => []SessionsAreCurrent
<1>1. IInv => SessionsAreCurrent
  BY DEF IInv, TokensCurrent, UpToDate, SessionsAreCurrent
<1> QED
  BY <1>1, Invariance, PTL

\* A code gives at most one session, and none once its attempts are used up.
THEOREM CodesAreOnce == Spec => []CodesGrantOnce
<1>1. IInv => CodesGrantOnce
  BY DEF IInv, CodesUsed, CodeUsed, CodesGrantOnce
<1> QED
  BY <1>1, Invariance, PTL

\* The activity that keeps a session alive is that of its own device.
THEOREM ActivityStaysOwn == Spec => []ActivityIsOwn
<1>1. IInv => ActivityIsOwn
  BY DEF IInv
<1> QED
  BY <1>1, Invariance, PTL

\* A session in use changes hands only with a code.
THEOREM TakeoverIsConfirmed == Spec => TakeoverConfirmed
<1>1. ASSUME IInv, Next, Live(user), user'.session # user.session, user'.session \in Held'
      PROVE  granted' # granted
  <2>0. /\ TypeOK /\ TokensKnown /\ user \in User
        /\ login \in [Logins -> Login] /\ granted \in [Logins -> Nat]
    BY <1>1 DEF IInv, TypeOK
  <2>1. ASSUME NEW l \in Logins, Issue(l) PROVE FALSE
    <3>1. Unchanged(login[l].read) /\ login[l].pc = "issuing"
      BY <1>1, <2>1 DEF Issue
    <3>2. login[l].read \in User /\ ~Live(login[l].read)
          /\ (login[l].read.expired => login[l].read.seen = None)
      BY <1>1, <3>1 DEF IInv, ReadsIdle, ReadIdle
    <3>3. user.session = login[l].read.session /\ user.seen = login[l].read.seen
      BY <3>1 DEF Unchanged
    <3> QED
      BY <1>1, <3>2, <3>3 DEF Live
  <2>2. ASSUME NEW l \in Logins, VerifyCode(l) PROVE granted' # granted
    <3>1. granted'[l] = granted[l] + 1 /\ granted[l] \in Nat
      BY <2>0, <2>2 DEF VerifyCode
    <3> QED
      BY <3>1
  <2>3. ASSUME NEW v \in Visits, Touch(v) PROVE FALSE
    BY <1>1, <2>0, <2>3 DEF Touch, User
  <2>4. ASSUME Fresh, user'.session = ids', tokens' = tokens PROVE FALSE
    BY <1>1, <2>0, <2>4, FreshId DEF Held
  <2>5. ASSUME NEW t \in tokens, Logout(t) PROVE FALSE
    BY <2>0, <2>4, <2>5 DEF Logout, User
  <2>6. ASSUME NEW p \in Proofs, ConfirmReset(p) PROVE FALSE
    BY <2>0, <2>4, <2>6 DEF ConfirmReset, User
  <2>7. ASSUME NEW isOpen \in BOOLEAN, Revoke(isOpen) PROVE FALSE
    BY <2>0, <2>4, <2>7 DEF Revoke, User
  <2>8. ASSUME Reopen PROVE FALSE
    BY <1>1, <2>0, <2>8 DEF Reopen, User
  <2>9. CASE user' = user
    BY <1>1, <2>9
  <2> QED
    BY <1>1, <2>1, <2>2, <2>3, <2>5, <2>6, <2>7, <2>8, <2>9
    DEF Next, ReadAccount, AskCode, SkipCode, WrongCode, Admit, RequestReset, Tick
<1>2. IInv /\ [Next]_vars =>
        [Live(user) /\ user'.session # user.session /\ user'.session \in Held'
           => granted' # granted]_vars
  BY <1>1
<1> QED
  BY <1>2, Invariance, PTL DEF Spec, TakeoverConfirmed
=============================================================================
