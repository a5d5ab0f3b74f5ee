------------------------------ MODULE Sessions ------------------------------
(***************************************************************************)
(* The one active session of an account: auth.service, auth.middleware,    *)
(* auth.repository and password-reset.service.  A login reads the account, *)
(* compares the password, and much later writes the new session with a     *)
(* conditional update; requests of the device that has the session are     *)
(* admitted on what they read and touch the account afterwards.  A live    *)
(* session is taken over only with a one-time code.                        *)
(*                                                                         *)
(* What runs in an owner transaction (a correct code, a password reset, an *)
(* administrator's edit) reads and writes the account at one moment: a     *)
(* write by anybody else in between makes MongoDB start it over.  The      *)
(* password is its securityVersion, which every change of it increments.   *)
(* Procurement logins touch no session and are left out, and so is the     *)
(* age of the tokens, which is that of the session at least.               *)
(***************************************************************************)
EXTENDS Integers

CONSTANTS
  Logins,       \* login requests; the code a login asks for is named by it
  Visits,       \* authenticated requests that are under way
  Proofs,       \* password reset links
  None,         \* an absent field, a request that is not under way
  Ttl,          \* how long a session stays live after it was last seen
  OtpTtl,       \* how long a code is good
  ProofTtl,     \* how long a reset link is good
  MaxAttempts,  \* OTP_MAX_ATTEMPTS
  MaxNow,       \* bound on time
  MaxIds,       \* bound on session ids
  MaxVersion    \* bound on security versions

ASSUME SessionsAssumption ==
  /\ {Ttl, OtpTtl, ProofTtl, MaxAttempts, MaxNow, MaxIds, MaxVersion} \subseteq Nat
  /\ MaxIds # 0
  /\ None \notin Nat

VARIABLES
  now,
  user,        \* the account document
  ids,         \* session ids made so far
  tokens,      \* the tokens that devices have
  login,       \* where each login is, and the account as it read it
  challenge,   \* session_challenges
  granted,     \* how many sessions each code gave
  proof,       \* password_resets
  visit,       \* what each request under way was admitted on
  seenBy       \* the session on whose behalf lastSeenAt was last written

vars == <<now, user, ids, tokens, login, challenge, granted, proof, visit, seenBy>>

-----------------------------------------------------------------------------
(* Documents.                                                              *)

Ids  == 1..MaxIds
Time == 0..MaxNow

\* expired: activeSessionExpiresAt has passed
User == [open : BOOLEAN, version : 0..MaxVersion, session : Ids \cup {None},
         seen : Time \cup {None}, expired : BOOLEAN]

\* begun: the security version under which the login was begun
Token == [session : Ids, version : 0..MaxVersion, begun : 0..MaxVersion]

Challenge == [version : 0..MaxVersion, attempts : 0..MaxAttempts, consumed : BOOLEAN,
              expires : Nat]

ASSUME NoneAssumption == None \notin Challenge

Proof == [version : 0..MaxVersion, made : Time, consumed : BOOLEAN]

Login == [pc : {"free", "read", "issuing", "asked", "ended"}, read : User \cup {None}]

Visit == [token : Token, kind : {"request", "refresh"}]

\* phoneVerificationRequired: somebody uses the session.
Live(u) ==
  /\ u.session # None
  /\ ~u.expired
  /\ u.seen # None
  /\ now - u.seen < Ttl

\* The token passes authenticate.
Admitted(t) == user.open /\ t.version = user.version /\ t.session = user.session

\* A random id that no device has takes the place of the session.
Fresh == ids < MaxIds /\ ids' = ids + 1

-----------------------------------------------------------------------------
\* An account an administrator made, one that has just registered, or one
\* whose session dates from before activity was recorded.
Init ==
  /\ now = 0
  /\ \E seen \in {0, None}, session \in {1, None} :
       /\ session = None => seen = None
       /\ user = [open |-> TRUE, version |-> 0, session |-> session, seen |-> seen,
                  expired |-> FALSE]
       /\ ids = IF session = None THEN 0 ELSE 1
       /\ tokens = IF session = None THEN {}
                   ELSE {[session |-> 1, version |-> 0, begun |-> 0]}
       /\ seenBy = IF seen = None THEN None ELSE session
  /\ login = [l \in Logins |-> [pc |-> "free", read |-> None]]
  /\ challenge = [l \in Logins |-> None]
  /\ granted = [l \in Logins |-> 0]
  /\ proof = [p \in Proofs |-> None]
  /\ visit = [v \in Visits |-> None]

-----------------------------------------------------------------------------
(* Login.                                                                  *)

\* The account is read; comparing the password takes its time.
ReadAccount(l) ==
  /\ login[l].pc = "free"
  /\ user.open
  /\ login' = [login EXCEPT ![l] = [pc |-> "read", read |-> user]]
  /\ UNCHANGED <<now, user, ids, tokens, challenge, granted, proof, visit, seenBy>>

\* The session is in use: a code is sent, and when it cannot be, the challenge
\* is deleted before the client hears of it.
AskCode(l) ==
  /\ login[l].pc = "read"
  /\ Live(login[l].read)
  /\ \/ /\ challenge' = [challenge EXCEPT ![l] =
             [version |-> login[l].read.version, attempts |-> 0, consumed |-> FALSE,
              expires |-> now + OtpTtl]]
        /\ login' = [login EXCEPT ![l] = [pc |-> "asked", read |-> login[l].read]]
     \/ /\ login' = [login EXCEPT ![l] = [pc |-> "ended", read |-> None]]
        /\ UNCHANGED challenge
  /\ UNCHANGED <<now, user, ids, tokens, granted, proof, visit, seenBy>>

\* Nobody uses the session: the login goes on to look up the subscription.
SkipCode(l) ==
  /\ login[l].pc = "read"
  /\ ~Live(login[l].read)
  /\ login' = [login EXCEPT ![l].pc = "issuing"]
  /\ UNCHANGED <<now, user, ids, tokens, challenge, granted, proof, visit, seenBy>>

\* Mutant: activity in the meantime goes unnoticed.
SameSession(u) ==
  /\ user.open
  /\ user.version = u.version
  /\ user.session = u.session

\* The condition of issueSession's update: the account is as the login read it.
Unchanged(u) ==
  /\ user.open
  /\ user.version = u.version
  /\ user.session = u.session
  /\ user.seen = u.seen

\* issueSession: the account gets a new session, begun under version v.
IssueSession(v) ==
  /\ Fresh
  /\ user' = [user EXCEPT !.session = ids', !.seen = now, !.expired = FALSE]
  /\ tokens' = tokens \cup {[session |-> ids', version |-> user.version, begun |-> v]}
  /\ seenBy' = ids'

Issue(l) ==
  /\ login[l].pc = "issuing"
  /\ IF Unchanged(login[l].read)
     THEN IssueSession(login[l].read.version)
     ELSE UNCHANGED <<user, ids, tokens, seenBy>>
  /\ login' = [login EXCEPT ![l] = [pc |-> "ended", read |-> None]]
  /\ UNCHANGED <<now, challenge, granted, proof, visit>>

-----------------------------------------------------------------------------
(* Codes.                                                                  *)

\* The condition both updates of a challenge carry.
Open(c) == c # None /\ ~c.consumed /\ c.attempts < MaxAttempts /\ now < c.expires

WrongCode(l) ==
  /\ Open(challenge[l])
  /\ challenge' = [challenge EXCEPT ![l].attempts = @ + 1]
  /\ UNCHANGED <<now, user, ids, tokens, login, granted, proof, visit, seenBy>>

\* Mutant: the code outlives the password it was asked with.
CurrentAnyVersion(c) == user.open

Current(c) == user.open /\ c.version = user.version

\* Mutant: the code is compared and stays good.
ClaimKept(l) == UNCHANGED challenge

Claim(l) == challenge' = [challenge EXCEPT ![l].consumed = TRUE]

\* verifySessionChallenge with the right code; a refusal undoes the claim.
VerifyCode(l) ==
  /\ Open(challenge[l])
  /\ Claim(l)
  /\ Current(challenge[l])
  /\ IssueSession(challenge[l].version)
  /\ granted' = [granted EXCEPT ![l] = @ + 1]
  /\ UNCHANGED <<now, login, proof, visit>>

-----------------------------------------------------------------------------
(* Requests of a device.                                                   *)

\* authenticate admits the request, or refresh the token, on the account as it
\* is read (a refresh token names the session only).  A request that finds the
\* session seen a moment ago (30 seconds in the code) does not touch it and is
\* no visit.
Admit(v) == \E t \in tokens, kind \in {"request", "refresh"} :
  /\ visit[v] = None
  /\ user.open /\ t.session = user.session
  /\ kind = "request" => Admitted(t) /\ user.seen # now
  /\ visit' = [visit EXCEPT ![v] =
                 [token |-> [t EXCEPT !.version = user.version], kind |-> kind]]
  /\ UNCHANGED <<now, user, ids, tokens, login, challenge, granted, proof, seenBy>>

\* Mutant: the touch names the account only.
StillOpen(t) == user.open

\* The condition of touchSession's update.
StillActive(t) == user.open /\ user.session = t.session

\* touchSession, and for a refresh the new tokens.
Touch(v) ==
  LET t == visit[v].token IN
  /\ visit[v] # None
  /\ IF StillActive(t)
     THEN /\ user' = [user EXCEPT !.seen = now,
                                  !.expired = @ /\ visit[v].kind = "request"]
          /\ seenBy' = t.session
          /\ tokens' = IF visit[v].kind = "refresh" THEN tokens \cup {t} ELSE tokens
     ELSE UNCHANGED <<user, tokens, seenBy>>
  /\ visit' = [visit EXCEPT ![v] = None]
  /\ UNCHANGED <<now, ids, login, challenge, granted, proof>>

\* logout: an id nobody has takes the place of the session, and expires at once.
Logout(t) ==
  /\ user.open /\ t.version = user.version
  /\ t.session = user.session
  /\ Fresh
  /\ user' = [user EXCEPT !.session = ids', !.seen = None, !.expired = TRUE]
  /\ seenBy' = None
  /\ UNCHANGED <<now, tokens, login, challenge, granted, proof, visit>>

-----------------------------------------------------------------------------
(* The password.                                                           *)

\* passwordResetService.request: at most one a minute, older links are spent.
RequestReset(p) ==
  /\ proof[p] = None
  /\ user.open
  /\ \A q \in Proofs : proof[q] # None => proof[q].made < now
  /\ proof' = [q \in Proofs |->
       IF q = p THEN [version |-> user.version, made |-> now, consumed |-> FALSE]
       ELSE IF proof[q] = None THEN None ELSE [proof[q] EXCEPT !.consumed = TRUE]]
  /\ UNCHANGED <<now, user, ids, tokens, login, challenge, granted, visit, seenBy>>

ConfirmReset(p) ==
  /\ proof[p] # None
  /\ ~proof[p].consumed
  /\ now < proof[p].made + ProofTtl
  /\ user.open
  /\ proof[p].version = user.version
  /\ user.version < MaxVersion
  /\ Fresh
  /\ user' = [user EXCEPT !.version = @ + 1, !.session = ids', !.seen = None,
                          !.expired = TRUE]
  /\ seenBy' = None
  /\ challenge' = [l \in Logins |-> IF challenge[l] = None THEN None
                                    ELSE [challenge[l] EXCEPT !.consumed = TRUE]]
  /\ proof' = [q \in Proofs |-> IF proof[q] = None THEN None
                                ELSE [proof[q] EXCEPT !.consumed = TRUE]]
  /\ UNCHANGED <<now, tokens, login, granted, visit>>

\* updateAdmin with a new password, or closing the account.
Revoke(isOpen) ==
  /\ user.version < MaxVersion
  /\ Fresh
  /\ user' = [user EXCEPT !.version = @ + 1, !.session = ids', !.open = isOpen]
  /\ UNCHANGED <<now, tokens, login, challenge, granted, proof, visit, seenBy>>

\* updateAdmin opens the account again.
Reopen ==
  /\ ~user.open
  /\ user' = [user EXCEPT !.open = TRUE]
  /\ UNCHANGED <<now, ids, tokens, login, challenge, granted, proof, visit, seenBy>>

Tick ==
  /\ now < MaxNow
  /\ now' = now + 1
  /\ UNCHANGED <<user, ids, tokens, login, challenge, granted, proof, visit, seenBy>>

-----------------------------------------------------------------------------
Next ==
  \/ \E l \in Logins :
       \/ ReadAccount(l) \/ AskCode(l) \/ SkipCode(l) \/ Issue(l)
       \/ WrongCode(l) \/ VerifyCode(l)
  \/ \E v \in Visits : Admit(v) \/ Touch(v)
  \/ \E t \in tokens : Logout(t)
  \/ \E p \in Proofs : RequestReset(p) \/ ConfirmReset(p)
  \/ \E isOpen \in BOOLEAN : Revoke(isOpen)
  \/ Reopen
  \/ Tick

Spec == Init /\ [][Next]_vars

-----------------------------------------------------------------------------
(* Properties.                                                             *)

\* The documents are well formed; in particular a code takes no more than
\* MaxAttempts wrong guesses, however many of them arrive at once.
TypeOK ==
  /\ now \in Time
  /\ user \in User
  /\ ids \in 0..MaxIds
  /\ tokens \subseteq Token
  /\ login \in [Logins -> Login]
  /\ challenge \in [Logins -> Challenge \cup {None}]
  /\ granted \in [Logins -> Nat]
  /\ proof \in [Proofs -> Proof \cup {None}]
  /\ visit \in [Visits -> Visit \cup {None}]
  /\ seenBy \in Ids \cup {None}

\* The sessions that some device has tokens of.
Held == {t.session : t \in tokens}

\* A session in use changes hands only with a code (README 62): a login that
\* read the account while the session lay idle does not replace it when its
\* device came back in the meantime (auth.service 42-48).
TakeoverConfirmed ==
  [][Live(user) /\ user'.session # user.session /\ user'.session \in Held'
       => granted' # granted]_vars

\* A changed password, a reset or a closed account ends everything begun
\* before: whoever has the session began the login under the current version,
\* whether it was a login, a code or a refresh that was still under way
\* (test "password reset invalidates access, refresh, trusted devices and old
\* OTP challenges").
SessionsAreCurrent ==
  \A t \in tokens : t.session = user.session =>
    t.begun = user.version /\ t.version = user.version

\* A code gives one session however often it is sent in, and none once its
\* attempts are used up (comment of verifySessionChallenge, 225-230).
CodesGrantOnce == \A l \in Logins :
  /\ granted[l] <= 1
  /\ challenge[l] # None /\ challenge[l].attempts = MaxAttempts => granted[l] = 0

\* Only its own device keeps a session alive: a request that was admitted for
\* a session which has been replaced since does not make its successor look
\* used (auth.middleware 93-94).
ActivityIsOwn ==
  user.seen # None /\ user.session \in Held => seenBy = user.session
=============================================================================
