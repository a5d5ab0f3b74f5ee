---------------------------- MODULE Registration ----------------------------
(***************************************************************************)
(* How accounts come and go: public registration with a phone number that  *)
(* a Telegram bot has confirmed (registration-phone.service.ts and         *)
(* register of auth.service.ts), accounts a super administrator makes, a   *)
(* phone that is changed later, the bot's link from a phone to an account, *)
(* and the deletion of an account with its collections.  A registration is *)
(* one transaction that takes the fence of the phone and that of the       *)
(* Telegram user: a fence is a document that every transaction on it       *)
(* changes, so the later of two overlapping ones starts over               *)
(* (transaction.ts).  User names are left out: any registration may be     *)
(* refused.                                                                *)
(***************************************************************************)
EXTENDS Naturals, FiniteSets

CONSTANTS
  Forms,        \* registration forms, numbered as they are opened
  Signups,      \* register requests; an account is known by its request
  Admins,       \* createAdmin requests
  Phones,
  Telegrams,    \* Telegram users
  Collections,  \* the collections deleteAdmin empties
  Absent        \* no form, no phone, no Telegram user

ASSUME FormsAssumption == Forms \subseteq Nat
ASSUME AccountsAssumption ==
  /\ Signups \cap Admins = {} /\ Phones \cap Telegrams = {}
  /\ Absent \notin Forms \cup Phones \cup Telegrams \cup Signups

VARIABLES
  public,   \* ALLOW_PUBLIC_REGISTER
  proof,    \* registration_phones
  signup,   \* the register requests
  fence,    \* owner_write_versions of phones and Telegram users
  account,  \* users; "moved" is history: whether the phone was ever changed
  rows      \* what the collections hold of an account, once it is there

registrationVars == <<public, proof, signup, fence, account, rows>>

Accounts == Signups \cup Admins
Fences   == Phones \cup Telegrams
Proof    == [state : {"none", "open", "consumed", "expired"},
             telegram : Telegrams \cup {Absent}, phone : Phones \cup {Absent}]
Signup   == [stage : {"new", "verified", "open", "phone", "both", "made", "refused"},
             form : Forms \cup {Absent}, phone : Phones \cup {Absent},
             telegram : Telegrams \cup {Absent}, seen : [Fences -> Nat], free : BOOLEAN]
Account  == [state : {"none", "live", "removing", "deleted"},
             phone : Phones \cup {Absent}, telegram : Telegrams \cup {Absent},
             moved : BOOLEAN, todo : SUBSET Collections]

Unseen == [k \in Fences |-> 0]

NewSignup == [stage |-> "new", form |-> Absent, phone |-> Absent, telegram |-> Absent,
              seen |-> Unseen, free |-> FALSE]

RegistrationInit ==
  /\ public \in BOOLEAN
  /\ proof = [f \in Forms |-> [state |-> "none", telegram |-> Absent, phone |-> Absent]]
  /\ signup = [r \in Signups |-> NewSignup]
  /\ fence = [k \in Fences |-> [version |-> 0, holder |-> Absent]]
  /\ account = [a \in Accounts |-> [state |-> "none", phone |-> Absent, telegram |-> Absent,
                                    moved |-> FALSE, todo |-> {}]]
  /\ rows = [a \in Accounts |-> [c \in Collections |-> "new"]]

Live       == {a \in Accounts : account[a].state \in {"live", "removing"}}
WithPhone(p)    == {a \in Live : account[a].phone = p}
WithTelegram(t) == {a \in Live : account[a].telegram = t}
----------------------------------------------------------------------------
(* The proof that a phone belongs to whoever fills in a form.              *)

OpenForm(f) ==
  /\ public /\ proof[f].state = "none" /\ \A x \in Forms : x < f => proof[x].state # "none"
  /\ proof' = [proof EXCEPT ![f].state = "open"]
  /\ UNCHANGED <<public, signup, fence, account, rows>>

\* The bot is started from a form by the only Telegram user the form knows.
StartBot(f, t) ==
  /\ proof[f].state = "open" /\ proof[f].telegram = Absent
  /\ proof' = [proof EXCEPT ![f].telegram = t]
  /\ UNCHANGED <<public, signup, fence, account, rows>>

\* A Telegram user shares a phone number: it belongs to the newest form of that user.
Confirm(t, p) ==
  LET mine == {f \in Forms : proof[f].state = "open" /\ proof[f].telegram = t} IN
  \E f \in mine :
    /\ \A x \in mine : x <= f
    /\ proof[f].phone = Absent
    /\ proof' = [proof EXCEPT ![f].phone = p]
    /\ UNCHANGED <<public, signup, fence, account, rows>>

\* Ten minutes are over; the document goes.
ExpireProof(f) ==
  /\ proof[f].state = "open"
  /\ proof' = [proof EXCEPT ![f] = [state |-> "expired", telegram |-> Absent, phone |-> Absent]]
  /\ UNCHANGED <<public, signup, fence, account, rows>>
----------------------------------------------------------------------------
(* register.                                                               *)

Proven(f, p) == proof[f].state = "open" /\ proof[f].phone = p /\ proof[f].telegram # Absent

\* Before the transaction: whose phone it is decides which fences to take.
Verify(r, f, p) ==
  /\ signup[r].stage = "new" /\ Proven(f, p)
  /\ signup' = [signup EXCEPT ![r] =
       [@ EXCEPT !.stage = "verified", !.form = f, !.phone = p, !.telegram = proof[f].telegram]]
  /\ UNCHANGED <<public, proof, fence, account, rows>>

\* Bound: deletions come one at a time and do not overlap a registration's transaction.
Removing(a) == account[a].state = "removing" \/ account[a].todo # {}
Registering == \E r \in Signups : signup[r].stage \in {"open", "phone", "both"}

\* The transaction begins: what it reads is as of now.
OpenTransaction(r) ==
  /\ signup[r].stage = "verified" /\ \A a \in Accounts : ~Removing(a)
  /\ signup' = [signup EXCEPT ![r].stage = "open",
                              ![r].seen = [k \in Fences |-> fence[k].version],
                              ![r].free = /\ WithPhone(signup[r].phone) = {}
                                          /\ WithTelegram(signup[r].telegram) = {}]
  /\ UNCHANGED <<public, proof, fence, account, rows>>

\* Mutant: only a transaction under way is in conflict.
UntakenNow(r, k) == fence[k].holder = Absent

\* No other transaction has changed the fence since this one began, or is doing so.
Untaken(r, k) == fence[k].holder = Absent /\ fence[k].version = signup[r].seen[k]

Released(r) ==
  [k \in Fences |-> [fence[k] EXCEPT !.holder = IF @ = r THEN Absent ELSE @]]

\* A fence is taken, or the transaction starts over.
Take(r, k, stage) ==
  \/ /\ Untaken(r, k)
     /\ fence' = [fence EXCEPT ![k].holder = r]
     /\ signup' = [signup EXCEPT ![r].stage = stage]
  \/ /\ ~Untaken(r, k)
     /\ fence' = Released(r)
     /\ signup' = [signup EXCEPT ![r].stage = "verified", ![r].seen = Unseen, ![r].free = FALSE]

TakeFence(r) ==
  /\ \/ signup[r].stage = "open" /\ Take(r, signup[r].phone, "phone")
     \/ signup[r].stage = "phone" /\ Take(r, signup[r].telegram, "both")
  /\ UNCHANGED <<public, proof, account, rows>>

\* With both fences: the proof is consumed and the account made, with its trial period.
Register(r) ==
  LET s == signup[r] IN
  /\ s.stage = "both" /\ s.free /\ Proven(s.form, s.phone)
  /\ WithTelegram(s.telegram) = {}     \* the unique index of users
  /\ account' = [account EXCEPT ![r].state = "live", ![r].phone = s.phone, ![r].telegram = s.telegram]
  /\ proof' = [proof EXCEPT ![s.form].state = "consumed"]
  /\ fence' = [k \in Fences |-> IF fence[k].holder = r
                                THEN [version |-> fence[k].version + 1, holder |-> Absent]
                                ELSE fence[k]]
  /\ signup' = [signup EXCEPT ![r].stage = "made", ![r].seen = Unseen, ![r].free = FALSE]
  /\ UNCHANGED <<public, rows>>

\* It is refused, or its process ends: nothing of it stays.
Refuse(r) ==
  /\ signup[r].stage \in {"verified", "open", "phone", "both"}
  /\ signup' = [signup EXCEPT ![r] = [NewSignup EXCEPT !.stage = "refused"]]
  /\ fence' = Released(r)
  /\ UNCHANGED <<public, proof, account, rows>>
----------------------------------------------------------------------------
(* Accounts.                                                               *)

\* createAdmin: a phone is not checked, and nobody has confirmed it.
CreateAdmin(a, p) ==
  /\ account[a].state = "none"
  /\ account' = [account EXCEPT ![a].state = "live", ![a].phone = p]
  /\ UNCHANGED <<public, proof, signup, fence, rows>>

\* updateMe of its owner and updateAdmin of the super administrator: a phone is written
\* over, or taken away, without a proof, a fence or a look at the other accounts.
ChangePhone(a, p) ==
  /\ a \in Live /\ account[a].phone # p
  /\ account' = [account EXCEPT ![a].phone = p, ![a].moved = TRUE]
  /\ UNCHANGED <<public, proof, signup, fence, rows>>

\* The bot links a Telegram user to the one account with the phone it has shared (its
\* lookup and the write, which checks the phone again, are one step).
LinkTelegram(t, p) ==
  \E a \in Live :
    /\ WithPhone(p) = {a} /\ account[a].telegram = Absent /\ WithTelegram(t) = {}
    /\ account' = [account EXCEPT ![a].telegram = t]
    /\ UNCHANGED <<public, proof, signup, fence, rows>>

\* The owner works on while the account is being deleted (bound: what is written at
\* other times is left out).
Write(a, c) ==
  /\ a \in Live /\ Removing(a) /\ rows[a][c] = "none"
  /\ rows' = [rows EXCEPT ![a][c] = "new"]
  /\ UNCHANGED <<public, proof, signup, fence, account>>

\* deleteAdmin: the collections are emptied side by side; what they held is old.
AskDelete(a) ==
  /\ account[a].state = "live" /\ ~Registering /\ \A b \in Accounts : ~Removing(b)
  /\ account' = [account EXCEPT ![a].state = "removing", ![a].todo = Collections]
  /\ rows' = [rows EXCEPT ![a] = [c \in Collections |-> IF @[c] = "none" THEN "none" ELSE "old"]]
  /\ UNCHANGED <<public, proof, signup, fence>>

Empty(a, c) ==
  /\ c \in account[a].todo
  /\ account' = [account EXCEPT ![a].todo = @ \ {c}]
  /\ rows' = [rows EXCEPT ![a][c] = "none"]
  /\ UNCHANGED <<public, proof, signup, fence>>

\* Mutant: the others decide whether the request succeeds.
EmptyFailsUnnoticed(a, c) ==
  /\ c \in account[a].todo
  /\ account' = [account EXCEPT ![a].todo = @ \ {c}]
  /\ UNCHANGED <<public, proof, signup, fence, rows>>

\* One of them fails, and so does the request; the others go on.
EmptyFails(a, c) ==
  /\ c \in account[a].todo
  /\ account' = [account EXCEPT ![a].todo = @ \ {c},
                                ![a].state = IF @ = "removing" THEN "live" ELSE @]
  /\ UNCHANGED <<public, proof, signup, fence, rows>>

\* All are empty: the account goes last.
DeleteUser(a) ==
  /\ account[a].state = "removing" /\ account[a].todo = {}
  /\ account' = [account EXCEPT ![a].state = "deleted"]
  /\ UNCHANGED <<public, proof, signup, fence, rows>>

RegistrationNext ==
  \/ \E f \in Forms : OpenForm(f) \/ ExpireProof(f) \/ \E t \in Telegrams : StartBot(f, t)
  \/ \E t \in Telegrams, p \in Phones : Confirm(t, p) \/ LinkTelegram(t, p)
  \/ \E r \in Signups, f \in Forms, p \in Phones : Verify(r, f, p)
  \/ \E r \in Signups : OpenTransaction(r) \/ TakeFence(r) \/ Register(r) \/ Refuse(r)
  \/ \E a \in Admins, p \in Phones : CreateAdmin(a, p)
  \/ \E a \in Accounts, p \in Phones \cup {Absent} : ChangePhone(a, p)
  \/ \E a \in Accounts : AskDelete(a) \/ DeleteUser(a)
  \/ \E a \in Accounts, c \in Collections : Write(a, c) \/ Empty(a, c) \/ EmptyFails(a, c)

RegistrationSpec == RegistrationInit /\ [][RegistrationNext]_registrationVars
----------------------------------------------------------------------------
RegistrationTypeOK ==
  /\ public \in BOOLEAN /\ proof \in [Forms -> Proof] /\ signup \in [Signups -> Signup]
  /\ fence \in [Fences -> [version : Nat, holder : Signups \cup {Absent}]]
  /\ account \in [Accounts -> Account]
  /\ rows \in [Accounts -> [Collections -> {"none", "old", "new"}]]

\* Registrations at the same time, also with one proof sent twice, never make two accounts
\* for one phone (auth.service.ts 82-95, "Shared across API replicas: simultaneous signups
\* cannot create two accounts for one phone"): of two registered accounts with one phone,
\* one got it by a later change, which nobody checks.  Each proof makes one account, of its
\* phone until that is changed and of its Telegram user for good; and no two accounts,
\* registered or linked by the bot, are of one Telegram user.
RegisteredOnce ==
  /\ \A r, q \in Signups \cap Live : r # q /\ account[r].phone = account[q].phone =>
       account[r].moved \/ account[q].moved
  /\ \A a, b \in Live : a # b /\ account[a].telegram # Absent =>
       account[a].telegram # account[b].telegram
  /\ \A r \in Signups : signup[r].stage = "made" =>
       /\ account[r].moved \/ account[r].phone = proof[signup[r].form].phone
       /\ account[r].telegram = proof[signup[r].form].telegram
       /\ \A q \in Signups : signup[q].stage = "made" /\ signup[q].form = signup[r].form => q = r

\* An account that is gone has left nothing in its collections but what its owner wrote
\* while it was being deleted: a deletion that failed half way can be asked for again.
DeletedLast == \A a \in Accounts, c \in Collections :
  account[a].state = "deleted" => rows[a][c] # "old"
=============================================================================
