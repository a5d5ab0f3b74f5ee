-------------------------- MODULE SerializedOwner --------------------------
(***************************************************************************)
(* What the idempotent owner transaction (lib/transaction.ts together with *)
(* idempotency.service.ts) promises to a client: an operation, named by    *)
(* its key, is applied once, at one revision, later than that of every     *)
(* operation applied before it; whoever asks for it, as often as it is     *)
(* asked for, is told that same result, provided the intent is the one it  *)
(* was applied with; and the outside world hears of it once, afterwards.   *)
(***************************************************************************)
EXTENDS Naturals

CONSTANTS
  Attempts,  \* requests that reach the server
  Keys,      \* operation ids
  Prints,    \* fingerprints of what is asked for, with None for "not given"
  None       \* nothing yet

VARIABLES
  asked,     \* what each attempt asks for
  rev,       \* the owner's revision
  applied,   \* what each key was applied with, and when
  told,      \* the result each attempt was told
  notified   \* keys the outside world was notified of

vars == <<asked, rev, applied, told, notified>>

Init ==
  /\ asked = [a \in Attempts |-> None]
  /\ rev = 0
  /\ applied = [k \in Keys |-> None]
  /\ told = [a \in Attempts |-> None]
  /\ notified = {}

Ask(a) ==
  /\ asked[a] = None
  /\ \E k \in Keys, f \in Prints : asked' = [asked EXCEPT ![a] = [key |-> k, print |-> f]]
  /\ UNCHANGED <<rev, applied, told, notified>>

\* On behalf of an attempt that asked for k.
Apply(a) ==
  LET k == asked[a].key IN
  /\ asked[a] # None
  /\ applied[k] = None
  /\ rev' > rev
  /\ applied' = [applied EXCEPT ![k] = [print |-> asked[a].print, result |-> rev']]
  /\ UNCHANGED <<asked, told, notified>>

\* A transaction that finds its work done already still moves the revision.
Pass ==
  /\ rev' > rev
  /\ UNCHANGED <<asked, applied, told, notified>>

Known(a) ==
  /\ asked[a] # None
  /\ applied[asked[a].key] # None
  /\ applied[asked[a].key].print = asked[a].print

Tell(a) ==
  /\ Known(a)
  /\ told[a] = None
  /\ told' = [told EXCEPT ![a] = applied[asked[a].key].result]
  /\ UNCHANGED <<asked, rev, applied, notified>>

\* The outside world may hear of the operation at the moment its author does.
TellAndNotify(a) ==
  /\ Known(a)
  /\ told[a] = None
  /\ asked[a].key \notin notified
  /\ told' = [told EXCEPT ![a] = applied[asked[a].key].result]
  /\ notified' = notified \cup {asked[a].key}
  /\ UNCHANGED <<asked, rev, applied>>

Next ==
  \/ Pass
  \/ \E a \in Attempts : Ask(a) \/ Apply(a) \/ Tell(a) \/ TellAndNotify(a)

Spec == Init /\ [][Next]_vars
=============================================================================
