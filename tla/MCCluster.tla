----------------------------- MODULE MCCluster -----------------------------
(***************************************************************************)
(* A cluster from its start: a primary prepares the database, then its     *)
(* workers serve.  What they do with the rate limits does not depend on    *)
(* the database, so it is explored from one prepared database only.        *)
(***************************************************************************)
EXTENDS RateLimit, Startup

Prepared == stage # Off /\ \A q \in Primaries : stage[q] = "prepared"

ClusterInit == Init /\ StartupInit

ClusterNext ==
  \/ StartupNext /\ UNCHANGED vars
  \/ Prepared /\ enabled = Primaries /\ Next /\ UNCHANGED startupVars

ClusterSpec ==
  ClusterInit /\ [][ClusterNext]_<<vars, startupVars>> /\ Fairness
============================================================================
