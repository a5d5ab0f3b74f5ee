----------------------------- MODULE ApiProcess -----------------------------
(***************************************************************************)
(* What one API process keeps in memory for its requests: the read cache   *)
(* and the gate and thread of the report exports                           *)
(* (procurement.controller.ts, product.controller.ts).  A request is a     *)
(* cached read or an export; the process takes none once it is closing     *)
(* (server.ts).                                                            *)
(***************************************************************************)
EXTENDS ReportExport, ReadCache

ASSUME RequestsAssumption == Exports = Reads

vars == <<exportVars, cacheVars>>

Init == ExportInit /\ CacheInit

\* A request has one handler.
OneHandler == \A r \in Reads : stage[r] = "new" \/ read[r].stage = "new"

Handle ==
  \/ ExportNext /\ UNCHANGED cacheVars
  \/ CacheNext /\ UNCHANGED exportVars

NoneAccepted == \A r \in Reads : read'[r].stage = "new" <=> read[r].stage = "new"

Next == Handle /\ OneHandler' /\ (pool.stopping => NoneAccepted)

Spec == Init /\ [][Next]_vars /\ ExportFairness
=============================================================================
