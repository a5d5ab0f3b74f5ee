------------------------------ MODULE Startup ------------------------------
(***************************************************************************)
(* What a primary process does to the database before its workers serve    *)
(* (prepareDatabase of server.ts): with migrations enabled it makes the    *)
(* index of product barcodes unique and fills in the phone digits of old   *)
(* users; then it checks the indexes (production) and serves or exits.  It *)
(* may crash at any point and is started again.  The other migrations      *)
(* (display index, split and legacy collections, images) are left out.     *)
(***************************************************************************)
EXTENDS FiniteSets

CONSTANTS
  Primaries,  \* primary processes of the deployment
  OldUsers    \* users that may lack their phone digits

VARIABLES
  stage,    \* how far each primary is
  enabled,  \* primaries started with MIGRATION_ENABLED
  index,    \* idx_barcodes of the products
  shared,   \* whether two products of an owner share a barcode
  unfilled  \* users without phone digits

startupVars == <<stage, enabled, index, shared, unfilled>>

StartStages == {"off", "barcodes", "drop", "create", "phones", "verify", "prepared"}

Off == [q \in Primaries |-> "off"]

\* No earlier release left more behind than the migrations know of.
StartupInit ==
  /\ stage = Off /\ enabled = {}
  /\ index \in {"none", "plain", "sparse", "unique"}
  /\ shared \in (IF index \in {"sparse", "unique"} THEN {FALSE} ELSE BOOLEAN)
  /\ unfilled \in SUBSET OldUsers

Moves(q, from, to) == stage[q] = from /\ stage' = [stage EXCEPT ![q] = to]

Start(q) ==
  /\ \/ Moves(q, "off", "barcodes") /\ enabled' = enabled \cup {q}
     \/ Moves(q, "off", "verify") /\ enabled' = enabled \ {q}
  /\ UNCHANGED <<index, shared, unfilled>>

\* A good index is left alone, and so is one over shared barcodes, which are reported and
\* never resolved, or one that cannot be read.
CheckBarcodes(q) ==
  /\ \/ Moves(q, "barcodes", "phones")
     \/ index = "none" /\ ~shared /\ Moves(q, "barcodes", "create")
     \/ index \in {"plain", "sparse"} /\ ~shared /\ Moves(q, "barcodes", "drop")
  /\ UNCHANGED <<enabled, index, shared, unfilled>>

\* dropIndex by its name; a failure ends this migration.
DropIndex(q) ==
  /\ \/ index # "none" /\ index' = "none" /\ Moves(q, "drop", "create")
     \/ UNCHANGED index /\ Moves(q, "drop", "phones")
  /\ UNCHANGED <<enabled, shared, unfilled>>

\* createIndex fails over shared barcodes, or for another reason.
CreateIndex(q) ==
  /\ Moves(q, "create", "phones")
  /\ \/ index \in {"none", "unique"} /\ ~shared /\ index' = "unique"
     \/ UNCHANGED index
  /\ UNCHANGED <<enabled, shared, unfilled>>

\* The cursor has passed every user that lacks them.
PhonesDone == unfilled = {}

BackfillPhone(q) ==
  /\ \/ \E u \in unfilled : stage[q] = "phones" /\ unfilled' = unfilled \ {u} /\ UNCHANGED stage
     \/ PhonesDone /\ Moves(q, "phones", "verify") /\ UNCHANGED unfilled
  /\ UNCHANGED <<enabled, index, shared>>

\* Mutant: any index of that name will do.
ReadyNamed == index # "none"

\* verifyDatabaseReadiness.
Ready == index = "unique"

\* The primary serves, or exits until it is started again.
Verify(q) ==
  /\ \/ Ready /\ Moves(q, "verify", "prepared")
     \/ ~Ready /\ Moves(q, "verify", "off")
  /\ UNCHANGED <<enabled, index, shared, unfilled>>

\* A crash, or a step whose failure is not caught.
Crash(q) ==
  /\ stage[q] \notin {"off", "prepared"}
  /\ stage' = [stage EXCEPT ![q] = "off"]
  /\ UNCHANGED <<enabled, index, shared, unfilled>>

\* Two requests give two products one barcode: without a unique index nothing stops them
\* (a sparse one is unique, too).  An instance that serves already may do so at any moment.
ShareBarcode ==
  /\ index \in {"none", "plain"}
  /\ shared' = TRUE
  /\ UNCHANGED <<stage, enabled, index, unfilled>>

\* The operator clears the barcodes that are shared.
Repair == shared /\ shared' = FALSE /\ UNCHANGED <<stage, enabled, index, unfilled>>

StartupNext ==
  \/ ShareBarcode \/ Repair
  \/ \E q \in Primaries : \/ Start(q) \/ CheckBarcodes(q) \/ DropIndex(q) \/ CreateIndex(q)
                          \/ BackfillPhone(q) \/ Verify(q) \/ Crash(q)

StartupSpec == StartupInit /\ [][StartupNext]_startupVars
----------------------------------------------------------------------------
StartupTypeOK ==
  /\ stage \in [Primaries -> StartStages] /\ enabled \subseteq Primaries
  /\ index \in {"none", "plain", "sparse", "unique"} /\ shared \in BOOLEAN
  /\ unfilled \subseteq OldUsers

\* While a prepared primary serves, no two products of an owner get one barcode, and a
\* primary that migrated finds every old user by phone: whatever failed, crashed between
\* the drop and the new index, or was written meanwhile (server.ts 30-43,
\* product-barcode-unique-index.migration.ts 5-21, database-readiness.ts 12-27).
ServesReady ==
  \A q \in Primaries : stage[q] = "prepared" =>
    /\ index = "unique" /\ ~shared
    /\ q \in enabled => unfilled = {}
============================================================================
