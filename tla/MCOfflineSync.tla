--------------------------- MODULE MCOfflineSync ---------------------------
(***************************************************************************)
(* A small instance of OfflineSync for TLC: "daily" is left out, it is     *)
(* read and written like "inventory".                                      *)
(***************************************************************************)
EXTENDS OfflineSync

ThreeCollections == {"products", "inventory", "deletedProducts"}
=============================================================================
