---------------------------- MODULE MCCatalogCache ----------------------------
(***************************************************************************)
(* An instance of CatalogCache for TLC in which the only change of the     *)
(* product is a release of the expiry worker.                              *)
(***************************************************************************)
EXTENDS CatalogCache

CONSTANTS product, q1, e1, i1

ReadsProduct == [q \in CacheReaders |-> product]
ClearsAll == [u \in Updates |-> CacheKeys]

================================================================================
