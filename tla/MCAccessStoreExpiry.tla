------------------------- MODULE MCAccessStoreExpiry ------------------------
(***************************************************************************)
(* AccessStoreExpiry for TLC, with the records of MCAccessStore.           *)
(***************************************************************************)
EXTENDS MCAccessStore, AccessStoreExpiry

=============================================================================
