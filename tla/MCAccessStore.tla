---------------------------- MODULE MCAccessStore ---------------------------
(***************************************************************************)
(* AccessStore for TLC.  Cluster roles write records that differ from each *)
(* other, and a role binding of the cluster role r1 in a namespace whose   *)
(* name reads like a revision writes the record that r1 has at it.         *)
(***************************************************************************)
EXTENDS AccessStore, TLC

CONSTANT r1

MCWritten(r, v) == <<r, v>>

\* Without and with the role binding.
NoScoped == {}
MCScoped == {<<r1, 2>>}

Interchangeable == Permutations(Lookup)

=============================================================================
