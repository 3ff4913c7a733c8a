------------------------------ MODULE MCOwners ------------------------------
(***************************************************************************)
(* An owner with a few calls and commands at a time.                       *)
(***************************************************************************)
EXTENDS Owners, TLC

Symmetry == Permutations(Caller)

=============================================================================
