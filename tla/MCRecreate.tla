----------------------------- MODULE MCRecreate -----------------------------
(* Recreate with a few jobs for TLC. *)
EXTENDS Recreate, TLC

\* Jobs are interchangeable.
Symmetry == Permutations(Jobs)
=============================================================================
