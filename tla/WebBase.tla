------------------------------- MODULE WebBase ------------------------------
(***************************************************************************)
(* What the pages and dialogs of the web UI have in common: a value that   *)
(* stands for "none", and the bound on what users do.                      *)
(***************************************************************************)
EXTENDS Naturals, Sequences, FiniteSets

CONSTANTS
    None,
    MaxMoves    \* bound: what users and other people do, each move with its weight

ASSUME BaseConstants == MaxMoves \in Nat

VARIABLE moves

Spend(n) == moves + n <= MaxMoves /\ moves' = moves + n
Move == Spend(1)
============================================================================
