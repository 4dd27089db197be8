---------------------------- MODULE SelectionMC ----------------------------
(* A small instance of Selection for TLC.                                    *)
EXTENDS Selection, TLC, FiniteSets

Symmetry == Permutations(Values)

\* Few renders, which only tell earlier clicks from later ones, and two
\* values chosen between two objects.
Few == render <= 2 /\ Cardinality(chosen) <= 2
=============================================================================
