------------------------------ MODULE MCBlocks ------------------------------
(***************************************************************************)
(* Small instances of Blocks for TLC.                                      *)
(***************************************************************************)
EXTENDS Blocks, TLC

\* The labels, and the exceptions, are interchangeable.
Symmetry == Permutations(Labels) \cup Permutations(Exceptions)
=============================================================================
