------------------------------- MODULE MCFlow -------------------------------
(***************************************************************************)
(* Instances of FlowOutput for TLC.  Every run takes all the functions     *)
(* within its bounds.                                                      *)
(***************************************************************************)
EXTENDS FlowOutput

=============================================================================
