------------------------------ MODULE MCValues ------------------------------
(***************************************************************************)
(* A small instance of Values for TLC.                                     *)
(***************************************************************************)
EXTENDS Values
=============================================================================
