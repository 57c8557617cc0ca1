------------------------------- MODULE MCSR --------------------------------
(* SR on a small instance.                                                 *)
EXTENDS SR
=============================================================================
