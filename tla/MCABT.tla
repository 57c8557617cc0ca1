------------------------------- MODULE MCABT -------------------------------
(* ABT on a small instance, with the mutations its properties must catch.  *)
EXTENDS ABT
=============================================================================
