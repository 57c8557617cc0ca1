------------------------------- MODULE MCGBN -------------------------------
(* GBN on a small instance.                                                *)
EXTENDS GBN
=============================================================================
