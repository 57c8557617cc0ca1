-------------------------- MODULE MCMessageBuffer --------------------------
(* MessageBuffer with a heap of a few nodes, so that malloc fails and      *)
(* freed nodes come back.                                                  *)
EXTENDS MessageBuffer
=============================================================================
