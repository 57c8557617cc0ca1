------------------------------- MODULE MCChat -------------------------------
(* Chat with a few hosts and commands.                                     *)
EXTENDS Chat

PortOf == [h \in Hosts |-> IF h = "amy" THEN 3 ELSE IF h = "bob" THEN 1 ELSE 2]
=============================================================================
