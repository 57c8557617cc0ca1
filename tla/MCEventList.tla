---------------------------- MODULE MCEventList ----------------------------
(* EventList with a few addresses, draws and calls.                        *)
EXTENDS EventList
=============================================================================
