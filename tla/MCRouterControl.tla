-------------------------- MODULE MCRouterControl --------------------------
(* RouterControl with a few descriptors, controllers and messages.         *)
EXTENDS RouterControl

ThreeRouters == {<<0, 5, INFINITY>>}
=============================================================================
