---------------------------- MODULE MCEnforcement ----------------------------
(* Enforcement on small instances.                                         *)
EXTENDS Enforcement

CONSTANTS c1, c2, h1, h2, checker
==============================================================================
