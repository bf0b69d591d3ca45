---------------------------- MODULE MCQuarantine ----------------------------
(* Instances of Quarantine for TLC; the values of the constants are in the  *)
(* configurations.                                                          *)
EXTENDS Quarantine
=============================================================================
