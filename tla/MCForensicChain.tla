-------------------------- MODULE MCForensicChain --------------------------
(* Small instances of ForensicChain; the values of the constants are in the *)
(* configurations.                                                          *)
EXTENDS ForensicChain
=============================================================================
