------------------------ MODULE MCSandboxContainers ------------------------
(* Instances of SandboxContainers for TLC; the values of the constants are *)
(* in the configurations.                                                  *)
EXTENDS SandboxContainers
=============================================================================
