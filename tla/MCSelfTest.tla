----------------------------- MODULE MCSelfTest -----------------------------
(* Instances of CaamSelfTest for TLC: the constants are given in the .cfg.  *)
EXTENDS CaamSelfTest
=============================================================================
