------------------------------- MODULE MCCaam -------------------------------
(* Instances of CaamDriver for TLC: the constants are given in the .cfg.    *)
EXTENDS CaamDriver
=============================================================================
