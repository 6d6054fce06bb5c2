------------------------------- MODULE MCUart -------------------------------
(* Instances of ImxUart for TLC: the constants are given in the .cfg.       *)
EXTENDS ImxUart
=============================================================================
