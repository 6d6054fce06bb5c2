------------------------------ MODULE MCHwrng ------------------------------
(* Instances of HwrngServer for TLC.  Channels are interchangeable.        *)
EXTENDS HwrngServer

Symmetry == Permutations(Chan)
============================================================================
