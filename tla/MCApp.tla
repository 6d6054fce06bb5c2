------------------------------- MODULE MCApp -------------------------------
(* Instances of HwcryptoApp for TLC: one client per service.               *)
EXTENDS HwcryptoApp, Sequences

Name == {<<"r">>}
Ikm == {<<"s">>}
NoPayloads == {}
============================================================================
