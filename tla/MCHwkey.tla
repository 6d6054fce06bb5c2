------------------------------ MODULE MCHwkey ------------------------------
(* Instances of HwkeyServer for TLC.  The names of the two key slots are    *)
(* "r" and "ru", so that one is what a stale buffer may turn the other into.*)
EXTENDS HwkeyServer

Names == {<<"r">>, <<"r", "u">>}
OddNames == Names \cup {<< >>, <<"r", "0">>}
Ikms == {<<"s">>, <<"s", "s">>}
AnyIkms == Ikms \cup {<< >>}
Unknown == {<<"x", "u">>}
NoPayloads == {}
OneName == {<<"r">>}
============================================================================
