------------------------------- MODULE MCDaemon -------------------------------
(* Instances of Daemon for TLC: a catalog of two devices, a catalog of one, *)
(* and a file that is not a plugin.                                         *)
EXTENDS Daemon

CONSTANTS c1, c2, c3

TwoClients == {c1, c2}
ThreeClients == {c1, c2, c3}

SomeCatalogs == {"mice", "recorder", "text"}
TwoCatalogs == {"mice", "text"}
NumberOfSome == [c \in SomeCatalogs |-> CASE c = "mice" -> 2 [] c = "recorder" -> 1 [] OTHER -> 0]
NumberOfTwo == [c \in TwoCatalogs |-> IF c = "mice" THEN 2 ELSE 0]
=============================================================================
