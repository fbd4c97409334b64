------------------------------- MODULE MCUnplug -------------------------------
(* Instances of Unplug for TLC. *)
EXTENDS Unplug

CONSTANTS t1, t2, t3

TwoTransfers == {t1, t2}
ThreeTransfers == {t1, t2, t3}
=============================================================================
