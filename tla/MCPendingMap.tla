----------------------------- MODULE MCPendingMap -----------------------------
(* Instances of PendingMap for TLC. *)
EXTENDS PendingMap

CONSTANTS t1, t2, t3

TwoTransfers == {t1, t2}
ThreeTransfers == {t1, t2, t3}
=============================================================================
