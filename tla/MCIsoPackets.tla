----------------------------- MODULE MCIsoPackets -----------------------------
(* Instances of IsoPackets for TLC: buffers that divide evenly among the     *)
(* packets, that leave a rest, and that are shorter than their packets.      *)
EXTENDS IsoPackets

SomeSizes == {1, 2, 5, 6}
=============================================================================
