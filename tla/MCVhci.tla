------------------------------- MODULE MCVhci -------------------------------
(* Instances of Vhci for TLC: two controllers, each with a port at either hub. *)
EXTENDS Vhci

TwoDevices == {"keyboard", "mouse"}
ThreeDevices == TwoDevices \cup {"disk"}

SpeedOfTwo == [d \in TwoDevices |-> "high"]
SpeedOfThree == [d \in ThreeDevices |-> IF d = "disk" THEN "super" ELSE "high"]

FourPorts == 0 .. 3
HubOfFour == [p \in FourPorts |-> IF p \in {0, 2} THEN "high" ELSE "super"]
ControllerOfFour == [p \in FourPorts |-> p \div 2]
=============================================================================
