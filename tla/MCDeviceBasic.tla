---------------------------- MODULE MCDeviceBasic ----------------------------
(* Instances of DeviceBasic for TLC. *)
EXTENDS DeviceBasic

\* One IN endpoint, one OUT endpoint with the same number, the control pipe.
PipeAddresses == {<<0, "in">>, <<1, "in">>, <<1, "out">>}

\* In addition a second IN endpoint.
AllAddresses == PipeAddresses \cup {<<2, "in">>}
=============================================================================
