-------------------------- MODULE MCControlRequests --------------------------
(* An instance of ControlRequests for TLC. *)
EXTENDS ControlRequests

\* A configuration with two interfaces and one with a single interface.
CountOfTwo == [c \in 1 .. 2 |-> IF c = 1 THEN 2 ELSE 1]
=============================================================================
