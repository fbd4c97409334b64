------------------------------ MODULE MCPlayback ------------------------------
(* Instances of Playback for TLC. *)
EXTENDS Playback

\* An isochronous transfer of the endpoint that is played, longer than one that
\* is asked for and with its first packet empty, and one of another endpoint.
TwoShapes == {[ep |-> "0x81", len |-> 2, sent |-> {2}, iso |-> 1],
              [ep |-> "0x82", len |-> 1, sent |-> {1}, iso |-> 0]}
=============================================================================
