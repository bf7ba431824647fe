---------------------------- MODULE SampleStream ----------------------------
(***************************************************************************)
(* What audio_forwarder promises about a stream, in the terms of the two   *)
(* devices: samples may get lost, but what is heard was captured, and      *)
(* nothing is heard after something younger.                               *)
(***************************************************************************)
EXTENDS Naturals

VARIABLES
  captured,  \* how many samples the input device has delivered: 1 .. captured
  heard      \* the last sample the output device was given, 0 before the first

vars == <<captured, heard>>

Init == captured = 0 /\ heard = 0

\* The input device delivers some samples.
Capture ==
  /\ captured' > captured
  /\ UNCHANGED heard

\* The output device is given some of them, the last of which is heard'.
Hear ==
  /\ heard' > heard /\ heard' <= captured
  /\ UNCHANGED captured

Next == Capture \/ Hear

Spec == Init /\ [][Next]_vars
=============================================================================
