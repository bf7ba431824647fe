---------------------------- MODULE MCAudioPath ----------------------------
(***************************************************************************)
(* AudioPath on small instances.                                           *)
(***************************************************************************)
EXTENDS AudioPath

\* Packet 2 of an earlier mono stream: one sample on both channels.
EarlierStream == {[kind |-> "audio", seq |-> 2, slots |-> <<0, 0>>]}
=============================================================================
