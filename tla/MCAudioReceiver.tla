-------------------------- MODULE MCAudioReceiver --------------------------
(***************************************************************************)
(* AudioReceiver with a network that delivers any of a few packets, again  *)
(* and again and in any order.                                             *)
(***************************************************************************)
EXTENDS AudioReceiver

Audio(n, slots) == [kind |-> "audio", seq |-> n, slots |-> slots]

\* Four packets of a mono stream, the last one short, and two that are no audio.  The
\* first is never taken; the others together are more than the buffer holds.
SomePackets ==
  {Audio(0, <<1, 1>>), Audio(1, <<2, 2, 3, 3>>), Audio(2, <<4, 4, 5, 5>>),
   Audio(3, <<6, 6>>),
   [kind |-> "tiny", seq |-> 0, slots |-> <<>>],
   [kind |-> "ragged", seq |-> 2, slots |-> <<>>]}
=============================================================================
