--------------------------- MODULE MCAudioSender ---------------------------
(***************************************************************************)
(* AudioSender on small instances.                                         *)
(***************************************************************************)
EXTENDS AudioSender

\* With nothing on its way the numbers of samples and packets may start again, so
\* that a device which never stops delivering is a cycle of finitely many states.
Renumber ==
  /\ captured = MaxCaptured
  /\ buffer = <<>>
  /\ task = "select"
  /\ captured' = 0
  /\ sequence' = 0
  /\ packet' = [seq |-> 0, slots |-> <<>>]
  /\ wire' = {}
  /\ UNCHANGED <<buffer, spinning, permit, task, cancelled>>

EndlessSpec == Init /\ [][Next \/ Renumber]_sendVars /\ Fairness
=============================================================================
