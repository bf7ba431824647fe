------------------------- MODULE MCForwarderServer -------------------------
(***************************************************************************)
(* ForwarderServer on small instances.                                     *)
(***************************************************************************)
EXTENDS ForwarderServer, TLC

\* The connections differ in nothing but their names.
ConnSymmetry == Permutations(Conns)
=============================================================================
