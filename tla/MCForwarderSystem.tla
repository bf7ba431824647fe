------------------------- MODULE MCForwarderSystem -------------------------
(***************************************************************************)
(* ForwarderSystem on a small instance.                                    *)
(***************************************************************************)
EXTENDS ForwarderSystem
=============================================================================
