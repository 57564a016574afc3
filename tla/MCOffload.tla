----------------------------- MODULE MCOffload -----------------------------
(***************************************************************************)
(* OffloadForward on small instances; the .cfg files give the bounds.      *)
(***************************************************************************)
EXTENDS OffloadForward
=============================================================================
