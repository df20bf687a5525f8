----------------------------- MODULE MCFidoDesk -----------------------------
(* Instances of FidoDesk for TLC. *)
EXTENDS FidoDesk
=============================================================================
