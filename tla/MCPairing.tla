---------------------------- MODULE MCPairing -------------------------------
(* A small instance of Pairing for TLC: three codes, the real limit of three
   dropped handshakes, one tick of cooldown and two of waiting. *)
EXTENDS Pairing
=============================================================================
