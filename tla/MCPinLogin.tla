----------------------------- MODULE MCPinLogin -----------------------------
(* PinLogin with two prefixes, two suffixes and one trick PIN. *)
EXTENDS PinLogin

CONSTANTS p1, p2, s1, s2

MCTricks == {<<p2, s2>>}
=============================================================================
