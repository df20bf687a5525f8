------------------------------ MODULE MCUpgrade ------------------------------
(* Two signed images of odd lengths, one of them with the anti-downgrade mark,
   and one that is not signed. *)
EXTENDS Upgrade, TLC
CONSTANTS a, b, c
MCImages == {a, b, c}
MCSigned == {a, b}
MCHighWater == {a}
MCImageLen == (a :> 5) @@ (b :> 5) @@ (c :> 3)
=============================================================================
