---------------------------- MODULE MCTssSession ----------------------------
(* TssSession with three members: every kind but a pair setup by QR, which
   two rounds' codes cannot carry for more than two (see README). *)
EXTENDS TssSession

MCKinds == (Families \X {"card", "qr"}) \ {<<"pairs", "qr">>}
=============================================================================
