------------------------------- MODULE MCHsm -------------------------------
(* Two rules: what fits the first goes up to its limit with nobody asked, the
   second wants the local code and one of two users, and has a limit too. *)
EXTENDS Hsm
CONSTANTS ann, bob
MCUsers == {ann, bob}
MCTotp == {bob}
MCMaxCode == [u \in MCUsers |-> IF u = ann THEN 2 ELSE 1]
MCRules == << [limit |-> 1, local |-> FALSE, users |-> {}, need |-> 0],
              [limit |-> 2, local |-> TRUE, users |-> {ann, bob}, need |-> 1] >>
MCTxs == { [sending |-> 1, fits |-> {1, 2}], [sending |-> 2, fits |-> {2}] }
=============================================================================
