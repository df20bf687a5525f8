--------------------------- MODULE MCSettingsStore ---------------------------
(* Instances of SettingsStore for TLC. *)
EXTENDS SettingsStore, TLC

(* Keys and changes are interchangeable: nothing in the store orders them. *)
Symmetry == Permutations(Keys) \cup Permutations(Changes)
=============================================================================
