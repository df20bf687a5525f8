----------------------------- MODULE MCCkccDesk -----------------------------
(* Instances of CkccDesk for TLC. *)
EXTENDS CkccDesk

(* Signing, polling and HSM mode against everything else. *)
MCCommands == {"xpub", "hsms", "stxn", "stok", "pass", "enrl", "logo", "smsg", "upld",
               "hsmu"}
=============================================================================
