------------------------------ MODULE PinLogin ------------------------------
(* PIN login (crates/catcard-pin): the sequencing of the bootloader's gate 18.
   The caller may call any public method at any time.  The gate is external,
   modelled from how the crate uses it and from the tests' stand-in: a signed
   struct that must round-trip unmodified, a counter of attempts that only a
   good login restores, a brick that is final.  Where its answer is documented
   as unknown, it is either.

   A PIN is a prefix and a suffix; words are the prefix they were derived from;
   key stretching, delays, trick effects other than "a login" and change_flags,
   which every call that the gate reads it in sets first, are left out. *)
EXTENDS Naturals

CONSTANTS
  Prefixes, Suffixes,
  Tricks,       \* trick PINs stored in the secure element
  Secrets,      \* wallet secrets ever stored
  MaxAttempts,  \* MAX_ATTEMPTS
  Nothing,      \* no PIN, no words, no secret
  Region,       \* a staged image's place, in the first bytes of a blank secret
  GateFaults    \* gates 16 and 18 may fail for reasons of their own

Pins == Prefixes \X Suffixes

ASSUME LoginAssumption ==
  /\ MaxAttempts \in Nat \ {0} /\ Tricks \subseteq Pins
  /\ Nothing \notin Pins \cup Prefixes \cup Secrets
  /\ Region \notin Secrets
  /\ GateFaults \in BOOLEAN

VARIABLES
  step,    \* Login.step
  prefix,  \* Login.prefix
  words,   \* Login.words: the prefix they belong to
  att,     \* Login.attempt, the struct shared with the gate
  gate,    \* the bootloader and the secure element
  stale    \* the gate was ever handed a struct its signature does not fit (history)

loginVars == <<step, prefix, words, att, gate, stale>>

Fresh == [pin |-> Nothing, signed |-> FALSE, logged |-> FALSE, secret |-> Nothing,
          left |-> 0]

-----------------------------------------------------------------------------
(* The gate. *)

Fits(a) == a.signed           \* validate: signed, and unmodified since
Sign(a) == [a EXCEPT !.signed = TRUE]

Fault == GateFaults

(* Setup: needs no signature; reports blank or not, and the attempts left. *)
SetupDone(a, g) == Sign([a EXCEPT !.logged = FALSE, !.left = g.left])

(* One more failed attempt; at the last the device is bricked. *)
Failed(g) == [g EXCEPT !.left = @ - 1, !.bricked = g.left = 1]

(* Mutant: the attempts are counted by the firmware as well. *)
LeftCounted(g) == g.left - 1
(* The attempts left that Wrong reports: what the gate wrote into the struct. *)
LeftReported(g) == g.left

-----------------------------------------------------------------------------
(* Login. *)

Steps == {"prefix", "words", "suffix", "in", "wrong", "blank", "bricked", "failed"}

(* Where Setup leaves a struct. *)
AfterSetup(g) == IF g.pin = Nothing THEN "blank" ELSE "prefix"

(* Mutant: the session goes on after a change, without a setup. *)
NoSetup(a, g) ==
  /\ step' = (IF step = "in" THEN "in" ELSE AfterSetup(g))
  /\ att' = Sign(a) /\ gate' = g
(* Setup after a call of its own left the struct a and the gate g. *)
Restart(a, g) ==
  \/ /\ step' = AfterSetup(g) /\ att' = SetupDone(a, g) /\ gate' = g
  \/ /\ Fault /\ step' = "failed" /\ att' = a /\ gate' = g

(* classify: an error of gate 18 that is not about this PIN. *)
Refused(a) ==
  /\ step' = IF gate.bricked THEN "bricked" ELSE "failed"
  /\ att' = a
Errs == gate.bricked \/ Fault

(* new: a fresh struct, whatever became of the last; also what a power cycle
   leads to. *)
New ==
  /\ prefix' = Nothing /\ words' = Nothing
  /\ \/ ~gate.bricked /\ Restart(Fresh, gate)
     \/ Errs /\ Refused(Fresh) /\ UNCHANGED gate
  /\ UNCHANGED stale

(* prefix_entered: on a failure the words of the last prefix stay. *)
PrefixEntered(p) ==
  /\ prefix' = p
  /\ \/ step' = "words" /\ words' = p
     \/ /\ Errs
        /\ step' \in {"failed"} \cup (IF gate.bricked THEN {"bricked"} ELSE {})
        /\ UNCHANGED words
  /\ UNCHANGED <<att, gate, stale>>

WordsConfirmed ==
  /\ step = "words" /\ step' = "suffix"
  /\ UNCHANGED <<prefix, words, att, gate, stale>>

WordsShown == words # Nothing

(* Mutant: the struct is sent as it was signed before the PIN was filled in. *)
SetupBefore(a) == a
(* The PIN goes in, then setup signs the struct that holds it. *)
SetupAfter(a) == SetupDone(a, gate)

(* The secure element's answer to a login. *)
LoginAnswer(a) ==
  \/ /\ a.pin \in Tricks \/ a.pin = gate.pin
     /\ step' = "in"
     /\ gate' = [gate EXCEPT !.left = IF a.pin \in Tricks THEN @ ELSE MaxAttempts,
                             !.trick = a.pin \in Tricks]
     /\ att' = Sign([a EXCEPT !.logged = TRUE, !.left = MaxAttempts])
  \/ /\ a.pin \notin Tricks /\ a.pin # gate.pin
     /\ step' = "wrong"
     /\ gate' = [Failed(gate) EXCEPT !.trick = FALSE]
     /\ att' = Sign([a EXCEPT !.left = LeftReported(Failed(gate))])
  \/ /\ Fault /\ step' = "failed" /\ att' = a
     /\ gate' \in {gate, Failed(gate)}

(* attempt: fill in the PIN, set up, log in. *)
Attempt(s) ==
  IF ~WordsShown
  THEN /\ step' = "prefix"
       /\ UNCHANGED <<prefix, words, att, gate, stale>>
  ELSE LET filled == [att EXCEPT !.pin = <<prefix, s>>, !.signed = FALSE]
           ready  == SetupAfter(filled)
       IN /\ \/ Errs /\ Refused(filled) /\ UNCHANGED <<gate, stale>>
             \/ /\ ~gate.bricked
                /\ IF Fits(ready) THEN LoginAnswer(ready) /\ UNCHANGED stale
                   ELSE step' = "failed" /\ att' = ready /\ stale' = TRUE
                        /\ UNCHANGED gate
          /\ UNCHANGED <<prefix, words>>

(* A change of the wallet PIN: refused on a wrong old PIN, which counts as a
   failed attempt; on success the struct no longer logs in, so setup again. *)
Change(old, a, changed) ==
  /\ words' = Nothing
  /\ IF ~Fits(att) THEN step' = "failed" /\ stale' = TRUE /\ UNCHANGED <<att, gate>>
     ELSE /\ UNCHANGED stale
          /\ \/ Errs /\ Refused(att) /\ UNCHANGED gate
             \/ /\ ~gate.bricked /\ old = gate.pin /\ Restart(a, changed)
             \/ /\ ~gate.bricked /\ old # gate.pin
                /\ step' = "failed" /\ att' = att
                /\ gate' \in {gate, Failed(gate)}
  /\ UNCHANGED prefix

SetFirstPin(new) ==
  /\ step = "blank"
  /\ Change(Nothing, [att EXCEPT !.logged = FALSE], [gate EXCEPT !.pin = new])

ChangePin(old, new) ==
  /\ step = "in"
  /\ Change(old, [att EXCEPT !.logged = FALSE], [gate EXCEPT !.pin = new])

(* clear: an empty new PIN makes the device blank.  Whether the struct is still
   logged in then is not documented; asked to, a caller may keep it. *)
ClearPin(old, keep) ==
  /\ step = "in"
  /\ LET blank == [gate EXCEPT !.pin = Nothing, !.secret = Nothing]
     IN \/ Change(old, [att EXCEPT !.logged = FALSE], blank)
        \/ /\ keep /\ Fits(att) /\ ~gate.bricked /\ old = gate.pin
           /\ step' = "in" /\ gate' = blank /\ words' = Nothing
           /\ UNCHANGED <<prefix, att, stale>>

(* A call only a session may make.  Refused here without one. *)
InSession == step = "in"

Stale == step' = "failed" /\ stale' = TRUE /\ UNCHANGED <<att, gate>>

(* Mutant: the struct keeps what the gate wrote into it. *)
Left(secret) == secret
(* The plaintext secret does not outlive the call. *)
Zeroized(secret) == Nothing

(* fetch_secret: the stored secret, or a decoy, through the struct. *)
FetchSecret ==
  /\ InSession
  /\ IF ~Fits(att) THEN Stale
     ELSE /\ UNCHANGED <<gate, stale>>
          /\ \/ /\ ~gate.bricked /\ UNCHANGED step
                /\ \E s \in {gate.secret} \cup (IF gate.trick THEN Secrets ELSE {}) :
                     att' = Sign([att EXCEPT !.secret = Zeroized(s)])
             \/ Errs /\ Refused(att)
  /\ UNCHANGED <<prefix, words>>

(* set_secret: with the session's PIN as the old one.  Whether it leaves the
   session logged in is read back from the struct. *)
SetSecret(s) ==
  /\ InSession
  /\ LET sent == [att EXCEPT !.secret = Zeroized(s)]
         kept == [gate EXCEPT !.secret = s]
     IN IF ~Fits(att) THEN Stale
        ELSE /\ UNCHANGED stale
             /\ \/ /\ ~gate.bricked /\ step' = "in" /\ att' = sent /\ gate' = kept
                \/ /\ ~gate.bricked /\ Restart([sent EXCEPT !.logged = FALSE], kept)
                \/ Errs /\ Refused(sent) /\ UNCHANGED gate
  /\ UNCHANGED <<prefix, words>>

(* trick_request: from a trick session the gate erases the seed. *)
TrickRequest ==
  /\ InSession
  /\ IF ~Fits(att) THEN stale' = TRUE /\ UNCHANGED gate
     ELSE /\ UNCHANGED stale
          /\ gate' = IF gate.trick THEN [gate EXCEPT !.secret = Nothing] ELSE gate
  /\ UNCHANGED <<step, prefix, words, att>>

(* authorize_firmware: the image's place goes to the gate where a secret would,
   and stays in the struct until the next secret goes through it.  A refusal
   that is about the image leaves the session as it was; success reboots. *)
AuthorizeFirmware ==
  /\ InSession
  /\ LET aimed == [att EXCEPT !.secret = Region]
     IN IF ~Fits(aimed)
        THEN step' = "failed" /\ stale' = TRUE /\ att' = aimed /\ UNCHANGED gate
        ELSE /\ UNCHANGED <<gate, stale>>
             /\ \/ UNCHANGED step /\ att' = aimed
                \/ Errs /\ Refused(aimed)
  /\ UNCHANGED <<prefix, words>>

(* greenlight: a refusal that says nothing about the struct leaves the session as
   it was. *)
Greenlight ==
  /\ InSession
  /\ IF ~Fits(att) THEN Stale
     ELSE /\ UNCHANGED <<att, gate, stale>>
          /\ \/ UNCHANGED step
             \/ Errs /\ step' = IF gate.bricked THEN "bricked" ELSE "failed"
  /\ UNCHANGED <<prefix, words>>

LoginInit ==
  /\ step = "prefix" /\ prefix = Nothing /\ words = Nothing
  /\ \E p \in (Pins \ Tricks) \cup {Nothing}, s \in Secrets \cup {Nothing} :
       /\ p = Nothing => s = Nothing
       /\ gate = [pin |-> p, secret |-> s, left |-> MaxAttempts, bricked |-> FALSE,
                  trick |-> FALSE]
  /\ att = Fresh
  /\ stale = FALSE

LoginNext ==
  \/ New \/ WordsConfirmed \/ FetchSecret \/ TrickRequest
  \/ AuthorizeFirmware \/ Greenlight
  \/ \E p \in Prefixes : PrefixEntered(p)
  \/ \E s \in Suffixes : Attempt(s)
  \/ \E s \in Secrets : SetSecret(s)
  \/ \E new \in Pins \ Tricks : SetFirstPin(new)
  \/ \E old, new \in Pins \ Tricks : ChangePin(old, new)
  \/ \E old \in Pins, keep \in BOOLEAN : ClearPin(old, keep)

LoginSpec == LoginInit /\ [][LoginNext]_loginVars

-----------------------------------------------------------------------------
(* Properties. *)

(* Between calls the struct, which every later call copies through the gate's
   buffer, holds no wallet secret: where one would be there is nothing, or the
   place of an image. *)
LoginTypeOK ==
  /\ step \in Steps
  /\ prefix \in Prefixes \cup {Nothing} /\ words \in Prefixes \cup {Nothing}
  /\ att \in [pin : Pins \cup {Nothing}, signed : BOOLEAN, logged : BOOLEAN,
              secret : {Nothing, Region}, left : 0 .. MaxAttempts]
  /\ gate \in [pin : Pins \cup {Nothing}, secret : Secrets \cup {Nothing},
               left : 0 .. MaxAttempts, bricked : BOOLEAN, trick : BOOLEAN]
  /\ stale \in BOOLEAN

(* No call that needs a signed struct is ever made with one the gate would refuse:
   whatever order the calls come in, the crate fills in the PIN before it has
   the struct signed, and asks for a login before it asks for anything else. *)
NeverStale == ~stale

(* In means in: the struct is signed and logged in, and the PIN in it is the
   device's, or a trick; unless that PIN was cleared in this very session. *)
SessionIsReal ==
  step = "in" =>
    /\ att.signed /\ att.logged
    /\ att.pin \in Tricks \cup {gate.pin} \/ gate.pin = Nothing

(* After a wrong PIN the struct says how many attempts the secure element has
   left: that number is what a person decides on before trying again. *)
CountIsTheGates == step = "wrong" => att.left = gate.left
=============================================================================
