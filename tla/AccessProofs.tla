---------------------------- MODULE AccessProofs -----------------------------
(* What stands between a wallet and whoever holds the device or its cable: PIN
   login, and the pairing of a computer.

   PIN login, for any prefixes, suffixes, trick PINs, secrets and number of
   attempts, whether or not the gates fail for reasons of their own.

   Pairing, for every limit and every number of prompts.  SilentBounded is not
   inductive: that the count of silent keys stops at the limit follows from what
   PairGuard knows of each of them.  A silent key is either counted as abandoned
   or still pending; a count at the limit has locked the guard; and a locked
   guard has nothing pending, so that nothing more can be counted until the
   person dismisses it. *)
EXTENDS PinLogin, Pairing, TLAPS

AttType  == [pin : Pins \cup {Nothing}, signed : BOOLEAN, logged : BOOLEAN,
             secret : {Nothing, Region}, left : 0 .. MaxAttempts]
GateType == [pin : Pins \cup {Nothing}, secret : Secrets \cup {Nothing},
             left : 0 .. MaxAttempts, bricked : BOOLEAN, trick : BOOLEAN]

(* A device that is not bricked has an attempt left. *)
Sane(g) == g.bricked \/ g.left > 0

(* What is needed besides the properties themselves: a blank device's struct was
   signed by the setup that found it blank, and words are some prefix's. *)
LoginInv ==
  /\ LoginTypeOK /\ NeverStale /\ SessionIsReal /\ CountIsTheGates
  /\ step = "blank" => att.signed
  /\ WordsShown => prefix # Nothing
  /\ Sane(gate)

(* What every call that leaves no session and no counted refusal behind it
   gives; enough for the invariant after it. *)
Outside ==
  /\ step' \in Steps \ {"in", "wrong"}
  /\ step' = "blank" => att'.signed
  /\ att' \in AttType /\ gate' \in GateType /\ Sane(gate')

-----------------------------------------------------------------------------
(* The structs. *)

LEMMA SignFacts ==
  ASSUME NEW a \in AttType
  PROVE  /\ Sign(a) \in AttType /\ Sign(a).signed
         /\ Sign(a).logged = a.logged /\ Sign(a).pin = a.pin /\ Sign(a).left = a.left
BY DEF Sign, AttType

LEMMA SetupFacts ==
  ASSUME NEW a \in AttType, NEW g \in GateType
  PROVE  /\ SetupDone(a, g) \in AttType /\ SetupDone(a, g).signed
         /\ SetupDone(a, g).pin = a.pin
<1> DEFINE b == [a EXCEPT !.logged = FALSE, !.left = g.left]
<1>1. b \in AttType /\ b.pin = a.pin
  BY DEF AttType, GateType
<1> QED BY <1>1, SignFacts DEF SetupDone

LEMMA FailedFacts ==
  ASSUME LoginAssumption, NEW g \in GateType, g.left > 0
  PROVE  /\ Failed(g) \in GateType /\ Sane(Failed(g))
         /\ Failed(g).pin = g.pin /\ Failed(g).left = g.left - 1
<1> DEFINE fewer == g.left - 1
           last == g.left = 1
<1>1. fewer \in 0 .. MaxAttempts /\ last \in BOOLEAN /\ (last \/ fewer > 0)
  BY DEF GateType, LoginAssumption
<1>2. Failed(g) = [g EXCEPT !.left = fewer, !.bricked = last]
  BY DEF Failed, GateType
<1> HIDE DEF fewer, last
<1>3. Failed(g) \in GateType /\ Failed(g).left = fewer /\ Failed(g).bricked = last
      /\ Failed(g).pin = g.pin
  BY <1>1, <1>2 DEF GateType
<1>4. Sane(Failed(g))
  BY <1>1, <1>3 DEF Sane
<1> QED BY <1>3, <1>4 DEF fewer

LEMMA RestartFacts ==
  ASSUME NEW a \in AttType, NEW g \in GateType, Sane(g), Restart(a, g)
  PROVE  Outside
<1>1. CASE step' = AfterSetup(g) /\ att' = SetupDone(a, g) /\ gate' = g
  BY <1>1, SetupFacts DEF Outside, AfterSetup, Steps
<1>2. CASE step' = "failed" /\ att' = a /\ gate' = g
  BY <1>2 DEF Outside, Steps
<1> QED BY <1>1, <1>2 DEF Restart

LEMMA RefusedFacts ==
  ASSUME NEW a \in AttType, gate \in GateType, Sane(gate), Refused(a), gate' = gate
  PROVE  Outside
BY DEF Refused, Outside, Steps

LEMMA OutsideHolds ==
  ASSUME LoginInv, Outside, UNCHANGED stale,
         prefix' \in Prefixes \cup {Nothing}, words' \in Prefixes \cup {Nothing},
         words' # Nothing => prefix' # Nothing
  PROVE  LoginInv'
BY DEF WordsShown, LoginInv, Outside, LoginTypeOK, NeverStale, SessionIsReal, CountIsTheGates, AttType, GateType

-----------------------------------------------------------------------------
(* The calls. *)

LEMMA NewHolds == ASSUME LoginAssumption, LoginInv, New PROVE LoginInv'
<1>1. Fresh \in AttType /\ gate \in GateType /\ Sane(gate)
  BY DEF Fresh, AttType, GateType, LoginInv, LoginTypeOK, LoginAssumption
<1>2. Outside
  BY <1>1, RestartFacts, RefusedFacts DEF New
<1> QED BY <1>2, OutsideHolds DEF New

LEMMA PrefixHolds ==
  ASSUME LoginAssumption, LoginInv, NEW p \in Prefixes, PrefixEntered(p)
  PROVE  LoginInv'
<1>1. Outside
  BY DEF PrefixEntered, Outside, Steps, LoginInv, LoginTypeOK, AttType, GateType
<1>2. prefix' \in Prefixes \cup {Nothing} /\ words' \in Prefixes \cup {Nothing}
  BY DEF PrefixEntered, LoginInv, LoginTypeOK
<1>3. prefix' # Nothing
  BY DEF PrefixEntered, LoginAssumption
<1> QED BY <1>1, <1>2, <1>3, OutsideHolds DEF PrefixEntered

LEMMA WordsHold == ASSUME LoginInv, WordsConfirmed PROVE LoginInv'
<1>1. Outside
  BY DEF WordsConfirmed, Outside, Steps, LoginInv, LoginTypeOK, AttType, GateType
<1> QED BY <1>1, OutsideHolds DEF WordsConfirmed, LoginInv, LoginTypeOK, WordsShown

(* The gate judges the PIN that was filled in: a session is of that PIN, and a
   refusal says what the gate has left. *)
LEMMA AnswerHolds ==
  ASSUME LoginAssumption, LoginInv, NEW a \in AttType, a.signed, ~gate.bricked,
         LoginAnswer(a), UNCHANGED <<prefix, words, stale>>
  PROVE  LoginInv'
<1>0. gate \in GateType /\ gate.left > 0 /\ MaxAttempts \in Nat \ {0}
  BY DEF LoginInv, LoginTypeOK, GateType, Sane, LoginAssumption
<1>1. CASE /\ a.pin \in Tricks \/ a.pin = gate.pin
           /\ step' = "in"
           /\ gate' = [gate EXCEPT !.left = IF a.pin \in Tricks THEN @ ELSE MaxAttempts,
                                   !.trick = a.pin \in Tricks]
           /\ att' = Sign([a EXCEPT !.logged = TRUE, !.left = MaxAttempts])
  <2> DEFINE left == IF a.pin \in Tricks THEN gate.left ELSE MaxAttempts
             trick == a.pin \in Tricks
             b == [a EXCEPT !.logged = TRUE, !.left = MaxAttempts]
  <2>1. left \in 0 .. MaxAttempts /\ left > 0 /\ trick \in BOOLEAN
    BY <1>0 DEF GateType
  <2>2. gate' = [gate EXCEPT !.left = left, !.trick = trick]
    BY <1>0, <1>1 DEF GateType
  <2> HIDE DEF left, trick
  <2>3. gate' \in GateType /\ gate'.left = left /\ gate'.pin = gate.pin
    BY <1>0, <2>1, <2>2 DEF GateType
  <2>4. Sane(gate')
    BY <2>1, <2>3 DEF Sane
  <2>5. b \in AttType /\ b.logged /\ b.pin = a.pin
    <3>1. MaxAttempts \in 0 .. MaxAttempts
      BY <1>0
    <3> DEFINE yes == TRUE
    <3>2. b = [a EXCEPT !.logged = yes, !.left = MaxAttempts] /\ yes \in BOOLEAN /\ yes
      OBVIOUS
    <3> HIDE DEF yes
    <3>3. b \in AttType /\ b.logged = yes /\ b.pin = a.pin
      BY <3>1, <3>2 DEF AttType
    <3> QED BY <3>2, <3>3
  <2>6. att' \in AttType /\ att'.signed /\ att'.logged /\ att'.pin = a.pin
    BY <1>1, <2>5, SignFacts
  <2>7. att'.pin \in Tricks \cup {gate'.pin}
    BY <1>1, <2>3, <2>6
  <2> QED
    BY <1>1, <2>3, <2>4, <2>6, <2>7
    DEF LoginInv, LoginTypeOK, Steps, NeverStale, SessionIsReal, CountIsTheGates, WordsShown, AttType, GateType
<1>2. CASE /\ a.pin \notin Tricks /\ a.pin # gate.pin
           /\ step' = "wrong"
           /\ gate' = [Failed(gate) EXCEPT !.trick = FALSE]
           /\ att' = Sign([a EXCEPT !.left = LeftReported(Failed(gate))])
  <2>1. /\ Failed(gate) \in GateType /\ Sane(Failed(gate))
        /\ Failed(gate).left \in 0 .. MaxAttempts
    BY <1>0, FailedFacts DEF GateType
  <2>2. gate' \in GateType /\ Sane(gate') /\ gate'.left = Failed(gate).left
    BY <1>2, <2>1 DEF GateType, Sane
  <2> DEFINE b == [a EXCEPT !.left = LeftReported(Failed(gate))]
  <2>3. b \in AttType /\ b.left = Failed(gate).left
    BY <2>1 DEF AttType, LeftReported
  <2>4. att' \in AttType /\ att'.left = gate'.left
    BY <1>2, <2>2, <2>3, SignFacts
  <2> QED
    BY <1>2, <2>2, <2>4
    DEF LoginInv, LoginTypeOK, Steps, NeverStale, SessionIsReal, CountIsTheGates, WordsShown, AttType, GateType
<1>3. CASE step' = "failed" /\ att' = a /\ gate' \in {gate, Failed(gate)}
  <2>1. gate' \in GateType /\ Sane(gate')
    BY <1>0, <1>3, FailedFacts DEF LoginInv
  <2>2. Outside
    BY <1>3, <2>1 DEF Outside, Steps
  <2> QED BY <2>2, OutsideHolds DEF LoginInv, LoginTypeOK, WordsShown
<1> QED BY <1>1, <1>2, <1>3 DEF LoginAnswer

(* An attempt: the struct the setup signed always fits. *)
LEMMA AttemptHolds ==
  ASSUME LoginAssumption, LoginInv, NEW s \in Suffixes, Attempt(s)
  PROVE  LoginInv'
<1> DEFINE filled == [att EXCEPT !.pin = <<prefix, s>>, !.signed = FALSE]
           ready  == SetupAfter(filled)
<1>0. att \in AttType /\ gate \in GateType /\ Sane(gate)
  BY DEF LoginInv, LoginTypeOK, AttType, GateType
<1>1. CASE ~WordsShown
  <2>1. Outside
    BY <1>0, <1>1 DEF Attempt, Outside, Steps
  <2> QED BY <1>1, <2>1, OutsideHolds DEF Attempt, LoginInv, LoginTypeOK, WordsShown
<1>2. CASE WordsShown
  <2>1. <<prefix, s>> \in Pins
    BY <1>2 DEF LoginInv, LoginTypeOK, Pins
  <2>2. filled \in AttType
    BY <1>0, <2>1 DEF AttType
  <2>3. ready \in AttType /\ Fits(ready) /\ ready.signed
    BY <1>0, <2>2, SetupFacts DEF SetupAfter, Fits
  <2>4. CASE Refused(filled) /\ UNCHANGED <<gate, stale>>
    <3>1. Outside
      BY <1>0, <2>2, <2>4, RefusedFacts
    <3> QED BY <1>2, <2>4, <3>1, OutsideHolds DEF Attempt, LoginInv, LoginTypeOK, WordsShown
  <2>5. CASE ~gate.bricked /\ LoginAnswer(ready) /\ UNCHANGED stale
    BY <1>2, <2>3, <2>5, AnswerHolds DEF Attempt
  <2> QED BY <1>2, <2>3, <2>4, <2>5 DEF Attempt
<1> QED BY <1>1, <1>2

(* A change of the PIN: whatever comes of it, there is no session after it. *)
LEMMA ChangeHolds ==
  ASSUME LoginAssumption, LoginInv, step \in {"in", "blank"},
         NEW old, NEW a \in AttType, NEW changed \in GateType, Sane(changed) \/ gate.bricked,
         Change(old, a, changed)
  PROVE  LoginInv'
<1>0. att \in AttType /\ gate \in GateType /\ Sane(gate) /\ Fits(att)
  BY DEF LoginInv, LoginTypeOK, AttType, GateType, SessionIsReal, Fits
<1>1. UNCHANGED stale /\ words' = Nothing /\ prefix' = prefix
  BY <1>0 DEF Change
<1>2. Outside
  <2>1. CASE Refused(att) /\ UNCHANGED gate
    BY <1>0, <2>1, RefusedFacts
  <2>2. CASE ~gate.bricked /\ Restart(a, changed)
    BY <2>2, RestartFacts
  <2>3. CASE ~gate.bricked /\ step' = "failed" /\ att' = att /\ gate' \in {gate, Failed(gate)}
    <3>1. gate.left > 0
      BY <1>0, <2>3 DEF Sane
    <3>2. gate' \in GateType /\ Sane(gate')
      BY <1>0, <2>3, <3>1, FailedFacts
    <3> QED BY <1>0, <2>3, <3>2 DEF Outside, Steps
  <2> QED BY <1>0, <2>1, <2>2, <2>3 DEF Change
<1> QED BY <1>1, <1>2, OutsideHolds DEF LoginInv, LoginTypeOK

LEMMA ChangesHold ==
  ASSUME LoginAssumption, LoginInv,
         \/ \E new \in Pins \ Tricks : SetFirstPin(new)
         \/ \E old, new \in Pins \ Tricks : ChangePin(old, new)
  PROVE  LoginInv'
<1> DEFINE a == [att EXCEPT !.logged = FALSE]
           changed(new) == [gate EXCEPT !.pin = new]
<1>1. a \in AttType
  BY DEF LoginInv, LoginTypeOK, AttType
<1>2. \A new \in Pins : changed(new) \in GateType /\ Sane(changed(new))
  BY DEF LoginInv, LoginTypeOK, GateType, Sane
<1>3. ASSUME NEW new \in Pins \ Tricks, SetFirstPin(new) PROVE LoginInv'
  <2>1. step = "blank" /\ Change(Nothing, a, changed(new))
    BY <1>3 DEF SetFirstPin
  <2> QED BY <1>1, <1>2, <2>1, ChangeHolds
<1>4. ASSUME NEW old \in Pins \ Tricks, NEW new \in Pins \ Tricks, ChangePin(old, new)
      PROVE  LoginInv'
  <2>1. step = "in" /\ Change(old, a, changed(new))
    BY <1>4 DEF ChangePin
  <2> QED BY <1>1, <1>2, <2>1, ChangeHolds
<1> QED BY <1>3, <1>4

(* A cleared PIN: the session that is kept is the one exception SessionIsReal makes. *)
LEMMA ClearHolds ==
  ASSUME LoginAssumption, LoginInv, NEW old \in Pins, NEW keep \in BOOLEAN, ClearPin(old, keep)
  PROVE  LoginInv'
<1> DEFINE a == [att EXCEPT !.logged = FALSE]
           blank == [gate EXCEPT !.pin = Nothing, !.secret = Nothing]
<1>1. a \in AttType
  BY DEF LoginInv, LoginTypeOK, AttType
<1>2. blank \in GateType /\ Sane(blank) /\ blank.pin = Nothing
  BY DEF LoginInv, LoginTypeOK, GateType, Sane
<1>3. CASE Change(old, a, blank)
  BY <1>1, <1>2, <1>3, ChangeHolds DEF ClearPin
<1>4. CASE step' = "in" /\ gate' = blank /\ words' = Nothing /\ UNCHANGED <<prefix, att, stale>>
  <2>1. step = "in" /\ att.signed /\ att.logged
    BY DEF ClearPin, LoginInv, SessionIsReal
  <2> QED
    BY <1>2, <1>4, <2>1
    DEF LoginInv, LoginTypeOK, Steps, NeverStale, SessionIsReal, CountIsTheGates, WordsShown, AttType, GateType
<1> QED BY <1>3, <1>4 DEF ClearPin

(* What a session asks of the gate keeps the struct signed, the PIN in it and
   the device's PIN. *)
LEMMA SessionHolds ==
  ASSUME LoginAssumption, LoginInv,
         \/ FetchSecret \/ TrickRequest \/ AuthorizeFirmware \/ Greenlight
         \/ \E s \in Secrets : SetSecret(s)
  PROVE  LoginInv'
<1>0. /\ att \in AttType /\ gate \in GateType /\ Sane(gate)
      /\ step = "in" /\ Fits(att) /\ att.logged
      /\ att.pin \in Tricks \cup {gate.pin} \/ gate.pin = Nothing
  BY DEF LoginInv, LoginTypeOK, AttType, GateType, SessionIsReal, Fits,
         FetchSecret, TrickRequest, AuthorizeFirmware, Greenlight, SetSecret, InSession
<1> DEFINE blank == [att EXCEPT !.secret = Nothing]
           aimed == [att EXCEPT !.secret = Region]
<1>1. /\ blank \in AttType /\ blank.signed /\ blank.logged /\ blank.pin = att.pin
      /\ aimed \in AttType /\ aimed.signed /\ aimed.logged /\ aimed.pin = att.pin
      /\ \A s : [att EXCEPT !.secret = Zeroized(s)] = blank
  BY <1>0 DEF Zeroized, AttType, Fits
<1>2. UNCHANGED <<prefix, words, stale>>
  BY <1>0, <1>1 DEF FetchSecret, TrickRequest, AuthorizeFirmware, Greenlight, SetSecret, Fits
<1> DEFINE Stays == /\ step' = "in" /\ att' \in AttType /\ gate' \in GateType /\ Sane(gate')
                    /\ att'.signed /\ att'.logged /\ att'.pin = att.pin /\ gate'.pin = gate.pin
<1>3. ASSUME Stays PROVE LoginInv'
  BY <1>0, <1>2, <1>3
  DEF LoginInv, LoginTypeOK, Steps, NeverStale, SessionIsReal, CountIsTheGates, WordsShown, AttType, GateType
<1>4. ASSUME Outside PROVE LoginInv'
  BY <1>2, <1>4, OutsideHolds DEF LoginInv, LoginTypeOK, WordsShown
<1>5. CASE FetchSecret
  <2>1. CASE Refused(att)
    BY <1>0, <1>4, <1>5, <2>1, RefusedFacts DEF FetchSecret
  <2>2. CASE UNCHANGED <<step, gate>> /\ att' = Sign(blank)
    BY <1>0, <1>3, <1>1, <2>2, SignFacts
  <2> QED BY <1>0, <1>1, <1>5, <2>1, <2>2 DEF FetchSecret
<1>6. CASE TrickRequest
  <2>1. UNCHANGED <<step, att>> /\ gate' \in {gate, [gate EXCEPT !.secret = Nothing]}
    BY <1>0, <1>6 DEF TrickRequest
  <2>2. gate' \in GateType /\ Sane(gate') /\ gate'.pin = gate.pin
    BY <1>0, <2>1 DEF GateType, Sane
  <2> QED BY <1>0, <1>3, <2>1, <2>2 DEF Fits
<1>7. CASE AuthorizeFirmware \/ Greenlight
  <2>1. /\ att' \in {att, aimed} /\ UNCHANGED gate
        /\ step' \in {"in", "bricked", "failed"}
    BY <1>0, <1>1, <1>7 DEF AuthorizeFirmware, Greenlight, Fits, Refused
  <2>2. CASE step' = "in"
    BY <1>0, <1>3, <1>1, <2>1, <2>2 DEF Fits
  <2>3. CASE step' # "in"
    BY <1>0, <1>4, <1>1, <2>1, <2>3 DEF Outside, Steps
  <2> QED BY <2>1, <2>2, <2>3
<1>8. ASSUME NEW s \in Secrets, SetSecret(s) PROVE LoginInv'
  <2> DEFINE kept == [gate EXCEPT !.secret = s]
             out == [blank EXCEPT !.logged = FALSE]
  <2>1. kept \in GateType /\ Sane(kept) /\ kept.pin = gate.pin /\ out \in AttType
    BY <1>0, <1>1 DEF GateType, Sane, AttType
  <2>2. CASE step' = "in" /\ att' = blank /\ gate' = kept
    BY <1>0, <1>3, <1>1, <2>1, <2>2 DEF Fits
  <2>3. CASE Restart(out, kept)
    BY <1>4, <2>1, <2>3, RestartFacts
  <2>4. CASE Refused(blank) /\ UNCHANGED gate
    BY <1>0, <1>4, <1>1, <2>4, RefusedFacts
  <2> QED BY <1>0, <1>1, <1>8, <2>2, <2>3, <2>4 DEF SetSecret
<1> QED BY <1>5, <1>6, <1>7, <1>8

-----------------------------------------------------------------------------
LEMMA LoginStarts == ASSUME LoginAssumption, LoginInit PROVE LoginInv
<1>1. Fresh \in AttType
  BY DEF Fresh, AttType, LoginAssumption
<1>2. gate \in GateType /\ Sane(gate)
  BY DEF LoginInit, GateType, Sane, LoginAssumption
<1> QED BY <1>1, <1>2
  DEF LoginInit, LoginInv, LoginTypeOK, Steps, NeverStale, SessionIsReal, CountIsTheGates, WordsShown,
      AttType, GateType

LEMMA LoginStep == ASSUME LoginAssumption, LoginInv, [LoginNext]_loginVars PROVE LoginInv'
<1>1. CASE UNCHANGED loginVars
  BY <1>1 DEF loginVars, LoginInv, LoginTypeOK, NeverStale, SessionIsReal, CountIsTheGates, WordsShown, Sane
<1>2. CASE LoginNext
  BY <1>2, NewHolds, PrefixHolds, WordsHold, AttemptHolds, ChangesHold, ClearHolds, SessionHolds
  DEF LoginNext
<1> QED BY <1>1, <1>2

(* The invariant behind the four theorems below holds throughout. *)
THEOREM LoginInvariant == LoginSpec => []LoginInv
<1>1. LoginInit => LoginInv
  BY LoginAssumption, LoginStarts
<1>2. LoginInv /\ [LoginNext]_loginVars => LoginInv'
  BY LoginAssumption, LoginStep
<1> QED BY <1>1, <1>2, PTL DEF LoginSpec

(* Types, and that the struct never holds a wallet secret between calls. *)
THEOREM LoginTypes == LoginSpec => []LoginTypeOK
<1>1. LoginInv => LoginTypeOK
  BY DEF LoginInv
<1> QED BY <1>1, LoginInvariant, PTL

(* No order of calls hands the gate a struct it would refuse (attempt, change,
   fetch_secret and the other calls of a session). *)
THEOREM LoginNeverStale == LoginSpec => []NeverStale
<1>1. LoginInv => NeverStale
  BY DEF LoginInv
<1> QED BY <1>1, LoginInvariant, PTL

(* A session is of the device's PIN or a trick's, whatever was called before and
   whatever failed. *)
THEOREM LoginSessionIsReal == LoginSpec => []SessionIsReal
<1>1. LoginInv => SessionIsReal
  BY DEF LoginInv
<1> QED BY <1>1, LoginInvariant, PTL

(* The attempts left that a wrong PIN shows are the gate's, for any number of
   attempts. *)
THEOREM LoginCount == LoginSpec => []CountIsTheGates
<1>1. LoginInv => CountIsTheGates
  BY DEF LoginInv
<1> QED BY <1>1, LoginInvariant, PTL

-----------------------------------------------------------------------------
(* Pairing. *)

(* Every silent key is counted, or pending. *)
Counted ==
  /\ silent <= guard.abandoned + (IF guard.pending THEN 1 ELSE 0)
  /\ guard.locked => ~guard.pending
  /\ guard.abandoned >= ABANDON_LIMIT => guard.locked

PairInv == TypeOK /\ Counted /\ OneAtATime

(* Dropping or replacing a handshake counts it, and blocks at the limit. *)
LEMMA DroppedCounts ==
  ASSUME NEW g \in Guards, g.locked => ~g.pending,
         g.abandoned >= ABANDON_LIMIT => g.locked
  PROVE  /\ Dropped(g) \in Guards /\ Replacing(g) = Dropped(g)
         /\ ~Dropped(g).pending
         /\ Dropped(g).abandoned = g.abandoned + (IF g.pending THEN 1 ELSE 0)
         /\ Dropped(g).abandoned >= ABANDON_LIMIT => Dropped(g).locked
         /\ g.locked => Dropped(g) = g
<1>1. CASE ~g.pending
  <2>1. Dropped(g) = g /\ Replacing(g) = g
    BY <1>1 DEF Dropped, Replacing
  <2>2. g.abandoned + 0 = g.abandoned
    BY PairingAssumption DEF Guards
  <2> QED BY <1>1, <2>1, <2>2
<1>2. CASE g.pending
  <2>0. g.abandoned \in 0 .. ABANDON_LIMIT /\ g.cooldown \in 0 .. ATTEMPT_COOLDOWN
        /\ g.locked \in BOOLEAN
    BY DEF Guards
  <2>2. ~g.locked /\ g.abandoned < ABANDON_LIMIT /\ g.abandoned \in Nat
    BY <1>2, <2>0, PairingAssumption
  <2>1. Dropped(g) = Abandon(g) /\ Replacing(g) = Abandon(g)
    BY <1>2 DEF Dropped, Replacing
  <2>3. /\ Abandon(g).abandoned = g.abandoned + 1 /\ ~Abandon(g).pending
        /\ Abandon(g).locked <=> g.locked \/ g.abandoned + 1 >= ABANDON_LIMIT
    BY DEF Abandon
  <2>5. g.abandoned + 1 \in 0 .. ABANDON_LIMIT
    BY <2>0, <2>2, PairingAssumption
  <2>6. Abandon(g) \in Guards
    BY <2>0, <2>5 DEF Guards, Abandon
  <2>7. Abandon(g).abandoned >= ABANDON_LIMIT => Abandon(g).locked
    BY <2>3
  <2>8. Dropped(g).abandoned = g.abandoned + (IF g.pending THEN 1 ELSE 0)
    BY <1>2, <2>1, <2>3
  <2>9. ~Dropped(g).pending /\ (Dropped(g).abandoned >= ABANDON_LIMIT => Dropped(g).locked)
    BY <2>1, <2>3, <2>7
  <2>10. Dropped(g) \in Guards /\ Replacing(g) = Dropped(g)
    BY <2>1, <2>6
  <2>11. g.locked => Dropped(g) = g
    BY <2>2
  <2> QED BY <2>8, <2>9, <2>10, <2>11
<1> QED BY <1>1, <1>2

LEMMA PairInit == Init => PairInv
<1> SUFFICES ASSUME Init PROVE PairInv
  OBVIOUS
<1>1. session \in Sessions /\ guard \in Guards /\ screen \in Screens /\ pc = "keys"
      /\ key = "none" /\ showingPair = {} /\ showingBlocked = {} /\ prompts = 0
      /\ silent = 0 /\ unlocked = FALSE /\ handshake = FALSE /\ declined = FALSE
  <2>1. 0 \in 0 .. MaxPrompts /\ 0 \in 0 .. PROMPT - 1
        /\ 0 \in 0 .. ATTEMPT_COOLDOWN /\ 0 \in 0 .. ABANDON_LIMIT
    BY PairingAssumption
  <2> QED BY <2>1 DEF Init, Closed, Sessions, Guards, Screens, Screen
<1>2. TypeOK
  <2>1. 0 \in 0 .. MaxPrompts /\ 0 \in Nat
    BY PairingAssumption
  <2> QED BY <1>1, <2>1, Zenon DEF TypeOK, Presses
<1>3. Counted
  BY PairingAssumption DEF Init, Counted
<1>4. OneAtATime
  BY DEF Init, OneAtATime, Closed, IsOpen
<1> QED BY <1>2, <1>3, <1>4 DEF PairInv

(* The steps of the USB task keep the types. *)
LEMMA HostTypes ==
  ASSUME TypeOK, Counted, Unlock \/ Host \/ Tick
  PROVE  TypeOK'
<1> USE DEF Sessions
<1>d. Dropped(guard) \in Guards /\ Replacing(guard) \in Guards
  BY DroppedCounts DEF TypeOK, Counted
<1>e. Charged(guard) \in Guards
  BY <1>d, PairingAssumption DEF Charged, Guards
<1>c. Closed \in Sessions
  BY PairingAssumption DEF Closed
<1>u. UNCHANGED ui
  BY DEF Unlock, Host, Tick, PairCommit, PairCommitFails, PairCommitBlocks, PairReveal,
         PairRevealBad, HostGone, Confirm, TornDown
<1> SUFFICES /\ unlocked' \in BOOLEAN /\ handshake' \in BOOLEAN /\ declined' \in BOOLEAN
             /\ session' \in Sessions /\ guard' \in Guards
             /\ prompts' \in 0 .. MaxPrompts /\ silent' \in Nat
  BY <1>u DEF TypeOK, ui
<1>1. CASE Unlock
  BY <1>1 DEF Unlock, TypeOK
<1>2. CASE PairCommit
  <2>1. guard' \in Guards
    BY <1>2, <1>c, <1>e DEF PairCommit
  <2>2. silent' \in Nat
    BY <1>2 DEF PairCommit, TypeOK
  <2> QED BY <1>2, <2>1, <2>2, <1>c DEF PairCommit, TypeOK
<1>3. CASE PairCommitFails
  <2>1. guard' \in Guards
    BY <1>3, <1>e DEF PairCommitFails
  <2> QED BY <1>3, <2>1 DEF PairCommitFails, TypeOK
<1>4. CASE PairCommitBlocks
  BY <1>4, <1>d DEF PairCommitBlocks, TypeOK
<1>5. CASE PairReveal
  <2>1. guard' \in Guards
    BY <1>5 DEF PairReveal, TypeOK, Guards
  <2>2. prompts' \in 0 .. MaxPrompts
    BY <1>5, PairingAssumption DEF PairReveal, TypeOK
  <2>3. session' \in Sessions
    BY <1>5, <1>c, <2>2 DEF PairReveal, Opened, Closed
  <2>4. silent' \in Nat
    BY <1>5 DEF PairReveal, TypeOK
  <2> QED BY <1>5, <2>1, <2>2, <2>3, <2>4 DEF PairReveal, TypeOK, Taken
<1>6. CASE PairRevealBad
  BY <1>6, <1>d DEF PairRevealBad, TypeOK, Taken
<1>7. CASE HostGone
  BY <1>7, <1>d, <1>c DEF HostGone, TypeOK
<1>8. CASE Confirm
  <2>1. session' \in Sessions
    BY <1>8 DEF Confirm, TypeOK
  <2>2. Completed(guard) \in Guards
    BY PairingAssumption DEF Completed, TypeOK, Guards
  <2> QED BY <1>8, <2>1, <2>2 DEF Confirm, TypeOK
<1>9. CASE TornDown
  BY <1>9, <1>c DEF TornDown, TypeOK
<1>10. CASE Tick
  <2>1. guard' \in Guards
    <3>1. (IF guard.cooldown = 0 THEN 0 ELSE guard.cooldown - 1) \in 0 .. ATTEMPT_COOLDOWN
      BY PairingAssumption DEF TypeOK, Guards
    <3> QED BY <1>10, <3>1 DEF Tick, TypeOK, Guards
  <2>2. CASE ~Waits(session) \/ TimesOut(session)
    <3>1. session' \in Sessions
      BY <1>10, <2>2, <1>c DEF Tick, TypeOK
    <3> QED BY <1>10, <2>1, <3>1 DEF Tick, TypeOK
  <2>3. CASE Waits(session) /\ ~TimesOut(session)
    <3>1. session.waited + 1 \in 0 .. PROMPT - 1
      BY <2>3, PairingAssumption DEF TimesOut, TypeOK
    <3>2. session' = [session EXCEPT !.waited = session.waited + 1]
      BY <1>10, <2>3 DEF Tick
    <3>3. session' \in Sessions
      BY <3>1, <3>2 DEF TypeOK
    <3> QED BY <1>10, <2>1, <3>3 DEF Tick, TypeOK
  <2> QED BY <2>2, <2>3
<1> QED BY <1>1, <1>2, <1>3, <1>4, <1>5, <1>6, <1>7, <1>8, <1>9, <1>10 DEF Host

UiStep == ReadKeys \/ OtherQuestion \/ CheckBlocked \/ CheckPair \/ HandleOther

(* The steps of the menu loop that only look keep the types. *)
LEMMA UiTypes ==
  ASSUME TypeOK, UiStep
  PROVE  TypeOK'
<1>u. UNCHANGED usb
  BY DEF UiStep, ReadKeys, OtherQuestion, CheckBlocked, CheckPair, HandleOther, usb
<1>m. \A what \in {"menu", "other", "blocked"} : Screen(what) \in Screens
  BY DEF Screens, Screen
<1> SUFFICES /\ pc' \in {"keys", "blocked", "pair", "handle"} /\ key' \in Presses
             /\ showingPair' \subseteq 1 .. MaxPrompts
             /\ showingBlocked' \subseteq 0 .. ABANDON_LIMIT
             /\ screen' \in Screens
  BY <1>u DEF TypeOK, usb
<1>1. CASE ReadKeys
  <2>1. Drawn \in Screens
    BY <1>m DEF Drawn, TypeOK
  <2> QED BY <1>1, <2>1 DEF ReadKeys, TypeOK
<1>2. CASE OtherQuestion
  BY <1>2, <1>m DEF OtherQuestion, TypeOK, Presses
<1>3. CASE CheckBlocked
  <2>1. Blocked(guard) \subseteq 0 .. ABANDON_LIMIT
    BY DEF Blocked, TypeOK, Guards
  <2> QED BY <1>3, <2>1, <1>m DEF CheckBlocked, TypeOK
<1>4. CASE CheckPair
  <2>1. Prompt(session) \subseteq 1 .. MaxPrompts
    BY PairingAssumption DEF Prompt, IsOpen, TypeOK, Sessions
  <2>2. \A id \in 1 .. MaxPrompts : CodeOf(id) \in Screens
    BY DEF CodeOf, Screens
  <2>3. showingPair' = Prompt(session)
    BY <1>4 DEF CheckPair, PromptNow
  <2>4. screen' = screen \/ \E id \in Prompt(session) : screen' = CodeOf(id)
    BY <1>4, <2>3 DEF CheckPair
  <2> QED BY <1>4, <2>1, <2>2, <2>3, <2>4 DEF CheckPair, TypeOK
<1>5. CASE HandleOther
  BY <1>5 DEF HandleOther, TypeOK, Presses
<1> QED BY <1>1, <1>2, <1>3, <1>4, <1>5 DEF UiStep

(* What an answer may do. *)
LEMMA AnswerCases ==
  ASSUME NEW id, Answer(id)
  PROVE  \/ UNCHANGED <<session, declined, guard, silent>>
         \/ /\ session' = [session EXCEPT !.accepted = TRUE] /\ key = "yes"
            /\ IsWaiting(session, id) /\ UNCHANGED declined
            /\ \/ guard' = Completed(guard) /\ silent' = 0
               \/ UNCHANGED <<guard, silent>>
         \/ /\ IsWaiting(session, id) /\ session' = Closed /\ declined' = TRUE
            /\ UNCHANGED <<guard, silent>>
<1>1. CASE ~IsWaiting(session, id)
  BY <1>1 DEF Answer
<1>2. CASE IsWaiting(session, id) /\ key = "yes"
  BY <1>2 DEF Answer
<1>3. CASE IsWaiting(session, id) /\ key # "yes"
  BY <1>3 DEF Answer
<1> QED BY <1>1, <1>2, <1>3

(* So do the steps that act on a key. *)
LEMMA ActTypes ==
  ASSUME TypeOK, Dismiss \/ HandleAnswer
  PROVE  TypeOK'
<1>c. Completed(guard) \in Guards
  BY PairingAssumption DEF Completed, TypeOK, Guards
<1>d. Dismissed(guard) \in Guards
  BY <1>c DEF Dismissed, Guards
<1>1. CASE Dismiss
  BY <1>1, <1>d DEF Dismiss, TypeOK, Presses
<1>2. CASE HandleAnswer
  <2>1. PICK id \in showingPair : Answer(id)
    BY <1>2 DEF HandleAnswer
  <2>2. Closed \in Sessions
    BY PairingAssumption DEF Closed, Sessions
  <2>a. [session EXCEPT !.accepted = TRUE] \in Sessions
    BY DEF Sessions, TypeOK
  <2>3. session' \in Sessions
    BY <2>1, <2>2, <2>a, AnswerCases DEF TypeOK
  <2>4. declined' \in BOOLEAN
    BY <2>1, AnswerCases DEF TypeOK
  <2>5. guard' \in Guards
    BY <2>1, <1>c, AnswerCases DEF TypeOK
  <2>6. silent' \in Nat
    <3>1. silent' = silent \/ silent' = 0
      BY <2>1, AnswerCases, Zenon
    <3> QED BY <3>1 DEF TypeOK
  <2> QED BY <1>2, <2>3, <2>4, <2>5, <2>6 DEF HandleAnswer, TypeOK, Presses
<1> QED BY <1>1, <1>2

LEMMA TypeStep == TypeOK /\ Counted /\ [Next]_vars => TypeOK'
<1> SUFFICES ASSUME TypeOK, Counted, [Next]_vars PROVE TypeOK'
  OBVIOUS
<1>1. CASE UNCHANGED vars
  BY <1>1 DEF vars, usb, ui, TypeOK
<1> QED BY <1>1, HostTypes, UiTypes, ActTypes DEF Next, UiStep

(* Every step keeps the count of silent keys covered by the guard. *)
LEMMA CountedStep == TypeOK /\ Counted /\ [Next]_vars => Counted'
<1> SUFFICES ASSUME TypeOK, Counted, [Next]_vars PROVE Counted'
  OBVIOUS
<1>t. guard \in Guards /\ silent \in Nat /\ guard.abandoned \in Nat
      /\ ABANDON_LIMIT \in Nat /\ ABANDON_LIMIT > 0
  BY PairingAssumption DEF TypeOK, Guards
<1>d. /\ Dropped(guard) \in Guards /\ Replacing(guard) = Dropped(guard)
      /\ ~Dropped(guard).pending
      /\ Dropped(guard).abandoned = guard.abandoned + (IF guard.pending THEN 1 ELSE 0)
      /\ Dropped(guard).abandoned >= ABANDON_LIMIT => Dropped(guard).locked
  BY <1>t, DroppedCounts DEF Counted
<1>a. ASSUME guard' = Dropped(guard), silent' = silent PROVE Counted'
  BY <1>a, <1>d, <1>t DEF Counted, Guards
<1>b. ASSUME UNCHANGED <<guard, silent>> PROVE Counted'
  BY <1>b DEF Counted
<1>c. ASSUME guard' = Completed(guard), silent' = 0 PROVE Counted'
  <2>1. guard'.abandoned = 0 /\ (guard'.locked <=> guard.locked)
        /\ (guard'.pending <=> guard.pending)
    BY <1>c, <1>t DEF Completed, Guards
  <2> QED BY <1>c, <2>1, <1>t DEF Counted
<1>1. CASE PairCommit \/ PairCommitFails
  <2>1. guard' = Charged(guard) /\ (silent' = silent + 1 \/ silent' = silent)
        /\ ~Dropped(guard).locked
    BY <1>1, <1>d DEF PairCommit, PairCommitFails
  <2>2. guard'.pending /\ guard'.abandoned = Dropped(guard).abandoned
        /\ (guard'.locked <=> Dropped(guard).locked)
    BY <2>1, <1>d DEF Charged
  <2>3. silent <= Dropped(guard).abandoned
    BY <1>d DEF Counted
  <2>4. Dropped(guard).abandoned \in Nat /\ silent' <= guard'.abandoned + 1
    BY <1>t, <1>d, <2>1, <2>2, <2>3 DEF Guards
  <2> QED BY <1>d, <2>1, <2>2, <2>4 DEF Counted
<1>2. CASE PairCommitBlocks \/ PairRevealBad
  BY <1>2, <1>a, <1>d DEF PairCommitBlocks, PairRevealBad
<1>3. CASE HostGone
  BY <1>3, <1>a, <1>b DEF HostGone
<1>4. CASE PairReveal
  <2>1. guard'.pending = FALSE /\ guard'.abandoned = guard.abandoned
        /\ (guard'.locked <=> guard.locked)
    BY <1>4, <1>t DEF PairReveal, Guards
  <2>2. silent' <= guard.abandoned
    BY <1>4, <1>t DEF PairReveal, Counted
  <2> QED BY <2>1, <2>2, <1>t DEF Counted
<1>5. CASE Confirm
  BY <1>5, <1>b, <1>c DEF Confirm
<1>6. CASE Tick
  <2>1. (guard'.pending <=> guard.pending) /\ guard'.abandoned = guard.abandoned
        /\ (guard'.locked <=> guard.locked)
    BY <1>6, <1>t DEF Tick, Guards
  <2> QED BY <1>6, <2>1, <1>t DEF Counted, Tick
<1>7. CASE Dismiss
  <2>1. Completed(guard).abandoned = 0 /\ guard' = [Completed(guard) EXCEPT !.locked = FALSE]
        /\ Completed(guard) \in Guards
    BY <1>7, <1>t DEF Dismiss, Dismissed, Completed, Guards
  <2>2. guard'.abandoned = 0 /\ ~guard'.locked
    BY <2>1 DEF Guards
  <2> QED BY <1>7, <2>2, <1>t DEF Dismiss, Counted
<1>8. CASE HandleAnswer
  BY <1>8, <1>b, <1>c, AnswerCases DEF HandleAnswer
<1>9. CASE Unlock \/ TornDown \/ UiStep \/ UNCHANGED vars
  BY <1>9, <1>b DEF Unlock, TornDown, UiStep, ReadKeys, OtherQuestion, CheckBlocked, CheckPair,
                    HandleOther, usb, vars
<1> QED BY <1>1, <1>2, <1>3, <1>4, <1>5, <1>6, <1>7, <1>8, <1>9 DEF Next, Host, UiStep

(* Every step keeps handshake, session and refusal apart. *)
LEMMA OneStep == TypeOK /\ OneAtATime /\ [Next]_vars => OneAtATime'
<1> SUFFICES ASSUME TypeOK, OneAtATime, [Next]_vars PROVE OneAtATime'
  OBVIOUS
<1>c. ~IsOpen(Closed)
  BY DEF IsOpen, Closed
<1>s. session \in Sessions
  BY DEF TypeOK
<1>1. CASE PairCommit
  BY <1>1, <1>c DEF PairCommit, OneAtATime
<1>2. CASE PairReveal
  BY <1>2 DEF PairReveal, OneAtATime, Taken
<1>3. CASE PairRevealBad \/ HostGone \/ TornDown
  BY <1>3, <1>c DEF PairRevealBad, HostGone, TornDown, OneAtATime, Taken
<1>4. CASE Confirm
  <2>1. session'.id = session.id
    BY <1>4, <1>s DEF Confirm, Sessions
  <2> QED BY <1>4, <2>1 DEF Confirm, OneAtATime, IsOpen
<1>5. CASE Tick
  <2>1. session' = Closed \/ session'.id = session.id
    BY <1>5, <1>s DEF Tick, Sessions
  <2> QED BY <1>5, <1>c, <2>1 DEF Tick, OneAtATime, IsOpen
<1>6. CASE HandleAnswer
  <2>1. PICK id \in showingPair : Answer(id)
    BY <1>6 DEF HandleAnswer
  <2>2. CASE UNCHANGED <<session, declined>>
    BY <1>6, <2>2 DEF HandleAnswer, OneAtATime
  <2>3. CASE session' = [session EXCEPT !.accepted = TRUE] /\ UNCHANGED declined
    <3>1. session'.id = session.id
      BY <2>3, <1>s DEF Sessions
    <3> QED BY <1>6, <2>3, <3>1 DEF HandleAnswer, OneAtATime, IsOpen
  <2>4. CASE IsWaiting(session, id) /\ session' = Closed
    <3>1. IsOpen(session)
      BY <2>4 DEF IsWaiting, Prompt
    <3> QED BY <1>6, <2>4, <3>1, <1>c DEF HandleAnswer, OneAtATime
  <2> QED BY <2>1, <2>2, <2>3, <2>4, AnswerCases
<1>7. CASE Unlock \/ PairCommitFails \/ PairCommitBlocks \/ Dismiss \/ UiStep \/ UNCHANGED vars
  BY <1>7 DEF Unlock, PairCommitFails, PairCommitBlocks, Dismiss, UiStep, ReadKeys,
              OtherQuestion, CheckBlocked, CheckPair, HandleOther, OneAtATime, usb, vars
<1> QED BY <1>1, <1>2, <1>3, <1>4, <1>5, <1>6, <1>7 DEF Next, Host, UiStep

LEMMA PairInvariant == Spec => []PairInv
<1>1. PairInv /\ [Next]_vars => PairInv'
  BY TypeStep, CountedStep, OneStep DEF PairInv
<1> QED BY <1>1, PairInit, PTL DEF Spec

(* The state is well typed. *)
THEOREM PairingTypeOK == Spec => []TypeOK
<1>1. PairInv => TypeOK
  BY DEF PairInv
<1> QED BY <1>1, PairInvariant, PTL

(* A host gets at most ABANDON_LIMIT device keys without a reveal, whatever it
   does between them, before the person acts or a pairing completes. *)
THEOREM PairingSilentBounded == Spec => []SilentBounded
<1>1. PairInv => SilentBounded
  <2> SUFFICES ASSUME PairInv PROVE silent <= ABANDON_LIMIT
    BY DEF SilentBounded
  <2>1. guard.abandoned \in Nat /\ guard.abandoned <= ABANDON_LIMIT /\ silent \in Nat
        /\ ABANDON_LIMIT \in Nat
    BY PairingAssumption DEF PairInv, TypeOK, Guards
  <2>2. CASE guard.pending
    <3>1. ~(guard.abandoned >= ABANDON_LIMIT) /\ silent <= guard.abandoned + 1
      BY <2>2 DEF PairInv, Counted
    <3> QED BY <2>1, <3>1
  <2>3. CASE ~guard.pending
    <3>1. silent <= guard.abandoned
      BY <2>1, <2>3 DEF PairInv, Counted
    <3> QED BY <2>1, <3>1
  <2> QED BY <2>2, <2>3
<1> QED BY <1>1, PairInvariant, PTL

(* A handshake, a session and a refusal are never there together. *)
THEOREM PairingOneAtATime == Spec => []OneAtATime
<1>1. PairInv => OneAtATime
  BY DEF PairInv
<1> QED BY <1>1, PairInvariant, PTL

(* A session is accepted only by a yes handled while its own prompt is up. *)
THEOREM PairingYesIsForItsPrompt == Spec => YesIsForItsPrompt
<1> DEFINE Yes == session'.accepted /\ ~session.accepted =>
                    session'.id \in showingPair /\ key = "yes"
<1>1. TypeOK /\ Next => Yes
  <2> SUFFICES ASSUME TypeOK, Next, session'.accepted, ~session.accepted
               PROVE  session'.id \in showingPair /\ key = "yes"
    OBVIOUS
  <2>s. session \in Sessions /\ ~Closed.accepted
    BY DEF TypeOK, Closed
  <2>1. CASE Host \/ Tick
    <3>1. CASE session' = session \/ session' = Closed
      BY <3>1, <2>s
    <3>2. CASE session' = Opened(prompts + 1)
      BY <3>2 DEF Opened, Closed
    <3>3. CASE session' = [session EXCEPT !.confirmed = TRUE]
      BY <3>3, <2>s DEF Sessions
    <3>4. CASE session' = [session EXCEPT !.waited = session.waited + 1]
      BY <3>4, <2>s DEF Sessions
    <3> QED BY <2>1, <3>1, <3>2, <3>3, <3>4
            DEF Host, Tick, PairCommit, PairCommitFails, PairCommitBlocks, PairReveal,
                PairRevealBad, HostGone, Confirm, TornDown
  <2>2. CASE HandleAnswer
    <3>1. PICK id \in showingPair : Answer(id)
      BY <2>2 DEF HandleAnswer
    <3>2. session' # session /\ session' # Closed
      BY <2>s
    <3>3. session' = [session EXCEPT !.accepted = TRUE] /\ key = "yes" /\ IsWaiting(session, id)
      BY <3>1, <3>2, AnswerCases
    <3>4. session'.id = session.id /\ id = session.id
      BY <3>3, <2>s DEF Sessions, IsWaiting, Prompt
    <3> QED BY <3>3, <3>4
  <2>3. CASE Unlock \/ Dismiss \/ UiStep
    BY <2>3 DEF Unlock, Dismiss, UiStep, ReadKeys, OtherQuestion, CheckBlocked, CheckPair,
                HandleOther, usb
  <2> QED BY <2>1, <2>2, <2>3 DEF Next, UiStep
<1>2. TypeOK /\ [Next]_vars => [Yes]_vars
  BY <1>1
<1> QED BY <1>2, PairingTypeOK, PTL DEF Spec, YesIsForItsPrompt
=============================================================================
