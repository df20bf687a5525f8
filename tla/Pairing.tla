------------------------------ MODULE Pairing -------------------------------
(* Pairing a computer over USB: the handshake and its limits (catcard-usb,
   ncry.rs), the USB task that serves it (catcard-fw, usbtask.rs) and the menu
   loop of the UI task that shows the code and takes the answer (menu.rs).

   The USB task and the UI task interleave; every access to the USB task's
   state is one step (with_task holds the scheduler lock), but the menu loop
   makes several of them in one pass.  The host does anything in any order.

   Keys, records and codes are left out beyond whose they are: a code is the
   number of its prompt, which is also the channel's id (both count reveals).
   The clock and the random source are there (recovery, without them, refuses
   to pair); an upgrade offer, which hides both screens, is not modelled. *)
EXTENDS Naturals

CONSTANTS
  ABANDON_LIMIT,      \* handshakes dropped unrevealed before pairing is blocked
  ATTEMPT_COOLDOWN,   \* ticks between two device keys
  PROMPT,             \* ticks a session may stay unpaired
  MaxPrompts          \* bound: codes shown in a run

ASSUME PairingAssumption ==
  /\ ABANDON_LIMIT \in Nat \ {0} /\ ATTEMPT_COOLDOWN \in Nat
  /\ PROMPT \in Nat \ {0} /\ MaxPrompts \in Nat

VARIABLES
  unlocked,       \* UsbTask.unlocked: the PIN was entered
  handshake,      \* UsbTask.handshake: a device key is out
  session,        \* UsbTask.chan, as a record; its id is 0 when closed
  prompts,        \* UsbTask.pair_id: the prompts so far
  declined,       \* UsbTask.pair_declined
  guard,          \* UsbTask.pair_guard, as a record
  silent,         \* history: device keys handed out and not revealed since the
                  \* person last dismissed a block or a pairing completed
  pc,             \* the menu loop: what its pass does next
  key,            \* the key read in this pass
  showingPair,    \* showing_pair: {} or {id}
  showingBlocked, \* showing_blocked: {} or {count}
  screen          \* what is on the panel

usb == <<unlocked, handshake, session, prompts, declined, guard, silent>>
ui == <<pc, key, showingPair, showingBlocked, screen>>
vars == <<usb, ui>>

Closed == [id |-> 0, accepted |-> FALSE, confirmed |-> FALSE, waited |-> 0]
Paired(s) == s.accepted /\ s.confirmed
IsOpen(s) == s.id # 0

Screens == [shows : {"menu", "other", "blocked"}, id : {0}] \cup [shows : {"code"}, id : 1 .. MaxPrompts]
Screen(what) == [shows |-> what, id |-> 0]
Presses == {"none", "yes", "no"}
CodeOf(id) == [shows |-> "code", id |-> id]

-----------------------------------------------------------------------------
(* PairGuard. *)

Abandon(g) == [cooldown |-> g.cooldown, pending |-> FALSE, abandoned |-> g.abandoned + 1,
               locked |-> g.locked \/ g.abandoned + 1 >= ABANDON_LIMIT]

(* Mutant: only a replaced handshake counts. *)
Uncounted(g) == [g EXCEPT !.pending = FALSE]
Dropped(g) == IF g.pending THEN Abandon(g) ELSE g

(* begin, up to the block it may run into itself. *)
Replacing(g) == IF g.pending THEN Abandon(g) ELSE g
(* The rest of begin: a key is out. *)
Charged(g) == [cooldown |-> ATTEMPT_COOLDOWN, pending |-> TRUE,
               abandoned |-> Replacing(g).abandoned, locked |-> Replacing(g).locked]

Completed(g) == [g EXCEPT !.abandoned = 0]
Dismissed(g) == [Completed(g) EXCEPT !.locked = FALSE]

(* Mutant: a block without a count is not reported. *)
BlockedWithCount(g) == IF g.locked /\ g.abandoned > 0 THEN {g.abandoned} ELSE {}
(* locked: the count to show while pairing is blocked. *)
Blocked(g) == IF g.locked THEN {g.abandoned} ELSE {}

-----------------------------------------------------------------------------
(* Session and Channel. *)

Opened(id) == [Closed EXCEPT !.id = id]

(* Mutant: nothing is waited for once the person has said yes. *)
AwaitingUser(s) == IsOpen(s) /\ ~s.accepted
(* wait counts for a session that is not paired. *)
Waits(s) == IsOpen(s) /\ ~Paired(s)

(* wait: this tick is the last. *)
TimesOut(s) == s.waited + 1 >= PROMPT

(* pair_prompt: what is waiting for the person. *)
Prompt(s) == IF IsOpen(s) /\ ~s.accepted THEN {s.id} ELSE {}

(* Mutant: whatever is waiting is answered. *)
AnyPrompt(s, id) == Prompt(s) # {}
(* pair_answer: an answer to another prompt changes nothing. *)
IsWaiting(s, id) == id \in Prompt(s)

-----------------------------------------------------------------------------
(* The USB task, serving the host. *)

(* What is left of the handshake after a reveal, good or bad. *)
Taken == FALSE

Unlock ==
  /\ ~unlocked /\ unlocked' = TRUE
  /\ UNCHANGED <<handshake, session, prompts, declined, guard, silent, ui>>

MayBegin == unlocked /\ ~Waits(session) /\ ~guard.locked /\ guard.cooldown = 0

(* pair_commit: a device key is handed out, ending the session there was. *)
PairCommit ==
  /\ MayBegin /\ ~Replacing(guard).locked
  /\ guard' = Charged(guard)
  /\ handshake' = TRUE /\ session' = Closed /\ declined' = FALSE /\ silent' = silent + 1
  /\ UNCHANGED <<unlocked, prompts, ui>>

(* pair_commit, charged, with a generator that fails. *)
PairCommitFails ==
  /\ MayBegin /\ ~Replacing(guard).locked
  /\ guard' = Charged(guard)
  /\ UNCHANGED <<unlocked, handshake, session, prompts, declined, silent, ui>>

(* pair_commit, refused because the handshake it would replace is one too many. *)
PairCommitBlocks ==
  /\ MayBegin /\ Replacing(guard).locked
  /\ guard' = Replacing(guard)
  /\ UNCHANGED <<unlocked, handshake, session, prompts, declined, silent, ui>>

(* pair_reveal, with the key that was committed to. *)
PairReveal ==
  /\ unlocked /\ handshake /\ prompts < MaxPrompts
  /\ handshake' = Taken
  /\ prompts' = prompts + 1 /\ session' = Opened(prompts + 1)
  /\ guard' = [guard EXCEPT !.pending = FALSE]
  /\ silent' = IF silent = 0 THEN 0 ELSE silent - 1
  /\ UNCHANGED <<unlocked, declined, ui>>

(* pair_reveal, with another key. *)
PairRevealBad ==
  /\ unlocked /\ handshake
  /\ handshake' = Taken
  /\ guard' = Dropped(guard)
  /\ UNCHANGED <<unlocked, session, prompts, declined, silent, ui>>

(* pair_abort, a bus reset, or the switch to another identity. *)
HostGone ==
  /\ handshake \/ IsOpen(session)
  /\ handshake' = FALSE /\ session' = Closed
  /\ guard' = IF handshake THEN Dropped(guard) ELSE guard
  /\ UNCHANGED <<unlocked, prompts, declined, silent, ui>>

(* A sealed PairConfirm. *)
Confirm ==
  /\ IsOpen(session)
  /\ session' = [session EXCEPT !.confirmed = TRUE]
  /\ IF session.accepted THEN guard' = Completed(guard) /\ silent' = 0
                         ELSE UNCHANGED <<guard, silent>>
  /\ UNCHANGED <<unlocked, handshake, prompts, declined, ui>>

(* A record that does not open, or a command before the session is paired. *)
TornDown ==
  /\ IsOpen(session) /\ session' = Closed
  /\ UNCHANGED <<unlocked, handshake, prompts, declined, guard, silent, ui>>

(* pair_tick. *)
Tick ==
  /\ guard.cooldown > 0 \/ Waits(session)
  /\ guard' = [guard EXCEPT !.cooldown = IF @ = 0 THEN 0 ELSE @ - 1]
  /\ session' = IF ~Waits(session) THEN session
                ELSE IF TimesOut(session) THEN Closed
                ELSE [session EXCEPT !.waited = @ + 1]
  /\ UNCHANGED <<unlocked, handshake, prompts, declined, silent, ui>>

-----------------------------------------------------------------------------
(* The menu loop, after the PIN.  A pass draws the menu when nothing else is
   up, reads the keys, looks for a block, then for a code, then handles the
   keys. *)

Drawn == IF showingPair = {} /\ showingBlocked = {} THEN Screen("menu") ELSE screen

ReadKeys ==
  /\ unlocked /\ pc = "keys"
  /\ screen' = Drawn
  /\ key' \in Presses
  /\ pc' = "blocked"
  /\ UNCHANGED <<usb, showingPair, showingBlocked>>

(* Another question takes the screen (a security key's, a computer's) in a flow
   of its own; the keys read are dropped and the loop starts over. *)
OtherQuestion ==
  /\ pc = "blocked"
  /\ screen' = Screen("other") /\ key' = "none" /\ pc' = "keys"
  /\ UNCHANGED <<usb, showingPair, showingBlocked>>

CheckBlocked ==
  /\ pc = "blocked"
  /\ showingBlocked' = IF showingPair = {} THEN Blocked(guard) ELSE {}
  /\ screen' = IF showingBlocked' # {} /\ showingBlocked' # showingBlocked
               THEN Screen("blocked") ELSE screen
  /\ pc' = "pair"
  /\ UNCHANGED <<usb, key, showingPair>>

(* Mutant: a prompt is taken off the screen by the next one alone. *)
PromptOrLast == IF Prompt(session) = {} THEN showingPair ELSE Prompt(session)
(* What showing_pair becomes. *)
PromptNow == Prompt(session)

CheckPair ==
  /\ pc = "pair"
  /\ showingPair' = PromptNow
  /\ screen' = IF showingPair' # showingPair /\ showingPair' # {}
               THEN CodeOf(CHOOSE id \in showingPair' : TRUE) ELSE screen
  /\ pc' = "handle"
  /\ UNCHANGED <<usb, key, showingBlocked>>

(* A key for the menu, or none. *)
HandleOther ==
  /\ pc = "handle"
  /\ key = "none" \/ (showingBlocked = {} /\ showingPair = {})
  /\ pc' = "keys" /\ key' = "none"
  /\ UNCHANGED <<usb, showingPair, showingBlocked, screen>>

(* Any answer to the block dismisses it. *)
Dismiss ==
  /\ pc = "handle" /\ key # "none" /\ showingBlocked # {}
  /\ guard' = Dismissed(guard) /\ silent' = 0
  /\ showingBlocked' = {} /\ pc' = "keys" /\ key' = "none"
  /\ UNCHANGED <<unlocked, handshake, session, prompts, declined, showingPair, screen>>

(* pair_answer. *)
Answer(id) ==
  CASE ~IsWaiting(session, id) -> UNCHANGED <<session, declined, guard, silent>>
    [] IsWaiting(session, id) /\ key = "yes" ->
         /\ session' = [session EXCEPT !.accepted = TRUE]
         /\ IF session.confirmed THEN guard' = Completed(guard) /\ silent' = 0
                                 ELSE UNCHANGED <<guard, silent>>
         /\ UNCHANGED declined
    [] OTHER -> session' = Closed /\ declined' = TRUE /\ UNCHANGED <<guard, silent>>

HandleAnswer ==
  /\ pc = "handle" /\ key # "none" /\ showingBlocked = {}
  /\ \E id \in showingPair : Answer(id)
  /\ showingPair' = {} /\ pc' = "keys" /\ key' = "none"
  /\ UNCHANGED <<unlocked, handshake, prompts, showingBlocked, screen>>

-----------------------------------------------------------------------------
Init ==
  /\ unlocked = FALSE /\ handshake = FALSE /\ session = Closed /\ prompts = 0
  /\ declined = FALSE /\ silent = 0
  /\ guard = [cooldown |-> 0, pending |-> FALSE, abandoned |-> 0, locked |-> FALSE]
  /\ pc = "keys" /\ key = "none" /\ showingPair = {} /\ showingBlocked = {}
  /\ screen = Screen("menu")

Host == \/ PairCommit \/ PairCommitFails \/ PairCommitBlocks
        \/ PairReveal \/ PairRevealBad \/ HostGone \/ Confirm \/ TornDown

Next == \/ Unlock \/ Host \/ Tick
        \/ ReadKeys \/ OtherQuestion \/ CheckBlocked \/ CheckPair
        \/ HandleOther \/ Dismiss \/ HandleAnswer

Spec == Init /\ [][Next]_vars

(* Time passes, and the menu loop runs.  Other questions do not come in every
   single pass. *)
Fairness ==
  /\ WF_vars(Tick) /\ WF_vars(ReadKeys) /\ SF_vars(CheckBlocked) /\ WF_vars(CheckPair)
  /\ WF_vars(HandleOther \/ Dismiss \/ HandleAnswer)
FairSpec == Spec /\ Fairness

-----------------------------------------------------------------------------
(* Properties. *)

Sessions == [id : 0 .. MaxPrompts, accepted : BOOLEAN, confirmed : BOOLEAN,
             waited : 0 .. PROMPT - 1]
Guards == [cooldown : 0 .. ATTEMPT_COOLDOWN, pending : BOOLEAN,
           abandoned : 0 .. ABANDON_LIMIT, locked : BOOLEAN]

TypeOK ==
  /\ unlocked \in BOOLEAN /\ handshake \in BOOLEAN /\ declined \in BOOLEAN
  /\ session \in Sessions /\ guard \in Guards
  /\ prompts \in 0 .. MaxPrompts /\ silent \in Nat
  /\ pc \in {"keys", "blocked", "pair", "handle"} /\ key \in Presses
  /\ showingPair \subseteq 1 .. MaxPrompts /\ showingBlocked \subseteq 0 .. ABANDON_LIMIT
  /\ screen \in Screens

(* However handshakes are replaced, aborted, revealed wrongly or cut off, no
   more than ABANDON_LIMIT device keys go out unrevealed before the person acts
   or a pairing completes (docs/USB.md, "at most three silent re-rolls"). *)
SilentBounded == silent <= ABANDON_LIMIT

(* A handshake and a session are never there together: there is one code, and
   nothing can replace it while it is read; and a no is reported for as long as
   nothing was started since (pair_commit, pair_reveal, pair_answer). *)
OneAtATime ==
  /\ ~(handshake /\ IsOpen(session))
  /\ declined => ~handshake /\ ~IsOpen(session)

(* A session is accepted by a yes handled while its own prompt was up, whatever
   ended, timed out or started between the steps of the menu loop's pass. *)
YesIsForItsPrompt ==
  [][session'.accepted /\ ~session.accepted =>
       /\ session'.id \in showingPair /\ key = "yes"]_vars

(* A session that is not paired ends, be it the person or the host that never
   answers (PROMPT_MS). *)
UnpairedEnds == \A id \in 1 .. MaxPrompts :
  session.id = id ~> session.id # id \/ Paired(session)

(* A code whose session is gone leaves the screen. *)
DeadCodeLeaves == \A id \in 1 .. MaxPrompts :
  screen = CodeOf(id) /\ session.id # id ~> screen # CodeOf(id)

(* A block comes in front of the person. *)
BlockGetsShown ==
  guard.locked /\ showingBlocked = {} ~> ~guard.locked \/ screen = Screen("blocked")
=============================================================================
