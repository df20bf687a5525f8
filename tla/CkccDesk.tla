------------------------------ MODULE CkccDesk ------------------------------
(* The ckcc USB mode (catcard-fw, ckcc.rs): a computer's requests arrive in
   reports at the USB task's Desk; some are answered there, some are held for
   the UI task, some start a job that is polled for.  The UI task takes one job
   at a time, asks the person -- or, in HSM mode, the policy -- and hands the
   answer back.  A bus reset may come at any moment.

   After login, on a board with PSRAM.  Bytes and keys are abstract: a request
   is its command.  Whatever else a request may be refused for -- its arguments,
   its encryption, a spending policy -- is a choice.  A firmware image among the
   uploads is Upgrade's, and what the HSM policy says is Hsm's. *)
EXTENDS Naturals

CONSTANTS
  Commands,   \* bound: the requests the computer makes, of those below
  MaxMsgs,    \* bound: messages it starts
  MaxResets,  \* bound: bus resets
  None

(* Answered later on the request itself; polled for; never asked after. *)
Held   == {"xpub", "hsms", "hsmu"}
Polled == {"stxn", "smsg", "pass"}
Quiet  == {"enrl", "logo"}
Jobs   == Held \cup Polled \cup Quiet
Polls  == [stok |-> "stxn", smok |-> "smsg", pwok |-> "pass"]
(* "hsms" starts HSM mode under the stored policy, "hsmu" under an uploaded one;
   "ping" stands for every request answered at once that changes nothing. *)
AllCommands == Jobs \cup DOMAIN Polls \cup {"ping", "upld"}
(* The HSM whitelist. *)
Listed == AllCommands \ {"hsms", "hsmu", "pass", "pwok", "enrl"}

ASSUME CkccAssumption ==
  /\ Commands \subseteq AllCommands
  /\ MaxMsgs \in Nat /\ MaxResets \in Nat
  /\ None \notin AllCommands

VARIABLES
  desk,   \* Desk: rx, dropping, buf, out, owed, upload, store, result, slot, ...
  ui,     \* the job serve() is at, and where in it
  hsm,    \* HSM_ACTIVE
  key,    \* the wallet in force: the stored one or a passphrase's
  heard,  \* messages the computer has started (history: the newest one's number)
  bus     \* bus sessions so far (history: whose a job, an upload, a result is)

vars == <<desk, ui, hsm, key, heard, bus>>

Messages == 1 .. MaxMsgs
Sessions == 1 .. MaxResets + MaxMsgs + 1      \* a logout starts one too

NoOwed == [ticket |-> 0, to |-> 0]
Idle   == [st |-> "idle", ticket |-> 0, job |-> None, from |-> 0]
Menu   == [at |-> "menu", ticket |-> 0, job |-> None, from |-> 0]

(* Desk::new.  0 is no reply going out, no file. *)
Fresh == [rx |-> None, dropping |-> FALSE, dead |-> FALSE, buf |-> FALSE,
          out |-> 0, owed |-> NoOwed, upload |-> "none", store |-> 0,
          result |-> 0, slot |-> Idle, tickets |-> 0, known |-> FALSE]

Init == desk = Fresh /\ ui = Menu /\ hsm = FALSE /\ key = "stored"
        /\ heard = 0 /\ bus = 1

-----------------------------------------------------------------------------
(* Requests: dispatch.  Each operator takes the desk and the number of the
   message, and gives the desk after it. *)

Reply(d, to) == [d EXCEPT !.out = to]

Free(d) == d.slot.st \in {"idle", "done"}
Queue(d, job) ==
  [d EXCEPT !.tickets = @ + 1,
            !.slot = [st |-> "queued", ticket |-> d.tickets + 1, job |-> job, from |-> bus]]
(* Queued and told okay, or told busy. *)
QueueReply(d, job, to) == Reply(IF Free(d) THEN Queue(d, job) ELSE d, to)

Hold(d, job, to) ==
  IF Free(d)
  THEN [Queue(d, job) EXCEPT !.owed = [ticket |-> d.tickets + 1, to |-> to]]
  ELSE Reply(d, to)

(* The one PSRAM region is lent to an upload, to the job made of it -- until its
   bytes are read, or signed -- and to the signed result. *)
Uploads == {"stxn", "enrl", "hsmu"}
Lent(d) == \/ d.slot.st = "queued" /\ d.slot.job \in Uploads
           \/ ui.at = "work" /\ ui.job \in Uploads
           \/ ui.at \in {"ask", "review"} /\ ui.job = "stxn"

UploadFirst(d, to, last) ==
  LET e == [d EXCEPT !.store = 0, !.result = 0]
  IN  Reply(IF Lent(e) THEN e
            ELSE [e EXCEPT !.store = bus, !.upload = IF last THEN "whole" ELSE "part"], to)
UploadNext(d, to, last) ==
  Reply(IF d.store = 0 \/ d.upload = "none" THEN d
        ELSE [d EXCEPT !.upload = IF last THEN "whole" ELSE "part"], to)

WholeUpload(d) == d.store # 0 /\ d.upload = "whole"

SignTx(d, to) ==
  IF WholeUpload(d) /\ Free(d)
  THEN Reply(Queue([d EXCEPT !.store = 0, !.result = 0], "stxn"), to)
  ELSE Reply(d, to)
(* The upload is taken before the queue is asked: busy loses it. *)
Enroll(d, to) ==
  IF WholeUpload(d) THEN QueueReply([d EXCEPT !.store = 0], "enrl", to) ELSE Reply(d, to)
HsmUpload(d, to) ==
  IF WholeUpload(d) THEN Hold([d EXCEPT !.store = 0], "hsmu", to) ELSE Reply(d, to)

Poll(d, job, to) ==
  Reply(IF d.slot.st = "done" /\ d.slot.job = job THEN [d EXCEPT !.slot = Idle] ELSE d, to)

(* What a request that is not refused does. *)
Served(d, c, to) ==
  CASE c \in {"xpub", "hsms"} -> {Hold(d, c, to)}
    [] c = "hsmu" -> {HsmUpload(d, to)}
    [] c \in {"smsg", "pass", "logo"} -> {QueueReply(d, c, to)}
    [] c = "stxn" -> {SignTx(d, to)}
    [] c = "enrl" -> {Enroll(d, to)}
    [] c = "upld" -> {UploadFirst(d, to, last) : last \in BOOLEAN}
                     \cup {UploadNext(d, to, last) : last \in BOOLEAN}
    [] c \in DOMAIN Polls -> {Poll(d, Polls[c], to)}
    [] OTHER -> {Reply(d, to)}

Dispatch(d, c, to) ==
  {Reply(d, to)} \cup (IF hsm /\ c \notin Listed THEN {} ELSE Served(d, c, to))

(* framing: answered in the clear; on a v3 link it is the last thing said. *)
Framing(d, to) == {Reply([d EXCEPT !.dead = dead], to) : dead \in BOOLEAN}

(* A whole message: nothing is owed to an older one. *)
Message(d, c, to) ==
  LET e == [d EXCEPT !.rx = None, !.owed = NoOwed] IN Dispatch(e, c, to) \cup Framing(e, to)

-----------------------------------------------------------------------------
(* Reports: feed. *)

Between == desk.rx = None /\ ~desk.dropping

(* Mutant: what is owed stays owed until the message is whole. *)
NotCleared(d) == d
(* The host has stopped waiting for anything before a new message. *)
Cleared(d) == [d EXCEPT !.owed = NoOwed, !.out = 0]

(* A message's first report, the only one or not; the heap may have no buffer. *)
FirstReport(c, last, room) ==
  LET d == Cleared(desk) IN
  /\ ~desk.dead /\ Between /\ heard < MaxMsgs
  /\ heard' = heard + 1
  /\ IF ~(d.buf \/ room)
     THEN desk' \in IF last THEN Framing(d, heard + 1)    \* answered busy; desync
                    ELSE {[d EXCEPT !.dropping = TRUE]}
     ELSE desk' \in IF last THEN Message([d EXCEPT !.buf = TRUE], c, heard + 1)
                    ELSE {[d EXCEPT !.buf = TRUE, !.rx = c]}
  /\ UNCHANGED <<ui, hsm, key, bus>>

LastReport ==
  /\ ~desk.dead /\ ~Between
  /\ desk' \in IF desk.dropping THEN Framing([desk EXCEPT !.dropping = FALSE], heard)
               ELSE Message(desk, desk.rx, heard)
  /\ UNCHANGED <<ui, hsm, key, heard, bus>>

(* An empty last report resynchronises: the upload goes, and no reply comes.
   While a message is being dropped it only ends that. *)
Resync ==
  /\ ~desk.dead
  /\ LET d == IF Between THEN Cleared(desk) ELSE desk IN
     desk' = IF d.dropping THEN [d EXCEPT !.dropping = FALSE]
             ELSE [d EXCEPT !.rx = None, !.upload = "none", !.store = 0, !.buf = FALSE]
  /\ UNCHANGED <<ui, hsm, key, heard, bus>>

(* The last report of a reply has gone; the buffer with it. *)
NextReport ==
  /\ desk.out # 0
  /\ desk' = [desk EXCEPT !.out = 0,
                          !.buf = @ /\ (desk.owed # NoOwed \/ desk.rx # None)]
  /\ UNCHANGED <<ui, hsm, key, heard, bus>>

(* reset: a bus reset, or a mode switch. *)
Reset ==
  /\ bus <= MaxResets
  /\ desk' = [Fresh EXCEPT !.tickets = desk.tickets, !.known = desk.known]
  /\ bus' = bus + 1
  /\ UNCHANGED <<ui, hsm, key, heard>>

-----------------------------------------------------------------------------
(* The UI task: the menu loop's serve, and what each job does. *)

Wanted == desk.slot.st = "screen" /\ desk.slot.ticket = ui.ticket      \* alive

(* Mutant: whatever the slot holds meanwhile, the answer goes there. *)
FinishAnyway(d, signed) ==
  IF ui.job \in Polled
  THEN [d EXCEPT !.slot = [st |-> "done", ticket |-> 0, job |-> ui.job, from |-> ui.from],
                 !.result = IF signed THEN ui.from ELSE @]
  ELSE [d EXCEPT !.slot = Idle, !.owed = NoOwed, !.out = IF d.owed # NoOwed THEN d.owed.to ELSE @]
(* finish: an abandoned job's answer is dropped; a held one's becomes the reply
   if its request still waits; a polled one's is kept. *)
Finish(d, signed) ==
  IF ~Wanted THEN d
  ELSE IF ui.job \in Polled
  THEN [d EXCEPT !.slot = [st |-> "done", ticket |-> 0, job |-> ui.job, from |-> d.slot.from],
                 !.result = IF signed THEN d.slot.from ELSE @]
  ELSE IF ui.job \in Held /\ d.owed.ticket = ui.ticket /\ d.out = 0
  THEN [d EXCEPT !.slot = Idle, !.owed = NoOwed, !.out = d.owed.to]
  ELSE [d EXCEPT !.slot = Idle]

Goes(at) == ui' = [ui EXCEPT !.at = at]
Ends(signed) == desk' = Finish(desk, signed) /\ ui' = Menu
(* Answered, and a last screen that a key clears. *)
Shows(signed) == desk' = Finish(desk, signed) /\ Goes("after")

(* learn_identity, before any job. *)
Learn ==
  /\ ui.at = "menu" /\ ~desk.known
  /\ desk' = [desk EXCEPT !.known = TRUE]
  /\ UNCHANGED <<ui, hsm, key, heard, bus>>

Take ==
  /\ ui.at = "menu" /\ desk.known /\ desk.slot.st = "queued"
  /\ desk' = [desk EXCEPT !.slot.st = "screen"]
  /\ ui' = [at |-> "work", ticket |-> desk.slot.ticket, job |-> desk.slot.job,
            from |-> desk.slot.from]
  /\ UNCHANGED <<hsm, key, heard, bus>>

(* Mutant: a job the policy does not allow is left without an answer. *)
DeniedSilently == ui' = Menu /\ UNCHANGED desk
Denied == Ends(FALSE)

(* unattended: in HSM mode the policy answers, never a person. *)
Unattended ==
  /\ ui.at = "work" /\ hsm /\ ui.job # "logo"
  /\ IF ui.job \in Listed THEN \E signed \in {FALSE, ui.job = "stxn" /\ Wanted} : Ends(signed)
                          ELSE Denied
  /\ UNCHANGED <<hsm, key, heard, bus>>

(* A key or an address: worked out at once; an address stays on the screen. *)
Lookup ==
  /\ ui.at = "work" /\ ~hsm /\ ui.job = "xpub"
  /\ Ends(FALSE) \/ Shows(FALSE)
  /\ UNCHANGED <<hsm, key, heard, bus>>

(* Mutant: HSM mode over whatever wallet is in force. *)
AlwaysAvailable == TRUE
(* available: over the stored wallet only. *)
Available == key = "stored"

(* hsms: the policy is checked and the host answered, then the person is asked. *)
HsmStart ==
  /\ ui.at = "work" /\ ~hsm /\ ui.job \in {"hsms", "hsmu"}
  /\ \/ Ends(FALSE)
     \/ Available /\ desk' = Finish(desk, FALSE) /\ Goes("approve")
  /\ UNCHANGED <<hsm, key, heard, bus>>

(* The first question of a job; a message is only asked about if still wanted,
   and what was uploaded must still be what was named. *)
Ask ==
  /\ ui.at = "work" /\ ~hsm /\ ui.job \in {"stxn", "smsg", "pass", "enrl"}
  /\ \/ (ui.job = "smsg" => Wanted) /\ Goes("ask") /\ UNCHANGED desk
     \/ (ui.job = "smsg" => ~Wanted) /\ ui.job # "pass" /\ Shows(FALSE)
  /\ UNCHANGED <<hsm, key, heard, bus>>

(* `logo`: half a second for the reply, then power is as at boot. *)
Logout ==
  /\ ui.at = "work" /\ ui.job = "logo"
  /\ desk' = [Fresh EXCEPT !.tickets = desk.tickets]
  /\ ui' = Menu /\ hsm' = FALSE /\ key' = "stored"
  /\ bus' = bus + 1 /\ UNCHANGED heard

-----------------------------------------------------------------------------
(* The person. *)

(* The first question: a transaction is then reviewed, a passphrase is set and
   its wallet shown, unless the computer has gone (the transaction) or the seed
   cannot be read (the passphrase). *)
AnswerAsk ==
  /\ ui.at = "ask"
  /\ \/ ui.job = "stxn" /\ Wanted /\ Goes("review") /\ UNCHANGED <<desk, key>>
     \/ ui.job \in {"stxn", "smsg"} /\ Shows(FALSE) /\ UNCHANGED key
     \/ ui.job \in {"pass", "enrl"} /\ Ends(FALSE) /\ UNCHANGED key
     \/ /\ ui.job = "pass" /\ key' = "passphrase" /\ Goes("review")
        /\ desk' = [desk EXCEPT !.known = FALSE]
     \/ /\ ui.job = "pass" /\ key' = "stored" /\ ui' = Menu
        /\ desk' = [Finish(desk, FALSE) EXCEPT !.known = FALSE]
  /\ UNCHANGED <<hsm, heard, bus>>

(* The second: a transaction is signed only for a computer still there. *)
AnswerReview ==
  /\ ui.at = "review"
  /\ \/ ui.job = "stxn" /\ (\E yes \in BOOLEAN : Shows(yes /\ Wanted)) /\ UNCHANGED key
     \/ /\ ui.job = "pass" /\ UNCHANGED key                      \* use this wallet
        /\ desk' = [Finish(desk, FALSE) EXCEPT !.known = TRUE] /\ ui' = Menu
     \/ /\ ui.job = "pass" /\ key' = "stored"                    \* or not
        /\ desk' = [Finish(desk, FALSE) EXCEPT !.known = FALSE] /\ ui' = Menu
  /\ UNCHANGED <<hsm, heard, bus>>

(* activate: it may fail for memory, storage or randomness. *)
Approve ==
  /\ ui.at = "approve" /\ ui' = Menu
  /\ hsm' \in BOOLEAN
  /\ UNCHANGED <<desk, key, heard, bus>>

AnyKey == ui.at = "after" /\ ui' = Menu /\ UNCHANGED <<desk, hsm, key, heard, bus>>

(* The boot code: HSM mode is left for the menus. *)
LeaveHsm ==
  /\ ui.at = "menu" /\ hsm /\ hsm' = FALSE
  /\ UNCHANGED <<desk, ui, key, heard, bus>>

Computer == \/ \E c \in Commands, last, room \in BOOLEAN : FirstReport(c, last, room)
            \/ LastReport \/ Resync \/ Reset
UiTask == Learn \/ Take \/ Unattended \/ Lookup \/ HsmStart \/ Ask \/ Logout
Person == AnswerAsk \/ AnswerReview \/ Approve \/ AnyKey
Next == Computer \/ NextReport \/ UiTask \/ Person \/ LeaveHsm

Spec == Init /\ [][Next]_vars
(* The UI task runs and the person answers; the computer may stop at any time. *)
FairSpec == Spec /\ WF_vars(UiTask) /\ WF_vars(Person) /\ WF_vars(NextReport)

-----------------------------------------------------------------------------
(* Properties. *)

(* Whatever the UI task answers and whenever it does, a reply goes out only to
   the newest message, never while another is arriving, and a held request is
   owed an answer only while it is the newest and its buffer is kept: the UI
   task's late answer never lands on what a newer message wrote (feed, finish). *)
AnswersItsRequest ==
  /\ desk.out # 0 => desk.out = heard /\ Between
  /\ desk.owed # NoOwed => /\ desk.owed.to = heard /\ Between /\ desk.out = 0 /\ desk.buf
                           /\ desk.slot.st \in {"queued", "screen"}
                           /\ desk.slot.ticket = desk.owed.ticket

(* After a bus reset nothing of the session before is left for whoever is on the
   bus now: the upload, the job, its outcome and the signed file are all of this
   session, although the UI task may still be at a job of an older one (reset,
   finish). *)
NothingCrossesReset ==
  /\ desk.slot.st # "idle" => desk.slot.from = bus
  /\ desk.store \in {0, bus} /\ desk.result \in {0, bus}

(* HSM mode runs over the stored wallet and nothing waits for a person, whatever
   was queued while the policy was being approved (start_from_host, unattended). *)
HsmIsAlone == hsm => key = "stored" /\ ui.at \in {"menu", "work"}

(* A held request is answered, or given up by the computer: it is never owed for
   ever, with or without a person's yes, and in HSM mode whatever was queued
   before it (serve, unattended, finish). *)
HeldIsAnswered == desk.owed # NoOwed ~> desk.owed = NoOwed
=============================================================================
