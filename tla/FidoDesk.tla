------------------------------ MODULE FidoDesk ------------------------------
(* The security key's transport: the CTAPHID state machine (catcard-fido,
   hid.rs) inside the USB task's Desk (catcard-fw, fido.rs), with the UI task
   that works a request out.  Several host programs share the device, each on a
   channel of its own; one block of memory holds the message arriving, is lent
   to the UI task with a request, and is sent back from.

   Every action runs under the USB task's lock.  The clock is abstract: what is
   due is chosen.  Bytes are abstract: a message is its number. *)
EXTENDS Naturals, Sequences

CONSTANTS
  ChannelMax,  \* bound: channels handed out (1 .. ChannelMax)
  QueueLen,    \* QUEUE: short replies waiting
  MaxMore,     \* bound: continuation packets of a message
  MaxMsgs,     \* bound: messages numbered
  None

Channels  == 1 .. ChannelMax
Broadcast == 0     \* replies to INIT on the broadcast channel
Scratch   == 0     \* a block that holds no whole message
Messages  == 1 .. MaxMsgs

Numbered == {"ping", "quick", "ask"}              \* answered from the block
Commands == Numbered \cup {"wink", "unknown"}

(* A message arriving, a request being processed, an answer being sent, a short
   reply, a report for the host. *)
Rx    == [ch : Channels, cmd : Commands, left : 1 .. MaxMore]
Proc  == [ch : Channels, cancelled : BOOLEAN]
Out   == [ch : Channels, left : 1 .. MaxMore + 1]
Small == [ch : Channels \cup {Broadcast}, what : {"error", "init", "wink", "keepalive"}]
Report == [ch : Channels \cup {Broadcast},
           what : {"error", "init", "wink", "keepalive", "answer"},
           body : {Scratch} \cup Messages, last : BOOLEAN]

ASSUME DeskAssumption ==
  /\ ChannelMax \in Nat \ {0} /\ QueueLen \in Nat \ {0}
  /\ MaxMore \in Nat /\ MaxMsgs \in Nat
  /\ None \notin Nat \cup Rx \cup Proc \cup Out \cup Report

VARIABLES
  hid,    \* Ctaphid: next_cid, rx, proc, out, queue
  desk,   \* Desk: buf, job, out/out_ready as wire, wink
  ui,     \* the request serve() holds
  msgs,   \* messages numbered so far
  owed    \* per channel, the message whose answer its program waits for (history)

vars == <<hid, desk, ui, msgs, owed>>

NoJob == [st |-> "idle"]

Init == /\ hid = [next |-> 1, rx |-> None, proc |-> None, out |-> None,
                  queue |-> <<>>]
        /\ desk = [buf |-> None, job |-> NoJob, wire |-> None, wink |-> FALSE]
        /\ ui = None /\ msgs = 0
        /\ owed = [c \in Channels |-> 0]

-----------------------------------------------------------------------------
(* Ctaphid. *)

Valid(c) == c < hid.next          \* valid_channel, before the counter wraps

On(x, c) == x # None /\ x.ch = c

(* push_small: beyond the queue's length the reply is lost. *)
Push(h, c, what) ==
  IF Len(h.queue) < QueueLen
  THEN [h EXCEPT !.queue = Append(@, [ch |-> c, what |-> what])] ELSE h
Error(h, c) == Push(h, c, "error")

Answer(c, n) == [ch |-> c, left |-> n]   \* n packets still to be sent

(* Mutant: only a message arriving needs the buffer. *)
OnlyArriving == hid.rx # None
NeedsBuffer == hid.rx # None \/ hid.out # None

(* respond: frame the answer in the buffer for the request being processed. *)
Respond(h, n) ==
  IF h.proc = None THEN h
  ELSE [h EXCEPT !.proc = None, !.out = Answer(h.proc.ch, n)]

(* Mutant: a resync ends whatever is being worked on. *)
AbandonAnyones(h, c) ==
  [h EXCEPT !.rx = IF On(@, c) THEN None ELSE @, !.proc = None,
            !.out = IF On(@, c) THEN None ELSE @]
(* INIT on a channel already held: what that channel was doing is over. *)
Abandon(h, c) ==
  [h EXCEPT !.rx   = IF On(@, c) THEN None ELSE @,
            !.proc = IF On(@, c) THEN None ELSE @,
            !.out  = IF On(@, c) THEN None ELSE @]

Packet(c, what, body, last) == [ch |-> c, what |-> what, body |-> body, last |-> last]

(* next_packet: short replies go between messages, never inside one; an answer
   whose buffer is gone is dropped. *)
Sends(h, b) == IF h.out # None THEN b # None ELSE h.queue # <<>>
NextPacket(h, b) ==
  IF h.out # None THEN Packet(h.out.ch, "answer", b, h.out.left = 1)
  ELSE Packet(Head(h.queue).ch, Head(h.queue).what, Scratch, TRUE)
Sending(h, b) ==
  IF h.out # None
  THEN [h EXCEPT !.out = IF b = None \/ @.left = 1 THEN None
                         ELSE Answer(@.ch, @.left - 1)]
  ELSE IF h.queue # <<>> THEN [h EXCEPT !.queue = Tail(@)] ELSE h

Idle(h) == h.rx = None /\ h.proc = None /\ h.out = None /\ h.queue = <<>>

-----------------------------------------------------------------------------
(* Reports from the host: Desk.feed. *)

(* The block is leased when a report arrives and none is out; the heap may be
   full. *)
Leased == IF desk.buf = None /\ desk.job = NoJob THEN {None, Scratch}
          ELSE {desk.buf}

(* The last packet of a message is in the block: complete, then Desk.request.
   A "quick" one (GetInfo, VERSION, a locked device) is answered on the spot. *)
Complete(c, cmd) ==
  LET id == msgs + 1
      h  == [hid EXCEPT !.rx = None]
  IN /\ CASE cmd \in {"ping", "quick"} ->
              \E n \in 1 .. MaxMore + 1 :
                /\ hid' = [h EXCEPT !.out = Answer(c, n)]
                /\ desk' = [desk EXCEPT !.buf = id]
         [] cmd = "ask" ->
              /\ hid' = [h EXCEPT !.proc = [ch |-> c, cancelled |-> FALSE]]
              /\ desk' = [desk EXCEPT !.buf = None,
                                      !.job = [st |-> "queued", body |-> id]]
         [] cmd = "wink" -> /\ hid' = Push(h, c, "wink")
                            /\ desk' = [desk EXCEPT !.wink = TRUE, !.buf = Scratch]
         [] OTHER -> /\ hid' = Error(h, c)
                     /\ desk' = [desk EXCEPT !.buf = Scratch]
     /\ IF cmd \in Numbered
        THEN msgs' = id /\ owed' = [owed EXCEPT ![c] = id]
        ELSE UNCHANGED <<msgs, owed>>

Accepts(c, b) == Valid(c) /\ hid.proc = None /\ ~NeedsBuffer /\ b # None

(* An initialization packet of a message with `more` packets to follow; `fits`
   is whether its length does. *)
FeedFirst(c, cmd, more, fits) ==
  /\ cmd \in Numbered => msgs < MaxMsgs
  /\ fits \/ more = MaxMore
  /\ UNCHANGED ui
  /\ \E b \in Leased :
       IF ~Accepts(c, b) \/ ~fits
       THEN /\ hid' = Error(IF hid.proc = None /\ On(hid.rx, c)
                            THEN [hid EXCEPT !.rx = None] ELSE hid, c)
            /\ desk' = [desk EXCEPT !.buf = b]
            /\ UNCHANGED <<msgs, owed>>
       ELSE IF more = 0 THEN Complete(c, cmd)
       ELSE /\ hid' = [hid EXCEPT !.rx = [ch |-> c, cmd |-> cmd, left |-> more]]
            /\ desk' = [desk EXCEPT !.buf = Scratch]
            /\ UNCHANGED <<msgs, owed>>

(* A continuation packet, in sequence or not; a stray one is ignored. *)
FeedCont(c, inSeq) ==
  /\ UNCHANGED ui
  /\ \E b \in Leased :
       IF ~On(hid.rx, c)
       THEN desk' = [desk EXCEPT !.buf = b] /\ UNCHANGED <<hid, msgs, owed>>
       ELSE IF ~inSeq \/ b = None
       THEN /\ hid' = Error([hid EXCEPT !.rx = None], c)
            /\ desk' = [desk EXCEPT !.buf = b] /\ UNCHANGED <<msgs, owed>>
       ELSE IF hid.rx.left = 1 THEN Complete(c, hid.rx.cmd)
       ELSE /\ hid' = [hid EXCEPT !.rx.left = @ - 1]
            /\ desk' = [desk EXCEPT !.buf = b] /\ UNCHANGED <<msgs, owed>>

(* The request was withdrawn: off the desk, or dead if the UI task has it. *)
VoidJob == IF desk.job.st = "taken" THEN [desk.job EXCEPT !.dead = TRUE] ELSE NoJob

(* The broadcast channel: INIT hands a newcomer its channel, all else is an
   error. *)
FeedBroadcast(init) ==
  /\ init => hid.next <= ChannelMax
  /\ \E b \in Leased : desk' = [desk EXCEPT !.buf = b]
  /\ hid' = IF init THEN Push([hid EXCEPT !.next = @ + 1], Broadcast, "init")
            ELSE Error(hid, Broadcast)
  /\ UNCHANGED <<ui, msgs, owed>>

(* INIT on a channel: a resync, or an error if it is malformed or the channel
   was never handed out. *)
FeedInit(c, wellFormed) ==
  /\ UNCHANGED <<ui, msgs>>
  /\ \E b \in Leased :
       IF ~Valid(c) \/ ~wellFormed
       THEN /\ hid' = Error(hid, c) /\ desk' = [desk EXCEPT !.buf = b]
            /\ UNCHANGED owed
       ELSE /\ hid' = Push(Abandon(hid, c), c, "init")
            /\ desk' = [desk EXCEPT !.buf = b,
                                    !.job = IF On(hid.proc, c) THEN VoidJob ELSE @]
            /\ owed' = [owed EXCEPT ![c] = 0]

(* CANCEL: noted for the request being processed, ignored otherwise. *)
FeedCancel(c) ==
  /\ \E b \in Leased : desk' = [desk EXCEPT !.buf = b]
  /\ hid' = IF ~Valid(c) THEN Error(hid, c)
            ELSE IF On(hid.proc, c) THEN [hid EXCEPT !.proc.cancelled = TRUE]
            ELSE hid
  /\ UNCHANGED <<ui, msgs, owed>>

Feed(c) ==
  \/ \E cmd \in Commands, more \in 0 .. MaxMore, fits \in BOOLEAN :
       FeedFirst(c, cmd, more, fits)
  \/ \E inSeq \in BOOLEAN : FeedCont(c, inSeq)
  \/ \E wellFormed \in BOOLEAN : FeedInit(c, wellFormed)
  \/ FeedCancel(c)

-----------------------------------------------------------------------------
(* One poll: fido_pump. *)

TimeOutArrival(h, due) ==
  IF due /\ h.rx # None THEN Error([h EXCEPT !.rx = None], h.rx.ch) ELSE h

(* Mutant: the request is dropped from the desk without an answer. *)
NoTimeoutAnswer(h) == h
TimeoutAnswer(h) == Respond(h, 1)

Keepalive(h, due) ==
  IF due /\ h.proc # None /\ h.out = None /\ h.queue = <<>>
  THEN Push(h, h.proc.ch, "keepalive") ELSE h

(* Ctaphid.tick and Desk.tick: timeouts and keepalives, the next report if the
   last has gone, the block given back when nothing is in flight; then the
   endpoint takes the report or is still full. *)
Pump(rxDue, kaDue, jobDue, taken) ==
  LET h1   == Keepalive(TimeOutArrival(hid, rxDue), kaDue)
      late == jobDue /\ desk.job.st = "queued"
      h2   == IF late THEN TimeoutAnswer(h1) ELSE h1
      b2   == IF late THEN desk.job.body ELSE desk.buf
      job2 == IF late THEN NoJob ELSE desk.job
      free == desk.wire = None
      h3   == IF free THEN Sending(h2, b2) ELSE h2
      new  == free /\ Sends(h2, b2)
      w3   == IF new THEN NextPacket(h2, b2) ELSE desk.wire
      b3   == IF Idle(h3) /\ job2 = NoJob /\ w3 = None THEN None ELSE b2
  IN /\ hid' = h3
     /\ desk' = [desk EXCEPT !.buf = b3, !.job = job2,
                             !.wire = IF taken THEN None ELSE w3]
     /\ owed' = IF new /\ w3.what = "answer" /\ w3.last
                THEN [owed EXCEPT ![w3.ch] = 0] ELSE owed
     /\ UNCHANGED <<ui, msgs>>

(* A bus reset, or the switch going off: everything in flight is void. *)
Reset ==
  /\ hid' = [hid EXCEPT !.rx = None, !.proc = None, !.out = None, !.queue = <<>>]
  /\ desk' = [buf |-> None, job |-> VoidJob, wire |-> None, wink |-> FALSE]
  /\ owed' = [c \in Channels |-> 0]
  /\ UNCHANGED <<ui, msgs>>

-----------------------------------------------------------------------------
(* The UI task: serve. *)

(* take_wink, then take. *)
Serve ==
  /\ ui = None /\ (desk.wink \/ desk.job.st = "queued")
  /\ IF desk.job.st = "queued"
     THEN /\ ui' = desk.job.body
          /\ desk' = [desk EXCEPT !.wink = FALSE,
                        !.job = [st |-> "taken", body |-> @.body, dead |-> FALSE]]
     ELSE /\ desk' = [desk EXCEPT !.wink = FALSE]
          /\ UNCHANGED ui
  /\ UNCHANGED <<hid, msgs, owed>>

Wanted == desk.job.st = "taken" /\ ~desk.job.dead

(* finish: the answer goes out unless nobody wants it any more. *)
Finish ==
  /\ ui # None
  /\ ui' = None
  /\ IF desk.job.st = "taken" /\ desk.job.body = ui
     THEN /\ desk' = [desk EXCEPT !.job = NoJob, !.buf = IF Wanted THEN ui ELSE @]
          /\ IF Wanted THEN \E n \in 1 .. MaxMore + 1 : hid' = Respond(hid, n)
             ELSE UNCHANGED hid
     ELSE UNCHANGED <<hid, desk>>
  /\ UNCHANGED <<msgs, owed>>

-----------------------------------------------------------------------------
Next ==
  \/ \E c \in Channels : Feed(c)
  \/ \E init \in BOOLEAN : FeedBroadcast(init)
  \/ \E rxDue, kaDue, jobDue, taken \in BOOLEAN : Pump(rxDue, kaDue, jobDue, taken)
  \/ Reset \/ Serve \/ Finish

Spec == Init /\ [][Next]_vars

(* The USB task polls for ever, the host reads its reports, every timeout
   comes, and a question on the screen ends by itself. *)
Fairness ==
  /\ WF_vars(\E kaDue \in BOOLEAN : Pump(TRUE, kaDue, TRUE, TRUE))
  /\ WF_vars(Finish)

FairSpec == Spec /\ Fairness

-----------------------------------------------------------------------------
(* Properties. *)

(* The block has one user at a time: the message arriving, the request being
   worked on, or the answer being sent. *)
OneUserOfTheBlock ==
  /\ desk.job # NoJob => desk.buf = None /\ hid.rx = None /\ hid.out = None
  /\ hid.rx # None => desk.buf = Scratch /\ hid.out = None
  /\ hid.out # None => desk.buf # None

(* What is sent to a program as an answer is the answer to the message it
   waits on, never a withdrawn one's or another program's. *)
AnswersWhatWasAsked ==
  hid.out # None => owed[hid.out.ch] # 0 /\ desk.buf = owed[hid.out.ch]

(* A program's message in flight, its request and its answer. *)
InFlight(c) == <<On(hid.rx, c), On(hid.proc, c), On(hid.out, c), owed[c]>>

(* Nothing one program sends touches what another has in flight. *)
NobodyDisturbsAnother ==
  [][\A c, d \in Channels : c # d /\ Feed(c) => InFlight(d)' = InFlight(d)]_vars

(* Every message that was taken whole is answered, or its program withdrew it;
   every message that stops arriving is dropped. *)
EveryMessageSettles ==
  /\ \A c \in Channels, m \in Messages : owed[c] = m ~> owed[c] # m
  /\ \A c \in Channels : On(hid.rx, c) ~> hid.rx = None
=============================================================================
