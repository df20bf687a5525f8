--------------------------- MODULE CkccDeskProofs ---------------------------
(* What holds of the ckcc mode's desk and the UI task for any requests, any
   number of messages and of bus resets.

   AnswersItsRequest is not inductive: that the UI task's answer finds the
   request it is for rests on the tickets.  A slot on the screen with the UI
   task's ticket holds the UI task's own job, and a request that is owed an
   answer is the one in the slot, and of a kind that is answered. *)
EXTENDS CkccDesk, TLAPS

SlotType == [st : {"idle", "queued", "screen", "done"}, ticket : Nat,
             job : Jobs \cup {None}, from : Nat]
OwedType == [ticket : Nat, to : Nat]
DeskType == [rx : AllCommands \cup {None}, dropping : BOOLEAN, dead : BOOLEAN, buf : BOOLEAN,
             out : Nat, owed : OwedType, upload : {"none", "part", "whole"}, store : Nat,
             result : Nat, slot : SlotType, tickets : Nat, known : BOOLEAN]
UiType   == [at : {"menu", "work", "ask", "review", "approve", "after"}, ticket : Nat,
             job : Jobs \cup {None}, from : Nat]

(* Everything at the desk is of this bus session, and tickets are never 0. *)
OfSession(d, b) ==
  /\ d \in DeskType
  /\ d.slot.st # "idle" => d.slot.from = b
  /\ d.store \in {0, b} /\ d.result \in {0, b}
  /\ d.slot.st \in {"queued", "screen"} => d.slot.ticket > 0

(* A slot on the screen under the ticket of the UI task u holds its job. *)
Owns(d, u) == d.slot.st = "screen" /\ d.slot.ticket = u.ticket => d.slot.job = u.job

(* Between two messages, nothing said and nothing owed. *)
Silent(d) == d.rx = None /\ ~d.dropping /\ d.out = 0 /\ d.owed = NoOwed

(* The newest message is answered, or waits for the UI task. *)
Answered(d, to) == d.rx = None /\ ~d.dropping /\ d.out = to /\ d.owed = NoOwed
Waits(d, to) ==
  /\ d.rx = None /\ ~d.dropping /\ d.out = 0 /\ d.buf
  /\ d.owed.to = to /\ d.owed.ticket = d.slot.ticket
  /\ d.slot.st \in {"queued", "screen"} /\ d.slot.job \in Held
(* Or nothing is said: one is arriving, or a reply has been sent. *)
Quietly(d) ==
  /\ d.out = 0 /\ d.owed = NoOwed
  /\ d.rx # None => d.buf /\ ~d.dropping

DeskInv(d, u, h, b) ==
  /\ OfSession(d, b) /\ Owns(d, u)
  /\ Quietly(d) \/ Answered(d, h) \/ Waits(d, h)

CkccInv ==
  /\ DeskInv(desk, ui, heard, bus)
  /\ ui \in UiType /\ heard \in Nat /\ bus \in Nat \ {0}

-----------------------------------------------------------------------------
(* Fields. *)

LEMMA ReplyFacts ==
  ASSUME NEW d \in DeskType, NEW to \in Nat
  PROVE  /\ Reply(d, to) \in DeskType /\ Reply(d, to).out = to
         /\ Reply(d, to).rx = d.rx /\ Reply(d, to).dropping = d.dropping
         /\ Reply(d, to).buf = d.buf /\ Reply(d, to).owed = d.owed
         /\ Reply(d, to).store = d.store /\ Reply(d, to).result = d.result
         /\ Reply(d, to).slot = d.slot
BY DEF Reply, DeskType

LEMMA QueueFacts ==
  ASSUME NEW d \in DeskType, NEW job \in Jobs, bus \in Nat
  PROVE  /\ Queue(d, job) \in DeskType /\ Queue(d, job).out = d.out
         /\ Queue(d, job).rx = d.rx /\ Queue(d, job).dropping = d.dropping
         /\ Queue(d, job).buf = d.buf /\ Queue(d, job).owed = d.owed
         /\ Queue(d, job).store = d.store /\ Queue(d, job).result = d.result
         /\ Queue(d, job).slot = [st |-> "queued", ticket |-> d.tickets + 1, job |-> job, from |-> bus]
         /\ d.tickets + 1 > 0 /\ d.tickets + 1 \in Nat
<1> DEFINE n == d.tickets + 1
           s == [st |-> "queued", ticket |-> n, job |-> job, from |-> bus]
<1>1. n \in Nat /\ n > 0
  BY DEF DeskType
<1>2. s \in SlotType
  BY <1>1 DEF SlotType
<1>3. Queue(d, job) = [d EXCEPT !.tickets = n, !.slot = s]
  BY DEF Queue
<1> HIDE DEF n, s
<1>4. /\ [d EXCEPT !.tickets = n, !.slot = s] \in DeskType
      /\ \A e : e = [d EXCEPT !.tickets = n, !.slot = s] =>
           /\ e.out = d.out /\ e.rx = d.rx /\ e.dropping = d.dropping /\ e.buf = d.buf
           /\ e.owed = d.owed /\ e.store = d.store /\ e.result = d.result /\ e.slot = s
  BY <1>1, <1>2 DEF DeskType
<1> QED BY <1>1, <1>3, <1>4 DEF n, s

(* Dispatch is given such a desk, and gives back such a one. *)
Asked(d) == OfSession(d, bus) /\ Owns(d, ui) /\ Silent(d)
Settled(e, to) == OfSession(e, bus) /\ Owns(e, ui) /\ (Answered(e, to) \/ Waits(e, to))

-----------------------------------------------------------------------------
(* Requests. *)

LEMMA ReplySettles ==
  ASSUME NEW d, Asked(d), NEW to \in Nat
  PROVE  Settled(Reply(d, to), to)
<1>1. d \in DeskType
  BY DEF Asked, OfSession
<1> DEFINE e == Reply(d, to)
<1>2. /\ e \in DeskType /\ e.out = to
      /\ e.rx = d.rx /\ e.dropping = d.dropping /\ e.owed = d.owed
      /\ e.store = d.store /\ e.result = d.result /\ e.slot = d.slot
  BY <1>1, ReplyFacts
<1> HIDE DEF e
<1>3. OfSession(e, bus) /\ Owns(e, ui) /\ Answered(e, to)
  BY <1>2 DEF Asked, OfSession, Owns, Silent, Answered
<1> QED BY <1>3 DEF Settled, e

LEMMA QueueAsked ==
  ASSUME NEW d, Asked(d), bus \in Nat, NEW job \in Jobs
  PROVE  Asked(Queue(d, job))
<1>1. d \in DeskType
  BY DEF Asked, OfSession
<1> DEFINE e == Queue(d, job)
           n == d.tickets + 1
           s == [st |-> "queued", ticket |-> n, job |-> job, from |-> bus]
<1>2. /\ e \in DeskType /\ e.out = d.out
      /\ e.rx = d.rx /\ e.dropping = d.dropping /\ e.owed = d.owed
      /\ e.store = d.store /\ e.result = d.result /\ e.slot = s /\ n > 0
  BY <1>1, QueueFacts
<1>3. s.st = "queued" /\ s.ticket = n /\ s.from = bus
  OBVIOUS
<1> HIDE DEF e, n, s
<1>4. OfSession(e, bus) /\ Owns(e, ui) /\ Silent(e)
  BY <1>2, <1>3 DEF Asked, OfSession, Owns, Silent
<1> QED BY <1>4 DEF Asked, e

LEMMA QueueReplySettles ==
  ASSUME NEW d, Asked(d), bus \in Nat, NEW to \in Nat, NEW job \in Jobs
  PROVE  Settled(QueueReply(d, job, to), to)
BY QueueAsked, ReplySettles DEF QueueReply

LEMMA HoldSettles ==
  ASSUME NEW d, Asked(d), d.buf, bus \in Nat, NEW to \in Nat, NEW job \in Held
  PROVE  Settled(Hold(d, job, to), to)
<1>1. CASE ~Free(d)
  BY <1>1, ReplySettles DEF Hold
<1>2. CASE Free(d)
  <2> DEFINE q == Queue(d, job)
             n == d.tickets + 1
             o == [ticket |-> n, to |-> to]
             e == [q EXCEPT !.owed = o]
  <2>1. job \in Jobs /\ d \in DeskType
    BY DEF Jobs, Asked, OfSession
  <2>2. Asked(q) /\ q \in DeskType /\ q.buf
        /\ q.slot = [st |-> "queued", ticket |-> n, job |-> job, from |-> bus] /\ n \in Nat
    BY <2>1, QueueAsked, QueueFacts DEF Asked, OfSession
  <2>3. o \in OwedType /\ o.to = to /\ o.ticket = n
    BY <2>2 DEF OwedType
  <2>4. q.slot.st = "queued" /\ q.slot.ticket = n /\ q.slot.job = job
    BY <2>2
  <2> HIDE DEF q, n, o
  <2>5. /\ e \in DeskType /\ e.out = q.out /\ e.rx = q.rx /\ e.dropping = q.dropping
        /\ e.buf = q.buf /\ e.owed = o
        /\ e.store = q.store /\ e.result = q.result /\ e.slot = q.slot
    BY <2>2, <2>3 DEF DeskType
  <2>6. Hold(d, job, to) = e
    BY <1>2 DEF Hold, q, o, n
  <2> HIDE DEF e
  <2>7. OfSession(e, bus) /\ Owns(e, ui) /\ Waits(e, to)
    BY <2>2, <2>3, <2>4, <2>5 DEF Asked, OfSession, Owns, Silent, Waits
  <2> QED BY <2>6, <2>7 DEF Settled
<1> QED BY <1>1, <1>2

(* The file and the signed result change hands within the session. *)
LEMMA StoreAsked ==
  ASSUME NEW d, Asked(d), bus \in Nat, NEW store \in {0, bus}, NEW result \in {0, d.result},
         NEW upload \in {"none", "part", "whole"}
  PROVE  /\ Asked([d EXCEPT !.store = store])
         /\ Asked([d EXCEPT !.store = store, !.result = result])
         /\ Asked([d EXCEPT !.store = store, !.upload = upload])
         /\ Asked([d EXCEPT !.upload = upload])
<1> DEFINE Same(e) ==
      /\ e \in DeskType /\ e.out = d.out /\ e.rx = d.rx /\ e.dropping = d.dropping
      /\ e.owed = d.owed /\ e.slot = d.slot
<1>1. d \in DeskType /\ store \in Nat /\ result \in Nat
      /\ result \in {0, bus} /\ d.store \in {0, bus} /\ d.result \in {0, bus}
  BY DEF Asked, OfSession, DeskType
<1>2. /\ Same([d EXCEPT !.store = store])
      /\ [d EXCEPT !.store = store].store = store /\ [d EXCEPT !.store = store].result = d.result
  BY <1>1 DEF DeskType
<1>3. LET e == [d EXCEPT !.store = store, !.result = result]
      IN  Same(e) /\ e.store = store /\ e.result = result
  BY <1>1 DEF DeskType
<1>4. LET e == [d EXCEPT !.store = store, !.upload = upload]
      IN  Same(e) /\ e.store = store /\ e.result = d.result
  BY <1>1 DEF DeskType
<1>5. LET e == [d EXCEPT !.upload = upload]
      IN  Same(e) /\ e.store = d.store /\ e.result = d.result
  BY <1>1 DEF DeskType
<1>6. ASSUME NEW e, Same(e), e.store \in {0, bus}, e.result \in {0, bus}
      PROVE  Asked(e)
  BY <1>6 DEF Asked, OfSession, Owns, Silent
<1> QED BY <1>1, <1>2, <1>3, <1>4, <1>5, <1>6

LEMMA UploadFirstSettles ==
  ASSUME NEW d, Asked(d), bus \in Nat, NEW to \in Nat, NEW last \in BOOLEAN
  PROVE  Settled(UploadFirst(d, to, last), to)
<1> DEFINE e == [d EXCEPT !.store = 0, !.result = 0]
           f == [e EXCEPT !.store = bus, !.upload = IF last THEN "whole" ELSE "part"]
<1>1. Asked(e)
  BY StoreAsked
<1> HIDE DEF e
<1>2. Asked(f)
  BY <1>1, StoreAsked
<1> HIDE DEF f
<1>3. UploadFirst(d, to, last) = Reply(IF Lent(e) THEN e ELSE f, to)
  BY DEF UploadFirst, e, f
<1> QED BY <1>1, <1>2, <1>3, ReplySettles

LEMMA UploadNextSettles ==
  ASSUME NEW d, Asked(d), bus \in Nat, NEW to \in Nat, NEW last \in BOOLEAN
  PROVE  Settled(UploadNext(d, to, last), to)
<1> DEFINE f == [d EXCEPT !.upload = IF last THEN "whole" ELSE "part"]
<1>1. Asked(f)
  BY StoreAsked
<1> HIDE DEF f
<1>2. UploadNext(d, to, last) = Reply(IF d.store = 0 \/ d.upload = "none" THEN d ELSE f, to)
  BY DEF UploadNext, f
<1> QED BY <1>1, <1>2, ReplySettles

LEMMA SignTxSettles ==
  ASSUME NEW d, Asked(d), bus \in Nat, NEW to \in Nat
  PROVE  Settled(SignTx(d, to), to)
<1> DEFINE e == [d EXCEPT !.store = 0, !.result = 0]
<1>1. Asked(e)
  BY StoreAsked
<1> HIDE DEF e
<1>2. "stxn" \in Jobs
  BY DEF Jobs, Polled
<1>3. Settled(Reply(Queue(e, "stxn"), to), to) /\ Settled(Reply(d, to), to)
  BY <1>1, <1>2, QueueAsked, ReplySettles
<1> QED BY <1>3 DEF SignTx, e

LEMMA EnrollSettles ==
  ASSUME NEW d, Asked(d), bus \in Nat, NEW to \in Nat
  PROVE  Settled(Enroll(d, to), to)
<1> DEFINE e == [d EXCEPT !.store = 0]
<1>1. Asked(e)
  BY StoreAsked
<1> HIDE DEF e
<1>2. "enrl" \in Jobs
  BY DEF Jobs, Quiet
<1>3. Settled(QueueReply(e, "enrl", to), to) /\ Settled(Reply(d, to), to)
  BY <1>1, <1>2, QueueReplySettles, ReplySettles
<1> QED BY <1>3 DEF Enroll, e

LEMMA HsmUploadSettles ==
  ASSUME NEW d, Asked(d), d.buf, bus \in Nat, NEW to \in Nat
  PROVE  Settled(HsmUpload(d, to), to)
<1> DEFINE e == [d EXCEPT !.store = 0]
<1>1. Asked(e) /\ e.buf
  <2>1. Asked(e) BY StoreAsked
  <2>2. e.buf = d.buf BY DEF Asked, OfSession, DeskType
  <2> QED BY <2>1, <2>2
<1> HIDE DEF e
<1>2. "hsmu" \in Held
  BY DEF Held
<1>3. Settled(Hold(e, "hsmu", to), to) /\ Settled(Reply(d, to), to)
  BY <1>1, <1>2, HoldSettles, ReplySettles
<1> QED BY <1>3 DEF HsmUpload, e

LEMMA PollSettles ==
  ASSUME NEW d, Asked(d), NEW to \in Nat, NEW job
  PROVE  Settled(Poll(d, job, to), to)
<1> DEFINE e == [d EXCEPT !.slot = Idle]
<1>1. Idle \in SlotType /\ Idle.st = "idle"
  BY DEF Idle, SlotType
<1>2. /\ e \in DeskType /\ e.out = d.out /\ e.rx = d.rx /\ e.dropping = d.dropping
      /\ e.owed = d.owed /\ e.store = d.store /\ e.result = d.result /\ e.slot = Idle
  BY <1>1 DEF DeskType, Asked, OfSession
<1> HIDE DEF e
<1>3. Asked(e)
  BY <1>1, <1>2 DEF Asked, OfSession, Owns, Silent
<1>4. Poll(d, job, to) = Reply(IF d.slot.st = "done" /\ d.slot.job = job THEN e ELSE d, to)
  BY DEF Poll, e
<1> QED BY <1>3, <1>4, ReplySettles

LEMMA ServedSettles ==
  ASSUME NEW d, Asked(d), d.buf, bus \in Nat, NEW to \in Nat, NEW c, NEW e \in Served(d, c, to)
  PROVE  Settled(e, to)
<1>0. DOMAIN Polls = {"stok", "smok", "pwok"}
  BY DEF Polls
<1>1. CASE c \in {"xpub", "hsms"}
  <2>1. Served(d, c, to) = {Hold(d, c, to)}
    BY <1>0, <1>1 DEF Served
  <2>2. c \in Held
    BY <1>1 DEF Held
  <2> QED BY <2>1, <2>2, HoldSettles
<1>8. CASE c = "hsmu"
  <2>1. Served(d, c, to) = {HsmUpload(d, to)}
    BY <1>0, <1>8 DEF Served
  <2> QED BY <2>1, HsmUploadSettles
<1>2. CASE c \in {"smsg", "pass", "logo"}
  <2>1. Served(d, c, to) = {QueueReply(d, c, to)}
    BY <1>0, <1>2 DEF Served, Held
  <2>2. c \in Jobs
    BY <1>2 DEF Jobs, Polled, Quiet
  <2> QED BY <2>1, <2>2, QueueReplySettles
<1>3. CASE c = "stxn"
  <2>1. Served(d, c, to) = {SignTx(d, to)}
    BY <1>0, <1>3 DEF Served, Held
  <2> QED BY <2>1, SignTxSettles
<1>4. CASE c = "enrl"
  <2>1. Served(d, c, to) = {Enroll(d, to)}
    BY <1>0, <1>4 DEF Served, Held
  <2> QED BY <2>1, EnrollSettles
<1>5. CASE c = "upld"
  <2>1. Served(d, c, to) = {UploadFirst(d, to, last) : last \in BOOLEAN}
                           \cup {UploadNext(d, to, last) : last \in BOOLEAN}
    BY <1>0, <1>5 DEF Served, Held
  <2> QED BY <2>1, UploadFirstSettles, UploadNextSettles
<1>6. CASE c \in DOMAIN Polls
  <2>1. Served(d, c, to) = {Poll(d, Polls[c], to)}
    BY <1>0, <1>6 DEF Served, Held
  <2> QED BY <2>1, PollSettles
<1>7. CASE c \notin Held \cup {"smsg", "pass", "logo", "stxn", "enrl", "upld"} \cup DOMAIN Polls
  <2>1. Served(d, c, to) = {Reply(d, to)}
    BY <1>0, <1>7 DEF Served, Held
  <2> QED BY <2>1, ReplySettles
<1> QED BY <1>1, <1>2, <1>3, <1>4, <1>5, <1>6, <1>7, <1>8 DEF Held

LEMMA FramingSettles ==
  ASSUME NEW d, Asked(d), NEW to \in Nat, NEW e \in Framing(d, to)
  PROVE  Settled(e, to)
<1>1. PICK dead \in BOOLEAN : e = Reply([d EXCEPT !.dead = dead], to)
  BY DEF Framing
<1> DEFINE f == [d EXCEPT !.dead = dead]
<1>2. /\ f \in DeskType /\ f.out = d.out /\ f.rx = d.rx /\ f.dropping = d.dropping
      /\ f.owed = d.owed /\ f.store = d.store /\ f.result = d.result /\ f.slot = d.slot
  BY DEF DeskType, Asked, OfSession
<1> HIDE DEF f
<1>3. Asked(f)
  BY <1>2 DEF Asked, OfSession, Owns, Silent
<1> QED BY <1>1, <1>3, ReplySettles DEF f

(* A whole message at a desk that has the buffer and has said nothing. *)
LEMMA MessageSettles ==
  ASSUME NEW d, OfSession(d, bus), Owns(d, ui), ~d.dropping, d.out = 0, d.buf,
         bus \in Nat, NEW to \in Nat, NEW c, NEW f \in Message(d, c, to)
  PROVE  Settled(f, to)
<1> DEFINE e == [d EXCEPT !.rx = None, !.owed = NoOwed]
<1>1. NoOwed \in OwedType
  BY DEF NoOwed, OwedType
<1>2. /\ e \in DeskType /\ e.out = d.out /\ e.rx = None /\ e.dropping = d.dropping /\ e.buf = d.buf
      /\ e.owed = NoOwed /\ e.store = d.store /\ e.result = d.result /\ e.slot = d.slot
  BY <1>1 DEF DeskType, OfSession
<1> HIDE DEF e
<1>3. Asked(e) /\ e.buf
  BY <1>2 DEF Asked, OfSession, Owns, Silent
<1>4. f \in Dispatch(e, c, to) \cup Framing(e, to)
  BY DEF Message, e
<1>5. f = Reply(e, to) \/ f \in Served(e, c, to) \/ f \in Framing(e, to)
  BY <1>4 DEF Dispatch
<1> QED BY <1>3, <1>5, ReplySettles, ServedSettles, FramingSettles

LEMMA SettledInv ==
  ASSUME NEW e, NEW to \in Nat, Settled(e, to)
  PROVE  DeskInv(e, ui, to, bus)
BY DEF Settled, DeskInv

-----------------------------------------------------------------------------
(* Reports. *)

LEMMA ClearedFacts ==
  ASSUME NEW d \in DeskType
  PROVE  LET c == Cleared(d)
         IN  /\ c \in DeskType /\ c.out = 0 /\ c.owed = NoOwed
             /\ c.rx = d.rx /\ c.dropping = d.dropping /\ c.buf = d.buf
             /\ c.store = d.store /\ c.result = d.result /\ c.slot = d.slot
<1>1. NoOwed \in OwedType
  BY DEF NoOwed, OwedType
<1> DEFINE e == [d EXCEPT !.owed = NoOwed, !.out = 0]
<1>2. /\ e \in DeskType /\ e.out = 0 /\ e.owed = NoOwed
      /\ e.rx = d.rx /\ e.dropping = d.dropping /\ e.buf = d.buf
      /\ e.store = d.store /\ e.result = d.result /\ e.slot = d.slot
  BY <1>1 DEF DeskType
<1> QED BY <1>2 DEF Cleared

LEMMA FirstReportHolds ==
  ASSUME CkccAssumption, CkccInv, NEW c \in Commands, NEW last \in BOOLEAN, NEW room \in BOOLEAN,
         FirstReport(c, last, room)
  PROVE  CkccInv'
<1> DEFINE d == Cleared(desk)
           yes == TRUE
           held == [d EXCEPT !.buf = yes]
           begun == [d EXCEPT !.buf = yes, !.rx = c]
           dropped == [d EXCEPT !.dropping = yes]
<1>1. /\ d \in DeskType /\ d.out = 0 /\ d.owed = NoOwed
      /\ d.rx = desk.rx /\ d.dropping = desk.dropping /\ d.buf = desk.buf
      /\ d.store = desk.store /\ d.result = desk.result /\ d.slot = desk.slot
  BY ClearedFacts DEF CkccInv, DeskInv, OfSession
<1>2. desk.rx = None /\ ~desk.dropping
  BY DEF FirstReport, Between
<1> HIDE DEF d
<1>3. Asked(d)
  BY <1>1, <1>2 DEF Asked, OfSession, Owns, Silent, CkccInv, DeskInv
<1>4. yes \in BOOLEAN /\ yes
  OBVIOUS
<1> HIDE DEF yes
<1>5. c \in AllCommands /\ heard + 1 \in Nat /\ bus \in Nat
  BY DEF CkccAssumption, CkccInv
<1>6. /\ held \in DeskType /\ held.out = 0 /\ held.dropping = d.dropping /\ held.buf = yes
      /\ held.store = d.store /\ held.result = d.result /\ held.slot = d.slot
  BY <1>1, <1>4 DEF DeskType
<1>7. /\ begun \in DeskType /\ begun.out = 0 /\ begun.dropping = d.dropping /\ begun.buf = yes
      /\ begun.rx = c /\ begun.owed = d.owed
      /\ begun.store = d.store /\ begun.result = d.result /\ begun.slot = d.slot
  BY <1>1, <1>4, <1>5 DEF DeskType
<1>8. /\ dropped \in DeskType /\ dropped.out = 0 /\ dropped.rx = d.rx /\ dropped.owed = d.owed
      /\ dropped.store = d.store /\ dropped.result = d.result /\ dropped.slot = d.slot
  BY <1>1, <1>4 DEF DeskType
<1>9. \/ desk' \in Framing(d, heard + 1) \/ desk' = dropped
      \/ desk' \in Message(held, c, heard + 1) \/ desk' = begun
  BY DEF FirstReport, d, yes
<1> HIDE DEF held, begun, dropped
<1>10. DeskInv(desk', ui, heard + 1, bus)
  <2>1. CASE desk' \in Framing(d, heard + 1)
    BY <1>3, <1>5, <2>1, FramingSettles, SettledInv
  <2>2. CASE desk' = dropped
    <3>1. OfSession(dropped, bus) /\ Owns(dropped, ui) /\ Quietly(dropped)
      BY <1>1, <1>2, <1>3, <1>8 DEF Asked, OfSession, Owns, Quietly
    <3> QED BY <2>2, <3>1 DEF DeskInv
  <2>3. CASE desk' \in Message(held, c, heard + 1)
    <3>1. OfSession(held, bus) /\ Owns(held, ui) /\ ~held.dropping /\ held.buf
      BY <1>1, <1>2, <1>3, <1>4, <1>6 DEF Asked, OfSession, Owns
    <3> QED BY <1>5, <1>6, <2>3, <3>1, MessageSettles, SettledInv
  <2>4. CASE desk' = begun
    <3>1. OfSession(begun, bus) /\ Owns(begun, ui) /\ Quietly(begun)
      BY <1>1, <1>2, <1>3, <1>4, <1>7 DEF Asked, OfSession, Owns, Quietly
    <3> QED BY <2>4, <3>1 DEF DeskInv
  <2> QED BY <1>9, <2>1, <2>2, <2>3, <2>4
<1>11. heard' = heard + 1 /\ UNCHANGED <<ui, bus>>
  BY DEF FirstReport
<1> QED BY <1>5, <1>10, <1>11 DEF CkccInv

LEMMA LastReportHolds ==
  ASSUME CkccInv, LastReport
  PROVE  CkccInv'
<1>1. ~Between /\ desk \in DeskType /\ OfSession(desk, bus) /\ Owns(desk, ui) /\ Quietly(desk)
  <2>1. ~Between /\ ~Answered(desk, heard) /\ ~Waits(desk, heard)
    BY DEF LastReport, Between, Answered, Waits
  <2> QED BY <2>1 DEF CkccInv, DeskInv, OfSession
<1>2. heard \in Nat /\ bus \in Nat
  BY DEF CkccInv
<1>3. CASE desk.dropping
  <2> DEFINE no == FALSE
             d == [desk EXCEPT !.dropping = no]
  <2>1. no \in BOOLEAN /\ ~no
    OBVIOUS
  <2>2. desk' \in Framing(d, heard)
    BY <1>3 DEF LastReport, no
  <2> HIDE DEF no
  <2>3. /\ d \in DeskType /\ d.out = desk.out /\ d.rx = desk.rx /\ d.dropping = no /\ d.owed = desk.owed
        /\ d.store = desk.store /\ d.result = desk.result /\ d.slot = desk.slot
    BY <1>1, <2>1 DEF DeskType
  <2> HIDE DEF d
  <2>4. Asked(d)
    BY <1>1, <1>3, <2>1, <2>3 DEF Asked, OfSession, Owns, Silent, Quietly
  <2> QED BY <1>2, <2>2, <2>4, FramingSettles, SettledInv DEF LastReport, CkccInv
<1>4. CASE ~desk.dropping
  <2>1. desk.rx # None /\ desk.buf /\ desk.out = 0
    BY <1>1, <1>4 DEF Between, Quietly
  <2>2. desk' \in Message(desk, desk.rx, heard)
    BY <1>4 DEF LastReport
  <2> QED BY <1>1, <1>2, <1>4, <2>1, <2>2, MessageSettles, SettledInv DEF LastReport, CkccInv
<1> QED BY <1>3, <1>4

LEMMA ResyncHolds ==
  ASSUME CkccInv, Resync
  PROVE  CkccInv'
<1> DEFINE c == Cleared(desk)
           d == IF Between THEN c ELSE desk
           no == FALSE
           kept == [d EXCEPT !.dropping = no]
           gone == [d EXCEPT !.rx = None, !.upload = "none", !.store = 0, !.buf = no]
<1>0. desk \in DeskType /\ OfSession(desk, bus) /\ Owns(desk, ui) /\ NoOwed \in OwedType
  BY DEF CkccInv, DeskInv, OfSession, NoOwed, OwedType
<1>1. /\ c \in DeskType /\ c.out = 0 /\ c.owed = NoOwed
      /\ c.rx = desk.rx /\ c.dropping = desk.dropping
      /\ c.store = desk.store /\ c.result = desk.result /\ c.slot = desk.slot
  BY <1>0, ClearedFacts
<1> HIDE DEF c
<1>2. /\ d \in DeskType /\ d.out = 0 /\ d.owed = NoOwed /\ d.rx = desk.rx /\ d.dropping = desk.dropping
      /\ d.store = desk.store /\ d.result = desk.result /\ d.slot = desk.slot
  <2>1. CASE Between
    BY <1>1, <2>1
  <2>2. CASE ~Between
    BY <1>0, <2>2 DEF Between, CkccInv, DeskInv, Answered, Waits, Quietly
  <2> QED BY <2>1, <2>2
<1>3. desk' = IF d.dropping THEN kept ELSE gone
  BY DEF Resync, c
<1>4. d.dropping => d.rx = None
  BY <1>2 DEF CkccInv, DeskInv, Answered, Waits, Quietly
<1> HIDE DEF d
<1>5. no \in BOOLEAN /\ ~no
  OBVIOUS
<1> HIDE DEF no
<1>6. /\ kept \in DeskType /\ kept.out = 0 /\ kept.owed = NoOwed /\ kept.rx = d.rx
      /\ kept.store = d.store /\ kept.result = d.result /\ kept.slot = d.slot
  BY <1>2, <1>5 DEF DeskType
<1>7. /\ gone \in DeskType /\ gone.out = 0 /\ gone.owed = NoOwed /\ gone.rx = None
      /\ gone.store = 0 /\ gone.result = d.result /\ gone.slot = d.slot
  BY <1>2, <1>5 DEF DeskType
<1> HIDE DEF kept, gone
<1>8. CASE d.dropping
  <2>1. OfSession(kept, bus) /\ Owns(kept, ui) /\ Quietly(kept)
    BY <1>0, <1>2, <1>4, <1>6, <1>8 DEF OfSession, Owns, Quietly
  <2> QED BY <1>3, <1>8, <2>1 DEF CkccInv, DeskInv, Resync
<1>9. CASE ~d.dropping
  <2>1. OfSession(gone, bus) /\ Owns(gone, ui) /\ Quietly(gone)
    BY <1>0, <1>2, <1>7 DEF OfSession, Owns, Quietly
  <2> QED BY <1>3, <1>9, <2>1 DEF CkccInv, DeskInv, Resync
<1> QED BY <1>8, <1>9

LEMMA NextReportHolds ==
  ASSUME CkccInv, NextReport
  PROVE  CkccInv'
<1> DEFINE still == desk.buf /\ (desk.owed # NoOwed \/ desk.rx # None)
           d == [desk EXCEPT !.out = 0, !.buf = still]
<1>0. desk \in DeskType /\ OfSession(desk, bus) /\ Owns(desk, ui) /\ desk.out # 0
      /\ desk.rx = None /\ desk.owed = NoOwed /\ still \in BOOLEAN
  BY DEF NextReport, CkccInv, DeskInv, OfSession, Quietly, Answered, Waits
<1>1. desk' = d
  BY <1>0 DEF NextReport, DeskType
<1> HIDE DEF still
<1>2. /\ d \in DeskType /\ d.out = 0 /\ d.owed = desk.owed /\ d.rx = desk.rx
      /\ d.store = desk.store /\ d.result = desk.result /\ d.slot = desk.slot
  BY <1>0 DEF DeskType
<1> HIDE DEF d
<1>3. OfSession(d, bus) /\ Owns(d, ui) /\ Quietly(d)
  BY <1>0, <1>2 DEF OfSession, Owns, Quietly
<1> QED BY <1>1, <1>3 DEF CkccInv, DeskInv, NextReport

LEMMA FreshHolds ==
  ASSUME NEW n \in Nat, NEW known \in BOOLEAN, NEW u, NEW h, NEW b
  PROVE  /\ Fresh \in DeskType
         /\ DeskInv([Fresh EXCEPT !.tickets = n, !.known = known], u, h, b)
         /\ DeskInv([Fresh EXCEPT !.tickets = n], u, h, b) /\ DeskInv(Fresh, u, h, b)
<1>1. Idle \in SlotType /\ NoOwed \in OwedType /\ Idle.st = "idle"
  BY DEF Idle, SlotType, NoOwed, OwedType
<1>2. Fresh \in DeskType
  BY <1>1 DEF Fresh, DeskType
<1>3. /\ Fresh.out = 0 /\ Fresh.owed = NoOwed /\ Fresh.rx = None /\ Fresh.store = 0
      /\ Fresh.result = 0 /\ Fresh.slot = Idle
  BY DEF Fresh
<1>4. ASSUME NEW e \in DeskType, e.out = 0, e.owed = NoOwed, e.rx = None, e.store = 0,
             e.result = 0, e.slot = Idle
      PROVE  DeskInv(e, u, h, b)
  BY <1>1, <1>4 DEF DeskInv, OfSession, Owns, Quietly
<1>5. LET e == [Fresh EXCEPT !.tickets = n, !.known = known]
      IN  /\ e \in DeskType /\ e.out = Fresh.out /\ e.owed = Fresh.owed /\ e.rx = Fresh.rx
          /\ e.store = Fresh.store /\ e.result = Fresh.result /\ e.slot = Fresh.slot
  BY <1>2 DEF DeskType
<1>6. LET e == [Fresh EXCEPT !.tickets = n]
      IN  /\ e \in DeskType /\ e.out = Fresh.out /\ e.owed = Fresh.owed /\ e.rx = Fresh.rx
          /\ e.store = Fresh.store /\ e.result = Fresh.result /\ e.slot = Fresh.slot
  BY <1>2 DEF DeskType
<1> QED BY <1>2, <1>3, <1>4, <1>5, <1>6

LEMMA ResetHolds ==
  ASSUME CkccInv, Reset
  PROVE  CkccInv'
<1>1. desk.tickets \in Nat /\ desk.known \in BOOLEAN
  BY DEF CkccInv, DeskInv, OfSession, DeskType
<1>2. DeskInv([Fresh EXCEPT !.tickets = desk.tickets, !.known = desk.known], ui, heard, bus + 1)
  BY <1>1, FreshHolds
<1> QED BY <1>2 DEF Reset, CkccInv

-----------------------------------------------------------------------------
(* The UI task and the person. *)

(* u is where the UI task goes next: on with its job, or to the menu. *)
Onward(u) == u.ticket = 0 \/ (u.ticket = ui.ticket /\ u.job = ui.job)

LEMMA OnwardOwns ==
  ASSUME CkccInv, NEW u, Onward(u)
  PROVE  DeskInv(desk, u, heard, bus)
<1>1. Owns(desk, u)
  BY DEF CkccInv, DeskInv, Owns, Onward, OfSession, DeskType, SlotType
<1> QED BY <1>1 DEF CkccInv, DeskInv

(* A held request still waiting gets its answer; no other reply is disturbed. *)
LEMMA FinishHolds ==
  ASSUME CkccInv, NEW signed \in BOOLEAN, NEW u, Onward(u)
  PROVE  DeskInv(Finish(desk, signed), u, heard, bus)
<1>0. /\ desk \in DeskType /\ OfSession(desk, bus) /\ Owns(desk, ui) /\ ui \in UiType
      /\ heard \in Nat /\ bus \in Nat
  BY DEF CkccInv, DeskInv, OfSession
<1>1. CASE ~Wanted
  BY <1>1, OnwardOwns DEF Finish
<1> DEFINE done == [st |-> "done", ticket |-> 0, job |-> ui.job, from |-> desk.slot.from]
           result == IF signed THEN desk.slot.from ELSE desk.result
<1>2. CASE Wanted
  <2>1. desk.slot.st = "screen" /\ desk.slot.job = ui.job /\ desk.slot.from = bus
    BY <1>0, <1>2 DEF Wanted, Owns, OfSession
  <2>2. done \in SlotType /\ done.st = "done" /\ done.from = bus
    BY <1>0, <2>1 DEF SlotType, UiType
  <2>3. result \in {0, bus} /\ result \in Nat
    BY <1>0, <2>1 DEF OfSession
  <2>4. Idle \in SlotType /\ Idle.st = "idle" /\ NoOwed \in OwedType
    BY DEF Idle, SlotType, NoOwed, OwedType
  <2>5. CASE ui.job \in Polled
    <3> DEFINE e == [desk EXCEPT !.slot = done, !.result = result]
    <3>1. Finish(desk, signed) = e
      BY <1>0, <1>2, <2>5 DEF Finish, DeskType
    <3> HIDE DEF done, result
    <3>2. /\ e \in DeskType /\ e.out = desk.out /\ e.rx = desk.rx /\ e.dropping = desk.dropping
          /\ e.buf = desk.buf /\ e.owed = desk.owed /\ e.store = desk.store
          /\ e.result = result /\ e.slot = done
      BY <1>0, <2>2, <2>3 DEF DeskType
    <3> HIDE DEF e
    <3>3. OfSession(e, bus) /\ Owns(e, u)
      BY <1>0, <2>2, <2>3, <3>2 DEF OfSession, Owns
    <3>4. ~Waits(desk, heard)
      BY <2>1, <2>5 DEF Waits, Held, Polled
    <3>5. Quietly(e) \/ Answered(e, heard)
      BY <3>2, <3>4 DEF CkccInv, DeskInv, Quietly, Answered
    <3> QED BY <3>1, <3>3, <3>5 DEF DeskInv
  <2>6. CASE ui.job \notin Polled /\ ui.job \in Held /\ desk.owed.ticket = ui.ticket /\ desk.out = 0
    <3> DEFINE e == [desk EXCEPT !.slot = Idle, !.owed = NoOwed, !.out = desk.owed.to]
    <3>1. Finish(desk, signed) = e
      BY <1>2, <2>6 DEF Finish
    <3>0. desk.owed.to \in Nat
      BY <1>0 DEF DeskType, OwedType
    <3>2. /\ e \in DeskType /\ e.out = desk.owed.to /\ e.rx = desk.rx /\ e.dropping = desk.dropping
          /\ e.buf = desk.buf /\ e.owed = NoOwed /\ e.store = desk.store
          /\ e.result = desk.result /\ e.slot = Idle
      BY <1>0, <2>4, <3>0 DEF DeskType
    <3> HIDE DEF e
    <3>3. OfSession(e, bus) /\ Owns(e, u)
      BY <1>0, <2>4, <3>2 DEF OfSession, Owns
    <3>4. CASE Waits(desk, heard)
      <4>1. Answered(e, heard)
        BY <3>2, <3>4 DEF Waits, Answered
      <4> QED BY <3>1, <3>3, <4>1 DEF DeskInv
    <3>5. CASE Quietly(desk) \/ Answered(desk, heard)
      <4>1. desk.owed = NoOwed /\ desk.owed.to = 0
        BY <3>5 DEF Quietly, Answered, NoOwed
      <4>2. Quietly(e)
        BY <2>6, <3>2, <3>5, <4>1 DEF Quietly, Answered
      <4> QED BY <3>1, <3>3, <4>2 DEF DeskInv
    <3> QED BY <3>4, <3>5 DEF CkccInv, DeskInv
  <2>7. CASE ui.job \notin Polled /\ ~(ui.job \in Held /\ desk.owed.ticket = ui.ticket /\ desk.out = 0)
    <3> DEFINE e == [desk EXCEPT !.slot = Idle]
    <3>1. Finish(desk, signed) = e
      BY <1>2, <2>7 DEF Finish
    <3>2. /\ e \in DeskType /\ e.out = desk.out /\ e.rx = desk.rx /\ e.dropping = desk.dropping
          /\ e.buf = desk.buf /\ e.owed = desk.owed /\ e.store = desk.store
          /\ e.result = desk.result /\ e.slot = Idle
      BY <1>0, <2>4 DEF DeskType
    <3> HIDE DEF e
    <3>3. OfSession(e, bus) /\ Owns(e, u)
      BY <1>0, <2>4, <3>2 DEF OfSession, Owns
    <3>4. ~Waits(desk, heard)
      BY <1>2, <2>1, <2>7 DEF Waits, Wanted
    <3>5. Quietly(e) \/ Answered(e, heard)
      BY <3>2, <3>4 DEF CkccInv, DeskInv, Quietly, Answered
    <3> QED BY <3>1, <3>3, <3>5 DEF DeskInv
  <2> QED BY <2>5, <2>6, <2>7
<1> QED BY <1>1, <1>2

LEMMA KnownHolds ==
  ASSUME NEW d, NEW u, NEW h, NEW b, DeskInv(d, u, h, b), NEW known \in BOOLEAN
  PROVE  DeskInv([d EXCEPT !.known = known], u, h, b)
<1> DEFINE e == [d EXCEPT !.known = known]
<1>1. /\ e \in DeskType /\ e.out = d.out /\ e.rx = d.rx /\ e.dropping = d.dropping
      /\ e.buf = d.buf /\ e.owed = d.owed /\ e.store = d.store
      /\ e.result = d.result /\ e.slot = d.slot
  BY DEF DeskType, DeskInv, OfSession
<1> HIDE DEF e
<1>2. OfSession(e, b) /\ Owns(e, u)
  BY <1>1 DEF DeskInv, OfSession, Owns
<1>3. Quietly(e) \/ Answered(e, h) \/ Waits(e, h)
  BY <1>1 DEF DeskInv, Quietly, Answered, Waits
<1> QED BY <1>2, <1>3 DEF DeskInv, e

LEMMA GoesFacts ==
  ASSUME CkccInv, NEW at \in {"menu", "work", "ask", "review", "approve", "after"}, Goes(at)
  PROVE  ui' \in UiType /\ Onward(ui') /\ ui'.at = at
BY DEF Goes, CkccInv, UiType, Onward

LEMMA MenuFacts == Menu \in UiType /\ Onward(Menu) /\ Menu.at = "menu"
BY DEF Menu, UiType, Onward

LEMMA EndsHolds ==
  ASSUME CkccInv, NEW signed \in BOOLEAN, Ends(signed) \/ Shows(signed)
  PROVE  DeskInv(desk', ui', heard, bus) /\ ui' \in UiType
BY FinishHolds, GoesFacts, MenuFacts DEF Ends, Shows

LEMMA UiStays ==
  ASSUME CkccInv, UNCHANGED desk, ui' \in UiType, Onward(ui')
  PROVE  DeskInv(desk', ui', heard, bus)
BY OnwardOwns

LEMMA TakeHolds ==
  ASSUME CkccInv, Take
  PROVE  CkccInv'
<1> DEFINE s == [desk.slot EXCEPT !.st = "screen"]
           d == [desk EXCEPT !.slot = s]
<1>0. /\ desk \in DeskType /\ desk.slot \in SlotType /\ OfSession(desk, bus)
      /\ desk.slot.st = "queued"
  BY DEF CkccInv, DeskInv, OfSession, DeskType, Take
<1>1. desk' = d
  BY DEF Take
<1>2. /\ s \in SlotType /\ s.st = "screen" /\ s.ticket = desk.slot.ticket /\ s.job = desk.slot.job
      /\ s.from = desk.slot.from
  BY <1>0 DEF SlotType
<1> HIDE DEF s
<1>3. /\ d \in DeskType /\ d.out = desk.out /\ d.rx = desk.rx /\ d.dropping = desk.dropping
      /\ d.buf = desk.buf /\ d.owed = desk.owed /\ d.store = desk.store
      /\ d.result = desk.result /\ d.slot = s
  BY <1>0, <1>2 DEF DeskType
<1> HIDE DEF d
<1>4. ui'.ticket = s.ticket /\ ui'.job = s.job /\ ui' \in UiType
  BY <1>0, <1>2 DEF Take, UiType, SlotType
<1>5. OfSession(d, bus) /\ Owns(d, ui')
  BY <1>0, <1>2, <1>3, <1>4 DEF OfSession, Owns
<1>6. Quietly(d) \/ Answered(d, heard) \/ Waits(d, heard)
  BY <1>2, <1>3 DEF CkccInv, DeskInv, Quietly, Answered, Waits
<1> QED BY <1>1, <1>4, <1>5, <1>6 DEF CkccInv, DeskInv, Take

LEMMA UiTaskHolds ==
  ASSUME CkccInv, Learn \/ Unattended \/ Lookup \/ HsmStart \/ Ask \/ Logout
  PROVE  CkccInv'
<1>0. heard \in Nat /\ bus \in Nat \ {0} /\ ui \in UiType /\ desk.tickets \in Nat
  BY DEF CkccInv, DeskInv, OfSession, DeskType
<1>1. CASE Learn
  BY <1>1, KnownHolds DEF Learn, CkccInv
<1>2. CASE Logout
  <2>1. DeskInv([Fresh EXCEPT !.tickets = desk.tickets], Menu, heard, bus + 1)
    BY <1>0, FreshHolds
  <2> QED BY <1>0, <1>2, <2>1, MenuFacts DEF Logout, CkccInv
<1>3. CASE Unattended \/ Lookup
  <2>1. \E signed \in BOOLEAN : Ends(signed) \/ Shows(signed)
    BY <1>3 DEF Unattended, Lookup, Denied
  <2> QED BY <1>0, <1>3, <2>1, EndsHolds DEF Unattended, Lookup, CkccInv
<1>4. CASE HsmStart
  <2>1. CASE Ends(FALSE)
    BY <1>0, <1>4, <2>1, EndsHolds DEF HsmStart, CkccInv
  <2>2. CASE desk' = Finish(desk, FALSE) /\ Goes("approve")
    BY <1>0, <1>4, <2>2, FinishHolds, GoesFacts DEF HsmStart, CkccInv
  <2> QED BY <1>4, <2>1, <2>2 DEF HsmStart
<1>5. CASE Ask
  <2>1. CASE Goes("ask") /\ UNCHANGED desk
    BY <1>0, <1>5, <2>1, OnwardOwns, GoesFacts DEF Ask, CkccInv
  <2>2. CASE Shows(FALSE)
    BY <1>0, <1>5, <2>2, EndsHolds DEF Ask, CkccInv
  <2> QED BY <1>5, <2>1, <2>2 DEF Ask
<1> QED BY <1>1, <1>2, <1>3, <1>4, <1>5

LEMMA PersonHolds ==
  ASSUME CkccInv, AnswerAsk \/ AnswerReview \/ Approve \/ AnyKey
  PROVE  CkccInv'
<1>0. heard \in Nat /\ bus \in Nat \ {0} /\ UNCHANGED <<heard, bus>>
  BY DEF CkccInv, AnswerAsk, AnswerReview, Approve, AnyKey
<1>1. ASSUME DeskInv(desk', ui', heard, bus), ui' \in UiType PROVE CkccInv'
  BY <1>0, <1>1 DEF CkccInv
<1>2. CASE Approve \/ AnyKey
  BY <1>1, <1>2, OnwardOwns, MenuFacts DEF Approve, AnyKey
<1>3. \A signed \in BOOLEAN, known \in BOOLEAN :
        DeskInv([Finish(desk, signed) EXCEPT !.known = known], Menu, heard, bus)
  BY FinishHolds, KnownHolds, MenuFacts
<1>4. CASE AnswerAsk
  <2>1. CASE Goes("review") /\ UNCHANGED desk
    BY <1>1, <2>1, OnwardOwns, GoesFacts
  <2>2. CASE Shows(FALSE) \/ Ends(FALSE)
    BY <1>1, <2>2, EndsHolds
  <2>3. CASE Goes("review") /\ desk' = [desk EXCEPT !.known = FALSE]
    BY <1>1, <2>3, OnwardOwns, KnownHolds, GoesFacts
  <2>4. CASE ui' = Menu /\ desk' = [Finish(desk, FALSE) EXCEPT !.known = FALSE]
    BY <1>1, <1>3, <2>4, MenuFacts
  <2> QED BY <1>4, <2>1, <2>2, <2>3, <2>4 DEF AnswerAsk
<1>5. CASE AnswerReview
  <2>1. CASE \E yes \in BOOLEAN : Shows(yes /\ Wanted)
    BY <1>1, <2>1, EndsHolds
  <2>2. CASE ui' = Menu /\ \E known \in BOOLEAN : desk' = [Finish(desk, FALSE) EXCEPT !.known = known]
    BY <1>1, <1>3, <2>2, MenuFacts
  <2> QED BY <1>5, <2>1, <2>2 DEF AnswerReview
<1> QED BY <1>2, <1>4, <1>5

-----------------------------------------------------------------------------
(* The invariant. *)

LEMMA CkccInit == Init => CkccInv
<1>1. ASSUME Init PROVE CkccInv
  <2>1. 0 \in Nat /\ TRUE \in BOOLEAN
    OBVIOUS
  <2>2. DeskInv(Fresh, Menu, 0, 1)
    BY <2>1, FreshHolds
  <2> QED BY <1>1, <2>2, MenuFacts DEF Init, CkccInv
<1> QED BY <1>1

LEMMA CkccStep == CkccInv /\ [Next]_vars => CkccInv'
<1> SUFFICES ASSUME CkccInv, [Next]_vars PROVE CkccInv'
  OBVIOUS
<1>1. CASE UNCHANGED vars
  BY <1>1 DEF vars, CkccInv
<1>2. CASE Next
  <2>1. CASE Computer
    BY <2>1, CkccAssumption, FirstReportHolds, LastReportHolds, ResyncHolds, ResetHolds DEF Computer
  <2>2. CASE NextReport
    BY <2>2, NextReportHolds
  <2>3. CASE UiTask
    BY <2>3, TakeHolds, UiTaskHolds DEF UiTask
  <2>4. CASE Person
    BY <2>4, PersonHolds DEF Person
  <2>5. CASE LeaveHsm
    BY <2>5 DEF LeaveHsm, CkccInv
  <2> QED BY <1>2, <2>1, <2>2, <2>3, <2>4, <2>5 DEF Next
<1> QED BY <1>1, <1>2

(* Tickets, slots and sessions agree throughout (CkccInv above). *)
THEOREM CkccInvariant == Spec => []CkccInv
BY CkccInit, CkccStep, PTL DEF Spec

(* A reply goes only to the newest message, and a held request is owed an answer
   only while it is the newest: for any number of messages and resets (feed,
   finish). *)
THEOREM CkccAnswers == Spec => []AnswersItsRequest
<1>1. CkccInv => AnswersItsRequest
  <2>1. ASSUME CkccInv PROVE desk.out # 0 => desk.out = heard /\ Between
    BY <2>1 DEF CkccInv, DeskInv, Quietly, Answered, Waits, Between
  <2>2. ASSUME CkccInv, desk.owed # NoOwed
        PROVE  /\ desk.owed.to = heard /\ Between /\ desk.out = 0 /\ desk.buf
               /\ desk.slot.st \in {"queued", "screen"}
               /\ desk.slot.ticket = desk.owed.ticket
    BY <2>2 DEF CkccInv, DeskInv, Quietly, Answered, Waits, Between
  <2> QED BY <2>1, <2>2 DEF AnswersItsRequest
<1> QED BY <1>1, CkccInvariant, PTL

(* Nothing of an older bus session is left for a newer one, whatever the UI task
   is still at (reset, finish). *)
THEOREM CkccNothingCrosses == Spec => []NothingCrossesReset
<1>1. CkccInv => NothingCrossesReset
  BY DEF CkccInv, DeskInv, OfSession, NothingCrossesReset
<1> QED BY <1>1, CkccInvariant, PTL

(* HSM mode over the stored wallet, with no question open: what is being approved
   is over the stored wallet too (start_from_host, activate, unattended). *)
THEOREM CkccHsmIsAlone == Spec => []HsmIsAlone
<1> DEFINE Alone == HsmIsAlone /\ (ui.at = "approve" => key = "stored")
<1>1. Init => Alone
  BY DEF Init, Menu, HsmIsAlone
<1>2. CkccInv /\ Alone /\ [Next]_vars => Alone'
  <2> SUFFICES ASSUME CkccInv, Alone, [Next]_vars PROVE Alone'
    OBVIOUS
  <2>0. \A at : Goes(at) => ui'.at = at
    BY DEF Goes, CkccInv, UiType
  <2>m. Menu.at = "menu"
    BY DEF Menu
  <2>1. CASE UNCHANGED vars \/ Computer \/ NextReport
    <3>1. hsm' = hsm /\ key' = key /\ ui' = ui
      BY <2>1 DEF vars, Computer, NextReport, FirstReport, LastReport, Resync, Reset
    <3> QED BY <3>1 DEF HsmIsAlone
  <2>2. CASE Learn \/ Take \/ Logout \/ LeaveHsm
    BY <2>2, <2>m DEF Learn, Take, Logout, LeaveHsm, HsmIsAlone
  <2>3. CASE Unattended \/ Lookup \/ Ask
    <3>1. hsm' = hsm /\ key' = key
      BY <2>3 DEF Unattended, Lookup, Ask
    <3>2. ui'.at = "menu" \/ (~hsm /\ ui'.at \in {"after", "ask"})
      BY <2>0, <2>3, <2>m DEF Unattended, Denied, Lookup, Ask, Ends, Shows
    <3> QED BY <3>1, <3>2 DEF HsmIsAlone
  <2>4. CASE HsmStart
    <3>1. hsm' = hsm /\ key' = key
      BY <2>4 DEF HsmStart
    <3>2. ui'.at = "menu" \/ (~hsm /\ key = "stored" /\ ui'.at = "approve")
      BY <2>0, <2>4, <2>m DEF HsmStart, Ends, Available
    <3> QED BY <3>1, <3>2 DEF HsmIsAlone
  <2>6. CASE AnswerAsk \/ AnswerReview \/ AnyKey
    <3>1. hsm' = hsm /\ ui.at \in {"ask", "review", "after"}
      BY <2>6 DEF AnswerAsk, AnswerReview, AnyKey
    <3>2. ui'.at \in {"menu", "review", "after"}
      BY <2>0, <2>6, <2>m DEF AnswerAsk, AnswerReview, AnyKey, Ends, Shows
    <3> QED BY <3>1, <3>2 DEF HsmIsAlone
  <2>5. CASE Approve
    BY <2>5, <2>m DEF Approve, HsmIsAlone
  <2> QED BY <2>1, <2>2, <2>3, <2>4, <2>5, <2>6 DEF Next, UiTask, Person
<1>3. Alone => HsmIsAlone
  OBVIOUS
<1> QED BY <1>1, <1>2, <1>3, CkccInvariant, PTL DEF Spec
=============================================================================
