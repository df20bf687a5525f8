--------------------------- MODULE FidoDeskProofs ---------------------------
(* Who has the block, whose answer is in it, and what one program's reports can
   change of another's, for any number of channels, packets and messages.

   No property here is inductive: that the answer the UI task puts in the block
   is the one its program waits for rests on the request being processed, whose
   body is what that program asked last, and which nothing else can replace
   while the block is lent. *)
EXTENDS FidoDesk, TLAPS

JobType == {NoJob} \cup [st : {"queued"}, body : Nat]
                   \cup [st : {"taken"}, body : Nat, dead : BOOLEAN]

(* Ctaphid and the desk are records of their fields. *)
HidShape(h) ==
  /\ h = [next |-> h.next, rx |-> h.rx, proc |-> h.proc, out |-> h.out, queue |-> h.queue]
  /\ h.queue \in Seq(Small)
Whats == {"error", "init", "wink", "keepalive"}
DeskShape(d) ==
  d = [buf |-> d.buf, job |-> d.job, wire |-> d.wire, wink |-> d.wink]

(* The block b, the job j and what the transport h is doing agree, given what
   each program waits for. *)
Good(h, b, j, o) ==
  /\ HidShape(h) /\ j \in JobType /\ o \in [Channels -> Nat]
  /\ h.rx = None \/ h.rx \in Rx
  /\ h.proc = None \/ h.proc \in Proc
  /\ h.out = None \/ h.out \in Out
  /\ j # NoJob => b = None /\ h.rx = None /\ h.out = None
  /\ h.rx # None => b = Scratch /\ h.out = None /\ h.proc = None
  /\ h.out # None => b = o[h.out.ch] /\ o[h.out.ch] # 0 /\ h.proc = None
  /\ h.proc # None => /\ j # NoJob /\ j.body = o[h.proc.ch] /\ o[h.proc.ch] # 0
                      /\ j.st = "taken" => ~j.dead

DeskGood == /\ Good(hid, desk.buf, desk.job, owed)
            /\ DeskShape(desk) /\ msgs \in Nat

-----------------------------------------------------------------------------
(* The transport's own steps. *)

LEMMA PushFacts ==
  ASSUME NEW h, HidShape(h), NEW c \in Channels \cup {Broadcast}, NEW w \in Whats
  PROVE  LET k == Push(h, c, w)
         IN  HidShape(k) /\ k.rx = h.rx /\ k.proc = h.proc /\ k.out = h.out
<1> DEFINE e == [ch |-> c, what |-> w]
           q == Append(h.queue, e)
           k == [h EXCEPT !.queue = q]
<1>0. q \in Seq(Small)
  <2>1. e \in Small
    BY DEF Small, Whats
  <2> HIDE DEF e
  <2> QED BY <2>1 DEF HidShape
<1>1. Push(h, c, w) = IF Len(h.queue) < QueueLen THEN k ELSE h
  BY DEF Push, HidShape
<1> HIDE DEF q
<1>2. k = [next |-> h.next, rx |-> h.rx, proc |-> h.proc, out |-> h.out, queue |-> q]
  BY DEF HidShape
<1>3. HidShape(k) /\ k.rx = h.rx /\ k.proc = h.proc /\ k.out = h.out
  BY <1>0, <1>2 DEF HidShape
<1> HIDE DEF k
<1> QED BY <1>1, <1>3

(* Dropping what is arriving leaves the rest as it is. *)
LEMMA GoodSame ==
  ASSUME NEW h, NEW b, NEW j, NEW o, Good(h, b, j, o), NEW k, HidShape(k),
         k.rx \in {h.rx, None}, k.proc = h.proc, k.out = h.out
  PROVE  Good(k, b, j, o)
BY DEF Good

LEMMA DropFacts ==
  ASSUME NEW h, HidShape(h)
  PROVE  LET k == [h EXCEPT !.rx = None]
         IN  HidShape(k) /\ k.rx = None /\ k.proc = h.proc /\ k.out = h.out /\ k.queue = h.queue
BY DEF HidShape

LEMMA RespondFacts ==
  ASSUME NEW h, HidShape(h), NEW n
  PROVE  LET k == Respond(h, n)
         IN  /\ HidShape(k) /\ k.rx = h.rx
             /\ h.proc = None => k.proc = h.proc /\ k.out = h.out
             /\ h.proc # None => k.proc = None /\ k.out = Answer(h.proc.ch, n)
BY DEF HidShape, Respond

(* An answer for the request being processed, whose body goes in the block. *)
LEMMA RespondGood ==
  ASSUME DeskAssumption, NEW h, NEW b, NEW j, NEW o, Good(h, b, j, o), j # NoJob,
         NEW n \in 1 .. MaxMore + 1
  PROVE  Good(Respond(h, n), j.body, NoJob, o)
<1> DEFINE k == Respond(h, n)
<1>1. HidShape(h) /\ h.rx = None /\ h.out = None /\ NoJob \in JobType
  BY DEF Good, JobType
<1>2. /\ HidShape(k) /\ k.rx = None /\ k.proc = None
      /\ h.proc = None => k.out = None
      /\ h.proc # None => k.out = Answer(h.proc.ch, n)
  BY <1>1, RespondFacts
<1> HIDE DEF k
<1>3. j.body = j.body /\ o \in [Channels -> Nat] /\ (h.proc = None \/ h.proc \in Proc)
  BY DEF Good
<1>4. Good(k, j.body, NoJob, o)
  <2>1. CASE h.proc = None
    BY <1>1, <1>2, <1>3, <2>1 DEF Good
  <2>2. CASE h.proc # None
    <3>1. h.proc.ch \in Channels
      BY <1>3, <2>2 DEF Proc
    <3>2. Answer(h.proc.ch, n) \in Out /\ Answer(h.proc.ch, n).ch = h.proc.ch
      BY <3>1 DEF Answer, Out
    <3>3. j.body = o[h.proc.ch] /\ o[h.proc.ch] # 0
      BY <2>2 DEF Good
    <3>4. k.out \in Out /\ k.out.ch = h.proc.ch
      BY <1>2, <2>2, <3>2
    <3> QED BY <1>1, <1>2, <1>3, <3>3, <3>4 DEF Good
  <2> QED BY <2>1, <2>2
<1> QED BY <1>4 DEF k

-----------------------------------------------------------------------------
(* Reports. *)

LEMMA LeasedGood ==
  ASSUME DeskAssumption, DeskGood, NEW b \in Leased
  PROVE  Good(hid, b, desk.job, owed) /\ (b # None => desk.job = NoJob)
<1>1. None \notin Nat /\ Scratch \in Nat
  BY DEF DeskAssumption, Scratch
<1>2. CASE desk.buf = None /\ desk.job = NoJob
  <2>1. hid.rx = None
    BY <1>1, <1>2 DEF DeskGood, Good
  <2>2. hid.out = None
    <3>1. hid.out # None => hid.out.ch \in Channels
      BY DEF DeskGood, Good, Out
    <3> QED BY <1>1, <1>2, <3>1 DEF DeskGood, Good
  <2> QED BY <1>2, <2>1, <2>2 DEF DeskGood, Good
<1>3. CASE ~(desk.buf = None /\ desk.job = NoJob)
  BY <1>3 DEF Leased, DeskGood, Good
<1> QED BY <1>2, <1>3

LEMMA DeskBuf ==
  ASSUME DeskGood, NEW b, desk' = [desk EXCEPT !.buf = b]
  PROVE  DeskShape(desk') /\ desk'.buf = b /\ desk'.job = desk.job
BY DEF DeskGood, DeskShape

(* A report that changes no more than the queue and what is arriving. *)
LEMMA ReportHolds ==
  ASSUME DeskAssumption, DeskGood, NEW b \in Leased, desk' = [desk EXCEPT !.buf = b],
         HidShape(hid'), hid'.rx \in {hid.rx, None}, hid'.proc = hid.proc, hid'.out = hid.out,
         UNCHANGED <<msgs, owed>>
  PROVE  DeskGood'
<1>1. Good(hid', b, desk.job, owed)
  BY LeasedGood, GoodSame
<1> QED BY <1>1, DeskBuf DEF DeskGood

(* A whole message: answered from the block, lent with it, or queued for. *)
LEMMA CompleteHolds ==
  ASSUME DeskAssumption, DeskGood, NEW c \in Channels, NEW cmd \in Commands,
         desk.job = NoJob, hid.out = None, hid.proc = None, Complete(c, cmd)
  PROVE  DeskGood'
<1> DEFINE id == msgs + 1
           h  == [hid EXCEPT !.rx = None]
           waits == [owed EXCEPT ![c] = id]
<1>1. /\ id \in Nat /\ id # 0 /\ waits \in [Channels -> Nat] /\ waits[c] = id
      /\ owed \in [Channels -> Nat] /\ NoJob \in JobType
  BY DEF DeskGood, Good, JobType
<1>2. HidShape(h) /\ h.rx = None /\ h.proc = None /\ h.out = None
  BY DropFacts DEF DeskGood, Good
<1>3. None \notin Nat /\ Scratch \in Nat
  BY DEF DeskAssumption, Scratch
<1>4. CASE cmd \in {"ping", "quick"}
  <2>1. PICK n \in 1 .. MaxMore + 1 :
          hid' = [h EXCEPT !.out = Answer(c, n)] /\ desk' = [desk EXCEPT !.buf = id]
    BY <1>4 DEF Complete
  <2>2. msgs' = id /\ owed' = waits
    BY <1>4 DEF Complete, Numbered
  <2>3. Answer(c, n) \in Out /\ Answer(c, n).ch = c
    BY DEF Answer, Out
  <2> DEFINE a == Answer(c, n)
  <2> HIDE DEF a, h, id, waits
  <2>4. hid' = [next |-> h.next, rx |-> None, proc |-> None, out |-> a, queue |-> h.queue]
    BY <1>2, <2>1 DEF HidShape, a
  <2>5. HidShape(hid') /\ hid'.rx = None /\ hid'.proc = None /\ hid'.out = a
    BY <1>2, <2>4 DEF HidShape
  <2>6. Good(hid', id, NoJob, waits)
    BY <1>1, <2>3, <2>5 DEF Good, a
  <2> QED BY <1>1, <2>1, <2>2, <2>6, DeskBuf DEF DeskGood
<1>5. CASE cmd = "ask"
  <2> DEFINE p == [ch |-> c, cancelled |-> FALSE]
             j == [st |-> "queued", body |-> id]
  <2>1. hid' = [h EXCEPT !.proc = p] /\ desk' = [desk EXCEPT !.buf = None, !.job = j]
    BY <1>5 DEF Complete
  <2>2. msgs' = id /\ owed' = waits
    BY <1>5 DEF Complete, Numbered
  <2>3. p \in Proc /\ p.ch = c
    BY DEF Proc
  <2>4. j \in JobType /\ j.body = id /\ j.st = "queued" /\ j # NoJob
    BY <1>1 DEF JobType, NoJob
  <2> HIDE DEF p, j, h, id, waits
  <2>5. hid' = [next |-> h.next, rx |-> None, proc |-> p, out |-> None, queue |-> h.queue]
    BY <1>2, <2>1 DEF HidShape
  <2>6. HidShape(hid') /\ hid'.rx = None /\ hid'.proc = p /\ hid'.out = None
    BY <1>2, <2>5 DEF HidShape
  <2>7. desk' = [buf |-> None, job |-> j, wire |-> desk.wire, wink |-> desk.wink]
    BY <2>1 DEF DeskGood, DeskShape
  <2>8. DeskShape(desk') /\ desk'.buf = None /\ desk'.job = j
    BY <2>7 DEF DeskShape
  <2>9. Good(hid', None, j, waits)
    BY <1>1, <2>3, <2>4, <2>6 DEF Good
  <2> QED BY <1>1, <2>2, <2>8, <2>9 DEF DeskGood
<1>6. CASE cmd \in {"wink", "unknown"}
  <2>1. hid' = Push(h, c, "wink") \/ hid' = Push(h, c, "error")
    BY <1>6 DEF Complete, Error
  <2>2. UNCHANGED <<msgs, owed>>
    BY <1>6 DEF Complete, Numbered
  <2> DEFINE yes == TRUE
  <2>3. desk' = [desk EXCEPT !.wink = yes, !.buf = Scratch] \/ desk' = [desk EXCEPT !.buf = Scratch]
    BY <1>6 DEF Complete
  <2> HIDE DEF yes, h
  <2>4. HidShape(hid') /\ hid'.rx = None /\ hid'.proc = None /\ hid'.out = None
    BY <1>2, <2>1, PushFacts DEF Whats
  <2>5. DeskShape(desk') /\ desk'.buf = Scratch /\ desk'.job = NoJob
    BY <2>3 DEF DeskGood, DeskShape
  <2>6. Good(hid', Scratch, NoJob, owed)
    BY <1>1, <2>4 DEF Good
  <2> QED BY <2>2, <2>5, <2>6 DEF DeskGood
<1> QED BY <1>4, <1>5, <1>6 DEF Commands, Numbered

LEMMA ErrorDrops ==
  ASSUME NEW h, HidShape(h), NEW c \in Channels,
         NEW dropped \in {h, [h EXCEPT !.rx = None]}, NEW w \in Whats
  PROVE  LET k == Push(dropped, c, w)
         IN  HidShape(k) /\ k.rx \in {h.rx, None} /\ k.proc = h.proc /\ k.out = h.out
<1>1. HidShape(dropped) /\ dropped.rx \in {h.rx, None} /\ dropped.proc = h.proc /\ dropped.out = h.out
  BY DropFacts
<1> QED BY <1>1, PushFacts

LEMMA FeedFirstHolds ==
  ASSUME DeskAssumption, DeskGood, NEW c \in Channels, NEW cmd \in Commands,
         NEW more \in 0 .. MaxMore, NEW fits \in BOOLEAN, FeedFirst(c, cmd, more, fits)
  PROVE  DeskGood'
<1>0. HidShape(hid)
  BY DEF DeskGood, Good
<1>1. PICK b \in Leased :
        IF ~Accepts(c, b) \/ ~fits
        THEN /\ hid' = Error(IF hid.proc = None /\ On(hid.rx, c)
                             THEN [hid EXCEPT !.rx = None] ELSE hid, c)
             /\ desk' = [desk EXCEPT !.buf = b]
             /\ UNCHANGED <<msgs, owed>>
        ELSE IF more = 0 THEN Complete(c, cmd)
        ELSE /\ hid' = [hid EXCEPT !.rx = [ch |-> c, cmd |-> cmd, left |-> more]]
             /\ desk' = [desk EXCEPT !.buf = Scratch]
             /\ UNCHANGED <<msgs, owed>>
  BY DEF FeedFirst
<1>2. CASE ~Accepts(c, b) \/ ~fits
  <2> DEFINE dropped == IF hid.proc = None /\ On(hid.rx, c) THEN [hid EXCEPT !.rx = None] ELSE hid
  <2>1. hid' = Push(dropped, c, "error") /\ dropped \in {hid, [hid EXCEPT !.rx = None]}
    BY <1>1, <1>2 DEF Error
  <2>2. /\ HidShape(hid') /\ hid'.rx \in {hid.rx, None}
        /\ hid'.proc = hid.proc /\ hid'.out = hid.out
    BY <1>0, <2>1, ErrorDrops DEF Whats
  <2> QED BY <1>1, <1>2, <2>2, ReportHolds
<1>3. CASE Accepts(c, b) /\ fits
  <2>1. hid.proc = None /\ hid.rx = None /\ hid.out = None /\ desk.job = NoJob
    BY <1>3, LeasedGood DEF Accepts, NeedsBuffer
  <2>2. CASE more = 0
    BY <1>1, <1>3, <2>1, <2>2, CompleteHolds
  <2>3. CASE more # 0
    <3> DEFINE r == [ch |-> c, cmd |-> cmd, left |-> more]
    <3>1. hid' = [hid EXCEPT !.rx = r] /\ desk' = [desk EXCEPT !.buf = Scratch] /\ UNCHANGED <<msgs, owed>>
      BY <1>1, <1>3, <2>3
    <3>2. r \in Rx
      BY <2>3, DeskAssumption DEF Rx, DeskAssumption
    <3> HIDE DEF r
    <3>3. HidShape(hid') /\ hid'.rx = r /\ hid'.proc = None /\ hid'.out = None
      BY <1>0, <2>1, <3>1 DEF HidShape
    <3>4. Good(hid', Scratch, NoJob, owed)
      BY <2>1, <3>2, <3>3 DEF DeskGood, Good
    <3> QED BY <2>1, <3>1, <3>4, DeskBuf DEF DeskGood
  <2> QED BY <2>2, <2>3
<1> QED BY <1>2, <1>3

LEMMA FeedContHolds ==
  ASSUME DeskAssumption, DeskGood, NEW c \in Channels, NEW inSeq \in BOOLEAN, FeedCont(c, inSeq)
  PROVE  DeskGood'
<1>0. HidShape(hid) /\ (hid.rx = None \/ hid.rx \in Rx)
  BY DEF DeskGood, Good
<1>1. PICK b \in Leased :
        IF ~On(hid.rx, c)
        THEN desk' = [desk EXCEPT !.buf = b] /\ UNCHANGED <<hid, msgs, owed>>
        ELSE IF ~inSeq \/ b = None
        THEN /\ hid' = Error([hid EXCEPT !.rx = None], c)
             /\ desk' = [desk EXCEPT !.buf = b] /\ UNCHANGED <<msgs, owed>>
        ELSE IF hid.rx.left = 1 THEN Complete(c, hid.rx.cmd)
        ELSE /\ hid' = [hid EXCEPT !.rx.left = @ - 1]
             /\ desk' = [desk EXCEPT !.buf = b] /\ UNCHANGED <<msgs, owed>>
  BY DEF FeedCont
<1>2. CASE ~On(hid.rx, c)
  BY <1>0, <1>1, <1>2, ReportHolds
<1>3. CASE On(hid.rx, c) /\ (~inSeq \/ b = None)
  <2>1. hid' = Push([hid EXCEPT !.rx = None], c, "error")
    BY <1>1, <1>3 DEF Error
  <2>2. /\ HidShape(hid') /\ hid'.rx \in {hid.rx, None}
        /\ hid'.proc = hid.proc /\ hid'.out = hid.out
    BY <1>0, <2>1, ErrorDrops DEF Whats
  <2> QED BY <1>1, <1>3, <2>2, ReportHolds
<1>4. CASE On(hid.rx, c) /\ inSeq /\ b # None
  <2>1. /\ hid.rx # None /\ hid.rx \in Rx /\ hid.out = None /\ hid.proc = None
        /\ desk.job = NoJob /\ desk.buf = Scratch
    BY <1>0, <1>4 DEF On, DeskGood, Good
  <2>2. CASE hid.rx.left = 1
    <3>1. Complete(c, hid.rx.cmd) /\ hid.rx.cmd \in Commands
      BY <1>1, <1>4, <2>1, <2>2 DEF Rx
    <3> QED BY <2>1, <3>1, CompleteHolds
  <2>3. CASE hid.rx.left # 1
    <3> DEFINE r == [hid.rx EXCEPT !.left = @ - 1]
    <3>1. hid' = [hid EXCEPT !.rx = r] /\ desk' = [desk EXCEPT !.buf = b] /\ UNCHANGED <<msgs, owed>>
      BY <1>1, <1>4, <2>3
    <3>2. r \in Rx
      <4>1. hid.rx.left - 1 \in 1 .. MaxMore
        BY <2>1, <2>3 DEF Rx, DeskAssumption
      <4>2. [hid.rx EXCEPT !.left = hid.rx.left - 1] \in Rx
        BY <2>1, <4>1 DEF Rx
      <4> QED BY <2>1, <4>2 DEF Rx
    <3> HIDE DEF r
    <3>3. HidShape(hid') /\ hid'.rx = r /\ hid'.proc = None /\ hid'.out = None
      BY <1>0, <2>1, <3>1 DEF HidShape
    <3>4. b = Scratch
      BY <2>1 DEF Leased, Scratch, DeskAssumption
    <3>5. Good(hid', Scratch, NoJob, owed)
      BY <2>1, <3>2, <3>3 DEF DeskGood, Good
    <3> QED BY <2>1, <3>1, <3>4, <3>5, DeskBuf DEF DeskGood
  <2> QED BY <2>2, <2>3
<1> QED BY <1>2, <1>3, <1>4

LEMMA FeedBroadcastHolds ==
  ASSUME DeskAssumption, DeskGood, NEW init \in BOOLEAN, FeedBroadcast(init)
  PROVE  DeskGood'
<1>0. HidShape(hid)
  BY DEF DeskGood, Good
<1>1. PICK b \in Leased : desk' = [desk EXCEPT !.buf = b]
  BY DEF FeedBroadcast
<1> DEFINE n == hid.next + 1
           h == [hid EXCEPT !.next = n]
<1>2. hid' = Push(h, Broadcast, "init") \/ hid' = Push(hid, Broadcast, "error")
  BY <1>0 DEF FeedBroadcast, Error, HidShape
<1> HIDE DEF n
<1>3. HidShape(h) /\ h.rx = hid.rx /\ h.proc = hid.proc /\ h.out = hid.out
  BY <1>0 DEF HidShape
<1> HIDE DEF h
<1>4. /\ HidShape(hid') /\ hid'.rx = hid.rx
      /\ hid'.proc = hid.proc /\ hid'.out = hid.out
  BY <1>0, <1>2, <1>3, PushFacts DEF Whats
<1> QED BY <1>1, <1>4, ReportHolds DEF FeedBroadcast

LEMMA VoidFacts ==
  ASSUME desk.job \in JobType
  PROVE  VoidJob \in JobType /\ (VoidJob # NoJob => desk.job # NoJob)
<1>1. CASE desk.job.st = "taken"
  <2> DEFINE yes == TRUE
  <2>1. VoidJob = [desk.job EXCEPT !.dead = yes] /\ yes \in BOOLEAN
    BY <1>1 DEF VoidJob
  <2> HIDE DEF yes
  <2>2. desk.job \in [st : {"taken"}, body : Nat, dead : BOOLEAN] /\ desk.job # NoJob
    BY <1>1 DEF JobType, NoJob
  <2>3. VoidJob \in [st : {"taken"}, body : Nat, dead : BOOLEAN]
    BY <2>1, <2>2
  <2> QED BY <2>2, <2>3 DEF JobType
<1>2. CASE desk.job.st # "taken"
  BY <1>2 DEF VoidJob, JobType
<1> QED BY <1>1, <1>2

LEMMA AbandonFacts ==
  ASSUME NEW h, HidShape(h), NEW c
  PROVE  LET k == Abandon(h, c)
         IN  /\ HidShape(k)
             /\ k.rx = IF On(h.rx, c) THEN None ELSE h.rx
             /\ k.proc = IF On(h.proc, c) THEN None ELSE h.proc
             /\ k.out = IF On(h.out, c) THEN None ELSE h.out
<1> DEFINE r == IF On(h.rx, c) THEN None ELSE h.rx
           p == IF On(h.proc, c) THEN None ELSE h.proc
           o == IF On(h.out, c) THEN None ELSE h.out
           i == [h EXCEPT !.rx = r]
           j == [i EXCEPT !.proc = p]
           k == [j EXCEPT !.out = o]
<1>1. HidShape(i) /\ i.rx = r /\ i.proc = h.proc /\ i.out = h.out
  BY DEF HidShape
<1>2. HidShape(j) /\ j.rx = r /\ j.proc = p /\ j.out = h.out
  <2> HIDE DEF i, p, r
  <2>1. j = [next |-> i.next, rx |-> i.rx, proc |-> p, out |-> i.out, queue |-> i.queue]
    BY <1>1 DEF HidShape
  <2> QED BY <1>1, <2>1 DEF HidShape
<1>3. HidShape(k) /\ k.rx = r /\ k.proc = p /\ k.out = o
  <2> HIDE DEF j, o, r, p
  <2>1. k = [next |-> j.next, rx |-> j.rx, proc |-> j.proc, out |-> o, queue |-> j.queue]
    BY <1>2 DEF HidShape
  <2> QED BY <1>2, <2>1 DEF HidShape
<1>4. Abandon(h, c) = k
  BY <1>1, <1>2 DEF Abandon
<1> QED BY <1>3, <1>4

(* A resync ends what its own channel was doing, and only that. *)
LEMMA FeedInitHolds ==
  ASSUME DeskAssumption, DeskGood, NEW c \in Channels, NEW wellFormed \in BOOLEAN,
         FeedInit(c, wellFormed)
  PROVE  DeskGood'
<1>0. HidShape(hid) /\ desk.job \in JobType
  BY DEF DeskGood, Good
<1>1. CASE ~Valid(c) \/ ~wellFormed
  <2>1. PICK b \in Leased : desk' = [desk EXCEPT !.buf = b]
    BY <1>1 DEF FeedInit
  <2>2. hid' = Push(hid, c, "error") /\ UNCHANGED <<msgs, owed>>
    BY <1>1 DEF FeedInit, Error
  <2>3. HidShape(hid') /\ hid'.rx = hid.rx /\ hid'.proc = hid.proc /\ hid'.out = hid.out
    BY <1>0, <2>2, PushFacts DEF Whats
  <2> QED BY <2>1, <2>2, <2>3, ReportHolds
<1>2. CASE Valid(c) /\ wellFormed
  <2> DEFINE job == IF On(hid.proc, c) THEN VoidJob ELSE desk.job
             o == [owed EXCEPT ![c] = 0]
             k == Abandon(hid, c)
  <2>1. PICK b \in Leased :
          desk' = [desk EXCEPT !.buf = b, !.job = IF On(hid.proc, c) THEN VoidJob ELSE @]
    BY <1>2 DEF FeedInit
  <2>2. hid' = Push(k, c, "init") /\ owed' = o /\ msgs' = msgs
    BY <1>2 DEF FeedInit
  <2>3. /\ HidShape(k)
        /\ k.rx = IF On(hid.rx, c) THEN None ELSE hid.rx
        /\ k.proc = IF On(hid.proc, c) THEN None ELSE hid.proc
        /\ k.out = IF On(hid.out, c) THEN None ELSE hid.out
    BY <1>0, AbandonFacts
  <2>4. job \in JobType /\ (job # NoJob => desk.job # NoJob)
    BY <1>0, VoidFacts
  <2>5. k.proc # None => job = desk.job
    BY <2>3
  <2> HIDE DEF k, job
  <2>6. HidShape(hid') /\ hid'.rx = k.rx /\ hid'.proc = k.proc /\ hid'.out = k.out
    BY <2>2, <2>3, PushFacts DEF Whats
  <2>7. o \in [Channels -> Nat] /\ \A d \in Channels : d # c => o[d] = owed[d]
    BY DEF DeskGood, Good
  <2> HIDE DEF o
  <2>8. Good(hid, b, desk.job, owed)
    BY LeasedGood
  <2>9. Good(hid', b, job, o)
    <3>1. /\ HidShape(hid') /\ job \in JobType /\ o \in [Channels -> Nat]
          /\ hid'.rx = None \/ hid'.rx \in Rx
          /\ hid'.proc = None \/ hid'.proc \in Proc
          /\ hid'.out = None \/ hid'.out \in Out
      BY <2>3, <2>4, <2>6, <2>7, <2>8 DEF Good
    <3>2. /\ job # NoJob => b = None /\ hid'.rx = None /\ hid'.out = None
          /\ hid'.rx # None => b = Scratch /\ hid'.out = None /\ hid'.proc = None
      BY <2>3, <2>4, <2>6, <2>8 DEF Good
    <3>3. hid'.out # None => b = o[hid'.out.ch] /\ o[hid'.out.ch] # 0 /\ hid'.proc = None
      <4> SUFFICES ASSUME hid'.out # None
                   PROVE  b = o[hid'.out.ch] /\ o[hid'.out.ch] # 0 /\ hid'.proc = None
        OBVIOUS
      <4>1. hid'.out = hid.out /\ hid.out # None /\ hid.out.ch # c
        BY <2>3, <2>6 DEF On
      <4>2. hid.out.ch \in Channels /\ hid.proc = None
        BY <2>8, <4>1 DEF Good, Out
      <4>3. b = owed[hid.out.ch] /\ owed[hid.out.ch] # 0
        BY <2>8, <4>1 DEF Good
      <4> QED BY <2>3, <2>6, <2>7, <4>1, <4>2, <4>3
    <3>4. hid'.proc # None => /\ job # NoJob /\ job.body = o[hid'.proc.ch] /\ o[hid'.proc.ch] # 0
                              /\ job.st = "taken" => ~job.dead
      <4> SUFFICES ASSUME hid'.proc # None
                   PROVE  /\ job # NoJob /\ job.body = o[hid'.proc.ch] /\ o[hid'.proc.ch] # 0
                          /\ job.st = "taken" => ~job.dead
        OBVIOUS
      <4>1. hid'.proc = hid.proc /\ hid.proc # None /\ hid.proc.ch # c /\ job = desk.job
        BY <2>3, <2>5, <2>6 DEF On
      <4>2. hid.proc.ch \in Channels
        BY <2>8, <4>1 DEF Good, Proc
      <4>3. /\ desk.job # NoJob /\ desk.job.body = owed[hid.proc.ch] /\ owed[hid.proc.ch] # 0
            /\ desk.job.st = "taken" => ~desk.job.dead
        BY <2>8, <4>1 DEF Good
      <4> QED BY <2>7, <4>1, <4>2, <4>3
    <3> QED BY <3>1, <3>2, <3>3, <3>4 DEF Good
  <2>10. DeskShape(desk') /\ desk'.buf = b /\ desk'.job = job
    BY <2>1 DEF DeskGood, DeskShape, job
  <2> QED BY <2>2, <2>9, <2>10 DEF DeskGood
<1> QED BY <1>1, <1>2

LEMMA FeedCancelHolds ==
  ASSUME DeskAssumption, DeskGood, NEW c \in Channels, FeedCancel(c)
  PROVE  DeskGood'
<1>0. HidShape(hid) /\ (hid.proc = None \/ hid.proc \in Proc)
  BY DEF DeskGood, Good
<1>1. PICK b \in Leased : desk' = [desk EXCEPT !.buf = b]
  BY DEF FeedCancel
<1>2. CASE hid' = hid \/ hid' = Push(hid, c, "error")
  <2>1. HidShape(hid') /\ hid'.rx = hid.rx /\ hid'.proc = hid.proc /\ hid'.out = hid.out
    BY <1>0, <1>2, PushFacts DEF Whats
  <2> QED BY <1>1, <2>1, ReportHolds DEF FeedCancel
<1>3. CASE On(hid.proc, c) /\ hid' = [hid EXCEPT !.proc.cancelled = TRUE]
  <2> DEFINE p == [hid.proc EXCEPT !.cancelled = TRUE]
  <2>1. hid' = [hid EXCEPT !.proc = p]
    BY <1>3
  <2>2. p \in Proc /\ p.ch = hid.proc.ch /\ hid.proc # None
    BY <1>0, <1>3 DEF On, Proc
  <2> HIDE DEF p
  <2>3. HidShape(hid') /\ hid'.rx = hid.rx /\ hid'.proc = p /\ hid'.out = hid.out
    BY <1>0, <2>1 DEF HidShape
  <2>4. Good(hid, b, desk.job, owed)
    BY LeasedGood
  <2>5. Good(hid', b, desk.job, owed)
    BY <2>2, <2>3, <2>4 DEF Good
  <2> QED BY <1>1, <2>5, DeskBuf DEF FeedCancel, DeskGood
<1> QED BY <1>2, <1>3 DEF FeedCancel, Error

LEMMA ResetHolds ==
  ASSUME DeskGood, Reset
  PROVE  DeskGood'
<1> DEFINE d == [buf |-> None, job |-> VoidJob, wire |-> None, wink |-> FALSE]
           o == [c \in Channels |-> 0]
<1>1. VoidJob \in JobType /\ o \in [Channels -> Nat]
  BY VoidFacts DEF DeskGood, Good
<1>2. DeskShape(d) /\ d.buf = None /\ d.job = VoidJob
  BY DEF DeskShape
<1>3. hid' = [next |-> hid.next, rx |-> None, proc |-> None, out |-> None, queue |-> <<>>]
  BY DEF Reset, DeskGood, Good, HidShape
<1>4. HidShape(hid') /\ hid'.rx = None /\ hid'.proc = None /\ hid'.out = None
  BY <1>3 DEF HidShape
<1>5. Good(hid', None, VoidJob, o)
  BY <1>1, <1>4 DEF Good
<1> QED BY <1>2, <1>5 DEF Reset, DeskGood

-----------------------------------------------------------------------------
(* The UI task. *)

LEMMA ServeHolds ==
  ASSUME DeskGood, Serve
  PROVE  DeskGood'
<1> DEFINE no == FALSE
           j == [st |-> "taken", body |-> desk.job.body, dead |-> no]
<1>0. no \in BOOLEAN /\ ~no
  OBVIOUS
<1>1. CASE desk.job.st = "queued"
  <2>1. desk.job \in [st : {"queued"}, body : Nat] /\ desk.job # NoJob
    BY <1>1 DEF DeskGood, Good, JobType, NoJob
  <2>2. desk' = [buf |-> desk.buf, job |-> j, wire |-> desk.wire, wink |-> no]
    BY <1>1 DEF Serve, DeskGood, DeskShape
  <2> HIDE DEF no
  <2>3. j \in [st : {"taken"}, body : Nat, dead : BOOLEAN] /\ j.body = desk.job.body /\ j.dead = no
    BY <1>0, <2>1
  <2>4. j \in JobType
    BY <2>3 DEF JobType
  <2> HIDE DEF j
  <2>5. DeskShape(desk') /\ desk'.buf = desk.buf /\ desk'.job = j
    BY <2>2 DEF DeskShape
  <2>6. Good(hid, desk.buf, j, owed)
    <3>1. j # NoJob
      BY <2>3 DEF NoJob
    <3> QED BY <1>0, <2>1, <2>3, <2>4, <3>1 DEF DeskGood, Good
  <2> QED BY <2>5, <2>6 DEF Serve, DeskGood
<1>2. CASE desk.job.st # "queued"
  <2>1. desk' = [desk EXCEPT !.wink = no]
    BY <1>2 DEF Serve
  <2> HIDE DEF no
  <2>2. DeskShape(desk') /\ desk'.buf = desk.buf /\ desk'.job = desk.job
    BY <2>1 DEF DeskGood, DeskShape
  <2> QED BY <1>2, <2>2 DEF Serve, DeskGood
<1> QED BY <1>1, <1>2

LEMMA FinishHolds ==
  ASSUME DeskAssumption, DeskGood, Finish
  PROVE  DeskGood'
<1>1. CASE desk.job.st = "taken" /\ desk.job.body = ui
  <2>1. desk.job # NoJob /\ desk.job \in [st : {"taken"}, body : Nat, dead : BOOLEAN]
    BY <1>1 DEF DeskGood, Good, JobType, NoJob
  <2> DEFINE b == IF Wanted THEN ui ELSE desk.buf
  <2>2. desk' = [desk EXCEPT !.job = NoJob, !.buf = b]
    BY <1>1 DEF Finish, DeskGood, DeskShape
  <2> HIDE DEF b
  <2>3. DeskShape(desk') /\ desk'.buf = b /\ desk'.job = NoJob
    BY <2>2 DEF DeskGood, DeskShape
  <2>4. UNCHANGED <<msgs, owed>>
    BY DEF Finish
  <2>5. CASE Wanted
    <3>1. PICK n \in 1 .. MaxMore + 1 : hid' = Respond(hid, n)
      BY <1>1, <2>5 DEF Finish
    <3>2. b = desk.job.body
      BY <1>1, <2>5 DEF b
    <3>3. Good(hid', b, NoJob, owed)
      BY <2>1, <3>1, <3>2, RespondGood DEF DeskGood
    <3> QED BY <2>3, <2>4, <3>3 DEF DeskGood
  <2>6. CASE ~Wanted
    <3>1. hid' = hid /\ b = desk.buf /\ desk.job.dead
      BY <1>1, <2>1, <2>6 DEF Finish, Wanted, b
    <3>2. hid.proc = None /\ NoJob \in JobType
      BY <1>1, <3>1 DEF DeskGood, Good, JobType
    <3>3. Good(hid', b, NoJob, owed)
      BY <2>1, <3>1, <3>2 DEF DeskGood, Good
    <3> QED BY <2>3, <2>4, <3>3 DEF DeskGood
  <2> QED BY <2>5, <2>6
<1>2. CASE ~(desk.job.st = "taken" /\ desk.job.body = ui)
  BY <1>2 DEF Finish, DeskGood
<1> QED BY <1>1, <1>2

-----------------------------------------------------------------------------
(* One poll. *)

(* The next report goes; with an answer's last one its program waits no more. *)
LEMMA SendingGood ==
  ASSUME DeskAssumption, NEW h, NEW b, NEW j, NEW o, Good(h, b, j, o)
  PROVE  LET w == NextPacket(h, b)
         IN  Good(Sending(h, b), b, j,
                  IF Sends(h, b) /\ w.what = "answer" /\ w.last THEN [o EXCEPT ![w.ch] = 0] ELSE o)
<1> DEFINE w == NextPacket(h, b)
           k == Sending(h, b)
           p == IF Sends(h, b) /\ w.what = "answer" /\ w.last THEN [o EXCEPT ![w.ch] = 0] ELSE o
<1>0. /\ HidShape(h) /\ j \in JobType /\ o \in [Channels -> Nat] /\ None \notin Nat
      /\ h.out = None \/ h.out \in Out
  BY DEF Good, DeskAssumption
<1>1. CASE h.out # None
  <2>1. /\ h.out \in Out /\ h.out.ch \in Channels /\ h.rx = None /\ h.proc = None /\ j = NoJob
        /\ b = o[h.out.ch] /\ o[h.out.ch] # 0
    BY <1>0, <1>1 DEF Good, Out
  <2>2. b \in Nat /\ b # None
    BY <1>0, <2>1
  <2>3. w.ch = h.out.ch /\ w.what = "answer" /\ w.last = (h.out.left = 1) /\ Sends(h, b)
    BY <1>1, <2>2 DEF NextPacket, Packet, Sends
  <2>4. CASE h.out.left = 1
    <3>1. k = [h EXCEPT !.out = None]
      BY <1>0, <1>1, <2>4 DEF Sending, HidShape
    <3>2. HidShape(k) /\ k.rx = None /\ k.proc = None /\ k.out = None
      BY <1>0, <2>1, <3>1 DEF HidShape
    <3>3. p \in [Channels -> Nat]
      BY <1>0, <2>1
    <3> HIDE DEF k, p
    <3>4. Good(k, b, j, p)
      BY <1>0, <2>1, <3>2, <3>3 DEF Good
    <3> QED BY <3>4 DEF k, p
  <2>5. CASE h.out.left # 1
    <3> DEFINE a == Answer(h.out.ch, h.out.left - 1)
    <3>1. k = [h EXCEPT !.out = a] /\ p = o
      BY <1>0, <1>1, <2>2, <2>3, <2>5 DEF Sending, HidShape
    <3>2. a \in Out /\ a.ch = h.out.ch
      <4>1. h.out.left - 1 \in 1 .. MaxMore + 1
        BY <2>1, <2>5 DEF Out, DeskAssumption
      <4> QED BY <2>1, <4>1 DEF Answer, Out
    <3> HIDE DEF a
    <3>3. HidShape(k) /\ k.rx = None /\ k.proc = None /\ k.out = a
      BY <1>0, <2>1, <3>1 DEF HidShape
    <3> HIDE DEF k, p
    <3>4. Good(k, b, j, p)
      BY <1>0, <2>1, <3>1, <3>2, <3>3 DEF Good
    <3> QED BY <3>4 DEF k, p
  <2> QED BY <2>4, <2>5
<1>2. CASE h.out = None /\ h.queue # <<>>
  <2>1. w.what # "answer"
    <3>1. Head(h.queue) \in Small
      BY <1>0, <1>2 DEF HidShape
    <3>2. w.what = Head(h.queue).what
      BY <1>2 DEF NextPacket, Packet
    <3> QED BY <3>1, <3>2 DEF Small
  <2> DEFINE q == Tail(h.queue)
  <2>2. k = [h EXCEPT !.queue = q] /\ p = o
    BY <1>0, <1>2, <2>1 DEF Sending, HidShape
  <2>3. q \in Seq(Small)
    BY <1>0, <1>2 DEF HidShape
  <2> HIDE DEF q
  <2>4. HidShape(k) /\ k.rx = h.rx /\ k.proc = h.proc /\ k.out = h.out
    BY <1>0, <2>2, <2>3 DEF HidShape
  <2> HIDE DEF k, p
  <2>5. Good(k, b, j, p)
    BY <2>2, <2>4, GoodSame
  <2> QED BY <2>5 DEF k, p
<1>3. CASE h.out = None /\ h.queue = <<>>
  <2>1. k = h /\ p = o
    BY <1>3 DEF Sending, Sends
  <2> QED BY <2>1
<1> QED BY <1>1, <1>2, <1>3

LEMMA PumpHolds ==
  ASSUME DeskAssumption, DeskGood, NEW rxDue \in BOOLEAN, NEW kaDue \in BOOLEAN,
         NEW jobDue \in BOOLEAN, NEW taken \in BOOLEAN, Pump(rxDue, kaDue, jobDue, taken)
  PROVE  DeskGood'
<1> DEFINE h0   == TimeOutArrival(hid, rxDue)
           h1   == Keepalive(h0, kaDue)
           late == jobDue /\ desk.job.st = "queued"
           h2   == IF late THEN TimeoutAnswer(h1) ELSE h1
           b2   == IF late THEN desk.job.body ELSE desk.buf
           job2 == IF late THEN NoJob ELSE desk.job
           free == desk.wire = None
           h3   == IF free THEN Sending(h2, b2) ELSE h2
           new  == free /\ Sends(h2, b2)
           w3   == IF new THEN NextPacket(h2, b2) ELSE desk.wire
           b3   == IF Idle(h3) /\ job2 = NoJob /\ w3 = None THEN None ELSE b2
           o3   == IF new /\ w3.what = "answer" /\ w3.last THEN [owed EXCEPT ![w3.ch] = 0] ELSE owed
<1>1. /\ hid' = h3 /\ owed' = o3 /\ UNCHANGED msgs
      /\ desk' = [desk EXCEPT !.buf = b3, !.job = job2, !.wire = IF taken THEN None ELSE w3]
  BY DEF Pump
<1>2. HidShape(h0) /\ h0.rx \in {hid.rx, None} /\ h0.proc = hid.proc /\ h0.out = hid.out
  <2>1. CASE rxDue /\ hid.rx # None
    <3>1. hid.rx.ch \in Channels /\ HidShape(hid)
      BY <2>1 DEF DeskGood, Good, Rx
    <3>2. h0 = Push([hid EXCEPT !.rx = None], hid.rx.ch, "error")
      BY <2>1 DEF TimeOutArrival, Error
    <3> QED BY <3>1, <3>2, ErrorDrops DEF Whats
  <2>2. CASE ~(rxDue /\ hid.rx # None)
    BY <2>2 DEF TimeOutArrival, DeskGood, Good
  <2> QED BY <2>1, <2>2
<1> HIDE DEF h0
<1>3. Good(h0, desk.buf, desk.job, owed)
  BY <1>2, GoodSame DEF DeskGood
<1>4. Good(h1, desk.buf, desk.job, owed)
  <2>1. CASE h1 = h0
    BY <1>3, <2>1
  <2>2. CASE h0.proc # None /\ h1 = Push(h0, h0.proc.ch, "keepalive")
    <3>1. h0.proc.ch \in Channels
      BY <1>3, <2>2 DEF Good, Proc
    <3> HIDE DEF h1
    <3>2. HidShape(h1) /\ h1.rx = h0.rx /\ h1.proc = h0.proc /\ h1.out = h0.out
      BY <1>2, <2>2, <3>1, PushFacts DEF Whats
    <3> QED BY <1>3, <3>2, GoodSame
  <2> QED BY <2>1, <2>2 DEF Keepalive
<1> HIDE DEF h1
<1>5. Good(h2, b2, job2, owed)
  <2>1. CASE late
    <3>1. desk.job # NoJob /\ 1 \in 1 .. MaxMore + 1
      BY <2>1 DEF NoJob, DeskAssumption
    <3> QED BY <1>4, <2>1, <3>1, RespondGood DEF TimeoutAnswer
  <2>2. CASE ~late
    BY <1>4, <2>2
  <2> QED BY <2>1, <2>2
<1> HIDE DEF h2, b2
<1>6. Good(h3, b2, job2, o3)
  <2>1. CASE free
    BY <1>5, <2>1, SendingGood
  <2>2. CASE ~free
    BY <1>5, <2>2
  <2> QED BY <2>1, <2>2
<1> HIDE DEF h3, o3, job2, w3
<1>7. Good(h3, b3, job2, o3)
  BY <1>6 DEF Good, Idle
<1> HIDE DEF b3
<1>8. DeskShape(desk') /\ desk'.buf = b3 /\ desk'.job = job2
  BY <1>1 DEF DeskGood, DeskShape
<1> QED BY <1>1, <1>7, <1>8 DEF DeskGood

-----------------------------------------------------------------------------
LEMMA DeskInit == Init => DeskGood
<1> SUFFICES ASSUME Init PROVE DeskGood
  OBVIOUS
<1>1. HidShape(hid) /\ hid.rx = None /\ hid.proc = None /\ hid.out = None
  BY DEF Init, HidShape
<1>2. DeskShape(desk) /\ desk.buf = None /\ desk.job = NoJob
  BY DEF Init, DeskShape
<1>3. NoJob \in JobType /\ owed \in [Channels -> Nat] /\ msgs \in Nat
  BY DEF Init, JobType
<1> QED BY <1>1, <1>2, <1>3 DEF DeskGood, Good

LEMMA DeskStep == DeskGood /\ [Next]_vars => DeskGood'
<1> SUFFICES ASSUME DeskGood, [Next]_vars PROVE DeskGood'
  OBVIOUS
<1>0. DeskAssumption
  BY DeskAssumption
<1>1. CASE UNCHANGED vars
  BY <1>1 DEF vars, DeskGood
<1>2. CASE \E c \in Channels : Feed(c)
  <2>1. PICK c \in Channels : Feed(c)
    BY <1>2
  <2> QED BY <1>0, <2>1, FeedFirstHolds, FeedContHolds, FeedInitHolds, FeedCancelHolds DEF Feed
<1>3. CASE \E init \in BOOLEAN : FeedBroadcast(init)
  BY <1>0, <1>3, FeedBroadcastHolds
<1>4. CASE \E rxDue, kaDue, jobDue, taken \in BOOLEAN : Pump(rxDue, kaDue, jobDue, taken)
  BY <1>0, <1>4, PumpHolds
<1>5. CASE Reset \/ Serve \/ Finish
  BY <1>0, <1>5, ResetHolds, ServeHolds, FinishHolds
<1> QED BY <1>1, <1>2, <1>3, <1>4, <1>5 DEF Next

(* Block, job, transport and programs agree throughout (DeskGood above). *)
THEOREM DeskInvariant == Spec => []DeskGood
BY DeskInit, DeskStep, PTL DEF Spec

(* The block has one user at a time, for any number of channels and messages
   (feed, request, finish, tick). *)
THEOREM DeskOneUser == Spec => []OneUserOfTheBlock
<1>1. DeskGood => OneUserOfTheBlock
  <2> SUFFICES ASSUME DeskGood PROVE OneUserOfTheBlock
    OBVIOUS
  <2>1. hid.out # None => desk.buf # None
    <3>1. hid.out # None => hid.out.ch \in Channels
      BY DEF DeskGood, Good, Out
    <3>2. None \notin Nat
      BY DeskAssumption DEF DeskAssumption
    <3> QED BY <3>1, <3>2 DEF DeskGood, Good
  <2> QED BY <2>1 DEF DeskGood, Good, OneUserOfTheBlock
<1> QED BY <1>1, DeskInvariant, PTL

(* An answer being sent is the one to the message its program waits on, whatever
   was withdrawn, timed out or reset meanwhile (respond, finish, tick). *)
THEOREM DeskAnswers == Spec => []AnswersWhatWasAsked
<1>1. DeskGood => AnswersWhatWasAsked
  BY DEF DeskGood, Good, AnswersWhatWasAsked
<1> QED BY <1>1, DeskInvariant, PTL
-----------------------------------------------------------------------------
(* What one program's reports leave alone. *)

(* A slot of the transport changes hands only if it was free or channel c's,
   and then it is free or channel c's. *)
Mine(c, old, new) ==
  \/ new = old
  \/ /\ old = None \/ old.ch = c
     /\ new = None \/ new.ch = c

(* A step of channel c's program. *)
Keeps(c) ==
  /\ Mine(c, hid.rx, hid'.rx) /\ Mine(c, hid.proc, hid'.proc) /\ Mine(c, hid.out, hid'.out)
  /\ \A d \in Channels : d # c => owed'[d] = owed[d]

LEMMA KeepsApart ==
  ASSUME NEW c \in Channels, NEW d \in Channels, c # d, Keeps(c)
  PROVE  InFlight(d)' = InFlight(d)
<1>1. On(hid'.rx, d) = On(hid.rx, d)
  BY DEF Keeps, Mine, On
<1>2. On(hid'.proc, d) = On(hid.proc, d)
  BY DEF Keeps, Mine, On
<1>3. On(hid'.out, d) = On(hid.out, d)
  BY DEF Keeps, Mine, On
<1>4. owed'[d] = owed[d]
  BY DEF Keeps
<1>5. InFlight(d)' = <<On(hid'.rx, d), On(hid'.proc, d), On(hid'.out, d), owed'[d]>>
  BY DEF InFlight, On
<1> QED BY <1>1, <1>2, <1>3, <1>4, <1>5 DEF InFlight

LEMMA CompleteKeeps ==
  ASSUME DeskGood, NEW c \in Channels, NEW cmd \in Commands,
         hid.rx = None \/ hid.rx.ch = c, hid.out = None, hid.proc = None, Complete(c, cmd)
  PROVE  Keeps(c)
<1> DEFINE id == msgs + 1
           h  == [hid EXCEPT !.rx = None]
<1>1. HidShape(h) /\ h.rx = None /\ h.proc = None /\ h.out = None
  BY DropFacts DEF DeskGood, Good
<1>2. \A d \in Channels : d # c => owed'[d] = owed[d]
  BY DEF Complete, DeskGood, Good
<1>3. CASE cmd \in {"ping", "quick"}
  <2>1. PICK n \in 1 .. MaxMore + 1 : hid' = [h EXCEPT !.out = Answer(c, n)]
    BY <1>3 DEF Complete
  <2> DEFINE a == Answer(c, n)
  <2>2. a.ch = c
    BY DEF Answer
  <2> HIDE DEF a, h
  <2>3. hid'.rx = None /\ hid'.proc = None /\ hid'.out = a
    BY <1>1, <2>1 DEF HidShape, a
  <2> QED BY <1>2, <2>2, <2>3 DEF Keeps, Mine
<1>4. CASE cmd = "ask"
  <2> DEFINE p == [ch |-> c, cancelled |-> FALSE]
  <2>1. hid' = [h EXCEPT !.proc = p]
    BY <1>4 DEF Complete
  <2>2. p.ch = c
    OBVIOUS
  <2> HIDE DEF p, h
  <2>3. hid'.rx = None /\ hid'.proc = p /\ hid'.out = None
    BY <1>1, <2>1 DEF HidShape
  <2> QED BY <1>2, <2>2, <2>3 DEF Keeps, Mine
<1>5. CASE cmd \in {"wink", "unknown"}
  <2>1. hid' = Push(h, c, "wink") \/ hid' = Push(h, c, "error")
    BY <1>5 DEF Complete, Error
  <2> HIDE DEF h
  <2>2. hid'.rx = None /\ hid'.proc = None /\ hid'.out = None
    BY <1>1, <2>1, PushFacts DEF Whats
  <2> QED BY <1>2, <2>2 DEF Keeps, Mine
<1> QED BY <1>3, <1>4, <1>5 DEF Commands, Numbered

LEMMA FeedFirstKeeps ==
  ASSUME DeskAssumption, DeskGood, NEW c \in Channels, NEW cmd \in Commands,
         NEW more \in 0 .. MaxMore, NEW fits \in BOOLEAN, FeedFirst(c, cmd, more, fits)
  PROVE  Keeps(c)
<1>0. HidShape(hid)
  BY DEF DeskGood, Good
<1>1. PICK b \in Leased :
        IF ~Accepts(c, b) \/ ~fits
        THEN /\ hid' = Error(IF hid.proc = None /\ On(hid.rx, c)
                             THEN [hid EXCEPT !.rx = None] ELSE hid, c)
             /\ desk' = [desk EXCEPT !.buf = b]
             /\ UNCHANGED <<msgs, owed>>
        ELSE IF more = 0 THEN Complete(c, cmd)
        ELSE /\ hid' = [hid EXCEPT !.rx = [ch |-> c, cmd |-> cmd, left |-> more]]
             /\ desk' = [desk EXCEPT !.buf = Scratch]
             /\ UNCHANGED <<msgs, owed>>
  BY DEF FeedFirst
<1>2. CASE ~Accepts(c, b) \/ ~fits
  <2>1. CASE hid.proc = None /\ On(hid.rx, c)
    <3>1. hid' = Push([hid EXCEPT !.rx = None], c, "error")
      BY <1>1, <1>2, <2>1 DEF Error
    <3>2. hid'.rx \in {hid.rx, None} /\ hid'.proc = hid.proc /\ hid'.out = hid.out
      BY <1>0, <3>1, ErrorDrops DEF Whats
    <3> QED BY <1>1, <1>2, <2>1, <3>2 DEF Keeps, Mine, On
  <2>2. CASE ~(hid.proc = None /\ On(hid.rx, c))
    <3>1. hid' = Push(hid, c, "error")
      BY <1>1, <1>2, <2>2 DEF Error
    <3>2. hid'.rx = hid.rx /\ hid'.proc = hid.proc /\ hid'.out = hid.out
      BY <1>0, <3>1, PushFacts DEF Whats
    <3> QED BY <1>1, <1>2, <3>2 DEF Keeps, Mine
  <2> QED BY <2>1, <2>2
<1>3. CASE Accepts(c, b) /\ fits
  <2>1. hid.proc = None /\ hid.rx = None /\ hid.out = None
    BY <1>3 DEF Accepts, NeedsBuffer
  <2>2. CASE more = 0
    BY <1>1, <1>3, <2>1, <2>2, CompleteKeeps
  <2>3. CASE more # 0
    <3> DEFINE r == [ch |-> c, cmd |-> cmd, left |-> more]
    <3>1. hid' = [hid EXCEPT !.rx = r] /\ UNCHANGED owed
      BY <1>1, <1>3, <2>3
    <3>2. r.ch = c
      OBVIOUS
    <3> HIDE DEF r
    <3>3. hid'.rx = r /\ hid'.proc = None /\ hid'.out = None
      BY <1>0, <2>1, <3>1 DEF HidShape
    <3> QED BY <2>1, <3>1, <3>2, <3>3 DEF Keeps, Mine
  <2> QED BY <2>2, <2>3
<1> QED BY <1>2, <1>3

LEMMA FeedContKeeps ==
  ASSUME DeskAssumption, DeskGood, NEW c \in Channels, NEW inSeq \in BOOLEAN, FeedCont(c, inSeq)
  PROVE  Keeps(c)
<1>0. HidShape(hid) /\ (hid.rx = None \/ hid.rx \in Rx)
  BY DEF DeskGood, Good
<1>1. PICK b \in Leased :
        IF ~On(hid.rx, c)
        THEN desk' = [desk EXCEPT !.buf = b] /\ UNCHANGED <<hid, msgs, owed>>
        ELSE IF ~inSeq \/ b = None
        THEN /\ hid' = Error([hid EXCEPT !.rx = None], c)
             /\ desk' = [desk EXCEPT !.buf = b] /\ UNCHANGED <<msgs, owed>>
        ELSE IF hid.rx.left = 1 THEN Complete(c, hid.rx.cmd)
        ELSE /\ hid' = [hid EXCEPT !.rx.left = @ - 1]
             /\ desk' = [desk EXCEPT !.buf = b] /\ UNCHANGED <<msgs, owed>>
  BY DEF FeedCont
<1>2. CASE ~On(hid.rx, c)
  BY <1>1, <1>2 DEF Keeps, Mine
<1>3. CASE On(hid.rx, c) /\ (~inSeq \/ b = None)
  <2>1. hid' = Push([hid EXCEPT !.rx = None], c, "error")
    BY <1>1, <1>3 DEF Error
  <2>2. hid'.rx \in {hid.rx, None} /\ hid'.proc = hid.proc /\ hid'.out = hid.out
    BY <1>0, <2>1, ErrorDrops DEF Whats
  <2> QED BY <1>1, <1>3, <2>2 DEF Keeps, Mine, On
<1>4. CASE On(hid.rx, c) /\ inSeq /\ b # None
  <2>1. /\ hid.rx # None /\ hid.rx \in Rx /\ hid.rx.ch = c
        /\ hid.out = None /\ hid.proc = None
    BY <1>0, <1>4 DEF On, DeskGood, Good
  <2>2. CASE hid.rx.left = 1
    <3>1. Complete(c, hid.rx.cmd) /\ hid.rx.cmd \in Commands
      BY <1>1, <1>4, <2>1, <2>2 DEF Rx
    <3> QED BY <2>1, <3>1, CompleteKeeps
  <2>3. CASE hid.rx.left # 1
    <3> DEFINE r == [hid.rx EXCEPT !.left = @ - 1]
    <3>1. hid' = [hid EXCEPT !.rx = r] /\ UNCHANGED owed
      BY <1>1, <1>4, <2>3
    <3>2. r.ch = c
      BY <2>1 DEF Rx
    <3> HIDE DEF r
    <3>3. hid'.rx = r /\ hid'.proc = None /\ hid'.out = None
      BY <1>0, <2>1, <3>1 DEF HidShape
    <3> QED BY <2>1, <3>1, <3>2, <3>3 DEF Keeps, Mine
  <2> QED BY <2>2, <2>3
<1> QED BY <1>2, <1>3, <1>4

LEMMA FeedInitKeeps ==
  ASSUME DeskGood, NEW c \in Channels, NEW wellFormed \in BOOLEAN, FeedInit(c, wellFormed)
  PROVE  Keeps(c)
<1>0. HidShape(hid)
  BY DEF DeskGood, Good
<1>1. CASE ~Valid(c) \/ ~wellFormed
  <2>1. hid' = Push(hid, c, "error") /\ UNCHANGED owed
    BY <1>1 DEF FeedInit, Error
  <2>2. hid'.rx = hid.rx /\ hid'.proc = hid.proc /\ hid'.out = hid.out
    BY <1>0, <2>1, PushFacts DEF Whats
  <2> QED BY <2>1, <2>2 DEF Keeps, Mine
<1>2. CASE Valid(c) /\ wellFormed
  <2> DEFINE k == Abandon(hid, c)
  <2>1. hid' = Push(k, c, "init") /\ owed' = [owed EXCEPT ![c] = 0]
    BY <1>2 DEF FeedInit
  <2>2. \A d \in Channels : d # c => owed'[d] = owed[d]
    BY <2>1 DEF DeskGood, Good
  <2>3. /\ HidShape(k)
        /\ k.rx = IF On(hid.rx, c) THEN None ELSE hid.rx
        /\ k.proc = IF On(hid.proc, c) THEN None ELSE hid.proc
        /\ k.out = IF On(hid.out, c) THEN None ELSE hid.out
    BY <1>0, AbandonFacts
  <2> HIDE DEF k
  <2>4. hid'.rx = k.rx /\ hid'.proc = k.proc /\ hid'.out = k.out
    BY <2>1, <2>3, PushFacts DEF Whats
  <2> QED BY <2>2, <2>3, <2>4 DEF Keeps, Mine, On
<1> QED BY <1>1, <1>2

LEMMA FeedCancelKeeps ==
  ASSUME DeskGood, NEW c \in Channels, FeedCancel(c)
  PROVE  Keeps(c)
<1>0. HidShape(hid) /\ (hid.proc = None \/ hid.proc \in Proc) /\ UNCHANGED owed
  BY DEF DeskGood, Good, FeedCancel
<1>1. CASE hid' = hid \/ hid' = Push(hid, c, "error")
  <2>1. hid'.rx = hid.rx /\ hid'.proc = hid.proc /\ hid'.out = hid.out
    BY <1>0, <1>1, PushFacts DEF Whats
  <2> QED BY <1>0, <2>1 DEF Keeps, Mine
<1>2. CASE On(hid.proc, c) /\ hid' = [hid EXCEPT !.proc.cancelled = TRUE]
  <2> DEFINE p == [hid.proc EXCEPT !.cancelled = TRUE]
  <2>1. hid' = [hid EXCEPT !.proc = p]
    BY <1>2
  <2>2. p.ch = c /\ hid.proc.ch = c
    BY <1>0, <1>2 DEF On, Proc
  <2> HIDE DEF p
  <2>3. hid'.rx = hid.rx /\ hid'.proc = p /\ hid'.out = hid.out
    BY <1>0, <2>1 DEF HidShape
  <2> QED BY <1>0, <2>2, <2>3 DEF Keeps, Mine
<1> QED BY <1>1, <1>2 DEF FeedCancel, Error

(* Whatever one program sends, in whatever order, leaves every other program's
   message, request and answer as they were (feed, init, cancel): the block and
   the slot for the request are shared, but only their holder's reports can
   change whose they are. *)
THEOREM DeskNobodyDisturbs == Spec => NobodyDisturbsAnother
<1>1. ASSUME DeskGood, NEW c \in Channels, NEW d \in Channels, c # d, Feed(c)
      PROVE  InFlight(d)' = InFlight(d)
  <2>1. DeskAssumption
    BY DeskAssumption
  <2>2. Keeps(c)
    BY <1>1, <2>1, FeedFirstKeeps, FeedContKeeps, FeedInitKeeps, FeedCancelKeeps DEF Feed
  <2> QED BY <1>1, <2>2, KeepsApart
<1>2. DeskGood =>
        [\A c, d \in Channels : c # d /\ Feed(c) => InFlight(d)' = InFlight(d)]_vars
  BY <1>1
<1> QED BY <1>2, DeskInvariant, PTL DEF NobodyDisturbsAnother
=============================================================================
