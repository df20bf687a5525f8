------------------------------- MODULE Upgrade -------------------------------
(* A firmware image on its way in (catcard-upgrade, the firmware's usbtask,
   staging, sdupgrade, qrscan and ckcc, and the menu loop that asks): the one
   staging medium and who has it, the two USB transports that feed a transfer,
   a file, a scan, a ckcc upload, inspection, the question on the screen, the
   marker and the bootloader's answer.

   The USB task runs preemptively beside the UI task, so every step of one
   interleaves with every step of the other; a step is one with_task of the UI
   task or one pass of the USB poll.  The boards with PSRAM are modelled, after
   the unlock: on the mk3 the marker is the install and nothing returns.

   A byte is the image it belongs to and its place in it; a digest is the
   sequence of the bytes it was taken over. *)
EXTENDS Naturals, Sequences

CONSTANTS Images,     \* images a host, a card or a code may hold
          NoImage,
          Signed,     \* their signature verifies
          HighWater,  \* they set the anti-downgrade mark
          ImageLen,   \* length of each
          HeaderAt,   \* HEADER_OFFSET; one byte stands for the header
          Capacity,   \* bytes of the staging area
          Word,       \* 4 in the code
          MaxFrame    \* bound: bytes of an image one frame or chunk brings

ASSUME UpgradeAssumption ==
  /\ NoImage \notin Images /\ HighWater \subseteq Signed /\ Signed \subseteq Images
  /\ HeaderAt \in Nat /\ Word \in Nat \ {0} /\ MaxFrame \in Nat \ {0}
  /\ Capacity \in Nat /\ Capacity % Word = 0
  /\ ImageLen \in [Images -> HeaderAt + 1 .. Capacity]

VARIABLES
  msg,       \* msg[t]: the image message open on transport t (Reassembler, Chain)
  ckcc,      \* stock's identity is presented instead of ours
  stage,     \* Stage of the USB task
  staged,    \* its Staged, with the image the Approval beside it describes
  upload,    \* the ckcc desk's upload, its Store and how much it holds
  card,      \* the Staged of the file or scan on the UI task
  medium,    \* the staging area's bytes
  marker,    \* length the recovery header names, 0 for none
  ui,        \* where the UI task is
  key,       \* the key this pass of the menu loop read
  arriving,  \* `receiving` of the menu loop: the transfer screen is up
  shown,     \* image of the offer the loop has put up (showing_offer)
  drawn,     \* image of the offer the panel really shows
  asked,     \* `a` of the second question
  yes,       \* history: the offer drawn when the loop took a Confirm
  installed, \* image the bootloader installed; the machine is gone
  faulty,    \* history: the medium has failed or lost a write
  looked     \* history: the menu loop has looked since this image began

usb    == <<msg, ckcc, stage, staged, upload>>
store  == <<medium, marker>>
screen == <<ui, key, arriving, shown, drawn, asked, yes>>
ghosts == <<installed, faulty, looked>>
vars   == <<usb, card, store, screen, ghosts>>

Transports == {"hid", "ccid"}
Other(t) == CHOOSE u \in Transports : u # t

NoMessage == [img |-> NoImage, at |-> 0]
NoStaged == [len |-> 0, received |-> 0, carry |-> <<>>, stream |-> <<>>,
             scattered |-> FALSE, approval |-> NoImage]
Junk == <<NoImage, 0>>
Bytes(x, from, n) == [i \in 1 .. n |-> <<x, from + i - 1>>]
Put(m, at, data) ==
  [i \in DOMAIN m |-> IF i >= at /\ i < at + Len(data) THEN data[i - at + 1] ELSE m[i]]
Stored(m, n) == [i \in 1 .. n |-> m[i - 1]]

Init ==
  /\ msg = [t \in Transports |-> NoMessage] /\ ckcc \in BOOLEAN
  /\ stage = "idle" /\ staged = NoStaged /\ upload = NoMessage
  /\ card = NoStaged
  /\ medium = [i \in 0 .. Capacity - 1 |-> Junk] /\ marker = 0
  /\ ui = "keys" /\ key = "none" /\ arriving = FALSE
  /\ shown = NoImage /\ drawn = NoImage /\ asked = NoImage /\ yes = NoImage
  /\ installed = NoImage /\ faulty = FALSE /\ looked = FALSE

Alive == installed = NoImage

-----------------------------------------------------------------------------
(* The medium and its one holder. *)

Transferring == stage \in {"receiving", "unpacking"}
AnswerPending == stage \in {"offered", "approved"}

(* psram::take with the stage at st: a lease lives as long as the Staged, the
   Store or the screen that has it; commit consumes the Staged, so an approved
   image holds none. *)
Free(st) == /\ st \notin {"receiving", "unpacking", "offered"}
            /\ upload = NoMessage
            /\ card = NoStaged
            /\ ui # "scratch"

(* Time: an image takes seconds to cross a wire and a pass of the menu loop
   milliseconds, so the loop has looked before an image is whole, unless the UI
   task waits for a person or for a card. *)
Waits == {"question", "note", "rejected", "file", "file offer", "file question", "scratch"}
TimeToArrive == looked \/ ui \in Waits

(* What an earlier holder left in the medium is nothing to the one that takes
   it. *)
Taken == [i \in DOMAIN medium |-> Junk]

-----------------------------------------------------------------------------
(* Staged. *)

Begun(n) == [NoStaged EXCEPT !.len = n]
StoredElsewhere(n) == [Begun(n) EXCEPT !.scattered = TRUE, !.received = n]
PlacedAll(s) == [s EXCEPT !.received = s.len]

Joined(s, data) == s.carry \o data
Whole(s, data) == Len(Joined(s, data)) - (Len(Joined(s, data)) % Word)
PlaceOf(s) == s.received - Len(s.carry)

Hashed(s, data) == [s EXCEPT !.stream = @ \o data]
Accepted(s, data) ==
  [Hashed(s, data) EXCEPT
     !.received = @ + Len(data),
     !.carry = SubSeq(Joined(s, data), Whole(s, data) + 1, Len(Joined(s, data)))]

(* Bound: the medium fails once. *)
MayFail == ~faulty

Outcome(s, m, ok, hurt) == [s |-> s, m |-> m, ok |-> ok, hurt |-> hurt]
(* Staged::write of data into s over the medium m, every way it can end.  The
   stream is hashed before the medium is asked; the carried word goes out before
   the rest, so the rest may fail alone, and the medium may lose what it took. *)
Words(s, data) == SubSeq(Joined(s, data), 1, Whole(s, data))
Written(m, s, words) == Put(m, PlaceOf(s), words)
LosesByte(m, s, data) ==
  {Outcome(Accepted(s, data), Written(m, s, [Words(s, data) EXCEPT ![i] = Junk]), TRUE, TRUE) :
     i \in DOMAIN Words(s, data)}
Refuses(m, s, data) ==
  {Outcome(Hashed(s, data), m, FALSE, TRUE) : i \in DOMAIN Words(s, data)}
RefusesRest(m, s, data) ==
  {Outcome([Hashed(s, data) EXCEPT !.carry = <<>>],
           Written(m, s, SubSeq(Words(s, data), 1, Word)), FALSE, TRUE) :
     i \in {j \in DOMAIN Words(s, data) : s.carry # <<>> /\ j > Word}}
Writes(m, s, data) ==
  IF s.received + Len(data) > s.len
  THEN {Outcome(s, m, FALSE, FALSE)}
  ELSE {Outcome(Accepted(s, data), Written(m, s, Words(s, data)), TRUE, FALSE)}
       \cup (IF MayFail THEN LosesByte(m, s, data) \cup Refuses(m, s, data)
                             \cup RefusesRest(m, s, data)
             ELSE {})

(* Mutant: the tail stays in RAM. *)
Unsettled(s, m) == m
(* settle: the tail goes away padded to a word. *)
Settled(s, m) ==
  IF s.carry = <<>> THEN m
  ELSE Put(m, PlaceOf(s), s.carry \o [i \in 1 .. Word - Len(s.carry) |-> Junk])

Approved(s, x) == [s EXCEPT !.carry = <<>>, !.approval = x]

(* inspect on the settled medium m: the image the header names, when the digest
   of what arrived -- of what is stored, if it did not arrive in order -- is the
   one signed for it. *)
Digest(s, m) == IF s.scattered THEN Stored(m, s.len) ELSE s.stream
Passes(s, m, x) ==
  /\ s.received = s.len
  /\ m[HeaderAt] = <<x, HeaderAt>>
  /\ x \in Signed /\ ImageLen[x] = s.len
  /\ Digest(s, m) = Bytes(x, 0, s.len)

(* The ways settle and inspect end on s over m: the image they approve, or
   NoImage for a refusal, and what the medium holds then. *)
Verdict(x, m, hurt) == [x |-> x, m |-> m, hurt |-> hurt]
Inspects(s, m) ==
  LET good == {x \in Images : Passes(s, Settled(s, m), x)}
  IN {Verdict(x, Settled(s, m), FALSE) : x \in IF good = {} THEN {NoImage} ELSE good}
     \cup {Verdict(NoImage, m, TRUE) : i \in IF MayFail THEN DOMAIN s.carry ELSE {}}

-----------------------------------------------------------------------------
(* The USB task: image messages on either transport. *)

(* Mutant: a start on one transport leaves the other's message open. *)
Never(t) == FALSE
(* A message starting on t ends the one open on the other, and its transfer. *)
Interrupts(t) == msg[Other(t)] # NoMessage
OthersMessage(t) == IF Interrupts(t) THEN NoMessage ELSE msg[Other(t)]
Messages(t, m) == [u \in Transports |-> IF u = t THEN m ELSE OthersMessage(t)]

Dropped == IF Transferring THEN "idle" ELSE stage
KeptBy(st) == IF st = "idle" THEN NoStaged ELSE staged

(* finish_offer on the transfer s over the medium m. *)
Finish(s, m, hurt) ==
  \E v \in Inspects(s, m) :
    /\ medium' = v.m
    /\ faulty' = (faulty \/ hurt \/ v.hurt)
    /\ stage' = IF v.x = NoImage THEN "idle" ELSE "offered"
    /\ staged' = IF v.x = NoImage THEN NoStaged ELSE Approved(s, v.x)

(* One frame's bytes go to the transfer s in stage st: a refusal closes the
   message and leaves the stage; the last frame is followed by finish_offer.  A
   packed image may turn out corrupt on the way, or short at its end. *)
Takes(t, st, s, m, x, at, n) ==
  LET data == Bytes(x, at, n)
      last == at + n = ImageLen[x]
      still == IF last THEN NoMessage ELSE [img |-> x, at |-> at + n]
  IN /\ last => TimeToArrive
     /\ \/ \E o \in Writes(m, s, data) :
             \/ /\ o.ok /\ ~last
                /\ msg' = Messages(t, still) /\ stage' = st /\ staged' = o.s
                /\ medium' = o.m /\ faulty' = (faulty \/ o.hurt)
             \/ /\ ~o.ok
                /\ msg' = Messages(t, NoMessage) /\ stage' = st /\ staged' = o.s
                /\ medium' = o.m /\ faulty' = (faulty \/ o.hurt)
             \/ /\ o.ok /\ last
                /\ msg' = Messages(t, still)
                /\ Finish(o.s, o.m, o.hurt)
        \/ /\ st = "unpacking"
           /\ msg' = Messages(t, NoMessage)
           /\ stage' = IF last THEN "idle" ELSE st
           /\ staged' = IF last THEN NoStaged ELSE s
           /\ medium' = m /\ UNCHANGED faulty

Untouched == UNCHANGED <<ckcc, upload, card, marker, screen, installed>>

(* UpgradeOffer or UpgradePacked begins, and is taken. *)
OfferStarts(t, x, st, n) ==
  /\ Alive /\ ~ckcc
  /\ msg[t] = NoMessage
  /\ ~AnswerPending
  /\ Free(Dropped)
  /\ n < ImageLen[x]
  /\ looked' = FALSE
  /\ Takes(t, st, Begun(ImageLen[x]), Taken, x, 0, n)
  /\ Untouched

(* ... or refused on its first frame: NotNow while one waits for its answer,
   Busy, a length that does not fit, no heap to inflate with.  Only the first
   of them leaves an older transfer alone. *)
OfferRefused(t) ==
  /\ Alive /\ ~ckcc
  /\ msg[t] = NoMessage
  /\ msg' = Messages(t, NoMessage)
  /\ \/ stage' = Dropped
     \/ ~Interrupts(t) /\ stage' = stage
  /\ staged' = KeptBy(stage')
  /\ Untouched /\ UNCHANGED <<medium, faulty, looked>>

(* The next frame of an image message; after its transfer was taken away there
   is nothing to store, and nothing to finish. *)
ImageFrame(t, n) ==
  LET x == msg[t].img
      at == msg[t].at
  IN /\ Alive /\ x # NoImage
     /\ at + n <= ImageLen[x]
     /\ IF Transferring THEN Takes(t, stage, staged, medium, x, at, n)
        ELSE /\ msg' = [msg EXCEPT ![t] = IF at + n = ImageLen[x] THEN NoMessage
                                          ELSE [@ EXCEPT !.at = at + n]]
             /\ UNCHANGED <<stage, staged, medium, faulty>>
     /\ UNCHANGED looked /\ Untouched

(* Any other request, whole in one frame.  A stage left receiving takes its
   bytes for the image's; one left unpacking takes them for compressed ones,
   from which bytes of an image come out, or none, or a refusal. *)
Request(t, n) ==
  /\ Alive /\ ~ckcc
  /\ msg[t] = NoMessage
  /\ msg' = Messages(t, NoMessage)
  /\ \/ /\ Transferring /\ ~Interrupts(t)
        /\ \E o \in Writes(medium, staged, [i \in 1 .. n |-> Junk]) :
             /\ stage' = stage /\ staged' = o.s
             /\ medium' = o.m /\ faulty' = (faulty \/ o.hurt)
     \/ /\ stage # "receiving" \/ Interrupts(t)
        /\ stage' = IF Interrupts(t) THEN Dropped ELSE stage
        /\ staged' = KeptBy(stage')
        /\ UNCHANGED <<medium, faulty>>
  /\ Untouched /\ UNCHANGED looked

(* A frame out of its place: a start inside a message, a wrong number. *)
BadFrame(t) ==
  /\ Alive /\ ~ckcc
  /\ msg' = [msg EXCEPT ![t] = NoMessage]
  /\ stage' = Dropped /\ staged' = KeptBy(stage')
  /\ Untouched /\ UNCHANGED <<medium, faulty, looked>>

Loses(st) ==
  /\ msg' = [t \in Transports |-> NoMessage]
  /\ stage' = st /\ staged' = KeptBy(st)
  /\ upload' = NoMessage

BusReset ==
  /\ Alive
  /\ Loses(IF stage = "approved" THEN stage ELSE "idle")
  /\ UNCHANGED <<ckcc, card, store, screen, ghosts>>

-----------------------------------------------------------------------------
(* The ckcc desk: an upload is stored before it is known to be an image. *)

(* upld at offset 0: the last one's memory goes first. *)
UploadStarts(x) ==
  /\ Alive /\ ckcc
  /\ IF Free(stage) \/ upload # NoMessage
     THEN upload' = [img |-> x, at |-> 0] /\ medium' = Taken
     ELSE upload' = NoMessage /\ UNCHANGED medium
  /\ looked' = FALSE
  /\ UNCHANGED <<msg, ckcc, stage, staged, card, marker, screen, installed, faulty>>

UploadBlock(n) ==
  LET x == upload.img
      at == upload.at
  IN /\ Alive /\ x # NoImage
     /\ at + n <= ImageLen[x]
     /\ at + n = ImageLen[x] => TimeToArrive
     /\ \/ /\ medium' = Put(medium, at, Bytes(x, at, n))
           /\ upload' = [upload EXCEPT !.at = at + n]
           /\ UNCHANGED faulty
        \/ /\ MayFail
           /\ medium' = Put(medium, at, [Bytes(x, at, n) EXCEPT ![1] = Junk])
           /\ upload' = [upload EXCEPT !.at = at + n]
           /\ faulty' = TRUE
        \/ /\ MayFail /\ faulty' = TRUE /\ UNCHANGED <<medium, upload>>   \* Storage fault
     /\ UNCHANGED <<msg, ckcc, stage, staged, card, marker, screen, installed, looked>>

(* The header repeated behind the image: it is inspected, and offered unless an
   answer is owed already. *)
UploadIsImage ==
  LET x == upload.img
  IN /\ Alive /\ x # NoImage /\ upload.at = ImageLen[x] /\ TimeToArrive
     /\ upload' = NoMessage
     /\ \E v \in Inspects(StoredElsewhere(ImageLen[x]), medium) :
          IF v.x # NoImage /\ ~AnswerPending
          THEN /\ stage' = "offered"
               /\ staged' = Approved(StoredElsewhere(ImageLen[x]), v.x)
          ELSE UNCHANGED <<stage, staged>>
     /\ UNCHANGED <<msg, ckcc, card, store, screen, ghosts>>

-----------------------------------------------------------------------------
(* The menu loop. *)

(* A key lasts the pass that read it. *)
Goes(to) == /\ ui' = to
            /\ key' = IF to \in {"receiving?", "offer?", "handle"} THEN key ELSE "none"
Pending == IF stage = "offered" THEN staged.approval ELSE NoImage

ReadKeys ==
  /\ Alive /\ ui = "keys"
  /\ key' \in {"none", "confirm", "cancel"}
  /\ ui' = "receiving?"
  /\ UNCHANGED <<usb, card, store, ghosts, arriving, shown, drawn, asked, yes>>

CheckReceiving ==
  /\ ui = "receiving?"
  /\ arriving' = Transferring
  /\ drawn' = IF Transferring THEN NoImage ELSE drawn
  /\ Goes("offer?")
  /\ UNCHANGED <<usb, card, store, ghosts, shown, asked, yes>>

CheckOffer ==
  /\ ui = "offer?"
  /\ IF Pending # NoImage /\ shown # NoImage
     THEN UNCHANGED <<shown, drawn>>
     ELSE shown' = Pending /\ drawn' = Pending
  /\ looked' = TRUE
  /\ Goes(IF key = "none" THEN "keys" ELSE "handle")
  /\ UNCHANGED <<usb, card, store, installed, faulty, arriving, asked, yes>>

(* Cancel while an image arrives: abandon drops the transfer and, of the two
   transports, resets the reports'. *)
Abandon ==
  /\ ui = "handle" /\ arriving /\ key = "cancel"
  /\ stage' = Dropped /\ staged' = KeptBy(stage')
  /\ msg' = IF Transferring THEN [msg EXCEPT !["hid"] = NoMessage] ELSE msg
  /\ arriving' = FALSE /\ drawn' = NoImage
  /\ Goes("rejected")
  /\ UNCHANGED <<ckcc, upload, card, store, ghosts, shown, asked, yes>>

(* Any other key while one arrives, and a key no screen takes. *)
Swallow ==
  /\ ui = "handle"
  /\ \/ arriving /\ key # "cancel"
     \/ ~arriving /\ shown = NoImage
  /\ Goes("keys")
  /\ UNCHANGED <<usb, card, store, ghosts, arriving, shown, drawn, asked, yes>>

OnOffer(p) == ui = "handle" /\ ~arriving /\ shown # NoImage /\ key = p

ConfirmOffer ==
  /\ OnOffer("confirm")
  /\ yes' = drawn
  /\ IF Pending \in HighWater
     THEN asked' = Pending /\ Goes("question")
     ELSE Goes("approve") /\ UNCHANGED asked
  /\ UNCHANGED <<usb, card, store, ghosts, arriving, shown, drawn>>

(* Declining drops whatever the task holds by then. *)
Declines ==
  /\ stage' = "idle" /\ staged' = NoStaged
  /\ shown' = NoImage /\ drawn' = NoImage /\ asked' = NoImage /\ yes' = NoImage
  /\ Goes("keys")
  /\ UNCHANGED <<msg, ckcc, upload, card, store, ghosts, arriving>>

CancelOffer == OnOffer("cancel") /\ Declines

(* Mutant: the answer is taken for whatever is offered by now. *)
AnyOffer == TRUE
StillAsked == Pending = asked

AnswerYes ==
  /\ ui = "question" /\ StillAsked
  /\ yes' = asked /\ asked' = NoImage
  /\ Goes("approve")
  /\ UNCHANGED <<usb, card, store, ghosts, arriving, shown, drawn>>

AnswerNo == ui = "question" /\ Declines

(* Publishing the marker: it may not go in, or go in and not read back. *)
Published(x) ==
  \/ marker' = ImageLen[x] /\ UNCHANGED faulty /\ Goes("gate")
  \/ MayFail /\ marker' \in {marker, ImageLen[x]} /\ faulty' = TRUE /\ Goes("note")

(* approve: take the offer, if that is what is here, and commit it. *)
Approve ==
  /\ ui = "approve"
  /\ IF stage # "offered"
     THEN Goes("note") /\ UNCHANGED <<stage, staged, marker, faulty>>
     ELSE /\ Published(staged.approval)
          /\ stage' = IF ui' = "gate" THEN "approved" ELSE "idle"
          /\ staged' = NoStaged
  /\ UNCHANGED <<msg, ckcc, upload, card, medium, arriving, shown, drawn, asked, yes,
                 installed, looked>>

(* gate 18/7: the bootloader verifies the region the marker names, in RAM, and
   installs it, or refuses, for that or for a reason of its own. *)
GateInstalls ==
  /\ ui = "gate"
  /\ \E x \in Signed : /\ ImageLen[x] = marker
                       /\ Stored(medium, marker) = Bytes(x, 0, marker)
                       /\ installed' = x
  /\ UNCHANGED <<usb, card, store, screen, faulty, looked>>

GateRefuses ==
  /\ Alive /\ ui = "gate"
  /\ Goes("retract")
  /\ UNCHANGED <<usb, card, store, ghosts, arriving, shown, drawn, asked, yes>>

(* not_installed: the medium is taken afresh, which it may refuse. *)
Retract ==
  /\ ui = "retract"
  /\ \/ Free(stage) /\ marker' = 0 /\ UNCHANGED faulty
     \/ Free(stage) /\ MayFail /\ faulty' = TRUE /\ UNCHANGED marker
     \/ ~Free(stage) /\ UNCHANGED <<marker, faulty>>
  /\ Goes("refused")
  /\ UNCHANGED <<usb, card, medium, arriving, shown, drawn, asked, yes, installed, looked>>

(* Mutant: the task is not told. *)
StaysApproved == stage
AfterRefusal == IF stage = "approved" THEN "idle" ELSE stage

InstallRefused ==
  /\ ui = "refused"
  /\ stage' = AfterRefusal
  /\ Goes("note")
  /\ UNCHANGED <<msg, ckcc, staged, upload, card, store, ghosts, arriving, shown,
                 drawn, asked, yes>>

(* Any key puts a note away, and with it the offer it was about. *)
NoteRead ==
  /\ ui = "note"
  /\ shown' = NoImage /\ drawn' = NoImage /\ yes' = NoImage
  /\ Goes("keys")
  /\ UNCHANGED <<usb, card, store, ghosts, arriving, asked>>

(* The note of a stopped transfer leaves showing_offer as it is, and while that
   is up the loop draws nothing over the note. *)
RejectionRead ==
  /\ ui = "rejected"
  /\ Goes("keys")
  /\ UNCHANGED <<usb, card, store, ghosts, arriving, shown, drawn, asked, yes>>

-----------------------------------------------------------------------------
(* What the menu opens: another use of the memory, the other identity, a file. *)

OnMenu == ui = "handle" /\ ~arriving /\ shown = NoImage /\ key = "confirm"

UseScratch ==
  /\ OnMenu /\ Free(stage)
  /\ medium' = Taken
  /\ Goes("scratch")
  /\ UNCHANGED <<usb, card, marker, ghosts, arriving, shown, drawn, asked, yes>>

LeaveScratch ==
  /\ ui = "scratch"
  /\ Goes("keys")
  /\ UNCHANGED <<usb, card, store, ghosts, arriving, shown, drawn, asked, yes>>

SwitchIdentity ==
  /\ OnMenu
  /\ ckcc' = ~ckcc
  /\ Loses(Dropped)
  /\ Goes("keys")
  /\ UNCHANGED <<card, store, ghosts, arriving, shown, drawn, asked, yes>>

OpenFile(x) ==
  /\ OnMenu /\ Free(stage)
  /\ card' = Approved(Begun(ImageLen[x]), x)
  /\ medium' = Taken
  /\ Goes("file")
  /\ UNCHANGED <<usb, marker, ghosts, arriving, shown, drawn, asked, yes>>

(* The scanner places each part where it belongs, over a lease of its own, and
   hands the area over when it has them all. *)
Scan(x) ==
  /\ OnMenu /\ Free(stage)
  /\ medium' = Put(Taken, 0, Bytes(x, 0, ImageLen[x]))
  /\ card' = Approved(PlacedAll(Begun(ImageLen[x])), x)
  /\ Goes("file")
  /\ UNCHANGED <<usb, marker, ghosts, arriving, shown, drawn, asked, yes>>

GivesUp == card' = NoStaged

(* stage_from_volume: the file goes in chunk by chunk. *)
FileChunk(n) ==
  /\ ui = "file" /\ card.received + n <= card.len
  /\ \E o \in Writes(medium, card, Bytes(card.approval, card.received, n)) :
       /\ medium' = o.m /\ faulty' = (faulty \/ o.hurt)
       /\ IF o.ok THEN card' = o.s /\ Goes("file")
                  ELSE GivesUp /\ Goes("note")
  /\ UNCHANGED <<usb, marker, arriving, shown, drawn, asked, yes, installed, looked>>

FileInspected ==
  /\ ui = "file" /\ card.received = card.len
  /\ \E v \in Inspects(card, medium) :
       /\ medium' = v.m /\ faulty' = (faulty \/ v.hurt)
       /\ IF v.x = NoImage THEN GivesUp /\ Goes("note")
          ELSE card' = Approved(card, v.x) /\ Goes("file offer")
  /\ UNCHANGED <<usb, marker, arriving, shown, drawn, asked, yes, installed, looked>>

ConfirmFile ==
  /\ ui = "file offer"
  /\ yes' = card.approval
  /\ Goes(IF card.approval \in HighWater THEN "file question" ELSE "file commit")
  /\ UNCHANGED <<usb, card, store, ghosts, arriving, shown, drawn, asked>>

AnswerFile ==
  /\ ui = "file question" /\ Goes("file commit")
  /\ UNCHANGED <<usb, card, store, ghosts, arriving, shown, drawn, asked, yes>>

LeaveFile ==
  /\ ui \in {"file offer", "file question"}
  /\ GivesUp /\ yes' = NoImage /\ Goes("keys")
  /\ UNCHANGED <<usb, store, ghosts, arriving, shown, drawn, asked>>

CommitFile ==
  /\ ui = "file commit"
  /\ Published(card.approval)
  /\ GivesUp
  /\ UNCHANGED <<usb, medium, arriving, shown, drawn, asked, yes, installed, looked>>

-----------------------------------------------------------------------------
Sizes == 1 .. MaxFrame

UsbStep ==
  \/ \E t \in Transports :
       \/ \E x \in Images, st \in {"receiving", "unpacking"}, n \in Sizes :
            OfferStarts(t, x, st, n)
       \/ OfferRefused(t)
       \/ \E n \in Sizes : ImageFrame(t, n)
       \/ \E n \in Sizes : Request(t, n)
       \/ BadFrame(t)
  \/ BusReset
  \/ \E x \in Images : UploadStarts(x)
  \/ \E n \in Sizes : UploadBlock(n)
  \/ UploadIsImage

AnswerStep == AnswerYes \/ AnswerNo
GateStep == GateInstalls \/ GateRefuses \/ Retract \/ InstallRefused

UiStep ==
  \/ ReadKeys \/ CheckReceiving \/ CheckOffer \/ Swallow \/ Abandon
  \/ ConfirmOffer \/ CancelOffer \/ AnswerStep \/ Approve \/ GateStep \/ NoteRead \/ RejectionRead
  \/ UseScratch \/ LeaveScratch \/ SwitchIdentity
  \/ \E x \in Images : OpenFile(x) \/ Scan(x)
  \/ \E n \in Sizes : FileChunk(n)
  \/ FileInspected \/ ConfirmFile \/ AnswerFile \/ LeaveFile \/ CommitFile

Next == UsbStep \/ (Alive /\ UiStep)

(* The UI task is scheduled; once an install is approved it waits for nobody. *)
Fairness == WF_vars(Alive /\ GateStep)

Spec == Init /\ [][Next]_vars
FairSpec == Spec /\ Fairness

-----------------------------------------------------------------------------
(* Properties. *)

(* When an offer is on the panel as the loop takes a Confirm, that image is the
   only one this can install, whichever way it came, whatever the host, the
   cable and the other holders of the medium do meanwhile (menu.rs, run and
   offer_and_install). *)
InstalledIsConfirmed == installed # NoImage => yes \in {NoImage, installed}

(* Nothing is installed but what the panel offered when the loop took the
   Confirm (README.md:22). *)
InstalledIsDrawn == installed # NoImage => installed = yes

(* Unless the medium lost something, the image offered is the image stored, the
   last odd bytes included (lib.rs, write and settle). *)
Holds(x) == Stored(medium, ImageLen[x]) = Bytes(x, 0, ImageLen[x])
OfferedIsStored ==
  ~faulty => /\ stage = "offered" => Holds(staged.approval)
             /\ ui = "file offer" => Holds(card.approval)

(* A transfer under way has hashed exactly what its own message brought: two
   transports never mix in one image (on_report, ccid_dispatch). *)
TransferIsItsMessage ==
  \A t \in Transports :
    Transferring /\ msg[t] # NoMessage => staged.stream = Bytes(msg[t].img, 0, msg[t].at)

(* An approved install is answered: the machine goes, or the task takes offers
   again (install_refused). *)
ApprovalEnds == stage = "approved" ~> (stage # "approved" \/ ~Alive)
=============================================================================
