---------------------------- MODULE UpgradeProofs ----------------------------
(* What holds of an upgrade for any images, lengths, word size and area.

   The properties are not inductive.  That an offer is what is stored needs what
   is known of a transfer before its end: what is hashed is stored, but for the
   carried bytes.  That what is installed is what was confirmed needs the lease
   -- one holder of the medium at a time -- and what the panel can show while
   bytes are on their way: an image that began behind the menu loop's back
   cannot be whole before the loop has looked, and a loop that has looked at a
   transfer shows no offer. *)
EXTENDS Upgrade, SequenceTheorems, TLAPS

Byte == (Images \cup {NoImage}) \X Nat
Cells == 0 .. Capacity - 1
SomeImage == Images \cup {NoImage}
MessageType == [img : Images, at : Nat] \cup {NoMessage}
StagedType == [len : Nat, received : Nat, carry : Seq(Byte), stream : Seq(Byte),
               scattered : BOOLEAN, approval : SomeImage]
Stages == {"idle", "receiving", "unpacking", "offered", "approved"}
Loop == {"keys", "receiving?", "offer?", "handle"}
FileOffers == {"file offer", "file question", "file commit"}
FileScreens == {"file"} \cup FileOffers
Screens == Loop \cup FileScreens \cup
           {"rejected", "question", "approve", "gate", "retract", "refused", "note", "scratch"}

(* Type correctness. *)
UpgradeTypes ==
  /\ msg \in [Transports -> MessageType] /\ ckcc \in BOOLEAN
  /\ stage \in Stages /\ staged \in StagedType /\ upload \in MessageType
  /\ card \in StagedType
  /\ medium \in [Cells -> Byte] /\ marker \in Nat
  /\ ui \in Screens /\ key \in {"none", "confirm", "cancel"} /\ arriving \in BOOLEAN
  /\ shown \in SomeImage /\ drawn \in SomeImage /\ asked \in SomeImage /\ yes \in SomeImage
  /\ installed \in SomeImage /\ faulty \in BOOLEAN /\ looked \in BOOLEAN

(* The medium has one holder: the USB task's transfer or offer, an upload, the
   file on the UI task, or another use of the memory. *)
OneHolder ==
  /\ Transferring \/ stage = "offered" => upload = NoMessage /\ card = NoStaged /\ ui # "scratch"
  /\ upload # NoMessage => card = NoStaged /\ ui # "scratch"
  /\ card # NoStaged <=> ui \in FileScreens
  /\ ui \in FileScreens => card.approval \in Images

(* One message is open at a time. *)
OneMessage == \E t \in Transports : msg[t] = NoMessage

(* What of s was hashed is in m, but for the bytes it carries. *)
Arrived(s, m) ==
  /\ Len(s.stream) = s.received /\ Len(s.carry) <= s.received /\ Len(s.carry) < Word
  /\ s.received <= s.len /\ s.len <= Capacity
  /\ \A i \in 1 .. Len(s.carry) : s.carry[i] = s.stream[PlaceOf(s) + i]
  /\ \A i \in 0 .. PlaceOf(s) - 1 : m[i] = s.stream[i + 1]
(* A scan counts as received without a byte of it hashed. *)
Scanned(s) == s.stream = <<>> /\ s.received = s.len /\ s.len > 0 /\ s.carry = <<>>
ArrivedIsStored ==
  ~faulty => /\ Transferring => ~staged.scattered /\ Arrived(staged, medium)
             /\ ui = "file" => ~card.scattered /\ (Arrived(card, medium) \/ Scanned(card))

(* The header of what is offered is in the medium. *)
HeaderOf(x) == x \in Images /\ medium[HeaderAt] = <<x, HeaderAt>>
HeaderNames ==
  /\ stage = "offered" => HeaderOf(staged.approval)
  /\ ui \in FileOffers => HeaderOf(card.approval)

Active == Transferring \/ upload # NoMessage

(* What the panel can show: nothing but the offer the loop has put up; none in
   what the menu opens; in the loop, none while an image is on its way that the
   loop has looked at, and never another than the one that waits. *)
PanelShows ==
  /\ drawn \in {NoImage, shown}
  /\ ui \in FileScreens \cup {"scratch"} => shown = NoImage
  /\ ui = "rejected" => drawn = NoImage
  /\ ui = "question" => asked \in Images
  /\ ui \in Loop /\ Active /\ looked => drawn = NoImage
  /\ ui \in Loop /\ stage = "offered" => drawn \in {NoImage, staged.approval}

(* Between a yes and the install: the offer at hand is the one confirmed, and
   another image cannot become whole. *)
YesIsKept ==
  /\ ui = "approve" /\ stage = "offered" => yes \in {NoImage, staged.approval}
  /\ ui = "approve" /\ Active /\ looked => yes = NoImage
  /\ ui \in {"file question", "file commit"} => yes = card.approval

(* At the gate: nobody has had the medium since, or what has come since is not
   an image yet. *)
Early == {b \in Byte : \A x \in Images : b # <<x, ImageLen[x] - 1>>}
Confirmed == ~Active /\ yes \in {NoImage} \cup {x \in Images : HeaderOf(x)}
NotYet == /\ medium \in [Cells -> Early]
          /\ Active => ~looked
          /\ Transferring => staged.carry \in Seq(Early)
AtGate == ui = "gate" => Confirmed \/ NotYet

UpgradeBase == UpgradeTypes /\ OneHolder /\ OneMessage
StoredParts == TransferIsItsMessage /\ ArrivedIsStored /\ OfferedIsStored
UpgradeInv ==
  /\ UpgradeBase /\ StoredParts
  /\ HeaderNames /\ PanelShows /\ YesIsKept /\ AtGate /\ InstalledIsConfirmed

-----------------------------------------------------------------------------
(* Bytes, and the medium. *)

LEMMA Remainder ==
  ASSUME NEW n \in Nat, NEW w \in Nat \ {0}
  PROVE  n % w \in Nat /\ n % w < w /\ n % w <= n /\ n - (n % w) \in Nat
<1>1. n % w \in 0 .. w - 1 /\ n \div w \in Nat /\ (n \div w) * w + (n % w) = n
  BY Z3T(30)
<1>2. (n \div w) * w \in Nat
  BY <1>1, Z3T(30)
<1> QED BY <1>1, <1>2

(* The bytes of an image are a sequence of its bytes; two runs of them that meet
   are one. *)
LEMMA BytesAre ==
  ASSUME NEW x \in Images, NEW from \in Nat, NEW n \in Nat
  PROVE  /\ Bytes(x, from, n) \in Seq(Byte) /\ Len(Bytes(x, from, n)) = n
         /\ \A i \in 1 .. n : Bytes(x, from, n)[i] = <<x, from + i - 1>>
<1>1. \A i \in 1 .. n : <<x, from + i - 1>> \in Byte
  BY DEF Byte
<1> QED BY <1>1 DEF Bytes

LEMMA BytesMeet ==
  ASSUME NEW x \in Images, NEW at \in Nat, NEW n \in Nat
  PROVE  Bytes(x, 0, at) \o Bytes(x, at, n) = Bytes(x, 0, at + n)
<1> DEFINE b == Bytes(x, 0, at)  c == Bytes(x, at, n)  d == Bytes(x, 0, at + n)
<1>1. b \in Seq(Byte) /\ Len(b) = at /\ \A i \in 1 .. at : b[i] = <<x, 0 + i - 1>>
  BY BytesAre
<1>2. c \in Seq(Byte) /\ Len(c) = n /\ \A i \in 1 .. n : c[i] = <<x, at + i - 1>>
  BY BytesAre
<1>3. d \in Seq(Byte) /\ Len(d) = at + n /\ \A i \in 1 .. at + n : d[i] = <<x, 0 + i - 1>>
  <2>1. at + n \in Nat OBVIOUS
  <2> QED BY <2>1, BytesAre
<1> HIDE DEF b, c, d
<1>4. /\ b \o c \in Seq(Byte) /\ Len(b \o c) = at + n
      /\ \A i \in 1 .. at + n : (b \o c)[i] = IF i <= at THEN b[i] ELSE c[i - at]
  BY <1>1, <1>2, ConcatProperties
<1>5. ASSUME NEW i \in 1 .. at + n PROVE (b \o c)[i] = d[i]
  <2>1. CASE i <= at
    <3>1. i \in 1 .. at BY <2>1
    <3> QED BY <2>1, <3>1, <1>1, <1>3, <1>4
  <2>2. CASE i > at
    <3>1. i - at \in 1 .. n /\ at + (i - at) - 1 = 0 + i - 1 BY <2>2
    <3>2. c[i - at] = <<x, 0 + i - 1>> BY <3>1, <1>2
    <3>3. (b \o c)[i] = c[i - at]
      <4>1. ~(i <= at) BY <2>2
      <4> QED BY <4>1, <1>4, Zenon
    <3>4. d[i] = <<x, 0 + i - 1>> BY <1>3, Zenon
    <3> QED BY <3>2, <3>3, <3>4, Zenon
  <2>3. i <= at \/ i > at OBVIOUS
  <2> QED BY <2>1, <2>2, <2>3, Zenon
<1>6. b \o c = d
  BY <1>1, <1>2, <1>3, <1>4, <1>5, SeqEqual
<1> QED BY <1>6 DEF b, c, d

(* What Put leaves: what was written where it was written, the rest elsewhere. *)
LEMMA PutIs ==
  ASSUME NEW B, NEW m \in [Cells -> B], NEW at \in Int, NEW data \in Seq(B)
  PROVE  /\ Put(m, at, data) \in [Cells -> B]
         /\ \A i \in Cells : Put(m, at, data)[i] =
              IF i >= at /\ i < at + Len(data) THEN data[i - at + 1] ELSE m[i]
<1>1. \A i \in Cells : i >= at /\ i < at + Len(data) => data[i - at + 1] \in B
  <2> SUFFICES ASSUME NEW i \in Cells, i >= at, i < at + Len(data) PROVE data[i - at + 1] \in B
    OBVIOUS
  <2>1. i \in Int /\ Len(data) \in Nat BY UpgradeAssumption DEF Cells
  <2>2. i - at + 1 \in 1 .. Len(data) BY <2>1
  <2> QED BY <2>2, ElementOfSeq
<1>2. DOMAIN m = Cells OBVIOUS
<1> QED BY <1>1, <1>2 DEF Put

-----------------------------------------------------------------------------
(* Staged::write. *)

(* The bytes carried and those of the chunk, parted into whole words and a tail
   shorter than a word. *)
LEMMA JoinedIs ==
  ASSUME NEW B, NEW s \in StagedType, s.carry \in Seq(B), NEW data \in Seq(B)
  PROVE  LET J == Joined(s, data)
             w == Whole(s, data)
             words == SubSeq(J, 1, w)
             tail == SubSeq(J, w + 1, Len(J))
         IN /\ J \in Seq(B) /\ Len(J) = Len(s.carry) + Len(data)
            /\ \A i \in 1 .. Len(s.carry) : J[i] = s.carry[i]
            /\ \A i \in 1 .. Len(data) : J[Len(s.carry) + i] = data[i]
            /\ w \in Nat /\ w <= Len(J) /\ Len(J) - w < Word
            /\ words \in Seq(B) /\ Len(words) = w
            /\ \A i \in 1 .. w : words[i] = J[i]
            /\ tail \in Seq(B) /\ Len(tail) = Len(J) - w
            /\ \A i \in 1 .. Len(J) - w : tail[i] = J[w + i]
<1> DEFINE J == Joined(s, data)
           w == Whole(s, data)
           words == SubSeq(J, 1, w)
           tail == SubSeq(J, w + 1, Len(J))
           c == s.carry
<1>1. c \in Seq(B) /\ Len(c) \in Nat /\ Len(data) \in Nat
  OBVIOUS
<1>2. J = c \o data BY DEF Joined
<1> HIDE DEF c
<1>3. /\ J \in Seq(B) /\ Len(J) = Len(c) + Len(data)
      /\ \A i \in 1 .. Len(c) + Len(data) : J[i] = IF i <= Len(c) THEN c[i] ELSE data[i - Len(c)]
  BY <1>1, <1>2, ConcatProperties
<1>4. w = Len(J) - (Len(J) % Word) BY DEF Whole
<1> HIDE DEF J
<1>5. Len(J) \in Nat BY <1>1, <1>3
<1>6. w \in Nat /\ w <= Len(J) /\ Len(J) - w < Word
  <2>1. Word \in Nat \ {0} BY UpgradeAssumption
  <2>2. /\ Len(J) % Word \in Nat /\ Len(J) % Word < Word /\ Len(J) % Word <= Len(J)
    BY <2>1, <1>5, Remainder
  <2> DEFINE r == Len(J) % Word  l == Len(J)
  <2>3. r \in Nat /\ r < Word /\ r <= l /\ l \in Nat /\ w = l - r BY <2>2, <1>4, <1>5
  <2> HIDE DEF r, l, w
  <2>4. w \in Nat /\ w <= l /\ l - w < Word BY <2>1, <2>3
  <2> QED BY <2>4 DEF l
<1> HIDE DEF w
<1>7. \A i \in 1 .. Len(J) : J[i] \in B BY <1>3, ElementOfSeq
<1>8. words \in Seq(B) /\ Len(words) = w /\ \A i \in 1 .. w : words[i] = J[i]
  <2>1. w \in Int /\ 1 \in Int /\ \A i \in 1 .. w : J[i] \in B
    BY <1>5, <1>6, <1>7
  <2>2. /\ words \in Seq(B) /\ Len(words) = IF 1 <= w THEN w - 1 + 1 ELSE 0
        /\ \A i \in 1 .. w - 1 + 1 : words[i] = J[1 + i - 1]
    BY <2>1, SubSeqProperties
  <2>3. Len(words) = w BY <2>2, <1>6
  <2>4. ASSUME NEW i \in 1 .. w PROVE words[i] = J[i]
    <3>1. i \in 1 .. w - 1 + 1 /\ 1 + i - 1 = i BY <1>6
    <3> QED BY <3>1, <2>2
  <2> QED BY <2>2, <2>3, <2>4
<1>9. tail \in Seq(B) /\ Len(tail) = Len(J) - w /\ \A i \in 1 .. Len(J) - w : tail[i] = J[w + i]
  <2>1. w + 1 \in Int /\ Len(J) \in Int /\ \A i \in w + 1 .. Len(J) : J[i] \in B
    BY <1>5, <1>6, <1>7
  <2>2. /\ tail \in Seq(B) /\ Len(tail) = IF w + 1 <= Len(J) THEN Len(J) - (w + 1) + 1 ELSE 0
        /\ \A i \in 1 .. Len(J) - (w + 1) + 1 : tail[i] = J[w + 1 + i - 1]
    BY <2>1, SubSeqProperties
  <2>3. Len(tail) = Len(J) - w BY <2>2, <1>5, <1>6
  <2>4. ASSUME NEW i \in 1 .. Len(J) - w PROVE tail[i] = J[w + i]
    <3>1. i \in 1 .. Len(J) - (w + 1) + 1 /\ w + 1 + i - 1 = w + i BY <1>5, <1>6
    <3> QED BY <3>1, <2>2
  <2> QED BY <2>2, <2>3, <2>4
<1>10. \A i \in 1 .. Len(c) : J[i] = c[i]
  <2> TAKE i \in 1 .. Len(c)
  <2>1. i \in 1 .. Len(c) + Len(data) /\ i <= Len(c) BY <1>1
  <2> QED BY <2>1, <1>3, Zenon
<1>11. \A i \in 1 .. Len(data) : J[Len(c) + i] = data[i]
  <2> TAKE i \in 1 .. Len(data)
  <2>1. /\ Len(c) + i \in 1 .. Len(c) + Len(data) /\ ~(Len(c) + i <= Len(c))
        /\ (Len(c) + i) - Len(c) = i
    BY <1>1
  <2>2. J[Len(c) + i] = data[(Len(c) + i) - Len(c)]
    BY <2>1, <1>3, Zenon
  <2> QED BY <2>1, <2>2
<1> QED BY <1>3, <1>6, <1>8, <1>9, <1>10, <1>11 DEF J, w, c

(* Every way a write ends. *)
LEMMA WritesCases ==
  ASSUME NEW m \in [Cells -> Byte], NEW s \in StagedType, NEW data \in Seq(Byte),
         NEW o \in Writes(m, s, data)
  PROVE  \/ o = Outcome(s, m, FALSE, FALSE)
         \/ /\ s.received + Len(data) <= s.len
            /\ o = Outcome(Accepted(s, data), Written(m, s, Words(s, data)), TRUE, FALSE)
         \/ /\ s.received + Len(data) <= s.len
            /\ \E i \in DOMAIN Words(s, data) :
                 o = Outcome(Accepted(s, data),
                             Written(m, s, [Words(s, data) EXCEPT ![i] = Junk]), TRUE, TRUE)
         \/ o = Outcome(Hashed(s, data), m, FALSE, TRUE)
         \/ \E i \in DOMAIN Words(s, data) :
              /\ i > Word
              /\ o = Outcome([Hashed(s, data) EXCEPT !.carry = <<>>],
                             Written(m, s, SubSeq(Words(s, data), 1, Word)), FALSE, TRUE)
<1>1. s.received \in Nat /\ s.len \in Nat /\ Len(data) \in Nat
  BY DEF StagedType
<1>2. s.received + Len(data) > s.len \/ s.received + Len(data) <= s.len
  BY <1>1
<1>3. CASE s.received + Len(data) > s.len
  BY <1>3 DEF Writes
<1>4. CASE s.received + Len(data) <= s.len
  <2>1. ~(s.received + Len(data) > s.len) BY <1>1, <1>4
  <2>2. \/ o = Outcome(Accepted(s, data), Written(m, s, Words(s, data)), TRUE, FALSE)
        \/ o \in LosesByte(m, s, data) \/ o \in Refuses(m, s, data)
        \/ o \in RefusesRest(m, s, data)
    BY <2>1 DEF Writes
  <2>3. CASE o \in LosesByte(m, s, data) BY <2>3, <1>4 DEF LosesByte
  <2>4. CASE o \in Refuses(m, s, data) BY <2>4, <1>4 DEF Refuses
  <2>5. CASE o \in RefusesRest(m, s, data) BY <2>5, <1>4 DEF RefusesRest
  <2> QED BY <2>2, <2>3, <2>4, <2>5, <1>4
<1> QED BY <1>2, <1>3, <1>4

LEMMA JunkIsByte == Junk \in Byte
BY DEF Junk, Byte

(* What is put into a Staged by one write, whatever kind of bytes it is. *)
LEMMA AcceptedIs ==
  ASSUME NEW B, B \subseteq Byte, NEW s \in StagedType, s.carry \in Seq(B), NEW data \in Seq(B)
  PROVE  LET a == Accepted(s, data)
             h == Hashed(s, data)
         IN /\ a \in StagedType /\ a.carry \in Seq(B)
            /\ a.len = s.len /\ a.approval = s.approval /\ a.scattered = s.scattered
            /\ a.stream = s.stream \o data /\ a.received = s.received + Len(data)
            /\ a.carry = SubSeq(Joined(s, data), Whole(s, data) + 1, Len(Joined(s, data)))
            /\ h \in StagedType /\ h = [s EXCEPT !.stream = s.stream \o data]
<1> DEFINE tail == SubSeq(Joined(s, data), Whole(s, data) + 1, Len(Joined(s, data)))
           flow == s.stream \o data
<1>1. tail \in Seq(B) BY JoinedIs
<1>2. tail \in Seq(Byte) /\ data \in Seq(Byte) BY <1>1, SeqMonotonic
<1>3. s.stream \in Seq(Byte) /\ s.received \in Nat /\ Len(data) \in Nat
  BY DEF StagedType
<1>4. flow \in Seq(Byte) BY <1>2, <1>3, ConcatProperties
<1>5. s.received + Len(data) \in Nat BY <1>3
<1>6. Hashed(s, data) = [s EXCEPT !.stream = flow] BY DEF Hashed
<1>7. Accepted(s, data) =
        [[s EXCEPT !.stream = flow] EXCEPT !.received = @ + Len(data), !.carry = tail]
  BY <1>6, Zenon DEF Accepted
<1> HIDE DEF tail, flow
<1>8. [s EXCEPT !.stream = flow] \in StagedType
  BY <1>4 DEF StagedType
<1>9. /\ Accepted(s, data) \in StagedType
      /\ Accepted(s, data).carry = tail /\ Accepted(s, data).stream = flow
      /\ Accepted(s, data).received = s.received + Len(data)
      /\ Accepted(s, data).len = s.len /\ Accepted(s, data).approval = s.approval
      /\ Accepted(s, data).scattered = s.scattered
  BY <1>2, <1>4, <1>5, <1>7 DEF StagedType
<1> QED BY <1>1, <1>6, <1>8, <1>9 DEF tail, flow

(* What any write leaves. *)
LEMMA WritesIs ==
  ASSUME NEW B, B \subseteq Byte, Junk \in B,
         NEW m \in [Cells -> B], NEW s \in StagedType, s.carry \in Seq(B),
         NEW data \in Seq(B), NEW o \in Writes(m, s, data)
  PROVE  /\ o.m \in [Cells -> B] /\ o.s \in StagedType /\ o.s.carry \in Seq(B)
         /\ o.ok \in BOOLEAN /\ o.hurt \in BOOLEAN
         /\ o.s.len = s.len /\ o.s.approval = s.approval /\ o.s.scattered = s.scattered
         /\ o.ok => o.s.stream = s.stream \o data /\ o.s.received = s.received + Len(data)
         /\ ~o.ok /\ ~o.hurt => o.s = s /\ o.m = m
         /\ o.ok /\ ~o.hurt => /\ s.received + Len(data) <= s.len
                               /\ o.s = Accepted(s, data)
                               /\ o.m = Written(m, s, Words(s, data))
<1> DEFINE words == Words(s, data)
<1>1. data \in Seq(Byte) /\ m \in [Cells -> Byte]
  BY SeqMonotonic
<1>2. PlaceOf(s) \in Int BY DEF PlaceOf, StagedType
<1>3. words \in Seq(B) BY JoinedIs DEF Words
<1>4. \A w \in Seq(B) : Written(m, s, w) \in [Cells -> B]
  BY <1>2, PutIs DEF Written
<1>5. \A i \in DOMAIN words : [words EXCEPT ![i] = Junk] \in Seq(B)
  <2> HIDE DEF words
  <2>1. DOMAIN words = 1 .. Len(words) BY <1>3, LenProperties
  <2> QED BY <1>3, <2>1, ExceptSeq
<1>6. \A i \in DOMAIN words : i > Word => SubSeq(words, 1, Word) \in Seq(B)
  <2> HIDE DEF words
  <2>1. DOMAIN words = 1 .. Len(words) /\ Len(words) \in Nat BY <1>3, LenProperties
  <2> SUFFICES ASSUME NEW i \in DOMAIN words, i > Word PROVE SubSeq(words, 1, Word) \in Seq(B)
    OBVIOUS
  <2>2. Word \in Nat /\ Word <= Len(words) BY <2>1, UpgradeAssumption
  <2>3. Word \in Int /\ 1 \in Int /\ \A j \in 1 .. Word : j \in 1 .. Len(words)
    BY <2>1, <2>2
  <2>4. \A j \in 1 .. Word : words[j] \in B BY <2>3, <1>3, ElementOfSeq
  <2> QED BY <2>3, <2>4, SubSeqProperties
<1> DEFINE a == Accepted(s, data)
           h == Hashed(s, data)
           e == [Hashed(s, data) EXCEPT !.carry = <<>>]
<1>7. /\ a \in StagedType /\ a.carry \in Seq(B)
      /\ a.len = s.len /\ a.approval = s.approval /\ a.scattered = s.scattered
      /\ a.stream = s.stream \o data /\ a.received = s.received + Len(data)
      /\ h \in StagedType /\ h = [s EXCEPT !.stream = s.stream \o data]
  BY AcceptedIs
<1>8. h.carry \in Seq(B) /\ h.len = s.len /\ h.approval = s.approval /\ h.scattered = s.scattered
  BY <1>7 DEF StagedType
<1>9. /\ e \in StagedType /\ e.carry \in Seq(B)
      /\ e.len = s.len /\ e.approval = s.approval /\ e.scattered = s.scattered
  <2>1. <<>> \in Seq(Byte) /\ <<>> \in Seq(B) BY EmptySeq
  <2> HIDE DEF h
  <2>2. e = [h EXCEPT !.carry = <<>>] BY DEF h
  <2> HIDE DEF e
  <2> QED BY <1>7, <1>8, <2>1, <2>2 DEF StagedType
<1> HIDE DEF a, h, e, words
<1>11. \/ o = Outcome(s, m, FALSE, FALSE)
       \/ s.received + Len(data) <= s.len /\ o = Outcome(a, Written(m, s, words), TRUE, FALSE)
       \/ \E i \in DOMAIN words : o = Outcome(a, Written(m, s, [words EXCEPT ![i] = Junk]), TRUE, TRUE)
       \/ o = Outcome(h, m, FALSE, TRUE)
       \/ \E i \in DOMAIN words : i > Word /\ o = Outcome(e, Written(m, s, SubSeq(words, 1, Word)), FALSE, TRUE)
  BY <1>1, WritesCases DEF a, h, e, words
<1>12. CASE o = Outcome(s, m, FALSE, FALSE)
  <2>1. o.s = s /\ o.m = m /\ o.ok = FALSE /\ o.hurt = FALSE BY <1>12 DEF Outcome
  <2> QED BY <2>1
<1>13. CASE s.received + Len(data) <= s.len /\ o = Outcome(a, Written(m, s, words), TRUE, FALSE)
  <2>1. o.s = a /\ o.m = Written(m, s, words) /\ o.ok = TRUE /\ o.hurt = FALSE
    BY <1>13 DEF Outcome
  <2>2. a = Accepted(s, data) /\ words = Words(s, data) BY DEF a, words
  <2> QED BY <1>3, <1>4, <1>7, <1>13, <2>1, <2>2
<1>14. ASSUME NEW i \in DOMAIN words, o = Outcome(a, Written(m, s, [words EXCEPT ![i] = Junk]), TRUE, TRUE)
       PROVE  /\ o.s = a /\ o.m \in [Cells -> B] /\ o.ok = TRUE /\ o.hurt = TRUE
  BY <1>4, <1>5, <1>14 DEF Outcome
<1>15. CASE o = Outcome(h, m, FALSE, TRUE)
  <2>1. o.s = h /\ o.m = m /\ o.ok = FALSE /\ o.hurt = TRUE BY <1>15 DEF Outcome
  <2> QED BY <1>7, <1>8, <2>1
<1>16. ASSUME NEW i \in DOMAIN words, i > Word,
              o = Outcome(e, Written(m, s, SubSeq(words, 1, Word)), FALSE, TRUE)
       PROVE  o.s = e /\ o.m \in [Cells -> B] /\ o.ok = FALSE /\ o.hurt = TRUE
  BY <1>4, <1>6, <1>16 DEF Outcome
<1>17. CASE o.s = a /\ o.m \in [Cells -> B] /\ o.ok = TRUE /\ o.hurt = TRUE
  BY <1>7, <1>17
<1>18. CASE o.s = e /\ o.m \in [Cells -> B] /\ o.ok = FALSE /\ o.hurt = TRUE
  BY <1>9, <1>18
<1> QED BY <1>11, <1>12, <1>13, <1>14, <1>15, <1>16, <1>17, <1>18

(* Where the words of a write go: behind what is in the medium already. *)
LEMMA WrittenIs ==
  ASSUME NEW m \in [Cells -> Byte], NEW s \in StagedType, NEW data \in Seq(Byte)
  PROVE  LET w == Whole(s, data)
             n == Written(m, s, Words(s, data))
         IN /\ n \in [Cells -> Byte]
            /\ \A i \in Cells : n[i] = IF i >= PlaceOf(s) /\ i < PlaceOf(s) + w
                                       THEN Joined(s, data)[i - PlaceOf(s) + 1] ELSE m[i]
<1> DEFINE w == Whole(s, data)
           words == Words(s, data)
           J == Joined(s, data)
           p == PlaceOf(s)
           n == Written(m, s, words)
<1>1. p \in Int BY DEF PlaceOf, StagedType
<1>2. /\ words \in Seq(Byte) /\ Len(words) = w /\ w \in Nat
      /\ \A i \in 1 .. w : words[i] = J[i]
  <2>1. s.carry \in Seq(Byte) BY DEF StagedType
  <2> QED BY <2>1, JoinedIs DEF Words
<1>3. n = Put(m, p, words) BY DEF Written
<1> HIDE DEF w, words, p, n, J
<1>4. /\ n \in [Cells -> Byte]
      /\ \A i \in Cells : n[i] = IF i >= p /\ i < p + Len(words) THEN words[i - p + 1] ELSE m[i]
  BY <1>1, <1>2, <1>3, PutIs
<1>5. ASSUME NEW i \in Cells
      PROVE  n[i] = IF i >= p /\ i < p + w THEN J[i - p + 1] ELSE m[i]
  <2>1. i \in Int BY UpgradeAssumption DEF Cells
  <2>2. CASE i >= p /\ i < p + w
    <3>1. i - p + 1 \in 1 .. w BY <1>1, <1>2, <2>1, <2>2
    <3>2. words[i - p + 1] = J[i - p + 1] BY <3>1, <1>2
    <3>3. n[i] = words[i - p + 1] BY <1>2, <1>4, <2>2
    <3> QED BY <2>2, <3>2, <3>3
  <2>3. CASE ~(i >= p /\ i < p + w)
    BY <1>2, <1>4, <2>3
  <2> QED BY <2>2, <2>3
<1> QED BY <1>4, <1>5 DEF w, words, p, n, J

(* A write that goes through keeps what has arrived in the medium. *)
LEMMA ArrivedWrites ==
  ASSUME NEW m \in [Cells -> Byte], NEW s \in StagedType, NEW data \in Seq(Byte),
         Arrived(s, m), s.received + Len(data) <= s.len
  PROVE  Arrived(Accepted(s, data), Written(m, s, Words(s, data)))
<1> DEFINE a == Accepted(s, data)
           n == Written(m, s, Words(s, data))
           J == Joined(s, data)
           w == Whole(s, data)
           c == s.carry
           p == PlaceOf(s)
           f == s.stream
<1>1. /\ c \in Seq(Byte) /\ f \in Seq(Byte) /\ Len(c) \in Nat /\ Len(data) \in Nat
      /\ s.received \in Nat /\ s.len \in Nat
  BY DEF StagedType
<1>2. /\ Len(f) = s.received /\ Len(c) <= s.received /\ s.len <= Capacity
      /\ \A i \in 1 .. Len(c) : c[i] = f[p + i]
      /\ \A i \in 0 .. p - 1 : m[i] = f[i + 1]
  BY DEF Arrived
<1>3. p = s.received - Len(c) BY DEF PlaceOf
<1>4. /\ a \in StagedType /\ a.len = s.len
      /\ a.stream = f \o data /\ a.received = s.received + Len(data)
      /\ a.carry = SubSeq(J, w + 1, Len(J))
  BY AcceptedIs, <1>1
<1>5. /\ J \in Seq(Byte) /\ Len(J) = Len(c) + Len(data)
      /\ \A i \in 1 .. Len(c) : J[i] = c[i]
      /\ \A i \in 1 .. Len(data) : J[Len(c) + i] = data[i]
      /\ w \in Nat /\ w <= Len(J) /\ Len(J) - w < Word
      /\ Len(a.carry) = Len(J) - w
      /\ \A i \in 1 .. Len(J) - w : a.carry[i] = J[w + i]
  <2> DEFINE tail == SubSeq(J, w + 1, Len(J))
  <2>2. a.carry = tail BY <1>4
  <2>3. s.carry \in Seq(Byte) BY <1>1
  <2>1. /\ J \in Seq(Byte) /\ Len(J) = Len(c) + Len(data)
        /\ \A i \in 1 .. Len(c) : J[i] = c[i]
        /\ \A i \in 1 .. Len(data) : J[Len(c) + i] = data[i]
        /\ w \in Nat /\ w <= Len(J) /\ Len(J) - w < Word
        /\ Len(tail) = Len(J) - w
        /\ \A i \in 1 .. Len(J) - w : tail[i] = J[w + i]
    BY ONLY JoinedIs, <2>3, s \in StagedType, data \in Seq(Byte) DEF J, w, tail
  <2> HIDE DEF tail, a, J, w
  <2> QED BY <2>1, <2>2
<1>6. \A i \in Cells : n[i] = IF i >= p /\ i < p + w THEN J[i - p + 1] ELSE m[i]
  BY WrittenIs
<1>7. PlaceOf(a) = a.received - Len(a.carry) BY DEF PlaceOf
<1> HIDE DEF a, n, J, w, c, p, f
<1>8. /\ f \o data \in Seq(Byte) /\ Len(f \o data) = Len(f) + Len(data)
      /\ \A i \in 1 .. Len(f) + Len(data) :
           (f \o data)[i] = IF i <= Len(f) THEN f[i] ELSE data[i - Len(f)]
  BY <1>1, ConcatProperties
<1>9. PlaceOf(a) = p + w /\ p \in Nat /\ p + w \in Nat
  <2> DEFINE r == s.received  lc == Len(c)  ld == Len(data)  ar == a.received
             la == Len(a.carry)  pa == PlaceOf(a)
  <2>1. /\ r \in Nat /\ lc \in Nat /\ ld \in Nat /\ lc <= r /\ p = r - lc /\ ar = r + ld
        /\ la = lc + ld - w /\ w \in Nat /\ pa = ar - la
    BY <1>1, <1>2, <1>3, <1>4, <1>5, <1>7
  <2> HIDE DEF r, lc, ld, ar, la, pa
  <2>2. pa = p + w /\ p \in Nat /\ p + w \in Nat BY <2>1
  <2> QED BY <2>2 DEF pa
(* The bytes joined are those of the new stream, from the place of the words on. *)
<1>10. ASSUME NEW i \in 1 .. Len(J) PROVE J[i] = a.stream[p + i]
  <2>1. CASE i <= Len(c)
    <3>1. i \in 1 .. Len(c) /\ p + i \in 1 .. Len(f) + Len(data) /\ p + i <= Len(f)
      BY <1>1, <1>2, <1>3, <1>9, <2>1
    <3>2. J[i] = f[p + i] BY <3>1, <1>2, <1>5
    <3>3. (f \o data)[p + i] = f[p + i] BY <3>1, <1>8, Zenon
    <3> QED BY <3>2, <3>3, <1>4
  <2>2. CASE ~(i <= Len(c))
    <3>1. /\ i - Len(c) \in 1 .. Len(data) /\ Len(c) + (i - Len(c)) = i
          /\ p + i \in 1 .. Len(f) + Len(data) /\ ~(p + i <= Len(f))
          /\ (p + i) - Len(f) = i - Len(c)
      <4>1. Len(J) = Len(c) + Len(data) BY <1>5
      <4>2. Len(f) = s.received /\ p = s.received - Len(c) /\ Len(c) <= s.received BY <1>2, <1>3
      <4> QED BY <1>1, <4>1, <4>2, <2>2
    <3>2. J[i] = data[i - Len(c)] BY <3>1, <1>5
    <3>3. (f \o data)[p + i] = data[(p + i) - Len(f)] BY <3>1, <1>8, Zenon
    <3> QED BY <3>1, <3>2, <3>3, <1>4
  <2> QED BY <2>1, <2>2
<1>11. \A i \in 1 .. Len(a.carry) : a.carry[i] = a.stream[PlaceOf(a) + i]
  <2> TAKE i \in 1 .. Len(a.carry)
  <2>1. i \in 1 .. Len(J) - w /\ w + i \in 1 .. Len(J) /\ p + (w + i) = PlaceOf(a) + i
    BY <1>1, <1>5, <1>9
  <2>2. a.carry[i] = J[w + i] BY <2>1, <1>5
  <2>3. J[w + i] = a.stream[p + (w + i)] BY <2>1, <1>10
  <2> QED BY <2>1, <2>2, <2>3
<1>12. \A i \in 0 .. PlaceOf(a) - 1 : n[i] = a.stream[i + 1]
  <2> TAKE i \in 0 .. PlaceOf(a) - 1
  <2>1. i \in Cells
    <3>1. PlaceOf(a) <= a.received
      BY <1>1, <1>4, <1>5, <1>7
    <3>2. a.received <= s.len /\ s.len <= Capacity BY <1>2, <1>4
    <3>3. a.received \in Nat /\ PlaceOf(a) \in Nat /\ Capacity \in Nat
      BY <1>1, <1>4, <1>9, UpgradeAssumption
    <3>4. i \in Int /\ 0 <= i /\ i <= PlaceOf(a) - 1 BY <3>3
    <3>5. i <= Capacity - 1 BY <1>1, <3>1, <3>2, <3>3, <3>4
    <3> QED BY <3>3, <3>4, <3>5 DEF Cells
  <2>2. CASE i < p
    <3>1. ~(i >= p /\ i < p + w) /\ i \in 0 .. p - 1 BY <1>9, <2>2
    <3>2. n[i] = m[i] BY <3>1, <2>1, <1>6, Zenon
    <3>3. i + 1 \in 1 .. Len(f) + Len(data) /\ i + 1 <= Len(f) BY <1>1, <1>2, <1>3, <1>9, <2>2
    <3>4. (f \o data)[i + 1] = f[i + 1] BY <3>3, <1>8, Zenon
    <3> QED BY <3>1, <3>2, <3>4, <1>2, <1>4
  <2>3. CASE ~(i < p)
    <3>1. i >= p /\ i < p + w /\ i - p + 1 \in 1 .. Len(J) /\ p + (i - p + 1) = i + 1
      BY <1>1, <1>5, <1>9, <2>3
    <3>2. n[i] = J[i - p + 1] BY <3>1, <2>1, <1>6
    <3> QED BY <3>1, <3>2, <1>10
  <2> QED BY <2>2, <2>3
<1>13. /\ Len(a.stream) = a.received /\ Len(a.carry) <= a.received /\ Len(a.carry) < Word
       /\ a.received <= a.len /\ a.len <= Capacity
  BY <1>1, <1>2, <1>3, <1>4, <1>5, <1>8
<1> QED BY <1>11, <1>12, <1>13 DEF Arrived, a, n

-----------------------------------------------------------------------------
(* Settling and inspecting. *)

LEMMA SettledIs ==
  ASSUME NEW B, Junk \in B, NEW m \in [Cells -> B], NEW s \in StagedType, s.carry \in Seq(B)
  PROVE  Settled(s, m) \in [Cells -> B]
<1> DEFINE pad == [i \in 1 .. Word - Len(s.carry) |-> Junk]
<1>1. PlaceOf(s) \in Int BY DEF PlaceOf, StagedType
<1>2. s.carry \o pad \in Seq(B)
  <2>1. Word \in Nat /\ Len(s.carry) \in Nat BY UpgradeAssumption
  <2>2. CASE Len(s.carry) <= Word
    <3>1. Word - Len(s.carry) \in Nat BY <2>1, <2>2
    <3>2. pad \in Seq(B) BY <3>1
    <3> HIDE DEF pad
    <3> QED BY <3>2, ConcatProperties
  <2>3. CASE ~(Len(s.carry) <= Word)
    <3>1. 1 .. Word - Len(s.carry) = {} BY <2>1, <2>3
    <3>2. pad = <<>> BY <3>1
    <3> HIDE DEF pad
    <3> QED BY <3>2, ConcatEmptySeq
  <2> QED BY <2>2, <2>3
<1> QED BY <1>1, <1>2, PutIs DEF Settled

(* Once settled, all that has arrived is in the medium. *)
LEMMA ArrivedSettles ==
  ASSUME NEW m \in [Cells -> Byte], NEW s \in StagedType, Arrived(s, m)
  PROVE  \A i \in 0 .. s.received - 1 : Settled(s, m)[i] = s.stream[i + 1]
<1> DEFINE c == s.carry
           f == s.stream
           p == PlaceOf(s)
           r == s.received
           pad == [i \in 1 .. Word - Len(c) |-> Junk]
           n == Settled(s, m)
<1>1. /\ c \in Seq(Byte) /\ f \in Seq(Byte) /\ Len(c) \in Nat /\ r \in Nat
  BY DEF StagedType
<1>2. /\ Len(f) = r /\ Len(c) <= r /\ Len(c) < Word /\ r <= s.len /\ s.len <= Capacity
      /\ \A i \in 1 .. Len(c) : c[i] = f[p + i]
      /\ \A i \in 0 .. p - 1 : m[i] = f[i + 1]
  BY DEF Arrived
<1>3. p = r - Len(c) BY DEF PlaceOf
<1>4. n = IF c = <<>> THEN m ELSE Put(m, p, c \o pad) BY DEF Settled
<1>5. r <= Capacity
  <2>1. s.len \in Nat BY DEF StagedType
  <2> QED BY <2>1, <1>1, <1>2, UpgradeAssumption
<1> HIDE DEF c, f, p, r, n
<1>6. CASE c = <<>>
  <2>1. Len(c) = 0 BY <1>6
  <2>2. p = r BY <2>1, <1>1, <1>3
  <2> QED BY <1>2, <1>4, <1>6, <2>2 DEF n, f, r
<1>7. CASE c # <<>>
  <2>1. Word \in Nat BY UpgradeAssumption
  <2>2. Word - Len(c) \in Nat BY <1>1, <1>2, <2>1
  <2>3. pad \in Seq(Byte) /\ Len(pad) \in Nat BY <2>2, JunkIsByte
  <2> HIDE DEF pad
  <2>4. /\ c \o pad \in Seq(Byte) /\ Len(c \o pad) = Len(c) + Len(pad)
        /\ \A i \in 1 .. Len(c) + Len(pad) :
             (c \o pad)[i] = IF i <= Len(c) THEN c[i] ELSE pad[i - Len(c)]
    BY <1>1, <2>3, ConcatProperties
  <2>5. p \in Int BY <1>1, <1>3
  <2>6. \A i \in Cells : n[i] = IF i >= p /\ i < p + Len(c \o pad) THEN (c \o pad)[i - p + 1] ELSE m[i]
    <3> DEFINE d == c \o pad
    <3>1. d \in Seq(Byte) BY <2>4
    <3>2. n = Put(m, p, d) BY <1>4, <1>7
    <3> HIDE DEF d
    <3>3. \A i \in Cells : Put(m, p, d)[i] = IF i >= p /\ i < p + Len(d) THEN d[i - p + 1] ELSE m[i]
      BY <2>5, <3>1, PutIs
    <3> QED BY <3>2, <3>3, Zenon DEF d
  <2>7. ASSUME NEW i \in 0 .. r - 1 PROVE n[i] = f[i + 1]
    <3>1. i \in Cells /\ i \in Int BY <1>1, <1>5, UpgradeAssumption DEF Cells
    <3>2. CASE i < p
      <4>1. ~(i >= p /\ i < p + Len(c \o pad)) /\ i \in 0 .. p - 1 BY <2>5, <3>1, <3>2
      <4>2. n[i] = m[i] BY <2>6, <3>1, <4>1, Zenon
      <4> QED BY <4>1, <4>2, <1>2
    <3>3. CASE ~(i < p)
      <4>1. /\ i >= p /\ i < p + Len(c \o pad)
            /\ i - p + 1 \in 1 .. Len(c) /\ i - p + 1 \in 1 .. Len(c) + Len(pad) /\ i - p + 1 <= Len(c)
            /\ p + (i - p + 1) = i + 1
        BY <1>1, <1>3, <2>3, <2>4, <3>1, <3>3
      <4>2. n[i] = (c \o pad)[i - p + 1] BY <2>6, <3>1, <4>1, Zenon
      <4>3. (c \o pad)[i - p + 1] = c[i - p + 1] BY <2>4, <4>1, Zenon
      <4>4. c[i - p + 1] = f[p + (i - p + 1)] BY <1>2, <4>1
      <4> QED BY <4>1, <4>2, <4>3, <4>4
    <3> QED BY <3>2, <3>3
  <2> QED BY <2>7 DEF n, f, r
<1> QED BY <1>6, <1>7

(* What inspection ends with. *)
LEMMA InspectsIs ==
  ASSUME NEW B, Junk \in B, NEW m \in [Cells -> B], NEW s \in StagedType, s.carry \in Seq(B),
         NEW v \in Inspects(s, m)
  PROVE  /\ v.m \in [Cells -> B] /\ v.x \in SomeImage /\ v.hurt \in BOOLEAN
         /\ v.x # NoImage => /\ v.x \in Images /\ v.m = Settled(s, m)
                             /\ Passes(s, Settled(s, m), v.x)
<1> DEFINE n == Settled(s, m)
           good == {x \in Images : Passes(s, n, x)}
<1>1. n \in [Cells -> B] BY SettledIs
<1>2. \/ \E x \in IF good = {} THEN {NoImage} ELSE good : v = Verdict(x, n, FALSE)
      \/ v = Verdict(NoImage, m, TRUE)
  <2> HIDE DEF n
  <2> QED BY DEF Inspects, n
<1>3. CASE v = Verdict(NoImage, m, TRUE)
  BY <1>3 DEF Verdict, SomeImage
<1>4. ASSUME NEW x \in IF good = {} THEN {NoImage} ELSE good, v = Verdict(x, n, FALSE)
      PROVE  /\ v.m \in [Cells -> B] /\ v.x \in SomeImage /\ v.hurt \in BOOLEAN
             /\ v.x # NoImage => v.x \in Images /\ v.m = n /\ Passes(s, n, v.x)
  <2>1. v.x = x /\ v.m = n /\ v.hurt = FALSE BY <1>4 DEF Verdict
  <2>2. x # NoImage => x \in good BY <1>4
  <2>3. x # NoImage => x \in Images /\ Passes(s, n, x) BY <2>2
  <2> HIDE DEF n, good
  <2>4. x \in SomeImage BY <2>3 DEF SomeImage
  <2> QED BY <2>1, <2>3, <2>4, <1>1
<1> QED BY <1>2, <1>3, <1>4

(* An image that passes is the one stored, when all of it arrived; and one that
   was never hashed does not pass. *)
LEMMA PassesStored ==
  ASSUME NEW m \in [Cells -> Byte], NEW s \in StagedType, NEW x \in Images,
         Passes(s, Settled(s, m), x), s.scattered \/ Arrived(s, m) \/ Scanned(s)
  PROVE  Stored(Settled(s, m), ImageLen[x]) = Bytes(x, 0, ImageLen[x])
<1> DEFINE n == Settled(s, m)
           l == ImageLen[x]
<1>1. s.received = s.len /\ l = s.len /\ Digest(s, n) = Bytes(x, 0, l)
  BY DEF Passes
<1>2. l \in Nat BY UpgradeAssumption
<1>3. CASE s.scattered
  BY <1>1, <1>3 DEF Digest
<1>4. CASE ~s.scattered
  <2>1. s.stream = Bytes(x, 0, l) BY <1>1, <1>4 DEF Digest
  <2>2. Len(Bytes(x, 0, l)) = l BY <1>2, BytesAre
  <2>3. CASE Scanned(s)
    <3>1. s.stream = <<>> /\ s.len > 0 BY <2>3 DEF Scanned
    <3>2. l = 0 BY <2>1, <2>2, <3>1
    <3> QED BY <1>1, <1>2, <3>1, <3>2
  <2>4. CASE Arrived(s, m)
    <3>1. \A i \in 0 .. l - 1 : n[i] = s.stream[i + 1]
      BY <1>1, <2>4, ArrivedSettles
    <3>2. \A i \in 1 .. l : n[i - 1] = Bytes(x, 0, l)[i]
      <4> TAKE i \in 1 .. l
      <4>1. i - 1 \in 0 .. l - 1 /\ (i - 1) + 1 = i BY <1>2
      <4> QED BY <2>1, <3>1, <4>1
    <3>3. \A i \in 1 .. l : Bytes(x, 0, l)[i] = <<x, 0 + i - 1>> BY <1>2, BytesAre
    <3> HIDE DEF n, l
    <3>4. Stored(n, l) = Bytes(x, 0, l)
      BY <3>2, <3>3 DEF Stored, Bytes
    <3> QED BY <3>4 DEF n, l
  <2> QED BY <2>3, <2>4, <1>4
<1> QED BY <1>3, <1>4

-----------------------------------------------------------------------------
(* Types, the one holder of the medium, the one open message. *)

LEMMA EmptyTypes ==
  /\ NoMessage \in MessageType /\ NoStaged \in StagedType
  /\ NoStaged.carry = <<>> /\ NoStaged.stream = <<>> /\ NoStaged.approval = NoImage
  /\ \A n \in Nat :
       /\ Begun(n) \in StagedType /\ Begun(n).carry = <<>> /\ Begun(n).stream = <<>>
       /\ Begun(n).received = 0 /\ Begun(n).len = n /\ Begun(n).scattered = FALSE
       /\ StoredElsewhere(n) \in StagedType /\ StoredElsewhere(n).carry = <<>>
       /\ StoredElsewhere(n).len = n /\ StoredElsewhere(n).scattered
       /\ PlacedAll(Begun(n)) \in StagedType /\ PlacedAll(Begun(n)).carry = <<>>
       /\ PlacedAll(Begun(n)).stream = <<>> /\ PlacedAll(Begun(n)).received = n
       /\ PlacedAll(Begun(n)).len = n /\ PlacedAll(Begun(n)).scattered = FALSE
<1>1. <<>> \in Seq(Byte) BY EmptySeq
<1>2. NoStaged \in StagedType BY <1>1 DEF NoStaged, StagedType, SomeImage
<1>3. NoStaged.carry = <<>> /\ NoStaged.stream = <<>> /\ NoStaged.approval = NoImage
      /\ NoStaged.received = 0 /\ NoStaged.scattered = FALSE
  BY DEF NoStaged
<1>4. ASSUME NEW n \in Nat
      PROVE  /\ Begun(n) \in StagedType /\ Begun(n).carry = <<>> /\ Begun(n).stream = <<>>
             /\ Begun(n).received = 0 /\ Begun(n).len = n /\ Begun(n).scattered = FALSE
  BY <1>2, <1>3 DEF Begun, StagedType
<1>5. ASSUME NEW n \in Nat
      PROVE  /\ StoredElsewhere(n) \in StagedType /\ StoredElsewhere(n).carry = <<>>
             /\ StoredElsewhere(n).len = n /\ StoredElsewhere(n).scattered
  <2> DEFINE b == Begun(n)
             e == [b EXCEPT !.scattered = TRUE, !.received = n]
  <2>1. StoredElsewhere(n) = e BY DEF StoredElsewhere
  <2>2. b \in StagedType /\ b.carry = <<>> /\ b.len = n BY <1>4
  <2> HIDE DEF b
  <2>3. e.scattered /\ e.received = n /\ e.carry = b.carry /\ e.len = b.len
        /\ e.stream = b.stream /\ e.approval = b.approval
    BY <2>2 DEF StagedType
  <2>4. e \in StagedType BY <2>2 DEF StagedType
  <2> QED BY <2>1, <2>2, <2>3, <2>4
<1>6. ASSUME NEW n \in Nat
      PROVE  /\ PlacedAll(Begun(n)) \in StagedType /\ PlacedAll(Begun(n)).carry = <<>>
             /\ PlacedAll(Begun(n)).stream = <<>> /\ PlacedAll(Begun(n)).received = n
             /\ PlacedAll(Begun(n)).len = n /\ PlacedAll(Begun(n)).scattered = FALSE
  BY <1>4 DEF PlacedAll, StagedType
<1>7. NoMessage \in MessageType BY DEF MessageType
<1> QED BY <1>2, <1>3, <1>4, <1>5, <1>6, <1>7

LEMMA ApprovedIs ==
  ASSUME NEW s \in StagedType, NEW x \in Images
  PROVE  /\ Approved(s, x) \in StagedType /\ Approved(s, x).approval = x
         /\ Approved(s, x).carry = <<>> /\ Approved(s, x).scattered = s.scattered
         /\ Approved(s, x).stream = s.stream /\ Approved(s, x).received = s.received
         /\ Approved(s, x).len = s.len
         /\ Approved(s, x) # NoStaged
<1>1. <<>> \in Seq(Byte) BY EmptySeq
<1>2. x \in SomeImage /\ x # NoImage BY UpgradeAssumption DEF SomeImage
<1>3. /\ Approved(s, x) \in StagedType /\ Approved(s, x).approval = x
      /\ Approved(s, x).carry = <<>> /\ Approved(s, x).scattered = s.scattered
      /\ Approved(s, x).stream = s.stream /\ Approved(s, x).received = s.received
      /\ Approved(s, x).len = s.len
  BY <1>1, <1>2 DEF Approved, StagedType
<1> QED BY <1>2, <1>3, EmptyTypes

LEMMA LengthIs ==
  ASSUME NEW x \in Images
  PROVE  /\ ImageLen[x] \in Nat /\ ImageLen[x] > HeaderAt /\ ImageLen[x] > 0
         /\ ImageLen[x] <= Capacity /\ HeaderAt \in Cells /\ HeaderAt \in 0 .. ImageLen[x] - 1
BY UpgradeAssumption DEF Cells

LEMMA TransportsAre ==
  ASSUME NEW t \in Transports
  PROVE  /\ Other(t) \in Transports /\ Other(t) # t
         /\ \A u \in Transports : u = t \/ u = Other(t)
<1>1. \E u \in Transports : u # t BY DEF Transports
<1>2. Other(t) \in Transports /\ Other(t) # t BY <1>1 DEF Other
<1> QED BY <1>2 DEF Transports

LEMMA MessagesIs ==
  ASSUME NEW t \in Transports, NEW m \in MessageType
  PROVE  /\ Messages(t, m) \in [Transports -> MessageType]
         /\ Messages(t, m)[t] = m /\ Messages(t, m)[Other(t)] = NoMessage
<1>1. OthersMessage(t) = NoMessage BY DEF OthersMessage, Interrupts
<1> QED BY <1>1, TransportsAre, EmptyTypes DEF Messages

LEMMA MessageIs ==
  ASSUME NEW m \in MessageType
  PROVE  /\ m # NoMessage <=> m.img # NoImage
         /\ m # NoMessage => m \in [img : Images, at : Nat] /\ m.img \in Images /\ m.at \in Nat
BY UpgradeAssumption DEF MessageType, NoMessage

LEMMA TakenIs ==
  ASSUME medium \in [Cells -> Byte], NEW B, Junk \in B
  PROVE  Taken \in [Cells -> B] /\ \A i \in Cells : Taken[i] = Junk
BY DEF Taken

(* finish_offer: nothing, or the offer of an image that passes. *)
LEMMA FinishIs ==
  ASSUME NEW B, B \subseteq Byte, Junk \in B, NEW s \in StagedType, s.carry \in Seq(B),
         NEW m \in [Cells -> B], NEW hurt \in BOOLEAN, faulty \in BOOLEAN, Finish(s, m, hurt)
  PROVE  /\ medium' \in [Cells -> B] /\ staged' \in StagedType
         /\ faulty' \in BOOLEAN /\ (faulty \/ hurt => faulty')
         /\ \/ stage' = "idle" /\ staged' = NoStaged
            \/ /\ stage' = "offered"
               /\ \E y \in Images : /\ staged' = Approved(s, y) /\ medium' = Settled(s, m)
                                    /\ Passes(s, Settled(s, m), y)
<1>1. PICK v \in Inspects(s, m) :
        /\ medium' = v.m
        /\ faulty' = (faulty \/ hurt \/ v.hurt)
        /\ stage' = IF v.x = NoImage THEN "idle" ELSE "offered"
        /\ staged' = IF v.x = NoImage THEN NoStaged ELSE Approved(s, v.x)
  BY DEF Finish
<1>2. /\ v.m \in [Cells -> B] /\ v.x \in SomeImage /\ v.hurt \in BOOLEAN
      /\ v.x # NoImage => v.x \in Images /\ v.m = Settled(s, m) /\ Passes(s, Settled(s, m), v.x)
  BY InspectsIs
<1>3. CASE v.x = NoImage
  BY <1>1, <1>2, <1>3, EmptyTypes
<1>4. CASE v.x # NoImage
  <2>1. v.x \in Images /\ v.m = Settled(s, m) /\ Passes(s, Settled(s, m), v.x)
    BY <1>2, <1>4
  <2>2. Approved(s, v.x) \in StagedType BY <2>1, ApprovedIs
  <2> QED BY <1>1, <1>2, <1>4, <2>1, <2>2
<1> QED BY <1>3, <1>4

(* A frame's bytes: what the task can be left with. *)
LEMMA TakesIs ==
  ASSUME NEW B, B \subseteq Byte, Junk \in B, NEW t \in Transports,
         NEW st \in {"receiving", "unpacking"}, NEW s \in StagedType, s.carry \in Seq(B),
         NEW m \in [Cells -> B], NEW x \in Images, NEW at \in Nat, NEW n \in Nat,
         Bytes(x, at, n) \in Seq(B), faulty \in BOOLEAN, Takes(t, st, s, m, x, at, n)
  PROVE  LET data == Bytes(x, at, n) IN
         /\ \/ msg' = Messages(t, NoMessage)
            \/ /\ msg' = Messages(t, [img |-> x, at |-> at + n])
               /\ stage' = st /\ staged'.stream = s.stream \o data
         /\ medium' \in [Cells -> B] /\ staged' \in StagedType
         /\ faulty' \in BOOLEAN /\ (faulty => faulty')
         /\ \/ stage' = "idle" /\ staged' = NoStaged
            \/ /\ stage' = st /\ staged'.carry \in Seq(B) /\ staged'.scattered = s.scattered
               /\ ~faulty' =>
                    \/ staged' = s /\ medium' = m
                    \/ /\ s.received + Len(data) <= s.len /\ staged' = Accepted(s, data)
                       /\ medium' = Written(m, s, Words(s, data))
            \/ /\ stage' = "offered" /\ TimeToArrive /\ at + n = ImageLen[x]
               /\ \E o \in Writes(m, s, data), y \in Images :
                    /\ o.ok /\ (~faulty' => ~o.hurt)
                    /\ staged' = Approved(o.s, y) /\ medium' = Settled(o.s, o.m)
                    /\ Passes(o.s, Settled(o.s, o.m), y)
<1> DEFINE data == Bytes(x, at, n)
           last == at + n = ImageLen[x]
           still == IF last THEN NoMessage ELSE [img |-> x, at |-> at + n]
           good(o) == o.ok /\ ~last
                      /\ msg' = Messages(t, still) /\ stage' = st /\ staged' = o.s
                      /\ medium' = o.m /\ faulty' = (faulty \/ o.hurt)
           bad(o) == ~o.ok
                      /\ msg' = Messages(t, NoMessage) /\ stage' = st /\ staged' = o.s
                      /\ medium' = o.m /\ faulty' = (faulty \/ o.hurt)
           whole(o) == o.ok /\ last /\ msg' = Messages(t, still) /\ Finish(o.s, o.m, o.hurt)
           corrupt == st = "unpacking" /\ msg' = Messages(t, NoMessage)
                      /\ stage' = (IF last THEN "idle" ELSE st)
                      /\ staged' = (IF last THEN NoStaged ELSE s)
                      /\ medium' = m /\ UNCHANGED faulty
<1>1. /\ last => TimeToArrive
      /\ \/ \E o \in Writes(m, s, data) : good(o) \/ bad(o) \/ whole(o)
         \/ corrupt
  BY DEF Takes
<1> HIDE DEF data
<1>2. data \in Seq(B) BY DEF data
<1>3. ASSUME NEW o \in Writes(m, s, data)
      PROVE  /\ o.m \in [Cells -> B] /\ o.s \in StagedType /\ o.s.carry \in Seq(B)
             /\ o.ok \in BOOLEAN /\ o.hurt \in BOOLEAN /\ o.s.scattered = s.scattered
             /\ o.ok => o.s.stream = s.stream \o data
             /\ ~o.ok /\ ~o.hurt => o.s = s /\ o.m = m
             /\ o.ok /\ ~o.hurt => /\ s.received + Len(data) <= s.len
                                   /\ o.s = Accepted(s, data)
                                   /\ o.m = Written(m, s, Words(s, data))
  BY <1>2, <1>3, WritesIs
<1>4. ASSUME NEW o \in Writes(m, s, data), good(o) \/ bad(o)
      PROVE  /\ stage' = st /\ staged'.carry \in Seq(B) /\ staged'.scattered = s.scattered
             /\ medium' \in [Cells -> B] /\ staged' \in StagedType
             /\ faulty' \in BOOLEAN /\ (faulty => faulty')
             /\ ~faulty' =>
                    \/ staged' = s /\ medium' = m
                    \/ /\ s.received + Len(data) <= s.len /\ staged' = Accepted(s, data)
                       /\ medium' = Written(m, s, Words(s, data))
  BY <1>3, <1>4
<1>5. ASSUME NEW o \in Writes(m, s, data), good(o)
      PROVE  /\ msg' = Messages(t, [img |-> x, at |-> at + n])
             /\ stage' = st /\ staged'.stream = s.stream \o data
  BY <1>3, <1>5
<1>6. ASSUME NEW o \in Writes(m, s, data), whole(o)
      PROVE  /\ msg' = Messages(t, NoMessage)
             /\ medium' \in [Cells -> B] /\ staged' \in StagedType
             /\ faulty' \in BOOLEAN /\ (faulty \/ o.hurt => faulty')
             /\ \/ stage' = "idle" /\ staged' = NoStaged
                \/ /\ stage' = "offered"
                   /\ \E y \in Images : /\ staged' = Approved(o.s, y) /\ medium' = Settled(o.s, o.m)
                                        /\ Passes(o.s, Settled(o.s, o.m), y)
  <2>1. /\ o.m \in [Cells -> B] /\ o.s \in StagedType /\ o.s.carry \in Seq(B) /\ o.hurt \in BOOLEAN
    BY <1>3
  <2>2. Finish(o.s, o.m, o.hurt) /\ msg' = Messages(t, NoMessage) BY <1>6
  <2> QED BY <2>1, <2>2, FinishIs
<1>7. CASE corrupt
  BY <1>7, EmptyTypes DEF data
<1>9. CASE \E o \in Writes(m, s, data) : good(o)
  BY <1>4, <1>5, <1>9 DEF data
<1>10. CASE \E o \in Writes(m, s, data) : bad(o)
  BY <1>4, <1>10 DEF data
<1>11. CASE \E o \in Writes(m, s, data) : whole(o)
  <2>1. PICK o \in Writes(m, s, data) : whole(o) BY <1>11
  <2>2. o.ok /\ TimeToArrive /\ at + n = ImageLen[x] /\ o.hurt \in BOOLEAN BY <2>1, <1>1, <1>3
  <2> HIDE DEF whole
  <2> QED BY <2>1, <2>2, <1>6 DEF data
<1> QED BY <1>1, <1>7, <1>9, <1>10, <1>11

LEMMA DroppedIs ==
  ASSUME UpgradeTypes
  PROVE  /\ Dropped \in Stages /\ Dropped \notin {"receiving", "unpacking"}
         /\ Dropped = "offered" <=> stage = "offered"
         /\ Dropped = "approved" <=> stage = "approved"
         /\ Dropped \in {"idle", stage}
         /\ \A st \in Stages : /\ KeptBy(st) \in StagedType
                               /\ st # "idle" => KeptBy(st) = staged
BY EmptyTypes DEF Dropped, Transferring, UpgradeTypes, Stages, KeptBy

LEMMA MessagesOpen ==
  ASSUME NEW t \in Transports, NEW m \in MessageType, msg' = Messages(t, m)
  PROVE  msg' \in [Transports -> MessageType] /\ \E u \in Transports : msg'[u] = NoMessage
BY MessagesIs, TransportsAre

LEMMA TakesTypes ==
  ASSUME NEW t \in Transports, NEW st \in {"receiving", "unpacking"}, NEW s \in StagedType,
         NEW m \in [Cells -> Byte], NEW x \in Images, NEW at \in Nat, NEW n \in Nat,
         faulty \in BOOLEAN, Takes(t, st, s, m, x, at, n)
  PROVE  /\ msg' \in [Transports -> MessageType] /\ \E u \in Transports : msg'[u] = NoMessage
         /\ medium' \in [Cells -> Byte] /\ staged' \in StagedType
         /\ faulty' \in BOOLEAN /\ stage' \in {"idle", st, "offered"} /\ stage' \in Stages
<1>1. s.carry \in Seq(Byte) BY DEF StagedType
<1>2. Bytes(x, at, n) \in Seq(Byte) BY BytesAre
<1>3. /\ msg' = Messages(t, NoMessage) \/ msg' = Messages(t, [img |-> x, at |-> at + n])
      /\ medium' \in [Cells -> Byte] /\ staged' \in StagedType
      /\ faulty' \in BOOLEAN /\ stage' \in {"idle", st, "offered"}
  BY <1>1, <1>2, JunkIsByte, TakesIs
<1>4. [img |-> x, at |-> at + n] \in MessageType /\ NoMessage \in MessageType
  BY EmptyTypes DEF MessageType
<1>5. /\ msg' \in [Transports -> MessageType] /\ \E u \in Transports : msg'[u] = NoMessage
  BY <1>3, <1>4, MessagesOpen
<1>6. stage' \in Stages BY <1>3 DEF Stages
<1> QED BY <1>3, <1>5, <1>6

(* What is left to show of a step of the USB task. *)
LEMMA UsbBase ==
  ASSUME UpgradeBase, UNCHANGED <<card, marker, screen, installed>>, ckcc' \in BOOLEAN,
         msg' \in [Transports -> MessageType], \E t \in Transports : msg'[t] = NoMessage,
         stage' \in Stages, staged' \in StagedType, upload' \in MessageType,
         medium' \in [Cells -> Byte], faulty' \in BOOLEAN, looked' \in BOOLEAN,
         stage' \in {"receiving", "unpacking", "offered"}
           => upload' = NoMessage /\ card = NoStaged /\ ui # "scratch",
         upload' # NoMessage => card = NoStaged /\ ui # "scratch"
  PROVE  UpgradeBase'
<1>1. UpgradeTypes' BY DEF UpgradeBase, UpgradeTypes, screen
<1>2. OneHolder' BY DEF UpgradeBase, OneHolder, Transferring, screen
<1>3. OneMessage' BY DEF OneMessage
<1> QED BY <1>1, <1>2, <1>3 DEF UpgradeBase

LEMMA HoldersAre ==
  ASSUME UpgradeBase
  PROVE  /\ stage \in {"receiving", "unpacking", "offered"}
              => upload = NoMessage /\ card = NoStaged /\ ui # "scratch"
         /\ upload # NoMessage => card = NoStaged /\ ui # "scratch"
         /\ Transferring <=> stage \in {"receiving", "unpacking"}
BY DEF UpgradeBase, OneHolder, Transferring

LEMMA OfferStartsBase ==
  ASSUME UpgradeBase, NEW t \in Transports, NEW x \in Images,
         NEW st \in {"receiving", "unpacking"}, NEW n \in Nat, OfferStarts(t, x, st, n)
  PROVE  UpgradeBase'
<1>1. /\ Takes(t, st, Begun(ImageLen[x]), Taken, x, 0, n) /\ Free(Dropped) /\ looked' = FALSE
      /\ UNCHANGED <<ckcc, upload, card, marker, screen, installed>>
  BY DEF OfferStarts, Untouched
<1>2. /\ Begun(ImageLen[x]) \in StagedType /\ Begun(ImageLen[x]).carry \in Seq(Byte)
  BY EmptyTypes, LengthIs, EmptySeq
<1>3. Taken \in [Cells -> Byte] BY TakenIs, JunkIsByte DEF UpgradeBase, UpgradeTypes
<1>5. faulty \in BOOLEAN BY DEF UpgradeBase, UpgradeTypes
<1>6. /\ msg' \in [Transports -> MessageType] /\ \E u \in Transports : msg'[u] = NoMessage
      /\ medium' \in [Cells -> Byte] /\ staged' \in StagedType
      /\ faulty' \in BOOLEAN /\ stage' \in Stages
  BY <1>1, <1>2, <1>3, <1>5, TakesTypes
<1>9. upload = NoMessage /\ card = NoStaged /\ ui # "scratch" BY <1>1 DEF Free
<1>10. upload' = NoMessage /\ upload' \in MessageType BY <1>1, <1>9, EmptyTypes
<1>11. ckcc' \in BOOLEAN BY <1>1 DEF UpgradeBase, UpgradeTypes
<1>12. looked' \in BOOLEAN BY <1>1
<1> QED BY <1>1, <1>6, <1>9, <1>10, <1>11, <1>12, UsbBase

LEMMA OfferRefusedBase ==
  ASSUME UpgradeBase, NEW t \in Transports, OfferRefused(t)
  PROVE  UpgradeBase'
<1>1. /\ msg' = Messages(t, NoMessage) /\ stage' \in {Dropped, stage} /\ staged' = KeptBy(stage')
      /\ UNCHANGED <<ckcc, upload, card, marker, screen, installed>>
      /\ UNCHANGED <<medium, faulty, looked>>
  BY DEF OfferRefused, Untouched
<1>2. msg' \in [Transports -> MessageType] /\ \E u \in Transports : msg'[u] = NoMessage
  BY <1>1, MessagesIs, TransportsAre, EmptyTypes
<1>3. stage' \in Stages /\ staged' \in StagedType /\ stage' \in {"idle", stage}
  BY <1>1, DroppedIs DEF UpgradeBase, UpgradeTypes
<1> QED BY <1>1, <1>2, <1>3, HoldersAre, UsbBase DEF UpgradeBase, UpgradeTypes

LEMMA ImageFrameBase ==
  ASSUME UpgradeBase, NEW t \in Transports, NEW n \in Nat, ImageFrame(t, n)
  PROVE  UpgradeBase'
<1> DEFINE x == msg[t].img
           at == msg[t].at
<1>1. /\ x # NoImage /\ UNCHANGED looked
      /\ UNCHANGED <<ckcc, upload, card, marker, screen, installed>>
      /\ IF Transferring THEN Takes(t, stage, staged, medium, x, at, n)
         ELSE /\ msg' = [msg EXCEPT ![t] = IF at + n = ImageLen[x] THEN NoMessage
                                           ELSE [@ EXCEPT !.at = at + n]]
              /\ UNCHANGED <<stage, staged, medium, faulty>>
  BY DEF ImageFrame, Untouched
<1>2. /\ msg \in [Transports -> MessageType] /\ stage \in Stages /\ staged \in StagedType
      /\ medium \in [Cells -> Byte] /\ faulty \in BOOLEAN /\ looked \in BOOLEAN /\ ckcc \in BOOLEAN
      /\ upload \in MessageType
  BY DEF UpgradeBase, UpgradeTypes
<1>3. /\ msg[t] \in [img : Images, at : Nat] /\ x \in Images /\ at \in Nat
      /\ msg[t] # NoMessage
  BY <1>1, <1>2, MessageIs
<1>4. msg[Other(t)] = NoMessage
  BY <1>3, TransportsAre DEF UpgradeBase, OneMessage
<1>5. CASE Transferring
  <2>1. stage \in {"receiving", "unpacking"} BY <1>5 DEF Transferring
  <2>2. Takes(t, stage, staged, medium, x, at, n) BY <1>1, <1>5
  <2> HIDE DEF x, at
  <2>3. /\ msg' \in [Transports -> MessageType] /\ \E u \in Transports : msg'[u] = NoMessage
        /\ medium' \in [Cells -> Byte] /\ staged' \in StagedType
        /\ faulty' \in BOOLEAN /\ stage' \in Stages
    BY <1>2, <1>3, <2>1, <2>2, TakesTypes
  <2> QED BY <1>1, <1>2, <2>1, <2>3, HoldersAre, UsbBase
<1>6. CASE ~Transferring
  <2> HIDE DEF x, at
  <2>1. msg' \in [Transports -> MessageType] /\ msg'[Other(t)] = NoMessage
    <3>1. [msg[t] EXCEPT !.at = at + n] \in MessageType BY <1>3 DEF MessageType
    <3>2. msg' = [msg EXCEPT ![t] = IF at + n = ImageLen[x] THEN NoMessage
                                    ELSE [msg[t] EXCEPT !.at = at + n]]
      BY <1>1, <1>6
    <3> QED BY <3>1, <3>2, <1>2, <1>4, TransportsAre, EmptyTypes
  <2>2. \E u \in Transports : msg'[u] = NoMessage BY <2>1, TransportsAre
  <2> QED BY <1>1, <1>2, <1>6, <2>1, <2>2, HoldersAre, UsbBase
<1> QED BY <1>5, <1>6

LEMMA JunkWord ==
  ASSUME NEW n \in Nat, NEW B, Junk \in B
  PROVE  [i \in 1 .. n |-> Junk] \in Seq(B)
OBVIOUS

(* A request's bytes go to the transfer, or it leaves the medium alone. *)
RequestFeeds(n) ==
  /\ Transferring
  /\ \E o \in Writes(medium, staged, [i \in 1 .. n |-> Junk]) :
       /\ stage' = stage /\ staged' = o.s
       /\ medium' = o.m /\ faulty' = (faulty \/ o.hurt)
RequestAside ==
  UNCHANGED <<medium, faulty>> /\ stage' \in {Dropped, stage} /\ staged' = KeptBy(stage')

LEMMA RequestEnds ==
  ASSUME NEW t \in Transports, NEW n \in Nat, Request(t, n)
  PROVE  RequestFeeds(n) \/ RequestAside
BY DEF Request, RequestFeeds, RequestAside

LEMMA RequestBase ==
  ASSUME UpgradeBase, NEW t \in Transports, NEW n \in Nat, Request(t, n)
  PROVE  UpgradeBase'
<1>1. /\ msg' = Messages(t, NoMessage) /\ UNCHANGED looked
      /\ UNCHANGED <<ckcc, upload, card, marker, screen, installed>>
  BY DEF Request, Untouched
<1>2. msg' \in [Transports -> MessageType] /\ \E u \in Transports : msg'[u] = NoMessage
  BY <1>1, MessagesIs, TransportsAre, EmptyTypes
<1>3. /\ stage' \in {"idle", stage} /\ stage' \in Stages /\ staged' \in StagedType
      /\ medium' \in [Cells -> Byte] /\ faulty' \in BOOLEAN
  <2>1. CASE RequestFeeds(n)
    <3>1. PICK o \in Writes(medium, staged, [i \in 1 .. n |-> Junk]) :
            /\ stage' = stage /\ staged' = o.s
            /\ medium' = o.m /\ faulty' = (faulty \/ o.hurt)
      BY <2>1 DEF RequestFeeds
    <3>2. staged.carry \in Seq(Byte) /\ medium \in [Cells -> Byte] /\ staged \in StagedType
      BY DEF UpgradeBase, UpgradeTypes, StagedType
    <3>3. [i \in 1 .. n |-> Junk] \in Seq(Byte) BY JunkWord, JunkIsByte
    <3>4. o.s \in StagedType /\ o.m \in [Cells -> Byte] /\ o.hurt \in BOOLEAN
      BY <3>2, <3>3, JunkIsByte, WritesIs
    <3> QED BY <3>1, <3>4 DEF UpgradeBase, UpgradeTypes
  <2>2. CASE RequestAside
    BY <2>2, DroppedIs DEF RequestAside, UpgradeBase, UpgradeTypes
  <2> QED BY <2>1, <2>2, RequestEnds
<1> QED BY <1>1, <1>2, <1>3, HoldersAre, UsbBase DEF UpgradeBase, UpgradeTypes

LEMMA BadFrameBase ==
  ASSUME UpgradeBase, NEW t \in Transports, BadFrame(t)
  PROVE  UpgradeBase'
<1>1. /\ msg' = [msg EXCEPT ![t] = NoMessage] /\ stage' = Dropped /\ staged' = KeptBy(stage')
      /\ UNCHANGED <<ckcc, upload, card, marker, screen, installed>>
      /\ UNCHANGED <<medium, faulty, looked>>
  BY DEF BadFrame, Untouched
<1>2. msg' \in [Transports -> MessageType] /\ \E u \in Transports : msg'[u] = NoMessage
  BY <1>1, EmptyTypes DEF UpgradeBase, UpgradeTypes
<1>3. stage' \in Stages /\ staged' \in StagedType /\ stage' \in {"idle", stage}
  BY <1>1, DroppedIs DEF UpgradeBase, UpgradeTypes
<1> QED BY <1>1, <1>2, <1>3, HoldersAre, UsbBase DEF UpgradeBase, UpgradeTypes

(* A bus reset and a change of identity take everything but an install under
   way. *)
LEMMA LosesIs ==
  ASSUME UpgradeBase, NEW st \in Stages, Loses(st)
  PROVE  /\ msg' \in [Transports -> MessageType] /\ \A u \in Transports : msg'[u] = NoMessage
         /\ stage' = st /\ staged' \in StagedType /\ (st # "idle" => staged' = staged)
         /\ upload' = NoMessage /\ upload' \in MessageType
BY EmptyTypes, DroppedIs DEF Loses, UpgradeBase

LEMMA BusResetBase ==
  ASSUME UpgradeBase, BusReset
  PROVE  UpgradeBase'
<1>1. UNCHANGED <<ckcc, card, marker, medium, screen, installed, faulty, looked>>
  BY DEF BusReset, store, ghosts
<1>2. /\ msg' \in [Transports -> MessageType] /\ \E u \in Transports : msg'[u] = NoMessage
      /\ stage' \in {"idle", "approved"} /\ stage' \in Stages /\ staged' \in StagedType
      /\ upload' = NoMessage /\ upload' \in MessageType
  <2> DEFINE st == IF stage = "approved" THEN stage ELSE "idle"
  <2>1. Loses(st) BY DEF BusReset
  <2>2. st \in Stages /\ st \in {"idle", "approved"} BY DEF Stages
  <2> HIDE DEF st
  <2> QED BY <2>1, <2>2, LosesIs, TransportsAre DEF Transports
<1> QED BY <1>1, <1>2, UsbBase DEF UpgradeBase, UpgradeTypes

LEMMA UploadStartsBase ==
  ASSUME UpgradeBase, NEW x \in Images, UploadStarts(x)
  PROVE  UpgradeBase'
<1>1. /\ UNCHANGED <<msg, ckcc, stage, staged, card, marker, screen, installed, faulty>>
      /\ looked' = FALSE
  BY DEF UploadStarts
<1>2. \/ /\ Free(stage) \/ upload # NoMessage
         /\ upload' = [img |-> x, at |-> 0] /\ medium' = Taken
      \/ upload' = NoMessage /\ medium' = medium
  BY DEF UploadStarts
<1>3. [img |-> x, at |-> 0] \in MessageType BY DEF MessageType
<1>4. Taken \in [Cells -> Byte] BY TakenIs, JunkIsByte DEF UpgradeBase, UpgradeTypes
<1>5. upload' \in MessageType /\ medium' \in [Cells -> Byte]
  BY <1>2, <1>3, <1>4, EmptyTypes DEF UpgradeBase, UpgradeTypes
<1>6. Free(stage) => /\ stage \notin {"receiving", "unpacking", "offered"}
                     /\ card = NoStaged /\ ui # "scratch"
  BY DEF Free
<1>7. stage' \in {"receiving", "unpacking", "offered"}
        => upload' = NoMessage /\ card = NoStaged /\ ui # "scratch"
  BY <1>1, <1>2, <1>6, HoldersAre
<1>8. upload' # NoMessage => card = NoStaged /\ ui # "scratch"
  BY <1>2, <1>6, HoldersAre
<1> QED BY <1>1, <1>5, <1>7, <1>8, UsbBase DEF UpgradeBase, UpgradeTypes, OneMessage

(* A block leaves the upload's image where it is, and only its bytes, or junk,
   in the medium. *)
LEMMA UploadBlockIs ==
  ASSUME UpgradeBase, NEW B, B \subseteq Byte, Junk \in B, medium \in [Cells -> B],
         NEW n \in Sizes, UploadBlock(n), Bytes(upload.img, upload.at, n) \in Seq(B)
  PROVE  /\ upload # NoMessage /\ upload' # NoMessage /\ upload' \in MessageType
         /\ medium' \in [Cells -> B] /\ faulty' \in BOOLEAN /\ (faulty => faulty')
         /\ UNCHANGED <<msg, ckcc, stage, staged, card, marker, screen, installed, looked>>
<1> DEFINE x == upload.img
           at == upload.at
           data == Bytes(x, at, n)
<1>1. x # NoImage /\ upload \in MessageType /\ faulty \in BOOLEAN
  BY DEF UploadBlock, UpgradeBase, UpgradeTypes
<1>2. /\ upload # NoMessage /\ upload \in [img : Images, at : Nat] /\ x \in Images /\ at \in Nat
  BY <1>1, MessageIs
<1>3. n \in Nat /\ n >= 1 /\ MaxFrame \in Nat BY UpgradeAssumption DEF Sizes
<1>4. /\ UNCHANGED <<msg, ckcc, stage, staged, card, marker, screen, installed, looked>>
      /\ \/ /\ medium' = Put(medium, at, data) /\ upload' = [upload EXCEPT !.at = at + n]
            /\ UNCHANGED faulty
         \/ /\ medium' = Put(medium, at, [data EXCEPT ![1] = Junk])
            /\ upload' = [upload EXCEPT !.at = at + n] /\ faulty' = TRUE
         \/ faulty' = TRUE /\ UNCHANGED <<medium, upload>>
  BY DEF UploadBlock
<1>5. Len(data) = n BY <1>2, <1>3, BytesAre
<1> HIDE DEF data, x, at
<1>6. 1 \in 1 .. Len(data) BY <1>3, <1>5
<1>7. data \in Seq(B) /\ [data EXCEPT ![1] = Junk] \in Seq(B)
  BY <1>6, ExceptSeq DEF data, x, at
<1>8. Put(medium, at, data) \in [Cells -> B] /\ Put(medium, at, [data EXCEPT ![1] = Junk]) \in [Cells -> B]
  <2> DEFINE j == [data EXCEPT ![1] = Junk]
  <2>1. at \in Int /\ data \in Seq(B) /\ j \in Seq(B) BY <1>2, <1>7
  <2> HIDE DEF j
  <2>2. Put(medium, at, data) \in [Cells -> B] BY <2>1, PutIs
  <2>3. Put(medium, at, j) \in [Cells -> B] BY <2>1, PutIs
  <2> QED BY <2>2, <2>3 DEF j
<1>9. /\ [upload EXCEPT !.at = at + n] \in MessageType
      /\ [upload EXCEPT !.at = at + n] # NoMessage
  BY <1>1, <1>2, <1>3 DEF MessageType, NoMessage, x
<1> QED BY <1>1, <1>2, <1>4, <1>8, <1>9

LEMMA UploadBlockBase ==
  ASSUME UpgradeBase, NEW n \in Sizes, UploadBlock(n)
  PROVE  UpgradeBase'
<1>1. Bytes(upload.img, upload.at, n) \in Seq(Byte)
  <2>1. upload.img \in Images /\ upload.at \in Nat
    BY MessageIs DEF UploadBlock, UpgradeBase, UpgradeTypes
  <2>2. n \in Nat BY UpgradeAssumption DEF Sizes
  <2> QED BY <2>1, <2>2, BytesAre
<1>2. medium \in [Cells -> Byte] BY DEF UpgradeBase, UpgradeTypes
<1>3. /\ upload # NoMessage /\ upload' \in MessageType
      /\ medium' \in [Cells -> Byte] /\ faulty' \in BOOLEAN
      /\ UNCHANGED <<msg, ckcc, stage, staged, card, marker, screen, installed, looked>>
  BY <1>1, <1>2, JunkIsByte, UploadBlockIs
<1>4. stage \notin {"receiving", "unpacking", "offered"} /\ card = NoStaged /\ ui # "scratch"
  BY <1>3, HoldersAre
<1> QED BY <1>3, <1>4, UsbBase DEF UpgradeBase, UpgradeTypes, OneMessage

(* An upload that ends as an image becomes the offer, if it passes and nothing
   else is offered. *)
LEMMA UploadIsImageIs ==
  ASSUME UpgradeBase, UploadIsImage
  PROVE  LET s == StoredElsewhere(ImageLen[upload.img]) IN
         /\ upload # NoMessage /\ upload.img \in Images /\ TimeToArrive /\ upload' = NoMessage
         /\ UNCHANGED <<msg, ckcc, card, medium, marker, screen, installed, faulty, looked>>
         /\ \/ UNCHANGED <<stage, staged>>
            \/ /\ stage' = "offered"
               /\ \E y \in Images : staged' = Approved(s, y) /\ Passes(s, medium, y)
<1> DEFINE s == StoredElsewhere(ImageLen[upload.img])
<1>1. /\ upload # NoMessage /\ upload.img \in Images
  BY MessageIs DEF UploadIsImage, UpgradeBase, UpgradeTypes
<1>2. /\ s \in StagedType /\ s.carry = <<>>
  BY <1>1, LengthIs, EmptyTypes
<1>3. /\ TimeToArrive /\ upload' = NoMessage
      /\ UNCHANGED <<msg, ckcc, card, medium, marker, screen, installed, faulty, looked>>
      /\ \E v \in Inspects(s, medium) :
          IF v.x # NoImage /\ ~AnswerPending
          THEN stage' = "offered" /\ staged' = Approved(s, v.x)
          ELSE UNCHANGED <<stage, staged>>
  BY DEF UploadIsImage, store, ghosts
<1> HIDE DEF s
<1>4. PICK v \in Inspects(s, medium) :
          IF v.x # NoImage /\ ~AnswerPending
          THEN stage' = "offered" /\ staged' = Approved(s, v.x)
          ELSE UNCHANGED <<stage, staged>>
  BY <1>3
<1>5. v.x # NoImage => v.x \in Images /\ Passes(s, Settled(s, medium), v.x)
  <2>1. medium \in [Cells -> Byte] BY DEF UpgradeBase, UpgradeTypes
  <2>2. s.carry \in Seq(Byte) BY <1>2 DEF StagedType
  <2> QED BY <1>2, <2>1, <2>2, JunkIsByte, InspectsIs
<1>6. Settled(s, medium) = medium BY <1>2 DEF Settled
<1>7. \/ UNCHANGED <<stage, staged>>
      \/ /\ stage' = "offered"
         /\ \E y \in Images : staged' = Approved(s, y) /\ Passes(s, medium, y)
  BY <1>4, <1>5, <1>6
<1> QED BY <1>1, <1>3, <1>7 DEF s

LEMMA UploadIsImageBase ==
  ASSUME UpgradeBase, UploadIsImage
  PROVE  UpgradeBase'
<1> DEFINE s == StoredElsewhere(ImageLen[upload.img])
<1>1. /\ upload # NoMessage /\ upload.img \in Images /\ upload' = NoMessage
      /\ UNCHANGED <<msg, ckcc, card, medium, marker, screen, installed, faulty, looked>>
      /\ \/ UNCHANGED <<stage, staged>>
         \/ stage' = "offered" /\ \E y \in Images : staged' = Approved(s, y)
  BY UploadIsImageIs
<1>2. s \in StagedType BY <1>1, LengthIs, EmptyTypes
<1>3. card = NoStaged /\ ui # "scratch" BY <1>1, HoldersAre
<1> HIDE DEF s
<1>4. stage' \in Stages /\ staged' \in StagedType
  BY <1>1, <1>2, ApprovedIs DEF UpgradeBase, UpgradeTypes, Stages
<1> QED BY <1>1, <1>3, <1>4, EmptyTypes, UsbBase DEF UpgradeBase, UpgradeTypes, OneMessage

(* The steps of the UI task that change the screen and nothing else. *)
ScreenStep ==
  \/ ReadKeys \/ CheckReceiving \/ CheckOffer \/ Swallow \/ ConfirmOffer \/ AnswerYes
  \/ GateRefuses \/ NoteRead \/ RejectionRead \/ LeaveScratch \/ ConfirmFile \/ AnswerFile

LEMMA ScreenIs ==
  ASSUME ScreenStep
  PROVE  UNCHANGED <<usb, card, store, installed, faulty>>
BY DEF ScreenStep, ReadKeys, CheckReceiving, CheckOffer, Swallow, ConfirmOffer, AnswerYes,
       GateRefuses, NoteRead, RejectionRead, LeaveScratch, ConfirmFile, AnswerFile, ghosts

LEMMA PendingIs ==
  ASSUME UpgradeTypes
  PROVE  /\ Pending \in SomeImage
         /\ Pending # NoImage => stage = "offered" /\ staged.approval = Pending
         /\ stage = "offered" => Pending = staged.approval
BY DEF Pending, UpgradeTypes, SomeImage, StagedType

LEMMA ScreenBase ==
  ASSUME UpgradeBase, ScreenStep
  PROVE  UpgradeBase'
<1> DEFINE Holders == /\ ui' \in FileScreens <=> ui \in FileScreens
                      /\ ui' = "scratch" => ui = "scratch"
           Typed == /\ ui' \in Screens /\ key' \in {"none", "confirm", "cancel"}
                    /\ arriving' \in BOOLEAN /\ looked' \in BOOLEAN
                    /\ shown' \in SomeImage /\ drawn' \in SomeImage
                    /\ asked' \in SomeImage /\ yes' \in SomeImage
<1>1. UpgradeTypes BY DEF UpgradeBase
<1>2. Pending \in SomeImage /\ NoImage \in SomeImage /\ card.approval \in SomeImage
  BY <1>1, PendingIs DEF SomeImage, UpgradeTypes, StagedType
<1>3. Holders
  BY DEF ScreenStep, ReadKeys, CheckReceiving, CheckOffer, Swallow, ConfirmOffer, AnswerYes,
         GateRefuses, NoteRead, RejectionRead, LeaveScratch, ConfirmFile, AnswerFile, Goes,
         OnOffer, FileScreens, FileOffers
<1>4. Typed
  <2>1. ui' \in Screens /\ key' \in {"none", "confirm", "cancel"}
    BY <1>1 DEF ScreenStep, ReadKeys, CheckReceiving, CheckOffer, Swallow, ConfirmOffer, AnswerYes,
           GateRefuses, NoteRead, RejectionRead, LeaveScratch, ConfirmFile, AnswerFile,
           Goes, Screens, Loop, FileScreens, FileOffers, UpgradeTypes
  <2>2. arriving' \in BOOLEAN /\ looked' \in BOOLEAN
    <3>1. CASE CheckReceiving
      <4>1. Transferring \in BOOLEAN BY DEF Transferring
      <4>2. arriving' = Transferring /\ looked' = looked BY <3>1 DEF CheckReceiving, ghosts
      <4> QED BY <1>1, <4>1, <4>2, Zenon DEF UpgradeTypes
    <3>2. CASE CheckOffer
      <4>1. arriving' = arriving /\ looked' = TRUE BY <3>2 DEF CheckOffer
      <4> QED BY <1>1, <4>1, Zenon DEF UpgradeTypes
    <3>3. CASE ~CheckReceiving /\ ~CheckOffer
      <4>1. arriving' = arriving /\ looked' = looked
        BY <3>3 DEF ScreenStep, ReadKeys, Swallow, ConfirmOffer, AnswerYes, GateRefuses,
               NoteRead, RejectionRead, LeaveScratch, ConfirmFile, AnswerFile, ghosts
      <4> QED BY <1>1, <4>1, Zenon DEF UpgradeTypes
    <3> QED BY <3>1, <3>2, <3>3
  <2>3. shown' \in SomeImage /\ drawn' \in SomeImage
    BY <1>1, <1>2 DEF ScreenStep, ReadKeys, CheckReceiving, CheckOffer, Swallow, ConfirmOffer, AnswerYes,
           GateRefuses, NoteRead, RejectionRead, LeaveScratch, ConfirmFile, AnswerFile,
           UpgradeTypes
  <2>4. asked' \in SomeImage /\ yes' \in SomeImage
    BY <1>1, <1>2 DEF ScreenStep, ReadKeys, CheckReceiving, CheckOffer, Swallow, ConfirmOffer, AnswerYes,
           GateRefuses, NoteRead, RejectionRead, LeaveScratch, ConfirmFile, AnswerFile,
           UpgradeTypes
  <2> QED BY <2>1, <2>2, <2>3, <2>4
<1>5. UNCHANGED <<msg, ckcc, stage, staged, upload, card, medium, marker, installed, faulty>>
  BY ScreenIs DEF usb, store
<1>6. UpgradeTypes' BY <1>1, <1>4, <1>5 DEF UpgradeTypes
<1>7. OneHolder' BY <1>3, <1>5 DEF UpgradeBase, OneHolder, Transferring
<1>8. OneMessage' BY <1>5 DEF UpgradeBase, OneMessage
<1> QED BY <1>6, <1>7, <1>8 DEF UpgradeBase

(* The steps that let go of what the USB task holds, and of the file. *)
LetGoStep == Abandon \/ CancelOffer \/ AnswerNo \/ InstallRefused \/ SwitchIdentity \/ LeaveFile

LEMMA LetGoBase ==
  ASSUME UpgradeBase, LetGoStep
  PROVE  UpgradeBase'
<1>1. UpgradeTypes BY DEF UpgradeBase
<1>2. NoImage \in SomeImage BY DEF SomeImage
<1>3. CASE Abandon
  <2>1. /\ stage' \in Stages /\ stage' \in {"idle", stage} /\ staged' \in StagedType
        /\ msg' \in [Transports -> MessageType] /\ OneMessage'
    BY <1>1, <1>3, DroppedIs, EmptyTypes
       DEF Abandon, UpgradeBase, UpgradeTypes, OneMessage, Transports
  <2>2. /\ UNCHANGED <<ckcc, upload, card, medium, marker, installed, faulty, looked, shown, asked, yes>>
        /\ arriving' = FALSE /\ drawn' = NoImage /\ ui' = "rejected" /\ key' = "none" /\ ui = "handle"
    BY <1>3 DEF Abandon, Goes, store, ghosts
  <2>3. UpgradeTypes' BY <1>1, <1>2, <2>1, <2>2 DEF UpgradeTypes, Screens
  <2>4. OneHolder' BY <2>1, <2>2 DEF UpgradeBase, OneHolder, Transferring, FileScreens, FileOffers
  <2> QED BY <2>1, <2>3, <2>4 DEF UpgradeBase
<1>4. CASE CancelOffer \/ AnswerNo
  <2>1. /\ UNCHANGED <<msg, ckcc, upload, card, medium, marker, installed, faulty, looked, arriving>>
        /\ stage' = "idle" /\ staged' = NoStaged /\ ui \in {"handle", "question"}
        /\ shown' = NoImage /\ drawn' = NoImage /\ asked' = NoImage /\ yes' = NoImage
        /\ ui' = "keys" /\ key' = "none"
    BY <1>4 DEF CancelOffer, AnswerNo, OnOffer, Declines, Goes, store, ghosts
  <2>2. UpgradeTypes' BY <1>1, <1>2, <2>1, EmptyTypes DEF UpgradeTypes, Screens, Loop, Stages
  <2>3. OneHolder' BY <2>1 DEF UpgradeBase, OneHolder, Transferring, FileScreens, FileOffers
  <2>4. OneMessage' BY <2>1 DEF UpgradeBase, OneMessage
  <2> QED BY <2>2, <2>3, <2>4 DEF UpgradeBase
<1>5. CASE InstallRefused
  <2>1. /\ UNCHANGED <<msg, ckcc, staged, upload, card, medium, marker, installed, faulty, looked,
                       arriving, shown, drawn, asked, yes>>
        /\ stage' \in {"idle", stage} /\ ui = "refused" /\ ui' = "note" /\ key' = "none"
    BY <1>5 DEF InstallRefused, AfterRefusal, Goes, store, ghosts
  <2>2. UpgradeTypes' BY <1>1, <2>1 DEF UpgradeTypes, Screens, Stages
  <2>3. OneHolder' BY <2>1 DEF UpgradeBase, OneHolder, Transferring, FileScreens, FileOffers
  <2>4. OneMessage' BY <2>1 DEF UpgradeBase, OneMessage
  <2> QED BY <2>2, <2>3, <2>4 DEF UpgradeBase
<1>6. CASE SwitchIdentity
  <2>1. /\ UNCHANGED <<card, medium, marker, installed, faulty, looked, arriving, shown, drawn, asked, yes>>
        /\ ckcc' = ~ckcc /\ Loses(Dropped) /\ ui = "handle" /\ ui' = "keys" /\ key' = "none"
    BY <1>6 DEF SwitchIdentity, OnMenu, Goes, store, ghosts
  <2>2. /\ msg' \in [Transports -> MessageType] /\ \A u \in Transports : msg'[u] = NoMessage
        /\ stage' \in {"idle", stage} /\ stage' \in Stages /\ staged' \in StagedType
        /\ upload' = NoMessage /\ upload' \in MessageType
    BY <1>1, <2>1, LosesIs, DroppedIs
  <2>3. UpgradeTypes' BY <1>1, <2>1, <2>2 DEF UpgradeTypes, Screens, Loop
  <2>4. OneHolder' BY <2>1, <2>2 DEF UpgradeBase, OneHolder, Transferring, FileScreens, FileOffers
  <2>5. OneMessage' BY <2>2 DEF OneMessage, Transports
  <2> QED BY <2>3, <2>4, <2>5 DEF UpgradeBase
<1>7. CASE LeaveFile
  <2>1. /\ UNCHANGED <<msg, ckcc, stage, staged, upload, medium, marker, installed, faulty, looked,
                       arriving, shown, drawn, asked>>
        /\ card' = NoStaged /\ yes' = NoImage /\ ui \in FileScreens /\ ui' = "keys" /\ key' = "none"
    BY <1>7 DEF LeaveFile, GivesUp, Goes, usb, store, ghosts, FileScreens, FileOffers
  <2>2. UpgradeTypes' BY <1>1, <1>2, <2>1, EmptyTypes DEF UpgradeTypes, Screens, Loop
  <2>3. OneHolder' BY <2>1 DEF UpgradeBase, OneHolder, Transferring, FileScreens, FileOffers
  <2>4. OneMessage' BY <2>1 DEF UpgradeBase, OneMessage
  <2> QED BY <2>2, <2>3, <2>4 DEF UpgradeBase
<1> QED BY <1>3, <1>4, <1>5, <1>6, <1>7 DEF LetGoStep

(* The steps around the marker and the gate. *)
LEMMA PublishedIs ==
  ASSUME UpgradeTypes, NEW x \in Images, Published(x)
  PROVE  /\ marker' \in Nat /\ faulty' \in BOOLEAN /\ (faulty => faulty') /\ key' = "none"
         /\ \/ ui' = "note"
            \/ ui' = "gate" /\ marker' = ImageLen[x] /\ faulty' = faulty
<1>1. ImageLen[x] \in Nat /\ marker \in Nat /\ faulty \in BOOLEAN BY LengthIs DEF UpgradeTypes
<1>2. CASE marker' = ImageLen[x] /\ faulty' = faulty /\ Goes("gate")
  BY <1>1, <1>2 DEF Goes
<1>3. CASE marker' \in {marker, ImageLen[x]} /\ faulty' = TRUE /\ Goes("note")
  BY <1>1, <1>3 DEF Goes
<1> QED BY <1>2, <1>3 DEF Published

LEMMA ApproveIs ==
  ASSUME UpgradeBase, Approve, stage = "offered" => staged.approval \in Images
  PROVE  /\ UNCHANGED <<msg, ckcc, upload, card, medium, arriving, shown, drawn, asked, yes,
                        installed, looked>>
         /\ ui = "approve" /\ key' = "none"
         /\ marker' \in Nat /\ faulty' \in BOOLEAN /\ (faulty => faulty')
         /\ \/ ui' = "note" /\ stage' = stage /\ staged' = staged /\ stage # "offered"
            \/ ui' = "note" /\ stage' = "idle" /\ staged' = NoStaged /\ stage = "offered"
            \/ /\ ui' = "gate" /\ stage' = "approved" /\ staged' = NoStaged /\ stage = "offered"
               /\ marker' = ImageLen[staged.approval] /\ faulty' = faulty
<1>1. UpgradeTypes BY DEF UpgradeBase
<1>2. UNCHANGED <<msg, ckcc, upload, card, medium, arriving, shown, drawn, asked, yes, installed, looked>>
      /\ ui = "approve"
  BY DEF Approve
<1>3. CASE stage # "offered"
  BY <1>1, <1>2, <1>3 DEF Approve, Goes, UpgradeTypes
<1>4. CASE stage = "offered"
  <2>1. /\ Published(staged.approval) /\ staged' = NoStaged
        /\ stage' = IF ui' = "gate" THEN "approved" ELSE "idle"
    BY <1>4 DEF Approve
  <2> QED BY <1>1, <1>2, <1>4, <2>1, PublishedIs
<1> QED BY <1>3, <1>4

LEMMA CommitFileIs ==
  ASSUME UpgradeBase, CommitFile
  PROVE  /\ UNCHANGED <<msg, ckcc, stage, staged, upload, medium, arriving, shown, drawn, asked,
                        yes, installed, looked>>
         /\ ui = "file commit" /\ key' = "none" /\ card' = NoStaged
         /\ marker' \in Nat /\ faulty' \in BOOLEAN /\ (faulty => faulty')
         /\ \/ ui' = "note"
            \/ ui' = "gate" /\ marker' = ImageLen[card.approval] /\ faulty' = faulty
<1>1. UpgradeTypes BY DEF UpgradeBase
<1>2. /\ UNCHANGED <<msg, ckcc, stage, staged, upload, medium, arriving, shown, drawn, asked,
                     yes, installed, looked>>
      /\ ui = "file commit" /\ card' = NoStaged /\ Published(card.approval)
  BY DEF CommitFile, GivesUp, usb
<1>3. card.approval \in Images
  BY <1>2 DEF UpgradeBase, OneHolder, FileScreens, FileOffers
<1> QED BY <1>1, <1>2, <1>3, PublishedIs

GateInstallStep == Approve \/ CommitFile \/ GateInstalls \/ Retract

LEMMA InstallBase ==
  ASSUME UpgradeBase, HeaderNames, GateInstallStep
  PROVE  UpgradeBase'
<1>1. UpgradeTypes BY DEF UpgradeBase
<1>2. CASE Approve
  <2>1. stage = "offered" => staged.approval \in Images BY DEF HeaderNames, HeaderOf
  <2>2. /\ UNCHANGED <<msg, ckcc, upload, card, medium, arriving, shown, drawn, asked, yes,
                        installed, looked>>
        /\ ui = "approve" /\ key' = "none" /\ ui' \in {"note", "gate"}
        /\ marker' \in Nat /\ faulty' \in BOOLEAN
        /\ \/ stage' = stage /\ staged' = staged
           \/ stage' \in {"idle", "approved"} /\ staged' = NoStaged
    BY <1>2, <2>1, ApproveIs
  <2>3. UpgradeTypes' BY <1>1, <2>2, EmptyTypes DEF UpgradeTypes, Screens, Stages
  <2>4. OneHolder' BY <2>2 DEF UpgradeBase, OneHolder, Transferring, FileScreens, FileOffers
  <2>5. OneMessage' BY <2>2 DEF UpgradeBase, OneMessage
  <2> QED BY <2>3, <2>4, <2>5 DEF UpgradeBase
<1>3. CASE CommitFile
  <2>1. /\ UNCHANGED <<msg, ckcc, stage, staged, upload, medium, arriving, shown, drawn, asked,
                        yes, installed, looked>>
        /\ ui = "file commit" /\ key' = "none" /\ card' = NoStaged
        /\ marker' \in Nat /\ faulty' \in BOOLEAN /\ ui' \in {"note", "gate"}
    BY <1>3, CommitFileIs
  <2>2. UpgradeTypes' BY <1>1, <2>1, EmptyTypes DEF UpgradeTypes, Screens
  <2>3. OneHolder' BY <2>1 DEF UpgradeBase, OneHolder, Transferring, FileScreens, FileOffers
  <2>4. OneMessage' BY <2>1 DEF UpgradeBase, OneMessage
  <2> QED BY <2>2, <2>3, <2>4 DEF UpgradeBase
<1>4. CASE GateInstalls
  <2>1. /\ UNCHANGED <<msg, ckcc, stage, staged, upload, card, medium, marker, ui, key, arriving,
                       shown, drawn, asked, yes, faulty, looked>>
        /\ installed' \in Images
    BY <1>4, UpgradeAssumption DEF GateInstalls, usb, store, screen
  <2>2. UpgradeTypes' BY <1>1, <2>1 DEF UpgradeTypes, SomeImage
  <2>3. OneHolder' BY <2>1 DEF UpgradeBase, OneHolder, Transferring
  <2>4. OneMessage' BY <2>1 DEF UpgradeBase, OneMessage
  <2> QED BY <2>2, <2>3, <2>4 DEF UpgradeBase
<1>5. CASE Retract
  <2>1. /\ UNCHANGED <<msg, ckcc, stage, staged, upload, card, medium, arriving, shown, drawn,
                       asked, yes, installed, looked>>
        /\ ui = "retract" /\ ui' = "refused" /\ key' = "none"
        /\ marker' \in {marker, 0} /\ faulty' \in {faulty, TRUE}
    BY <1>5 DEF Retract, Goes, usb
  <2>2. marker' \in Nat /\ faulty' \in BOOLEAN
    <3>1. marker' \in Nat BY <1>1, <2>1 DEF UpgradeTypes
    <3>2. faulty' \in BOOLEAN BY <1>1, <2>1, Zenon DEF UpgradeTypes
    <3> QED BY <3>1, <3>2
  <2>3. UpgradeTypes' BY <1>1, <2>1, <2>2 DEF UpgradeTypes, Screens
  <2>4. OneHolder' BY <2>1 DEF UpgradeBase, OneHolder, Transferring, FileScreens, FileOffers
  <2>5. OneMessage' BY <2>1 DEF UpgradeBase, OneMessage
  <2> QED BY <2>3, <2>4, <2>5 DEF UpgradeBase
<1> QED BY <1>2, <1>3, <1>4, <1>5 DEF GateInstallStep

(* The steps that take the medium from the menu. *)
LEMMA FreeIs ==
  ASSUME UpgradeTypes, Free(stage)
  PROVE  /\ stage \in {"idle", "approved"} /\ upload = NoMessage /\ card = NoStaged /\ ui # "scratch"
         /\ ~Transferring
BY DEF Free, UpgradeTypes, Stages, Transferring

LEMMA MenuIs ==
  ASSUME UpgradeTypes, NEW x, UseScratch \/ (x \in Images /\ (OpenFile(x) \/ Scan(x)))
  PROVE  /\ UNCHANGED <<msg, ckcc, stage, staged, upload, marker, installed, faulty, looked, arriving,
                        shown, drawn, asked, yes>>
         /\ ui = "handle" /\ shown = NoImage /\ key' = "none" /\ Free(stage)
         /\ medium' \in [Cells -> Byte]
         /\ \/ ui' = "scratch" /\ card' = card
            \/ /\ ui' = "file" /\ x \in Images
               /\ \/ card' = Approved(Begun(ImageLen[x]), x)
                  \/ card' = Approved(PlacedAll(Begun(ImageLen[x])), x)
<1>1. Taken \in [Cells -> Byte] BY TakenIs, JunkIsByte DEF UpgradeTypes
<1>2. ASSUME x \in Images PROVE Put(Taken, 0, Bytes(x, 0, ImageLen[x])) \in [Cells -> Byte]
  <2> DEFINE b == Bytes(x, 0, ImageLen[x])
             m == Taken
  <2>1. b \in Seq(Byte) BY <1>2, LengthIs, BytesAre
  <2>2. m \in [Cells -> Byte] BY <1>1
  <2> HIDE DEF b, m
  <2>3. Put(m, 0, b) \in [Cells -> Byte] BY <2>1, <2>2, PutIs
  <2> QED BY <2>3 DEF b, m
<1>3. CASE UseScratch
  BY <1>1, <1>3 DEF UseScratch, OnMenu, Goes, usb, ghosts
<1>4. CASE x \in Images /\ OpenFile(x)
  BY <1>1, <1>4 DEF OpenFile, OnMenu, Goes, usb, ghosts
<1>5. CASE x \in Images /\ Scan(x)
  BY <1>2, <1>5 DEF Scan, OnMenu, Goes, usb, ghosts
<1> QED BY <1>3, <1>4, <1>5

LEMMA MenuBase ==
  ASSUME UpgradeBase, NEW x, UseScratch \/ (x \in Images /\ (OpenFile(x) \/ Scan(x)))
  PROVE  UpgradeBase'
<1>1. UpgradeTypes BY DEF UpgradeBase
<1>2. /\ UNCHANGED <<msg, ckcc, stage, staged, upload, marker, installed, faulty, looked, arriving,
                        shown, drawn, asked, yes>>
      /\ ui = "handle" /\ key' = "none" /\ Free(stage)
      /\ medium' \in [Cells -> Byte]
      /\ \/ ui' = "scratch" /\ card' = card
         \/ /\ ui' = "file" /\ x \in Images
            /\ \/ card' = Approved(Begun(ImageLen[x]), x)
               \/ card' = Approved(PlacedAll(Begun(ImageLen[x])), x)
  BY <1>1, MenuIs
<1>3. \/ ui' = "scratch" /\ card' = card
      \/ ui' = "file" /\ card' \in StagedType /\ card' # NoStaged /\ card'.approval \in Images
  BY <1>2, LengthIs, EmptyTypes, ApprovedIs
<1>4. stage \in {"idle", "approved"} /\ upload = NoMessage /\ card = NoStaged
  BY <1>1, <1>2, FreeIs
<1>5. UpgradeTypes' BY <1>1, <1>2, <1>3 DEF UpgradeTypes, Screens, FileScreens
<1>6. OneHolder' BY <1>2, <1>3, <1>4 DEF UpgradeBase, OneHolder, Transferring, FileScreens, FileOffers
<1>7. OneMessage' BY <1>2 DEF UpgradeBase, OneMessage
<1> QED BY <1>5, <1>6, <1>7 DEF UpgradeBase

(* A chunk of the file, and its end. *)
LEMMA FileChunkIs ==
  ASSUME UpgradeBase, NEW n \in Sizes, FileChunk(n)
  PROVE  LET data == Bytes(card.approval, card.received, n) IN
         /\ UNCHANGED <<msg, ckcc, stage, staged, upload, marker, arriving, shown, drawn, asked,
                        yes, installed, looked>>
         /\ ui = "file" /\ key' = "none" /\ card.received + n <= card.len /\ n >= 1 /\ n \in Nat
         /\ medium' \in [Cells -> Byte] /\ faulty' \in BOOLEAN /\ (faulty => faulty')
         /\ \/ ui' = "note" /\ card' = NoStaged
            \/ /\ ui' = "file" /\ card' \in StagedType
               /\ card'.approval = card.approval /\ card'.scattered = card.scattered
               /\ ~faulty' => /\ card' = Accepted(card, data)
                              /\ medium' = Written(medium, card, Words(card, data))
<1> DEFINE data == Bytes(card.approval, card.received, n)
<1>1. ui = "file" /\ card.received + n <= card.len
      /\ UNCHANGED <<msg, ckcc, stage, staged, upload, marker, arriving, shown, drawn, asked,
                        yes, installed, looked>>
  BY DEF FileChunk, usb
<1>2. /\ card \in StagedType /\ medium \in [Cells -> Byte] /\ faulty \in BOOLEAN
      /\ card.approval \in Images /\ n \in Nat /\ n >= 1
  BY <1>1, UpgradeAssumption DEF UpgradeBase, UpgradeTypes, OneHolder, FileScreens, Sizes
<1>3. card.carry \in Seq(Byte) /\ card.received \in Nat BY <1>2 DEF StagedType
<1>4. data \in Seq(Byte) BY <1>2, <1>3, BytesAre
<1> HIDE DEF data
<1>5. PICK o \in Writes(medium, card, data) :
       /\ medium' = o.m /\ faulty' = (faulty \/ o.hurt)
       /\ IF o.ok THEN card' = o.s /\ Goes("file")
                  ELSE GivesUp /\ Goes("note")
  BY DEF FileChunk, data
<1>6. /\ o.m \in [Cells -> Byte] /\ o.s \in StagedType
      /\ o.ok \in BOOLEAN /\ o.hurt \in BOOLEAN
      /\ o.s.approval = card.approval /\ o.s.scattered = card.scattered
      /\ o.ok /\ ~o.hurt => /\ o.s = Accepted(card, data)
                            /\ o.m = Written(medium, card, Words(card, data))
  BY <1>2, <1>3, <1>4, JunkIsByte, WritesIs
<1>7. medium' \in [Cells -> Byte] /\ faulty' \in BOOLEAN /\ (faulty => faulty') /\ key' = "none"
  BY <1>2, <1>5, <1>6 DEF Goes
<1>10. \/ ui' = "note" /\ card' = NoStaged
       \/ /\ ui' = "file" /\ card' \in StagedType
          /\ card'.approval = card.approval /\ card'.scattered = card.scattered
          /\ ~faulty' => /\ card' = Accepted(card, data)
                         /\ medium' = Written(medium, card, Words(card, data))
  BY <1>2, <1>5, <1>6 DEF Goes, GivesUp
<1> QED BY <1>1, <1>2, <1>7, <1>10 DEF data

LEMMA FileInspectedIs ==
  ASSUME UpgradeBase, FileInspected
  PROVE  /\ UNCHANGED <<msg, ckcc, stage, staged, upload, marker, arriving, shown, drawn, asked,
                        yes, installed, looked>>
         /\ ui = "file" /\ key' = "none"
         /\ medium' \in [Cells -> Byte] /\ faulty' \in BOOLEAN /\ (faulty => faulty')
         /\ \/ ui' = "note" /\ card' = NoStaged
            \/ /\ ui' = "file offer"
               /\ \E y \in Images : /\ card' = Approved(card, y) /\ medium' = Settled(card, medium)
                                    /\ Passes(card, Settled(card, medium), y)
<1>1. /\ ui = "file"
      /\ UNCHANGED <<msg, ckcc, stage, staged, upload, marker, arriving, shown, drawn, asked,
                        yes, installed, looked>>
  BY DEF FileInspected, usb
<1>2. /\ card \in StagedType /\ medium \in [Cells -> Byte] /\ faulty \in BOOLEAN
  BY DEF UpgradeBase, UpgradeTypes
<1>3. card.carry \in Seq(Byte) BY <1>2 DEF StagedType
<1>4. PICK v \in Inspects(card, medium) :
       /\ medium' = v.m /\ faulty' = (faulty \/ v.hurt)
       /\ IF v.x = NoImage THEN GivesUp /\ Goes("note")
          ELSE card' = Approved(card, v.x) /\ Goes("file offer")
  BY DEF FileInspected
<1>5. /\ v.m \in [Cells -> Byte] /\ v.hurt \in BOOLEAN
      /\ v.x # NoImage => /\ v.x \in Images /\ v.m = Settled(card, medium)
                          /\ Passes(card, Settled(card, medium), v.x)
  BY <1>2, <1>3, JunkIsByte, InspectsIs
<1>6. medium' \in [Cells -> Byte] /\ faulty' \in BOOLEAN /\ (faulty => faulty') /\ key' = "none"
  BY <1>2, <1>4, <1>5 DEF Goes
<1>7. CASE v.x = NoImage
  BY <1>1, <1>4, <1>6, <1>7 DEF Goes, GivesUp
<1>8. CASE v.x # NoImage
  <2>1. ui' = "file offer" /\ card' = Approved(card, v.x) BY <1>4, <1>8 DEF Goes
  <2>2. v.x \in Images /\ medium' = Settled(card, medium) /\ Passes(card, Settled(card, medium), v.x)
    BY <1>4, <1>5, <1>8
  <2> QED BY <1>1, <1>6, <2>1, <2>2
<1> QED BY <1>7, <1>8

LEMMA FileBase ==
  ASSUME UpgradeBase, FileInspected \/ \E n \in Sizes : FileChunk(n)
  PROVE  UpgradeBase'
<1>1. UpgradeTypes BY DEF UpgradeBase
<1>2. /\ UNCHANGED <<msg, ckcc, stage, staged, upload, marker, arriving, shown, drawn, asked,
                        yes, installed, looked>>
      /\ ui = "file" /\ key' = "none"
      /\ medium' \in [Cells -> Byte] /\ faulty' \in BOOLEAN
      /\ \/ ui' = "note" /\ card' = NoStaged
         \/ /\ ui' \in {"file", "file offer"} /\ card' \in StagedType /\ card'.approval \in Images
            /\ card' # NoStaged
  <2>1. CASE FileInspected
    <3>1. card \in StagedType BY <1>1 DEF UpgradeTypes
    <3>2. \A y \in Images : /\ Approved(card, y) \in StagedType /\ Approved(card, y).approval = y
                            /\ Approved(card, y) # NoStaged
      BY <3>1, ApprovedIs
    <3>3. /\ UNCHANGED <<msg, ckcc, stage, staged, upload, marker, arriving, shown, drawn, asked,
                          yes, installed, looked>>
          /\ ui = "file" /\ key' = "none" /\ medium' \in [Cells -> Byte] /\ faulty' \in BOOLEAN
          /\ \/ ui' = "note" /\ card' = NoStaged
             \/ ui' = "file offer" /\ \E y \in Images : card' = Approved(card, y)
      BY <2>1, FileInspectedIs
    <3> QED BY <3>2, <3>3
  <2>2. ASSUME NEW n \in Sizes, FileChunk(n)
        PROVE  /\ UNCHANGED <<msg, ckcc, stage, staged, upload, marker, arriving, shown, drawn, asked,
                              yes, installed, looked>>
               /\ ui = "file" /\ key' = "none"
               /\ medium' \in [Cells -> Byte] /\ faulty' \in BOOLEAN
               /\ \/ ui' = "note" /\ card' = NoStaged
                  \/ /\ ui' = "file" /\ card' \in StagedType /\ card'.approval = card.approval
    BY <2>2, FileChunkIs
  <2>3. ui = "file" => card.approval \in Images /\ card.approval # NoImage
    BY UpgradeAssumption DEF UpgradeBase, OneHolder, FileScreens
  <2>4. CASE \E n \in Sizes : FileChunk(n)
    <3>1. PICK n \in Sizes : FileChunk(n) BY <2>4
    <3>2. NoStaged.approval = NoImage BY EmptyTypes
    <3>3. ui = "file" /\ (ui' = "file" => card' \in StagedType /\ card'.approval = card.approval)
      BY <2>2, <3>1
    <3>4. ui' = "file" => card' \in StagedType /\ card'.approval \in Images /\ card' # NoStaged
      BY <2>3, <3>2, <3>3
    <3> QED BY <2>2, <3>1, <3>4
  <2> QED BY <2>1, <2>4
<1>3. card # NoStaged BY <1>2 DEF UpgradeBase, OneHolder, FileScreens
<1>4. UpgradeTypes' BY <1>1, <1>2, EmptyTypes DEF UpgradeTypes, Screens, FileScreens, FileOffers
<1>5. OneHolder' BY <1>2, <1>3 DEF UpgradeBase, OneHolder, Transferring, FileScreens, FileOffers
<1>6. OneMessage' BY <1>2 DEF UpgradeBase, OneMessage
<1> QED BY <1>4, <1>5, <1>6 DEF UpgradeBase

-----------------------------------------------------------------------------
(* The steps, by what they are to the inductive invariant. *)

MenuStep == UseScratch \/ \E x \in Images : OpenFile(x) \/ Scan(x)
FileStep == FileInspected \/ \E n \in Sizes : FileChunk(n)

LEMMA UiSteps ==
  ASSUME UiStep
  PROVE  ScreenStep \/ LetGoStep \/ GateInstallStep \/ MenuStep \/ FileStep
BY DEF UiStep, AnswerStep, GateStep, ScreenStep, LetGoStep, GateInstallStep, MenuStep, FileStep

(* The offer in hand, of the USB task or on the UI task, names its header: what
   the base needs beyond itself. *)
LEMMA BaseStep ==
  ASSUME UpgradeBase, HeaderNames, [Next]_vars
  PROVE  UpgradeBase'
<1>1. CASE UNCHANGED vars
  BY <1>1 DEF vars, usb, store, screen, ghosts, UpgradeBase, UpgradeTypes, OneHolder, OneMessage,
              Transferring
<1>2. CASE UsbStep
  <2>1. \A n \in Sizes : n \in Nat BY DEF Sizes
  <2>2. CASE \E t \in Transports :
               \/ \E x \in Images, st \in {"receiving", "unpacking"}, n \in Sizes :
                    OfferStarts(t, x, st, n)
               \/ OfferRefused(t)
               \/ \E n \in Sizes : ImageFrame(t, n)
               \/ \E n \in Sizes : Request(t, n)
               \/ BadFrame(t)
    BY <2>1, <2>2, OfferStartsBase, OfferRefusedBase, ImageFrameBase, RequestBase, BadFrameBase
  <2>3. CASE \/ BusReset
             \/ \E x \in Images : UploadStarts(x)
             \/ \E n \in Sizes : UploadBlock(n)
             \/ UploadIsImage
    BY <2>3, BusResetBase, UploadStartsBase, UploadBlockBase, UploadIsImageBase
  <2> QED BY <1>2, <2>2, <2>3 DEF UsbStep
<1>3. CASE UiStep
  <2>1. CASE MenuStep
    BY <2>1, MenuBase DEF MenuStep
  <2>2. CASE FileStep
    BY <2>2, FileBase DEF FileStep
  <2> QED BY <1>3, <2>1, <2>2, UiSteps, ScreenBase, LetGoBase, InstallBase
<1> QED BY <1>1, <1>2, <1>3 DEF Next

(* A frame's bytes: the transfer that goes on has hashed its own message and
   stored what it hashed; the offer it becomes is the image stored. *)
LEMMA TransferTakes ==
  ASSUME NEW t \in Transports, NEW st \in {"receiving", "unpacking"}, NEW s \in StagedType,
         NEW m \in [Cells -> Byte], NEW x \in Images, NEW at \in Nat, NEW n \in Nat,
         faulty \in BOOLEAN, Takes(t, st, s, m, x, at, n)
  PROVE  /\ faulty => faulty'
         /\ stage' = "offered" => at + n = ImageLen[x] /\ TimeToArrive /\ HeaderOf(staged.approval)'
         /\ s.stream = Bytes(x, 0, at) /\ Transferring' => TransferIsItsMessage'
         /\ ~s.scattered /\ Arrived(s, m) /\ ~faulty' =>
              /\ Transferring' => ~staged'.scattered /\ Arrived(staged, medium)'
              /\ stage' = "offered" => Holds(staged.approval)'
<1> DEFINE data == Bytes(x, at, n)
<1>1. s.carry \in Seq(Byte) BY DEF StagedType
<1>2. data \in Seq(Byte) BY BytesAre
<1>3. /\ \/ msg' = Messages(t, NoMessage)
         \/ /\ msg' = Messages(t, [img |-> x, at |-> at + n])
            /\ staged'.stream = s.stream \o data
      /\ faulty' \in BOOLEAN /\ (faulty => faulty')
      /\ \/ stage' = "idle"
         \/ /\ stage' = st /\ staged'.scattered = s.scattered
            /\ ~faulty' =>
                 \/ staged' = s /\ medium' = m
                 \/ /\ s.received + Len(data) <= s.len /\ staged' = Accepted(s, data)
                    /\ medium' = Written(m, s, Words(s, data))
         \/ /\ stage' = "offered" /\ TimeToArrive /\ at + n = ImageLen[x]
            /\ \E o \in Writes(m, s, data), y \in Images :
                 /\ o.ok /\ (~faulty' => ~o.hurt)
                 /\ staged' = Approved(o.s, y) /\ medium' = Settled(o.s, o.m)
                 /\ Passes(o.s, Settled(o.s, o.m), y)
  BY <1>1, <1>2, JunkIsByte, TakesIs
<1>4. ASSUME s.stream = Bytes(x, 0, at), Transferring' PROVE TransferIsItsMessage'
  <2>1. s.stream \o data = Bytes(x, 0, at + n) BY <1>4, BytesMeet
  <2>2. NoMessage \in MessageType /\ [img |-> x, at |-> at + n] \in MessageType
    BY EmptyTypes DEF MessageType
  <2>3. CASE msg' = Messages(t, NoMessage)
    <3>1. /\ msg'[t] = NoMessage /\ msg'[Other(t)] = NoMessage
          /\ \A u \in Transports : u = t \/ u = Other(t)
      BY <2>2, <2>3, MessagesIs, TransportsAre
    <3>2. \A u \in Transports : msg'[u] = NoMessage BY <3>1
    <3> QED BY <3>2 DEF TransferIsItsMessage
  <2>4. CASE msg' = Messages(t, [img |-> x, at |-> at + n]) /\ staged'.stream = s.stream \o data
    <3>1. /\ msg'[t] = [img |-> x, at |-> at + n] /\ msg'[Other(t)] = NoMessage
          /\ \A u \in Transports : u = t \/ u = Other(t)
      BY <2>2, <2>4, MessagesIs, TransportsAre
    <3>2. msg'[t].img = x /\ msg'[t].at = at + n BY <3>1
    <3>3. staged'.stream = Bytes(msg'[t].img, 0, msg'[t].at) BY <2>1, <2>4, <3>2
    <3> HIDE DEF data
    <3> QED BY <3>1, <3>3 DEF TransferIsItsMessage
  <2> HIDE DEF data
  <2> QED BY <1>3, <2>3, <2>4
<1>5. ASSUME ~s.scattered, Arrived(s, m), ~faulty', Transferring'
      PROVE  ~staged'.scattered /\ Arrived(staged, medium)'
  <2>1. /\ stage' = st /\ staged'.scattered = s.scattered
        /\ \/ staged' = s /\ medium' = m
           \/ /\ s.received + Len(data) <= s.len /\ staged' = Accepted(s, data)
              /\ medium' = Written(m, s, Words(s, data))
    <3> HIDE DEF data
    <3> QED BY <1>3, <1>5 DEF Transferring
  <2>2. Arrived(staged', medium')
    <3>1. CASE staged' = s /\ medium' = m BY <1>5, <3>1
    <3>2. CASE /\ s.received + Len(data) <= s.len /\ staged' = Accepted(s, data)
               /\ medium' = Written(m, s, Words(s, data))
      <4>1. Arrived(Accepted(s, data), Written(m, s, Words(s, data)))
        BY <1>2, <1>5, <3>2, ArrivedWrites
      <4> QED BY <3>2, <4>1
    <3> QED BY <2>1, <3>1, <3>2
  <2>3. Arrived(staged, medium)' BY <2>2 DEF Arrived, PlaceOf
  <2> QED BY <1>5, <2>1, <2>3
<1>6. ASSUME stage' = "offered"
      PROVE  /\ at + n = ImageLen[x] /\ TimeToArrive /\ HeaderOf(staged.approval)'
             /\ ~s.scattered /\ Arrived(s, m) /\ ~faulty' => Holds(staged.approval)'
  <2> HIDE DEF data
  <2>1. at + n = ImageLen[x] /\ TimeToArrive BY <1>3, <1>6
  <2>2. PICK o \in Writes(m, s, data), y \in Images :
                 /\ o.ok /\ (~faulty' => ~o.hurt)
                 /\ staged' = Approved(o.s, y) /\ medium' = Settled(o.s, o.m)
                 /\ Passes(o.s, Settled(o.s, o.m), y)
    BY <1>3, <1>6
  <2>3. /\ o.m \in [Cells -> Byte] /\ o.s \in StagedType
        /\ ~o.hurt => /\ s.received + Len(data) <= s.len
                      /\ o.s = Accepted(s, data) /\ o.m = Written(m, s, Words(s, data))
    BY <1>1, <1>2, <2>2, JunkIsByte, WritesIs
  <2>4. staged'.approval = y BY <2>2, <2>3, ApprovedIs
  <2>5. medium'[HeaderAt] = <<y, HeaderAt>> BY <2>2 DEF Passes
  <2>6. HeaderOf(staged.approval)' BY <2>4, <2>5 DEF HeaderOf
  <2>7. ASSUME ~s.scattered, Arrived(s, m), ~faulty' PROVE Holds(staged.approval)'
    <3>1. Arrived(o.s, o.m) BY <1>2, <2>2, <2>3, <2>7, ArrivedWrites
    <3>2. Stored(Settled(o.s, o.m), ImageLen[y]) = Bytes(y, 0, ImageLen[y])
      BY <2>2, <2>3, <3>1, PassesStored
    <3> QED BY <2>2, <2>4, <3>2 DEF Holds, Stored, Bytes
  <2> QED BY <2>1, <2>6, <2>7
<1> QED BY <1>3, <1>4, <1>5, <1>6, Zenon

(* What a step of the USB task is to the rest: it leaves the screen and the file,
   takes the medium from nobody, begins nothing that has been looked at, and
   offers only what was under way and had the time. *)
UsbIs ==
  /\ UNCHANGED <<card, marker, screen, installed>> /\ (faulty => faulty')
  /\ medium' = medium \/ card = NoStaged
  /\ Active' /\ looked' => Active /\ looked
  /\ stage' = "offered" =>
       \/ stage = "offered" /\ staged' = staged /\ medium' = medium
       \/ Active /\ TimeToArrive /\ looked' = looked /\ HeaderOf(staged.approval)'

(* ... and to the transfer. *)
UsbKeeps ==
  /\ TransferIsItsMessage'
  /\ ~faulty' => /\ Transferring' => ~staged'.scattered /\ Arrived(staged, medium)'
                 /\ stage' = "offered" => Holds(staged.approval)'

LEMMA StillStored ==
  ASSUME StoredParts, staged' = staged, stage' = stage, medium' = medium, faulty => faulty'
  PROVE  ~faulty' => /\ Transferring' => ~staged'.scattered /\ Arrived(staged, medium)'
                     /\ stage' = "offered" => Holds(staged.approval)'
BY DEF StoredParts, ArrivedIsStored, OfferedIsStored, Transferring, Arrived, Holds, PlaceOf, Stored,
       Bytes

LEMMA OfferStartsIs ==
  ASSUME UpgradeBase, NEW t \in Transports, NEW x \in Images,
         NEW st \in {"receiving", "unpacking"}, NEW n \in Nat, OfferStarts(t, x, st, n)
  PROVE  UsbIs /\ UsbKeeps
<1> DEFINE s == Begun(ImageLen[x])
<1>1. /\ Takes(t, st, s, Taken, x, 0, n) /\ Free(Dropped) /\ looked' = FALSE /\ n < ImageLen[x]
      /\ UNCHANGED <<ckcc, upload, card, marker, screen, installed>>
  BY DEF OfferStarts, Untouched
<1>2. /\ s \in StagedType /\ s.carry = <<>> /\ s.stream = <<>> /\ s.received = 0
      /\ s.len = ImageLen[x] /\ s.scattered = FALSE
  BY EmptyTypes, LengthIs
<1>3. Taken \in [Cells -> Byte] BY TakenIs, JunkIsByte DEF UpgradeBase, UpgradeTypes
<1>4. faulty \in BOOLEAN /\ card = NoStaged BY <1>1 DEF UpgradeBase, UpgradeTypes, Free
<1>5. ImageLen[x] \in Nat /\ ImageLen[x] <= Capacity BY LengthIs
<1> HIDE DEF s
<1>6. Arrived(s, Taken)
  BY <1>2, <1>5, UpgradeAssumption DEF Arrived, PlaceOf
<1>7. s.stream = Bytes(x, 0, 0) BY <1>2 DEF Bytes
<1>8. /\ faulty => faulty'
      /\ stage' = "offered" => 0 + n = ImageLen[x]
      /\ s.stream = Bytes(x, 0, 0) /\ Transferring' => TransferIsItsMessage'
      /\ ~s.scattered /\ Arrived(s, Taken) /\ ~faulty' =>
              /\ Transferring' => ~staged'.scattered /\ Arrived(staged, medium)'
              /\ stage' = "offered" => Holds(staged.approval)'
  BY <1>1, <1>2, <1>3, <1>4, TransferTakes
<1>9. stage' # "offered" BY <1>1, <1>5, <1>8
<1>10. UsbIs BY <1>1, <1>4, <1>8, <1>9 DEF UsbIs
<1>11. TransferIsItsMessage'
  BY <1>7, <1>8, Zenon DEF TransferIsItsMessage
<1> QED BY <1>2, <1>6, <1>8, <1>10, <1>11 DEF UsbKeeps

LEMMA ImageFrameIs ==
  ASSUME UpgradeBase, StoredParts, NEW t \in Transports, NEW n \in Nat, ImageFrame(t, n)
  PROVE  UsbIs /\ UsbKeeps
<1> DEFINE x == msg[t].img
           at == msg[t].at
<1>1. /\ x # NoImage /\ looked' = looked
      /\ UNCHANGED <<ckcc, upload, card, marker, screen, installed>>
      /\ IF Transferring THEN Takes(t, stage, staged, medium, x, at, n)
         ELSE UNCHANGED <<stage, staged, medium, faulty>>
  BY DEF ImageFrame, Untouched
<1>2. msg \in [Transports -> MessageType] /\ staged \in StagedType /\ medium \in [Cells -> Byte]
      /\ faulty \in BOOLEAN
  BY DEF UpgradeBase, UpgradeTypes
<1>3. x \in Images /\ at \in Nat /\ msg[t] # NoMessage BY <1>1, <1>2, MessageIs
<1>4. CASE Transferring
  <2>1. stage \in {"receiving", "unpacking"} /\ card = NoStaged /\ Active
    BY <1>4, HoldersAre DEF Active
  <2>2. Takes(t, stage, staged, medium, x, at, n) BY <1>1, <1>4
  <2>3. staged.stream = Bytes(x, 0, at)
    BY <1>3, <1>4 DEF StoredParts, TransferIsItsMessage
  <2>4. ~faulty => ~staged.scattered /\ Arrived(staged, medium)
    BY <1>4 DEF StoredParts, ArrivedIsStored
  <2> HIDE DEF x, at
  <2>5. /\ faulty => faulty'
        /\ stage' = "offered" => TimeToArrive /\ HeaderOf(staged.approval)'
        /\ staged.stream = Bytes(x, 0, at) /\ Transferring' => TransferIsItsMessage'
        /\ ~staged.scattered /\ Arrived(staged, medium) /\ ~faulty' =>
              /\ Transferring' => ~staged'.scattered /\ Arrived(staged, medium)'
              /\ stage' = "offered" => Holds(staged.approval)'
    BY <1>2, <1>3, <2>1, <2>2, TransferTakes
  <2>6. UsbIs BY <1>1, <2>1, <2>5 DEF UsbIs
  <2>7. TransferIsItsMessage' BY <2>3, <2>5, Zenon DEF TransferIsItsMessage
  <2> QED BY <2>4, <2>5, <2>6, <2>7 DEF UsbKeeps
<1>5. CASE ~Transferring
  <2>1. UNCHANGED <<stage, staged, medium, faulty, upload>> BY <1>1, <1>5
  <2>2. ~Transferring' BY <1>5, <2>1 DEF Transferring
  <2>3. UsbIs BY <1>1, <2>1 DEF UsbIs, Active, Transferring
  <2>4. TransferIsItsMessage' BY <2>2 DEF TransferIsItsMessage
  <2> QED BY <2>1, <2>3, <2>4, StillStored DEF UsbKeeps
<1> QED BY <1>4, <1>5

(* A step that brings no byte: the stage and what it has stay, or the stage ends. *)
LEMMA DropsIs ==
  ASSUME UpgradeBase, StoredParts,
         UNCHANGED <<card, marker, screen, installed, medium, faulty, looked>>,
         upload' \in {upload, NoMessage},
         \/ stage' = stage /\ staged' = staged
         \/ stage' \notin {"receiving", "unpacking", "offered"},
         \/ \A u \in Transports : msg'[u] = NoMessage
         \/ stage' \notin {"receiving", "unpacking"}
  PROVE  UsbIs /\ UsbKeeps
<1>1. UsbIs BY DEF UsbIs, Active, Transferring
<1>2. TransferIsItsMessage' BY DEF TransferIsItsMessage, Transferring
<1>3. ~faulty' => /\ Transferring' => ~staged'.scattered /\ Arrived(staged, medium)'
                  /\ stage' = "offered" => Holds(staged.approval)'
  <2>1. CASE stage' = stage /\ staged' = staged BY <2>1, StillStored
  <2>2. CASE stage' \notin {"receiving", "unpacking", "offered"} BY <2>2 DEF Transferring
  <2> QED BY <2>1, <2>2
<1> QED BY <1>1, <1>2, <1>3 DEF UsbKeeps

LEMMA NoneOpen ==
  ASSUME NEW t \in Transports, msg' = Messages(t, NoMessage)
  PROVE  \A u \in Transports : msg'[u] = NoMessage
<1>1. msg'[t] = NoMessage /\ msg'[Other(t)] = NoMessage BY EmptyTypes, MessagesIs
<1> QED BY <1>1, TransportsAre

LEMMA OfferRefusedIs ==
  ASSUME UpgradeBase, StoredParts, NEW t \in Transports, OfferRefused(t)
  PROVE  UsbIs /\ UsbKeeps
<1>1. /\ msg' = Messages(t, NoMessage) /\ stage' \in {Dropped, stage} /\ staged' = KeptBy(stage')
      /\ UNCHANGED <<ckcc, upload, card, marker, screen, installed>>
      /\ UNCHANGED <<medium, faulty, looked>>
  BY DEF OfferRefused, Untouched
<1>2. \/ stage' = stage /\ staged' = staged
      \/ stage' \notin {"receiving", "unpacking", "offered"}
  BY <1>1, DroppedIs DEF UpgradeBase, UpgradeTypes
<1> QED BY <1>1, <1>2, NoneOpen, DropsIs

LEMMA RequestIs ==
  ASSUME UpgradeBase, StoredParts, NEW t \in Transports, NEW n \in Nat, Request(t, n)
  PROVE  UsbIs /\ UsbKeeps
<1> DEFINE data == [i \in 1 .. n |-> Junk]
<1>1. /\ msg' = Messages(t, NoMessage) /\ looked' = looked
      /\ UNCHANGED <<ckcc, upload, card, marker, screen, installed>>
  BY DEF Request, Untouched
<1>2. \A u \in Transports : msg'[u] = NoMessage BY <1>1, NoneOpen
<1>3. CASE RequestFeeds(n)
  <2>1. PICK o \in Writes(medium, staged, data) :
          /\ stage' = stage /\ staged' = o.s
          /\ medium' = o.m /\ faulty' = (faulty \/ o.hurt)
    BY <1>3 DEF RequestFeeds
  <2>2. staged.carry \in Seq(Byte) /\ medium \in [Cells -> Byte] /\ staged \in StagedType
        /\ faulty \in BOOLEAN
    BY DEF UpgradeBase, UpgradeTypes, StagedType
  <2>3. data \in Seq(Byte) BY JunkWord, JunkIsByte
  <2> HIDE DEF data
  <2>4. /\ o.ok \in BOOLEAN /\ o.hurt \in BOOLEAN /\ o.s.scattered = staged.scattered
        /\ ~o.ok /\ ~o.hurt => o.s = staged /\ o.m = medium
        /\ o.ok /\ ~o.hurt => /\ staged.received + Len(data) <= staged.len
                              /\ o.s = Accepted(staged, data)
                              /\ o.m = Written(medium, staged, Words(staged, data))
    BY <2>2, <2>3, JunkIsByte, WritesIs
  <2>0. Transferring /\ stage \in {"receiving", "unpacking"} BY <1>3, HoldersAre DEF RequestFeeds
  <2>5. card = NoStaged BY <2>0, HoldersAre
  <2>6. stage' \in {"receiving", "unpacking"} /\ (faulty => faulty') BY <2>0, <2>1, <2>2, <2>4
  <2>7. UsbIs BY <1>1, <2>0, <2>1, <2>5, <2>6 DEF UsbIs, Active, Transferring
  <2>8. ASSUME ~faulty' PROVE ~staged'.scattered /\ Arrived(staged, medium)'
    <3>1. ~faulty /\ ~o.hurt BY <2>1, <2>2, <2>4, <2>8
    <3>2. ~staged.scattered /\ Arrived(staged, medium)
      BY <2>0, <3>1 DEF StoredParts, ArrivedIsStored
    <3>3. Arrived(o.s, o.m)
      <4>1. CASE o.ok
        BY <2>2, <2>3, <2>4, <3>1, <3>2, <4>1, ArrivedWrites
      <4>2. CASE ~o.ok
        BY <2>4, <3>1, <3>2, <4>2
      <4> QED BY <4>1, <4>2
    <3>4. Arrived(staged', medium') BY <2>1, <3>3
    <3>5. Arrived(staged, medium)' BY <3>4 DEF Arrived, PlaceOf
    <3> QED BY <2>1, <2>4, <3>2, <3>5
  <2>9. TransferIsItsMessage' BY <1>2 DEF TransferIsItsMessage
  <2> QED BY <2>6, <2>7, <2>8, <2>9 DEF UsbKeeps
<1>4. CASE RequestAside
  <2>1. UNCHANGED <<medium, faulty>> /\ stage' \in {Dropped, stage} /\ staged' = KeptBy(stage')
    BY <1>4 DEF RequestAside
  <2>2. \/ stage' = stage /\ staged' = staged
        \/ stage' \notin {"receiving", "unpacking", "offered"}
    BY <2>1, DroppedIs DEF UpgradeBase, UpgradeTypes
  <2> QED BY <1>1, <1>2, <2>1, <2>2, DropsIs
<1> QED BY <1>3, <1>4, RequestEnds

LEMMA BadFrameIs ==
  ASSUME UpgradeBase, StoredParts, NEW t \in Transports, BadFrame(t)
  PROVE  UsbIs /\ UsbKeeps
<1>1. /\ stage' = Dropped /\ staged' = KeptBy(stage')
      /\ UNCHANGED <<ckcc, upload, card, marker, screen, installed>>
      /\ UNCHANGED <<medium, faulty, looked>>
  BY DEF BadFrame, Untouched
<1>2. /\ \/ stage' = stage /\ staged' = staged
         \/ stage' \notin {"receiving", "unpacking", "offered"}
      /\ stage' \notin {"receiving", "unpacking"}
  BY <1>1, DroppedIs DEF UpgradeBase, UpgradeTypes
<1> QED BY <1>1, <1>2, DropsIs

LEMMA BusResetIs ==
  ASSUME UpgradeBase, StoredParts, BusReset
  PROVE  UsbIs /\ UsbKeeps
<1>1. UNCHANGED <<card, marker, medium, screen, installed, faulty, looked>>
  BY DEF BusReset, store, ghosts
<1>2. stage' \in {"idle", "approved"} /\ upload' = NoMessage
  BY DEF BusReset, Loses
<1> QED BY <1>1, <1>2, DropsIs

(* The desk's upload is nothing to a transfer: while it has the medium there is
   none. *)
LEMMA UploadIs ==
  ASSUME UpgradeBase, StoredParts,
         UNCHANGED <<msg, stage, staged, card, marker, screen, installed>>, faulty => faulty',
         medium' = medium \/ /\ card = NoStaged
                             /\ stage \notin {"receiving", "unpacking", "offered"},
         Active' /\ looked' => Active /\ looked
  PROVE  UsbIs /\ UsbKeeps
<1>1. UsbIs BY DEF UsbIs, Active, Transferring
<1>2. TransferIsItsMessage' BY DEF StoredParts, TransferIsItsMessage, Transferring, Bytes
<1>3. ~faulty' => /\ Transferring' => ~staged'.scattered /\ Arrived(staged, medium)'
                  /\ stage' = "offered" => Holds(staged.approval)'
  <2>1. CASE medium' = medium BY <2>1, StillStored
  <2>2. CASE stage \notin {"receiving", "unpacking", "offered"} BY <2>2 DEF Transferring
  <2> QED BY <2>1, <2>2
<1> QED BY <1>1, <1>2, <1>3 DEF UsbKeeps

LEMMA UploadStartsIs ==
  ASSUME UpgradeBase, StoredParts, NEW x \in Images, UploadStarts(x)
  PROVE  UsbIs /\ UsbKeeps
<1>1. /\ UNCHANGED <<msg, ckcc, stage, staged, card, marker, screen, installed, faulty>>
      /\ looked' = FALSE
      /\ medium' = medium \/ Free(stage) \/ upload # NoMessage
  BY DEF UploadStarts
<1>2. medium' = medium \/ (card = NoStaged /\ stage \notin {"receiving", "unpacking", "offered"})
  BY <1>1, HoldersAre DEF Free
<1> QED BY <1>1, <1>2, UploadIs

LEMMA UploadBlockKeeps ==
  ASSUME UpgradeBase, StoredParts, NEW n \in Sizes, UploadBlock(n)
  PROVE  UsbIs /\ UsbKeeps
<1>1. Bytes(upload.img, upload.at, n) \in Seq(Byte)
  <2>1. upload.img \in Images /\ upload.at \in Nat
    BY MessageIs DEF UploadBlock, UpgradeBase, UpgradeTypes
  <2>2. n \in Nat BY UpgradeAssumption DEF Sizes
  <2> QED BY <2>1, <2>2, BytesAre
<1>2. medium \in [Cells -> Byte] BY DEF UpgradeBase, UpgradeTypes
<1>3. /\ upload # NoMessage /\ (faulty => faulty')
      /\ UNCHANGED <<msg, ckcc, stage, staged, card, marker, screen, installed, looked>>
  BY <1>1, <1>2, JunkIsByte, UploadBlockIs
<1>4. card = NoStaged /\ stage \notin {"receiving", "unpacking", "offered"} BY <1>3, HoldersAre
<1>5. Active BY <1>3 DEF Active
<1> QED BY <1>3, <1>4, <1>5, UploadIs

LEMMA UploadIsImageKeeps ==
  ASSUME UpgradeBase, StoredParts, UploadIsImage
  PROVE  UsbIs /\ UsbKeeps
<1> DEFINE s == StoredElsewhere(ImageLen[upload.img])
<1>1. /\ upload # NoMessage /\ upload.img \in Images /\ TimeToArrive /\ upload' = NoMessage
      /\ UNCHANGED <<msg, ckcc, card, medium, marker, screen, installed, faulty, looked>>
      /\ \/ UNCHANGED <<stage, staged>>
         \/ /\ stage' = "offered"
            /\ \E y \in Images : staged' = Approved(s, y) /\ Passes(s, medium, y)
  BY UploadIsImageIs
<1>2. s \in StagedType /\ s.carry = <<>> /\ s.scattered BY <1>1, LengthIs, EmptyTypes
<1>3. Active BY <1>1 DEF Active
<1> HIDE DEF s
<1>4. CASE UNCHANGED <<stage, staged>>
  BY <1>1, <1>3, <1>4, UploadIs
<1>5. CASE /\ stage' = "offered"
           /\ \E y \in Images : staged' = Approved(s, y) /\ Passes(s, medium, y)
  <2>1. PICK y \in Images : staged' = Approved(s, y) /\ Passes(s, medium, y) BY <1>5
  <2>2. staged'.approval = y BY <1>2, <2>1, ApprovedIs
  <2>3. Settled(s, medium) = medium BY <1>2 DEF Settled
  <2>4. medium \in [Cells -> Byte] BY DEF UpgradeBase, UpgradeTypes
  <2>5. Stored(medium, ImageLen[y]) = Bytes(y, 0, ImageLen[y])
    BY <1>2, <2>1, <2>3, <2>4, PassesStored
  <2>6. Holds(staged.approval)' BY <1>1, <2>2, <2>5 DEF Holds, Stored, Bytes
  <2>7. HeaderOf(staged.approval)' BY <1>1, <2>1, <2>2 DEF HeaderOf, Passes
  <2>8. ~Transferring' BY <1>5 DEF Transferring
  <2>9. UsbIs BY <1>1, <1>3, <2>7 DEF UsbIs
  <2> QED BY <2>6, <2>8, <2>9 DEF UsbKeeps, TransferIsItsMessage
<1> QED BY <1>1, <1>4, <1>5

LEMMA UsbStepIs ==
  ASSUME UpgradeBase, StoredParts, UsbStep
  PROVE  UsbIs /\ UsbKeeps
<1>1. \A n \in Sizes : n \in Nat BY DEF Sizes
<1>2. CASE \E t \in Transports :
             \/ \E x \in Images, st \in {"receiving", "unpacking"}, n \in Sizes :
                  OfferStarts(t, x, st, n)
             \/ OfferRefused(t)
             \/ \E n \in Sizes : ImageFrame(t, n)
             \/ \E n \in Sizes : Request(t, n)
             \/ BadFrame(t)
  BY <1>1, <1>2, OfferStartsIs, OfferRefusedIs, ImageFrameIs, RequestIs, BadFrameIs
<1>3. CASE \/ BusReset
           \/ \E x \in Images : UploadStarts(x)
           \/ \E n \in Sizes : UploadBlock(n)
           \/ UploadIsImage
  BY <1>3, BusResetIs, UploadStartsIs, UploadBlockKeeps, UploadIsImageKeeps
<1> QED BY <1>2, <1>3 DEF UsbStep

(* What a step of the UI task is to the USB task: a transfer or an offer that is
   there after it was there before, as it was. *)
UiIs ==
  /\ faulty => faulty'
  /\ upload' \in {upload, NoMessage}
  /\ stage' \in {"receiving", "unpacking", "offered"} => UNCHANGED <<stage, staged, medium>>
  /\ stage' \in {"receiving", "unpacking"} => msg' = msg

(* ... and to a file: only these put one before the person. *)
NoNewFile ==
  /\ ui' \notin {"file", "file offer"}
  /\ ui' \in FileOffers => ui \in FileOffers /\ card' = card /\ medium' = medium

LEMMA ScreenKeeps ==
  ASSUME UpgradeBase, ScreenStep
  PROVE  UiIs /\ NoNewFile
<1>1. UNCHANGED <<msg, ckcc, stage, staged, upload, card, medium, marker, installed, faulty>>
  BY ScreenIs DEF usb, store
<1>2. ui' \notin {"file", "file offer"} /\ (ui' \in FileOffers => ui \in FileOffers)
  BY DEF ScreenStep, ReadKeys, CheckReceiving, CheckOffer, Swallow, ConfirmOffer, AnswerYes,
         GateRefuses, NoteRead, RejectionRead, LeaveScratch, ConfirmFile, AnswerFile, Goes,
         FileOffers
<1> QED BY <1>1, <1>2 DEF UiIs, NoNewFile

LEMMA LetGoKeeps ==
  ASSUME UpgradeBase, LetGoStep
  PROVE  UiIs /\ NoNewFile
<1>1. CASE Abandon
  <2>1. /\ stage' = Dropped /\ staged' = KeptBy(stage') /\ UNCHANGED <<upload, medium, faulty>>
        /\ ui' = "rejected"
    BY <1>1 DEF Abandon, Goes, store, ghosts
  <2>2. stage' \notin {"receiving", "unpacking"}
        /\ (stage' = "offered" => stage = "offered" /\ staged' = staged)
    BY <2>1, DroppedIs DEF UpgradeBase, UpgradeTypes
  <2> QED BY <2>1, <2>2 DEF UiIs, NoNewFile, FileOffers
<1>2. CASE CancelOffer \/ AnswerNo
  <2>1. stage' = "idle" /\ ui' = "keys" /\ UNCHANGED <<upload, medium, faulty>>
    BY <1>2 DEF CancelOffer, AnswerNo, Declines, Goes, store, ghosts
  <2> QED BY <2>1 DEF UiIs, NoNewFile, FileOffers
<1>3. CASE InstallRefused
  <2>1. /\ stage' \in {"idle", stage} /\ ui' = "note"
        /\ UNCHANGED <<msg, staged, upload, medium, faulty>>
    BY <1>3 DEF InstallRefused, AfterRefusal, Goes, store, ghosts
  <2> QED BY <2>1 DEF UiIs, NoNewFile, FileOffers
<1>4. CASE SwitchIdentity
  <2>1. /\ stage' = Dropped /\ staged' = KeptBy(stage') /\ upload' = NoMessage
        /\ UNCHANGED <<medium, faulty>> /\ ui' = "keys"
    BY <1>4 DEF SwitchIdentity, Loses, Goes, store, ghosts
  <2>2. stage' \notin {"receiving", "unpacking"}
        /\ (stage' = "offered" => stage = "offered" /\ staged' = staged)
    BY <2>1, DroppedIs DEF UpgradeBase, UpgradeTypes
  <2> QED BY <2>1, <2>2 DEF UiIs, NoNewFile, FileOffers
<1>5. CASE LeaveFile
  <2>1. UNCHANGED <<msg, stage, staged, upload, medium, faulty>> /\ ui' = "keys"
    BY <1>5 DEF LeaveFile, Goes, usb, store, ghosts
  <2> QED BY <2>1 DEF UiIs, NoNewFile, FileOffers
<1> QED BY <1>1, <1>2, <1>3, <1>4, <1>5 DEF LetGoStep

LEMMA InstallKeeps ==
  ASSUME UpgradeBase, HeaderNames, GateInstallStep
  PROVE  UiIs /\ NoNewFile
<1>1. CASE Approve
  <2>1. stage = "offered" => staged.approval \in Images BY DEF HeaderNames, HeaderOf
  <2>2. /\ UNCHANGED <<msg, upload, medium>> /\ (faulty => faulty') /\ ui' \in {"note", "gate"}
        /\ \/ stage' = stage /\ staged' = staged
           \/ stage' \in {"idle", "approved"}
    BY <1>1, <2>1, ApproveIs
  <2> QED BY <2>2 DEF UiIs, NoNewFile, FileOffers
<1>2. CASE CommitFile
  <2>1. /\ UNCHANGED <<msg, stage, staged, upload, medium>> /\ (faulty => faulty')
        /\ ui' \in {"note", "gate"}
    BY <1>2, CommitFileIs
  <2> QED BY <2>1 DEF UiIs, NoNewFile, FileOffers
<1>3. CASE GateInstalls
  <2>1. UNCHANGED <<msg, stage, staged, upload, medium, ui, faulty>> /\ ui = "gate"
    BY <1>3 DEF GateInstalls, usb, store, screen
  <2> QED BY <2>1 DEF UiIs, NoNewFile, FileOffers
<1>4. CASE Retract
  <2>1. /\ UNCHANGED <<msg, stage, staged, upload, medium>> /\ (faulty => faulty')
        /\ ui' = "refused"
    BY <1>4 DEF Retract, Goes, usb
  <2> QED BY <2>1 DEF UiIs, NoNewFile, FileOffers
<1> QED BY <1>1, <1>2, <1>3, <1>4 DEF GateInstallStep

(* A file the person opens, or a code scanned, has arrived as far as it has been
   read; it is offered when all of it is there. *)
FileKeeps ==
  /\ ~faulty' => /\ ui' = "file" => ~card'.scattered /\ (Arrived(card, medium)' \/ Scanned(card)')
                 /\ ui' = "file offer" => Holds(card.approval)'
  /\ ui' \in FileOffers => HeaderOf(card.approval)'

LEMMA MenuKeeps ==
  ASSUME UpgradeBase, MenuStep
  PROVE  UiIs /\ FileKeeps
<1>0. UpgradeTypes BY DEF UpgradeBase
<1>1. PICK x : UseScratch \/ (x \in Images /\ (OpenFile(x) \/ Scan(x)))
  BY DEF MenuStep
<1>2. /\ UNCHANGED <<msg, stage, staged, upload, faulty>> /\ Free(stage)
      /\ \/ ui' = "scratch"
         \/ /\ ui' = "file" /\ x \in Images
            /\ \/ card' = Approved(Begun(ImageLen[x]), x)
               \/ card' = Approved(PlacedAll(Begun(ImageLen[x])), x)
  BY <1>0, <1>1, MenuIs
<1>3. UiIs BY <1>0, <1>2, FreeIs DEF UiIs
<1>4. ASSUME x \in Images, card' = Approved(Begun(ImageLen[x]), x)
      PROVE  ~card'.scattered /\ Arrived(card, medium)'
  <2> DEFINE s == Begun(ImageLen[x])
  <2>1. /\ s \in StagedType /\ s.stream = <<>> /\ s.received = 0 /\ s.len = ImageLen[x]
        /\ s.scattered = FALSE
    BY <1>4, EmptyTypes, LengthIs
  <2>2. ImageLen[x] \in Nat /\ ImageLen[x] <= Capacity BY <1>4, LengthIs
  <2> HIDE DEF s
  <2>3. card' = Approved(s, x) BY <1>4 DEF s
  <2>4. /\ card'.carry = <<>> /\ card'.stream = <<>> /\ card'.received = 0
        /\ card'.len = ImageLen[x] /\ card'.scattered = FALSE
    BY <1>4, <2>1, <2>3, ApprovedIs
  <2> QED BY <2>2, <2>4, UpgradeAssumption DEF Arrived, PlaceOf
<1>5. ASSUME x \in Images, card' = Approved(PlacedAll(Begun(ImageLen[x])), x)
      PROVE  ~card'.scattered /\ Scanned(card)'
  <2> DEFINE s == PlacedAll(Begun(ImageLen[x]))
  <2>1. /\ s \in StagedType /\ s.stream = <<>> /\ s.received = ImageLen[x] /\ s.len = ImageLen[x]
        /\ s.scattered = FALSE
    BY <1>5, EmptyTypes, LengthIs
  <2>2. ImageLen[x] > 0 BY <1>5, LengthIs
  <2> HIDE DEF s
  <2>3. card' = Approved(s, x) BY <1>5 DEF s
  <2>4. /\ card'.carry = <<>> /\ card'.stream = <<>> /\ card'.received = ImageLen[x]
        /\ card'.len = ImageLen[x] /\ card'.scattered = FALSE
    BY <1>5, <2>1, <2>3, ApprovedIs
  <2> QED BY <2>2, <2>4 DEF Scanned
<1>6. ui' = "file" => ~card'.scattered /\ (Arrived(card, medium)' \/ Scanned(card)')
  BY <1>2, <1>4, <1>5
<1> QED BY <1>2, <1>3, <1>6 DEF FileKeeps, FileOffers

LEMMA FileStepKeeps ==
  ASSUME UpgradeBase, StoredParts, FileStep
  PROVE  UiIs /\ FileKeeps
<1>0. card \in StagedType /\ medium \in [Cells -> Byte] /\ faulty \in BOOLEAN
  BY DEF UpgradeBase, UpgradeTypes
<1>1. CASE FileInspected
  <2>1. /\ UNCHANGED <<msg, stage, staged, upload>> /\ ui = "file" /\ (faulty => faulty')
        /\ \/ ui' = "note"
           \/ /\ ui' = "file offer"
              /\ \E y \in Images : /\ card' = Approved(card, y) /\ medium' = Settled(card, medium)
                                   /\ Passes(card, Settled(card, medium), y)
    BY <1>1, FileInspectedIs
  <2>2. stage \notin {"receiving", "unpacking", "offered"}
    BY <2>1, HoldersAre DEF UpgradeBase, OneHolder, FileScreens
  <2>3. UiIs BY <2>1, <2>2 DEF UiIs
  <2>4. ASSUME NEW y \in Images, card' = Approved(card, y), medium' = Settled(card, medium),
               Passes(card, Settled(card, medium), y)
        PROVE  /\ HeaderOf(card.approval)'
               /\ ~faulty' => Holds(card.approval)'
    <3>1. card'.approval = y BY <1>0, <2>4, ApprovedIs
    <3>2. HeaderOf(card.approval)' BY <2>4, <3>1 DEF HeaderOf, Passes
    <3>3. ASSUME ~faulty' PROVE Holds(card.approval)'
      <4>1. Arrived(card, medium) \/ Scanned(card)
        BY <2>1, <3>3 DEF StoredParts, ArrivedIsStored
      <4>2. Stored(Settled(card, medium), ImageLen[y]) = Bytes(y, 0, ImageLen[y])
        BY <1>0, <2>4, <4>1, PassesStored
      <4> QED BY <2>4, <3>1, <4>2 DEF Holds, Stored, Bytes
    <3> QED BY <3>2, <3>3
  <2>5. FileKeeps
    <3>1. CASE ui' = "note" BY <3>1 DEF FileKeeps, FileOffers
    <3>2. CASE ui' = "file offer" BY <2>1, <2>4, <3>2 DEF FileKeeps
    <3> QED BY <2>1, <3>1, <3>2
  <2> QED BY <2>3, <2>5
<1>2. ASSUME NEW n \in Sizes, FileChunk(n) PROVE UiIs /\ FileKeeps
  <2> DEFINE data == Bytes(card.approval, card.received, n)
  <2>1. /\ UNCHANGED <<msg, stage, staged, upload>> /\ ui = "file" /\ (faulty => faulty')
        /\ card.received + n <= card.len /\ n >= 1 /\ n \in Nat
        /\ \/ ui' = "note"
           \/ /\ ui' = "file" /\ card'.scattered = card.scattered
              /\ ~faulty' => /\ card' = Accepted(card, data)
                             /\ medium' = Written(medium, card, Words(card, data))
    BY <1>2, FileChunkIs
  <2>2. stage \notin {"receiving", "unpacking", "offered"} /\ card.approval \in Images
    BY <2>1, HoldersAre DEF UpgradeBase, OneHolder, FileScreens
  <2>3. UiIs BY <2>1, <2>2 DEF UiIs
  <2>4. card.received \in Nat /\ card.len \in Nat BY <1>0 DEF StagedType
  <2>5. data \in Seq(Byte) /\ Len(data) = n BY <2>1, <2>2, <2>4, BytesAre
  <2> HIDE DEF data
  <2>6. ASSUME ~faulty', ui' = "file"
        PROVE  ~card'.scattered /\ Arrived(card, medium)'
    <3>1. ~card.scattered /\ (Arrived(card, medium) \/ Scanned(card))
      BY <2>1, <2>6 DEF StoredParts, ArrivedIsStored
    <3>2. ~Scanned(card) BY <2>1, <2>4 DEF Scanned
    <3>3. Arrived(Accepted(card, data), Written(medium, card, Words(card, data)))
      BY <1>0, <2>1, <2>5, <3>1, <3>2, ArrivedWrites
    <3>4. Arrived(card', medium') BY <2>1, <2>6, <3>3
    <3>5. Arrived(card, medium)' BY <3>4 DEF Arrived, PlaceOf
    <3> QED BY <2>1, <2>6, <3>1, <3>5
  <2>7. FileKeeps BY <2>1, <2>6 DEF FileKeeps, FileOffers
  <2> QED BY <2>3, <2>7
<1> QED BY <1>1, <1>2 DEF FileStep

LEMMA UiStepIs ==
  ASSUME UpgradeBase, HeaderNames, StoredParts, UiStep
  PROVE  UiIs /\ (NoNewFile \/ FileKeeps)
BY UiSteps, ScreenKeeps, LetGoKeeps, InstallKeeps, MenuKeeps, FileStepKeeps

LEMMA StoredStep ==
  ASSUME UpgradeBase, HeaderNames, StoredParts, [Next]_vars
  PROVE  StoredParts' /\ HeaderNames'
<1>1. CASE UNCHANGED vars
  BY <1>1 DEF vars, usb, store, screen, ghosts, StoredParts, TransferIsItsMessage, ArrivedIsStored,
              OfferedIsStored, HeaderNames, HeaderOf, Transferring, Arrived, Scanned, PlaceOf,
              Holds, Stored, Bytes
<1>2. CASE UsbStep
  <2>1. UsbIs /\ UsbKeeps BY <1>2, UsbStepIs
  <2>2. UNCHANGED <<card, ui>> /\ (faulty => faulty') BY <2>1 DEF UsbIs, screen
  <2>3. ui \in FileScreens => medium' = medium
    BY <2>1 DEF UsbIs, UpgradeBase, OneHolder
  <2>4. ~faulty' => /\ ui' = "file" => ~card'.scattered /\ (Arrived(card, medium)' \/ Scanned(card)')
                    /\ ui' = "file offer" => Holds(card.approval)'
    <3>1. CASE ui \in FileScreens
      BY <2>2, <2>3, <3>1 DEF StoredParts, ArrivedIsStored, OfferedIsStored, Arrived, Scanned, PlaceOf,
                              Holds, Stored, Bytes
    <3>2. CASE ui \notin FileScreens
      BY <2>2, <3>2 DEF FileScreens, FileOffers
    <3> QED BY <3>1, <3>2
  <2>5. StoredParts'
    BY <2>1, <2>4 DEF UsbKeeps, StoredParts, ArrivedIsStored, OfferedIsStored
  <2>6. ui' \in FileOffers => HeaderOf(card.approval)'
    BY <2>2, <2>3 DEF HeaderNames, HeaderOf, FileScreens
  <2>7. stage' = "offered" => HeaderOf(staged.approval)'
    BY <2>1 DEF UsbIs, HeaderNames, HeaderOf
  <2> QED BY <2>5, <2>6, <2>7 DEF HeaderNames
<1>3. CASE UiStep
  <2>1. UiIs /\ (NoNewFile \/ FileKeeps) BY <1>3, UiStepIs
  <2>2. /\ TransferIsItsMessage' /\ (stage' = "offered" => HeaderOf(staged.approval)')
        /\ ~faulty' => /\ Transferring' => ~staged'.scattered /\ Arrived(staged, medium)'
                       /\ stage' = "offered" => Holds(staged.approval)'
    <3>1. CASE stage' \in {"receiving", "unpacking", "offered"}
      <4>1. UNCHANGED <<stage, staged, medium>> /\ (Transferring' => msg' = msg)
            /\ (faulty => faulty')
        BY <2>1, <3>1 DEF UiIs, Transferring
      <4>2. TransferIsItsMessage'
        BY <4>1 DEF StoredParts, TransferIsItsMessage, Transferring, Bytes
      <4>3. stage' = "offered" => HeaderOf(staged.approval)'
        BY <4>1 DEF HeaderNames, HeaderOf
      <4> QED BY <4>1, <4>2, <4>3, StillStored
    <3>2. CASE stage' \notin {"receiving", "unpacking", "offered"}
      BY <3>2 DEF TransferIsItsMessage, Transferring
    <3> QED BY <3>1, <3>2
  <2>3. /\ ~faulty' => /\ ui' = "file" => ~card'.scattered /\ (Arrived(card, medium)' \/ Scanned(card)')
                       /\ ui' = "file offer" => Holds(card.approval)'
        /\ ui' \in FileOffers => HeaderOf(card.approval)'
    <3>1. CASE NoNewFile
      BY <3>1 DEF NoNewFile, HeaderNames, HeaderOf
    <3>2. CASE FileKeeps
      BY <3>2 DEF FileKeeps
    <3> QED BY <2>1, <3>1, <3>2
  <2> QED BY <2>2, <2>3 DEF StoredParts, ArrivedIsStored, OfferedIsStored, HeaderNames
<1> QED BY <1>1, <1>2, <1>3 DEF Next

-----------------------------------------------------------------------------
(* What the person was shown, and what is installed. *)

LEMMA ActiveIs ==
  ASSUME UpgradeBase
  PROVE  /\ Active => stage # "offered" /\ card = NoStaged /\ ui \notin FileScreens
         /\ ui \in Loop \cup {"approve", "gate"} => ui \notin Waits
BY HoldersAre DEF Active, Transferring, UpgradeBase, OneHolder, Loop, Waits

LEMMA PanelUsb ==
  ASSUME UpgradeBase, PanelShows, UsbIs
  PROVE  PanelShows'
<1>1. UNCHANGED <<ui, shown, drawn, asked>> BY DEF UsbIs, screen
<1>2. ui \in Loop /\ Active' /\ looked' => drawn = NoImage BY DEF UsbIs, PanelShows
<1>3. ui \in Loop /\ stage' = "offered" => drawn \in {NoImage, staged'.approval}
  <2> SUFFICES ASSUME ui \in Loop, stage' = "offered" PROVE drawn \in {NoImage, staged'.approval}
    OBVIOUS
  <2>1. CASE stage = "offered" /\ staged' = staged BY <2>1 DEF PanelShows
  <2>2. CASE Active /\ TimeToArrive
    BY <2>2, ActiveIs DEF TimeToArrive, PanelShows
  <2> QED BY <2>1, <2>2 DEF UsbIs
<1> QED BY <1>1, <1>2, <1>3 DEF PanelShows

LEMMA YesUsb ==
  ASSUME UpgradeBase, YesIsKept, UsbIs
  PROVE  YesIsKept'
<1>1. UNCHANGED <<ui, yes, card>> BY DEF UsbIs, screen
<1>2. ui = "approve" /\ Active' /\ looked' => yes = NoImage BY DEF UsbIs, YesIsKept
<1>3. ui = "approve" /\ stage' = "offered" => yes \in {NoImage, staged'.approval}
  <2> SUFFICES ASSUME ui = "approve", stage' = "offered" PROVE yes \in {NoImage, staged'.approval}
    OBVIOUS
  <2>1. CASE stage = "offered" /\ staged' = staged BY <2>1 DEF YesIsKept
  <2>2. CASE Active /\ TimeToArrive
    BY <2>2, ActiveIs DEF TimeToArrive, YesIsKept
  <2> QED BY <2>1, <2>2 DEF UsbIs
<1> QED BY <1>1, <1>2, <1>3 DEF YesIsKept

(* Each step of the UI task that puts the loop, or a question, before the
   person. *)
LEMMA PanelScreen ==
  ASSUME UpgradeBase, PanelShows, ScreenStep
  PROVE  PanelShows'
<1>0. UpgradeTypes BY DEF UpgradeBase
<1>1. UNCHANGED <<msg, stage, staged, upload, card>> BY ScreenIs DEF usb
<1>2. Active' = Active BY <1>1 DEF Active, Transferring
<1>3. CASE CheckOffer
  <2>1. /\ ui = "offer?" /\ ui' \in {"keys", "handle"} /\ asked' = asked
        /\ IF Pending # NoImage /\ shown # NoImage
           THEN UNCHANGED <<shown, drawn>>
           ELSE shown' = Pending /\ drawn' = Pending
    BY <1>3 DEF CheckOffer, Goes
  <2>2. Active => Pending = NoImage BY <1>0, ActiveIs, PendingIs
  <2>3. stage = "offered" => Pending = staged.approval BY <1>0, PendingIs
  <2>4. drawn' \in {NoImage, shown'} BY <2>1 DEF PanelShows
  <2>5. Active => drawn' = NoImage BY <2>1, <2>2
  <2>6. stage = "offered" => drawn' \in {NoImage, staged.approval}
    BY <2>1, <2>3 DEF PanelShows, Loop
  <2> QED BY <1>1, <1>2, <2>1, <2>4, <2>5, <2>6 DEF PanelShows, FileScreens, FileOffers
<1>4. CASE CheckReceiving
  <2>1. ui = "receiving?" /\ ui' = "offer?" /\ drawn' \in {NoImage, drawn}
        /\ UNCHANGED <<shown, asked, looked>>
    BY <1>4 DEF CheckReceiving, Goes, ghosts
  <2> QED BY <1>1, <1>2, <2>1 DEF PanelShows, FileScreens, FileOffers, Loop
<1>5. CASE ReadKeys \/ Swallow \/ RejectionRead \/ LeaveScratch
  <2>1. /\ ui \in Loop \cup {"rejected", "scratch"} /\ ui' \in Loop
        /\ UNCHANGED <<shown, drawn, asked, looked>>
    BY <1>5 DEF ReadKeys, Swallow, RejectionRead, LeaveScratch, Goes, Loop, ghosts
  <2>2. ui \in {"rejected", "scratch"} => drawn = NoImage BY DEF PanelShows
  <2> QED BY <1>1, <1>2, <2>1, <2>2 DEF PanelShows, FileScreens, FileOffers, Loop
<1>6. CASE NoteRead
  <2>1. ui' = "keys" /\ shown' = NoImage /\ drawn' = NoImage BY <1>6 DEF NoteRead, Goes
  <2> QED BY <2>1 DEF PanelShows, FileScreens, FileOffers
<1>7. CASE ConfirmOffer
  <2>1. /\ UNCHANGED <<shown, drawn>>
        /\ \/ ui' = "question" /\ asked' \in HighWater
           \/ ui' = "approve"
    BY <1>7 DEF ConfirmOffer, Goes
  <2> QED BY <2>1, UpgradeAssumption DEF PanelShows, FileScreens, FileOffers, Loop
<1>8. CASE AnswerYes \/ GateRefuses
  <2>1. UNCHANGED <<shown, drawn>> /\ ui' \in {"approve", "retract"}
    BY <1>8 DEF AnswerYes, GateRefuses, Goes
  <2> QED BY <2>1 DEF PanelShows, FileScreens, FileOffers, Loop
<1>9. CASE ConfirmFile \/ AnswerFile
  <2>1. UNCHANGED <<shown, drawn>> /\ ui \in FileScreens /\ ui' \in {"file question", "file commit"}
    BY <1>9 DEF ConfirmFile, AnswerFile, Goes, FileScreens, FileOffers
  <2> QED BY <2>1 DEF PanelShows, FileScreens, FileOffers, Loop
<1> QED BY <1>3, <1>4, <1>5, <1>6, <1>7, <1>8, <1>9 DEF ScreenStep

LEMMA PanelUi ==
  ASSUME UpgradeBase, HeaderNames, PanelShows, UiStep
  PROVE  PanelShows'
<1>1. CASE LetGoStep
  <2>1. CASE Abandon
    <3>1. ui' = "rejected" /\ drawn' = NoImage BY <2>1 DEF Abandon, Goes
    <3> QED BY <3>1 DEF PanelShows, FileScreens, FileOffers, Loop
  <2>2. CASE CancelOffer \/ AnswerNo
    <3>1. ui' = "keys" /\ drawn' = NoImage BY <2>2 DEF CancelOffer, AnswerNo, Declines, Goes
    <3> QED BY <3>1 DEF PanelShows, FileScreens, FileOffers
  <2>3. CASE InstallRefused
    <3>1. ui' = "note" /\ UNCHANGED <<drawn, shown>> BY <2>3 DEF InstallRefused, Goes
    <3> QED BY <3>1 DEF PanelShows, FileScreens, FileOffers, Loop
  <2>4. CASE SwitchIdentity \/ LeaveFile
    <3>1. shown = NoImage BY <2>4 DEF SwitchIdentity, OnMenu, LeaveFile, PanelShows, FileScreens, FileOffers
    <3>2. ui' = "keys" /\ UNCHANGED <<drawn, shown>> BY <2>4 DEF SwitchIdentity, LeaveFile, Goes
    <3>3. drawn' = NoImage BY <3>1, <3>2 DEF PanelShows
    <3> QED BY <3>2, <3>3 DEF PanelShows, FileScreens, FileOffers
  <2> QED BY <1>1, <2>1, <2>2, <2>3, <2>4 DEF LetGoStep
<1>2. CASE GateInstallStep
  <2>1. UNCHANGED <<drawn, shown>>
    BY <1>2 DEF GateInstallStep, Approve, CommitFile, GateInstalls, Retract, screen
  <2>2. ui' \in {"note", "gate", "refused"}
    <3>1. CASE Approve \/ CommitFile
      <4>1. ASSUME NEW x, Published(x) PROVE ui' \in {"note", "gate"}
        BY <4>1 DEF Published, Goes
      <4> QED BY <3>1, <4>1 DEF Approve, CommitFile, Goes
    <3>2. CASE GateInstalls \/ Retract
      BY <3>2 DEF GateInstalls, Retract, Goes, screen
    <3> QED BY <1>2, <3>1, <3>2 DEF GateInstallStep
  <2> QED BY <2>1, <2>2 DEF PanelShows, FileScreens, FileOffers, Loop
<1>3. CASE MenuStep
  <2>1. PICK x : UseScratch \/ (x \in Images /\ (OpenFile(x) \/ Scan(x))) BY <1>3 DEF MenuStep
  <2>2. ui' \in {"scratch", "file"} /\ shown = NoImage /\ UNCHANGED <<drawn, shown>>
    BY <2>1, MenuIs DEF UpgradeBase
  <2> QED BY <2>2 DEF PanelShows, Loop
<1>4. CASE FileStep
  <2>1. /\ ui = "file" /\ ui' \in {"note", "file", "file offer"} /\ UNCHANGED <<drawn, shown>>
    BY <1>4, FileInspectedIs, FileChunkIs DEF FileStep
  <2> QED BY <2>1 DEF PanelShows, FileScreens, Loop
<1>5. PanelShows' \/ ~ScreenStep BY PanelScreen
<1> QED BY <1>1, <1>2, <1>3, <1>4, <1>5, UiSteps

(* The loop takes a Confirm, and a second one for an image that raises the mark:
   the only ways to the install. *)
LEMMA YesUi ==
  ASSUME UpgradeBase, HeaderNames, PanelShows, YesIsKept, UiStep
  PROVE  YesIsKept'
<1>0. UpgradeTypes BY DEF UpgradeBase
<1>1. CASE ConfirmOffer
  <2>1. /\ yes' = drawn /\ ui = "handle" /\ ui' \in {"question", "approve"}
        /\ UNCHANGED <<stage, staged, upload, looked>>
    BY <1>1 DEF ConfirmOffer, OnOffer, Goes, usb, ghosts
  <2> QED BY <2>1 DEF YesIsKept, PanelShows, Loop, Active, Transferring
<1>2. CASE AnswerYes
  <2>1. /\ yes' = asked /\ Pending = asked /\ ui = "question" /\ ui' = "approve"
        /\ UNCHANGED <<stage, staged, upload, looked>>
    BY <1>2 DEF AnswerYes, StillAsked, Goes, usb, ghosts
  <2>2. asked \in Images BY <2>1 DEF PanelShows
  <2>3. Pending # NoImage BY <2>1, <2>2, UpgradeAssumption
  <2>4. stage = "offered" /\ staged.approval = asked BY <1>0, <2>1, <2>3, PendingIs
  <2>5. ~Active BY <2>4, ActiveIs
  <2>6. ~Active' BY <2>1, <2>5 DEF Active, Transferring
  <2> QED BY <2>1, <2>4, <2>6 DEF YesIsKept
<1>3. CASE ConfirmFile
  <2>1. yes' = card.approval /\ card' = card /\ ui' \in {"file question", "file commit"}
    BY <1>3 DEF ConfirmFile, Goes
  <2> QED BY <2>1 DEF YesIsKept
<1>4. CASE AnswerFile
  <2>1. ui = "file question" /\ ui' = "file commit" /\ UNCHANGED <<card, yes>>
    BY <1>4 DEF AnswerFile, Goes
  <2> QED BY <2>1 DEF YesIsKept
<1>5. CASE ~(ConfirmOffer \/ AnswerYes \/ ConfirmFile \/ AnswerFile)
  <2>1. ui' \notin {"approve", "file question", "file commit"}
    <3>1. CASE ScreenStep
      BY <1>5, <3>1 DEF ScreenStep, ReadKeys, CheckReceiving, CheckOffer, Swallow, GateRefuses, NoteRead,
             RejectionRead, LeaveScratch, Goes
    <3>2. CASE LetGoStep
      BY <3>2 DEF LetGoStep, Abandon, CancelOffer, AnswerNo, Declines, InstallRefused, SwitchIdentity,
             LeaveFile, Goes
    <3>3. CASE GateInstallStep
      <4>1. CASE Approve \/ CommitFile
        <5>1. ASSUME NEW x, Published(x) PROVE ui' \in {"note", "gate"}
          BY <5>1 DEF Published, Goes
        <5> QED BY <4>1, <5>1 DEF Approve, CommitFile, Goes
      <4>2. CASE GateInstalls \/ Retract
        BY <4>2 DEF GateInstalls, Retract, Goes, screen
      <4> QED BY <3>3, <4>1, <4>2 DEF GateInstallStep
    <3>4. CASE MenuStep
      BY <3>4 DEF MenuStep, UseScratch, OpenFile, Scan, Goes
    <3>5. CASE FileStep
      BY <3>5, FileInspectedIs, FileChunkIs DEF FileStep
    <3> QED BY <3>1, <3>2, <3>3, <3>4, <3>5, UiSteps
  <2> QED BY <2>1 DEF YesIsKept
<1> QED BY <1>1, <1>2, <1>3, <1>4, <1>5

-----------------------------------------------------------------------------
(* At the gate. *)

LEMMA EarlyIs ==
  /\ Early \subseteq Byte /\ Junk \in Early
  /\ \A x \in Images, at \in Nat, n \in Nat :
       at + n < ImageLen[x] => Bytes(x, at, n) \in Seq(Early)
<1>1. Junk \in Early
  BY JunkIsByte, UpgradeAssumption DEF Early, Junk
<1>2. ASSUME NEW x \in Images, NEW at \in Nat, NEW n \in Nat, at + n < ImageLen[x]
      PROVE  Bytes(x, at, n) \in Seq(Early)
  <2>1. \A i \in 1 .. n : <<x, at + i - 1>> \in Early
    <3> TAKE i \in 1 .. n
    <3>1. at + i - 1 \in Nat OBVIOUS
    <3>2. <<x, at + i - 1>> \in Byte BY <3>1 DEF Byte
    <3>3. at + i - 1 # ImageLen[x] - 1 BY <1>2, LengthIs
    <3> QED BY <3>2, <3>3 DEF Early
  <2> QED BY <2>1 DEF Bytes
<1> QED BY <1>1, <1>2 DEF Early

(* Frames that bring no last byte leave it so. *)
LEMMA TakesEarly ==
  ASSUME NEW t \in Transports, NEW st \in {"receiving", "unpacking"}, NEW s \in StagedType,
         s.carry \in Seq(Early), NEW m \in [Cells -> Early], NEW x \in Images, NEW at \in Nat,
         NEW n \in Nat, at + n < ImageLen[x], faulty \in BOOLEAN, Takes(t, st, s, m, x, at, n)
  PROVE  medium' \in [Cells -> Early] /\ (Transferring' => staged'.carry \in Seq(Early))
<1>1. Early \subseteq Byte /\ Junk \in Early /\ Bytes(x, at, n) \in Seq(Early) BY EarlyIs
<1>2. /\ medium' \in [Cells -> Early]
      /\ \/ stage' = "idle"
         \/ stage' = st /\ staged'.carry \in Seq(Early)
         \/ stage' = "offered"
  BY <1>1, TakesIs
<1> QED BY <1>2 DEF Transferring

LEMMA GateDrops ==
  ASSUME Confirmed \/ NotYet, UNCHANGED <<yes, medium, looked>>, upload' \in {upload, NoMessage},
         (stage' = stage /\ staged' = staged) \/ stage' \notin {"receiving", "unpacking"}
  PROVE  Confirmed' \/ NotYet'
<1>1. Active' => Active BY DEF Active, Transferring
<1>2. CASE Confirmed BY <1>1, <1>2 DEF Confirmed, HeaderOf
<1>3. CASE NotYet BY <1>1, <1>3 DEF NotYet, Transferring
<1> QED BY <1>2, <1>3

LEMMA GateTransports ==
  ASSUME UpgradeBase, ui = "gate", Confirmed \/ NotYet, NEW t \in Transports, NEW n \in Nat,
         \/ \E x \in Images, st \in {"receiving", "unpacking"} : OfferStarts(t, x, st, n)
         \/ OfferRefused(t) \/ ImageFrame(t, n) \/ Request(t, n) \/ BadFrame(t)
  PROVE  Confirmed' \/ NotYet'
<1>1. /\ faulty \in BOOLEAN /\ staged \in StagedType /\ medium \in [Cells -> Byte]
      /\ msg \in [Transports -> MessageType] /\ UpgradeTypes
  BY DEF UpgradeBase, UpgradeTypes
<1>2. ui \notin Waits BY DEF Waits
<1>3. CASE \E x \in Images, st \in {"receiving", "unpacking"} : OfferStarts(t, x, st, n)
  <2>1. PICK x \in Images, st \in {"receiving", "unpacking"} : OfferStarts(t, x, st, n) BY <1>3
  <2> DEFINE s == Begun(ImageLen[x])
  <2>2. Takes(t, st, s, Taken, x, 0, n) /\ looked' = FALSE /\ n < ImageLen[x] BY <2>1 DEF OfferStarts
  <2>3. s \in StagedType /\ s.carry = <<>> BY EmptyTypes, LengthIs
  <2>4. s.carry \in Seq(Early) BY <2>3, EmptySeq
  <2>5. Taken \in [Cells -> Early] BY <1>1, EarlyIs, TakenIs
  <2>6. 0 + n < ImageLen[x] BY <2>2
  <2> HIDE DEF s
  <2>7. medium' \in [Cells -> Early] /\ (Transferring' => staged'.carry \in Seq(Early))
    BY <1>1, <2>2, <2>3, <2>4, <2>5, <2>6, TakesEarly
  <2> QED BY <2>2, <2>7 DEF NotYet
<1>4. CASE OfferRefused(t) \/ BadFrame(t)
  <2>1. /\ stage' \in {Dropped, stage} /\ staged' = KeptBy(stage')
        /\ UNCHANGED <<upload, yes, medium, looked>>
    BY <1>4 DEF OfferRefused, BadFrame, Untouched, screen
  <2>2. (stage' = stage /\ staged' = staged) \/ stage' \notin {"receiving", "unpacking"}
    BY <1>1, <2>1, DroppedIs DEF UpgradeTypes
  <2> QED BY <2>1, <2>2, GateDrops
<1>5. CASE ImageFrame(t, n)
  <2> DEFINE x == msg[t].img
             at == msg[t].at
  <2>1. /\ x # NoImage /\ at + n <= ImageLen[x] /\ looked' = looked /\ UNCHANGED <<upload, yes>>
        /\ IF Transferring THEN Takes(t, stage, staged, medium, x, at, n)
           ELSE UNCHANGED <<stage, staged, medium>>
    BY <1>5 DEF ImageFrame, Untouched, screen
  <2>2. x \in Images /\ at \in Nat BY <1>1, <2>1, MessageIs
  <2>3. CASE Transferring
    <3>1. NotYet /\ ~looked BY <2>3 DEF Confirmed, NotYet, Active
    <3>2. Takes(t, stage, staged, medium, x, at, n) BY <2>1, <2>3
    <3>3. stage \in {"receiving", "unpacking"} BY <2>3 DEF Transferring
    <3> HIDE DEF x, at
    <3>4. at + n # ImageLen[x] BY <1>2, <3>1, <3>2 DEF Takes, TimeToArrive
    <3>5. at + n < ImageLen[x] BY <2>1, <2>2, <3>4, LengthIs
    <3>6. medium \in [Cells -> Early] /\ staged.carry \in Seq(Early) BY <2>3, <3>1 DEF NotYet
    <3>7. medium' \in [Cells -> Early] /\ (Transferring' => staged'.carry \in Seq(Early))
      BY <1>1, <2>2, <3>2, <3>3, <3>5, <3>6, TakesEarly
    <3> QED BY <2>1, <3>1, <3>7 DEF NotYet
  <2>4. CASE ~Transferring BY <2>1, <2>4, GateDrops
  <2> QED BY <2>3, <2>4
<1>6. CASE Request(t, n)
  <2> DEFINE data == [i \in 1 .. n |-> Junk]
  <2>1. looked' = looked /\ UNCHANGED <<upload, yes>> BY <1>6 DEF Request, Untouched, screen
  <2>2. CASE RequestFeeds(n)
    <3>1. PICK o \in Writes(medium, staged, data) :
            stage' = stage /\ staged' = o.s /\ medium' = o.m
      BY <2>2 DEF RequestFeeds
    <3>2. Transferring BY <2>2 DEF RequestFeeds
    <3>3. NotYet /\ ~looked BY <3>2 DEF Confirmed, NotYet, Active
    <3>4. medium \in [Cells -> Early] /\ staged.carry \in Seq(Early) BY <3>2, <3>3 DEF NotYet
    <3>5. Early \subseteq Byte /\ Junk \in Early BY EarlyIs
    <3>6. data \in Seq(Early) BY <3>5, JunkWord
    <3> HIDE DEF data
    <3>7. o.m \in [Cells -> Early] /\ o.s.carry \in Seq(Early)
      BY <1>1, <3>1, <3>4, <3>5, <3>6, WritesIs
    <3> QED BY <2>1, <3>1, <3>3, <3>7 DEF NotYet
  <2>3. CASE RequestAside
    <3>1. medium' = medium /\ stage' \in {Dropped, stage} /\ staged' = KeptBy(stage')
      BY <2>3 DEF RequestAside
    <3>2. (stage' = stage /\ staged' = staged) \/ stage' \notin {"receiving", "unpacking"}
      BY <1>1, <3>1, DroppedIs DEF UpgradeTypes
    <3> QED BY <2>1, <3>1, <3>2, GateDrops
  <2> QED BY <1>6, <2>2, <2>3, RequestEnds
<1> QED BY <1>3, <1>4, <1>5, <1>6

LEMMA GateDesk ==
  ASSUME UpgradeBase, ui = "gate", Confirmed \/ NotYet,
         \/ BusReset \/ UploadIsImage
         \/ \E x \in Images : UploadStarts(x)
         \/ \E n \in Sizes : UploadBlock(n)
  PROVE  Confirmed' \/ NotYet'
<1>1. medium \in [Cells -> Byte] BY DEF UpgradeBase, UpgradeTypes
<1>2. ui \notin Waits BY DEF Waits
<1>3. CASE BusReset
  <2>1. UNCHANGED <<yes, medium, looked>> /\ upload' = NoMessage /\ stage' \in {"idle", "approved"}
    BY <1>3 DEF BusReset, Loses, store, screen, ghosts
  <2> QED BY <2>1, GateDrops
<1>4. CASE UploadIsImage
  <2>1. upload # NoMessage /\ TimeToArrive BY <1>4, UploadIsImageIs
  <2>2. Active /\ looked BY <1>2, <2>1 DEF Active, TimeToArrive
  <2> QED BY <2>2 DEF Confirmed, NotYet
<1>5. ASSUME NEW x \in Images, UploadStarts(x) PROVE Confirmed' \/ NotYet'
  <2>1. /\ UNCHANGED <<stage, staged, yes>> /\ looked' = FALSE
        /\ \/ (Free(stage) \/ upload # NoMessage) /\ medium' = Taken
           \/ upload' = NoMessage /\ medium' = medium
    BY <1>5 DEF UploadStarts, screen
  <2>2. CASE (Free(stage) \/ upload # NoMessage) /\ medium' = Taken
    <3>1. ~Transferring BY <2>2, HoldersAre DEF Free
    <3>2. ~Transferring' BY <2>1, <3>1 DEF Transferring
    <3>3. Taken \in [Cells -> Early] BY <1>1, EarlyIs, TakenIs
    <3> QED BY <2>1, <2>2, <3>2, <3>3 DEF NotYet
  <2>3. CASE upload' = NoMessage /\ medium' = medium
    <3>1. CASE Confirmed BY <2>1, <2>3, <3>1 DEF Confirmed, Active, Transferring, HeaderOf
    <3>2. CASE NotYet BY <2>1, <2>3, <3>2 DEF NotYet, Transferring
    <3> QED BY <3>1, <3>2
  <2> QED BY <2>1, <2>2, <2>3
<1>6. ASSUME NEW n \in Sizes, UploadBlock(n) PROVE Confirmed' \/ NotYet'
  <2> DEFINE x == upload.img
             at == upload.at
  <2>1. x # NoImage /\ at + n <= ImageLen[x] /\ (at + n = ImageLen[x] => TimeToArrive)
    BY <1>6 DEF UploadBlock
  <2>2. upload # NoMessage /\ x \in Images /\ at \in Nat
    BY <2>1, MessageIs DEF UpgradeBase, UpgradeTypes
  <2>3. n \in Nat BY UpgradeAssumption DEF Sizes
  <2>4. NotYet /\ ~looked BY <2>2 DEF Confirmed, NotYet, Active
  <2>5. at + n < ImageLen[x]
    <3>1. at + n # ImageLen[x] BY <1>2, <2>1, <2>4 DEF TimeToArrive
    <3> HIDE DEF x, at
    <3> QED BY <2>1, <2>2, <2>3, <3>1, LengthIs
  <2>6. Early \subseteq Byte /\ Junk \in Early /\ Bytes(x, at, n) \in Seq(Early)
    BY <2>2, <2>3, <2>5, EarlyIs
  <2>7. medium \in [Cells -> Early] BY <2>4 DEF NotYet
  <2>8. medium' \in [Cells -> Early] /\ UNCHANGED <<stage, staged, looked>>
    BY <1>6, <2>6, <2>7, UploadBlockIs
  <2>9. ~Transferring' BY <2>2, <2>8, HoldersAre DEF Transferring
  <2> QED BY <2>4, <2>8, <2>9 DEF NotYet
<1> QED BY <1>3, <1>4, <1>5, <1>6

LEMMA GateStepKeeps ==
  ASSUME UpgradeBase, HeaderNames, YesIsKept, AtGate, UsbStep \/ UiStep
  PROVE  AtGate'
<1>1. CASE UsbStep
  <2>1. ui' = ui
    <3>1. UNCHANGED screen BY <1>1 DEF UsbStep, OfferStarts, OfferRefused, ImageFrame, Request, BadFrame,
            Untouched, BusReset, UploadStarts, UploadBlock, UploadIsImage
    <3> QED BY <3>1 DEF screen
  <2>2. CASE ui = "gate"
    <3>1. Confirmed \/ NotYet BY <2>2 DEF AtGate
    <3>2. \A n \in Sizes : n \in Nat BY DEF Sizes
    <3>3. 0 \in Nat OBVIOUS
    <3>4. Confirmed' \/ NotYet'
      BY <1>1, <2>2, <3>1, <3>2, <3>3, GateTransports, GateDesk DEF UsbStep
    <3> QED BY <3>4 DEF AtGate
  <2> QED BY <2>1, <2>2 DEF AtGate
<1>2. CASE UiStep
  <2> SUFFICES ASSUME ui' = "gate" PROVE AtGate'
    BY DEF AtGate
  <2>1. Approve \/ CommitFile \/ GateInstalls
    <3>1. ~ScreenStep
      BY DEF ScreenStep, ReadKeys, CheckReceiving, CheckOffer, Swallow, ConfirmOffer, AnswerYes,
         GateRefuses, NoteRead, RejectionRead, LeaveScratch, ConfirmFile, AnswerFile, Goes
    <3>2. ~LetGoStep
      BY DEF LetGoStep, Abandon, CancelOffer, AnswerNo, Declines, InstallRefused, SwitchIdentity,
             LeaveFile, Goes
    <3>3. ~MenuStep BY DEF MenuStep, UseScratch, OpenFile, Scan, Goes
    <3>4. ~FileStep BY FileInspectedIs, FileChunkIs DEF FileStep
    <3>5. ~Retract BY DEF Retract, Goes
    <3> QED BY <1>2, <3>1, <3>2, <3>3, <3>4, <3>5, UiSteps DEF GateInstallStep
  <2>2. CASE Approve
    <3>1. stage = "offered" => staged.approval \in Images BY DEF HeaderNames, HeaderOf
    <3>2. /\ UNCHANGED <<upload, medium, yes>> /\ ui = "approve"
          /\ stage' = "approved" /\ stage = "offered"
      BY <2>2, <3>1, ApproveIs
    <3>3. ~Active' BY <3>2, HoldersAre DEF Active, Transferring
    <3>4. yes \in {NoImage, staged.approval} /\ HeaderOf(staged.approval)
      BY <3>2 DEF YesIsKept, HeaderNames
    <3>5. Confirmed' BY <3>2, <3>3, <3>4 DEF Confirmed, HeaderOf
    <3> QED BY <3>5 DEF AtGate
  <2>3. CASE CommitFile
    <3>1. /\ UNCHANGED <<stage, upload, medium, yes>> /\ ui = "file commit"
      BY <2>3, CommitFileIs
    <3>2. card # NoStaged BY <3>1 DEF UpgradeBase, OneHolder, FileScreens, FileOffers
    <3>3. ~Active' BY <3>1, <3>2, HoldersAre DEF Active, Transferring
    <3>4. yes = card.approval /\ HeaderOf(card.approval)
      BY <3>1 DEF YesIsKept, HeaderNames, FileOffers
    <3>5. Confirmed' BY <3>1, <3>3, <3>4 DEF Confirmed, HeaderOf
    <3> QED BY <3>5 DEF AtGate
  <2>4. CASE GateInstalls
    <3>1. ui = "gate" /\ UNCHANGED <<stage, staged, upload, medium, yes, looked>>
      BY <2>4 DEF GateInstalls, usb, store, screen
    <3> QED BY <3>1 DEF AtGate, Confirmed, NotYet, Active, Transferring, HeaderOf
  <2> QED BY <2>1, <2>2, <2>3, <2>4
<1> QED BY <1>1, <1>2

(* The gate installs what is stored: the header in it is that of the image
   confirmed, and what is not whole has no last byte. *)
LEMMA InstalledStep ==
  ASSUME UpgradeBase, AtGate, InstalledIsConfirmed, UsbStep \/ (Alive /\ UiStep)
  PROVE  InstalledIsConfirmed'
<1>1. Alive
  BY DEF UsbStep, OfferStarts, OfferRefused, ImageFrame, Request, BadFrame, BusReset, UploadStarts,
         UploadBlock, UploadIsImage
<1>2. CASE GateInstalls
  <2>1. PICK x \in Signed : /\ ImageLen[x] = marker
                            /\ Stored(medium, marker) = Bytes(x, 0, marker)
                            /\ installed' = x
    BY <1>2 DEF GateInstalls
  <2> DEFINE l == ImageLen[x]
  <2>2. ui = "gate" /\ yes' = yes BY <1>2 DEF GateInstalls, screen
  <2>3. x \in Images BY UpgradeAssumption
  <2>4. l \in Nat /\ l > HeaderAt /\ l > 0 /\ HeaderAt \in Nat /\ l <= Capacity /\ Capacity \in Nat
    BY <2>3, LengthIs, UpgradeAssumption
  <2>5. Stored(medium, l) = Bytes(x, 0, l) BY <2>1
  <2> HIDE DEF l
  <2>6. \A i \in 1 .. l : medium[i - 1] = <<x, 0 + i - 1>>
    <3>1. \A i \in 1 .. l : Stored(medium, l)[i] = medium[i - 1] BY DEF Stored
    <3>2. \A i \in 1 .. l : Bytes(x, 0, l)[i] = <<x, 0 + i - 1>> BY <2>3, <2>4, BytesAre
    <3> QED BY <2>5, <3>1, <3>2
  <2>7. medium[HeaderAt] = <<x, HeaderAt>>
    <3>1. HeaderAt + 1 \in 1 .. l /\ (HeaderAt + 1) - 1 = HeaderAt /\ 0 + (HeaderAt + 1) - 1 = HeaderAt
      BY <2>4
    <3> QED BY <3>1, <2>6
  <2>8. medium[l - 1] = <<x, l - 1>> /\ l - 1 \in Cells
    <3>1. l \in 1 .. l /\ 0 + l - 1 = l - 1 /\ l - 1 \in Cells BY <2>4 DEF Cells
    <3> QED BY <3>1, <2>6
  <2>9. ~NotYet
    <3>1. medium[l - 1] \notin Early BY <2>3, <2>8 DEF Early, l
    <3> QED BY <2>8, <3>1 DEF NotYet
  <2>10. yes \in {NoImage} \cup {y \in Images : HeaderOf(y)}
    BY <2>2, <2>9 DEF AtGate, Confirmed
  <2>11. yes \in {NoImage, x}
    BY <2>7, <2>10 DEF HeaderOf
  <2> QED BY <2>1, <2>2, <2>11 DEF InstalledIsConfirmed
<1>3. CASE ~GateInstalls
  <2>1. installed' = installed
    <3>1. CASE UsbStep
      BY <3>1 DEF UsbStep, OfferStarts, OfferRefused, ImageFrame, Request, BadFrame, Untouched,
            BusReset, UploadStarts, UploadBlock, UploadIsImage, ghosts
    <3>2. CASE UiStep
      BY <1>3, <3>2 DEF UiStep, AnswerStep, GateStep, ReadKeys, CheckReceiving, CheckOffer, Swallow, Abandon,
            ConfirmOffer, CancelOffer, Declines, AnswerYes, AnswerNo, Approve, GateRefuses, Retract,
            InstallRefused, NoteRead, RejectionRead, UseScratch, LeaveScratch, SwitchIdentity,
            OpenFile, Scan, FileChunk, FileInspected, ConfirmFile, AnswerFile, LeaveFile, CommitFile,
            ghosts
    <3> QED BY <3>1, <3>2
  <2> QED BY <1>1, <2>1 DEF Alive, InstalledIsConfirmed
<1> QED BY <1>2, <1>3

-----------------------------------------------------------------------------
(* The inductive invariant. *)

LEMMA InitInv == Init => UpgradeInv
<1> SUFFICES ASSUME Init PROVE UpgradeInv
  OBVIOUS
<1>1. /\ msg = [t \in Transports |-> NoMessage] /\ ckcc \in BOOLEAN
      /\ stage = "idle" /\ staged = NoStaged /\ upload = NoMessage /\ card = NoStaged
      /\ medium = [i \in 0 .. Capacity - 1 |-> Junk] /\ marker = 0
      /\ ui = "keys" /\ key = "none" /\ arriving = FALSE
      /\ shown = NoImage /\ drawn = NoImage /\ asked = NoImage /\ yes = NoImage
      /\ installed = NoImage /\ faulty = FALSE /\ looked = FALSE
  BY DEF Init
<1>2. medium \in [Cells -> Byte] BY <1>1, JunkIsByte DEF Cells
<1>3. UpgradeTypes
  BY <1>1, <1>2, EmptyTypes DEF UpgradeTypes, Stages, Screens, Loop, SomeImage
<1>4. OneHolder
  BY <1>1 DEF OneHolder, Transferring, FileScreens, FileOffers
<1>5. OneMessage
  BY <1>1 DEF OneMessage, Transports
<1>6. StoredParts /\ HeaderNames
  BY <1>1 DEF StoredParts, TransferIsItsMessage, ArrivedIsStored, OfferedIsStored, HeaderNames,
              Transferring, FileOffers
<1>7. PanelShows /\ YesIsKept /\ AtGate /\ InstalledIsConfirmed
  BY <1>1 DEF PanelShows, YesIsKept, AtGate, InstalledIsConfirmed, FileScreens, FileOffers
<1> QED BY <1>3, <1>4, <1>5, <1>6, <1>7 DEF UpgradeInv, UpgradeBase

LEMMA NextInv == UpgradeInv /\ [Next]_vars => UpgradeInv'
<1> SUFFICES ASSUME UpgradeInv, [Next]_vars PROVE UpgradeInv'
  OBVIOUS
<1>1. /\ UpgradeBase /\ StoredParts /\ HeaderNames /\ PanelShows /\ YesIsKept /\ AtGate
      /\ InstalledIsConfirmed
  BY DEF UpgradeInv
<1>2. UpgradeBase' BY <1>1, BaseStep
<1>3. StoredParts' /\ HeaderNames' BY <1>1, StoredStep
<1>4. PanelShows' /\ YesIsKept' /\ AtGate' /\ InstalledIsConfirmed'
  <2>1. CASE UNCHANGED vars
    BY <1>1, <2>1 DEF vars, usb, store, screen, ghosts, PanelShows, YesIsKept, AtGate,
              Confirmed, NotYet, InstalledIsConfirmed, Active, Transferring, HeaderOf
  <2>2. CASE UsbStep
    <3>1. UsbIs BY <1>1, <2>2, UsbStepIs
    <3> QED BY <1>1, <2>2, <3>1, PanelUsb, YesUsb, GateStepKeeps, InstalledStep
  <2>3. CASE Alive /\ UiStep
    BY <1>1, <2>3, PanelUi, YesUi, GateStepKeeps, InstalledStep
  <2> QED BY <2>1, <2>2, <2>3 DEF Next
<1> QED BY <1>2, <1>3, <1>4 DEF UpgradeInv

(* The invariant holds of every behaviour. *)
THEOREM UpgradeInvHolds == Spec => []UpgradeInv
<1> QED BY InitInv, NextInv, PTL DEF Spec

(* Every variable stays in its type (catcard-upgrade lib.rs, Staged; usbtask.rs,
   Stage; the menu loop's locals). *)
THEOREM Types == Spec => []UpgradeTypes
<1>1. UpgradeInv => UpgradeTypes BY DEF UpgradeInv, UpgradeBase
<1> QED BY <1>1, UpgradeInvHolds, PTL

(* The staging memory has one holder at a time, whoever asks for it and when
   (psram::take and its lease). *)
THEOREM MediumHasOneHolder == Spec => []OneHolder
<1>1. UpgradeInv => OneHolder BY DEF UpgradeInv, UpgradeBase
<1> QED BY <1>1, UpgradeInvHolds, PTL

(* A transfer has hashed exactly what its own message brought, whichever of the
   two transports starts, stops or errs (usbtask.rs, on_report and
   ccid_dispatch). *)
THEOREM TransfersDoNotMix == Spec => []TransferIsItsMessage
<1>1. UpgradeInv => TransferIsItsMessage BY DEF UpgradeInv, StoredParts
<1> QED BY <1>1, UpgradeInvHolds, PTL

(* Unless the medium lost something, what is offered is stored, last odd bytes
   and all, however it was cut into frames (lib.rs, write, settle, inspect). *)
THEOREM OffersAreStored == Spec => []OfferedIsStored
<1>1. UpgradeInv => OfferedIsStored BY DEF UpgradeInv, StoredParts
<1> QED BY <1>1, UpgradeInvHolds, PTL

(* An image other than the one on the panel at the Confirm is not installed
   (menu.rs, run and offer_and_install). *)
THEOREM OnlyTheConfirmed == Spec => []InstalledIsConfirmed
<1>1. UpgradeInv => InstalledIsConfirmed BY DEF UpgradeInv
<1> QED BY <1>1, UpgradeInvHolds, PTL
=============================================================================
