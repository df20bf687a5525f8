--------------------------- MODULE TssSessionProofs ---------------------------
(* Threshold-signing sessions, for any members, restarts and messages: what a
   member knows of the others, what they sent, and what is on its way.

   The argument: everything that arrives under a member's present key is
   something it really sent since it joined, so whatever another member has
   taken of it, it has sent in that other's very session. *)
EXTENDS TssSession, TLAPS

Types ==
  /\ <<family, way>> \in Kinds
  /\ joins \in [Members -> Keys]
  /\ commits \in [Members -> Views] /\ roster \in [Members -> Views]
  /\ confirmed \in [Members -> BOOLEAN]
  /\ seen \in [Members -> SUBSET Names]
  /\ sent \in [Members -> SUBSET Message] /\ inbox \in [Members -> SUBSET Message]
  /\ card \subseteq Message

(* What members know of each other: their own key, and keys that were used; an
   identity is never another than the one committed to. *)
Known ==
  \A m, p \in Members :
    /\ commits[m][m] = joins[m] /\ roster[m][m] = joins[m]
    /\ commits[m][p] <= joins[p]
    /\ roster[m][p] \in {0, commits[m][p]}

(* A code is confirmed when it is there, and the protocol runs after that. *)
InOrder ==
  \A m \in Members :
    /\ confirmed[m] => HasCode(m)
    /\ seen[m] # {} => confirmed[m]

(* What a member has sent since it joined. *)
SentOwn ==
  \A m \in Members : \A x \in sent[m] :
    /\ From(x) = m /\ x.key = joins[m]
    /\ RoundOf(x) >= 1 => AllCommitted(commits[m])
    /\ RoundOf(x) >= 2 => confirmed[m] /\ x.view = roster[m] /\ x.name[1] \in Rounds

(* Messages x on their way: of the sender as it is now, or as it was before it
   joined again. *)
Posted(X) == \A x \in X : x.key <= joins[From(x)] /\ (x.key = joins[From(x)] => x \in sent[From(x)])
MailPosted == Posted(card) /\ \A m \in Members : Posted(inbox[m])

(* What was taken from a member that has not joined again was sent by it; a
   message of the protocol, over the very view of the member that took it. *)
TakenSent ==
  \A m, p \in Members : p # m /\ roster[m][p] = joins[p] =>
    /\ roster[m][p] # 0 => \E y \in sent[p] : RoundOf(y) = 1
    /\ \A n \in seen[m] : n[2] = p => n[1] >= 2 /\ \E y \in sent[p] : y.name = n /\ y.view = roster[m]

(* All but a pair setup among more than two is a single lane. *)
OneLane == family = "pairs" => \E a, b \in Members : Members = {a, b}

(* A member with a single lane has all of the rounds before one it has sent. *)
RoundsInOrder ==
  OneLane =>
    \A m \in Members : \A x \in sent[m], n \in Expected[family][m] : n[1] < RoundOf(x) => n \in seen[m]

TssInv == Types /\ Known /\ InOrder /\ SentOwn /\ MailPosted /\ TakenSent /\ RoundsInOrder

-----------------------------------------------------------------------------
(* The schedule of the protocols. *)

(* Every round from 2 on sends something, and no other does. *)
LEMMA Schedule ==
  ASSUME NEW f \in Families
  PROVE  /\ Broadcasts[f] \subseteq 2 .. LastRound[f] /\ Unicasts[f] \subseteq 2 .. LastRound[f]
         /\ LastRound[f] \in {3, 6}
         /\ \A r \in 2 .. LastRound[f] : r \in Broadcasts[f] \/ r \in Unicasts[f]
<1>1. CASE f = "keygen"
  BY <1>1 DEF Broadcasts, Unicasts, LastRound
<1>2. CASE f = "sign"
  <2>1. Broadcasts[f] = {2, 3, 5, 6} /\ Unicasts[f] = {3, 4} /\ LastRound[f] = 6
    BY <1>2 DEF Broadcasts, Unicasts, LastRound
  <2> QED BY <2>1
<1>3. CASE f = "pairs"
  BY <1>3 DEF Broadcasts, Unicasts, LastRound
<1> QED BY <1>1, <1>2, <1>3 DEF Families

LEMMA KindFacts ==
  ASSUME SessionAssumption, Types
  PROVE  family \in Families /\ way \in {"card", "qr"}
  BY DEF SessionAssumption, Types

(* A member expects messages of the protocol's rounds, from others, to all or
   to itself. *)
LEMMA ExpectedIs ==
  ASSUME SessionAssumption, NEW f \in Families, NEW m \in Members
  PROVE  /\ Expected[f][m] = {<<r, p, All>> : r \in Broadcasts[f], p \in Others(m)} \cup
                             {<<r, p, m>>   : r \in Unicasts[f], p \in Others(m)}
         /\ Expected[f][m] \subseteq Names
         /\ \A n \in Expected[f][m] : n[1] \in 2 .. LastRound[f] /\ n[2] \in Others(m) /\ n[3] \in {All, m}
<1>1. Expected[f][m] = {<<r, p, All>> : r \in Broadcasts[f], p \in Others(m)} \cup
                       {<<r, p, m>>   : r \in Unicasts[f], p \in Others(m)}
  BY DEF Expected
<1>2. ASSUME NEW n \in Expected[f][m]
      PROVE  n \in Names /\ n[1] \in 2 .. LastRound[f] /\ n[2] \in Others(m) /\ n[3] \in {All, m}
  <2>1. PICK r \in 2 .. LastRound[f], p \in Others(m), to \in {All, m} : n = <<r, p, to>>
    BY <1>1, <1>2, Schedule
  <2>2. r \in 0 .. 6
    BY Schedule
  <2> QED BY <2>1, <2>2 DEF Names, Others, All
<1> QED BY <1>1, <1>2

(* A lane sends in the protocol's rounds only, in its member's name. *)
LEMMA AnswersAre ==
  ASSUME SessionAssumption, family \in Families, NEW m \in Members, NEW S
  PROVE  \A n \in Answers(m, S) :
           /\ n \in Names /\ n[1] >= 2 /\ n[1] \in Rounds /\ n[2] = m
           /\ OneLane => \A e \in Expected[family][m] : e[1] < n[1] => e \in S
<1> SUFFICES ASSUME NEW n \in Answers(m, S)
             PROVE  /\ n \in Names /\ n[1] >= 2 /\ n[1] \in Rounds /\ n[2] = m
                    /\ OneLane => \A e \in Expected[family][m] : e[1] < n[1] => e \in S
  OBVIOUS
<1>1. PICK l \in Lanes(m), r \in Rounds :
        /\ n \in LaneSends(m, l, r)
        /\ \A e \in Expected[family][m] : e[1] < r /\ e[2] \in l => e \in S
  BY DEF Answers, Reached
<1>2. l \subseteq Members /\ (OneLane => l = Others(m))
  <2>1. CASE family # "pairs"
    BY <1>1, <2>1 DEF Lanes, Others
  <2>2. CASE family = "pairs"
    <3>1. PICK p \in Others(m) : l = {p}
      BY <1>1, <2>2 DEF Lanes
    <3>2. ASSUME NEW a, NEW b, Members = {a, b} PROVE l = Others(m)
      BY <3>1, <3>2 DEF Others
    <3> QED BY <2>2, <3>1, <3>2 DEF OneLane, Others
  <2> QED BY <2>1, <2>2
<1>3. r \in 2 .. 6
  BY <1>1, Schedule DEF Rounds
<1>4. n[1] = r /\ n[2] = m /\ n \in Names
  BY <1>1, <1>2, <1>3 DEF LaneSends, Names
<1>5. OneLane => \A e \in Expected[family][m] : e[1] < n[1] => e \in S
  BY <1>1, <1>2, <1>4, ExpectedIs
<1> QED BY <1>1, <1>3, <1>4, <1>5

(* What a session sends of the protocol: by its key, over its view. *)
LEMMA SealedAre ==
  ASSUME SessionAssumption, Types, NEW m \in Members, joins[m] # 0, NEW S
  PROVE  \A x \in Sealed(m, S) :
           /\ x \in Message /\ From(x) = m /\ RoundOf(x) >= 2
           /\ x.key = joins[m] /\ x.view = roster[m] /\ x.name \in Answers(m, S)
<1> SUFFICES ASSUME NEW x \in Sealed(m, S)
             PROVE  /\ x \in Message /\ From(x) = m /\ RoundOf(x) >= 2
                    /\ x.key = joins[m] /\ x.view = roster[m] /\ x.name \in Answers(m, S)
  OBVIOUS
<1>1. PICK n \in Answers(m, S) : x = [name |-> n, key |-> joins[m], view |-> roster[m]]
  BY DEF Sealed
<1>2. n \in Names /\ n[1] >= 2 /\ n[2] = m
  BY AnswersAre, KindFacts
<1>3. joins[m] \in Keys \ {0} /\ roster[m] \in Views
  BY DEF Types
<1> QED BY <1>1, <1>2, <1>3 DEF Message, From, RoundOf

(* What can be read was posted. *)
LEMMA MediumPosted ==
  ASSUME Types, MailPosted, NEW m \in Members
  PROVE  Medium(m) \subseteq Message /\ Posted(Medium(m))
  BY DEF Types, MailPosted, Medium

LEMMA MessageShape ==
  ASSUME SessionAssumption, NEW x \in Message
  PROVE  /\ x.name \in Names /\ x.key \in Nat \ {0} /\ x.key \in Keys /\ x.view \in Views
         /\ RoundOf(x) \in 0 .. 6 /\ From(x) \in Members /\ To(x) \in Members \cup {All}
  BY DEF Message, Names, RoundOf, From, To, Keys, SessionAssumption

(* The keys known are numbers. *)
LEMMA KeysAreNats ==
  ASSUME SessionAssumption, Types, NEW m \in Members, NEW p \in Members
  PROVE  joins[m] \in Nat /\ commits[m][p] \in Nat /\ roster[m][p] \in Nat
  BY DEF Types, Views, Keys, SessionAssumption

-----------------------------------------------------------------------------
(* Taking messages. *)

TakenNow(m) == {x \in Got(m) : Accepts(m, x)}
KeyTaken(m, r, p, old) ==
  IF \E x \in TakenNow(m) : x.name = <<r, p, All>>
  THEN (CHOOSE x \in TakenNow(m) : x.name = <<r, p, All>>).key ELSE old
CommitsThen(m) == [p \in Members |-> KeyTaken(m, 0, p, commits[m][p])]
RosterThen(m)  == [p \in Members |-> KeyTaken(m, 1, p, roster[m][p])]
SeenThen(m) == seen[m] \cup {n \in NamesOf(TakenNow(m)) : n[1] >= 2}
SentThen(m) == sent[m]
  \cup (IF Reveals(m, CommitsThen(m)) THEN {Introduction(m, 1)} ELSE {})
  \cup (IF confirmed[m] THEN Sealed(m, SeenThen(m)) ELSE {})

LEMMA TakeIs ==
  ASSUME NEW m \in Members, Take(m)
  PROVE  /\ commits' = [commits EXCEPT ![m] = CommitsThen(m)]
         /\ roster' = [roster EXCEPT ![m] = RosterThen(m)]
         /\ seen' = [seen EXCEPT ![m] = SeenThen(m)]
         /\ sent' = [sent EXCEPT ![m] = SentThen(m)]
         /\ inbox' = [inbox EXCEPT ![m] = @ \ Got(m)]
         /\ UNCHANGED <<family, way, joins, confirmed, card>>
         /\ Got(m) # {}
  BY DEF Take, TakenNow, KeyTaken, CommitsThen, RosterThen, SeenThen, SentThen

LEMMA KeyTakenIs ==
  ASSUME NEW m, NEW r, NEW p, NEW old
  PROVE  \/ KeyTaken(m, r, p, old) = old
         \/ \E x \in TakenNow(m) : x.name = <<r, p, All>> /\ KeyTaken(m, r, p, old) = x.key
<1>1. CASE \E x \in TakenNow(m) : x.name = <<r, p, All>>
  <2> DEFINE y == CHOOSE x \in TakenNow(m) : x.name = <<r, p, All>>
  <2>1. y \in TakenNow(m) /\ y.name = <<r, p, All>>
    BY <1>1
  <2>2. KeyTaken(m, r, p, old) = y.key
    BY <1>1 DEF KeyTaken
  <2> QED BY <2>1, <2>2
<1>2. CASE ~ \E x \in TakenNow(m) : x.name = <<r, p, All>>
  BY <1>2 DEF KeyTaken
<1> QED BY <1>1, <1>2

(* A member that reads has joined; what it takes is a commitment not there yet,
   the identity that fits one, or a message of the protocol by the roster. *)
LEMMA TakenAre ==
  ASSUME SessionAssumption, TssInv, NEW m \in Members
  PROVE  /\ Got(m) # {} => joins[m] # 0
         /\ \A x \in TakenNow(m) : x \in Message /\ x \in Medium(m) /\ Accepts(m, x)
         /\ \A p \in Members :
              \/ CommitsThen(m)[p] = commits[m][p]
              \/ commits[m][p] = 0 /\ \E x \in TakenNow(m) : From(x) = p /\ CommitsThen(m)[p] = x.key
         /\ \A p \in Members :
              \/ RosterThen(m)[p] = roster[m][p]
              \/ /\ AllCommitted(commits[m]) /\ roster[m][p] = 0 /\ RosterThen(m)[p] = commits[m][p]
                 /\ \E x \in TakenNow(m) : From(x) = p /\ RoundOf(x) = 1 /\ RosterThen(m)[p] = x.key
         /\ CommitsThen(m) \in Views /\ RosterThen(m) \in Views
<1>1. Got(m) # {} => joins[m] # 0
  BY DEF Got, Awaiting
<1>2. \A x \in TakenNow(m) : x \in Message /\ x \in Medium(m) /\ Accepts(m, x)
  BY MediumPosted DEF TakenNow, Got, TssInv
<1>3. ASSUME NEW p \in Members
      PROVE  /\ CommitsThen(m)[p] \in Keys
             /\ \/ CommitsThen(m)[p] = commits[m][p]
                \/ commits[m][p] = 0 /\ \E x \in TakenNow(m) : From(x) = p /\ CommitsThen(m)[p] = x.key
  <2>1. CommitsThen(m)[p] = KeyTaken(m, 0, p, commits[m][p])
    BY DEF CommitsThen
  <2>2. CASE KeyTaken(m, 0, p, commits[m][p]) = commits[m][p]
    BY <2>1, <2>2 DEF TssInv, Types, Views
  <2>3. ASSUME NEW x \in TakenNow(m), x.name = <<0, p, All>>, KeyTaken(m, 0, p, commits[m][p]) = x.key
        PROVE  From(x) = p /\ commits[m][p] = 0 /\ x.key \in Keys
    <3>1. RoundOf(x) = 0 /\ From(x) = p
      BY <2>3 DEF RoundOf, From
    <3> QED BY <1>2, <3>1, MessageShape DEF Accepts
  <2> QED BY <2>1, <2>2, <2>3, KeyTakenIs
<1>4. ASSUME NEW p \in Members
      PROVE  /\ RosterThen(m)[p] \in Keys
             /\ \/ RosterThen(m)[p] = roster[m][p]
                \/ /\ AllCommitted(commits[m]) /\ roster[m][p] = 0 /\ RosterThen(m)[p] = commits[m][p]
                   /\ \E x \in TakenNow(m) : From(x) = p /\ RoundOf(x) = 1 /\ RosterThen(m)[p] = x.key
  <2>1. RosterThen(m)[p] = KeyTaken(m, 1, p, roster[m][p])
    BY DEF RosterThen
  <2>2. CASE KeyTaken(m, 1, p, roster[m][p]) = roster[m][p]
    BY <2>1, <2>2 DEF TssInv, Types, Views
  <2>3. CASE KeyTaken(m, 1, p, roster[m][p]) # roster[m][p]
    <3>1. PICK x \in TakenNow(m) : x.name = <<1, p, All>> /\ KeyTaken(m, 1, p, roster[m][p]) = x.key
      BY <2>3, KeyTakenIs
    <3>2. RoundOf(x) = 1 /\ From(x) = p
      BY <3>1 DEF RoundOf, From
    <3>3. AllCommitted(commits[m]) /\ roster[m][p] = 0 /\ commits[m][p] = x.key
      BY <1>2, <3>2 DEF Accepts
    <3>4. x.key \in Keys
      BY <1>2, MessageShape
    <3> QED BY <2>1, <3>1, <3>2, <3>3, <3>4
  <2> QED BY <2>2, <2>3
<1>5. CommitsThen(m) \in Views /\ RosterThen(m) \in Views
  BY <1>3, <1>4 DEF Views, CommitsThen, RosterThen
<1> QED BY <1>1, <1>2, <1>3, <1>4, <1>5

LEMMA ViewsEqual ==
  ASSUME NEW f \in Views, NEW g \in Views, \A p \in Members : f[p] = g[p]
  PROVE  f = g
  BY DEF Views

(* Once every commitment is in, none is taken; once the code is there, no
   identity is. *)
LEMMA CommitsStay ==
  ASSUME SessionAssumption, TssInv, NEW m \in Members, AllCommitted(commits[m])
  PROVE  CommitsThen(m) = commits[m]
<1>1. \A p \in Members : CommitsThen(m)[p] = commits[m][p]
  BY TakenAre DEF AllCommitted
<1>2. CommitsThen(m) \in Views /\ commits[m] \in Views
  BY TakenAre DEF TssInv, Types
<1> QED BY <1>1, <1>2, ViewsEqual

LEMMA RosterStays ==
  ASSUME SessionAssumption, TssInv, NEW m \in Members, confirmed[m]
  PROVE  RosterThen(m) = roster[m] /\ AllCommitted(commits[m])
<1>1. HasCode(m)
  BY DEF TssInv, InOrder
<1>2. \A p \in Members : RosterThen(m)[p] = roster[m][p]
  BY <1>1, TakenAre DEF HasCode
<1>3. RosterThen(m) = roster[m]
  <2>1. RosterThen(m) \in Views /\ roster[m] \in Views
    BY TakenAre DEF TssInv, Types
  <2> QED BY <1>2, <2>1, ViewsEqual
<1>4. AllCommitted(commits[m])
  BY <1>1 DEF HasCode, AllCommitted, TssInv, Known
<1> QED BY <1>3, <1>4

(* What is new in what it has sent: its identity, when the last commitment is
   in, or messages of the protocol. *)
LEMMA NewlySent ==
  ASSUME SessionAssumption, TssInv, NEW m \in Members, joins[m] # 0
  PROVE  /\ sent[m] \subseteq SentThen(m)
         /\ \A x \in SentThen(m) \ sent[m] :
              /\ x \in Message /\ From(x) = m /\ x.key = joins[m]
              /\ \/ RoundOf(x) = 1 /\ AllCommitted(CommitsThen(m))
                 \/ /\ confirmed[m] /\ RoundOf(x) >= 2 /\ x.view = roster[m]
                    /\ x.name \in Answers(m, SeenThen(m))
<1>1. sent[m] \subseteq SentThen(m)
  BY DEF SentThen
<1>2. Introduction(m, 1) \in Message /\ From(Introduction(m, 1)) = m
      /\ Introduction(m, 1).key = joins[m] /\ RoundOf(Introduction(m, 1)) = 1
  <2>1. NoView \in Views /\ joins[m] \in Keys \ {0} /\ <<1, m, All>> \in Names
    BY DEF NoView, Views, Keys, SessionAssumption, TssInv, Types, Names
  <2> QED BY <2>1 DEF Introduction, Message, From, RoundOf
<1>3. ASSUME NEW x \in SentThen(m) \ sent[m]
      PROVE  \/ x = Introduction(m, 1) /\ AllCommitted(CommitsThen(m))
             \/ confirmed[m] /\ x \in Sealed(m, SeenThen(m))
  BY DEF SentThen, Reveals
<1>4. \A x \in Sealed(m, SeenThen(m)) :
        /\ x \in Message /\ From(x) = m /\ RoundOf(x) >= 2
        /\ x.key = joins[m] /\ x.view = roster[m] /\ x.name \in Answers(m, SeenThen(m))
  BY SealedAre DEF TssInv
<1> QED BY <1>1, <1>2, <1>3, <1>4

LEMMA TakePreserves ==
  ASSUME SessionAssumption, TssInv, NEW m \in Members, Take(m)
  PROVE  TssInv'
<1>1. /\ \A a \in Members : commits'[a] = IF a = m THEN CommitsThen(m) ELSE commits[a]
      /\ \A a \in Members : roster'[a] = IF a = m THEN RosterThen(m) ELSE roster[a]
      /\ \A a \in Members : seen'[a] = IF a = m THEN SeenThen(m) ELSE seen[a]
      /\ \A a \in Members : sent'[a] = IF a = m THEN SentThen(m) ELSE sent[a]
      /\ \A a \in Members : inbox'[a] \subseteq inbox[a]
      /\ UNCHANGED <<family, way, joins, confirmed, card>>
      /\ joins[m] # 0
  BY TakeIs, TakenAre DEF TssInv, Types
<1>2. /\ \A x \in TakenNow(m) :
           /\ x \in Message /\ Accepts(m, x) /\ From(x) \in Members
           /\ x.key <= joins[From(x)] /\ (x.key = joins[From(x)] => x \in sent[From(x)])
      /\ CommitsThen(m) \in Views /\ RosterThen(m) \in Views
  BY TakenAre, MediumPosted, MessageShape DEF TssInv, Posted
<1>3. /\ sent[m] \subseteq SentThen(m)
      /\ \A x \in SentThen(m) \ sent[m] :
           /\ x \in Message /\ From(x) = m /\ x.key = joins[m]
           /\ \/ RoundOf(x) = 1 /\ AllCommitted(CommitsThen(m))
              \/ /\ confirmed[m] /\ RoundOf(x) >= 2 /\ x.view = roster[m]
                 /\ x.name \in Answers(m, SeenThen(m))
  BY <1>1, NewlySent
<1>4. \A n \in SeenThen(m) \ seen[m] :
        /\ n \in Names /\ n[1] >= 2 /\ confirmed[m]
        /\ \E x \in TakenNow(m) : x.name = n /\ Genuine(m, x)
  <2> SUFFICES ASSUME NEW x \in TakenNow(m), x.name[1] >= 2
               PROVE  x.name \in Names /\ confirmed[m] /\ Genuine(m, x)
    BY DEF SeenThen, NamesOf
  <2>1. x \in Message /\ Accepts(m, x) /\ RoundOf(x) \in 0 .. 6 /\ RoundOf(x) >= 2 /\ x.name \in Names
    BY <1>2, MessageShape DEF RoundOf
  <2> QED BY <2>1 DEF Accepts
<1>5. seen[m] \subseteq SeenThen(m)
  BY DEF SeenThen
<1>6. /\ AllCommitted(commits[m]) => CommitsThen(m) = commits[m]
      /\ confirmed[m] => RosterThen(m) = roster[m] /\ AllCommitted(commits[m])
  BY CommitsStay, RosterStays
<1>7. Types'
  <2>1. SentThen(m) \subseteq Message /\ SeenThen(m) \subseteq Names
    BY <1>3, <1>4 DEF TssInv, Types
  <2> QED BY <1>2, <2>1, TakeIs DEF TssInv, Types
<1>8. Known'
  <2> SUFFICES ASSUME NEW p \in Members
               PROVE  /\ CommitsThen(m)[m] = joins[m] /\ RosterThen(m)[m] = joins[m]
                      /\ CommitsThen(m)[p] <= joins[p]
                      /\ RosterThen(m)[p] \in {0, CommitsThen(m)[p]}
    BY <1>1 DEF TssInv, Known
  <2>1. CommitsThen(m)[m] = joins[m] /\ RosterThen(m)[m] = joins[m]
    BY <1>1, TakenAre DEF TssInv, Known
  <2>2. CommitsThen(m)[p] <= joins[p]
    <3>1. CASE CommitsThen(m)[p] = commits[m][p]
      BY <3>1 DEF TssInv, Known
    <3>2. CASE \E x \in TakenNow(m) : From(x) = p /\ CommitsThen(m)[p] = x.key
      BY <1>2, <3>2
    <3> QED BY <3>1, <3>2, TakenAre
  <2>3. RosterThen(m)[p] \in {0, CommitsThen(m)[p]}
    <3>1. CASE RosterThen(m)[p] = roster[m][p]
      BY <3>1, TakenAre DEF TssInv, Known
    <3>2. CASE AllCommitted(commits[m]) /\ RosterThen(m)[p] = commits[m][p]
      BY <1>6, <3>2
    <3> QED BY <3>1, <3>2, TakenAre
  <2> QED BY <2>1, <2>2, <2>3
<1>9. InOrder'
  <2> SUFFICES ASSUME NEW a \in Members
               PROVE  (confirmed[a] => HasCode(a)') /\ (seen'[a] # {} => confirmed[a])
    BY <1>1 DEF InOrder
  <2>1. CASE a # m
    <3>1. roster'[a] = roster[a] /\ seen'[a] = seen[a] /\ confirmed' = confirmed
      BY <1>1, <2>1
    <3>2. (confirmed[a] => HasCode(a)) /\ (seen[a] # {} => confirmed[a])
      BY DEF TssInv, InOrder
    <3> QED BY <3>1, <3>2 DEF HasCode
  <2>2. CASE a = m
    <3>1. confirmed[m] => HasCode(m)'
      BY <1>1, <1>6 DEF TssInv, InOrder, HasCode
    <3>2. SeenThen(m) # {} => confirmed[m]
      BY <1>4 DEF TssInv, InOrder
    <3> QED BY <1>1, <2>2, <3>1, <3>2
  <2> QED BY <2>1, <2>2
<1>10. SentOwn'
  <2> SUFFICES ASSUME NEW a \in Members, NEW x \in sent'[a]
               PROVE  /\ From(x) = a /\ x.key = joins[a]
                      /\ RoundOf(x) >= 1 => AllCommitted(commits'[a])
                      /\ RoundOf(x) >= 2 => confirmed[a] /\ x.view = roster'[a] /\ x.name[1] \in Rounds
    BY <1>1 DEF SentOwn, Rounds
  <2>1. CASE a # m
    BY <1>1, <2>1 DEF TssInv, SentOwn
  <2>2. CASE a = m /\ x \in sent[m]
    BY <1>1, <1>6, <2>2 DEF TssInv, SentOwn
  <2>3. CASE a = m /\ x \notin sent[m]
    <3>1. x.name \in Answers(m, SeenThen(m)) => x.name[1] \in Rounds
      BY AnswersAre, KindFacts DEF TssInv
    <3>2. x \in SentThen(m) \ sent[m] /\ roster'[a] = RosterThen(m) /\ commits'[a] = CommitsThen(m)
      BY <1>1, <2>3
    <3>3. CASE RoundOf(x) = 1 /\ AllCommitted(CommitsThen(m))
      BY <1>3, <2>3, <3>2, <3>3
    <3>4. CASE confirmed[m] /\ x.view = roster[m] /\ x.name \in Answers(m, SeenThen(m))
      BY <1>3, <1>6, <2>3, <3>1, <3>2, <3>4
    <3> QED BY <1>3, <3>2, <3>3, <3>4
  <2> QED BY <2>1, <2>2, <2>3
<1>11. MailPosted'
  <2>1. \A a \in Members : sent[a] \subseteq sent'[a]
    BY <1>1, <1>3
  <2>2. ASSUME NEW X \in SUBSET Message, Posted(X), NEW Y \in SUBSET X PROVE Posted(Y)'
    BY <1>1, <2>1, <2>2, MessageShape DEF Posted
  <2>3. card \in SUBSET Message /\ \A a \in Members : inbox[a] \in SUBSET Message
    BY DEF TssInv, Types
  <2>4. Posted(card)'
    <3>1. Posted(card) /\ card' = card
      BY <1>1 DEF TssInv, MailPosted
    <3> QED BY <1>1, <2>1, <2>3, <3>1, MessageShape DEF Posted
  <2>5. ASSUME NEW a \in Members PROVE Posted(inbox[a])'
    <3>1. Posted(inbox[a]) /\ inbox'[a] \subseteq inbox[a]
      BY <1>1 DEF TssInv, MailPosted
    <3> QED BY <1>1, <2>1, <2>3, <3>1, MessageShape DEF Posted
  <2> QED BY <2>4, <2>5 DEF MailPosted
<1>12. TakenSent'
  <2> SUFFICES ASSUME NEW a \in Members, NEW p \in Members, p # a, roster'[a][p] = joins[p]
               PROVE  /\ roster'[a][p] # 0 => \E y \in sent'[p] : RoundOf(y) = 1
                      /\ \A n \in seen'[a] : n[2] = p =>
                           n[1] >= 2 /\ \E y \in sent'[p] : y.name = n /\ y.view = roster'[a]
    BY <1>1 DEF TakenSent
  <2>1. sent[p] \subseteq sent'[p]
    BY <1>1, <1>3
  <2>2. CASE a # m
    BY <1>1, <2>1, <2>2 DEF TssInv, TakenSent
  <2>3. CASE a = m
    <3>1. roster'[m][p] # 0 => \E y \in sent'[p] : RoundOf(y) = 1
      <4>1. CASE RosterThen(m)[p] = roster[m][p]
        BY <1>1, <2>1, <2>3, <4>1 DEF TssInv, TakenSent
      <4>2. CASE \E x \in TakenNow(m) : From(x) = p /\ RoundOf(x) = 1 /\ RosterThen(m)[p] = x.key
        BY <1>1, <1>2, <2>1, <2>3, <4>2
      <4> QED BY <4>1, <4>2, TakenAre
    <3>2. ASSUME NEW n \in seen'[m], n[2] = p
          PROVE  n[1] >= 2 /\ \E y \in sent'[p] : y.name = n /\ y.view = roster'[m]
      <4>1. confirmed[m] /\ roster'[m] = roster[m]
        BY <1>1, <1>4, <1>6, <3>2 DEF TssInv, InOrder
      <4>2. CASE n \in seen[m]
        <5>1. roster[m][p] = joins[p]
          BY <2>3, <4>1
        <5>2. n[1] >= 2 /\ \E y \in sent[p] : y.name = n /\ y.view = roster[m]
          <6>1. \A k \in seen[m] : k[2] = p =>
                  k[1] >= 2 /\ \E y \in sent[p] : y.name = k /\ y.view = roster[m]
            BY <2>3, <5>1 DEF TssInv, TakenSent
          <6> QED BY <3>2, <4>2, <6>1
        <5> QED BY <2>1, <4>1, <5>2
      <4>3. CASE n \notin seen[m]
        <5>1. PICK x \in TakenNow(m) : x.name = n /\ Genuine(m, x) /\ n[1] >= 2
          BY <1>1, <1>4, <4>3
        <5>2. From(x) = p /\ x.key = joins[p] /\ x.view = roster[m]
          BY <2>3, <3>2, <4>1, <5>1 DEF From, Genuine
        <5> QED BY <1>2, <2>1, <4>1, <5>1, <5>2
      <4> QED BY <4>2, <4>3
    <3> QED BY <2>3, <3>1, <3>2
  <2> QED BY <2>2, <2>3
<1>13. RoundsInOrder'
  <2> SUFFICES ASSUME OneLane, NEW a \in Members, NEW x \in sent'[a],
                      NEW n \in Expected[family][a], n[1] < RoundOf(x)
               PROVE  n \in seen'[a]
    BY <1>1 DEF RoundsInOrder, OneLane
  <2>1. family \in Families /\ n[1] \in 2 .. LastRound[family]
    BY KindFacts, ExpectedIs DEF TssInv
  <2>2. CASE a # m
    BY <1>1, <2>2 DEF TssInv, RoundsInOrder
  <2>3. CASE a = m /\ x \in sent[m]
    BY <1>1, <1>5, <2>3 DEF TssInv, RoundsInOrder
  <2>4. CASE a = m /\ x \notin sent[m]
    <3>1. x \in Message
      BY <1>1, <1>3, <2>4
    <3>2. RoundOf(x) # 1
      <4>1. RoundOf(x) \in 0 .. 6 /\ LastRound[family] \in {3, 6}
        BY <2>1, <3>1, MessageShape, Schedule
      <4> QED BY <2>1, <4>1
    <3>3. x.name \in Answers(m, SeenThen(m)) /\ x.name[1] = RoundOf(x)
      BY <1>1, <1>3, <2>4, <3>2 DEF RoundOf
    <3> QED BY <1>1, <2>1, <2>4, <3>3, AnswersAre
  <2> QED BY <2>2, <2>3, <2>4
<1> QED BY <1>7, <1>8, <1>9, <1>10, <1>11, <1>12, <1>13 DEF TssInv

-----------------------------------------------------------------------------
(* The other steps. *)

LEMMA OwnAlone ==
  ASSUME SessionAssumption, NEW m \in Members, NEW k \in Keys
  PROVE  /\ OnlyOwn(m, k) \in Views
         /\ \A p \in Members : OnlyOwn(m, k)[p] = IF p = m THEN k ELSE 0
  BY DEF OnlyOwn, NoView, Views, Keys, SessionAssumption

(* A first message of its own. *)
LEMMA FirstMessage ==
  ASSUME SessionAssumption, NEW m \in Members, NEW k \in Keys \ {0},
         NEW x, x = [name |-> <<0, m, All>>, key |-> k, view |-> NoView]
  PROVE  x \in Message /\ From(x) = m /\ RoundOf(x) = 0 /\ x.key = k
<1>1. NoView \in Views /\ <<0, m, All>> \in Names
  BY DEF NoView, Views, Keys, SessionAssumption, Names
<1> QED BY <1>1 DEF Message, From, RoundOf

LEMMA InitHolds == ASSUME SessionAssumption, Init PROVE TssInv
<1> DEFINE first == Introduction(Starter, 0)
<1>1. Starter \in Members /\ 1 \in Keys \ {0} /\ 0 \in Keys
  BY DEF SessionAssumption, Keys
<1>2. /\ joins \in [Members -> Keys]
      /\ \A m \in Members : joins[m] = IF m = Starter THEN 1 ELSE 0
      /\ commits \in [Members -> Views] /\ roster = commits
      /\ \A m, p \in Members : commits[m][p] = IF m = Starter /\ p = Starter THEN 1 ELSE 0
  BY <1>1 DEF Init, Views
<1>3. first \in Message /\ From(first) = Starter /\ RoundOf(first) = 0 /\ first.key = 1
  <2>1. first = [name |-> <<0, Starter, All>>, key |-> 1, view |-> NoView]
    BY <1>1, <1>2 DEF Introduction
  <2> QED BY <1>1, <2>1, FirstMessage
<1>4. /\ \A m \in Members : sent[m] = IF m = Starter THEN {first} ELSE {}
      /\ \A m \in Members : inbox[m] = {} /\ seen[m] = {} /\ confirmed[m] = FALSE
      /\ card = {}
  BY DEF Init
<1> HIDE DEF first
<1>5. Types
  <2>1. <<family, way>> \in Kinds
    BY DEF Init, SessionAssumption
  <2>2. /\ sent \in [Members -> SUBSET Message] /\ inbox \in [Members -> SUBSET Message]
        /\ seen \in [Members -> SUBSET Names] /\ confirmed \in [Members -> BOOLEAN]
    BY <1>3 DEF Init, first
  <2> QED BY <1>2, <1>4, <2>1, <2>2 DEF Types
<1>6. Known
  BY <1>2 DEF Known
<1>7. InOrder /\ MailPosted
  BY <1>4 DEF InOrder, MailPosted, Posted
<1>8. SentOwn
  <2> SUFFICES ASSUME NEW x \in sent[Starter]
               PROVE  From(x) = Starter /\ x.key = joins[Starter] /\ RoundOf(x) = 0
    BY <1>4 DEF SentOwn
  <2> QED BY <1>1, <1>2, <1>3, <1>4
<1>9. TakenSent
  <2> SUFFICES ASSUME NEW m \in Members, NEW p \in Members, p # m
               PROVE  roster[m][p] = 0
    BY <1>4 DEF TakenSent
  <2> QED BY <1>2
<1>10. RoundsInOrder
  <2> SUFFICES ASSUME NEW m \in Members, NEW x \in sent[m], NEW n \in Expected[family][m], n[1] < RoundOf(x)
               PROVE  FALSE
    BY DEF RoundsInOrder, OneLane
  <2>1. RoundOf(x) = 0
    BY <1>3, <1>4
  <2>2. family \in Families /\ n[1] \in 2 .. LastRound[family]
    BY <1>5, KindFacts, ExpectedIs
  <2> QED BY <2>1, <2>2
<1> QED BY <1>5, <1>6, <1>7, <1>8, <1>9, <1>10 DEF TssInv

(* A member joins (again): whatever was known of it is of an older key. *)
LEMMA JoinPreserves ==
  ASSUME SessionAssumption, TssInv, NEW m \in Members, Join(m)
  PROVE  TssInv'
<1> DEFINE k == joins[m] + 1
           hello == [name |-> <<0, m, All>>, key |-> k, view |-> NoView]
<1>1. k \in Keys \ {0} /\ k > joins[m] /\ m # Starter
  <2>1. joins[m] \in Nat /\ joins[m] < MaxJoins /\ MaxJoins \in Nat
    BY KeysAreNats DEF Join, TssInv, SessionAssumption
  <2> QED BY <2>1 DEF Keys, Join
<1>2. hello \in Message /\ From(hello) = m /\ RoundOf(hello) = 0 /\ hello.key = k
  BY <1>1, FirstMessage
<1>3. /\ joins' = [joins EXCEPT ![m] = k]
      /\ commits' = [commits EXCEPT ![m] = OnlyOwn(m, k)]
      /\ roster' = [roster EXCEPT ![m] = OnlyOwn(m, k)]
      /\ sent' = [sent EXCEPT ![m] = {hello}]
      /\ confirmed' = [confirmed EXCEPT ![m] = FALSE]
      /\ seen' = [seen EXCEPT ![m] = {}]
      /\ inbox' = [inbox EXCEPT ![m] = IF way = "qr" THEN Code(Starter, m) ELSE {}]
      /\ UNCHANGED <<family, way, card>>
  BY DEF Join
<1> HIDE DEF hello, k
<1>4. Code(Starter, m) \subseteq sent[Starter] /\ Starter \in Members
  BY DEF Code, SessionAssumption
<1>5. /\ \A a \in Members : joins'[a] = IF a = m THEN k ELSE joins[a]
      /\ \A a \in Members : commits'[a] = IF a = m THEN OnlyOwn(m, k) ELSE commits[a]
      /\ \A a \in Members : roster'[a] = IF a = m THEN OnlyOwn(m, k) ELSE roster[a]
      /\ \A a \in Members : sent'[a] = IF a = m THEN {hello} ELSE sent[a]
      /\ \A a \in Members : confirmed'[a] = IF a = m THEN FALSE ELSE confirmed[a]
      /\ \A a \in Members : seen'[a] = IF a = m THEN {} ELSE seen[a]
      /\ \A a \in Members : a # m => inbox'[a] = inbox[a]
      /\ inbox'[m] \subseteq sent[Starter]
  BY <1>3, <1>4 DEF TssInv, Types
<1>6. OnlyOwn(m, k) \in Views /\ \A p \in Members : OnlyOwn(m, k)[p] = IF p = m THEN k ELSE 0
  BY <1>1, OwnAlone
<1>7. Types'
  <2>1. Code(Starter, m) \subseteq Message
    BY <1>4 DEF TssInv, Types
  <2> QED BY <1>1, <1>2, <1>3, <1>6, <2>1 DEF TssInv, Types
<1>8. Known'
  <2> SUFFICES ASSUME NEW a \in Members, NEW p \in Members
               PROVE  /\ commits'[a][a] = joins'[a] /\ roster'[a][a] = joins'[a]
                      /\ commits'[a][p] <= joins'[p]
                      /\ roster'[a][p] \in {0, commits'[a][p]}
    BY DEF Known
  <2>1. joins[p] \in Nat /\ commits[a][p] \in Nat /\ joins[m] \in Nat /\ k \in Nat
    BY <1>1, KeysAreNats DEF TssInv, Keys
  <2> QED BY <1>1, <1>5, <1>6, <2>1 DEF TssInv, Known
<1>9. InOrder'
  <2> SUFFICES ASSUME NEW a \in Members
               PROVE  (confirmed'[a] => HasCode(a)') /\ (seen'[a] # {} => confirmed'[a])
    BY DEF InOrder
  <2>1. CASE a # m
    <3>1. roster'[a] = roster[a] /\ seen'[a] = seen[a] /\ confirmed'[a] = confirmed[a]
      BY <1>5, <2>1
    <3>2. (confirmed[a] => HasCode(a)) /\ (seen[a] # {} => confirmed[a])
      BY DEF TssInv, InOrder
    <3> QED BY <3>1, <3>2 DEF HasCode
  <2> QED BY <1>5, <2>1
<1>10. SentOwn'
  <2> SUFFICES ASSUME NEW a \in Members, NEW x \in sent'[a]
               PROVE  /\ From(x) = a /\ x.key = joins'[a]
                      /\ RoundOf(x) >= 1 => AllCommitted(commits'[a])
                      /\ RoundOf(x) >= 2 => confirmed'[a] /\ x.view = roster'[a] /\ x.name[1] \in Rounds
    BY <1>3 DEF SentOwn, Rounds
  <2>1. CASE a # m
    <3>1. /\ x \in sent[a] /\ joins'[a] = joins[a] /\ commits'[a] = commits[a]
          /\ roster'[a] = roster[a] /\ confirmed'[a] = confirmed[a]
      BY <1>5, <2>1
    <3>2. /\ From(x) = a /\ x.key = joins[a]
          /\ RoundOf(x) >= 1 => AllCommitted(commits[a])
          /\ RoundOf(x) >= 2 => confirmed[a] /\ x.view = roster[a] /\ x.name[1] \in Rounds
      BY <3>1 DEF TssInv, SentOwn
    <3> QED BY <3>1, <3>2
  <2>2. CASE a = m
    BY <1>2, <1>5, <2>2
  <2> QED BY <2>1, <2>2
<1>11. MailPosted'
  <2>1. ASSUME NEW x \in Message, x.key <= joins[From(x)], x.key = joins[From(x)] => x \in sent[From(x)]
        PROVE  x.key <= joins'[From(x)] /\ (x.key = joins'[From(x)] => x \in sent'[From(x)])
    <3>1. x.key \in Nat /\ From(x) \in Members /\ joins[m] \in Nat /\ k \in Nat
      BY <1>1, MessageShape, KeysAreNats DEF TssInv, Keys
    <3>2. CASE From(x) = m
      <4>1. joins'[From(x)] = k /\ x.key <= joins[m]
        BY <1>5, <2>1, <3>2
      <4> QED BY <1>1, <3>1, <4>1
    <3>3. CASE From(x) # m
      BY <1>5, <2>1, <3>1, <3>3
    <3> QED BY <3>2, <3>3
  <2>2. Posted(card)'
    <3>1. Posted(card) /\ card \subseteq Message /\ card' = card
      BY <1>3 DEF TssInv, MailPosted, Types
    <3> QED BY <2>1, <3>1 DEF Posted
  <2>3. ASSUME NEW a \in Members PROVE Posted(inbox[a])'
    <3>1. CASE a # m
      <4>1. Posted(inbox[a]) /\ inbox[a] \subseteq Message /\ inbox'[a] = inbox[a]
        BY <1>5, <3>1 DEF TssInv, MailPosted, Types
      <4> QED BY <2>1, <4>1 DEF Posted
    <3>2. CASE a = m
      <4> SUFFICES ASSUME NEW x \in sent[Starter]
                   PROVE  x.key <= joins'[From(x)] /\ (x.key = joins'[From(x)] => x \in sent'[From(x)])
        BY <1>5, <3>2 DEF Posted
      <4>1. x \in Message /\ From(x) = Starter /\ x.key = joins[Starter] /\ joins[Starter] \in Nat
        BY <1>4, KeysAreNats DEF TssInv, Types, SentOwn
      <4> QED BY <1>4, <2>1, <4>1
    <3> QED BY <3>1, <3>2
  <2> QED BY <2>2, <2>3 DEF MailPosted
<1>12. TakenSent'
  <2> SUFFICES ASSUME NEW a \in Members, NEW p \in Members, p # a, roster'[a][p] = joins'[p]
               PROVE  /\ roster'[a][p] # 0 => \E y \in sent'[p] : RoundOf(y) = 1
                      /\ \A n \in seen'[a] : n[2] = p =>
                           n[1] >= 2 /\ \E y \in sent'[p] : y.name = n /\ y.view = roster'[a]
    BY DEF TakenSent
  <2>1. CASE a = m
    BY <1>5, <1>6, <2>1
  <2>2. a # m => p # m
    <3>1. roster[a][p] \in Nat /\ commits[a][p] \in Nat /\ joins[p] \in Nat /\ k \in Nat
          /\ commits[a][p] <= joins[p] /\ roster[a][p] \in {0, commits[a][p]}
      BY <1>1, KeysAreNats DEF TssInv, Keys, Known
    <3> QED BY <1>1, <1>5, <3>1
  <2>3. CASE a # m /\ p # m
    <3>1. roster'[a] = roster[a] /\ seen'[a] = seen[a] /\ sent'[p] = sent[p] /\ joins'[p] = joins[p]
      BY <1>5, <2>3
    <3>2. roster[a][p] = joins[p]
      BY <3>1
    <3>3. /\ roster[a][p] # 0 => \E y \in sent[p] : RoundOf(y) = 1
          /\ \A n \in seen[a] : n[2] = p =>
               n[1] >= 2 /\ \E y \in sent[p] : y.name = n /\ y.view = roster[a]
      BY <3>2 DEF TssInv, TakenSent
    <3> QED BY <3>1, <3>3
  <2> QED BY <2>1, <2>2, <2>3
<1>13. RoundsInOrder'
  <2> SUFFICES ASSUME OneLane, NEW a \in Members, NEW x \in sent'[a],
                      NEW n \in Expected[family][a], n[1] < RoundOf(x)
               PROVE  n \in seen'[a]
    BY <1>3 DEF RoundsInOrder, OneLane
  <2>1. n[1] \in 2 .. LastRound[family]
    BY KindFacts, ExpectedIs DEF TssInv
  <2>2. CASE a = m
    BY <1>2, <1>5, <2>1, <2>2
  <2>3. CASE a # m
    BY <1>5, <2>3 DEF TssInv, RoundsInOrder
  <2> QED BY <2>2, <2>3
<1> QED BY <1>7, <1>8, <1>9, <1>10, <1>11, <1>12, <1>13 DEF TssInv

(* What is written on the card, or scanned, was sent. *)
LEMMA SentIsPosted ==
  ASSUME TssInv, NEW m \in Members, NEW X \in SUBSET sent[m]
  PROVE  Posted(X) /\ X \subseteq Message
<1>1. \A x \in sent[m] : x \in Message /\ From(x) = m /\ x.key = joins[m]
  BY DEF TssInv, SentOwn, Types
<1>2. joins[m] <= joins[m]
  BY DEF TssInv, Types, Keys
<1> QED BY <1>1, <1>2 DEF Posted

LEMMA CarriedPreserves ==
  ASSUME TssInv, UNCHANGED <<family, way, intro, confirmed, seen, sent>>,
         card' \subseteq Message, Posted(card'),
         inbox' \in [Members -> SUBSET Message], \A m \in Members : Posted(inbox'[m])
  PROVE  TssInv'
<1>1. Types' /\ MailPosted'
  BY DEF intro, TssInv, Types, MailPosted, Posted
<1>2. Known' /\ InOrder' /\ TakenSent'
  BY DEF intro, TssInv, Known, InOrder, HasCode, TakenSent
<1>3. SentOwn'
  BY DEF intro, TssInv, SentOwn, Rounds
<1>4. RoundsInOrder'
  BY DEF TssInv, RoundsInOrder, OneLane
<1> QED BY <1>1, <1>2, <1>3, <1>4 DEF TssInv

LEMMA WritePreserves ==
  ASSUME SessionAssumption, TssInv, NEW m \in Members, Write(m)
  PROVE  TssInv'
<1>1. PICK part \in SUBSET Unwritten(m) : card' = card \cup part
  BY DEF Write
<1>2. part \in SUBSET sent[m]
  BY DEF Unwritten
<1>3. Posted(part) /\ part \subseteq Message
  BY <1>2, SentIsPosted
<1>4. Posted(card') /\ card' \subseteq Message
  BY <1>1, <1>3 DEF Posted, TssInv, MailPosted, Types
<1>5. inbox \in [Members -> SUBSET Message] /\ \A a \in Members : Posted(inbox[a])
  BY DEF TssInv, MailPosted, Types
<1> QED BY <1>4, <1>5, CarriedPreserves DEF Write

LEMMA ScanPreserves ==
  ASSUME SessionAssumption, TssInv, NEW m \in Members, NEW p \in Members, Scan(m, p)
  PROVE  TssInv'
<1> DEFINE X == Scanned(m, Code(p, m))
<1>1. X \in SUBSET sent[p]
  BY DEF Scanned, Code
<1>2. Posted(X) /\ X \subseteq Message
  BY <1>1, SentIsPosted
<1>3. inbox' = [inbox EXCEPT ![m] = @ \cup X] /\ UNCHANGED <<family, way, intro, confirmed, seen, sent, card>>
  BY DEF Scan
<1> HIDE DEF X
<1>4. inbox' \in [Members -> SUBSET Message]
  BY <1>2, <1>3 DEF TssInv, Types
<1>5. ASSUME NEW a \in Members PROVE Posted(inbox'[a])
  <2>1. inbox'[a] \subseteq inbox[a] \cup X
    BY <1>3 DEF TssInv, Types
  <2> QED BY <1>2, <2>1 DEF Posted, TssInv, MailPosted
<1>6. card' \subseteq Message /\ Posted(card')
  BY <1>3 DEF Posted, TssInv, MailPosted, Types
<1> QED BY <1>3, <1>4, <1>5, <1>6, CarriedPreserves

LEMMA ConfirmPreserves ==
  ASSUME SessionAssumption, TssInv, NEW m \in Members, Confirm(m)
  PROVE  TssInv'
<1>1. HasCode(m) /\ ~confirmed[m] /\ seen[m] = {} /\ AllCommitted(commits[m])
  <2>1. HasCode(m) /\ ~confirmed[m]
    BY DEF Confirm
  <2> QED BY <2>1 DEF TssInv, InOrder, HasCode, AllCommitted, Known
<1>2. joins[m] # 0
  BY <1>1 DEF HasCode, TssInv, Known
<1>3. \A x \in Sealed(m, {}) :
        /\ x \in Message /\ From(x) = m /\ RoundOf(x) >= 2
        /\ x.key = joins[m] /\ x.view = roster[m] /\ x.name \in Answers(m, {})
  BY <1>2, SealedAre DEF TssInv
<1>4. /\ confirmed' = [confirmed EXCEPT ![m] = TRUE]
      /\ sent' = [sent EXCEPT ![m] = @ \cup Sealed(m, {})]
      /\ UNCHANGED <<family, way, intro, seen, inbox, card>>
  BY DEF Confirm
<1>5. /\ \A a \in Members : confirmed'[a] = IF a = m THEN TRUE ELSE confirmed[a]
      /\ \A a \in Members : sent'[a] = IF a = m THEN sent[m] \cup Sealed(m, {}) ELSE sent[a]
      /\ UNCHANGED <<joins, commits, roster>>
  BY <1>4 DEF TssInv, Types, intro
<1>6. Types' /\ Known'
  BY <1>3, <1>4, <1>5 DEF TssInv, Types, Known
<1>7. InOrder'
  <2> SUFFICES ASSUME NEW a \in Members
               PROVE  (confirmed'[a] => HasCode(a)') /\ (seen'[a] # {} => confirmed'[a])
    BY DEF InOrder
  <2>1. HasCode(a)' <=> HasCode(a)
    BY <1>5 DEF HasCode
  <2> QED BY <1>1, <1>4, <1>5, <2>1 DEF TssInv, InOrder
<1>8. SentOwn'
  <2> SUFFICES ASSUME NEW a \in Members, NEW x \in sent'[a]
               PROVE  /\ From(x) = a /\ x.key = joins[a]
                      /\ RoundOf(x) >= 1 => AllCommitted(commits[a])
                      /\ RoundOf(x) >= 2 => confirmed'[a] /\ x.view = roster[a] /\ x.name[1] \in Rounds
    BY <1>4, <1>5 DEF SentOwn, Rounds
  <2>1. CASE x \in sent[a]
    BY <1>1, <1>5, <2>1 DEF TssInv, SentOwn
  <2>2. CASE x \notin sent[a]
    <3>1. a = m /\ x \in Sealed(m, {})
      BY <1>5, <2>2
    <3>2. x.name[1] \in Rounds
      BY <1>3, <3>1, AnswersAre, KindFacts DEF TssInv
    <3> QED BY <1>1, <1>3, <1>5, <3>1, <3>2
  <2> QED BY <2>1, <2>2
<1>9. MailPosted'
  <2>1. /\ \A a \in Members : sent[a] \subseteq sent'[a]
        /\ \A a \in Members : inbox[a] \subseteq Message /\ Posted(inbox[a])
        /\ card \subseteq Message /\ Posted(card)
    BY <1>5 DEF TssInv, Types, MailPosted
  <2> QED BY <1>4, <1>5, <2>1, MessageShape DEF MailPosted, Posted
<1>10. TakenSent'
  <2>1. \A a \in Members : sent[a] \subseteq sent'[a]
    BY <1>5
  <2> QED BY <1>4, <1>5, <2>1 DEF TssInv, TakenSent
<1>11. RoundsInOrder'
  <2> SUFFICES ASSUME OneLane, NEW a \in Members, NEW x \in sent'[a],
                      NEW n \in Expected[family][a], n[1] < RoundOf(x)
               PROVE  n \in seen[a]
    BY <1>4 DEF RoundsInOrder, OneLane
  <2>1. CASE x \in sent[a]
    BY <2>1 DEF TssInv, RoundsInOrder
  <2>2. CASE x \notin sent[a]
    <3>1. a = m /\ x.name \in Answers(m, {}) /\ x.name[1] = RoundOf(x) /\ family \in Families
      BY <1>3, <1>5, <2>2, KindFacts DEF RoundOf, TssInv
    <3> QED BY <3>1, AnswersAre
  <2> QED BY <2>1, <2>2
<1> QED BY <1>6, <1>7, <1>8, <1>9, <1>10, <1>11 DEF TssInv

LEMMA NextHolds == ASSUME SessionAssumption, TssInv, [Next]_vars PROVE TssInv'
<1>1. ASSUME NEW m \in Members, Join(m) \/ Write(m) \/ Take(m) \/ Confirm(m) PROVE TssInv'
  BY <1>1, JoinPreserves, WritePreserves, TakePreserves, ConfirmPreserves
<1>2. ASSUME NEW m \in Members, NEW p \in Others(m), Scan(m, p) PROVE TssInv'
  BY <1>2, ScanPreserves DEF Others
<1>3. CASE UNCHANGED vars
  <2>1. card \subseteq Message /\ Posted(card) /\ inbox \in [Members -> SUBSET Message]
        /\ \A m \in Members : Posted(inbox[m])
    BY DEF TssInv, Types, MailPosted
  <2> QED BY <1>3, <2>1, CarriedPreserves DEF vars
<1> QED BY <1>1, <1>2, <1>3 DEF Next

LEMMA Invariant == Spec => []TssInv
<1>1. Init => TssInv
  BY InitHolds, SessionAssumption
<1>2. TssInv /\ [Next]_vars => TssInv'
  BY NextHolds, SessionAssumption
<1> QED BY <1>1, <1>2, PTL DEF Spec

-----------------------------------------------------------------------------
(* The properties. *)

(* Whoever a member has run the protocol with has confirmed the very keys it
   has, whatever restarts and stale messages there were, for any number of
   members and joinings. *)
THEOREM MembersAreInOneSession == Spec => []SameSession
<1>1. TssInv => SameSession
  <2> SUFFICES ASSUME TssInv, NEW m \in Members, NEW p \in Members,
                      confirmed[m], joins[p] = roster[m][p], NEW n \in seen[m], n[2] = p
               PROVE  confirmed[p] /\ roster[p] = roster[m]
    BY DEF SameSession
  <2>1. CASE p = m
    BY <2>1
  <2>2. CASE p # m
    <3>1. \A k \in seen[m] : k[2] = p => k[1] >= 2 /\ \E y \in sent[p] : y.name = k /\ y.view = roster[m]
      BY <2>2 DEF TssInv, TakenSent
    <3>2. PICK y \in sent[p] : y.name = n /\ y.view = roster[m] /\ n[1] >= 2
      BY <3>1
    <3>3. RoundOf(y) >= 2
      BY <3>2 DEF RoundOf
    <3> QED BY <3>2, <3>3 DEF TssInv, SentOwn
  <2> QED BY <2>1, <2>2
<1> QED BY <1>1, Invariant, PTL

(* Whoever has seen a member's identity can no longer choose a key it will
   accept. *)
THEOREM KeysAreFixedBeforeReveal == Spec => FixedBeforeReveal
<1> DEFINE Fixed ==
      \A m \in Members : (\E x \in sent[m] : RoundOf(x) = 1) /\ joins'[m] = joins[m] =>
        /\ commits'[m] = commits[m]
        /\ \A p \in Members : roster'[m][p] \in {0, commits[m][p]}
<1>1. TssInv /\ TssInv' /\ [Next]_vars => [Fixed]_vars
  <2> SUFFICES ASSUME TssInv, TssInv', Next, NEW m \in Members, NEW x \in sent[m],
                      RoundOf(x) = 1, joins'[m] = joins[m]
               PROVE  commits'[m] = commits[m] /\ \A p \in Members : roster'[m][p] \in {0, commits[m][p]}
    OBVIOUS
  <2>1. AllCommitted(commits[m])
    BY DEF TssInv, SentOwn
  <2>2. commits'[m] = commits[m]
    <3>1. ASSUME NEW a \in Members, Join(a) PROVE commits'[m] = commits[m]
      <4>1. joins' = [joins EXCEPT ![a] = joins[a] + 1] /\ commits' = [commits EXCEPT ![a] = OnlyOwn(a, joins[a] + 1)]
        BY <3>1 DEF Join
      <4>2. a # m
        <5>1. joins[m] \in Nat /\ joins \in [Members -> Keys]
          BY KeysAreNats, SessionAssumption DEF TssInv, Types
        <5> QED BY <4>1, <5>1
      <4> QED BY <4>1, <4>2 DEF TssInv, Types
    <3>2. ASSUME NEW a \in Members, Take(a) PROVE commits'[m] = commits[m]
      <4>1. commits' = [commits EXCEPT ![a] = CommitsThen(a)]
        BY <3>2, TakeIs
      <4>2. a = m => CommitsThen(a) = commits[m]
        BY <2>1, CommitsStay, SessionAssumption
      <4> QED BY <4>1, <4>2 DEF TssInv, Types
    <3>3. ASSUME NEW a \in Members, NEW p \in Members, Write(a) \/ Confirm(a) \/ Scan(a, p)
          PROVE  commits'[m] = commits[m]
      BY <3>3 DEF Write, Confirm, Scan, intro
    <3> QED BY <3>1, <3>2, <3>3 DEF Next, Others
  <2> QED BY <2>2 DEF TssInv, Known
<1> QED BY <1>1, Invariant, PTL DEF Spec, FixedBeforeReveal

(* With nobody restarted there is one key each. *)
LEMMA KeysAreOne ==
  ASSUME SessionAssumption, TssInv, NobodyRestarted, NEW m \in Members, NEW p \in Members
  PROVE  /\ commits[m][p] # 0 => commits[m][p] = 1 /\ joins[p] = 1
         /\ roster[m][p] # 0 => roster[m][p] = 1 /\ joins[p] = 1
<1>1. joins[p] \in Nat /\ joins[p] <= 1 /\ commits[m][p] \in Nat
  BY KeysAreNats DEF TssInv, NobodyRestarted
<1>2. commits[m][p] <= joins[p] /\ roster[m][p] \in {0, commits[m][p]}
  BY DEF TssInv, Known
<1> QED BY <1>1, <1>2

(* What is awaited, by how far a member is. *)
LEMMA AwaitedIs ==
  ASSUME SessionAssumption, TssInv, NEW m \in Members, NEW n \in Awaiting(m)
  PROVE  \/ \E p \in Members : n = <<0, p, All>> /\ commits[m][p] = 0 /\ joins[m] # 0
         \/ \E p \in Members : n = <<1, p, All>> /\ roster[m][p] = 0 /\ AllCommitted(commits[m]) /\ ~HasCode(m)
                                 /\ joins[m] # 0
         \/ /\ HasCode(m) /\ confirmed[m] /\ n \in Expected[family][m] /\ n \notin seen[m]
            /\ n[1] \in Rounds /\ n[2] \in Others(m) /\ n[3] \in {All, m}
<1>1. joins[m] # 0
  BY DEF Awaiting
<1>2. CASE ~HasCode(m)
  BY <1>1, <1>2 DEF Awaiting, IntroductionsAwaited
<1>3. CASE HasCode(m)
  <2>1. confirmed[m] /\ n \in Expected[family][m] /\ n \notin seen[m]
    BY <1>1, <1>3 DEF Awaiting
  <2> QED BY <1>3, <2>1, KindFacts, ExpectedIs DEF TssInv, Rounds
<1> QED BY <1>2, <1>3

(* A driver that follows awaiting is refused nothing in a session nobody
   restarted. *)
THEOREM NothingIsRefused == Spec => []NothingRefused
<1>1. TssInv => NothingRefused
  <2> SUFFICES ASSUME TssInv, NobodyRestarted, NEW m \in Members, NEW x \in Got(m)
               PROVE  Accepts(m, x)
    BY DEF NothingRefused
  <2>1. x.name \in Awaiting(m) /\ x \in Message /\ x.key <= joins[From(x)]
        /\ (x.key = joins[From(x)] => x \in sent[From(x)])
    BY MediumPosted DEF Got, TssInv, Posted
  <2>2. From(x) \in Members /\ x.key = 1 /\ joins[From(x)] = 1 /\ x \in sent[From(x)] /\ RoundOf(x) \in 0 .. 6
    <3>1. From(x) \in Members /\ x.key \in Nat \ {0} /\ joins[From(x)] \in Nat /\ joins[From(x)] <= 1
          /\ RoundOf(x) \in 0 .. 6
      BY <2>1, MessageShape, KeysAreNats, SessionAssumption DEF TssInv, NobodyRestarted
    <3> QED BY <2>1, <3>1
  <2>3. ASSUME NEW p \in Members, x.name = <<0, p, All>>, commits[m][p] = 0 PROVE Accepts(m, x)
    BY <2>3 DEF Accepts, RoundOf, From
  <2>4. ASSUME NEW p \in Members, x.name = <<1, p, All>>, roster[m][p] = 0, AllCommitted(commits[m])
        PROVE  Accepts(m, x)
    <3>1. RoundOf(x) = 1 /\ From(x) = p
      BY <2>4 DEF RoundOf, From
    <3>2. commits[m][p] = 1
      BY <2>4, KeysAreOne, SessionAssumption DEF AllCommitted
    <3> QED BY <2>2, <2>4, <3>1, <3>2 DEF Accepts
  <2>5. ASSUME HasCode(m), confirmed[m], x.name \notin seen[m], x.name[1] \in Rounds
        PROVE  Accepts(m, x)
    <3>1. RoundOf(x) >= 2 /\ RoundOf(x) \notin {0, 1}
      <4>1. x.name[1] \in 2 .. 6
        BY <2>5, KindFacts, Schedule, SessionAssumption DEF Rounds, TssInv
      <4> QED BY <4>1 DEF RoundOf
    <3>2. confirmed[From(x)] /\ x.view = roster[From(x)]
      BY <2>2, <3>1 DEF TssInv, SentOwn
    <3>3. HasCode(From(x))
      BY <2>2, <3>2 DEF TssInv, InOrder
    <3>4. \A p \in Members : roster[m][p] = 1 /\ roster[From(x)][p] = 1
      BY <2>2, <2>5, <3>3, KeysAreOne, SessionAssumption DEF HasCode
    <3>5. roster[From(x)] = roster[m]
      <4>1. roster[From(x)] \in Views /\ roster[m] \in Views
        BY <2>2 DEF TssInv, Types
      <4> QED BY <3>4, <4>1, ViewsEqual
    <3>6. Genuine(m, x)
      BY <2>2, <3>2, <3>4, <3>5 DEF Genuine
    <3> QED BY <2>5, <3>1, <3>6 DEF Accepts
  <2> QED BY <2>1, <2>3, <2>4, <2>5, AwaitedIs, SessionAssumption
<1> QED BY <1>1, Invariant, PTL

(* In every round each member has something for every other. *)
LEMMA EveryRoundSends ==
  ASSUME SessionAssumption, NEW f \in Families, NEW m \in Members, NEW p \in Others(m),
         NEW r \in 2 .. LastRound[f]
  PROVE  \E n \in Expected[f][m] : n[1] = r /\ n[2] = p
<1>1. CASE r \in Broadcasts[f]
  <2>1. <<r, p, All>> \in Expected[f][m]
    BY <1>1, ExpectedIs
  <2> QED BY <2>1
<1>2. CASE r \in Unicasts[f]
  <2>1. <<r, p, m>> \in Expected[f][m]
    BY <1>2, ExpectedIs
  <2> QED BY <2>1
<1> QED BY <1>1, <1>2, Schedule

(* No member is two rounds ahead of what another awaits of it. *)
LEMMA NobodyFarAhead ==
  ASSUME SessionAssumption, TssInv, NobodyRestarted, OneLane,
         NEW m \in Members, NEW p \in Members, NEW x \in sent[p], x.name \in Awaiting(m),
         NEW y \in sent[p]
  PROVE  RoundOf(x) + 1 >= RoundOf(y)
<1> SUFFICES ASSUME ~ (RoundOf(x) + 1 >= RoundOf(y)) PROVE FALSE
  OBVIOUS
<1>1. RoundOf(x) \in 0 .. 6 /\ RoundOf(y) \in 0 .. 6 /\ RoundOf(y) >= RoundOf(x) + 2
  <2>1. x \in Message /\ y \in Message
    BY DEF TssInv, Types
  <2>2. RoundOf(x) \in 0 .. 6 /\ RoundOf(y) \in 0 .. 6
    BY <2>1, MessageShape
  <2> QED BY <2>2
<1>2. /\ From(x) = p /\ RoundOf(x) = x.name[1] /\ p = x.name[2]
      /\ confirmed[p] /\ HasCode(p) /\ RoundOf(y) \in Rounds
  <2>1. From(x) = p /\ RoundOf(y) >= 2
    <3>1. From(x) = p
      BY DEF TssInv, SentOwn
    <3>2. RoundOf(y) >= 2
      BY <1>1
    <3> QED BY <3>1, <3>2
  <2>2. confirmed[p] /\ y.name[1] \in Rounds
    BY <2>1 DEF TssInv, SentOwn
  <2>3. HasCode(p)
    BY <2>2 DEF TssInv, InOrder
  <2> QED BY <2>1, <2>2, <2>3 DEF From, RoundOf
<1>3. p # m
  <2>1. commits[m][m] = joins[m] /\ roster[m][m] = joins[m]
    BY DEF TssInv, Known
  <2> QED BY <1>2, <2>1, AwaitedIs DEF Others
<1>4. roster[p][m] # 0 /\ roster[p][m] = joins[m]
  BY <1>2, KeysAreOne DEF HasCode
<1>5. AllCommitted(commits[m])
  <2>1. \E z \in sent[m] : RoundOf(z) = 1
    BY <1>3, <1>4 DEF TssInv, TakenSent
  <2> QED BY <2>1 DEF TssInv, SentOwn
<1>6. ASSUME NEW r \in 2 .. LastRound[family], r < RoundOf(y)
      PROVE  \E z \in sent[m] : RoundOf(z) = r
  <2>1. PICK n \in Expected[family][p] : n[1] = r /\ n[2] = m
    BY <1>3, EveryRoundSends, KindFacts DEF TssInv, Others
  <2>2. n \in seen[p]
    BY <1>6, <2>1 DEF TssInv, RoundsInOrder
  <2>3. \A k \in seen[p] : k[2] = m => \E z \in sent[m] : z.name = k
    BY <1>3, <1>4 DEF TssInv, TakenSent
  <2> QED BY <2>1, <2>2, <2>3 DEF RoundOf
<1>7. LastRound[family] \in {3, 6} /\ Rounds = 2 .. LastRound[family]
  BY KindFacts, Schedule DEF TssInv, Rounds
<1>8. CASE \E q \in Members : x.name = <<0, q, All>> /\ commits[m][q] = 0
  BY <1>5, <1>8 DEF AllCommitted
<1>9. CASE (\E q \in Members : x.name = <<1, q, All>>) /\ ~HasCode(m)
  <2>1. RoundOf(x) = 1
    BY <1>2, <1>9
  <2>2. 2 \in 2 .. LastRound[family] /\ 2 < RoundOf(y)
    BY <1>1, <1>7, <2>1
  <2>3. PICK z \in sent[m] : RoundOf(z) = 2
    BY <1>6, <2>2
  <2>4. confirmed[m]
    BY <2>3 DEF TssInv, SentOwn
  <2> QED BY <1>9, <2>4 DEF TssInv, InOrder
<1>10. CASE x.name \in Expected[family][m] /\ x.name \notin seen[m] /\ x.name[1] \in Rounds
  <2>1. RoundOf(x) + 1 \in 2 .. LastRound[family] /\ RoundOf(x) + 1 < RoundOf(y)
    BY <1>1, <1>2, <1>7, <1>10
  <2>2. PICK z \in sent[m] : RoundOf(z) = RoundOf(x) + 1
    BY <1>6, <2>1
  <2>3. x.name[1] < RoundOf(z)
    BY <1>1, <1>2, <2>2
  <2> QED BY <1>10, <2>3 DEF TssInv, RoundsInOrder
<1> QED BY <1>8, <1>9, <1>10, AwaitedIs

(* What a member waits for and its sender has sent can be had, when pair setups
   of more than two members stay off the screens. *)
THEOREM NothingIsWithheld ==
  ASSUME <<"pairs", "qr">> \in Kinds => \E a, b \in Members : Members = {a, b}
  PROVE  Spec => []NothingWithheld
<1>1. TssInv => NothingWithheld
  <2> SUFFICES ASSUME TssInv, NobodyRestarted, NEW m \in Members, NEW p \in Members,
                      NEW x \in sent[p], x.name \in Awaiting(m)
               PROVE  x \in Medium(m) \cup Unwritten(p) \cup (IF way = "qr" THEN Code(p, m) ELSE {})
    BY DEF NothingWithheld
  <2>1. CASE way = "card"
    BY <2>1 DEF Medium, Unwritten
  <2>2. CASE way = "qr"
    <3>1. OneLane
      BY <2>2 DEF OneLane, TssInv, Types
    <3>2. InWindow(p, x)
      BY <3>1, NobodyFarAhead, SessionAssumption DEF InWindow
    <3>3. To(x) \in {All, m}
      BY AwaitedIs, SessionAssumption DEF To
    <3> QED BY <2>2, <3>2, <3>3 DEF Code
  <2> QED BY <2>1, <2>2, KindFacts, SessionAssumption DEF TssInv
<1> QED BY <1>1, Invariant, PTL
=============================================================================
