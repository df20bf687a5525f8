----------------------------- MODULE TssSession -----------------------------
(* A threshold-signing session among members (crates/catcard-tss, session.rs)
   and its driver over a shared SD card or by QR codes shown from screen to
   camera (crates/catcard-fw, tss/drive.rs, card.rs and qr.rs).

   Rounds 0 and 1 are commit then reveal; a key is the number of times its
   member has joined, since every joining makes a fresh one.  The rounds from
   2 on are tsslib's, external: a lane of the protocol answers a round once it
   has all of it.  Payloads, ciphers and signatures are left out beyond whose
   key signed, over which view.  The owner carries card or codes between the
   members in any order, and may confirm a code without really comparing. *)
EXTENDS Naturals, FiniteSets

CONSTANTS
  Members,   \* the member numbers of the session
  Starter,   \* the member that made the session and its invitation
  Kinds,     \* what is run and how it travels: subset of Families \X {"card", "qr"}
  MaxJoins,  \* bound: times a member joins; every time after the first is a
             \* restart, by power-off or by leaving
  Restarting \* bound: the members that may restart

Families == {"keygen", "sign", "pairs"}

ASSUME SessionAssumption ==
  /\ IsFiniteSet(Members) /\ Members \subseteq Nat \ {0} /\ Starter \in Members
  /\ Kinds \subseteq Families \X {"card", "qr"}
  /\ MaxJoins \in Nat \ {0}

VARIABLES
  family,     \* Session.family (fixed)
  way,        \* drive::Medium (fixed)
  joins,      \* the member's present identity key; 0 before it joins
  commits,    \* Session.commitments: whose key each was made for, 0 for none
  roster,     \* Session.roster: the keys known, 0 for none
  confirmed,  \* Session.confirmed
  seen,       \* Session.seen: the names of protocol messages taken
  sent,       \* what left the session's outbox: Exchange.sent, or to be written
  inbox,      \* Exchange.inbox
  card        \* the messages in the session's folder

intro == <<joins, commits, roster>>
vars == <<family, way, intro, confirmed, seen, sent, inbox, card>>

-----------------------------------------------------------------------------
(* Messages. *)

Broadcasts == [keygen |-> {2, 3}, sign |-> {2, 3, 5, 6}, pairs |-> {}]
Unicasts   == [keygen |-> {2, 3}, sign |-> {3, 4},       pairs |-> {2, 3}]
LastRound  == [keygen |-> 3,      sign |-> 6,            pairs |-> 3]
Rounds     == 2 .. LastRound[family]

All    == 0             \* the address of a broadcast
Keys   == 0 .. MaxJoins
Views  == [Members -> Keys]
NoView == [m \in Members |-> 0]
Names  == (0 .. 6) \X Members \X (Members \cup {All})
Message == [name : Names, key : Keys \ {0}, view : Views]

RoundOf(x) == x.name[1]
From(x)    == x.name[2]
To(x)      == x.name[3]
NamesOf(X) == {x.name : x \in X}
Others(m)  == Members \ {m}

(* Every message of the protocol's rounds to a member, by family. *)
Expected ==
  [f \in Families |-> [m \in Members |->
     {<<r, p, All>> : r \in Broadcasts[f], p \in Others(m)} \cup
     {<<r, p, m>>   : r \in Unicasts[f], p \in Others(m)}]]

Introduction(m, r) == [name |-> <<r, m, All>>, key |-> joins[m], view |-> NoView]

-----------------------------------------------------------------------------
(* One member's session. *)

AllCommitted(c) == \A p \in Members : c[p] # 0

HasCode(m) == \A p \in Members : roster[m][p] # 0

(* One lane for all the others; in a pair setup, one with each of them. *)
Lanes(m) == IF family = "pairs" THEN {{p} : p \in Others(m)} ELSE {Others(m)}

(* The names of what a lane of m sends in a round. *)
LaneSends(m, lane, r) ==
  {<<r, m, p>> : p \in {q \in lane : r \in Unicasts[family]}} \cup
  IF r \in Broadcasts[family] THEN {<<r, m, All>>} ELSE {}

(* The rounds a lane of m has sent once it has got the messages S: one when it
   has all of the rounds before. *)
Reached(m, lane, S) ==
  {r \in Rounds : \A n \in Expected[family][m] : n[1] < r /\ n[2] \in lane => n \in S}

(* The names of what m's lanes have sent by then. *)
Answers(m, S) ==
  UNION {UNION {LaneSends(m, l, r) : r \in Reached(m, l, S)} : l \in Lanes(m)}

(* advance: what taking the messages S makes the session send. *)
Sealed(m, S) ==
  {[name |-> n, key |-> joins[m], view |-> roster[m]] :
     n \in Answers(m, S) \ NamesOf(sent[m])}

Finished(m) == confirmed[m] /\ Expected[family][m] \subseteq seen[m]

(* Mutant: identities are asked for along with the commitments. *)
AllIntroductions(m) ==
  IF HasCode(m) THEN {}
  ELSE {<<0, p, All>> : p \in {q \in Members : commits[m][q] = 0}} \cup
       {<<1, p, All>> : p \in {q \in Members : roster[m][q] = 0}}
(* awaiting, before there is a code. *)
IntroductionsAwaited(m) ==
  IF ~AllCommitted(commits[m])
  THEN {<<0, p, All>> : p \in {q \in Members : commits[m][q] = 0}}
  ELSE {<<1, p, All>> : p \in {q \in Members : roster[m][q] = 0}}

(* awaiting: the earliest round of the protocol not complete. *)
Awaiting(m) ==
  IF joins[m] = 0 THEN {}
  ELSE IF ~HasCode(m) THEN IntroductionsAwaited(m)
  ELSE IF ~confirmed[m] THEN {}
  ELSE LET missing == Expected[family][m] \ seen[m] IN
       {n \in missing : \A q \in missing : n[1] <= q[1]}

(* Mutant: the signature does not cover the view. *)
KeyFits(m, x) == x.key = roster[m][From(x)]
(* A protocol message is by the key the roster has, over this very view. *)
Genuine(m, x) == x.key = roster[m][From(x)] /\ x.view = roster[m]

(* receive: whether an envelope is taken or refused. *)
Accepts(m, x) ==
  CASE RoundOf(x) = 0 -> commits[m][From(x)] = 0
    [] RoundOf(x) = 1 -> /\ AllCommitted(commits[m])
                         /\ roster[m][From(x)] = 0
                         /\ commits[m][From(x)] = x.key
    [] OTHER -> confirmed[m] /\ x.name \notin seen[m] /\ Genuine(m, x)

-----------------------------------------------------------------------------
(* How messages travel. *)

(* Mutant: a code holds the last round only. *)
LastRoundOnly(p, x) == \A y \in sent[p] : RoundOf(x) >= RoundOf(y)
(* A code holds the last two rounds a member produced. *)
InWindow(p, x) == \A y \in sent[p] : RoundOf(x) + 1 >= RoundOf(y)

(* Mutant: a member that is done shows no more codes. *)
WhileRunning(p, m) == {x \in sent[p] : ~Finished(p) /\ InWindow(p, x) /\ To(x) \in {All, m}}
(* code_for: what member p's screen shows to member m. *)
Code(p, m) == {x \in sent[p] : InWindow(p, x) /\ To(x) \in {All, m}}

Taken(m, n) ==
  CASE n[1] = 0 -> commits[m][n[2]] # 0
    [] n[1] = 1 -> roster[m][n[2]] # 0
    [] OTHER -> n \in seen[m]

(* scan: what a code adds to the inbox.  What was taken already is never asked
   for again, and is left out of the model's inbox. *)
Scanned(m, X) ==
  {x \in X : x.name \notin NamesOf(inbox[m]) /\ ~Taken(m, x.name)}

(* The messages a member would read next: of the card, or of its inbox. *)
Medium(m) == IF way = "card" THEN card ELSE inbox[m]
Got(m) == LET awaited == Awaiting(m) IN {x \in Medium(m) : x.name \in awaited}

Unwritten(m) == IF way = "card" THEN sent[m] \ card ELSE {}

-----------------------------------------------------------------------------
(* Mutant: the identity follows the first commitments received. *)
AtFirst(m, c) == \A x \in sent[m] : RoundOf(x) = 0
(* The last commitment in, of those c, releases the member's own identity. *)
Reveals(m, c) == AllCommitted(c) /\ ~AllCommitted(commits[m])

(* Session::start at the starter, before anyone else is there. *)
Init ==
  /\ \E k \in Kinds : family = k[1] /\ way = k[2]
  /\ joins = [m \in Members |-> IF m = Starter THEN 1 ELSE 0]
  /\ commits = [m \in Members |-> [p \in Members |-> IF m = Starter /\ p = Starter THEN 1 ELSE 0]]
  /\ roster = commits
  /\ confirmed = [m \in Members |-> FALSE]
  /\ seen = [m \in Members |-> {}]
  /\ sent = [m \in Members |-> IF m = Starter THEN {Introduction(m, 0)} ELSE {}]
  /\ inbox = [m \in Members |-> {}]
  /\ card = {}

(* Session::start: a new session knows its own key alone. *)
OnlyOwn(m, k) == [NoView EXCEPT ![m] = k]

(* A member joins, or joins again after a restart: by QR from the starter's
   code; by card as long as its first message is not there ("taken").  A member
   that is done does not restart. *)
Join(m) ==
  /\ m # Starter /\ joins[m] < (IF m \in Restarting THEN MaxJoins ELSE 1) /\ ~Finished(m)
  /\ way = "card" => /\ <<0, Starter, All>> \in NamesOf(card)
                     /\ <<0, m, All>> \notin NamesOf(card)
  /\ LET k == joins[m] + 1 IN
       /\ joins' = [joins EXCEPT ![m] = k]
       /\ commits' = [commits EXCEPT ![m] = OnlyOwn(m, k)]
       /\ roster' = [roster EXCEPT ![m] = OnlyOwn(m, k)]
       /\ sent' = [sent EXCEPT ![m] = {[name |-> <<0, m, All>>, key |-> k, view |-> NoView]}]
  /\ confirmed' = [confirmed EXCEPT ![m] = FALSE]
  /\ seen' = [seen EXCEPT ![m] = {}]
  /\ inbox' = [inbox EXCEPT ![m] = IF way = "qr" THEN Code(Starter, m) ELSE {}]
  /\ UNCHANGED <<family, way, card>>

Before(x, y) ==
  RoundOf(x) < RoundOf(y) \/ (RoundOf(x) = RoundOf(y) /\ To(x) < To(y))

(* write_messages: all that is unwritten, in order, or the first of it and an
   error; what could not be written waits for the next try. *)
Write(m) ==
  /\ Unwritten(m) # {}
  /\ \E part \in SUBSET Unwritten(m) :
       /\ \A x \in part, y \in Unwritten(m) \ part : Before(x, y)
       /\ card' = card \cup part
  /\ UNCHANGED <<family, way, intro, confirmed, seen, sent, inbox>>

(* One pass of run: the messages awaited and at hand are handed to receive. *)
Take(m) ==
  /\ Unwritten(m) = {} /\ Got(m) # {}
  /\ LET taken == {x \in Got(m) : Accepts(m, x)}
         keyIn(r, p, old) ==
           IF \E x \in taken : x.name = <<r, p, All>>
           THEN (CHOOSE x \in taken : x.name = <<r, p, All>>).key ELSE old
         c == [p \in Members |-> keyIn(0, p, commits[m][p])]
         s == seen[m] \cup {n \in NamesOf(taken) : n[1] >= 2}
     IN /\ commits' = [commits EXCEPT ![m] = c]
        /\ roster' = [roster EXCEPT ![m] = [p \in Members |-> keyIn(1, p, @[p])]]
        /\ seen' = [seen EXCEPT ![m] = s]
        /\ sent' = [sent EXCEPT ![m] = @
             \cup (IF Reveals(m, c) THEN {Introduction(m, 1)} ELSE {})
             \cup (IF confirmed[m] THEN Sealed(m, s) ELSE {})]
  /\ inbox' = [inbox EXCEPT ![m] = @ \ Got(m)]
  /\ UNCHANGED <<family, way, joins, confirmed, card>>

(* compare and confirm: the words were the same, or not really compared. *)
Confirm(m) ==
  /\ HasCode(m) /\ ~confirmed[m] /\ Unwritten(m) = {}
  /\ confirmed' = [confirmed EXCEPT ![m] = TRUE]
  /\ sent' = [sent EXCEPT ![m] = @ \cup Sealed(m, {})]
  /\ UNCHANGED <<family, way, intro, seen, inbox, card>>

(* wait and scan: with nothing more at hand, another member's screen is read.
   A member that is done goes on showing its codes (hand_over). *)
Scan(m, p) ==
  /\ way = "qr" /\ Awaiting(m) # {} /\ Got(m) = {}
  /\ inbox' = [inbox EXCEPT ![m] = @ \cup Scanned(m, Code(p, m))]
  /\ UNCHANGED <<family, way, intro, confirmed, seen, sent, card>>

Next ==
  \/ \E m \in Members : Join(m) \/ Write(m) \/ Take(m) \/ Confirm(m)
  \/ \E m \in Members : \E p \in Others(m) : Scan(m, p)

Spec == Init /\ [][Next]_vars

(* The members and their owners go on as long as any of them can: some card is
   written, code scanned or confirmed, message taken, one of those possible, in
   whatever order. *)
FairSpec == Spec /\ WF_vars(Next)

-----------------------------------------------------------------------------
(* Properties. *)

NobodyRestarted == \A m \in Members : joins[m] <= 1

(* From the moment a member's identity key is out, the keys it will accept are
   fixed, for as long as it does not restart: whoever has seen it can no longer
   choose a key (code.rs, receive_commitment and receive_identity). *)
FixedBeforeReveal ==
  [][\A m \in Members :
       (\E x \in sent[m] : RoundOf(x) = 1) /\ joins'[m] = joins[m] =>
         /\ commits'[m] = commits[m]
         /\ \A p \in Members : roster'[m][p] \in {0, commits[m][p]}]_vars

(* Whatever restarts and stale messages do, the members a member runs the
   protocol with have confirmed the very keys it has: nobody goes on, or ends,
   with somebody who is in another session than it thinks. *)
SameSession ==
  \A m, p \in Members :
    confirmed[m] /\ joins[p] = roster[m][p] /\ (\E n \in seen[m] : n[2] = p) =>
      confirmed[p] /\ roster[p] = roster[m]

(* In a session nobody restarted, a driver that follows awaiting is refused
   nothing: not as early, not as replayed, not as another's. *)
NothingRefused ==
  NobodyRestarted => \A m \in Members : \A x \in Got(m) : Accepts(m, x)

(* What a member waits for and its sender has sent can be had: it is at hand, on
   the card, still to be written, or in the code the sender shows it. *)
NothingWithheld ==
  NobodyRestarted =>
    \A m \in Members : LET awaited == Awaiting(m) IN
      \A p \in Members : \A x \in sent[p] :
        x.name \in awaited =>
          x \in Medium(m) \cup Unwritten(p) \cup (IF way = "qr" THEN Code(p, m) ELSE {})

(* A session in which nobody restarts ends, with every member done. *)
EveryoneFinishes ==
  <>(~NobodyRestarted \/ \A m \in Members : Finished(m))
=============================================================================
