------------------------- MODULE SettingsStoreProofs -------------------------
(* The settings store keeps every acknowledged change, and its promise to every
   key, for any number of slots, keys and changes, through power cuts and
   failed writes and erases, as long as the medium's reads are answered. *)
EXTENDS SettingsStore, TLAPS

(* The copy of k that is newer than every other. *)
Best(k, i) ==
  /\ i \in Slots /\ OpensUnder(i, k)
  /\ \A j \in Slots : OpensUnder(j, k) /\ j # i => flash[j].age < flash[i].age

(* Every key has no copy and nothing acknowledged, or a newest copy that holds
   everything acknowledged. *)
CopiesInv ==
  \A k \in Keys :
    \/ acked[k] = {} /\ \A i \in Slots : ~OpensUnder(i, k)
    \/ \E i \in Slots : Best(k, i) /\ acked[k] \subseteq flash[i].doc

OldCopyOf(k, i) == i = NoSlot \/ (i \in Slots /\ OpensUnder(i, k))

(* What the save under way has established so far. *)
OpInv ==
  /\ op # NoOp => acked[op.key] \subseteq op.doc /\ op.change \in op.doc
  /\ op.step \in {"choose", "program"} =>
       \A j \in Slots : OpensUnder(j, op.key) => flash[j].age < op.age
  /\ op.step = "program" =>
       /\ op.target \in Slots /\ flash[op.target] = Empty
       /\ OldCopyOf(op.key, op.live)
  /\ op.step \in {"verify", "clear"} =>
       /\ op.target \in Slots /\ flash[op.target] = Copy
       /\ Best(op.key, op.target)
       /\ OldCopyOf(op.key, op.live) /\ op.live # op.target

StoreInv == TypeOK /\ AgesDistinct /\ CopiesInv /\ OpInv

-----------------------------------------------------------------------------
(* The scan finds the newest copy. *)

LEMMA ScanFindsBest ==
  ASSUME TypeOK, NEW k \in Keys, NEW i \in Slots, Best(k, i)
  PROVE  Newest(k, {}) = i
<1> DEFINE c == Found(k, {})
           P(x) == \A j \in c : \/ flash[j].age < flash[x].age
                                \/ flash[j].age = flash[x].age /\ x <= j
<1>1. i \in c
  BY DEF Best, Found
<1>2. \A j \in c : flash[j].age \in Nat /\ j \in Nat
  BY DEF TypeOK, Found, OpensUnder, Copies, Slots, Empty, Garbage
<1>3. P(i)
  BY <1>1, <1>2 DEF Best, Found
<1>4. \A x \in c : P(x) => x = i
  BY <1>1, <1>2 DEF Best, Found
<1>5. (CHOOSE x \in c : P(x)) = i
  BY <1>1, <1>3, <1>4
<1> QED BY <1>1, <1>5 DEF Newest

LEMMA ScanFindsNothing ==
  ASSUME NEW k \in Keys, \A i \in Slots : ~OpensUnder(i, k)
  PROVE  Newest(k, {}) = NoSlot
  BY DEF Newest, Found

(* What a read returns: nothing for a key without copies, else the newest copy,
   whose age bounds every other's. *)
LEMMA ScanResult ==
  ASSUME StoreInv, NEW k \in Keys
  PROVE  \/ /\ Newest(k, {}) = NoSlot /\ acked[k] = {}
            /\ \A i \in Slots : ~OpensUnder(i, k)
         \/ \E i \in Slots : /\ Newest(k, {}) = i /\ Best(k, i)
                             /\ acked[k] \subseteq flash[i].doc
<1>1. CASE acked[k] = {} /\ \A i \in Slots : ~OpensUnder(i, k)
  BY <1>1, ScanFindsNothing
<1>2. ASSUME NEW i \in Slots, Best(k, i), acked[k] \subseteq flash[i].doc
      PROVE  Newest(k, {}) = i
  BY <1>2, ScanFindsBest DEF StoreInv
<1> QED BY <1>1, <1>2 DEF StoreInv, CopiesInv

(* A readable slot holds a copy with an age and a set of changes. *)
LEMMA CopyTypes ==
  ASSUME TypeOK, NEW i \in Slots, NEW k, OpensUnder(i, k)
  PROVE  /\ flash[i] \in Copies /\ flash[i].age \in Nat
         /\ flash[i].doc \subseteq Changes
  BY DEF TypeOK, OpensUnder, Copies, Empty, Garbage

(* A save under way is a full record. *)
LEMMA OpTypes ==
  ASSUME TypeOK, op.step \in Steps
  PROVE  op \in [step : Steps, key : Keys, change : Changes, doc : SUBSET Changes,
                 age : Nat, live : Slots \cup {NoSlot}, target : Slots \cup {NoSlot}]
  BY DEF TypeOK, NoOp, Steps

-----------------------------------------------------------------------------

LEMMA StoreInit == Init => StoreInv
<1> SUFFICES ASSUME Init PROVE StoreInv
  OBVIOUS
<1> USE DEF Init, Empty, NoOp, OpensUnder
<1>1. TypeOK
  BY DEF TypeOK
<1>2. AgesDistinct /\ CopiesInv /\ OpInv
  BY DEF AgesDistinct, CopiesInv, OpInv
<1> QED BY <1>1, <1>2 DEF StoreInv

LEMMA LoadPreserves ==
  ASSUME StoreInv, ~ReadFaults, NEW k \in Keys, NEW c \in Changes, Load(k, c)
  PROVE  StoreInv'
<1> DEFINE i == Newest(k, {})
           d == (IF i = NoSlot THEN {} ELSE flash[i].doc) \cup {c}
<1>1. op' = [step |-> "choose", key |-> k, change |-> c, doc |-> d,
             age |-> NextAge(i), live |-> NoSlot, target |-> NoSlot]
  BY DEF Load, Unreads
<1>2. /\ NextAge(i) \in Nat /\ d \subseteq Changes /\ acked[k] \subseteq d /\ c \in d
      /\ \A j \in Slots : OpensUnder(j, k) => flash[j].age < NextAge(i)
  <2>1. CASE i = NoSlot /\ acked[k] = {} /\ \A j \in Slots : ~OpensUnder(j, k)
    BY <2>1 DEF NextAge
  <2>2. ASSUME NEW s \in Slots, i = s, Best(k, s), acked[k] \subseteq flash[s].doc
        PROVE  <1>2
    <3>1. s # NoSlot /\ flash[s].age \in Nat /\ flash[s].doc \subseteq Changes
      BY <2>2, CopyTypes, StoreAssumption DEF StoreInv, Best, Slots
    <3>2. \A j \in Slots : OpensUnder(j, k) => flash[j].age \in Nat
      BY CopyTypes DEF StoreInv
    <3>3. NextAge(i) = flash[s].age + 1 /\ d = flash[s].doc \cup {c}
      BY <2>2, <3>1 DEF NextAge
    <3> HIDE DEF i, d
    <3> QED BY <2>2, <3>1, <3>2, <3>3 DEF Best
  <2> QED BY <2>1, <2>2, ScanResult
<1>3. UNCHANGED <<flash, lastCleared, acked>> /\ tried' = tried \cup {c}
      /\ told' = "none"
  BY DEF Load
<1> HIDE DEF i, d
<1>4. TypeOK'
  BY <1>1, <1>2, <1>3 DEF StoreInv, TypeOK, Steps
<1>5. AgesDistinct' /\ CopiesInv'
  BY <1>3 DEF StoreInv, AgesDistinct, CopiesInv, OpensUnder, Best
<1>6. OpInv'
  BY <1>1, <1>2, <1>3 DEF OpInv, OpensUnder, NoOp
<1> QED BY <1>4, <1>5, <1>6 DEF StoreInv

(* Steps that end the save, or pass it on, without touching a slot. *)
LEMMA EndPreserves ==
  ASSUME StoreInv, UNCHANGED <<flash, tried, acked>>, op' = NoOp,
         lastCleared' \in Slots \cup {NoSlot},
         told' \in {"none", "ok", "failed", "full", "cut"}
  PROVE  StoreInv'
<1>1. TypeOK'
  BY DEF StoreInv, TypeOK
<1>2. AgesDistinct' /\ CopiesInv'
  BY DEF StoreInv, AgesDistinct, CopiesInv, OpensUnder, Best
<1>3. OpInv'
  BY DEF OpInv, NoOp
<1> QED BY <1>1, <1>2, <1>3 DEF StoreInv

LEMMA ChoosePreserves ==
  ASSUME StoreInv, ~ReadFaults, Choose
  PROVE  StoreInv'
<1> DEFINE live == Newest(op.key, {})
<1>1. op # NoOp /\ op.step = "choose" /\ op.key \in Keys
  <2>1. op.step = "choose" /\ op.step \in Steps
    BY DEF Choose, Steps
  <2> QED BY <2>1, OpTypes DEF StoreInv, NoOp
<1>u. UNCHANGED <<flash, lastCleared, tried, acked>>
  BY DEF Choose
<1>2. OldCopyOf(op.key, live) /\ live \in Slots \cup {NoSlot}
  BY <1>1, ScanResult DEF OldCopyOf, Best
<1>3. CASE End("full")
  BY <1>3, EndPreserves DEF Choose, End, StoreInv, TypeOK
<1>4. ASSUME NEW i \in FreeSlots(live, {}), UNCHANGED told,
             op' = [op EXCEPT !.step = "program", !.live = live, !.target = i]
      PROVE  StoreInv'
  <2>1. i \in Slots /\ flash[i] = Empty
    BY DEF FreeSlots
  <2>2. op' = [step |-> "program", key |-> op.key, change |-> op.change,
               doc |-> op.doc, age |-> op.age, live |-> live, target |-> i]
    BY <1>1, <1>4 DEF StoreInv, TypeOK
  <2> HIDE DEF live
  <2>3. TypeOK'
    BY <1>1, <1>2, <1>4, <2>1, <2>2 DEF StoreInv, TypeOK, Choose, Steps
  <2>4. AgesDistinct' /\ CopiesInv'
    BY <1>u DEF StoreInv, AgesDistinct, CopiesInv, OpensUnder, Best
  <2>5. OpInv'
    BY <1>1, <1>2, <2>1, <2>2 DEF StoreInv, OpInv, OpensUnder, OldCopyOf, NoOp, Choose
  <2> QED BY <2>3, <2>4, <2>5 DEF StoreInv
<1> QED BY <1>3, <1>4 DEF Choose, Unreads

-----------------------------------------------------------------------------
(* A slot that holds no copy may get anything but a copy. *)
LEMMA DebrisPreserves ==
  ASSUME StoreInv, NEW i \in Slots, flash[i] = Empty, NEW x \in {Empty, Garbage},
         flash' = [flash EXCEPT ![i] = x], op' = NoOp, UNCHANGED <<tried, acked>>,
         lastCleared' \in Slots \cup {NoSlot},
         told' \in {"none", "ok", "failed", "full", "cut"}
  PROVE  StoreInv'
<1>1. TypeOK'
  BY DEF StoreInv, TypeOK
<1>2. \A j \in Slots, k \in Keys : OpensUnder(j, k)' <=> OpensUnder(j, k)
  BY DEF StoreInv, TypeOK, OpensUnder, Empty, Garbage
<1>3. \A j \in Slots, k \in Keys : OpensUnder(j, k) => flash'[j] = flash[j]
  BY DEF StoreInv, TypeOK, OpensUnder, Empty
<1>4. AgesDistinct'
  BY <1>2, <1>3 DEF StoreInv, AgesDistinct
<1>5. CopiesInv'
  BY <1>2, <1>3 DEF StoreInv, CopiesInv, Best
<1>6. OpInv'
  BY DEF OpInv, NoOp
<1> QED BY <1>1, <1>4, <1>5, <1>6 DEF StoreInv

(* The new copy lands: it is the newest of its key, and no other key's copies
   change. *)
LEMMA CopyLands ==
  ASSUME StoreInv, NEW t \in Slots, flash[t] = Empty,
         NEW k \in Keys, NEW a \in Nat, NEW d \in SUBSET Changes, acked[k] \subseteq d,
         \A j \in Slots : OpensUnder(j, k) => flash[j].age < a,
         flash' = [flash EXCEPT ![t] = Sealed(k, a, d)], UNCHANGED acked
  PROVE  /\ flash' \in [Slots -> {Empty, Garbage} \cup Copies]
         /\ AgesDistinct' /\ CopiesInv'
         /\ flash'[t] = Sealed(k, a, d) /\ Best(k, t)'
         /\ \A i \in Slots : OpensUnder(i, k) => OpensUnder(i, k)' /\ i # t
<1> DEFINE x == Sealed(k, a, d)
<1>1. x \in Copies /\ x.age = a /\ x.key = k /\ x.kind = "sealed" /\ x.doc = d
  BY DEF Sealed, Copies
<1>2. flash' \in [Slots -> {Empty, Garbage} \cup Copies] /\ flash'[t] = x
  BY <1>1 DEF StoreInv, TypeOK
<1>3. \A j \in Slots : j # t => flash'[j] = flash[j]
  BY DEF StoreInv, TypeOK
<1> HIDE DEF x
<1>4. \A q : ~OpensUnder(t, q)
  BY DEF OpensUnder, Empty
<1>5. \A q : OpensUnder(t, q)' <=> q = k
  BY <1>1, <1>2 DEF OpensUnder
<1>6. \A j \in Slots : \A q : j # t => (OpensUnder(j, q)' <=> OpensUnder(j, q))
  BY <1>3 DEF OpensUnder
<1>7. \A j \in Slots : OpensUnder(j, k) => flash[j].age \in Nat
  BY CopyTypes DEF StoreInv
<1>8. Best(k, t)'
  BY <1>1, <1>2, <1>3, <1>5, <1>6 DEF Best
<1>9. AgesDistinct'
  <2> SUFFICES ASSUME NEW i \in Slots, NEW j \in Slots, NEW q \in Keys,
                      OpensUnder(i, q)', OpensUnder(j, q)', flash'[i].age = flash'[j].age
               PROVE  i = j
    BY DEF AgesDistinct
  <2>1. CASE i # t /\ j # t
    BY <2>1, <1>3, <1>6 DEF StoreInv, AgesDistinct
  <2>2. CASE i = t /\ j # t
    <3>1. OpensUnder(j, k) /\ flash'[j].age < a /\ flash'[j].age \in Nat
      BY <2>2, <1>3, <1>5, <1>6, <1>7
    <3> QED BY <2>2, <3>1, <1>1, <1>2
  <2>3. CASE j = t /\ i # t
    <3>1. OpensUnder(i, k) /\ flash'[i].age < a /\ flash'[i].age \in Nat
      BY <2>3, <1>3, <1>5, <1>6, <1>7
    <3> QED BY <2>3, <3>1, <1>1, <1>2
  <2> QED BY <2>1, <2>2, <2>3
<1>10. CopiesInv'
  <2> SUFFICES ASSUME NEW q \in Keys
               PROVE  \/ acked[q] = {} /\ \A i \in Slots : ~OpensUnder(i, q)'
                      \/ \E i \in Slots : Best(q, i)' /\ acked[q] \subseteq flash'[i].doc
    BY DEF CopiesInv
  <2>1. CASE q = k
    BY <2>1, <1>1, <1>2, <1>8
  <2>2. CASE q # k
    <3>1. \A j \in Slots : OpensUnder(j, q)' <=> OpensUnder(j, q)
      BY <2>2, <1>4, <1>5, <1>6
    <3>2. \A j \in Slots : OpensUnder(j, q) => flash'[j] = flash[j]
      BY <1>3, <1>4
    <3> QED BY <3>1, <3>2 DEF StoreInv, CopiesInv, Best
  <2> QED BY <2>1, <2>2
<1>11. \A i \in Slots : OpensUnder(i, k) => OpensUnder(i, k)' /\ i # t
  BY <1>4, <1>6
<1> QED BY <1>2, <1>8, <1>9, <1>10, <1>11 DEF x

(* What the lemma above needs of a save about to program its slot. *)
LEMMA ProgramFacts ==
  ASSUME StoreInv, op.step = "program"
  PROVE  /\ op.target \in Slots /\ flash[op.target] = Empty
         /\ op.key \in Keys /\ op.age \in Nat /\ op.doc \in SUBSET Changes
         /\ acked[op.key] \subseteq op.doc /\ op.change \in op.doc
         /\ \A j \in Slots : OpensUnder(j, op.key) => flash[j].age < op.age
         /\ OldCopyOf(op.key, op.live)
  BY OpTypes DEF StoreInv, OpInv, NoOp, Steps

LEMMA ProgramPreserves == StoreInv /\ Program => StoreInv'
<1> SUFFICES ASSUME StoreInv, Program PROVE StoreInv'
  OBVIOUS
<1>0. op.step = "program"
  BY DEF Program
<1>1. PICK t \in Slots, k \in Keys, a \in Nat, d \in SUBSET Changes :
        t = op.target /\ k = op.key /\ a = op.age /\ d = op.doc
  BY <1>0, ProgramFacts
<1>2. /\ flash' \in [Slots -> {Empty, Garbage} \cup Copies]
      /\ AgesDistinct' /\ CopiesInv'
      /\ flash'[t] = Sealed(k, a, d) /\ Best(k, t)'
      /\ \A i \in Slots : OpensUnder(i, k) => OpensUnder(i, k)' /\ i # t
  <2>1. flash[t] = Empty /\ acked[k] \subseteq d
        /\ \A j \in Slots : OpensUnder(j, k) => flash[j].age < a
    BY <1>0, <1>1, ProgramFacts
  <2>2. flash' = [flash EXCEPT ![t] = Sealed(k, a, d)] /\ UNCHANGED acked
    BY <1>1 DEF Program, Copy
  <2> QED BY <2>1, <2>2, CopyLands
<1>3. op' = [step |-> "verify", key |-> k, change |-> op.change, doc |-> d,
             age |-> a, live |-> op.live, target |-> t]
      /\ op.change \in Changes /\ op.live \in Slots \cup {NoSlot}
  BY <1>0, <1>1, OpTypes DEF Program, StoreInv, Steps
<1>4. TypeOK'
  <2>1. op' \in [step : Steps, key : Keys, change : Changes, doc : SUBSET Changes,
                 age : Nat, live : Slots \cup {NoSlot}, target : Slots \cup {NoSlot}]
    BY <1>3 DEF Steps
  <2> QED BY <1>2, <2>1 DEF StoreInv, TypeOK, Program
<1>5. OldCopyOf(k, op.live) /\ acked[k] \subseteq d /\ op.change \in d
  BY <1>0, <1>1, ProgramFacts
<1>6. PICK l \in Slots \cup {NoSlot} : l = op.live
  BY <1>3
<1>7. l # t /\ OldCopyOf(k, l)'
  BY <1>2, <1>5, <1>6, StoreAssumption DEF OldCopyOf, Slots
<1>8. OpInv'
  <2>1. op' # NoOp /\ op'.step = "verify" /\ op'.key = k /\ op'.target = t
        /\ op'.live = l /\ op'.age = a /\ op'.doc = d /\ op'.change = op.change
    BY <1>3, <1>6 DEF NoOp
  <2>2. flash'[op'.target] = Copy'
    BY <1>2, <2>1 DEF Copy
  <2>3. Best(op.key, op.target)'
    BY <1>2, <2>1 DEF Best, OpensUnder
  <2>4. OldCopyOf(op.key, op.live)'
    BY <1>7, <2>1 DEF OldCopyOf, OpensUnder
  <2> QED BY <1>5, <1>7, <2>1, <2>2, <2>3, <2>4 DEF OpInv, Program
<1> QED BY <1>2, <1>4, <1>8 DEF StoreInv


LEMMA ProgramFailsPreserves == StoreInv /\ ProgramFails => StoreInv'
<1> SUFFICES ASSUME StoreInv, ProgramFails PROVE StoreInv'
  OBVIOUS
<1>0. op.step = "program" /\ op' = NoOp
  BY DEF ProgramFails, End
<1>1. PICK x \in {Empty, Garbage, Copy} : flash' = [flash EXCEPT ![op.target] = x]
  BY DEF ProgramFails
<1>2. CASE x = Copy
  <2>1. PICK t \in Slots, k \in Keys, a \in Nat, d \in SUBSET Changes :
          t = op.target /\ k = op.key /\ a = op.age /\ d = op.doc
    BY <1>0, ProgramFacts
  <2>2. flash[t] = Empty /\ acked[k] \subseteq d
        /\ \A j \in Slots : OpensUnder(j, k) => flash[j].age < a
    BY <1>0, <2>1, ProgramFacts
  <2>3. flash' = [flash EXCEPT ![t] = Sealed(k, a, d)] /\ UNCHANGED acked
    BY <1>1, <1>2, <2>1 DEF ProgramFails, Copy
  <2>4. flash' \in [Slots -> {Empty, Garbage} \cup Copies] /\ AgesDistinct' /\ CopiesInv'
    BY <2>2, <2>3, CopyLands
  <2>5. TypeOK'
    BY <1>0, <2>4 DEF StoreInv, TypeOK, ProgramFails, End
  <2>6. OpInv'
    BY <1>0 DEF OpInv, NoOp
  <2> QED BY <2>4, <2>5, <2>6 DEF StoreInv
<1>3. CASE x \in {Empty, Garbage}
  BY <1>0, <1>1, <1>3, ProgramFacts, DebrisPreserves
  DEF ProgramFails, End, StoreInv, TypeOK
<1> QED BY <1>2, <1>3

LEMMA VerifyPreserves == StoreInv /\ Verify => StoreInv'
<1> SUFFICES ASSUME StoreInv, Verify PROVE StoreInv'
  OBVIOUS
<1>1. op.step = "verify" /\ op # NoOp
      /\ op \in [step : Steps, key : Keys, change : Changes, doc : SUBSET Changes,
                 age : Nat, live : Slots \cup {NoSlot}, target : Slots \cup {NoSlot}]
  BY OpTypes DEF Verify, StoreInv, NoOp, Steps
<1>2. /\ op'.step = "clear" /\ op' # NoOp /\ op'.key = op.key /\ op'.target = op.target
      /\ op'.live = op.live /\ op'.age = op.age /\ op'.doc = op.doc
      /\ op'.change = op.change
      /\ op' \in [step : Steps, key : Keys, change : Changes, doc : SUBSET Changes,
                  age : Nat, live : Slots \cup {NoSlot}, target : Slots \cup {NoSlot}]
  BY <1>1 DEF Verify, Steps, NoOp
<1>3. UNCHANGED <<flash, lastCleared, tried, acked, told>>
  BY DEF Verify
<1>4. TypeOK'
  BY <1>2, <1>3 DEF StoreInv, TypeOK
<1>5. AgesDistinct' /\ CopiesInv'
  BY <1>3 DEF StoreInv, AgesDistinct, CopiesInv, OpensUnder, Best
<1>6. OpInv'
  BY <1>1, <1>2, <1>3 DEF StoreInv, OpInv, Copy, Best, OldCopyOf, OpensUnder
<1> QED BY <1>4, <1>5, <1>6 DEF StoreInv

-----------------------------------------------------------------------------
(* Emptying or tearing an old copy of k, a newer one being elsewhere, with the
   settings of k acknowledged as far as that newer copy holds them. *)
LEMMA OldCopyGoes ==
  ASSUME StoreInv, NEW k \in Keys, NEW t \in Slots, Best(k, t),
         NEW i \in Slots, i # t, OpensUnder(i, k), NEW x \in {flash[i], Empty, Garbage},
         flash' = [flash EXCEPT ![i] = x],
         acked'[k] \subseteq flash[t].doc,
         \A q \in Keys : q # k => acked'[q] = acked[q]
  PROVE  /\ flash' \in [Slots -> {Empty, Garbage} \cup Copies]
         /\ AgesDistinct' /\ CopiesInv'
<1>1. flash' \in [Slots -> {Empty, Garbage} \cup Copies]
  BY DEF StoreInv, TypeOK
<1>2. \A j \in Slots : j # i => flash'[j] = flash[j]
  BY DEF StoreInv, TypeOK
<1>3. \A j \in Slots, q \in Keys : OpensUnder(j, q)' => OpensUnder(j, q) /\ flash'[j] = flash[j]
  BY <1>2 DEF StoreInv, TypeOK, OpensUnder, Empty, Garbage
<1>4. \A j \in Slots, q \in Keys : q # k =>
        (OpensUnder(j, q)' <=> OpensUnder(j, q))
  BY <1>2, <1>3 DEF OpensUnder
<1>5. AgesDistinct'
  BY <1>3 DEF StoreInv, AgesDistinct
<1>6. Best(k, t)' /\ flash'[t] = flash[t]
  BY <1>2, <1>3 DEF Best, OpensUnder
<1>7. CopiesInv'
  <2> SUFFICES ASSUME NEW q \in Keys
               PROVE  \/ acked'[q] = {} /\ \A j \in Slots : ~OpensUnder(j, q)'
                      \/ \E j \in Slots : Best(q, j)' /\ acked'[q] \subseteq flash'[j].doc
    BY DEF CopiesInv
  <2>1. CASE q = k
    BY <2>1, <1>6
  <2>2. CASE q # k
    <3>1. acked'[q] = acked[q]
      BY <2>2
    <3>2. \A j \in Slots : OpensUnder(j, q)' <=> OpensUnder(j, q)
      BY <2>2, <1>4
    <3>3. \A j \in Slots : OpensUnder(j, q) => flash'[j] = flash[j]
      BY <3>2, <1>3
    <3>4. \A j \in Slots : Best(q, j) => Best(q, j)'
      BY <3>2, <3>3 DEF Best
    <3>5. CASE acked[q] = {} /\ \A j \in Slots : ~OpensUnder(j, q)
      BY <3>1, <3>2, <3>5
    <3>6. CASE \E j \in Slots : Best(q, j) /\ acked[q] \subseteq flash[j].doc
      BY <3>1, <3>3, <3>4, <3>6 DEF Best
    <3> QED BY <3>5, <3>6 DEF StoreInv, CopiesInv
  <2> QED BY <2>1, <2>2
<1> QED BY <1>1, <1>5, <1>7

(* A save at its last step: its copy is the newest, and acknowledging the
   change leaves nothing acknowledged out of that copy. *)
LEMMA ClearFacts ==
  ASSUME StoreInv, op.step = "clear"
  PROVE  /\ op.target \in Slots /\ op.key \in Keys /\ Best(op.key, op.target)
         /\ flash[op.target].doc = op.doc
         /\ acked[op.key] \subseteq op.doc /\ op.change \in op.doc
         /\ op.live \in Slots \cup {NoSlot} /\ op.live # op.target
         /\ op.live # NoSlot => op.live \in Slots /\ OpensUnder(op.live, op.key)
  BY OpTypes DEF StoreInv, OpInv, OldCopyOf, NoOp, Steps, Copy, Sealed

LEMMA AckClears ==
  ASSUME StoreInv, op.step = "clear", Acknowledge, UNCHANGED tried,
         \/ flash' = flash
         \/ op.live # NoSlot /\ \E x \in {flash[op.live], Garbage, Empty} :
                                  flash' = [flash EXCEPT ![op.live] = x],
         lastCleared' \in Slots \cup {NoSlot}
  PROVE  StoreInv'
<1>1. PICK k \in Keys, t \in Slots : k = op.key /\ t = op.target
  BY ClearFacts
<1>2. Best(k, t) /\ flash[t].doc = op.doc
      /\ acked[k] \subseteq op.doc /\ op.change \in op.doc
  BY <1>1, ClearFacts
<1>3. /\ acked' \in [Keys -> SUBSET Changes]
      /\ acked'[k] \subseteq flash[t].doc
      /\ \A q \in Keys : q # k => acked'[q] = acked[q]
  BY <1>1, <1>2, CopyTypes DEF Acknowledge, StoreInv, TypeOK, Best
<1>4. flash' \in [Slots -> {Empty, Garbage} \cup Copies] /\ AgesDistinct' /\ CopiesInv'
  <2>1. CASE flash' = flash
    <3>1. AgesDistinct' /\ flash' \in [Slots -> {Empty, Garbage} \cup Copies]
      BY <2>1 DEF StoreInv, AgesDistinct, OpensUnder, TypeOK
    <3>2. \A q \in Keys, j \in Slots : /\ OpensUnder(j, q)' <=> OpensUnder(j, q)
                                       /\ Best(q, j)' <=> Best(q, j)
      BY <2>1 DEF OpensUnder, Best
    <3>3. CopiesInv'
      <4> SUFFICES ASSUME NEW q \in Keys
                   PROVE  \/ acked'[q] = {} /\ \A j \in Slots : ~OpensUnder(j, q)'
                          \/ \E j \in Slots : Best(q, j)' /\ acked'[q] \subseteq flash'[j].doc
        BY DEF CopiesInv
      <4>1. CASE q = k
        BY <4>1, <1>2, <1>3, <2>1, <3>2
      <4>2. CASE q # k
        BY <4>2, <1>3, <2>1, <3>2 DEF StoreInv, CopiesInv
      <4> QED BY <4>1, <4>2
    <3> QED BY <3>1, <3>3
  <2>2. CASE op.live # NoSlot /\ \E x \in {flash[op.live], Garbage, Empty} :
                                   flash' = [flash EXCEPT ![op.live] = x]
    <3>1. PICK i \in Slots : i = op.live /\ i # t /\ OpensUnder(i, k)
      BY <2>2, <1>1, ClearFacts
    <3>2. PICK x \in {flash[i], Empty, Garbage} : flash' = [flash EXCEPT ![i] = x]
      BY <2>2, <3>1
    <3> QED BY <1>2, <1>3, <3>1, <3>2, OldCopyGoes
  <2> QED BY <2>1, <2>2
<1>5. TypeOK'
  BY <1>3, <1>4 DEF StoreInv, TypeOK, Acknowledge, End
<1>6. OpInv'
  BY DEF OpInv, NoOp, Acknowledge, End
<1> QED BY <1>4, <1>5, <1>6 DEF StoreInv

LEMMA ClearPreserves == StoreInv /\ (Clear \/ ClearFails) => StoreInv'
<1> SUFFICES ASSUME StoreInv, Clear \/ ClearFails PROVE StoreInv'
  OBVIOUS
<1>1. op.step = "clear" /\ Acknowledge /\ UNCHANGED tried
  BY DEF Clear, ClearFails
<1>2. op.live \in Slots \cup {NoSlot} /\ op.key \in Keys
  BY <1>1, ClearFacts
<1>3. CASE Clear
  <2>1. lastCleared' \in Slots \cup {NoSlot}
    BY <1>2, <1>3 DEF Clear, StoreInv, TypeOK
  <2>2. \/ flash' = flash
        \/ op.live # NoSlot /\ \E x \in {flash[op.live], Garbage, Empty} :
                                 flash' = [flash EXCEPT ![op.live] = x]
    BY <1>3 DEF Clear, Cleared
  <2> QED BY <1>1, <2>1, <2>2, AckClears
<1>4. CASE ClearFails
  <2>1. lastCleared' \in Slots \cup {NoSlot}
    BY <1>2, <1>4 DEF ClearFails, StoreInv, TypeOK
  <2>2. op.live # NoSlot /\ \E x \in {flash[op.live], Garbage, Empty} :
                              flash' = [flash EXCEPT ![op.live] = x]
    BY <1>4 DEF ClearFails
  <2> QED BY <1>1, <2>1, <2>2, AckClears
<1> QED BY <1>3, <1>4

-----------------------------------------------------------------------------

LEMMA PowerCutPreserves == StoreInv /\ PowerCut => StoreInv'
<1> SUFFICES ASSUME StoreInv, PowerCut PROVE StoreInv'
  OBVIOUS
<1>1. /\ op' = NoOp /\ told' = "cut" /\ UNCHANGED <<tried, acked>>
      /\ lastCleared' \in Slots \cup {NoSlot}
  BY DEF PowerCut, End
<1>2. CASE op.step = "program"
  <2>1. PICK x \in {Empty, Garbage, Copy} : flash' = [flash EXCEPT ![op.target] = x]
    BY <1>2 DEF PowerCut, Torn
  <2>2. CASE x = Copy
    <3>1. PICK t \in Slots, k \in Keys, a \in Nat, d \in SUBSET Changes :
            t = op.target /\ k = op.key /\ a = op.age /\ d = op.doc
      BY <1>2, ProgramFacts
    <3>2. flash[t] = Empty /\ acked[k] \subseteq d
          /\ \A j \in Slots : OpensUnder(j, k) => flash[j].age < a
      BY <1>2, <3>1, ProgramFacts
    <3>3. flash' = [flash EXCEPT ![t] = Sealed(k, a, d)]
      BY <2>1, <2>2, <3>1 DEF Copy
    <3>4. flash' \in [Slots -> {Empty, Garbage} \cup Copies] /\ AgesDistinct' /\ CopiesInv'
      BY <1>1, <3>2, <3>3, CopyLands
    <3>5. TypeOK'
      BY <1>1, <3>4 DEF StoreInv, TypeOK
    <3>6. OpInv'
      BY <1>1 DEF OpInv, NoOp
    <3> QED BY <3>4, <3>5, <3>6 DEF StoreInv
  <2>3. CASE x \in {Empty, Garbage}
    BY <1>1, <1>2, <2>1, <2>3, ProgramFacts, DebrisPreserves
  <2> QED BY <2>2, <2>3
<1>3. CASE op.step = "clear" /\ op.live # NoSlot
  <2>1. PICK k \in Keys, t \in Slots, i \in Slots :
          k = op.key /\ t = op.target /\ i = op.live /\ i # t /\ OpensUnder(i, k) /\ Best(k, t)
    BY <1>3, ClearFacts
  <2>2. PICK x \in {flash[i], Empty, Garbage} : flash' = [flash EXCEPT ![i] = x]
    BY <1>3, <2>1 DEF PowerCut, Torn
  <2>3. acked'[k] \subseteq flash[t].doc /\ \A q \in Keys : q # k => acked'[q] = acked[q]
    BY <1>1, <1>3, <2>1, ClearFacts
  <2>4. flash' \in [Slots -> {Empty, Garbage} \cup Copies] /\ AgesDistinct' /\ CopiesInv'
    BY <2>1, <2>2, <2>3, OldCopyGoes
  <2>5. TypeOK'
    BY <1>1, <2>4 DEF StoreInv, TypeOK
  <2>6. OpInv'
    BY <1>1 DEF OpInv, NoOp
  <2> QED BY <2>4, <2>5, <2>6 DEF StoreInv
<1>4. CASE op.step # "program" /\ ~(op.step = "clear" /\ op.live # NoSlot)
  <2>1. flash' = flash
    BY <1>4 DEF PowerCut, Torn
  <2> QED BY <1>1, <2>1, EndPreserves
<1> QED BY <1>2, <1>3, <1>4

LEMMA StoreNext == ~ReadFaults /\ StoreInv /\ [Next]_vars => StoreInv'
<1> SUFFICES ASSUME ~ReadFaults, StoreInv, [Next]_vars PROVE StoreInv'
  OBVIOUS
<1>1. ASSUME NEW k \in Keys, NEW c \in Changes, Load(k, c) PROVE StoreInv'
  BY <1>1, LoadPreserves
<1>2. CASE LoadFails \/ VerifyFails
  <2>1. UNCHANGED <<flash, lastCleared, tried, acked>> /\ op' = NoOp /\ told' = "failed"
    BY <1>2 DEF LoadFails, VerifyFails, End
  <2> QED BY <2>1, EndPreserves DEF StoreInv, TypeOK
<1>3. CASE Choose
  BY <1>3, ChoosePreserves
<1>4. CASE Program
  BY <1>4, ProgramPreserves
<1>5. CASE ProgramFails
  BY <1>5, ProgramFailsPreserves
<1>6. CASE Verify
  BY <1>6, VerifyPreserves
<1>7. CASE Clear \/ ClearFails
  BY <1>7, ClearPreserves
<1>8. CASE PowerCut
  BY <1>8, PowerCutPreserves
<1>9. CASE UNCHANGED vars
  <2>1. UNCHANGED <<flash, lastCleared, op, tried, acked, told>>
    BY <1>9 DEF vars
  <2> QED BY <2>1 DEF StoreInv, TypeOK, AgesDistinct, CopiesInv, OpInv, OpensUnder,
                      Best, OldCopyOf, Copy
<1> QED BY <1>1, <1>2, <1>3, <1>4, <1>5, <1>6, <1>7, <1>8, <1>9 DEF Next

LEMMA StoreInvariant == ~ReadFaults /\ Spec => []StoreInv
<1>1. CASE ReadFaults
  BY <1>1
<1>2. CASE ~ReadFaults
  <2>1. StoreInv /\ [Next]_vars => StoreInv'
    BY <1>2, StoreNext
  <2> QED BY <2>1, StoreInit, PTL DEF Spec
<1> QED BY <1>1, <1>2

(* The store's state is well typed. *)
THEOREM StoreTypeOK == ~ReadFaults /\ Spec => []TypeOK
<1>1. StoreInv => TypeOK
  BY DEF StoreInv
<1> QED BY <1>1, StoreInvariant, PTL

(* No acknowledged change is lost. *)
THEOREM StoreAckedSurvives == ~ReadFaults /\ Spec => []AckedSurvives
<1>1. StoreInv => AckedSurvives
  <2> SUFFICES ASSUME StoreInv, NEW k \in Keys PROVE acked[k] \subseteq Value(k)
    BY DEF AckedSurvives
  <2>1. CASE Newest(k, {}) = NoSlot /\ acked[k] = {}
    BY <2>1
  <2>2. ASSUME NEW i \in Slots, Newest(k, {}) = i, acked[k] \subseteq flash[i].doc
        PROVE  acked[k] \subseteq Value(k)
    BY <2>2, StoreAssumption DEF Value, Slots
  <2> QED BY <2>1, <2>2, ScanResult
<1> QED BY <1>1, StoreInvariant, PTL

(* The newest copy is never in doubt. *)
THEOREM StoreAgesDistinct == ~ReadFaults /\ Spec => []AgesDistinct
<1>1. StoreInv => AgesDistinct
  BY DEF StoreInv
<1> QED BY <1>1, StoreInvariant, PTL

(* A copy goes only while a newer one of the same key stays: no power cut or
   failure leaves a key without a readable copy, or touches another's. *)
THEOREM StoreNewerStays == ~ReadFaults /\ Spec => NewerStays
<1> DEFINE Stays == \A i \in Slots : flash[i].kind = "sealed" /\ flash'[i] # flash[i] =>
                      \E j \in Slots \ {i} : /\ flash'[j].kind = "sealed"
                                             /\ flash'[j].key = flash[i].key
                                             /\ flash'[j].age > flash[i].age
<1>1. StoreInv /\ Next => Stays
  <2> SUFFICES ASSUME StoreInv, Next, NEW i \in Slots,
                      flash[i].kind = "sealed", flash'[i] # flash[i]
               PROVE  \E j \in Slots \ {i} : /\ flash'[j].kind = "sealed"
                                             /\ flash'[j].key = flash[i].key
                                             /\ flash'[j].age > flash[i].age
    OBVIOUS
  <2>1. op.step = "clear" /\ i = op.live
        /\ \E x : flash' = [flash EXCEPT ![op.live] = x]
    <3>1. flash # flash'
      OBVIOUS
    <3>2. CASE Program \/ ProgramFails \/ (PowerCut /\ op.step = "program")
      <4>1. op.step = "program" /\ op.target \in Slots /\ flash[op.target].kind # "sealed"
        BY <3>2, ProgramFacts DEF Program, ProgramFails, Empty
      <4>2. \E x : flash' = [flash EXCEPT ![op.target] = x]
        BY <3>2, <4>1 DEF Program, ProgramFails, PowerCut, Torn
      <4> QED BY <4>1, <4>2 DEF StoreInv, TypeOK
    <3>3. CASE Clear \/ ClearFails
      <4>1. op.step = "clear" /\ \E x : flash' = [flash EXCEPT ![op.live] = x]
        BY <3>1, <3>3 DEF Clear, Cleared, ClearFails
      <4> QED BY <4>1 DEF StoreInv, TypeOK
    <3>4. CASE PowerCut /\ op.step # "program"
      <4>1. op.step = "clear" /\ \E x : flash' = [flash EXCEPT ![op.live] = x]
        BY <3>1, <3>4 DEF PowerCut, Torn
      <4> QED BY <4>1 DEF StoreInv, TypeOK
    <3> QED BY <3>1, <3>2, <3>3, <3>4 DEF Next, Load, LoadFails, Choose, Verify, VerifyFails
  <2>2. PICK t \in Slots, k \in Keys :
          t = op.target /\ k = op.key /\ i # t /\ OpensUnder(i, k) /\ Best(k, t)
    BY <2>1, ClearFacts, StoreAssumption DEF Slots
  <2>3. flash'[t] = flash[t] /\ t \in Slots \ {i}
    BY <2>1, <2>2 DEF StoreInv, TypeOK
  <2>4. flash[i].age < flash[t].age /\ flash[i].age \in Nat /\ flash[t].age \in Nat
        /\ flash[i].key = k /\ flash[t].key = k /\ flash[t].kind = "sealed"
    BY <2>2, CopyTypes DEF StoreInv, Best, OpensUnder
  <2> QED BY <2>3, <2>4
<1>2. StoreInv /\ [Next]_vars => [Stays]_vars
  BY <1>1
<1> QED BY <1>2, StoreInvariant, PTL DEF Spec, NewerStays
-----------------------------------------------------------------------------
(* The promise.  A read returns the newest copy's object, so a save changes
   what is read at one moment, when its copy lands; for the promise the object
   it lands with must be the one stored then and the change, and no more. *)

LEMMA ValueNow ==
  \A k \in Keys, i \in Slots : TypeOK /\ Best(k, i) => Value(k) = flash[i].doc
BY ScanFindsBest, StoreAssumption DEF Value, Slots

LEMMA ValueNext ==
  \A k \in Keys, i \in Slots : (TypeOK /\ Best(k, i) => Value(k) = flash[i].doc)'
<1>1. (\A k \in Keys, i \in Slots : TypeOK /\ Best(k, i) => Value(k) = flash[i].doc)'
  BY ValueNow, PTL
<1> QED BY <1>1

LEMMA NoValueNow ==
  \A k \in Keys : (\A i \in Slots : ~OpensUnder(i, k)) => Value(k) = {}
BY ScanFindsNothing DEF Value

LEMMA NoValueNext ==
  \A k \in Keys : ((\A i \in Slots : ~OpensUnder(i, k)) => Value(k) = {})'
<1>1. (\A k \in Keys : (\A i \in Slots : ~OpensUnder(i, k)) => Value(k) = {})'
  BY NoValueNow, PTL
<1> QED BY <1>1

(* While no copy is written the save holds the object as it is read, with its
   change; afterwards its copy is what is read. *)
DocInv == op.step \in {"choose", "program"} => op.doc = Value(op.key) \cup {op.change}

(* A key whose copies only go, and not the newest, reads as it did. *)
LEMMA SameValue ==
  ASSUME StoreInv, TypeOK', NEW k \in Keys,
         \A j \in Slots : OpensUnder(j, k)' => OpensUnder(j, k) /\ flash'[j] = flash[j],
         \A j \in Slots : Best(k, j) => OpensUnder(j, k)'
  PROVE  Value(k)' = Value(k)
<1>1. CASE \A i \in Slots : ~OpensUnder(i, k)
  <2>1. \A i \in Slots : ~OpensUnder(i, k)'
    BY <1>1
  <2>2. Value(k) = {}
    BY <1>1, NoValueNow
  <2>3. Value(k)' = {}
    BY <2>1, NoValueNext
  <2> QED BY <2>2, <2>3
<1>2. ASSUME NEW i \in Slots, Best(k, i) PROVE Value(k)' = Value(k)
  <2>1. OpensUnder(i, k)' /\ flash'[i] = flash[i]
    BY <1>2
  <2>2. Best(k, i)'
    BY <1>2, <2>1 DEF Best
  <2>3. Value(k) = flash[i].doc
    BY <1>2, ValueNow DEF StoreInv
  <2>4. Value(k)' = flash'[i].doc
    BY <2>2, ValueNext
  <2> QED BY <2>1, <2>3, <2>4
<1> QED BY <1>1, <1>2 DEF StoreInv, CopiesInv

LEMMA SameFlash ==
  ASSUME StoreInv, TypeOK', UNCHANGED flash, NEW k \in Keys
  PROVE  Value(k)' = Value(k)
BY SameValue DEF OpensUnder, Best

LEMMA SaveReadsSame ==
  ASSUME StoreInv, TypeOK', UNCHANGED flash, op.key \in Keys, op'.key = op.key
  PROVE  Value(op.key)' = Value(op.key)
<1>1. PICK k \in Keys : k = op.key /\ k = op'.key
  OBVIOUS
<1>2. Value(k)' = Value(k)
  BY SameFlash
<1>3. Value(op.key) = Value(k)
  BY <1>1
<1>4. Value(op.key)' = Value(k)'
  BY <1>1 DEF Value, Newest, Found, OpensUnder
<1> QED BY <1>2, <1>3, <1>4

(* The search for a slot finds none, or one for this save to program. *)
LEMMA ChooseFacts ==
  ASSUME TypeOK, Choose
  PROVE  /\ op.step = "choose" /\ op # NoOp /\ op.key \in Keys /\ UNCHANGED flash
         /\ \/ op' = NoOp /\ told' = "full"
            \/ /\ op'.step = "program" /\ op' # NoOp /\ UNCHANGED told
               /\ op'.key = op.key /\ op'.doc = op.doc /\ op'.change = op.change
<1>1. op.step = "choose" /\ UNCHANGED flash
  BY DEF Choose
<1>2. /\ op # NoOp
      /\ op \in [step : Steps, key : Keys, change : Changes, doc : SUBSET Changes,
                 age : Nat, live : Slots \cup {NoSlot}, target : Slots \cup {NoSlot}]
  BY <1>1, OpTypes DEF NoOp, Steps
<1>3. CASE End("full")
  BY <1>1, <1>2, <1>3 DEF End
<1>4. ASSUME NEW l, NEW i, op' = [op EXCEPT !.step = "program", !.live = l, !.target = i],
             UNCHANGED told
      PROVE  /\ op'.step = "program" /\ op' # NoOp /\ UNCHANGED told
             /\ op'.key = op.key /\ op'.doc = op.doc /\ op'.change = op.change
  <2>1. op' = [step |-> "program", key |-> op.key, change |-> op.change,
               doc |-> op.doc, age |-> op.age, live |-> l, target |-> i]
    BY <1>2, <1>4
  <2> QED BY <1>4, <2>1 DEF NoOp
<1>5. \/ End("full")
      \/ \E l, i : op' = [op EXCEPT !.step = "program", !.live = l, !.target = i] /\ UNCHANGED told
  BY DEF Choose
<1> QED BY <1>1, <1>2, <1>3, <1>4, <1>5

(* What the program of the slot leaves when it does not complete. *)
LEMMA DebrisValue ==
  ASSUME StoreInv, TypeOK', op.step = "program", NEW x \in {Empty, Garbage},
         flash' = [flash EXCEPT ![op.target] = x], NEW k \in Keys
  PROVE  Value(k)' = Value(k)
<1>1. op.target \in Slots /\ flash[op.target] = Empty
  BY ProgramFacts
<1>2. \A j \in Slots : j # op.target => flash'[j] = flash[j]
  BY DEF StoreInv, TypeOK
<1>3. flash'[op.target] = x
  BY <1>1 DEF StoreInv, TypeOK
<1>4. \A j \in Slots : OpensUnder(j, k)' => OpensUnder(j, k) /\ flash'[j] = flash[j]
  BY <1>2, <1>3 DEF OpensUnder, Empty, Garbage
<1>5. \A j \in Slots : Best(k, j) => OpensUnder(j, k)'
  BY <1>1, <1>2 DEF Best, OpensUnder, Empty
<1> QED BY <1>4, <1>5, SameValue

(* The copy lands: its key gains the save's change and no other key anything. *)
LEMMA LandedValue ==
  ASSUME StoreInv, DocInv, TypeOK', op.step = "program",
         flash' = [flash EXCEPT ![op.target] = Copy], UNCHANGED acked, NEW q \in Keys
  PROVE  Value(q)' = IF q = op.key THEN Value(q) \cup {op.change} ELSE Value(q)
<1>1. PICK t \in Slots, k \in Keys, a \in Nat, d \in SUBSET Changes :
        t = op.target /\ k = op.key /\ a = op.age /\ d = op.doc
  BY ProgramFacts
<1>2. flash[t] = Empty /\ acked[k] \subseteq d
      /\ \A j \in Slots : OpensUnder(j, k) => flash[j].age < a
  BY <1>1, ProgramFacts
<1>3. flash' = [flash EXCEPT ![t] = Sealed(k, a, d)]
  BY <1>1 DEF Copy
<1>4. flash'[t] = Sealed(k, a, d) /\ Best(k, t)'
  BY <1>2, <1>3, CopyLands
<1>5. CASE q = k
  <2>1. Value(k)' = d
    BY <1>4, ValueNext DEF Sealed
  <2>2. d = Value(k) \cup {op.change}
    BY <1>1 DEF DocInv
  <2> QED BY <1>1, <1>5, <2>1, <2>2
<1>6. CASE q # k
  <2>1. \A j \in Slots : j # t => flash'[j] = flash[j]
    BY <1>3 DEF StoreInv, TypeOK
  <2>2. ~OpensUnder(t, q)' /\ ~OpensUnder(t, q)
    BY <1>2, <1>4, <1>6 DEF OpensUnder, Sealed, Empty
  <2>3. \A j \in Slots : OpensUnder(j, q)' => OpensUnder(j, q) /\ flash'[j] = flash[j]
    BY <2>1, <2>2 DEF OpensUnder
  <2>4. \A j \in Slots : Best(q, j) => OpensUnder(j, q)'
    BY <2>1, <2>2 DEF Best, OpensUnder
  <2>5. Value(q)' = Value(q)
    BY <2>3, <2>4, SameValue
  <2> QED BY <1>1, <1>6, <2>5
<1> QED BY <1>5, <1>6

(* Emptying the old copy, or half of it, changes nothing that is read. *)
LEMMA ClearedValue ==
  ASSUME StoreInv, TypeOK', op.step = "clear",
         \/ flash' = flash
         \/ op.live # NoSlot /\ \E x \in {flash[op.live], Garbage, Empty} :
                                  flash' = [flash EXCEPT ![op.live] = x],
         NEW q \in Keys
  PROVE  Value(q)' = Value(q)
<1>1. CASE flash' = flash
  BY <1>1, SameFlash
<1>2. CASE op.live # NoSlot /\ \E x \in {flash[op.live], Garbage, Empty} :
                                 flash' = [flash EXCEPT ![op.live] = x]
  <2>1. PICK i \in Slots, t \in Slots, k \in Keys :
          /\ i = op.live /\ t = op.target /\ k = op.key
          /\ i # t /\ OpensUnder(i, k) /\ Best(k, t)
    BY <1>2, ClearFacts
  <2>2. PICK x \in {flash[i], Garbage, Empty} : flash' = [flash EXCEPT ![i] = x]
    BY <1>2, <2>1
  <2>3. flash'[i] = x /\ \A j \in Slots : j # i => flash'[j] = flash[j]
    BY <2>2 DEF StoreInv, TypeOK
  <2>4. \A j \in Slots : OpensUnder(j, q)' => OpensUnder(j, q) /\ flash'[j] = flash[j]
    BY <2>2, <2>3 DEF OpensUnder, Empty, Garbage
  <2>5. \A j \in Slots : Best(q, j) => j # i
    <3> SUFFICES ASSUME Best(q, i) PROVE FALSE
      OBVIOUS
    <3>1. q = k
      BY <2>1 DEF Best, OpensUnder
    <3>2. flash[i].age < flash[t].age /\ flash[t].age < flash[i].age
      BY <2>1, <3>1 DEF Best
    <3>3. flash[i].age \in Nat /\ flash[t].age \in Nat
      BY <2>1, CopyTypes DEF StoreInv, Best
    <3> QED BY <3>2, <3>3
  <2>6. \A j \in Slots : Best(q, j) => OpensUnder(j, q)'
    BY <2>3, <2>5 DEF Best, OpensUnder
  <2> QED BY <2>4, <2>6, SameValue
<1> QED BY <1>1, <1>2

LEMMA DocNext ==
  ASSUME ~ReadFaults, StoreInv, StoreInv', DocInv, [Next]_vars
  PROVE  DocInv'
<1>0. TypeOK'
  BY DEF StoreInv
<1>1. ASSUME NEW k \in Keys, NEW c \in Changes, Load(k, c) PROVE DocInv'
  <2> DEFINE i == Newest(k, {})
             d == (IF i = NoSlot THEN {} ELSE flash[i].doc) \cup {c}
  <2>1. op' = [step |-> "choose", key |-> k, change |-> c, doc |-> d,
               age |-> NextAge(i), live |-> NoSlot, target |-> NoSlot]
    BY <1>1 DEF Load, Unreads
  <2>2. d = Value(k) \cup {c}
    BY DEF Value
  <2>3. Value(k)' = Value(k)
    BY <1>0, <1>1, SameFlash DEF Load
  <2> HIDE DEF i, d
  <2>4. op'.doc = d /\ op'.key = k /\ op'.change = c
    BY <2>1
  <2>5. Value(op.key)' = Value(k)'
    BY <2>4 DEF Value, Newest, Found, OpensUnder
  <2> QED BY <2>2, <2>3, <2>4, <2>5 DEF DocInv
<1>2. CASE op' = NoOp
  BY <1>2 DEF DocInv, NoOp
<1>3. CASE Choose /\ op' # NoOp
  <2>1. op.step = "choose" /\ op.key \in Keys /\ UNCHANGED flash
        /\ op'.doc = op.doc /\ op'.key = op.key /\ op'.change = op.change
    BY <1>3, ChooseFacts DEF StoreInv
  <2>2. Value(op.key)' = Value(op.key)
    BY <1>0, <2>1, SaveReadsSame
  <2> QED BY <2>1, <2>2 DEF DocInv
<1>4. CASE Program \/ Verify
  <2>1. op'.step \in {"verify", "clear"}
    <3>1. op.step \in Steps
      BY <1>4 DEF Program, Verify, Steps
    <3> QED BY <1>4, <3>1, OpTypes DEF Program, Verify, StoreInv, Steps
  <2> QED BY <2>1 DEF DocInv
<1>5. CASE UNCHANGED vars
  <2>1. UNCHANGED <<op, flash>>
    BY <1>5 DEF vars
  <2>2. op.step \in {"choose", "program"} => op.key \in Keys
    BY OpTypes DEF StoreInv, Steps
  <2>3. op.step \in {"choose", "program"} => Value(op.key)' = Value(op.key)
    BY <1>0, <2>1, <2>2, SaveReadsSame
  <2> QED BY <2>1, <2>3 DEF DocInv
<1> QED BY <1>1, <1>2, <1>3, <1>4, <1>5
    DEF Next, LoadFails, ProgramFails, VerifyFails, Clear, ClearFails, Acknowledge, PowerCut, End

-----------------------------------------------------------------------------
(* Every step is one of the promise's. *)

Values == [k \in Keys |-> Value(k)]
Saving == IF op = NoOp THEN NoSave ELSE <<op.key, op.change>>
Told   == IF told = "full" THEN "failed" ELSE told

LEMMA Underway ==
  ASSUME TypeOK, op # NoOp
  PROVE  /\ op.key \in Keys /\ op.change \in Changes
         /\ Saving = <<op.key, op.change>> /\ Saving # NoSave
BY StoreAssumption DEF TypeOK, Saving

(* A save that ends without its acknowledgement gives up, with its change read
   or not. *)
LEMMA EndGivesUp ==
  ASSUME TypeOK, op # NoOp, op' = NoOp, told' \in {"failed", "full", "cut"},
         \/ \A k \in Keys : Value(k)' = Value(k)
         \/ \A k \in Keys : Value(k)' = IF k = op.key THEN Value(k) \cup {op.change} ELSE Value(k)
  PROVE  Promise!GiveUp
<1>1. Saving = <<op.key, op.change>> /\ Saving # NoSave /\ Saving' = NoSave
  BY Underway DEF Saving
<1>2. Told' \in {"failed", "cut"}
  BY DEF Told
<1>3. Values' \in {Values, [Values EXCEPT ![op.key] = @ \cup {op.change}]}
  BY DEF Values
<1>4. Promise!Landed = [Values EXCEPT ![op.key] = @ \cup {op.change}]
  BY <1>1 DEF Promise!Landed, Values, Saving
<1> QED BY <1>1, <1>2, <1>3, <1>4 DEF Promise!GiveUp, Values, Saving, Told

LEMMA PowerCutIsPromised ==
  ASSUME StoreInv, DocInv, TypeOK', PowerCut
  PROVE  Promise!Next
<1>1. op' = NoOp /\ told' = "cut" /\ UNCHANGED acked
  BY DEF PowerCut, End
<1>2. CASE op.step = "program"
  <2>1. op # NoOp
    BY <1>2 DEF NoOp
  <2>2. PICK x \in {Empty, Garbage, Copy} : flash' = [flash EXCEPT ![op.target] = x]
    BY <1>2 DEF PowerCut, Torn
  <2>3. CASE x = Copy
    BY <1>1, <1>2, <2>1, <2>2, <2>3, LandedValue, EndGivesUp DEF StoreInv, Promise!Next
  <2>4. CASE x \in {Empty, Garbage}
    BY <1>1, <1>2, <2>1, <2>2, <2>4, DebrisValue, EndGivesUp DEF StoreInv, Promise!Next
  <2> QED BY <2>3, <2>4
<1>3. CASE op.step = "clear"
  <2>1. op # NoOp
    BY <1>3 DEF NoOp
  <2>2. \/ flash' = flash
        \/ op.live # NoSlot /\ \E x \in {flash[op.live], Garbage, Empty} :
                                 flash' = [flash EXCEPT ![op.live] = x]
    BY <1>3 DEF PowerCut, Torn
  <2>3. \A q \in Keys : Value(q)' = Value(q)
    BY <1>3, <2>2, ClearedValue
  <2> QED BY <1>1, <2>1, <2>3, EndGivesUp DEF StoreInv, Promise!Next
<1>4. CASE op.step \notin {"program", "clear"}
  <2>1. flash' = flash
    BY <1>4 DEF PowerCut, Torn
  <2>2. \A q \in Keys : Value(q)' = Value(q)
    BY <2>1, SameFlash
  <2>3. CASE op # NoOp
    BY <1>1, <2>2, <2>3, EndGivesUp DEF StoreInv, Promise!Next
  <2>4. CASE op = NoOp
    <3>1. Values' = Values
      BY <2>2 DEF Values
    <3>2. Saving = NoSave /\ Saving' = NoSave /\ Told' = "cut"
      BY <1>1, <2>4 DEF Saving, Told
    <3>3. Promise!Cut
      BY <3>1, <3>2 DEF Promise!Cut, Values, Saving, Told
    <3> QED BY <3>3 DEF Promise!Next
  <2> QED BY <2>3, <2>4
<1> QED BY <1>2, <1>3, <1>4

(* The acknowledgement: the change is in what is read. *)
LEMMA AckIsPromised ==
  ASSUME StoreInv, TypeOK', Clear \/ ClearFails
  PROVE  Promise!Done
<1>1. op.step = "clear" /\ op # NoOp /\ op' = NoOp /\ told' = "ok"
  BY DEF Clear, ClearFails, Acknowledge, End, NoOp
<1>2. \/ flash' = flash
      \/ op.live # NoSlot /\ \E x \in {flash[op.live], Garbage, Empty} :
                               flash' = [flash EXCEPT ![op.live] = x]
  BY DEF Clear, ClearFails, Cleared
<1>3. \A q \in Keys : Value(q)' = Value(q)
  BY <1>1, <1>2, ClearedValue
<1>4. op.key \in Keys /\ op.change \in Value(op.key)
  BY <1>1, ClearFacts, ValueNow DEF StoreInv
<1>5. Values' = Values /\ op.change \in Values[op.key]
  BY <1>3, <1>4 DEF Values
<1>6. Saving = <<op.key, op.change>> /\ Saving # NoSave /\ Saving' = NoSave /\ Told' = "ok"
  BY <1>1, Underway DEF StoreInv, Saving, Told
<1> QED BY <1>5, <1>6 DEF Promise!Done, Values, Saving, Told

LEMMA NextIsPromised ==
  ASSUME ~ReadFaults, StoreInv, DocInv, StoreInv', [Next]_vars
  PROVE  [Promise!Next]_(Promise!vars)
<1>0. TypeOK /\ TypeOK'
  BY DEF StoreInv
<1>1. ASSUME NEW k \in Keys, NEW c \in Changes, Load(k, c) PROVE Promise!Next
  <2>1. op = NoOp /\ op' # NoOp /\ op'.key = k /\ op'.change = c /\ told' = "none"
    BY <1>1 DEF Load, NoOp
  <2>2. Saving = NoSave /\ Saving' = <<k, c>> /\ Told' = "none"
    BY <2>1 DEF Saving, Told
  <2>3. Values' = Values
    BY <1>0, <1>1, SameFlash DEF Values, Load
  <2>4. Promise!Begin
    BY <2>2, <2>3 DEF Promise!Begin, Values, Saving, Told
  <2> QED BY <2>4 DEF Promise!Next
<1>2. CASE \/ LoadFails \/ VerifyFails
           \/ Choose /\ op' = NoOp
  <2>1. op # NoOp /\ op' = NoOp /\ told' \in {"failed", "full"} /\ UNCHANGED flash
    <3>1. CASE LoadFails \/ VerifyFails
      BY <3>1 DEF LoadFails, VerifyFails, End, NoOp
    <3>2. CASE Choose /\ op' = NoOp
      BY <1>0, <3>2, ChooseFacts
    <3> QED BY <1>2, <3>1, <3>2
  <2>2. \A q \in Keys : Value(q)' = Value(q)
    BY <1>0, <2>1, SameFlash
  <2> QED BY <1>0, <2>1, <2>2, EndGivesUp DEF Promise!Next
<1>3. CASE \/ Verify
           \/ Choose /\ op' # NoOp
  <2>1. UNCHANGED <<flash, told>>
        /\ op # NoOp /\ op' # NoOp /\ op'.key = op.key /\ op'.change = op.change
    <3>1. CASE Verify
      BY <1>0, <3>1, OpTypes DEF Verify, NoOp, Steps
    <3>2. CASE Choose /\ op' # NoOp
      BY <1>0, <3>2, ChooseFacts
    <3> QED BY <1>3, <3>1, <3>2
  <2>2. UNCHANGED <<Values, Saving, Told>>
    BY <1>0, <2>1, SameFlash DEF Values, Saving, Told
  <2> QED BY <2>2 DEF Promise!vars, Values, Saving, Told
<1>4. CASE Program
  <2>1. op.step = "program" /\ op # NoOp /\ UNCHANGED <<acked, told>>
    BY <1>4 DEF Program, NoOp
  <2>2. op' # NoOp /\ op'.key = op.key /\ op'.change = op.change
    BY <1>0, <1>4, <2>1, OpTypes DEF Program, NoOp, Steps
  <2>3. \A q \in Keys : Value(q)' = IF q = op.key THEN Value(q) \cup {op.change} ELSE Value(q)
    BY <1>0, <1>4, <2>1, LandedValue DEF Program
  <2>4. Values' = [Values EXCEPT ![op.key] = @ \cup {op.change}]
    BY <2>3 DEF Values
  <2>5. Saving = <<op.key, op.change>> /\ Saving # NoSave /\ Saving' = Saving /\ Told' = Told
    BY <1>0, <2>1, <2>2, Underway DEF Saving, Told
  <2>6. Promise!Landed = [Values EXCEPT ![op.key] = @ \cup {op.change}]
    BY <2>5 DEF Promise!Landed, Values, Saving
  <2>7. Promise!Land
    BY <2>4, <2>5, <2>6 DEF Promise!Land, Values, Saving, Told
  <2> QED BY <2>7 DEF Promise!Next
<1>5. CASE ProgramFails
  <2>1. op.step = "program" /\ op # NoOp /\ op' = NoOp /\ told' = "failed" /\ UNCHANGED acked
    BY <1>5 DEF ProgramFails, End, NoOp
  <2>2. PICK x \in {Empty, Garbage, Copy} : flash' = [flash EXCEPT ![op.target] = x]
    BY <1>5 DEF ProgramFails
  <2>3. CASE x = Copy
    BY <1>0, <2>1, <2>2, <2>3, LandedValue, EndGivesUp DEF Promise!Next
  <2>4. CASE x \in {Empty, Garbage}
    BY <1>0, <2>1, <2>2, <2>4, DebrisValue, EndGivesUp DEF Promise!Next
  <2> QED BY <2>3, <2>4
<1>6. CASE Clear \/ ClearFails
  BY <1>0, <1>6, AckIsPromised DEF Promise!Next
<1>7. CASE PowerCut
  BY <1>0, <1>7, PowerCutIsPromised
<1>8. CASE UNCHANGED vars
  BY <1>8 DEF vars, Promise!vars, Value, Newest, Found, OpensUnder
<1> QED BY <1>1, <1>2, <1>3, <1>4, <1>5, <1>6, <1>7, <1>8 DEF Next

(* To whoever reads it, the slots, the scans and the power cuts are one object
   per key, which gains a save's change whole or not at all, and a save is
   reported done only with its change in there. *)
THEOREM StoreKeepsPromise == ~ReadFaults /\ Spec => KeepsPromise
<1>1. Init => Promise!Init /\ DocInv
  <2> SUFFICES ASSUME Init PROVE Promise!Init /\ DocInv
    OBVIOUS
  <2>1. \A k \in Keys : Value(k) = {}
    BY NoValueNow DEF Init, OpensUnder, Empty
  <2> QED BY <2>1 DEF Init, Promise!Init, DocInv, NoOp
<1>2. CASE ReadFaults
  BY <1>2
<1>3. CASE ~ReadFaults
  <2>1. StoreInv /\ StoreInv' /\ DocInv /\ [Next]_vars => DocInv'
    BY <1>3, DocNext
  <2>2. StoreInv /\ StoreInv' /\ DocInv /\ [Next]_vars => [Promise!Next]_(Promise!vars)
    BY <1>3, NextIsPromised
  <2> QED BY <1>1, <1>3, <2>1, <2>2, StoreInvariant, PTL DEF Spec, KeepsPromise, Promise!Spec
<1> QED BY <1>2, <1>3
=============================================================================
