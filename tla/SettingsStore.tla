---------------------------- MODULE SettingsStore ----------------------------
(* The settings store (crates/catcard-settings, store.rs over norslots.rs and
   the firmware's Files): every wallet key keeps its settings as one sealed
   copy among slots shared by all keys.  A save reads the newest copy, seals
   the changed object into an empty slot and then empties the old one.  Power
   may be cut between and inside any two medium operations; reads, writes and
   erases may fail.

   Sealing is abstract: a slot opens under the key it was sealed with and under
   no other, and a torn one under none.  A settings object is the set of the
   changes saved into it.  Saves are serialised by the foreground task. *)
EXTENDS Naturals, FiniteSets

CONSTANTS
  SlotCount,    \* Slots::count
  Keys,         \* keys whose settings share the slots
  Changes,      \* bound: the changes ever saved, each tried once
  NoSlot,       \* None
  NoSave,       \* no save under way
  ReadFaults,   \* a slot that fails to read is passed over by a scan
  Faults,       \* an operation may fail and say so
  PowerCuts     \* power may be cut at any moment

ASSUME StoreAssumption ==
  /\ SlotCount \in Nat \ {0}
  /\ NoSlot \notin Nat
  /\ NoSave \notin Keys \X Changes
  /\ {ReadFaults, Faults, PowerCuts} \subseteq BOOLEAN

Slots == 0 .. SlotCount - 1

VARIABLES
  flash,        \* content of every slot
  lastCleared,  \* LAST_CLEARED: the slot the last save emptied, while powered
  op,           \* the save under way
  tried,        \* changes for which a save was begun
  acked,        \* changes whose save was reported done, by key
  told          \* how the last save ended

vars == <<flash, lastCleared, op, tried, acked, told>>

Empty   == [kind |-> "empty"]
Garbage == [kind |-> "garbage"]
Sealed(k, a, d) == [kind |-> "sealed", key |-> k, age |-> a, doc |-> d]

NoOp == [step |-> "idle"]

Init == /\ flash = [i \in Slots |-> Empty]
        /\ lastCleared = NoSlot
        /\ op = NoOp /\ told = "none"
        /\ tried = {} /\ acked = [k \in Keys |-> {}]

-----------------------------------------------------------------------------
(* Reading. *)

OpensUnder(i, k) == flash[i].kind = "sealed" /\ flash[i].key = k

(* The copies of k a scan finds when the slots in `unread` fail to read. *)
Found(k, unread) == {i \in Slots \ unread : OpensUnder(i, k)}

(* Mutant: the first copy found is the settings. *)
FirstCopy(k, unread) ==
  LET c == Found(k, unread)
  IN IF c = {} THEN NoSlot ELSE CHOOSE i \in c : \A j \in c : i <= j
(* newest(): the highest age; the first slot scanned on a tie. *)
Newest(k, unread) ==
  LET c == Found(k, unread)
  IN IF c = {} THEN NoSlot
     ELSE CHOOSE i \in c : \A j \in c : \/ flash[j].age < flash[i].age
                                        \/ flash[j].age = flash[i].age /\ i <= j

(* What a fault-free read returns. *)
Value(k) == LET i == Newest(k, {}) IN IF i = NoSlot THEN {} ELSE flash[i].doc

Unreads == IF ReadFaults THEN SUBSET Slots ELSE {{}}

-----------------------------------------------------------------------------
(* Saving. *)

End(outcome) == op' = NoOp /\ told' = outcome

(* Mutant: the age is carried over as it was read. *)
SameAge(i) == IF i = NoSlot THEN 1 ELSE flash[i].age
(* stored_age, or zero, plus one. *)
NextAge(i) == IF i = NoSlot THEN 1 ELSE flash[i].age + 1

(* set / set_many: the object as stored now, or an empty one, with the change. *)
Load(k, c) ==
  /\ op = NoOp /\ c \in Changes \ tried
  /\ tried' = tried \cup {c}
  /\ \E unread \in Unreads :
       LET i == Newest(k, unread)
       IN op' = [step |-> "choose", key |-> k, change |-> c,
                 doc |-> (IF i = NoSlot THEN {} ELSE flash[i].doc) \cup {c},
                 age |-> NextAge(i), live |-> NoSlot, target |-> NoSlot]
  /\ told' = "none"
  /\ UNCHANGED <<flash, lastCleared, acked>>

(* The second read of the chosen copy, or the next scan's memory, fails. *)
LoadFails ==
  /\ Faults /\ op.step = "choose" /\ op.live = NoSlot
  /\ End("failed")
  /\ UNCHANGED <<flash, lastCleared, tried, acked>>

(* Mutant: any slot but the live one is taken for free. *)
NotOurs(live, unread) == (Slots \ unread) \ {live, lastCleared}
(* An empty slot, not the live one, not the one the last save emptied; an
   unreadable slot may be somebody's only copy. *)
FreeSlots(live, unread) ==
  {i \in Slots \ unread : flash[i] = Empty} \ {live, lastCleared}

(* write: the scan for the live copy and the search from a random start. *)
Choose ==
  /\ op.step = "choose"
  /\ \E unread1, unread2 \in Unreads :
       LET live == Newest(op.key, unread1)
           free == FreeSlots(live, unread2)
       IN IF free = {} THEN End("full")
          ELSE \E i \in free : /\ op' = [op EXCEPT !.step = "program",
                                                   !.live = live, !.target = i]
                               /\ UNCHANGED told
  /\ UNCHANGED <<flash, lastCleared, tried, acked>>

Copy == Sealed(op.key, op.age, op.doc)

(* NorSlots::write up to the last byte, or Files::write. *)
Program ==
  /\ op.step = "program"
  /\ flash' = [flash EXCEPT ![op.target] = Copy]
  /\ op' = [op EXCEPT !.step = "verify"]
  /\ UNCHANGED <<lastCleared, tried, acked, told>>

(* Erase or program failed: the slot is still empty, torn, or complete. *)
ProgramFails ==
  /\ Faults /\ op.step = "program"
  /\ \E x \in {Empty, Garbage, Copy} : flash' = [flash EXCEPT ![op.target] = x]
  /\ End("failed")
  /\ UNCHANGED <<lastCleared, tried, acked>>

(* The read-back: the save goes on only when the slot holds what was written. *)
Verify ==
  /\ op.step = "verify"
  /\ op' = [op EXCEPT !.step = "clear"]
  /\ UNCHANGED <<flash, lastCleared, tried, acked, told>>

VerifyFails ==
  /\ Faults /\ op.step = "verify"
  /\ End("failed")
  /\ UNCHANGED <<flash, lastCleared, tried, acked>>

Acknowledge == /\ acked' = [acked EXCEPT ![op.key] = @ \cup {op.change}]
               /\ End("ok")

(* The old copy is emptied; a key's first save has none. *)
Cleared == IF op.live = NoSlot THEN flash
           ELSE [flash EXCEPT ![op.live] = Empty]

Clear ==
  /\ op.step = "clear"
  /\ flash' = Cleared
  /\ lastCleared' = IF op.live = NoSlot THEN lastCleared ELSE op.live
  /\ Acknowledge
  /\ UNCHANGED tried

(* A failed erase is not the save's failure.  What it left is anything between
   the old copy and an empty slot; NorSlots remembers only a clear it saw done,
   Files remembers every one. *)
ClearFails ==
  /\ Faults /\ op.step = "clear" /\ op.live # NoSlot
  /\ \E x \in {flash[op.live], Garbage, Empty} :
       flash' = [flash EXCEPT ![op.live] = x]
  /\ lastCleared' \in {lastCleared, op.live}
  /\ Acknowledge
  /\ UNCHANGED tried

(* What the cells may hold when power goes during the operation under way. *)
Torn ==
  CASE op.step = "program" ->
         {[flash EXCEPT ![op.target] = x] : x \in {Empty, Garbage, Copy}}
    [] op.step = "clear" /\ op.live # NoSlot ->
         {[flash EXCEPT ![op.live] = x] : x \in {flash[op.live], Garbage, Empty}}
    [] OTHER -> {flash}

(* Power is cut and comes back: LAST_CLEARED is RAM. *)
PowerCut ==
  /\ PowerCuts
  /\ flash' \in Torn
  /\ lastCleared' = NoSlot
  /\ End("cut")
  /\ UNCHANGED <<tried, acked>>

Next == \/ \E k \in Keys, c \in Changes : Load(k, c)
        \/ LoadFails \/ Choose \/ Program \/ ProgramFails
        \/ Verify \/ VerifyFails \/ Clear \/ ClearFails \/ PowerCut

Spec == Init /\ [][Next]_vars

-----------------------------------------------------------------------------
(* Properties. *)

Copies == [kind : {"sealed"}, key : Keys, age : Nat, doc : SUBSET Changes]
Steps == {"choose", "program", "verify", "clear"}

TypeOK ==
  /\ flash \in [Slots -> {Empty, Garbage} \cup Copies]
  /\ lastCleared \in Slots \cup {NoSlot}
  /\ op \in {NoOp} \cup
       [step : Steps, key : Keys, change : Changes, doc : SUBSET Changes,
        age : Nat, live : Slots \cup {NoSlot}, target : Slots \cup {NoSlot}]
  /\ tried \subseteq Changes /\ acked \in [Keys -> SUBSET Changes]
  /\ told \in {"none", "ok", "failed", "full", "cut"}

(* No acknowledged change is ever missing from the settings a later read finds,
   through power cuts, torn slots, failed writes and failed clears. *)
AckedSurvives == \A k \in Keys : acked[k] \subseteq Value(k)

(* Two copies of one key never tie: "the newest" is always one copy. *)
AgesDistinct ==
  \A i, j \in Slots : \A k \in Keys :
    OpensUnder(i, k) /\ OpensUnder(j, k) /\ flash[i].age = flash[j].age => i = j

(* A readable copy is destroyed only when a newer one of the same key stays:
   at no point is there no valid slot, and no other wallet's file is touched. *)
NewerStays ==
  [][\A i \in Slots : flash[i].kind = "sealed" /\ flash'[i] # flash[i] =>
       \E j \in Slots \ {i} : /\ flash'[j].kind = "sealed"
                              /\ flash'[j].key = flash[i].key
                              /\ flash'[j].age > flash[i].age]_vars

(* The store keeps its promise to every key. *)
Promise == INSTANCE SettingsPromise WITH
  value  <- [k \in Keys |-> Value(k)],
  saving <- IF op = NoOp THEN NoSave ELSE <<op.key, op.change>>,
  told   <- IF told = "full" THEN "failed" ELSE told
KeepsPromise == Promise!Spec
=============================================================================
