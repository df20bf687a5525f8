--------------------------- MODULE SettingsPromise ---------------------------
(* What the settings store promises each wallet key, whatever the power and the
   medium do: one settings object per key that only ever gains the change being
   saved, and a save is reported done only when its change is in the object. *)
CONSTANTS Keys,      \* wallet keys, one settings object each
          Changes,   \* the changes ever saved
          NoSave     \* no save under way

VARIABLES value,   \* the changes in each key's settings
          saving,  \* the save under way: key and change
          told     \* how the last save ended: "none", "ok", "failed", "cut"

vars == <<value, saving, told>>

Init == /\ value = [k \in Keys |-> {}]
        /\ saving = NoSave /\ told = "none"

Begin == /\ saving = NoSave
         /\ saving' \in Keys \X Changes
         /\ told' = "none"
         /\ UNCHANGED value

Landed == [value EXCEPT ![saving[1]] = @ \cup {saving[2]}]

Land == /\ saving # NoSave
        /\ value' = Landed
        /\ UNCHANGED <<saving, told>>

Done == /\ saving # NoSave
        /\ saving[2] \in value[saving[1]]
        /\ saving' = NoSave /\ told' = "ok"
        /\ UNCHANGED value

(* Refused, failed or cut short: the change is there whole or not at all. *)
GiveUp == /\ saving # NoSave
          /\ value' \in {value, Landed}
          /\ saving' = NoSave /\ told' \in {"failed", "cut"}

(* Power lost with no save under way. *)
Cut == /\ saving = NoSave /\ told' = "cut"
       /\ UNCHANGED <<value, saving>>

Next == Begin \/ Land \/ Done \/ GiveUp \/ Cut

Spec == Init /\ [][Next]_vars
=============================================================================
