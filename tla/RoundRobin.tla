----------------------------- MODULE RoundRobin -----------------------------
(* What the kernel promises its callers: tasks are admitted before the
   scheduler starts, the first one admitted runs first, the processor is then
   handed round in the order of admission, and it keeps being handed round
   until the machine stops for good.  Nothing here says how: the exceptions,
   the preemption lock and the saved contexts are Kernel's business. *)
EXTENDS Naturals

CONSTANTS MaxTasks,  \* capacity of the task table
          NoTask     \* "nobody has the processor yet"

VARIABLES admitted,  \* number of tasks admitted so far
          turn,      \* whose turn it is
          stopped    \* the machine has stopped and never goes on

vars == <<admitted, turn, stopped>>

Init == admitted = 0 /\ turn = NoTask /\ stopped = FALSE

Admit == /\ turn = NoTask /\ admitted < MaxTasks
         /\ admitted' = admitted + 1
         /\ UNCHANGED <<turn, stopped>>

HandOver == /\ ~stopped /\ admitted > 0
            /\ turn' = IF turn = NoTask THEN 0 ELSE (turn + 1) % admitted
            /\ UNCHANGED <<admitted, stopped>>

Stop == /\ turn # NoTask
        /\ stopped' = TRUE
        /\ UNCHANGED <<admitted, turn>>

Next == Admit \/ HandOver \/ Stop

Spec == Init /\ [][Next]_vars

(* Once somebody has the processor it does not stay there. *)
KeepsMoving == WF_vars(turn # NoTask /\ HandOver)

FairSpec == Spec /\ KeepsMoving
=============================================================================
