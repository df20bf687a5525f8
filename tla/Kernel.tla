------------------------------- MODULE Kernel -------------------------------
(* The preemptive kernel (crates/catcard-kernel): tasks, the SysTick/PendSV
   context switch, the preemption lock with its deferred switch, the stack
   guards, and the SVC protocol that runs one unprivileged app inside a task.

   One core: thread code and exception handlers interleave, and a handler is
   atomic with respect to thread code.  PendSV may itself be interrupted by
   SysTick, but the two share only the pending bit, so SysTick-inside-PendSV is
   SysTick-after-PendSV. *)
EXTENDS Naturals, FiniteSets

CONSTANTS MaxTasks,    \* MAX_TASKS, size of the task table
          NoTask,      \* CURRENT = usize::MAX
          Launchers,   \* tasks whose code calls app::run
          MaxNesting   \* bound: without_preemption inside without_preemption

ASSUME KernelAssumption ==
  /\ MaxTasks \in Nat \ {0}
  /\ NoTask \notin Nat
  /\ Launchers \subseteq 0 .. MaxTasks - 1
  /\ MaxNesting \in Nat \ {0}

Tasks == 0 .. MaxTasks - 1

VARIABLES
  running,    \* RUNNING
  count,      \* COUNT, tasks spawned
  current,    \* CURRENT
  pend,       \* PendSV pending
  masked,     \* interrupts masked by `critical`
  lock,       \* PREEMPT_LOCK
  hold,       \* how many without_preemption closures each task is inside
  releasing,  \* tasks between the fetch_sub and the swap of without_preemption
  deferred,   \* SWITCH_DEFERRED
  checks,     \* GUARD_CHECKS
  guard,      \* guard[t]: the word under t's stack is intact
  halted,     \* the overflow hook, or the fault handler, has taken the machine
  psp,        \* context PSP points at
  sp,         \* Tcb.sp of the tasks that are not running
  npriv,      \* CONTROL.nPRIV: thread mode is unprivileged
  unpriv,     \* Tcb.unpriv
  seen,       \* app::SEEN
  app         \* app::STATE

machine == <<running, count, current, pend, masked, halted>>
locking == <<lock, hold, releasing, deferred>>
guards  == <<checks, guard>>
context == <<psp, sp, npriv, unpriv, seen, app>>
vars    == <<machine, locking, guards, context>>

(* A saved context names the stack it lies on: a task's own code, a service
   run by the trampoline under the task's own frame, or the app. *)
OnTask(t)    == <<"task", t>>
OnService(t) == <<"service", t>>
OnApp        == <<"app", NoTask>>
NoFrame      == <<"none", NoTask>>
Frames == {OnTask(t) : t \in Tasks} \cup {OnService(t) : t \in Tasks}
            \cup {OnApp, NoFrame}

Idle == [active |-> FALSE, inService |-> FALSE, launch |-> NoFrame,
         resume |-> NoFrame, exit |-> "code"]

Init ==
  /\ running = FALSE /\ count = 0 /\ current = NoTask
  /\ pend = FALSE /\ masked = FALSE /\ halted = FALSE
  /\ lock = 0 /\ hold = [t \in Tasks |-> 0] /\ releasing = {} /\ deferred = FALSE
  /\ checks \in BOOLEAN /\ guard = [t \in Tasks |-> TRUE]
  /\ psp = NoFrame /\ sp = [t \in Tasks |-> NoFrame]
  /\ npriv = FALSE /\ unpriv = [t \in Tasks |-> FALSE]
  /\ seen = FALSE /\ app = Idle

-----------------------------------------------------------------------------
(* Before the scheduler. *)

Spawn ==
  /\ ~running /\ count < MaxTasks
  /\ count' = count + 1
  /\ sp' = [sp EXCEPT ![count] = OnTask(count)]
  /\ UNCHANGED <<running, current, pend, masked, halted, locking, guards,
                 psp, npriv, unpriv, seen, app>>

Start ==
  /\ ~running /\ count > 0
  /\ running' = TRUE
  /\ pend' = TRUE
  /\ UNCHANGED <<count, current, masked, halted, locking, guards, context>>

-----------------------------------------------------------------------------
(* Exceptions. *)

SysTick ==
  /\ running /\ ~halted /\ ~masked
  /\ pend' = TRUE
  /\ UNCHANGED <<running, count, current, masked, halted, locking, guards, context>>

PendSV == running /\ ~halted /\ ~masked /\ pend

NextTask == IF current = NoTask THEN 0 ELSE (current + 1) % count

(* Mutant: only the incoming task's guard is read. *)
IncomingGuardIntact == guard[NextTask]
(* The guards the switch reads: the outgoing task's, then the incoming one's. *)
GuardsIntact ==
  /\ current # NoTask => guard[current]
  /\ guard[NextTask]

(* Mutant: the lock is not looked at. *)
NeverLocked == TRUE
(* The bootstrap's throwaway context is always left; a task is left only when
   nobody is inside without_preemption. *)
MayLeave == current = NoTask \/ lock = 0

(* Mutant: the outgoing stack pointer is dropped. *)
NothingSaved == sp
SavedContexts == IF current = NoTask THEN sp ELSE [sp EXCEPT ![current] = psp]

(* Mutant: the privilege bit stays with thread mode. *)
NoPrivilegeSaved == unpriv
SavedPrivileges ==
  IF current # NoTask /\ seen THEN [unpriv EXCEPT ![current] = npriv] ELSE unpriv

(* The lock is held: the task keeps the processor and the switch is owed. *)
Defer ==
  /\ PendSV /\ ~MayLeave
  /\ pend' = FALSE
  /\ deferred' = TRUE
  /\ UNCHANGED <<running, count, current, masked, halted, lock, hold, releasing,
                 guards, context>>

Switch ==
  /\ PendSV /\ MayLeave
  /\ checks => GuardsIntact
  /\ pend' = FALSE
  /\ current' = NextTask
  /\ sp' = SavedContexts
  /\ psp' = SavedContexts[NextTask]
  /\ unpriv' = SavedPrivileges
  /\ npriv' = IF seen THEN SavedPrivileges[NextTask] ELSE npriv
  /\ UNCHANGED <<running, count, masked, halted, locking, guards, seen, app>>

(* overflow(): neither task is resumed. *)
SwitchFindsOverflow ==
  /\ PendSV /\ MayLeave
  /\ checks /\ ~GuardsIntact
  /\ halted' = TRUE
  /\ UNCHANGED <<running, count, current, pend, masked, locking, guards, context>>

-----------------------------------------------------------------------------
(* Thread code of the current task. *)

Executing(t) == running /\ ~halted /\ current = t
(* Firmware code: the task itself, or a service it runs for the app. *)
InFirmware(t) == Executing(t) /\ psp \in {OnTask(t), OnService(t)}

(* Closures nest, so a lock is neither taken nor dropped under `critical`: the
   only closures passed to critical are a few loads and stores. *)
Lock(t) ==
  /\ InFirmware(t) /\ t \notin releasing /\ ~masked /\ hold[t] < MaxNesting
  /\ lock' = lock + 1
  /\ hold' = [hold EXCEPT ![t] = @ + 1]
  /\ UNCHANGED <<machine, releasing, deferred, guards, context>>

(* Mutant: the value fetch_sub leaves is compared, not the one it returns. *)
SeesZero == lock = 0
(* fetch_sub returns the old value: 1 is the outermost release. *)
LastRelease == lock = 1

(* The fetch_sub: only the last release goes on to the swap. *)
Unlock(t) ==
  /\ InFirmware(t) /\ t \notin releasing /\ ~masked /\ hold[t] > 0
  /\ lock' = lock - 1
  /\ hold' = [hold EXCEPT ![t] = @ - 1]
  /\ releasing' = IF LastRelease THEN releasing \cup {t} ELSE releasing
  /\ UNCHANGED <<machine, deferred, guards, context>>

(* Mutant: the debt is cleared and not paid. *)
DebtForgiven == pend
DebtPaid == pend \/ deferred

(* The swap, and the switch that was owed. *)
SettleDebt(t) ==
  /\ InFirmware(t) /\ t \in releasing
  /\ releasing' = releasing \ {t}
  /\ deferred' = FALSE
  /\ pend' = DebtPaid
  /\ UNCHANGED <<running, count, current, masked, halted, lock, hold, guards, context>>

Yield(t) ==
  /\ InFirmware(t) /\ t \notin releasing
  /\ pend' = TRUE
  /\ UNCHANGED <<running, count, current, masked, halted, locking, guards, context>>

(* critical: interrupts masked for the length of a closure. *)
Mask(t) ==
  /\ InFirmware(t) /\ t \notin releasing /\ ~masked
  /\ masked' = TRUE
  /\ UNCHANGED <<running, count, current, pend, halted, locking, guards, context>>

Unmask(t) ==
  /\ InFirmware(t) /\ t \notin releasing /\ masked
  /\ masked' = FALSE
  /\ UNCHANGED <<running, count, current, pend, halted, locking, guards, context>>

SetGuardChecks(t) ==
  /\ InFirmware(t) /\ t \notin releasing
  /\ checks' = ~checks
  /\ UNCHANGED <<machine, locking, guard, context>>

(* The task's own stack runs into its guard word. *)
Overflow(t) ==
  /\ InFirmware(t) /\ guard[t]
  /\ guard' = [guard EXCEPT ![t] = FALSE]
  /\ UNCHANGED <<machine, locking, checks, context>>

-----------------------------------------------------------------------------
(* The app: SVC and the faults it takes. *)

(* app::run, up to and including SVC ENTER; its caller promises that no app is
   running, and it is thread code outside any closure. *)
SvcEnter(t) ==
  /\ Executing(t) /\ psp = OnTask(t) /\ t \in Launchers
  /\ hold[t] = 0 /\ t \notin releasing /\ ~masked
  /\ ~app.active
  /\ app' = [active |-> TRUE, inService |-> FALSE, launch |-> psp,
             resume |-> app.resume, exit |-> "code"]
  /\ seen' = TRUE
  /\ psp' = OnApp
  /\ npriv' = TRUE
  /\ UNCHANGED <<machine, locking, guards, sp, unpriv>>

(* Mutant: whoever issues the SVC is taken for the app. *)
FromAnyone(t) == Executing(t) /\ app.active
(* The SVC numbers an app may use are honoured only from unprivileged code
   outside a service. *)
FromApp(t) == Executing(t) /\ npriv /\ app.active /\ ~app.inService

(* finish: the task is put back where run left it. *)
Finish(how) ==
  /\ app' = [app EXCEPT !.active = FALSE, !.inService = FALSE, !.exit = how]
  /\ psp' = app.launch
  /\ npriv' = FALSE
  /\ UNCHANGED <<machine, locking, guards, sp, unpriv, seen>>

SvcExit(t) == FromApp(t) /\ Finish("code")

SvcCall(t) ==
  /\ FromApp(t)
  /\ app' = [app EXCEPT !.inService = TRUE, !.resume = psp]
  /\ psp' = OnService(app.launch[2])
  /\ npriv' = FALSE
  /\ UNCHANGED <<machine, locking, guards, sp, unpriv, seen>>

(* The trampoline's SVC RETURN, after the dispatcher has come back. *)
SvcReturn(t) ==
  /\ Executing(t) /\ psp = OnService(t)
  /\ hold[t] = 0 /\ t \notin releasing /\ ~masked
  /\ ~npriv /\ app.active /\ app.inService
  /\ app' = [app EXCEPT !.inService = FALSE]
  /\ psp' = app.resume
  /\ npriv' = TRUE
  /\ UNCHANGED <<machine, locking, guards, sp, unpriv, seen>>

(* Any other SVC number from unprivileged code, or a fault in the app: both end
   the app and only the app. *)
AppBreaksRules(t) == FromApp(t) /\ Finish("fault")

(* A fault anywhere else is the firmware's own handler's, which resets. *)
FirmwareFault(t) ==
  /\ InFirmware(t) /\ ~(app.active /\ ~app.inService /\ npriv)
  /\ halted' = TRUE
  /\ UNCHANGED <<running, count, current, pend, masked, locking, guards, context>>

-----------------------------------------------------------------------------
LockStep(t) == Lock(t) \/ Unlock(t) \/ SettleDebt(t)
TaskStep(t) == Yield(t) \/ Mask(t) \/ Unmask(t) \/ SetGuardChecks(t)
                 \/ Overflow(t) \/ FirmwareFault(t)
AppStep(t) == SvcEnter(t) \/ SvcExit(t) \/ SvcCall(t) \/ SvcReturn(t)
                \/ AppBreaksRules(t)
ExceptionStep == SysTick \/ Defer \/ Switch \/ SwitchFindsOverflow

Next == Spawn \/ Start \/ ExceptionStep
          \/ \E t \in Tasks : LockStep(t) \/ TaskStep(t) \/ AppStep(t)

Spec == Init /\ [][Next]_vars

(* SysTick keeps ticking, an exception that is pending again and again while
   nothing holds it off is taken, and the closures passed to
   without_preemption and critical end, the outermost one too. *)
Fairness ==
  /\ SF_vars(SysTick)
  /\ SF_vars(Switch \/ SwitchFindsOverflow)
  /\ SF_vars(\E t \in Tasks : Unlock(t))
  /\ SF_vars(\E t \in Tasks : LastRelease /\ Unlock(t))
  /\ SF_vars(\E t \in Tasks : SettleDebt(t))
  /\ SF_vars(\E t \in Tasks : Unmask(t))

FairSpec == Spec /\ Fairness

-----------------------------------------------------------------------------
(* Properties. *)

TypeOK ==
  /\ running \in BOOLEAN /\ count \in 0 .. MaxTasks
  /\ current \in (0 .. count - 1) \cup {NoTask}
  /\ pend \in BOOLEAN /\ masked \in BOOLEAN /\ halted \in BOOLEAN
  /\ lock \in Nat /\ hold \in [Tasks -> Nat] /\ releasing \subseteq Tasks
  /\ deferred \in BOOLEAN
  /\ checks \in BOOLEAN /\ guard \in [Tasks -> BOOLEAN]
  /\ psp \in Frames /\ sp \in [Tasks -> Frames]
  /\ npriv \in BOOLEAN /\ unpriv \in [Tasks -> BOOLEAN] /\ seen \in BOOLEAN
  /\ app \in [active : BOOLEAN, inService : BOOLEAN, launch : Frames,
              resume : Frames, exit : {"code", "fault"}]

(* A task inside without_preemption is the one running, and the shared counter
   counts its closures and no one else's: the lock is mutual exclusion. *)
LockHolderRuns ==
  \A t \in Tasks : hold[t] > 0 => current = t /\ lock = hold[t]

(* A switch that the lock put off is never forgotten: as long as it is owed,
   the lock is still held or some task is about to settle it. *)
OwedSwitchRemembered == deferred => lock > 0 \/ releasing # {}

(* Where task t's thread code is, whether or not t is running. *)
ContextOf(t) == IF t = current THEN psp ELSE sp[t]

(* Every task resumes on its own stack; only the launcher of the active app may
   be in the app, and it is there exactly when no service runs. *)
OwnContext ==
  \A t \in 0 .. count - 1 :
    IF app.active /\ app.launch = OnTask(t)
    THEN ContextOf(t) = IF app.inService THEN OnService(t) ELSE OnApp
    ELSE ContextOf(t) = OnTask(t)

(* nPRIV belongs to thread mode, yet it behaves as if each task had its own:
   the processor is unprivileged exactly while it is in the app. *)
PrivilegeFollowsApp == npriv <=> psp = OnApp

(* While the checks stay on, a task whose stack has run into its guard cannot
   go on for ever: whether it overflowed in the open, masked, inside the lock
   with its switch put off, or before the checks came on, and whatever it does
   next, the machine halts with an overflowed task still the running one, so
   nobody else is run on top of what the stack has written over. *)
Overflowed == current # NoTask /\ ~guard[current]
OverflowIsCaught ==
  (running /\ checks /\ Overflowed) ~> (~checks \/ (halted /\ Overflowed))

(* An app that has been entered is left only back to its launcher: no task
   switch ever ends it, and its launcher never runs its own code meanwhile. *)
AppEndsInItsLauncher ==
  [][app.active /\ ~app'.active =>
       psp' = app.launch /\ psp' = OnTask(current')]_vars

Abstract == INSTANCE RoundRobin WITH admitted <- count, turn <- current,
                                     stopped <- halted

(* Every switch hands the processor to the next spawned task in the ring, and it
   keeps being handed round: no lock, mask, deferred switch or app starves
   anybody while the machine lives. *)
ImplementsRoundRobin == Abstract!FairSpec
=============================================================================
