---------------------------- MODULE KernelProofs ----------------------------
(* The kernel's lock, stacks and privilege, for any number of tasks, any set of
   launchers and any nesting of without_preemption. *)
EXTENDS Kernel, TLAPS

(* A saved context tells which stack it lies on. *)
LEMMA FrameFacts ==
  /\ \A s, t : OnTask(s) = OnTask(t) => s = t
  /\ \A s, t : OnService(s) = OnService(t) => s = t
  /\ \A s, t : OnTask(s) # OnService(t)
  /\ \A t : OnTask(t) # OnApp /\ OnService(t) # OnApp
  /\ \A t : OnTask(t) # NoFrame /\ OnService(t) # NoFrame
  /\ OnApp # NoFrame
  /\ \A t : OnTask(t)[2] = t
  /\ \A t \in Tasks : OnTask(t) \in Frames /\ OnService(t) \in Frames
  /\ OnApp \in Frames /\ NoFrame \in Frames
  BY DEF OnTask, OnService, OnApp, NoFrame, Frames

(* The ring never leaves the tasks spawned. *)
LEMMA NextTaskInRing ==
  ASSUME TypeOK, count > 0
  PROVE  NextTask \in 0 .. count - 1
  BY KernelAssumption DEF TypeOK, NextTask, Tasks

(* Before the first switch nobody holds anything, nothing runs and no stack has
   run over. *)
BootInv ==
  /\ ~running => current = NoTask /\ halted = FALSE
  /\ running => count > 0
  /\ current = NoTask => psp = NoFrame /\ lock = 0 /\ ~seen /\ \A t \in Tasks : guard[t]

(* The counter is the running task's own nesting depth; nobody else has one. *)
LockInv ==
  /\ \A t \in Tasks : hold[t] > 0 => current = t
  /\ current # NoTask => lock = hold[current]
  /\ OwedSwitchRemembered

(* The app's record: whose it is, and where a service returns to. *)
AppInv ==
  /\ ~seen => ~npriv /\ ~app.active /\ \A t \in Tasks : ~unpriv[t]
  /\ app.active => \E l \in 0 .. count - 1 : app.launch = OnTask(l)
  /\ app.inService => app.active /\ app.resume = OnApp

(* The saved privilege bit of a task that is not running goes with its saved
   stack pointer. *)
SavedInv ==
  /\ OwnContext
  /\ PrivilegeFollowsApp
  /\ \A t \in 0 .. count - 1 : t # current => (unpriv[t] <=> sp[t] = OnApp)

KernelInv == TypeOK /\ BootInv /\ LockInv /\ AppInv /\ SavedInv

LEMMA KernelInit == Init => KernelInv
<1> SUFFICES ASSUME Init PROVE KernelInv
  OBVIOUS
<1> USE FrameFacts, KernelAssumption DEF Init, Idle
<1>1. TypeOK
  <2>1. app \in [active : BOOLEAN, inService : BOOLEAN, launch : Frames,
                 resume : Frames, exit : {"code", "fault"}]
    OBVIOUS
  <2>2. count \in 0 .. MaxTasks /\ current \in (0 .. count - 1) \cup {NoTask}
    OBVIOUS
  <2>3. hold \in [Tasks -> Nat] /\ guard \in [Tasks -> BOOLEAN]
        /\ sp \in [Tasks -> Frames] /\ unpriv \in [Tasks -> BOOLEAN]
    OBVIOUS
  <2> QED BY <2>1, <2>2, <2>3 DEF TypeOK
<1>2. BootInv /\ LockInv
  BY DEF BootInv, LockInv, OwedSwitchRemembered, Tasks
<1>3. AppInv /\ SavedInv
  BY DEF AppInv, SavedInv, OwnContext, PrivilegeFollowsApp, Tasks
<1> QED BY <1>1, <1>2, <1>3 DEF KernelInv

-----------------------------------------------------------------------------
(* Steps that touch neither the lock nor any context. *)

LEMMA SpawnPreserves == KernelInv /\ Spawn => KernelInv'
<1> SUFFICES ASSUME KernelInv, Spawn PROVE KernelInv'
  OBVIOUS
<1> USE FrameFacts, KernelAssumption
    DEF KernelInv, TypeOK, BootInv, AppInv, SavedInv, Tasks, Spawn
<1>1. TypeOK'
  BY DEF locking, guards
<1>2. BootInv' /\ LockInv'
  BY DEF locking, guards, LockInv, OwedSwitchRemembered
<1>3. AppInv' /\ SavedInv'
  BY DEF OwnContext, ContextOf, PrivilegeFollowsApp
<1> QED BY <1>1, <1>2, <1>3

LEMMA QuietStepPreserves ==
  ASSUME KernelInv, NEW t \in Tasks,
         \/ Start \/ SysTick \/ SwitchFindsOverflow
         \/ TaskStep(t)
  PROVE  KernelInv'
<1> USE KernelAssumption DEF KernelInv, Tasks, Start, SysTick, SwitchFindsOverflow,
        PendSV, TaskStep, Yield, Mask, Unmask, SetGuardChecks, Overflow,
        FirmwareFault, InFirmware, Executing, machine, locking, guards, context
<1>1. TypeOK'
  BY DEF TypeOK
<1>2. BootInv'
  BY DEF TypeOK, BootInv
<1>3. LockInv'
  BY DEF LockInv, OwedSwitchRemembered
<1>4. AppInv' /\ SavedInv'
  BY DEF AppInv, SavedInv, OwnContext, ContextOf, PrivilegeFollowsApp
<1> QED BY <1>1, <1>2, <1>3, <1>4

-----------------------------------------------------------------------------
(* The switch. *)

LEMMA DeferPreserves == KernelInv /\ Defer => KernelInv'
<1> SUFFICES ASSUME KernelInv, Defer PROVE KernelInv'
  OBVIOUS
<1> USE DEF KernelInv, Defer, MayLeave, guards, context
<1>1. TypeOK'
  BY DEF TypeOK
<1>2. BootInv' /\ AppInv' /\ SavedInv'
  BY DEF BootInv, AppInv, SavedInv, OwnContext, ContextOf, PrivilegeFollowsApp
<1>3. LockInv'
  BY DEF TypeOK, LockInv, OwedSwitchRemembered
<1> QED BY <1>1, <1>2, <1>3

LEMMA SwitchPreserves == KernelInv /\ Switch => KernelInv'
<1> SUFFICES ASSUME KernelInv, Switch PROVE KernelInv'
  OBVIOUS
<1> USE DEF KernelInv
<1>1. running /\ count > 0
  BY DEF Switch, PendSV, BootInv
<1>2. NextTask \in 0 .. count - 1 /\ NextTask \in Tasks /\ NextTask # NoTask
  BY <1>1, NextTaskInRing, KernelAssumption DEF TypeOK, Tasks
<1>3. lock = 0
  BY DEF Switch, MayLeave, BootInv
<1>4. \A t \in Tasks : hold[t] = 0
  BY <1>3, KernelAssumption DEF TypeOK, LockInv, Tasks
<1>5. LockInv'
  BY <1>2, <1>3, <1>4 DEF LockInv, OwedSwitchRemembered, Switch, locking
<1>6. SavedContexts \in [Tasks -> Frames] /\ SavedPrivileges \in [Tasks -> BOOLEAN]
  BY DEF TypeOK, SavedContexts, SavedPrivileges
<1>7. TypeOK'
  BY <1>2, <1>6 DEF TypeOK, Switch, locking, guards
<1>8. BootInv'
  BY <1>1, <1>2 DEF BootInv, Switch
<1>9. \A t \in 0 .. count - 1 : SavedContexts[t] = ContextOf(t)
  BY KernelAssumption DEF TypeOK, SavedContexts, ContextOf, Tasks
<1>10. seen => \A t \in 0 .. count - 1 :
                 SavedPrivileges[t] <=> SavedContexts[t] = OnApp
  <2> SUFFICES ASSUME seen, NEW t \in 0 .. count - 1
               PROVE  SavedPrivileges[t] <=> SavedContexts[t] = OnApp
    OBVIOUS
  <2>1. t \in Tasks /\ current # NoTask
    BY KernelAssumption DEF TypeOK, BootInv, Tasks
  <2>2. CASE t = current
    <3>1. SavedPrivileges[t] = npriv /\ SavedContexts[t] = psp
      BY <2>1, <2>2 DEF TypeOK, SavedPrivileges, SavedContexts
    <3> QED BY <3>1 DEF SavedInv, PrivilegeFollowsApp
  <2>3. CASE t # current
    <3>1. SavedPrivileges[t] = unpriv[t] /\ SavedContexts[t] = sp[t]
      BY <2>1, <2>3 DEF TypeOK, SavedPrivileges, SavedContexts
    <3> QED BY <3>1, <2>3 DEF SavedInv
  <2> QED BY <2>2, <2>3
<1>11. ~seen => SavedPrivileges = unpriv
  BY DEF SavedPrivileges
<1>12. ~seen => \A t \in 0 .. count - 1 : SavedContexts[t] # OnApp
  BY <1>9, FrameFacts DEF AppInv, SavedInv, OwnContext
<1>13. AppInv'
  BY <1>11 DEF AppInv, Switch
<1>14. OwnContext'
  BY <1>9, <1>2 DEF SavedInv, OwnContext, ContextOf, Switch
<1>15. PrivilegeFollowsApp'
  BY <1>2, <1>10, <1>12 DEF AppInv, PrivilegeFollowsApp, Switch
<1>16. \A t \in 0 .. count - 1 : unpriv'[t] <=> sp'[t] = OnApp
  <2>1. CASE seen
    BY <2>1, <1>10 DEF Switch
  <2>2. CASE ~seen
    BY <2>2, <1>11, <1>12, KernelAssumption DEF TypeOK, AppInv, Switch, Tasks
  <2> QED BY <2>1, <2>2
<1> QED BY <1>5, <1>7, <1>8, <1>13, <1>14, <1>15, <1>16 DEF SavedInv, Switch

-----------------------------------------------------------------------------
(* without_preemption. *)

LEMMA LockStepPreserves ==
  ASSUME KernelInv, NEW t \in Tasks, LockStep(t)
  PROVE  KernelInv'
<1> USE KernelAssumption DEF KernelInv, InFirmware, Executing, machine, guards, context
<1>1. BootInv' /\ AppInv' /\ SavedInv'
  BY DEF LockStep, Lock, Unlock, SettleDebt, BootInv, AppInv, SavedInv,
         OwnContext, ContextOf, PrivilegeFollowsApp, Tasks
<1>2. CASE Lock(t)
  BY <1>1, <1>2 DEF Lock, TypeOK, LockInv, OwedSwitchRemembered, Tasks
<1>3. CASE Unlock(t)
  <2>1. lock = hold[t] /\ lock > 0
    BY <1>3 DEF Unlock, LockInv, Tasks
  <2> QED BY <1>1, <1>3, <2>1
          DEF Unlock, TypeOK, LockInv, OwedSwitchRemembered, LastRelease, Tasks
<1>4. CASE SettleDebt(t)
  BY <1>1, <1>4 DEF SettleDebt, DebtPaid, TypeOK, LockInv, OwedSwitchRemembered
<1> QED BY <1>2, <1>3, <1>4 DEF LockStep

-----------------------------------------------------------------------------
(* The app. *)

(* Unprivileged code is the app, in the task that launched it. *)
LEMMA AppRunsInLauncher ==
  ASSUME KernelInv, NEW t \in Tasks, Executing(t), psp = OnApp
  PROVE  app.active /\ ~app.inService /\ app.launch = OnTask(t)
<1>1. t \in 0 .. count - 1 /\ ContextOf(t) = OnApp
  BY KernelAssumption DEF Executing, KernelInv, TypeOK, ContextOf, Tasks
<1> QED BY <1>1, FrameFacts DEF KernelInv, SavedInv, OwnContext

LEMMA FinishPreserves ==
  ASSUME KernelInv, NEW t \in Tasks, NEW how \in {"code", "fault"},
         FromApp(t), Finish(how)
  PROVE  KernelInv'
<1> USE FrameFacts, KernelAssumption DEF KernelInv, Finish
<1>1. psp = OnApp /\ Executing(t) /\ current = t /\ t \in 0 .. count - 1 /\ t # NoTask
  BY DEF FromApp, SavedInv, PrivilegeFollowsApp, Executing, TypeOK, Tasks
<1>2. app.launch = OnTask(t) /\ psp' = OnTask(t)
  BY <1>1, AppRunsInLauncher
<1>3. app' \in [active : BOOLEAN, inService : BOOLEAN, launch : Frames,
                resume : Frames, exit : {"code", "fault"}]
      /\ ~app'.active /\ ~app'.inService
  BY DEF TypeOK
<1>4. TypeOK'
  <2>1. app' \in [active : BOOLEAN, inService : BOOLEAN, launch : Frames,
                  resume : Frames, exit : {"code", "fault"}]
    BY <1>3 DEF TypeOK
  <2> QED BY <1>2, <2>1 DEF TypeOK, machine, locking, guards
<1>5. BootInv' /\ LockInv'
  BY <1>1 DEF BootInv, LockInv, OwedSwitchRemembered, machine, locking
<1>6. AppInv'
  BY <1>3 DEF AppInv, machine
<1>7. OwnContext'
  BY <1>1, <1>2, <1>3 DEF SavedInv, OwnContext, ContextOf, machine
<1>8. PrivilegeFollowsApp'
  BY <1>2 DEF PrivilegeFollowsApp
<1> QED BY <1>4, <1>5, <1>6, <1>7, <1>8 DEF SavedInv, machine

LEMMA SvcEnterPreserves ==
  ASSUME KernelInv, NEW t \in Tasks, SvcEnter(t)
  PROVE  KernelInv'
<1> USE FrameFacts, KernelAssumption DEF KernelInv, SvcEnter
<1>1. current = t /\ t \in 0 .. count - 1 /\ t # NoTask
  BY DEF Executing, TypeOK, Tasks
<1>2. TypeOK'
  BY DEF TypeOK, machine, locking, guards
<1>3. BootInv' /\ LockInv'
  BY <1>1 DEF BootInv, LockInv, OwedSwitchRemembered, machine, locking
<1>4. AppInv'
  BY <1>1 DEF AppInv, machine
<1>5. OwnContext'
  BY <1>1 DEF SavedInv, OwnContext, ContextOf, machine
<1>6. PrivilegeFollowsApp'
  BY DEF PrivilegeFollowsApp
<1> QED BY <1>2, <1>3, <1>4, <1>5, <1>6 DEF SavedInv, machine

LEMMA SvcCallPreserves ==
  ASSUME KernelInv, NEW t \in Tasks, SvcCall(t)
  PROVE  KernelInv'
<1> USE FrameFacts, KernelAssumption DEF KernelInv, SvcCall
<1>1. psp = OnApp /\ Executing(t) /\ current = t /\ t \in 0 .. count - 1 /\ t # NoTask
  BY DEF FromApp, SavedInv, PrivilegeFollowsApp, Executing, TypeOK, Tasks
<1>2. app.launch = OnTask(t) /\ psp' = OnService(t)
  BY <1>1, AppRunsInLauncher
<1>3. app' = [active |-> TRUE, inService |-> TRUE, launch |-> app.launch,
              resume |-> OnApp, exit |-> app.exit]
  BY <1>1 DEF FromApp, TypeOK
<1>4. TypeOK'
  <2>1. app' \in [active : BOOLEAN, inService : BOOLEAN, launch : Frames,
                  resume : Frames, exit : {"code", "fault"}]
    BY <1>3 DEF TypeOK
  <2> QED BY <1>2, <2>1 DEF TypeOK, machine, locking, guards
<1>5. BootInv' /\ LockInv'
  BY <1>1 DEF BootInv, LockInv, OwedSwitchRemembered, machine, locking
<1>6. AppInv'
  BY <1>1, <1>2, <1>3 DEF AppInv, FromApp, machine
<1>7. OwnContext'
  BY <1>1, <1>2, <1>3 DEF SavedInv, OwnContext, ContextOf, FromApp, machine
<1>8. PrivilegeFollowsApp'
  BY <1>2 DEF PrivilegeFollowsApp
<1> QED BY <1>4, <1>5, <1>6, <1>7, <1>8 DEF SavedInv, machine

LEMMA SvcReturnPreserves ==
  ASSUME KernelInv, NEW t \in Tasks, SvcReturn(t)
  PROVE  KernelInv'
<1> USE FrameFacts, KernelAssumption DEF KernelInv, SvcReturn
<1>1. current = t /\ t \in 0 .. count - 1 /\ t # NoTask
  BY DEF Executing, TypeOK, Tasks
<1>2. app.launch = OnTask(t) /\ psp' = OnApp
  <2>1. ContextOf(t) = OnService(t)
    BY <1>1 DEF ContextOf
  <2>2. app.launch = OnTask(t)
    BY <1>1, <2>1 DEF SavedInv, OwnContext
  <2> QED BY <2>2 DEF AppInv
<1>3. app' = [active |-> TRUE, inService |-> FALSE, launch |-> app.launch,
              resume |-> app.resume, exit |-> app.exit]
  BY DEF TypeOK
<1>4. TypeOK'
  <2>1. app' \in [active : BOOLEAN, inService : BOOLEAN, launch : Frames,
                  resume : Frames, exit : {"code", "fault"}]
    BY <1>3 DEF TypeOK
  <2> QED BY <1>2, <2>1 DEF TypeOK, machine, locking, guards
<1>5. BootInv' /\ LockInv'
  BY <1>1 DEF BootInv, LockInv, OwedSwitchRemembered, machine, locking
<1>6. AppInv'
  BY <1>1, <1>2, <1>3 DEF AppInv, machine
<1>7. OwnContext'
  BY <1>1, <1>2, <1>3 DEF SavedInv, OwnContext, ContextOf, machine
<1>8. PrivilegeFollowsApp'
  BY <1>2 DEF PrivilegeFollowsApp
<1> QED BY <1>4, <1>5, <1>6, <1>7, <1>8 DEF SavedInv, machine

-----------------------------------------------------------------------------

LEMMA KernelNext == KernelInv /\ [Next]_vars => KernelInv'
<1> SUFFICES ASSUME KernelInv, [Next]_vars PROVE KernelInv'
  OBVIOUS
<1>1. CASE Spawn
  BY <1>1, SpawnPreserves
<1>2. CASE Start \/ SysTick \/ SwitchFindsOverflow
  <2>1. 0 \in Tasks
    BY KernelAssumption DEF Tasks
  <2> QED BY <1>2, <2>1, QuietStepPreserves
<1>3. CASE Defer
  BY <1>3, DeferPreserves
<1>4. CASE Switch
  BY <1>4, SwitchPreserves
<1>5. ASSUME NEW t \in Tasks, LockStep(t) PROVE KernelInv'
  BY <1>5, LockStepPreserves
<1>6. ASSUME NEW t \in Tasks, TaskStep(t) PROVE KernelInv'
  BY <1>6, QuietStepPreserves
<1>7. ASSUME NEW t \in Tasks, AppStep(t) PROVE KernelInv'
  <2>1. CASE SvcEnter(t)
    BY <2>1, SvcEnterPreserves
  <2>2. CASE SvcExit(t)
    BY <2>2, FinishPreserves DEF SvcExit
  <2>3. CASE SvcCall(t)
    BY <2>3, SvcCallPreserves
  <2>4. CASE SvcReturn(t)
    BY <2>4, SvcReturnPreserves
  <2>5. CASE AppBreaksRules(t)
    BY <2>5, FinishPreserves DEF AppBreaksRules
  <2> QED BY <1>7, <2>1, <2>2, <2>3, <2>4, <2>5 DEF AppStep
<1>8. CASE UNCHANGED vars
  BY <1>8 DEF vars, machine, locking, guards, context, KernelInv, TypeOK, BootInv,
              LockInv, OwedSwitchRemembered, AppInv, SavedInv, OwnContext,
              ContextOf, PrivilegeFollowsApp
<1> QED BY <1>1, <1>2, <1>3, <1>4, <1>5, <1>6, <1>7, <1>8 DEF Next, ExceptionStep

LEMMA KernelInvariant == Spec => []KernelInv
  BY KernelInit, KernelNext, PTL DEF Spec

(* The kernel's state is well typed: in particular the processor is never given
   to a task that was not spawned and the lock never goes below zero. *)
THEOREM KernelTypeOK == Spec => []TypeOK
<1>1. KernelInv => TypeOK
  BY DEF KernelInv
<1> QED BY <1>1, KernelInvariant, PTL

(* without_preemption is mutual exclusion. *)
THEOREM KernelLockHolderRuns == Spec => []LockHolderRuns
<1>1. KernelInv => LockHolderRuns
  BY KernelAssumption DEF KernelInv, LockInv, LockHolderRuns, Tasks
<1> QED BY <1>1, KernelInvariant, PTL

(* The switch the lock put off is owed until somebody settles it. *)
THEOREM KernelOwedSwitchRemembered == Spec => []OwedSwitchRemembered
<1>1. KernelInv => OwedSwitchRemembered
  BY DEF KernelInv, LockInv
<1> QED BY <1>1, KernelInvariant, PTL

(* Every task keeps its own stack, and the app's is entered only in its
   launcher. *)
THEOREM KernelOwnContext == Spec => []OwnContext
<1>1. KernelInv => OwnContext
  BY DEF KernelInv, SavedInv
<1> QED BY <1>1, KernelInvariant, PTL

(* The processor is unprivileged exactly while it runs the app. *)
THEOREM KernelPrivilegeFollowsApp == Spec => []PrivilegeFollowsApp
<1>1. KernelInv => PrivilegeFollowsApp
  BY DEF KernelInv, SavedInv
<1> QED BY <1>1, KernelInvariant, PTL

(* An app ends only in the task that launched it, on that task's own stack. *)
THEOREM KernelAppEndsInItsLauncher == Spec => AppEndsInItsLauncher
<1> DEFINE Ends == app.active /\ ~app'.active => psp' = app.launch /\ psp' = OnTask(current')
<1>1. KernelInv /\ [Next]_vars => [Ends]_vars
  <2> SUFFICES ASSUME KernelInv, Next, app.active, ~app'.active
               PROVE  psp' = app.launch /\ psp' = OnTask(current')
    OBVIOUS
  <2> USE DEF context
  <2>1. PICK t \in Tasks : AppStep(t)
    BY DEF Next, ExceptionStep, Spawn, Start, SysTick, Defer, Switch, SwitchFindsOverflow,
           LockStep, Lock, Unlock, SettleDebt, TaskStep, Yield, Mask, Unmask,
           SetGuardChecks, Overflow, FirmwareFault
  <2>2. FromApp(t) /\ psp' = app.launch /\ UNCHANGED current
    BY <2>1, FrameFacts DEF AppStep, SvcEnter, SvcExit, SvcCall, SvcReturn, AppBreaksRules,
            Finish, KernelInv, TypeOK, machine
  <2>3. psp = OnApp /\ Executing(t) /\ current = t
    BY <2>2 DEF FromApp, Executing, KernelInv, SavedInv, PrivilegeFollowsApp
  <2> QED BY <2>2, <2>3, AppRunsInLauncher
<1> QED BY <1>1, KernelInvariant, PTL DEF Spec, AppEndsInItsLauncher

-----------------------------------------------------------------------------
(* The kernel is a round robin. *)

(* An exception is an admission, a hand-over, the stop, or nothing at all. *)
LEMMA ExceptionIsAbstract ==
  ASSUME KernelInv, Spawn \/ Start \/ ExceptionStep
  PROVE  [Abstract!Next]_(Abstract!vars)
<1> USE DEF Abstract!Next, Abstract!vars
<1>1. CASE Spawn
  <2>1. Abstract!Admit
    BY <1>1 DEF Spawn, Abstract!Admit, KernelInv, BootInv
  <2> QED BY <2>1
<1>2. CASE Start \/ SysTick \/ Defer
  BY <1>2 DEF Start, SysTick, Defer
<1>3. CASE Switch
  <2>1. Abstract!HandOver
    BY <1>3 DEF Switch, PendSV, NextTask, Abstract!HandOver, KernelInv, BootInv
  <2> QED BY <2>1
<1>4. CASE SwitchFindsOverflow
  <2>1. current # NoTask
    <3>1. running /\ ~GuardsIntact
      BY <1>4 DEF SwitchFindsOverflow, PendSV
    <3>2. NextTask \in Tasks
      BY <3>1, NextTaskInRing, KernelAssumption DEF KernelInv, TypeOK, BootInv, Tasks
    <3> QED BY <3>1, <3>2 DEF GuardsIntact, KernelInv, BootInv
  <2>2. Abstract!Stop
    BY <1>4, <2>1 DEF SwitchFindsOverflow, Abstract!Stop
  <2> QED BY <2>2
<1> QED BY <1>1, <1>2, <1>3, <1>4 DEF ExceptionStep

(* Whatever a task or its app does is the stop or nothing at all. *)
LEMMA TaskIsAbstract ==
  ASSUME KernelInv, NEW t \in Tasks, LockStep(t) \/ TaskStep(t) \/ AppStep(t)
  PROVE  [Abstract!Next]_(Abstract!vars)
<1> USE DEF Abstract!Next, Abstract!vars
<1>1. CASE LockStep(t)
  BY <1>1 DEF LockStep, Lock, Unlock, SettleDebt, machine
<1>2. CASE Yield(t) \/ Mask(t) \/ Unmask(t) \/ SetGuardChecks(t) \/ Overflow(t)
  BY <1>2 DEF Yield, Mask, Unmask, SetGuardChecks, Overflow, machine
<1>3. CASE FirmwareFault(t)
  <2>1. Abstract!Stop
    BY <1>3, KernelAssumption DEF FirmwareFault, InFirmware, Executing, Tasks, Abstract!Stop
  <2> QED BY <2>1
<1>4. CASE AppStep(t)
  BY <1>4 DEF AppStep, SvcEnter, SvcExit, SvcCall, SvcReturn, AppBreaksRules, Finish, machine
<1> QED BY <1>1, <1>2, <1>3, <1>4 DEF TaskStep

(* The safety half of ImplementsRoundRobin: with the lock, the deferred switch,
   the app and the overflow checks in between, the processor is still handed
   round in the order of admission and in no other way. *)
THEOREM KernelIsRoundRobin == Spec => Abstract!Spec
<1>1. Init => Abstract!Init
  BY DEF Init, Abstract!Init
<1>2. KernelInv /\ [Next]_vars => [Abstract!Next]_(Abstract!vars)
  <2> SUFFICES ASSUME KernelInv, [Next]_vars PROVE [Abstract!Next]_(Abstract!vars)
    OBVIOUS
  <2>1. CASE UNCHANGED vars
    BY <2>1 DEF vars, machine, Abstract!vars
  <2>2. CASE Next
    BY <2>2, ExceptionIsAbstract, TaskIsAbstract DEF Next
  <2> QED BY <2>1, <2>2
<1> QED BY <1>1, <1>2, KernelInvariant, PTL DEF Spec, Abstract!Spec
=============================================================================
