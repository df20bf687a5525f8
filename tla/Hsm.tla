--------------------------------- MODULE Hsm ---------------------------------
(* HSM mode (the firmware's hsm.rs and the unattended half of its ckcc.rs, the
   policy engine and the users' codes of catcard-settings): the device signs
   with nobody asked, by rules that cap what may leave in a period, by codes an
   operator types on it and by one-time codes of enrolled users.

   Its period is measured on the kernel's tick count (exact, KernelClock says),
   and the power may go between any two steps.  One policy with two kinds of
   start: at every login when it boots into HSM mode, or by a person at the
   menus.  The unit of time is one tick.

   A rule is a record: limit, its per_period or NoLimit; local, whether it
   wants the local code; users, those who may confirm; need, how many of them.
   A transaction is a record: sending, and fits, the rules its wallet, amount,
   whitelist and patterns satisfy. *)
EXTENDS Integers, FiniteSets, SequencesExt

CONSTANTS Rules,       \* the policy's rules, a sequence; the first that allows counts
          NoLimit,
          Txs,         \* transactions a computer may send
          NoTx,
          Wrong,       \* a local code good for none of them
          NotStarted,  \* no period is running
          Users,       \* enrolled users with one-time codes
          Totp,        \* those of them whose codes follow a clock
          Period,      \* the policy's period
          Lockout,     \* BOOT_LOCKOUT_S
          MaxRefusals, \* MAX_REFUSALS
          TickWrap,    \* the tick counter's modulus, 2^32 in the code
          Window,      \* HOTP_WINDOW
          TotpWindow,  \* TOTP_WINDOW
          MaxTicks,    \* bound: ticks from one power-up to the next
          MaxCode,     \* bound: MaxCode[u], the places u's one-time codes reach
          MaxRestarts  \* bound: restarts of a behaviour

ASSUME HsmAssumption ==
  /\ NoTx \notin Txs /\ Wrong \notin Txs \cup {NoTx} /\ Totp \subseteq Users
  /\ Period \in Nat \ {0} /\ TickWrap \in Nat \ {0} /\ MaxRefusals \in Nat \ {0}
  /\ NotStarted \notin Int /\ NoLimit \notin Int
  /\ {Lockout, Window, TotpWindow, MaxTicks, MaxRestarts} \subseteq Nat /\ MaxCode \in [Users -> Nat]
  /\ \A t \in Txs : t.sending \in Nat /\ t.fits \subseteq DOMAIN Rules
  /\ \A i \in DOMAIN Rules : Rules[i].limit \in Nat \cup {NoLimit} /\ Rules[i].users \subseteq Users

VARIABLES
  uptime,   \* ticks since power-up, the kernel's count before it wraps
  boots,    \* the stored policy names a boot code
  at,       \* where the UI task is: login, menus, loop, judge, after, stopped
  clock,    \* CLOCK: the tick count at the last look (kept whole), and the total
  rt,       \* Runtime: the period's start or NotStarted, spent per rule, refusals
  entered,  \* the local code typed: the transaction it is good for, Wrong, or NoTx
  key,      \* the local key, by key[t]: how often its code for t was accepted
  queue,    \* the users' codes queued for the next transaction
  counter,  \* counter[u]: the stored place of u's last code used
  judging,  \* what judge_inner knows when it asks for the verdict
  lately,   \* history: lately[i][k] approved by rule i within the last k ticks
  backed,   \* history: backed[u][c] approvals that u's code c counted for
  restarts

hsm  == <<boots, at, clock, rt, entered, key, queue, counter, judging>>
ghost == <<lately, backed, restarts>>
vars  == <<uptime, hsm, ghost>>

Ages == 0 .. Period - 1
Limited == {i \in DOMAIN Rules : Rules[i].limit # NoLimit}
NewKey == [t \in Txs |-> 0]
Nobody == [u \in Users |-> 0]
NotJudging == [tx |-> NoTx, local |-> 0, given |-> Nobody]
NewRuntime == [started |-> NotStarted, spent |-> [i \in DOMAIN Rules |-> 0], refusals |-> 0]

Init ==
  /\ uptime = 0
  /\ boots \in BOOLEAN /\ at = "login" /\ clock = [last |-> 0, total |-> 0]
  /\ rt = NewRuntime /\ entered = NoTx /\ key = NewKey /\ queue = <<>>
  /\ counter = Nobody /\ judging = NotJudging
  /\ lately = [i \in DOMAIN Rules |-> [k \in Ages |-> 0]]
  /\ backed = [u \in Users |-> [c \in 1 .. MaxCode[u] |-> 0]]
  /\ restarts = 0

----------------------------------------------------------------------------
(* Time *)

(* now_ms: what the 32-bit tick count moved since the last look is added. *)
Now == clock.total + (((uptime % TickWrap) - (clock.last % TickWrap)) % TickWrap)
Look == clock' = [last |-> uptime, total |-> Now]

Older(w) ==
  [i \in DOMAIN Rules |-> [k \in Ages |-> IF k < w THEN 0 ELSE lately[i][k - w]]]

(* SysTick goes on beside the UI task, w ticks at once when it was masked.
   While HSM mode runs its loop looks at the clock every pass, so never a whole
   wrap apart. *)
Tick(w) ==
  /\ uptime + w <= MaxTicks
  /\ at \in {"loop", "judge", "after"} => uptime + w - clock.last < TickWrap
  /\ uptime' = uptime + w /\ lately' = Older(w)
  /\ UNCHANGED <<hsm, backed, restarts>>

(* time_left, wherever it is asked: a period that has run out is forgotten with
   everything spent in it. *)
PeriodOver == rt.started # NotStarted /\ Now >= rt.started + Period
Renewed ==
  IF PeriodOver THEN [rt EXCEPT !.started = NotStarted, !.spent = NewRuntime.spent] ELSE rt

----------------------------------------------------------------------------
(* Starting and leaving *)

(* Mutant: a restart starts with nothing spent. *)
NeverCharged == NewRuntime
Precharged ==
  IF Limited = {} THEN NewRuntime
  ELSE [NewRuntime EXCEPT !.started = Now,
                          !.spent = [i \in DOMAIN Rules |-> IF i \in Limited THEN Rules[i].limit ELSE 0]]

(* activate, from here on in force. *)
Activate(r) ==
  /\ Look /\ rt' = r /\ at' = "loop"
  /\ key' = NewKey /\ entered' = NoTx /\ queue' = <<>>
  /\ UNCHANGED <<boots, counter, judging>>

(* at_login, a policy with a boot code: nobody is asked; without memory or
   randomness for it the device stops. *)
BootStarts ==
  /\ at = "login" /\ boots
  /\ Activate(Precharged)
  /\ UNCHANGED <<uptime, ghost>>

BootFails ==
  /\ at = "login" /\ boots
  /\ at' = "stopped"
  /\ UNCHANGED <<uptime, boots, clock, rt, entered, key, queue, counter, judging, ghost>>

(* at_login offers any other policy, start_screen and start_from_host the
   stored one: a person reads it and allows a new start, with nothing spent. *)
PersonStarts ==
  /\ (at = "login" /\ ~boots) \/ at = "menus"
  /\ Activate(NewRuntime)
  /\ lately' = [i \in DOMAIN Rules |-> [k \in Ages |-> 0]]
  /\ UNCHANGED <<uptime, backed, restarts>>

PersonDeclines ==
  /\ at = "login" /\ ~boots
  /\ at' = "menus"
  /\ UNCHANGED <<uptime, boots, clock, rt, entered, key, queue, counter, judging, ghost>>

(* submit with the boot code, in the first minute of uptime; deactivate. *)
BootCodeCounts == boots /\ Now < Lockout
Leave ==
  /\ at = "loop" /\ BootCodeCounts
  /\ Look /\ at' = "menus" /\ rt' = NewRuntime
  /\ key' = NewKey /\ entered' = NoTx /\ queue' = <<>>
  /\ UNCHANGED <<uptime, boots, counter, judging, ghost>>

(* The power goes, or the device logs out: RAM is lost, the policy and the
   users' counters are in the settings. *)
Restart ==
  /\ restarts < MaxRestarts /\ at # "login"
  /\ restarts' = restarts + 1
  /\ uptime' = 0
  /\ at' = "login" /\ clock' = [last |-> 0, total |-> 0] /\ rt' = NewRuntime
  /\ entered' = NoTx /\ key' = NewKey /\ queue' = <<>> /\ judging' = NotJudging
  /\ UNCHANGED <<boots, counter, lately, backed>>

----------------------------------------------------------------------------
(* HSM mode's loop *)

(* draw_status, and `hsts`: both ask what is left of the period. *)
DrawStatus ==
  /\ at = "loop"
  /\ Look /\ rt' = Renewed
  /\ UNCHANGED <<uptime, boots, at, entered, key, queue, counter, judging, ghost>>

(* submit otherwise: what was typed waits for the next transaction.  A code
   made with an older key is as good as a wrong one. *)
Submit(c) ==
  /\ at = "loop"
  /\ Look /\ entered' = c
  /\ UNCHANGED <<uptime, boots, at, rt, key, queue, counter, judging, ghost>>

(* `user`: queue_auth puts a user's code behind the others', in place of an
   earlier one of the same user. *)
Of(u) == {i \in DOMAIN queue : queue[i].user = u}
Others(u) == IF Of(u) = {} THEN queue ELSE RemoveAt(queue, CHOOSE i \in Of(u) : TRUE)
QueueAuth(u, c, t) ==
  /\ at = "loop" /\ (u \notin Totp <=> t = 0)
  /\ queue' = Append(Others(u), [user |-> u, code |-> c, time |-> t])
  /\ UNCHANGED <<uptime, boots, at, clock, rt, entered, key, counter, judging, ghost>>

(* refuse: counted, and the loop looks whether it was the last. *)
Refused(r) == [r EXCEPT !.refusals = @ + 1]

(* A transaction refused before its judge (no PSBT, a wrong digest, a fee over
   the cap, no randomness) or a message on a path not allowed. *)
RefuseEarly ==
  /\ at = "loop" /\ at' = "after"
  /\ rt' = Refused(rt)
  /\ UNCHANGED <<uptime, boots, clock, entered, key, queue, counter, judging, ghost>>

(* check of hsmusers: a code past the last one used, within reach. *)
Accepts(e) ==
  IF e.user \in Totp
  THEN /\ e.time > counter[e.user] /\ e.code > counter[e.user]
       /\ e.code \in e.time - (TotpWindow - 1) .. e.time
  ELSE e.code \in counter[e.user] + 1 .. counter[e.user] + Window

(* check_pending goes down the queue as far as the first code that fails; a user
   is in it once. *)
Checked(i) == i \in DOMAIN queue /\ \A k \in 1 .. i : Accepts(queue[k])
CodeOf(u) ==
  IF \E i \in DOMAIN queue : Checked(i) /\ queue[i].user = u
  THEN queue[CHOOSE i \in DOMAIN queue : Checked(i) /\ queue[i].user = u].code ELSE 0
Given == [u \in Users |-> CodeOf(u)]
Recorded == [u \in Users |-> IF Given[u] # 0 THEN Given[u] ELSE counter[u]]

(* Mutant: a failure to record the codes is not looked at. *)
WhateverWasSaved(saved) == \A i \in DOMAIN queue : Checked(i)
AllGood(saved) == saved /\ \A i \in DOMAIN queue : Checked(i)

(* The place among its acceptances that the code typed now has, 0 if it is wrong. *)
LocalOk(tx) == IF entered = tx THEN key[tx] + 1 ELSE 0

(* Mutant: the local key is drawn once for the whole session. *)
SameKey(tx) == [key EXCEPT ![tx] = LocalOk(tx)]
FreshKey(tx) == NewKey

(* judge_inner up to the verdict.  The typed code and the queue are used up
   first; then memory, warnings and an unknown fee may refuse, and so may the
   users' codes, which are recorded first if the store takes them. *)
JudgeStarts(tx, readable, saved) ==
  /\ at = "loop"
  /\ key' = FreshKey(tx) /\ entered' = NoTx /\ queue' = <<>>
  /\ counter' = IF readable /\ saved THEN Recorded ELSE counter
  /\ IF readable /\ AllGood(saved \/ Given = Nobody)
     THEN /\ at' = "judge" /\ rt' = rt
          /\ judging' = [tx |-> tx, local |-> LocalOk(tx), given |-> Given]
     ELSE at' = "after" /\ rt' = Refused(rt) /\ judging' = NotJudging
  /\ UNCHANGED <<uptime, boots, clock, lately, backed, restarts>>

(* rule_refuses, of the runtime the verdict works on. *)
Allows(i, r, j) ==
  LET rule == Rules[i] IN
  /\ i \in j.tx.fits
  /\ rule.limit # NoLimit => r.spent[i] + j.tx.sending <= rule.limit
  /\ rule.users # {} =>
       LET confirmed == {u \in rule.users : j.given[u] # 0} IN
       confirmed # {} /\ Cardinality(confirmed) >= rule.need
  /\ rule.local => j.local # 0

Allowing(r, j) == {i \in DOMAIN Rules : Allows(i, r, j)}

Charged(r, i, amount) ==
  IF i \notin Limited THEN r
  ELSE [r EXCEPT !.started = IF @ = NotStarted THEN Now ELSE @, !.spent[i] = @ + amount]

(* verdict, by the first rule that allows it. *)
Verdict ==
  /\ at = "judge" /\ at' = "after"
  /\ Look
  /\ judging' = NotJudging
  /\ LET allowing == Allowing(Renewed, judging)
     IN \/ allowing = {} /\ rt' = Refused(Renewed) /\ UNCHANGED <<lately, backed>>
        \/ \E i \in allowing :
             /\ \A j \in allowing : i <= j
             /\ rt' = Charged(Renewed, i, judging.tx.sending)
             /\ lately' = [lately EXCEPT ![i] = [k \in Ages |-> @[k] + judging.tx.sending]]
             /\ backed' = [u \in Users |->
                  IF u \in Rules[i].users /\ judging.given[u] # 0
                  THEN [backed[u] EXCEPT ![judging.given[u]] = @ + 1] ELSE backed[u]]
  /\ UNCHANGED <<uptime, boots, entered, key, queue, counter, restarts>>

(* The end of the pass: after MaxRefusals refusals the device logs out. *)
After ==
  /\ at = "after"
  /\ at' = IF rt.refusals >= MaxRefusals THEN "stopped" ELSE "loop"
  /\ UNCHANGED <<uptime, boots, clock, rt, entered, key, queue, counter, judging, ghost>>

Next ==
  \/ BootStarts \/ BootFails \/ PersonStarts \/ PersonDeclines \/ Leave \/ Restart
  \/ DrawStatus \/ RefuseEarly \/ Verdict \/ After
  \/ \E w \in 1 .. 2 : Tick(w)
  \/ \E c \in Txs \cup {Wrong} : Submit(c)
  \/ \E u \in Users : \E c \in 1 .. MaxCode[u], t \in 0 .. MaxCode[u] : QueueAuth(u, c, t)
  \/ \E tx \in Txs, readable, saved \in BOOLEAN : JudgeStarts(tx, readable, saved)

Spec == Init /\ [][Next]_vars

----------------------------------------------------------------------------
(* A velocity limit is a limit on the device's time, restarts included: since
   the last start a person allowed, what a rule approved within any span as
   long as the period is at most twice its per_period (the end of one period
   and the beginning of the next), even when the power is cut to forget what
   was spent. *)
VelocityHolds ==
  \A i \in Limited, k \in Ages : lately[i][k] <= 2 * Rules[i].limit

(* A code the operator read off for one transaction is accepted for one: it is
   dead once it, or any other transaction, has been judged. *)
LocalCodeOnce == judging.local <= 1

(* A user's one-time code counts for one approval at most, however it is sent
   again: in a queue that failed, after a lost save, after a restart. *)
OtpOnce == \A u \in Users : \A c \in 1 .. MaxCode[u] : backed[u][c] <= 1

=============================================================================
