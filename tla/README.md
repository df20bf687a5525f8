# CatCard: a verification project

CatCard is firmware for Coldcard hardware: a hardware wallet, security key and
threshold signer in Rust, on one Cortex-M4 core with a small preemptive kernel
and three tasks. This directory holds TLA+ models of the parts of it where order,
interleaving, failure or power loss decide whether the code is right, the TLC
configurations that check them, and TLAPS proofs of what matters most.

Paths below are relative to `src/` (the repository); crates are named by
`crates/<name>`. Every definition that models code is tied to its lines in
`PROJECT.json`, `map`.

- [How to run it](#how-to-run-it)
- [The system](#the-system): inventory, interactions, what is hard
- [The models](#the-models): module by module, state and actions against code
- [The runs](#the-runs): what each shows, bounds, fairness
- [The proofs](#the-proofs)
- [Findings](#findings) and [observations](#observations-without-a-run)
- [What is not modelled](#what-is-not-modelled-and-why)
- [Plan](#plan)

## How to run it

    tlasany M.tla                                   # parse
    tlc -workers 2 -config pairing.cfg MCPairing.tla
    tlapm AccessProofs.tla                           # exits 0 when all is proved

Each configuration belongs to the `MC` module that `PROJECT.json`, `runs`, names
beside it. Passing runs take from a second to some minutes (`hsm` is the longest), proofs from
half a minute to three (`UpgradeProofs`); the runs named
under [Findings](#findings) end with a counterexample, which is their result.

## The system

### Tasks and the hardware below

The bootloader is fixed, not part of the repository, and reached through one
entry point, the *callgate* (`catcard-callgate`). Above it `catcard-fw`
(the only crate that is not host-testable) starts `catcard-kernel` with a main
task (bring-up, then idle), a USB task (`usbtask.rs`, the only owner of the OTG
peripheral) and a UI task (`menu.rs`, login and every flow on the screen). The USB
task's state is reached from the UI task through `with_task`, under the kernel's
preemption lock. One unprivileged app may run inside a task, through SVC.

### Components

| Component | State it keeps | Operations | Right when | Modelled |
|---|---|---|---|---|
| kernel (`catcard-kernel`) | task table, current task, preemption lock, deferred switch, guards, app and service contexts | spawn, start, SysTick, PendSV, lock/unlock, yield, mask, SVC enter/call/return/exit, faults | the lock excludes, no owed switch is lost, each task keeps its stack, privilege and app | `Kernel` |
| kernel clock | ticks, remainder, last cycle count | one SysTick | no time is lost however late it comes | `KernelClock` |
| settings store (`catcard-settings` store, norslots, nvstore; fw settings) | slots with sealed copies, the last slot emptied | read, set, write (program, verify, clear) | acknowledged changes survive power cuts and failures | `SettingsStore` |
| security key transport (`catcard-fido` hid; fw fido) | channels, message arriving, request, answer, reply queue, job, lent block | feed a report, tick, take, finish, reset | every request is answered once, to its sender, and nobody is stuck | `FidoDesk` |
| PIN login (`catcard-pin`) | step, prefix, words, signed PIN struct | setup, prefix, attempt, change, clear, fetch and set secret, ... | no login without words, no stale struct, the count shown is the gate's | `PinLogin` |
| USB pairing (`catcard-usb` ncry; fw usbtask, menu) | handshake, session, limits, prompt, what the screen shows | commit, reveal, confirm, abort, tick, answer, dismiss | few silent keys, a yes for its prompt only, no session for ever | `Pairing` |
| threshold sessions (`catcard-tss` session; fw tss) | commitments, roster, confirmed, seen, outbox, inbox, card | join, take, confirm, write, scan | all run one session with one set of keys, and finish | `TssSession` |
| firmware upgrade (`catcard-upgrade`; fw usbtask, staging, sdupgrade, qrscan, menu) | one staging medium and its lease, bytes received, carried tail, hash, offer, recovery marker | begin, write, inspect, offer, approve, install, retract, abandon | what was shown is what is installed | `Upgrade` |
| USB framing and endpoint 0 (`catcard-usb` lib, control) | message open, sequence, writer pauses, control phase | feed, next, resume, setup/data/status | no message is spliced or stuck | planned |
| random samples for a computer (`catcard-usb` rng; fw rngread, rngshare) | consent, one request, one result, budgets | ask, approve, serve, collect | nothing without consent or beyond the budget | planned |
| flash as 512-byte blocks (fw nvram) | pages | read, program, erase by page rewrite | a cut harms no other block | planned |
| entropy pool (`catcard-entropy`) | pool, credits, health of sources | add, draw | no draw below policy | planned |
| HSM mode (`catcard-settings` hsm, hsmusers; fw hsm, ckcc) | period, spending per rule, refusals, local code, users' codes and counters | start, boot start, submit, auth, judge, refuse, leave | limits hold per period and over restarts, a code counts once | `Hsm` |
| ckcc USB mode (fw ckcc; `catcard-usb` ckcc) | message arriving, reply, job slot, held request, upload, result | reports, dispatch, queue, hold, poll, take, finish, reset | an answer reaches its own request and bus session, every held one is answered | `CkccDesk` |
| CatCard mode's wallet questions (fw hostwallet) | question, answer | ask, take, finish | as for the ckcc mode | planned |
| the rest | | | | see [not modelled](#what-is-not-modelled-and-why) |

### Interactions

- USB task to UI task: a request is left on a desk (`fido::Desk`, `ckcc::Desk`, host
  wallet, upgrade offer, pairing prompt, random samples) and taken by the menu loop. The
  answer goes back through the same desk; either side may drop it meanwhile.
- UI task to callgate: login and every secret, one call at a time, through one
  struct the bootloader signs.
- any task to the settings store: only the foreground task saves.
- HSM mode: `ckcc::Desk` hands a transaction to the policy instead of to the person
  (`CkccDesk` has the desk, `Hsm` what the policy says), over `KernelClock`'s ticks.
- the staging area (PSRAM) is lent to one holder at a time: a transfer over USB, a file or
  scan on the UI task, a ckcc upload.
- kernel to all: the preemption lock is what makes the desks' steps atomic. Where
  the models below take one locked call for one step, `LockHolderRuns` is the
  justification.

### What is hard

Two tasks and a host that does as it likes (FidoDesk, Pairing, Kernel); power cut
inside a medium operation and failures it reports or does not (SettingsStore);
messages lost, late, stale or reordered between people carrying cards (TssSession);
legal calls in an order nobody wrote a test for (PinLogin); a counter that wraps
(KernelClock, Hsm); a question on the screen while what it is about changes under it
(Upgrade, CkccDesk); limits that have to outlive the power (Hsm). The list with its lines is in `PROJECT.json`, `hazards`.

## The models

### Kernel, RoundRobin

Source: `crates/catcard-kernel/src/{lib,task,switch,app}.rs`.

Variables carry the code's statics (`PREEMPT_LOCK` is `lock`, `SWITCH_DEFERRED` is
`deferred`, `CURRENT` is `current`, `app::STATE` is `app`, ...). A stack pointer is
the name of the stack it lies on. Thread code is nondeterministic: a task may
lock, yield, mask, overflow its stack or launch an app whenever the code allows.
`without_preemption` is three actions, because PendSV can fall between the counter
and the flag: `Lock`, `Unlock` (the `fetch_sub`), `SettleDebt` (the swap).
`Switch`, `Defer` and `SwitchFindsOverflow` are PendSV's three outcomes; the two
SVC numbers of an app, its trampoline's return, `app::run` and faults are actions.
Handlers are atomic for thread code; SysTick inside PendSV sets only the pending
bit, so it is SysTick after PendSV.

`RoundRobin` is the abstract specification: whoever is admitted gets the processor
in a ring, for ever, until the machine stops. `Kernel` implements it with
`admitted <- count, turn <- current, stopped <- halted`.

### KernelClock

Source: `advance_ticks` in `crates/catcard-kernel/src/lib.rs`. `Pass` is time
going by with or without interrupts masked (less than one wrap, the limit the code
documents), `Service` the handler; the cycle counter is taken modulo `Wrap`. Its names are
its own (`ClockSpec`, `ClockTypeOK`), because `HsmProofs` reasons about both clocks.

### SettingsStore, SettingsPromise

Source: `crates/catcard-settings/src/{store,norslots,nvstore}.rs` and the two media
in `crates/catcard-fw/src/settings.rs`.

A save is four steps, a power cut may fall between any two or inside a medium
operation: `Load` (`set`: newest copy, plus the change), `Choose` (`write`: newest
again, then an empty slot), `Program`, `Verify`, `Clear`. An operation that fails
and says so is `LoadFails`, `ProgramFails`, `VerifyFails`, `ClearFails` (constant
`Faults`). A scan passing over a slot that fails to read is the set `unread`
(constant `ReadFaults`). A torn slot is garbage; a settings object is the set of
changes saved into it; a slot opens only under its own key.

`SettingsPromise` is what a caller relies on: one object per key that only ever
gains the change being saved, whole or not at all, and "ok" only when it is in.

### FidoDesk

Source: `crates/catcard-fido/src/hid.rs` (`Ctaphid`) and `crates/catcard-fw/src/fido.rs`
(`Desk`, `fido_pump`, `serve`).

`Feed...` is a report from the host on any channel (first packet, continuation,
INIT, CANCEL, broadcast); `Pump` is one poll of the USB task with any timeouts
due; `Reset` a bus reset; `Serve` and `Finish` are the UI task's two locked calls.
The one block of memory is `desk.buf`; who may use it when is a property. `owed` is
history: which message each program waits for.

### PinLogin

Source: `crates/catcard-pin/src/lib.rs`; the struct is `crates/catcard-callgate/src/pin.rs`.

Each public method is an action, and the caller may call any at any time, which is
more than the firmware does. The gate (external) signs a struct and refuses one that
was changed since; it counts attempts, and bricks. `AuthorizeFirmware` leaves the staged image's
place (`Region`) where a secret would be; `Greenlight` asks with the struct as it is. The specification is `LoginSpec`. Its answers where the hardware
notes say "unknown" are both possible. `stale` is history: a call was made with a struct
the gate would refuse.

### Pairing

Source: `crates/catcard-usb/src/ncry.rs` (`PairGuard`, `Session`, `Channel`),
`crates/catcard-fw/src/usbtask.rs` (`pair_*`, the sealed records' effect on them) and the
pass of the menu loop, `crates/catcard-fw/src/menu.rs` (`run`).

The host's steps (`PairCommit`, `PairReveal`, `HostGone`, `Confirm`, ...) and time
(`Tick`) interleave with the four steps of a pass: read the keys, look for a block,
look for a prompt, handle the key. `OtherQuestion` is any other desk's flow, which
takes the screen and starts the loop over. A handshake replaced, aborted or revealed
wrongly counts as abandoned; at the limit pairing is blocked until dismissed.
`silent` is history: keys given out and not revealed since the person last acted.

### TssSession

Source: `crates/catcard-tss/src/session.rs`, `crates/catcard-fw/src/tss/{drive,card,qr}.rs`.

Members join (again, after a restart, with a new key), commit, reveal, confirm the
code, and run the rounds of a protocol as lanes; tsslib itself is external (a lane
answers a round once it has all before it: `Reached` is the rounds a lane has come to,
`Answers` what its member has to send by then). `Write` may stop part of the way, `Scan`
takes what another member's screen shows, which is the last two rounds it produced.
The owners carry card and codes in any order.

### Upgrade

Source: `crates/catcard-upgrade/src/lib.rs` (`Staged`, inspection) and, in
`crates/catcard-fw/src`, `usbtask.rs` (both transports, the offer), `staging.rs` (lease,
publish, retract), `sdupgrade.rs`, `qrscan.rs`, `ckcc.rs` (an upload) and the menu loop.
The boards with PSRAM, after the unlock.

A byte is its image and its place in it, a digest the sequence of bytes it was taken
over, so a hash over a mixture is told from every image's. `Writes` is every way one
`Staged::write` may end: the whole words stored (`Words`, `Written`) and the odd bytes carried; one of
them lost by the medium (`LosesByte`); refused at the first word, or at the rest after the
carried one went out (`Refuses`, `RefusesRest`). One step is one
`with_task` of the UI task or one poll of the USB task, and the two interleave: the menu
loop's keys, its look at `receiving` and its look at the pending offer are three steps.
The medium may fail or lose a write once (`faulty`). `TimeToArrive` says what no schedule
of the device can break: a whole image takes many polls, so a loop that is not waiting
on a question has looked once before it is complete. `yes` (the offer drawn as Confirm
was taken), `faulty` and `looked` are history.

### Hsm

Source: `crates/catcard-settings/src/{hsm,hsmusers}.rs`, `crates/catcard-fw/src/hsm.rs`,
and the unattended half of `crates/catcard-fw/src/ckcc.rs`.

`uptime` is the kernel's count; the code's 32-bit clock and its total over wraps are
`clock` (modulo `TickWrap`). `rt` is the code's `Runtime`: the start of the period,
what each rule has approved in it, refusals. `JudgeStarts` takes local code and users'
codes as one transaction comes up for judgement, records counters in a store that may
fail, and `Verdict` gives the answer: the power may go between. `Restart` keeps
what is in the store (`boots`, `counter`) and nothing else. `lately` (for each rule and
each span `k`, what it approved in the last `k` ticks) and `backed` (what each one-time code was counted for) are
history.

### CkccDesk

Source: `crates/catcard-fw/src/ckcc.rs` (`Desk`, `serve` and the jobs),
`crates/catcard-usb/src/ckcc.rs`, and the feeding of reports in `usbtask.rs`.

`FirstReport`, `LastReport` and `Resync` are reports from the computer; a whole message is
dispatched by an operator per command (held for the UI task, queued and polled for,
answered at once). An upload's lease is out until its job has read it (`Lent`); `hsmu` is
`hsms` with an uploaded policy. `NextReport` lets a reply leave, `Reset` is a bus reset. The UI task
is `Learn`, `Take`, `Unattended`, `Lookup`, `HsmStart`, `Ask`, `Logout`; the person is
`AnswerAsk`, `AnswerReview`, `Approve`, `AnyKey`; `LeaveHsm` ends HSM mode. A job that looked
at the desk and found its ticket gone (`alive`) still goes its way where the code lets it.
`heard` and `bus` are history: the number of the newest message, and of the bus session.

## The runs

| Run | Module | Bounds | Distinct states |
|---|---|---|---|
| `kernel` | MCKernel | 3 tasks, 2 of which launch apps, locks nested 2 deep | 221,785 |
| `kernel_clock` | MCKernelClock | wrap 8, tick 3, 26 cycles | 6,505 |
| `settings_crash` | MCSettingsStore | 2 keys, 4 slots, 4 saves | 71,702 |
| `fido_desk` | MCFidoDesk | 2 channels, queue 1, messages of up to 2 packets, 3 messages | 30,240 |
| `pin_login` | MCPinLogin | 2 x 2 PINs, one a trick, 2 secrets, 3 attempts | 36,522 |
| `pairing` | MCPairing | limit 3, cooldown 1, prompt 2 ticks, 3 codes | 23,743 |
| `tss_session` | MCTssSession | 3 members, every protocol by card and QR but one, one may restart | 72,251 |
| `upgrade` | MCUpgrade | 3 images of 5, 5 and 3 bytes, 2 signed, one of them setting the anti-downgrade mark; area of 6, word 2, frames up to 3, 1 failure | 204,024 |
| `hsm` | MCHsm | 2 limited rules, 2 transactions, an HOTP and a TOTP user, period 2, wrap 3, 4 ticks, 1 restart | 2,492,947 |
| `ckcc_desk` | MCCkccDesk | 10 commands, 5 messages, 2 bus resets | 299,682 |
| `settings_rollback`, `upgrade_rejected` | | | counterexamples |

**kernel.** `LockHolderRuns`: a task inside `without_preemption` is the one running and
the shared counter counts its closures alone. `OwedSwitchRemembered`: a switch put off is
owed as long as the lock is held or being released, so the `fetch_sub`/swap window loses
none. `OwnContext`: each task resumes on its own stack, and only the launcher of the
active app is in the app or its service. `PrivilegeFollowsApp`: the one nPRIV bit
behaves as if each task had its own. `OverflowIsCaught`: while the checks stay on, a
task whose stack has run into its guard, in the open, masked, inside the lock or before
the checks came on, ends in the halt with itself still the running task. `AppEndsInItsLauncher`. `ImplementsRoundRobin`: the
ring of `RoundRobin`, its order and that nobody starves. Fairness: SysTick goes on ticking
(SF, because it is masked again and again); a pending PendSV is taken if it is takeable
again and again (SF, it is disabled by masks); the outermost unlock, the swap after
it and the unmask happen (SF: closures end, but a task loses the processor in between).
None is assumed of apps, of tasks' other code, or of inner releases. Three tasks are
enough for a switch between two others while a third is inside a lock, an app or a
service; two nested locks for inner and outer release to differ. A found overflow halts
the machine, so deadlock is not checked.

**kernel_clock.** `NoCycleLost`, for every pattern of masked windows over three wraps; wrap
and tick are coprime, so every alignment occurs. Bounded cycles end: no deadlock check.

**settings_crash.** `AckedSurvives`, `NewerStays`, `KeepsPromise`, with `Faults` and
`PowerCuts`, without `ReadFaults` (with them see `settings_rollback`). Two keys share four
slots, so that a key finds another's copies, its own old one and the debris of a cut;
four saves are enough for two old copies to coexist with a third being written. Changes
run out and slots fill, so the system stops: deadlock is not checked. Keys and
changes are symmetric.

**fido_desk.** `OneUserOfTheBlock`, `AnswersWhatWasAsked`, `NobodyDisturbsAnother`,
`EveryMessageSettles`. Two programs are enough for one to disturb the other; a queue of
one is full at once; three messages let a withdrawn one, its successor and another
program's coexist. Fairness: the USB task polls for ever, with timeouts coming due and
the host reading its reports (WF on `Pump` with these chosen), and a question on the
screen ends (WF on `Finish`: `serve`'s flows time out). `Serve` needs none: a request not
taken is answered by the queue timeout.

**pin_login.** `NeverStale`: no struct the gate would refuse is ever sent, whatever the
order of calls. `SessionIsReal`: a session is of the device's PIN or a trick's, unless
cleared in it. `CountIsTheGates`. Gates 16 and 18 may fail at any call. Three attempts
reach last-attempt and brick.

**pairing.** `SilentBounded`: at most three device keys go out unrevealed, in whatever way
handshakes are dropped. `YesIsForItsPrompt`: a session is accepted only by a yes handled
while its own prompt is up. `UnpairedEnds`, `DeadCodeLeaves`, `BlockGetsShown` are
liveness: time passes (WF on `Tick`), the menu loop runs (WF on its steps) and other
questions do not come in every single pass (SF on `CheckBlocked`). Three codes let a
third start while the screen still shows the first. The limit is the code's own; the
times are abstract.

**tss_session.** `SameSession`: whoever takes part in a member's rounds has confirmed the
keys that member has, through restarts and stale messages. `FixedBeforeReveal`: the keys a
member will accept are fixed before anyone sees its own. `NothingRefused`: `awaiting` and
`receive` agree. `NothingWithheld`: what is awaited and was sent can be had.
`EveryoneFinishes`, if nobody restarts. Fairness: some step is taken while one is possible
(WF of `Next`), nothing more, so it holds for every order in which the owners go about
it. Three members are the fewest with a lane between two others; a restart of one is
enough for a stale key. The pair setup by QR is left out: it cannot finish (see
[observations](#observations-without-a-run)). A finished session stops: deadlock is not checked.

**upgrade.** `InstalledIsConfirmed`: when an offer is on the panel as the loop takes a
Confirm, no other image can come of it. `OfferedIsStored`: unless the medium failed, the
image offered is the image stored, odd tail included. `TransferIsItsMessage`: what a
transfer has hashed is what its own message brought, however two transports alternate.
`ApprovalEnds`: the machine goes or offers are taken again, with fairness of the step at
the gate only (the UI task is scheduled, and an approved install waits for nobody). Lengths 5 and 3 with words of 2
leave a tail to carry; frames of up to 3 split words; an area of 6 makes the
longest image end in its last word; three images are enough for an offer, its replacement and one that
is refused. An installed machine is gone: deadlock is not checked.

**hsm.** `VelocityHolds`: since a person last allowed a start, what one rule approves in any
span of one period is at most twice its limit (the end of one period and the beginning of
the next), also when the power is cut to forget what was spent. Twice, not once: the code's
period is a window that starts anew, not a sliding one. `LocalCodeOnce`: a local code is
accepted for one transaction. `OtpOnce`: a one-time code counts for one approval, through
failed saves and restarts. Four ticks with a period of 2 and a wrap of 3 hold two
periods with a wrap inside each; one restart with a boot code and a lockout of 2 ticks
joins what was spent before to what may be after. Enough refusals stop the device:
deadlock is not checked.

**ckcc_desk.** `AnswersItsRequest`: a reply goes out only to the newest message, never while
another is arriving, and a held request is owed an answer only while its buffer is its own.
`NothingCrossesReset`: upload, job, outcome and signed file are of the present bus session.
`HsmIsAlone`: HSM mode runs over the stored wallet with no question open.
`HeldIsAnswered`. Fairness: the UI task runs, the person answers, replies leave; nothing of
the computer, which may fall silent for ever (so deadlock is not checked). Five messages
let an upload, its signing, an outcome and two more requests overlap; two resets put a job
two sessions back.

## The proofs

Eight modules of proofs, all checked by `tlapm` down to the leaves, for every value of
the constants that the named assumptions of the modules allow. Every safety invariant,
every action property and the safety refinement that a passing run checks is a theorem;
`PROJECT.json`, `theorems`, names the run's property beside each.

**KernelProofs** (`KernelTypeOK`, `KernelLockHolderRuns`, `KernelOwedSwitchRemembered`,
`KernelOwnContext`, `KernelPrivilegeFollowsApp`, `KernelAppEndsInItsLauncher`,
`KernelIsRoundRobin`). For any
number of tasks and any nesting. The inductive invariant adds to the properties what
they rest on: that the shared counter is the closures of the running task, that a
task in `releasing` holds no closure, where the saved contexts of the tasks that do
not run lie, and that their saved privilege bit says whether that is the app. The
proof goes action by action; `Switch` is the one where everything is used.
`KernelIsRoundRobin` is the safety half of `ImplementsRoundRobin`: every step is one of the
ring's or changes none of its variables. Its fairness stays with TLC.

**SettingsStoreProofs** (`StoreTypeOK`, `StoreAckedSurvives`, `StoreAgesDistinct`,
`StoreNewerStays`, `StoreKeepsPromise`). For any number of slots, keys and changes, any power
cuts and any reported failures, on media without silent read faults (`~ReadFaults`, an
assumption of each theorem; with them the run `settings_rollback` has its counterexample).
`AckedSurvives` is not inductive: the invariant says of each phase of a
save what the copy being made holds, that its age is above every copy of its key, and
that the old copy found by the second scan is the one read by the first. The
program's and the clear's debris are lemmas of their own, used by the failing
operation and by the power cut alike. The refinement needs one thing more, that while no copy is
written the object held by the save is what a read returns and the change (`DocInv`); then a
program is `Land`, a clear is `Done` whatever it leaves of the old copy, every other end is
`GiveUp`, and the rest stutters.

**FidoDeskProofs** (`DeskInvariant`, `DeskOneUser`, `DeskAnswers`, `DeskNobodyDisturbs`). For any
number of channels, queue length,
packets and messages. The invariant `DeskGood` ties the four places a request leaves
traces: block, job, transport and `owed`. A request being processed has the lent block's
job, with the body its program asked last; an answer going out is to the message its
program waits on. `DeskNobodyDisturbs` looks at every kind of report: a slot of the transport
changes hands only if it was free or the sender's (`Keeps`).

**AccessProofs** (`LoginTypes`, `LoginNeverStale`, `LoginSessionIsReal`, `LoginCount`;
`PairingTypeOK`, `PairingSilentBounded`, `PairingOneAtATime`, `PairingYesIsForItsPrompt`).
PIN login, for any PINs, tricks, secrets and attempts: `LoginInv` adds that a blank device's
struct is signed, that words on the screen are those of some prefix, and that a device not bricked
has an attempt left. What the calls that leave no session have in common is one lemma,
`Outside`. Pairing, for any limit, cooldown and prompt time: `SilentBounded` needs
that a silent key is counted or pending (`silent <= abandoned + pending`), that a
count at the limit has locked the guard, and that a locked guard has nothing pending.

**TssSessionProofs** (`MembersAreInOneSession`, `KeysAreFixedBeforeReveal`, `NothingIsRefused`,
`NothingIsWithheld`). For any finite set of members, any protocols and any number of joinings. The invariant
ties what arrives to what was sent: whatever lies in an inbox or on the card under a member's present
key that member has sent since it joined (`MailPosted`), what it sent names its own roster
(`SentOwn`), and what another took of it, it has sent (`TakenSent`), unless it has joined again;
with one lane, rounds are sent in order (`RoundsInOrder`). So a member that takes part
in my rounds did so with my keys confirmed. `NothingIsWithheld` assumes what the run does: pair
setups by QR only with two members, because with more the code does withhold (see
[observations](#observations-without-a-run)).

**UpgradeProofs** (`Types`, `MediumHasOneHolder`, `TransfersDoNotMix`, `OffersAreStored`,
`OnlyTheConfirmed`). For any images, lengths, word size, area, header place and frames, both transports,
uploads, files and scans, with one failure of the medium anywhere. `UpgradeInv` is inductive in
three layers. *One holder, one message*: a transfer, its offer, an upload, a file or another
user has the medium, and at most one transport an open message. *What arrived is stored*
(`ArrivedIsStored`): unless the medium failed, what a transfer has hashed is in its
cells, but for the odd bytes in RAM; at the end they go out, and the image whose digest passes is
the image stored. *What the panel shows* (`PanelShows`, `YesIsKept`, `AtGate`): a transfer
that began after the loop last looked cannot be whole before it looks again (`TimeToArrive`),
so the offer a Confirm is taken for is still the offer when the second question is answered, or what
is in the memory by then is no whole image and the gate refuses it. The lemmas on `Put`, on carried tails and
on concatenation are what the frames, uploads, files and scans share.

**HsmProofs** (`ClockTyped`, `ClockExact`, `ClockAccounts`; `OtpCountsOnce`, `LimitsHold`,
`LocalCodesCountOnce`). The kernel's clock, for every counter width and tick
length: the last cycle count is that of the last SysTick
modulo `Wrap`; that a gap shorter than a wrap is what the modular difference computes is
a lemma on `%`. HSM mode, for any users, rules, clock and number of restarts. Codes: every code
counted so far is at or below its user's stored counter,
a code accepted for a judgement is above the counter it was read with, and the
counter is stored before the verdict, so a restart loses approvals, never the record.
Limits: with `started` the beginning of the rule's period, what was approved in the spans since then is at
most what it has spent, and in any longer span at most that and one limit more
(`Accounted`); in force, `now_ms` misses no wrap, so periods are as long as they should be. The
local code: every judgement draws a new key.

**CkccDeskProofs** (`CkccAnswers`, `CkccNothingCrosses`, `CkccHsmIsAlone`). For any commands,
messages and resets. The invariant is about tickets: a slot on the screen with the UI
task's ticket holds the UI task's job, tickets are handed out once, an owed request is the
slot's and of a held kind. Under it the desk is always between messages, waiting for one
answer, or sending one.

Model-checked only: liveness under fairness, which the prover does not do (the fair half of
`ImplementsRoundRobin`, `OverflowIsCaught`, `EveryMessageSettles`, `UnpairedEnds`, `DeadCodeLeaves`, `BlockGetsShown`,
`EveryoneFinishes`, `ApprovalEnds`, `HeldIsAnswered`). No sum or fold is
reasoned about: `lately` keeps the spans' totals as a function, each updated by its own
approvals, so that `VelocityHolds` needs no induction over a history.

## Findings

Runs that end in a counterexample because the code does not do what the repository
says of it. The quotes are in `PROJECT.json`, `findings`.

- `settings_rollback`: one failed read of the only copy makes `set` start from an empty
  object; the save then clears the real copy, and acknowledged settings are gone.
- `upgrade_rejected` (`InstalledIsDrawn`): Cancel is read in a pass that sees the transfer still arriving; the
  last frame lands and is offered; the pass puts the offer up and then handles the Cancel,
  which finds no transfer to stop, while the screen says it was stopped. The offer stays
  behind that note, and the next Confirm approves it.

## Observations without a run

Met while modelling; no run is about them, either because nothing in the repository says
otherwise, or because a sequence of a few calls shows it without one.

Settings store
- `store.rs` remembers the last emptied slot once for all keys (fw settings.rs:966): a save
  under a second key lets the first key's next save go straight back into the slot it left.
- `Error::Full` may be about the avoided slot alone.
- `nvram.rs` says of a page lost in a rewrite that it "costs the last change, not the
  settings": true only if no other copy lies in that page.

PIN login (`catcard-pin` lib.rs)
- When gate 16 fails (322), the words of the previous prefix stay, and `attempt` (443) goes by
  the words alone; it does not ask for `words_confirmed` either. The firmware's screens do both.

Pairing
- "A refusal changes nothing" (ncry.rs:167), but the commit that trips the limit leaves the
  pending handshake, which can be revealed and paired while pairing is blocked; after it
  completes the block goes on with a count of 0.
- The menu loop reads the keys before it looks at the prompt: a code that replaces another
  within the pass is answered by a key pressed at the first.
- Another question that takes the screen leaves `showing_pair` and `showing_blocked` set
  (menu.rs:1436): code or block is not drawn again when it is over.

Security key
- A CTAPHID keepalive queued behind an unread report goes out after the answer (hid.rs:546).

Threshold sessions
- A code carries two rounds (qr.rs:12, 103). In a pair setup of three or more by QR two
  members move on by two rounds and drop a message the third still waits for.

Upgrade
- `install_staged_image` (menu.rs:4246) says the scanner's image is in place with `placed_all`, which
  does not count as received out of order: the digest is then of nothing, and every scanned
  image is refused, against the comment at 4262 (`Scan` models it so).
- A key read before the loop looks at the offer approves an offer the person never saw.
- Abandoning resets the HID frames only: a computer on CCID gets no reply (usbtask.rs:437).
  Declining is unconditional and replies on HID for an offer that came by CCID.
- A refused write or unpack leaves the stage receiving and the medium held.
- `commit` drops the lease before the gate answers, so a retraction may find the medium busy
  (staging.rs:256-287); `publish` does not retract when its read-back fails.
- `Staged::write` hashes a chunk before the medium has taken it: sent again after a storage
  fault it would be hashed twice. The callers close the message instead.

HSM mode
- hsm.rs:1350: "A code used is used ... recorded before either refuses"; where the save fails
  and another user's code was bad the codes stay good. Nothing was approved with them, so
  `OtpOnce` holds.
- A PSBT refused before the judge sees it does not use up the local code typed for it (1049).
- `now_ms` first called more than 2^32 ms after power-up loses a wrap (65-81).

ckcc mode (`ckcc.rs`)
- `reset` says the flow sees `alive` go false and stops (556); passphrase (2143) and import
  (2166) never ask, signing a message only before its question. After a bus reset a yes
  still puts the passphrase in force.
- `enrl` and `hsms` take the upload before the queue is asked: told busy, it is gone (1085).
- A new job replaces a finished one, whose outcome is then lost, although it is "kept until
  the host polls for it".
- The result keeps the PSRAM lease after it was fetched; it can be fetched before a poll
  names it.
- A sealed reply dropped when the computer moves on leaves the keystream ahead (691). A
  resync with no buffer does not clear the upload. An abandoned reply may still send one frame.

## What is not modelled, and why

- **Data without interleaving**: `catcard-wallet`, `sign`, `evm`, `solana`, `bcur`, `bbqr`,
  `backup`, `png`, `qr`, `nfc`, `ui`, `fwhdr`, `board`. Formats, parsers, derivation and drawing:
  tests on vectors say more than a model.
- **Cryptography and statistics**: ciphers, hashes, health tests, tsslib. Abstracted to
  what a check can tell apart (whose key, over which view).
- **Hardware**: `catcard-hal`, the bootloader, cards and flash chips; present as what
  their operations leave behind.
- **`catcard-settings` lib.rs**, a two-slot store the firmware does not use
  (docs/SECRETS-AND-SETTINGS.md).
- Inside modelled components: FIDO commands between `take` and `finish`, the framing of
  sealed records, trick PIN encodings, TSS installation of results, several keys in
  one pass of the menu loop, an upgrade offer that hides the pairing screens; of the upgrade
  the mk3's install (which never returns), the DfuSe container and the headless rescue; of HSM
  mode printing and replacing a policy, users with passwords and the list of users; of the ckcc
  mode the encrypted link's streams, the spending policy's gate, the states before the PIN
  and `rebo`.
- **The bulk of the code** is of these kinds: most lines of the repository draw, parse, encode or
  compute without state another task, a power cut or a host can touch between two steps. What
  the modules cover is where such a thing can happen.

## Plan

1. **NvramPages** under SettingsStore: blocks in pages, erase by rewrite, cut in
   between; whether the store's promise survives on that medium.
2. **RngShare** composed with Pairing's session: consent, budget, the read between two
   locked steps.
3. **UsbFraming**: reassembly and writer; endpoint 0's phases. Then the two composed
   under FidoDesk's reports as a medium.
4. **HostDesk**: hostwallet's desk beside CkccDesk, perhaps one abstract desk both
   implement; the entropy pool's policy, as a small module.
5. Proofs: with every safety property of the runs proved, what is next is what the new modules
   need, and abstract specifications for Pairing and CkccDesk with their refinements.
6. New runs take the place of weaker ones, so that each still asks a question of its
   own.
