---------------------------- MODULE KernelClock ----------------------------
(* The millisecond clock of the kernel: SysTick's handler turns the cycles that
   went by on the DWT counter into ticks, so that a window with interrupts
   masked loses no time.  Without a running DWT every SysTick counts one. *)
EXTENDS Integers

CONSTANTS Wrap,      \* the cycle counter's modulus, 2^32 in the code
          Per,       \* CYCLES_PER_TICK
          MaxCycles  \* bound on the cycles a behaviour lasts

ASSUME ClockAssumption ==
  /\ Wrap \in Nat \ {0} /\ Per \in Nat \ {0}
  /\ MaxCycles \in Nat

VARIABLES
  dwtRuns,    \* DWT_CLOCK, measured once by `start`
  cycles,     \* cycles since `start`; CYCCNT is this modulo Wrap
  serviced,   \* cycles at the last SysTick handled
  last,       \* LAST_CYCLES
  rem,        \* CYCLE_REM
  ticks,      \* TICKS
  recovered,  \* RECOVERED
  interrupts  \* how many SysTicks have been handled

clockVars == <<dwtRuns, cycles, serviced, last, rem, ticks, recovered, interrupts>>

CycCnt == cycles % Wrap

ClockInit == /\ dwtRuns \in BOOLEAN
        /\ cycles = 0 /\ serviced = 0 /\ last = CycCnt
        /\ rem = 0 /\ ticks = 0 /\ recovered = 0 /\ interrupts = 0

(* Interrupts stay masked for less than one wrap of the counter: the limit the
   code documents on `ticks`. *)
Pass(d) ==
  /\ cycles + d <= MaxCycles
  /\ cycles + d - serviced < Wrap
  /\ cycles' = cycles + d
  /\ UNCHANGED <<dwtRuns, serviced, last, rem, ticks, recovered, interrupts>>

(* Mutant: a plain subtraction, saturating at zero. *)
SaturatingGap == IF CycCnt < last THEN 0 ELSE CycCnt - last
(* now.wrapping_sub(last) *)
Gap == (CycCnt - last) % Wrap

(* Mutant: the remainder is forgotten at every tick. *)
FreshTotal == Gap
Total == rem + Gap
Whole == Total \div Per
Left == Total % Per

Extra == IF Whole > 1 THEN Whole - 1 ELSE 0

AdvanceOnDwt ==
  /\ dwtRuns
  /\ last' = CycCnt
  /\ rem' = Left
  /\ ticks' = ticks + Whole
  /\ recovered' = recovered + Extra

AdvanceByOne ==
  /\ ~dwtRuns
  /\ ticks' = ticks + 1
  /\ UNCHANGED <<last, rem, recovered>>

(* advance_ticks, in SysTick's handler; SysTick fires every Per cycles and is
   handled late, once, when it was masked. *)
Service ==
  /\ cycles >= serviced + 1
  /\ AdvanceOnDwt \/ AdvanceByOne
  /\ serviced' = cycles
  /\ interrupts' = interrupts + 1
  /\ UNCHANGED <<dwtRuns, cycles>>

ClockNext == Service \/ \E d \in 1 .. Wrap - 1 : Pass(d)

ClockSpec == ClockInit /\ [][ClockNext]_clockVars

ClockTypeOK ==
  /\ dwtRuns \in BOOLEAN /\ cycles \in Nat /\ serviced \in 0 .. cycles
  /\ last \in 0 .. Wrap - 1 /\ rem \in 0 .. Per - 1
  /\ ticks \in Nat /\ recovered \in Nat /\ interrupts \in Nat

(* With a running DWT the clock is exact: the ticks counted and the remainder
   kept are the cycles up to the last SysTick, however late each one came. *)
NoCycleLost == dwtRuns => ticks * Per + rem = serviced

(* What RECOVERED is for: a tick that no interrupt of its own brought is
   counted there, so interrupts and recovered ticks together cover the clock. *)
RecoveredAccounts == dwtRuns => ticks <= interrupts + recovered

=============================================================================
