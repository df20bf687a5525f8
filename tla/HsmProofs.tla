------------------------------ MODULE HsmProofs ------------------------------
(* What HSM mode promises on the device's own time, and the time itself: the
   kernel's clock loses no cycle, for every counter width, tick length and
   pattern of masked windows shorter than one wrap; a velocity limit holds for
   every period, policy and number of restarts; a one-time code and a local code
   count once. *)
EXTENDS Hsm, KernelClock, TLAPS

-----------------------------------------------------------------------------
(* The kernel's clock. *)

(* What the division in advance_ticks returns: quotient and remainder. *)
LEMMA DivMod ==
  ASSUME NEW n \in Nat, NEW d \in Nat \ {0}
  PROVE  /\ n \div d \in Nat /\ n % d \in 0 .. d - 1
         /\ (n \div d) * d + (n % d) = n
  OBVIOUS

(* Whole multiples of the modulus disappear. *)
LEMMA ModUnique ==
  ASSUME NEW q \in Int, NEW d \in Nat \ {0}, NEW r \in 0 .. d - 1
  PROVE  (q * d + r) % d = r
  OBVIOUS

(* wrapping_sub on the cycle counter gives the cycles that really passed. *)
LEMMA WrappingSub ==
  ASSUME NEW a \in Nat, NEW b \in Nat, NEW w \in Nat \ {0},
         b <= a, a - b < w
  PROVE  ((a % w) - (b % w)) % w = a - b
<1> DEFINE qa == a \div w  qb == b \div w
<1>1. qa \in Nat /\ qb \in Nat
  BY DivMod
<1>2. qa * w + (a % w) = a /\ qb * w + (b % w) = b
  BY DivMod
<1>3. a % w \in Int /\ b % w \in Int
  BY DivMod
<1> HIDE DEF qa, qb
<1>4. (qb - qa) * w = qb * w - qa * w
  BY <1>1
<1>5. qa * w \in Int /\ qb * w \in Int
  BY <1>1
<1>6. (a % w) - (b % w) = (qb - qa) * w + (a - b)
  <2> DEFINE ra == a % w  rb == b % w  pa == qa * w  pb == qb * w
  <2>1. pa + ra = a /\ pb + rb = b
    BY <1>2
  <2>2. ra \in Int /\ rb \in Int /\ pa \in Int /\ pb \in Int
    BY <1>3, <1>5
  <2> HIDE DEF ra, rb, pa, pb
  <2>3. ra - rb = (pb - pa) + (a - b)
    BY <2>1, <2>2
  <2> QED BY <2>3, <1>4 DEF ra, rb, pa, pb
<1>7. a - b \in 0 .. w - 1
  OBVIOUS
<1>8. ((qb - qa) * w + (a - b)) % w = a - b
  BY <1>1, <1>7, ModUnique
<1> QED BY <1>6, <1>8

(* `last` is the counter at the last interrupt handled, and the bound on masked
   windows holds at every moment, not only when one ends. *)
ClockInv ==
  /\ ClockTypeOK
  /\ dwtRuns => last = serviced % Wrap
  /\ cycles - serviced < Wrap
  /\ NoCycleLost
  /\ RecoveredAccounts

(* The subtraction in the handler is the time since the last one. *)
LEMMA GapIsElapsed ==
  ASSUME ClockInv, dwtRuns
  PROVE  Gap = cycles - serviced
<1>1. cycles \in Nat /\ serviced \in Nat /\ serviced <= cycles
  BY DEF ClockInv, ClockTypeOK
<1>2. cycles - serviced < Wrap /\ Wrap \in Nat \ {0}
  BY ClockAssumption DEF ClockInv
<1>3. ((cycles % Wrap) - (serviced % Wrap)) % Wrap = cycles - serviced
  BY <1>1, <1>2, WrappingSub
<1> QED BY <1>3 DEF ClockInv, Gap, CycCnt

LEMMA ClockInitHolds == ClockInit => ClockInv
  BY DivMod, ClockAssumption
  DEF ClockInit, ClockInv, ClockTypeOK, NoCycleLost, RecoveredAccounts, CycCnt

LEMMA ClockPass ==
  ASSUME ClockInv, NEW d \in 1 .. Wrap - 1, Pass(d)
  PROVE  ClockInv'
  BY ClockAssumption DEF ClockInv, ClockTypeOK, NoCycleLost, RecoveredAccounts, Pass

LEMMA ClockService ==
  ASSUME ClockInv, Service
  PROVE  ClockInv'
<1> USE ClockAssumption DEF ClockInv, ClockTypeOK
<1>1. CASE AdvanceOnDwt
  <2>1. Gap = cycles - serviced
    BY <1>1, GapIsElapsed DEF AdvanceOnDwt
  <2>2. Total \in Nat /\ Total = rem + (cycles - serviced)
    BY <2>1 DEF Total
  <2>3. Whole \in Nat /\ Left \in 0 .. Per - 1 /\ Whole * Per + Left = Total
    BY <2>2, DivMod DEF Whole, Left
  <2>4. (ticks + Whole) * Per = ticks * Per + Whole * Per
    BY <2>3
  <2>5. ticks * Per \in Int /\ Whole * Per \in Int
    BY <2>3
  <2>6. CycCnt \in 0 .. Wrap - 1
    BY DivMod DEF CycCnt
  <2>7. Extra \in Nat /\ Whole <= 1 + Extra
    BY <2>3 DEF Extra
  <2>8. NoCycleLost'
    BY <1>1, <2>2, <2>3, <2>4, <2>5 DEF NoCycleLost, AdvanceOnDwt, Service
  <2>9. RecoveredAccounts'
    BY <1>1, <2>3, <2>7 DEF RecoveredAccounts, AdvanceOnDwt, Service
  <2>10. ClockTypeOK'
    BY <1>1, <2>3, <2>6, <2>7 DEF AdvanceOnDwt, Service
  <2>11. (dwtRuns => last = serviced % Wrap)' /\ (cycles - serviced < Wrap)'
    BY <1>1 DEF AdvanceOnDwt, Service, CycCnt
  <2> QED BY <2>8, <2>9, <2>10, <2>11
<1>2. CASE AdvanceByOne
  BY <1>2 DEF AdvanceByOne, Service, NoCycleLost, RecoveredAccounts
<1> QED BY <1>1, <1>2 DEF Service

LEMMA ClockNextHolds == ClockInv /\ [ClockNext]_clockVars => ClockInv'
<1> SUFFICES ASSUME ClockInv, [ClockNext]_clockVars PROVE ClockInv'
  OBVIOUS
<1>1. CASE Service
  BY <1>1, ClockService
<1>2. ASSUME NEW d \in 1 .. Wrap - 1, Pass(d) PROVE ClockInv'
  BY <1>2, ClockPass
<1>3. CASE UNCHANGED clockVars
  BY <1>3 DEF clockVars, ClockInv, ClockTypeOK, NoCycleLost, RecoveredAccounts
<1> QED BY <1>1, <1>2, <1>3 DEF ClockNext

(* The clock of the kernel is well typed, is exact when it runs on the cycle
   counter, and accounts for every tick no interrupt of its own brought. *)
THEOREM ClockTyped == ClockSpec => []ClockTypeOK
<1>1. ClockInv => ClockTypeOK
  BY DEF ClockInv
<1> QED BY <1>1, ClockInitHolds, ClockNextHolds, PTL DEF ClockSpec

(* Every cycle up to the last SysTick is in TICKS or in CYCLE_REM: a masked
   window costs the clock nothing, however the windows fall. *)
THEOREM ClockExact == ClockSpec => []NoCycleLost
<1>1. ClockInv => NoCycleLost
  BY DEF ClockInv
<1> QED BY <1>1, ClockInitHolds, ClockNextHolds, PTL DEF ClockSpec

(* RECOVERED counts every tick beyond one per interrupt. *)
THEOREM ClockAccounts == ClockSpec => []RecoveredAccounts
<1>1. ClockInv => RecoveredAccounts
  BY DEF ClockInv
<1> QED BY <1>1, ClockInitHolds, ClockNextHolds, PTL DEF ClockSpec

-----------------------------------------------------------------------------
(* One-time codes.  The argument: a code that has counted is not past the stored
   counter, a code accepted is, and what the judge was given is stored already
   when the verdict is asked for. *)

Entries == [user : Users, code : Nat \ {0}, time : Nat]

(* The shapes the argument needs, and that a queued code is one of its user's. *)
Shapes ==
  /\ counter \in [Users -> Nat]
  /\ queue \in Seq(Entries)
  /\ \A i \in DOMAIN queue : queue[i].code <= MaxCode[queue[i].user]
  /\ judging.given \in [Users -> Nat]
  /\ \A u \in Users : backed[u] \in [1 .. MaxCode[u] -> Nat]

Counted == \A u \in Users : \A c \in 1 .. MaxCode[u] : backed[u][c] >= 1 => c <= counter[u]

Pending ==
  \A u \in Users : judging.given[u] # 0 =>
    /\ judging.given[u] \in 1 .. MaxCode[u]
    /\ judging.given[u] <= counter[u]
    /\ backed[u][judging.given[u]] = 0

OtpInv == Shapes /\ Counted /\ Pending /\ OtpOnce

(* What check_pending takes is a code its user could send, past the stored one. *)
LEMMA GivenIsPast ==
  ASSUME Shapes, HsmAssumption
  PROVE  /\ Given \in [Users -> Nat]
         /\ \A u \in Users : Given[u] # 0 => Given[u] \in 1 .. MaxCode[u] /\ Given[u] > counter[u]
<1>1. \A i \in DOMAIN queue : queue[i] \in Entries
  BY DEF Shapes
<1>2. ASSUME NEW u \in Users, NEW i \in DOMAIN queue, Checked(i), queue[i].user = u
      PROVE  queue[i].code \in 1 .. MaxCode[u] /\ queue[i].code > counter[u]
  <2>1. Accepts(queue[i])
    <3>1. i \in 1 .. i
      BY DEF Shapes
    <3> QED BY <1>2, <3>1 DEF Checked
  <2>2. queue[i].code \in Nat \ {0} /\ queue[i].time \in Nat
    BY <1>1, <1>2 DEF Entries
  <2>3. queue[i].code > counter[u]
    <3>1. CASE u \in Totp
      BY <2>1, <3>1, <1>2 DEF Accepts
    <3>2. CASE u \notin Totp
      BY <2>1, <2>2, <3>2, <1>2 DEF Accepts, Shapes, HsmAssumption
    <3> QED BY <3>1, <3>2
  <2>4. queue[i].code <= MaxCode[u]
    BY <1>2 DEF Shapes
  <2>5. MaxCode[u] \in Nat
    BY DEF HsmAssumption
  <2> QED BY <2>2, <2>3, <2>4, <2>5
<1>3. ASSUME NEW u \in Users
      PROVE  CodeOf(u) \in Nat /\ (CodeOf(u) # 0 => CodeOf(u) \in 1 .. MaxCode[u] /\ CodeOf(u) > counter[u])
  <2>1. CASE \E i \in DOMAIN queue : Checked(i) /\ queue[i].user = u
    <3> DEFINE j == CHOOSE i \in DOMAIN queue : Checked(i) /\ queue[i].user = u
    <3>1. j \in DOMAIN queue /\ Checked(j) /\ queue[j].user = u
      BY <2>1
    <3>2. CodeOf(u) = queue[j].code
      BY <2>1 DEF CodeOf
    <3> HIDE DEF j
    <3>3. queue[j].code \in 1 .. MaxCode[u] /\ queue[j].code > counter[u]
      BY <1>2, <3>1
    <3> QED BY <3>2, <3>3 DEF HsmAssumption
  <2>2. CASE ~ \E i \in DOMAIN queue : Checked(i) /\ queue[i].user = u
    BY <2>2 DEF CodeOf
  <2> QED BY <2>1, <2>2
<1> QED BY <1>3 DEF Given

LEMMA OtpInit == ASSUME HsmAssumption, Init PROVE OtpInv
<1>1. Shapes
  BY DEF Init, Shapes, HsmAssumption, Nobody, NotJudging, Entries
<1>2. Counted /\ OtpOnce
  BY DEF Init, Counted, OtpOnce
<1>3. Pending
  BY DEF Init, Pending, NotJudging, Nobody
<1> QED BY <1>1, <1>2, <1>3 DEF OtpInv

(* A step that leaves the codes alone and at most empties the queue. *)
LEMMA OtpUntouched ==
  ASSUME OtpInv, UNCHANGED <<counter, backed>>,
         queue' = queue \/ queue' = <<>>,
         judging' = judging \/ judging' = NotJudging
  PROVE  OtpInv'
<1>1. judging'.given = judging.given \/ judging'.given = Nobody
  BY DEF NotJudging
<1>2. Shapes'
  <2>1. judging'.given \in [Users -> Nat]
    BY <1>1 DEF OtpInv, Shapes, Nobody
  <2>2. queue' \in Seq(Entries) /\ \A i \in DOMAIN queue' : queue'[i].code <= MaxCode[queue'[i].user]
    <3>1. CASE queue' = queue
      BY <3>1 DEF OtpInv, Shapes
    <3>2. CASE queue' = <<>>
      BY <3>2
    <3> QED BY <3>1, <3>2
  <2> QED BY <2>1, <2>2 DEF OtpInv, Shapes
<1>3. Counted' /\ OtpOnce'
  BY DEF OtpInv, Counted, OtpOnce
<1>4. Pending'
  BY <1>1 DEF OtpInv, Pending, Nobody
<1> QED BY <1>2, <1>3, <1>4 DEF OtpInv

LEMMA OtpQueue ==
  ASSUME HsmAssumption, OtpInv,
         NEW u \in Users, NEW c \in 1 .. MaxCode[u], NEW t \in 0 .. MaxCode[u], QueueAuth(u, c, t)
  PROVE  OtpInv'
<1> DEFINE new == [user |-> u, code |-> c, time |-> t]
           fit(e) == e \in Entries /\ e.code <= MaxCode[e.user]
<1>1. queue \in Seq(Entries) /\ fit(new) /\ \A i \in DOMAIN queue : fit(queue[i])
  <2>1. queue \in Seq(Entries) /\ \A i \in DOMAIN queue : queue[i].code <= MaxCode[queue[i].user]
    BY DEF OtpInv, Shapes
  <2>2. MaxCode[u] \in Nat
    BY DEF HsmAssumption
  <2>3. fit(new)
    BY <2>2 DEF Entries
  <2>4. \A i \in DOMAIN queue : queue[i] \in Entries
    BY <2>1
  <2> QED BY <2>1, <2>3, <2>4
<1>2. Others(u) \in Seq(Entries) /\ \A i \in DOMAIN Others(u) : fit(Others(u)[i])
  <2>1. CASE Of(u) = {}
    BY <1>1, <2>1 DEF Others
  <2>2. CASE Of(u) # {}
    <3> DEFINE k == CHOOSE i \in Of(u) : TRUE
               less == RemoveAt(queue, k)
    <3>1. k \in 1 .. Len(queue)
      BY <1>1, <2>2 DEF Of
    <3>2. Others(u) = less
      BY <2>2 DEF Others
    <3> HIDE DEF k
    <3>3. /\ less \in Seq(Entries) /\ Len(less) = Len(queue) - 1
          /\ \A i \in 1 .. Len(queue) - 1 : less[i] = IF i < k THEN queue[i] ELSE queue[i + 1]
      <4> DEFINE front == SubSeq(queue, 1, k - 1)
                 back == SubSeq(queue, k + 1, Len(queue))
      <4>1. less = front \o back
        BY DEF RemoveAt
      <4>2. /\ front \in Seq(Entries) /\ Len(front) = k - 1
            /\ \A i \in 1 .. k - 1 : front[i] = queue[i]
        BY <1>1, <3>1
      <4>3. /\ back \in Seq(Entries) /\ Len(back) = Len(queue) - k
            /\ \A i \in 1 .. Len(queue) - k : back[i] = queue[k + i]
        BY <1>1, <3>1
      <4> HIDE DEF front, back, less
      <4>4. less \in Seq(Entries) /\ Len(less) = Len(queue) - 1
        BY <1>1, <3>1, <4>1, <4>2, <4>3
      <4>5. ASSUME NEW i \in 1 .. Len(queue) - 1
            PROVE  less[i] = IF i < k THEN queue[i] ELSE queue[i + 1]
        <5>1. CASE i < k
          BY <1>1, <3>1, <4>1, <4>2, <4>3, <5>1
        <5>2. CASE ~(i < k)
          <6>1. less[i] = back[i - (k - 1)] /\ i - (k - 1) \in 1 .. Len(queue) - k
            <7>0. Len(queue) \in Nat /\ k \in 1 .. Len(queue)
              BY <1>1, <3>1
            <7>3. Len(front) = k - 1 /\ Len(back) = Len(queue) - k
              BY <4>2, <4>3
            <7>1. i \in Nat /\ i > Len(front) /\ i <= Len(front) + Len(back)
              BY <5>2, <7>0, <7>3
            <7>2. (front \o back)[i] = back[i - Len(front)]
              BY <4>2, <4>3, <7>1
            <7> QED BY <1>1, <3>1, <4>1, <4>2, <5>2, <7>1, <7>2
          <6>2. back[i - (k - 1)] = queue[k + (i - (k - 1))] /\ k + (i - (k - 1)) = i + 1
            BY <1>1, <3>1, <4>3, <6>1
          <6> QED BY <5>2, <6>1, <6>2
        <5> QED BY <5>1, <5>2
      <4> QED BY <4>4, <4>5
    <3>4. DOMAIN less = 1 .. Len(queue) - 1
      BY <3>3
    <3> HIDE DEF less, fit
    <3>5. ASSUME NEW i \in 1 .. Len(queue) - 1 PROVE fit(less[i])
      <4>1. CASE i < k
        <5>1. less[i] = queue[i] /\ i \in DOMAIN queue
          BY <1>1, <3>1, <3>3, <4>1
        <5> QED BY <1>1, <5>1
      <4>2. CASE ~ (i < k)
        <5>1. less[i] = queue[i + 1] /\ i + 1 \in DOMAIN queue
          BY <1>1, <3>1, <3>3, <4>2
        <5> DEFINE n == i + 1
        <5>2. n \in DOMAIN queue => fit(queue[n])
          BY <1>1
        <5> QED BY <5>1, <5>2
      <4> QED BY <4>1, <4>2
    <3> QED BY <3>2, <3>3, <3>4, <3>5
  <2> QED BY <2>1, <2>2
<1>3. queue' = Append(Others(u), new)
  BY DEF QueueAuth
<1> HIDE DEF new
<1>4. queue' \in Seq(Entries) /\ \A i \in DOMAIN queue' : fit(queue'[i])
  <2>1. queue' \in Seq(Entries)
    BY <1>1, <1>2, <1>3
  <2>2. DOMAIN queue' = 1 .. Len(Others(u)) + 1 /\ \A i \in 1 .. Len(Others(u)) : queue'[i] = Others(u)[i]
    BY <1>1, <1>2, <1>3
  <2>3. queue'[Len(Others(u)) + 1] = new
    BY <1>1, <1>2, <1>3
  <2>4. Len(Others(u)) \in Nat /\ DOMAIN Others(u) = 1 .. Len(Others(u))
    BY <1>2
  <2>5. fit(new) /\ \A i \in DOMAIN Others(u) : fit(Others(u)[i])
    BY <1>1, <1>2
  <2> HIDE DEF fit
  <2>6. ASSUME NEW i \in DOMAIN queue' PROVE fit(queue'[i])
    <3>1. CASE i \in DOMAIN Others(u)
      BY <2>2, <2>4, <2>5, <3>1
    <3>2. CASE i \notin DOMAIN Others(u)
      <4>1. i = Len(Others(u)) + 1
        BY <2>2, <2>4, <3>2
      <4> QED BY <2>3, <2>5, <4>1
    <3> QED BY <3>1, <3>2
  <2> QED BY <2>1, <2>6
<1>5. Shapes'
  BY <1>4 DEF OtpInv, Shapes, QueueAuth, ghost
<1>6. Counted' /\ OtpOnce' /\ Pending'
  BY DEF OtpInv, Counted, OtpOnce, Pending, QueueAuth, ghost
<1> QED BY <1>5, <1>6 DEF OtpInv

(* The codes accepted are stored before the judge goes on with them; the queue
   is empty from here on. *)
LEMMA OtpJudgeStarts ==
  ASSUME HsmAssumption, OtpInv,
         NEW tx \in Txs, NEW readable \in BOOLEAN, NEW saved \in BOOLEAN, JudgeStarts(tx, readable, saved)
  PROVE  OtpInv'
<1>1. /\ Given \in [Users -> Nat]
      /\ \A u \in Users : Given[u] # 0 => Given[u] \in 1 .. MaxCode[u] /\ Given[u] > counter[u]
  BY GivenIsPast DEF OtpInv
<1>2. counter \in [Users -> Nat] /\ backed' = backed /\ queue' = <<>>
  BY DEF OtpInv, Shapes, JudgeStarts
<1>3. Recorded \in [Users -> Nat] /\ \A u \in Users : Recorded[u] >= counter[u] /\ Recorded[u] >= Given[u]
  BY <1>1, <1>2 DEF Recorded
<1>4. counter' \in [Users -> Nat] /\ \A u \in Users : counter'[u] >= counter[u]
  BY <1>2, <1>3 DEF JudgeStarts
<1>5. \/ judging'.given = Nobody
      \/ judging'.given = Given /\ counter' = Recorded
  <2>1. CASE readable /\ AllGood(saved \/ Given = Nobody)
    <3>1. judging'.given = Given
      BY <2>1 DEF JudgeStarts
    <3>2. saved \/ Given = Nobody
      BY <2>1 DEF AllGood
    <3>3. CASE saved
      BY <2>1, <3>1, <3>3 DEF JudgeStarts
    <3> QED BY <3>1, <3>2, <3>3
  <2>2. CASE ~(readable /\ AllGood(saved \/ Given = Nobody))
    BY <2>2 DEF JudgeStarts, NotJudging
  <2> QED BY <2>1, <2>2
<1>6. Nobody \in [Users -> Nat] /\ \A u \in Users : Nobody[u] = 0
  BY DEF Nobody
<1>7. Shapes'
  <2>1. judging'.given \in [Users -> Nat]
    BY <1>1, <1>5, <1>6
  <2>2. queue' \in Seq(Entries) /\ \A i \in DOMAIN queue' : queue'[i].code <= MaxCode[queue'[i].user]
    BY <1>2
  <2> QED BY <1>2, <1>4, <2>1, <2>2 DEF OtpInv, Shapes
<1>8. Counted'
  BY <1>2, <1>4 DEF OtpInv, Counted, HsmAssumption
<1>9. Pending'
  <2> SUFFICES ASSUME NEW u \in Users, judging'.given[u] # 0
               PROVE  /\ judging'.given[u] \in 1 .. MaxCode[u]
                      /\ judging'.given[u] <= counter'[u]
                      /\ backed'[u][judging'.given[u]] = 0
    BY DEF Pending
  <2>1. judging'.given = Given /\ counter' = Recorded
    BY <1>5, <1>6
  <2>2. Given[u] \in 1 .. MaxCode[u] /\ Given[u] > counter[u]
    BY <1>1, <2>1
  <2>3. backed[u][Given[u]] \in Nat /\ ~(backed[u][Given[u]] >= 1)
    BY <1>1, <1>2, <2>2 DEF OtpInv, Counted, Shapes, HsmAssumption
  <2> QED BY <1>1, <1>2, <1>3, <2>1, <2>2, <2>3
<1>10. OtpOnce'
  BY <1>2 DEF OtpInv, OtpOnce
<1> QED BY <1>7, <1>8, <1>9, <1>10 DEF OtpInv

(* The verdict counts each code given once, and forgets what was given. *)
LEMMA OtpVerdict == ASSUME HsmAssumption, OtpInv, Verdict PROVE OtpInv'
<1> DEFINE plus(u) == [backed[u] EXCEPT ![judging.given[u]] = @ + 1]
<1>1. judging' = NotJudging /\ UNCHANGED <<queue, counter>>
  BY DEF Verdict
<1>2. \/ backed' = backed
      \/ \E i : backed' = [u \in Users |->
           IF u \in Rules[i].users /\ judging.given[u] # 0 THEN plus(u) ELSE backed[u]]
  BY DEF Verdict
<1>3. \A u \in Users : backed'[u] = backed[u] \/ (judging.given[u] # 0 /\ backed'[u] = plus(u))
  BY <1>2
<1>4. CASE backed' = backed
  BY <1>1, <1>4, OtpUntouched
<1>5. CASE backed' # backed
  <2>1. /\ counter \in [Users -> Nat] /\ judging.given \in [Users -> Nat] /\ MaxCode \in [Users -> Nat]
        /\ \A u \in Users : backed[u] \in [1 .. MaxCode[u] -> Nat]
    BY DEF OtpInv, Shapes, HsmAssumption
  <2>2. ASSUME NEW u \in Users
        PROVE  /\ backed'[u] \in [1 .. MaxCode[u] -> Nat]
               /\ \A c \in 1 .. MaxCode[u] : backed'[u][c] <= 1 /\ (backed'[u][c] >= 1 => c <= counter[u])
    <3>1. CASE backed'[u] = backed[u]
      BY <2>1, <3>1 DEF OtpInv, Counted, OtpOnce
    <3>2. CASE judging.given[u] # 0 /\ backed'[u] = plus(u)
      <4>1. /\ judging.given[u] \in 1 .. MaxCode[u] /\ judging.given[u] <= counter[u]
            /\ backed[u][judging.given[u]] = 0
        BY <3>2 DEF OtpInv, Pending
      <4>2. backed'[u] \in [1 .. MaxCode[u] -> Nat]
        BY <2>1, <3>2, <4>1
      <4>3. \A c \in 1 .. MaxCode[u] : backed'[u][c] = IF c = judging.given[u] THEN 1 ELSE backed[u][c]
        BY <2>1, <3>2, <4>1
      <4> QED BY <2>1, <4>1, <4>2, <4>3 DEF OtpInv, Counted, OtpOnce
    <3> QED BY <1>3, <3>1, <3>2
  <2>3. judging'.given = Nobody
    BY <1>1 DEF NotJudging
  <2>4. judging'.given \in [Users -> Nat]
    BY <2>3 DEF Nobody
  <2>5. Shapes'
    BY <1>1, <2>2, <2>4 DEF OtpInv, Shapes
  <2>6. Counted' /\ OtpOnce'
    BY <1>1, <2>2 DEF Counted, OtpOnce
  <2>7. Pending'
    BY <2>3 DEF Pending, Nobody
  <2> QED BY <2>5, <2>6, <2>7 DEF OtpInv
<1> QED BY <1>4, <1>5

LEMMA OtpNext == ASSUME HsmAssumption, OtpInv, [Next]_vars PROVE OtpInv'
<1>1. CASE UNCHANGED vars
  BY <1>1, OtpUntouched DEF vars, hsm, ghost
<1>2. CASE BootStarts \/ PersonStarts
  BY <1>2, OtpUntouched DEF BootStarts, PersonStarts, Activate, ghost
<1>3. CASE BootFails \/ PersonDeclines \/ Leave \/ Restart
  BY <1>3, OtpUntouched DEF BootFails, PersonDeclines, Leave, Restart, ghost
<1>4. CASE DrawStatus \/ RefuseEarly \/ After
  BY <1>4, OtpUntouched DEF DrawStatus, RefuseEarly, After, ghost
<1>5. CASE \E w \in 1 .. 2 : Tick(w)
  BY <1>5, OtpUntouched DEF Tick, hsm
<1>6. CASE \E c \in Txs \cup {Wrong} : Submit(c)
  BY <1>6, OtpUntouched DEF Submit, ghost
<1>7. CASE \E u \in Users : \E c \in 1 .. MaxCode[u], t \in 0 .. MaxCode[u] : QueueAuth(u, c, t)
  BY <1>7, OtpQueue
<1>8. CASE \E tx \in Txs, readable, saved \in BOOLEAN : JudgeStarts(tx, readable, saved)
  BY <1>8, OtpJudgeStarts
<1>9. CASE Verdict
  BY <1>9, OtpVerdict
<1> QED BY <1>1, <1>2, <1>3, <1>4, <1>5, <1>6, <1>7, <1>8, <1>9 DEF Next

(* OtpOnce for any users, any policy and any number of restarts. *)
THEOREM OtpCountsOnce == Spec => []OtpOnce
<1>1. Init => OtpInv
  BY OtpInit, HsmAssumption
<1>2. OtpInv /\ [Next]_vars => OtpInv'
  BY OtpNext, HsmAssumption
<1>3. OtpInv => OtpOnce
  BY DEF OtpInv
<1> QED BY <1>1, <1>2, <1>3, PTL DEF Spec

-----------------------------------------------------------------------------
(* Velocity limits.  The argument: while a period runs, what a rule approved
   since it began is in spent, and what it approved before is at most one limit
   more -- or, after a restart, spent is the whole limit until all of that is
   too old to matter. *)

InForce == at \in {"loop", "judge", "after"}

(* The shapes the argument needs; in force the clock was looked at less than a
   wrap ago. *)
TimeOK ==
  /\ uptime \in Nat
  /\ clock \in [last : Nat, total : Nat] /\ clock.last <= uptime
  /\ InForce => uptime - clock.last < TickWrap
  /\ rt.started \in Int \cup {NotStarted}
  /\ rt.spent \in [DOMAIN Rules -> Nat]
  /\ lately \in [DOMAIN Rules -> [Ages -> Nat]]
  /\ at = "judge" => judging.tx \in Txs

(* What rule i approved and what is charged to the period r. *)
Accounted(i, r) ==
  IF r.started = NotStarted
  THEN r.spent[i] = 0 /\ \A k \in Ages : lately[i][k] <= Rules[i].limit
  ELSE /\ r.spent[i] <= Rules[i].limit
       /\ \A k \in Ages : lately[i][k] <= r.spent[i] + Rules[i].limit
       /\ \A k \in Ages : k < Now - r.started => lately[i][k] <= r.spent[i]

VelocityInv ==
  /\ TimeOK
  /\ VelocityHolds
  /\ InForce => \A i \in Limited : Accounted(i, rt)

LEMMA NowIsNat == ASSUME HsmAssumption, TimeOK PROVE Now \in Nat
<1>1. uptime % TickWrap \in Int /\ clock.last % TickWrap \in Int /\ clock.total \in Nat
  BY DivMod DEF HsmAssumption, TimeOK
<1> DEFINE d == (uptime % TickWrap) - (clock.last % TickWrap)
<1>2. d \in Int
  BY <1>1
<1> HIDE DEF d
<1>3. d % TickWrap \in Nat
  BY <1>2 DEF HsmAssumption
<1> QED BY <1>1, <1>3 DEF Now, d

(* In force the clock is exact: now_ms misses no wrap. *)
LEMMA NowMoves ==
  ASSUME HsmAssumption, TimeOK, InForce
  PROVE  Now = clock.total + (uptime - clock.last)
<1>1. uptime \in Nat /\ clock.last \in Nat /\ clock.last <= uptime /\ uptime - clock.last < TickWrap
  BY DEF TimeOK
<1>2. TickWrap \in Nat \ {0}
  BY DEF HsmAssumption
<1>3. ((uptime % TickWrap) - (clock.last % TickWrap)) % TickWrap = uptime - clock.last
  BY <1>1, <1>2, WrappingSub
<1> QED BY <1>3 DEF Now

(* A look changes what is kept of the clock, never what it says. *)
LEMMA LookKeeps ==
  ASSUME HsmAssumption, TimeOK, Look, uptime' = uptime
  PROVE  /\ Now' = Now
         /\ clock' \in [last : Nat, total : Nat] /\ clock'.last <= uptime'
         /\ uptime' - clock'.last < TickWrap
<1>1. Now \in Nat /\ uptime \in Nat /\ TickWrap \in Nat \ {0}
  BY NowIsNat DEF TimeOK, HsmAssumption
<1>2. clock' = [last |-> uptime, total |-> Now]
  BY DEF Look
<1>3. clock'.last = uptime' /\ clock'.total = Now
  BY <1>2
<1>4. ((uptime' % TickWrap) - (clock'.last % TickWrap)) % TickWrap = 0
  <2>1. uptime % TickWrap \in Int
    BY <1>1, DivMod
  <2>2. (uptime % TickWrap) - (uptime % TickWrap) = 0
    BY <2>1
  <2>3. 0 % TickWrap = 0
    BY <1>1
  <2> QED BY <1>3, <2>2, <2>3
<1>5. Now' = Now
  <2>1. Now' = clock'.total + (((uptime' % TickWrap) - (clock'.last % TickWrap)) % TickWrap)
    BY DEF Now
  <2> QED BY <1>1, <1>3, <1>4, <2>1
<1> QED BY <1>1, <1>2, <1>3, <1>5

LEMMA LimitsAreNats ==
  ASSUME HsmAssumption, NEW i \in Limited
  PROVE  Rules[i].limit \in Nat /\ i \in DOMAIN Rules
  BY DEF HsmAssumption, Limited

(* What time_left leaves of a period is still accounted for: when one has run
   out, nothing approved before it began is recent. *)
LEMMA RenewedIsAccounted ==
  ASSUME HsmAssumption, VelocityInv, InForce
  PROVE  /\ Renewed.started \in Int \cup {NotStarted}
         /\ Renewed.spent \in [DOMAIN Rules -> Nat]
         /\ \A i \in Limited : Accounted(i, Renewed)
<1>1. CASE ~PeriodOver
  BY <1>1 DEF Renewed, VelocityInv, TimeOK
<1>2. CASE PeriodOver
  <2>1. Renewed.started = NotStarted /\ Renewed.spent = [i \in DOMAIN Rules |-> 0]
    <3>1. Renewed = [rt EXCEPT !.started = NotStarted, !.spent = NewRuntime.spent]
      BY <1>2 DEF Renewed
    <3> QED BY <3>1 DEF NewRuntime
  <2>2. Now \in Nat /\ Period \in Nat \ {0} /\ rt.started \in Int /\ Now - rt.started >= Period
    BY <1>2, NowIsNat DEF VelocityInv, TimeOK, PeriodOver, HsmAssumption
  <2>3. ASSUME NEW i \in Limited PROVE Accounted(i, Renewed)
    <3>1. rt.spent[i] <= Rules[i].limit /\ \A k \in Ages : lately[i][k] <= rt.spent[i]
      <4>1. \A k \in Ages : k < Now - rt.started
        BY <2>2 DEF Ages
      <4>2. Accounted(i, rt) /\ rt.started # NotStarted
        BY <1>2 DEF VelocityInv, PeriodOver
      <4> QED BY <4>1, <4>2 DEF Accounted
    <3>2. \A k \in Ages : lately[i][k] \in Nat /\ rt.spent[i] \in Nat /\ Rules[i].limit \in Nat
      BY LimitsAreNats DEF VelocityInv, TimeOK
    <3>3. \A k \in Ages : lately[i][k] <= Rules[i].limit
      BY <3>1, <3>2
    <3>4. Renewed.spent[i] = 0
      BY <2>1, LimitsAreNats
    <3> QED BY <2>1, <3>3, <3>4 DEF Accounted
  <2> QED BY <2>1, <2>3
<1> QED BY <1>1, <1>2

(* The accounts are of the time, of what was approved and of the period. *)
LEMMA SameAccounts ==
  ASSUME NEW r, NEW i \in Limited, Accounted(i, r),
         Now' = Now, lately' = lately, rt'.started = r.started, rt'.spent = r.spent
  PROVE  Accounted(i, rt)'
  BY DEF Accounted

(* A step in force that approves nothing. *)
LEMMA ApprovesNothing ==
  ASSUME HsmAssumption, VelocityInv, InForce, UNCHANGED <<uptime, lately>>,
         Look \/ clock' = clock,
         (rt'.started = rt.started /\ rt'.spent = rt.spent)
           \/ (rt'.started = Renewed.started /\ rt'.spent = Renewed.spent),
         at' = "judge" => judging'.tx \in Txs
  PROVE  VelocityInv'
<1>1. Now' = Now /\ clock' \in [last : Nat, total : Nat] /\ clock'.last <= uptime' /\ uptime' - clock'.last < TickWrap
  <2>1. CASE Look
    BY <2>1, LookKeeps DEF VelocityInv
  <2>2. CASE clock' = clock
    BY <2>2 DEF VelocityInv, TimeOK, Now
  <2> QED BY <2>1, <2>2
<1>2. /\ Renewed.started \in Int \cup {NotStarted} /\ Renewed.spent \in [DOMAIN Rules -> Nat]
      /\ \A i \in Limited : Accounted(i, Renewed) /\ Accounted(i, rt)
  BY RenewedIsAccounted DEF VelocityInv
<1>3. TimeOK'
  BY <1>1, <1>2 DEF VelocityInv, TimeOK
<1>4. \A i \in Limited : Accounted(i, rt)'
  BY <1>1, <1>2, SameAccounts
<1>5. VelocityHolds'
  BY DEF VelocityInv, VelocityHolds
<1> QED BY <1>3, <1>4, <1>5 DEF VelocityInv

LEMMA VelocityInit == ASSUME HsmAssumption, Init PROVE VelocityInv
<1>1. ~InForce /\ at = "login"
  BY DEF Init, InForce
<1>2. TimeOK
  BY <1>1 DEF Init, TimeOK, NewRuntime
<1>3. VelocityHolds
  <2> SUFFICES ASSUME NEW i \in Limited, NEW k \in Ages PROVE lately[i][k] <= 2 * Rules[i].limit
    BY DEF VelocityHolds
  <2>1. lately[i][k] = 0
    BY LimitsAreNats DEF Init
  <2> QED BY <2>1, LimitsAreNats
<1> QED BY <1>1, <1>2, <1>3 DEF VelocityInv

(* A person's start: nothing was approved since, nothing is spent. *)
LEMMA VelocityPersonStarts == ASSUME HsmAssumption, VelocityInv, PersonStarts PROVE VelocityInv'
<1>1. /\ Look /\ uptime' = uptime /\ at' = "loop" /\ rt' = NewRuntime
      /\ lately' = [i \in DOMAIN Rules |-> [k \in Ages |-> 0]]
  BY DEF PersonStarts, Activate
<1>2. rt'.started = NotStarted /\ rt'.spent = [i \in DOMAIN Rules |-> 0]
  BY <1>1 DEF NewRuntime
<1>3. TimeOK'
  <2>1. /\ clock' \in [last : Nat, total : Nat] /\ clock'.last <= uptime'
        /\ uptime' - clock'.last < TickWrap
    BY <1>1, LookKeeps DEF VelocityInv
  <2> QED BY <1>1, <1>2, <2>1 DEF VelocityInv, TimeOK
<1>4. \A i \in Limited : Accounted(i, rt)' /\ \A k \in Ages : lately'[i][k] <= 2 * Rules[i].limit
  BY <1>1, <1>2, LimitsAreNats DEF Accounted
<1> QED BY <1>3, <1>4 DEF VelocityInv, VelocityHolds

(* Starting by itself: the whole limit counts as spent, so what went out before
   the power was cut is one limit more at most. *)
LEMMA VelocityBootStarts == ASSUME HsmAssumption, VelocityInv, BootStarts PROVE VelocityInv'
<1>1. Look /\ uptime' = uptime /\ at' = "loop" /\ rt' = Precharged /\ lately' = lately
  BY DEF BootStarts, Activate, ghost
<1>2. Now' = Now /\ Now \in Nat
  BY <1>1, LookKeeps, NowIsNat DEF VelocityInv
<1>3. CASE Limited = {}
  <2>1. rt'.started = NotStarted /\ rt'.spent = [i \in DOMAIN Rules |-> 0]
    BY <1>1, <1>3 DEF Precharged, NewRuntime
  <2>2. TimeOK'
    <3>1. /\ clock' \in [last : Nat, total : Nat] /\ clock'.last <= uptime'
          /\ uptime' - clock'.last < TickWrap
      BY <1>1, LookKeeps DEF VelocityInv
    <3> QED BY <1>1, <2>1, <3>1 DEF VelocityInv, TimeOK
  <2> QED BY <1>3, <2>2 DEF VelocityInv, VelocityHolds
<1>4. CASE Limited # {}
  <2>1. /\ rt'.started = Now
        /\ rt'.spent = [i \in DOMAIN Rules |-> IF i \in Limited THEN Rules[i].limit ELSE 0]
    BY <1>1, <1>4 DEF Precharged, NewRuntime
  <2>2. rt'.spent \in [DOMAIN Rules -> Nat]
    BY <2>1, LimitsAreNats
  <2>3. TimeOK'
    <3>1. /\ clock' \in [last : Nat, total : Nat] /\ clock'.last <= uptime'
          /\ uptime' - clock'.last < TickWrap
      BY <1>1, LookKeeps DEF VelocityInv
    <3> QED BY <1>1, <1>2, <2>1, <2>2, <3>1 DEF VelocityInv, TimeOK
  <2>4. ASSUME NEW i \in Limited PROVE Accounted(i, rt)'
    <3>1. rt'.spent[i] = Rules[i].limit /\ Rules[i].limit \in Nat
      BY <2>1, LimitsAreNats
    <3>2. \A k \in Ages : lately'[i][k] <= rt'.spent[i] + Rules[i].limit
      BY <1>1, <3>1 DEF VelocityInv, VelocityHolds
    <3>3. \A k \in Ages : ~ (k < Now' - rt'.started)
      BY <1>2, <2>1 DEF Ages
    <3>4. rt'.started # NotStarted
      BY <1>2, <2>1 DEF HsmAssumption
    <3> QED BY <3>1, <3>2, <3>3, <3>4 DEF Accounted
  <2> QED BY <1>1, <2>3, <2>4 DEF VelocityInv, VelocityHolds
<1> QED BY <1>3, <1>4

(* Time goes by: what was approved is that much older. *)
LEMMA VelocityTick ==
  ASSUME HsmAssumption, VelocityInv, NEW w \in 1 .. 2, Tick(w)
  PROVE  VelocityInv'
<1>1. uptime' = uptime + w /\ lately' = Older(w) /\ UNCHANGED <<at, clock, rt, judging>>
  BY DEF Tick, hsm
<1>2. \A i \in DOMAIN Rules, k \in Ages :
        /\ lately'[i][k] = IF k < w THEN 0 ELSE lately[i][k - w]
        /\ ~ (k < w) => k - w \in Ages
  BY <1>1 DEF Older, Ages
<1>3. TimeOK'
  <2>1. lately' \in [DOMAIN Rules -> [Ages -> Nat]]
    BY <1>1, <1>2 DEF VelocityInv, TimeOK, Older
  <2>2. InForce => uptime' - clock.last < TickWrap
    <3>1. at \in {"loop", "judge", "after"} => uptime + w - clock.last < TickWrap
      BY DEF Tick
    <3>2. uptime \in Nat /\ clock.last \in Nat /\ uptime' = uptime + w
      BY <1>1 DEF VelocityInv, TimeOK
    <3>3. uptime' - clock.last = uptime + w - clock.last
      BY <3>2
    <3> QED BY <3>1, <3>3 DEF InForce
  <2> QED BY <1>1, <2>1, <2>2 DEF VelocityInv, TimeOK, InForce
<1>4. VelocityHolds'
  <2> SUFFICES ASSUME NEW i \in Limited, NEW k \in Ages PROVE lately'[i][k] <= 2 * Rules[i].limit
    BY DEF VelocityHolds
  <2>1. i \in DOMAIN Rules /\ Rules[i].limit \in Nat
    BY LimitsAreNats
  <2> QED BY <1>2, <2>1 DEF VelocityInv, VelocityHolds
<1>5. ASSUME InForce, NEW i \in Limited PROVE Accounted(i, rt)'
  <2>1. Now' = Now + w /\ Now \in Nat
    <3>1. Now = clock.total + (uptime - clock.last)
      BY <1>5, NowMoves DEF VelocityInv
    <3>2. Now' = clock'.total + (uptime' - clock'.last)
      <4>1. InForce'
        BY <1>1, <1>5 DEF InForce
      <4>2. ((uptime' % TickWrap) - (clock'.last % TickWrap)) % TickWrap = uptime' - clock'.last
        <5>1. uptime' \in Nat /\ clock'.last \in Nat /\ clock'.last <= uptime' /\ uptime' - clock'.last < TickWrap
          BY <1>3, <4>1 DEF TimeOK
        <5>2. TickWrap \in Nat \ {0}
          BY DEF HsmAssumption
        <5> QED BY <5>1, <5>2, WrappingSub
      <4> QED BY <4>2 DEF Now
    <3>3. clock.total \in Nat /\ clock.last \in Nat /\ uptime \in Nat
      BY DEF VelocityInv, TimeOK
    <3> QED BY <1>1, <3>1, <3>2, <3>3, NowIsNat DEF VelocityInv
  <2>2. i \in DOMAIN Rules /\ Rules[i].limit \in Nat /\ rt.spent[i] \in Nat
    BY LimitsAreNats DEF VelocityInv, TimeOK
  <2>3. Accounted(i, rt)
    BY <1>5 DEF VelocityInv
  <2>4. CASE rt.started = NotStarted
    <3>1. \A k \in Ages : lately'[i][k] <= Rules[i].limit
      BY <1>2, <2>2, <2>3, <2>4 DEF Accounted
    <3> QED BY <1>1, <2>3, <2>4, <3>1 DEF Accounted
  <2>5. CASE rt.started # NotStarted
    <3>1. rt.started \in Int
      BY <2>5 DEF VelocityInv, TimeOK
    <3>2. ASSUME NEW k \in Ages
          PROVE  /\ lately'[i][k] <= rt.spent[i] + Rules[i].limit
                 /\ k < Now' - rt.started => lately'[i][k] <= rt.spent[i]
      <4>1. CASE k < w
        <5>1. lately'[i][k] = 0
          BY <1>2, <2>2, <4>1
        <5> QED BY <2>2, <5>1
      <4>2. CASE ~ (k < w)
        <5>1. lately'[i][k] = lately[i][k - w] /\ k - w \in Ages
          BY <1>2, <2>2, <4>2
        <5>2. k < Now' - rt.started => k - w < Now - rt.started
          BY <2>1, <3>1 DEF Ages
        <5> QED BY <2>3, <2>5, <5>1, <5>2 DEF Accounted
      <4> QED BY <4>1, <4>2
    <3> QED BY <1>1, <2>3, <2>5, <3>2 DEF Accounted
  <2> QED BY <2>4, <2>5
<1> QED BY <1>1, <1>3, <1>4, <1>5 DEF VelocityInv, InForce

(* What is approved is charged to its rule, and fits under its limit. *)
LEMMA VelocityApproves ==
  ASSUME HsmAssumption, VelocityInv, at = "judge", at' = "after", Look, uptime' = uptime,
         NEW i \in Allowing(Renewed, judging),
         rt' = Charged(Renewed, i, judging.tx.sending),
         lately' = [lately EXCEPT ![i] = [k \in Ages |-> @[k] + judging.tx.sending]]
  PROVE  VelocityInv'
<1> DEFINE amount == judging.tx.sending
<1>1. InForce /\ amount \in Nat
  BY DEF VelocityInv, TimeOK, InForce, HsmAssumption
<1>2. Now' = Now /\ Now \in Nat
  BY LookKeeps, NowIsNat DEF VelocityInv
<1>3. /\ Renewed.started \in Int \cup {NotStarted} /\ Renewed.spent \in [DOMAIN Rules -> Nat]
      /\ \A j \in Limited : Accounted(j, Renewed)
  BY <1>1, RenewedIsAccounted
<1>4. i \in DOMAIN Rules /\ (i \in Limited => Renewed.spent[i] + amount <= Rules[i].limit)
  BY DEF Allowing, Allows, Limited
<1> HIDE DEF amount
<1>5. /\ lately' \in [DOMAIN Rules -> [Ages -> Nat]]
      /\ \A j \in DOMAIN Rules, k \in Ages :
           lately'[j][k] = IF j = i THEN lately[j][k] + amount ELSE lately[j][k]
  <2>1. lately \in [DOMAIN Rules -> [Ages -> Nat]]
    BY DEF VelocityInv, TimeOK
  <2>2. lately' = [lately EXCEPT ![i] = [k \in Ages |-> lately[i][k] + amount]]
    BY DEF amount
  <2> QED BY <1>1, <1>4, <2>1, <2>2
<1>6. CASE i \notin Limited
  <2>1. rt' = Renewed
    BY <1>6 DEF Charged
  <2>2. ASSUME NEW j \in Limited PROVE Accounted(j, rt)'
    <3>1. \A k \in Ages : lately'[j][k] = lately[j][k]
      BY <1>5, <1>6, LimitsAreNats
    <3>2. Accounted(j, Renewed)
      BY <1>3
    <3> QED BY <1>2, <2>1, <3>1, <3>2 DEF Accounted
  <2>3. VelocityHolds'
    <3>1. ASSUME NEW j \in Limited, NEW k \in Ages PROVE lately'[j][k] = lately[j][k]
      BY <1>5, <1>6, LimitsAreNats
    <3> QED BY <3>1 DEF VelocityInv, VelocityHolds
  <2>4. TimeOK'
    <3>1. /\ clock' \in [last : Nat, total : Nat] /\ clock'.last <= uptime'
          /\ uptime' - clock'.last < TickWrap
      BY LookKeeps DEF VelocityInv
    <3> QED BY <1>3, <1>5, <2>1, <3>1 DEF VelocityInv, TimeOK
  <2> QED BY <2>2, <2>3, <2>4 DEF VelocityInv
<1>7. CASE i \in Limited
  <2>1. /\ rt'.started = IF Renewed.started = NotStarted THEN Now ELSE Renewed.started
        /\ rt'.spent = [Renewed.spent EXCEPT ![i] = @ + amount]
    <3>1. rt' = [Renewed EXCEPT !.started = IF @ = NotStarted THEN Now ELSE @, !.spent[i] = @ + amount]
      BY <1>7 DEF Charged, amount
    <3>2. rt'.started = IF Renewed.started = NotStarted THEN Now ELSE Renewed.started
      BY <3>1
    <3>3. rt'.spent = [Renewed.spent EXCEPT ![i] = @ + amount]
      BY <3>1
    <3> QED BY <3>2, <3>3
  <2>2. /\ rt'.started \in Int /\ rt'.spent \in [DOMAIN Rules -> Nat] /\ rt'.started # NotStarted
        /\ \A j \in DOMAIN Rules : rt'.spent[j] = IF j = i THEN Renewed.spent[j] + amount ELSE Renewed.spent[j]
    <3>1. rt'.started \in Int
      BY <1>2, <1>3, <2>1
    <3>2. /\ rt'.spent \in [DOMAIN Rules -> Nat]
          /\ \A j \in DOMAIN Rules : rt'.spent[j] = IF j = i THEN Renewed.spent[j] + amount ELSE Renewed.spent[j]
      BY <1>1, <1>3, <1>4, <2>1
    <3> QED BY <3>1, <3>2 DEF HsmAssumption
  <2>3. ASSUME NEW j \in Limited PROVE Accounted(j, rt)' /\ \A k \in Ages : lately'[j][k] <= 2 * Rules[j].limit
    <3> DEFINE more == IF j = i THEN amount ELSE 0
    <3>1. /\ j \in DOMAIN Rules /\ Rules[j].limit \in Nat /\ Renewed.spent[j] \in Nat /\ more \in Nat
          /\ rt'.spent[j] = Renewed.spent[j] + more
          /\ \A k \in Ages : lately[j][k] \in Nat /\ lately'[j][k] = lately[j][k] + more
      BY <1>1, <1>3, <1>5, <2>2, LimitsAreNats DEF VelocityInv, TimeOK
    <3>2. Accounted(j, Renewed)
      BY <1>3
    <3>3. rt'.spent[j] <= Rules[j].limit
      <4>1. CASE j = i
        BY <1>4, <2>2, <3>1, <4>1
      <4>2. CASE j # i
        <5>1. Renewed.spent[j] <= Rules[j].limit
          BY <3>1, <3>2 DEF Accounted
        <5> QED BY <3>1, <4>2, <5>1
      <4> QED BY <4>1, <4>2
    <3> HIDE DEF more
    <3>4. \A k \in Ages : lately[j][k] <= Renewed.spent[j] + Rules[j].limit
      BY <3>1, <3>2 DEF Accounted
    <3>5. \A k \in Ages : k < Now' - rt'.started => lately[j][k] <= Renewed.spent[j]
      <4>1. CASE Renewed.started = NotStarted
        <5>1. \A k \in Ages : ~ (k < Now' - rt'.started)
          BY <1>2, <2>1, <4>1 DEF Ages
        <5> QED BY <5>1
      <4>2. CASE Renewed.started # NotStarted
        BY <1>2, <2>1, <3>2, <4>2 DEF Accounted
      <4> QED BY <4>1, <4>2
    <3>6. \A k \in Ages : /\ lately'[j][k] <= rt'.spent[j] + Rules[j].limit
                          /\ k < Now' - rt'.started => lately'[j][k] <= rt'.spent[j]
      BY <3>1, <3>4, <3>5
    <3>7. \A k \in Ages : lately'[j][k] <= 2 * Rules[j].limit
      BY <3>1, <3>3, <3>6
    <3> QED BY <2>2, <3>3, <3>6, <3>7 DEF Accounted
  <2>4. TimeOK'
    <3>1. /\ clock' \in [last : Nat, total : Nat] /\ clock'.last <= uptime'
          /\ uptime' - clock'.last < TickWrap
      BY LookKeeps DEF VelocityInv
    <3> QED BY <1>5, <2>2, <3>1 DEF VelocityInv, TimeOK
  <2> QED BY <2>3, <2>4 DEF VelocityInv, VelocityHolds
<1> QED BY <1>6, <1>7

LEMMA VelocityVerdict == ASSUME HsmAssumption, VelocityInv, Verdict PROVE VelocityInv'
<1>1. at = "judge" /\ at' = "after" /\ Look /\ uptime' = uptime /\ InForce
  BY DEF Verdict, InForce
<1>2. CASE rt' = Refused(Renewed) /\ UNCHANGED <<lately, backed>>
  <2>1. rt'.started = Renewed.started /\ rt'.spent = Renewed.spent
    BY <1>2 DEF Refused
  <2> QED BY <1>1, <1>2, <2>1, ApprovesNothing
<1>3. ASSUME NEW i \in Allowing(Renewed, judging),
             rt' = Charged(Renewed, i, judging.tx.sending),
             lately' = [lately EXCEPT ![i] = [k \in Ages |-> @[k] + judging.tx.sending]]
      PROVE  VelocityInv'
  BY <1>1, <1>3, VelocityApproves
<1> QED BY <1>2, <1>3 DEF Verdict

LEMMA VelocityNext == ASSUME HsmAssumption, VelocityInv, [Next]_vars PROVE VelocityInv'
<1>1. CASE UNCHANGED vars
  BY <1>1 DEF vars, hsm, ghost, VelocityInv, TimeOK, VelocityHolds, InForce, Accounted, Now
<1>2. CASE BootStarts
  BY <1>2, VelocityBootStarts
<1>3. CASE PersonStarts
  BY <1>3, VelocityPersonStarts
<1>4. CASE BootFails \/ PersonDeclines
  <2>1. UNCHANGED <<uptime, clock, rt, lately>> /\ at' \in {"stopped", "menus"}
    BY <1>4 DEF BootFails, PersonDeclines, ghost
  <2> QED BY <2>1 DEF VelocityInv, TimeOK, VelocityHolds, InForce
<1>5. CASE Leave
  <2>1. Look /\ uptime' = uptime /\ at' = "menus" /\ rt' = NewRuntime /\ lately' = lately
    BY <1>5 DEF Leave, ghost
  <2>2. /\ clock' \in [last : Nat, total : Nat] /\ clock'.last <= uptime'
    BY <2>1, LookKeeps DEF VelocityInv
  <2>3. rt'.started = NotStarted /\ rt'.spent \in [DOMAIN Rules -> Nat]
    BY <2>1 DEF NewRuntime
  <2> QED BY <2>1, <2>2, <2>3 DEF VelocityInv, TimeOK, VelocityHolds, InForce
<1>6. CASE Restart
  <2>1. uptime' = 0 /\ clock' = [last |-> 0, total |-> 0] /\ at' = "login" /\ rt' = NewRuntime /\ lately' = lately
    BY <1>6 DEF Restart
  <2>2. rt'.started = NotStarted /\ rt'.spent \in [DOMAIN Rules -> Nat]
    BY <2>1 DEF NewRuntime
  <2> QED BY <2>1, <2>2 DEF VelocityInv, TimeOK, VelocityHolds, InForce
<1>7. CASE DrawStatus
  BY <1>7, ApprovesNothing DEF DrawStatus, ghost, InForce
<1>8. CASE RefuseEarly
  <2>1. rt'.started = rt.started /\ rt'.spent = rt.spent
    BY <1>8 DEF RefuseEarly, Refused
  <2> QED BY <1>8, <2>1, ApprovesNothing DEF RefuseEarly, ghost, InForce
<1>9. CASE Verdict
  BY <1>9, VelocityVerdict
<1>10. CASE After
  <2>1. UNCHANGED <<uptime, clock, rt, lately>> /\ at = "after" /\ at' \in {"stopped", "loop"}
    BY <1>10 DEF After, ghost
  <2> QED BY <2>1, ApprovesNothing DEF InForce
<1>11. CASE \E w \in 1 .. 2 : Tick(w)
  BY <1>11, VelocityTick
<1>12. CASE \E c \in Txs \cup {Wrong} : Submit(c)
  BY <1>12, ApprovesNothing DEF Submit, ghost, InForce
<1>13. CASE \E u \in Users : \E c \in 1 .. MaxCode[u], t \in 0 .. MaxCode[u] : QueueAuth(u, c, t)
  BY <1>13, ApprovesNothing DEF QueueAuth, ghost, InForce
<1>14. ASSUME NEW tx \in Txs, NEW readable \in BOOLEAN, NEW saved \in BOOLEAN, JudgeStarts(tx, readable, saved)
       PROVE  VelocityInv'
  <2>1. at = "loop" /\ UNCHANGED <<uptime, clock, lately>>
    BY <1>14 DEF JudgeStarts
  <2>2. rt'.started = rt.started /\ rt'.spent = rt.spent
    <3>1. rt' = rt \/ rt' = Refused(rt)
      BY <1>14 DEF JudgeStarts
    <3>2. CASE rt' = Refused(rt)
      BY <3>2 DEF Refused
    <3> QED BY <3>1, <3>2
  <2>3. at' = "judge" => judging'.tx \in Txs
    BY <1>14 DEF JudgeStarts
  <2> QED BY <2>1, <2>2, <2>3, ApprovesNothing DEF InForce
<1> QED BY <1>1, <1>2, <1>3, <1>4, <1>5, <1>6, <1>7, <1>8, <1>9, <1>10, <1>11, <1>12, <1>13, <1>14 DEF Next

(* Since the last start a person allowed, what a rule approved within any span
   as long as the period is at most twice its limit, through restarts and
   however the counter of ticks wraps, for every policy. *)
THEOREM LimitsHold == Spec => []VelocityHolds
<1>1. Init => VelocityInv
  BY VelocityInit, HsmAssumption
<1>2. VelocityInv /\ [Next]_vars => VelocityInv'
  BY VelocityNext, HsmAssumption
<1>3. VelocityInv => VelocityHolds
  BY DEF VelocityInv
<1> QED BY <1>1, <1>2, <1>3, PTL DEF Spec

-----------------------------------------------------------------------------
(* The local code.  The argument: every judging draws a new key, so a key is
   new whenever a code typed with it is looked at. *)

LocalInv == key = NewKey /\ LocalCodeOnce

(* A code the operator read off is accepted for one transaction, the one it was
   made for and judged next, or for none. *)
THEOREM LocalCodesCountOnce == Spec => []LocalCodeOnce
<1>1. Init => LocalInv
  BY DEF Init, LocalInv, LocalCodeOnce, NotJudging
<1>2. LocalInv /\ [Next]_vars => LocalInv'
  <2> SUFFICES ASSUME LocalInv, [Next]_vars PROVE LocalInv'
    OBVIOUS
  <2> USE DEF LocalInv, LocalCodeOnce
  <2>1. ASSUME NEW tx \in Txs, NEW readable \in BOOLEAN, NEW saved \in BOOLEAN, JudgeStarts(tx, readable, saved)
        PROVE  LocalInv'
    <3>1. key' = NewKey
      BY <2>1 DEF JudgeStarts, FreshKey
    <3>2. LocalOk(tx) \in {0, 1}
      BY DEF LocalOk, NewKey
    <3>3. judging'.local \in {0, LocalOk(tx)}
      BY <2>1 DEF JudgeStarts, NotJudging
    <3> QED BY <3>1, <3>2, <3>3
  <2>2. CASE UNCHANGED <<key, judging>>
    BY <2>2
  <2>3. CASE BootStarts \/ PersonStarts \/ Leave \/ Restart \/ Verdict
    BY <2>3 DEF BootStarts, PersonStarts, Activate, Leave, Restart, Verdict, NotJudging
  <2>4. CASE BootFails \/ PersonDeclines \/ DrawStatus \/ RefuseEarly \/ After
    BY <2>4 DEF BootFails, PersonDeclines, DrawStatus, RefuseEarly, After
  <2>5. CASE \/ \E w \in 1 .. 2 : Tick(w)
             \/ \E c \in Txs \cup {Wrong} : Submit(c)
             \/ \E u \in Users : \E c \in 1 .. MaxCode[u], t \in 0 .. MaxCode[u] : QueueAuth(u, c, t)
             \/ UNCHANGED vars
    BY <2>5 DEF Tick, Submit, QueueAuth, vars, hsm
  <2> QED BY <2>1, <2>2, <2>3, <2>4, <2>5 DEF Next
<1>3. LocalInv => LocalCodeOnce
  BY DEF LocalInv
<1> QED BY <1>1, <1>2, <1>3, PTL DEF Spec
=============================================================================
