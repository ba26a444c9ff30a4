----------------------------- MODULE NtpClockProofs -----------------------------
(* TLAPS proofs about NtpClock, for every rate and width of the timer, every        *)
(* timeout, and any delay of the network.                                         *)
EXTENDS NtpClock, TLAPS

(* The second that SNTP gave is that of the moment it was set, less the age of the  *)
(* answer.                                                                        *)
AnswerTrue ==
  current_time # 0 =>
    /\ time_init <= uptime
    /\ current_time * PerSecond <= bootTime + time_init
    /\ bootTime + time_init < current_time * PerSecond + PerSecond + MaxDelay

(* start is the 32-bit reading of a moment, and since then no more has passed than  *)
(* the timeout and one round.                                                     *)
Waiting ==
  pc = "wait" =>
    \E begun \in 0 .. MaxConnect :
      /\ start = begun % ClockMod
      /\ begun <= uptime /\ uptime <= begun + SyncTimeout + MaxSleep

Begins == pc = "connect" => uptime = 0 /\ current_time = 0
RunsWithTime == pc = "run" => current_time # 0

ClockInv == ClockTypeOK /\ AnswerTrue /\ Waiting /\ Begins /\ RunsWithTime

-----------------------------------------------------------------------------
LEMMA DivMod ==
  ASSUME NEW n \in Nat \ {0}, NEW x \in Int
  PROVE  /\ x % n \in 0 .. n - 1 /\ x \div n \in Int
         /\ x = n * (x \div n) + (x % n)
  OBVIOUS

LEMMA ModUnique ==
  ASSUME NEW n \in Nat \ {0}, NEW y \in 0 .. n - 1, NEW k \in Int
  PROVE  (y + n * k) % n = y
  OBVIOUS

LEMMA Quotient ==
  ASSUME NEW n \in Nat \ {0}, NEW x \in Nat
  PROVE  x \div n \in Nat /\ (x \div n) * n <= x /\ x < (x \div n) * n + n
<1>1. x \div n \in Nat
  OBVIOUS
<1>2. x % n \in 0 .. n - 1 /\ x = n * (x \div n) + (x % n)
  BY DivMod
<1> QED  BY <1>1, <1>2

LEMMA Product ==
  ASSUME NEW a \in Nat, NEW b \in Nat PROVE a * b \in Nat /\ 0 * b = 0
  OBVIOUS

(* The 32-bit difference of two readings less than a round of the timer apart is    *)
(* the time between them, wherever the timer wraps.                               *)
LEMMA Difference ==
  ASSUME NEW n \in Nat \ {0}, NEW a \in Nat, NEW b \in Nat, a <= b, b - a < n
  PROVE  ((b % n) - (a % n)) % n = b - a
<1> DEFINE k == (a \div n) - (b \div n)
<1>1. /\ a % n \in Int /\ a \div n \in Int /\ a = n * (a \div n) + (a % n)
      /\ b % n \in Int /\ b \div n \in Int /\ b = n * (b \div n) + (b % n)
  BY DivMod
<1>2. n * k = n * (a \div n) - n * (b \div n) /\ k \in Int
  BY <1>1
<1> HIDE DEF k
<1>3. (b % n) - (a % n) = (b - a) + n * k
  BY <1>1, <1>2
<1>4. b - a \in 0 .. n - 1
  OBVIOUS
<1> QED  BY <1>2, <1>3, <1>4, ModUnique

LEMMA NotInFirstSecond ==
  ASSUME NEW n \in Nat \ {0}, NEW q \in Nat, NEW x \in Nat, n <= x, x < q * n + n
  PROVE  q # 0
<1> SUFFICES ASSUME q = 0 PROVE FALSE
  OBVIOUS
<1>1. q * n = 0
  BY Product
<1> QED  BY <1>1

(* The callback of SNTP runs.                                                     *)
LEMMA AnswerStep ==
  ASSUME ClockTypeOK, sntp_set_system_time_us
  PROVE  /\ current_time' \in Nat \ {0} /\ time_init' = uptime
         /\ current_time' * PerSecond <= bootTime + time_init'
         /\ bootTime + time_init' < current_time' * PerSecond + PerSecond + MaxDelay
<1>1. PICK delay \in 0 .. MaxDelay : current_time' = (trueTime - delay) \div PerSecond
  BY DEF sntp_set_system_time_us
<1>2. PerSecond \in Nat \ {0} /\ MaxDelay \in Nat /\ uptime \in Nat /\ bootTime \in Nat
      /\ bootTime >= PerSecond + MaxDelay
  BY ClockAssumption DEF ClockTypeOK
<1>3. trueTime = bootTime + uptime /\ trueTime - delay \in Nat /\ trueTime - delay >= PerSecond
  BY <1>2 DEF trueTime
<1>4. /\ current_time' \in Nat /\ current_time' * PerSecond <= trueTime - delay
      /\ trueTime - delay < current_time' * PerSecond + PerSecond
  BY <1>1, <1>2, <1>3, Quotient
<1>5. current_time' # 0
  BY <1>2, <1>3, <1>4, NotInFirstSecond
<1>6. time_init' = uptime
  BY DEF sntp_set_system_time_us
<1>7. current_time' * PerSecond \in Nat
  BY <1>2, <1>4, Product
<1>8. current_time' * PerSecond <= bootTime + uptime
      /\ bootTime + uptime < current_time' * PerSecond + PerSecond + MaxDelay
  <2> DEFINE product == current_time' * PerSecond
  <2>1. product \in Nat /\ product <= trueTime - delay /\ trueTime - delay < product + PerSecond
    BY <1>4, <1>7
  <2> HIDE DEF product
  <2>2. product <= bootTime + uptime /\ bootTime + uptime < product + PerSecond + MaxDelay
    BY <1>2, <1>3, <2>1
  <2> QED  BY <2>2 DEF product
<1> QED  BY <1>4, <1>5, <1>6, <1>8

LEMMA ConnectStep == ASSUME ClockInv, Connect PROVE ClockInv'
<1>1. PICK d \in 0 .. MaxConnect : uptime' = uptime + d
  BY DEF Connect
<1>2. /\ pc = "connect" /\ uptime = 0 /\ current_time = 0 /\ uptime' = d /\ d \in Nat
      /\ UNCHANGED <<current_time, time_init, bootTime>> /\ MaxConnect \in Nat
  BY <1>1, ClockAssumption DEF ClockInv, Begins, Connect
<1>3. Timer32(uptime') = d % ClockMod /\ d % ClockMod \in 0 .. ClockMod - 1
  BY <1>2, ClockAssumption, DivMod DEF Timer32
<1>4. ClockTypeOK'
  BY <1>2, <1>3 DEF ClockInv, ClockTypeOK, Connect
<1>5. Waiting'
  <2>1. d <= d + SyncTimeout + MaxSleep
    BY <1>2, ClockAssumption
  <2> QED  BY <1>1, <1>2, <1>3, <2>1 DEF Waiting, Connect
<1> QED
  BY <1>2, <1>4, <1>5 DEF ClockInv, AnswerTrue, Begins, RunsWithTime, Connect

LEMMA WaitRoundStep == ASSUME ClockInv, WaitRound PROVE ClockInv'
<1> USE DEF ClockInv
<1>1. PICK d \in 1 .. MaxSleep : uptime' = uptime + d
  BY DEF WaitRound
<1>2. /\ pc = "wait" /\ pc' = "wait" /\ current_time = 0 /\ ~Waited /\ UNCHANGED <<start, bootTime>>
      /\ uptime \in Nat /\ d \in Nat /\ MaxSleep \in Nat
  BY ClockAssumption DEF WaitRound, ClockTypeOK
<1>3. \/ sntp_set_system_time_us
      \/ UNCHANGED <<current_time, time_init>>
  BY DEF WaitRound
<1>4. ClockTypeOK' /\ AnswerTrue'
  <2>1. CASE sntp_set_system_time_us
    BY <1>1, <1>2, <2>1, AnswerStep DEF ClockTypeOK, AnswerTrue
  <2>2. CASE UNCHANGED <<current_time, time_init>>
    BY <1>1, <1>2, <2>2 DEF ClockTypeOK, AnswerTrue
  <2> QED  BY <1>3, <2>1, <2>2
<1>5. Waiting'
  <2>1. PICK begun \in 0 .. MaxConnect :
          /\ start = begun % ClockMod
          /\ begun <= uptime /\ uptime <= begun + SyncTimeout + MaxSleep
    BY <1>2 DEF Waiting
  <2>2. /\ ClockMod \in Nat \ {0} /\ begun \in Nat /\ SyncTimeout \in Nat
        /\ SyncTimeout + MaxSleep < ClockMod
    BY <2>1, ClockAssumption
  <2>3. (time_us_32 - start) % ClockMod = uptime - begun
    <3>1. begun <= uptime /\ uptime - begun < ClockMod
      BY <1>2, <2>1, <2>2
    <3> QED  BY <1>2, <2>1, <2>2, <3>1, Difference DEF time_us_32, Timer32
  <2>4. uptime - begun < SyncTimeout
    BY <1>2, <2>2, <2>3 DEF Waited
  <2>5. begun <= uptime' /\ uptime' <= begun + SyncTimeout + MaxSleep
    BY <1>1, <1>2, <2>1, <2>2, <2>4
  <2> QED  BY <1>2, <2>1, <2>5 DEF Waiting
<1> QED  BY <1>2, <1>4, <1>5 DEF Begins, RunsWithTime

LEMMA WaitEndStep == ASSUME ClockInv, WaitEnd PROVE ClockInv'
  BY DEF ClockInv, ClockTypeOK, AnswerTrue, Waiting, Begins, RunsWithTime, WaitEnd

LEMMA PassStep == ASSUME ClockInv, Pass PROVE ClockInv'
<1>1. uptime' \in Nat /\ uptime <= uptime' /\ uptime \in Nat /\ pc' = pc /\ pc \in {"run", "halt"}
      /\ UNCHANGED <<start, current_time, time_init, bootTime>>
  BY DEF ClockInv, ClockTypeOK, Pass
<1> QED  BY <1>1 DEF ClockInv, ClockTypeOK, AnswerTrue, Waiting, Begins, RunsWithTime

(* The inductive invariant holds: the answer, the wait and the boot agree with the *)
(* time that has passed (wifi.c:26-65).                                           *)
THEOREM ClockInvariant == ClockSpec => []ClockInv
<1>1. ClockInit => ClockInv
  BY ClockAssumption DEF ClockInit, ClockInv, ClockTypeOK, AnswerTrue, Waiting, Begins, RunsWithTime
<1>2. ClockInv /\ [ClockNext]_clockVars => ClockInv'
  <2>1. ASSUME ClockInv, UNCHANGED clockVars PROVE ClockInv'
    BY <2>1 DEF ClockInv, ClockTypeOK, AnswerTrue, Waiting, Begins, RunsWithTime, clockVars
  <2> QED  BY <2>1, ConnectStep, WaitRoundStep, WaitEndStep, PassStep DEF ClockNext
<1> QED  BY <1>1, <1>2, PTL DEF ClockSpec

(* Every variable keeps its type, and `start` holds what a 32-bit timer can show.   *)
THEOREM ClockTypeHolds == ClockSpec => []ClockTypeOK
  BY ClockInvariant, PTL DEF ClockInv

(* The timestamp is never ahead of the true second, and less than a second and the  *)
(* age of the answer behind it, however long ago the time was set (wifi.c:63-65).  *)
THEOREM TimestampAccurateHolds == ClockSpec => []TimestampAccurate
<1>1. ClockInv => TimestampAccurate
  <2> SUFFICES ASSUME ClockInv, pc = "run"
               PROVE  /\ get_timestamp * PerSecond <= trueTime
                      /\ trueTime < (get_timestamp + 2) * PerSecond + MaxDelay
    BY DEF TimestampAccurate
  <2> DEFINE q == elapsed_us \div PerSecond
  <2>1. /\ PerSecond \in Nat \ {0} /\ MaxDelay \in Nat /\ current_time \in Nat \ {0}
        /\ time_init \in Nat
        /\ uptime \in Nat /\ bootTime \in Nat /\ time_init <= uptime
        /\ current_time * PerSecond <= bootTime + time_init
        /\ bootTime + time_init < current_time * PerSecond + PerSecond + MaxDelay
    BY ClockAssumption DEF ClockInv, ClockTypeOK, AnswerTrue, RunsWithTime
  <2>2. elapsed_us \in Nat /\ elapsed_us = uptime - time_init
    BY <2>1 DEF elapsed_us
  <2>3. q \in Nat /\ q * PerSecond <= elapsed_us /\ elapsed_us < q * PerSecond + PerSecond
    BY <2>1, <2>2, Quotient
  <2>4. get_timestamp = current_time + q
    BY <2>1 DEF get_timestamp
  <2> HIDE DEF q
  <2>5. /\ (current_time + q) * PerSecond = current_time * PerSecond + q * PerSecond
        /\ (current_time + q + 2) * PerSecond
             = current_time * PerSecond + q * PerSecond + PerSecond + PerSecond
        /\ current_time * PerSecond \in Nat /\ q * PerSecond \in Nat
    BY <2>1, <2>3
  <2> QED  BY <2>1, <2>2, <2>3, <2>4, <2>5 DEF trueTime
<1> QED  BY <1>1, ClockInvariant, PTL

(* The wait is over after its timeout and one round, also when the 32-bit timer     *)
(* wraps in between (wifi.c:43-44).                                               *)
THEOREM WaitBoundedHolds == ClockSpec => []WaitBounded
<1>1. ClockInv => WaitBounded
  BY ClockAssumption DEF ClockInv, ClockTypeOK, Waiting, WaitBounded
<1> QED  BY <1>1, ClockInvariant, PTL
=============================================================================
