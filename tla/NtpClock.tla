-------------------------------- MODULE NtpClock --------------------------------
(* The clock of station 1 (src/buddy5/wifi.c): ntp_init joins the network and     *)
(* polls until the SNTP client has set the time or ten seconds are over; from     *)
(* then on get_timestamp counts on from that time with the microsecond timer.     *)
(* WiFi is off afterwards, so the time is set once per boot.                      *)
EXTENDS Integers

CONSTANTS
  PerSecond,        \* timer ticks in a second (10^6)
  ClockMod,         \* time_us_32() counts modulo this
  SyncTimeout,      \* ticks ntp_init waits for the time (10 seconds)
  MaxSleep,         \* a loop's sleep_ms(100) and poll take 1 .. MaxSleep ticks
  MaxConnect,       \* joining the network takes 0 .. MaxConnect ticks
  MaxDelay,         \* ticks an SNTP answer is old at most when it is handled
  BootTimes,        \* the true time, in ticks, when the station is switched on
  MaxUptime         \* bound on the ticks of a behaviour

ASSUME ClockAssumption ==
  /\ PerSecond \in Nat \ {0} /\ ClockMod \in Nat \ {0}
  /\ SyncTimeout \in Nat /\ SyncTimeout + MaxSleep < ClockMod
  /\ MaxSleep \in Nat \ {0} /\ MaxConnect \in Nat /\ MaxDelay \in Nat /\ MaxUptime \in Nat
  /\ BootTimes \subseteq {t \in Nat : t >= PerSecond + MaxDelay}

VARIABLES
  pc,               \* "connect", "wait", "run" or "halt"
  start,            \* time_us_32() when the waiting began
  current_time,     \* the second SNTP gave, 0 before
  time_init,        \* the 64-bit timer then
  uptime,           \* the 64-bit timer
  bootTime          \* the true time at which uptime was 0

clockVars == <<pc, start, current_time, time_init, uptime, bootTime>>

trueTime == bootTime + uptime
Timer64(t) == t
Timer32(t) == t % ClockMod
time_us_32 == Timer32(uptime)

elapsed_narrow == (uptime - time_init) % ClockMod
elapsed_us == uptime - time_init

get_timestamp == IF current_time = 0 THEN 0 ELSE current_time + elapsed_us \div PerSecond

ClockInit ==
  /\ pc = "connect"
  /\ start = 0 /\ current_time = 0 /\ time_init = 0
  /\ uptime = 0
  /\ bootTime \in BootTimes

(* cyw43_arch_init and the connection with its own timeout.                     *)
Connect ==
  /\ pc = "connect"
  /\ \E d \in 0 .. MaxConnect : uptime' = uptime + d
  /\ \/ pc' = "wait" /\ start' = Timer32(uptime')
     \/ pc' = "halt" /\ UNCHANGED start
  /\ UNCHANGED <<current_time, time_init, bootTime>>

WaitedByTheClock == time_us_32 >= start + SyncTimeout
Waited == (time_us_32 - start) % ClockMod >= SyncTimeout

(* One round of the loop: lwIP runs only inside cyw43_arch_poll, and so does the *)
(* SNTP callback sntp_set_system_time_us.                                        *)
sntp_set_system_time_us ==
  /\ \E delay \in 0 .. MaxDelay : current_time' = (trueTime - delay) \div PerSecond
  /\ time_init' = uptime

WaitRound ==
  /\ pc = "wait"
  /\ uptime < MaxUptime
  /\ current_time = 0
  /\ ~Waited
  /\ \/ sntp_set_system_time_us
     \/ UNCHANGED <<current_time, time_init>>
  /\ \E d \in 1 .. MaxSleep : uptime' = uptime + d
  /\ UNCHANGED <<pc, start, bootTime>>

WaitEnd ==
  /\ pc = "wait"
  /\ current_time # 0 \/ Waited
  /\ pc' = IF current_time = 0 THEN "halt" ELSE "run"
  /\ UNCHANGED <<start, current_time, time_init, uptime, bootTime>>

Pass ==
  /\ pc \in {"run", "halt"}
  /\ uptime' = IF uptime < MaxUptime THEN uptime + 1 ELSE uptime
  /\ UNCHANGED <<pc, start, current_time, time_init, bootTime>>

ClockNext == Connect \/ WaitRound \/ WaitEnd \/ Pass

ClockSpec == ClockInit /\ [][ClockNext]_clockVars
ClockFairSpec == ClockSpec /\ WF_clockVars(Connect \/ WaitRound \/ WaitEnd)

-----------------------------------------------------------------------------
(* Properties.                                                                 *)

(* Every variable keeps its type; `start` holds what a 32-bit timer can show.    *)
ClockTypeOK ==
  /\ pc \in {"connect", "wait", "run", "halt"}
  /\ start \in 0 .. ClockMod - 1
  /\ current_time \in Nat /\ time_init \in Nat /\ uptime \in Nat
  /\ bootTime \in BootTimes

(* Main runs only with a time, and the timestamp it puts on captures is never     *)
(* ahead of the true second and less than a second and the age of the answer     *)
(* behind it, however long ago the time was set (wifi.c:63-65).                   *)
TimestampAccurate ==
  pc = "run" =>
    /\ get_timestamp * PerSecond <= trueTime
    /\ trueTime < (get_timestamp + 2) * PerSecond + MaxDelay

(* The wait is over after its timeout and one round, also when the 32-bit timer   *)
(* wraps in between (wifi.c:43-44).                                               *)
WaitBounded ==
  pc = "wait" => uptime <= MaxConnect + SyncTimeout + MaxSleep

(* Boot comes to an end: main runs with a time, or halts.                        *)
BootEnds == <>(pc \in {"run", "halt"})
=============================================================================
