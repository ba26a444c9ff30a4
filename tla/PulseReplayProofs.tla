--------------------------- MODULE PulseReplayProofs ---------------------------
(* TLAPS proofs about PulseReplay, for every capture, number of passes and width  *)
(* of the clock.                                                                  *)
EXTENDS PulseReplay, TLAPS

(* Only a capture with a transition is replayed, and a pass is under way then.    *)
Busy == pc # "idle" => transitions # <<>> /\ replay \in 1 .. NumTimes

(* While a transition is waited for, the clock is as far from the moment the last *)
(* one was put out as has been counted.                                           *)
Counted ==
  pc \in {"wait", "stamp"} /\ elapsed < MaxElapsed =>
    now = (last_transition_time + elapsed) % ClockMod

ReplayInv == ReplayTypeOK /\ IdleIsLow /\ Busy /\ Counted

-----------------------------------------------------------------------------
LEMMA ModBelow ==
  ASSUME NEW n \in Nat \ {0}, NEW x \in Nat
  PROVE  /\ x % n \in 0 .. n - 1 /\ x % n <= x
         /\ x < n => x % n = x
  OBVIOUS

LEMMA ModIs == ASSUME NEW n \in Nat \ {0}, NEW x \in 0 .. n - 1 PROVE x % n = x
  OBVIOUS

LEMMA ModUnique ==
  ASSUME NEW n \in Nat \ {0}, NEW y \in 0 .. n - 1, NEW k \in Int
  PROVE  (y + n * k) % n = y
  OBVIOUS

LEMMA ModSucc ==
  ASSUME NEW n \in Nat \ {0}, NEW x \in Nat
  PROVE  ((x % n) + 1) % n = (x + 1) % n
<1> DEFINE r == x % n
<1> DEFINE q == x \div n
<1>1. r \in 0 .. n - 1 /\ q \in Int /\ x = n * q + r
  OBVIOUS
<1>2. n * (q + 1) = n * q + n /\ n * 1 = n /\ n * 0 = 0 /\ q + 1 \in Int /\ n * q \in Int
  BY <1>1
<1> HIDE DEF r, q
<1>3. CASE r + 1 < n
  <2>1. r + 1 \in 0 .. n - 1
    BY <1>1, <1>3
  <2>2. (r + 1) % n = r + 1
    BY <2>1
  <2>3. (r + 1 + n * q) % n = r + 1
    BY <1>1, <2>1, ModUnique
  <2>4. x + 1 = r + 1 + n * q
    BY <1>1, <1>2
  <2> QED  BY <2>2, <2>3, <2>4 DEF r
<1>4. CASE r + 1 = n
  <2>1. 0 \in 0 .. n - 1
    OBVIOUS
  <2> DEFINE p == q + 1
  <2> HIDE DEF p
  <2>2. p \in Int
    BY <1>2 DEF p
  <2>4. (0 + n * p) % n = 0
    BY <2>1, <2>2, ModUnique
  <2>5. (0 + n * 1) % n = 0
    BY <2>1, ModUnique
  <2>3. r + 1 = 0 + n * 1 /\ x + 1 = 0 + n * p
    BY <1>1, <1>2, <1>4 DEF p
  <2> QED  BY <2>3, <2>4, <2>5 DEF r
<1> QED  BY <1>1, <1>3, <1>4

LEMMA SeqFacts ==
  ASSUME NEW T, NEW c \in Seq(T)
  PROVE  /\ \A i \in 1 .. Len(c) : c[i] \in T
         /\ Len(c) \in Nat /\ (c # <<>> => Len(c) >= 1)
  OBVIOUS

LEMMA CaptureIn ==
  ASSUME NEW c \in Captures
  PROVE  /\ Len(c) \in Nat
         /\ c # <<>> => Len(c) >= 1
         /\ \A i \in 1 .. Len(c) : c[i].time \in 0 .. ClockMod - 1 /\ c[i].state \in BOOLEAN
<1> DEFINE T == [time : 0 .. ClockMod - 1, state : BOOLEAN]
<1>1. c \in Seq(T)
  BY ReplayAssumption
<1>2. /\ \A i \in 1 .. Len(c) : c[i] \in T
      /\ Len(c) \in Nat /\ (c # <<>> => Len(c) >= 1)
  BY <1>1, SeqFacts
<1> QED  BY <1>2

LEMMA ClockIn ==
  ASSUME ReplayTypeOK
  PROVE  /\ ClockMod \in Nat \ {0} /\ MaxElapsed \in Nat /\ NumTimes \in Nat \ {0}
         /\ now \in Nat /\ last_transition_time \in Nat /\ elapsed \in Nat
         /\ transitions \in Captures
  BY ReplayAssumption DEF ReplayTypeOK

LEMMA NowIn == ASSUME ReplayTypeOK PROVE now % ClockMod = now /\ now + 0 = now
  BY ReplayAssumption DEF ReplayTypeOK

LEMMA TickStep == ASSUME ReplayInv, Tick PROVE ReplayInv'
<1>1. now' \in 0 .. ClockMod - 1 /\ now' = (now + 1) % ClockMod
  <2>1. ClockMod \in Nat \ {0} /\ now + 1 \in Nat
    BY ClockIn DEF ReplayInv
  <2> QED  BY <2>1, ModBelow DEF Tick
<1>2. /\ elapsed' \in 0 .. MaxElapsed
      /\ elapsed' < MaxElapsed => elapsed' = elapsed + 1 /\ elapsed < MaxElapsed
  BY ClockIn DEF ReplayInv, ReplayTypeOK, Tick
<1>3. ReplayTypeOK' /\ IdleIsLow' /\ Busy'
  BY <1>1, <1>2 DEF ReplayInv, ReplayTypeOK, IdleIsLow, Busy, Tick, control
<1>4. Counted'
  <2> SUFFICES ASSUME pc \in {"wait", "stamp"}, elapsed' < MaxElapsed
               PROVE  now' = (last_transition_time + elapsed') % ClockMod
    BY DEF Counted, Tick, control
  <2>1. now = (last_transition_time + elapsed) % ClockMod
    BY <1>2 DEF ReplayInv, Counted
  <2>2. last_transition_time + elapsed \in Nat /\ ClockMod \in Nat \ {0}
    BY ClockIn DEF ReplayInv
  <2>3. now' = (last_transition_time + elapsed + 1) % ClockMod
    BY <1>1, <2>1, <2>2, ModSucc
  <2> QED  BY <1>2, <2>3, ClockIn DEF ReplayInv
<1> QED  BY <1>3, <1>4 DEF ReplayInv

LEMMA StartStep == ASSUME ReplayInv, Start PROVE ReplayInv'
  BY ClockIn DEF ReplayInv, ReplayTypeOK, IdleIsLow, Busy, Counted, Start

LEMMA WakeStep == ASSUME ReplayInv, Wake PROVE ReplayInv'
  BY DEF ReplayInv, ReplayTypeOK, IdleIsLow, Busy, Counted, Wake

LEMMA BeginStep == ASSUME ReplayInv, Begin PROVE ReplayInv'
<1>1. transitions # <<>> /\ Len(transitions) \in Nat /\ Len(transitions) >= 1
  BY ClockIn, CaptureIn DEF ReplayInv, Busy, Begin
<1>2. Counted'
  <2>1. elapsed' = 0 /\ last_transition_time' = now /\ now' = now
    BY DEF Begin
  <2>2. now % ClockMod = now /\ now + 0 = now
    BY NowIn DEF ReplayInv
  <2> QED  BY <2>1, <2>2 DEF Counted
<1>3. ReplayTypeOK'
  <2>1. output' \in BOOLEAN
    BY DEF Begin
  <2>2. elapsed' \in 0 .. MaxElapsed
    BY ClockIn DEF ReplayInv, Begin
  <2> QED  BY <1>1, <2>1, <2>2 DEF ReplayInv, ReplayTypeOK, Begin
<1> QED  BY <1>2, <1>3 DEF ReplayInv, IdleIsLow, Busy, Begin

LEMMA PutStep == ASSUME ReplayInv, Put PROVE ReplayInv'
<1>1. transitions[index].state \in BOOLEAN
  BY ClockIn, CaptureIn DEF ReplayInv, ReplayTypeOK, Put
<1> QED  BY <1>1 DEF ReplayInv, ReplayTypeOK, IdleIsLow, Busy, Counted, Put

LEMMA StampStep == ASSUME ReplayInv, Stamp PROVE ReplayInv'
<1>1. /\ index \in 1 .. Len(transitions) /\ Len(transitions) \in Nat
      /\ replay \in 1 .. NumTimes /\ NumTimes \in Nat
  BY ClockIn, CaptureIn DEF ReplayInv, ReplayTypeOK, Busy, Stamp
<1>2. Counted'
  <2>1. elapsed' = 0 /\ last_transition_time' = now /\ now' = now
    BY DEF Stamp
  <2>2. now % ClockMod = now /\ now + 0 = now
    BY NowIn DEF ReplayInv
  <2> QED  BY <2>1, <2>2 DEF Counted
<1>3. ReplayTypeOK'
  <2>1. output' \in BOOLEAN
    BY DEF ReplayInv, ReplayTypeOK, Stamp, ends_low
  <2>2. elapsed' \in 0 .. MaxElapsed
    BY ClockIn DEF ReplayInv, Stamp
  <2>3. /\ replay' \in 0 .. NumTimes /\ index' \in 0 .. Len(transitions)
        /\ pc' \in {"sleep", "wait", "idle"} /\ (pc' = "wait" => index' \in 1 .. Len(transitions))
    BY <1>1 DEF Stamp, more_to_put
  <2> QED  BY <2>1, <2>2, <2>3 DEF ReplayInv, ReplayTypeOK, Stamp
<1>4. IdleIsLow' /\ Busy'
  BY <1>1 DEF ReplayInv, Busy, IdleIsLow, Stamp, more_to_put, ends_low
<1> QED  BY <1>2, <1>3, <1>4 DEF ReplayInv

(* The inductive invariant holds: the loop of replay_pulses counts the time since   *)
(* the last transition as the clock does (digital.c:103-146).                     *)
THEOREM ReplayInvariant == ReplaySpec => []ReplayInv
<1>1. ReplayInit => ReplayInv
  <2> SUFFICES ASSUME ReplayInit PROVE ReplayInv
    OBVIOUS
  <2>1. Len(transitions) \in Nat
    BY CaptureIn DEF ReplayInit
  <2>2. 0 \in 0 .. NumTimes /\ 0 \in 0 .. ClockMod - 1 /\ 0 \in 0 .. MaxElapsed
    BY ReplayAssumption
  <2>3. output \in BOOLEAN /\ pc \in {"idle", "sleep", "begin", "wait", "stamp"}
    BY DEF ReplayInit
  <2>4. 0 \in 0 .. Len(transitions)
    BY <2>1
  <2>5. ReplayTypeOK
    BY <2>2, <2>3, <2>4 DEF ReplayInit, ReplayTypeOK
  <2> QED  BY <2>5 DEF ReplayInit, ReplayInv, IdleIsLow, Busy, Counted
<1>2. ReplayInv /\ [ReplayNext]_replayVars => ReplayInv'
  <2>1. ASSUME ReplayInv, UNCHANGED replayVars PROVE ReplayInv'
    BY <2>1 DEF ReplayInv, ReplayTypeOK, IdleIsLow, Busy, Counted, replayVars
  <2> QED
    BY <2>1, TickStep, StartStep, WakeStep, BeginStep, PutStep, StampStep DEF ReplayNext, ReplaySteps
<1> QED  BY <1>1, <1>2, PTL DEF ReplaySpec

(* Every variable keeps its type, and the index stays within the capture.          *)
THEOREM ReplayTypeHolds == ReplaySpec => []ReplayTypeOK
  BY ReplayInvariant, PTL DEF ReplayInv

(* Between replays the output is low, whatever the capture ended with              *)
(* (digital.c:145).                                                               *)
THEOREM IdleIsLowHolds == ReplaySpec => []IdleIsLow
  BY ReplayInvariant, PTL DEF ReplayInv

(* No transition is put out before its captured gap has passed, unless its target  *)
(* wrapped (digital.c:118-121).                                                   *)
THEOREM NotEarlyHolds == ReplaySpec => NotEarlyUnlessWrapped
<1>1. ASSUME ReplayInv, [ReplayNext]_replayVars,
             Puts, last_transition_time + CapturedGap(index) < ClockMod
      PROVE  elapsed >= CapturedGap(index)
  <2>1. Put
    BY <1>1 DEF Puts, ReplayNext, ReplaySteps, Tick, control, Start, Wake, Begin, Stamp, replayVars
  <2>2. /\ ClockMod \in Nat \ {0} /\ MaxElapsed \in Nat /\ MaxElapsed >= ClockMod - 1
        /\ last_transition_time \in Nat /\ elapsed \in 0 .. MaxElapsed
        /\ index \in 1 .. Len(transitions) /\ Len(transitions) \in Nat
        /\ \A i \in 1 .. Len(transitions) : transitions[i].time \in 0 .. ClockMod - 1
    BY <1>1, <2>1, ClockIn, CaptureIn, ReplayAssumption DEF ReplayInv, ReplayTypeOK, Put
  <2>3. CapturedGap(index) \in 0 .. ClockMod - 1
    <3>1. CASE index = 1
      BY <3>1, ReplayAssumption DEF CapturedGap
    <3>2. CASE index # 1
      <4>1. index - 1 \in 1 .. Len(transitions)
        BY <2>2, <3>2
      <4>2. transitions[index].time \in Nat /\ transitions[index - 1].time \in Nat
        BY <2>2, <4>1
      <4> DEFINE gap == transitions[index].time - transitions[index - 1].time
      <4>3. CapturedGap(index) = gap % ClockMod
        BY <3>2 DEF CapturedGap
      <4>4. gap \in Int /\ ClockMod \in Nat \ {0}
        BY <2>2, <4>2
      <4> HIDE DEF gap
      <4>5. gap % ClockMod \in 0 .. ClockMod - 1
        BY <4>4
      <4> QED  BY <4>3, <4>5
    <3> QED  BY <3>1, <3>2
  <2>4. interval(index) = CapturedGap(index)
    BY DEF interval, CapturedGap
  <2>5. target_time = last_transition_time + CapturedGap(index)
    <3>1. last_transition_time + CapturedGap(index) \in 0 .. ClockMod - 1
      BY <1>1, <2>2, <2>3
    <3>2. (last_transition_time + CapturedGap(index)) % ClockMod
          = last_transition_time + CapturedGap(index)
      BY <2>2, <3>1, ModIs
    <3> QED  BY <2>4, <3>2 DEF target_time
  <2>6. now >= last_transition_time + CapturedGap(index)
    BY <2>1, <2>5 DEF Put, WaitOver
  <2>7. CASE elapsed < MaxElapsed
    <3>1. now <= last_transition_time + elapsed
      <4>1. now = (last_transition_time + elapsed) % ClockMod
        BY <1>1, <2>7, <2>1 DEF ReplayInv, Counted, Put
      <4>2. last_transition_time + elapsed \in Nat
        BY <2>2
      <4> QED  BY <2>2, <4>1, <4>2, ModBelow
    <3> QED  BY <2>2, <2>3, <2>6, <3>1, <1>1, ClockIn DEF ReplayInv
  <2>8. CASE elapsed = MaxElapsed
    BY <2>2, <2>3, <2>8
  <2> QED  BY <2>2, <2>7, <2>8
<1>2. ReplayInv /\ [ReplayNext]_replayVars =>
        [Puts /\ last_transition_time + CapturedGap(index) < ClockMod
           => elapsed >= CapturedGap(index)]_replayVars
  BY <1>1
<1> QED  BY <1>2, ReplayInvariant, PTL DEF ReplaySpec, NotEarlyUnlessWrapped
=============================================================================
