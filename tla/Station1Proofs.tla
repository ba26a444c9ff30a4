----------------------------- MODULE Station1Proofs -----------------------------
(* TLAPS proofs about Station 1, for every size of record, clock width, order of  *)
(* the stores, regime of faults and power cuts, and bound of a behaviour: first   *)
(* about its capture alone (PulseCapture), then about the whole.                  *)
EXTENDS Station1, PulseStoreProofs, FiniteSetTheorems

N == Len(transitions)

Odd(i) == i % 2 = 1

(* The record alternates from a LOW, and the handler expects what comes next.    *)
FromLow ==
  /\ \A i \in 1 .. N : transitions[i].state = ~Odd(i)
  /\ expecting_high = Odd(N)

(* Up to an even k it alternates from a LOW and from k + 1 on from a HIGH: k      *)
(* edges were taken before expecting_high was stored.                            *)
SeamAfter(k) ==
  /\ ~Odd(k)
  /\ \A i \in 1 .. k : transitions[i].state = ~Odd(i)
  /\ \A i \in (k + 1) .. N : transitions[i].state = Odd(i)
  /\ expecting_high = ~Odd(N)

(* The inductive invariant: OneSeam alone says nothing of expecting_high, on     *)
(* which the next edge depends.                                                  *)
SeamInv ==
  /\ FromLow \/ \E k \in 0 .. N : SeamAfter(k)
  /\ "expecting_high" \in todo => FromLow

-----------------------------------------------------------------------------
LEMMA OddStep == \A n \in Nat : Odd(n + 1) <=> ~Odd(n)
  BY DEF Odd

LEMMA ClockRange == ASSUME NEW x \in Int PROVE x % ClockMod \in Clocks
  BY RecordAssumption DEF Clocks

LEMMA EmptyRecord == <<>> \in Seq(Transition) /\ Len(<<>>) = 0
  OBVIOUS

LEMMA CaptureTypedInit == CaptureInit => CaptureTypeOK
<1> SUFFICES ASSUME CaptureInit PROVE CaptureTypeOK
  OBVIOUS
<1>1. transitions \in Seq(Transition) /\ Len(transitions) = 0
  BY EmptyRecord DEF CaptureInit
<1>2. start_time \in Clocks
  BY RecordAssumption DEF CaptureInit, Clocks
<1>3. 0 <= MaxTransitions
  BY RecordAssumption
<1>4. /\ capturing \in BOOLEAN /\ expecting_high \in BOOLEAN /\ level \in BOOLEAN
      /\ order \in Orders /\ todo \subseteq Fields /\ pending \subseteq Edges /\ clock \in Nat
  BY DEF CaptureInit
<1> QED
  BY <1>1, <1>2, <1>3, <1>4 DEF CaptureTypeOK, RecordTypeOK

LEMMA CaptureTypedStep ==
  ASSUME CaptureTypeOK, [CaptureNext]_captureVars PROVE CaptureTypeOK'
<1> USE DEF CaptureTypeOK, RecordTypeOK
<1>1. CASE Edge
  BY <1>1 DEF Edge, capture, Edges
<1>2. CASE Tick
  BY <1>2 DEF Tick, capture, input
<1>3. CASE gpio_callback
  <2>1. CASE Accepts("rise" \in pending)
    <3>1. relative_time \in Clocks
      <4>1. clock % ClockMod \in Int /\ start_time \in Int
        BY ClockRange, RecordAssumption DEF Clocks
      <4>2. (clock % ClockMod) - start_time \in Int
        BY <4>1
      <4> QED
        BY <4>2, ClockRange DEF relative_time, time_us_32
    <3>2. [time |-> relative_time, state |-> "rise" \in pending, at |-> clock] \in Transition
      BY <3>1 DEF Transition
    <3>3. transitions' \in Seq(Transition) /\ Len(transitions') = Len(transitions) + 1
      BY <1>3, <2>1, <3>2 DEF gpio_callback
    <3>4. Len(transitions') <= MaxTransitions
      BY <2>1, <3>3, RecordAssumption DEF Accepts
    <3> QED
      BY <1>3, <2>1, <3>3, <3>4 DEF gpio_callback, StaysCapturing
  <2>2. CASE ~Accepts("rise" \in pending)
    BY <1>3, <2>2 DEF gpio_callback
  <2> QED
    BY <2>1, <2>2
<1>4. CASE StartMemset
  <2>1. transitions' \in Seq(Transition) /\ Len(transitions') <= MaxTransitions
    BY <1>4, EmptyRecord, RecordAssumption DEF StartMemset, ResetCapture
  <2>2. start_time' \in Clocks
    BY <1>4, RecordAssumption DEF StartMemset, Clocks
  <2> QED
    BY <1>4, <2>1, <2>2 DEF StartMemset, ResetCapture, expecting_reset, input
<1>5. ASSUME NEW f \in Fields, Store(f) PROVE CaptureTypeOK'
  <2>1. time_us_32 \in Clocks
    <3>1. clock \in Int
      OBVIOUS
    <3> QED
      BY <3>1, ClockRange DEF time_us_32
  <2> QED
    BY <1>5, <2>1 DEF Store, MayStore, input
<1>6. CASE UNCHANGED captureVars
  BY <1>6 DEF captureVars, capture, input
<1> QED
  BY <1>1, <1>2, <1>3, <1>4, <1>5, <1>6 DEF CaptureNext, CaptureMain

(* Every variable keeps its type and the handler never writes past the array.   *)
THEOREM TypeCorrect == CaptureSpec => []CaptureTypeOK
<1>1. CaptureTypeOK /\ [CaptureNext]_captureVars => CaptureTypeOK'
  BY CaptureTypedStep
<1> QED  BY <1>1, CaptureTypedInit, PTL DEF CaptureSpec

-----------------------------------------------------------------------------
(* Whatever the interrupt hits, the record has the shape SeamInv describes.     *)
LEMMA SeamInvariant == CaptureSpec => []SeamInv
<1>1. CaptureInit => SeamInv
  <2> SUFFICES ASSUME CaptureInit PROVE SeamInv
    OBVIOUS
  <2>1. N = 0 /\ expecting_high = FALSE
    BY EmptyRecord DEF CaptureInit, N
  <2>2. 1 .. N = {} /\ Odd(N) = FALSE
    BY <2>1 DEF Odd
  <2> QED
    BY <2>1, <2>2 DEF SeamInv, FromLow
<1>2. CaptureTypeOK /\ SeamInv /\ [CaptureNext]_captureVars => SeamInv'
  <2> SUFFICES ASSUME CaptureTypeOK, SeamInv, [CaptureNext]_captureVars PROVE SeamInv'
    OBVIOUS
  <2>0. N \in Nat /\ expecting_high \in BOOLEAN /\ transitions \in Seq(Transition)
    BY DEF N, CaptureTypeOK, RecordTypeOK
  <2>1. CASE UNCHANGED <<transitions, expecting_high, todo>>
    BY <2>1 DEF SeamInv, FromLow, SeamAfter, N
  <2>2. CASE Edge \/ Tick \/ UNCHANGED captureVars
    BY <2>1, <2>2 DEF Edge, Tick, capture, input, captureVars
  <2>3. CASE gpio_callback
    <3>1. CASE ~Accepts("rise" \in pending)
      BY <2>1, <2>3, <3>1 DEF gpio_callback
    <3>2. CASE Accepts("rise" \in pending)
      <4>1. /\ todo' = todo
            /\ expecting_high' = ~expecting_high
            /\ N' = N + 1
            /\ transitions'[N + 1].state = expecting_high
            /\ \A i \in 1 .. N : transitions'[i] = transitions[i]
        BY <2>0, <2>3, <3>2 DEF gpio_callback, Accepts, N
      <4>2. Odd(N + 1) = ~Odd(N)
        BY <2>0, OddStep DEF Odd
      <4>3. CASE FromLow
        <5>1. \A i \in 1 .. N + 1 : transitions'[i].state = ~Odd(i)
          <6>1. \A i \in 1 .. N : transitions'[i].state = ~Odd(i)
            BY <4>1, <4>3 DEF FromLow
          <6>2. transitions'[N + 1].state = ~Odd(N + 1)
            BY <4>1, <4>2, <4>3 DEF FromLow, Odd
          <6>3. \A i \in 1 .. N + 1 : i \in 1 .. N \/ i = N + 1
            BY <2>0
          <6> QED
            BY <6>1, <6>2, <6>3
        <5> QED
          BY <4>1, <4>2, <4>3, <5>1 DEF FromLow, SeamInv
      <4>4. ASSUME ~FromLow, NEW k \in 0 .. N, SeamAfter(k) PROVE SeamInv'
        <5>1. \A i \in 1 .. k : transitions'[i].state = ~Odd(i)
          BY <2>0, <4>1, <4>4 DEF SeamAfter
        <5>2. \A i \in (k + 1) .. (N + 1) : transitions'[i].state = Odd(i)
          BY <2>0, <4>1, <4>2, <4>4 DEF SeamAfter
        <5>3. SeamAfter(k)' /\ k \in 0 .. N'
          BY <2>0, <4>1, <4>2, <4>4, <5>1, <5>2 DEF SeamAfter
        <5> QED
          BY <4>1, <4>4, <5>3 DEF SeamInv
      <4> QED
        BY <4>3, <4>4 DEF SeamInv
    <3> QED
      BY <3>1, <3>2
  <2>4. CASE StartMemset
    <3>1. N' = 0 /\ expecting_high' = FALSE
      BY <2>4, EmptyRecord DEF StartMemset, ResetCapture, expecting_reset, N
    <3>2. 1 .. N' = {} /\ Odd(N') = FALSE
      BY <3>1 DEF Odd
    <3> QED
      BY <3>1, <3>2 DEF SeamInv, FromLow
  <2>5. ASSUME NEW f \in Fields, Store(f) PROVE SeamInv'
    <3>1. transitions' = transitions /\ N' = N /\ todo' = todo \ {f}
      BY <2>5 DEF Store, N
    <3>2. CASE f # "expecting_high"
      <4>1. expecting_high' = expecting_high
        BY <2>0, <2>5, <3>2 DEF Store
      <4> QED
        BY <3>1, <4>1 DEF SeamInv, FromLow, SeamAfter
    <3>3. CASE f = "expecting_high"
      <4>1. FromLow /\ expecting_high' = TRUE /\ "expecting_high" \notin todo'
        BY <2>5, <3>1, <3>3 DEF Store, MayStore, SeamInv
      <4>2. CASE Odd(N)
        BY <3>1, <4>1, <4>2 DEF SeamInv, FromLow
      <4>3. CASE ~Odd(N)
        <5>1. ASSUME NEW k \in 0 .. N, k = N PROVE SeamAfter(k)'
          <6>1. /\ \A i \in 1 .. k : transitions'[i].state = ~Odd(i)
                /\ (k + 1) .. N' = {}
                /\ ~Odd(k) /\ ~Odd(N')
            BY <2>0, <3>1, <4>1, <4>3, <5>1 DEF FromLow
          <6> QED
            BY <4>1, <6>1 DEF SeamAfter
        <5> QED
          BY <2>0, <3>1, <4>1, <5>1 DEF SeamInv
      <4> QED
        BY <4>2, <4>3
    <3> QED
      BY <3>2, <3>3
  <2> QED
    BY <2>2, <2>3, <2>4, <2>5 DEF CaptureNext, CaptureMain
<1> QED
  BY <1>1, <1>2, TypeCorrect, PTL DEF CaptureSpec

(* Two neighbours of a record are equal at most at one place, there both are     *)
(* HIGH, and the record then began with a LOW: an edge taken between the stores  *)
(* of start_pulse_capture does no more harm than that.                           *)
THEOREM SeamCorrect == CaptureSpec => []OneSeam
<1>1. CaptureTypeOK /\ SeamInv => OneSeam
  <2> SUFFICES ASSUME CaptureTypeOK, SeamInv, NEW i \in Repeats
               PROVE  /\ transitions[i].state /\ ~transitions[1].state
                      /\ \A j \in Repeats : i = j
    BY DEF OneSeam
  <2>1. N \in Nat /\ Repeats = {j \in 1 .. N - 1 : transitions[j].state = transitions[j + 1].state}
    BY DEF N, CaptureTypeOK, RecordTypeOK, Repeats
  <2>2. \A j \in Repeats : j \in Nat /\ j + 1 \in Nat /\ j \in 1 .. N /\ j + 1 \in 1 .. N
                           /\ transitions[j].state = transitions[j + 1].state
    BY <2>1
  <2>3. \A j \in Nat : Odd(j + 1) = ~Odd(j)
    BY OddStep DEF Odd
  <2>4. ~FromLow
    BY <2>2, <2>3 DEF FromLow, Odd
  <2>5. PICK k \in 0 .. N : SeamAfter(k)
    BY <2>4 DEF SeamInv
  <2>6. \A j \in Repeats : j = k
    <3>1. SUFFICES ASSUME NEW j \in Repeats, j # k PROVE FALSE
      OBVIOUS
    <3>2. CASE j < k
      <4>1. j \in 1 .. k /\ j + 1 \in 1 .. k
        BY <2>1, <2>2, <3>2
      <4> QED
        BY <2>2, <2>3, <2>5, <4>1 DEF SeamAfter, Odd
    <3>3. CASE j > k
      <4>1. j \in (k + 1) .. N /\ j + 1 \in (k + 1) .. N
        BY <2>1, <2>2, <3>3
      <4> QED
        BY <2>2, <2>3, <2>5, <4>1 DEF SeamAfter, Odd
    <3> QED
      BY <2>1, <2>2, <3>1, <3>2, <3>3
  <2>7. i = k /\ k \in 1 .. k /\ 1 \in 1 .. k
    BY <2>1, <2>2, <2>6
  <2>8. ~Odd(k) /\ Odd(1)
    BY <2>5 DEF SeamAfter, Odd
  <2> QED
    BY <2>5, <2>6, <2>7, <2>8 DEF SeamAfter
<1> QED
  BY <1>1, TypeCorrect, SeamInvariant, PTL

-----------------------------------------------------------------------------
(* Each odd place and the even one after it are partners.                         *)
Partner(i) == IF Odd(i) THEN i + 1 ELSE i - 1

LEMMA PartnerIn ==
  ASSUME NEW n \in Nat, ~Odd(n), NEW i \in 1 .. n
  PROVE  /\ Partner(i) \in 1 .. n /\ Odd(Partner(i)) = ~Odd(i)
         /\ Partner(Partner(i)) = i
<1>1. CASE Odd(i)
  <2>1. i # n /\ i + 1 \in 1 .. n /\ ~Odd(i + 1)
    BY <1>1 DEF Odd
  <2> QED  BY <1>1, <2>1 DEF Partner, Odd
<1>2. CASE ~Odd(i)
  <2>1. i - 1 \in 1 .. n /\ Odd(i - 1)
    BY <1>2 DEF Odd
  <2> QED  BY <1>2, <2>1 DEF Partner, Odd
<1> QED  BY <1>1, <1>2

LEMMA NotMore ==
  ASSUME NEW n \in Nat, ~Odd(n), NEW S \in SUBSET (1 .. n), NEW T \in SUBSET (1 .. n),
         \A i \in S : Partner(i) \in T
  PROVE  /\ Cardinality(S) \in Nat /\ Cardinality(T) \in Nat
         /\ Cardinality(S) <= Cardinality(T)
<1>1. IsFiniteSet(1 .. n) /\ IsFiniteSet(S) /\ IsFiniteSet(T)
  <2>1. IsFiniteSet(1 .. n)
    BY FS_Interval
  <2> QED  BY <2>1, FS_Subset
<1> DEFINE f == [i \in S |-> Partner(i)]
<1>2. f \in Injection(S, T)
  <2>1. \A i \in S : f[i] = Partner(i) /\ Partner(Partner(i)) = i
    BY PartnerIn
  <2>2. f \in [S -> T]
    OBVIOUS
  <2>3. ASSUME NEW i \in S, NEW j \in S, f[i] = f[j] PROVE i = j
    BY <2>1, <2>3
  <2>4. DOMAIN f = S
    OBVIOUS
  <2> HIDE DEF f
  <2> QED  BY <2>2, <2>3, <2>4 DEF Injection, IsInjective
<1> QED  BY <1>1, <1>2, FS_Injection, FS_CardinalityType

(* A complete capture has as many HIGHs as LOWs, even when the reset was raced: an   *)
(* even number of edges goes before a seam, so partners differ (digital.h:11).      *)
THEOREM CompleteIsBalancedHolds == CaptureSpec => []CompleteIsBalanced
<1>1. CaptureTypeOK /\ SeamInv => CompleteIsBalanced
  <2> SUFFICES ASSUME CaptureTypeOK, SeamInv, is_capture_complete PROVE CompleteIsBalanced
    BY DEF CompleteIsBalanced
  <2>1. N \in Nat /\ ~Odd(N) /\ \A i \in 1 .. N : transitions[i].state \in BOOLEAN
    <3>1. transitions \in Seq(Transition) /\ N = MaxTransitions
      BY DEF N, CaptureTypeOK, RecordTypeOK, is_capture_complete
    <3>2. N \in Nat /\ \A i \in 1 .. N : transitions[i] \in Transition
      BY <3>1 DEF N
    <3>3. N % 2 = 0
      BY <3>1, CaptureAssumption
    <3> QED  BY <3>2, <3>3 DEF Odd, Transition
  <2> DEFINE high == {i \in 1 .. N : transitions[i].state}
  <2> DEFINE low == {i \in 1 .. N : ~transitions[i].state}
  <2>2. ASSUME NEW i \in 1 .. N PROVE transitions[Partner(i)].state = ~transitions[i].state
    <3>1. Partner(i) \in 1 .. N /\ Odd(Partner(i)) = ~Odd(i)
      BY <2>1, PartnerIn
    <3>2. CASE FromLow
      BY <3>1, <3>2 DEF FromLow
    <3>3. ASSUME NEW k \in 0 .. N, SeamAfter(k)
          PROVE  transitions[Partner(i)].state = ~transitions[i].state
      <4>1. \/ i \in 1 .. k /\ Partner(i) \in 1 .. k
            \/ i \in (k + 1) .. N /\ Partner(i) \in (k + 1) .. N
        BY <2>1, <3>1, <3>3 DEF SeamAfter, Partner, Odd
      <4> QED  BY <3>1, <3>3, <4>1 DEF SeamAfter
    <3> QED  BY <3>2, <3>3 DEF SeamInv
  <2>3. (\A i \in high : Partner(i) \in low) /\ (\A i \in low : Partner(i) \in high)
    BY <2>1, <2>2, PartnerIn
  <2>4. high \in SUBSET (1 .. N) /\ low \in SUBSET (1 .. N)
    OBVIOUS
  <2> HIDE DEF high, low
  <2>5. /\ Cardinality(high) <= Cardinality(low) /\ Cardinality(low) <= Cardinality(high)
        /\ Cardinality(high) \in Nat /\ Cardinality(low) \in Nat
    BY <2>1, <2>3, <2>4, NotMore
  <2>6. Cardinality(high) = Cardinality(low)
    BY <2>5
  <2> QED  BY <2>6 DEF CompleteIsBalanced, high, low, N
<1> QED  BY <1>1, TypeCorrect, SeamInvariant, PTL

-----------------------------------------------------------------------------
(* With the stores in source order, expecting_high is the last; so a record that   *)
(* begins with a HIGH was begun after start_time was stored, and all its times     *)
(* count from there.                                                             *)
TimesInv ==
  order = SourceOrder =>
    /\ "expecting_high" \notin todo => todo = {}
    /\ transitions # <<>> /\ transitions[1].state =>
         /\ todo = {}
         /\ \A i \in 1 .. N : transitions[i].time = (transitions[i].at - start_time) % ClockMod

LEMMA TimesUntouched ==
  ASSUME TimesInv, UNCHANGED <<transitions, start_time, order, todo>> PROVE TimesInv'
  BY DEF TimesInv, N

LEMMA TimesEdge ==
  ASSUME CaptureTypeOK, SeamInv, TimesInv, gpio_callback PROVE TimesInv'
<1> DEFINE rising == "rise" \in pending
<1>1. CASE ~Accepts(rising)
  BY <1>1, TimesUntouched DEF gpio_callback
<1>2. CASE Accepts(rising)
  <2> DEFINE last == [time |-> relative_time, state |-> rising, at |-> clock]
  <2>1. /\ transitions' = Append(transitions, last) /\ UNCHANGED <<start_time, order, todo>>
        /\ rising = expecting_high
    BY <1>2 DEF gpio_callback, Accepts
  <2>2. /\ transitions \in Seq(Transition) /\ N \in Nat
        /\ start_time \in Int /\ clock \in Int /\ ClockMod \in Nat \ {0}
    BY RecordAssumption DEF CaptureTypeOK, RecordTypeOK, N, Clocks
  <2>3. last.time = (last.at - start_time) % ClockMod /\ last.state = rising
    BY <2>2, Difference DEF relative_time, time_us_32
  <2> HIDE DEF last, rising
  <2>4. /\ N' = N + 1 /\ transitions'[N + 1] = last
        /\ \A i \in 1 .. N : transitions'[i] = transitions[i]
    BY <2>1, <2>2 DEF N
  <2> SUFFICES ASSUME order = SourceOrder, transitions'[1].state
               PROVE  /\ todo = {}
                      /\ \A i \in 1 .. N' : transitions'[i].time
                                            = (transitions'[i].at - start_time) % ClockMod
    BY <2>1 DEF TimesInv
  <2>5. todo = {} /\ \A i \in 1 .. N : transitions[i].time = (transitions[i].at - start_time) % ClockMod
    <3>1. CASE N = 0
      <4>1. expecting_high
        BY <2>1, <2>3, <2>4, <3>1
      <4>2. Odd(N) = FALSE
        BY <3>1 DEF Odd
      <4>3. "expecting_high" \notin todo
        BY <4>1, <4>2 DEF SeamInv, FromLow
      <4> QED  BY <3>1, <4>3 DEF TimesInv
    <3>2. CASE N # 0
      <4>1. 1 \in 1 .. N /\ transitions # <<>>
        BY <2>2, <3>2, EmptyRecord DEF N
      <4> QED  BY <2>4, <4>1 DEF TimesInv
    <3> QED  BY <3>1, <3>2
  <2>6. \A i \in 1 .. N + 1 : i \in 1 .. N \/ i = N + 1
    BY <2>2
  <2> QED  BY <2>3, <2>4, <2>5, <2>6
<1> QED  BY <1>1, <1>2

LEMMA TimesStore == ASSUME CaptureTypeOK, TimesInv, NEW f \in Fields, Store(f) PROVE TimesInv'
<1>1. /\ f \in todo /\ todo' = todo \ {f} /\ UNCHANGED <<transitions, order>>
      /\ \A g \in todo : <<g, f>> \notin order
  BY DEF Store, MayStore
<1> SUFFICES ASSUME order = SourceOrder PROVE TimesInv'
  BY <1>1 DEF TimesInv
<1>2. todo # {} /\ "expecting_high" \in todo
  BY <1>1 DEF TimesInv
<1>3. f = "expecting_high" => todo' = {}
  <2>1. \A g \in Fields : g # "expecting_high" => <<g, "expecting_high">> \in order
    BY DEF Fields, SourceOrder
  <2>2. todo \subseteq Fields
    BY DEF CaptureTypeOK
  <2> QED  BY <1>1, <2>1, <2>2
<1> QED  BY <1>1, <1>2, <1>3 DEF TimesInv

LEMMA TimesInvariant == CaptureSpec => []TimesInv
<1>1. CaptureInit => TimesInv
  BY DEF CaptureInit, TimesInv
<1>2. CaptureTypeOK /\ SeamInv /\ TimesInv /\ [CaptureNext]_captureVars => TimesInv'
  <2> SUFFICES ASSUME CaptureTypeOK, SeamInv, TimesInv, [CaptureNext]_captureVars PROVE TimesInv'
    OBVIOUS
  <2>1. CASE Edge \/ Tick \/ UNCHANGED captureVars
    BY <2>1, TimesUntouched DEF Edge, Tick, capture, captureVars
  <2>2. CASE StartMemset
    BY <2>2 DEF StartMemset, ResetCapture, TimesInv, Fields
  <2> QED  BY <2>1, <2>2, TimesEdge, TimesStore DEF CaptureNext, CaptureMain
<1> QED  BY <1>1, <1>2, TypeCorrect, SeamInvariant, PTL DEF CaptureSpec

(* With the stores in source order, two neighbouring times of a record that begins *)
(* with a HIGH differ by the time between the two interrupts, modulo the clock     *)
(* (digital.c:58, 114).                                                          *)
THEOREM IntervalsCorrect == CaptureSpec => []IntervalsExact
<1>1. CaptureTypeOK /\ TimesInv => IntervalsExact
  <2> SUFFICES ASSUME CaptureTypeOK, TimesInv, order = SourceOrder,
                      transitions # <<>>, transitions[1].state,
                      NEW i \in 1 .. Len(transitions) - 1
               PROVE  (transitions[i + 1].time - transitions[i].time) % ClockMod
                        = (transitions[i + 1].at - transitions[i].at) % ClockMod
    BY DEF IntervalsExact
  <2>1. /\ i \in 1 .. N /\ i + 1 \in 1 .. N /\ transitions \in Seq(Transition)
        /\ start_time \in Int /\ ClockMod \in Nat \ {0}
    BY RecordAssumption DEF CaptureTypeOK, RecordTypeOK, N, Clocks
  <2> DEFINE a == transitions[i].at
  <2> DEFINE b == transitions[i + 1].at
  <2>2. a \in Int /\ b \in Int
    <3>1. transitions[i] \in Transition /\ transitions[i + 1] \in Transition
      BY <2>1 DEF N
    <3> QED  BY <3>1 DEF Transition
  <2>3. /\ transitions[i].time = (a - start_time) % ClockMod
        /\ transitions[i + 1].time = (b - start_time) % ClockMod
    BY <2>1 DEF TimesInv
  <2> HIDE DEF a, b
  <2>4. /\ a - start_time \in Int /\ b - start_time \in Int
        /\ (b - start_time) - (a - start_time) = b - a
    BY <2>1, <2>2
  <2>5. (((b - start_time) % ClockMod) - ((a - start_time) % ClockMod)) % ClockMod
          = ((b - start_time) - (a - start_time)) % ClockMod
    BY <2>1, <2>4, Difference
  <2> QED  BY <2>3, <2>4, <2>5 DEF a, b
<1> QED  BY <1>1, TypeCorrect, TimesInvariant, PTL

-----------------------------------------------------------------------------
(* Station 1 as a whole.                                                          *)

Unsaved(c) == \A i \in 1 .. Len(saved) : saved[i] # c

(* While the record is saved or replayed nothing records into it.                 *)
InUse == pc \in {"save", "replay"} => ~capturing

Numbered ==
  /\ captures \in Nat /\ cap \in Nat /\ crashes \in Nat
  /\ saved \in Seq(Nat)
  /\ cap <= captures /\ \A i \in 1 .. Len(saved) : saved[i] <= captures

(* A capture is unsaved from its start until it is marked as handled, and is      *)
(* saved in between only.                                                        *)
Fresh ==
  /\ (pc = "start" \/ ~capture_handled) /\ cap # 0 => Unsaved(cap)
  /\ pc = "save" => ~capture_handled

Station1Inv == InUse /\ Numbered /\ Fresh /\ SavedOnce

-----------------------------------------------------------------------------
LEMMA Appended ==
  ASSUME NEW s \in Seq(Nat), NEW c \in Nat
  PROVE  /\ Append(s, c) \in Seq(Nat) /\ Len(s) \in Nat /\ Len(Append(s, c)) = Len(s) + 1
         /\ \A i \in 1 .. Len(s) : Append(s, c)[i] = s[i]
         /\ Append(s, c)[Len(s) + 1] = c
  OBVIOUS

(* What no step but those of the store and of a key changes.                      *)
LEMMA HistoryKept ==
  ASSUME Station1Inv, UNCHANGED <<history, saved>>, UNCHANGED capture_handled,
         pc' = "start" => pc = "start", pc' = "save" => ~capture_handled
  PROVE  Numbered' /\ Fresh' /\ SavedOnce'
  BY DEF Station1Inv, Numbered, Fresh, SavedOnce, Unsaved, history

LEMMA BootStep == ASSUME Station1Inv, Boot PROVE Station1Inv'
<1>1. /\ pc' \notin {"save", "replay", "start"}
      /\ UNCHANGED <<history, saved>> /\ UNCHANGED capture_handled
  BY DEF Boot, fileVars
<1> QED  BY <1>1, HistoryKept DEF Station1Inv, InUse

LEMMA IdleStep ==
  ASSUME Station1Inv, KeyIgnored \/ KeyExit \/ ReplayDone PROVE Station1Inv'
<1>1. /\ pc' \notin {"save", "replay", "start"}
      /\ UNCHANGED <<history, saved>> /\ UNCHANGED capture_handled
  BY DEF KeyIgnored, KeyExit, ReplayDone, fileVars
<1> QED  BY <1>1, HistoryKept DEF Station1Inv, InUse

LEMMA KeyCaptureStep == ASSUME Station1Inv, KeyCapture PROVE Station1Inv'
<1>1. /\ pc' = "start" /\ captures' = captures + 1 /\ cap' = captures + 1
      /\ UNCHANGED <<saved, crashes>>
  BY DEF KeyCapture, fileVars
<1>2. Numbered' /\ Unsaved(cap)'
  BY <1>1 DEF Station1Inv, Numbered, Unsaved
<1> QED  BY <1>1, <1>2 DEF Station1Inv, InUse, Fresh, SavedOnce

LEMMA StartStepStep == ASSUME Station1Inv, StartStep PROVE Station1Inv'
<1>1. /\ pc = "start" /\ pc' \in {"start", "check"}
      /\ UNCHANGED <<history, saved>>
  BY DEF StartStep, fileVars
<1>2. cap # 0 => Unsaved(cap)
  BY <1>1 DEF Station1Inv, Fresh
<1> QED  BY <1>1, <1>2 DEF Station1Inv, InUse, Numbered, Fresh, Unsaved, SavedOnce, history

LEMMA KeyReplayStep == ASSUME Station1Inv, KeyReplay PROVE Station1Inv'
<1>1. /\ pc' \in {"replay", "check"} /\ capturing' = FALSE /\ cap' = 0
      /\ UNCHANGED <<saved, captures, crashes>>
  BY DEF KeyReplay, LoadWith, capturing_reset
<1> QED  BY <1>1 DEF Station1Inv, InUse, Numbered, Fresh, SavedOnce

LEMMA CheckStep == ASSUME Station1Inv, Check PROVE Station1Inv'
<1>1. /\ pc' \in {"save", "poll"} /\ (pc' = "save" => ~capture_handled /\ ~capturing)
      /\ UNCHANGED <<history, saved>> /\ UNCHANGED <<capture_handled, capturing>>
  BY DEF Check, must_save, is_capture_complete, SaveBegin, fileVars, history, captureVars, capture
<1> QED  BY <1>1, HistoryKept DEF Station1Inv, InUse

LEMMA SaveStepStep == ASSUME Station1Inv, SaveStep PROVE Station1Inv'
<1>1. /\ pc = "save" /\ pc' \in {"save", "poll"} /\ ~capture_handled /\ ~capturing
      /\ UNCHANGED <<captures, crashes, cap, capturing>>
  BY DEF SaveStep, SaveHeader, SaveRow, Station1Inv, Fresh, InUse, captureVars, capture
<1>2. CASE saved' = saved /\ saving' # "no"
  <2>1. UNCHANGED <<history, saved>> /\ UNCHANGED capture_handled /\ pc' = "save"
    BY <1>1, <1>2 DEF SaveStep, history
  <2> QED  BY <1>1, <2>1, HistoryKept DEF Station1Inv, InUse
<1>3. CASE saved' = Append(saved, cap) /\ saving' = "no"
  <2>1. pc' = "poll" /\ capture_handled' = TRUE
    BY <1>3 DEF SaveStep, handled_set
  <2>2. /\ cap \in Nat /\ saved \in Seq(Nat) /\ cap <= captures /\ captures \in Nat
        /\ \A i \in 1 .. Len(saved) : saved[i] <= captures
        /\ cap # 0 => \A i \in 1 .. Len(saved) : saved[i] # cap
        /\ \A i, j \in 1 .. Len(saved) : saved[i] = saved[j] /\ saved[i] # 0 => i = j
    BY <1>1 DEF Station1Inv, Numbered, Fresh, Unsaved, SavedOnce
  <2>3. /\ saved' \in Seq(Nat) /\ Len(saved) \in Nat /\ Len(saved') = Len(saved) + 1
        /\ \A i \in 1 .. Len(saved) : saved'[i] = saved[i]
        /\ saved'[Len(saved) + 1] = cap
    BY <1>3, <2>2, Appended
  <2>4. Numbered'
    <3>1. ASSUME NEW i \in 1 .. Len(saved) + 1 PROVE saved'[i] <= captures
      <4>1. i \in 1 .. Len(saved) \/ i = Len(saved) + 1
        BY <2>3
      <4> QED  BY <2>2, <2>3, <4>1
    <3>2. captures' \in Nat /\ cap' \in Nat /\ crashes' \in Nat /\ cap' <= captures'
      BY <1>1 DEF Station1Inv, Numbered
    <3>3. saved' \in Seq(Nat) /\ Len(saved') = Len(saved) + 1 /\ captures' = captures
      BY <1>1, <2>3
    <3> QED  BY <3>1, <3>2, <3>3 DEF Numbered
  <2>5. SavedOnce'
    <3> SUFFICES ASSUME NEW i \in 1 .. Len(saved) + 1, NEW j \in 1 .. Len(saved) + 1,
                        saved'[i] = saved'[j], saved'[i] # 0
                 PROVE  i = j
      BY <2>3 DEF SavedOnce
    <3>1. CASE i \in 1 .. Len(saved) /\ j \in 1 .. Len(saved)
      BY <2>2, <2>3, <3>1
    <3>2. CASE i = Len(saved) + 1 /\ j \in 1 .. Len(saved)
      BY <2>2, <2>3, <3>2
    <3>3. CASE j = Len(saved) + 1 /\ i \in 1 .. Len(saved)
      BY <2>2, <2>3, <3>3
    <3> QED  BY <2>3, <3>1, <3>2, <3>3
  <2> QED  BY <2>1, <2>4, <2>5 DEF Station1Inv, InUse, Fresh
<1> QED  BY <1>2, <1>3 DEF SaveStep, SaveHeader, SaveRow

LEMMA InterruptStep ==
  ASSUME Station1Inv, Interrupt
  PROVE  Station1Inv' /\ (~capturing => UNCHANGED transitions)
<1>1. /\ UNCHANGED <<history, saved>> /\ UNCHANGED <<pc, capture_handled>>
  BY DEF Interrupt, fileVars
<1>2. ~capturing => UNCHANGED <<transitions, capturing>>
  BY DEF Interrupt, gpio_callback, Accepts
<1>3. Fresh => (pc = "save" => ~capture_handled)
  BY DEF Fresh
<1> QED  BY <1>1, <1>2, <1>3, HistoryKept DEF Station1Inv, InUse

LEMMA WorldStep == ASSUME Station1Inv, World PROVE Station1Inv' /\ UNCHANGED transitions
<1>1. /\ UNCHANGED <<history, saved>> /\ UNCHANGED <<pc, capture_handled, capturing, transitions>>
  BY DEF World, Edge, Tick, Second, fileVars, history, captureVars, capture
<1>2. Fresh => (pc = "save" => ~capture_handled)
  BY DEF Fresh
<1> QED  BY <1>1, <1>2, HistoryKept DEF Station1Inv, InUse

LEMMA PowerCutStep ==
  ASSUME Station1Inv, PowerCut PROVE Station1Inv' /\ crashes' # crashes
<1>1. /\ pc' = "boot" /\ cap' = 0 /\ crashes' = crashes + 1 /\ UNCHANGED <<saved, captures>>
  BY DEF PowerCut, Crash
<1> QED  BY <1>1 DEF Station1Inv, InUse, Numbered, Fresh, SavedOnce

LEMMA Stutters == ASSUME Station1Inv, UNCHANGED station1Vars PROVE Station1Inv'
<1>1. UNCHANGED <<history, saved>> /\ UNCHANGED <<pc, capture_handled, capturing>>
  BY DEF station1Vars, fileVars, captureVars, capture
<1>2. Fresh => (pc = "save" => ~capture_handled)
  BY DEF Fresh
<1> QED  BY <1>1, <1>2, HistoryKept DEF Station1Inv, InUse

(* The inductive invariant holds: capture_handled tells a capture that is saved    *)
(* from one that is not (main.c:38-62).                                           *)
THEOREM Station1Invariant == Station1Spec => []Station1Inv
<1>1. Station1Init => Station1Inv
  <2> SUFFICES ASSUME Station1Init PROVE Station1Inv
    OBVIOUS
  <2>1. saved = <<>> /\ cap = 0 /\ captures = 0 /\ crashes = 0 /\ pc = "boot"
    BY DEF Station1Init, StoreInit
  <2>2. saved \in Seq(Nat) /\ Len(saved) = 0
    BY <2>1
  <2> QED  BY <2>1, <2>2 DEF Station1Inv, InUse, Numbered, Fresh, SavedOnce, Unsaved
<1>2. Station1Inv /\ [Station1Next]_station1Vars => Station1Inv'
  BY BootStep, IdleStep, KeyCaptureStep, StartStepStep, KeyReplayStep, CheckStep, SaveStepStep,
     InterruptStep, WorldStep, PowerCutStep, Stutters DEF Station1Next, Main
<1> QED  BY <1>1, <1>2, PTL DEF Station1Spec

(* A capture is saved at most once (main.c:57, 61).                               *)
THEOREM SavedOnceHolds == Station1Spec => []SavedOnce
  BY Station1Invariant, PTL DEF Station1Inv

(* The interrupt, enabled throughout, never changes a record that is being saved or *)
(* replayed (digital.c:31, 108, 174).                                             *)
THEOREM RecordStableHolds == Station1Spec => RecordStableInUse
<1>1. ASSUME Station1Inv, [Station1Next]_station1Vars, pc \in {"save", "replay"}, crashes' = crashes
      PROVE  UNCHANGED transitions
  <2>1. CASE Main
    BY <1>1, <2>1 DEF Main, Boot, KeyIgnored, KeyExit, KeyCapture, StartStep, KeyReplay,
       ReplayDone, Check, SaveStep, captureVars, capture
  <2>2. CASE Interrupt
    BY <1>1, <2>2, InterruptStep DEF Station1Inv, InUse
  <2>3. CASE World \/ PowerCut
    BY <1>1, <2>3, WorldStep, PowerCutStep
  <2>4. CASE UNCHANGED station1Vars
    BY <2>4 DEF station1Vars, captureVars, capture
  <2> QED  BY <1>1, <2>1, <2>2, <2>3, <2>4 DEF Station1Next
<1>2. Station1Inv /\ [Station1Next]_station1Vars =>
        [(pc \in {"save", "replay"} /\ crashes' = crashes) => UNCHANGED transitions]_station1Vars
  BY <1>1
<1> QED  BY <1>2, Station1Invariant, PTL DEF Station1Spec, RecordStableInUse

-----------------------------------------------------------------------------
(* Types.  The record is written by the interrupt, by a start and by a load, and    *)
(* read by a save.                                                                *)
Control ==
  /\ pc \in {"boot", "mount", "poll", "start", "check", "save", "replay", "exit", "halt"}
  /\ capture_handled \in BOOLEAN
  /\ pc = "save" <=> saving # "no"
  /\ pc = "start" <=> todo # {}

Typed1 == Typed /\ CaptureTypeOK /\ Control

LEMMA StoreKeepsTypes ==
  ASSUME Typed, UNCHANGED <<transitions, fileVars, history, seconds>> PROVE Typed'
  BY DEF Typed, StoreTypeOK, RecordTypeOK, RowInRecord, fileVars, history

LEMMA Typed1Idle ==
  ASSUME Typed1, Boot \/ KeyIgnored \/ KeyExit \/ ReplayDone PROVE Typed1'
<1>1. /\ pc \notin {"save", "start"} /\ pc' \in {"mount", "halt", "poll", "check", "exit"}
      /\ UNCHANGED <<captureVars, fileVars, history, seconds, capture_handled>>
  BY DEF Boot, KeyIgnored, KeyExit, ReplayDone
<1>2. Typed'
  BY <1>1, StoreKeepsTypes DEF Typed1, captureVars, capture
<1>3. CaptureTypeOK'
  BY <1>1, CaptureTypedStep DEF Typed1
<1>4. Control'
  BY <1>1 DEF Typed1, Control, captureVars, fileVars
<1> QED  BY <1>2, <1>3, <1>4 DEF Typed1

LEMMA Typed1KeyCapture == ASSUME Typed1, KeyCapture PROVE Typed1'
<1>1. /\ pc = "poll" /\ pc' = "start" /\ StartMemset /\ captures' = captures + 1
      /\ cap' = captures + 1 /\ UNCHANGED <<fileVars, crashes, seconds, capture_handled>>
  BY DEF KeyCapture
<1>2. CaptureTypeOK'
  BY <1>1, CaptureTypedStep DEF Typed1, CaptureNext, CaptureMain
<1>3. saving = "no" /\ saving' = "no" /\ todo' # {}
  BY <1>1 DEF Typed1, Control, fileVars, StartMemset, Fields
<1>4. Typed'
  BY <1>1, <1>2, <1>3
     DEF Typed1, Typed, StoreTypeOK, CaptureTypeOK, RowInRecord, fileVars
<1>5. Control'
  BY <1>1, <1>3 DEF Typed1, Control
<1> QED  BY <1>2, <1>4, <1>5 DEF Typed1

LEMMA Typed1StartStep == ASSUME Typed1, StartStep PROVE Typed1'
<1>1. PICK f \in Fields : Store(f)
  BY DEF StartStep
<1>2. /\ pc = "start" /\ UNCHANGED <<fileVars, history, seconds>>
      /\ IF todo' = {} THEN capture_handled' = FALSE /\ pc' = "check"
                       ELSE UNCHANGED <<capture_handled, pc>>
  BY DEF StartStep, start_returns
<1>3. CaptureTypeOK'
  BY <1>1, CaptureTypedStep DEF Typed1, CaptureNext, CaptureMain
<1>4. Typed'
  BY <1>1, <1>2, StoreKeepsTypes DEF Typed1, Store
<1>5. Control'
  BY <1>2 DEF Typed1, Control, fileVars
<1> QED  BY <1>3, <1>4, <1>5 DEF Typed1

LEMMA Typed1KeyReplay == ASSUME Typed1, KeyReplay PROVE Typed1'
<1>1. /\ pc = "poll" /\ pc' \in {"replay", "check"} /\ LoadWith(time_us_32)
      /\ capturing' = FALSE /\ expecting_high' = FALSE /\ start_time' = time_us_32
      /\ UNCHANGED <<order, todo, input, clock, capture_handled>>
  BY DEF KeyReplay, capturing_reset
<1>2. time_us_32 \in Clocks
  <2>1. clock \in Int
    BY DEF Typed1, CaptureTypeOK
  <2> QED  BY <2>1, ClockRange DEF time_us_32
<1>3. Typed'
  BY <1>1, <1>2, TypedLoad DEF Typed1
<1>4. CaptureTypeOK'
  BY <1>1, <1>2, <1>3 DEF Typed1, CaptureTypeOK, Typed, StoreTypeOK, input
<1>5. Control'
  BY <1>1 DEF Typed1, Control, LoadWith, saveVars
<1> QED  BY <1>3, <1>4, <1>5 DEF Typed1

LEMMA Typed1Check == ASSUME Typed1, Check PROVE Typed1'
<1>1. pc = "check" /\ UNCHANGED captureVars /\ UNCHANGED capture_handled
  BY DEF Check
<1>2. CaptureTypeOK'
  BY <1>1, CaptureTypedStep DEF Typed1
<1>3. CASE must_save
  <2>1. SaveBegin /\ pc' = "save"
    BY <1>3 DEF Check
  <2>2. Typed'
    BY <2>1, TypedSaveBegin DEF Typed1
  <2>3. Control'
    BY <1>1, <2>1 DEF Typed1, Control, SaveBegin, captureVars
  <2> QED  BY <1>2, <2>2, <2>3 DEF Typed1
<1>4. CASE ~must_save
  <2>1. pc' = "poll" /\ UNCHANGED <<fileVars, history, seconds>>
    BY <1>4 DEF Check
  <2>2. Typed'
    BY <1>1, <2>1, StoreKeepsTypes DEF Typed1, captureVars, capture
  <2>3. Control'
    BY <1>1, <2>1 DEF Typed1, Control, fileVars, captureVars
  <2> QED  BY <1>2, <2>2, <2>3 DEF Typed1
<1> QED  BY <1>3, <1>4

LEMMA Typed1SaveStep == ASSUME Typed1, SaveStep PROVE Typed1'
<1>1. /\ pc = "save" /\ (SaveHeader \/ SaveRow) /\ UNCHANGED captureVars
      /\ IF saving' = "no" THEN pc' = "poll" /\ capture_handled' = TRUE
                           ELSE UNCHANGED <<pc, capture_handled>>
  BY DEF SaveStep, handled_set
<1>2. CaptureTypeOK'
  BY <1>1, CaptureTypedStep DEF Typed1
<1>3. Typed'
  BY <1>1, TypedSaveHeader, TypedSaveRow DEF Typed1
<1>4. Control'
  BY <1>1 DEF Typed1, Control, captureVars
<1> QED  BY <1>2, <1>3, <1>4 DEF Typed1

LEMMA Typed1Interrupt == ASSUME Typed1, Station1Inv, Interrupt PROVE Typed1'
<1>1. gpio_callback /\ UNCHANGED <<fileVars, history, seconds, pc, capture_handled>>
  BY DEF Interrupt
<1>2. CaptureTypeOK'
  BY <1>1, CaptureTypedStep DEF Typed1, CaptureNext
<1>3. saving # "no" => UNCHANGED transitions
  BY InterruptStep DEF Typed1, Control, Station1Inv, InUse
<1>4. Typed'
  BY <1>1, <1>2, <1>3
     DEF Typed1, Typed, StoreTypeOK, CaptureTypeOK, RowInRecord, fileVars, history
<1>5. Control'
  BY <1>1 DEF Typed1, Control, fileVars, gpio_callback
<1> QED  BY <1>2, <1>4, <1>5 DEF Typed1

LEMMA Typed1World == ASSUME Typed1, World PROVE Typed1'
<1>1. CASE (Edge \/ Tick) /\ UNCHANGED <<fileVars, history, seconds, pc, capture_handled>>
  <2>1. UNCHANGED <<transitions, todo, fileVars, history, seconds, pc, capture_handled>>
    BY <1>1 DEF Edge, Tick, capture
  <2>2. Typed'
    BY <2>1, StoreKeepsTypes DEF Typed1
  <2>3. CaptureTypeOK'
    BY <1>1, CaptureTypedStep DEF Typed1, CaptureNext
  <2>4. Control'
    BY <2>1 DEF Typed1, Control, fileVars
  <2> QED  BY <2>2, <2>3, <2>4 DEF Typed1
<1>2. CASE Second /\ UNCHANGED <<captureVars, pc, capture_handled>>
  <2>1. Typed'
    BY <1>2, TypedSecond DEF Typed1
  <2>2. CaptureTypeOK'
    BY <1>2, CaptureTypedStep DEF Typed1
  <2>3. Control'
    BY <1>2 DEF Typed1, Control, Second, saveVars, captureVars
  <2> QED  BY <2>1, <2>2, <2>3 DEF Typed1
<1> QED  BY <1>1, <1>2 DEF World

LEMMA Typed1PowerCut == ASSUME Typed1, PowerCut PROVE Typed1'
<1>1. /\ Crash /\ capturing' = FALSE /\ start_time' = 0 /\ expecting_high' = FALSE
      /\ todo' = {} /\ pending' = {} /\ pc' = "boot" /\ capture_handled' = TRUE
      /\ UNCHANGED <<order, level, clock>>
  BY DEF PowerCut
<1>2. Typed'
  BY <1>1, TypedCrash DEF Typed1
<1>3. CaptureTypeOK'
  <2>1. RecordTypeOK' /\ start_time' \in Clocks
    BY <1>1, <1>2, RecordAssumption DEF Typed, StoreTypeOK, Clocks
  <2>2. order' \in Orders /\ level' \in BOOLEAN /\ clock' \in Nat
    BY <1>1 DEF Typed1, CaptureTypeOK
  <2> QED  BY <1>1, <2>1, <2>2 DEF CaptureTypeOK
<1>4. Control'
  BY <1>1 DEF Control, Crash
<1> QED  BY <1>2, <1>3, <1>4 DEF Typed1

LEMMA Typed1Stutter == ASSUME Typed1, UNCHANGED station1Vars PROVE Typed1'
<1>1. UNCHANGED <<captureVars, fileVars, history, seconds, pc, capture_handled>>
  BY DEF station1Vars
<1>2. Typed'
  BY <1>1, StoreKeepsTypes DEF Typed1, captureVars, capture
<1>3. CaptureTypeOK'
  BY <1>1, CaptureTypedStep DEF Typed1
<1> QED  BY <1>1, <1>2, <1>3 DEF Typed1, Control, captureVars, fileVars

LEMMA Typed1Holds == Station1Spec => []Typed1
<1>1. Station1Init => Typed1
  <2> SUFFICES ASSUME Station1Init PROVE Typed1
    OBVIOUS
  <2>1. Typed /\ CaptureTypeOK
    BY TypedInit, CaptureTypedInit DEF Station1Init
  <2>2. Control
    BY DEF Station1Init, StoreInit, CaptureInit, Control
  <2> QED  BY <2>1, <2>2 DEF Typed1
<1>2. Typed1 /\ Station1Inv /\ [Station1Next]_station1Vars => Typed1'
  BY Typed1Idle, Typed1KeyCapture, Typed1StartStep, Typed1KeyReplay, Typed1Check, Typed1SaveStep,
     Typed1Interrupt, Typed1World, Typed1PowerCut, Typed1Stutter DEF Station1Next, Main
<1> QED  BY <1>1, <1>2, Station1Invariant, PTL DEF Station1Spec

(* Every variable keeps its type when the interrupt, the main loop and power cuts     *)
(* come in any order, and the steps of a save and of a start are taken only where     *)
(* main is in one (main.c:30-110, digital.c:61, 231).                              *)
THEOREM Station1TypeHolds == Station1Spec => []Station1TypeOK
<1>1. Typed1 => Station1TypeOK
  BY DEF Typed1, Control, Station1TypeOK
<1> QED  BY <1>1, Typed1Holds, PTL

(* Whatever the interrupt does to the record while a row is written and wherever      *)
(* power is lost, the pass of load_pulses_from_file finds the rows of the latest      *)
(* timestamp in the file (digital.c:205-238).                                      *)
THEOREM Station1LoadsLatest == Station1Spec => []LoadFindsLatest
<1>1. Typed1 => LoadFindsLatest
  BY LoadsLatest DEF Typed1, Typed, StoreTypeOK, LoadFindsLatest
<1> QED  BY <1>1, Typed1Holds, PTL
=============================================================================
