------------------------------ MODULE PulseCapture ------------------------------
(* The pulse capture of station 1 (src/buddy2/digital.c): the GPIO interrupt      *)
(* handler that records edges, and start_pulse_capture, which resets the shared   *)
(* `capture` structure from the main thread while the interrupt stays enabled.    *)
(* The handler is never preempted by the main thread, so it is one action; the    *)
(* main thread can be interrupted between any two of its stores.                  *)
EXTENDS PulseRecord

CONSTANTS
  MaxClock,         \* bound on the microseconds of a behaviour
  Orders            \* the orders of stores the compiled code may have

(* The fields start_pulse_capture stores after its memset.  They are not volatile, *)
(* so C orders none of these stores as the handler sees them.  An order is a set of *)
(* pairs <<f, g>>, f being stored before g; the function's text has SourceOrder.    *)
Fields == {"capturing", "start_time", "expecting_high"}
SourceOrder == {<<"capturing", "start_time">>, <<"capturing", "expecting_high">>,
                <<"start_time", "expecting_high">>}

ASSUME CaptureAssumption ==
  /\ MaxTransitions % 2 = 0    \* as many HIGHs as LOWs (digital.h:11)
  /\ MaxClock \in Nat
  /\ Orders \subseteq SUBSET (Fields \X Fields)

VARIABLES
  capturing, start_time, expecting_high,
  order,            \* the order of the stores, fixed by the build
  todo,             \* the stores start_pulse_capture has still to make
  level,            \* the input pin
  pending,          \* edge events latched by the GPIO block, not yet handled
  clock             \* microseconds since power-on

capture == <<transitions, capturing, start_time, expecting_high>>
input == <<level, pending>>
captureVars == <<capture, order, todo, input, clock>>

Edges == {"rise", "fall"}
time_us_32 == clock % ClockMod

is_capture_complete == ~capturing /\ Len(transitions) = MaxTransitions

CaptureInit ==
  /\ transitions = <<>>
  /\ capturing = FALSE
  /\ start_time = 0
  /\ expecting_high = FALSE
  /\ order \in Orders
  /\ todo = {}
  /\ level \in BOOLEAN
  /\ pending = {}
  /\ clock = 0

-----------------------------------------------------------------------------
(* The input signal and the clock.                                            *)

Edge ==
  /\ level' = ~level
  /\ pending' = pending \cup {IF level' THEN "rise" ELSE "fall"}
  /\ UNCHANGED <<capture, order, todo, clock>>

Tick ==
  /\ clock < MaxClock
  /\ clock' = clock + 1
  /\ UNCHANGED <<capture, order, todo, input>>

-----------------------------------------------------------------------------
(* The interrupt handler.  Both events of a pin may have been latched before it *)
(* runs: it then sees one call, and takes it for a rising edge.                 *)

AcceptsAnyEdge(is_rising) == capturing /\ Len(transitions) < MaxTransitions
Accepts(is_rising) ==
  capturing /\ is_rising = expecting_high /\ Len(transitions) < MaxTransitions

relative_time_signed == time_us_32 - start_time
relative_time == (time_us_32 - start_time) % ClockMod

StaysCapturingForever == TRUE
StaysCapturing == Len(transitions) + 1 < MaxTransitions

gpio_callback ==
  LET is_rising == "rise" \in pending IN
  /\ pending # {}
  /\ pending' = {}
  /\ IF Accepts(is_rising)
     THEN /\ transitions' = Append(transitions,
               [time |-> relative_time, state |-> is_rising, at |-> clock])
          /\ expecting_high' = ~expecting_high
          /\ capturing' = StaysCapturing
     ELSE UNCHANGED <<transitions, expecting_high, capturing>>
  /\ UNCHANGED <<start_time, order, todo, level, clock>>

-----------------------------------------------------------------------------
(* The main thread: start_pulse_capture is a memset and three stores.          *)

expecting_kept == expecting_high
expecting_reset == FALSE

ResetCapture ==
  /\ transitions' = <<>>
  /\ capturing' = FALSE
  /\ expecting_high' = expecting_reset

StartMemset ==
  /\ todo = {}
  /\ ResetCapture
  /\ start_time' = 0
  /\ todo' = Fields
  /\ UNCHANGED <<order, input, clock>>

MayStoreAny(f) == f \in todo
MayStore(f) == f \in todo /\ \A g \in todo : <<g, f>> \notin order

Store(f) ==
  /\ MayStore(f)
  /\ todo' = todo \ {f}
  /\ capturing' = (capturing \/ f = "capturing")
  /\ start_time' = IF f = "start_time" THEN time_us_32 ELSE start_time
  /\ expecting_high' = (expecting_high \/ f = "expecting_high")
  /\ UNCHANGED <<transitions, order, input, clock>>

CaptureMain == StartMemset \/ \E f \in Fields : Store(f)

CaptureNext == Edge \/ Tick \/ gpio_callback \/ CaptureMain

CaptureSpec == CaptureInit /\ [][CaptureNext]_captureVars

(* The signal goes on toggling, the interrupt controller serves what is pending, *)
(* and the main thread runs on between interrupts.                               *)
CaptureFairSpec ==
  /\ CaptureSpec
  /\ WF_captureVars(Edge)
  /\ WF_captureVars(gpio_callback)
  /\ WF_captureVars(\E f \in Fields : Store(f))

-----------------------------------------------------------------------------
(* Properties.                                                                 *)

(* Every variable keeps its type; in particular the handler never writes past  *)
(* the transitions array (digital.c:37, 61).                                   *)
CaptureTypeOK ==
  /\ RecordTypeOK
  /\ capturing \in BOOLEAN
  /\ start_time \in Clocks
  /\ expecting_high \in BOOLEAN
  /\ order \in Orders
  /\ todo \subseteq Fields
  /\ level \in BOOLEAN
  /\ pending \subseteq Edges
  /\ clock \in Nat

Repeats == {i \in 1 .. Len(transitions) - 1 : transitions[i].state = transitions[i + 1].state}

(* Whatever the interrupt hits, two neighbours of the record are equal at most  *)
(* at one place, there both are HIGH, and then the record began with a LOW:     *)
(* only an edge taken before expecting_high was stored can leave a seam.        *)
OneSeam ==
  \A i \in Repeats :
    /\ transitions[i].state /\ ~transitions[1].state
    /\ \A j \in Repeats : i = j

(* A complete capture has as many HIGHs as LOWs, as digital.h:11 counts them     *)
(* ("10 highs + 10 lows = 20 total transitions"), even when the reset was raced. *)
CompleteIsBalanced ==
  is_capture_complete =>
    Cardinality({i \in 1 .. Len(transitions) : transitions[i].state})
      = Cardinality({i \in 1 .. Len(transitions) : ~transitions[i].state})

(* With the stores in source order, two neighbouring times of a record that       *)
(* begins with a HIGH differ by the time between the two interrupts, modulo the   *)
(* 32-bit clock: the interval replay_pulses computes (digital.c:114) was seen.     *)
IntervalsExact ==
  order = SourceOrder /\ transitions # <<>> /\ transitions[1].state =>
    \A i \in 1 .. Len(transitions) - 1 :
      (transitions[i + 1].time - transitions[i].time) % ClockMod
        = (transitions[i + 1].at - transitions[i].at) % ClockMod

(* When the handler keeps up with the signal, so that no edge comes while one is  *)
(* pending, a started capture ends: it fills up (digital.c:61) or is started anew. *)
CaptureEnds ==
  <>[][level' # level => pending = {}]_captureVars
    => (capturing /\ todo = {} ~> ~capturing)
=============================================================================
