----------------------------- MODULE Station2Proofs -----------------------------
(* TLAPS proofs about Station2, for every wiring, rate and width of the timer, and *)
(* size of the edge buffer.                                                       *)
EXTENDS Station2, WellFoundedInduction, TLAPS

analyzersKept == UNCHANGED <<pwm, protocol, adc, dma, adc_runs, dma_irq, full>>

(* A step of the main loop other than Analyze: it only looks.                     *)
Looks ==
  /\ analyzersKept /\ UNCHANGED <<rises, served, clock>>
  /\ pc' = "adc_complete" => adc.capturing
  /\ pc' = "adc_analyze" => pc = "adc_complete" /\ adc.transfer_complete

Pressed == "ADC_BUTTON_PIN" \in served

(* The ADC's invariant.  A button is handled once per tick, and neither an interrupt *)
(* of the channel nor a look of the main loop lasts over one: what is pending when   *)
(* the capture is stopped is gone before it is started again.                     *)
AdcInv ==
  /\ AdcTypeOK
  /\ AdcFollowsCapture
  /\ adc.continuous_mode <=> adc.capturing
  /\ dma_irq => IF adc.capturing THEN full ELSE Pressed
  /\ adc.transfer_complete /\ adc.capturing => full
  /\ pc \in {"adc_complete", "adc_analyze"} /\ ~adc.capturing => Pressed
  /\ AnalyzesFullBuffer

(* What the handler of an edge remembers is a rising edge of the present capture.  *)
PwmInv ==
  /\ pwm = [is_capturing |-> pwm.is_capturing, last_rise |-> pwm.last_rise,
            period |-> pwm.period, duty_cycle |-> pwm.duty_cycle]
  /\ clock \in Nat /\ rises \in SUBSET Nat
  /\ pwm.is_capturing /\ pwm.last_rise # 0 => \E rise \in rises : pwm.last_rise = rise % ClockMod

ReadingInv ==
  /\ protocol = [is_capturing |-> protocol.is_capturing, edges |-> protocol.edges,
                 detected |-> protocol.detected, is_valid |-> protocol.is_valid,
                 baud_rate |-> protocol.baud_rate]
  /\ protocol.edges \in Seq(Int) /\ clock \in Nat
  /\ ReadingMatchesBuffer

-----------------------------------------------------------------------------
LEMMA Constants == ClockMod \in Nat \ {0} /\ Modulus = ClockMod
  BY Station2Assumption, ProtocolAssumption

LEMMA MainStep == ASSUME Main PROVE Looks \/ Analyze
<1> USE DEF Looks, analyzersKept, analyzers, Others, irqVars, adcVars, Goto
<1>1. CASE CheckPwm \/ ReadFrequency \/ PublishPwm
  BY <1>1 DEF CheckPwm, ReadFrequency, PublishPwm
<1>2. CASE CheckAdc \/ CheckComplete
  BY <1>2 DEF CheckAdc, CheckComplete
<1>3. CASE CheckUart \/ ReadValid \/ ReadDetected \/ PublishBaud
  BY <1>3 DEF CheckUart, ReadValid, ReadDetected, PublishBaud
<1>4. CASE update_dashboard_data \/ handle_dashboard_events \/ Wake
  BY <1>4 DEF update_dashboard_data, handle_dashboard_events, Wake
<1> QED  BY <1>1, <1>2, <1>3, <1>4 DEF Main

LEMMA TickKeeps ==
  ASSUME Station2Tick
  PROVE  /\ analyzersKept /\ UNCHANGED rises /\ clock' = clock + 1
         /\ pc = "sleep" /\ pc' = "sleep"
  BY DEF Station2Tick, analyzersKept, analyzers, adcVars, mainVars

PinEvents == {{"rise"}, {"fall"}, {"rise", "fall"}}

(* An interrupt of a pin: it changes one analyzer, or none when it is dropped.    *)
LEMMA PinInterrupt ==
  ASSUME Interrupt, wired \in Wirings
  PROVE  /\ UNCHANGED <<pc, clock>>
         /\ \E gpio \in (Buttons \cup Signals) \ served : \E events \in PinEvents :
              /\ served' = served \cup {gpio} /\ PwmRises(gpio, events)
              /\ (analyzersKept /\ "fall" \in events) \/ Handle(gpio, events)
<1>1. PICK gpio \in wired \ served, events \in PinEvents :
        /\ gpio_callback(gpio, events) /\ PwmRises(gpio, events)
        /\ served' = served \cup {gpio} /\ UNCHANGED <<mainVars, wired, clock>>
  BY DEF Interrupt, PinEvents
<1>2. (analyzersKept /\ "fall" \in events) \/ Handle(gpio, events)
  BY <1>1 DEF gpio_callback, dropped, analyzersKept, analyzers, adcVars
<1>3. gpio \in (Buttons \cup Signals) \ served
  BY Station2Assumption
<1> QED  BY <1>1, <1>2, <1>3 DEF mainVars

(* The wiring is what it was.                                                     *)
LEMMA WiredInvariant == Station2Spec => [](wired \in Wirings)
<1>1. Station2Init => wired \in Wirings
  BY DEF Station2Init
<1>2. wired \in Wirings /\ [Station2Next]_station2Vars => (wired \in Wirings)'
  <2>1. Main => wired' = wired
    BY MainStep DEF Main, CheckPwm, ReadFrequency, PublishPwm, CheckAdc, CheckComplete, Analyze,
       CheckUart, ReadValid, ReadDetected, PublishBaud, update_dashboard_data,
       handle_dashboard_events, Wake, Others
  <2> QED
    BY <2>1 DEF Station2Next, Interrupt, DmaFill, DmaInterrupt, Station2Tick, station2Vars
<1> QED  BY <1>1, <1>2, PTL DEF Station2Spec

-----------------------------------------------------------------------------
(* The ADC and its channel.                                                       *)

adcKept == UNCHANGED <<adc, dma, adc_runs, dma_irq, full>>

LEMMA AdcUntouched ==
  ASSUME AdcInv, adcKept, Pressed => Pressed',
         pc' = "adc_complete" => adc.capturing \/ pc = "adc_complete",
         pc' = "adc_analyze" =>
           pc = "adc_analyze" \/ (pc = "adc_complete" /\ adc.transfer_complete)
  PROVE  AdcInv'
  BY DEF AdcInv, adcKept, AdcTypeOK, AdcFollowsCapture, AnalyzesFullBuffer

LEMMA AdcPressed ==
  ASSUME AdcInv, PressAdc, ~Pressed, Pressed', pc' = pc PROVE AdcInv'
<1>1. CASE adc.capturing
  <2>1. /\ adc' = stopped /\ adc_runs' = FALSE /\ dma' = "idle" /\ full' = full
        /\ (dma_irq' = dma_irq \/ dma_irq' = TRUE)
    BY <1>1 DEF PressAdc, adc_stop_capture
  <2>2. AdcTypeOK'
    BY <2>1 DEF AdcInv, AdcTypeOK, stopped
  <2>3. AdcFollowsCapture' /\ AnalyzesFullBuffer'
    BY <2>1 DEF AdcFollowsCapture, AnalyzesFullBuffer, stopped
  <2>4. ~adc'.continuous_mode /\ ~adc'.capturing
    BY <2>1 DEF stopped
  <2> QED  BY <2>2, <2>3, <2>4 DEF AdcInv
<1>2. CASE ~adc.capturing
  <2>1. /\ adc' = started /\ adc_runs' = TRUE /\ dma' = "busy" /\ full' = FALSE /\ dma_irq' = dma_irq
    BY <1>2 DEF PressAdc, adc_start_capture
  <2>2. AdcTypeOK'
    BY <2>1 DEF AdcInv, AdcTypeOK, started
  <2>3. AdcFollowsCapture'
    BY <2>1 DEF AdcFollowsCapture, started
  <2>4. adc'.continuous_mode /\ adc'.capturing /\ ~adc'.transfer_complete
    BY <2>1 DEF started
  <2>5. ~dma_irq /\ pc \notin {"adc_complete", "adc_analyze"}
    BY <1>2 DEF AdcInv
  <2> QED  BY <2>1, <2>2, <2>3, <2>4, <2>5 DEF AdcInv, AnalyzesFullBuffer
<1> QED  BY <1>1, <1>2

LEMMA AdcChannel ==
  ASSUME AdcInv, DmaFill \/ DmaInterrupt PROVE AdcInv'
<1>1. pc' = pc /\ (Pressed <=> Pressed')
  BY DEF DmaFill, DmaInterrupt, mainVars, irqVars, Pressed
<1>2. CASE DmaFill
  <2>1. /\ dma = "busy" /\ adc' = adc /\ adc_runs' = adc_runs
        /\ dma' = "idle" /\ dma_irq' = TRUE /\ full' = TRUE
    BY <1>2 DEF DmaFill, DmaFills
  <2>2. adc.capturing
    BY <2>1 DEF AdcInv, AdcFollowsCapture
  <2> QED  BY <1>1, <2>1, <2>2 DEF AdcInv, AdcTypeOK, AdcFollowsCapture, AnalyzesFullBuffer
<1>3. CASE DmaInterrupt /\ adc.capturing
  <2>1. /\ dma_irq /\ adc' = [adc EXCEPT !.transfer_complete = TRUE] /\ dma' = "busy"
        /\ adc_runs' = adc_runs /\ dma_irq' = FALSE /\ full' = full
    BY <1>3 DEF DmaInterrupt, dma_handler, AdcInv
  <2>2. AdcTypeOK' /\ adc'.capturing = adc.capturing /\ adc'.continuous_mode = adc.continuous_mode
    BY <2>1 DEF AdcInv, AdcTypeOK
  <2> QED  BY <1>1, <1>3, <2>1, <2>2 DEF AdcInv, AdcFollowsCapture, AnalyzesFullBuffer
<1>4. CASE DmaInterrupt /\ ~adc.capturing
  <2>1. /\ dma_irq /\ adc' = [adc EXCEPT !.transfer_complete = TRUE, !.capturing = FALSE]
        /\ dma' = dma /\ adc_runs' = FALSE /\ dma_irq' = FALSE /\ full' = full
    BY <1>4 DEF DmaInterrupt, dma_handler, AdcInv
  <2>2. AdcTypeOK' /\ adc'.capturing = FALSE /\ adc'.continuous_mode = adc.continuous_mode
    BY <2>1 DEF AdcInv, AdcTypeOK
  <2> QED  BY <1>1, <1>4, <2>1, <2>2 DEF AdcInv, AdcFollowsCapture, AnalyzesFullBuffer
<1> QED  BY <1>2, <1>3, <1>4

LEMMA AdcAnalyzed == ASSUME AdcInv, Analyze, ~dma_irq PROVE AdcInv'
<1>1. /\ adc' = [adc EXCEPT !.transfer_complete = FALSE] /\ full' = FALSE /\ pc' = "uart"
      /\ UNCHANGED <<dma, adc_runs, dma_irq>>
  BY DEF Analyze, clear_transfer_complete, Goto
<1>2. /\ AdcTypeOK' /\ ~adc'.transfer_complete
      /\ adc'.capturing = adc.capturing /\ adc'.continuous_mode = adc.continuous_mode
  BY <1>1 DEF AdcInv, AdcTypeOK
<1> QED  BY <1>1, <1>2 DEF AdcInv, AdcFollowsCapture, AnalyzesFullBuffer

(* The inductive invariant of the ADC, its channel and the main loop holds         *)
(* (adc.c:31-58, 125-135; station2.c:146-155).                                    *)
THEOREM AdcInvariant == Station2Spec => []AdcInv
<1>1. Station2Init => AdcInv
  <2> SUFFICES ASSUME Station2Init PROVE AdcInv
    OBVIOUS
  <2>1. /\ adc = [capturing |-> FALSE, transfer_complete |-> FALSE, continuous_mode |-> FALSE]
        /\ dma = "idle" /\ adc_runs = FALSE /\ dma_irq = FALSE /\ full = FALSE /\ pc = "pwm"
    BY DEF Station2Init, AdcInit
  <2>2. AdcTypeOK /\ ~adc.capturing /\ ~adc.continuous_mode
    BY <2>1 DEF AdcTypeOK
  <2> QED  BY <2>1, <2>2 DEF AdcInv, AdcFollowsCapture, AnalyzesFullBuffer
<1>2. wired \in Wirings /\ AdcInv /\ [Station2Next]_station2Vars => AdcInv'
  <2> SUFFICES ASSUME wired \in Wirings, AdcInv, [Station2Next]_station2Vars PROVE AdcInv'
    OBVIOUS
  <2>1. CASE Interrupt
    <3>1. PICK gpio \in (Buttons \cup Signals) \ served, events \in PinEvents :
            /\ served' = served \cup {gpio}
            /\ analyzersKept \/ Handle(gpio, events)
      BY <2>1, PinInterrupt
    <3>2. /\ Pressed => Pressed'
          /\ gpio = "ADC_BUTTON_PIN" => ~Pressed /\ Pressed'
          /\ pc' = pc
      BY <2>1, <3>1, PinInterrupt DEF Pressed
    <3>3. CASE adcKept
      BY <3>2, <3>3, AdcUntouched
    <3>4. CASE gpio = "ADC_BUTTON_PIN" /\ PressAdc
      BY <3>2, <3>4, AdcPressed
    <3>5. CASE Handle(gpio, events) /\ gpio # "ADC_BUTTON_PIN"
      BY <3>3, <3>5 DEF Handle, PressPwm, PressProtocol, PwmEdge, UartEdge,
         adcVars, adcKept, Buttons, Signals
    <3>6. CASE Handle(gpio, events) /\ gpio = "ADC_BUTTON_PIN"
      BY <3>4, <3>6 DEF Handle
    <3> QED  BY <3>1, <3>3, <3>5, <3>6 DEF analyzersKept, adcKept
  <2>2. CASE Main /\ ~dma_irq
    <3>1. CASE Looks
      <4>1. adcKept /\ Pressed' = Pressed
        BY <3>1 DEF Looks, analyzersKept, adcKept, Pressed
      <4> QED  BY <3>1, <4>1, AdcUntouched DEF Looks
    <3> QED  BY <2>2, <3>1, MainStep, AdcAnalyzed
  <2>3. CASE Station2Tick /\ ~dma_irq
    <3>1. UNCHANGED <<adc, dma, adc_runs, dma_irq, full>> /\ pc' = "sleep"
      BY <2>3, TickKeeps DEF analyzersKept
    <3>2. AdcTypeOK' /\ AdcFollowsCapture'
      BY <3>1 DEF AdcInv, AdcTypeOK, AdcFollowsCapture
    <3> QED  BY <2>3, <3>1, <3>2 DEF AdcInv, AnalyzesFullBuffer
  <2>4. CASE UNCHANGED station2Vars
    <3>1. adcKept /\ Pressed' = Pressed /\ pc' = pc
      BY <2>4 DEF station2Vars, analyzers, adcVars, irqVars, mainVars, adcKept, Pressed
    <3> QED  BY <3>1, AdcUntouched
  <2> QED  BY <2>1, <2>2, <2>3, <2>4, AdcChannel DEF Station2Next
<1> QED  BY <1>1, <1>2, WiredInvariant, PTL DEF Station2Spec

(* The ADC and its channel run just while a capture does (adc.c:31-58, 125-135).   *)
THEOREM AdcFollowsHolds == Station2Spec => []AdcFollowsCapture
  BY AdcInvariant, PTL DEF AdcInv

(* The main loop analyzes a buffer that was filled since it looked last, unless    *)
(* the capture was stopped between its two checks (station2.c:150-152).           *)
THEOREM AnalyzesFullHolds == Station2Spec => []AnalyzesFullBuffer
  BY AdcInvariant, PTL DEF AdcInv

-----------------------------------------------------------------------------
(* The PWM analyzer.                                                              *)

LEMMA DivMod ==
  ASSUME NEW n \in Nat \ {0}, NEW x \in Int
  PROVE  /\ x % n \in 0 .. n - 1 /\ x \div n \in Int
         /\ x = n * (x \div n) + (x % n)
  OBVIOUS

LEMMA ModPlus ==
  ASSUME NEW n \in Nat \ {0}, NEW y \in Int, NEW k \in Int
  PROVE  (y + n * k) % n = y % n
<1> DEFINE q == y \div n
<1> DEFINE r == y % n
<1>1. r \in 0 .. n - 1 /\ q \in Int /\ y = n * q + r
  BY DivMod
<1> DEFINE p == q + k
<1> HIDE DEF q, r
<1>2. y + n * k = r + n * p /\ p \in Int
  BY <1>1
<1> HIDE DEF p
<1>3. (r + n * p) % n = r
  BY <1>1, <1>2
<1> QED  BY <1>2, <1>3 DEF r

LEMMA Difference ==
  ASSUME NEW n \in Nat \ {0}, NEW a \in Nat, NEW b \in Nat
  PROVE  ((b % n) - (a % n)) % n = (b - a) % n
<1> DEFINE k == (a \div n) - (b \div n)
<1>1. /\ a % n \in Int /\ a \div n \in Int /\ a = n * (a \div n) + (a % n)
      /\ b % n \in Int /\ b \div n \in Int /\ b = n * (b \div n) + (b % n)
  BY DivMod
<1>2. n * k = n * (a \div n) - n * (b \div n) /\ k \in Int
  BY <1>1
<1> HIDE DEF k
<1>3. (b % n) - (a % n) = (b - a) + n * k /\ b - a \in Int
  BY <1>1, <1>2
<1> QED  BY <1>2, <1>3, ModPlus

(* What the history of the pin tells of a period that is taken in this step.      *)
FromRise == \E rise \in rises : pwm'.period = (clock - rise) % ClockMod

LEMMA PwmUntouched ==
  ASSUME PwmInv, UNCHANGED pwm, clock' \in Nat, rises' \in SUBSET Nat,
         pwm.is_capturing => rises \subseteq rises'
  PROVE  PwmInv'
  BY DEF PwmInv

LEMMA PwmPressed ==
  ASSUME PwmInv, PressPwm, UNCHANGED clock, rises' = {}
  PROVE  PwmInv' /\ pwm'.period = pwm.period
  BY DEF PwmInv, PressPwm, start_capture, stop_capture

LEMMA RisesGrow ==
  ASSUME PwmInv, NEW gpio, NEW events, PwmRises(gpio, events)
  PROVE  /\ rises' \in SUBSET Nat
         /\ gpio # "PWM_PIN" /\ pwm'.is_capturing # pwm.is_capturing => rises' = {}
         /\ /\ pwm'.is_capturing = pwm.is_capturing
            /\ gpio # "PWM_PIN" \/ "rise" \notin events \/ "fall" \in events
            => rises \subseteq rises'
         /\ gpio = "PWM_PIN" /\ "rise" \in events => clock \in rises'
  BY DEF PwmInv, PwmRises

LEMMA PwmEdgeStep ==
  ASSUME PwmInv, NEW events \in PinEvents, PwmEdge(events), UNCHANGED clock,
         PwmRises("PWM_PIN", events)
  PROVE  /\ PwmInv'
         /\ pwm'.period # pwm.period => FromRise
<1>1. clock \in Nat /\ rises \in SUBSET Nat /\ ClockMod \in Nat \ {0}
  BY Constants DEF PwmInv
<1>2. CASE ~pwm.is_capturing
  <2>1. UNCHANGED pwm /\ rises' \in SUBSET Nat
    BY <1>2, RisesGrow DEF PwmEdge
  <2> QED  BY <1>1, <1>2, <2>1, PwmUntouched
<1>3. CASE pwm.is_capturing /\ "rise" \notin events
  <2>1. /\ pwm'.is_capturing = pwm.is_capturing /\ pwm'.last_rise = pwm.last_rise
        /\ pwm'.period = pwm.period
        /\ pwm' = [is_capturing |-> pwm'.is_capturing, last_rise |-> pwm'.last_rise,
                   period |-> pwm'.period, duty_cycle |-> pwm'.duty_cycle]
    BY <1>3 DEF PwmInv, PwmEdge, handle_pwm_edge
  <2>2. rises' \in SUBSET Nat /\ rises \subseteq rises'
    BY <1>3, <2>1, RisesGrow
  <2> QED  BY <1>1, <1>3, <2>1, <2>2 DEF PwmInv
<1>4. CASE pwm.is_capturing /\ "rise" \in events
  <2>1. /\ pwm'.is_capturing = pwm.is_capturing /\ pwm'.last_rise = now
        /\ pwm'.period = (IF pwm.last_rise # 0 THEN since_rise(now) ELSE pwm.period)
        /\ pwm' = [is_capturing |-> pwm'.is_capturing, last_rise |-> pwm'.last_rise,
                   period |-> pwm'.period, duty_cycle |-> pwm'.duty_cycle]
    BY <1>4 DEF PwmInv, PwmEdge, handle_pwm_edge
  <2>2. ASSUME pwm.last_rise # 0
        PROVE  \E rise \in rises : since_rise(now) = (clock - rise) % ClockMod
    <3>1. PICK rise \in rises : pwm.last_rise = rise % ClockMod
      BY <1>4, <2>2 DEF PwmInv
    <3>2. rise \in Nat
      BY <1>1
    <3>3. since_rise(now) = (clock - rise) % ClockMod
      BY <1>1, <3>1, <3>2, Difference DEF since_rise, now
    <3> QED  BY <3>1, <3>3
  <2>3. rises' \in SUBSET Nat /\ clock \in rises'
    BY <1>4, <2>1, RisesGrow
  <2>4. PwmInv'
    BY <1>1, <2>1, <2>3 DEF PwmInv, now
  <2> QED  BY <2>1, <2>2, <2>4 DEF FromRise
<1> QED  BY <1>2, <1>3, <1>4

LEMMA PwmStep ==
  ASSUME wired \in Wirings, PwmInv, [Station2Next]_station2Vars
  PROVE  /\ PwmInv'
         /\ pwm'.period # pwm.period => FromRise
<1>1. CASE Interrupt
  <2>1. PICK gpio \in (Buttons \cup Signals) \ served, events \in PinEvents :
          /\ PwmRises(gpio, events)
          /\ (analyzersKept /\ "fall" \in events) \/ Handle(gpio, events)
    BY <1>1, PinInterrupt
  <2>2. clock' = clock /\ clock \in Nat
    BY <1>1, PinInterrupt DEF PwmInv
  <2>3. CASE UNCHANGED pwm /\ (gpio # "PWM_PIN" \/ "fall" \in events)
    <3>1. rises' \in SUBSET Nat /\ rises \subseteq rises'
      BY <2>1, <2>3, RisesGrow
    <3> QED  BY <2>2, <2>3, <3>1, PwmUntouched
  <2>4. CASE Handle(gpio, events) /\ gpio = "PWM_PIN"
    <3>1. PwmEdge(events)
      BY <2>4 DEF Handle
    <3> QED  BY <2>1, <2>2, <2>4, <3>1, PwmEdgeStep
  <2>5. CASE Handle(gpio, events) /\ gpio = "PWM_BUTTON_PIN"
    <3>1. PressPwm
      BY <2>5 DEF Handle
    <3>2. pwm'.is_capturing # pwm.is_capturing
      BY <3>1 DEF PwmInv, PressPwm, start_capture, stop_capture
    <3>3. rises' = {}
      BY <2>1, <2>5, <3>2, RisesGrow
    <3> QED  BY <2>2, <3>1, <3>3, PwmPressed
  <2>6. CASE Handle(gpio, events) /\ gpio \notin {"PWM_PIN", "PWM_BUTTON_PIN"}
    BY <2>1, <2>3, <2>6 DEF Handle, PressAdc, PressProtocol, UartEdge, Buttons, Signals
  <2> QED  BY <2>1, <2>3, <2>4, <2>5, <2>6 DEF analyzersKept
<1>2. CASE ~Interrupt
  <2>1. UNCHANGED <<pwm, rises>> /\ clock' \in Nat
    <3>1. clock \in Nat
      BY DEF PwmInv
    <3>2. CASE Main
      BY <3>1, <3>2, MainStep DEF Looks, analyzersKept, Analyze, irqVars
    <3>3. CASE Station2Tick
      BY <3>1, <3>3, TickKeeps DEF analyzersKept
    <3>4. CASE DmaFill \/ DmaInterrupt \/ UNCHANGED station2Vars
      BY <3>1, <3>4 DEF DmaFill, DmaInterrupt, station2Vars, analyzers, irqVars
    <3> QED  BY <1>2, <3>2, <3>3, <3>4 DEF Station2Next
  <2>2. rises' \in SUBSET Nat
    BY <2>1 DEF PwmInv
  <2> QED  BY <2>1, <2>2, PwmUntouched
<1> QED  BY <1>1, <1>2

(* A period begins with a rising edge of the present capture and never spans a stop; *)
(* it begins with the signal's last rising edge when that was handled on its own     *)
(* (pwm.c:50-54, 101-106; station2.c:45-49).                                        *)
THEOREM PeriodHolds == Station2Spec => PeriodSpansNoStop
<1>1. Station2Init => PwmInv
  BY Station2Assumption DEF Station2Init, PwmInit, PwmInv
<1>2. wired \in Wirings /\ PwmInv /\ [Station2Next]_station2Vars => PwmInv'
  BY PwmStep
<1>3. wired \in Wirings /\ PwmInv /\ [Station2Next]_station2Vars =>
        [pwm'.period # pwm.period =>
           \E rise \in rises : pwm'.period = (clock - rise) % ClockMod]_station2Vars
  BY PwmStep DEF FromRise
<1> QED  BY <1>1, <1>2, <1>3, WiredInvariant, PTL DEF Station2Spec, PeriodSpansNoStop

-----------------------------------------------------------------------------
(* The protocol analyzer.                                                         *)

LEMMA ReadingEdge == ASSUME ReadingInv, UartEdge, UNCHANGED clock PROVE ReadingInv'
<1>1. now \in Int /\ clock \in Nat
  BY Constants DEF ReadingInv, now
<1>2. CASE UNCHANGED protocol
  BY <1>1, <1>2 DEF ReadingInv, ReadingMatchesBuffer
<1>3. CASE ~UNCHANGED protocol
  <2> DEFINE edges == Append(protocol.edges, now)
  <2>1. /\ edges \in Seq(Int) /\ Len(edges) = Len(protocol.edges) + 1
        /\ Len(protocol.edges) \in Nat
    BY <1>1 DEF ReadingInv
  <2>2. protocol' = IF Len(edges) >= MinEdges THEN Analyzed(edges)
                    ELSE [protocol EXCEPT !.edges = edges]
    BY <1>3 DEF UartEdge, handle_protocol_edge
  <2> HIDE DEF edges
  <2>3. CASE Len(edges) >= MinEdges
    <3> DEFINE raw == raw_baud(edges)
    <3> DEFINE valid == Accepted(raw, closest_baud(raw))
    <3>1. protocol' = [protocol EXCEPT !.edges = edges, !.is_valid = valid,
                         !.detected = IF valid THEN "UART" ELSE "UNKNOWN",
                         !.baud_rate = closest_baud(raw)]
      BY <2>2, <2>3 DEF Analyzed
    <3> HIDE DEF valid
    <3>2. /\ protocol'.edges = edges /\ protocol'.is_valid = valid
          /\ protocol'.detected = (IF valid THEN "UART" ELSE "UNKNOWN")
          /\ protocol'.baud_rate = closest_baud(raw)
          /\ protocol' = [is_capturing |-> protocol'.is_capturing, edges |-> protocol'.edges,
                 detected |-> protocol'.detected, is_valid |-> protocol'.is_valid,
                 baud_rate |-> protocol'.baud_rate]
      BY <3>1 DEF ReadingInv
    <3>3. ReadingMatchesBuffer'
      BY <2>3, <3>2 DEF ReadingMatchesBuffer, valid
    <3> QED  BY <1>1, <2>1, <3>2, <3>3 DEF ReadingInv
  <2>4. CASE ~(Len(edges) >= MinEdges)
    <3>1. /\ protocol'.edges = edges /\ protocol'.detected = protocol.detected
          /\ protocol' = [is_capturing |-> protocol'.is_capturing, edges |-> protocol'.edges,
                 detected |-> protocol'.detected, is_valid |-> protocol'.is_valid,
                 baud_rate |-> protocol'.baud_rate]
      BY <2>2, <2>4 DEF ReadingInv
    <3>2. protocol.detected # "UART"
      BY <2>1, <2>4, ProtocolAssumption DEF ReadingInv, ReadingMatchesBuffer
    <3> QED  BY <1>1, <2>1, <3>1, <3>2 DEF ReadingInv, ReadingMatchesBuffer
  <2> QED  BY <2>3, <2>4
<1> QED  BY <1>2, <1>3

LEMMA ReadingPressed == ASSUME ReadingInv, PressProtocol, UNCHANGED clock PROVE ReadingInv'
<1>1. CASE protocol.is_capturing
  BY <1>1 DEF PressProtocol, stop_protocol_capture, ReadingInv, ReadingMatchesBuffer
<1>2. CASE ~protocol.is_capturing
  <2>1. <<>> \in Seq(Int)
    OBVIOUS
  <2>2. /\ protocol'.edges = <<>> /\ protocol'.detected = "UNKNOWN"
        /\ protocol' = [is_capturing |-> protocol'.is_capturing, edges |-> protocol'.edges,
                 detected |-> protocol'.detected, is_valid |-> protocol'.is_valid,
                 baud_rate |-> protocol'.baud_rate]
    BY <1>2 DEF PressProtocol, start_protocol_capture, ReadingInv
  <2> QED  BY <2>1, <2>2 DEF ReadingInv, ReadingMatchesBuffer
<1> QED  BY <1>1, <1>2

LEMMA ReadingUntouched ==
  ASSUME ReadingInv, UNCHANGED protocol, clock' \in Nat PROVE ReadingInv'
  BY DEF ReadingInv, ReadingMatchesBuffer

LEMMA ReadingStep ==
  ASSUME wired \in Wirings, ReadingInv, [Station2Next]_station2Vars PROVE ReadingInv'
<1>1. CASE Interrupt
  <2>1. PICK gpio \in (Buttons \cup Signals) \ served, events \in PinEvents :
          analyzersKept \/ Handle(gpio, events)
    BY <1>1, PinInterrupt
  <2>2. clock' = clock /\ clock \in Nat
    BY <1>1, PinInterrupt DEF ReadingInv
  <2>3. CASE UNCHANGED protocol
    BY <2>2, <2>3, ReadingUntouched
  <2>4. CASE Handle(gpio, events) /\ gpio = "UART_RX_PIN"
    <3>1. UartEdge
      BY <2>4 DEF Handle
    <3> QED  BY <2>2, <3>1, ReadingEdge
  <2>5. CASE Handle(gpio, events) /\ gpio = "PROTOCOL_BUTTON_PIN"
    <3>1. PressProtocol
      BY <2>5 DEF Handle
    <3> QED  BY <2>2, <3>1, ReadingPressed
  <2>6. CASE Handle(gpio, events) /\ gpio \notin {"UART_RX_PIN", "PROTOCOL_BUTTON_PIN"}
    BY <2>3, <2>6 DEF Handle, PressPwm, PressAdc, PwmEdge, Buttons, Signals
  <2> QED  BY <2>1, <2>3, <2>4, <2>5, <2>6 DEF analyzersKept
<1>2. CASE ~Interrupt
  <2>1. protocol' = protocol /\ clock' \in Nat
    <3>1. clock \in Nat
      BY DEF ReadingInv
    <3>2. CASE Main
      BY <3>1, <3>2, MainStep DEF Looks, analyzersKept, Analyze
    <3>3. CASE Station2Tick
      BY <3>1, <3>3, TickKeeps DEF analyzersKept
    <3>4. CASE DmaFill \/ DmaInterrupt \/ UNCHANGED station2Vars
      BY <3>1, <3>4 DEF DmaFill, DmaInterrupt, station2Vars, analyzers
    <3> QED  BY <1>2, <3>2, <3>3, <3>4 DEF Station2Next
  <2> QED  BY <2>1, ReadingUntouched
<1> QED  BY <1>1, <1>2

(* A detected rate is what the edges in the buffer, all of the present capture,   *)
(* give, although a new capture resets neither is_valid nor the rate              *)
(* (protocol_analyzer.c:46-66, 128-132).                                          *)
THEOREM ReadingHolds == Station2Spec => []ReadingMatchesBuffer
<1>1. Station2Init => ReadingInv
  <2> SUFFICES ASSUME Station2Init PROVE ReadingInv
    OBVIOUS
  <2>1. protocol = [is_capturing |-> FALSE, edges |-> <<>>, detected |-> "UNKNOWN",
                    is_valid |-> FALSE, baud_rate |-> 0] /\ <<>> \in Seq(Int) /\ clock = BootTicks
    BY DEF Station2Init, ProtocolInit
  <2> QED  BY <2>1, Station2Assumption DEF ReadingInv, ReadingMatchesBuffer
<1>2. wired \in Wirings /\ ReadingInv /\ [Station2Next]_station2Vars => ReadingInv'
  BY ReadingStep
<1>3. ReadingInv => ReadingMatchesBuffer
  BY DEF ReadingInv
<1> QED  BY <1>1, <1>2, <1>3, WiredInvariant, PTL DEF Station2Spec
-----------------------------------------------------------------------------
(* Types.                                                                         *)

ProtocolType ==
  [is_capturing : BOOLEAN, edges : Seq(0 .. Modulus - 1), detected : {"UNKNOWN", "UART"},
   is_valid : BOOLEAN, baud_rate : StandardBauds \cup {0}]
DataType ==
  [pwm_frequency : Times, pwm_duty_cycle : DutyCycles, uart_baud_rate : StandardBauds \cup {0},
   device_halted : BOOLEAN]
Places ==
  {"pwm", "pwm_frequency", "pwm_duty", "adc", "adc_complete", "adc_analyze", "uart",
   "is_valid", "detected", "baud_rate", "update", "poll", "sleep"}

AnalyzerTypes == PwmTypeOK /\ protocol \in ProtocolType /\ Len(protocol.edges) <= MaxEdges
MainTypes ==
  /\ pc \in Places /\ local \in Times
  /\ dashboard_data \in DataType /\ current_data \in DataType /\ wake \in Nat
PinTypes ==
  /\ last_button_time \in Times /\ served \subseteq wired
  /\ clock \in Nat /\ rises \subseteq Nat /\ lastPress \in Nat

TypesInv == AnalyzerTypes /\ MainTypes /\ PinTypes

Less == OpToRel(<, Nat)

LEMMA LessIsWellFounded == IsWellFoundedOn(Less, Nat)
  BY NatLessThanWellFounded, Zenon DEF Less

LEMMA LessIs == ASSUME NEW x \in Nat, NEW y \in Nat, x < y PROVE <<x, y>> \in Less
  BY DEF Less, OpToRel

LEMMA MinIsMember == ASSUME NEW S \in SUBSET Nat, S # {} PROVE Min(S) \in S
<1>1. PICK x \in S : \A y \in S : ~(<<y, x>> \in Less)
  <2>1. S \subseteq Nat
    OBVIOUS
  <2> QED  BY <2>1, WFMin, LessIsWellFounded, Zenon
<1>2. ASSUME NEW y \in S PROVE x <= y
  <2>1. x \in Nat /\ y \in Nat /\ ~(<<y, x>> \in Less)
    BY <1>1
  <2>2. ~(y < x)
    BY <2>1, LessIs
  <2> QED  BY <2>1, <2>2
<1> QED  BY <1>2 DEF Min

(* The closest rate is one of the standard ones, also when none is near.          *)
LEMMA ClosestIsStandard == ASSUME NEW raw PROVE closest_baud(raw) \in StandardBauds
<1> DEFINE near == {b \in StandardBauds : Distance(raw, b) < b}
<1> DEFINE best == {b \in near : \A c \in near : Distance(raw, b) * c <= Distance(raw, c) * b}
<1>1. closest_baud(raw) = IF best = {} THEN Fallback ELSE Min(best)
  BY DEF closest_baud
<1>2. best \in SUBSET StandardBauds
  OBVIOUS
<1> HIDE DEF near, best
<1>3. best \in SUBSET Nat
  BY <1>2, ProtocolAssumption
<1>4. best # {} => Min(best) \in best
  BY <1>3, MinIsMember
<1> QED  BY <1>1, <1>2, <1>4, ProtocolAssumption

LEMMA NowType == ASSUME clock \in Nat PROVE now \in Times /\ now \in 0 .. Modulus - 1
  BY Constants DEF now, Times

LEMMA EdgeTypes ==
  ASSUME protocol \in ProtocolType, Len(protocol.edges) <= MaxEdges,
         UartEdge \/ PressProtocol, clock \in Nat
  PROVE  protocol' \in ProtocolType /\ Len(protocol'.edges) <= MaxEdges
<1>1. MaxEdges \in Nat /\ MaxEdges >= 0
  BY ProtocolAssumption
<1>2. now \in 0 .. Modulus - 1
  BY NowType
<1> DEFINE Readings == 0 .. Modulus - 1
<1>3. <<>> \in Seq(Readings) /\ Len(<<>>) = 0
  OBVIOUS
<1> DEFINE edges == Append(protocol.edges, now)
<1>4. edges \in Seq(Readings) /\ Len(edges) = Len(protocol.edges) + 1 /\ Len(protocol.edges) \in Nat
  BY <1>2 DEF ProtocolType
<1> HIDE DEF Readings, edges
<1>5. CASE protocol' = protocol
  BY <1>5
<1>6. CASE protocol' = [protocol EXCEPT !.is_capturing = TRUE, !.edges = <<>>, !.detected = "UNKNOWN"]
  BY <1>1, <1>3, <1>6 DEF ProtocolType, Readings
<1>7. CASE protocol' = [protocol EXCEPT !.is_capturing = FALSE]
  BY <1>7 DEF ProtocolType
<1>8. CASE protocol' = [protocol EXCEPT !.edges = edges] /\ Len(protocol.edges) < MaxEdges
  BY <1>1, <1>4, <1>8 DEF ProtocolType, Readings
<1>9. CASE protocol' = Analyzed(edges) /\ Len(protocol.edges) < MaxEdges
  <2> DEFINE rate == closest_baud(raw_baud(edges))
  <2> DEFINE valid == Accepted(raw_baud(edges), rate)
  <2>1. protocol' = [protocol EXCEPT !.edges = edges, !.is_valid = valid,
                       !.detected = IF valid THEN "UART" ELSE "UNKNOWN", !.baud_rate = rate]
    BY <1>9 DEF Analyzed
  <2>2. rate \in StandardBauds
    BY ClosestIsStandard
  <2>3. valid \in BOOLEAN
    BY DEF Accepted
  <2> DEFINE detected == IF valid THEN "UART" ELSE "UNKNOWN"
  <2>4. detected \in {"UNKNOWN", "UART"}
    OBVIOUS
  <2>5. protocol' = [is_capturing |-> protocol.is_capturing, edges |-> edges,
                     detected |-> detected, is_valid |-> valid, baud_rate |-> rate]
    BY <2>1 DEF ProtocolType
  <2> HIDE DEF rate, valid, detected
  <2> QED  BY <1>1, <1>4, <1>9, <2>2, <2>3, <2>4, <2>5 DEF ProtocolType, Readings
<1>10. CASE UartEdge /\ ~(Len(protocol.edges) >= MaxEdges)
  <2>1. \/ protocol' = protocol \/ protocol' = Analyzed(edges)
        \/ protocol' = [protocol EXCEPT !.edges = edges]
    BY <1>10 DEF UartEdge, handle_protocol_edge, edges
  <2> QED  BY <1>1, <1>4, <1>5, <1>8, <1>9, <1>10, <2>1
<1>11. CASE UartEdge /\ Len(protocol.edges) >= MaxEdges
  BY <1>5, <1>11 DEF UartEdge, handle_protocol_edge
<1>12. CASE PressProtocol
  BY <1>6, <1>7, <1>12 DEF PressProtocol, start_protocol_capture, stop_protocol_capture
<1> QED  BY <1>10, <1>11, <1>12

LEMMA PwmTypes ==
  ASSUME NEW events, PwmTypeOK, PwmEdge(events) \/ PressPwm, clock \in Nat PROVE PwmTypeOK'
<1> DEFINE since == since_rise(now)
<1>1. 0 \in Times /\ now \in Times /\ since \in Times
  BY Constants, NowType DEF Times, since_rise, PwmTypeOK
<1> HIDE DEF since
<1>2. CASE PressPwm
  BY <1>1, <1>2 DEF PressPwm, start_capture, stop_capture, PwmTypeOK
<1>3. CASE PwmEdge(events) /\ pwm' = pwm
  BY <1>3 DEF PwmTypeOK
<1>4. CASE PwmEdge(events) /\ pwm' # pwm /\ "rise" \in events
  <2>1. pwm' = [pwm EXCEPT !.period = IF pwm.last_rise # 0 THEN since ELSE @, !.last_rise = now]
    BY <1>4 DEF PwmEdge, handle_pwm_edge, since
  <2> QED  BY <1>1, <2>1 DEF PwmTypeOK
<1>5. CASE PwmEdge(events) /\ pwm' # pwm /\ "rise" \notin events
  <2>1. pwm' = [pwm EXCEPT !.duty_cycle = IF pwm.last_rise # 0 /\ pwm.period > 0
                                          THEN [high |-> since, of |-> pwm.period] ELSE @]
    BY <1>5 DEF PwmEdge, handle_pwm_edge, since
  <2> QED  BY <1>1, <2>1 DEF PwmTypeOK, DutyCycles
<1> QED  BY <1>2, <1>3, <1>4, <1>5

LEMMA InterruptTypes ==
  ASSUME wired \in Wirings, TypesInv, Interrupt PROVE TypesInv'
<1>1. UNCHANGED <<mainVars, wired, clock>>
  BY DEF Interrupt
<1>2. MainTypes'
  BY <1>1 DEF TypesInv, MainTypes, mainVars
<1>3. clock \in Nat /\ now \in Times
  BY NowType DEF TypesInv, PinTypes
<1>4. PICK gpio \in wired \ served, events \in PinEvents :
        /\ gpio_callback(gpio, events) /\ PwmRises(gpio, events)
        /\ served' = served \cup {gpio}
        /\ lastPress' = IF gpio \in Buttons THEN clock ELSE lastPress
  BY DEF Interrupt, PinEvents
<1>5. PinTypes'
  BY <1>1, <1>3, <1>4 DEF TypesInv, PinTypes, gpio_callback, PwmRises
<1>6. AnalyzerTypes'
  <2>1. gpio \in Buttons \cup Signals
    BY <1>4, Station2Assumption
  <2>2. CASE UNCHANGED <<pwm, protocol>>
    BY <2>2 DEF TypesInv, AnalyzerTypes, PwmTypeOK
  <2>3. CASE UNCHANGED protocol /\ (PwmEdge(events) \/ PressPwm)
    BY <1>3, <2>3, PwmTypes DEF TypesInv, AnalyzerTypes
  <2>4. CASE UNCHANGED pwm /\ (UartEdge \/ PressProtocol)
    <3>1. PwmTypeOK'
      BY <2>4 DEF TypesInv, AnalyzerTypes, PwmTypeOK
    <3> QED  BY <1>3, <2>4, <3>1, EdgeTypes DEF TypesInv, AnalyzerTypes
  <2>5. CASE Handle(gpio, events)
    <3>1. CASE gpio = "PWM_BUTTON_PIN"
      BY <2>3, <2>5, <3>1 DEF Handle, PressPwm
    <3>2. CASE gpio = "ADC_BUTTON_PIN"
      BY <2>2, <2>5, <3>2 DEF Handle, PressAdc
    <3>3. CASE gpio = "PROTOCOL_BUTTON_PIN"
      BY <2>4, <2>5, <3>3 DEF Handle, PressProtocol
    <3>4. CASE gpio = "PWM_PIN"
      BY <2>3, <2>5, <3>4 DEF Handle, PwmEdge
    <3>5. CASE gpio = "UART_RX_PIN"
      BY <2>4, <2>5, <3>5 DEF Handle, UartEdge
    <3> QED  BY <2>1, <3>1, <3>2, <3>3, <3>4, <3>5 DEF Buttons, Signals
  <2> QED  BY <1>4, <2>2, <2>5 DEF gpio_callback, analyzers
<1> QED  BY <1>2, <1>5, <1>6 DEF TypesInv

LEMMA MainStepTypes ==
  ASSUME TypesInv, Main PROVE TypesInv'
<1>1. AnalyzerTypes' /\ PinTypes'
  <2>1. UNCHANGED <<pwm, protocol, irqVars, wired, clock>>
    BY DEF Main, CheckPwm, ReadFrequency, PublishPwm, CheckAdc, CheckComplete, Analyze,
       CheckUart, ReadValid, ReadDetected, PublishBaud, update_dashboard_data,
       handle_dashboard_events, Wake, Others, analyzers
  <2> QED  BY <2>1 DEF TypesInv, AnalyzerTypes, PinTypes, PwmTypeOK, irqVars
<1>2. 0 \in Times /\ pwm.period \in Times /\ pwm.duty_cycle \in DutyCycles
      /\ protocol.baud_rate \in StandardBauds \cup {0} /\ clock + SleepTicks \in Nat
  BY Constants, Station2Assumption
  DEF TypesInv, AnalyzerTypes, PinTypes, PwmTypeOK, ProtocolType, Times
<1> USE DEF Goto, Locals, Data
<1>3. CASE CheckPwm \/ CheckAdc \/ CheckComplete \/ Analyze \/ CheckUart \/ ReadValid
             \/ ReadDetected \/ Wake
  <2>1. pc' \in Places /\ UNCHANGED <<Locals, Data>>
    BY <1>3 DEF CheckPwm, CheckAdc, CheckComplete, Analyze, CheckUart, ReadValid, ReadDetected,
       Wake, Places
  <2> QED  BY <1>1, <2>1 DEF TypesInv, MainTypes
<1>4. CASE ReadFrequency
  BY <1>1, <1>2, <1>4 DEF ReadFrequency, frequency, TypesInv, MainTypes, Places
<1>5. CASE PublishPwm
  BY <1>1, <1>2, <1>5 DEF PublishPwm, TypesInv, MainTypes, Places, DataType
<1>6. CASE PublishBaud
  BY <1>1, <1>2, <1>6 DEF PublishBaud, TypesInv, MainTypes, Places, DataType
<1>7. CASE update_dashboard_data
  BY <1>1, <1>7 DEF update_dashboard_data, TypesInv, MainTypes, Places
<1>8. CASE handle_dashboard_events
  BY <1>1, <1>2, <1>8 DEF handle_dashboard_events, TypesInv, MainTypes, Places, DataType
<1> QED  BY <1>3, <1>4, <1>5, <1>6, <1>7, <1>8 DEF Main

(* Every variable keeps its type: the published rate is always a standard one or 0, *)
(* and the edge buffer never overflows (protocol_analyzer.c:68-92).                 *)
THEOREM Station2TypeHolds == Station2Spec => []Station2TypeOK
<1>1. Station2Init => TypesInv
  <2> SUFFICES ASSUME Station2Init PROVE TypesInv
    OBVIOUS
  <2>1. 0 \in Times /\ NoDuty \in DutyCycles
    BY Constants DEF Times, NoDuty, DutyCycles
  <2>2. PwmTypeOK
    BY <2>1 DEF Station2Init, PwmInit, PwmTypeOK
  <2>3. protocol \in ProtocolType /\ Len(protocol.edges) <= MaxEdges
    <3> DEFINE Readings == 0 .. Modulus - 1
    <3>1. <<>> \in Seq(Readings) /\ Len(<<>>) = 0 /\ MaxEdges >= 0
      BY ProtocolAssumption
    <3> HIDE DEF Readings
    <3> QED  BY <3>1 DEF Station2Init, ProtocolInit, ProtocolType, Readings
  <2>4. MainTypes
    BY <2>1, Station2Assumption DEF Station2Init, MainTypes, NoData, DataType, Places
  <2>5. PinTypes
    BY <2>1, Station2Assumption DEF Station2Init, PinTypes
  <2> QED  BY <2>2, <2>3, <2>4, <2>5 DEF TypesInv, AnalyzerTypes
<1>2. wired \in Wirings /\ TypesInv /\ [Station2Next]_station2Vars => TypesInv'
  <2> SUFFICES ASSUME wired \in Wirings, TypesInv, [Station2Next]_station2Vars PROVE TypesInv'
    OBVIOUS
  <2>1. CASE Station2Tick
    <3>1. clock' \in Nat /\ served' = {}
          /\ UNCHANGED <<pwm, protocol, mainVars, last_button_time, rises, lastPress, wired>>
      BY <2>1 DEF Station2Tick, TypesInv, PinTypes, analyzers
    <3> QED
      BY <3>1 DEF TypesInv, AnalyzerTypes, MainTypes, PinTypes, PwmTypeOK, mainVars
  <2>2. CASE DmaFill \/ DmaInterrupt \/ UNCHANGED station2Vars
    <3>1. UNCHANGED <<pwm, protocol, mainVars, irqVars, wired, clock>>
      BY <2>2 DEF DmaFill, DmaInterrupt, station2Vars, analyzers
    <3> QED
      BY <3>1 DEF TypesInv, AnalyzerTypes, MainTypes, PinTypes, PwmTypeOK, mainVars, irqVars
  <2> QED  BY <2>1, <2>2, InterruptTypes, MainStepTypes DEF Station2Next
<1>3. wired \in Wirings /\ TypesInv /\ AdcInv => Station2TypeOK
  BY DEF TypesInv, AnalyzerTypes, MainTypes, PinTypes, AdcInv, Station2TypeOK, ProtocolTypeOK,
     ProtocolType, DataType, Places
<1> QED  BY <1>1, <1>2, <1>3, WiredInvariant, AdcInvariant, PTL DEF Station2Spec
=============================================================================
