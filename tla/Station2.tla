-------------------------------- MODULE Station2 --------------------------------
(* Station 2 (station2/station2.c): one GPIO interrupt handler for three buttons   *)
(* and two signals, the DMA interrupt, and the main loop that copies what the      *)
(* analyzers found to the dashboard once a second.  An interrupt handler runs to   *)
(* its end; the main loop is interrupted between any two of its reads.             *)
EXTENDS PwmAnalyzer, ProtocolAnalyzer, AdcAnalyzer

CONSTANTS
  Debounce,         \* 200 ms in ticks of the timer
  SleepTicks,       \* sleep_ms(1000)
  BootTicks,        \* the sleep of two seconds before the interrupts are enabled
  MaxClock,         \* bound on the ticks of a behaviour
  Wirings           \* the sets of pins on which something happens in a behaviour

VARIABLES
  last_button_time,
  pc, wake,         \* the step of the main loop, and when its sleep ends
  local,            \* what the main loop has read so far in this step
  dashboard_data, current_data,
  wired,            \* the wiring, fixed in a behaviour
  served,           \* the pins whose interrupt was handled in this tick
  clock,            \* ticks since power-on
  rises,            \* history: when PWM_PIN rose, in the present capture, the last time on its
                    \* own and since then
  lastPress         \* history: when any button was pressed last

analyzers == <<pwm, protocol, adcVars>>
mainVars == <<pc, wake, local, dashboard_data, current_data>>
irqVars == <<last_button_time, served, rises, lastPress>>
station2Vars == <<analyzers, mainVars, irqVars, wired, clock>>

Buttons == {"PWM_BUTTON_PIN", "ADC_BUTTON_PIN", "PROTOCOL_BUTTON_PIN"}
Signals == {"PWM_PIN", "UART_RX_PIN"}

ASSUME Station2Assumption ==
  /\ Modulus = ClockMod /\ Debounce \in 1 .. ClockMod - 1 /\ SleepTicks \in Nat \ {0}
  /\ BootTicks \in Nat /\ BootTicks >= Debounce /\ MaxClock \in Nat
  /\ Wirings \subseteq SUBSET (Buttons \cup Signals)

now == clock % ClockMod

NoData == [pwm_frequency |-> 0, pwm_duty_cycle |-> NoDuty, uart_baud_rate |-> 0,
           device_halted |-> FALSE]

Station2Init ==
  /\ PwmInit /\ ProtocolInit /\ AdcInit
  /\ last_button_time = 0
  /\ pc = "pwm" /\ wake = BootTicks /\ local = 0
  /\ dashboard_data = NoData /\ current_data = NoData
  /\ wired \in Wirings
  /\ served = {}
  /\ clock = BootTicks
  /\ rises = {} /\ lastPress = 0

-----------------------------------------------------------------------------
(* gpio_callback.  The debouncing is for the buttons, but every falling edge of    *)
(* every pin goes through it.                                                     *)

capturing(button) ==
  CASE button = "PWM_BUTTON_PIN" -> pwm.is_capturing
    [] button = "ADC_BUTTON_PIN" -> adc.capturing
    [] button = "PROTOCOL_BUTTON_PIN" -> protocol.is_capturing

since_button == (now - last_button_time) % ClockMod
dropped(events) == "fall" \in events /\ since_button < Debounce

PressPwm ==
  /\ IF pwm.is_capturing THEN stop_capture ELSE start_capture
  /\ UNCHANGED <<protocol, adcVars>>

PressAdc ==
  /\ IF adc.capturing THEN adc_stop_capture ELSE adc_start_capture
  /\ UNCHANGED <<pwm, protocol>>

PressProtocol ==
  /\ IF protocol.is_capturing THEN stop_protocol_capture ELSE start_protocol_capture
  /\ UNCHANGED <<pwm, adcVars>>

PwmEdge(events) ==
  /\ IF pwm.is_capturing THEN handle_pwm_edge(events, now) ELSE UNCHANGED pwm
  /\ UNCHANGED <<protocol, adcVars>>

UartEdge ==
  /\ IF protocol.is_capturing THEN handle_protocol_edge(now) ELSE UNCHANGED protocol
  /\ UNCHANGED <<pwm, adcVars>>

Handle(gpio, events) ==
  CASE gpio = "PWM_BUTTON_PIN" -> PressPwm
    [] gpio = "ADC_BUTTON_PIN" -> PressAdc
    [] gpio = "PROTOCOL_BUTTON_PIN" -> PressProtocol
    [] gpio = "PWM_PIN" -> PwmEdge(events)
    [] gpio = "UART_RX_PIN" -> UartEdge

gpio_callback(gpio, events) ==
  IF dropped(events) THEN UNCHANGED <<analyzers, last_button_time>>
  ELSE /\ Handle(gpio, events)
       /\ last_button_time' = IF "fall" \in events THEN now ELSE last_button_time

(* What happened at PWM_PIN, whether the handler takes notice or not.  An edge on   *)
(* its own, and the start of a capture, put an end to what was seen before.       *)
PwmRises(gpio, events) ==
  LET rose == gpio = "PWM_PIN" /\ "rise" \in events
      forgets == pwm'.is_capturing # pwm.is_capturing \/ (rose /\ "fall" \notin events)
  IN rises' = (IF forgets THEN {} ELSE rises) \cup (IF rose THEN {clock} ELSE {})

(* A button raises its falling edge only.  Both events of a signal may have been   *)
(* latched before the handler ran.                                               *)
Interrupt ==
  \E gpio \in wired \ served :
    \E events \in IF gpio \in Buttons THEN {{"fall"}} ELSE {{"rise"}, {"fall"}, {"rise", "fall"}} :
      /\ gpio_callback(gpio, events) /\ PwmRises(gpio, events)
      /\ served' = served \cup {gpio}
      /\ lastPress' = IF gpio \in Buttons THEN clock ELSE lastPress
      /\ UNCHANGED <<mainVars, wired, clock>>

DmaFill == DmaFills /\ UNCHANGED <<pwm, protocol, mainVars, irqVars, wired, clock>>
DmaInterrupt == dma_handler /\ UNCHANGED <<pwm, protocol, mainVars, irqVars, wired, clock>>

-----------------------------------------------------------------------------
(* The main loop, one action per shared read or write.                           *)

Others == <<analyzers, irqVars, wired, clock>>
Goto(next) == pc' = next
Locals == <<wake, local>>
Data == <<dashboard_data, current_data>>

CheckPwm ==
  /\ pc = "pwm"
  /\ Goto(IF pwm.is_capturing THEN "pwm_frequency" ELSE "adc")
  /\ UNCHANGED <<Locals, Data, Others>>

ReadFrequency ==
  /\ pc = "pwm_frequency"
  /\ local' = frequency
  /\ Goto("pwm_duty")
  /\ UNCHANGED <<wake, Data, Others>>

PublishPwm ==
  /\ pc = "pwm_duty"
  /\ dashboard_data' = [dashboard_data EXCEPT !.pwm_frequency = local,
                                              !.pwm_duty_cycle = pwm.duty_cycle]
  /\ local' = 0
  /\ Goto("adc")
  /\ UNCHANGED <<wake, current_data, Others>>

CheckAdc ==
  /\ pc = "adc"
  /\ Goto(IF adc.capturing THEN "adc_complete" ELSE "uart")
  /\ UNCHANGED <<Locals, Data, Others>>

CheckComplete ==
  /\ pc = "adc_complete"
  /\ Goto(IF adc.transfer_complete THEN "adc_analyze" ELSE "uart")
  /\ UNCHANGED <<Locals, Data, Others>>

Analyze ==
  /\ pc = "adc_analyze"
  /\ clear_transfer_complete
  /\ Goto("uart")
  /\ UNCHANGED <<pwm, protocol, Locals, Data, irqVars, wired, clock>>

CheckUart ==
  /\ pc = "uart"
  /\ Goto(IF protocol.is_capturing THEN "is_valid" ELSE "update")
  /\ UNCHANGED <<Locals, Data, Others>>

ReadValid ==
  /\ pc = "is_valid"
  /\ Goto(IF protocol.is_valid THEN "detected" ELSE "update")
  /\ UNCHANGED <<Locals, Data, Others>>

ReadDetected ==
  /\ pc = "detected"
  /\ Goto(IF protocol.detected = "UART" THEN "baud_rate" ELSE "update")
  /\ UNCHANGED <<Locals, Data, Others>>

PublishBaud ==
  /\ pc = "baud_rate"
  /\ dashboard_data' = [dashboard_data EXCEPT !.uart_baud_rate = protocol.baud_rate]
  /\ Goto("update")
  /\ UNCHANGED <<Locals, current_data, Others>>

update_dashboard_data ==
  /\ pc = "update"
  /\ current_data' = dashboard_data
  /\ Goto("poll")
  /\ UNCHANGED <<Locals, dashboard_data, Others>>

(* lwIP runs only here: a page request may carry a command.                       *)
handle_dashboard_events ==
  /\ pc = "poll"
  /\ \E halted \in BOOLEAN :
       dashboard_data' = [dashboard_data EXCEPT !.device_halted = halted]
  /\ wake' = clock + SleepTicks
  /\ Goto("sleep")
  /\ UNCHANGED <<local, current_data, Others>>

Wake ==
  /\ pc = "sleep" /\ clock = wake
  /\ Goto("pwm")
  /\ UNCHANGED <<Locals, Data, Others>>

Main ==
  \/ CheckPwm \/ ReadFrequency \/ PublishPwm
  \/ CheckAdc \/ CheckComplete \/ Analyze
  \/ CheckUart \/ ReadValid \/ ReadDetected \/ PublishBaud
  \/ update_dashboard_data \/ handle_dashboard_events \/ Wake

(* A round of the loop takes less than a tick; the DMA handler is never kept       *)
(* waiting by the main loop.                                                     *)
Station2Tick ==
  /\ pc = "sleep" /\ clock < wake /\ clock < MaxClock
  /\ clock' = clock + 1
  /\ served' = {}
  /\ UNCHANGED <<analyzers, mainVars, last_button_time, rises, lastPress, wired>>

Station2Next ==
  \/ Interrupt \/ DmaFill \/ DmaInterrupt
  \/ ~dma_irq /\ (Main \/ Station2Tick)

Station2Spec == Station2Init /\ [][Station2Next]_station2Vars
-----------------------------------------------------------------------------
(* Properties.                                                                 *)

(* Every variable keeps its type: the analyzers', and those of the main loop.     *)
Station2TypeOK ==
  /\ PwmTypeOK /\ ProtocolTypeOK /\ AdcTypeOK
  /\ last_button_time \in Times /\ local \in Times
  /\ pc \in {"pwm", "pwm_frequency", "pwm_duty", "adc", "adc_complete", "adc_analyze", "uart",
             "is_valid", "detected", "baud_rate", "update", "poll", "sleep"}
  /\ \A data \in {dashboard_data, current_data} :
       /\ data.pwm_frequency \in Times /\ data.pwm_duty_cycle \in DutyCycles
       /\ data.uart_baud_rate \in StandardBauds \cup {0} /\ data.device_halted \in BOOLEAN
  /\ wired \in Wirings /\ served \subseteq wired
  /\ clock \in Nat /\ wake \in Nat /\ rises \subseteq Nat /\ lastPress \in Nat

(* A period begins with a rising edge of the present capture and never spans the    *)
(* time in which the capture was stopped (pwm.c:50-54, 101-106).  It begins with the *)
(* signal's last rising edge when that was handled on its own; an edge that shares   *)
(* its interrupt with a falling one may be discarded by the debouncing               *)
(* (station2.c:45-49), and then a period spans several cycles.                      *)
PeriodSpansNoStop ==
  [][pwm'.period # pwm.period =>
       \E rise \in rises : pwm'.period = (clock - rise) % ClockMod]_station2Vars

(* A detected rate is what the edges in the buffer, all of the present capture,   *)
(* give, although a new capture resets neither is_valid nor the rate              *)
(* (protocol_analyzer.c:46-66, 128-132).                                          *)
ReadingMatchesBuffer ==
  LET raw == raw_baud(protocol.edges) IN
  protocol.detected = "UART" =>
    /\ Len(protocol.edges) >= MinEdges /\ protocol.is_valid
    /\ protocol.baud_rate = closest_baud(raw) /\ Accepted(raw, closest_baud(raw))

(* The ADC and its DMA channel run just while a capture does, whichever of the     *)
(* button, the end of a buffer and the abort comes first (adc.c:31-58, 125-135).  *)
AdcFollowsCapture ==
  /\ adc_runs <=> adc.capturing
  /\ dma = "busy" => adc.capturing
  /\ adc.capturing => dma = "busy" \/ dma_irq

(* The main loop analyzes a buffer that was filled since it looked last, unless    *)
(* the capture was stopped between its two checks (station2.c:150-152).           *)
AnalyzesFullBuffer ==
  pc = "adc_analyze" /\ adc.capturing => full

(* What the menu promises ("Press respective buttons to start/stop capture",       *)
(* station2.c:22) and the debouncing is meant to do ("ignore events too close      *)
(* together", station2.c:46): a press that comes long enough after any other press *)
(* starts or stops its capture.  Falling edges of the signals start the debouncing *)
(* as well, and it does not.                                                      *)
ButtonsWork ==
  [][\A b \in Buttons :
       b \in served' \ served /\ clock - lastPress >= Debounce
         => capturing(b)' # capturing(b)]_station2Vars
=============================================================================
