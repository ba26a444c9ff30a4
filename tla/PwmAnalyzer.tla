------------------------------ MODULE PwmAnalyzer ------------------------------
(* The PWM analyzer of station 2 (station2/buddy2/pwm.c).  Edges come from the    *)
(* GPIO interrupt; the main loop copies the metrics out field by field, with the  *)
(* interrupt enabled.  A frequency stands for the period it is computed from,     *)
(* a duty cycle for its high time and period; last_fall is never read: left out.  *)
EXTENDS Integers

CONSTANT ClockMod   \* time_us_32() counts modulo this

VARIABLE pwm        \* pwm_metrics

Times == 0 .. ClockMod - 1
NoDuty == [high |-> 0, of |-> 0]
DutyCycles == [high : Times, of : Times]

PwmInit == pwm = [is_capturing |-> FALSE, last_rise |-> 0, period |-> 0, duty_cycle |-> NoDuty]

PwmTypeOK ==
  pwm \in [is_capturing : BOOLEAN, last_rise : Times, period : Times, duty_cycle : DutyCycles]

frequency == pwm.period

since_rise_signed(now) == now - pwm.last_rise
since_rise(now) == (now - pwm.last_rise) % ClockMod

(* A call with both events is a rising edge.                                     *)
handle_pwm_edge(events, now) ==
  pwm' =
    IF "rise" \in events
    THEN [pwm EXCEPT !.period = IF pwm.last_rise # 0 THEN since_rise(now) ELSE @,
                     !.last_rise = now]
    ELSE [pwm EXCEPT !.duty_cycle =
            IF pwm.last_rise # 0 /\ pwm.period > 0
            THEN [high |-> since_rise(now), of |-> pwm.period] ELSE @]

start_capture_as_it_was == pwm' = [pwm EXCEPT !.is_capturing = TRUE]
start_capture == pwm' = [pwm EXCEPT !.is_capturing = TRUE, !.last_rise = 0]

stop_capture == pwm' = [pwm EXCEPT !.is_capturing = FALSE]
=============================================================================
