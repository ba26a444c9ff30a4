------------------------------- MODULE MCStation2 -------------------------------
(* Instances of Station2 for TLC.                                                *)
EXTENDS Station2

MCBauds == {1, 3}
MCTolerance == [b \in MCBauds |-> IF b = 1 THEN 5 ELSE 10]

MCWirings ==
  {{"PWM_PIN", "PWM_BUTTON_PIN"},
   {"UART_RX_PIN", "PROTOCOL_BUTTON_PIN"},
   {"ADC_BUTTON_PIN", "PROTOCOL_BUTTON_PIN", "PWM_BUTTON_PIN"},
   {"ADC_BUTTON_PIN", "UART_RX_PIN", "PROTOCOL_BUTTON_PIN"}}
=============================================================================
