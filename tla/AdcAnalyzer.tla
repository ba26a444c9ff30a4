------------------------------ MODULE AdcAnalyzer ------------------------------
(* The ADC analyzer of station 2 (station2/buddy2/adc.c): a DMA channel fills the  *)
(* capture buffer over and over, each full buffer raises an interrupt whose        *)
(* handler starts the next fill at once, over the samples the main loop is going   *)
(* to analyze.  The samples and the frequency computed from them are left out.     *)

VARIABLES
  adc,              \* adc_config: capturing, transfer_complete, continuous_mode
  dma,              \* the channel: "idle" or "busy"; it fills while the ADC runs
  adc_runs,         \* what adc_run was told last
  dma_irq,          \* DMA_IRQ_0 is pending
  full              \* history: the buffer was filled since the start, or the last look

adcVars == <<adc, dma, adc_runs, dma_irq, full>>

AdcInit ==
  /\ adc = [capturing |-> FALSE, transfer_complete |-> FALSE, continuous_mode |-> FALSE]
  /\ dma = "idle" /\ adc_runs = FALSE /\ dma_irq = FALSE /\ full = FALSE

AdcTypeOK ==
  /\ adc \in [capturing : BOOLEAN, transfer_complete : BOOLEAN, continuous_mode : BOOLEAN]
  /\ dma \in {"idle", "busy"}
  /\ adc_runs \in BOOLEAN /\ dma_irq \in BOOLEAN /\ full \in BOOLEAN

(* The hardware: the last sample of a buffer arrives.                            *)
DmaFills ==
  /\ dma = "busy" /\ adc_runs
  /\ dma' = "idle" /\ dma_irq' = TRUE /\ full' = TRUE
  /\ UNCHANGED <<adc, adc_runs>>

dma_handler ==
  /\ dma_irq
  /\ dma_irq' = FALSE
  /\ IF adc.continuous_mode
     THEN /\ adc' = [adc EXCEPT !.transfer_complete = TRUE]
          /\ dma' = "busy"
          /\ UNCHANGED adc_runs
     ELSE /\ adc' = [adc EXCEPT !.transfer_complete = TRUE, !.capturing = FALSE]
          /\ adc_runs' = FALSE
          /\ UNCHANGED dma
  /\ UNCHANGED full

started_still_complete == [adc EXCEPT !.capturing = TRUE, !.continuous_mode = TRUE]
started == [capturing |-> TRUE, transfer_complete |-> FALSE, continuous_mode |-> TRUE]

adc_start_capture ==
  /\ adc' = started
  /\ dma' = "busy"
  /\ adc_runs' = TRUE
  /\ full' = FALSE
  /\ UNCHANGED dma_irq

(* The channel may come to its end while it is being aborted.                     *)
stopped_but_continuous == [adc EXCEPT !.capturing = FALSE, !.transfer_complete = TRUE]
stopped == [capturing |-> FALSE, transfer_complete |-> TRUE, continuous_mode |-> FALSE]

adc_stop_capture ==
  /\ adc' = stopped
  /\ adc_runs' = FALSE
  /\ dma' = "idle"
  /\ \/ UNCHANGED dma_irq
     \/ dma = "busy" /\ dma_irq' = TRUE
  /\ UNCHANGED full

clear_transfer_complete ==
  /\ adc' = [adc EXCEPT !.transfer_complete = FALSE]
  /\ full' = FALSE
  /\ UNCHANGED <<dma, adc_runs, dma_irq>>
=============================================================================
