-------------------------------- MODULE Station1 --------------------------------
(* Station 1 as a whole (src/main.c): the boot, and the main loop that polls for  *)
(* single-key commands and saves a capture once it is complete, while the GPIO    *)
(* interrupt of PulseCapture runs between any two of its steps.  The replay only   *)
(* takes time here: its timing is PulseReplay's.                                  *)
EXTENDS PulseCapture, PulseStore

VARIABLES
  pc,               \* where main is
  capture_handled

fileVars == <<regime, file, saving, row, timestamp, loaded, saved>>
history == <<cap, captures, crashes>>
station1Vars == <<captureVars, fileVars, history, seconds, pc, capture_handled>>

Station1Init ==
  /\ CaptureInit
  /\ StoreInit
  /\ pc = "boot"
  /\ capture_handled = TRUE

-----------------------------------------------------------------------------
(* Boot: a failing step halts the program for good.                            *)

Boot ==
  \/ /\ pc = "boot"                     \* ntp_init
     /\ pc' \in {"mount", "halt"}
     /\ UNCHANGED <<captureVars, fileVars, history, seconds, capture_handled>>
  \/ /\ pc = "mount"                    \* initialiseSD, digital_init
     /\ pc' \in {"poll", "halt"}
     /\ UNCHANGED <<captureVars, fileVars, history, seconds, capture_handled>>

-----------------------------------------------------------------------------
(* The main loop: a key or none, then the check for a completed capture.        *)

KeyIgnored ==
  /\ pc = "poll"
  /\ pc' = "check"
  /\ UNCHANGED <<captureVars, fileVars, history, seconds, capture_handled>>

KeyExit ==
  /\ pc = "poll"
  /\ pc' = "exit"
  /\ UNCHANGED <<captureVars, fileVars, history, seconds, capture_handled>>

KeyCapture ==
  /\ pc = "poll"
  /\ captures < MaxCaptures
  /\ StartMemset
  /\ captures' = captures + 1 /\ cap' = captures'
  /\ pc' = "start"
  /\ UNCHANGED <<fileVars, crashes, seconds, capture_handled>>

start_returns_early == capturing'
start_returns == todo' = {}

StartStep ==
  /\ pc = "start"
  /\ \E f \in Fields : Store(f)
  /\ IF start_returns
     THEN capture_handled' = FALSE /\ pc' = "check"
     ELSE UNCHANGED <<capture_handled, pc>>
  /\ UNCHANGED <<fileVars, history, seconds>>

capturing_kept == capturing
capturing_reset == FALSE

KeyReplay ==
  /\ pc = "poll"
  /\ LoadWith(time_us_32)
  /\ capturing' = capturing_reset /\ expecting_high' = FALSE /\ start_time' = time_us_32
  /\ pc' = IF transitions' # <<>> THEN "replay" ELSE "check"
  /\ UNCHANGED <<order, todo, input, clock, capture_handled>>

ReplayDone ==
  /\ pc = "replay"
  /\ pc' = "check"
  /\ UNCHANGED <<captureVars, fileVars, history, seconds, capture_handled>>

handled_kept == capture_handled
handled_set == TRUE

must_save_past_full == ~capture_handled /\ ~capturing /\ Len(transitions) > MaxTransitions
must_save == ~capture_handled /\ is_capture_complete

Check ==
  /\ pc = "check"
  /\ IF must_save
     THEN /\ SaveBegin
          /\ pc' = "save"
     ELSE /\ pc' = "poll"
          /\ UNCHANGED <<fileVars, history, seconds>>
  /\ UNCHANGED <<captureVars, capture_handled>>

SaveStep ==
  /\ pc = "save"
  /\ SaveHeader \/ SaveRow
  /\ IF saving' = "no"
     THEN pc' = "poll" /\ capture_handled' = handled_set
     ELSE UNCHANGED <<pc, capture_handled>>
  /\ UNCHANGED captureVars

Main == \/ Boot \/ KeyIgnored \/ KeyExit \/ KeyCapture \/ StartStep \/ KeyReplay
        \/ ReplayDone \/ Check \/ SaveStep

-----------------------------------------------------------------------------
(* What happens to it: edges and their interrupt, the clock, loss of power.     *)

Interrupt ==
  /\ pc \notin {"boot", "mount", "halt"}
  /\ gpio_callback
  /\ UNCHANGED <<fileVars, history, seconds, pc, capture_handled>>

World ==
  \/ /\ Edge \/ Tick
     /\ UNCHANGED <<fileVars, history, seconds, pc, capture_handled>>
  \/ /\ Second
     /\ UNCHANGED <<captureVars, pc, capture_handled>>

PowerCut ==
  /\ Crash
  /\ capturing' = FALSE /\ start_time' = 0 /\ expecting_high' = FALSE
  /\ todo' = {} /\ pending' = {}
  /\ pc' = "boot"
  /\ capture_handled' = TRUE
  /\ UNCHANGED <<order, level, clock>>

Station1Next == Main \/ Interrupt \/ World \/ PowerCut

Station1Spec == Station1Init /\ [][Station1Next]_station1Vars

(* The main thread goes on between interrupts.                                  *)
Station1FairSpec == Station1Spec /\ WF_station1Vars(Main)

-----------------------------------------------------------------------------
(* Properties.                                                                 *)

(* Every variable keeps its type, and the steps of a save and of a start are     *)
(* taken only where main is in one.                                              *)
Station1TypeOK ==
  /\ CaptureTypeOK
  /\ pc \in {"boot", "mount", "poll", "start", "check", "save", "replay", "exit", "halt"}
  /\ capture_handled \in BOOLEAN
  /\ pc = "save" <=> saving # "no"
  /\ pc = "start" <=> todo # {}

(* The interrupt stays enabled while a capture is saved or replayed, and never   *)
(* changes it there: the rows of one save, and the gaps of one replay, come from  *)
(* one and the same record (digital.c:31, 108, 174).                             *)
RecordStableInUse ==
  [][(pc \in {"save", "replay"} /\ crashes' = crashes) => UNCHANGED transitions]_station1Vars

(* A capture is saved at most once (main.c:57, 61).                              *)
SavedOnce ==
  \A i, j \in 1 .. Len(saved) : saved[i] = saved[j] /\ saved[i] # 0 => i = j

(* A completed capture does not stay unhandled: unless a key replaces it, ends    *)
(* the program, or power fails, it is saved (main.c:57).                          *)
CompleteIsHandled ==
  is_capture_complete /\ ~capture_handled
    ~> capture_handled \/ ~is_capture_complete \/ pc = "exit"

(* What the flag says of itself: it tracks "if we've handled capture completion"  *)
(* (main.c:14), and the save is for a completed capture ("If capture is complete  *)
(* and we haven't handled it yet", main.c:56): what is saved was captured.  A     *)
(* replay key during a capture fills the record from the file, and it is saved    *)
(* as a new capture.                                                             *)
SavesOnlyCaptures == \A i \in 1 .. Len(saved) : saved[i] # 0
=============================================================================
