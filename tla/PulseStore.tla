------------------------------- MODULE PulseStore -------------------------------
(* Saving a capture to the SD card and loading it back: save_pulses_to_file and   *)
(* load_pulses_from_file (src/buddy2/digital.c) on writeDataToSD                  *)
(* (src/buddy1/sd_card.c).  The file is a sequence of lines.  Every line is       *)
(* written with an open, a write and a close of its own, and the results are      *)
(* ignored: saving is one step per line, and each step may fail or be cut short   *)
(* by a loss of power.  FatFs is modelled from these calls: a line is written     *)
(* whole or not at all.                                                           *)
EXTENDS PulseRecord, SequencesExt

CONSTANTS
  NoFile,           \* `file` when the card has no such file
  Regimes,          \* what the surroundings may do, see regime
  MaxCaptures, MaxSeconds       \* bounds of a behaviour

ASSUME StoreAssumption ==
  /\ MaxCaptures \in Nat /\ MaxSeconds \in Nat
  /\ Regimes \subseteq [faults : SUBSET {"open", "write", "read"},
                        crashes : Nat, gap : Nat, drift : Nat]

(* The lines of the file.                                                         *)
RowLine == [kind : {"row"}, ts : Nat, num : 1 .. MaxTransitions, state : BOOLEAN,
            time : Clocks, cap : Nat]
Line == [kind : {"header", "garbled"}] \cup RowLine

ASSUME NoFileAssumption == NoFile \notin Seq(Line)

(* A regime fixes, for a behaviour, the FatFs calls that may fail, how often power *)
(* may, the seconds that pass at least from a save to the next capture, and the    *)
(* seconds the clock may step back when it is set anew.                            *)
VARIABLES
  regime,
  cap,              \* history: the number of the record in memory, 0 if it was loaded
  file,             \* the lines of PULSE_FILE, or NoFile
  saving,           \* where save_pulses_to_file is: "no", "header" or "rows"
  row, timestamp,   \* its loop index i + 1, and its timestamp
  seconds,          \* what get_timestamp() returns
  loaded,           \* history: the rows the last load kept
  saved,            \* history: the captures whose save has returned
  captures, crashes \* how many there have been

storeVars == <<regime, transitions, cap, file, saving, row, timestamp, seconds, loaded, saved,
               captures, crashes>>
saveVars == <<regime, saving, row, timestamp>>

-----------------------------------------------------------------------------
(* The file system, as writeDataToSD uses it.                                  *)

Header == [kind |-> "header"]
Garbled == [kind |-> "garbled"]
Row(i) == [kind |-> "row", ts |-> timestamp, num |-> i, state |-> transitions[i].state,
           time |-> transitions[i].time, cap |-> cap]

MayFail(call) == call \in regime.faults
Lines(f) == IF f = NoFile THEN <<>> ELSE f

(* A header is longer than one row and shorter than two: written over the start  *)
(* of a file that could not be truncated it leaves the rest of the second line.  *)
OverwriteHead(lines) ==
  IF lines # <<>> /\ lines[1] = Header
  THEN lines
  ELSE <<Header>> \o (IF Len(lines) > 1 THEN <<Garbled>> ELSE <<>>)
                  \o SubSeq(lines, 3, Len(lines))

(* What the first open of a non-append write leaves: the file truncated, or, when *)
(* that open fails, as it was.                                                    *)
Truncations == {<<>>} \cup (IF MayFail("open") THEN {file} ELSE {})

WriteOutcomes(line, append) ==
  UNION {{IF append THEN Append(Lines(base), line) ELSE OverwriteHead(Lines(base))}
           \cup (IF MayFail("open") THEN {base} ELSE {})
           \cup (IF MayFail("write") THEN {Lines(base)} ELSE {})
         : base \in IF append THEN {file} ELSE Truncations}

OpenOutcomes == {file # NoFile} \cup (IF MayFail("open") THEN {FALSE} ELSE {})
ReadOutcomes == IF MayFail("read") THEN Prefixes(file) ELSE {file}

-----------------------------------------------------------------------------
(* save_pulses_to_file: what is written at all depends on whether the file could *)
(* be opened for reading just before.                                            *)

SaveBegin ==
  /\ saving = "no"
  /\ transitions # <<>>
  /\ timestamp' = seconds
  /\ row' = 1
  /\ \E opened \in OpenOutcomes : saving' = IF opened THEN "rows" ELSE "header"
  /\ UNCHANGED <<regime, transitions, cap, file, seconds, loaded, saved, captures, crashes>>

SaveHeader ==
  /\ saving = "header"
  /\ file' \in WriteOutcomes(Header, FALSE)
  /\ saving' = "rows"
  /\ UNCHANGED <<regime, transitions, cap, row, timestamp, seconds, loaded, saved, captures, crashes>>

RowsTruncate == FALSE
RowsAppend == TRUE

MoreRowsButLast == row < Len(transitions) - 1
MoreRows == row < Len(transitions)

SaveRow ==
  /\ saving = "rows"
  /\ file' \in WriteOutcomes(Row(row), RowsAppend)
  /\ IF MoreRows
     THEN row' = row + 1 /\ UNCHANGED <<saving, saved>>
     ELSE row' = 0 /\ saving' = "no" /\ saved' = Append(saved, cap)
  /\ UNCHANGED <<regime, transitions, cap, timestamp, seconds, loaded, captures, crashes>>

-----------------------------------------------------------------------------
(* load_pulses_from_file.  While it runs the capture is not capturing, so no     *)
(* interrupt interferes with it, and it is one step.  Its loop over the lines is  *)
(* the recursive function acc.                                                    *)

NeverStartsAnew(line, acc) == FALSE
StartsAnew(line, acc) == line.ts > acc.last

TakesAnyTimestamp(line, acc) == line.kind = "row"
Counts(line, acc) == line.kind = "row" /\ line.ts >= acc.last

HasRoomForOneMore(rows) == Len(rows) <= MaxTransitions
HasRoom(rows) == Len(rows) < MaxTransitions

KeepLine(acc, line) ==
  IF Counts(line, acc)
  THEN LET kept == IF StartsAnew(line, acc) THEN <<>> ELSE acc.rows
       IN  [last |-> line.ts, rows |-> IF HasRoom(kept) THEN Append(kept, line) ELSE kept]
  ELSE acc

BodyFromThirdLine(lines) == SubSeq(lines, 3, Len(lines))
Body(lines) == SubSeq(lines, 2, Len(lines))
Pass(body) ==
  LET acc[n \in 0 .. Len(body)] ==
        IF n = 0 THEN [last |-> 0, rows |-> <<>>] ELSE KeepLine(acc[n - 1], body[n])
  IN  acc[Len(body)]
RowsOf(lines) == Pass(Body(lines)).rows

Rebased(r, start) == (start + r.time) % ClockMod

LoadWith(start) ==
  /\ saving = "no"
  /\ \E opened \in OpenOutcomes :
       IF opened THEN \E lines \in ReadOutcomes : loaded' = RowsOf(lines)
                 ELSE loaded' = <<>>
  /\ transitions' = [i \in 1 .. Len(loaded') |->
                       [time |-> Rebased(loaded'[i], start), state |-> loaded'[i].state, at |-> 0]]
  /\ cap' = 0
  /\ UNCHANGED <<file, saveVars, seconds, saved, captures, crashes>>

-----------------------------------------------------------------------------
(* The surroundings: a complete capture appears in memory, time passes, power   *)
(* fails.                                                                        *)

Capture(times) ==
  /\ saving = "no"
  /\ captures < MaxCaptures
  /\ regime.gap > 0 /\ captures > 0 => seconds >= timestamp + regime.gap
  /\ transitions' = [i \in 1 .. MaxTransitions |-> [time |-> times[i], state |-> i % 2 = 1, at |-> 0]]
  /\ captures' = captures + 1
  /\ cap' = captures'
  /\ UNCHANGED <<file, saveVars, seconds, loaded, saved, crashes>>

Second ==
  /\ seconds < MaxSeconds
  /\ seconds' = seconds + 1
  /\ UNCHANGED <<transitions, cap, file, saveVars, loaded, saved, captures, crashes>>

(* A power cut.  Within a write that truncates or creates the file it may leave   *)
(* an empty one.  The next boot sets the clock from SNTP, and may set it back if  *)
(* it ran fast.                                                                  *)
Crash ==
  /\ crashes < regime.crashes
  /\ crashes' = crashes + 1
  /\ file' \in IF saving = "header" \/ (saving = "rows" /\ file = NoFile) THEN {file, <<>>} ELSE {file}
  /\ transitions' = <<>> /\ cap' = 0 /\ loaded' = <<>>
  /\ saving' = "no" /\ row' = 0
  /\ seconds' \in {s \in 1 .. seconds : s + regime.drift >= seconds}
  /\ UNCHANGED <<regime, timestamp, saved, captures>>

StoreInit ==
  /\ regime \in Regimes
  /\ transitions = <<>> /\ cap = 0 /\ loaded = <<>>
  /\ file = NoFile
  /\ saving = "no" /\ row = 0 /\ timestamp = 0
  /\ seconds = 1
  /\ saved = <<>> /\ captures = 0 /\ crashes = 0

Times == [1 .. MaxTransitions -> Clocks]

(* Main saves a capture once; here: before it loads or captures again.          *)
SaveCapture == cap # 0 /\ ~Contains(saved, cap) /\ SaveBegin

StoreNext ==
  \/ \E times \in Times : Capture(times)
  \/ SaveCapture \/ SaveHeader \/ SaveRow
  \/ \E start \in Clocks : LoadWith(start)
  \/ Second \/ Crash

StoreSpec == StoreInit /\ [][StoreNext]_storeVars

-----------------------------------------------------------------------------
(* Properties.                                                                 *)

(* Every variable keeps its type: a load never fills more than the array          *)
(* (digital.c:231), whatever the file holds.                                      *)
StoreTypeOK ==
  /\ RecordTypeOK
  /\ regime \in Regimes
  /\ file \in Seq(Line) \cup {NoFile}
  /\ saving \in {"no", "header", "rows"}
  /\ row \in 0 .. MaxTransitions
  /\ seconds \in Nat \ {0} /\ timestamp \in Nat
  /\ loaded \in Seq(RowLine) /\ saved \in Seq(Nat)
  /\ cap \in Nat /\ captures \in Nat /\ crashes \in Nat

(* `kept` is, in the order of the body, the rows of its latest timestamp, as far  *)
(* as they fit: what the one pass of load_pulses_from_file is meant to find.       *)
IsLatest(kept, body) ==
  LET rows == {p \in 1 .. Len(body) : body[p].kind = "row"}
      latest == {p \in rows : \A q \in rows : body[q].ts <= body[p].ts}
  IN  \E at \in [1 .. Len(kept) -> latest] :
        /\ \A i, j \in 1 .. Len(kept) : i < j => at[i] < at[j]
        /\ \A i \in 1 .. Len(kept) : kept[i] = body[at[i]]
        /\ \A p \in latest :
             \/ \E i \in 1 .. Len(kept) : at[i] = p
             \/ Len(kept) = MaxTransitions /\ \A i \in 1 .. Len(kept) : at[i] < p

(* Whatever faults left in the file, the pass finds exactly those rows            *)
(* (digital.c:223).                                                               *)
LoadFindsLatest == file # NoFile => IsLatest(RowsOf(file), Body(file))

(* When captures are at least a second apart, what is loaded comes from one      *)
(* capture, in its order, whichever calls failed and wherever power was lost.     *)
LoadedFromOneCapture ==
  regime.gap > 0 =>
    \A i, j \in 1 .. Len(loaded) :
      i < j => loaded[i].cap = loaded[j].cap /\ loaded[i].num < loaded[j].num

(* When no call fails and the file has its header, power cuts only shorten what   *)
(* is loaded: it is a beginning of a capture, without holes.                     *)
LoadedIsPrefix ==
  regime.faults = {} /\ regime.gap > 0 /\ Lines(file) # <<>> /\ Lines(file)[1] = Header =>
    \A i \in 1 .. Len(loaded) : loaded[i].num = i

(* As long as no open fails, the file only grows: what was saved stays, through   *)
(* failing writes and power cuts (digital.c:164, 181).                            *)
FileOnlyGrows ==
  [][~MayFail("open") /\ file # NoFile
       => file' # NoFile /\ IsPrefix(file, file')]_storeVars

(* The train of a capture: the levels, and the gaps replay_pulses will keep.      *)
TrainOf(seq) ==
  [i \in 1 .. Len(seq) |->
     [state |-> seq[i].state,
      gap |-> IF i = 1 THEN 0 ELSE (seq[i].time - seq[i - 1].time) % ClockMod]]

Trains == [1 .. MaxTransitions -> [state : BOOLEAN, gap : Clocks]]

(* The trains that were saved, as the file holds them after its header, in         *)
(* MaxTransitions rows each; <<>> for one that is not whole.                      *)
SavedTrains(lines) ==
  [k \in 1 .. Len(saved) |->
     IF k * MaxTransitions < Len(lines)
     THEN TrainOf(SubSeq(lines, (k - 1) * MaxTransitions + 2, k * MaxTransitions + 1))
     ELSE <<>>]

Reliable == regime.faults = {} /\ regime.crashes = 0 /\ regime.gap > 0

Log == INSTANCE PulseLog WITH
         Train <- Trains,
         log <- IF Reliable THEN SavedTrains(Lines(file)) ELSE <<>>,
         ram <- IF Reliable THEN TrainOf(transitions) ELSE <<>>

(* Without faults, and with captures at least a second apart, saving row by row  *)
(* and loading by the latest timestamp is the log of pulse trains: the train      *)
(* loaded is the last one saved, with its gaps, although every load counts its    *)
(* times from a new start_time (digital.c:232).                                   *)
StoreIsLog == Log!LogSpec
=============================================================================
