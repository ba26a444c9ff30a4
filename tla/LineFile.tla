-------------------------------- MODULE LineFile --------------------------------
(* What writeDataToSD (src/buddy1/sd_card.c) promises its caller, whatever fails:  *)
(* a file, as it would be read, and a call that puts one line into it.             *)
EXTENDS Integers, SequencesExt

CONSTANT NoFile

VARIABLES
  file,     \* the units of the file, or NoFile
  call      \* active, its line, append, how many units of it are stored, and its result

lineVars == <<file, call>>

Units(f) == IF f = NoFile THEN <<>> ELSE f

(* The file with these units added, or put over its beginning.                     *)
With(units) ==
  IF call.append THEN Units(file) \o units
  ELSE units \o SubSeq(Units(file), Len(units) + 1, Len(Units(file)))

(* A step of a call, that may be the last of one that fails.                       *)
Goes(stored) ==
  /\ call.active
  /\ call' \in {[call EXCEPT !.stored = stored, !.active = goesOn] : goesOn \in BOOLEAN}

Begin ==
  /\ ~call.active /\ call'.active /\ call'.stored = 0 /\ ~call'.ok
  /\ UNCHANGED file

Create == file = NoFile /\ file' = <<>> /\ Goes(0)

(* All of the line is stored at once, or, on a full volume, a beginning of it.      *)
Store ==
  /\ call.stored = 0
  /\ \E n \in 1 .. Len(call.line) : file' = With(SubSeq(call.line, 1, n)) /\ Goes(n)

(* A call that does not append may lose the end of the file, or all of it.         *)
Truncate ==
  /\ ~call.append /\ call.stored = 0
  /\ file # NoFile /\ file' \in Prefixes(file)
  /\ Goes(0)

(* The result is ok only if the whole line is stored.                              *)
Return ==
  /\ call.active
  /\ \E ok \in {call.stored = Len(call.line), FALSE} : call' = [call EXCEPT !.active = FALSE, !.ok = ok]
  /\ UNCHANGED file

PowerFails ==
  /\ ~call'.active /\ ~call'.ok
  /\ UNCHANGED file

LineInit == ~call.active /\ ~call.ok /\ file \in Seq(Int) \cup {NoFile}
LineNext == Begin \/ Create \/ Store \/ Truncate \/ Return \/ PowerFails

LineSpec == LineInit /\ [][LineNext]_lineVars
=============================================================================
