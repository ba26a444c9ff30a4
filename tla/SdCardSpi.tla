------------------------------- MODULE SdCardSpi -------------------------------
(* The SD card driver (sd_card_spi.c), from disk_initialize, disk_read and         *)
(* disk_write (glue.c) to the commands of the card.  A step of the model is one    *)
(* command or one block.  Commands may stay without an answer or arrive with a     *)
(* wrong CRC, blocks may be garbled, refused, stored late or not programmed.       *)
(* Assumed: an unanswered command was not executed, an answer is never misread,    *)
(* CRC7 and CRC16 see every change.  Left out: voltages the program's board does   *)
(* not use, the pre-erase count of ACMD23 (its result is ignored), and the mutex   *)
(* (only one core calls the driver).                                               *)
EXTENDS Integers, Sequences

CONSTANTS
  NBlocks, BlockSize,           \* of the card: blocks, and bytes in one (512)
  MaxCount,                     \* of a call: its sectors
  MaxPolls,                     \* rounds of ACMD41 in SD_COMMAND_TIMEOUT
  MaxWrites, MaxFaults, MaxResets   \* bounds of a behaviour

ASSUME SdAssumption ==
  /\ NBlocks \in Nat \ {0} /\ BlockSize \in Nat \ {0} /\ MaxCount \in Nat \ {0}
  /\ MaxPolls \in Nat /\ MaxWrites \in Nat /\ MaxFaults \in Nat /\ MaxResets \in Nat

Kinds == {"V1", "SC", "HC"}     \* version 1, version 2 up to 2 GB, version 2 above
Types == {"NONE", "UNKNOWN", "V1", "V2", "V2HC"}
Statuses == {"NONE", "NO_RESPONSE", "CRC", "UNSUPPORTED", "PARAMETER", "WRITE"}

Blocks == 0 .. NBlocks - 1
Garbled == <<-1, 0>>            \* received with a CRC16 that does not fit
Torn == <<-2, 0>>               \* stored so by a card that does not check CRCs
Contents == ((0 .. MaxWrites) \X (0 .. NBlocks + MaxCount)) \cup {Torn}
NoCall == [write |-> FALSE, sector |-> 0, count |-> 0]

VARIABLES
  card,      \* kind, mode, whether it checks CRCs, has an error to tell, its blocks
  host,      \* sd_card_t: card_type and sectors
  pc,        \* the next command or block
  call,      \* the arguments of disk_read or disk_write
  buf,       \* the blocks transferred so far
  status,    \* of the driver's functions
  polls,     \* rounds of ACMD41 so far
  before,    \* history: the blocks when the call began
  dropped,   \* history: a result of sd_write_block came to nothing
  writes, faults, resets   \* how many there have been

sdVars == <<card, host, pc, call, buf, status, polls, before, dropped, writes, faults, resets>>
history == <<before, dropped, writes, resets>>

SdInit ==
  /\ \E k \in Kinds :
       card = [kind |-> k, mode |-> "ready", crc |-> FALSE, error |-> FALSE,
               data |-> [b \in Blocks |-> <<0, b>>]]
  /\ host = [type |-> "NONE", sectors |-> 0]
  /\ pc = "reset" /\ call = NoCall /\ buf = <<>> /\ status = "NONE" /\ polls = 0
  /\ before = card.data /\ dropped = FALSE
  /\ writes = 0 /\ faults = 0 /\ resets = 0

-----------------------------------------------------------------------------
(* Addresses and commands.                                                     *)

(* The argument of a transfer: cards of high capacity count blocks, others bytes. *)
Addr == IF host.type = "V2HC" THEN call.sector ELSE call.sector * BlockSize

(* The block the card takes it for; -1 for an address within a block.          *)
First ==
  IF card.kind = "HC" THEN Addr
  ELSE IF Addr % BlockSize = 0 THEN Addr \div BlockSize ELSE -1

Fault == faults < MaxFaults /\ faults' = faults + 1

(* A card that is sending blocks takes CMD12 alone, one that is receiving them no *)
(* command, and one that is initialising only those of the initialisation.        *)
Answer(cmd) ==
  CASE card.mode = "receiving" -> "NO_RESPONSE"
    [] card.mode = "sending" /\ cmd # "CMD12" -> "UNSUPPORTED"
    [] card.mode = "idle" /\ cmd \notin {"CMD8", "CMD58", "ACMD41"} -> "UNSUPPORTED"
    [] cmd = "CMD8" /\ card.kind = "V1" -> "UNSUPPORTED"
    [] cmd = "transfer" /\ card.mode = "ready" /\ First \notin Blocks -> "PARAMETER"
    [] OTHER -> "NONE"

(* sd_cmd returns s: the card's answer, or that there was none three times or one *)
(* that says the CRC was wrong.                                                   *)
SdCmd(cmd, s) ==
  \/ s = Answer(cmd) /\ UNCHANGED faults
  \/ s \in {"NO_RESPONSE", "CRC"} /\ Fault

(* disk_read and disk_write: RES_OK is SD_BLOCK_DEVICE_ERROR_NONE.             *)
Dresult(s) ==
  CASE s = "NONE" -> "RES_OK"
    [] s = "NO_RESPONSE" -> "RES_NOTRDY"
    [] s \in {"PARAMETER", "UNSUPPORTED"} -> "RES_PARERR"
    [] OTHER -> "RES_ERROR"

-----------------------------------------------------------------------------
(* disk_initialize.  When it fails the mount fails, and the program stops.     *)

calling == <<call, buf, status, history>>

(* sd_go_idle_state: whatever the card was doing, CMD0 puts an end to it.      *)
GoIdle ==
  /\ pc = "reset"
  /\ \/ /\ card' = [card EXCEPT !.mode = "idle", !.crc = FALSE, !.error = FALSE]
        /\ pc' = "cmd8" /\ UNCHANGED faults
     \/ Fault /\ pc' = "halted" /\ UNCHANGED card
  /\ UNCHANGED <<host, polls, calling>>

(* sd_cmd8: a card of version 1 does not know the command.                     *)
SendIfCond ==
  /\ pc = "cmd8"
  /\ \E s \in Statuses :
       /\ SdCmd("CMD8", s)
       /\ \/ s = "NONE" /\ host' = [host EXCEPT !.type = "V2"] /\ pc' = "crc"
          \/ s = "UNSUPPORTED" /\ host' = [host EXCEPT !.type = "UNKNOWN"] /\ pc' = "crc"
          \/ s \notin {"NONE", "UNSUPPORTED"} /\ pc' = "halted" /\ UNCHANGED host
  /\ UNCHANGED <<card, polls, calling>>

(* CMD59: when three attempts have failed the driver goes on without.          *)
CrcOn ==
  /\ pc = "crc" /\ pc' = "ocr"
  /\ \/ card' = [card EXCEPT !.crc = TRUE] /\ UNCHANGED faults
     \/ Fault /\ UNCHANGED card
  /\ UNCHANGED <<host, polls, calling>>

ReadOcr ==
  /\ pc = "ocr"
  /\ \E s \in Statuses : SdCmd("CMD58", s) /\ pc' = IF s = "NONE" THEN "acmd41" ELSE "halted"
  /\ UNCHANGED <<card, host, polls, calling>>

(* The card has initialised itself.                                            *)
Finishes ==
  /\ pc \in {"acmd41", "csd"} /\ card.mode = "idle"
  /\ card' = [card EXCEPT !.mode = "ready"]
  /\ UNCHANGED <<host, pc, polls, calling, faults>>

(* The idle bit of what is in `response` after ACMD41: no answer reads as all ones, *)
(* but a card that keeps the bus busy, in the first round, leaves the OCR there.   *)
IdleBits(s) ==
  IF s = "NO_RESPONSE" THEN {TRUE, polls > 0} ELSE {card.mode = "idle"}

(* ACMD41, until the card's idle bit is clear or the time is over: then the driver *)
(* goes on with a card whose type it does not know, unless the last attempt failed. *)
SendOpCond ==
  /\ pc = "acmd41"
  /\ \E s \in Statuses : \E idle \in IdleBits(s) :
       /\ SdCmd("ACMD41", s)
       /\ \/ idle /\ polls < MaxPolls /\ polls' = polls + 1 /\ UNCHANGED <<host, pc>>
          \/ /\ ~idle /\ s = "NONE" /\ UNCHANGED polls
             /\ \/ host.type = "V2" /\ pc' = "ccs" /\ UNCHANGED host
                \/ host.type # "V2" /\ pc' = "csd" /\ host' = [host EXCEPT !.type = "V1"]
          \/ /\ IF idle THEN polls = MaxPolls ELSE s # "NONE"
             /\ host' = [host EXCEPT !.type = "UNKNOWN"] /\ UNCHANGED polls
             /\ pc' = IF s = "NONE" THEN "csd" ELSE "halted"
  /\ UNCHANGED <<card, calling>>

(* CMD58 tells cards of high capacity from the others.                         *)
Capacity == IF card.kind = "HC" THEN "V2HC" ELSE host.type
ReadCcs ==
  /\ pc = "ccs"
  /\ \E s \in Statuses :
       /\ SdCmd("CMD58", s)
       /\ \/ s = "NONE" /\ host' = [host EXCEPT !.type = Capacity] /\ pc' = "csd"
          \/ s # "NONE" /\ pc' = "halted" /\ UNCHANGED host
  /\ UNCHANGED <<card, polls, calling>>

(* in_sd_spi_sectors: CMD9 and its data, of which any failure is one.          *)
ReadCsd ==
  /\ pc = "csd"
  /\ \E s \in Statuses :
       /\ SdCmd("CMD9", s)
       /\ \/ s = "NONE" /\ host' = [host EXCEPT !.sectors = NBlocks] /\ pc' = "cid"
          \/ s # "NONE" /\ pc' = "halted" /\ UNCHANGED host
  /\ UNCHANGED <<card, polls, calling>>

(* CMD10 and its data, and CMD16.                                              *)
ReadCid ==
  /\ pc = "cid"
  /\ \E s \in Statuses : SdCmd("CMD10", s) /\ pc' = IF s = "NONE" THEN "ready" ELSE "halted"
  /\ UNCHANGED <<card, host, polls, calling>>

Halted == pc = "halted" /\ UNCHANGED sdVars

-----------------------------------------------------------------------------
(* disk_read and disk_write.                                                   *)

Multiple == call.count > 1

(* After i blocks there are more.  (mutant: one too many)                      *)
ExpectedOneMore(i) == i <= call.count
Expected(i) == i < call.count

Request(write, sector, count) ==
  /\ pc = "ready"
  /\ write => writes < MaxWrites
  /\ call' = [write |-> write, sector |-> sector, count |-> count]
  /\ writes' = IF write THEN writes + 1 ELSE writes
  /\ IF sector + count > host.sectors
     THEN pc' = "done" /\ status' = "PARAMETER"
     ELSE pc' = "command" /\ status' = "NONE"
  /\ UNCHANGED <<card, host, buf, polls, before, dropped, faults, resets>>

(* CMD17 and CMD18, CMD24 and CMD25.                                           *)
Command ==
  /\ pc = "command"
  /\ \E s \in Statuses :
       /\ SdCmd("transfer", s)
       /\ status' = s
       /\ \/ /\ s = "NONE"
             /\ card' = IF ~Multiple THEN card
                        ELSE [card EXCEPT !.mode = IF call.write THEN "receiving" ELSE "sending"]
             /\ pc' = IF call.write THEN "send" ELSE "receive"
          \/ s # "NONE" /\ pc' = "done" /\ UNCHANGED card
  /\ UNCHANGED <<host, call, buf, polls, history>>

(* A block arrives, in time or not.  The CRC of the one before is looked at meanwhile. *)
Receive ==
  /\ pc = "receive"
  /\ LET i == Len(buf)
         failed == i > 0 /\ buf[i] = Garbled
     IN  \/ /\ First + i \in Blocks
            /\ \/ buf' = Append(buf, card.data[First + i]) /\ UNCHANGED faults
               \/ buf' = Append(buf, Garbled) /\ Fault
            /\ status' = IF failed THEN "CRC" ELSE "NONE"
            /\ pc' = IF Expected(i + 1) /\ ~failed THEN "receive" ELSE "stop"
         \/ /\ IF First + i \in Blocks THEN Fault ELSE UNCHANGED faults
            /\ status' = "NO_RESPONSE" /\ pc' = "stop" /\ UNCHANGED buf
  /\ UNCHANGED <<card, host, call, polls, history>>

(* The CRC of the last block.  (mutant: it is left unchecked)                  *)
LastUnchecked == status
LastChecked == IF status = "NONE" /\ buf[Len(buf)] = Garbled THEN "CRC" ELSE status

(* CMD12 after several blocks; its result is not looked at.                    *)
StopReading ==
  /\ pc = "stop" /\ pc' = "done"
  /\ IF Multiple
     THEN \E s \in Statuses :
            /\ SdCmd("CMD12", s)
            /\ card' = IF s = "NONE" THEN [card EXCEPT !.mode = "ready"] ELSE card
     ELSE UNCHANGED <<card, faults>>
  /\ status' = LastChecked
  /\ UNCHANGED <<host, call, buf, polls, history>>

(* sd_write_block, which returns s.  The card stores the block at once, or later  *)
(* than the driver waits; or fails to program it and will say so to CMD13; or     *)
(* refuses it, or stores it as it came if it does not check CRCs.                 *)
WriteBlock(b, block, s) ==
  \/ /\ b \in Blocks /\ card' = [card EXCEPT !.data[b] = block]
     /\ \/ s = "NONE" /\ UNCHANGED faults
        \/ s = "WRITE" /\ Fault
  \/ /\ IF b \in Blocks THEN Fault ELSE UNCHANGED faults
     /\ card' = [card EXCEPT !.error = TRUE] /\ s = "NONE"
  \/ s = "WRITE" /\ Fault /\ UNCHANGED card
  \/ b \in Blocks /\ ~card.crc /\ card' = [card EXCEPT !.data[b] = Torn] /\ s = "NONE" /\ Fault

(* The result of a single block is not looked at, and that of the last of several *)
(* gives way to the result of CMD13.                                              *)
Send ==
  /\ pc = "send"
  /\ LET i == Len(buf) + 1
         block == <<writes, i>>
     IN  \E s \in {"NONE", "WRITE"} :
           /\ WriteBlock(First + i - 1, block, s)
           /\ buf' = Append(buf, block)
           /\ dropped' = (s # "NONE")
           /\ pc' = IF ~Multiple THEN "status"
                    ELSE IF Expected(i) /\ s = "NONE" THEN "send" ELSE "stoptran"
  /\ UNCHANGED <<host, call, status, polls, before, writes, resets>>

(* The token after the last of several blocks.                                 *)
StopTran ==
  /\ pc = "stoptran" /\ pc' = "status"
  /\ \/ card' = [card EXCEPT !.mode = "ready"] /\ UNCHANGED faults
     \/ Fault /\ UNCHANGED card
  /\ UNCHANGED <<host, polls, calling>>

(* CMD13 answers with what went wrong in programming, and forgets it.           *)
(* (mutant: the second byte of the answer is not looked at)                     *)
ProgrammedUnread(s) == s
Programmed(s) == IF s = "NONE" /\ card.error THEN "WRITE" ELSE s

SendStatus ==
  /\ pc = "status" /\ pc' = "done"
  /\ \E s \in Statuses :
       /\ SdCmd("CMD13", s)
       /\ status' = Programmed(s)
       /\ card' = IF s = "NONE" THEN [card EXCEPT !.error = FALSE] ELSE card
  /\ UNCHANGED <<host, call, buf, polls, history>>

Return ==
  /\ pc = "done" /\ pc' = "ready"
  /\ call' = NoCall /\ buf' = <<>> /\ status' = "NONE" /\ dropped' = FALSE
  /\ before' = card.data
  /\ UNCHANGED <<card, host, polls, writes, faults, resets>>

(* The microcontroller starts anew, the card does not.                         *)
Reset ==
  /\ pc # "reset" /\ pc' = "reset"
  /\ resets < MaxResets /\ resets' = resets + 1
  /\ host' = [type |-> "NONE", sectors |-> 0]
  /\ call' = NoCall /\ buf' = <<>> /\ status' = "NONE" /\ polls' = 0 /\ dropped' = FALSE
  /\ before' = card.data
  /\ UNCHANGED <<card, writes, faults>>

-----------------------------------------------------------------------------
SdNext ==
  \/ GoIdle \/ SendIfCond \/ CrcOn \/ ReadOcr \/ Finishes \/ SendOpCond
  \/ ReadCcs \/ ReadCsd \/ ReadCid \/ Halted
  \/ \E write \in BOOLEAN, sector \in Blocks, count \in 1 .. MaxCount :
       Request(write, sector, count)
  \/ Command \/ Receive \/ StopReading \/ Send \/ StopTran \/ SendStatus
  \/ Return \/ Reset

SdSpec == SdInit /\ [][SdNext]_sdVars

-----------------------------------------------------------------------------
(* Types; no more blocks are transferred than the call has room for.            *)
SdTypeOK ==
  /\ card \in [kind : Kinds, mode : {"idle", "ready", "sending", "receiving"}, crc : BOOLEAN,
               error : BOOLEAN, data : [Blocks -> Contents]]
  /\ host \in [type : Types, sectors : {0, NBlocks}]
  /\ pc \in {"reset", "cmd8", "crc", "ocr", "acmd41", "ccs", "csd", "cid", "halted", "ready",
             "command", "receive", "stop", "send", "stoptran", "status", "done"}
  /\ call \in [write : BOOLEAN, sector : Nat, count : 0 .. MaxCount]
  /\ buf \in Seq(Contents \cup {Garbled})
  /\ Len(buf) <= call.count
  /\ status \in Statuses
  /\ polls \in 0 .. MaxPolls
  /\ before \in [Blocks -> Contents] /\ dropped \in BOOLEAN
  /\ writes \in 0 .. MaxWrites /\ faults \in 0 .. MaxFaults /\ resets \in 0 .. MaxResets

Done == pc = "done" /\ Dresult(status) = "RES_OK"
Known == host.type # "UNKNOWN"
AllStored == \A i \in 1 .. call.count : card.data[call.sector + i - 1] = <<writes, i>>

(* disk_read returns RES_OK only with the blocks asked for as they are on the card,  *)
(* on every kind of card whose type the initialisation found out: the address has    *)
(* the card's unit, and a block whose CRC is wrong, the first, one in between or the *)
(* last, is never passed on (in_sd_read_blocks).                                     *)
ReadsTrue ==
  Done /\ ~call.write /\ Known =>
    /\ Len(buf) = call.count
    /\ \A i \in 1 .. call.count : buf[i] = card.data[call.sector + i - 1]

(* disk_write, on a card whose type the initialisation found out, changes no block   *)
(* but those asked for, whatever fails, and returns RES_OK only if all of them are   *)
(* stored, provided that the card checks CRCs and that no result of sd_write_block   *)
(* was dropped: what fails in programming is told by CMD13 (in_sd_write_blocks).     *)
WritesStored ==
  pc = "done" /\ call.write /\ Known =>
    /\ \A b \in Blocks \ (call.sector .. call.sector + call.count - 1) : card.data[b] = before[b]
    /\ Done /\ card.crc /\ ~dropped => AllStored

(* sd_card_spi.c:838-844: 0 is success, and SD_BLOCK_DEVICE_ERROR_WRITE an SPI write *)
(* error; lines 896-904 say that the data response tells of a wrong CRC.  A write    *)
(* that returns RES_OK, with a known card that checks CRCs, has stored its blocks.   *)
WriteReported ==
  Done /\ call.write /\ Known /\ card.crc => AllStored
=============================================================================
