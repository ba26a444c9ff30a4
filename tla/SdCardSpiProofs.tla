----------------------------- MODULE SdCardSpiProofs -----------------------------
(* TLAPS proofs about SdCardSpi, for every kind and size of card, any calls, and   *)
(* any number of faults and restarts.                                              *)
EXTENDS SdCardSpi, TLAPS

Starting == {"reset", "cmd8", "crc", "ocr", "acmd41", "ccs", "csd", "cid", "halted"}
Writing == {"send", "stoptran", "status"}

(* What the initialisation knows of the card at each command, and what it has      *)
(* found out when it is over.                                                     *)
KindInv ==
  /\ pc \in {"cmd8", "crc", "ocr"} => card.mode = "idle"
  /\ pc \in {"crc", "ocr", "acmd41"} => host.type = IF card.kind = "V1" THEN "UNKNOWN" ELSE "V2"
  /\ pc = "ccs" => host.type = "V2" /\ card.kind # "V1"
  /\ pc \notin {"reset", "cmd8", "crc", "ocr", "acmd41", "ccs", "halted"} /\ Known
       => (host.type = "V2HC" <=> card.kind = "HC")

CallInv ==
  /\ pc \in Starting \cup {"ready", "command"} => buf = <<>>
  /\ pc \notin Starting \cup {"ready"} => call.count >= 1
  /\ pc \in {"receive", "stop"} => ~call.write
  /\ pc \in Writing => call.write
  /\ pc \in {"receive", "send"} => Len(buf) < call.count

(* The block of the card that the i-th block of the call is.                      *)
Target(i) == call.sector + i - 1

(* Only the last block that came may still have a wrong CRC.                      *)
ReadInv ==
  pc \in {"receive", "stop", "done"} /\ ~call.write /\ Known =>
    /\ \A i \in 1 .. Len(buf) : buf[i] = Garbled \/ buf[i] = card.data[Target(i)]
    /\ pc = "receive" \/ status = "NONE" =>
         \A i \in 1 .. Len(buf) : i < Len(buf) => buf[i] # Garbled
    /\ pc # "receive" /\ status = "NONE" => Len(buf) = call.count
    /\ pc = "done" /\ status = "NONE" => \A i \in 1 .. Len(buf) : buf[i] # Garbled

(* What was sent is stored, unless the card has an error to tell or a result was   *)
(* dropped.                                                                       *)
SentStored ==
  card.crc /\ ~dropped /\ ~card.error =>
    \A i \in 1 .. Len(buf) : card.data[Target(i)] = <<writes, i>>

OthersKept ==
  \A b \in Blocks \ (call.sector .. call.sector + call.count - 1) : card.data[b] = before[b]

WriteInv ==
  /\ pc \notin Writing \cup {"done"} => before = card.data
  /\ pc \in Starting \cup {"ready", "command", "send"} => ~dropped
  /\ pc \in {"stoptran", "status"} /\ ~dropped => Len(buf) = call.count
  /\ pc \in Writing \cup {"done"} /\ call.write /\ Known => OthersKept
  /\ pc \in Writing /\ Known => SentStored
  /\ pc = "done" /\ call.write /\ Known /\ status = "NONE" /\ card.crc /\ ~dropped => AllStored

SdInv == SdTypeOK /\ KindInv /\ CallInv /\ ReadInv /\ WriteInv

-----------------------------------------------------------------------------
LEMMA Constants ==
  /\ NBlocks \in Nat \ {0} /\ BlockSize \in Nat \ {0} /\ MaxCount \in Nat \ {0}
  /\ MaxPolls \in Nat /\ MaxWrites \in Nat /\ MaxFaults \in Nat /\ MaxResets \in Nat
  BY SdAssumption

LEMMA Multiples ==
  ASSUME NEW n \in Nat \ {0}, NEW x \in Nat
  PROVE  (x * n) % n = 0 /\ (x * n) \div n = x
<1> DEFINE q == (x * n) \div n
<1> DEFINE r == (x * n) % n
<1>1. r \in 0 .. n - 1 /\ q \in Int /\ x * n = n * q + r /\ x * n \in Nat
  OBVIOUS
<1> HIDE DEF q, r
<1>2. n * (x - q) = r
  BY <1>1
<1>3. x - q = 0
  <2> DEFINE d == x - q
  <2>1. d \in Int /\ n * d = r
    BY <1>1, <1>2
  <2> HIDE DEF d
  <2>2. d >= 1 => n * d >= n
    BY <2>1
  <2>3. d <= -1 => n * d <= -n
    BY <2>1
  <2>4. d = 0
    BY <1>1, <2>1, <2>2, <2>3
  <2> QED  BY <2>4 DEF d
<1>4. x = q /\ r = 0
  BY <1>1, <1>2, <1>3
<1> QED  BY <1>4 DEF q, r

(* Whatever unit the card addresses in, a known one is asked for the right block. *)
LEMMA FirstIsSector ==
  ASSUME SdTypeOK, Known, host.type = "V2HC" <=> card.kind = "HC"
  PROVE  First = call.sector /\ call.sector \in Nat
<1>1. call.sector \in Nat /\ BlockSize \in Nat \ {0}
  BY Constants DEF SdTypeOK
<1> QED  BY <1>1, Multiples DEF First, Addr

LEMMA SequenceFacts ==
  ASSUME NEW S, NEW s \in Seq(S), NEW e \in S
  PROVE  /\ Append(s, e) \in Seq(S) /\ Len(s) \in Nat /\ Len(Append(s, e)) = Len(s) + 1
         /\ \A i \in 1 .. Len(s) : Append(s, e)[i] = s[i] /\ s[i] \in S
         /\ Append(s, e)[Len(s) + 1] = e
  OBVIOUS

LEMMA EmptySequence == ASSUME NEW S PROVE <<>> \in Seq(S) /\ Len(<<>>) = 0
  OBVIOUS

LEMMA Counted ==
  ASSUME SdTypeOK
  PROVE  /\ Fault \/ UNCHANGED faults => faults' \in 0 .. MaxFaults
         /\ Fault => faults' \in 0 .. MaxFaults
         /\ \A cmd, s : SdCmd(cmd, s) => faults' \in 0 .. MaxFaults
<1>1. faults \in 0 .. MaxFaults /\ MaxFaults \in Nat
  BY Constants DEF SdTypeOK
<1> QED  BY <1>1 DEF Fault, SdCmd
-----------------------------------------------------------------------------
(* The initialisation touches no block and no call.                               *)

LEMMA Untouched ==
  ASSUME SdInv, pc \in Starting, pc' \in Starting \cup {"ready"},
         UNCHANGED <<call, buf, status, before, dropped>>, card'.data = card.data
  PROVE  CallInv' /\ ReadInv' /\ WriteInv'
  BY DEF SdInv, CallInv, ReadInv, WriteInv, Starting, Writing

CardType == [kind : Kinds, mode : {"idle", "ready", "sending", "receiving"}, crc : BOOLEAN,
             error : BOOLEAN, data : [Blocks -> Contents]]
HostType == [type : Types, sectors : {0, NBlocks}]

LEMMA StartingTypes ==
  ASSUME SdTypeOK, card' \in CardType, host' \in HostType, pc' \in Starting \cup {"ready"},
         polls' \in 0 .. MaxPolls, faults' \in 0 .. MaxFaults,
         UNCHANGED <<call, buf, status, history>>
  PROVE  SdTypeOK'
  BY DEF SdTypeOK, CardType, HostType, Starting, history

LEMMA GoIdleStep == ASSUME SdInv, GoIdle PROVE SdInv'
<1>1. /\ pc = "reset" /\ pc' \in {"cmd8", "halted"} /\ UNCHANGED <<host, polls, calling>>
      /\ pc' = "cmd8" => card' = [card EXCEPT !.mode = "idle", !.crc = FALSE, !.error = FALSE]
      /\ pc' = "halted" => card' = card
      /\ Fault \/ UNCHANGED faults
  BY DEF GoIdle
<1>2. card \in CardType /\ host \in HostType /\ polls \in 0 .. MaxPolls
  BY DEF SdInv, SdTypeOK, CardType, HostType
<1>3. /\ card' \in CardType /\ card'.data = card.data
      /\ pc' = "cmd8" => card'.mode = "idle"
  BY <1>1, <1>2 DEF CardType
<1>4. UNCHANGED <<call, buf, status, history>> /\ UNCHANGED <<before, dropped>>
  BY <1>1 DEF calling, history
<1>5. SdTypeOK'
  BY <1>1, <1>2, <1>3, <1>4, Counted, StartingTypes DEF SdInv, Starting
<1>6. KindInv'
  BY <1>1, <1>3 DEF KindInv
<1> QED  BY <1>1, <1>3, <1>4, <1>5, <1>6, Untouched DEF SdInv, Starting

LEMMA SendIfCondStep == ASSUME SdInv, SendIfCond PROVE SdInv'
<1>1. PICK s \in Statuses :
        /\ SdCmd("CMD8", s)
        /\ \/ s = "NONE" /\ host' = [host EXCEPT !.type = "V2"] /\ pc' = "crc"
           \/ s = "UNSUPPORTED" /\ host' = [host EXCEPT !.type = "UNKNOWN"] /\ pc' = "crc"
           \/ s \notin {"NONE", "UNSUPPORTED"} /\ pc' = "halted" /\ UNCHANGED host
  BY DEF SendIfCond
<1>2. pc = "cmd8" /\ card.mode = "idle" /\ UNCHANGED <<card, polls, calling>>
  BY DEF SendIfCond, SdInv, KindInv
<1>3. card \in CardType /\ host \in HostType /\ polls \in 0 .. MaxPolls
  BY DEF SdInv, SdTypeOK, CardType, HostType
<1>4. /\ UNCHANGED <<call, buf, status, history>> /\ UNCHANGED <<before, dropped>>
      /\ faults' \in 0 .. MaxFaults
  BY <1>1, <1>2, Counted DEF SdInv, calling, history
<1>5. host' \in HostType /\ pc' \in {"crc", "halted"}
  BY <1>1, <1>3 DEF HostType, Types
<1>6. /\ s = "NONE" => card.kind # "V1"
      /\ s = "UNSUPPORTED" => card.kind = "V1"
  BY <1>1, <1>2 DEF SdCmd, Answer
<1>7. KindInv'
  BY <1>1, <1>2, <1>3, <1>5, <1>6 DEF KindInv, HostType
<1>8. SdTypeOK'
  BY <1>2, <1>3, <1>4, <1>5, StartingTypes DEF SdInv, Starting
<1> QED  BY <1>2, <1>4, <1>5, <1>7, <1>8, Untouched DEF SdInv, Starting

LEMMA CrcOnStep == ASSUME SdInv, CrcOn PROVE SdInv'
<1>1. /\ pc = "crc" /\ pc' = "ocr" /\ UNCHANGED <<host, polls, calling>>
      /\ card' = [card EXCEPT !.crc = TRUE] \/ card' = card
      /\ Fault \/ UNCHANGED faults
  BY DEF CrcOn
<1>2. card \in CardType /\ host \in HostType /\ polls \in 0 .. MaxPolls
  BY DEF SdInv, SdTypeOK, CardType, HostType
<1>3. card' \in CardType /\ card'.data = card.data /\ card'.mode = card.mode /\ card'.kind = card.kind
  BY <1>1, <1>2 DEF CardType
<1>4. UNCHANGED <<call, buf, status, history>> /\ UNCHANGED <<before, dropped>>
  BY <1>1 DEF calling, history
<1>5. SdTypeOK'
  BY <1>1, <1>2, <1>3, <1>4, Counted, StartingTypes DEF SdInv, Starting
<1>6. KindInv'
  BY <1>1, <1>3 DEF SdInv, KindInv
<1> QED  BY <1>1, <1>3, <1>4, <1>5, <1>6, Untouched DEF SdInv, Starting

LEMMA ReadOcrStep == ASSUME SdInv, ReadOcr PROVE SdInv'
<1>1. /\ pc = "ocr" /\ pc' \in {"acmd41", "halted"} /\ UNCHANGED <<card, host, polls, calling>>
      /\ faults' \in 0 .. MaxFaults
  BY Counted DEF SdInv, ReadOcr
<1>2. card \in CardType /\ host \in HostType /\ polls \in 0 .. MaxPolls
  BY DEF SdInv, SdTypeOK, CardType, HostType
<1>3. UNCHANGED <<call, buf, status, history>> /\ UNCHANGED <<before, dropped>>
  BY <1>1 DEF calling, history
<1>4. SdTypeOK'
  BY <1>1, <1>2, <1>3, StartingTypes DEF SdInv, Starting
<1>5. KindInv'
  BY <1>1 DEF SdInv, KindInv
<1> QED  BY <1>1, <1>3, <1>4, <1>5, Untouched DEF SdInv, Starting

LEMMA FinishesStep == ASSUME SdInv, Finishes PROVE SdInv'
<1>1. /\ pc \in {"acmd41", "csd"} /\ card' = [card EXCEPT !.mode = "ready"]
      /\ UNCHANGED <<host, pc, polls, calling, faults>>
  BY DEF Finishes
<1>2. card \in CardType /\ host \in HostType /\ polls \in 0 .. MaxPolls
  BY DEF SdInv, SdTypeOK, CardType, HostType
<1>3. card' \in CardType /\ card'.data = card.data /\ card'.kind = card.kind
  BY <1>1, <1>2 DEF CardType
<1>4. UNCHANGED <<call, buf, status, history>> /\ UNCHANGED <<before, dropped>>
  BY <1>1 DEF calling, history
<1>5. SdTypeOK'
  BY <1>1, <1>2, <1>3, <1>4, Counted, StartingTypes DEF SdInv, Starting
<1>6. KindInv'
  BY <1>1, <1>3 DEF SdInv, KindInv, Known
<1> QED  BY <1>1, <1>3, <1>4, <1>5, <1>6, Untouched DEF SdInv, Starting

LEMMA SendOpCondStep == ASSUME SdInv, SendOpCond PROVE SdInv'
<1>1. /\ pc = "acmd41" /\ UNCHANGED <<card, calling>> /\ faults' \in 0 .. MaxFaults
      /\ \/ UNCHANGED polls \/ (polls < MaxPolls /\ polls' = polls + 1)
      /\ \/ pc' = "ccs" /\ host.type = "V2" /\ host' = host
         \/ pc' = "csd" /\ host.type # "V2" /\ host' = [host EXCEPT !.type = "V1"]
         \/ pc' = "acmd41" /\ host' = host
         \/ pc' \in {"csd", "halted"} /\ host' = [host EXCEPT !.type = "UNKNOWN"]
  BY Counted DEF SdInv, SendOpCond, IdleBits
<1>2. card \in CardType /\ host \in HostType /\ polls \in 0 .. MaxPolls /\ MaxPolls \in Nat
  BY Constants DEF SdInv, SdTypeOK, CardType, HostType
<1>3. UNCHANGED <<call, buf, status, history>> /\ UNCHANGED <<before, dropped>>
  BY <1>1 DEF calling, history
<1>4. host' \in HostType
  BY <1>1, <1>2 DEF HostType, Types
<1>5. pc' \in {"ccs", "csd", "acmd41", "halted"} /\ polls' \in 0 .. MaxPolls
  BY <1>1, <1>2
<1>6. SdTypeOK'
  BY <1>1, <1>2, <1>3, <1>4, <1>5, StartingTypes DEF SdInv, Starting
<1>7. host.type = IF card.kind = "V1" THEN "UNKNOWN" ELSE "V2"
  BY <1>1 DEF SdInv, KindInv
<1>8. KindInv'
  BY <1>1, <1>2, <1>7 DEF KindInv, Known, HostType
<1> QED  BY <1>1, <1>3, <1>5, <1>6, <1>8, Untouched DEF SdInv, Starting

LEMMA ReadCcsStep == ASSUME SdInv, ReadCcs PROVE SdInv'
<1>1. /\ pc = "ccs" /\ UNCHANGED <<card, polls, calling>> /\ faults' \in 0 .. MaxFaults
      /\ \/ host' = [host EXCEPT !.type = Capacity] /\ pc' = "csd"
         \/ pc' = "halted" /\ host' = host
  BY Counted DEF SdInv, ReadCcs
<1>2. card \in CardType /\ host \in HostType /\ polls \in 0 .. MaxPolls
  BY DEF SdInv, SdTypeOK, CardType, HostType
<1>3. UNCHANGED <<call, buf, status, history>> /\ UNCHANGED <<before, dropped>>
  BY <1>1 DEF calling, history
<1>4. host.type = "V2" /\ Capacity = IF card.kind = "HC" THEN "V2HC" ELSE "V2"
  BY <1>1 DEF SdInv, KindInv, Capacity
<1>5. host' \in HostType /\ pc' \in {"csd", "halted"}
  BY <1>1, <1>2, <1>4 DEF HostType, Types
<1>6. SdTypeOK'
  BY <1>1, <1>2, <1>3, <1>5, StartingTypes DEF SdInv, Starting
<1>7. KindInv'
  BY <1>1, <1>2, <1>4 DEF KindInv, Known, HostType
<1> QED  BY <1>1, <1>3, <1>5, <1>6, <1>7, Untouched DEF SdInv, Starting

LEMMA ReadCsdStep == ASSUME SdInv, ReadCsd PROVE SdInv'
<1>1. /\ pc = "csd" /\ UNCHANGED <<card, polls, calling>> /\ faults' \in 0 .. MaxFaults
      /\ \/ host' = [host EXCEPT !.sectors = NBlocks] /\ pc' = "cid"
         \/ pc' = "halted" /\ host' = host
  BY Counted DEF SdInv, ReadCsd
<1>2. card \in CardType /\ host \in HostType /\ polls \in 0 .. MaxPolls
  BY DEF SdInv, SdTypeOK, CardType, HostType
<1>3. UNCHANGED <<call, buf, status, history>> /\ UNCHANGED <<before, dropped>>
  BY <1>1 DEF calling, history
<1>4. host' \in HostType /\ pc' \in {"cid", "halted"} /\ host'.type = host.type
  BY <1>1, <1>2 DEF HostType
<1>5. SdTypeOK'
  BY <1>1, <1>2, <1>3, <1>4, StartingTypes DEF SdInv, Starting
<1>6. KindInv'
  BY <1>1, <1>4 DEF SdInv, KindInv, Known
<1> QED  BY <1>1, <1>3, <1>4, <1>5, <1>6, Untouched DEF SdInv, Starting

LEMMA ReadCidStep == ASSUME SdInv, ReadCid PROVE SdInv'
<1>1. /\ pc = "cid" /\ pc' \in {"ready", "halted"} /\ UNCHANGED <<card, host, polls, calling>>
      /\ faults' \in 0 .. MaxFaults
  BY Counted DEF SdInv, ReadCid
<1>2. card \in CardType /\ host \in HostType /\ polls \in 0 .. MaxPolls
  BY DEF SdInv, SdTypeOK, CardType, HostType
<1>3. UNCHANGED <<call, buf, status, history>> /\ UNCHANGED <<before, dropped>>
  BY <1>1 DEF calling, history
<1>4. SdTypeOK'
  BY <1>1, <1>2, <1>3, StartingTypes DEF SdInv, Starting
<1>5. KindInv'
  BY <1>1 DEF SdInv, KindInv, Known
<1> QED  BY <1>1, <1>3, <1>4, <1>5, Untouched DEF SdInv, Starting
-----------------------------------------------------------------------------
(* disk_read and disk_write.                                                      *)

Serving == {"ready", "command", "receive", "stop", "send", "stoptran", "status", "done"}
CallType == [write : BOOLEAN, sector : Nat, count : 0 .. MaxCount]

LEMMA Facts ==
  ASSUME SdInv
  PROVE  /\ card \in CardType /\ host \in HostType /\ call \in CallType
         /\ call.count \in 0 .. MaxCount /\ call.sector \in Nat /\ MaxCount \in Nat
         /\ buf \in Seq(Contents \cup {Garbled}) /\ Len(buf) \in Nat /\ Len(buf) <= call.count
         /\ faults \in 0 .. MaxFaults
<1>1. /\ card \in CardType /\ host \in HostType /\ call \in CallType
      /\ buf \in Seq(Contents \cup {Garbled}) /\ Len(buf) <= call.count /\ faults \in 0 .. MaxFaults
  BY DEF SdInv, SdTypeOK, CardType, HostType, CallType
<1>2. call.count \in 0 .. MaxCount /\ call.sector \in Nat
  BY <1>1 DEF CallType
<1> QED  BY <1>1, <1>2, Constants

LEMMA KindKept ==
  ASSUME SdInv, pc \in Serving, pc' \in Serving, host' = host, card'.kind = card.kind
  PROVE  KindInv'
  BY DEF SdInv, KindInv, Known, Serving

LEMMA ServingTypes ==
  ASSUME SdTypeOK, pc' \in Serving, card' \in CardType, UNCHANGED <<host, polls>>,
         call' \in CallType, buf' \in Seq(Contents \cup {Garbled}), Len(buf') <= call'.count,
         status' \in Statuses, faults' \in 0 .. MaxFaults, writes' \in 0 .. MaxWrites,
         resets' \in 0 .. MaxResets, before' \in [Blocks -> Contents], dropped' \in BOOLEAN
  PROVE  SdTypeOK'
  BY DEF SdTypeOK, CardType, CallType, Serving

LEMMA HistoryTypes ==
  ASSUME SdTypeOK, UNCHANGED history
  PROVE  /\ writes' \in 0 .. MaxWrites /\ resets' \in 0 .. MaxResets
         /\ before' \in [Blocks -> Contents] /\ dropped' \in BOOLEAN
  BY DEF SdTypeOK, history

LEMMA RequestStep ==
  ASSUME SdInv, NEW write \in BOOLEAN, NEW sector \in Blocks, NEW count \in 1 .. MaxCount,
         Request(write, sector, count)
  PROVE  SdInv'
<1>1. /\ pc = "ready" /\ call' = [write |-> write, sector |-> sector, count |-> count]
      /\ write => writes < MaxWrites
      /\ writes' = IF write THEN writes + 1 ELSE writes
      /\ \/ pc' = "done" /\ status' = "PARAMETER"
         \/ pc' = "command" /\ status' = "NONE"
      /\ UNCHANGED <<card, host, buf, polls, before, dropped, faults, resets>>
  BY DEF Request
<1>2. call' \in CallType /\ call'.count = count /\ count >= 1 /\ count \in Nat
  <2>1. sector \in Nat /\ count \in 0 .. MaxCount /\ count >= 1 /\ count \in Nat
    BY Constants DEF Blocks
  <2> QED  BY <1>1, <2>1 DEF CallType
<1>3. buf = <<>> /\ Len(buf) = 0
  BY <1>1, EmptySequence DEF SdInv, CallInv
<1>4. SdTypeOK'
  <2>1. writes' \in 0 .. MaxWrites
    BY <1>1, Constants DEF SdInv, SdTypeOK
  <2>2. resets' \in 0 .. MaxResets /\ before' \in [Blocks -> Contents] /\ dropped' \in BOOLEAN
    BY <1>1 DEF SdInv, SdTypeOK
  <2>3. status' \in Statuses /\ pc' \in Serving
    BY <1>1 DEF Statuses, Serving
  <2> QED  BY <1>1, <1>2, <1>3, <2>1, <2>2, <2>3, Facts, ServingTypes DEF SdInv
<1>5. KindInv'
  BY <1>1, KindKept DEF Serving
<1>6. CallInv'
  BY <1>1, <1>2, <1>3 DEF CallInv, Starting, Writing
<1>7. ReadInv'
  BY <1>1, <1>3 DEF ReadInv
<1>8. WriteInv'
  <2>1. before = card.data /\ ~dropped
    BY <1>1 DEF SdInv, WriteInv, Writing, Starting
  <2>2. before' = card'.data /\ ~dropped' /\ pc' \in {"done", "command"}
    BY <1>1, <2>1
  <2>3. OthersKept'
    BY <2>2 DEF OthersKept
  <2>4. pc' = "done" => status' # "NONE"
    BY <1>1
  <2> QED  BY <2>2, <2>3, <2>4 DEF WriteInv, Writing, Starting
<1> QED  BY <1>4, <1>5, <1>6, <1>7, <1>8 DEF SdInv

LEMMA CommandStep == ASSUME SdInv, Command PROVE SdInv'
<1>1. PICK s \in Statuses :
        /\ faults' \in 0 .. MaxFaults /\ status' = s
        /\ \/ /\ s = "NONE"
              /\ card' = IF ~Multiple THEN card
                         ELSE [card EXCEPT !.mode = IF call.write THEN "receiving" ELSE "sending"]
              /\ pc' = IF call.write THEN "send" ELSE "receive"
           \/ s # "NONE" /\ pc' = "done" /\ card' = card
  BY Counted DEF SdInv, Command
<1>2. pc = "command" /\ UNCHANGED <<host, call, buf, polls, history>>
  BY DEF Command
<1>3. /\ card' \in CardType /\ card'.data = card.data /\ card'.kind = card.kind
      /\ card'.crc = card.crc /\ card'.error = card.error
  BY <1>1, Facts DEF CardType
<1>4. buf = <<>> /\ Len(buf) = 0 /\ call.count >= 1
  BY <1>2, EmptySequence DEF SdInv, CallInv, Starting
<1>5. SdTypeOK'
  <2>1. pc' \in Serving /\ status' \in Statuses
    BY <1>1 DEF Serving
  <2> QED  BY <1>1, <1>2, <1>3, <2>1, Facts, HistoryTypes, ServingTypes DEF SdInv
<1>6. KindInv'
  BY <1>1, <1>2, <1>3, KindKept DEF Serving
<1>7. CallInv'
  BY <1>1, <1>2, <1>4, Facts DEF CallInv, Starting, Writing
<1>8. ReadInv'
  BY <1>1, <1>2, <1>4 DEF ReadInv
<1>9. WriteInv'
  <2>1. before = card.data /\ UNCHANGED <<before, dropped, writes>>
    BY <1>2 DEF SdInv, WriteInv, Writing, Starting, history
  <2>2. ~dropped
    BY <1>2 DEF SdInv, WriteInv, Starting
  <2>3. OthersKept' /\ SentStored'
    BY <1>2, <1>3, <1>4, <2>1 DEF OthersKept, SentStored
  <2> QED  BY <1>1, <2>1, <2>2, <2>3, <1>3 DEF WriteInv, Writing, Starting
<1> QED  BY <1>5, <1>6, <1>7, <1>8, <1>9 DEF SdInv

LEMMA ReceiveStep == ASSUME SdInv, Receive PROVE SdInv'
<1> DEFINE n == Len(buf)
<1> DEFINE failed == n > 0 /\ buf[n] = Garbled
<1>1. /\ pc = "receive" /\ UNCHANGED <<card, host, call, polls, history>> /\ faults' \in 0 .. MaxFaults
      /\ \/ /\ First + n \in Blocks
            /\ \/ buf' = Append(buf, card.data[First + n])
               \/ buf' = Append(buf, Garbled)
            /\ status' = IF failed THEN "CRC" ELSE "NONE"
            /\ pc' = IF Expected(n + 1) /\ ~failed THEN "receive" ELSE "stop"
         \/ status' = "NO_RESPONSE" /\ pc' = "stop" /\ buf' = buf
  BY Counted DEF SdInv, Receive
<1>2. ~call.write /\ n < call.count /\ n \in Nat /\ call.count \in Nat
  BY <1>1, Facts DEF SdInv, CallInv
<1>3. pc' \in {"receive", "stop"} /\ status' \in Statuses
  BY <1>1 DEF Statuses
<1>4. CASE buf' = buf /\ status' = "NO_RESPONSE" /\ pc' = "stop"
  <2>1. SdTypeOK'
    BY <1>1, <1>3, <1>4, Facts, HistoryTypes, ServingTypes DEF SdInv, Serving
  <2>2. KindInv'
    BY <1>1, <1>3, KindKept DEF Serving
  <2>3. CallInv'
    BY <1>1, <1>2, <1>4 DEF SdInv, CallInv, Starting, Writing
  <2>4. ReadInv'
    BY <1>1, <1>4 DEF SdInv, ReadInv, Target, Known
  <2>5. WriteInv'
    BY <1>1, <1>4 DEF SdInv, WriteInv, Writing, Starting, history
  <2> QED  BY <2>1, <2>2, <2>3, <2>4, <2>5 DEF SdInv
<1>5. ASSUME NEW block, buf' = Append(buf, block), First + n \in Blocks,
             block \in {card.data[First + n], Garbled},
             status' = (IF failed THEN "CRC" ELSE "NONE"),
             pc' = IF Expected(n + 1) /\ ~failed THEN "receive" ELSE "stop"
      PROVE  SdInv'
  <2>1. block \in Contents \cup {Garbled}
    BY <1>5, Facts DEF CardType
  <2>2. /\ buf' \in Seq(Contents \cup {Garbled}) /\ Len(buf') = n + 1
        /\ \A i \in 1 .. n : buf'[i] = buf[i]
        /\ buf'[n + 1] = block
    BY <1>5, <2>1, Facts, SequenceFacts
  <2>3. SdTypeOK'
    BY <1>1, <1>2, <1>3, <2>2, Facts, HistoryTypes, ServingTypes DEF SdInv, Serving
  <2>4. KindInv'
    BY <1>1, <1>3, KindKept DEF Serving
  <2>5. CallInv'
    <3>1. pc' = "receive" => n + 1 < call.count
      BY <1>5, <1>2 DEF Expected
    <3> QED  BY <1>1, <1>2, <1>3, <2>2, <3>1 DEF CallInv, Starting, Writing
  <2>6. ReadInv'
    <3> HIDE DEF n, failed
    <3> SUFFICES ASSUME Known
                 PROVE  /\ \A i \in 1 .. Len(buf') : buf'[i] = Garbled \/ buf'[i] = card.data[Target(i)]
                        /\ ~failed => \A i \in 1 .. Len(buf') : i < Len(buf') => buf'[i] # Garbled
                        /\ pc' = "stop" /\ ~failed => Len(buf') = call.count
      BY <1>1, <1>3, <1>5 DEF ReadInv, Target, Known
    <3>1. /\ \A i \in 1 .. n : buf[i] = Garbled \/ buf[i] = card.data[Target(i)]
          /\ \A i \in 1 .. n : i < n => buf[i] # Garbled
      BY <1>1, <1>2 DEF SdInv, ReadInv, n
    <3>2. First = call.sector /\ call.sector \in Nat
      BY <1>1, FirstIsSector DEF SdInv, KindInv
    <3>3. First + n = Target(n + 1)
      BY <1>2, <3>2 DEF Target
    <3>4. \A i \in 1 .. n + 1 : i \in 1 .. n \/ i = n + 1
      BY <1>2
    <3>5. \A i \in 1 .. Len(buf') : buf'[i] = Garbled \/ buf'[i] = card.data[Target(i)]
      BY <1>5, <2>2, <3>1, <3>3, <3>4
    <3>6. ~failed => \A i \in 1 .. Len(buf') : i < Len(buf') => buf'[i] # Garbled
      <4> SUFFICES ASSUME ~failed, NEW i \in 1 .. n PROVE buf[i] # Garbled
        BY <1>2, <2>2
      <4>1. CASE i < n
        BY <3>1, <4>1
      <4>2. CASE i = n
        BY <1>2, <4>2 DEF failed
      <4> QED  BY <1>2, <4>1, <4>2
    <3>7. pc' = "stop" /\ ~failed => Len(buf') = call.count
      BY <1>2, <1>5, <2>2 DEF Expected
    <3> QED  BY <3>5, <3>6, <3>7
  <2>7. WriteInv'
    BY <1>1, <1>3 DEF SdInv, WriteInv, Writing, Starting, history
  <2> QED  BY <2>3, <2>4, <2>5, <2>6, <2>7 DEF SdInv
<1> QED  BY <1>1, <1>4, <1>5

LEMMA StopReadingStep == ASSUME SdInv, StopReading PROVE SdInv'
<1>1. /\ pc = "stop" /\ pc' = "done" /\ faults' \in 0 .. MaxFaults
      /\ card' = [card EXCEPT !.mode = "ready"] \/ card' = card
      /\ status' = IF status = "NONE" /\ buf[Len(buf)] = Garbled THEN "CRC" ELSE status
      /\ UNCHANGED <<host, call, buf, polls, history>>
  BY Counted, Facts DEF SdInv, StopReading, LastChecked
<1>2. ~call.write /\ call.count >= 1
  BY <1>1 DEF SdInv, CallInv, Starting
<1>3. card' \in CardType /\ card'.data = card.data /\ card'.kind = card.kind
  BY <1>1, Facts DEF CardType
<1>4. status' \in Statuses
  BY <1>1 DEF SdInv, SdTypeOK, Statuses
<1>5. SdTypeOK'
  BY <1>1, <1>3, <1>4, Facts, HistoryTypes, ServingTypes DEF SdInv, Serving
<1>6. KindInv'
  BY <1>1, <1>3, KindKept DEF Serving
<1>7. CallInv'
  BY <1>1, <1>2 DEF CallInv, Starting, Writing
<1>8. ReadInv'
  <2> SUFFICES ASSUME Known
               PROVE  /\ \A i \in 1 .. Len(buf) : buf[i] = Garbled \/ buf[i] = card.data[Target(i)]
                      /\ status' = "NONE" => /\ Len(buf) = call.count
                                             /\ \A i \in 1 .. Len(buf) : buf[i] # Garbled
    BY <1>1, <1>3 DEF ReadInv, Target, Known
  <2>1. /\ \A i \in 1 .. Len(buf) : buf[i] = Garbled \/ buf[i] = card.data[Target(i)]
        /\ status = "NONE" => \A i \in 1 .. Len(buf) : i < Len(buf) => buf[i] # Garbled
        /\ status = "NONE" => Len(buf) = call.count
    BY <1>1, <1>2 DEF SdInv, ReadInv
  <2>2. status' = "NONE" => status = "NONE" /\ buf[Len(buf)] # Garbled
    BY <1>1
  <2>3. \A i \in 1 .. Len(buf) : i < Len(buf) \/ i = Len(buf)
    BY Facts
  <2> QED  BY <2>1, <2>2, <2>3
<1>9. WriteInv'
  BY <1>1, <1>2 DEF WriteInv, Writing, Starting
<1> QED  BY <1>5, <1>6, <1>7, <1>8, <1>9 DEF SdInv
(* sd_write_block stores the block, or the card has an error to tell, or the       *)
(* result is not NONE; it writes to no other block of the card.                    *)
LEMMA WriteBlockStep ==
  ASSUME SdTypeOK, NEW b \in Int, NEW block \in Contents, NEW s, WriteBlock(b, block, s)
  PROVE  /\ card' \in CardType /\ card'.kind = card.kind /\ card'.crc = card.crc
         /\ faults' \in 0 .. MaxFaults
         /\ \A c \in Blocks : c # b => card'.data[c] = card.data[c]
         /\ card.error => card'.error
         /\ b \notin Blocks => card'.data = card.data
         /\ card.crc /\ s = "NONE" /\ ~card'.error => b \in Blocks /\ card'.data[b] = block
<1>1. card \in CardType
  BY DEF SdTypeOK, CardType
<1>2. faults' \in 0 .. MaxFaults
  BY Counted DEF WriteBlock
<1>3. CASE b \in Blocks /\ card' = [card EXCEPT !.data[b] = block]
  BY <1>1, <1>2, <1>3 DEF CardType
<1>4. CASE card' = [card EXCEPT !.error = TRUE] /\ s = "NONE"
  BY <1>1, <1>2, <1>4 DEF CardType
<1>5. CASE card' = card /\ s = "WRITE"
  BY <1>1, <1>2, <1>5
<1>6. CASE b \in Blocks /\ ~card.crc /\ card' = [card EXCEPT !.data[b] = Torn]
  <2>1. Torn \in Contents
    BY DEF Contents
  <2> QED  BY <1>1, <1>2, <1>6, <2>1 DEF CardType
<1> QED  BY <1>3, <1>4, <1>5, <1>6 DEF WriteBlock

LEMMA SendStep == ASSUME SdInv, Send PROVE SdInv'
<1> DEFINE n == Len(buf)
<1> DEFINE block == <<writes, n + 1>>
<1>1. PICK s \in {"NONE", "WRITE"} :
        /\ WriteBlock(First + (n + 1) - 1, block, s)
        /\ buf' = Append(buf, block)
        /\ dropped' = (s # "NONE")
        /\ pc' = IF ~Multiple THEN "status"
                 ELSE IF Expected(n + 1) /\ s = "NONE" THEN "send" ELSE "stoptran"
  BY DEF Send
<1>2. pc = "send" /\ UNCHANGED <<host, call, status, polls, before, writes, resets>>
  BY DEF Send
<1>3. call.write /\ n < call.count /\ n \in Nat /\ call.count \in Nat /\ ~dropped
      /\ call.count >= 1
  BY <1>2, Facts DEF SdInv, CallInv, WriteInv, Writing, Starting
<1>4. block \in Contents
  <2>1. n + 1 \in 0 .. NBlocks + MaxCount /\ writes \in 0 .. MaxWrites
    BY <1>3, Facts, Constants DEF SdInv, SdTypeOK
  <2> QED  BY <2>1 DEF Contents
<1>5. First \in Int
  BY Facts, Constants DEF First, Addr
<1> DEFINE b == First + n
<1>6. b \in Int /\ First + (n + 1) - 1 = b
  BY <1>3, <1>5
<1>7. /\ card' \in CardType /\ card'.kind = card.kind /\ card'.crc = card.crc
      /\ faults' \in 0 .. MaxFaults
      /\ \A c \in Blocks : c # b => card'.data[c] = card.data[c]
      /\ card.error => card'.error
      /\ b \notin Blocks => card'.data = card.data
      /\ card.crc /\ s = "NONE" /\ ~card'.error => b \in Blocks /\ card'.data[b] = block
  BY <1>1, <1>4, <1>6, WriteBlockStep DEF SdInv
<1>8. /\ buf' \in Seq(Contents \cup {Garbled}) /\ Len(buf') = n + 1
  BY <1>1, <1>4, Facts, SequenceFacts
<1>9. pc' \in {"status", "send", "stoptran"} /\ dropped' \in BOOLEAN
  BY <1>1
<1>10. SdTypeOK'
  <2>1. /\ writes' \in 0 .. MaxWrites /\ resets' \in 0 .. MaxResets
        /\ before' \in [Blocks -> Contents] /\ status' \in Statuses
    BY <1>2 DEF SdInv, SdTypeOK
  <2> QED  BY <1>2, <1>3, <1>7, <1>8, <1>9, <2>1, Facts, ServingTypes DEF SdInv, Serving
<1>11. KindInv'
  BY <1>2, <1>7, <1>9, KindKept DEF Serving
<1>12. pc' = "send" => n + 1 < call.count /\ s = "NONE"
  BY <1>1, <1>3 DEF Expected
<1>13. CallInv'
  BY <1>2, <1>3, <1>8, <1>9, <1>12 DEF CallInv, Starting, Writing
<1>14. ReadInv'
  BY <1>9 DEF ReadInv
<1>15. pc' \in {"stoptran", "status"} /\ ~dropped' => Len(buf') = call.count
  <2>1. ~dropped' => s = "NONE"
    BY <1>1
  <2>2. pc' = IF ~Multiple THEN "status"
              ELSE IF Expected(n + 1) /\ s = "NONE" THEN "send" ELSE "stoptran"
    BY <1>1
  <2> HIDE DEF n, block
  <2>3. CASE ~Multiple
    BY <1>3, <1>8, <2>3 DEF Multiple
  <2>4. CASE Multiple
    <3>1. pc' # "send" /\ s = "NONE" => ~(n + 1 < call.count)
      BY <2>2, <2>4 DEF Expected
    <3> QED  BY <1>3, <1>8, <2>1, <3>1
  <2> QED  BY <2>3, <2>4
<1>16. ASSUME Known PROVE OthersKept' /\ SentStored'
  <2> HIDE DEF n, block
  <2>1. First = call.sector /\ call.sector \in Nat
    BY <1>2, <1>16, FirstIsSector DEF SdInv, KindInv
  <2>2. b = Target(n + 1) /\ b \in call.sector .. call.sector + call.count - 1
    BY <1>3, <2>1 DEF Target
  <2>3. OthersKept
    BY <1>2, <1>3, <1>16 DEF SdInv, WriteInv, Writing
  <2>4. OthersKept'
    BY <1>2, <1>7, <2>2, <2>3 DEF OthersKept
  <2>5. SentStored
    BY <1>2, <1>16 DEF SdInv, WriteInv, Writing
  <2> SUFFICES ASSUME card.crc, ~dropped', ~card'.error, NEW i \in 1 .. n + 1
               PROVE  card'.data[Target(i)] = <<writes, i>>
    BY <1>2, <1>7, <1>8, <2>4 DEF SentStored, Target
  <2>6. b \in Blocks /\ card'.data[b] = block
    BY <1>1, <1>7
  <2>7. CASE i = n + 1
    BY <2>2, <2>6, <2>7 DEF block
  <2>8. CASE i \in 1 .. n
    <3>1. card.data[Target(i)] = <<writes, i>>
      BY <1>3, <1>7, <2>5, <2>8 DEF SentStored, n
    <3>2. Target(i) \in Blocks /\ Target(i) # b
      <4>1. i \in Nat /\ i >= 1 /\ i < n + 1
        BY <1>3, <2>8
      <4>2. Target(i) < b /\ Target(i) >= 0 /\ Target(i) \in Int
        BY <1>3, <2>1, <2>2, <4>1 DEF Target
      <4> QED  BY <1>6, <2>6, <4>2, Constants DEF Blocks
    <3> QED  BY <1>7, <3>1, <3>2
  <2> QED  BY <1>3, <2>7, <2>8
<1>17. WriteInv'
  BY <1>1, <1>2, <1>3, <1>9, <1>12, <1>15, <1>16 DEF WriteInv, Writing, Starting, Known
<1> QED  BY <1>10, <1>11, <1>13, <1>14, <1>17 DEF SdInv

LEMMA StopTranStep == ASSUME SdInv, StopTran PROVE SdInv'
<1>1. /\ pc = "stoptran" /\ pc' = "status" /\ UNCHANGED <<host, polls, call, buf, status, history>>
      /\ card' = [card EXCEPT !.mode = "ready"] \/ card' = card
      /\ Fault \/ UNCHANGED faults
  BY DEF StopTran, calling
<1>2. /\ card' \in CardType /\ card'.data = card.data /\ card'.kind = card.kind
      /\ card'.crc = card.crc /\ card'.error = card.error
  BY <1>1, Facts DEF CardType
<1>3. call.write /\ call.count >= 1
  BY <1>1 DEF SdInv, CallInv, Starting, Writing
<1>4. SdTypeOK'
  <2>1. status' \in Statuses /\ faults' \in 0 .. MaxFaults
    BY <1>1, Counted DEF SdInv, SdTypeOK
  <2> QED  BY <1>1, <1>2, <2>1, Facts, HistoryTypes, ServingTypes DEF SdInv, Serving
<1>5. KindInv'
  BY <1>1, <1>2, KindKept DEF Serving
<1>6. CallInv'
  BY <1>1, <1>3 DEF CallInv, Starting, Writing
<1>7. ReadInv'
  BY <1>1 DEF ReadInv
<1>8. WriteInv'
  <2>1. UNCHANGED <<before, dropped, writes>>
    BY <1>1 DEF history
  <2>2. (OthersKept => OthersKept') /\ (SentStored => SentStored')
    BY <1>1, <1>2, <2>1 DEF OthersKept, SentStored, Target
  <2> QED  BY <1>1, <2>1, <2>2 DEF SdInv, WriteInv, Writing, Starting, Known
<1> QED  BY <1>4, <1>5, <1>6, <1>7, <1>8 DEF SdInv

LEMMA SendStatusStep == ASSUME SdInv, SendStatus PROVE SdInv'
<1>1. PICK s \in Statuses :
        /\ SdCmd("CMD13", s)
        /\ status' = IF s = "NONE" /\ card.error THEN "WRITE" ELSE s
        /\ card' = IF s = "NONE" THEN [card EXCEPT !.error = FALSE] ELSE card
  BY DEF SendStatus, Programmed
<1>2. pc = "status" /\ pc' = "done" /\ UNCHANGED <<host, call, buf, polls, history>>
  BY DEF SendStatus
<1>3. /\ card' \in CardType /\ card'.data = card.data /\ card'.kind = card.kind
      /\ card'.crc = card.crc
  BY <1>1, Facts DEF CardType
<1>4. call.write /\ call.count >= 1
  BY <1>2 DEF SdInv, CallInv, Starting, Writing
<1>5. SdTypeOK'
  <2>1. status' \in Statuses /\ faults' \in 0 .. MaxFaults
    BY <1>1, Counted DEF SdInv, Statuses
  <2> QED  BY <1>2, <1>3, <2>1, Facts, HistoryTypes, ServingTypes DEF SdInv, Serving
<1>6. KindInv'
  BY <1>2, <1>3, KindKept DEF Serving
<1>7. CallInv'
  BY <1>2, <1>4 DEF CallInv, Starting, Writing
<1>8. ReadInv'
  BY <1>2, <1>4 DEF ReadInv
<1>9. WriteInv'
  <2>1. UNCHANGED <<before, dropped, writes>>
    BY <1>2 DEF history
  <2>2. Known => OthersKept /\ SentStored
    BY <1>2, <1>4 DEF SdInv, WriteInv, Writing
  <2>3. ~dropped => Len(buf) = call.count
    BY <1>2 DEF SdInv, WriteInv
  <2>4. Known => OthersKept'
    BY <1>2, <1>3, <2>1, <2>2 DEF OthersKept
  <2>5. status' = "NONE" => ~card.error
    BY <1>1
  <2>6. Known /\ status' = "NONE" /\ card.crc /\ ~dropped => AllStored'
    BY <1>2, <1>3, <2>1, <2>2, <2>3, <2>5 DEF SentStored, AllStored, Target
  <2> QED  BY <1>2, <1>3, <1>4, <2>1, <2>4, <2>6 DEF WriteInv, Writing, Starting, Known
<1> QED  BY <1>5, <1>6, <1>7, <1>8, <1>9 DEF SdInv

LEMMA ReturnStep == ASSUME SdInv, Return PROVE SdInv'
<1>1. /\ pc = "done" /\ pc' = "ready" /\ call' = NoCall /\ buf' = <<>> /\ status' = "NONE"
      /\ dropped' = FALSE /\ before' = card.data
      /\ UNCHANGED <<card, host, polls, writes, faults, resets>>
  BY DEF Return
<1>2. NoCall \in CallType /\ NoCall.count = 0
  BY Constants DEF CallType, NoCall
<1>3. <<>> \in Seq(Contents \cup {Garbled}) /\ Len(<<>>) = 0
  BY EmptySequence
<1>4. SdTypeOK'
  <2>1. writes' \in 0 .. MaxWrites /\ resets' \in 0 .. MaxResets /\ faults' \in 0 .. MaxFaults
    BY <1>1 DEF SdInv, SdTypeOK
  <2>2. before' \in [Blocks -> Contents] /\ card' \in CardType
    BY <1>1, Facts DEF CardType
  <2>3. pc' \in Serving /\ status' \in Statuses /\ dropped' \in BOOLEAN
    BY <1>1 DEF Serving, Statuses
  <2> QED  BY <1>1, <1>2, <1>3, <2>1, <2>2, <2>3, ServingTypes DEF SdInv
<1>5. KindInv'
  BY <1>1, KindKept DEF Serving
<1> QED  BY <1>1, <1>4, <1>5 DEF SdInv, CallInv, ReadInv, WriteInv, Writing, Starting

LEMMA ResetStep == ASSUME SdInv, Reset PROVE SdInv'
<1>1. /\ pc' = "reset" /\ host' = [type |-> "NONE", sectors |-> 0]
      /\ call' = NoCall /\ buf' = <<>> /\ status' = "NONE" /\ polls' = 0
      /\ dropped' = FALSE /\ before' = card.data
      /\ resets < MaxResets /\ resets' = resets + 1 /\ UNCHANGED <<card, writes, faults>>
  BY DEF Reset
<1>2. NoCall \in CallType /\ NoCall.count = 0
  BY Constants DEF CallType, NoCall
<1>3. <<>> \in Seq(Contents \cup {Garbled}) /\ Len(<<>>) = 0
  BY EmptySequence
<1>4. SdTypeOK'
  <2>1. writes' \in 0 .. MaxWrites /\ faults' \in 0 .. MaxFaults
    BY <1>1 DEF SdInv, SdTypeOK
  <2>2. resets' \in 0 .. MaxResets /\ polls' \in 0 .. MaxPolls
    BY <1>1, Constants DEF SdInv, SdTypeOK
  <2>3. before' \in [Blocks -> Contents] /\ card' \in CardType
    BY <1>1, Facts DEF CardType
  <2>4. host' \in HostType /\ status' \in Statuses /\ dropped' \in BOOLEAN
    BY <1>1 DEF HostType, Types, Statuses
  <2>5. Len(buf') <= call'.count
    BY <1>1, <1>2, <1>3
  <2> QED
    BY <1>1, <1>2, <1>3, <2>1, <2>2, <2>3, <2>4, <2>5 DEF SdTypeOK, CallType, HostType, CardType
<1>5. KindInv'
  BY <1>1 DEF KindInv
<1> QED  BY <1>1, <1>4, <1>5 DEF SdInv, CallInv, ReadInv, WriteInv, Writing, Starting

LEMMA SdStutter == ASSUME SdInv, UNCHANGED sdVars PROVE SdInv'
<1>1. UNCHANGED <<card, host, pc, call, buf, status, polls, before, dropped, writes, faults, resets>>
  BY DEF sdVars
<1>2. SdTypeOK' /\ KindInv' /\ CallInv'
  BY <1>1 DEF SdInv, SdTypeOK, KindInv, CallInv, Known
<1>3. ReadInv' /\ WriteInv'
  BY <1>1 DEF SdInv, ReadInv, WriteInv, Known, Target, OthersKept, SentStored, AllStored
<1> QED  BY <1>2, <1>3 DEF SdInv

-----------------------------------------------------------------------------
(* The inductive invariant of the initialisation and of both transfers holds        *)
(* (sd_card_spi.c:705-905, 950-1090).                                             *)
THEOREM SdInvariant == SdSpec => []SdInv
<1>1. SdInit => SdInv
  <2> SUFFICES ASSUME SdInit PROVE SdInv
    OBVIOUS
  <2>1. PICK k \in Kinds :
          card = [kind |-> k, mode |-> "ready", crc |-> FALSE, error |-> FALSE,
                  data |-> [b \in Blocks |-> <<0, b>>]]
    BY DEF SdInit
  <2>2. /\ host = [type |-> "NONE", sectors |-> 0] /\ pc = "reset" /\ call = NoCall /\ buf = <<>>
        /\ status = "NONE" /\ polls = 0 /\ before = card.data /\ dropped = FALSE
        /\ writes = 0 /\ faults = 0 /\ resets = 0
    BY DEF SdInit
  <2>3. \A b \in Blocks : <<0, b>> \in Contents
    BY Constants DEF Blocks, Contents
  <2>4. card \in CardType /\ before \in [Blocks -> Contents]
    BY <2>1, <2>2, <2>3 DEF CardType
  <2>5. call \in CallType /\ call.count = 0
    BY <2>2, Constants DEF CallType, NoCall
  <2>6. <<>> \in Seq(Contents \cup {Garbled}) /\ Len(<<>>) = 0
    BY EmptySequence
  <2>7. /\ 0 \in 0 .. MaxPolls /\ 0 \in 0 .. MaxWrites /\ 0 \in 0 .. MaxFaults /\ 0 \in 0 .. MaxResets
        /\ Len(buf) <= call.count
    BY <2>2, <2>5, <2>6, Constants
  <2>8. host \in HostType /\ status \in Statuses /\ dropped \in BOOLEAN
    BY <2>2 DEF HostType, Types, Statuses
  <2>9. SdTypeOK
    BY <2>2, <2>4, <2>5, <2>6, <2>7, <2>8 DEF SdTypeOK, CardType, CallType, HostType
  <2> QED
    BY <2>2, <2>9 DEF SdInv, KindInv, CallInv, ReadInv, WriteInv, Starting, Writing
<1>2. SdInv /\ [SdNext]_sdVars => SdInv'
  <2> SUFFICES ASSUME SdInv, [SdNext]_sdVars PROVE SdInv'
    OBVIOUS
  <2>1. CASE GoIdle \/ SendIfCond \/ CrcOn \/ ReadOcr \/ Finishes \/ SendOpCond
    BY <2>1, GoIdleStep, SendIfCondStep, CrcOnStep, ReadOcrStep, FinishesStep, SendOpCondStep
  <2>2. CASE ReadCcs \/ ReadCsd \/ ReadCid \/ Halted \/ UNCHANGED sdVars
    BY <2>2, ReadCcsStep, ReadCsdStep, ReadCidStep, SdStutter DEF Halted
  <2>3. CASE \E write \in BOOLEAN, sector \in Blocks, count \in 1 .. MaxCount :
               Request(write, sector, count)
    BY <2>3, RequestStep
  <2>4. CASE Command \/ Receive \/ StopReading \/ Send \/ StopTran \/ SendStatus
    BY <2>4, CommandStep, ReceiveStep, StopReadingStep, SendStep, StopTranStep, SendStatusStep
  <2>5. CASE Return \/ Reset
    BY <2>5, ReturnStep, ResetStep
  <2> QED  BY <2>1, <2>2, <2>3, <2>4, <2>5 DEF SdNext
<1> QED  BY <1>1, <1>2, PTL DEF SdSpec

(* Every variable keeps its type; no more blocks are transferred than the call has *)
(* room for (sd_card_spi.c:722-762, 886-889).                                     *)
THEOREM SdTypeHolds == SdSpec => []SdTypeOK
  BY SdInvariant, PTL DEF SdInv

(* disk_read returns RES_OK only with the blocks asked for as they are on the card,  *)
(* on every kind of card whose type was found out (in_sd_read_blocks).             *)
THEOREM ReadsTrueHolds == SdSpec => []ReadsTrue
<1>1. SdInv => ReadsTrue
  <2> SUFFICES ASSUME SdInv, Done, ~call.write, Known
               PROVE  /\ Len(buf) = call.count
                      /\ \A i \in 1 .. call.count : buf[i] = card.data[call.sector + i - 1]
    BY DEF ReadsTrue
  <2>1. pc = "done" /\ status = "NONE"
    BY DEF Done, Dresult
  <2> QED  BY <2>1 DEF SdInv, ReadInv, Target
<1> QED  BY <1>1, SdInvariant, PTL

(* disk_write, on a card whose type was found out, changes no block but those asked  *)
(* for, and RES_OK means that they are stored, if the card checks CRCs and no result *)
(* was dropped (in_sd_write_blocks).                                                *)
THEOREM WritesStoredHolds == SdSpec => []WritesStored
<1>1. SdInv => WritesStored
  <2> SUFFICES ASSUME SdInv, pc = "done", call.write, Known
               PROVE  OthersKept /\ (Done /\ card.crc /\ ~dropped => AllStored)
    BY DEF WritesStored, OthersKept
  <2>1. Done => status = "NONE"
    BY DEF Done, Dresult
  <2> QED  BY <2>1 DEF SdInv, WriteInv, Writing
<1> QED  BY <1>1, SdInvariant, PTL
=============================================================================
