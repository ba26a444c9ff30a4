# Pico Pirate in TLA+

TLA+ models of the two Raspberry Pi Pico W stations of this repository, TLC runs
that check them on small instances, and TLAPS proofs for all sizes.

**Station 1** (`src/src`) records the edges of a digital signal, stores them on an
SD card with a timestamp from NTP and replays them. **Station 2**
(`src/station2`) measures a PWM signal, an analog signal and a UART line, and
shows what it found on a web dashboard of its own WiFi access point, for which it
runs a DHCP and a DNS server. Both are bare-metal C: one main loop, interrupt
handlers that preempt it anywhere, and lwIP callbacks that run only when the loop
polls. Paths below are relative to the repository root `src/`.

## 1. Inventory

| Component | State | Operations | Modules |
|---|---|---|---|
| Pulse capture (`src/buddy2/digital.c:14-88`) | `capture`: transitions, `capturing`, `start_time`, `expecting_high` | `gpio_callback`, `start_pulse_capture`, `is_capture_complete` | `PulseRecord`, `PulseCapture` |
| Pulse file (`digital.c:153-271`, `src/buddy1/sd_card.c`) | lines of `PULSE_FILE`, the card | `save_pulses_to_file`, `load_pulses_from_file`, `writeDataToSD` | `PulseStore`, `PulseLog` |
| FatFs (`lib/…/ff15/source/ff.c`) | FAT, directory entry and FSInfo on the card; window, `FATFS`, `FIL`, `Files[]` | `f_mount`, `f_open`, `f_lseek`, `f_truncate`, `f_write`, `f_sync`, `f_close`, as `writeDataToSD` uses them | `FatFile`, `LineFile` |
| SD card driver (`lib/…/sd_driver/SPI/sd_card_spi.c`, `glue.c`) | the card, `card_type`, `sectors` | `disk_initialize`, `disk_read`, `disk_write`, command by command | `SdCardSpi` |
| Pulse replay (`digital.c:90-150`) | output pin, `last_transition_time` | `replay_pulses` | `PulseReplay` |
| Station 1 main (`src/main.c`) | `capture_handled` | boot, keys, completion check | `Station1` |
| Clock (`src/buddy5/wifi.c`) | `current_time`, `time_init` | `ntp_init`, SNTP callback, `get_timestamp` | `NtpClock` |
| PWM analyzer (`station2/buddy2/pwm.c`) | `pwm_metrics` | edge handler, start, stop, getters | `PwmAnalyzer` |
| ADC analyzer (`station2/buddy2/adc.c`) | `adc_config`, DMA channel, buffer | DMA handler, start, stop, analyze | `AdcAnalyzer` |
| Protocol analyzer (`station2/buddy3/protocol_analyzer.c`) | `protocol_metrics`, edge buffer | edge handler, UART analysis, start, stop | `ProtocolAnalyzer` |
| Station 2 main (`station2/station2.c`) | `last_button_time`, `dashboard_data` | `gpio_callback`, main loop | `Station2` |
| DHCP server (`station2/buddy5/dhcpserver`) | eight leases: MAC, 16-bit expiry | DISCOVER, REQUEST | `DhcpServer` |
| Dashboard (`station2/buddy5/wifi_dashboard.c`) | `current_data`, connections | accept, receive, sent, update | steps of `Station2` only |
| DNS server (`station2/buddy5/dnsserver`) | none | answer a query | none |
| SWD identification (`station2/buddy4/swd.c`) | target's debug port | bit-banged reads at boot | none |

How they interact, and where it is hard:

* *Shared memory with interrupts.* Station 1's `capture` is written by the GPIO
  handler and by main, with no lock and no `volatile` on its fields; main resets
  it with the interrupt enabled, saves it row by row and replays it. Station 2's
  one GPIO handler serves three buttons and two signals and shares a debouncing
  time between them; the DMA handler and the ADC button both start and stop the
  channel; main copies metrics field by field.
* *Calls.* Station 1's main calls capture, store, replay and clock in turn, and
  one flag, `capture_handled`, says whether the record was saved.
* *Persistence.* Every row of a capture is an open, append and close of its own
  with the result dropped, so any call may fail, and power may fail, between two.
  Below, each of them is a handful of sector writes (FAT, data, directory, FSInfo)
  that reach the card one by one, through a window of a single sector; and each
  sector write is a conversation with the card in which a command may go
  unanswered and a block may be garbled, refused or not programmed.
* *Time.* Everything is measured on 32-bit microsecond timers that wrap (71
  minutes; 49 days for the millisecond timer of DHCP), captures are told apart by
  whole seconds.
* *Messages.* DHCP runs over datagrams that are lost, repeated and reordered; the
  server forgets its leases when the station restarts, its clients do not.

What makes each component correct, in a line:

* capture: records alternate, are complete and balanced, intervals are those of
  the signal, whatever the interrupt hits; a capture ends;
* file: what is loaded is the capture saved last; faults shorten it at worst;
* FatFs: whatever write fails and wherever power does, no chain leads to a free
  cluster, a full volume is noticed only when it is full, the file stays readable
  up to its size and a line reported as written is there; every write ends;
* driver: what is read is what is on the card, what is not to be written is not
  touched, a failure the card tells of is passed on;
* replay: no gap is cut short, the output ends low, the replay ends;
* station 1: each capture is saved once, and unchanged while in use;
* clock: within a second of the true time, bounded wait;
* station 2: reported values belong to the present capture; the DMA channel runs
  just while its capture does; buttons work;
* DHCP: an address has one holder; expiry survives the wrap of the timer.

`PROJECT.json` lists the hazards behind these, line by line, with the properties
that cover each, and those no property covers yet with the reason.

## 2. Modules

The modules keep the names of the source. Variables marked *history* in them are
not in the code; no guard of the code's actions reads them.

**`PulseRecord`** is the record itself, `transitions`, with the size of the array and the
width of the timer: what capture and store share.

**`PulseCapture`.** `gpio_callback` is one action, since main never preempts it;
`StartMemset` and `Store(f)` are the memset and the three stores of
`start_pulse_capture`, with interrupts between any two. The fields are not
`volatile`, so C leaves the order of the stores open: `Orders` holds the orders a
build may have, `SourceOrder` being the one of the text, `{}` any. Both edges of a
pin may be latched before the handler runs (`pending`); it then takes the call
for a rise.

**`PulseStore`** keeps the file as a sequence of lines, written by `SaveHeader`
and `SaveRow`, one step per `writeDataToSD`. `WriteOutcomes` has what each call of
it may leave, including a first open that fails where the second succeeds
and so does not truncate. A *regime* fixes which FatFs calls may fail in a behaviour, how often
power may, how far captures are apart, and how far the clock may step back at a
boot. A line is written whole or not at all here; `FatFile` has what FatFs makes
of a call, a full volume included, which `PulseStore` leaves out. Loading is one
step, as nothing interferes with it (it stops the capture first); its loop over the lines
is the recursive function of `Pass`. `NoFileAssumption` says that the value for "no file" is
not a file. `LoadFindsLatest` says without a recursion what the loop is to find: `IsLatest`, the
rows of the greatest timestamp, in order, as many as the record has room for.
**`PulseLog`** is the abstract specification: a log of pulse trains.
`PulseStore` implements it (`StoreIsLog`), trains being levels and gaps, since
each load counts times from a new `start_time`.

**`FatFile`** is `writeDataToSD` through FatFs down to the sectors. A step makes at
most one `disk_write`; the window (`win`), the file's own buffer (`fp.buf`) and
`FATFS` (`vol`) are the program's, `card` is what power leaves. `meta` is FAT and
directory entry as the program sees them: the card's, with the window's sector over
it. `pc` names the access that comes next, in the order of the code: look for the
entry, seek along the chain, fill the buffer; free the old chain; look for a free
cluster, mark it, link it; write the buffer; then data, entry, window and FSInfo in
`f_sync`. Each access may fail (`Fault`), a failed write may have been made, and
`Fails` has the early return that follows: in `f_close` it leaves the file's lock set.
Data are units, `LineUnits` of them to a line; a sector is old or new, never torn.
Left out are FAT12, FAT16 and exFAT, the second copy of the FAT, which is never
read, the writes of other files, of which there are none, and a root directory of
more than one sector.
**`LineFile`** is what the caller may count on, a file that grows by whole lines, or
by the beginning of one when the volume is full; `FatFile` implements it
(`FileIsLog`), the file being what `f_read` would find.

**`SdCardSpi`** is the driver against a card of one of three kinds: initialisation,
`in_sd_read_blocks` and `in_sd_write_blocks`, a step for each command or block. `SdCmd`
has the driver's retries in it: what it returns is the card's answer, no answer, or a
CRC error. The card is external, after how the driver treats it: what it is doing
(`mode`), whether it checks CRCs, and an error it will tell to CMD13. A restart of
the microcontroller (`Reset`) finds the card as it was. Assumed: a command that is
not answered was not executed, an answer is not misread, a CRC sees every change.
`FatFile` takes `disk_write` at its word; where the driver does not keep it is
`sdcard_write`, in section 6.

**`PulseReplay`** has the polling loop and its wrapping target time. The time is read
after the pin is set, so `Put` and `Stamp` are two steps.

**`Station1`** extends `PulseCapture` and `PulseStore`, which have the record in common:
boot, one action per key, the completion check, saving, with the
interrupt, the clock and power cuts between any two steps. A replay only takes
time here; its timing is `PulseReplay`'s.

**`NtpClock`** has the connection, the waiting loop with its 32-bit timeout and
`get_timestamp`, which uses the 64-bit timer.

**`PwmAnalyzer`, `ProtocolAnalyzer`, `AdcAnalyzer`** hold the state and handlers
of the analyzers; frequencies are kept as the periods they are computed from,
errors in percent as fractions. The samples of the ADC are left out.
**`Station2`** extends the three: `Interrupt` is `gpio_callback` with its
debouncing, `DmaFill` and `DmaInterrupt` the hardware and its handler, and the
main loop is one action per shared read or write. A *wiring* picks the pins on
which something happens in a behaviour. Boot is the initial state: the interrupts
are enabled after two seconds. The history `rises` is kept at the pin of the PWM
signal, whatever the handler does with an edge: the rising edges of the present
capture from the last one on that had an interrupt of its own. With no edges that
share their interrupt it holds the last edge alone.

**`DhcpServer`** has the lease table, `Discover` and `Request` with the code's
16-bit expiry, the devices (external, after RFC 2131: an answer must belong to the
transaction under way, a lease counts from the moment the REQUEST was sent) and a
network that keeps each datagram until its transaction is over, to arrive any
number of times. Datagrams of earlier transactions stay as `stale`.

Modelling assumptions, beyond those: in `Station2` a round of the main loop takes
less than a tick, the handler runs at most once per pin and tick, and aborting a
DMA channel may raise its interrupt; in `DhcpServer` a restart of the access point
makes every device join again and be acknowledged
anew. A device that RFC 2131 lets keep its address when nobody answers is outside
`NoTwoHolders`.

## 3. Runs

| Run | Question | Instance |
|---|---|---|
| `capture` | shape and intervals of every record; captures end | 4 transitions, both extreme store orders, clock modulo 3 up to 4 |
| `store` | one pass finds the latest capture; faults only shorten; log of trains | 2 transitions, 2 captures, clock modulo 2, 3 seconds, 5 regimes |
| `fatfs` | chains sound, free count not too small, file a log of lines, every write ends | 3 clusters of 2 sectors of 2 units, lines of 2, 3 lines, 2 failing accesses, 1 power cut, six cards |
| `sdcard` | reads are true, writes stored or reported | 3 kinds of card, 4 blocks of 2 bytes, up to 3 at once, 2 writes, 2 faults, a restart |
| `replay` | gaps kept, ends low, ends | all alternating trains of up to 3 transitions, clock modulo 4, every phase |
| `station1` | saved once, stable while in use, handled in the end | 2 transitions, 2 captures, a power cut or failing writes |
| `clock` | timestamp accurate, wait bounded | 3 ticks a second, timer modulo 8, uptime 30, four boot times |
| `station2` | readings are of the present capture; ADC follows it | 4 wirings, timer modulo 8 up to 9, buffer of 4 edges |
| `dhcp` | one holder, exact expiry, offers are free | 2 devices, 2 addresses, lease 2, timer modulo 8 up to 10, cut to multiples of 2 |
| `station1_phantom`, `station2_buttons`, `sdcard_write` | one disagreement each, section 6 | |

Why the bounds are enough: every clock runs past its wrap (`ClockMod` <
`MaxClock`; DHCP starts at 5 of 8 and runs to 10; the replay starts at every
phase); records, edge buffers and lease tables fill up and are offered more; two
captures, two devices and two addresses are the fewest with which one can be
mixed up with the other; a power cut meets each point of a save. `MaxStale` = 1
lets one datagram of an earlier transaction arrive at any later time, any number
of times. In `station1` the clock stands still (`ClockMod` = 1), as intervals are
`capture`'s question. `fatfs` starts from cards with
no file, with one whose length is odd, so that lines cross sectors and clusters, in
order and out of order, with a free cluster after and before the one suggested, and
full ones, with the free count known, unknown or zero; two FAT entries are in one
sector and the third is in another, so that the window has to move between marking
and linking; three lines fill the card from empty. Two failures are enough to lose
a write and the repair that would follow it, and a power cut then meets every order
of the sectors. `sdcard`: three blocks have a first, one in between and a last; with
four blocks of two bytes an address taken in the wrong unit is another block's, or
none's; two faults can hide each other, and two writes tell new blocks from old. The
wirings of `station2` are the PWM signal with its button, the UART line with its
button, the three buttons together, and the UART line with two buttons: the analyzers share nothing but the debouncing.

Deadlock is checked, except in `station2`, where the bound on the clock ends
behaviours while the main loop sleeps. Symmetry is used for the devices of DHCP,
where no liveness is checked.

Each property has a mutant in `PROJECT.json`, a plausible bug that it catches.

**Fairness.** `CaptureFairSpec`: the signal goes on toggling, the interrupt
controller serves what is pending, main goes on between interrupts; `CaptureEnds`
also assumes that in the end the handler keeps up with the signal, without which
a rise and a fall seen as one call may be recorded as nothing for ever.
`Station1FairSpec`: main goes on, because each interrupt handler ends.
`ClockFairSpec`: the loops of the boot go on. `ReplayFairSpec`: the timer runs and
main runs; `Put` is strongly fair, since the polling loop reads the timer about as
often as it ticks: a target near the end of the timer's range, which may be passed
over in one round of the timer, is not passed over in every round. `FatSpec`: the
program goes on, because the driver ends every access with an answer or a time-out;
the caller need not make a next call. No fairness is asked of SNTP, of a user, or of the network.

## 4. Proofs

`Station1Proofs`, about the capture alone, for every clock width, set of store orders and
even array size (`CaptureAssumption`; the record is counted in highs and lows, `digital.h:11`):

* `TypeCorrect`: `CaptureTypeOK`; the handler never writes past the array.
* `SeamCorrect`: `OneSeam`. A record normally alternates from a HIGH; an interrupt in the
  middle of `start_pulse_capture` can leave one seam, HIGH after HIGH, in a record
  that began with a LOW, never a second. `OneSeam` says nothing of
  `expecting_high`, on which the next edge depends, so the inductive invariant
  `SeamInv` gives the shape of the record (alternating from a LOW, or so up to an
  even place and from a HIGH after it) together with what is expected next, and that the
  first shape holds until `expecting_high` has been stored.
* `CompleteIsBalancedHolds`: `CompleteIsBalanced`, from `SeamInv`. An even number of
  edges goes before a seam, so places 2k - 1 and 2k always differ in level: `Partner` takes one to
  the other, which is an injection both ways between the HIGHs and the LOWs of a full record.
* `IntervalsCorrect`: `IntervalsExact`. `TimesInv` says of every time in the record what
  `IntervalsExact` says of neighbours: it counts from `start_time`, modulo the clock. That
  is so because, in source order, a record that begins with a HIGH was begun after the last
  of the stores; `SeamInv` is what tells that its first edge waited for it.

The same module, about the whole station, for every record size, order of stores, regime of
faults and power cuts:

* `SavedOnceHolds`: `SavedOnce`. The flag `capture_handled` says nothing of what was saved, so
  `Fresh` adds that a capture is unsaved as long as the flag is clear, `Numbered` that a new one
  was never saved; loading a train makes it nobody's capture.
* `RecordStableHolds`: `RecordStableInUse`, from `InUse`: nothing captures while main saves or
  replays. In `save` that is because `is_capture_complete` asked for it and only a key,
  which is not read meanwhile, could change it.
* `Station1TypeHolds`: `Station1TypeOK`. `Typed1` needs `InUse` too: the row that is being written is
  one of the record, because no interrupt empties the record during a save.
* `Station1LoadsLatest`: `LoadFindsLatest` of the store, when the records that are saved come
  from the interrupt and the steps of the save interleave with it.

`PulseStoreProofs`, for every record size, clock width, number of captures and set of regimes,
from `RecordAssumption`, `StoreAssumption` and `NoFileAssumption`:

* `StoreTypeHolds`: `StoreTypeOK`; a load never fills more than the array. `Typed` adds that during
  a save the row to be written is in the record, without which a row's number has no type.
* `LoadFindsLatestHolds`: `LoadFindsLatest`. `Pass` is a recursive function, so that the theorem about
  it is an induction over the lines (`Induction`, from well-founded induction; `Recursion` for
  the equations of `acc`): after n lines the accumulator `Finds` the latest timestamp
  and its rows among the first n, at places `Places` gives.
* `FileOnlyGrowsHolds`: `FileOnlyGrows`, an action property. It needs `HeaderForNewFile`: if no
  open fails, a header is written only where there is no file.
* `LoadedFromOneCaptureHolds`: `LoadedFromOneCapture`, from `Apart`: where a capture comes at
  least a second after the save before it, rows of one timestamp are of one capture and stand in
  the file in the order of their numbers.
* `LoadedIsPrefixHolds`: `LoadedIsPrefix`, from `NoHoles`: where no call fails, a row is right behind the
  row before it in its capture (`Follows`), and a save goes on behind its last row (`Continues`).
* `StoreIsLogHolds`: `StoreIsLog`, that the store implements `PulseLog`. `LogInv` relates the file to
  what the log has: the trains of the saves that returned (`SavedTrains`), the rows of the save under
  way last. A `SaveRow` maps to a stutter until the last, which appends the train; a
  load, whatever its `start_time`, to the log's load, as gaps do not depend on where times are
  counted from (`Difference`).

`DhcpServerProofs`, for any devices, number of addresses, lease time and width of
the timer, from `DhcpAssumption`: `Grain`, the modulus of the bits cut off, divides
that of the timer, and a lease and `Grain` together are at most half the timer's
range. In the code they are a day and 65.5 seconds, half the range 24.8 days:

* `DhcpTypeCorrect`: `DhcpTypeOK`.
* `ExpiryExactHolds`: `ExpiryExact`. `TimeLeftIs` shows that the stored 16 bits less the
  timer are the time left, less than 2^16 too much, up to multiples of 2^32;
  `RunningIsNotExpired` and `OverIsExpired` follow.
* `NoTwoHoldersHolds`, `OffersAreFreeHolds`: `NoTwoHolders`, `OffersAreFree`.
  That two devices do not hold an address is not inductive: it takes
  `ClaimsRegistered`, that whoever holds an address, or has its ACK on the way and
  will, is its owner in the table and was acknowledged no earlier than it asked;
  an entry with a claim is then not found expired, so `Discover` does not
  reclaim it, and `Request` refuses it to others. `AcksAwaited` (an ACK on its
  way finds its device requesting), `Addressed`, `OffersNameSlots` and `History`
  (the table holds the expiry of the last acknowledgement) complete `DhcpInv`.
  One lemma per action; `ClaimsKept` and `DeviceKeepsInv` are shared.

`FatFileProofs`, for every size of sector, cluster and line, any number of lines,
failures and power cuts, and every card, from `FatAssumption`: on the card to begin
with, links lead to clusters in use, no two to the same and none to the first
cluster of the file, and a file that is not empty has a first cluster.

* `FatTypeHolds`: `FatTypeOK`; no link and no cluster number leaves the volume.
* `LinksAllocatedHolds`: `LinksAllocated`, on the card and in the program's view.
  Neither is inductive. `IInv` has three parts. `Disk`: the card and the program's view
  are both `Sound`, which is `LinksAllocated` with the three other facts of the
  assumption, and they differ in the window's sector only, and only while it is dirty
  (`Agree`): so writing the window back makes the one into the other
  (`FlushedIs`), and a power cut leaves a sound card at every moment. `Program`: types.
  `Control`: what the code knows at each access. While a file is open nothing
  leads to its first cluster (`FileSound`, `EntrySound`), so `f_truncate` frees a chain from
  its head without leaving a link to what it freed (`FreeSound`); the cluster found is
  free when it is marked, and nothing leads to a free cluster; when it is linked it is
  marked and nothing leads to it (`SearchSound`), so links stay distinct; and FSInfo
  takes the window only after it was written back (`Clean`). There is a lemma for each
  action, and `FailsStep` for what follows a failed access.
* `FreeCountCoversHolds`: `FreeCountCovers`, from `CountAssumption` besides: the count of free
  clusters on the card, if there is one, is not too small to begin with. `CountSound` says it of
  three pairs of a count and a FAT: FatFs's own count and what the program sees, with
  one to spare while a cluster is marked and not yet counted (`create_chain` counts last);
  and, as long as no cluster was freed, the card's count with the FAT on the card, which the next
  boot will see, and with the one the window will leave there. `Clean` again is what makes the
  count that `sync_fs` writes one of the FAT on the card.

`PulseReplayProofs`, for every set of captures, number of passes and width of the clock.
`ReplayAssumption` bounds the time counted since the last transition (`MaxElapsed`) from
below by the longest gap, so that the bound never hides a transition put out early:

* `ReplayTypeHolds`: `ReplayTypeOK`. `IdleIsLowHolds`: `IdleIsLow`.
* `NotEarlyHolds`: `NotEarlyUnlessWrapped`, an action property. It follows from `Counted`: while
  the loop polls, the clock is as far from `last_transition_time` as time has passed, so a
  target that did not wrap and is not ahead is one whose gap is over.

`NtpClockProofs`, for every rate and width of the timer, timeout, delay and boot time, from
`ClockAssumption`: the timeout and one round together are less than the range of the 32-bit
timer (in the code 10.1 seconds of 71 minutes):

* `ClockTypeHolds`: `ClockTypeOK`.
* `TimestampAccurateHolds`: `TimestampAccurate`, from `AnswerTrue`, which relates the second SNTP
  gave to `time_init`.
* `WaitBoundedHolds`: `WaitBounded`. `start` is a reading of 32 bits; `Waiting` says of which
  moment, and `Difference` that the difference of two readings less than a range apart is the
  time between them wherever the timer wraps.

`Station2Proofs`, for every wiring, timer, debouncing time and size of the edge buffer:

* `AdcFollowsHolds`, `AnalyzesFullHolds`: `AdcFollowsCapture`, `AnalyzesFullBuffer`. Neither is
  inductive: an interrupt of the channel may be pending when a button stops the capture, and would
  restart the channel if the capture were started again before it is served. `AdcInv` rules that
  out: such an interrupt belongs to a tick in which the ADC button was served already, and it
  is served once in a tick (`Pressed`). This is where the assumption of section 2 on the
  handler is needed.
* `PeriodHolds`: `PeriodSpansNoStop`, an action property, from `PwmInv`: `last_rise`, unless
  0, is one of the times in `rises`.
* `ReadingHolds`: `ReadingMatchesBuffer`, one lemma for the edges and one for the button.
* `Station2TypeHolds`: `Station2TypeOK`. The rate published is a standard one or 0, because
  `closest_baud` chooses one even when none is near (`ClosestIsStandard`); that a set of
  rates has a least member is `WFMin` of the library.

`SdCardSpiProofs`, for every kind and size of card, any calls, faults and restarts:

* `SdTypeHolds`: `SdTypeOK`.
* `ReadsTrueHolds`: `ReadsTrue`, on a card whose type is known. `KindInv` follows what the initialisation knows of the card
  from command to command, so that in the end the host's type says in which unit the card
  counts (`FirstIsSector`); `ReadInv` says that of the blocks received only the last may have
  a CRC not looked at, which is why `LastChecked` has to look once more.
* `WritesStoredHolds`: `WritesStored`, on a card whose type is known. `WriteInv`: what was sent so far is stored, or the card has
  an error to tell, or a result was dropped; and the other blocks are as the call found them.

Only model-checked: all liveness (`CaptureEnds`, `CompleteIsHandled`, `BootEnds`, `ReplayEnds`,
`EveryWriteEnds`), which needs fairness and `ENABLED`; and the refinement `FileIsLog`, which says what
`ReadOf` finds along the chains of FAT at every moment of a write: it needs an invariant about
every unit of every cluster of the file, in the buffer and on the card. Every other
invariant and action property of the passing runs is a theorem.

## 5. Not modelled

* The dashboard's connections and pages (`wifi_dashboard.c`): what a request changes
  is in `Station2`, what is sent back is not. DNS answers each query by its bytes
  and keeps nothing. SWD reads one number at boot, which is shown and used for nothing else.
  The ADC's frequency and the contents of its samples.
* Of FatFs, what the program does not call (directories, rename, seeking elsewhere
  than to the end, formatting), and reading, which is `ReadOf` in `FatFile`'s
  refinement and one step otherwise. Of the driver, the transfers on the SPI bus and
  its DMA channel below a command or block.
* `lib/` has nine tenths of the repository's lines, and most of them never run in a
  station: the code page tables of `ffunicode.c` (a third of all lines), the SDIO
  driver (`hw_config.c` configures SPI), the C++ wrappers and the examples. A model of
  these would say nothing of the stations, which is why the modules stand for a small
  share of the repository's lines.
* lwIP and the Pico SDK, modelled where their use shows. `hw_config.c` is a table of
  pins. `signal_analyzer.c`, `signal_generator.c` and `uart.c` are not called by a main
  program, `z_ping.c` is not built.
* DHCP options, the text of timestamps, rows and pages, and everything printed are
  abstracted. A DHCP RELEASE and a renewal change no state of the server and get no
  answer, and are left out.

## 6. Where the code and what it says of itself differ

Shown by a run:

* `station1_phantom`: key 2 during a capture makes main save the loaded train
  again as a completed capture.
* `station2_buttons`: a falling edge of a signal restarts the debouncing of the
  buttons, and a press is dropped.
* `sdcard_write`: a block that the card refuses is reported as written. The result of
  `sd_write_block` is dropped for a single block (`sd_card_spi.c:872`), and for several
  it gives way to that of CMD13, which knows nothing of a refused block.

Met while modelling, without a run:

* The comment at `digital.c:74` says a capture starts expecting a rising edge; an
  interrupt between lines 72 and 74 records a falling one first.
* Of two captures saved within a second the older is loaded (`digital.c:223`),
  against "most recent pulse sequence" (`main.c:88`).
* The header is not written at "First time creation" only (`digital.c:161`): one
  failed open for reading makes the save truncate the file and discards every
  capture before.
* `f_close` gives the file's lock free only if `f_sync` succeeded
  (`ff.c:4216-4240`): after one failed close every later open is refused until the
  station restarts, though `sd_card.c:109` has "Close the file after writing".
* On a full volume `f_write` writes what fits and returns `FR_OK` (`ff.c:4058`): the row
  is cut, and a row whose last number is cut still parses when it is loaded.
* A power cut in `f_truncate` finds clusters freed and the entry still naming them
  (`ff.c:1460`): the file breaks off, and later appends fail with `FR_INT_ERR`. FSInfo
  keeps its old count, and the volume is later taken for full too early.
* When ACMD41 ends by time-out its status is still "none" (`sd_card_spi.c:1014-1018`)
  and the initialisation goes on with a card of unknown type: a card of high capacity is
  then addressed in bytes, against the comments at lines 705 and 857.
* CMD12 is sent once and its result not looked at (`sd_card_spi.c:765`): if it is
  lost the card goes on sending, and nothing but a restart ends that.
* When CMD59 fails three times the driver goes on without CRCs
  (`sd_card_spi.c:974-982`), and a garbled block is stored as it came.
* `digital.c:120-121` says "Wait precisely until the target time"; when the target
  wraps, the loop ends at once. `NotEarlyUnlessWrapped` states what remains true.
* `main.c:90` calls `replay_pulses(2)` and comments "Single replay".
* A power cut between creating the file and its header leaves a file whose first row
  is skipped as a header (`digital.c:205`); `LoadedIsPrefix` excludes it.
* `digital.c:184` reports success whatever rows were lost.
* `station2.c:163` says only valid readings are published: the validity and the rate are
  read one after the other, and an edge in between can make the rate that of an
  analysis that was rejected.
* A rising edge of the PWM signal that is handled together with a falling one is
  dropped within 200 ms of another falling edge (`station2.c:45-49`, whose comment speaks of
  buttons): the next period spans two cycles or more, and the frequency shown is
  a fraction of the signal's. `PeriodSpansNoStop` states what remains true.
* The comments at `station2.c:52,61` swap the pins of the PWM and the ADC button.
* DHCP: a renewal, which names its address in the header and not in option 50, is
  never answered; a device may own two addresses after asking for another; an
  entry not touched for half the timer's range (24.8 days) looks unexpired again,
  which delays its reuse and harms no holder.

## 7. Plan

Done in this order, the most important first: `PulseCapture` and its proofs;
`PulseStore` with `PulseLog`; `PulseReplay`; `Station1`; `NtpClock`; the analyzers
and `Station2`; `DhcpServer` and its proofs; `FatFile` with `LineFile` and its proofs;
`SdCardSpi`; then the proofs about `NtpClock`, `PulseReplay`, `Station1`, `Station2` and
`SdCardSpi`; then those about `PulseStore`, for which the record became a module of its own. Each composes what stands before it only where state is shared:
`Station1` composes capture and store, `Station2` the three analyzers. The three
layers of the card (`PulseStore`, `FatFile`, `SdCardSpi`) are checked one by one:
together they have no state but the blocks the lower one promises to the upper.

Next, the proofs: the refinement `FileIsLog` of `FatFile`, step by step. A first invariant: the
chain of the file has a cluster for every `ClusterUnits` of its size, and those are distinct
(from `LinksDistinct` and `HeadUnlinked`). With it, a write of one sector changes what `ReadOf`
finds only past the size in the directory entry, or by a line that is being added.

Next, the models, where a run is to make room for each: the HTTP connections of
`wifi_dashboard.c` (failing writes, requests in segments) with `Station2`'s data; the
two halves of the ADC buffer, one analyzed while the channel fills it again; that
a capture of `Station2` that was started is published.
