# A formal model of esp32-c5-its

TLA+ modules, TLC configurations and TLAPS proofs kept beside the code of
[esp32-c5-its](../src/README.md): a receiver firmware for the ESP32-C5 that logs
ITS messages (IEEE 802.11p) to USB and to an SD card, a Linux client that passes
them on to Open Traffic Map, and a converter for the logs. Paths below are
relative to `src/`.

Run everything in this directory:

    tlc -workers 2 -config SdCardSafety.cfg SdCard.tla     # one run, see the table of runs
    tlapm SdCardProofs.tla                                 # one module of proofs

Contents: 1 the system, 2 modules and code, 3 what the runs check, 4 fairness,
5 proofs, 6 where code and documents part, 7 not modelled, 8 plan.

## 1. The system

| component | source | state | operations | talks to |
|---|---|---|---|---|
| ITS reception | `esp32-c5-its-rx/src/main.c` | none | `its_log_data` (Wi-Fi callback): two filters, time stamp, `log_data` | GPS clock, USB stream, SD card |
| GPS clock | `rx/src/gps.c`, `gps_ubx.c`, `gps_nmea.c` | `sys_tick_at_last_pps`, `gps_recv_time`, `offset_utc_to_sys_tick`, `gps_time_active`, last time and date | pulse interrupt, time half of the two read tasks, `sys_to_gps_time_us` | everybody who stamps a record |
| GPS position | the same | `gps_data`, `gps_pos_active`, the last three NAV frames | position half of the read tasks, `gps_log_data` once a second | SD card, USB stream |
| u-blox initialisation | `rx/src/gps_ubx.c`, `gps.c` | UART baud rate, CFG-PRT frame | `gps_ubx_init` and the commands it sends | decides which read task runs |
| SD card logger | `rx/src/sdcard.c` | `logFile`, `logFileMutex`, `sdcard_queue`, `sdcard_active`, the card | button interrupt, control task, writer task | `log_data` |
| USB stream | `rx/src/main.c`, `esp32-c5-its-otm/reader.cpp`, `parser.cpp`, `Queue` in `esp32-c5-its-otm.h` | `usb_queue`, the line, `QueueTty`, parser | `log_data`, USB task, reader thread, parser thread | firmware to PC |
| MQTT client | `esp32-c5-its-otm/writer.cpp`, `esp32-c5-its-otm.cpp` | `QueueIts`, `shutdown`, `shutdownWriter`, `_thread`, status at the broker | `main`, callbacks, writer threads | broker |
| LED | `rx/src/main.c` | flash timer, colour in the driver | `led_flash`, `led_off_timer_cb` | flags of the others |
| boot | `rx/src/main.c`, `gps.c`, `sdcard.c` | info text, handles of timers, tasks, queues and mutex | `app_main`, `init_gps`, `init_sdcard`, `info_log_data` | starts all of the firmware |
| build without GPS | `rx/src/nogps.c` | none | a TIME record each second | `log_data` |
| log converter | `esp32-c5-its-log/src/*` | position in the log, counts, second of the first time stamp | `main`, `skip_magic`, `log_cvt`, writers for pcapng and BLF | files |
| command line of the client | `esp32-c5-its-otm.cpp` | options, names | parsing at start | MQTT client |

How they interact: reception and the one-second timer hand records to
`log_data`, which sends them without waiting into two queues; the USB task and
the SD writer empty these. The read task of the GPS is the only writer of the
clock offset and the position, and everyone who logs reads both without a lock.
The button wakes the SD control task, which shares the FILE with the writer by
a mutex. On the PC three threads and the network thread of libmosquitto are
connected by two bounded queues and two flags.

What is hard here:

- *Preemption.* The chip has one core, but contexts of six priorities
  (interrupts, esp_timer 22, Wi-Fi 23, USB/SD/LED 10, read task 5, main 1)
  share plain globals. Any access of the read task may be the last before
  somebody reads what it wrote.
- *Failure.* Cards fill, are pulled and lose power; `fopen` fails; frames are
  lost or late; pulses are left out; the cable goes in the middle of a record;
  the broker goes and comes back.
- *Ordering.* Version and info records before others, flag after data,
  "offline" after the last packet, the right second for a pulse.
- *Timeouts.* The writer's 500 ms for the mutex, the 200 ms pause of the
  control task, the 500 ms of silence that end a command to the receiver.

What makes each component correct:

- *SD card logger*: no write to a closed FILE; a log is always whole records in
  the order they were handed over, from one session, version and info first;
  a log that was stopped is durable; a stop completes unless records leave the
  control task no chance at the mutex.
- *Clock*: with `gps_time_active` set, a time stamp is UTC at every instant;
  values of different seconds are never combined; the clock recovers.
- *Position*: what is logged as a position was measured, in one epoch.
- *u-blox initialisation*: it ends; the task it chooses can hear the receiver.
- *USB stream*: the client hands on bodies of captured ITS records, whole and in
  order, and finds its way into a stream it joins in the middle, wherever that can
  be told from the bytes.
- *MQTT client*: packets once and in order; the program can be ended from any
  state and leaves "offline" behind.
- *Boot and LED*: nothing is used before it is made; the text about the receiver
  fits its buffer and is in the first info record; the firmware comes up, also
  after a panic; a flash ends.
- *Log converter*: every record that is whole in the log is converted, once, in
  order, with its time, whatever payloads hold and wherever the log is cut, but for
  a first half record that looks as if it held another; one bad log does not keep
  the program from the next.

## 2. Modules and code

Every definition that models code is listed in `PROJECT.json` under `map` with
the lines it stands for. Operators named `X_Something` with the comment "Slip"
are variants of the definition that follows them, with a plausible mistake:
they say what the properties guard against, and no specification uses them.

**`SdCard`** (sdcard.c, and the SD half of `log_data`). `cpc` and `wpc` are the
places of control and writer task; a step ends wherever another task can come
between (before and after each queue, mutex or file call). A record is two
`fwrite`s, hence two chunks, `header` and `body`; `stream` is what was written
since `fopen`, `files` is what `fsync`/`fclose` made durable, `free` the space
left; a chunk of which a full card takes a part ends the log, as one of which it
takes nothing. `button_isr_handler` gives the notification; `Take`, `mount_sdcard`,
`ControlLock`, `Open`, `CheckOpened`, `SendPreamble`, `SetActive`, `Close`,
`unmount_sdcard`, `Debounce` are the control task in the order of its body;
`Receive`, `WriterLock`, `WriterTimeout`, `Fwrite`, `Give` the writer.
`LogDataCheck` and `LogDataSend` are the two halves of `log_data`, between which
the logger may stop. `Close` on a NULL file is a panic, after which the chip
reboots (`CONFIG_ESP_SYSTEM_PANIC_PRINT_REBOOT`). `PowerLoss` can come at any
step. `WriterTimeout` may come whenever somebody else holds the mutex, for the
model has no milliseconds.

**`LogStore`** is the abstract specification: a log is opened (an older one of
that name is lost), grows by whole records, is made durable by a stop, or is
forgotten by a power loss. `SdCard!ImplementsLogStore` states the refinement:
`Whole` maps a sequence of chunks to the records whose two chunks are there.

**`GpsClock`** (pulse interrupt, time half of both read tasks). `Second` is a
pulse together with the sentences that follow; `Receive`, `ReadFlags`,
`WriteFlags`, `TestFlags`, `Calc`, `LoadWord`, `StoreWord`, `Raise`, `Clear` are the
read task between any two of its accesses to shared variables. `|=` is a read and a
write. The 64-bit tick of the pulse is loaded, and the offset stored, in two
words, in either order, with pulses and time stamps in between. The two
protocols differ as in the code: UBX raises the flag, then clears the bits,
NMEA the other way round; UBX has one sentence, NMEA time of day and date
apart. The read task may be `MaxBehind` seconds behind. Both clocks run alike:
the drift between two fixes is microseconds, the model counts seconds. `missed`
counts pulses left out, `late` is the most a frame used was behind, `torn` says
that the offset comes of words of two ticks with different high words: these
three are for the properties only.

**`GpsPos`** (position half). A frame becomes a list of stores, `todo`, which
`Store` performs one by one, and `gps_log_data` may run between any two. A
measurement is known by its epoch, so a mix of epochs is visible. `receiver`
is one of three, chosen in the initial state: `ubx`, `nmea`, and `worn`, an NMEA
receiver whose lines lose characters; a quality that was never initialised
(gps_nmea.c:115) is either value. `altitudeWGS` and `heading` are left out: they
are stored and read next to `altitudeMSL` and `speed`.

**`UbxInit`** (`gps_ubx_init` and all commands). `pc` and `attempt` are the place
in `gps_ubx_init`; `Tx`, `Rx`, `Damaged` (a frame with a wrong check sum or too
long ends the command at once, its answer may still come), `Timeout` are one
command; `Tried`, `BaudSet`, `Retried`, `ProtoSet`, `Told` choose what comes after it. The receiver
(`Handle`, `SendNav`, `Lose`) is external. `world` says what is connected,
`build` what a call returns that reaches the end of its body without a
`return`: `{TRUE}` is a build that returns what the last test left, `{TRUE,
FALSE}` one that may return anything.

**`Boot`** extends `UbxInit` with the rest of `app_main`. `app_main` is the sequence of
all it can make; `GoOn` takes `step` to the next one that a build with these
`options` has (`Made`), and `Has` says whether a handle exists. `WriteInfo`, `InitGps`
(every step of `UbxInit`) and `Make` are the main task. What already runs meanwhile are the
one-second timer (`gps_log_data`), the Wi-Fi callback, the USB task, the button
with `sdcard_control_task`, and the LED task with its timer. Using a handle
that is NULL is `Panic`: an assertion of FreeRTOS fails and everything but the
receiver starts anew. `secondOver` is all the model has of time: a step of
`app_main` takes much less than a second, a command to the receiver or a mount
may take more.

**`UsbStream`** with **`MCUsbStream`** (payloads). `log_data`, `UsbReceive` and
`UsbWrite` are the firmware; `Unplug`, `Plug`, `Start` the cable and the start of
the client; `Read`, and `Parse` with `SkipMagic`, `ReadHeader`, `ReadBody`, its two
threads. The magic number is that of the code, AA 55 55 AA, byte for byte, and so is the
search for it; time stamps and payloads hold any of its bytes. Type, reserved byte
and size are one byte, `hdr`, of a header. A byte carries the record it came from
and its place in it, so that the properties can tell what a packet is made of; the
code paths never look at them, but for a header read where one is. A header read
at the wrong place can say anything. `dropped` and `misled` are history variables:
the byte queue has dropped a byte; the client was started inside an `Ambiguous`
record, one that holds the magic number, by itself or with the first byte of the
record behind it.

**`OtmClient`** (`main`, threads and callbacks). `Online`, `Detach`, `Reset`,
`Spawn` are `on_connect`, which does not look at the result code, so that a refused
connection (`~up`) has a writer too, `Flag` and `Mark` `on_disconnect`, each a single call;
`Clear`, `Top`, `Pop`, `Check`, `Publish` are a writer thread, of which several may
live because `on_connect` detaches the old one; `StopReader` to `LoopStop` are
`main` after its start. `calm` is an assumption on the network chosen in the
initial state: no connection comes up while the last writer is still running
or while the program is stopping.

**`LogCvt`** with **`MCLogCvt`** (payloads). `Capture` builds a log record by record,
`Cut` (part of `Open`) takes away its end, and for a USB log its beginning. A log
is a sequence of cells: the four bytes of the magic number, one for type, reserved
byte and size, one for each byte of time stamp and body; a cell knows its record
for the header and the properties only. `Iterate`
is one round of the loop in `main`: `skip_magic`, the header (`Headers`: anything
when the cell is none), the body, `WriteIts` and `WriteGps` of the writer chosen.
`OpenFails`, `Close` and `Return` are the rest of `main`. Times are unsigned of
`Word` values, as in blf.cpp:42.

**`LogData`** (`its_log_data`, `gps_log_data`, all of `log_data`, and the two tasks
that take from its queues). `at` is where each of the two callers is: a test and
the send it guards are steps of their own, and the other caller may come between
any two. `UsbReceive` and `SdReceive` are the readers, which may never come back:
a host that is connected and does not read, a card that hangs. A record carries
in `seen` the calls that were over when it got its time stamp, which is how time
is told here. The notification of the LED, the last step of `log_data`, is in
`Boot`, as are the first records of the USB task; those of a log are in `SdCard`.

The modules meet in their interfaces: `LogData` has both halves of `log_data` side
by side, `SdCard` and `UsbStream` one each, with what becomes of a record; a packet that
`UsbStream` hands on is a `Capture` of `OtmClient`; `UbxInit` chooses the protocol
that `GpsClock` and `GpsPos` take as given; the logs that `LogCvt` reads from a
card are those of `SdCard!FilesParsable`, whole records, the last one cut.

## 3. What the runs check

| run | module, cfg | asks | bounds |
|---|---|---|---|
| `sd_safety` | `SdCard`, `SdCardSafety.cfg` | `IInv`; a stopped log is durable; order, session and beginning of a log; refinement of `LogStore` | queue of 2, 8 chunks, 3 presses, 1 power loss, 2 records, 2 seconds |
| `sd_live` | `SdCard`, `SdCardLive.cfg` | the queue moves, a stop completes when the writer waits for a record again and again, no write to a closed FILE | endless records, 6 chunks, 3 presses, a pause that settles nothing |
| `sd_nofile` | `SdCard`, `SdCardNoFile.cfg` | *violated*: the blue flash means logging | |
| `clock_nmea` | `GpsClock`, `GpsClockNmea.cfg` | `IInv`, UTC after a fix | 5 seconds across midnight, lost and empty sentences |
| `clock_ubx` | `GpsClock`, `GpsClockUbx.cfg` | how far off the clock can be, recovery | 6 seconds, frames up to 2 seconds late, missing pulses, tick and offset in two words |
| `pos` | `GpsPos`, `GpsPos.cfg` | one epoch per position, a position assembled is whole, a frame decides | 4 epochs, three receivers |
| `pos_torn` | `GpsPos`, `GpsPosTorn.cfg` | *violated*: a logged position was measured | |
| `log_data` | `LogData`, `LogData.cfg` | both readers get records in real-time order; a reader that stopped holds up neither who logs nor the other reader | queues of 2, 3 records, cable and button change twice |
| `boot` | `Boot`, `Boot.cfg` | comes up; nothing used before it is made; version, info and the whole text first; receiver found, set up and heard; LED settles | all five baud rates, all three rounds, 6 tries, bursts of 2, four worlds, two builds, four sets of options, 1 press, a text of 1024 |
| `usb` | `MCUsbStream`, `UsbStream.cfg` | bounds of queues, packets were captured, resynchronisation | 2 records, line of 5 bytes, byte queue of 5, one unplugging |
| `otm` | `OtmClient`, `OtmClient.cfg` | `IInv`; packets once and in order, last status, silence after stop, shutdown, service | 3 packets, 2 connections, taken or refused, queue of 1, calm and not |
| `cvt` | `MCLogCvt`, `LogCvt.cfg` | records converted once and in order; times lead back; the program ends | logs of 3 records, 2 files, card and USB, cut anywhere, pcapng, BLF and none, a second of 4, words of 32 values |

Why the bounds are enough:

- *SD card.* Two producers and the preamble fill a queue of two, so that each
  send also meets a full one. Eight chunks hold the preamble and both records,
  and every smaller amount of free space occurs because a log left by a power
  loss keeps its space: the card runs full between header and body, between
  records, and not at all. Three presses are start, stop, start, in the same
  second or a later one; the next start adds no new situation. In `sd_safety`
  the 200 ms pause is assumed to let writer and producers come to rest
  (`WriterSettles`): without that `SessionPure` and `LogStartsWithPreamble` are
  not promised by the code. `sd_live` does not assume it.
- *Clock.* A day of four seconds puts midnight, and the change of the date,
  inside every combination of lost sentences. Words of four values make the two
  halves of the offset both matter. Nothing in the read task reaches back more
  than the last second of each kind, so five seconds hold lost, lost, whole. In
  `clock_ubx` the read task may be two seconds behind, so that two frames wait
  and two pulses come between any two of its accesses; in six seconds the high word
  of tick and offset changes, between two loads and between two stores too.
- *Position.* A position needs three frames of one epoch and the code keeps the
  last of each kind; four epochs make every two or three of them disagree.
- *log_data.* Three records of two callers overlap in every way, fill a queue of
  two and meet it full; two changes are a cable pulled and put back, or a cable
  and a press, between any two steps.
- *Boot and u-blox.* The control flow is complete (five rates, three rounds, four
  messages, all that `app_main` makes). Only the 32 frames that a command may
  read are cut to 6, kept above the number of frames that come between a command
  and its answer. The text has its real size, and the lengths of a version
  frame are the shortest, a common one and the longest. One press, at any
  time, is enough: after the panic it may cause, the next boot starts from the
  same state but for the receiver's settings. The options are nothing, LED
  alone, card and LED, and all.
- *USB.* With the time stamp in front a payload ends in three bytes of the magic
  number, holds all of it, or ends in its first byte, as does the stamp of a record
  without a body: the parser meets half a match, a match that is none, and one
  across two records. The byte queue of five is shorter than a record and
  overflows; two records are the one the client comes in inside and the next.
- *Client.* One reconnect is enough for an old and a new writer to meet.
- *Converter.* Three records give a first, a damaged and a following one; the
  payloads, with the time stamp, end in three bytes of a magic number or hold a
  whole one, and are shorter and longer than the place of the pseudo Ethernet layer.
  The two times lie in different seconds, in both orders, so that differences are negative too, and
  a second file begins at a time before or after that of the first.

The invariants of the proofs of `GpsPos`, `LogData`, `LogCvt`, `Boot` and `UsbStream` are
not repeated in the runs: they are proved for all values of the constants.

Every property is also checked to be breakable: `PROJECT.json` names for each a
slip of the code for which TLC finds it violated.

`CHECK_DEADLOCK FALSE` is in every cfg because counters bound the inputs, or,
in `UbxInit`, `OtmClient` and `LogCvt`, because the program ends.

## 4. Fairness

- *Tasks of the firmware* (`SdCard`, `UsbStream`): weak fairness for each task that
  can run. USB task, control task and writer have equal priority and FreeRTOS
  shares the time; the Wi-Fi and timer contexts finish what they began.
  A FreeRTOS give makes the waiter ready but does not hand the mutex over, and
  between tasks of one priority the writer, going on, may take it again before the
  control task runs. So the control task is sure of it only while the writer is
  blocked at its empty queue: then, made ready before, it runs first, and strong
  fairness is assumed of just this. Of the writer nothing is assumed while the
  control task has the mutex but that it gives up after 500 ms or gets it (weak
  fairness). A stop is shown to complete for a writer that waits for a record
  again and again (`[]<>WriterWaits`), not for one that never does.
  No fairness for button, records, power
  loss, or the clock.
- *Callers of log_data* (`LogData`): weak fairness. Wi-Fi callback and timer have
  the highest priorities of all tasks. None for the readers, the host and the
  card: the point is what happens when these stop.
- *Read task* (`GpsClock`, `GpsPos`): weak fairness. It has the lowest priority of
  all but runs when nothing else does, and nothing else runs for long. The
  recovery property allows for a next pulse that overtakes it.
- *Initialisation* (`UbxInit`, and `Boot` in its step `InitGps`): the receiver
  takes what it is sent, the boot task runs, and 500 ms of silence come about if
  silence is possible again and again (strong fairness of `Timeout`). A receiver
  talks in bursts once per period; one that never pauses is a world of its own,
  `chatty nmea`, for which the model claims nothing.
- *Boot*: weak fairness for `app_main`, the USB, SD and LED tasks and for the end
  of the LED timer, which runs out when nobody stops it. None for the button,
  for Wi-Fi and for the one-second timer, which need not come for the boot to
  complete.
- *Converter*: the program runs (weak fairness of `main`); what was captured is
  the environment's.
- *Client* (`OtmClient`, `UsbStream`): each thread that can run runs. No fairness for
  the broker, the user or the cable. `ReaderEnd` is fair only after `shutdown`,
  where `poll` times out and the flag is seen.

## 5. Proofs

`SdCardProofs`, `GpsClockProofs`, `GpsPosProofs`, `LogDataProofs`, `BootProofs` (with
`UbxInit`), `UsbStreamProofs`, `OtmClientProofs` and `LogCvtProofs` hold for all values of
the constants that satisfy the named assumptions of their modules (sizes are
natural numbers, switches are Boolean, `NULL` is none of the values it stands
beside). What a theorem assumes beyond that is in its statement and named here.

**SD card.** `Spec => []IInv` (`Invariance`) is proved in three layers, each using
those before: types and queue bound (`TypeCorrect`), locking, content.
Neither "no write after close" nor "a log is pairs of header and body" is
inductive. The first needs to know who owns the mutex at each place of both
tasks (`MutexOwned`), when the flag can be set (`ActiveWhen`) and when a log can
be open (`OpenWhen`), the second in addition how the open log ends while the
writer is between its two writes, full card included (`TailWhole`). From `IInv`:

- `NoWriteAfterCloseHolds`, `FilesParsableHolds`, `InactiveIsSafeHolds`;
- `StopKeepsRecordsWholeHolds`, an action property;
- `Refinement`: `Spec => ImplementsLogStore`. Initial states map to initial
  states; the second `fwrite` of a record is the step that logs it
  (`WholeBody`), a first one is a stutter (`WholeHeader`), as is everything the
  locking does.

None of these assumes `WriterSettles`; they hold for every number of
records, presses and power losses, and for a card of any size. Three more say
what is in a log, each with an invariant of its own on top of `IInv`:

- `InOrderOnceHolds` assumes `~EndlessRecords`, that is, that no record is given
  the identity of an older one, without which "once" cannot be said. `OrderInv`
  puts what is in the open log, what the writer holds and what is queued into
  one ascending order (`QueueInOrder`, `WriterInOrder`).
- `SessionPureHolds` assumes `WriterSettles`: the 200 ms between two presses
  (sdcard.c:134) are enough for the writer and for callers under way. It rests
  on `Quiet` (from the pause to the opening nobody holds or sends a record) and
  `CurrentOnly` (what is queued or in hand while a log is open is of its session).
- `LogStartsWithPreambleHolds` assumes `WriterSettles` and a queue of two or more
  records; the code has ten (`QUEUE_SIZE`). Of one, it would be false: the
  info record would find the version record in its way and be lost. `Counted`
  says that of the records taken for a log the first is the version, the second
  the info, and no other is either, `NothingPending` that the queue starts empty.

**Clock.** `ClockInvariance` (`Spec => []IInv`) and `UtcAfterFixHolds`, for both
protocols, any word size, epoch and length of the day, assuming `MaxBehind = 0` (a
sentence is read before the next pulse) and `~PpsMayStop` (README.md:57: "must
provide a PPS signal"). The invariant is that whatever a bit of
`gps_recv_time` stands for is of the present second (`FlagsFresh`) and that the
only offset ever computed is the right one (`OffsetRight`), which also covers
the moments in which one word of it has been stored. Without the assumptions
the property is false, and `clock_ubx` shows how far off the clock then gets.
`NearUtcHolds` says it for UBX with neither assumption, for a read task as far
behind and pulses as scarce as may be, at every access, those between two stores
of one offset over another included: the clock is behind by no more than the task
was with a frame it used, and ahead by no more than the pulses left out, unless
words with different high words are put together, for which there is no such bound
(section 6). `LateInv` follows the second a frame is of (`FrameOfLate`), that of the
last pulse (`LastPulse`), each word of the tick on its way into a register
(`LoadNear`), the offset computed of them (`StoreNear`) and each word of the offset,
of which one may be new and one old (`OffsetNear`).

**Position.** `TypeCorrect`, `Assembled` (`AssembledWhole`) and `NeverMixed`
(`FieldsOfOneEpoch`), for every receiver and any number of epochs, whatever is
lost. Neither property is inductive: that a half written position is harmless
depends on how far the read task has come. The invariant says that it is between
two frames, or at place `k` of the program of one frame (`Running`), and what
the fields hold there (`After`): the first `k` are zeroes, whatever they were
before, and only behind all the zeroes the values of the new epoch appear. The
frames are of past epochs (`Past`), so the epoch of a program is one that was
measured.

**log_data.** `TypeCorrect` (both queues keep their bound) and `InOrderOfCalls`
(`RealTimeOrder`), for queues of every size and any number of records. The
invariant says what of a call's record is in which stream at each place of
`log_data` (`AllEntered`): before the send nothing, so that everything in front of
a new record is of calls that were over or are under way (`InCall`), and taking
a record out of a queue keeps the order of what is before and behind it (`Lined`).

**u-blox.** `ConfiguredHolds` and `UbxTaskHearsUbxHolds`, for any number of rounds,
any burst and any number of frames read that exceeds a burst and the two
frames of an answer (the code reads 32). The danger is that the acknowledge of one command is taken
for that of the next, for an acknowledge names a class and no command. The
invariant says why that cannot be: an answer comes only after its command has
been taken and nothing comes after it (`AnswerLast`), a command never ends with
its answer on the way because it never uses up its frames (`Budget`), so that
between commands only messages wait, and what acknowledges `set_proto` is of
the settings the receiver then has (`AckFits`). A damaged frame ends a command
with its answer still on the way; that is so only where no other answer is waited
for by its class (`Loose`: between the tries of a rate, in the poll of the version and the
messages, and at the end), and there the first two say nothing. That the receiver answers
within 500 ms and that silence means that nothing is on its way are
assumptions on the receiver, stated in `Handle` and `Timeout`. For `Configured` the
invariant follows the search itself (`Found`): a command that is sent at the rate
of the receiver is taken and answered (`WireExact`, `AnswerComes`), so a `u-blox` is
found at the latest at the last rate tried, and nothing after that undoes its
rate or its messages (`Tuned`, `MessagesOn`).

**Boot.** `BootInvariance` (`BootSpec => []BInv`) and from it `BootTypeOKHolds`,
`BootHearsUbx`, `BootConfigures`, `PreambleFirstHolds` and `NoNullUseHolds`, for every build
(all subsets of `options`), any number of restarts, and a receiver that keeps its
state through them. The invariant says what exists at each place of `app_main`
(`AtStep`, `Reached`), that only a press of the button during the boot can put the
control task or the timer ahead of it (`NobodyAhead`), what the USB task has sent
since the host came (`UsbFirst`) and out of which text (`InfoWhole`), how long that
text can get (`TextFits`), and the invariants of `gps_ubx_init`, which also hold
afresh after a panic (`Fresh`). `BootTypeOKHolds` assumes that the main text with
the longest texts of a receiver fits its buffer, `MainText + 72 + 15 * 45 < TextSize`;
the code has at most 260 + 747 of 1024 bytes (main.c:221, gps_ubx.c:446).

**USB stream.** `TypeCorrect`, `StreamInvariant` and `Captured`
(`PacketsWereCaptured`), for queues and buffers of every size, payloads and time
stamps of every content and any number of unplugs and restarts; no payload is
empty. The invariant is about all bytes between the USB task and the parser at once:
they are one `Chain` of records, with at most one gap, where the cable was pulled (`LineWhole`),
the queue is of records younger than those (`QueueBehind`), and the parser holds
a part of the chain that fits its state (`ParserFits`); all that only until the
client drops a byte (`dropped`) or comes in inside an ambiguous record (`misled`).
The search is the hard part: what is in the window is the end of a record that is
not ambiguous and the beginning of the next (`Searches`), so that a match, which
may not lie within either, can only be the magic number of the next.

**Client.** `ClientInvariance` (`Spec => []IInv`), `PublishedWereCapturedHolds`,
`EndsOfflineHolds` and `SilentAfterStopHolds`, for queues of any size and any
number of packets and connections, in a calm network. The parts of the
invariant: how far `main` has come in stopping what (`Stopping`), the status at
the broker against the connection (`StatusFollows`), one writer per connection
(`OneWriter`), which leaves when it meets the marker or the flag (`MarkerSeen`),
and what is published, in hand and queued is in the order of capture
(`InOrder`).

**Converter.** `InductiveInvariant` (`Spec => []IInv`) and `TimesAreRecoverable`, for
logs of every length, all payloads and all sets of times whose differences fit
the word (`SpanAssumption`): subtraction and multiplication modulo the word lose
nothing, because the head of the file and the writer agree on the second all
times are relative to (`StartKnown`). `ConvertedInOrderHolds`, for logs cut anywhere
and time stamps and payloads of all contents, the magic number included
(`CleanStart` alone excludes it, from a first record that is cut in front, by itself
or with the first byte of the next, and is part of the property):
`Laid` says where in the log each record is, a position before the log or behind
its end for what is cut, and `ReadTo` that the program has converted just what is
whole before record `k` and goes on at its first cell, or at the cut beginning of
the log. That `skip_magic` finds the magic of record `k` and none before it
(`SearchFinds`), that the header read behind it is that of record `k`
(`ReadsRecord`), and that the inserted layer can be taken out of a frame again
(`EthComesOff`) are lemmas of their own.

**Model-checked only.** Liveness (`QueueDrains`, `StopCompletes`, `GpsTimeHeals`,
`FixHeard`, `BootCompletes`, `LedSettles`, `Resynchronises`, `WriterServes`,
`ShutdownCompletes`, `Converts`, `HoldsNobodyUp`, `EachHears`) and everything with
ENABLED are beyond TLAPS here. Every invariant and every action property
of the passing runs is a theorem, whose assumptions hold in the run that checks it.

## 6. Where code and documents part

Two of these have a run of their own, in which TLC finds the behaviour:

- `sd_nofile`: after a failed `fopen` the control task goes on and sets
  `sdcard_active` (sdcard.c:113). The LED flashes blue (README.md:52) with no log
  open, and the next press panics in `fsync(fileno(NULL))`.
- `pos_torn`: `gps_data` is rewritten under a set `gps_pos_active`
  (gps_ubx.c:334), and a record made meanwhile holds zeroes or half a position.

The others were found with the same modules; the passing runs except them by
the assumption named, and they come back when it is dropped:

| behaviour | where | excepted by |
|---|---|---|
| A record stamped between the two stores of the first offset is neither system time nor UTC. | gps_ubx.c:310 | properties speak of the time after `gps_time_active` |
| A record stamped between the two stores of a later offset, when it differs in the high word, is off by 2^32 µs (71 minutes). | gps_ubx.c:310 | `Torn(offset)` in `NearUtc` |
| A pulse between the two loads of its tick, when the high word changes, makes an offset that is off as much, until the next one is stored. | gps_ubx.c:310 | `torn` in `NearUtc`; excluded by `MaxBehind = 0` in `clock_nmea` |
| A missing pulse and a lost frame together put the clock ahead by whole seconds. | gps_ubx.c:392 | `PpsMayStop` in `clock_nmea`; counted in `clock_ubx` |
| A full byte queue drops its oldest byte, not a record: two records may be spliced into one packet, where README.md:100 speaks of packets captured. | esp32-c5-its-otm.h:52 | `PacketsWereCaptured` and `Resynchronises` speak of streams without such a loss |
| The search for a u-blox leaves the UART at 57600 baud, the last rate tried, so that the NMEA task does not hear a plain NMEA receiver at 9600 (README.md:57). | gps_ubx.c:436 | `UbxTaskHearsUbx` is about a u-blox |
| A button pressed while the firmware boots meets a NULL mutex and the chip reboots; a mount that keeps `app_main` from going on for a second lets the timer meet a NULL queue or task. | sdcard.c:143, main.c:340 | `NoNullUse` for `~early` |
| `info_log_data` has no check against its buffer: once a text is cut, the room left is a negative number taken as unsigned. The receiver's texts, with the 15 extensions a frame holds at most, leave it fewer than 20 characters. | main.c:221 | `BootTypeOK` says that it never comes to that |
| The info text may have 1023 characters, `Info.text` has 500: harmless because the union is of 2000 bytes. | log-data.h | |
| The time of a BLF object stamped before the first one is a huge unsigned number. | blf.cpp:42 | `TimesLeadBack` reads it as signed |
| A body that holds the magic number is taken for a record by a client or converter that starts inside it. | parser.cpp:40, log-cvt.cpp:47 | `misled`, `CleanStart`; by design of the format |
| The magic number AA 55 55 AA begins with the byte it ends with. Joined inside a record that ends in AA 55 55, the search matches these and the first byte of the next magic number, and reads 55 55 AA and the type as a header: the client takes 0x00AA or 0x01AA bytes for a body and loses the next record with nothing dropped; the converter meets the unknown type 0x55 and ends with this log. | parser.cpp:31-44, log-cvt.cpp:38-51, main.c:148 | `misled`, `CleanStart` |
| A stop may never get the mutex while records keep the writer busy without a pause: both tasks have the same priority and a give does not hand it over. | sdcard.c:44-53, 122 | `[]<>WriterWaits` in `StopCompletes` |
| A log is named by its second: a second start in it, or in the same second after a reset, truncates the log on the card. | sdcard.c:95 | in `LogStore` as in the code: a start replaces a log of its name |
| Of the last record a full card may take a part of a chunk, and the log ends with it. | sdcard.c:48-50 | a log ends with the last whole chunk; nothing follows a part, `free` is 0 |
| A connection that the broker refuses gets a writer and an "online" like one that it takes. | writer.cpp:50 | in the model as in the code (`Connect`) |
| A GGA line with damaged digits or too many commas is taken as it is: no check sum is looked at. | gps_nmea.c:91 | not in the model: `worn` loses the end of a line |
| A record of unknown type ends the conversion of the rest of its log. | log-cvt.cpp:96 | `Readable` |
| The usage text calls pcapng the default, the program writes nothing without `-p` or `-b`. | log-cvt.cpp:110 | `type = "none"` is a writer of the model |
| The LED never shows the state of the GPS continuously: the condition is spelled `GSP`. If it did, a position alone would be green (line 44), not red. | main.c:34, README.md:39-53 | colours are left out |
| The last position of a receiver that falls silent is logged for ever. | gps.c:61 | `FixHeard` speaks of frames that arrive |
| A GGA line of too few fields leaves position 0/0 under a set flag; an empty quality is read uninitialised. | gps_nmea.c:114-117 | `AssembledWhole` for `worn` |
| The NMEA task stores tenths of a metre where log-data.h:26 says millimetres. | gps_nmea.c:155 | `Known` leaves the altitude out for NMEA |
| `gps_ubx_baudrate_try` has no `return` after a success; with false, a receiver that answered is given up. | gps_ubx.c:426 | `Configured` for `build = {TRUE}` |
| A receiver that never pauses for 500 ms keeps the boot for ever. | gps_ubx.c:187 | `BootCompletes` for other worlds |
| TIME records go to USB only: a log on the card without a position has no record per second (README.md:29). | main.c:247 | in the model as in the code |
| `on_connect` resets the flag by which the old writer was to end; that one then publishes the empty marker and competes with the new one. | writer.cpp:59 | `calm` |
| A connection may come up after `stop()` has joined the writer, and "online" remain. | writer.cpp:87 | `calm` |
| When the ESP is unplugged the reader thread ends and the program stays up, sending nothing. | reader.cpp:82 | nothing is claimed of a lost reader but that SIGINT still ends the program |

## 7. Not modelled

- FAT, SPI and the format of the card after a failed mount (sdcard.c:60): a mount
  succeeds or not, and a restart keeps closed files.
- Check sums and digits of GPS sentences: a frame arrives, is lost, or, of UBX
  during the initialisation, is damaged. The answer that is still on its way behind a
  damaged frame is taken to come before the next command is sent.
- An error of `fwrite` on a card that is not full, of `fsync` and of `fclose`
  (sdcard.c:48-50, 124-125), whose results nobody looks at.
- The accesses within a field of `gps_data`: the struct is packed (log-data.h:14), so
  that a store may take several. A torn field fares as two neighbouring fields do.
- The length of the IDF version in the info text: 260 characters of main text
  presume a short one. The one-second timer that keeps the LED flashing:
  `LedSettles` says what becomes of the last flash.
- The filters of `its_log_data`, Wi-Fi and PHY: they decide on one frame alone.
- TLS, topic names and options of the client: strings made once at start.
- `settimeofday` on the first fix: only the dates in the directory of the card depend
  on it. The names of the logs come from `sys_to_gps_time_us` (sdcard.c:95); the
  `now` of `SdCard` is an arbitrary clock that starts again after a restart.
- Which colour the LED has for which state: a table; `Boot` knows `bright` and `dim`.
- The look of a pcapng block or BLF object and the scaling of positions; `fpcap`,
  whose exception when a file cannot be opened ends the program.
- The command line of the client and the build configuration: read once, before
  anything runs.

## 8. Plan

1. Done: `LogStore`, `SdCard`, `SdCardProofs`; `GpsClock`, `GpsClockProofs`;
   `GpsPos`, `GpsPosProofs`; `LogData`, `LogDataProofs`; `UbxInit`, `Boot`, `BootProofs`;
   `UsbStream`, `UsbStreamProofs`; `OtmClient`, `OtmClientProofs`; `LogCvt`, `LogCvtProofs`.
2. The colours of the LED against the tables of README.md:39-53.
