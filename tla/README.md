# Ergo Dock: a verification development

The Ergo Dock is a small box on a motorised bed. It listens for snoring and
raises the head of the bed when it hears enough of it; it takes commands from
offline speech (a separate voice chip), from a phone over BLE and from three
keys; it speaks to the main control box of the bed over a UART; and it shows
what it does on four LEDs. The firmware is C on a single core
(`src/AIP_v1_1/ble/ble_fota_server/`, timers in `src/AIP_v1_1/private_zhao/`);
everything else under `src/` is the vendor's SDK, of which the update also uses the
boot code (`boot_ram_le501x.c`) and the log of settings (`src/module/settings/`), and
the BLE stack keeps its bonds in the record store tinyfs (`src/module/tinyfs/`).

This directory holds TLA+ models of that firmware, TLC configurations that check
them on small instances, and TLAPS proofs about them for every value of the
constants. `PROJECT.json` maps every definition to its lines.

    tlc -workers 2 -config SnoreCycleMC.cfg SnoreInterventionMC
    tlc -workers 2 -config TinyFsMC.cfg TinyFs
    tlapm VoicePairing_proofs.tla

## 1. How the firmware runs

`main()` initialises drivers and flash and enters `ble_loop()`, which runs
everything else: callbacks of the BLE stack, and software timers. Nothing
preempts a handler of that loop except interrupts, and the only interrupts that
touch the program's own state are the byte receivers of the three UARTs and the
edge of the snore detector (`io_exti_callback`), which increments one counter.
Hence one handler is one action of a model, with all the calls it makes, and the
interleavings are those of handlers; only `UartLink`, which is about the byte receivers,
takes the 10 ms handler of the UARTs apart.

| source of a step | handler | what it reaches |
|---|---|---|
| 5 ms software timer | `flash_run` | settings write-back |
| 10 ms timer | `ls_10ms_timer_cb` | tick counter, voice switch, keys, LEDs, UART timeouts and frame handlers |
| 100 ms timer | `ls_100ms_timer_cb` | watchdog, `SnoringIntervention_run` |
| 1 s timer | `ls_1000ms_timer_cb` | charging station |
| BLE stack | gap, gatt and dev manager callbacks | application protocol, pairing, update service, record store |
| interrupts | UART receive, snore edge | receive buffers, snore counter |

## 2. Inventory

For each component: its state, its operations, whom it meets, what is hard about
it and what makes it correct. The last column says where it is modelled.

**MFP transmit queue** (`mfp_queue.c`). A ring of eight requests towards the main
box, each with a number of transmissions; `mfp_send_request`, `mfp_tx_queue_clear`,
`mfp_tx_task`. Producers are the snore intervention, the voice commands and the
application; the transmitter runs when the main box polls. *Hard:* indices wrap, a
full queue refuses silently, a clear may come between any two transmissions, a
head with no transmissions left would block the ring. *Correct:* first in, first
out, nothing lost, doubled or left behind, and the head always leaves.
→ `MfpRequests`, `MfpFifo`, `MfpQueue`.

**Snore intervention** (`x_snoreintervention.c`). Detection window (start, length,
pulses), decision flags, lift segment (end tick), intervention cycle (stage, first
tick, status), run mode and level. Driven by the 100 ms timer; entered from BLE
(level and times 11 B7, mode 13 B7), the level key and the voice commands. *Hard:*
four paths end a segment, two clears reset different subsets of the state, all
times depend on a mode that may change meanwhile, and the function may be switched
off at any point by setting a level the run reads later. *Correct:* a segment and a
cycle end in time whatever happens, no lift pulse outlives its segment, stages are
counted only in a running cycle, windows are measured with the length of the mode in
force. → `SnoreIntervention`.

**Offline voice** (`offline_voice.c`, switch in `x_control.c`, configuration in
`x_uart.c`). Switch position, wake word, the session automaton (a static `state`
beside the global `enabled`), the shadow of the chip's last configuration. *Hard:*
the switch is read by the timer and the frames by the UART handler, two copies of
"there is a session" are kept, the chip reports no end of session when switched off.
*Correct:* the session flag and the session light exist only in a session, the chip
listens for the word of the switch. → `VoicePairing`; what a command does to the
intervention and the queue → `SnoreIntervention`.

**LED control** (`app_led_ctrl.c`). Four task slots with mode, colour, interval,
blinks, timeout, priority and callback, and the pins. Any component asks for
indications; the 10 ms handler ends them and runs callbacks that change other
components' state (the end of pairing is such a callback). *Hard:* tasks replace each
other or are refused by priority, one red pin is shared by three LEDs, a callback
fires long after the request. *Correct:* no pin stays lit without its task, red and
blue are not lit together, what is lit agrees with what it stands for, timed
indications end. → `LedTasks`, used by `LevelLeds` and `VoicePairing`.

**Wireless charging indication** (`control_timer1000ms`, pins in `x_drive.c`). The
status at the last poll and a flag "fault shown". *Hard:* the light is derived from
the difference of two polls, the level key clears the flag in between. *Correct:*
green only while charging, red only on a fault. → `LevelLeds`.

**Pairing and connection** (`main.c`, `x_control.c`, `ble_base_set.c`). Pairing flag
and time, advertising, connection. *Hard:* the thirty seconds live in an LED task,
which other components may replace. *Correct:* pairing ends, a connection lost is
advertised again, no callback left over ends that advertising. → `VoicePairing`
(without the busy flag of notifications).

**Keys** (`app_key.c`, `control_timer10ms`). The last scans, the debounced code, a repeat
counter and the flag that keeps a long press from being a short one, both shared by two
keys. Driven by the 10 ms timer. *Hard:* contacts bounce, a key may be held for as long as
the counter counts, keys overlap. *Correct:* a press is recognised when the pin is steady,
a hold acts once, and a hold that acted is not a press. → `KeyScan`; what the keys do is
in `SnoreIntervention`, `LevelLeds` and `VoicePairing`.

**BLE application protocol** (`x_ble_com.c`). Frames in, state changes and answers
out. → the requests that change modelled state are actions of `SnoreIntervention`
and `LevelLeds`; queries, answers and framing are not modelled.

**UART reception** (`x_uart.c`, `ls_hal_uart.c`). Per line a buffer, its index and a
timeout. An interrupt per byte appends and renews the timeout; the 10 ms timer counts it
down, empties the buffer of a line gone quiet, takes a full buffer for a frame, checks
it, obeys it and clears the buffer. A valid frame of the main box also gives the transmit
queue its turn. *Hard:* nothing locks the three; the interrupt may come between the load
and the store of the timeout, between the test of the index and its reset, and between
the reset and the `memset`. *Correct:* a frame is handled whole and once, a line that has
lost bytes recovers when it goes quiet, requests to the box go out. → `UartLink`; what
the frames do is in `SnoreIntervention` and `VoicePairing`.

**Record store** (`tinyfs.c`, `tinyfs_write_cache.c`). Three sections of flash as a ring
that records and removals are appended to through a cache of one page; in RAM the list
of live nodes of each section, head, tail and the section to collect next. Writing,
deleting, writing through; a collection copies what is alive in the oldest section; a
start reads everything back. *Hard:* power may be lost at any page, also in a collection
and again in the one that makes up for it; nodes run over the ends of pages and sections;
a torn page must be recognised; a record that is overwritten leaves its list first.
*Correct:* reading gives what was written last; a loss of power goes back to how an
operation since the last write-through left the records, never to a mixture, and can at
most leave the change under way as well; the tail never erases what is alive.
→ `RecordHistory`, `TinyFsLog`, `TinyFsStore`, `TinyFs` (without directories).

**Settings in flash** (`x_flash.c`). Strength, time and level in RAM, the page, and a shadow
of what the page holds; the page is erased and programmed when RAM and shadow differ. The
application changes RAM and saves at once, the keys leave it to the 5 ms timer, the boot
replaces zeros by defaults. *Hard:* power is lost between erase and program, a shadow that
is not what the page holds hides a change. *Correct:* a reset brings back what was saved
last, only a save that is under way may lose it, and what is in force is saved in the end.
→ `SnoreSettings`, `KeptSettings`, `FlashStore`.

**Firmware update** (`fota_svc_server.c`, `ota_settings.c`, `inflash_settings.c`,
`boot_ram_le501x.c`). State of the service, current sector and acknowledgement bitmap in
RAM; the region the image is loaded to, the region the program runs from and the log of
settings in flash. The application starts, sends sector by sector, asks for what is
missing, has the image checked and finishes; the service notes the copy in the settings
and resets; the boot code copies. *Hard:* RAM state survives a new start, data is not
answered, the connection may be lost anywhere, power may be lost anywhere including
between two programs of one setting and while the running image is overwritten, slots of
the log run out. *Correct:* the program that runs is one whole image, only a whole image
is ever copied, a requested copy lands, the service is not busy with nobody, an
acknowledged segment is stored. → `Firmware`, `OtaSettings`, `FotaSegments`,
`FotaService`.

**Timers and main loop** (`timer_event.c`, `main.c`, `x_drive.c`). → the timers are the
ticks of the models and their fairness; unused air bag and pump code is not modelled.

**Not modelled at all:** `x_sf.c` and `x_sleep_report.c` (left over from an earlier
product; nothing in the main loop calls them), `app_led.c` (superseded; its handler is
commented out in the 10 ms timer), the SDK.

## 3. Modules

    MfpRequests ─┬─ MfpFifo ◄── refined by ── MfpQueue ─── UartLink ─── UartLink_proofs
                 └─ SnoreIntervention ─┬─ SnoreInterventionMC
                                       └─ SnoreIntervention_proofs
    LedTasks ─┬─ LedTasks_proofs
              ├─ LevelLeds ────┬─ LevelLedsMC
              │                └─ LevelLeds_proofs   (uses LedTasks_proofs)
              └─ VoicePairing ─┬─ VoicePairingMC
                               └─ VoicePairing_proofs (uses LedTasks_proofs)
    OtaSettings ─── FotaService ─┬─ FotaServiceMC
                                 └─ FotaService_proofs (and FotaSegments)
    Firmware ◄── refined by ── FotaService
    SnoreSettings ─┬─ KeptSettings ◄── refined by ── FlashStore
                   └─ FlashStore ─── FlashStore_proofs (and TinyFs)
    TinyFsLog ─── TinyFsStore ─── TinyFs ── refines ──► RecordHistory
    KeyScan ─── KeyScanMC ─── KeyScan_proofs

* `MfpRequests` is the queue as a value, a sequence of requests, with the effect of each
  function of `mfp_queue.c` as an operator. `MfpFifo` makes a specification of it: what
  the callers of the queue rely on. `MfpQueue` is the code's ring buffer with `head`,
  `tail` and `count`; `Pending` is its refinement mapping to `MfpFifo`.
  `SnoreIntervention` uses the operators directly, since one of its handlers may clear
  the queue and refill it in a single step.
* `SnoreIntervention` keeps the scalar state of `snoreIntervention_t` in one record `st`.
  The functions of the source are operators on that record under their own names, and
  `SnoringIntervention_run` composes them in the order of its calls.
* `LedTasks` is the task engine of one LED as operators on the record of its task.
  `VoicePairing` is LED 3 with offline voice and pairing; `LevelLeds` is LEDs 0 to 2 with
  level and charging station. The two share no state but the level itself, which
  `LevelLeds` keeps for its lights and `SnoreIntervention` for its windows.
* `OtaSettings` is the log of settings as a value, with the functions of
  `inflash_settings.c` as operators. `FotaService` is one update after the other: the
  service, an application that follows the protocol (`client`), and the boot code, on one
  processor (`cpu`) that is in one of them. `Firmware` is what all of it promises: one
  image that runs, one that the next start brings, and an update that is a single step.
  `FotaSegments` is how the bytes of a sector are cut into segments and programs;
  `FotaService` takes a segment as one cell of flash, which theorems about `FotaSegments`
  justify.
* `SnoreSettings` is what a page holds and the defaults; `KeptSettings` what the program
  promises of it: settings in force, settings kept, and a reset that goes back to the kept
  ones. `FlashStore` is the code, with a save in its steps (compare, erase, program).
* `UartLink` is one of the three lines, which `port` says, with the peer at its other end.
  It extends `MfpQueue`: its handler has the queue's `mfp_tx_task` as a step, and the rest
  of the program fills and clears the queue between two ticks. Its steps follow
  `x_uart_10ms` and the frame handlers statement by statement where the interrupt can tell
  the difference (`task` says which is next).
* `TinyFsLog` is the log that the record store appends to, through the write cache: its
  functions are operators on a record `m` of the store's RAM, its flash, and in `images`
  every content the flash has had on the way. `TinyFsStore` adds the lists of records, the
  collection, the operations and the start, its loops as recursive functions; at its end
  stands `Live`, what is true of `m` between two operations. `TinyFs` is the specification:
  an operation is a step that computes `m` and leaves it without its images (`Settled`), and
  a loss of power keeps one of the images and starts again. Its parts are called `FsInit`,
  `FsNext` and `FsSpec` because `FlashStore_proofs` is about both stores. `RecordHistory` is
  what a caller may rely on: the records, and the states (`behind`) that a loss of power may
  bring back. A result that is none of these must be the outcome of the change under way, on
  top of all changes before it; the history variable `cut` of `TinyFs` says which change that
  was, so that a loss between two operations or in a write-through has no such excuse.
* `KeyScan` is the tick of the keys, with the set of keys that are down as their code.
  `KeyScanMC` remembers how long each pin has been steady and what the hold did.
* `MfpQueue`, `FlashStore`, `UartLink` and `TinyFs` are run as they are; the `MC` modules of
  the others add a bound on the number of requests from outside. The dock's own steps are
  never bounded except by the tick counter of `SnoreIntervention` and the sections that
  `TinyFs` writes.
* Definitions marked "mutant" are slips a programmer could make in the code beside them.
  They take part in no specification; each makes a property fail.

### Abstractions

* Frames are the key they carry; the repeat counts 1, 2, 3, 15 and 30 are a constant per
  key. The queue of `SnoreIntervention` holds requests of one key each.
* `snores` stands for `snoreNub - oldsnoreNub`, the pulses since the window opened.
  Outside a window nothing reads the difference.
* The tick counter `timer` starts at 0 as in the code (which uses tick 0 as "no window"
  and "no cycle") and does not wrap: 2^32 ticks are 497 days.
* `lag` is the number of ticks since the last 100 ms run; at most `RUN_PERIOD`, as both
  timers are served by one loop that restarts them when they fire.
* A tick of the LEDs is 100 ms; all intervals and timeouts of the code are multiples.
* The charging pins are one value of three. Debounced keys and switch positions are
  single steps.
* Flash of the update: a cell is a segment and holds the set of the images programmed
  into it since it was erased, so that what was not erased or was written twice shows.
  Both regions have the same number of sectors.
* The settings page holds settings or nothing: the checksum is taken to reject an erased
  page, one whose program was cut off and anything left by an older program. A save is an
  erase and a program with a power loss before, between and after them. The rest of a
  handler that saves touches no setting. A pwm and a time are a few bytes, 0 among them.
* A scan of the keys and `control_timer10ms` are one step, as one timer callback calls
  both. The pins read anything at every tick, which contains every bounce.
* A request and its handler are one step, as the service answers within the handler.
  The settings written by `FINISH_CMD` are the exception: each program is a step of its
  own, with power loss before, after and in the middle of it. Erasing a sector is one step.
* The digest is left out because the code loses its result: it passes through a pointer
  that is never set (`fota_svc_server.c:367`), so that the answer is modelled as either
  one. The properties of the update hold whatever the answer. The signature is not
  checked in this build. The application's status bits other than "finish and reboot"
  are used only to give up (`CancelUpdate`).
* The ranges of the three settings are taken to be apart, as their starts and lengths say;
  the sixth boot address (and a value written after the last slot of a range) would lie
  beyond the range it belongs to.
* Left out: pwm and statistics of a segment, debug windows (`snore_debug_window_tick`),
  counters for the test report, the answers to the application; `fota_clean_state` in
  `VoicePairing`, whose disconnection is that of `FotaService` seen from LED 3.
* A byte of a line is its position in its frame (0 after a `memset`), and a frame is valid
  if it is all positions in order. Where a byte that is not the length byte is taken for
  one it says any length of `Misread`: one, or more than the buffer gets. `FRAME` is one
  length per line, 5 bytes. The buffer is `RXBUFF_LEN` bytes, which is
  less than the array of UART1 and exactly those of the others.
* A byte takes 0.1 to 1 ms on the line and the handler less, so within a frame a byte comes
  between two ticks. Bytes are lost (overrun while flash is written) and frames follow too
  soon `MAX_FAULTS` times; such a frame need not be handled.
* `Quiet`, the pause after which the next frame counts as one that must be handled, is
  `COM_TIMEOUT + 2` ticks: one more than the code's countdown suggests, since its first
  tick may be one whose countdown is over, and its last has to be over before the frame
  begins. A frame after a shorter pause may be lost (listed under findings).
* A cell of `TinyFs` is a byte, an erased one or a part of a node that says what it
  belongs to, so a checksum holds exactly when all the cells it covers are there; that an
  erased or foreign byte passes a checksum by accident is left out. Sizes are small:
  sections of two pages of six cells, a metadata and a checksum of one cell, values of one.
* An erase that is cut off has left the section as it was or blank, a program a prefix of
  its page. Every record lies in the root directory; no record is longer than a section
  (`tinyfs_write` does not look). One record, `Own`, is never deleted: the stack stores its
  keys and addresses at its first start (`tinyfs_config.h:10`), and without a live record
  the next start does not end (listed under findings).
* Advertising ends with a connection: that is the BLE stack's, not the program's, doing.

## 4. What the runs check

| run | bounds | distinct states | shows |
|---|---|---|---|
| `MfpQueue` | 3 slots, 2 keys, 1 or 2 transmissions, frames that fit and that do not | 2 011 | `RingInv`; `ImplementsFifo`, the refinement; `HeadLeaves` |
| `SnoreCycle` | 3 requests, production window 2 and cycle 13 ticks, test 1 and 1, lift time 12 | 2.2 million | the safety of windows, segments and cycles |
| `SnoreLift` | 1 request of any kind, both kinds of main box, a run every second tick | 180 000 | `LiftReleased` |
| `VoicePairing` | 12 requests; timeouts 8, 3 and 6, intervals 2 and 1 | 17 000 | LED 3, session, pairing, chip and advertising; `IndicationEnds` |
| `LevelLeds` | 6 requests; timeouts 5, 6, 8 and 5, interval 1 | 245 000 | LEDs 0 to 2; `AllGoDark` |
| `FotaUpdate` | 2 images of 2 sectors with 2 segments; 3 updates, 2 lost segments, 1 lost connection, 2 power losses | 157 000 | `ImplementsFirmware`, the refinement; the image that runs, acknowledgements; `CopyLands`, `TransferEnds` |
| `UartLink` | each of 3 lines; frames of 5 bytes, a buffer of 6, 2 faults; queue of 2 slots, 1 key, 1 or 2 transmissions | 684 000 | `HandledIsWhole`, `EachFrameOnce`, `QuietLineEmpties`; `QueuedIsSent` |
| `TinyFs` | 2 records, 2 values; 3 sections of 2 pages of 6 cells; 4 sections written, 2 changes between two write-throughs (1 after a loss), 2 power losses | 435 000 | `ImplementsRecords`, the refinement; `StaysUp`, `SoundStore`, `EndsAreFound` |
| `FlashStore` | 3 strengths, 2 times, 4 levels; nothing else is bounded | 1 300 | `ImplementsKept`, the refinement; `KeptInTheEnd` |
| `KeyScan` | long presses at 2 and 5 ticks, counter up to 7; the pins are unbounded | 5 800 | `DebouncedIsSteady`, `OncePerHold`, `HoldIsNoPress` |

The properties, by what could go wrong:

* *Bed driven too long:* `NoStrayLift` (no lift pulse in the queue after its segment),
  `SegmentBounded` (a segment is over at the first run after its time, also when
  switched off meanwhile), `LiftReleased` (a pulse on the wire is followed by another
  key).
* *Bed never raised again:* `CycleStarted` (stages, three at most, and status only in a
  running cycle),
  `CycleBounded` (the cycle ends in time), `WindowOfMode` (no window of the other mode;
  how old a window is that level 0 has left open is a finding below, not part of it),
  `TestSingleStage` (the window of test mode is not shorter than its cycle).
* *Queue corrupt or stuck:* `RingInv`, `ImplementsFifo`, `HeadLeaves`.
* *A line that stops making sense:* `HandledIsWhole` (what is handled is one frame, from its
  first byte to its last; on the line to the voice chip, whose frames are known by their
  first and last byte alone, as long as no more than a frame's length of faults has
  occurred), `EachFrameOnce` (a frame after a quiet line that loses no byte is
  handled within a tick, and none twice), `QuietLineEmpties` (what a fault left behind is
  gone when the line has been quiet), `QueuedIsSent` (a request to the main box leaves).
* *Records lost, mixed or back from the dead:* `ImplementsRecords` (of two changes that are
  pending none survives without the one before it, and a loss of power touches no record but
  the pending ones and the one being written), `StaysUp` (no assertion
  fails: what the tail erases is not alive; every start comes to its end), `SoundStore`
  (between two operations and after every start each record has one live node, which lies in
  the log and says what is read; the log goes on in pages that are erased, also after a torn
  one; and the next operation will collect in time), `EndsAreFound` (every start finds the
  oldest and the newest section, between which it reads the log).
* *Light that lies or stays:* `LitIsOwned`, `RedNotBlue`, `LevelIsShown`,
  `GreenOnlyCharging`, `VoiceLightInSession`, `IndicationEnds`, `AllGoDark`.
* *Copies that disagree:* `EnabledInSession`, `ChipFollowsSwitch`.
* *Callback after its cause:* `PairTaskWhilePairing`, `AdvertisingKept`.
* *A dock that does not start any more:* `RunsWhole` (whenever the program runs, it is one
  whole image), `ImplementsFirmware` (it is the one that ran before until the application's
  last write, and from then on the one the application sent, wherever power is lost).
* *An update that gets lost:* `AckedIsStored`, `BusyIsConnected`, `CopyLands` (a requested
  copy comes to run, however often power is lost), `TransferEnds` (sending what is
  missing comes to an end).
* *Settings lost:* `ImplementsKept` (a reset brings back what was kept last; nothing is
  erased that is in force already, and nothing else is written), `KeptInTheEnd` (settings
  nobody changes any more come to be kept).
* *A key that does too much:* `DebouncedIsSteady` (a press needs four equal scans and no
  more), `OncePerHold` (also when the counter meets its limit), `HoldIsNoPress`.

**Why the bounds are enough.** The times of the code are 3 s to 30 min; the models keep
their order and, where it matters, their ratio. In `SnoreCycle` the production cycle is
longer than four windows, so a fourth decision falls into a full cycle; the test cycle
equals the test window; and a segment of four ticks outlasts a window of either mode,
which is the overlap where `snore_lift_start` stops a running segment. `MAX_TIMER` 18
lets a whole cycle end and the next one start. Three requests suffice to change level,
mode and back in one behaviour. `SnoreLift` trades depth for breadth: all voice
commands, both main boxes and a run that falls behind the tick. Snore pulses come in
bursts of seven: they lift at every level in test mode and at level 3 only in production,
so that both decisions occur; what lies one pulse above or below a threshold is decided
by `snore_period_threshold` alone. Two queue slots make the queue full with one pulse and one key. For the
LEDs, 12 and 6 requests are more than the number of steps between any two tasks on one
LED; the timeouts differ so that each can end before and after each other one.

In `FotaUpdate` two sectors with two segments are the least with a sector before the
current one and a segment beside the missing one; three updates let an image follow on
another one and on one that was cut off; two power losses fall into one update, its
settings or its copy, or use up both slots of the erase request, so that the third update
runs into the assertion. The erase bit and the boot address come in every combination.
`CHECK_DEADLOCK FALSE` is set because the application may be done with updates, and
because the bounds run out.

In `UartLink` the five bytes are the least with a first, a length, a last byte and two
between them; the buffer has one place more than a frame, so that it fills up behind a
frame, and `Misread` has a length that is met at once and one that is never. Two faults
make a frame that lost a byte be followed too soon by another one. The peer never stops by
itself and the run has no bound on frames. In `TinyFs` a record is four cells (metadata,
data, two checksums) and a section holds a head, two of them and what remains: nodes run
over the ends of pages and of sections at every place, the two live records need at most
two thirds of a section, and the fourth section written lies in the second time round the
ring: the first one has been collected, erased and is written again. Two losses of power
fall into one collection, into the one that makes up for it, or into any other operation.
Up to two changes are pending when the power is lost for the first time, so that the second
could outlive the first, and a third store, from before both, is still one to go back to;
after a loss it is one change, which keeps the run short (`CanChange`). The value that `Own`
holds at first is fixed (`FirstValue`): the two values are of one length and exchangeable.
The run does not need `CHECK_DEADLOCK FALSE`: a write-through is always possible.

The constants of this run stay clear of three places where the store breaks its promise, and
the run shows nothing there: a checksum of two cells, as the code's two bytes are, can lie
across the end of a section, where the next start rejects it (`tinyfs.c:320`), and one cell,
`CRC` 1, cannot; with three live thirds of a section, torn collections use up the tail; and
the loop count, `LOOPS` 65536, does not wrap. All three are listed as findings.

In `FlashStore` the strengths are zero, the default and another one, the times zero and the
default: what the boot replaces and what it keeps. Power may be lost without limit. A power
loss between erase and program loses the old settings with the new ones: `KeptSettings`
permits just that (`Drop`), only for settings that are being replaced. In `KeyScan` the two
long presses lie apart, as in the code, and the counter has room to wrap and come back to
either one; all sequences of scans of two keys are explored.

**Fairness.** `WF` of the ticks and runs: each timer callback restarts its timer,
whatever it does, and the loop returns to the stack after each. `WF` of the main box: it
polls the dock periodically, and each valid frame runs `mfp_tx_task`. Nothing is assumed
of the user, the application or the voice chip: they may stop at any time, so liveness
is stated for what must happen then. In `FotaUpdate`, `WF` of the processor's own steps
(writing settings, resetting, copying, booting: straight-line code), and of an application
that has started an update and is connected; that it starts one, connects or reconnects is
not assumed, and losses are bounded, as repeating is no help against a peer that never
hears. In `FlashStore`, `WF` of the boot, of the 5 ms timer, which its callback starts
again, and of the steps of a save; `KeptInTheEnd` supposes that power stays on in the end,
and assumes nothing of key and application. In `UartLink`, `WF` of the timer and of the
handler, and of the peer: the main box polls for ever and finishes its frames. `TinyFs` has
no fairness: it promises nothing in the end.

**Runs that show a disagreement.** Each checks a sentence of the documents or comments,
against what the code does:

| run | property | what happens |
|---|---|---|
| `SnoreAlive` | `DetectionAlive` | a mode switch while off leaves the detection dead when the former level is set again |
| `FinishStuck` | `FinishResets` | the sixth update without the erase bit ends in an assertion instead of a reset (the watchdog, which `timer_event.c:356` refreshes, is initialised nowhere in the tree; were it on, it would end the loop, and the copy request would still be missing) |

`PROJECT.json` quotes the sentences, and lists the other disagreements that were met and have
no run of their own:

* *intervention and voice:* a window that the level key leaves open and that closes much
  later with all pulses since; the voice command STOP that does not end a running segment;
  thresholds of test mode; a clear that keeps the start of the cycle for the next lift to
  overwrite; a session automaton that stays active when the switch goes off and on again;
* *LEDs, keys and pairing:* switching the voice off drops the task that ends pairing, which
  then never times out; the level key at the wrong moment leaves red lit on an empty
  station; red without priority over a level switch; the invisible task after a fault; the
  restarted thirty seconds of pairing; a disconnect while pairing that neither flashes nor
  advertises; a key that goes on with the counters of another one released a tick before;
  the length of a long press;
* *update:* the lost result of the integrity check;
* *UART:* the store of the countdown overwrites the timeout of a byte that came after its
  load, and a frame that starts then is thrown away;
* *record store:* a start without a live record never ends; a node whose checksum lies
  across the end of a section is not found at the next start; the search for head and tail
  does not know the wrap of the loop count; after several losses of power in one collection
  the tail erases what it is copying. Each was met as a counterexample of `StaysUp`,
  `EndsAreFound` or `ImplementsRecords` under the constants that admit it (no record that stays; `CRC` 2, `SECTION`
  24, `PAGE` 8, `MAX_PENDING` 3; `LOOPS` 8, `MAX_COUNT` 8; `SECTION` 8, `PAGE` 4,
  `MAX_PENDING` 2).

## 5. What is proved

All proofs hold for every value of the constants under the named assumptions: positive
queue size and repeat counts (`QueueAssumption`, `MaxItemsAssumption`), positive times
per mode (`SnoreAssumption`), a test cycle no longer than the test window
(`TestCycleAssumption`; both are 60 s in the code), positive timeouts and intervals
(`LedTimeAssumption`), long presses shorter than what the counter counts
(`KeyAssumption`: 2 s and 5 s of 655 s), a frame of at least five bytes that the buffer
holds and a line that is quiet after two ticks at the earliest (`LinkAssumption`: it
is two in the code), sections of whole pages, at least two of them (`LogAssumption`), and,
for the record store, at least three sections, in each of which a record fits beside its
head (`StoreAssumption`).
The theorems quantify over all behaviours, without the bound on requests of the `MC`
modules; `MAX_TIMER` and `MAX_FAULTS` are any natural numbers.

* **`UartLink_proofs`.** First the queue: `RingCorrect` and `RingImplementsFifo`. Inductive
  invariant: types and `RingInv`. The arithmetic lies in lemmas about `Offset`: it is
  injective over fewer than `MAX_ITEMS` places, and a step of `head` shifts it by one; from
  these, each action of the ring changes `Pending` as the action of the same name of
  `MfpFifo` changes its sequence, and a refused request is a stutter. Every step of the line
  is one of the queue's or leaves it alone (`LinkKeepsRing`, `LinkImplementsFifo`).

  Then the line: `WholeFrames`, `FramesOnce` and `QuietEmpties`, from `LinkInvariance`. None
  of the three follows from where the handler is: what is in the buffer must be known while
  the interrupt goes on appending. The invariant `LinkInv` consists of `TimeInv` (how the
  timeout, or the copy of it that the handler holds, relates to the pause of the line),
  `QuietInv`, `BlankInv` (behind the index the buffer is wiped, except between a reset and
  the `memset`), `CountInv` (a buffer that begins with a first byte holds the bytes that
  followed it, but for as many as were lost since), `ValidInv` (a frame found valid stays in
  its place until it is handled), `HeardInv` (no last byte waits unless a frame was sent and
  not handled), and `ArrivingInv` with `ArrivedInv` (a clean frame is in the buffer as far
  as it was sent, and stays there until it is handled, with the timeout renewed).
  `COM_TIMEOUT` 1 is excluded because a tick within a frame would then empty the line.
  `CountInv` is why `HandledIsWhole` stops at `FRAME` faults for the voice chip: with more,
  the first byte of one frame and the last byte of the next may lie as far apart as those of
  one.
* **`SnoreIntervention_proofs`.** `TypeCorrect`, `LiftTimed`, `LiftBounded`,
  `CycleCounted`, `CycleCorrect`, `WindowCorrect`, `TestModeLiftsOnce`. None of the properties is inductive: a property
  of `st` after a run depends on which window and which cycle were open before. The
  strengthening is `SafeAt`, the conjunction of `SegmentAt`, `CycleAt` and `DetectAt`,
  each a predicate of the record, the mode, the level and the tick; it says for instance
  that a window opened in a cycle was opened no earlier than the cycle. Each function of
  the source has a lemma about what it does to them, and the handlers compose the lemmas
  as they compose the calls.
* **`LedTasks_proofs`.** What each operation of the engine does to a well-formed LED,
  where well-formed means that no pin is lit but the task's, and that an empty slot has
  no colour, priority or callback.
* **`LevelLeds_proofs`.** `TypeCorrect`, `LitCorrect`, `LightsCorrect`, `LevelCorrect`,
  `ChargeCorrect`. `RedNotBlue` is not inductive, because the red pin is written past
  its task: the invariant `LedsAt` says it of tasks instead of pins (with a red task
  there is no blue one). It also needs that a station found charging at the last poll
  has no fault noted as shown.
* **`VoicePairing_proofs`.** `TypeCorrect`, `LightCorrect`, `SessionCorrect`,
  `PairTaskCorrect`, `ChipCorrect` and the action property `AdvertisingCorrect`. The
  invariant `LightAt` sorts the lights of LED 3 by priority and callback: pairing's has
  the high priority and its callback exactly while pairing, a command's is green exactly
  while the callback waits that turns it blue again, and both lights that outlast their
  cause need a session. `ConfigAt` ties the chip to the shadow and the shadow to the
  switch.
* **`FotaService_proofs`.** `TypeCorrect`, `AlwaysRunsWhole`, `AlwaysCopyIsWhole`,
  `AckHonest`, `ServiceHonest` and `UpdateIsOneStep`, for any images, sectors, segments and finish commands, and without the
  bounds of the run (`FotaAssumption`: at least one of each; every update asks for a
  copy). `RunsWhole` says nothing of the boot code, so the invariant follows the copy:
  `RunRegion` has the sectors before `cpu.at` copied and the rest as it was, which power
  loss sends back to the start; it needs `CopyRequest`, that the request and the whole
  image it names stay until the copy is marked done. `LoadRegion` follows the transfer:
  sectors before the current one whole, those after it blank, in the current one nothing
  but segments of its image, and every acknowledged one. `Ordered` says that the log is used up from the front, so that
  writing into the slot after an invalidated one cannot touch another value.
  `UpdateIsOneStep` is the refinement of `Firmware`: the first request of an update is
  `Offer`, the write of the request to copy, which is the last one of `FINISH_CMD`
  (`CopyLast`), is `Adopt`, a reset or a loss of power `Stop`, the end of the boot `Start`,
  and all other writes to flash, in the service and in the boot code, stutter.

  Of `FotaSegments`: for every start and length the programs of a segment stay within
  pages (`PieceInPage`) and cover its bytes and no other (`PiecesCover`); for every segment
  length that the MTU allows, the segments of a sector follow one another and end with it
  (`SegmentsPartition`), and each has its bit (`SegmentHasBit`).
* **`KeyScan_proofs`.** `TypeCorrect`, `HoldActsOnce`, `DebounceCorrect` and the action
  property `PressIsNoHold`. The scan and the tick are separate arguments: `ScanInv` reads
  off `deb_arr` how long each pin has been steady, and `HoldInv` says that a hold that has
  acted has its counter past the point of the act and has set `keys_ignore`, which nothing
  but the release takes back. A long press as long as the counter counts would act in every
  tick, hence `KeyAssumption`.
* **`FlashStore_proofs`.** `TypeCorrect` and `StoreImplementsKept`, for any bytes of the
  application that contain 0 and the defaults (`SettingsAssumption`). The refinement needs
  that outside a save and the boot the shadow is what `flash_load` would make of the page
  (`ShadowIsStored`): only then does "differs from the shadow" mean "not kept yet", which
  the abstract store demands before it gives up the old settings. Each step is then one
  of the store's or a stutter; the erase is `Drop`, the program `Keep`, a power loss
  `Reset`, and the boot a stutter, since the settings about to be in force count as such.

  It also holds the theorems about `TinyFsLog`, for sections and pages of any size, any set
  of cells, and any node that fits into a section beside its head. `GoodLog` is what the log
  keeps between two appends: the cache is less than a page, stands for the page behind the
  log, and that page and all behind it are erased. `AppendKeepsLog`: an append keeps it.
  `AppendReadsBack`: what is appended is read back at the address that was handed out, also
  when it runs over the end of a page or of the section. `OlderNodesStay`: nothing that lies
  before it changes, but for the section the tail goes on to. `LossKeepsFlash`: the same of
  every flash that a loss of power in between may leave. `WriteOutKeepsLog`: a write-through
  puts what is seen into flash. All follow from `AppendsAll`, which says cell by cell what
  an append leaves behind: for one cell it is a case analysis (within the page, at its end,
  at the end of the section); for all of them the loop, a recursive function, is first
  shown to exist and then followed by a least counterexample, both from the well-foundedness
  of `<` on the naturals.

  On these rest the theorems about the store, for any number of sections from three on, any
  sizes of section, page, metadata, checksum and records, any set of keys and values, as long
  as a record fits into a section beside its head (`StoreAssumption`). `Live` is the
  invariant: the log is good, each record has one live node, each lies where the log has been
  written, and all lie in the sections from the next one to collect on to the tail.
  `CollectionKeepsRecords`: a collection that has `Room` keeps it and leaves every record as
  it was, by an invariant of its loop (`CopiedBut`: how many nodes are still to copy, and how
  far the tail has gone). `WriteIsChange`, `DeletionIsChange` and `WriteThroughChangesNothing`
  compose it with the append that follows. `OperationsImplementRecords`: while the power stays
  on, every step of `FsSpec` is one of `RecordHistory` or a stutter, and `StaysUp` and
  `SoundStore` hold, if `CollectsInTime` does. That hypothesis is about how much is stored and
  not about the code, which begins a collection when the tail is a section away from the one
  to collect, whether or not what is alive there still fits; the run checks it of its sizes,
  also after losses of power, as a part of `SoundStore`. `RoomyStoreStaysUp` replaces it by a
  condition on the constants (`Roomy`: a head, a page, and one node more than there are keys,
  all at their longest, fit into a section) under which it always holds. This needs the second
  invariant `Tidy`: after an operation the section behind the tail is never the one to collect
  next, because `MustCollect` looks one section ahead and for the length of the next node.
  `RoomyStoreImplementsRecords` draws the conclusion. Sections of 4096 bytes, the code's
  (`tinyfs_config.h:17`), are roomy for 15 records of up to 200 bytes.

  All of that is about a store whose power stays on. What a start does after a loss of power
  begins with the search for the oldest and the newest section, and `StartsFindEnds` is about
  it: for any number of sections and keys, and with losses of power at any point, also while
  a section is erased and before its head is there, `EndsAreFound` holds. The proof has three
  parts. `Chained` says of a content of the flash that the valid sections lie side by side on
  the ring and their loop counts go up by one; of such a flash the search, which starts at
  whatever section is the first valid one, returns the ends (`FindsEnds`). `Fit` says of the
  store that every content of the flash on the way is chained, and that the cache holds the
  tail's head as long as its first page is not programmed; every cell that is put, every page
  that is programmed up to any place and every section that is opened keeps it, and so do the
  operations with their collections (`OperationsReach`). `LoadedFits`: a start from a chained
  flash, whatever else it holds, ends in a fit store, or fails. The hypotheses are what the
  search needs: the loop count has room for twice the sections, since a difference is read as
  a signed number, and does not come round while the store runs. An operation with its
  collection opens at most a section for each key and one more, hence the distance that the
  count must keep from the wrap between two operations (there are finitely many keys). Behind
  the wrap, after 65536 sections, the property fails (listed under findings).

**Only model-checked:** liveness (`HeadLeaves`, `LiftReleased`, `IndicationEnds`,
`AllGoDark`, `CopyLands`, `TransferEnds`, `KeptInTheEnd`, `QueuedIsSent`), which rests on
fairness and so on `ENABLED`; and of the record store `StaysUp`, `SoundStore` and
`ImplementsRecords` after losses of power (they are proved for a store whose power stays on).
With losses of power the three are not true for all sizes: the findings at the end of
section 4 say at which they fail, and why; and which nodes the start reads back depends on
what a torn page may look like, at each of which TLC looks. Type invariants (where a module
states one), `CopyIsWhole` and `LitIsOwned` of LED 3 are proved and are not among the runs'
properties.

## 6. Not modelled, and why

Formatting, answers and logs; the pin table of the LEDs (every caller asks for a colour
its LED has); pulse width and statistics of a segment; the wrap of the tick counter; of
the update the digest, the signature and requests outside the protocol's order (its data
request before any start would divide by a segment length of zero); the busy flag
of notifications (`uart_server_ntf_done`), whose only hazard is what the closed stack does
with a notification when the connection goes; directories, lists and erasing everything in
tinyfs, which nothing but its own test calls here; code nothing calls (sleep analysis,
first LED module, air bag control).

Most of `src/` is not the dock's: of some 166 000 lines about 150 000 are the vendor's SDK
and third-party code in it. They are register definitions and inline accessors
(`hal_driver/api`), CMSIS with its DSP library, FreeRTOS, which this build does not link,
cryptography, drivers of peripherals the dock has not got, and headers of a BLE stack that
is delivered as a library. There is no behaviour of this system in them to state; of the
parts that have some, the settings log, the boot code, tinyfs and the receive path of the
UART driver are modelled. The share of all lines that the map covers is small for this
reason and stays so.

## 7. Plan

Done, in the order of importance: the queue (everything goes through it), the snore
intervention (what the product is for), LED 3 with voice and pairing, LEDs 0 to 2 with
level and charging, the firmware update from its first request to the boot, the settings in
flash, the keys, UART reception with the queue's turn, the record store. Next:

1. Proofs: the start of the record store (what `Loaded` reads of a flash that an operation
   left whole, then of one that was cut off, under a condition on the sizes that keeps the
   findings out); one invariant that ties the level of `LevelLeds` to that of
   `SnoreIntervention`.
2. A composition of `VoicePairing` and `SnoreIntervention`: a command reaches the
   intervention only in a session.
3. Directories of tinyfs: removing one with its records is several nodes, between which
   power may be lost.
4. The settings log by address, so that a value beyond its range meets its neighbour; an
   abstract specification of the log (a setting is the last value written, or none after
   a power loss) that `OtaSettings` refines.
