# A TLA+ verification project for the Arduino Primo core

The Arduino Primo carries an nRF52832. Sketches run on the application core,
next to Nordic's SoftDevice S132, which owns the radio and the flash. This
directory models the parts of `src/` where sketch, interrupt handlers,
peripherals and SoftDevice share state, model-checks them with TLC and proves
what matters most about them with TLAPS.

Contents: [inventory](#1-inventory), [modules and how they correspond to the
code](#2-modules), [runs](#3-runs), [assumptions and
fairness](#4-assumptions-and-fairness), [proofs](#5-proofs),
[disagreements found](#6-where-code-and-documentation-disagree),
[what is not modelled](#7-not-modelled), [plan](#8-plan).

## 1. Inventory

There is no scheduler. `main.cpp` calls `setup()` and then `loop()` for ever:
one sketch process. Everything else is an interrupt handler, a peripheral, or
the SoftDevice. The SoftDevice preempts everything; the handlers preempt the
sketch between any two accesses to memory; SysTick has the lowest priority.

| component | state | operations | interacts with | module |
|---|---|---|---|---|
| `Uart`, `RingBuffer` | 64-byte ring (`_iHead`, `_iTail`), one-byte DMA buffers | begin, end, read, available, flush, write, `UARTE0_UART0_IRQHandler` | UARTE peripheral writes and reads the DMA buffers | `Uart`, `RingBuffer`, `SerialQueue` |
| `WInterrupts` | `freeChannels`, `callbacksInt`, GPIOTE registers | attachInterrupt, detachInterrupt, `GPIOTE_IRQHandler` | runs callbacks of the sketch; SoftwareSerial is one; PPI uses the same channels | `Gpiote` |
| `SoftwareSerial` | one ring buffer for all ports, `active_object`, channel masks | begin, listen, stopListening, read, write, flush, overflow, the receiver callback | attachInterrupt, GPIOTE interrupt mask | `SoftSerial` |
| `delay.c` | `_ulTickCount`, SysTick | millis, micros, delay, `SysTick_Handler` | every handler delays the tick | `Clock` |
| `RTC` | calendar, alarm, RTC2 | setters and getters, setAlarm, `RTC2_IRQHandler` | the handler preempts getters and setters | `Rtc` |
| `SoftDeviceManager` | `_flashOperationPending`, error callbacks | flashErasePage, flashWriteArray, `socEvtHandler`, `pollErrors` | SoftDevice flash events | `Flash` |
| `BLEBondStore` | one flash page | putData, clearData, getData, hasData | the same flash, without looking at its events | `Flash` |
| `nRF51822` under `BLEPeripheral` | link, `_txBufferCount`, subscriptions, remote services, `_remoteRequestInProgress` | poll (one case per event), setValue, canNotify, canIndicate, read, write, subscribe of remote characteristics | SoftDevice events; callbacks of the sketch inside poll | `Ble` |
| `BLECentralRole`, `BLENode` | table of seven links, shared credit count and discovery index | poll, connect, discover, remote requests, values | SoftDevice events; callbacks of the sketch inside poll | `Central` |
| `BLEManager`, `DFUService` | registered roles, DFU's connection | `ble_evt_dispatch`, `processBleEvents` | route every event by the role of its link | |
| `BLESerial` | a second ring buffer | read, write, flush, received | characteristics of the link | |
| `PPI`, `Comparator` | PPI channels, GPIOTE task channels | set and remove shortcuts | the GPIOTE channels of WInterrupts | |
| `Tone` | `duration`, `pin_sound` | tone, noTone, three PWM handlers | PWM peripherals, analogWrite | |
| `Wire` | two ring buffers, suspend state | master transfers, slave service routine | TWIM and TWIS peripherals | |
| `SPI` | interrupt mask of a transaction | transfer, transaction | GPIOTE interrupts | |
| others (analog and digital I/O, NFC, CIR, CoreSensors, Print and String, nRF8001, HID and beacons) | configuration, buffers of a single caller | | | |

What is hard, and what makes each part correct:

- **Serial port.** A ring buffer shared without a lock. A read or a `clear()`
  in two steps must survive a store between them; a count given by
  `available()` must stay good; the handler must re-arm itself; `write()` waits
  for one event flag that it also resets.
- **External interrupts.** Eight channels are handed out by linear search, and
  entries of freed channels are left behind. One function per attached pin, no
  leak, no edge lost, and never a function of a detached pin.
- **SoftwareSerial.** The receiver is such a function, and stays in the handler
  for a whole frame; the edges of the data bits leave events behind. The ports
  share one buffer and hand the line from one to the other by detaching and
  attaching. Every frame must arrive once, and sending must not be interrupted.
- **Time.** Three registers are read one after the other while the tick may
  intervene; the 32-bit counts wrap.
- **Calendar clock.** The cascade from seconds to years in a handler; getters
  that read field by field; an alarm whose wait is computed by day numbers and
  whose counter is not the clock's; a callback in the handler that sets what the
  sketch's call was setting.
- **Flash.** An asynchronous operation is waited for on a flag that is not tied
  to the operation; another user does not wait at all, and one of its calls comes
  from the interrupt that handles the flash's events; power may fail. The bond
  must survive.
- **BLE link.** Credits counted by hand from reports that are late; state of
  one central that must not reach the next; a discovery that is carried from
  one event to the next; requests from `loop()` and from callbacks.
- **BLE central role.** The same with up to seven links that share one count,
  one discovery index and one request flag; a table of links filled from the
  last advertisement seen.
- **PPI, Tone, Wire, SPI, BleSerial.** State shared by two users of one
  peripheral, by three handlers, or by a handler and the sketch. See the plan.

`PROJECT.json` lists the hazards of the modelled parts with their lines, the
properties that watch them, and in a note what of them the properties leave out.
Others, in parts that are not modelled or that no property is about:

| line | hazard |
|---|---|
| `Uart.cpp:63` | `begin()` enables the ENDRX interrupt before it clears the event: a stop that ended in ENDRX behind `end()` stores a character nobody sent |
| `Uart.cpp:87` | `flush()` triggers STARTTX with whatever `tx_buffer` holds, which sends the last character again, and a `write()` that follows may take the ENDTX of that for its own: `WriteSends` is about sketches that do not flush |
| `WInterrupts.c:92` | a callback that attaches while attachInterrupt has picked a channel and not marked it gets the same channel |
| `SoftwareSerial.cpp:61` | above 250000 baud the centring delay is below 0 and becomes one of 65 ms |
| `SoftDeviceManager.cpp:116` | the wait for the flash never ends in a handler that holds off the SoftDevice event interrupt |
| `SoftDeviceManager.cpp:140` | the 21st error registered without a callback is dropped silently |
| `delay.c:66` | `delay` in a handler, or with interrupts masked, never returns |
| `RTCInt.cpp:212` | 12 p.m. becomes hour 24, and the date never changes again: `ClockAdvances` is about valid times, and nothing catches it |
| `nRF51822.cpp:671`, `:1024` | a request between a discovery response and its handling stops the discovery; one that is split by DISCONNECTED leaves the flag set (`Patient`, `raced`) |
| `nRF51822.cpp:930` | the test of the count and the decrement are two steps; a written value that is notified between them wraps it (`raced`) |
| `nRF51822.cpp:517` | the credit count is read from an uninitialised local if the link is gone when CONNECTED is handled |
| `nRF51822.cpp:669`, `:674` | the search for services wraps behind handle 0xFFFF, and only INVALID_HANDLE ends it; no report at all if the central has none of the declared services |
| `BLECentralRole.cpp:995` | CONN_SEC_UPDATE of a link that is not in the table uses an uninitialised index |
| `BLESerial.cpp:125` | received bytes are stored without looking whether there is room |
| `DFUService.cpp:75`, `:107` | DFU and BLE library both start advertising; the role is read from events that do not carry it |
| `PPI.cpp:284`, `:307` | PPI takes GPIOTE channels without asking attachInterrupt, and takes over a pin's; the ninth configuration reuses the first GPIOTE channel |
| `SPI.cpp:331`, `:183` | a block transfer sends one byte twice and not the last; endTransaction enables interrupts whatever they were |
| `Tone.cpp:139` | two tones count down one counter, and the one that finds it zero wraps it |
| `Tone.cpp:81` | `uint8_t pwm_type` is compared with NOT_ON_PWM, which is -1: it never holds, so a pin without PWM is not refused and PWM0 is used; `pin_sound` is never assigned; what a tone leaves enabled makes analogWrite run through the tone's handlers |
| `Wire.cpp:138`, `:361` | the master's waits have no timeout; the slave's handler waits for the bus |
| `Wire.cpp:163`, `:226` | bytes reported although the address was not acknowledged; an error return leaves `suspended` |

## 2. Modules

Each module has one action per handler or per step between two accesses to
shared memory. Where a call is split, a field of `call` (or `pc`, or `op`) says
how far it is. "Taken before the sketch's next step" is a guard of the sketch's
actions: an enabled interrupt is served as soon as the processor reaches the
next instruction, so that the sketch's step waits for the handler. Definitions
named `...Keeps...`, `...More`, `...Never` and the like with the comment "Mutant
of" are plausible errors, each of which makes the property listed for it in
`PROJECT.json` fail; no specification uses them. A variable `usage` or `setup`
is chosen in the initial state and never changes: it says how the sketch uses
the component, so that one run covers several kinds of sketch.

### RingBuffer, SerialQueue, Uart

`RingBuffer` holds the arithmetic of `RingBuffer.cpp` as operators on `buf`,
`iHead`, `iTail` (`nextIndex`, `isFull`, `available`, `storeIn`, `storeHead`)
and `contents`, the unread characters. It stands between the code and the
abstract queue, and both Uart and its proofs use it.

`Uart` models `Uart.cpp`: `Begin...`, `End...`, `Flush` and `Clear...`,
`Read...`, `Available`, `Write...` for the sketch, `IrqEnter` and `IrqStoreChar`
for the handler (the event is cleared, then the character is fetched and
stored), `RxChar`, `RxStopped`, `TxChar` for EasyDMA. `clear()` may store the
two indices in either order, as the compiler chooses; STARTTX while the
transmitter is busy may or may not restart it, and one that is disabled ignores
it. `peek()` changes nothing and is left out; the baud rate is configuration.
`Usages` are sets of "late" (the handler may be held off beyond a character),
"flush", "write", "reopen" and "closed": none of write(), flush() and end()
tests whether the port is open, and such a sketch calls them when it is not. A
write() on a closed port then spins at `Uart.cpp:118` for ever, as in the code;
`WriteReturns` is about an open one. `begin()` is called only while the receiver
is at rest.

`SerialQueue` is the abstract specification: a bounded queue that refuses a
character only when it is full or is being emptied. `ImplementsQueue` is the
refinement, with `contents` as the mapping; between the two stores of `clear()`
the mapping is what the sketch will see once both are done.

### Gpiote

`WInterrupts.c` with the GPIOTE peripheral. attachInterrupt is
`AttachPick` or `AttachFails` (the search), `AttachRecord`, `AttachConfigure`,
`AttachEnable`; detachInterrupt is `DetachFind`, `DetachDisable`, `DetachMask`,
`DetachFree`; the handler is `IrqEnter` (search of the event, mask,
clear), the callback, `IrqExit`. No step of the sketch comes between. `Usages`
are sets of "attach" and "detach" (callbacks make these calls) and "reattach"
(the sketch attaches a pin that is attached). `attached` and `owed` are history:
the function each pin should run and the edges no callback has answered. Edges are
not bounded.

### SoftSerial

`SoftwareSerial.cpp`, composed with `Gpiote`, which it EXTENDS: the sketch's
attach and detach calls are those of listen and stopListening, and
`handle_interrupt` is a callback of the same table. Time is that of the lines: a
frame is a start bit, its data bits and a stop bit, and `Tick` takes every line,
and the delay the processor is in, one of these further. `Listen`, `Stopped`,
`ListenReset`, `ListenAttach`, `ListenAttached` are listen() step by step, and
go on without a channel if attachInterrupt returns -1 (the mask is then every
channel); `WriteMask`, `Tick`, `WriteUnmask` are write(), which masks the port's
own channel for as long as it sends; `Flush...` masks it around the two stores;
`RecvBegin`, `Tick`, `RecvStore`, `RecvEnd` are the receiver. A frame is a
number: that of the frame sent, or garbled when the receiver came in late.
Delays of parts of a bit (centring) are within a `Tick`. `Usages` adds "duplex"
(frames come also to a port that sends or does not listen) and "others" (the
sketch attaches other pins). `due`, `lost` and `refused` are history, the last
of ports whose attachInterrupt found each channel in use for another pin.

### Clock

`delay.c` with SysTick, one action per register read of `micros` and per turn
of `delay`'s loop. Time advances a cycle at a time. Other handlers may preempt
the caller for any time up to a period, or the caller may itself hold off the
tick. `microsOf` and `stable` are the two expressions of the code.

### Rtc

`RTCInt.cpp`. `Tick` is a tick of RTC2 with its handler: the cascade of time and
date, and the alarm when the counter meets the compare value. Setters and
getters are sequences of field accesses (`call.todo`), the handler in between.
`SetAlarm`, `AlarmDays`, `AlarmHour`, `AlarmMinute`, `AlarmSecond`, `AlarmArm`
are setAlarm. An alarm that rings may call back, in the handler: the call it
comes in is put aside (`preempted`), the callback makes calls of its own, and
`CallbackReturn` resumes the first. `rdn` is the code's day number, with C's
division; `nextDay` and `dayNumber` are the reference it is checked against. The
lengths of minute, half-day and second and the range of the compare register are
constants, so that several days pass within a run; the months and leap years are
the real ones. `target`, `timely` and `rang` are history: the alarm asked for
(for a mode on a date with the time of day at which it was set), whether it is
of the kinds the code gets right, and whether it rang.

### Flash

`SoftDeviceManager`'s flash calls and `BLEBondStore`, with the SoftDevice's
one-operation-at-a-time flash and pstorage as a further client. `FlashBegin`,
`FlashIssue`, `FlashAgain`, `FlashDone`, `FlashReturn` are the two nested loops
of flashErasePage and flashWriteArray, which differ only in what they ask for.
`ClearData`, `ClearIssue`, `ClearDelayed` are clearData, which the sketch calls:
its busy loop and its 100 ms pause. `PutData` to `PutReturn` are putData, which
`BLECentralRole.cpp:1072` calls when a pairing has succeeded, from poll() and so
from the interrupt of the SoftDevice's events: it may come in the middle of the
manager's call or of clearData (`put` and `call` are two), and while it runs the
events of the flash wait (`evts`). A page is one value: blank, one of the data,
or garbled by a write onto what was not blank. `PowerLoss` restarts the board at
any moment: the operation in flight has been done, has not, or has left the page
garbled. `torn`, `failed` and `uses` are history: power was lost in the middle
of putData or clearData; an operation has failed; the flash has been used not at
all, once, more than once. Neither the calls nor the failures are bounded.

### Ble

The peripheral side of `nRF51822.cpp`. `Sd...` are the SoftDevice and the
central: they connect and disconnect, report sent packets, confirm, write CCCDs
and values, answer discoveries and requests; each raises an event. `Poll...`
are the cases of `poll()`, one event at a time, each whole: the continuation of
the discovery and the notification that a written value triggers are part of
their case. DISCONNECTED is three actions, as its callbacks run in the middle of
it: `PollDisconnected` forgets the link (to 559), `PollUnsubscribe` takes a
characteristic's subscription before its callback (561), and `PollForget`, behind
the callback for the link's end (566-569), the handles and the flag (571-581); the
next event waits until then (`ending`). `SetValue` and `Hvx...` are
updateCharacteristicValue: first the notification, then the indication, each
with a test of `_txBufferCount`, the decrement (`TakeBuffer`, a load and a
store) and `sd_ble_gatts_hvx`, whose result the code drops. `Request...` are
read, write, subscribe and unsubscribe of the central's characteristics: the
test, the flag, the credit, the call. A call is made from `loop()`, where
events may be handled between its steps, or from a callback inside poll, where
none is before it returns. A callback that comes in the middle of a call from
`loop()` makes no call itself.

Each declared service has one characteristic; handles are abstracted to "known
or not"; the contents of values, passkeys and addresses are left out.
Advertising, broadcast data, pairing, `begin()` and `end()` are not in the
module. `setup` is what the sketch has declared. `raced` and `unreported` are
history: an event was handled in the middle of a call; packets sent and not yet
reported to the library.

### Central

`BLECentralRole.cpp`: the table of links with one slot behind its used part, the
scan, one credit count, one discovery index and one request flag for all links.
`PollAdvReport` includes the connect() of a callback, `Stray` is one at any
other time; the other `Poll...` actions are the cases of `poll()`, among them
the CCCD writes, which go to every link. The end of a link is two: its callbacks
come between `PollDisconnected`, which frees the slot, and `PollForget`, which
clears ranges, handles and flag (673-688). The callbacks of the other cases are
taken to come at their end. Handles are named by the peripheral they were found
on, so that a handle used on another link can be told. The sketch calls the
library from callbacks only; the steps of calls from `loop()` are in `Ble`.
`shared`, `commanded` and `overheard` are history: two links at a time, a write
that is not counted, a report between connect() and the link, and, in
`unreported`, the packets sent whose TX_COMPLETE has not been handled.

### Proof and model-checking modules

`Uart_proofs`, `Flash_proofs`, `Clock_proofs`, `Rtc_proofs`, `Ble_proofs` and
`Central_proofs` extend their component and hold the theorems of section 5;
`Gpiote_proofs` extends `SoftSerial`, and holds those about `Gpiote` first,
which use nothing of the ports, and then those about the ports. `Division` holds
lemmas on `%` and `\div` that several need: what a remainder is, how it changes
with a step, and how quotients are ordered. `MCUart`, `MCGpiote`,
`MCSoftSerial`, `MCClock`, `MCFlash`, `MCRtc`, `MCBle`, `MCCentral` extend a
component with the values its configurations need.

## 3. Runs

| run | bounds | shows |
|---|---|---|
| `uart_port` | ring of 3, 4 characters, 2 writes, 2 flushes, 2 sessions; a handler that keeps up and a sketch that flushes, open or closed; an arbitrarily late handler with a sketch that writes and reopens the port; a sketch that writes to a port open or closed | `ImplementsQueue`; `AvailableIsSafe`; a flush resurrects nothing (`ClearDiscards`); order survives lost and doubled characters (`ReadInLineOrder`); every character reaches the buffer (`CharIsOffered`); `write()` sends its character before it returns, and so does not return on a closed port (`WriteSends`), and on an open one returns (`WriteReturns`) |
| `gpiote_sketch` | 2 channels, pins 0, 1, 5, 2 functions, 3 attachments, any edges; callbacks that do not call back, and callbacks that do | the handler finds its channel whatever is called (`HandlerFindsChannel`); used as documented: `LastFunctionRuns`, `ChannelsMatchPins`, `RunsOnEdge`; no edge is lost, though one may wait as long as edges on lower channels keep coming (`EdgeAnswered`) |
| `gpiote_replace` | 2 pins, attached again | violation of `ReplacesPrevious` |
| `softserial_ports` | 2 channels, ports on pins 9 and 11, two other pins, buffer of 3, 3 frames, 3 attachments, any edges; two usages: the ports alone, also sending and receiving at a time, and other pins, with functions that do not call back (those that do are in `gpiote_sketch`) | every frame received once, in order and whole, or reported as overflow (`FramesReceived`); the port that listens is armed, or deaf because all channels were in use for other pins, and no other port has a channel (`ListenerArmed`); nothing runs while a port sends (`CleanTransmit`) |
| `clock_calls` | 3 cycles a microsecond, 2 microseconds a period, words of 8, delays to 2 | `MicrosInCall`, `DelayBounds`, `DelayReturns` across every wrap |
| `rtc_clock` | minute of 3 seconds, day of 4 hours, 2 ticks a second, compare range 512; the last second of every day of nine years; 2 calls around midnight; a clock never set; an alarm of every mode in the two days before 1 March, and two of them, one behind the other, over a midnight; three calls around an alarm, in its callback too | `ClockAdvances`, `RdnCounts`, `CountTogether`, `GetTimeBehind`, `AlarmMatches` |
| `rtc_alarm` | the alarms of the same clock | violation of `AlarmOnSeconds` |
| `flash_calls` | manager, bond store and pstorage, 2 data; any calls, any failures, power lost at any moment | the first call does what was asked (`FirstAsAsked`); calls return unless operations fail for ever (`Returns`); `BondKept` |
| `flash_retry` | the manager alone | violation of `PageAsAsked` |
| `ble_link` | a characteristic; three remote services; one of each; 2 credits, counts of 0 to 2, up to 2 answers a discovery, 2 waiting events | `NotOverdrawn`, `SetValueTruthful`, `SubscriptionsAgree`, `RequestTracked`, `ForgetsPeer`; a discovery and a request end (`DiscoveryEnds`, `RequestsEnd`) |
| `ble_indicate` | 1 characteristic, indications | violation of `CanIndicateWhenFree` |
| `central_links` | 2 connection handles, 2 peripherals, 2 services, 1 characteristic, 1 credit, a table of 2, the handles symmetric | `TypeOK`: no request carries a handle that was not found; `LinksInTable`, `ScansWhileRoom`; for one link at a time `NotOverdrawn`, `AsksOwner`, `ReportsAllServices`, `RequestTracked` |

Why the bounds suffice. A ring of 3 holds two characters: it is empty, partly
full, full and wrapped within four characters; the size itself is arbitrary in
the proofs. Two channels with three pins run out, are freed out of order and
leave entries of other pins behind; pin 0 is among them because an unused entry
holds pin 0. Three frames fill the software serial buffer of two and one more,
come to the port before, while and after it sends, and to both ports; two
channels run out when the two other pins are attached, and a port that listens
is then deaf. A period of 6 cycles has more cycles than `micros` has reads in an
iteration, and a word of 8 wraps both the count and the microseconds within a
run. Nine years have every kind of year of a century, and their days every end
of a month; a shorter day has the same cascade. The flash's users meet in every
order and as often as they like; two data and a blank page tell what each was to
leave. Two credits can both be in the queue, both be reported, or one each;
three values of the count leave none to spare, so that an overdraft wraps. Three
services make a first one, a last one and one that may be missing between them.
Two links are the least that share anything, and two peripherals the least that
can take each other's slot. The events about the end of a link are never
bounded.

Deadlock is not checked where the bounds on calls, characters or ticks, or a
call that waits for ever, let the system stop (the runs of `Uart`, `Gpiote`,
`SoftSerial` and `Rtc`).

## 4. Assumptions and fairness

Of the hardware and the SoftDevice, from how the code uses them:

- An enabled interrupt is taken before the sketch's next step, unless the usage
  says otherwise: "late" in `Uart` lets a character complete before the one
  before it has been served, and `Clock` lets the tick be held off.
- The UARTE restarts reception through its short; a stopped receiver ends with
  ENDRX.
- No SysTick is lost: no handler runs, and nobody masks interrupts, for a whole
  period. `delay` is not called where the tick is held off. No tick of RTC2
  is lost.
- A SysTick that reloads 0 does not count, so a period has two cycles at least
  (`ClockAssumption`; the code's has 64000).
- The ticks of a day fit the compare register (`CounterAssumption`; 691200 and
  2^24 in the code). Alarms on dates beyond its reach are not among those that
  `AlarmMatches` is about.
- What the processor does between two delays of SoftwareSerial takes no time
  against a bit, and bits of both sides are of one length.
- The SoftDevice has one flash operation and, for each link, one GATT client
  procedure at a time and refuses another; it reports every accepted flash
  operation, unless power is lost.
- Its events are handled before the sketch goes on, and those of the flash before
  its next operation completes or a pairing succeeds, which take far longer. The
  result BUSY of a flash call is dropped by the code; the event of another client's
  operation then ends its wait. `PageAsAsked` is therefore checked for the manager alone.
- An indication is confirmed or the link ends; it uses no transmission buffer.
- The SoftDevice refuses a connect while it is connecting, and without a free
  handle.

Of the sketch: under `Disciplined` it detaches a pin before attaching it again
and calls neither function from a callback. It waits for
BLERemoteServicesDiscovered before it makes a request (`Patient`); without this
`RequestTracked` and `DiscoveryEnds` fail: a request that gets in between a
discovery response and its handling makes the continuation busy, and nothing
begins it again. The flag is also checked only for requests that have a
response. `NotOverdrawn`, `SetValueTruthful` and `RequestTracked` of `Ble`
exclude calls in the middle of which an event was handled (`raced`): the test of
a count or a handle and its use are separate steps, and such an event makes them
disagree (the count then wraps to 255, or the flag stays set over the next
link). What `SetValueTruthful` leaves to the code is one refusal: an indication
made while another awaits its confirmation is turned down, BUSY, and setValue
returns true although `API.md:253` and `:260` promise otherwise (section 6).
`EdgeAnswered` allows for the order of the handler's search
(`WInterrupts.c:65`): an edge on a channel may wait for ever while edges on the
channels below it never stop coming. The four properties of `Central` named
above are about sketches with one link at a time, since with two they fail
(section 6), and the number of links fits the unsigned char that counts them;
the run contains two links, and what they do to each other no property catches.
`LinksInTable` is about sketches that connect from the report only and are not
shown one between connect() and the link; with others a link is written past the
used part of the table, or with the node of another peripheral, and no property
catches that either. `FramesReceived` is about half-duplex use: the other side
sends only to a port that listens, that has got a channel and that does not send
itself. `AlarmMatches` is about the alarms setAlarm gets right (`kept`), until
the next call of it begins: from then on the interval may be the new alarm's
while the compare value is still the old one's. They are set within the second
in which the alarm's counter was last cleared (`rtc_alarm` shows the others), on
a valid clock that does not move meanwhile, by a call no callback comes in, with
no alarm on a date before them. An alarm on a time of day then rings at that
time and no other, ever after. One on a date rings the first time on that date,
at the time of day at which it was set: setAlarm does not read the time asked
for, and the interval to the next ring does not fit the counter, both against
`RTCInt.cpp:357-362` (section 6). `GetTimeBehind` leaves out calls a callback
comes in too.

Fairness is what the processor and the peripherals give. Handlers are weakly
fair, because an enabled interrupt is taken; so are a character being sent,
SysTick, an accepted flash operation (which succeeds or fails), the SoftDevice's
answer to a procedure, and the steps of a call that has begun. The sketch is
never obliged to make a call. In `Flash` the steps of its call are strongly
fair: interrupts, of which nothing bounds the number, keep it from running while
they do, but each returns and leaves it a moment. Nothing fair is assumed of the
success of a flash operation: `Returns` says that a call returns or operations
fail for ever, as the loop at `SoftDeviceManager.cpp:114` has no other end.
`Ble` asks for strong fairness of `Poll`: a callback may make calls that keep it
from being enabled, but each callback returns. Nothing fair is assumed of the
central, of edges, of power or of characters on the line, and no liveness is
claimed of `SoftSerial`, `Central` and `Rtc`.

## 5. Proofs

Every invariant and every action property that a passing run checks is a
theorem here, and so is the refinement. They hold for all values of the
constants that satisfy the named assumptions (`SizeAssumption`,
`BoundsAssumption`, `GpioteAssumption`, `SoftSerialAssumption`,
`FlashAssumption`, `ClockAssumption`, `RtcAssumption`, `CounterAssumption`,
`BleAssumption`, `CentralAssumption`), which give the constants their types and
exclude degenerate cases, such as an empty period, or more buffers than an
unsigned char counts. The bounds on calls, characters, frames and events are
among these constants: no theorem depends on them.

**Uart.** The invariant is `IInv == TypeOK /\ ReadHoldsOldest /\ ClearHalfDone
/\ PromiseKept`. `AvailableIsSafe` and the refinement are not inductive alone:
between its two steps `read()` must hold the oldest unread character, and
between the two stores of `clear()` the head must not run past the old tail.
From it follow `TypeCorrect`, `AvailableSafe` and `PortImplementsQueue`: each
step of the port is a step of `SerialQueue` or leaves it unchanged
(`ClearRefines`, `ReadRefines`, `StoreRefines`). The lemmas before it are about
`contents`: what a store appends, what a read removes, what a full buffer
drops, for any size.

`WriteSent` rests on `SendInv`, which says of each step of `write()` what the
line has had and what the transmitter holds: a set ENDTX while `write()` waits
is that of its own character. `ReadInOrder` and `ClearDiscarded` rest on
`OrderInv`: what was read, what a `clear()` discarded, what is unread and what
the DMA buffer holds are in the order of the line, and strictly so where the
handler keeps up and the port is opened once. That an event is never served
twice, which strictness needs, is `PhaseInv`: receiver, interrupt and call go
together, and behind `end()` no character is stored.

**Gpiote.** `SafeInv == TypeOK /\ OnlyFilledFire`: only a channel whose entry
has been filled in can raise the interrupt. It gives `TypeCorrect` and
`HandlerStaysOnTable` with no restriction on sketch and callbacks. Under
`Disciplined`, a predicate on `usage`, the invariant `DisciplineInv` adds that a
free channel is silent, that a busy one holds the function of its pin, that the
search of detachInterrupt meets the busy entry before any stale one
(`BusyComesFirst`, which holds because attachInterrupt always takes the first
free channel), and what each half-done call has established. It gives
`OnlyLastFunctionRuns`, `DetachedPinIsOff` and `NoChannelLeaks`.
`FunctionsRunOnEdges` adds `EventsOwed`: an event of a channel is an edge of its
pin that no callback has answered. That the interrupt of a channel is on
unless it is being attached, detached or served (`EnabledBut`) is stated for a
set of channels somebody else has masked, empty here, since SoftwareSerial masks
its own.

**SoftSerial.** A step of the library is a step of `Gpiote`, or it is `Aside`:
it masks or unmasks interrupts, or a frame sets events, and `SafeInv` and
`DisciplineInv` hold across both (`PortStep`, `AsideSafe`, `AsideDisciplined`). So
they are there for the invariant of the ports, `SoftInv`. Its part `ListenInv`
says that only the port that listens has its function attached (`OnePort`), that
its `_intMask` is its channel (`MaskIsChannel`), that a busy channel watches its
pin, that `recv()` runs in the handler of that channel, and that just the
channels that `write()`, `flush()` and `recv()` have masked are off
(`EnabledBut(Masked)`); it needs `Disciplined`, or a sketch that attaches no
other pins. `OnlyPorts` says of the latter that there is but one channel, masked
while a port sends. `DeafInv` is about the port that listens without its function
attached: attachInterrupt found each channel in use for another attached pin, and
its mask is all of them. Together they give `ListenersAreArmed` and
`TransmitIsClean`.

`FramesAreReceived` rests on `FrameInv`. `InStep` relates a frame on the line to
the receiver: its start bit has raised the interrupt, which nothing masks, and
the receiver is then in the same bit as the line, with the frame's data.
`Booked` relates the buffer to the history: what is unread and what was lost are
as they should be, but for a frame on its way, and but for the step between the
two stores of `flush()`. Lemmas on the buffer (`BetweenAppends`, `BetweenTail`,
`BetweenEmpty`) hold for any size.

**Flash.** `TypeCorrect` needs no restriction. `BondIsKept` rests on `BondInv`:
what the operation in flight and the operations still to be issued will leave is
what was put last, a write is issued only behind its erase, wherever putData
preempts the sketch, and a loss of power while the bond store is not at work can
only hit other pages. `FirstCallDone` rests on `OneCallInv`: as long as there
has been one call, whatever is in flight is the operation of that call.
`flash_retry` shows that the second call breaks it.

**Clock.** `TypeCorrect`, and `DelayTakesItsTime`: delay(ms) takes more than
ms - 1 periods for every rate, every width of the count and every wait that
fits. `DelayInv` relates time to ticks: the ticks counted and pending since the
call began, a period each, and the phase within this one, are at most the
cycles elapsed and one period; the subtraction in the loop is of counts that
wrap, and `Division` supplies that their difference modulo the word is the
number of ticks.

`MicrosReturnsTheTime` says that the value of `micros` is that of a moment of the
call, for every rate, period and word, through every wrap. The model's time
wraps too, so `MicrosInv` says that there is a moment T, counted without a
wrap, at which the variables are what they are: the count is of the ticks due by
T less a pending one, and each reading of the loop is of a moment of the call
that it names. If a round has counted K ticks, and one pending, the next reads the
counter when that many periods have begun; if it then finds the same count and
the same pending bit, no further one has, and this is why the test `stable` is
enough. Each step of
the loop is a lemma of its own (`BeginMoment`, `PendMoment`, `AgainMoment`,
`TicksMoment`, `ReturnMoment`).

**Rtc.** `TypeCorrect`; `CalendarIsKept`, that the cascade is the calendar's in
every year; `DaysAreCounted`, that `rdn` counts the clock's days throughout a
century; and `CountsTogether`, that the counter an alarm is compared with begins
its seconds with the clock. The last needs `CountInv`: every compare value is a
whole number of seconds, so that the reset of the counter by an alarm falls on a
second.

A call that a callback preempts is kept as it was (`PreemptedKept`), and goes on
(`Resumes`) with a beginning that is no time of the clock's (`NoClock`), so that
what is said of calls from their beginning is not said of it.

`GetTimeStaysBehind` rests on `GetInv`: while the date is that of the beginning
of the call, the fields read so far are not later than the clock, and agree
with the beginning as long as the clock's hour and minute do.

`AlarmsMatch` is about the alarms of `kept`, for every length of a minute and
of a half-day and every compare range that `CounterAssumption` admits. `OwnInv`
says which call may have which steps, so that nothing else sets the clock while
setAlarm computes. `SetInv` says what has been counted after each of its steps
if the clock has not moved (`Counted`), and that no alarm counts as kept before
it is armed. `TimedWait` shows that what is counted for a time of day is
the seconds to it, carries included, and `DaysToDate`, from the order of day
numbers, that the days to a date are, and so the seconds to the same time of day
on it. `AlarmInv` says of an armed alarm that is
kept that it is `Due`: the counter is at a second, the compare value at a later
one, and when as many seconds have passed the clock shows what was asked for (on a
date, that date and the time of day at which it was set); an alarm on a time of day
is then due again after its period, and of one on a date the theorem says no more.

**Ble.** For every set of characteristics and services, every number of
buffers and every bound:

- `TypeCorrect`: the count stays an unsigned char, and every event has its
  handler.
- `SubscriptionsAgreeAlways` rests on `LinkInv`, the waiting events are those
  of one link, CONNECTED first and DISCONNECTED last, and `SubsInv`: a
  characteristic that no waiting CCCD write is about is subscribed to as the
  SoftDevice knows, and for the others the last write says so.
- `ForgetsPeerAlways` rests on `DiscInv`: whatever is known of a central's
  services was found on this link.
- While DISCONNECTED is being handled there are no buffers, and only its callbacks
  make calls (`EndingInv`): this is what the invariants say between its steps.
- `NotOverdrawnAlways` rests on `CreditInv`: the buffers counted, queued,
  unreported, and taken by the call in progress are no more than there are.
- `RequestTrackedAlways`, for patient sketches, rests on `OnceInv` (a discovery
  is in one place) and `RequestInv` (a flag that is set has something to come
  that clears it).
- `SetValueTruthfulAlways` adds `ReportInv`, that `unreported` is what the
  waiting TX_COMPLETE events sum up to (stated by the existence of their running
  total, since recursion over sequences cannot be unfolded), and
  `RefusedInv`: no value is turned down for want of a buffer but after a race.

**Central.** For any number of connection handles, peripherals and services and
any size of the table:

- `TypeCorrect`, by `TypeInv` and `FlagTypes`. It includes that no request
  carries a handle that has not been found.
- `CountInv`, for the same reason as in `Ble`: `unreported` is the sum of the
  waiting TX_COMPLETE events.
- `BuffersNotOverdrawn`, `HandlesOfOwner`, `DiscoveryIsComplete` and
  `FlagIsCleared` rest on `SessionInv`. As long as there has been one link at a
  time, the library is in one of four conditions: it knows of no link and there
  is none (`Alone`); the CONNECTED of one is on its way (`Coming`); the link is
  in the table, and what is known of its peripheral, the discovery, the request
  and the credits are those of it (`Known`); or its end is being handled, there
  is no link to ask, and what is known of the peripheral goes next (`Ended`). A
  discovery is in one place, a procedure or its answer, and what was found, what
  is in the answer and what the procedure has still to find are together all the
  peripheral offers of what the sketch declared (`Proceeds`, `Sound`,
  `Underway`).
- `TableIsTheLinks` and `ScanIsKept` hold for any number of links, under
  sketches that connect from callbacks and with no report between connect() and
  the link (section 6). They rest on `TableInv`: links do not share a slot, and
  the count is that of the slots (`Placed`); the scan, the connection procedure,
  a CONNECTED on its way and the scan that goes on behind the end of a link have
  a slot to come (`Room`); `_tempNode` is the peripheral the next link leads to
  (`Reached`); and the table holds the links there were before the waiting
  events, which lead one by one to those there are (`Linked`).

Only model-checked are the liveness properties: `CharIsOffered`,
`WriteReturns`, `EdgeAnswered`, `Returns`, `DelayReturns`, `DiscoveryEnds`,
`RequestsEnd`. They rest on fairness, whose proof needs ENABLED, and some of them
on an induction over a number of rounds; both are out of the prover's reach. So
is an induction over data: sums over the waiting events are therefore stated by
their running totals, and what day numbers, rings and quotients do is proved
from arithmetic. That the properties can fail is shown by TLC alone, and so
are the four disagreements.

## 6. Where code and documentation disagree

- `gpiote_replace`: attachInterrupt takes a new channel even for a pin that has
  one; the earlier function goes on running. The comment says it replaces it.
- `flash_retry`: the flag still says "error" while the retry is in flight, so
  that the retry is itself retried. The call returns with an operation of its
  own in flight; its event ends the wait of the next call before that call's
  operation is done.
- `rtc_alarm`: setAlarm writes the seconds from now to the alarm into a register
  that is compared with a counter running since `begin()` or the last alarm. The
  alarm rings early by what the counter has counted, or after it has wrapped.
- `ble_indicate`: an indication takes one of the counted buffers, and no event
  gives it back. After as many indications as there are buffers canNotify,
  canIndicate and setValue fail for the rest of the link.

Smaller ones can be seen in the models without a run of their own.

**Serial and interrupts.** `write()` on a closed port never returns: neither it
nor its wait asks whether the port is open (`Uart.cpp:113-118`). With a port
closed and reopened, a stop whose ENDRX comes after `end()` has masked the
interrupt stores a character nobody sent. A callback that detaches its own pin
runs once more if an edge came meanwhile, because the handler enables the
channel again behind the callback, and a channel that it frees carries the event
to its next pin. `delay(ms)` may last little more than ms - 1 milliseconds,
which is what `DelayBounds` states.

**SoftwareSerial.** The handler serves the first event that is set without
looking at the mask, so that another pin's interrupt runs the receiver in the
middle of `write()`, whose comment says that interrupts are turned off
(`SoftwareSerial.cpp:158`). `listen()` returns true although attachInterrupt
found no channel: the port is deaf, and its mask, -1, is all channels. Above
250000 baud the centring delay underflows (`:61`). An interrupt of another pin
between the two stores of `flush()` can drop a frame. Frames that come during
`write()` are lost or garbled, and a port that begins to listen in mid-frame
reads garbage.

**RTC.** A mode on a date matches the time of day at which the alarm was set,
not the one asked for, and only once, against `RTCInt.cpp:357-362`. A callback
that sets the clock or reads it into the shared fields disturbs the call it
comes in (`:590`). Waits of more than 24 days wrap the 24-bit compare register,
and an alarm on a year arms the next one with -1. An alarm on a time of day
whose hour is over takes seconds for hours (`:429`), and one earlier in the same
hour or minute is taken for later. The days of the modes on a date are unsigned.
12 p.m. becomes hour 24, which no midnight follows: the date stays (`:54`,
`:212`), and in the 12-hour format each setAlarm adds 12 to the hour. An alarm
set while it is OFF arms the compare value 0, and OFF does not disable one.
`addMonth` and `addDay` are never cleared (`:418`, `:422`), and a monthly
repetition is one month off. `rdn` is one too high in the first two months of
year 0, and the mode on a month uses that year; from year 100 on its century
rule and the handler's leap years disagree. A month of 0 reads in front of
`daysPerMonth`. setDate can be split by midnight; getTime can be up to an hour
behind; getDate reads the day first.

**BLE link.** setValue returns true for an indication that the SoftDevice
refuses because the one before it is not confirmed (`nRF51822.cpp:941-947`),
where `API.md:253` and `:260` promise false. A value set in a callback while the
central's write that ends the subscription still waits takes a credit for a
packet the SoftDevice refuses: the credit is lost. A TX_COMPLETE between the
load and the store of the decrement is undone (`nRF51822.cpp:931`). A write
without response marks a request that no response clears (`:1072`), and a write
with response takes a credit no event returns (`:1074`). A request during the
discovery stops it (`Patient = FALSE`).

**BLE central.** With several links: each CONNECTED overwrites the one credit
count and each DISCONNECTED zeroes it (`BLECentralRole.cpp:606`, `:665`); the
discovery index and the handles' ranges are shared, and any disconnection clears
them (`:675`, `:821`); `connectionIndex` is never cleared (`:832`), so that a
peripheral may be asked for another's handle. With any number: `_node` is the
last advertisement seen, not the peer of the link (`:602`); a link without a
free slot is written one past the used part of the table (`:601`); writes
without response are not counted but reported, and the count wraps (`:754`,
`:1312`); the request flag is set even if no link is asked (`:1264`);
subscriptions outlive a disconnection; BLE_GAP_EVT_TIMEOUT is not handled.

## 7. Not modelled

Vendored code under `cores/arduino/components`, which is most of `src/`, the
bootloader images and the variants: the models take from it what the core relies
on. NFC (a closed library); CIR, CoreSensors, Print, Stream and String
(sequential, one caller); the nRF8001 driver (a chip the boards do not carry);
HID reports and beacons (data layout); analog and digital I/O (registers, one
busy wait).

Of `SoftDeviceManager`, the error FIFO and callbacks. Of the BLE peripheral,
pairing, advertising, the broadcast value, `begin()` and `end()`. Of the central,
pairing, values that peripherals send or write, calls from `loop()`, and callbacks
in the middle of a case other than the end of a link. Of
SoftwareSerial, delays shorter than a bit. Of RTC, the getters that change
nothing. BleSerial, the event dispatch with DFU, PPI, Comparator, SPI, Tone and
Wire are planned.

## 8. Plan

In this order, the most important first:

1. Event dispatch by role, composed with `Ble` and `Central`, and the DFU
   service's own advertising.
2. `Ble` extended by pairing and the bond store (composed with `Flash`), by
   advertising and the broadcast value, by `begin`/`end`; `BleSerial` above it.
3. `Ppi` over `Gpiote`: two users of the same channels, each with its own
   bookkeeping; a table of exclusive channels as abstract specification.
4. `Tone`'s shared counter with analogWrite; `Wire`'s waits and suspend states,
   on `RingBuffer`; `Spi` block transfer against single transfers.

Abstract specifications worth stating: a credit counter that never exceeds the
SoftDevice's queue (for `Ble` and `Central`), a byte stream (for `BleSerial` and
`SoftSerial`).

Proofs to come are those of these modules: exclusive channels of `Ppi` on the
invariant of `Gpiote`, the bond of `Ble` over `Flash` on `BondInv`, the
roles of the dispatcher on `LinkInv` and `TableInv`. The safety properties of
the modules that exist are all proved.
