# nexus433 in TLA+

nexus433 reads the 433 MHz temperature sensors of the Nexus protocol from a GPIO
pin and publishes what it hears over MQTT, with discovery messages for Home
Assistant ("the hub" below). This directory holds TLA+ models of the program,
the TLC runs that check them and the proofs that TLAPS checks. File names
without a directory are the repository's sources.

## The system

| Part | State | Operations | Shared with |
|---|---|---|---|
| `Packet` (packet.h) | 36 bits, an 8-bit frame counter | getters, `IsValid`, `IncreaseFrameCounter`, `GetQualityPercent` | inside every storage item |
| Edge readers (decoder.cpp, `PollingReader`, `EventReader`) | previous edge | read the line, call `Decode`, look at the stop future | decoder thread; future shared with the main thread |
| `Decoder::Decode` | `m_State`, `m_BitCount`, `m_Bits` | one call per edge | calls `PacketStorage::Add` |
| `PacketStorage` | `m_Items`: sender id to packet, time stamp, "new" flag | `Add` (decoder thread), `UpdateStatus`, `GetActiveTransmitters`, `GetActiveTransmittersCount` (main thread) | `m_Lock`; the count is read without it |
| `ProcessLoop` (main.cpp) | three sets of a report, the last count | wait 500 ms, update, announce, retire, publish, count, `mqtt.loop` | everything, in the main thread |
| `MQTTClient` | `m_Connected` | messages, `on_connect`, `on_disconnect`, `on_message` | callbacks run inside `mqtt.loop()`, so in the main thread |
| Broker, network, hub | session, retained words, what the hub created | break, accept, refuse, restart | external |
| Start, signals, end (main.cpp, decoder.cpp) | `g_pDecoder`, `m_pThread`, `m_StopFlag`, `m_ErrorStop` | `Start`, `WaitForTermination`, `Terminate` from a signal handler | two threads and a handler on either |
| Configuration (config.cpp, xini.cpp, INIReader.h) | one value per setting, tables of ids | parse, convert, `Load` | read once, before any thread exists |
| LED (led.cpp) | descriptor of the brightness file | `Open`, `Control`, `Close` | the main thread |
| Fake transmitter (decoder.cpp, a build option) | counters | | instead of a reader |

What is hard: two threads on one table, where the clock is read outside the
lock; ages that are 32-bit unsigned differences of a clock that can be set; a
report that is consumed in many steps while the decoder goes on; a connection
that is dead long before the program knows; a hub that forgets everything; a
signal at any moment on any thread; a start of nine steps each of which can fail;
edges that nobody sees and edges that nobody sent; a configuration file written by
hand and read by rules its writer does not know.

What makes each part correct:

* decoder: it never makes up a frame and is in step again after one pause;
* storage: its counts and reports agree with what was on the air; nobody is
  dropped who was heard, nobody stays who is silent; every arrival and departure
  is told exactly once;
* loop: no transmitter is forgotten between the threads; what subscribers know
  agrees with the table while the connection stands; what is published was
  received, often enough, from a transmitter that is not ignored;
* connection: it is replaced when it breaks, the hub is answered, and the word
  left behind at the end is `offline`;
* configuration: a line means what it says, whatever the other lines are, unless
  they speak of the same thing; what they then mean is fixed;
* start: whichever step fails, the chip, the line and the connection taken before
  are given back;
* lifecycle: the decoder thread is gone before the farewell, one signal ends the
  program and does not abort it, the exit code tells of a read error.

## Modules

| Module | Models | Notes |
|---|---|---|
| `Packet`, `MCPacket` | packet.h | nibbles for the 36 bits; 8- and 16-bit widths kept |
| `PulseDecoder` | `Decoder::Decode` | any packet length, pulse lengths, tolerance and edge times |
| `PulseReception`, `MCPulseReception` | a transmitter, a receiver that puts out spikes, a reader that misses edges and jitters, and the decoder | composes `PulseDecoder` |
| `PacketStorage`, `MCPacketStorage` | packetstorage.h/.cpp and the clock | `UpdateStatus` is `SampleNow` and `Sweep` |
| `TransmitterRegistry` | abstract: arrivals and departures are each told once | implemented by `PacketStorage` |
| `PacketStorageHistory` | `PacketStorage` and an observer of the air | the storage's properties |
| `Gateway`, `MCGateway` | `ProcessLoop`, `MQTTClient`, broker and hub, on top of `PacketStorage` | one action per step of the loop and per iteration of its inner loops |
| `GatewayHistory` | `Gateway` and an observer of the frames and announcements | the gateway's properties |
| `Availability` | abstract: which words subscribers of the sensors may hear | extends `TransmitterRegistry`, implemented by `Gateway` |
| `Config` | INIReader.h, xini.cpp, `Config::Load`, `MQTTClient::GetName` | functions only: a file is a sequence of lines, folded |
| `Startup` | `main` up to the connection to the broker, `Led` | extends `Config`; one action per system call that can fail |
| `Lifecycle`, `MCLifecycle` | `main`, `Decoder::Start/WaitForTermination/Terminate`, the handler, the end of the readers | extends `Startup` |
| `PacketProofs`, `PulseReceptionProofs`, `PacketStorageProofs`, `PacketStorageHistoryProofs`, `GatewayProofs`, `GatewayHistoryProofs`, `StartupProofs`, `LifecycleProofs` | theorems about the module of that name | each extends it; the `...History` and `Lifecycle` ones build on the proofs of the module below; `PulseReceptionProofs` begins with those about `PulseDecoder` |

The observers (`...History`) read only what happens outside the program: frames,
ticks, reports, messages. They restrict nothing: each of their actions is an
action of the module below with notes taken.

Definitions whose comment says `mutant` are wrong on purpose: each is a plausible
slip in the definition that follows, and no specification uses it. They document
which slip each property notices (PROJECT.json, `mutants`).

### Storage

A raw packet is a pair of sender and reading; what is not the sender (battery,
temperature, humidity) is the reading, since `Add` compares whole raw values.
`Blank` is the raw value 0, which `UpdateStatus` writes over a reported reading
and which reads as the sender `ZeroSender`. A time stamp is kept as an age, so
time need not grow; the age that `UpdateStatus` computes is `(age - lag) %
AgeModulus`, `lag` being how far the clock has moved since it was sampled: 2^32 in
the code. `Tick` is time, `StepClock` a clock that is set.

### Gateway

`pc` is the place in `ProcessLoop`; `todo` are the ids an inner loop has still to
visit. The test of `IsConnected()` inside the first inner loop repeats the one
before the loop: `m_Connected` changes only in `mqtt.loop()`. Order inside a loop
over ids is left open; the code goes by increasing id. A message
arrives if the broker accepted the session and the connection stands (`Up`); a
QoS 0 publication into a dead socket is lost without an error that the code looks
at. `on_message` compares the topic with an empty `m_StatusTopic` in a way that is
true for every topic; since only the hub's status is subscribed to, that is the
same as accepting every message, which `LoopMessage` does. A second `SIGTERM`
belongs to `Lifecycle`; here the signal has its normal effect.

A fault is one of `Faults`; `FaultBounds` names the combinations a run looks at.
`ProgramCrashes` ends the process wherever it stands and starts it again with
empty tables, while the subscribers keep what they heard and the broker publishes
the will. (nexus433.service.in does not ask systemd to restart the program; someone
does.) Several senders may be given one id by `Substitutes`.

`Availability` is the abstract specification: an arrival that was reported is
greeted with `online`, a departure is dismissed with `offline`, every one of them
before the report is done with, and at the end of the program every transmitter
still listed gets `offline`; any word may be lost. `Gateway` implements it with
`greeted` and `dismissed` read off `pc` and `todo`: those ids of a report that the
loop at `pc` has already handled.

### Configuration and start

A line is a record: its kind, whether it is indented, its words. Words are not
taken apart; `Lower`, `Decimal` and `Hex` are what `tolower`, `strtol` and `stoul`
make of those that occur, and `Spelled` is the order of `std::map`. A value is the
sequence of the words that were joined by line ends (a key written twice, an
indented line). A number or a boolean is then read from it, or the text is no such
thing. The properties compare this with a reader's description of the file that
knows nothing of the parser's state: which lines an earlier pair swallows
(`Swallowed`), which lines speak of a key (`PartsOf`), whether only one of them says
anything (`OnlyWord`), and what the first that does says (`FirstWord`).

`held` is what `main` has taken and not given back: the socket of `ReadMAC`, the
chip, the line, the LED's trigger and brightness file, the session with the broker.
`LineIsGivenBack` speaks of the chip, the line and the session. The others stay: the
socket of config.cpp:119 is closed by none of the returns of `ReadMAC` and by nobody
else, `Led::Close` does not close, and nobody restores the trigger. `file` is
forgotten once it was read.

### Lifecycle

A handler runs on the main or the decoder thread and holds that thread up.
`m_pThread` is set only after the new thread runs; the handler's test and its
`set_value` are two steps. A second `set_value` throws and aborts.

## Runs

Bounds are constants of the configurations; each is named in its module. "States"
are distinct states.

| Run | Question | Bounds | States |
|---|---|---|---|
| `packet_fields` | are measurements read back, senders apart, validity plausible, quality the share of 12? | both ends of every field and of the valid range; counter up to 40 (the quality wraps at 31) | 20 664 |
| `pulse_reception` | can lost edges or spikes make up a frame; is a seen one stored? | 4 bits, three jitters within the tolerance of 300 us, any edges missed, spikes of 100 us at any time of a gap | 58 661 |
| `storage_report` | do counts, reports and removals agree with the air? | two senders, two readings, counter up to 3, reading age 2, timeout 3, lag 1 | 2.7 M |
| `storage_clock` | are arrivals and departures told and is silence noticed, whatever the clock does? | two senders, reading age 1, timeout 2, lag 1; the clock is set twice, back by 2 or forwards beyond the timeout | 0.6 M |
| `gateway_safety` | does what subscribers know agree with the table; is nobody forgotten and nothing made up? | one sender, two readings, any two different faults | 6.1 M |
| `gateway_two` | is `Availability` implemented for two senders that are given one id, one of them ignored; what do their topic and the count say? | one restart or one crash, no break | 5.5 M |
| `gateway_live` | does it stop, reconnect, announce, tell of silence, answer? | one sender, timeout 1, lag 1; one break, one restart | 0.27 M |
| `lifecycle_stop` | what does the file mean; starting, failing to start, stopping, signals | files of up to three of 17 lines, one command line, two signals: what an abort needs | 1.3 M |

Why the bounds are enough. Time matters through three comparisons (reading age,
timeout, lag); the cfgs put them at different values with room on both sides, and
`BoundAssumption` keeps the clipping of ages beyond the timeout. Four bits let a
frame lose bits at both ends and in the middle; the decoder looks at one edge at a
time, and the proofs hold for every length. A break of the connection, a
restart of the hub and a crash can each fall at each step of the loop, in either
order; what follows a third one starts from a state a second one reaches. Two
senders are needed for the loops over ids and for a topic that is shared; senders
do not interact otherwise. Three lines are a section, a pair, and one more that
repeats, breaks, continues, empties or follows it (that a pair without a name frees
the indented lines below it takes four lines, and is left to the proof); a section without its name's capital,
an id of 17 bits and a name that is no id are among the lines. `lifecycle_stop` and
`lifecycle_lost` have no deadlock check, since the program really ends.

Violations: statements of the documentation or of comments that the code does not
keep. Each is one run with one property, listed in PROJECT.json under `findings`
with the lines quoted.

| Run | Statement | What happens instead |
|---|---|---|
| `storage_false_silence` | offline only after silence | a frame between the clock sample and the lock has a negative age, 49 days as `uint32_t` |
| `gateway_ghost` | a silent sensor is offline | one that came and fell silent before the program was connected is announced afterwards, after its own `offline`, and stays online; this needs no fault |
| `gateway_retained` | the gateway is online while it runs | after a reconnection the retained `offline` of the will is never replaced |
| `lifecycle_lost` | Control-C stops the program | not before `m_pThread` is set |

`GoneIsOffline` fails when a transmitter is announced too late (an orphan),
`OnlineInSession` on connections that broke. On one that never failed (`steady`), and
but for orphans, the passing properties `OnlineMeansListed`, `ListedIsCreated` and
`CreatedBeforeReading` hold; `NobodyForgotten`, `OfflineAtExit` and
`PublishedWasReceived` hold always. The liveness properties hold through breaks and
except only the words that are lost: `NewComesOnline` holds unless the program
believes in a dead connection, `SilentGoesOffline` unless the very word is said while
the connection is down.

`SilentGoesOffline` follows a transmitter from its last frame to the word that
subscribers hear, through the clock, the table and the loop. A transmitter that is
heard again, or said farewell to, has what it was promised; one never announced is
told `offline` too.

### Fairness

* Storage: the main thread calls `UpdateStatus` again and again and takes what it
  gets; time passes. The clock is set a bounded number of times.
* Gateway: the main thread runs (all its waits have timeouts); time passes. A
  dead connection is found dead (keepalive of 60 s, `mqttclient.cpp:69`), the
  CONNACK and the hub's message are read when they are there, and the broker
  accepts a session sooner or later: these are strong fairness, since `mqtt.loop`
  may find nothing many times first. Nothing is assumed of the decoder thread, the
  signals, the breaks, the restarts and the crashes.
* Lifecycle: threads and handlers that can run do run; nobody has to send a signal.

## Proofs

`PacketStorageProofs` proves for all constants that satisfy the named assumptions:
`TypeCorrect`, `KeysAndPacketsAgree` (the invariants of `storage_report`) and
`StorageImplementsRegistry` (the property of `storage_clock`). `StorageInv` is
inductive: it adds to the types that a key agrees with the packet under it and
that an item still to be announced is not blank. Without the second part the step
`Sweep` would announce `ZeroSender`: it takes the id from the packet, which is only
the key while the packet is not blank. The refinement then has a step per action:
`Add` is an arrival or a stutter, `Sweep` the announcement of all the new and the
departure of all the silent at once, `Collect` a collection; the rest stutters.

`PulseReceptionProofs` proves first, of the decoder alone, that the bit count stays below `PacketBits` (so the
shift never becomes negative and the test for equality never misses) and that no
bit of an abandoned packet survives, for every packet length, pulse length,
tolerance and set of edge times. `NoStaleBits` is inductive together with the types.

`LifecycleProofs` proves `LineIsGivenBack`, `AloneAtTheEnd` and `AbortTakesTwoSignals`
for every configuration file, command line and number of signals. `LifeInv` is
inductive and has three parts. What is held at each place of `main`: a step that
fails can give back only what it knows of, so the places before it must not hold
more than that and the socket, which no step knows of. Where the decoder thread is: it starts with no error, the error flag is set
exactly when a read failed, and it is finished from the join on. What a signal
leaves: handlers are there only after the global is set, a set flag took one
signal, and a handler that runs beside a set flag took another. Without the last
part a handler that meets the flag could be the only signal.

`PacketProofs` proves the four properties of `packet_fields` for every measurement
the fields can hold and every fixed nibble, where TLC takes the ends of each field.
The invariant is that `m_Raw` is still the frame of what was measured; the rest is
the arithmetic of two nibbles in a byte and of 12 bits in two's complement.

The rest of `PulseReceptionProofs` proves the four properties of `pulse_reception`. The two
invariants need no assumption on the link. `OnlySentFrames` and
`SeenFrameIsStored` are proved for packets of any length, and any jitter, tolerance
and pulse lengths that `ToldApart` allows, the hypothesis `InTime`. It compares
the times of decoder.cpp:29-35 with the tolerance: at the default of 300 us
(config.cpp:46) they can be told apart if a measured time is off by at most 200 us;
`MCPulseReception` assumes it of the run's times, so TLC checks that the run is
such a case. A user can configure a tolerance for which it is false, and then the
decoder does mix up bits. The inductive invariant says where in the frame the
decoder is. After a pulse (`EndInv`) either nothing was missed, and the bits are
those of the frame from its first or second one on, or so much time has passed that
the next edge is too late to end a bit: only a spike, which comes early, can,
and then a bit is missing in the count. In a pulse (`StartInv`) either the pulse
will be measured too long, or the count is right, although a spike may have begun it.
When such a spike ended a gap before which nothing was missed, it came so late that
the bit is the frame's, or so early that the pulse is measured too long: most of
`ToldApart` is there for this.

`PacketStorageHistoryProofs` proves the action properties of `storage_report` and its
count. The observer's `TrailingRun` of a log is compared with the frame counter by
`IsRun`, which names the run's length and the frame before it, so that an append
needs no induction over the log. `CountsConsecutiveFrames` holds whatever the clock
does. The other three measure silence by the program's clock and are proved under
the hypothesis `MaxSteps = 0`, the clock is not set (as in the run
`storage_report`): with a clock that is set they are false, since ages jump. Then the
age of an item is the observer's time (`QuietInv`), and `AgeAsMeasured` shows that
the difference modulo `AgeModulus` is that age unless a frame overtook the sample.

`GatewayProofs` proves `GatewayTypeOK`, which holds of every reachable state besides
the types what the loop's place says about the sets of a report (`Places`: what is
still to be visited is a subset of the set the loop goes over, a set is empty after
its loop, at the farewell the decoder has ended). `GatewayInv` is that and
`StorageInv`, with the types of words and flags, and `LinkInv`:
the program that believes it is connected has a session or a broken one, the
gateway's word can be `online` only while the connection stands, and a hub that
greeted and was answered has the gateway. Its assumption that the set of senders is
finite is that a sender id has 16 bits (packet.h); it is needed for the count.

`GatewayHistoryProofs` proves all safety properties of the gateway's runs:
`NobodyForgotten`, `GatewayCreatedFirst`, `OfflineAtExit`, `ListedIsCreated`,
`OnlineMeansListed`, `CreatedBeforeReading`, `PublishedWasReceived`, `CountIsHeard`
and `ImplementsAvailability`, for any number of senders, faults, shared topics and
ignored ids. Each has a small invariant of its own about the inner loops: what the
loop is through with is announced (`AnnouncedInv`), created (`CreatedInv`), has
its word (`WordsInv`) or will be retired (`ReportInv`). `SteadyInv`
carries what a connection that never failed gives; `BurstInv` follows readings
from the frames through the table to the topic. The refinement has a step per
action: `Sweep` is the arrival and departure of many, the inner loops greet and
dismiss one, the farewell closes, a crash forgets; the rest stutters.

`StartupProofs` proves what a configuration file means, for files of any length, any
lines in any order, and any words and conversions of words; `LifecycleProofs` makes
of it that `FileOverridesOptions`, `IgnoredAsWritten` and `FirstSpellingCounts` hold
in every state. It assumes of the words that no letter and no number is in the empty
one (`WordAssumption`). The parser is a fold, so this is an induction over the lines.
The prover cannot use the library's induction theorems, which take an operator, but
that `<` is well-founded on the numbers has none: from it every set of numbers has a
least one (`LeastNumber`), and a set with 0 that is closed under the successor has
all (`SetInduction`), with sets in the place of predicates. With that there is a
function the fold computes (`FoldExists`), and `ParseReads` unfolds it into the states
of the parser after each line. The invariant over the lines has two parts. `Agrees`:
the parser's section and open pair are the reader's, whose `Swallowed` looks back over
all lines where the parser keeps one name. `Tells`: a key has a value just if one of
its lines was read, and the text starts with the first word said and is one word just
if no line of the key came later. That is all `Load`, the tables and the list of the
ignored look at. The proof needs every case of a line, and found three in which the
earlier properties said too much, none of which the lines of the run could show
then: an empty value behind a true one leaves a line end, so that the text is no
`true`; the lines swallowed by a pair with an empty value are its value; a pair
without a name ends the swallowing. The properties now say so, and two of the
cases have lines in the run.

Only model-checked is liveness, which is beyond this prover (`SilenceIsNoticed`, the
five properties of `gateway_live`, `FlagEndsProgram`, `LedGoesOut`): it needs fairness
and ENABLED. Every invariant and every safety property of the passing runs is proved.

## Not modelled

* Payload texts, topics as strings, TLS and credentials; the two discovery
  formats. The four discovery messages of a sensor are one. `GetName` is modelled,
  the text it goes into is not.
* Noise that looks like the pulses of a transmitter. `PulseReception` has spikes,
  too short to be one, in gaps and pauses; other noise can form any 36 bits, and
  `IsValid` is the only filter.
* Comments, blanks around words, and the limits of 200 characters for a line and
  50 for a name in the parser; which network interface `ReadMAC` takes.
* Signals after `main` has returned: the handlers are still installed and
  `g_pDecoder` points to a destroyed object (main.cpp:438); the models end where
  `main` returns.
* Daemon mode, the fake transmitter (a test build), build and packaging files.
* A second program with the same client id, and QoS above 0, which the code does
  not use.

Differences between documentation and code that have no run of their own:

* main.cpp:103-104 says that after a reconnection the most recent reading is sent;
  readings reported during the outage are erased (line 138), and blanked in the
  storage.
* main.cpp:63-64 says that a sensor is created before its readings come; an
  announcement into a dead connection that was not yet found out is lost, and
  `NewTransmitters` is cleared all the same (line 92).
* README.md:484-485 says that `offline` is published when a sensor is silent; it is
  sent once (main.cpp:99), and one that is lost because the connection is down is
  not repeated on the next, although the sensor is on no list any more.
* README.md:227 says that data of ignored transmitters is not sent; discovery,
  `online` and `offline` are (main.cpp:67-99), only readings are not.
* README.md:550: the number of active transmitters is looked at only when there
  are readings (main.cpp:105, 141), so it never becomes 0.
* README.md:83 calls the temperature "ones' complement"; packet.h:71 reads two's
  complement.
* README.md:127: "100% is when all 12 frames are received"; 13 frames give 108 %,
  and from 31 frames on the value exceeds its 8 bits (packet.h:136).
* README.md:178 calls the key `silent_timeout`, config.cpp:94 reads
  `silent_timeout_sec`; README.md:474 shows the gateway's topic as
  `nexus433/connection`, mqttclient.h:80 has the MAC address in it; `Led::Close`
  (led.cpp:54) closes only what is not open.
* README.md:489: the LED is on for 500 ms. It is on until the next iteration, which
  is the time `mqtt.loop` takes and 500 ms more. It stays on when the program is
  stopped meanwhile, which `LedGoesOut` excepts: `Led::Close` tests the wrong way round.
* nexus433.ini.in:1 says to uncomment options as needed. Some have a blank after the
  `;` (`; minimum_frames=2`): with the `;` gone such a line is indented and, after
  another pair of its section, becomes part of that pair's value
  (`FileOverridesOptions` counts a swallowed line to the pair above). The suggested
  `internal_led=""` names a LED called `""`, and the program ends with -12. Line 31
  of the file begins with `:` and is a pair with an empty name; it ends the value of
  the pair above.
* README.md:230: an id is ignored if its value is true. Written twice it is not, not
  even when the second value is empty, and `on`, which other booleans take, is not
  true there (`IgnoredAsWritten`).
* An error in the file is reported by nobody: config.cpp:70 tests for a negative
  number, the parser returns the positive number of the line.
* After a restart of the hub its sensors are created again, but no `online` is sent
  for them before they leave and come back (mqttclient.cpp:118).
* When several transmitters share a topic, one that falls silent makes it `offline`
  while the others go on; `OnlineMeansListed` therefore asks for all of them.
* After a crash nobody says `offline` of a sensor that was listed before and is not
  heard again.
* A spike in the last gap or in the pause after it can change the last bit of a
  frame, and when the first edges were missed too it can shift the frame by a bit
  (`OnlySentFrames` says exactly which bits are sure). Two spikes in one frame, the
  first just after edges that were missed, can make one bit of two and so a packet
  of neither.

## Plan

Done: packet, decoder, reception with spikes, storage with its abstract registry,
the gateway with broker, hub, crashes and the abstract availability, configuration,
start and lifecycle. Every safety property a passing run checks is proved.

Next, in this order:

1. The first line in error that the parser returns, once somebody looks at it.
2. Timeouts at their limits (products of 32 bits, timeouts below the reading age);
   noise that looks like pulses.
