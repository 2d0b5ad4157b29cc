# nexus-firmware: TLA+ models, checks and proofs

The repository holds two programs. The **speaker** (`src/src`) is a C++ daemon on
a Raspberry Pi: it boots, gets onto a network, finds its streamer, and plays
the audio that arrives over UDP. The **streamer** (`src/streamer/src`) reads a
source, sends timestamped packets to zones of speakers, and controls them with
signed commands. This directory models the speaker's core, the audio path from the
streamer's audio engine to the speaker's jitter buffer, the command path between
the two, the streamer's zones, pairing and files, mutual discovery, the speaker's
settings, calibration, amplifier supervision and updates, and the pure algorithms
(QR symbols, parsers, configuration files, distance measurement, wire format and
delay line).

## 1. Inventory

### Speaker

| Part | State it keeps | Operations | Runs on |
|---|---|---|---|
| `core/EventBus` | queue, handlers, running flag | publish, subscribe, dispatch, stop | its own worker: every subscriber runs there |
| `system/StateMachine`, `SystemManager`, `SafeMode` | lifecycle state, error streak, safe-mode flag | one handler per event, start, stop, `enterInitialState`, `enterSafeMode` | bus worker; main at boot and exit |
| `main/Application` | services in start order, shutdown flag | `startup`, `run`, `requestShutdown`, `shutdown`, the wiring between parts | main; signal handler |
| `amplifier` | amplifier state, mute and enable GPIOs | start, stop, mute, unmute, poll | bus worker, web threads, main |
| `audio` | stream flag; jitter buffer; clock offset | `onDatagram`, stop; push/pop; playback step | receiver thread, playback thread |
| `discovery` | search worker and its target | start/stop searching, one verified match | its worker; started and stopped from the bus |
| `network` | cached uplink, monitor thread | refresh, `connectWifi`, publish rules | monitor, web, command, bus worker |
| `pairing` | setup window; BLE and hotspot flags | `processRequest`; `applyConnectivity` | command thread; main and bus worker |
| `config`, `core/AtomicFile` | configuration in memory, file, backup | load, update, reset, atomic write | any thread |
| `control` | duplicate history, validator state | signed commands | TCP command thread |
| `calibration`, `updater`, `microphone`, `measure`, `dsp` | calibration state, update gate, filter settings | measure, apply, install | web threads, playback thread |
| `web`, `status`, `diagnostics`, `logging` | none that others read | presentation, reports | web threads |

The parts meet in four ways: events on the bus (asynchronous, in order, one
worker), direct calls between threads (the amplifier and the configuration are
called from everywhere), the file system, and systemd units started and stopped
through `systemctl`.

### Streamer

| Part | State | Hard behaviour |
|---|---|---|
| `app/CommandGateway` | a mutex per device, observers | results applied after the unlock |
| `state/SpeakerStateStore`, `MonitorService` | last known state per speaker | a poll's answer against a newer command |
| `audio/AudioEngine`, `send` | transport state, source, time line, sequence numbers, sender thread | play, pause, stop and end of source at once |
| `group/ZoneManager`, `SpeakerRegistry` | zones and their members | a zone that changes while it plays |
| `provisioning`, `pairing` | the provisioning window, known speakers, the spare radio | the window closing during a sweep, two onboardings with one radio |
| `discovery`, `net` | advertisement on the library's thread, browse and scan results | callbacks against teardown, restarts of the daemon |
| `dsp`, `config`, `web` | master DSP settings, the configuration file | read, merge, store and save as separate steps |
| `sources` | file positions, devices | formats |

### What is hard, and what makes each part correct

* **The bus makes everything late.** The amplifier, the discovery worker and the
  state machine follow events, while streams, connectivity and shutdown happen
  on other threads. Correct means: once the queue is empty they agree.
* **Boot and shutdown are concurrent** with everything else: services start
  and stop one at a time while events are in flight and signals arrive.
  Correct means: the pairing gate decides the first state, nothing is left
  running, and shutdown ends (unless a silent peer holds the command port).
* **One radio, two roles.** wlan0 is the setup hotspot or a client. Correct
  means: with an uplink the hotspot is told to stay down; without one it comes back.
* **Power is cut at any time.** Correct means: an acknowledged configuration
  survives, and one cut short is there entirely or not at all.
* **UDP loses, repeats and reorders**, and the time line moves under the sending
  thread. Correct means: timestamps never go back or too far ahead, the speaker plays
  no packet early without need, and what was buffered is played.
* **Commands are retried** and their answers overtake each other. Correct means: an
  acknowledged command was executed, a repeated one runs twice only when the speaker
  has forgotten it, and the streamer's picture of a speaker converges.
* **Several web threads change several objects**, each with its own lock, and save
  them together. Correct means: zones stay disjoint, and at rest the file has what the
  process has.
* **Library threads call back** while the main thread frees what they use.
  Correct means: nobody uses a freed object, and the advertisement comes back.
* **Settings live in three places** (configuration, DSP, profile file). Correct means:
  at rest the DSP runs what a restart would load.
* **An update can be cut short anywhere.** Correct means: the binary that ran before it is
  not lost.
* **Some calls never return**: a `recv` and an `fread` without a timeout. Correct means:
  nothing else makes anybody wait for ever.
* **Formats have separators and capacities.** Correct means: what was encoded is decoded.

`PROJECT.json` lists each hazard at its line, with the property that covers it.

## 2. Modules

| Module | Models | Used by |
|---|---|---|
| `StateMachine` | the table of legal transitions and `transitionTo` | `Speaker` |
| `AmplifierManager` | the amplifier's operations on its own variables | `Speaker` (INSTANCE) |
| `Speaker` | the process: bus, system manager, safe mode, amplifier gating, receiver, discovery worker, pairing window, boot, signals and shutdown | `MCSpeaker`, `Speaker_proofs` |
| `Speaker_proofs` | theorems about `Speaker` | |
| `Provisioning` | network monitor, Wi-Fi joins, provisioning controller, hotspot unit | `MCProvisioning`, `Network_proofs` |
| `ConfigRegister` | abstract: what the firmware may rely on in `ConfigManager`, a register changed field by field that survives power cuts | `ConfigStore` (implements it) |
| `ConfigStore` | configuration manager on a file system with power cuts | `MCConfigStore`, `ConfigStore_proofs` |
| `ConfigStore_proofs` | theorems about `ConfigStore`, the refinement among them | |
| `SenderContract` | abstract: what a speaker may rely on in a streamer's datagrams | `AudioEngine` (implements it), `Playback` (assumes it) |
| `AudioEngine` | the streamer's audio thread, its time line, the transport requests | `MCAudioEngine`, `AudioEngine_proofs` |
| `AudioEngine_proofs` | theorems about `AudioEngine`, the refinement among them | |
| `Playback` | network, jitter buffer, identify tone, the playback thread | `MCPlayback`, `Playback_proofs` |
| `Playback_proofs` | theorems about `Playback` | |
| `Commands` | the streamer's gateway, monitor, reporter and state store; the speaker's accept loop, router, history and executor | `MCCommands`, `Commands_proofs` |
| `Commands_proofs` | theorems about `Commands` | |
| `Streamer` | registry, zones, DSP settings, file, playing, pairing, onboarding, provisioning window and sweep, start and stop of the streamer | `MCStreamer`, `Streamer_proofs` |
| `Streamer_proofs` | theorems about `Streamer` | |
| `Device` | the speaker's settings and DSP, calibration, amplifier polls, updater; extends `AmplifierManager` | `MCDevice`, `Device_proofs` |
| `Device_proofs` | theorems about `Device` | |
| `Discovery` | advertisement, beacon, browses, subnet scan | `MCDiscovery`, `Network_proofs` |
| `Network_proofs` | theorems about `Discovery` and `Provisioning` | |
| `QrEncoder`, `Parsers`, `Serialization`, `Measurement`, `Signal` | pure algorithms as operators, each beside a reference definition | `Algorithms` |
| `Algorithms` | one input at a time through an algorithm and its reference | `MCAlgorithms` |

How the state corresponds:

* `Speaker.queue` is `EventBus::queue_`; `todo` is what the worker has left of
  the event it is dispatching (`dispatch` copies the handlers first, so a handler
  unsubscribed meanwhile still runs). One handler is one step. Only events that
  some subscriber acts on are queued; of `StateChanged` these are the ones into
  and out of SEARCHING_STREAMER. The join of the streamer's access point on
  CONNECTING_NETWORK is in `Provisioning`.
* `handleEvent` makes up to three transitions in one step. Between them only the
  main thread could move the machine (three times in its life: BOOTING to
  the first state, to SETUP_MODE, to SHUTTING_DOWN). Each such interleaving has
  the same effect as running the handler before or after: the detours end in
  states from which the main thread's move is refused or is SHUTTING_DOWN, after
  which the rest of the handler is refused.
* `main` is the main thread's place in `startup`, `run` and `shutdown`. Services
  without state here share a step with a neighbour. `run()` has three places:
  about to test the flag, tested but not yet waiting, waiting.
* `others` is a history variable: a tone or a calibration has touched the
  amplifier, so that the stream alone no longer explains it.
* `audio.muted` can change at any time through the web and through commands, so
  the handlers that read it choose either outcome.
* `Provisioning.queue` holds connectivity events only; `net` is the cache
  (`connected_`, `mode_`), `Uplink` the truth. Reading a status and applying it
  are separate steps, as they are in `refresh` and `connectWifi`; so are the two
  calls of the start-up probe, the two channels set by `start()` or by a handler, and
  within `setChannel` the flag and the `systemctl` command (`call`), for no lock covers
  them and main and the bus worker interleave anywhere. `raced` is history: a handler
  ran between the probe of `start()` and its last command, and no event since has
  announced an uplink. Of BLE only the flag is kept, so its command is no step.
* `job` is the pending job of `nexus-hotspot.service`, a oneshot unit that stays active
  after its script, so that starting an active unit does nothing. Jobs of one unit
  replace each other. `scripts/hotspot.sh` runs under `set -e`: a start may fail before
  the access point is up or after (`ap` with `unit` failed), and stopping a unit whose
  start failed runs no script. That systemd does so is external.
* `Speaker.peer` is a client of the command port that has connected and sends nothing:
  the command thread is in `recv` and the server's `stop` waits for it.
* `ConfigStore` names inodes: `config.json` and `config.json.tmp` are names, a
  descriptor keeps its inode through a rename, and the temporary's name is shared.
  `dirty` data can be lost in a power cut, and so can a rename until the
  directory is synced (`onDisk`). The backup is copied, not atomically, and
  never synced. What a file holds is the set of configurations that can be read
  from it, empty or a singleton. A configuration has several fields, of which a mutator
  changes one. Damage to the file and a directory sync that fails, which the code ignores
  (`AtomicFile.cpp:56-60`), count as `faults` of the medium; the promises hold until the
  first.
* `ConfigRegister` has the configuration in force and the outcomes, the configurations a
  boot might find if the power went now. The mapping takes them from memory and from what
  the two names for `config.json`, in the cache and on the disk, lead to.
* `AudioEngine` counts time in blocks (480 frames, 10 ms). What the code does under
  `source_mutex_` is one step; the `transport_state_` exchanges, the send of a block
  that is not the last and the pacing are steps of their own. `wall_start_` and
  `blocks_this_stream_` are used by the audio thread without the lock the requests
  hold, so `++blocks_this_stream_` is a load and a store, and the deadline may use
  either value. A source may know of its end with its last block (a resampled WAV
  file) or only at the next read (a WAV file at 48 kHz, a pipe). A pipe may fall silent
  for any time (`stalled`): its reader then sits in `fread` with `source_mutex_`, and
  `play()`, `resume()`, `stopStream()` and the join of `stop()` wait. The set of targets is
  left out, so a datagram in `net` stands for its copies to all speakers.
* `SenderContract` stands between the two sides: numbers without a gap, timestamps
  that never go back and are at most the lead ahead. The refinement mapping of
  `AudioEngine` counts a block that is packed and not yet sent as not numbered. The two
  sides meet only in `net`, so each is checked against the contract; their product
  has millions of states even with two packets and would say nothing more.
* `Playback` splits `PlaybackManager::step` where `AudioBuffer` unlocks: the prefill
  test, the peek, the comparison with the clock, the fill level, the pop.
  `onDatagram` takes any packet in `net`, so packets arrive in any order; one that
  stays there is lost, and `MaxCopies` of them arrive again. `streaming_` and its
  events, the other half of `onDatagram`, are in `Speaker`. `seen` and `first` are history.
* `Commands`: a thread of the streamer holds the speaker's mutex from its request to
  its answer or timeout (`CommandGateway::dispatch`); waiting for the mutex is not a
  step, since nothing happens to a waiting request except that it grows old, which
  `HandleRejected` allows at any time. `Observe` is the reply observer after the
  unlock. `backlog` is the kernel's: a request whose client gave up is still executed.
  `nextCommandId` returns an id that no thread, queue, history or answer holds. Within one
  run of the streamer, which is what the module covers, the atomic counter in the id makes
  every id new; ids are only compared, so using one again that nothing remembers is a
  renaming that keeps their number finite. Its mutant draws ids the way a clock alone
  would. A client beside the gateway
  (`Outside`, external) repeats requests, the case the history exists for: the gateway
  itself never does.
* `Streamer`: a request is a sequence of steps because each object has its own lock. A
  save takes its snapshot under the configuration's lock and happens or fails as a whole
  (`ConfigStore` has the inside). `radio` is the network the spare radio is on; a
  restart leaves it `Stranded`, and `parked` records where a request that threw, or whose
  nmcli failed, left it. `stalled` is a source whose pipe is silent. `setup` is which speakers would accept a pairing.
* `Device`: a change of the configuration is one step, its way to the DSP another:
  directly from the page, through the queue from a command. `apart` records settings
  changed by two paths at once or by one that the code does not pass on to the DSP
  (SET_EQ, factory reset, a failed calibration); `DspInStep` is about the others. Two
  calibrations share the temporary file of the profile. `target` and `backup` are the two
  binaries as programs see them, `flash` what of them is on the disk: the install syncs
  and renames, the copies of backup and rollback get there when the kernel writes them
  (`writeback`), and a power cut shows `flash`. The application sets no health check, so
  `confirm` may take any binary for healthy. `prior` is the binary that ran when the last
  update began.
* `Discovery`: `main` is the streamer's main thread in `advertise` and
  `stopAdvertising`; callbacks run on the library's thread between `startPoll` and
  `stopPoll`, which waits for the one in progress. The first callback comes from
  `avahi_client_new` itself, on the caller's thread, whatever the comment at
  `AvahiStreamerDiscovery.cpp:212-213` says. External assumptions: the daemon reports its
  states in order; a client created while there is no daemon waits for it
  (AVAHI_CLIENT_NO_FAIL); one that was connected and loses the daemon ends in
  AVAHI_CLIENT_FAILURE for good.
  A run is either a subnet scan or the mDNS part (`scanning`), which share nothing.
* `QrEncoder` follows `encode` function by function: version, bits, Reed-Solomon blocks,
  interleaving, function patterns, data placement, eight masks and their penalty.
  `ReadSymbol` is a decoder written from the standard: it unmasks, reads the zigzag,
  undoes the interleaving, checks every block's syndromes and returns the text. Function
  patterns, format bits, block structure and field arithmetic are its own; it shares with
  the encoder only the mask formulas, the order of the zigzag and the conversions between
  bits and numbers.
* `Measurement` uses integer samples: normalisation is scaled so that it stays integral,
  which moves neither the peak nor its sign. Time is in half milliseconds, the tolerance
  of `toDistance`.
* `Signal` has the bytes of a datagram (header numbers below 2^31), the shell quoting of a
  source and `processInt16` with its tone stages neutral (0 dB or switched off), where the
  code's floating-point chain is exact up to the truncation that `Requantized` models. A
  bypassed block does not pass through the delay line, so a bypass that ends is followed
  by samples from before it: the reference says so because the code does it.
* `Serialization` keeps only which fields exist, are written and are read. Its reference
  is the whole configuration; `AgreesWithReference` sets the display name aside, which
  `ConfigReadsBack` is about.

## 3. Runs

| Run | Result | Shows |
|---|---|---|
| `speaker` | pass | `SilentWithoutStream`, `PlayingIsBacked`, `SearchFollowsState`, `CleanExit`, `BootGate`, `NoBackslide`, `TypeOK` |
| `speaker_live` | pass | `TeardownCompletes`, `EarlySignalStops` |
| `provisioning` | pass | `ChannelsMatchCache`, `CacheConverges`, `ChannelsFollowUplink` |
| `config` | pass | `KeepsRegister` (the refinement), `NeverPartial`, `MemoryMatchesDisk` |
| `audio_engine` | pass | `KeepsContract` (the refinement), `TrailingBlock`, `SenderStops` |
| `playback` | pass | `EarlyOnlyWhenFull`, `LossNeverUndercounted`, `BufferDrains` |
| `commands` | pass | `AckMeansExecuted`, `RepeatsOnlyWhenForgotten`, `ConfirmedWasHeld`, `StoreConverges` |
| `streamer` | pass | `OneZone`, `SavedAtRest`, `PairingKept`, `TrailingPair`, `RadioReleased`, `StopsWhenAsked` |
| `device` | pass | `DspInStep`, `GateFollowsCalibration`, `OpenOnlyWhenHealthy`, `PreviousKept` |
| `discovery` | pass | `CallbacksOwnTheirContext`, `LookupsFindAll`, `AdvertisedAgain` |
| `algorithms` | pass | `SymbolReadsBack`, `AgreesWithReference` |
| `hotspot` | violation | `HotspotRestored`: after a failed join the hotspot stays down |

Where the code does not keep what a comment promises, the passing property excuses that
case and nothing else, and section 5 has the promise itself, refuted:
`RadioReleased` a radio that is `parked`, `DspInStep` the settings in `apart`,
`PreviousKept` says less than `AlwaysRecoverable`, `AdvertisedAgain` needs a client that
has not lost the daemon, `SymbolReadsBack` stops at version 6. `SavedAtRest` compares the
file with the process; that a patch may already be lost in the process is `NoClobber`.
`GateFollowsCalibration` says nothing of calibrations that overlap: the one that ends
first opens the gate although `docs/reliability.md:21` has updates refused while one is
in progress.

**Bounds.** `MaxQueue` limits how full the queue may be when *another thread*
publishes; handlers and the main thread always publish, so the queue still grows
to several events, and the interesting races need one event in flight
per thread. `ErrorLimit` is 3 in the code; 2 keeps a streak that counts and
resets, 1 makes one fault enough. Actors are split over two runs because
tones and calibrations only add ways to open the amplifier, which `others`
excludes from the properties of `speaker`; the second run has the amplifier
absent and concerns termination only. One join, from the page or to the streamer's access
point, with two spontaneous link changes covers a join that overlaps a poll, a loss and an
uplink that moves; two joins at once with one link change pass as well and take about five
minutes. Two power cuts
are the least that interrupt a recovery; three inodes are one more than the old
and the new file, five serve two writers; two fields show a change that takes
another field with it. In `audio_engine` two play or resume calls by
two requests are the least that move the time line under a running stream, and sources
of at most two blocks end before, at and after every such call. In `playback` the
capacity of 2 makes the buffer nearly full and full, three packets leave a gap
and a reordering, one tone packet meets them in the buffer, and one copy is enough to
arrive late. Several tones at once would only add unstamped packets. The sender
stops early enough for the clock to reach every timestamp, so that
`BufferDrains` is not decided by the end of the clock.

In `commands` a history of one entry is full after one command, so eviction, restart and
telemetry all meet a retry; two failures are the least that make a speaker offline and
lose an answer as well; the one setting is clamped, so the answer differs from the
request. In `streamer` two requests on two threads are the least that interleave, one
fault and one restart fall anywhere between their steps; two DSP fields let two patches
differ; the two sites are a first
start and an installation with a gap in its zone ids. In `device` three operations allow
two overlapping calibrations with a poll, or an update with a failure inside and a
power cut; threads and curves are interchangeable, which the symmetry set uses (no
temporal property is checked there). In `discovery` three changes of the daemon are a restart
and a reconfiguration, two workers share four hosts of which any may answer, and one
browse at a time suffices because browses share nothing. In `algorithms` the text
lengths are the shortest and longest of each QR version from 1 to 6 and one that is too long;
names of three characters put every separator first, in the middle and last; four calls
of the chain let a delay be filled, shortened and used again.

**Fairness.** `FairSpec` assumes weak fairness of the bus worker, of the main
thread and of a calibration that has begun (its capture returns): these are
threads with work to do under a preemptive scheduler. Nobody is obliged to end a
connection to the command port, so the two liveness properties of `Speaker` end in
`\/ <>[]peer`. Nobody is obliged to send
audio, press a button or deliver a second signal. `Provisioning` assumes that
the monitor, main, the bus worker, systemd and an nmcli call that was
started make progress; links and joins come as they like. Its properties are of the
form "once the uplink has settled", since no cache can follow one that changes for ever.
`AudioEngine` assumes that the audio thread runs, that a request that was begun
ends, both only while no silent pipe holds them (`SenderStops` ends in `\/ <>[]stalled`),
and that time passes; `Playback` that the playback thread runs (its write blocks
for at most a block) and that time passes. Nothing is sent or delivered by force.
`Commands` assumes that the speaker takes the next connection, that observers run, and
that the monitor's poll, which comes every few seconds for ever, gets the mutex again and
again (strong fairness: other requests hold it only for a socket timeout). Users,
telemetry and retries need not happen. `Streamer` assumes that its main thread, the
sweep and a request that was begun go on: every connection has a timeout, and a pipe,
which has none, is excepted from the fairness and in `StopsWhenAsked`. `Discovery`
assumes the same of the library's thread, of an `advertise` or `stopAdvertising` that was
begun, of a browse loop and of scan workers. `Device` states only safety.

**Deadlock** is checked in the runs of the speaker process, of the network and of the
configuration; `Exited` lets an exited process stand still. It is not checked for
`AudioEngine` and `Playback`, which rest once they are stopped and the clock has
reached its bound; there `SenderStops` and `BufferDrains` say what must not get stuck.
`Streamer` rests once it is off and its restarts are used up (`StopsWhenAsked` is its
progress property), `Device` once its bounded operations are used up or the binary no
longer starts.

**Mutants.** Every property has one in `PROJECT.json`: a variant of a definition with a
plausible bug that makes TLC refute the property. `BootGate` is refuted by a table
that lets a fault degrade the booting system; dropping the early return for
connectivity events (`SystemManager.cpp:16-20`) does not refute it, because the
table alone already refuses what those events ask for in BOOTING.

## 4. Proofs

TLAPS proves, for every `MaxQueue`, `ErrorLimit`, set of active threads and kind of board:

* `TypeCorrect`: `Spec => []TypeOK`. The invariant `TypeInv` adds to the types
  that outside safe mode the streak is strictly below the limit; without it the step that
  counts a fault could leave the range.
* `BootGateHolds`, `NoBackslideHolds`: from `TypeInv`, action by action. Only
  three actions move the machine; for `handleEvent` the argument goes over the
  events, using that no edge of the table leads from a state past
  discovery to SEARCHING_STREAMER except from AUTHENTICATING, and that the
  handler does not ask for that one.
* `SilentWithoutStreamHolds`: `Spec => []SilentWithoutStream`. The property is not
  inductive: when `AudioStarted` is handled the line opens, and the stream may
  be over by then. `AudioInv` adds `GateInv`: behind every `AudioStarted` that the
  amplifier gate has not handled yet comes either the running stream or a later
  `AudioStopped` for the same gate; `ReceiverInv`: a stream needs a receiver; and
  that a calibration is recorded in `others`. Order in the queue matters in this
  argument, so the lemmas say what appending to a sequence and taking its tail
  do to "the last audio event".
* `CleanExitHolds`: `LifeInv` says which phases of boot and shutdown have the handlers
  unsubscribed, that the machine is inert there, and that the bus has been drained when
  the process is at "stopped"; so no handler can start anything after the teardown did
  its part.
* `PlayingIsBackedHolds`: `PlayInv` says that an `AudioStarted` the system manager is
  about to handle, and PLAYING itself, has a running stream behind it or an
  `AudioStopped` still to come.
* `SearchFollowsStateHolds`: the property speaks of an idle bus, the proof of a busy one.
  `WillStop` and `WillSearch` say that the last event in the queue or in hand which
  concerns the search decides whether the worker runs once the bus is idle; `HandInv`
  says that the handlers still to be called are all called with one event.

`SpeakerInv` is the conjunction of these parts. The assumption used is `SpeakerConstants`.

For `Playback`, and every prefill, capacity, lead, target and network:

* `PlaybackTypeCorrect`: `Spec => []TypeOK`; the buffer never exceeds its capacity. The
  lemma `PushKeeps` serves both writers.
* `EarlyOnlyWhenFullHolds`: `Spec => EarlyOnlyWhenFull`, a property of one step that
  needs to know what happened three steps before. The invariant `Looked` says what the
  thread may rely on between its calls: the timestamp it peeked is still that of the head,
  or the buffer is full; and when it is about to pop, that timestamp is due or the buffer
  is nearly full. It survives a push because a push
  either keeps the head or finds the buffer full and leaves it so (`PushKeepsLooked`),
  and the clock because a packet once due stays due (`DueStays`).
* `LossNeverUndercountedHolds`: `LossInv` says that before the tone the numbers in
  `first..last` that were not seen are at most as many as `lost`. A packet ahead of the
  last one adds the gap to both sides (`JumpMisses`), a late one can only take a number
  out of the gaps (`LateFills`). Cardinalities come from `FiniteSetTheorems`.

The assumptions used are `PlaybackConstants` and `SenderConstants`.

For `Device`, and any number of web threads, settings, curves, operations and failures:

* `OpenOnlyWhenHealthyHolds`: `HealthInv` adds that the amplifier's state is unhealthy
  whenever the last poll saw a reason, and that an unhealthy amplifier is muted unless a
  write failed. The first is needed because `unmute()` looks at the state and not at
  what was seen; the delicate step is a poll that reads a flag and a temperature at once
  (`PollKeepsHealth`).
* `PreviousKeptHolds`: `UpdateInv` says, for each place in `runUpdate`, which file holds the
  binary from before the update: the target until the install, the backup from the end of
  its copy to the next update. It says nothing of whether that binary starts, which no
  part of the code finds out.
* `GateFollowsCalibrationHolds`: `GateInv` looks through the queue: what the gate will be
  once the bus has delivered everything (`EndsOpen`, `EndsShut`) is what the number of
  calibrations in progress asks for.
* `DspInStepHolds`: `NumberInv` says for delay and gain that the value of the
  configuration is in the DSP, in a thread's hand or the last one in the queue
  (`Arrives`), unless `apart` records the setting. What `apart` sets aside is changed by
  both paths at once, or by SET_EQ, a factory reset or a failed calibration, which the code
  does not pass on; `EqInv` says the same of the equaliser
  and of the profile's file at each step of a calibration.
* `DeviceTypeCorrect`: the types, from the parts above.

The assumption used is `DeviceAssumption`; it contains that no measured curve is one of
the two values that stand for a missing and a torn file.

In `Network_proofs`, for `Discovery`, and any number of neighbours, daemon changes and failing calls:

* `CallbacksOwnTheirContextHolds`: `ContextInv` lists which objects exist at each stage of
  `advertise` and `stopAdvertising` (the group may exist before the thread, from the first
  callback), that the library's thread runs only between them, and
  that a callback in progress implies the thread, its context and its client.
* `LookupsFindAllHolds`: `BrowseInv` splits the services a browser was told of into
  pending, returned and unresolvable ones, and says that a loop that ended by itself
  has none pending. `ScanInv` says of every host below the shared counter that it was
  found once, is no speaker, or is being probed by exactly one worker, and that a worker
  which is done saw the counter pass the last host.

The assumption used is `DiscoveryAssumption` (no other device has the streamer's name;
`scanSubnet` starts at least one worker).

For `Provisioning`, any set of joiners and any number of joins, link changes and queued
events:

* `ChannelsMatchCacheHolds`: once everything is delivered, BLE, the hotspot's flag and its
  unit, as last asked for, are what the cached connectivity asks for, unless `raced`. The property speaks of a
  quiet system; `SetupInv` says what is on its way in a busy one: the last event on the
  bus is the cache (`Told`), so an empty bus means that what start() read is still true
  (`StartInv`) and that the worker holds the latest event or has applied it
  (`HandlerInv`); start() and the worker take turns unless `raced` (`TakeTurns`); and the
  unit follows the flag by way of the command in a thread's hand and the queued job
  (`UnitInv`). The last is why `enforce` matters: an uplink puts the unit right whatever
  the flag was, and so ends `raced`. The exception is real (without it TLC
  refutes the property): the older probe of start() can overwrite what a handler set, or
  its command can come after the worker's, and a loss announced later finds the flag
  already set.

No assumption on the constants is used.

For `ConfigStore`, and any number of writers, fields, values, inodes and power cuts:

* `ConfigTypeCorrect`, `NeverPartialHolds`, `DurableHolds`, `MemoryMatchesDiskHolds`, each
  of the form `Spec /\ []Exclusive => []P`. `Exclusive` says that one caller at a time is
  in `update()`. The code does not enforce it (`ConfigManager.cpp:136`), and without it
  the properties are false (section 5): the theorems say what `update()` gives to callers
  that take turns. `OneWriterExclusive` proves the condition for a single writer.
  `StoreInv` has three parts: `FilesInv` (the names on the disk lead to whole, synced
  files that hold the promised or the attempted configuration), `ThreadInv` (how far the
  thread in `persist()` has got with its candidate) and `PhaseInv` (whose change it is,
  and what memory holds meanwhile). It holds as long as the medium does its work (`faults = 0`), the
  condition of the properties themselves.
* `KeepsRegisterHolds`: `Spec /\ []Exclusive => KeepsRegister`, the refinement of
  `ConfigRegister`. The rename offers the change, the directory sync settles it, the
  publication acknowledges it (or ends the boot), a power cut picks an outcome, and
  everything else that a thread or the kernel does is invisible. Beside `StoreInv` it needs
  `ChangeInv`: what a writer is about to store is one change of what is in force, which is
  where the copy taken before the lock is given up would show. `Durable` says the part about
  acknowledged changes with history variables and is proved only.

The assumptions used are `ConfigConstants` and `EnoughInodes`.

For `AudioEngine`, and any set of requests, stream lengths and ring:

* `EngineTypeCorrect`: `Spec => []TypeOK`.
* `TrailingBlockHolds`: `SpentInv` says that a thread which has taken a block, or is about to,
  saw Playing and has sent nothing since.
* `KeepsContractHolds`: `Spec => KeepsContract`, the refinement of `SenderContract`. The
  delicate part is that stamps neither go back nor run further ahead of the clock than
  the lead, although `play()` and `resume()` move the time line under the thread.
  `StampInv` says that the packet that was packed is the contract's next one (`HeldInv`),
  that the time line is ahead of the pacing anchor by no more blocks than are counted or
  about to be (`AheadOfWall`), and ahead of the clock by no more than the lead whenever a
  block may be read (`AheadOfClock`).

The assumption used is `EngineConstants`.

For `Commands`, and any number of streamer threads, speakers' settings, commands and
failures, and every history length:

* `CommandsTypeCorrect`: `Spec => []TypeOK`.
* `ConfirmedWasHeldHolds`: `HonestInv` follows a value from the speaker's configuration
  through an answer and an observer into the store: each holds only what was held.
* `AckMeansExecutedHolds`, `RepeatsOnlyWhenForgottenHolds`: `IdInv` says that no two
  threads share an id and that a request in the backlog under a thread's id is that
  thread's. `RunInv` says for each thread that an accepted answer had an execution
  (`AckOK`), that a gateway thread keeps its id only while it waits and its command has
  not run (`GateOK`), and that the history still has the id of an executed command, no
  deeper than the records that came after it (`BookOK`).

The assumptions used are `CommandsAssumption` and `ThreadNames`.

For `Streamer`, and any number of web threads, speakers, zones, faults and restarts,
from any well-formed files at the first start:

* `StreamerTypeCorrect`, `OneZoneHolds`, `SavedAtRestHolds`, `PairingKeptHolds`,
  `TrailingPairHolds`, `RadioReleasedHolds`, all from one invariant `StreamerInv`:
  `ThreadInv` (what a request holds at each step), `ZoneInv` (`OneZone`, and every zone's
  id is below the next one, which is what makes a new id new), `AckInv` (a saved pairing
  is also in the registry while the process is up, so that no later save loses it),
  `LateInv` (no handshake is late while the window is open), and the properties
  themselves. `RadioReleased` excuses the network where a request that threw or whose nmcli
  failed left the radio (`parked`), until the next join or release moves it.
* `createZone` and `replaceAll` compute the next id from the largest. That a finite list
  of zones has one is an argument by a least counterexample, from the well-foundedness of
  the natural numbers (`LeastNat`).

The assumption used is `StreamerAssumption`: the speakers are none of the two values that
stand for no network and an abandoned one, and the initial files are well formed.

Only model-checked: all liveness (fairness and ENABLED are outside the prover), and `SymbolReadsBack` and
`AgreesWithReference` about the algorithms, which are recursive (induction over data is
outside it too). Every other property a run checks is also a theorem.

## 5. Findings and known disagreements

The run `hotspot` ends in a violation: a failed Wi-Fi join during onboarding leaves the
speaker without its hotspot, although `NetworkManager.cpp:176-177` says it comes back.

Further promises of comments that the code does not keep were met in the same way. Each is
stated in its module, and TLC refutes it with the constants of the cfg given, changed as
noted (put the property in place of the cfg's own):

| Property | Refuted with | What happens |
|---|---|---|
| `Speaker!SafeModeKeepsAmpMuted` | `MCSpeaker.cfg` | Safe mode entered on a recovered configuration mutes before the receiver starts; a later stream opens the amplifier (`SafeMode.h:12`). |
| `Speaker!ShutdownCompletes` | `MCSpeakerLive.cfg` | A signal between `run()`'s test and its wait is lost (`Application.h:59`, `Application.cpp:713`). |
| `Provisioning!AccessPointForcedDown` | `MCProvisioning.cfg` | `hotspot.sh` fails once the access point is up (149-152); `systemctl stop` runs no script for a unit whose start failed, so the stop that `ProvisioningController.cpp:77-79` forces at every poll leaves the access point up. |
| `ConfigStore!NeverPartial` | `MCConfigStore.cfg` with two writers, five inodes | Two threads share the temporary file: one renames what the other has truncated, and a power cut leaves it empty (`ConfigManager.h:18`). |
| `ConfigStore!BackupBeforeDefaults` | `MCConfigStore.cfg` | A recovery cut short ends in the defaults at the next boot, with a good backup on the disk (`ConfigManager.h:23`). |
| `AudioEngine!PlayTakesEffect` | `MCAudioEngine.cfg` | A `play()` that comes as the previous source ends is undone by the audio thread (`AudioEngine.h:77`). |
| `Streamer!NoClobber` | `MCStreamer.cfg` | A DSP patch is read, merged and stored in three steps (`StreamerApp.cpp:404-406`): of two patches of different fields at once, one that was answered as applied is undone (`StreamerApiRouter.cpp:315-316`). |
| `Streamer!ReleasedOnEveryPath` | `MCStreamer.cfg` | An exception after the join skips the release of the radio (`StreamerApp.cpp:331-336`), and a failing nmcli is ignored (`ApJoiner.cpp:88-91`), against `StreamerApp.cpp:313-315`. |
| `Device!AlwaysRecoverable` | `MCDevice.cfg` | The backup is never synced (`RollbackManager.cpp:14`) while the install is: after a power cut a broken binary may stand beside no backup. And with no health check set (`Application.cpp:254-255`, `UpdateManager.cpp:76`) a second update copies the broken binary over the good backup (`RollbackManager.h:9`). |
| `Device!DspKeptInStep` | `MCDevice.cfg` | A command between the page's write of the configuration and its write of the DSP leaves the two with different delays; SET_EQ never reaches the DSP (`Application.cpp:328-330`). A factory reset does not either; it sends no command and is left out of the property. |
| `Discovery!RepublishedAfterRestart` | `MCDiscovery.cfg` | A client that loses avahi-daemon ends in AVAHI_CLIENT_FAILURE, which is only logged (`AvahiStreamerDiscovery.cpp:99-102`): the service is never published again, against 37-38. |
| `Algorithms!ConfigReadsBack` | `MCAlgorithms.cfg` | The display name set from the page (`Application.cpp:569`) is neither written nor read (`ConfigSerialization.h:12-25`): it is lost at a restart (`SpeakerConfig.h:14`, `ConfigManager.h:42`). |
| `Algorithms!FilePlayedToTarget` | `MCAlgorithms.cfg` | `--play F --stream IP` streams standard input and never opens the file, since the branch at `StreamerMain.cpp:229` comes first; the message at 250 names `--stream` as the target of `--play`. |
| `Algorithms!EveryVersionReadsBack` | `MCAlgorithms.cfg` with length 107 | Symbols of versions 7 to 10 (texts of 107 to 213 bytes) carry no version information and put data in its place; the block counts of versions 8 to 10 differ from the standard's as well (`QrEncoder.cpp:81-83`), against `QrEncoder.h:9,17` and `QrEncoder.cpp:71`. The setup payload is usually shorter. |

Not stated as properties:

* The speaker's beacon is pumped once and is not published again after a restart of the
  daemon (`AvahiDiscoveryHal.cpp:128`), the pattern `AvahiStreamerDiscovery.h:19-21`
  describes as the defect of the streamer's earlier version. After a failed `advertise`, a second
  `DiscoveryService::start` reports success without trying (`DiscoveryService.h:44`).
* `/api/bulk` counts a refusal that arrives as HTTP 200 as a success
  (`StreamerApiRouter.cpp:476`).

## 6. Plan

Built: the speaker process, provisioning and configuration, the audio path, the command
path, the streamer, the device side, discovery and the algorithms. Left, in this order:

1. `ProvisioningController::stop`, the BLE helper's state and recovery of the hotspot
   after a stale probe.
2. A lock in `ConfigStore` as the code could have it, with `Exclusive` then proved for any
   number of writers.

## 7. Not modelled

* Signal processing (filters, room correction, resampling, meters): floating point.
* Pages (`Frontend.h`, `StreamerFrontend.h`), captive-portal answers, JSON for display,
  logging: presentation.
* Cryptography and identities: whether a signature is valid decides between accepted and
  rejected, both of which are modelled.
* `SecureStorage`: the write pattern of `ConfigStore`, one file per secret.
* `BluetoothManager`: no part of the program constructs it.
* ALSA, nmcli, systemd, avahi-daemon and the kernel themselves: external.
* Signals that interrupt a lock holder (`Application.cpp:714`), WAV files with a short fmt
  chunk.
