# A verification model of tci-bridge

tci-bridge sits between amateur-radio programs that speak the TCI protocol over
WebSockets and a radio that is reached through Hamlib's `rigctld` and a sound
card. This directory holds TLA+ specifications of it, the TLC configurations
that model-check them, and proofs checked by TLAPS. Paths below are relative to
the repository's root; the program itself is in its `src/` directory.

What can go wrong in such a program, and what a test hardly reaches, is that a
transmitter stays keyed. Most of what follows is about that; the rest is about
what the clients are told of the radio, and about audio.

## The system

| Component | State | Operations | Talks to |
|---|---|---|---|
| Transmit control (`TciServer`) | clients, `tx_owner_`, `tx_audio_owner_`, watchdog, `pending_unkey_on_radio_online_` | connect, disconnect, `trx`, `tx_audio_start/stop`, TX frames, watchdog, radio signals, `forceUnkey` | clients, radio backend, TX audio |
| Other commands (`TciServer`) | RX stream parameters, warned commands | `vfo`, `dds`, `modulation`, `split_enable`, `audio_*` | clients, radio backend |
| RX distribution (`TciServer`) | `audio_clients_`, accumulator | `sendRxAudio` | audio backend, clients |
| Radio backend (`RigctldBackend`, `NullRadioBackend`) | believed frequency, mode, split, PTT; `connected_`, `radio_usable_`, `polling_suspended_` | setters, `update*` slots, `online` | server, worker thread |
| Worker (`RigctldWorker`) | its own copies of the same, socket, failure counter, capability flags | `start`, `stop`, `poll`, set commands | rigctld, backend |
| Audio backend (`QtAudioBackend`) | sink, source, TX jitter buffer, priming, cached automatic choice | start/stop, begin/end, write, drain | sound devices, server |
| Audio paths (`main`) | running flags, retry timer | start, restart, retry | audio backend, server |
| Shutdown (`main`, `SignalHandler`) | - | SIGINT, SIGTERM, `aboutToQuit`, destructors | server, backend |
| Test client (`tools/tci-client-qt`) | socket, frame count, tone timer | configure, subscribe, key a tone, count frames, leave | server |
| Algorithms | none | device ranking, PCM conversion, stream frames, command parsing, configuration | - |

Two threads run. The main thread runs one Qt slot at a time: client messages,
timers, sound devices, and the queued signals of the worker. The worker thread
runs one slot at a time: a queued request, or a poll. Between the two are two
queues, each in order, neither bounded. The main thread never waits for the
radio: it changes its believed state at once and posts a request. There is
nothing persistent. The hard behaviours are therefore: reports that are older
than the last command; commands that fail after they were believed; a radio
that disappears during a transmission and comes back; clients that compete,
disappear, or fall silent while keyed; the end of the program in any of these.

What makes the components correct:

- Transmit control: a keyed transmission is always supervised; it ends when its
  client falls silent or leaves; nobody takes a transmission over; disabled
  transmit never keys; an unkeying that had to be postponed is kept and carried
  out; polling is suspended exactly while TX audio is owned.
- Backend and worker: what is believed of the link agrees with what the worker
  found; a lost radio is noticed and a returned one too; commands arrive in
  order; the believed PTT catches up with the radio's; whatever is set, polled,
  turned by hand or answered late, clients end up knowing what the worker holds,
  and the worker what the radio does.
- Shutdown: the radio is left unkeyed.
- TX audio: buffered audio is never sent in another transmission than its own;
  playback neither stalls nor pauses with audio left.
- Audio paths: a path that is down is retried; no path stays on a device that
  has gone; a stream does not move to another device.
- RX audio: subscribers get frames whatever the others do to the shared format.
- Test client: its tone ends with its session, or with a lost connection at the
  latest when the watchdog fires.
- Algorithms: the automatic device choice never guesses between two candidates;
  no conversion of a sample wraps around.

## Modules

| Module | Models | Extends or instances |
|---|---|---|
| `RadioBackend` | main-thread half of both backends: belief and request queue | - |
| `TciServer` | transmit control | extends `RadioBackend` |
| `TxDuration` | `TciServer` with two stop watches that only observe | extends `TciServer` |
| `RigctldWorker` | worker thread, connection, rigctld and the radio's PTT | extends `RadioBackend` |
| `RigctldBackend` | the whole rigctld backend under an arbitrary caller | extends `RigctldWorker` |
| `Bridge` | server + backend + worker + shutdown | extends `TciServer`, `RigctldWorker` |
| `TxAudio` | TX stream, jitter buffer, sink | - |
| `AudioPaths` | device lists and choice, starting, restarting and retrying both audio paths | extends `TxAudio` |
| `Transmission` | abstract: what the transmit control promises about one transmitter | - ; instanced by `TciServer` |
| `CatLink` | frequency, mode, PTT, TX frequency and split: both copies, both queues, and the untagged line protocol with rigctld | - |
| `Session` | a session of the test client beside other clients; RX distribution | extends `TciServer` |
| `DeviceChoice` | the automatic choice of the audio device pair | - |
| `PcmConvert` | the sample conversions | - |
| `TransmitMC`, `BridgeMC`, `SessionMC` | constants for TLC | extend `TxDuration`, `Bridge`, `Session` |
| `AudioPathsMC` | two sound cards for TLC, and the resolver of `DeviceChoice` | extends `AudioPaths`, instances `DeviceChoice` |
| `TciServerProofs` | types, safety, refinement and action properties of `TciServer` | extends `TciServer` |
| `TxDurationProofs` | `SilenceLimit` | extends `TxDuration`, `TciServerProofs` |
| `RigctldWorkerProofs` | the worker's types and what its signals say, for any main thread | extends `RigctldWorker` |
| `RigctldBackendProofs` | types, `NeverOptimistic`, `LinkReported` | extends `RigctldBackend`, `RigctldWorkerProofs` |
| `BridgeProofs` | everything about `Bridge` that is no liveness | extends `Bridge`, `TciServerProofs`, `RigctldWorkerProofs` |
| `SessionProofs` | types, `ToneEnds` | extends `Session`, `TciServerProofs` |
| `CatLinkProofs` | `BeliefFollows`, `PttNotInvented` | extends `CatLink` |
| `AudioProofs` | `AudioPaths`, and the algorithms of `DeviceChoice` and `PcmConvert` | extends these three |

The proof modules extend `TLAPS` besides, and some the library's theorems about
sequences.

Names follow the code: `ptt`, `connected`, `usable`, `suspended` are the
backend's `ptt_`, `connected_`, `radio_usable_`, `polling_suspended_`; the
worker's copies of the same have a `w` before them. `rigPtt` is the radio.
`asked` (the argument of the last `setPtt`), `told` (the last `trx` line sent to
each client), `writeFailed`, `onAir` and `silence` are history: no action reads
them.

**Granularity.** A slot of the main thread, with every call it makes, is one
action. Because a slot makes at most one change of the polling suspension and
then at most one PTT call, `CallSuspend` and `CallRadio` describe its effect on
the backend, and a handler is the conjunction of what it does to the server and
one of these. In the worker every exchange with rigctld is an action, since it
blocks for up to a second in which the main thread and the radio move on.

**rigctld.** An exchange ends `done`, `refused` (error or unreadable answer, not
executed), `silent` (no answer in time, executed or not), `broken` (the write
failed) or `unreachable` (no connection). Losing the connection between two
exchanges is `RigctldDown`. An answer that arrives after its timeout is the
subject of `CatLink`, where the connection itself does not fail.

**Late answers.** In `CatLink` rigctld executes commands in order and answers
each with one or two lines. The worker discards some of what is already there
when it sends a command (Qt has taken some of it off the socket, from nothing to
everything), and then waits until the lines it reads look like the end of an
answer (`Terminated`). What the poll functions make of the wrong lines is
`Readable` and `Value`: a frequency query wants one positive number, a PTT query
one number, and a mode query takes anything, an error line included. Two late
answers are enough for a frequency to be read as "transmitting", and a late
`RPRT 0` confirms the command after its own. An answer whose connection was
given up is never read (`mute`). Polling is suspended and resumed at any time
between two polls (`SetPollingSuspended`): which client streams TX audio when is
the subject of `TciServer`.

**The test client.** `Session` composes the server with the client program of
the repository, with messages in flight both ways. The server's RX accumulator
is a number of samples. `sendRxAudio` resets the number of channels to the
card's, so that a client asking for two channels changes nothing, but the frame
size any client asks for holds for all. Since `Session` counts whole samples, the
sample type is int16 throughout, as in the code. The loop that cuts frames goes
round as often as there is a full one (`Rounds`), and each subscriber gets a frame
a round (`Sent`).

The connection may be lost at any time, and each end learns of it by itself, in
any order or never: the test client then ends the program (`Quit`), with or
without a goodbye, and the server drops the client with whatever it has not read
(`ConnectionLost`). What is said over a lost connection goes nowhere. `lost` and
`keyedByTone` are history. The restart of the audio paths
(`ForceUnkey`) and the radio's reports are left out here, and so are the client's
frequency and mode commands.

**Radio reports.** In `TciServer` alone the worker is any source of signals:
any PTT report and any link report at any time, except that the radio is
reported usable only while the backend has a connection, which
`UsableAfterConnected` establishes for the real worker in `Bridge`.

**Audio.** Audio is counted in blocks of whole sample frames: `monoInt16ToFormat`
and the overflow limit produce nothing else. A block carries the number of its
stream, which the program does not have and only the properties read. The sink
takes any part of what it has room for, plays it, may be suspended and may stop
with an error at any time. The server appears as the signals it sends:
`txAudioStarted` also while a stream is under way (its owner may repeat
`tx_audio_start`), frames only of the stream under way (`TciServer.cpp:151-170`).
A stream under way is a transmission for `transmitActive`, so a restart of the
paths ends it. 
The frames of a sink whose format `PcmConvert` does not know (more than two
channels, or no sample format) are dropped one and all, although the sink is
open and its flag is set (`Convertible`; `QtAudioBackend.cpp:153-161` and
`284-288`). In mode auto a pair of devices is chosen by `Resolve`, a constant:
some pair of the lists, or none. As long as there is none, nothing is cached and
both paths stay down. The proofs hold for any such resolver; the run takes that
of `DeviceChoice`.

Device lists change at any time and post one signal each; the
main thread reads the lists when it handles one, which may be later or earlier
than the change it stands for.

**Configuration.** `config` is chosen once from a set, so that one run covers
every combination of backend, `enable_transmit`, `tx_audio_keys_ptt` and
`unkey_on_disconnect`. `max_tx_ms` is at least one second (`AppConfig.cpp:218`,
`TciServer.cpp:302`), hence `MaxTx` is positive.

**Time.** The watchdog is the only clock that matters for transmitting; `Tick`
counts it down, and anything else may happen between two Ticks. `OnTxWatchdogExpired`
is the last Tick. Poll and retry intervals are not measured.

**Shutdown.** SIGINT or SIGTERM unkeys in its own slot and calls `quit()`; until
the event loop returns other slots may run (`Looping`). Then come two unkeys by
`aboutToQuit` (it is connected twice, `main.cpp:494` and `565`), one by the
server's destructor, and the backend's destructor, which posts `stop()` behind
every earlier request and waits for it.

## Runs

| Run | Module, cfg | Checks | Expect |
|---|---|---|---|
| transmit_control | `TransmitMC`, `TransmitControl` | safety and action properties of `TciServer`, `SilenceLimit`, `SilenceEndsTx`, `Implements` | pass |
| transmit_duration | `TransmitMC`, `TransmitDuration` | `DurationLimit` | violation |
| transmit_denial | `TransmitMC`, `TransmitDenial` | `DenialTellsActual` | violation |
| rigctld_backend | `RigctldBackend` | `NeverOptimistic`, `LinkReported`, `LossNoticed`, `RadioReturns` | pass |
| bridge_nominal | `BridgeMC`, `BridgeNominal` | `RigFollows`, `OnlineShutdownUnkeys`, `UnkeyReachesRig`, `BeliefCatchesUp` | pass |
| bridge_down | `BridgeMC`, `BridgeDown` | `UsableAfterConnected`, `PendingCarriedOut` | pass |
| bridge_lost_unkey | `BridgeMC`, `BridgeLostUnkey` | `UnkeyReachesRig` with one refused command | violation |
| bridge_stuck_offline | `BridgeMC`, `BridgeStuckOffline` | `PendingCarriedOut` with one failed write | violation |
| bridge_shutdown | `BridgeMC`, `BridgeShutdown` | `ShutdownUnkeys` | violation |
| cat_link | `CatLink` | `BeliefFollows`, `PttNotInvented`, `WorkerResyncs` | pass |
| client_session | `SessionMC`, `ClientSession` | `ToneEnds`, `SessionEnds`, `LostToneEnds` | pass |
| audio_paths | `AudioPathsMC`, `AudioPaths` | `OwnAudioOnly`, `DownPathsRetried`, `SettledOnPresent`, `RefillsWhenDry`, `StreamStaysPut`, `FedStreamPlays`, `AudioReturns` | pass |

What they show:

- *transmit_control.* Whatever three clients, the radio and the sound devices
  do, a transmission is supervised, owned as it should be, announced truthfully
  but for the two exceptions `ToldTruth` names, and over, or due to be ended,
  less than `MaxTx` after the last key-on or TX frame. The control implements
  `Transmission`, which has a holder, a watch and an owed end and knows nothing
  of clients, queues or radios.
- *transmit_duration.* It is not limited as documented: the limit is one of
  silence. A client that goes on sending frames transmits without end.
- *transmit_denial.* A denied key-on tells every client `trx:0,false`, also when
  the radio is transmitting because it was keyed by hand.
- *rigctld_backend.* The main thread never believes a radio online that the
  worker has given up, whatever fails. As long as no write fails the belief is
  exact, a loss is noticed and a return too. The exception is real:
- *bridge_stuck_offline.* A failed write makes the worker report the connection
  lost but keep `radio_usable_`; the backend drops its own. After the
  reconnection the worker has nothing new to report and the bridge is offline
  for good. A postponed unkeying is never carried out.
- *bridge_nominal, bridge_lost_unkey.* When rigctld answers, the radio follows
  the last command and the belief follows the radio. One refused `T 0` is
  enough to leave the radio keyed with nobody trying again.
- *bridge_shutdown.* `OnlineShutdownUnkeys` holds; while the radio is believed
  offline, which it is until its first complete poll, the unkey is scheduled
  and never comes.

- *cat_link.* With everything delivered, the clients know what the worker holds,
  but for a field whose last set failed: nobody reports that, and the optimistic
  value stays until the radio changes. With at most one answer late PTT is never
  reported on without cause; with two it can be. When answers come in time again
  and polling is not suspended any more, frequency, mode and PTT of worker and
  radio agree for good: discarding old answers and giving the connection up after
  three failures are enough. A TX audio stream suspends polling, and for as long
  as one lasts nothing is corrected; the code sets it no limit.
- *client_session.* Unless its connection is lost, the test client gets its
  frames and quits, with another client changing frame size and subscriptions or
  taking the transmitter. Once it has gone with a goodbye the bridge does not
  keep the radio keyed for its tone, also with `unkey_on_disconnect` off. A
  connection lost in mid-tone is different: with `unkey_on_disconnect` on, the
  radio is unkeyed or the unkey postponed; with it off, the radio stays keyed
  for the tone, supervised (`ToneEnds`), until the watchdog fires or another
  client ends or takes over the transmission (`LostToneEnds`). The session needs
  a positive `--rx-frames` and RX audio: without, the tone goes on for as long as
  the program runs, although its help says "a short TX audio tone".
- *audio_paths.* In every selection mode, with devices of either kind coming,
  going and failing: a path without a device is being retried and comes back
  when a usable device stays; a stream ends before its audio could go elsewhere;
  a stream that is fed is heard, if the sink's format is one `PcmConvert` knows;
  else the transmission is silent. Usable means, in mode auto, the devices chosen
  at first, and before a choice that the resolver makes one: it refuses when no
  pair has 100 points or two are within 30, and the paths are then down, retries
  or not, with every device in order. After a choice no other pair is ever
  tried. A sink that stops with an
  error and no change of the lists is not restarted; `FedStreamPlays` exempts it.

### Bounds

| Bound | Value | Why it is enough |
|---|---|---|
| `Clients` | 3; 1 in `Bridge` | owner, competitor and bystander; competition is settled in `TciServer`, and `Bridge` is about the two threads |
| `MaxTx` | 2; 1 in `Bridge` | a Tick that only passes and one that fires; in `Bridge` the firing one |
| `MaxBacklog` | 0 or 1 | a slot starts with at most so many waiting requests and adds up to two: queues of two or three, enough for on/off to wait behind each other |
| `MaxSignals` | 1 | a worker slot starts with at most so many waiting signals and adds up to three |
| `MaxFailures` | 3 | the code's value |
| `MaxFaults` | 3; 1 in the `Bridge` runs | three failures in a row are a give-up; 'unreachable' exchanges are not counted as faults and occur without bound |
| `MaxHand` | 2 | keyed and unkeyed by hand |
| `Devices` | 2 | the radio's card, which is the wanted one, and another whose format is unknown to `PcmConvert`. Each alone is chosen; of both neither leads by enough, and crosswise they are below the threshold, so the resolver decides and refuses for either reason (`BothRefusals`) |
| `Prebuffer`, `Jitter`, `SinkSize`, `MaxFrame` | 2, 3, 2, 2 | priming takes one frame or several, a frame can overflow the buffer, and the sink can be full with audio left |
| `MaxStreams` | 2 | an old and a new stream |
| `MaxNotices` | 2 | the lists change again before the first signal is handled |
| `Settable` | `m`, `t`, `s` | a polled field with names that differ on both sides, PTT, and a field that is read once and set without confirmation |
| `MaxLate` | 2 | one late answer shifts the answers by one, a second one shifts them again; two are the case `PttNotInvented` excludes |
| `MaxSets`, `MaxRefused`, `MaxHands` | 1 | each crosses the late answers and the others once |
| `MaxSignals` in `CatLink` | 0 | a command starts when the last signals are delivered; two fields can be reported within one poll all the same |
| `FrameLimit`, `MaxCapture` | 2, 2 | the limit is reached by the second frame; a capture is smaller or larger than a frame |
| `Preferred`, `Sizes` | 2; 1, 3 | the other clients ask for shorter and for longer frames |
| `MaxUp`, `MaxDown` | 2, 0 | a tone frame can wait behind another; audio is captured when the last frames are read |
| `MaxOnAir` | `MaxTx` + 1 | the first value that breaks the limit |

Every queue bound stands in the guard of the step that would exceed it, so it
delays an actor and loses nothing. `bridge_down` was also run with two
losses of rigctld (`MaxFaults` = 2), with the same result in three minutes.

`CHECK_DEADLOCK FALSE` is set but for `audio_paths`, `cat_link` and
`client_session`: the program may end, and a
bridge that nobody uses has nothing to do.

### Fairness

- `TciServer`: the timer that is running fires, and the worker takes its
  requests (both are Qt event loops). Clients, radio and devices owe nothing.
- `RigctldBackend`, `Bridge`: signals are delivered, the timer runs, the worker
  polls and serves its requests, a shutdown that began goes on. Polling and
  serving are strongly fair. Weak fairness would be enough in the program, where
  nothing disables them for long; the bound on waiting signals, which the program
  does not have, interrupts them, and a poll in progress disables the requests.
- `AudioPaths`: the retry and drain timers run, posted signals are handled, a sink
  plays what it has. `FedStreamPlays` assumes frames in its antecedent, not as
  fairness; `AudioReturns` assumes there that a usable device stays.
- `CatLink`: signals are delivered, the worker goes on, rigctld serves what it was
  sent; a queued request is taken (strongly fair, since the poll timer also
  starts when the worker is idle). Late answers, errors and hands owe nothing, nor
  does the suspension of polling: that it ends is an antecedent of
  `WorkerResyncs`, as of `LossNoticed` and `PendingCarriedOut`.
- `Session`: the sound card delivers, messages are read at both ends, the test
  client's and the server's timers fire, and it learns that the server has
  closed the connection after its goodbye (`Closed`). Its tone timer and the other
  clients owe nothing. A connection need not be lost, and neither end need ever
  learn that it was.
- In `Bridge` rigctld comes back after every loss. No property assumes that a
  client does anything, that an operator keys or unkeys, or that faults occur.

## Proofs

`TciServerProofs` proves for every set of clients, every positive limit and
every set of configurations, from `ServerAssumption` and `BacklogAssumption`:

| Theorem | Statement |
|---|---|
| `TypeCorrect` | `Spec => []TypeOK` |
| `SafetyHolds` | `Spec => []Safety` |
| `PttAlwaysGuarded` ... | the parts of `Safety` one by one |

`Safety` is the conjunction of `PttGuarded`, `OwnerOnAir`, `SuspendedForAudio`,
`DisabledNeverKeys` and `PendingOnlyOffline`. With `TypeOK` it is inductive, and
the parts need one another: that a postponed unkeying carried out on the
radio's return does not leave an owner behind needs `OwnerOnAir`; that an owner
is always on the air, also after somebody else's `trx:0,false`, needs that
switching off clears the owner whoever asks; that a key-on accepted while an
unkeying is pending is guarded needs only the watchdog, but that the pending
unkeying is dropped safely needs `PendingOnlyOffline`, that is, that it is
dropped only by the handler that carries it out.

The helpers come first (`CallTypes`, `TellTypes`, `StopTransmitTypes`,
`RequestPttTypes`: what they leave in their variables; `StopFacts`, `OnFacts`,
`OffFacts`: what they do to the few variables `Safety` reads), then one lemma
for each group of actions with a case for each action.

The same module proves the rest about the transmit control:

| Theorem | Statement |
|---|---|
| `ServerImplements` | `Spec => Implements`, the refinement of `Transmission` |
| `AlwaysToldTruth` | `Spec => []ToldTruth` |
| `NeverStolen`, `OwnerLossAlwaysUnkeys`, `PendingAlwaysKept` | the action properties |

A handler is a few helpers applied one after the other, and each helper is one
step of `Transmission`: `IsKey`, `IsEnd`, `IsPostpone` and `IsQuiet` recognise
them, `StopSteps`, `OnSteps` and `OffSteps` do it for the helpers, and
`ClientSteps`, `LinkSteps` and `RadioSteps` for the handlers. The refinement needs
the types only. `ToldTruth` is inductive by itself, together with the types;
the `...Told` lemmas say what each helper announces.

The lemmas about steps are stated for a `Slot`: a slot of the server, or anything
that leaves the server alone (`Aside`). `TciServer` hears any signals of the
radio that obey the guard of `RadioSignal`; `Session` and `Bridge` put more around
the server. Each proves that its steps are slots of the server, and inherits
`SlotSafe`, `SlotTold`, `SlotSteps` and the others.

`AudioProofs` proves about `AudioPaths`, for every set of devices, all buffer sizes and any
number of streams and of waiting signals, from `TxAudioAssumption` and
`AudioPathsAssumption` (of the resolver: that it
chooses a pair of the lists or none):

| Theorem | Statement |
|---|---|
| `AudioInvariant` | `AudioSpec => []AudioInv` |
| `AudioTypeCorrect`, `OwnAudioAlways`, `DownPathsAlwaysRetried`, `AlwaysSettled` | the invariants of the run |
| `StreamsStayPut`, `AlwaysRefillsWhenDry` | the action properties of the run |

`AudioInv` adds three facts to the invariants of the run. `FlagsTrue`: the running
flags of `main.cpp` say which paths have a device, and the retry timer runs
exactly when one has none; `DownPathsRetried` follows, and `StreamsStayPut` needs
it, since only a path whose flag is off is started by the timer. `IdleDrained`:
an idle sink has played everything; without it an underrun could be found with
audio left in the sink. `Begun`: a stream under way has a number. The buffer is
handled as a sequence over `{stream}`, which appending, trimming and draining
keep (`FrontDropped`, `TrimFits`, `DrainKeeps`, `FramedBuffer`).

`TxDurationProofs` proves `SilenceLimited`, `TimedSpec => []SilenceLimit`, for
every limit and every cap of the observer, from `OnAirAssumption` besides.
Its invariant is `Budget`: while the watchdog runs, what it has left and the
silence so far add up to no more than the limit. With `PttGuarded` it gives the
theorem. That
nothing but a `Renewal` rearms the watchdog is `OnlyRenewals`.

`RigctldBackendProofs` proves `BackendSpec => []BackendTypeOK`,
`[]NeverOptimistic` and `[]LinkReported`, for any number of faults and requests,
queues of any length and any `MaxFailures`, from `WorkerAssumption`. Both
properties speak of empty queues, so the invariant `LinkInv` says what the
signals under way will have told: the last one about the connection says what
the worker has (`Agrees`), and without one the belief is right already
(`Mute`). With the usability it is the same, except that a lost connection
takes it away without a signal of its own: as long as no write has failed, no
such loss is the last word about a radio that is usable (`Uncovered`). A write
that fails is the one step that breaks this, and the reason why `LinkReported`
exempts it. Each exchange is shown to append a report that fits what it does to
the worker (`Reports`); `Joined` says what becomes of `Says`, `Mute` and
`Uncovered` when two queues are joined. These lemmas are in
`RigctldWorkerProofs`, for any caller, and serve `Bridge` as well.

`BridgeProofs` proves about the composition, for every set of clients and
configurations, any number of faults, queues of any length and any shutdown:

| Theorem | Statement |
|---|---|
| `BridgeTypes` | `BridgeSpec => []BridgeTypeOK` |
| `AlwaysUsableAfterConnected` | `BridgeSpec => []UsableAfterConnected` |
| `BridgeSafe`, `BridgeToldTruth` | `Safety` and `ToldTruth` hold in the bridge |
| `BridgeImplements` | `BridgeSpec => Implements` |
| `BridgeNeverSteals`, `BridgeKeepsPending`, `BridgeLossUnkeys` | the action properties of the server |
| `RigFollowsUntilFault`, `UnkeyedAtShutdown` | `[](faults = 0 => RigFollows)`, `[](faults = 0 => OnlineShutdownUnkeys)` |
| `RigAlwaysFollows`, `AlwaysUnkeyedAtShutdown` | `[]RigFollows`, `[]OnlineShutdownUnkeys`, if `FaultKinds = {}` |

`TciServer` is checked and proved under an assumption about its radio: a signal
that it is usable only comes while the belief is connected. `BridgeProofs`
discharges it. `Backed` says of the queue of signals that a usable radio is only
announced where the server, having heard what is before, believes in a
connection; the worker keeps it, in
every sequence of failures, because it announces the connection first and takes
the usability back when it gives the connection up. With it every step of the
bridge is a slot of the server (`BridgeIsSlot`), and the theorems about the server
carry over, those of the refinement included.

`RigFollows` needs `RigInv`: the last PTT command in the queue says what was
asked, and as long as no fault and no hand interferes a radio that transmits is
reachable, and if no PTT command waits it was asked to. A fault breaks
it for good reasons (*bridge_lost_unkey* shows one: an unkey that fails is not
repeated), hence the condition. `OnlineShutdownUnkeys` adds `EndInv`: behind
`stop()` nothing is queued, the worker stops with an empty queue, and after the
first of the unkeys of the shutdown the radio is no longer asked to transmit, or
an unkey is pending.

`SessionProofs` proves `SessionTypes` and `ToneAlwaysEnds` (`SessionSpec =>
[]ToneEnds`) for every frame size, configuration, and queues of any length, with
losses of the connection at any time. Its invariant adds to
`Safety` the order in which the test client speaks (`Orderly`: nothing follows
its goodbye, what it hears first is the greeting, and a server without it has
nothing left to read) and `ToneInv`. A radio that is kept keyed for the tone
without an owner has a reason to be (`Excused`: it is configured so, or the unkey
is postponed), and a tone whose client is gone was broken off by a loss. Unless
the tone goes on or was broken off (`Unfinished`), whatever keys the radio on the
way to the server is followed by a `tx_audio_stop` (`Covered`), and a radio keyed
by the tone has such a stop coming; the server reads it before the goodbye. That
the radio is supervised is `PttGuarded`.

`CatLinkProofs` proves `BeliefAlwaysFollows` (`CatSpec => []BeliefFollows`) and
`PttNeverInvented` (`CatSpec => []PttNotInvented`) for
queues of any length and any number of sets, late or refused answers and changes
by hand, from `CatAssumption`. `BeliefFollows` is not inductive: it only speaks
of the moments when the queues are empty. Its invariant `CatInv` says what holds in between.
The last signal about a field carries what the worker holds (`SignalsTrue`);
without a signal, a belief that differs is explained by the last queued set of
that field, by the set the worker waits for, or by one that failed
(`BeliefExplained`). The values have no type: they are only compared.
`ChangedTo`, `Longer` and `Shorter` say what a change of a copy, an enqueued and
a dequeued element mean for the two conjuncts, so that the steps need no facts
about sequences.

`PttNotInvented` rests on a count of answers (`FewBehind`): not counting the
commands whose answers nobody will read, at most as many answers are outstanding
as have been late, and the one the worker waits for, which comes last. With one
late answer the other one, when PTT is queried, can only be that of the mode query
before it, and neither two lines nor an error line pass for a PTT state. A
wait that ends with two outstanding answers has read one of them at least
(`Ending`), so that the count does not grow without a late answer. What is read
is a concatenation of at most two answers, which is why `FlattenFew` can do
without induction.

About `PcmConvert`, `AudioProofs` proves that every sample of the integer formats
fits 16 bits (`InputsFit`; a float is clamped),
that every 16-bit sample fits the card's format (`OutputsFit`), that mixing two
channels never overflows (`MixFits`), and how close a sample comes back that is
played and recorded again (`RoundTripClose`). The way back from a float goes
through single precision; the model allows any result within the error of that
product, and rounding to a nearest integer.

About `DeviceChoice` it proves that at most one pair is chosen, whatever devices there are
(`NeverGuesses`), which pairs can be (`WhyChosen`), and that a pair with the same
name and parent leads strangers by more than the margin (`RadioBeatsStrangers`).
The comment at `AudioDeviceResolver.cpp:372`, "Require at least one strong "same
device" signal.", is not what the threshold of 100 does: one device that looks
like USB audio (60) and two that support the format (20 each) pass, and
`QtAudioBackend.cpp:571` keeps the choice for good. Names are compared through
attributes of a device; how strings are normalised is not modelled. Neither
module has behaviours; the run *audio_paths* uses `DeviceChoice` as the resolver.

Only model-checked: the liveness properties. These are `SilenceEndsTx` of
`TciServer`, `LossNoticed` and `RadioReturns` of `RigctldBackend`,
`UnkeyReachesRig`, `BeliefCatchesUp` and `PendingCarriedOut` of `Bridge`,
`WorkerResyncs` of `CatLink`, `SessionEnds` and `LostToneEnds` of `Session`, `FedStreamPlays` and
`AudioReturns` of `AudioPaths`. Liveness is out of
TLAPS's reach here. No module declares a RECURSIVE operator, and every
invariant and action property of the passing runs is stated by a theorem.

## Mutants

Definitions whose comment begins with "Mutant" are not part of the
specification. Each is the definition after it with a plausible error, and each
property fails when one of them takes the place of the original; `PROJECT.json`
lists which.

## Not modelled, and the plan

Left out, with the reason:

- The text of answers, command parsing, logging, the command line: wording and
  I/O. `audio_samplerate` and the sample type, which the next capture overwrites
  or which never change.
- Stream frames: a header at fixed offsets, without state.
- Configuration: YAML reading. What it guarantees is an assumption.
- `AudioDeviceResolver::resolveManual` and its helpers, which nothing calls; the
  manual choice of `QtAudioBackend` is in `AudioPaths`.
- Losses of the connection together with late answers (`RigctldWorker` has the
  first, `CatLink` the second): their product is too large for TLC, and a new
  connection starts without old answers.
- The stop of the audio paths at `aboutToQuit`: nothing follows it. What the
  sink has taken of an old stream: no code looks at it.
- The smoke test, WebSocket and sound-card internals.

What is left to do: an abstract specification of the PTT path (asked, believed,
executed) that `Bridge` implements, and with it what remains true of `RigFollows`
after a fault.
