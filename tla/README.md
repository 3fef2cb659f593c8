# Soundwave in TLA+

Soundwave captures what a Windows machine plays and sends it over QUIC to
Android phones on the same network. Several phones can play at once; a
calibration profile says which volume each phone must have for them to sound
equally loud, and the server lets audio through only while every phone of the
active profile stands at that volume.

This directory holds TLA+ modules translated from the source, the TLC
configurations that check them on small instances, and proofs that TLAPS checks
for every value of the constants. `PROJECT.json` maps each definition to the
lines it models and lists runs, mutants, findings, hazards and theorems.

## Inventory

| part | source | state | operations | interacts with |
|---|---|---|---|---|
| volume controller | `windows-server/src/application/volume_control.rs` | library, draft, pending commands, blocked receivers, confirmed level, fence flag | a worker tick every 100 ms; panel volume, profile select, save, delete, calibration window, shutdown | registry (its own mutex held, the registry's taken and released many times), library file |
| profiles, library file | `volume_profiles.rs` | the file | match a device, nearest common level, put, load, save | controller |
| receiver registry | `application/registry.rs` | per session: last status, receipts, playback gate, panel barrier, request ids | register, update_device, approve, deny_all, volume requests, broadcast, remove | session tasks, controller, sender (gate) |
| phone volume | `DeviceVolumeControl.kt`, `device_control.rs` | media volume, route, last report, command and report queues | apply commands, watchdog, route change | control stream |
| capture hub | `application/hub.rs`, `audio/capture.rs` | capture handle, subscriber count, threads | subscribe, unsubscribe, drop | session tasks |
| sessions, server | `application/session.rs`, `streamer.rs`, `desktop.rs` | a task per receiver, cancellation tokens | accept, handshake, stream, close, abort, shutdown | hub, registry |
| datagram sender | `network/server.rs`, `network/silence.rs`, `audio/transmission.rs` | sequence number, silence detector, 4 ms tail | per capture block: send, or go idle and report it | hub, gates, connection |
| phone receive loop | `rust/src/client.rs` | newest sequence, idle boundary and deadline | datagram, AudioIdle, commands, reconnection | jitter buffer, shared state |
| jitter buffer, pipeline | `rust/src/jitter.rs`, `receiver.rs` | buffered packets, expected sequence, adaptive target, cooldown | push, drain, restart, adapt | ring |
| PCM ring | `rust/src/ring_buffer.rs` | lock-free queue, prefill flag, target | write, overwrite, clear, read | network task and AudioTrack thread, unlocked |
| native client | `rust/src/jni.rs`, `state.rs`, `client.rs` | engine, session task, shared client state and its revision | connect, disconnect, shutdown, dial, retry with backoff | Kotlin service, by a watcher thread |
| Android service | `AudioService.kt`, `AudioTrackPlayback.kt` | AudioTrack worker and its owner, Wi-Fi lock | connect, disconnect, look at the status, start and stop playback | native client |
| tone control | `rust/src/device_control.rs`, `AudioTrackPlayback.kt` | request token, deadline, answer given | request, expire, acknowledge | network task, main thread, playback thread |
| calibration | `application/calibration.rs` | measuring run, cancel token, result | start, run, cancel, restore, take the result | registry, phones, microphone |
| calibration panel | `ui/model.rs`, `ui/calibration_window.rs`, `ui/dashboard.rs` | sessions begun, requests waited for | open, refresh, set a level, calibrate, cancel, close, exit | registry, calibration |
| loudness, microphone | `loudness.rs`, `audio/microphone.rs` | samples | integrate | calibration |
| transport, protocol, identity, layout, QR pairing | `crates/`, `ui/`, `pairing.rs`, activities | identity files, windows | codecs, TLS, layout | all |

What is hard here, and the property that makes each part correct:

* A tick reads statuses, decides, sends commands and opens gates while phones
  report, leave and reconnect. **A gate is open only at the volume the profile
  asks for.** Reports of changes made at a phone may be older than the panel
  command or profile switch they would override.
* Receipts get lost and commands time out while their answer is on its way.
  **The system settles**: the phones play, or one is blocked and shown to the
  operator. Nothing is commanded again while blocked.
* The file must hold **only levels that were confirmed**, at every save, and a
  file that could not be read must never be overwritten.
* The hub takes a capture down outside its mutex while the next session starts
  another. **Subscribers share one capture that nobody stops under them**, a
  thread without an owner comes only from a start that failed half way, and a
  shutdown completes.
* Datagrams are lost, late and reordered; the idle message travels on another
  stream. **What is played is in order, once**, a paused stream falls silent and
  a resumed one is heard.
* Two threads pop from one unlocked ring.
* Three threads of the phone decide together when a test tone plays, and the
  server measures on the strength of their answer. **A request is answered once
  and in its own terms**, no tone begins after "stopped", and one that is no
  longer wanted ends.
* A session task that is aborted finishes the poll it is in, a playback thread
  that was asked to stop lingers, and the user connects again. **One AudioTrack
  at a time**, and playback and Wi-Fi lock follow the stream.
* A measuring run holds the phones at levels nobody chose, while the operator
  cancels, closes the window or exits, and phones leave or answer late. **Every
  phone is restored, or the operator is told.**

## Modules

| module | models |
|---|---|
| `VolumeProfiles` | pure operators on profiles and libraries |
| `ReceiverRegistry` | the registry's state and its operations, each under its mutex |
| `PhoneVolume` | extends the registry with the phones: command queue, report queue, watchdog, volume keys, routes, connections |
| `VolumeControl` | extends both with the controller; `Spec` is the composition |
| `VolumeControlProofs`, `VolumeProtocolProofs` | theorems about it |
| `CaptureHub`, `CaptureHubProofs` | hub, session tasks, capture threads, server shutdown |
| `AudioLink`, `AudioLinkProofs` | sender, datagrams, control stream, receive loop, jitter buffer, adaptation |
| `PcmRing`, `PcmRingProofs` | the ring, one operation on queue, prefill flag or target a step |
| `ToneService` | abstract: what a phone promises about the test tone |
| `ToneControl`, `ToneControlProofs` | network task, main thread and playback thread that together keep it |
| `NativeClient`, `NativeClientProofs` | session tasks, shared state, watcher, service, workers, Wi-Fi lock |
| `CalibrationPhone` | a phone's calibration session, its queues and its connection |
| `Calibration`, `CalibrationProofs` | extends it with the measuring run and the panel |
| `MC...` | constants of the instances |

**Volume.** The controller's mutex excludes operator and tick; the registry's
mutex is taken afresh for each registry call. So the tick is four steps,
`TickSnapshot`, `TickReplies`, `TickTargets`, `TickPublish`, cut exactly where a
value read earlier is used later, and everything in `Network` may happen between
them. A receiver is one session of a device (`DeviceOf`): a phone that reconnects
has two for a while. Volume levels are `0 .. MaxLevel`; device name and range are
one model value. Messages are records in FIFO queues; a report may be lost or a
command expire only where the code drops it (`FaultyOutcomes`, bounded by
faults). History variables `settled`, `commanded` and `fence` exist for the
properties only. A save that fails leaves memory and file unchanged in the code,
so it is the absence of a step.

**Capture.** A session subscribes at most once, so a capture is named after the
session that started it. `unsubscribe` is `Unsubscribe` (the critical section),
`CancelCapture` and `Joined`. An abort drops a task at the await where it stands
(`Abort`): its guard is dropped, the rest never runs. A start spawns two threads
and may fail at either (`StartFaults`); when the second fails, the first is
`Leaked`: it runs, and its token and handle are gone.

**Audio.** Packets have a number from the start of the session, which only the
properties use; the code sees it modulo `Modulus` (2^32 in the source), and the
jitter buffer is keyed by the residue. The network is as weak as it can be: any
packet sent may arrive at any time, any number of times, or never. `drain_ready`
is a step per turn of its loop. In `PcmRing`, samples are numbered modulo
`Numbers`, even ones left and odd ones right; push, pop, length, and the loads and
stores of the prefill flag and the target are steps. Two are not: the load of the
target at the end of a short read is part of `EndRead` (a target only grows, so
`target > 0` cannot change meanwhile), and so is the underrun counter.

**Tone.** `ToneControl` cuts the three threads at each lock of `DeviceControl`
and each call on the AudioTrack; a report is decided under the lock and queued
after it (`out`, `PushReport`), and a start reads the output in use before it
takes the lock (`LoadSpeaker`, `loaded`). Ids increase and skip, since the server
draws those of all its requests from one counter. `Promise == INSTANCE ToneService
WITH ...` maps the token in force, the answers decided, an audible tone and a
dismissed worker that still has its track to the abstract state: `KeepsPromise`
says every step is a step of the service or a stutter. A request is answered once,
by the answer it asked for or by a failure. "Stopped" is answered in silence, with
one exception: `stopPlayback` dismisses the worker, pauses, flushes and answers
without waiting for it, and a worker that was past its check calls `play()`
between pause and flush. Then the tone is heard until that worker is gone, and
`ToneService` says so (`SayStopped`: `audible => leaving`). What does hold is that
after "stopped" no tone *begins* to be heard until the server asks again, that the
worker leaves in silence, and that the tone ends (`ToneEnds`). The PCM that is read
is a tone or not; `until` is the five-second deadline, live or over.

**Client.** A session task is at an await (`dial`, `live`, `backoff`), or has found
an event and is about to write the shared state (`Publish`). `abort()` does not
wait, so an aborted task may still publish once. A `revision` the watcher has
not seen is `news`. The looks of the service are `Sync`, run on the main thread:
`RunStatus` for the ones the watcher posts, `RunWorkerPost` for a worker's end.
Sessions and workers are numbered in the order they are started. `attempt` is the
exponent of the next delay, `min(4)` of the source's counter.

**Calibration.** The run's blocking calls are a step that sends (`Ask`) and one
that ends the wait (`TakeReply`, or `GiveUp` for cancel, lost connection and
timeout). What the microphone hears is a free choice of heard or not (`Listen`),
and so are the levels a match finds (`Choose`). `Refresh` takes the requests it
finds answered and the ones it finds too old as choices of the panel's clock.
`switch_tone` is one step: what happens inside is `ToneControl`. History variable
`touched` marks the phones whose volume key was pressed after their session ended.

## Runs

| run | instance | checks | distinct states |
|---|---|---|---|
| `volume_gates` | master and follower, one user change, one panel command | `TypeOK`, `GateMatchesProfile`, `NoCommandWhileBlocked` | 347 k |
| `volume_reconnect` | one phone on two sessions, two profiles, one fault, one user change, one panel command | `GateMatchesProfile`, `EventNewerThanPanel`, `DiskHoldsConfirmed`, `AdoptionAfterSwitch` | 837 k |
| `volume_library` | one phone and an absent follower, readable or unreadable file, drafts, two operator commands, one fault, fair | `DiskHoldsConfirmed`, `UnreadableKept`, `Settles` | 218 k |
| `hub_lifecycle` | three sessions, starts that fail at either thread, one later failure, fair | `SharedCapture`, `RegisteredIsSubscribed`, `EveryThreadOwned`, `ShutdownCompletes` | 113 k |
| `link` | six packets across the wrap, two a block, target 1 to 2, fair | `TypeOK`, `CountedOnce`, `NeverOverfull`, `StreamIsHeard`, `InOrder`, `FallsSilent` | 1.6 M |
| `ring_threads` | four samples, packets and chunks of a frame, fair | `TypeOK`, `KeepsNewest`, `PrefillEnds` | 49 k |
| `tone` | two requests, one disturbance, fair | `TypeOK`, `KeepsPromise` (refinement), `Answered`, `ToneEnds` | 448 k |
| `client` | two sessions, three workers, an outage, a refused connect, a broken track, fair | `TypeOK`, `OneTrack`, `Plays`, `Rests`, `Retries` | 170 k |
| `calibration` | master and follower, levels 0 and 1, one fault, three operator commands, fair | `TypeOK`, `RestoredOrTold`, `CancelledIsDropped`, `SessionEnds`, `RunEnds` | 149 k |
| `ring_channels`, `client_rejected`, `calibration_locked` | | findings, below | |

**Bounds and why they are enough.** Two levels distinguish "at the level" from
"not at it", and the follower's mapping crosses them so that a wrong lookup shows.
Two sessions of one phone are the zombie and its successor; a third would be a
second zombie. Queues of two let a message be overtaken by a decision and still
wait behind another. One fault loses any one receipt or fails any one command;
the next is handled like the first, from a state that is reachable without it.
Three sessions let one leave, one join and one stay. Six packets exceed the
window `max_packets` of the smaller targets, so `SkipGap` happens, and they start
before the wrap (the earlier packets of the session were lost). Two idle messages
may be under way at once. The ring's last target exceeds its capacity, as an
uncapped adaptation would. Two tone requests are one and its successor, all that
a token can confuse; the disturbance is a lost session, a change of output, a
broadcast stop, a cancel or audio that starts. Two client sessions are the
aborted one and its successor, three workers the lingering one, the one that
waits for it and one more after a broken track. A master and a follower are the
two roles of a measuring run; three operator commands are an open and
any two of set, calibrate, cancel, close and exit.

**Fairness.** Volume: weak for the tick, the session's reads, the phone's main
loop, the query tick and the watchdog, all loops with timers; strong for "a
command still unanswered times out", because its age grows with the clock
whatever else happens in the ticks. Users, operators, faults and disconnections
are never forced. Hub: weak for every task, thread and server step; peers and
faults are free. Link: weak for the receive loop, its timer and the delivery of
the control stream; nothing for datagrams. Ring: both threads run, packets go on
arriving, and the reader's polls do not all hit the instant between the pop and
the push of an overwriting writer (strong fairness for each of the three loads of
a poll that finds enough in the ring). That last assumption is needed: once the
target has grown to the capacity, prefill ends only when the ring is seen
completely full. Tone: weak for the main thread, the playback thread, the clock
and the 250 ms tick, and a start that has read the output goes on to the lock; the
server's requests and the disturbances are free. Client:
weak for session tasks, watcher, posted runnables and a worker that has to end;
the server comes back after an outage (the promise is conditional on it), and
streams and users owe nothing. Calibration: weak for phones, connections, the run
and the process that was told to exit; neither the operator nor the panel's
refresh is forced, a lost connection is noticed by the phone's six-second
watchdog.

**Deadlock** is checked in the volume, hub, link and ring runs; a finished
server or process stutters in an explicit step. Tone, client and calibration may
come to rest: there the liveness properties say what must happen first.

## Findings

1. `ring_channels` (bug). `read_into` pops single samples while the network task
   clears, overwrites or writes. An odd number of samples lost or zeroed inside a
   chunk shifts it by one, and left and right are exchanged until the ring runs
   empty.
2. `client_rejected` (bug). A connect with a malformed address is refused before
   the running session is touched, but its error is written to the state that
   session shares: it streams on, the state reads Error, and AudioTrack and Wi-Fi
   lock stay off until the session itself fails and retries.
3. `calibration_locked` (bug). A phone ends its session by itself when no query
   reaches it for six seconds or when headphones are plugged in. The panel keeps
   it in its set of sessions, so it sends no other Begin, and the phone refuses
   every level until the window is closed.

Seen while modelling, without a run of their own: `streamer.rs` says the sessions
unwind "so capture is joined before the endpoint goes idle", but
`sessions.shutdown()` aborts them, and the capture is joined only when the hub is
dropped, after `wait_idle` (`ShutdownCompletes` holds all the same). If the
fan-out thread cannot be spawned, the loopback thread spawned just before runs
without an owner until the process ends; `EveryThreadOwned` and
`ShutdownCompletes` name that thread as their exception (`Leaked`).
"Stopped" can be answered for a tone that is still heard (above); the server then
goes on to its next measurement, and no line of the repository says that the phone
is silent by then. A status report between `speaker.load` and the tone's lock in
`request_tone` stops the tone before it starts, and the start then goes ahead on
an output that is no longer the speaker. An aborted session's late write can leave
Connecting or Error over the next session, which is live: with two sessions and an
outage in `ClientRejected.cfg` instead of the refused connect, TLC finds
`StreamResumes` violated by it as well. And every look at a session that is not
Connected counts as a change of the shared state (`StopsTone` in `NativeClient`),
so main thread and watcher of a phone that retries wake each other without end.

## Proofs

Every safety invariant and every action property that a run checks is a theorem,
proved for every value of the constants the assumptions allow. TLC checked the
property on its run first, and the larger inductive invariants as well.

`VolumeControlProofs`, for all devices, receivers, levels, profiles and bounds:

* `GatesMatchProfile`: `Spec => []GateMatchesProfile`. Not inductive alone: the
  gates are written from a snapshot. `GateInv` adds the shape of library and
  registry and `PlanInForce`: no tick runs while the window is open, and a tick
  that is about to publish saw its members at the level the library asks for now.
  `approve` then compares snapshot and record again (`ApproveMatches`), and every
  later change of a record shuts its gate (`RegistryKeepsGates`).
* `UnreadableIsKept`: each save is guarded by `Writable`, and nothing clears
  `load_error`.
* `BlockedAreLeftAlone`: an action property, by cases on the actions that send.

`VolumeProtocolProofs` goes on from there:

* `Typing`, in five parts (registry, queues, phones, library, tick). Its
  substance is in the tick: a plan that is published has a level, because
  `nearest` finds one when `available` is not empty.
* `DiskIsConfirmed`, with `WishesApart`: at most the profile last in force has
  a level that is only a wish, and that is the one `State::persisted` replaces.
* `EventsAreNewer`. `OrderInv` follows a panel command to the phone and its
  receipt back: commands on their way have rising ids above what the phone has
  taken (`Ordered`), reports say in order what it had taken (`Dated`), the
  barrier is the latest panel command (`Barred`), and without a barrier
  everything on its way back is newer than that (`Caught`). The property alone is
  not inductive: it speaks of what the registry keeps, and that comes out of
  the queue.
* `SwitchIsFenced`, an action property, with `FenceOwed`: while the profile that
  was switched to has not commanded its master, the tick still owes that command
  and nothing is pending that would keep it from sending it. The attempt to prove
  the property showed what it does not say. When the calibration window closes, the
  levels it asks for again are pending, so the tick sends no fence for a
  switch that is older than the window; they take its place, and the history
  variable `fence` says so.

`AudioLinkProofs`, for every even modulus, target, step, cooldown, packets
per block and grace:

* The code computes with residues. `Compared` shows that two packets of one
  session compare by their residues as they do by number, across the wrap, because
  the session is shorter than half the modulus (`LinkAssumption`).
* `LinkInv` gives the residue the buffer expects its meaning back. There is
  a packet `e` with that residue such that what is held is from `e` on, what was
  played or counted lost is from before `e`, the last pause is not behind `e`, and
  the packet before `e` is no newer than the newest that arrived (`At`). `Paused`
  adds that an idle boundary is ahead of everything that arrived.
* From it: `Typing`, `CountedOnceHolds`, `NeverOverfullHolds` (the drain
  ends with nothing held, or waiting for a gap below the target), `StreamIsHeardHolds`
  and the action property `InOrderHolds`. The steps that need an argument
  are `Receive`, whose packet may restart the buffer at the boundary
  (`PushedAt`), and `SkipGap`, where `next_buffered_sequence` has to find the oldest
  packet held (`NearestIsOldest`).

`PcmRingProofs`, for a ring, packets, chunks and targets of any size: `Typing`, and
`KeepsNewestHolds` from `RoomMade`: between the writer's pop and its second push
only the reader acts, and it only makes more room.

`ToneControlProofs`: `Typing`, and the refinement `PromiseKept`:
`Spec => Promise!Spec`. Each step is one of seven kinds by its effect on
the request in force and the answers decided (`Quiet`, `Fresh`, `Broadcast`,
`GivesUp`, `Plays`, `Stops`, `Forgets`), and each kind is a step of `ToneService` or
a stutter. The invariant ties the worker's locals to the track: a request seen off
does not come on again, and once "stopped" is decided neither the track nor the
chunk in the worker's hands holds a tone, as long as the worker goes on or has yet
to be paused and flushed (`Silent`). For a worker that was told to stop,
`TrackOK` bounds what it may still do: it calls `play()` at most once more, what it
still writes goes to a paused track, and after the flush there is no tone for it to
begin.

`NativeClientProofs`: `Typing` and `OneTrackHolds`, for any number of sessions,
workers, outages and refused connects.

`CalibrationProofs`, for any list of phones and number of levels: `CancelledDropped`,
`Typing`, and `RestoredOrToldHolds`. The last needs that at most one answer is
waited for and under way per phone (`RequestsOK`), so that the answer to the cancel
is not taken for another, and that a phone that answered a cancel stands where its
answer says and can be reached by further cancels only (`UndoOK`).

`CaptureHubProofs`, for every finite set of sessions:

* `Typing`.
* `SharedCaptureHolds`, from `IInv`: the count is the cardinality of the sessions
  that subscribed and did not unsubscribe (`CountExact`), they are all fed by the
  hub's capture (`FeedIsCapture`), it is not cancelled (`CaptureStarted`), and
  what leaving sessions still have to cancel is another one (`HeldApart`).
* `RegisteredIsSubscribedHolds`, from the program order of a session.
* `EveryThreadOwnedHolds`, for every set of start faults, with `Owned` and `Fed`:
  a capture that feeds a session was started by a subscription that succeeded,
  and so was the hub's. Where the fan-out thread always starts, nothing is
  `Leaked` and the theorem says that every running thread has an owner.

**Assumptions** on constants are the named `ASSUME`s of the modules; TLC evaluates
them in every run. They say that bounds are natural numbers (queues hold
at least one message), that the absent value `None` is none of the values it
stands in for, that a receiver is a session of one device, that a stored
library passes `Library::load` and has finitely many profiles, that the phones of a
calibration are a list without repetition, that a target is between the initial
and the largest one, and the length of an audio session given above.

**Model-checked only.** Liveness (`Settles`, `ShutdownCompletes`, `FallsSilent`,
`PrefillEnds`, `Answered`, `ToneEnds`, `Plays`, `Rests`, `Retries`, `SessionEnds`,
`RunEnds`) needs fairness and `ENABLED`, which are out of the prover's reach, and
the three findings are counterexamples of TLC.

Every property of a passing run has a mutant: the definition of a guard or
helper replaced by a plausible mistake (`Mutant...`, defined just before it), with
which TLC finds the property violated.

## Not modelled

* Layout, Win32, notifications, QR scanning, codecs, TLS and QUIC themselves: the
  models use ordered reliable control streams and unreliable datagrams.
* Signal processing (loudness, microphone, sample conversion): floating point.
* A reconnection restarts sender and receiver of `AudioLink` together: the
  lifecycle is `NativeClient`'s, and the link is modelled within one connection.
* Packets of a wrong size, which the server never sends; the counters that are
  only displayed (received, late, round-trip time).
* Request ids are unbounded: 2^32 requests are out of reach of a running server.
* `set_master`, `edit` and points recorded by hand: they change the draft in
  memory only, and in `VolumeControl` a draft is any of a set.
* `BlockAssembler`, the packetizer's 4 ms tail and `enqueue_latest`: sequential
  code on sample counts, covered by the unit tests of the repository.
* The identity files, written once and without recovery code, and the temporary
  file and rename of the library: the file is one atomic value.
* A message lost because a receiver's queue of 16 is full, in `Calibration` only:
  there a full queue is a guard.
* The phone's activity: forms, permissions, preferences.

## Plan

The safety properties of the runs are proved. What can still be added:

1. Safety facts behind the liveness properties, such as: while an idle boundary
   is set and audio is active, the timer runs (`FallsSilent`), and a command that
   is pending was sent to a registered receiver (`Settles`).
2. What `Nearest` and `Put` of `VolumeProfiles` promise to their callers, as
   lemmas of their own.
