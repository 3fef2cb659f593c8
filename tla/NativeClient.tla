--------------------------- MODULE NativeClient ---------------------------
(***************************************************************************)
(* The life of a connection on the phone: the Android service that the     *)
(* user starts and stops (AudioService), the native engine behind it       *)
(* (jni.rs), the session task that dials, streams and retries (client.rs)  *)
(* and the state all of them share (state.rs).                             *)
(*                                                                         *)
(* JoinHandle::abort does not wait for the task: a task aborted in the     *)
(* middle of a poll finishes it. A poll is therefore two steps, the event  *)
(* it found (Found) and the write to the shared state (Publish).           *)
(***************************************************************************)
EXTENDS Naturals, FiniteSets

CONSTANTS
    MaxSessions,    \* bound: connects that reach the engine
    MaxRejects,     \* bound: connects refused for a malformed address
    MaxOutages,     \* bound: the server becomes unreachable, or a session fails
    MaxBreaks,      \* bound: AudioTrack.write fails
    MaxWorkers      \* bound: playback workers alive at a time

ASSUME BoundsAssumption ==
    {MaxSessions, MaxRejects, MaxOutages, MaxBreaks, MaxWorkers} \subseteq Nat

Sessions == 1 .. MaxSessions
Workers == 1 .. MaxWorkers
ClientState == {"Idle", "Connecting", "Connected", "Disconnected", "Error"}
Events == {"none", "up", "down", "fail", "retry", "packet", "silence"}

VARIABLES
    state,          \* SharedState.state, Idle while there is no engine
    audio_active,   \* SharedState.audio_active; a tone counts as audio too, see
                    \* ToneControl
    session,        \* session of the engine, 0 when there is none
    task,           \* per session: where its task is and the event it found
    attempt,        \* retry_attempt of the running task, as retry_delay sees it
    reachable,      \* whether the server answers
    requested,      \* AudioService.reconnectRequested
    stopping,       \* stopSelf was called, onDestroy is to come
    watcher,        \* statusThread, 0 when there is none
    news,           \* a revision the watcher has not seen
    posts,          \* runnables posted to the main thread: by a watcher, or 0
                    \* for the one a worker posts
    running,        \* playbackRunning
    owner,          \* the worker whose track is in audioTrack, 0 when null
    workers,        \* the workers whose track is not released yet
    orphans,        \* those of them whose service is gone
    wifi,           \* whether the Wi-Fi lock is held
    rejects, outages, breaks    \* counters of the bounds

shared == <<state, audio_active, news>>
engine == <<session, task, attempt>>
playback == <<running, owner, workers, orphans, wifi>>
service == <<requested, stopping, watcher, posts>>
bounds == <<rejects, outages, breaks>>
vars == <<shared, engine, reachable, service, playback, bounds>>

TypeOK ==
    /\ state \in ClientState
    /\ session \in Sessions \cup {0}
    /\ task \in [Sessions -> [at : {"none", "dial", "live", "backoff", "dead"},
                              found : Events, aborted : BOOLEAN]]
    /\ attempt \in 0 .. 4
    /\ {audio_active, news, reachable, requested, stopping, running, wifi} \subseteq BOOLEAN
    /\ watcher \in 0 .. MaxSessions
    /\ posts \subseteq 0 .. MaxSessions
    /\ owner \in Workers \cup {0}
    /\ workers \subseteq Workers
    /\ orphans \subseteq workers
    /\ rejects \in 0 .. MaxRejects
    /\ outages \in 0 .. MaxOutages
    /\ breaks \in 0 .. MaxBreaks

Init ==
    /\ state = "Idle" /\ audio_active = FALSE /\ news = FALSE
    /\ session = 0 /\ attempt = 0
    /\ task = [s \in Sessions |-> [at |-> "none", found |-> "none", aborted |-> FALSE]]
    /\ reachable = TRUE
    /\ requested = FALSE /\ stopping = FALSE /\ watcher = 0 /\ posts = {}
    /\ running = FALSE /\ owner = 0 /\ wifi = FALSE
    /\ workers = {} /\ orphans = {}
    /\ rejects = 0 /\ outages = 0 /\ breaks = 0

---------------------------------------------------------------------------
(* SharedState                                                             *)

\* set: every state but Connected ends the audio; a change wakes the watcher.
SetState(new) ==
    /\ state' = new
    /\ audio_active' = (audio_active /\ new = "Connected")
    /\ news' = (news \/ new # state \/ audio_active' # audio_active)

SetAudioActive(active) ==
    /\ audio_active' = active
    /\ news' = (news \/ active # audio_active)
    /\ UNCHANGED state

\* begin_connecting; that the service then finds no session counts as a change.
BeginConnecting == state' = "Connecting" /\ audio_active' = FALSE /\ news' = TRUE

\* set_error, likewise
SetError == state' = "Error" /\ audio_active' = FALSE /\ news' = TRUE

\* wait_for_update returns.
Woken == watcher # 0 /\ news

---------------------------------------------------------------------------
(* The session task: run_session.                                          *)

Runs(s) == task[s].at \notin {"none", "dead"} /\ ~task[s].aborted

\* A poll of the task finds that something has happened.
Found(s, event) ==
    /\ Runs(s) /\ task[s].found = "none"
    /\ task' = [task EXCEPT ![s].found = event]
    /\ UNCHANGED <<shared, session, attempt, reachable, service, playback>>

\* The handshake succeeds or the attempt fails.
Dial(s) ==
    /\ task[s].at = "dial"
    /\ Found(s, IF reachable THEN "up" ELSE "fail")
    /\ UNCHANGED bounds

\* A datagram arrives, or the idle deadline passes.
Stream(s, event) ==
    /\ task[s].at = "live" /\ event \in {"packet", "silence"}
    /\ event = "packet" => reachable
    /\ Found(s, event)
    /\ UNCHANGED bounds

\* The connection closes, by the server or with it.
Closed(s) ==
    /\ task[s].at = "live" /\ ~reachable
    /\ Found(s, "down")
    /\ UNCHANGED bounds

\* A protocol error or a full command queue ends the session.
Fails(s) ==
    /\ task[s].at = "live" /\ outages < MaxOutages
    /\ Found(s, "fail")
    /\ outages' = outages + 1
    /\ UNCHANGED <<rejects, breaks>>

\* The delay is over.
Wake(s) ==
    /\ task[s].at = "backoff"
    /\ Found(s, "retry")
    /\ UNCHANGED bounds

\* Mutant: the shift of retry_delay is not limited.
MutantNextAttempt == attempt + 1

\* The exponent of the next delay. The counter itself goes on; retry_delay takes
\* the minimum of it and 4 before it shifts.
NextAttempt == IF attempt < 4 THEN attempt + 1 ELSE attempt

MutantAfter(event) ==
    CASE event = "up"    -> "live"
      [] event = "fail"  -> "dead"
      [] event = "down"  -> "backoff"
      [] event = "retry" -> "dial"
      [] OTHER           -> "live"

\* Where the task goes after an event.
After(event) ==
    CASE event = "up"                -> "live"
      [] event \in {"fail", "down"}  -> "backoff"
      [] event = "retry"             -> "dial"
      [] OTHER                       -> "live"

\* The rest of the poll: the event is written to the shared state, also by a
\* task that was aborted since.
Publish(s) ==
    LET event == task[s].found
    IN  /\ event # "none"
        /\ CASE event = "up"                -> SetState("Connected")
             [] event = "fail"              -> SetState("Error")
             [] event \in {"down", "retry"} -> SetState("Connecting")
             [] event = "packet"            -> SetAudioActive(TRUE)
             [] OTHER                       -> SetAudioActive(FALSE)
        /\ task' = [task EXCEPT ![s].found = "none",
                                ![s].at = IF task[s].aborted THEN "dead" ELSE After(event)]
        /\ attempt' = IF task[s].aborted THEN attempt
                      ELSE IF event = "down" THEN 0
                      ELSE IF event = "retry" THEN NextAttempt ELSE attempt
        /\ UNCHANGED <<session, reachable, service, playback, bounds>>

\* The server goes away and comes back.
SetReachable(up) ==
    /\ reachable # up
    /\ up \/ outages < MaxOutages
    /\ reachable' = up
    /\ outages' = IF up THEN outages ELSE outages + 1
    /\ UNCHANGED <<shared, engine, service, playback, rejects, breaks>>

---------------------------------------------------------------------------
(* The native engine: connect, disconnect, shutdown.                       *)

\* task.abort(): a parked task is gone, one in a poll finishes it.
Aborted(t) ==
    IF session = 0 THEN t
    ELSE [t EXCEPT ![session].aborted = TRUE,
                   ![session].at = IF t[session].found = "none" THEN "dead" ELSE @]

NextSession == 1 + Cardinality({s \in Sessions : task[s].at # "none"})

NativeConnect ==
    /\ NextSession \in Sessions
    /\ session' = NextSession
    /\ task' = [Aborted(task) EXCEPT ![NextSession].at = "dial"]
    /\ attempt' = 0

NativeDisconnect ==
    /\ session' = 0
    /\ task' = Aborted(task)
    /\ UNCHANGED attempt

---------------------------------------------------------------------------
(* AudioService, on the main thread.                                       *)

MutantMayStart == ~running

\* A new worker waits until the previous one has let go of its track.
MayStart == owner = 0

StartPlayback ==
    IF MayStart
    THEN \E w \in Workers \ workers :
            /\ \A v \in Workers \ workers : w <= v
            /\ running' = TRUE
            /\ owner' = w
            /\ workers' = workers \cup {w}
            /\ UNCHANGED orphans
    ELSE UNCHANGED <<running, owner, workers, orphans>>

\* The worker is told to stop; it owns its track until it has.
StopPlayback == running' = FALSE /\ UNCHANGED <<owner, workers, orphans>>

MutantSync(seen, active) ==
    IF requested /\ seen = "Connected" /\ active
    THEN StartPlayback /\ wifi' = TRUE
    ELSE StopPlayback /\ UNCHANGED wifi

\* Every look at a session that is not up stops the tone (cancelCalibration),
\* which always counts as a change: the watcher wakes and posts another look.
StopsTone(seen) == seen # "Connected"

\* syncStreamingResources, with the state just read
Sync(seen, active) ==
    IF requested /\ seen = "Connected" /\ active
    THEN StartPlayback /\ wifi' = TRUE
    ELSE StopPlayback /\ wifi' = FALSE

\* ACTION_CONNECT: the old session is aborted, a new one dials.
Connect ==
    /\ ~stopping
    /\ NativeConnect
    /\ BeginConnecting
    /\ requested' = TRUE
    /\ StopPlayback /\ wifi' = FALSE
    /\ watcher' = IF watcher = 0 THEN NextSession ELSE watcher
    /\ UNCHANGED <<reachable, stopping, posts, bounds>>

\* ACTION_CONNECT with an address the engine cannot parse: the error is
\* recorded in the shared state, the session of an earlier connect lives on.
Reject ==
    /\ ~stopping /\ rejects < MaxRejects
    /\ rejects' = rejects + 1
    /\ SetError
    /\ Sync("Error", FALSE)
    /\ UNCHANGED <<engine, reachable, service, outages, breaks>>

\* ACTION_DISCONNECT
Disconnect ==
    /\ ~stopping
    /\ requested' = FALSE /\ watcher' = 0 /\ stopping' = TRUE
    /\ NativeDisconnect
    /\ IF state = "Idle" THEN UNCHANGED shared ELSE SetState("Disconnected")
    /\ StopPlayback /\ wifi' = FALSE
    /\ UNCHANGED <<reachable, posts, bounds>>

\* onDestroy: the engine is dropped with its runtime. The next connect finds a
\* new service, whose audioTrack is its own; a worker of the old one still ends.
Destroy ==
    /\ stopping
    /\ requested' = FALSE /\ watcher' = 0 /\ stopping' = FALSE /\ posts' = {}
    /\ session' = 0 /\ attempt' = 0
    /\ task' = [s \in Sessions |->
                  IF task[s].at = "none" THEN task[s]
                  ELSE [at |-> "dead", found |-> "none", aborted |-> TRUE]]
    /\ state' = "Idle" /\ audio_active' = FALSE /\ news' = FALSE
    /\ running' = FALSE /\ owner' = 0 /\ wifi' = FALSE /\ orphans' = workers
    /\ UNCHANGED <<workers, reachable, bounds>>

\* The status thread saw a new revision and posts an update.
Watch ==
    /\ Woken
    /\ news' = FALSE
    /\ posts' = posts \cup {watcher}
    /\ UNCHANGED <<state, audio_active, engine, reachable, requested, stopping, watcher,
                   playback, bounds>>

\* updateStatus, unless the watcher that posted it was replaced.
RunStatus(w) ==
    /\ w \in posts
    /\ posts' = posts \ {w}
    /\ IF watcher = w
       THEN Sync(state, audio_active) /\ news' = (news \/ StopsTone(state))
       ELSE UNCHANGED <<playback, news>>
    /\ UNCHANGED <<state, audio_active, engine, reachable, requested, stopping, watcher,
                   bounds>>

MutantRunWorkerPost ==
    /\ 0 \in posts
    /\ posts' = posts \ {0}
    /\ UNCHANGED <<playback, shared, engine, reachable, requested, stopping, watcher, bounds>>

\* The look a worker asks for when it has let go of its track.
RunWorkerPost ==
    /\ 0 \in posts
    /\ posts' = posts \ {0}
    /\ IF requested
       THEN Sync(state, audio_active) /\ news' = (news \/ StopsTone(state))
       ELSE UNCHANGED <<playback, news>>
    /\ UNCHANGED <<state, audio_active, engine, reachable, requested, stopping, watcher,
                   bounds>>

---------------------------------------------------------------------------
(* The playback worker.                                                    *)

ShouldContinue(w) == running /\ owner = w

\* The worker was told to stop, or its track fails; it releases the track and
\* posts a look at the resources. A worker of a destroyed service only ends.
EndWorker(w) ==
    /\ w \in workers
    /\ IF ShouldContinue(w) THEN breaks < MaxBreaks /\ breaks' = breaks + 1
                            ELSE UNCHANGED breaks
    /\ workers' = workers \ {w} /\ orphans' = orphans \ {w}
    /\ IF owner = w
       THEN running' = FALSE /\ owner' = 0 /\ posts' = posts \cup {0}
       ELSE UNCHANGED <<running, owner, posts>>
    /\ UNCHANGED <<shared, engine, reachable, requested, stopping, watcher, wifi,
                   rejects, outages>>

---------------------------------------------------------------------------
Task(s) ==
    \/ Dial(s) \/ Closed(s) \/ Wake(s) \/ Publish(s)

Next ==
    \/ Connect \/ Reject \/ Disconnect \/ Destroy
    \/ \E s \in Sessions :
         \/ Task(s) \/ Fails(s)
         \/ \E event \in {"packet", "silence"} : Stream(s, event)
    \/ \E up \in BOOLEAN : SetReachable(up)
    \/ Watch \/ RunWorkerPost
    \/ \E w \in 1 .. MaxSessions : RunStatus(w)
    \/ \E w \in Workers : EndWorker(w)

Spec == Init /\ [][Next]_vars

\* Tasks and threads run, posted runnables are executed, a service that stopped
\* itself is destroyed, and the server comes back.
FairSpec ==
    /\ Spec
    /\ \A s \in Sessions : WF_vars(Task(s))
    /\ WF_vars(SetReachable(TRUE))
    /\ WF_vars(Watch) /\ WF_vars(RunWorkerPost) /\ WF_vars(Destroy)
    /\ \A w \in 1 .. MaxSessions : WF_vars(RunStatus(w))
    /\ \A w \in Workers : WF_vars(EndWorker(w) /\ ~ShouldContinue(w))

---------------------------------------------------------------------------
(* Properties.                                                             *)

Wanted == requested /\ state = "Connected" /\ audio_active

\* A service has one AudioTrack at a time, however fast the user reconnects: a
\* worker that was asked to stop is not joined by a second one (the comment in
\* startPlayback).
OneTrack == workers \ orphans \subseteq {owner}

\* "Both resume after the stream reaches Connected" (README): audio that arrives
\* is played under the Wi-Fi lock, also when a worker of an earlier stream is
\* still on its way out or a track breaks.
Plays == Wanted ~> (~Wanted \/ (running /\ wifi))

\* "During connection attempts and retry backoff, AudioTrack is stopped and the
\* Wi-Fi lock is released", and after a disconnect for good.
Rests ==
    (~requested \/ state # "Connected") ~>
        (Wanted \/ (~wifi /\ workers = {}))

\* "Retrying indefinitely until the server returns or the user disconnects":
\* the session of the last connect gets through in the end.
Retries ==
    \A s \in Sessions : (session = s) ~> (session # s \/ task[s].at = "live")

\* A stream that is up shows as Connected, which is what playback waits for.
StreamResumes ==
    \A s \in Sessions :
        (session = s /\ task[s].at = "live") ~>
            (state = "Connected" \/ session # s \/ task[s].at # "live")
=============================================================================
