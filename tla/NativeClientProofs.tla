------------------------- MODULE NativeClientProofs -------------------------
(***************************************************************************)
(* For any number of connects, rejects, outages, broken tracks and workers:*)
(* the state is typed and a service never has two AudioTracks.             *)
(***************************************************************************)
EXTENDS NativeClient, TLAPS

\* The state of a session task.
TaskType == [at : {"none", "dial", "live", "backoff", "dead"},
             found : Events, aborted : BOOLEAN]

\* The variables that are flags, and the ones that count or name something.
FlagsOK ==
    {audio_active, news, reachable, requested, stopping, running, wifi} \subseteq BOOLEAN

NamesOK ==
    /\ state \in ClientState
    /\ session \in Sessions \cup {0}
    /\ attempt \in 0 .. 4
    /\ watcher \in 0 .. MaxSessions
    /\ posts \subseteq 0 .. MaxSessions
    /\ owner \in Workers \cup {0}
    /\ workers \subseteq Workers
    /\ orphans \subseteq workers
    /\ rejects \in 0 .. MaxRejects
    /\ outages \in 0 .. MaxOutages
    /\ breaks \in 0 .. MaxBreaks

-----------------------------------------------------------------------------
(* Typing, by the parts of the state.                                       *)

\* Typing is the conjunction of its parts.
LEMMA TypeParts == TypeOK <=> FlagsOK /\ NamesOK /\ task \in [Sessions -> TaskType]
BY Zenon DEF TypeOK, FlagsOK, NamesOK, TaskType

\* The service has not started, and no task exists.
LEMMA InitTyped == Init => TypeOK
<1> SUFFICES ASSUME Init PROVE TypeOK
  OBVIOUS
<1>1. task \in [Sessions -> TaskType]
  BY DEF Init, TaskType, Events
<1>2. FlagsOK
  BY Zenon DEF Init, FlagsOK
<1>3. NamesOK
  BY BoundsAssumption DEF Init, NamesOK, ClientState
<1>4. QED
  BY <1>1, <1>2, <1>3, TypeParts

\* A poll that found an event records it in its task.
LEMMA FoundTyped ==
    ASSUME TypeOK, NEW s \in Sessions, NEW event \in Events, Found(s, event)
    PROVE  task' \in [Sessions -> TaskType]
BY TypeParts DEF Found, TaskType

\* An aborted task has the same shape.
LEMMA AbortedTyped ==
    ASSUME TypeOK PROVE Aborted(task) \in [Sessions -> TaskType]
BY TypeParts DEF Aborted, TaskType, NamesOK

\* A task is created, found something, goes on after an event or is aborted, and
\* keeps its shape.
LEMMA TaskStep ==
    ASSUME TypeOK, [Next]_vars PROVE task' \in [Sessions -> TaskType]
<1> USE DEF engine
<1>1. task \in [Sessions -> TaskType]
  BY TypeParts
<1>2. CASE Connect
  BY <1>2, AbortedTyped DEF Connect, NativeConnect, TaskType
<1>3. CASE Disconnect
  BY <1>3, AbortedTyped DEF Disconnect, NativeDisconnect
<1>4. CASE Destroy
  BY <1>4, <1>1 DEF Destroy, TaskType, Events
<1>5. ASSUME NEW s \in Sessions, Dial(s) \/ Closed(s) \/ Wake(s) \/ Fails(s)
      PROVE  task' \in [Sessions -> TaskType]
  BY <1>5, FoundTyped DEF Dial, Closed, Wake, Fails, Events
<1>6. ASSUME NEW s \in Sessions, NEW event \in {"packet", "silence"}, Stream(s, event)
      PROVE  task' \in [Sessions -> TaskType]
  BY <1>6, FoundTyped DEF Stream, Events
<1>7. ASSUME NEW s \in Sessions, Publish(s)
      PROVE  task' \in [Sessions -> TaskType]
  <2>1. After(task[s].found) \in {"none", "dial", "live", "backoff", "dead"}
    BY <1>1 DEF After
  <2>2. QED
    BY <1>1, <1>7, <2>1, ZenonT(60) DEF Publish, TaskType, Events
<1>8. CASE UNCHANGED task
  BY <1>8, <1>1
<1>9. QED
  BY <1>2, <1>3, <1>4, <1>5, <1>6, <1>7, <1>8
     DEF Next, Task, vars, Reject, SetReachable, Watch, RunWorkerPost, RunStatus, EndWorker

\* What the service does to its playback leaves names in range.
LEMMA SyncNames ==
    ASSUME TypeOK, NEW seen, NEW active, Sync(seen, active)
    PROVE  /\ owner' \in Workers \cup {0}
           /\ workers' \subseteq Workers
           /\ orphans' \subseteq workers'
<1>1. NamesOK
  BY TypeParts
<1>2. CASE StopPlayback
  BY <1>1, <1>2 DEF StopPlayback, NamesOK
<1>3. CASE StartPlayback
  BY <1>1, <1>3 DEF StartPlayback, NamesOK
<1>4. QED
  BY <1>2, <1>3 DEF Sync

\* ... and flags flags.
LEMMA SyncFlags ==
    ASSUME TypeOK, NEW seen, NEW active, Sync(seen, active)
    PROVE  running' \in BOOLEAN /\ wifi' \in BOOLEAN
<1>1. running \in BOOLEAN /\ wifi \in BOOLEAN
  BY TypeParts, Zenon DEF FlagsOK
<1>2. QED
  BY <1>1, Zenon DEF Sync, StartPlayback, StopPlayback

\* States, sessions, workers, posts and counters stay in range, the attempt
\* included, which stops at 4.
LEMMA NamesStep ==
    ASSUME TypeOK, [Next]_vars PROVE NamesOK'
<1> USE BoundsAssumption DEF engine, service, bounds, playback, shared
<1>1. NamesOK
  BY TypeParts
<1>2. CASE Connect
  BY <1>1, <1>2 DEF Connect, NativeConnect, BeginConnecting, StopPlayback, NamesOK,
                    ClientState, Sessions
<1>3. CASE Disconnect
  BY <1>1, <1>3 DEF Disconnect, NativeDisconnect, SetState, StopPlayback, NamesOK, ClientState
<1>4. CASE Destroy
  BY <1>1, <1>4 DEF Destroy, NamesOK, ClientState
<1>5. ASSUME NEW s \in Sessions, NEW event, Found(s, event),
             UNCHANGED <<rejects, breaks>>, outages' \in {outages, outages + 1},
             outages' # outages => outages < MaxOutages
      PROVE  NamesOK'
  BY <1>1, <1>5 DEF Found, NamesOK
<1>6. ASSUME NEW s \in Sessions, Dial(s) \/ Closed(s) \/ Wake(s) \/ Fails(s)
      PROVE  NamesOK'
  BY <1>6, <1>5 DEF Dial, Closed, Wake, Fails
<1>7. ASSUME NEW s \in Sessions, NEW event \in {"packet", "silence"}, Stream(s, event)
      PROVE  NamesOK'
  BY <1>7, <1>5 DEF Stream
<1>8. ASSUME NEW s \in Sessions, Publish(s)
      PROVE  NamesOK'
  <2>1. state' \in ClientState
    BY <1>1, <1>8 DEF Publish, SetState, SetAudioActive, ClientState, NamesOK
  <2>2. attempt' \in 0 .. 4
    BY <1>1, <1>8 DEF Publish, NextAttempt, NamesOK
  <2>3. QED
    BY <1>1, <1>8, <2>1, <2>2 DEF Publish, NamesOK
<1>9. CASE Reject
  <2>1. Sync("Error", FALSE)
    BY <1>9 DEF Reject
  <2>2. /\ owner' \in Workers \cup {0}
        /\ workers' \subseteq Workers
        /\ orphans' \subseteq workers'
    BY <2>1, SyncNames
  <2>3. rejects' \in 0 .. MaxRejects
    BY <1>1, <1>9 DEF Reject, NamesOK
  <2>4. QED
    BY <1>1, <1>9, <2>2, <2>3 DEF Reject, SetError, NamesOK, ClientState
<1>10. ASSUME NEW up \in BOOLEAN, SetReachable(up)
      PROVE  NamesOK'
  BY <1>1, <1>10 DEF SetReachable, NamesOK
<1>11. CASE Watch
  BY <1>1, <1>11 DEF Watch, NamesOK
<1>12. CASE RunWorkerPost
  BY <1>1, <1>12, SyncNames DEF RunWorkerPost, NamesOK
<1>13. ASSUME NEW w \in 1 .. MaxSessions, RunStatus(w)
       PROVE  NamesOK'
  BY <1>1, <1>13, SyncNames DEF RunStatus, NamesOK
<1>14. ASSUME NEW w \in Workers, EndWorker(w)
       PROVE  NamesOK'
  <2>1. breaks' \in 0 .. MaxBreaks
    BY <1>1, <1>14 DEF EndWorker, NamesOK
  <2>2. posts' \subseteq 0 .. MaxSessions /\ owner' \in Workers \cup {0}
    <3>1. 0 \in 0 .. MaxSessions
      OBVIOUS
    <3>2. posts' \in {posts, posts \cup {0}} /\ owner' \in {owner, 0}
      BY <1>14 DEF EndWorker
    <3>3. QED
      BY <1>1, <3>1, <3>2 DEF NamesOK
  <2>3. workers' \subseteq Workers /\ orphans' \subseteq workers'
    BY <1>1, <1>14 DEF EndWorker, NamesOK
  <2>4. QED
    BY <1>1, <1>14, <2>1, <2>2, <2>3 DEF EndWorker, NamesOK
<1>15. CASE UNCHANGED vars
  BY <1>1, <1>15 DEF vars, NamesOK
<1>16. QED
  BY <1>2, <1>3, <1>4, <1>6, <1>7, <1>8, <1>9, <1>10, <1>11, <1>12, <1>13, <1>14, <1>15
     DEF Next, Task

\* Flags stay Boolean.
LEMMA FlagsStep ==
    ASSUME TypeOK, [Next]_vars PROVE FlagsOK'
<1> USE DEF engine, service, bounds, playback, shared
<1>1. /\ audio_active \in BOOLEAN /\ news \in BOOLEAN /\ reachable \in BOOLEAN
      /\ requested \in BOOLEAN /\ stopping \in BOOLEAN /\ running \in BOOLEAN
      /\ wifi \in BOOLEAN
  BY TypeParts, Zenon DEF FlagsOK
<1>2. CASE Connect \/ Disconnect \/ Destroy
  BY <1>1, <1>2, Zenon DEF Connect, Disconnect, Destroy, BeginConnecting, SetState, StopPlayback, FlagsOK
<1>3. ASSUME NEW s \in Sessions, NEW event, Found(s, event)
      PROVE  FlagsOK'
  BY <1>1, <1>3, Zenon DEF Found, FlagsOK
<1>4. ASSUME NEW s \in Sessions, Dial(s) \/ Closed(s) \/ Wake(s) \/ Fails(s)
      PROVE  FlagsOK'
  BY <1>4, <1>3, Zenon DEF Dial, Closed, Wake, Fails
<1>5. ASSUME NEW s \in Sessions, NEW event \in {"packet", "silence"}, Stream(s, event)
      PROVE  FlagsOK'
  BY <1>5, <1>3 DEF Stream
<1>6. ASSUME NEW s \in Sessions, Publish(s)
      PROVE  FlagsOK'
  <2>1. \/ \E new : SetState(new)
        \/ SetAudioActive(TRUE) \/ SetAudioActive(FALSE)
    BY <1>6 DEF Publish
  <2>2. audio_active' \in BOOLEAN /\ news' \in BOOLEAN
    BY <1>1, <2>1, Zenon DEF SetState, SetAudioActive
  <2>3. QED
    BY <1>1, <1>6, <2>2, Zenon DEF Publish, FlagsOK
<1>7. CASE Reject
  BY <1>1, <1>7, SyncFlags, Zenon DEF Reject, SetError, FlagsOK
<1>8. CASE Watch
  BY <1>1, <1>8, Zenon DEF Watch, FlagsOK
<1>9. CASE RunWorkerPost
  BY <1>1, <1>9, SyncFlags, Zenon DEF RunWorkerPost, FlagsOK
<1>10. ASSUME NEW w \in 1 .. MaxSessions, RunStatus(w)
       PROVE  FlagsOK'
  BY <1>1, <1>10, SyncFlags, Zenon DEF RunStatus, FlagsOK
<1>11. ASSUME NEW w \in Workers, EndWorker(w)
       PROVE  FlagsOK'
  BY <1>1, <1>11, Zenon DEF EndWorker, FlagsOK
<1>12. ASSUME NEW up \in BOOLEAN, SetReachable(up)
      PROVE  FlagsOK'
  BY <1>1, <1>12, Zenon DEF SetReachable, FlagsOK
<1>13. CASE UNCHANGED vars
  BY <1>1, <1>13, Zenon DEF vars, FlagsOK
<1>14. QED
  BY <1>2, <1>4, <1>5, <1>6, <1>7, <1>8, <1>9, <1>10, <1>11, <1>12, <1>13 DEF Next, Task

\* Every variable keeps its type, whatever an aborted task still writes, a stale
\* watcher posts or a lingering worker releases.
THEOREM Typing == Spec => []TypeOK
<1>1. TypeOK /\ [Next]_vars => TypeOK'
  BY TaskStep, NamesStep, FlagsStep, Zenon DEF TypeOK, FlagsOK, NamesOK, TaskType
<1>2. QED
  BY <1>1, InitTyped, PTL DEF Spec

-----------------------------------------------------------------------------
(* One track.                                                               *)

\* A worker that may start finds no other of its service; one that ends leaves
\* its track to nobody.
LEMMA TrackStep ==
    ASSUME TypeOK, OneTrack, [Next]_vars PROVE OneTrack'
<1> USE DEF OneTrack, playback
<1>1. /\ owner \in Workers \cup {0} /\ workers \subseteq Workers /\ orphans \subseteq workers
      /\ 0 \notin Workers
  BY TypeParts, BoundsAssumption DEF NamesOK, Workers
<1>2. ASSUME NEW seen, NEW active, Sync(seen, active)
      PROVE  OneTrack'
  <2>1. CASE StopPlayback
    BY <2>1 DEF StopPlayback
  <2>2. CASE StartPlayback /\ owner = 0
    BY <2>2, <1>1 DEF StartPlayback, MayStart
  <2>3. CASE StartPlayback /\ owner # 0
    BY <2>3, <1>1 DEF StartPlayback, MayStart
  <2>4. QED
    BY <1>2, <2>1, <2>2, <2>3 DEF Sync
<1>3. CASE Connect \/ Disconnect
  BY <1>3 DEF Connect, Disconnect, StopPlayback
<1>4. CASE Destroy
  BY <1>4 DEF Destroy
<1>5. CASE Reject \/ RunWorkerPost
  BY <1>5, <1>2 DEF Reject, RunWorkerPost
<1>6. ASSUME NEW w \in 1 .. MaxSessions, RunStatus(w)
      PROVE  OneTrack'
  BY <1>6, <1>2 DEF RunStatus
<1>7. ASSUME NEW w \in Workers, EndWorker(w)
      PROVE  OneTrack'
  <2>1. CASE owner = w
    BY <1>7, <2>1 DEF EndWorker
  <2>2. CASE owner # w
    BY <1>7, <2>2 DEF EndWorker
  <2>3. QED
    BY <2>1, <2>2
<1>8. CASE UNCHANGED <<owner, workers, orphans>>
  BY <1>8
<1>9. QED
  BY <1>3, <1>4, <1>5, <1>6, <1>7, <1>8
     DEF Next, Task, vars, Dial, Closed, Wake, Publish, Fails, Stream, Found, SetReachable, Watch

\* However often the user reconnects while a worker lingers, a service has one
\* AudioTrack at a time (startPlayback and the worker's finally block).
THEOREM OneTrackHolds == Spec => []OneTrack
<1>1. Init => OneTrack
  BY DEF Init, OneTrack
<1>2. TypeOK /\ OneTrack /\ [Next]_vars => OneTrack'
  BY TrackStep
<1>3. QED
  BY <1>1, <1>2, Typing, PTL DEF Spec
=============================================================================
