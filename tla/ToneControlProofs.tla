------------------------- MODULE ToneControlProofs -------------------------
(***************************************************************************)
(* For any number of requests and events: the three threads of the phone   *)
(* keep the promise of ToneService. Every step is one of seven kinds, by   *)
(* what it does to the request in force and to the answers decided; the    *)
(* inductive invariant says when the track and the worker's chunk may hold *)
(* a tone, and what a worker that was told to stop may still do to its     *)
(* track.                                                                  *)
(***************************************************************************)
EXTENDS ToneControl, TLAPS

-----------------------------------------------------------------------------
(* Typing, by the parts of the state.                                       *)

MainType == [at : {"idle", "start", "stop", "pause", "flush", "ask", "ack"}, seen : Tokens]
WorkType == [at : WorkSteps, request : Tokens, known : Tokens,
             playing : BOOLEAN, chunk : {"none", "pcm", "tone"}, full : BOOLEAN]
TrackType == [plays : BOOLEAN, tone : BOOLEAN]

FlagsOK ==
    {responded, speaker, connected, audio_active, dirty, running, owner} \subseteq BOOLEAN

ControlOK ==
    /\ token \in Tokens
    /\ until \in {"none", "live", "over"}
    /\ loaded \in {"none", "yes", "no"}
    /\ asked \in 0 .. MaxRequests
    /\ events \in 0 .. MaxEvents

ReportsOK ==
    /\ out \in [Threads -> Reports \cup {None}]
    /\ sent \subseteq Reports

ThreadsOK ==
    /\ track \in TrackType
    /\ main \in MainType
    /\ work \in WorkType

\* Typing is the conjunction of its parts.
LEMMA TypeParts == TypeOK <=> FlagsOK /\ ControlOK /\ ReportsOK /\ ThreadsOK
BY Zenon DEF TypeOK, FlagsOK, ControlOK, ReportsOK, ThreadsOK, TrackType, MainType, WorkType

\* The same for the state after a step.
LEMMA TypePartsNext ==
    ASSUME FlagsOK', ControlOK', ReportsOK', ThreadsOK' PROVE TypeOK'
BY Zenon DEF TypeOK, FlagsOK, ControlOK, ReportsOK, ThreadsOK, TrackType, MainType, WorkType

\* No request and no worker are typed like any other.
LEMMA NothingTyped ==
    /\ NoToken \in Tokens
    /\ NoWorker \in WorkType /\ [NoWorker EXCEPT !.at = "top"] \in WorkType
    /\ [NoWorker EXCEPT !.at = "finish"] \in WorkType
<1>1. NoToken \in Tokens
  BY DEF NoToken, Tokens
<1>2. QED
  BY <1>1 DEF NoWorker, WorkType, WorkSteps

\* A silent track is a track.
LEMMA Silence == [plays |-> FALSE, tone |-> FALSE] \in TrackType
BY DEF TrackType

\* No request is in force and no worker runs.
LEMMA InitTyped == Init => TypeOK
<1> SUFFICES ASSUME Init PROVE TypeOK
  OBVIOUS
<1>1. FlagsOK
  BY Zenon DEF Init, FlagsOK
<1>2. ControlOK
  BY BoundsAssumption DEF Init, ControlOK, Tokens, NoToken, Ids
<1>3. ReportsOK
  BY DEF Init, ReportsOK
<1>4. ThreadsOK
  BY DEF Init, ThreadsOK, TrackType, MainType, WorkType, NoWorker, NoToken, Tokens, WorkSteps
<1>5. QED
  BY <1>1, <1>2, <1>3, <1>4, TypeParts

\* Flags stay flags.
LEMMA FlagsStep == ASSUME TypeOK, [Next]_vars PROVE FlagsOK'
<1>1. FlagsOK
  BY TypeParts
<1> USE <1>1 DEF FlagsOK
<1>2. ASSUME NEW id \in Ids, NEW on \in BOOLEAN, HearRequest(id, on) PROVE FlagsOK'
  <2>1. responded' \in BOOLEAN
    BY <1>2, Zenon DEF HearRequest, RequestTone
  <2>2. QED
    BY <1>2, <2>1, Zenon DEF HearRequest
<1>3. CASE HearBroadcast
  BY <1>3, Zenon DEF HearBroadcast, RequestTone
<1>4. CASE HearCancel
  BY <1>4, Zenon DEF HearCancel, SetToneOff
<1>5. ASSUME NEW up \in BOOLEAN, SetConnected(up) PROVE FlagsOK'
  BY <1>5, Zenon DEF SetConnected, control
<1>6. ASSUME NEW active \in BOOLEAN, SetAudioActive(active) PROVE FlagsOK'
  BY <1>6, Zenon DEF SetAudioActive, control
<1>7. ASSUME NEW t \in Threads, Expire(t) \/ PushReport(t) PROVE FlagsOK'
  BY <1>7, Zenon DEF Expire, PushReport, ExpireTone, control, service
<1>8. ASSUME NEW ok \in BOOLEAN, ReportStatus(ok) PROVE FlagsOK'
  BY <1>8, Zenon DEF ReportStatus, SetToneOff, service
<1>9. CASE StopTestTone
  BY <1>9, Zenon DEF StopTestTone, SetToneOff
<1>10. ASSUME NEW t, NEW request, NEW playing, ReportPlayback(t, request, playing)
       PROVE  responded' \in BOOLEAN
  BY <1>10, Zenon DEF ReportPlayback
<1>11. CASE AckStop \/ ReportStopped \/ ReportQuiet \/ ReportPlaying
  <2>1. responded' \in BOOLEAN
    BY <1>10, <1>11, Zenon DEF AckStop, ReportStopped, ReportQuiet, ReportPlaying
  <2>2. QED
    BY <1>11, <2>1, Zenon DEF AckStop, ReportStopped, ReportQuiet, ReportPlaying, service
<1>12. CASE LoadSpeaker \/ Clock \/ Sync \/ StartPlayback \/ StopPlayback \/ PauseTrack
              \/ FlushTrack \/ AskRequest \/ UNCHANGED vars
  BY <1>12, Zenon DEF LoadSpeaker, Clock, Sync, StartPlayback, StopPlayback, PauseTrack, FlushTrack,
     AskRequest, vars, control, service
<1>13. CASE ReadRequest \/ ChangeRequest \/ ReadPcm \/ CheckRequest \/ PlayNothing
              \/ BeforeWrite \/ WriteTrack \/ PlayTrack \/ ReleaseTrack
  BY <1>13, Zenon DEF ReadRequest, ChangeRequest, ReadPcm, CheckRequest, PlayNothing,
     BeforeWrite, WriteTrack, PlayTrack, ReleaseTrack, control, service
<1>14. QED
  BY <1>2, <1>3, <1>4, <1>5, <1>6, <1>7, <1>8, <1>9, <1>11, <1>12, <1>13, Zenon
     DEF Next, Main, Worker

\* What a decision queues is a report.
LEMMA DecideTyped ==
    ASSUME ReportsOK, NEW t \in Threads, NEW id \in Ids, NEW answer \in Answers,
           Decide(t, id, answer)
    PROVE  out' \in [Threads -> Reports \cup {None}]
<1>1. [id |-> id, answer |-> answer] \in Reports
  BY DEF Reports
<1>2. QED
  BY <1>1 DEF Decide, ReportsOK

\* A request with id 0 queues nothing.
LEMMA FailedTyped ==
    ASSUME ReportsOK, NEW t \in Threads, NEW id \in Ids \cup {0}, DecideFailed(t, id)
    PROVE  out' \in [Threads -> Reports \cup {None}]
<1>1. CASE id = 0
  BY <1>1 DEF DecideFailed, ReportsOK
<1>2. CASE id # 0
  BY <1>2, DecideTyped DEF DecideFailed, Answers
<1>3. QED
  BY <1>1, <1>2

\* A call of DeviceControl leaves a token, a deadline and reports.
ToneTyped ==
    /\ token \in Tokens /\ until \in {"none", "live", "over"}
    /\ out \in [Threads -> Reports \cup {None}]

\* request_tone for an id the server may use.
LEMMA RequestTyped ==
    ASSUME TypeOK, NEW t \in Threads, NEW id \in Ids \cup {0}, NEW on \in BOOLEAN,
           RequestTone(t, id, on)
    PROVE  ToneTyped'
<1>1. token' \in Tokens /\ until' \in {"none", "live", "over"}
  BY DEF RequestTone, Tokens
<1>2. out' \in [Threads -> Reports \cup {None}]
  BY TypeParts, FailedTyped DEF RequestTone, ReportsOK
<1>3. QED
  BY <1>1, <1>2 DEF ToneTyped

\* set_tone(false) and expire_tone.
LEMMA OffTyped ==
    ASSUME TypeOK, NEW t \in Threads, SetToneOff(t) \/ ExpireTone(t)
    PROVE  ToneTyped'
<1>1. token \in Tokens
  BY TypeParts DEF ControlOK
<1>2. token' \in Tokens /\ until' \in {"none", "live", "over"}
  BY <1>1 DEF SetToneOff, ExpireTone, Tokens
<1>3. token.id \in Ids \cup {0}
  BY <1>1 DEF Tokens
<1>4. out' \in [Threads -> Reports \cup {None}]
  BY <1>3, TypeParts, FailedTyped DEF SetToneOff, ExpireTone, ReportsOK
<1>5. QED
  BY <1>2, <1>4 DEF ToneTyped

\* report_playback
LEMMA PlaybackTyped ==
    ASSUME TypeOK, NEW t \in Threads, NEW request \in Tokens, NEW playing \in BOOLEAN,
           ReportPlayback(t, request, playing)
    PROVE  ToneTyped'
<1>1. token \in Tokens /\ until \in {"none", "live", "over"} /\ ReportsOK
  BY TypeParts DEF ControlOK
<1>2. token' \in Tokens
  BY <1>1 DEF ReportPlayback, Tokens
<1>3. until' \in {"none", "live", "over"}
  BY <1>1 DEF ReportPlayback
<1>4. request.id \in Ids \cup {0}
  BY DEF Tokens
<1>5. out' \in [Threads -> Reports \cup {None}]
  BY <1>1, <1>4, DecideTyped DEF ReportPlayback, Answerable, Answers, ReportsOK
<1>6. QED
  BY <1>2, <1>3, <1>5 DEF ToneTyped

\* The token, the deadline and the reports in hand stay typed.
LEMMA ToneStep == ASSUME TypeOK, [Next]_vars PROVE ToneTyped'
<1>1. ToneTyped /\ asked \in 0 .. MaxRequests /\ sent \subseteq Reports
  BY TypeParts DEF ToneTyped, ControlOK, ReportsOK
<1>2. main.seen \in Tokens /\ work.request \in Tokens
  BY TypeParts DEF ThreadsOK, MainType, WorkType
<1>3. ASSUME NEW id \in Ids, NEW on \in BOOLEAN, HearRequest(id, on) PROVE ToneTyped'
  BY <1>3, RequestTyped DEF HearRequest, Threads
<1>4. CASE HearBroadcast
  BY <1>4, RequestTyped DEF HearBroadcast, Threads
<1>5. CASE HearCancel \/ StopTestTone
  BY <1>5, OffTyped DEF HearCancel, StopTestTone, Threads
<1>6. ASSUME NEW up \in BOOLEAN, SetConnected(up) PROVE ToneTyped'
  BY <1>1, <1>6, NothingTyped DEF SetConnected, control, ToneTyped
<1>7. ASSUME NEW active \in BOOLEAN, SetAudioActive(active) PROVE ToneTyped'
  BY <1>1, <1>7 DEF SetAudioActive, control, ToneTyped
<1>8. ASSUME NEW t \in Threads, Expire(t) PROVE ToneTyped'
  BY <1>8, OffTyped DEF Expire
<1>9. ASSUME NEW t \in Threads, PushReport(t) PROVE ToneTyped'
  BY <1>1, <1>9 DEF PushReport, control, ToneTyped
<1>10. ASSUME NEW ok \in BOOLEAN, ReportStatus(ok) PROVE ToneTyped'
  <2>1. CASE ok
    BY <1>1, <1>10, <2>1 DEF ReportStatus, ToneTyped
  <2>2. CASE ~ok
    BY <1>10, <2>2, OffTyped DEF ReportStatus, Threads
  <2>3. QED
    BY <2>1, <2>2
<1>11. CASE AckStop \/ ReportStopped \/ ReportQuiet
  BY <1>2, <1>11, PlaybackTyped DEF AckStop, ReportStopped, ReportQuiet, Threads
<1>12. CASE ReportPlaying
  <2>1. CASE work.playing /\ work.full
    BY <1>2, <1>12, <2>1, PlaybackTyped DEF ReportPlaying, Threads
  <2>2. CASE ~(work.playing /\ work.full)
    BY <1>1, <1>12, <2>2 DEF ReportPlaying, ToneTyped
  <2>3. QED
    BY <2>1, <2>2
<1>13. CASE Clock
  BY <1>1, <1>13 DEF Clock, ToneTyped
<1>14. CASE UNCHANGED <<token, until, out>>
  BY <1>1, <1>14 DEF ToneTyped
<1>15. CASE LoadSpeaker \/ Sync \/ StartPlayback \/ StopPlayback \/ PauseTrack
              \/ FlushTrack \/ AskRequest \/ UNCHANGED vars
  BY <1>14, <1>15, Zenon DEF LoadSpeaker, Sync, StartPlayback, StopPlayback, PauseTrack, FlushTrack,
     AskRequest, vars, control
<1>16. CASE ReadRequest \/ ChangeRequest \/ ReadPcm \/ CheckRequest \/ PlayNothing
              \/ BeforeWrite \/ WriteTrack \/ PlayTrack \/ ReleaseTrack
  BY <1>14, <1>16, Zenon DEF ReadRequest, ChangeRequest, ReadPcm, CheckRequest,
     PlayNothing, BeforeWrite, WriteTrack, PlayTrack, ReleaseTrack, control
<1>17. QED
  BY <1>3, <1>4, <1>5, <1>6, <1>7, <1>8, <1>9, <1>10, <1>11, <1>12, <1>13, <1>15,
     <1>16, Zenon DEF Next, Main, Worker

\* The counters stay within their bounds and only reports are sent.
LEMMA CountersStep ==
    ASSUME TypeOK, [Next]_vars
    PROVE  /\ asked' \in 0 .. MaxRequests /\ events' \in 0 .. MaxEvents
           /\ sent' \subseteq Reports /\ loaded' \in {"none", "yes", "no"}
<1>1. /\ asked \in 0 .. MaxRequests /\ events \in 0 .. MaxEvents /\ sent \subseteq Reports
      /\ out \in [Threads -> Reports \cup {None}] /\ loaded \in {"none", "yes", "no"}
  BY TypeParts DEF ControlOK, ReportsOK
<1>2. asked' \in 0 .. MaxRequests
  <2>1. CASE \E id \in Ids, on \in BOOLEAN : HearRequest(id, on)
    BY <1>1, <2>1, BoundsAssumption DEF HearRequest, Ids
  <2>2. CASE UNCHANGED asked
    BY <1>1, <2>2
  <2>3. QED
    BY <2>1, <2>2, Zenon DEF Next, Main, Worker, LoadSpeaker, HearBroadcast,
       HearCancel, SetConnected, SetAudioActive, Clock, Expire, PushReport,
       ReportStatus, StopTestTone, Sync,
       StartPlayback, StopPlayback, PauseTrack, FlushTrack, AskRequest, AckStop,
       ReadRequest, ChangeRequest, ReportStopped, ReadPcm, CheckRequest, PlayNothing,
       ReportQuiet, BeforeWrite, WriteTrack, PlayTrack, ReportPlaying, ReleaseTrack, vars
<1>3. events' \in 0 .. MaxEvents
  <2>1. CASE events < MaxEvents /\ events' = events + 1
    BY <1>1, <2>1, BoundsAssumption
  <2>2. CASE UNCHANGED events
    BY <1>1, <2>2
  <2>3. QED
    BY <2>1, <2>2, Zenon DEF Next, Main, Worker, LoadSpeaker, HearRequest, HearBroadcast,
       HearCancel, SetConnected, SetAudioActive, Clock, Expire, PushReport, ReportStatus,
       StopTestTone, Sync, StartPlayback, StopPlayback, PauseTrack, FlushTrack,
       AskRequest, AckStop, ReadRequest, ChangeRequest, ReportStopped, ReadPcm,
       CheckRequest, PlayNothing, ReportQuiet, BeforeWrite, WriteTrack, PlayTrack,
       ReportPlaying, ReleaseTrack, vars
<1>4. sent' \subseteq Reports
  <2>1. ASSUME NEW t \in Threads, PushReport(t) PROVE sent' \subseteq Reports
    BY <1>1, <2>1 DEF PushReport, Free
  <2>2. CASE UNCHANGED sent \/ sent' = {}
    BY <1>1, <2>2
  <2>3. QED
    BY <2>1, <2>2, Zenon DEF Next, Main, Worker, LoadSpeaker, HearRequest, HearBroadcast,
       HearCancel, SetConnected, SetAudioActive, Clock, Expire, ReportStatus, StopTestTone, Sync,
       StartPlayback, StopPlayback, PauseTrack, FlushTrack, AskRequest, AckStop,
       ReadRequest, ChangeRequest, ReportStopped, ReadPcm, CheckRequest, PlayNothing,
       ReportQuiet, BeforeWrite, WriteTrack, PlayTrack, ReportPlaying, ReleaseTrack, vars
<1>5. loaded' \in {"none", "yes", "no"}
  BY <1>1, Zenon DEF Next, Main, Worker, LoadSpeaker, HearRequest, HearBroadcast, HearCancel,
     SetConnected, SetAudioActive, Clock, Expire, PushReport, ReportStatus,
     StopTestTone, Sync, StartPlayback, StopPlayback, PauseTrack, FlushTrack,
     AskRequest, AckStop, ReadRequest, ChangeRequest, ReportStopped, ReadPcm,
     CheckRequest, PlayNothing, ReportQuiet, BeforeWrite, WriteTrack, PlayTrack,
     ReportPlaying, ReleaseTrack, vars
<1>6. QED
  BY <1>2, <1>3, <1>4, <1>5

\* The track and the two threads around it keep their shape.
LEMMA ThreadsStep == ASSUME TypeOK, [Next]_vars PROVE ThreadsOK'
<1>1. ThreadsOK /\ token \in Tokens
  BY TypeParts DEF ControlOK
<1> USE <1>1 DEF ThreadsOK
<1>2. CASE UNCHANGED <<track, main, work>>
  BY <1>2
<1>3. CASE Sync \/ StopPlayback
  BY <1>3 DEF Sync, StopPlayback, MainGoes, MainType
<1>4. CASE StartPlayback
  <2>1. main' \in MainType
    BY <1>4 DEF StartPlayback, MainGoes, MainType
  <2>2. track' \in TrackType
    BY <1>4, Silence DEF StartPlayback
  <2>3. work' \in WorkType
    BY <1>4, NothingTyped DEF StartPlayback
  <2>4. QED
    BY <2>1, <2>2, <2>3
<1>5. CASE PauseTrack \/ FlushTrack
  <2>1. main' \in MainType
    BY <1>5 DEF PauseTrack, FlushTrack, MainGoes, MainType
  <2>2. track' \in TrackType
    BY <1>5 DEF PauseTrack, FlushTrack, TrackType
  <2>3. QED
    BY <1>5, <2>1, <2>2 DEF PauseTrack, FlushTrack
<1>6. CASE AskRequest \/ AckStop
  <2>1. NoToken \in Tokens
    BY NothingTyped
  <2>2. CASE AskRequest
    BY <2>2 DEF AskRequest, MainType
  <2>3. CASE AckStop
    BY <2>1, <2>3 DEF AckStop, MainType
  <2>4. QED
    BY <1>6, <2>2, <2>3
<1>7. CASE ReadRequest \/ CheckRequest \/ BeforeWrite
  <2>1. work' \in WorkType
    <3>1. CASE ReadRequest
      BY <3>1, NothingTyped DEF ReadRequest, WorkType, WorkSteps
    <3>2. CASE CheckRequest \/ BeforeWrite
      BY <3>2 DEF CheckRequest, BeforeWrite, WorkGoes, NextRound, WorkType, WorkSteps
    <3>3. QED
      BY <1>7, <3>1, <3>2
  <2>2. QED
    BY <1>7, <2>1 DEF ReadRequest, CheckRequest, BeforeWrite
<1>8. CASE ChangeRequest \/ PlayNothing \/ ReleaseTrack
  <2>1. track' \in TrackType
    BY <1>8, Silence DEF ChangeRequest, PlayNothing, ReleaseTrack, Dropped
  <2>2. CASE ChangeRequest \/ PlayNothing
    BY <2>1, <2>2 DEF ChangeRequest, PlayNothing, WorkType, WorkSteps
  <2>3. CASE ReleaseTrack
    BY <2>1, <2>3, NothingTyped DEF ReleaseTrack
  <2>4. QED
    BY <1>8, <2>2, <2>3
<1>9. CASE ReportStopped \/ ReportQuiet \/ ReportPlaying
  BY <1>9 DEF ReportStopped, ReportQuiet, ReportPlaying, WorkGoes, NextRound, WorkType,
     WorkSteps, service
<1>10. CASE ReadPcm
  BY <1>10, ZenonT(60) DEF ReadPcm, WorkType, WorkSteps
<1>11. CASE WriteTrack
  <2>1. track' \in TrackType
    BY <1>11 DEF WriteTrack, TrackType
  <2>2. work' \in WorkType
    BY <1>11, NothingTyped DEF WriteTrack, WorkGoes, WorkType, WorkSteps
  <2>3. QED
    BY <1>11, <2>1, <2>2 DEF WriteTrack
<1>12. CASE PlayTrack
  BY <1>12 DEF PlayTrack, TrackType, WorkType, WorkSteps
<1>13. QED
  BY <1>2, <1>3, <1>4, <1>5, <1>6, <1>7, <1>8, <1>9, <1>10, <1>11, <1>12, Zenon
     DEF Next, Main, Worker, LoadSpeaker, HearRequest, HearBroadcast, HearCancel,
     SetConnected, SetAudioActive, Clock, Expire, PushReport, ReportStatus, StopTestTone, vars

\* Every step of the three threads leaves a typed state: DeviceControl's token and
\* reports, AudioService's flags and the locals of AudioTrackPlayback.run.
THEOREM Typing == Spec => []TypeOK
<1>1. TypeOK /\ [Next]_vars => TypeOK'
  BY TypePartsNext, FlagsStep, ToneStep, CountersStep, ThreadsStep
     DEF ToneTyped, ControlOK, ReportsOK
<1>2. QED
  BY InitTyped, <1>1, PTL DEF Spec

-----------------------------------------------------------------------------
(* The inductive invariant of the refinement.                               *)

\* The server has not used an id above asked, so nothing was decided for one.
Bounded ==
    /\ token.id <= asked /\ work.request.id <= asked /\ work.known.id <= asked
    /\ \A i \in Ids : i > asked => Decided(i) = {}

\* A tone in force runs or was refused, and nothing was said to have stopped.
TokenOK ==
    /\ token.id = 0 => ~token.on
    /\ until # "none" => token.on
    /\ token.on /\ until = "none" => responded /\ "failed" \in Decided(token.id)
    /\ token.id # 0 /\ "stopped" \in Decided(token.id) => ~token.on

\* The main thread asks for the token only after it has stopped playback.
MainOK == main.at \in {"pause", "flush", "ask", "ack"} => ~running

\* The worker holds samples only between a read and the end of its writes, and
\* has then taken note of the request it read.
WorkOK ==
    /\ work.at \notin {"check", "write", "put", "play", "after"} => work.chunk = "none"
    /\ work.at \notin {"gone", "top", "change", "finish"} => work.known = work.request

\* A request that was seen off does not come on again.
SeenOff(r) == token.id # 0 /\ r.id = token.id /\ ~r.on => ~token.on

\* The worker plays on, or the main thread has yet to pause and flush its track.
Going == running \/ main.at \in {"pause", "flush"}

\* Neither the worker's chunk nor the track holds a tone that it would play on for
\* a request which wants none.
Silent ==
    /\ SeenOff(work.request) /\ SeenOff(work.known)
    /\ token.id # 0 /\ work.chunk = "tone" /\ work.request = token => token.on
    /\ token.id # 0 /\ work.known = token /\ ~token.on => ~track.tone
    /\ token.id # 0 /\ "stopped" \in Decided(token.id) /\ Going
         => ~track.tone /\ work.chunk # "tone"

\* Only the worker lets the track play, and a worker that was told to stop does so
\* at most once more: after the flush there is nothing in the track it could play,
\* and a write that is under way goes to a track that was paused.
TrackOK ==
    /\ ~owner => work.at = "gone" /\ ~track.plays
    /\ work.at = "play" => ~work.playing
    /\ work.at # "finish" /\ ~work.playing => ~track.plays
    /\ ~running /\ main.at # "pause" /\ work.at = "put" => ~track.plays
    /\ ~Going /\ work.at = "play" => ~track.tone

Inv == TypeOK /\ Bounded /\ TokenOK /\ MainOK /\ WorkOK /\ Silent /\ TrackOK

-----------------------------------------------------------------------------
(* The kinds of steps, by their effect on the request and its answers.      *)

Same == \A i \in Ids : Decided(i)' = Decided(i)
Adds(id, answer) ==
    \A i \in Ids : Decided(i)' = IF i = id THEN Decided(i) \cup {answer} ELSE Decided(i)

\* No thread that goes on holds tone samples.
SilentNow == Going => ~track.tone /\ work.chunk # "tone"

Quiet ==
    /\ UNCHANGED <<token, responded, asked>> /\ Same
    /\ until' = until \/ (until = "live" /\ until' = "over")
Fresh ==
    /\ asked' > asked /\ token'.id = asked' /\ token'.id \in Ids
    /\ \/ ~responded' /\ Same /\ (until' # "none" <=> token'.on)
       \/ responded' /\ token'.on /\ until' = "none" /\ Adds(token'.id, "failed")
Broadcast == token' = NoToken /\ until' = "none" /\ responded' /\ Same /\ asked' = asked
GivesUp ==
    /\ token.on /\ token' = [token EXCEPT !.on = FALSE] /\ until' = "none" /\ responded'
    /\ Adds(token.id, "failed") /\ asked' = asked
AnswersOnce(on, answer) ==
    /\ token.id # 0 /\ token.on = on /\ ~responded /\ responded'
    /\ UNCHANGED <<token, until, asked>> /\ Adds(token.id, answer)
Plays == AnswersOnce(TRUE, "playing") /\ until = "live"
Stops == AnswersOnce(FALSE, "stopped") /\ SilentNow
Forgets ==
    /\ token' = NoToken /\ until' = "none" /\ ~responded' /\ asked' = asked
    /\ \A i \in Ids : Decided(i)' \subseteq Decided(i)

\* What a call of DeviceControl decides is added to the answers of its request.
LEMMA DecideEffect ==
    ASSUME TypeOK, NEW t \in Threads, NEW id \in Ids, NEW answer \in Answers, Free(t),
           Decide(t, id, answer), UNCHANGED sent
    PROVE  Adds(id, answer)
<1> DEFINE new == [id |-> id, answer |-> answer]
<1>1. out \in [Threads -> Reports \cup {None}]
  BY TypeParts DEF ReportsOK
<1>3. out' = [out EXCEPT ![t] = new]
  BY DEF Decide
<1>4. \A r : r # None => (r \in Range(out') <=> r = new \/ r \in Range(out))
  <2>1. \A x \in Threads : out'[x] = IF x = t THEN new ELSE out[x]
    BY <1>1, <1>3
  <2>2. DOMAIN out' = Threads /\ DOMAIN out = Threads
    BY <1>1, <1>3
  <2>3. QED
    BY <2>1, <2>2 DEF Range, Free
<1>5. ASSUME NEW i \in Ids, NEW a
      PROVE  a \in Decided(i)' <=> a \in Decided(i) \/ (i = id /\ a = answer)
  <2>1. None.id = 0 /\ new.id = id /\ new.answer = answer
    BY DEF None
  <2>2. i # 0
    BY DEF Ids
  <2>3. a \in Decided(i) <=> \E r : r \in sent \cup Range(out) /\ r.id = i /\ r.answer = a
    BY DEF Decided
  <2>4. a \in Decided(i)' <=> \E r : r \in sent' \cup Range(out') /\ r.id = i /\ r.answer = a
    BY DEF Decided
  <2>5. \A r : r.id = i => (r \in sent' \cup Range(out')
                              <=> r = new \/ r \in sent \cup Range(out))
    BY <1>4, <2>1, <2>2
  <2> HIDE DEF new
  <2>6. QED
    BY <2>1, <2>3, <2>4, <2>5
<1>6. QED
  BY <1>5 DEF Adds

\* A failure decided for a request that somebody waits for.
LEMMA FailedEffect ==
    ASSUME TypeOK, NEW t \in Threads, NEW id \in Ids, Free(t), DecideFailed(t, id),
           UNCHANGED sent
    PROVE  Adds(id, "failed")
<1>1. id # 0 /\ "failed" \in Answers
  BY DEF Ids, Answers
<1>2. QED
  BY <1>1, DecideEffect DEF DecideFailed

\* Queueing a report changes nothing that was decided.
LEMMA PushEffect ==
    ASSUME TypeOK, NEW t \in Threads, PushReport(t) PROVE Same
<1>1. out \in [Threads -> Reports \cup {None}]
  BY TypeParts DEF ReportsOK
<1>2. out' = [out EXCEPT ![t] = None] /\ sent' = sent \cup {out[t]}
  BY DEF PushReport
<1>3. \A r : r # None => (r \in sent' \cup Range(out') <=> r \in sent \cup Range(out))
  <2>1. \A x \in Threads : out'[x] = IF x = t THEN None ELSE out[x]
    BY <1>1, <1>2
  <2>2. DOMAIN out' = Threads /\ DOMAIN out = Threads
    BY <1>1, <1>2
  <2>3. QED
    BY <1>2, <2>1, <2>2 DEF Range
<1>4. ASSUME NEW i \in Ids, NEW a PROVE a \in Decided(i)' <=> a \in Decided(i)
  <2>1. None.id = 0 /\ i # 0
    BY DEF None, Ids
  <2>2. a \in Decided(i) <=> \E r : r \in sent \cup Range(out) /\ r.id = i /\ r.answer = a
    BY DEF Decided
  <2>3. a \in Decided(i)' <=> \E r : r \in sent' \cup Range(out') /\ r.id = i /\ r.answer = a
    BY DEF Decided
  <2>4. QED
    BY <1>3, <2>1, <2>2, <2>3
<1>5. QED
  BY <1>4 DEF Same

\* A step that queues and sends nothing decides nothing.
LEMMA SameEffect == ASSUME UNCHANGED <<out, sent>> PROVE Same
BY DEF Same, Decided

\* A request in force that wants no tone is left alone by another stop.
LEMMA StillOff ==
    ASSUME token \in Tokens, ~token.on PROVE [token EXCEPT !.on = FALSE] = token
BY DEF Tokens

\* set_tone(false) gives up a tone that was asked for and does nothing otherwise.
LEMMA OffKind ==
    ASSUME Inv, NEW t \in Threads, Free(t), SetToneOff(t), UNCHANGED <<sent, asked>>
    PROVE  Quiet \/ GivesUp
<1>1. TypeOK /\ TokenOK /\ token \in Tokens /\ responded \in BOOLEAN
  BY TypeParts DEF Inv, ControlOK, FlagsOK
<1>2. CASE ~token.on
  <2>1. until = "none"
    BY <1>1, <1>2 DEF TokenOK
  <2>2. Same
    BY <2>1, SameEffect DEF SetToneOff
  <2>3. token' = token /\ until' = until
    BY <1>1, <1>2, <2>1, StillOff DEF SetToneOff
  <2>4. responded' = responded
    BY <1>1, <2>1 DEF SetToneOff
  <2>5. QED
    BY <2>2, <2>3, <2>4 DEF Quiet
<1>3. CASE token.on
  <2>1. token.id \in Ids
    BY <1>1, <1>3 DEF TokenOK, Tokens
  <2>2. Adds(token.id, "failed") /\ responded'
    <3>1. CASE until # "none"
      BY <1>1, <2>1, <3>1, FailedEffect DEF SetToneOff
    <3>2. CASE until = "none"
      <4>1. "failed" \in Decided(token.id) /\ responded
        BY <1>1, <1>3, <3>2 DEF TokenOK
      <4>2. Same
        BY <3>2, SameEffect DEF SetToneOff
      <4>3. QED
        BY <4>1, <4>2, <3>2 DEF Same, Adds, SetToneOff
    <3>3. QED
      BY <3>1, <3>2
  <2>3. QED
    BY <1>3, <2>2 DEF GivesUp, SetToneOff
<1>4. QED
  BY <1>2, <1>3

\* expire_tone gives up the tone.
LEMMA ExpireKind ==
    ASSUME Inv, NEW t \in Threads, Free(t), ExpireTone(t), UNCHANGED <<sent, asked>>
    PROVE  GivesUp
<1>1. TypeOK /\ TokenOK /\ token \in Tokens
  BY TypeParts DEF Inv, ControlOK
<1>2. token.on /\ token.id \in Ids
  BY <1>1 DEF TokenOK, Tokens, ExpireTone
<1>3. Adds(token.id, "failed")
  BY <1>1, <1>2, FailedEffect DEF ExpireTone
<1>4. QED
  BY <1>2, <1>3 DEF GivesUp, ExpireTone

\* report_playback answers once, as the request asked, or gives the tone up.
LEMMA PlaybackKind ==
    ASSUME Inv, NEW t \in Threads, NEW request \in Tokens, NEW playing \in BOOLEAN,
           Free(t), ReportPlayback(t, request, playing), UNCHANGED <<sent, asked>>,
           token = request /\ token.id # 0 /\ ~token.on /\ ~playing => SilentNow
    PROVE  Quiet \/ GivesUp \/ Plays \/ Stops
<1>1. TypeOK /\ TokenOK /\ token \in Tokens /\ responded \in BOOLEAN
  BY TypeParts DEF Inv, ControlOK, FlagsOK
<1> DEFINE active == until = "live"
           mine   == request.id # 0 /\ token = request
           starts == request.on /\ playing /\ active /\ ~responded
           stops  == ~request.on /\ ~playing /\ ~responded
           fails  == request.on /\ ~playing /\ ~active /\ (until # "none" \/ ~responded)
<1>2. CASE ~(mine /\ (starts \/ stops \/ fails))
  <2>1. UNCHANGED <<token, until, responded, out>>
    BY <1>2 DEF ReportPlayback, Answerable, StillAsked
  <2>2. QED
    BY <2>1, SameEffect DEF Quiet
<1>3. CASE mine /\ (starts \/ stops \/ fails)
  <2>1. request.id \in Ids /\ request.id = token.id /\ request = token
    BY <1>3 DEF Tokens
  <2>2. /\ responded' = TRUE
        /\ until' = IF starts THEN "live" ELSE IF fails THEN "none" ELSE until
        /\ token' = IF fails THEN [token EXCEPT !.on = FALSE] ELSE token
        /\ Decide(t, request.id,
                  IF starts THEN "playing" ELSE IF stops THEN "stopped" ELSE "failed")
    BY <1>3 DEF ReportPlayback, Answerable, StillAsked
  <2>3. CASE starts
    <3>1. Adds(token.id, "playing")
      BY <1>1, <2>1, <2>2, <2>3, DecideEffect DEF Answers
    <3>2. QED
      BY <1>1, <1>3, <2>1, <2>2, <2>3, <3>1 DEF Plays, AnswersOnce, Tokens
  <2>4. CASE stops
    <3>1. Adds(token.id, "stopped")
      BY <1>1, <2>1, <2>2, <2>4, DecideEffect DEF Answers
    <3>2. QED
      BY <1>1, <1>3, <2>1, <2>2, <2>4, <3>1 DEF Stops, AnswersOnce, Tokens
  <2>5. CASE fails
    <3>1. Adds(token.id, "failed")
      BY <1>1, <2>1, <2>2, <2>5, DecideEffect DEF Answers
    <3>2. QED
      BY <2>1, <2>2, <2>5, <3>1 DEF GivesUp
  <2>6. QED
    BY <1>3, <2>3, <2>4, <2>5
<1>4. QED
  BY <1>2, <1>3

\* A request with a new id.
LEMMA RequestKind ==
    ASSUME Inv, NEW id \in Ids, NEW on \in BOOLEAN, HearRequest(id, on) PROVE Fresh
<1>1. TypeOK /\ asked \in Nat /\ id # 0
  BY BoundsAssumption, TypeParts DEF Inv, ControlOK, Ids
<1>2. asked' = id /\ id > asked
  BY DEF HearRequest
<1>3. RequestTone("net", id, on) /\ Free("net") /\ UNCHANGED sent /\ "net" \in Threads
  BY DEF HearRequest, Threads
<1>4. token' = [id |-> id, on |-> on]
  BY <1>3 DEF RequestTone
<1>5. CASE ~on \/ loaded = "yes"
  <2>1. Same
    BY <1>3, <1>5, SameEffect DEF RequestTone
  <2>2. ~responded' /\ (until' # "none" <=> on)
    BY <1>1, <1>3, <1>4, <1>5 DEF RequestTone
  <2>3. QED
    BY <1>2, <1>4, <2>1, <2>2 DEF Fresh
<1>6. CASE ~(~on \/ loaded = "yes")
  <2>1. Adds(id, "failed")
    BY <1>1, <1>3, <1>6, FailedEffect DEF RequestTone
  <2>2. responded' /\ until' = "none" /\ on
    BY <1>3, <1>6 DEF RequestTone
  <2>3. QED
    BY <1>2, <1>4, <2>1, <2>2 DEF Fresh
<1>7. QED
  BY <1>5, <1>6

\* A step that touches a request leaves the track and what the worker holds, but
\* for a chunk that it drops.
Still ==
    /\ UNCHANGED <<track, running, owner>> /\ (Going' => Going)
    /\ work'.request = work.request /\ work'.known = work.known
    /\ work'.chunk \in {work.chunk, "none"}

Touches == Still /\ (Fresh \/ Broadcast \/ GivesUp \/ Plays \/ Stops \/ Forgets)

\* The playback thread tells of silence, or of a chunk played, and stays as it is.
LEMMA ReporterKind ==
    ASSUME Inv, ReportStopped \/ ReportQuiet \/ ReportPlaying
    PROVE  Still /\ (Quiet \/ GivesUp \/ Plays \/ Stops)
<1>1. TypeOK /\ WorkOK /\ Silent /\ work \in WorkType /\ "work" \in Threads
  BY TypeParts DEF Inv, ThreadsOK, Threads
<1>2. work.request \in Tokens
  BY <1>1 DEF WorkType
<1>3. UNCHANGED <<sent, asked>> /\ Free("work")
  BY DEF ReportStopped, ReportQuiet, ReportPlaying, WorkAt
<1>4. Still
  <2>1. UNCHANGED <<track, running, owner, main>>
    BY Zenon DEF ReportStopped, ReportQuiet, ReportPlaying, service
  <2>2. /\ work'.request = work.request /\ work'.known = work.known
        /\ work'.chunk \in {work.chunk, "none"}
    BY <1>1 DEF ReportStopped, ReportQuiet, ReportPlaying, WorkGoes, NextRound, WorkType
  <2>3. QED
    BY <2>1, <2>2 DEF Still, Going
<1>5. CASE ReportStopped \/ ReportQuiet
  <2>1. work.known = work.request /\ work.chunk = "none"
    BY <1>1, <1>5 DEF WorkOK, ReportStopped, ReportQuiet, WorkAt
  <2>2. token = work.request /\ token.id # 0 /\ ~token.on => SilentNow
    BY <1>1, <2>1 DEF Silent, SilentNow
  <2>3. ReportPlayback("work", work.request, FALSE)
    BY <1>5 DEF ReportStopped, ReportQuiet
  <2>4. QED
    BY <1>1, <1>2, <1>3, <1>4, <2>2, <2>3, PlaybackKind
<1>6. CASE ReportPlaying
  <2>1. CASE work.playing /\ work.full
    <3>1. ReportPlayback("work", work.request, TRUE)
      BY <1>6, <2>1 DEF ReportPlaying
    <3>2. QED
      BY <1>1, <1>2, <1>3, <1>4, <3>1, PlaybackKind
  <2>2. CASE ~(work.playing /\ work.full)
    <3>1. UNCHANGED <<token, until, responded, out>>
      BY <1>6, <2>2 DEF ReportPlaying
    <3>2. QED
      BY <1>3, <1>4, <3>1, SameEffect DEF Quiet
  <2>3. QED
    BY <2>1, <2>2
<1>7. QED
  BY <1>5, <1>6

\* The main thread tells of silence after it has stopped playback.
LEMMA AckKind == ASSUME Inv, AckStop PROVE Still /\ (Quiet \/ GivesUp \/ Plays \/ Stops)
<1>1. TypeOK /\ MainOK /\ main \in MainType /\ "main" \in Threads
  BY TypeParts DEF Inv, ThreadsOK, Threads
<1>2. main.seen \in Tokens
  BY <1>1 DEF MainType
<1>3. UNCHANGED <<sent, asked>> /\ Free("main") /\ ReportPlayback("main", main.seen, FALSE)
  BY DEF AckStop, MainAt
<1>4. Still
  BY DEF Still, Going, AckStop, service
<1>5. SilentNow
  BY <1>1 DEF MainOK, SilentNow, Going, AckStop, MainAt
<1>6. QED
  BY <1>1, <1>2, <1>3, <1>4, <1>5, PlaybackKind

\* A step of any thread leaves the requests and their answers alone or touches them
\* in one of the six ways.
LEMMA KindStep == ASSUME Inv, [Next]_vars PROVE Quiet \/ Touches
<1>1. TypeOK
  BY DEF Inv
<1>2. ASSUME UNCHANGED <<token, until, responded, out, sent, asked>> PROVE Quiet
  BY <1>2, SameEffect DEF Quiet
<1>3. ASSUME UNCHANGED <<track, running, owner, main, work>> PROVE Still
  BY <1>3 DEF Still, Going
<1>4. ASSUME NEW id \in Ids, NEW on \in BOOLEAN, HearRequest(id, on) PROVE Touches
  <2>1. UNCHANGED <<track, running, owner, main, work>>
    BY <1>4 DEF HearRequest
  <2>2. QED
    BY <1>3, <1>4, <2>1, RequestKind DEF Touches
<1>5. CASE HearBroadcast
  <2>1. UNCHANGED <<track, running, owner, main, work, out, sent, asked>>
    BY <1>5 DEF HearBroadcast, RequestTone
  <2>2. token' = NoToken /\ until' = "none" /\ responded'
    BY <1>5 DEF HearBroadcast, RequestTone, NoToken
  <2>3. QED
    BY <1>3, <2>1, <2>2, SameEffect DEF Touches, Broadcast
<1>6. CASE HearCancel
  <2>1. /\ UNCHANGED <<track, running, owner, main, work, sent, asked>> /\ SetToneOff("net")
        /\ Free("net") /\ "net" \in Threads
    BY <1>6 DEF HearCancel, NetFree, Threads
  <2>2. QED
    BY <1>3, <2>1, OffKind DEF Touches
<1>7. ASSUME NEW up \in BOOLEAN, SetConnected(up) PROVE Quiet \/ Touches
  <2>1. CASE up
    BY <1>2, <1>7, <2>1 DEF SetConnected, control
  <2>2. CASE ~up
    <3>1. /\ UNCHANGED <<track, running, owner, main, work, out, asked>> /\ sent' = {}
          /\ token' = NoToken /\ until' = "none" /\ responded' = FALSE
      BY <1>7, <2>2 DEF SetConnected
    <3>2. \A i \in Ids : Decided(i)' \subseteq Decided(i)
      BY <3>1 DEF Decided
    <3>3. QED
      BY <1>3, <3>1, <3>2 DEF Touches, Forgets
  <2>3. QED
    BY <2>1, <2>2
<1>8. ASSUME NEW active \in BOOLEAN, SetAudioActive(active) PROVE Quiet
  BY <1>2, <1>8, Zenon DEF SetAudioActive, control
<1>9. CASE Clock
  BY <1>9, SameEffect DEF Clock, Quiet
<1>10. ASSUME NEW t \in Threads, Expire(t) PROVE Touches
  <2>1. /\ UNCHANGED <<track, running, owner, main, work, sent, asked>> /\ ExpireTone(t) /\ Free(t)
    BY <1>10 DEF Expire
  <2>2. QED
    BY <1>3, <2>1, ExpireKind DEF Touches
<1>11. ASSUME NEW t \in Threads, PushReport(t) PROVE Quiet
  BY <1>1, <1>11, PushEffect DEF PushReport, control, Quiet
<1>12. ASSUME NEW ok \in BOOLEAN, ReportStatus(ok) PROVE Quiet \/ Touches
  <2>1. CASE ok
    BY <1>2, <1>12, <2>1 DEF ReportStatus
  <2>2. CASE ~ok
    <3>1. /\ UNCHANGED <<track, running, owner, main, work, sent, asked>> /\ SetToneOff("main")
          /\ Free("main") /\ "main" \in Threads
      BY <1>12, <2>2 DEF ReportStatus, MainAt, Threads, service
    <3>2. QED
      BY <1>3, <3>1, OffKind DEF Touches
  <2>3. QED
    BY <2>1, <2>2
<1>13. CASE StopTestTone
  <2>1. /\ UNCHANGED <<track, running, owner, main, work, sent, asked>> /\ SetToneOff("main")
        /\ Free("main") /\ "main" \in Threads
    BY <1>13 DEF StopTestTone, MainAt, Threads
  <2>2. QED
    BY <1>3, <2>1, OffKind DEF Touches
<1>14. CASE AckStop \/ ReportStopped \/ ReportQuiet \/ ReportPlaying
  BY <1>14, AckKind, ReporterKind, Zenon DEF Touches
<1>15. CASE LoadSpeaker \/ Sync \/ StartPlayback \/ StopPlayback \/ PauseTrack
              \/ FlushTrack \/ AskRequest \/ UNCHANGED vars
  BY <1>2, <1>15, Zenon DEF LoadSpeaker, Sync, StartPlayback, StopPlayback, PauseTrack, FlushTrack,
     AskRequest, vars, control
<1>16. CASE ReadRequest \/ ChangeRequest \/ ReadPcm \/ CheckRequest \/ PlayNothing
              \/ BeforeWrite \/ WriteTrack \/ PlayTrack \/ ReleaseTrack
  BY <1>2, <1>16, Zenon DEF ReadRequest, ChangeRequest, ReadPcm, CheckRequest,
     PlayNothing, BeforeWrite, WriteTrack, PlayTrack, ReleaseTrack, control
<1>17. QED
  BY <1>4, <1>5, <1>6, <1>7, <1>8, <1>9, <1>10, <1>11, <1>12, <1>13, <1>14, <1>15,
     <1>16, Zenon DEF Next, Main, Worker

-----------------------------------------------------------------------------
(* The invariant is inductive.                                              *)

\* What every step of the proof below needs of the types.
LEMMA Typed ==
    ASSUME TypeOK
    PROVE  /\ token \in Tokens /\ asked \in Nat
           /\ work.request \in Tokens /\ work.known \in Tokens
           /\ work \in WorkType /\ track \in TrackType /\ main \in MainType
BY BoundsAssumption, TypeParts DEF ControlOK, ThreadsOK, WorkType

\* The fields of a token.
LEMMA TokenFields ==
    ASSUME NEW r \in Tokens
    PROVE  /\ r.id \in Nat /\ r.on \in BOOLEAN
           /\ r.id # 0 => r.id \in Ids
           /\ [r EXCEPT !.on = FALSE].id = r.id /\ [r EXCEPT !.on = FALSE].on = FALSE
BY DEF Tokens, Ids

\* A step of each kind leaves a token in force that runs, was refused or is over.
LEMMA TokenStep == ASSUME Inv, [Next]_vars PROVE TokenOK'
<1>1. TypeOK /\ TokenOK /\ Bounded /\ token \in Tokens /\ asked \in Nat
  BY Typed DEF Inv
<1>2. token.id \in Nat /\ (token.id # 0 => token.id \in Ids)
  BY <1>1, TokenFields
<1>3. CASE Quiet
  <2>1. token.on => token.id \in Ids
    BY <1>1, <1>2 DEF TokenOK
  <2>2. QED
    BY <1>1, <1>2, <1>3, <2>1 DEF Quiet, Same, TokenOK
<1>4. CASE Fresh
  <2>1. PICK j \in Ids : j = token'.id
    BY <1>4 DEF Fresh
  <2>2. Decided(j) = {} /\ j # 0
    BY <1>1, <1>4, <2>1 DEF Fresh, Bounded, Ids
  <2>3. Decided(j)' = Decided(token.id)'
    BY <2>1 DEF Decided
  <2>4. CASE ~responded' /\ Same /\ (until' # "none" <=> token'.on)
    <3>1. Decided(j)' = {}
      BY <2>2, <2>4 DEF Same
    <3>2. QED
      BY <2>1, <2>2, <2>3, <2>4, <3>1 DEF TokenOK
  <2>5. CASE responded' /\ token'.on /\ until' = "none" /\ Adds(token'.id, "failed")
    <3>1. Decided(j)' = {"failed"}
      BY <2>1, <2>2, <2>5 DEF Adds
    <3>2. QED
      BY <2>1, <2>2, <2>3, <2>5, <3>1 DEF TokenOK
  <2>6. QED
    BY <1>4, <2>4, <2>5 DEF Fresh
<1>5. CASE Broadcast \/ Forgets
  BY <1>5 DEF Broadcast, Forgets, TokenOK, NoToken
<1>6. CASE GivesUp
  BY <1>1, <1>6, TokenFields DEF GivesUp, TokenOK
<1>7. CASE Plays
  BY <1>1, <1>2, <1>7 DEF Plays, AnswersOnce, Adds, TokenOK
<1>8. CASE Stops
  BY <1>1, <1>2, <1>8 DEF Stops, AnswersOnce, Adds, TokenOK
<1>9. QED
  BY <1>3, <1>4, <1>5, <1>6, <1>7, <1>8, KindStep DEF Touches

\* Ids above asked stay unused.
LEMMA BoundedStep == ASSUME Inv, [Next]_vars PROVE Bounded'
<1>1. TypeOK /\ Bounded /\ asked \in Nat /\ token \in Tokens /\ work \in WorkType
  BY Typed DEF Inv
<1>2. token.id \in Nat /\ work.request.id \in Nat /\ work.known.id \in Nat
  BY <1>1, Typed, TokenFields
<1>3. asked' \in Nat /\ asked' >= asked
  <2>1. asked' = asked \/ (asked' \in Ids /\ asked' > asked)
    BY KindStep, Zenon DEF Quiet, Touches, Fresh, Broadcast, GivesUp, Plays, Stops,
       Forgets, AnswersOnce
  <2>2. QED
    BY <1>1, <2>1 DEF Ids
<1>4. token'.id <= asked'
  <2>1. CASE token'.id = token.id
    BY <1>1, <1>2, <1>3, <2>1 DEF Bounded
  <2>2. CASE Fresh
    BY <1>3, <2>2 DEF Fresh
  <2>3. CASE GivesUp
    BY <1>1, <2>1, <2>3, TokenFields DEF GivesUp
  <2>4. CASE Broadcast \/ Forgets
    BY <1>3, <2>4 DEF Broadcast, Forgets, NoToken
  <2>5. QED
    BY <2>1, <2>2, <2>3, <2>4, KindStep, Zenon
       DEF Touches, Quiet, Plays, Stops, AnswersOnce
<1>5. \A i \in Ids : i > asked' => Decided(i)' = {}
  <2> SUFFICES ASSUME NEW i \in Ids, i > asked' PROVE Decided(i)' = {}
    OBVIOUS
  <2>1. Decided(i) = {} /\ i # token'.id /\ i # token.id
    BY <1>1, <1>2, <1>3, <1>4 DEF Bounded, Ids
  <2>2. CASE Quiet \/ Broadcast
    BY <2>1, <2>2 DEF Quiet, Broadcast, Same
  <2>3. CASE Fresh
    BY <2>1, <2>3 DEF Fresh, Same, Adds
  <2>4. CASE GivesUp \/ Plays \/ Stops
    BY <2>1, <2>4 DEF GivesUp, Plays, Stops, AnswersOnce, Adds
  <2>5. CASE Forgets
    BY <2>1, <2>5 DEF Forgets
  <2>6. QED
    BY <2>2, <2>3, <2>4, <2>5, KindStep DEF Touches
<1>6. work'.request.id <= asked' /\ work'.known.id <= asked'
  <2>1. CASE work'.request = work.request /\ work'.known = work.known
    BY <1>1, <1>2, <1>3, <2>1 DEF Bounded
  <2>2. CASE work'.request = NoToken /\ work'.known = NoToken
    BY <1>3, <2>2 DEF NoToken
  <2>3. CASE ReadRequest /\ ShouldContinue
    <3>1. asked' = asked /\ work'.request = token /\ work'.known = work.known
      BY <1>1, <2>3 DEF ReadRequest, WorkType
    <3>2. QED
      BY <1>1, <3>1 DEF Bounded
  <2>4. CASE ChangeRequest
    <3>1. asked' = asked /\ work'.request = work.request /\ work'.known = work.request
      BY <1>1, <2>4 DEF ChangeRequest, WorkType
    <3>2. QED
      BY <1>1, <3>1 DEF Bounded
  <2>5. QED
    <3>1. CASE Touches
      BY <2>1, <3>1 DEF Touches, Still
    <3>2. CASE UNCHANGED work
      BY <2>1, <3>2
    <3>3. CASE Worker
      <4>1. CASE ReadRequest /\ ~ShouldContinue
        BY <2>2, <4>1 DEF ReadRequest, NoWorker
      <4>2. CASE ReadPcm \/ CheckRequest \/ PlayNothing \/ BeforeWrite \/ PlayTrack
        BY <1>1, <2>1, <4>2 DEF ReadPcm, CheckRequest, PlayNothing, BeforeWrite, PlayTrack,
           NextRound, WorkGoes, WorkType
      <4>3. CASE WriteTrack
        BY <1>1, <2>1, <2>2, <4>3 DEF WriteTrack, WorkGoes, WorkType, NoWorker
      <4>4. CASE ReleaseTrack
        BY <2>2, <4>4 DEF ReleaseTrack, NoWorker
      <4>5. CASE ReportStopped \/ ReportQuiet \/ ReportPlaying
        BY <2>1, <4>5, ReporterKind DEF Still
      <4>6. QED
        BY <2>3, <2>4, <3>3, <4>1, <4>2, <4>3, <4>4, <4>5, Zenon DEF Worker
    <3>4. CASE StartPlayback
      BY <2>1, <2>2, <3>4 DEF StartPlayback, NoWorker
    <3>5. QED
      BY <3>1, <3>2, <3>3, <3>4, KindStep, Zenon DEF Next, Main, LoadSpeaker,
         HearRequest, HearBroadcast, HearCancel, SetConnected, SetAudioActive, Clock, Expire, PushReport,
         ReportStatus, StopTestTone, Sync, StopPlayback, PauseTrack, FlushTrack,
         AskRequest, AckStop, vars
<1>7. QED
  BY <1>4, <1>5, <1>6 DEF Bounded

\* AudioService stops playback before it pauses, flushes and acknowledges.
LEMMA MainStep == ASSUME Inv, [Next]_vars PROVE MainOK'
<1>1. MainOK /\ main \in MainType
  BY Typed DEF Inv
<1>2. CASE UNCHANGED <<main, running>>
  BY <1>1, <1>2 DEF MainOK
<1>3. CASE Sync \/ StartPlayback \/ AckStop
  <2>1. main'.at \in {"idle", "start", "stop"}
    <3>1. CASE Sync
      BY <1>1, <3>1 DEF Sync, MainGoes, MainType
    <3>2. CASE StartPlayback
      BY <1>1, <3>2 DEF StartPlayback, MainGoes, MainType
    <3>3. CASE AckStop
      BY <3>3 DEF AckStop
    <3>4. QED
      BY <1>3, <3>1, <3>2, <3>3
  <2>2. QED
    BY <2>1 DEF MainOK
<1>4. CASE StopPlayback
  BY <1>4 DEF StopPlayback, MainOK
<1>5. CASE PauseTrack \/ FlushTrack \/ AskRequest
  BY <1>1, <1>5 DEF PauseTrack, FlushTrack, AskRequest, MainAt, MainOK, service
<1>6. CASE ReleaseTrack
  BY <1>6 DEF ReleaseTrack, MainOK
<1>7. QED
  BY <1>2, <1>3, <1>4, <1>5, <1>6, Zenon DEF Next, Main, Worker, LoadSpeaker,
     HearRequest, HearBroadcast, HearCancel, SetConnected, SetAudioActive, Clock, Expire,
     PushReport, ReportStatus, StopTestTone, ReadRequest, ChangeRequest, ReportStopped, ReadPcm,
     CheckRequest, PlayNothing, ReportQuiet, BeforeWrite, WriteTrack, PlayTrack,
     ReportPlaying, vars, service

\* AudioTrackPlayback.run has noted the request it reads samples for.
LEMMA WorkStep == ASSUME Inv, [Next]_vars PROVE WorkOK'
<1>1. WorkOK /\ work \in WorkType
  BY Typed DEF Inv
<1>2. CASE UNCHANGED work
  BY <1>1, <1>2 DEF WorkOK
<1>3. CASE StartPlayback
  BY <1>1, <1>3 DEF StartPlayback, NoWorker, WorkOK
<1>4. CASE ReadRequest
  BY <1>1, <1>4 DEF ReadRequest, WorkAt, NoWorker, WorkOK, WorkType
<1>5. CASE ChangeRequest \/ PlayNothing
  BY <1>1, <1>5 DEF ChangeRequest, PlayNothing, WorkAt, WorkOK, WorkType
<1>6. CASE ReportStopped \/ BeforeWrite
  BY <1>1, <1>6 DEF ReportStopped, BeforeWrite, WorkGoes, WorkAt, WorkOK, WorkType
<1>7. CASE ReadPcm \/ PlayTrack
  BY <1>1, <1>7 DEF ReadPcm, PlayTrack, WorkAt, WorkOK, WorkType
<1>8. CASE CheckRequest \/ ReportQuiet \/ ReportPlaying
  BY <1>1, <1>8 DEF CheckRequest, ReportQuiet, ReportPlaying, WorkGoes, NextRound, WorkAt,
     WorkOK, WorkType
<1>9. CASE WriteTrack
  BY <1>1, <1>9 DEF WriteTrack, WorkGoes, WorkAt, NoWorker, WorkOK, WorkType
<1>10. CASE ReleaseTrack
  BY <1>10 DEF ReleaseTrack, NoWorker, WorkOK
<1>11. QED
  BY <1>2, <1>3, <1>4, <1>5, <1>6, <1>7, <1>8, <1>9, <1>10, Zenon DEF Next, Main, Worker,
     LoadSpeaker, HearRequest, HearBroadcast, HearCancel, SetConnected, SetAudioActive,
     Clock, Expire, PushReport, ReportStatus, StopTestTone, Sync, StopPlayback,
     PauseTrack, FlushTrack, AskRequest, AckStop, vars

\* A step that touches a request leaves no tone that the request does not want.
LEMMA TouchSilent == ASSUME Inv, Touches PROVE Silent'
<1>1. /\ TypeOK /\ Bounded /\ Silent /\ token \in Tokens /\ asked \in Nat
      /\ work.request \in Tokens /\ work.known \in Tokens
  BY Typed DEF Inv
<1>2. /\ token.id \in Nat /\ work.request.id \in Nat /\ work.known.id \in Nat
      /\ token.id # 0 => token.id \in Ids
  BY <1>1, TokenFields
<1>3. Still
  BY DEF Touches
<1>4. CASE Fresh
  <2>1. PICK j \in Ids : j = token'.id
    BY <1>4 DEF Fresh
  <2>2. Decided(j) = {} /\ j # work.request.id /\ j # work.known.id
    BY <1>1, <1>2, <1>4, <2>1 DEF Fresh, Bounded, Ids
  <2>3. Decided(j)' = Decided(token.id)'
    BY <2>1 DEF Decided
  <2>4. "stopped" \notin Decided(j)'
    <3>1. CASE Same
      BY <2>2, <3>1 DEF Same
    <3>2. CASE Adds(token'.id, "failed")
      BY <2>1, <2>2, <3>2 DEF Adds
    <3>3. QED
      BY <1>4, <3>1, <3>2 DEF Fresh
  <2>5. QED
    BY <1>3, <2>1, <2>2, <2>3, <2>4 DEF Still, Silent, SeenOff
<1>5. CASE Broadcast \/ Forgets
  <2>1. token'.id = 0
    BY <1>5 DEF Broadcast, Forgets, NoToken
  <2>2. QED
    BY <2>1 DEF Silent, SeenOff
<1>6. CASE GivesUp
  <2>1. token'.id = token.id /\ ~token'.on /\ token.on
    BY <1>1, <1>6, TokenFields DEF GivesUp
  <2>2. (work.request # token' /\ work.known # token') \/ token.id = 0
    BY <1>1, <2>1 DEF Silent, SeenOff
  <2>3. token.id # 0 => Decided(token.id)' = Decided(token.id) \cup {"failed"}
    <3>1. ASSUME NEW j \in Ids, j = token.id PROVE Decided(j)' = Decided(j) \cup {"failed"}
      BY <1>6, <3>1 DEF GivesUp, Adds
    <3>2. ASSUME NEW j \in Ids, j = token.id PROVE Decided(j)' = Decided(token.id)'
      BY <2>1, <3>2 DEF Decided
    <3>3. QED
      BY <1>2, <3>1, <3>2
  <2>4. QED
    BY <1>1, <1>3, <2>1, <2>2, <2>3 DEF Still, Silent, SeenOff
<1>7. CASE Plays
  <2>1. token' = token /\ token.id \in Ids
    BY <1>2, <1>7 DEF Plays, AnswersOnce
  <2>2. "stopped" \in Decided(token.id)' => "stopped" \in Decided(token.id)
    BY <1>7, <2>1 DEF Plays, AnswersOnce, Adds
  <2>3. QED
    BY <1>1, <1>3, <2>1, <2>2 DEF Still, Silent, SeenOff
<1>8. CASE Stops
  <2>1. token' = token /\ SilentNow
    BY <1>8 DEF Stops, AnswersOnce
  <2>2. QED
    BY <1>1, <1>3, <2>1 DEF Still, Silent, SeenOff, SilentNow
<1>9. QED
  BY <1>4, <1>5, <1>6, <1>7, <1>8 DEF Touches

\* Neither track nor worker comes to hold more of a tone.
NoLouder ==
    /\ work'.request \in {work.request, NoToken} /\ work'.known \in {work.known, NoToken}
    /\ work'.chunk \in {work.chunk, "none"}
    /\ track'.tone => track.tone
    /\ Going' => Going

\* A step that leaves requests alone does not put a tone where none is wanted.
LEMMA QuietSilent == ASSUME Inv, [Next]_vars, Quiet PROVE Silent'
<1>1. /\ TypeOK /\ Bounded /\ TokenOK /\ WorkOK /\ Silent /\ token \in Tokens
      /\ work.request \in Tokens /\ work.known \in Tokens
      /\ work \in WorkType /\ track \in TrackType /\ main \in MainType
  BY Typed DEF Inv
<1>2. token' = token /\ (token.id # 0 => token.id \in Ids)
  BY <1>1, TokenFields DEF Quiet
<1>3. token.id # 0 => Decided(token.id)' = Decided(token.id)
  BY <1>2 DEF Quiet, Same
<1>4. token.id # 0 => ~(NoToken.id = token.id) /\ NoToken # token
  BY DEF NoToken
<1>5. CASE NoLouder
  BY <1>1, <1>2, <1>3, <1>4, <1>5 DEF NoLouder, Silent, SeenOff
<1>6. CASE StartPlayback /\ ~owner
  <2>1. /\ ~track'.tone /\ work'.request = NoToken /\ work'.known = NoToken
        /\ work'.chunk = "none"
    BY <1>6 DEF StartPlayback, NoWorker
  <2>2. QED
    BY <1>2, <1>4, <2>1 DEF Silent, SeenOff, Going
<1>7. CASE ReadRequest /\ ShouldContinue
  <2>1. /\ work'.request = token /\ work'.known = work.known /\ work'.chunk = work.chunk
        /\ work.chunk = "none" /\ UNCHANGED <<track, running, main>>
    BY <1>1, <1>7 DEF ReadRequest, WorkAt, WorkOK, WorkType, service
  <2>2. QED
    BY <1>1, <1>2, <1>3, <2>1 DEF Silent, SeenOff, Going
<1>8. CASE ChangeRequest
  <2>1. /\ work'.request = work.request /\ work'.known = work.request
        /\ work'.chunk = work.chunk /\ ~track'.tone /\ UNCHANGED <<running, main>>
    BY <1>1, <1>8 DEF ChangeRequest, Dropped, WorkType, service
  <2>2. QED
    BY <1>1, <1>2, <1>3, <2>1 DEF Silent, SeenOff, Going
<1>9. CASE ReadPcm
  <2>1. /\ work'.request = work.request /\ work'.known = work.known
        /\ UNCHANGED <<track, running, main>>
        /\ work'.chunk = "tone" => until = "live"
    BY <1>1, <1>9 DEF ReadPcm, WorkType, service
  <2>2. until = "live" => token.on
    BY <1>1 DEF TokenOK
  <2>3. QED
    BY <1>1, <1>2, <1>3, <2>1, <2>2 DEF Silent, SeenOff, Going, TokenOK
<1>10. CASE WriteTrack
  <2>1. /\ work'.request \in {work.request, NoToken}
        /\ work'.known \in {work.known, NoToken}
        /\ work'.chunk \in {work.chunk, "none"} /\ UNCHANGED <<running, main>>
        /\ track'.tone => track.tone \/ work.chunk = "tone"
    BY <1>1, <1>10 DEF WriteTrack, WorkGoes, NoWorker, WorkType, TrackType, service
  <2>2. work.known = work.request
    BY <1>1, <1>10 DEF WriteTrack, WorkAt, WorkOK
  <2>3. QED
    BY <1>1, <1>2, <1>3, <1>4, <2>1, <2>2 DEF Silent, SeenOff, Going
<1>11. CASE UNCHANGED <<track, work>> /\ (Going' => Going)
  BY <1>5, <1>11 DEF NoLouder
<1>12. CASE PauseTrack \/ FlushTrack \/ StopPlayback
  <2>1. Going' => Going
    <3>1. CASE PauseTrack \/ FlushTrack
      BY <3>1 DEF PauseTrack, FlushTrack, MainAt, Going, service
    <3>2. CASE StopPlayback /\ running
      BY <3>2 DEF Going
    <3>3. CASE StopPlayback /\ ~running
      BY <1>1, <3>3 DEF StopPlayback, MainGoes, MainType, Going
    <3>4. QED
      BY <1>12, <3>1, <3>2, <3>3
  <2>2. QED
    BY <1>1, <1>5, <1>12, <2>1 DEF PauseTrack, FlushTrack, StopPlayback, NoLouder, TrackType
<1>13. CASE StartPlayback /\ owner
  <2>1. main'.at = "idle"
    BY <1>1, <1>13 DEF StartPlayback, MainGoes, MainType
  <2>2. QED
    BY <1>11, <1>13, <2>1 DEF StartPlayback, Going
<1>14. CASE ReadRequest /\ ~ShouldContinue
  BY <1>5, <1>14 DEF ReadRequest, NoWorker, NoLouder, Going, service
<1>15. CASE CheckRequest \/ BeforeWrite
  BY <1>1, <1>5, <1>15 DEF CheckRequest, BeforeWrite, NextRound, WorkGoes, NoLouder,
     Going, WorkType, service
<1>16. CASE PlayNothing \/ PlayTrack \/ ReleaseTrack
  <2>1. track'.tone => track.tone
    BY <1>1, <1>16 DEF PlayNothing, PlayTrack, ReleaseTrack, TrackType
  <2>2. CASE PlayNothing \/ PlayTrack
    BY <1>1, <1>5, <2>1, <2>2 DEF PlayNothing, PlayTrack, NoLouder, Going, WorkType, service
  <2>3. CASE ReleaseTrack
    BY <1>5, <2>1, <2>3 DEF ReleaseTrack, NoLouder, Going, NoWorker
  <2>4. QED
    BY <1>16, <2>2, <2>3
<1>17. CASE AckStop \/ ReportStopped \/ ReportQuiet \/ ReportPlaying
  <2>1. Still
    BY <1>17, AckKind, ReporterKind
  <2>2. QED
    BY <1>5, <2>1 DEF Still, NoLouder
<1>18. CASE Sync \/ AskRequest
  <2>1. main'.at \notin {"pause", "flush"} /\ UNCHANGED <<track, work, running>>
    BY <1>1, <1>18 DEF Sync, AskRequest, MainGoes, MainType, service
  <2>2. QED
    BY <1>11, <2>1 DEF Going
<1>19. CASE UNCHANGED <<track, work, running, main>>
  BY <1>11, <1>19 DEF Going
<1>20. QED
  BY <1>6, <1>7, <1>8, <1>9, <1>10, <1>12, <1>13, <1>14, <1>15, <1>16, <1>17, <1>18, <1>19,
     Zenon DEF Next, Main, Worker, LoadSpeaker, HearRequest, HearBroadcast, HearCancel,
     SetConnected, SetAudioActive, Clock, Expire, PushReport, ReportStatus, StopTestTone,
     vars, service

\* AudioService and AudioTrackPlayback.run together: what a worker that was told to
\* stop can still do to its track.
LEMMA TrackStep == ASSUME Inv, [Next]_vars PROVE TrackOK'
<1>1. /\ TrackOK /\ MainOK /\ work \in WorkType /\ track \in TrackType /\ main \in MainType
  BY Typed DEF Inv
<1> USE <1>1
<1>2. CASE UNCHANGED <<track, work, running, owner, main>>
  BY <1>2 DEF TrackOK, Going
<1>3. CASE Sync \/ AskRequest \/ AckStop
  <2>1. /\ UNCHANGED <<track, work, running, owner>> /\ main.at \notin {"pause", "flush"}
        /\ main'.at \notin {"pause", "flush"}
    <3>1. UNCHANGED <<track, work, running, owner>>
      BY <1>3, Zenon DEF Sync, AskRequest, AckStop, service
    <3>2. main.at \in {"idle", "ask", "ack"}
      BY <1>3, Zenon DEF Sync, AskRequest, AckStop, MainAt
    <3>3. main'.at \in {"start", "stop", "ack", "idle"}
      <4>1. CASE Sync
        BY <4>1 DEF Sync, MainGoes, MainType
      <4>2. CASE AskRequest
        BY <4>2 DEF AskRequest
      <4>3. CASE AckStop
        BY <4>3 DEF AckStop
      <4>4. QED
        BY <1>3, <4>1, <4>2, <4>3
    <3>4. QED
      BY <3>1, <3>2, <3>3
  <2>2. QED
    BY <2>1 DEF TrackOK, Going
<1>4. CASE StartPlayback
  <2>1. main.at = "start" /\ main'.at = "idle"
    BY <1>4 DEF StartPlayback, MainAt, MainGoes, MainType
  <2>2. CASE owner
    BY <1>4, <2>1, <2>2 DEF StartPlayback, TrackOK, Going
  <2>3. CASE ~owner
    BY <1>4, <2>1, <2>3 DEF StartPlayback, NoWorker, TrackOK, Going
  <2>4. QED
    BY <2>2, <2>3
<1>5. CASE StopPlayback
  <2>1. CASE running
    <3>1. main'.at = "pause" /\ UNCHANGED <<track, work, owner>>
      BY <1>5, <2>1 DEF StopPlayback, MainGoes, MainType
    <3>2. QED
      BY <3>1 DEF TrackOK, Going
  <2>2. CASE ~running
    <3>1. /\ main.at = "stop" /\ main'.at = "ask" /\ UNCHANGED <<track, work, owner>>
          /\ ~running'
      BY <1>5, <2>2 DEF StopPlayback, MainAt, MainGoes, MainType
    <3>2. QED
      BY <2>2, <3>1 DEF TrackOK, Going
  <2>3. QED
    BY <2>1, <2>2
<1>6. CASE PauseTrack
  <2>1. /\ ~track'.plays /\ main'.at = "flush" /\ UNCHANGED <<work, owner, running>>
    BY <1>6 DEF PauseTrack, MainGoes, MainType, TrackType, service
  <2>2. QED
    BY <2>1 DEF TrackOK, Going
<1>7. CASE FlushTrack
  <2>1. /\ track'.plays = track.plays /\ (track'.tone => track.tone /\ track.plays)
        /\ main'.at = "ask" /\ main.at = "flush" /\ UNCHANGED <<work, owner, running>>
    BY <1>7 DEF FlushTrack, MainAt, MainGoes, MainType, TrackType, service
  <2>2. ~running
    BY <2>1 DEF MainOK
  <2>3. QED
    BY <2>1, <2>2 DEF TrackOK, Going
<1>8. CASE ReadRequest
  <2>1. /\ work.at = "top" /\ UNCHANGED <<track, main, running, owner>>
        /\ \/ work'.at = "finish"
           \/ work'.at \in {"change", "read"} /\ work'.playing = work.playing
    BY <1>8 DEF ReadRequest, WorkAt, NoWorker, WorkType, service
  <2>2. QED
    BY <2>1 DEF TrackOK
<1>9. CASE ChangeRequest \/ PlayNothing
  <2>1. /\ work.at \in {"change", "idle"} /\ work'.at \in {"stopped", "read", "quiet"}
        /\ UNCHANGED <<main, running, owner>>
    BY <1>9 DEF ChangeRequest, PlayNothing, WorkAt, WorkType, service
  <2>2. ~track'.plays
    BY <1>9, <2>1 DEF ChangeRequest, PlayNothing, Dropped, TrackOK
  <2>3. QED
    BY <2>1, <2>2 DEF TrackOK
<1>10. CASE ReportStopped \/ ReadPcm \/ CheckRequest \/ ReportQuiet \/ ReportPlaying
  <2>1. /\ work.at \in {"stopped", "read", "check", "quiet", "after"}
        /\ work'.at \in {"read", "check", "idle", "write", "top"}
        /\ work'.playing = work.playing /\ UNCHANGED <<track, main, running, owner>>
    BY <1>10 DEF ReportStopped, ReadPcm, CheckRequest, ReportQuiet, ReportPlaying, WorkAt,
       WorkGoes, NextRound, WorkType, service
  <2>2. QED
    BY <2>1 DEF TrackOK
<1>11. CASE BeforeWrite
  <2>1. /\ work.at = "write" /\ work'.playing = work.playing
        /\ (work'.at = "put" /\ running) \/ work'.at = "after"
        /\ UNCHANGED <<track, main, running, owner>>
    BY <1>11 DEF BeforeWrite, WorkAt, WorkGoes, ShouldContinue, WorkType, service
  <2>2. QED
    BY <2>1 DEF TrackOK
<1>12. CASE WriteTrack
  <2>1. /\ work.at = "put" /\ track'.plays = track.plays
        /\ UNCHANGED <<main, running, owner>>
    BY <1>12 DEF WriteTrack, WorkAt, TrackType, service
  <2>2. CASE work'.at = "finish"
    BY <2>1, <2>2 DEF TrackOK
  <2>3. CASE work'.at # "finish"
    <3>1. /\ work'.playing = work.playing /\ work'.at \in {"write", "after", "play"}
          /\ work'.at = "play" => running /\ ~work.playing
      BY <1>12, <2>3 DEF WriteTrack, WorkGoes, MayPlay, ShouldContinue, NoWorker, WorkType
    <3>2. QED
      BY <2>1, <3>1 DEF TrackOK, Going
  <2>4. QED
    BY <2>2, <2>3
<1>13. CASE PlayTrack
  <2>1. /\ work.at = "play" /\ work'.playing = TRUE /\ work'.at \in {"after", "write"}
        /\ UNCHANGED <<main, running, owner>>
    BY <1>13 DEF PlayTrack, WorkAt, WorkType, service
  <2>2. QED
    BY <2>1 DEF TrackOK
<1>14. CASE ReleaseTrack
  BY <1>14 DEF ReleaseTrack, NoWorker, TrackOK
<1>15. QED
  BY <1>2, <1>3, <1>4, <1>5, <1>6, <1>7, <1>8, <1>9, <1>10, <1>11, <1>12, <1>13, <1>14,
     Zenon DEF Next, Main, Worker, LoadSpeaker, HearRequest, HearBroadcast, HearCancel,
     SetConnected, SetAudioActive, Clock, Expire, PushReport, ReportStatus, StopTestTone,
     vars, service

\* Nothing was asked, decided or played at the start.
LEMMA InitInv == Init => Inv
<1> SUFFICES ASSUME Init PROVE Inv
  OBVIOUS
<1>1. \A i \in Ids : Decided(i) = {}
  BY DEF Init, Decided, Range, None, Ids
<1>2. QED
  BY <1>1, InitTyped DEF Init, Inv, Bounded, TokenOK, MainOK, WorkOK, Silent, SeenOff,
     TrackOK, NoWorker, NoToken

\* Every step keeps the invariant.
LEMMA StepInv == Inv /\ [Next]_vars => Inv'
<1> SUFFICES ASSUME Inv, [Next]_vars PROVE Inv'
  OBVIOUS
<1>1. TypeOK'
  BY TypePartsNext, FlagsStep, ToneStep, CountersStep, ThreadsStep
     DEF Inv, ToneTyped, ControlOK, ReportsOK
<1>2. Silent'
  BY KindStep, TouchSilent, QuietSilent
<1>3. QED
  BY <1>1, <1>2, BoundedStep, TokenStep, MainStep, WorkStep, TrackStep DEF Inv

-----------------------------------------------------------------------------
(* The refinement.                                                          *)

\* The values that the promise's variables stand for.
Wanted == [id |-> token.id, on |-> token.on, open |-> token.id # 0 /\ ~responded]
Given == [i \in Ids |-> Decided(i)]
Lingers == owner /\ ~running

\* A phone that starts has promised nothing.
LEMMA InitPromise == Init => Promise!Init
<1> SUFFICES ASSUME Init PROVE Promise!Init
  OBVIOUS
<1>1. \A i \in Ids : Decided(i) = {}
  BY DEF Init, Decided, Range, None, Ids
<1>2. QED
  BY <1>1 DEF Init, Promise!Init, NoToken, Audible

\* A step that leaves requests alone makes the tone heard only where it may be.
LEMMA QuietPromise ==
    ASSUME Inv, [Next]_vars, Quiet PROVE [Promise!Next]_(Promise!vars)
<1>1. /\ token \in Tokens /\ token' = token /\ responded' = responded /\ Silent /\ TrackOK
      /\ track \in TrackType
  BY Typed DEF Inv, Quiet
<1>2. Wanted' = Wanted
  BY <1>1 DEF Wanted
<1>3. Given' = Given
  BY DEF Given, Quiet, Same
<1>4. Audible \in BOOLEAN /\ Audible' \in BOOLEAN /\ Lingers \in BOOLEAN /\ Lingers' \in BOOLEAN
  BY DEF Audible, Lingers
<1>5. CASE Lingers' = Lingers /\ (Audible' => Audible)
  <2>1. CASE Audible' = Audible
    BY <1>2, <1>3, <1>5, <2>1 DEF Wanted, Given, Lingers, Promise!vars
  <2>2. CASE Audible' = FALSE
    BY <1>2, <1>3, <1>5, <2>2 DEF Wanted, Given, Lingers, Promise!Next, Promise!Hush
  <2>3. QED
    BY <1>4, <1>5, <2>1, <2>2
<1>6. CASE StopPlayback
  <2>1. /\ Audible' = Audible /\ (Lingers => Lingers')
    BY <1>6 DEF StopPlayback, Audible, Lingers
  <2>2. CASE Lingers' = TRUE
    BY <1>2, <1>3, <2>1, <2>2 DEF Wanted, Given, Lingers, Promise!Next, Promise!Dismiss
  <2>3. QED
    BY <1>4, <1>5, <2>1, <2>2
<1>7. CASE ReleaseTrack
  <2>1. Audible' = FALSE /\ Lingers' = FALSE
    BY <1>7 DEF ReleaseTrack, Audible, Lingers
  <2>2. CASE Lingers
    BY <1>2, <1>3, <2>1, <2>2 DEF Wanted, Given, Lingers, Promise!Next, Promise!Leave
  <2>3. QED
    BY <1>4, <1>5, <2>1, <2>2
<1>8. CASE WriteTrack \/ PlayTrack
  <2>1. Lingers' = Lingers
    <3>1. UNCHANGED <<owner, running>>
      BY <1>8, Zenon DEF WriteTrack, PlayTrack, service
    <3>2. QED
      BY <3>1 DEF Lingers
  <2>2. CASE Audible' /\ ~Audible
    <3>1. token.id \in Ids => "stopped" \notin Decided(token.id)
      <4> SUFFICES ASSUME token.id \in Ids, "stopped" \in Decided(token.id) PROVE FALSE
        OBVIOUS
      <4>1. Going => ~track.tone /\ work.chunk # "tone"
        BY <1>1 DEF Silent, Ids
      <4>2. CASE WriteTrack
        <5>1. /\ work.at = "put" /\ track'.plays = track.plays
              /\ track'.tone => track.tone \/ work.chunk = "tone"
          BY <1>1, <4>2 DEF WriteTrack, WorkAt, TrackType
        <5>2. QED
          BY <1>1, <2>2, <4>1, <5>1 DEF Audible, TrackOK, Going
      <4>3. CASE PlayTrack
        <5>1. work.at = "play" /\ track'.tone = track.tone
          BY <1>1, <4>3 DEF PlayTrack, WorkAt, TrackType
        <5>2. QED
          BY <1>1, <2>2, <4>1, <5>1 DEF Audible, TrackOK
      <4>4. QED
        BY <1>8, <4>2, <4>3
    <3>2. Wanted.id \in Ids => "stopped" \notin Given[Wanted.id]
      BY <3>1 DEF Wanted, Given
    <3>3. Audible' = TRUE
      BY <1>4, <2>2
    <3>4. QED
      BY <1>2, <1>3, <2>1, <3>2, <3>3 DEF Wanted, Given, Lingers, Promise!Next, Promise!Sound
  <2>3. QED
    BY <1>5, <2>1, <2>2
<1>9. CASE StartPlayback
  BY <1>5, <1>9 DEF StartPlayback, Audible, Lingers
<1>10. CASE UNCHANGED <<track, owner, running>>
  BY <1>5, <1>10 DEF Audible, Lingers
<1>11. CASE PauseTrack \/ FlushTrack \/ ChangeRequest \/ PlayNothing
  BY <1>1, <1>5, <1>11 DEF PauseTrack, FlushTrack, ChangeRequest, Dropped, PlayNothing,
     TrackType, Audible, Lingers, service
<1>12. QED
  BY <1>6, <1>7, <1>8, <1>9, <1>10, <1>11, Zenon DEF Next, Main, Worker, LoadSpeaker,
     HearRequest, HearBroadcast, HearCancel, SetConnected, SetAudioActive, Clock, Expire,
     PushReport, ReportStatus, StopTestTone, Sync, AskRequest, AckStop, ReadRequest,
     ReportStopped, ReadPcm, CheckRequest, ReportQuiet, BeforeWrite, ReportPlaying, vars,
     service

\* An answer added to those of a request.
LEMMA GivenAdds ==
    ASSUME NEW id \in Ids, NEW answer, Adds(id, answer)
    PROVE  Given' = [Given EXCEPT ![id] = @ \cup {answer}]
BY DEF Given, Adds

WantedType == [id : Ids \cup {0}, on : BOOLEAN, open : BOOLEAN]

\* What is wanted is told by its parts.
LEMMA SameWanted ==
    ASSUME NEW r \in WantedType, NEW s \in WantedType,
           r.id = s.id, r.on = s.on, r.open = s.open
    PROVE  r = s
BY DEF WantedType

\* What is wanted once the first answer is given, and once the tone is given up.
LEMMA WantedParts ==
    ASSUME NEW r \in WantedType
    PROVE  /\ [r EXCEPT !.open = FALSE] = [id |-> r.id, on |-> r.on, open |-> FALSE]
           /\ [r EXCEPT !.on = FALSE, !.open = FALSE]
                = [id |-> r.id, on |-> FALSE, open |-> FALSE]
<1>1. /\ [r EXCEPT !.open = FALSE] \in WantedType
      /\ [id |-> r.id, on |-> r.on, open |-> FALSE] \in WantedType
  BY DEF WantedType
<1>2. /\ [r EXCEPT !.on = FALSE, !.open = FALSE] \in WantedType
      /\ [id |-> r.id, on |-> FALSE, open |-> FALSE] \in WantedType
  BY DEF WantedType
<1>3. /\ [r EXCEPT !.open = FALSE].id = r.id /\ [r EXCEPT !.open = FALSE].on = r.on
      /\ [r EXCEPT !.open = FALSE].open = FALSE
  BY DEF WantedType
<1>4. /\ [r EXCEPT !.on = FALSE, !.open = FALSE].id = r.id
      /\ [r EXCEPT !.on = FALSE, !.open = FALSE].on = FALSE
      /\ [r EXCEPT !.on = FALSE, !.open = FALSE].open = FALSE
  BY DEF WantedType
<1>5. [r EXCEPT !.open = FALSE] = [id |-> r.id, on |-> r.on, open |-> FALSE]
  BY <1>1, <1>3, SameWanted
<1>6. [r EXCEPT !.on = FALSE, !.open = FALSE] = [id |-> r.id, on |-> FALSE, open |-> FALSE]
  BY <1>2, <1>4, SameWanted
<1>7. QED
  BY <1>5, <1>6

\* A step that touches a request is a step the promise allows.
LEMMA TouchPromise == ASSUME Inv, Touches, Inv' PROVE [Promise!Next]_(Promise!vars)
<1>1. /\ TypeOK /\ TokenOK /\ Bounded /\ token \in Tokens /\ asked \in Nat
      /\ responded \in BOOLEAN
  BY Typed, TypeParts DEF Inv, FlagsOK
<1>2. /\ token.id \in Nat /\ token.on \in BOOLEAN
      /\ token.id # 0 => token.id \in Ids
  BY <1>1, TokenFields
<1>3. /\ Wanted \in WantedType
      /\ Wanted.id = token.id /\ Wanted.on = token.on
  BY <1>1, <1>2 DEF Wanted, WantedType
<1>4. Audible' = Audible /\ Lingers' = Lingers
  BY DEF Touches, Still, Audible, Lingers
<1>5. token' \in Tokens /\ token'.on \in BOOLEAN
  <2>1. TypeOK'
    BY DEF Inv
  <2>2. token' \in Tokens
    BY <2>1 DEF TypeOK
  <2>3. QED
    BY <2>2 DEF Tokens
<1>6. CASE Fresh
  <2>1. PICK j \in Ids : j = token'.id
    BY <1>6 DEF Fresh
  <2>2. PICK on \in BOOLEAN : on = token'.on
    BY <1>5
  <2>3. Given[j] = {} /\ j # 0
    BY <1>1, <1>6, <2>1 DEF Fresh, Bounded, Ids, Given
  <2>4. CASE ~responded' /\ Same
    <3>1. Given' = Given
      BY <2>4 DEF Given, Same
    <3>2. Wanted' = [id |-> j, on |-> on, open |-> j # 0]
      BY <2>1, <2>2, <2>3, <2>4 DEF Wanted
    <3>3. Promise!Ask(j, on)
      BY <1>4, <2>3, <3>1, <3>2 DEF Wanted, Given, Lingers, Promise!Ask
    <3>4. QED
      BY <3>3 DEF Promise!Next
  <2>5. CASE responded' /\ token'.on /\ Adds(token'.id, "failed")
    <3>1. Given' = [Given EXCEPT ![j] = {"failed"}]
      <4>1. Given' = [Given EXCEPT ![j] = @ \cup {"failed"}]
        BY <2>1, <2>5, GivenAdds
      <4>2. Given[j] \cup {"failed"} = {"failed"}
        BY <2>3
      <4>3. QED
        BY <4>1, <4>2
    <3>2. Wanted' = [id |-> j, on |-> on, open |-> FALSE]
      BY <2>1, <2>2, <2>5 DEF Wanted
    <3>3. Promise!Ask(j, on)
      BY <1>4, <2>2, <2>3, <2>5, <3>1, <3>2 DEF Wanted, Given, Lingers, Promise!Ask
    <3>4. QED
      BY <3>3 DEF Promise!Next
  <2>6. QED
    BY <1>6, <2>4, <2>5 DEF Fresh
<1>7. CASE Broadcast
  <2>1. Given' = Given
    BY <1>7 DEF Given, Same, Broadcast
  <2>2. Wanted' = [id |-> 0, on |-> FALSE, open |-> FALSE]
    BY <1>7 DEF Broadcast, Wanted, NoToken
  <2>3. Promise!Ask(0, FALSE)
    BY <1>4, <2>1, <2>2 DEF Wanted, Given, Lingers, Promise!Ask
  <2>4. QED
    BY <2>3 DEF Promise!Next
<1>8. CASE GivesUp
  <2>1. token.on /\ token.id \in Ids /\ token.id # 0
    BY <1>1, <1>2, <1>8 DEF GivesUp, TokenOK
  <2>2. Given' = [Given EXCEPT ![token.id] = @ \cup {"failed"}]
    BY <1>8, <2>1, GivenAdds DEF GivesUp
  <2>3. Wanted' = [Wanted EXCEPT !.on = FALSE, !.open = FALSE]
    <3>1. token'.id = token.id /\ token'.on = FALSE /\ responded'
      BY <1>1, <1>8, TokenFields DEF GivesUp
    <3>2. Wanted' = [id |-> token.id, on |-> FALSE, open |-> FALSE]
      BY <3>1 DEF Wanted
    <3>3. QED
      BY <1>3, <3>2, WantedParts
  <2>4. Promise!GiveUp
    BY <1>4, <2>1, <2>2, <2>3 DEF Wanted, Given, Lingers, Promise!GiveUp, Promise!Decide
  <2>5. QED
    BY <2>4 DEF Promise!Next
<1>9. CASE Plays
  <2>1. token.on /\ token.id \in Ids /\ token.id # 0 /\ ~responded
    BY <1>2, <1>9 DEF Plays, AnswersOnce
  <2>2. Given' = [Given EXCEPT ![token.id] = @ \cup {"playing"}]
    BY <1>9, <2>1, GivenAdds DEF Plays, AnswersOnce
  <2>3. Wanted' = [Wanted EXCEPT !.open = FALSE]
    <3>1. token' = token /\ responded'
      BY <1>9 DEF Plays, AnswersOnce
    <3>2. Wanted' = [id |-> token.id, on |-> token.on, open |-> FALSE]
      BY <3>1 DEF Wanted
    <3>3. QED
      BY <1>3, <3>2, WantedParts
  <2>4. Promise!SayPlaying
    BY <1>4, <2>1, <2>2, <2>3 DEF Wanted, Given, Lingers, Promise!SayPlaying, Promise!Decide
  <2>5. QED
    BY <2>4 DEF Promise!Next
<1>10. CASE Stops
  <2>1. /\ ~token.on /\ token.id \in Ids /\ token.id # 0 /\ ~responded
        /\ Audible => Lingers
    BY <1>2, <1>10 DEF Stops, AnswersOnce, SilentNow, Inv, TrackOK, Going, Lingers, Audible
  <2>2. Given' = [Given EXCEPT ![token.id] = @ \cup {"stopped"}]
    BY <1>10, <2>1, GivenAdds DEF Stops, AnswersOnce
  <2>3. Wanted' = [Wanted EXCEPT !.open = FALSE]
    <3>1. token' = token /\ responded'
      BY <1>10 DEF Stops, AnswersOnce
    <3>2. Wanted' = [id |-> token.id, on |-> token.on, open |-> FALSE]
      BY <3>1 DEF Wanted
    <3>3. QED
      BY <1>3, <3>2, WantedParts
  <2>4. Promise!SayStopped
    BY <1>4, <2>1, <2>2, <2>3 DEF Wanted, Given, Lingers, Promise!SayStopped, Promise!Decide
  <2>5. QED
    BY <2>4 DEF Promise!Next
<1>11. CASE Forgets
  <2>1. Wanted' = [id |-> 0, on |-> FALSE, open |-> FALSE]
    BY <1>11 DEF Forgets, Wanted, NoToken
  <2>2. DOMAIN Given' = Ids /\ \A i \in Ids : Given'[i] \subseteq Given[i]
    BY <1>11 DEF Forgets, Given
  <2>3. Promise!Forget
    BY <1>4, <2>1, <2>2 DEF Wanted, Given, Lingers, Promise!Forget
  <2>4. QED
    BY <2>3 DEF Promise!Next
<1>12. QED
  BY <1>6, <1>7, <1>8, <1>9, <1>10, <1>11 DEF Touches

\* The network task, the main thread and the playback thread together implement the
\* promise of ToneService: one answer per request and in its terms (report_playback).
\* "stopped" is answered in silence or while the worker, told to stop, still has its
\* track (stopPlayback does not wait for it); either way no tone begins to be heard
\* after it until the server asks for something else, and the worker lets the track
\* go in silence.
THEOREM PromiseKept == Spec => KeepsPromise
<1>1. Inv /\ Inv' /\ [Next]_vars => [Promise!Next]_(Promise!vars)
  BY KindStep, QuietPromise, TouchPromise
<1>2. QED
  BY InitInv, StepInv, InitPromise, <1>1, PTL DEF Spec, KeepsPromise, Promise!Spec
=============================================================================
