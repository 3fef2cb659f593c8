--------------------------- MODULE ToneControl ---------------------------
(***************************************************************************)
(* The test tone on the phone. Three threads share the state of            *)
(* DeviceControl: the network task that hears the server's requests, the   *)
(* main thread that starts and stops playback (AudioService) and the       *)
(* playback thread that owns the AudioTrack (AudioTrackPlayback). The      *)
(* track is modelled by whether it plays and whether tone samples are in   *)
(* its buffer. A lock is released before the report it decided on is       *)
(* queued, so queueing is a step of its own (out).                         *)
(***************************************************************************)
EXTENDS Naturals, Functions

CONSTANTS
    MaxRequests,    \* bound: the highest id of a request of the server
    MaxEvents       \* bound: lost sessions, changed outputs, broadcast stops,
                    \* cancelled calibrations, starts of the stream

ASSUME BoundsAssumption == MaxRequests \in Nat \ {0} /\ MaxEvents \in Nat

Ids == 1 .. MaxRequests
Threads == {"net", "main", "work"}
None == [id |-> 0, answer |-> "none"]
Answers == {"playing", "stopped", "failed"}
Reports == [id : Ids, answer : Answers]
Tokens == [id : Ids \cup {0}, on : BOOLEAN]
NoToken == [id |-> 0, on |-> FALSE]

VARIABLES
    token,          \* the request in force and whether it wants a tone
    until,          \* its five seconds: "none", "live" or "over"
    responded,      \* whether its first answer was decided
    speaker,        \* whether the last status report named the speaker
    loaded,         \* what the network task read of speaker for a start it
                    \* is about to take: "none", "yes" or "no"
    out,            \* per thread: a report decided and not yet queued
    sent,           \* reports queued for the server in this session
    connected,      \* whether a session is up
    audio_active,   \* whether packets of the stream arrive
    dirty,          \* a status change the main thread has yet to look at
    running,        \* AudioService.playbackRunning
    owner,          \* whether AudioService.audioTrack is set
    track,          \* the AudioTrack: does it play, does it hold tone samples
    main,           \* main thread: what it does next, the token it read
    work,           \* playback thread: next step and its local variables
    asked,          \* the highest id the server has used
    events          \* counter of the bound

control == <<token, until, responded, speaker>>
service == <<connected, audio_active, dirty, running, owner>>
vars == <<control, loaded, out, sent, service, track, main, work, asked, events>>

WorkSteps == {"gone", "top", "change", "stopped", "read", "check", "idle", "quiet",
              "write", "put", "play", "after", "finish"}

TypeOK ==
    /\ token \in Tokens
    /\ until \in {"none", "live", "over"}
    /\ {responded, speaker, connected, audio_active, dirty, running, owner}
         \subseteq BOOLEAN
    /\ loaded \in {"none", "yes", "no"}
    /\ out \in [Threads -> Reports \cup {None}]
    /\ sent \subseteq Reports
    /\ track \in [plays : BOOLEAN, tone : BOOLEAN]
    /\ main \in [at : {"idle", "start", "stop", "pause", "flush", "ask", "ack"},
                 seen : Tokens]
    /\ work \in [at : WorkSteps, request : Tokens, known : Tokens,
                 playing : BOOLEAN, chunk : {"none", "pcm", "tone"}, full : BOOLEAN]
    /\ asked \in 0 .. MaxRequests
    /\ events \in 0 .. MaxEvents

\* request, known and playing are locals of AudioTrackPlayback.run.
NoWorker == [at |-> "gone", request |-> NoToken, known |-> NoToken,
             playing |-> FALSE, chunk |-> "none", full |-> FALSE]

Init ==
    /\ token = NoToken /\ until = "none" /\ responded = FALSE /\ speaker = TRUE
    /\ loaded = "none"
    /\ out = [t \in Threads |-> None] /\ sent = {}
    /\ connected = TRUE /\ audio_active = FALSE /\ dirty = FALSE
    /\ running = FALSE /\ owner = FALSE
    /\ track = [plays |-> FALSE, tone |-> FALSE]
    /\ main = [at |-> "idle", seen |-> NoToken]
    /\ work = NoWorker
    /\ asked = 0 /\ events = 0

---------------------------------------------------------------------------
(* DeviceControl: what each call decides under the lock.                   *)

\* A thread with a report in hand queues it before it does anything else.
Free(t) == out[t] = None

Decide(t, id, answer) == out' = [out EXCEPT ![t] = [id |-> id, answer |-> answer]]

\* Nobody waits for an answer to a request with id 0.
DecideFailed(t, id) == IF id = 0 THEN UNCHANGED out ELSE Decide(t, id, "failed")

PushReport(t) ==
    /\ ~Free(t)
    /\ sent' = sent \cup {out[t]}
    /\ out' = [out EXCEPT ![t] = None]
    /\ UNCHANGED <<loaded, control, service, track, main, work, asked, events>>

\* request_tone: a start is refused when the output was not the speaker, which it
\* asked before it took the lock.
RequestTone(t, id, on) ==
    LET allowed == ~on \/ loaded = "yes"
    IN  /\ token' = [id |-> id, on |-> on]
        /\ until' = IF on /\ allowed THEN "live" ELSE "none"
        /\ responded' = (id = 0 \/ ~allowed)
        /\ IF allowed THEN UNCHANGED out ELSE DecideFailed(t, id)

\* set_tone(false): a tone in force is cut short, and its request has failed.
SetToneOff(t) ==
    LET was_active == until # "none"
    IN  /\ until' = "none"
        /\ token' = [token EXCEPT !.on = FALSE]
        /\ responded' = (responded \/ was_active)
        /\ IF was_active THEN DecideFailed(t, token.id) ELSE UNCHANGED out

\* expire_tone: five seconds without renewal end the tone.
ExpireTone(t) ==
    /\ until = "over"
    /\ until' = "none"
    /\ token' = [token EXCEPT !.on = FALSE]
    /\ responded' = TRUE
    /\ DecideFailed(t, token.id)

\* The request the thread read is still the one in force.
StillAsked(request) == token = request

MutantAnswerable(request) == StillAsked(request)

\* A report is taken for the request in force, and for none that nobody waits for.
Answerable(request) == request.id # 0 /\ StillAsked(request)

\* report_playback: only the first answer counts, and only for this token.
ReportPlayback(t, request, playing) ==
    LET active == until = "live"
        starts == request.on /\ playing /\ active /\ ~responded
        stops  == ~request.on /\ ~playing /\ ~responded
        fails  == request.on /\ ~playing /\ ~active /\ (until # "none" \/ ~responded)
    IN  IF Answerable(request) /\ (starts \/ stops \/ fails)
        THEN /\ responded' = TRUE
             /\ until' = IF starts THEN "live" ELSE IF fails THEN "none" ELSE until
             /\ token' = IF fails THEN [token EXCEPT !.on = FALSE] ELSE token
             /\ Decide(t, request.id,
                       IF starts THEN "playing" ELSE IF stops THEN "stopped" ELSE "failed")
        ELSE UNCHANGED <<token, until, responded, out>>

---------------------------------------------------------------------------
(* The network task.                                                       *)

\* The task handles one message at a time.
NetFree == Free("net") /\ loaded = "none"

\* A CalibrationTone message that starts the tone: request_tone reads the output
\* first; the main thread may report another one before it takes the lock.
LoadSpeaker ==
    /\ connected /\ NetFree /\ asked < MaxRequests
    /\ loaded' = IF speaker THEN "yes" ELSE "no"
    /\ UNCHANGED <<control, out, sent, service, track, main, work, asked, events>>

\* A CalibrationTone message with a new id. The server draws the ids of all its
\* requests from one counter: they increase and skip.
HearRequest(id, on) ==
    /\ connected /\ Free("net") /\ id > asked
    /\ on <=> loaded # "none"
    /\ asked' = id
    /\ RequestTone("net", id, on)
    /\ loaded' = "none"
    /\ dirty' = TRUE
    /\ UNCHANGED <<speaker, sent, connected, audio_active, running, owner, track,
                   main, work, events>>

\* The broadcast with id 0 that stops every tone.
HearBroadcast ==
    /\ connected /\ NetFree /\ events < MaxEvents
    /\ events' = events + 1
    /\ RequestTone("net", 0, FALSE)
    /\ dirty' = TRUE
    /\ UNCHANGED <<loaded, speaker, sent, connected, audio_active, running, owner,
                   track, main, work, asked>>

\* A calibration session is cancelled or committed, which stops the tone.
HearCancel ==
    /\ connected /\ NetFree /\ events < MaxEvents
    /\ events' = events + 1
    /\ SetToneOff("net")
    /\ dirty' = TRUE
    /\ UNCHANGED <<loaded, speaker, sent, connected, audio_active, running, owner,
                   track, main, work, asked>>

\* The session ends (reset) or comes up again.
SetConnected(up) ==
    /\ connected # up /\ NetFree
    /\ IF up THEN UNCHANGED <<control, sent, events, audio_active>>
             ELSE /\ events < MaxEvents /\ events' = events + 1
                  /\ token' = NoToken /\ until' = "none" /\ responded' = FALSE
                  /\ speaker' = FALSE /\ sent' = {} /\ audio_active' = FALSE
    /\ connected' = up
    /\ dirty' = TRUE
    /\ UNCHANGED <<loaded, out, running, owner, track, main, work, asked>>

\* Packets of the stream arrive, or it has fallen silent.
SetAudioActive(active) ==
    /\ connected /\ NetFree /\ active # audio_active
    /\ IF active THEN events < MaxEvents /\ events' = events + 1 ELSE UNCHANGED events
    /\ audio_active' = active
    /\ dirty' = TRUE
    /\ UNCHANGED <<loaded, control, out, sent, connected, running, owner, track,
                   main, work, asked>>

\* Five seconds have passed since the tone began or was renewed.
Clock ==
    /\ until = "live"
    /\ until' = "over"
    /\ UNCHANGED <<loaded, token, responded, speaker, out, sent, service, track,
                   main, work, asked, events>>

\* Any thread that asks about the tone ends one that is over; the 250 ms tick
\* of the network task does, and it tells the main thread.
Expire(t) ==
    /\ Free(t)
    /\ t = "net" => NetFree
    /\ t = "work" => work.at \notin {"gone", "finish"}
    /\ ExpireTone(t)
    /\ dirty' = TRUE
    /\ UNCHANGED <<loaded, speaker, sent, connected, audio_active, running, owner,
                   track, main, work, asked, events>>

---------------------------------------------------------------------------
(* The main thread: AudioService and the status reports.                   *)

MainAt(step) == main.at = step /\ Free("main")
MainGoes(step) == main' = [main EXCEPT !.at = step]

\* A status report: it tells the output in use, or that a command failed.
ReportStatus(ok) ==
    /\ MainAt("idle") /\ connected
    /\ speaker' = ok
    /\ IF ok THEN /\ ~speaker
                  /\ UNCHANGED <<token, until, responded, out, events>>
             ELSE /\ events < MaxEvents /\ events' = events + 1
                  /\ SetToneOff("main")
    /\ UNCHANGED <<loaded, sent, service, track, main, work, asked>>

\* cancelCalibration stops the tone, whoever asked for it since.
StopTestTone ==
    /\ MainAt("idle") /\ connected /\ events < MaxEvents
    /\ events' = events + 1
    /\ SetToneOff("main")
    /\ dirty' = TRUE
    /\ UNCHANGED <<loaded, speaker, sent, connected, audio_active, running, owner,
                   track, main, work, asked>>

\* A tone counts as audio.
IsAudioActive == audio_active \/ until = "live"

\* syncStreamingResources. Without a session it stops the tone once more (there
\* is none), which is a change to look at again.
Sync ==
    /\ MainAt("idle") /\ dirty
    /\ dirty' = ~connected
    /\ MainGoes(IF connected /\ IsAudioActive THEN "start" ELSE "stop")
    /\ UNCHANGED <<loaded, control, out, sent, connected, audio_active, running,
                   owner, track, work, asked, events>>

\* startPlayback: nothing while the previous worker owns its track.
StartPlayback ==
    /\ MainAt("start")
    /\ MainGoes("idle")
    /\ IF owner
       THEN UNCHANGED <<running, owner, track, work>>
       ELSE /\ running' = TRUE /\ owner' = TRUE
            /\ track' = [plays |-> FALSE, tone |-> FALSE]
            /\ work' = [NoWorker EXCEPT !.at = "top"]
    /\ UNCHANGED <<loaded, control, out, sent, connected, audio_active, dirty,
                   asked, events>>

\* stopPlayback
StopPlayback ==
    /\ MainAt("stop")
    /\ running' = FALSE
    /\ MainGoes(IF running THEN "pause" ELSE "ask")
    /\ UNCHANGED <<loaded, control, out, sent, connected, audio_active, dirty,
                   owner, track, work, asked, events>>

PauseTrack ==
    /\ MainAt("pause")
    /\ track' = [track EXCEPT !.plays = FALSE]
    /\ MainGoes("flush")
    /\ UNCHANGED <<loaded, control, out, sent, service, work, asked, events>>

\* AudioTrack.flush does nothing on a track that plays, and the worker may have
\* called play() since the pause.
FlushTrack ==
    /\ MainAt("flush")
    /\ track' = [track EXCEPT !.tone = @ /\ track.plays]
    /\ MainGoes("ask")
    /\ UNCHANGED <<loaded, control, out, sent, service, work, asked, events>>

AskRequest ==
    /\ MainAt("ask")
    /\ main' = [at |-> "ack", seen |-> token]
    /\ UNCHANGED <<loaded, control, out, sent, service, track, work, asked, events>>

MutantAckStop ==
    /\ MainAt("ack")
    /\ main' = [at |-> "idle", seen |-> NoToken]
    /\ UNCHANGED <<loaded, control, out, sent, service, track, work, asked, events>>

AckStop ==
    /\ MainAt("ack")
    /\ ReportPlayback("main", main.seen, FALSE)
    /\ main' = [at |-> "idle", seen |-> NoToken]
    /\ UNCHANGED <<loaded, speaker, sent, service, track, work, asked, events>>

---------------------------------------------------------------------------
(* The playback thread: AudioTrackPlayback.run.                            *)

WorkAt(step) == work.at = step /\ Free("work")
WorkGoes(step) == work' = [work EXCEPT !.at = step]
NextRound == work' = [work EXCEPT !.at = "top", !.chunk = "none", !.full = FALSE]
ShouldContinue == running /\ owner

\* The head of the loop reads the request in force.
ReadRequest ==
    /\ WorkAt("top")
    /\ work' = IF ~ShouldContinue THEN [NoWorker EXCEPT !.at = "finish"]
               ELSE [work EXCEPT !.request = token,
                                 !.at = IF token # work.known THEN "change" ELSE "read"]
    /\ UNCHANGED <<loaded, control, out, sent, service, track, main, asked, events>>

MutantDropped == track

\* A paused and flushed track.
Dropped == [plays |-> FALSE, tone |-> FALSE]

\* A new request drops what the track still holds.
ChangeRequest ==
    /\ WorkAt("change")
    /\ track' = Dropped
    /\ work' = [work EXCEPT !.playing = FALSE, !.known = work.request,
                            !.at = IF work.request.id # 0 /\ ~work.request.on
                                   THEN "stopped" ELSE "read"]
    /\ UNCHANGED <<loaded, control, out, sent, service, main, asked, events>>

ReportStopped ==
    /\ WorkAt("stopped")
    /\ ReportPlayback("work", work.request, FALSE)
    /\ WorkGoes("read")
    /\ UNCHANGED <<loaded, speaker, sent, service, track, main, asked, events>>

\* nativeReadPcm: the tone while it is live, else what the ring holds.
ReadPcm ==
    /\ WorkAt("read")
    /\ \E got \in IF until = "live" THEN {"tone"}
                  ELSE IF audio_active THEN {"pcm", "none"} ELSE {"none"} :
          work' = [work EXCEPT !.chunk = got, !.full = FALSE, !.at = "check"]
    /\ UNCHANGED <<loaded, control, out, sent, service, track, main, asked, events>>

CheckRequest ==
    /\ WorkAt("check")
    /\ IF StillAsked(work.request)
       THEN WorkGoes(IF work.chunk = "none" THEN "idle" ELSE "write")
       ELSE NextRound
    /\ UNCHANGED <<loaded, control, out, sent, service, track, main, asked, events>>

\* Nothing to play: the track is emptied and the request hears of it.
PlayNothing ==
    /\ WorkAt("idle")
    /\ track' = IF work.playing THEN [plays |-> FALSE, tone |-> FALSE] ELSE track
    /\ work' = [work EXCEPT !.playing = FALSE, !.at = "quiet"]
    /\ UNCHANGED <<loaded, control, out, sent, service, main, asked, events>>

ReportQuiet ==
    /\ WorkAt("quiet")
    /\ ReportPlayback("work", work.request, FALSE)
    /\ NextRound
    /\ UNCHANGED <<loaded, speaker, sent, service, track, main, asked, events>>

\* The inner loop looks again before every write ...
BeforeWrite ==
    /\ WorkAt("write")
    /\ WorkGoes(IF ShouldContinue /\ StillAsked(work.request) THEN "put" ELSE "after")
    /\ UNCHANGED <<loaded, control, out, sent, service, track, main, asked, events>>

\* Mutant: a track that does not play yet is played without looking again.
MutantMayPlay == ~work.playing

\* Playback starts only for the request that is still in force.
MayPlay == ~work.playing /\ ShouldContinue /\ StillAsked(work.request)

\* ... and the write takes nothing, part or all of the chunk, or fails.
WriteTrack ==
    /\ WorkAt("put")
    /\ \/ work' = [NoWorker EXCEPT !.at = "finish"] /\ UNCHANGED track
       \/ WorkGoes("write") /\ ~work.playing /\ UNCHANGED track
       \/ \E full \in BOOLEAN :
            /\ track' = [track EXCEPT !.tone = @ \/ work.chunk = "tone"]
            /\ work' = [work EXCEPT !.full = full,
                                    !.at = IF MayPlay THEN "play"
                                           ELSE IF full THEN "after" ELSE "write"]
    /\ UNCHANGED <<loaded, control, out, sent, service, main, asked, events>>

PlayTrack ==
    /\ WorkAt("play")
    /\ track' = [track EXCEPT !.plays = TRUE]
    /\ work' = [work EXCEPT !.playing = TRUE, !.at = IF work.full THEN "after" ELSE "write"]
    /\ UNCHANGED <<loaded, control, out, sent, service, main, asked, events>>

\* A whole chunk in a playing track is what a start waits for.
ReportPlaying ==
    /\ WorkAt("after")
    /\ IF work.playing /\ work.full
       THEN ReportPlayback("work", work.request, TRUE)
       ELSE UNCHANGED <<token, until, responded, out>>
    /\ NextRound
    /\ UNCHANGED <<loaded, speaker, sent, service, track, main, asked, events>>

\* The finally block of the worker: silence the track, let it go, look again.
ReleaseTrack ==
    /\ WorkAt("finish")
    /\ track' = [plays |-> FALSE, tone |-> FALSE]
    /\ running' = FALSE /\ owner' = FALSE /\ dirty' = TRUE
    /\ work' = NoWorker
    /\ UNCHANGED <<loaded, control, out, sent, connected, audio_active, main, asked,
                   events>>

---------------------------------------------------------------------------
Main == Sync \/ StartPlayback \/ StopPlayback \/ PauseTrack \/ FlushTrack
          \/ AskRequest \/ AckStop

Worker == ReadRequest \/ ChangeRequest \/ ReportStopped \/ ReadPcm \/ CheckRequest
            \/ PlayNothing \/ ReportQuiet \/ BeforeWrite \/ WriteTrack \/ PlayTrack
            \/ ReportPlaying \/ ReleaseTrack

Next ==
    \/ LoadSpeaker
    \/ \E id \in Ids, on \in BOOLEAN : HearRequest(id, on)
    \/ HearBroadcast \/ HearCancel
    \/ \E up \in BOOLEAN : SetConnected(up)
    \/ \E active \in BOOLEAN : SetAudioActive(active)
    \/ Clock
    \/ \E t \in Threads : Expire(t) \/ PushReport(t)
    \/ \E ok \in BOOLEAN : ReportStatus(ok)
    \/ StopTestTone \/ Main \/ Worker

Spec == Init /\ [][Next]_vars

\* Threads run, reports are queued, time passes.
FairSpec ==
    /\ Spec
    /\ WF_vars(Main) /\ WF_vars(Worker) /\ WF_vars(Clock)
    /\ WF_vars(\E id \in Ids : HearRequest(id, TRUE)) /\ WF_vars(Expire("net"))
    /\ \A t \in Threads : WF_vars(PushReport(t))

---------------------------------------------------------------------------
(* Properties.                                                             *)

Audible == track.plays /\ track.tone

\* The answers decided for a request, queued or about to be.
Decided(i) ==
    {r.answer : r \in {r \in sent \cup Range(out) : r.id = i}}

\* Open means that ReportPlayback may still give the first answer; leaving, that
\* stopPlayback has told the worker to stop and the worker still has its track.
Promise == INSTANCE ToneService WITH
    wanted  <- [id |-> token.id, on |-> token.on, open |-> token.id # 0 /\ ~responded],
    decided <- [i \in Ids |-> Decided(i)],
    audible <- Audible,
    leaving <- owner /\ ~running

\* The three threads together keep what the server is told when it measures
\* (switch_tone in calibration.rs): a request gets the answer it asked for once, a
\* failure only ever ends a tone. "stopped" is answered in silence, unless the
\* worker was told to stop and has not let its track go: stopPlayback answers
\* without waiting for it, and a play() between its pause and its flush is still
\* heard. After "stopped" the tone is never begun again, only ended.
KeepsPromise == Promise!Spec

\* Every request that is not replaced by another one is answered: a tone that
\* cannot be played fails when its five seconds are over, a stop is acknowledged
\* by whichever thread finds the track silent.
Answered ==
    \A i \in Ids : (token.id = i) ~> (Decided(i) # {} \/ token.id # i)

\* A tone that is no longer wanted falls silent, also when the main thread's
\* pause and flush meet a worker that is about to play.
ToneEnds == (Audible /\ ~token.on) ~> (~Audible \/ token.on)
=============================================================================
