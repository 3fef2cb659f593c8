----------------------------- MODULE CaptureHub -----------------------------
(***************************************************************************)
(* The shared, reference-counted capture of application/hub.rs with the    *)
(* session tasks that subscribe to it (application/session.rs) and the     *)
(* accept loop and shutdown of the server (application/streamer.rs).       *)
(*                                                                         *)
(* A session subscribes at most once, so a capture is named after the      *)
(* session whose subscription started it.  The hub's mutex protects one    *)
(* operator each; the steps of a session are separated at its awaits and   *)
(* wherever another thread can see the state in between.  Audio blocks are *)
(* left out: a session is fed by the capture it subscribed to for as long  *)
(* as that capture's thread runs.                                          *)
(***************************************************************************)
EXTENDS Integers, FiniteSets

CONSTANTS
    Sessions,      \* the sessions that may ever be accepted
    None,          \* the absent value of an Option
    StartFaults,   \* which thread may fail to start: "loopback", "fanout"
    MaxFaults      \* bound on captures and senders that fail while running

ASSUME SessionAssumption == IsFiniteSet(Sessions) /\ None \notin Sessions
ASSUME FaultAssumption ==
    StartFaults \subseteq {"loopback", "fanout"} /\ MaxFaults \in Nat

VARIABLES
    task,         \* where each session task stands in session::run
    registered,   \* the session is in the receiver registry
    sender,       \* its datagram task: "none", "running" or "ended"
    session_stop, \* its cancellation token
    feed,         \* the capture whose blocks it receives
    held,         \* the capture it took from the hub and has to join
    capture,      \* HubState.capture
    subscribers,  \* HubState.subscribers
    thread,       \* each capture's thread: "none", "running" or "ended"
    stop,         \* each capture's cancellation token
    shutdown,     \* the server's cancellation token
    server,       \* where streamer::run stands
    faults        \* failures that may still happen

sessionVars == <<task, registered, sender, session_stop, feed, held>>
hubVars == <<capture, subscribers>>
threadVars == <<thread, stop>>
serverVars == <<shutdown, server>>
vars == <<sessionVars, hubVars, threadVars, serverVars, faults>>

Tasks == {"new", "handshake", "subscribed", "streaming", "closing", "leaving",
          "unsubscribing", "stopping", "joining", "ended", "abandoned"}

\* Between subscribe and unsubscribe.
Subscribed(s) == task[s] \in {"subscribed", "streaming", "closing", "leaving",
                              "unsubscribing"}

\* The sessions the hub counts: an abandoned one never unsubscribed.
Counted == {s \in Sessions : Subscribed(s) \/ task[s] = "abandoned"}

Init ==
    /\ task = [s \in Sessions |-> "new"]
    /\ registered = [s \in Sessions |-> FALSE]
    /\ sender = [s \in Sessions |-> "none"]
    /\ session_stop = [s \in Sessions |-> FALSE]
    /\ feed = [s \in Sessions |-> None]
    /\ held = [s \in Sessions |-> None]
    /\ capture = None
    /\ subscribers = 0
    /\ thread = [s \in Sessions |-> "none"]
    /\ stop = [s \in Sessions |-> FALSE]
    /\ shutdown = FALSE
    /\ server = "accepting"
    /\ faults = MaxFaults

-----------------------------------------------------------------------------
(* A session joins.                                                         *)

Goto(s, from, to) == task[s] = from /\ task' = [task EXCEPT ![s] = to]

Accept(s) ==
    /\ server = "accepting"
    /\ Goto(s, "new", "handshake")
    /\ UNCHANGED <<registered, sender, session_stop, feed, held, hubVars,
                   threadVars, serverVars, faults>>

\* The connection is rejected, speaks another version or goes away.
HandshakeFails(s) ==
    /\ Goto(s, "handshake", "ended")
    /\ UNCHANGED <<registered, sender, session_stop, feed, held, hubVars,
                   threadVars, serverVars, faults>>

\* Mutant: every subscription starts a capture of its own.
MutantMustStart == TRUE

\* The first subscriber starts the capture.
MustStart == capture = None

Subscribe(s) ==
    /\ Goto(s, "handshake", "subscribed")
    /\ IF MustStart
       THEN /\ capture' = s
            /\ thread' = [thread EXCEPT ![s] = "running"]
       ELSE UNCHANGED <<capture, thread>>
    /\ subscribers' = subscribers + 1
    /\ feed' = [feed EXCEPT ![s] = capture']
    /\ UNCHANGED <<registered, sender, session_stop, held, stop, serverVars,
                   faults>>

\* start_wasapi_capture spawns two threads.  When only the second fails, the
\* first runs on and its token is dropped without being cancelled.
SubscribeFails(s) ==
    /\ MustStart
    /\ Goto(s, "handshake", "ended")
    /\ \E fault \in StartFaults :
           thread' = IF fault = "fanout"
                     THEN [thread EXCEPT ![s] = "running"] ELSE thread
    /\ UNCHANGED <<registered, sender, session_stop, feed, held, hubVars, stop,
                   serverVars, faults>>

\* The session is registered, then its datagram task spawned.
Stream(s) ==
    /\ Goto(s, "subscribed", "streaming")
    /\ registered' = [registered EXCEPT ![s] = TRUE]
    /\ sender' = [sender EXCEPT ![s] = "running"]
    /\ UNCHANGED <<session_stop, feed, held, hubVars, threadVars, serverVars,
                   faults>>

-----------------------------------------------------------------------------
(* It ends.                                                                 *)

\* session_stop is a child of the server's token.
SessionStopped(s) == shutdown \/ session_stop[s]

SenderStops(s) ==
    /\ sender[s] = "running"
    /\ SessionStopped(s)
    /\ sender' = [sender EXCEPT ![s] = "ended"]
    /\ UNCHANGED <<task, registered, session_stop, feed, held, hubVars,
                   threadVars, serverVars, faults>>

\* A transport error ends the datagram task, which then stops the session.
SenderFails(s) ==
    /\ sender[s] = "running"
    /\ faults > 0
    /\ faults' = faults - 1
    /\ sender' = [sender EXCEPT ![s] = "ended"]
    /\ session_stop' = [session_stop EXCEPT ![s] = TRUE]
    /\ UNCHANGED <<task, registered, feed, held, hubVars, threadVars,
                   serverVars>>

\* process_control_messages returns: the peer left, or the session is to stop.
ControlEnds(s) ==
    /\ Goto(s, "streaming", "closing")
    /\ session_stop' = [session_stop EXCEPT ![s] = TRUE]
    /\ UNCHANGED <<registered, sender, feed, held, hubVars, threadVars,
                   serverVars, faults>>

\* The await on the datagram task.
SenderJoined(s) ==
    /\ sender[s] = "ended"
    /\ Goto(s, "closing", "leaving")
    /\ UNCHANGED <<registered, sender, session_stop, feed, held, hubVars,
                   threadVars, serverVars, faults>>

\* Mutant: the registration is left to the end of the scope.
MutantDropGuard(s) ==
    /\ Goto(s, "leaving", "unsubscribing")
    /\ UNCHANGED <<registered, sender, session_stop, feed, held, hubVars,
                   threadVars, serverVars, faults>>

DropGuard(s) ==
    /\ Goto(s, "leaving", "unsubscribing")
    /\ registered' = [registered EXCEPT ![s] = FALSE]
    /\ UNCHANGED <<sender, session_stop, feed, held, hubVars, threadVars,
                   serverVars, faults>>

\* Mutant: the capture is taken away although one subscriber is left.
MutantIsLast(remaining) == remaining <= 1

IsLast(remaining) == remaining = 0

\* The critical section of unsubscribe.
Unsubscribe(s) ==
    LET remaining == IF subscribers = 0 THEN 0 ELSE subscribers - 1
        taken == IF IsLast(remaining) THEN capture ELSE None
    IN
    /\ subscribers' = remaining
    /\ capture' = IF IsLast(remaining) THEN None ELSE capture
    /\ held' = [held EXCEPT ![s] = taken]
    /\ Goto(s, "unsubscribing", IF taken = None THEN "ended" ELSE "stopping")
    /\ UNCHANGED <<registered, sender, session_stop, feed, threadVars,
                   serverVars, faults>>

\* Mutant: the thread is joined without being told to stop.
MutantCancelled(c) == stop

Cancelled(c) == [stop EXCEPT ![c] = TRUE]

\* The rest of unsubscribe, outside the mutex: by now another session may
\* have started the next capture.
CancelCapture(s) ==
    /\ Goto(s, "stopping", "joining")
    /\ stop' = Cancelled(held[s])
    /\ UNCHANGED <<registered, sender, session_stop, feed, held, hubVars,
                   thread, serverVars, faults>>

Joined(s) ==
    /\ Goto(s, "joining", "ended")
    /\ thread[held[s]] = "ended"
    /\ UNCHANGED <<registered, sender, session_stop, feed, held, hubVars,
                   threadVars, serverVars, faults>>

-----------------------------------------------------------------------------
(* The capture thread.                                                      *)

CaptureStops(c) ==
    /\ thread[c] = "running"
    /\ stop[c]
    /\ thread' = [thread EXCEPT ![c] = "ended"]
    /\ UNCHANGED <<sessionVars, hubVars, stop, serverVars, faults>>

\* capture_loop returns an error: the thread cancels its own token.  The hub
\* keeps the handle and its subscribers hear nothing.
CaptureFails(c) ==
    /\ thread[c] = "running"
    /\ ~stop[c]
    /\ faults > 0
    /\ faults' = faults - 1
    /\ thread' = [thread EXCEPT ![c] = "ended"]
    /\ stop' = [stop EXCEPT ![c] = TRUE]
    /\ UNCHANGED <<sessionVars, hubVars, serverVars>>

-----------------------------------------------------------------------------
(* The server.                                                              *)

\* The window is closed, or Ctrl-C.
Shutdown ==
    /\ ~shutdown
    /\ shutdown' = TRUE
    /\ UNCHANGED <<sessionVars, hubVars, threadVars, server, faults>>

\* The accept loop breaks and sessions.shutdown() is awaited.
StopAccepting ==
    /\ server = "accepting"
    /\ shutdown
    /\ server' = "aborting"
    /\ UNCHANGED <<sessionVars, hubVars, threadVars, shutdown, faults>>

\* sessions.shutdown() aborts the tasks: each is dropped at the await where
\* it stands, with its registration, and never runs the rest.  A join that
\* was handed to a blocking thread goes on without it.
Abort(s) ==
    /\ server = "aborting"
    /\ task[s] \in {"handshake", "streaming", "closing", "joining"}
    /\ task' = [task EXCEPT ![s] =
           IF Subscribed(s) THEN "abandoned" ELSE "ended"]
    /\ registered' = [registered EXCEPT ![s] = FALSE]
    /\ UNCHANGED <<sender, session_stop, feed, held, hubVars, threadVars,
                   serverVars, faults>>

\* Every task is over; the endpoint is closed and goes idle.
WaitIdle ==
    /\ server = "aborting"
    /\ \A s \in Sessions : task[s] \in {"new", "ended", "abandoned"}
    /\ server' = "idle"
    /\ UNCHANGED <<sessionVars, hubVars, threadVars, shutdown, faults>>

\* run returns and drops the last reference to the hub, which stops and
\* joins the capture it still holds.
DropHub ==
    /\ server = "idle"
    /\ server' = "dropping"
    /\ stop' = IF capture = None THEN stop ELSE Cancelled(capture)
    /\ UNCHANGED <<sessionVars, hubVars, thread, shutdown, faults>>

HubDropped ==
    /\ server = "dropping"
    /\ capture # None => thread[capture] = "ended"
    /\ capture' = None
    /\ server' = "stopped"
    /\ UNCHANGED <<sessionVars, subscribers, threadVars, shutdown, faults>>

Stopped == server = "stopped" /\ UNCHANGED vars

-----------------------------------------------------------------------------
Next ==
    \/ \E s \in Sessions :
           \/ Accept(s)
           \/ HandshakeFails(s)
           \/ Subscribe(s)
           \/ SubscribeFails(s)
           \/ Stream(s)
           \/ SenderStops(s)
           \/ SenderFails(s)
           \/ ControlEnds(s)
           \/ SenderJoined(s)
           \/ DropGuard(s)
           \/ Unsubscribe(s)
           \/ CancelCapture(s)
           \/ Joined(s)
           \/ CaptureStops(s)
           \/ CaptureFails(s)
           \/ Abort(s)
    \/ Shutdown
    \/ StopAccepting
    \/ WaitIdle
    \/ DropHub
    \/ HubDropped
    \/ Stopped

Spec == Init /\ [][Next]_vars

\* Tasks and threads are scheduled; peers, faults and the operator are free.
Fairness ==
    /\ \A s \in Sessions :
           /\ WF_vars(Stream(s) \/ SenderJoined(s) \/ DropGuard(s)
                         \/ Unsubscribe(s) \/ CancelCapture(s) \/ Joined(s))
           /\ WF_vars(SessionStopped(s) /\ ControlEnds(s))
           /\ WF_vars(SenderStops(s))
           /\ WF_vars(CaptureStops(s))
           /\ WF_vars(Abort(s))
    /\ WF_vars(StopAccepting \/ WaitIdle \/ DropHub \/ HubDropped)

FairSpec == Spec /\ Fairness

-----------------------------------------------------------------------------
(* Properties.                                                              *)

TypeOK ==
    /\ task \in [Sessions -> Tasks]
    /\ registered \in [Sessions -> BOOLEAN]
    /\ sender \in [Sessions -> {"none", "running", "ended"}]
    /\ session_stop \in [Sessions -> BOOLEAN]
    /\ feed \in [Sessions -> Sessions \cup {None}]
    /\ held \in [Sessions -> Sessions \cup {None}]
    /\ capture \in Sessions \cup {None}
    /\ subscribers \in Nat
    /\ thread \in [Sessions -> {"none", "running", "ended"}]
    /\ stop \in [Sessions -> BOOLEAN]
    /\ shutdown \in BOOLEAN
    /\ server \in {"accepting", "aborting", "idle", "dropping", "stopped"}
    /\ faults \in Nat

\* While a session is subscribed, the capture that feeds it is the hub's, the
\* same for all of them, and nobody told it to stop: a running capture is
\* never cancelled under a subscriber by another one's departure, however
\* subscriptions, departures and joins overlap (the reference count of
\* hub.rs; "all receivers share a single sample timeline").
SharedCapture ==
    \A s \in Sessions : Subscribed(s) =>
        /\ feed[s] = capture
        /\ capture # None
        /\ stop[capture] => thread[capture] = "ended"

\* A receiver is in the registry only while its session is subscribed: it is
\* deregistered before the capture may be taken down, by an abort as well
\* (session.rs: "so the UI never shows a receiver whose session has already
\* ended").
RegisteredIsSubscribed ==
    \A s \in Sessions : registered[s] => Subscribed(s)

\* The loopback thread of a start that failed half way: the session that asked
\* for the capture got an error instead of a subscription, and the token and
\* the join handle were dropped with that error (hub.rs start_wasapi_capture).
Leaked(c) ==
    /\ "fanout" \in StartFaults
    /\ task[c] = "ended"
    /\ feed[c] = None

\* The first subscriber starts the capture thread and the last one to leave
\* stops it (hub.rs): a thread that runs and was not cancelled is the hub's, or
\* was taken by a session that is about to cancel it, or was leaked by a start
\* that failed half way.  One that was leaked stays apart: the hub does not
\* take it for its capture, so a later subscriber starts its own, and no
\* session is fed by it.
EveryThreadOwned ==
    \A c \in Sessions : (thread[c] = "running" /\ ~stop[c]) =>
        \/ capture = c
        \/ \E s \in Sessions : task[s] = "stopping" /\ held[s] = c
        \/ Leaked(c) /\ capture # c /\ \A s \in Sessions : feed[s] # c

\* A shutdown always completes: the session tasks end, run returns and no
\* capture thread is left running, whatever was being joined or started, but
\* for one leaked by a start that failed half way, which only the end of the
\* process stops.
ShutdownCompletes ==
    shutdown ~> /\ server = "stopped"
                /\ \A c \in Sessions : thread[c] = "running" => Leaked(c)
=============================================================================
