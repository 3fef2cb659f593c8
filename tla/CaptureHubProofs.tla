-------------------------- MODULE CaptureHubProofs --------------------------
(***************************************************************************)
(* For every finite set of sessions: the capture shared by the subscribed  *)
(* sessions is the hub's and is not stopped under them.  The argument is   *)
(* that the count is exact (CountExact), so the capture is taken only when *)
(* nobody is subscribed, and that the captures taken before (held) are     *)
(* never the hub's current one, so that cancelling them late, outside the  *)
(* mutex, hurts nobody.                                                    *)
(***************************************************************************)
EXTENDS CaptureHub, FiniteSetTheorems, TLAPS

\* The hub's counter is the number of sessions that subscribed and never
\* unsubscribed, and it holds a capture exactly when there are some.
CountExact ==
    /\ subscribers = Cardinality(Counted)
    /\ server # "stopped" => (capture = None <=> Counted = {})

\* Every counted session receives the blocks of the hub's capture; a task that
\* is not over keeps the server from dropping the hub.
FeedIsCapture ==
    /\ server # "stopped" => \A s \in Counted : feed[s] = capture
    /\ server \in {"idle", "dropping", "stopped"} =>
           \A s \in Sessions : task[s] \in {"new", "ended", "abandoned"}

\* The hub's capture was started, and if it was cancelled before the hub is
\* dropped it failed by itself.
CaptureStarted ==
    capture # None =>
        /\ thread[capture] # "none"
        /\ (stop[capture] /\ server # "dropping") => thread[capture] = "ended"

\* A session has started no capture before it subscribes, and holds a started
\* one that is not the hub's while it stops it.
HeldApart ==
    /\ \A s \in Sessions : task[s] \in {"new", "handshake"} =>
           thread[s] = "none" /\ ~stop[s]
    /\ \A s \in Sessions : task[s] \in {"stopping", "joining"} =>
           /\ held[s] \in Sessions
           /\ held[s] # capture
           /\ thread[held[s]] # "none"

IInv == TypeOK /\ CountExact /\ FeedIsCapture /\ CaptureStarted /\ HeldApart

-----------------------------------------------------------------------------
(* Typing.                                                                  *)

\* The initial state is typed.
LEMMA InitTyped == Init => TypeOK
<1> SUFFICES ASSUME Init PROVE TypeOK
  OBVIOUS
<1>1. /\ registered \in [Sessions -> BOOLEAN]
      /\ session_stop \in [Sessions -> BOOLEAN]
      /\ stop \in [Sessions -> BOOLEAN]
      /\ shutdown \in BOOLEAN
  BY Zenon DEF Init
<1>2. subscribers \in Nat /\ faults \in Nat
  BY FaultAssumption DEF Init
<1>3. QED
  BY <1>1, <1>2, Zenon DEF Init, TypeOK, Tasks

\* Every step keeps every variable in its type: no hub or session operation
\* writes a value the code's types do not have.
LEMMA TypeStep == TypeOK /\ [Next]_vars => TypeOK'
<1> SUFFICES ASSUME TypeOK, [Next]_vars PROVE TypeOK'
  OBVIOUS
<1> USE DEF TypeOK, Tasks, Goto
<1>1. ASSUME NEW s \in Sessions,
             Accept(s) \/ HandshakeFails(s) \/ Stream(s) \/ ControlEnds(s)
                \/ SenderJoined(s) \/ DropGuard(s) \/ Joined(s) \/ Abort(s)
      PROVE  TypeOK'
  BY <1>1 DEF Accept, HandshakeFails, Stream, ControlEnds, SenderJoined,
              DropGuard, Joined, Abort, hubVars, threadVars, serverVars
<1>2. ASSUME NEW s \in Sessions, Subscribe(s) \/ SubscribeFails(s)
      PROVE  TypeOK'
  BY <1>2 DEF Subscribe, SubscribeFails, hubVars, threadVars, serverVars
<1>3. ASSUME NEW s \in Sessions, SenderStops(s) \/ SenderFails(s)
      PROVE  TypeOK'
  <2>1. faults' \in Nat
    BY <1>3 DEF SenderStops, SenderFails
  <2>2. session_stop' \in [Sessions -> BOOLEAN]
    BY <1>3, Zenon DEF SenderStops, SenderFails
  <2>3. QED
    BY <1>3, <2>1, <2>2 DEF SenderStops, SenderFails, hubVars, threadVars,
                            serverVars
<1>4. ASSUME NEW s \in Sessions, Unsubscribe(s) \/ CancelCapture(s)
      PROVE  TypeOK'
  <2>1. CASE Unsubscribe(s)
    BY <2>1 DEF Unsubscribe, IsLast, threadVars, serverVars
  <2>2. CASE CancelCapture(s)
    <3>1. stop' \in [Sessions -> BOOLEAN]
      BY <2>2, Zenon DEF CancelCapture, Cancelled
    <3>2. QED
      BY <2>2, <3>1 DEF CancelCapture, hubVars, serverVars
  <2>3. QED
    BY <1>4, <2>1, <2>2
<1>5. ASSUME NEW s \in Sessions, CaptureStops(s) \/ CaptureFails(s)
      PROVE  TypeOK'
  <2>1. faults' \in Nat
    BY <1>5 DEF CaptureStops, CaptureFails
  <2>2. stop' \in [Sessions -> BOOLEAN]
    BY <1>5, Zenon DEF CaptureStops, CaptureFails
  <2>3. QED
    BY <1>5, <2>1, <2>2 DEF CaptureStops, CaptureFails, sessionVars, hubVars,
                            serverVars
<1>6. CASE Shutdown \/ StopAccepting \/ WaitIdle \/ DropHub \/ HubDropped
  BY <1>6 DEF Shutdown, StopAccepting, WaitIdle, DropHub, HubDropped,
              Cancelled, sessionVars, hubVars, threadVars
<1>7. CASE Stopped \/ UNCHANGED vars
  BY <1>7 DEF Stopped, vars, sessionVars, hubVars, threadVars, serverVars
<1>8. QED
  BY <1>1, <1>2, <1>3, <1>4, <1>5, <1>6, <1>7 DEF Next

\* Typing, for every set of sessions and every bound on faults.
THEOREM Typing == Spec => []TypeOK
BY InitTyped, TypeStep, PTL DEF Spec

-----------------------------------------------------------------------------
(* The reference count.                                                     *)

\* The hub only ever counts finitely many sessions.
LEMMA CountedFinite == IsFiniteSet(Counted)
BY SessionAssumption, FS_Subset DEF Counted

\* What subscribe does to the count.
LEMMA CountSubscribe ==
    ASSUME NEW s \in Sessions, TypeOK, Subscribe(s)
    PROVE  /\ Counted' = Counted \cup {s}
           /\ Cardinality(Counted') = Cardinality(Counted) + 1
<1>1. s \notin Counted
  BY DEF Counted, Subscribed, Subscribe, Goto
<1>2. Counted' = Counted \cup {s}
  BY DEF Counted, Subscribed, Subscribe, Goto, TypeOK
<1>3. QED
  BY <1>1, <1>2, CountedFinite, FS_AddElement

\* What unsubscribe does to it: the counter never saturates.
LEMMA CountUnsubscribe ==
    ASSUME NEW s \in Sessions, TypeOK, Unsubscribe(s)
    PROVE  /\ s \in Counted
           /\ Counted' = Counted \ {s}
           /\ Cardinality(Counted') = Cardinality(Counted) - 1
           /\ Cardinality(Counted) \in Nat \ {0}
           /\ Cardinality(Counted') = 0 <=> Counted' = {}
<1>1. s \in Counted
  BY DEF Counted, Subscribed, Unsubscribe, Goto
<1>2. Counted' = Counted \ {s}
  BY DEF Counted, Subscribed, Unsubscribe, Goto, TypeOK
<1>3. IsFiniteSet(Counted')
  BY <1>2, CountedFinite, FS_RemoveElement
<1>4. Cardinality(Counted') = Cardinality(Counted) - 1
  BY <1>1, <1>2, CountedFinite, FS_RemoveElement
<1>5. Cardinality(Counted) \in Nat /\ Cardinality(Counted) # 0
  BY <1>1, CountedFinite, FS_CardinalityType, FS_EmptySet
<1>6. Cardinality(Counted') = 0 <=> Counted' = {}
  BY <1>3, FS_EmptySet
<1>7. QED
  BY <1>1, <1>2, <1>4, <1>5, <1>6

-----------------------------------------------------------------------------
(* The inductive invariant, one lemma per group of actions.                 *)

\* With no session counted and no capture, the invariant holds at the start.
LEMMA InitInv == Init => IInv
<1> SUFFICES ASSUME Init PROVE IInv
  OBVIOUS
<1>1. Counted = {}
  BY DEF Init, Counted, Subscribed
<1>2. Cardinality(Counted) = 0
  BY <1>1, FS_EmptySet
<1>3. QED
  BY <1>1, <1>2, InitTyped
     DEF Init, IInv, CountExact, FeedIsCapture, CaptureStarted, HeldApart

\* subscribe: a fresh capture was started by nobody else, so no session holds
\* it.
LEMMA SubscribeInv ==
    ASSUME NEW s \in Sessions, IInv, TypeOK', Subscribe(s)
    PROVE  IInv'
<1> USE DEF IInv, Subscribe, Goto, MustStart, serverVars
<1>1. Counted' = Counted \cup {s} /\ Cardinality(Counted') = Cardinality(Counted) + 1
  BY CountSubscribe
<1>2. server \notin {"idle", "dropping", "stopped"}
  BY DEF FeedIsCapture
<1>3. capture' # None /\ s # None
  BY SessionAssumption
<1>4. CountExact'
  BY <1>1, <1>3 DEF CountExact
<1>5. FeedIsCapture'
  BY <1>1, <1>2 DEF FeedIsCapture, CountExact, TypeOK
<1>6. CaptureStarted'
  BY <1>2 DEF CaptureStarted, HeldApart, TypeOK
<1>7. HeldApart'
  BY DEF HeldApart, TypeOK
<1>8. QED
  BY <1>4, <1>5, <1>6, <1>7

\* unsubscribe: the count is exact, so the capture is taken from the hub only
\* when no session is counted any more.
LEMMA UnsubscribeInv ==
    ASSUME NEW s \in Sessions, IInv, TypeOK', Unsubscribe(s)
    PROVE  IInv'
<1> USE DEF IInv, Unsubscribe, Goto, serverVars, threadVars, IsLast
<1>1. /\ s \in Counted
      /\ Counted' = Counted \ {s}
      /\ Cardinality(Counted') = Cardinality(Counted) - 1
      /\ Cardinality(Counted) \in Nat \ {0}
      /\ Cardinality(Counted') = 0 <=> Counted' = {}
  BY CountUnsubscribe
<1>2. server \notin {"idle", "dropping", "stopped"}
  BY DEF FeedIsCapture
<1>3. subscribers' = Cardinality(Counted')
  BY <1>1 DEF CountExact
<1>4. capture # None
  BY <1>1, <1>2 DEF CountExact
<1>5. capture' = None <=> Counted' = {}
  BY <1>1, <1>3, <1>4
<1>6. CountExact'
  BY <1>3, <1>5 DEF CountExact
<1>7. FeedIsCapture'
  <2>1. ASSUME NEW t \in Counted' PROVE feed'[t] = capture'
    BY <1>1, <1>2, <1>5, <2>1 DEF FeedIsCapture
  <2>2. QED
    BY <1>2, <2>1 DEF FeedIsCapture
<1>8. CaptureStarted'
  BY DEF CaptureStarted
<1>9. HeldApart'
  BY <1>4, SessionAssumption DEF HeldApart, CaptureStarted, TypeOK
<1>10. QED
  BY <1>6, <1>7, <1>8, <1>9

\* A session moves without touching the hub: it stays on the same side of the
\* count.
LEMMA SessionInv ==
    ASSUME NEW s \in Sessions, IInv, TypeOK',
           \/ Accept(s) \/ HandshakeFails(s) \/ SubscribeFails(s) \/ Stream(s)
           \/ ControlEnds(s) \/ SenderJoined(s) \/ DropGuard(s)
           \/ CancelCapture(s) \/ Joined(s) \/ Abort(s)
           \/ SenderStops(s) \/ SenderFails(s)
    PROVE  IInv'
<1> USE DEF IInv, Goto, hubVars, serverVars, threadVars, Accept,
            HandshakeFails, SubscribeFails, Stream, ControlEnds, SenderJoined,
            DropGuard, CancelCapture, Joined, Abort, SenderStops, SenderFails
<1>1. Counted' = Counted
  BY DEF Counted, Subscribed, TypeOK
<1>2. UNCHANGED <<capture, subscribers, feed, server>>
  OBVIOUS
<1>3. CountExact'
  BY <1>1, <1>2 DEF CountExact
<1>4. FeedIsCapture'
  BY <1>1, <1>2 DEF FeedIsCapture, TypeOK
<1>5. CaptureStarted'
  BY <1>2 DEF CaptureStarted, HeldApart, MustStart, Cancelled, TypeOK
<1>6. HeldApart'
  BY <1>2 DEF HeldApart, MustStart, Cancelled, TypeOK
<1>7. QED
  BY <1>3, <1>4, <1>5, <1>6

\* The capture thread and the server.
LEMMA ServerInv ==
    ASSUME IInv, TypeOK',
           \/ \E c \in Sessions : CaptureStops(c) \/ CaptureFails(c)
           \/ Shutdown \/ StopAccepting \/ WaitIdle \/ DropHub \/ HubDropped
           \/ UNCHANGED vars
    PROVE  IInv'
<1> USE DEF IInv, CaptureStops, CaptureFails, Shutdown, StopAccepting,
            WaitIdle, DropHub, HubDropped, Cancelled, vars, sessionVars,
            hubVars, threadVars, serverVars
<1>1. Counted' = Counted
  BY DEF Counted, Subscribed
<1>2. CountExact'
  BY <1>1 DEF CountExact
<1>3. FeedIsCapture'
  BY <1>1 DEF FeedIsCapture
<1>4. CaptureStarted'
  BY DEF CaptureStarted, TypeOK
<1>5. HeldApart'
  BY DEF HeldApart, TypeOK, FeedIsCapture, CaptureStarted
<1>6. QED
  BY <1>2, <1>3, <1>4, <1>5

\* Every step preserves the invariant.
LEMMA NextInv == IInv /\ [Next]_vars => IInv'
<1> SUFFICES ASSUME IInv, [Next]_vars PROVE IInv'
  OBVIOUS
<1>1. TypeOK'
  BY TypeStep DEF IInv
<1>2. CASE UNCHANGED vars \/ Stopped
  BY <1>1, <1>2, ServerInv DEF Stopped
<1>3. CASE Next
  BY <1>1, <1>2, <1>3, ServerInv, SessionInv, SubscribeInv, UnsubscribeInv
     DEF Next
<1>4. QED
  BY <1>2, <1>3

\* Whatever the number of sessions and however their subscriptions, departures
\* and joins overlap, every subscribed session is fed by the hub's capture and
\* no other session's departure cancels it (hub.rs subscribe, unsubscribe).
THEOREM SharedCaptureHolds == Spec => []SharedCapture
<1>1. IInv => SharedCapture
  BY DEF IInv, CountExact, FeedIsCapture, CaptureStarted, SharedCapture,
         Counted, Subscribed
<1>2. QED
  BY InitInv, NextInv, <1>1, PTL DEF Spec

-----------------------------------------------------------------------------
(* Ownership of threads, and registration.                                  *)

\* A capture that feeds a session was started by a subscription that
\* succeeded, and so was the hub's.
Fed ==
    /\ capture # None => feed[capture] = capture
    /\ \A s \in Sessions : feed[s] # None => feed[feed[s]] = feed[s]
    /\ \A s \in Sessions : feed[s] # None => task[s] \notin {"new", "handshake"}

\* Every running thread has an owner, or was leaked.
Owned ==
    \A c \in Sessions : (thread[c] = "running" /\ ~stop[c]) =>
        \/ capture = c
        \/ \E s \in Sessions : task[s] = "stopping" /\ held[s] = c
        \/ Leaked(c)

\* A step keeps the captures that feed sessions apart from the leaked ones.
LEMMA FedStep ==
    ASSUME IInv, Fed, [Next]_vars
    PROVE  Fed'
<1> USE DEF Fed, IInv, TypeOK, Goto
<1>1. ASSUME NEW s \in Sessions, Subscribe(s)
      PROVE  Fed'
  <2>1. capture' \in Sessions /\ feed' = [feed EXCEPT ![s] = capture']
    BY <1>1 DEF Subscribe, MustStart
  <2>2. CASE capture = None
    BY <1>1, <2>1, <2>2, SessionAssumption DEF Subscribe, MustStart
  <2>3. CASE capture # None
    BY <1>1, <2>1, <2>3, SessionAssumption DEF Subscribe, MustStart
  <2>4. QED
    BY <2>2, <2>3
<1>2. ASSUME NEW s \in Sessions, Unsubscribe(s)
      PROVE  Fed'
  BY <1>2 DEF Unsubscribe, IsLast
<1>3. ASSUME NEW s \in Sessions,
             Accept(s) \/ HandshakeFails(s) \/ SubscribeFails(s) \/ Stream(s)
                \/ ControlEnds(s) \/ SenderJoined(s) \/ DropGuard(s)
                \/ CancelCapture(s) \/ Joined(s) \/ Abort(s)
                \/ SenderStops(s) \/ SenderFails(s)
      PROVE  Fed'
  BY <1>3 DEF Accept, HandshakeFails, SubscribeFails, Stream, ControlEnds,
              SenderJoined, DropGuard, CancelCapture, Joined, Abort,
              SenderStops, SenderFails, hubVars
<1>4. ASSUME NEW s \in Sessions, CaptureStops(s) \/ CaptureFails(s)
      PROVE  Fed'
  BY <1>4 DEF CaptureStops, CaptureFails, sessionVars, hubVars
<1>5. CASE \/ Shutdown \/ StopAccepting \/ WaitIdle \/ DropHub \/ HubDropped
           \/ Stopped \/ UNCHANGED vars
  BY <1>5 DEF Shutdown, StopAccepting, WaitIdle, DropHub, HubDropped, Stopped,
              vars, sessionVars, hubVars
<1>6. QED
  BY <1>1, <1>2, <1>3, <1>4, <1>5 DEF Next

\* A step keeps every running thread owned or leaked.
LEMMA OwnedStep ==
    ASSUME IInv, Fed, Owned, [Next]_vars
    PROVE  Owned'
<1> USE DEF Owned, Leaked, IInv, TypeOK, Goto
<1>1. ASSUME NEW s \in Sessions, Subscribe(s)
      PROVE  Owned'
  BY <1>1, SessionAssumption DEF Subscribe, MustStart
<1>2. ASSUME NEW s \in Sessions, Unsubscribe(s)
      PROVE  Owned'
  BY <1>2, SessionAssumption DEF Unsubscribe, IsLast, threadVars
<1>3. ASSUME NEW s \in Sessions, CancelCapture(s)
      PROVE  Owned'
  BY <1>3 DEF CancelCapture, Cancelled, HeldApart, hubVars
<1>4. ASSUME NEW s \in Sessions, SubscribeFails(s)
      PROVE  Owned'
  <2>1. feed[s] = None
    BY <1>4 DEF SubscribeFails, Fed
  <2>2. CASE thread' = thread
    BY <1>4, <2>2 DEF SubscribeFails, hubVars
  <2>3. CASE "fanout" \in StartFaults /\ thread' = [thread EXCEPT ![s] = "running"]
    BY <1>4, <2>1, <2>3 DEF SubscribeFails, hubVars
  <2>4. QED
    BY <1>4, <2>2, <2>3 DEF SubscribeFails
<1>5. ASSUME NEW s \in Sessions,
             Accept(s) \/ HandshakeFails(s) \/ Stream(s)
                \/ ControlEnds(s) \/ SenderJoined(s) \/ DropGuard(s)
                \/ Joined(s) \/ Abort(s) \/ SenderStops(s) \/ SenderFails(s)
      PROVE  Owned'
  BY <1>5 DEF Accept, HandshakeFails, Stream, ControlEnds,
              SenderJoined, DropGuard, Joined, Abort, SenderStops, SenderFails,
              hubVars, threadVars
<1>6. ASSUME NEW s \in Sessions, CaptureStops(s) \/ CaptureFails(s)
      PROVE  Owned'
  BY <1>6 DEF CaptureStops, CaptureFails, sessionVars, hubVars
<1>7. CASE DropHub \/ HubDropped
  BY <1>7 DEF DropHub, HubDropped, Cancelled, sessionVars, hubVars, threadVars
<1>8. CASE Shutdown \/ StopAccepting \/ WaitIdle \/ Stopped \/ UNCHANGED vars
  BY <1>8 DEF Shutdown, StopAccepting, WaitIdle, Stopped, vars, sessionVars,
              hubVars, threadVars
<1>9. QED
  BY <1>1, <1>2, <1>3, <1>4, <1>5, <1>6, <1>7, <1>8 DEF Next

\* Whichever of its two threads a start fails to spawn, a capture thread that
\* runs uncancelled is the hub's, or about to be cancelled by the session that
\* took it, or the leaked loopback thread of a start that failed half way,
\* which the hub does not hold and which feeds no session.  So where the
\* fan-out thread always starts, every thread has somebody to stop it.
THEOREM EveryThreadOwnedHolds == Spec => []EveryThreadOwned
<1>1. Init => Fed /\ Owned
  BY SessionAssumption DEF Init, Fed, Owned
<1>2. IInv /\ Fed /\ Owned /\ [Next]_vars => Fed' /\ Owned'
  BY FedStep, OwnedStep
<1>3. IInv /\ Fed /\ Owned => EveryThreadOwned
  BY SessionAssumption
     DEF Fed, Owned, EveryThreadOwned, Leaked, IInv, TypeOK
<1>4. QED
  BY InitInv, NextInv, <1>1, <1>2, <1>3, PTL DEF Spec

\* The steps of session::run between which a receiver is registered.
RegisteredSpan ==
    \A s \in Sessions :
        registered[s] => task[s] \in {"streaming", "closing", "leaving"}

\* A receiver is deregistered before its session unsubscribes, on every path
\* out of session::run, an abort included.
THEOREM RegisteredIsSubscribedHolds == Spec => []RegisteredIsSubscribed
<1>1. Init => RegisteredSpan
  BY DEF Init, RegisteredSpan
<1>2. TypeOK /\ RegisteredSpan /\ [Next]_vars => RegisteredSpan'
  <2> SUFFICES ASSUME TypeOK, RegisteredSpan, [Next]_vars
               PROVE  RegisteredSpan'
    OBVIOUS
  <2> USE DEF TypeOK, RegisteredSpan, Goto
  <2>1. ASSUME NEW s \in Sessions,
               Accept(s) \/ HandshakeFails(s) \/ Subscribe(s)
                  \/ SubscribeFails(s) \/ Stream(s) \/ ControlEnds(s)
                  \/ SenderJoined(s) \/ DropGuard(s)
        PROVE  RegisteredSpan'
    BY <2>1 DEF Accept, HandshakeFails, Subscribe, SubscribeFails, Stream,
                ControlEnds, SenderJoined, DropGuard
  <2>2. ASSUME NEW s \in Sessions,
               Unsubscribe(s) \/ CancelCapture(s) \/ Joined(s) \/ Abort(s)
                  \/ SenderStops(s) \/ SenderFails(s)
        PROVE  RegisteredSpan'
    BY <2>2 DEF Unsubscribe, CancelCapture, Joined, Abort, SenderStops,
                SenderFails
  <2>3. CASE UNCHANGED sessionVars
    BY <2>3 DEF sessionVars
  <2>4. QED
    BY <2>1, <2>2, <2>3
       DEF Next, CaptureStops, CaptureFails, Shutdown, StopAccepting, WaitIdle,
           DropHub, HubDropped, Stopped, vars
<1>3. RegisteredSpan => RegisteredIsSubscribed
  BY DEF RegisteredSpan, RegisteredIsSubscribed, Subscribed
<1>4. QED
  BY Typing, <1>1, <1>2, <1>3, PTL DEF Spec
=============================================================================
