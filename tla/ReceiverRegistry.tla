-------------------------- MODULE ReceiverRegistry --------------------------
(***************************************************************************)
(* The registry of connected receivers, application/registry.rs, with the  *)
(* two message queues of every receiver's control stream.                  *)
(*                                                                         *)
(* One value of Receivers is one session (registry ids are never reused)   *)
(* and DeviceOf names the phone behind it, so a phone that reconnects      *)
(* appears under a second receiver.  Every critical section of the         *)
(* registry's mutex is one operator here.                                  *)
(*                                                                         *)
(* Request ids come from one global counter in the code and are only ever  *)
(* compared within one receiver: next_request counts them per receiver.    *)
(* Id 0 marks an unsolicited status.  The reply to a periodic query has a  *)
(* fresh id nobody waits for: it is QueryReply.                            *)
(***************************************************************************)
EXTENDS VolumeProfiles, Sequences

CONSTANTS
    Receivers,    \* the sessions that may ever be registered
    DeviceOf,     \* the phone behind each session
    ControlCap,   \* slots of a receiver's outbound queue (16 in session.rs)
    WindowCap     \* volume requests remembered per receiver (32)

ASSUME ReceiverAssumption == DeviceOf \in [Receivers -> Devices] /\ None \notin Receivers
ASSUME CapAssumption == ControlCap \in Nat \ {0} /\ WindowCap \in Nat \ {0}

VARIABLES
    session,          \* "new", "live" (registered) or "gone"
    device,           \* last status recorded for a receiver
    observed,         \* observed_volume
    unsolicited,      \* unsolicited_volume
    volume_requests,  \* ids of volume commands not answered yet
    panel_barrier,    \* id of the panel command whose receipt is awaited
    playback,         \* the receiver's playback gate
    replies,          \* receipts nobody has taken yet, by request id
    next_request,     \* next request id
    controls,         \* commands on their way to the phone, in order
    reports           \* statuses on their way to the registry, in order

registryVars == <<session, device, observed, unsolicited, volume_requests,
                  panel_barrier, playback, replies, next_request>>
linkVars == <<controls, reports>>

-----------------------------------------------------------------------------
(* Messages.                                                                *)

QueryReply == -1

Commands == [op : {"query", "set", "cancel", "tone"}, id : Nat, index : Levels]
QueryDevice == [op |-> "query", id |-> 0, index |-> 0]
CancelCalibration == [op |-> "cancel", id |-> 0, index |-> 0]
ToneOff == [op |-> "tone", id |-> 0, index |-> 0]
SetVolume(id, index) == [op |-> "set", id |-> id, index |-> index]

\* `after' is a history field: the last volume command the phone had carried
\* out on this session when it made the report.
Reports == [status : Statuses, id : Nat \cup {QueryReply}, after : Nat]

\* An event remembers, as history, the `after' of its report.
Events == [volume : Levels, after : Nat]

-----------------------------------------------------------------------------
(* Reading the registry.                                                    *)

Live == {r \in Receivers : session[r] = "live"}

Snapshots == [r \in Live |-> device[r]]

HasRoom(r) == Len(controls[r]) < ControlCap

-----------------------------------------------------------------------------
(* Gates.                                                                   *)

DenyAll == playback' = [r \in Receivers |-> FALSE]

SameRange(a, b) == a.device = b.device

\* Mutant: the approval trusts the tick's snapshot.
MutantStillAsExpected(r, expected) ==
    session[r] = "live" /\ device[r] # None

\* approve compares what a tick saw with what is recorded by now.
StillAsExpected(r, expected) ==
    /\ session[r] = "live"
    /\ device[r] # None
    /\ SameRange(device[r], expected)
    /\ device[r].volume = expected.volume
    /\ device[r].usable
    /\ ~device[r].failed

Approve(members, snapshot) ==
    LET ready == \A r \in members : StillAsExpected(r, snapshot[r])
    IN  playback' = [r \in Receivers |->
                        ready /\ r \in members /\ session[r] = "live"]

-----------------------------------------------------------------------------
(* Sending.                                                                 *)

\* broadcast: a receiver whose queue is full misses the message.
Broadcast(queues, message) ==
    [r \in Receivers |->
        IF session[r] = "live" /\ Len(queues[r]) < ControlCap
        THEN Append(queues[r], message) ELSE queues[r]]

\* The receivers of `asked' whose volume request can be queued.
Reachable(asked) == {r \in asked : session[r] = "live" /\ HasRoom(r)}

\* Ids of a full window make room for the new one by dropping the smallest.
Remember(window, id) ==
    {i \in window : Cardinality(window) >= WindowCap => \E j \in window : j < i}
        \cup {id}

\* volume_request_with_barrier for every receiver of `sent' at once; `level'
\* gives each its index and `queues' the queues the commands are added to.
VolumeRequests(sent, level, queues) ==
    /\ controls' = [r \in Receivers |->
           IF r \in sent
           THEN Append(queues[r], SetVolume(next_request[r], level[r]))
           ELSE queues[r]]
    /\ volume_requests' = [r \in Receivers |->
           IF r \in sent THEN Remember(volume_requests[r], next_request[r])
                         ELSE volume_requests[r]]
    /\ next_request' = [r \in Receivers |->
           IF r \in sent THEN next_request[r] + 1 ELSE next_request[r]]

\* Mutant: an event recorded before the command survives it.
MutantRaiseBarrier(sent) ==
    /\ panel_barrier' = [r \in Receivers |->
           IF r \in sent THEN next_request[r] ELSE panel_barrier[r]]
    /\ UNCHANGED unsolicited

\* Its barrier: events from before the command are not to be believed.
RaiseBarrier(sent) ==
    /\ panel_barrier' = [r \in Receivers |->
           IF r \in sent THEN next_request[r] ELSE panel_barrier[r]]
    /\ unsolicited' = [r \in Receivers |->
           IF r \in sent THEN None ELSE unsolicited[r]]

-----------------------------------------------------------------------------
(* Receivers come, report and leave.                                        *)

Register(r) ==
    /\ session[r] = "new"
    /\ session' = [session EXCEPT ![r] = "live"]
    /\ UNCHANGED <<device, observed, unsolicited, volume_requests,
                   panel_barrier, playback, replies, next_request, controls,
                   reports>>

\* remove: every gate is shut, the queues of the session are lost.
Deregister(r) ==
    /\ session[r] = "live"
    /\ session' = [session EXCEPT ![r] = "gone"]
    /\ device' = [device EXCEPT ![r] = None]
    /\ observed' = [observed EXCEPT ![r] = None]
    /\ unsolicited' = [unsolicited EXCEPT ![r] = None]
    /\ volume_requests' = [volume_requests EXCEPT ![r] = {}]
    /\ panel_barrier' = [panel_barrier EXCEPT ![r] = None]
    /\ replies' = [replies EXCEPT ![r] = [i \in {} |-> None]]
    /\ controls' = [controls EXCEPT ![r] = <<>>]
    /\ reports' = [reports EXCEPT ![r] = <<>>]
    /\ DenyAll
    /\ UNCHANGED next_request

PlainEvent(report) ==
    report.id = 0 /\ ~report.status.failed /\ report.status.usable

\* A status of request id 0 that differs from what was observed before is a
\* change made at the phone, unless a panel command is still unanswered.
IsPhysicalChange(r, report) ==
    /\ panel_barrier[r] = None
    /\ observed[r] # None
    /\ observed[r] # report.status.volume

\* Mutant: a failure report leaves the gate alone.
MutantSameOutput(old, status) ==
    old # None /\ old.volume = status.volume /\ old.device = status.device

\* The status tells nothing new about the phone's output.
SameOutput(old, status) == old = status

\* The receipt of the panel command lifts its barrier.
Lifted(barrier, report) == IF barrier = report.id THEN None ELSE barrier

\* update_device, for the report at the head of the stream.
UpdateDevice(r) ==
    LET report == Head(reports[r])
        status == report.status
        old == device[r]
        sameDevice == old # None /\ SameRange(old, status)
        answers == /\ sameDevice
                   /\ ~PlainEvent(report)
                   /\ report.id \in volume_requests[r]
    IN
    /\ session[r] = "live"
    /\ reports[r] # <<>>
    /\ reports' = [reports EXCEPT ![r] = Tail(@)]
    /\ observed' = [observed EXCEPT ![r] =
           IF \/ ~sameDevice
              \/ PlainEvent(report)
              \/ answers /\ (~status.failed \/ status.usable)
           THEN status.volume ELSE @]
    /\ unsolicited' = [unsolicited EXCEPT ![r] =
           IF ~sameDevice THEN None
           ELSE IF PlainEvent(report) /\ IsPhysicalChange(r, report)
           THEN [volume |-> status.volume, after |-> report.after] ELSE @]
    /\ volume_requests' = [volume_requests EXCEPT ![r] =
           IF answers THEN @ \ {report.id} ELSE @]
    /\ panel_barrier' = [panel_barrier EXCEPT ![r] = Lifted(@, report)]
    /\ playback' = [playback EXCEPT ![r] = @ /\ SameOutput(old, status)]
    /\ device' = [device EXCEPT ![r] = status]
    /\ replies' = [replies EXCEPT ![r] =
           IF report.id \in {0, QueryReply} THEN @
           ELSE [i \in DOMAIN @ \cup {report.id} |->
                    IF i = report.id THEN status ELSE @[i]]]
    /\ UNCHANGED <<session, next_request, controls>>
=============================================================================
