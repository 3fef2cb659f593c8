--------------------------- MODULE VolumeControl ---------------------------
(***************************************************************************)
(* The volume controller, application/volume_control.rs: it drives every   *)
(* phone to the level its calibration profile asks for and opens the       *)
(* playback gates only when all of them stand there.                       *)
(*                                                                         *)
(* The operator's commands and the worker's tick exclude each other with   *)
(* the controller's mutex, held while pc # "idle".  A tick takes the       *)
(* registry's mutex many times, so statuses, registrations and departures  *)
(* interleave with it: it is four steps, TickSnapshot, TickReplies,        *)
(* TickTargets and TickPublish, separated where something it read before   *)
(* is used afterwards.                                                     *)
(***************************************************************************)
EXTENDS PhoneVolume

CONSTANTS
    Stored,       \* the library file's possible contents when the server starts
    Drafts,       \* the drafts calibration can produce: [id, profile]
    MaxPanel      \* bound on the operator's commands, drafts apart

ASSUME LibraryAssumption ==
    /\ \A l \in Stored : l # None => IsLibrary(l)
    /\ \A d \in Drafts : d.id \in Nat /\ d.profile \in Profiles
    /\ MaxPanel \in Nat

VARIABLES
    library,      \* the library in memory
    draft,        \* the profile being calibrated
    editing,      \* the calibration window is open
    originals,    \* levels to restore when it closes, by receiver
    pending,      \* unanswered volume commands, by receiver
    blocked,      \* receivers that failed a command
    master_seen,  \* the receiver the last tick took for the master
    dirty,        \* the library has to be saved
    confirmed,    \* [id, index] last seen in force
    load_error,   \* the file could not be read
    needs_fence,  \* the active profile was just switched to
    calibrating,  \* AudioTransmissionGate: formal audio is held back
    disk,         \* the library file
    worker,       \* "running", "stopped" or "finished"
    pc,           \* the step of the tick in progress
    snap,         \* the snapshot of the tick
    plan,         \* the decision of the tick: [ready, members, index]
    panel,        \* operator commands that may still be given
    settled,      \* history: the levels that were ever in force, per profile
    commanded,    \* history: per receiver, id of its latest panel command
    fence         \* history: per receiver, the command that makes it the master of
                  \* the profile switched to has at least this request id

profileVars == <<library, draft, confirmed, dirty, disk, load_error>>
commandVars == <<pending, blocked, master_seen, needs_fence>>
windowVars == <<editing, originals, calibrating>>
tickVars == <<pc, snap, plan>>
historyVars == <<settled, commanded, fence>>
controllerVars == <<profileVars, commandVars, windowVars, tickVars,
                    historyVars, worker, panel>>
vars == <<registryVars, linkVars, phoneVars, controllerVars>>

NoPlan == [ready |-> FALSE, members |-> {}, index |-> None]
NoSnap == [r \in {} |-> None]

\* The contents of a file that cannot be decoded.
Unreadable == None

Confirmed(l) ==
    IF Current(l) = None THEN None
    ELSE [id |-> l.active, index |-> Current(l).volume]

Init ==
    /\ session = [r \in Receivers |-> "new"]
    /\ device = [r \in Receivers |-> None]
    /\ observed = [r \in Receivers |-> None]
    /\ unsolicited = [r \in Receivers |-> None]
    /\ volume_requests = [r \in Receivers |-> {}]
    /\ panel_barrier = [r \in Receivers |-> None]
    /\ playback = [r \in Receivers |-> FALSE]
    /\ replies = [r \in Receivers |-> [i \in {} |-> None]]
    /\ next_request = [r \in Receivers |-> 1]
    /\ controls = [r \in Receivers |-> <<>>]
    /\ reports = [r \in Receivers |-> <<>>]
    /\ PhoneInit
    /\ disk \in Stored
    /\ load_error = (disk = Unreadable)
    /\ library = IF load_error THEN EmptyLibrary ELSE disk
    /\ confirmed = Confirmed(library)
    /\ draft = None
    /\ dirty = FALSE
    /\ pending = [r \in Receivers |-> None]
    /\ blocked = {}
    /\ master_seen = None
    /\ needs_fence = FALSE
    /\ editing = FALSE
    /\ originals = [r \in {} |-> None]
    /\ calibrating = FALSE
    /\ worker = "running"
    /\ pc = "idle"
    /\ snap = NoSnap
    /\ plan = NoPlan
    /\ panel = MaxPanel
    /\ settled = {<<i, library.profiles[i].volume>> : i \in DOMAIN library.profiles}
    /\ commanded = [r \in Receivers |-> 0]
    /\ fence = [r \in Receivers |-> 0]

\* Mutant: the wished-for volume is saved.
MutantPersisted == library

\* State::persisted: what is saved has the confirmed volume, not the wish.
Persisted ==
    IF confirmed = None THEN library
    ELSE WithVolume(library, confirmed.id, confirmed.index)

\* Mutant: a failed load does not forbid saving.
MutantWritable == TRUE

\* State::ensure_writable.
Writable == ~load_error

Pending(r, index) == [request |-> next_request[r], index |-> index]

\* The fence that is left once these receivers were commanded for it.
FenceAt(sent) == [r \in Receivers |-> IF r \in sent THEN fence[r] ELSE 0]

-----------------------------------------------------------------------------
(* Commands of the operator.                                                *)

OperatorMay ==
    /\ worker = "running"
    /\ pc = "idle"
    /\ panel > 0
    /\ panel' = panel - 1

Open ==
    /\ OperatorMay
    /\ ~editing
    /\ \A r \in Receivers : pending[r] = None
    /\ editing' = TRUE
    /\ draft' = IF Current(library) = None THEN None
                ELSE [id |-> library.active, profile |-> Current(library)]
    /\ originals' = [r \in {s \in Live : device[s] # None} |-> device[r].volume]
    /\ blocked' = {}
    /\ DenyAll
    /\ calibrating' = TRUE
    /\ UNCHANGED <<session, device, observed, unsolicited, volume_requests,
                   panel_barrier, replies, next_request, linkVars, phoneVars,
                   library, confirmed, dirty, disk, load_error, pending,
                   master_seen, needs_fence, tickVars, historyVars, worker>>

\* The tone is stopped and sessions cancelled everywhere, then the levels
\* found at opening are asked for again.
Close ==
    LET cleared == Broadcast(Broadcast(controls, ToneOff), CancelCalibration)
        sent == {r \in DOMAIN originals :
                    session[r] = "live" /\ Len(cleared[r]) < ControlCap}
    IN
    /\ OperatorMay
    /\ editing
    /\ VolumeRequests(sent, originals, cleared)
    /\ pending' = [r \in Receivers |->
           IF r \in sent THEN Pending(r, originals[r]) ELSE None]
    /\ originals' = [r \in {} |-> None]
    /\ editing' = FALSE
    /\ draft' = None
    /\ master_seen' = None
    /\ blocked' = {}
    /\ calibrating' = FALSE
    /\ fence' = [r \in Receivers |-> 0]
    /\ UNCHANGED <<session, device, observed, unsolicited, panel_barrier,
                   playback, replies, reports, phoneVars, library, confirmed,
                   dirty, disk, load_error, needs_fence, tickVars, settled,
                   commanded, worker>>

\* set_draft and new_draft: the calibration's result replaces the draft.
SetDraft(d) ==
    /\ worker = "running"
    /\ pc = "idle"
    /\ editing
    /\ draft # d
    /\ d # None => Validate(d.profile)
    /\ draft' = d
    /\ UNCHANGED <<registryVars, linkVars, phoneVars, library, confirmed,
                   dirty, disk, load_error, commandVars, windowVars, tickVars,
                   historyVars, worker, panel>>

SaveDraft(copy) ==
    LET profile == draft.profile
        mapped == {f \in DOMAIN profile.followers :
                      DOMAIN profile.followers[f] # {}}
        volume == Nearest(profile, profile.volume, mapped)
        saved == [profile EXCEPT !.volume = volume]
        stored == Put(Persisted, IF copy THEN 0 ELSE draft.id, saved)
    IN
    /\ OperatorMay
    /\ editing
    /\ Writable
    /\ draft # None
    /\ mapped # {}
    /\ volume # None
    /\ library' = stored
    /\ disk' = stored
    /\ confirmed' = [id |-> stored.active, index |-> volume]
    /\ settled' = settled \cup {<<stored.active, volume>>}
    /\ draft' = [id |-> stored.active, profile |-> saved]
    /\ dirty' = FALSE
    /\ master_seen' = None
    /\ UNCHANGED <<registryVars, linkVars, phoneVars, load_error, pending,
                   blocked, needs_fence, windowVars, tickVars, commanded, fence,
                   worker>>

Select(id) ==
    LET stored == [Persisted EXCEPT !.active = id]
    IN
    /\ OperatorMay
    /\ \A r \in Receivers : pending[r] = None
    /\ id \in DOMAIN library.profiles
    /\ ~editing
    /\ Writable
    /\ disk' = stored
    /\ library' = stored
    /\ confirmed' = Confirmed(stored)
    /\ DenyAll
    /\ pending' = [r \in Receivers |-> None]
    /\ blocked' = {}
    /\ master_seen' = None
    /\ needs_fence' = TRUE
    /\ dirty' = FALSE
    /\ fence' = [r \in Receivers |->
           IF r \in Holders(stored.profiles[id].master, Snapshots)
           THEN next_request[r] ELSE 0]
    /\ UNCHANGED <<session, device, observed, unsolicited, volume_requests,
                   panel_barrier, replies, next_request, linkVars, phoneVars,
                   draft, load_error, windowVars, tickVars, settled,
                   commanded, worker>>

\* While calibrating, selecting a profile only loads it into the draft.
SelectDraft(id) ==
    /\ OperatorMay
    /\ \A r \in Receivers : pending[r] = None
    /\ id \in DOMAIN library.profiles
    /\ editing
    /\ draft' = [id |-> id, profile |-> library.profiles[id]]
    /\ UNCHANGED <<registryVars, linkVars, phoneVars, library, confirmed,
                   dirty, disk, load_error, commandVars, windowVars, tickVars,
                   historyVars, worker>>

Delete(id) ==
    LET stored == Remove(Persisted, id)
    IN
    /\ OperatorMay
    /\ editing
    /\ Writable
    /\ disk' = stored
    /\ library' = stored
    /\ confirmed' = Confirmed(stored)
    /\ draft' = IF Current(stored) = None THEN None
                ELSE [id |-> stored.active, profile |-> Current(stored)]
    /\ dirty' = FALSE
    /\ UNCHANGED <<registryVars, linkVars, phoneVars, load_error, commandVars,
                   windowVars, tickVars, historyVars, worker>>

SetVolumePanel(requested) ==
    LET profile == Current(library)
        masters == Holders(profile.master, Snapshots)
        master == CHOOSE r \in masters : TRUE
        index == Nearest(profile, requested, Participating(profile, Snapshots))
    IN
    /\ OperatorMay
    /\ ~editing
    /\ profile # None
    /\ Cardinality(masters) = 1
    /\ index # None
    /\ HasRoom(master)
    /\ VolumeRequests({master}, [r \in {master} |-> index], controls)
    /\ RaiseBarrier({master})
    /\ commanded' = [commanded EXCEPT ![master] = next_request[master]]
    /\ fence' = FenceAt({master})
    /\ library' = WithVolume(library, library.active, index)
    /\ needs_fence' = FALSE
    /\ pending' = [pending EXCEPT ![master] = Pending(master, index)]
    /\ blocked' = {}
    /\ dirty' = TRUE
    /\ DenyAll
    /\ UNCHANGED <<session, device, observed, replies, reports, phoneVars,
                   draft, confirmed, disk, load_error, master_seen, windowVars,
                   tickVars, settled, worker>>

-----------------------------------------------------------------------------
(* The worker's tick.                                                       *)

TickDone == pc' = "idle" /\ snap' = NoSnap /\ plan' = NoPlan

TickSnapshot ==
    /\ worker = "running"
    /\ pc = "idle"
    /\ IF editing
       THEN DenyAll /\ UNCHANGED <<pc, snap>>
       ELSE /\ pc' = "replies"
            /\ snap' = Snapshots
            /\ UNCHANGED playback
    /\ UNCHANGED <<session, device, observed, unsolicited, volume_requests,
                   panel_barrier, replies, next_request, linkVars, phoneVars,
                   profileVars, commandVars, windowVars, plan, historyVars,
                   worker, panel>>

Answered == {r \in DOMAIN snap : /\ pending[r] # None
                                 /\ pending[r].request \in DOMAIN replies[r]}

Rejected(r) ==
    LET reply == replies[r][pending[r].request]
    IN  reply.failed \/ ~reply.usable \/ reply.volume # pending[r].index

\* The command or its receipt is still on its way.
InFlight(r) ==
    /\ link[DeviceOf[r]] = r
    /\ \/ \E i \in DOMAIN controls[r] : controls[r][i].id = pending[r].request
       \/ \E i \in DOMAIN reports[r] : reports[r][i].id = pending[r].request

\* `late' are commands given four seconds ago and still unanswered.  That a
\* command on its way is overtaken by the timeout counts as a fault.
TickReplies(late) ==
    LET early == {r \in late : InFlight(r)}
    IN
    /\ pc = "replies"
    /\ late \cap Answered = {}
    /\ Cardinality(early) <= faults
    /\ faults' = faults - Cardinality(early)
    /\ replies' = [r \in Receivers |->
           IF r \in Answered
           THEN [i \in DOMAIN replies[r] \ {pending[r].request} |-> replies[r][i]]
           ELSE replies[r]]
    /\ pending' = [r \in Receivers |->
           IF r \in DOMAIN snap \ (Answered \cup late) THEN pending[r] ELSE None]
    /\ blocked' = (blocked \cap DOMAIN snap) \cup late
                      \cup {r \in Answered : Rejected(r)}
    /\ pc' = "targets"
    /\ UNCHANGED <<session, device, observed, unsolicited, volume_requests,
                   panel_barrier, playback, next_request, linkVars, phone,
                   link, done, user, profileVars, master_seen, needs_fence,
                   windowVars, snap, plan, historyVars, worker, panel>>

TickMasters == Holders(Current(library).master, snap)
TickMaster == CHOOSE r \in TickMasters : TRUE
TickParticipating == Participating(Current(library), snap)

\* No profile, or not exactly one phone that can be its master.
TickNoMaster ==
    /\ pc = "targets"
    /\ \/ /\ Current(library) = None
          /\ UNCHANGED master_seen
       \/ /\ Current(library) # None
          /\ Cardinality(TickMasters) # 1
          /\ master_seen' = None
    /\ DenyAll
    /\ TickDone
    /\ UNCHANGED <<session, device, observed, unsolicited, volume_requests,
                   panel_barrier, replies, next_request, linkVars, phoneVars,
                   profileVars, pending, blocked, needs_fence, windowVars,
                   historyVars, worker, panel>>

MasterKnown ==
    /\ pc = "targets"
    /\ Current(library) # None
    /\ Cardinality(TickMasters) = 1

\* Mutant: a switch of profiles needs no fence.
MutantFenceDue ==
    /\ panel_barrier[TickMaster] # None
    /\ pending[TickMaster] = None

FenceDue ==
    /\ needs_fence \/ panel_barrier[TickMaster] # None
    /\ pending[TickMaster] = None

\* A profile just switched to, or a panel command whose receipt was lost:
\* the master is commanded again before any of its events counts.
TickFence ==
    LET master == TickMaster
        index == Nearest(Current(library), Current(library).volume,
                         TickParticipating)
        asked == IF master \in blocked \/ index = None THEN {} ELSE {master}
        sent == Reachable(asked)
    IN
    /\ MasterKnown
    /\ FenceDue
    /\ VolumeRequests(sent, [r \in sent |-> index], controls)
    /\ RaiseBarrier(sent)
    /\ commanded' = [r \in Receivers |->
           IF r \in sent THEN next_request[r] ELSE commanded[r]]
    /\ IF sent = {} THEN UNCHANGED <<master_seen, needs_fence, pending, fence>>
       ELSE /\ master_seen' = master
            /\ fence' = FenceAt(sent)
            /\ needs_fence' = FALSE
            /\ pending' = [pending EXCEPT ![master] = Pending(master, index)]
    /\ blocked' = blocked \cup (asked \ sent)
    /\ DenyAll
    /\ TickDone
    /\ UNCHANGED <<session, device, observed, replies, reports, phoneVars,
                   profileVars, windowVars, settled, worker, panel>>

\* The level asked for: a change made at the master wins over the profile.
TickRequested ==
    IF master_seen = TickMaster /\ unsolicited[TickMaster] # None
    THEN unsolicited[TickMaster].volume ELSE Current(library).volume

TickIndex == Nearest(Current(library), TickRequested, TickParticipating)

\* The master and the phones of the participating followers.
TickMembers ==
    {r \in DOMAIN snap :
        \/ r = TickMaster
        \/ \E f \in TickParticipating : Matches(f, snap[r])}

\* Mutant: a receiver that failed is commanded again.
MutantAsked(waiting) == {r \in waiting : pending[r] = None}

\* Of the receivers not at their level, those to command now.
Asked(waiting) == {r \in waiting : pending[r] = None /\ r \notin blocked}

\* Without a level common to all participants (index = None) there is no
\* member to command and nothing is ready.
TickTargets ==
    LET profile == Current(library)
        index == TickIndex
        members == IF index = None THEN {} ELSE TickMembers
        level == [r \in members |->
                     TargetLevel(profile, snap[r].device, index)]
        waiting == {r \in members : \/ snap[r].volume # level[r]
                                    \/ pending[r] # None
                                    \/ r \in blocked}
        asked == Asked(waiting)
        sent == Reachable(asked)
    IN
    /\ MasterKnown
    /\ ~FenceDue
    /\ unsolicited' = [unsolicited EXCEPT ![TickMaster] = None]
    /\ VolumeRequests(sent, level, controls)
    /\ master_seen' = TickMaster
    /\ IF index = None THEN UNCHANGED <<library, dirty>>
       ELSE /\ library' = WithVolume(library, library.active, index)
            /\ dirty' = (dirty \/ profile.volume # index)
    /\ pending' = [r \in Receivers |->
           IF r \in sent THEN Pending(r, level[r]) ELSE pending[r]]
    /\ blocked' = blocked \cup (asked \ sent)
    /\ plan' = [ready |-> index # None /\ waiting = {}, members |-> members,
                index |-> index]
    /\ pc' = "publish"
    /\ UNCHANGED <<session, device, observed, panel_barrier, playback, replies,
                   reports, phoneVars, draft, confirmed, disk, load_error,
                   needs_fence, windowVars, snap, historyVars, worker, panel>>

\* The gates are opened only if nothing changed since the snapshot; a dirty
\* library is saved once it has rested for half a second.
TickPublish ==
    LET inForce == [id |-> library.active, index |-> plan.index]
    IN
    /\ pc = "publish"
    /\ IF plan.ready
       THEN /\ Approve(plan.members, snap)
            /\ confirmed' = inForce
            /\ settled' = settled \cup {<<library.active, plan.index>>}
            /\ \/ UNCHANGED <<disk, dirty>>
               \/ /\ dirty
                  /\ Writable
                  /\ disk' = WithVolume(library, inForce.id, inForce.index)
                  /\ dirty' = FALSE
       ELSE DenyAll /\ UNCHANGED <<confirmed, settled, disk, dirty>>
    /\ TickDone
    /\ UNCHANGED <<session, device, observed, unsolicited, volume_requests,
                   panel_barrier, replies, next_request, linkVars, phoneVars,
                   library, draft, load_error, commandVars, windowVars,
                   commanded, fence, worker, panel>>

\* The worker leaves its loop: gates shut, phones released.
StopWorker ==
    /\ worker = "running"
    /\ pc = "idle"
    /\ worker' = "stopped"
    /\ controls' = Broadcast(Broadcast(controls, CancelCalibration), ToneOff)
    /\ calibrating' = FALSE
    /\ DenyAll
    /\ UNCHANGED <<session, device, observed, unsolicited, volume_requests,
                   panel_barrier, replies, next_request, reports, phoneVars,
                   profileVars, commandVars, editing, originals, tickVars,
                   historyVars, panel>>

Finish ==
    /\ worker = "stopped"
    /\ worker' = "finished"
    /\ IF dirty /\ Writable
       THEN disk' = Persisted /\ dirty' = FALSE
       ELSE UNCHANGED <<disk, dirty>>
    /\ UNCHANGED <<registryVars, linkVars, phoneVars, library, draft,
                   confirmed, load_error, commandVars, windowVars, tickVars,
                   historyVars, panel>>

-----------------------------------------------------------------------------
\* Mutant: a command waits for its receipt for ever.
MutantWaiting == {}

\* The commands that may turn four seconds old.
Waiting == {r \in DOMAIN snap : pending[r] # None}

Tick ==
    \/ TickSnapshot
    \/ \E late \in SUBSET Waiting : TickReplies(late)
    \/ TickNoMaster
    \/ TickFence
    \/ TickTargets
    \/ TickPublish

Operator ==
    \/ Open
    \/ Close
    \/ \E d \in Drafts \cup {None} : SetDraft(d)
    \/ \E copy \in BOOLEAN : SaveDraft(copy)
    \/ \E id \in DOMAIN library.profiles :
           Select(id) \/ SelectDraft(id) \/ Delete(id)
    \/ \E level \in Levels : SetVolumePanel(level)

\* The phones and their sessions.
Network ==
    /\ worker # "finished"
    /\ \/ \E r \in Receivers :
              \/ Connect(r)
              \/ Disconnect(r)
              \/ QueryTick(r)
              \/ ApplyPending(r)
              \/ UpdateDevice(r) /\ UNCHANGED phoneVars
       \/ \E d \in Devices :
              \/ \E level \in Levels : VolumeKey(d, level)
              \/ Watchdog(d)
              \/ RouteChanged(d)
    /\ UNCHANGED controllerVars

\* The process has exited.
Exited == worker = "finished" /\ UNCHANGED vars

Next ==
    \/ Network
    \/ Tick
    \/ Operator
    \/ StopWorker
    \/ Finish
    \/ Exited

Spec == Init /\ [][Next]_vars

-----------------------------------------------------------------------------
(* Properties.                                                              *)

TypeOK ==
    /\ session \in [Receivers -> {"new", "live", "gone"}]
    /\ device \in [Receivers -> Statuses \cup {None}]
    /\ observed \in [Receivers -> Levels \cup {None}]
    /\ unsolicited \in [Receivers -> Events \cup {None}]
    /\ volume_requests \in [Receivers -> SUBSET Nat]
    /\ panel_barrier \in [Receivers -> Nat \cup {None}]
    /\ playback \in [Receivers -> BOOLEAN]
    /\ next_request \in [Receivers -> Nat]
    /\ \A r \in Receivers :
           /\ replies[r] \in [DOMAIN replies[r] -> Statuses]
           /\ controls[r] \in Seq(Commands)
           /\ reports[r] \in Seq(Reports)
           /\ pending[r] \in [request : Nat, index : Levels] \cup {None}
    /\ phone \in [Devices -> Phones]
    /\ link \in [Devices -> Receivers \cup {None}]
    /\ done \in [Receivers -> Nat]
    /\ IsLibrary(library)
    /\ disk # Unreadable => IsLibrary(disk)
    /\ confirmed # None => confirmed \in Levelled
    /\ blocked \subseteq Receivers
    /\ master_seen \in Receivers \cup {None}
    /\ DOMAIN snap \subseteq Receivers
    /\ pc \in {"idle", "replies", "targets", "publish"}
    /\ worker \in {"running", "stopped", "finished"}

\* What must hold of a receiver for audio to be let through to it.
MayPlay(r) ==
    /\ session[r] = "live"
    /\ ~editing
    /\ device[r] # None
    /\ device[r].usable /\ ~device[r].failed
    /\ library.active \in DOMAIN library.profiles
    /\ confirmed.id = library.active
    /\ device[r].volume = TargetLevel(Current(library), device[r].device,
                                      confirmed.index)

\* An open gate means: not calibrating, and the status recorded for the
\* receiver is a usable speaker at exactly the level the active profile asks
\* of it at the confirmed master level - whatever statuses, departures and
\* operator commands came between the tick's snapshot and its approval
\* (registry.rs approve and update_device, volume_control.rs tick).
GateMatchesProfile == \A r \in Receivers : playback[r] => MayPlay(r)

\* A level change kept as made at the phone was reported after the phone had
\* taken the latest panel command sent to it: an older event still on its
\* way never overrides the panel (panel_barrier in registry.rs).
EventNewerThanPanel ==
    \A r \in Receivers :
        unsolicited[r] # None => unsolicited[r].after >= commanded[r]

\* After a profile was switched to, a change made at its master is taken
\* over only if it was reported after a command the new profile sent
\* (needs_fence in volume_control.rs).  The levels which a closing window asks
\* for again take the place of that command.
AdoptionAfterSwitch ==
    [][\A r \in Receivers :
          (pc = "targets" /\ unsolicited[r] # None /\ unsolicited'[r] = None
              /\ library' # library)
          => unsolicited[r].after >= fence[r]]_vars

\* The file only ever holds levels that were in force for their profile (or
\* were calibrated and saved), never a level still waiting for its receipt:
\* State::persisted, at every save, at shutdown included.
DiskHoldsConfirmed ==
    disk # Unreadable =>
        \A i \in DOMAIN disk.profiles : <<i, disk.profiles[i].volume>> \in settled

\* A library file that could not be read is never overwritten
\* (ensure_writable at each of the five saves).
UnreadableKept == load_error => disk = Unreadable

\* A receiver that failed a command is sent no other volume command until the
\* operator's next command unblocks it or it reconnects.
NoCommandWhileBlocked ==
    [][\A r \in Receivers :
          (r \in blocked /\ next_request'[r] # next_request[r])
              => r \notin blocked']_vars

-----------------------------------------------------------------------------
(* Liveness: the worker's loop, the session tasks and the phone's main loop *)
(* keep running, and a command that stays unanswered tick after tick turns  *)
(* four seconds old at one of them; operators, users, faults and departures *)
(* are not forced.                                                          *)

Fairness ==
    /\ WF_vars(Tick)
    /\ SF_vars(\E late \in SUBSET Waiting \ {{}} : TickReplies(late))
    /\ \A r \in Receivers :
           /\ WF_vars(ApplyPending(r) /\ UNCHANGED controllerVars)
           /\ WF_vars(UpdateDevice(r) /\ UNCHANGED phoneVars
                                      /\ UNCHANGED controllerVars)
           /\ WF_vars(QueryTick(r) /\ UNCHANGED controllerVars)
    /\ \A d \in Devices : WF_vars(Watchdog(d) /\ UNCHANGED controllerVars)

FairSpec == Spec /\ Fairness

\* The phone of the active profile's master is connected once, on a speaker.
MasterPresent(r) ==
    /\ worker = "running"
    /\ ~editing
    /\ Current(library) # None
    /\ DeviceOf[r] = Current(library).master
    /\ {s \in Live : DeviceOf[s] = DeviceOf[r]} = {r}
    /\ link[DeviceOf[r]] = r
    /\ phone[DeviceOf[r]].usable

\* When the master stays connected and nobody calibrates, the system settles:
\* its gate opens for good, or a receiver stays blocked and waits for the
\* operator (message of the blocked set).  No lost receipt, raised barrier
\* or pending fence leaves everyone waiting.
Settles ==
    \A r \in Receivers :
        <>[]MasterPresent(r) => (<>[]playback[r] \/ <>[](blocked # {}))
=============================================================================
