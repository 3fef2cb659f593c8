------------------------ MODULE VolumeControlProofs ------------------------
(***************************************************************************)
(* For every set of phones, sessions, levels and profiles: a playback gate *)
(* is open only to a phone recorded at the level its profile asks for.     *)
(*                                                                         *)
(* The gates are written from a snapshot that may be stale.  The argument  *)
(* has three parts: what a tick decides (PlanInForce) is about the library *)
(* it decided with, because the controller's mutex keeps the operator out  *)
(* until the tick publishes; approve compares the snapshot with the record *)
(* again; and from then on every change of a record shuts its gate.        *)
(***************************************************************************)
EXTENDS VolumeControl, TLAPS

\* Every profile is a record of its three fields.
IsProfile(p) == p = [master |-> p.master, followers |-> p.followers,
                     volume |-> p.volume]

IsShaped(l) ==
    /\ l = [active |-> l.active, profiles |-> l.profiles]
    /\ l.profiles = [i \in DOMAIN l.profiles |-> l.profiles[i]]
    /\ \A i \in DOMAIN l.profiles : IsProfile(l.profiles[i])

\* The library in memory and the draft are well formed.
LibraryShaped ==
    /\ IsShaped(library)
    /\ draft # None => IsProfile(draft.profile)

\* The registry has one entry per receiver.
RegistryShaped ==
    /\ playback \in [Receivers -> BOOLEAN]
    /\ DOMAIN session = Receivers
    /\ DOMAIN device = Receivers

\* No tick runs while the calibration window is open, and a tick that found
\* every member ready saw each of them at the level which the library, as it
\* stands when the tick publishes, asks of its device.
PlanInForce ==
    /\ pc # "idle" => ~editing
    /\ (pc = "publish" /\ plan.ready) =>
           /\ library.active \in DOMAIN library.profiles
           /\ \A r \in plan.members :
                  snap[r].volume = TargetLevel(Current(library),
                                               snap[r].device, plan.index)

GateInv ==
    LibraryShaped /\ RegistryShaped /\ PlanInForce /\ GateMatchesProfile

-----------------------------------------------------------------------------
(* Libraries.                                                               *)

\* Moving a profile's volume changes neither which profile is active nor the
\* level it asks of any device.
LEMMA WithVolumeKeepsTargets ==
    ASSUME NEW l, IsShaped(l), NEW id, NEW index
    PROVE  /\ IsShaped(WithVolume(l, id, index))
           /\ WithVolume(l, id, index).active = l.active
           /\ DOMAIN WithVolume(l, id, index).profiles = DOMAIN l.profiles
           /\ l.active \in DOMAIN l.profiles =>
                \A d, k : TargetLevel(Current(WithVolume(l, id, index)), d, k)
                            = TargetLevel(Current(l), d, k)
<1> DEFINE w == WithVolume(l, id, index)
           f == [i \in DOMAIN l.profiles |->
                    IF i = id THEN [l.profiles[i] EXCEPT !.volume = index]
                              ELSE l.profiles[i]]
<1>1. w = [active |-> l.active, profiles |-> f]
  BY DEF WithVolume, IsShaped
<1>2. w.active = l.active /\ w.profiles = f
  BY <1>1
<1>3. ASSUME NEW i \in DOMAIN l.profiles
      PROVE  /\ IsProfile(f[i])
             /\ f[i].master = l.profiles[i].master
             /\ f[i].followers = l.profiles[i].followers
  BY <1>3 DEF IsShaped, IsProfile
<1>4. IsShaped(w)
  BY <1>1, <1>2, <1>3 DEF IsShaped
<1>5. ASSUME l.active \in DOMAIN l.profiles, NEW d, NEW k
      PROVE  TargetLevel(Current(w), d, k) = TargetLevel(Current(l), d, k)
  BY <1>2, <1>3, <1>5 DEF Current, TargetLevel
<1>6. QED
  BY <1>2, <1>4, <1>5

\* The library that is saved is well formed, with the same profiles.
LEMMA PersistedShaped ==
    ASSUME IsShaped(library)
    PROVE  IsShaped(Persisted) /\ DOMAIN Persisted.profiles = DOMAIN library.profiles
BY WithVolumeKeepsTargets DEF Persisted

\* Storing a profile keeps the library well formed.
LEMMA PutShaped ==
    ASSUME NEW l, IsShaped(l), NEW id, NEW p, IsProfile(p)
    PROVE  IsShaped(Put(l, id, p))
BY DEF IsShaped, Put

\* So does removing one.
LEMMA RemoveShaped ==
    ASSUME NEW l, IsShaped(l), NEW id
    PROVE  IsShaped(Remove(l, id))
BY DEF IsShaped, Remove

\* A library read from the file is well formed.
LEMMA StoredShaped ==
    ASSUME NEW l, IsLibrary(l)
    PROVE  IsShaped(l)
BY DEF IsLibrary, IsShaped, IsProfile, Profiles

\* So is the empty library of a server without a readable file.
LEMMA EmptyShaped == IsShaped(EmptyLibrary)
BY DEF IsShaped, EmptyLibrary

\* Every profile of the right type is a record of its fields.
LEMMA ProfileShaped == \A p \in Profiles : IsProfile(p)
BY DEF Profiles, IsProfile

-----------------------------------------------------------------------------
(* Gates.                                                                   *)

\* Shutting every gate establishes the property.
LEMMA DenyAllMatches ==
    ASSUME DenyAll
    PROVE  GateMatchesProfile' /\ playback' \in [Receivers -> BOOLEAN]
BY DEF DenyAll, GateMatchesProfile

\* It depends on six variables only.
LEMMA GateMatchesKept ==
    ASSUME GateMatchesProfile,
           UNCHANGED <<session, device, playback, editing, confirmed, library>>
    PROVE  GateMatchesProfile'
BY DEF GateMatchesProfile, MayPlay

\* A receiver that registers, a status that is recorded and a receiver that
\* leaves keep it: a gate stays open only to a receiver whose record did not
\* change.
LEMMA RegistryKeepsGates ==
    ASSUME RegistryShaped, GateMatchesProfile, NEW r \in Receivers,
           Register(r) \/ UpdateDevice(r) \/ Deregister(r),
           UNCHANGED <<editing, confirmed, library>>
    PROVE  GateMatchesProfile' /\ RegistryShaped'
<1>1. CASE Register(r)
  BY <1>1 DEF RegistryShaped, GateMatchesProfile, MayPlay, Register
<1>2. CASE UpdateDevice(r)
  <2>1. /\ session' = session
        /\ \A s \in Receivers : playback'[s] => playback[s] /\ device'[s] = device[s]
    BY <1>2 DEF UpdateDevice, RegistryShaped, SameOutput
  <2>2. GateMatchesProfile'
    BY <2>1 DEF GateMatchesProfile, MayPlay
  <2>3. playback' \in [Receivers -> BOOLEAN]
    BY <1>2 DEF UpdateDevice, RegistryShaped, SameOutput
  <2>4. QED
    BY <1>2, <2>1, <2>2, <2>3 DEF UpdateDevice, RegistryShaped
<1>3. CASE Deregister(r)
  BY <1>3, DenyAllMatches DEF Deregister, RegistryShaped
<1>4. QED
  BY <1>1, <1>2, <1>3

\* approve, at the end of a tick that found everybody ready.
LEMMA ApproveMatches ==
    ASSUME RegistryShaped, PlanInForce, pc = "publish", plan.ready,
           Approve(plan.members, snap),
           confirmed' = [id |-> library.active, index |-> plan.index],
           UNCHANGED <<session, device, editing, library>>
    PROVE  GateMatchesProfile' /\ playback' \in [Receivers -> BOOLEAN]
<1>1. playback' \in [Receivers -> BOOLEAN]
  BY DEF Approve
<1>2. ASSUME NEW r \in Receivers, playback'[r]
      PROVE  MayPlay(r)'
  <2>1. r \in plan.members /\ StillAsExpected(r, snap[r])
    BY <1>2 DEF Approve
  <2>2. snap[r].volume = TargetLevel(Current(library), snap[r].device, plan.index)
    BY <2>1 DEF PlanInForce
  <2>3. QED
    BY <2>1, <2>2 DEF MayPlay, StillAsExpected, SameRange, PlanInForce
<1>3. QED
  BY <1>1, <1>2 DEF GateMatchesProfile

-----------------------------------------------------------------------------
(* The inductive invariant.                                                 *)

\* No gate is open and no tick in progress when the server starts.
LEMMA InitGates == Init => GateInv
<1> SUFFICES ASSUME Init PROVE GateInv
  OBVIOUS
<1>1. LibraryShaped
  <2>1. IsShaped(library)
    BY LibraryAssumption, StoredShaped, EmptyShaped DEF Init, Unreadable
  <2>2. QED
    BY <2>1 DEF LibraryShaped, Init
<1>2. RegistryShaped
  BY DEF Init, RegistryShaped
<1>3. PlanInForce /\ GateMatchesProfile
  BY DEF Init, PlanInForce, GateMatchesProfile
<1>4. QED
  BY <1>1, <1>2, <1>3 DEF GateInv

\* The phones and their sessions touch no state of the controller.
LEMMA NetworkGates == ASSUME GateInv, Network PROVE GateInv'
<1>1. UNCHANGED <<library, draft, editing, confirmed, pc, snap, plan>>
  BY DEF Network, controllerVars, profileVars, windowVars, tickVars
<1>2. LibraryShaped' /\ PlanInForce'
  BY <1>1 DEF GateInv, LibraryShaped, PlanInForce
<1>3. \/ \E r \in Receivers : Register(r) \/ UpdateDevice(r) \/ Deregister(r)
      \/ UNCHANGED <<session, device, playback>>
  BY DEF Network, Connect, Disconnect, QueryTick, ApplyPending, VolumeKey,
         Watchdog, RouteChanged, registryVars
<1>4. RegistryShaped' /\ GateMatchesProfile'
  BY <1>1, <1>3, RegistryKeepsGates, GateMatchesKept DEF GateInv, RegistryShaped
<1>5. QED
  BY <1>2, <1>4 DEF GateInv

\* A tick writes the gates last, and only from what it decided itself.
LEMMA TickGates == ASSUME GateInv, Tick PROVE GateInv'
<1> USE DEF GateInv
<1>1. CASE TickSnapshot
  <2>1. CASE editing
    BY <1>1, <2>1, DenyAllMatches
       DEF TickSnapshot, LibraryShaped, RegistryShaped, PlanInForce, profileVars,
           windowVars
  <2>2. CASE ~editing
    BY <1>1, <2>2, GateMatchesKept
       DEF TickSnapshot, LibraryShaped, RegistryShaped, PlanInForce, profileVars,
           windowVars
  <2>3. QED
    BY <2>1, <2>2
<1>2. ASSUME NEW late \in SUBSET Waiting, TickReplies(late)
      PROVE  GateInv'
  BY <1>2, GateMatchesKept
     DEF TickReplies, LibraryShaped, RegistryShaped, PlanInForce, profileVars,
         windowVars
<1>3. CASE TickNoMaster
  BY <1>3, DenyAllMatches
     DEF TickNoMaster, TickDone, LibraryShaped, RegistryShaped, PlanInForce,
         profileVars, windowVars
<1>4. CASE TickFence
  BY <1>4, DenyAllMatches
     DEF TickFence, TickDone, LibraryShaped, RegistryShaped, PlanInForce,
         profileVars, windowVars
<1>5. CASE TickTargets
  <2>1. library.active \in DOMAIN library.profiles
    BY <1>5 DEF TickTargets, MasterKnown, Current
  <2>2. \/ library' = library
        \/ library' = WithVolume(library, library.active, TickIndex)
    BY <1>5 DEF TickTargets
  <2>3. /\ IsShaped(library')
        /\ library'.active = library.active
        /\ DOMAIN library'.profiles = DOMAIN library.profiles
        /\ \A d, k : TargetLevel(Current(library'), d, k)
                        = TargetLevel(Current(library), d, k)
    BY <2>1, <2>2, WithVolumeKeepsTargets DEF LibraryShaped
  <2>4. UNCHANGED <<session, device, playback, editing, confirmed, draft, snap>>
    BY <1>5 DEF TickTargets, windowVars
  <2>5. LibraryShaped' /\ RegistryShaped'
    BY <2>3, <2>4 DEF LibraryShaped, RegistryShaped
  <2>6. GateMatchesProfile'
    BY <2>1, <2>3, <2>4 DEF GateMatchesProfile, MayPlay
  <2>7. PlanInForce'
    <3>1. pc' = "publish" /\ ~editing'
      BY <1>5, <2>4 DEF TickTargets, MasterKnown, PlanInForce
    <3>2. ASSUME plan'.ready, NEW r \in plan'.members
          PROVE  snap[r].volume = TargetLevel(Current(library),
                                              snap[r].device, plan'.index)
      BY <1>5, <3>2 DEF TickTargets
    <3>3. QED
      BY <2>1, <2>3, <2>4, <3>1, <3>2 DEF PlanInForce
  <2>8. QED
    BY <2>5, <2>6, <2>7
<1>6. CASE TickPublish
  <2>1. UNCHANGED <<session, device, editing, library, draft>> /\ pc' = "idle"
    BY <1>6 DEF TickPublish, TickDone, windowVars
  <2>2. GateMatchesProfile' /\ playback' \in [Receivers -> BOOLEAN]
    <3>1. CASE plan.ready
      BY <1>6, <2>1, <3>1, ApproveMatches DEF TickPublish
    <3>2. CASE ~plan.ready
      BY <1>6, <3>2, DenyAllMatches DEF TickPublish
    <3>3. QED
      BY <3>1, <3>2
  <2>3. QED
    BY <2>1, <2>2 DEF LibraryShaped, RegistryShaped, PlanInForce
<1>7. QED
  BY <1>1, <1>2, <1>3, <1>4, <1>5, <1>6 DEF Tick

\* An operator's command finds no tick in progress; it shuts the gates, or is
\* given in the calibration window, where they are shut already.
LEMMA OperatorGates == ASSUME GateInv, Operator PROVE GateInv'
<1> USE DEF GateInv, OperatorMay
<1>1. CASE Open
  <2>1. LibraryShaped'
    BY <1>1 DEF Open, LibraryShaped, IsShaped, Current
  <2>2. QED
    BY <1>1, <2>1, DenyAllMatches DEF Open, RegistryShaped, PlanInForce, tickVars
<1>2. CASE Close
  <2>1. GateMatchesProfile'
    BY <1>2 DEF Close, GateMatchesProfile, MayPlay
  <2>2. QED
    BY <1>2, <2>1 DEF Close, LibraryShaped, RegistryShaped, PlanInForce, tickVars
<1>3. ASSUME NEW d \in Drafts \cup {None}, SetDraft(d)
      PROVE  GateInv'
  <2>1. LibraryShaped'
    BY <1>3, LibraryAssumption, ProfileShaped DEF SetDraft, LibraryShaped
  <2>2. QED
    BY <1>3, <2>1, GateMatchesKept
       DEF SetDraft, RegistryShaped, PlanInForce, tickVars, registryVars, windowVars
<1>4. ASSUME NEW copy \in BOOLEAN, SaveDraft(copy)
      PROVE  GateInv'
  <2>1. LibraryShaped'
    <3> DEFINE saved == [draft.profile EXCEPT !.volume =
                            Nearest(draft.profile, draft.profile.volume,
                                {f \in DOMAIN draft.profile.followers :
                                    DOMAIN draft.profile.followers[f] # {}})]
               id == IF copy THEN 0 ELSE draft.id
    <3>1. IsProfile(saved)
      BY <1>4 DEF SaveDraft, LibraryShaped, IsProfile
    <3>2. /\ library' = Put(Persisted, id, saved)
          /\ draft' = [id |-> library'.active, profile |-> saved]
      BY <1>4 DEF SaveDraft
    <3> HIDE DEF saved, id
    <3>3. QED
      BY <3>1, <3>2, PersistedShaped, PutShaped DEF LibraryShaped
  <2>2. GateMatchesProfile'
    BY <1>4 DEF SaveDraft, GateMatchesProfile, MayPlay, registryVars
  <2>3. QED
    BY <1>4, <2>1, <2>2
       DEF SaveDraft, RegistryShaped, PlanInForce, tickVars, registryVars
<1>5. ASSUME NEW id \in DOMAIN library.profiles, Select(id)
      PROVE  GateInv'
  <2>1. IsShaped(library')
    BY <1>5, PersistedShaped DEF Select, LibraryShaped, IsShaped
  <2>2. QED
    BY <1>5, <2>1, DenyAllMatches
       DEF Select, LibraryShaped, RegistryShaped, PlanInForce, tickVars
<1>6. ASSUME NEW id \in DOMAIN library.profiles, SelectDraft(id)
      PROVE  GateInv'
  <2>1. LibraryShaped'
    BY <1>6 DEF SelectDraft, LibraryShaped, IsShaped
  <2>2. QED
    BY <1>6, <2>1, GateMatchesKept
       DEF SelectDraft, RegistryShaped, PlanInForce, tickVars, registryVars,
           windowVars
<1>7. ASSUME NEW id \in DOMAIN library.profiles, Delete(id)
      PROVE  GateInv'
  <2>1. IsShaped(library')
    BY <1>7, PersistedShaped, RemoveShaped DEF Delete, LibraryShaped
  <2>2. LibraryShaped'
    BY <1>7, <2>1 DEF Delete, LibraryShaped, IsShaped, Current
  <2>3. GateMatchesProfile'
    BY <1>7 DEF Delete, GateMatchesProfile, MayPlay, registryVars
  <2>4. QED
    BY <1>7, <2>2, <2>3
       DEF Delete, RegistryShaped, PlanInForce, tickVars, registryVars
<1>8. ASSUME NEW level \in Levels, SetVolumePanel(level)
      PROVE  GateInv'
  <2>1. IsShaped(library')
    BY <1>8, WithVolumeKeepsTargets DEF SetVolumePanel, LibraryShaped
  <2>2. QED
    BY <1>8, <2>1, DenyAllMatches
       DEF SetVolumePanel, LibraryShaped, RegistryShaped, PlanInForce, tickVars,
           windowVars
<1>9. QED
  BY <1>1, <1>2, <1>3, <1>4, <1>5, <1>6, <1>7, <1>8 DEF Operator

\* Every step preserves the invariant.
LEMMA NextGates == GateInv /\ [Next]_vars => GateInv'
<1> SUFFICES ASSUME GateInv, [Next]_vars PROVE GateInv'
  OBVIOUS
<1>1. CASE StopWorker
  BY <1>1, DenyAllMatches
     DEF GateInv, StopWorker, LibraryShaped, RegistryShaped, PlanInForce,
         profileVars, tickVars
<1>2. CASE Finish \/ Exited \/ UNCHANGED vars
  <2>1. UNCHANGED <<session, device, playback, editing, confirmed, library,
                    draft, tickVars>>
    BY <1>2 DEF Finish, Exited, vars, registryVars, controllerVars, profileVars,
                windowVars
  <2>2. QED
    BY <2>1, GateMatchesKept
       DEF GateInv, LibraryShaped, RegistryShaped, PlanInForce, tickVars
<1>3. QED
  BY <1>1, <1>2, NetworkGates, TickGates, OperatorGates DEF Next

\* For every set of phones, sessions and profiles, every queue capacity and
\* every number of faults, volume keys and operator commands: a playback gate
\* is open only to a receiver recorded as a usable speaker at the level the
\* active profile asks of it (registry.rs approve and update_device,
\* volume_control.rs tick).
THEOREM GatesMatchProfile == Spec => []GateMatchesProfile
<1>1. GateInv => GateMatchesProfile
  BY DEF GateInv
<1>2. QED
  BY InitGates, NextGates, <1>1, PTL DEF Spec

-----------------------------------------------------------------------------
(* The library file.                                                        *)

\* Whatever the operator does, a file that could not be read when the server
\* started is still there, untouched, when it exits (ensure_writable).
THEOREM UnreadableIsKept == Spec => []UnreadableKept
<1>1. Init => UnreadableKept
  BY DEF Init, UnreadableKept
<1>2. UnreadableKept /\ [Next]_vars => UnreadableKept'
  <2> SUFFICES ASSUME UnreadableKept, [Next]_vars PROVE UnreadableKept'
    OBVIOUS
  <2> USE DEF UnreadableKept, Writable
  <2>1. CASE Network \/ StopWorker \/ Exited \/ UNCHANGED vars
    BY <2>1 DEF Network, StopWorker, Exited, vars, controllerVars, profileVars
  <2>2. CASE Finish
    BY <2>2 DEF Finish
  <2>3. CASE Tick
    BY <2>3 DEF Tick, TickSnapshot, TickReplies, TickNoMaster, TickFence,
                TickTargets, TickPublish, profileVars
  <2>4. CASE Operator
    BY <2>4 DEF Operator, Open, Close, SetDraft, SaveDraft, Select, SelectDraft,
                Delete, SetVolumePanel
  <2>5. QED
    BY <2>1, <2>2, <2>3, <2>4 DEF Next
<1>3. QED
  BY <1>1, <1>2, PTL DEF Spec

-----------------------------------------------------------------------------
(* Blocked receivers.                                                       *)

\* Of all the steps that send volume commands, those of the tick leave out the
\* blocked receivers and those of the operator unblock them.
THEOREM BlockedAreLeftAlone == Spec => NoCommandWhileBlocked
<1> DEFINE Respects ==
        \A r \in Receivers : (r \in blocked /\ next_request'[r] # next_request[r])
                                 => r \notin blocked'
<1>1. [Next]_vars => [Respects]_vars
  <2> SUFFICES ASSUME Next PROVE Respects
    OBVIOUS
  <2>1. CASE Network
    BY <2>1 DEF Network, Connect, Disconnect, QueryTick, ApplyPending, VolumeKey,
                Watchdog, RouteChanged, Register, Deregister, UpdateDevice,
                registryVars
  <2>2. CASE StopWorker \/ Finish \/ Exited
    BY <2>2 DEF StopWorker, Finish, Exited, vars, registryVars
  <2>3. CASE TickSnapshot \/ TickNoMaster \/ TickPublish
                \/ \E late \in SUBSET Waiting : TickReplies(late)
    BY <2>3 DEF TickSnapshot, TickNoMaster, TickPublish, TickReplies
  <2>4. CASE TickFence
    BY <2>4 DEF TickFence, VolumeRequests, Reachable
  <2>5. CASE TickTargets
    BY <2>5 DEF TickTargets, VolumeRequests, Reachable, Asked
  <2>6. CASE Operator
    BY <2>6 DEF Operator, Open, Close, SetDraft, SaveDraft, Select, SelectDraft,
                Delete, SetVolumePanel, registryVars
  <2>7. QED
    BY <2>1, <2>2, <2>3, <2>4, <2>5, <2>6 DEF Next, Tick
<1>2. QED
  BY <1>1, PTL DEF Spec, NoCommandWhileBlocked
=============================================================================
