------------------------ MODULE VolumeProtocolProofs ------------------------
(***************************************************************************)
(* More about the volume controller, for every set of phones, sessions,    *)
(* levels and profiles and for every capacity: the types of its state;     *)
(* that events older than a panel command or than a switch of profiles are *)
(* never taken over; and that the file holds no level that was never in    *)
(* force.                                                                  *)
(***************************************************************************)
EXTENDS VolumeControlProofs, FiniteSetTheorems, SequenceTheorems

-----------------------------------------------------------------------------
(* Numbers and finite sets.                                                 *)

\* Every set of numbers has a least one.
LEMMA Least == ASSUME NEW T \in SUBSET Nat, T # {} PROVE \E x \in T : \A y \in T : x <= y
<1>1. IsWellFoundedOn(OpToRel(<, Nat), Nat)
  BY NatLessThanWellFounded
<1>2. PICK x \in T : \A y \in T : ~(<<y, x>> \in OpToRel(<, Nat))
  BY <1>1, WFMin
<1>3. \A y \in T : ~(y < x)
  BY <1>2 DEF OpToRel
<1>4. QED
  BY <1>3

\* A finite list of numbers has an upper bound.
LEMMA ListBounded ==
    ASSUME NEW n \in Nat, NEW f \in [1 .. n -> Nat]
    PROVE  \E b \in Nat : \A i \in 1 .. n : f[i] <= b
<1> DEFINE Bounded(m) == \A g \in [1 .. m -> Nat] : \E b \in Nat : \A i \in 1 .. m : g[i] <= b
           T == {m \in Nat : ~Bounded(m)}
<1>1. ASSUME T # {} PROVE FALSE
  <2>1. PICK m \in T : \A y \in T : m <= y
    <3>1. T \in SUBSET Nat
      OBVIOUS
    <3> HIDE DEF T
    <3>2. QED
      BY <1>1, <3>1, Least
  <2>2. PICK g \in [1 .. m -> Nat] : ~\E b \in Nat : \A i \in 1 .. m : g[i] <= b
    BY <2>1
  <2>3. m \in Nat /\ m # 0
    BY <2>2
  <2>4. m \in Nat /\ m - 1 \in Nat /\ m \in 1 .. m /\ \A i \in 1 .. m - 1 : i \in 1 .. m
    BY <2>1, <2>3
  <2>5. Bounded(m - 1)
    <3>1. m - 1 \notin T
      <4> HIDE DEF T
      <4>1. QED
        BY <2>1, <2>4
    <3>2. QED
      BY <2>4, <3>1
  <2>6. [i \in 1 .. m - 1 |-> g[i]] \in [1 .. m - 1 -> Nat]
    BY <2>2, <2>4
  <2>7. PICK b \in Nat : \A i \in 1 .. m - 1 : [j \in 1 .. m - 1 |-> g[j]][i] <= b
    BY <2>5, <2>6
  <2>8. g[m] \in Nat /\ \A i \in 1 .. m - 1 : g[i] <= b
    BY <2>2, <2>4, <2>7
  <2> HIDE DEF T, Bounded
  <2>9. b + g[m] \in Nat /\ \A i \in 1 .. m : g[i] \in Nat /\ (i = m \/ i \in 1 .. m - 1)
    BY <2>4, <2>8
  <2>10. \A i \in 1 .. m : g[i] <= b + g[m]
    BY <2>8, <2>9, SMTT(30)
  <2>11. QED
    BY <2>2, <2>9, <2>10
<1>2. QED
  BY <1>1

\* A finite set of numbers has a greatest one.
LEMMA Greatest ==
    ASSUME NEW T \in SUBSET Nat, IsFiniteSet(T), T # {}
    PROVE  \E x \in T : \A y \in T : y <= x
<1>1. PICK n \in Nat : ExistsSurjection(1 .. n, T)
  BY FS_NatSurjection
<1>2. PICK f \in [1 .. n -> T] : \A y \in T : \E i \in 1 .. n : f[i] = y
  BY <1>1 DEF ExistsSurjection, Surjection
<1>3. f \in [1 .. n -> Nat]
  BY <1>2
<1>4. PICK b \in Nat : \A i \in 1 .. n : f[i] <= b
  BY <1>3, ListBounded
<1> DEFINE U == {u \in Nat : \A y \in T : y <= u}
<1>5. b \in U
  BY <1>2, <1>4
<1>6. PICK u \in U : \A v \in U : u <= v
  <2>1. U \in SUBSET Nat /\ U # {}
    BY <1>5
  <2> HIDE DEF U
  <2>2. QED
    BY <2>1, Least
<1>7. ASSUME u \notin T PROVE FALSE
  <2>1. \A y \in T : y \in Nat /\ y <= u /\ y # u
    BY <1>6, <1>7
  <2>9. u \in Nat
    BY <1>6
  <2>2. u - 1 \in Nat /\ \A y \in T : y <= u - 1
    <3>1. PICK y \in T : TRUE
      OBVIOUS
    <3>2. u # 0
      BY <2>1, <2>9, <3>1
    <3>3. QED
      BY <2>1, <2>9, <3>2
  <2>3. u - 1 \in U
    BY <2>2
  <2>4. QED
    BY <1>6, <2>3
<1>8. QED
  BY <1>6, <1>7

-----------------------------------------------------------------------------
(* Profiles and libraries.                                                  *)

\* The level nearest to one asked for is a level every participant knows.
LEMMA NearestTyped ==
    ASSUME NEW profile, NEW requested \in Levels, NEW some,
           NEW index, index = Nearest(profile, requested, some), index # None
    PROVE  index \in Available(profile, some) /\ index \in Levels
<1> DEFINE levels == Available(profile, some)
           away(i) == AbsDiff(i, requested)
<1>1. levels \subseteq Nat /\ requested \in Nat
  BY LevelAssumption DEF Available, Levels
<1>2. \A i \in levels : away(i) \in Nat
  BY <1>1 DEF AbsDiff
<1>3. levels # {}
  BY DEF Nearest
<1>4. PICK near \in levels : \A j \in levels : away(near) <= away(j)
  <2> DEFINE D == {away(i) : i \in levels}
  <2>1. D \in SUBSET Nat /\ D # {}
    BY <1>2, <1>3
  <2>2. PICK x \in D : \A y \in D : x <= y
    <3> HIDE DEF D
    <3>1. QED
      BY <2>1, Least
  <2>3. QED
    BY <2>2
<1>5. PICK first \in levels : /\ away(first) = away(near)
                              /\ \A j \in levels : away(j) = away(near) => first <= j
  <2> DEFINE E == {i \in levels : away(i) = away(near)}
  <2>1. E \in SUBSET Nat /\ E # {}
    BY <1>1, <1>4
  <2>2. PICK x \in E : \A y \in E : x <= y
    <3> HIDE DEF E
    <3>1. QED
      BY <2>1, Least
  <2>3. QED
    BY <2>2
<1>6. \A j \in levels : Closer(first, j, requested)
  <2> SUFFICES ASSUME NEW j \in levels PROVE Closer(first, j, requested)
    OBVIOUS
  <2>1. away(first) \in Nat /\ away(j) \in Nat /\ away(first) <= away(j)
    BY <1>2, <1>4, <1>5
  <2>2. away(first) = away(j) => first <= j
    BY <1>5
  <2>3. QED
    BY <2>1, <2>2 DEF Closer
<1>7. index = CHOOSE i \in levels : \A j \in levels : Closer(i, j, requested)
  BY <1>3 DEF Nearest
<1> HIDE DEF levels, away
<1>8. index \in levels
  BY <1>6, <1>7
<1>9. QED
  BY <1>8 DEF levels, Available

\* A participant is a follower with a table.
LEMMA FollowerTyped ==
    ASSUME NEW profile \in Profiles, NEW f \in DOMAIN profile.followers,
           NEW index \in DOMAIN profile.followers[f]
    PROVE  profile.followers[f][index] \in Levels
<1>1. profile.followers \in UNION {[S -> Mappings] : S \in SUBSET Devices}
  BY DEF Profiles
<1>2. profile.followers[f] \in Mappings
  BY <1>1
<1>3. PICK S \in SUBSET Levels : profile.followers[f] \in [S -> Levels]
  BY <1>2 DEF Mappings
<1>4. QED
  BY <1>3

\* The level asked of the master or of a participant is a level.
LEMMA TargetTyped ==
    ASSUME NEW profile \in Profiles, NEW some \in SUBSET DOMAIN profile.followers,
           NEW index \in Available(profile, some), NEW d, d = profile.master \/ d \in some
    PROVE  TargetLevel(profile, d, index) \in Levels
<1>1. CASE d = profile.master
  BY <1>1 DEF TargetLevel, Available
<1>2. CASE d # profile.master
  <2>1. d \in some /\ d \in DOMAIN profile.followers /\ index \in DOMAIN profile.followers[d]
    BY <1>2 DEF Available
  <2>2. profile.followers[d][index] \in Levels
    BY <2>1, FollowerTyped
  <2>3. QED
    BY <1>2, <2>2 DEF TargetLevel
<1>3. QED
  BY <1>1, <1>2

\* A profile moved to another level is a profile.
LEMMA MovedProfile ==
    ASSUME NEW profile \in Profiles, NEW index \in Levels
    PROVE  [profile EXCEPT !.volume = index] \in Profiles
BY DEF Profiles

\* A library in which a level is replaced.
LEMMA WithVolumeTyped ==
    ASSUME NEW l, IsLibrary(l), NEW id, NEW index \in Levels
    PROVE  /\ IsLibrary(WithVolume(l, id, index))
           /\ WithVolume(l, id, index).active = l.active
           /\ DOMAIN WithVolume(l, id, index).profiles = DOMAIN l.profiles
           /\ \A i \in DOMAIN l.profiles :
                 WithVolume(l, id, index).profiles[i].volume
                    = IF i = id THEN index ELSE l.profiles[i].volume
<1> DEFINE f == [i \in DOMAIN l.profiles |->
                    IF i = id THEN [l.profiles[i] EXCEPT !.volume = index]
                              ELSE l.profiles[i]]
<1>1. WithVolume(l, id, index) = [active |-> l.active, profiles |-> f]
  BY DEF WithVolume, IsLibrary
<1>2. \A i \in DOMAIN l.profiles : l.profiles[i] \in Profiles
  BY DEF IsLibrary
<1>3. \A i \in DOMAIN l.profiles : f[i] \in Profiles
  BY <1>2, MovedProfile
<1>4. \A i \in DOMAIN l.profiles : f[i].volume = IF i = id THEN index ELSE l.profiles[i].volume
  BY <1>2 DEF Profiles
<1>5. f \in [DOMAIN l.profiles -> Profiles] /\ DOMAIN f = DOMAIN l.profiles
  BY <1>3
<1> HIDE DEF f
<1>6. QED
  BY <1>1, <1>4, <1>5 DEF IsLibrary

\* A fresh id is an id.
LEMMA NextIdTyped == ASSUME NEW l, IsLibrary(l) PROVE NextId(l) \in ProfileIds
<1> DEFINE ids == DOMAIN l.profiles \cup {0}
<1>1. ids \in SUBSET Nat /\ IsFiniteSet(ids) /\ ids # {}
  BY FS_AddElement DEF IsLibrary, ProfileIds
<1>2. \E x \in ids : \A y \in ids : y <= x
  <2> HIDE DEF ids
  <2>1. QED
    BY <1>1, Greatest
<1>3. PICK x \in ids : x = CHOOSE i \in ids : \A j \in ids : j <= i
  BY <1>2
<1>4. NextId(l) = 1 + x
  BY <1>3 DEF NextId
<1>5. x \in Nat
  BY <1>1, <1>3
<1>6. QED
  BY <1>4, <1>5 DEF ProfileIds

\* A library in which a profile is stored.
LEMMA PutTyped ==
    ASSUME NEW l, IsLibrary(l), NEW id \in Nat, NEW p \in Profiles
    PROVE  /\ IsLibrary(Put(l, id, p)) /\ Put(l, id, p).active \in ProfileIds
           /\ Put(l, id, p).active \in DOMAIN Put(l, id, p).profiles
           /\ \A i \in DOMAIN Put(l, id, p).profiles :
                 \/ i = Put(l, id, p).active /\ Put(l, id, p).profiles[i] = p
                 \/ i \in DOMAIN l.profiles /\ Put(l, id, p).profiles[i] = l.profiles[i]
<1> DEFINE key == IF id = 0 THEN NextId(l) ELSE id
           f == [i \in DOMAIN l.profiles \cup {key} |->
                    IF i = key THEN p ELSE l.profiles[i]]
<1>1. key \in ProfileIds
  BY NextIdTyped DEF ProfileIds
<1>2. Put(l, id, p) = [active |-> key, profiles |-> f]
  BY DEF Put
<1>3. \A i \in DOMAIN l.profiles : l.profiles[i] \in Profiles
  BY DEF IsLibrary
<1> HIDE DEF key
<1>4. /\ DOMAIN f = DOMAIN l.profiles \cup {key} /\ f \in [DOMAIN l.profiles \cup {key} -> Profiles]
      /\ \A i \in DOMAIN l.profiles \cup {key} :
            \/ i = key /\ f[i] = p
            \/ i \in DOMAIN l.profiles /\ f[i] = l.profiles[i]
  BY <1>3
<1>5. DOMAIN l.profiles \cup {key} \subseteq ProfileIds /\ IsFiniteSet(DOMAIN l.profiles \cup {key})
  BY <1>1, FS_AddElement DEF IsLibrary
<1> HIDE DEF f
<1>6. QED
  BY <1>1, <1>2, <1>4, <1>5 DEF IsLibrary

\* A library from which a profile is removed.
LEMMA RemoveTyped ==
    ASSUME NEW l, IsLibrary(l), NEW id
    PROVE  /\ IsLibrary(Remove(l, id))
           /\ \A i \in DOMAIN Remove(l, id).profiles :
                 i \in DOMAIN l.profiles /\ Remove(l, id).profiles[i] = l.profiles[i]
           /\ Remove(l, id).active \in {l.active, None}
<1> DEFINE f == [i \in DOMAIN l.profiles \ {id} |-> l.profiles[i]]
           a == IF l.active = id THEN None ELSE l.active
<1>1. Remove(l, id) = [active |-> a, profiles |-> f]
  BY DEF Remove
<1>2. /\ DOMAIN f = DOMAIN l.profiles \ {id} /\ f \in [DOMAIN l.profiles \ {id} -> Profiles]
      /\ \A i \in DOMAIN l.profiles \ {id} : f[i] = l.profiles[i]
  BY DEF IsLibrary
<1>3. IsFiniteSet(DOMAIN l.profiles \ {id}) /\ DOMAIN l.profiles \ {id} \subseteq ProfileIds
  BY FS_RemoveElement DEF IsLibrary
<1>4. a \in (DOMAIN l.profiles \ {id}) \cup {None} /\ a \in {l.active, None}
  BY DEF IsLibrary
<1> HIDE DEF f, a
<1>5. QED
  BY <1>1, <1>2, <1>3, <1>4 DEF IsLibrary
\* The profile in force, and its level.
LEMMA CurrentTyped ==
    ASSUME NEW l, IsLibrary(l)
    PROVE  /\ Current(l) # None => /\ l.active \in DOMAIN l.profiles /\ l.active \in ProfileIds
                                   /\ Current(l) = l.profiles[l.active] /\ Current(l) \in Profiles
                                   /\ Current(l).volume \in Levels
           /\ Current(l) = None => l.active \notin DOMAIN l.profiles
           /\ Confirmed(l) # None => Confirmed(l) \in Levelled
<1>1. ASSUME l.active \in DOMAIN l.profiles
      PROVE  /\ l.active \in ProfileIds /\ Current(l) = l.profiles[l.active]
             /\ Current(l) \in Profiles /\ Current(l).volume \in Levels
  <2>1. l.active \in ProfileIds /\ Current(l) = l.profiles[l.active] /\ Current(l) \in Profiles
    BY <1>1 DEF IsLibrary, Current
  <2>2. QED
    BY <2>1 DEF Profiles
<1>2. l.active \notin DOMAIN l.profiles => Current(l) = None
  BY DEF Current
<1>3. Confirmed(l) # None => Confirmed(l) \in Levelled
  BY <1>1, <1>2 DEF Confirmed, Levelled
<1>4. QED
  BY <1>1, <1>2, <1>3, NoneAssumption

-----------------------------------------------------------------------------
(* The types.                                                               *)

Tables == UNION {[S -> Statuses] : S \in SUBSET Nat}
Pendings == [request : Nat, index : Levels]

RegistryTyped ==
    /\ session \in [Receivers -> {"new", "live", "gone"}]
    /\ device \in [Receivers -> Statuses \cup {None}]
    /\ observed \in [Receivers -> Levels \cup {None}]
    /\ unsolicited \in [Receivers -> Events \cup {None}]
    /\ volume_requests \in [Receivers -> SUBSET Nat]
    /\ panel_barrier \in [Receivers -> Nat \cup {None}]
    /\ playback \in [Receivers -> BOOLEAN]
    /\ replies \in [Receivers -> Tables]
    /\ next_request \in [Receivers -> Nat \ {0}]

QueuesTyped ==
    /\ controls \in [Receivers -> Seq(Commands)]
    /\ reports \in [Receivers -> Seq(Reports)]

PhonesTyped ==
    /\ phone \in [Devices -> Phones]
    /\ link \in [Devices -> Receivers \cup {None}]
    /\ done \in [Receivers -> Nat]

LibraryTyped ==
    /\ IsLibrary(library)
    /\ disk # Unreadable => IsLibrary(disk)
    /\ confirmed # None => confirmed \in Levelled
    /\ draft # None => draft.id \in Nat /\ draft.profile \in Profiles

WorkTyped ==
    /\ pending \in [Receivers -> Pendings \cup {None}]
    /\ blocked \subseteq Receivers
    /\ master_seen \in Receivers \cup {None}
    /\ DOMAIN originals \subseteq Receivers
    /\ \A r \in DOMAIN originals : originals[r] \in Levels
    /\ DOMAIN snap \subseteq Receivers
    /\ \A r \in DOMAIN snap : snap[r] \in Statuses \cup {None}
    /\ pc \in {"idle", "replies", "targets", "publish"}
    /\ pc = "publish" /\ plan.ready => plan.index \in Levels
    /\ worker \in {"running", "stopped", "finished"}
    /\ commanded \in [Receivers -> Nat]
    /\ fence \in [Receivers -> Nat]

Typed == RegistryTyped /\ QueuesTyped /\ PhonesTyped /\ LibraryTyped /\ WorkTyped

\* The types the model promises follow.
LEMMA TypedIsTypeOK == Typed => TypeOK
<1> SUFFICES ASSUME Typed PROVE TypeOK
  OBVIOUS
<1>1. \A r \in Receivers : replies[r] \in [DOMAIN replies[r] -> Statuses]
  <2> SUFFICES ASSUME NEW r \in Receivers PROVE replies[r] \in [DOMAIN replies[r] -> Statuses]
    OBVIOUS
  <2>1. PICK S \in SUBSET Nat : replies[r] \in [S -> Statuses]
    BY DEF Typed, RegistryTyped, Tables
  <2>2. QED
    BY <2>1
<1>2. \A r \in Receivers : /\ controls[r] \in Seq(Commands) /\ reports[r] \in Seq(Reports)
                           /\ pending[r] \in [request : Nat, index : Levels] \cup {None}
  BY DEF Typed, QueuesTyped, WorkTyped, Pendings
<1>3. next_request \in [Receivers -> Nat]
  BY DEF Typed, RegistryTyped
<1>4. QED
  BY <1>1, <1>2, <1>3, Zenon
     DEF Typed, RegistryTyped, PhonesTyped, LibraryTyped, WorkTyped, TypeOK

\* When the server starts.
LEMMA InitTyped == Init => Typed
<1> SUFFICES ASSUME Init PROVE Typed
  OBVIOUS
<1>1. 0 \in Levels
  BY LevelAssumption DEF Levels
<1>2. IsLibrary(EmptyLibrary)
  <2>1. EmptyLibrary.active = None /\ EmptyLibrary.profiles = [i \in {} |-> None]
    BY DEF EmptyLibrary
  <2>2. DOMAIN EmptyLibrary.profiles = {} /\ EmptyLibrary.profiles \in [{} -> Profiles]
    BY <2>1
  <2>3. QED
    BY <2>1, <2>2, FS_EmptySet DEF IsLibrary, EmptyLibrary
<1>3. IsLibrary(library) /\ (disk # Unreadable => IsLibrary(disk))
  BY <1>2, LibraryAssumption DEF Init, Unreadable
<1>4. LibraryTyped
  BY <1>3, CurrentTyped DEF Init, LibraryTyped
<1>5. [i \in {} |-> None] \in Tables
  <2>1. [i \in {} |-> None] \in [{} -> Statuses]
    OBVIOUS
  <2>2. {} \in SUBSET Nat
    OBVIOUS
  <2>3. QED
    BY <2>1, <2>2, Zenon DEF Tables
<1>6. RegistryTyped
  BY <1>5 DEF Init, RegistryTyped
<1>7. QueuesTyped
  BY DEF Init, QueuesTyped
<1>8. PhonesTyped
  BY <1>1 DEF Init, PhoneInit, PhonesTyped, Phones
<1>9. WorkTyped
  BY DEF Init, WorkTyped, NoSnap
<1>10. QED
  BY <1>4, <1>6, <1>7, <1>8, <1>9 DEF Typed

-----------------------------------------------------------------------------
(* What is sent.                                                            *)

\* The volume commands of a step go to live receivers and ask for levels.
Sending(sent, level, queues) ==
    /\ sent \subseteq Live
    /\ \A r \in sent : level[r] \in Levels
    /\ VolumeRequests(sent, level, queues)

\* Volume commands.
LEMMA SendingTyped ==
    ASSUME RegistryTyped, NEW queues \in [Receivers -> Seq(Commands)], NEW sent, NEW level,
           Sending(sent, level, queues)
    PROVE  /\ controls' \in [Receivers -> Seq(Commands)]
           /\ volume_requests' \in [Receivers -> SUBSET Nat]
           /\ next_request' \in [Receivers -> Nat \ {0}]
           /\ \A r \in sent : r \in Receivers /\ Pending(r, level[r]) \in Pendings
<1>1. \A r \in sent : r \in Receivers /\ level[r] \in Levels /\ next_request[r] \in Nat \ {0}
  BY DEF Sending, Live, RegistryTyped
<1>2. \A r \in sent : SetVolume(next_request[r], level[r]) \in Commands
  BY <1>1 DEF SetVolume, Commands
<1>3. \A r \in sent : Append(queues[r], SetVolume(next_request[r], level[r])) \in Seq(Commands)
  BY <1>1, <1>2
<1>4. controls' \in [Receivers -> Seq(Commands)]
  BY <1>3 DEF Sending, VolumeRequests
<1>5. \A r \in sent : Remember(volume_requests[r], next_request[r]) \in SUBSET Nat
  BY <1>1 DEF Remember, RegistryTyped
<1>6. volume_requests' \in [Receivers -> SUBSET Nat]
  BY <1>5 DEF Sending, VolumeRequests, RegistryTyped
<1>7. next_request' \in [Receivers -> Nat \ {0}]
  BY DEF Sending, VolumeRequests, RegistryTyped
<1>8. \A r \in sent : Pending(r, level[r]) \in Pendings
  BY <1>1 DEF Pending, Pendings
<1>9. QED
  BY <1>1, <1>4, <1>6, <1>7, <1>8

\* A message to everybody, which carries no request id.
LEMMA BroadcastTyped ==
    ASSUME NEW queues \in [Receivers -> Seq(Commands)], NEW message \in Commands
    PROVE  Broadcast(queues, message) \in [Receivers -> Seq(Commands)]
BY DEF Broadcast

\* The messages without a request id are commands.
LEMMA PlainCommands ==
    /\ QueryDevice \in Commands /\ CancelCalibration \in Commands /\ ToneOff \in Commands
    /\ QueryDevice.op # "set" /\ CancelCalibration.op # "set" /\ ToneOff.op # "set"
    /\ QueryDevice.id = 0 /\ CancelCalibration.id = 0 /\ ToneOff.id = 0
<1>1. 0 \in Levels
  BY LevelAssumption DEF Levels
<1>2. QED
  BY <1>1 DEF QueryDevice, CancelCalibration, ToneOff, Commands

\* A closing window asks for the levels it found.
LEMMA CloseSends ==
    ASSUME Typed, Close
    PROVE  \E sent, queues, level :
             /\ queues = Broadcast(Broadcast(controls, ToneOff), CancelCalibration)
             /\ Sending(sent, level, queues)
             /\ pending' = [r \in Receivers |-> IF r \in sent THEN Pending(r, level[r]) ELSE None]
<1> DEFINE queues == Broadcast(Broadcast(controls, ToneOff), CancelCalibration)
           sent == {r \in DOMAIN originals : session[r] = "live" /\ Len(queues[r]) < ControlCap}
<1>1. VolumeRequests(sent, originals, queues)
  BY DEF Close
<1>2. sent \subseteq Live /\ \A r \in sent : originals[r] \in Levels
  BY DEF Typed, WorkTyped, Live
<1>3. pending' = [r \in Receivers |-> IF r \in sent THEN Pending(r, originals[r]) ELSE None]
  BY DEF Close
<1> HIDE DEF queues, sent
<1>4. Sending(sent, originals, queues)
  BY <1>1, <1>2 DEF Sending
<1>5. QED
  BY <1>3, <1>4 DEF queues

\* A set with one element has its elements.
LEMMA TheOne == ASSUME NEW S, Cardinality(S) = 1 PROVE (CHOOSE x \in S : TRUE) \in S
<1>1. S # {}
  BY FS_EmptySet
<1>2. QED
  BY <1>1

\* The panel commands the master.
LEMMA PanelSends ==
    ASSUME Typed, NEW requested \in Levels, SetVolumePanel(requested)
    PROVE  \E master, level, index :
             /\ master \in Live /\ index \in Levels
             /\ level = [r \in {master} |-> index] /\ Sending({master}, level, controls)
             /\ pending' = [pending EXCEPT ![master] = Pending(master, level[master])]
             /\ RaiseBarrier({master})
             /\ commanded' = [commanded EXCEPT ![master] = next_request[master]]
             /\ fence' = FenceAt({master})
             /\ library' = WithVolume(library, library.active, index)
<1> DEFINE profile == Current(library)
           masters == Holders(profile.master, Snapshots)
           master == CHOOSE r \in masters : TRUE
           index == Nearest(profile, requested, Participating(profile, Snapshots))
           level == [r \in {master} |-> index]
<1>1. /\ Cardinality(masters) = 1 /\ index # None
      /\ VolumeRequests({master}, level, controls)
      /\ RaiseBarrier({master})
      /\ commanded' = [commanded EXCEPT ![master] = next_request[master]]
      /\ fence' = FenceAt({master})
      /\ library' = WithVolume(library, library.active, index)
      /\ pending' = [pending EXCEPT ![master] = Pending(master, index)]
  BY DEF SetVolumePanel
<1>2. masters \subseteq Live
  BY DEF Holders, Snapshots
<1>3. master \in Live
  BY <1>1, <1>2, TheOne
<1>4. index \in Levels
  BY <1>1, NearestTyped
<1> HIDE DEF masters, master, index, profile
<1>5. level[master] = index
  OBVIOUS
<1>6. Sending({master}, level, controls)
  BY <1>1, <1>3, <1>4, <1>5 DEF Sending
<1>7. QED
  BY <1>1, <1>3, <1>4, <1>5, <1>6

\* The tick fences the master, if it can.
LEMMA FenceSends ==
    ASSUME Typed, TickFence
    PROVE  \E sent, level, asked :
             /\ asked \in SUBSET Receivers
             /\ Sending(sent, level, controls)
             /\ pending' = [r \in Receivers |-> IF r \in sent THEN Pending(r, level[r]) ELSE pending[r]]
             /\ RaiseBarrier(sent)
             /\ commanded' = [r \in Receivers |->
                                IF r \in sent THEN next_request[r] ELSE commanded[r]]
             /\ IF sent = {} THEN UNCHANGED <<fence, needs_fence, master_seen>>
                ELSE fence' = FenceAt(sent) /\ ~needs_fence' /\ master_seen' \in Receivers
             /\ blocked' = blocked \cup (asked \ sent)
<1> DEFINE index == Nearest(Current(library), Current(library).volume, TickParticipating)
           asked == IF TickMaster \in blocked \/ index = None THEN {} ELSE {TickMaster}
           sent == Reachable(asked)
           level == [r \in sent |-> index]
<1>1. /\ VolumeRequests(sent, level, controls) /\ RaiseBarrier(sent)
      /\ commanded' = [r \in Receivers |-> IF r \in sent THEN next_request[r] ELSE commanded[r]]
      /\ IF sent = {} THEN UNCHANGED <<master_seen, needs_fence, pending, fence>>
         ELSE /\ master_seen' = TickMaster /\ fence' = FenceAt(sent) /\ needs_fence' = FALSE
              /\ pending' = [pending EXCEPT ![TickMaster] = Pending(TickMaster, index)]
      /\ blocked' = blocked \cup (asked \ sent)
      /\ MasterKnown
  BY DEF TickFence
<1>2. TickMaster \in TickMasters /\ TickMasters \subseteq DOMAIN snap
  BY <1>1, TheOne DEF MasterKnown, TickMaster, TickMasters, Holders
<1>3. TickMaster \in Receivers
  BY <1>2 DEF Typed, WorkTyped
<1>4. asked \subseteq {TickMaster} /\ asked \in SUBSET Receivers /\ (asked # {} => index # None)
  BY <1>3
<1>5. sent \subseteq asked /\ sent \subseteq Live /\ (sent # {} => sent = {TickMaster})
  BY <1>3, <1>4 DEF Reachable, Live
<1>6. index # None => index \in Levels
  <2>1. Current(library).volume \in Levels
    BY <1>1, CurrentTyped DEF MasterKnown, Typed, LibraryTyped
  <2>2. QED
    BY <2>1, NearestTyped
<1> HIDE DEF sent, asked, index
<1>7. \A r \in sent : level[r] = index /\ index \in Levels
  BY <1>4, <1>5, <1>6
<1>8. pending' = [r \in Receivers |-> IF r \in sent THEN Pending(r, level[r]) ELSE pending[r]]
  <2>1. pending \in [Receivers -> Pendings \cup {None}]
    BY DEF Typed, WorkTyped
  <2>2. CASE sent = {}
    BY <1>1, <2>1, <2>2
  <2>3. CASE sent = {TickMaster}
    <3>1. pending' = [pending EXCEPT ![TickMaster] = Pending(TickMaster, index)]
      BY <1>1, <2>3
    <3>2. \A r \in sent : r = TickMaster /\ level[r] = index
      BY <1>7, <2>3
    <3> HIDE DEF level
    <3>3. QED
      BY <2>1, <2>3, <3>1, <3>2
  <2>4. QED
    BY <1>5, <2>2, <2>3
<1>9. Sending(sent, level, controls)
  BY <1>1, <1>5, <1>7 DEF Sending
<1>10. QED
  BY <1>1, <1>3, <1>4, <1>8, <1>9

\* The tick commands the members that are not at their level.
LEMMA TargetsSends ==
    ASSUME Typed, TickTargets
    PROVE  \E sent, level, asked :
             /\ asked \in SUBSET Receivers
             /\ Sending(sent, level, controls)
             /\ pending' = [r \in Receivers |-> IF r \in sent THEN Pending(r, level[r]) ELSE pending[r]]
             /\ blocked' = blocked \cup (asked \ sent)
             /\ master_seen' \in Receivers
             /\ \/ library' = library /\ TickIndex = None
                \/ TickIndex \in Levels /\ library' = WithVolume(library, library.active, TickIndex)
             /\ plan'.index = TickIndex /\ (plan'.ready => TickIndex \in Levels)
<1> DEFINE profile == Current(library)
           index == TickIndex
           members == IF index = None THEN {} ELSE TickMembers
           level == [r \in members |-> TargetLevel(profile, snap[r].device, index)]
           waiting == {r \in members : \/ snap[r].volume # level[r]
                                       \/ pending[r] # None
                                       \/ r \in blocked}
           asked == Asked(waiting)
           sent == Reachable(asked)
<1>1. /\ VolumeRequests(sent, level, controls) /\ MasterKnown
      /\ master_seen' = TickMaster
      /\ IF index = None THEN library' = library
         ELSE library' = WithVolume(library, library.active, index)
      /\ pending' = [r \in Receivers |-> IF r \in sent THEN Pending(r, level[r]) ELSE pending[r]]
      /\ blocked' = blocked \cup (asked \ sent)
      /\ plan' = [ready |-> index # None /\ waiting = {}, members |-> members, index |-> index]
  BY DEF TickTargets
<1>2. TickMaster \in TickMasters /\ TickMasters \subseteq DOMAIN snap
  BY <1>1, TheOne DEF MasterKnown, TickMaster, TickMasters, Holders
<1>3. TickMaster \in Receivers /\ DOMAIN snap \subseteq Receivers
  BY <1>2 DEF Typed, WorkTyped
<1>4. profile \in Profiles /\ profile.volume \in Levels
  BY <1>1, CurrentTyped DEF MasterKnown, Typed, LibraryTyped
<1>5. TickRequested \in Levels
  <2>1. unsolicited[TickMaster] # None => unsolicited[TickMaster].volume \in Levels
    BY <1>3 DEF Typed, RegistryTyped, Events
  <2>2. QED
    BY <1>4, <2>1 DEF TickRequested
<1>6. index # None => index \in Levels /\ index \in Available(profile, TickParticipating)
  BY <1>5, NearestTyped DEF TickIndex
<1>7. members \subseteq Receivers /\ waiting \subseteq members /\ asked \subseteq waiting
  BY <1>3 DEF TickMembers, Asked
<1>8. sent \subseteq Live /\ sent \subseteq members
  BY <1>7 DEF Reachable, Live
<1>9. ASSUME NEW r \in members PROVE level[r] \in Levels
  <2>1. index # None /\ r \in TickMembers
    BY <1>9
  <2>2. TickParticipating \in SUBSET DOMAIN profile.followers
    BY DEF TickParticipating, Participating
  <2>3. snap[r].device = profile.master \/ snap[r].device \in TickParticipating
    BY <1>2, <2>1 DEF TickMembers, TickMasters, Holders, Matches
  <2>4. TargetLevel(profile, snap[r].device, index) \in Levels
    BY <1>4, <1>6, <2>1, <2>2, <2>3, TargetTyped
  <2>5. QED
    BY <1>9, <2>4
<1>10. plan'.index = index /\ (plan'.ready => index \in Levels)
  BY <1>1, <1>6
<1>11. asked \in SUBSET Receivers
  BY <1>7
<1> HIDE DEF sent, asked, level, members, waiting, index, profile
<1>12. Sending(sent, level, controls)
  BY <1>1, <1>8, <1>9 DEF Sending
<1>13. \/ library' = library /\ index = None
       \/ index \in Levels /\ library' = WithVolume(library, library.active, index)
  BY <1>1, <1>6
<1>14. QED
  BY <1>1, <1>3, <1>10, <1>11, <1>12, <1>13 DEF index
-----------------------------------------------------------------------------
(* What a phone answers.                                                    *)

\* Reports made after the command `after', in reply to `id' or to nothing.
Answers(id, after) ==
    {q \in Seq(Reports) : \A i \in DOMAIN q : /\ q[i].after = after
                                              /\ q[i].id \in {0, QueryReply, id}}

Outcomes(id, after) ==
    [volume : Levels, reported : Levels \cup {None}, sent : Answers(id, after)]

\* A status a phone reports.
LEMMA StatusTyped ==
    ASSUME PhonesTyped, NEW d \in Devices, NEW volume \in Levels, NEW failed \in BOOLEAN
    PROVE  StatusOf(d, volume, failed) \in Statuses
<1>1. phone[d].usable \in BOOLEAN
  BY DEF PhonesTyped, Phones
<1>2. QED
  BY <1>1, Zenon DEF StatusOf, Statuses

\* One report.
LEMMA OneAnswer ==
    ASSUME NEW status \in Statuses, NEW id \in Nat, NEW after \in Nat,
           NEW reply \in {0, QueryReply, id}
    PROVE  /\ Report(status, reply, after) \in Reports
           /\ <<Report(status, reply, after)>> \in Answers(id, after)
<1>1. reply \in Nat \cup {QueryReply}
  BY DEF QueryReply
<1> DEFINE report == Report(status, reply, after)
<1>2. report \in Reports /\ report.after = after /\ report.id = reply
  BY <1>1 DEF Report, Reports
<1> HIDE DEF report
<1>3. <<report>> \in Answers(id, after)
  BY <1>2 DEF Answers
<1>4. QED
  BY <1>2, <1>3 DEF report

\* Whatever a phone does with a command, it ends at a level and reports what
\* it did.
LEMMA OutcomeTyped ==
    ASSUME PhonesTyped, NEW d \in Devices, NEW command \in Commands, NEW after \in Nat,
           command.op = "set" => after = command.id
    PROVE  /\ Outcome(d, command, after) \in Outcomes(command.id, after)
           /\ FaultyOutcomes(d, command, after) \subseteq Outcomes(command.id, after)
<1> DEFINE id == command.id
           now == phone[d]
<1>1. /\ id \in Nat /\ command.index \in Levels
      /\ command.op \in {"query", "set", "cancel", "tone"}
  BY DEF Commands
<1>2. now.volume \in Levels /\ now.reported \in Levels \cup {None}
  BY DEF PhonesTyped, Phones
<1>3. ReplyId(command) \in {0, QueryReply, id}
  BY DEF ReplyId
<1>4. <<>> \in Answers(id, after)
  BY DEF Answers
<1>5. \A volume \in Levels, reported \in Levels \cup {None}, sent \in Answers(id, after) :
         [volume |-> volume, reported |-> reported, sent |-> sent] \in Outcomes(id, after)
  BY Zenon DEF Outcomes
<1> HIDE DEF id, now
<1>6. ASSUME NEW actual \in Levels, command.op = "set"
      PROVE  SetOutcome(d, command, actual) \in Outcomes(id, after)
  <2>1. StatusOf(d, actual, actual # command.index) \in Statuses
    BY StatusTyped
  <2>2. <<Report(StatusOf(d, actual, actual # command.index), command.id, command.id)>>
          \in Answers(id, after)
    BY <1>1, <1>6, <2>1, OneAnswer DEF id
  <2>3. QED
    BY <1>5, <2>2 DEF SetOutcome
<1>7. Refused(d, command, after) \in Outcomes(id, after)
  <2>1. StatusOf(d, now.volume, TRUE) \in Statuses
    BY <1>2, StatusTyped
  <2>2. <<Report(StatusOf(d, now.volume, TRUE), ReplyId(command), after)>> \in Answers(id, after)
    BY <1>1, <1>3, <2>1, OneAnswer
  <2>3. QED
    BY <1>2, <1>5, <2>2 DEF Refused, now
<1>8. Announce(d, after) \in Outcomes(id, after)
  <2>1. StatusOf(d, now.volume, FALSE) \in Statuses
    BY <1>2, StatusTyped
  <2>2. <<Report(StatusOf(d, now.volume, FALSE), 0, after)>> \in Answers(id, after)
    BY <1>1, <2>1, OneAnswer
  <2>3. QED
    BY <1>2, <1>5, <2>2 DEF Announce, now
<1>9. QueryOutcome(d, after) \in Outcomes(id, after)
  <2> DEFINE status == StatusOf(d, now.volume, FALSE)
             first == Report(status, 0, after)
             last == Report(status, QueryReply, after)
  <2>1. status \in Statuses
    BY <1>2, StatusTyped
  <2>2. <<last>> \in Answers(id, after) /\ first \in Reports /\ last \in Reports
    BY <1>1, <2>1, OneAnswer
  <2>3. first.after = after /\ last.after = after /\ first.id = 0 /\ last.id = QueryReply
    BY DEF Report
  <2> HIDE DEF first, last
  <2>4. <<first>> \o <<last>> \in Answers(id, after)
    <3>1. <<first>> \in Seq(Reports) /\ <<last>> \in Seq(Reports)
      BY <2>2
    <3>2. /\ <<first>> \o <<last>> \in Seq(Reports)
          /\ Len(<<first>> \o <<last>>) = 2
          /\ \A i \in 1 .. 2 : (<<first>> \o <<last>>)[i] \in {first, last}
      BY <3>1, ConcatProperties
    <3> DEFINE both == <<first>> \o <<last>>
    <3>3. both \in Seq(Reports) /\ DOMAIN both = 1 .. 2
      BY <3>2
    <3>4. \A i \in 1 .. 2 : both[i] = first \/ both[i] = last
      BY <3>2
    <3> HIDE DEF both
    <3>5. both \in Answers(id, after)
      BY <2>3, <3>3, <3>4 DEF Answers
    <3>6. QED
      BY <3>5 DEF both
  <2>5. QED
    BY <1>2, <1>5, <2>2, <2>4 DEF QueryOutcome, first, last, now
<1>10. Silent(d) \in Outcomes(id, after)
  BY <1>2, <1>4, <1>5 DEF Silent, now
<1>11. Outcome(d, command, after) \in Outcomes(id, after)
  <2>1. CASE command.op = "set" /\ phone[d].usable
    BY <1>1, <1>6, <2>1 DEF Outcome
  <2>2. CASE command.op = "set" /\ ~phone[d].usable
    BY <1>7, <2>2 DEF Outcome
  <2>3. CASE command.op = "query"
    BY <1>9, <2>3 DEF Outcome
  <2>4. CASE command.op = "cancel"
    BY <1>8, <2>4 DEF Outcome
  <2>5. CASE command.op = "tone"
    BY <1>10, <2>5 DEF Outcome
  <2>6. QED
    BY <1>1, <2>1, <2>2, <2>3, <2>4, <2>5
<1>12. ASSUME NEW outcome \in FaultyOutcomes(d, command, after)
       PROVE  outcome \in Outcomes(id, after)
  <2> DEFINE good == Outcome(d, command, after)
             unread == <<Report(UnreadableStatus, ReplyId(command), after)>>
  <2>1. unread \in Answers(id, after)
    <3>1. UnreadableStatus \in Statuses
      <4>1. 0 \in Levels
        BY LevelAssumption DEF Levels
      <4>2. QED
        BY <4>1 DEF UnreadableStatus, Statuses
    <3>2. QED
      BY <1>1, <1>3, <3>1, OneAnswer
  <2>2. good \in Outcomes(id, after)
    BY <1>11
  <2> HIDE DEF good, unread
  <2>3. [good EXCEPT !.reported = now.reported, !.sent = unread] \in Outcomes(id, after)
    BY <1>2, <2>1, <2>2 DEF Outcomes
  <2>4. [good EXCEPT !.sent = <<>>] \in Outcomes(id, after)
    BY <1>4, <2>2 DEF Outcomes
  <2>5. \/ \E actual \in Levels : command.op = "set" /\ outcome = SetOutcome(d, command, actual)
        \/ outcome = Refused(d, command, after)
        \/ outcome = [good EXCEPT !.reported = now.reported, !.sent = unread]
        \/ outcome = [good EXCEPT !.sent = <<>>]
    BY <1>12, Zenon DEF FaultyOutcomes, good, unread, now
  <2>6. QED
    BY <1>6, <1>7, <2>3, <2>4, <2>5
<1>13. QED
  BY <1>11, <1>12 DEF id
\* What becomes of a phone and of its reports.
LEMMA BecomeTyped ==
    ASSUME PhonesTyped, NEW d \in Devices, NEW r \in Receivers, NEW id, NEW after,
           NEW outcome \in Outcomes(id, after), Become(d, r, outcome)
    PROVE  /\ phone' \in [Devices -> Phones]
           /\ \E q \in Answers(id, after) : reports' = [reports EXCEPT ![r] = @ \o q]
<1>1. /\ outcome.volume \in Levels /\ outcome.reported \in Levels \cup {None}
      /\ outcome.sent \in Answers(id, after)
  BY DEF Outcomes
<1>2. phone \in [Devices -> Phones]
  BY DEF PhonesTyped
<1>3. phone' \in [Devices -> Phones]
  BY <1>1, <1>2 DEF Become, Phones
<1>4. QED
  BY <1>1, <1>3 DEF Become

\* A phone takes a command.
LEMMA ApplyAnswers ==
    ASSUME PhonesTyped, QueuesTyped, NEW r \in Receivers, ApplyPending(r)
    PROVE  LET command == Head(controls[r])
               after == IF command.op = "set" THEN command.id ELSE done[r]
           IN  /\ command \in Commands /\ after \in Nat /\ controls[r] # <<>>
               /\ link[DeviceOf[r]] = r
               /\ controls' = [controls EXCEPT ![r] = Tail(@)]
               /\ done' = [done EXCEPT ![r] = after]
               /\ phone' \in [Devices -> Phones]
               /\ \E q \in Answers(command.id, after) : reports' = [reports EXCEPT ![r] = @ \o q]
<1> DEFINE command == Head(controls[r])
           after == IF command.op = "set" THEN command.id ELSE done[r]
           d == DeviceOf[r]
<1>1. command \in Commands /\ controls[r] # <<>>
  BY HeadTailProperties DEF QueuesTyped, ApplyPending
<1>2. after \in Nat /\ (command.op = "set" => after = command.id)
  BY <1>1 DEF PhonesTyped, Commands
<1>3. d \in Devices
  BY ReceiverAssumption
<1>4. /\ link[d] = r /\ controls' = [controls EXCEPT ![r] = Tail(@)]
      /\ done' = [done EXCEPT ![r] = after]
      /\ \/ Become(d, r, Outcome(d, command, after))
         \/ \E outcome \in FaultyOutcomes(d, command, after) : Become(d, r, outcome)
  BY Zenon DEF ApplyPending
<1> HIDE DEF command, after, d
<1>5. PICK outcome \in Outcomes(command.id, after) : Become(d, r, outcome)
  BY <1>1, <1>2, <1>3, <1>4, OutcomeTyped
<1>6. phone' \in [Devices -> Phones] /\ \E q \in Answers(command.id, after) : reports' = [reports EXCEPT ![r] = @ \o q]
  BY <1>3, <1>5, BecomeTyped
<1>7. QED
  BY <1>1, <1>2, <1>4, <1>6 DEF command, after, d

\* A phone speaks by itself.
LEMMA AnnounceAnswers ==
    ASSUME PhonesTyped, QueuesTyped, NEW d \in Devices, Watchdog(d) \/ RouteChanged(d)
    PROVE  /\ phone' \in [Devices -> Phones]
           /\ \/ reports' = reports
              \/ /\ link[d] \in Receivers
                 /\ \E q \in Answers(0, done[link[d]]) : reports' = [reports EXCEPT ![link[d]] = @ \o q]
<1>1. ASSUME link[d] # None
      PROVE  link[d] \in Receivers /\ done[link[d]] \in Nat
  BY <1>1 DEF PhonesTyped
<1>2. phone[d].volume \in Levels /\ phone[d].usable \in BOOLEAN /\ phone \in [Devices -> Phones]
  BY DEF PhonesTyped, Phones
<1>3. StatusOf(d, phone[d].volume, FALSE) \in Statuses
  BY <1>2, StatusTyped
<1>4. CASE Watchdog(d)
  <2> DEFINE r == link[d]
             after == done[r]
  <2>1. r \in Receivers /\ after \in Nat /\ Become(d, r, Announce(d, after))
    BY <1>1, <1>4 DEF Watchdog
  <2>2. <<Report(StatusOf(d, phone[d].volume, FALSE), 0, after)>> \in Answers(0, after)
    BY <1>3, <2>1, OneAnswer
  <2>3. Announce(d, after) \in Outcomes(0, after)
    BY <1>2, <2>2, Zenon DEF Announce, Outcomes
  <2> HIDE DEF r, after
  <2>4. phone' \in [Devices -> Phones] /\ \E q \in Answers(0, after) : reports' = [reports EXCEPT ![r] = @ \o q]
    BY <2>1, <2>3, BecomeTyped
  <2>5. QED
    BY <2>1, <2>4 DEF r, after
<1>5. CASE RouteChanged(d)
  <2> DEFINE status == [StatusOf(d, phone[d].volume, FALSE) EXCEPT !.usable = ~phone[d].usable]
  <2>1. status \in Statuses
    BY <1>2, <1>3 DEF Statuses
  <2>2. phone' = [phone EXCEPT ![d].usable = ~@, ![d].reported = phone[d].volume]
    BY <1>5 DEF RouteChanged
  <2>3. phone' \in [Devices -> Phones]
    BY <1>2, <2>2, ZenonT(60) DEF Phones
  <2>4. CASE link[d] = None
    BY <1>5, <2>3, <2>4 DEF RouteChanged
  <2>5. CASE link[d] # None
    <3> DEFINE r == link[d]
               report == Report(status, 0, done[r])
    <3>1. r \in Receivers /\ done[r] \in Nat /\ reports[r] \in Seq(Reports)
      BY <1>1, <2>5 DEF QueuesTyped
    <3>2. reports' = [reports EXCEPT ![r] = Append(@, report)]
      BY <1>5, <2>5 DEF RouteChanged
    <3>3. report \in Reports /\ <<report>> \in Answers(0, done[r])
      BY <2>1, <3>1, OneAnswer
    <3>4. Append(reports[r], report) = reports[r] \o <<report>>
      BY <3>1, <3>3, AppendIsConcat
    <3> HIDE DEF report, r
    <3>5. reports' = [reports EXCEPT ![r] = @ \o <<report>>]
      BY <3>2, <3>4
    <3>6. QED
      BY <2>3, <3>1, <3>3, <3>5 DEF r
  <2>6. QED
    BY <2>4, <2>5
<1>6. QED
  BY <1>4, <1>5

-----------------------------------------------------------------------------
(* The types are kept.                                                      *)

\* The phones and their sessions.
LEMMA NetworkTyped == ASSUME Typed, Network PROVE Typed'
<1>1. LibraryTyped' /\ WorkTyped'
  BY DEF Network, controllerVars, profileVars, commandVars, windowVars, tickVars, historyVars,
         Typed, LibraryTyped, WorkTyped
<1> USE DEF Typed
<1>2. ASSUME NEW r \in Receivers, Connect(r) PROVE RegistryTyped' /\ QueuesTyped' /\ PhonesTyped'
  <2>1. RegistryTyped'
    BY <1>2 DEF Connect, Register, RegistryTyped
  <2>2. QueuesTyped'
    BY <1>2 DEF Connect, Register, QueuesTyped
  <2>3. PhonesTyped'
    BY <1>2 DEF Connect, PhonesTyped
  <2>4. QED
    BY <2>1, <2>2, <2>3
<1>3. ASSUME NEW r \in Receivers, Disconnect(r) PROVE RegistryTyped' /\ QueuesTyped' /\ PhonesTyped'
  <2>1. [i \in {} |-> None] \in Tables
    <3>1. [i \in {} |-> None] \in [{} -> Statuses]
      OBVIOUS
    <3>2. {} \in SUBSET Nat
      OBVIOUS
    <3>3. QED
      BY <3>1, <3>2, Zenon DEF Tables
  <2>2. RegistryTyped'
    BY <1>3, <2>1 DEF Disconnect, Deregister, RegistryTyped, DenyAll
  <2>3. QueuesTyped'
    BY <1>3 DEF Disconnect, Deregister, QueuesTyped
  <2>4. PhonesTyped'
    BY <1>3 DEF Disconnect, PhonesTyped
  <2>5. QED
    BY <2>2, <2>3, <2>4
<1>4. ASSUME NEW r \in Receivers, QueryTick(r) PROVE RegistryTyped' /\ QueuesTyped' /\ PhonesTyped'
  <2>1. Append(controls[r], QueryDevice) \in Seq(Commands)
    BY PlainCommands, AppendProperties DEF QueuesTyped
  <2>2. QED
    BY <1>4, <2>1 DEF QueryTick, registryVars, phoneVars, RegistryTyped, QueuesTyped, PhonesTyped
<1>5. ASSUME NEW r \in Receivers, ApplyPending(r) PROVE RegistryTyped' /\ QueuesTyped' /\ PhonesTyped'
  <2>1. RegistryTyped'
    BY <1>5 DEF ApplyPending, registryVars, RegistryTyped
  <2>2. Tail(controls[r]) \in Seq(Commands)
    BY <1>5, ApplyAnswers, HeadTailProperties DEF QueuesTyped
  <2>3. PICK id, after : \E q \in Answers(id, after) : reports' = [reports EXCEPT ![r] = @ \o q]
    BY <1>5, ApplyAnswers
  <2>4. reports' \in [Receivers -> Seq(Reports)]
    BY <2>3, ConcatProperties DEF Answers, QueuesTyped
  <2>5. QueuesTyped'
    BY <1>5, <2>2, <2>4 DEF ApplyPending, QueuesTyped
  <2>6. PhonesTyped'
    BY <1>5, ApplyAnswers DEF PhonesTyped, ApplyPending
  <2>7. QED
    BY <2>1, <2>5, <2>6
<1>6. ASSUME NEW d \in Devices, Watchdog(d) \/ RouteChanged(d)
      PROVE  RegistryTyped' /\ QueuesTyped' /\ PhonesTyped'
  <2>1. RegistryTyped'
    BY <1>6 DEF Watchdog, RouteChanged, registryVars, RegistryTyped
  <2>2. reports' \in [Receivers -> Seq(Reports)]
    <3>1. CASE reports' = reports
      BY <3>1 DEF QueuesTyped
    <3>2. CASE reports' # reports
      <4>1. PICK q \in Answers(0, done[link[d]]) : reports' = [reports EXCEPT ![link[d]] = @ \o q]
        BY <1>6, <3>2, AnnounceAnswers
      <4>2. link[d] \in Receivers
        BY <1>6, <3>2, AnnounceAnswers
      <4>3. QED
        BY <4>1, <4>2, ConcatProperties DEF Answers, QueuesTyped
    <3>3. QED
      BY <3>1, <3>2
  <2>3. QueuesTyped'
    BY <1>6, <2>2 DEF Watchdog, RouteChanged, QueuesTyped
  <2>4. PhonesTyped'
    BY <1>6, AnnounceAnswers DEF PhonesTyped, Watchdog, RouteChanged
  <2>5. QED
    BY <2>1, <2>3, <2>4
<1>7. ASSUME NEW d \in Devices, NEW level \in Levels, VolumeKey(d, level)
      PROVE  RegistryTyped' /\ QueuesTyped' /\ PhonesTyped'
  BY <1>7 DEF VolumeKey, registryVars, linkVars, RegistryTyped, QueuesTyped, PhonesTyped, Phones
<1>8. ASSUME NEW r \in Receivers, UpdateDevice(r), UNCHANGED phoneVars
      PROVE  RegistryTyped' /\ QueuesTyped' /\ PhonesTyped'
  <2> DEFINE report == Head(reports[r])
             status == report.status
  <2>1. reports[r] # <<>> /\ report \in Reports /\ Tail(reports[r]) \in Seq(Reports)
    BY <1>8, HeadTailProperties DEF UpdateDevice, QueuesTyped
  <2>2. status \in Statuses /\ status.volume \in Levels /\ report.after \in Nat /\ report.id \in Nat \cup {QueryReply}
    BY <2>1 DEF Reports, Statuses
  <2>3. [volume |-> status.volume, after |-> report.after] \in Events
    BY <2>2 DEF Events
  <2>4. QueuesTyped'
    BY <1>8, <2>1 DEF UpdateDevice, QueuesTyped
  <2>5. PhonesTyped'
    BY <1>8 DEF phoneVars, PhonesTyped
  <2> HIDE DEF report, status
  <2>6. device' \in [Receivers -> Statuses \cup {None}]
    BY <1>8, <2>2 DEF UpdateDevice, RegistryTyped, report, status
  <2>7. observed' \in [Receivers -> Levels \cup {None}]
    <3>1. observed' = [observed EXCEPT ![r] = observed'[r]] /\ observed'[r] \in {observed[r], status.volume}
      BY <1>8 DEF UpdateDevice, RegistryTyped, report, status
    <3>2. QED
      BY <2>2, <3>1 DEF RegistryTyped
  <2>8. unsolicited' \in [Receivers -> Events \cup {None}]
    <3>1. \E e \in {unsolicited[r], None, [volume |-> status.volume, after |-> report.after]} :
             unsolicited' = [unsolicited EXCEPT ![r] = e]
      BY <1>8 DEF UpdateDevice, RegistryTyped, report, status
    <3>2. QED
      BY <2>3, <3>1 DEF RegistryTyped
  <2>9. volume_requests' \in [Receivers -> SUBSET Nat]
    BY <1>8 DEF UpdateDevice, RegistryTyped
  <2>10. panel_barrier' \in [Receivers -> Nat \cup {None}]
    BY <1>8 DEF UpdateDevice, RegistryTyped, Lifted
  <2>11. playback' \in [Receivers -> BOOLEAN]
    <3>1. playback' = [playback EXCEPT ![r] = @ /\ SameOutput(device[r], status)]
      BY <1>8 DEF UpdateDevice, report, status
    <3>2. SameOutput(device[r], status) \in BOOLEAN
      BY DEF SameOutput
    <3>3. QED
      BY <3>1, <3>2, Zenon DEF RegistryTyped
  <2>12. replies' \in [Receivers -> Tables]
    <3> DEFINE old == replies[r]
               new == [i \in DOMAIN old \cup {report.id} |-> IF i = report.id THEN status ELSE old[i]]
    <3>1. PICK S \in SUBSET Nat : old \in [S -> Statuses]
      BY DEF RegistryTyped, Tables
    <3>2. ASSUME report.id \in Nat PROVE new \in Tables
      <4>1. S \cup {report.id} \in SUBSET Nat /\ DOMAIN old = S
        BY <3>1, <3>2
      <4>2. new \in [S \cup {report.id} -> Statuses]
        BY <2>2, <3>1, <4>1
      <4> HIDE DEF new
      <4>3. QED
        BY <4>1, <4>2 DEF Tables
    <3>3. replies' = [replies EXCEPT ![r] = IF report.id \in {0, QueryReply} THEN old ELSE new]
      BY <1>8 DEF UpdateDevice, report, status
    <3> HIDE DEF new, old
    <3>4. QED
      BY <2>2, <3>2, <3>3 DEF RegistryTyped, old
  <2>13. session' = session /\ next_request' = next_request
    BY <1>8 DEF UpdateDevice
  <2>14. RegistryTyped'
    BY <2>6, <2>7, <2>8, <2>9, <2>10, <2>11, <2>12, <2>13, Zenon DEF RegistryTyped
  <2>15. QED
    BY <2>4, <2>5, <2>14
<1>9. RegistryTyped' /\ QueuesTyped' /\ PhonesTyped'
  BY <1>2, <1>3, <1>4, <1>5, <1>6, <1>7, <1>8, Zenon DEF Network
<1>10. QED
  BY <1>1, <1>9
\* What is saved is a library.
LEMMA PersistedTyped ==
    ASSUME LibraryTyped
    PROVE  /\ IsLibrary(Persisted)
           /\ Persisted.active = library.active /\ DOMAIN Persisted.profiles = DOMAIN library.profiles
           /\ \A i \in DOMAIN library.profiles :
                 Persisted.profiles[i].volume
                    = IF confirmed # None /\ i = confirmed.id THEN confirmed.index
                      ELSE library.profiles[i].volume
<1>1. CASE confirmed = None
  BY <1>1 DEF Persisted, LibraryTyped
<1>2. CASE confirmed # None
  <2>1. confirmed.index \in Levels /\ IsLibrary(library)
    BY <1>2 DEF LibraryTyped, Levelled
  <2>2. Persisted = WithVolume(library, confirmed.id, confirmed.index)
    BY <1>2 DEF Persisted
  <2>3. QED
    BY <1>2, <2>1, <2>2, WithVolumeTyped
<1>3. QED
  BY <1>1, <1>2

\* A message to everybody before another.
LEMMA TwoBroadcasts ==
    ASSUME QueuesTyped
    PROVE  /\ Broadcast(Broadcast(controls, ToneOff), CancelCalibration) \in [Receivers -> Seq(Commands)]
           /\ Broadcast(Broadcast(controls, CancelCalibration), ToneOff) \in [Receivers -> Seq(Commands)]
<1>1. controls \in [Receivers -> Seq(Commands)]
  BY DEF QueuesTyped
<1>2. Broadcast(controls, ToneOff) \in [Receivers -> Seq(Commands)]
  BY <1>1, BroadcastTyped, PlainCommands
<1>3. Broadcast(controls, CancelCalibration) \in [Receivers -> Seq(Commands)]
  BY <1>1, BroadcastTyped, PlainCommands
<1>4. QED
  BY <1>2, <1>3, BroadcastTyped, PlainCommands

\* The tick.
LEMMA TickTyped == ASSUME Typed, PlanInForce, Tick PROVE Typed'
<1> USE DEF Typed
<1>1. CASE TickSnapshot
  <2>1. LibraryTyped' /\ PhonesTyped' /\ QueuesTyped'
    BY <1>1 DEF TickSnapshot, LibraryTyped, PhonesTyped, QueuesTyped, profileVars, phoneVars, linkVars
  <2>2. RegistryTyped'
    BY <1>1 DEF TickSnapshot, RegistryTyped, DenyAll
  <2>3. Snapshots \in [Live -> Statuses \cup {None}] /\ Live \subseteq Receivers
    BY DEF Snapshots, Live, RegistryTyped
  <2>4. WorkTyped'
    BY <1>1, <2>3 DEF TickSnapshot, WorkTyped, commandVars, windowVars, historyVars
  <2>5. QED
    BY <2>1, <2>2, <2>4
<1>2. ASSUME NEW late \in SUBSET Waiting, TickReplies(late) PROVE Typed'
  <2>1. LibraryTyped' /\ PhonesTyped' /\ QueuesTyped'
    BY <1>2 DEF TickReplies, LibraryTyped, PhonesTyped, QueuesTyped, profileVars, linkVars
  <2>2. late \subseteq Receivers /\ Answered \subseteq Receivers
    BY DEF Waiting, Answered, WorkTyped
  <2>3. WorkTyped'
    BY <1>2, <2>2 DEF TickReplies, WorkTyped, windowVars, historyVars
  <2>4. ASSUME NEW r \in Receivers, NEW id
        PROVE  [i \in DOMAIN replies[r] \ {id} |-> replies[r][i]] \in Tables
    <3>1. PICK S \in SUBSET Nat : replies[r] \in [S -> Statuses]
      BY DEF RegistryTyped, Tables
    <3>2. [i \in DOMAIN replies[r] \ {id} |-> replies[r][i]] \in [S \ {id} -> Statuses] /\ S \ {id} \in SUBSET Nat
      BY <3>1
    <3>3. QED
      BY <3>2, Zenon DEF Tables
  <2>5. replies' \in [Receivers -> Tables]
    BY <1>2, <2>4 DEF TickReplies, RegistryTyped
  <2>6. RegistryTyped'
    BY <1>2, <2>5 DEF TickReplies, RegistryTyped
  <2>7. QED
    BY <2>1, <2>3, <2>6
<1>3. CASE TickNoMaster
  <2>1. LibraryTyped' /\ PhonesTyped' /\ QueuesTyped'
    BY <1>3 DEF TickNoMaster, LibraryTyped, PhonesTyped, QueuesTyped, profileVars, phoneVars, linkVars
  <2>2. RegistryTyped'
    BY <1>3 DEF TickNoMaster, RegistryTyped, DenyAll
  <2>3. WorkTyped'
    BY <1>3 DEF TickNoMaster, TickDone, NoSnap, WorkTyped, windowVars, historyVars
  <2>4. QED
    BY <2>1, <2>2, <2>3
<1>4. CASE TickFence
  <2>1. LibraryTyped' /\ PhonesTyped'
    BY <1>4 DEF TickFence, LibraryTyped, PhonesTyped, profileVars, phoneVars
  <2>2. PICK sent, level, asked :
          /\ asked \in SUBSET Receivers
          /\ Sending(sent, level, controls)
          /\ pending' = [r \in Receivers |-> IF r \in sent THEN Pending(r, level[r]) ELSE pending[r]]
          /\ RaiseBarrier(sent)
          /\ commanded' = [r \in Receivers |-> IF r \in sent THEN next_request[r] ELSE commanded[r]]
          /\ IF sent = {} THEN UNCHANGED <<fence, needs_fence, master_seen>>
             ELSE fence' = FenceAt(sent) /\ ~needs_fence' /\ master_seen' \in Receivers
          /\ blocked' = blocked \cup (asked \ sent)
    BY <1>4, FenceSends, Zenon
  <2>3. /\ controls' \in [Receivers -> Seq(Commands)]
        /\ volume_requests' \in [Receivers -> SUBSET Nat]
        /\ next_request' \in [Receivers -> Nat \ {0}]
        /\ \A r \in sent : r \in Receivers /\ Pending(r, level[r]) \in Pendings
    BY <2>2, SendingTyped DEF QueuesTyped
  <2>4. QueuesTyped'
    BY <1>4, <2>3 DEF TickFence, QueuesTyped
  <2>5. RegistryTyped'
    BY <1>4, <2>2, <2>3 DEF TickFence, RegistryTyped, RaiseBarrier, DenyAll
  <2>6. /\ pending' \in [Receivers -> Pendings \cup {None}] /\ blocked' \subseteq Receivers
        /\ commanded' \in [Receivers -> Nat]
    BY <2>2, <2>3 DEF WorkTyped, RegistryTyped
  <2>7. master_seen' \in Receivers \cup {None} /\ fence' \in [Receivers -> Nat]
    BY <2>2 DEF WorkTyped, FenceAt
  <2>8. WorkTyped'
    BY <1>4, <2>6, <2>7 DEF TickFence, TickDone, NoSnap, WorkTyped, windowVars
  <2>9. QED
    BY <2>1, <2>4, <2>5, <2>8
<1>5. CASE TickTargets
  <2>1. PhonesTyped'
    BY <1>5 DEF TickTargets, PhonesTyped, phoneVars
  <2>2. PICK sent, level, asked :
          /\ asked \in SUBSET Receivers
          /\ Sending(sent, level, controls)
          /\ pending' = [r \in Receivers |-> IF r \in sent THEN Pending(r, level[r]) ELSE pending[r]]
          /\ blocked' = blocked \cup (asked \ sent)
          /\ master_seen' \in Receivers
          /\ \/ library' = library /\ TickIndex = None
             \/ TickIndex \in Levels /\ library' = WithVolume(library, library.active, TickIndex)
          /\ plan'.index = TickIndex /\ (plan'.ready => TickIndex \in Levels)
    BY <1>5, TargetsSends, Zenon
  <2>3. /\ controls' \in [Receivers -> Seq(Commands)]
        /\ volume_requests' \in [Receivers -> SUBSET Nat]
        /\ next_request' \in [Receivers -> Nat \ {0}]
        /\ \A r \in sent : r \in Receivers /\ Pending(r, level[r]) \in Pendings
    BY <2>2, SendingTyped DEF QueuesTyped
  <2>4. QueuesTyped'
    BY <1>5, <2>3 DEF TickTargets, QueuesTyped
  <2>5. RegistryTyped'
    <3>1. unsolicited' \in [Receivers -> Events \cup {None}]
      BY <1>5 DEF TickTargets, RegistryTyped
    <3>2. UNCHANGED <<session, device, observed, panel_barrier, playback, replies>>
      BY <1>5 DEF TickTargets
    <3>3. QED
      BY <2>3, <3>1, <3>2 DEF RegistryTyped
  <2>6. pending' \in [Receivers -> Pendings \cup {None}] /\ blocked' \subseteq Receivers
    BY <2>2, <2>3 DEF WorkTyped
  <2>7. pc' = "publish" /\ UNCHANGED <<originals, snap, worker, commanded, fence>>
    BY <1>5 DEF TickTargets, windowVars, historyVars
  <2>8. WorkTyped'
    BY <2>2, <2>6, <2>7 DEF WorkTyped
  <2>9. IsLibrary(library')
    BY <2>2, WithVolumeTyped DEF LibraryTyped
  <2>10. LibraryTyped'
    BY <1>5, <2>9 DEF TickTargets, LibraryTyped
  <2>11. QED
    BY <2>1, <2>4, <2>5, <2>8, <2>10
<1>6. CASE TickPublish
  <2>1. PhonesTyped' /\ QueuesTyped'
    BY <1>6 DEF TickPublish, PhonesTyped, QueuesTyped, phoneVars, linkVars
  <2>2. WorkTyped'
    BY <1>6 DEF TickPublish, TickDone, NoSnap, NoPlan, WorkTyped, windowVars, commandVars
  <2>3. playback' \in [Receivers -> BOOLEAN]
    <3>1. CASE plan.ready
      <4>1. Approve(plan.members, snap)
        BY <1>6, <3>1 DEF TickPublish
      <4>2. QED
        BY <4>1, Zenon DEF Approve
    <3>2. CASE ~plan.ready
      BY <1>6, <3>2 DEF TickPublish, DenyAll
    <3>3. QED
      BY <3>1, <3>2
  <2>4. RegistryTyped'
    BY <1>6, <2>3 DEF TickPublish, RegistryTyped
  <2>5. CASE ~plan.ready
    BY <1>6, <2>1, <2>2, <2>4, <2>5 DEF TickPublish, LibraryTyped
  <2>6. CASE plan.ready
    <3>1. /\ confirmed' = [id |-> library.active, index |-> plan.index]
          /\ disk' = disk \/ disk' = WithVolume(library, library.active, plan.index)
          /\ library' = library /\ draft' = draft
      BY <1>6, <2>6 DEF TickPublish
    <3>2. plan.index \in Levels
      BY <1>6, <2>6 DEF TickPublish, WorkTyped
    <3>3. library.active \in ProfileIds
      BY <1>6, <2>6 DEF TickPublish, PlanInForce, LibraryTyped, IsLibrary
    <3>4. confirmed' \in Levelled
      BY <3>1, <3>2, <3>3 DEF Levelled
    <3>5. disk' # Unreadable => IsLibrary(disk')
      BY <3>1, <3>2, WithVolumeTyped DEF LibraryTyped
    <3>6. LibraryTyped'
      BY <3>1, <3>4, <3>5 DEF LibraryTyped
    <3>7. QED
      BY <2>1, <2>2, <2>4, <3>6
  <2>7. QED
    BY <2>5, <2>6
<1>7. QED
  BY <1>1, <1>2, <1>3, <1>4, <1>5, <1>6 DEF Tick
\* The operator's commands.
LEMMA OperatorTyped == ASSUME Typed, Operator PROVE Typed'
<1> USE DEF Typed
<1>1. CASE Open
  <2>1. PhonesTyped' /\ QueuesTyped'
    BY <1>1 DEF Open, PhonesTyped, QueuesTyped, phoneVars, linkVars
  <2>2. RegistryTyped'
    BY <1>1 DEF Open, RegistryTyped, DenyAll
  <2>3. originals' = [r \in {s \in Live : device[s] # None} |-> device[r].volume]
    BY <1>1 DEF Open
  <2>4. \A r \in {s \in Live : device[s] # None} : r \in Receivers /\ device[r].volume \in Levels
    BY DEF RegistryTyped, Live, Statuses
  <2>5. DOMAIN originals' \subseteq Receivers /\ \A r \in DOMAIN originals' : originals'[r] \in Levels
    BY <2>3, <2>4
  <2>6. WorkTyped'
    BY <1>1, <2>5 DEF Open, OperatorMay, WorkTyped, tickVars, historyVars
  <2>7. draft' # None => draft'.id \in Nat /\ draft'.profile \in Profiles
    BY <1>1, CurrentTyped DEF Open, LibraryTyped, ProfileIds
  <2>8. LibraryTyped'
    BY <1>1, <2>7 DEF Open, LibraryTyped
  <2>9. QED
    BY <2>1, <2>2, <2>6, <2>8
<1>2. CASE Close
  <2>1. PICK sent, queues, level :
          /\ queues = Broadcast(Broadcast(controls, ToneOff), CancelCalibration)
          /\ Sending(sent, level, queues)
          /\ pending' = [r \in Receivers |-> IF r \in sent THEN Pending(r, level[r]) ELSE None]
    BY <1>2, CloseSends
  <2>2. queues \in [Receivers -> Seq(Commands)]
    BY <2>1, TwoBroadcasts
  <2>3. /\ controls' \in [Receivers -> Seq(Commands)]
        /\ volume_requests' \in [Receivers -> SUBSET Nat]
        /\ next_request' \in [Receivers -> Nat \ {0}]
        /\ \A r \in sent : r \in Receivers /\ Pending(r, level[r]) \in Pendings
    BY <2>1, <2>2, SendingTyped
  <2>4. QueuesTyped' /\ PhonesTyped'
    BY <1>2, <2>3 DEF Close, QueuesTyped, PhonesTyped, phoneVars
  <2>5. RegistryTyped'
    <3>1. UNCHANGED <<session, device, observed, unsolicited, panel_barrier, playback, replies>>
      BY <1>2 DEF Close
    <3>2. QED
      BY <2>3, <3>1 DEF RegistryTyped
  <2>6. pending' \in [Receivers -> Pendings \cup {None}]
    BY <2>1, <2>3
  <2>7. /\ originals' = [r \in {} |-> None] /\ master_seen' = None /\ blocked' = {}
        /\ fence' = [r \in Receivers |-> 0] /\ UNCHANGED <<pc, snap, plan, worker, commanded>>
    BY <1>2 DEF Close, tickVars
  <2>8. WorkTyped'
    BY <2>6, <2>7 DEF WorkTyped
  <2>9. LibraryTyped'
    BY <1>2 DEF Close, LibraryTyped
  <2>10. QED
    BY <2>4, <2>5, <2>8, <2>9
<1>3. ASSUME NEW d \in Drafts \cup {None}, SetDraft(d) PROVE Typed'
  <2>1. RegistryTyped' /\ PhonesTyped' /\ QueuesTyped'
    BY <1>3 DEF SetDraft, RegistryTyped, PhonesTyped, QueuesTyped, registryVars, phoneVars, linkVars
  <2>2. WorkTyped'
    BY <1>3 DEF SetDraft, WorkTyped, commandVars, windowVars, tickVars, historyVars
  <2>3. LibraryTyped'
    BY <1>3, LibraryAssumption DEF SetDraft, LibraryTyped
  <2>4. QED
    BY <2>1, <2>2, <2>3
<1>4. ASSUME NEW copy \in BOOLEAN, SaveDraft(copy) PROVE Typed'
  <2>1. RegistryTyped' /\ PhonesTyped' /\ QueuesTyped'
    BY <1>4 DEF SaveDraft, RegistryTyped, PhonesTyped, QueuesTyped, registryVars, phoneVars, linkVars
  <2>2. WorkTyped'
    BY <1>4 DEF SaveDraft, OperatorMay, WorkTyped, windowVars, tickVars
  <2> DEFINE profile == draft.profile
             mapped == {f \in DOMAIN profile.followers : DOMAIN profile.followers[f] # {}}
             volume == Nearest(profile, profile.volume, mapped)
             saved == [profile EXCEPT !.volume = volume]
             key == IF copy THEN 0 ELSE draft.id
             stored == Put(Persisted, key, saved)
  <2>3. /\ draft # None /\ volume # None /\ library' = stored /\ disk' = stored
        /\ confirmed' = [id |-> stored.active, index |-> volume]
        /\ draft' = [id |-> stored.active, profile |-> saved]
    BY <1>4 DEF SaveDraft
  <2>4. profile \in Profiles /\ profile.volume \in Levels /\ key \in Nat
    BY <2>3 DEF LibraryTyped, Profiles
  <2>5. volume \in Levels
    BY <2>3, <2>4, NearestTyped
  <2>6. saved \in Profiles
    BY <2>4, <2>5, MovedProfile
  <2> HIDE DEF profile, volume, saved, key
  <2>7. IsLibrary(stored) /\ stored.active \in ProfileIds
    BY <2>4, <2>6, PersistedTyped, PutTyped
  <2> HIDE DEF stored
  <2>8. confirmed' \in Levelled /\ draft'.id \in Nat /\ draft'.profile \in Profiles
    BY <2>3, <2>5, <2>6, <2>7 DEF Levelled, ProfileIds
  <2>9. LibraryTyped'
    BY <2>3, <2>7, <2>8 DEF LibraryTyped
  <2>10. QED
    BY <2>1, <2>2, <2>9
<1>5. ASSUME NEW id \in DOMAIN library.profiles, Select(id) PROVE Typed'
  <2>1. PhonesTyped' /\ QueuesTyped'
    BY <1>5 DEF Select, PhonesTyped, QueuesTyped, phoneVars, linkVars
  <2>2. RegistryTyped'
    BY <1>5 DEF Select, RegistryTyped, DenyAll
  <2>3. fence' \in [Receivers -> Nat]
    BY <1>5 DEF Select, RegistryTyped
  <2>4. WorkTyped'
    BY <1>5, <2>3 DEF Select, OperatorMay, WorkTyped, windowVars, tickVars
  <2> DEFINE stored == [Persisted EXCEPT !.active = id]
  <2>5. disk' = stored /\ library' = stored /\ confirmed' = Confirmed(stored) /\ draft' = draft
    BY <1>5 DEF Select
  <2>6. IsLibrary(stored)
    BY PersistedTyped DEF IsLibrary
  <2> HIDE DEF stored
  <2>7. LibraryTyped'
    BY <2>5, <2>6, CurrentTyped DEF LibraryTyped
  <2>8. QED
    BY <2>1, <2>2, <2>4, <2>7
<1>6. ASSUME NEW id \in DOMAIN library.profiles, SelectDraft(id) PROVE Typed'
  <2>1. RegistryTyped' /\ PhonesTyped' /\ QueuesTyped'
    BY <1>6 DEF SelectDraft, RegistryTyped, PhonesTyped, QueuesTyped, registryVars, phoneVars, linkVars
  <2>2. WorkTyped'
    BY <1>6 DEF SelectDraft, OperatorMay, WorkTyped, commandVars, windowVars, tickVars, historyVars
  <2>3. id \in Nat /\ library.profiles[id] \in Profiles
    BY DEF LibraryTyped, IsLibrary, ProfileIds
  <2>4. LibraryTyped'
    BY <1>6, <2>3 DEF SelectDraft, LibraryTyped
  <2>5. QED
    BY <2>1, <2>2, <2>4
<1>7. ASSUME NEW id \in DOMAIN library.profiles, Delete(id) PROVE Typed'
  <2>1. RegistryTyped' /\ PhonesTyped' /\ QueuesTyped'
    BY <1>7 DEF Delete, RegistryTyped, PhonesTyped, QueuesTyped, registryVars, phoneVars, linkVars
  <2>2. WorkTyped'
    BY <1>7 DEF Delete, OperatorMay, WorkTyped, commandVars, windowVars, tickVars, historyVars
  <2> DEFINE stored == Remove(Persisted, id)
  <2>3. /\ disk' = stored /\ library' = stored /\ confirmed' = Confirmed(stored)
        /\ draft' = IF Current(stored) = None THEN None
                    ELSE [id |-> stored.active, profile |-> Current(stored)]
    BY <1>7 DEF Delete
  <2>4. IsLibrary(stored)
    BY PersistedTyped, RemoveTyped
  <2> HIDE DEF stored
  <2>5. draft' # None => draft'.id \in Nat /\ draft'.profile \in Profiles
    BY <2>3, <2>4, CurrentTyped DEF ProfileIds
  <2>6. LibraryTyped'
    BY <2>3, <2>4, <2>5, CurrentTyped DEF LibraryTyped
  <2>7. QED
    BY <2>1, <2>2, <2>6
<1>8. ASSUME NEW requested \in Levels, SetVolumePanel(requested) PROVE Typed'
  <2>1. PICK master, level, index :
          /\ master \in Live /\ index \in Levels
          /\ level = [r \in {master} |-> index] /\ Sending({master}, level, controls)
          /\ pending' = [pending EXCEPT ![master] = Pending(master, level[master])]
          /\ RaiseBarrier({master})
          /\ commanded' = [commanded EXCEPT ![master] = next_request[master]]
          /\ fence' = FenceAt({master})
          /\ library' = WithVolume(library, library.active, index)
    BY <1>8, PanelSends
  <2>2. /\ controls' \in [Receivers -> Seq(Commands)]
        /\ volume_requests' \in [Receivers -> SUBSET Nat]
        /\ next_request' \in [Receivers -> Nat \ {0}]
        /\ master \in Receivers /\ Pending(master, level[master]) \in Pendings
    BY <2>1, SendingTyped DEF QueuesTyped
  <2>3. PhonesTyped' /\ QueuesTyped'
    BY <1>8, <2>2 DEF SetVolumePanel, PhonesTyped, QueuesTyped, phoneVars
  <2>4. RegistryTyped'
    <3>1. UNCHANGED <<session, device, observed, replies>> /\ DenyAll
      BY <1>8 DEF SetVolumePanel
    <3>2. QED
      BY <2>1, <2>2, <3>1 DEF RegistryTyped, RaiseBarrier, DenyAll
  <2>5. /\ blocked' = {} /\ UNCHANGED <<master_seen, originals, pc, snap, plan, worker>>
    BY <1>8 DEF SetVolumePanel, windowVars, tickVars
  <2>6. /\ pending' \in [Receivers -> Pendings \cup {None}] /\ commanded' \in [Receivers -> Nat]
        /\ fence' \in [Receivers -> Nat]
    BY <2>1, <2>2 DEF WorkTyped, RegistryTyped, FenceAt
  <2>7. WorkTyped'
    BY <2>5, <2>6 DEF WorkTyped
  <2>8. IsLibrary(library')
    BY <2>1, WithVolumeTyped DEF LibraryTyped
  <2>9. LibraryTyped'
    BY <1>8, <2>8 DEF SetVolumePanel, LibraryTyped
  <2>10. QED
    BY <2>3, <2>4, <2>7, <2>9
<1>9. QED
  BY <1>1, <1>2, <1>3, <1>4, <1>5, <1>6, <1>7, <1>8, Zenon DEF Operator

\* Every step.
LEMMA NextTyped == ASSUME Typed, PlanInForce, [Next]_vars PROVE Typed'
<1> USE DEF Typed
<1>1. CASE StopWorker
  <2>1. controls' \in [Receivers -> Seq(Commands)]
    BY <1>1, TwoBroadcasts DEF StopWorker
  <2>2. PhonesTyped' /\ QueuesTyped' /\ LibraryTyped'
    BY <1>1, <2>1 DEF StopWorker, PhonesTyped, QueuesTyped, LibraryTyped, phoneVars, profileVars
  <2>3. RegistryTyped'
    BY <1>1 DEF StopWorker, RegistryTyped, DenyAll
  <2>4. WorkTyped'
    BY <1>1 DEF StopWorker, WorkTyped, commandVars, tickVars, historyVars
  <2>5. QED
    BY <2>2, <2>3, <2>4
<1>2. CASE Finish
  <2>1. RegistryTyped' /\ PhonesTyped' /\ QueuesTyped'
    BY <1>2 DEF Finish, RegistryTyped, PhonesTyped, QueuesTyped, registryVars, phoneVars, linkVars
  <2>2. WorkTyped'
    BY <1>2 DEF Finish, WorkTyped, commandVars, windowVars, tickVars, historyVars
  <2>3. LibraryTyped'
    BY <1>2, PersistedTyped DEF Finish, LibraryTyped
  <2>4. QED
    BY <2>1, <2>2, <2>3
<1>3. CASE UNCHANGED vars
  <2>1. RegistryTyped' /\ PhonesTyped' /\ QueuesTyped'
    BY <1>3 DEF vars, RegistryTyped, PhonesTyped, QueuesTyped, registryVars, phoneVars, linkVars
  <2>2. WorkTyped' /\ LibraryTyped'
    BY <1>3 DEF vars, controllerVars, WorkTyped, LibraryTyped, profileVars, commandVars, windowVars,
                tickVars, historyVars
  <2>3. QED
    BY <2>1, <2>2
<1>4. QED
  BY <1>1, <1>2, <1>3, NetworkTyped, TickTyped, OperatorTyped DEF Next, Exited

\* The types of the server's and the phones' state (volume_control.rs,
\* registry.rs, DeviceVolumeControl.kt): an approved plan has a level, what is
\* asked of a phone is one of its levels, a saved library can be read again.
THEOREM Typing == Spec => []TypeOK
<1>1. Init => Typed /\ GateInv
  BY InitTyped, InitGates
<1>2. Typed /\ GateInv /\ [Next]_vars => (Typed /\ GateInv)'
  BY NextTyped, NextGates DEF GateInv
<1>3. Typed /\ GateInv => TypeOK
  BY TypedIsTypeOK
<1>4. QED
  BY <1>1, <1>2, <1>3, PTL DEF Spec
-----------------------------------------------------------------------------
(* What the file holds.                                                     *)

\* Every level of a library was in force, or was calibrated and saved.
AllSettled(l, levels) == \A i \in DOMAIN l.profiles : <<i, l.profiles[i].volume>> \in levels

\* Only the level of the profile last seen in force may be a wish, and its
\* confirmed level was in force; the active profile is always that one.
WishesApart ==
    /\ \A i \in DOMAIN library.profiles :
           (confirmed = None \/ i # confirmed.id) => <<i, library.profiles[i].volume>> \in settled
    /\ confirmed # None => <<confirmed.id, confirmed.index>> \in settled
    /\ Current(library) # None => confirmed # None /\ confirmed.id = library.active

DiskInv == DiskHoldsConfirmed /\ WishesApart

\* What State::persisted saves holds no wish.
LEMMA PersistedSettled ==
    ASSUME LibraryTyped, WishesApart PROVE AllSettled(Persisted, settled)
BY PersistedTyped DEF WishesApart, AllSettled

\* A library without wishes, with the levels it was confirmed at.
LEMMA SettledApart ==
    ASSUME NEW l, IsLibrary(l), AllSettled(l, settled'), library' = l, confirmed' = Confirmed(l)
    PROVE  WishesApart'
<1>1. CASE Current(l) = None
  BY <1>1 DEF WishesApart, AllSettled, Confirmed
<1>2. CASE Current(l) # None
  <2>1. /\ l.active \in DOMAIN l.profiles /\ Current(l) = l.profiles[l.active]
        /\ confirmed' = [id |-> l.active, index |-> Current(l).volume] /\ confirmed' \in Levelled
    BY <1>2, CurrentTyped, NoneAssumption DEF Confirmed, Levelled
  <2>2. confirmed' # None
    BY <2>1, NoneAssumption
  <2>3. QED
    BY <2>1, <2>2 DEF WishesApart, AllSettled
<1>3. QED
  BY <1>1, <1>2

\* The level wished for changes only at the active profile.
LEMMA WishedApart ==
    ASSUME LibraryTyped, WishesApart, Current(library) # None, NEW index \in Levels,
           library' = WithVolume(library, library.active, index), UNCHANGED <<confirmed, settled>>
    PROVE  WishesApart'
<1>1. /\ library'.active = library.active /\ DOMAIN library'.profiles = DOMAIN library.profiles
      /\ \A i \in DOMAIN library.profiles :
            i # library.active => library'.profiles[i].volume = library.profiles[i].volume
  BY WithVolumeTyped DEF LibraryTyped
<1>2. confirmed # None /\ confirmed.id = library.active
  BY DEF WishesApart
<1>3. QED
  BY <1>1, <1>2 DEF WishesApart

\* When the server starts.
LEMMA InitDisk == Init => DiskInv
<1> SUFFICES ASSUME Init PROVE DiskInv
  OBVIOUS
<1>1. IsLibrary(library)
  BY InitTyped DEF Typed, LibraryTyped
<1>2. AllSettled(library, settled)
  BY DEF Init, AllSettled
<1>3. confirmed = Confirmed(library) /\ (disk # Unreadable => library = disk)
  BY DEF Init
<1>4. DiskHoldsConfirmed
  BY <1>2, <1>3 DEF DiskHoldsConfirmed, AllSettled
<1>5. CASE Current(library) = None
  BY <1>2, <1>3, <1>4, <1>5 DEF WishesApart, AllSettled, Confirmed, DiskInv
<1>6. CASE Current(library) # None
  <2>1. /\ library.active \in DOMAIN library.profiles /\ Current(library) = library.profiles[library.active]
        /\ confirmed = [id |-> library.active, index |-> Current(library).volume] /\ confirmed \in Levelled
    BY <1>1, <1>3, <1>6, CurrentTyped DEF Confirmed, Levelled
  <2>2. confirmed # None
    BY <2>1, NoneAssumption
  <2>3. WishesApart
    BY <1>2, <2>1, <2>2 DEF WishesApart, AllSettled
  <2>4. QED
    BY <1>4, <2>3 DEF DiskInv
<1>7. QED
  BY <1>5, <1>6

\* Every step.
LEMMA NextDisk == ASSUME Typed, PlanInForce, DiskInv, [Next]_vars PROVE DiskInv'
<1> USE DEF DiskInv
<1>1. LibraryTyped /\ IsLibrary(library)
  BY DEF Typed, LibraryTyped
<1>2. ASSUME UNCHANGED <<library, confirmed, settled, disk>> PROVE DiskInv'
  BY <1>2 DEF DiskHoldsConfirmed, WishesApart
<1>3. ASSUME NEW copy \in BOOLEAN, SaveDraft(copy) PROVE DiskInv'
  <2> DEFINE profile == draft.profile
             mapped == {f \in DOMAIN profile.followers : DOMAIN profile.followers[f] # {}}
             volume == Nearest(profile, profile.volume, mapped)
             saved == [profile EXCEPT !.volume = volume]
             key == IF copy THEN 0 ELSE draft.id
             stored == Put(Persisted, key, saved)
  <2>1. /\ draft # None /\ volume # None /\ library' = stored /\ disk' = stored
        /\ confirmed' = [id |-> stored.active, index |-> volume]
        /\ settled' = settled \cup {<<stored.active, volume>>}
    BY <1>3 DEF SaveDraft
  <2>2. profile \in Profiles /\ profile.volume \in Levels /\ key \in Nat
    BY <1>1, <2>1 DEF LibraryTyped, Profiles
  <2>3. volume \in Levels
    BY <2>1, <2>2, NearestTyped
  <2>4. saved \in Profiles /\ saved.volume = volume
    BY <2>2, <2>3, MovedProfile DEF Profiles
  <2> HIDE DEF profile, volume, saved, key
  <2>5. /\ stored.active \in ProfileIds
        /\ \A i \in DOMAIN stored.profiles :
             \/ i = stored.active /\ stored.profiles[i] = saved
             \/ i \in DOMAIN Persisted.profiles /\ stored.profiles[i] = Persisted.profiles[i]
    BY <1>1, <2>2, <2>4, PersistedTyped, PutTyped
  <2> HIDE DEF stored
  <2>6. AllSettled(stored, settled')
    BY <1>1, <2>1, <2>4, <2>5, PersistedSettled DEF AllSettled
  <2>7. confirmed' # None
    BY <2>1, <2>3, <2>5, NoneAssumption DEF Levelled
  <2>8. Current(library') # None => library'.active = confirmed'.id
    BY <2>1
  <2>9. WishesApart'
    BY <2>1, <2>6, <2>7, <2>8 DEF WishesApart, AllSettled
  <2>10. QED
    BY <2>1, <2>6, <2>9 DEF DiskHoldsConfirmed, AllSettled
<1>4. ASSUME NEW id \in DOMAIN library.profiles, Select(id) PROVE DiskInv'
  <2> DEFINE stored == [Persisted EXCEPT !.active = id]
  <2>1. disk' = stored /\ library' = stored /\ confirmed' = Confirmed(stored) /\ settled' = settled
    BY <1>4 DEF Select
  <2>2. IsLibrary(stored) /\ stored.profiles = Persisted.profiles
    BY <1>1, PersistedTyped DEF IsLibrary
  <2> HIDE DEF stored
  <2>3. AllSettled(stored, settled')
    BY <1>1, <2>1, <2>2, PersistedSettled DEF AllSettled
  <2>4. WishesApart'
    BY <2>1, <2>2, <2>3, SettledApart
  <2>5. QED
    BY <2>1, <2>3, <2>4 DEF DiskHoldsConfirmed, AllSettled
<1>5. ASSUME NEW id \in DOMAIN library.profiles, Delete(id) PROVE DiskInv'
  <2> DEFINE stored == Remove(Persisted, id)
  <2>1. disk' = stored /\ library' = stored /\ confirmed' = Confirmed(stored) /\ settled' = settled
    BY <1>5 DEF Delete, historyVars
  <2>2. /\ IsLibrary(stored)
        /\ \A i \in DOMAIN stored.profiles :
             i \in DOMAIN Persisted.profiles /\ stored.profiles[i] = Persisted.profiles[i]
    BY <1>1, PersistedTyped, RemoveTyped
  <2> HIDE DEF stored
  <2>3. AllSettled(stored, settled')
    BY <1>1, <2>1, <2>2, PersistedSettled DEF AllSettled
  <2>4. WishesApart'
    BY <2>1, <2>2, <2>3, SettledApart
  <2>5. QED
    BY <2>1, <2>3, <2>4 DEF DiskHoldsConfirmed, AllSettled
<1>6. ASSUME NEW requested \in Levels, SetVolumePanel(requested) PROVE DiskInv'
  <2>1. PICK index \in Levels : library' = WithVolume(library, library.active, index)
    BY <1>6, PanelSends
  <2>2. Current(library) # None /\ UNCHANGED <<confirmed, settled, disk>>
    BY <1>6 DEF SetVolumePanel
  <2>3. WishesApart'
    BY <1>1, <2>1, <2>2, WishedApart
  <2>4. QED
    BY <2>2, <2>3 DEF DiskHoldsConfirmed
<1>7. CASE TickTargets
  <2>1. Current(library) # None /\ UNCHANGED <<confirmed, settled, disk>>
    BY <1>7 DEF TickTargets, MasterKnown, historyVars
  <2>2. library' = library \/ \E index \in Levels : library' = WithVolume(library, library.active, index)
    BY <1>7, TargetsSends
  <2>3. WishesApart'
    <3>1. CASE library' = library
      BY <2>1, <3>1 DEF WishesApart
    <3>2. QED
      BY <1>1, <2>1, <2>2, <3>1, WishedApart
  <2>4. QED
    BY <2>1, <2>3 DEF DiskHoldsConfirmed
<1>8. CASE TickPublish
  <2>1. CASE ~plan.ready
    BY <1>2, <1>8, <2>1 DEF TickPublish
  <2>2. CASE plan.ready
    <3> DEFINE active == library.active
               index == plan.index
               saved == WithVolume(library, active, index)
    <3>1. /\ confirmed' = [id |-> active, index |-> index]
          /\ settled' = settled \cup {<<active, index>>}
          /\ disk' = disk \/ disk' = saved
          /\ library' = library
      BY <1>8, <2>2 DEF TickPublish
    <3>2. index \in Levels /\ active \in DOMAIN library.profiles
      BY <1>8, <2>2 DEF TickPublish, PlanInForce, Typed, WorkTyped
    <3>3. confirmed # None /\ confirmed.id = active
      BY <1>1, <3>2, CurrentTyped DEF WishesApart
    <3>4. confirmed' # None
      BY <1>1, <3>1, <3>2, NoneAssumption DEF Levelled, IsLibrary
    <3>5. WishesApart'
      BY <3>1, <3>3, <3>4 DEF WishesApart
    <3>6. AllSettled(saved, settled')
      BY <1>1, <3>1, <3>2, <3>3, WithVolumeTyped DEF WishesApart, AllSettled
    <3> HIDE DEF saved, active, index
    <3>7. DiskHoldsConfirmed'
      BY <3>1, <3>6 DEF DiskHoldsConfirmed, AllSettled
    <3>8. QED
      BY <3>5, <3>7
  <2>3. QED
    BY <2>1, <2>2
<1>9. CASE Finish
  <2>1. UNCHANGED <<library, confirmed, settled>> /\ disk' \in {disk, Persisted}
    BY <1>9 DEF Finish, historyVars
  <2>2. QED
    BY <1>1, <2>1, PersistedSettled DEF DiskHoldsConfirmed, WishesApart, AllSettled
<1>10. ASSUME Open \/ Close \/ (\E d \in Drafts \cup {None} : SetDraft(d)) \/ (\E id \in DOMAIN library.profiles : SelectDraft(id))
       PROVE  UNCHANGED <<library, confirmed, settled, disk>>
  BY <1>10 DEF Open, Close, SetDraft, SelectDraft, historyVars
<1>11. ASSUME TickSnapshot \/ (\E late \in SUBSET Waiting : TickReplies(late)) \/ TickNoMaster \/ TickFence
       PROVE  UNCHANGED <<library, confirmed, settled, disk>>
  BY <1>11 DEF TickSnapshot, TickReplies, TickNoMaster, TickFence, profileVars, historyVars
<1>12. ASSUME Network \/ StopWorker \/ UNCHANGED vars
       PROVE  UNCHANGED <<library, confirmed, settled, disk>>
  BY <1>12 DEF Network, StopWorker, vars, controllerVars, profileVars, historyVars
<1>13. ASSUME Tick PROVE DiskInv'
  BY <1>2, <1>7, <1>8, <1>11, <1>13 DEF Tick
<1>14. ASSUME Operator PROVE DiskInv'
  BY <1>2, <1>3, <1>4, <1>5, <1>6, <1>10, <1>14 DEF Operator
<1>15. QED
  BY <1>2, <1>9, <1>12, <1>13, <1>14 DEF Next, Exited

\* At every save - of a draft, a selection, a deletion, a tick's or the last
\* one at shutdown - the file gets only levels that were in force for their
\* profile or were calibrated and saved (State::persisted), never one that
\* still waits for its receipt.
THEOREM DiskIsConfirmed == Spec => []DiskHoldsConfirmed
<1>1. Init => Typed /\ GateInv /\ DiskInv
  BY InitTyped, InitGates, InitDisk
<1>2. Typed /\ GateInv /\ DiskInv /\ [Next]_vars => (Typed /\ GateInv /\ DiskInv)'
  BY NextTyped, NextGates, NextDisk DEF GateInv
<1>3. DiskInv => DiskHoldsConfirmed
  BY DEF DiskInv
<1>4. QED
  BY <1>1, <1>2, <1>3, PTL DEF Spec
-----------------------------------------------------------------------------
(* The order of commands and reports.                                       *)

\* Volume commands on their way, after command `taken' and before `next'.
Ordered(c, taken, next) ==
    \A i \in DOMAIN c :
        /\ c[i].op = "set" => taken < c[i].id /\ c[i].id < next
        /\ c[i].op # "set" => c[i].id = 0
        /\ \A j \in DOMAIN c :
              i < j /\ c[i].op = "set" /\ c[j].op = "set" => c[i].id < c[j].id

\* Reports on their way, made no later than command `taken'.
Dated(q, taken) ==
    \A i \in DOMAIN q :
        /\ q[i].after <= taken
        /\ q[i].id > 0 => q[i].after = q[i].id
        /\ \A j \in DOMAIN q : i <= j => q[i].after <= q[j].after

\* Reports made after the command `id' was taken.
Since(q, id) == \A i \in DOMAIN q : q[i].after >= id

\* A command that carries no request id is queued.
LEMMA OrderedPlain ==
    ASSUME NEW c \in Seq(Commands), NEW taken \in Nat, NEW next \in Nat, Ordered(c, taken, next),
           NEW m \in Commands, m.op # "set", m.id = 0
    PROVE  Ordered(Append(c, m), taken, next)
<1> DEFINE e == Append(c, m)
<1>1. /\ Len(c) \in Nat /\ DOMAIN c = 1 .. Len(c) /\ DOMAIN e = 1 .. Len(c) + 1
      /\ \A i \in 1 .. Len(c) : e[i] = c[i]
      /\ e[Len(c) + 1] = m
  BY AppendProperties, LenProperties
<1> HIDE DEF e
<1>2. \A i \in DOMAIN e : (i \in DOMAIN c /\ e[i] = c[i]) \/ e[i] = m
  BY <1>1
<1>3. QED
  BY <1>2 DEF Ordered, e

\* A volume command is queued with the next request id.
LEMMA OrderedSet ==
    ASSUME NEW c \in Seq(Commands), NEW taken \in Nat, NEW next \in Nat, Ordered(c, taken, next),
           taken < next, NEW m \in Commands, m.op = "set", m.id = next
    PROVE  Ordered(Append(c, m), taken, next + 1)
<1> DEFINE e == Append(c, m)
           n == Len(c) + 1
<1>1. /\ Len(c) \in Nat /\ DOMAIN c = 1 .. Len(c) /\ DOMAIN e = 1 .. n
      /\ \A i \in 1 .. Len(c) : e[i] = c[i]
      /\ e[n] = m
  BY AppendProperties, LenProperties
<1>2. \A i \in DOMAIN c : c[i].id \in Nat
  <2>1. \A i \in DOMAIN c : c[i] \in Commands
    BY <1>1, ElementOfSeq
  <2>2. QED
    BY <2>1 DEF Commands
<1> HIDE DEF e
<1>3. ASSUME NEW i \in DOMAIN e
      PROVE  /\ i \in Nat /\ (i = n \/ (i \in DOMAIN c /\ i < n /\ e[i] = c[i]))
             /\ e[i].op = "set" => taken < e[i].id /\ e[i].id < next + 1
             /\ e[i].op # "set" => e[i].id = 0
  <2>1. i \in Nat /\ (i = n \/ (i \in DOMAIN c /\ i < n /\ e[i] = c[i]))
    <3>1. i \in 1 .. Len(c) + 1
      BY <1>1
    <3>2. i = Len(c) + 1 \/ i \in 1 .. Len(c)
      BY <1>1, <3>1
    <3>3. CASE i \in 1 .. Len(c)
      <4>1. i \in Nat /\ i < n
        BY <1>1, <3>3
      <4>2. i \in DOMAIN c /\ e[i] = c[i]
        BY <1>1, <3>3
      <4>3. QED
        BY <4>1, <4>2
    <3>4. QED
      BY <1>1, <3>1, <3>2, <3>3
  <2>2. CASE i = n
    BY <1>1, <2>1, <2>2
  <2>3. CASE i \in DOMAIN c /\ e[i] = c[i]
    <3>1. /\ e[i].op = "set" => taken < e[i].id /\ e[i].id < next
          /\ e[i].op # "set" => e[i].id = 0
      BY <2>3 DEF Ordered
    <3>2. QED
      BY <1>2, <2>1, <2>3, <3>1
  <2>4. QED
    BY <2>1, <2>2, <2>3
<1>4. ASSUME NEW i \in DOMAIN e, NEW j \in DOMAIN e, i < j, e[i].op = "set", e[j].op = "set"
      PROVE  e[i].id < e[j].id
  <2>1. i \in DOMAIN c /\ e[i] = c[i]
    BY <1>1, <1>3, <1>4
  <2>2. CASE j = n
    BY <1>1, <1>4, <2>1, <2>2 DEF Ordered
  <2>3. CASE j # n
    <3>1. j \in DOMAIN c /\ e[j] = c[j]
      BY <1>3, <2>3
    <3>2. QED
      BY <1>4, <2>1, <3>1 DEF Ordered
  <2>4. QED
    BY <2>2, <2>3
<1>5. QED
  BY <1>3, <1>4 DEF Ordered, e

\* The phone takes a command.
LEMMA OrderedTail ==
    ASSUME NEW c \in Seq(Commands), NEW taken \in Nat, NEW next \in Nat, Ordered(c, taken, next),
           taken < next, c # <<>>, NEW after,
           after = IF Head(c).op = "set" THEN Head(c).id ELSE taken
    PROVE  /\ Ordered(Tail(c), after, next) /\ taken <= after /\ after < next
           /\ Head(c).id = 0 \/ Head(c).id = after
<1> DEFINE e == Tail(c)
<1>1. /\ Len(c) \in Nat \ {0} /\ DOMAIN c = 1 .. Len(c) /\ DOMAIN e = 1 .. Len(c) - 1
      /\ \A i \in 1 .. Len(c) - 1 : e[i] = c[i + 1]
      /\ Head(c) = c[1]
  BY HeadTailProperties, LenProperties, EmptySeq
<1>2. \A i \in DOMAIN c : c[i].id \in Nat
  <2>1. \A i \in DOMAIN c : c[i] \in Commands
    BY <1>1, ElementOfSeq
  <2>2. QED
    BY <2>1 DEF Commands
<1> HIDE DEF e
<1>3. /\ taken <= after /\ after < next /\ (Head(c).id = 0 \/ Head(c).id = after)
      /\ 1 \in DOMAIN c
  BY <1>1, <1>2 DEF Ordered
<1>4. ASSUME NEW i \in DOMAIN e
      PROVE  i \in Nat /\ i + 1 \in DOMAIN c /\ e[i] = c[i + 1] /\ 1 < i + 1
  BY <1>1
<1>5. ASSUME NEW i \in DOMAIN e
      PROVE  /\ e[i].op = "set" => after < e[i].id /\ e[i].id < next
             /\ e[i].op # "set" => e[i].id = 0
  <2>1. e[i] = c[i + 1] /\ i + 1 \in DOMAIN c /\ 1 < i + 1
    BY <1>4
  <2>2. e[i].op = "set" => taken < e[i].id /\ e[i].id < next
    BY <2>1 DEF Ordered
  <2>3. e[i].op = "set" /\ c[1].op = "set" => c[1].id < e[i].id
    BY <1>3, <2>1 DEF Ordered
  <2>4. e[i].op # "set" => e[i].id = 0
    BY <2>1 DEF Ordered
  <2>5. QED
    BY <1>1, <2>2, <2>3, <2>4
<1>6. ASSUME NEW i \in DOMAIN e, NEW j \in DOMAIN e, i < j, e[i].op = "set", e[j].op = "set"
      PROVE  e[i].id < e[j].id
  <2>1. e[i] = c[i + 1] /\ i + 1 \in DOMAIN c /\ e[j] = c[j + 1] /\ j + 1 \in DOMAIN c /\ i + 1 < j + 1
    BY <1>4, <1>6
  <2>2. QED
    BY <1>6, <2>1 DEF Ordered
<1>7. QED
  BY <1>3, <1>5, <1>6 DEF Ordered, e

\* The phone answers.
LEMMA DatedAnswers ==
    ASSUME NEW q \in Seq(Reports), NEW taken \in Nat, Dated(q, taken), NEW after \in Nat, taken <= after,
           NEW id \in Nat, id = 0 \/ id = after, NEW a \in Answers(id, after)
    PROVE  /\ q \o a \in Seq(Reports) /\ Dated(q \o a, after)
           /\ \A n \in Nat : Since(q, n) /\ n <= after => Since(q \o a, n)
<1> DEFINE e == q \o a
           n == Len(q)
<1>1. a \in Seq(Reports) /\ \A i \in DOMAIN a : a[i].after = after /\ a[i].id \in {0, QueryReply, id}
  BY DEF Answers
<1>2. /\ n \in Nat /\ Len(a) \in Nat /\ DOMAIN q = 1 .. n /\ DOMAIN a = 1 .. Len(a)
      /\ e \in Seq(Reports) /\ DOMAIN e = 1 .. n + Len(a)
      /\ \A i \in 1 .. n + Len(a) : e[i] = IF i <= n THEN q[i] ELSE a[i - n]
  BY <1>1, ConcatProperties, LenProperties
<1>3. \A i \in DOMAIN q : q[i].after \in Nat
  <2>1. \A i \in DOMAIN q : q[i] \in Reports
    BY <1>2, ElementOfSeq
  <2>2. QED
    BY <2>1 DEF Reports
<1> HIDE DEF e, n
<1>4. ASSUME NEW i \in DOMAIN e
      PROVE  /\ i \in Nat
             /\ \/ i \in DOMAIN q /\ i <= n /\ e[i] = q[i]
                \/ n < i /\ e[i].after = after /\ e[i].id \in {0, QueryReply, id}
  <2>1. CASE i <= n
    BY <1>2, <2>1
  <2>2. CASE ~(i <= n)
    <3>1. i - n \in DOMAIN a /\ e[i] = a[i - n] /\ i \in Nat /\ n < i
      BY <1>2, <2>2
    <3>2. QED
      BY <1>1, <3>1
  <2>3. QED
    BY <2>1, <2>2
<1>5. ASSUME NEW i \in DOMAIN e
      PROVE  /\ e[i].after <= after
             /\ e[i].id > 0 => e[i].after = e[i].id
  <2>1. CASE i \in DOMAIN q /\ e[i] = q[i]
    BY <1>3, <2>1 DEF Dated
  <2>2. CASE e[i].after = after /\ e[i].id \in {0, QueryReply, id}
    BY <2>2 DEF QueryReply
  <2>3. QED
    BY <1>4, <2>1, <2>2
<1>6. ASSUME NEW i \in DOMAIN e, NEW j \in DOMAIN e, i <= j PROVE e[i].after <= e[j].after
  <2>1. CASE n < j
    <3>1. e[j].after = after
      BY <1>2, <1>4, <2>1
    <3>2. QED
      BY <1>5, <3>1
  <2>2. CASE ~(n < j)
    <3>1. i \in DOMAIN q /\ e[i] = q[i] /\ j \in DOMAIN q /\ e[j] = q[j]
      BY <1>2, <1>4, <1>6, <2>2
    <3>2. QED
      BY <1>6, <3>1 DEF Dated
  <2>3. QED
    BY <2>1, <2>2
<1>7. ASSUME NEW m \in Nat, Since(q, m), m <= after PROVE Since(e, m)
  BY <1>4, <1>7 DEF Since
<1>8. QED
  BY <1>2, <1>5, <1>6, <1>7 DEF Dated, e

\* The registry takes a report.
LEMMA DatedTail ==
    ASSUME NEW q \in Seq(Reports), NEW taken \in Nat, Dated(q, taken), q # <<>>
    PROVE  /\ Dated(Tail(q), taken) /\ Since(Tail(q), Head(q).after) /\ Head(q).after <= taken
           /\ Head(q).id > 0 => Head(q).after = Head(q).id
           /\ \A n \in Nat : Since(q, n) => Since(Tail(q), n) /\ Head(q).after >= n
<1> DEFINE e == Tail(q)
<1>1. /\ Len(q) \in Nat \ {0} /\ DOMAIN q = 1 .. Len(q) /\ DOMAIN e = 1 .. Len(q) - 1
      /\ \A i \in 1 .. Len(q) - 1 : e[i] = q[i + 1]
      /\ Head(q) = q[1]
  BY HeadTailProperties, LenProperties, EmptySeq
<1>2. \A i \in DOMAIN q : q[i].after \in Nat
  <2>1. \A i \in DOMAIN q : q[i] \in Reports
    BY <1>1, ElementOfSeq
  <2>2. QED
    BY <2>1 DEF Reports
<1> HIDE DEF e
<1>3. 1 \in DOMAIN q /\ \A i \in DOMAIN e : i \in Nat /\ i + 1 \in DOMAIN q /\ e[i] = q[i + 1] /\ 1 <= i + 1
  BY <1>1
<1>4. Since(e, Head(q).after)
  <2> SUFFICES ASSUME NEW i \in DOMAIN e PROVE e[i].after >= q[1].after
    BY <1>1 DEF Since
  <2>1. q[1].after <= q[i + 1].after
    BY <1>3 DEF Dated
  <2>2. QED
    BY <1>2, <1>3, <2>1
<1>5. Dated(e, taken)
  <2> SUFFICES ASSUME NEW i \in DOMAIN e
               PROVE  /\ e[i].after <= taken /\ (e[i].id > 0 => e[i].after = e[i].id)
                      /\ \A j \in DOMAIN e : i <= j => e[i].after <= e[j].after
    BY DEF Dated
  <2>1. e[i] = q[i + 1] /\ i + 1 \in DOMAIN q /\ i \in Nat
    BY <1>3
  <2>2. \A j \in DOMAIN e : i <= j => e[j] = q[j + 1] /\ j + 1 \in DOMAIN q /\ i + 1 <= j + 1
    BY <1>3, <2>1
  <2>3. QED
    BY <2>1, <2>2 DEF Dated
<1>6. Head(q).after <= taken /\ (Head(q).id > 0 => Head(q).after = Head(q).id)
  BY <1>1, <1>3 DEF Dated
<1>7. ASSUME NEW n \in Nat, Since(q, n) PROVE Since(e, n) /\ Head(q).after >= n
  BY <1>1, <1>3, <1>7 DEF Since
<1>8. QED
  BY <1>4, <1>5, <1>6, <1>7 DEF e
\* Request ids.
Numbered(r) ==
    commanded[r] < next_request[r] /\ done[r] < next_request[r] /\ fence[r] <= next_request[r]

\* What is on its way is in order.
InTransit(r) == Ordered(controls[r], done[r], next_request[r]) /\ Dated(reports[r], done[r])

\* The barrier stands for the latest panel command.
Barred(r) == panel_barrier[r] # None => panel_barrier[r] = commanded[r] /\ commanded[r] > 0

\* Nothing is on its way to or from a session that is not registered.
Away(r) == session[r] # "live" => controls[r] = <<>> /\ reports[r] = <<>> /\ unsolicited[r] = None

\* Without a barrier, every report on its way was made after that command.
Caught(r) ==
    (session[r] # "gone" /\ panel_barrier[r] = None)
        => done[r] >= commanded[r] /\ Since(reports[r], commanded[r])

\* A change taken over, too.
Newer(r) == unsolicited[r] # None => unsolicited[r].after >= commanded[r]

InOrder(r) ==
    Numbered(r) /\ InTransit(r) /\ Barred(r) /\ Away(r) /\ Caught(r) /\ Newer(r)

\* A phone is connected on a session of its own that is registered.
LinkedLive ==
    \A d \in Devices : link[d] # None => session[link[d]] = "live" /\ DeviceOf[link[d]] = d

OrderInv == LinkedLive /\ \A r \in Receivers : InOrder(r)

\* The types at one receiver.
LEMMA AtReceiver ==
    ASSUME Typed, NEW r \in Receivers
    PROVE  /\ commanded[r] \in Nat /\ next_request[r] \in Nat \ {0} /\ done[r] \in Nat /\ fence[r] \in Nat
           /\ panel_barrier[r] \in Nat \cup {None} /\ unsolicited[r] \in Events \cup {None}
           /\ controls[r] \in Seq(Commands) /\ reports[r] \in Seq(Reports)
           /\ session[r] \in {"new", "live", "gone"}
BY DEF Typed, WorkTyped, RegistryTyped, PhonesTyped, QueuesTyped

\* A receiver the step leaves alone.
LEMMA SameOrder ==
    ASSUME NEW r \in Receivers, InOrder(r),
           session'[r] = session[r], controls'[r] = controls[r], reports'[r] = reports[r],
           done'[r] = done[r], next_request'[r] = next_request[r], commanded'[r] = commanded[r],
           fence'[r] <= next_request[r], panel_barrier'[r] = panel_barrier[r],
           unsolicited'[r] \in {unsolicited[r], None}
    PROVE  InOrder(r)'
<1>1. Numbered(r)' /\ InTransit(r)' /\ Barred(r)' /\ Caught(r)'
  BY DEF InOrder, Numbered, InTransit, Barred, Caught
<1>2. Away(r)' /\ Newer(r)'
  BY DEF InOrder, Away, Newer
<1>3. QED
  BY <1>1, <1>2 DEF InOrder

\* A message without a request id to everybody.
LEMMA BroadcastOrdered ==
    ASSUME Typed, NEW queues \in [Receivers -> Seq(Commands)], NEW r \in Receivers,
           Ordered(queues[r], done[r], next_request[r]), session[r] # "live" => queues[r] = <<>>,
           NEW m \in Commands, m.op # "set", m.id = 0
    PROVE  /\ Ordered(Broadcast(queues, m)[r], done[r], next_request[r])
           /\ session[r] # "live" => Broadcast(queues, m)[r] = <<>>
<1>1. queues[r] \in Seq(Commands) /\ done[r] \in Nat /\ next_request[r] \in Nat
  BY AtReceiver
<1>2. Ordered(Append(queues[r], m), done[r], next_request[r])
  BY <1>1, OrderedPlain
<1>3. Broadcast(queues, m)[r] = IF session[r] = "live" /\ Len(queues[r]) < ControlCap
                                THEN Append(queues[r], m) ELSE queues[r]
  BY DEF Broadcast
<1>4. QED
  BY <1>2, <1>3

\* Two of them.
LEMMA TwoOrdered ==
    ASSUME Typed, OrderInv, NEW r \in Receivers, NEW m \in Commands, m.op # "set", m.id = 0,
           NEW n \in Commands, n.op # "set", n.id = 0
    PROVE  /\ Ordered(Broadcast(Broadcast(controls, m), n)[r], done[r], next_request[r])
           /\ session[r] # "live" => Broadcast(Broadcast(controls, m), n)[r] = <<>>
<1>1. controls \in [Receivers -> Seq(Commands)]
  BY DEF Typed, QueuesTyped
<1>2. Ordered(controls[r], done[r], next_request[r]) /\ (session[r] # "live" => controls[r] = <<>>)
  BY DEF OrderInv, InOrder, InTransit, Away
<1> DEFINE q == Broadcast(controls, m)
<1>3. q \in [Receivers -> Seq(Commands)]
  BY <1>1, BroadcastTyped
<1>4. Ordered(q[r], done[r], next_request[r]) /\ (session[r] # "live" => q[r] = <<>>)
  BY <1>1, <1>2, BroadcastOrdered
<1> HIDE DEF q
<1>5. QED
  BY <1>3, <1>4, BroadcastOrdered DEF q

\* Volume commands are sent in the order of their ids.
LEMMA SendingOrdered ==
    ASSUME Typed, OrderInv, NEW queues \in [Receivers -> Seq(Commands)], NEW sent, NEW level,
           Sending(sent, level, queues), NEW r \in Receivers,
           Ordered(queues[r], done[r], next_request[r]), session[r] # "live" => queues[r] = <<>>
    PROVE  /\ Ordered(controls'[r], done[r], next_request'[r])
           /\ session[r] # "live" => controls'[r] = <<>> /\ r \notin sent
           /\ next_request'[r] = IF r \in sent THEN next_request[r] + 1 ELSE next_request[r]
<1>1. queues[r] \in Seq(Commands) /\ done[r] \in Nat /\ next_request[r] \in Nat /\ done[r] < next_request[r]
  BY AtReceiver DEF OrderInv, InOrder, Numbered
<1>2. /\ controls'[r] = IF r \in sent THEN Append(queues[r], SetVolume(next_request[r], level[r]))
                        ELSE queues[r]
      /\ next_request'[r] = IF r \in sent THEN next_request[r] + 1 ELSE next_request[r]
      /\ r \in sent => session[r] = "live" /\ level[r] \in Levels
  BY DEF Sending, VolumeRequests, Live
<1>3. CASE r \notin sent
  BY <1>2, <1>3
<1>4. CASE r \in sent
  <2> DEFINE m == SetVolume(next_request[r], level[r])
  <2>1. m \in Commands /\ m.op = "set" /\ m.id = next_request[r]
    BY <1>1, <1>2, <1>4 DEF SetVolume, Commands
  <2> HIDE DEF m
  <2>2. Ordered(Append(queues[r], m), done[r], next_request[r] + 1)
    BY <1>1, <2>1, OrderedSet
  <2>3. QED
    BY <1>2, <1>4, <2>2 DEF m
<1>5. QED
  BY <1>3, <1>4

\* Commands that raise no barrier.
LEMMA PlainSending ==
    ASSUME Typed, OrderInv, NEW queues \in [Receivers -> Seq(Commands)], NEW sent, NEW level,
           Sending(sent, level, queues), NEW r \in Receivers,
           Ordered(queues[r], done[r], next_request[r]), session[r] # "live" => queues[r] = <<>>,
           UNCHANGED <<session, reports, done, commanded, panel_barrier>>,
           unsolicited'[r] \in {unsolicited[r], None}, fence'[r] \in {fence[r], 0}
    PROVE  InOrder(r)'
<1>1. /\ Ordered(controls'[r], done[r], next_request'[r])
      /\ session[r] # "live" => controls'[r] = <<>>
      /\ next_request'[r] = IF r \in sent THEN next_request[r] + 1 ELSE next_request[r]
  BY SendingOrdered
<1>2. InOrder(r)
  BY DEF OrderInv
<1>3. commanded[r] \in Nat /\ next_request[r] \in Nat /\ done[r] \in Nat /\ fence[r] \in Nat
  BY AtReceiver
<1>4. Numbered(r)'
  BY <1>1, <1>2, <1>3 DEF InOrder, Numbered
<1>5. InTransit(r)' /\ Barred(r)' /\ Caught(r)'
  BY <1>1, <1>2 DEF InOrder, InTransit, Barred, Caught
<1>6. Away(r)' /\ Newer(r)'
  BY <1>1, <1>2 DEF InOrder, Away, Newer
<1>7. QED
  BY <1>4, <1>5, <1>6 DEF InOrder

\* Commands that raise one: events of before are not to be believed.
LEMMA BarrierSending ==
    ASSUME Typed, OrderInv, NEW sent, NEW level, Sending(sent, level, controls), RaiseBarrier(sent),
           NEW r \in Receivers, UNCHANGED <<session, reports, done>>,
           commanded'[r] = IF r \in sent THEN next_request[r] ELSE commanded[r],
           fence'[r] \in {fence[r], 0}
    PROVE  InOrder(r)'
<1>1. InOrder(r) /\ controls \in [Receivers -> Seq(Commands)]
  BY DEF OrderInv, Typed, QueuesTyped
<1>2. /\ Ordered(controls'[r], done[r], next_request'[r])
      /\ session[r] # "live" => controls'[r] = <<>> /\ r \notin sent
      /\ next_request'[r] = IF r \in sent THEN next_request[r] + 1 ELSE next_request[r]
  BY <1>1, SendingOrdered DEF InOrder, InTransit, Away
<1>3. commanded[r] \in Nat /\ next_request[r] \in Nat \ {0} /\ done[r] \in Nat /\ fence[r] \in Nat
  BY AtReceiver
<1>4. /\ panel_barrier'[r] = IF r \in sent THEN next_request[r] ELSE panel_barrier[r]
      /\ unsolicited'[r] = IF r \in sent THEN None ELSE unsolicited[r]
  BY DEF RaiseBarrier
<1>5. Numbered(r)'
  BY <1>1, <1>2, <1>3 DEF InOrder, Numbered
<1>6. InTransit(r)' /\ Barred(r)'
  BY <1>1, <1>2, <1>3, <1>4 DEF InOrder, InTransit, Barred
<1>7. Away(r)' /\ Newer(r)'
  BY <1>1, <1>2, <1>4 DEF InOrder, Away, Newer
<1>8. Caught(r)'
  BY <1>1, <1>3, <1>4, NoneAssumption DEF InOrder, Caught
<1>9. QED
  BY <1>5, <1>6, <1>7, <1>8 DEF InOrder
\* A session begins or ends.
LEMMA SessionsOrdered ==
    ASSUME Typed, OrderInv, NEW s \in Receivers, Connect(s) \/ Disconnect(s), UNCHANGED <<commanded, fence>>
    PROVE  OrderInv'
<1>1. LinkedLive /\ \A r \in Receivers : InOrder(r)
  BY DEF OrderInv
<1>2. /\ session \in [Receivers -> {"new", "live", "gone"}]
      /\ link \in [Devices -> Receivers \cup {None}] /\ DeviceOf[s] \in Devices
  BY ReceiverAssumption DEF Typed, RegistryTyped, PhonesTyped
<1>3. CASE Connect(s)
  <2>1. session[s] = "new" /\ session' = [session EXCEPT ![s] = "live"] /\ link' = [link EXCEPT ![DeviceOf[s]] = s]
    BY <1>3 DEF Connect, Register
  <2>2. UNCHANGED <<unsolicited, panel_barrier, next_request, controls, reports, done, commanded, fence>>
    BY <1>3 DEF Connect, Register
  <2>3. LinkedLive'
    BY <1>1, <1>2, <2>1 DEF LinkedLive
  <2>4. ASSUME NEW r \in Receivers PROVE InOrder(r)'
    <3>1. session'[r] = IF r = s THEN "live" ELSE session[r]
      BY <1>2, <2>1
    <3>2. Numbered(r)' /\ InTransit(r)' /\ Barred(r)' /\ Newer(r)'
      BY <1>1, <2>2 DEF InOrder, Numbered, InTransit, Barred, Newer
    <3>3. Away(r)' /\ Caught(r)'
      BY <1>1, <2>1, <2>2, <3>1 DEF InOrder, Away, Caught
    <3>4. QED
      BY <3>2, <3>3 DEF InOrder
  <2>5. QED
    BY <2>3, <2>4 DEF OrderInv
<1>4. CASE Disconnect(s)
  <2>1. /\ session[s] = "live" /\ session' = [session EXCEPT ![s] = "gone"]
        /\ link' = [link EXCEPT ![DeviceOf[s]] = IF @ = s THEN None ELSE @]
        /\ unsolicited' = [unsolicited EXCEPT ![s] = None]
        /\ panel_barrier' = [panel_barrier EXCEPT ![s] = None]
        /\ controls' = [controls EXCEPT ![s] = <<>>] /\ reports' = [reports EXCEPT ![s] = <<>>]
        /\ UNCHANGED <<next_request, done, commanded, fence>>
    BY <1>4 DEF Disconnect, Deregister
  <2>2. LinkedLive'
    BY <1>1, <1>2, <2>1 DEF LinkedLive
  <2>3. ASSUME NEW r \in Receivers, r # s PROVE InOrder(r)'
    <3>1. /\ session'[r] = session[r] /\ unsolicited'[r] = unsolicited[r]
          /\ panel_barrier'[r] = panel_barrier[r] /\ controls'[r] = controls[r] /\ reports'[r] = reports[r]
      BY <2>1, <2>3 DEF Typed, RegistryTyped, QueuesTyped
    <3>2. fence'[r] <= next_request[r]
      BY <1>1, <2>1 DEF InOrder, Numbered
    <3>3. QED
      BY <1>1, <2>1, <3>1, <3>2, SameOrder
  <2>4. InOrder(s)'
    <3>1. /\ session'[s] = "gone" /\ unsolicited'[s] = None
          /\ panel_barrier'[s] = None /\ controls'[s] = <<>> /\ reports'[s] = <<>>
      BY <2>1 DEF Typed, RegistryTyped, QueuesTyped
    <3>2. Numbered(s)'
      BY <1>1, <2>1 DEF InOrder, Numbered
    <3>3. InTransit(s)'
      BY <3>1 DEF InTransit, Ordered, Dated
    <3>4. Barred(s)' /\ Away(s)' /\ Caught(s)' /\ Newer(s)'
      BY <3>1 DEF Barred, Away, Caught, Newer
    <3>5. QED
      BY <3>2, <3>3, <3>4 DEF InOrder
  <2>5. QED
    BY <2>2, <2>3, <2>4 DEF OrderInv
<1>5. QED
  BY <1>3, <1>4

\* A phone speaks on its session.
LEMMA SpeakingOrdered ==
    ASSUME Typed, OrderInv, NEW s \in Receivers, session[s] = "live", NEW after \in Nat,
           done[s] <= after, after < next_request[s], NEW id \in Nat, id = 0 \/ id = after,
           NEW a \in Answers(id, after), reports' = [reports EXCEPT ![s] = @ \o a],
           done' = [done EXCEPT ![s] = after], Ordered(controls'[s], after, next_request[s]),
           \A r \in Receivers : r # s => controls'[r] = controls[r],
           UNCHANGED <<registryVars, link, commanded, fence>>
    PROVE  OrderInv'
<1>1. LinkedLive /\ \A r \in Receivers : InOrder(r)
  BY DEF OrderInv
<1>2. LinkedLive'
  BY <1>1 DEF LinkedLive, registryVars
<1>3. UNCHANGED <<session, unsolicited, panel_barrier, next_request>>
  BY DEF registryVars
<1>4. /\ \A r \in Receivers : r # s => reports'[r] = reports[r] /\ done'[r] = done[r]
      /\ reports'[s] = reports[s] \o a /\ done'[s] = after
  BY DEF Typed, QueuesTyped, PhonesTyped
<1>5. ASSUME NEW r \in Receivers, r # s PROVE InOrder(r)'
  <2>1. fence'[r] <= next_request[r]
    BY <1>1 DEF InOrder, Numbered
  <2>2. QED
    BY <1>1, <1>3, <1>4, <1>5, <2>1, SameOrder
<1>6. InOrder(s)'
  <2>1. /\ commanded[s] \in Nat /\ next_request[s] \in Nat /\ done[s] \in Nat
        /\ reports[s] \in Seq(Reports)
    BY AtReceiver
  <2>2. Dated(reports[s], done[s])
    BY <1>1 DEF InOrder, InTransit
  <2>3. /\ Dated(reports'[s], after)
        /\ (Since(reports[s], commanded[s]) /\ commanded[s] <= after) => Since(reports'[s], commanded[s])
    <3> DEFINE e == reports[s] \o a
    <3>1. /\ Dated(e, after)
          /\ \A n \in Nat : (Since(reports[s], n) /\ n <= after) => Since(e, n)
      BY <2>1, <2>2, DatedAnswers
    <3>2. reports'[s] = e
      BY <1>4
    <3> HIDE DEF e
    <3>3. QED
      BY <2>1, <3>1, <3>2
  <2>4. Numbered(s)' /\ InTransit(s)'
    BY <1>1, <1>3, <1>4, <2>1, <2>3 DEF InOrder, Numbered, InTransit
  <2>5. Barred(s)' /\ Away(s)' /\ Newer(s)'
    BY <1>1, <1>3 DEF InOrder, Barred, Away, Newer
  <2>6. Caught(s)'
    BY <1>1, <1>3, <1>4, <2>1, <2>3 DEF InOrder, Caught
  <2>7. QED
    BY <2>4, <2>5, <2>6 DEF InOrder
<1>7. QED
  BY <1>2, <1>5, <1>6 DEF OrderInv

\* The registry takes a report: with the receipt of the panel command every
\* report older than it has passed.
LEMMA ReportOrdered ==
    ASSUME Typed, OrderInv, NEW s \in Receivers, UpdateDevice(s), UNCHANGED <<phoneVars, commanded, fence>>
    PROVE  OrderInv'
<1>1. LinkedLive /\ \A r \in Receivers : InOrder(r)
  BY DEF OrderInv
<1> DEFINE report == Head(reports[s])
           event == [volume |-> report.status.volume, after |-> report.after]
<1>2. /\ session[s] = "live" /\ reports[s] # <<>> /\ reports' = [reports EXCEPT ![s] = Tail(@)]
      /\ panel_barrier' = [panel_barrier EXCEPT ![s] = Lifted(@, report)]
      /\ UNCHANGED <<session, next_request, controls, link, done, commanded, fence>>
  BY DEF UpdateDevice, phoneVars
<1>3. \E e : /\ unsolicited' = [unsolicited EXCEPT ![s] = e]
             /\ e \in {unsolicited[s], None} \/ (e = event /\ panel_barrier[s] = None)
  BY DEF UpdateDevice, IsPhysicalChange
<1>4. /\ \A r \in Receivers : r # s => /\ reports'[r] = reports[r] /\ unsolicited'[r] = unsolicited[r]
                                       /\ panel_barrier'[r] = panel_barrier[r]
      /\ reports'[s] = Tail(reports[s]) /\ panel_barrier'[s] = Lifted(panel_barrier[s], report)
      /\ unsolicited'[s] \in {unsolicited[s], None} \/ (unsolicited'[s] = event /\ panel_barrier[s] = None)
  BY <1>2, <1>3 DEF Typed, QueuesTyped, RegistryTyped
<1>5. LinkedLive'
  BY <1>1, <1>2 DEF LinkedLive
<1>6. ASSUME NEW r \in Receivers, r # s PROVE InOrder(r)'
  <2>1. fence'[r] <= next_request[r]
    BY <1>1, <1>2 DEF InOrder, Numbered
  <2>2. QED
    BY <1>1, <1>2, <1>4, <1>6, <2>1, SameOrder
<1>7. InOrder(s)'
  <2>1. /\ commanded[s] \in Nat /\ done[s] \in Nat /\ reports[s] \in Seq(Reports)
        /\ panel_barrier[s] \in Nat \cup {None}
    BY AtReceiver
  <2>2. /\ Dated(Tail(reports[s]), done[s]) /\ Since(Tail(reports[s]), report.after)
        /\ report.after <= done[s] /\ (report.id > 0 => report.after = report.id)
        /\ Since(reports[s], commanded[s]) => Since(Tail(reports[s]), commanded[s]) /\ report.after >= commanded[s]
    BY <1>1, <1>2, <2>1, DatedTail DEF InOrder, InTransit
  <2>3. event.after = report.after
    OBVIOUS
  <2>4. report.after \in Nat
    <3>1. report \in Reports
      BY <1>2, <2>1, HeadTailProperties
    <3>2. QED
      BY <3>1 DEF Reports
  <2> HIDE DEF report, event
  <2>5. Numbered(s)' /\ InTransit(s)'
    BY <1>1, <1>2, <1>4, <2>2 DEF InOrder, Numbered, InTransit
  <2>6. Barred(s)' /\ Away(s)'
    BY <1>1, <1>2, <1>4 DEF InOrder, Barred, Away, Lifted
  <2>7. Caught(s)'
    <3>1. CASE panel_barrier[s] = None
      BY <1>1, <1>2, <1>4, <2>2, <3>1 DEF InOrder, Caught
    <3>2. CASE panel_barrier[s] # None /\ panel_barrier'[s] = None
      <4>1. report.id = commanded[s] /\ commanded[s] > 0
        BY <1>1, <1>4, <3>2 DEF InOrder, Barred, Lifted
      <4>2. report.after = commanded[s]
        BY <2>2, <4>1
      <4>3. QED
        BY <1>2, <1>4, <2>1, <2>2, <4>2 DEF Caught
    <3>3. QED
      BY <3>1, <3>2 DEF Caught
  <2>8. Newer(s)'
    BY <1>1, <1>2, <1>4, <2>2, <2>3 DEF InOrder, Newer, Caught
  <2>9. QED
    BY <2>5, <2>6, <2>7, <2>8 DEF InOrder
<1>8. QED
  BY <1>5, <1>6, <1>7 DEF OrderInv

\* The phones and their sessions.
LEMMA NetworkOrdered == ASSUME Typed, OrderInv, Network PROVE OrderInv'
<1>1. UNCHANGED <<commanded, fence>>
  BY DEF Network, controllerVars, historyVars
<1>2. LinkedLive /\ \A r \in Receivers : InOrder(r)
  BY DEF OrderInv
<1>3. ASSUME NEW s \in Receivers, QueryTick(s) PROVE OrderInv'
  <2>1. /\ session[s] = "live" /\ controls' = [controls EXCEPT ![s] = Append(@, QueryDevice)]
        /\ UNCHANGED <<session, unsolicited, panel_barrier, next_request, reports, done, link>>
    BY <1>3 DEF QueryTick, registryVars, phoneVars
  <2>2. /\ controls'[s] = Append(controls[s], QueryDevice)
        /\ \A r \in Receivers : r # s => controls'[r] = controls[r]
    BY <2>1 DEF Typed, QueuesTyped
  <2>3. LinkedLive'
    BY <1>2, <2>1 DEF LinkedLive
  <2>4. ASSUME NEW r \in Receivers, r # s PROVE InOrder(r)'
    <3>1. fence'[r] <= next_request[r]
      BY <1>1, <1>2 DEF InOrder, Numbered
    <3>2. QED
      BY <1>1, <1>2, <2>1, <2>2, <2>4, <3>1, SameOrder
  <2>5. InOrder(s)'
    <3>1. Ordered(controls'[s], done[s], next_request[s])
      BY <1>2, <2>2, AtReceiver, PlainCommands, OrderedPlain DEF InOrder, InTransit
    <3>2. Numbered(s)' /\ Barred(s)' /\ Newer(s)' /\ Caught(s)' /\ Away(s)'
      BY <1>1, <1>2, <2>1 DEF InOrder, Numbered, Barred, Newer, Caught, Away
    <3>3. InTransit(s)'
      BY <1>2, <2>1, <3>1 DEF InOrder, InTransit
    <3>4. QED
      BY <3>2, <3>3 DEF InOrder
  <2>6. QED
    BY <2>3, <2>4, <2>5 DEF OrderInv
<1>4. ASSUME NEW s \in Receivers, ApplyPending(s) PROVE OrderInv'
  <2> DEFINE command == Head(controls[s])
             after == IF command.op = "set" THEN command.id ELSE done[s]
  <2>1. /\ command \in Commands /\ after \in Nat /\ controls[s] # <<>>
        /\ link[DeviceOf[s]] = s
        /\ controls' = [controls EXCEPT ![s] = Tail(@)]
        /\ done' = [done EXCEPT ![s] = after]
        /\ \E q \in Answers(command.id, after) : reports' = [reports EXCEPT ![s] = @ \o q]
    BY <1>4, ApplyAnswers DEF Typed
  <2>2. UNCHANGED <<registryVars, link>>
    BY <1>4 DEF ApplyPending
  <2>3. controls[s] \in Seq(Commands) /\ done[s] \in Nat /\ next_request[s] \in Nat
    BY AtReceiver
  <2>4. Ordered(controls[s], done[s], next_request[s]) /\ done[s] < next_request[s]
    BY <1>2 DEF InOrder, InTransit, Numbered
  <2>5. /\ Ordered(Tail(controls[s]), after, next_request[s]) /\ done[s] <= after
        /\ after < next_request[s] /\ (command.id = 0 \/ command.id = after)
    BY <2>1, <2>3, <2>4, OrderedTail
  <2>6. /\ controls'[s] = Tail(controls[s])
        /\ \A r \in Receivers : r # s => controls'[r] = controls[r]
    BY <2>1 DEF Typed, QueuesTyped
  <2>7. session[s] = "live"
    <3>1. DeviceOf[s] \in Devices /\ link[DeviceOf[s]] # None
      BY <2>1, ReceiverAssumption
    <3>2. QED
      BY <1>2, <2>1, <3>1 DEF LinkedLive
  <2>8. command.id \in Nat
    BY <2>1 DEF Commands
  <2> HIDE DEF command, after
  <2>9. PICK q \in Answers(command.id, after) : reports' = [reports EXCEPT ![s] = @ \o q]
    BY <2>1
  <2>10. Ordered(controls'[s], after, next_request[s])
    BY <2>5, <2>6
  <2>11. QED
    BY <1>1, <2>1, <2>2, <2>5, <2>6, <2>7, <2>8, <2>9, <2>10, SpeakingOrdered
<1>5. ASSUME NEW d \in Devices, Watchdog(d) \/ RouteChanged(d) PROVE OrderInv'
  <2>1. UNCHANGED <<registryVars, controls, link, done>>
    BY <1>5 DEF Watchdog, RouteChanged
  <2>2. CASE reports' = reports
    <3>1. UNCHANGED <<session, unsolicited, panel_barrier, next_request>>
      BY <2>1 DEF registryVars
    <3>2. LinkedLive'
      BY <1>2, <2>1, <3>1 DEF LinkedLive
    <3>3. ASSUME NEW r \in Receivers PROVE InOrder(r)'
      <4>1. fence'[r] <= next_request[r]
        BY <1>1, <1>2 DEF InOrder, Numbered
      <4>2. QED
        BY <1>1, <1>2, <2>1, <2>2, <3>1, <4>1, SameOrder
    <3>4. QED
      BY <3>2, <3>3 DEF OrderInv
  <2>3. CASE reports' # reports
    <3> DEFINE s == link[d]
    <3>1. s \in Receivers /\ \E q \in Answers(0, done[s]) : reports' = [reports EXCEPT ![s] = @ \o q]
      BY <1>5, <2>3, AnnounceAnswers DEF Typed
    <3>2. session[s] = "live"
      BY <1>2, <3>1, ReceiverAssumption DEF LinkedLive
    <3> HIDE DEF s
    <3>3. /\ done[s] \in Nat /\ next_request[s] \in Nat /\ done[s] < next_request[s]
          /\ Ordered(controls'[s], done[s], next_request[s])
      BY <1>2, <2>1, <3>1, AtReceiver DEF InOrder, Numbered, InTransit
    <3>4. done' = [done EXCEPT ![s] = done[s]]
      BY <2>1, <3>1 DEF Typed, PhonesTyped
    <3>5. PICK q \in Answers(0, done[s]) : reports' = [reports EXCEPT ![s] = @ \o q]
      BY <3>1
    <3>6. 0 \in Nat /\ done[s] <= done[s] /\ \A r \in Receivers : r # s => controls'[r] = controls[r]
      BY <2>1, <3>3
    <3>7. QED
      BY <1>1, <2>1, <3>1, <3>2, <3>3, <3>4, <3>5, <3>6, SpeakingOrdered
  <2>4. QED
    BY <2>2, <2>3
<1>6. ASSUME NEW d \in Devices, NEW level \in Levels, VolumeKey(d, level) PROVE OrderInv'
  <2>1. UNCHANGED <<session, unsolicited, panel_barrier, next_request, controls, reports, link, done>>
    BY <1>6 DEF VolumeKey, registryVars, linkVars
  <2>2. LinkedLive'
    BY <1>2, <2>1 DEF LinkedLive
  <2>3. ASSUME NEW r \in Receivers PROVE InOrder(r)'
    <3>1. fence'[r] <= next_request[r]
      BY <1>1, <1>2 DEF InOrder, Numbered
    <3>2. QED
      BY <1>1, <1>2, <2>1, <3>1, SameOrder
  <2>4. QED
    BY <2>2, <2>3 DEF OrderInv
<1>7. QED
  BY <1>1, <1>3, <1>4, <1>5, <1>6, SessionsOrdered, ReportOrdered, Zenon DEF Network
\* A step that neither sends nor receives anything.
LEMMA QuietOrder ==
    ASSUME OrderInv, UNCHANGED <<session, controls, reports, done, next_request, commanded,
                                 panel_barrier, unsolicited, link>>,
           \A r \in Receivers : fence'[r] <= next_request[r]
    PROVE  OrderInv'
<1>1. LinkedLive /\ \A r \in Receivers : InOrder(r)
  BY DEF OrderInv
<1>2. LinkedLive'
  BY <1>1 DEF LinkedLive
<1>3. \A r \in Receivers : InOrder(r)'
  BY <1>1, SameOrder
<1>4. QED
  BY <1>2, <1>3 DEF OrderInv

\* When the server starts.
LEMMA InitOrdered == Init => OrderInv
<1> SUFFICES ASSUME Init PROVE OrderInv
  OBVIOUS
<1>1. LinkedLive
  BY DEF Init, PhoneInit, LinkedLive
<1>2. ASSUME NEW r \in Receivers PROVE InOrder(r)
  <2>1. /\ commanded[r] = 0 /\ next_request[r] = 1 /\ done[r] = 0 /\ fence[r] = 0
        /\ panel_barrier[r] = None /\ controls[r] = <<>> /\ reports[r] = <<>> /\ unsolicited[r] = None
    BY DEF Init, PhoneInit
  <2>2. InTransit(r)
    BY <2>1 DEF InTransit, Ordered, Dated
  <2>3. Caught(r)
    BY <2>1 DEF Caught, Since
  <2>4. QED
    BY <2>1, <2>2, <2>3 DEF InOrder, Numbered, Barred, Away, Newer
<1>3. QED
  BY <1>1, <1>2 DEF OrderInv

\* Every step.
LEMMA NextOrdered == ASSUME Typed, OrderInv, [Next]_vars PROVE OrderInv'
<1>1. LinkedLive /\ \A r \in Receivers : InOrder(r)
  BY DEF OrderInv
<1>2. \A r \in Receivers : /\ fence[r] <= next_request[r] /\ Ordered(controls[r], done[r], next_request[r])
                           /\ session[r] # "live" => controls[r] = <<>>
  BY <1>1 DEF InOrder, Numbered, InTransit, Away
<1>3. controls \in [Receivers -> Seq(Commands)] /\ next_request \in [Receivers -> Nat \ {0}]
  BY DEF Typed, QueuesTyped, RegistryTyped
<1>4. ASSUME UNCHANGED <<session, controls, reports, done, next_request, commanded, panel_barrier,
                         unsolicited, link, fence>>
      PROVE  OrderInv'
  BY <1>2, <1>4, QuietOrder
<1>5. CASE TickFence
  <2>1. PICK sent, level :
          /\ Sending(sent, level, controls) /\ RaiseBarrier(sent)
          /\ commanded' = [r \in Receivers |-> IF r \in sent THEN next_request[r] ELSE commanded[r]]
          /\ fence' = fence \/ fence' = FenceAt(sent)
    BY <1>5, FenceSends
  <2>2. UNCHANGED <<session, reports, done, link>>
    BY <1>5 DEF TickFence, phoneVars
  <2>3. ASSUME NEW r \in Receivers PROVE InOrder(r)'
    <3>1. fence'[r] \in {fence[r], 0} /\ commanded'[r] = IF r \in sent THEN next_request[r] ELSE commanded[r]
      BY <2>1 DEF FenceAt
    <3>2. QED
      BY <2>1, <2>2, <3>1, BarrierSending
  <2>4. LinkedLive'
    BY <1>1, <2>2 DEF LinkedLive
  <2>5. QED
    BY <2>3, <2>4 DEF OrderInv
<1>6. ASSUME NEW requested \in Levels, SetVolumePanel(requested) PROVE OrderInv'
  <2>1. PICK master, level :
          /\ master \in Live
          /\ Sending({master}, level, controls) /\ RaiseBarrier({master})
          /\ commanded' = [commanded EXCEPT ![master] = next_request[master]]
          /\ fence' = FenceAt({master})
    BY <1>6, PanelSends
  <2>2. UNCHANGED <<session, reports, done, link>>
    BY <1>6 DEF SetVolumePanel, phoneVars
  <2>3. ASSUME NEW r \in Receivers PROVE InOrder(r)'
    <3>1. fence'[r] \in {fence[r], 0}
      BY <2>1 DEF FenceAt
    <3>2. commanded'[r] = IF r \in {master} THEN next_request[r] ELSE commanded[r]
      BY <2>1 DEF Typed, WorkTyped
    <3>3. QED
      BY <2>1, <2>2, <3>1, <3>2, BarrierSending
  <2>4. LinkedLive'
    BY <1>1, <2>2 DEF LinkedLive
  <2>5. QED
    BY <2>3, <2>4 DEF OrderInv
<1>7. CASE TickTargets
  <2>1. PICK sent, level : Sending(sent, level, controls)
    BY <1>7, TargetsSends
  <2>2. UNCHANGED <<session, reports, done, link, commanded, panel_barrier, fence>>
    BY <1>7 DEF TickTargets, phoneVars, historyVars
  <2>3. unsolicited' = [unsolicited EXCEPT ![TickMaster] = None]
    BY <1>7 DEF TickTargets
  <2>4. ASSUME NEW r \in Receivers PROVE InOrder(r)'
    <3>1. unsolicited'[r] \in {unsolicited[r], None}
      BY <2>3 DEF Typed, RegistryTyped
    <3>2. QED
      BY <1>2, <1>3, <2>1, <2>2, <3>1, PlainSending
  <2>5. LinkedLive'
    BY <1>1, <2>2 DEF LinkedLive
  <2>6. QED
    BY <2>4, <2>5 DEF OrderInv
<1>8. CASE Close
  <2>1. PICK sent, queues, level :
          /\ queues = Broadcast(Broadcast(controls, ToneOff), CancelCalibration)
          /\ Sending(sent, level, queues)
    BY <1>8, CloseSends
  <2>2. queues \in [Receivers -> Seq(Commands)]
    BY <2>1, TwoBroadcasts DEF Typed
  <2>3. UNCHANGED <<session, reports, done, link, commanded, panel_barrier, unsolicited>> /\ fence' = [r \in Receivers |-> 0]
    BY <1>8 DEF Close, phoneVars
  <2>4. ASSUME NEW r \in Receivers PROVE InOrder(r)'
    <3>1. Ordered(queues[r], done[r], next_request[r]) /\ (session[r] # "live" => queues[r] = <<>>)
      BY <2>1, PlainCommands, TwoOrdered
    <3>2. unsolicited'[r] \in {unsolicited[r], None} /\ fence'[r] \in {fence[r], 0}
      BY <2>3
    <3>3. QED
      BY <2>1, <2>2, <2>3, <3>1, <3>2, PlainSending
  <2>5. LinkedLive'
    BY <1>1, <2>3 DEF LinkedLive
  <2>6. QED
    BY <2>4, <2>5 DEF OrderInv
<1>9. CASE StopWorker
  <2>1. /\ controls' = Broadcast(Broadcast(controls, CancelCalibration), ToneOff)
        /\ UNCHANGED <<session, reports, done, link, next_request, commanded, panel_barrier, unsolicited, fence>>
    BY <1>9 DEF StopWorker, phoneVars, historyVars
  <2>2. ASSUME NEW r \in Receivers PROVE InOrder(r)'
    <3>1. Ordered(controls'[r], done[r], next_request[r]) /\ (session[r] # "live" => controls'[r] = <<>>)
      BY <2>1, PlainCommands, TwoOrdered
    <3>2. InOrder(r)
      BY <1>1
    <3>3. Numbered(r)' /\ InTransit(r)' /\ Barred(r)'
      BY <2>1, <3>1, <3>2 DEF InOrder, Numbered, InTransit, Barred
    <3>4. Away(r)' /\ Caught(r)' /\ Newer(r)'
      BY <2>1, <3>1, <3>2 DEF InOrder, Away, Caught, Newer
    <3>5. QED
      BY <3>3, <3>4 DEF InOrder
  <2>3. LinkedLive'
    BY <1>1, <2>1 DEF LinkedLive
  <2>4. QED
    BY <2>2, <2>3 DEF OrderInv
<1>10. ASSUME NEW id \in DOMAIN library.profiles, Select(id) PROVE OrderInv'
  <2>1. \A r \in Receivers : fence'[r] \in {next_request[r], 0}
    BY <1>10 DEF Select
  <2>2. UNCHANGED <<session, controls, reports, done, next_request, commanded, panel_barrier, unsolicited, link>>
    BY <1>10 DEF Select, linkVars, phoneVars
  <2>3. \A r \in Receivers : fence'[r] <= next_request[r]
    BY <1>3, <2>1
  <2>4. QED
    BY <2>2, <2>3, QuietOrder
<1>11. ASSUME TickSnapshot \/ (\E late \in SUBSET Waiting : TickReplies(late)) \/ TickNoMaster \/ TickPublish
       PROVE  OrderInv'
  <2>1. UNCHANGED <<session, controls, reports, done, next_request, commanded, panel_barrier,
                    unsolicited, link, fence>>
    BY <1>11 DEF TickSnapshot, TickReplies, TickNoMaster, TickPublish, linkVars, phoneVars, historyVars
  <2>2. QED
    BY <1>4, <2>1
<1>12. ASSUME Open \/ (\E d \in Drafts \cup {None} : SetDraft(d)) \/ (\E copy \in BOOLEAN : SaveDraft(copy))
       PROVE  OrderInv'
  <2>1. UNCHANGED <<session, controls, reports, done, next_request, commanded, panel_barrier,
                    unsolicited, link, fence>>
    BY <1>12 DEF Open, SetDraft, SaveDraft, registryVars, linkVars, phoneVars, historyVars
  <2>2. QED
    BY <1>4, <2>1
<1>13. ASSUME NEW id \in DOMAIN library.profiles, SelectDraft(id) \/ Delete(id) PROVE OrderInv'
  <2>1. UNCHANGED <<session, controls, reports, done, next_request, commanded, panel_barrier,
                    unsolicited, link, fence>>
    BY <1>13 DEF SelectDraft, Delete, registryVars, linkVars, phoneVars, historyVars
  <2>2. QED
    BY <1>4, <2>1
<1>14. ASSUME Finish \/ UNCHANGED vars PROVE OrderInv'
  <2>1. UNCHANGED <<session, controls, reports, done, next_request, commanded, panel_barrier,
                    unsolicited, link, fence>>
    BY <1>14 DEF Finish, vars, controllerVars, registryVars, linkVars, phoneVars, historyVars
  <2>2. QED
    BY <1>4, <2>1
<1>15. ASSUME Tick PROVE OrderInv'
  BY <1>5, <1>7, <1>11, <1>15, Zenon DEF Tick
<1>16. ASSUME Operator PROVE OrderInv'
  BY <1>6, <1>8, <1>10, <1>12, <1>13, <1>16, Zenon DEF Operator
<1>17. QED
  BY <1>9, <1>14, <1>15, <1>16, NetworkOrdered DEF Next, Exited

\* Whatever is on its way between server and phones when the panel speaks, a
\* change kept as made at the phone was reported after the phone had taken
\* the latest panel command (panel_barrier in registry.rs): the receipt that
\* lifts the barrier is behind every report older than the command.
THEOREM EventsAreNewer == Spec => []EventNewerThanPanel
<1>1. Init => Typed /\ GateInv /\ OrderInv
  BY InitTyped, InitGates, InitOrdered
<1>2. Typed /\ GateInv /\ OrderInv /\ [Next]_vars => (Typed /\ GateInv /\ OrderInv)'
  BY NextTyped, NextGates, NextOrdered DEF GateInv
<1>3. OrderInv => EventNewerThanPanel
  BY DEF OrderInv, InOrder, Newer, EventNewerThanPanel
<1>4. QED
  BY <1>1, <1>2, <1>3, PTL DEF Spec

-----------------------------------------------------------------------------
(* A switch of profiles.                                                    *)

\* As long as the profile switched to has not commanded its master, the tick
\* owes it that command and nothing keeps the tick from sending it.
FenceOwed ==
    (\E r \in Receivers : fence[r] > commanded[r])
        => needs_fence /\ \A s \in Receivers : pending[s] = None

\* Commanding the master lifts the fence.
LEMMA FenceLifted ==
    ASSUME Typed, OrderInv, NEW sent, fence' = FenceAt(sent),
           \A r \in Receivers : r \in sent => commanded'[r] = next_request[r],
           \A r \in Receivers : r \notin sent => commanded'[r] = commanded[r]
    PROVE  FenceOwed'
<1>1. ASSUME NEW r \in Receivers PROVE ~(fence'[r] > commanded'[r])
  <2>1. fence'[r] = IF r \in sent THEN fence[r] ELSE 0
    BY DEF FenceAt
  <2>2. /\ fence[r] <= next_request[r] /\ fence[r] \in Nat /\ next_request[r] \in Nat
        /\ commanded[r] \in Nat
    BY AtReceiver DEF OrderInv, InOrder, Numbered
  <2>3. QED
    BY <2>1, <2>2
<1>2. QED
  BY <1>1 DEF FenceOwed

\* Every step.
LEMMA NextFenced == ASSUME Typed, OrderInv, FenceOwed, [Next]_vars PROVE FenceOwed'
<1>1. ASSUME UNCHANGED <<fence, commanded, needs_fence>>, \A s \in Receivers : pending[s] = None => pending'[s] = None
      PROVE  FenceOwed'
  BY <1>1 DEF FenceOwed
<1>2. CASE TickFence
  <2>1. PICK sent, level :
          /\ Sending(sent, level, controls)
          /\ pending' = [r \in Receivers |-> IF r \in sent THEN Pending(r, level[r]) ELSE pending[r]]
          /\ commanded' = [r \in Receivers |-> IF r \in sent THEN next_request[r] ELSE commanded[r]]
          /\ IF sent = {} THEN UNCHANGED <<fence, needs_fence, master_seen>>
             ELSE fence' = FenceAt(sent) /\ ~needs_fence' /\ master_seen' \in Receivers
    BY <1>2, FenceSends
  <2>2. CASE sent = {}
    <3>1. commanded' = commanded /\ fence' = fence /\ needs_fence' = needs_fence
      BY <2>1, <2>2 DEF Typed, WorkTyped
    <3>2. \A s \in Receivers : pending'[s] = pending[s]
      BY <2>1, <2>2
    <3>3. QED
      BY <1>1, <3>1, <3>2
  <2>3. CASE sent # {}
    BY <2>1, <2>3, FenceLifted
  <2>4. QED
    BY <2>2, <2>3
<1>3. ASSUME NEW requested \in Levels, SetVolumePanel(requested) PROVE FenceOwed'
  <2>1. PICK master :
          /\ master \in Live
          /\ commanded' = [commanded EXCEPT ![master] = next_request[master]]
          /\ fence' = FenceAt({master})
    BY <1>3, PanelSends
  <2>2. /\ \A r \in Receivers : r \in {master} => commanded'[r] = next_request[r]
        /\ \A r \in Receivers : r \notin {master} => commanded'[r] = commanded[r]
    BY <2>1 DEF Typed, WorkTyped
  <2>3. QED
    BY <2>1, <2>2, FenceLifted
<1>4. CASE TickTargets
  <2>1. UNCHANGED <<fence, commanded, needs_fence>> /\ MasterKnown /\ ~FenceDue
    BY <1>4 DEF TickTargets, historyVars
  <2>2. TickMaster \in Receivers
    BY <2>1, TheOne DEF MasterKnown, TickMaster, TickMasters, Holders, Typed, WorkTyped
  <2>3. ~\E r \in Receivers : fence[r] > commanded[r]
    BY <2>1, <2>2 DEF FenceDue, FenceOwed
  <2>4. QED
    BY <2>1, <2>3 DEF FenceOwed
<1>5. CASE Close
  <2>1. commanded' = commanded /\ fence' = [r \in Receivers |-> 0]
    BY <1>5 DEF Close
  <2>2. \A r \in Receivers : ~(fence'[r] > commanded'[r])
    BY <2>1, AtReceiver
  <2>3. QED
    BY <2>2 DEF FenceOwed
<1>6. ASSUME NEW id \in DOMAIN library.profiles, Select(id) PROVE FenceOwed'
  BY <1>6 DEF Select, FenceOwed
<1>7. ASSUME NEW late \in SUBSET Waiting, TickReplies(late) PROVE FenceOwed'
  <2>1. UNCHANGED <<fence, commanded, needs_fence>>
    BY <1>7 DEF TickReplies, historyVars
  <2>2. \A s \in Receivers : pending[s] = None => pending'[s] = None
    BY <1>7 DEF TickReplies
  <2>3. QED
    BY <1>1, <2>1, <2>2
<1>8. ASSUME TickSnapshot \/ TickNoMaster \/ TickPublish \/ StopWorker \/ Finish \/ Network \/ UNCHANGED vars
      PROVE  FenceOwed'
  <2>1. UNCHANGED <<fence, commanded, needs_fence, pending>>
    BY <1>8 DEF TickSnapshot, TickNoMaster, TickPublish, StopWorker, Finish, Network, vars, controllerVars,
                commandVars, historyVars
  <2>2. QED
    BY <1>1, <2>1
<1>9. ASSUME Open \/ (\E d \in Drafts \cup {None} : SetDraft(d)) \/ (\E copy \in BOOLEAN : SaveDraft(copy))
       PROVE  FenceOwed'
  <2>1. UNCHANGED <<fence, commanded, needs_fence, pending>>
    BY <1>9 DEF Open, SetDraft, SaveDraft, commandVars, historyVars
  <2>2. QED
    BY <1>1, <2>1
<1>10. ASSUME NEW id \in DOMAIN library.profiles, SelectDraft(id) \/ Delete(id) PROVE FenceOwed'
  <2>1. UNCHANGED <<fence, commanded, needs_fence, pending>>
    BY <1>10 DEF SelectDraft, Delete, commandVars, historyVars
  <2>2. QED
    BY <1>1, <2>1
<1>11. ASSUME Tick PROVE FenceOwed'
  BY <1>2, <1>4, <1>7, <1>8, <1>11, Zenon DEF Tick
<1>12. ASSUME Operator PROVE FenceOwed'
  BY <1>3, <1>5, <1>6, <1>9, <1>10, <1>12, Zenon DEF Operator
<1>13. QED
  BY <1>8, <1>11, <1>12 DEF Next, Exited

\* A tick that takes over a change has sent the command it owed before.
LEMMA TakenOverLate ==
    ASSUME Typed, OrderInv, FenceOwed, [Next]_vars, pc = "targets", library' # library,
           NEW r \in Receivers, unsolicited[r] # None, unsolicited'[r] = None
    PROVE  unsolicited[r].after >= fence[r]
<1>1. TickTargets
  <2>1. ~Operator
    BY DEF Operator, Open, Close, SetDraft, SaveDraft, Select, SelectDraft, Delete, SetVolumePanel,
           OperatorMay
  <2>2. ~Network /\ ~StopWorker /\ ~Finish /\ ~Exited /\ ~UNCHANGED vars
    BY DEF Network, StopWorker, Finish, Exited, vars, controllerVars, profileVars
  <2>3. ~TickSnapshot /\ ~TickNoMaster /\ ~TickFence /\ ~TickPublish
    BY DEF TickSnapshot, TickNoMaster, TickFence, TickPublish, profileVars
  <2>4. ~\E late \in SUBSET Waiting : TickReplies(late)
    BY DEF TickReplies
  <2>5. QED
    BY <2>1, <2>2, <2>3, <2>4 DEF Next, Tick
<1>2. MasterKnown /\ ~FenceDue
  BY <1>1 DEF TickTargets
<1>3. TickMaster \in Receivers
  BY <1>2, TheOne DEF MasterKnown, TickMaster, TickMasters, Holders, Typed, WorkTyped
<1>4. ~(fence[r] > commanded[r])
  BY <1>2, <1>3 DEF FenceDue, FenceOwed
<1>5. unsolicited[r].after >= commanded[r]
  BY DEF OrderInv, InOrder, Newer
<1>6. /\ fence[r] \in Nat /\ commanded[r] \in Nat /\ unsolicited[r].after \in Nat
  <2>1. unsolicited[r] \in Events /\ fence[r] \in Nat /\ commanded[r] \in Nat
    BY AtReceiver
  <2>2. QED
    BY <2>1 DEF Events
<1>7. QED
  BY <1>4, <1>5, <1>6

\* After a switch of profiles, a change made at the new master is taken over
\* only if the phone reported it after a command the new profile sent
\* (needs_fence in volume_control.rs): a tick that would take over an older
\* one still owes that command, sends it instead and forgets the event.
THEOREM SwitchIsFenced == Spec => AdoptionAfterSwitch
<1> DEFINE Inv == Typed /\ GateInv /\ OrderInv /\ FenceOwed
<1>1. Init => Inv
  <2>1. Init => FenceOwed
    BY DEF Init, FenceOwed
  <2>2. QED
    BY <2>1, InitTyped, InitGates, InitOrdered
<1>2. Inv /\ [Next]_vars => Inv'
  BY NextTyped, NextGates, NextOrdered, NextFenced DEF GateInv
<1>3. Inv /\ [Next]_vars =>
        [\A r \in Receivers :
           (pc = "targets" /\ unsolicited[r] # None /\ unsolicited'[r] = None /\ library' # library)
             => unsolicited[r].after >= fence[r]]_vars
  BY TakenOverLate
<1> HIDE DEF Inv
<1>4. QED
  BY <1>1, <1>2, <1>3, PTL DEF Spec, AdoptionAfterSwitch
=============================================================================
