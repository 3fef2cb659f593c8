--------------------------- MODULE VolumeProfiles ---------------------------
(***************************************************************************)
(* The calibration profiles of windows-server/src/volume_profiles.rs: pure *)
(* operators on profiles and on the library that holds them.               *)
(*                                                                         *)
(* A device range (id, minimum, maximum) is one value of Devices; all the  *)
(* ranges are Levels.  `speaker && !fixed', which the code always tests    *)
(* together, is the one field `usable'.  Names are left out.               *)
(***************************************************************************)
EXTENDS Integers, FiniteSets

CONSTANTS
    Devices,    \* the device ranges (ANDROID_ID with its volume range)
    NoRange,    \* the empty range of a status the phone could not read
    MaxLevel,   \* highest volume index of a device
    None        \* the absent value of an Option

ASSUME LevelAssumption == MaxLevel \in Nat
ASSUME NoRangeAssumption == NoRange \notin Devices

Levels == 0 .. MaxLevel

\* protocol::DeviceStatus without its request id and its name.
Statuses == [device : Devices \cup {NoRange}, volume : Levels,
             usable : BOOLEAN, failed : BOOLEAN]

\* A calibration table maps some master levels to follower levels.
Mappings == UNION {[S -> Levels] : S \in SUBSET Levels}

Profiles == [master : Devices,
             followers : UNION {[S -> Mappings] : S \in SUBSET Devices},
             volume : Levels]

ProfileIds == Nat \ {0}

\* A profile and a level of its.
Levelled == [id : ProfileIds, index : Levels]

ASSUME NoneAssumption ==
    None \notin Nat /\ None \notin Profiles /\ None \notin Levelled

Matches(range, status) ==
    /\ status # None
    /\ range = status.device
    /\ status.usable
    /\ ~status.failed

\* The receivers of a snapshot (a function from receiver to status or None)
\* whose device is `range'.
Holders(range, snapshot) ==
    {r \in DOMAIN snapshot : Matches(range, snapshot[r])}

Participating(profile, snapshot) ==
    {f \in DOMAIN profile.followers :
        /\ DOMAIN profile.followers[f] # {}
        /\ Cardinality(Holders(f, snapshot)) = 1}

Available(profile, participating) ==
    {i \in Levels : \A f \in participating : i \in DOMAIN profile.followers[f]}

AbsDiff(a, b) == IF a < b THEN b - a ELSE a - b

\* min_by_key keeps the first of equal keys, which is the lower level.
Closer(i, j, requested) ==
    \/ AbsDiff(i, requested) < AbsDiff(j, requested)
    \/ AbsDiff(i, requested) = AbsDiff(j, requested) /\ i <= j

Nearest(profile, requested, participating) ==
    LET levels == Available(profile, participating)
    IN  IF levels = {} THEN None
        ELSE CHOOSE i \in levels : \A j \in levels : Closer(i, j, requested)

Validate(profile) ==
    /\ profile.master \notin DOMAIN profile.followers
    /\ profile \in Profiles

\* Mutant: the follower's table is read one level too high.
MutantTargetLevel(profile, device, index) ==
    IF device = profile.master THEN index
    ELSE profile.followers[device][index] + 1

\* The level a profile asks of a device when its master stands at `index'.
TargetLevel(profile, device, index) ==
    IF device = profile.master THEN index ELSE profile.followers[device][index]

-----------------------------------------------------------------------------
(* A library is [active, profiles]: the active id or None, and a function   *)
(* from the ids in use to their profiles.                                   *)

EmptyLibrary == [active |-> None, profiles |-> [i \in {} |-> None]]

Current(library) ==
    IF library.active \in DOMAIN library.profiles
    THEN library.profiles[library.active] ELSE None

NextId(library) ==
    LET ids == DOMAIN library.profiles \cup {0}
    IN  1 + (CHOOSE i \in ids : \A j \in ids : j <= i)

\* Id 0 asks for a fresh id; the stored profile becomes the active one.
Put(library, id, profile) ==
    LET key == IF id = 0 THEN NextId(library) ELSE id
    IN  [active |-> key,
         profiles |-> [i \in DOMAIN library.profiles \cup {key} |->
                          IF i = key THEN profile ELSE library.profiles[i]]]

Remove(library, id) ==
    [active |-> IF library.active = id THEN None ELSE library.active,
     profiles |-> [i \in DOMAIN library.profiles \ {id} |-> library.profiles[i]]]

\* The library with one profile's volume replaced, if the id is in use.
WithVolume(library, id, index) ==
    [library EXCEPT !.profiles =
        [i \in DOMAIN library.profiles |->
            IF i = id THEN [library.profiles[i] EXCEPT !.volume = index]
                      ELSE library.profiles[i]]]

IsLibrary(library) ==
    /\ library = [active |-> library.active, profiles |-> library.profiles]
    /\ DOMAIN library.profiles \subseteq ProfileIds /\ IsFiniteSet(DOMAIN library.profiles)
    /\ library.profiles \in [DOMAIN library.profiles -> Profiles]
    /\ library.active \in DOMAIN library.profiles \cup {None}
=============================================================================
