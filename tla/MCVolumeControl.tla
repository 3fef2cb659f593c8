-------------------------- MODULE MCVolumeControl --------------------------
(* Instances of VolumeControl for TLC. *)
EXTENDS VolumeControl, TLC

CONSTANTS A, B        \* phones
CONSTANTS r1, r2      \* sessions

\* Follower B stands one level away from master A at both levels.
Crossed == [master |-> A,
            followers |-> [d \in {B} |-> [i \in 0 .. 1 |-> 1 - i]],
            volume |-> 0]

\* A alone, at a level.
Solo(level) == [master |-> A, followers |-> [d \in {} |-> None],
                volume |-> level]

OneProfile == [active |-> 1, profiles |-> [i \in {1} |-> Crossed]]
TwoProfiles == [active |-> 1, profiles |-> [i \in {1, 2} |-> Solo(i - 1)]]

\* A phone per session.
Paired == (r1 :> A) @@ (r2 :> B)

\* One phone whose second session replaces the first.
Reconnecting == (r1 :> A) @@ (r2 :> A)

\* One phone, one session.
Single == r1 :> A

StoredOne == {OneProfile}
StoredTwo == {TwoProfiles}
StoredOrUnreadable == {OneProfile, Unreadable}

NoDrafts == {}
SavedDrafts == {[id |-> 0, profile |-> [Crossed EXCEPT !.volume = 1]]}
=============================================================================
