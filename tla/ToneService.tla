--------------------------- MODULE ToneService ---------------------------
(***************************************************************************)
(* What a phone promises the server about the test tone, whatever threads  *)
(* and buffers stand behind it: a request is answered in the terms it was  *)
(* made in, at most once. An answer "stopped" does not always mean         *)
(* silence: the tone may still be heard while a player that was told to    *)
(* stop is leaving. It does mean that no tone begins to be heard until the *)
(* server asks for something else, and the player leaves in silence.       *)
(***************************************************************************)
EXTENDS Naturals

CONSTANT Ids        \* request ids of the server; 0 is a request nobody waits for

VARIABLES
    wanted,         \* the request in force: its id, whether it asks for a
                    \* tone, whether its first answer is still open
    decided,        \* the answers decided for each id
    audible,        \* whether the tone is heard
    leaving         \* whether the player was told to stop and is not gone yet

vars == <<wanted, decided, audible, leaving>>

Answers == {"playing", "stopped", "failed"}

TypeOK ==
    /\ wanted \in [id : Ids \cup {0}, on : BOOLEAN, open : BOOLEAN]
    /\ decided \in [Ids -> SUBSET Answers]
    /\ audible \in BOOLEAN
    /\ leaving \in BOOLEAN

Init ==
    /\ wanted = [id |-> 0, on |-> FALSE, open |-> FALSE]
    /\ decided = [i \in Ids |-> {}]
    /\ audible = FALSE
    /\ leaving = FALSE

Decide(a) == decided' = [decided EXCEPT ![wanted.id] = @ \cup {a}]

\* The server makes a request. A start may be refused on the spot.
Ask(i, on) ==
    /\ i = 0 \/ decided[i] = {}
    /\ \/ /\ wanted' = [id |-> i, on |-> on, open |-> i # 0]
          /\ UNCHANGED decided
       \/ /\ i # 0 /\ on
          /\ wanted' = [id |-> i, on |-> on, open |-> FALSE]
          /\ decided' = [decided EXCEPT ![i] = {"failed"}]
    /\ UNCHANGED <<audible, leaving>>

SayPlaying ==
    /\ wanted.on /\ wanted.open
    /\ Decide("playing")
    /\ wanted' = [wanted EXCEPT !.open = FALSE]
    /\ UNCHANGED <<audible, leaving>>

\* Said in silence, or once the player was told to stop.
SayStopped ==
    /\ ~wanted.on /\ wanted.open
    /\ audible => leaving
    /\ Decide("stopped")
    /\ wanted' = [wanted EXCEPT !.open = FALSE]
    /\ UNCHANGED <<audible, leaving>>

\* A tone asked for is refused or cut short; the request is over.
GiveUp ==
    /\ wanted.on
    /\ IF wanted.id = 0 THEN UNCHANGED decided ELSE Decide("failed")
    /\ wanted' = [wanted EXCEPT !.on = FALSE, !.open = FALSE]
    /\ UNCHANGED <<audible, leaving>>

\* Samples under way begin to be heard, but not after the answer "stopped".
Sound ==
    /\ wanted.id \in Ids => "stopped" \notin decided[wanted.id]
    /\ audible' = TRUE
    /\ UNCHANGED <<wanted, decided, leaving>>

Hush ==
    /\ audible' = FALSE
    /\ UNCHANGED <<wanted, decided, leaving>>

\* The player is told to stop.
Dismiss ==
    /\ leaving' = TRUE
    /\ UNCHANGED <<wanted, decided, audible>>

\* The player has gone, and nothing is heard of it.
Leave ==
    /\ leaving /\ leaving' = FALSE
    /\ audible' = FALSE
    /\ UNCHANGED <<wanted, decided>>

\* The session ends, and with it the request and the answers not yet sent.
Forget ==
    /\ wanted' = [id |-> 0, on |-> FALSE, open |-> FALSE]
    /\ DOMAIN decided' = Ids
    /\ \A i \in Ids : decided'[i] \subseteq decided[i]
    /\ UNCHANGED <<audible, leaving>>

Next ==
    \/ \E i \in Ids \cup {0}, on \in BOOLEAN : Ask(i, on)
    \/ SayPlaying \/ SayStopped \/ GiveUp \/ Sound \/ Hush \/ Dismiss \/ Leave \/ Forget

Spec == Init /\ [][Next]_vars
=============================================================================
