---------------------------- MODULE Calibration ----------------------------
(***************************************************************************)
(* The calibration window on the server: the panel on which the operator   *)
(* sets phones to levels by hand (Controller in ui/model.rs), the window   *)
(* (calibration_window.rs), and the measuring run, a thread of its own     *)
(* (application/calibration.rs).                                           *)
(*                                                                         *)
(* The panel's commands and its refresh run on the user interface's        *)
(* thread; phones, connections and the run interleave with them.           *)
(***************************************************************************)
EXTENDS CalibrationPhone

Master == Order[1]
Followers == Phones \ {Master}

\* The levels a phone is measured at.
Indices == 1 .. MaxLevel

CONSTANT MaxMoves   \* bound: commands of the operator, None for no bound

ASSUME MovesAssumption == MaxMoves \in Nat \cup {None}

\* What the panel waits for after a request.
Waits == [index : Levels, beginning : BOOLEAN]

ASSUME NoneAssumption == None \notin Waits

VARIABLES
    moves,      \* commands the operator may still give
    server,     \* "on", "leaving" after the exit, "left" after the goodbye, "gone"
    editing,    \* the window is open
    originals,  \* VolumeController.originals: level to restore, or None
    pending,    \* per phone: the level the operator chose last, or None
    waits,      \* per phone: the unanswered request of the panel, or None
    sessions,   \* phones the panel believes to be in a session
    cancel,     \* the run's token is cancelled
    result,     \* a profile waits to be taken over
    measured,   \* the draft is what a run measured
    run         \* the run: its step, the phones it began, what it found

panelVars == <<editing, originals, pending, waits, sessions, measured>>
vars == <<phoneVars, moves, server, panelVars, cancel, result, run>>
serverVars == <<moves, server, panelVars, cancel, result, run>>

Running == run.pc # "idle"

\* Steps of the run that ask the phone run.p something.
Asking == {"check", "begin", "set", "before", "after", "undo"}

NoRun == [pc |-> "idle", p |-> Master, index |-> 0, sent |-> FALSE, seen |-> 0,
          orig |-> [p \in Phones |-> None], begun |-> {}, undone |-> {},
          failed |-> {}, good |-> FALSE, points |-> {}, jobs |-> <<>>,
          left |-> None, heard |-> FALSE, mapped |-> FALSE]

TypeOK ==
    /\ PhoneTypeOK
    /\ moves \in IF MaxMoves = None THEN {None} ELSE 0 .. MaxMoves
    /\ server \in {"on", "leaving", "left", "gone"}
    /\ {editing, cancel, result, measured} \subseteq BOOLEAN
    /\ originals \in [Phones -> Levels \cup {None}]
    /\ pending \in [Phones -> Levels \cup {None}]
    /\ waits \in [Phones -> Waits \cup {None}]
    /\ sessions \subseteq Phones
    /\ run.pc \in Asking \cup {"idle", "listen", "sound", "choose", "finish"}
    /\ run.orig \in [Phones -> Levels \cup {None}]
    /\ run.failed \subseteq run.begun /\ run.undone \subseteq run.begun

Init ==
    /\ PhoneInit
    /\ moves = MaxMoves
    /\ server = "on" /\ editing = FALSE
    /\ originals = [p \in Phones |-> None]
    /\ pending = [p \in Phones |-> None]
    /\ waits = [p \in Phones |-> None]
    /\ sessions = {}
    /\ cancel = FALSE /\ result = FALSE /\ measured = FALSE
    /\ run = NoRun

Usable(p) == device[p] # None /\ device[p].speaker /\ ~device[p].failed

---------------------------------------------------------------------------
(* The panel                                                               *)

Settled == \A p \in Phones : pending[p] = None /\ waits[p] = None

\* A command of the operator, of whom nothing is heard after the exit.
Move ==
    /\ server = "on"
    /\ moves # 0
    /\ moves' = IF moves = None THEN None ELSE moves - 1

\* A result that was not taken over yet becomes the draft.
TakeResult ==
    /\ measured' = (measured \/ (result /\ editing))
    /\ result' = FALSE

\* OpenCalibration
Open ==
    /\ Move /\ ~Running /\ ~editing
    /\ editing' = TRUE
    /\ originals' = [p \in Phones |-> IF device[p] = None THEN None ELSE device[p].volume]
    /\ measured' = FALSE /\ result' = FALSE
    /\ UNCHANGED <<phoneVars, server, pending, waits, sessions, cancel, run>>

\* DeviceVolume in the window: the level is sent when the slider rests.
DeviceVolume(p, level) ==
    /\ Move /\ ~Running /\ editing
    /\ Usable(p)
    /\ pending[p] # level
    /\ pending' = [pending EXCEPT ![p] = level]
    /\ originals' = [originals EXCEPT ![p] = IF @ = None THEN device[p].volume ELSE @]
    /\ TakeResult
    /\ UNCHANGED <<phoneVars, server, editing, waits, sessions, cancel, run>>

\* The reply the panel waits for says that the level is set.
Confirms(p) ==
    /\ reply[p].volume = waits[p].index
    /\ ~reply[p].failed /\ reply[p].speaker

\* refresh: replies are looked at, those that are late are given up, and the
\* levels of the sliders at rest are sent, the first one behind a Begin.
Refresh(late, ready) ==
    LET waiting == {p \in Phones : waits[p] # None}
        answered == {p \in waiting : reply[p] # None}
        lost == {p \in answered : ~Confirms(p)} \cup (waiting \ link) \cup late
        over == answered \cup lost
        open == (sessions \cap link) \ {p \in lost : waits[p].beginning}
        beginning == ready \ open
    IN  /\ server = "on"
        /\ late \subseteq (waiting \cap link) \ answered
        /\ IF late = {} THEN UNCHANGED faults ELSE Fault
        /\ ready \subseteq {p \in Phones : pending[p] # None /\ HasRoom(p)}
        /\ ready = {} \/ ~Running
        /\ ready \cap lost = {} /\ ready \cap waiting \subseteq over
        /\ over # {} \/ ready # {} \/ result \/ sessions # open
        /\ TakeResult
        /\ sessions' = open \cup (ready \cap link)
        /\ waits' = [p \in Phones |->
                       IF p \in beginning \cap link
                       THEN [index |-> IF device[p] = None THEN pending[p] ELSE device[p].volume,
                             beginning |-> TRUE]
                       ELSE IF p \in ready \cap link
                       THEN [index |-> pending[p], beginning |-> FALSE]
                       ELSE IF p \in over THEN None ELSE waits[p]]
        /\ pending' = [p \in Phones |->
                         IF p \in lost \/ p \in ready \ (beginning \cap link)
                         THEN None ELSE pending[p]]
        /\ wire' = [p \in Phones |->
                      IF p \in ready \cap link
                      THEN Append(Forgotten(wire[p]),
                                  IF p \in beginning THEN Command("begin", 0, 1)
                                  ELSE Command("set", pending[p], 1))
                      ELSE IF p \in over THEN Forgotten(wire[p]) ELSE wire[p]]
        /\ reports' = [p \in Phones |->
                         IF p \in over \cup ready THEN Forgotten(reports[p]) ELSE reports[p]]
        /\ reply' = [p \in Phones |-> IF p \in over \cup ready THEN None ELSE reply[p]]
        /\ UNCHANGED <<phone, link, device, touched, moves, server, editing, originals,
                       cancel, run>>

\* Cancel, and closing the window while a run measures.
Cancel ==
    /\ Move /\ (Running \/ result)
    /\ ~cancel \/ result
    /\ cancel' = TRUE /\ result' = FALSE
    /\ UNCHANGED <<phoneVars, server, panelVars, run>>

CancelMessage == Command("cancel", 0, 0)

MutantFarewells(p) == <<>>

\* What a closing window sends to a phone.
Farewells(p) ==
    IF originals[p] = None THEN <<CancelMessage>>
    ELSE <<CancelMessage, Command("restore", originals[p], 0)>>

\* CloseCalibration. The broadcasts of close() drop a message for a receiver whose
\* queue is full; that is left out here, and a window is closed with room for its
\* farewells.
Close ==
    /\ Move /\ ~Running /\ editing
    /\ Settled
    /\ \A p \in link : Len(wire[p]) + 2 <= ControlCap
    /\ wire' = [p \in Phones |-> IF p \in link THEN wire[p] \o Farewells(p) ELSE wire[p]]
    /\ editing' = FALSE
    /\ originals' = [p \in Phones |-> None]
    /\ sessions' = {}
    /\ measured' = FALSE /\ result' = FALSE
    /\ UNCHANGED <<phone, link, reports, device, reply, touched, faults, server,
                   pending, waits, cancel, run>>

\* Calibrate: sessions of the panel are cancelled and a run starts.
Calibrate ==
    /\ Move /\ ~Running /\ editing /\ Settled
    /\ Usable(Master)
    /\ \A p \in link : HasRoom(p)
    /\ wire' = [p \in Phones |-> IF p \in link THEN Append(wire[p], CancelMessage) ELSE wire[p]]
    /\ sessions' = {}
    /\ cancel' = FALSE /\ result' = FALSE
    /\ measured' = (measured \/ result)
    /\ run' = [NoRun EXCEPT !.pc = "check"]
    /\ UNCHANGED <<phone, link, reports, device, reply, touched, faults, server,
                   editing, originals, pending, waits>>

\* Exit: the token of every thread is cancelled.
Exit ==
    /\ Move
    /\ server' = "leaving" /\ cancel' = TRUE
    /\ UNCHANGED <<phoneVars, panelVars, result, run>>

\* The volume worker says goodbye.
Goodbye ==
    /\ server = "leaving"
    /\ \A p \in link : HasRoom(p)
    /\ server' = "left"
    /\ wire' = [p \in Phones |-> IF p \in link THEN Append(wire[p], CancelMessage) ELSE wire[p]]
    /\ UNCHANGED <<phone, link, reports, device, reply, touched, faults, moves, panelVars,
                   cancel, result, run>>

\* The process ends, wherever its threads are.
Die ==
    /\ server = "left"
    /\ server' = "gone"
    /\ Without(Phones)
    /\ run' = NoRun
    /\ UNCHANGED <<phone, touched, faults, moves, panelVars, cancel, result>>

---------------------------------------------------------------------------
(* The measuring run                                                       *)

MutantConfirmed(status, index) == ~status.failed /\ status.speaker

\* commit_confirmed
Confirmed(status, index) == ~status.failed /\ status.speaker /\ status.volume = index

\* The phone after p, None after the last.
NextPhone(p) ==
    LET i == CHOOSE i \in DOMAIN Order : Order[i] = p
    IN  IF i = Len(Order) THEN None ELSE Order[i + 1]

\* restore: the next phone whose session is to be ended.
ToUndo(r) ==
    LET next == {i \in DOMAIN Order : Order[i] \in r.begun \ r.undone}
        kept == [NoRun EXCEPT !.orig = r.orig, !.begun = r.begun, !.undone = r.undone,
                              !.failed = r.failed, !.good = r.good]
    IN  IF next = {} THEN [kept EXCEPT !.pc = "finish"]
        ELSE [kept EXCEPT !.pc = "undo",
                          !.p = Order[CHOOSE i \in next : \A j \in next : i <= j]]

\* A step fails. Before the first Begin nothing is to be restored.
Failed(r) ==
    IF r.pc = "check" THEN [r EXCEPT !.pc = "finish", !.sent = FALSE]
    ELSE IF r.pc = "undo"
    THEN ToUndo([r EXCEPT !.undone = @ \cup {r.p}, !.failed = @ \cup {r.p}])
    ELSE ToUndo(r)

\* The next level to measure; when there is none the pairs are verified.
NextJob(r) ==
    IF r.jobs = <<>> THEN [r EXCEPT !.pc = "choose", !.sent = FALSE]
    ELSE [r EXCEPT !.pc = "set", !.sent = FALSE, !.heard = FALSE, !.seen = 0, !.p = Head(r.jobs)[1],
                   !.index = Head(r.jobs)[2], !.jobs = Tail(@)]

\* Every level of every phone, in order.
Curves ==
    [n \in 1 .. Len(Order) * MaxLevel |->
        <<Order[1 + (n - 1) \div MaxLevel], 1 + ((n - 1) % MaxLevel)>>]

Verifying(r) == r.left # None

\* A level was measured without a disturbance.
Recorded(r) ==
    IF ~Verifying(r)
    THEN NextJob(IF r.heard THEN [r EXCEPT !.points = @ \cup {<<r.p, r.index>>}] ELSE r)
    ELSE IF ~r.heard THEN Failed(r)
    ELSE NextJob(IF r.p = Master THEN r ELSE [r EXCEPT !.mapped = TRUE])

\* What the step's answer leads to.
Answered(r, status) ==
    CASE r.pc = "check" ->
           IF Confirmed(status, status.volume)
           THEN LET known == [r EXCEPT !.orig[r.p] = status.volume, !.sent = FALSE]
                IN  IF NextPhone(r.p) = None
                    THEN [known EXCEPT !.pc = "begin", !.p = Master]
                    ELSE [known EXCEPT !.p = NextPhone(r.p)]
           ELSE Failed(r)
      [] r.pc = "begin" ->
           IF ~Confirmed(status, r.orig[r.p]) THEN Failed(r)
           ELSE IF NextPhone(r.p) = None THEN [r EXCEPT !.pc = "listen", !.sent = FALSE]
           ELSE [r EXCEPT !.p = NextPhone(r.p), !.sent = FALSE]
      [] r.pc = "set" ->
           IF (Verifying(r) /\ ~status.failed) \/ Confirmed(status, r.index)
           THEN [r EXCEPT !.pc = "before", !.sent = FALSE] ELSE Failed(r)
      [] r.pc = "before" ->
           IF Confirmed(status, status.volume)
           THEN [r EXCEPT !.pc = "sound", !.seen = status.volume, !.sent = FALSE]
           ELSE Failed(r)
      [] r.pc = "after" ->
           IF Confirmed(status, r.seen) THEN Recorded(r) ELSE Failed(r)
      [] r.pc = "undo" ->
           IF Confirmed(status, r.orig[r.p])
           THEN ToUndo([r EXCEPT !.undone = @ \cup {r.p}]) ELSE Failed(r)

RunFrame ==
    UNCHANGED <<phone, link, device, touched, moves, server, panelVars, cancel, result>>

RunCommand ==
    CASE run.pc \in {"check", "before", "after"} -> Command("query", 0, 1)
      [] run.pc = "begin" -> Command("begin", 0, 1)
      [] run.pc = "set"   -> Command("set", run.index, 1)
      [] run.pc = "undo"  -> Command("cancel", 0, 1)

\* The step's request. A phone counts as begun once Begin is on its way.
Ask ==
    /\ run.pc \in Asking /\ ~run.sent /\ run.p \in link
    /\ HasRoom(run.p)
    /\ wire' = [wire EXCEPT ![run.p] = Append(@, RunCommand)]
    /\ run' = [run EXCEPT !.sent = TRUE,
                          !.begun = IF run.pc = "begin" THEN @ \cup {run.p} ELSE @]
    /\ UNCHANGED <<reports, reply, faults>> /\ RunFrame

\* Restoring goes on whatever was cancelled.
Stopped == cancel /\ run.pc # "undo"

\* await_reply finds the answer.
TakeReply ==
    /\ run.sent /\ ~Stopped /\ reply[run.p] # None
    /\ run' = Answered(run, reply[run.p])
    /\ reply' = [reply EXCEPT ![run.p] = None]
    /\ UNCHANGED <<wire, reports, faults>> /\ RunFrame

MutantCutOff == Stopped

\* The run is cancelled, or the phone has left.
CutOff == Stopped \/ run.p \notin link

\* The run stops waiting: it is cut off, or three seconds have passed. A phone
\* that does not confirm the end of the tone counts as not restored either.
GiveUp ==
    /\ run.pc \in Asking
    /\ \/ run.sent /\ CutOff /\ UNCHANGED faults
       \/ run.sent /\ (reply[run.p] = None \/ run.pc = "undo") /\ Fault
       \/ ~run.sent /\ run.p \notin link /\ UNCHANGED faults
    /\ run' = Failed(run)
    /\ Abandon({run.p})
    /\ RunFrame

\* The microphone is opened and hears the room, or does not.
Listen ==
    /\ run.pc = "listen"
    /\ \/ run' = Failed(run)
       \/ run' = NextJob([run EXCEPT !.jobs = Curves]) /\ ~cancel /\ Followers # {}
    /\ UNCHANGED <<wire, reports, reply, faults>> /\ RunFrame

\* The tone is switched on, measured and switched off; it is heard or not,
\* and any of it may fail.
Sound ==
    /\ run.pc = "sound"
    /\ \/ run' = Failed(run)
       \/ /\ ~cancel
          /\ \E heard \in BOOLEAN : run' = [run EXCEPT !.pc = "after", !.heard = heard]
    /\ UNCHANGED <<wire, reports, reply, faults>> /\ RunFrame

\* The curves are compared: the master's levels that a follower matches are
\* verified one after the other, and the profile is complete.
Choose ==
    /\ run.pc = "choose"
    /\ LET heard == IF run.left = None
                    THEN {fi \in Followers \X Indices : <<Master, fi[2]>> \in run.points}
                    ELSE run.left
       IN  IF heard = {}
           THEN run' = IF run.mapped THEN ToUndo([run EXCEPT !.good = TRUE]) ELSE Failed(run)
           ELSE \E fi \in heard :
                  LET rest == [run EXCEPT !.left = heard \ {fi}]
                  IN  \/ run' = rest
                      \/ \E j \in Indices :
                           /\ <<fi[1], j>> \in run.points
                           /\ run' = NextJob([rest EXCEPT
                                        !.jobs = <<<<Master, fi[2]>>, <<fi[1], j>>>>])
    /\ UNCHANGED <<wire, reports, reply, faults>> /\ RunFrame

MutantPublishes == run.good /\ run.failed = {}

\* A profile is published only if nobody cancelled and every phone is restored.
Publishes == run.good /\ run.failed = {} /\ ~cancel

\* The end of the thread, under the controller's lock.
Finish ==
    /\ run.pc = "finish"
    /\ result' = Publishes
    /\ run' = NoRun
    /\ UNCHANGED <<phoneVars, moves, server, panelVars, cancel>>

---------------------------------------------------------------------------
PhoneStep(p) == ApplyPending(p) \/ Announce(p) \/ Deliver(p) \/ EndSession(p)

RunStep == Ask \/ TakeReply \/ GiveUp \/ Listen \/ Sound \/ Choose \/ Finish

AtPhone(p) ==
    \/ PhoneStep(p) \/ Expire(p) \/ LoseLink(p) \/ RouteChanged(p)
    \/ \E level \in Levels : VolumeKey(p, level)

Next ==
    \/ \E p \in Phones : AtPhone(p) /\ UNCHANGED serverVars
    \/ \E p \in Phones, level \in Levels : DeviceVolume(p, level)
    \/ \E late, ready \in SUBSET Phones : Refresh(late, ready)
    \/ Open \/ Cancel \/ Close \/ Calibrate \/ Exit \/ Goodbye \/ Die
    \/ RunStep

Spec == Init /\ [][Next]_vars

\* Phones, connections and threads run, and a process that was told to leaves.
\* The operator owes nothing, and nor does the panel.
FairSpec ==
    /\ Spec
    /\ \A p \in Phones : WF_vars(PhoneStep(p) /\ UNCHANGED serverVars)
    /\ WF_vars(RunStep)
    /\ WF_vars(Goodbye \/ Die)

---------------------------------------------------------------------------
(* Properties                                                              *)

\* A run that ends has restored every phone it touched, or tells the operator
\* which ones to restore by hand: whatever was cancelled, lost, refused, late or
\* plugged in meanwhile, a phone that is not named stands at the volume it had
\* and has left its session (restore in calibration.rs).
RestoredOrTold ==
    run.pc = "finish" =>
        \A p \in run.begun \ run.failed :
            /\ phone[p].original = None
            /\ phone[p].volume = run.orig[p] \/ p \in touched

\* The result of a run that was cancelled is never offered, however late the
\* cancel came (cancel and the end of start in calibration.rs).
CancelledIsDropped == server = "on" /\ cancel /\ ~Running => ~result

\* A phone's session outlives neither the window nor the connection.
SessionEnds ==
    \A p \in Phones :
        (phone[p].original # None) ~> (phone[p].original = None \/ (editing /\ p \in link))

\* Every run ends: all it waits for is answered, cancelled or given up.
RunEnds == Running ~> ~Running

Setting(p) == waits[p] # None /\ ~waits[p].beginning

\* "Volumes can be adjusted freely in the calibration window" (the window's own
\* text): while a phone stays connected, on its speaker and undisturbed, the
\* levels the operator keeps asking for are set.
FreelyAdjusted ==
    \A p \in Phones :
        (<>[](editing /\ p \in link /\ phone[p].speaker) /\ []<>Setting(p))
            => []<>(Setting(p) /\ phone[p].volume = waits[p].index)
=============================================================================
