------------------------- MODULE CalibrationPhone -------------------------
(***************************************************************************)
(* A phone while the calibration window is open: the calibration session   *)
(* of DeviceVolumeControl.kt (originalVolume, its deadline and watchdog),  *)
(* the commands that reach it and the statuses that come back to the       *)
(* registry.                                                               *)
(*                                                                         *)
(* Request ids are unique and a reply is looked up by its id, so all that  *)
(* counts of an id is whether somebody still waits for it: id 1 is the     *)
(* request being waited for, 0 any other. Nobody waits for two requests of *)
(* a phone at a time. The status queries of every second are not shown:    *)
(* they renew the deadline, which passes in Expire only, and refresh the   *)
(* status, which is Announce.                                              *)
(***************************************************************************)
EXTENDS Naturals, Sequences, FiniteSets

CONSTANTS
    Order,      \* the phones of the profile, the master first
    MaxLevel,   \* the loudest level of a phone, levels start at 0
    None,       \* no value
    ControlCap, \* bound: commands on their way to a phone
    MaxFaults   \* bound: connections lost, commands late or refused, timeouts, and
                \* volume keys pressed or outputs changed at a phone

ASSUME CalibrationAssumption ==
    /\ Order # <<>> /\ Order \in Seq({Order[i] : i \in DOMAIN Order})
    /\ \A i, j \in DOMAIN Order : Order[i] = Order[j] => i = j
    /\ {MaxLevel, ControlCap, MaxFaults} \subseteq Nat
    /\ None \notin Nat

Phones == {Order[i] : i \in DOMAIN Order}
Levels == 0 .. MaxLevel

VARIABLES
    phone,      \* per phone: volume, original (originalVolume), speaker
    link,       \* phones that are connected
    wire,       \* per phone: commands on their way
    reports,    \* per phone: statuses on their way back
    device,     \* per phone: the registry's latest status, None when it is gone
    reply,      \* per phone: the reply to the request waited for, or None
    touched,    \* history: phones whose volume key was pressed after a session ended
    faults      \* disturbances that may still happen

linkVars == <<phone, link, wire, reports, device, reply>>
phoneVars == <<linkVars, touched, faults>>

Statuses == [volume : Levels, speaker : BOOLEAN, failed : BOOLEAN, id : {0, 1}]
Commands == [op : {"query", "set", "begin", "cancel", "restore"},
             index : Levels, id : {0, 1}]

PhoneTypeOK ==
    /\ phone \in [Phones -> [volume : Levels, original : Levels \cup {None},
                             speaker : BOOLEAN]]
    /\ link \subseteq Phones
    /\ wire \in [Phones -> Seq(Commands)]
    /\ reports \in [Phones -> Seq(Statuses)]
    /\ device \in [Phones -> Statuses \cup {None}]
    /\ reply \in [Phones -> Statuses \cup {None}]
    /\ touched \subseteq Phones
    /\ faults \in 0 .. MaxFaults

Status(ph, failed, id) ==
    [volume |-> ph.volume, speaker |-> ph.speaker, failed |-> failed, id |-> id]

PhoneInit ==
    /\ phone = [p \in Phones |-> [volume |-> 0, original |-> None, speaker |-> TRUE]]
    /\ link = Phones
    /\ wire = [p \in Phones |-> <<>>]
    /\ reports = [p \in Phones |-> <<>>]
    /\ device = [p \in Phones |-> Status(phone[p], FALSE, 0)]
    /\ reply = [p \in Phones |-> None]
    /\ touched = {}
    /\ faults = MaxFaults

Fault == faults > 0 /\ faults' = faults - 1

---------------------------------------------------------------------------
(* DeviceVolumeControl                                                     *)

MutantCancelled(ph) ==
    IF ph.speaker THEN [ph EXCEPT !.volume = ph.original, !.original = None]
    ELSE [ph EXCEPT !.original = None]

\* cancelCalibration: the session ends; its volume comes back on the speaker.
Cancelled(ph) ==
    IF ph.speaker /\ ph.original # None
    THEN [ph EXCEPT !.volume = ph.original, !.original = None]
    ELSE [ph EXCEPT !.original = None]

CancelFails(ph) == ph.original # None /\ ~ph.speaker

\* applyPending: whether a command is refused ...
Refuses(ph, command) ==
    CASE command.op = "query"              -> FALSE
      [] command.op \in {"begin", "restore"} -> ~ph.speaker
      [] command.op = "set"                -> ~ph.speaker \/ ph.original = None
      [] command.op = "cancel"             -> CancelFails(ph)

\* ... and what it does otherwise. A session that is open keeps the volume it
\* began with.
Applied(ph, command) ==
    CASE command.op = "query"              -> ph
      [] command.op \in {"set", "restore"} -> [ph EXCEPT !.volume = command.index]
      [] command.op = "begin" ->
             IF ph.original = None THEN [ph EXCEPT !.original = ph.volume] ELSE ph
      [] command.op = "cancel" -> Cancelled(ph)

Say(p, status) == reports' = [reports EXCEPT ![p] = Append(@, status)]

\* A command that waited for two seconds does nothing, unless it is a cancel; a
\* volume that is set may stop short of a system limit.
Faulty(ph, command) ==
    LET sets == \/ command.op \in {"set", "restore"}
                \/ command.op = "cancel" /\ ph.original # None
    IN  {late \in {ph} : command.op # "cancel"}
          \cup {[Applied(ph, command) EXCEPT !.volume = actual] :
                   actual \in {a \in Levels : sets /\ a # Applied(ph, command).volume}}

\* One command of the queue.
ApplyPending(p) ==
    LET command == Head(wire[p])
        ph == phone[p]
        refused == Refuses(ph, command)
        becomes == IF refused /\ command.op # "cancel" THEN ph ELSE Applied(ph, command)
    IN  /\ wire[p] # <<>>
        /\ wire' = [wire EXCEPT ![p] = Tail(@)]
        /\ \/ /\ phone' = [phone EXCEPT ![p] = becomes]
              /\ Say(p, Status(becomes, refused, command.id))
              /\ UNCHANGED faults
           \/ /\ Fault /\ ~refused
              /\ \E actual \in Faulty(ph, command) :
                     /\ phone' = [phone EXCEPT ![p] = actual]
                     /\ Say(p, Status(actual, TRUE, command.id))
        /\ touched' = IF command.op = "cancel" /\ ph.original # None THEN touched \ {p} ELSE touched
        /\ UNCHANGED <<link, device, reply>>

\* The status the phone sent last.
LastSaid(p) ==
    IF reports[p] = <<>> THEN device[p] ELSE reports[p][Len(reports[p])]

\* The watchdog saw a new volume, or a query is answered.
Announce(p) ==
    /\ p \in link
    /\ LET now == Status(phone[p], FALSE, 0)
       IN  /\ [LastSaid(p) EXCEPT !.id = 0] # now
           /\ Say(p, now)
    /\ UNCHANGED <<phone, link, wire, device, reply, touched, faults>>

\* No query reached the phone for six seconds.
Expire(p) ==
    /\ Fault
    /\ p \in link /\ phone[p].original # None
    /\ phone' = [phone EXCEPT ![p] = Cancelled(@)]
    /\ Say(p, Status(Cancelled(phone[p]), CancelFails(phone[p]), 0))
    /\ UNCHANGED <<link, wire, device, reply, touched>>

\* Somebody presses a volume key.
VolumeKey(p, level) ==
    /\ Fault
    /\ phone[p].volume # level
    /\ phone' = [phone EXCEPT ![p].volume = level]
    /\ touched' = touched \cup {p}
    /\ UNCHANGED <<link, wire, reports, device, reply>>

\* routeChanged: headphones end the session and its volume is not restored.
RouteChanged(p) ==
    LET other == [phone[p] EXCEPT !.speaker = ~@]
        becomes == IF other.speaker THEN other ELSE Cancelled(other)
        failed == ~other.speaker /\ CancelFails(other)
    IN  /\ Fault
        /\ phone' = [phone EXCEPT ![p] = becomes]
        /\ IF p \in link THEN Say(p, Status(becomes, failed, 0)) ELSE UNCHANGED reports
        /\ UNCHANGED <<link, wire, device, reply, touched>>

---------------------------------------------------------------------------
(* The connection and the registry                                         *)

\* update_device
Deliver(p) ==
    /\ reports[p] # <<>>
    /\ reports' = [reports EXCEPT ![p] = Tail(@)]
    /\ device' = [device EXCEPT ![p] = [Head(reports[p]) EXCEPT !.id = 0]]
    /\ reply' = [reply EXCEPT ![p] = IF Head(reports[p]).id = 1 THEN Head(reports[p]) ELSE @]
    /\ UNCHANGED <<phone, link, wire, touched, faults>>

\* Receivers that are gone and what was on its way to and from them.
Without(gone) ==
    /\ link' = link \ gone
    /\ wire' = [p \in Phones |-> IF p \in gone THEN <<>> ELSE wire[p]]
    /\ reports' = [p \in Phones |-> IF p \in gone THEN <<>> ELSE reports[p]]
    /\ device' = [p \in Phones |-> IF p \in gone THEN None ELSE device[p]]
    /\ reply' = [p \in Phones |-> IF p \in gone THEN None ELSE reply[p]]

\* The connection is lost. A phone that reconnects does so as another receiver.
LoseLink(p) ==
    /\ Fault
    /\ p \in link
    /\ Without({p})
    /\ UNCHANGED <<phone, touched>>

MutantUnattended(p) == FALSE

\* Whether the phone is in a session without a connection.
Unattended(p) == p \notin link /\ phone[p].original # None

\* The watchdog, or the status update, sees that the connection is gone.
EndSession(p) ==
    /\ Unattended(p)
    /\ phone' = [phone EXCEPT ![p] = Cancelled(@)]
    /\ UNCHANGED <<link, wire, reports, device, reply, touched, faults>>

---------------------------------------------------------------------------
(* Requests of the server                                                  *)

HasRoom(p) == Len(wire[p]) < ControlCap

Command(op, index, id) == [op |-> op, index |-> index, id |-> id]

\* The messages, with nobody waiting for their replies.
Forgotten(q) == [i \in DOMAIN q |-> [q[i] EXCEPT !.id = 0]]

\* Nobody waits any longer for the requests of these phones.
Abandon(some) ==
    /\ wire' = [p \in Phones |-> IF p \in some THEN Forgotten(wire[p]) ELSE wire[p]]
    /\ reports' = [p \in Phones |-> IF p \in some THEN Forgotten(reports[p]) ELSE reports[p]]
    /\ reply' = [p \in Phones |-> IF p \in some THEN None ELSE reply[p]]
=============================================================================
