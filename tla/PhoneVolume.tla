---------------------------- MODULE PhoneVolume ----------------------------
(***************************************************************************)
(* The phone's side of the volume protocol: DeviceVolumeControl.kt and the *)
(* command queue of the native client (device_control.rs), together with   *)
(* the control stream that joins them to the registry.                     *)
(*                                                                         *)
(* The server's outbound queue, the QUIC stream and the phone's command    *)
(* queue keep their order, so they are the one queue controls[r]; likewise *)
(* reports[r].  A calibration session (originalVolume) is not opened here, *)
(* so a cancel only reports.                                               *)
(***************************************************************************)
EXTENDS ReceiverRegistry

CONSTANTS
    ReportCap,    \* bound on statuses in flight per receiver
    MaxFaults,    \* bound on commands that go wrong and connections lost
    MaxUser,      \* bound on volume keys pressed and routes changed at phones
    MaxQueries    \* bound on the receivers with a query on its way

ASSUME PhoneBoundAssumption ==
    /\ ReportCap \in Nat
    /\ MaxFaults \in Nat
    /\ MaxUser \in Nat
    /\ MaxQueries \in Nat

VARIABLES
    phone,    \* per device: [volume, usable, reported]
    link,     \* per device: the session its native client is connected on
    done,     \* history, per receiver: last volume command taken by the phone
    faults,   \* faults that may still happen
    user      \* changes that may still be made at a phone

phoneVars == <<phone, link, done, faults, user>>

Phones == [volume : Levels, usable : BOOLEAN, reported : Levels \cup {None}]

PhoneInit ==
    /\ phone = [d \in Devices |->
                   [volume |-> 0, usable |-> TRUE, reported |-> None]]
    /\ link = [d \in Devices |-> None]
    /\ done = [r \in Receivers |-> 0]
    /\ faults = MaxFaults
    /\ user = MaxUser

StatusOf(d, volume, failed) ==
    [device |-> d, volume |-> volume, usable |-> phone[d].usable,
     failed |-> failed]

\* The status report() falls back to when AudioManager throws.
UnreadableStatus ==
    [device |-> NoRange, volume |-> 0, usable |-> FALSE, failed |-> TRUE]

Report(status, id, after) == [status |-> status, id |-> id, after |-> after]

\* The id a command's reply carries.
ReplyId(command) == IF command.op = "query" THEN QueryReply ELSE command.id

Room(r) == Len(reports[r]) + 2 <= ReportCap

-----------------------------------------------------------------------------
(* applyPending, one command at a time.  An outcome is the volume the phone *)
(* ends at, the volume it remembers to have reported and its reports.       *)

SetOutcome(d, command, actual) ==
    [volume |-> actual, reported |-> actual,
     sent |-> <<Report(StatusOf(d, actual, actual # command.index),
                       command.id, command.id)>>]

Refused(d, command, after) ==
    [volume |-> phone[d].volume, reported |-> phone[d].reported,
     sent |-> <<Report(StatusOf(d, phone[d].volume, TRUE),
                       ReplyId(command), after)>>]

\* observeExternalChange: a query announces a change nobody reported yet
\* before it is answered.
QueryOutcome(d, after) ==
    LET now == StatusOf(d, phone[d].volume, FALSE)
        unseen == /\ phone[d].reported # None
                  /\ phone[d].reported # phone[d].volume
        answer == <<Report(now, QueryReply, after)>>
    IN  [volume |-> phone[d].volume, reported |-> phone[d].volume,
         sent |-> IF unseen THEN <<Report(now, 0, after)>> \o answer ELSE answer]

Announce(d, after) ==
    [volume |-> phone[d].volume, reported |-> phone[d].volume,
     sent |-> <<Report(StatusOf(d, phone[d].volume, FALSE), 0, after)>>]

Silent(d) == [volume |-> phone[d].volume, reported |-> phone[d].reported,
              sent |-> <<>>]

\* RestoreSpeaker is refused on any route but the speaker.
Outcome(d, command, after) ==
    CASE command.op = "set" /\ phone[d].usable ->
             SetOutcome(d, command, command.index)
      [] command.op = "set" /\ ~phone[d].usable -> Refused(d, command, after)
      [] command.op = "query" -> QueryOutcome(d, after)
      [] command.op = "cancel" -> Announce(d, after)
      [] command.op = "tone" -> Silent(d)

\* A system limit stops short of the index; a command older than two seconds
\* is refused; AudioManager throws while the report is made; the report is
\* pushed out of the full report queue.
FaultyOutcomes(d, command, after) ==
    LET good == Outcome(d, command, after)
    IN  {SetOutcome(d, command, actual) :
            actual \in IF command.op = "set" /\ phone[d].usable
                       THEN Levels \ {command.index} ELSE {}}
        \cup (IF command.op \in {"set", "query"}
              THEN {Refused(d, command, after)} ELSE {})
        \cup (IF good.sent = <<>> THEN {}
              ELSE {[good EXCEPT !.reported = phone[d].reported,
                                 !.sent = <<Report(UnreadableStatus,
                                               ReplyId(command), after)>>],
                    [good EXCEPT !.sent = <<>>]})

Become(d, r, outcome) ==
    /\ phone' = [phone EXCEPT ![d].volume = outcome.volume,
                              ![d].reported = outcome.reported]
    /\ reports' = [reports EXCEPT ![r] = @ \o outcome.sent]

ApplyPending(r) ==
    LET d == DeviceOf[r]
        command == Head(controls[r])
        after == IF command.op = "set" THEN command.id ELSE done[r]
    IN
    /\ link[d] = r
    /\ controls[r] # <<>>
    /\ Room(r)
    /\ controls' = [controls EXCEPT ![r] = Tail(@)]
    /\ done' = [done EXCEPT ![r] = after]
    /\ \/ /\ Become(d, r, Outcome(d, command, after))
          /\ UNCHANGED faults
       \/ /\ faults > 0
          /\ faults' = faults - 1
          /\ \E outcome \in FaultyOutcomes(d, command, after) :
                 Become(d, r, outcome)
    /\ UNCHANGED <<registryVars, link, user>>

-----------------------------------------------------------------------------
(* What happens at the phone by itself.                                     *)

VolumeKey(d, level) ==
    /\ user > 0
    /\ phone[d].volume # level
    /\ user' = user - 1
    /\ phone' = [phone EXCEPT ![d].volume = level]
    /\ UNCHANGED <<registryVars, linkVars, link, done, faults>>

\* The 200 ms watchdog.
Watchdog(d) ==
    /\ link[d] # None
    /\ phone[d].volume # phone[d].reported
    /\ Room(link[d])
    /\ Become(d, link[d], Announce(d, done[link[d]]))
    /\ UNCHANGED <<registryVars, controls, link, done, faults, user>>

\* Headphones plugged or unplugged: routeChanged reports at once.
RouteChanged(d) ==
    /\ user > 0
    /\ user' = user - 1
    /\ LET status == [StatusOf(d, phone[d].volume, FALSE)
                         EXCEPT !.usable = ~phone[d].usable]
       IN  IF link[d] = None THEN UNCHANGED reports
           ELSE /\ Room(link[d])
                /\ reports' = [reports EXCEPT ![link[d]] =
                       Append(@, Report(status, 0, done[link[d]]))]
    /\ phone' = [phone EXCEPT ![d].usable = ~@,
                              ![d].reported = phone[d].volume]
    /\ UNCHANGED <<registryVars, controls, link, done, faults>>

\* A phone connects; an older session of its may still be registered.
Connect(r) ==
    /\ Register(r)
    /\ link' = [link EXCEPT ![DeviceOf[r]] = r]
    /\ UNCHANGED <<phone, done, faults, user>>

Disconnect(r) ==
    /\ faults > 0
    /\ faults' = faults - 1
    /\ Deregister(r)
    /\ link' = [link EXCEPT ![DeviceOf[r]] = IF @ = r THEN None ELSE @]
    /\ UNCHANGED <<phone, done, user>>

Queried(r) == \E i \in DOMAIN controls[r] : controls[r][i].op = "query"

\* The session task asks for the phone's status once a second.
QueryTick(r) ==
    /\ session[r] = "live"
    /\ ~Queried(r)
    /\ Cardinality({s \in Receivers : Queried(s)}) < MaxQueries
    /\ HasRoom(r)
    /\ controls' = [controls EXCEPT ![r] = Append(@, QueryDevice)]
    /\ UNCHANGED <<registryVars, reports, phoneVars>>
=============================================================================
