------------------------------ MODULE AudioLink ------------------------------
(***************************************************************************)
(* Audio on its way from the server to one phone: the sender task with its *)
(* silence detector and packetizer (network/server.rs, network/silence.rs),*)
(* the datagrams and the control stream of the connection, and the phone's *)
(* receive loop (client.rs) with its jitter buffer (jitter.rs) and its     *)
(* adaptation (receiver.rs).                                               *)
(*                                                                         *)
(* Packets are numbered from the start of the session.  The code sees only *)
(* the number modulo Modulus (2^32 there): every comparison below is on    *)
(* Seq(n), and the jitter buffer computes with nothing else.  A packet may *)
(* arrive late, never, or again, at any time after it was sent; control    *)
(* messages arrive in order.  The PCM ring the jitter buffer writes to is  *)
(* the subject of module PcmRing: here its underruns are a free choice.    *)
(***************************************************************************)
EXTENDS Integers, Sequences, FiniteSets, FiniteSetsExt

CONSTANTS
    None,             \* the absent value of an Option
    Modulus,          \* sequence numbers wrap at Modulus
    FirstPacket,      \* the packets before it were all lost
    LastPacket,       \* bound on the packets sent
    PacketsPerBlock,  \* a capture block of 10 ms is cut into so many packets
    Grace,            \* silent blocks before the sender goes idle
    ControlCap,       \* bound on the control messages under way
    InitialTarget, TargetStep, MaxTarget,  \* sizes of the jitter buffer
    Cooldown          \* packets between two adaptations

Half == Modulus \div 2

\* A session never sends half the sequence space (at least 24 days of audio),
\* so two packets of one session are never compared the wrong way round.
ASSUME LinkAssumption ==
    /\ {Modulus, FirstPacket, LastPacket, PacketsPerBlock, Grace, ControlCap,
        InitialTarget, TargetStep, MaxTarget, Cooldown} \subseteq Nat
    /\ Modulus = 2 * Half
    /\ FirstPacket <= LastPacket
    /\ LastPacket - FirstPacket < Half
    /\ 1 <= InitialTarget /\ InitialTarget <= MaxTarget
    /\ PacketsPerBlock >= 1 /\ TargetStep >= 1
    /\ None \notin Int

VARIABLES
    transmission, \* AudioTransmissionGate: the operator streams
    playback,     \* this receiver's playback gate
    idle,         \* SilenceDetector.idle
    silent_for,   \* blocks since SilenceDetector.silent_since, or None
    sending,      \* packets of the present block still to be sent
    next,         \* the number of the next packet
    control,      \* AudioIdle messages under way
    jitter,       \* the jitter buffer
    cooldown,     \* adaptation_cooldown_packets
    newest,       \* newest_sequence of the receive loop
    idle_boundary,
    idle_deadline,\* whether the 150 ms timer runs
    audio_active, \* SharedState.audio_active
    handling,     \* the packet handle_packet drains for, or None
    lost,         \* JitterBuffer.lost_packets
    played,       \* history: the last packet written to the ring
    count,        \* history: how many packets were written to the ring
    fresh,        \* history: the boundary of the last resume
    announced     \* history: the last idle boundary the sender announced

senderVars == <<transmission, playback, idle, silent_for, sending, next,
                announced>>
jitterVars == <<jitter, lost, played, count>>
loopVars == <<newest, idle_boundary, idle_deadline, audio_active, fresh>>
vars == <<senderVars, control, jitterVars, cooldown, loopVars, handling>>

Seq32(n) == n % Modulus

\* Wrapping subtraction, and the two comparisons made with it.
Distance(s, reference) == (s - reference) % Modulus
SequenceBefore(s, reference) == Distance(s, reference) >= Half
SequenceAfter(s, reference) == Distance(s, reference) \in 1 .. Half - 1

Init ==
    /\ transmission = TRUE
    /\ playback \in BOOLEAN
    /\ idle = FALSE
    /\ silent_for = None
    /\ sending = 0
    /\ next = FirstPacket
    /\ control = <<>>
    /\ jitter = [expected |-> None, packets |-> <<>>, started |-> FALSE,
                 target |-> InitialTarget]
    /\ cooldown = Cooldown
    /\ newest = None
    /\ idle_boundary = None
    /\ idle_deadline = FALSE
    /\ audio_active = FALSE
    /\ handling = None
    /\ lost = 0
    /\ played = FirstPacket - 1
    /\ count = 0
    /\ fresh = FirstPacket
    /\ announced = FirstPacket

-----------------------------------------------------------------------------
(* The sender.                                                              *)

\* The operator switches streaming; the volume controller opens and shuts
\* the gate.
SetTransmission ==
    /\ transmission' = ~transmission
    /\ UNCHANGED <<playback, idle, silent_for, sending, next, announced,
                   control, jitterVars, cooldown, loopVars, handling>>

SetPlayback ==
    /\ playback' = ~playback
    /\ UNCHANGED <<transmission, idle, silent_for, sending, next, announced,
                   control, jitterVars, cooldown, loopVars, handling>>

\* SilenceDetector::update, and the report when it made the sender idle.
Update(now_idle, quiet) ==
    /\ idle' = now_idle
    /\ silent_for' = quiet
    /\ IF now_idle /\ ~idle
       THEN /\ Len(control) < ControlCap
            /\ control' = Append(control, next)
            /\ announced' = next
       ELSE UNCHANGED <<control, announced>>

\* A block, or the wait for one, finds a gate shut.
Suspended ==
    /\ sending = 0
    /\ ~(transmission /\ playback)
    /\ Update(TRUE, None)
    /\ UNCHANGED <<transmission, playback, sending, next, jitterVars, cooldown,
                   loopVars, handling>>

\* A block is cut up unless the sender is idle.
BlockSent ==
    IF idle' THEN UNCHANGED sending
    ELSE /\ next + PacketsPerBlock <= LastPacket
         /\ sending' = PacketsPerBlock

\* Silence is sent until it has lasted for Grace blocks, counting the ones
\* the receiver of the broadcast missed.
SilentBlock ==
    /\ sending = 0
    /\ transmission /\ playback
    /\ \E passed \in 1 .. Grace :
           LET quiet == IF silent_for = None THEN 0
                        ELSE Min({silent_for + passed, Grace})
           IN  Update(idle \/ quiet = Grace, quiet)
    /\ BlockSent
    /\ UNCHANGED <<transmission, playback, next, jitterVars, cooldown,
                   loopVars, handling>>

LoudBlock ==
    /\ sending = 0
    /\ transmission /\ playback
    /\ Update(FALSE, None)
    /\ BlockSent
    /\ UNCHANGED <<transmission, playback, next, jitterVars, cooldown,
                   loopVars, handling>>

\* Packetizer::send_block looks at the transmission gate before every packet.
\* The sequence advances whether or not the datagram queue takes the packet.
SendPacket ==
    /\ sending > 0
    /\ IF transmission
       THEN next' = next + 1 /\ sending' = sending - 1
       ELSE sending' = 0 /\ UNCHANGED next
    /\ UNCHANGED <<transmission, playback, idle, silent_for, announced,
                   control, jitterVars, cooldown, loopVars, handling>>

-----------------------------------------------------------------------------
(* The jitter buffer.                                                       *)

MaxPackets == Max({3 * jitter.target, 4})

Held == Cardinality(DOMAIN jitter.packets)

\* Mutant: the buffer is emptied but goes on expecting what it expected.
MutantRestarted(boundary) ==
    [jitter EXCEPT !.packets = <<>>, !.started = FALSE]

\* JitterBuffer::restart, part of ReceiverPipeline::resume.
Restarted(boundary) ==
    [jitter EXCEPT !.packets = <<>>, !.expected = Seq32(boundary),
                   !.started = FALSE]

Expecting(j, n) == IF j.expected = None THEN Seq32(n) ELSE j.expected

TooLate(j, n) == SequenceBefore(Seq32(n), Expecting(j, n))

\* JitterBuffer::push up to the drain.
Pushed(j, n) ==
    LET ready == [j EXCEPT !.expected = Expecting(j, n)]
    IN  IF Seq32(n) \in DOMAIN j.packets \/ TooLate(j, n) THEN ready
        ELSE [ready EXCEPT !.packets =
                 [s \in DOMAIN @ \cup {Seq32(n)} |->
                     IF s = Seq32(n) THEN n ELSE @[s]]]

Inserted(j, n) == Seq32(n) \notin DOMAIN j.packets /\ ~TooLate(j, n)

\* drain_ready goes on only when playback runs or may start.
MayDrain(j) == j.started \/ Cardinality(DOMAIN j.packets) >= j.target

\* next_buffered_sequence
Ahead == {s \in DOMAIN jitter.packets : SequenceAfter(s, jitter.expected)}
Nearest == CHOOSE s \in Ahead : \A t \in Ahead :
               Distance(s, jitter.expected) <= Distance(t, jitter.expected)

\* Mutant: the packet found is counted among the missing ones.
MutantMissing == Distance(Nearest, jitter.expected) + 1

Missing == Distance(Nearest, jitter.expected)

\* Mutant: a gap is waited for whatever is buffered behind it.
MutantWaitsForGap == TRUE

WaitsForGap == Held < jitter.target /\ Held < MaxPackets

Buffered == jitter.expected \in DOMAIN jitter.packets

\* Mutant: the sequence does not wrap.
MutantAdvanced == jitter.expected + 1

Advanced == Seq32(jitter.expected + 1)

\* One turn of the loop in drain_ready, and the write to the ring.
DrainAudio ==
    /\ handling # None /\ Buffered
    /\ jitter' = [jitter EXCEPT
           !.expected = Advanced,
           !.packets = [s \in DOMAIN @ \ {jitter.expected} |-> @[s]]]
    /\ played' = jitter.packets[jitter.expected]
    /\ count' = count + 1
    /\ UNCHANGED <<senderVars, control, lost, cooldown, loopVars, handling>>

SkipGap ==
    /\ handling # None /\ ~Buffered
    /\ Ahead # {} /\ Missing > MaxPackets
    /\ jitter' = [jitter EXCEPT !.expected = Nearest]
    /\ lost' = lost + Missing
    /\ UNCHANGED <<senderVars, control, played, count, cooldown, loopVars, handling>>

DrainSilence ==
    /\ handling # None /\ ~Buffered
    /\ Ahead # {} /\ Missing <= MaxPackets /\ ~WaitsForGap
    /\ jitter' = [jitter EXCEPT !.expected = Advanced]
    /\ lost' = lost + 1
    /\ UNCHANGED <<senderVars, control, played, count, cooldown, loopVars, handling>>

Drained ==
    /\ ~Buffered
    /\ Ahead # {} => (Missing <= MaxPackets /\ WaitsForGap)

\* adjust_jitter_after_stutter, on the buffer j and with cooldown c.
Adjust(j, c, stutter) ==
    IF c > 0
    THEN cooldown' = c - 1 /\ jitter' = j
    ELSE IF stutter /\ j.started /\ j.target < MaxTarget
         THEN /\ cooldown' = Cooldown
              /\ jitter' = [j EXCEPT !.started = FALSE,
                                     !.target = Min({@ + TargetStep, MaxTarget})]
         ELSE cooldown' = 0 /\ jitter' = j

-----------------------------------------------------------------------------
(* The receive loop of the phone.                                           *)

\* Mutant: any packet counts as audio, also while an idle boundary is set.
MutantActivates(boundary) == TRUE

\* A packet from before the boundary does not bring audio back.
Activates(boundary) == boundary = None

\* What the loop does once handle_packet is through with packet n.
Noted(n) ==
    /\ newest' = IF newest = None \/ ~SequenceBefore(Seq32(n), Seq32(newest))
                 THEN n ELSE newest
    /\ audio_active' = (audio_active \/ Activates(idle_boundary'))

\* A datagram arrives.  The packet that reaches an idle boundary restarts the
\* pipeline there; then handle_packet runs, in one step unless it drains.
Receive(n) ==
    LET crosses == /\ idle_boundary # None
                   /\ ~SequenceBefore(Seq32(n), Seq32(idle_boundary))
        before == IF crosses THEN Restarted(idle_boundary) ELSE jitter
        after == Pushed(before, n)
        wait == IF crosses THEN Cooldown ELSE cooldown
    IN
    /\ handling = None
    /\ IF crosses
       THEN /\ fresh' = idle_boundary
            /\ idle_boundary' = None
            /\ idle_deadline' = FALSE
       ELSE UNCHANGED <<fresh, idle_boundary, idle_deadline>>
    /\ IF Inserted(before, n) /\ MayDrain(after)
       THEN /\ handling' = n
            /\ jitter' = [after EXCEPT !.started = TRUE]
            /\ cooldown' = wait
            /\ UNCHANGED <<newest, audio_active>>
       ELSE /\ \E underrun \in BOOLEAN :
                   Adjust(after, wait,
                          (~crosses /\ underrun) \/ TooLate(before, n))
            /\ Noted(n)
            /\ UNCHANGED handling
    /\ UNCHANGED <<senderVars, control, lost, played, count>>

\* The drain is over.
HandleEnds ==
    /\ handling # None /\ Drained
    /\ \E underrun \in BOOLEAN : Adjust(jitter, cooldown, underrun)
    /\ UNCHANGED <<idle_boundary, idle_deadline, fresh>>
    /\ Noted(handling)
    /\ handling' = None
    /\ UNCHANGED <<senderVars, control, lost, played, count>>

\* Mutant: a boundary is taken over however late the message is.
MutantStillAhead(boundary) == TRUE

\* Not when a packet from behind the boundary was there first.
StillAhead(boundary) ==
    newest = None \/ SequenceBefore(Seq32(newest), Seq32(boundary))

AudioIdle ==
    /\ handling = None
    /\ control # <<>>
    /\ control' = Tail(control)
    /\ IF StillAhead(Head(control))
       THEN idle_boundary' = Head(control) /\ idle_deadline' = TRUE
       ELSE UNCHANGED <<idle_boundary, idle_deadline>>
    /\ UNCHANGED <<senderVars, jitterVars, cooldown, newest, audio_active,
                   fresh, handling>>

IdleDeadline ==
    /\ handling = None
    /\ idle_deadline
    /\ idle_deadline' = FALSE
    /\ audio_active' = FALSE
    /\ UNCHANGED <<senderVars, control, jitterVars, cooldown, newest,
                   idle_boundary, fresh, handling>>

-----------------------------------------------------------------------------
Next ==
    \/ SetTransmission
    \/ SetPlayback
    \/ Suspended
    \/ SilentBlock
    \/ LoudBlock
    \/ SendPacket
    \/ \E n \in FirstPacket .. LastPacket - 1 : n < next /\ Receive(n)
    \/ DrainAudio
    \/ SkipGap
    \/ DrainSilence
    \/ HandleEnds
    \/ AudioIdle
    \/ IdleDeadline

Spec == Init /\ [][Next]_vars

\* The phone's loop runs, its timer fires and the control stream is
\* delivered.  Datagrams are promised nothing, and so is the sender.
Fairness ==
    /\ WF_vars(DrainAudio \/ SkipGap \/ DrainSilence \/ HandleEnds)
    /\ WF_vars(AudioIdle)
    /\ WF_vars(IdleDeadline)

FairSpec == Spec /\ Fairness

-----------------------------------------------------------------------------
(* Properties.                                                              *)

Packets == FirstPacket .. LastPacket
Sequences == 0 .. Modulus - 1

TypeOK ==
    /\ {transmission, playback, idle, idle_deadline, audio_active}
           \subseteq BOOLEAN
    /\ silent_for \in 0 .. Grace \cup {None}
    /\ sending \in 0 .. PacketsPerBlock
    /\ {next, fresh, announced} \subseteq Packets
    /\ {newest, idle_boundary, handling} \subseteq Packets \cup {None}
    /\ control \in Seq(Packets) /\ Len(control) <= ControlCap
    /\ jitter.expected \in Sequences \cup {None}
    /\ \A s \in DOMAIN jitter.packets :
           jitter.packets[s] \in Packets /\ Seq32(jitter.packets[s]) = s
    /\ jitter.started \in BOOLEAN
    /\ jitter.target \in InitialTarget .. MaxTarget
    /\ cooldown \in 0 .. Cooldown
    /\ {lost, count} \subseteq Nat
    /\ played \in FirstPacket - 1 .. LastPacket

\* What reaches the ring is in the order it was captured, each packet at most
\* once and, after a pause, nothing from before it, for any late, repeated or
\* reordered arrival and across the wrap of the sequence number (jitter.rs:
\* "arriving after playback passed this sequence is too late to play").
InOrder ==
    [][played' # played => played' > played /\ played' >= fresh]_vars

\* lost_packets counts a packet at most once, and none that is played: with
\* the packets played it never exceeds what was sent.
CountedOnce == lost + count <= next - FirstPacket

\* Between two packets the jitter buffer holds fewer than target_packets:
\* "playback never waits indefinitely for an old datagram" (jitter.rs).
NeverOverfull == handling = None => Held < jitter.target

\* Once the phone has a packet that was sent after the last pause, it treats
\* audio as active: an AudioIdle that was overtaken by the packets after it,
\* or the timer of an earlier one, does not silence the running stream.
StreamIsHeard ==
    (newest # None /\ newest >= announced) => audio_active

\* When the sender stays idle, the phone stops playing for good: a straggler
\* does not switch audio on again.
FallsSilent == <>[]idle => <>[]~audio_active
=============================================================================
