------------------------------- MODULE PcmRing -------------------------------
(***************************************************************************)
(* The PCM ring between the phone's network task and its AudioTrack        *)
(* thread (ring_buffer.rs), one operation on the queue, the prefill flag   *)
(* or the target a step.  The task writes packets, clears the ring when    *)
(* audio resumes and raises the playback target (receiver.rs); the thread  *)
(* reads chunks (read_pcm).  Both pop, and neither locks.                  *)
(*                                                                         *)
(* Samples are numbered modulo Numbers in the order they are written: even *)
(* numbers are left samples and odd ones right, as in the interleaved      *)
(* payload.  A silent packet of the jitter buffer is numbered like another.*)
(***************************************************************************)
EXTENDS Integers, Sequences, FiniteSetsExt

CONSTANTS
    Silence,    \* the zero written to the output when the ring is empty
    Capacity,   \* of the queue, in samples
    Numbers,    \* samples are told apart modulo this
    Packet,     \* samples in a packet
    Chunk,      \* samples the AudioTrack thread asks for
    Targets     \* playback targets the adaptation steps through, ascending

ASSUME RingAssumption ==
    /\ {Capacity, Numbers, Packet, Chunk} \subseteq Nat \ {0}
    /\ Chunk <= Capacity /\ Capacity < Numbers
    /\ Packet % 2 = 0 /\ Chunk % 2 = 0 /\ Numbers % 2 = 0
    /\ Targets \in Seq(Nat) /\ Targets # <<>>
    /\ Silence \notin Int

VARIABLES
    queue,      \* the samples in the ring, oldest first
    written,    \* history: the number of the next sample
    buffering,  \* the prefill flag
    target,     \* playback_target_samples
    raised,     \* index in Targets of the present target
    writer,     \* what the network task is at
    left,       \* samples of its packet still to be written
    reader,     \* what the AudioTrack thread is at
    required,   \* the samples it waits for, local to read_into
    output,     \* the chunk it has filled so far
    actual      \* samples of it that came from the ring

taskVars == <<written, target, raised, writer, left>>
threadVars == <<reader, required, output, actual>>
vars == <<queue, buffering, taskVars, threadVars>>

\* Mutant: the target is stored as it is.
MutantCapped(samples) == samples

\* set_playback_target
Capped(samples) == Min({samples, Capacity})

\* ReceiverPipeline::new has set the first target and begun buffering.
Init ==
    /\ queue = <<>>
    /\ written = 0
    /\ buffering = TRUE
    /\ raised = 1
    /\ target = Capped(Targets[1])
    /\ writer = "idle"
    /\ left = 0
    /\ reader = "idle"
    /\ required = 0
    /\ output = <<>>
    /\ actual = 0

-----------------------------------------------------------------------------
(* The network task.                                                        *)

StartPacket ==
    /\ writer = "idle"
    /\ writer' = "writing"
    /\ left' = Packet
    /\ UNCHANGED <<queue, buffering, written, target, raised, threadVars>>

Wrote ==
    /\ written' = (written + 1) % Numbers
    /\ left' = left - 1
    /\ writer' = IF left = 1 THEN "idle" ELSE "writing"
    /\ UNCHANGED <<buffering, target, raised, threadVars>>

\* push_latest: a push, and when the ring is full a pop and a push again,
\* whose failure is ignored.
Push ==
    /\ writer = "writing"
    /\ Len(queue) < Capacity
    /\ queue' = Append(queue, written)
    /\ Wrote

PushFails ==
    /\ writer = "writing"
    /\ Len(queue) = Capacity
    /\ writer' = "making room"
    /\ UNCHANGED <<queue, buffering, written, target, raised, left, threadVars>>

\* Mutant: the sample is pushed again into the full ring.
MutantDropsOldest == FALSE

\* By then the reader may have popped some.
DropsOldest == queue # <<>>

MakeRoom ==
    /\ writer = "making room"
    /\ queue' = IF DropsOldest THEN Tail(queue) ELSE queue
    /\ writer' = "retrying"
    /\ UNCHANGED <<buffering, written, target, raised, left, threadVars>>

PushAgain ==
    /\ writer = "retrying"
    /\ queue' = IF Len(queue) < Capacity THEN Append(queue, written) ELSE queue
    /\ Wrote

\* ReceiverPipeline::resume clears the ring, then begins buffering.
StartClear ==
    /\ writer = "idle"
    /\ writer' = "clearing"
    /\ UNCHANGED <<queue, buffering, written, target, raised, left, threadVars>>

Clear ==
    /\ writer = "clearing"
    /\ queue # <<>>
    /\ queue' = Tail(queue)
    /\ UNCHANGED <<buffering, taskVars, threadVars>>

Cleared ==
    /\ writer = "clearing"
    /\ queue = <<>>
    /\ writer' = "cleared"
    /\ UNCHANGED <<queue, buffering, written, target, raised, left, threadVars>>

BeginBuffering ==
    /\ writer = "cleared"
    /\ writer' = "idle"
    /\ buffering' = TRUE
    /\ UNCHANGED <<queue, written, target, raised, left, threadVars>>

\* adjust_jitter_after_stutter
RaiseTarget ==
    /\ writer = "idle"
    /\ raised < Len(Targets)
    /\ raised' = raised + 1
    /\ target' = Capped(Targets[raised'])
    /\ UNCHANGED <<queue, buffering, written, writer, left, threadVars>>

-----------------------------------------------------------------------------
(* read_into, on the AudioTrack thread.                                     *)

\* The prefill flag is loaded, ...
StartRead ==
    /\ reader = "idle"
    /\ reader' = IF buffering THEN "checking" ELSE "reading"
    /\ output' = <<>>
    /\ actual' = 0
    /\ UNCHANGED <<queue, buffering, taskVars, required>>

\* ... then the target, ...
LoadTarget ==
    /\ reader = "checking"
    /\ reader' = "measuring"
    /\ required' = Max({target, Chunk})
    /\ UNCHANGED <<queue, buffering, taskVars, output, actual>>

\* ... then the length. With too little in the ring the chunk is silent, and
\* read_into returns without popping anything; ...
ReadSilence ==
    /\ reader = "measuring"
    /\ Len(queue) < required
    /\ reader' = "idle"
    /\ required' = 0
    /\ UNCHANGED <<queue, buffering, taskVars, output, actual>>

Prefilled ==
    /\ reader = "measuring"
    /\ Len(queue) >= required
    /\ reader' = "starting"
    /\ required' = 0
    /\ UNCHANGED <<queue, buffering, taskVars, output, actual>>

\* ... with enough, the flag is cleared.
StartPlaying ==
    /\ reader = "starting"
    /\ reader' = "reading"
    /\ buffering' = FALSE
    /\ UNCHANGED <<queue, taskVars, required, output, actual>>

Pop ==
    /\ reader = "reading"
    /\ Len(output) < Chunk
    /\ IF queue = <<>>
       THEN /\ output' = Append(output, Silence)
            /\ UNCHANGED <<queue, actual>>
       ELSE /\ output' = Append(output, Head(queue))
            /\ queue' = Tail(queue)
            /\ actual' = actual + 1
    /\ UNCHANGED <<buffering, taskVars, reader, required>>

\* A short chunk is an underrun, and playback prefills again. The target only
\* ever grows, so its load is part of the step.
EndRead ==
    /\ reader = "reading"
    /\ Len(output) = Chunk
    /\ reader' = "idle"
    /\ buffering' = (buffering \/ (actual # Chunk /\ target > 0))
    /\ UNCHANGED <<queue, taskVars, required, output, actual>>

-----------------------------------------------------------------------------
Write == Push \/ PushFails \/ MakeRoom \/ PushAgain
Restart == Clear \/ Cleared \/ BeginBuffering
Read == StartRead \/ LoadTarget \/ ReadSilence \/ Prefilled \/ StartPlaying \/ Pop
          \/ EndRead

Next ==
    \/ StartPacket
    \/ Push
    \/ PushFails
    \/ MakeRoom
    \/ PushAgain
    \/ StartClear
    \/ Clear
    \/ Cleared
    \/ BeginBuffering
    \/ RaiseTarget
    \/ StartRead
    \/ LoadTarget
    \/ ReadSilence
    \/ Prefilled
    \/ StartPlaying
    \/ Pop
    \/ EndRead

Spec == Init /\ [][Next]_vars

\* The ring holds what the thread will ask for.
Enough == Len(queue) >= Max({target, Chunk})

\* Both threads run, packets go on arriving, and the thread's polls, one every
\* 2 ms, do not all fall into the instant between the pop and the push of a
\* writer that overwrites a full ring.
Fairness ==
    /\ WF_vars(Write \/ Restart)
    /\ SF_vars(StartPacket)
    /\ WF_vars(Read)
    /\ SF_vars(Enough /\ StartRead)
    /\ SF_vars(Enough /\ LoadTarget)
    /\ SF_vars(Prefilled)

FairSpec == Spec /\ Fairness

-----------------------------------------------------------------------------
(* Properties.                                                              *)

TypeOK ==
    /\ queue \in Seq(0 .. Numbers - 1) /\ Len(queue) <= Capacity
    /\ written \in 0 .. Numbers - 1
    /\ buffering \in BOOLEAN
    /\ raised \in 1 .. Len(Targets)
    /\ target \in 0 .. Capacity
    /\ writer \in {"idle", "writing", "making room", "retrying", "clearing",
                   "cleared"}
    /\ left \in 0 .. Packet
    /\ reader \in {"idle", "checking", "measuring", "starting", "reading"}
    /\ required \in 0 .. Capacity
    /\ output \in Seq(0 .. Numbers - 1 \cup {Silence}) /\ Len(output) <= Chunk
    /\ actual \in 0 .. Chunk

\* The ring holds an unbroken run of the stream up to the newest sample: the
\* push after making room never fails, so an overflow discards "the oldest
\* audible data, not the newest" (ring_buffer.rs), whatever the reader pops
\* in between.
KeepsNewest ==
    \A i \in 1 .. Len(queue) :
        queue[i] = (written - (Len(queue) - i) - 1) % Numbers

\* As long as packets arrive and audio is not forever restarted, prefilling
\* comes to an end: the adaptive target never asks for more than fits.
PrefillEnds ==
    (<>[](writer \notin {"clearing", "cleared"})) => (buffering ~> ~buffering)

\* Every slot of a chunk holds silence or a sample of the slot's channel:
\* read_into is to "atomically pop or fill silence" (ring_buffer.rs), for
\* 48 kHz stereo output.
ChannelsKept ==
    \A i \in 1 .. Len(output) :
        output[i] # Silence => output[i] % 2 = (i - 1) % 2
=============================================================================
