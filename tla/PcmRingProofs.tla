---------------------------- MODULE PcmRingProofs ----------------------------
(***************************************************************************)
(* For a ring, packets, chunks and targets of any size: the state is typed *)
(* and the ring holds an unbroken run of the stream up to its newest       *)
(* sample.  What makes the second one inductive is RoomMade: between the   *)
(* writer's pop and its second push only the reader acts, and the reader   *)
(* only makes more room.                                                   *)
(***************************************************************************)
EXTENDS PcmRing, TLAPS

\* A packet being written has a sample left, and no more samples of a chunk came
\* from the ring than are in it.
CountsAgree ==
    /\ writer \in {"writing", "making room", "retrying"} => left >= 1
    /\ actual <= Len(output)

\* The push after a pop finds room, so no sample is skipped.
RoomMade == writer = "retrying" => Len(queue) < Capacity

Samples == 0 .. Numbers - 1

-----------------------------------------------------------------------------
(* The operators.                                                           *)

\* The assumptions on the sizes, one by one.
LEMMA Sizes ==
    /\ Capacity \in Nat \ {0} /\ Numbers \in Nat \ {0}
    /\ Packet \in Nat \ {0} /\ Chunk \in Nat \ {0}
    /\ Chunk <= Capacity /\ Capacity < Numbers
BY RingAssumption

\* There is a target, and all are natural numbers.
LEMMA TargetsNat == Len(Targets) \in Nat \ {0} /\ \A i \in 1 .. Len(Targets) : Targets[i] \in Nat
BY RingAssumption

\* A capped target fits into the ring.
LEMMA CappedRange ==
    ASSUME NEW n \in Nat PROVE Capped(n) \in 0 .. Capacity
<1>1. Capacity \in Nat
  BY Sizes
<1>2. \E x \in {n, Capacity} : \A y \in {n, Capacity} : x =< y
  BY <1>1
<1>3. Capped(n) \in {n, Capacity} /\ \A y \in {n, Capacity} : Capped(n) =< y
  BY <1>2 DEF Capped, Min
<1>4. QED
  BY <1>1, <1>3

\* What a reader waits for fits into the ring.
LEMMA RequiredRange ==
    ASSUME NEW n \in 0 .. Capacity PROVE Max({n, Chunk}) \in 0 .. Capacity
<1>1. Capacity \in Nat /\ Chunk \in 0 .. Capacity
  BY Sizes
<1>2. \E x \in {n, Chunk} : \A y \in {n, Chunk} : x >= y
  BY <1>1
<1>3. Max({n, Chunk}) \in {n, Chunk}
  BY <1>2 DEF Max
<1>4. QED
  BY <1>1, <1>3

\* Numbers wrap within one turn: what % does to a number just outside the range.
LEMMA Wrap ==
    ASSUME NEW a \in Int, -Numbers <= a, a <= Numbers
    PROVE  a % Numbers = IF a < 0 THEN a + Numbers ELSE IF a = Numbers THEN 0 ELSE a
<1> USE Sizes
<1>1. CASE a < 0
  BY <1>1
<1>2. CASE a = Numbers
  BY <1>2
<1>3. CASE 0 <= a /\ a < Numbers
  BY <1>3
<1>4. QED
  BY <1>1, <1>2, <1>3

\* The number after a sample's, and the one before it.
LEMMA NextSample ==
    ASSUME NEW n \in Samples
    PROVE  /\ (n + 1) % Numbers = IF n = Numbers - 1 THEN 0 ELSE n + 1
           /\ (n + 1) % Numbers \in Samples
<1>1. n \in Int /\ n + 1 \in Int /\ -Numbers <= n + 1 /\ n + 1 <= Numbers /\ 0 <= n
  BY Sizes DEF Samples
<1>2. (n + 1) % Numbers = IF n + 1 = Numbers THEN 0 ELSE n + 1
  BY <1>1, Wrap
<1>3. QED
  BY <1>1, <1>2, Sizes DEF Samples

\* A queue of samples within the capacity, and a chunk of which so many samples
\* came from the ring.
QueueOK(q) == q \in Seq(Samples) /\ Len(q) <= Capacity

OutputOK(o, n) ==
    o \in Seq(Samples \cup {Silence}) /\ Len(o) <= Chunk /\ n \in 0 .. Chunk /\ n <= Len(o)

\* What a push does to a queue.
LEMMA Pushed ==
    ASSUME NEW q, QueueOK(q), NEW x \in Samples, Len(q) < Capacity
    PROVE  /\ QueueOK(Append(q, x))
           /\ Len(q) \in Nat
           /\ Len(Append(q, x)) = Len(q) + 1
           /\ \A i \in 1 .. Len(q) : Append(q, x)[i] = q[i]
           /\ Append(q, x)[Len(q) + 1] = x
BY Sizes DEF QueueOK

\* What a pop does.
LEMMA Popped ==
    ASSUME NEW q, QueueOK(q), q # <<>>
    PROVE  /\ QueueOK(Tail(q)) /\ Head(q) \in Samples
           /\ Len(q) \in Nat \ {0}
           /\ Len(Tail(q)) = Len(q) - 1
           /\ \A i \in 1 .. Len(q) - 1 : Tail(q)[i] = q[i + 1]
BY Sizes DEF QueueOK

\* A chunk that is not full takes one more sample.
LEMMA Filled ==
    ASSUME NEW o, NEW n, OutputOK(o, n), Len(o) < Chunk, NEW x \in Samples \cup {Silence}
    PROVE  OutputOK(Append(o, x), n) /\ OutputOK(Append(o, x), n + 1)
BY Sizes DEF OutputOK

\* An empty one is one.
LEMMA EmptyOutput == OutputOK(<<>>, 0)
BY Sizes DEF OutputOK

-----------------------------------------------------------------------------
(* Typing.                                                                  *)

\* An empty ring that begins to buffer is typed.
LEMMA InitTyped == Init => TypeOK /\ CountsAgree
<1> SUFFICES ASSUME Init PROVE TypeOK /\ CountsAgree
  OBVIOUS
<1>1. target \in 0 .. Capacity /\ raised \in 1 .. Len(Targets)
  BY CappedRange, TargetsNat, SMTT(30) DEF Init
<1>2. QED
  BY <1>1, Sizes DEF Init, TypeOK, CountsAgree

\* Every atomic operation of either thread keeps the types.
LEMMA TypeStep == TypeOK /\ CountsAgree /\ [Next]_vars => TypeOK' /\ CountsAgree'
<1> SUFFICES ASSUME TypeOK, CountsAgree, [Next]_vars PROVE TypeOK' /\ CountsAgree'
  OBVIOUS
<1> USE Sizes DEF taskVars, threadVars
<1> DEFINE WriterOK == /\ written \in Samples /\ left \in 0 .. Packet
                       /\ writer \in {"idle", "writing", "making room", "retrying",
                                      "clearing", "cleared"}
                       /\ writer \in {"writing", "making room", "retrying"} => left >= 1
           TargetOK == raised \in 1 .. Len(Targets) /\ target \in 0 .. Capacity
           ReaderOK == /\ reader \in {"idle", "checking", "measuring", "starting",
                                      "reading"}
                       /\ required \in 0 .. Capacity
           BufferingOK == buffering \in BOOLEAN
<1>0. QueueOK(queue) /\ OutputOK(output, actual) /\ WriterOK /\ TargetOK /\ ReaderOK /\ BufferingOK
  BY DEF TypeOK, CountsAgree, Samples, QueueOK, OutputOK
<1>1. QueueOK(queue')
  <2>1. CASE Push \/ PushAgain
    BY <1>0, <2>1, Pushed, ZenonT(60) DEF Push, PushAgain
  <2>2. CASE MakeRoom \/ Clear
    BY <1>0, <2>2, Popped DEF MakeRoom, DropsOldest, Clear
  <2>3. CASE Pop
    BY <1>0, <2>3, Popped DEF Pop
  <2>4. CASE UNCHANGED queue
    BY <1>0, <2>4
  <2>5. QED
    BY <2>1, <2>2, <2>3, <2>4
       DEF Next, vars, StartPacket, PushFails, StartClear, Cleared, BeginBuffering,
           RaiseTarget, StartRead, LoadTarget, ReadSilence, Prefilled, StartPlaying, EndRead
<1>2. OutputOK(output', actual')
  <2>1. CASE StartRead
    BY <2>1, EmptyOutput DEF StartRead
  <2>2. CASE Pop
    <3>1. CASE queue = <<>>
      <4>1. output' = Append(output, Silence) /\ actual' = actual /\ Len(output) < Chunk
        BY <2>2, <3>1 DEF Pop
      <4>2. QED
        BY <1>0, <4>1, Filled
    <3>2. CASE queue # <<>>
      <4>1. Head(queue) \in Samples \cup {Silence}
        BY <1>0, <3>2, Popped
      <4>2. /\ output' = Append(output, Head(queue))
            /\ actual' = actual + 1 /\ Len(output) < Chunk
        BY <2>2, <3>2 DEF Pop
      <4>3. QED
        BY <1>0, <4>1, <4>2, Filled
    <3>3. QED
      BY <3>1, <3>2
  <2>3. CASE UNCHANGED <<output, actual>>
    BY <1>0, <2>3
  <2>4. QED
    BY <2>1, <2>2, <2>3
       DEF Next, vars, StartPacket, Push, PushFails, MakeRoom, PushAgain, Wrote, StartClear,
           Clear, Cleared, BeginBuffering, RaiseTarget, LoadTarget, ReadSilence, Prefilled,
           StartPlaying, EndRead
<1>3. WriterOK'
  <2>1. CASE StartPacket
    BY <1>0, <2>1 DEF StartPacket
  <2>2. CASE Push \/ PushAgain
    <3>1. Wrote /\ left >= 1
      BY <1>0, <2>2 DEF Push, PushAgain
    <3>2. written' \in Samples
      BY <1>0, <3>1, NextSample DEF Wrote
    <3>3. left' = left - 1 /\ writer' = IF left = 1 THEN "idle" ELSE "writing"
      BY <3>1 DEF Wrote
    <3>4. left' \in 0 .. Packet /\ (left # 1 => left' >= 1)
      <4>1. left \in 0 .. Packet
        BY <1>0
      <4>2. QED
        BY <3>1, <3>3, <4>1
    <3>5. QED
      BY <3>2, <3>3, <3>4
  <2>3. CASE PushFails \/ MakeRoom \/ StartClear \/ Cleared \/ BeginBuffering
    BY <1>0, <2>3 DEF PushFails, MakeRoom, StartClear, Cleared, BeginBuffering
  <2>4. CASE UNCHANGED <<written, left, writer>>
    BY <1>0, <2>4
  <2>5. QED
    BY <2>1, <2>2, <2>3, <2>4
       DEF Next, vars, Clear, RaiseTarget, StartRead, LoadTarget, ReadSilence, Prefilled,
           StartPlaying, Pop, EndRead
<1>4. TargetOK'
  <2>1. CASE RaiseTarget
    <3>1. raised' \in 1 .. Len(Targets)
      BY <1>0, <2>1, TargetsNat DEF RaiseTarget
    <3>2. QED
      BY <2>1, <3>1, TargetsNat, CappedRange DEF RaiseTarget
  <2>2. CASE UNCHANGED <<raised, target>>
    BY <1>0, <2>2
  <2>3. QED
    BY <2>1, <2>2
       DEF Next, vars, StartPacket, Push, PushFails, MakeRoom, PushAgain, Wrote, StartClear,
           Clear, Cleared, BeginBuffering, StartRead, LoadTarget, ReadSilence, Prefilled,
           StartPlaying, Pop, EndRead
<1>5. ReaderOK'
  <2>1. CASE LoadTarget
    BY <1>0, <2>1, RequiredRange DEF LoadTarget
  <2>2. CASE ReadSilence \/ Prefilled
    BY <2>2 DEF ReadSilence, Prefilled
  <2>3. CASE StartRead \/ StartPlaying \/ EndRead
    <3>1. required' = required /\ reader' \in {"idle", "checking", "reading"}
      BY <2>3 DEF StartRead, StartPlaying, EndRead
    <3>2. QED
      BY <1>0, <3>1
  <2>4. CASE UNCHANGED <<reader, required>>
    BY <1>0, <2>4
  <2>5. QED
    BY <2>1, <2>2, <2>3, <2>4
       DEF Next, vars, StartPacket, Push, PushFails, MakeRoom, PushAgain, Wrote, StartClear,
           Clear, Cleared, BeginBuffering, RaiseTarget, Pop
<1>6. BufferingOK'
  BY <1>0, Zenon
     DEF Next, vars, StartPacket, Push, PushFails, MakeRoom, PushAgain, Wrote, StartClear,
         Clear, Cleared, BeginBuffering, RaiseTarget, StartRead, LoadTarget,
         ReadSilence, Prefilled, StartPlaying, Pop, EndRead
<1>7. QED
  BY <1>1, <1>2, <1>3, <1>4, <1>5, <1>6 DEF TypeOK, CountsAgree, Samples, QueueOK, OutputOK

\* The ring stays within its capacity, the target within the ring and the chunk
\* within its size, in every interleaving of the network task and the AudioTrack
\* thread.
THEOREM Typing == Spec => []TypeOK
<1>1. Spec => [](TypeOK /\ CountsAgree)
  BY InitTyped, TypeStep, PTL DEF Spec
<1>2. QED
  BY <1>1, PTL

-----------------------------------------------------------------------------
(* The run of samples in the ring.                                          *)

\* The queue q ends with the sample before the number w, and is unbroken.
Newest(q, w) ==
    \A i \in 1 .. Len(q) : q[i] = (w - (Len(q) - i) - 1) % Numbers

\* A pushed sample carries the number the next one follows.
LEMMA PushedNewest ==
    ASSUME NEW q, QueueOK(q), NEW w \in Samples, Len(q) < Capacity, Newest(q, w)
    PROVE  Newest(Append(q, w), (w + 1) % Numbers)
<1> DEFINE p == Append(q, w)
           v == (w + 1) % Numbers
<1>1. /\ Len(q) \in Nat /\ Len(p) = Len(q) + 1
      /\ \A i \in 1 .. Len(q) : p[i] = q[i]
      /\ p[Len(q) + 1] = w
  BY Pushed
<1>2. v = IF w = Numbers - 1 THEN 0 ELSE w + 1
  BY NextSample
<1>3. w \in 0 .. Numbers - 1
  BY DEF Samples
<1> SUFFICES ASSUME NEW i \in 1 .. Len(p) PROVE p[i] = (v - (Len(p) - i) - 1) % Numbers
  BY DEF Newest
<1> HIDE DEF p, v
<1>4. CASE i = Len(q) + 1
  <2>1. v - (Len(p) - i) - 1 = v - 1 /\ v - 1 \in Int /\ -Numbers <= v - 1 /\ v - 1 < Numbers
    BY <1>1, <1>2, <1>3, <1>4, Sizes
  <2>2. (v - 1) % Numbers = IF v - 1 < 0 THEN v - 1 + Numbers ELSE v - 1
    BY <2>1, Sizes
  <2>3. QED
    BY <1>1, <1>2, <1>3, <1>4, <2>1, <2>2, Sizes
<1>5. CASE i \in 1 .. Len(q)
  <2> DEFINE a == w - (Len(q) - i) - 1
             b == v - (Len(p) - i) - 1
  <2>1. p[i] = a % Numbers
    BY <1>1, <1>5 DEF Newest
  <2>2. a \in Int /\ -Numbers <= a /\ a < Numbers - 1
    BY <1>1, <1>3, <1>5, Sizes
  <2>3. b = (IF w = Numbers - 1 THEN a - Numbers ELSE a) /\ b \in Int
    BY <1>1, <1>2, <1>3, <1>5, Sizes
  <2>4. w = Numbers - 1 => a >= 0
    BY <1>1, <1>5, Sizes
  <2> HIDE DEF a, b
  <2>5. a % Numbers = IF a < 0 THEN a + Numbers ELSE a
    BY <2>2, Sizes
  <2>6. b % Numbers = IF b < 0 THEN b + Numbers ELSE b
    BY <2>2, <2>3, <2>4, Sizes
  <2>7. a % Numbers = b % Numbers
    BY <2>2, <2>3, <2>4, <2>5, <2>6, Sizes
  <2>8. QED
    BY <2>1, <2>7 DEF b
<1>6. QED
  BY <1>1, <1>4, <1>5

\* A pop takes the oldest sample.
LEMMA PoppedNewest ==
    ASSUME NEW q, QueueOK(q), q # <<>>, NEW w \in Samples, Newest(q, w)
    PROVE  Newest(Tail(q), w)
<1>1. /\ Len(q) \in Nat \ {0} /\ Len(Tail(q)) = Len(q) - 1
      /\ \A i \in 1 .. Len(q) - 1 : Tail(q)[i] = q[i + 1]
  BY Popped
<1> SUFFICES ASSUME NEW i \in 1 .. Len(q) - 1
             PROVE  Tail(q)[i] = (w - (Len(q) - 1 - i) - 1) % Numbers
  BY <1>1 DEF Newest
<1>2. q[i + 1] = (w - (Len(q) - (i + 1)) - 1) % Numbers
  BY <1>1 DEF Newest
<1>3. w - (Len(q) - (i + 1)) - 1 = w - (Len(q) - 1 - i) - 1
  BY <1>1, Sizes DEF Samples
<1>4. QED
  BY <1>1, <1>2, <1>3

\* One step of the ring: the invariant's parts RoomMade and KeepsNewest.
LEMMA RunStep ==
    ASSUME TypeOK, RoomMade, KeepsNewest, [Next]_vars
    PROVE  RoomMade' /\ KeepsNewest'
<1> USE DEF taskVars, threadVars
<1>1. QueueOK(queue) /\ written \in Samples /\ Newest(queue, written)
  BY DEF TypeOK, KeepsNewest, QueueOK, Newest, Samples
<1>2. SUFFICES /\ writer' = "retrying" => Len(queue') < Capacity
               /\ Newest(queue', written')
  BY DEF RoomMade, KeepsNewest, Newest
<1>3. CASE Push
  BY <1>1, <1>3, PushedNewest DEF Push, Wrote
<1>4. CASE PushAgain
  <2>1. Len(queue) < Capacity
    BY <1>4 DEF PushAgain, RoomMade
  <2>2. QED
    BY <1>1, <1>4, <2>1, PushedNewest DEF PushAgain, Wrote
<1>5. CASE MakeRoom
  <2>1. CASE queue = <<>>
    <3>1. Len(queue) < Capacity
      BY <2>1, Sizes
    <3>2. QED
      BY <1>1, <1>5, <2>1, <3>1 DEF MakeRoom, DropsOldest
  <2>2. CASE queue # <<>>
    <3>1. Len(Tail(queue)) < Capacity
      BY <1>1, <2>2, Popped, Sizes DEF QueueOK
    <3>2. QED
      BY <1>1, <1>5, <2>2, <3>1, PoppedNewest DEF MakeRoom, DropsOldest
  <2>3. QED
    BY <2>1, <2>2
<1>6. CASE Clear
  BY <1>1, <1>6, PoppedNewest DEF Clear
<1>7. CASE Pop
  <2>1. CASE queue = <<>>
    BY <1>1, <1>7, <2>1 DEF Pop, RoomMade
  <2>2. CASE queue # <<>>
    <3>1. Len(Tail(queue)) < Capacity
      BY <1>1, <2>2, Popped, Sizes DEF QueueOK
    <3>2. QED
      BY <1>1, <1>7, <2>2, <3>1, PoppedNewest DEF Pop
  <2>3. QED
    BY <2>1, <2>2
<1>8. CASE UNCHANGED <<queue, written>> /\ (writer' = "retrying" => writer = "retrying")
  BY <1>1, <1>8 DEF RoomMade
<1>9. QED
  BY <1>3, <1>4, <1>5, <1>6, <1>7, <1>8
     DEF Next, vars, StartPacket, PushFails, StartClear, Cleared, BeginBuffering, RaiseTarget,
         StartRead, LoadTarget, ReadSilence, Prefilled, StartPlaying, EndRead

\* An overflow discards the oldest audible data and never the newest, whatever
\* the reader pops between the writer's pop and its second push (push_latest).
THEOREM KeepsNewestHolds == Spec => []KeepsNewest
<1>1. Init => RoomMade /\ KeepsNewest
  BY DEF Init, RoomMade, KeepsNewest
<1>2. TypeOK /\ RoomMade /\ KeepsNewest /\ [Next]_vars => RoomMade' /\ KeepsNewest'
  BY RunStep
<1>3. QED
  BY <1>1, <1>2, Typing, PTL DEF Spec
=============================================================================
