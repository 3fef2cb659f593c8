--------------------------- MODULE AudioLinkProofs ---------------------------
(***************************************************************************)
(* The audio link for every modulus of the sequence number, every size of  *)
(* the jitter buffer and every number of packets: what is played is in     *)
(* order and once, nothing is counted lost twice, the buffer never fills   *)
(* up, and a running stream is heard.                                      *)
(*                                                                         *)
(* The code computes with wrapped numbers.  The argument gives the wrapped *)
(* number the buffer expects back its meaning: it is that of one packet e, *)
(* no further than the next one after the newest that arrived, all that is *)
(* held is from e on, and all that was played or counted is before e.      *)
(***************************************************************************)
EXTENDS AudioLink, FiniteSetTheorems, SequenceTheorems, TLAPS

-----------------------------------------------------------------------------
(* Wrapped numbers.                                                         *)

\* Division with remainder.
LEMMA DivMod ==
    ASSUME NEW n \in Int, NEW m \in Nat \ {0}
    PROVE  (n % m) \in 0 .. m - 1 /\ (n \div m) \in Int /\ n = m * (n \div m) + (n % m)
OBVIOUS

\* The remainder is unique.
LEMMA Remainder ==
    ASSUME NEW m \in Nat \ {0}, NEW x \in 0 .. m - 1, NEW k \in Int
    PROVE  (m * k + x) % m = x
OBVIOUS

\* Wrapped subtraction from the larger number.
LEMMA WrapForward ==
    ASSUME NEW m \in Nat \ {0}, NEW a \in Int, NEW b \in Int, 0 <= a - b, a - b < m
    PROVE  ((a % m) - (b % m)) % m = a - b
<1> DEFINE p == a \div m
           q == b \div m
<1>1. p \in Int /\ q \in Int /\ a = m * p + (a % m) /\ b = m * q + (b % m) /\ (a % m) \in Int /\ (b % m) \in Int
  BY DivMod
<1> DEFINE x == a % m
           y == b % m
<1> HIDE DEF p, q, x, y
<1>2. x - y = m * (q - p) + (a - b)
  <2>1. a = m * p + x /\ b = m * q + y /\ x \in Int /\ y \in Int /\ p \in Int /\ q \in Int
    BY <1>1 DEF x, y
  <2>2. m * (q - p) = m * q - m * p
    BY <2>1
  <2>3. m * q \in Int /\ m * p \in Int
    BY <2>1
  <2>4. QED
    BY <2>1, <2>2, <2>3
<1>3. (m * (q - p) + (a - b)) % m = a - b
  <2>1. q - p \in Int /\ a - b \in 0 .. m - 1
    BY <1>1
  <2>2. QED
    BY <2>1, Remainder
<1>4. QED
  BY <1>2, <1>3 DEF x, y

\* And from the smaller one.
LEMMA WrapBack ==
    ASSUME NEW m \in Nat \ {0}, NEW a \in Int, NEW b \in Int, 0 < b - a, b - a < m
    PROVE  ((a % m) - (b % m)) % m = m + (a - b)
<1> DEFINE c == a + m
<1>1. c \in Int /\ 0 <= c - b /\ c - b < m
  OBVIOUS
<1>2. (c % m) = (a % m)
  <2>1. a = m * (a \div m) + (a % m) /\ (a % m) \in 0 .. m - 1 /\ (a \div m) \in Int
    BY DivMod
  <2> DEFINE k == a \div m
             x == a % m
  <2>2. c = m * (k + 1) + x
    <3> HIDE DEF k, x
    <3>1. m * (k + 1) = m * k + m
       BY <2>1 DEF k
    <3>2. m * k \in Int /\ x \in Int
       BY <2>1 DEF k, x
    <3>3. QED
      BY <2>1, <3>1, <3>2 DEF k, x
  <2>3. x \in 0 .. m - 1 /\ k + 1 \in Int
    BY <2>1
  <2> HIDE DEF k, x, c
  <2>4. (m * (k + 1) + x) % m = x
    BY <2>3, Remainder
  <2>5. QED
    BY <2>2, <2>4 DEF x
<1>3. ((c % m) - (b % m)) % m = c - b
  <2> HIDE DEF c
  <2>1. QED
    BY <1>1, WrapForward
<1>4. QED
  BY <1>2, <1>3

\* The successor of a wrapped number.
LEMMA WrapNext ==
    ASSUME NEW m \in Nat \ {0}, NEW a \in Int
    PROVE  ((a % m) + 1) % m = (a + 1) % m
<1> DEFINE k == a \div m
           x == a % m
<1>1. a = m * k + x /\ x \in 0 .. m - 1 /\ k \in Int
  BY DivMod
<1> HIDE DEF k, x
<1>2. CASE x + 1 < m
  <2>1. a + 1 = m * k + (x + 1) /\ x + 1 \in 0 .. m - 1
    BY <1>1, <1>2
  <2>2. (m * k + (x + 1)) % m = x + 1
    BY <1>1, <2>1, Remainder
  <2>3. 0 \in Int /\ m * 0 + (x + 1) = x + 1 /\ (m * 0 + (x + 1)) % m = x + 1
    BY <1>1, <2>1, Remainder
  <2>4. QED
    BY <2>1, <2>2, <2>3 DEF x
<1>3. CASE x + 1 = m
  <2>1. a + 1 = m * (k + 1) + 0 /\ x + 1 = m * 1 + 0
    <3>1. m * (k + 1) = m * k + m /\ m * k \in Int
      BY <1>1
    <3>2. QED
      BY <1>1, <1>3, <3>1
  <2>2. 0 \in 0 .. m - 1 /\ k + 1 \in Int /\ 1 \in Int
    BY <1>1
  <2>3. (m * (k + 1) + 0) % m = 0 /\ (m * 1 + 0) % m = 0
    BY <2>2, Remainder
  <2>4. QED
    BY <2>1, <2>3 DEF x
<1>4. QED
  BY <1>1, <1>2, <1>3

\* What the constants promise.
LEMMA Constants ==
    /\ Half \in Nat \ {0} /\ Modulus \in Nat \ {0} /\ Modulus = Half + Half
    /\ FirstPacket \in Nat /\ LastPacket \in Nat /\ FirstPacket <= LastPacket
    /\ LastPacket - FirstPacket < Half
    /\ InitialTarget \in Nat /\ MaxTarget \in Nat /\ 1 <= InitialTarget /\ InitialTarget <= MaxTarget
    /\ PacketsPerBlock \in Nat /\ TargetStep \in Nat /\ Grace \in Nat /\ Cooldown \in Nat
    /\ ControlCap \in Nat /\ None \notin Int
<1>1. /\ Modulus \in Nat /\ Modulus = 2 * Half /\ FirstPacket \in Nat /\ LastPacket \in Nat
      /\ FirstPacket <= LastPacket /\ LastPacket - FirstPacket < Half
  BY LinkAssumption
<1>2. Half \in Int
  BY <1>1 DEF Half
<1>3. /\ InitialTarget \in Nat /\ MaxTarget \in Nat /\ PacketsPerBlock \in Nat /\ TargetStep \in Nat
      /\ Grace \in Nat /\ Cooldown \in Nat /\ ControlCap \in Nat
      /\ 1 <= InitialTarget /\ InitialTarget <= MaxTarget /\ None \notin Int
  BY LinkAssumption
<1> HIDE DEF Half
<1>4. QED
  BY <1>1, <1>2, <1>3

\* Two packets of one session are compared by their wrapped numbers as by
\* their own, across the wrap.
LEMMA Compared ==
    ASSUME NEW a \in Packets, NEW b \in Packets
    PROVE  /\ Seq32(a) \in Sequences
           /\ Distance(Seq32(a), Seq32(b)) = IF a >= b THEN a - b ELSE Modulus + (a - b)
           /\ SequenceBefore(Seq32(a), Seq32(b)) <=> a < b
           /\ SequenceAfter(Seq32(a), Seq32(b)) <=> a > b
           /\ Seq32(a) = Seq32(b) => a = b
<1>1. a \in Int /\ b \in Int /\ a - b < Half /\ b - a < Half
  BY Constants DEF Packets
<1>2. Seq32(a) \in Sequences /\ Seq32(b) \in Sequences
  BY <1>1, Constants, DivMod DEF Seq32, Sequences
<1>3. Distance(Seq32(a), Seq32(b)) = IF a >= b THEN a - b ELSE Modulus + (a - b)
  <2>1. CASE a >= b
    <3>1. 0 <= a - b /\ a - b < Modulus /\ Modulus \in Nat \ {0}
      BY <1>1, <2>1, Constants
    <3>2. ((a % Modulus) - (b % Modulus)) % Modulus = a - b
      BY <1>1, <3>1, WrapForward
    <3>3. QED
      BY <2>1, <3>2 DEF Distance, Seq32
  <2>2. CASE a < b
    <3>1. 0 < b - a /\ b - a < Modulus /\ Modulus \in Nat \ {0}
      BY <1>1, <2>2, Constants
    <3>2. ((a % Modulus) - (b % Modulus)) % Modulus = Modulus + (a - b)
      BY <1>1, <3>1, WrapBack
    <3>3. QED
      BY <1>1, <2>2, <3>2 DEF Distance, Seq32
  <2>3. QED
    BY <1>1, <2>1, <2>2
<1>4. SequenceBefore(Seq32(a), Seq32(b)) <=> a < b
  BY <1>1, <1>3, Constants DEF SequenceBefore
<1>5. SequenceAfter(Seq32(a), Seq32(b)) <=> a > b
  BY <1>1, <1>3, Constants DEF SequenceAfter
<1>6. Seq32(a) = Seq32(b) => a = b
  <2>1. ASSUME Seq32(a) = Seq32(b) PROVE ~(a < b) /\ ~(b < a)
    <3>1. SequenceBefore(Seq32(a), Seq32(b)) <=> SequenceBefore(Seq32(b), Seq32(a))
      BY <2>1
    <3>2. Distance(Seq32(a), Seq32(b)) = 0
      <4>1. (Seq32(a) - Seq32(b)) = 0
        BY <1>2, <2>1 DEF Sequences
      <4>2. (Modulus * 0 + 0) % Modulus = 0 /\ Modulus * 0 + 0 = 0
        BY Constants, Remainder
      <4>3. QED
        BY <4>1, <4>2 DEF Distance
    <3>3. QED
      BY <1>1, <1>3, <3>2, Constants
  <2>2. QED
    BY <1>1, <2>1
<1>7. QED
  BY <1>2, <1>3, <1>4, <1>5, <1>6

\* The lesser of two numbers.
LEMMA Lesser ==
    ASSUME NEW a \in Int, NEW b \in Int
    PROVE  Min({a, b}) = IF a <= b THEN a ELSE b
<1>1. \E x \in {a, b} : \A y \in {a, b} : x <= y
  OBVIOUS
<1>2. Min({a, b}) \in {a, b} /\ \A y \in {a, b} : Min({a, b}) <= y
  BY <1>1 DEF Min
<1>3. QED
  BY <1>2
-----------------------------------------------------------------------------
(* The invariant.                                                           *)

\* The packets a jitter buffer holds, by their wrapped numbers.
Tables == UNION {[S -> Packets] : S \in SUBSET Sequences}

Buffers == [expected : Sequences \cup {None}, packets : Tables, started : BOOLEAN,
            target : InitialTarget .. MaxTarget]

SenderTyped ==
    /\ transmission \in BOOLEAN /\ playback \in BOOLEAN /\ idle \in BOOLEAN
    /\ silent_for \in (0 .. Grace) \cup {None}
    /\ sending \in 0 .. PacketsPerBlock
    /\ next \in Packets /\ next + sending <= LastPacket
    /\ announced \in Packets /\ announced <= next
    /\ control \in Seq(Packets) /\ Len(control) <= ControlCap
    /\ \A i \in DOMAIN control : control[i] <= announced

LoopTyped ==
    /\ idle_deadline \in BOOLEAN /\ audio_active \in BOOLEAN
    /\ newest \in Packets \cup {None} /\ (newest # None => newest < next)
    /\ handling \in Packets \cup {None} /\ (handling # None => handling < next)
    /\ idle_boundary \in Packets \cup {None} /\ fresh \in Packets

BufferTyped ==
    /\ jitter \in Buffers /\ IsFiniteSet(DOMAIN jitter.packets)
    /\ \A s \in DOMAIN jitter.packets : Seq32(jitter.packets[s]) = s
    /\ cooldown \in 0 .. Cooldown
    /\ lost \in Nat /\ count \in Nat /\ played \in FirstPacket - 1 .. LastPacket

\* An idle boundary is ahead of all that arrived, and was announced.
Paused ==
    /\ idle_deadline => idle_boundary # None
    /\ idle_boundary # None => /\ idle_boundary <= announced
                               /\ newest # None => newest < idle_boundary
                               /\ handling # None => handling < idle_boundary

\* A packet this new has arrived.
Reached(n) == (newest # None /\ n <= newest) \/ (handling # None /\ n <= handling)

\* The buffer j expects packet e and holds none from before it.
Holds(j, e) ==
    /\ j.expected = Seq32(e)
    /\ \A s \in DOMAIN j.packets : j.packets[s] >= e

\* All that was played or counted lost is from before e.
Past(e) == played < e /\ fresh <= e /\ lost + count <= e - FirstPacket

At(e) ==
    /\ e <= next /\ Holds(jitter, e) /\ Past(e) /\ Reached(e - 1)
    /\ \A s \in DOMAIN jitter.packets : Reached(jitter.packets[s])

\* Nothing arrived yet.
Unseen ==
    /\ DOMAIN jitter.packets = {} /\ newest = None /\ handling = None
    /\ Past(FirstPacket) /\ lost = 0 /\ count = 0

Position ==
    /\ jitter.expected = None => Unseen
    /\ jitter.expected # None => \E e \in Packets : At(e)

LinkInv ==
    /\ SenderTyped /\ LoopTyped /\ BufferTyped
    /\ Paused /\ Position /\ StreamIsHeard /\ NeverOverfull

\* What the model promises follows.
LEMMA LinkInvImplies == LinkInv => TypeOK /\ CountedOnce /\ NeverOverfull /\ StreamIsHeard
<1> SUFFICES ASSUME LinkInv PROVE TypeOK /\ CountedOnce /\ NeverOverfull /\ StreamIsHeard
  OBVIOUS
<1> USE DEF LinkInv
<1>1. \A s \in DOMAIN jitter.packets : jitter.packets[s] \in Packets
  BY DEF BufferTyped, Buffers, Tables
<1>2. /\ jitter.expected \in Sequences \cup {None} /\ jitter.started \in BOOLEAN
      /\ jitter.target \in InitialTarget .. MaxTarget
  BY DEF BufferTyped, Buffers
<1>3. TypeOK
  BY <1>1, <1>2, Zenon DEF TypeOK, SenderTyped, LoopTyped, BufferTyped
<1>4. CountedOnce
  <2>1. next \in Nat /\ FirstPacket \in Nat /\ FirstPacket <= next /\ lost \in Nat /\ count \in Nat
    BY Constants DEF SenderTyped, BufferTyped, Packets
  <2>2. CASE jitter.expected = None
    BY <2>1, <2>2 DEF Position, Unseen, CountedOnce
  <2>3. CASE jitter.expected # None
    <3>1. PICK e \in Packets : At(e)
      BY <2>3 DEF Position
    <3>2. e \in Int
      BY <3>1, Constants DEF Packets
    <3>3. QED
      BY <2>1, <3>1, <3>2 DEF At, Past, CountedOnce
  <2>4. QED
    BY <2>2, <2>3
<1>5. QED
  BY <1>3, <1>4

\* When the phone connects.
LEMMA InitLink == Init => LinkInv
<1> SUFFICES ASSUME Init PROVE LinkInv
  OBVIOUS
<1>1. FirstPacket \in Packets /\ FirstPacket \in Nat /\ LastPacket \in Nat /\ FirstPacket <= LastPacket
  BY Constants DEF Packets
<1>2. SenderTyped
  <2>1. <<>> \in Seq(Packets) /\ Len(<<>>) = 0 /\ DOMAIN <<>> = {}
    BY EmptySeq
  <2>2. control \in Seq(Packets) /\ Len(control) <= ControlCap /\ \A i \in DOMAIN control : control[i] <= announced
    <3>1. control = <<>>
      BY DEF Init
    <3>2. QED
      BY <2>1, <3>1, Constants
  <2>3. sending = 0 /\ sending \in 0 .. PacketsPerBlock /\ next = FirstPacket /\ announced = FirstPacket
    BY Constants DEF Init
  <2>4. next \in Packets /\ next + sending <= LastPacket /\ announced \in Packets /\ announced <= next
    BY <1>1, <2>3
  <2>5. transmission \in BOOLEAN /\ playback \in BOOLEAN /\ idle \in BOOLEAN /\ silent_for \in (0 .. Grace) \cup {None}
    BY DEF Init
  <2>6. QED
    BY <2>2, <2>3, <2>4, <2>5 DEF SenderTyped
<1>3. LoopTyped
  BY <1>1 DEF Init, LoopTyped
<1>4. <<>> \in Tables /\ DOMAIN <<>> = {}
  <2>1. <<>> \in [{} -> Packets] /\ DOMAIN <<>> = {}
    OBVIOUS
  <2>2. {} \in SUBSET Sequences
    OBVIOUS
  <2>3. QED
    BY <2>1, <2>2, Zenon DEF Tables
<1>5. jitter.packets = <<>> /\ jitter.target = InitialTarget /\ jitter.expected = None
  BY DEF Init
<1>6. jitter \in Buffers
  <2>1. InitialTarget \in InitialTarget .. MaxTarget
    BY Constants
  <2>2. QED
    BY <1>4, <2>1, Zenon DEF Init, Buffers
<1>7. BufferTyped
  BY <1>1, <1>4, <1>5, <1>6, Constants, FS_EmptySet DEF Init, BufferTyped
<1>8. Paused /\ StreamIsHeard
  BY DEF Init, Paused, StreamIsHeard
<1>9. Position
  BY <1>1, <1>4, <1>5 DEF Init, Position, Unseen, Past
<1>10. NeverOverfull
  <2>1. Held = 0
    BY <1>4, <1>5, FS_EmptySet DEF Held
  <2>2. QED
    BY <1>5, <2>1, Constants DEF NeverOverfull
<1>11. QED
  BY <1>2, <1>3, <1>7, <1>8, <1>9, <1>10 DEF LinkInv

-----------------------------------------------------------------------------
(* The sender.                                                              *)

\* Whatever the sender does leaves the phone's state in order.
LEMMA SenderStep ==
    ASSUME LinkInv, SenderTyped', next <= next', announced' \in {announced, next},
           UNCHANGED <<jitterVars, cooldown, loopVars, handling>>
    PROVE  LinkInv'
<1> USE DEF LinkInv
<1>1. /\ UNCHANGED <<jitter, lost, played, count, cooldown, handling>>
      /\ UNCHANGED <<newest, idle_boundary, idle_deadline, audio_active, fresh>>
  BY DEF jitterVars, loopVars
<1>2. next \in Int /\ next' \in Int /\ announced \in Int /\ announced <= next /\ Packets \subseteq Int
  BY Constants DEF SenderTyped, Packets
<1>3. LoopTyped'
  BY <1>1, <1>2 DEF LoopTyped
<1>4. BufferTyped'
  BY <1>1 DEF BufferTyped
<1>5. Paused'
  BY <1>1, <1>2 DEF Paused, LoopTyped
<1>6. Position'
  <2>1. CASE jitter.expected = None
    BY <1>1, <2>1 DEF Position, Unseen, Past
  <2>2. CASE jitter.expected # None
    <3>1. PICK e \in Packets : At(e)
      BY <2>2 DEF Position
    <3>2. e \in Int
      BY <1>2, <3>1
    <3>3. At(e)'
      BY <1>1, <1>2, <3>1, <3>2 DEF At, Holds, Past, Reached
    <3>4. QED
      BY <1>1, <2>2, <3>1, <3>3 DEF Position
  <2>3. QED
    BY <2>1, <2>2
<1>7. StreamIsHeard'
  BY <1>1, <1>2 DEF StreamIsHeard, LoopTyped
<1>8. NeverOverfull'
  BY <1>1 DEF NeverOverfull, Held
<1>9. QED
  BY <1>3, <1>4, <1>5, <1>6, <1>7, <1>8

\* The silence detector and its message.
LEMMA Updating ==
    ASSUME SenderTyped, NEW now_idle \in BOOLEAN, NEW quiet \in (0 .. Grace) \cup {None},
           Update(now_idle, quiet)
    PROVE  /\ idle' \in BOOLEAN /\ silent_for' \in (0 .. Grace) \cup {None}
           /\ announced' \in Packets /\ announced' <= next /\ announced' \in {announced, next}
           /\ control' \in Seq(Packets) /\ Len(control') <= ControlCap
           /\ \A i \in DOMAIN control' : control'[i] <= announced'
<1>1. idle' = now_idle /\ silent_for' = quiet
  BY DEF Update
<1>2. next \in Packets /\ next \in Int /\ announced \in Int /\ Packets \subseteq Int
  BY Constants DEF SenderTyped, Packets
<1>3. CASE ~(now_idle /\ ~idle)
  BY <1>1, <1>3 DEF Update, SenderTyped
<1>4. CASE now_idle /\ ~idle
  <2>1. Len(control) < ControlCap /\ control' = Append(control, next) /\ announced' = next
    BY <1>4 DEF Update
  <2>2. control \in Seq(Packets) /\ Len(control) \in Nat /\ DOMAIN control = 1 .. Len(control)
    BY LenProperties DEF SenderTyped
  <2>3. /\ control' \in Seq(Packets) /\ Len(control') = Len(control) + 1 /\ DOMAIN control' = 1 .. Len(control) + 1
        /\ \A i \in 1 .. Len(control) : control'[i] = control[i]
        /\ control'[Len(control) + 1] = next
    BY <1>2, <2>1, <2>2, AppendProperties, LenProperties
  <2>4. Len(control') <= ControlCap
    BY <2>1, <2>2, <2>3, Constants
  <2>5. ASSUME NEW i \in DOMAIN control' PROVE control'[i] <= announced'
    <3>1. CASE i = Len(control) + 1
      BY <1>2, <2>1, <2>3, <3>1
    <3>2. CASE i \in 1 .. Len(control)
      <4>1. control[i] \in Packets
        BY <2>2, <3>2, ElementOfSeq
      <4>2. control'[i] = control[i] /\ control[i] <= announced /\ announced <= next
        BY <2>2, <2>3, <3>2 DEF SenderTyped
      <4> DEFINE c == control[i]
      <4>3. c \in Int /\ c <= announced /\ announced <= next
        BY <1>2, <4>1, <4>2
      <4> HIDE DEF c
      <4>4. c <= next
        BY <1>2, <4>3
      <4>5. QED
        BY <2>1, <4>2, <4>4 DEF c
    <3>3. QED
      BY <2>2, <2>3, <3>1, <3>2
  <2>6. QED
    BY <1>1, <1>2, <2>1, <2>3, <2>4, <2>5
<1>5. QED
  BY <1>3, <1>4

\* The operator, the controller and the sender task.
LEMMA SenderLink ==
    ASSUME LinkInv,
           SetTransmission \/ SetPlayback \/ Suspended \/ SilentBlock \/ LoudBlock \/ SendPacket
    PROVE  LinkInv'
<1>1. SenderTyped
  BY DEF LinkInv
<1>2. /\ next \in Packets /\ next \in Int /\ sending \in Nat /\ next + sending <= LastPacket
      /\ Packets = FirstPacket .. LastPacket
  BY <1>1, Constants DEF SenderTyped, Packets
<1>3. CASE SetTransmission \/ SetPlayback
  <2>1. UNCHANGED <<idle, silent_for, sending, next, announced, control, jitterVars, cooldown, loopVars, handling>>
    BY <1>3 DEF SetTransmission, SetPlayback
  <2>2. transmission' \in BOOLEAN /\ playback' \in BOOLEAN
    BY <1>1, <1>3, Zenon DEF SetTransmission, SetPlayback, SenderTyped
  <2>3. SenderTyped'
    BY <1>1, <2>1, <2>2 DEF SenderTyped
  <2>4. QED
    BY <1>2, <2>1, <2>3, SenderStep
<1>4. CASE Suspended
  <2>1. Update(TRUE, None) /\ UNCHANGED <<transmission, playback, sending, next, jitterVars, cooldown, loopVars, handling>>
    BY <1>4 DEF Suspended
  <2>2. /\ idle' \in BOOLEAN /\ silent_for' \in (0 .. Grace) \cup {None}
        /\ announced' \in Packets /\ announced' <= next /\ announced' \in {announced, next}
        /\ control' \in Seq(Packets) /\ Len(control') <= ControlCap
        /\ \A i \in DOMAIN control' : control'[i] <= announced'
    BY <1>1, <2>1, Updating
  <2>3. SenderTyped'
    BY <1>1, <2>1, <2>2 DEF SenderTyped
  <2>4. QED
    BY <1>2, <2>1, <2>2, <2>3, SenderStep
<1>5. CASE SilentBlock \/ LoudBlock
  <2>1. PICK now_idle \in BOOLEAN, quiet \in (0 .. Grace) \cup {None} : Update(now_idle, quiet)
    <3>1. CASE LoudBlock
      BY <3>1 DEF LoudBlock
    <3>2. CASE SilentBlock
      <4>1. PICK passed \in 1 .. Grace :
              LET quiet == IF silent_for = None THEN 0 ELSE Min({silent_for + passed, Grace})
              IN  Update(idle \/ quiet = Grace, quiet)
        BY <3>2 DEF SilentBlock
      <4> DEFINE quiet == IF silent_for = None THEN 0 ELSE Min({silent_for + passed, Grace})
      <4>2. quiet \in 0 .. Grace
        <5>1. CASE silent_for = None
          BY <5>1, Constants
        <5>2. CASE silent_for # None
          <6>1. silent_for + passed \in Int /\ 0 <= silent_for + passed /\ Grace \in Nat
            BY <1>1, <5>2, Constants DEF SenderTyped
          <6>2. QED
            BY <5>2, <6>1, Lesser
        <5>3. QED
          BY <5>1, <5>2
      <4>3. (idle \/ quiet = Grace) \in BOOLEAN
        BY <1>1 DEF SenderTyped
      <4> HIDE DEF quiet
      <4>4. Update(idle \/ quiet = Grace, quiet)
        BY <4>1 DEF quiet
      <4>5. QED
        BY <4>2, <4>3, <4>4
    <3>3. QED
      BY <1>5, <3>1, <3>2
  <2>2. /\ UNCHANGED <<transmission, playback, next, jitterVars, cooldown, loopVars, handling>>
        /\ BlockSent
    BY <1>5 DEF SilentBlock, LoudBlock
  <2>3. /\ idle' \in BOOLEAN /\ silent_for' \in (0 .. Grace) \cup {None}
        /\ announced' \in Packets /\ announced' <= next /\ announced' \in {announced, next}
        /\ control' \in Seq(Packets) /\ Len(control') <= ControlCap
        /\ \A i \in DOMAIN control' : control'[i] <= announced'
    BY <1>1, <2>1, Updating
  <2>4. sending' \in 0 .. PacketsPerBlock /\ next + sending' <= LastPacket
    BY <1>1, <2>2, Constants DEF BlockSent, SenderTyped
  <2>5. SenderTyped'
    BY <1>1, <2>2, <2>3, <2>4 DEF SenderTyped
  <2>6. QED
    BY <1>2, <2>2, <2>3, <2>5, SenderStep
<1>6. CASE SendPacket
  <2>1. /\ UNCHANGED <<transmission, playback, idle, silent_for, announced, control, jitterVars, cooldown, loopVars, handling>>
        /\ sending > 0
        /\ (next' = next + 1 /\ sending' = sending - 1) \/ (sending' = 0 /\ next' = next)
    BY <1>6 DEF SendPacket
  <2>2. next' \in Packets /\ next' \in Int /\ next <= next' /\ next' + sending' <= LastPacket /\ sending' \in 0 .. PacketsPerBlock
    BY <1>1, <1>2, <2>1, Constants DEF SenderTyped
  <2>3. announced \in Int
    BY <1>1, <1>2, Constants DEF SenderTyped
  <2>4. SenderTyped'
    BY <1>1, <1>2, <2>1, <2>2, <2>3 DEF SenderTyped
  <2>5. QED
    BY <2>1, <2>2, <2>4, SenderStep
<1>7. QED
  BY <1>3, <1>4, <1>5, <1>6
-----------------------------------------------------------------------------
(* The jitter buffer.                                                       *)

\* Every set of numbers has a least one.
LEMMA LeastNumber ==
    ASSUME NEW T, T \subseteq Nat, T # {}
    PROVE  \E x \in T : \A y \in T : x <= y
<1>1. IsWellFoundedOn(OpToRel(<, Nat), Nat)
  BY NatLessThanWellFounded
<1>2. PICK x \in T : \A y \in T : ~(<<y, x>> \in OpToRel(<, Nat))
  BY <1>1, WFMin
<1>3. ASSUME NEW y \in T PROVE x <= y
  <2>1. x \in Nat /\ y \in Nat
    OBVIOUS
  <2>2. <<y, x>> \in OpToRel(<, Nat) <=> y < x
    BY <2>1 DEF OpToRel
  <2>3. ~(y < x)
    BY <1>2, <2>2, Zenon
  <2>4. QED
    BY <2>1, <2>3
<1>4. QED
  BY <1>3

\* The fields of a buffer.
LEMMA Fields ==
    ASSUME NEW j \in Buffers
    PROVE  /\ j.expected \in Sequences \cup {None} /\ j.packets \in Tables /\ j.started \in BOOLEAN
           /\ j.target \in Nat /\ j.target >= 1 /\ j.target <= MaxTarget
           /\ j.target \in InitialTarget .. MaxTarget
           /\ DOMAIN j.packets \subseteq Sequences
           /\ \A s \in DOMAIN j.packets : j.packets[s] \in Packets
           /\ j = [expected |-> j.expected, packets |-> j.packets, started |-> j.started, target |-> j.target]
<1>1. /\ j.expected \in Sequences \cup {None} /\ j.packets \in Tables /\ j.started \in BOOLEAN
      /\ j.target \in InitialTarget .. MaxTarget
  BY DEF Buffers
<1>2. j.target \in Nat /\ j.target >= 1 /\ j.target <= MaxTarget
  BY <1>1, Constants
<1>3. DOMAIN j.packets \subseteq Sequences /\ \A s \in DOMAIN j.packets : j.packets[s] \in Packets
  BY <1>1 DEF Tables
<1>4. j = [expected |-> j.expected, packets |-> j.packets, started |-> j.started, target |-> j.target]
  BY DEF Buffers
<1>5. QED
  BY <1>1, <1>2, <1>3, <1>4

\* A buffer with other contents.
LEMMA Changed ==
    ASSUME NEW j \in Buffers, NEW x, NEW table
    PROVE  [j EXCEPT !.expected = x, !.packets = table]
             = [expected |-> x, packets |-> table, started |-> j.started, target |-> j.target]
<1> DEFINE r == [expected |-> j.expected, packets |-> j.packets, started |-> j.started, target |-> j.target]
<1>1. j = r
  BY Fields
<1>2. [r EXCEPT !.expected = x] = [expected |-> x, packets |-> j.packets, started |-> j.started, target |-> j.target]
  OBVIOUS
<1>3. [[expected |-> x, packets |-> j.packets, started |-> j.started, target |-> j.target] EXCEPT !.packets = table]
        = [expected |-> x, packets |-> table, started |-> j.started, target |-> j.target]
  OBVIOUS
<1> HIDE DEF r
<1>4. QED
  BY <1>1, <1>2, <1>3, Zenon

\* adjust_jitter_after_stutter only makes the buffer larger.
LEMMA Adjusted ==
    ASSUME NEW j \in Buffers, NEW c \in 0 .. Cooldown, NEW stutter, Adjust(j, c, stutter)
    PROVE  /\ jitter' \in Buffers /\ jitter'.expected = j.expected /\ jitter'.packets = j.packets
           /\ jitter'.target >= j.target
           /\ cooldown' \in 0 .. Cooldown
<1>1. c \in Nat /\ c <= Cooldown /\ Cooldown \in Nat
  BY Constants
<1>2. j.target \in Nat /\ j.target <= MaxTarget
  BY Fields
<1>3. CASE jitter' = j /\ cooldown' \in {c - 1, 0} /\ (cooldown' = c - 1 => c > 0)
  BY <1>1, <1>2, <1>3
<1>4. CASE /\ j.target < MaxTarget /\ cooldown' = Cooldown
           /\ jitter' = [j EXCEPT !.started = FALSE, !.target = Min({@ + TargetStep, MaxTarget})]
  <2> DEFINE t == Min({j.target + TargetStep, MaxTarget})
  <2>1. j.target + TargetStep \in Nat /\ MaxTarget \in Nat
    BY <1>2, Constants
  <2>2. t = IF j.target + TargetStep <= MaxTarget THEN j.target + TargetStep ELSE MaxTarget
    BY <2>1, Lesser
  <2>3. t >= j.target /\ t \in InitialTarget .. MaxTarget
    <3> HIDE DEF t
    <3>1. j.target \in InitialTarget .. MaxTarget
      BY Fields
    <3>2. QED
      BY <1>2, <1>4, <2>1, <2>2, <3>1, Constants
  <2> HIDE DEF t
  <2>4. jitter' = [j EXCEPT !.started = FALSE, !.target = t]
    BY <1>4 DEF t
  <2>5. jitter' = [expected |-> j.expected, packets |-> j.packets, started |-> FALSE, target |-> t]
    BY <2>4, Fields DEF Buffers
  <2>6. jitter' \in Buffers
    BY <2>3, <2>5, Fields, Zenon DEF Buffers
  <2>7. jitter'.expected = j.expected /\ jitter'.packets = j.packets /\ jitter'.target = t
    BY <2>5
  <2>8. QED
    BY <1>1, <1>4, <2>3, <2>6, <2>7
<1>5. QED
  BY <1>1, <1>3, <1>4 DEF Adjust

\* JitterBuffer::push: what the buffer holds and expects once packet n was
\* taken or refused.
LEMMA Pushing ==
    ASSUME NEW j \in Buffers, NEW n \in Packets, NEW e \in Packets, Expecting(j, n) = Seq32(e),
           IsFiniteSet(DOMAIN j.packets),
           \A s \in DOMAIN j.packets : Seq32(j.packets[s]) = s /\ j.packets[s] >= e
    PROVE  /\ Pushed(j, n) \in Buffers /\ IsFiniteSet(DOMAIN Pushed(j, n).packets)
           /\ \A s \in DOMAIN Pushed(j, n).packets : Seq32(Pushed(j, n).packets[s]) = s
           /\ Holds(Pushed(j, n), e)
           /\ Pushed(j, n).target = j.target
           /\ \A s \in DOMAIN Pushed(j, n).packets :
                  \/ Pushed(j, n).packets[s] = n
                  \/ s \in DOMAIN j.packets /\ Pushed(j, n).packets[s] = j.packets[s]
           /\ ~Inserted(j, n) => Pushed(j, n).packets = j.packets
<1>1. Seq32(e) \in Sequences /\ Seq32(n) \in Sequences /\ n \in Int /\ e \in Int
  BY Compared, Constants DEF Packets
<1>2. TooLate(j, n) <=> n < e
  BY Compared DEF TooLate
<1> DEFINE ready == [j EXCEPT !.expected = Expecting(j, n)]
           table == [s \in DOMAIN j.packets \cup {Seq32(n)} |-> IF s = Seq32(n) THEN n ELSE j.packets[s]]
<1>3. ready = [expected |-> Seq32(e), packets |-> j.packets, started |-> j.started, target |-> j.target]
  BY Fields
<1>4. CASE ~Inserted(j, n)
  <2>1. Pushed(j, n) = ready
    BY <1>4 DEF Pushed, Inserted
  <2>2. Pushed(j, n) = [expected |-> Seq32(e), packets |-> j.packets, started |-> j.started, target |-> j.target]
    BY <1>3, <2>1
  <2>3. Pushed(j, n) \in Buffers
    BY <1>1, <2>2, Fields, Zenon DEF Buffers
  <2>4. Pushed(j, n).packets = j.packets /\ Pushed(j, n).expected = Seq32(e) /\ Pushed(j, n).target = j.target
    BY <2>2
  <2>5. QED
    BY <2>3, <2>4 DEF Holds
<1>5. CASE Inserted(j, n)
  <2>1. Pushed(j, n) = [ready EXCEPT !.packets = table]
    BY <1>3, <1>5 DEF Pushed, Inserted
  <2>2. n >= e
    BY <1>1, <1>2, <1>5 DEF Inserted
  <2>3. DOMAIN table = DOMAIN j.packets \cup {Seq32(n)}
    OBVIOUS
  <2>4. IsFiniteSet(DOMAIN table)
    BY <2>3, FS_AddElement
  <2>5. ASSUME NEW s \in DOMAIN table
        PROVE  \/ s = Seq32(n) /\ table[s] = n
               \/ s \in DOMAIN j.packets /\ table[s] = j.packets[s]
    <3>1. table[s] = IF s = Seq32(n) THEN n ELSE j.packets[s]
      BY <2>3
    <3> HIDE DEF table
    <3>2. QED
      BY <2>3, <3>1, Zenon
  <2>6. table \in Tables
    <3>1. DOMAIN table \subseteq Sequences
      BY <1>1, <2>3, Fields
    <3>2. \A s \in DOMAIN table : table[s] \in Packets
      BY <2>5, Fields
    <3>3. table = [s \in DOMAIN table |-> table[s]]
      OBVIOUS
    <3>4. table \in [DOMAIN table -> Packets]
      BY <3>2, <3>3
    <3>5. QED
      BY <3>1, <3>4 DEF Tables
  <2> HIDE DEF table
  <2>7. Pushed(j, n) = [expected |-> Seq32(e), packets |-> table, started |-> j.started, target |-> j.target]
    BY <1>3, <2>1
  <2>8. Pushed(j, n) \in Buffers
    BY <1>1, <2>6, <2>7, Fields, Zenon DEF Buffers
  <2>9. Pushed(j, n).packets = table /\ Pushed(j, n).expected = Seq32(e) /\ Pushed(j, n).target = j.target
    BY <2>7
  <2>10. QED
    BY <1>5, <2>2, <2>4, <2>5, <2>8, <2>9 DEF Holds
<1>6. QED
  BY <1>4, <1>5
-----------------------------------------------------------------------------
(* The drain.                                                               *)

\* No wrapped number is the absent value.
LEMMA Wrapped ==
    ASSUME NEW n \in Packets
    PROVE  n \in Int /\ n \in Nat /\ n # None /\ Seq32(n) # None /\ Seq32(n) \in Sequences
<1>1. n \in Int /\ n \in Nat /\ Seq32(n) \in Sequences
  BY Compared, Constants DEF Packets
<1>2. Seq32(n) \in Int
  BY <1>1, Constants DEF Sequences
<1>3. QED
  BY <1>1, <1>2, Constants

\* When a packet is missing, all that is held is ahead of it.
LEMMA AllAhead ==
    ASSUME LinkInv, NEW e \in Packets, At(e), ~Buffered
    PROVE  /\ Ahead = DOMAIN jitter.packets
           /\ \A s \in Ahead : /\ jitter.packets[s] \in Packets /\ jitter.packets[s] > e
                               /\ Seq32(jitter.packets[s]) = s
                               /\ Distance(s, jitter.expected) = jitter.packets[s] - e
<1>1. jitter \in Buffers /\ \A s \in DOMAIN jitter.packets : Seq32(jitter.packets[s]) = s
  BY DEF LinkInv, BufferTyped
<1>2. jitter.expected = Seq32(e) /\ \A s \in DOMAIN jitter.packets : jitter.packets[s] >= e
  BY DEF At, Holds
<1>3. ASSUME NEW s \in DOMAIN jitter.packets
      PROVE  /\ jitter.packets[s] \in Packets /\ jitter.packets[s] > e /\ Seq32(jitter.packets[s]) = s
             /\ Distance(s, jitter.expected) = jitter.packets[s] - e
             /\ SequenceAfter(s, jitter.expected)
  <2> DEFINE p == jitter.packets[s]
  <2>1. p \in Packets /\ Seq32(p) = s /\ p >= e
    BY <1>1, <1>2, Fields
  <2>2. p # e
    BY <1>2, <2>1 DEF Buffered
  <2> HIDE DEF p
  <2>3. p \in Int /\ e \in Int
    BY <2>1, Wrapped
  <2>4. p > e
    BY <2>1, <2>2, <2>3
  <2>5. SequenceAfter(s, jitter.expected) /\ Distance(s, jitter.expected) = p - e
    <3>1. SequenceAfter(Seq32(p), Seq32(e)) <=> p > e
      BY <2>1, Compared
    <3>2. Distance(Seq32(p), Seq32(e)) = IF p >= e THEN p - e ELSE Modulus + (p - e)
      BY <2>1, Compared
    <3>3. QED
      BY <1>2, <2>1, <2>4, <3>1, <3>2
  <2>6. QED
    BY <2>1, <2>4, <2>5 DEF p
<1>4. Ahead = DOMAIN jitter.packets
  BY <1>3, Zenon DEF Ahead
<1>5. QED
  BY <1>3, <1>4

\* next_buffered_sequence finds the oldest packet that is held.
LEMMA NearestIsOldest ==
    ASSUME LinkInv, NEW e \in Packets, At(e), ~Buffered, Ahead # {}
    PROVE  /\ Nearest \in Ahead
           /\ Missing = jitter.packets[Nearest] - e
           /\ \A t \in Ahead : jitter.packets[Nearest] <= jitter.packets[t]
<1> DEFINE d(s) == Distance(s, jitter.expected)
           T == {d(s) : s \in Ahead}
<1>1. \A s \in Ahead : /\ jitter.packets[s] \in Int /\ jitter.packets[s] > e /\ d(s) = jitter.packets[s] - e
                       /\ d(s) \in Nat
  BY AllAhead, Wrapped
<1>2. T \subseteq Nat /\ T # {}
  BY <1>1
<1>3. PICK x \in T : \A y \in T : x <= y
  <2> HIDE DEF T
  <2>1. QED
    BY <1>2, LeastNumber
<1>4. PICK s \in Ahead : x = d(s)
  BY <1>3
<1>5. \A t \in Ahead : d(s) <= d(t)
  BY <1>3, <1>4
<1>6. Nearest \in Ahead /\ \A t \in Ahead : d(Nearest) <= d(t)
  BY <1>4, <1>5 DEF Nearest
<1>7. ASSUME NEW t \in Ahead PROVE jitter.packets[Nearest] <= jitter.packets[t]
  <2> DEFINE a == jitter.packets[Nearest]
             b == jitter.packets[t]
  <2>1. a \in Int /\ b \in Int /\ a - e <= b - e /\ e \in Int
    BY <1>1, <1>6, Wrapped
  <2> HIDE DEF a, b
  <2>2. a <= b
    BY <2>1
  <2>3. QED
    BY <2>2 DEF a, b
<1>8. Missing = jitter.packets[Nearest] - e
  BY <1>1, <1>6 DEF Missing
<1>9. QED
  BY <1>6, <1>7, <1>8

\* A turn of drain_ready moves the buffer on and leaves the rest alone.
LEMMA DrainStep ==
    ASSUME LinkInv, handling # None, UNCHANGED <<senderVars, control, cooldown, loopVars, handling>>,
           BufferTyped', NEW x \in Packets, At(x)'
    PROVE  LinkInv'
<1> USE DEF LinkInv
<1>1. /\ UNCHANGED <<transmission, playback, idle, silent_for, sending, next, announced, control, handling>>
      /\ UNCHANGED <<newest, idle_boundary, idle_deadline, audio_active, fresh>>
  BY DEF senderVars, loopVars
<1>2. SenderTyped' /\ LoopTyped'
  BY <1>1 DEF SenderTyped, LoopTyped
<1>3. Paused' /\ StreamIsHeard'
  BY <1>1 DEF Paused, StreamIsHeard
<1>4. NeverOverfull'
  BY <1>1 DEF NeverOverfull
<1>5. Position'
  <2>1. (jitter.expected)' = Seq32(x)
    BY DEF At, Holds
  <2>2. Seq32(x) # None
    BY Wrapped
  <2>3. QED
    BY <2>1, <2>2 DEF Position
<1>6. QED
  BY <1>2, <1>3, <1>4, <1>5

\* While handle_packet drains, the buffer has a position.
LEMMA DrainsAt ==
    ASSUME LinkInv, handling # None
    PROVE  \E e \in Packets : At(e)
BY DEF LinkInv, Position, Unseen

\* What has arrived was sent.
LEMMA ReachedSent ==
    ASSUME LinkInv, NEW n \in Int, Reached(n)
    PROVE  n < next /\ (n >= FirstPacket => n \in Packets /\ n + 1 \in Packets)
<1>1. next \in Packets /\ next \in Int
  BY Wrapped DEF LinkInv, SenderTyped
<1>2. CASE newest # None /\ n <= newest
  <2>1. newest \in Packets /\ newest < next /\ newest \in Int
    BY <1>2, Wrapped DEF LinkInv, LoopTyped
  <2>2. QED
    BY <1>1, <1>2, <2>1, Constants DEF Packets
<1>3. CASE handling # None /\ n <= handling
  <2>1. handling \in Packets /\ handling < next /\ handling \in Int
    BY <1>3, Wrapped DEF LinkInv, LoopTyped
  <2>2. QED
    BY <1>1, <1>3, <2>1, Constants DEF Packets
<1>4. QED
  BY <1>2, <1>3 DEF Reached

\* A packet older than one that arrived counts as arrived.
LEMMA ReachedBelow ==
    ASSUME LinkInv, NEW n \in Int, NEW k \in Int, k <= n, Reached(n)
    PROVE  Reached(k)
<1>1. newest # None => newest \in Int
  BY Wrapped DEF LinkInv, LoopTyped
<1>2. handling # None => handling \in Int
  BY Wrapped DEF LinkInv, LoopTyped
<1>3. QED
  BY <1>1, <1>2 DEF Reached

\* The packet expected is there.
LEMMA DrainAudioLink ==
    ASSUME LinkInv, DrainAudio
    PROVE  LinkInv'
<1> USE DEF LinkInv
<1>1. /\ handling # None /\ jitter.expected \in DOMAIN jitter.packets
      /\ UNCHANGED <<senderVars, control, lost, cooldown, loopVars, handling>>
      /\ played' = jitter.packets[jitter.expected] /\ count' = count + 1
  BY DEF DrainAudio, Buffered
<1>2. PICK e \in Packets : At(e)
  BY <1>1, DrainsAt
<1>3. /\ jitter \in Buffers /\ IsFiniteSet(DOMAIN jitter.packets)
      /\ \A s \in DOMAIN jitter.packets : Seq32(jitter.packets[s]) = s
      /\ lost \in Nat /\ count \in Nat
  BY DEF BufferTyped
<1>4. /\ jitter.expected = Seq32(e) /\ e \in Int
      /\ \A s \in DOMAIN jitter.packets : jitter.packets[s] >= e /\ Reached(jitter.packets[s])
  BY <1>2, Wrapped DEF At, Holds
<1>5. jitter.packets[jitter.expected] = e
  BY <1>1, <1>3, <1>4, Fields, Compared
<1>6. Reached(e)
  BY <1>1, <1>4, <1>5
<1>7. e < next /\ e + 1 \in Packets /\ e >= FirstPacket
  BY <1>4, <1>6, ReachedSent DEF Packets
<1>8. Advanced = Seq32(e + 1)
  BY <1>4, WrapNext, Constants DEF Advanced, Seq32
<1> DEFINE table == [s \in DOMAIN jitter.packets \ {jitter.expected} |-> jitter.packets[s]]
<1>9. DOMAIN table = DOMAIN jitter.packets \ {jitter.expected} /\ \A s \in DOMAIN table : table[s] = jitter.packets[s]
  OBVIOUS
<1>10. table \in Tables
  <2>1. DOMAIN table \subseteq Sequences
    BY <1>3, <1>9, Fields
  <2>2. \A s \in DOMAIN table : table[s] \in Packets
    BY <1>3, <1>9, Fields
  <2>3. table = [s \in DOMAIN table |-> table[s]]
    OBVIOUS
  <2>4. table \in [DOMAIN table -> Packets]
    BY <2>2, <2>3
  <2>5. QED
    BY <2>1, <2>4 DEF Tables
<1>11. jitter' = [expected |-> Seq32(e + 1), packets |-> table, started |-> jitter.started, target |-> jitter.target]
  <2>1. jitter' = [jitter EXCEPT !.expected = Advanced, !.packets = table]
    BY DEF DrainAudio
  <2> HIDE DEF table
  <2>2. QED
    BY <1>3, <1>8, <2>1, Changed
<1> HIDE DEF table
<1>12. jitter' \in Buffers
  BY <1>3, <1>7, <1>10, <1>11, Fields, Wrapped, Zenon DEF Buffers
<1>13. (jitter.packets)' = table /\ (jitter.expected)' = Seq32(e + 1)
  BY <1>11
<1>14. ASSUME NEW s \in DOMAIN table
       PROVE  table[s] \in Packets /\ table[s] >= e + 1 /\ Seq32(table[s]) = s /\ Reached(table[s])
  <2> DEFINE p == jitter.packets[s]
  <2>1. p \in Packets /\ Seq32(p) = s /\ p >= e /\ Reached(p) /\ table[s] = p
    BY <1>3, <1>4, <1>9, Fields
  <2>2. p # e
    BY <1>4, <1>9, <2>1
  <2> HIDE DEF p
  <2>3. QED
    BY <1>4, <2>1, <2>2, Wrapped
<1>15. BufferTyped'
  <2>1. IsFiniteSet(DOMAIN table)
    BY <1>3, <1>9, FS_RemoveElement
  <2>2. (lost \in Nat)' /\ (count \in Nat)' /\ (cooldown \in 0 .. Cooldown)'
    BY <1>1, <1>3 DEF BufferTyped
  <2>3. (played \in FirstPacket - 1 .. LastPacket)'
    BY <1>1, <1>5, <1>4, Constants DEF Packets
  <2>4. QED
    BY <1>12, <1>13, <1>14, <2>1, <2>2, <2>3 DEF BufferTyped
<1>16. UNCHANGED <<next, newest, handling, fresh, lost>>
  BY <1>1 DEF senderVars, loopVars
<1>17. At(e + 1)'
  <2>1. next \in Int /\ fresh \in Int
    BY Wrapped DEF SenderTyped, LoopTyped
  <2>2. Past(e + 1)'
    <3>1. lost + count <= e - FirstPacket /\ fresh <= e /\ FirstPacket \in Int
      BY <1>2, Constants DEF At, Past
    <3>2. QED
      BY <1>1, <1>3, <1>4, <1>5, <1>16, <2>1, <3>1 DEF Past
  <2>3. Reached(e)' /\ e = (e + 1) - 1
    BY <1>4, <1>6, <1>16 DEF Reached
  <2>4. ASSUME NEW s \in DOMAIN jitter'.packets
        PROVE  \/ newest' # None /\ jitter'.packets[s] <= newest'
               \/ handling' # None /\ jitter'.packets[s] <= handling'
    <3>1. s \in DOMAIN table /\ jitter'.packets[s] = table[s]
      BY <1>13
    <3>2. Reached(table[s])
      BY <1>14, <3>1
    <3>3. QED
      BY <1>16, <3>1, <3>2 DEF Reached
  <2>5. Holds(jitter, e + 1)'
    BY <1>13, <1>14 DEF Holds
  <2>6. (e + 1 <= next)'
    BY <1>4, <1>7, <1>16, <2>1
  <2>7. QED
    BY <2>2, <2>3, <2>4, <2>5, <2>6 DEF At, Reached
<1>18. QED
  BY <1>1, <1>7, <1>15, <1>17, DrainStep
\* The buffer gives up what it waited for and goes on to packet x.
LEMMA MoveOn ==
    ASSUME LinkInv, handling # None, NEW e \in Packets, At(e), NEW x \in Packets, e <= x,
           \A s \in DOMAIN jitter.packets : jitter.packets[s] >= x,
           Reached(x - 1), jitter' = [jitter EXCEPT !.expected = Seq32(x)], lost' = lost + (x - e),
           UNCHANGED <<senderVars, control, played, count, cooldown, loopVars, handling>>
    PROVE  LinkInv'
<1>1. /\ jitter \in Buffers /\ IsFiniteSet(DOMAIN jitter.packets)
      /\ \A s \in DOMAIN jitter.packets : Seq32(jitter.packets[s]) = s
      /\ lost \in Nat /\ count \in Nat
  BY DEF LinkInv, BufferTyped
<1>2. e \in Int /\ x \in Int /\ Seq32(x) \in Sequences
  BY Wrapped
<1>3. jitter' = [expected |-> Seq32(x), packets |-> jitter.packets, started |-> jitter.started, target |-> jitter.target]
  BY <1>1, Fields
<1>4. jitter' \in Buffers
  BY <1>1, <1>2, <1>3, Fields, Zenon DEF Buffers
<1>5. (jitter.packets)' = jitter.packets /\ (jitter.expected)' = Seq32(x)
  BY <1>3
<1>6. BufferTyped'
  <2>1. lost' \in Nat /\ count' \in Nat
    BY <1>1, <1>2
  <2>2. (cooldown \in 0 .. Cooldown)' /\ (played \in FirstPacket - 1 .. LastPacket)'
    BY DEF LinkInv, BufferTyped
  <2>3. QED
    BY <1>1, <1>4, <1>5, <2>1, <2>2 DEF BufferTyped
<1>7. UNCHANGED <<next, newest, handling, fresh>>
  BY DEF senderVars, loopVars
<1>8. At(x)'
  <2>1. next \in Int /\ fresh \in Int /\ played \in Int /\ FirstPacket \in Int
    BY Wrapped, Constants DEF LinkInv, SenderTyped, LoopTyped, BufferTyped
  <2>2. Past(x)'
    <3>1. lost + count <= e - FirstPacket /\ fresh <= e /\ played < e
      BY DEF At, Past
    <3>2. QED
      BY <1>1, <1>2, <1>7, <2>1, <3>1 DEF Past
  <2>3. Reached(x - 1)'
    BY <1>7 DEF Reached
  <2>4. ASSUME NEW s \in DOMAIN jitter'.packets
        PROVE  \/ newest' # None /\ jitter'.packets[s] <= newest'
               \/ handling' # None /\ jitter'.packets[s] <= handling'
    <3>1. s \in DOMAIN jitter.packets /\ jitter'.packets[s] = jitter.packets[s]
      BY <1>5
    <3>2. Reached(jitter.packets[s])
      BY <3>1 DEF At
    <3>3. QED
      BY <1>7, <3>1, <3>2 DEF Reached
  <2>5. Holds(jitter, x)'
    BY <1>5 DEF Holds
  <2>6. (x <= next)'
    <3>1. x - 1 < next
      BY <1>2, ReachedSent
    <3>2. QED
      BY <1>2, <1>7, <2>1, <3>1
  <2>7. QED
    BY <2>2, <2>3, <2>4, <2>5, <2>6 DEF At, Reached
<1>9. QED
  BY <1>6, <1>8, DrainStep

\* The gap is too wide to be filled with silence.
LEMMA SkipGapLink ==
    ASSUME LinkInv, SkipGap
    PROVE  LinkInv'
<1>1. PICK e \in Packets : At(e)
  BY DrainsAt DEF SkipGap
<1> DEFINE x == jitter.packets[Nearest]
<1>2. /\ Nearest \in Ahead /\ Missing = x - e
      /\ \A t \in Ahead : x <= jitter.packets[t]
  BY <1>1, NearestIsOldest DEF SkipGap
<1>3. /\ Ahead = DOMAIN jitter.packets /\ x \in Packets /\ x > e /\ Seq32(x) = Nearest
      /\ \A t \in Ahead : jitter.packets[t] \in Packets
  BY <1>1, <1>2, AllAhead DEF SkipGap
<1>4. Reached(x)
  BY <1>1, <1>2, <1>3 DEF At
<1>5. /\ handling # None /\ jitter' = [jitter EXCEPT !.expected = Seq32(x)] /\ lost' = lost + (x - e)
      /\ UNCHANGED <<senderVars, control, played, count, cooldown, loopVars, handling>>
  BY <1>2, <1>3 DEF SkipGap
<1>6. ASSUME NEW s \in DOMAIN jitter.packets PROVE jitter.packets[s] >= x
  <2> DEFINE p == jitter.packets[s]
  <2>1. p \in Packets /\ x <= p
    BY <1>2, <1>3
  <2> HIDE DEF p, x
  <2>2. p >= x
    BY <1>3, <2>1, Wrapped
  <2>3. QED
    BY <2>2 DEF p
<1> HIDE DEF x
<1>7. x \in Int /\ e \in Int /\ e <= x
  BY <1>3, Wrapped
<1>8. Reached(x - 1)
  BY <1>4, <1>7, ReachedBelow
<1>9. QED
  BY <1>1, <1>3, <1>5, <1>6, <1>7, <1>8, MoveOn

\* One packet is given up and silence is written for it.
LEMMA DrainSilenceLink ==
    ASSUME LinkInv, DrainSilence
    PROVE  LinkInv'
<1>1. PICK e \in Packets : At(e)
  BY DrainsAt DEF DrainSilence
<1>2. /\ handling # None /\ jitter' = [jitter EXCEPT !.expected = Advanced] /\ lost' = lost + 1
      /\ UNCHANGED <<senderVars, control, played, count, cooldown, loopVars, handling>>
      /\ ~Buffered /\ Ahead # {}
  BY DEF DrainSilence
<1>3. /\ Ahead = DOMAIN jitter.packets
      /\ \A s \in Ahead : jitter.packets[s] \in Packets /\ jitter.packets[s] > e
  BY <1>1, <1>2, AllAhead
<1>4. PICK s \in DOMAIN jitter.packets : TRUE
  BY <1>2, <1>3
<1>5. e \in Int /\ e >= FirstPacket /\ jitter.expected = Seq32(e)
  BY <1>1, Wrapped, Constants DEF At, Holds, Packets
<1>6. Reached(e)
  <2> DEFINE p == jitter.packets[s]
  <2>1. p \in Packets /\ p > e /\ Reached(p)
    BY <1>1, <1>3, <1>4 DEF At
  <2> HIDE DEF p
  <2>2. p \in Int
    BY <2>1, Wrapped
  <2>3. QED
    BY <1>5, <2>1, <2>2, ReachedBelow
<1>7. e + 1 \in Packets
  BY <1>5, <1>6, ReachedSent
<1>8. Advanced = Seq32(e + 1)
  BY <1>5, WrapNext, Constants DEF Advanced, Seq32
<1>9. ASSUME NEW t \in DOMAIN jitter.packets PROVE jitter.packets[t] >= e + 1
  <2> DEFINE p == jitter.packets[t]
  <2>1. p \in Packets /\ p > e
    BY <1>3
  <2> HIDE DEF p
  <2>2. p >= e + 1
    BY <1>5, <2>1, Wrapped
  <2>3. QED
    BY <2>2 DEF p
<1> DEFINE x == e + 1
<1>10. x \in Packets /\ e <= x /\ x - 1 = e /\ x - e = 1
  BY <1>5, <1>7
<1> HIDE DEF x
<1>11. Reached(x - 1)
  BY <1>6, <1>10
<1>12. jitter' = [jitter EXCEPT !.expected = Seq32(x)] /\ lost' = lost + (x - e)
  BY <1>2, <1>8, <1>10 DEF x
<1>13. \A t \in DOMAIN jitter.packets : jitter.packets[t] >= x
  BY <1>9 DEF x
<1>14. QED
  BY <1>1, <1>2, <1>10, <1>11, <1>12, <1>13, MoveOn
-----------------------------------------------------------------------------
(* The receive loop.                                                        *)

\* A step of the phone's loop, which leaves the sender alone.
LEMMA LoopStep ==
    ASSUME LinkInv, UNCHANGED <<senderVars, control>>, LoopTyped', BufferTyped', Paused', Position',
           StreamIsHeard', NeverOverfull'
    PROVE  LinkInv'
<1>1. SenderTyped'
  BY DEF LinkInv, SenderTyped, senderVars
<1>2. QED
  BY <1>1 DEF LinkInv

\* The loop's bookkeeping after packet n.
LEMMA Noting ==
    ASSUME LinkInv, NEW n \in Packets, n < next, Noted(n), UNCHANGED <<next, announced>>,
           idle_boundary' # None => idle_boundary' = idle_boundary /\ n < idle_boundary
    PROVE  /\ newest' \in Packets /\ newest' < next /\ n <= newest'
           /\ newest # None => newest <= newest'
           /\ idle_boundary' # None => newest' < idle_boundary'
           /\ audio_active' \in BOOLEAN /\ StreamIsHeard'
<1>1. /\ newest' = IF newest = None \/ ~SequenceBefore(Seq32(n), Seq32(newest)) THEN n ELSE newest
      /\ audio_active' = (audio_active \/ idle_boundary' = None)
  BY DEF Noted, Activates
<1>2. newest # None => newest \in Packets /\ newest < next
  BY DEF LinkInv, LoopTyped
<1>3. idle_boundary # None => idle_boundary \in Packets /\ idle_boundary <= announced /\ (newest # None => newest < idle_boundary)
  BY DEF LinkInv, LoopTyped, Paused
<1>4. n \in Int /\ next \in Int /\ announced \in Int
  BY Wrapped DEF LinkInv, SenderTyped
<1>5. newest' \in Packets /\ newest' < next /\ n <= newest' /\ (newest # None => newest <= newest') /\ newest' \in {n, newest}
  <2>1. CASE newest = None
    BY <1>1, <1>4, <2>1
  <2>2. CASE newest # None
    <3>1. newest \in Packets /\ newest < next /\ newest \in Int
      BY <1>2, <2>2, Wrapped
    <3>2. SequenceBefore(Seq32(n), Seq32(newest)) <=> n < newest
      BY <3>1, Compared
    <3>3. newest' = IF n < newest THEN newest ELSE n
      BY <1>1, <2>2, <3>2
    <3>4. QED
      BY <1>4, <3>1, <3>3
  <2>3. QED
    BY <2>1, <2>2
<1>6. newest' \in Int /\ newest' # None
  BY <1>5, Wrapped
<1>7. idle_boundary' # None => newest' < idle_boundary' /\ idle_boundary' \in Int /\ idle_boundary' <= announced
  <2> SUFFICES ASSUME idle_boundary' # None
               PROVE  newest' < idle_boundary' /\ idle_boundary' \in Int /\ idle_boundary' <= announced
    OBVIOUS
  <2>1. idle_boundary' = idle_boundary /\ n < idle_boundary /\ idle_boundary # None
    OBVIOUS
  <2>2. idle_boundary \in Packets /\ idle_boundary \in Int
    BY <1>3, <2>1, Wrapped
  <2>3. newest' < idle_boundary
    <3>1. CASE newest' = n
      BY <2>1, <3>1
    <3>2. CASE newest' = newest
      BY <1>3, <1>6, <2>1, <3>2
    <3>3. QED
      BY <1>5, <3>1, <3>2
  <2>4. QED
    BY <1>3, <2>1, <2>2, <2>3
<1>8. audio_active' \in BOOLEAN
  BY <1>1, Zenon DEF LinkInv, LoopTyped
<1>9. StreamIsHeard'
  <2>1. CASE idle_boundary' = None
    <3>1. audio_active'
      BY <1>1, <2>1, Zenon
    <3>2. QED
      BY <3>1 DEF StreamIsHeard
  <2>2. CASE idle_boundary' # None
    <3>1. newest' < idle_boundary' /\ idle_boundary' \in Int /\ idle_boundary' <= announced
      BY <1>7, <2>2
    <3>2. ~(newest' >= announced)
      BY <1>4, <1>6, <3>1
    <3>3. QED
      BY <3>2 DEF StreamIsHeard
  <2>3. QED
    BY <2>1, <2>2
<1>10. QED
  BY <1>5, <1>7, <1>8, <1>9

\* An empty buffer holds nothing.
LEMMA EmptyBuffer ==
    ASSUME NEW j \in Buffers, NEW b \in Packets
    PROVE  /\ [j EXCEPT !.packets = <<>>, !.expected = Seq32(b), !.started = FALSE] \in Buffers
           /\ [j EXCEPT !.packets = <<>>, !.expected = Seq32(b), !.started = FALSE].expected = Seq32(b)
           /\ DOMAIN [j EXCEPT !.packets = <<>>, !.expected = Seq32(b), !.started = FALSE].packets = {}
<1> DEFINE x == j.expected
           p == j.packets
           f == j.started
           t == j.target
           r == [expected |-> Seq32(b), packets |-> <<>>, started |-> FALSE, target |-> t]
<1>1. j = [expected |-> x, packets |-> p, started |-> f, target |-> t]
  BY Fields
<1>2. t \in InitialTarget .. MaxTarget
  BY Fields
<1> HIDE DEF x, p, f, t
<1>3. [[expected |-> x, packets |-> p, started |-> f, target |-> t]
         EXCEPT !.packets = <<>>, !.expected = Seq32(b), !.started = FALSE] = r
  <2>1. [[expected |-> x, packets |-> p, started |-> f, target |-> t] EXCEPT !.packets = <<>>]
          = [expected |-> x, packets |-> <<>>, started |-> f, target |-> t]
    OBVIOUS
  <2>2. [[expected |-> x, packets |-> <<>>, started |-> f, target |-> t] EXCEPT !.expected = Seq32(b)]
          = [expected |-> Seq32(b), packets |-> <<>>, started |-> f, target |-> t]
    OBVIOUS
  <2>3. [[expected |-> Seq32(b), packets |-> <<>>, started |-> f, target |-> t] EXCEPT !.started = FALSE] = r
    <3> DEFINE off == FALSE
               s == [expected |-> Seq32(b), packets |-> <<>>, started |-> f, target |-> t]
    <3> HIDE DEF off
    <3>1. [s EXCEPT !.started = off] = [expected |-> Seq32(b), packets |-> <<>>, started |-> off, target |-> t]
      OBVIOUS
    <3>2. QED
      BY <3>1, Zenon DEF off
  <2> HIDE DEF r
  <2>4. QED
    BY <2>1, <2>2, <2>3, Zenon
<1>4. <<>> \in Tables /\ DOMAIN <<>> = {}
  <2>1. <<>> \in [{} -> Packets] /\ DOMAIN <<>> = {}
    OBVIOUS
  <2>2. {} \in SUBSET Sequences
    OBVIOUS
  <2>3. QED
    BY <2>1, <2>2, Zenon DEF Tables
<1>5. r \in Buffers
  BY <1>2, <1>4, Wrapped, Zenon DEF Buffers
<1>6. r.expected = Seq32(b) /\ r.packets = <<>>
  OBVIOUS
<1> HIDE DEF r
<1>7. [j EXCEPT !.packets = <<>>, !.expected = Seq32(b), !.started = FALSE] = r
  BY <1>1, <1>3, Zenon
<1>8. DOMAIN r.packets = {}
  BY <1>4, <1>6
<1>9. QED
  BY <1>5, <1>6, <1>7, <1>8

\* The drain ends with fewer packets held than the buffer aims at.
LEMMA HandleEndsLink ==
    ASSUME LinkInv, HandleEnds
    PROVE  LinkInv'
<1>1. PICK e \in Packets : At(e)
  BY DrainsAt DEF HandleEnds
<1>2. PICK underrun \in BOOLEAN : Adjust(jitter, cooldown, underrun)
  BY DEF HandleEnds
<1>3. /\ handling # None /\ Drained /\ handling' = None /\ Noted(handling)
      /\ UNCHANGED <<idle_boundary, idle_deadline, fresh>>
      /\ UNCHANGED <<senderVars, control, lost, played, count>>
  BY DEF HandleEnds
<1>4. UNCHANGED <<next, announced>>
  BY <1>3 DEF senderVars
<1>5. /\ jitter \in Buffers /\ IsFiniteSet(DOMAIN jitter.packets) /\ cooldown \in 0 .. Cooldown
      /\ \A s \in DOMAIN jitter.packets : Seq32(jitter.packets[s]) = s
  BY DEF LinkInv, BufferTyped
<1>6. /\ jitter' \in Buffers /\ jitter'.expected = jitter.expected /\ jitter'.packets = jitter.packets
      /\ jitter'.target >= jitter.target /\ cooldown' \in 0 .. Cooldown
  BY <1>2, <1>5, Adjusted
<1>7. handling \in Packets /\ handling < next /\ handling \in Int
  BY <1>3, Wrapped DEF LinkInv, LoopTyped
<1>8. idle_boundary' # None => idle_boundary' = idle_boundary /\ handling < idle_boundary
  BY <1>3 DEF LinkInv, Paused
<1>9. /\ newest' \in Packets /\ newest' < next /\ handling <= newest'
      /\ newest # None => newest <= newest'
      /\ idle_boundary' # None => newest' < idle_boundary'
      /\ audio_active' \in BOOLEAN /\ StreamIsHeard'
  <2> DEFINE h == handling
  <2>1. h \in Packets /\ h < next /\ Noted(h) /\ (idle_boundary' # None => idle_boundary' = idle_boundary /\ h < idle_boundary)
    BY <1>3, <1>7, <1>8
  <2> HIDE DEF h
  <2>2. /\ newest' \in Packets /\ newest' < next /\ h <= newest'
        /\ newest # None => newest <= newest'
        /\ idle_boundary' # None => newest' < idle_boundary'
        /\ audio_active' \in BOOLEAN /\ StreamIsHeard'
    BY <1>4, <2>1, Noting
  <2>3. QED
    BY <2>2 DEF h
<1>10. newest' # None /\ newest' \in Int
  BY <1>9, Wrapped
<1>11. LoopTyped'
  BY <1>3, <1>4, <1>9 DEF LinkInv, LoopTyped
<1>12. BufferTyped'
  BY <1>3, <1>5, <1>6 DEF LinkInv, BufferTyped
<1>13. Paused'
  BY <1>3, <1>4, <1>9 DEF LinkInv, Paused
<1>14. \A n \in Int : Reached(n) => n <= newest'
  <2>1. newest # None => newest \in Int
    BY Wrapped DEF LinkInv, LoopTyped
  <2>2. QED
    BY <1>7, <1>9, <1>10, <2>1 DEF Reached
<1>15. Position'
  <2>1. At(e)'
    <3>1. Holds(jitter, e)' /\ Past(e)' /\ (e <= next)'
      BY <1>1, <1>3, <1>4, <1>6 DEF At, Holds, Past
    <3>2. e - 1 \in Int /\ Reached(e - 1)
      BY <1>1, Wrapped DEF At
    <3>3. e - 1 <= newest'
      BY <1>14, <3>2
    <3>4. ASSUME NEW s \in DOMAIN jitter'.packets PROVE jitter'.packets[s] <= newest'
      <4> DEFINE p == jitter.packets[s]
      <4>1. p \in Packets /\ Reached(p) /\ jitter'.packets[s] = p
        BY <1>1, <1>5, <1>6, Fields DEF At
      <4> HIDE DEF p
      <4>2. p \in Int
        BY <4>1, Wrapped
      <4>3. QED
        BY <1>14, <4>1, <4>2
    <3>5. QED
      BY <1>10, <3>1, <3>3, <3>4 DEF At, Reached
  <2>2. jitter'.expected # None
    BY <1>1, <1>6, Wrapped DEF At, Holds
  <2>3. QED
    BY <2>1, <2>2 DEF Position
<1>16. NeverOverfull'
  <2>1. Held < jitter.target
    <3>1. CASE Ahead # {}
      BY <1>3, <3>1 DEF Drained, WaitsForGap
    <3>2. CASE Ahead = {}
      <4>1. DOMAIN jitter.packets = {}
        BY <1>1, <1>3, <3>2, AllAhead DEF Drained
      <4>2. Held = 0
        BY <4>1, FS_EmptySet DEF Held
      <4>3. QED
        BY <1>5, <4>2, Fields
    <3>3. QED
      BY <3>1, <3>2
  <2>2. Held \in Nat /\ Held' = Held
    BY <1>5, <1>6, FS_CardinalityType DEF Held
  <2>3. jitter.target \in Nat
    BY <1>5, Fields
  <2>4. jitter'.target \in Nat
    BY <1>6, Fields
  <2>5. Held' < jitter'.target
    BY <1>6, <2>1, <2>2, <2>3, <2>4
  <2>6. QED
    BY <2>5 DEF NeverOverfull
<1>17. QED
  BY <1>3, <1>9, <1>11, <1>12, <1>13, <1>15, <1>16, LoopStep
\* A buffer that starts to play holds and expects what it did.
LEMMA Starting ==
    ASSUME NEW j \in Buffers
    PROVE  /\ [j EXCEPT !.started = TRUE] \in Buffers
           /\ [j EXCEPT !.started = TRUE].expected = j.expected
           /\ [j EXCEPT !.started = TRUE].packets = j.packets
<1> DEFINE on == TRUE
<1>1. on \in BOOLEAN
  OBVIOUS
<1> HIDE DEF on
<1>2. [j EXCEPT !.started = on] = [expected |-> j.expected, packets |-> j.packets, started |-> on, target |-> j.target]
  BY Fields
<1>3. [j EXCEPT !.started = on] \in Buffers
  BY <1>1, <1>2, Fields, Zenon DEF Buffers
<1>4. [j EXCEPT !.started = on].expected = j.expected /\ [j EXCEPT !.started = on].packets = j.packets
  BY <1>2
<1>5. QED
  BY <1>3, <1>4, Zenon DEF on

\* Where the buffer stands when a datagram is pushed: at the boundary that
\* the packet reaches, at the first packet of all, or where it stood.
LEMMA PushedAt ==
    ASSUME LinkInv, NEW n \in Packets, n < next, handling = None,
           NEW crosses, crosses <=> (idle_boundary # None /\ ~SequenceBefore(Seq32(n), Seq32(idle_boundary))),
           NEW before, before = IF crosses THEN Restarted(idle_boundary) ELSE jitter,
           fresh' = IF crosses THEN idle_boundary ELSE fresh
    PROVE  /\ before \in Buffers /\ IsFiniteSet(DOMAIN before.packets)
           /\ crosses => idle_boundary \in Packets /\ idle_boundary <= n /\ before.expected = Seq32(idle_boundary)
           /\ crosses => DOMAIN before.packets = {}
           /\ (~crosses /\ idle_boundary # None) => n < idle_boundary
           /\ fresh' \in Packets
           /\ \E e \in Packets :
                /\ Expecting(before, n) = Seq32(e) /\ e <= next
                /\ played < e /\ fresh' <= e /\ lost + count <= e - FirstPacket
                /\ e - 1 <= n \/ (newest # None /\ e - 1 <= newest)
                /\ \A s \in DOMAIN before.packets :
                     /\ Seq32(before.packets[s]) = s /\ before.packets[s] >= e
                     /\ newest # None /\ before.packets[s] <= newest
<1>1. /\ jitter \in Buffers /\ IsFiniteSet(DOMAIN jitter.packets) /\ lost \in Nat /\ count \in Nat
      /\ \A s \in DOMAIN jitter.packets : Seq32(jitter.packets[s]) = s
      /\ fresh \in Packets /\ fresh \in Int /\ next \in Int /\ n \in Int /\ announced \in Int /\ announced <= next
      /\ played \in Int /\ FirstPacket \in Int
  BY Wrapped, Constants DEF LinkInv, BufferTyped, LoopTyped, SenderTyped
<1>2. newest # None => newest \in Int
  BY Wrapped DEF LinkInv, LoopTyped
<1>3. idle_boundary # None => /\ idle_boundary \in Packets /\ idle_boundary \in Int /\ idle_boundary <= announced
                              /\ newest # None => newest < idle_boundary
                              /\ SequenceBefore(Seq32(n), Seq32(idle_boundary)) <=> n < idle_boundary
  BY Wrapped, Compared DEF LinkInv, LoopTyped, Paused
<1>4. CASE crosses
  <2> DEFINE b == idle_boundary
  <2>1. /\ b # None /\ b \in Packets /\ b \in Int /\ b <= n /\ b <= next /\ fresh' = b
        /\ newest # None => newest < b
    BY <1>1, <1>3, <1>4
  <2>2. before = [jitter EXCEPT !.packets = <<>>, !.expected = Seq32(b), !.started = FALSE]
    BY <1>4 DEF Restarted
  <2>3. FirstPacket <= b
    BY <2>1, Constants DEF Packets
  <2>4. played < b /\ lost + count <= b - FirstPacket
    <3>1. CASE jitter.expected = None
      <4>1. played < FirstPacket /\ lost = 0 /\ count = 0
        BY <3>1 DEF LinkInv, Position, Unseen, Past
      <4> HIDE DEF b
      <4>2. QED
        BY <1>1, <2>1, <2>3, <4>1
    <3>2. CASE jitter.expected # None
      <4>1. PICK e \in Packets : At(e)
        BY <3>2 DEF LinkInv, Position
      <4>2. e \in Int /\ played < e /\ lost + count <= e - FirstPacket /\ newest # None /\ e - 1 <= newest
        BY <4>1, Wrapped DEF At, Past, Reached
      <4>3. newest \in Int /\ newest < b
        BY <1>2, <2>1, <4>2
      <4> HIDE DEF b
      <4>4. QED
        BY <1>1, <2>1, <4>2, <4>3
    <3>3. QED
      BY <3>1, <3>2
  <2> HIDE DEF b
  <2>5. before \in Buffers /\ before.expected = Seq32(b) /\ DOMAIN before.packets = {}
    <3> DEFINE r == [jitter EXCEPT !.packets = <<>>, !.expected = Seq32(b), !.started = FALSE]
    <3>1. r \in Buffers /\ r.expected = Seq32(b) /\ DOMAIN r.packets = {}
      BY <1>1, <2>1, EmptyBuffer, Zenon
    <3> HIDE DEF r
    <3>2. before = r
      BY <2>2, Zenon DEF r
    <3>3. QED
      BY <3>1, <3>2, Zenon
  <2>6. Expecting(before, n) = Seq32(b)
    BY <2>1, <2>5, Wrapped DEF Expecting
  <2>7. IsFiniteSet(DOMAIN before.packets)
    BY <2>5, FS_EmptySet
  <2>8. b - 1 <= n
    BY <1>1, <2>1
  <2>9. \E e \in Packets :
                /\ Expecting(before, n) = Seq32(e) /\ e <= next
                /\ played < e /\ fresh' <= e /\ lost + count <= e - FirstPacket
                /\ e - 1 <= n \/ (newest # None /\ e - 1 <= newest)
                /\ \A s \in DOMAIN before.packets :
                     /\ Seq32(before.packets[s]) = s /\ before.packets[s] >= e
                     /\ newest # None /\ before.packets[s] <= newest
    <3>1. fresh' <= b
      BY <2>1
    <3>2. b \in Packets
      BY <2>1
    <3> WITNESS b \in Packets
    <3>3. QED
      BY <2>1, <2>4, <2>5, <2>6, <2>8, <3>1
  <2>10. QED
    BY <1>4, <2>1, <2>5, <2>7, <2>9 DEF b
<1>5. CASE ~crosses
  <2>1. before = jitter /\ fresh' = fresh
    BY <1>5
  <2>2. idle_boundary # None => n < idle_boundary
    BY <1>3, <1>5
  <2>3. \E e \in Packets :
                /\ Expecting(jitter, n) = Seq32(e) /\ e <= next
                /\ played < e /\ fresh <= e /\ lost + count <= e - FirstPacket
                /\ e - 1 <= n \/ (newest # None /\ e - 1 <= newest)
                /\ \A s \in DOMAIN jitter.packets :
                     /\ Seq32(jitter.packets[s]) = s /\ jitter.packets[s] >= e
                     /\ newest # None /\ jitter.packets[s] <= newest
    <3>1. CASE jitter.expected = None
      <4>1. played < FirstPacket /\ fresh <= FirstPacket /\ lost = 0 /\ count = 0 /\ DOMAIN jitter.packets = {}
        BY <3>1 DEF LinkInv, Position, Unseen, Past
      <4>2. Expecting(jitter, n) = Seq32(n)
        BY <3>1 DEF Expecting
      <4>3. FirstPacket <= n
        BY Constants DEF Packets
      <4>4. n <= next /\ played < n /\ fresh <= n /\ lost + count <= n - FirstPacket /\ n - 1 <= n
        BY <1>1, <4>1, <4>3
      <4>5. WITNESS n \in Packets
      <4>6. QED
        BY <4>1, <4>2, <4>4
    <3>2. CASE jitter.expected # None
      <4>1. PICK e \in Packets : At(e)
        BY <3>2 DEF LinkInv, Position
      <4>2. Expecting(jitter, n) = Seq32(e)
        BY <3>2, <4>1 DEF Expecting, At, Holds
      <4>3. played < e /\ fresh <= e /\ lost + count <= e - FirstPacket /\ e <= next
        BY <4>1 DEF At, Past
      <4>4. newest # None /\ e - 1 <= newest
        BY <4>1 DEF At, Reached
      <4>5. \A s \in DOMAIN jitter.packets :
                     /\ Seq32(jitter.packets[s]) = s /\ jitter.packets[s] >= e
                     /\ newest # None /\ jitter.packets[s] <= newest
        BY <1>1, <4>1 DEF At, Holds, Reached
      <4>6. WITNESS e \in Packets
      <4>7. QED
        BY <4>2, <4>3, <4>4, <4>5
    <3>3. QED
      BY <3>1, <3>2
  <2>4. QED
    BY <1>1, <1>5, <2>1, <2>2, <2>3
<1>6. QED
  BY <1>4, <1>5

\* A datagram arrives.
LEMMA ReceiveLink ==
    ASSUME LinkInv, NEW n \in Packets, n < next, Receive(n)
    PROVE  LinkInv'
<1> DEFINE crosses == idle_boundary # None /\ ~SequenceBefore(Seq32(n), Seq32(idle_boundary))
           before == IF crosses THEN Restarted(idle_boundary) ELSE jitter
           after == Pushed(before, n)
           wait == IF crosses THEN Cooldown ELSE cooldown
           drains == Inserted(before, n) /\ MayDrain(after)
<1>1. /\ handling = None
      /\ UNCHANGED <<senderVars, control, lost, played, count>>
  BY DEF Receive
<1>2. IF crosses
      THEN fresh' = idle_boundary /\ idle_boundary' = None /\ idle_deadline' = FALSE
      ELSE UNCHANGED <<fresh, idle_boundary, idle_deadline>>
  BY DEF Receive
<1>3. IF drains
      THEN /\ handling' = n /\ jitter' = [after EXCEPT !.started = TRUE] /\ cooldown' = wait
           /\ UNCHANGED <<newest, audio_active>>
      ELSE /\ \E underrun \in BOOLEAN : Adjust(after, wait, (~crosses /\ underrun) \/ TooLate(before, n))
           /\ Noted(n) /\ UNCHANGED handling
  BY DEF Receive
<1>4. UNCHANGED <<next, announced>>
  BY <1>1 DEF senderVars
<1>5. wait \in 0 .. Cooldown
  BY Constants DEF LinkInv, BufferTyped
<1>6. /\ before \in Buffers /\ IsFiniteSet(DOMAIN before.packets)
      /\ crosses => idle_boundary \in Packets /\ idle_boundary <= n /\ before.expected = Seq32(idle_boundary)
      /\ crosses => DOMAIN before.packets = {}
      /\ (~crosses /\ idle_boundary # None) => n < idle_boundary
      /\ fresh' \in Packets
      /\ \E e \in Packets :
                /\ Expecting(before, n) = Seq32(e) /\ e <= next
                /\ played < e /\ fresh' <= e /\ lost + count <= e - FirstPacket
                /\ e - 1 <= n \/ (newest # None /\ e - 1 <= newest)
                /\ \A s \in DOMAIN before.packets :
                     /\ Seq32(before.packets[s]) = s /\ before.packets[s] >= e
                     /\ newest # None /\ before.packets[s] <= newest
  <2> DEFINE c == crosses
             b == before
  <2>1. c <=> (idle_boundary # None /\ ~SequenceBefore(Seq32(n), Seq32(idle_boundary)))
    OBVIOUS
  <2>2. b = IF c THEN Restarted(idle_boundary) ELSE jitter
    OBVIOUS
  <2>3. fresh' = IF c THEN idle_boundary ELSE fresh
    BY <1>2
  <2> HIDE DEF crosses, before, c, b
  <2>4. /\ b \in Buffers /\ IsFiniteSet(DOMAIN b.packets)
        /\ c => idle_boundary \in Packets /\ idle_boundary <= n /\ b.expected = Seq32(idle_boundary)
        /\ c => DOMAIN b.packets = {}
        /\ (~c /\ idle_boundary # None) => n < idle_boundary
        /\ fresh' \in Packets
        /\ \E e \in Packets :
                /\ Expecting(b, n) = Seq32(e) /\ e <= next
                /\ played < e /\ fresh' <= e /\ lost + count <= e - FirstPacket
                /\ e - 1 <= n \/ (newest # None /\ e - 1 <= newest)
                /\ \A s \in DOMAIN b.packets :
                     /\ Seq32(b.packets[s]) = s /\ b.packets[s] >= e
                     /\ newest # None /\ b.packets[s] <= newest
    BY <1>1, <2>1, <2>2, <2>3, PushedAt
  <2>5. QED
    BY <2>4 DEF c, b
<1>7. ~crosses => before = jitter
  OBVIOUS
<1> HIDE DEF crosses, before, wait
<1>8. PICK e \in Packets :
                /\ Expecting(before, n) = Seq32(e) /\ e <= next
                /\ played < e /\ fresh' <= e /\ lost + count <= e - FirstPacket
                /\ e - 1 <= n \/ (newest # None /\ e - 1 <= newest)
                /\ \A s \in DOMAIN before.packets :
                     /\ Seq32(before.packets[s]) = s /\ before.packets[s] >= e
                     /\ newest # None /\ before.packets[s] <= newest
  BY <1>6
<1>9. /\ after \in Buffers /\ IsFiniteSet(DOMAIN after.packets)
      /\ \A s \in DOMAIN after.packets : Seq32(after.packets[s]) = s
      /\ Holds(after, e) /\ after.target = before.target
      /\ \A s \in DOMAIN after.packets :
             \/ after.packets[s] = n
             \/ s \in DOMAIN before.packets /\ after.packets[s] = before.packets[s]
      /\ ~Inserted(before, n) => after.packets = before.packets
  BY <1>6, <1>8, Pushing
<1> HIDE DEF after
<1>10. \A s \in DOMAIN after.packets : after.packets[s] = n \/ (newest # None /\ after.packets[s] <= newest)
  BY <1>8, <1>9
<1>11. n \in Int /\ n # None /\ e \in Int /\ next \in Int
  BY Wrapped DEF LinkInv, SenderTyped
<1>12. newest \in Packets \cup {None} /\ (newest # None => newest \in Int /\ newest < next)
  BY Wrapped DEF LinkInv, LoopTyped
<1>13. idle_boundary' # None => idle_boundary' = idle_boundary /\ n < idle_boundary /\ ~crosses
  BY <1>2, <1>6
<1>14. idle_boundary' \in Packets \cup {None} /\ idle_deadline' \in BOOLEAN /\ (idle_deadline' => idle_boundary' # None)
  <2>1. CASE crosses
    BY <1>2, <2>1
  <2>2. CASE ~crosses
    BY <1>2, <2>2 DEF LinkInv, LoopTyped, Paused
  <2>3. QED
    BY <2>1, <2>2
<1>15. /\ jitter' \in Buffers /\ jitter'.packets = after.packets /\ jitter'.expected = after.expected
       /\ cooldown' \in 0 .. Cooldown
       /\ ~drains => jitter'.target >= after.target
  <2>1. CASE drains
    BY <1>3, <1>5, <1>9, <2>1, Starting
  <2>2. CASE ~drains
    <3>1. PICK underrun \in BOOLEAN : Adjust(after, wait, (~crosses /\ underrun) \/ TooLate(before, n))
      BY <1>3, <2>2
    <3> DEFINE stutter == (~crosses /\ underrun) \/ TooLate(before, n)
    <3> HIDE DEF stutter
    <3>2. Adjust(after, wait, stutter)
      BY <3>1 DEF stutter
    <3>3. QED
      BY <1>5, <1>9, <3>2, Adjusted
  <2>3. QED
    BY <2>1, <2>2
<1>16. BufferTyped'
  BY <1>1, <1>9, <1>15 DEF LinkInv, BufferTyped
<1>17. Holds(jitter, e)'
  BY <1>9, <1>15 DEF Holds
<1>18. Past(e)'
  BY <1>1, <1>8 DEF Past
<1>19. jitter'.expected # None
  BY <1>9, <1>15, Wrapped DEF Holds
<1>20. CASE drains
  <2>1. handling' = n /\ UNCHANGED <<newest, audio_active>>
    BY <1>3, <1>20
  <2>2. LoopTyped'
    BY <1>4, <1>6, <1>14, <2>1 DEF LinkInv, LoopTyped
  <2>3. Paused'
    BY <1>4, <1>13, <1>14, <2>1 DEF LinkInv, Paused
  <2>4. StreamIsHeard'
    BY <1>4, <2>1 DEF LinkInv, StreamIsHeard
  <2>5. NeverOverfull'
    BY <1>11, <2>1 DEF NeverOverfull
  <2>6. At(e)'
    <3>1. Reached(e - 1)'
      BY <1>8, <1>11, <2>1 DEF Reached
    <3>2. ASSUME NEW s \in DOMAIN jitter'.packets
          PROVE  \/ newest' # None /\ jitter'.packets[s] <= newest'
                 \/ handling' # None /\ jitter'.packets[s] <= handling'
      <4>1. after.packets[s] = n \/ (newest # None /\ after.packets[s] <= newest)
        BY <1>10, <1>15
      <4>2. jitter'.packets[s] = after.packets[s]
        BY <1>15
      <4>3. n <= n
        BY <1>11
      <4>4. QED
        BY <1>11, <2>1, <4>1, <4>2, <4>3
    <3>3. (e <= next)'
      BY <1>4, <1>8
    <3>4. QED
      BY <1>17, <1>18, <3>1, <3>2, <3>3 DEF At, Reached
  <2>7. Position'
    BY <1>19, <2>6 DEF Position
  <2>8. QED
    BY <1>1, <1>16, <2>2, <2>3, <2>4, <2>5, <2>7, LoopStep
<1>21. CASE ~drains
  <2>1. Noted(n) /\ handling' = None
    BY <1>1, <1>3, <1>21
  <2>2. /\ newest' \in Packets /\ newest' < next /\ n <= newest'
        /\ newest # None => newest <= newest'
        /\ idle_boundary' # None => newest' < idle_boundary'
        /\ audio_active' \in BOOLEAN /\ StreamIsHeard'
    BY <1>4, <1>13, <2>1, Noting
  <2>3. newest' # None /\ newest' \in Int
    BY <2>2, Wrapped
  <2>4. LoopTyped'
    BY <1>4, <1>6, <1>14, <2>1, <2>2 DEF LinkInv, LoopTyped
  <2>5. Paused'
    BY <1>4, <1>13, <1>14, <2>1, <2>2 DEF LinkInv, Paused
  <2>6. At(e)'
    <3>1. e - 1 <= newest'
      BY <1>8, <1>11, <1>12, <2>2, <2>3
    <3>2. ASSUME NEW s \in DOMAIN jitter'.packets PROVE jitter'.packets[s] <= newest'
      <4> DEFINE p == after.packets[s]
      <4>1. p = n \/ (newest # None /\ p <= newest)
        BY <1>10, <1>15
      <4>2. jitter'.packets[s] = p /\ p \in Packets
        BY <1>9, <1>15, Fields
      <4> HIDE DEF p
      <4>3. p \in Int
        BY <4>2, Wrapped
      <4>4. QED
        BY <1>11, <1>12, <2>2, <2>3, <4>1, <4>2, <4>3
    <3>3. (e <= next)'
      BY <1>4, <1>8
    <3>4. QED
      BY <1>17, <1>18, <2>3, <3>1, <3>2, <3>3 DEF At, Reached
  <2>7. Position'
    BY <1>19, <2>6 DEF Position
  <2>8. NeverOverfull'
    <3>1. Held' = Cardinality(DOMAIN after.packets) /\ Cardinality(DOMAIN after.packets) \in Nat
      BY <1>9, <1>15, FS_CardinalityType DEF Held
    <3>2. Cardinality(DOMAIN after.packets) < after.target
      <4>1. after.target \in Nat /\ after.target >= 1 /\ after.target = before.target
        BY <1>9, Fields
      <4>2. CASE Inserted(before, n)
        BY <1>21, <3>1, <4>1, <4>2 DEF MayDrain
      <4>3. CASE ~Inserted(before, n)
        <5>1. after.packets = before.packets
          BY <1>9, <4>3
        <5>2. CASE crosses
          <6>1. Cardinality(DOMAIN after.packets) = 0
            BY <1>6, <5>1, <5>2, FS_EmptySet
          <6>2. QED
            BY <4>1, <6>1
        <5>3. CASE ~crosses
          BY <1>1, <1>7, <4>1, <5>1, <5>3 DEF LinkInv, NeverOverfull, Held
        <5>4. QED
          BY <5>2, <5>3
      <4>4. QED
        BY <4>2, <4>3
    <3>3. after.target \in Nat /\ jitter'.target \in Nat
      BY <1>9, <1>15, Fields
    <3>4. Held' < jitter'.target
      BY <1>15, <1>21, <3>1, <3>2, <3>3
    <3>5. QED
      BY <3>4 DEF NeverOverfull
  <2>9. QED
    BY <1>1, <1>16, <2>2, <2>4, <2>5, <2>7, <2>8, LoopStep
<1>22. QED
  BY <1>20, <1>21
\* The phone's timer and the control stream leave the buffer alone.
LEMMA QuietStep ==
    ASSUME LinkInv, SenderTyped', UNCHANGED <<senderVars, jitterVars, cooldown, newest, fresh, handling>>,
           idle_boundary' \in Packets \cup {None}, idle_deadline' \in BOOLEAN, audio_active' \in BOOLEAN,
           Paused', StreamIsHeard'
    PROVE  LinkInv'
<1>1. UNCHANGED <<next, announced, jitter, lost, played, count, cooldown, newest, fresh, handling>>
  BY DEF senderVars, jitterVars
<1>2. LoopTyped' /\ BufferTyped'
  BY <1>1 DEF LinkInv, LoopTyped, BufferTyped
<1>3. Position'
  <2>1. CASE jitter.expected = None
    BY <1>1, <2>1 DEF LinkInv, Position, Unseen, Past
  <2>2. CASE jitter.expected # None
    <3>1. PICK e \in Packets : At(e)
      BY <2>2 DEF LinkInv, Position
    <3>2. At(e)'
      BY <1>1, <3>1 DEF At, Holds, Past, Reached
    <3>3. QED
      BY <1>1, <2>2, <3>1, <3>2 DEF Position
  <2>3. QED
    BY <2>1, <2>2
<1>4. NeverOverfull'
  BY <1>1 DEF LinkInv, NeverOverfull, Held
<1>5. QED
  BY <1>2, <1>3, <1>4 DEF LinkInv

\* An AudioIdle message is taken from the control stream.
LEMMA AudioIdleLink ==
    ASSUME LinkInv, AudioIdle
    PROVE  LinkInv'
<1>1. /\ handling = None /\ control # <<>> /\ control' = Tail(control)
      /\ UNCHANGED <<senderVars, jitterVars, cooldown, newest, audio_active, fresh, handling>>
      /\ IF StillAhead(Head(control))
         THEN idle_boundary' = Head(control) /\ idle_deadline' = TRUE
         ELSE UNCHANGED <<idle_boundary, idle_deadline>>
  BY DEF AudioIdle
<1>2. UNCHANGED <<transmission, playback, idle, silent_for, sending, next, announced>>
  BY <1>1 DEF senderVars
<1>3. /\ control \in Seq(Packets) /\ Len(control) \in Nat /\ DOMAIN control = 1 .. Len(control)
      /\ Len(control) <= ControlCap /\ ControlCap \in Nat /\ Len(control) # 0
      /\ \A i \in 1 .. Len(control) : control[i] <= announced
  BY <1>1, LenProperties, EmptySeq, Constants DEF LinkInv, SenderTyped
<1>4. Head(control) \in Packets /\ Head(control) <= announced
  BY <1>1, <1>3, HeadTailProperties
<1>5. SenderTyped'
  <2>1. /\ control' \in Seq(Packets) /\ Len(control') = Len(control) - 1
        /\ \A i \in 1 .. Len(control') : control'[i] = control[i + 1]
    BY <1>1, <1>3, HeadTailProperties
  <2>2. DOMAIN control' = 1 .. Len(control')
    BY <2>1, LenProperties
  <2>3. \A i \in DOMAIN control' : control'[i] <= announced
    BY <1>3, <2>1, <2>2
  <2>4. Len(control') <= ControlCap
    BY <1>3, <2>1
  <2>5. QED
    BY <1>2, <2>1, <2>3, <2>4 DEF LinkInv, SenderTyped
<1>6. audio_active' \in BOOLEAN /\ StreamIsHeard'
  BY <1>1, <1>2 DEF LinkInv, LoopTyped, StreamIsHeard
<1>7. CASE StillAhead(Head(control))
  <2> DEFINE b == Head(control)
  <2>1. b \in Packets /\ b <= announced /\ idle_boundary' = b /\ idle_deadline' = TRUE
    BY <1>1, <1>4, <1>7
  <2>2. newest = None \/ SequenceBefore(Seq32(newest), Seq32(b))
    BY <1>7 DEF StillAhead
  <2> HIDE DEF b
  <2>3. newest # None => newest < b
    <3>1. newest # None => newest \in Packets
      BY DEF LinkInv, LoopTyped
    <3>2. QED
      BY <2>1, <2>2, <3>1, Compared
  <2>4. b # None
    BY <2>1, Wrapped
  <2>5. Paused'
    BY <1>1, <1>2, <2>1, <2>3, <2>4 DEF Paused
  <2>6. QED
    BY <1>1, <1>5, <1>6, <2>1, <2>5, QuietStep
<1>8. CASE ~StillAhead(Head(control))
  <2>1. UNCHANGED <<idle_boundary, idle_deadline>>
    BY <1>1, <1>8
  <2>2. Paused'
    BY <1>1, <1>2, <2>1 DEF LinkInv, Paused
  <2>3. idle_boundary' \in Packets \cup {None} /\ idle_deadline' \in BOOLEAN
    BY <2>1 DEF LinkInv, LoopTyped
  <2>4. QED
    BY <1>1, <1>5, <1>6, <2>2, <2>3, QuietStep
<1>9. QED
  BY <1>7, <1>8

\* The 150 ms are over.
LEMMA IdleDeadlineLink ==
    ASSUME LinkInv, IdleDeadline
    PROVE  LinkInv'
<1>1. /\ handling = None /\ idle_deadline /\ idle_deadline' = FALSE /\ audio_active' = FALSE
      /\ UNCHANGED <<senderVars, control, jitterVars, cooldown, newest, idle_boundary, fresh, handling>>
  BY DEF IdleDeadline
<1>2. UNCHANGED <<transmission, playback, idle, silent_for, sending, next, announced>>
  BY <1>1 DEF senderVars
<1>3. SenderTyped'
  BY <1>1, <1>2 DEF LinkInv, SenderTyped
<1>4. Paused'
  BY <1>1, <1>2 DEF LinkInv, Paused
<1>5. StreamIsHeard'
  <2>1. idle_boundary # None /\ idle_boundary <= announced /\ (newest # None => newest < idle_boundary)
    BY <1>1 DEF LinkInv, Paused
  <2>2. idle_boundary \in Int /\ announced \in Int
    BY <2>1, Wrapped DEF LinkInv, LoopTyped, SenderTyped
  <2>3. newest # None => newest \in Int
    BY Wrapped DEF LinkInv, LoopTyped
  <2>4. ~(newest # None /\ newest >= announced)
    BY <2>1, <2>2, <2>3
  <2>5. QED
    BY <1>1, <1>2, <2>4 DEF StreamIsHeard
<1>6. idle_boundary' \in Packets \cup {None} /\ idle_deadline' \in BOOLEAN /\ audio_active' \in BOOLEAN
  BY <1>1 DEF LinkInv, LoopTyped
<1>7. QED
  BY <1>1, <1>3, <1>4, <1>5, <1>6, QuietStep

-----------------------------------------------------------------------------
(* The theorems.                                                            *)

\* Every step of the sender, the network and the phone keeps the invariant.
LEMMA LinkNext == LinkInv /\ [Next]_vars => LinkInv'
<1> SUFFICES ASSUME LinkInv, [Next]_vars PROVE LinkInv'
  OBVIOUS
<1>1. CASE SetTransmission \/ SetPlayback \/ Suspended \/ SilentBlock \/ LoudBlock \/ SendPacket
  BY <1>1, SenderLink
<1>2. CASE \E n \in FirstPacket .. LastPacket - 1 : n < next /\ Receive(n)
  <2>1. PICK n \in FirstPacket .. LastPacket - 1 : n < next /\ Receive(n)
    BY <1>2
  <2>2. n \in Packets
    BY Constants DEF Packets
  <2>3. QED
    BY <2>1, <2>2, ReceiveLink
<1>3. CASE DrainAudio
  BY <1>3, DrainAudioLink
<1>4. CASE SkipGap
  BY <1>4, SkipGapLink
<1>5. CASE DrainSilence
  BY <1>5, DrainSilenceLink
<1>6. CASE HandleEnds
  BY <1>6, HandleEndsLink
<1>7. CASE AudioIdle
  BY <1>7, AudioIdleLink
<1>8. CASE IdleDeadline
  BY <1>8, IdleDeadlineLink
<1>9. CASE UNCHANGED vars
  <2>1. UNCHANGED <<senderVars, control, jitterVars, cooldown, loopVars, handling>>
    BY <1>9 DEF vars
  <2>2. SenderTyped' /\ next <= next' /\ announced' \in {announced, next}
    BY <2>1, Wrapped DEF LinkInv, SenderTyped, senderVars
  <2>3. QED
    BY <2>1, <2>2, SenderStep
<1>10. QED
  BY <1>1, <1>2, <1>3, <1>4, <1>5, <1>6, <1>7, <1>8, <1>9 DEF Next

\* The invariant holds throughout.
LEMMA LinkAlways == Spec => []LinkInv
BY InitLink, LinkNext, PTL DEF Spec

\* Every variable of the sender task, the receive loop and the jitter buffer
\* keeps its range, whatever the datagrams do.
THEOREM Typing == Spec => []TypeOK
<1>1. LinkInv => TypeOK
  BY LinkInvImplies
<1>2. QED
  BY LinkAlways, <1>1, PTL

\* JitterBuffer.lost_packets and the packets played never exceed what was
\* sent: no packet is counted twice, or counted and then played.
THEOREM CountedOnceHolds == Spec => []CountedOnce
<1>1. LinkInv => CountedOnce
  BY LinkInvImplies
<1>2. QED
  BY LinkAlways, <1>1, PTL

\* handle_packet leaves the jitter buffer with fewer than target_packets.
THEOREM NeverOverfullHolds == Spec => []NeverOverfull
<1>1. LinkInv => NeverOverfull
  BY LinkInvImplies
<1>2. QED
  BY LinkAlways, <1>1, PTL

\* The receive loop never takes a stream that runs for a pause: neither an
\* overtaken AudioIdle nor an old timer silences it.
THEOREM StreamIsHeardHolds == Spec => []StreamIsHeard
<1>1. LinkInv => StreamIsHeard
  BY LinkInvImplies
<1>2. QED
  BY LinkAlways, <1>1, PTL

\* A step that writes a packet to the ring writes a newer one than before,
\* and none from before the boundary of the last resume.
LEMMA PlaysForward ==
    ASSUME LinkInv, [Next]_vars
    PROVE  [played' # played => played' > played /\ played' >= fresh]_vars
<1> SUFFICES ASSUME played' # played PROVE played' > played /\ played' >= fresh
  OBVIOUS
<1>1. DrainAudio
  <2>1. ASSUME UNCHANGED jitterVars PROVE FALSE
    BY <2>1 DEF jitterVars
  <2>2. ~(SetTransmission \/ SetPlayback \/ Suspended \/ SilentBlock \/ LoudBlock \/ SendPacket)
    BY <2>1 DEF SetTransmission, SetPlayback, Suspended, SilentBlock, LoudBlock, SendPacket
  <2>3. ~(SkipGap \/ DrainSilence \/ HandleEnds \/ UNCHANGED vars)
    BY DEF SkipGap, DrainSilence, HandleEnds, vars, jitterVars
  <2>4. ~(AudioIdle \/ IdleDeadline)
    BY <2>1 DEF AudioIdle, IdleDeadline
  <2>5. \A n : ~Receive(n)
    BY DEF Receive
  <2>6. QED
    BY <2>2, <2>3, <2>4, <2>5 DEF Next
<1>2. /\ handling # None /\ jitter.expected \in DOMAIN jitter.packets
      /\ played' = jitter.packets[jitter.expected]
  BY <1>1 DEF DrainAudio, Buffered
<1>3. PICK e \in Packets : At(e)
  BY <1>2, DrainsAt
<1>4. jitter.expected = Seq32(e) /\ played < e /\ fresh <= e
  BY <1>3 DEF At, Holds, Past
<1>5. jitter \in Buffers /\ \A s \in DOMAIN jitter.packets : Seq32(jitter.packets[s]) = s
  BY DEF LinkInv, BufferTyped
<1>6. played' = e
  BY <1>2, <1>4, <1>5, Fields, Compared
<1>7. e \in Int /\ played \in Int /\ fresh \in Int
  BY Wrapped, Constants DEF LinkInv, BufferTyped, LoopTyped
<1>8. QED
  BY <1>4, <1>6, <1>7

\* What reaches the ring is in the order it was captured, each packet at most
\* once and nothing from before a pause, across the wrap of the sequence
\* number (JitterBuffer::push, drain_ready and ReceiverPipeline::resume).
THEOREM InOrderHolds == Spec => InOrder
<1>1. LinkInv /\ [Next]_vars => [played' # played => played' > played /\ played' >= fresh]_vars
  BY PlaysForward
<1>2. QED
  BY LinkAlways, <1>1, PTL DEF Spec, InOrder
=============================================================================
