------------------------- MODULE CalibrationProofs -------------------------
(***************************************************************************)
(* For any list of phones, levels, faults and commands of the operator: a   *)
(* measuring run restores every phone it began, or names it, and the result *)
(* of a cancelled run is dropped.                                           *)
(***************************************************************************)
EXTENDS Calibration, TLAPS, SequenceTheorems, WellFoundedInduction

-----------------------------------------------------------------------------
(* Numbers and the list of phones.                                          *)

\* A set of numbers that is not empty has a least one.
LEMMA Least == ASSUME NEW T \in SUBSET Nat, T # {} PROVE \E x \in T : \A y \in T : x <= y
<1>1. \E x \in T : \A y \in T : ~(<<y, x>> \in OpToRel(<, Nat))
  BY NatLessThanWellFounded, WFMin
<1>2. \A x, y \in Nat : y < x => <<y, x>> \in OpToRel(<, Nat)
  BY Zenon DEF OpToRel
<1>3. \A x, y \in Nat : ~(y < x) => x <= y
  OBVIOUS
<1>4. QED
  BY <1>1, <1>2, <1>3, Zenon

\* The row and the column of the k-th cell of a table of L rows and M columns.
LEMMA Cell ==
    ASSUME NEW L \in Nat, NEW M \in Nat, M > 0, NEW k \in Nat, k < L * M
    PROVE  k \div M \in 0 .. L - 1 /\ k % M \in 0 .. M - 1
<1>1. k % M \in 0 .. M - 1
  OBVIOUS
<1>2. PICK q \in Int : q = k \div M
  OBVIOUS
<1>3. k = M * q + (k % M)
  BY <1>2
<1>4. q >= 0
  BY <1>1, <1>3
<1>5. q < L
  <2>1. SUFFICES ASSUME q >= L PROVE FALSE
    BY <1>2, <1>4
  <2>2. q * M >= L * M
    BY <1>4, <2>1
  <2>3. QED
    BY <1>1, <1>3, <2>2
<1>6. QED
  BY <1>1, <1>2, <1>4, <1>5

\* The list of phones, and the numbers.
LEMMA OrderFacts ==
    /\ Order \in Seq(Phones) /\ Len(Order) \in Nat \ {0}
    /\ DOMAIN Order = 1 .. Len(Order) /\ Master \in Phones
    /\ \A i \in DOMAIN Order : Order[i] \in Phones
<1>1. Order \in Seq(Phones) /\ Order # <<>>
  BY CalibrationAssumption DEF Phones
<1>2. Len(Order) \in Nat \ {0} /\ DOMAIN Order = 1 .. Len(Order)
  BY <1>1
<1>3. QED
  BY <1>1, <1>2 DEF Phones, Master

\* The bounds are numbers.
LEMMA NumberFacts == MaxLevel \in Nat /\ ControlCap \in Nat /\ MaxFaults \in Nat /\ None \notin Nat
BY CalibrationAssumption

\* The phone that comes next is a phone.
LEMMA NextPhoneTyped ==
    ASSUME NEW p \in Phones PROVE NextPhone(p) \in Phones \cup {None}
<1> DEFINE i == CHOOSE i \in DOMAIN Order : Order[i] = p
<1>1. \E j \in DOMAIN Order : Order[j] = p
  BY DEF Phones
<1>2. i \in DOMAIN Order
  BY <1>1
<1> HIDE DEF i
<1>3. (IF i = Len(Order) THEN None ELSE Order[i + 1]) \in Phones \cup {None}
  BY <1>2, OrderFacts
<1>4. QED
  BY <1>3 DEF NextPhone, i

Jobs == Seq(Phones \X Indices)

\* Functions on an initial segment are sequences.
LEMMA FunctionIsSeq ==
    ASSUME NEW S, NEW n \in Nat, NEW f \in [1 .. n -> S]
    PROVE  f \in Seq(S) /\ Len(f) = n /\ DOMAIN f = 1 .. n
BY SeqDef

\* Every level of every phone is a job.
LEMMA CurvesTyped == Curves \in Jobs
<1> DEFINE total == Len(Order) * MaxLevel
           cell(n) == <<Order[1 + (n - 1) \div MaxLevel], 1 + ((n - 1) % MaxLevel)>>
<1>1. total \in Nat
  BY OrderFacts, NumberFacts
<1>2. ASSUME NEW n \in 1 .. total PROVE cell(n) \in Phones \X Indices
  <2>1. MaxLevel > 0 /\ n - 1 \in Nat /\ n - 1 < Len(Order) * MaxLevel
    BY <1>1, OrderFacts, NumberFacts
  <2>2. (n - 1) \div MaxLevel \in 0 .. Len(Order) - 1 /\ (n - 1) % MaxLevel \in 0 .. MaxLevel - 1
    BY <2>1, OrderFacts, NumberFacts, Cell
  <2>3. 1 + (n - 1) \div MaxLevel \in DOMAIN Order /\ 1 + ((n - 1) % MaxLevel) \in Indices
    BY <2>2, OrderFacts, NumberFacts DEF Indices
  <2>4. QED
    BY <2>3, OrderFacts
<1>3. Curves \in [1 .. total -> Phones \X Indices]
  BY <1>2 DEF Curves
<1>4. QED
  BY <1>1, <1>3, FunctionIsSeq DEF Jobs

-----------------------------------------------------------------------------
(* Cancelled runs.                                                          *)

\* While the server is on, a result that waits was not cancelled.
NotCancelled == server = "on" /\ cancel => ~result

\* Whoever sets the token drops the result, and the end of a run looks at the token:
\* the result of a cancelled run is never offered (cancel and the end of start in
\* calibration.rs).
THEOREM CancelledDropped == Spec => []CancelledIsDropped
<1>1. Init => NotCancelled
  BY DEF Init, NotCancelled
<1>2. NotCancelled /\ [Next]_vars => NotCancelled'
  <2> SUFFICES ASSUME NotCancelled, [Next]_vars PROVE NotCancelled'
    OBVIOUS
  <2>1. CASE UNCHANGED <<server, cancel, result>>
    BY <2>1 DEF NotCancelled
  <2>2. CASE \/ \E p \in Phones, level \in Levels : DeviceVolume(p, level)
             \/ \E late, ready \in SUBSET Phones : Refresh(late, ready)
             \/ Open \/ Cancel \/ Close \/ Calibrate
    BY <2>2, Zenon DEF DeviceVolume, Refresh, Open, Cancel, Close, Calibrate, TakeResult,
       NotCancelled
  <2>3. CASE Exit \/ Goodbye \/ Die
    BY <2>3 DEF Exit, Goodbye, Die, NotCancelled
  <2>4. CASE Finish
    BY <2>4 DEF Finish, Publishes, NotCancelled
  <2>5. CASE (\E p \in Phones : AtPhone(p) /\ UNCHANGED serverVars) \/ UNCHANGED vars
    BY <2>1, <2>5, Zenon DEF serverVars, vars
  <2>6. CASE Ask \/ TakeReply \/ GiveUp \/ Listen \/ Sound \/ Choose
    BY <2>1, <2>6, Zenon DEF Ask, TakeReply, GiveUp, Listen, Sound, Choose, RunFrame
  <2>7. QED
    BY <2>2, <2>3, <2>4, <2>5, <2>6, Zenon DEF Next, RunStep
<1>3. NotCancelled => CancelledIsDropped
  BY DEF NotCancelled, CancelledIsDropped
<1>4. QED
  BY <1>1, <1>2, <1>3, PTL DEF Spec

-----------------------------------------------------------------------------
(* The run: its shape, and what its steps do to it.                         *)

RunType ==
    [pc : Asking \cup {"idle", "listen", "sound", "choose", "finish"}, p : Phones,
     index : Levels, sent : BOOLEAN, seen : Levels, orig : [Phones -> Levels \cup {None}],
     begun : SUBSET Phones, undone : SUBSET Phones, failed : SUBSET Phones,
     good : BOOLEAN, points : SUBSET (Phones \X Levels), jobs : Jobs,
     left : (SUBSET (Phones \X Indices)) \cup {None}, heard : BOOLEAN, mapped : BOOLEAN]

\* Phones are marked in the order begun, undone, failed; restoring is over when all
\* that were begun are undone.
Shape(r) ==
    /\ r \in RunType
    /\ r.sent => r.pc \in Asking
    /\ r.pc \notin {"undo", "finish"} => r.undone = {} /\ r.failed = {}
    /\ r.pc = "check" => r.begun = {}
    /\ r.pc = "undo" => r.p \in r.begun \ r.undone
    /\ r.pc = "finish" => r.begun = r.undone
    /\ r.failed \subseteq r.undone /\ r.undone \subseteq r.begun

\* A thread that does not run.
LEMMA NoRunTyped ==
    /\ NoRun \in RunType /\ NoRun.pc = "idle" /\ ~NoRun.sent
    /\ NoRun.begun = {} /\ NoRun.undone = {} /\ NoRun.failed = {}
<1>1. Master \in Phones /\ 0 \in Levels /\ <<>> \in Jobs
  BY OrderFacts, NumberFacts DEF Levels, Jobs
<1>2. [p \in Phones |-> None] \in [Phones -> Levels \cup {None}]
  OBVIOUS
<1>3. "idle" \in Asking \cup {"idle", "listen", "sound", "choose", "finish"}
  OBVIOUS
<1>4. {} \in SUBSET Phones /\ {} \in SUBSET (Phones \X Levels)
  OBVIOUS
<1>5. None \in (SUBSET (Phones \X Indices)) \cup {None}
  OBVIOUS
<1>6. NoRun \in RunType
  BY <1>1, <1>2, <1>3, <1>4, <1>5, Zenon DEF NoRun, RunType
<1>7. QED
  BY <1>6 DEF NoRun

\* A run that starts, and one that is over or never was.
LEMMA NoRunShape == Shape(NoRun) /\ Shape([NoRun EXCEPT !.pc = "check"])
BY NoRunTyped DEF Shape, RunType, Asking

\* restore goes to a phone that was begun and is not undone, or is over.
LEMMA ToUndoShape ==
    ASSUME NEW r \in RunType, r.failed \subseteq r.undone, r.undone \subseteq r.begun
    PROVE  /\ Shape(ToUndo(r)) /\ ~ToUndo(r).sent /\ ToUndo(r).pc \in {"undo", "finish"}
           /\ ToUndo(r).orig = r.orig
           /\ ToUndo(r).undone = r.undone /\ ToUndo(r).failed = r.failed
<1> DEFINE next == {i \in DOMAIN Order : Order[i] \in r.begun \ r.undone}
           kept == [NoRun EXCEPT !.orig = r.orig, !.begun = r.begun, !.undone = r.undone,
                                 !.failed = r.failed, !.good = r.good]
           first == CHOOSE i \in next : \A j \in next : i <= j
<1>1. /\ kept \in RunType /\ ~kept.sent /\ kept.orig = r.orig /\ kept.begun = r.begun
      /\ kept.undone = r.undone /\ kept.failed = r.failed
  BY NoRunTyped DEF RunType
<1>2. CASE next = {}
  <2>1. r.begun = r.undone
    <3>1. \A q \in r.begun : \E i \in DOMAIN Order : Order[i] = q
      BY DEF RunType, Phones
    <3>2. QED
      BY <1>2, <3>1
  <2>2. ToUndo(r) = [kept EXCEPT !.pc = "finish"]
    BY <1>2 DEF ToUndo
  <2> HIDE DEF kept
  <2>3. QED
    BY <1>1, <2>1, <2>2 DEF Shape, RunType
<1>3. CASE next # {}
  <2>1. \E i \in next : \A j \in next : i <= j
    <3>1. next \in SUBSET Nat
      BY OrderFacts
    <3>2. QED
      BY <1>3, <3>1, Least
  <2>2. first \in next
    BY <2>1
  <2>3. ToUndo(r) = [kept EXCEPT !.pc = "undo", !.p = Order[first]]
    BY <1>3 DEF ToUndo
  <2>4. Order[first] \in r.begun \ r.undone /\ Order[first] \in Phones
    BY <2>2, OrderFacts
  <2> HIDE DEF kept, first, next
  <2>5. QED
    BY <1>1, <2>3, <2>4, ZenonT(60) DEF Shape, RunType, Asking
<1>4. QED
  BY <1>2, <1>3

\* A step that fails leads to the end or to restoring; a phone whose restoring fails
\* is named.
LEMMA FailedShape ==
    ASSUME NEW r, Shape(r)
    PROVE  /\ Shape(Failed(r)) /\ ~Failed(r).sent
           /\ Failed(r).orig = r.orig
           /\ Failed(r).undone \ Failed(r).failed \subseteq r.undone \ r.failed
<1>1. CASE r.pc = "check"
  BY <1>1 DEF Failed, Shape, RunType
<1>2. CASE r.pc = "undo"
  <2> DEFINE u == [r EXCEPT !.undone = @ \cup {r.p}, !.failed = @ \cup {r.p}]
  <2>1. /\ u \in RunType /\ u.failed = r.failed \cup {r.p} /\ u.undone = r.undone \cup {r.p}
        /\ u.begun = r.begun /\ u.orig = r.orig
    BY DEF Shape, RunType
  <2>2. Failed(r) = ToUndo(u)
    BY <1>2 DEF Failed
  <2>3. u.failed \subseteq u.undone /\ u.undone \subseteq u.begun
    BY <1>2, <2>1 DEF Shape
  <2> HIDE DEF u
  <2>4. QED
    BY <2>1, <2>2, <2>3, ToUndoShape
<1>3. CASE r.pc \notin {"check", "undo"}
  <2>1. Failed(r) = ToUndo(r)
    BY <1>3 DEF Failed
  <2>2. r \in RunType /\ r.failed \subseteq r.undone /\ r.undone \subseteq r.begun
    BY DEF Shape
  <2>3. QED
    BY <2>1, <2>2, ToUndoShape
<1>4. QED
  BY <1>1, <1>2, <1>3

\* The next job is set, or there is none.
LEMMA NextJobShape ==
    ASSUME NEW r \in RunType, r.undone = {}, r.failed = {}
    PROVE  /\ Shape(NextJob(r)) /\ ~NextJob(r).sent
           /\ NextJob(r).undone = {} /\ NextJob(r).orig = r.orig
<1>1. CASE r.jobs = <<>>
  BY <1>1, ZenonT(60) DEF NextJob, Shape, RunType, Asking
<1>2. CASE r.jobs # <<>>
  <2>1. r.jobs \in Seq(Phones \X Indices)
    BY DEF RunType, Jobs
  <2>2. Head(r.jobs) \in Phones \X Indices /\ Tail(r.jobs) \in Jobs
    BY <1>2, <2>1 DEF Jobs
  <2>3. Head(r.jobs)[1] \in Phones /\ Head(r.jobs)[2] \in Levels /\ 0 \in Levels
    BY <2>2, NumberFacts DEF Indices, Levels
  <2>4. NextJob(r) = [r EXCEPT !.pc = "set", !.sent = FALSE, !.heard = FALSE, !.seen = 0,
                               !.p = Head(r.jobs)[1], !.index = Head(r.jobs)[2],
                               !.jobs = Tail(r.jobs)]
    BY <1>2 DEF NextJob
  <2>5. NextJob(r) \in RunType
    BY <2>2, <2>3, <2>4, ZenonT(60) DEF RunType, Asking
  <2>6. /\ ~NextJob(r).sent /\ NextJob(r).pc = "set" /\ NextJob(r).undone = {}
        /\ NextJob(r).failed = {} /\ NextJob(r).orig = r.orig
    BY <2>4 DEF RunType
  <2>7. QED
    BY <2>5, <2>6 DEF Shape
<1>3. QED
  BY <1>1, <1>2

\* A measured level is kept, and a verified pair noted.
LEMMA RecordedShape ==
    ASSUME NEW r, Shape(r), r.pc = "after"
    PROVE  /\ Shape(Recorded(r)) /\ ~Recorded(r).sent
           /\ Recorded(r).orig = r.orig
           /\ Recorded(r).undone \ Recorded(r).failed = {}
<1>1. r \in RunType /\ r.undone = {} /\ r.failed = {}
  BY DEF Shape
<1>2. CASE ~Verifying(r)
  <2> DEFINE u == IF r.heard THEN [r EXCEPT !.points = @ \cup {<<r.p, r.index>>}] ELSE r
  <2>1. u \in RunType /\ u.undone = {} /\ u.failed = {} /\ u.orig = r.orig
    BY <1>1 DEF RunType
  <2>2. Recorded(r) = NextJob(u)
    BY <1>2 DEF Recorded
  <2> HIDE DEF u
  <2>3. QED
    BY <2>1, <2>2, NextJobShape
<1>3. CASE Verifying(r) /\ ~r.heard
  <2>1. Recorded(r) = Failed(r)
    BY <1>3 DEF Recorded
  <2>2. QED
    BY <1>1, <2>1, FailedShape
<1>4. CASE Verifying(r) /\ r.heard
  <2> DEFINE u == IF r.p = Master THEN r ELSE [r EXCEPT !.mapped = TRUE]
  <2>1. u \in RunType /\ u.undone = {} /\ u.failed = {} /\ u.orig = r.orig
    BY <1>1 DEF RunType
  <2>2. Recorded(r) = NextJob(u)
    BY <1>4 DEF Recorded
  <2> HIDE DEF u
  <2>3. QED
    BY <2>1, <2>2, NextJobShape
<1>5. QED
  BY <1>2, <1>3, <1>4

\* What an answer leads to. Only a phone that confirmed its restoring becomes undone
\* without being named.
LEMMA AnsweredShape ==
    ASSUME NEW r, Shape(r), r.pc \in Asking, NEW status \in Statuses
    PROVE  /\ Shape(Answered(r, status)) /\ ~Answered(r, status).sent
           /\ \A q \in Answered(r, status).undone \ Answered(r, status).failed :
                 /\ Answered(r, status).orig = r.orig
                 /\ \/ q \in r.undone \ r.failed
                    \/ r.pc = "undo" /\ q = r.p /\ Confirmed(status, r.orig[q])
<1>1. r \in RunType /\ r.p \in Phones /\ status.volume \in Levels
  BY DEF Shape, RunType, Statuses
<1>2. NextPhone(r.p) \in Phones \cup {None} /\ Master \in Phones
  BY <1>1, NextPhoneTyped, OrderFacts
<1>3. ASSUME Answered(r, status) = Failed(r)
      PROVE  /\ Shape(Answered(r, status)) /\ ~Answered(r, status).sent
             /\ \A q \in Answered(r, status).undone \ Answered(r, status).failed :
                   Answered(r, status).orig = r.orig /\ q \in r.undone \ r.failed
  BY <1>3, FailedShape
<1>4. CASE r.pc = "check"
  <2>1. CASE Confirmed(status, status.volume)
    <3> DEFINE known == [r EXCEPT !.orig[r.p] = status.volume, !.sent = FALSE]
    <3>1. /\ known \in RunType /\ ~known.sent /\ known.pc = "check" /\ known.begun = {}
          /\ known.undone = {} /\ known.failed = {}
      BY <1>1, <1>4 DEF Shape, RunType
    <3>2. Answered(r, status) = IF NextPhone(r.p) = None
                                THEN [known EXCEPT !.pc = "begin", !.p = Master]
                                ELSE [known EXCEPT !.p = NextPhone(r.p)]
      BY <1>4, <2>1 DEF Answered
    <3> HIDE DEF known
    <3>3. CASE NextPhone(r.p) = None
      <4>1. Answered(r, status) = [known EXCEPT !.pc = "begin", !.p = Master]
        BY <3>2, <3>3
      <4>2. /\ Answered(r, status) \in RunType /\ Answered(r, status).pc = "begin"
            /\ ~Answered(r, status).sent
            /\ Answered(r, status).undone = {} /\ Answered(r, status).failed = {}
        BY <1>2, <3>1, <4>1 DEF RunType, Asking
      <4>3. QED
        BY <4>2 DEF Shape
    <3>4. CASE NextPhone(r.p) # None
      BY <1>2, <3>1, <3>2, <3>4 DEF Shape, RunType
    <3>5. QED
      BY <3>3, <3>4
  <2>2. CASE ~Confirmed(status, status.volume)
    BY <1>3, <1>4, <2>2 DEF Answered
  <2>3. QED
    BY <2>1, <2>2
<1>5. CASE r.pc = "begin"
  <2>1. CASE ~Confirmed(status, r.orig[r.p])
    BY <1>3, <1>5, <2>1 DEF Answered
  <2>2. CASE Confirmed(status, r.orig[r.p])
    <3>1. Answered(r, status) = IF NextPhone(r.p) = None
                                THEN [r EXCEPT !.pc = "listen", !.sent = FALSE]
                                ELSE [r EXCEPT !.p = NextPhone(r.p), !.sent = FALSE]
      BY <1>5, <2>2 DEF Answered
    <3>2. CASE NextPhone(r.p) = None
      <4>1. Answered(r, status) = [r EXCEPT !.pc = "listen", !.sent = FALSE]
        BY <3>1, <3>2
      <4>2. QED
        BY <1>5, <4>1, ZenonT(60) DEF Shape, RunType, Asking
    <3>3. CASE NextPhone(r.p) # None
      <4>1. Answered(r, status) = [r EXCEPT !.p = NextPhone(r.p), !.sent = FALSE]
        BY <3>1, <3>3
      <4>2. /\ Answered(r, status) \in RunType /\ Answered(r, status).pc = "begin"
            /\ ~Answered(r, status).sent
            /\ Answered(r, status).undone = r.undone /\ Answered(r, status).failed = r.failed
        BY <1>1, <1>2, <1>5, <3>3, <4>1 DEF RunType
      <4>3. QED
        BY <1>5, <4>2 DEF Shape
    <3>4. QED
      BY <3>2, <3>3
  <2>3. QED
    BY <2>1, <2>2
<1>6. CASE r.pc = "set"
  <2>1. CASE (Verifying(r) /\ ~status.failed) \/ Confirmed(status, r.index)
    <3>1. Answered(r, status) = [r EXCEPT !.pc = "before", !.sent = FALSE]
      BY <1>6, <2>1 DEF Answered
    <3>2. QED
      BY <1>6, <3>1 DEF Shape, RunType, Asking
  <2>2. CASE ~((Verifying(r) /\ ~status.failed) \/ Confirmed(status, r.index))
    BY <1>3, <1>6, <2>2 DEF Answered
  <2>3. QED
    BY <2>1, <2>2
<1>7. CASE r.pc = "before"
  <2>1. CASE Confirmed(status, status.volume)
    <3>1. Answered(r, status) = [r EXCEPT !.pc = "sound", !.seen = status.volume, !.sent = FALSE]
      BY <1>7, <2>1 DEF Answered
    <3>2. QED
      BY <1>1, <1>7, <3>1, ZenonT(60) DEF Shape, RunType, Asking
  <2>2. CASE ~Confirmed(status, status.volume)
    BY <1>3, <1>7, <2>2 DEF Answered
  <2>3. QED
    BY <2>1, <2>2
<1>8. CASE r.pc = "after"
  <2>1. CASE Confirmed(status, r.seen)
    BY <1>8, <2>1, RecordedShape DEF Answered
  <2>2. CASE ~Confirmed(status, r.seen)
    BY <1>3, <1>8, <2>2 DEF Answered
  <2>3. QED
    BY <2>1, <2>2
<1>9. CASE r.pc = "undo"
  <2>1. CASE Confirmed(status, r.orig[r.p])
    <3> DEFINE u == [r EXCEPT !.undone = @ \cup {r.p}]
    <3>1. /\ u \in RunType /\ u.undone = r.undone \cup {r.p} /\ u.failed = r.failed
          /\ u.begun = r.begun /\ u.orig = r.orig
      BY <1>1 DEF RunType
    <3>2. Answered(r, status) = ToUndo(u)
      BY <1>9, <2>1 DEF Answered
    <3>3. u.failed \subseteq u.undone /\ u.undone \subseteq u.begun
      BY <1>9, <3>1 DEF Shape
    <3> HIDE DEF u
    <3>4. QED
      BY <1>9, <2>1, <3>1, <3>2, <3>3, ToUndoShape
  <2>2. CASE ~Confirmed(status, r.orig[r.p])
    BY <1>3, <1>9, <2>2 DEF Answered
  <2>3. QED
    BY <2>1, <2>2
<1>10. QED
  BY <1>4, <1>5, <1>6, <1>7, <1>8, <1>9 DEF Asking

-----------------------------------------------------------------------------
(* Queues of commands and of statuses.                                      *)

\* Somebody waits for one of the messages.
Waited(q) == \E i \in DOMAIN q : q[i].id = 1
Once(q) == \A i, j \in DOMAIN q : q[i].id = 1 /\ q[j].id = 1 => i = j
OnlyCancels(q) == \A i \in DOMAIN q : q[i].op = "cancel"

\* From the command that is waited for on there are only cancels.
CancelsLast(q) == \A i, j \in DOMAIN q : q[i].id = 1 /\ i <= j => q[j].op = "cancel"

\* An empty queue.
LEMMA EmptyQueue == ~Waited(<<>>) /\ Once(<<>>) /\ OnlyCancels(<<>>) /\ CancelsLast(<<>>)
BY DEF Waited, Once, OnlyCancels, CancelsLast

\* The first message is taken.
LEMMA TailQueue ==
    ASSUME NEW S, NEW q \in Seq(S), q # <<>>
    PROVE  /\ Head(q) \in S /\ Tail(q) \in Seq(S)
           /\ Waited(Tail(q)) => Waited(q)
           /\ Once(q) => Once(Tail(q))
           /\ Head(q).id = 1 => Waited(q)
           /\ Once(q) /\ Head(q).id = 1 => ~Waited(Tail(q))
           /\ OnlyCancels(q) => Head(q).op = "cancel" /\ OnlyCancels(Tail(q))
           /\ CancelsLast(q) => CancelsLast(Tail(q))
           /\ CancelsLast(q) /\ Head(q).id = 1 => Head(q).op = "cancel" /\ OnlyCancels(Tail(q))
<1>1. /\ Len(q) \in Nat \ {0} /\ DOMAIN q = 1 .. Len(q)
      /\ DOMAIN Tail(q) = 1 .. Len(q) - 1
      /\ Head(q) = q[1] /\ \A i \in 1 .. Len(q) - 1 : Tail(q)[i] = q[i + 1]
      /\ Head(q) \in S /\ Tail(q) \in Seq(S)
  OBVIOUS
<1>2. \A i \in DOMAIN Tail(q) : i + 1 \in DOMAIN q /\ i + 1 # 1 /\ Tail(q)[i] = q[i + 1]
  BY <1>1
<1>3. 1 \in DOMAIN q
  BY <1>1
<1>4. (Waited(Tail(q)) => Waited(q)) /\ (Head(q).id = 1 => Waited(q))
  BY <1>1, <1>2, <1>3 DEF Waited
<1>5. Once(q) => Once(Tail(q))
  BY <1>1, <1>2 DEF Once
<1>6. Once(q) /\ Head(q).id = 1 => ~Waited(Tail(q))
  BY <1>1, <1>2, <1>3 DEF Once, Waited
<1>7. OnlyCancels(q) => Head(q).op = "cancel" /\ OnlyCancels(Tail(q))
  BY <1>1, <1>2, <1>3 DEF OnlyCancels
<1>8. CancelsLast(q) => CancelsLast(Tail(q))
  BY <1>1, <1>2 DEF CancelsLast
<1>9. CancelsLast(q) /\ Head(q).id = 1 => Head(q).op = "cancel" /\ OnlyCancels(Tail(q))
  BY <1>1, <1>2, <1>3 DEF CancelsLast, OnlyCancels
<1>10. QED
  BY <1>1, <1>4, <1>5, <1>6, <1>7, <1>8, <1>9

\* A message is added.
LEMMA AppendQueue ==
    ASSUME NEW S, NEW q \in Seq(S), NEW e \in S
    PROVE  /\ Append(q, e) \in Seq(S)
           /\ e.id # 1 /\ Waited(Append(q, e)) => Waited(q)
           /\ Once(q) /\ (e.id = 1 => ~Waited(q)) => Once(Append(q, e))
           /\ OnlyCancels(q) /\ e.op = "cancel" => OnlyCancels(Append(q, e))
           /\ CancelsLast(q) /\ e.op = "cancel" => CancelsLast(Append(q, e))
<1>1. /\ Len(q) \in Nat /\ DOMAIN q = 1 .. Len(q)
      /\ DOMAIN Append(q, e) = 1 .. Len(q) + 1
      /\ Append(q, e)[Len(q) + 1] = e /\ \A i \in 1 .. Len(q) : Append(q, e)[i] = q[i]
      /\ Append(q, e) \in Seq(S)
  OBVIOUS
<1>2. \A i \in DOMAIN Append(q, e) :
         \/ i \in DOMAIN q /\ Append(q, e)[i] = q[i]
         \/ i = Len(q) + 1 /\ Append(q, e)[i] = e
  BY <1>1
<1>3. e.id # 1 /\ Waited(Append(q, e)) => Waited(q)
  BY <1>2 DEF Waited
<1>4. Once(q) /\ (e.id = 1 => ~Waited(q)) => Once(Append(q, e))
  BY <1>2 DEF Once, Waited
<1>5. OnlyCancels(q) /\ e.op = "cancel" => OnlyCancels(Append(q, e))
  BY <1>2 DEF OnlyCancels
<1>6. CancelsLast(q) /\ e.op = "cancel" => CancelsLast(Append(q, e))
  BY <1>1, <1>2 DEF CancelsLast
<1>7. QED
  BY <1>1, <1>3, <1>4, <1>5, <1>6

\* Nobody waits for messages that are forgotten, which are otherwise the same.
LEMMA ForgottenQueue ==
    ASSUME NEW S \in {Commands, Statuses}, NEW q \in Seq(S)
    PROVE  /\ Forgotten(q) \in Seq(S) /\ Len(Forgotten(q)) = Len(q)
           /\ ~Waited(Forgotten(q)) /\ Once(Forgotten(q))
           /\ CancelsLast(Forgotten(q))
<1>1. Len(q) \in Nat /\ DOMAIN q = 1 .. Len(q) /\ \A i \in 1 .. Len(q) : q[i] \in S
  OBVIOUS
<1>2. ASSUME NEW e \in S
      PROVE  [e EXCEPT !.id = 0] \in S /\ [e EXCEPT !.id = 0].id = 0
  <2>1. CASE S = Commands
    BY <2>1 DEF Commands
  <2>2. CASE S = Statuses
    BY <2>2 DEF Statuses
  <2>3. QED
    BY <2>1, <2>2
<1>3. Forgotten(q) \in [1 .. Len(q) -> S]
  BY <1>1, <1>2 DEF Forgotten
<1>4. \A i \in DOMAIN q : Forgotten(q)[i] = [q[i] EXCEPT !.id = 0]
  BY DEF Forgotten
<1>5. DOMAIN Forgotten(q) = DOMAIN q
  BY DEF Forgotten
<1>6. \A i \in DOMAIN q : Forgotten(q)[i].id = 0
  BY <1>1, <1>2, <1>4
<1>7. ~Waited(Forgotten(q)) /\ Once(Forgotten(q)) /\ CancelsLast(Forgotten(q))
  BY <1>5, <1>6 DEF Waited, Once, CancelsLast
<1>8. QED
  BY <1>1, <1>3, <1>7, FunctionIsSeq

-----------------------------------------------------------------------------
(* Typing.                                                                  *)

PhoneRecord == [volume : Levels, original : Levels \cup {None}, speaker : BOOLEAN]

\* A phone that ends its session is a phone.
LEMMA CancelledTyped ==
    ASSUME NEW ph \in PhoneRecord
    PROVE  Cancelled(ph) \in PhoneRecord /\ Cancelled(ph).original = None
<1>1. CASE ph.speaker /\ ph.original # None
  BY <1>1 DEF Cancelled, PhoneRecord
<1>2. CASE ~(ph.speaker /\ ph.original # None)
  BY <1>2 DEF Cancelled, PhoneRecord
<1>3. QED
  BY <1>1, <1>2

\* A phone that obeys a command is a phone.
LEMMA AppliedTyped ==
    ASSUME NEW ph \in PhoneRecord, NEW command \in Commands
    PROVE  Applied(ph, command) \in PhoneRecord
<1>1. CASE command.op = "query"
  BY <1>1 DEF Applied
<1>2. CASE command.op \in {"set", "restore"}
  <2>1. Applied(ph, command) = [ph EXCEPT !.volume = command.index]
    BY <1>2 DEF Applied
  <2>2. command.index \in Levels
    BY DEF Commands
  <2>3. QED
    BY <2>1, <2>2 DEF PhoneRecord
<1>3. CASE command.op = "begin"
  <2>1. Applied(ph, command)
          = IF ph.original = None THEN [ph EXCEPT !.original = ph.volume] ELSE ph
    BY <1>3 DEF Applied
  <2>2. QED
    BY <2>1 DEF PhoneRecord
<1>4. CASE command.op = "cancel"
  BY <1>4, CancelledTyped DEF Applied
<1>5. QED
  BY <1>1, <1>2, <1>3, <1>4 DEF Commands

\* What a phone tells is a status.
LEMMA StatusTyped ==
    ASSUME NEW ph \in PhoneRecord, NEW failed \in BOOLEAN, NEW id \in {0, 1}
    PROVE  /\ Status(ph, failed, id) \in Statuses /\ Status(ph, failed, id).id = id
           /\ Status(ph, failed, id).volume = ph.volume
BY DEF Status, Statuses, PhoneRecord

\* The phones' state by variable.
LEMMA PhoneParts ==
    PhoneTypeOK <=>
      /\ phone \in [Phones -> PhoneRecord] /\ link \subseteq Phones
      /\ wire \in [Phones -> Seq(Commands)] /\ reports \in [Phones -> Seq(Statuses)]
      /\ device \in [Phones -> Statuses \cup {None}]
      /\ reply \in [Phones -> Statuses \cup {None}]
      /\ touched \subseteq Phones /\ faults \in 0 .. MaxFaults
BY Zenon DEF PhoneTypeOK, PhoneRecord

\* A status is queued.
LEMMA SayTyped ==
    ASSUME PhoneTypeOK, NEW p \in Phones, NEW status \in Statuses, Say(p, status)
    PROVE  reports' \in [Phones -> Seq(Statuses)]
BY PhoneParts, AppendQueue DEF Say

\* A disturbance is counted down.
LEMMA FaultTyped == ASSUME PhoneTypeOK, Fault \/ UNCHANGED faults PROVE faults' \in 0 .. MaxFaults
BY PhoneParts, NumberFacts DEF Fault

\* Refusing is a matter of yes or no.
LEMMA RefusesTyped ==
    ASSUME NEW ph \in PhoneRecord, NEW command \in Commands
    PROVE  Refuses(ph, command) \in BOOLEAN /\ CancelFails(ph) \in BOOLEAN
BY DEF Refuses, CancelFails, PhoneRecord, Commands

\* A phone obeys, refuses or half obeys the command at the head of its queue and
\* answers with what it has become.
LEMMA ApplyEffect ==
    ASSUME PhoneTypeOK, NEW p \in Phones, ApplyPending(p)
    PROVE  \E now \in PhoneRecord, failed \in BOOLEAN :
             /\ phone' = [phone EXCEPT ![p] = now]
             /\ Say(p, Status(now, failed, Head(wire[p]).id))
             /\ \/ now = phone[p] /\ Head(wire[p]).op # "cancel"
                \/ now = Applied(phone[p], Head(wire[p]))
                \/ /\ now = [Applied(phone[p], Head(wire[p])) EXCEPT !.volume = now.volume]
                   /\ failed
                   /\ ~(Head(wire[p]).op = "cancel" /\ phone[p].original = None)
<1> DEFINE command == Head(wire[p])
           ph == phone[p]
           refused == Refuses(ph, command)
           becomes == IF refused /\ command.op # "cancel" THEN ph ELSE Applied(ph, command)
<1>1. ph \in PhoneRecord /\ wire[p] \in Seq(Commands) /\ wire[p] # <<>>
  BY PhoneParts DEF ApplyPending
<1>2. command \in Commands
  BY <1>1, TailQueue
<1>3. Applied(ph, command) \in PhoneRecord /\ refused \in BOOLEAN
  BY <1>1, <1>2, AppliedTyped, RefusesTyped
<1>4. CASE phone' = [phone EXCEPT ![p] = becomes] /\ Say(p, Status(becomes, refused, command.id))
  <2>1. becomes \in PhoneRecord
    BY <1>1, <1>3
  <2>2. (becomes = ph /\ command.op # "cancel") \/ becomes = Applied(ph, command)
    OBVIOUS
  <2> HIDE DEF becomes, refused
  <2>3. QED
    BY <1>3, <1>4, <2>1, <2>2
<1>5. ASSUME NEW actual \in Faulty(ph, command), phone' = [phone EXCEPT ![p] = actual],
             Say(p, Status(actual, TRUE, command.id))
      PROVE  \E now \in PhoneRecord, failed \in BOOLEAN :
               /\ phone' = [phone EXCEPT ![p] = now]
               /\ Say(p, Status(now, failed, command.id))
               /\ \/ now = ph /\ command.op # "cancel"
                  \/ now = Applied(ph, command)
                  \/ /\ now = [Applied(ph, command) EXCEPT !.volume = now.volume]
                     /\ failed
                     /\ ~(command.op = "cancel" /\ ph.original = None)
  <2>1. CASE actual = ph /\ command.op # "cancel"
    BY <1>1, <1>5, <2>1
  <2>2. CASE ~(actual = ph /\ command.op # "cancel")
    <3>1. /\ ~(command.op = "cancel" /\ ph.original = None)
          /\ \E level \in Levels : actual = [Applied(ph, command) EXCEPT !.volume = level]
      BY <1>5, <2>2 DEF Faulty
    <3>2. PICK level \in Levels : actual = [Applied(ph, command) EXCEPT !.volume = level]
      BY <3>1
    <3>3. actual \in PhoneRecord /\ actual.volume = level
      BY <1>3, <3>2 DEF PhoneRecord
    <3>4. QED
      BY <1>5, <3>1, <3>2, <3>3
  <2>3. QED
    BY <2>1, <2>2
<1>6. QED
  BY <1>4, <1>5 DEF ApplyPending

\* Whatever happens at a phone leaves phones, queues and statuses typed.
LEMMA AtPhoneTyped ==
    ASSUME PhoneTypeOK, NEW p \in Phones, AtPhone(p) PROVE PhoneTypeOK'
<1>1. /\ phone \in [Phones -> PhoneRecord] /\ link \subseteq Phones
      /\ wire \in [Phones -> Seq(Commands)] /\ reports \in [Phones -> Seq(Statuses)]
      /\ device \in [Phones -> Statuses \cup {None}]
      /\ reply \in [Phones -> Statuses \cup {None}]
      /\ touched \subseteq Phones /\ faults \in 0 .. MaxFaults
      /\ phone[p] \in PhoneRecord
  BY PhoneParts
<1>2. ASSUME phone' \in [Phones -> PhoneRecord], link' \subseteq Phones,
             wire' \in [Phones -> Seq(Commands)], reports' \in [Phones -> Seq(Statuses)],
             device' \in [Phones -> Statuses \cup {None}],
             reply' \in [Phones -> Statuses \cup {None}],
             touched' \subseteq Phones, faults' \in 0 .. MaxFaults
      PROVE  PhoneTypeOK'
  BY <1>2, Zenon DEF PhoneTypeOK, PhoneRecord
<1>3. CASE ApplyPending(p)
  <2>1. PICK now \in PhoneRecord, failed \in BOOLEAN :
           phone' = [phone EXCEPT ![p] = now] /\ Say(p, Status(now, failed, Head(wire[p]).id))
    BY <1>3, ApplyEffect
  <2>2. wire[p] \in Seq(Commands) /\ wire[p] # <<>>
    BY <1>1, <1>3 DEF ApplyPending
  <2>3. Head(wire[p]) \in Commands /\ Tail(wire[p]) \in Seq(Commands)
    BY <2>2, TailQueue
  <2>4. Head(wire[p]).id \in {0, 1}
    BY <2>3 DEF Commands
  <2>5. reports' \in [Phones -> Seq(Statuses)]
    BY <2>1, <2>4, StatusTyped, SayTyped
  <2>6. phone' \in [Phones -> PhoneRecord] /\ wire' \in [Phones -> Seq(Commands)]
    BY <1>1, <1>3, <2>1, <2>3 DEF ApplyPending
  <2>7. faults' \in 0 .. MaxFaults
    BY <1>3, FaultTyped DEF ApplyPending
  <2>8. touched' \subseteq Phones
    BY <1>1, <1>3 DEF ApplyPending
  <2>9. UNCHANGED <<link, device, reply>>
    BY <1>3 DEF ApplyPending
  <2>10. QED
    BY <1>1, <1>2, <2>5, <2>6, <2>7, <2>8, <2>9
<1>4. CASE Announce(p)
  <2>1. Status(phone[p], FALSE, 0) \in Statuses
    BY <1>1, StatusTyped
  <2>2. reports' \in [Phones -> Seq(Statuses)]
    BY <1>4, <2>1, SayTyped DEF Announce
  <2>3. QED
    BY <1>1, <1>2, <1>4, <2>2 DEF Announce
<1>5. CASE Deliver(p)
  <2>1. reports[p] \in Seq(Statuses) /\ reports[p] # <<>>
    BY <1>1, <1>5 DEF Deliver
  <2>2. Head(reports[p]) \in Statuses /\ Tail(reports[p]) \in Seq(Statuses)
    BY <2>1, TailQueue
  <2>3. [Head(reports[p]) EXCEPT !.id = 0] \in Statuses
    BY <2>2 DEF Statuses
  <2>4. reports' \in [Phones -> Seq(Statuses)]
    BY <1>1, <1>5, <2>2 DEF Deliver
  <2>5. device' \in [Phones -> Statuses \cup {None}]
    BY <1>1, <1>5, <2>3 DEF Deliver
  <2>6. reply' \in [Phones -> Statuses \cup {None}]
    BY <1>1, <1>5, <2>2 DEF Deliver
  <2>7. QED
    BY <1>1, <1>2, <1>5, <2>4, <2>5, <2>6 DEF Deliver
<1>6. CASE EndSession(p)
  <2>1. phone' \in [Phones -> PhoneRecord]
    BY <1>1, <1>6, CancelledTyped DEF EndSession
  <2>2. QED
    BY <1>1, <1>2, <1>6, <2>1 DEF EndSession
<1>7. CASE Expire(p)
  <2>1. Cancelled(phone[p]) \in PhoneRecord /\ CancelFails(phone[p]) \in BOOLEAN
    BY <1>1, CancelledTyped DEF CancelFails, PhoneRecord
  <2>2. Status(Cancelled(phone[p]), CancelFails(phone[p]), 0) \in Statuses
    BY <2>1, StatusTyped
  <2>3. reports' \in [Phones -> Seq(Statuses)] /\ phone' \in [Phones -> PhoneRecord]
    BY <1>1, <1>7, <2>1, <2>2, SayTyped DEF Expire
  <2>4. faults' \in 0 .. MaxFaults
    BY <1>7, FaultTyped DEF Expire
  <2>5. QED
    BY <1>1, <1>2, <1>7, <2>3, <2>4 DEF Expire
<1>8. CASE LoseLink(p)
  <2>1. faults' \in 0 .. MaxFaults
    BY <1>8, FaultTyped DEF LoseLink
  <2>2. <<>> \in Seq(Commands) /\ <<>> \in Seq(Statuses)
    OBVIOUS
  <2>3. QED
    BY <1>1, <1>2, <1>8, <2>1, <2>2 DEF LoseLink, Without
<1>9. CASE RouteChanged(p)
  <2> DEFINE other == [phone[p] EXCEPT !.speaker = ~@]
             becomes == IF other.speaker THEN other ELSE Cancelled(other)
             failed == ~other.speaker /\ CancelFails(other)
  <2>1. other \in PhoneRecord
    BY <1>1 DEF PhoneRecord
  <2>2. becomes \in PhoneRecord /\ failed \in BOOLEAN
    BY <2>1, CancelledTyped
  <2>3. Status(becomes, failed, 0) \in Statuses
    BY <2>2, StatusTyped
  <2>4. /\ Fault /\ phone' = [phone EXCEPT ![p] = becomes]
        /\ Say(p, Status(becomes, failed, 0)) \/ UNCHANGED reports
        /\ UNCHANGED <<link, wire, device, reply, touched>>
    BY <1>9 DEF RouteChanged
  <2> HIDE DEF becomes, failed
  <2>5. phone' \in [Phones -> PhoneRecord] /\ reports' \in [Phones -> Seq(Statuses)]
    BY <1>1, <2>2, <2>3, <2>4, SayTyped
  <2>6. QED
    BY <1>1, <1>2, <2>4, <2>5, FaultTyped
<1>10. ASSUME NEW level \in Levels, VolumeKey(p, level) PROVE PhoneTypeOK'
  <2>1. phone' \in [Phones -> PhoneRecord]
    BY <1>1, <1>10 DEF VolumeKey, PhoneRecord
  <2>2. touched' \subseteq Phones
    BY <1>1, <1>10 DEF VolumeKey
  <2>3. faults' \in 0 .. MaxFaults
    BY <1>10, FaultTyped DEF VolumeKey
  <2>4. QED
    BY <1>1, <1>2, <1>10, <2>1, <2>2, <2>3 DEF VolumeKey
<1>11. QED
  BY <1>3, <1>4, <1>5, <1>6, <1>7, <1>8, <1>9, <1>10 DEF AtPhone, PhoneStep

\* The panel's state.
PanelOK ==
    /\ moves \in IF MaxMoves = None THEN {None} ELSE 0 .. MaxMoves
    /\ server \in {"on", "leaving", "left", "gone"}
    /\ originals \in [Phones -> Levels \cup {None}]
    /\ pending \in [Phones -> Levels \cup {None}]
    /\ waits \in [Phones -> Waits \cup {None}]
    /\ sessions \subseteq Phones

FlagsOK == {editing, cancel, result, measured} \subseteq BOOLEAN

Typed == PhoneTypeOK /\ PanelOK /\ FlagsOK /\ Shape(run)

\* The shape of the run tells the types.
LEMMA TypedIsTypeOK == Typed => TypeOK
<1> SUFFICES ASSUME Typed PROVE TypeOK
  OBVIOUS
<1>1. /\ run.pc \in Asking \cup {"idle", "listen", "sound", "choose", "finish"}
      /\ run.orig \in [Phones -> Levels \cup {None}]
  BY DEF Typed, Shape, RunType
<1>2. run.failed \subseteq run.begun /\ run.undone \subseteq run.begun
  BY DEF Typed, Shape
<1>3. QED
  BY <1>1, <1>2, Zenon DEF Typed, PanelOK, FlagsOK, TypeOK

\* The phones are connected, idle and at level 0, and no window is open.
LEMMA InitTyped == Init => Typed
<1> SUFFICES ASSUME Init PROVE Typed
  OBVIOUS
<1>1. 0 \in Levels /\ <<>> \in Seq(Commands) /\ <<>> \in Seq(Statuses)
  BY NumberFacts DEF Levels
<1>2. phone \in [Phones -> PhoneRecord]
  BY <1>1 DEF Init, PhoneInit, PhoneRecord
<1>3. device \in [Phones -> Statuses \cup {None}]
  <2>1. \A p \in Phones : Status(phone[p], FALSE, 0) \in Statuses
    BY <1>2, StatusTyped
  <2>2. QED
    BY <2>1 DEF Init, PhoneInit
<1>4. PhoneTypeOK
  <2>1. wire \in [Phones -> Seq(Commands)] /\ reports \in [Phones -> Seq(Statuses)]
    BY <1>1 DEF Init, PhoneInit
  <2>2. reply \in [Phones -> Statuses \cup {None}]
    BY DEF Init, PhoneInit
  <2>3. link \subseteq Phones /\ touched \subseteq Phones /\ faults \in 0 .. MaxFaults
    BY NumberFacts DEF Init, PhoneInit
  <2>4. QED
    BY <1>2, <1>3, <2>1, <2>2, <2>3, PhoneParts
<1>5. PanelOK
  BY NumberFacts, MovesAssumption DEF Init, PanelOK
<1>6. FlagsOK
  BY Zenon DEF Init, FlagsOK
<1>7. QED
  BY <1>4, <1>5, <1>6, NoRunShape DEF Init, Typed

\* Flags stay flags.
LEMMA FlagsStep == ASSUME Typed, [Next]_vars PROVE FlagsOK'
<1>1. FlagsOK
  BY DEF Typed
<1> USE <1>1 DEF FlagsOK
<1>2. CASE UNCHANGED <<editing, cancel, result, measured>>
  BY <1>2, Zenon
<1>3. CASE \/ \E p \in Phones, level \in Levels : DeviceVolume(p, level)
           \/ \E late, ready \in SUBSET Phones : Refresh(late, ready)
  <2>1. TakeResult /\ UNCHANGED <<editing, cancel>>
    <3>1. ASSUME NEW p \in Phones, NEW level \in Levels, DeviceVolume(p, level)
          PROVE  TakeResult /\ UNCHANGED <<editing, cancel>>
      BY <3>1 DEF DeviceVolume
    <3>2. ASSUME NEW late \in SUBSET Phones, NEW ready \in SUBSET Phones, Refresh(late, ready)
          PROVE  TakeResult /\ UNCHANGED <<editing, cancel>>
      BY <3>2 DEF Refresh
    <3>3. QED
      BY <1>3, <3>1, <3>2, Zenon
  <2>2. QED
    BY <2>1, Zenon DEF TakeResult
<1>4. CASE Open \/ Cancel \/ Close \/ Calibrate \/ Exit
  BY <1>4, Zenon DEF Open, Cancel, Close, Calibrate, Exit, panelVars
<1>5. CASE Finish
  <2>1. result' \in BOOLEAN
    BY <1>5, Zenon DEF Finish, Publishes
  <2>2. QED
    BY <1>5, <2>1, Zenon DEF Finish, panelVars
<1>6. QED
  BY <1>2, <1>3, <1>4, <1>5, Zenon DEF Next, RunStep, Goodbye, Die, Ask, TakeReply, GiveUp,
     Listen, Sound, Choose, RunFrame, panelVars, serverVars, vars

\* What the panel keeps stays levels, requests and phones.
LEMMA PanelStep == ASSUME Typed, [Next]_vars PROVE PanelOK'
<1>1. PanelOK /\ PhoneTypeOK
  BY DEF Typed
<1>2. device \in [Phones -> Statuses \cup {None}] /\ link \subseteq Phones
  BY <1>1, PhoneParts
<1>3. ASSUME NEW p \in Phones, device[p] # None PROVE device[p].volume \in Levels
  BY <1>2, <1>3 DEF Statuses
<1>4. ASSUME UNCHANGED moves \/ Move
      PROVE  moves' \in IF MaxMoves = None THEN {None} ELSE 0 .. MaxMoves
  BY <1>1, <1>4, MovesAssumption, NumberFacts DEF PanelOK, Move
<1>5. CASE UNCHANGED <<server, originals, pending, waits, sessions>> /\ (UNCHANGED moves \/ Move)
  BY <1>1, <1>4, <1>5 DEF PanelOK
<1>6. ASSUME NEW p \in Phones, NEW level \in Levels, DeviceVolume(p, level) PROVE PanelOK'
  <2>1. device[p].volume \in Levels
    BY <1>3, <1>6 DEF DeviceVolume, Usable
  <2>2. originals' \in [Phones -> Levels \cup {None}]
    BY <1>1, <1>6, <2>1 DEF DeviceVolume, PanelOK
  <2>3. pending' \in [Phones -> Levels \cup {None}]
    BY <1>1, <1>6 DEF DeviceVolume, PanelOK
  <2>4. QED
    BY <1>1, <1>4, <1>6, <2>2, <2>3 DEF DeviceVolume, PanelOK
<1>7. CASE Open
  <2>1. originals' \in [Phones -> Levels \cup {None}]
    BY <1>3, <1>7 DEF Open
  <2>2. QED
    BY <1>1, <1>4, <1>7, <2>1 DEF Open, PanelOK
<1>8. CASE Close \/ Calibrate
  BY <1>1, <1>4, <1>8 DEF Close, Calibrate, PanelOK
<1>9. CASE Exit \/ Goodbye \/ Die
  BY <1>1, <1>4, <1>9 DEF Exit, Goodbye, Die, PanelOK, panelVars
<1>10. ASSUME NEW late \in SUBSET Phones, NEW ready \in SUBSET Phones, Refresh(late, ready)
       PROVE  PanelOK'
  <2>1. pending' \in [Phones -> Levels \cup {None}]
    BY <1>1, <1>10 DEF Refresh, PanelOK
  <2>2. \A p \in ready : pending[p] \in Levels
    BY <1>1, <1>10 DEF Refresh, PanelOK
  <2>3. waits' \in [Phones -> Waits \cup {None}]
    <3>1. \A p \in ready : /\ [index |-> pending[p], beginning |-> FALSE] \in Waits
                           /\ [index |-> pending[p], beginning |-> TRUE] \in Waits
      BY <2>2 DEF Waits
    <3>2. \A p \in Phones : device[p] # None =>
             [index |-> device[p].volume, beginning |-> TRUE] \in Waits
      BY <1>3 DEF Waits
    <3>3. \A p \in ready :
             [index |-> IF device[p] = None THEN pending[p] ELSE device[p].volume,
              beginning |-> TRUE] \in Waits
      BY <3>1, <3>2
    <3>4. waits \in [Phones -> Waits \cup {None}]
      BY <1>1 DEF PanelOK
    <3>5. QED
      BY <1>10, <3>1, <3>3, <3>4 DEF Refresh
  <2>4. sessions' \subseteq Phones
    BY <1>1, <1>2, <1>10 DEF Refresh, PanelOK
  <2>5. UNCHANGED <<moves, server, originals>>
    BY <1>10 DEF Refresh
  <2>6. QED
    BY <1>1, <2>1, <2>3, <2>4, <2>5 DEF PanelOK
<1>11. CASE Cancel
  BY <1>5, <1>11, Zenon DEF Cancel, panelVars
<1>12. CASE RunStep
  BY <1>5, <1>12, Zenon DEF RunStep, Ask, TakeReply, GiveUp, Listen, Sound, Choose, Finish,
     RunFrame, panelVars
<1>13. CASE (\E p \in Phones : AtPhone(p) /\ UNCHANGED serverVars) \/ UNCHANGED vars
  BY <1>5, <1>13, Zenon DEF serverVars, panelVars, vars
<1>14. QED
  BY <1>6, <1>7, <1>8, <1>9, <1>10, <1>11, <1>12, <1>13, Zenon DEF Next

\* The cancel that is broadcast, and what a closing window sends.
LEMMA FarewellTyped ==
    /\ CancelMessage \in Commands /\ CancelMessage.id # 1 /\ CancelMessage.op = "cancel"
    /\ \A p \in Phones : originals[p] \in Levels \cup {None} =>
          /\ Farewells(p) \in Seq(Commands)
          /\ \A i \in DOMAIN Farewells(p) : Farewells(p)[i].id = 0
<1>1. 0 \in Levels
  BY NumberFacts DEF Levels
<1>2. CancelMessage \in Commands /\ CancelMessage.id = 0 /\ CancelMessage.op = "cancel"
  BY <1>1 DEF CancelMessage, Command, Commands
<1>3. ASSUME NEW level \in Levels
      PROVE  /\ Command("restore", level, 0) \in Commands
             /\ Command("restore", level, 0).id = 0
  BY DEF Command, Commands
<1>4. ASSUME NEW p \in Phones, originals[p] \in Levels \cup {None}
      PROVE  /\ Farewells(p) \in Seq(Commands)
             /\ \A i \in DOMAIN Farewells(p) : Farewells(p)[i].id = 0
  <2>1. CASE originals[p] = None
    BY <1>2, <2>1 DEF Farewells
  <2>2. CASE originals[p] # None
    <3>1. Farewells(p) = <<CancelMessage, Command("restore", originals[p], 0)>>
      BY <2>2 DEF Farewells
    <3>2. Command("restore", originals[p], 0) \in Commands /\ Command("restore", originals[p], 0).id = 0
      BY <1>3, <1>4, <2>2
    <3>3. QED
      BY <1>2, <3>1, <3>2
  <2>3. QED
    BY <2>1, <2>2
<1>5. QED
  BY <1>2, <1>4

\* Messages nobody waits for are put behind a queue.
LEMMA ConcatQueue ==
    ASSUME NEW S, NEW q \in Seq(S), NEW t \in Seq(S), \A i \in DOMAIN t : t[i].id = 0
    PROVE  /\ q \o t \in Seq(S)
           /\ Waited(q \o t) => Waited(q)
           /\ Once(q) => Once(q \o t)
<1>1. /\ Len(q) \in Nat /\ DOMAIN q = 1 .. Len(q) /\ Len(t) \in Nat /\ DOMAIN t = 1 .. Len(t)
      /\ q \o t \in Seq(S) /\ Len(q \o t) = Len(q) + Len(t)
      /\ DOMAIN (q \o t) = 1 .. Len(q) + Len(t)
      /\ \A i \in 1 .. Len(q) + Len(t) :
            (q \o t)[i] = IF i <= Len(q) THEN q[i] ELSE t[i - Len(q)]
  BY ConcatProperties
<1>2. \A i \in DOMAIN (q \o t) :
         \/ i \in DOMAIN q /\ (q \o t)[i] = q[i]
         \/ (q \o t)[i].id = 0
  BY <1>1
<1>3. QED
  BY <1>1, <1>2 DEF Waited, Once

\* The command of a step of the run.
LEMMA RunCommandTyped ==
    ASSUME Shape(run), run.pc \in Asking
    PROVE  /\ RunCommand \in Commands /\ RunCommand.id = 1
           /\ run.pc = "undo" => RunCommand.op = "cancel"
<1>1. 0 \in Levels /\ run.index \in Levels
  BY NumberFacts DEF Levels, Shape, RunType
<1>2. CASE run.pc \in {"check", "before", "after"}
  BY <1>1, <1>2 DEF RunCommand, Command, Commands
<1>3. CASE run.pc = "begin"
  BY <1>1, <1>3 DEF RunCommand, Command, Commands
<1>4. CASE run.pc = "set"
  BY <1>1, <1>4 DEF RunCommand, Command, Commands
<1>5. CASE run.pc = "undo"
  BY <1>1, <1>5 DEF RunCommand, Command, Commands
<1>6. QED
  BY <1>2, <1>3, <1>4, <1>5 DEF Asking

\* Queues, statuses and replies stay typed, whoever sends, takes or gives up.
LEMMA PhoneStepTyped == ASSUME Typed, [Next]_vars PROVE PhoneTypeOK'
<1>1. /\ phone \in [Phones -> PhoneRecord] /\ link \subseteq Phones
      /\ wire \in [Phones -> Seq(Commands)] /\ reports \in [Phones -> Seq(Statuses)]
      /\ device \in [Phones -> Statuses \cup {None}]
      /\ reply \in [Phones -> Statuses \cup {None}]
      /\ touched \subseteq Phones /\ faults \in 0 .. MaxFaults
  BY PhoneParts DEF Typed
<1>2. ASSUME phone' = phone, link' \subseteq Phones,
             wire' \in [Phones -> Seq(Commands)], reports' \in [Phones -> Seq(Statuses)],
             device' \in [Phones -> Statuses \cup {None}],
             reply' \in [Phones -> Statuses \cup {None}],
             touched' = touched, faults' \in 0 .. MaxFaults
      PROVE  PhoneTypeOK'
  <2>1. phone' \in [Phones -> PhoneRecord] /\ touched' \subseteq Phones
    BY <1>1, <1>2
  <2>2. QED
    BY <1>2, <2>1, Zenon DEF PhoneTypeOK, PhoneRecord
<1>3. ASSUME NEW p \in Phones, AtPhone(p) PROVE PhoneTypeOK'
  BY <1>3, AtPhoneTyped DEF Typed
<1>4. CASE UNCHANGED phoneVars
  BY <1>1, <1>2, <1>4 DEF phoneVars, linkVars
<1>5. ASSUME NEW late \in SUBSET Phones, NEW ready \in SUBSET Phones, Refresh(late, ready)
      PROVE  PhoneTypeOK'
  <2>1. \A p \in Phones : /\ Forgotten(wire[p]) \in Seq(Commands)
                          /\ Forgotten(reports[p]) \in Seq(Statuses)
    BY <1>1, ForgottenQueue
  <2>2. \A p \in ready : pending[p] \in Levels
    BY <1>5 DEF Refresh, Typed, PanelOK
  <2>3. \A p \in ready : /\ Command("begin", 0, 1) \in Commands
                         /\ Command("set", pending[p], 1) \in Commands
    BY <2>2, NumberFacts DEF Command, Commands, Levels
  <2>4. \A p \in ready : /\ Append(Forgotten(wire[p]), Command("begin", 0, 1)) \in Seq(Commands)
                         /\ Append(Forgotten(wire[p]), Command("set", pending[p], 1)) \in Seq(Commands)
    BY <2>1, <2>3, AppendQueue
  <2>5. wire' \in [Phones -> Seq(Commands)]
    BY <1>1, <1>5, <2>1, <2>4 DEF Refresh
  <2>6. reports' \in [Phones -> Seq(Statuses)]
    BY <1>1, <1>5, <2>1 DEF Refresh
  <2>7. reply' \in [Phones -> Statuses \cup {None}]
    BY <1>1, <1>5 DEF Refresh
  <2>8. faults' \in 0 .. MaxFaults
    BY <1>5, FaultTyped DEF Refresh, Typed
  <2>9. QED
    BY <1>1, <1>2, <1>5, <2>5, <2>6, <2>7, <2>8 DEF Refresh
<1>6. CASE Calibrate \/ Goodbye
  <2>1. \A p \in Phones : Append(wire[p], CancelMessage) \in Seq(Commands)
    BY <1>1, AppendQueue, FarewellTyped
  <2>2. wire' \in [Phones -> Seq(Commands)]
    BY <1>1, <1>6, <2>1 DEF Calibrate, Goodbye
  <2>3. QED
    BY <1>1, <1>2, <1>6, <2>2 DEF Calibrate, Goodbye
<1>7. CASE Close
  <2>1. \A p \in Phones : /\ Farewells(p) \in Seq(Commands)
                          /\ \A i \in DOMAIN Farewells(p) : Farewells(p)[i].id = 0
    BY FarewellTyped DEF Typed, PanelOK
  <2>2. \A p \in Phones : wire[p] \o Farewells(p) \in Seq(Commands)
    BY <1>1, <2>1, ConcatQueue
  <2>3. wire' \in [Phones -> Seq(Commands)]
    BY <1>1, <1>7, <2>2 DEF Close
  <2>4. QED
    BY <1>1, <1>2, <1>7, <2>3 DEF Close
<1>8. CASE Die
  <2>1. <<>> \in Seq(Commands) /\ <<>> \in Seq(Statuses)
    OBVIOUS
  <2>2. QED
    BY <1>1, <1>2, <1>8, <2>1 DEF Die, Without
<1>9. CASE Ask
  <2>1. run.p \in Phones /\ RunCommand \in Commands
    BY <1>9, RunCommandTyped DEF Ask, Typed, Shape, RunType
  <2>2. Append(wire[run.p], RunCommand) \in Seq(Commands)
    BY <1>1, <2>1, AppendQueue
  <2>3. wire' \in [Phones -> Seq(Commands)]
    BY <1>1, <1>9, <2>2 DEF Ask
  <2>4. QED
    BY <1>1, <1>2, <1>9, <2>3 DEF Ask, RunFrame
<1>10. CASE TakeReply
  BY <1>1, <1>2, <1>10 DEF TakeReply, RunFrame
<1>11. CASE GiveUp
  <2>1. \A p \in Phones : /\ Forgotten(wire[p]) \in Seq(Commands)
                          /\ Forgotten(reports[p]) \in Seq(Statuses)
    BY <1>1, ForgottenQueue
  <2>2. /\ wire' \in [Phones -> Seq(Commands)] /\ reports' \in [Phones -> Seq(Statuses)]
        /\ reply' \in [Phones -> Statuses \cup {None}]
    BY <1>1, <1>11, <2>1 DEF GiveUp, Abandon
  <2>3. faults' \in 0 .. MaxFaults
    BY <1>11, FaultTyped DEF GiveUp, Typed
  <2>4. QED
    BY <1>1, <1>2, <1>11, <2>2, <2>3 DEF GiveUp, RunFrame
<1>12. CASE Listen \/ Sound \/ Choose
  BY <1>4, <1>12, Zenon DEF Listen, Sound, Choose, RunFrame, phoneVars, linkVars
<1>13. CASE Open \/ Cancel \/ Exit \/ Finish \/ UNCHANGED vars
  BY <1>4, <1>13, Zenon DEF Open, Cancel, Exit, Finish, vars
<1>14. ASSUME NEW p \in Phones, NEW level \in Levels, DeviceVolume(p, level) PROVE PhoneTypeOK'
  BY <1>4, <1>14 DEF DeviceVolume
<1>15. QED
  BY <1>3, <1>5, <1>6, <1>7, <1>8, <1>9, <1>10, <1>11, <1>12, <1>13, <1>14, Zenon
     DEF Next, RunStep

\* What the steps of the run do to it. Only a reply that confirms makes a phone
\* undone without naming it.
LEMMA RunShape ==
    ASSUME Typed, [Next]_vars
    PROVE  /\ Shape(run')
           /\ UNCHANGED run \/ Ask \/ ~run'.sent
           /\ \A q \in run'.undone \ run'.failed :
                 /\ run'.orig = run.orig
                 /\ \/ q \in run.undone \ run.failed
                    \/ /\ TakeReply /\ run.pc = "undo" /\ q = run.p
                       /\ Confirmed(reply[q], run.orig[q])
<1>1. Shape(run) /\ run \in RunType /\ reply \in [Phones -> Statuses \cup {None}] /\ run.p \in Phones
  BY PhoneParts DEF Typed, Shape, RunType
<1> DEFINE Goal == /\ Shape(run')
                   /\ UNCHANGED run \/ Ask \/ ~run'.sent
                   /\ \A q \in run'.undone \ run'.failed :
                        /\ run'.orig = run.orig
                        /\ \/ q \in run.undone \ run.failed
                           \/ /\ TakeReply /\ run.pc = "undo" /\ q = run.p
                              /\ Confirmed(reply[q], run.orig[q])
<1>2. CASE UNCHANGED run
  BY <1>1, <1>2
<1>3. CASE run' = Failed(run)
  BY <1>1, <1>3, FailedShape
<1>4. CASE run' = NoRun
  BY <1>4, NoRunShape, NoRunTyped
<1>5. CASE Calibrate
  <2>1. run' = [NoRun EXCEPT !.pc = "check"]
    BY <1>5 DEF Calibrate
  <2>2. run'.undone = {} /\ ~run'.sent
    BY <2>1, NoRunTyped DEF RunType
  <2>3. QED
    BY <2>1, <2>2, NoRunShape
<1>6. CASE Ask
  <2>1. run' = [run EXCEPT !.sent = TRUE,
                           !.begun = IF run.pc = "begin" THEN @ \cup {run.p} ELSE @]
    BY <1>6 DEF Ask
  <2>2. /\ run' \in RunType /\ run'.pc = run.pc /\ run'.p = run.p /\ run'.orig = run.orig
        /\ run'.undone = run.undone /\ run'.failed = run.failed
        /\ run.begun \subseteq run'.begun /\ (run.pc # "begin" => run'.begun = run.begun)
    BY <1>1, <2>1 DEF RunType
  <2>3. run.pc \in Asking
    BY <1>6 DEF Ask
  <2>4. Shape(run')
    BY <1>1, <2>2, <2>3 DEF Shape, Asking
  <2>5. QED
    BY <1>6, <2>2, <2>4
<1>7. CASE TakeReply
  <2>1. run.pc \in Asking /\ reply[run.p] \in Statuses /\ run' = Answered(run, reply[run.p])
    BY <1>1, <1>7 DEF TakeReply, Shape
  <2>2. QED
    BY <1>1, <1>7, <2>1, AnsweredShape
<1>8. CASE Listen /\ run' = NextJob([run EXCEPT !.jobs = Curves])
  <2>1. run.undone = {} /\ run.failed = {}
    BY <1>1, <1>8 DEF Shape, Listen
  <2>2. /\ [run EXCEPT !.jobs = Curves] \in RunType
        /\ [run EXCEPT !.jobs = Curves].undone = {} /\ [run EXCEPT !.jobs = Curves].failed = {}
    BY <1>1, <2>1, CurvesTyped DEF RunType
  <2>3. QED
    BY <1>8, <2>2, NextJobShape
<1>9. ASSUME Sound, NEW heard \in BOOLEAN, run' = [run EXCEPT !.pc = "after", !.heard = heard]
      PROVE  Goal
  <2>1. run.pc = "sound" /\ run.undone = {} /\ run.failed = {} /\ ~run.sent
    BY <1>1, <1>9 DEF Sound, Shape, Asking
  <2>2. /\ run' \in RunType /\ run'.pc = "after" /\ run'.undone = {} /\ run'.failed = {}
        /\ run'.sent = run.sent
    BY <1>1, <1>9, <2>1 DEF RunType, Asking
  <2>3. QED
    BY <2>1, <2>2 DEF Shape
<1>10. CASE Choose
  <2> DEFINE heard == IF run.left = None
                      THEN {fi \in Followers \X Indices : <<Master, fi[2]>> \in run.points}
                      ELSE run.left
  <2>1. run.pc = "choose" /\ run.undone = {} /\ run.failed = {} /\ ~run.sent
    BY <1>1, <1>10 DEF Choose, Shape, Asking
  <2>2. heard \subseteq Phones \X Indices
    BY <1>1 DEF RunType, Followers
  <2>3. CASE run' = ToUndo([run EXCEPT !.good = TRUE])
    <3>1. /\ [run EXCEPT !.good = TRUE] \in RunType
          /\ [run EXCEPT !.good = TRUE].undone = {} /\ [run EXCEPT !.good = TRUE].failed = {}
      BY <1>1, <2>1 DEF RunType
    <3>2. QED
      BY <2>3, <3>1, ToUndoShape
  <2>4. ASSUME NEW fi \in heard PROVE
          /\ [run EXCEPT !.left = heard \ {fi}] \in RunType
          /\ [run EXCEPT !.left = heard \ {fi}].undone = {}
          /\ [run EXCEPT !.left = heard \ {fi}].failed = {}
          /\ [run EXCEPT !.left = heard \ {fi}].pc = "choose"
          /\ [run EXCEPT !.left = heard \ {fi}].sent = run.sent
    <3> HIDE DEF heard
    <3>1. heard \ {fi} \in (SUBSET (Phones \X Indices)) \cup {None}
      BY <2>2
    <3>2. QED
      BY <1>1, <2>1, <3>1 DEF RunType
  <2>5. ASSUME NEW fi \in heard, run' = [run EXCEPT !.left = heard \ {fi}] PROVE Goal
    <3>1. run' \in RunType /\ run'.undone = {} /\ run'.failed = {} /\ run'.pc = "choose" /\ ~run'.sent
      BY <2>1, <2>4, <2>5
    <3>2. QED
      BY <3>1 DEF Shape
  <2>6. ASSUME NEW fi \in heard, NEW j \in Indices,
               run' = NextJob([[run EXCEPT !.left = heard \ {fi}] EXCEPT
                                  !.jobs = <<<<Master, fi[2]>>, <<fi[1], j>>>>])
        PROVE  Goal
    <3> HIDE DEF heard
    <3>1. PICK rest \in RunType : rest = [run EXCEPT !.left = heard \ {fi}]
      BY <2>4
    <3>2. rest.undone = {} /\ rest.failed = {}
      BY <2>4, <3>1
    <3>3. fi \in Phones \X Indices /\ Master \in Phones
      BY <2>2, OrderFacts
    <3>4. <<<<Master, fi[2]>>, <<fi[1], j>>>> \in Jobs
      <4>1. <<Master, fi[2]>> \in Phones \X Indices /\ <<fi[1], j>> \in Phones \X Indices
        BY <3>3
      <4>2. QED
        BY <4>1 DEF Jobs
    <3>5. PICK jobs \in Jobs : jobs = <<<<Master, fi[2]>>, <<fi[1], j>>>>
      BY <3>4
    <3>6. /\ [rest EXCEPT !.jobs = jobs] \in RunType
          /\ [rest EXCEPT !.jobs = jobs].undone = {} /\ [rest EXCEPT !.jobs = jobs].failed = {}
      BY <3>2 DEF RunType
    <3>7. run' = NextJob([rest EXCEPT !.jobs = jobs])
      BY <2>6, <3>1, <3>5
    <3>8. QED
      BY <3>6, <3>7, NextJobShape
  <2>7. QED
    BY <1>3, <1>10, <2>3, <2>5, <2>6 DEF Choose
<1>11. CASE RunStep
  BY <1>3, <1>4, <1>6, <1>7, <1>8, <1>9, <1>10, <1>11 DEF RunStep, GiveUp, Listen, Sound, Finish
<1>12. ASSUME NEW p \in Phones, NEW level \in Levels, DeviceVolume(p, level) PROVE UNCHANGED run
  BY <1>12 DEF DeviceVolume
<1>13. ASSUME NEW late \in SUBSET Phones, NEW ready \in SUBSET Phones, Refresh(late, ready)
       PROVE  UNCHANGED run
  BY <1>13 DEF Refresh
<1>14. ASSUME Open \/ Cancel \/ Close \/ Exit \/ Goodbye PROVE UNCHANGED run
  BY <1>14 DEF Open, Cancel, Close, Exit, Goodbye
<1>15. QED
  BY <1>2, <1>4, <1>5, <1>11, <1>12, <1>13, <1>14, Zenon DEF Next, Die, serverVars, vars

\* The types of the calibration: whatever phones, connections, the operator and the
\* run do, every command, status, level and mark is one the code could hold.
THEOREM Typing == Spec => []TypeOK
<1>1. Init => Typed
  BY InitTyped
<1>2. Typed /\ [Next]_vars => Typed'
  <2> SUFFICES ASSUME Typed, [Next]_vars PROVE Typed'
    OBVIOUS
  <2>1. PhoneTypeOK' /\ PanelOK' /\ FlagsOK'
    BY PhoneStepTyped, PanelStep, FlagsStep
  <2>2. Shape(run')
    BY RunShape
  <2>3. QED
    BY <2>1, <2>2, Zenon DEF Typed
<1>3. QED
  BY <1>1, <1>2, TypedIsTypeOK, PTL DEF Spec

-----------------------------------------------------------------------------
(* Requests: one at a time, and none that nobody waits for.                 *)

\* A phone's request is a command, a status on its way back or a reply.
Single(p) ==
    /\ Once(wire[p]) /\ Once(reports[p])
    /\ Waited(wire[p]) => ~Waited(reports[p]) /\ reply[p] = None
    /\ Waited(reports[p]) => reply[p] = None

Asked(p) == waits[p] # None \/ (run.sent /\ run.p = p)

Idle(p) == ~Waited(wire[p]) /\ ~Waited(reports[p]) /\ reply[p] = None

RequestsOK ==
    /\ Running => \A p \in Phones : pending[p] = None /\ waits[p] = None
    /\ \A p \in Phones : Single(p) /\ (~Asked(p) => Idle(p))

-----------------------------------------------------------------------------
(* Restoring.                                                               *)

At(p, level) == phone[p].original = None /\ (phone[p].volume = level \/ p \in touched)

\* Once the phone has answered the cancel it stands where its answer says, and nothing
\* but further cancels can reach it.
Undoing(p) ==
    /\ CancelsLast(wire[p])
    /\ \A i \in DOMAIN reports[p] :
          reports[p][i].id = 1 => OnlyCancels(wire[p]) /\ At(p, reports[p][i].volume)
    /\ reply[p] # None => OnlyCancels(wire[p]) /\ At(p, reply[p].volume)

UndoOK ==
    /\ run.pc = "undo" /\ run.sent => Undoing(run.p)
    /\ \A p \in run.undone \ run.failed : OnlyCancels(wire[p]) /\ At(p, run.orig[p])

-----------------------------------------------------------------------------
(* What happens at a phone.                                                 *)

\* The messages of a queue that grew, or of which the first was taken.
LEMMA Entries ==
    ASSUME NEW S, NEW q \in Seq(S)
    PROVE  /\ \A e \in S : \A i \in DOMAIN Append(q, e) :
                 Append(q, e)[i] = e \/ \E j \in DOMAIN q : Append(q, e)[i] = q[j]
           /\ q # <<>> => /\ \A i \in DOMAIN Tail(q) : \E j \in DOMAIN q : Tail(q)[i] = q[j]
                          /\ \E j \in DOMAIN q : Head(q) = q[j]
<1>1. Len(q) \in Nat /\ DOMAIN q = 1 .. Len(q)
  OBVIOUS
<1>2. ASSUME NEW e \in S, NEW i \in DOMAIN Append(q, e)
      PROVE  Append(q, e)[i] = e \/ \E j \in DOMAIN q : Append(q, e)[i] = q[j]
  <2>1. i = Len(q) + 1 \/ i \in DOMAIN q
    BY <1>1
  <2>2. (i = Len(q) + 1 => Append(q, e)[i] = e) /\ (i \in DOMAIN q => Append(q, e)[i] = q[i])
    BY <1>1
  <2>3. QED
    BY <2>1, <2>2
<1>3. ASSUME q # <<>>
      PROVE  /\ \A i \in DOMAIN Tail(q) : \E j \in DOMAIN q : Tail(q)[i] = q[j]
             /\ \E j \in DOMAIN q : Head(q) = q[j]
  <2>1. /\ \A i \in DOMAIN Tail(q) : i + 1 \in DOMAIN q /\ Tail(q)[i] = q[i + 1]
        /\ 1 \in DOMAIN q /\ Head(q) = q[1]
    BY <1>1, <1>3
  <2>2. QED
    BY <2>1
<1>4. QED
  BY <1>2, <1>3

\* A phone takes a command, says something nobody waits for, is heard, or is lost.
LEMMA Traffic ==
    ASSUME PhoneTypeOK, NEW p \in Phones, AtPhone(p)
    PROVE  \/ ApplyPending(p)
           \/ /\ UNCHANGED <<wire, reply>>
              /\ \/ UNCHANGED reports
                 \/ \E s \in Statuses : s.id = 0 /\ Say(p, s)
           \/ Deliver(p)
           \/ LoseLink(p)
<1>1. phone[p] \in PhoneRecord
  BY PhoneParts
<1>2. CASE Announce(p)
  BY <1>1, <1>2, StatusTyped DEF Announce
<1>3. CASE EndSession(p)
  BY <1>3 DEF EndSession
<1>4. CASE Expire(p)
  <2>1. Cancelled(phone[p]) \in PhoneRecord /\ CancelFails(phone[p]) \in BOOLEAN
    BY <1>1, CancelledTyped DEF CancelFails, PhoneRecord
  <2>2. QED
    BY <1>4, <2>1, StatusTyped DEF Expire
<1>5. CASE RouteChanged(p)
  <2> DEFINE other == [phone[p] EXCEPT !.speaker = ~@]
             becomes == IF other.speaker THEN other ELSE Cancelled(other)
             failed == ~other.speaker /\ CancelFails(other)
  <2>1. other \in PhoneRecord
    BY <1>1 DEF PhoneRecord
  <2>2. becomes \in PhoneRecord /\ failed \in BOOLEAN
    BY <2>1, CancelledTyped
  <2>3. Status(becomes, failed, 0) \in Statuses /\ Status(becomes, failed, 0).id = 0
    BY <2>2, StatusTyped
  <2>4. /\ Say(p, Status(becomes, failed, 0)) \/ UNCHANGED reports
        /\ UNCHANGED <<wire, reply>>
    BY <1>5 DEF RouteChanged
  <2> HIDE DEF becomes, failed
  <2>5. QED
    BY <2>3, <2>4
<1>6. CASE \E level \in Levels : VolumeKey(p, level)
  BY <1>6 DEF VolumeKey
<1>7. QED
  BY <1>2, <1>3, <1>4, <1>5, <1>6 DEF AtPhone, PhoneStep

\* Nothing happens to the other phones.
LEMMA OthersKept ==
    ASSUME PhoneTypeOK, NEW p \in Phones, AtPhone(p), NEW q \in Phones, q # p
    PROVE  /\ phone'[q] = phone[q] /\ wire'[q] = wire[q] /\ reports'[q] = reports[q]
           /\ reply'[q] = reply[q] /\ (q \in touched' <=> q \in touched)
<1>1. /\ phone \in [Phones -> PhoneRecord] /\ wire \in [Phones -> Seq(Commands)]
      /\ reports \in [Phones -> Seq(Statuses)] /\ reply \in [Phones -> Statuses \cup {None}]
  BY PhoneParts
<1>2. /\ phone' = phone \/ \E now : phone' = [phone EXCEPT ![p] = now]
      /\ q \in touched' <=> q \in touched
  <2>1. CASE ApplyPending(p)
    <3>1. \E now : phone' = [phone EXCEPT ![p] = now]
      BY <2>1, ApplyEffect
    <3>2. QED
      BY <2>1, <3>1 DEF ApplyPending
  <2>2. CASE Announce(p) \/ Deliver(p) \/ LoseLink(p)
    BY <2>2 DEF Announce, Deliver, LoseLink
  <2>3. CASE EndSession(p) \/ Expire(p)
    <3>1. phone' = [phone EXCEPT ![p] = Cancelled(phone[p])] /\ touched' = touched
      BY <2>3 DEF EndSession, Expire
    <3>2. QED
      BY <3>1
  <2>4. CASE RouteChanged(p)
    BY <2>4, Zenon DEF RouteChanged
  <2>5. ASSUME NEW level \in Levels, VolumeKey(p, level)
        PROVE  (\E now : phone' = [phone EXCEPT ![p] = now]) /\ (q \in touched' <=> q \in touched)
    <3>1. phone' = [phone EXCEPT ![p] = [phone[p] EXCEPT !.volume = level]]
      BY <1>1, <2>5 DEF VolumeKey
    <3>2. QED
      BY <2>5, <3>1 DEF VolumeKey
  <2>6. QED
    BY <2>1, <2>2, <2>3, <2>4, <2>5 DEF AtPhone, PhoneStep
<1>3. phone'[q] = phone[q]
  BY <1>1, <1>2
<1>4. wire'[q] = wire[q] /\ reports'[q] = reports[q] /\ reply'[q] = reply[q]
  <2>1. CASE ApplyPending(p)
    <3>1. (\E s : Say(p, s)) /\ wire' = [wire EXCEPT ![p] = Tail(@)] /\ reply' = reply
      BY <2>1, ApplyEffect DEF ApplyPending
    <3>2. QED
      BY <1>1, <3>1 DEF Say
  <2>2. CASE UNCHANGED <<wire, reply>> /\ (UNCHANGED reports \/ \E s \in Statuses : Say(p, s))
    BY <1>1, <2>2 DEF Say
  <2>3. CASE Deliver(p)
    BY <1>1, <2>3 DEF Deliver
  <2>4. CASE LoseLink(p)
    BY <1>1, <2>4 DEF LoseLink, Without
  <2>5. QED
    BY <2>1, <2>2, <2>3, <2>4, Traffic
<1>5. QED
  BY <1>2, <1>3, <1>4
\* What a phone does with the request of which it is a part keeps it one, and it makes
\* none up.
LEMMA RequestKept ==
    ASSUME PhoneTypeOK, NEW p \in Phones, AtPhone(p), Single(p)
    PROVE  Single(p)' /\ (Idle(p) => Idle(p)')
<1>1. /\ wire \in [Phones -> Seq(Commands)] /\ reports \in [Phones -> Seq(Statuses)]
      /\ reply \in [Phones -> Statuses \cup {None}]
      /\ wire[p] \in Seq(Commands) /\ reports[p] \in Seq(Statuses)
  BY PhoneParts
<1>2. CASE ApplyPending(p)
  <2>1. PICK now \in PhoneRecord, failed \in BOOLEAN : Say(p, Status(now, failed, Head(wire[p]).id))
    BY <1>2, ApplyEffect
  <2>2. wire[p] # <<>> /\ wire'[p] = Tail(wire[p]) /\ reply'[p] = reply[p]
    BY <1>1, <1>2 DEF ApplyPending
  <2>3. Head(wire[p]) \in Commands /\ Head(wire[p]).id \in {0, 1}
    <3>1. Head(wire[p]) \in Commands
      BY <1>1, <2>2, TailQueue
    <3>2. QED
      BY <3>1 DEF Commands
  <2>4. PICK s \in Statuses : s.id = Head(wire[p]).id /\ reports'[p] = Append(reports[p], s)
    BY <1>1, <2>1, <2>3, StatusTyped DEF Say
  <2>5. /\ Waited(wire'[p]) => Waited(wire[p])
        /\ Once(wire[p]) => Once(wire'[p])
        /\ Head(wire[p]).id = 1 => Waited(wire[p])
        /\ Once(wire[p]) /\ Head(wire[p]).id = 1 => ~Waited(wire'[p])
    BY <1>1, <2>2, TailQueue
  <2>6. /\ s.id # 1 /\ Waited(reports'[p]) => Waited(reports[p])
        /\ Once(reports[p]) /\ (s.id = 1 => ~Waited(reports[p])) => Once(reports'[p])
    BY <1>1, <2>4, AppendQueue
  <2>7. QED
    BY <2>2, <2>3, <2>4, <2>5, <2>6 DEF Single, Idle
<1>3. CASE UNCHANGED <<wire, reply, reports>>
  BY <1>3 DEF Single, Idle, Waited, Once
<1>4. ASSUME UNCHANGED <<wire, reply>>, NEW s \in Statuses, s.id = 0, Say(p, s)
      PROVE  Single(p)' /\ (Idle(p) => Idle(p)')
  <2>1. reports'[p] = Append(reports[p], s) /\ wire'[p] = wire[p] /\ reply'[p] = reply[p]
    BY <1>1, <1>4 DEF Say
  <2>2. (Waited(reports'[p]) => Waited(reports[p])) /\ (Once(reports[p]) => Once(reports'[p]))
    BY <1>1, <1>4, <2>1, AppendQueue
  <2>3. QED
    BY <2>1, <2>2 DEF Single, Idle
<1>5. CASE Deliver(p)
  <2>1. /\ reports[p] # <<>> /\ wire'[p] = wire[p] /\ reports'[p] = Tail(reports[p])
        /\ reply'[p] = IF Head(reports[p]).id = 1 THEN Head(reports[p]) ELSE reply[p]
    BY <1>1, <1>5 DEF Deliver
  <2>2. /\ Waited(reports'[p]) => Waited(reports[p])
        /\ Once(reports[p]) => Once(reports'[p])
        /\ Head(reports[p]).id = 1 => Waited(reports[p])
        /\ Once(reports[p]) /\ Head(reports[p]).id = 1 => ~Waited(reports'[p])
    BY <1>1, <2>1, TailQueue
  <2>3. QED
    BY <2>1, <2>2 DEF Single, Idle
<1>6. CASE LoseLink(p)
  <2>1. wire'[p] = <<>> /\ reports'[p] = <<>> /\ reply'[p] = None
    BY <1>1, <1>6 DEF LoseLink, Without
  <2>2. QED
    BY <2>1, EmptyQueue DEF Single, Idle
<1>7. QED
  BY <1>2, <1>3, <1>4, <1>5, <1>6, Traffic

\* A phone out of its session, to which only cancels are on their way, keeps its volume
\* unless somebody presses its keys.
LEMMA VolumeKept ==
    ASSUME PhoneTypeOK, NEW p \in Phones, AtPhone(p), OnlyCancels(wire[p]), NEW level, At(p, level)
    PROVE  OnlyCancels(wire[p])' /\ At(p, level)'
<1>1. /\ phone \in [Phones -> PhoneRecord] /\ wire \in [Phones -> Seq(Commands)]
      /\ phone[p] \in PhoneRecord /\ wire[p] \in Seq(Commands) /\ phone[p].original = None
      /\ touched \subseteq Phones
  BY PhoneParts DEF At
<1>2. \A ph \in PhoneRecord : ph.original = None =>
         Cancelled(ph).original = None /\ Cancelled(ph).volume = ph.volume
  BY DEF Cancelled, PhoneRecord
<1>3. OnlyCancels(wire[p])'
  <2>1. CASE ApplyPending(p)
    <3>1. wire[p] # <<>> /\ wire'[p] = Tail(wire[p])
      BY <1>1, <2>1 DEF ApplyPending
    <3>2. OnlyCancels(wire'[p])
      BY <1>1, <3>1, TailQueue
    <3>3. QED
      BY <3>2 DEF OnlyCancels
  <2>2. CASE UNCHANGED wire
    BY <2>2 DEF OnlyCancels
  <2>3. CASE LoseLink(p)
    <3>1. wire'[p] = <<>>
      BY <2>3 DEF LoseLink, Without
    <3>2. QED
      BY <3>1, EmptyQueue DEF OnlyCancels
  <2>4. QED
    BY <2>1, <2>2, <2>3, Traffic DEF Deliver
<1>4. CASE ApplyPending(p)
  <2>1. Head(wire[p]).op = "cancel"
    BY <1>1, <1>4, TailQueue DEF ApplyPending
  <2>2. PICK now \in PhoneRecord :
           phone' = [phone EXCEPT ![p] = now] /\ now = Applied(phone[p], Head(wire[p]))
    BY <1>1, <1>4, <2>1, ApplyEffect
  <2>3. now = Cancelled(phone[p])
    BY <2>1, <2>2 DEF Applied
  <2>4. phone'[p].original = None /\ phone'[p].volume = phone[p].volume
    BY <1>1, <1>2, <2>2, <2>3
  <2>5. touched' = touched
    BY <1>1, <1>4 DEF ApplyPending
  <2>6. QED
    BY <1>3, <2>4, <2>5 DEF At
<1>5. CASE UNCHANGED <<phone, touched>>
  BY <1>3, <1>5 DEF At
<1>6. CASE EndSession(p) \/ Expire(p)
  BY <1>1, <1>6 DEF EndSession, Expire, Unattended
<1>7. CASE RouteChanged(p)
  <2>1. PICK other \in PhoneRecord :
           other = [phone[p] EXCEPT !.speaker = ~@] /\ other.original = None
           /\ other.volume = phone[p].volume
    <3>1. /\ [phone[p] EXCEPT !.speaker = ~@] \in PhoneRecord
          /\ [phone[p] EXCEPT !.speaker = ~@].original = None
          /\ [phone[p] EXCEPT !.speaker = ~@].volume = phone[p].volume
      BY <1>1 DEF PhoneRecord
    <3>2. QED
      BY <3>1
  <2>2. /\ phone' = [phone EXCEPT ![p] = IF other.speaker THEN other ELSE Cancelled(other)]
        /\ touched' = touched
    BY <1>7, <2>1 DEF RouteChanged
  <2>3. phone'[p].original = None /\ phone'[p].volume = phone[p].volume
    BY <1>1, <1>2, <2>1, <2>2
  <2>4. QED
    BY <1>3, <2>2, <2>3 DEF At
<1>8. ASSUME NEW key \in Levels, VolumeKey(p, key) PROVE At(p, level)'
  <2>1. phone'[p].original = phone[p].original /\ p \in touched'
    BY <1>1, <1>8 DEF VolumeKey, PhoneRecord
  <2>2. QED
    BY <1>1, <2>1 DEF At
<1>9. QED
  BY <1>3, <1>4, <1>5, <1>6, <1>7, <1>8 DEF AtPhone, PhoneStep, Announce, Deliver, LoseLink

\* The phone answers the cancel with where it stands, and stays there.
LEMMA UndoingKept ==
    ASSUME PhoneTypeOK, NEW p \in Phones, AtPhone(p), Single(p), Undoing(p)
    PROVE  Undoing(p)'
<1>1. /\ phone \in [Phones -> PhoneRecord] /\ wire \in [Phones -> Seq(Commands)]
      /\ reports \in [Phones -> Seq(Statuses)]
      /\ reply \in [Phones -> Statuses \cup {None}]
      /\ phone[p] \in PhoneRecord /\ wire[p] \in Seq(Commands) /\ reports[p] \in Seq(Statuses)
  BY PhoneParts
<1> DEFINE Stands(level) == OnlyCancels(wire[p]) /\ At(p, level)
           Stood(level) == /\ OnlyCancels(wire'[p]) /\ phone'[p].original = None
                           /\ phone'[p].volume = level \/ p \in touched'
<1>2. ASSUME NEW level, Stands(level) PROVE Stood(level)
  <2>1. OnlyCancels(wire[p])' /\ At(p, level)'
    BY <1>2, VolumeKept
  <2>2. QED
    BY <2>1 DEF OnlyCancels, At
<1>3. /\ CancelsLast(wire[p])
      /\ \A i \in DOMAIN reports[p] : reports[p][i].id = 1 => Stands(reports[p][i].volume)
      /\ reply[p] # None => Stands(reply[p].volume)
  BY DEF Undoing
<1>4. ASSUME CancelsLast(wire'[p]),
             \A i \in DOMAIN reports'[p] : reports'[p][i].id = 1 => Stood(reports'[p][i].volume),
             reply'[p] # None => Stood(reply'[p].volume)
      PROVE  Undoing(p)'
  <2>1. CancelsLast(wire[p])'
    BY <1>4 DEF CancelsLast
  <2>2. (\A i \in DOMAIN reports[p] :
           reports[p][i].id = 1 => OnlyCancels(wire[p]) /\ At(p, reports[p][i].volume))'
    BY <1>4 DEF OnlyCancels, At
  <2>3. (reply[p] # None => OnlyCancels(wire[p]) /\ At(p, reply[p].volume))'
    BY <1>4 DEF OnlyCancels, At
  <2>4. QED
    BY <2>1, <2>2, <2>3 DEF Undoing
<1>5. CASE ApplyPending(p)
  <2>1. PICK now \in PhoneRecord, failed \in BOOLEAN :
           /\ phone' = [phone EXCEPT ![p] = now]
           /\ Say(p, Status(now, failed, Head(wire[p]).id))
           /\ \/ now = phone[p] /\ Head(wire[p]).op # "cancel"
              \/ now = Applied(phone[p], Head(wire[p]))
              \/ now = [Applied(phone[p], Head(wire[p])) EXCEPT !.volume = now.volume]
    BY <1>5, ApplyEffect
  <2>2. wire[p] # <<>> /\ wire'[p] = Tail(wire[p]) /\ reply'[p] = reply[p]
    BY <1>1, <1>5 DEF ApplyPending
  <2>3. Head(wire[p]) \in Commands /\ Head(wire[p]).id \in {0, 1}
    <3>1. Head(wire[p]) \in Commands
      BY <1>1, <2>2, TailQueue
    <3>2. QED
      BY <3>1 DEF Commands
  <2>4. PICK s \in Statuses : /\ s.id = Head(wire[p]).id /\ s.volume = now.volume
                              /\ reports'[p] = Append(reports[p], s)
    BY <1>1, <2>1, <2>3, StatusTyped DEF Say
  <2>5. /\ CancelsLast(wire'[p])
        /\ Head(wire[p]).id = 1 =>
              Head(wire[p]).op = "cancel" /\ OnlyCancels(wire'[p]) /\ Waited(wire[p])
    BY <1>1, <1>3, <2>2, TailQueue
  <2>6. \A i \in DOMAIN reports'[p] :
           reports'[p][i] = s \/ \E j \in DOMAIN reports[p] : reports'[p][i] = reports[p][j]
    BY <1>1, <2>4, Entries
  <2>7. CASE Head(wire[p]).id = 1
    <3>1. ~Waited(reports[p]) /\ reply[p] = None
      BY <2>5, <2>7 DEF Single
    <3>2. now.original = None
      <4>1. /\ Applied(phone[p], Head(wire[p])) \in PhoneRecord
            /\ Applied(phone[p], Head(wire[p])).original = None
        BY <1>1, <2>5, <2>7, CancelledTyped DEF Applied
      <4>2. QED
        BY <2>1, <2>5, <2>7, <4>1 DEF PhoneRecord
    <3>3. phone'[p] = now
      BY <1>1, <2>1
    <3>4. Stood(s.volume)
      BY <2>4, <2>5, <2>7, <3>2, <3>3 DEF At, OnlyCancels
    <3>5. \A i \in DOMAIN reports'[p] : reports'[p][i].id = 1 => reports'[p][i] = s
      BY <2>6, <3>1 DEF Waited
    <3> HIDE DEF Stood
    <3>6. QED
      BY <1>4, <2>2, <2>5, <3>1, <3>4, <3>5
  <2>8. CASE Head(wire[p]).id # 1
    <3> HIDE DEF Stood, Stands
    <3>1. QED
      BY <1>2, <1>3, <1>4, <2>2, <2>4, <2>5, <2>6, <2>8
  <2>9. QED
    BY <2>7, <2>8
<1> HIDE DEF Stood, Stands
<1>6. CASE UNCHANGED <<wire, reply, reports>>
  BY <1>2, <1>3, <1>4, <1>6
<1>7. ASSUME UNCHANGED <<wire, reply>>, NEW s \in Statuses, s.id = 0, Say(p, s)
      PROVE  Undoing(p)'
  <2>1. reports'[p] = Append(reports[p], s) /\ wire'[p] = wire[p] /\ reply'[p] = reply[p]
    BY <1>1, <1>7 DEF Say
  <2>2. \A i \in DOMAIN reports'[p] :
           reports'[p][i] = s \/ \E j \in DOMAIN reports[p] : reports'[p][i] = reports[p][j]
    BY <1>1, <2>1, Entries
  <2>3. QED
    BY <1>2, <1>3, <1>4, <1>7, <2>1, <2>2
<1>8. CASE Deliver(p)
  <2>1. /\ reports[p] # <<>> /\ wire'[p] = wire[p] /\ reports'[p] = Tail(reports[p])
        /\ reply'[p] = IF Head(reports[p]).id = 1 THEN Head(reports[p]) ELSE reply[p]
    BY <1>1, <1>8 DEF Deliver
  <2>2. /\ \A i \in DOMAIN reports'[p] : \E j \in DOMAIN reports[p] : reports'[p][i] = reports[p][j]
        /\ \E j \in DOMAIN reports[p] : Head(reports[p]) = reports[p][j]
    BY <1>1, <2>1, Entries
  <2>3. QED
    BY <1>2, <1>3, <1>4, <2>1, <2>2
<1>9. CASE LoseLink(p)
  <2>1. wire'[p] = <<>> /\ reports'[p] = <<>> /\ reply'[p] = None
    BY <1>1, <1>9 DEF LoseLink, Without
  <2>2. QED
    BY <1>4, <2>1, EmptyQueue
<1>10. QED
  BY <1>5, <1>6, <1>7, <1>8, <1>9, Traffic
-----------------------------------------------------------------------------
(* The invariant and its steps.                                             *)

Inv == Typed /\ RequestsOK /\ UndoOK

\* What the panel does while a run measures: nothing is waited for or sent.
LEMMA RefreshWhileRunning ==
    ASSUME Typed, RequestsOK, Running, NEW late \in SUBSET Phones, NEW ready \in SUBSET Phones,
           Refresh(late, ready)
    PROVE  /\ UNCHANGED <<wire, reports, reply>>
           /\ \A p \in Phones : pending'[p] = None /\ waits'[p] = None
<1>1. /\ wire \in [Phones -> Seq(Commands)] /\ reports \in [Phones -> Seq(Statuses)]
      /\ reply \in [Phones -> Statuses \cup {None}]
  BY PhoneParts DEF Typed
<1>2. \A p \in Phones : pending[p] = None /\ waits[p] = None
  BY DEF RequestsOK
<1>3. ready = {}
  BY DEF Refresh
<1>4. {p \in Phones : waits[p] # None} = {}
  BY <1>2
<1>5. late = {}
  BY <1>4 DEF Refresh
<1>6. /\ wire' = [p \in Phones |-> wire[p]] /\ reports' = [p \in Phones |-> reports[p]]
      /\ reply' = [p \in Phones |-> reply[p]]
      /\ pending' = [p \in Phones |-> pending[p]] /\ waits' = [p \in Phones |-> waits[p]]
  BY <1>3, <1>4, <1>5 DEF Refresh
<1>7. QED
  BY <1>1, <1>2, <1>6

\* The panel keeps to itself while a run measures.
LEMMA PanelWaits ==
    ASSUME Typed, RequestsOK, [Next]_vars, Running'
    PROVE  \A p \in Phones : pending'[p] = None /\ waits'[p] = None
<1>1. ASSUME Running, UNCHANGED <<pending, waits>>
      PROVE  \A p \in Phones : pending'[p] = None /\ waits'[p] = None
  BY <1>1 DEF RequestsOK
<1>2. CASE (\E p \in Phones : AtPhone(p) /\ UNCHANGED serverVars) \/ UNCHANGED vars
  BY <1>1, <1>2, Zenon DEF serverVars, panelVars, vars, Running
<1>3. ASSUME NEW p \in Phones, NEW level \in Levels, DeviceVolume(p, level) PROVE FALSE
  BY <1>3 DEF DeviceVolume, Running
<1>4. ASSUME NEW late \in SUBSET Phones, NEW ready \in SUBSET Phones, Refresh(late, ready)
      PROVE  \A p \in Phones : pending'[p] = None /\ waits'[p] = None
  <2>1. Running
    BY <1>4 DEF Refresh, Running
  <2>2. QED
    BY <1>4, <2>1, RefreshWhileRunning
<1>5. CASE Open \/ Close
  BY <1>5, Zenon DEF Open, Close, Running
<1>6. CASE Cancel \/ Exit \/ Goodbye
  BY <1>1, <1>6, Zenon DEF Cancel, Exit, Goodbye, panelVars, Running
<1>7. CASE Calibrate
  BY <1>7 DEF Calibrate, Settled
<1>8. CASE Die \/ Finish
  BY <1>8, NoRunTyped DEF Die, Finish, Running
<1>9. CASE Ask \/ TakeReply \/ GiveUp \/ Listen \/ Sound \/ Choose
  <2>1. run.pc # "idle"
    BY <1>9 DEF Ask, TakeReply, GiveUp, Listen, Sound, Choose, Asking, Typed, Shape
  <2>2. UNCHANGED <<pending, waits>>
    BY <1>9, Zenon DEF Ask, TakeReply, GiveUp, Listen, Sound, Choose, RunFrame, panelVars
  <2>3. QED
    BY <1>1, <2>1, <2>2 DEF Running
<1>10. QED
  BY <1>2, <1>3, <1>4, <1>5, <1>6, <1>7, <1>8, <1>9, Zenon DEF Next, RunStep

\* Nobody asks a phone a second thing before the first is answered or given up, and what
\* is given up is never answered.
LEMMA RequestsStep == ASSUME Typed, RequestsOK, [Next]_vars PROVE RequestsOK'
<1>1. /\ wire \in [Phones -> Seq(Commands)] /\ reports \in [Phones -> Seq(Statuses)]
      /\ reply \in [Phones -> Statuses \cup {None}] /\ PhoneTypeOK
      /\ Shape(run) /\ run.p \in Phones
  BY PhoneParts DEF Typed, Shape, RunType
<1>2. \A p \in Phones : Single(p) /\ (~Asked(p) => Idle(p))
  BY DEF RequestsOK
<1> DEFINE Good(p) == Single(p)' /\ (~Asked(p)' => Idle(p)')
<1>3. SUFFICES ASSUME NEW p \in Phones PROVE Good(p)
  <2>1. (Running => \A p \in Phones : pending[p] = None /\ waits[p] = None)'
    BY PanelWaits
  <2>2. QED
    BY <2>1 DEF RequestsOK
<1>4. /\ Single(p) /\ (~Asked(p) => Idle(p))
      /\ wire[p] \in Seq(Commands) /\ reports[p] \in Seq(Statuses)
  BY <1>1, <1>2
<1>5. ASSUME wire'[p] = wire[p], reports'[p] = reports[p], reply'[p] = reply[p]
      PROVE  Single(p)' /\ (Idle(p) => Idle(p)')
  BY <1>4, <1>5 DEF Single, Idle
<1>6. ASSUME ~Waited(wire'[p]), ~Waited(reports'[p]), reply'[p] = None,
             Once(wire'[p]), Once(reports'[p])
      PROVE  Good(p)
  BY <1>6 DEF Single, Idle
<1>7. ASSUME NEW q \in Phones, AtPhone(q), UNCHANGED serverVars PROVE Good(p)
  <2>1. Asked(p)' <=> Asked(p)
    BY <1>7, Zenon DEF serverVars, panelVars, Asked
  <2>2. CASE p = q
    BY <1>1, <1>4, <1>7, <2>1, <2>2, RequestKept
  <2>3. CASE p # q
    BY <1>1, <1>4, <1>5, <1>7, <2>1, <2>3, OthersKept
  <2>4. QED
    BY <2>2, <2>3
<1>8. ASSUME NEW late \in SUBSET Phones, NEW ready \in SUBSET Phones, Refresh(late, ready)
      PROVE  Good(p)
  <2> DEFINE waiting == {q \in Phones : waits[q] # None}
             answered == {q \in waiting : reply[q] # None}
             lost == {q \in answered : ~Confirms(q)} \cup (waiting \ link) \cup late
             over == answered \cup lost
             open == (sessions \cap link) \ {q \in lost : waits[q].beginning}
             beginning == ready \ open
             first == IF p \in beginning THEN Command("begin", 0, 1)
                      ELSE Command("set", pending[p], 1)
  <2>1. run' = run /\ (Running => ready = {})
    BY <1>8 DEF Refresh
  <2>2. /\ wire'[p] = IF p \in ready \cap link THEN Append(Forgotten(wire[p]), first)
                      ELSE IF p \in over THEN Forgotten(wire[p]) ELSE wire[p]
        /\ reports'[p] = IF p \in over \cup ready THEN Forgotten(reports[p]) ELSE reports[p]
        /\ reply'[p] = IF p \in over \cup ready THEN None ELSE reply[p]
        /\ p \notin ready \cap link => (waits'[p] = IF p \in over THEN None ELSE waits[p])
        /\ ready \cap waiting \subseteq over
        /\ p \in ready => pending[p] # None
    BY <1>8 DEF Refresh
  <2>3. p \in ready \cap link => waits'[p] # None
    <3>1. \A i, b : [index |-> i, beginning |-> b] \in Waits => [index |-> i, beginning |-> b] # None
      BY NoneAssumption
    <3>2. p \in ready \cap link => pending[p] \in Levels /\ device[p] \in Statuses \cup {None}
      BY <2>2, PhoneParts DEF Typed, PanelOK
    <3>3. \A st \in Statuses : st.volume \in Levels
      BY DEF Statuses
    <3>4. p \in ready \cap link =>
            waits'[p] = IF p \in beginning \cap link
                        THEN [index |-> IF device[p] = None THEN pending[p] ELSE device[p].volume,
                              beginning |-> TRUE]
                        ELSE [index |-> pending[p], beginning |-> FALSE]
      BY <1>8 DEF Refresh
    <3> HIDE DEF beginning
    <3>5. QED
      BY <3>1, <3>2, <3>3, <3>4 DEF Waits
  <2>4. ready \cap over \subseteq Phones /\ over \subseteq waiting
    BY <1>8 DEF Refresh
  <2>5. /\ ~Waited(Forgotten(wire[p])) /\ Once(Forgotten(wire[p]))
        /\ ~Waited(Forgotten(reports[p])) /\ Once(Forgotten(reports[p]))
        /\ Forgotten(wire[p]) \in Seq(Commands)
    BY <1>4, ForgottenQueue
  <2>6. waits[p] # None <=> p \in waiting
    OBVIOUS
  <2> HIDE DEF waiting, answered, lost, over, open, beginning
  <2>7. CASE p \in ready \cap link
    <3>1. first \in Commands
      <4>1. pending[p] \in Levels /\ 0 \in Levels
        BY <2>2, <2>7, NumberFacts DEF Typed, PanelOK, Levels
      <4>2. QED
        BY <4>1 DEF Command, Commands
    <3> HIDE DEF first
    <3>2. Once(wire'[p])
      BY <2>2, <2>5, <2>7, <3>1, AppendQueue
    <3>3. reports'[p] = Forgotten(reports[p]) /\ reply'[p] = None
      BY <2>2, <2>7
    <3>4. Asked(p)'
      BY <2>3, <2>7 DEF Asked
    <3>5. QED
      BY <2>5, <3>2, <3>3, <3>4 DEF Single
  <2>8. CASE p \notin ready \cap link /\ p \in over
    BY <1>6, <2>2, <2>5, <2>8
  <2>9. CASE p \notin ready \cap link /\ p \notin over
    <3>1. p \notin ready => Good(p)
      BY <1>4, <1>5, <2>1, <2>2, <2>9 DEF Asked
    <3>2. p \in ready => p \notin waiting /\ ~Running
      BY <2>1, <2>2, <2>9
    <3>3. p \in ready => ~Asked(p)
      BY <1>1, <2>6, <3>2 DEF Asked, Running, Shape, Asking
    <3>4. p \in ready => Good(p)
      <4>1. p \in ready => /\ wire'[p] = wire[p] /\ reports'[p] = Forgotten(reports[p])
                           /\ reply'[p] = None /\ Idle(p)
        BY <1>4, <2>2, <2>9, <3>3
      <4>2. QED
        BY <1>4, <1>6, <2>5, <4>1 DEF Idle, Single
    <3>5. QED
      BY <3>1, <3>4
  <2>10. QED
    BY <2>7, <2>8, <2>9
<1>9. CASE Calibrate \/ Goodbye \/ Close
  <2>1. CancelMessage \in Commands /\ CancelMessage.id # 1
    BY FarewellTyped
  <2>2. /\ Farewells(p) \in Seq(Commands) /\ \A i \in DOMAIN Farewells(p) : Farewells(p)[i].id = 0
    BY FarewellTyped DEF Typed, PanelOK
  <2>3. /\ reports' = reports /\ reply' = reply /\ waits' = waits
        /\ \/ wire'[p] = wire[p]
           \/ wire'[p] = Append(wire[p], CancelMessage)
           \/ wire'[p] = wire[p] \o Farewells(p)
    BY <1>9 DEF Calibrate, Goodbye, Close, panelVars
  <2>4. (Waited(wire'[p]) => Waited(wire[p])) /\ Once(wire'[p])
    <3>1. /\ Waited(Append(wire[p], CancelMessage)) => Waited(wire[p])
          /\ Once(wire[p]) => Once(Append(wire[p], CancelMessage))
      BY <1>4, <2>1, AppendQueue
    <3>2. /\ Waited(wire[p] \o Farewells(p)) => Waited(wire[p])
          /\ Once(wire[p]) => Once(wire[p] \o Farewells(p))
      BY <1>4, <2>2, ConcatQueue
    <3>3. QED
      BY <1>4, <2>3, <3>1, <3>2 DEF Single
  <2>5. run' = run \/ Calibrate
    BY <1>9 DEF Goodbye, Close
  <2>6. Calibrate => ~Asked(p)
    BY <1>1 DEF Calibrate, Settled, Asked, Running, Shape, Asking
  <2>7. ~Asked(p)' => ~Asked(p)
    BY <2>3, <2>5, <2>6 DEF Asked
  <2>8. QED
    BY <1>4, <2>3, <2>4, <2>7 DEF Single, Idle
<1>10. CASE Die
  BY <1>6, <1>10, EmptyQueue DEF Die, Without
<1>11. CASE Ask
  <2>1. run.p \in Phones /\ RunCommand \in Commands /\ RunCommand.id = 1 /\ ~run.sent /\ Running
    BY <1>1, <1>11, RunCommandTyped DEF Ask, Running, Asking
  <2>2. /\ wire' = [wire EXCEPT ![run.p] = Append(wire[run.p], RunCommand)]
        /\ UNCHANGED <<reports, reply, waits>>
    BY <1>11 DEF Ask, RunFrame, panelVars
  <2>3. run'.sent /\ run'.p = run.p
    BY <1>1, <1>11 DEF Ask, Shape, RunType
  <2>4. waits[p] = None
    BY <2>1 DEF RequestsOK
  <2>5. Idle(p)
    BY <1>4, <2>1, <2>4 DEF Asked
  <2>6. CASE p = run.p
    <3>1. Asked(p)'
      BY <2>3, <2>6 DEF Asked
    <3>2. Once(wire'[p])
      BY <1>1, <1>4, <2>1, <2>2, <2>5, <2>6, AppendQueue DEF Idle, Single
    <3>3. QED
      BY <1>4, <2>2, <2>5, <3>1, <3>2 DEF Single, Idle
  <2>7. CASE p # run.p
    BY <1>1, <1>4, <1>5, <2>2, <2>5, <2>7
  <2>8. QED
    BY <2>6, <2>7
<1>12. CASE TakeReply
  <2>1. /\ run.sent /\ reply[run.p] # None /\ reply' = [reply EXCEPT ![run.p] = None]
        /\ UNCHANGED <<wire, reports, waits>>
    BY <1>12 DEF TakeReply, RunFrame, panelVars
  <2>2. CASE p = run.p
    BY <1>1, <1>4, <1>6, <2>1, <2>2 DEF Single
  <2>3. CASE p # run.p
    <3>1. Asked(p) <=> waits[p] # None
      BY <2>3 DEF Asked
    <3>2. waits'[p] # None => Asked(p)'
      BY DEF Asked
    <3>3. QED
      BY <1>1, <1>4, <1>5, <2>1, <2>3, <3>1, <3>2
  <2>4. QED
    BY <2>2, <2>3
<1>13. CASE GiveUp
  <2>1. Abandon({run.p}) /\ waits' = waits
    BY <1>13 DEF GiveUp, RunFrame, panelVars
  <2>2. CASE p = run.p
    <3>1. wire'[p] = Forgotten(wire[p]) /\ reports'[p] = Forgotten(reports[p]) /\ reply'[p] = None
      BY <2>1, <2>2 DEF Abandon
    <3>2. QED
      BY <1>4, <1>6, <3>1, ForgottenQueue
  <2>3. CASE p # run.p
    <3>1. wire'[p] = wire[p] /\ reports'[p] = reports[p] /\ reply'[p] = reply[p]
      BY <2>1, <2>3 DEF Abandon
    <3>2. ~Asked(p)' => ~Asked(p)
      BY <2>1, <2>3 DEF Asked
    <3>3. QED
      BY <1>4, <1>5, <3>1, <3>2
  <2>4. QED
    BY <2>2, <2>3
<1>14. CASE Listen \/ Sound \/ Choose \/ Finish
  <2>1. UNCHANGED <<wire, reports, reply, waits>>
    BY <1>14, Zenon DEF Listen, Sound, Choose, Finish, RunFrame, panelVars, phoneVars, linkVars
  <2>2. ~run.sent
    BY <1>1, <1>14 DEF Listen, Sound, Choose, Finish, Shape, Asking
  <2>3. ~Asked(p)' => ~Asked(p)
    BY <2>1, <2>2 DEF Asked
  <2>4. QED
    BY <1>4, <1>5, <2>1, <2>3
<1>15. ASSUME UNCHANGED <<wire, reports, reply, waits, run>> PROVE Good(p)
  BY <1>4, <1>5, <1>15 DEF Asked
<1>16. CASE Open \/ Cancel \/ Exit \/ UNCHANGED vars
  BY <1>15, <1>16, Zenon DEF Open, Cancel, Exit, vars, panelVars, phoneVars, linkVars
<1>17. ASSUME NEW q \in Phones, NEW level \in Levels, DeviceVolume(q, level) PROVE Good(p)
  BY <1>15, <1>17, Zenon DEF DeviceVolume, phoneVars, linkVars
<1> HIDE DEF Good
<1>18. QED
  BY <1>7, <1>8, <1>9, <1>10, <1>11, <1>12, <1>13, <1>14, <1>16, <1>17, Zenon DEF Next, RunStep
\* A phone that was undone and is not named stays where it stood, and the phone being
\* undone is heard out.
LEMMA UndoStep == ASSUME Typed, RequestsOK, UndoOK, [Next]_vars PROVE UndoOK'
<1>1. /\ wire \in [Phones -> Seq(Commands)] /\ reports \in [Phones -> Seq(Statuses)]
      /\ reply \in [Phones -> Statuses \cup {None}] /\ PhoneTypeOK
      /\ Shape(run) /\ run.p \in Phones /\ run.undone \subseteq Phones
  BY PhoneParts DEF Typed, Shape, RunType
<1>2. /\ Shape(run') /\ (UNCHANGED run \/ Ask \/ ~run'.sent) /\ run'.p \in Phones
      /\ \A q \in run'.undone \ run'.failed :
            /\ run'.orig = run.orig
            /\ \/ q \in run.undone \ run.failed
               \/ TakeReply /\ run.pc = "undo" /\ q = run.p /\ Confirmed(reply[q], run.orig[q])
  BY RunShape DEF Shape, RunType
<1>3. run'.pc \notin {"undo", "finish"} => UndoOK'
  BY <1>2 DEF UndoOK, Shape
<1> DEFINE Rests(q) == /\ OnlyCancels(wire'[q]) /\ phone'[q].original = None
                       /\ phone'[q].volume = run.orig[q] \/ q \in touched'
<1>4. ASSUME NEW u \in Phones, u = run'.p, run'.pc = "undo" /\ run'.sent => Undoing(u)',
             \A q \in run'.undone \ run'.failed : Rests(q)
      PROVE  UndoOK'
  <2>1. (run.pc = "undo" /\ run.sent => Undoing(run.p))'
    BY <1>4 DEF Undoing, CancelsLast, OnlyCancels, At
  <2>2. (\A p \in run.undone \ run.failed : OnlyCancels(wire[p]) /\ At(p, run.orig[p]))'
    BY <1>2, <1>4 DEF OnlyCancels, At
  <2>3. QED
    BY <2>1, <2>2 DEF UndoOK
<1>5. /\ \A q \in run.undone \ run.failed :
            /\ OnlyCancels(wire[q]) /\ phone[q].original = None
            /\ phone[q].volume = run.orig[q] \/ q \in touched
      /\ run.pc = "undo" /\ run.sent => Undoing(run.p)
  BY DEF UndoOK, At
<1>6. ASSUME NEW q \in Phones, phone' = phone, touched' = touched, OnlyCancels(wire'[q]),
             q \in run.undone \ run.failed
      PROVE  Rests(q)
  BY <1>5, <1>6
<1>7. ASSUME NEW q \in Phones, phone' = phone, touched' = touched, wire'[q] = wire[q],
             reports'[q] = reports[q], reply'[q] = reply[q], Undoing(q)
      PROVE  Undoing(q)'
  BY <1>7 DEF Undoing, At
<1>8. CASE UNCHANGED <<phone, touched, wire, reports, reply>> /\ ~Ask /\ ~TakeReply
  <2>1. \A q \in run'.undone \ run'.failed : q \in Phones /\ q \in run.undone \ run.failed
    BY <1>1, <1>2, <1>8
  <2>2. \A q \in run'.undone \ run'.failed : Rests(q)
    BY <1>5, <1>8, <2>1
  <2>3. PICK u \in Phones : u = run'.p
    BY <1>2
  <2>4. run'.pc = "undo" /\ run'.sent => Undoing(u)'
    <3>1. CASE UNCHANGED run
      <4>1. run'.pc = "undo" /\ run'.sent => Undoing(u)
        BY <1>5, <2>3, <3>1
      <4>2. QED
        BY <1>7, <1>8, <4>1
    <3>2. QED
      BY <1>2, <1>8, <3>1
  <2>5. QED
    BY <1>4, <2>2, <2>3, <2>4
<1>9. ASSUME NEW p \in Phones, AtPhone(p), UNCHANGED serverVars PROVE UndoOK'
  <2>1. run' = run
    BY <1>9 DEF serverVars
  <2>2. \A q \in run.undone \ run.failed : Rests(q)
    <3> SUFFICES ASSUME NEW q \in run.undone \ run.failed PROVE Rests(q)
      OBVIOUS
    <3>1. CASE q = p
      <4>1. PICK level : level = run.orig[q]
        OBVIOUS
      <4>2. At(p, level) /\ OnlyCancels(wire[p])
        BY <1>5, <3>1, <4>1 DEF At
      <4>3. OnlyCancels(wire[p])' /\ At(p, level)'
        BY <1>1, <1>9, <4>2, VolumeKept
      <4>4. QED
        BY <3>1, <4>1, <4>3 DEF At, OnlyCancels
    <3>2. CASE q # p
      <4>1. /\ phone'[q] = phone[q] /\ wire'[q] = wire[q] /\ (q \in touched' <=> q \in touched)
        BY <1>1, <1>9, <3>2, OthersKept
      <4>2. QED
        BY <1>5, <4>1
    <3>3. QED
      BY <3>1, <3>2
  <2>3. PICK u \in Phones : u = run'.p
    BY <1>2
  <2>4. run'.pc = "undo" /\ run'.sent => Undoing(u)'
    <3> SUFFICES ASSUME run.pc = "undo", run.sent PROVE Undoing(u)'
      BY <2>1
    <3>1. Undoing(u) /\ Single(u)
      BY <1>5, <2>1, <2>3 DEF RequestsOK
    <3>2. CASE u = p
      BY <1>1, <1>9, <3>1, <3>2, UndoingKept
    <3>3. CASE u # p
      <4>1. /\ phone'[u] = phone[u] /\ wire'[u] = wire[u] /\ reports'[u] = reports[u]
            /\ reply'[u] = reply[u] /\ (u \in touched' <=> u \in touched)
        BY <1>1, <1>9, <3>3, OthersKept
      <4>2. QED
        BY <3>1, <4>1 DEF Undoing, At
    <3>4. QED
      BY <3>2, <3>3
  <2>5. QED
    BY <1>4, <2>1, <2>2, <2>3, <2>4
<1>10. ASSUME NEW late \in SUBSET Phones, NEW ready \in SUBSET Phones, Refresh(late, ready)
       PROVE  UndoOK'
  <2>1. UNCHANGED <<phone, touched, run>>
    BY <1>10 DEF Refresh
  <2>2. CASE Running
    <3>1. UNCHANGED <<wire, reports, reply>>
      BY <1>10, <2>2, RefreshWhileRunning
    <3>2. \A q \in run'.undone \ run'.failed : Rests(q)
      BY <1>5, <2>1, <3>1
    <3>3. PICK u \in Phones : u = run'.p
      BY <1>2
    <3>4. run'.pc = "undo" /\ run'.sent => Undoing(u)
      BY <1>5, <2>1, <3>3
    <3>5. QED
      BY <1>4, <1>7, <2>1, <3>1, <3>2, <3>3, <3>4
  <2>3. CASE ~Running
    BY <1>3, <2>1, <2>3 DEF Running
  <2>4. QED
    BY <2>2, <2>3
<1>11. CASE Goodbye
  <2>1. UNCHANGED <<phone, touched, run, reports, reply>>
    BY <1>11 DEF Goodbye
  <2>2. CancelMessage \in Commands /\ CancelMessage.op = "cancel"
    BY FarewellTyped
  <2>3. \A q \in Phones : wire'[q] = wire[q] \/ wire'[q] = Append(wire[q], CancelMessage)
    BY <1>11 DEF Goodbye
  <2>4. \A q \in Phones : /\ OnlyCancels(wire[q]) => OnlyCancels(wire'[q])
                          /\ CancelsLast(wire[q]) => CancelsLast(wire'[q])
    <3> SUFFICES ASSUME NEW q \in Phones
                 PROVE  /\ OnlyCancels(wire[q]) => OnlyCancels(wire'[q])
                        /\ CancelsLast(wire[q]) => CancelsLast(wire'[q])
      OBVIOUS
    <3>1. /\ OnlyCancels(wire[q]) => OnlyCancels(Append(wire[q], CancelMessage))
          /\ CancelsLast(wire[q]) => CancelsLast(Append(wire[q], CancelMessage))
      BY <1>1, <2>2, AppendQueue
    <3>2. QED
      BY <2>3, <3>1
  <2>5. \A q \in run'.undone \ run'.failed : Rests(q)
    BY <1>1, <1>5, <2>1, <2>4
  <2>6. PICK u \in Phones : u = run'.p
    BY <1>2
  <2>7. run'.pc = "undo" /\ run'.sent => Undoing(u)'
    <3> SUFFICES ASSUME run.pc = "undo", run.sent PROVE Undoing(u)'
      BY <2>1
    <3>1. Undoing(u)
      BY <1>5, <2>1, <2>6
    <3>2. /\ CancelsLast(wire'[u])
          /\ OnlyCancels(wire[u]) => OnlyCancels(wire'[u])
      BY <2>4, <3>1 DEF Undoing
    <3>3. QED
      BY <2>1, <3>1, <3>2 DEF Undoing, At
  <2>8. QED
    BY <1>4, <2>5, <2>6, <2>7
<1>12. CASE Ask
  <2>1. /\ run.pc \in Asking /\ ~run.sent /\ UNCHANGED <<phone, touched, reports, reply, waits>>
        /\ wire' = [wire EXCEPT ![run.p] = Append(wire[run.p], RunCommand)]
    BY <1>12 DEF Ask, RunFrame, panelVars
  <2>2. run'.pc = run.pc /\ run'.p = run.p
    BY <1>1, <1>12 DEF Ask, Shape, RunType
  <2>3. CASE run.pc # "undo"
    BY <1>3, <2>1, <2>2, <2>3 DEF Asking
  <2>4. CASE run.pc = "undo"
    <3>1. RunCommand \in Commands /\ RunCommand.op = "cancel"
      BY <1>1, <2>1, <2>4, RunCommandTyped
    <3>2. waits[run.p] = None
      BY <1>1, <2>4 DEF RequestsOK, Running
    <3>3. Idle(run.p)
      BY <1>1, <2>1, <3>2 DEF RequestsOK, Asked
    <3>4. CancelsLast(wire'[run.p])
      <4>1. CancelsLast(wire[run.p])
        BY <3>3 DEF Idle, Waited, CancelsLast
      <4>2. QED
        BY <1>1, <2>1, <3>1, <4>1, AppendQueue
    <3>5. PICK u \in Phones : u = run'.p
      BY <1>2
    <3>6. Undoing(u)'
      BY <2>1, <2>2, <3>3, <3>4, <3>5 DEF Undoing, Idle, Waited
    <3>7. \A q \in run'.undone \ run'.failed : Rests(q)
      <4> SUFFICES ASSUME NEW q \in run'.undone \ run'.failed PROVE Rests(q)
        OBVIOUS
      <4>1. q \in run.undone \ run.failed /\ q # run.p /\ q \in Phones
        BY <1>1, <1>2, <2>1, <2>4 DEF Shape, TakeReply
      <4>2. wire'[q] = wire[q]
        BY <1>1, <2>1, <4>1
      <4>3. QED
        BY <1>5, <2>1, <4>1, <4>2
    <3>8. QED
      BY <1>4, <3>5, <3>6, <3>7
  <2>5. QED
    BY <2>3, <2>4
<1>13. CASE TakeReply
  <2>1. /\ run.sent /\ reply[run.p] \in Statuses /\ run' = Answered(run, reply[run.p])
        /\ run.pc \in Asking /\ UNCHANGED <<phone, touched, wire>> /\ reply[run.p] # None
    BY <1>1, <1>13 DEF TakeReply, RunFrame, Shape
  <2>2. ~run'.sent
    BY <1>1, <2>1, AnsweredShape
  <2>3. ASSUME NEW q \in run'.undone \ run'.failed PROVE Rests(q)
    <3>1. CASE q \in run.undone \ run.failed
      BY <1>5, <2>1, <3>1
    <3>2. CASE run.pc = "undo" /\ q = run.p /\ Confirmed(reply[q], run.orig[q])
      <4>1. OnlyCancels(wire[q]) /\ At(q, reply[q].volume)
        BY <1>5, <2>1, <3>2 DEF Undoing
      <4>2. QED
        BY <2>1, <3>2, <4>1 DEF At, Confirmed
    <3>3. QED
      BY <1>2, <3>1, <3>2
  <2>4. PICK u \in Phones : u = run'.p
    BY <1>2
  <2> HIDE DEF Rests
  <2>5. QED
    BY <1>4, <2>2, <2>3, <2>4
<1>14. CASE GiveUp
  <2>1. /\ run.pc \in Asking /\ run' = Failed(run) /\ UNCHANGED <<phone, touched>>
        /\ \A q \in Phones : q # run.p => wire'[q] = wire[q]
    BY <1>14 DEF GiveUp, Abandon, RunFrame
  <2>2. ~run'.sent /\ run'.undone \ run'.failed \subseteq run.undone \ run.failed
    BY <1>1, <2>1, FailedShape
  <2>3. run.p \notin run.undone
    BY <1>1, <2>1 DEF Shape, Asking
  <2>4. \A q \in run'.undone \ run'.failed : Rests(q)
    BY <1>1, <1>5, <2>1, <2>2, <2>3
  <2>5. PICK u \in Phones : u = run'.p
    BY <1>2
  <2>6. QED
    BY <1>4, <2>2, <2>4, <2>5
<1>15. CASE Listen \/ Sound \/ Choose
  <2>1. UNCHANGED <<phone, touched, wire, reports, reply>>
    BY <1>15, Zenon DEF Listen, Sound, Choose, RunFrame
  <2>2. run.pc \notin Asking
    BY <1>15 DEF Listen, Sound, Choose, Asking
  <2>3. ~Ask /\ ~TakeReply
    BY <1>1, <2>2 DEF Ask, TakeReply, Shape
  <2>4. QED
    BY <1>8, <2>1, <2>3
<1>16. CASE Calibrate \/ Die \/ Finish
  <2>1. run'.pc \in {"check", "idle"}
    BY <1>16, NoRunTyped DEF Calibrate, Die, Finish, RunType
  <2>2. QED
    BY <1>3, <2>1
<1>17. ASSUME ~Running, UNCHANGED run PROVE UndoOK'
  BY <1>3, <1>17 DEF Running
<1>18. CASE Open \/ Close \/ \E p \in Phones, level \in Levels : DeviceVolume(p, level)
  BY <1>17, <1>18, Zenon DEF Open, Close, DeviceVolume
<1>19. CASE Cancel \/ Exit \/ UNCHANGED vars
  <2>1. UNCHANGED <<phone, touched, wire, reports, reply, run>>
    BY <1>19, Zenon DEF Cancel, Exit, vars, phoneVars, linkVars
  <2>2. UNCHANGED wire => ~Ask
    <3>1. Ask => wire'[run.p] = Append(wire[run.p], RunCommand)
      BY <1>1 DEF Ask
    <3>2. Len(Append(wire[run.p], RunCommand)) # Len(wire[run.p])
      BY <1>1
    <3>3. QED
      BY <3>1, <3>2
  <2>3. UNCHANGED reply => ~TakeReply
    BY <1>1 DEF TakeReply
  <2>4. QED
    BY <1>8, <2>1, <2>2, <2>3
<1>20. QED
  BY <1>9, <1>10, <1>11, <1>12, <1>13, <1>14, <1>15, <1>16, <1>18, <1>19, Zenon DEF Next, RunStep

\* Inv holds at first and is kept by every step.
LEMMA InvHolds == Spec => []Inv
<1>1. Init => Inv
  <2> SUFFICES ASSUME Init PROVE Inv
    OBVIOUS
  <2>1. Typed
    BY InitTyped
  <2>2. run = NoRun /\ \A p \in Phones : wire[p] = <<>> /\ reports[p] = <<>> /\ reply[p] = None
    BY DEF Init, PhoneInit
  <2>3. RequestsOK
    BY <2>2, NoRunTyped, EmptyQueue DEF RequestsOK, Running, Single, Idle
  <2>4. UndoOK
    BY <2>2, NoRunTyped DEF UndoOK
  <2>5. QED
    BY <2>1, <2>3, <2>4 DEF Inv
<1>2. Inv /\ [Next]_vars => Inv'
  <2> SUFFICES ASSUME Inv, [Next]_vars PROVE Inv'
    OBVIOUS
  <2>1. Typed /\ RequestsOK /\ UndoOK
    BY DEF Inv
  <2>2. PhoneTypeOK' /\ PanelOK' /\ FlagsOK' /\ Shape(run')
    BY <2>1, PhoneStepTyped, PanelStep, FlagsStep, RunShape
  <2>3. Typed'
    BY <2>2, Zenon DEF Typed
  <2>4. RequestsOK' /\ UndoOK'
    BY <2>1, RequestsStep, UndoStep
  <2>5. QED
    BY <2>3, <2>4 DEF Inv
<1>3. QED
  BY <1>1, <1>2, PTL DEF Spec

\* A run that ends has restored every phone it does not name, whatever was cancelled,
\* lost, refused, late or plugged in meanwhile (restore in calibration.rs): for every
\* number of phones, levels and disturbances.
THEOREM RestoredOrToldHolds == Spec => []RestoredOrTold
<1>1. Inv => RestoredOrTold
  BY DEF Inv, Typed, Shape, UndoOK, At, RestoredOrTold
<1>2. QED
  BY <1>1, InvHolds, PTL
=============================================================================
