----------------------------- MODULE ForwardProofs -----------------------------
(***************************************************************************)
(* What Forward shows is what it captured, for any count, frames, buffer   *)
(* lengths and capacity of the source.                                     *)
(***************************************************************************)
EXTENDS Forward, SequenceTheorems, TLAPS

-------------------------------------------------------------------------------
(* The inductive invariant: where each captured frame is.                  *)

Looping == pc \in {"setup", "capture", "poll", "output", "copy"}

\* How many frames the program has taken from the source, the warmup included.
Taken == IF ~warm THEN 0 ELSE IF pc \in {"output", "copy"} THEN i + 2 ELSE i + 1

\* The rest waits in the source.
Waiting ==
  Looping => /\ Len(produced) = Taken + Len(ready)
             /\ \A k \in 1 .. Len(ready) : ready[k] = produced[Taken + k]

Idle == pending = << >> /\ shown = << >>

\* The program is in its main loop with i frames copied, of which the sink has all
\* but the last, that last one too once next has queued it.
Copied ==
  /\ Looping => i < Count /\ result = "none"
  /\ Looping /\ ~warm => i = 0
  /\ pc \in {"output", "copy"} => warm /\ view = produced[i + 2]
  /\ Looping /\ i = 0 /\ pc # "copy" => Idle /\ ~active /\ Len(displayed) = 0
  /\ pc \in {"capture", "poll"} /\ i > 0 =>
       Idle /\ active /\ inHand = produced[i + 1] /\ Len(displayed) = i - 1
  /\ pc = "output" /\ i > 0 =>
       /\ active
       /\ \/ Idle /\ inHand = produced[i + 1] /\ Len(displayed) = i - 1
          \/ /\ inHand = None /\ Len(displayed) + Len(pending) = i
             /\ Len(pending) + Len(shown) = 1
  /\ pc = "copy" => Idle /\ active /\ Len(displayed) = i
  /\ pc = "setup" => i = 0 /\ ~warm

\* What the sink has but has not shown is the frame after the last one shown.
OnItsWay ==
  pending # << >> =>
    Len(displayed) + 2 <= Len(produced) /\ Head(pending) = produced[Len(displayed) + 2]

Ended == result = "ok" => pending = << >> /\ Len(displayed) = Count - 1

IInv ==
  /\ TypeOK
  /\ Waiting
  /\ Copied
  /\ OnItsWay
  /\ Ended
  /\ EndToEnd

\* The numbers and sequences a proof works with.
LEMMA TypeFacts ==
  ASSUME TypeOK
  PROVE  /\ i \in Nat /\ i <= Count /\ Count \in Nat \ {0}
         /\ ready \in Seq(Frames) /\ Len(ready) \in Nat
         /\ pending \in Seq(Frames) /\ Len(pending) \in Nat
         /\ shown \in Seq(Frames) /\ Len(shown) \in Nat
         /\ produced \in Seq(Frames) /\ Len(produced) \in Nat
         /\ displayed \in Seq(Frames) /\ Len(displayed) \in Nat
         /\ Len(pending) + Len(shown) <= 1
<1>1. i \in Nat /\ i <= Count /\ Count \in Nat \ {0}
  BY CountAssumption DEF TypeOK, ProgramTypes
<1>2. /\ ready \in Seq(Frames) /\ pending \in Seq(Frames) /\ shown \in Seq(Frames)
      /\ produced \in Seq(Frames) /\ displayed \in Seq(Frames)
      /\ Len(pending) + Len(shown) <= 1
  BY DEF TypeOK, SourceTypes, SinkTypes, HistoryTypes
<1>3. \A s \in Seq(Frames) : Len(s) \in Nat
  OBVIOUS
<1> QED BY <1>1, <1>2, <1>3

\* A sequence of one element, seen from both ends.
LEMMA Singleton ==
  ASSUME NEW S, NEW s \in Seq(S), Len(s) = 1
  PROVE  Head(s) \in S /\ Tail(s) = << >> /\ s # << >>
<1>1. s # << >>
  BY EmptySeq
<1>2. Head(s) \in S /\ Tail(s) \in Seq(S) /\ Len(Tail(s)) = 0
  BY <1>1, HeadTailProperties
<1> QED BY <1>1, <1>2, EmptySeq

LEMMA OneOfTwo ==
  ASSUME NEW a \in Nat, NEW b \in Nat, a + b <= 1, a # 0
  PROVE  a = 1 /\ b = 0
OBVIOUS

LEMMA EmptyLength ==
  ASSUME NEW S, NEW s \in Seq(S)
  PROVE  Len(s) = 0 <=> s = << >>
OBVIOUS

\* A queue that was emptied fits.
LEMMA EmptyFits ==
  ASSUME NEW s, s = << >>
  PROVE  s \in Seq(Frames) /\ Len(s) = 0 /\ Len(s) <= Capacity
<1>1. s \in Seq(Frames) /\ Len(s) = 0
  BY EmptySeq
<1> QED BY <1>1, CapacityAssumption

LEMMA BothEmptyFit ==
  ASSUME NEW s, s = << >>, NEW t, t = << >>
  PROVE  s \in Seq(Frames) /\ t \in Seq(Frames) /\ Len(s) + Len(t) <= 1
<1>1. s \in Seq(Frames) /\ Len(s) = 0 /\ t \in Seq(Frames) /\ Len(t) = 0
  BY EmptySeq
<1>2. Len(s) + Len(t) = 0
  BY <1>1
<1> QED BY <1>1, <1>2

LEMMA InitIInv == Init => IInv
<1> SUFFICES ASSUME Init PROVE IInv
  OBVIOUS
<1> USE CountAssumption, CapacityAssumption DEF Init, Source!Init, Sink!Init
<1>1. TypeOK
  <2>1. lengths \in [Sides -> Lengths \cup {0}] /\ i \in 0 .. Count
    OBVIOUS
  <2>2. ProgramTypes
    BY <2>1 DEF ProgramTypes
  <2>3. SourceTypes /\ HistoryTypes
    BY EmptyFits DEF SourceTypes, HistoryTypes
  <2>4. SinkTypes
    <3>1. /\ pending \in Seq(Frames) /\ shown \in Seq(Frames)
          /\ Len(pending) + Len(shown) <= 1
      BY BothEmptyFit
    <3>2. active \in BOOLEAN /\ inHand \in Frames \cup {Blank, None}
      OBVIOUS
    <3> QED BY <3>1, <3>2, Zenon DEF SinkTypes
  <2> QED BY <2>2, <2>3, <2>4 DEF TypeOK
<1>2. Waiting /\ Copied
  BY DEF Waiting, Copied, Taken, Looping, Idle
<1>3. OnItsWay /\ Ended /\ EndToEnd
  BY DEF OnItsWay, Ended, EndToEnd
<1> QED BY <1>1, <1>2, <1>3 DEF IInv

-------------------------------------------------------------------------------
(* The end of the program.                                                 *)

\* Nothing that matters to the rest of the run is touched.
LEMMA LeavePreserves ==
  ASSUME IInv, NEW r \in {"error", "panic"}, Leave(r), UNCHANGED << i, source, sink, history >>
  PROVE  IInv'
<1> USE DEF IInv, Leave, source, sink, history
<1>1. TypeOK'
  BY DEF TypeOK, ProgramTypes, SourceTypes, SinkTypes, HistoryTypes
<1>2. Waiting' /\ Copied'
  BY DEF Waiting, Copied, Looping
<1>3. OnItsWay' /\ Ended' /\ EndToEnd'
  BY DEF OnItsWay, Ended, EndToEnd
<1> QED BY <1>1, <1>2, <1>3

LEMMA DropsPreserve == IInv /\ (DropOut \/ DropIn) => IInv'
<1> SUFFICES ASSUME IInv, DropOut \/ DropIn PROVE IInv'
  OBVIOUS
<1> USE DEF IInv
<1>1. /\ pc' \in {"drop_in", "end"}
      /\ UNCHANGED << warm, i, lengths, result, produced, displayed >>
  BY DEF DropOut, DropIn, Goto, history
<1>2. TypeOK'
  <2>1. ProgramTypes' /\ HistoryTypes'
    BY <1>1 DEF TypeOK, ProgramTypes, HistoryTypes
  <2>2. SourceTypes'
    <3>1. /\ on' \in BOOLEAN /\ view' \in {view, None}
          /\ ready' \in {ready, << >>}
      BY DEF TypeOK, SourceTypes, DropOut, DropIn, Source!Call, Source!Stop
    <3>2. ready' \in Seq(Frames) /\ Len(ready') <= Capacity
      BY <3>1, EmptyFits DEF TypeOK, SourceTypes
    <3> QED BY <3>1, <3>2 DEF TypeOK, SourceTypes
  <2>3. SinkTypes'
    <3>1. CASE DropOut
      <4>1. /\ pending' \in Seq(Frames) /\ shown' \in Seq(Frames)
            /\ Len(pending') + Len(shown') <= 1
        BY <3>1, BothEmptyFit DEF DropOut, Sink!Stop
      <4>2. active' \in BOOLEAN /\ inHand' \in Frames \cup {Blank, None}
        BY <3>1 DEF DropOut, Sink!Stop
      <4> QED BY <4>1, <4>2, Zenon DEF SinkTypes
    <3>2. CASE DropIn
      BY <3>2 DEF TypeOK, SinkTypes, DropIn, sink
    <3> QED BY <3>1, <3>2
  <2> QED BY <2>1, <2>2, <2>3 DEF TypeOK
<1>3. Waiting' /\ Copied'
  BY <1>1 DEF Waiting, Copied, Looping
<1>4. pending' \in {pending, << >>}
  BY DEF DropOut, DropIn, Sink!Stop, sink
<1>5. OnItsWay' /\ Ended' /\ EndToEnd'
  BY <1>1, <1>4 DEF OnItsWay, Ended, EndToEnd
<1> QED BY <1>2, <1>3, <1>5

-------------------------------------------------------------------------------
(* The devices.                                                            *)

LEMMA ProducePreserves == IInv /\ Produce => IInv'
<1> SUFFICES ASSUME IInv, Produce PROVE IInv'
  OBVIOUS
<1> USE DEF IInv
<1>1. PICK f \in Frames :
         /\ Len(ready) < Capacity /\ ready' = Append(ready, f)
         /\ produced' = Append(produced, f)
  BY DEF Produce, Source!Produce
<1>2. UNCHANGED << main, sink, on, view, displayed >>
  BY DEF Produce, Source!Produce
<1>3. /\ Len(ready') = Len(ready) + 1 /\ Len(produced') = Len(produced) + 1
      /\ Len(ready) \in Nat /\ Len(produced) \in Nat
      /\ \A k \in 1 .. Len(ready) : ready'[k] = ready[k]
      /\ \A k \in 1 .. Len(produced) : produced'[k] = produced[k]
      /\ ready'[Len(ready) + 1] = f /\ produced'[Len(produced) + 1] = f
      /\ ready' \in Seq(Frames) /\ produced' \in Seq(Frames)
  BY <1>1, AppendProperties, TypeFacts
<1>4. TypeOK'
  <2>1. ProgramTypes' /\ SinkTypes'
    BY <1>2 DEF TypeOK, ProgramTypes, SinkTypes, main, sink
  <2>2. SourceTypes' /\ HistoryTypes'
    BY <1>1, <1>2, <1>3, CapacityAssumption DEF TypeOK, SourceTypes, HistoryTypes
  <2> QED BY <2>1, <2>2 DEF TypeOK
<1>5. i \in Nat /\ Len(displayed) \in Nat
  BY TypeFacts
<1>6. Waiting'
  <2> SUFFICES ASSUME Looping
               PROVE  /\ Len(produced') = Taken + Len(ready')
                      /\ \A k \in 1 .. Len(ready') : ready'[k] = produced'[Taken + k]
    BY <1>2 DEF Waiting, Looping, Taken, main
  <2>1. Taken \in Nat /\ Len(produced) = Taken + Len(ready)
    BY <1>5 DEF Taken, Waiting
  <2>2. ASSUME NEW k \in 1 .. Len(ready') PROVE ready'[k] = produced'[Taken + k]
    <3>1. CASE k \in 1 .. Len(ready)
      BY <1>3, <2>1, <3>1 DEF Waiting
    <3>2. CASE k = Len(ready) + 1
      BY <1>3, <2>1, <3>2
    <3> QED BY <1>3, <3>1, <3>2
  <2> QED BY <1>3, <2>1, <2>2
<1>7. Copied'
  <2>1. pc \in {"output", "copy"} => i + 2 \in 1 .. Len(produced)
    <3> SUFFICES ASSUME pc \in {"output", "copy"} PROVE i + 2 \in 1 .. Len(produced)
      OBVIOUS
    <3>1. Looping /\ Taken = i + 2
      BY DEF Looping, Copied, Taken
    <3> QED BY <1>3, <1>5, <3>1 DEF Waiting
  <2>2. pc \in {"capture", "poll", "output"} /\ i > 0 => i + 1 \in 1 .. Len(produced)
    <3> SUFFICES ASSUME pc \in {"capture", "poll", "output"}, i > 0
                 PROVE  i + 1 \in 1 .. Len(produced)
      OBVIOUS
    <3>1. Looping /\ Taken \in {i + 1, i + 2}
      BY <1>5 DEF Looping, Copied, Taken
    <3> QED BY <1>3, <1>5, <3>1 DEF Waiting
  <2> QED BY <1>2, <1>3, <2>1, <2>2 DEF Copied, Looping, Idle, main, sink
<1>8. OnItsWay' /\ Ended' /\ EndToEnd'
  <2>1. OnItsWay'
    BY <1>2, <1>3, <1>5 DEF OnItsWay, sink
  <2>2. Ended'
    BY <1>2 DEF Ended, sink, main
  <2>3. ASSUME NEW k \in 1 .. Len(displayed')
        PROVE  k + 1 <= Len(produced') /\ displayed'[k] = produced'[k + 1]
    <3>1. k \in 1 .. Len(displayed) /\ displayed'[k] = displayed[k]
      BY <1>2
    <3>2. k + 1 <= Len(produced) /\ displayed[k] = produced[k + 1]
      BY <3>1 DEF EndToEnd
    <3>3. k + 1 \in 1 .. Len(produced)
      BY <1>3, <1>5, <3>1, <3>2
    <3> QED BY <1>3, <3>1, <3>2, <3>3
  <2>4. EndToEnd'
    BY <1>2, <2>3 DEF EndToEnd, main
  <2> QED BY <2>1, <2>2, <2>4
<1> QED BY <1>4, <1>6, <1>7, <1>8

LEMMA ShowPreserves == IInv /\ Show => IInv'
<1> SUFFICES ASSUME IInv, Show PROVE IInv'
  OBVIOUS
<1> USE DEF IInv
<1>1. /\ pending # << >> /\ active
      /\ shown' = Append(shown, Head(pending)) /\ pending' = Tail(pending)
      /\ displayed' = Append(displayed, Head(pending))
      /\ UNCHANGED << main, source, active, inHand, produced >>
  BY DEF Show, Sink!Show
<1>2. /\ Len(pending) = 1 /\ Len(shown) = 0 /\ shown = << >>
      /\ Head(pending) \in Frames
  <2>1. Len(pending) # 0
    BY <1>1, EmptyLength, TypeFacts
  <2>2. Len(pending) = 1 /\ Len(shown) = 0
    BY <2>1, TypeFacts, OneOfTwo
  <2> QED BY <2>2, Singleton, EmptyLength, TypeFacts
<1>3. /\ pending' = << >> /\ Len(pending') = 0 /\ Len(shown') = 1
      /\ pending' \in Seq(Frames) /\ shown' \in Seq(Frames)
      /\ displayed' \in Seq(Frames) /\ Len(displayed') = Len(displayed) + 1
      /\ Len(displayed) \in Nat
      /\ \A k \in 1 .. Len(displayed) : displayed'[k] = displayed[k]
      /\ displayed'[Len(displayed) + 1] = Head(pending)
  <2>1. pending' = << >>
    BY <1>1, <1>2, Singleton, TypeFacts
  <2>2. shown' \in Seq(Frames) /\ Len(shown') = 1
    BY <1>1, <1>2, AppendProperties, TypeFacts
  <2>3. /\ displayed' \in Seq(Frames) /\ Len(displayed') = Len(displayed) + 1
        /\ \A k \in 1 .. Len(displayed) : displayed'[k] = displayed[k]
        /\ displayed'[Len(displayed) + 1] = Head(pending)
    BY <1>1, <1>2, AppendProperties, TypeFacts
  <2> QED BY <2>1, <2>2, <2>3, EmptySeq, TypeFacts
<1>4. TypeOK'
  <2>1. ProgramTypes' /\ SourceTypes'
    BY <1>1 DEF TypeOK, ProgramTypes, SourceTypes, main, source
  <2>2. SinkTypes' /\ HistoryTypes'
    BY <1>1, <1>3 DEF TypeOK, SinkTypes, HistoryTypes
  <2> QED BY <2>1, <2>2 DEF TypeOK
<1>5. Waiting'
  BY <1>1 DEF Waiting, Looping, Taken, main, source
<1>6. Copied'
  <2>1. ~Idle
    BY <1>1 DEF Idle
  <2>2. Looping => pc = "output" /\ i > 0 /\ inHand = None
    <3> SUFFICES ASSUME Looping PROVE pc = "output" /\ i > 0 /\ inHand = None
      OBVIOUS
    <3>1. i = 0 \/ i > 0
      BY TypeFacts
    <3>2. pc # "copy" /\ i > 0
      BY <2>1, <3>1 DEF Copied
    <3>3. pc = "output"
      BY <2>1, <3>2 DEF Copied, Looping
    <3> QED BY <2>1, <3>2, <3>3 DEF Copied
  <2>3. Looping => Len(displayed) + Len(pending) = i
    BY <2>1, <2>2 DEF Copied
  <2>4. Looping => Len(displayed') + Len(pending') = i
    BY <1>2, <1>3, <2>3, TypeFacts
  <2>5. Looping' <=> Looping
    BY <1>1 DEF Looping, main
  <2>6. CASE Looping
    BY <1>1, <1>3, <2>2, <2>4, <2>6 DEF Copied, Looping, main, source
  <2>7. CASE ~Looping
    BY <2>5, <2>7 DEF Copied, Looping
  <2> QED BY <2>6, <2>7
<1>7. OnItsWay' /\ Ended'
  BY <1>1, <1>3 DEF OnItsWay, Ended, main
<1>8. EndToEnd'
  <2>1. Len(displayed) + 2 <= Len(produced)
        /\ Head(pending) = produced[Len(displayed) + 2]
    BY <1>1 DEF OnItsWay
  <2>2. ASSUME NEW k \in 1 .. Len(displayed')
        PROVE  k + 1 <= Len(produced) /\ displayed'[k] = produced[k + 1]
    <3>1. CASE k \in 1 .. Len(displayed)
      BY <1>3, <3>1 DEF EndToEnd
    <3>2. CASE k = Len(displayed) + 1
      BY <1>3, <2>1, <3>2
    <3> QED BY <1>3, <3>1, <3>2
  <2>3. result # "ok"
    BY <1>1 DEF Ended
  <2> QED BY <1>1, <2>2, <2>3 DEF EndToEnd, main
<1> QED BY <1>4, <1>5, <1>6, <1>7, <1>8

-------------------------------------------------------------------------------
(* The calls of the main loop.                                             *)

LEMMA SetupPreserves == IInv /\ Setup => IInv'
<1> SUFFICES ASSUME IInv, Setup PROVE IInv'
  OBVIOUS
<1>1. CASE Leave("error") /\ UNCHANGED i
  BY <1>1, LeavePreserves DEF Setup
<1>2. CASE /\ \E l \in [Sides -> Lengths] : lengths' = l
           /\ pc' = "capture" /\ UNCHANGED << warm, i, result >>
  <2> USE <1>2 DEF IInv, Setup, source, sink, history
  <2>1. TypeOK'
    BY DEF TypeOK, ProgramTypes, SourceTypes, SinkTypes, HistoryTypes
  <2>2. pc = "setup" /\ i = 0 /\ ~warm
    BY DEF Copied
  <2>3. Waiting' /\ Copied'
    BY <2>2 DEF Waiting, Copied, Looping, Taken, Idle
  <2>4. OnItsWay' /\ Ended' /\ EndToEnd'
    BY DEF OnItsWay, Ended, EndToEnd
  <2> QED BY <2>1, <2>3, <2>4
<1> QED BY <1>1, <1>2 DEF Setup

LEMMA NextInPreserves == IInv /\ (NextIn \/ StartIn) => IInv'
<1> SUFFICES ASSUME IInv, NextIn \/ StartIn PROVE IInv'
  OBVIOUS
<1> USE DEF IInv
<1>1. /\ pc \in {"capture", "poll"} /\ pc' = "poll"
      /\ UNCHANGED << warm, i, lengths, result, ready, sink, history >>
      /\ on' \in {on, TRUE} /\ view' \in {view, None}
  BY DEF NextIn, StartIn, Goto, Source!Call, Source!Start
<1>2. TypeOK'
  BY <1>1 DEF TypeOK, ProgramTypes, SourceTypes, SinkTypes, HistoryTypes, sink, history
<1>3. Waiting' /\ Copied'
  BY <1>1 DEF Waiting, Copied, Looping, Taken, Idle, sink, history
<1>4. OnItsWay' /\ Ended' /\ EndToEnd'
  BY <1>1 DEF OnItsWay, Ended, EndToEnd, sink, history
<1> QED BY <1>2, <1>3, <1>4

LEMMA ReceiveInPreserves == IInv /\ ReceiveIn => IInv'
<1> SUFFICES ASSUME IInv, ReceiveIn PROVE IInv'
  OBVIOUS
<1> USE DEF IInv
<1>1. /\ pc = "poll" /\ pc' = (IF warm THEN "output" ELSE "capture") /\ warm' = TRUE
      /\ ready # << >> /\ view' = Head(ready) /\ ready' = Tail(ready)
      /\ UNCHANGED << i, lengths, result, on, sink, history >>
  BY DEF ReceiveIn, Source!Deliver
<1>2. /\ Len(ready) \in Nat \ {0} /\ Len(ready') = Len(ready) - 1
      /\ ready' \in Seq(Frames) /\ Head(ready) \in Frames
      /\ view' = ready[1]
      /\ \A k \in 1 .. Len(ready') : ready'[k] = ready[k + 1]
  BY <1>1, HeadTailProperties, LenProperties, EmptySeq, TypeFacts
<1>3. i \in Nat /\ Len(produced) \in Nat
  BY TypeFacts
<1>4. Taken \in Nat /\ Taken' = Taken + 1 /\ Looping /\ Looping'
  BY <1>1, <1>3 DEF Taken, Looping, Copied
<1>5. TypeOK'
  <2>1. ProgramTypes' /\ SinkTypes' /\ HistoryTypes'
    BY <1>1 DEF TypeOK, ProgramTypes, SinkTypes, HistoryTypes, sink, history
  <2>2. SourceTypes'
    BY <1>1, <1>2, CapacityAssumption DEF TypeOK, SourceTypes
  <2> QED BY <2>1, <2>2 DEF TypeOK
<1>6. Waiting'
  <2>1. Len(produced') = Taken' + Len(ready')
    BY <1>1, <1>2, <1>3, <1>4 DEF Waiting, history
  <2>2. ASSUME NEW k \in 1 .. Len(ready') PROVE ready'[k] = produced'[Taken' + k]
    <3>1. k + 1 \in 1 .. Len(ready) /\ Taken + (k + 1) = Taken' + k
      BY <1>2, <1>4
    <3>2. ready[k + 1] = produced[Taken + (k + 1)]
      BY <1>4, <3>1 DEF Waiting
    <3> QED BY <1>1, <1>2, <3>1, <3>2 DEF history
  <2> QED BY <2>1, <2>2 DEF Waiting
<1>7. Copied'
  <2>1. view' = produced[Taken + 1]
    BY <1>2, <1>4 DEF Waiting
  <2>2. warm => Taken + 1 = i + 2
    BY <1>1, <1>3 DEF Taken
  <2> QED BY <1>1, <1>3, <2>1, <2>2 DEF Copied, Looping, Idle, sink, history
<1>8. OnItsWay' /\ Ended' /\ EndToEnd'
  BY <1>1 DEF OnItsWay, Ended, EndToEnd, sink, history
<1> QED BY <1>5, <1>6, <1>7, <1>8

LEMMA StartOutPreserves == IInv /\ StartOut => IInv'
<1> SUFFICES ASSUME IInv, StartOut PROVE IInv'
  OBVIOUS
<1> USE DEF IInv
<1>1. /\ pc = "output" /\ pc' = "copy" /\ ~active /\ active' = TRUE
      /\ inHand' \in Frames \cup {Blank}
      /\ UNCHANGED << warm, i, lengths, result, pending, shown, source, history >>
  BY DEF StartOut, Goto, Sink!Start
<1>2. TypeOK'
  BY <1>1 DEF TypeOK, ProgramTypes, SourceTypes, SinkTypes, HistoryTypes, source, history
<1>3. i = 0
  BY <1>1, TypeFacts DEF Copied
<1>4. Waiting' /\ Copied'
  BY <1>1, <1>3 DEF Waiting, Copied, Looping, Taken, Idle, source, history
<1>5. OnItsWay' /\ Ended' /\ EndToEnd'
  BY <1>1 DEF OnItsWay, Ended, EndToEnd, history
<1> QED BY <1>2, <1>4, <1>5

LEMMA QueueOutPreserves == IInv /\ QueueOut => IInv'
<1> SUFFICES ASSUME IInv, QueueOut PROVE IInv'
  OBVIOUS
<1> USE DEF IInv
<1>1. /\ pc = "output" /\ pc' = "output" /\ active /\ inHand # None
      /\ pending' = Append(pending, inHand) /\ inHand' = None
      /\ UNCHANGED << warm, i, lengths, result, active, shown, source, history >>
  BY DEF QueueOut, Goto, Sink!HandOver
<1>2. i \in Nat /\ i > 0 /\ Len(produced) \in Nat /\ Len(displayed) \in Nat
      /\ Len(ready) \in Nat
  <2>1. i # 0
    BY <1>1 DEF Copied, Looping
  <2> QED BY <2>1, TypeFacts
<1>3. Idle /\ inHand = produced[i + 1] /\ Len(displayed) = i - 1
  BY <1>1, <1>2 DEF Copied
<1>4. i + 2 <= Len(produced) /\ inHand \in Frames
  <2>1. i + 2 <= Len(produced)
    BY <1>1, <1>2 DEF Waiting, Looping, Taken, Copied
  <2>2. i + 1 \in 1 .. Len(produced) /\ produced \in Seq(Frames)
    BY <1>2, <2>1, TypeFacts
  <2> QED BY <1>3, <2>1, <2>2, ElementOfSeq
<1>5. /\ pending' \in Seq(Frames) /\ Len(pending') = 1 /\ Head(pending') = inHand
      /\ pending' = << inHand >>
  BY <1>1, <1>3, <1>4 DEF Idle
<1>6. TypeOK'
  <2>1. ProgramTypes' /\ SourceTypes' /\ HistoryTypes'
    BY <1>1 DEF TypeOK, ProgramTypes, SourceTypes, HistoryTypes, source, history
  <2>2. SinkTypes'
    BY <1>1, <1>3, <1>5 DEF TypeOK, SinkTypes, Idle
  <2> QED BY <2>1, <2>2 DEF TypeOK
<1>7. Waiting' /\ Copied'
  <2>1. Waiting'
    BY <1>1 DEF Waiting, Looping, Taken, source, history
  <2>2. Len(displayed') + Len(pending') = i /\ Len(pending') + Len(shown') = 1
    BY <1>1, <1>2, <1>3, <1>5 DEF Idle, history
  <2> QED BY <1>1, <1>2, <2>1, <2>2 DEF Copied, Looping, source, history
<1>8. OnItsWay' /\ Ended' /\ EndToEnd'
  <2>1. OnItsWay'
    BY <1>1, <1>2, <1>3, <1>4, <1>5 DEF OnItsWay, history
  <2>2. result # "ok"
    BY <1>1 DEF Copied, Looping
  <2> QED BY <1>1, <2>1, <2>2 DEF Ended, EndToEnd, history
<1> QED BY <1>6, <1>7, <1>8

LEMMA ReceiveOutPreserves == IInv /\ ReceiveOut => IInv'
<1> SUFFICES ASSUME IInv, ReceiveOut PROVE IInv'
  OBVIOUS
<1> USE DEF IInv
<1>1. /\ pc = "output" /\ pc' = "copy" /\ active /\ shown # << >>
      /\ inHand' = Head(shown) /\ shown' = Tail(shown)
      /\ UNCHANGED << warm, i, lengths, result, active, pending, source, history >>
  BY DEF ReceiveOut, Goto, Sink!GiveBack
<1>2. /\ Len(shown) = 1 /\ Len(pending) = 0 /\ pending = << >>
      /\ Head(shown) \in Frames
  <2>1. Len(shown) # 0
    BY <1>1, EmptyLength, TypeFacts
  <2>2. Len(shown) + Len(pending) <= 1
    BY TypeFacts
  <2>3. Len(shown) = 1 /\ Len(pending) = 0
    BY <2>1, <2>2, TypeFacts, OneOfTwo
  <2> QED BY <2>3, Singleton, EmptyLength, TypeFacts
<1>3. shown' = << >> /\ Len(shown') = 0
  BY <1>1, <1>2, Singleton, EmptySeq, TypeFacts
<1>4. TypeOK'
  <2>1. ProgramTypes' /\ SourceTypes' /\ HistoryTypes'
    BY <1>1 DEF TypeOK, ProgramTypes, SourceTypes, HistoryTypes, source, history
  <2>2. << >> \in Seq(Frames)
    BY EmptySeq
  <2>3. SinkTypes'
    <3>1. Len(pending') + Len(shown') <= 1
      BY <1>1, <1>2, <1>3
    <3> QED BY <1>1, <1>2, <1>3, <2>2, <3>1 DEF TypeOK, SinkTypes
  <2> QED BY <2>1, <2>3 DEF TypeOK
<1>5. Waiting' /\ Copied'
  <2>1. i > 0 /\ Len(displayed) + Len(pending) = i /\ Len(displayed) \in Nat
    <3>1. i = 0 \/ i > 0
      BY TypeFacts
    <3> QED BY <1>1, <3>1, TypeFacts DEF Copied, Looping, Idle
  <2>2. Len(displayed) = i
    BY <1>2, <2>1
  <2> QED BY <1>1, <1>2, <1>3, <2>2
          DEF Waiting, Copied, Looping, Taken, Idle, source, history
<1>6. OnItsWay' /\ Ended' /\ EndToEnd'
  BY <1>1 DEF OnItsWay, Ended, EndToEnd, history
<1> QED BY <1>4, <1>5, <1>6

LEMMA CopyPreserves == IInv /\ Copy => IInv'
<1> SUFFICES ASSUME IInv, Copy PROVE IInv'
  OBVIOUS
<1> USE DEF IInv
<1>1. /\ pc = "copy" /\ inHand' = view /\ i' = i + 1
      /\ UNCHANGED << warm, lengths, active, pending, shown, source, history >>
      /\ \/ i' < Count /\ pc' = "capture" /\ result' = result
         \/ i' = Count /\ pc' = "drop_out" /\ result' = "ok"
  BY DEF Copy, Sink!Fill, Leave
<1>2. /\ i \in Nat /\ i < Count /\ warm /\ view = produced[i + 2]
      /\ Idle /\ active /\ Len(displayed) = i /\ result = "none"
  BY <1>1, TypeFacts DEF Copied, Looping
<1>3. TypeOK'
  <2>1. i' \in 0 .. Count
    BY <1>1, <1>2, TypeFacts
  <2>2. ProgramTypes' /\ SourceTypes' /\ HistoryTypes'
    BY <1>1, <2>1 DEF TypeOK, ProgramTypes, SourceTypes, HistoryTypes, source, history
  <2>3. SinkTypes'
    BY <1>1 DEF TypeOK, SourceTypes, SinkTypes
  <2> QED BY <2>2, <2>3 DEF TypeOK
<1>4. Waiting' /\ Copied'
  <2>1. Looping' => Taken' = Taken
    <3> SUFFICES ASSUME Looping' PROVE Taken' = Taken
      OBVIOUS
    <3>1. pc' = "capture" /\ warm /\ warm' /\ i' = i + 1
      BY <1>1, <1>2 DEF Looping
    <3> QED BY <1>1, <1>2, <3>1 DEF Taken
  <2>2. Waiting'
    BY <1>1, <2>1 DEF Waiting, Looping, source, history
  <2>3. ASSUME pc' = "drop_out" PROVE Copied'
    BY <2>3 DEF Copied, Looping
  <2>4. ASSUME pc' = "capture" PROVE Copied'
    <3>1. /\ i' \in Nat /\ i' > 0 /\ i' < Count /\ i' - 1 = i /\ i' + 1 = i + 2
          /\ result' = "none"
      BY <1>1, <1>2, <2>4
    <3> QED BY <1>1, <1>2, <2>4, <3>1 DEF Copied, Looping, Idle, source, history
  <2> QED BY <1>1, <2>2, <2>3, <2>4
<1>5. OnItsWay' /\ Ended' /\ EndToEnd'
  <2>1. pending' = << >> /\ UNCHANGED << produced, displayed >>
    BY <1>1, <1>2 DEF Idle, history
  <2>2. result' = "ok" => Len(displayed') = Count - 1
    BY <1>1, <1>2, <2>1
  <2> QED BY <2>1, <2>2 DEF OnItsWay, Ended, EndToEnd
<1> QED BY <1>3, <1>4, <1>5

-------------------------------------------------------------------------------
(* The theorem.                                                            *)

LEMMA StepPreserves == IInv /\ [Next]_vars => IInv'
<1> SUFFICES ASSUME IInv, [Next]_vars PROVE IInv'
  OBVIOUS
<1>1. CASE Again \/ Fails \/ CopyTooLong
  BY <1>1, LeavePreserves DEF Again, Fails, CopyTooLong
<1>2. CASE UNCHANGED vars
  <2> USE <1>2 DEF vars, main, source, sink, history, IInv
  <2>1. TypeOK'
    BY DEF TypeOK, ProgramTypes, SourceTypes, SinkTypes, HistoryTypes
  <2>2. Waiting' /\ Copied'
    BY DEF Waiting, Copied, Looping, Taken, Idle
  <2>3. OnItsWay' /\ Ended' /\ EndToEnd'
    BY DEF OnItsWay, Ended, EndToEnd
  <2> QED BY <2>1, <2>2, <2>3
<1> QED BY <1>1, <1>2, SetupPreserves, NextInPreserves, ReceiveInPreserves,
           StartOutPreserves, QueueOutPreserves, ReceiveOutPreserves, CopyPreserves,
           DropsPreserve, ProducePreserves, ShowPreserves DEF Next, Program

LEMMA Invariance == Spec => []IInv
BY InitIInv, StepPreserves, PTL DEF Spec

\* Every reachable state is well-typed: the loop counter stays below the count, and
\* the sink never has more than one frame (stream_forward_mmap.rs:59-62).
THEOREM ForwardTypeCorrect == Spec => []TypeOK
<1>1. IInv => TypeOK
  BY DEF IInv
<1> QED BY <1>1, Invariance, PTL

\* The sink shows the captured frames after the warmup in order and without a gap, and
\* all that were copied but the last (stream_forward_mmap.rs:55-70).
THEOREM ShowsWhatWasCaptured == Spec => []EndToEnd
<1>1. IInv => EndToEnd
  BY DEF IInv
<1> QED BY <1>1, Invariance, PTL


-------------------------------------------------------------------------------
(* How many steps the program makes: no loop of it waits for the sink.     *)

\* The steps left in the rounds of the main loop, at most 8 for each and for the
\* warmup frame, and in the drops after it.
Rounds == 8 * (Count - i) + (IF warm THEN 3 ELSE 11)

StepsLeft ==
  CASE pc = "end"      -> 0
    [] pc = "drop_in"  -> 1
    [] pc = "drop_out" -> 2
    [] pc = "copy"     -> Rounds + 1
    [] pc = "output"   -> Rounds + (IF inHand = None THEN 2 ELSE 3)
    [] pc = "poll"     -> Rounds + (IF on THEN 4 ELSE 5)
    [] pc = "capture"  -> Rounds + 6
    [] OTHER           -> Rounds + 7

StepsBounded == StepsLeft \in 0 .. 8 * Count + 18 /\ (StepsLeft = 0 <=> pc = "end")

RunsDown ==
  [][ /\ StepsLeft' <= StepsLeft
      /\ Program \/ Fails => StepsLeft' < StepsLeft ]_vars

LEMMA StepsInRange == IInv => StepsBounded
<1> SUFFICES ASSUME IInv PROVE StepsBounded
  OBVIOUS
<1>1. /\ i \in Nat /\ Count \in Nat /\ i <= Count
      /\ pc \in {"setup", "capture", "poll", "output", "copy", "drop_out",
                 "drop_in", "end"}
  BY TypeFacts DEF IInv, TypeOK, ProgramTypes
<1>2. Rounds \in 3 .. 8 * Count + 11
  BY <1>1 DEF Rounds
<1>3. StepsLeft \in Nat /\ StepsLeft <= 8 * Count + 18 /\ (StepsLeft = 0 <=> pc = "end")
  BY <1>1, <1>2 DEF StepsLeft
<1> QED BY <1>1, <1>3 DEF StepsBounded

LEMMA StepRunsDown ==
  ASSUME IInv, [Next]_vars
  PROVE  /\ StepsLeft' <= StepsLeft
         /\ Program \/ Fails => StepsLeft' < StepsLeft
<1>1. /\ i \in Nat /\ Count \in Nat /\ i <= Count
      /\ StepsLeft \in Nat /\ Rounds \in Nat
  <2>1. i \in Nat /\ Count \in Nat /\ i <= Count
    BY TypeFacts DEF IInv
  <2> QED BY <2>1, StepsInRange DEF StepsBounded, Rounds
<1>2. CASE pc' = "drop_out" /\ pc \notin {"drop_out", "drop_in", "end"}
  <2>1. StepsLeft' = 2
    BY <1>2 DEF StepsLeft
  <2>2. StepsLeft > 2
    <3>1. Rounds >= 3
      BY <1>1 DEF Rounds
    <3> QED BY <1>1, <1>2, <3>1 DEF StepsLeft
  <2> QED BY <1>1, <2>1, <2>2
<1>3. CASE (Setup /\ pc' = "capture") \/ NextIn \/ StartIn
  <2>1. Rounds' = Rounds
    BY <1>3 DEF Setup, Leave, NextIn, StartIn, Goto, Rounds
  <2> QED BY <1>1, <1>3, <2>1
          DEF Setup, NextIn, StartIn, Goto, Source!Start, StepsLeft
<1>4. CASE ReceiveIn
  <2>1. Rounds' = IF warm THEN Rounds ELSE Rounds - 8
    BY <1>1, <1>4 DEF ReceiveIn, Rounds
  <2>2. StepsLeft >= Rounds + 4
    BY <1>1, <1>4 DEF ReceiveIn, StepsLeft
  <2>3. StepsLeft' \in Int /\ StepsLeft' < Rounds + 4
    BY <1>1, <1>4, <2>1 DEF ReceiveIn, StepsLeft
  <2> QED BY <1>1, <2>2, <2>3
<1>5. CASE StartOut \/ QueueOut \/ ReceiveOut
  <2>1. Rounds' = Rounds
    BY <1>5 DEF StartOut, QueueOut, ReceiveOut, Goto, Rounds
  <2> QED BY <1>1, <1>5, <2>1
          DEF StartOut, QueueOut, ReceiveOut, Goto, Sink!HandOver, StepsLeft
<1>6. CASE Copy /\ pc' = "capture"
  <2>1. Rounds' = Rounds - 8
    BY <1>1, <1>6 DEF Copy, Rounds, Leave
  <2>2. StepsLeft = Rounds + 1 /\ StepsLeft' = Rounds - 2
    BY <1>1, <1>6, <2>1 DEF Copy, StepsLeft
  <2> QED BY <1>1, <2>2
<1>7. CASE DropOut \/ DropIn
  BY <1>7 DEF DropOut, DropIn, Goto, StepsLeft
<1>8. CASE Produce \/ Show \/ UNCHANGED vars
  <2>1. UNCHANGED << main, on, inHand >>
    BY <1>8 DEF Produce, Show, Source!Produce, Sink!Show, vars, source, sink
  <2>2. StepsLeft' = StepsLeft
    BY <2>1 DEF main, StepsLeft, Rounds
  <2>3. ~Program /\ ~Fails
    BY <2>1 DEF Program, Fails, Setup, NextIn, StartIn, ReceiveIn, StartOut,
       QueueOut, ReceiveOut, Again, Copy, CopyTooLong, DropOut, DropIn, Goto, Leave,
       Source!Start, Sink!HandOver, main
  <2> QED BY <1>1, <2>2, <2>3
<1> QED BY <1>2, <1>3, <1>4, <1>5, <1>6, <1>7, <1>8
        DEF Next, Program, Setup, Again, Fails, Copy, CopyTooLong, Leave

\* The program makes a bounded number of steps, which depends on the count alone, and is
\* then at its end: all that Terminates leaves open is whether each step is taken
\* (stream_forward_mmap.rs:52-75).
THEOREM ForwardEnds == Spec => []StepsBounded /\ RunsDown
<1>1. IInv /\ [Next]_vars =>
        [/\ StepsLeft' <= StepsLeft
         /\ Program \/ Fails => StepsLeft' < StepsLeft]_vars
  BY StepRunsDown
<1>2. Spec => RunsDown
  BY Invariance, <1>1, PTL DEF Spec, RunsDown
<1> QED BY Invariance, StepsInRange, <1>2, PTL

===============================================================================
