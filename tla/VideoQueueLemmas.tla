--------------------------- MODULE VideoQueueLemmas ---------------------------
(***************************************************************************)
(* What happens to the buffers of a queue, for any number of them.         *)
(***************************************************************************)
EXTENDS VideoQueue, TLAPS, FiniteSetTheorems, SequenceTheorems,
        WellFoundedInduction

\* Every nonempty set of naturals has a least element: the sets 0 .. x, ordered
\* by inclusion, are well-founded.
LEMMA LeastElement ==
  ASSUME NEW T \in SUBSET Nat, T # {}
  PROVE  \E x \in T : \A y \in T : x <= y
<1> DEFINE U == {0 .. x : x \in T}
<1>1. U \subseteq FiniteSubsetsOf(Nat)
  <2>1. \A x \in T : IsFiniteSet(0 .. x) /\ 0 .. x \subseteq Nat
    BY FS_Interval
  <2> QED BY <2>1 DEF FiniteSubsetsOf
<1>2. U # {}
  OBVIOUS
<1> HIDE DEF U
<1>3. PICK u \in U : \A v \in U : <<v, u>> \notin StrictSubsetOrdering(Nat)
  BY <1>1, <1>2, WFMin, FS_StrictSubsetOrderingWellFounded
<1> USE DEF U
<1>4. PICK x \in T : u = 0 .. x
  OBVIOUS
<1>5. ASSUME NEW y \in T, y < x PROVE FALSE
  <2>1. 0 .. y \subseteq Nat /\ 0 .. x \subseteq Nat /\ 0 .. y \subseteq 0 .. x
    BY <1>5
  <2>2. x \in 0 .. x /\ x \notin 0 .. y
    BY <1>5
  <2>3. <<0 .. y, 0 .. x>> \in StrictSubsetOrdering(Nat)
    BY <2>1, <2>2 DEF StrictSubsetOrdering
  <2> QED BY <2>3, <1>3, <1>4
<1> QED BY <1>5, <1>4

\* From any position there is a first buffer that is not marked, or the end.
LEMMA FirstUnmarked ==
  ASSUME NEW bq \in [Bufs -> BOOLEAN], NEW c \in 0 .. NumBufs
  PROVE  \E j \in c .. NumBufs :
           /\ j < NumBufs => ~bq[j]
           /\ \A k \in c .. j - 1 : bq[k]
<1> DEFINE T == {j \in c .. NumBufs : j < NumBufs => ~bq[j]}
<1> USE NumBufsAssumption
<1>1. T \in SUBSET Nat /\ NumBufs \in T
  OBVIOUS
<1>2. PICK j \in T : \A i \in T : j <= i
  BY <1>1, LeastElement
<1>3. ASSUME NEW k \in c .. j - 1 PROVE bq[k]
  <2>1. k \in c .. NumBufs /\ k < j /\ k < NumBufs
    OBVIOUS
  <2>2. k \notin T
    BY <1>2, <2>1
  <2> QED BY <2>1, <2>2
<1> QED BY <1>3

\* A buffer the driver completes joins the outgoing queue.
LEMMA OccupiedAppend ==
  ASSUME NEW s \in Seq(Bufs), NEW i \in Bufs
  PROVE  Occupied(Append(s, i)) = Occupied(s) \cup {i}
BY AppendProperties DEF Occupied

\* A buffer DQBUF returns leaves it, and was in it only once.
LEMMA OccupiedTail ==
  ASSUME NEW s \in Seq(Bufs), s # << >>,
         \A j, k \in 1 .. Len(s) : s[j] = s[k] => j = k
  PROVE  /\ Occupied(Tail(s)) = Occupied(s) \ {Head(s)}
         /\ Head(s) \in Occupied(s)
         /\ Head(s) \in Bufs
         /\ \A j, k \in 1 .. Len(Tail(s)) : Tail(s)[j] = Tail(s)[k] => j = k
<1>1. /\ Tail(s) \in Seq(Bufs) /\ Len(s) \in Nat \ {0}
      /\ Len(Tail(s)) = Len(s) - 1
      /\ \A j \in 1 .. Len(s) - 1 : Tail(s)[j] = s[j + 1]
      /\ Head(s) = s[1]
  BY HeadTailProperties, LenProperties, EmptySeq
<1>2. Occupied(Tail(s)) \subseteq Occupied(s) \ {Head(s)}
  BY <1>1 DEF Occupied
<1>3. ASSUME NEW x \in Occupied(s), x # Head(s)
      PROVE  x \in Occupied(Tail(s))
  <2>1. PICK k \in 1 .. Len(s) : x = s[k]
    BY DEF Occupied
  <2>2. k - 1 \in 1 .. Len(s) - 1 /\ Tail(s)[k - 1] = x
    BY <1>1, <1>3, <2>1
  <2> QED BY <1>1, <2>2 DEF Occupied
<1>4. \A j, k \in 1 .. Len(Tail(s)) : Tail(s)[j] = Tail(s)[k] => j = k
  BY <1>1
<1>5. Head(s) \in Occupied(s) /\ Head(s) \in Bufs
  BY <1>1, ElementOfSeq DEF Occupied
<1> QED BY <1>2, <1>3, <1>4, <1>5

-------------------------------------------------------------------------------
\* The kernel holds a buffer at most once.
NoDuplicates ==
  /\ \A j, k \in 1 .. Len(outgoing) : outgoing[j] = outgoing[k] => j = k
  /\ \A i \in incoming : i \notin Occupied(outgoing)

\* While the driver is still busy with a buffer not all of them are complete.
LEMMA RoomForOneMore ==
  ASSUME NEW s \in Seq(Bufs), NEW i \in Bufs, i \notin Occupied(s),
         \A j, k \in 1 .. Len(s) : s[j] = s[k] => j = k
  PROVE  Len(s) < NumBufs
<1>1. Len(s) \in Nat /\ s \in [1 .. Len(s) -> Bufs]
  BY LenProperties
<1>2. s \in [1 .. Len(s) -> Bufs \ {i}]
  BY <1>1 DEF Occupied
<1>3. s \in Injection(1 .. Len(s), Bufs \ {i})
  BY <1>1, <1>2 DEF Injection, IsInjective
<1>4. IsFiniteSet(Bufs) /\ Cardinality(Bufs) = NumBufs
  BY FS_Interval, NumBufsAssumption DEF Bufs
<1>5. IsFiniteSet(Bufs \ {i}) /\ Cardinality(Bufs \ {i}) = NumBufs - 1
  BY <1>4, FS_RemoveElement
<1>6. Cardinality(1 .. Len(s)) <= NumBufs - 1
  BY <1>3, <1>5, FS_Injection
<1>7. Cardinality(1 .. Len(s)) = Len(s)
  <2>1. Cardinality(1 .. Len(s)) = IF 1 > Len(s) THEN 0 ELSE Len(s) - 1 + 1
    <3>1. 1 \in Int /\ Len(s) \in Int
      BY <1>1
    <3> QED BY <3>1, FS_Interval, Zenon
  <2> QED BY <1>1, <2>1
<1> QED BY <1>1, <1>6, <1>7, NumBufsAssumption

-------------------------------------------------------------------------------
(* The frames in the completed buffers, oldest first.                      *)

Frame == Frames \cup {Blank}

Waiting(c, s) == [k \in 1 .. Len(s) |-> c[s[k]]]

LEMMA WaitingIsSeq ==
  ASSUME NEW c \in [Bufs -> Frame], NEW s \in Seq(Bufs)
  PROVE  /\ Waiting(c, s) \in Seq(Frame)
         /\ Len(Waiting(c, s)) = Len(s)
         /\ \A k \in 1 .. Len(s) : Waiting(c, s)[k] = c[s[k]]
<1>1. Len(s) \in Nat /\ \A k \in 1 .. Len(s) : s[k] \in Bufs
  BY LenProperties, ElementOfSeq
<1>2. Waiting(c, s) \in [1 .. Len(s) -> Frame]
  BY <1>1 DEF Waiting
<1>3. Waiting(c, s) \in Seq(Frame)
  BY <1>1, <1>2
<1>4. Len(Waiting(c, s)) = Len(s)
  BY <1>1, <1>2, <1>3, LenProperties
<1> QED BY <1>1, <1>2, <1>3, <1>4 DEF Waiting

LEMMA NoneWaiting ==
  ASSUME NEW c \in [Bufs -> Frame]
  PROVE  Waiting(c, << >>) = << >>
<1>1. << >> \in Seq(Bufs) /\ Len(<< >>) = 0
  BY EmptySeq
<1> QED BY <1>1, WaitingIsSeq, EmptySeq

\* A buffer the driver completes waits behind the others.
LEMMA WaitingAppend ==
  ASSUME NEW c \in [Bufs -> Frame], NEW s \in Seq(Bufs), NEW i \in Bufs,
         i \notin Occupied(s), NEW f \in Frame
  PROVE  Waiting([c EXCEPT ![i] = f], Append(s, i)) = Append(Waiting(c, s), f)
<1> DEFINE d == [c EXCEPT ![i] = f]
           t == Append(s, i)
<1>1. d \in [Bufs -> Frame] /\ d[i] = f /\ \A j \in Bufs \ {i} : d[j] = c[j]
  OBVIOUS
<1>2. /\ t \in Seq(Bufs) /\ Len(t) = Len(s) + 1 /\ Len(s) \in Nat
      /\ \A k \in 1 .. Len(s) : t[k] = s[k] /\ s[k] \in Bufs \ {i}
      /\ t[Len(s) + 1] = i
  BY AppendProperties, LenProperties, ElementOfSeq DEF Occupied
<1> HIDE DEF d, t
<1>3. /\ Waiting(c, s) \in Seq(Frame) /\ Len(Waiting(c, s)) = Len(s)
      /\ \A k \in 1 .. Len(s) : Waiting(c, s)[k] = c[s[k]]
  BY WaitingIsSeq
<1>4. /\ Waiting(d, t) \in Seq(Frame) /\ Len(Waiting(d, t)) = Len(s) + 1
      /\ \A k \in 1 .. Len(s) + 1 : Waiting(d, t)[k] = d[t[k]]
  <2>1. /\ Waiting(d, t) \in Seq(Frame) /\ Len(Waiting(d, t)) = Len(t)
        /\ \A k \in 1 .. Len(t) : Waiting(d, t)[k] = d[t[k]]
    BY <1>1, <1>2, WaitingIsSeq
  <2> QED BY <1>2, <2>1
<1>5. /\ Append(Waiting(c, s), f) \in Seq(Frame)
      /\ Len(Append(Waiting(c, s), f)) = Len(s) + 1
      /\ \A k \in 1 .. Len(s) : Append(Waiting(c, s), f)[k] = c[s[k]]
      /\ Append(Waiting(c, s), f)[Len(s) + 1] = f
  BY <1>3, AppendProperties
<1>6. \A k \in 1 .. Len(s) + 1 : Waiting(d, t)[k] = Append(Waiting(c, s), f)[k]
  BY <1>1, <1>2, <1>4, <1>5
<1> QED BY <1>4, <1>5, <1>6, SeqEqual DEF d, t

\* DQBUF returns the buffer with the oldest frame.
LEMMA WaitingTail ==
  ASSUME NEW c \in [Bufs -> Frame], NEW s \in Seq(Bufs), s # << >>
  PROVE  /\ Waiting(c, s) # << >>
         /\ Head(Waiting(c, s)) = c[Head(s)]
         /\ Tail(Waiting(c, s)) = Waiting(c, Tail(s))
<1>1. /\ Waiting(c, s) \in Seq(Frame) /\ Len(Waiting(c, s)) = Len(s)
      /\ \A k \in 1 .. Len(s) : Waiting(c, s)[k] = c[s[k]]
  BY WaitingIsSeq
<1>2. /\ Tail(s) \in Seq(Bufs) /\ Len(Tail(s)) = Len(s) - 1 /\ Len(s) \in Nat \ {0}
      /\ \A k \in 1 .. Len(s) - 1 : Tail(s)[k] = s[k + 1]
      /\ Head(s) = s[1]
  BY HeadTailProperties, LenProperties, EmptySeq
<1>3. /\ Waiting(c, s) # << >> /\ Head(Waiting(c, s)) = c[Head(s)]
  BY <1>1, <1>2, EmptySeq
<1>4. /\ Tail(Waiting(c, s)) \in Seq(Frame) /\ Len(Tail(Waiting(c, s))) = Len(s) - 1
      /\ \A k \in 1 .. Len(s) - 1 : Tail(Waiting(c, s))[k] = c[s[k + 1]]
  BY <1>1, <1>2, <1>3, HeadTailProperties
<1>5. /\ Waiting(c, Tail(s)) \in Seq(Frame)
      /\ Len(Waiting(c, Tail(s))) = Len(s) - 1
      /\ \A k \in 1 .. Len(s) - 1 : Waiting(c, Tail(s))[k] = c[s[k + 1]]
  <2> DEFINE t == Tail(s)
  <2>1. /\ Waiting(c, t) \in Seq(Frame) /\ Len(Waiting(c, t)) = Len(t)
        /\ \A k \in 1 .. Len(t) : Waiting(c, t)[k] = c[t[k]]
    <3> HIDE DEF t
    <3>1. t \in Seq(Bufs)
      BY <1>2 DEF t
    <3> QED BY <3>1, WaitingIsSeq
  <2> QED BY <1>2, <2>1
<1>6. Tail(Waiting(c, s)) = Waiting(c, Tail(s))
  BY <1>4, <1>5, SeqEqual
<1> QED BY <1>3, <1>6

===============================================================================
