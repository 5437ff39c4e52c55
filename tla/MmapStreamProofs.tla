---------------------------- MODULE MmapStreamProofs ----------------------------
(***************************************************************************)
(* The safety properties of MmapCapture and MmapOutput, the two ways to    *)
(* use one Stream, hold for any number of buffers, any frames, timeouts    *)
(* and errnos.                                                             *)
(***************************************************************************)
EXTENDS MmapCapture, MmapOutput, VideoQueueLemmas

-------------------------------------------------------------------------------
\* The cursor loop of mark_queued and ensure_capture_started_until stops, within
\* bounds, at the first buffer that is not queued (stream.rs:109-116, 295-307).
LEMMA FirstUnqueuedStops ==
  ASSUME NEW bq \in [Bufs -> BOOLEAN], NEW c \in 0 .. NumBufs
  PROVE  /\ FirstUnqueued(bq, c) \in c .. NumBufs
         /\ FirstUnqueued(bq, c) \in 0 .. NumBufs
         /\ FirstUnqueued(bq, c) < NumBufs => ~bq[FirstUnqueued(bq, c)]
         /\ \A k \in c .. FirstUnqueued(bq, c) - 1 : bq[k]
<1>1. /\ FirstUnqueued(bq, c) \in c .. NumBufs
      /\ FirstUnqueued(bq, c) < NumBufs => ~bq[FirstUnqueued(bq, c)]
      /\ \A k \in c .. FirstUnqueued(bq, c) - 1 : bq[k]
  BY FirstUnmarked, Zenon DEF FirstUnqueued
<1>2. FirstUnqueued(bq, c) \in 0 .. NumBufs
  BY <1>1, NumBufsAssumption
<1> QED BY <1>1, <1>2

-------------------------------------------------------------------------------
(* The inductive invariant: the properties themselves, and what keeps them *)
(* true.                                                                   *)

\* next is about to turn streaming on only at the end of the startup loop.
StartupLoopDone ==
  fn = "next" /\ at = "STREAMON" =>
    ~active /\ capture_initial_queue_index = NumBufs

\* The application holds a buffer only between two calls.
LentBetweenCalls == at # "app" => lent = NoBuf

IInv ==
  /\ TypeOK
  /\ BookkeepingMatchesKernel
  /\ NoDuplicates
  /\ LentBetweenCalls
  /\ LentIsStable
  /\ CursorExact
  /\ StartupLoopDone
  /\ NextNeverRequeues

LEMMA InitIInv == Init => IInv
<1> SUFFICES ASSUME Init PROVE IInv
  OBVIOUS
<1> USE NumBufsAssumption, RetriesAssumption
        DEF Init, QueueInit, Bufs, NoBuf, Infinite
<1>1. TypeOK
  BY EmptySeq DEF TypeOK, QueueTypeOK, Syscalls
<1>2. Occupied(outgoing) = {}
  BY DEF Occupied
<1>3. BookkeepingMatchesKernel
  BY <1>2 DEF BookkeepingMatchesKernel, DriverOwns
<1>4. NoDuplicates
  BY <1>2 DEF NoDuplicates
<1>5. /\ LentBetweenCalls /\ LentIsStable
      /\ StartupLoopDone /\ NextNeverRequeues
  BY DEF LentBetweenCalls, LentIsStable, StartupLoopDone, NextNeverRequeues
<1>6. CursorExact
  BY DEF CursorExact
<1> QED BY <1>1, <1>3, <1>4, <1>5, <1>6 DEF IInv

-------------------------------------------------------------------------------
(* Steps that leave the stream's fields and the kernel's queue alone.      *)

\* A public call begins: it takes back the buffer the application held.
LEMMA BeginPreserves ==
  ASSUME IInv, Steady, NEW f \in {"next", "queue", "dequeue", "start", "stop"},
         NEW s \in Syscalls, NEW i \in 0 .. NumBufs,
         Begin(f, s, i), UNCHANGED << stream, driver >>,
         f = "next" => s # "STREAMON",
         f = "next" /\ s = "QBUF" => ~DriverOwns(i)
  PROVE  IInv'
<1> USE DEF IInv, Steady, Begin, stream, driver
<1>1. TypeOK'
  BY TimeoutsAssumption DEF TypeOK, QueueTypeOK, Syscalls, NoBuf, Infinite
<1>2. BookkeepingMatchesKernel' /\ NoDuplicates' /\ CursorExact'
  BY DEF BookkeepingMatchesKernel, NoDuplicates, CursorExact, DriverOwns,
         Occupied, queues
<1>3. LentBetweenCalls' /\ LentIsStable'
  BY DEF LentBetweenCalls, LentIsStable, NoBuf
<1>4. StartupLoopDone' /\ NextNeverRequeues'
  BY DEF StartupLoopDone, NextNeverRequeues, DriverOwns, Occupied
<1> QED BY <1>1, <1>2, <1>3, <1>4

\* A public call returns an error.
LEMMA FailPreserves ==
  ASSUME IInv, Steady, NEW e \in Errnos, Fail(e)
  PROVE  IInv'
<1> USE DEF IInv, Steady, Fail, Return, stream, driver
<1>1. TypeOK'
  BY RetriesAssumption, NumBufsAssumption
     DEF TypeOK, QueueTypeOK, Syscalls, NoBuf, Infinite
<1>2. BookkeepingMatchesKernel' /\ NoDuplicates' /\ CursorExact'
  BY DEF BookkeepingMatchesKernel, NoDuplicates, CursorExact, DriverOwns,
         Occupied
<1>3. LentBetweenCalls' /\ LentIsStable'
  BY DEF LentBetweenCalls, LentIsStable, NoBuf
<1>4. StartupLoopDone' /\ NextNeverRequeues'
  BY DEF StartupLoopDone, NextNeverRequeues
<1> QED BY <1>1, <1>2, <1>3, <1>4

\* An interrupted attempt is retried, or reported as a timeout.
LEMMA InterruptedPreserves == IInv /\ Interrupted /\ Steady => IInv'
<1> SUFFICES ASSUME IInv, Interrupted, Steady PROVE IInv'
  OBVIOUS
<1> USE DEF IInv, Steady
<1>1. CASE Fail("TimedOut")
  BY <1>1, FailPreserves DEF Errnos
<1>2. CASE /\ retries' = (retries + 1) % RetriesMod
           /\ UNCHANGED << stream, timeout, fn, at, index, deadline, app,
                           driver >>
  <2> USE <1>2 DEF stream, app, driver
  <2>1. TypeOK'
    <3>1. retries' \in 0 .. RetriesMod - 1
      BY RetriesAssumption DEF TypeOK, QueueTypeOK
    <3> QED BY <3>1 DEF TypeOK, QueueTypeOK
  <2>2. /\ BookkeepingMatchesKernel' /\ NoDuplicates' /\ CursorExact'
        /\ LentBetweenCalls' /\ LentIsStable'
        /\ StartupLoopDone' /\ NextNeverRequeues'
    BY DEF BookkeepingMatchesKernel, NoDuplicates, CursorExact, DriverOwns,
           Occupied, LentBetweenCalls, LentIsStable, StartupLoopDone,
           NextNeverRequeues
  <2> QED BY <2>1, <2>2
<1> QED BY <1>1, <1>2 DEF Interrupted

\* The clock advances, the device goes away, a timeout is set, poll wakes: the
\* bookkeeping and the queues are untouched.
LEMMA EnvironmentPreserves ==
  ASSUME IInv, Steady,
         \/ Tick \/ Unplug \/ PollReady
         \/ \E t \in Timeouts \cup {Infinite} : set_timeout(t)
  PROVE  IInv'
<1> USE DEF IInv, Steady
<1>1. /\ UNCHANGED << stream, driver >> \/ (UNCHANGED stream /\ Disappears)
      /\ fn' = fn /\ retries' = retries /\ result' = result
      /\ at' # "app" => lent' = lent /\ at # "app"
      /\ lent' \in {lent, NoBuf}
  BY DEF Tick, Unplug, PollReady, Proceed, set_timeout, call, app, Syscalls
<1>2. /\ at' \in {at, "DQBUF"} /\ index' \in {index, 0}
      /\ timeout' \in Timeouts \cup {Infinite, timeout}
      /\ deadline' = deadline \/ (deadline > 0 /\ deadline' = deadline - 1)
  BY DEF Tick, Unplug, PollReady, Proceed, set_timeout, call, app
<1>3. /\ UNCHANGED stream
      /\ UNCHANGED << incoming, outgoing, streaming, content >>
      /\ plugged' \in {plugged, FALSE}
  BY <1>1 DEF driver, Disappears
<1>4. TypeOK'
  <2>2. QueueTypeOK'
    BY <1>3 DEF TypeOK, QueueTypeOK
  <2>1. deadline' \in Nat \cup {Infinite} /\ index' \in 0 .. NumBufs
    BY <1>2, NumBufsAssumption DEF TypeOK, Infinite
  <2> QED BY <1>1, <1>2, <1>3, <2>2, <2>1 DEF TypeOK, Syscalls, stream
<1>5. BookkeepingMatchesKernel' /\ NoDuplicates' /\ CursorExact'
  BY <1>3 DEF BookkeepingMatchesKernel, NoDuplicates, CursorExact, DriverOwns,
              Occupied, stream
<1>6. LentBetweenCalls' /\ LentIsStable'
  BY <1>1, <1>3 DEF LentBetweenCalls, LentIsStable, DriverOwns, Occupied,
                    stream, Syscalls
<1>7. StartupLoopDone' /\ NextNeverRequeues'
  <2>1. at' \in {"QBUF", "STREAMON"} => at' = at /\ index' = index
    BY DEF Tick, Unplug, PollReady, Proceed, set_timeout, call, Syscalls
  <2> QED BY <1>1, <1>3, <2>1 DEF StartupLoopDone, NextNeverRequeues,
                                  DriverOwns, Occupied, stream
<1> QED BY <1>4, <1>5, <1>6, <1>7

-------------------------------------------------------------------------------
(* The public calls.                                                       *)

LEMMA NextPreserves == IInv /\ next /\ Steady => IInv'
<1> SUFFICES ASSUME IInv, next, Steady PROVE IInv'
  OBVIOUS
<1> USE NumBufsAssumption
<1>1. CASE NextRunning
  <2>1. arena_index \in 0 .. NumBufs
    BY DEF IInv, TypeOK, QueueTypeOK, Bufs
  <2>2. CASE ~buffer_queued[arena_index] /\ Begin("next", "QBUF", arena_index)
    <3>1. ~DriverOwns(arena_index)
      BY <2>2 DEF IInv, TypeOK, QueueTypeOK, BookkeepingMatchesKernel
    <3> QED BY <1>1, <2>1, <2>2, <3>1, BeginPreserves DEF NextRunning, Syscalls
  <2>3. CASE buffer_queued[arena_index] /\ Begin("next", "POLL", 0)
    BY <1>1, <2>3, BeginPreserves DEF NextRunning, Syscalls
  <2> QED BY <1>1, <2>2, <2>3 DEF NextRunning
<1>2. CASE NextStarting
  <2> DEFINE c == FirstUnqueued(buffer_queued, capture_initial_queue_index)
  <2> USE DEF IInv
  <2>1. /\ c \in 0 .. NumBufs /\ c \in capture_initial_queue_index .. NumBufs
        /\ c < NumBufs => ~buffer_queued[c]
        /\ \A k \in capture_initial_queue_index .. c - 1 : buffer_queued[k]
    BY FirstUnqueuedStops DEF TypeOK, QueueTypeOK
  <2>2. /\ ~active /\ capture_initial_queue_index' = c
        /\ Begin("next", StartupCall(c), StartupIndex(c))
        /\ UNCHANGED << buffer_queued, arena_index, buf_meta, active, driver >>
    BY <1>2 DEF NextStarting
  <2> HIDE DEF c
  <2> USE <2>2 DEF Begin, driver, StartupCall, StartupIndex
  <2>3. TypeOK'
    BY <2>1, TimeoutsAssumption
    DEF TypeOK, QueueTypeOK, Syscalls, NoBuf, Infinite, Steady
  <2>4. BookkeepingMatchesKernel' /\ NoDuplicates'
    BY DEF BookkeepingMatchesKernel, NoDuplicates, DriverOwns, Occupied
  <2>5. CursorExact'
    BY <2>1 DEF CursorExact, TypeOK, QueueTypeOK
  <2>6. LentBetweenCalls' /\ LentIsStable'
    BY DEF LentBetweenCalls, LentIsStable, NoBuf
  <2>7. StartupLoopDone'
    BY <2>1 DEF StartupLoopDone
  <2>8. NextNeverRequeues'
    BY <2>1 DEF NextNeverRequeues, BookkeepingMatchesKernel, DriverOwns,
                Occupied, Bufs
  <2> QED BY <2>3, <2>4, <2>5, <2>6, <2>7, <2>8
<1> QED BY <1>1, <1>2 DEF next

LEMMA CallPreserves == IInv /\ ApiCall /\ Steady => IInv'
<1> SUFFICES ASSUME IInv, ApiCall, Steady PROVE IInv'
  OBVIOUS
<1>1. 0 \in 0 .. NumBufs
  BY NumBufsAssumption
<1>2. CASE dequeue \/ start \/ stop
  BY <1>1, <1>2, BeginPreserves DEF dequeue, start, stop, Syscalls
<1>3. ASSUME NEW i \in 0 .. NumBufs, queue(i) PROVE IInv'
  BY <1>3, BeginPreserves DEF queue, Syscalls
<1> QED BY <1>2, <1>3, NextPreserves, EnvironmentPreserves DEF ApiCall

-------------------------------------------------------------------------------
(* The system calls that move buffers.                                     *)

LEMMA QbufPreserves == IInv /\ Qbuf /\ Steady => IInv'
<1> SUFFICES ASSUME IInv, Qbuf, Steady PROVE IInv'
  OBVIOUS
<1> USE NumBufsAssumption DEF IInv, Steady
<1> DEFINE bq == [buffer_queued EXCEPT ![index] = TRUE]
<1>0. bq \in [Bufs -> BOOLEAN]
  BY DEF TypeOK, QueueTypeOK
<1>1. PICK c \in 0 .. NumBufs :
         /\ c \in capture_initial_queue_index .. NumBufs
         /\ c < NumBufs => ~bq[c]
         /\ \A k \in capture_initial_queue_index .. c - 1 : bq[k]
         /\ c = FirstUnqueued(bq, capture_initial_queue_index)
  <2> HIDE DEF bq
  <2> QED BY <1>0, FirstUnqueuedStops DEF TypeOK, QueueTypeOK
<1>2. /\ at = "QBUF" /\ plugged /\ index \in Bufs /\ ~DriverOwns(index)
      /\ incoming' = incoming \cup {index}
      /\ buffer_queued' = bq /\ capture_initial_queue_index' = c
      /\ UNCHANGED << arena_index, buf_meta, active,
                      outgoing, streaming, plugged, content >>
  BY <1>1 DEF Qbuf, QbufAccepts, Takes, mark_queued
<1>3. bq[index] /\ index \in 0 .. NumBufs
  BY <1>2 DEF TypeOK, QueueTypeOK, Bufs
<1>4. \A i \in Bufs : bq[i] <=> buffer_queued[i] \/ i = index
  BY <1>2 DEF TypeOK, QueueTypeOK
<1> HIDE DEF bq
<1>5. \/ fn = "queue" /\ Return("ok", NoBuf)
      \/ fn = "next" /\ active /\ Proceed("POLL", 0)
      \/ fn = "next" /\ ~active /\ Proceed(StartupCall(c), StartupIndex(c))
  BY <1>2 DEF Qbuf
<1>6. lent = NoBuf /\ lent' = NoBuf
  BY <1>2, <1>5 DEF LentBetweenCalls, Return, Proceed
<1>7. TypeOK'
  <2>1. /\ fn' \in {"none", "next"} /\ at' \in Syscalls \cup {"app"}
        /\ index' \in 0 .. NumBufs /\ deadline' \in Nat \cup {Infinite}
        /\ retries' \in 0 .. RetriesMod - 1
        /\ result' \in {"none", "ok", "panic"} \cup Errnos
        /\ timeout' = timeout
    BY <1>2, <1>1, <1>5, RetriesAssumption
       DEF TypeOK, QueueTypeOK, Return, Proceed,
           StartupCall, StartupIndex, Syscalls
  <2> QED BY <1>2, <1>0, <1>3, <1>1, <1>6, <2>1 DEF TypeOK, QueueTypeOK
<1>8. BookkeepingMatchesKernel'
  BY <1>2, <1>4 DEF BookkeepingMatchesKernel, DriverOwns, Occupied
<1>9. NoDuplicates'
  BY <1>2 DEF NoDuplicates, DriverOwns, Occupied
<1>10. LentBetweenCalls' /\ LentIsStable'
  BY <1>6 DEF LentBetweenCalls, LentIsStable
<1>11. CursorExact'
  <2> SUFFICES ASSUME ~active
               PROVE  /\ \A j \in 0 .. c - 1 : bq[j]
                      /\ c < NumBufs => ~bq[c]
    BY <1>2 DEF CursorExact
  <2>1. ASSUME NEW j \in 0 .. c - 1, j < capture_initial_queue_index PROVE bq[j]
    BY <1>1, <1>4, <2>1 DEF CursorExact, TypeOK, QueueTypeOK, Bufs
  <2> QED BY <1>1, <2>1 DEF TypeOK, QueueTypeOK
<1>12. StartupLoopDone' /\ NextNeverRequeues'
  <2>1. CASE fn = "queue" /\ Return("ok", NoBuf)
    BY <2>1 DEF StartupLoopDone, NextNeverRequeues, Return
  <2>2. CASE fn = "next" /\ active /\ Proceed("POLL", 0)
    BY <2>2 DEF StartupLoopDone, NextNeverRequeues, Proceed
  <2>3. CASE fn = "next" /\ ~active /\ Proceed(StartupCall(c), StartupIndex(c))
    <3>1. CASE c = NumBufs
      BY <1>2, <2>3, <3>1 DEF StartupLoopDone, NextNeverRequeues, Proceed,
                              StartupCall, StartupIndex
    <3>2. CASE c < NumBufs
      <4>1. c \in Bufs /\ at' = "QBUF" /\ index' = c
        BY <1>1, <2>3, <3>2 DEF Bufs, Proceed, StartupCall, StartupIndex
      <4>2. ~DriverOwns(c)'
        BY <1>2, <1>1, <1>8, <3>2, <4>1 DEF BookkeepingMatchesKernel
      <4> QED BY <4>1, <4>2 DEF StartupLoopDone, NextNeverRequeues, DriverOwns,
                                Occupied
    <3> QED BY <1>1, <3>1, <3>2
  <2> QED BY <1>5, <2>1, <2>2, <2>3
<1> QED BY <1>7, <1>8, <1>9, <1>10, <1>11, <1>12

LEMMA DqbufPreserves == IInv /\ Dqbuf /\ Steady => IInv'
<1> SUFFICES ASSUME IInv, Dqbuf, Steady PROVE IInv'
  OBVIOUS
<1> USE NumBufsAssumption DEF IInv, Steady
<1>1. PICK i \in Bufs :
         /\ DqbufReturns(i)
         /\ \/ fn = "dequeue" /\ Return("ok", NoBuf)
            \/ fn = "next" /\ Return("ok", i)
  BY DEF Dqbuf
<1>2. /\ streaming /\ outgoing # << >> /\ i = Head(outgoing)
      /\ outgoing' = Tail(outgoing)
      /\ buffer_queued' = [buffer_queued EXCEPT ![i] = FALSE]
      /\ arena_index' = i
      /\ buf_meta' = [buf_meta EXCEPT ![i] = content[i]]
      /\ UNCHANGED << capture_initial_queue_index, active,
                      incoming, streaming, plugged, content >>
  BY <1>1 DEF DqbufReturns, GivesBack, mark_dequeued
<1>3. /\ Occupied(Tail(outgoing)) = Occupied(outgoing) \ {i}
      /\ i \in Occupied(outgoing)
      /\ \A j, k \in 1 .. Len(Tail(outgoing)) :
           Tail(outgoing)[j] = Tail(outgoing)[k] => j = k
  BY <1>2, OccupiedTail DEF TypeOK, QueueTypeOK, NoDuplicates
<1>4. Occupied(outgoing)' = Occupied(outgoing) \ {i}
  <2>1. Occupied(outgoing)' = Occupied(Tail(outgoing))
    BY <1>2 DEF Occupied
  <2> QED BY <1>3, <2>1
<1>5. fn' = "none" /\ at' = "app" /\ lent' \in {NoBuf, i}
  BY <1>1 DEF Return
<1>6. TypeOK'
  <2>1. /\ fn' = "none" /\ at' = "app" /\ index' = 0 /\ retries' = 0
        /\ deadline' = Infinite /\ result' = "ok" /\ timeout' = timeout
    BY <1>1 DEF Return
  <2>2. Tail(outgoing) \in Seq(Bufs)
    BY <1>2, HeadTailProperties DEF TypeOK, QueueTypeOK
  <2> QED BY <1>2, <1>5, <2>1, <2>2, RetriesAssumption
          DEF TypeOK, QueueTypeOK, Infinite
<1>7. BookkeepingMatchesKernel' /\ NoDuplicates'
  BY <1>2, <1>3, <1>4
     DEF BookkeepingMatchesKernel, NoDuplicates, DriverOwns, TypeOK, QueueTypeOK
<1>8. LentBetweenCalls' /\ LentIsStable'
  <2>1. ~DriverOwns(i)'
    BY <1>2, <1>3, <1>4 DEF NoDuplicates, DriverOwns
  <2>2. (content[i] = buf_meta[i])'
    BY <1>2 DEF TypeOK, QueueTypeOK
  <2>3. CASE lent' = i
    BY <1>5, <2>1, <2>2, <2>3
       DEF LentBetweenCalls, LentIsStable, DriverOwns, Occupied
  <2>4. CASE lent' = NoBuf
    BY <1>5, <2>4 DEF LentBetweenCalls, LentIsStable
  <2> QED BY <1>5, <2>3, <2>4
<1>9. CursorExact'
  BY <1>2 DEF CursorExact, BookkeepingMatchesKernel
<1>10. StartupLoopDone' /\ NextNeverRequeues'
  BY <1>5 DEF StartupLoopDone, NextNeverRequeues
<1> QED BY <1>6, <1>7, <1>8, <1>9, <1>10

LEMMA StreamonPreserves == IInv /\ Streamon /\ Steady => IInv'
<1> SUFFICES ASSUME IInv, Streamon, Steady PROVE IInv'
  OBVIOUS
<1> USE NumBufsAssumption DEF IInv, Steady
<1>1. /\ at = "STREAMON" /\ streaming' = TRUE /\ active' = TRUE
      /\ UNCHANGED << buffer_queued, capture_initial_queue_index, arena_index,
                      buf_meta, incoming, outgoing, plugged, content >>
  BY DEF Streamon, StreamonAccepts, TurnsOn, queues
<1>2. \/ Return("ok", NoBuf)
      \/ fn = "next" /\ Proceed("POLL", 0)
  BY DEF Streamon
<1>3. lent = NoBuf /\ lent' = NoBuf
  BY <1>1, <1>2 DEF LentBetweenCalls, Return, Proceed
<1>4. TypeOK'
  <2>1. /\ fn' \in {"none", "next"} /\ at' \in Syscalls \cup {"app"}
        /\ index' = 0 /\ deadline' \in Nat \cup {Infinite}
        /\ retries' \in 0 .. RetriesMod - 1
        /\ result' \in {"none", "ok", "panic"} \cup Errnos
        /\ timeout' = timeout
    BY <1>1, <1>2, RetriesAssumption
       DEF TypeOK, QueueTypeOK, Return, Proceed, Syscalls
  <2> QED BY <1>1, <1>3, <2>1 DEF TypeOK, QueueTypeOK
<1>5. BookkeepingMatchesKernel' /\ NoDuplicates' /\ CursorExact'
  BY <1>1 DEF BookkeepingMatchesKernel, NoDuplicates, CursorExact, DriverOwns,
              Occupied
<1>6. LentBetweenCalls' /\ LentIsStable'
  BY <1>3 DEF LentBetweenCalls, LentIsStable
<1>7. StartupLoopDone' /\ NextNeverRequeues'
  BY <1>2 DEF StartupLoopDone, NextNeverRequeues, Return, Proceed
<1> QED BY <1>4, <1>5, <1>6, <1>7

LEMMA StreamoffPreserves == IInv /\ StreamoffAccepts /\ Steady => IInv'
<1> SUFFICES ASSUME IInv, StreamoffAccepts, Steady PROVE IInv'
  OBVIOUS
<1> USE NumBufsAssumption DEF IInv, Steady, StreamoffAccepts, TurnsOff,
                          reset_buffer_state, Return
<1>1. Occupied(outgoing)' = {}
  BY DEF Occupied
<1>2. TypeOK'
  <2>1. buffer_queued' \in [Bufs -> BOOLEAN] /\ outgoing' \in Seq(Bufs)
    BY EmptySeq
  <2>2. arena_index' \in Bufs /\ capture_initial_queue_index' \in 0 .. NumBufs
    BY DEF Bufs
  <2>3. retries' \in 0 .. RetriesMod - 1
    BY RetriesAssumption
  <2> QED BY <2>1, <2>2, <2>3 DEF TypeOK, QueueTypeOK
<1>3. BookkeepingMatchesKernel' /\ NoDuplicates'
  BY <1>1 DEF BookkeepingMatchesKernel, NoDuplicates, DriverOwns
<1>4. CursorExact'
  BY DEF CursorExact, Bufs
<1>5. /\ LentBetweenCalls' /\ LentIsStable'
      /\ StartupLoopDone' /\ NextNeverRequeues'
  BY DEF LentBetweenCalls, LentIsStable, StartupLoopDone, NextNeverRequeues
<1> QED BY <1>2, <1>3, <1>4, <1>5

LEMMA DriverFillsPreserves == IInv /\ DriverFills /\ Steady => IInv'
<1> SUFFICES ASSUME IInv, DriverFills, Steady PROVE IInv'
  OBVIOUS
<1> USE DEF IInv, Steady
<1>1. PICK i \in incoming, f \in Frames :
         /\ incoming' = incoming \ {i}
         /\ outgoing' = Append(outgoing, i)
         /\ content' = [content EXCEPT ![i] = f]
  BY DEF DriverFills, Fills
<1>2. UNCHANGED << buffer_queued, capture_initial_queue_index, arena_index,
                   buf_meta, active, timeout, fn, at, index, deadline, retries,
                   result, lent, streaming, plugged >>
  BY DEF DriverFills, Fills, stream, call, app
<1>3. i \in Bufs /\ i \notin Occupied(outgoing)
  BY DEF TypeOK, QueueTypeOK, NoDuplicates
<1>4. Occupied(outgoing)' = Occupied(outgoing) \cup {i}
  BY <1>1, <1>3, OccupiedAppend DEF TypeOK, QueueTypeOK, Occupied
<1>5. TypeOK'
  BY <1>1, <1>2, <1>3, AppendProperties DEF TypeOK, QueueTypeOK
<1>6. \A j \in Bufs : DriverOwns(j)' <=> DriverOwns(j)
  BY <1>1, <1>4 DEF DriverOwns
<1>7. BookkeepingMatchesKernel' /\ CursorExact'
  BY <1>2, <1>6 DEF BookkeepingMatchesKernel, CursorExact
<1>8. NoDuplicates'
  <2>1. \A j \in incoming' : j \notin Occupied(outgoing)'
    BY <1>1, <1>4 DEF NoDuplicates
  <2>2. ASSUME NEW j \in 1 .. Len(outgoing'), NEW k \in 1 .. Len(outgoing'),
               outgoing'[j] = outgoing'[k]
        PROVE  j = k
    <3>1. /\ Len(outgoing) \in Nat /\ Len(outgoing') = Len(outgoing) + 1
          /\ \A l \in 1 .. Len(outgoing) : outgoing'[l] = outgoing[l]
          /\ outgoing'[Len(outgoing) + 1] = i
      BY <1>1, <1>3, AppendProperties, LenProperties DEF TypeOK, QueueTypeOK
    <3>2. \A l \in 1 .. Len(outgoing) : outgoing[l] # i
      BY <1>3 DEF Occupied
    <3> QED BY <2>2, <3>1, <3>2 DEF NoDuplicates
  <2> QED BY <2>1, <2>2 DEF NoDuplicates
<1>9. LentBetweenCalls' /\ LentIsStable'
  <2>1. lent # NoBuf => lent # i /\ lent \in Bufs
    BY DEF LentIsStable, DriverOwns, TypeOK, QueueTypeOK
  <2>2. lent # NoBuf => content'[lent] = content[lent]
    BY <1>1, <2>1 DEF TypeOK, QueueTypeOK
  <2> QED BY <1>2, <1>6, <2>1, <2>2
          DEF LentBetweenCalls, LentIsStable
<1>10. StartupLoopDone' /\ NextNeverRequeues'
  BY <1>1, <1>2, <1>4 DEF StartupLoopDone, NextNeverRequeues, DriverOwns
<1> QED BY <1>5, <1>7, <1>8, <1>9, <1>10

-------------------------------------------------------------------------------
(* The theorems.                                                           *)

LEMMA StepPreserves == IInv /\ [Next]_vars => IInv'
<1> SUFFICES ASSUME IInv, [Next]_vars PROVE IInv'
  OBVIOUS
<1>1. CASE Steady
  <2> USE <1>1
  <2>1. CASE ApiCall
    BY <2>1, CallPreserves
  <2>2. CASE QbufInvalid \/ DqbufEmpty \/ PollTimesOut \/ Refused
    <3>1. PICK e \in Errnos : Fail(e)
      BY <2>2 DEF QbufInvalid, DqbufEmpty, PollTimesOut, Refused, Errnos
    <3> QED BY <3>1, FailPreserves
  <2>3. CASE SyscallStep
    BY <2>2, <2>3, EnvironmentPreserves, InterruptedPreserves, QbufPreserves,
       DqbufPreserves, StreamonPreserves, StreamoffPreserves DEF SyscallStep
  <2>4. CASE Environment
    BY <2>4, EnvironmentPreserves, DriverFillsPreserves DEF Environment
  <2>5. CASE UNCHANGED vars
    BY <2>5 DEF vars, stream, call, app, driver, IInv, TypeOK, QueueTypeOK,
       BookkeepingMatchesKernel, NoDuplicates, LentBetweenCalls, LentIsStable,
       CursorExact, StartupLoopDone, NextNeverRequeues, DriverOwns, Occupied
  <2> QED BY <2>1, <2>3, <2>4, <2>5 DEF Next
<1> QED BY <1>1 DEF Next, vars, Steady

LEMMA Invariance == Spec => []IInv
BY InitIInv, StepPreserves, PTL DEF Spec

\* Every reachable state is well-typed, for any number of buffers: no index the
\* stream keeps leaves the arena (stream.rs:109-127).
THEOREM TypeCorrect == Spec => []TypeOK
<1>1. IInv => TypeOK
  BY DEF IInv
<1> QED BY <1>1, Invariance, PTL

\* buffer_queued and active say what the kernel's queue holds and does
\* (stream.rs:20-21), after any calls, errors, interruptions and timeouts.
THEOREM BookkeepingCorrect == Spec => []BookkeepingMatchesKernel
<1>1. IInv => BookkeepingMatchesKernel
  BY DEF IInv
<1> QED BY <1>1, Invariance, PTL

\* The bytes and metadata lent by next are one frame's and out of the driver's
\* reach (stream.rs:325-327).
THEOREM LentStable == Spec => []LentIsStable
<1>1. IInv => LentIsStable
  BY DEF IInv
<1> QED BY <1>1, Invariance, PTL

\* Startup queueing resumes exactly where an earlier call left it
\* (stream.rs:23-25).
THEOREM CursorCorrect == Spec => []CursorExact
<1>1. IInv => CursorExact
  BY DEF IInv
<1> QED BY <1>1, Invariance, PTL

\* next turns streaming on only once the driver has every buffer
\* (stream.rs:300-309).
THEOREM StartupCompletes == Spec => []StartupComplete
<1>1. IInv => StartupComplete
  <2> SUFFICES ASSUME IInv, fn = "next", at = "STREAMON", NEW i \in Bufs
               PROVE  DriverOwns(i)
    BY DEF StartupComplete
  <2>1. buffer_queued[i]
    BY NumBufsAssumption DEF IInv, StartupLoopDone, CursorExact, Bufs
  <2> QED BY <2>1 DEF IInv, BookkeepingMatchesKernel
<1> QED BY <1>1, Invariance, PTL

\* next never queues a buffer the driver has (stream.rs:20-21).
THEOREM NeverRequeues == Spec => []NextNeverRequeues
<1>1. IInv => NextNeverRequeues
  BY DEF IInv
<1> QED BY <1>1, Invariance, PTL

-------------------------------------------------------------------------------
(* The application that only calls next and stop.  What it is in the       *)
(* middle of, and what the driver has, follow from IInv and each other.    *)

\* Where a call may stand, and what it is about.
OnlyNextStops ==
  onlyNext =>
    /\ at = "STREAMOFF" => fn = "stop"
    /\ at = "STREAMON" => fn = "next"
    /\ at = "QBUF" => fn = "next" /\ index \in Bufs /\ (active => index = arena_index)
    /\ at \in {"POLL", "DQBUF"} => fn = "next" /\ active

\* A running stream keeps at most one buffer from the driver, and none while it
\* waits; a buffer is there when it asks for one.
Circulates ==
  onlyNext /\ active =>
    /\ \A i \in Bufs : DriverOwns(i) \/ i = arena_index
    /\ at \in {"POLL", "DQBUF"} => \A i \in Bufs : DriverOwns(i)
    /\ at = "DQBUF" /\ plugged => outgoing # << >>

Circulation == OnlyNextStops /\ Circulates /\ NextNeverMisusesKernel

LEMMA InitCirculation == Init => Circulation
BY DEF Init, QueueInit, Circulation, OnlyNextStops, Circulates,
       NextNeverMisusesKernel

\* A public call that fails, for a reason of the driver's or of the clock's.
LEMMA FailCirculation ==
  ASSUME Circulation, Steady, NEW e, Fail(e), e \notin {"EINVAL", "EAGAIN"}
  PROVE  Circulation'
BY DEF Circulation, OnlyNextStops, Circulates, NextNeverMisusesKernel, Steady,
       Fail, Return, stream, driver, DriverOwns, Occupied

LEMMA CallCirculation == IInv /\ Circulation /\ ApiCall /\ Steady => Circulation'
<1> SUFFICES ASSUME IInv, Circulation, onlyNext, next \/ stop, Steady
             PROVE  Circulation'
  <2>1. ASSUME ~onlyNext, Steady PROVE Circulation'
    BY <2>1 DEF Circulation, OnlyNextStops, Circulates, NextNeverMisusesKernel,
                Steady
  <2>2. ASSUME Circulation, Steady, NEW t, set_timeout(t) PROVE Circulation'
    BY <2>2 DEF Circulation, OnlyNextStops, Circulates, NextNeverMisusesKernel,
                Steady, set_timeout, stream, call, driver, DriverOwns, Occupied
  <2> QED BY <2>1, <2>2 DEF ApiCall
<1> USE DEF Circulation, Steady, Begin
<1>1. CASE stop
  BY <1>1 DEF stop, OnlyNextStops, Circulates, NextNeverMisusesKernel, stream,
              driver, DriverOwns, Occupied
<1>2. CASE NextRunning
  <2>1. arena_index \in Bufs
    BY DEF IInv, TypeOK
  <2>2. UNCHANGED << stream, driver, result >> /\ fn' = "next" /\ active
    BY <1>2 DEF NextRunning
  <2>3. \/ at' = "QBUF" /\ index' = arena_index
        \/ at' = "POLL" /\ DriverOwns(arena_index)
    BY <1>2, <2>1 DEF NextRunning, IInv, BookkeepingMatchesKernel
  <2>4. Circulates'
    BY <2>2, <2>3 DEF Circulates, stream, driver, DriverOwns, Occupied
  <2> QED BY <2>1, <2>2, <2>3, <2>4
          DEF OnlyNextStops, NextNeverMisusesKernel, stream
<1>3. CASE NextStarting
  <2> DEFINE c == FirstUnqueued(buffer_queued, capture_initial_queue_index)
  <2>1. c \in 0 .. NumBufs
    BY FirstUnqueuedStops DEF IInv, TypeOK
  <2>2. /\ ~active /\ ~active' /\ fn' = "next" /\ result' = result
        /\ at' = StartupCall(c) /\ index' = StartupIndex(c)
    BY <1>3 DEF NextStarting
  <2> HIDE DEF c
  <2> QED BY <2>1, <2>2, NumBufsAssumption
          DEF OnlyNextStops, Circulates, NextNeverMisusesKernel, StartupCall,
              StartupIndex, Bufs
<1> QED BY <1>1, <1>2, <1>3 DEF next

LEMMA QbufCirculation ==
  IInv /\ IInv' /\ Circulation /\ Qbuf /\ Steady => Circulation'
<1> SUFFICES ASSUME IInv, IInv', Circulation, Qbuf, Steady, onlyNext
             PROVE  Circulation'
  BY DEF Circulation, OnlyNextStops, Circulates, NextNeverMisusesKernel, Steady
<1> USE DEF Circulation, Steady
<1>1. /\ at = "QBUF" /\ fn = "next" /\ index \in Bufs
      /\ active => index = arena_index
      /\ incoming' = incoming \cup {index}
      /\ UNCHANGED << arena_index, active, outgoing >>
  BY DEF Qbuf, QbufAccepts, Takes, OnlyNextStops
<1>2. \A i \in Bufs : DriverOwns(i)' <=> DriverOwns(i) \/ i = index
  BY <1>1 DEF DriverOwns, Occupied
<1>3. CASE active
  <2>1. Proceed("POLL", 0)
    BY <1>1, <1>3 DEF Qbuf
  <2> QED BY <1>1, <1>2, <1>3, <2>1
          DEF OnlyNextStops, Circulates, NextNeverMisusesKernel, Proceed
<1>4. CASE ~active
  <2> DEFINE c == capture_initial_queue_index'
  <2>1. c \in 0 .. NumBufs
    BY DEF IInv, TypeOK
  <2>2. fn' = "next" /\ at' = StartupCall(c) /\ index' = StartupIndex(c)
        /\ result' = result /\ ~active'
    BY <1>1, <1>4 DEF Qbuf, Proceed
  <2> HIDE DEF c
  <2> QED BY <2>1, <2>2, NumBufsAssumption
          DEF OnlyNextStops, Circulates, NextNeverMisusesKernel, StartupCall,
              StartupIndex, Bufs
<1> QED BY <1>3, <1>4

LEMMA DqbufCirculation == IInv /\ Circulation /\ Dqbuf /\ Steady => Circulation'
<1> SUFFICES ASSUME IInv, Circulation, Dqbuf, Steady, onlyNext
             PROVE  Circulation'
  BY DEF Circulation, OnlyNextStops, Circulates, NextNeverMisusesKernel, Steady
<1> USE DEF Circulation, Steady
<1>1. PICK i \in Bufs : DqbufReturns(i) /\ Return("ok", i)
  BY DEF Dqbuf, DqbufReturns, OnlyNextStops
<1>2. /\ outgoing' = Tail(outgoing) /\ incoming' = incoming /\ arena_index' = i
      /\ outgoing # << >> /\ i = Head(outgoing) /\ at = "DQBUF" /\ active' = active
  BY <1>1 DEF DqbufReturns, GivesBack, mark_dequeued
<1>3. Occupied(outgoing)' = Occupied(outgoing) \ {i}
  <2>1. Occupied(Tail(outgoing)) = Occupied(outgoing) \ {i}
    BY <1>2, OccupiedTail DEF IInv, TypeOK, QueueTypeOK, NoDuplicates
  <2> QED BY <1>2, <2>1 DEF Occupied
<1>4. ASSUME active, NEW j \in Bufs PROVE DriverOwns(j)' \/ j = i
  BY <1>2, <1>3, <1>4 DEF Circulates, DriverOwns
<1> QED BY <1>1, <1>2, <1>4
        DEF OnlyNextStops, Circulates, NextNeverMisusesKernel, Return

\* Streaming goes on, or off.
LEMMA SwitchCirculation ==
  ASSUME IInv, Circulation, Steady, Streamon \/ StreamoffAccepts
  PROVE  Circulation'
<1> SUFFICES ASSUME onlyNext PROVE Circulation'
  BY DEF Circulation, OnlyNextStops, Circulates, NextNeverMisusesKernel, Steady
<1> USE DEF Circulation, Steady
<1>1. CASE StreamoffAccepts
  BY <1>1 DEF StreamoffAccepts, Return, OnlyNextStops, Circulates,
              NextNeverMisusesKernel
<1>2. CASE Streamon
  <2>1. /\ at = "STREAMON" /\ fn = "next" /\ Proceed("POLL", 0) /\ active'
        /\ UNCHANGED << incoming, outgoing >>
    BY <1>2 DEF Streamon, StreamonAccepts, TurnsOn, OnlyNextStops
  <2>2. \A i \in Bufs : buffer_queued[i]
    BY <2>1, NumBufsAssumption DEF IInv, StartupLoopDone, CursorExact, Bufs
  <2>3. \A i \in Bufs : DriverOwns(i)'
    BY <2>1, <2>2 DEF IInv, BookkeepingMatchesKernel, DriverOwns, Occupied
  <2> QED BY <2>1, <2>3
          DEF OnlyNextStops, Circulates, NextNeverMisusesKernel, Proceed
<1> QED BY <1>1, <1>2

\* poll wakes a call that has every buffer with the driver: one is complete, or
\* the device is gone.
LEMMA PollCirculation ==
  IInv /\ Circulation /\ PollReady /\ Steady => Circulation'
<1> SUFFICES ASSUME IInv, Circulation, PollReady, Steady, onlyNext
             PROVE  Circulation'
  BY DEF Circulation, OnlyNextStops, Circulates, NextNeverMisusesKernel, Steady
<1> USE DEF Circulation, Steady
<1>1. /\ at = "POLL" /\ fn = "next" /\ active /\ Proceed("DQBUF", 0)
      /\ MayBeReadable /\ UNCHANGED << stream, driver >>
  BY DEF PollReady, OnlyNextStops
<1>2. \A i \in Bufs : DriverOwns(i)
  BY <1>1 DEF Circulates
<1>3. plugged => outgoing # << >>
  <2>1. CASE incoming = {}
    <3>1. 0 \in Occupied(outgoing)
      BY <1>2, <2>1, NumBufsAssumption DEF DriverOwns, Bufs
    <3> QED BY <3>1 DEF Occupied
  <2> QED BY <1>1, <2>1 DEF MayBeReadable, Ready, IInv, BookkeepingMatchesKernel
<1> QED BY <1>1, <1>2, <1>3
        DEF OnlyNextStops, Circulates, NextNeverMisusesKernel, Proceed, stream,
            driver, DriverOwns, Occupied

\* The driver completes a buffer: it has it all the same.
LEMMA FillCirculation ==
  IInv /\ Circulation /\ DriverFills /\ Steady => Circulation'
<1> SUFFICES ASSUME IInv, Circulation, DriverFills, Steady PROVE Circulation'
  OBVIOUS
<1>1. PICK i \in incoming :
         incoming' = incoming \ {i} /\ outgoing' = Append(outgoing, i)
  BY DEF DriverFills, Fills
<1>2. UNCHANGED << stream, fn, at, index, result, plugged >>
  BY DEF DriverFills, Fills, call, app
<1>3. Occupied(outgoing)' = Occupied(outgoing) \cup {i} /\ outgoing' # << >>
  <2>1. outgoing \in Seq(Bufs) /\ i \in Bufs
    BY DEF IInv, TypeOK, QueueTypeOK
  <2> QED BY <1>1, <2>1, OccupiedAppend, AppendProperties DEF Occupied
<1>4. \A j \in Bufs : DriverOwns(j)' <=> DriverOwns(j)
  BY <1>1, <1>3 DEF DriverOwns
<1> QED BY <1>2, <1>3, <1>4
        DEF Circulation, OnlyNextStops, Circulates, NextNeverMisusesKernel,
            Steady, stream

LEMMA StepCirculation ==
  IInv /\ IInv' /\ Circulation /\ [Next]_vars => Circulation'
<1> SUFFICES ASSUME IInv, IInv', Circulation, [Next]_vars PROVE Circulation'
  OBVIOUS
<1>1. CASE UNCHANGED vars
  BY <1>1 DEF vars, stream, call, app, driver, Circulation, OnlyNextStops,
     Circulates, NextNeverMisusesKernel, DriverOwns, Occupied
<1>2. CASE QbufInvalid \/ DqbufEmpty
  <2>1. CASE ~onlyNext /\ Steady
    BY <2>1 DEF Circulation, OnlyNextStops, Circulates, NextNeverMisusesKernel,
                Steady
  <2>2. CASE onlyNext
    <3>1. ~QbufInvalid
      BY <2>2 DEF QbufInvalid, Refuses, Circulation, OnlyNextStops, IInv,
                  NextNeverRequeues
    <3>2. ~DqbufEmpty
      BY <2>2 DEF DqbufEmpty, IsOff, HasNone, Circulation, OnlyNextStops,
                  Circulates, IInv, BookkeepingMatchesKernel
    <3> QED BY <1>2, <3>1, <3>2
  <2> QED BY <1>1, <2>1, <2>2 DEF Next
<1>3. CASE (PollTimesOut \/ Refused) /\ Steady
  <2>1. PICK e : Fail(e) /\ e \notin {"EINVAL", "EAGAIN"}
    BY <1>3, FaultsAssumption DEF PollTimesOut, Refused
  <2> QED BY <1>3, <2>1, FailCirculation
<1>4. CASE (Interrupted \/ Tick \/ Unplug) /\ Steady
  <2>1. CASE Fail("TimedOut")
    BY <1>4, <2>1, FailCirculation
  <2>2. CASE /\ UNCHANGED << stream, fn, at, index, result, incoming, outgoing >>
             /\ plugged' => plugged
    BY <1>4, <2>2 DEF Circulation, OnlyNextStops, Circulates, Steady,
       NextNeverMisusesKernel, stream, DriverOwns, Occupied
  <2> QED BY <1>4, <2>1, <2>2 DEF Interrupted, Tick, Unplug, Disappears, driver,
                                  call, app
<1> QED BY <1>1, <1>2, <1>3, <1>4, CallCirculation, QbufCirculation,
           DqbufCirculation, SwitchCirculation, PollCirculation, FillCirculation
        DEF Next, SyscallStep, Environment

LEMMA CirculationInvariance == Spec => []Circulation
BY Invariance, InitCirculation, StepCirculation, PTL DEF Spec

\* No buffer leaks out of circulation, however many next and stop calls failed
\* (stream.rs:312-328).
THEOREM NoBufferLeaks == Spec => []PipelineFull
<1>1. Circulation => PipelineFull
  BY DEF Circulation, Circulates, PipelineFull
<1> QED BY <1>1, CirculationInvariance, PTL

\* next asks the kernel for nothing illegal and for no buffer that is not there
\* (stream.rs:291-328).
THEOREM NeverMisusesKernel == Spec => []NextNeverMisusesKernel
<1>1. Circulation => NextNeverMisusesKernel
  BY DEF Circulation
<1> QED BY <1>1, CirculationInvariance, PTL

-------------------------------------------------------------------------------
(* The stream is a source of frames: every step is one of FrameSource or   *)
(* leaves it unchanged.                                                    *)

\* A call begins, or goes on, or fails, while the driver does nothing.
LEMMA QuietStep ==
  ASSUME IInv, IInv', Steady, UNCHANGED << outgoing, streaming, content >>,
         lent' \in {lent, NoBuf}
  PROVE  [Source!Next]_(Source!sourceVars)
<1>1. View' = View \/ View' = << >>
  BY DEF Steady, View, None, IInv, LentIsStable
<1>2. Source!Call \/ UNCHANGED Source!sourceVars
  BY <1>1 DEF Source!Call, Source!sourceVars, None, Steady
<1> QED BY <1>2 DEF Source!Next

\* An application that calls anything in any order is not promised a source.
LEMMA ClosedStep ==
  ASSUME Steady, ~onlyNext
  PROVE  UNCHANGED Source!sourceVars
BY DEF Source!sourceVars, Steady, View

LEMMA DeliverStep ==
  ASSUME IInv, IInv', Circulation, Steady, Dqbuf, onlyNext
  PROVE  Source!Deliver
<1>1. PICK i \in Bufs :
         /\ at = "DQBUF" /\ streaming /\ outgoing # << >> /\ i = Head(outgoing)
         /\ outgoing' = Tail(outgoing) /\ UNCHANGED << streaming, content >>
         /\ lent' = i
  BY DEF Dqbuf, DqbufReturns, GivesBack, Return, Circulation, OnlyNextStops
<1>2. /\ Waiting(content, outgoing) # << >>
      /\ Head(Waiting(content, outgoing)) = content[i]
      /\ Tail(Waiting(content, outgoing)) = Waiting(content', outgoing')
  BY <1>1, WaitingTail DEF IInv, TypeOK, QueueTypeOK, Frame
<1>3. View = << >> /\ View' = content[i]
  <2>1. lent = NoBuf /\ i # NoBuf
    BY <1>1 DEF IInv, LentBetweenCalls, NoBuf, Bufs
  <2>2. LentIsStable /\ LentIsStable'
    BY DEF IInv
  <2> QED BY <1>1, <2>1, <2>2 DEF Steady, View, LentIsStable, None
<1> QED BY <1>1, <1>2, <1>3 DEF Source!Deliver, Waiting, None, Steady

LEMMA ProduceStep ==
  ASSUME IInv, IInv', Steady, DriverFills, onlyNext
  PROVE  \E f \in Frames : Source!Produce(f)
<1>1. PICK i \in incoming, f \in Frames :
         /\ streaming /\ incoming' = incoming \ {i}
         /\ outgoing' = Append(outgoing, i)
         /\ content' = [content EXCEPT ![i] = f]
  BY DEF DriverFills, Fills
<1>2. UNCHANGED << lent, streaming >>
  BY DEF DriverFills, Fills, app
<1>3. /\ i \in Bufs /\ i \notin Occupied(outgoing) /\ outgoing \in Seq(Bufs)
      /\ content \in [Bufs -> Frame] /\ f \in Frame
      /\ \A j, k \in 1 .. Len(outgoing) : outgoing[j] = outgoing[k] => j = k
  BY DEF IInv, TypeOK, QueueTypeOK, NoDuplicates, Frame
<1>4. Waiting(content', outgoing') = Append(Waiting(content, outgoing), f)
  BY <1>1, <1>3, WaitingAppend
<1>5. Len(Waiting(content, outgoing)) < NumBufs
  BY <1>3, RoomForOneMore, WaitingIsSeq
<1>6. View' = View
  <2>1. lent # NoBuf => lent \in Bufs /\ lent # i
    BY DEF IInv, TypeOK, LentIsStable, DriverOwns
  <2>2. lent # NoBuf => content'[lent] = content[lent]
    BY <1>1, <1>3, <2>1
  <2>3. LentIsStable /\ LentIsStable'
    BY DEF IInv
  <2> QED BY <1>2, <2>2, <2>3 DEF View, LentIsStable, Steady
<1>7. Source!Produce(f)
  BY <1>1, <1>2, <1>4, <1>5, <1>6 DEF Source!Produce, Waiting, Steady
<1> QED BY <1>7

LEMMA SwitchStep ==
  ASSUME IInv, IInv', Steady, onlyNext, Streamon \/ StreamoffAccepts
  PROVE  Source!Start \/ Source!Stop
<1>1. View = << >> /\ View' = << >>
  BY DEF IInv, LentBetweenCalls, Streamon, StreamonAccepts, StreamoffAccepts,
         Return, Proceed, View, None
<1>2. CASE Streamon
  BY <1>1, <1>2 DEF Streamon, StreamonAccepts, TurnsOn, Source!Start, Steady
<1>3. CASE StreamoffAccepts
  <2>1. /\ outgoing' = << >> /\ streaming' = FALSE
        /\ content' \in [Bufs -> Frame]
    BY <1>3 DEF StreamoffAccepts, TurnsOff, IInv, TypeOK, QueueTypeOK, Frame
  <2>2. Waiting(content', outgoing') = << >>
    BY <2>1, NoneWaiting
  <2> QED BY <1>1, <2>1, <2>2 DEF Source!Stop, Waiting, None, Steady
<1> QED BY <1>2, <1>3

LEMMA InitSource == Init => Source!Init
<1> SUFFICES ASSUME Init PROVE Source!Init
  OBVIOUS
<1>1. content \in [Bufs -> Frame] /\ outgoing = << >>
  BY DEF Init, QueueInit, Frame
<1>2. Waiting(content, outgoing) = << >>
  BY <1>1, NoneWaiting
<1> QED BY <1>2 DEF Init, QueueInit, Source!Init, Waiting, View, None

LEMMA StepSource ==
  IInv /\ IInv' /\ Circulation /\ [Next]_vars => [Source!Next]_(Source!sourceVars)
<1> SUFFICES ASSUME IInv, IInv', Circulation, [Next]_vars
             PROVE  [Source!Next]_(Source!sourceVars)
  OBVIOUS
<1>1. Steady
  BY DEF Next, vars, Steady
<1>2. CASE ~onlyNext
  BY <1>1, <1>2, ClosedStep
<1>3. CASE onlyNext /\ Dqbuf
  BY <1>1, <1>3, DeliverStep DEF Source!Next
<1>4. CASE onlyNext /\ DriverFills
  BY <1>1, <1>4, ProduceStep DEF Source!Next
<1>5. CASE onlyNext /\ (Streamon \/ StreamoffAccepts)
  BY <1>1, <1>5, SwitchStep DEF Source!Next
<1>6. CASE ~Dqbuf /\ ~DriverFills /\ ~Streamon /\ ~StreamoffAccepts
  <2>1. UNCHANGED << outgoing, streaming, content >>
    BY <1>6 DEF Next, vars, ApiCall, SyscallStep, Environment, next, NextStarting,
       NextRunning, stop, start, queue, dequeue, set_timeout, Fail, PollReady,
       PollTimesOut, Qbuf, QbufAccepts, Takes, QbufInvalid, DqbufEmpty,
       Interrupted, Refused, Tick, Unplug, Disappears, driver
  <2>2. lent' \in {lent, NoBuf}
    BY <1>6 DEF Next, vars, ApiCall, SyscallStep, Environment, next, NextStarting,
       NextRunning, stop, start, queue, dequeue, set_timeout, Begin, Fail, Return,
       Proceed, PollReady, PollTimesOut, Qbuf, QbufInvalid, DqbufEmpty,
       Interrupted, Refused, Tick, Unplug, app
  <2> QED BY <1>1, <2>1, <2>2, QuietStep
<1> QED BY <1>2, <1>3, <1>4, <1>5, <1>6

\* The frames arrive in the order the device completed them, each at most once and
\* none skipped, however the calls between them fail (stream.rs:312-328): the
\* stream implements FrameSource.
THEOREM CaptureIsASource == Spec => ImplementsFrameSource
BY Invariance, CirculationInvariance, InitSource, StepSource, PTL
   DEF Spec, ImplementsFrameSource, Source!Spec

-------------------------------------------------------------------------------
(* The output side.  Its names begin with Output where the capture side    *)
(* has one that means the same.                                            *)

-------------------------------------------------------------------------------
(* The inductive invariant.                                                *)

\* Nobody but the application changes a buffer or its metadata.
MetaOfContent == \A i \in Bufs : content[i] = buf_meta[i]

\* An application that only calls next and stop has queued nothing as long as the
\* stream is not active.
InactiveHoldsNothing == onlyNext /\ ~active => \A i \in Bufs : ~buffer_queued[i]

\* It makes no other calls, and its next starts an inactive stream and queues on an
\* active one.
QueuesWhenActive ==
  onlyNext => /\ fn \in {"none", "next", "stop"}
              /\ fn = "next" /\ at \in {"POLL", "QBUF"} => active
              /\ fn = "next" /\ at = "STREAMON" => ~active

OutputIInv ==
  /\ TypeOK
  /\ BookkeepingMatchesKernel
  /\ NoDuplicates
  /\ LentBetweenCalls
  /\ MetaOfContent
  /\ InactiveHoldsNothing
  /\ QueuesWhenActive
  /\ ClientLentIsStable

LEMMA OutputInitIInv == Init => OutputIInv
<1> SUFFICES ASSUME Init PROVE OutputIInv
  OBVIOUS
<1> USE NumBufsAssumption, RetriesAssumption
        DEF Init, QueueInit, Bufs, NoBuf, Infinite
<1>1. TypeOK
  BY EmptySeq DEF TypeOK, QueueTypeOK, Syscalls
<1>2. Occupied(outgoing) = {}
  BY DEF Occupied
<1>3. BookkeepingMatchesKernel /\ NoDuplicates
  BY <1>2 DEF BookkeepingMatchesKernel, DriverOwns, NoDuplicates
<1>4. LentBetweenCalls /\ ClientLentIsStable
  BY DEF LentBetweenCalls, ClientLentIsStable, LentIsStable
<1>5. MetaOfContent /\ InactiveHoldsNothing /\ QueuesWhenActive
  BY DEF MetaOfContent, InactiveHoldsNothing, QueuesWhenActive
<1> QED BY <1>1, <1>3, <1>4, <1>5 DEF OutputIInv

-------------------------------------------------------------------------------
(* Steps that leave the stream's fields and the kernel's queue alone.      *)

\* A public call begins: it takes back the buffer the application held.
LEMMA OutputBeginPreserves ==
  ASSUME OutputIInv, Steady, NEW f \in {"next", "queue", "dequeue", "start", "stop"},
         NEW s \in Syscalls, NEW i \in 0 .. NumBufs,
         Begin(f, s, i), UNCHANGED << stream, driver >>,
         onlyNext => f \in {"next", "stop"},
         f = "next" /\ s \in {"POLL", "QBUF"} => active,
         f = "next" /\ s = "STREAMON" => ~active
  PROVE  OutputIInv'
<1> USE DEF OutputIInv, Steady, Begin, stream, driver
<1>1. TypeOK'
  BY TimeoutsAssumption DEF TypeOK, QueueTypeOK, Syscalls, NoBuf, Infinite
<1>2. BookkeepingMatchesKernel' /\ NoDuplicates'
  BY DEF BookkeepingMatchesKernel, NoDuplicates, DriverOwns, Occupied
<1>3. LentBetweenCalls' /\ ClientLentIsStable'
  BY DEF LentBetweenCalls, ClientLentIsStable, LentIsStable, NoBuf
<1>4. MetaOfContent' /\ InactiveHoldsNothing' /\ QueuesWhenActive'
  BY DEF MetaOfContent, InactiveHoldsNothing, QueuesWhenActive
<1> QED BY <1>1, <1>2, <1>3, <1>4

\* A public call returns without success.
LEMMA OutputReturnPreserves ==
  ASSUME OutputIInv, Steady, NEW r \in {"ok", "panic"} \cup Errnos, Return(r, NoBuf),
         UNCHANGED << stream, driver >>
  PROVE  OutputIInv'
<1> USE DEF OutputIInv, Steady, Return, stream, driver
<1>1. TypeOK'
  BY RetriesAssumption, NumBufsAssumption
     DEF TypeOK, QueueTypeOK, Syscalls, NoBuf, Infinite
<1>2. BookkeepingMatchesKernel' /\ NoDuplicates'
  BY DEF BookkeepingMatchesKernel, NoDuplicates, DriverOwns, Occupied
<1>3. LentBetweenCalls' /\ ClientLentIsStable'
  BY DEF LentBetweenCalls, ClientLentIsStable, LentIsStable, NoBuf
<1>4. MetaOfContent' /\ InactiveHoldsNothing' /\ QueuesWhenActive'
  BY DEF MetaOfContent, InactiveHoldsNothing, QueuesWhenActive
<1> QED BY <1>1, <1>2, <1>3, <1>4

LEMMA OutputFailPreserves ==
  ASSUME OutputIInv, Steady, NEW e \in Errnos, Fail(e)
  PROVE  OutputIInv'
BY OutputReturnPreserves DEF Fail

\* An interrupted attempt is retried, or reported as a timeout.
LEMMA OutputInterruptedPreserves == OutputIInv /\ Interrupted /\ Steady => OutputIInv'
<1> SUFFICES ASSUME OutputIInv, Interrupted, Steady PROVE OutputIInv'
  OBVIOUS
<1> USE DEF OutputIInv, Steady
<1>1. CASE Fail("TimedOut")
  BY <1>1, OutputFailPreserves DEF Errnos
<1>2. CASE /\ retries' = (retries + 1) % RetriesMod
           /\ UNCHANGED << stream, timeout, fn, at, index, deadline, app,
                           driver >>
  <2> USE <1>2 DEF stream, app, driver
  <2>1. TypeOK'
    <3>1. retries' \in 0 .. RetriesMod - 1
      BY RetriesAssumption DEF TypeOK, QueueTypeOK
    <3> QED BY <3>1 DEF TypeOK, QueueTypeOK
  <2>2. BookkeepingMatchesKernel' /\ NoDuplicates' /\ LentBetweenCalls'
    BY DEF BookkeepingMatchesKernel, NoDuplicates, DriverOwns, Occupied,
           LentBetweenCalls
  <2>3. MetaOfContent' /\ InactiveHoldsNothing' /\ QueuesWhenActive'
    BY DEF MetaOfContent, InactiveHoldsNothing, QueuesWhenActive
  <2>4. ClientLentIsStable'
    BY DEF ClientLentIsStable, LentIsStable, DriverOwns, Occupied
  <2> QED BY <2>1, <2>2, <2>3, <2>4
<1> QED BY <1>1, <1>2 DEF Interrupted

\* The clock advances, the device goes away, a timeout is set, poll wakes: the
\* bookkeeping and the queues are untouched.
LEMMA OutputEnvironmentPreserves ==
  ASSUME OutputIInv, Steady,
         \/ Tick \/ Unplug \/ OutputPollReady
         \/ \E t \in Timeouts \cup {Infinite} : set_timeout(t)
  PROVE  OutputIInv'
<1> USE DEF OutputIInv, Steady
<1>1. /\ UNCHANGED << stream, driver >> \/ (UNCHANGED stream /\ Disappears)
      /\ fn' = fn /\ retries' = retries /\ result' = result
      /\ at' # "app" => lent' = lent /\ at # "app"
      /\ lent' \in {lent, NoBuf}
  BY DEF Tick, Unplug, OutputPollReady, Proceed, set_timeout, call, app, Syscalls
<1>2. /\ at' = at \/ (at = "POLL" /\ at' = "QBUF")
      /\ index' = index
      /\ timeout' \in Timeouts \cup {Infinite, timeout}
      /\ deadline' = deadline \/ (deadline > 0 /\ deadline' = deadline - 1)
  BY DEF Tick, Unplug, OutputPollReady, Proceed, set_timeout, call, app
<1>3. /\ UNCHANGED stream
      /\ UNCHANGED << incoming, outgoing, streaming, content >>
      /\ plugged' \in {plugged, FALSE}
  BY <1>1 DEF driver, Disappears
<1>4. TypeOK'
  <2>2. QueueTypeOK'
    BY <1>3 DEF TypeOK, QueueTypeOK
  <2>1. deadline' \in Nat \cup {Infinite}
    BY <1>2, NumBufsAssumption DEF TypeOK, Infinite
  <2> QED BY <1>1, <1>2, <1>3, <2>2, <2>1 DEF TypeOK, Syscalls, stream
<1>5. BookkeepingMatchesKernel' /\ NoDuplicates'
  BY <1>3 DEF BookkeepingMatchesKernel, NoDuplicates, DriverOwns, Occupied, stream
<1>6. LentBetweenCalls' /\ ClientLentIsStable'
  BY <1>1, <1>3 DEF LentBetweenCalls, ClientLentIsStable, LentIsStable, DriverOwns,
                    Occupied, stream
<1>7. MetaOfContent' /\ InactiveHoldsNothing'
  BY <1>3 DEF MetaOfContent, InactiveHoldsNothing, stream
<1>8. QueuesWhenActive'
  BY <1>1, <1>2, <1>3 DEF QueuesWhenActive, stream
<1> QED BY <1>4, <1>5, <1>6, <1>7, <1>8

-------------------------------------------------------------------------------
(* The public calls, and the application's writing.                        *)

LEMMA OutputNextPreserves == OutputIInv /\ output_next /\ Steady => OutputIInv'
<1> SUFFICES ASSUME OutputIInv, output_next, Steady PROVE OutputIInv'
  OBVIOUS
<1>1. arena_index \in 0 .. NumBufs /\ 0 \in 0 .. NumBufs
  BY NumBufsAssumption DEF OutputIInv, TypeOK, QueueTypeOK, Bufs
<1>2. CASE OutputNextStarting
  BY <1>1, <1>2, OutputBeginPreserves DEF OutputNextStarting, output_next, Syscalls
<1>3. CASE OutputNextRunning
  BY <1>1, <1>3, OutputBeginPreserves DEF OutputNextRunning, output_next, Syscalls
<1> QED BY <1>2, <1>3 DEF output_next

LEMMA AppWritesPreserves == OutputIInv /\ AppWrites /\ Steady => OutputIInv'
<1> SUFFICES ASSUME OutputIInv, AppWrites, Steady PROVE OutputIInv'
  OBVIOUS
<1> USE DEF OutputIInv, Steady
<1>1. PICK f \in Frames :
         /\ content' = [content EXCEPT ![lent] = f]
         /\ buf_meta' = [buf_meta EXCEPT ![lent] = f]
  BY DEF AppWrites
<1>2. /\ lent # NoBuf /\ lent \in Bufs
      /\ UNCHANGED << buffer_queued, capture_initial_queue_index, arena_index,
                      active, timeout, fn, at, index, deadline, retries, result,
                      lent, incoming, outgoing, streaming, plugged >>
  BY DEF AppWrites, queues, call, app, TypeOK, QueueTypeOK
<1>3. TypeOK'
  BY <1>1, <1>2 DEF TypeOK, QueueTypeOK
<1>4. BookkeepingMatchesKernel' /\ NoDuplicates' /\ LentBetweenCalls'
  BY <1>2 DEF BookkeepingMatchesKernel, NoDuplicates, DriverOwns, Occupied,
              LentBetweenCalls
<1>5. MetaOfContent'
  BY <1>1, <1>2 DEF MetaOfContent, TypeOK, QueueTypeOK
<1>6. InactiveHoldsNothing' /\ QueuesWhenActive'
  BY <1>2 DEF InactiveHoldsNothing, QueuesWhenActive
<1>7. ClientLentIsStable'
  BY <1>2, <1>5 DEF ClientLentIsStable, LentIsStable, MetaOfContent, DriverOwns,
                    Occupied
<1> QED BY <1>3, <1>4, <1>5, <1>6, <1>7

LEMMA OutputCallPreserves == OutputIInv /\ OutputApiCall /\ Steady => OutputIInv'
<1> SUFFICES ASSUME OutputIInv, OutputApiCall, Steady PROVE OutputIInv'
  OBVIOUS
<1>1. 0 \in 0 .. NumBufs /\ \A i \in Bufs : i \in 0 .. NumBufs
  BY NumBufsAssumption DEF Bufs
<1>2. CASE stop
  BY <1>1, <1>2, OutputBeginPreserves DEF stop, Syscalls
<1>3. CASE ~onlyNext /\ (output_dequeue \/ start)
  BY <1>1, <1>3, OutputBeginPreserves DEF output_dequeue, start, Syscalls
<1>4. ASSUME ~onlyNext, NEW i \in 0 .. NumBufs, output_queue(i) PROVE OutputIInv'
  <2>1. CASE Begin("queue", "POLL", i)
    BY <1>4, <2>1, OutputBeginPreserves DEF output_queue, Syscalls
  <2>2. CASE Return("panic", NoBuf)
    BY <1>4, <2>2, OutputReturnPreserves DEF output_queue
  <2> QED BY <1>4, <2>1, <2>2 DEF output_queue
<1> QED BY <1>2, <1>3, <1>4, OutputNextPreserves, AppWritesPreserves,
           OutputEnvironmentPreserves DEF OutputApiCall

-------------------------------------------------------------------------------
(* The system calls that move buffers.                                     *)

LEMMA OutputQbufPreserves == OutputIInv /\ OutputQbuf /\ Steady => OutputIInv'
<1> SUFFICES ASSUME OutputIInv, OutputQbuf, Steady PROVE OutputIInv'
  OBVIOUS
<1> USE NumBufsAssumption DEF OutputIInv, Steady
<1> DEFINE bq == [buffer_queued EXCEPT ![index] = TRUE]
<1>1. bq \in [Bufs -> BOOLEAN]
  BY DEF TypeOK, QueueTypeOK
<1>2. /\ at = "QBUF" /\ plugged /\ index \in Bufs /\ ~DriverOwns(index)
      /\ incoming' = incoming \cup {index}
      /\ buffer_queued' = bq
      /\ capture_initial_queue_index' = FirstUnqueued(bq, capture_initial_queue_index)
      /\ UNCHANGED << arena_index, buf_meta, active,
                      outgoing, streaming, plugged, content >>
  BY DEF OutputQbuf, QbufAccepts, Takes, mark_queued
<1>3. \A i \in Bufs : bq[i] <=> buffer_queued[i] \/ i = index
  BY <1>2 DEF TypeOK, QueueTypeOK
<1> HIDE DEF bq
<1>4. capture_initial_queue_index' \in 0 .. NumBufs
  BY <1>1, <1>2, FirstUnqueuedStops DEF TypeOK, QueueTypeOK
<1>5. \/ fn = "queue" /\ Return("ok", NoBuf)
      \/ fn = "next" /\ Proceed("DQBUF", 0)
  BY DEF OutputQbuf
<1>6. lent = NoBuf /\ lent' = NoBuf
  BY <1>2, <1>5 DEF LentBetweenCalls, Return, Proceed
<1>7. TypeOK'
  <2>1. /\ fn' \in {"none", "next"} /\ at' \in Syscalls \cup {"app"}
        /\ index' \in 0 .. NumBufs /\ deadline' \in Nat \cup {Infinite}
        /\ retries' \in 0 .. RetriesMod - 1
        /\ result' \in {"none", "ok", "panic"} \cup Errnos
        /\ timeout' = timeout
    BY <1>5, RetriesAssumption DEF TypeOK, QueueTypeOK, Return, Proceed, Syscalls
  <2> QED BY <1>1, <1>2, <1>4, <1>6, <2>1 DEF TypeOK, QueueTypeOK
<1>8. BookkeepingMatchesKernel'
  BY <1>2, <1>3 DEF BookkeepingMatchesKernel, DriverOwns, Occupied
<1>9. NoDuplicates'
  BY <1>2 DEF NoDuplicates, DriverOwns, Occupied
<1>10. LentBetweenCalls' /\ ClientLentIsStable' /\ MetaOfContent'
  BY <1>2, <1>6 DEF LentBetweenCalls, ClientLentIsStable, LentIsStable, MetaOfContent
<1>11. InactiveHoldsNothing' /\ QueuesWhenActive'
  BY <1>2, <1>5 DEF InactiveHoldsNothing, QueuesWhenActive, Return, Proceed
<1> QED BY <1>7, <1>8, <1>9, <1>10, <1>11

LEMMA OutputDqbufPreserves == OutputIInv /\ Dqbuf /\ Steady => OutputIInv'
<1> SUFFICES ASSUME OutputIInv, Dqbuf, Steady PROVE OutputIInv'
  OBVIOUS
<1> USE NumBufsAssumption DEF OutputIInv, Steady
<1>1. PICK i \in Bufs :
         /\ DqbufReturns(i)
         /\ \/ fn = "dequeue" /\ Return("ok", NoBuf)
            \/ fn = "next" /\ Return("ok", i)
  BY DEF Dqbuf
<1>2. /\ streaming /\ outgoing # << >> /\ i = Head(outgoing)
      /\ outgoing' = Tail(outgoing)
      /\ buffer_queued' = [buffer_queued EXCEPT ![i] = FALSE]
      /\ arena_index' = i
      /\ buf_meta' = [buf_meta EXCEPT ![i] = content[i]]
      /\ UNCHANGED << capture_initial_queue_index, active,
                      incoming, streaming, plugged, content >>
  BY <1>1 DEF DqbufReturns, GivesBack, mark_dequeued
<1>3. /\ Occupied(Tail(outgoing)) = Occupied(outgoing) \ {i}
      /\ i \in Occupied(outgoing)
      /\ \A j, k \in 1 .. Len(Tail(outgoing)) :
           Tail(outgoing)[j] = Tail(outgoing)[k] => j = k
  BY <1>2, OccupiedTail DEF TypeOK, QueueTypeOK, NoDuplicates
<1>4. Occupied(outgoing)' = Occupied(outgoing) \ {i}
  <2>1. Occupied(outgoing)' = Occupied(Tail(outgoing))
    BY <1>2 DEF Occupied
  <2> QED BY <1>3, <2>1
<1>5. /\ fn' = "none" /\ at' = "app" /\ index' = 0 /\ retries' = 0
      /\ deadline' = Infinite /\ result' = "ok" /\ timeout' = timeout
      /\ lent' \in {NoBuf, i}
  BY <1>1 DEF Return
<1>6. TypeOK'
  <2>1. Tail(outgoing) \in Seq(Bufs)
    BY <1>2, HeadTailProperties DEF TypeOK, QueueTypeOK
  <2> QED BY <1>2, <1>5, <2>1, RetriesAssumption
          DEF TypeOK, QueueTypeOK, Infinite
<1>7. BookkeepingMatchesKernel' /\ NoDuplicates'
  BY <1>2, <1>3, <1>4
     DEF BookkeepingMatchesKernel, NoDuplicates, DriverOwns, TypeOK, QueueTypeOK
<1>8. MetaOfContent'
  BY <1>2 DEF MetaOfContent, TypeOK, QueueTypeOK
<1>9. LentBetweenCalls' /\ ClientLentIsStable'
  <2>1. ~DriverOwns(i)'
    BY <1>2, <1>3, <1>4 DEF NoDuplicates, DriverOwns
  <2>2. (content[i] = buf_meta[i])'
    BY <1>8 DEF MetaOfContent
  <2>3. CASE lent' = i
    BY <1>5, <2>1, <2>2, <2>3
       DEF LentBetweenCalls, ClientLentIsStable, LentIsStable, DriverOwns, Occupied
  <2>4. CASE lent' = NoBuf
    BY <1>5, <2>4 DEF LentBetweenCalls, ClientLentIsStable, LentIsStable
  <2> QED BY <1>5, <2>3, <2>4
<1>10. InactiveHoldsNothing' /\ QueuesWhenActive'
  BY <1>2, <1>5 DEF InactiveHoldsNothing, QueuesWhenActive, BookkeepingMatchesKernel
<1> QED BY <1>6, <1>7, <1>8, <1>9, <1>10

\* The first next lends a buffer nobody has queued.
LEMMA OutputStreamonPreserves == OutputIInv /\ OutputStreamon /\ Steady => OutputIInv'
<1> SUFFICES ASSUME OutputIInv, OutputStreamon, Steady PROVE OutputIInv'
  OBVIOUS
<1> USE NumBufsAssumption DEF OutputIInv, Steady
<1>1. /\ at = "STREAMON" /\ streaming' = TRUE /\ active' = TRUE
      /\ UNCHANGED << buffer_queued, capture_initial_queue_index, arena_index,
                      buf_meta, incoming, outgoing, plugged, content >>
  BY DEF OutputStreamon, StreamonAccepts, TurnsOn, queues
<1>2. \/ fn = "start" /\ Return("ok", NoBuf)
      \/ fn = "next" /\ Return("ok", arena_index)
  BY DEF OutputStreamon
<1>3. /\ fn' = "none" /\ at' = "app" /\ index' = 0 /\ retries' = 0
      /\ deadline' = Infinite /\ result' = "ok" /\ timeout' = timeout
      /\ lent' \in {NoBuf, arena_index}
  BY <1>2 DEF Return
<1>4. TypeOK'
  BY <1>1, <1>3, RetriesAssumption DEF TypeOK, QueueTypeOK, Infinite
<1>5. BookkeepingMatchesKernel' /\ NoDuplicates' /\ LentBetweenCalls'
  BY <1>1, <1>3 DEF BookkeepingMatchesKernel, NoDuplicates, DriverOwns, Occupied,
                    LentBetweenCalls
<1>6. MetaOfContent' /\ InactiveHoldsNothing' /\ QueuesWhenActive'
  BY <1>1, <1>3 DEF MetaOfContent, InactiveHoldsNothing, QueuesWhenActive
<1>7. ClientLentIsStable'
  <2>1. onlyNext => ~buffer_queued[arena_index]
    BY <1>1, <1>2 DEF QueuesWhenActive, InactiveHoldsNothing, TypeOK, QueueTypeOK
  <2> QED BY <1>1, <1>3, <2>1
          DEF ClientLentIsStable, LentIsStable, BookkeepingMatchesKernel,
              MetaOfContent, DriverOwns, Occupied, TypeOK, QueueTypeOK
<1> QED BY <1>4, <1>5, <1>6, <1>7

LEMMA OutputStreamoffPreserves == OutputIInv /\ StreamoffAccepts /\ Steady => OutputIInv'
<1> SUFFICES ASSUME OutputIInv, StreamoffAccepts, Steady PROVE OutputIInv'
  OBVIOUS
<1> USE NumBufsAssumption DEF OutputIInv, Steady, StreamoffAccepts, TurnsOff,
                          reset_buffer_state, Return
<1>1. Occupied(outgoing)' = {}
  BY DEF Occupied
<1>2. TypeOK'
  <2>1. buffer_queued' \in [Bufs -> BOOLEAN] /\ outgoing' \in Seq(Bufs)
    BY EmptySeq
  <2>2. arena_index' \in Bufs /\ capture_initial_queue_index' \in 0 .. NumBufs
    BY DEF Bufs
  <2>3. retries' \in 0 .. RetriesMod - 1
    BY RetriesAssumption
  <2> QED BY <2>1, <2>2, <2>3 DEF TypeOK, QueueTypeOK
<1>3. BookkeepingMatchesKernel' /\ NoDuplicates'
  BY <1>1 DEF BookkeepingMatchesKernel, NoDuplicates, DriverOwns
<1>4. LentBetweenCalls' /\ ClientLentIsStable' /\ MetaOfContent'
  BY DEF LentBetweenCalls, ClientLentIsStable, LentIsStable, MetaOfContent
<1>5. InactiveHoldsNothing' /\ QueuesWhenActive'
  BY DEF InactiveHoldsNothing, QueuesWhenActive
<1> QED BY <1>2, <1>3, <1>4, <1>5

LEMMA DriverDrainsPreserves == OutputIInv /\ DriverDrains /\ Steady => OutputIInv'
<1> SUFFICES ASSUME OutputIInv, DriverDrains, Steady PROVE OutputIInv'
  OBVIOUS
<1> USE DEF OutputIInv, Steady
<1>1. PICK i \in incoming :
         /\ incoming' = incoming \ {i}
         /\ outgoing' = Append(outgoing, i)
  BY DEF DriverDrains, Drains
<1>2. UNCHANGED << buffer_queued, capture_initial_queue_index, arena_index,
                   buf_meta, active, timeout, fn, at, index, deadline, retries,
                   result, lent, streaming, plugged, content >>
  BY DEF DriverDrains, Drains, stream, call, app
<1>3. i \in Bufs /\ i \notin Occupied(outgoing)
  BY DEF TypeOK, QueueTypeOK, NoDuplicates
<1>4. Occupied(outgoing)' = Occupied(outgoing) \cup {i}
  BY <1>1, <1>3, OccupiedAppend DEF TypeOK, QueueTypeOK, Occupied
<1>5. TypeOK'
  BY <1>1, <1>2, <1>3, AppendProperties DEF TypeOK, QueueTypeOK
<1>6. \A j \in Bufs : DriverOwns(j)' <=> DriverOwns(j)
  BY <1>1, <1>4 DEF DriverOwns
<1>7. BookkeepingMatchesKernel' /\ MetaOfContent' /\ LentBetweenCalls'
  BY <1>2, <1>6 DEF BookkeepingMatchesKernel, MetaOfContent, LentBetweenCalls
<1>8. NoDuplicates'
  <2>1. \A j \in incoming' : j \notin Occupied(outgoing)'
    BY <1>1, <1>4 DEF NoDuplicates
  <2>2. ASSUME NEW j \in 1 .. Len(outgoing'), NEW k \in 1 .. Len(outgoing'),
               outgoing'[j] = outgoing'[k]
        PROVE  j = k
    <3>1. /\ Len(outgoing) \in Nat /\ Len(outgoing') = Len(outgoing) + 1
          /\ \A l \in 1 .. Len(outgoing) : outgoing'[l] = outgoing[l]
          /\ outgoing'[Len(outgoing) + 1] = i
      BY <1>1, <1>3, AppendProperties, LenProperties DEF TypeOK, QueueTypeOK
    <3>2. \A l \in 1 .. Len(outgoing) : outgoing[l] # i
      BY <1>3 DEF Occupied
    <3> QED BY <2>2, <3>1, <3>2 DEF NoDuplicates
  <2> QED BY <2>1, <2>2 DEF NoDuplicates
<1>9. InactiveHoldsNothing' /\ QueuesWhenActive'
  BY <1>2 DEF InactiveHoldsNothing, QueuesWhenActive
<1>10. ClientLentIsStable'
  <2>1. lent # NoBuf => lent \in Bufs
    BY DEF TypeOK, QueueTypeOK
  <2> QED BY <1>2, <1>6, <2>1 DEF ClientLentIsStable, LentIsStable
<1> QED BY <1>5, <1>7, <1>8, <1>9, <1>10

-------------------------------------------------------------------------------
(* The theorems.                                                           *)

LEMMA OutputStepPreserves == OutputIInv /\ [OutputNext]_vars => OutputIInv'
<1> SUFFICES ASSUME OutputIInv, [OutputNext]_vars PROVE OutputIInv'
  OBVIOUS
<1>1. CASE Steady
  <2> USE <1>1
  <2>1. CASE OutputApiCall
    BY <2>1, OutputCallPreserves
  <2>2. CASE QbufInvalid \/ DqbufEmpty \/ PollTimesOut \/ Refused
    <3>1. PICK e \in Errnos : Fail(e)
      BY <2>2 DEF QbufInvalid, DqbufEmpty, PollTimesOut, Refused, Errnos
    <3> QED BY <3>1, OutputFailPreserves
  <2>3. CASE OutputSyscallStep
    BY <2>2, <2>3, OutputEnvironmentPreserves, OutputInterruptedPreserves, OutputQbufPreserves,
       OutputDqbufPreserves, OutputStreamonPreserves, OutputStreamoffPreserves DEF OutputSyscallStep
  <2>4. CASE OutputEnvironment
    BY <2>4, OutputEnvironmentPreserves, DriverDrainsPreserves DEF OutputEnvironment
  <2>5. CASE UNCHANGED vars
    BY <2>5 DEF vars, stream, call, app, driver, OutputIInv, TypeOK, QueueTypeOK,
       BookkeepingMatchesKernel, NoDuplicates, LentBetweenCalls, MetaOfContent,
       InactiveHoldsNothing, QueuesWhenActive, ClientLentIsStable, LentIsStable,
       DriverOwns, Occupied
  <2> QED BY <2>1, <2>3, <2>4, <2>5 DEF OutputNext
<1> QED BY <1>1 DEF OutputNext, vars, Steady

LEMMA OutputInvariance == OutputSpec => []OutputIInv
BY OutputInitIInv, OutputStepPreserves, PTL DEF OutputSpec

\* buffer_queued and active say what the kernel's queue holds and does
\* (stream.rs:20-21), for output too, after any calls, errors and timeouts.
THEOREM OutputBookkeepingCorrect == OutputSpec => []BookkeepingMatchesKernel
<1>1. OutputIInv => BookkeepingMatchesKernel
  BY DEF OutputIInv
<1> QED BY <1>1, OutputInvariance, PTL

\* The buffer lent to an application that only calls next and stop is out of the
\* device's reach (stream.rs:438-449).
THEOREM OutputLentStable == OutputSpec => []ClientLentIsStable
<1>1. OutputIInv => ClientLentIsStable
  BY DEF OutputIInv
<1> QED BY <1>1, OutputInvariance, PTL

-------------------------------------------------------------------------------
(* The application that only calls next and stop has one buffer circulate, *)
(* the one arena_index stands at.                                          *)

OutputOnlyNextStops ==
  onlyNext => /\ at \in {"POLL", "QBUF", "DQBUF", "STREAMON"} => fn = "next"
              /\ at \in {"POLL", "QBUF"} => index = arena_index

OneCirculates ==
  onlyNext => /\ incoming \subseteq {arena_index}
              /\ outgoing \in {<< >>, << arena_index >>}
              /\ lent # NoBuf => lent = arena_index /\ active

OutputCirculation == OutputOnlyNextStops /\ OneCirculates

LEMMA OutputInitCirculation == Init => OutputCirculation
BY DEF Init, QueueInit, OutputCirculation, OutputOnlyNextStops, OneCirculates

LEMMA OutputStepCirculation ==
  OutputIInv /\ OutputIInv' /\ OutputCirculation /\ [OutputNext]_vars => OutputCirculation'
<1> SUFFICES ASSUME OutputIInv, OutputIInv', OutputCirculation, [OutputNext]_vars PROVE OutputCirculation'
  OBVIOUS
<1>1. CASE UNCHANGED vars
  BY <1>1 DEF vars, stream, call, app, driver, OutputCirculation, OutputOnlyNextStops,
     OneCirculates
<1>2. CASE ~onlyNext
  BY <1>2 DEF OutputNext, vars, Steady, OutputCirculation, OutputOnlyNextStops, OneCirculates
<1>3. CASE onlyNext /\ Steady /\ (output_next \/ stop)
  BY <1>3 DEF output_next, OutputNextStarting, OutputNextRunning, stop, Begin, stream, driver, Steady,
     OutputCirculation, OutputOnlyNextStops, OneCirculates
<1>4. CASE Steady /\ (AppWrites \/ \E t \in Timeouts \cup {Infinite} : set_timeout(t))
  BY <1>4 DEF AppWrites, set_timeout, stream, queues, call, app, driver, Steady,
     OutputCirculation, OutputOnlyNextStops, OneCirculates
<1>5. CASE Steady /\ \E e : Fail(e)
  BY <1>5 DEF Fail, Return, stream, driver, Steady, OutputCirculation, OutputOnlyNextStops,
     OneCirculates
<1>6. CASE Steady /\ (Tick \/ Unplug \/ OutputPollReady)
  BY <1>6 DEF Tick, Unplug, Disappears, OutputPollReady, Proceed, stream, driver, call, app,
     Steady, OutputCirculation, OutputOnlyNextStops, OneCirculates
<1>7. CASE onlyNext /\ Steady /\ OutputQbuf
  <2>1. /\ incoming' = incoming \cup {arena_index}
        /\ UNCHANGED << arena_index, outgoing, active, lent >> /\ at' = "DQBUF" /\ fn' = "next"
    BY <1>7 DEF OutputQbuf, QbufAccepts, Takes, Proceed, OutputCirculation, OutputOnlyNextStops
  <2> QED BY <1>7, <2>1 DEF OutputCirculation, OutputOnlyNextStops, OneCirculates, Steady
<1>8. CASE onlyNext /\ Steady /\ Dqbuf
  <2>1. PICK i \in Bufs : DqbufReturns(i) /\ Return("ok", i)
    BY <1>8 DEF Dqbuf, DqbufReturns, OutputCirculation, OutputOnlyNextStops
  <2>2. /\ outgoing # << >> /\ i = Head(outgoing) /\ outgoing' = Tail(outgoing)
        /\ arena_index' = i /\ incoming' = incoming /\ active' = active
        /\ lent' = i /\ at' = "app" /\ streaming
    BY <2>1 DEF DqbufReturns, GivesBack, mark_dequeued, Return
  <2>3. outgoing = << arena_index >>
    BY <1>8, <2>2 DEF OutputCirculation, OneCirculates
  <2>4. i = arena_index /\ outgoing' = << >>
    BY <2>2, <2>3
  <2>5. active
    BY <2>2 DEF OutputIInv, BookkeepingMatchesKernel
  <2> QED BY <1>8, <2>2, <2>4, <2>5 DEF OutputCirculation, OutputOnlyNextStops, OneCirculates, Steady
<1>9. CASE Steady /\ (OutputStreamon \/ StreamoffAccepts)
  BY <1>9 DEF OutputStreamon, StreamonAccepts, TurnsOn, StreamoffAccepts, TurnsOff, Return,
     queues, Steady, OutputCirculation, OutputOnlyNextStops, OneCirculates
<1>10. CASE onlyNext /\ Steady /\ DriverDrains
  <2>1. PICK i \in incoming :
          incoming' = incoming \ {i} /\ outgoing' = Append(outgoing, i)
    BY <1>10 DEF DriverDrains, Drains
  <2>2. i = arena_index /\ i \notin Occupied(outgoing)
    BY <1>10, <2>1 DEF OutputCirculation, OneCirculates, OutputIInv, NoDuplicates
  <2>3. outgoing = << >>
    BY <1>10, <2>2 DEF OutputCirculation, OneCirculates, Occupied
  <2>4. outgoing' = << arena_index >>
    BY <2>1, <2>2, <2>3
  <2> QED BY <1>10, <2>1, <2>4 DEF DriverDrains, Drains, stream, call, app, Steady,
          OutputCirculation, OutputOnlyNextStops, OneCirculates
<1>11. CASE Steady /\ Interrupted
  BY <1>5, <1>11 DEF Interrupted, stream, app, driver, Steady, OutputCirculation,
     OutputOnlyNextStops, OneCirculates
<1>12. QbufInvalid \/ DqbufEmpty \/ PollTimesOut \/ Refused => \E e : Fail(e)
  BY DEF QbufInvalid, DqbufEmpty, PollTimesOut, Refused
<1> QED BY <1>1, <1>2, <1>3, <1>4, <1>5, <1>6, <1>7, <1>8, <1>9, <1>10, <1>11, <1>12
        DEF OutputNext, OutputApiCall, OutputSyscallStep, OutputEnvironment

LEMMA OutputCirculationInvariance == OutputSpec => []OutputCirculation
BY OutputInvariance, OutputInitCirculation, OutputStepCirculation, PTL DEF OutputSpec

-------------------------------------------------------------------------------
(* The stream is a sink of frames: every step is one of FrameSink or       *)
(* leaves it unchanged.                                                    *)

\* A buffer the driver is not done with holds the one pending frame.
LEMMA OnePending ==
  ASSUME NEW c, NEW a
  PROVE  << c[CHOOSE i \in {a} : TRUE] >> = << c[a] >>
OBVIOUS

\* An application that calls anything in any order is not promised a sink.
LEMMA OutputClosedStep ==
  ASSUME Steady, ~onlyNext
  PROVE  UNCHANGED Sink!sinkVars
BY DEF Sink!sinkVars, Steady

LEMMA OutputQuietStep ==
  ASSUME Steady, UNCHANGED stream, UNCHANGED << incoming, outgoing, content >>
  PROVE  UNCHANGED Sink!sinkVars
BY DEF Sink!sinkVars, Steady, stream

LEMMA FillStep ==
  ASSUME OutputIInv, OutputCirculation, Steady, AppWrites, onlyNext
  PROVE  \E f \in Frames : Sink!Fill(f)
<1>1. PICK f \in Frames : content' = [content EXCEPT ![lent] = f]
  BY DEF AppWrites
<1>2. /\ lent = arena_index /\ active /\ arena_index \in Bufs
      /\ content \in [Bufs -> Frame] /\ lent # NoBuf
      /\ UNCHANGED << buffer_queued, arena_index, active, incoming, outgoing >>
  BY DEF AppWrites, queues, OutputCirculation, OneCirculates, OutputIInv, TypeOK, QueueTypeOK,
         Frame
<1>3. ~buffer_queued[arena_index] /\ ~DriverOwns(arena_index)
  BY <1>2 DEF OutputIInv, ClientLentIsStable, LentIsStable, BookkeepingMatchesKernel
<1>4. incoming = {} /\ outgoing = << >>
  <2>1. outgoing # << arena_index >>
    BY <1>3 DEF DriverOwns, Occupied
  <2> QED BY <1>3, <2>1 DEF DriverOwns, OutputCirculation, OneCirculates
<1>5. content[arena_index] # NoBuf /\ content'[arena_index] = f
  BY <1>1, <1>2, NoBufAssumption DEF Frame
<1>6. Waiting(content, << >>) = << >> /\ Waiting(content', << >>) = << >>
  BY <1>1, <1>2, NoneWaiting DEF Frame
<1> QED BY <1>1, <1>2, <1>3, <1>4, <1>5, <1>6 DEF Sink!Fill, Waiting, Steady

LEMMA HandOverStep ==
  ASSUME OutputIInv, OutputIInv', OutputCirculation, Steady, OutputQbuf, onlyNext
  PROVE  Sink!HandOver
<1>1. /\ active /\ ~DriverOwns(arena_index)
      /\ incoming' = incoming \cup {arena_index}
      /\ UNCHANGED << arena_index, active, outgoing, content >>
  BY DEF OutputQbuf, QbufAccepts, Takes, OutputCirculation, OutputOnlyNextStops, OutputIInv, QueuesWhenActive
<1>2. arena_index \in Bufs /\ content \in [Bufs -> Frame]
  BY DEF OutputIInv, TypeOK, QueueTypeOK, Frame
<1>3. ~buffer_queued[arena_index] /\ buffer_queued'[arena_index]
  BY <1>1, <1>2 DEF OutputIInv, BookkeepingMatchesKernel, DriverOwns
<1>4. incoming = {} /\ incoming' = {arena_index}
  BY <1>1 DEF DriverOwns, OutputCirculation, OneCirculates
<1>5. content[arena_index] # NoBuf
  BY <1>2, NoBufAssumption DEF Frame
<1>6. << content'[CHOOSE i \in incoming' : TRUE] >> = Append(<< >>, content[arena_index])
  BY <1>1, <1>4, OnePending
<1> QED BY <1>1, <1>3, <1>4, <1>5, <1>6 DEF Sink!HandOver, Steady

LEMMA ShowStep ==
  ASSUME OutputIInv, OutputCirculation, Steady, DriverDrains, onlyNext
  PROVE  Sink!Show
<1>1. PICK i \in incoming :
        /\ streaming /\ incoming' = incoming \ {i} /\ outgoing' = Append(outgoing, i)
        /\ UNCHANGED << content, stream >>
  BY DEF DriverDrains, Drains
<1>2. /\ i = arena_index /\ i \notin Occupied(outgoing) /\ incoming = {arena_index}
      /\ incoming' = {} /\ active /\ arena_index \in Bufs
      /\ content \in [Bufs -> Frame] /\ outgoing \in Seq(Bufs)
  BY <1>1 DEF OutputCirculation, OneCirculates, OutputIInv, NoDuplicates, TypeOK, QueueTypeOK,
              BookkeepingMatchesKernel, Frame
<1>3. << content[CHOOSE j \in incoming : TRUE] >> = << content[arena_index] >>
  BY <1>2, OnePending
<1>4. Waiting(content', outgoing') = Append(Waiting(content, outgoing), content[arena_index])
  <2>1. [content EXCEPT ![i] = content[i]] = content /\ content[i] \in Frame
    BY <1>2
  <2> QED BY <1>1, <1>2, <2>1, WaitingAppend
<1> QED BY <1>1, <1>2, <1>3, <1>4 DEF Sink!Show, Waiting, Steady, stream

LEMMA GiveBackStep ==
  ASSUME OutputIInv, OutputIInv', OutputCirculation, Steady, Dqbuf, onlyNext
  PROVE  Sink!GiveBack
<1>1. PICK i \in Bufs :
        /\ streaming /\ outgoing # << >> /\ i = Head(outgoing)
        /\ outgoing' = Tail(outgoing) /\ arena_index' = i
        /\ buffer_queued' = [buffer_queued EXCEPT ![i] = FALSE]
        /\ UNCHANGED << incoming, active, content >>
  BY DEF Dqbuf, DqbufReturns, GivesBack, mark_dequeued
<1>2. /\ outgoing = << arena_index >> /\ i = arena_index /\ active
      /\ content \in [Bufs -> Frame]
  BY <1>1 DEF OutputCirculation, OneCirculates, OutputIInv, BookkeepingMatchesKernel, TypeOK,
              QueueTypeOK, Frame
<1>3. buffer_queued[arena_index] /\ ~buffer_queued'[arena_index]
  <2>1. DriverOwns(arena_index)
    BY <1>2 DEF DriverOwns, Occupied
  <2> QED BY <1>1, <1>2, <2>1 DEF OutputIInv, BookkeepingMatchesKernel, TypeOK
<1>4. /\ Waiting(content, outgoing) # << >>
      /\ Head(Waiting(content, outgoing)) = content[i]
      /\ Tail(Waiting(content, outgoing)) = Waiting(content', outgoing')
  <2>1. outgoing \in Seq(Bufs)
    BY DEF OutputIInv, TypeOK, QueueTypeOK
  <2>2. /\ Waiting(content, outgoing) # << >>
        /\ Head(Waiting(content, outgoing)) = content[Head(outgoing)]
        /\ Tail(Waiting(content, outgoing)) = Waiting(content, Tail(outgoing))
    BY <1>1, <1>2, <2>1, WaitingTail
  <2> QED BY <1>1, <2>2
<1> QED BY <1>1, <1>2, <1>3, <1>4 DEF Sink!GiveBack, Waiting, Steady

LEMMA OutputSwitchStep ==
  ASSUME OutputIInv, OutputIInv', OutputCirculation, Steady, onlyNext, OutputStreamon \/ StreamoffAccepts
  PROVE  Sink!Start \/ Sink!Stop
<1>1. CASE OutputStreamon
  <2>1. /\ ~active /\ active'
        /\ UNCHANGED << buffer_queued, arena_index, incoming, outgoing, content >>
    BY <1>1 DEF OutputStreamon, StreamonAccepts, TurnsOn, queues, OutputCirculation,
       OutputOnlyNextStops, OutputIInv, QueuesWhenActive
  <2>2. /\ arena_index \in Bufs /\ ~buffer_queued[arena_index]
        /\ content[arena_index] \in Frames \cup {Blank}
    BY <2>1 DEF OutputIInv, TypeOK, QueueTypeOK, InactiveHoldsNothing
  <2> QED BY <2>1, <2>2 DEF Sink!Start, Steady
<1>2. CASE StreamoffAccepts
  <2>1. /\ outgoing' = << >> /\ incoming' = {} /\ active' = FALSE
        /\ content' \in [Bufs -> Frame]
    BY <1>2 DEF StreamoffAccepts, TurnsOff, OutputIInv, TypeOK, QueueTypeOK, Frame
  <2>2. Waiting(content', outgoing') = << >>
    BY <2>1, NoneWaiting
  <2> QED BY <2>1, <2>2 DEF Sink!Stop, Waiting, Steady
<1> QED BY <1>1, <1>2

LEMMA InitSink == Init => Sink!Init
<1> SUFFICES ASSUME Init PROVE Sink!Init
  OBVIOUS
<1>1. content \in [Bufs -> Frame] /\ outgoing = << >>
  BY DEF Init, QueueInit, Frame
<1>2. Waiting(content, outgoing) = << >>
  BY <1>1, NoneWaiting
<1> QED BY <1>2 DEF Init, QueueInit, Sink!Init, Waiting

LEMMA StepSink ==
  OutputIInv /\ OutputIInv' /\ OutputCirculation /\ [OutputNext]_vars => [Sink!Next]_(Sink!sinkVars)
<1> SUFFICES ASSUME OutputIInv, OutputIInv', OutputCirculation, [OutputNext]_vars
             PROVE  [Sink!Next]_(Sink!sinkVars)
  OBVIOUS
<1>1. Steady
  BY DEF OutputNext, vars, Steady
<1>2. CASE ~onlyNext
  BY <1>1, <1>2, OutputClosedStep
<1>3. CASE onlyNext /\ AppWrites
  BY <1>1, <1>3, FillStep DEF Sink!Next
<1>4. CASE onlyNext /\ OutputQbuf
  BY <1>1, <1>4, HandOverStep DEF Sink!Next
<1>5. CASE onlyNext /\ DriverDrains
  BY <1>1, <1>5, ShowStep DEF Sink!Next
<1>6. CASE onlyNext /\ Dqbuf
  BY <1>1, <1>6, GiveBackStep DEF Sink!Next
<1>7. CASE onlyNext /\ (OutputStreamon \/ StreamoffAccepts)
  BY <1>1, <1>7, OutputSwitchStep DEF Sink!Next
<1>8. CASE /\ ~AppWrites /\ ~OutputQbuf /\ ~DriverDrains /\ ~Dqbuf
           /\ ~OutputStreamon /\ ~StreamoffAccepts
  <2>1. UNCHANGED stream /\ UNCHANGED << incoming, outgoing, content >>
    BY <1>8 DEF OutputNext, vars, OutputApiCall, OutputSyscallStep, OutputEnvironment, output_next, stop, start, output_queue,
       output_dequeue, set_timeout, Fail, OutputPollReady, PollTimesOut, QbufInvalid, DqbufEmpty,
       Interrupted, Refused, Tick, Unplug, Disappears, driver
  <2> QED BY <1>1, <2>1, OutputQuietStep
<1> QED BY <1>2, <1>3, <1>4, <1>5, <1>6, <1>7, <1>8

\* Every frame the application hands over reaches the device once and in order, and its
\* buffer comes back after that, through retries after EAGAIN and timeouts
\* (stream.rs:438-443): the stream implements FrameSink.
THEOREM OutputIsASink == OutputSpec => ImplementsFrameSink
BY OutputInvariance, OutputCirculationInvariance, InitSink, StepSink, PTL
   DEF OutputSpec, ImplementsFrameSink, Sink!Spec


-------------------------------------------------------------------------------
(* How many system calls a call makes.  What keeps a call going is the     *)
(* retry of an interrupted attempt, and that ends with its deadline.       *)

\* An attempt was interrupted before the deadline and is made again.
Retried ==
  /\ deadline # 0
  /\ UNCHANGED << stream, timeout, fn, at, index, deadline, app, driver >>

\* A call keeps the deadline it began with while the clock runs it down.
OneDeadline ==
  at' # "app" => deadline' = deadline \/ (deadline > 0 /\ deadline' = deadline - 1)

\* The attempts a capture call still has in front of it, retries apart: at most a
\* QBUF for each buffer from the cursor on, STREAMON, poll and DQBUF.
AttemptsLeft ==
  CASE at = "app" -> 0
    [] at \in {"DQBUF", "STREAMOFF"} -> 1
    [] at = "POLL" -> 2
    [] at = "STREAMON" \/ (at = "QBUF" /\ active) -> 3
    [] OTHER -> 3 + (NumBufs - capture_initial_queue_index)

\* next queues the buffer at the cursor while the stream is not active.
StartupAtCursor ==
  fn = "next" /\ at = "QBUF" /\ ~active => index = capture_initial_queue_index

AttemptsBounded ==
  AttemptsLeft \in 0 .. NumBufs + 3 /\ (AttemptsLeft = 0 <=> at = "app")

Spends ==
  [][ at # "app" =>
        /\ AttemptsLeft' <= AttemptsLeft /\ OneDeadline
        /\ SyscallStep => AttemptsLeft' < AttemptsLeft \/ Retried ]_vars

LEMMA InitAtCursor == Init => StartupAtCursor
BY DEF Init, StartupAtCursor

LEMMA LeftInRange == IInv => AttemptsBounded
<1> SUFFICES ASSUME IInv PROVE AttemptsBounded
  OBVIOUS
<1>1. /\ NumBufs \in Nat /\ capture_initial_queue_index \in 0 .. NumBufs
      /\ at \in {"app", "POLL", "QBUF", "DQBUF", "STREAMON", "STREAMOFF"}
  BY NumBufsAssumption DEF IInv, TypeOK, Syscalls
<1> QED BY <1>1 DEF AttemptsBounded, AttemptsLeft

\* A QBUF of the startup loop moves the cursor on.
LEMMA QbufSpends ==
  ASSUME IInv, IInv', StartupAtCursor, Qbuf
  PROVE  StartupAtCursor' /\ OneDeadline /\ AttemptsLeft' < AttemptsLeft
<1> DEFINE c == capture_initial_queue_index
           bq == [buffer_queued EXCEPT ![index] = TRUE]
<1>1. /\ NumBufs \in Nat /\ c \in 0 .. NumBufs /\ c' \in 0 .. NumBufs
      /\ index \in Bufs /\ bq \in [Bufs -> BOOLEAN] /\ bq[index]
      /\ at = "QBUF" /\ active' = active /\ c' = FirstUnqueued(bq, c)
  BY NumBufsAssumption
     DEF Qbuf, QbufAccepts, Takes, mark_queued, IInv, TypeOK
<1>2. /\ c' >= c
      /\ c' < NumBufs => ~bq[c']
  <2> HIDE DEF c, bq
  <2>1. /\ FirstUnqueued(bq, c) \in c .. NumBufs
        /\ FirstUnqueued(bq, c) < NumBufs => ~bq[FirstUnqueued(bq, c)]
    BY <1>1, FirstUnqueuedStops, Zenon
  <2> QED BY <1>1, <2>1
<1>3. CASE fn = "queue" /\ Return("ok", NoBuf)
  BY <1>1, <1>3 DEF Return, StartupAtCursor, OneDeadline, AttemptsLeft
<1>4. CASE fn = "next" /\ active /\ Proceed("POLL", 0)
  BY <1>1, <1>4 DEF Proceed, StartupAtCursor, OneDeadline, AttemptsLeft
<1>5. CASE /\ fn = "next" /\ ~active
           /\ Proceed(StartupCall(c'), StartupIndex(c'))
  <2>1. c < NumBufs /\ c < c'
    BY <1>1, <1>2, <1>5 DEF StartupAtCursor, Bufs
  <2>2. StartupAtCursor' /\ OneDeadline
    BY <1>1, <1>5 DEF Proceed, StartupAtCursor, OneDeadline, StartupCall,
                      StartupIndex
  <2>3. AttemptsLeft = 3 + (NumBufs - c)
    BY <1>1, <1>5 DEF AttemptsLeft
  <2>4. AttemptsLeft' = 3 + (NumBufs - c')
    BY <1>1, <1>5 DEF AttemptsLeft, Proceed, StartupCall
  <2> QED BY <1>1, <2>1, <2>2, <2>3, <2>4
<1> QED BY <1>3, <1>4, <1>5 DEF Qbuf

LEMMA StepSpends ==
  ASSUME IInv, IInv', StartupAtCursor, [Next]_vars
  PROVE  /\ StartupAtCursor'
         /\ at # "app" =>
              /\ AttemptsLeft' <= AttemptsLeft /\ OneDeadline
              /\ SyscallStep => AttemptsLeft' < AttemptsLeft \/ Retried
<1>1. /\ NumBufs \in Nat /\ capture_initial_queue_index \in 0 .. NumBufs
      /\ at \in Syscalls \cup {"app"}
      /\ AttemptsLeft \in Nat /\ (AttemptsLeft = 0 <=> at = "app")
  BY LeftInRange, NumBufsAssumption DEF AttemptsBounded, IInv, TypeOK
<1>2. CASE ApiCall
  <2>1. at = "app"
    BY <1>2 DEF ApiCall, next, NextStarting, NextRunning, stop, start, queue,
                dequeue, set_timeout, Begin
  <2>2. StartupAtCursor'
    BY <1>2 DEF ApiCall, next, NextStarting, NextRunning, stop, start, queue,
       dequeue, set_timeout, Begin, StartupAtCursor, StartupCall, StartupIndex,
       stream, call
  <2> QED BY <2>1, <2>2
<1>3. CASE SyscallStep
  <2>1. CASE Qbuf
    <3>1. StartupAtCursor' /\ OneDeadline /\ AttemptsLeft' < AttemptsLeft
      BY <2>1, QbufSpends
    <3>2. AttemptsLeft' \in Nat
      <4>1. AttemptsBounded'
        BY LeftInRange, PTL
      <4> QED BY <4>1, NumBufsAssumption DEF AttemptsBounded
    <3> QED BY <1>1, <3>1, <3>2
  <2>2. CASE /\ at \in Syscalls
             /\ Retried
    BY <2>2, <1>1 DEF Retried, StartupAtCursor, OneDeadline, AttemptsLeft, stream
  <2>3. CASE at \in Syscalls /\ at' = "app"
    BY <2>3, <1>1 DEF StartupAtCursor, OneDeadline, AttemptsLeft, Syscalls
  <2>4. CASE PollReady \/ Streamon
    BY <2>4, <1>1 DEF PollReady, Streamon, StreamonAccepts, Proceed, Return,
       StartupAtCursor, OneDeadline, AttemptsLeft
  <2>5. CASE Interrupted
    BY <2>5, <2>2, <2>3 DEF Interrupted, Fail, Return, Retried
  <2>6. CASE PollTimesOut \/ QbufInvalid \/ Dqbuf \/ DqbufEmpty
             \/ StreamoffAccepts \/ Refused
    BY <2>6, <2>3 DEF PollTimesOut, QbufInvalid, Dqbuf, DqbufReturns, DqbufEmpty,
       StreamoffAccepts, Refused, Fail, Return, Syscalls
  <2> QED BY <1>3, <2>1, <2>4, <2>5, <2>6 DEF SyscallStep
<1>4. CASE ~SyscallStep /\ (Environment \/ UNCHANGED vars)
  <2>1. /\ UNCHANGED << stream, fn, at, index >>
        /\ deadline' = deadline \/ (deadline > 0 /\ deadline' = deadline - 1)
    BY <1>4 DEF Environment, DriverFills, Tick, Unplug, vars, stream, call
  <2> QED BY <1>1, <1>4, <2>1 DEF StartupAtCursor, OneDeadline, AttemptsLeft, stream
<1> QED BY <1>2, <1>3, <1>4 DEF Next

\* A capture call makes a bounded number of system calls, one for each buffer that is
\* not queued yet and three more, but for those that signals interrupt: these are made
\* again until the deadline of the call, which nothing prolongs (stream.rs:129-172,
\* 295-328).
THEOREM CallsEnd == Spec => []AttemptsBounded /\ Spends
<1>1. Spec => []AttemptsBounded
  BY Invariance, LeftInRange, PTL
<1>2. IInv /\ IInv' /\ StartupAtCursor /\ [Next]_vars => StartupAtCursor'
  BY StepSpends
<1>3. Spec => []StartupAtCursor
  BY Invariance, InitAtCursor, <1>2, PTL DEF Spec
<1>4. IInv /\ IInv' /\ StartupAtCursor /\ [Next]_vars =>
        [at # "app" =>
           /\ AttemptsLeft' <= AttemptsLeft /\ OneDeadline
           /\ SyscallStep => AttemptsLeft' < AttemptsLeft \/ Retried]_vars
  BY StepSpends
<1>5. Spec => Spends
  BY Invariance, <1>3, <1>4, PTL DEF Spec, Spends
<1> QED BY <1>1, <1>5, PTL


\* An output call polls, hands its buffer over and takes one back.
OutputAttemptsLeft ==
  CASE at = "app" -> 0
    [] at = "POLL" -> 3
    [] at = "QBUF" -> 2
    [] OTHER -> 1

OutputSpends ==
  [][ at # "app" =>
        /\ OutputAttemptsLeft' <= OutputAttemptsLeft /\ OneDeadline
        /\ OutputSyscallStep =>
             OutputAttemptsLeft' < OutputAttemptsLeft \/ Retried ]_vars

LEMMA OutputStepSpends ==
  ASSUME OutputIInv, [OutputNext]_vars, at # "app"
  PROVE  /\ OutputAttemptsLeft' <= OutputAttemptsLeft /\ OneDeadline
         /\ OutputSyscallStep =>
              OutputAttemptsLeft' < OutputAttemptsLeft \/ Retried
<1> USE DEF OutputAttemptsLeft, OneDeadline
<1>1. at \in Syscalls
  BY DEF OutputIInv, TypeOK
<1>2. ~OutputApiCall
  BY DEF OutputApiCall, AppWrites, output_next, OutputNextStarting,
         OutputNextRunning, stop, start, output_queue, output_dequeue,
         set_timeout, Begin
<1>3. CASE OutputSyscallStep
  <2>1. CASE at' = "app"
    BY <1>1, <2>1 DEF Syscalls
  <2>2. CASE Retried
    BY <2>2 DEF Retried
  <2>3. CASE OutputPollReady \/ OutputQbuf \/ OutputStreamon
    BY <2>1, <2>3 DEF OutputPollReady, OutputQbuf, QbufAccepts, OutputStreamon,
                      Proceed, Return
  <2>4. CASE ~OutputPollReady /\ ~OutputQbuf /\ ~OutputStreamon
    BY <1>3, <2>1, <2>2, <2>4
       DEF OutputSyscallStep, PollTimesOut, QbufInvalid, Dqbuf, DqbufEmpty,
           StreamoffAccepts, Interrupted, Refused, Fail, Return, Retried
  <2> QED BY <2>3, <2>4
<1>4. CASE ~OutputSyscallStep
  <2>1. OutputEnvironment \/ UNCHANGED vars
    BY <1>2, <1>4 DEF OutputNext
  <2>2. /\ at' = at
        /\ deadline' = deadline \/ (deadline > 0 /\ deadline' = deadline - 1)
    BY <2>1 DEF OutputEnvironment, DriverDrains, Tick, Unplug, vars, call
  <2> QED BY <1>4, <2>2
<1> QED BY <1>3, <1>4

\* An output call makes three system calls at most, but for those that signals
\* interrupt before its deadline (stream.rs:129-172, 427-450).
THEOREM OutputCallsEnd == OutputSpec => OutputSpends
<1>1. OutputIInv /\ [OutputNext]_vars =>
        [at # "app" =>
           /\ OutputAttemptsLeft' <= OutputAttemptsLeft /\ OneDeadline
           /\ OutputSyscallStep =>
                OutputAttemptsLeft' < OutputAttemptsLeft \/ Retried]_vars
  BY OutputStepSpends
<1> QED BY OutputInvariance, <1>1, PTL DEF OutputSpec, OutputSpends

===============================================================================
