-------------------------- MODULE UserptrStreamProofs --------------------------
(***************************************************************************)
(* The safety properties of UserptrStream hold for any number of buffers,  *)
(* any frames, timeouts and errnos.                                        *)
(***************************************************************************)
EXTENDS UserptrStream, VideoQueueLemmas

-------------------------------------------------------------------------------
(* The inductive invariant.                                                *)

\* The application holds a buffer only between two calls.
LentBetweenCalls == at # "app" => lent = NoBuf

\* The only field that says anything about the kernel's queue is right.
ActiveExact == active <=> streaming

\* What an application that only calls next and stop is in the middle of.
OnlyNextStops ==
  onlyNext => /\ fn \in {"none", "next", "stop"}
              /\ at = "QBUF" => fn = "next"
              /\ at \in {"POLL", "DQBUF"} => fn = "next" /\ active

\* As long as its last call succeeded the kernel holds what next believes: all
\* buffers but the one in its hands, or, before the start, those queued so far.
Expected ==
  onlyNext /\ result \in {"none", "ok"} =>
    /\ active /\ at \in {"app", "QBUF"} => ~DriverOwns(arena_index)
    /\ active /\ at = "QBUF" => index = arena_index
    /\ ~active /\ at = "app" => incoming = {} /\ outgoing = << >>
    /\ ~active /\ at = "QBUF" => incoming = 0 .. index - 1 /\ outgoing = << >>

IInv ==
  /\ TypeOK
  /\ NoDuplicates
  /\ LentBetweenCalls
  /\ LentIsStable
  /\ ActiveExact
  /\ OnlyNextStops
  /\ Expected

Steady == UNCHANGED onlyNext

LEMMA InitIInv == Init => IInv
<1> SUFFICES ASSUME Init PROVE IInv
  OBVIOUS
<1> USE NumBufsAssumption DEF Init, QueueInit, Bufs, NoBuf, Infinite
<1>1. TypeOK
  <2>1. QueueTypeOK
    BY EmptySeq DEF QueueTypeOK
  <2>2. 0 \in Bufs /\ buf_meta \in [Bufs -> Frames \cup {Blank}]
    OBVIOUS
  <2>3. at \in Syscalls \cup {"app"} /\ onlyNext \in BOOLEAN
    OBVIOUS
  <2>4. /\ lent \in Bufs \cup {NoBuf} /\ timeout \in Timeouts \cup {Infinite}
        /\ left \in Nat \cup {Infinite}
    OBVIOUS
  <2> QED BY <2>1, <2>2, <2>3, <2>4 DEF TypeOK
<1>2. Occupied(outgoing) = {}
  BY DEF Occupied
<1>3. NoDuplicates /\ LentBetweenCalls /\ LentIsStable
  BY <1>2 DEF NoDuplicates, LentBetweenCalls, LentIsStable
<1>4. ActiveExact /\ OnlyNextStops /\ Expected
  BY DEF ActiveExact, OnlyNextStops, Expected
<1> QED BY <1>1, <1>3, <1>4 DEF IInv

-------------------------------------------------------------------------------
(* Steps that leave the stream's fields and the kernel's queue alone.      *)

\* A public call begins: it takes back the buffer the application held.
LEMMA BeginPreserves ==
  ASSUME IInv, Steady, NEW f \in {"next", "queue", "dequeue", "start", "stop"},
         NEW s \in {"POLL", "QBUF", "STREAMON", "STREAMOFF"}, NEW i \in Bufs,
         Begin(f, s, i), UNCHANGED << stream, driver >>,
         onlyNext => \/ f = "stop" /\ s = "STREAMOFF"
                     \/ f = "next" /\ s = "QBUF" /\ i = IF active THEN arena_index ELSE 0
  PROVE  IInv'
<1> USE DEF IInv, Steady, Begin, Attempt, stream, driver
<1>1. TypeOK'
  <2>1. left' \in Nat \cup {Infinite} /\ at' \in Syscalls \cup {"app"}
    BY TimeoutsAssumption DEF TypeOK, Syscalls
  <2> QED BY <2>1 DEF TypeOK, QueueTypeOK
<1>2. NoDuplicates' /\ LentBetweenCalls' /\ LentIsStable'
  BY DEF NoDuplicates, Occupied, LentBetweenCalls, LentIsStable, NoBuf
<1>3. ActiveExact' /\ OnlyNextStops'
  BY DEF ActiveExact, OnlyNextStops
<1>4. Expected'
  BY DEF Expected, DriverOwns, Occupied
<1> QED BY <1>1, <1>2, <1>3, <1>4

\* A public call returns without success.
LEMMA ReturnPreserves ==
  ASSUME IInv, Steady, NEW r \in {"ok", "panic"} \cup Errnos, Return(r, NoBuf),
         UNCHANGED << stream, driver >>,
         onlyNext => r \notin {"none", "ok"}
  PROVE  IInv'
<1> USE DEF IInv, Steady, Return, stream, driver
<1>1. TypeOK'
  BY NumBufsAssumption DEF TypeOK, QueueTypeOK, NoBuf, Infinite, Bufs
<1>2. NoDuplicates' /\ LentBetweenCalls' /\ LentIsStable'
  BY DEF NoDuplicates, Occupied, LentBetweenCalls, LentIsStable, NoBuf
<1>3. ActiveExact' /\ OnlyNextStops' /\ Expected'
  BY DEF ActiveExact, OnlyNextStops, Expected
<1> QED BY <1>1, <1>2, <1>3

LEMMA FailPreserves ==
  ASSUME IInv, Steady, NEW e \in Errnos, Fail(e)
  PROVE  IInv'
<1>1. e \notin {"none", "ok"}
  BY FaultsAssumption DEF Errnos
<1> QED BY <1>1, ReturnPreserves DEF Fail

\* The clock advances, the device goes away, a timeout is set, poll wakes: the
\* queues are untouched.
LEMMA EnvironmentPreserves ==
  ASSUME IInv, Steady,
         \/ Tick \/ Unplug \/ PollReady
         \/ \E t \in Timeouts \cup {Infinite} : set_timeout(t)
  PROVE  IInv'
<1> USE DEF IInv, Steady
<1>1. /\ UNCHANGED << stream, fn, result, incoming, outgoing, streaming, content >>
      /\ plugged' \in {plugged, FALSE}
      /\ lent' \in {lent, NoBuf}
      /\ at' # "app" => lent' = lent
  BY DEF Tick, Unplug, PollReady, Proceed, Attempt, set_timeout, call, app, driver,
         Disappears, LentBetweenCalls
<1>2. \/ at' = at /\ index' = index
      \/ at = "POLL" /\ at' = "DQBUF" /\ index' = 0
  BY DEF Tick, Unplug, PollReady, Proceed, Attempt, set_timeout, call, app
<1>3. /\ timeout' \in Timeouts \cup {Infinite}
      /\ left' \in Nat \cup {Infinite}
  <2>1. CASE Tick
    BY <2>1 DEF Tick, TypeOK, Infinite
  <2>2. CASE ~Tick
    BY <2>2 DEF Unplug, PollReady, Proceed, Attempt, set_timeout, call, TypeOK
  <2> QED BY <2>1, <2>2
<1>4. TypeOK'
  <2>1. QueueTypeOK'
    BY <1>1 DEF TypeOK, QueueTypeOK
  <2>2. at' \in Syscalls \cup {"app"} /\ index' \in Bufs
    BY <1>2, NumBufsAssumption DEF TypeOK, Syscalls, Bufs
  <2> QED BY <1>1, <1>3, <2>1, <2>2 DEF TypeOK, stream
<1>5. NoDuplicates' /\ LentBetweenCalls' /\ LentIsStable'
  <2>1. NoDuplicates' /\ LentBetweenCalls'
    BY <1>1, <1>2 DEF NoDuplicates, Occupied, LentBetweenCalls
  <2> QED BY <1>1, <2>1 DEF LentIsStable, DriverOwns, Occupied, stream
<1>6. ActiveExact' /\ OnlyNextStops'
  BY <1>1, <1>2 DEF ActiveExact, OnlyNextStops, stream
<1>7. Expected'
  BY <1>1, <1>2 DEF Expected, DriverOwns, Occupied, stream
<1> QED BY <1>4, <1>5, <1>6, <1>7

-------------------------------------------------------------------------------
(* The public calls.                                                       *)

LEMMA CallPreserves == IInv /\ ApiCall /\ Steady => IInv'
<1> SUFFICES ASSUME IInv, ApiCall, Steady PROVE IInv'
  OBVIOUS
<1>1. 0 \in Bufs /\ arena_index \in Bufs
  BY NumBufsAssumption DEF IInv, TypeOK, Bufs
<1>2. CASE next
  <2>1. CASE ~active
    BY <1>1, <1>2, <2>1, BeginPreserves DEF next
  <2>2. CASE active
    BY <1>1, <1>2, <2>2, BeginPreserves DEF next
  <2> QED BY <2>1, <2>2
<1>3. CASE stop
  BY <1>1, <1>3, BeginPreserves DEF stop
<1>4. CASE ~onlyNext /\ (dequeue \/ start)
  BY <1>1, <1>4, BeginPreserves DEF dequeue, start
<1>5. ASSUME ~onlyNext, NEW i \in 0 .. NumBufs, queue(i) PROVE IInv'
  <2>1. CASE i \in Bufs /\ Begin("queue", "QBUF", i)
    BY <1>5, <2>1, BeginPreserves DEF queue
  <2>2. CASE Return("panic", NoBuf)
    BY <1>5, <2>2, ReturnPreserves DEF queue
  <2> QED BY <1>5, <2>1, <2>2 DEF queue
<1> QED BY <1>2, <1>3, <1>4, <1>5, EnvironmentPreserves DEF ApiCall

-------------------------------------------------------------------------------
(* The system calls that move buffers.                                     *)

LEMMA QbufPreserves == IInv /\ Qbuf /\ Steady => IInv'
<1> SUFFICES ASSUME IInv, Qbuf, Steady PROVE IInv'
  OBVIOUS
<1> USE NumBufsAssumption DEF IInv, Steady
<1>1. /\ at = "QBUF" /\ index \in Bufs /\ ~DriverOwns(index)
      /\ incoming' = incoming \cup {index}
      /\ UNCHANGED << arena_index, buf_meta, active, outgoing, streaming, plugged,
                      content >>
  BY DEF Qbuf, Takes, stream
<1>2. \/ fn = "queue" /\ Return("ok", NoBuf)
      \/ fn = "next" /\ active /\ Proceed("POLL", 0)
      \/ fn = "next" /\ ~active /\ index + 1 < NumBufs /\ Proceed("QBUF", index + 1)
      \/ fn = "next" /\ ~active /\ index + 1 = NumBufs /\ Proceed("STREAMON", 0)
  BY DEF Qbuf, Startup
<1>3. lent = NoBuf /\ lent' = NoBuf
  BY <1>1, <1>2 DEF LentBetweenCalls, Return, Proceed
<1>4. TypeOK'
  <2>1. /\ fn' \in {"none", "next"} /\ at' \in Syscalls \cup {"app"}
        /\ result' \in {"none", "ok", "panic"} \cup Errnos
        /\ timeout' = timeout
    BY <1>2 DEF TypeOK, Return, Proceed, Attempt, Syscalls
  <2>2. index' \in Bufs
    BY <1>1, <1>2 DEF Return, Proceed, Attempt, Bufs
  <2>3. left' \in Nat \cup {Infinite}
    BY <1>2, TimeoutsAssumption DEF Return, Proceed, Attempt, TypeOK
  <2> QED BY <1>1, <1>3, <2>1, <2>2, <2>3 DEF TypeOK, QueueTypeOK
<1>5. NoDuplicates'
  BY <1>1 DEF NoDuplicates, DriverOwns, Occupied
<1>6. LentBetweenCalls' /\ LentIsStable' /\ ActiveExact'
  BY <1>1, <1>3 DEF LentBetweenCalls, LentIsStable, ActiveExact
<1>7. OnlyNextStops'
  BY <1>1, <1>2 DEF OnlyNextStops, Return, Proceed, Attempt
<1>8. Expected'
  <2>1. CASE fn = "next" /\ ~active /\ index + 1 < NumBufs /\ Proceed("QBUF", index + 1)
    <3>1. at' = "QBUF" /\ index' = index + 1 /\ result' = result /\ active' = active
      BY <1>1, <2>1 DEF Proceed, Attempt
    <3>2. incoming = 0 .. index - 1 => incoming' = 0 .. index' - 1
      BY <1>1, <3>1 DEF Bufs
    <3> QED BY <1>1, <2>1, <3>1, <3>2 DEF Expected
  <2>2. CASE at' \notin {"app", "QBUF"} \/ ~onlyNext
    BY <2>2 DEF Expected
  <2> QED BY <1>1, <1>2, <2>1, <2>2 DEF OnlyNextStops, Proceed, Attempt
<1> QED BY <1>4, <1>5, <1>6, <1>7, <1>8

LEMMA DqbufPreserves == IInv /\ Dqbuf /\ Steady => IInv'
<1> SUFFICES ASSUME IInv, Dqbuf, Steady PROVE IInv'
  OBVIOUS
<1> USE NumBufsAssumption DEF IInv, Steady
<1>1. PICK i \in Bufs :
         /\ at = "DQBUF" /\ GivesBack(i)
         /\ arena_index' = i
         /\ buf_meta' = [buf_meta EXCEPT ![i] = content[i]]
         /\ \/ fn = "dequeue" /\ Return("ok", NoBuf)
            \/ fn = "next" /\ Return("ok", i)
         /\ UNCHANGED active
  BY DEF Dqbuf
<1>2. /\ streaming /\ outgoing # << >> /\ i = Head(outgoing)
      /\ outgoing' = Tail(outgoing)
      /\ UNCHANGED << incoming, streaming, plugged, content >>
  BY <1>1 DEF GivesBack
<1>3. /\ Occupied(Tail(outgoing)) = Occupied(outgoing) \ {i}
      /\ i \in Occupied(outgoing)
      /\ \A j, k \in 1 .. Len(Tail(outgoing)) :
           Tail(outgoing)[j] = Tail(outgoing)[k] => j = k
  BY <1>2, OccupiedTail DEF TypeOK, QueueTypeOK, NoDuplicates
<1>4. Occupied(outgoing)' = Occupied(outgoing) \ {i}
  <2>1. Occupied(outgoing)' = Occupied(Tail(outgoing))
    BY <1>2 DEF Occupied
  <2> QED BY <1>3, <2>1
<1>5. /\ fn' = "none" /\ at' = "app" /\ index' = 0 /\ left' = Infinite
      /\ result' = "ok" /\ timeout' = timeout /\ lent' \in {NoBuf, i}
  BY <1>1 DEF Return
<1>6. ~DriverOwns(i)'
  BY <1>2, <1>3, <1>4 DEF NoDuplicates, DriverOwns
<1>7. TypeOK'
  <2>1. outgoing' \in Seq(Bufs)
    BY <1>2, HeadTailProperties DEF TypeOK, QueueTypeOK
  <2>2. 0 \in Bufs /\ buf_meta' \in [Bufs -> Frames \cup {Blank}]
    BY <1>1 DEF TypeOK, QueueTypeOK, Bufs
  <2> QED BY <1>1, <1>2, <1>5, <2>1, <2>2 DEF TypeOK, QueueTypeOK
<1>8. NoDuplicates'
  BY <1>2, <1>3, <1>4 DEF NoDuplicates
<1>9. LentBetweenCalls' /\ LentIsStable'
  <2>1. buf_meta'[i] = content'[i]
    BY <1>1, <1>2 DEF TypeOK
  <2> QED BY <1>5, <1>6, <2>1 DEF LentBetweenCalls, LentIsStable, DriverOwns, Occupied
<1>10. ActiveExact' /\ OnlyNextStops'
  BY <1>1, <1>2, <1>5 DEF ActiveExact, OnlyNextStops
<1>11. Expected'
  <2>1. active'
    BY <1>1, <1>2 DEF ActiveExact
  <2> QED BY <1>1, <1>5, <1>6, <2>1 DEF Expected, DriverOwns, Occupied
<1> QED BY <1>7, <1>8, <1>9, <1>10, <1>11

LEMMA StreamonPreserves == IInv /\ Streamon /\ Steady => IInv'
<1> SUFFICES ASSUME IInv, Streamon, Steady PROVE IInv'
  OBVIOUS
<1> USE NumBufsAssumption DEF IInv, Steady
<1>1. /\ at = "STREAMON" /\ streaming' = TRUE /\ active' = TRUE
      /\ UNCHANGED << arena_index, buf_meta, incoming, outgoing, plugged, content >>
  BY DEF Streamon, TurnsOn
<1>2. \/ fn = "start" /\ Return("ok", NoBuf)
      \/ fn = "next" /\ Proceed("POLL", 0)
  BY DEF Streamon
<1>3. lent = NoBuf /\ lent' = NoBuf /\ timeout' = timeout
  BY <1>1, <1>2 DEF LentBetweenCalls, Return, Proceed, Attempt
<1>4. TypeOK'
  <2>1. /\ fn' \in {"none", "next"} /\ at' \in Syscalls \cup {"app"}
        /\ result' \in {"none", "ok", "panic"} \cup Errnos
    BY <1>2 DEF TypeOK, Return, Proceed, Attempt, Syscalls
  <2>2. index' \in Bufs /\ left' \in Nat \cup {Infinite}
    BY <1>2, TimeoutsAssumption DEF Return, Proceed, Attempt, TypeOK, Bufs
  <2> QED BY <1>1, <1>3, <2>1, <2>2 DEF TypeOK, QueueTypeOK
<1>5. NoDuplicates' /\ LentBetweenCalls' /\ LentIsStable' /\ ActiveExact'
  BY <1>1, <1>3 DEF NoDuplicates, Occupied, LentBetweenCalls, LentIsStable, ActiveExact
<1>6. OnlyNextStops' /\ Expected'
  BY <1>1, <1>2 DEF OnlyNextStops, Expected, Return, Proceed, Attempt
<1> QED BY <1>4, <1>5, <1>6

LEMMA StreamoffPreserves == IInv /\ Streamoff /\ Steady => IInv'
<1> SUFFICES ASSUME IInv, Streamoff, Steady PROVE IInv'
  OBVIOUS
<1> USE NumBufsAssumption DEF IInv, Steady, Streamoff, TurnsOff, Return
<1>1. Occupied(outgoing)' = {}
  BY DEF Occupied
<1>2. TypeOK'
  <2>1. outgoing' \in Seq(Bufs) /\ index' \in Bufs
    BY EmptySeq DEF Bufs
  <2> QED BY <2>1 DEF TypeOK, QueueTypeOK
<1>3. NoDuplicates' /\ LentBetweenCalls' /\ LentIsStable'
  BY <1>1 DEF NoDuplicates, LentBetweenCalls, LentIsStable
<1>4. ActiveExact' /\ OnlyNextStops' /\ Expected'
  BY DEF ActiveExact, OnlyNextStops, Expected
<1> QED BY <1>2, <1>3, <1>4

LEMMA DriverFillsPreserves == IInv /\ DriverFills /\ Steady => IInv'
<1> SUFFICES ASSUME IInv, DriverFills, Steady PROVE IInv'
  OBVIOUS
<1> USE DEF IInv, Steady
<1>1. PICK i \in incoming, f \in Frames :
         /\ incoming' = incoming \ {i}
         /\ outgoing' = Append(outgoing, i)
         /\ content' = [content EXCEPT ![i] = f]
  BY DEF DriverFills, Fills
<1>2. /\ streaming
      /\ UNCHANGED << arena_index, buf_meta, active, timeout, fn, at, index, left,
                      result, lent, streaming, plugged >>
  BY DEF DriverFills, Fills, stream, call, app
<1>3. i \in Bufs /\ i \notin Occupied(outgoing)
  BY DEF TypeOK, QueueTypeOK, NoDuplicates
<1>4. Occupied(outgoing)' = Occupied(outgoing) \cup {i}
  BY <1>1, <1>3, OccupiedAppend DEF TypeOK, QueueTypeOK, Occupied
<1>5. TypeOK'
  BY <1>1, <1>2, <1>3, AppendProperties DEF TypeOK, QueueTypeOK
<1>6. \A j \in Bufs : DriverOwns(j)' <=> DriverOwns(j)
  BY <1>1, <1>4 DEF DriverOwns
<1>7. NoDuplicates'
  <2>1. \A j \in incoming' : j \notin Occupied(outgoing)'
    BY <1>1, <1>4 DEF NoDuplicates
  <2>2. ASSUME NEW j \in 1 .. Len(outgoing'), NEW k \in 1 .. Len(outgoing'),
               outgoing'[j] = outgoing'[k]
        PROVE  j = k
    <3>1. /\ Len(outgoing) \in Nat /\ Len(outgoing') = Len(outgoing) + 1
          /\ \A l \in 1 .. Len(outgoing) : outgoing'[l] = outgoing[l]
          /\ outgoing'[Len(outgoing) + 1] = i
      BY <1>1, <1>3, AppendProperties, LenProperties DEF TypeOK, QueueTypeOK
    <3>2. \A l \in 1 .. Len(outgoing) : outgoing[l] # i
      BY <1>3 DEF Occupied
    <3> QED BY <2>2, <3>1, <3>2 DEF NoDuplicates
  <2> QED BY <2>1, <2>2 DEF NoDuplicates
<1>8. LentBetweenCalls' /\ LentIsStable'
  <2>1. lent # NoBuf => lent \in Bufs
    BY DEF TypeOK
  <2>2. lent # NoBuf => lent # i /\ content'[lent] = content[lent]
    BY <1>1, <1>3, <2>1 DEF LentIsStable, DriverOwns, TypeOK, QueueTypeOK
  <2> QED BY <1>2, <1>6, <2>1, <2>2 DEF LentBetweenCalls, LentIsStable
<1>9. ActiveExact' /\ OnlyNextStops' /\ Expected'
  <2>1. active
    BY <1>2 DEF ActiveExact
  <2>2. ~DriverOwns(arena_index)' <=> ~DriverOwns(arena_index)
    <3>1. arena_index \in Bufs /\ arena_index' = arena_index
      BY <1>2 DEF TypeOK
    <3> QED BY <1>6, <3>1 DEF DriverOwns, Occupied
  <2> QED BY <1>2, <2>1, <2>2 DEF ActiveExact, OnlyNextStops, Expected
<1> QED BY <1>5, <1>7, <1>8, <1>9

-------------------------------------------------------------------------------
(* The theorems.                                                           *)

LEMMA StepPreserves == IInv /\ [Next]_vars => IInv'
<1> SUFFICES ASSUME IInv, [Next]_vars PROVE IInv'
  OBVIOUS
<1>1. CASE Steady
  <2> USE <1>1
  <2>1. CASE ApiCall
    BY <2>1, CallPreserves
  <2>2. CASE QbufInvalid \/ DqbufEmpty \/ PollTimesOut \/ Interrupted \/ Refused
    <3>1. PICK e \in Errnos : Fail(e)
      BY <2>2 DEF QbufInvalid, DqbufEmpty, PollTimesOut, Interrupted, Refused, Errnos
    <3> QED BY <3>1, FailPreserves
  <2>3. CASE SyscallStep
    BY <2>2, <2>3, EnvironmentPreserves, QbufPreserves, DqbufPreserves,
       StreamonPreserves, StreamoffPreserves DEF SyscallStep
  <2>4. CASE Environment
    BY <2>4, EnvironmentPreserves, DriverFillsPreserves DEF Environment
  <2>5. CASE UNCHANGED vars
    BY <2>5 DEF vars, stream, call, app, driver, IInv, TypeOK, QueueTypeOK,
       NoDuplicates, LentBetweenCalls, LentIsStable, ActiveExact, OnlyNextStops,
       Expected, DriverOwns, Occupied
  <2> QED BY <2>1, <2>3, <2>4, <2>5 DEF Next
<1> QED BY <1>1 DEF Next, vars, Steady

LEMMA Invariance == Spec => []IInv
BY InitIInv, StepPreserves, PTL DEF Spec

\* Every reachable state is well-typed: the startup loop of next ends at the last
\* buffer of the arena (userptr/stream.rs:195-201).
THEOREM UserptrTypeCorrect == Spec => []TypeOK
<1>1. IInv => TypeOK
  BY DEF IInv
<1> QED BY <1>1, Invariance, PTL

\* The buffer next lends is out of the driver's reach and its metadata is that of
\* its bytes, whatever calls were made or failed (userptr/stream.rs:181-191).
THEOREM UserptrLentStable == Spec => []LentIsStable
<1>1. IInv => LentIsStable
  BY DEF IInv
<1> QED BY <1>1, Invariance, PTL

\* An application that only calls next and stop is refused a buffer, or told that the
\* stream is off, only if the call before failed (userptr/stream.rs:195-204).
THEOREM RefusedOnlyAfterFailure == Spec => EinvalOnlyAfterFailure
<1> DEFINE Explained ==
      onlyNext /\ at # "app" /\ at' = "app" /\ result' = "EINVAL"
        => result \notin {"none", "ok"}
<1>1. IInv /\ [Next]_vars => Explained
  <2> SUFFICES ASSUME IInv, [Next]_vars, onlyNext, at # "app", at' = "app",
                      result' = "EINVAL", result \in {"none", "ok"}
               PROVE  FALSE
    OBVIOUS
  <2> USE DEF IInv
  <2>1. SyscallStep
    BY DEF Next, vars, call, app, ApiCall, next, stop, set_timeout, dequeue, start, queue,
           Begin, Environment, DriverFills, Tick, Unplug
  <2>2. QbufInvalid \/ DqbufEmpty
    BY <2>1, FaultsAssumption
       DEF SyscallStep, PollReady, PollTimesOut, Qbuf, Startup, Dqbuf, Streamon,
           Streamoff, Interrupted, Refused, Return, Fail, Proceed, Attempt
  <2>3. ~QbufInvalid
    <3> SUFFICES ASSUME QbufInvalid PROVE FALSE
      OBVIOUS
    <3>1. at = "QBUF" /\ index \in Bufs /\ DriverOwns(index)
      BY DEF QbufInvalid, Refuses, TypeOK
    <3>2. CASE active
      BY <3>1, <3>2 DEF Expected
    <3>3. CASE ~active
      <4>1. incoming = 0 .. index - 1 /\ outgoing = << >>
        BY <3>1, <3>3 DEF Expected
      <4> QED BY <3>1, <4>1 DEF DriverOwns, Occupied, Bufs
    <3> QED BY <3>2, <3>3
  <2>4. ~DqbufEmpty
    BY DEF DqbufEmpty, IsOff, HasNone, Fail, Return, OnlyNextStops, ActiveExact
  <2> QED BY <2>2, <2>3, <2>4
<1> QED BY <1>1, Invariance, PTL DEF Spec, EinvalOnlyAfterFailure

-------------------------------------------------------------------------------
(* The stream is a source of frames: every step is one of FrameSource or   *)
(* leaves it unchanged.                                                    *)

\* A call begins, or goes on, or fails, while the driver does nothing.
LEMMA QuietStep ==
  ASSUME IInv, IInv', Steady, UNCHANGED << outgoing, streaming, content >>,
         lent' \in {lent, NoBuf}
  PROVE  [Source!Next]_(Source!sourceVars)
<1>1. View' = View \/ View' = << >>
  BY DEF Steady, View, None, IInv, LentIsStable
<1>2. Source!Call \/ UNCHANGED Source!sourceVars
  BY <1>1 DEF Source!Call, Source!sourceVars, None, Steady
<1> QED BY <1>2 DEF Source!Next

\* An application that calls anything in any order is not promised a source.
LEMMA ClosedStep ==
  ASSUME Steady, ~onlyNext
  PROVE  UNCHANGED Source!sourceVars
BY DEF Source!sourceVars, Steady, View

LEMMA DeliverStep ==
  ASSUME IInv, IInv', Steady, Dqbuf, onlyNext
  PROVE  Source!Deliver
<1>1. PICK i \in Bufs :
         /\ at = "DQBUF" /\ streaming /\ outgoing # << >> /\ i = Head(outgoing)
         /\ outgoing' = Tail(outgoing) /\ UNCHANGED << streaming, content >>
         /\ lent' = i
  BY DEF Dqbuf, GivesBack, Return, IInv, OnlyNextStops
<1>2. /\ Waiting(content, outgoing) # << >>
      /\ Head(Waiting(content, outgoing)) = content[i]
      /\ Tail(Waiting(content, outgoing)) = Waiting(content', outgoing')
  BY <1>1, WaitingTail DEF IInv, TypeOK, QueueTypeOK, Frame
<1>3. View = << >> /\ View' = content[i]
  <2>1. lent = NoBuf /\ i # NoBuf
    BY <1>1 DEF IInv, LentBetweenCalls, NoBuf, Bufs
  <2>2. LentIsStable /\ LentIsStable'
    BY DEF IInv
  <2> QED BY <1>1, <2>1, <2>2 DEF Steady, View, LentIsStable, None
<1> QED BY <1>1, <1>2, <1>3 DEF Source!Deliver, Waiting, None, Steady

LEMMA ProduceStep ==
  ASSUME IInv, IInv', Steady, DriverFills, onlyNext
  PROVE  \E f \in Frames : Source!Produce(f)
<1>1. PICK i \in incoming, f \in Frames :
         /\ streaming /\ incoming' = incoming \ {i}
         /\ outgoing' = Append(outgoing, i)
         /\ content' = [content EXCEPT ![i] = f]
  BY DEF DriverFills, Fills
<1>2. UNCHANGED << lent, streaming >>
  BY DEF DriverFills, Fills, app
<1>3. /\ i \in Bufs /\ i \notin Occupied(outgoing) /\ outgoing \in Seq(Bufs)
      /\ content \in [Bufs -> Frame] /\ f \in Frame
      /\ \A j, k \in 1 .. Len(outgoing) : outgoing[j] = outgoing[k] => j = k
  BY DEF IInv, TypeOK, QueueTypeOK, NoDuplicates, Frame
<1>4. Waiting(content', outgoing') = Append(Waiting(content, outgoing), f)
  BY <1>1, <1>3, WaitingAppend
<1>5. Len(Waiting(content, outgoing)) < NumBufs
  BY <1>3, RoomForOneMore, WaitingIsSeq
<1>6. View' = View
  <2>1. lent # NoBuf => lent \in Bufs /\ lent # i
    BY DEF IInv, TypeOK, LentIsStable, DriverOwns
  <2>2. lent # NoBuf => content'[lent] = content[lent]
    BY <1>1, <1>3, <2>1
  <2>3. LentIsStable /\ LentIsStable'
    BY DEF IInv
  <2> QED BY <1>2, <2>2, <2>3 DEF View, LentIsStable, Steady
<1>7. Source!Produce(f)
  BY <1>1, <1>2, <1>4, <1>5, <1>6 DEF Source!Produce, Waiting, Steady
<1> QED BY <1>7

LEMMA SwitchStep ==
  ASSUME IInv, IInv', Steady, onlyNext, Streamon \/ Streamoff
  PROVE  Source!Start \/ Source!Stop
<1>1. View = << >> /\ View' = << >>
  BY DEF IInv, LentBetweenCalls, Streamon, Streamoff, Return, Proceed, View, None
<1>2. CASE Streamon
  BY <1>1, <1>2 DEF Streamon, TurnsOn, Source!Start, Steady
<1>3. CASE Streamoff
  <2>1. /\ outgoing' = << >> /\ streaming' = FALSE
        /\ content' \in [Bufs -> Frame]
    BY <1>3 DEF Streamoff, TurnsOff, IInv, TypeOK, QueueTypeOK, Frame
  <2>2. Waiting(content', outgoing') = << >>
    BY <2>1, NoneWaiting
  <2> QED BY <1>1, <2>1, <2>2 DEF Source!Stop, Waiting, None, Steady
<1> QED BY <1>2, <1>3

LEMMA InitSource == Init => Source!Init
<1> SUFFICES ASSUME Init PROVE Source!Init
  OBVIOUS
<1>1. content \in [Bufs -> Frame] /\ outgoing = << >>
  BY DEF Init, QueueInit, Frame
<1>2. Waiting(content, outgoing) = << >>
  BY <1>1, NoneWaiting
<1> QED BY <1>2 DEF Init, QueueInit, Source!Init, Waiting, View, None

LEMMA StepSource ==
  IInv /\ IInv' /\ [Next]_vars => [Source!Next]_(Source!sourceVars)
<1> SUFFICES ASSUME IInv, IInv', [Next]_vars
             PROVE  [Source!Next]_(Source!sourceVars)
  OBVIOUS
<1>1. Steady
  BY DEF Next, vars, Steady
<1>2. CASE ~onlyNext
  BY <1>1, <1>2, ClosedStep
<1>3. CASE onlyNext /\ Dqbuf
  BY <1>1, <1>3, DeliverStep DEF Source!Next
<1>4. CASE onlyNext /\ DriverFills
  BY <1>1, <1>4, ProduceStep DEF Source!Next
<1>5. CASE onlyNext /\ (Streamon \/ Streamoff)
  BY <1>1, <1>5, SwitchStep DEF Source!Next
<1>6. CASE ~Dqbuf /\ ~DriverFills /\ ~Streamon /\ ~Streamoff
  <2>1. UNCHANGED << outgoing, streaming, content >>
    BY <1>6 DEF Next, vars, ApiCall, SyscallStep, Environment, next, stop, start,
       queue, dequeue, set_timeout, Fail, PollReady, PollTimesOut, Qbuf, Takes,
       QbufInvalid, DqbufEmpty, Interrupted, Refused, Tick, Unplug, Disappears, driver
  <2>2. lent' \in {lent, NoBuf}
    BY <1>6 DEF Next, vars, ApiCall, SyscallStep, Environment, next, stop, start,
       queue, dequeue, set_timeout, Begin, Fail, Return, Proceed, PollReady,
       PollTimesOut, Qbuf, Startup, QbufInvalid, DqbufEmpty, Interrupted, Refused,
       Tick, Unplug, app
  <2> QED BY <1>1, <2>1, <2>2, QuietStep
<1> QED BY <1>2, <1>3, <1>4, <1>5, <1>6

\* The frames arrive in the order the device completed them, each at most once and
\* none skipped, although every error ends the call (userptr/stream.rs:193-214): the
\* stream implements FrameSource.
THEOREM UserptrIsASource == Spec => ImplementsFrameSource
BY Invariance, InitSource, StepSource, PTL
   DEF Spec, ImplementsFrameSource, Source!Spec


-------------------------------------------------------------------------------
(* How many system calls a call makes: nothing is tried twice.             *)

\* The system calls a call still has in front of it: at most a QBUF for each
\* buffer from the loop's index on, STREAMON, poll and DQBUF.
AttemptsLeft ==
  CASE at = "app" -> 0
    [] at \in {"DQBUF", "STREAMOFF"} -> 1
    [] at = "POLL" -> 2
    [] at = "STREAMON" \/ (at = "QBUF" /\ active) -> 3
    [] OTHER -> 3 + (NumBufs - index)

AttemptsBounded ==
  AttemptsLeft \in 0 .. NumBufs + 3 /\ (AttemptsLeft = 0 <=> at = "app")

Spends ==
  [][ at # "app" => /\ AttemptsLeft' <= AttemptsLeft
                    /\ SyscallStep => AttemptsLeft' < AttemptsLeft ]_vars

LEMMA LeftInRange == IInv => AttemptsBounded
<1> SUFFICES ASSUME IInv PROVE AttemptsBounded
  OBVIOUS
<1>1. /\ NumBufs \in Nat /\ index \in 0 .. NumBufs - 1
      /\ at \in {"app", "POLL", "QBUF", "DQBUF", "STREAMON", "STREAMOFF"}
  BY NumBufsAssumption DEF IInv, TypeOK, Syscalls, Bufs
<1> QED BY <1>1 DEF AttemptsBounded, AttemptsLeft

LEMMA StepSpends ==
  ASSUME IInv, [Next]_vars, at # "app"
  PROVE  /\ AttemptsLeft' <= AttemptsLeft
         /\ SyscallStep => AttemptsLeft' < AttemptsLeft
<1>1. /\ NumBufs \in Nat /\ index \in 0 .. NumBufs - 1 /\ at \in Syscalls
      /\ AttemptsLeft \in Nat /\ AttemptsLeft # 0
  BY LeftInRange, NumBufsAssumption DEF AttemptsBounded, IInv, TypeOK, Bufs
<1>2. ~ApiCall
  BY DEF ApiCall, next, stop, start, queue, dequeue, set_timeout, Begin
<1>3. CASE SyscallStep
  <2>1. CASE at' = "app"
    BY <1>1, <2>1 DEF AttemptsLeft
  <2>2. CASE PollReady \/ Qbuf \/ Streamon
    BY <1>1, <2>1, <2>2 DEF PollReady, Qbuf, Startup, Streamon, stream, Proceed,
                            Attempt, Return, AttemptsLeft
  <2>3. CASE ~PollReady /\ ~Qbuf /\ ~Streamon
    BY <1>3, <2>1, <2>3 DEF SyscallStep, PollTimesOut, QbufInvalid, Dqbuf,
       DqbufEmpty, Streamoff, Interrupted, Refused, Fail, Return
  <2> QED BY <1>1, <2>2, <2>3
<1>4. CASE ~SyscallStep
  <2>1. UNCHANGED << stream, at, index >>
    BY <1>2, <1>4 DEF Next, Environment, DriverFills, Tick, Unplug, vars, call
  <2> QED BY <1>1, <1>4, <2>1 DEF AttemptsLeft, stream
<1> QED BY <1>3, <1>4

\* Whatever the kernel and the signals do, a call makes a bounded number of system
\* calls: one for each buffer and three more (userptr/stream.rs:193-214).
THEOREM UserptrCallsEnd == Spec => []AttemptsBounded /\ Spends
<1>1. IInv /\ [Next]_vars =>
        [at # "app" => /\ AttemptsLeft' <= AttemptsLeft
                       /\ SyscallStep => AttemptsLeft' < AttemptsLeft]_vars
  BY StepSpends
<1>2. Spec => Spends
  BY Invariance, <1>1, PTL DEF Spec, Spends
<1> QED BY Invariance, LeftInRange, <1>2, PTL

===============================================================================
