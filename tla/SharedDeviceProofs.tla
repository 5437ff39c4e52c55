--------------------------- MODULE SharedDeviceProofs ---------------------------
(***************************************************************************)
(* For any number of threads that share a Device: the driver never holds   *)
(* memory that is gone or too short, no call indexes out of its arena, a   *)
(* construction that fails harms nobody, and settings that are reported    *)
(* were in force.                                                          *)
(***************************************************************************)
EXTENDS SharedDevice, TLAPS

\* Memory of t that the driver may write to.
Holds(t) == \E i \in Indices, j \in Indices : held[i] = << t, j >>

\* The calls that make a system call.
CallsOf(syscall) ==
  CASE syscall = "app"        -> {"none"}
    [] syscall = "S"          -> {"modify"}
    [] syscall = "G"          -> {"read", "modify", "with_buffers"}
    [] syscall = "REQBUFS"    -> {"with_buffers"}
    [] syscall = "STREAMON"   -> {"next", "start"}
    [] syscall = "STREAMOFF"  -> {"stop", "drop"}
    [] syscall = "REQBUFS(0)" -> {"drop"}
    [] OTHER                  -> {"next"}

\* A call and the stream of its thread: only a construction has no stream, only a
\* destructor may run with an index from another stream, or while unwinding.
Consistent(c, s, unwinding) ==
  /\ ArgFits(c, s)
  /\ c.fn \in CallsOf(c.at)
  /\ c.fn = "with_buffers" => s.bufs = 0
  /\ c.fn \in {"next", "start", "stop", "drop"} => s.bufs > 0
  /\ s.bufs > 0 /\ c.fn # "drop" => s.arena_index < s.bufs
  /\ unwinding => c.fn = "drop"

ThreadsConsistent == \A t \in Threads : Consistent(call[t], stream[t], panicking[t])

\* A destructor that got past STREAMOFF unharmed has its memory back: if now the
\* release fails, the memory goes nonetheless.
StoppedHoldsNothing ==
  \A t \in Threads : call[t].at = "REQBUFS(0)" /\ ~panicking[t] => ~Holds(t)

IInv == Types /\ ThreadsConsistent /\ StoppedHoldsNothing /\ DriverHoldsLiveMemory

\* Destructors go on when the device is gone: then it holds nothing.
GoneHoldsNothing == plugged \in BOOLEAN /\ (~plugged => held = Empty)

-------------------------------------------------------------------------------
(* Facts that the steps share.                                             *)

LEMMA NoMemoryIsNoBuffer == ASSUME NEW t, NEW j PROVE NoMemory # << t, j >>
  BY DEF NoMemory

\* After the kernel let go of every buffer, nobody's memory is held.
LEMMA EmptyHoldsNothing ==
  ASSUME held' = Empty
  PROVE  StoppedHoldsNothing' /\ DriverHoldsLiveMemory'
  <1>1. \A i \in Indices : \A t, j : held'[i] # << t, j >>
    BY NoMemoryIsNoBuffer DEF Empty
  <1> QED BY <1>1 DEF DriverHoldsLiveMemory, StoppedHoldsNothing, Holds

\* One thread moves and the others stay as they are.
LEMMA OneThreadMoves ==
  ASSUME ThreadsConsistent, NEW t \in Threads,
         \A u \in Threads \ {t} :
           call'[u] = call[u] /\ stream'[u] = stream[u] /\ panicking'[u] = panicking[u],
         Consistent(call'[t], stream'[t], panicking'[t])
  PROVE  ThreadsConsistent'
  BY DEF ThreadsConsistent

\* What one thread may do without letting go of memory: its destructor neither
\* gets past STREAMOFF nor panics less, and its stream stays as it is.
LEMMA MemoryKept ==
  ASSUME IInv, NEW t \in Threads,
         \A u \in Threads \ {t} :
           call'[u] = call[u] /\ panicking'[u] = panicking[u],
         call'[t].at = "REQBUFS(0)" => panicking'[t],
         \A u \in Threads : stream'[u].bufs = stream[u].bufs
                         /\ stream'[u].length = stream[u].length,
         need' = need, \A i \in Indices : held'[i] \in {held[i], NoMemory}
  PROVE  StoppedHoldsNothing' /\ DriverHoldsLiveMemory'
  <1>1. \A i \in Indices : \A u, j : held'[i] = << u, j >> => held[i] = << u, j >>
    BY NoMemoryIsNoBuffer
  <1>2. StoppedHoldsNothing'
    BY <1>1 DEF IInv, StoppedHoldsNothing, Holds
  <1>3. DriverHoldsLiveMemory'
    BY <1>1 DEF IInv, DriverHoldsLiveMemory
  <1> QED BY <1>2, <1>3

LEMMA InitInvariant == Init => IInv
  <1> SUFFICES ASSUME Init PROVE IInv OBVIOUS
  <1> USE SharedAssumption DEF Init
  <1>1. Types
    <2>1. /\ setting \in [Settings -> Values]
          /\ \A k \in Settings : setting[k] \in Choice(k)
      OBVIOUS
    <2>2. call \in [Threads -> CallRecords]
      BY DEF App, CallRecords, Calls, Syscalls, Settings, Indices
    <2>3. stream \in [Threads -> StreamRecords]
      BY DEF NoStream, StreamRecords, Indices
    <2>4. held \in [Indices -> (Threads \X Indices) \cup {NoMemory}]
      BY DEF Empty
    <2>5. QueueTypes
      <3>1. count \in 0 .. MaxBufs /\ need \in Nat BY SharedAssumption DEF Init
      <3>2. on \in BOOLEAN /\ done \subseteq Indices OBVIOUS
      <3> QED BY <3>1, <3>2, <2>4 DEF QueueTypes
    <2>6. CallTypes BY <2>2 DEF CallTypes, Results
    <2>7. inForce \in [Threads -> SUBSET Values] OBVIOUS
    <2> QED BY <2>1, <2>3, <2>5, <2>6, <2>7 DEF Types
  <1>2. ThreadsConsistent
    BY DEF ThreadsConsistent, Consistent, ArgFits, CallsOf, App, NoStream
  <1>3. StoppedHoldsNothing BY DEF StoppedHoldsNothing, App
  <1>4. DriverHoldsLiveMemory BY NoMemoryIsNoBuffer DEF DriverHoldsLiveMemory, Empty
  <1> QED BY <1>1, <1>2, <1>3, <1>4 DEF IInv

-------------------------------------------------------------------------------
(* How a call goes on.                                                     *)

LEMMA GotoEffect ==
  ASSUME Types, NEW t \in Threads, NEW f \in Calls, NEW syscall \in Syscalls,
         NEW k \in Settings, NEW a \in Values \cup Indices, Goto(t, f, syscall, k, a)
  PROVE  /\ call' \in [Threads -> CallRecords]
         /\ call'[t] = [fn |-> f, at |-> syscall, kind |-> k, arg |-> a]
         /\ \A u \in Threads \ {t} : call'[u] = call[u]
  BY DEF Types, CallTypes, CallRecords, Goto

LEMMA ProceedEffect ==
  ASSUME Types, NEW t \in Threads, NEW syscall \in Syscalls,
         NEW a \in Values \cup Indices, Proceed(t, syscall, a)
  PROVE  /\ CallTypes' /\ panicking' = panicking
         /\ call'[t] = [fn |-> call[t].fn, at |-> syscall, kind |-> call[t].kind, arg |-> a]
         /\ \A u \in Threads \ {t} : call'[u] = call[u]
  <1>1. call[t].fn \in Calls /\ call[t].kind \in Settings
    BY DEF Types, CallTypes, CallRecords
  <1> QED BY <1>1, GotoEffect DEF Types, CallTypes, Proceed

LEMMA ReturnEffect ==
  ASSUME Types, NEW t \in Threads, NEW r \in Results, Return(t, r)
  PROVE  /\ CallTypes' /\ call'[t] = App /\ ~panicking'[t]
         /\ \A u \in Threads \ {t} : call'[u] = call[u] /\ panicking'[u] = panicking[u]
  <1>1. App \in CallRecords
    BY SharedAssumption DEF App, CallRecords, Calls, Syscalls, Settings, Indices
  <1> QED BY <1>1 DEF Types, CallTypes, Return

\* Between two calls nothing but the index matters.
LEMMA AppConsistent ==
  ASSUME NEW s, s.bufs > 0 => s.arena_index < s.bufs PROVE Consistent(App, s, FALSE)
  BY DEF Consistent, ArgFits, CallsOf, App

\* A thread that panics goes on with the destructor of its stream, if any.
LEMMA PanicsEffect ==
  ASSUME IInv, NEW t \in Threads, Panics(t), stream'[t].bufs = stream[t].bufs
  PROVE  /\ CallTypes' /\ Consistent(call'[t], stream'[t], panicking'[t])
         /\ call'[t].at # "REQBUFS(0)"
         /\ \A u \in Threads \ {t} : call'[u] = call[u] /\ panicking'[u] = panicking[u]
  <1>1. CASE /\ stream[t].bufs > 0
             /\ Goto(t, "drop", "STREAMOFF", "FMT", 0)
             /\ panicking' = [panicking EXCEPT ![t] = TRUE]
             /\ UNCHANGED << result, aborted >>
    <2>1. /\ 0 \in Values \cup Indices /\ "FMT" \in Settings
          /\ "drop" \in Calls /\ "STREAMOFF" \in Syscalls
      BY SharedAssumption DEF Indices, Settings, Calls, Syscalls
    <2>2. /\ call' \in [Threads -> CallRecords]
          /\ call'[t] = [fn |-> "drop", at |-> "STREAMOFF", kind |-> "FMT", arg |-> 0]
          /\ \A u \in Threads \ {t} : call'[u] = call[u]
      BY <1>1, <2>1, GotoEffect DEF IInv
    <2>3. CallTypes' /\ \A u \in Threads \ {t} : panicking'[u] = panicking[u]
      BY <1>1, <2>2 DEF IInv, Types, CallTypes
    <2> QED BY <1>1, <2>2, <2>3 DEF Consistent, ArgFits, CallsOf
  <1>2. CASE stream[t].bufs = 0 /\ Return(t, "panic")
    <2>1. /\ CallTypes' /\ call'[t] = App /\ ~panicking'[t]
          /\ \A u \in Threads \ {t} : call'[u] = call[u] /\ panicking'[u] = panicking[u]
      BY <1>2, ReturnEffect DEF IInv, Results
    <2>2. ~(stream'[t].bufs > 0) BY <1>2
    <2>3. Consistent(App, stream'[t], FALSE) BY <2>2, AppConsistent
    <2> QED BY <2>1, <2>3 DEF App, Consistent
  <1> QED BY <1>1, <1>2 DEF Panics

-------------------------------------------------------------------------------
(* The steps.                                                              *)

\* A call that begins with what it needs leaves everything else alone.
LEMMA BeginStep ==
  ASSUME IInv, NEW t \in Threads, NEW f \in Calls, NEW syscall \in Syscalls,
         NEW k \in Settings, NEW a \in Values \cup Indices,
         Begin(t, f, syscall, k, a), syscall # "REQBUFS(0)",
         Consistent([fn |-> f, at |-> syscall, kind |-> k, arg |-> a], stream[t], FALSE)
  PROVE  IInv'
  <1> USE DEF Begin, kernel, queue
  <1>1. ~panicking[t]
    BY DEF IInv, ThreadsConsistent, Consistent, CallsOf
  <1>2. /\ call' \in [Threads -> CallRecords]
        /\ call'[t] = [fn |-> f, at |-> syscall, kind |-> k, arg |-> a]
        /\ \A u \in Threads \ {t} : call'[u] = call[u]
    BY GotoEffect DEF IInv
  <1>3. Types'
    <2>1. CallTypes' BY <1>2 DEF IInv, Types, CallTypes, Results
    <2>2. QueueTypes' BY DEF IInv, Types, QueueTypes
    <2> QED BY <2>1, <2>2 DEF IInv, Types
  <1>4. Consistent(call'[t], stream'[t], panicking'[t])
    BY <1>1, <1>2 DEF Consistent
  <1>5. ThreadsConsistent' BY <1>2, <1>4, OneThreadMoves DEF IInv
  <1>6. StoppedHoldsNothing' /\ DriverHoldsLiveMemory'
    BY <1>2, MemoryKept
  <1> QED BY <1>3, <1>5, <1>6 DEF IInv

LEMMA ApiStep == ASSUME IInv, NEW t \in Threads, ApiCall(t) PROVE IInv'
  <1> USE SharedAssumption DEF Calls, Syscalls, Settings, Indices
  <1>1. ASSUME call[t].at = "app", stream[t].bufs > 0
        PROVE  stream[t].arena_index \in 0 .. stream[t].bufs - 1
    <2>1. stream[t] \in StreamRecords BY DEF IInv, Types
    <2>2. Consistent(call[t], stream[t], panicking[t]) BY DEF IInv, ThreadsConsistent
    <2> QED BY <1>1, <2>1, <2>2 DEF StreamRecords, Consistent, CallsOf
  <1>2. stream[t].bufs \in Nat BY DEF IInv, Types, StreamRecords
  <1>3. 0 \in Values \cup Indices OBVIOUS
  <1>4. ASSUME NEW k \in Settings, read(t, k) PROVE IInv'
    <2>1. Begin(t, "read", "G", k, 0) BY <1>4 DEF read
    <2>2. Consistent([fn |-> "read", at |-> "G", kind |-> k, arg |-> 0], stream[t], FALSE)
      BY <2>1, <1>1, <1>2 DEF Consistent, ArgFits, CallsOf, Begin
    <2> QED BY <1>3, <2>1, <2>2, BeginStep
  <1>5. ASSUME NEW k \in Settings, NEW v \in Values, modify(t, k, v) PROVE IInv'
    <2>1. Begin(t, "modify", "S", k, v) /\ v \in Choice(k) BY <1>5 DEF modify
    <2>2. Consistent([fn |-> "modify", at |-> "S", kind |-> k, arg |-> v], stream[t], FALSE)
      BY <2>1, <1>1, <1>2 DEF Consistent, ArgFits, CallsOf, Begin
    <2> QED BY <2>1, <2>2, BeginStep
  <1>6. CASE with_buffers(t)
    BY <1>6, BeginStep DEF with_buffers, Consistent, ArgFits, CallsOf
  <1>7. CASE next(t)
    <2> DEFINE a == IF stream[t].active THEN stream[t].arena_index ELSE 0
    <2>1. Begin(t, "next", "QBUF", "FMT", a) /\ stream[t].bufs > 0 BY <1>7 DEF next
    <2>2. a \in 0 .. stream[t].bufs - 1 BY <2>1, <1>1, <1>2 DEF Begin
    <2>3. a \in Indices BY <2>2, <1>2 DEF IInv, Types, StreamRecords
    <2>4. Consistent([fn |-> "next", at |-> "QBUF", kind |-> "FMT", arg |-> a], stream[t], FALSE)
      BY <2>1, <2>2, <1>1, <1>2 DEF Consistent, ArgFits, CallsOf, Begin
    <2> QED BY <2>1, <2>3, <2>4, BeginStep
  <1>8. CASE start(t)
    <2>1. Consistent([fn |-> "start", at |-> "STREAMON", kind |-> "FMT", arg |-> 0], stream[t], FALSE)
      BY <1>8, <1>1, <1>2 DEF start, Consistent, ArgFits, CallsOf, Begin
    <2> QED BY <1>8, <1>3, <2>1, BeginStep DEF start
  <1>9. CASE stop(t)
    <2>1. Consistent([fn |-> "stop", at |-> "STREAMOFF", kind |-> "FMT", arg |-> 0], stream[t], FALSE)
      BY <1>9, <1>1, <1>2 DEF stop, Consistent, ArgFits, CallsOf, Begin
    <2> QED BY <1>9, <1>3, <2>1, BeginStep DEF stop
  <1>10. CASE drop(t)
    BY <1>10, BeginStep DEF drop, Consistent, ArgFits, CallsOf
  <1> QED BY <1>4, <1>5, <1>6, <1>7, <1>8, <1>9, <1>10 DEF ApiCall

LEMMA SetStep == ASSUME IInv, NEW t \in Threads, Set(t) PROVE IInv'
  <1> DEFINE k == call[t].kind
             v == Adjusted[Request(call[t].arg)]
  <1> USE DEF Set, queue
  <1>1. Consistent(call[t], stream[t], panicking[t]) /\ call[t].at = "S"
    BY DEF IInv, ThreadsConsistent
  <1>2. v \in Choice(k) /\ v \in Values
    <2>1. k \in Settings BY DEF IInv, Types, CallTypes, CallRecords
    <2>2. call[t].arg \in Choice(k) BY <1>1 DEF Consistent, ArgFits
    <2>3. v \in Choice(k) BY <2>1, <2>2, SharedAssumption
    <2> QED BY <2>3 DEF Choice, Values
  <1>3. /\ CallTypes' /\ panicking' = panicking
        /\ call'[t] = [fn |-> call[t].fn, at |-> "G", kind |-> call[t].kind, arg |-> 0]
        /\ \A u \in Threads \ {t} : call'[u] = call[u]
    BY ProceedEffect, SharedAssumption DEF IInv, Syscalls, Indices
  <1>4. Types'
    <2>1. /\ setting' \in [Settings -> Values]
          /\ \A j \in Settings : setting'[j] \in Choice(j)
      BY <1>2 DEF IInv, Types
    <2>2. inForce' \in [Threads -> SUBSET Values] BY <1>2 DEF IInv, Types
    <2> QED BY <2>1, <2>2, <1>3 DEF IInv, Types, QueueTypes
  <1>5. Consistent(call'[t], stream'[t], panicking'[t])
    BY <1>1, <1>3 DEF Consistent, ArgFits, CallsOf
  <1>6. ThreadsConsistent' BY <1>3, <1>5, OneThreadMoves DEF IInv
  <1>7. StoppedHoldsNothing' /\ DriverHoldsLiveMemory'
    BY <1>3, MemoryKept
  <1> QED BY <1>4, <1>6, <1>7 DEF IInv

LEMMA GetStep == ASSUME IInv, NEW t \in Threads, Get(t) PROVE IInv'
  <1> DEFINE v == setting[call[t].kind]
  <1>1. Consistent(call[t], stream[t], panicking[t]) /\ call[t].at = "G"
    BY DEF IInv, ThreadsConsistent, Get
  <1>2. v \in Values /\ setting["FMT"] \in Values /\ setting["FMT"] \in Formats
    BY DEF IInv, Types, CallTypes, CallRecords, Settings, Choice
  <1>3. UNCHANGED << setting, count, need, on, held, done, stream >>
    BY DEF Get, kernel, queue
  <1>4. /\ CallTypes' /\ Consistent(call'[t], stream'[t], panicking'[t])
        /\ call'[t].at # "REQBUFS(0)"
        /\ \A u \in Threads \ {t} : call'[u] = call[u] /\ panicking'[u] = panicking[u]
    <2>1. CASE call[t].fn = "with_buffers" /\ Proceed(t, "REQBUFS", setting["FMT"])
      <3>1. /\ CallTypes' /\ panicking' = panicking
            /\ call'[t] = [fn |-> call[t].fn, at |-> "REQBUFS", kind |-> call[t].kind,
                           arg |-> setting["FMT"]]
            /\ \A u \in Threads \ {t} : call'[u] = call[u]
        BY <2>1, <1>2, ProceedEffect DEF IInv, Syscalls
      <3> QED BY <3>1, <2>1, <1>1, <1>2, <1>3 DEF Consistent, ArgFits, CallsOf
    <2>2. CASE Return(t, v)
      <3>1. /\ CallTypes' /\ call'[t] = App /\ ~panicking'[t]
            /\ \A u \in Threads \ {t} : call'[u] = call[u] /\ panicking'[u] = panicking[u]
        BY <2>2, <1>2, ReturnEffect DEF IInv, Results
      <3>2. Consistent(App, stream'[t], FALSE)
        BY <1>1, <1>3, AppConsistent DEF Consistent, CallsOf
      <3> QED BY <3>1, <3>2 DEF App, Consistent
    <2>3. CASE Panics(t) BY <2>3, <1>3, PanicsEffect
    <2> QED BY <2>1, <2>2, <2>3 DEF Get
  <1>5. inForce' \in [Threads -> SUBSET Values] BY DEF Get, IInv, Types
  <1>6. Types' BY <1>3, <1>4, <1>5 DEF IInv, Types, QueueTypes
  <1>7. ThreadsConsistent' BY <1>3, <1>4, OneThreadMoves DEF IInv
  <1>8. StoppedHoldsNothing' /\ DriverHoldsLiveMemory'
    BY <1>3, <1>4, MemoryKept
  <1> QED BY <1>6, <1>7, <1>8 DEF IInv

LEMMA ReqbufsStep == ASSUME IInv, NEW t \in Threads, Reqbufs(t) PROVE IInv'
  <1>1. PICK granted \in 1 .. MaxBufs :
          /\ call[t].at = "REQBUFS"
          /\ count' = granted /\ need' = Pix[setting["FMT"]].sizeimage
          /\ held' = Empty /\ done' = {}
          /\ stream' = [stream EXCEPT ![t] =
               [bufs |-> granted, length |-> Pix[call[t].arg].sizeimage,
                active |-> FALSE, arena_index |-> 0]]
          /\ Return(t, "ok")
          /\ UNCHANGED << setting, on, inForce >>
    BY DEF Reqbufs
  <1>2. /\ CallTypes' /\ call'[t] = App /\ ~panicking'[t]
        /\ \A u \in Threads \ {t} : call'[u] = call[u] /\ panicking'[u] = panicking[u]
    BY <1>1, ReturnEffect DEF IInv, Results
  <1>3. Pix[call[t].arg].sizeimage \in Nat /\ Pix[setting["FMT"]].sizeimage \in Nat
    <2>1. call[t].arg \in Formats
      BY <1>1 DEF IInv, ThreadsConsistent, Consistent, ArgFits
    <2>2. setting["FMT"] \in Formats BY DEF IInv, Types, Settings, Choice
    <2> QED BY <2>1, <2>2, SharedAssumption DEF v4l2_pix_format
  <1>4. /\ stream' \in [Threads -> StreamRecords]
        /\ stream'[t].bufs = granted /\ stream'[t].arena_index = 0
        /\ \A u \in Threads \ {t} : stream'[u] = stream[u]
    BY <1>1, <1>3, SharedAssumption DEF IInv, Types, StreamRecords, Indices
  <1>5. QueueTypes'
    BY <1>1, <1>3, SharedAssumption DEF IInv, Types, QueueTypes, Empty
  <1>6. Types' BY <1>1, <1>2, <1>4, <1>5 DEF IInv, Types
  <1>7. Consistent(App, stream'[t], FALSE)
    BY <1>4, AppConsistent
  <1>8. ThreadsConsistent'
    <2>1. Consistent(call'[t], stream'[t], panicking'[t]) BY <1>2, <1>7 DEF Consistent
    <2> QED BY <2>1, <1>2, <1>4, OneThreadMoves DEF IInv
  <1>9. StoppedHoldsNothing' /\ DriverHoldsLiveMemory'
    BY <1>1, EmptyHoldsNothing
  <1> QED BY <1>6, <1>8, <1>9 DEF IInv

\* What t queues is its own, long enough, and t is in next.
LEMMA QbufStep == ASSUME IInv, NEW t \in Threads, Qbuf(t) PROVE IInv'
  <1> DEFINE i == call[t].arg
  <1>1. /\ Consistent(call[t], stream[t], panicking[t]) /\ call[t].at = "QBUF"
        /\ held' = [held EXCEPT ![i] = << t, i >>] /\ stream[t].length >= need
        /\ UNCHANGED << setting, count, need, on, done, stream, inForce >>
    BY DEF IInv, ThreadsConsistent, Qbuf
  <1>2. i \in 0 .. stream[t].bufs - 1 /\ i \in Indices /\ stream[t].bufs \in 0 .. MaxBufs
    <2>1. stream[t].bufs \in 0 .. MaxBufs BY DEF IInv, Types, StreamRecords
    <2>2. i \in 0 .. stream[t].bufs - 1 BY <1>1 DEF Consistent, ArgFits
    <2> QED BY <2>1, <2>2, SharedAssumption DEF Indices
  <1>3. /\ CallTypes' /\ Consistent(call'[t], stream'[t], panicking'[t])
        /\ panicking' = panicking /\ call'[t].at # "REQBUFS(0)"
        /\ \A u \in Threads \ {t} : call'[u] = call[u]
    <2>1. CASE stream[t].active /\ Proceed(t, "DQBUF", 0)
      <3>1. 0 \in Values \cup Indices BY SharedAssumption DEF Indices
      <3>2. /\ CallTypes' /\ panicking' = panicking
            /\ call'[t] = [fn |-> call[t].fn, at |-> "DQBUF", kind |-> call[t].kind, arg |-> 0]
            /\ \A u \in Threads \ {t} : call'[u] = call[u]
        BY <2>1, <3>1, ProceedEffect DEF IInv, Syscalls
      <3> QED BY <3>2, <1>1 DEF Consistent, ArgFits, CallsOf
    <2>2. CASE i + 1 < stream[t].bufs /\ Proceed(t, "QBUF", i + 1)
      <3>1. i + 1 \in Indices /\ i + 1 \in 0 .. stream[t].bufs - 1
        BY <2>2, <1>2, SharedAssumption DEF Indices
      <3>2. /\ CallTypes' /\ panicking' = panicking
            /\ call'[t] = [fn |-> call[t].fn, at |-> "QBUF", kind |-> call[t].kind, arg |-> i + 1]
            /\ \A u \in Threads \ {t} : call'[u] = call[u]
        BY <2>2, <3>1, ProceedEffect DEF IInv, Syscalls
      <3> QED BY <3>1, <3>2, <1>1 DEF Consistent, ArgFits, CallsOf
    <2>3. CASE i + 1 = stream[t].bufs /\ Proceed(t, "STREAMON", 0)
      <3>1. 0 \in Values \cup Indices BY SharedAssumption DEF Indices
      <3>2. /\ CallTypes' /\ panicking' = panicking
            /\ call'[t] = [fn |-> call[t].fn, at |-> "STREAMON", kind |-> call[t].kind, arg |-> 0]
            /\ \A u \in Threads \ {t} : call'[u] = call[u]
        BY <2>3, <3>1, ProceedEffect DEF IInv, Syscalls
      <3> QED BY <3>2, <1>1 DEF Consistent, ArgFits, CallsOf
    <2> QED BY <2>1, <2>2, <2>3 DEF Qbuf
  <1>4. Types'
    <2>1. held' \in [Indices -> (Threads \X Indices) \cup {NoMemory}]
      BY <1>1, <1>2 DEF IInv, Types, QueueTypes
    <2> QED BY <2>1, <1>1, <1>3 DEF IInv, Types, QueueTypes
  <1>5. ThreadsConsistent' BY <1>1, <1>3, OneThreadMoves DEF IInv
  <1>6. \A k \in Indices : held'[k] = IF k = i THEN << t, i >> ELSE held[k]
    BY <1>1, <1>2 DEF IInv, Types, QueueTypes
  <1>7. StoppedHoldsNothing'
    <2>1. \A u \in Threads \ {t} : Holds(u)' => Holds(u)
      BY <1>6 DEF Holds
    <2> QED BY <2>1, <1>3 DEF IInv, StoppedHoldsNothing
  <1>8. DriverHoldsLiveMemory'
    <2>1. i < stream[t].bufs /\ need <= stream[t].length
      BY <1>1, <1>2 DEF IInv, Types, StreamRecords, QueueTypes
    <2> QED BY <2>1, <1>1, <1>6 DEF IInv, DriverHoldsLiveMemory
  <1> QED BY <1>4, <1>5, <1>7, <1>8 DEF IInv

LEMMA StreamonStep == ASSUME IInv, NEW t \in Threads, Streamon(t) PROVE IInv'
  <1>1. /\ Consistent(call[t], stream[t], panicking[t]) /\ call[t].at = "STREAMON"
        /\ on' = TRUE /\ stream' = [stream EXCEPT ![t].active = TRUE]
        /\ UNCHANGED << setting, count, need, held, done, inForce >>
    BY DEF IInv, ThreadsConsistent, Streamon
  <1>2. /\ stream' \in [Threads -> StreamRecords]
        /\ \A u \in Threads : /\ stream'[u].bufs = stream[u].bufs
                              /\ stream'[u].length = stream[u].length
                              /\ stream'[u].arena_index = stream[u].arena_index
        /\ \A u \in Threads \ {t} : stream'[u] = stream[u]
    BY <1>1 DEF IInv, Types, StreamRecords
  <1>3. /\ CallTypes' /\ Consistent(call'[t], stream'[t], panicking'[t])
        /\ call'[t].at # "REQBUFS(0)"
        /\ \A u \in Threads \ {t} : call'[u] = call[u] /\ panicking'[u] = panicking[u]
    <2>1. CASE Return(t, "ok")
      <3>1. /\ CallTypes' /\ call'[t] = App /\ ~panicking'[t]
            /\ \A u \in Threads \ {t} : call'[u] = call[u] /\ panicking'[u] = panicking[u]
        BY <2>1, ReturnEffect DEF IInv, Results
      <3>2. Consistent(App, stream'[t], FALSE)
        BY <1>1, <1>2, AppConsistent DEF Consistent, CallsOf
      <3> QED BY <3>1, <3>2 DEF App, Consistent
    <2>2. CASE call[t].fn = "next" /\ Proceed(t, "DQBUF", 0)
      <3>1. 0 \in Values \cup Indices BY SharedAssumption DEF Indices
      <3>2. /\ CallTypes' /\ panicking' = panicking
            /\ call'[t] = [fn |-> call[t].fn, at |-> "DQBUF", kind |-> call[t].kind, arg |-> 0]
            /\ \A u \in Threads \ {t} : call'[u] = call[u]
        BY <2>2, <3>1, ProceedEffect DEF IInv, Syscalls
      <3> QED BY <3>2, <2>2, <1>1, <1>2 DEF Consistent, ArgFits, CallsOf
    <2> QED BY <2>1, <2>2 DEF Streamon
  <1>4. Types' BY <1>1, <1>2, <1>3 DEF IInv, Types, QueueTypes
  <1>5. ThreadsConsistent' BY <1>2, <1>3, OneThreadMoves DEF IInv
  <1>6. StoppedHoldsNothing' /\ DriverHoldsLiveMemory'
    BY <1>1, <1>2, <1>3, MemoryKept
  <1> QED BY <1>4, <1>5, <1>6 DEF IInv

\* An index outside of the arena leads to the destructor.
LEMMA DqbufStep == ASSUME IInv, NEW t \in Threads, Dqbuf(t) PROVE IInv'
  <1>1. PICK i \in done :
          /\ call[t].at = "DQBUF"
          /\ held' = [held EXCEPT ![i] = NoMemory] /\ done' = done \ {i}
          /\ stream' = [stream EXCEPT ![t].arena_index = i]
          /\ \/ i < stream[t].bufs /\ Return(t, "ok")
             \/ Panics(t)
          /\ UNCHANGED << setting, count, need, on, inForce >>
    BY DEF Dqbuf
  <1>2. Consistent(call[t], stream[t], panicking[t]) /\ i \in Indices
    BY DEF IInv, ThreadsConsistent, Types, QueueTypes
  <1>3. /\ stream' \in [Threads -> StreamRecords]
        /\ stream'[t].arena_index = i
        /\ \A u \in Threads : stream'[u].bufs = stream[u].bufs
                              /\ stream'[u].length = stream[u].length
        /\ \A u \in Threads \ {t} : stream'[u] = stream[u]
    BY <1>1, <1>2 DEF IInv, Types, StreamRecords
  <1>4. /\ CallTypes' /\ Consistent(call'[t], stream'[t], panicking'[t])
        /\ call'[t].at # "REQBUFS(0)"
        /\ \A u \in Threads \ {t} : call'[u] = call[u] /\ panicking'[u] = panicking[u]
    <2>1. CASE i < stream[t].bufs /\ Return(t, "ok")
      <3>1. /\ CallTypes' /\ call'[t] = App /\ ~panicking'[t]
            /\ \A u \in Threads \ {t} : call'[u] = call[u] /\ panicking'[u] = panicking[u]
        BY <2>1, ReturnEffect DEF IInv, Results
      <3>2. Consistent(App, stream'[t], FALSE)
        BY <2>1, <1>3, AppConsistent
      <3> QED BY <3>1, <3>2 DEF App, Consistent
    <2>2. CASE Panics(t) BY <2>2, <1>3, PanicsEffect
    <2> QED BY <2>1, <2>2, <1>1
  <1>5. Types'
    <2>1. QueueTypes' BY <1>1, <1>2 DEF IInv, Types, QueueTypes
    <2> QED BY <2>1, <1>1, <1>3, <1>4 DEF IInv, Types
  <1>6. ThreadsConsistent' BY <1>3, <1>4, OneThreadMoves DEF IInv
  <1>7. \A k \in Indices : held'[k] \in {held[k], NoMemory}
    BY <1>1 DEF IInv, Types, QueueTypes
  <1>8. StoppedHoldsNothing' /\ DriverHoldsLiveMemory'
    BY <1>1, <1>3, <1>4, <1>7, MemoryKept
  <1> QED BY <1>5, <1>6, <1>8 DEF IInv

LEMMA StreamoffStep == ASSUME IInv, NEW t \in Threads, Streamoff(t) PROVE IInv'
  <1>1. /\ Consistent(call[t], stream[t], panicking[t]) /\ call[t].at = "STREAMOFF"
        /\ on' = FALSE /\ held' = Empty /\ done' = {}
        /\ UNCHANGED << setting, count, need, inForce >>
    BY DEF IInv, ThreadsConsistent, Streamoff
  <1>2. /\ CallTypes' /\ Consistent(call'[t], stream'[t], panicking'[t])
        /\ stream' \in [Threads -> StreamRecords]
        /\ \A u \in Threads \ {t} :
             call'[u] = call[u] /\ stream'[u] = stream[u] /\ panicking'[u] = panicking[u]
    <2>1. CASE /\ call[t].fn = "stop" /\ Return(t, "ok")
               /\ stream' = [stream EXCEPT ![t].active = FALSE]
      <3>1. /\ CallTypes' /\ call'[t] = App /\ ~panicking'[t]
            /\ \A u \in Threads \ {t} : call'[u] = call[u] /\ panicking'[u] = panicking[u]
        BY <2>1, ReturnEffect DEF IInv, Results
      <3>2. /\ stream' \in [Threads -> StreamRecords]
            /\ stream'[t].bufs = stream[t].bufs
            /\ stream'[t].arena_index = stream[t].arena_index
            /\ \A u \in Threads \ {t} : stream'[u] = stream[u]
        BY <2>1 DEF IInv, Types, StreamRecords
      <3>3. Consistent(App, stream'[t], FALSE)
        BY <2>1, <1>1, <3>2, AppConsistent DEF Consistent
      <3> QED BY <3>1, <3>2, <3>3 DEF Consistent
    <2>2. CASE call[t].fn = "drop" /\ Proceed(t, "REQBUFS(0)", 0) /\ UNCHANGED stream
      <3>1. 0 \in Values \cup Indices BY SharedAssumption DEF Indices
      <3>2. /\ CallTypes' /\ panicking' = panicking
            /\ call'[t] = [fn |-> call[t].fn, at |-> "REQBUFS(0)", kind |-> call[t].kind, arg |-> 0]
            /\ \A u \in Threads \ {t} : call'[u] = call[u]
        BY <2>2, <3>1, ProceedEffect DEF IInv, Syscalls
      <3> QED BY <3>2, <2>2, <1>1 DEF Consistent, ArgFits, CallsOf, IInv, Types
    <2> QED BY <2>1, <2>2 DEF Streamoff
  <1>3. Types' BY <1>1, <1>2 DEF IInv, Types, QueueTypes, Empty
  <1>4. ThreadsConsistent' BY <1>2, OneThreadMoves DEF IInv
  <1>5. StoppedHoldsNothing' /\ DriverHoldsLiveMemory'
    BY <1>1, EmptyHoldsNothing
  <1> QED BY <1>3, <1>4, <1>5 DEF IInv

LEMMA NoStreamConsistent ==
  NoStream \in StreamRecords /\ Consistent(App, NoStream, FALSE)
  <1>1. NoStream \in StreamRecords
    BY SharedAssumption DEF NoStream, StreamRecords, Indices
  <1>2. Consistent(App, NoStream, FALSE)
    BY AppConsistent DEF NoStream
  <1> QED BY <1>1, <1>2

LEMMA ReleaseStep == ASSUME IInv, NEW t \in Threads, Release(t) PROVE IInv'
  <1> DEFINE r == IF panicking[t] THEN "panic" ELSE "ok"
  <1>1. /\ count' = 0 /\ need' = 0 /\ held' = Empty /\ done' = {} /\ Return(t, r)
        /\ stream' = [stream EXCEPT ![t] = NoStream]
        /\ UNCHANGED << setting, on, inForce >>
    BY DEF Release
  <1>2. /\ CallTypes' /\ call'[t] = App /\ ~panicking'[t]
        /\ \A u \in Threads \ {t} : call'[u] = call[u] /\ panicking'[u] = panicking[u]
    <2>1. r \in Results BY DEF Results
    <2> QED BY <2>1, <1>1, ReturnEffect DEF IInv
  <1>3. /\ stream' \in [Threads -> StreamRecords] /\ stream'[t] = NoStream
        /\ \A u \in Threads \ {t} : stream'[u] = stream[u]
    BY <1>1, NoStreamConsistent DEF IInv, Types
  <1>4. Types'
    <2>1. QueueTypes' BY <1>1, SharedAssumption DEF IInv, Types, QueueTypes, Empty
    <2> QED BY <2>1, <1>1, <1>2, <1>3 DEF IInv, Types
  <1>5. ThreadsConsistent'
    <2>1. Consistent(call'[t], stream'[t], panicking'[t])
      BY <1>2, <1>3, NoStreamConsistent DEF Consistent
    <2> QED BY <2>1, <1>2, <1>3, OneThreadMoves DEF IInv
  <1>6. StoppedHoldsNothing' /\ DriverHoldsLiveMemory'
    BY <1>1, EmptyHoldsNothing
  <1> QED BY <1>4, <1>5, <1>6 DEF IInv

LEMMA CallFailsStep == ASSUME IInv, NEW t \in Threads, CallFails(t) PROVE IInv'
  <1>1. /\ call[t].fn # "drop" /\ Return(t, "err")
        /\ inForce' = [inForce EXCEPT ![t] = {}]
        /\ UNCHANGED << setting, count, need, on, held, done, stream >>
    BY DEF CallFails, kernel, queue
  <1>2. /\ CallTypes' /\ call'[t] = App /\ ~panicking'[t]
        /\ \A u \in Threads \ {t} : call'[u] = call[u] /\ panicking'[u] = panicking[u]
    BY <1>1, ReturnEffect DEF IInv, Results
  <1>3. Types' BY <1>1, <1>2 DEF IInv, Types, QueueTypes
  <1>4. Consistent(App, stream[t], FALSE)
    BY <1>1, AppConsistent DEF IInv, ThreadsConsistent, Consistent
  <1>5. ThreadsConsistent'
    <2>1. Consistent(call'[t], stream'[t], panicking'[t]) BY <1>1, <1>2, <1>4 DEF Consistent
    <2> QED BY <2>1, <1>1, <1>2, OneThreadMoves DEF IInv
  <1>6. call'[t].at # "REQBUFS(0)" BY <1>2 DEF App
  <1>7. StoppedHoldsNothing' /\ DriverHoldsLiveMemory'
    BY <1>1, <1>2, <1>6, MemoryKept
  <1> QED BY <1>3, <1>5, <1>7 DEF IInv

\* What fails after STREAMOFF holds nothing; what fails before it goes on, and is
\* the end of the process should it fail again.
LEMMA DropFailsStep == ASSUME IInv, NEW t \in Threads, DropFails(t) PROVE IInv'
  <1>1. /\ Consistent(call[t], stream[t], panicking[t]) /\ call[t].fn = "drop"
        /\ UNCHANGED << setting, count, need, on, held, done, inForce >>
    BY DEF IInv, ThreadsConsistent, DropFails, kernel, queue
  <1>2. CASE panicking[t] /\ aborted' = TRUE /\ UNCHANGED << call, result, panicking, stream >>
    <2>1. Types' BY <1>1, <1>2 DEF IInv, Types, QueueTypes, CallTypes
    <2>2. ThreadsConsistent' BY <1>2 DEF IInv, ThreadsConsistent
    <2>3. StoppedHoldsNothing' /\ DriverHoldsLiveMemory' BY <1>1, <1>2, MemoryKept
    <2> QED BY <2>1, <2>2, <2>3 DEF IInv
  <1>3. CASE /\ Goto(t, "drop", "REQBUFS(0)", "FMT", 0)
             /\ panicking' = [panicking EXCEPT ![t] = TRUE]
             /\ UNCHANGED << result, stream, aborted >>
    <2>1. /\ 0 \in Values \cup Indices /\ "FMT" \in Settings
          /\ "drop" \in Calls /\ "REQBUFS(0)" \in Syscalls
      BY SharedAssumption DEF Indices, Settings, Calls, Syscalls
    <2>2. /\ call' \in [Threads -> CallRecords]
          /\ call'[t] = [fn |-> "drop", at |-> "REQBUFS(0)", kind |-> "FMT", arg |-> 0]
          /\ \A u \in Threads \ {t} : call'[u] = call[u]
      BY <1>3, <2>1, GotoEffect DEF IInv
    <2>3. /\ CallTypes' /\ panicking'[t]
          /\ \A u \in Threads \ {t} : panicking'[u] = panicking[u]
      BY <1>3, <2>2 DEF IInv, Types, CallTypes
    <2>4. Types' BY <1>1, <1>3, <2>3 DEF IInv, Types, QueueTypes
    <2>5. Consistent(call'[t], stream'[t], panicking'[t])
      BY <1>1, <1>3, <2>2 DEF Consistent, ArgFits, CallsOf
    <2>6. ThreadsConsistent' BY <1>3, <2>2, <2>3, <2>5, OneThreadMoves DEF IInv
    <2>7. StoppedHoldsNothing' /\ DriverHoldsLiveMemory'
      BY <1>1, <1>3, <2>2, <2>3, MemoryKept
    <2> QED BY <2>4, <2>6, <2>7 DEF IInv
  <1>4. CASE /\ ~panicking[t] /\ call[t].at = "REQBUFS(0)" /\ Return(t, "panic")
             /\ stream' = [stream EXCEPT ![t] = NoStream]
    <2>1. /\ CallTypes' /\ call'[t] = App /\ ~panicking'[t]
          /\ \A u \in Threads \ {t} : call'[u] = call[u] /\ panicking'[u] = panicking[u]
      BY <1>4, ReturnEffect DEF IInv, Results
    <2>2. /\ stream' \in [Threads -> StreamRecords] /\ stream'[t] = NoStream
          /\ \A u \in Threads \ {t} : stream'[u] = stream[u]
      BY <1>4, NoStreamConsistent DEF IInv, Types
    <2>3. Types' BY <1>1, <2>1, <2>2 DEF IInv, Types, QueueTypes
    <2>4. Consistent(call'[t], stream'[t], panicking'[t])
      BY <2>1, <2>2, NoStreamConsistent DEF Consistent
    <2>5. ThreadsConsistent' BY <2>1, <2>2, <2>4, OneThreadMoves DEF IInv
    <2>6. ~Holds(t) BY <1>4 DEF IInv, StoppedHoldsNothing
    <2>7. StoppedHoldsNothing'
      BY <1>1, <2>1 DEF IInv, StoppedHoldsNothing, Holds, App
    <2>8. DriverHoldsLiveMemory'
      BY <1>1, <2>2, <2>6 DEF IInv, DriverHoldsLiveMemory, Holds
    <2> QED BY <2>3, <2>5, <2>7, <2>8 DEF IInv
  <1> QED BY <1>2, <1>3, <1>4 DEF DropFails

LEMMA DriverFillsStep == ASSUME IInv, DriverFills PROVE IInv'
  <1> USE DEF DriverFills
  <1>1. Types' BY DEF IInv, Types, QueueTypes, CallTypes
  <1>2. ThreadsConsistent' BY DEF IInv, ThreadsConsistent
  <1>3. StoppedHoldsNothing' BY DEF IInv, StoppedHoldsNothing, Holds
  <1>4. DriverHoldsLiveMemory' BY DEF IInv, DriverHoldsLiveMemory
  <1> QED BY <1>1, <1>2, <1>3, <1>4 DEF IInv

LEMMA DropFindsNoDeviceStep ==
  ASSUME IInv, GoneHoldsNothing, NEW t \in Threads, DropFindsNoDevice(t) PROVE IInv'
  <1>1. /\ Consistent(call[t], stream[t], panicking[t]) /\ call[t].fn = "drop"
        /\ held' = Empty
        /\ UNCHANGED << setting, count, need, on, held, done, inForce >>
    BY DEF IInv, ThreadsConsistent, GoneHoldsNothing, DropFindsNoDevice, kernel, queue
  <1>2. /\ CallTypes' /\ Consistent(call'[t], stream'[t], panicking'[t])
        /\ stream' \in [Threads -> StreamRecords]
        /\ \A u \in Threads \ {t} :
             call'[u] = call[u] /\ stream'[u] = stream[u] /\ panicking'[u] = panicking[u]
    <2>1. CASE call[t].at = "STREAMOFF" /\ Proceed(t, "REQBUFS(0)", 0) /\ UNCHANGED stream
      <3>1. 0 \in Values \cup Indices BY SharedAssumption DEF Indices
      <3>2. /\ CallTypes' /\ panicking' = panicking
            /\ call'[t] = [fn |-> call[t].fn, at |-> "REQBUFS(0)",
                           kind |-> call[t].kind, arg |-> 0]
            /\ \A u \in Threads \ {t} : call'[u] = call[u]
        BY <2>1, <3>1, ProceedEffect DEF IInv, Syscalls
      <3> QED BY <3>2, <2>1, <1>1 DEF Consistent, ArgFits, CallsOf, IInv, Types
    <2>2. CASE /\ Return(t, IF panicking[t] THEN "panic" ELSE "ok")
               /\ stream' = [stream EXCEPT ![t] = NoStream]
      <3> DEFINE r == IF panicking[t] THEN "panic" ELSE "ok"
      <3>1. r \in Results BY DEF Results
      <3>2. /\ CallTypes' /\ call'[t] = App /\ ~panicking'[t]
            /\ \A u \in Threads \ {t} : call'[u] = call[u] /\ panicking'[u] = panicking[u]
        BY <2>2, <3>1, ReturnEffect DEF IInv
      <3>3. /\ stream' \in [Threads -> StreamRecords] /\ stream'[t] = NoStream
            /\ \A u \in Threads \ {t} : stream'[u] = stream[u]
        BY <2>2, NoStreamConsistent DEF IInv, Types
      <3> QED BY <3>2, <3>3, NoStreamConsistent DEF Consistent
    <2> QED BY <2>1, <2>2 DEF DropFindsNoDevice
  <1>3. Types' BY <1>1, <1>2 DEF IInv, Types, QueueTypes
  <1>4. ThreadsConsistent' BY <1>2, OneThreadMoves DEF IInv
  <1>5. StoppedHoldsNothing' /\ DriverHoldsLiveMemory' BY <1>1, EmptyHoldsNothing
  <1> QED BY <1>3, <1>4, <1>5 DEF IInv

LEMMA UnplugStep == ASSUME IInv, Unplug PROVE IInv'
  <1> USE DEF Unplug
  <1>1. Types' BY DEF IInv, Types, QueueTypes, CallTypes, Empty
  <1>2. ThreadsConsistent' BY DEF IInv, ThreadsConsistent
  <1>3. StoppedHoldsNothing' /\ DriverHoldsLiveMemory' BY EmptyHoldsNothing
  <1> QED BY <1>1, <1>2, <1>3 DEF IInv

\* Nothing is queued once the device is gone.
LEMMA GoneStaysEmpty ==
  ASSUME GoneHoldsNothing, [Next]_vars PROVE GoneHoldsNothing'
  <1>1. CASE Unplug BY <1>1 DEF Unplug, GoneHoldsNothing
  <1>2. CASE Step /\ UNCHANGED plugged
    <2>1. CASE plugged BY <1>2, <2>1 DEF GoneHoldsNothing
    <2>2. CASE ~plugged
      <3>1. UNCHANGED held
        BY <1>2, <2>2 DEF Step, DriverFills, ApiCall, SyscallStep, read, modify,
           with_buffers, next, start, stop, drop, Begin, CallFails, DropFails,
           DropFindsNoDevice, kernel, queue
      <3> QED BY <1>2, <3>1 DEF GoneHoldsNothing, Empty
    <2> QED BY <2>1, <2>2
  <1>3. CASE UNCHANGED vars
    BY <1>3 DEF vars, kernel, queue, GoneHoldsNothing, Empty
  <1> QED BY <1>1, <1>2, <1>3 DEF Next

LEMMA Inductive == ASSUME IInv, GoneHoldsNothing, [Next]_vars PROVE IInv'
  <1>1. CASE DriverFills BY <1>1, DriverFillsStep
  <1>2. ASSUME NEW t \in Threads, ApiCall(t) PROVE IInv' BY <1>2, ApiStep
  <1>3. ASSUME NEW t \in Threads, SyscallStep(t) PROVE IInv'
    BY <1>3, SetStep, GetStep, ReqbufsStep, QbufStep, StreamonStep, DqbufStep,
       StreamoffStep, ReleaseStep, CallFailsStep, DropFailsStep, DropFindsNoDeviceStep
    DEF SyscallStep
  <1>4. CASE Unplug BY <1>4, UnplugStep
  <1>5. CASE UNCHANGED vars
    <2> USE <1>5 DEF vars, kernel, queue
    <2>1. Types' BY DEF IInv, Types, QueueTypes, CallTypes
    <2>2. ThreadsConsistent' BY DEF IInv, ThreadsConsistent
    <2>3. StoppedHoldsNothing' BY DEF IInv, StoppedHoldsNothing, Holds
    <2>4. DriverHoldsLiveMemory' BY DEF IInv, DriverHoldsLiveMemory
    <2> QED BY <2>1, <2>2, <2>3, <2>4 DEF IInv
  <1> QED BY <1>1, <1>2, <1>3, <1>4, <1>5 DEF Next, Step

LEMMA Invariant == Spec => [](IInv /\ GoneHoldsNothing)
  <1>1. Init => IInv /\ GoneHoldsNothing
    BY InitInvariant DEF Init, GoneHoldsNothing
  <1> QED BY <1>1, Inductive, GoneStaysEmpty, PTL DEF Spec

-------------------------------------------------------------------------------
(* The theorems.                                                           *)

\* Every value has its type, and no call indexes its arena out of bounds: the
\* buffer of a QBUF exists, also after another thread took or replaced buffers.
THEOREM TypeCorrect == Spec => []TypeOK
  <1>1. IInv /\ GoneHoldsNothing => TypeOK
    BY DEF IInv, GoneHoldsNothing, TypeOK, ThreadsConsistent, Consistent
  <1> QED BY <1>1, Invariant, PTL

\* The driver writes only into memory of a stream that exists, and within it,
\* whatever any number of threads do with streams and formats of one device
\* (userptr/stream.rs:92-108, 143-162; userptr/arena.rs:44-87).
THEOREM DriverMemorySafe == Spec => []DriverHoldsLiveMemory
  <1>1. IInv => DriverHoldsLiveMemory BY DEF IInv
  <1> QED BY <1>1, Invariant, PTL

\* A thread that fails to build a stream leaves the queue alone, for any number
\* of threads (userptr/stream.rs:51-53, userptr/arena.rs:105-110).
THEOREM FailedConstructionsHarmless == Spec => FailedConstructionHarmless
  <1> DEFINE Harmless == \A t \in Threads :
        call[t].fn = "with_buffers" /\ call'[t] # call[t] /\ queue' # queue
        => stream'[t].bufs > 0
  <1>1. ASSUME IInv, [Next]_vars PROVE Harmless
    <2> SUFFICES ASSUME NEW t \in Threads, call[t].fn = "with_buffers",
                        call'[t] # call[t], queue' # queue
                 PROVE  stream'[t].bufs > 0
      OBVIOUS
    <2>1. call[t].at \in {"G", "REQBUFS"}
      BY <1>1 DEF IInv, ThreadsConsistent, Consistent, CallsOf
    <2>2. PICK u \in Threads : ApiCall(u) \/ SyscallStep(u)
      BY <1>1 DEF Next, Step, Unplug, DriverFills, vars, kernel
    <2>3. u = t
      BY <1>1, <2>2 DEF IInv, Types, CallTypes, ApiCall, SyscallStep, read, modify,
         with_buffers, next, start, stop, drop, Begin, Goto, Set, Get, Reqbufs, Qbuf,
         Streamon, Dqbuf, Streamoff, Release, CallFails, DropFails, DropFindsNoDevice, Proceed,
         Return, Panics
    <2>4. ~ApiCall(t)
      BY <2>1 DEF ApiCall, read, modify, with_buffers, next, start, stop, drop, Begin
    <2>5. Reqbufs(t)
      BY <2>1, <2>2, <2>3, <2>4 DEF SyscallStep, Set, Get, Qbuf, Streamon, Dqbuf,
         Streamoff, Release, CallFails, DropFails, DropFindsNoDevice, kernel, queue
    <2> QED BY <1>1, <2>5 DEF Reqbufs, IInv, Types
  <1>2. Spec => [][Harmless]_vars
    BY <1>1, Invariant, PTL DEF Spec
  <1> QED BY <1>2 DEF FailedConstructionHarmless

-------------------------------------------------------------------------------
(* What format and params, set_format and set_params return.               *)

\* The value that a call is about to read is in its history.
ReadsWhatIsInForce ==
  \A t \in Threads : call[t].at = "G" => setting[call[t].kind] \in inForce[t]

\* The history matters only before a read, and other threads' reads are not
\* disturbed by a step that sets nothing.
LEMMA ReadsUndisturbed ==
  ASSUME ReadsWhatIsInForce, NEW t \in Threads, UNCHANGED setting, call'[t].at # "G",
         \A u \in Threads \ {t} : call'[u] = call[u] /\ inForce'[u] = inForce[u]
  PROVE  ReadsWhatIsInForce'
  BY DEF ReadsWhatIsInForce

LEMMA ReadsBegin ==
  ASSUME Types, ReadsWhatIsInForce, NEW t \in Threads, ApiCall(t)
  PROVE  ReadsWhatIsInForce'
  <1>1. ASSUME NEW f, NEW syscall, NEW k, NEW a, Begin(t, f, syscall, k, a)
        PROVE  ReadsWhatIsInForce'
    <2>1. /\ setting' = setting
          /\ call'[t] = [fn |-> f, at |-> syscall, kind |-> k, arg |-> a]
          /\ inForce'[t] = IF syscall = "G" THEN {setting[k]} ELSE {}
          /\ \A u \in Threads \ {t} : call'[u] = call[u] /\ inForce'[u] = inForce[u]
      BY <1>1 DEF Begin, Goto, kernel, Types, CallTypes
    <2> QED BY <2>1 DEF ReadsWhatIsInForce
  <1> QED BY <1>1 DEF ApiCall, read, modify, with_buffers, next, start, stop, drop

LEMMA ReadsAfterSet ==
  ASSUME Types, ReadsWhatIsInForce, NEW t \in Threads, Set(t)
  PROVE  ReadsWhatIsInForce'
  <1> DEFINE k == call[t].kind
             v == Adjusted[Request(call[t].arg)]
  <1>1. /\ setting' = [setting EXCEPT ![k] = v]
        /\ call'[t].kind = k
        /\ \A u \in Threads \ {t} : call'[u] = call[u]
        /\ inForce'[t] = {v}
        /\ \A u \in Threads \ {t} :
             inForce'[u] = IF call[u].at = "G" /\ call[u].kind = k THEN inForce[u] \cup {v}
                           ELSE inForce[u]
    BY DEF Set, Proceed, Goto, Types, CallTypes
  <1>2. k \in Settings /\ \A u \in Threads : call[u].kind \in Settings
    BY DEF Types, CallTypes, CallRecords
  <1>3. setting'[k] = v /\ \A j \in Settings \ {k} : setting'[j] = setting[j]
    BY <1>1, <1>2 DEF Types
  <1>4. setting'[call'[t].kind] \in inForce'[t] BY <1>1, <1>3
  <1>5. ASSUME NEW u \in Threads \ {t}, call'[u].at = "G"
        PROVE  setting'[call'[u].kind] \in inForce'[u]
    <2>1. call'[u] = call[u] /\ setting[call[u].kind] \in inForce[u]
      BY <1>1, <1>5 DEF ReadsWhatIsInForce
    <2>2. CASE call[u].kind = k
      <3>1. v \in inForce'[u] BY <1>1, <1>5, <2>1, <2>2
      <3>2. setting'[call'[u].kind] = v BY <1>3, <2>1, <2>2
      <3> QED BY <3>1, <3>2
    <2>3. CASE call[u].kind # k BY <1>1, <1>2, <1>3, <2>1, <2>3
    <2> QED BY <2>2, <2>3
  <1> QED BY <1>4, <1>5 DEF ReadsWhatIsInForce

LEMMA ReadsKept ==
  ASSUME Types, ReadsWhatIsInForce, [Next]_vars PROVE ReadsWhatIsInForce'
  <1>1. ASSUME NEW t \in Threads, ApiCall(t) PROVE ReadsWhatIsInForce'
    BY <1>1, ReadsBegin
  <1>2. ASSUME NEW t \in Threads, Set(t) PROVE ReadsWhatIsInForce'
    BY <1>2, ReadsAfterSet
  <1>3. ASSUME NEW t \in Threads, SyscallStep(t), ~Set(t) PROVE ReadsWhatIsInForce'
    <2>1. setting' = setting /\ \A u \in Threads \ {t} : inForce'[u] = inForce[u]
      BY <1>3, SMTT(20) DEF SyscallStep, Get, Reqbufs, Qbuf, Streamon, Dqbuf, Streamoff, Release,
         CallFails, DropFails, DropFindsNoDevice, kernel, Types
    <2>2. call'[t].at # "G" \/ call' = call
      BY <1>3, SMTT(20) DEF SyscallStep, Get, Reqbufs, Qbuf, Streamon, Dqbuf, Streamoff, Release,
         CallFails, DropFails, DropFindsNoDevice, Proceed, Return, Panics, Goto, App,
         Types, CallTypes
    <2>3. call' = call => inForce' = inForce
      BY <1>3, SMTT(20) DEF SyscallStep, Get, Reqbufs, Qbuf, Streamon, Dqbuf, Streamoff, Release,
         CallFails, DropFails, DropFindsNoDevice, Proceed, Return, Panics, Goto, App,
         Types, CallTypes
    <2>4. \A u \in Threads \ {t} : call'[u] = call[u]
      BY <1>3, SMTT(20) DEF SyscallStep, Get, Reqbufs, Qbuf, Streamon, Dqbuf, Streamoff, Release,
         CallFails, DropFails, DropFindsNoDevice, Proceed, Return, Panics, Goto, Types,
         CallTypes
    <2>5. CASE call'[t].at # "G" BY <2>1, <2>4, <2>5, ReadsUndisturbed
    <2>6. CASE call' = call BY <2>1, <2>3, <2>6 DEF ReadsWhatIsInForce
    <2> QED BY <2>2, <2>5, <2>6
  <1>4. CASE DriverFills BY <1>4 DEF DriverFills, ReadsWhatIsInForce
  <1>5. CASE Unplug BY <1>5 DEF Unplug, ReadsWhatIsInForce
  <1>6. CASE UNCHANGED vars BY <1>6 DEF vars, kernel, ReadsWhatIsInForce
  <1> QED BY <1>1, <1>2, <1>3, <1>4, <1>5, <1>6 DEF Next, Step

\* For any number of threads, format, params, set_format and set_params return a
\* value that was in force at some moment since they set one or began to read
\* (video/macros.rs:130-168, video/capture/mod.rs:24-57).
THEOREM ActualValueReported == Spec => ReportsActualValue
  <1> DEFINE Actual == \A t \in Threads :
        call[t].fn \in {"read", "modify"} /\ call'[t] # call[t] /\ result'[t] \in Values
        /\ call'[t].at = "app"
        => Seen(result'[t]) \in {Seen(v) : v \in inForce[t]}
  <1>1. ASSUME IInv, ReadsWhatIsInForce, [Next]_vars PROVE Actual
    <2> SUFFICES ASSUME NEW t \in Threads, call[t].fn \in {"read", "modify"},
                        call'[t] # call[t], result'[t] \in Values, call'[t].at = "app"
                 PROVE  Seen(result'[t]) \in {Seen(v) : v \in inForce[t]}
      OBVIOUS
    <2>1. call[t].at \in {"G", "S"}
      BY <1>1 DEF IInv, ThreadsConsistent, Consistent, CallsOf
    <2>2. PICK u \in Threads : ApiCall(u) \/ SyscallStep(u)
      BY <1>1 DEF Next, Step, Unplug, DriverFills, vars, kernel
    <2>3. u = t
      BY <1>1, <2>2 DEF IInv, Types, CallTypes, ApiCall, SyscallStep, read, modify,
         with_buffers, next, start, stop, drop, Begin, Goto, Set, Get, Reqbufs, Qbuf,
         Streamon, Dqbuf, Streamoff, Release, CallFails, DropFails, DropFindsNoDevice,
         Proceed, Return, Panics
    <2>4. ~ApiCall(t)
      BY <2>1 DEF ApiCall, read, modify, with_buffers, next, start, stop, drop, Begin
    <2>5. Set(t) \/ Get(t) \/ CallFails(t)
      BY <2>1, <2>2, <2>3, <2>4 DEF SyscallStep, Reqbufs, Qbuf, Streamon, Dqbuf,
         Streamoff, Release, DropFails, DropFindsNoDevice
    <2>6. ~Set(t)
      BY <1>1 DEF Set, Proceed, Goto, IInv, Types, CallTypes
    <2>7. ~CallFails(t)
      BY <1>1, SharedAssumption DEF CallFails, Return, IInv, Types, CallTypes
    <2>8. ~Panics(t)
      BY <1>1, SharedAssumption DEF Panics, Goto, Return, IInv, Types, CallTypes
    <2>9. result'[t] = setting[call[t].kind] /\ call[t].at = "G"
      BY <1>1, <2>5, <2>6, <2>7, <2>8 DEF Get, Proceed, Goto, Return, IInv, Types, CallTypes
    <2> QED BY <1>1, <2>9 DEF ReadsWhatIsInForce
  <1>2. Init => ReadsWhatIsInForce BY DEF Init, ReadsWhatIsInForce, App
  <1>3. IInv => Types BY DEF IInv
  <1>4. Spec => []ReadsWhatIsInForce
    BY <1>2, <1>3, ReadsKept, Invariant, PTL DEF Spec
  <1>5. Spec => [][Actual]_vars
    BY <1>1, <1>4, Invariant, PTL DEF Spec
  <1> QED BY <1>5 DEF ReportsActualValue

===============================================================================
