------------------------------ MODULE SharedDevice ------------------------------
(***************************************************************************)
(* Threads that share one Device: each reads and changes the format and    *)
(* the parameters (src/video/), builds a user-pointer stream of its own    *)
(* (src/io/userptr/), uses and drops it.  All streams of a Device share    *)
(* its descriptor, so the kernel takes them for one user of one queue.     *)
(*                                                                         *)
(* One step is one system call of one thread, with what the code does      *)
(* until the next one.  Any system call may fail to no effect, because the *)
(* kernel refuses it or a signal interrupts it, and every one fails with   *)
(* ENODEV once the device is gone.                                         *)
(***************************************************************************)
EXTENDS Conversions, FiniteSets

CONSTANTS
  Threads,
  Formats, Params,
  Pix, Parm,   \* the structures the kernel has for them
  Adjusted,    \* what the driver makes of what reaches it
  MaxBufs      \* bound: buffers a driver grants

Settings  == {"FMT", "PARM"}
Values    == Formats \cup Params
Choice(k) == IF k = "FMT" THEN Formats ELSE Params

\* What the application gets to see of a value.
Seen(v) == IF v \in Formats THEN Format(Pix[v]) ELSE Parameters(Parm[v])

\* What reaches the driver when the application asks for what it sees as v.
Request(v) ==
  IF v \in Formats THEN Sanitized(PixFormat(Format(Pix[v])))
  ELSE CaptureParm(Parameters(Parm[v]))

ASSUME SharedAssumption ==
  /\ Pix \in [Formats -> v4l2_pix_format] /\ Parm \in [Params -> v4l2_captureparm]
  /\ \A k \in Settings : \A v \in Choice(k) : Adjusted[Request(v)] \in Choice(k)
  /\ MaxBufs \in Nat \ {0}
  /\ {"none", "ok", "err", "panic"} \cap Values = {}

VARIABLES
  (* the kernel: one queue for the descriptor *)
  setting,     \* the format and the parameters in force
  count, need, \* buffers allocated, and the bytes that each must have
  on,
  held,        \* the memory queued at an index
  done,        \* the indices that wait to be dequeued
  plugged,     \* only Unplug changes it
  (* the threads *)
  call,        \* the call in progress: its next system call and what it is given
  result, panicking,
  stream,      \* struct Stream and its arena; without buffers, no stream
  aborted,     \* a panic during a panic ended the process
  inForce      \* history: values in force since a call set, or began to read, one

queue  == << count, need, on, held, done >>
kernel == << setting, queue >>
vars   == << kernel, plugged, call, result, panicking, stream, aborted, inForce >>

Indices  == 0 .. MaxBufs - 1
NoMemory == << >>
Empty    == [i \in Indices |-> NoMemory]
App      == [fn |-> "none", at |-> "app", kind |-> "FMT", arg |-> 0]
NoStream == [bufs |-> 0, length |-> 0, active |-> FALSE, arena_index |-> 0]

Calls    == {"none", "read", "modify", "with_buffers", "next", "start", "stop", "drop"}
Syscalls == {"app", "G", "S", "REQBUFS", "QBUF", "STREAMON", "DQBUF", "STREAMOFF",
             "REQBUFS(0)"}

\* What a system call is given exists: the buffer of a QBUF in the arena, say.
ArgFits(c, s) ==
  /\ c.at = "S" => c.arg \in Choice(c.kind)
  /\ c.at = "REQBUFS" => c.arg \in Formats
  /\ c.at = "QBUF" => c.arg \in 0 .. s.bufs - 1

CallRecords   == [fn : Calls, at : Syscalls, kind : Settings, arg : Values \cup Indices]
StreamRecords == [bufs : 0 .. MaxBufs, length : Nat, active : BOOLEAN,
                  arena_index : Indices]
Results       == {"none", "ok", "err", "panic"} \cup Values

QueueTypes ==
  /\ count \in 0 .. MaxBufs /\ need \in Nat /\ on \in BOOLEAN
  /\ held \in [Indices -> (Threads \X Indices) \cup {NoMemory}]
  /\ done \subseteq Indices

CallTypes ==
  /\ call \in [Threads -> CallRecords] /\ result \in [Threads -> Results]
  /\ panicking \in [Threads -> BOOLEAN] /\ aborted \in BOOLEAN

Types ==
  /\ \A k \in Settings : setting[k] \in Choice(k)
  /\ setting \in [Settings -> Values] /\ QueueTypes /\ CallTypes
  /\ stream \in [Threads -> StreamRecords]
  /\ inForce \in [Threads -> SUBSET Values]

TypeOK ==
  /\ Types /\ plugged \in BOOLEAN
  /\ \A t \in Threads : ArgFits(call[t], stream[t])

Init ==
  /\ setting \in [Settings -> Values]
  /\ \A k \in Settings : \E v \in Choice(k) : setting[k] = Adjusted[Request(v)]
  /\ count = 0 /\ need = 0 /\ on = FALSE /\ held = Empty /\ done = {}
  /\ plugged = TRUE
  /\ call = [t \in Threads |-> App] /\ result = [t \in Threads |-> "none"]
  /\ panicking = [t \in Threads |-> FALSE] /\ aborted = FALSE
  /\ stream = [t \in Threads |-> NoStream]
  /\ inForce = [t \in Threads |-> {}]

-------------------------------------------------------------------------------
(* How a call begins, goes on, returns.                                    *)

Goto(t, f, syscall, k, a) ==
  call' = [call EXCEPT ![t] = [fn |-> f, at |-> syscall, kind |-> k, arg |-> a]]

Begin(t, f, syscall, k, a) ==
  /\ call[t].at = "app" /\ Goto(t, f, syscall, k, a)
  /\ inForce' = [inForce EXCEPT ![t] = IF syscall = "G" THEN {setting[k]} ELSE {}]
  /\ result' = [result EXCEPT ![t] = "none"]
  /\ UNCHANGED << kernel, panicking, stream, aborted >>

Proceed(t, syscall, a) ==
  /\ Goto(t, call[t].fn, syscall, call[t].kind, a)
  /\ UNCHANGED << result, panicking, aborted >>

Return(t, r) ==
  /\ call' = [call EXCEPT ![t] = App]
  /\ result' = [result EXCEPT ![t] = r]
  /\ panicking' = [panicking EXCEPT ![t] = FALSE]
  /\ UNCHANGED aborted

-------------------------------------------------------------------------------
(* The public calls.                                                       *)

\* format and params.
read(t, k) == Begin(t, "read", "G", k, 0)

\* set_format and set_params; a Format has no codes that the crate does not know.
modify(t, k, v) ==
  /\ v \in Choice(k) /\ (k = "FMT" => Understood(Pix[v]))
  /\ Begin(t, "modify", "S", k, v)

with_buffers(t) == stream[t].bufs = 0 /\ Begin(t, "with_buffers", "G", "FMT", 0)

next(t) ==
  /\ stream[t].bufs > 0
  /\ Begin(t, "next", "QBUF", "FMT", IF stream[t].active THEN stream[t].arena_index ELSE 0)

start(t) == stream[t].bufs > 0 /\ Begin(t, "start", "STREAMON", "FMT", 0)
stop(t)  == stream[t].bufs > 0 /\ Begin(t, "stop", "STREAMOFF", "FMT", 0)

\* Mutant: drop does not stop a stream that was never started.
drop_IfActive(t) ==
  /\ stream[t].bufs > 0
  /\ Begin(t, "drop", IF stream[t].active THEN "STREAMOFF" ELSE "REQBUFS(0)", "FMT", 0)

\* The destructor of the stream, then that of its arena.
drop(t) == stream[t].bufs > 0 /\ Begin(t, "drop", "STREAMOFF", "FMT", 0)

-------------------------------------------------------------------------------
(* System calls that succeed.                                              *)

\* Mutant: what was asked for is returned without reading it back.
Set_NoReadBack(t) ==
  LET k == call[t].kind
      v == Adjusted[Request(call[t].arg)]
  IN  /\ call[t].at = "S"
      /\ (k = "FMT" => count = 0) /\ (k = "PARM" => ~on)
      /\ setting' = [setting EXCEPT ![k] = v]
      /\ inForce' = [inForce EXCEPT ![t] = {}]
      /\ Return(t, call[t].arg)
      /\ UNCHANGED << queue, stream >>

\* A format cannot change while buffers are allocated, nor parameters while
\* streaming; then the value in force is read back.
Set(t) ==
  LET k == call[t].kind
      v == Adjusted[Request(call[t].arg)]
  IN  /\ call[t].at = "S"
      /\ (k = "FMT" => count = 0) /\ (k = "PARM" => ~on)
      /\ setting' = [setting EXCEPT ![k] = v]
      /\ inForce' = [u \in Threads |->
           IF u = t THEN {v}
           ELSE IF call[u].at = "G" /\ call[u].kind = k THEN inForce[u] \cup {v}
           ELSE inForce[u]]
      /\ Proceed(t, "G", 0)
      /\ UNCHANGED << queue, stream >>

\* A thread that panics drops its stream, if it has one.
Panics(t) ==
  \/ /\ stream[t].bufs > 0
     /\ Goto(t, "drop", "STREAMOFF", "FMT", 0)
     /\ panicking' = [panicking EXCEPT ![t] = TRUE]
     /\ UNCHANGED << result, aborted >>
  \/ stream[t].bufs = 0 /\ Return(t, "panic")

\* allocate reads sizeimage only; a format with codes unknown to the crate makes
\* format and set_format panic, which has set it then.
Get(t) ==
  LET v == setting[call[t].kind]
      unknown == call[t].kind = "FMT" /\ ~Understood(Pix[v])
  IN  /\ call[t].at = "G"
      /\ \/ call[t].fn = "with_buffers" /\ Proceed(t, "REQBUFS", setting["FMT"])
         \/ call[t].fn # "with_buffers" /\ ~unknown /\ Return(t, v)
         \/ call[t].fn # "with_buffers" /\ unknown /\ Panics(t)
      /\ inForce' = [inForce EXCEPT ![t] = {}]
      /\ UNCHANGED << kernel, stream >>

\* The kernel forgets every buffer of the queue, whoever queued it; the arena
\* makes its own as long as the format was when allocate read it.
Reqbufs(t) ==
  \E granted \in 1 .. MaxBufs :
    /\ call[t].at = "REQBUFS" /\ ~on
    /\ count' = granted /\ need' = Pix[setting["FMT"]].sizeimage
    /\ held' = Empty /\ done' = {}
    /\ stream' = [stream EXCEPT ![t] =
         [bufs |-> granted, length |-> Pix[call[t].arg].sizeimage,
          active |-> FALSE, arena_index |-> 0]]
    /\ Return(t, "ok")
    /\ UNCHANGED << setting, on, inForce >>

\* The first next queues all buffers of its arena.
Qbuf(t) ==
  LET i == call[t].arg
  IN  /\ call[t].at = "QBUF" /\ i < count /\ held[i] = NoMemory /\ stream[t].length >= need
      /\ held' = [held EXCEPT ![i] = << t, i >>]
      /\ \/ stream[t].active /\ Proceed(t, "DQBUF", 0)
         \/ ~stream[t].active /\ i + 1 < stream[t].bufs /\ Proceed(t, "QBUF", i + 1)
         \/ ~stream[t].active /\ i + 1 = stream[t].bufs /\ Proceed(t, "STREAMON", 0)
      /\ UNCHANGED << setting, count, need, on, done, stream, inForce >>

\* Streaming that is on already is no error.
Streamon(t) ==
  /\ call[t].at = "STREAMON" /\ count > 0
  /\ on' = TRUE /\ stream' = [stream EXCEPT ![t].active = TRUE]
  /\ \/ call[t].fn = "start" /\ Return(t, "ok")
     \/ call[t].fn = "next" /\ Proceed(t, "DQBUF", 0)
  /\ UNCHANGED << setting, count, need, held, done, inForce >>

\* Mutant: dequeue does not look into its metadata, so no index is out of bounds.
Dqbuf_Unchecked(t) ==
  \E i \in done :
    /\ call[t].at = "DQBUF" /\ on
    /\ held' = [held EXCEPT ![i] = NoMemory] /\ done' = done \ {i}
    /\ stream' = [stream EXCEPT ![t].arena_index = i]
    /\ Return(t, "ok")
    /\ UNCHANGED << setting, count, need, on, inForce >>

\* poll and DQBUF.  An index that another stream of the device queued may lie
\* outside of buf_meta: the thread panics and drops its stream.
Dqbuf(t) ==
  \E i \in done :
    /\ call[t].at = "DQBUF" /\ on
    /\ held' = [held EXCEPT ![i] = NoMemory] /\ done' = done \ {i}
    /\ stream' = [stream EXCEPT ![t].arena_index = i]
    /\ \/ i < stream[t].bufs /\ Return(t, "ok")
       \/ i >= stream[t].bufs /\ Panics(t)
    /\ UNCHANGED << setting, count, need, on, inForce >>

\* All buffers of the queue come back, whoever queued them.
Streamoff(t) ==
  /\ call[t].at = "STREAMOFF"
  /\ on' = FALSE /\ held' = Empty /\ done' = {}
  /\ \/ /\ call[t].fn = "stop" /\ Return(t, "ok")
        /\ stream' = [stream EXCEPT ![t].active = FALSE]
     \/ /\ call[t].fn = "drop" /\ Proceed(t, "REQBUFS(0)", 0)
        /\ UNCHANGED stream
  /\ UNCHANGED << setting, count, need, inForce >>

Release(t) ==
  /\ call[t].at = "REQBUFS(0)" /\ ~on
  /\ count' = 0 /\ need' = 0 /\ held' = Empty /\ done' = {}
  /\ Return(t, IF panicking[t] THEN "panic" ELSE "ok")
  /\ stream' = [stream EXCEPT ![t] = NoStream]
  /\ UNCHANGED << setting, on, inForce >>

-------------------------------------------------------------------------------
(* System calls that fail.                                                 *)

\* Mutant: the destructor of an arena releases also what it never got.
CallFails_ReleasesAnyway(t) ==
  /\ call[t].at # "app" /\ call[t].fn # "drop"
  /\ \/ /\ call[t].at = "REQBUFS" /\ Proceed(t, "REQBUFS(0)", 0)
        /\ UNCHANGED inForce
     \/ /\ call[t].at # "REQBUFS" /\ Return(t, "err")
        /\ inForce' = [inForce EXCEPT ![t] = {}]
  /\ UNCHANGED << kernel, stream >>

\* The error is returned; the arena of a stream that is not built is empty, so
\* that its destructor does nothing.
CallFails(t) ==
  /\ call[t].at # "app" /\ call[t].fn # "drop" /\ Return(t, "err")
  /\ inForce' = [inForce EXCEPT ![t] = {}]
  /\ UNCHANGED << kernel, stream >>

\* Both destructors take ENODEV for success.
DropFindsNoDevice(t) ==
  /\ call[t].fn = "drop" /\ ~plugged
  /\ \/ call[t].at = "STREAMOFF" /\ Proceed(t, "REQBUFS(0)", 0) /\ UNCHANGED stream
     \/ /\ call[t].at = "REQBUFS(0)" /\ Return(t, IF panicking[t] THEN "panic" ELSE "ok")
        /\ stream' = [stream EXCEPT ![t] = NoStream]
  /\ UNCHANGED << kernel, inForce >>

\* Otherwise they panic: the first time the fields are dropped nonetheless, the
\* second time the process ends.
DropFails(t) ==
  /\ call[t].fn = "drop" /\ plugged
  /\ \/ /\ panicking[t] /\ aborted' = TRUE
        /\ UNCHANGED << call, result, panicking, stream >>
     \/ /\ ~panicking[t] /\ call[t].at = "STREAMOFF"
        /\ Goto(t, "drop", "REQBUFS(0)", "FMT", 0)
        /\ panicking' = [panicking EXCEPT ![t] = TRUE]
        /\ UNCHANGED << result, stream, aborted >>
     \/ /\ ~panicking[t] /\ call[t].at = "REQBUFS(0)" /\ Return(t, "panic")
        /\ stream' = [stream EXCEPT ![t] = NoStream]
  /\ UNCHANGED << kernel, inForce >>

-------------------------------------------------------------------------------
DriverFills ==
  /\ \E i \in Indices \ done : on /\ held[i] # NoMemory /\ done' = done \cup {i}
  /\ UNCHANGED << setting, count, need, on, held, call, result, panicking, stream,
                  aborted, inForce >>

ApiCall(t) ==
  \/ \E k \in Settings : read(t, k) \/ \E v \in Values : modify(t, k, v)
  \/ with_buffers(t) \/ next(t) \/ start(t) \/ stop(t) \/ drop(t)

SyscallStep(t) ==
  \/ /\ plugged
     /\ \/ Set(t) \/ Get(t) \/ Reqbufs(t) \/ Qbuf(t) \/ Streamon(t) \/ Dqbuf(t)
        \/ Streamoff(t) \/ Release(t)
  \/ CallFails(t) \/ DropFails(t) \/ DropFindsNoDevice(t)

Step == DriverFills \/ \E t \in Threads : ApiCall(t) \/ SyscallStep(t)

\* A device that is gone writes to no memory any more.
Unplug ==
  /\ plugged /\ plugged' = FALSE
  /\ on' = FALSE /\ held' = Empty /\ done' = {}
  /\ UNCHANGED << setting, count, need, call, result, panicking, stream, aborted, inForce >>

Next == ~aborted /\ (Unplug \/ (Step /\ UNCHANGED plugged))

Spec == Init /\ [][Next]_vars

-------------------------------------------------------------------------------
(* Properties.                                                             *)

\* Memory the driver may write to belongs to a stream that still exists and is as
\* long as the driver needs it, although threads change the format while others
\* build streams, stop each other's streaming, take each other's buffers, and
\* drops panic (userptr/stream.rs:92-108, 143-162; userptr/arena.rs:44-87).
DriverHoldsLiveMemory ==
  \A i \in Indices, t \in Threads, j \in Indices :
    held[i] = << t, j >> => j < stream[t].bufs /\ need <= stream[t].length

\* A thread that fails to build a stream leaves the queue, which may be that of
\* another stream, as it was (userptr/stream.rs:51-53, userptr/arena.rs:105-110).
FailedConstructionHarmless ==
  [][ \A t \in Threads :
        call[t].fn = "with_buffers" /\ call'[t] # call[t] /\ queue' # queue
        => stream'[t].bufs > 0 ]_vars

\* The value a call returns was in force at some moment after it set one, or,
\* for a call that only reads, after it began: with nobody else changing it, the
\* adjusted value itself (video/macros.rs:130-168, video/capture/mod.rs:24-57).
ReportsActualValue ==
  [][ \A t \in Threads :
        call[t].fn \in {"read", "modify"} /\ call'[t] # call[t] /\ result'[t] \in Values
        /\ call'[t].at = "app"
        => Seen(result'[t]) \in {Seen(v) : v \in inForce[t]} ]_vars

===============================================================================
