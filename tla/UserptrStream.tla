----------------------------- MODULE UserptrStream -----------------------------
(***************************************************************************)
(* The user-pointer stream of src/io/userptr/stream.rs.  It captures into  *)
(* memory of its own and, unlike the memory-mapped stream, neither tracks  *)
(* which buffers it queued nor retries a system call that a signal         *)
(* interrupted: every error goes to the application at once.               *)
(*                                                                         *)
(* One step is one system call with what the code does until the next one. *)
(***************************************************************************)
EXTENDS VideoQueue

CONSTANTS
  Timeouts,    \* the values the application passes to set_timeout, in ticks
  Faults       \* errnos with which the driver may refuse an ioctl, to no effect

NoBuf    == -1                  \* no buffer is lent to the application
Infinite == -1                  \* Option::None for a timeout

ASSUME TimeoutsAssumption == Timeouts \subseteq Nat
ASSUME FaultsAssumption   == Faults \cap {"none", "ok", "EINVAL"} = {}

VARIABLES
  (* struct Stream *)
  arena_index, buf_meta, timeout, active,
  (* the public call in progress *)
  fn,          \* the call, "none" between two calls
  at,          \* the system call it makes next
  index,       \* the buffer of a QBUF: the loop variable of next, or queue's
  left,        \* ticks left of the timeout given to poll
  (* what the application has of the last call *)
  result, lent,
  onlyNext     \* it never calls queue, dequeue and start

stream == << arena_index, buf_meta, active >>
call   == << fn, at, index, left >>
app    == << result, lent >>
vars   == << stream, timeout, call, app, driver, onlyNext >>

Syscalls == {"POLL", "QBUF", "DQBUF", "STREAMON", "STREAMOFF"}
Errnos   == {"TimedOut", "EINTR", "EAGAIN", "EINVAL", "ENODEV"} \cup Faults

TypeOK ==
  /\ arena_index \in Bufs
  /\ buf_meta \in [Bufs -> Frames \cup {Blank}]
  /\ timeout \in Timeouts \cup {Infinite}
  /\ active \in BOOLEAN
  /\ fn \in {"none", "next", "queue", "dequeue", "start", "stop"}
  /\ at \in Syscalls \cup {"app"}
  /\ index \in Bufs
  /\ left \in Nat \cup {Infinite}
  /\ result \in {"none", "ok", "panic"} \cup Errnos
  /\ lent \in Bufs \cup {NoBuf}
  /\ onlyNext \in BOOLEAN
  /\ QueueTypeOK

\* Stream::with_buffers, once the arena has NumBufs buffers.
Init ==
  /\ arena_index = 0
  /\ buf_meta = [i \in Bufs |-> Blank]
  /\ timeout = Infinite /\ active = FALSE
  /\ fn = "none" /\ at = "app" /\ index = 0 /\ left = Infinite
  /\ result = "none" /\ lent = NoBuf /\ onlyNext \in BOOLEAN
  /\ QueueInit

-------------------------------------------------------------------------------
(* How a public call begins, goes on to its next system call, returns.     *)

\* poll is given the whole timeout, whatever the call has spent already.
Attempt(syscall, i) ==
  /\ at' = syscall /\ index' = i
  /\ left' = (IF syscall = "POLL" THEN timeout ELSE Infinite)
  /\ UNCHANGED << timeout, result >>

Begin(f, syscall, i) ==
  /\ at = "app" /\ fn' = f /\ lent' = NoBuf
  /\ Attempt(syscall, i)

Proceed(syscall, i) == Attempt(syscall, i) /\ UNCHANGED << fn, lent >>

Return(r, i) ==
  /\ fn' = "none" /\ at' = "app" /\ index' = 0 /\ left' = Infinite
  /\ result' = r /\ lent' = i
  /\ UNCHANGED timeout

Fail(e) == Return(e, NoBuf) /\ UNCHANGED << stream, driver >>

-------------------------------------------------------------------------------
(* The public calls.                                                       *)

\* The first next queues buffers 0, 1, ... and starts the stream.
next ==
  /\ \/ ~active /\ Begin("next", "QBUF", 0)
     \/ active /\ Begin("next", "QBUF", arena_index)
  /\ UNCHANGED << stream, driver >>

queue(i) ==
  /\ \/ i \in Bufs /\ Begin("queue", "QBUF", i)
     \/ i \notin Bufs /\ at = "app" /\ Return("panic", NoBuf)
  /\ UNCHANGED << stream, driver >>

dequeue == Begin("dequeue", "POLL", 0) /\ UNCHANGED << stream, driver >>

start == Begin("start", "STREAMON", 0) /\ UNCHANGED << stream, driver >>

stop  == Begin("stop", "STREAMOFF", 0) /\ UNCHANGED << stream, driver >>

set_timeout(t) ==
  /\ at = "app"
  /\ timeout' = t /\ lent' = NoBuf
  /\ UNCHANGED << stream, call, result, driver >>

-------------------------------------------------------------------------------
(* What follows a system call.                                             *)

\* Mutant: the loop runs past the last buffer.
Startup_OneTooMany ==
  \/ index + 1 <= NumBufs /\ Proceed("QBUF", index + 1)
  \/ index = NumBufs /\ Proceed("STREAMON", 0)

\* The loop of next over all buffers.
Startup ==
  \/ index + 1 < NumBufs /\ Proceed("QBUF", index + 1)
  \/ index + 1 = NumBufs /\ Proceed("STREAMON", 0)

Qbuf ==
  /\ at = "QBUF" /\ Takes(index)
  /\ \/ fn = "queue" /\ Return("ok", NoBuf)
     \/ fn = "next" /\ active /\ Proceed("POLL", 0)
     \/ fn = "next" /\ ~active /\ Startup
  /\ UNCHANGED stream

Streamon ==
  /\ at = "STREAMON" /\ TurnsOn
  /\ active' = TRUE
  /\ \/ fn = "start" /\ Return("ok", NoBuf)
     \/ fn = "next" /\ Proceed("POLL", 0)
  /\ UNCHANGED << arena_index, buf_meta >>

PollReady ==
  /\ at = "POLL" /\ (Ready \/ incoming = {})
  /\ Proceed("DQBUF", 0)
  /\ UNCHANGED << stream, driver >>

PollTimesOut == at = "POLL" /\ left = 0 /\ ~Ready /\ Fail("TimedOut")

\* Mutant: the metadata goes to the buffer of the round before.
Dqbuf_OldMeta ==
  \E i \in Bufs :
    /\ at = "DQBUF" /\ GivesBack(i)
    /\ arena_index' = i
    /\ buf_meta' = [buf_meta EXCEPT ![arena_index] = content[i]]
    /\ \/ fn = "dequeue" /\ Return("ok", NoBuf)
       \/ fn = "next" /\ Return("ok", i)
    /\ UNCHANGED active

\* Mutant: next lends the buffer it lent before.
Dqbuf_OldIndex ==
  \E i \in Bufs :
    /\ at = "DQBUF" /\ GivesBack(i)
    /\ buf_meta' = [buf_meta EXCEPT ![i] = content[i]]
    /\ \/ fn = "dequeue" /\ Return("ok", NoBuf)
       \/ fn = "next" /\ Return("ok", arena_index)
    /\ UNCHANGED << active, arena_index >>

Dqbuf ==
  \E i \in Bufs :
    /\ at = "DQBUF" /\ GivesBack(i)
    /\ arena_index' = i
    /\ buf_meta' = [buf_meta EXCEPT ![i] = content[i]]
    /\ \/ fn = "dequeue" /\ Return("ok", NoBuf)
       \/ fn = "next" /\ Return("ok", i)
    /\ UNCHANGED active

\* Mutant: the stream thinks it still runs.
Streamoff_StaysActive ==
  /\ at = "STREAMOFF" /\ TurnsOff
  /\ Return("ok", NoBuf)
  /\ UNCHANGED stream

Streamoff ==
  /\ at = "STREAMOFF" /\ TurnsOff
  /\ active' = FALSE
  /\ Return("ok", NoBuf)
  /\ UNCHANGED << arena_index, buf_meta >>

\* Every error is propagated: EINTR, what the kernel refuses, a device gone.
Interrupted == at \in Syscalls /\ Fail("EINTR")

QbufInvalid == at = "QBUF" /\ Refuses(index) /\ Fail("EINVAL")

DqbufEmpty ==
  /\ at = "DQBUF"
  /\ \/ IsOff /\ Fail("EINVAL")
     \/ HasNone /\ Fail("EAGAIN")

Refused ==
  /\ at \in Syscalls
  /\ \/ ~plugged /\ at # "POLL" /\ Fail("ENODEV")
     \/ \E e \in Faults : Fail(e)

-------------------------------------------------------------------------------
DriverFills == Fills /\ UNCHANGED << stream, timeout, call, app >>

Tick ==
  /\ left > 0 /\ left' = left - 1
  /\ UNCHANGED << stream, timeout, fn, at, index, app, driver >>

Unplug == Disappears /\ UNCHANGED << stream, timeout, call, app >>

SyscallStep ==
  \/ PollReady \/ PollTimesOut
  \/ Qbuf \/ QbufInvalid
  \/ Dqbuf \/ DqbufEmpty
  \/ Streamon \/ Streamoff
  \/ Interrupted \/ Refused

Environment == DriverFills \/ Tick \/ Unplug

\* An application calls next and stop, or anything in any order.
ApiCall ==
  \/ next \/ stop
  \/ \E t \in Timeouts \cup {Infinite} : set_timeout(t)
  \/ ~onlyNext /\ (dequeue \/ start \/ \E i \in 0 .. NumBufs : queue(i))

Next == (ApiCall \/ SyscallStep \/ Environment) /\ UNCHANGED onlyNext

Spec == Init /\ [][Next]_vars

-------------------------------------------------------------------------------
(* Properties.                                                             *)

\* The bytes and metadata next lends are those of one frame, and the driver
\* cannot write to them, whatever calls were made or failed (userptr/stream.rs:
\* 181-191, 206-212).
LentIsStable ==
  lent # NoBuf => ~DriverOwns(lent) /\ content[lent] = buf_meta[lent]

\* For an application that only calls next and stop: next asks the kernel for
\* something illegal only when the call before it failed, so that a stop that
\* succeeds always makes the stream usable again (userptr/stream.rs:195-204).
EinvalOnlyAfterFailure ==
  [][ onlyNext /\ at # "app" /\ at' = "app" /\ result' = "EINVAL"
      => result \notin {"none", "ok"} ]_vars

\* For the same application: frames arrive in the order the device filled them,
\* none lost and none repeated, although any call may fail.
Garbage == << Blank >>
None    == << >>
View ==
  IF lent = NoBuf \/ ~onlyNext THEN None
  ELSE IF content[lent] = buf_meta[lent] THEN content[lent] ELSE Garbage

Source == INSTANCE FrameSource
            WITH Capacity <- NumBufs, on <- onlyNext /\ streaming, view <- View,
                 ready <- IF ~onlyNext THEN << >>
                          ELSE [k \in 1 .. Len(outgoing) |-> content[outgoing[k]]]

ImplementsFrameSource == Source!Spec

===============================================================================
