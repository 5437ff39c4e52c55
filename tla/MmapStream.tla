------------------------------ MODULE MmapStream ------------------------------
(***************************************************************************)
(* The memory-mapped buffer stream of src/io/mmap/stream.rs: the fields of *)
(* struct Stream, its private helpers, and the system calls they issue     *)
(* against the buffer queue of the kernel (VideoQueue).                    *)
(*                                                                         *)
(* One step is one attempt at a system call together with the bookkeeping  *)
(* the code does before it issues the next one.  Between two attempts the  *)
(* driver may complete buffers, the clock may advance and the device may   *)
(* be unplugged; any attempt may be interrupted (EINTR).                   *)
(*                                                                         *)
(* MmapCapture and MmapOutput add the public calls of the two stream       *)
(* traits.  Both EXTEND this module.                                       *)
(***************************************************************************)
EXTENDS VideoQueue

CONSTANTS
  Timeouts,    \* the values the application passes to set_timeout, in ticks
  Faults,      \* errnos with which the driver may refuse an ioctl, to no effect
  RetriesMod   \* interrupted_wait_retries is kept modulo this bound

NoBuf    == -1                  \* no buffer is lent to the application
Infinite == -1                  \* Option::None for a timeout or a deadline

ASSUME TimeoutsAssumption == Timeouts \subseteq Nat
ASSUME RetriesAssumption  == RetriesMod \in Nat \ {0}
\* EINVAL and EAGAIN are the kernel's own words for a call that makes no sense,
\* or for a buffer that is not there.
ASSUME FaultsAssumption   == Faults \cap {"EINVAL", "EAGAIN"} = {}

-------------------------------------------------------------------------------
VARIABLES
  (* struct Stream *)
  buffer_queued,
  capture_initial_queue_index,
  arena_index,
  buf_meta,                      \* metadata, as the frame it describes
  timeout,
  active,
  (* the public call in progress and the locals it carries *)
  fn,                            \* the call, "none" between two calls
  at,                            \* the system call it attempts next
  index,                         \* the buffer that attempt is about
  deadline,                      \* ticks left before Deadline::expired
  retries,                       \* StreamNextStats::interrupted_wait_retries
  (* what the application has of the last call *)
  result,
  lent,                          \* the buffer it holds a reference to
  onlyNext                       \* it never calls queue, dequeue and start

stream  == << buffer_queued, capture_initial_queue_index, arena_index,
              buf_meta, active >>
queues  == << buffer_queued, capture_initial_queue_index >>
call    == << fn, at, index, deadline, retries >>
app     == << result, lent >>
vars    == << stream, timeout, call, app, driver, onlyNext >>

Syscalls == {"POLL", "QBUF", "DQBUF", "STREAMON", "STREAMOFF"}
Errnos   == {"TimedOut", "EAGAIN", "EINVAL", "ENODEV"} \cup Faults

TypeOK ==
  /\ buffer_queued \in [Bufs -> BOOLEAN]
  /\ capture_initial_queue_index \in 0 .. NumBufs
  /\ arena_index \in Bufs
  /\ buf_meta \in [Bufs -> Frames \cup {Blank}]
  /\ timeout \in Timeouts \cup {Infinite}
  /\ active \in BOOLEAN
  /\ fn \in {"none", "next", "queue", "dequeue", "start", "stop"}
  /\ at \in Syscalls \cup {"app"}
  /\ index \in 0 .. NumBufs
  /\ deadline \in Nat \cup {Infinite}
  /\ retries \in 0 .. RetriesMod - 1
  /\ result \in {"none", "ok", "panic"} \cup Errnos
  /\ lent \in Bufs \cup {NoBuf}
  /\ onlyNext \in BOOLEAN
  /\ QueueTypeOK

\* Stream::with_buffers, once the arena has mapped NumBufs buffers.
Init ==
  /\ buffer_queued = [i \in Bufs |-> FALSE]
  /\ capture_initial_queue_index = 0
  /\ arena_index = 0
  /\ buf_meta = [i \in Bufs |-> Blank]
  /\ timeout = Infinite
  /\ active = FALSE
  /\ fn = "none" /\ at = "app" /\ index = 0
  /\ deadline = Infinite /\ retries = 0
  /\ result = "none" /\ lent = NoBuf /\ onlyNext \in BOOLEAN
  /\ QueueInit

-------------------------------------------------------------------------------
(* The private helpers of Stream.                                          *)

\* Mutant: the cursor advances whatever it points at.
FirstUnqueued_Unchecked(bq, c) == c + 1

\* Where the while loops of mark_queued and ensure_capture_started_until stop:
\* the first buffer at or after c that is not queued, NumBufs if none is left.
FirstUnqueued(bq, c) ==
  CHOOSE j \in c .. NumBufs :
    /\ j < NumBufs => ~bq[j]
    /\ \A k \in c .. j - 1 : bq[k]

mark_queued(i) ==
  /\ buffer_queued' = [buffer_queued EXCEPT ![i] = TRUE]
  /\ capture_initial_queue_index' =
       FirstUnqueued([buffer_queued EXCEPT ![i] = TRUE],
                     capture_initial_queue_index)

\* Mutant: the index the kernel returned is not kept.
mark_dequeued_ForgetsIndex(i) ==
  /\ buffer_queued' = [buffer_queued EXCEPT ![i] = FALSE]
  /\ UNCHANGED arena_index

\* Mutant: the buffer stays marked as queued.
mark_dequeued_KeepsFlag(i) == arena_index' = i /\ UNCHANGED buffer_queued

mark_dequeued(i) ==
  /\ buffer_queued' = [buffer_queued EXCEPT ![i] = FALSE]
  /\ arena_index' = i

\* Mutant: stopping leaves the flags of the buffers the kernel took back.
reset_buffer_state_KeepsFlags ==
  /\ capture_initial_queue_index' = 0
  /\ arena_index' = 0
  /\ UNCHANGED buffer_queued

\* Mutant: stopping leaves the startup cursor behind.
reset_buffer_state_KeepsCursor ==
  /\ buffer_queued' = [i \in Bufs |-> FALSE]
  /\ arena_index' = 0
  /\ UNCHANGED capture_initial_queue_index

reset_buffer_state ==
  /\ buffer_queued' = [i \in Bufs |-> FALSE]
  /\ capture_initial_queue_index' = 0
  /\ arena_index' = 0

-------------------------------------------------------------------------------
(* Public calls: how one begins, goes on to its next system call, returns. *)

\* A call takes &mut self, so the application has given up the reference it
\* held; the deadline is computed once, from the timeout.
Begin(f, syscall, i) ==
  /\ at = "app"
  /\ fn' = f /\ at' = syscall /\ index' = i
  /\ deadline' = timeout
  /\ lent' = NoBuf
  /\ UNCHANGED << timeout, retries, result >>

\* The call goes on to another system call, within the same deadline.
Proceed(syscall, i) ==
  /\ at' = syscall /\ index' = i
  /\ UNCHANGED << fn, deadline, retries, timeout, result, lent >>

\* The call returns r, lending buffer i (or none) to the application.
Return(r, i) ==
  /\ fn' = "none" /\ at' = "app" /\ index' = 0
  /\ deadline' = Infinite /\ retries' = 0
  /\ result' = r /\ lent' = i
  /\ UNCHANGED timeout

\* The `?` after a system call: the error ends the public call.
Fail(e) == Return(e, NoBuf) /\ UNCHANGED << stream, driver >>

start == Begin("start", "STREAMON", 0) /\ UNCHANGED << stream, driver >>

stop  == Begin("stop", "STREAMOFF", 0) /\ UNCHANGED << stream, driver >>

\* set_timeout and clear_timeout take &mut self but call nothing.
set_timeout(t) ==
  /\ at = "app"
  /\ timeout' = t
  /\ lent' = NoBuf
  /\ UNCHANGED << stream, call, result, driver >>

-------------------------------------------------------------------------------
(* The outcomes of a system call that are common to all of them.           *)

\* Mutant: EINTR retries without looking at the deadline.
Interrupted_Forever ==
  /\ at \in Syscalls
  /\ retries' = (retries + 1) % RetriesMod
  /\ UNCHANGED << stream, timeout, fn, at, index, deadline, app, driver >>

\* EINTR: ioctl_until and poll_until try again unless the deadline has passed.
Interrupted ==
  /\ at \in Syscalls
  /\ \/ deadline = 0 /\ Fail("TimedOut")
     \/ /\ deadline # 0
        /\ retries' = (retries + 1) % RetriesMod
        /\ UNCHANGED << stream, timeout, fn, at, index, deadline, app, driver >>

\* A device that is gone refuses every ioctl; poll reports it as an event.
Refused ==
  /\ at \in Syscalls
  /\ \/ ~plugged /\ at # "POLL" /\ Fail("ENODEV")
     \/ \E e \in Faults : Fail(e)

PollTimesOut ==
  /\ at = "POLL" /\ deadline = 0 /\ ~Ready
  /\ Fail("TimedOut")

(* The ioctls: what the kernel does, and the bookkeeping that follows.     *)

QbufInvalid == at = "QBUF" /\ Refuses(index) /\ Fail("EINVAL")

QbufAccepts ==
  /\ at = "QBUF" /\ Takes(index)
  /\ mark_queued(index)
  /\ UNCHANGED << arena_index, buf_meta, active >>

DqbufEmpty ==
  /\ at = "DQBUF"
  /\ \/ IsOff /\ Fail("EINVAL")
     \/ HasNone /\ Fail("EAGAIN")

\* Mutant: the metadata of the buffer's last round is kept.
DqbufReturns_StaleMeta(i) ==
  /\ at = "DQBUF" /\ GivesBack(i)
  /\ mark_dequeued(i)
  /\ UNCHANGED << capture_initial_queue_index, buf_meta, active >>

DqbufReturns(i) ==
  /\ at = "DQBUF" /\ GivesBack(i)
  /\ mark_dequeued(i)
  /\ buf_meta' = [buf_meta EXCEPT ![i] = content[i]]
  /\ UNCHANGED << capture_initial_queue_index, active >>

\* Mutant: next reads arena_index before the dequeue updates it.
Dqbuf_OldIndex ==
  \E i \in Bufs :
    /\ DqbufReturns(i)
    /\ \/ fn = "dequeue" /\ Return("ok", NoBuf)
       \/ fn = "next" /\ Return("ok", arena_index)

\* dequeue returns an index, next a reference to the buffer it dequeued.
Dqbuf ==
  \E i \in Bufs :
    /\ DqbufReturns(i)
    /\ \/ fn = "dequeue" /\ Return("ok", NoBuf)
       \/ fn = "next" /\ Return("ok", i)

StreamonAccepts ==
  /\ at = "STREAMON" /\ TurnsOn
  /\ active' = TRUE
  /\ UNCHANGED << queues, arena_index, buf_meta >>

StreamoffAccepts ==
  /\ at = "STREAMOFF" /\ TurnsOff
  /\ active' = FALSE
  /\ reset_buffer_state
  /\ Return("ok", NoBuf)
  /\ UNCHANGED buf_meta

-------------------------------------------------------------------------------
(* The environment.                                                        *)

Tick ==
  /\ at \in Syscalls /\ deadline > 0
  /\ deadline' = deadline - 1
  /\ UNCHANGED << stream, timeout, fn, at, index, retries, app, driver >>

Unplug == Disappears /\ UNCHANGED << stream, timeout, call, app >>

\* An application keeps to its ways.
Steady == UNCHANGED onlyNext

-------------------------------------------------------------------------------
(* Properties of both directions.                                          *)

\* buffer_queued and active say what the kernel's queue holds and does, after
\* any mix of calls, errors, interruptions and timeouts: true means handed to
\* the driver with QBUF and not yet returned by DQBUF (stream.rs:20-21).
BookkeepingMatchesKernel ==
  /\ \A i \in Bufs : buffer_queued[i] <=> DriverOwns(i)
  /\ active <=> streaming

\* The bytes and the metadata next lends are those of one frame, and the driver
\* cannot write to them: the buffer is out of its queue (stream.rs:323-327,
\* 445-449).
LentIsStable ==
  lent # NoBuf => ~DriverOwns(lent) /\ content[lent] = buf_meta[lent]

\* next never queues a buffer the driver has (stream.rs:20-21), in the startup
\* loop resumed after an error as in the running stream, for capture and output.
NextNeverRequeues == fn = "next" /\ at = "QBUF" => ~DriverOwns(index)

\* A call with a timeout returns, even if every attempt at a system call is
\* interrupted (ioctl_until and poll_until check the deadline on EINTR).
TimedCallReturns == (at # "app" /\ deadline # Infinite) ~> at = "app"

===============================================================================
