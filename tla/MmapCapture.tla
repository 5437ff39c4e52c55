------------------------------ MODULE MmapCapture ------------------------------
(***************************************************************************)
(* The capture side of src/io/mmap/stream.rs: impl CaptureStream for       *)
(* Stream, with next_with_stats and ensure_capture_started_until, and a    *)
(* driver that fills the buffers it owns.                                  *)
(***************************************************************************)
EXTENDS MmapStream

\* Mutant: the startup loop stops one buffer short.
StartupCall_OneShort(c) == IF c < NumBufs - 1 THEN "QBUF" ELSE "STREAMON"

\* ensure_capture_started_until from cursor c on: the queueing loop issues a
\* QBUF for the next unqueued buffer, and STREAMON when every buffer is queued.
StartupCall(c)  == IF c < NumBufs THEN "QBUF" ELSE "STREAMON"
StartupIndex(c) == IF c < NumBufs THEN c ELSE 0

-------------------------------------------------------------------------------
(* The public calls.                                                       *)

\* next and next_with_stats on a stream that is not active.
NextStarting ==
  LET c == FirstUnqueued(buffer_queued, capture_initial_queue_index) IN
  /\ ~active
  /\ capture_initial_queue_index' = c
  /\ Begin("next", StartupCall(c), StartupIndex(c))
  /\ UNCHANGED << buffer_queued, arena_index, buf_meta, active, driver >>

\* Mutant: the lent buffer is queued again without asking buffer_queued.
NextRunning_AlwaysQueues ==
  /\ active
  /\ Begin("next", "QBUF", arena_index)
  /\ UNCHANGED << stream, driver >>

\* ... on an active stream: hand back the buffer lent last, then wait.
NextRunning ==
  /\ active
  /\ \/ ~buffer_queued[arena_index] /\ Begin("next", "QBUF", arena_index)
     \/ buffer_queued[arena_index] /\ Begin("next", "POLL", 0)
  /\ UNCHANGED << stream, driver >>

next == NextStarting \/ NextRunning

\* CaptureStream::queue takes any index and does not look at buffer_queued.
queue(i) == Begin("queue", "QBUF", i) /\ UNCHANGED << stream, driver >>

dequeue == Begin("dequeue", "POLL", 0) /\ UNCHANGED << stream, driver >>

-------------------------------------------------------------------------------
(* What follows a system call that succeeds.                               *)

Qbuf ==
  /\ QbufAccepts
  /\ \/ fn = "queue" /\ Return("ok", NoBuf)
     \/ fn = "next" /\ active /\ Proceed("POLL", 0)
     \/ /\ fn = "next" /\ ~active
        /\ Proceed(StartupCall(capture_initial_queue_index'),
                   StartupIndex(capture_initial_queue_index'))

Streamon ==
  /\ StreamonAccepts
  /\ \/ fn = "start" /\ Return("ok", NoBuf)
     \/ fn = "next" /\ Proceed("POLL", 0)

\* Some drivers also raise POLLERR while they have no buffer at all.
MayBeReadable == Ready \/ incoming = {}

PollReady ==
  /\ at = "POLL" /\ MayBeReadable
  /\ Proceed("DQBUF", 0)
  /\ UNCHANGED << stream, driver >>

-------------------------------------------------------------------------------
DriverFills == Fills /\ UNCHANGED << stream, timeout, call, app >>

SyscallStep ==
  \/ PollReady \/ PollTimesOut
  \/ Qbuf \/ QbufInvalid
  \/ Dqbuf \/ DqbufEmpty
  \/ Streamon \/ StreamoffAccepts
  \/ Interrupted \/ Refused

Environment == DriverFills \/ Tick \/ Unplug

\* An application calls next and stop, as the crate's examples do, or anything
\* in any order.
ApiCall ==
  \/ next \/ stop
  \/ \E t \in Timeouts \cup {Infinite} : set_timeout(t)
  \/ ~onlyNext /\ (dequeue \/ start \/ \E i \in 0 .. NumBufs : queue(i))

Next == (ApiCall \/ SyscallStep \/ Environment) /\ Steady

Spec == Init /\ [][Next]_vars

-------------------------------------------------------------------------------
(* Fairness.                                                               *)

\* The thread is scheduled and the clock runs, nothing more: poll need not
\* wake before it has a reason to, and every attempt may be interrupted.
Wakes == (at = "POLL" => Ready \/ deadline = 0) /\ SyscallStep

FairSpec == Spec /\ WF_vars(Wakes /\ Steady) /\ WF_vars(Tick /\ Steady)

\* An application that keeps asking for frames from a device that stays
\* plugged and keeps filling buffers.  Signals may interrupt any number of
\* attempts, but not every attempt at a system call that could succeed.
Delivery ==
  /\ [](plugged /\ onlyNext) /\ <>[](fn # "stop")
  /\ WF_vars(next /\ Steady) /\ WF_vars(DriverFills /\ Steady)
  /\ SF_vars(PollReady /\ Steady) /\ SF_vars(Qbuf /\ Steady)
  /\ SF_vars(Dqbuf /\ Steady) /\ SF_vars(Streamon /\ Steady)

-------------------------------------------------------------------------------
(* Properties of every use of the API.                                     *)

\* Startup queueing resumes where an earlier call left it (stream.rs:23-25):
\* before the stream is active the cursor is exactly the first buffer that is
\* not queued, whatever next, queue and stop calls failed or succeeded before.
CursorExact ==
  ~active =>
    /\ \A j \in 0 .. capture_initial_queue_index - 1 : buffer_queued[j]
    /\ capture_initial_queue_index < NumBufs =>
         ~buffer_queued[capture_initial_queue_index]

\* next turns streaming on only once the driver has every buffer
\* (ensure_capture_started_until, stream.rs:300-309).
StartupComplete ==
  fn = "next" /\ at = "STREAMON" => \A i \in Bufs : DriverOwns(i)

-------------------------------------------------------------------------------
(* Properties of the application that only calls next (and stop).          *)

\* No buffer leaks out of circulation: a running stream leaves at most the
\* lent buffer outside the driver's queues, and waits with all of them in.
PipelineFull ==
  onlyNext /\ active =>
    /\ \A i \in Bufs : DriverOwns(i) \/ i = arena_index
    /\ at = "POLL" => \A i \in Bufs : DriverOwns(i)

\* next never asks the kernel for something illegal or for a buffer that is not
\* there: a retry after any error is as good as the first call.
NextNeverMisusesKernel == onlyNext => result \notin {"EINVAL", "EAGAIN"}

\* The stream is a source of frames, in order, none lost and none repeated.
Garbage == << Blank >>
None    == << >>
View ==
  IF lent = NoBuf \/ ~onlyNext THEN None
  ELSE IF content[lent] = buf_meta[lent] THEN content[lent] ELSE Garbage

Source == INSTANCE FrameSource
            WITH Capacity <- NumBufs, on <- onlyNext /\ streaming, view <- View,
                 ready <- IF ~onlyNext THEN << >>
                          ELSE [k \in 1 .. Len(outgoing) |-> content[outgoing[k]]]

ImplementsFrameSource == Source!Spec

\* Frames keep coming: the application gets one again and again.
FramesKeepComing == Delivery => []<>(lent # NoBuf)

===============================================================================
