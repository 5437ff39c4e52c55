# Verification of libv4l-rs

`v4l` is a safe Rust layer over Linux video devices (V4L2). Its streams hand
buffers back and forth between an application and a driver through system calls
that fail, time out and are interrupted, and they lend the application plain
references into memory that the device writes. This directory holds TLA+ models
of that code, the TLC runs that check them, and TLAPS proofs about them.

Paths below are relative to the crate (`src/` is its source directory).

## 1. The system

| Part | Source | State it keeps | Operations |
|---|---|---|---|
| Memory-mapped stream | `src/io/mmap/stream.rs` | `buffer_queued`, `capture_initial_queue_index`, `arena_index`, `buf_meta`, `timeout`, `active` | `next`, `next_with_stats`, `queue`, `dequeue` for capture and for output; `start`, `stop`, `set_timeout`, `clear_timeout`, drop |
| Deadline | `src/io/mmap/stream.rs:331-363` | `expires_at` | `from_timeout`, `poll_timeout`, `expired` |
| Memory-mapped arena | `src/io/mmap/arena.rs` | the mapped slices | `allocate`, `release`, drop |
| User-pointer stream | `src/io/userptr/stream.rs` | `arena_index`, `buf_meta`, `timeout`, `active` | the same calls, capture only |
| User-pointer arena | `src/io/userptr/arena.rs` | vectors the device writes into | `allocate`, `release`, drop |
| Device and Handle | `src/device.rs` | one descriptor in an `Arc<Handle>` | open, `handle`, `poll`, close on the last drop |
| Controls | `src/device.rs`, `src/control.rs` | none; the driver's | `query_controls`, `control`, `set_control(s)` |
| Formats, parameters | `src/video/` | none; the driver's | `enum_*`, `format`, `set_format`, `params`, `set_params` |
| Data types | `src/format/`, `src/fraction.rs`, `src/framesize.rs`, ... | none | conversions from and to the C structures, `to_discrete` |
| System call wrappers | `src/v4l2/` | none | `open`, `close`, `ioctl`, `mmap`, `munmap` |
| Discovery | `src/context.rs` | none | listing of `/dev` |
| Forwarding | `examples/stream_forward_mmap.rs` | two streams in lockstep | the program that copies frames from one device to another |

How they interact. A `Stream` is built from a `Device` and shares its handle; the
arena inside it holds the handle a third time, and whoever drops the last one
closes the descriptor. A stream talks to the kernel only: `REQBUFS`, `QUERYBUF`
and `mmap` when it is built; `QBUF`, `STREAMON`, `poll` and `DQBUF` while it
runs; `STREAMOFF`, `munmap` and `REQBUFS(0)` when it is dropped. The driver runs
concurrently with every call. The crate starts no threads and takes no locks;
`&mut self` makes the calls of one stream sequential, and a call ends the
application's hold on the buffer lent before. A `Device`, on the other hand, is used
through `&self`: threads may share it, negotiate its format at the same time and
build several streams on it, which then share one descriptor and one queue.

What is hard here:

* **Calls that fail half way.** Every system call may fail, be interrupted
  (`EINTR`) or time out after earlier ones of the same `next` succeeded. The fork
  exists to make the next call resume exactly there.
* **Two views of one queue.** `buffer_queued`, the startup cursor and `active`
  are a copy of what the kernel knows. Nothing compares them at run time.
* **The driver works meanwhile**: it completes buffers in any order, and the
  device may be unplugged between any two system calls.
* **Time.** One deadline covers all system calls of a call and all their retries;
  `poll` takes whole milliseconds, the clock does not.
* **One device, several threads.** Negotiation takes two system calls, building a
  stream two or more, and what one thread sets or allocates another may change in
  between.
* **Destructors that panic** on an error that is not `ENODEV`, while fields and
  other owners of the descriptor still have to be dropped, maybe by unwinding.
* **Values that cross a border.** The crate knows fewer codes than the kernel and
  panics on the others, the kernel clears fields that it takes for uninitialised,
  and pointers into vectors travel in a union.

What makes each part correct, in a sentence: the streams' bookkeeping equals the
kernel's queue; what `next` lends is one frame that the driver cannot touch;
frames arrive once and in order and keep arriving; a call with a timeout returns
about when it was asked to; no descriptor or mapping is used after it is gone,
and a drop that reports no error gave everything back; a list that a query returns
is true; a value that is reported was in force; the driver never writes to memory
of a stream that is gone; what a sink shows is what a source captured.

## 2. The modules

| Module | Models | Extends |
|---|---|---|
| `VideoQueue` | the kernel's buffer queue, `poll`, the driver and unplugging (external) | |
| `MmapStream` | fields and private helpers of the memory-mapped stream; outcomes of each system call with the bookkeeping that follows | `VideoQueue` |
| `MmapCapture` | `CaptureStream`, `next_with_stats`, the startup loop; a driver that fills | `MmapStream` |
| `MmapOutput` | `OutputStream`; an application that writes, a driver that drains; names shared with the capture side begin with `Output` | `MmapStream` |
| `UserptrStream` | the user-pointer stream | `VideoQueue` |
| `StreamLifecycle` | opening a device, building a stream, dropping all of it | |
| `PollDeadline` | timeouts and deadlines in fractions of a millisecond | |
| `Conversions` | formats and parameters to and from the C structures; what the kernel clears | |
| `SharedDevice` | threads on one device: formats and parameters, the user-pointer arena, several streams on one queue | `Conversions` |
| `DeviceQueries` | enumeration of formats, sizes, intervals and controls; values of controls; `to_discrete` | |
| `FrameSource`, `FrameSink` | what a capture and an output stream promise (abstract); `MmapCapture`, `UserptrStream` and `MmapOutput` implement them | |
| `Forward` | the forwarding example, on an instance of `FrameSource` and one of `FrameSink` | |
| `VideoQueueLemmas` | facts about queues of buffers and the startup cursor | |
| `MmapStreamProofs`, `UserptrStreamProofs` | theorems about the three streams, on these lemmas | |
| `StreamLifecycleProofs`, `PollDeadlineProofs`, `SharedDeviceProofs`, `DeviceQueriesProofs`, `ForwardProofs` | theorems about the module each is named after | |
| `MC_*` | instances for TLC | |

### Steps and state

In the stream modules **one step is one attempt at a system call**, with all the
code does from its return to the next attempt. The variable `at` names the system
call to be attempted ("app" between two public calls), `fn` the public call,
`index` the buffer it is about, `deadline` what is left of its timeout. So the
driver, the clock, a signal or the removal of the device come between any two
system calls, and nowhere else, which is as fine as the kernel can tell.
`buffer_queued`, `capture_initial_queue_index`, `arena_index`, `buf_meta`,
`timeout` and `active` are the fields of the same names. `incoming`, `outgoing`,
`streaming` and `content` are the kernel's. A frame is a model value; the bytes of
a buffer and its metadata both hold the frame they belong to, so that pairing the
bytes of one with the metadata of another shows.

The kernel side follows the V4L2 documentation as far as the code depends on it:
`QBUF` refuses a buffer that does not exist or that the driver has; `DQBUF` takes
the oldest completed one, or fails with `EAGAIN` as the descriptor is
`O_NONBLOCK`; `STREAMOFF` hands every buffer back; `poll` also wakes with an
error when the queue is not streaming, when the device is gone and, for some
drivers, when no buffer is queued. A device that is gone refuses every ioctl with
`ENODEV`.

`onlyNext`, chosen at the start and never changed, says what application uses the
stream: one that calls only `next`, `stop` and the timeouts, as the crate's
examples do, or one that calls anything in any order. Bookkeeping, cursor and
lending are checked for both; what an application is promised as a sequence of
frames makes sense for the first only. Section 5 says what goes wrong for the
second.

`StreamLifecycle` takes one step per system call of construction and
destruction. `holders` is the set of `Arc<Handle>`s, `panicking` says that the
thread unwinds, and a second panic while it does aborts the process. Which system
calls signals may interrupt and which may fail otherwise is chosen at the start
(`interruptible`, `failing`), so that one run covers "nothing but an unplugged
device", "signals" and "anything".

`PollDeadline` keeps the control of the waiting loops and nothing of the stream.
Its clock counts units of 1/`Milli` of a millisecond.

`SharedDevice` interleaves the system calls of threads that own a stream each and
share the `Device`. `call[t]` is the call in progress (`fn`), its next system call
(`at`) and what that is given; `stream[t]` holds `active`, `arena_index`, the number
of buffers and their length. The kernel's side is one queue: `held[i]` names the
thread and the buffer whose memory is queued at index `i`, `need` the bytes the driver
wants for each. Assumed of the kernel: `REQBUFS` on the same descriptor replaces the
buffers and forgets what was queued, and is refused while streaming; `S_FMT` is
refused while buffers are allocated and `S_PARM` while streaming; `STREAMON` of a
streaming queue is no error; a queued buffer shorter than needed is refused; a device
that is gone writes to no memory. A format or a set of parameters is a value, whose C
structure (`Pix`, `Parm`) goes through `Conversions` in both directions: `Request`
is what reaches the driver when the application asks for what it saw, and `Adjusted`
what the driver makes of it. A structure with a code that the crate does not know
(`Understood`) makes `format` and `set_format` panic, the latter after the device
has changed. Left out: which error
a system call fails with (but for `ENODEV`, which the destructors take for success),
and timeouts, which `UserptrStream` has; `poll` and `DQBUF` are one step.
`inForce[t]` is history for `ReportsActualValue` only.

`DeviceQueries` has one call at a time. `table` is what the driver would answer to an
enumeration, entry by entry, each abstracted to its type; `controls` and `values` are
the driver's. Every system call may be interrupted or find the device gone.
`written[i]` and `troubled` are history. A 32-bit member of the union is `Low`, on a
word of `Word` values in place of 2^32. A string or an array is a pointer in the
union: `Sent` is what the driver finds where it points, which is nothing once the
loop of `set_controls` dropped the vector. `Low` shares its bytes with the low half of
the 64-bit member, which assumes a little-endian target: on a big-endian one the union
has its 32-bit member at the other end. A menu is walked by the step the driver reports
for it, and a step of zero makes `step_by` panic (`QueryExtCtrlPanics`). The driver of the
model does not round values to steps; buttons, which have no value, are left out.

`Forward` is the program's `main`, one step per event of a stream: what its two
streams do is what `FrameSource` and `FrameSink` allow, which the streams are shown to
implement, so nothing of their insides is repeated. The lengths of the buffers are
the drivers' choice. A drop that fails is left to `StreamLifecycle`. `produced` and
`displayed` are the history of the two devices.

## 3. The runs

| Run | Bounds | What it shows |
|---|---|---|
| `capture_api` | 3 buffers, 2 frames, timeout 0 or none | `BookkeepingMatchesKernel`, `LentIsStable`, `CursorExact`, `StartupComplete`, `NextNeverRequeues` for any use; `PipelineFull`, `NextNeverMisusesKernel` and the refinement `ImplementsFrameSource` for `next` and `stop` |
| `capture_live` | 2 buffers, 1 frame, timeout of one tick | `TimedCallReturns`, `FramesKeepComing` |
| `output_api` | 2 buffers, 2 frames | the same for output: `BookkeepingMatchesKernel`, `ClientLentIsStable`, `ImplementsFrameSink`, `BuffersKeepComing` |
| `userptr_api` | 2 buffers, 2 frames, `EIO` | `LentIsStable`, `EinvalOnlyAfterFailure`, `ImplementsFrameSource`; `TypeOK` bounds the startup loop |
| `lifecycle_faults` | at most 3 buffers, 0, 2 or 4 asked for; every set of failing calls, with signals or without | `NoUseAfterClose`, `ArenaCoversQueue`, `MappingsFreed`, `ReleasedUnlessEmpty`, `PanicsContained` |
| `poll_deadline` | 3 clock units to the millisecond, longest timeout 3 ms | `NotTooEarly`, `NeverOversleeps`, `GivesUpOnlyAfterSleep` |
| `shared_device` | 2 threads, 4 formats of which 2 are ever in force, 2 sets of parameters of which 1 is, at most 2 buffers each | `DriverHoldsLiveMemory`, `FailedConstructionHarmless`, `ReportsActualValue`; `TypeOK` says that no call indexes out of its arena |
| `device_queries` | 3 entries, or 2 controls and 1 entry; 10 lists of controls with 6 kinds between them, menus with steps of 0, 1 and 2; up to 2 controls in a call; 8 values to the word; 4 ranges of sizes | `ListsAreHonest`, `ReadsBackWhatFits`, `ToDiscreteExact`; `TypeOK` bounds the menu loop |
| `forward` | 3 frames to forward, 2 different ones, 2 formats, buffers of 1 or 2, 2 frames waiting at most | `EndToEnd`, `Terminates` |
| `device_queries_payload` | 1 string | violation of `PayloadArrives` |
| `output_queue_then_next` | 2 buffers | violation of `LendsFree` |
| `lifecycle_signals` | 2 buffers | violation of `SignalsNeverPanic` |

Why the bounds are enough. Three capture buffers are the fewest for which the
startup loop has a first, a middle and a last buffer, an explicit `queue` can
leave a hole for the cursor to skip, and two completed buffers can wait in an
order other than their index; two frames let every buffer hold a stale one. The
startup cursor, the flags and the theorems do not depend on the number (section 4
proves them for any). Output circulates one buffer, whatever the number, so two
suffice. A timeout of zero or of one tick makes every comparison with the
deadline come out both ways, as only "expired or not" is tested; the size of the
remainder matters in `poll_timeout` alone, which `PollDeadline` checks. In
`poll_deadline` three units make a millisecond with two different fractions, and
durations are below, at and between milliseconds, at the limit and past it; the
horizon lies a poll beyond the longest deadline. In `lifecycle_faults` a driver
grants fewer, as many or more buffers than asked for, and each of the 128 sets of system
calls is one that may fail: only with all of them can `PanicsContained` tell an abort
that takes two kinds of failure from one that takes a single one.

In `shared_device` two threads make every interference between two calls, and two
buffer lengths make a buffer too short for the format of the other thread; the
formats that are never in force separate what is asked for from what is granted, one
of those in force has a colorspace that the crate does not know, and one differs from
another in a quantization only, which never reaches the driver. An arena of one buffer
next to one of two gives the index that is out of bounds. In `device_queries` the word
of eight values has numbers that fit a control, fit the word but not the control, and
wrap; a menu has a hole, one has an item between its steps, and one a step of zero; a range of sizes has a step that ends on its maximum, one that
does not, or one of zero, or is empty, its minimum above its maximum. In `forward` three frames give a first, a middle and a last
round, and the source may capture three more than the program takes (`MaxProduced`
counts the warmup frame among them).

`RetriesMod` keeps `interrupted_wait_retries` finite; nothing reads it.

Deadlock is checked in the stream runs and in `device_queries`. It is off in
`lifecycle_faults`, where an aborted process stops, in `shared_device` for the same
reason, in `poll_deadline`, where `set_timeout` may panic, and in `forward`, a program
that ends, as `Terminates` says.

### Fairness

`TimedCallReturns` assumes that a call that can go on does and that the clock
runs (`FairSpec`); it does not assume that any attempt escapes interruption, nor
that `poll` wakes before it has a reason to. `FramesKeepComing` and
`BuffersKeepComing` are conditional on `Delivery`: the application keeps calling
`next` (and writes what it is lent), the device stays plugged and keeps completing
buffers, and a system call that could succeed again and again is not interrupted
every single time (strong fairness of its success: signals are rarer than
retries). Without the last assumption a signal storm could starve any retry loop.
`Terminates` assumes that the forwarding program runs and that its source captures
frames; it assumes nothing of the sink, which may never finish a frame, and no system
call has to succeed.

## 4. The proofs

Every invariant and action property of the passing runs is proved for all values of
the constants; so are the three refinements. Beyond the runs' properties a few theorems
say how many steps a call or a program can make. The assumptions are those of the
modules and are named there.

**The streams.** The constants are any number of buffers but none, any frames,
timeouts that are naturals, a blank buffer that is no frame, and faults that are not
among the errors which the model gives a meaning of their own (`FaultsAssumption`,
`NoBufAssumption`).

The capture half of `MmapStreamProofs` has two layers. `IInv`, inductive for any use of
the API, adds to the six properties `TypeOK`, `BookkeepingMatchesKernel`, `LentIsStable`, `CursorExact`,
`StartupComplete` (which follows) and `NextNeverRequeues` three facts they rest on:

* `NoDuplicates`: a completed buffer waits once and is not also with the driver,
  so that `DQBUF` of it really takes it out of the kernel's hands;
* `LentBetweenCalls`: a buffer is lent between two calls only, so that no step of
  a call can take it away;
* `StartupLoopDone`: in a `next` on a stream that is not active, a `STREAMON` is
  attempted only with the cursor at the end.

`Circulation`, inductive on top of it, is about an application that only calls `next`
and `stop`: which system calls it can be in the middle of (`OnlyNextStops`), and that a
running stream keeps from the driver at most the buffer at `arena_index`, and none
while it waits (`Circulates`). `PipelineFull` and `NextNeverMisusesKernel` follow.

`CursorExact` rests on `FirstUnqueuedStops`: the cursor loop ends inside the arena, at
the first buffer that is not queued, the least element of the stops within bounds
(`FirstUnmarked`, `LeastElement` in `VideoQueueLemmas`).

The output half is built the same way (`OutputIInv`, `OutputCirculation`). What is lent
is stable because the metadata of every buffer is that of its bytes (`MetaOfContent`)
and an inactive stream has queued nothing (`InactiveHoldsNothing`, `QueuesWhenActive`).
Its second layer is `OneCirculates`: the one buffer at `arena_index` is all an
application with `next` alone ever hands over.

`UserptrStreamProofs` has no bookkeeping to compare with the kernel. `ActiveExact` says
that the flag is; `Expected` says that, as long as the last call succeeded, the kernel
holds what `next` takes for granted: all buffers but the one in hand or, before the
start, those queued so far. A refused `QBUF` contradicts it (`RefusedOnlyAfterFailure`).

**The refinements** (`CaptureIsASource`, `UserptrIsASource`, `OutputIsASink`): the
initial state maps to an initial state, and each step, given the two layers before and
after it, maps to a step of the abstract specification or to none. The abstract
sequence of frames is the contents of the completed buffers (`Waiting`); the lemmas
`WaitingAppend` and `WaitingTail` say what a completion and a `DQBUF` do to it, and
`RoomForOneMore` that a queue of different buffers, one of which is missing, is shorter
than the arena. That is what bounds the frames that can wait.

**How long a call is** (`CallsEnd`, `OutputCallsEnd`, `UserptrCallsEnd`). This is the part
of termination that needs no fairness. `AttemptsLeft` counts the system calls a call
still has in front of it; it never exceeds the number of buffers plus three, no step
raises it, and every attempt lowers it but one: an attempt that a signal interrupts
before the deadline, which the memory-mapped stream makes again (`Retried`). The clock
only takes from that deadline (`OneDeadline`), so that once it has passed no more than
`AttemptsLeft` attempts follow. For the startup loop this rests on `StartupAtCursor`: the
buffer being queued is the one at the cursor, which its `QBUF` therefore moves. The
user-pointer stream has no retries and its theorem no exception.

**Construction and destruction** (`StreamLifecycleProofs`), for any number of buffers
asked for and granted, and any choice of failing calls but one: `munmap` is not
interrupted by a signal (`SyscallsAssumption`). The invariant says who owns the
descriptor (`Ownership`), what is mapped in each round of each loop (`Contents`), what
is left when the arena is gone (`NothingLeft`) and when a thread unwinds (`Unwinding`).
`PanicsContained` needs to know why: `Stopped` says that a device streams without its
stream only if `STREAMOFF` or `munmap` failed, `Blame` that a thread which unwinds at some
system call does so because an earlier one failed, so that a second panic there is of
another kind, and `Healthy` that there is neither panic nor abort where nothing fails.

**Deadlines** (`PollDeadlineProofs`), for a clock of any resolution. The invariant says
where the deadline of a call lies relative to the duration asked for
(`DeadlineFromTimeout`) and how a sleep in `poll` was planned when it began
(`SleepPlanned`); the arithmetic is in `MillisFloor` and `PollTimeoutBounds`.

**Threads on one device** (`SharedDeviceProofs`), for any number of threads, formats,
parameters and buffers, from `SharedAssumption`: structures are well-formed, the driver
adjusts what reaches it to values, and no value is one of the words for other results.
`DriverHoldsLiveMemory` is not inductive: a release that fails frees the memory
nonetheless, which is harmless only because of

* `StoppedHoldsNothing`: a destructor that got past `STREAMOFF` without a panic holds
  nothing in the driver (with a panic, a second one ends the process before the memory
  is freed);
* `GoneHoldsNothing`: when the destructors go on in spite of `ENODEV`, the device has
  stopped writing;
* `ThreadsConsistent`: only a construction has no stream, only a destructor runs with
  an index from another stream or while unwinding.

`ReadsWhatIsInForce`, for `ReportsActualValue`, says that a thread about to read has
the present value in its history. A conversion that panics is a result of a call like
any other.

**Queries and controls** (`DeviceQueriesProofs`), for tables and lists of controls of any
length and a word of any number of values, from the assumptions of `DeviceQueries`: a
control has a range that is not empty, and one that is read through the member of 32 bits
a range that fits it, its steps being any naturals (`DevicesAssumption`); what is
written are integers, ranges of sizes are of naturals, empty ones and steps of zero
included (`NumbersAssumption`, `RangesAssumption`); and no fault is `EINVAL`, which ends
a list, or named as a result that is no error (`FaultsAssumption`); the little-endian
target is in the definition of `Low`. The invariant adds to the properties what each call has
got so far, one conjunct for each system call it can be in front of (`Calls`): an
enumeration holds the entries before `index`, a listing of controls those the driver
has up to the last number it was given, a menu, at one of its steps, the items at those
before it (`NextStep`), a
read or a write a request that the code accepted. `Holds` says that a control which the code
can read has the value written last, if that is in its range; `LowFits` and `FitsIsKept`
are the arithmetic of the member of 32 bits that it went through.

Two facts here are inductions over data, which the library's theorems cannot be cited
for. They are done with sets of naturals instead: a set that contains zero and the
successor of each of its members is all of them, because it would otherwise miss a least
one (`LeastElement`, `Induction`). So `FlattenAppend`, what the recursive function in
`FlattenSeq` makes of one more list, is proved for every list, and with it that one
more answer of the driver adds its entries to those an enumeration has collected
(`FoundGrows`). The two nested loops of `to_discrete` push the sizes in the order
`StepByWalks` and `GridGrows` give, which makes the result exactly the grid
(`GridExact`, `DiscretesExact`).

**Forwarding** (`ForwardProofs`), for any count, lengths and capacity. `EndToEnd` needs
to know where every captured frame is: waiting (`Waiting`), in the hands of the program
at each point of its loop (`Copied`), or queued in the sink (`OnItsWay`). `Ended` says
that nothing is queued when `main` returned `Ok`. `ForwardEnds` bounds the program:
`StepsLeft`, at most eight for each round and for the warmup frame, falls with every
step of it and with every failure, and is zero at its end only.

Model-checked only: the four liveness properties (`TimedCallReturns`,
`FramesKeepComing`, `BuffersKeepComing`, `Terminates`), as `ENABLED` and fairness are out
of TLAPS' reach. What the theorems on the length of a call leave to them is that an
attempt that can be made is made.

## 5. Where the code and its documentation disagree

Shown by a violation run each:

* `output_queue_then_next`: `OutputStream::next` lends the empty buffer at
  `arena_index` on its first call, also when the application queued it: it writes
  while the device reads.
* `lifecycle_signals`: a signal during the last `REQBUFS` of a drop makes it
  panic; that one is not retried (`README.md:9` of the crate promises otherwise).
* `device_queries_payload`: `set_controls` takes the address of a string or an array,
  then drops it at the end of the loop's round (`device.rs:241`, `device.rs:270`): the
  system call reads memory that was freed.

Seen while modelling, not in a run of their own:

* After a startup that failed half way the user-pointer `next` queues buffer 0 again,
  which the kernel refuses until `stop` is called (`userptr/stream.rs:197`):
  `EinvalOnlyAfterFailure` says that this is the only way to be refused.
* Any error after the first entry, a signal or `ENODEV` too, ends
  `enum_frameintervals` with `Ok` and a part of the list (`video/macros.rs:27-33`),
  where `video/traits.rs:12` promises all intervals. `enum_framesizes` and
  `enum_formats` do the same; `query_controls` does not, but `QUERYMENU` may lose
  items in the same way.
* The crate never writes the magic number of `v4l2_pix_format.priv`
  (`format/mod.rs:152` zeroes the structure), so that the kernel clears what comes
  after it: the quantization and the transfer function of a `set_format` do not
  reach the driver.
* `format` and `set_format` panic on a field order, colorspace or transfer function
  that the crate does not know (`format/mod.rs:128`), `set_format` after the device
  took the format.
* The forwarding example asks its output stream for the next buffer right after it
  queued one. A sink that is not done by then makes `next` fail with `EAGAIN` (the
  descriptor does not block, and the `poll` comes before the `QBUF`): the program ends
  on its second round. When it ends well, its last frame was never queued; when the
  sink has the shorter buffers, cutting the slice panics.
* `start` before the first `next` makes `next` skip its initialisation: capture
  runs on one buffer for ever, output sends a buffer nobody filled
  (`stream.rs:315`, `stream.rs:438`).
* When `STREAMOFF` is interrupted past the deadline the error carries no errno;
  drop panics, the arena is dropped while unwinding, its `REQBUFS(0)` is refused
  because the queue still streams, and the second panic aborts
  (`stream.rs:143`, `stream.rs:378`). `PanicsContained` says that this, and two failures
  of different kinds, are the only ways to an abort; a `close` that fails alone panics.
* `allocate` that fails at its first `QUERYBUF` leaves the driver's buffers
  allocated: the arena is empty, "nothing to do" (`arena.rs:124`).
* `userptr/stream.rs:169` says that a timeout is only possible if it is not zero;
  a timeout under a millisecond is zero and fires at once.
* `start` "takes exclusive ownership" of the device (`io/traits.rs:9`): another stream
  of the same `Device` can stop it, replace its buffers and dequeue them. An index
  beyond its arena then makes `dequeue` panic (`userptr/stream.rs:183`). No memory is
  written that should not be: `DriverHoldsLiveMemory`.
* Between its `S_FMT` and its `G_FMT` `set_format` may be overtaken: it returns what
  another thread set, which is the actual format but not the answer to the request.
* A menu whose step is zero makes `query_controls` panic (`device.rs:119`), as a frame
  size with a step of zero does `to_discrete` (`framesize.rs:37`): one such control and
  none can be listed.
* A device without controls: `query_controls` returns the `EINVAL` of the first query;
  one without formats: `enum_formats` returns an empty list, whatever went wrong.
* `set_controls` "atomically" (`device.rs:224`): when the hardware fails half way some
  controls are changed, and the call does not say which. An `IntegerMenu` can be
  listed and set but not read (`device.rs:203`).
* `stop` "frees all buffers" (`io/traits.rs:12`): it does not, drop does.

## 6. The plan

Done: the memory-mapped stream in both directions, the user-pointer stream,
construction and destruction, deadlines, threads that share a device, queries and
controls, conversions of formats and parameters, the forwarding program on top of the
streams; proofs about all of these, the refinements included.

Next, in this order:

1. Two memory-mapped streams on one device, whose arenas the kernel owns: what a
   `REQBUFS` of one does to the mappings of the other.
2. The forwarding program on the concrete streams, with the timeouts that
   `FrameSource` and `FrameSink` leave out.

### Not modelled

* Raw `read` and `write` of a `Device`: one system call, no state kept.
* Listing of devices (`context.rs`): input and parsing of file names.
* The generated bindings, the request codes of `vidioc.rs`, the FreeBSD and libv4l
  variants of the wrappers: tables and declarations. The wrappers themselves turn a
  -1 into an error; those outcomes are part of every module that makes the call.
* Capabilities, time stamps, fourcc codes and the display of anything: copies and
  text that no other part reads.
* Buttons, which have no value, the rounding of values to the step of their control by
  some drivers, and big-endian targets (`Low`).
* `params` and `set_params` of an output device: the same two system calls as those of
  capture, on another structure.
