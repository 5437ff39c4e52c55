--------------------------- MODULE StreamLifecycle ---------------------------
(***************************************************************************)
(* Construction and destruction of a memory-mapped stream: Device and its  *)
(* shared Handle (src/device.rs), Stream::with_buffers and Drop for Stream *)
(* (src/io/mmap/stream.rs), Arena::allocate, release and Drop for Arena    *)
(* (src/io/mmap/arena.rs), down to each system call, any of which may fail *)
(* or be interrupted, and the panics that follow from a failure.           *)
(*                                                                         *)
(* One step is one system call with what the code does after it.  The      *)
(* stream's own operation is MmapCapture and MmapOutput; here it only      *)
(* turns streaming on and off.                                             *)
(***************************************************************************)
EXTENDS Integers

CONSTANTS
  NumBufs,        \* the most buffers the driver grants
  Counts,         \* the buffer counts the application asks for
  SignalSets,     \* sets of system calls that signals may interrupt
  ErrorSets,      \* sets of system calls that may fail with some other errno
  TimeoutSet      \* whether the stream to be dropped has a timeout

Syscalls == {"REQBUFS", "QUERYBUF", "MMAP", "STREAMOFF", "MUNMAP",
             "FREEBUFS",    \* REQBUFS with a count of zero
             "CLOSE"}

ASSUME NumBufsAssumption == NumBufs \in Nat \ {0}
ASSUME CountsAssumption  == Counts \subseteq Nat
ASSUME SyscallsAssumption ==
  /\ SignalSets \subseteq SUBSET (Syscalls \ {"MUNMAP"})   \* it never waits
  /\ ErrorSets \subseteq SUBSET Syscalls

VARIABLES
  (* the process *)
  at,         \* the system call it is about to make, "app", or "aborted"
  holders,    \* who holds an Arc<Handle>: the last to let go closes it
  live,       \* a Stream exists
  bufs,       \* arena.bufs.len()
  index,      \* the loop variable of allocate and release
  asked,      \* the count given to with_buffers
  panicking,  \* the thread is unwinding
  outcome,    \* of the last stream construction or destruction
  (* the kernel *)
  fdOpen, plugged,
  allocated,  \* buffers the driver allocated for the queue
  mapped,     \* buffers mapped into the process
  on,         \* the queue is streaming
  (* what can go wrong, fixed at the start *)
  interruptible, failing

process == << at, holders, live, bufs, index, asked, panicking, outcome >>
kernel  == << fdOpen, plugged, allocated, mapped, on >>
faults  == << interruptible, failing >>
vars    == << process, kernel, faults >>

TypeOK ==
  /\ at \in Syscalls \cup {"app", "aborted"}
  /\ holders \subseteq {"device", "stream", "arena", "user"}
  /\ live \in BOOLEAN /\ panicking \in BOOLEAN
  /\ bufs \in 0 .. NumBufs
  /\ index \in 0 .. NumBufs - 1
  /\ asked \in Counts \cup {0}
  /\ outcome \in {"none", "ok", "error", "panic"}
  /\ fdOpen \in BOOLEAN /\ plugged \in BOOLEAN /\ on \in BOOLEAN
  /\ allocated \in 0 .. NumBufs
  /\ mapped \subseteq 0 .. NumBufs - 1
  /\ interruptible \in SignalSets /\ failing \in ErrorSets

Init ==
  /\ at = "app" /\ holders = {} /\ live = FALSE
  /\ bufs = 0 /\ index = 0 /\ asked = 0
  /\ panicking = FALSE /\ outcome = "none"
  /\ fdOpen = FALSE /\ plugged = TRUE
  /\ allocated = 0 /\ mapped = {} /\ on = FALSE
  /\ interruptible \in SignalSets /\ failing \in ErrorSets

-------------------------------------------------------------------------------
(* How the next system call can fail.  munmap and close do not reach the   *)
(* driver; REQBUFS is refused while the queue is streaming.                *)

Gone      == ~plugged /\ at \notin {"MUNMAP", "CLOSE"}
Signalled == at \in interruptible /\ ~Gone
Refused   ==
  /\ ~Gone
  /\ at \in failing \/ (at \in {"REQBUFS", "FREEBUFS"} /\ on)

Errs == Gone \/ Signalled \/ Refused

\* It need not fail: interruptible and failing only say what may.
Succeeds ==
  /\ ~Gone
  /\ at \in {"REQBUFS", "FREEBUFS"} => ~on

-------------------------------------------------------------------------------
(* Destructors, from the inside out.  r is what the call in progress will  *)
(* report, p whether the thread is unwinding from a panic.                 *)

Return(r, p) ==
  /\ at' = "app" /\ panicking' = FALSE
  /\ outcome' = IF p THEN "panic" ELSE r

\* A panic in a destructor while the thread already unwinds.
Abort ==
  /\ at' = "aborted"
  /\ UNCHANGED << holders, live, bufs, index, asked, panicking, outcome >>

\* hs is left of the holders after an Arc<Handle> is dropped: Drop for Handle
\* closes the descriptor when it was the last one.
Holders(hs, r, p) ==
  /\ holders' = hs
  /\ live' = FALSE /\ bufs' = 0 /\ index' = 0 /\ asked' = 0
  /\ \/ hs # {} /\ Return(r, p)
     \/ hs = {} /\ at' = "CLOSE" /\ outcome' = r /\ panicking' = p

ArenaDropped(p) == Holders(holders \ {"arena"}, outcome, p)

\* Drop for Arena: an arena without buffers has nothing to release.
DropArena(hs, r, p) ==
  \/ bufs = 0 /\ Holders(hs \ {"arena"}, r, p)
  \/ /\ bufs # 0
     /\ at' = "MUNMAP" /\ index' = 0
     /\ holders' = hs /\ outcome' = r /\ panicking' = p
     /\ UNCHANGED << live, bufs, asked >>

ArenaPanics ==
  \/ panicking /\ Abort
  \/ ~panicking /\ ArenaDropped(TRUE)

\* The fields of a Stream are dropped in order, after its own Drop and also
\* when that panicked: its handle first, then the arena.
DropStreamFields(p) == DropArena(holders \ {"stream"}, "ok", p)

-------------------------------------------------------------------------------
(* Opening, cloning and dropping handles.                                  *)

\* Device::new and Device::with_path.
OpenDevice ==
  /\ at = "app" /\ holders = {} /\ plugged
  /\ holders' = {"device"} /\ fdOpen' = TRUE
  /\ UNCHANGED << at, live, bufs, index, asked, panicking, outcome,
                  plugged, allocated, mapped, on >>

\* Device::handle and Stream::handle hand out another Arc.
CloneHandle ==
  /\ at = "app" /\ holders # {}
  /\ holders' = holders \cup {"user"}
  /\ UNCHANGED << at, live, bufs, index, asked, panicking, outcome, kernel >>

\* A Device may be dropped before the streams made from it.
DropHolder(h) ==
  /\ at = "app" /\ h \in holders
  /\ holders' = holders \ {h}
  /\ at' = IF holders \ {h} = {} THEN "CLOSE" ELSE "app"
  /\ UNCHANGED << live, bufs, index, asked, panicking, outcome, kernel >>

\* Drop for Handle unwraps the result of close; the descriptor is gone either
\* way, and with it the queue, unless a mapping still holds on to the file.
Close ==
  /\ at = "CLOSE" /\ fdOpen' = FALSE
  /\ allocated' = (IF mapped = {} THEN 0 ELSE allocated)
  /\ on' = (on /\ mapped # {})
  /\ UNCHANGED << holders, live, bufs, index, asked, plugged, mapped >>
  /\ \/ Return(outcome, panicking)
     \/ Errs /\ panicking /\ Abort
     \/ Errs /\ ~panicking /\ Return(outcome, TRUE)

-------------------------------------------------------------------------------
(* Stream::with_buffers and Arena::allocate.                               *)

\* Mutant: the arena and the stream keep the raw descriptor.
WithBuffers_RawFd(count) ==
  /\ at = "app" /\ "device" \in holders /\ ~live /\ outcome # "panic"
  /\ at' = "REQBUFS" /\ asked' = count /\ bufs' = 0
  /\ UNCHANGED << holders, live, index, panicking, outcome, kernel >>

\* After a panic the application builds no other stream.
WithBuffers(count) ==
  /\ at = "app" /\ "device" \in holders /\ ~live /\ outcome # "panic"
  /\ at' = "REQBUFS" /\ asked' = count /\ bufs' = 0
  /\ holders' = holders \cup {"arena"}
  /\ UNCHANGED << live, index, panicking, outcome, kernel >>

\* The stream is built: its handle is a clone of the device's.
Built ==
  /\ at' = "app" /\ live' = TRUE /\ outcome' = "ok" /\ index' = 0
  /\ asked' = 0
  /\ holders' = IF "arena" \in holders THEN holders \cup {"stream"} ELSE holders

\* The driver grants as many buffers as it likes, none when asked for none.
Reqbufs ==
  /\ at = "REQBUFS" /\ Succeeds
  /\ \/ asked = 0 /\ allocated' = 0 /\ Built
     \/ /\ asked # 0 /\ allocated' \in 1 .. NumBufs
        /\ at' = "QUERYBUF" /\ index' = 0
        /\ UNCHANGED << holders, live, asked, outcome >>
  /\ UNCHANGED << bufs, panicking, fdOpen, plugged, mapped, on >>

Querybuf ==
  /\ at = "QUERYBUF" /\ Succeeds
  /\ at' = "MMAP"
  /\ UNCHANGED << holders, live, bufs, index, asked, panicking, outcome, kernel >>

\* Mutant: the loop runs to the count asked for, not the count granted.
MmapNext_Asked ==
  \/ index + 1 >= asked /\ Built
  \/ /\ index + 1 < asked /\ at' = "QUERYBUF" /\ index' = index + 1
     /\ UNCHANGED << holders, live, asked, outcome >>

MmapNext ==
  \/ index + 1 = allocated /\ Built
  \/ /\ index + 1 < allocated /\ at' = "QUERYBUF" /\ index' = index + 1
     /\ UNCHANGED << holders, live, asked, outcome >>

Mmap ==
  /\ at = "MMAP" /\ Succeeds
  /\ mapped' = mapped \cup {index}
  /\ bufs' = bufs + 1
  /\ MmapNext
  /\ UNCHANGED << panicking, fdOpen, plugged, allocated, on >>

\* Mutant: an error forgets what was mapped so far.
AllocateFails_Forgets ==
  /\ at \in {"REQBUFS", "QUERYBUF", "MMAP"} /\ Errs
  /\ Holders(holders \ {"arena"}, "error", FALSE)
  /\ UNCHANGED kernel

\* The `?` in allocate leaves with_buffers, which drops the arena; a signal
\* is an error here.
AllocateFails ==
  /\ at \in {"REQBUFS", "QUERYBUF", "MMAP"} /\ Errs
  /\ DropArena(holders, "error", FALSE)
  /\ UNCHANGED kernel

-------------------------------------------------------------------------------
(* Drop for Stream, and Arena::release in Drop for Arena.                  *)

DropStream ==
  /\ at = "app" /\ live
  /\ at' = "STREAMOFF"
  /\ UNCHANGED << holders, live, bufs, index, asked, panicking, outcome, kernel >>

\* An interrupted STREAMOFF is retried, which changes nothing here, until the
\* stream's deadline, when it becomes a TimedOut error without an errno.
Streamoff ==
  /\ at = "STREAMOFF"
  /\ \/ Succeeds /\ on' = FALSE /\ DropStreamFields(FALSE)
     \/ Gone /\ UNCHANGED on /\ DropStreamFields(FALSE)
     \/ Signalled /\ TimeoutSet /\ UNCHANGED on /\ DropStreamFields(TRUE)
     \/ Refused /\ UNCHANGED on /\ DropStreamFields(TRUE)
  /\ UNCHANGED << fdOpen, plugged, allocated, mapped >>

\* Mutant: the buffers are unmapped but never given back to the driver.
MunmapNext_KeepsBuffers ==
  \/ index + 1 = bufs /\ ArenaDropped(panicking)
  \/ /\ index + 1 < bufs /\ index' = index + 1
     /\ UNCHANGED << at, holders, live, bufs, asked, panicking, outcome >>

MunmapNext ==
  /\ \/ index + 1 = bufs /\ at' = "FREEBUFS" /\ index' = 0
     \/ index + 1 < bufs /\ index' = index + 1 /\ UNCHANGED at
  /\ UNCHANGED << holders, live, bufs, asked, panicking, outcome >>

Munmap ==
  /\ at = "MUNMAP"
  /\ \/ mapped' = mapped \ {index} /\ MunmapNext
     \/ Errs /\ UNCHANGED mapped /\ ArenaPanics
  /\ UNCHANGED << fdOpen, plugged, allocated, on >>

\* Mutant: a device that is gone is an error like any other.
Freebufs_PanicsWhenGone ==
  /\ at = "FREEBUFS"
  /\ \/ Succeeds /\ allocated' = 0 /\ ArenaDropped(panicking)
     \/ Errs /\ UNCHANGED allocated /\ ArenaPanics
  /\ UNCHANGED << fdOpen, plugged, mapped, on >>

\* Neither a signal nor a queue still streaming is told from other errors.
Freebufs ==
  /\ at = "FREEBUFS"
  /\ \/ Succeeds /\ allocated' = 0 /\ ArenaDropped(panicking)
     \/ Gone /\ UNCHANGED allocated /\ ArenaDropped(panicking)
     \/ (Signalled \/ Refused) /\ UNCHANGED allocated /\ ArenaPanics
  /\ UNCHANGED << fdOpen, plugged, mapped, on >>

-------------------------------------------------------------------------------
\* The stream in use: STREAMON and STREAMOFF at the application's request.
SetStreaming(b) ==
  /\ at = "app" /\ live /\ plugged /\ allocated # 0
  /\ on' = b
  /\ UNCHANGED << process, fdOpen, plugged, allocated, mapped >>

Unplug == plugged /\ plugged' = FALSE
          /\ UNCHANGED << process, fdOpen, allocated, mapped, on >>

\* The device comes back, once nothing refers to the one that went.
Replug ==
  /\ ~plugged /\ ~fdOpen /\ holders = {} /\ at = "app"
  /\ plugged' = TRUE
  /\ UNCHANGED << process, fdOpen, allocated, mapped, on >>

Step ==
  \/ OpenDevice \/ CloneHandle \/ \E h \in {"device", "user"} : DropHolder(h)
  \/ Close
  \/ \E count \in Counts : WithBuffers(count)
  \/ Reqbufs \/ Querybuf \/ Mmap \/ AllocateFails
  \/ DropStream \/ Streamoff \/ Munmap \/ Freebufs
  \/ \E b \in BOOLEAN : SetStreaming(b)
  \/ Unplug \/ Replug

Next == Step /\ UNCHANGED faults

Spec == Init /\ [][Next]_vars

-------------------------------------------------------------------------------
(* Properties.                                                             *)

\* Every system call finds the descriptor open, in whatever order the device,
\* its clones and the stream are dropped (the Arc<Handle> of stream.rs:17 and
\* arena.rs:14, the field order of Stream).
NoUseAfterClose == at \in Syscalls => fdOpen

\* An index the kernel returns names a slice of the arena (the assumption of
\* stream.rs:323-324): every buffer of the queue is mapped, in order.
ArenaCoversQueue ==
  at = "app" /\ live => bufs = allocated /\ mapped = 0 .. bufs - 1

\* No buffer stays mapped once the stream is gone, or could not be built, even
\* if its drop panicked half way: Drop for Stream may panic, the arena is dropped
\* all the same (arena.rs:11: "All buffers are unmapped in the Drop impl").
MappingsFreed ==
  "MUNMAP" \notin failing => (at = "app" /\ ~live => mapped = {})

\* When an arena goes without a panic, after a drop or because the stream could not
\* be built, the device is stopped and has its buffers back, with one exception: an
\* arena that has not mapped any, though the driver may have allocated them
\* (stream.rs:366-367, arena.rs:103-126).
ReleasedUnlessEmpty ==
  [][ "arena" \in holders \ holders' /\ plugged /\ ~panicking' /\ outcome' # "panic"
      => (allocated' = 0 /\ ~on') \/ bufs = 0 ]_vars

\* A device unplugged at any moment never makes a drop panic, where nothing else
\* goes wrong (stream.rs:369-374, arena.rs:130-135, "Handle this case gracefully
\* by ignoring it").  One kind of system call that fails, as close alone, may make a
\* drop panic, but never twice: to abort takes two kinds (device.rs:408-412), or a
\* queue that STREAMOFF left streaming, of which the arena cannot give the buffers
\* back (stream.rs:378, arena.rs:103-126).
PanicsContained ==
  /\ interruptible = {} /\ failing = {} => outcome # "panic" /\ at # "aborted"
  /\ at = "aborted" => on \/ \E s, t \in interruptible \cup failing : s # t

-------------------------------------------------------------------------------
\* README.md:9: "... makes the implementation of that buffer robust in the face
\* of system interrupts".
SignalsNeverPanic == failing = {} => outcome # "panic" /\ at # "aborted"

===============================================================================
