------------------------- MODULE StreamLifecycleProofs -------------------------
(***************************************************************************)
(* Construction and destruction of a stream are safe for any number of     *)
(* buffers and whatever system calls fail or are interrupted.              *)
(***************************************************************************)
EXTENDS StreamLifecycle, TLAPS

-------------------------------------------------------------------------------
(* The inductive invariant.                                                *)

Allocating == {"REQBUFS", "QUERYBUF", "MMAP"}

\* The descriptor is open until the last holder closes it; the arena is one of
\* them from REQBUFS on until it is gone, the stream until its fields are dropped.
Ownership ==
  /\ fdOpen <=> holders # {} \/ at = "CLOSE"
  /\ at = "CLOSE" => holders = {} /\ ~live
  /\ at \in Syscalls \ {"CLOSE"} => "arena" \in holders
  /\ live /\ at \in {"app", "STREAMOFF"} => {"stream", "arena"} \subseteq holders
  /\ at = "STREAMOFF" => live

\* What is mapped, loop by loop.
Contents ==
  /\ at \in Allocating => ~live /\ outcome # "panic"
  /\ at \in {"app", "REQBUFS", "CLOSE"} => index = 0
  /\ at = "REQBUFS" => bufs = 0 /\ mapped = {}
  /\ at \in {"QUERYBUF", "MMAP"} =>
       bufs = index /\ index < allocated /\ mapped = 0 .. index - 1
  /\ live /\ at \in {"app", "STREAMOFF"} => bufs = allocated /\ mapped = 0 .. bufs - 1
  /\ at = "MUNMAP" => index < bufs /\ mapped = index .. bufs - 1
  /\ at = "FREEBUFS" => mapped = {}

\* What is left when the arena is gone: nothing, unless munmap failed, which
\* made it panic.
NothingLeft ==
  at = "CLOSE" \/ (at = "app" /\ ~live) =>
    /\ ~panicking /\ outcome # "panic" => mapped = {}
    /\ "MUNMAP" \notin failing => mapped = {}

Unwinding == at \in Allocating \cup {"app", "STREAMOFF"} => ~panicking

Fallible == interruptible \cup failing

\* A device that streams has a stream, which has not been dropped, unless STREAMOFF
\* failed, or munmap did, and its mappings keep the queue of a closed descriptor.
Stopped ==
  /\ on /\ plugged => \/ live /\ at \in {"app", "STREAMOFF"}
                      \/ Fallible \cap {"STREAMOFF", "MUNMAP"} # {}
  /\ on /\ ~fdOpen => "MUNMAP" \in failing

\* A thread unwinds because a system call failed that it has passed.
Blame ==
  panicking =>
    /\ at \in {"MUNMAP", "FREEBUFS"} => "STREAMOFF" \in Fallible
    /\ at = "CLOSE" => Fallible \cap {"STREAMOFF", "MUNMAP", "FREEBUFS"} # {}

Healthy == Fallible = {} => outcome # "panic" /\ at # "aborted" /\ ~panicking

Aborted == at = "aborted" => on \/ \E s, t \in Fallible : s # t

IInv ==
  /\ TypeOK
  /\ Ownership
  /\ Contents
  /\ NothingLeft
  /\ Unwinding
  /\ Stopped
  /\ Blame
  /\ Healthy
  /\ Aborted

LEMMA InitIInv == Init => IInv
<1> SUFFICES ASSUME Init PROVE IInv
  OBVIOUS
<1>1. TypeOK
  <2>1. 0 \in 0 .. NumBufs /\ 0 \in 0 .. NumBufs - 1
    BY NumBufsAssumption
  <2>2. at \in Syscalls \cup {"app", "aborted"} /\ outcome \in {"none", "ok", "error", "panic"}
    BY DEF Init
  <2> QED BY <2>1, <2>2 DEF Init, TypeOK
<1>2. Ownership /\ Contents
  BY DEF Init, Ownership, Contents, Syscalls, Allocating
<1>3. NothingLeft /\ Unwinding /\ Stopped /\ Blame /\ Healthy /\ Aborted
  BY DEF Init, NothingLeft, Unwinding, Stopped, Blame, Healthy, Aborted
<1> QED BY <1>1, <1>2, <1>3 DEF IInv

-------------------------------------------------------------------------------
(* The arena goes, and maybe the descriptor with it.                       *)

LEMMA HoldersPreserves ==
  ASSUME IInv, UNCHANGED << faults, fdOpen, plugged >>, fdOpen,
         NEW hs \in SUBSET holders, NEW r \in {"none", "ok", "error", "panic"},
         NEW p \in BOOLEAN,
         Holders(hs, r, p),
         allocated' \in 0 .. NumBufs, on' \in BOOLEAN, mapped' \subseteq mapped,
         ~p /\ r # "panic" => mapped' = {},
         "MUNMAP" \notin failing => mapped' = {},
         Fallible = {} => r # "panic",
         p => Fallible \cap {"STREAMOFF", "MUNMAP", "FREEBUFS"} # {},
         on' /\ plugged => Fallible \cap {"STREAMOFF", "MUNMAP"} # {}
  PROVE  IInv'
<1> USE NumBufsAssumption DEF IInv, Holders, Return, faults
<1>1. \/ hs # {} /\ at' = "app" /\ ~panicking' /\ outcome' = IF p THEN "panic" ELSE r
      \/ hs = {} /\ at' = "CLOSE" /\ outcome' = r /\ panicking' = p
  OBVIOUS
<1>2. /\ holders' = hs /\ ~live' /\ bufs' = 0 /\ index' = 0 /\ asked' = 0
      /\ live' = FALSE /\ panicking' \in BOOLEAN
  OBVIOUS
<1>3. TypeOK'
  <2>1. at' \in Syscalls \cup {"app", "aborted"} /\ outcome' \in {"none", "ok", "error", "panic"}
    BY <1>1 DEF Syscalls
  <2>2. holders' \subseteq {"device", "stream", "arena", "user"}
    BY <1>2 DEF TypeOK
  <2>3. bufs' \in 0 .. NumBufs /\ index' \in 0 .. NumBufs - 1 /\ asked' \in Counts \cup {0}
    BY <1>2
  <2>4. mapped' \subseteq 0 .. NumBufs - 1
    BY DEF TypeOK
  <2> QED BY <1>2, <2>1, <2>2, <2>3, <2>4 DEF TypeOK
<1>4. Ownership' /\ Contents' /\ Unwinding'
  BY <1>1, <1>2 DEF Ownership, Contents, Unwinding, Allocating, Syscalls
<1>5. NothingLeft'
  BY <1>1, <1>2 DEF NothingLeft
<1>6. Stopped' /\ Blame' /\ Aborted'
  BY <1>1, <1>2 DEF Stopped, Blame, Aborted, Fallible
<1>7. Healthy'
  BY <1>1, <1>2 DEF Healthy, Fallible
<1> QED BY <1>3, <1>4, <1>5, <1>6, <1>7

\* Drop for Arena begins: there is something to unmap, or the arena is empty.
LEMMA DropArenaPreserves ==
  ASSUME IInv, UNCHANGED << faults, fdOpen, plugged, allocated, mapped >>, fdOpen,
         NEW hs \in SUBSET holders, "arena" \in hs, NEW r \in {"ok", "error"},
         NEW p \in BOOLEAN,
         DropArena(hs, r, p),
         on' \in BOOLEAN, mapped = 0 .. bufs - 1,
         p => "STREAMOFF" \in Fallible,
         on' /\ plugged => Fallible \cap {"STREAMOFF", "MUNMAP"} # {}
  PROVE  IInv'
<1> USE NumBufsAssumption DEF IInv
<1>1. CASE bufs = 0 /\ Holders(hs \ {"arena"}, r, p)
  <2>1. mapped = {}
    BY <1>1
  <2> QED BY <1>1, <2>1, HoldersPreserves DEF TypeOK
<1>2. CASE /\ bufs # 0 /\ at' = "MUNMAP" /\ index' = 0
           /\ holders' = hs /\ outcome' = r /\ panicking' = p
           /\ UNCHANGED << live, bufs, asked >>
  <2> USE <1>2 DEF faults
  <2>1. TypeOK'
    BY DEF TypeOK, Syscalls
  <2>2. Ownership' /\ Contents' /\ Unwinding' /\ NothingLeft'
    BY DEF TypeOK, Ownership, Contents, Unwinding, NothingLeft, Allocating, Syscalls
  <2>3. Stopped' /\ Blame' /\ Aborted'
    BY DEF Stopped, Blame, Aborted, Fallible
  <2>4. Healthy'
    BY DEF Healthy, Fallible
  <2> QED BY <2>1, <2>2, <2>3, <2>4
<1> QED BY <1>1, <1>2 DEF DropArena

\* A destructor panics.
LEMMA ArenaPanicsPreserves ==
  ASSUME IInv, UNCHANGED << faults, fdOpen, plugged, allocated, on, mapped >>,
         at \in {"MUNMAP", "FREEBUFS"}, ArenaPanics,
         "MUNMAP" \notin failing => mapped = {},
         at \in Fallible \/ (on /\ plugged /\ at = "FREEBUFS")
  PROVE  IInv'
<1> USE DEF IInv
<1>1. fdOpen
  BY DEF Ownership, Syscalls
<1>2. on /\ plugged => Fallible \cap {"STREAMOFF", "MUNMAP"} # {}
  BY DEF Stopped
<1>3. CASE panicking /\ Abort
  <2> USE <1>3 DEF Abort, faults
  <2>1. TypeOK'
    BY DEF TypeOK
  <2>2. Aborted'
    <3>1. "STREAMOFF" \in Fallible
      BY DEF Blame
    <3> QED BY <3>1 DEF Aborted, Fallible
  <2>3. Stopped' /\ Blame' /\ Healthy'
    BY <1>2 DEF Stopped, Blame, Healthy, Fallible
  <2> QED BY <2>1, <2>2, <2>3
          DEF Ownership, Contents, NothingLeft, Unwinding, Allocating, Syscalls
<1>4. CASE ~panicking /\ ArenaDropped(TRUE)
  <2>1. Fallible \cap {"STREAMOFF", "MUNMAP", "FREEBUFS"} # {}
    BY <1>2
  <2>2. outcome \in {"none", "ok", "error", "panic"} /\ on \in BOOLEAN
        /\ allocated \in 0 .. NumBufs
    BY DEF TypeOK
  <2> QED BY <1>1, <1>2, <1>4, <2>1, <2>2, HoldersPreserves DEF ArenaDropped
<1> QED BY <1>3, <1>4 DEF ArenaPanics

-------------------------------------------------------------------------------
(* Opening, cloning and dropping handles; the device comes and goes.       *)

LEMMA HandlesPreserve ==
  ASSUME IInv, UNCHANGED faults,
         OpenDevice \/ CloneHandle \/ \E h \in {"device", "user"} : DropHolder(h)
  PROVE  IInv'
<1> USE DEF IInv, kernel, faults
<1>1. CASE OpenDevice
  <2> USE <1>1 DEF OpenDevice
  <2>1. TypeOK' /\ Ownership'
    BY DEF TypeOK, Ownership, Syscalls
  <2>2. Contents' /\ NothingLeft' /\ Unwinding'
    BY DEF Contents, NothingLeft, Unwinding, Allocating, Ownership
  <2>3. Stopped' /\ Blame' /\ Healthy' /\ Aborted'
    BY DEF Stopped, Blame, Healthy, Aborted, Fallible, Ownership, Unwinding
  <2> QED BY <2>1, <2>2, <2>3
<1>2. CASE CloneHandle
  <2> USE <1>2 DEF CloneHandle
  <2>1. TypeOK' /\ Ownership'
    BY DEF TypeOK, Ownership, Syscalls
  <2>2. Contents' /\ NothingLeft' /\ Unwinding'
    BY DEF Contents, NothingLeft, Unwinding, Allocating
  <2>3. Stopped' /\ Blame' /\ Healthy' /\ Aborted'
    BY DEF Stopped, Blame, Healthy, Aborted, Fallible, Unwinding
  <2> QED BY <2>1, <2>2, <2>3
<1>3. ASSUME NEW h \in {"device", "user"}, DropHolder(h) PROVE IInv'
  <2> USE <1>3 DEF DropHolder
  <2>1. TypeOK' /\ Ownership'
    BY DEF TypeOK, Ownership, Syscalls
  <2>2. Contents' /\ NothingLeft' /\ Unwinding'
    BY DEF Contents, NothingLeft, Unwinding, Allocating, Ownership
  <2>3. Stopped' /\ Blame' /\ Healthy' /\ Aborted'
    BY DEF Stopped, Blame, Healthy, Aborted, Fallible, Ownership, Unwinding
  <2> QED BY <2>1, <2>2, <2>3
<1> QED BY <1>1, <1>2, <1>3

LEMMA ClosePreserves == IInv /\ Close /\ UNCHANGED faults => IInv'
<1> SUFFICES ASSUME IInv, Close, UNCHANGED faults PROVE IInv'
  OBVIOUS
<1> USE NumBufsAssumption DEF IInv, faults
<1>1. /\ at = "CLOSE" /\ fdOpen' = FALSE /\ holders = {} /\ ~live
      /\ allocated' \in 0 .. NumBufs /\ on' = (on /\ mapped # {})
      /\ UNCHANGED << holders, live, bufs, index, asked, plugged, mapped >>
  BY DEF Close, Ownership, TypeOK
<1>2. \/ Return(outcome, panicking)
      \/ Errs /\ panicking /\ Abort
      \/ Errs /\ ~panicking /\ Return(outcome, TRUE)
  BY DEF Close
<1>3. Errs => "CLOSE" \in Fallible
  BY <1>1 DEF Errs, Gone, Signalled, Refused, Fallible
<1>4. index = 0
  BY <1>1 DEF Contents
<1>5. TypeOK' /\ Ownership'
  BY <1>1, <1>2 DEF TypeOK, Ownership, Return, Abort, Syscalls
<1>6. Contents' /\ Unwinding'
  BY <1>1, <1>2, <1>4 DEF Contents, Unwinding, Return, Abort, Allocating
<1>7. NothingLeft'
  BY <1>1, <1>2 DEF NothingLeft, Return, Abort
<1>8. Stopped'
  BY <1>1, <1>2 DEF Stopped, NothingLeft, Fallible
<1>9. Blame' /\ Healthy'
  BY <1>1, <1>2, <1>3 DEF Blame, Healthy, Fallible, Return, Abort
<1>10. Aborted'
  <2>1. CASE Return(outcome, panicking) \/ Return(outcome, TRUE)
    BY <2>1 DEF Aborted, Return
  <2>2. CASE Errs /\ panicking /\ Abort
    <3>1. \E s \in Fallible : s # "CLOSE"
      BY <1>1, <2>2 DEF Blame
    <3> QED BY <1>3, <2>2, <3>1 DEF Aborted, Fallible
  <2> QED BY <1>2, <2>1, <2>2
<1> QED BY <1>5, <1>6, <1>7, <1>8, <1>9, <1>10

LEMMA DevicePreserves ==
  ASSUME IInv, UNCHANGED faults,
         Unplug \/ Replug \/ \E b \in BOOLEAN : SetStreaming(b)
  PROVE  IInv'
<1> USE DEF IInv, process, faults
<1>1. /\ UNCHANGED << process, fdOpen, allocated, mapped >>
      /\ plugged' \in BOOLEAN /\ on' \in BOOLEAN
  BY DEF Unplug, Replug, SetStreaming, TypeOK
<1>2. TypeOK' /\ Ownership'
  BY <1>1 DEF TypeOK, Ownership
<1>3. Contents' /\ NothingLeft' /\ Unwinding'
  BY <1>1 DEF Contents, NothingLeft, Unwinding
<1>4. Stopped'
  <2>1. SetStreaming(TRUE) \/ SetStreaming(FALSE) => live /\ at = "app" /\ fdOpen
    BY DEF SetStreaming, Ownership
  <2> QED BY <1>1, <2>1 DEF Stopped, Unplug, Replug, SetStreaming, Fallible
<1>5. Blame' /\ Healthy'
  BY <1>1 DEF Blame, Healthy, Fallible
<1>6. Aborted'
  BY <1>1 DEF Aborted, Fallible, Unplug, Replug, SetStreaming
<1> QED BY <1>2, <1>3, <1>4, <1>5, <1>6

-------------------------------------------------------------------------------
(* Building a stream.                                                      *)

LEMMA WithBuffersPreserves ==
  ASSUME IInv, UNCHANGED faults, NEW count \in Counts, WithBuffers(count)
  PROVE  IInv'
<1> USE NumBufsAssumption DEF IInv, WithBuffers, kernel, faults
<1>1. TypeOK' /\ Ownership'
  BY DEF TypeOK, Ownership, Syscalls
<1>2. Contents' /\ NothingLeft' /\ Unwinding'
  BY DEF Contents, NothingLeft, Unwinding, Allocating
<1>3. Stopped' /\ Blame' /\ Healthy' /\ Aborted'
  BY DEF Stopped, Blame, Healthy, Aborted, Fallible, Unwinding
<1> QED BY <1>1, <1>2, <1>3

LEMMA PrefixWithin ==
  \A n \in Nat : \A b \in 0 .. n : 0 .. b - 1 \subseteq 0 .. n - 1
OBVIOUS

\* The arena is complete and becomes part of a stream.
LEMMA BuiltPreserves ==
  ASSUME IInv, UNCHANGED << faults, panicking, fdOpen, plugged, on >>,
         at \in Allocating, Built, plugged,
         allocated' \in 0 .. NumBufs, bufs' = allocated', mapped' = 0 .. bufs' - 1
  PROVE  IInv'
<1> USE NumBufsAssumption DEF IInv, Built, faults
<1>1. "arena" \in holders /\ fdOpen /\ ~panicking
  BY DEF Ownership, Unwinding, Allocating, Syscalls
<1>2. TypeOK'
  <2>1. at' = "app" /\ live' = TRUE /\ outcome' = "ok" /\ index' = 0 /\ asked' = 0
    OBVIOUS
  <2>2. holders' \subseteq {"device", "stream", "arena", "user"}
    BY DEF TypeOK
  <2>3. bufs' \in 0 .. NumBufs
    OBVIOUS
  <2>4. mapped' \subseteq 0 .. NumBufs - 1
    BY <2>3, PrefixWithin, NumBufsAssumption
  <2>5. /\ at' \in Syscalls \cup {"app", "aborted"} /\ live' \in BOOLEAN
        /\ outcome' \in {"none", "ok", "error", "panic"}
        /\ asked' \in Counts \cup {0} /\ index' \in 0 .. NumBufs - 1
    BY <2>1
  <2>6. /\ panicking' \in BOOLEAN /\ fdOpen' \in BOOLEAN
        /\ plugged' \in BOOLEAN /\ on' \in BOOLEAN
        /\ interruptible' \in SignalSets /\ failing' \in ErrorSets
    BY DEF TypeOK
  <2> QED BY <2>2, <2>3, <2>4, <2>5, <2>6 DEF TypeOK
<1>3. Ownership'
  BY <1>1 DEF Ownership, Syscalls
<1>4. Contents' /\ NothingLeft' /\ Unwinding'
  BY <1>1 DEF Contents, NothingLeft, Unwinding, Allocating
<1>5. Stopped' /\ Blame' /\ Healthy' /\ Aborted'
  BY <1>1 DEF Stopped, Blame, Healthy, Aborted, Fallible, Allocating
<1> QED BY <1>2, <1>3, <1>4, <1>5

LEMMA ReqbufsPreserves == IInv /\ Reqbufs /\ UNCHANGED faults => IInv'
<1> SUFFICES ASSUME IInv, Reqbufs, UNCHANGED faults PROVE IInv'
  OBVIOUS
<1> USE NumBufsAssumption DEF IInv
<1>1. /\ at = "REQBUFS" /\ plugged /\ bufs = 0 /\ mapped = {} /\ ~live
      /\ UNCHANGED << bufs, panicking, fdOpen, plugged, mapped, on >>
  BY DEF Reqbufs, Succeeds, Gone, Contents, Allocating
<1>2. CASE asked = 0 /\ allocated' = 0 /\ Built
  BY <1>1, <1>2, BuiltPreserves DEF Allocating
<1>3. CASE /\ asked # 0 /\ allocated' \in 1 .. NumBufs
           /\ at' = "QUERYBUF" /\ index' = 0
           /\ UNCHANGED << holders, live, asked, outcome >>
  <2> USE <1>1, <1>3 DEF faults
  <2>1. TypeOK' /\ Ownership'
    BY DEF TypeOK, Ownership, Syscalls
  <2>2. Contents' /\ NothingLeft' /\ Unwinding'
    BY DEF Contents, NothingLeft, Unwinding, Allocating
  <2>3. Stopped' /\ Blame' /\ Healthy' /\ Aborted'
    BY DEF Stopped, Blame, Healthy, Aborted, Fallible, Unwinding, Allocating
  <2> QED BY <2>1, <2>2, <2>3
<1> QED BY <1>2, <1>3 DEF Reqbufs

LEMMA QuerybufPreserves == IInv /\ Querybuf /\ UNCHANGED faults => IInv'
<1> SUFFICES ASSUME IInv, Querybuf, UNCHANGED faults PROVE IInv'
  OBVIOUS
<1> USE DEF IInv, Querybuf, kernel, faults
<1>1. TypeOK' /\ Ownership'
  BY DEF TypeOK, Ownership, Syscalls
<1>2. Contents' /\ NothingLeft' /\ Unwinding'
  BY DEF Contents, NothingLeft, Unwinding, Allocating
<1>3. Stopped' /\ Blame' /\ Healthy' /\ Aborted'
  BY DEF Stopped, Blame, Healthy, Aborted, Fallible, Unwinding
<1> QED BY <1>1, <1>2, <1>3

LEMMA MmapPreserves == IInv /\ Mmap /\ UNCHANGED faults => IInv'
<1> SUFFICES ASSUME IInv, Mmap, UNCHANGED faults PROVE IInv'
  OBVIOUS
<1> USE NumBufsAssumption DEF IInv
<1>1. /\ at = "MMAP" /\ plugged /\ ~live /\ bufs = index /\ index < allocated
      /\ mapped = 0 .. index - 1 /\ index \in Nat
      /\ allocated \in 0 .. NumBufs /\ allocated' = allocated
      /\ UNCHANGED << panicking, fdOpen, plugged, allocated, on >>
  BY DEF Mmap, Succeeds, Gone, Contents, Allocating, TypeOK
<1>2. bufs' = index + 1 /\ mapped' = 0 .. index
  BY <1>1 DEF Mmap
<1>3. CASE index + 1 = allocated /\ Built
  <2>1. mapped' = 0 .. bufs' - 1 /\ bufs' = allocated'
    BY <1>1, <1>2, <1>3
  <2> QED BY <1>1, <1>3, <2>1, BuiltPreserves DEF Allocating
<1>4. CASE /\ index + 1 < allocated /\ at' = "QUERYBUF" /\ index' = index + 1
           /\ UNCHANGED << holders, live, asked, outcome >>
  <2> USE <1>1, <1>2, <1>4 DEF faults
  <2>1. TypeOK'
    BY DEF TypeOK, Syscalls
  <2>2. Ownership'
    BY DEF Ownership, Syscalls
  <2>3. Contents' /\ NothingLeft' /\ Unwinding'
    BY DEF Contents, NothingLeft, Unwinding, Allocating
  <2>4. Stopped' /\ Blame' /\ Healthy' /\ Aborted'
    BY DEF Stopped, Blame, Healthy, Aborted, Fallible, Unwinding, Allocating
  <2> QED BY <2>1, <2>2, <2>3, <2>4
<1> QED BY <1>3, <1>4 DEF Mmap, MmapNext

LEMMA AllocateFailsPreserves == IInv /\ AllocateFails /\ UNCHANGED faults => IInv'
<1> SUFFICES ASSUME IInv, AllocateFails, UNCHANGED faults PROVE IInv'
  OBVIOUS
<1> USE DEF IInv
<1>1. at \in Allocating /\ "arena" \in holders /\ fdOpen
  BY DEF AllocateFails, Ownership, Allocating, Syscalls
<1>2. mapped = 0 .. bufs - 1
  BY <1>1 DEF Contents, Allocating
<1>3. UNCHANGED kernel /\ on \in BOOLEAN
  BY DEF AllocateFails, TypeOK
<1>4. on /\ plugged => Fallible \cap {"STREAMOFF", "MUNMAP"} # {}
  BY <1>1 DEF Stopped, Allocating
<1>5. DropArena(holders, "error", FALSE)
  BY DEF AllocateFails
<1>6. UNCHANGED << faults, fdOpen, plugged, allocated, mapped, on >>
  BY <1>3 DEF kernel
<1> QED BY <1>1, <1>2, <1>3, <1>4, <1>5, <1>6, DropArenaPreserves

-------------------------------------------------------------------------------
(* Dropping it.                                                            *)

LEMMA DropStreamPreserves == IInv /\ DropStream /\ UNCHANGED faults => IInv'
<1> SUFFICES ASSUME IInv, DropStream, UNCHANGED faults PROVE IInv'
  OBVIOUS
<1> USE DEF IInv, DropStream, kernel, faults
<1>1. TypeOK' /\ Ownership'
  BY DEF TypeOK, Ownership, Syscalls
<1>2. Contents' /\ NothingLeft' /\ Unwinding'
  BY DEF Contents, NothingLeft, Unwinding, Allocating
<1>3. Stopped' /\ Blame' /\ Healthy' /\ Aborted'
  BY DEF Stopped, Blame, Healthy, Aborted, Fallible, Unwinding
<1> QED BY <1>1, <1>2, <1>3

LEMMA StreamoffPreserves == IInv /\ Streamoff /\ UNCHANGED faults => IInv'
<1> SUFFICES ASSUME IInv, Streamoff, UNCHANGED faults PROVE IInv'
  OBVIOUS
<1> USE DEF IInv
<1>1. /\ at = "STREAMOFF" /\ fdOpen /\ "arena" \in holders \ {"stream"}
      /\ mapped = 0 .. bufs - 1
      /\ UNCHANGED << fdOpen, plugged, allocated, mapped >>
  BY DEF Streamoff, Ownership, Contents, Syscalls
<1>2. PICK p \in BOOLEAN :
         /\ DropStreamFields(p) /\ on' \in BOOLEAN
         /\ p => "STREAMOFF" \in Fallible
         /\ on' /\ plugged => "STREAMOFF" \in Fallible
  BY <1>1 DEF Streamoff, Signalled, Refused, Gone, TypeOK, Fallible
<1> QED BY <1>1, <1>2, DropArenaPreserves DEF DropStreamFields

LEMMA MunmapPreserves == IInv /\ Munmap /\ UNCHANGED faults => IInv'
<1> SUFFICES ASSUME IInv, Munmap, UNCHANGED faults PROVE IInv'
  OBVIOUS
<1> USE NumBufsAssumption DEF IInv
<1>1. /\ at = "MUNMAP" /\ index < bufs /\ mapped = index .. bufs - 1
      /\ UNCHANGED << fdOpen, plugged, allocated, on >>
      /\ index \in Nat /\ bufs \in 0 .. NumBufs
  BY DEF Munmap, Contents, TypeOK
<1>2. CASE mapped' = mapped \ {index} /\ MunmapNext
  <2> USE <1>1, <1>2 DEF MunmapNext, faults
  <2>1. mapped' = index + 1 .. bufs - 1
    OBVIOUS
  <2>2. TypeOK'
    BY DEF TypeOK, Syscalls
  <2>3. Ownership' /\ NothingLeft' /\ Unwinding'
    BY DEF Ownership, NothingLeft, Unwinding, Allocating, Syscalls
  <2>4. Contents'
    BY <2>1 DEF Contents, Allocating
  <2>5. Stopped' /\ Blame' /\ Healthy' /\ Aborted'
    BY DEF Stopped, Blame, Healthy, Aborted, Fallible
  <2> QED BY <2>2, <2>3, <2>4, <2>5
<1>3. CASE Errs /\ UNCHANGED mapped /\ ArenaPanics
  <2>1. "MUNMAP" \in failing
    BY <1>1, <1>3, SyscallsAssumption DEF Errs, Gone, Signalled, Refused, TypeOK
  <2>2. at \in Fallible
    BY <1>1, <2>1 DEF Fallible
  <2> QED BY <1>1, <1>3, <2>1, <2>2, ArenaPanicsPreserves
<1> QED BY <1>2, <1>3 DEF Munmap

LEMMA FreebufsPreserves == IInv /\ Freebufs /\ UNCHANGED faults => IInv'
<1> SUFFICES ASSUME IInv, Freebufs, UNCHANGED faults PROVE IInv'
  OBVIOUS
<1> USE NumBufsAssumption DEF IInv
<1>1. /\ at = "FREEBUFS" /\ fdOpen /\ mapped = {} /\ "arena" \in holders
      /\ UNCHANGED << fdOpen, plugged, mapped, on >>
      /\ on \in BOOLEAN /\ panicking \in BOOLEAN
      /\ outcome \in {"none", "ok", "error", "panic"}
  BY DEF Freebufs, Contents, Ownership, TypeOK, Syscalls
<1>2. /\ Fallible = {} => outcome # "panic"
      /\ panicking => "STREAMOFF" \in Fallible
      /\ on /\ plugged => Fallible \cap {"STREAMOFF", "MUNMAP"} # {}
  BY <1>1 DEF Healthy, Blame, Stopped
<1>3. CASE allocated' \in 0 .. NumBufs /\ ArenaDropped(panicking)
  BY <1>1, <1>2, <1>3, HoldersPreserves DEF ArenaDropped
<1>4. CASE (Signalled \/ Refused) /\ UNCHANGED allocated /\ ArenaPanics
  <2>1. at \in Fallible \/ (on /\ plugged)
    BY <1>1, <1>4 DEF Signalled, Refused, Gone, Fallible
  <2> QED BY <1>1, <1>4, <2>1, ArenaPanicsPreserves
<1> QED BY <1>3, <1>4 DEF Freebufs, TypeOK

-------------------------------------------------------------------------------
(* The theorems.                                                           *)

LEMMA StepPreserves == IInv /\ [Next]_vars => IInv'
<1> SUFFICES ASSUME IInv, [Next]_vars PROVE IInv'
  OBVIOUS
<1>1. CASE UNCHANGED vars
  BY <1>1 DEF vars, process, kernel, faults, IInv, TypeOK, Ownership, Contents,
              NothingLeft, Unwinding, Stopped, Blame, Healthy, Aborted, Fallible
<1>2. CASE Next
  BY <1>2, HandlesPreserve, ClosePreserves, DevicePreserves, WithBuffersPreserves,
     ReqbufsPreserves, QuerybufPreserves, MmapPreserves, AllocateFailsPreserves,
     DropStreamPreserves, StreamoffPreserves, MunmapPreserves, FreebufsPreserves
     DEF Next, Step
<1> QED BY <1>1, <1>2

LEMMA Invariance == Spec => []IInv
BY InitIInv, StepPreserves, PTL DEF Spec

\* Every reachable state is well-typed: the loops of allocate and release stay
\* within the buffers granted, for any number of them (arena.rs:66, 96).
THEOREM LifecycleTypeCorrect == Spec => []TypeOK
<1>1. IInv => TypeOK
  BY DEF IInv
<1> QED BY <1>1, Invariance, PTL

\* Every system call finds the descriptor open, in whatever order the device, its
\* clones and the stream are dropped (device.rs:408-412).
THEOREM NeverUsedAfterClose == Spec => []NoUseAfterClose
<1>1. IInv => NoUseAfterClose
  BY DEF IInv, Ownership, NoUseAfterClose
<1> QED BY <1>1, Invariance, PTL

\* A stream has mapped exactly the buffers that the driver granted (arena.rs:66-93).
THEOREM ArenaComplete == Spec => []ArenaCoversQueue
<1>1. IInv => ArenaCoversQueue
  BY DEF IInv, Contents, ArenaCoversQueue
<1> QED BY <1>1, Invariance, PTL

\* No mapping outlives the stream, or an attempt to build it, as long as munmap
\* works (arena.rs:11, 96-103).
THEOREM MappingsAlwaysFreed == Spec => []MappingsFreed
<1>1. IInv => MappingsFreed
  BY DEF IInv, NothingLeft, MappingsFreed
<1> QED BY <1>1, Invariance, PTL

\* Unplugging the device never makes a drop panic (stream.rs:369-374,
\* arena.rs:130-135), and to abort takes two kinds of system call that fail, or a
\* queue that streams on (stream.rs:378, device.rs:408-412).
THEOREM PanicsAreContained == Spec => []PanicsContained
<1>1. IInv => PanicsContained
  BY DEF IInv, Healthy, Aborted, Fallible, PanicsContained
<1> QED BY <1>1, Invariance, PTL

\* An arena that goes without a panic gives the driver its buffers back, unless it
\* is empty (arena.rs:103-126).
THEOREM ReleasedWhenDropped == Spec => ReleasedUnlessEmpty
<1> DEFINE Released ==
      "arena" \in holders \ holders' /\ plugged /\ ~panicking' /\ outcome' # "panic"
        => (allocated' = 0 /\ ~on') \/ bufs = 0
<1>1. [Next]_vars => Released
  <2> SUFFICES ASSUME Next, "arena" \in holders \ holders', plugged, ~panicking',
                      outcome' # "panic", bufs # 0
               PROVE  allocated' = 0 /\ ~on'
    BY DEF vars, process
  <2>1. Freebufs \/ Munmap \/ Streamoff \/ AllocateFails
    BY DEF Next, Step, OpenDevice, CloneHandle, DropHolder, Close, WithBuffers, Reqbufs,
           Querybuf, Mmap, MmapNext, Built, DropStream, SetStreaming, Unplug, Replug,
           process
  <2>2. ~ArenaDropped(TRUE)
    BY DEF ArenaDropped, Holders, Return
  <2>3. ~ArenaPanics
    BY <2>2 DEF ArenaPanics, Abort
  <2>4. ~Streamoff /\ ~AllocateFails
    BY DEF Streamoff, AllocateFails, DropStreamFields, DropArena
  <2>5. ~Munmap
    BY <2>3 DEF Munmap, MunmapNext
  <2>6. Freebufs
    BY <2>1, <2>4, <2>5
  <2> QED BY <2>3, <2>6 DEF Freebufs, Succeeds, Gone
<1> QED BY <1>1, PTL DEF Spec, ReleasedUnlessEmpty

===============================================================================
