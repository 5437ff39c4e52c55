-------------------------------- MODULE Forward --------------------------------
(***************************************************************************)
(* The program of examples/stream_forward_mmap.rs: it copies frames from a *)
(* capture stream to an output stream.  The two streams are what their     *)
(* specifications promise (FrameSource, FrameSink), the devices behind     *)
(* them work on their own.                                                 *)
(*                                                                         *)
(* The drop of a stream that fails is left to StreamLifecycle.             *)
(***************************************************************************)
EXTENDS Sequences, Integers

CONSTANTS
  Frames, Blank,   \* what a frame can be; an output buffer nobody has written
  None,            \* no buffer in hand
  Shapes,          \* width, height and fourcc of a format
  Lengths,         \* of the buffers the two drivers allocate
  Capacity,        \* how many captured frames can wait
  Count            \* the program's count

\* Bound on the frames captured in a run: two more than the program takes.
MaxProduced == Count + 3

ASSUME CountAssumption    == Count \in Nat \ {0}
ASSUME LengthAssumption   == Lengths \subseteq Nat
ASSUME CapacityAssumption == Capacity \in Nat

VARIABLES
  (* fn main *)
  pc,          \* what it does next
  warm,        \* the warmup frame was taken
  i,           \* the loop variable
  lengths,     \* of the slices the two streams return
  result,      \* how main ends
  (* the two streams *)
  on, ready, view, active, inHand, pending, shown,
  (* history of the devices *)
  produced,    \* the frames captured
  displayed    \* the frames shown

main    == << pc, warm, i, lengths, result >>
source  == << on, ready, view >>
sink    == << active, inHand, pending, shown >>
history == << produced, displayed >>
vars    == << main, source, sink, history >>

Source == INSTANCE FrameSource
Sink   == INSTANCE FrameSink WITH on <- active

Sides == {"in", "out"}

ProgramTypes ==
  /\ pc \in {"setup", "capture", "poll", "output", "copy", "drop_out", "drop_in", "end"}
  /\ warm \in BOOLEAN
  /\ i \in 0 .. Count
  /\ lengths \in [Sides -> Lengths \cup {0}]
  /\ result \in {"none", "ok", "error", "panic"}

SourceTypes ==
  /\ on \in BOOLEAN
  /\ view \in Frames \cup {None}
  /\ ready \in Seq(Frames) /\ Len(ready) <= Capacity

SinkTypes ==
  /\ active \in BOOLEAN
  /\ inHand \in Frames \cup {Blank, None}
  /\ pending \in Seq(Frames) /\ shown \in Seq(Frames)
  /\ Len(pending) + Len(shown) <= 1

HistoryTypes == produced \in Seq(Frames) /\ displayed \in Seq(Frames)

TypeOK == ProgramTypes /\ SourceTypes /\ SinkTypes /\ HistoryTypes

Init ==
  /\ pc = "setup" /\ warm = FALSE /\ i = 0
  /\ lengths = [s \in Sides |-> 0] /\ result = "none"
  /\ Source!Init /\ Sink!Init
  /\ produced = << >> /\ displayed = << >>

-------------------------------------------------------------------------------
\* The end of main: ?, the last expression or a panic, then the drops.
Leave(r) ==
  /\ pc' = "drop_out" /\ result' = r
  /\ UNCHANGED << warm, lengths >>

Goto(p) == pc' = p /\ UNCHANGED << warm, i, lengths, result >>

\* The sink is told the format of the source, and both streams get buffers
\* whose lengths the drivers choose.
Setup ==
  /\ pc = "setup"
  /\ \E asked, granted \in Shapes :
       \/ /\ asked = granted
          /\ \E l \in [Sides -> Lengths] : lengths' = l
          /\ pc' = "capture" /\ UNCHANGED << warm, i, result >>
       \/ asked # granted /\ Leave("error") /\ UNCHANGED i
  /\ UNCHANGED << source, sink, history >>

\* CaptureStream::next: the frame lent before is given up, the first call
\* starts the device, then it waits for a frame.
NextIn ==
  /\ pc = "capture" /\ Goto("poll")
  /\ Source!Call
  /\ UNCHANGED << sink, history >>

StartIn ==
  /\ pc = "poll" /\ ~on /\ Goto("poll")
  /\ Source!Start
  /\ UNCHANGED << sink, history >>

\* Mutant: the warmup frame is forwarded.
ReceiveIn_KeepsWarmup ==
  /\ pc = "poll" /\ pc' = "output" /\ warm' = TRUE
  /\ Source!Deliver
  /\ UNCHANGED << i, lengths, result, sink, history >>

\* The frame of the first call is not used.
ReceiveIn ==
  /\ pc = "poll" /\ pc' = (IF warm THEN "output" ELSE "capture")
  /\ warm' = TRUE
  /\ Source!Deliver
  /\ UNCHANGED << i, lengths, result, sink, history >>

\* OutputStream::next: the first call starts the device and lends a buffer,
\* a later one queues the buffer lent before and takes back one the device has
\* finished, without waiting for it.
StartOut ==
  /\ pc = "output" /\ ~active /\ Goto("copy")
  /\ Sink!Start
  /\ UNCHANGED << source, history >>

QueueOut ==
  /\ pc = "output" /\ active /\ Goto("output")
  /\ Sink!HandOver
  /\ UNCHANGED << source, history >>

ReceiveOut ==
  /\ pc = "output" /\ active /\ Goto("copy")
  /\ Sink!GiveBack
  /\ UNCHANGED << source, history >>

\* Mutant: DQBUF waits for the device.
Again_Waits ==
  /\ pc = "output" /\ active /\ inHand = None /\ shown = << >>
  /\ UNCHANGED vars

Again ==
  /\ pc = "output" /\ active /\ inHand = None /\ shown = << >>
  /\ Leave("error")
  /\ UNCHANGED << i, source, sink, history >>

\* Either next fails, at any of its system calls.
Fails ==
  /\ pc = "setup" \/ pc = "poll" \/ pc = "output"
  /\ Leave("error")
  /\ UNCHANGED << i, source, sink, history >>

\* The output buffer is cut to the length of the input, which panics when it is
\* shorter, and gets the bytes and the bytesused of the frame.
CopyTooLong ==
  /\ pc = "copy" /\ lengths["in"] > lengths["out"]
  /\ Leave("panic")
  /\ UNCHANGED << i, source, sink, history >>

\* Mutant: one round too many.
Copy_OneTooMany ==
  /\ pc = "copy" /\ lengths["in"] <= lengths["out"]
  /\ Sink!Fill(view)
  /\ i' = i + 1
  /\ \/ i' <= Count /\ pc' = "capture" /\ UNCHANGED << warm, lengths, result >>
     \/ i' > Count /\ Leave("ok")
  /\ UNCHANGED << source, history >>

Copy ==
  /\ pc = "copy" /\ lengths["in"] <= lengths["out"]
  /\ Sink!Fill(view)
  /\ i' = i + 1
  /\ \/ i' < Count /\ pc' = "capture" /\ UNCHANGED << warm, lengths, result >>
     \/ i' = Count /\ Leave("ok")
  /\ UNCHANGED << source, history >>

\* Locals are dropped in the reverse of the order they were declared in; each
\* drop turns its stream off.
DropOut ==
  /\ pc = "drop_out" /\ Goto("drop_in")
  /\ Sink!Stop /\ Source!Call
  /\ UNCHANGED history

DropIn ==
  /\ pc = "drop_in" /\ Goto("end")
  /\ Source!Stop
  /\ UNCHANGED << sink, history >>

-------------------------------------------------------------------------------
Produce ==
  /\ Len(produced) < MaxProduced
  /\ \E f \in Frames : Source!Produce(f) /\ produced' = Append(produced, f)
  /\ UNCHANGED << main, sink, displayed >>

Show ==
  /\ Sink!Show
  /\ displayed' = Append(displayed, Head(pending))
  /\ UNCHANGED << main, source, produced >>

Program ==
  \/ Setup
  \/ NextIn \/ StartIn \/ ReceiveIn
  \/ StartOut \/ QueueOut \/ ReceiveOut \/ Again
  \/ Copy \/ CopyTooLong
  \/ DropOut \/ DropIn

Next == Program \/ Fails \/ Produce \/ Show

Spec == Init /\ [][Next]_vars

\* The program runs, and the source captures; the sink may never finish a frame.
FairSpec == Spec /\ WF_vars(Program) /\ WF_vars(Produce)

-------------------------------------------------------------------------------
(* Properties.                                                             *)

\* What the sink shows is what the source captured after the warmup frame, in
\* that order and without a gap, whatever fails on the way; a main that returns
\* Ok has shown all frames it copied but the last, which no further next hands
\* over (stream_forward_mmap.rs:55-70).
EndToEnd ==
  /\ \A k \in 1 .. Len(displayed) :
       k + 1 <= Len(produced) /\ displayed[k] = produced[k + 1]
  /\ result = "ok" => Len(displayed) = Count - 1

\* The program ends, with Ok, an error or a panic, also when the sink never
\* finishes a frame: next of an output stream fails instead of waiting
\* (stream_forward_mmap.rs:60-100, mmap/stream.rs:438-443).
Terminates == <>(pc = "end")

===============================================================================
