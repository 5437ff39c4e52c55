------------------------------ MODULE VideoQueue ------------------------------
(***************************************************************************)
(* The buffer queue a V4L2 driver keeps behind a file descriptor, as the   *)
(* streams of src/io use it through VIDIOC_QBUF, DQBUF, STREAMON and       *)
(* STREAMOFF and poll.  None of it is code of the crate.                   *)
(***************************************************************************)
EXTENDS Integers, Sequences

CONSTANTS
  NumBufs,     \* buffers granted by VIDIOC_REQBUFS
  Frames,      \* the values a buffer (or its metadata) can hold
  Blank        \* the contents of a buffer nobody has written yet

Bufs == 0 .. NumBufs - 1

ASSUME NumBufsAssumption == NumBufs \in Nat \ {0}
ASSUME BlankAssumption   == Blank \notin Frames

VARIABLES
  incoming,    \* buffers the driver may fill (or drain)
  outgoing,    \* completed buffers, oldest first
  streaming,
  plugged,
  content      \* the memory of each buffer

driver == << incoming, outgoing, streaming, plugged, content >>

Occupied(s)   == {s[k] : k \in 1 .. Len(s)}
DriverOwns(i) == i \in incoming \/ i \in Occupied(outgoing)

QueueTypeOK ==
  /\ incoming \subseteq Bufs
  /\ outgoing \in Seq(Bufs)
  /\ streaming \in BOOLEAN
  /\ plugged \in BOOLEAN
  /\ content \in [Bufs -> Frames \cup {Blank}]

QueueInit ==
  /\ incoming = {} /\ outgoing = << >>
  /\ streaming = FALSE /\ plugged = TRUE
  /\ content = [i \in Bufs |-> Blank]

-------------------------------------------------------------------------------
\* QBUF refuses a buffer that does not exist or that the driver has.
Refuses(i) == plugged /\ (i \notin Bufs \/ DriverOwns(i))

Takes(i) ==
  /\ plugged /\ i \in Bufs /\ ~DriverOwns(i)
  /\ incoming' = incoming \cup {i}
  /\ UNCHANGED << outgoing, streaming, plugged, content >>

\* The descriptor is O_NONBLOCK: DQBUF never waits for a buffer.
HasNone == plugged /\ streaming /\ outgoing = << >>
IsOff   == plugged /\ ~streaming

GivesBack(i) ==
  /\ plugged /\ streaming
  /\ outgoing # << >> /\ i = Head(outgoing)
  /\ outgoing' = Tail(outgoing)
  /\ UNCHANGED << incoming, streaming, plugged, content >>

TurnsOn ==
  /\ plugged /\ streaming' = TRUE
  /\ UNCHANGED << incoming, outgoing, plugged, content >>

\* STREAMOFF takes every buffer back from the driver, filled or not.
TurnsOff ==
  /\ plugged /\ streaming' = FALSE
  /\ incoming' = {} /\ outgoing' = << >>
  /\ UNCHANGED << plugged, content >>

\* poll returns when a buffer is done, with POLLERR when the queue does not
\* stream or the device is gone.
Ready == outgoing # << >> \/ ~streaming \/ ~plugged

-------------------------------------------------------------------------------
\* The driver completes one of its buffers, in any order: a capture driver
\* fills it, an output driver leaves it as it is.
Fills ==
  /\ streaming /\ plugged
  /\ \E i \in incoming, f \in Frames :
       /\ incoming' = incoming \ {i}
       /\ outgoing' = Append(outgoing, i)
       /\ content' = [content EXCEPT ![i] = f]
  /\ UNCHANGED << streaming, plugged >>

Drains ==
  /\ streaming /\ plugged
  /\ \E i \in incoming :
       /\ incoming' = incoming \ {i}
       /\ outgoing' = Append(outgoing, i)
  /\ UNCHANGED << streaming, plugged, content >>

Disappears ==
  /\ plugged /\ plugged' = FALSE
  /\ UNCHANGED << incoming, outgoing, streaming, content >>

===============================================================================
