------------------------------- MODULE MmapOutput -------------------------------
(***************************************************************************)
(* The output side of src/io/mmap/stream.rs: impl OutputStream for Stream, *)
(* an application that fills the buffers it is lent, and a driver that     *)
(* drains the buffers it owns.  What CaptureStream has under the same name *)
(* begins with Output here, so that the proofs can speak of both.          *)
(***************************************************************************)
EXTENDS MmapStream

\* What a buffer holds is not the word for "no buffer".
ASSUME NoBufAssumption == NoBuf \notin Frames \cup {Blank}

-------------------------------------------------------------------------------
(* The public calls.                                                       *)

\* The first next starts the stream; it neither queues nor dequeues.
OutputNextStarting == ~active /\ Begin("next", "STREAMON", 0)

\* Later ones hand over the buffer lent last, unless an earlier next already
\* did and could not dequeue, and take one back.
OutputNextRunning ==
  /\ active
  /\ \/ ~buffer_queued[arena_index] /\ Begin("next", "POLL", arena_index)
     \/ buffer_queued[arena_index] /\ Begin("next", "DQBUF", 0)

output_next == (OutputNextStarting \/ OutputNextRunning) /\ UNCHANGED << stream, driver >>

\* OutputStream::queue reads buf_meta[index] before anything else.
output_queue(i) ==
  /\ \/ i \in Bufs /\ Begin("queue", "POLL", i)
     \/ i \notin Bufs /\ at = "app" /\ Return("panic", NoBuf)
  /\ UNCHANGED << stream, driver >>

\* OutputStream::dequeue does not wait.
output_dequeue == Begin("dequeue", "DQBUF", 0) /\ UNCHANGED << stream, driver >>

\* The application writes a frame, and its metadata, into the buffer it holds.
AppWrites ==
  /\ at = "app" /\ lent # NoBuf
  /\ \E f \in Frames :
       /\ content' = [content EXCEPT ![lent] = f]
       /\ buf_meta' = [buf_meta EXCEPT ![lent] = f]
  /\ UNCHANGED << queues, arena_index, active, timeout, call, app,
                  incoming, outgoing, streaming, plugged >>

-------------------------------------------------------------------------------
(* What follows a system call that succeeds.                               *)

\* The kernel may report room in the queue while the driver holds buffers.
OutputPollReady ==
  /\ at = "POLL"
  /\ Proceed("QBUF", index)
  /\ UNCHANGED << stream, driver >>

\* Mutant: next lends the buffer it queued without dequeueing one.
OutputQbuf_NoDequeue ==
  /\ QbufAccepts
  /\ \/ fn = "queue" /\ Return("ok", NoBuf)
     \/ fn = "next" /\ Return("ok", index)

OutputQbuf ==
  /\ QbufAccepts
  /\ \/ fn = "queue" /\ Return("ok", NoBuf)
     \/ fn = "next" /\ Proceed("DQBUF", 0)

\* The initial next lends the buffer arena_index stands at.
OutputStreamon ==
  /\ StreamonAccepts
  /\ \/ fn = "start" /\ Return("ok", NoBuf)
     \/ fn = "next" /\ Return("ok", arena_index)

-------------------------------------------------------------------------------
DriverDrains == Drains /\ UNCHANGED << stream, timeout, call, app >>

OutputSyscallStep ==
  \/ OutputPollReady \/ PollTimesOut
  \/ OutputQbuf \/ QbufInvalid
  \/ Dqbuf \/ DqbufEmpty
  \/ OutputStreamon \/ StreamoffAccepts
  \/ Interrupted \/ Refused

OutputEnvironment == DriverDrains \/ Tick \/ Unplug

\* An application calls next and stop, and fills every buffer it is lent before
\* it calls again, or it calls anything in any order.
Filled == lent # NoBuf => content[lent] # Blank

OutputApiCall ==
  \/ AppWrites
  \/ /\ onlyNext => Filled
     /\ output_next \/ stop \/ \E t \in Timeouts \cup {Infinite} : set_timeout(t)
  \/ ~onlyNext /\ (output_dequeue \/ start \/ \E i \in 0 .. NumBufs : output_queue(i))

OutputNext == (OutputApiCall \/ OutputSyscallStep \/ OutputEnvironment) /\ Steady

OutputSpec == Init /\ [][OutputNext]_vars

\* An application that fills every buffer and keeps asking for the next one,
\* and a device that stays plugged and keeps draining; not every attempt at a
\* system call that could succeed is interrupted.
OutputDelivery ==
  /\ [](plugged /\ onlyNext) /\ <>[](fn # "stop")
  /\ WF_vars(Filled /\ output_next /\ Steady) /\ WF_vars(AppWrites /\ ~Filled /\ Steady)
  /\ WF_vars(DriverDrains /\ Steady)
  /\ SF_vars(OutputPollReady /\ Steady) /\ SF_vars(OutputQbuf /\ Steady)
  /\ SF_vars(Dqbuf /\ Steady) /\ SF_vars(OutputStreamon /\ Steady)

-------------------------------------------------------------------------------
(* Properties of the application that only calls next and stop.            *)

\* The buffer lent is out of the device's reach and its metadata is that of the
\* bytes in it (stream.rs:438-449).
ClientLentIsStable == onlyNext => LentIsStable

\* The stream is a sink: every frame reaches the device once and in order, and
\* its buffer comes back after that, through retries after EAGAIN and timeouts
\* (stream.rs:438-443).  One buffer circulates: the others are never queued.
Sink == INSTANCE FrameSink
          WITH None <- NoBuf, on <- onlyNext /\ active,
               inHand <- IF onlyNext /\ active /\ ~buffer_queued[arena_index]
                           THEN content[arena_index] ELSE NoBuf,
               pending <- IF ~onlyNext \/ incoming = {} THEN << >>
                            ELSE << content[CHOOSE i \in incoming : TRUE] >>,
               shown <- IF ~onlyNext THEN << >>
                          ELSE [k \in 1 .. Len(outgoing) |-> content[outgoing[k]]]

ImplementsFrameSink == Sink!Spec

\* The application gets a buffer to fill again and again.
BuffersKeepComing == OutputDelivery => []<>(lent # NoBuf)

-------------------------------------------------------------------------------
\* stream.rs:436-437, of OutputStream::next: "The initial call ... will happen
\* just after the buffers have been allocated, meaning we need to return the
\* empty buffer initially so it can be filled": next lends a buffer the device
\* is not reading.
LendsFree == lent # NoBuf => ~DriverOwns(lent)

===============================================================================
