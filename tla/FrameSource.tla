------------------------------ MODULE FrameSource ------------------------------
(***************************************************************************)
(* What a capture stream promises to an application that only asks it for  *)
(* the next frame: the frames arrive in the order the device completed     *)
(* them, each at most once, none is skipped while the stream runs, and the *)
(* frame in the application's hands does not change until its next call.   *)
(***************************************************************************)
EXTENDS Sequences, Naturals

CONSTANTS Frames,     \* what a frame can be
          None,       \* the application holds no frame
          Capacity    \* how many completed frames can wait

VARIABLES on,         \* the device is streaming
          ready,      \* completed frames, oldest first
          view        \* the frame in the application's hands

sourceVars == << on, ready, view >>

Init ==
  /\ on = FALSE
  /\ ready = << >>
  /\ view = None

Start ==
  /\ on' = TRUE
  /\ UNCHANGED << ready, view >>

Produce(f) ==
  /\ on /\ Len(ready) < Capacity
  /\ ready' = Append(ready, f)
  /\ UNCHANGED << on, view >>

\* The application calls, which ends its hold on the frame.
Call ==
  /\ view' = None
  /\ UNCHANGED << on, ready >>

\* The call returns the oldest completed frame.
Deliver ==
  /\ on /\ view = None
  /\ ready # << >>
  /\ view' = Head(ready)
  /\ ready' = Tail(ready)
  /\ UNCHANGED on

Stop ==
  /\ view = None
  /\ on' = FALSE
  /\ ready' = << >>
  /\ UNCHANGED view

Next ==
  \/ Start
  \/ \E f \in Frames : Produce(f)
  \/ Call
  \/ Deliver
  \/ Stop

Spec == Init /\ [][Next]_sourceVars

===============================================================================
