------------------------------- MODULE FrameSink -------------------------------
(***************************************************************************)
(* What an output stream promises to an application that fills a buffer    *)
(* and asks for the next one: each frame it hands over reaches the device  *)
(* once, in order, and its buffer comes back only after the device is done *)
(* with it.                                                                *)
(***************************************************************************)
EXTENDS Sequences

CONSTANTS Frames,     \* what the application writes
          Blank,      \* a buffer nobody has written
          None        \* no buffer in hand

VARIABLES on,         \* the stream is active
          inHand,     \* the frame in the application's buffer
          pending,    \* frames handed over, oldest first
          shown       \* frames the device is done with, oldest first

sinkVars == << on, inHand, pending, shown >>

Init == on = FALSE /\ inHand = None /\ pending = << >> /\ shown = << >>

\* The first buffer may hold what an earlier run of the stream left in it.
Start ==
  /\ ~on /\ on' = TRUE
  /\ inHand' \in Frames \cup {Blank}
  /\ UNCHANGED << pending, shown >>

Fill(f) ==
  /\ inHand # None
  /\ inHand' = f
  /\ UNCHANGED << on, pending, shown >>

HandOver ==
  /\ inHand # None
  /\ pending' = Append(pending, inHand)
  /\ inHand' = None
  /\ UNCHANGED << on, shown >>

Show ==
  /\ on /\ pending # << >>
  /\ shown' = Append(shown, Head(pending))
  /\ pending' = Tail(pending)
  /\ UNCHANGED << on, inHand >>

GiveBack ==
  /\ inHand = None /\ shown # << >>
  /\ inHand' = Head(shown)
  /\ shown' = Tail(shown)
  /\ UNCHANGED << on, pending >>

Stop ==
  /\ on' = FALSE /\ inHand' = None
  /\ pending' = << >> /\ shown' = << >>

Next ==
  \/ Start
  \/ \E f \in Frames : Fill(f)
  \/ HandOver \/ Show \/ GiveBack
  \/ Stop

Spec == Init /\ [][Next]_sinkVars

===============================================================================
