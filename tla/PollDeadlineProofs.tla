-------------------------- MODULE PollDeadlineProofs --------------------------
(***************************************************************************)
(* Theorems about PollDeadline, for a clock of any resolution, any         *)
(* timeouts and any number of interruptions.                               *)
(***************************************************************************)
EXTENDS PollDeadline, TLAPS

\* as_millis drops less than a millisecond.
LEMMA MillisFloor ==
  ASSUME NEW d \in Nat
  PROVE  /\ as_millis(d) \in Nat
         /\ as_millis(d) * Milli <= d /\ d < as_millis(d) * Milli + Milli
BY MilliAssumption, Z3 DEF as_millis

\* A product with Milli is a natural, and is monotone in the milliseconds.
LEMMA MilliTimes ==
  ASSUME NEW n \in Nat
  PROVE  n * Milli \in Nat /\ (n >= 1 => n * Milli >= Milli)
BY MilliAssumption, Z3

LEMMA MilliMonotone ==
  ASSUME NEW n \in Nat, NEW k \in Nat, n <= k
  PROVE  n * Milli <= k * Milli
BY MilliAssumption, Z3

\* What poll is told to sleep: nothing when the deadline has come; otherwise at
\* least a millisecond, and less than a millisecond more than what is left.
LEMMA PollTimeoutBounds ==
  ASSUME NEW left \in Int
  PROVE  /\ poll_timeout(left) \in Nat
         /\ poll_timeout(left) * Milli \in Nat
         /\ left <= 0 => poll_timeout(left) * Milli = 0
         /\ left > 0 => /\ poll_timeout(left) * Milli >= Milli
                        /\ poll_timeout(left) * Milli < left + Milli
         /\ left > 0 /\ left <= MaxMillis * Milli =>
              poll_timeout(left) * Milli + Milli > left
<1>1. CASE left <= 0
  BY <1>1, MilliAssumption DEF poll_timeout
<1>2. CASE left > 0
  <2>1. /\ as_millis(left) \in Nat
        /\ as_millis(left) * Milli <= left
        /\ left < as_millis(left) * Milli + Milli
    BY <1>2, MillisFloor
  <2>2. CASE as_millis(left) < 1
    <3>1. poll_timeout(left) = 1
      BY <1>2, <2>2 DEF poll_timeout
    <3>2. left < Milli
      BY <2>1, <2>2, MilliAssumption
    <3> QED BY <1>2, <3>1, <3>2, MilliAssumption
  <2>3. CASE as_millis(left) >= 1 /\ as_millis(left) > MaxMillis
    <3>1. poll_timeout(left) = MaxMillis
      BY <1>2, <2>1, <2>3 DEF poll_timeout
    <3>2. MaxMillis * Milli <= as_millis(left) * Milli
      BY <2>1, <2>3, MilliMonotone, MaxMillisAssumption
    <3>3. MaxMillis * Milli \in Nat /\ MaxMillis * Milli >= Milli
      BY MilliTimes, MaxMillisAssumption
    <3>4. as_millis(left) * Milli \in Nat
      BY <2>1, MilliTimes
    <3>5. MaxMillis * Milli + Milli <= as_millis(left) * Milli
      <4>1. (MaxMillis + 1) * Milli <= as_millis(left) * Milli
        BY <2>1, <2>3, MilliMonotone, MaxMillisAssumption
      <4>2. (MaxMillis + 1) * Milli = MaxMillis * Milli + Milli
        BY MilliAssumption, MaxMillisAssumption, Z3
      <4> QED BY <4>1, <4>2
    <3> QED BY <1>2, <2>1, <3>1, <3>2, <3>3, <3>4, <3>5, MilliAssumption,
               MaxMillisAssumption
  <2>4. CASE as_millis(left) >= 1 /\ as_millis(left) <= MaxMillis
    <3>1. poll_timeout(left) = as_millis(left)
      BY <1>2, <2>1, <2>4, MaxMillisAssumption DEF poll_timeout
    <3>2. as_millis(left) * Milli \in Nat /\ as_millis(left) * Milli >= Milli
      BY <2>1, <2>4, MilliTimes
    <3> QED BY <1>2, <2>1, <3>1, <3>2, MilliAssumption
  <2> QED BY <2>1, <2>2, <2>3, <2>4, MaxMillisAssumption
<1> QED BY <1>1, <1>2

-------------------------------------------------------------------------------
(* The inductive invariant.  The deadline of a call lies less than a       *)
(* millisecond before the duration asked for, and a sleep in poll was      *)
(* planned with what was left when it began.                               *)

DeadlineFromTimeout ==
  /\ timeout # Never => asked \in Nat /\ timeout * Milli + Milli > asked
  /\ at \in {"ioctl", "ask", "poll"} =>
       /\ timeout = Never => expires = Never
       /\ timeout # Never => expires = timeout * Milli

SleepPlanned ==
  at = "poll" =>
    /\ polled <= now
    /\ expires = Never => wake = Never
    /\ expires # Never =>
         \/ polled >= expires /\ wake = polled
         \/ /\ polled < expires
            /\ wake >= polled + Milli /\ wake < expires + Milli
            /\ wake + Milli > expires

IInv == TypeOK /\ DeadlineFromTimeout /\ SleepPlanned

LEMMA InitIInv == Init => IInv
BY DEF Init, IInv, TypeOK, DeadlineFromTimeout, SleepPlanned, Never

\* Returning from a call leaves the timeout as it was and no call in progress.
LEMMA ReturnPreserves ==
  ASSUME IInv, NEW r \in {"ok", "error", "TimedOut"}, Return(r)
  PROVE  IInv'
BY DEF Return, IInv, TypeOK, DeadlineFromTimeout, SleepPlanned, Never

LEMMA SetTimeoutPreserves ==
  ASSUME IInv, NEW d \in Durations, set_timeout(d)
  PROVE  IInv'
<1>1. d \in Nat
  BY DurationsAssumption
<1>2. /\ as_millis(d) \in Nat /\ as_millis(d) # Never
      /\ as_millis(d) * Milli + Milli > d
  BY <1>1, MillisFloor, MilliTimes DEF Never
<1>3. /\ at = "app" /\ UNCHANGED << now, expires, polled, wake, result >>
      /\ \/ /\ as_millis(d) <= MaxMillis
            /\ timeout' = as_millis(d) /\ asked' = d /\ UNCHANGED at
         \/ at' = "panicked" /\ UNCHANGED << timeout, asked >>
  BY DEF set_timeout
<1>4. TypeOK'
  BY <1>2, <1>3, MaxMillisAssumption DEF IInv, TypeOK
<1>5. DeadlineFromTimeout'
  BY <1>1, <1>2, <1>3 DEF IInv, DeadlineFromTimeout
<1>6. SleepPlanned'
  BY <1>3 DEF SleepPlanned
<1> QED BY <1>4, <1>5, <1>6 DEF IInv

LEMMA BeginPreserves == IInv /\ Begin => IInv'
<1> SUFFICES ASSUME IInv, Begin PROVE IInv'
  OBVIOUS
<1>1. timeout # Never => timeout \in 0 .. MaxMillis /\ timeout * Milli \in Nat
  BY MilliTimes, MaxMillisAssumption DEF IInv, TypeOK
<1>2. /\ at' \in {"ioctl", "ask"} /\ now' = 0
      /\ UNCHANGED << timeout, asked, polled, wake, result >>
  BY DEF Begin
<1>3. /\ timeout = Never => expires' = Never
      /\ timeout # Never => expires' = timeout * Milli
  BY <1>1 DEF Begin, from_timeout
<1> QED BY <1>1, <1>2, <1>3 DEF IInv, TypeOK, DeadlineFromTimeout, SleepPlanned

LEMMA AskPreserves == IInv /\ Ask => IInv'
<1> SUFFICES ASSUME IInv, Ask PROVE IInv'
  OBVIOUS
<1>1. /\ at = "ask" /\ at' = "poll" /\ polled' = now
      /\ UNCHANGED << timeout, asked, now, expires, result >>
      /\ expires = Never => wake' = Never
      /\ expires # Never => wake' = now + poll_timeout(expires - now) * Milli
  BY DEF Ask
<1>2. now \in Nat /\ expires \in Nat \cup {Never}
  BY DEF IInv, TypeOK
<1>3. CASE expires = Never
  BY <1>1, <1>2, <1>3 DEF IInv, TypeOK, DeadlineFromTimeout, SleepPlanned
<1>4. CASE expires # Never
  <2>1. expires - now \in Int /\ expires \in Nat
    BY <1>2, <1>4
  <2>2. timeout # Never /\ expires = timeout * Milli /\ timeout \in 0 .. MaxMillis
    BY <1>1, <1>4 DEF IInv, TypeOK, DeadlineFromTimeout
  <2>3. expires <= MaxMillis * Milli /\ MaxMillis * Milli \in Nat
    BY <2>2, MilliMonotone, MilliTimes, MaxMillisAssumption
  <2> DEFINE w == poll_timeout(expires - now) * Milli
  <2>4. /\ w \in Nat
        /\ expires <= now => w = 0
        /\ expires > now => w >= Milli /\ w < expires - now + Milli
                            /\ w + Milli > expires - now
    BY <1>2, <2>1, <2>3, PollTimeoutBounds
  <2>5. wake' = now + w
    BY <1>1, <1>4
  <2> HIDE DEF w
  <2>6. TypeOK'
    BY <1>1, <1>2, <2>4, <2>5 DEF IInv, TypeOK
  <2>7. DeadlineFromTimeout'
    BY <1>1 DEF IInv, DeadlineFromTimeout
  <2>8. SleepPlanned'
    BY <1>1, <1>2, <2>1, <2>4, <2>5, MilliAssumption DEF SleepPlanned, Never
  <2> QED BY <2>6, <2>7, <2>8 DEF IInv
<1> QED BY <1>3, <1>4

LEMMA NextPreserves == IInv /\ [Next]_vars => IInv'
<1> SUFFICES ASSUME IInv, [Next]_vars PROVE IInv'
  OBVIOUS
<1> USE DEF IInv, TypeOK, DeadlineFromTimeout, SleepPlanned
<1>1. CASE clear_timeout
  BY <1>1 DEF clear_timeout
<1>2. CASE Ioctl
  <2>1. CASE Return("ok") \/ Return("error")
    BY <2>1, ReturnPreserves
  <2>2. CASE /\ at = "ioctl" /\ at' \in {"ioctl", "ask"}
             /\ UNCHANGED << timeout, asked, now, expires, polled, wake, result >>
    BY <2>2
  <2> QED BY <1>2, <2>1, <2>2 DEF Ioctl
<1>3. CASE PollReady
  BY <1>3 DEF PollReady
<1>4. CASE PollTimesOut \/ PollFails
  BY <1>4, ReturnPreserves DEF PollTimesOut, PollFails
<1>5. CASE Interrupted
  <2>1. CASE Return("TimedOut")
    BY <2>1, ReturnPreserves
  <2>2. CASE /\ at \in {"ioctl", "poll"} /\ ~expired
             /\ at' = (IF at = "poll" THEN "ask" ELSE "ioctl")
             /\ polled' = 0 /\ wake' = Never
             /\ UNCHANGED << timeout, asked, now, expires, result >>
    BY <2>2
  <2> QED BY <1>5, <2>1, <2>2 DEF Interrupted
<1>6. CASE Tick
  BY <1>6, HorizonAssumption DEF Tick
<1>7. CASE UNCHANGED vars
  BY <1>7 DEF vars
<1> QED BY <1>1, <1>2, <1>3, <1>4, <1>5, <1>6, <1>7, SetTimeoutPreserves,
           BeginPreserves, AskPreserves DEF Next

LEMMA Invariance == Spec => []IInv
BY InitIInv, NextPreserves, PTL DEF Spec

-------------------------------------------------------------------------------
\* The state is well-typed: no timeout leaves the range of an i32.
THEOREM TypeCorrect == Spec => []TypeOK
BY Invariance, PTL DEF IInv

\* However often it is interrupted, poll never oversleeps by a millisecond.
THEOREM PollNeverOversleeps == Spec => []NeverOversleeps
<1>1. IInv => NeverOversleeps
  BY DEF IInv, SleepPlanned, NeverOversleeps
<1> QED BY <1>1, Invariance, PTL

\* What a step that ends in TimedOut can be.
LEMMA GivesUp ==
  ASSUME IInv, [Next]_vars, at # "app", at' = "app", result' = "TimedOut"
  PROVE  \/ at = "poll" /\ wake # Never /\ now >= wake
         \/ at \in {"ioctl", "poll"} /\ expired
<1>1. at \notin {"app", "ask"} => at \in {"ioctl", "poll", "panicked"}
  BY DEF IInv, TypeOK
<1> QED
  BY <1>1 DEF Next, vars, set_timeout, clear_timeout, Begin, Ioctl, Ask, PollReady,
              PollTimesOut, PollFails, Interrupted, Tick, Return

\* No timeout fires more than two milliseconds before the time asked for.
THEOREM TimesOutNotTooEarly == Spec => NotTooEarly
<1>1. IInv /\ [Next]_vars =>
        [ at # "app" /\ at' = "app" /\ result' = "TimedOut"
          => timeout # Never /\ now + 2 * Milli > asked ]_vars
  <2> SUFFICES ASSUME IInv, [Next]_vars,
                      at # "app", at' = "app", result' = "TimedOut"
               PROVE  timeout # Never /\ now + 2 * Milli > asked
    OBVIOUS
  <2>1. expires # Never => timeout # Never /\ expires + Milli > asked
    BY GivesUp, MilliTimes DEF IInv, TypeOK, DeadlineFromTimeout
  <2>2. expires # Never /\ now + Milli > expires
    BY GivesUp, MilliAssumption DEF IInv, TypeOK, SleepPlanned, expired, Never
  <2> QED BY <2>1, <2>2, MilliAssumption DEF IInv, TypeOK, DeadlineFromTimeout,
                                             Never
<1> QED BY <1>1, Invariance, PTL DEF Spec, NotTooEarly

\* A call that gives up early has slept.
THEOREM GivesUpAfterSleep == Spec => GivesUpOnlyAfterSleep
<1>1. IInv /\ [Next]_vars =>
        [ at # "app" /\ at' = "app" /\ result' = "TimedOut" /\ now < expires
          => at = "poll" /\ now >= polled + Milli ]_vars
  <2> SUFFICES ASSUME IInv, [Next]_vars, at # "app", at' = "app",
                      result' = "TimedOut", now < expires
               PROVE  at = "poll" /\ now >= polled + Milli
    OBVIOUS
  <2> QED BY GivesUp, MilliAssumption DEF IInv, TypeOK, SleepPlanned, expired,
                                          Never
<1> QED BY <1>1, Invariance, PTL DEF Spec, GivesUpOnlyAfterSleep

===============================================================================
