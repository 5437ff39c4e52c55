----------------------------- MODULE PollDeadline -----------------------------
(***************************************************************************)
(* The timeout arithmetic of src/io/mmap/stream.rs: set_timeout, struct    *)
(* Deadline, and the waiting loops ioctl_until and poll_until, on a clock  *)
(* finer than the whole milliseconds that poll takes.                      *)
(*                                                                         *)
(* A call makes some ioctls, then waits in poll, then makes some more, all *)
(* within one deadline; signals interrupt any attempt.  What the calls do  *)
(* to the stream is MmapCapture; here the clock there called a tick has    *)
(* its real resolution.                                                    *)
(***************************************************************************)
EXTENDS Integers

CONSTANTS
  Milli,       \* clock units in a millisecond
  MaxMillis,   \* i32::MAX, the longest timeout and the longest poll
  Durations,   \* what the application passes to set_timeout, in clock units
  Horizon      \* no call is watched for longer

ASSUME MilliAssumption     == Milli \in Nat \ {0}
ASSUME MaxMillisAssumption == MaxMillis \in Nat \ {0}
ASSUME DurationsAssumption == Durations \subseteq Nat
ASSUME HorizonAssumption   == Horizon \in Nat

Never == -1                     \* no timeout, no deadline, poll(-1)

VARIABLES
  timeout,     \* the field of Stream, in milliseconds
  asked,       \* the duration it was set to
  at,          \* "app", "ioctl", "ask" (before poll), "poll", "panicked"
  now,         \* the monotonic clock, since the call in progress began
  expires,     \* Deadline::expires_at of the call
  polled,      \* when it went to sleep in poll
  wake,        \* when poll has slept long enough
  result       \* of the last call

vars == << timeout, asked, at, now, expires, polled, wake, result >>

TypeOK ==
  /\ timeout \in (0 .. MaxMillis) \cup {Never}
  /\ asked \in Durations \cup {Never}
  /\ at \in {"app", "ioctl", "ask", "poll", "panicked"}
  /\ now \in Nat
  /\ expires \in Nat \cup {Never}
  /\ polled \in Nat
  /\ wake \in Nat \cup {Never}
  /\ result \in {"none", "ok", "error", "TimedOut"}

Init ==
  /\ timeout = Never /\ asked = Never
  /\ at = "app"
  /\ now = 0 /\ expires = Never /\ polled = 0 /\ wake = Never
  /\ result = "none"

-------------------------------------------------------------------------------
\* Duration::as_millis drops what is less than a millisecond.
as_millis(d) == d \div Milli

\* Mutant: a timeout too long for an i32 goes through.
set_timeout_Unchecked(d) ==
  /\ at = "app"
  /\ timeout' = as_millis(d) /\ asked' = d
  /\ UNCHANGED << at, now, expires, polled, wake, result >>

\* i32::try_from(...).unwrap() panics on what an i32 cannot hold.
set_timeout(d) ==
  /\ at = "app"
  /\ \/ /\ as_millis(d) <= MaxMillis
        /\ timeout' = as_millis(d) /\ asked' = d
        /\ UNCHANGED at
     \/ as_millis(d) > MaxMillis /\ at' = "panicked"
        /\ UNCHANGED << timeout, asked >>
  /\ UNCHANGED << now, expires, polled, wake, result >>

clear_timeout ==
  /\ at = "app"
  /\ timeout' = Never /\ asked' = Never
  /\ UNCHANGED << at, now, expires, polled, wake, result >>

from_timeout(t) == IF timeout = Never THEN Never ELSE t + timeout * Milli

expired == expires # Never /\ now >= expires

\* Mutant: what is left is rounded up to whole milliseconds.
poll_timeout_RoundsUp(left) == as_millis(left) + 1

\* Mutant: the last part of a millisecond becomes a poll that does not sleep.
poll_timeout_NoClamp(left) == IF left <= 0 THEN 0 ELSE as_millis(left)

\* The milliseconds poll is to sleep with so much time left: 0 only when the
\* deadline has come.
poll_timeout(left) ==
  IF left <= 0 THEN 0
  ELSE IF as_millis(left) < 1 THEN 1
  ELSE IF as_millis(left) > MaxMillis THEN MaxMillis
  ELSE as_millis(left)

-------------------------------------------------------------------------------
(* One public call.  The clock is set back to 0 where it begins.           *)

Begin ==
  /\ at = "app"
  /\ now' = 0 /\ expires' = from_timeout(0)
  /\ at' \in {"ioctl", "ask"}
  /\ UNCHANGED << timeout, asked, polled, wake, result >>

Return(r) ==
  /\ at' = "app" /\ result' = r
  /\ expires' = Never /\ wake' = Never /\ polled' = 0
  /\ UNCHANGED << timeout, asked, now >>

\* An ioctl that succeeds is followed by poll, by another ioctl, or is the last
\* one; any error but EINTR ends the call.
Ioctl ==
  /\ at = "ioctl"
  /\ \/ /\ at' \in {"ioctl", "ask"}
        /\ UNCHANGED << timeout, asked, now, expires, polled, wake, result >>
     \/ Return("ok") \/ Return("error")

\* Before every poll, the first and those after a signal: what is left now.
Ask ==
  /\ at = "ask" /\ at' = "poll"
  /\ polled' = now
  /\ wake' = (IF expires = Never THEN Never
              ELSE now + poll_timeout(expires - now) * Milli)
  /\ UNCHANGED << timeout, asked, now, expires, result >>

\* An event on the descriptor: the call goes on to DQBUF or QBUF.
PollReady ==
  /\ at = "poll" /\ at' = "ioctl"
  /\ polled' = 0 /\ wake' = Never
  /\ UNCHANGED << timeout, asked, now, expires, result >>

\* poll returns 0 once it has slept for as long as it was told, or longer.
PollTimesOut ==
  /\ at = "poll" /\ wake # Never /\ now >= wake
  /\ Return("TimedOut")

PollFails == at = "poll" /\ Return("error")

\* Mutant: EINTR is taken for the end of the time.
Interrupted_GivesUp == at \in {"ioctl", "poll"} /\ Return("TimedOut")

\* EINTR, of an ioctl or of poll.
Interrupted ==
  /\ at \in {"ioctl", "poll"}
  /\ \/ expired /\ Return("TimedOut")
     \/ /\ ~expired
        /\ at' = (IF at = "poll" THEN "ask" ELSE "ioctl")
        /\ polled' = 0 /\ wake' = Never
        /\ UNCHANGED << timeout, asked, now, expires, result >>

\* Time passes while the call runs, one clock unit at a time.
Tick ==
  /\ at \in {"ioctl", "ask", "poll"} /\ now < Horizon
  /\ now' = now + 1
  /\ UNCHANGED << timeout, asked, at, expires, polled, wake, result >>

Next ==
  \/ \E d \in Durations : set_timeout(d)
  \/ clear_timeout
  \/ Begin \/ Ioctl \/ Ask \/ PollReady \/ PollTimesOut \/ PollFails
  \/ Interrupted \/ Tick

Spec == Init /\ [][Next]_vars

-------------------------------------------------------------------------------
(* Properties.                                                             *)

\* A call gives up on its timeout at most two milliseconds before the duration
\* the application asked for: one is lost in set_timeout (stream.rs:89), one in
\* the last poll (stream.rs:354), none to the signals in between.
NotTooEarly ==
  [][ at # "app" /\ at' = "app" /\ result' = "TimedOut"
      => timeout # Never /\ now + 2 * Milli > asked ]_vars

\* However often a signal restarts it, poll is never told to sleep a whole
\* millisecond past the deadline (stream.rs:159, 343-356).
NeverOversleeps ==
  at = "poll" /\ expires # Never =>
    wake < expires + Milli \/ (polled >= expires /\ wake = polled)

\* A call that gives up before its deadline has slept in poll for a millisecond
\* at least: it neither spins nor fails at once (the clamp of stream.rs:354).
GivesUpOnlyAfterSleep ==
  [][ at # "app" /\ at' = "app" /\ result' = "TimedOut" /\ now < expires
      => at = "poll" /\ now >= polled + Milli ]_vars

===============================================================================
