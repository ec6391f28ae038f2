--------------------------- MODULE CollectorLoop ---------------------------
(***************************************************************************)
(* The collector goroutine of internal/collector/collector.go and the      *)
(* goroutines that change its poll interval while it runs.                 *)
(*                                                                         *)
(* Run reads the interval, ticks if it is positive, reads it again and     *)
(* waits for that long; SetInterval stores a new interval under the mutex  *)
(* and then, after the unlock, puts a wake-up token into the buffered      *)
(* channel reconfig unless one is already there. Every step below is one   *)
(* access to the interval, one channel operation or one return.            *)
(*                                                                         *)
(* Module Serve puts the loop into its process and adds fairness.          *)
(***************************************************************************)
EXTENDS Integers

CONSTANTS
  Setters,      \* goroutines calling SetInterval (PATCH /api/v1/config handlers)
  Intervals,    \* the poll intervals in use; <= 0 pauses collection
  WakeCap       \* capacity of the channel reconfig

ASSUME IntervalsAssumption == Intervals \subseteq Int /\ Intervals # {}
ASSUME WakeCapAssumption   == WakeCap \in Nat \ {0}

VARIABLES
  interval,     \* Collector.interval, guarded by mu
  reconfig,     \* number of tokens in the channel reconfig
  setter,       \* where each setter is: "idle", or "wake" between unlock and send
  pc,           \* where Run is
  timer,        \* the duration wait was last called with
  cancelled,    \* ctx.Done() is closed
  afterPause    \* history: samples gathered since the interval last became <= 0

vars == <<interval, reconfig, setter, pc, timer, cancelled, afterPause>>

Positive(d) == d > 0

TypeOK ==
  /\ interval \in Intervals
  /\ reconfig \in 0..WakeCap
  /\ setter \in [Setters -> {"idle", "wake"}]
  /\ pc \in {"check", "gather", "fanout", "reread", "arm", "waiting", "done"}
  /\ timer \in Intervals
  /\ cancelled \in BOOLEAN
  /\ afterPause \in Nat

Init ==
  /\ interval \in Intervals
  /\ reconfig = 0
  /\ setter = [s \in Setters |-> "idle"]
  /\ pc = "check"
  /\ timer = interval
  /\ cancelled = FALSE
  /\ afterPause = 0

-----------------------------------------------------------------------------
(* SetInterval                                                             *)

StoreInterval(s, d) ==
  /\ setter[s] = "idle"
  /\ interval' = d
  /\ setter' = [setter EXCEPT ![s] = "wake"]
  /\ afterPause' = IF Positive(interval) THEN 0 ELSE afterPause
  /\ UNCHANGED <<reconfig, pc, timer, cancelled>>

\* Mutant: a send without the default branch blocks on a full buffer.
BlockingSendWake(s) ==
  /\ setter[s] = "wake"
  /\ reconfig < WakeCap
  /\ reconfig' = reconfig + 1
  /\ setter' = [setter EXCEPT ![s] = "idle"]
  /\ UNCHANGED <<interval, pc, timer, cancelled, afterPause>>

\* Mutant: reconfig unbuffered, so the send succeeds only at a receiver.
UnbufferedWake(s) ==
  /\ setter[s] = "wake"
  /\ reconfig' = IF pc = "waiting" /\ reconfig < WakeCap THEN reconfig + 1 ELSE reconfig
  /\ setter' = [setter EXCEPT ![s] = "idle"]
  /\ UNCHANGED <<interval, pc, timer, cancelled, afterPause>>

\* Mutant: the token is counted although the buffer is full.
OverfillingWake(s) ==
  /\ setter[s] = "wake"
  /\ reconfig' = reconfig + 1
  /\ setter' = [setter EXCEPT ![s] = "idle"]
  /\ UNCHANGED <<interval, pc, timer, cancelled, afterPause>>

\* The select with a default branch: a pending token is enough.
SendWake(s) ==
  /\ setter[s] = "wake"
  /\ reconfig' = IF reconfig < WakeCap THEN reconfig + 1 ELSE reconfig
  /\ setter' = [setter EXCEPT ![s] = "idle"]
  /\ UNCHANGED <<interval, pc, timer, cancelled, afterPause>>

-----------------------------------------------------------------------------
(* Run, tick and wait                                                      *)

loopUnchanged == UNCHANGED <<interval, setter, cancelled>>

\* Mutant: tick without looking whether collection is paused.
CheckIgnoringPause ==
  /\ pc = "check"
  /\ pc' = "gather"
  /\ loopUnchanged /\ UNCHANGED <<reconfig, timer, afterPause>>

\* First read of the interval in Run: tick only when it is positive.
CheckInterval ==
  /\ pc = "check"
  /\ pc' = IF Positive(interval) THEN "gather" ELSE "reread"
  /\ loopUnchanged /\ UNCHANGED <<reconfig, timer, afterPause>>

\* gather: one Sample from the sub-readers.
Gather ==
  /\ pc = "gather"
  /\ pc' = "fanout"
  /\ afterPause' = IF Positive(interval) THEN 0 ELSE afterPause + 1
  /\ loopUnchanged /\ UNCHANGED <<reconfig, timer>>

\* Every sink handles the sample, on this goroutine.
FanOut ==
  /\ pc = "fanout"
  /\ pc' = "reread"
  /\ loopUnchanged /\ UNCHANGED <<reconfig, timer, afterPause>>

\* Second read of the interval, the argument of wait.
Reread ==
  /\ pc = "reread"
  /\ timer' = interval
  /\ pc' = "arm"
  /\ loopUnchanged /\ UNCHANGED <<reconfig, afterPause>>

\* wait starts its timer, if any, and reaches the select.
StartWait ==
  /\ pc = "arm"
  /\ pc' = "waiting"
  /\ loopUnchanged /\ UNCHANGED <<reconfig, timer, afterPause>>

\* wait returns true: the timer of an unpaused cycle, or a wake-up token.
TimerFires ==
  /\ pc = "waiting"
  /\ Positive(timer)
  /\ pc' = "check"
  /\ loopUnchanged /\ UNCHANGED <<reconfig, timer, afterPause>>

TakeWake ==
  /\ pc = "waiting"
  /\ reconfig > 0
  /\ reconfig' = reconfig - 1
  /\ pc' = "check"
  /\ loopUnchanged /\ UNCHANGED <<timer, afterPause>>

\* wait returns false and Run returns ctx.Err().
Stop ==
  /\ pc = "waiting"
  /\ cancelled
  /\ pc' = "done"
  /\ loopUnchanged /\ UNCHANGED <<reconfig, timer, afterPause>>

\* The serve command's context is cancelled by SIGINT or SIGTERM.
Cancel ==
  /\ ~cancelled
  /\ cancelled' = TRUE
  /\ UNCHANGED <<interval, reconfig, setter, pc, timer, afterPause>>

-----------------------------------------------------------------------------
Setter(s) == (\E d \in Intervals : StoreInterval(s, d)) \/ SendWake(s)

Loop ==
  \/ CheckInterval \/ Gather \/ FanOut \/ Reread \/ StartWait
  \/ TimerFires \/ TakeWake \/ Stop

Next == (\E s \in Setters : Setter(s)) \/ Loop \/ Cancel

Spec == Init /\ [][Next]_vars

-----------------------------------------------------------------------------
(* Properties                                                              *)

\* Wake-ups are not lost: whenever the loop sleeps, or is about to, on an
\* interval that is no longer the current one, a token is in the channel or a
\* setter is about to put one there, although SetInterval stores and signals
\* in two steps and Run reads and sleeps in two.
NoLostWakeup ==
  pc \in {"arm", "waiting"} /\ timer # interval =>
    reconfig > 0 \/ \E s \in Setters : setter[s] = "wake"

\* Once the interval is <= 0 at most the one tick that had already passed
\* Run's check gathers a sample, whatever wake-ups and timers are pending.
PauseBound == ~Positive(interval) => afterPause <= 1
=============================================================================
