-------------------------- MODULE CollectorProofs --------------------------
(***************************************************************************)
(* Proofs about the collector, for any values of the constants: about      *)
(* CollectorLoop; about Serve, which extends it: everything serve adds     *)
(* leaves the collector loop what it is, so that what is proved of the     *)
(* loop holds of the process, and the store is closed only after its       *)
(* users; and about HostRates, the readers the loop runs for each sample.  *)
(***************************************************************************)
EXTENDS Serve, HostRates, SequenceTheorems, TLAPS


-----------------------------------------------------------------------------
(* The collector loop                                                      *)

\* A new collector is well typed.
LEMMA InitTypeOK == Init => TypeOK
<1> USE IntervalsAssumption, WakeCapAssumption DEF TypeOK
<1> SUFFICES ASSUME Init PROVE TypeOK
  OBVIOUS
<1>1. interval \in Intervals /\ timer \in Intervals /\ cancelled \in BOOLEAN
  BY DEF Init
<1>2. reconfig \in 0..WakeCap /\ afterPause \in Nat
  BY DEF Init
<1>3. setter \in [Setters -> {"idle", "wake"}]
  BY DEF Init
<1>4. pc \in {"check", "gather", "fanout", "reread", "arm", "waiting", "done"}
  BY DEF Init
<1> QED
  BY <1>1, <1>2, <1>3, <1>4

\* The channel is never overfilled, timers are set only to intervals somebody set.
LEMMA StepTypeOK == TypeOK /\ [Next]_vars => TypeOK'
<1> USE IntervalsAssumption, WakeCapAssumption DEF TypeOK
<1> SUFFICES ASSUME TypeOK, [Next]_vars PROVE TypeOK'
  OBVIOUS
<1>1. CASE UNCHANGED vars
  BY <1>1 DEF vars
<1>2. ASSUME NEW s \in Setters, NEW d \in Intervals, StoreInterval(s, d) PROVE TypeOK'
  BY <1>2 DEF StoreInterval
<1>3. ASSUME NEW s \in Setters, SendWake(s) PROVE TypeOK'
  BY <1>3 DEF SendWake
<1>4. CASE Loop
  <2>1. CASE CheckInterval
    BY <2>1 DEF CheckInterval, loopUnchanged
  <2>2. CASE Gather
    BY <2>2 DEF Gather, loopUnchanged
  <2>3. CASE FanOut
    BY <2>3 DEF FanOut, loopUnchanged
  <2>4. CASE Reread
    BY <2>4 DEF Reread, loopUnchanged
  <2>5. CASE TimerFires
    BY <2>5 DEF TimerFires, loopUnchanged
  <2>6. CASE TakeWake
    BY <2>6 DEF TakeWake, loopUnchanged
  <2>7. CASE Stop
    BY <2>7 DEF Stop, loopUnchanged
  <2>8. CASE StartWait
    BY <2>8 DEF StartWait, loopUnchanged
  <2> QED
    BY <1>4, <2>1, <2>2, <2>3, <2>4, <2>5, <2>6, <2>7, <2>8 DEF Loop
<1>5. CASE Cancel
  BY <1>5 DEF Cancel
<1> QED
  BY <1>1, <1>2, <1>3, <1>4, <1>5 DEF Next, Setter

\* Every step keeps the variables in their types: the channel is never
\* overfilled and the loop sleeps only on intervals somebody set.
THEOREM TypeCorrect == Spec => []TypeOK
BY InitTypeOK, StepTypeOK, PTL DEF Spec

-----------------------------------------------------------------------------
\* NoLostWakeup is inductive beside the types: storing a new interval leaves
\* the storing goroutine at "wake", its send leaves the channel non-empty, and
\* only a step of the loop that also leaves the select takes a token out.
LEMMA WakeupStep == TypeOK /\ NoLostWakeup /\ [Next]_vars => NoLostWakeup'
<1> SUFFICES ASSUME TypeOK, NoLostWakeup, [Next]_vars PROVE NoLostWakeup'
  OBVIOUS
<1> USE WakeCapAssumption DEF TypeOK, NoLostWakeup
<1>1. CASE UNCHANGED vars
  BY <1>1 DEF vars
<1>2. ASSUME NEW s \in Setters, NEW d \in Intervals, StoreInterval(s, d)
      PROVE  NoLostWakeup'
  <2>1. setter'[s] = "wake"
    BY <1>2 DEF StoreInterval
  <2> QED
    BY <2>1
<1>3. ASSUME NEW s \in Setters, SendWake(s) PROVE NoLostWakeup'
  <2>1. reconfig' > 0
    BY <1>3 DEF SendWake
  <2> QED
    BY <2>1
<1>4. CASE Reread \/ StartWait
  BY <1>4 DEF Reread, StartWait, loopUnchanged
<1>5. CASE CheckInterval \/ Gather \/ FanOut \/ TimerFires \/ TakeWake \/ Stop
  <2>1. pc' \notin {"arm", "waiting"}
    BY <1>5 DEF CheckInterval, Gather, FanOut, TimerFires, TakeWake, Stop
  <2> QED
    BY <2>1
<1>6. CASE Cancel
  BY <1>6 DEF Cancel
<1> QED
  BY <1>1, <1>2, <1>3, <1>4, <1>5, <1>6 DEF Next, Setter, Loop

\* No SetInterval call goes unnoticed by a sleeping loop, for any number of
\* concurrent callers.
THEOREM WakeupsAreNotLost == Spec => []NoLostWakeup
<1>1. Init => NoLostWakeup
  BY DEF Init, NoLostWakeup
<1> QED
  BY <1>1, TypeCorrect, WakeupStep, PTL DEF Spec

-----------------------------------------------------------------------------
\* What makes PauseBound inductive: the tick that passed Run's check before
\* the pause has not been counted yet while it stands before gather.
PauseInv ==
  /\ PauseBound
  /\ ~Positive(interval) /\ pc = "gather" => afterPause = 0

\* Every step keeps the count of samples after a pause within its bound.
LEMMA PauseStep == TypeOK /\ PauseInv /\ [Next]_vars => PauseInv'
<1> SUFFICES ASSUME TypeOK, PauseInv, [Next]_vars PROVE PauseInv'
  OBVIOUS
<1> USE IntervalsAssumption DEF TypeOK, PauseInv, PauseBound
<1>1. CASE UNCHANGED vars
  BY <1>1 DEF vars, Positive
<1>2. ASSUME NEW s \in Setters, NEW d \in Intervals, StoreInterval(s, d)
      PROVE  PauseInv'
  BY <1>2 DEF StoreInterval, Positive
<1>3. ASSUME NEW s \in Setters, SendWake(s) PROVE PauseInv'
  BY <1>3 DEF SendWake, Positive
<1>4. CASE CheckInterval
  BY <1>4 DEF CheckInterval, loopUnchanged, Positive
<1>5. CASE Gather
  BY <1>5 DEF Gather, loopUnchanged, Positive
<1>6. CASE FanOut \/ Reread \/ StartWait \/ TimerFires \/ TakeWake \/ Stop
  BY <1>6 DEF FanOut, Reread, StartWait, TimerFires, TakeWake, Stop, loopUnchanged, Positive
<1>7. CASE Cancel
  BY <1>7 DEF Cancel, Positive
<1> QED
  BY <1>1, <1>2, <1>3, <1>4, <1>5, <1>6, <1>7 DEF Next, Setter, Loop

\* A pause lets at most the tick already under way gather a sample.
THEOREM PauseIsBounded == Spec => []PauseBound
<1>1. Init => PauseInv
  BY DEF Init, PauseInv, PauseBound
<1>2. PauseInv => PauseBound
  BY DEF PauseInv
<1> QED
  BY <1>1, <1>2, TypeCorrect, PauseStep, PTL DEF Spec

-----------------------------------------------------------------------------
(* The process around it                                                   *)

\* A step of the process is one of the loop, a SetInterval, the signal, or invisible
\* to the loop.
LEMMA LoopStep == [ServeNext]_serveVars => [Next]_vars
<1> SUFFICES ASSUME [ServeNext]_serveVars PROVE [Next]_vars
  OBVIOUS
<1>1. CASE UNCHANGED serveVars
  BY <1>1 DEF serveVars, vars, collectVars
<1>2. CASE Bind \/ ListenerFails \/ Shutdown
  BY <1>2 DEF Bind, ListenerFails, Shutdown, BeginShutdown, ShutdownCompletes,
              ShutdownTimesOut, ListenAndServeFails, collectVars
<1>3. CASE Collect
  BY <1>3 DEF Collect, Next
<1>4. CASE Signal
  BY <1>4 DEF Signal, Next
<1>5. CASE Main
  BY <1>5 DEF Main, CollectorReturns, NoticeSignal, Drain, CloseStore, Exit, collectVars
<1>6. ASSUME NEW c \in Setters, Connection(c) PROVE [Next]_vars
  <2>1. CASE Patch(c)
    BY <2>1 DEF Patch, Next, Setter
  <2>2. CASE Wake(c)
    BY <2>2 DEF Wake, Next, Setter
  <2>3. CASE Accept(c) \/ Request(c) \/ Answer(c) \/ HangUp(c)
    BY <2>3 DEF Accept, Request, Answer, HangUp, collectVars
  <2> QED
    BY <1>6, <2>1, <2>2, <2>3 DEF Connection
<1>7. CASE Command
  BY <1>7 DEF Command, CommandHangs, CommandReturns, Next, Loop
<1> QED
  BY <1>1, <1>2, <1>3, <1>4, <1>5, <1>6, <1>7 DEF ServeNext

\* Every step of the process is a step of the collector loop and its setters,
\* or leaves them alone.
THEOREM ServeRunsTheLoop == ServeSpec => Spec
<1>1. ServeInit => Init
  BY DEF ServeInit
<1> QED
  BY <1>1, LoopStep, PTL DEF ServeSpec, Spec

\* In the whole process, no wake-up is lost and no pause lets more than the
\* tick already under way gather.
THEOREM ServeKeepsLoopInvariants == ServeSpec => [](TypeOK /\ NoLostWakeup /\ PauseBound)
BY ServeRunsTheLoop, TypeCorrect, WakeupsAreNotLost, PauseIsBounded, PTL

-----------------------------------------------------------------------------
\* A component that has reported has returned, with the result it has.
ReportedInv ==
  /\ results["collector"] # Pending => pc = "done"
  /\ results["api"] # Pending => api = "returned"
  /\ store = "closed" => drained = Components

\* A server that is shutting down has no idle connections and takes no new
\* ones; when its Shutdown returned nil, it has none at all.
ShutdownInv ==
  /\ api = "shutdown" => listener = "closed"
  /\ listener = "closed" => \A c \in Setters : conn[c] # "idle"
  /\ results["api"] = "nil" => listener = "closed" /\ Active = {}

ServeInv == ServeTypeOK /\ ReportedInv /\ ShutdownInv

\* The process starts with nothing returned, drained or closed.
LEMMA ServeInitInv == ServeInit => ServeInv
<1> SUFFICES ASSUME ServeInit PROVE ServeInv
  OBVIOUS
<1>1. TypeOK
  BY InitTypeOK DEF ServeInit
<1>2. conn = [c \in Setters |-> "none"] /\ results = [p \in Components |-> Pending]
  BY DEF ServeInit
<1>3. results["collector"] = Pending /\ results["api"] = Pending
  BY <1>2 DEF Components
<1>4. setter = [s \in Setters |-> "idle"]
  BY DEF ServeInit, Init
<1>5. ServeTypeOK
  BY <1>1, <1>2, <1>3, <1>4 DEF ServeTypeOK, ServeInit, Components
<1>6. ReportedInv /\ ShutdownInv
  BY <1>2, <1>3 DEF ReportedInv, ShutdownInv, ServeInit, Pending
<1> QED
  BY <1>5, <1>6 DEF ServeInv

\* The types of what serve adds to the loop.
LEMMA ServeTypeStep == ServeTypeOK /\ [ServeNext]_serveVars => ServeTypeOK'
<1> SUFFICES ASSUME ServeTypeOK, [ServeNext]_serveVars PROVE ServeTypeOK'
  OBVIOUS
<1>1. TypeOK'
  BY LoopStep, StepTypeOK DEF ServeTypeOK
<1> USE <1>1 DEF ServeTypeOK, Components, Pending
<1>2. CASE UNCHANGED serveVars
  BY <1>2 DEF serveVars, vars, collectVars, serverVars, mainVars
<1>3. CASE Bind \/ ListenerFails
  <2>1. CASE Bind
    BY <2>1 DEF Bind, vars, collectVars, mainVars
  <2>2. CASE ListenerFails
    BY <2>2 DEF ListenerFails, vars, collectVars, mainVars
  <2> QED
    BY <1>3, <2>1, <2>2
<1>4. CASE BeginShutdown
  BY <1>4 DEF BeginShutdown, vars, collectVars, mainVars
<1>5. CASE ShutdownCompletes \/ ShutdownTimesOut \/ ListenAndServeFails
  <2>1. CASE ShutdownCompletes
    BY <2>1 DEF ShutdownCompletes, Return, vars, collectVars
  <2>2. CASE ShutdownTimesOut
    BY <2>2 DEF ShutdownTimesOut, Return, vars, collectVars
  <2>3. CASE ListenAndServeFails
    BY <2>3 DEF ListenAndServeFails, Return, vars, collectVars
  <2> QED
    BY <1>5, <2>1, <2>2, <2>3
<1>6. CASE Collect
  <2>1. setter' = setter
    BY <1>6 DEF Collect, Loop, CheckInterval, Gather, FanOut, Reread, StartWait,
                TimerFires, TakeWake, Stop, loopUnchanged
  <2> QED
    BY <1>6, <2>1 DEF Collect, serverVars, mainVars
<1>7. CASE Signal
  BY <1>7 DEF Signal, Cancel, serverVars, mainVars
<1>8. CASE CollectorReturns
  BY <1>8 DEF CollectorReturns, Return, vars, collectVars, serverVars
<1>9. CASE NoticeSignal \/ CloseStore \/ Exit
  <2>1. CASE NoticeSignal
    BY <2>1 DEF NoticeSignal, vars, collectVars, serverVars
  <2>2. CASE CloseStore
    BY <2>2 DEF CloseStore, vars, collectVars, serverVars
  <2>3. CASE Exit
    BY <2>3 DEF Exit, vars, collectVars, serverVars
  <2> QED
    BY <1>9, <2>1, <2>2, <2>3
<1>10. ASSUME NEW p \in Components, Drain(p) PROVE ServeTypeOK'
  BY <1>10 DEF Drain, vars, collectVars, serverVars
<1>11. ASSUME NEW c \in Setters, Connection(c) PROVE ServeTypeOK'
  <2>1. CASE Patch(c)
    <3>1. PICK d \in Intervals : StoreInterval(c, d)
      BY <2>1 DEF Patch
    <3>2. setter \in [Setters -> {"idle", "wake"}]
      BY DEF TypeOK
    <3>3. setter' = [setter EXCEPT ![c] = "wake"] /\ conn' = [conn EXCEPT ![c] = "request"]
      BY <2>1, <3>1 DEF Patch, Move, StoreInterval
    <3>4. hung' = hung /\ pc' = pc
      BY <2>1, <3>1 DEF Patch, StoreInterval
    <3>5. conn' \in [Setters -> {"none", "idle", "patch", "request", "stream"}]
      BY <3>3
    <3>6. \A d2 \in Setters : setter'[d2] = "wake" => conn'[d2] = "request"
      BY <3>2, <3>3
    <3>7. hung' \in BOOLEAN /\ (hung' => pc' = "gather")
      BY <3>4
    <3>8. UNCHANGED <<listener, api, results, drained, serve, store>>
      BY <2>1 DEF Patch, mainVars
    <3> QED
      BY <3>5, <3>6, <3>7, <3>8
  <2>2. CASE Wake(c)
    <3>1. setter \in [Setters -> {"idle", "wake"}]
      BY DEF TypeOK
    <3> QED
      BY <2>2, <3>1 DEF Wake, SendWake, serverVars, mainVars
  <2>3. CASE Accept(c)
    BY <2>3 DEF Accept, Move, vars, collectVars, mainVars
  <2>4. CASE Request(c)
    BY <2>4 DEF Request, Move, vars, collectVars, mainVars
  <2>5. CASE Answer(c)
    BY <2>5 DEF Answer, Move, vars, collectVars, mainVars
  <2>6. CASE HangUp(c)
    BY <2>6 DEF HangUp, Move, vars, collectVars, mainVars
  <2> QED
    BY <1>11, <2>1, <2>2, <2>3, <2>4, <2>5, <2>6 DEF Connection
<1>12. CASE Command
  <2>1. CASE CommandHangs
    BY <2>1 DEF CommandHangs, vars, serverVars, mainVars
  <2>2. CASE CommandReturns
    <3>1. setter' = setter /\ hung' = FALSE
      BY <2>2 DEF CommandReturns, Gather, loopUnchanged
    <3> QED
      BY <2>2, <3>1 DEF CommandReturns, serverVars, mainVars
  <2> QED
    BY <1>12, <2>1, <2>2 DEF Command
<1> QED
  BY <1>2, <1>3, <1>4, <1>5, <1>6, <1>7, <1>8, <1>9, <1>10, <1>11, <1>12
     DEF ServeNext, Shutdown, Main

\* A result stays as it was sent, and nothing runs after it.
LEMMA ReportedStep == ServeTypeOK /\ ReportedInv /\ [ServeNext]_serveVars => ReportedInv'
<1> SUFFICES ASSUME ServeTypeOK, ReportedInv, [ServeNext]_serveVars PROVE ReportedInv'
  OBVIOUS
<1> USE DEF ServeTypeOK, ReportedInv, Components, Pending
<1>1. CASE UNCHANGED serveVars
  BY <1>1 DEF serveVars, vars, collectVars, serverVars, mainVars
<1>2. CASE Bind \/ ListenerFails \/ BeginShutdown
  BY <1>2 DEF Bind, ListenerFails, BeginShutdown, vars, collectVars, mainVars
<1>3. CASE ShutdownCompletes \/ ShutdownTimesOut \/ ListenAndServeFails
  BY <1>3 DEF ShutdownCompletes, ShutdownTimesOut, ListenAndServeFails, Return, vars, collectVars
<1>4. CASE Collect
  <2>1. pc = "done" => pc' = "done"
    BY <1>4 DEF Collect, Loop, CheckInterval, Gather, FanOut, Reread, StartWait,
                TimerFires, TakeWake, Stop
  <2> QED
    BY <1>4, <2>1 DEF Collect, serverVars, mainVars
<1>5. CASE Signal
  BY <1>5 DEF Signal, Cancel, serverVars, mainVars
<1>6. CASE CollectorReturns
  BY <1>6 DEF CollectorReturns, Return, vars, collectVars, serverVars
<1>7. CASE NoticeSignal \/ CloseStore \/ Exit
  BY <1>7 DEF NoticeSignal, CloseStore, DrainedBoth, Exit, vars, collectVars, serverVars
<1>8. ASSUME NEW p \in Components, Drain(p) PROVE ReportedInv'
  BY <1>8 DEF Drain, vars, collectVars, serverVars
<1>9. ASSUME NEW c \in Setters, Connection(c) PROVE ReportedInv'
  <2>1. pc' = pc /\ UNCHANGED <<api, mainVars>>
    BY <1>9 DEF Connection, Accept, Request, Patch, StoreInterval, Wake, SendWake, Answer,
                HangUp, vars, collectVars, serverVars
  <2> QED
    BY <2>1 DEF mainVars
<1>10. CASE Command
  <2>1. UNCHANGED mainVars /\ api' = api /\ pc # "done"
    BY <1>10 DEF Command, CommandHangs, CommandReturns, Gather, serverVars
  <2>2. results["collector"] = Pending
    BY <2>1
  <2> QED
    BY <2>1, <2>2 DEF mainVars
<1> QED
  BY <1>1, <1>2, <1>3, <1>4, <1>5, <1>6, <1>7, <1>8, <1>9, <1>10 DEF ServeNext, Shutdown, Main

\* Once Shutdown has closed the listener, connections only end.
LEMMA ShutdownStep ==
  ServeTypeOK /\ ReportedInv /\ ShutdownInv /\ [ServeNext]_serveVars => ShutdownInv'
<1> SUFFICES ASSUME ServeTypeOK, ReportedInv, ShutdownInv, [ServeNext]_serveVars
             PROVE  ShutdownInv'
  OBVIOUS
<1> USE DEF ServeTypeOK, ShutdownInv, Active
<1>1. CASE UNCHANGED <<serverVars, results>>
  BY <1>1 DEF serverVars
<1>2. CASE Bind \/ ListenerFails
  BY <1>2 DEF Bind, ListenerFails, mainVars
<1>3. CASE BeginShutdown
  <2>1. results["api"] # "nil"
    BY <1>3 DEF BeginShutdown, ReportedInv, Pending
  <2> QED
    BY <1>3, <2>1 DEF BeginShutdown, mainVars
<1>4. CASE ShutdownCompletes \/ ShutdownTimesOut \/ ListenAndServeFails
  BY <1>4 DEF ShutdownCompletes, ShutdownTimesOut, ListenAndServeFails, Return, Components
<1>5. CASE CollectorReturns
  <2>1. results'["api"] = results["api"]
    BY <1>5 DEF CollectorReturns, Return, Components
  <2> QED
    BY <1>5, <2>1 DEF CollectorReturns, serverVars
<1>6. CASE Collect \/ Command \/ Signal \/ NoticeSignal \/ CloseStore \/ Exit
  BY <1>1, <1>6 DEF Collect, Command, CommandHangs, CommandReturns, Signal, NoticeSignal, CloseStore, Exit, mainVars
<1>7. ASSUME NEW p \in Components, Drain(p) PROVE ShutdownInv'
  BY <1>1, <1>7 DEF Drain
<1>8. ASSUME NEW c \in Setters, Connection(c) PROVE ShutdownInv'
  <2>1. results' = results /\ api' = api /\ listener' = listener
    BY <1>8 DEF Connection, Accept, Request, Patch, Wake, Answer, HangUp, mainVars, serverVars
  <2>2. CASE listener # "closed"
    BY <2>1, <2>2
  <2>3. CASE listener = "closed"
    <3>1. CASE Accept(c) \/ Request(c)
      BY <2>3, <3>1 DEF Accept, Request, Move
    <3>2. CASE Wake(c)
      BY <1>1, <3>2 DEF Wake, mainVars
    <3>3. CASE Patch(c) \/ Answer(c) \/ HangUp(c)
      BY <2>1, <2>3, <3>3 DEF Patch, Answer, HangUp, Move
    <3> QED
      BY <1>8, <3>1, <3>2, <3>3 DEF Connection
  <2> QED
    BY <2>2, <2>3
<1> QED
  BY <1>1, <1>2, <1>3, <1>4, <1>5, <1>6, <1>7, <1>8
     DEF ServeNext, Shutdown, Main, serveVars, mainVars

\* The order in which results are sent, drained and the store is closed, as an
\* invariant of the process.
THEOREM ServeInvariant == ServeSpec => []ServeInv
<1>1. ServeInv /\ [ServeNext]_serveVars => ServeInv'
  BY ServeTypeStep, ReportedStep, ShutdownStep DEF ServeInv
<1> QED
  BY <1>1, ServeInitInv, PTL DEF ServeSpec

\* Every result in errCh is one a component may have.
THEOREM ServeTypeCorrect == ServeSpec => []ServeTypeOK
<1>1. ServeInv => ServeTypeOK
  BY DEF ServeInv
<1> QED
  BY <1>1, ServeInvariant, PTL

\* The store is closed only when Run has returned, and when no request is being
\* served or the API has reported an error.
THEOREM StoreIsClosedLast == ServeSpec => []StoreOutlivesUsers
<1>1. ServeInv => StoreOutlivesUsers
  BY DEF ServeInv, ServeTypeOK, ReportedInv, ShutdownInv, StoreOutlivesUsers, Components
<1> QED
  BY <1>1, ServeInvariant, PTL

-----------------------------------------------------------------------------
(* The readers: their invariants                                           *)


\* The first of two readings is kept while the reader sleeps, and what happens
\* is counted meanwhile.
ReadersInv ==
  /\ reader = "cpuSleep" => first \in Counters
  /\ reader = "netSleep" => first \in Links
  /\ reader # "cpuSleep" /\ reader # "netSleep" => first = None
  /\ first = None => window = Fresh

\* The ticks have grown by what was counted, less what iowait has lost; so have
\* the bytes of the first interface, as long as it has stayed.
WindowInv ==
  /\ window.busy <= window.total
  /\ reader = "cpuSleep" =>
       /\ Total(cpu) + window.shrunk = Total(first) + window.total
       /\ IdleTotal(cpu) + window.busy + window.shrunk = IdleTotal(first) + window.total
  /\ reader = "netSleep" /\ window.steady =>
       links # <<>> /\ links[1].rx = first.rx + window.rx

\* Interfaces have names of their own.
LinksInv == \A i, j \in DOMAIN links : links[i].name = links[j].name => i = j

\* What the reader has last read of a process, if it was there: in the scan under
\* way, or in the one before.
Baseline(p) ==
  IF reader = "scan" /\ p \notin todo THEN current[p]
  ELSE IF previous = None THEN None ELSE previous[p]

\* What has happened to a pid since then.
SeenInv(p) ==
  /\ seen[p].born = None <=> Baseline(p) = None
  /\ seen[p].born # None => seen[p].born <= events
  /\ procs[p] # None => procs[p].born <= events
  /\ procs[p] # None /\ procs[p].born = seen[p].born =>
       procs[p].ticks = Baseline(p) + seen[p].ticks

ScanInv ==
  /\ reader # "scan" => todo = {}
  /\ reader = "scan" /\ previous # None => currentAt > previousAt
  /\ \A p \in todo : current[p] = None
  /\ \A p \in Pids : SeenInv(p)

RatesInv == RatesTypeOK /\ ReadersInv /\ WindowInv /\ LinksInv /\ ScanInv

-----------------------------------------------------------------------------
(* The readers: types                                                      *)

\* The parts of a tick count.
LEMMA CounterFacts ==
  ASSUME NEW c \in Counters
  PROVE  /\ c.busy \in Nat /\ c.idle \in Nat /\ c.iowait \in Nat /\ c # None
         /\ Total(c) = c.busy + c.idle + c.iowait /\ IdleTotal(c) = c.idle + c.iowait
BY NoneAssumption DEF Counters, Total, IdleTotal

\* Its sums are numbers.
LEMMA CounterTotals == ASSUME NEW c \in Counters PROVE Total(c) \in Nat /\ IdleTotal(c) \in Nat
BY CounterFacts

\* A share in percent.
LEMMA ShareType ==
  ASSUME NEW t \in Nat, t > 0, NEW b \in 0..t
  PROVE  (b * 100) \div t \in 0..100
<1>1. 0 <= b * 100 /\ b * 100 <= 100 * t /\ b * 100 \in Nat
  OBVIOUS
<1>2. PICK x \in Nat : x = b * 100
  BY <1>1
<1>3. x \div t \in Int /\ x \div t >= 0
  BY <1>2
<1>4. x \div t <= 100
  BY <1>1, <1>2
<1> QED
  BY <1>2, <1>3, <1>4

\* Whatever the counters, the usage is a percentage.
LEMMA PercentType ==
  ASSUME NEW c \in Counters, NEW d \in Counters
  PROVE  CPUPercent(c, d) \in 0..100
<1>1. PICK total \in Int, idle \in Int :
        total = Total(d) - Total(c) /\ idle = IdleTotal(d) - IdleTotal(c)
  BY CounterFacts
<1>2. CPUPercent(c, d) = IF Plausible(total, idle) THEN ((total - idle) * 100) \div total ELSE 0
  BY <1>1, Zenon DEF CPUPercent
<1>3. CASE Plausible(total, idle)
  <2>1. PICK b : b = total - idle
    OBVIOUS
  <2>2. total \in Nat /\ total > 0 /\ b \in 0..total
    BY <1>3, <2>1 DEF Plausible
  <2>3. (b * 100) \div total \in 0..100
    BY <2>2, ShareType
  <2> QED
    BY <1>2, <1>3, <2>1, <2>3
<1>4. CASE ~Plausible(total, idle)
  BY <1>2, <1>4
<1> QED
  BY <1>3, <1>4

\* The first link, or none.
LEMMA LinkFacts ==
  ASSUME links \in Seq(Links)
  PROVE  /\ PrimaryLink \in Links \cup {None}
         /\ PrimaryLink = None <=> links = <<>>
         /\ links # <<>> => PrimaryLink = links[1]
         /\ \A i \in DOMAIN links : /\ links[i] \in Links /\ links[i].rx \in Nat
                                    /\ links[i].name \in Interfaces
<1>1. \A i \in DOMAIN links : links[i] \in Links
  BY LenProperties, ElementOfSeq
<1>2. links # <<>> => 1 \in DOMAIN links
  BY LenProperties, EmptySeq
<1>3. None \notin Links
  BY NoneAssumption
<1> QED
  BY <1>1, <1>2, <1>3 DEF PrimaryLink, Links

\* A sequence without its i-th element.
LEMMA RemoveFacts ==
  ASSUME NEW S, NEW s \in Seq(S), NEW n \in Nat, n = Len(s), NEW i \in 1..n
  PROVE  /\ RemoveAt(s, i) \in Seq(S) /\ DOMAIN RemoveAt(s, i) = 1..(n - 1)
         /\ \A j \in 1..(n - 1) : RemoveAt(s, i)[j] = IF j < i THEN s[j] ELSE s[j + 1]
<1>1. \A j \in 1..n : s[j] \in S
  BY ElementOfSeq
<1>2. PICK front, back : front = SubSeq(s, 1, i - 1) /\ back = SubSeq(s, i + 1, n)
  OBVIOUS
<1>3. /\ front \in Seq(S) /\ Len(front) = i - 1
      /\ \A j \in 1..(i - 1) : front[j] = s[j]
  <2>1. i - 1 \in Int /\ \A j \in 1..(i - 1) : s[j] \in S
    BY <1>1
  <2>2. /\ front \in Seq(S)
        /\ Len(front) = IF 1 <= i - 1 THEN (i - 1) - 1 + 1 ELSE 0
        /\ \A j \in 1..((i - 1) - 1 + 1) : front[j] = s[1 + j - 1]
    BY <1>2, <2>1, SubSeqProperties
  <2> QED
    BY <2>2
<1>4. /\ back \in Seq(S) /\ Len(back) = n - i
      /\ \A j \in 1..(n - i) : back[j] = s[i + j]
  <2>1. i + 1 \in Int /\ \A j \in (i + 1)..n : s[j] \in S
    BY <1>1
  <2>2. /\ back \in Seq(S)
        /\ Len(back) = IF i + 1 <= n THEN n - (i + 1) + 1 ELSE 0
        /\ \A j \in 1..(n - (i + 1) + 1) : back[j] = s[(i + 1) + j - 1]
    BY <1>2, <2>1, SubSeqProperties
  <2> QED
    BY <2>2
<1>5. RemoveAt(s, i) = front \o back
  BY <1>2, Zenon DEF RemoveAt
<1>6. /\ front \o back \in Seq(S) /\ Len(front \o back) = Len(front) + Len(back)
      /\ \A j \in 1..(Len(front) + Len(back)) :
           (front \o back)[j] = IF j <= Len(front) THEN front[j] ELSE back[j - Len(front)]
  BY <1>3, <1>4, ConcatProperties
<1>7. Len(front) + Len(back) = n - 1
  BY <1>3, <1>4
<1>8. DOMAIN (front \o back) = 1..(n - 1)
  BY <1>6, <1>7, LenProperties
<1>9. ASSUME NEW j \in 1..(n - 1)
      PROVE  (front \o back)[j] = IF j < i THEN s[j] ELSE s[j + 1]
  <2>1. (front \o back)[j] = IF j <= i - 1 THEN front[j] ELSE back[j - (i - 1)]
    BY <1>3, <1>6, <1>7
  <2>2. CASE j < i
    <3>1. j \in 1..(i - 1) /\ j <= i - 1
      BY <2>2
    <3> QED
      BY <1>3, <2>1, <2>2, <3>1
  <2>3. CASE ~(j < i)
    <3>1. j - (i - 1) \in 1..(n - i) /\ ~(j <= i - 1) /\ i + (j - (i - 1)) = j + 1
      BY <2>3
    <3>2. PICK m \in 1..(n - i) : m = j - (i - 1) /\ i + m = j + 1
      BY <3>1
    <3>3. back[m] = s[j + 1]
      BY <1>4, <3>2
    <3> QED
      BY <2>1, <2>3, <3>1, <3>2, <3>3
  <2> QED
    BY <2>2, <2>3
<1> QED
  BY <1>5, <1>6, <1>8, <1>9

\* How the list of interfaces may change.
LEMMA LinksFacts ==
  ASSUME links \in Seq(Links), LinksChange, NEW n \in Nat, n = Len(links)
  PROVE  /\ links' \in Seq(Links)
         /\ \/ \E e \in Links :
                 /\ \A i \in 1..n : links[i].name # e.name
                 /\ DOMAIN links' = 1..(n + 1)
                 /\ \/ links'[1] = e /\ \A i \in 1..n : links'[i + 1] = links[i]
                    \/ links'[n + 1] = e /\ \A i \in 1..n : links'[i] = links[i]
            \/ \E i \in 1..n :
                 /\ DOMAIN links' = 1..(n - 1)
                 /\ \A j \in 1..(n - 1) : links'[j] = IF j < i THEN links[j] ELSE links[j + 1]
<1>1. DOMAIN links = 1..n
  BY LenProperties
<1>2. ASSUME NEW name \in Interfaces \ {links[i].name : i \in DOMAIN links}, NEW e,
             e = [name |-> name, rx |-> 0]
      PROVE  e \in Links /\ \A i \in 1..n : links[i].name # e.name
  BY <1>1, <1>2 DEF Links
<1>3. ASSUME NEW e \in Links, \A i \in 1..n : links[i].name # e.name,
             links' = <<e>> \o links
      PROVE  /\ links' \in Seq(Links) /\ DOMAIN links' = 1..(n + 1)
             /\ links'[1] = e /\ \A i \in 1..n : links'[i + 1] = links[i]
  <2>1. <<e>> \in Seq(Links) /\ Len(<<e>>) = 1 /\ <<e>>[1] = e
    OBVIOUS
  <2>2. PICK one : one = <<e>>
    OBVIOUS
  <2>3. /\ one \o links \in Seq(Links) /\ Len(one \o links) = 1 + n
        /\ \A i \in 1..(1 + n) : (one \o links)[i] = IF i <= 1 THEN one[i] ELSE links[i - 1]
    BY <2>1, <2>2, ConcatProperties
  <2>4. DOMAIN (one \o links) = 1..(n + 1)
    BY <2>3, LenProperties
  <2>5. (one \o links)[1] = e
    BY <2>1, <2>2, <2>3
  <2>6. ASSUME NEW i \in 1..n PROVE (one \o links)[i + 1] = links[i]
    <3>1. i + 1 \in 1..(1 + n) /\ ~(i + 1 <= 1) /\ (i + 1) - 1 = i
      OBVIOUS
    <3> QED
      BY <2>3, <3>1
  <2> QED
    BY <1>3, <2>2, <2>3, <2>4, <2>5, <2>6
<1>4. ASSUME NEW e \in Links, \A i \in 1..n : links[i].name # e.name,
             links' = Append(links, e)
      PROVE  /\ links' \in Seq(Links) /\ DOMAIN links' = 1..(n + 1)
             /\ links'[n + 1] = e /\ \A i \in 1..n : links'[i] = links[i]
  <2>1. /\ Append(links, e) \in Seq(Links) /\ Len(Append(links, e)) = n + 1
        /\ \A i \in 1..n : Append(links, e)[i] = links[i]
        /\ Append(links, e)[n + 1] = e
    BY AppendProperties
  <2>2. DOMAIN Append(links, e) = 1..(n + 1)
    BY <2>1, LenProperties
  <2> QED
    BY <1>4, <2>1, <2>2
<1>5. CASE \E name \in Interfaces \ {links[i].name : i \in DOMAIN links} :
             LET link == [name |-> name, rx |-> 0]
             IN links' = <<link>> \o links \/ links' = Append(links, link)
  <2>1. PICK name \in Interfaces \ {links[i].name : i \in DOMAIN links} :
          \/ links' = <<[name |-> name, rx |-> 0]>> \o links
          \/ links' = Append(links, [name |-> name, rx |-> 0])
    BY <1>5
  <2>2. PICK e : e = [name |-> name, rx |-> 0]
    OBVIOUS
  <2>3. e \in Links /\ \A i \in 1..n : links[i].name # e.name
    BY <1>2, <2>2
  <2>4. links' = <<e>> \o links \/ links' = Append(links, e)
    BY <2>1, <2>2
  <2> QED
    BY <1>3, <1>4, <2>3, <2>4
<1>6. CASE \E i \in DOMAIN links : links' = RemoveAt(links, i)
  <2>1. PICK i \in 1..n : links' = RemoveAt(links, i)
    BY <1>1, <1>6
  <2>2. PICK rest, s : rest = RemoveAt(s, i) /\ s = links
    OBVIOUS
  <2>3. /\ rest \in Seq(Links) /\ DOMAIN rest = 1..(n - 1)
        /\ \A j \in 1..(n - 1) : rest[j] = IF j < i THEN links[j] ELSE links[j + 1]
    <3>1. s \in Seq(Links) /\ n = Len(s)
      BY <2>2
    <3>2. /\ RemoveAt(s, i) \in Seq(Links) /\ DOMAIN RemoveAt(s, i) = 1..(n - 1)
          /\ \A j \in 1..(n - 1) : RemoveAt(s, i)[j] = IF j < i THEN s[j] ELSE s[j + 1]
      BY <3>1, RemoveFacts
    <3> QED
      BY <2>2, <3>2
  <2>4. links' = rest
    BY <2>1, <2>2
  <2>5. \E k \in 1..n :
          /\ DOMAIN links' = 1..(n - 1)
          /\ \A j \in 1..(n - 1) : links'[j] = IF j < k THEN links[j] ELSE links[j + 1]
    BY <2>3, <2>4
  <2> QED
    BY <2>3, <2>4, <2>5, Zenon
<1> QED
  BY <1>5, <1>6 DEF LinksChange

\* One counter more or less, one more of a window's numbers.
LEMMA CountFacts ==
  ASSUME NEW c \in Counters, NEW w \in Window, NEW x \in Nat, NEW y \in Nat
  PROVE  /\ [c EXCEPT !.busy = x] \in Counters /\ [c EXCEPT !.idle = x] \in Counters
         /\ [c EXCEPT !.iowait = x] \in Counters
         /\ [w EXCEPT !.busy = x, !.total = y] \in Window
         /\ [w EXCEPT !.total = x] \in Window /\ [w EXCEPT !.rx = x] \in Window
<1>1. c = [busy |-> c.busy, idle |-> c.idle, iowait |-> c.iowait]
  BY DEF Counters
<1>2. c.busy \in Nat /\ c.idle \in Nat /\ c.iowait \in Nat
  BY DEF Counters
<1>3. [c EXCEPT !.busy = x] = [busy |-> x, idle |-> c.idle, iowait |-> c.iowait]
  BY <1>1
<1>4. [c EXCEPT !.idle = x] = [busy |-> c.busy, idle |-> x, iowait |-> c.iowait]
  BY <1>1
<1>5. [c EXCEPT !.iowait = x] = [busy |-> c.busy, idle |-> c.idle, iowait |-> x]
  BY <1>1
<1>6. w = [busy |-> w.busy, total |-> w.total, shrunk |-> w.shrunk,
         rx |-> w.rx, steady |-> w.steady]
  BY DEF Window
<1>7. /\ w.busy \in Nat /\ w.total \in Nat /\ w.shrunk \in Nat /\ w.rx \in Nat
      /\ w.steady \in BOOLEAN
  BY DEF Window
<1>8. [w EXCEPT !.busy = x, !.total = y] =
        [busy |-> x, total |-> y, shrunk |-> w.shrunk,
         rx |-> w.rx, steady |-> w.steady]
  <2>1. PICK u : u = [w EXCEPT !.busy = x]
    OBVIOUS
  <2>2. u = [busy |-> x, total |-> w.total, shrunk |-> w.shrunk,
         rx |-> w.rx, steady |-> w.steady]
    BY <1>6, <2>1
  <2>3. [u EXCEPT !.total = y] = [busy |-> x, total |-> y, shrunk |-> w.shrunk,
         rx |-> w.rx, steady |-> w.steady]
    BY <2>2
  <2>4. [w EXCEPT !.busy = x, !.total = y] = [[w EXCEPT !.busy = x] EXCEPT !.total = y]
    OBVIOUS
  <2> QED
    BY <2>1, <2>3, <2>4
<1>9. [w EXCEPT !.total = x] \in Window /\ [w EXCEPT !.rx = x] \in Window
  BY DEF Window
<1>10. [c EXCEPT !.busy = x] \in Counters
  BY <1>2, <1>3 DEF Counters
<1>11. [c EXCEPT !.idle = x] \in Counters /\ [c EXCEPT !.iowait = x] \in Counters
  BY <1>2, <1>4, <1>5 DEF Counters
<1>12. [w EXCEPT !.busy = x, !.total = y] \in Window
  BY <1>7, <1>8 DEF Window
<1> QED
  BY <1>9, <1>10, <1>11, <1>12

\* What the kernel does keeps its types, and moves no clock back.
LEMMA KernelType ==
  ASSUME RatesTypeOK, Kernel
  PROVE  /\ time' \in Nat /\ time <= time' /\ events' = events + 1 /\ events' \in Nat
         /\ cpu' \in Counters /\ links' \in Seq(Links)
         /\ procs' \in [Pids -> Process \cup {None}]
         /\ window' \in Window
         /\ seen' \in [Pids -> [born : Nat \cup {None}, ticks : Nat]]
         /\ UNCHANGED readerVars
<1>1. /\ time \in Nat /\ events \in Nat /\ cpu \in Counters /\ links \in Seq(Links)
      /\ procs \in [Pids -> Process \cup {None}] /\ window \in Window
      /\ seen \in [Pids -> [born : Nat \cup {None}, ticks : Nat]]
  BY DEF RatesTypeOK
<1>2. events' = events + 1 /\ events' \in Nat /\ UNCHANGED readerVars
  BY <1>1 DEF Kernel, Event
<1>3. ASSUME NEW w \in Window PROVE InWindow(w) \in Window
  BY <1>1, <1>3 DEF InWindow
<1>4. ASSUME NEW p \in Pids, Run(p)
      PROVE  /\ time' = time + 1 /\ links' = links /\ cpu' \in Counters
             /\ procs' \in [Pids -> Process \cup {None}] /\ window' \in Window
             /\ seen' \in [Pids -> [born : Nat \cup {None}, ticks : Nat]]
  <2>1. cpu' \in Counters
    <3>1. PICK x \in Nat : x = cpu.busy + 1
      BY <1>1 DEF Counters
    <3> QED
      BY <1>1, <1>4, <3>1, CountFacts DEF Run
  <2>2. procs' \in [Pids -> Process \cup {None}]
    <3>1. procs[p] \in Process
      BY <1>1, <1>4 DEF Run
    <3> QED
      BY <1>1, <1>4, <3>1 DEF Run, Process
  <2>3. window' \in Window
    <3>1. PICK w : w = [window EXCEPT !.busy = @ + 1, !.total = @ + 1]
      OBVIOUS
    <3>2. w \in Window
      <4>1. PICK x \in Nat, y \in Nat : x = window.busy + 1 /\ y = window.total + 1
        BY <1>1 DEF Window
      <4> QED
        BY <1>1, <3>1, <4>1, CountFacts
    <3> QED
      BY <1>3, <1>4, <3>1, <3>2 DEF Run
  <2>4. seen' \in [Pids -> [born : Nat \cup {None}, ticks : Nat]]
    <3>1. PICK t : t = IF seen[p].born = procs[p].born THEN seen[p].ticks + 1 ELSE seen[p].ticks
      OBVIOUS
    <3>2. t \in Nat /\ seen[p] \in [born : Nat \cup {None}, ticks : Nat]
      BY <1>1, <3>1
    <3>3. seen' = [seen EXCEPT ![p] = [seen[p] EXCEPT !.ticks = t]]
      BY <1>4, <3>1 DEF Run
    <3> QED
      BY <1>1, <3>2, <3>3
  <2> QED
    BY <1>4, <2>1, <2>2, <2>3, <2>4 DEF Run
<1>5. ASSUME Rest
      PROVE  /\ time' = time + 1 /\ cpu' \in Counters /\ window' \in Window
             /\ UNCHANGED <<links, procs, seen>>
  <2>1. cpu' \in Counters
    <3>1. PICK x \in Nat, y \in Nat : x = cpu.idle + 1 /\ y = cpu.iowait + 1
      BY <1>1 DEF Counters
    <3> QED
      BY <1>1, <1>5, <3>1, CountFacts DEF Rest
  <2>2. PICK w : w = [window EXCEPT !.total = @ + 1]
    OBVIOUS
  <2>3. w \in Window
    <3>1. PICK x \in Nat : x = window.total + 1
      BY <1>1 DEF Window
    <3> QED
      BY <1>1, <2>2, <3>1, CountFacts
  <2> QED
    BY <1>3, <1>5, <2>1, <2>2, <2>3 DEF Rest
<1>6. ASSUME IowaitShrinks
      PROVE  cpu' \in Counters /\ window' \in Window /\ UNCHANGED <<time, links, procs, seen>>
  <2>1. cpu' \in Counters
    BY <1>1, <1>6 DEF IowaitShrinks, Counters
  <2>2. PICK w, x : w = [window EXCEPT !.shrunk = x] /\ x = window.shrunk + 1
    OBVIOUS
  <2>3. w \in Window
    <3>1. x \in Nat
      BY <1>1, <2>2 DEF Window
    <3> QED
      BY <1>1, <2>2, <3>1 DEF Window
  <2> QED
    BY <1>3, <1>6, <2>1, <2>2, <2>3 DEF IowaitShrinks
<1>7. ASSUME NEW i \in DOMAIN links, Packet(i)
      PROVE  /\ links' \in Seq(Links) /\ window' \in Window
             /\ UNCHANGED <<time, cpu, procs, seen>>
  <2>1. PICK n \in Nat : n = Len(links) /\ DOMAIN links = 1..n
    BY <1>1, LenProperties
  <2>2. links' \in Seq(Links)
    <3>1. links \in [1..n -> Links]
      BY <1>1, <2>1, LenProperties
    <3>2. i \in 1..n /\ links' = [links EXCEPT ![i].rx = @ + 1]
      BY <1>7, <2>1 DEF Packet
    <3>3. links' \in [1..n -> Links]
      BY <3>1, <3>2 DEF Links
    <3> QED
      BY <3>3, SeqDef
  <2>3. PICK w : w = [window EXCEPT !.rx = @ + (IF i = 1 THEN 1 ELSE 0)]
    OBVIOUS
  <2>4. w \in Window
    <3>1. PICK x \in Nat : x = window.rx + (IF i = 1 THEN 1 ELSE 0)
      <4>1. window.rx + 1 \in Nat /\ window.rx + 0 \in Nat
        BY <1>1 DEF Window
      <4> QED
        BY <4>1
    <3> QED
      BY <1>1, <2>3, <3>1, CountFacts
  <2> QED
    BY <1>3, <1>7, <2>2, <2>3, <2>4 DEF Packet
<1>8. ASSUME LinksChange
      PROVE  /\ links' \in Seq(Links) /\ window' \in Window
             /\ UNCHANGED <<time, cpu, procs, seen>>
  <2>1. PICK n \in Nat : n = Len(links)
    BY <1>1, LenProperties
  <2>2. links' \in Seq(Links)
    BY <1>1, <1>8, <2>1, LinksFacts
  <2>3. PICK b \in BOOLEAN :
          b <=> window.steady /\ links # <<>> /\ links' # <<>> /\ links[1].name = links'[1].name
    OBVIOUS
  <2>4. window' = InWindow([window EXCEPT !.steady = b])
    BY <1>8, <2>3 DEF LinksChange
  <2>5. PICK w : w = [window EXCEPT !.steady = b]
    OBVIOUS
  <2>6. w \in Window
    BY <1>1, <2>5 DEF Window
  <2>7. window' \in Window
    BY <1>3, <2>4, <2>5, <2>6
  <2> QED
    BY <1>8, <2>2, <2>7 DEF LinksChange
<1>9. ASSUME NEW p \in Pids, ProcessExits(p)
      PROVE  /\ procs' \in [Pids -> Process \cup {None}]
             /\ UNCHANGED <<time, cpu, links, window, seen>>
  BY <1>1, <1>9 DEF ProcessExits
<1>10. ASSUME NEW p \in Pids, ProcessStarts(p)
       PROVE  /\ procs' \in [Pids -> Process \cup {None}]
              /\ UNCHANGED <<time, cpu, links, window, seen>>
  BY <1>1, <1>10 DEF ProcessStarts, Process
<1> QED
  BY <1>1, <1>2, <1>4, <1>5, <1>6, <1>7, <1>8, <1>9, <1>10 DEF Kernel

\* Each reader keeps the types.
LEMMA ReadersType ==
  ASSUME RatesTypeOK, ReadersInv, Readers
  PROVE  RatesTypeOK'
<1>1. /\ time \in Nat /\ events \in Nat /\ polls \in Nat
      /\ cpu \in Counters /\ links \in Seq(Links)
      /\ procs \in [Pids -> Process \cup {None}]
      /\ sleptAt \in 0..time
      /\ first \in Counters \cup Links \cup {None}
      /\ previous \in Ticks \cup {None} /\ previousAt \in 0..time
      /\ current \in Ticks /\ currentAt \in 0..time /\ todo \subseteq Pids
      /\ result \in [cpu : 0..100, rx : Nat, top : Ticks]
      /\ window \in Window
      /\ seen \in [Pids -> [born : Nat \cup {None}, ticks : Nat]]
  BY DEF RatesTypeOK
<1>2. Nothing \in Ticks /\ Fresh \in Window /\ 0 \in 0..time /\ time \in 0..time
  BY <1>1 DEF Nothing, Ticks, Fresh, Window
<1>3. Unseen \in [born : Nat \cup {None}, ticks : Nat]
  BY DEF Unseen
<1>4. CASE UNCHANGED <<time, cpu, links, procs, events, scanVars, seen>> /\ polls' \in Nat
           /\ reader' \in {"idle", "cpu", "cpuSleep", "net", "netSleep", "list", "scan"}
           /\ sleptAt' \in 0..time /\ first' \in Counters \cup Links \cup {None}
           /\ result' \in [cpu : 0..100, rx : Nat, top : Ticks] /\ window' \in Window
  BY <1>1, <1>4 DEF RatesTypeOK, scanVars
<1>5. CASE Poll
  <2>1. [cpu |-> 0, rx |-> 0, top |-> Nothing] \in [cpu : 0..100, rx : Nat, top : Ticks]
    BY <1>2
  <2> QED
    BY <1>1, <1>4, <1>5, <2>1 DEF Poll, kernelVars
<1>6. CASE ReadCPU
  BY <1>1, <1>2, <1>4, <1>6 DEF ReadCPU, kernelVars
<1>7. CASE ReadCPUAgain
  <2>1. first \in Counters
    BY <1>7 DEF ReadCPUAgain, ReadersInv
  <2>2. PICK n \in 0..100 : n = CPUPercent(first, cpu)
    BY <1>1, <2>1, PercentType
  <2>3. result' = [result EXCEPT !.cpu = n]
    BY <1>7, <2>2 DEF ReadCPUAgain
  <2>4. result' \in [cpu : 0..100, rx : Nat, top : Ticks]
    BY <1>1, <2>3
  <2> QED
    BY <1>1, <1>2, <1>4, <1>7, <2>4 DEF ReadCPUAgain, Leave, kernelVars
<1>8. CASE CPUFails
  BY <1>1, <1>2, <1>4, <1>8 DEF CPUFails, Leave, kernelVars
<1>9. CASE ReadNet
  <2>1. PrimaryLink \in Counters \cup Links \cup {None}
    BY <1>1, LinkFacts
  <2> QED
    BY <1>1, <1>2, <1>4, <1>9, <2>1 DEF ReadNet, kernelVars
<1>10. CASE ReadNetAgain
  <2>1. PrimaryLink \in Links /\ first \in Links
    BY <1>1, <1>10, LinkFacts DEF ReadNetAgain, ReadersInv
  <2>2. PICK n \in Nat : n = NonNegativeDelta(PrimaryLink.rx, first.rx)
    <3>1. PrimaryLink.rx \in Nat /\ first.rx \in Nat
      BY <2>1 DEF Links
    <3> QED
      BY <3>1 DEF NonNegativeDelta
  <2>3. result' = [result EXCEPT !.rx = n]
    BY <1>10, <2>2 DEF ReadNetAgain
  <2>4. result' \in [cpu : 0..100, rx : Nat, top : Ticks]
    BY <1>1, <2>3
  <2> QED
    BY <1>1, <1>2, <1>4, <1>10, <2>4 DEF ReadNetAgain, Leave, kernelVars
<1>11. CASE NetFails
  BY <1>1, <1>2, <1>4, <1>11 DEF NetFails, Leave, kernelVars
<1>12. CASE ListFails
  BY <1>1, <1>4, <1>12 DEF ListFails, kernelVars
<1>13. CASE UNCHANGED <<time, cpu, links, procs, events, sleptAt, first, polls, window>>
            /\ reader' \in {"idle", "cpu", "cpuSleep", "net", "netSleep", "list", "scan"}
            /\ previous' \in Ticks \cup {None} /\ previousAt' \in 0..time
            /\ current' \in Ticks /\ currentAt' \in 0..time /\ todo' \subseteq Pids
            /\ result' \in [cpu : 0..100, rx : Nat, top : Ticks]
            /\ seen' \in [Pids -> [born : Nat \cup {None}, ticks : Nat]]
  BY <1>1, <1>13 DEF RatesTypeOK
<1>14. CASE ListProcesses
  <2>1. seen' \in [Pids -> [born : Nat \cup {None}, ticks : Nat]]
    BY <1>1, <1>3, <1>14 DEF ListProcesses
  <2> QED
    BY <1>1, <1>2, <1>13, <1>14, <2>1 DEF ListProcesses, kernelVars
<1>15. ASSUME NEW p \in Pids, ReadProcess(p) PROVE RatesTypeOK'
  <2>1. CASE procs[p] = None
    <3>1. seen' \in [Pids -> [born : Nat \cup {None}, ticks : Nat]]
      BY <1>1, <1>3, <1>15, <2>1 DEF ReadProcess
    <3> QED
      BY <1>1, <1>13, <1>15, <2>1, <3>1 DEF ReadProcess, kernelVars
  <2>2. CASE procs[p] # None
    <3>1. procs[p] \in Process
      BY <1>1, <2>2
    <3>2. PICK b \in Nat, t \in Nat : b = procs[p].born /\ t = procs[p].ticks
      BY <3>1 DEF Process
    <3>3. current' \in Ticks
      BY <1>1, <1>15, <2>2, <3>2 DEF ReadProcess, Ticks
    <3>4. PICK n \in Nat : n = TicksSince(p)
      <4>1. CASE HaveBaseline /\ previous[p] # None
        <5>1. previous \in Ticks
          BY <1>1, <4>1 DEF HaveBaseline
        <5>2. PICK x \in Nat : x = previous[p]
          BY <4>1, <5>1 DEF Ticks
        <5>3. TicksSince(p) = IF t < x THEN 0 ELSE t - x
          BY <3>2, <4>1, <5>2 DEF TicksSince, TicksBetween
        <5> QED
          BY <5>3
      <4>2. CASE ~(HaveBaseline /\ previous[p] # None)
        BY <4>2 DEF TicksSince
      <4> QED
        BY <4>1, <4>2
    <3>5. result' \in [cpu : 0..100, rx : Nat, top : Ticks]
      <4>1. result' = [result EXCEPT !.top = [result.top EXCEPT ![p] = n]]
        BY <1>15, <2>2, <3>4 DEF ReadProcess
      <4>2. [result.top EXCEPT ![p] = n] \in Ticks
        BY <1>1 DEF Ticks
      <4> QED
        BY <1>1, <4>1, <4>2
    <3>6. seen' \in [Pids -> [born : Nat \cup {None}, ticks : Nat]]
      <4>1. seen' = [seen EXCEPT ![p] = [born |-> b, ticks |-> 0]]
        BY <1>15, <2>2, <3>2 DEF ReadProcess
      <4> QED
        BY <1>1, <4>1
    <3>7. /\ UNCHANGED <<time, cpu, links, procs, events, sleptAt, first, polls, window>>
          /\ UNCHANGED <<reader, previous, previousAt, currentAt>> /\ todo' \subseteq Pids
      BY <1>1, <1>15 DEF ReadProcess, kernelVars
    <3> QED
      BY <1>1, <3>3, <3>5, <3>6, <3>7 DEF RatesTypeOK
  <2> QED
    BY <2>1, <2>2
<1>16. CASE EndScan
  <2>1. PICK S : result' = [result EXCEPT !.top = [p \in Pids |-> IF p \in S THEN @[p] ELSE None]]
    BY <1>16 DEF EndScan
  <2>2. [p \in Pids |-> IF p \in S THEN result.top[p] ELSE None] \in Ticks
    BY <1>1 DEF Ticks
  <2>3. result' \in [cpu : 0..100, rx : Nat, top : Ticks]
    BY <1>1, <2>1, <2>2
  <2>4. /\ UNCHANGED <<time, cpu, links, procs, events, sleptAt, first, polls, window, seen>>
        /\ reader' = "idle" /\ previous' = current /\ previousAt' = currentAt
        /\ current' = Nothing /\ currentAt' = 0 /\ todo' = todo
    BY <1>16 DEF EndScan, kernelVars
  <2> QED
    BY <1>1, <1>2, <1>13, <2>3, <2>4
<1> QED
  BY <1>5, <1>6, <1>7, <1>8, <1>9, <1>10, <1>11, <1>12, <1>14, <1>15, <1>16 DEF Readers

\* The types are kept.
LEMMA TypeStep ==
  ASSUME RatesTypeOK, ReadersInv, [RatesNext]_ratesVars
  PROVE  RatesTypeOK'
<1>1. CASE Kernel
  <2>1. /\ time \in Nat /\ time' \in Nat /\ time <= time'
    BY <1>1, KernelType DEF RatesTypeOK
  <2>2. UNCHANGED <<reader, sleptAt, first, previous, previousAt, current, currentAt, todo,
                    result, polls>>
    BY <1>1, KernelType DEF readerVars, scanVars
  <2>3. sleptAt' \in 0..time' /\ previousAt' \in 0..time' /\ currentAt' \in 0..time'
    BY <2>1, <2>2 DEF RatesTypeOK
  <2> QED
    BY <1>1, <2>1, <2>2, <2>3, KernelType DEF RatesTypeOK
<1>2. CASE UNCHANGED ratesVars
  BY <1>2 DEF ratesVars, kernelVars, readerVars, scanVars, RatesTypeOK
<1> QED
  BY <1>1, <1>2, ReadersType DEF RatesNext

-----------------------------------------------------------------------------
(* The readers: the readings and the window between them                   *)

\* Nothing is counted outside of a window.
LEMMA KernelWindow ==
  ASSUME Kernel, first = None
  PROVE  window' = window
<1>1. \A w : InWindow(w) = window
  BY DEF InWindow
<1>2. ASSUME NEW p \in Pids, Run(p) PROVE window' = window
  BY <1>1, <1>2 DEF Run
<1>3. CASE Rest
  BY <1>1, <1>3 DEF Rest
<1>4. CASE IowaitShrinks
  BY <1>1, <1>4 DEF IowaitShrinks
<1>5. ASSUME NEW i \in DOMAIN links, Packet(i) PROVE window' = window
  BY <1>1, <1>5 DEF Packet
<1>6. CASE LinksChange
  BY <1>1, <1>6 DEF LinksChange
<1>7. ASSUME NEW p \in Pids, ProcessExits(p) PROVE window' = window
  BY <1>7 DEF ProcessExits
<1>8. ASSUME NEW p \in Pids, ProcessStarts(p) PROVE window' = window
  BY <1>8 DEF ProcessStarts
<1> QED
  BY <1>2, <1>3, <1>4, <1>5, <1>6, <1>7, <1>8 DEF Kernel

\* The first reading is there when the second is made, and goes with it.
LEMMA ReadersStep ==
  ASSUME RatesTypeOK, ReadersInv, [RatesNext]_ratesVars
  PROVE  ReadersInv'
<1>1. CASE Kernel
  <2>1. UNCHANGED <<reader, first>> /\ (first = None => window' = window)
    BY <1>1, KernelWindow DEF Kernel, readerVars
  <2> QED
    BY <2>1 DEF ReadersInv
<1>2. CASE UNCHANGED ratesVars
  BY <1>2 DEF ratesVars, readerVars, ReadersInv
<1>3. CASE Poll
  BY <1>3 DEF Poll, ReadersInv
<1>4. CASE ReadCPU
  <2>1. cpu \in Counters /\ cpu # None
    BY CounterFacts DEF RatesTypeOK
  <2> QED
    BY <1>4, <2>1 DEF ReadCPU, ReadersInv
<1>5. CASE ReadCPUAgain
  BY <1>5 DEF ReadCPUAgain, Leave, ReadersInv
<1>6. CASE CPUFails
  BY <1>6 DEF CPUFails, Leave, ReadersInv
<1>7. CASE ReadNet
  <2>1. PrimaryLink \in Links \cup {None}
    BY LinkFacts DEF RatesTypeOK
  <2>2. first = None /\ window = Fresh
    BY <1>7 DEF ReadNet, ReadersInv
  <2> QED
    BY <1>7, <2>1, <2>2 DEF ReadNet, ReadersInv
<1>8. CASE ReadNetAgain
  BY <1>8 DEF ReadNetAgain, Leave, ReadersInv
<1>9. CASE NetFails
  BY <1>9 DEF NetFails, Leave, ReadersInv
<1>10. CASE ListProcesses
  BY <1>10 DEF ListProcesses, ReadersInv
<1>11. CASE ListFails
  BY <1>11 DEF ListFails, ReadersInv
<1>12. ASSUME NEW p \in Pids, ReadProcess(p) PROVE ReadersInv'
  BY <1>12 DEF ReadProcess, ReadersInv
<1>13. CASE EndScan
  BY <1>13 DEF EndScan, ReadersInv
<1> QED
  BY <1>1, <1>2, <1>3, <1>4, <1>5, <1>6, <1>7, <1>8, <1>9, <1>10, <1>11, <1>12, <1>13
     DEF RatesNext, Readers

\* Interfaces keep names of their own.
LEMMA LinksStep ==
  ASSUME RatesTypeOK, LinksInv, [RatesNext]_ratesVars
  PROVE  LinksInv'
<1>1. PICK n \in Nat : n = Len(links) /\ DOMAIN links = 1..n
  BY LenProperties DEF RatesTypeOK
<1>2. links \in Seq(Links)
  BY DEF RatesTypeOK
<1>3. CASE links' = links
  BY <1>3 DEF LinksInv
<1>4. ASSUME NEW k \in DOMAIN links, Packet(k) PROVE LinksInv'
  <2>1. links' = [links EXCEPT ![k].rx = @ + 1]
    BY <1>4 DEF Packet
  <2>2. DOMAIN links' = DOMAIN links
    BY <2>1
  <2>3. ASSUME NEW i \in DOMAIN links PROVE links'[i].name = links[i].name
    BY <1>2, <2>1, LinkFacts DEF Links
  <2> QED
    BY <2>2, <2>3 DEF LinksInv
<1>5. CASE LinksChange
  <2>1. CASE \E e \in Links :
               /\ \A i \in 1..n : links[i].name # e.name
               /\ DOMAIN links' = 1..(n + 1)
               /\ \/ links'[1] = e /\ \A i \in 1..n : links'[i + 1] = links[i]
                  \/ links'[n + 1] = e /\ \A i \in 1..n : links'[i] = links[i]
    <3>1. PICK e \in Links :
               /\ \A i \in 1..n : links[i].name # e.name
               /\ DOMAIN links' = 1..(n + 1)
               /\ \/ links'[1] = e /\ \A i \in 1..n : links'[i + 1] = links[i]
                  \/ links'[n + 1] = e /\ \A i \in 1..n : links'[i] = links[i]
      BY <2>1
    <3>2. SUFFICES ASSUME NEW i \in 1..(n + 1), NEW j \in 1..(n + 1),
                          links'[i].name = links'[j].name
                   PROVE  i = j
      BY <3>1 DEF LinksInv
    <3>3. CASE links'[1] = e /\ \A k \in 1..n : links'[k + 1] = links[k]
      <4>1. ASSUME NEW k \in 1..(n + 1), k # 1
            PROVE  k - 1 \in 1..n /\ links'[k] = links[k - 1]
        <5>1. k - 1 \in 1..n /\ (k - 1) + 1 = k
          BY <4>1
        <5> QED
          BY <3>3, <5>1
      <4>2. CASE i = 1 /\ j # 1
        BY <3>1, <3>2, <3>3, <4>1, <4>2
      <4>3. CASE i # 1 /\ j = 1
        BY <3>1, <3>2, <3>3, <4>1, <4>3
      <4>4. CASE i # 1 /\ j # 1
        <5>1. /\ i - 1 \in DOMAIN links /\ j - 1 \in DOMAIN links
              /\ links'[i] = links[i - 1] /\ links'[j] = links[j - 1]
          BY <1>1, <4>1, <4>4
        <5>2. i - 1 = j - 1
          BY <3>2, <5>1, Zenon DEF LinksInv
        <5> QED
          BY <5>2
      <4> QED
        BY <4>2, <4>3, <4>4
    <3>4. CASE links'[n + 1] = e /\ \A k \in 1..n : links'[k] = links[k]
      <4>1. ASSUME NEW k \in 1..(n + 1), k # n + 1 PROVE k \in 1..n
        BY <4>1
      <4> QED
        BY <1>1, <3>1, <3>2, <3>4, <4>1 DEF LinksInv
    <3> QED
      BY <3>1, <3>3, <3>4
  <2>2. CASE \E k \in 1..n :
               /\ DOMAIN links' = 1..(n - 1)
               /\ \A j \in 1..(n - 1) : links'[j] = IF j < k THEN links[j] ELSE links[j + 1]
    <3>1. PICK k \in 1..n :
               /\ DOMAIN links' = 1..(n - 1)
               /\ \A j \in 1..(n - 1) : links'[j] = IF j < k THEN links[j] ELSE links[j + 1]
      BY <2>2
    <3>2. SUFFICES ASSUME NEW i \in 1..(n - 1), NEW j \in 1..(n - 1),
                          links'[i].name = links'[j].name
                   PROVE  i = j
      BY <3>1 DEF LinksInv
    <3>3. PICK x \in 1..n, y \in 1..n :
            /\ x = IF i < k THEN i ELSE i + 1
            /\ y = IF j < k THEN j ELSE j + 1
      OBVIOUS
    <3>4. links'[i] = links[x] /\ links'[j] = links[y]
      BY <3>1, <3>3
    <3>5. x = y
      BY <1>1, <3>2, <3>4 DEF LinksInv
    <3> QED
      BY <3>3, <3>5
  <2> QED
    BY <1>1, <1>2, <1>5, <2>1, <2>2, LinksFacts
<1>6. CASE Kernel
  BY <1>3, <1>4, <1>5, <1>6
     DEF Kernel, Run, Rest, IowaitShrinks, ProcessExits, ProcessStarts
<1>7. CASE Readers
  BY <1>3, <1>7 DEF Readers, kernelVars, Poll, ReadCPU, ReadCPUAgain, CPUFails, ReadNet,
     ReadNetAgain, NetFails, ListProcesses, ListFails, ReadProcess, EndScan
<1>8. CASE UNCHANGED ratesVars
  BY <1>3, <1>8 DEF ratesVars, kernelVars
<1> QED
  BY <1>6, <1>7, <1>8 DEF RatesNext

\* What a tick adds to a window.
LEMMA TickFacts ==
  ASSUME NEW w \in Window, NEW v, v = [w EXCEPT !.busy = @ + 1, !.total = @ + 1]
  PROVE  /\ v.busy = w.busy + 1 /\ v.total = w.total + 1
         /\ v.shrunk = w.shrunk /\ v.rx = w.rx /\ v.steady = w.steady
<1>1. PICK u : u = [w EXCEPT !.busy = @ + 1]
  OBVIOUS
<1>2. w = [busy |-> w.busy, total |-> w.total, shrunk |-> w.shrunk,
         rx |-> w.rx, steady |-> w.steady]
  BY DEF Window
<1>3. u = [busy |-> w.busy + 1, total |-> w.total, shrunk |-> w.shrunk,
         rx |-> w.rx, steady |-> w.steady]
  BY <1>1, <1>2
<1>4. [u EXCEPT !.total = u.total + 1] =
        [busy |-> w.busy + 1, total |-> w.total + 1, shrunk |-> w.shrunk,
         rx |-> w.rx, steady |-> w.steady]
  BY <1>3
<1>5. v = [u EXCEPT !.total = u.total + 1]
  <2>1. u.total = w.total
    BY <1>3
  <2> QED
    BY <1>1, <2>1
<1> QED
  BY <1>4, <1>5

\* What a tick more, or one fewer of iowait, makes of the counters.
LEMMA CounterTicks ==
  ASSUME NEW c \in Counters
  PROVE  /\ Total([c EXCEPT !.busy = @ + 1]) = Total(c) + 1
         /\ IdleTotal([c EXCEPT !.busy = @ + 1]) = IdleTotal(c)
         /\ Total([c EXCEPT !.idle = @ + 1]) = Total(c) + 1
         /\ IdleTotal([c EXCEPT !.idle = @ + 1]) = IdleTotal(c) + 1
         /\ Total([c EXCEPT !.iowait = @ + 1]) = Total(c) + 1
         /\ IdleTotal([c EXCEPT !.iowait = @ + 1]) = IdleTotal(c) + 1
         /\ Total([c EXCEPT !.iowait = @ - 1]) + 1 = Total(c)
         /\ IdleTotal([c EXCEPT !.iowait = @ - 1]) + 1 = IdleTotal(c)
<1>1. c.busy \in Nat /\ c.idle \in Nat /\ c.iowait \in Nat
  BY CounterFacts
<1>2. PICK b : b = [c EXCEPT !.busy = @ + 1]
  OBVIOUS
<1>3. b.busy = c.busy + 1 /\ b.idle = c.idle /\ b.iowait = c.iowait
  BY <1>2 DEF Counters
<1>4. PICK d : d = [c EXCEPT !.idle = @ + 1]
  OBVIOUS
<1>5. d.busy = c.busy /\ d.idle = c.idle + 1 /\ d.iowait = c.iowait
  BY <1>4 DEF Counters
<1>6. PICK e : e = [c EXCEPT !.iowait = @ + 1]
  OBVIOUS
<1>7. e.busy = c.busy /\ e.idle = c.idle /\ e.iowait = c.iowait + 1
  BY <1>6 DEF Counters
<1>8. Total(b) = Total(c) + 1 /\ IdleTotal(b) = IdleTotal(c)
  BY <1>1, <1>3 DEF Total, IdleTotal
<1>9. Total(d) = Total(c) + 1 /\ IdleTotal(d) = IdleTotal(c) + 1
  BY <1>1, <1>5 DEF Total, IdleTotal
<1>10. Total(e) = Total(c) + 1 /\ IdleTotal(e) = IdleTotal(c) + 1
  BY <1>1, <1>7 DEF Total, IdleTotal
<1>11. PICK f : f = [c EXCEPT !.iowait = @ - 1]
  OBVIOUS
<1>12. f.busy = c.busy /\ f.idle = c.idle /\ f.iowait = c.iowait - 1
  BY <1>11 DEF Counters
<1>13. Total(f) + 1 = Total(c) /\ IdleTotal(f) + 1 = IdleTotal(c)
  BY <1>1, <1>12 DEF Total, IdleTotal
<1> QED
  BY <1>2, <1>4, <1>6, <1>8, <1>9, <1>10, <1>11, <1>13

\* When the first of the links stays, its name says so.
LEMMA FirstStays ==
  ASSUME links \in Seq(Links), LinksInv, LinksChange,
         links # <<>>, links' # <<>>, links[1].name = links'[1].name
  PROVE  links'[1] = links[1]
<1>1. PICK n \in Nat : n = Len(links) /\ DOMAIN links = 1..n
  BY LenProperties
<1>2. links' \in Seq(Links)
  BY <1>1, LinksFacts
<1>3. 1 \in DOMAIN links /\ 1 \in DOMAIN links'
  BY <1>2, LenProperties, EmptySeq
<1>4. 1 \in 1..n
  BY <1>1, <1>3
<1>5. CASE \E e \in Links :
             /\ \A i \in 1..n : links[i].name # e.name
             /\ DOMAIN links' = 1..(n + 1)
             /\ \/ links'[1] = e /\ \A i \in 1..n : links'[i + 1] = links[i]
                \/ links'[n + 1] = e /\ \A i \in 1..n : links'[i] = links[i]
  BY <1>4, <1>5
<1>6. CASE \E i \in 1..n :
             /\ DOMAIN links' = 1..(n - 1)
             /\ \A j \in 1..(n - 1) : links'[j] = IF j < i THEN links[j] ELSE links[j + 1]
  <2>1. PICK i \in 1..n :
             /\ DOMAIN links' = 1..(n - 1)
             /\ \A j \in 1..(n - 1) : links'[j] = IF j < i THEN links[j] ELSE links[j + 1]
    BY <1>6
  <2>2. 1 \in 1..(n - 1) /\ 2 \in 1..n
    BY <1>3, <2>1
  <2>3. links'[1] = IF 1 < i THEN links[1] ELSE links[2]
    BY <2>1, <2>2
  <2>4. links[1].name # links[2].name
    BY <1>1, <1>3, <2>2 DEF LinksInv
  <2> QED
    BY <2>3, <2>4
<1> QED
  BY <1>1, <1>5, <1>6, LinksFacts

\* What a window has counted agrees with the counters after anything the kernel does.
LEMMA KernelKeepsWindow ==
  ASSUME RatesTypeOK, ReadersInv, WindowInv, LinksInv, Kernel, first # None
  PROVE  WindowInv'
<1>1. /\ time \in Nat /\ cpu \in Counters /\ links \in Seq(Links) /\ window \in Window
  BY DEF RatesTypeOK
<1>2. UNCHANGED <<reader, sleptAt, first>> /\ \A w : InWindow(w) = w
  BY DEF Kernel, readerVars, InWindow
<1>3. PICK b \in Nat, t \in Nat, r \in Nat, l \in Nat :
        b = window.busy /\ t = window.total /\ r = window.rx /\ l = window.shrunk
  BY <1>1 DEF Window
<1>4. reader = "cpuSleep" =>
        /\ Total(cpu) \in Nat /\ IdleTotal(cpu) \in Nat
        /\ Total(first) \in Nat /\ IdleTotal(first) \in Nat
  BY <1>1, CounterTotals DEF ReadersInv
<1>5. reader = "netSleep" => first.rx \in Nat
  BY DEF ReadersInv, Links
<1>6. ASSUME NEW p \in Pids, Run(p) PROVE WindowInv'
  <2>1. PICK w : w = [window EXCEPT !.busy = @ + 1, !.total = @ + 1]
    OBVIOUS
  <2>2. window' = w
    BY <1>2, <1>6, <2>1 DEF Run
  <2>3. /\ window'.busy = b + 1 /\ window'.total = t + 1 /\ window'.rx = r
        /\ window'.steady = window.steady /\ window'.shrunk = l
    BY <1>1, <1>3, <2>1, <2>2, TickFacts
  <2>4. Total(cpu') = Total(cpu) + 1 /\ IdleTotal(cpu') = IdleTotal(cpu)
    BY <1>1, <1>6, CounterTicks DEF Run
  <2>5. time' = time + 1 /\ links' = links
    BY <1>6 DEF Run
  <2>6. window'.busy <= window'.total
    BY <1>3, <2>3 DEF WindowInv
  <2>7. reader' = "cpuSleep" =>
          /\ Total(cpu') + window'.shrunk = Total(first') + window'.total
          /\ IdleTotal(cpu') + window'.busy + window'.shrunk =
               IdleTotal(first') + window'.total
    <3>1. SUFFICES ASSUME reader = "cpuSleep"
          PROVE  /\ Total(cpu') + l = Total(first) + (t + 1)
                 /\ IdleTotal(cpu') + (b + 1) + l = IdleTotal(first) + (t + 1)
      BY <1>2, <2>3
    <3>2. Total(cpu) + l = Total(first) + t /\ IdleTotal(cpu) + b + l = IdleTotal(first) + t
      BY <1>3, <3>1 DEF WindowInv
    <3> QED
      BY <1>4, <2>4, <3>1, <3>2
  <2>8. reader' = "netSleep" /\ window'.steady =>
          links' # <<>> /\ links'[1].rx = first'.rx + window'.rx
    BY <1>2, <1>3, <2>3, <2>5 DEF WindowInv
  <2> QED
    BY <2>6, <2>7, <2>8 DEF WindowInv
<1>7. CASE Rest
  <2>1. PICK w : w = [window EXCEPT !.total = @ + 1]
    OBVIOUS
  <2>2. window' = w
    BY <1>2, <1>7, <2>1 DEF Rest
  <2>3. /\ window'.busy = b /\ window'.total = t + 1 /\ window'.rx = r
        /\ window'.steady = window.steady /\ window'.shrunk = l
    BY <1>1, <1>3, <2>1, <2>2 DEF Window
  <2>4. Total(cpu') = Total(cpu) + 1 /\ IdleTotal(cpu') = IdleTotal(cpu) + 1
    BY <1>1, <1>7, CounterTicks DEF Rest
  <2>5. time' = time + 1 /\ links' = links
    BY <1>7 DEF Rest
  <2>6. window'.busy <= window'.total
    BY <1>3, <2>3 DEF WindowInv
  <2>7. reader' = "cpuSleep" =>
          /\ Total(cpu') + window'.shrunk = Total(first') + window'.total
          /\ IdleTotal(cpu') + window'.busy + window'.shrunk =
               IdleTotal(first') + window'.total
    <3>1. SUFFICES ASSUME reader = "cpuSleep"
          PROVE  /\ Total(cpu') + l = Total(first) + (t + 1)
                 /\ IdleTotal(cpu') + b + l = IdleTotal(first) + (t + 1)
      BY <1>2, <2>3
    <3>2. Total(cpu) + l = Total(first) + t /\ IdleTotal(cpu) + b + l = IdleTotal(first) + t
      BY <1>3, <3>1 DEF WindowInv
    <3> QED
      BY <1>4, <2>4, <3>1, <3>2
  <2>8. reader' = "netSleep" /\ window'.steady =>
          links' # <<>> /\ links'[1].rx = first'.rx + window'.rx
    BY <1>2, <1>3, <2>3, <2>5 DEF WindowInv
  <2> QED
    BY <2>6, <2>7, <2>8 DEF WindowInv
<1>8. CASE IowaitShrinks
  <2>1. PICK w, d : w = [window EXCEPT !.shrunk = d] /\ d = window.shrunk + 1
    OBVIOUS
  <2>2. window' = w /\ time' = time /\ links' = links
    BY <1>2, <1>8, <2>1 DEF IowaitShrinks
  <2>3. /\ window'.busy = b /\ window'.total = t /\ window'.rx = r
        /\ window'.steady = window.steady /\ window'.shrunk = l + 1
    BY <1>1, <1>3, <2>1, <2>2 DEF Window
  <2>4. Total(cpu') + 1 = Total(cpu) /\ IdleTotal(cpu') + 1 = IdleTotal(cpu)
    BY <1>1, <1>8, CounterTicks DEF IowaitShrinks
  <2>5. window'.busy <= window'.total
    BY <1>2, <1>3, <2>2, <2>3 DEF WindowInv
  <2>6. reader' = "cpuSleep" =>
          /\ Total(cpu') + window'.shrunk = Total(first') + window'.total
          /\ IdleTotal(cpu') + window'.busy + window'.shrunk =
               IdleTotal(first') + window'.total
    <3>1. SUFFICES ASSUME reader = "cpuSleep"
          PROVE  /\ Total(cpu') + (l + 1) = Total(first) + t
                 /\ IdleTotal(cpu') + b + (l + 1) = IdleTotal(first) + t
      BY <1>2, <2>3
    <3>2. Total(cpu) + l = Total(first) + t /\ IdleTotal(cpu) + b + l = IdleTotal(first) + t
      BY <1>3, <3>1 DEF WindowInv
    <3>3. PICK x \in Int, y \in Int : x = Total(cpu') /\ y = IdleTotal(cpu')
      <4>1. cpu' \in Counters
        BY KernelType
      <4> QED
        BY <4>1, CounterTotals
    <3> QED
      BY <1>4, <2>4, <3>1, <3>2, <3>3
  <2>7. reader' = "netSleep" /\ window'.steady =>
          links' # <<>> /\ links'[1].rx = first'.rx + window'.rx
    BY <1>2, <1>3, <2>2, <2>3 DEF WindowInv
  <2> QED
    BY <2>5, <2>6, <2>7 DEF WindowInv
<1>9. ASSUME NEW i \in DOMAIN links, Packet(i) PROVE WindowInv'
  <2>1. PICK w, d : w = [window EXCEPT !.rx = d] /\ d = window.rx + (IF i = 1 THEN 1 ELSE 0)
    OBVIOUS
  <2>2. window' = w /\ UNCHANGED <<time, cpu>>
    BY <1>2, <1>9, <2>1 DEF Packet
  <2>3. /\ window'.busy = b /\ window'.total = t /\ window'.rx = d
        /\ window'.steady = window.steady /\ window'.shrunk = l
    BY <1>1, <1>3, <2>1, <2>2 DEF Window
  <2>4. 1 \in DOMAIN links /\ links[1] \in Links
    BY <1>1, <1>9, LenProperties, LinkFacts
  <2>5. links' # <<>> /\ links'[1].rx = links[1].rx + (IF i = 1 THEN 1 ELSE 0)
    <3>1. links' = [links EXCEPT ![i].rx = @ + 1]
      BY <1>9 DEF Packet
    <3>2. DOMAIN links' = DOMAIN links
      BY <3>1
    <3>3. links' # <<>>
      BY <2>4, <3>2
    <3>4. CASE i = 1
      BY <2>4, <3>1, <3>3, <3>4 DEF Links
    <3>5. CASE i # 1
      <4>1. links'[1] = links[1] /\ links[1].rx \in Nat
        BY <2>4, <3>1, <3>5 DEF Links
      <4> QED
        BY <3>3, <3>5, <4>1
    <3> QED
      BY <3>4, <3>5
  <2>6. reader' = "netSleep" /\ window'.steady =>
          links' # <<>> /\ links'[1].rx = first'.rx + window'.rx
    <3>1. SUFFICES ASSUME reader' = "netSleep", window'.steady
                   PROVE  links'[1].rx = first'.rx + window'.rx
      BY <2>5
    <3>2. links[1].rx = first.rx + r /\ first.rx \in Nat
      BY <1>2, <1>3, <1>5, <2>3, <3>1 DEF WindowInv
    <3>3. CASE i = 1
      BY <1>2, <1>3, <2>1, <2>3, <2>5, <3>2, <3>3
    <3>4. CASE i # 1
      BY <1>2, <1>3, <2>1, <2>3, <2>5, <3>2, <3>4
    <3> QED
      BY <3>3, <3>4
  <2>7. window'.busy <= window'.total
    BY <1>2, <1>3, <2>2, <2>3 DEF WindowInv
  <2>8. reader' = "cpuSleep" =>
          /\ Total(cpu') + window'.shrunk = Total(first') + window'.total
          /\ IdleTotal(cpu') + window'.busy + window'.shrunk =
               IdleTotal(first') + window'.total
    BY <1>2, <1>3, <2>2, <2>3 DEF WindowInv
  <2> QED
    BY <2>6, <2>7, <2>8 DEF WindowInv
<1>10. CASE LinksChange
  <2>1. PICK s \in BOOLEAN :
          s <=> window.steady /\ links # <<>> /\ links' # <<>> /\ links[1].name = links'[1].name
    OBVIOUS
  <2>2. PICK w : w = [window EXCEPT !.steady = s]
    OBVIOUS
  <2>3. window' = w
    <3>1. window' = InWindow([window EXCEPT !.steady = s])
      BY <1>10, <2>1 DEF LinksChange
    <3> QED
      BY <1>2, <2>2, <3>1
  <2>4. /\ window'.busy = b /\ window'.total = t /\ window'.rx = r /\ window'.steady = s
        /\ window'.shrunk = l /\ UNCHANGED <<time, cpu>>
    BY <1>1, <1>3, <1>10, <2>2, <2>3 DEF Window, LinksChange
  <2>5. s => window.steady /\ links' # <<>> /\ links'[1] = links[1]
    BY <1>1, <1>10, <2>1, FirstStays
  <2>6. window'.busy <= window'.total
    BY <1>2, <1>3, <2>4 DEF WindowInv
  <2>7. reader' = "cpuSleep" =>
          /\ Total(cpu') + window'.shrunk = Total(first') + window'.total
          /\ IdleTotal(cpu') + window'.busy + window'.shrunk =
               IdleTotal(first') + window'.total
    BY <1>2, <1>3, <2>4, <2>5 DEF WindowInv
  <2>8. reader' = "netSleep" /\ window'.steady =>
          links' # <<>> /\ links'[1].rx = first'.rx + window'.rx
    BY <1>2, <1>3, <2>4, <2>5 DEF WindowInv
  <2> QED
    BY <2>6, <2>7, <2>8 DEF WindowInv
<1>11. CASE UNCHANGED <<time, cpu, links, window>>
  BY <1>2, <1>11 DEF WindowInv
<1>12. ASSUME NEW p \in Pids, ProcessExits(p) \/ ProcessStarts(p) PROVE WindowInv'
  BY <1>11, <1>12 DEF ProcessExits, ProcessStarts
<1> QED
  BY <1>6, <1>7, <1>8, <1>9, <1>10, <1>12 DEF Kernel

\* A window begins with the first reading, and counts until the second.
LEMMA WindowStep ==
  ASSUME RatesTypeOK, ReadersInv, WindowInv, LinksInv, [RatesNext]_ratesVars
  PROVE  WindowInv'
<1>1. RatesTypeOK' /\ ReadersInv'
  BY TypeStep, ReadersStep
<1>2. CASE first' = None
  <2>1. window'.busy = 0 /\ window'.total = 0
    BY <1>1, <1>2 DEF ReadersInv, Fresh
  <2>2. reader' # "cpuSleep" /\ reader' # "netSleep"
    BY <1>1, <1>2, NoneAssumption DEF ReadersInv
  <2> QED
    BY <1>2, <2>1, <2>2 DEF WindowInv
<1>3. CASE Kernel /\ first' # None
  BY <1>3, KernelKeepsWindow DEF Kernel, readerVars
<1>4. CASE UNCHANGED ratesVars
  BY <1>4 DEF ratesVars, kernelVars, readerVars, WindowInv
<1>5. CASE ReadCPU
  <2>1. first = None /\ window = Fresh
    BY <1>5 DEF ReadCPU, ReadersInv
  <2>2. /\ window'.busy = 0 /\ window'.total = 0 /\ window'.rx = 0 /\ window'.shrunk = 0
        /\ first' = cpu /\ sleptAt' = time /\ reader' = "cpuSleep" /\ UNCHANGED <<time, cpu, links>>
    BY <1>5, <2>1 DEF ReadCPU, Fresh, kernelVars
  <2>3. Total(cpu) \in Nat /\ IdleTotal(cpu) \in Nat /\ time \in Nat
    BY CounterTotals DEF RatesTypeOK
  <2>4. Total(first') = Total(cpu) /\ IdleTotal(first') = IdleTotal(cpu)
    BY <2>2
  <2>5. /\ Total(cpu') + window'.shrunk = Total(first') + window'.total
        /\ IdleTotal(cpu') + window'.busy + window'.shrunk = IdleTotal(first') + window'.total
    BY <2>2, <2>3
  <2> QED
    BY <2>2, <2>3, <2>5 DEF WindowInv
<1>6. CASE ReadNet /\ first' # None
  <2>1. first = None /\ window = Fresh
    BY <1>6 DEF ReadNet, ReadersInv
  <2>2. /\ PrimaryLink # None /\ links # <<>> /\ PrimaryLink = links[1]
        /\ 1 \in DOMAIN links /\ links[1].rx \in Nat
    BY <1>6, LinkFacts, LenProperties, EmptySeq DEF ReadNet, RatesTypeOK
  <2>3. /\ window'.busy = 0 /\ window'.total = 0 /\ window'.rx = 0 /\ first' = links[1]
        /\ sleptAt' = time /\ reader' = "netSleep" /\ UNCHANGED <<time, links>>
    BY <1>6, <2>1, <2>2 DEF ReadNet, Fresh, kernelVars
  <2>4. time \in Nat
    BY DEF RatesTypeOK
  <2> QED
    BY <2>2, <2>3, <2>4 DEF WindowInv
<1>7. CASE /\ UNCHANGED <<time, cpu, links, reader, sleptAt, first, window>>
  BY <1>7 DEF WindowInv
<1>8. ASSUME NEW p \in Pids, ReadProcess(p) PROVE WindowInv'
  BY <1>7, <1>8 DEF ReadProcess, kernelVars
<1>9. ASSUME Poll \/ ListProcesses \/ ListFails \/ EndScan, first' # None PROVE FALSE
  BY <1>9 DEF Poll, ListProcesses, ListFails, EndScan, ReadersInv
<1>10. ASSUME ReadCPUAgain \/ CPUFails \/ ReadNetAgain \/ NetFails, first' # None PROVE FALSE
  BY <1>10 DEF ReadCPUAgain, CPUFails, ReadNetAgain, NetFails, Leave
<1> QED
  BY <1>2, <1>3, <1>4, <1>5, <1>6, <1>8, <1>9, <1>10 DEF RatesNext, Readers

-----------------------------------------------------------------------------
(* The readers: the processes and their baselines                          *)

\* Whatever happens to a process since it was read, its baseline stays, and a
\* pid that is given away again is noticed by the birth of its new owner.
LEMMA KernelKeepsSeen ==
  ASSUME RatesTypeOK, ScanInv, Kernel, NEW p \in Pids
  PROVE  SeenInv(p)'
<1>1. /\ events \in Nat /\ events' = events + 1
      /\ procs \in [Pids -> Process \cup {None}]
      /\ seen \in [Pids -> [born : Nat \cup {None}, ticks : Nat]]
      /\ UNCHANGED readerVars
  BY KernelType DEF RatesTypeOK
<1>2. Baseline(p)' = Baseline(p)
  BY <1>1 DEF readerVars, scanVars, Baseline
<1>3. SeenInv(p)
  BY DEF ScanInv
<1>4. /\ seen[p].born \in Nat \cup {None} /\ seen[p].ticks \in Nat
      /\ None \notin Nat
      /\ procs[p] # None => procs[p].born \in Nat /\ procs[p].ticks \in Nat
  BY <1>1, NoneAssumption DEF Process
<1>5. Baseline(p) \in Nat \cup {None}
  <2>1. current[p] \in Nat \cup {None}
    BY DEF RatesTypeOK, Ticks
  <2>2. previous # None => previous[p] \in Nat \cup {None}
    BY DEF RatesTypeOK, Ticks
  <2> QED
    BY <2>1, <2>2 DEF Baseline
<1>6. CASE procs'[p] = procs[p] /\ seen'[p] = seen[p]
  BY <1>1, <1>2, <1>3, <1>4, <1>6 DEF SeenInv
<1>7. ASSUME NEW q \in Pids, Run(q) PROVE SeenInv(p)'
  <2>1. CASE q # p
    BY <1>1, <1>6, <1>7, <2>1 DEF Run
  <2>2. CASE q = p
    <3>1. procs[p] # None
      BY <1>7, <2>2 DEF Run
    <3>2. PICK b, t, n : b = procs[p].born /\ t = procs[p].ticks /\ n = seen[p].ticks
      OBVIOUS
    <3>3. procs[p] = [born |-> b, ticks |-> t]
      BY <1>1, <3>1, <3>2 DEF Process
    <3>4. procs'[p] = [born |-> b, ticks |-> t + 1]
      BY <1>1, <1>7, <2>2, <3>2, <3>3 DEF Run
    <3>5. /\ seen'[p].born = seen[p].born
          /\ seen'[p].ticks = IF seen[p].born = b THEN n + 1 ELSE n
      BY <1>1, <1>7, <2>2, <3>2 DEF Run
    <3>6. b \in Nat /\ t \in Nat /\ n \in Nat
      BY <1>4, <3>1, <3>2
    <3>7. procs'[p].born = b /\ procs'[p].ticks = t + 1
      BY <3>4
    <3>8. seen[p].born = b => Baseline(p) \in Nat /\ t = Baseline(p) + n
      BY <1>3, <1>4, <1>5, <3>1, <3>2, <3>6 DEF SeenInv
    <3>9. seen[p].born = b => t + 1 = Baseline(p) + (n + 1)
      BY <3>6, <3>8
    <3>10. b <= events' /\ (seen[p].born # None => seen[p].born <= events')
      BY <1>1, <1>3, <1>4, <3>1, <3>2, <3>6 DEF SeenInv
    <3>11. seen[p].born = None <=> Baseline(p) = None
      BY <1>3 DEF SeenInv
    <3> QED
      BY <1>2, <3>5, <3>7, <3>9, <3>10, <3>11 DEF SeenInv
  <2> QED
    BY <2>1, <2>2
<1>8. ASSUME NEW q \in Pids, ProcessExits(q) PROVE SeenInv(p)'
  <2>1. CASE q # p
    BY <1>1, <1>6, <1>8, <2>1 DEF ProcessExits
  <2>2. CASE q = p
    <3>1. procs'[p] = None /\ seen' = seen
      BY <1>1, <1>8, <2>2 DEF ProcessExits
    <3> QED
      BY <1>1, <1>2, <1>3, <1>4, <3>1 DEF SeenInv
  <2> QED
    BY <2>1, <2>2
<1>9. ASSUME NEW q \in Pids, ProcessStarts(q) PROVE SeenInv(p)'
  <2>1. CASE q # p
    BY <1>1, <1>6, <1>9, <2>1 DEF ProcessStarts
  <2>2. CASE q = p
    <3>1. procs'[p] = [born |-> events + 1, ticks |-> 0] /\ seen' = seen
      BY <1>1, <1>9, <2>2 DEF ProcessStarts
    <3>2. procs'[p].born = events + 1
      BY <3>1
    <3>3. seen'[p].born # events + 1
      BY <1>1, <1>3, <1>4, <3>1 DEF SeenInv
    <3> QED
      BY <1>1, <1>2, <1>3, <1>4, <3>1, <3>2, <3>3 DEF SeenInv
  <2> QED
    BY <2>1, <2>2
<1>10. CASE UNCHANGED <<procs, seen>>
  BY <1>6, <1>10
<1> QED
  BY <1>7, <1>8, <1>9, <1>10 DEF Kernel, Rest, IowaitShrinks, Packet, LinksChange

\* The scans keep the baselines.
LEMMA ScanStep ==
  ASSUME RatesTypeOK, ScanInv, [RatesNext]_ratesVars
  PROVE  ScanInv'
<1>1. /\ events \in Nat /\ procs \in [Pids -> Process \cup {None}]
      /\ seen \in [Pids -> [born : Nat \cup {None}, ticks : Nat]]
      /\ current \in Ticks /\ previous \in Ticks \cup {None} /\ todo \subseteq Pids
  BY DEF RatesTypeOK
<1>2. None \notin Nat /\ None \notin Ticks /\ Unseen.born = None
  BY NoneAssumption DEF Unseen
<1>3. CASE Kernel
  <2>1. UNCHANGED <<reader, previous, previousAt, current, currentAt, todo>>
    BY <1>3, KernelType DEF readerVars, scanVars
  <2> QED
    BY <1>3, <2>1, KernelKeepsSeen DEF ScanInv
<1>4. CASE UNCHANGED <<procs, seen, events, reader, scanVars>>
  BY <1>4 DEF ScanInv, SeenInv, Baseline, scanVars
<1>5. CASE reader # "scan" /\ reader' # "scan" /\ UNCHANGED <<procs, seen, events, scanVars>>
  BY <1>5 DEF ScanInv, SeenInv, Baseline, scanVars
<1>6. CASE ListProcesses
  <2>1. /\ reader = "list" /\ reader' = "scan" /\ (previous = None \/ time > previousAt)
        /\ todo' = {p \in Pids : procs[p] # None} /\ current' = Nothing /\ currentAt' = time
        /\ \A p \in Pids : seen'[p] = IF p \in todo' THEN seen[p] ELSE Unseen
        /\ UNCHANGED <<procs, events, previous, previousAt>>
    BY <1>6 DEF ListProcesses, kernelVars
  <2>2. \A p \in Pids : current'[p] = None
    BY <2>1 DEF Nothing
  <2>3. ASSUME NEW p \in Pids PROVE SeenInv(p)'
    <3>1. SeenInv(p)
      BY DEF ScanInv
    <3>2. CASE p \in todo'
      <4>1. Baseline(p)' = Baseline(p)
        BY <2>1, <3>2 DEF Baseline
      <4>2. seen'[p] = seen[p]
        BY <2>1, <3>2
      <4> QED
        BY <2>1, <3>1, <4>1, <4>2 DEF SeenInv
    <3>3. CASE p \notin todo'
      <4>1. Baseline(p)' = None
        BY <2>1, <2>2, <3>3 DEF Baseline
      <4>2. procs'[p] = None /\ seen'[p].born = None
        BY <1>2, <2>1, <3>3
      <4> QED
        BY <4>1, <4>2 DEF SeenInv
    <3> QED
      BY <3>2, <3>3
  <2> QED
    BY <2>1, <2>2, <2>3 DEF ScanInv
<1>7. ASSUME NEW q \in Pids, ReadProcess(q) PROVE ScanInv'
  <2>1. /\ reader = "scan" /\ q \in todo /\ todo' = todo \ {q}
        /\ UNCHANGED <<procs, events, reader, previous, previousAt, currentAt>>
    BY <1>7 DEF ReadProcess, kernelVars
  <2>2. \A p \in Pids \ {q} : current'[p] = current[p] /\ seen'[p] = seen[p]
    BY <1>1, <1>7 DEF ReadProcess, Ticks
  <2>3. ASSUME NEW p \in Pids PROVE SeenInv(p)'
    <3>1. SeenInv(p)
      BY DEF ScanInv
    <3>2. CASE p # q
      <4>1. Baseline(p)' = Baseline(p)
        BY <2>1, <2>2, <3>2 DEF Baseline
      <4> QED
        BY <2>1, <2>2, <3>1, <3>2, <4>1 DEF SeenInv
    <3>3. CASE p = q /\ procs[q] = None
      <4>1. current'[p] = None /\ seen'[p].born = None
        BY <1>1, <1>2, <1>7, <2>1, <3>3 DEF ReadProcess, ScanInv
      <4>2. Baseline(p)' = None
        BY <2>1, <3>3, <4>1 DEF Baseline
      <4> QED
        BY <2>1, <3>3, <4>1, <4>2 DEF SeenInv
    <3>4. CASE p = q /\ procs[q] # None
      <4>1. PICK b \in Nat, t \in Nat : b = procs[q].born /\ t = procs[q].ticks
        BY <1>1, <3>4 DEF Process
      <4>2. current'[p] = t /\ seen'[p] = [born |-> b, ticks |-> 0]
        BY <1>1, <1>7, <3>4, <4>1 DEF ReadProcess, Ticks
      <4>3. Baseline(p)' = t
        BY <2>1, <3>4, <4>2 DEF Baseline
      <4>4. seen'[p].born = b /\ seen'[p].ticks = 0 /\ t + 0 = t
        BY <4>1, <4>2
      <4>5. b <= events /\ procs'[p].ticks = t /\ procs'[p].born = b /\ events' = events
        BY <2>1, <3>1, <3>4, <4>1 DEF SeenInv
      <4> QED
        BY <1>2, <4>1, <4>3, <4>4, <4>5 DEF SeenInv
    <3> QED
      BY <3>2, <3>3, <3>4
  <2>4. \A p \in todo' : current'[p] = None
    BY <1>1, <2>1, <2>2 DEF ScanInv
  <2> QED
    BY <2>1, <2>3, <2>4 DEF ScanInv
<1>8. CASE EndScan
  <2>1. /\ reader = "scan" /\ reader' # "scan" /\ todo = {} /\ todo' = {} /\ previous' = current
        /\ UNCHANGED <<procs, events, seen>>
    BY <1>8 DEF EndScan, kernelVars
  <2>2. ASSUME NEW p \in Pids PROVE SeenInv(p)'
    <3>1. Baseline(p)' = Baseline(p)
      BY <1>1, <1>2, <2>1 DEF Baseline
    <3> QED
      BY <2>1, <3>1 DEF ScanInv, SeenInv
  <2> QED
    BY <2>1, <2>2 DEF ScanInv
<1>9. CASE UNCHANGED ratesVars
  BY <1>4, <1>9 DEF ratesVars, kernelVars, readerVars
<1>10. ASSUME Poll \/ ReadCPU \/ ReadCPUAgain \/ CPUFails
       PROVE  reader # "scan" /\ reader' # "scan" /\ UNCHANGED <<procs, seen, events, scanVars>>
  BY <1>10 DEF kernelVars, Poll, ReadCPU, ReadCPUAgain, CPUFails
<1>11. ASSUME ReadNet \/ ReadNetAgain \/ NetFails \/ ListFails
       PROVE  reader # "scan" /\ reader' # "scan" /\ UNCHANGED <<procs, seen, events, scanVars>>
  BY <1>11 DEF kernelVars, ReadNet, ReadNetAgain, NetFails, ListFails
<1> QED
  BY <1>3, <1>5, <1>6, <1>7, <1>8, <1>9, <1>10, <1>11 DEF RatesNext, Readers

-----------------------------------------------------------------------------
(* The readers: the theorems                                               *)

\* Nothing has been read yet.
LEMMA RatesInitInv == RatesInit => RatesInv
<1> SUFFICES ASSUME RatesInit PROVE RatesInv
  OBVIOUS
<1>1. links \in Seq(Links) /\ LinksInv
  <2>1. CASE links = <<>>
    BY <2>1 DEF LinksInv
  <2>2. CASE \E i \in Interfaces : links = <<[name |-> i, rx |-> 1]>>
    <3>1. PICK i \in Interfaces : links = <<[name |-> i, rx |-> 1]>>
      BY <2>2
    <3>2. PICK e \in Links : e = [name |-> i, rx |-> 1]
      BY DEF Links
    <3>3. links = <<e>>
      BY <3>1, <3>2
    <3>4. links \in Seq(Links) /\ DOMAIN links = {1}
      BY <3>3
    <3> QED
      BY <3>4 DEF LinksInv
  <2> QED
    BY <2>1, <2>2 DEF RatesInit
<1>2. Nothing \in Ticks /\ \A p \in Pids : Nothing[p] = None
  BY DEF Nothing, Ticks
<1>3. cpu \in Counters /\ window \in Window
  BY DEF RatesInit, Counters, Window, Fresh
<1>4. procs \in [Pids -> Process \cup {None}]
  BY DEF RatesInit, Process
<1>5. seen \in [Pids -> [born : Nat \cup {None}, ticks : Nat]]
  BY DEF RatesInit, Unseen
<1>6. result \in [cpu : 0..100, rx : Nat, top : Ticks]
  BY <1>2 DEF RatesInit
<1>7. RatesTypeOK
  BY <1>1, <1>2, <1>3, <1>4, <1>5, <1>6 DEF RatesInit, RatesTypeOK
<1>8. ReadersInv /\ WindowInv
  BY DEF RatesInit, ReadersInv, WindowInv, Fresh
<1>9. ScanInv
  <2>1. ASSUME NEW p \in Pids PROVE SeenInv(p)
    <3>1. Baseline(p) = None /\ seen[p].born = None
      BY DEF RatesInit, Baseline, Unseen
    <3>2. procs[p].born = 0 /\ events = 0
      BY DEF RatesInit
    <3> QED
      BY <3>1, <3>2, NoneAssumption DEF SeenInv
  <2> QED
    BY <2>1 DEF RatesInit, ScanInv
<1> QED
  BY <1>1, <1>7, <1>8, <1>9 DEF RatesInv

\* The invariants of the readers hold always.
LEMMA RatesInvariants == RatesSpec => []RatesInv
<1>1. RatesInv /\ [RatesNext]_ratesVars => RatesInv'
  BY TypeStep, ReadersStep, WindowStep, LinksStep, ScanStep DEF RatesInv
<1> QED
  BY <1>1, RatesInitInv, PTL DEF RatesSpec

\* Every percentage is one, no rate is negative and the clocks never run ahead.
THEOREM RatesTypeCorrect == RatesSpec => []RatesTypeOK
<1>1. RatesInv => RatesTypeOK
  BY DEF RatesInv
<1> QED
  BY <1>1, RatesInvariants, PTL

\* The CPU usage reported is the share of busy ticks among those that passed
\* between the two readings, less those by which the kernel's iowait shrank, and
\* nothing when fewer than the busy ones are left (cpuPercent).
THEOREM UsageIsTheBusyShare == RatesSpec => CPUIsTheBusyShare
<1> DEFINE left == window.total - window.shrunk
<1>1. ASSUME RatesInv, ReadCPUAgain
      PROVE  IF left > 0 /\ window.busy <= left
             THEN result'.cpu = (window.busy * 100) \div left
             ELSE result'.cpu = 0
  <2>1. /\ cpu \in Counters /\ window \in Window
        /\ result \in [cpu : 0..100, rx : Nat, top : Ticks]
    BY <1>1 DEF RatesInv, RatesTypeOK
  <2>2. first \in Counters /\ reader = "cpuSleep"
    BY <1>1, NoneAssumption DEF RatesInv, ReadersInv, ReadCPUAgain
  <2>3. PICK b \in Nat, t \in Nat, l \in Nat :
          b = window.busy /\ t = window.total /\ l = window.shrunk
    BY <2>1 DEF Window
  <2>4. /\ Total(cpu) \in Nat /\ IdleTotal(cpu) \in Nat
        /\ Total(first) \in Nat /\ IdleTotal(first) \in Nat
    BY <2>1, <2>2, CounterTotals
  <2>5. /\ b <= t /\ Total(cpu) + l = Total(first) + t
        /\ IdleTotal(cpu) + b + l = IdleTotal(first) + t
    BY <1>1, <2>2, <2>3 DEF RatesInv, WindowInv
  <2>6. PICK total, idle : /\ total = Total(cpu) - Total(first)
                           /\ idle = IdleTotal(cpu) - IdleTotal(first)
    OBVIOUS
  <2>7. total = t - l /\ idle = t - l - b /\ total - idle = b
    BY <2>3, <2>4, <2>5, <2>6
  <2>8. Plausible(total, idle) <=> t - l > 0 /\ b <= t - l
    BY <2>3, <2>7 DEF Plausible
  <2>9. CPUPercent(first, cpu) =
          IF Plausible(total, idle) THEN ((total - idle) * 100) \div total ELSE 0
    BY <2>6, Zenon DEF CPUPercent
  <2>10. PICK n : n = CPUPercent(first, cpu)
    OBVIOUS
  <2>11. result'.cpu = n
    BY <1>1, <2>1, <2>10 DEF ReadCPUAgain
  <2>12. left = t - l
    BY <2>3
  <2> QED
    BY <2>3, <2>7, <2>8, <2>9, <2>10, <2>11, <2>12
<1>2. RatesInv /\ [RatesNext]_ratesVars =>
        [ReadCPUAgain =>
           IF left > 0 /\ window.busy <= left
           THEN result'.cpu = (window.busy * 100) \div left
           ELSE result'.cpu = 0]_ratesVars
  BY <1>1
<1> QED
  BY <1>2, RatesInvariants, PTL DEF RatesSpec, CPUIsTheBusyShare

\* As long as the same interface is first, the bytes reported are those it has
\* received since the first reading.
THEOREM RateIsOfTheFirstLink == RatesSpec => NetIsOfTheFirstLink
<1>1. ASSUME RatesInv, ReadNetAgain, window.steady
      PROVE  result'.rx = window.rx
  <2>1. /\ links \in Seq(Links) /\ window \in Window
        /\ result \in [cpu : 0..100, rx : Nat, top : Ticks]
    BY <1>1 DEF RatesInv, RatesTypeOK
  <2>2. first \in Links /\ links # <<>> /\ links[1].rx = first.rx + window.rx
    BY <1>1 DEF RatesInv, ReadersInv, WindowInv, ReadNetAgain
  <2>3. PICK r \in Nat, x \in Nat : r = window.rx /\ x = first.rx
    BY <2>1, <2>2 DEF Window, Links
  <2>4. PrimaryLink = links[1]
    BY <2>1, <2>2, LinkFacts
  <2>5. PICK y : y = PrimaryLink.rx /\ y = x + r
    BY <2>2, <2>3, <2>4
  <2>6. NonNegativeDelta(y, x) = r
    BY <2>3, <2>5 DEF NonNegativeDelta
  <2>7. result' = [result EXCEPT !.rx = NonNegativeDelta(y, x)]
    BY <1>1, <2>3, <2>5 DEF ReadNetAgain
  <2> QED
    BY <2>1, <2>3, <2>6, <2>7
<1>2. RatesInv /\ [RatesNext]_ratesVars =>
        [ReadNetAgain /\ window.steady => result'.rx = window.rx]_ratesVars
  BY <1>1
<1> QED
  BY <1>2, RatesInvariants, PTL DEF RatesSpec, NetIsOfTheFirstLink

\* A scan reports of each process exactly the ticks since the scan before read
\* it, none of a process that scan did not meet, and never more than it used.
THEOREM NoTickIsReportedTwice == RatesSpec => TicksReportedOnce
<1> DEFINE Told(p) == LET told == result'.top[p]
                      IN /\ seen[p].born = procs[p].born => told = seen[p].ticks
                         /\ seen[p].born = None => told = 0
                         /\ told <= procs[p].ticks
<1>1. ASSUME RatesInv, NEW p \in Pids, ReadProcess(p), procs[p] # None PROVE Told(p)
  <2>1. /\ procs \in [Pids -> Process \cup {None}] /\ previous \in Ticks \cup {None}
        /\ seen \in [Pids -> [born : Nat \cup {None}, ticks : Nat]]
        /\ result \in [cpu : 0..100, rx : Nat, top : Ticks]
    BY <1>1 DEF RatesInv, RatesTypeOK
  <2>2. /\ reader = "scan" /\ p \in todo /\ SeenInv(p)
        /\ previous # None => currentAt > previousAt
    BY <1>1 DEF RatesInv, ScanInv, ReadProcess
  <2>3. Baseline(p) = IF previous = None THEN None ELSE previous[p]
    BY <2>2 DEF Baseline
  <2>4. PICK t \in Nat, n \in Nat : t = procs[p].ticks /\ n = seen[p].ticks
    BY <1>1, <2>1 DEF Process
  <2>5. procs[p].born \in Nat /\ None \notin Nat
    BY <1>1, <2>1, NoneAssumption DEF Process
  <2>6. PICK k : k = TicksSince(p)
    OBVIOUS
  <2>7. result'.top[p] = k
    <3>1. result' = [result EXCEPT !.top = [result.top EXCEPT ![p] = k]]
      BY <1>1, <2>6 DEF ReadProcess
    <3> QED
      BY <2>1, <3>1 DEF Ticks
  <2>8. CASE Baseline(p) = None
    <3>1. k = 0
      BY <2>3, <2>6, <2>8 DEF TicksSince, HaveBaseline
    <3>2. seen[p].born = None
      BY <2>2, <2>8 DEF SeenInv
    <3> QED
      BY <2>4, <2>5, <2>7, <3>1, <3>2
  <2>9. CASE Baseline(p) # None
    <3>1. HaveBaseline /\ previous[p] # None /\ previous \in Ticks
      BY <2>1, <2>2, <2>3, <2>9 DEF HaveBaseline
    <3>2. PICK x \in Nat : x = previous[p] /\ Baseline(p) = x
      BY <2>3, <2>9, <3>1 DEF Ticks
    <3>3. k = IF t < x THEN 0 ELSE t - x
      BY <2>4, <2>6, <3>1, <3>2 DEF TicksSince, TicksBetween
    <3>4. seen[p].born # None
      BY <2>2, <2>9 DEF SeenInv
    <3>5. seen[p].born = procs[p].born => t = x + n
      BY <1>1, <2>2, <2>4, <3>2 DEF SeenInv
    <3>6. (seen[p].born = procs[p].born => k = n) /\ k <= t
      BY <2>4, <3>2, <3>3, <3>5
    <3> QED
      BY <2>4, <2>7, <3>4, <3>6
  <2> QED
    BY <2>8, <2>9
<1> HIDE DEF Told
<1>2. ASSUME RatesInv, [RatesNext]_ratesVars, NEW p \in todo \ todo', procs[p] # None
      PROVE  Told(p)
  <2>1. p \in Pids
    BY <1>2 DEF RatesInv, RatesTypeOK
  <2>2. ASSUME NEW q \in Pids, ReadProcess(q) PROVE q = p
    BY <1>2, <2>2 DEF ReadProcess
  <2>3. ASSUME reader # "scan" PROVE FALSE
    BY <1>2, <2>3 DEF RatesInv, ScanInv
  <2>4. ASSUME UNCHANGED todo PROVE FALSE
    BY <1>2, <2>4
  <2>5. \E q \in Pids : ReadProcess(q)
    BY <1>2, <2>3, <2>4 DEF RatesNext, ratesVars, Kernel, readerVars, scanVars, Readers, Poll,
       ReadCPU, ReadCPUAgain, CPUFails, ReadNet, ReadNetAgain, NetFails, ListProcesses,
       ListFails, EndScan
  <2> QED
    BY <1>1, <1>2, <2>1, <2>2, <2>5
<1>3. RatesInv /\ [RatesNext]_ratesVars =>
        [\A p \in todo \ todo' : procs[p] # None => Told(p)]_ratesVars
  BY <1>2
<1> QED
  BY <1>3, RatesInvariants, PTL DEF RatesSpec, TicksReportedOnce, Told
=============================================================================
