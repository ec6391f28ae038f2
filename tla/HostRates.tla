----------------------------- MODULE HostRates -----------------------------
(***************************************************************************)
(* The readers of internal/collector that turn the kernel's counters into  *)
(* rates: CPUReader and NetReader read twice within one call and sleep in  *)
(* between, TopProcessesReader keeps the counters of the previous poll.    *)
(*                                                                         *)
(* The collector goroutine runs them one after the other for each sample.  *)
(* The kernel goes on meanwhile: ticks pass, iowait may shrink (the kernel *)
(* documents that it does), interfaces come and go with fresh counters,    *)
(* processes exit and their pids are given to new ones. A host with one    *)
(* core is enough; a tick is also the unit of time. The texts under /proc  *)
(* are what they say: counters, the interfaces that are not loopback in    *)
(* their order, the processes.                                             *)
(***************************************************************************)
EXTENDS Integers, SequencesExt

CONSTANTS
  Interfaces,   \* network interfaces other than loopback
  Pids,
  None,         \* no process, nothing read, no baseline
  TopN,         \* processes in a sample (5)
  SampleInterval, \* nominal sleep between two reads, in ticks
  MaxEvents,    \* bound on what the kernel does
  MaxPolls      \* bound on samples gathered

VARIABLES
  time,         \* the monotonic clock
  cpu,          \* /proc/stat: [busy, idle, iowait]
  links,        \* /proc/net/dev: sequence of [name, rx]
  procs,        \* /proc/<pid>/stat: [born, ticks], or None
  reader,       \* which reader gather is in
  sleptAt,      \* when that reader went to sleep
  first,        \* the first of its two readings, None outside of the window
  previous, previousAt,       \* TopProcessesReader.previous, readAt
  current, currentAt, todo,   \* the scan of /proc under way
  result,       \* the sample: [cpu, rx, top]
  \* history variables
  window,       \* what happened since the first of the two readings: ticks, by how
                \* many iowait shrank, bytes, whether the first interface stayed
  seen,         \* what happened to each pid since it was last scanned
  events, polls

kernelVars == <<time, cpu, links, procs, events>>
scanVars   == <<previous, previousAt, current, currentAt, todo>>
readerVars == <<reader, sleptAt, first, scanVars, result, polls>>
ratesVars  == <<kernelVars, readerVars, window, seen>>

Counters  == [busy : Nat, idle : Nat, iowait : Nat]
Links     == [name : Interfaces, rx : Nat]
Window    == [busy : Nat, total : Nat, shrunk : Nat, rx : Nat, steady : BOOLEAN]
Fresh     == [busy |-> 0, total |-> 0, shrunk |-> 0, rx |-> 0, steady |-> TRUE]
Process   == [born : Nat, ticks : Nat]
Ticks     == [Pids -> Nat \cup {None}]
Nothing   == [p \in Pids |-> None]
Unseen    == [born |-> None, ticks |-> 0]

ASSUME NoneAssumption == None \notin Int \cup Counters \cup Links \cup Process \cup Ticks

RatesTypeOK ==
  /\ time \in Nat /\ events \in Nat /\ polls \in Nat
  /\ cpu \in Counters
  /\ links \in Seq(Links)
  /\ procs \in [Pids -> Process \cup {None}]
  /\ reader \in {"idle", "cpu", "cpuSleep", "net", "netSleep", "list", "scan"}
  /\ sleptAt \in 0..time
  /\ first \in Counters \cup Links \cup {None}
  /\ previous \in Ticks \cup {None} /\ previousAt \in 0..time
  /\ current \in Ticks /\ currentAt \in 0..time /\ todo \subseteq Pids
  /\ result \in [cpu : 0..100, rx : Nat, top : Ticks]
  /\ window \in Window
  /\ seen \in [Pids -> [born : Nat \cup {None}, ticks : Nat]]

RatesInit ==
  /\ time = 0 /\ events = 0 /\ polls = 0
  /\ cpu = [busy |-> 1, idle |-> 1, iowait |-> 1]
  /\ links \in {<<>>} \cup {<<[name |-> i, rx |-> 1]>> : i \in Interfaces}
  /\ procs = [p \in Pids |-> [born |-> 0, ticks |-> 1]]
  /\ reader = "idle" /\ sleptAt = 0
  /\ first = None
  /\ previous = None /\ previousAt = 0
  /\ current = Nothing /\ currentAt = 0 /\ todo = {}
  /\ result = [cpu |-> 0, rx |-> 0, top |-> Nothing]
  /\ window = Fresh
  /\ seen = [p \in Pids |-> Unseen]

-----------------------------------------------------------------------------
(* The kernel                                                              *)

Event == events < MaxEvents /\ events' = events + 1

InWindow(w) == IF first = None THEN window ELSE w

\* A tick goes by, spent on a process, on nothing, or waiting for a disk.
Run(p) ==
  /\ procs[p] # None
  /\ cpu' = [cpu EXCEPT !.busy = @ + 1]
  /\ procs' = [procs EXCEPT ![p].ticks = @ + 1]
  /\ seen' = [seen EXCEPT ![p].ticks = IF seen[p].born = procs[p].born THEN @ + 1 ELSE @]
  /\ window' = InWindow([window EXCEPT !.busy = @ + 1, !.total = @ + 1])
  /\ time' = time + 1
  /\ UNCHANGED links

Rest ==
  /\ cpu' = [cpu EXCEPT !.idle = @ + 1] \/ cpu' = [cpu EXCEPT !.iowait = @ + 1]
  /\ window' = InWindow([window EXCEPT !.total = @ + 1])
  /\ time' = time + 1
  /\ UNCHANGED <<links, procs, seen>>

IowaitShrinks ==
  /\ cpu.iowait > 0
  /\ cpu' = [cpu EXCEPT !.iowait = @ - 1]
  /\ window' = InWindow([window EXCEPT !.shrunk = @ + 1])
  /\ UNCHANGED <<time, links, procs, seen>>

Packet(i) ==
  /\ links' = [links EXCEPT ![i].rx = @ + 1]
  /\ window' = InWindow([window EXCEPT !.rx = @ + (IF i = 1 THEN 1 ELSE 0)])
  /\ UNCHANGED <<time, cpu, procs, seen>>

\* An interface appears, before the others or behind them, or disappears.
LinksChange ==
  /\ \/ \E n \in Interfaces \ {links[i].name : i \in DOMAIN links} :
          LET link == [name |-> n, rx |-> 0]
          IN links' = <<link>> \o links \/ links' = Append(links, link)
     \/ \E i \in DOMAIN links : links' = RemoveAt(links, i)
  /\ window' = InWindow([window EXCEPT !.steady =
       @ /\ links # <<>> /\ links' # <<>> /\ links[1].name = links'[1].name])
  /\ UNCHANGED <<time, cpu, procs, seen>>

\* A process exits, or a new one gets the pid.
ProcessExits(p) ==
  /\ procs[p] # None
  /\ procs' = [procs EXCEPT ![p] = None]
  /\ UNCHANGED <<time, cpu, links, window, seen>>

ProcessStarts(p) ==
  /\ procs[p] = None
  /\ procs' = [procs EXCEPT ![p] = [born |-> events + 1, ticks |-> 0]]
  /\ UNCHANGED <<time, cpu, links, window, seen>>

Kernel ==
  /\ Event
  /\ \/ \E p \in Pids : Run(p) \/ ProcessExits(p) \/ ProcessStarts(p)
     \/ Rest
     \/ IowaitShrinks
     \/ \E i \in DOMAIN links : Packet(i)
     \/ LinksChange
  /\ UNCHANGED readerVars

-----------------------------------------------------------------------------
(* CPUReader. A failing read leaves the field of the sample at zero and    *)
(* gather goes on with the next reader.                                    *)

\* The reader returns: its variables are gone.
Leave == first' = None /\ sleptAt' = 0 /\ window' = Fresh

Poll ==
  /\ reader = "idle" /\ polls < MaxPolls
  /\ polls' = polls + 1
  /\ reader' = "cpu"
  /\ result' = [cpu |-> 0, rx |-> 0, top |-> Nothing]
  /\ UNCHANGED <<kernelVars, sleptAt, first, scanVars, window, seen>>

ReadCPU ==
  /\ reader = "cpu"
  /\ first' = cpu
  /\ sleptAt' = time
  /\ reader' = "cpuSleep"
  /\ UNCHANGED <<kernelVars, scanVars, result, polls, window, seen>>

Awake == time - sleptAt >= SampleInterval

Total(c) == c.busy + c.idle + c.iowait

\* Mutant: time spent waiting for disks counts as busy.
IdleOnly(c) == c.idle

IdleTotal(c) == c.idle + c.iowait

\* Mutant: only a total that did not grow is refused.
Grown(total, idle) == total > 0

\* The counters have advanced, and idle ticks are among the ticks.
Plausible(total, idle) == total > 0 /\ idle \in 0..total

CPUPercent(prev, curr) ==
  LET total == Total(curr) - Total(prev)
      idle  == IdleTotal(curr) - IdleTotal(prev)
  IN IF Plausible(total, idle) THEN ((total - idle) * 100) \div total ELSE 0

ReadCPUAgain ==
  /\ reader = "cpuSleep" /\ Awake
  /\ result' = [result EXCEPT !.cpu = CPUPercent(first, cpu)]
  /\ reader' = "net"
  /\ Leave
  /\ UNCHANGED <<kernelVars, scanVars, polls, seen>>

CPUFails ==
  /\ reader = "cpu" \/ (reader = "cpuSleep" /\ Awake)
  /\ reader' = "net"
  /\ Leave
  /\ UNCHANGED <<kernelVars, scanVars, result, polls, seen>>

-----------------------------------------------------------------------------
(* NetReader                                                               *)

\* Mutant: the last interface is taken.
LastLink == IF links = <<>> THEN None ELSE links[Len(links)]

\* The first interface that is not loopback, if there is one.
PrimaryLink == IF links = <<>> THEN None ELSE links[1]

ReadNet ==
  /\ reader = "net"
  /\ first' = PrimaryLink
  /\ sleptAt' = IF PrimaryLink = None THEN sleptAt ELSE time
  /\ reader' = IF PrimaryLink = None THEN "list" ELSE "netSleep"
  /\ UNCHANGED <<kernelVars, scanVars, result, polls, window, seen>>

NonNegativeDelta(curr, prev) == IF curr < prev THEN 0 ELSE curr - prev

\* The rate is per nominal interval, kept here as the bytes of one interval.
\* The two readings may be of different interfaces.
ReadNetAgain ==
  /\ reader = "netSleep" /\ Awake
  /\ PrimaryLink # None
  /\ result' = [result EXCEPT !.rx = NonNegativeDelta(PrimaryLink.rx, first.rx)]
  /\ reader' = "list"
  /\ Leave
  /\ UNCHANGED <<kernelVars, scanVars, polls, seen>>

\* Also when no interface is left.
NetFails ==
  /\ reader = "net" \/ (reader = "netSleep" /\ Awake)
  /\ reader' = "list"
  /\ Leave
  /\ UNCHANGED <<kernelVars, scanVars, result, polls, seen>>

-----------------------------------------------------------------------------
(* TopProcessesReader                                                      *)

\* The listing of /proc; the files are read afterwards, one by one. The
\* monotonic clock is finer than a tick: no two listings are at one time.
ListProcesses ==
  /\ reader = "list" /\ (previous = None \/ time > previousAt)
  /\ todo' = {p \in Pids : procs[p] # None}
  /\ current' = Nothing
  /\ currentAt' = time
  /\ seen' = [p \in Pids |-> IF p \in todo' THEN seen[p] ELSE Unseen]
  /\ reader' = "scan"
  /\ UNCHANGED <<kernelVars, sleptAt, first, previous, previousAt, result, polls, window>>

\* The list is missing from the sample, and the baseline stays.
ListFails ==
  /\ reader = "list"
  /\ reader' = "idle"
  /\ UNCHANGED <<kernelVars, sleptAt, first, scanVars, result, polls, window, seen>>

\* Mutant: a counter that went backward is not noticed.
AnyDelta(prev, curr) == (curr - prev) % 2^16

\* cpuPercentBetween before it divides by the elapsed time.
TicksBetween(prev, curr) == IF curr < prev THEN 0 ELSE curr - prev

HaveBaseline == previous # None /\ currentAt > previousAt

TicksSince(p) ==
  IF HaveBaseline /\ previous[p] # None
  THEN TicksBetween(previous[p], procs[p].ticks)
  ELSE 0

\* A process that has exited since the listing is skipped.
ReadProcess(p) ==
  /\ reader = "scan" /\ p \in todo
  /\ todo' = todo \ {p}
  /\ IF procs[p] = None
     THEN /\ seen' = [seen EXCEPT ![p] = Unseen]
          /\ UNCHANGED <<current, result>>
     ELSE /\ current' = [current EXCEPT ![p] = procs[p].ticks]
          /\ result' = [result EXCEPT !.top[p] = TicksSince(p)]
          /\ seen' = [seen EXCEPT ![p] = [born |-> procs[p].born, ticks |-> 0]]
  /\ UNCHANGED <<kernelVars, reader, sleptAt, first, previous, previousAt,
                 currentAt, polls, window>>

\* Of what was read the first TopN are kept, ranked by CPU, and by memory
\* (anything, here) where that does not tell.
Ranked(S, read) ==
  /\ Cardinality(S) = Min({TopN, Cardinality(read)})
  /\ HaveBaseline => \A p \in S, q \in read \ S : result.top[p] >= result.top[q]

EndScan ==
  /\ reader = "scan" /\ todo = {}
  /\ previous' = current /\ previousAt' = currentAt
  /\ LET read == {p \in Pids : current[p] # None}
     IN \E S \in SUBSET read :
          /\ Ranked(S, read)
          /\ result' = [result EXCEPT !.top = [p \in Pids |-> IF p \in S THEN @[p] ELSE None]]
  /\ current' = Nothing /\ currentAt' = 0
  /\ reader' = "idle"
  /\ UNCHANGED <<kernelVars, sleptAt, first, todo, polls, window, seen>>

Readers ==
  \/ Poll
  \/ ReadCPU \/ ReadCPUAgain \/ CPUFails
  \/ ReadNet \/ ReadNetAgain \/ NetFails
  \/ ListProcesses \/ ListFails \/ (\E p \in Pids : ReadProcess(p)) \/ EndScan

RatesNext == Kernel \/ Readers

RatesSpec == RatesInit /\ [][RatesNext]_ratesVars

-----------------------------------------------------------------------------
(* Properties                                                              *)

\* "CPUReader reads aggregate CPU utilization as a percentage (0-100)": what
\* is reported is the share of busy ticks among the ticks that passed between
\* the two readings. Ticks by which iowait shrank meanwhile are missing from
\* the total, and none is taken for a busy one; if fewer ticks are left than
\* were busy, no usage is reported rather than more than all of it.
CPUIsTheBusyShare ==
  [][ReadCPUAgain =>
       LET left == window.total - window.shrunk
       IN IF left > 0 /\ window.busy <= left
          THEN result'.cpu = (window.busy * 100) \div left
          ELSE result'.cpu = 0]_ratesVars

\* "byte-rate delta over that window for the first non-loopback interface": as
\* long as the same interface is first, exactly the bytes it has received
\* since the first reading are reported; interfaces that come or go behind it,
\* and what they receive, change nothing. (When another one takes its place,
\* the difference of two unrelated counters is reported.)
NetIsOfTheFirstLink ==
  [][ReadNetAgain /\ window.steady => result'.rx = window.rx]_ratesVars

\* No tick of a process is reported twice and none is lost: as long as the
\* process is found by each scan, a scan reports exactly the ticks since it
\* was read by the scan before, however long ago that was and however many
\* polls failed between. A process that the last scan did not meet is reported
\* with none, and one that got the pid of another never with more than it has
\* used.
TicksReportedOnce ==
  [][\A p \in todo \ todo' : procs[p] # None =>
       LET told == result'.top[p]
       IN /\ seen[p].born = procs[p].born => told = seen[p].ticks
          /\ seen[p].born = None => told = 0
          /\ told <= procs[p].ticks]_ratesVars
=============================================================================
