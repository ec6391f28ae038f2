# TLA+ models of gateshell-agent

gateshell-agent runs on a server, samples its metrics, stores and streams them,
evaluates alert rules, and pushes alerts and widget updates to a phone through a
push relay. It is a single Go process of many goroutines; its difficulties are
not in any one function but in what those goroutines, the config and registry
files, the relay and process death do to each other. This directory models those
parts, model-checks them with TLC and proves the main results with TLAPS.

- [Inventory](#inventory)
- [Modules](#modules): which models what
- [Runs](#runs): what is checked, bounds, fairness
- [Findings](#findings)
- [Proofs](#proofs)
- [Not modelled](#not-modelled)
- [Plan](#plan)

`tlc -config X.cfg M` runs a configuration, `tlapm MProofs.tla` checks a proof
module. `PROJECT.json` maps every definition to the source lines it stands for
and lists, for every checked property, a mutation of the model (a plausible bug)
that breaks it; the mutated forms sit next to the originals in the modules and
are marked "Mutant".

## Inventory

All paths are under `src/`.

| Component | Source | State | Operations |
|---|---|---|---|
| Collector loop | `internal/collector/collector.go` | `interval` (mutex), wake-up channel `reconfig` (capacity 1), the loop's position | `Run`, `wait`, `tick`, `gather`, `SetInterval`, `AddSink` |
| Alert evaluator | `internal/alerts/alerts.go` | `rules`, `serviceRules`, `ruleStates` by rule name, `serviceStates` by service name (mutex) | `SetRules`, `Handle` |
| Push-token registry | `internal/pushrelay/tokenstore.go` | `registrations` (mutex), the JSON file and its `.tmp` | `NewTokenStore`, `Set`, `Remove`, `persist`, reads |
| Publisher, relay client | `internal/pushrelay/publisher.go`, `client.go` | none of its own | `Publish`, `SendTest`, `PublishMetrics`; prunes a device on HTTP 410 |
| Widget throttle | `internal/pushrelay/widget.go` | `lastSent` (mutex) | `Notify`, `Interval` |
| Live stream | `internal/api/api.go` | `subscribers` (RW mutex), one buffered channel per client | `BroadcastSample`, `handleStream` |
| Runtime settings | `internal/api/api.go`, `internal/config/config.go` | the running interval and rules, the config file and its `.tmp` | `PATCH /config`, `PATCH /alerts`, `saveConfigFields`, `Load` |
| HTTP API | `internal/api/api.go` | none | authentication, read-only endpoints, `parseRange` |
| Serve command | `cmd/gateshell-agent/main.go`, `internal/api/api.go` | signal context, `errCh`, the HTTP server and its connections | wiring, start, signal, drain, `ListenAndServe`, `Shutdown` |
| Sample store | `internal/store/` | a bounded buffer, or an SQLite table; retention is written and never called | `SaveSample`, `QueryRange`, `Latest` |
| Host readers | `internal/collector/*.go` | per-process CPU ticks of the previous poll | `Read` of each |
| Security audit | `internal/securityaudit/` | the cached report (mutex) | `Scan`, six checks that run commands and read files |
| Mosh bridge | `mobile/moshbridge/client.go` | a client library's session, nil once closed (mutex) | `Dial`, `Send`, `Receive`, `Resize`, `Close` |
| Pairing, mosh server command, packaging | `internal/pair`, `cmd`, `install.sh` | none | |

How they interact:

- The collector goroutine runs docker, systemctl, pm2 and crontab without a timeout
  and then every sink itself, in order: store, stream,
  evaluator, widget. The evaluator publishes from there, so a sink's timeout is
  time the loop does not collect.
- HTTP handlers call `SetInterval`, `SetRules`, `Set` and `SendTest` on their own
  goroutines while the loop runs; each component guards its fields with a mutex
  and does its slow work (saving, publishing, sleeping) outside of it. That gap
  between mutex and slow work is where most hazards are.
- Both files are saved as `<path>.tmp` and renamed, by any number of goroutines
  with the same temporary name and no lock.
- `serve` reads the registry and the config file once, when it starts. It ends
  when a signal has come and both the loop and the API have returned; the store is
  closed after that. Requests are served by goroutines nobody waits for beyond
  the five seconds of `Shutdown`.

Hard behaviour, and what makes each component correct:

| Component | Hard because | Correct when |
|---|---|---|
| Collector loop | store-then-signal races read-then-sleep; pauses; cancellation in two selects; external commands that may hang | no change of interval is slept through, a pause takes hold, cancellation ends `Run`, handlers never block |
| Evaluator | debounce, repeat and recovery over long sequences; rule sets replaced meanwhile; state outlives rules | what was said last about a rule follows from the samples it met; repeats are spaced; service changes are announced once |
| Registry | saves after the unlock, shared temporary file, crashes, failing system calls | the file is readable and equal to memory between saves; an acknowledged device is never forgotten |
| Publisher | some devices fail, some vanish, others register meanwhile | every device of a publish is tried once |
| Widget | calls overlap on a slow relay; failed calls give their slot back | successful pushes are an interval apart; failures cost nothing |
| Stream | closing a channel while another goroutine ranges over the map; full channels; hanging clients | no send on a closed channel; order kept; drops only on backlog; the loop is never held up |
| Store | samples arrive late, in whole seconds, at a cap, under a clock that can be set back | a range is answered with its samples; an answer only ever gains the sample in the making |
| Host readers | counters change, shrink, vanish and are recycled between two readings | a rate is that of its window; nothing is counted twice |
| Serve | four goroutines' ends must meet; streams that never end; a listener that fails at any time | a signal ends the process unless a command of `gather` hangs; the store outlives its users |
| Security audit | several sources, each may fail or hang; the host changes during a scan; requests queue behind it | a pass was seen on the host, a refresh is fresh, a cached report is recent |
| Settings | read-modify-write of a file without a lock; zero means two things | requests keep each other's keys; a restart brings back what ran |

`PROJECT.json` lists the individual hazards, each at the line where it bites.

## Modules

Every module keeps the control of the code (steps, guards, error paths, order)
and abstracts data to what the properties tell apart. A step is one critical
section, one channel operation, one system call or one exchange with the relay;
code between them touches only the goroutine's own state.

### CollectorLoop

`interval`, `reconfig` are the fields; `pc` is where `Run` is. `CheckInterval` is
the first read of the interval (collector.go:123), `Gather` and `FanOut` the two
halves of `tick`, `Reread` the second read, `StartWait` the arming of the timer,
and `TimerFires`, `TakeWake`, `Stop` the ways out of the two selects in `wait`.
`SetInterval` is `StoreInterval` (under the mutex) and `SendWake` (the select with
a default branch, after the unlock). `Cancel` is the signal context of `serve`.
Intervals are any integers: the code treats every non-positive one as a pause.

### Serve

Extends `CollectorLoop` with everything around it. The goroutines that call
`SetInterval` are the connections of the HTTP server: `Accept`, `Request`, `Patch`
and `Wake` (the two halves of `SetInterval`), `Answer`, `HangUp`. A request that
is a stream ends only when its client leaves. `Bind` and `ListenerFails` are
`srv.ListenAndServe`; `BeginShutdown`, `ShutdownCompletes`, `ShutdownTimesOut` and
`ListenAndServeFails` the select in `api.ListenAndServe`. `Collect` is a step of
`Run`, `CollectorReturns` its result in `errCh`; `Signal`, `NoticeSignal`, `Drain`,
`CloseStore` (the defer) and `Exit` are `serve` itself. `errCh` has room for both
results, so a send never waits, and the order of receiving is left open.
`CommandHangs` and `CommandReturns` are the external commands of `gather`: they run
without a timeout and without the context, and while one is `hung` the loop does
not move. When
`serve` returns the process is gone: nothing moves any more.

### AlertEvaluator

`Handle` takes the snapshot of the rules, `EvaluateRule` and
`EvaluateServiceRule` evaluate one rule each, as one step, because the mutex is
held for as long as the rule's state is read and written and the publish that
follows returns nothing. `SetRules` may come between any two of them. A
comparator with its threshold is the set `breach` of values on the wrong side. A
metric that cannot be computed is `Missing`. The time between two samples may be
negative: their stamps are wall-clock times. The samples seen and the messages
sent are kept as history, and the properties compare these two, not the
evaluator's own variables.

### FileSwap, Registry, TokenStore

`FileSwap` is what both files have in common: names stand for files (inodes),
`os.WriteFile` is open-with-truncate and then write, each on whatever the name
stood for, a shorter document over a longer one leaves a torn file, `os.Rename`
moves the name or fails with ENOENT, and process death closes descriptors. File
contents are empty, torn or one whole document. The machine does not crash:
without an fsync in the code, what a power failure leaves depends on the file
system.

`TokenStore` is `Set`, `Remove` (in `Prune`) and `persist` on top of it, the
publisher's fan-outs (`Publish`, `SendTest`, `Send`, `Prune`), `Crash` and
`Restart` (`NewTokenStore`). The list is a function from token to registration;
its order plays no role in the code but for the order of sending, which is left
open. An answer of the relay is acceptance, 410, or any failure.

`Registry` is what these promise, with no files: a list that is changed one device
at a time, becomes durable as a whole in one step, and acknowledges devices in
that step only; a restart begins with the durable list. `TokenStore` maps
`durable` to what `NewTokenStore` would read at that moment.

### LossyStream, StreamHub

`BeginBroadcast`, `Offer` and `EndBroadcast` are `BroadcastSample`; `Connect`,
`Subscribe`, `Receive`, `Written`, `Disconnect`, `Unsubscribe`, `Close` are one
`handleStream`. The RW mutex behaves as Go's: a handler waiting in `Lock` holds
up a later `RLock`, and a writer that unlocks lets the waiting reader in. Samples
are numbers. A handler in `write` may stay there: its client hangs.

`LossyStream` is what a client is promised, without lock, map or goroutines: from
the moment it is connected it is offered every sample once and in order, and
misses one only while `Cap` older ones wait for it. The mapping in `StreamHub` reads
the connected clients off the handlers that are streaming, and what each has been
offered off the broadcast under way: the last sample but one while the broadcast
has yet to get to the client's channel, or waits for the lock.

### WidgetNotifier

`ReadInterval`, `Skip`/`Claim` (the critical section), `Publish` and `Send`
(`PublishMetrics`), `Return` with the second critical section after a failure.
`Interval` applies the floor. The model lets several goroutines call `Notify`:
`serve` has one, the type's comments promise the throttle to all. A claimed slot
is a record of its number, its time and the interval respected.

### SampleStore

`Gather` stamps a sample and `SaveSample` saves it, later or, in SQLite, in vain.
Both stores run side by side on the same calls, so that one run compares each
with what was gathered. `MemoryRange` is the binary search with the early stop,
`SQLiteRange` the query on whole seconds with its order by timestamp (`Ascending`
puts a row where as many rows lie before it), `ParseRange` and `Refused` what
`GET /metrics` asks for, `MemoryLatest` and `SQLiteLatest` what `/latest` and
`/services` do. Time is counted in fractions of a second, because the memory
store compares full timestamps and everything else seconds. The SQL engine is
taken at its word, with rows of one second in the order of their ids, which is
how the index on `timestamp` keeps them.

### HostRates

One poll of the three readers that subtract two readings: `ReadCPU` and
`ReadCPUAgain` with the sleep between them, `ReadNet` and `ReadNetAgain`, and
`ListProcesses`, `ReadProcess`, `EndScan`, with the failures gather tolerates.
`Kernel` is what happens meanwhile. The counters of /proc/stat are summed into
busy, idle and iowait; sent bytes are treated like the received ones and left
out; a percentage of a process is its ticks before the division by the elapsed
time. `IowaitShrinks` takes ticks out of the counters, as the kernel may. The history variables `window` and `seen` count what really happened.

### Settings, ConfigFile

`PatchConfig` and `PatchAlerts` apply a value at runtime, `ReadConfig`,
`OpenConfig`, `WriteConfig`, `RenameConfig` are `saveConfigFields`, `SaveFails`
any error on the way, `Crash` and `Restart` the process, the latter with `Load`:
defaults, file (`mergeNonZero`), environment and flags. A document is a function
from three keys: the poll interval, the rules (two keys in the file that are
always written together), and everything else install.sh wrote. Its initial state
is an agent that install.sh set up. An agent started without `--config` saves
nothing and is not modelled.

`Settings` is what the two requests promise, with no files: a change is in use
first and kept afterwards, by itself and in one step, what was installed stays,
and a restart brings back what is kept. `ConfigFile` maps `kept` to what `Load`
would make of the file as it is at that moment, so that a step that empties,
tears or partly changes the file is a step `Settings` does not have.

### SecurityAudit

A scan asks *sources* (commands and files) one after the other: `Ask`. `Remaining`
is the order of the checks in `Scan`, and `Needed` which fallbacks are asked
(`sshd_config` when `sshd -T` says nothing; firewalld, then nft when ufw does). An
answer is what the host says at that moment or "denied": not installed, refused,
unreadable, blank, unsupported, or cut off by the timeout. `Updates`, `Listeners`,
`SSH`, `Firewall`, `Backups`, `Certificates` are the six checks as functions of
what was heard. `Call`, `ServeCached`, `BeginScan`, `EndScan` are `handleSecurity`
and `CachedScanner.Scan`, whose mutex is held for the whole scan. `HostChanges`
may come between any two questions; `SetClockBack` sets the wall clock back once, by
`Setback`. A call takes the mutex (`Locks`) whether it is answered from the cache or
scans.

The modules meet in `FileSwap`, which `TokenStore` and `ConfigFile` extend, in
`PublishMetrics`, which `WidgetNotifier` contains as its own steps, and in `Serve`,
which composes the loop, its callers, the HTTP server and the store's end. Larger
compositions would multiply states without relating them: the collector
goroutine's sinks do not share state.

## Runs

| Run | Configuration | Checks | Distinct states |
|---|---|---|---|
| `serve` | 2 connections, intervals 0/5/300, capacity 1, commands that hang | `ServeTypeOK`, `NoLostWakeup`, `PauseBound`, `StoreOutlivesUsers`, `KeepsCollecting`, `SignalEndsServe`, `HandlersReturn` | 108 k |
| `alerts` | a debounced repeating rule and a service rule, 4 samples 1, 2 or -1 apart, 2 rule changes | `TypeOK`, `AlertsFollowSamples`, `Episodes`, `OutagesAnnounced` | 7.4 M |
| `rates` | 2 interfaces, 2 pids, the top one kept, 4 events of the kernel, 3 polls | `RatesTypeOK`, `CPUIsTheBusyShare`, `NetIsOfTheFirstLink`, `TicksReportedOnce` | 1.5 M |
| `store` | 2 units to the second, capacity 2, 4 samples, clock to 5 | `TypeOK`, `MemoryAnswers`, `SQLiteAnswers`, `LatestIsNewest`, `AnswersOnlyGrow` | 424 k |
| `tokens` | 1 handler, 1 publisher, 2 tokens, 4 operations or failures | `FileFollowsMemory`, `AckedSurviveCrash`, `EveryDeviceTried`, `ImplementsRegistry` | 290 k |
| `stream` | 2 clients, capacity 2, 5 samples | `TypeOK`, `NoSendOnClosed`, `ImplementsLossyStream`, `BroadcastEnds`, `LeaversLeave` | 177 k |
| `widget` | 2 callers, 2 devices, floor 2, poll 0 or 3, clock to 5, 3 claims | `TypeOK`, `SuccessesApart`, `FailureCostsNothing`, `QuietAfterSuccess` | 6.1 M |
| `config` | 2 handlers, accepted, refused and zero intervals, with and without a flag, 3 requests or failures | `TypeOK`, `RestartKeepsSettings`, `ImplementsSettings` | 1.2 M |
| `audit` | 2 callers, 3 calls, 1 certificate, TTL 2, one change, one failure, 3 time units, a clock set back by 1 | `TypeOK`, `PassWasSeen`, `RefreshIsFresh`, `CachedIsRecent` | 1.9 M |
| `tokensLost`, `widgetDevices`, `configLost` | | one property each, violated | see Findings |

**Bounds.** `MaxOps`, `MaxSamples`, `MaxPatches`, `MaxClaims`, `MaxTime` cap how
often the environment acts. Three operations are a value, a competing value and
a failure; four samples are the shortest history with a breach, an interruption,
a second breach and a repeat or recovery; three claims are the shortest one
in which a failed call could restore a stamp over one of two successful ones; a
channel capacity of 2 and five samples fill a channel, drop, drain, fill and
drop again (the code's 8 differs only in length), and a store of two samples evicts
twice. Four kernel events are a tick to make time pass, an exit, a start and one
more tick or packet; three polls put a failing one between two good ones. In
`audit`, three calls are a first report, a reader behind a scan and one who
refreshes meanwhile; `MCSecurityAudit` has a host where everything can be read and
one as an unprivileged agent finds it, where fallbacks answer, and changes that
spoil a check in the middle of a scan; the two callers are alike, as are the callers and the devices of `widget`
(symmetry; these runs have no liveness property). Two goroutines show every pairwise
race; the proofs below lift most results to any number of them. A run whose cfg
says `CHECK_DEADLOCK FALSE` stops because its bound is reached, or because the
process failed to start on a broken file, which is a final state in the program
too. `serve` has no bound and stops because the process exits.

**Observations of `alerts`.** A sample of the run varies the metric or the
service, and once both: the two kinds of rule share no state, so the full product
would only multiply.

**Fairness.** Liveness is checked for the whole agent and for the stream.

- `Serve!FairServeSpec`: weak fairness of the loop, of `serve`, of the API's
  shutdown and of a handler that is not a stream (the Go scheduler runs a runnable
  goroutine; sinks return because each has a timeout or does not block; timers
  fire, the one of five seconds too). There is none for the external commands of
  `gather`: `exec.Command(...).Output()` in docker.go:27, systemd.go:27, pm2.go:26 and
  cron.go:29 waits for as long as the command runs, so it may hang for ever, and while
  it does no fairness moves the loop. Strong fairness of `Stop`: a select whose
  timer, wake-up and cancellation are all ready chooses at random, so it cannot
  avoid one for ever. Nobody has to connect, to hang up, to bind the port or to
  send a signal.
- `StreamHub!FairSpec`: weak fairness of a broadcast under way and of a handler
  that is joining or leaving. There is none for reading, writing or
  disconnecting, so `BroadcastEnds` holds with clients that hang for ever.

**What the properties say.**

- *NoLostWakeup*: a loop asleep, or about to be, on an interval that is not the
  current one has a wake-up pending. *PauseBound*: after a pause at most the tick
  already past the check gathers. *KeepsCollecting*: while the interval stays
  positive and no signal comes, samples keep coming, also when the API is gone,
  unless a command of `gather` never returns.
- *SignalEndsServe*: a signal ends the process, whatever the loop, the requests,
  the streams and the listener are doing, with the same exception: a command that
  never returns keeps `Run` from looking at its context and `serve` in its drain.
  That nothing else can do so is what these two properties say; handlers return
  and the store stays open with a hung command too. *StoreOutlivesUsers*: the store is
  closed after `Run` has returned and no request is left, or after the API has
  given its requests up (its five seconds were over, or its listener had failed).
  *HandlersReturn*: a handler never waits for the loop.
- *AlertsFollowSamples*: the last message about a rule is an alert exactly when
  the samples it was evaluated on have breached it without interruption for its
  duration, measured from the first of them; also when the clock is set back.
  *Episodes*: fire, repeats an interval apart, one recovery. *OutagesAnnounced*: a
  service rule announces each change it sees, once; reminders are an interval
  apart and come only while the service is down. Of an outage that was never
  announced, because the service was down when first seen, the first reminder is
  neither required nor forbidden, see Findings. All three are about rules that
  can be told apart by name (`NamesStandForRules`), the last about one rule for each
  service (`OneRulePerService`); the code enforces neither, see Findings.
- *CPUIsTheBusyShare*: the usage is the busy ticks between the two readings as a
  share of the ticks that passed, less those by which iowait shrank, and 0 when
  fewer are left than were busy. *NetIsOfTheFirstLink*: the rate is that of the first
  interface as long as that one stays first, whatever others come and go. *TicksReportedOnce*: over polls that fail, processes
  that exit and pids that are recycled, no tick of a process is told twice.
- *MemoryAnswers*, *SQLiteAnswers*: each range the API lets through is answered
  with the samples in it, SQLite's edges being whole seconds.
  *LatestIsNewest*: `/latest` shows the sample saved last. *AnswersOnlyGrow*: the
  answer to a range of seconds changes only by the sample in the making, when its
  second is in the range; no save, failure or restart takes anything out of an
  answer or puts anything else into it. Until the clock is set back that sample
  comes last.
- *FileFollowsMemory*, *AckedSurviveCrash*: while saves do not overlap, the
  registry can be read at every step, equals memory between saves that
  succeeded, and holds every acknowledged device, whatever dies or fails.
  *ImplementsRegistry*: from every state reached without such an overlap, each
  step is one of `Registry` or changes nothing of it, so that nothing but the rename
  makes a change durable and nothing else is acknowledged. *EveryDeviceTried*: once
  each, whatever the others answer.
- *NoSendOnClosed*. *ImplementsLossyStream*: what a client is given is what
  `LossyStream` allows, whoever joins, hangs or leaves meanwhile. *BroadcastEnds*,
  *LeaversLeave*: clients that hang hold up neither the loop nor each other.
- *SuccessesApart*: successful calls of `Notify` claimed their slots an interval
  apart, overlapping or not. *QuietAfterSuccess*: after a successful call not even a
  failing one pushes a device within the interval, so that the early repetition
  `widgetDevices` shows ends with the first success. *FailureCostsNothing*:
  without overlap, the stamp is that of the last success.
- *ImplementsSettings*: until requests overlap, every step, crashes and failures
  included, is one of `Settings` or changes nothing of it. *RestartKeepsSettings*:
  under the same condition a restart brings back each setting whose save
  succeeded.
- *PassWasSeen*: a check passes in a new report only if the host was seen to be in
  order during that very scan, and by a fallback (`sshd_config`, firewalld) only if
  its first choice could not be asked. *RefreshIsFresh*: who asks for a refresh gets a scan
  that began after the request. *CachedIsRecent*: everybody else gets that, or
  one that ended less than the TTL ago; a clock set back keeps the report at hand
  for exactly that much longer, and no other.

The condition "do not overlap" in the registry and config properties is needed:
the runs `tokensLost` and `configLost` show what happens without it.

## Findings

Each is a run that TLC must find violated.

- **`tokensLost`: a registered device can be missing from the file.**
  tokenstore.go:57-58 says the store "persists every APNs device token". `Set`
  saves its copy after the unlock (:181), so of two overlapping registrations the
  older list may be renamed into place last, although both were answered 200.
  The shared temporary name also allows an empty or torn file, on which `serve`
  then refuses to start.
- **`configLost`: overlapping requests lose a setting.** config.go:183-187 says
  `saveConfigFields` preserves "any keys the caller isn't setting". It reads and
  replaces the file without a lock (:199); of a config and an alerts request that
  overlap, both answered 200, only one stays in the file.
- **`widgetDevices`: a failing device removes the throttle for the others.**
  widget.go:14-19 caps pushes at six per hour and device. `PublishMetrics` returns
  an error when any device fails, and `Notify` gives the slot back (:97): the
  devices that did get the push get another with the next sample.

More disagreements limit what the properties say, and have no run:

- *A hung command stops sampling and outlives the signal.* main.go:213 says `serve`
  "runs until SIGINT/SIGTERM", and main.go:356-358 that both goroutines "should return
  promptly now that ctx is canceled". `gather` waits without a timeout or context for
  docker, systemctl, pm2 and crontab: while one hangs, `Run` samples nothing and does
  not look at its context, and the drain (:359-363) waits for it. `KeepsCollecting` and
  `SignalEndsServe` except exactly this.
- *A pause does not survive a restart.* api.go:337-340 says the interval is
  persisted "so it survives a restart" and 0 pauses collection; `mergeNonZero`
  (config.go:291) takes a 0 in the file for an absent key. `Settings` has it
  explicitly: its `Pause` is kept as `Default`.
- *A reminder of an outage nobody was told of.* alerts.go:330-332 says a service
  still down is announced again an interval "since the last notification", and
  :106-107 that a rule fires when its service changes. A service first seen down gives
  no notification (:320-324), and with its zero `lastFiredAt` the next sample says
  "still DOWN" at once. `OutagesAnnounced` leaves that one reminder open.
- *Two alert rules on one service.* alerts.go:106-107 says a rule fires when its
  service changes. State is kept per service (:320): the first rule evaluated
  consumes the change, and the other never announces it. `OutagesAnnounced` is
  checked with one rule per service.
- *An old breach counts for a rule added again.* alerts.go:35-37 says a rule fires
  after a continuous breach. `SetRules` (:208) keeps `ruleStates`: a rule that is
  removed and comes back under its name counts from its old start, although
  samples in between were good. `AlertsFollowSamples` speaks of the samples the
  rule was evaluated on.
- *The clock set back.* memory.go:49-50 relies on chronological order, and SQLite's
  latest sample is the one with the latest timestamp, not, as store.go:33 says, the
  one saved last. `MemoryAnswers` and the second half of `LatestIsNewest` are
  conditional on a clock that was not set back. The audit's
  report is stamped in UTC, which drops the monotonic reading (scanner.go:69, :424):
  set back, the clock keeps the report at hand for that much longer than its TTL, and
  `CachedIsRecent` says that it does no more than that.
- *The rate of two interfaces.* reader.go:207-209 promises the rate "for the first
  non-loopback interface found". The two readings are subtracted without a look at
  the names (:229-243): when another interface has become the first one, the result
  is the difference of two unrelated counters. `NetIsOfTheFirstLink` is about the
  interface that stays.
- *iowait that shrinks.* cpustat.go:58-60 speaks of the busy share between two
  samples. iowait may decrease, and the total then grows by less than the ticks that
  passed: the share is too high, or reported as 0 once busy ticks exceed what is
  left. `CPUIsTheBusyShare` says which.
- *`sshd_config` is not the effective configuration.* When `sshd -T` fails, the
  audit reads the file and takes the last value of a key, where sshd takes the
  first, and sees no drop-in files (scanner.go:144-150). `PassWasSeen` speaks of what
  the file says.
- *"Authenticated" mosh packets.* client.go:144 (mobile/moshbridge) says a negative
  age "means no authenticated packet has arrived yet", and :133 speaks of the
  encrypted server having answered. Both are noted on any datagram from the
  peer's address, before the library decrypts it (:228), and a closed session has
  age -1 too. The bridge is not modelled.

## Proofs

TLAPS proves these for every value of the constants, under the modules' named
assumptions on them (a channel has a positive capacity, the floor is a positive
number, special values are distinct from ordinary ones, and the like).

| Module | Theorem | States |
|---|---|---|
| `CollectorProofs` | `TypeCorrect`, `WakeupsAreNotLost`, `PauseIsBounded` | `TypeOK`, `NoLostWakeup`, `PauseBound` of `CollectorLoop`'s `Spec` |
| | `ServeRunsTheLoop`, `ServeKeepsLoopInvariants` | `ServeSpec` implements `CollectorLoop`'s `Spec`, and so keeps its three invariants |
| | `ServeTypeCorrect`, `StoreIsClosedLast` | `ServeTypeOK`, `StoreOutlivesUsers` |
| | `RatesTypeCorrect`, `UsageIsTheBusyShare`, `RateIsOfTheFirstLink`, `NoTickIsReportedTwice` | `RatesTypeOK`, `CPUIsTheBusyShare`, `NetIsOfTheFirstLink`, `TicksReportedOnce` of `HostRates` |
| `AlertEvaluatorProofs` | `TypeCorrect`, `LastWordIsRight`, `EpisodesAreOrderly`, `OutagesAreAnnounced` | `TypeOK`, `AlertsFollowSamples`, `Episodes`, `OutagesAnnounced` |
| `TokenStoreProofs` | `TypeCorrect`, `SerialSavesFollowMemory`, `SerialSavesKeepAcked`, `SerialSavesRefine`, `FanOutComplete` | `TypeOK`, `FileFollowsMemory`, `AckedSurviveCrash`, `ImplementsRegistry`, `EveryDeviceTried` |
| `ConfigFileProofs` | `TypeCorrect`, `RestartKeeps`, `SerialRequestsRefine` | `TypeOK`, `RestartKeepsSettings`, `ImplementsSettings` |
| `SampleStoreProofs` | `TypeCorrect`, `MemoryAnswersRanges`, `SQLiteAnswersRanges`, `LatestIsLast`, `AnswersKeep` | `TypeOK`, `MemoryAnswers`, `SQLiteAnswers`, `LatestIsNewest`, `AnswersOnlyGrow` |
| `SecurityAuditProofs` | `TypeCorrect`, `PassIsSeen`, `RefreshAlwaysFresh`, `ReportsAreRecent` | `TypeOK`, `PassWasSeen`, `RefreshIsFresh`, `CachedIsRecent` |
| `StreamHubProofs` | `TypeCorrect`, `SendsAreSafe`, `StreamsAsPromised` | `TypeOK`, `NoSendOnClosed`, `ImplementsLossyStream` |
| `WidgetNotifierProofs` | `TypeCorrect`, `ThrottleHolds`, `SuccessKeepsQuiet`, `FailuresAreFree` | `TypeOK`, `SuccessesApart`, `QuietAfterSuccess`, `FailureCostsNothing` |

The arguments:

- *Wake-ups.* `NoLostWakeup` is inductive with the types: `StoreInterval` leaves
  its caller in "wake", `SendWake` leaves a token behind whether or not there was
  room, and `Reread` makes the timer current. `PauseBound` needs to know that a
  tick that is about to be counted has not been counted (`PauseInv`).
- *Registry.* `IInv` adds two layers to the types. `ProcessInv` holds always: who
  has a descriptor open, who owes an answer, and that the temporary name never
  stands for the published file. `SerialInv` holds while saves do not overlap: a
  save works on the current list, its temporary file holds what it wrote, and
  acknowledged devices are in the list and in the file. Since the file changes
  only by a rename, every other step leaves the second fact alone. The refinement
  (`Simulation`) takes the rename for `Save`, `Set` and `Prune` for the two changes,
  and every other step of a save for a stutter. `FanOutInv` is
  about the publisher alone: the devices tried and those that remain are the
  devices the round started with, each once.
- *Settings.* The layers are those of the registry. `SerialInv` says of the one
  request under way how far it is (`RequestInv`: its document is the file with one
  key replaced, its temporary file is what the step before left), and of the file
  that it is present, keeps what was installed, and would bring back (`Durable`)
  every setting whose save has succeeded and that no request is changing. The
  refinement maps `kept` to what `Load` would make of the file: only the rename
  changes it, by one key, and a restart makes it the settings in use.
- *Alerts.* The invariant relates the evaluator's state to the history, rule by
  rule. `LastWordInv`: a rule fires exactly when the last message about it is an
  alert, and remembers its time. `ReflectsInv`: `since` is the timestamp of the
  first sample of the breach that goes on, and the rule fires if a sample of that
  breach lay `for` later; it is up to date, or waits for the last sample. These two
  are each other's two ends, and `AlertsFollowSamples` follows. `EpisodeInv` says
  of each message what it is to the one before; later messages do not change
  that. A service's state is that of its last sighting (`ServiceReflects`), so what
  a rule says next is what `Announced` says it must. `PendingInv` and `LogInv` tie
  the snapshot being evaluated, and every message, to samples handled. Each rule's
  part is untouched by the steps of the others because names are distinct.
- *History.* `RowsInv` and `SamplesInv` say which samples are in the two stores:
  the rows in the order of their ids, and the last of this run, without a gap.
  `ClockInv`: until the clock is set back, stamps ascend. The binary search is a
  recursive function; that it exists and finds the boundary between the samples
  before and not before a time (`Boundary`) in any sorted sequence is proved by a
  least counterexample: of all the intervals where it fails take a shortest one
  (`LeastNat`, the well-ordering of the numbers, takes the place of an induction
  theorem); the half it goes on with is shorter (`Bisection`). That `Ascending`
  has every row once follows by counting: places are different numbers from 1 to
  the number of rows, so all of them are taken (`AscendingFacts`). A step adds at
  most one row (`RowsGrow`), and a row after all others sorts to the end
  (`AscendingAppend`), which is `AnswersOnlyGrow`.
- *Audit.* `HeardInv`: during a scan, every answer heard was shown by the host at
  some moment of this scan, or is a failure. `PassWasSeen` follows check by check.
  `FreshInv`: the scan a request runs began after it asked, because it holds the
  mutex from its look at the cache to the end of the scan. `ClockInv`: the
  wall clock is `Setback` behind the time once it was set back, and a report's stamp is
  the time it was made or that much less.
- *Rates.* `WindowInv` ties what was counted since the first reading to the
  counters: every tick is in the window, so the counters have grown by the window
  less what iowait lost (`CounterTotals`), and the first interface, while it stays, by
  the bytes counted. For the network this needs that no two
  interfaces have one name (`LinksInv`): a list that begins with the same name after
  one came or went begins with the same interface. `ScanInv` does the same for each
  pid: what it has used is its baseline (`Baseline`: read in this scan or the
  one before) plus what was seen since, unless the pid has a new owner, whose birth
  is later than any the reader has met.
- *Serve.* Every step is one of the loop or leaves its variables alone, so what is
  proved of the loop holds in the agent without a new induction. `ServeInv` adds
  what a result in `errCh` tells of its sender (`ReportedInv`: it has returned, and
  the store is closed only when both have) and what `Shutdown` leaves behind
  (`ShutdownInv`: a closed listener takes no connection and has no idle one, and
  after "nil" nothing is active).
- *Stream.* `LockInv` is what the lock buys: channels still to visit are in the
  map, and a channel in the map belongs to a handler that has not closed it.
  Removing one needs the write lock, which excludes a broadcast. The refinement
  (`Simulation`, one step per action) needs `StreamInv`: besides the lock, that a
  handler that streams is in the map, so that the next broadcast visits it
  (`MapInv`), and that a broadcast under way is that of a sample (`Started`).
- *Throttle.* With overlapping calls the property is not inductive: a failing
  call restores a stamp, which must not fall behind a slot that counts. `SlotInv`
  states it for successful calls and those in flight: `Stamped` (no such slot is
  younger than the stamp), `Apart`, and `Remembered` (what a call would restore
  is not behind any older slot that counts). `QuietInv` adds the slots something was
  pushed in, failed ones included: they keep the distance they had from the older
  slots that count, because slots stop counting but none begins to. `AloneInv`
  does the same for `FailureCostsNothing`.

The types of `TokenStore` are left to its theorem; every other `TypeOK` is checked by
a run as well. Only model-checked: all liveness properties (the prover has no
ENABLED and hence no fairness).

## Not modelled

- Read-only HTTP endpoints (but for `parseRange` and the audit) and authentication:
  stateless.
- The mosh bridge: it runs on the phone, and the protocol is that of a library
  outside this repository; its own state is a session that is nil once closed.
- pm2, docker, cron, memory and disk readers: they read once and keep nothing.
- A `serve` that fails while it is being set up (flags, config file, store,
  registry): it returns before any goroutine runs.
- Retention: `ApplyRetention` has no caller, although README.md:30-32 says samples
  are downsampled and pruned.
- That rates are divided by the nominal interval rather than the time that
  really passed: the models count bytes and ticks, not bytes per second.
- Parsing of /proc and of command output, JSON formatting, the text
  of alerts: text handling with no control that a property is about.
- Power failure, and a clock set back under `WidgetNotifier`, which is right to
  assume a monotonic clock: `time.Now` keeps its monotonic reading there.
- Command line parsing, pairing tokens, the mosh server command, installation
  scripts other than the config file they write.

## Plan

Done: the modules above, the composition `Serve`, the abstract specifications
`LossyStream`, `Settings` and `Registry` (checked and proved), and theorems for
every safety property of every module. What is left:

1. `Throttle`, an abstract specification of `WidgetNotifier` with one caller: what
   it would say is proved today as invariants.
