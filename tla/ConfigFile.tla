----------------------------- MODULE ConfigFile -----------------------------
(***************************************************************************)
(* Settings changed at runtime by PATCH /api/v1/config and PATCH           *)
(* /api/v1/alerts (internal/api/api.go), written back to the config file   *)
(* (internal/config/config.go, saveConfigFields) and loaded from it when   *)
(* the agent starts (Load).                                                *)
(*                                                                         *)
(* A handler applies the new value at runtime, then reads the whole file,  *)
(* replaces its own key and saves the result, without any lock: two        *)
(* requests may interleave at every system call. The process may die at    *)
(* any step and is started again.                                          *)
(*                                                                         *)
(* The file is a function from keys to values. "rules" stands for the keys *)
(* rules and service_rules, which are always written together, and         *)
(* "installed" for all the keys install.sh wrote that no request changes.  *)
(***************************************************************************)
EXTENDS FileSwap, Integers, FiniteSets

CONSTANTS
  Requests,             \* poll intervals asked for; 0 pauses, others may be refused
  MinPollInterval,
  DefaultPollInterval,
  Overrides,            \* poll intervals of a flag or an environment variable, or Absent
  RuleSets,             \* rule sets asked for
  NoRules,              \* the empty rule set
  Installed,            \* the value of the key "installed"
  Absent,               \* a key that is not in the file
  MaxOps                \* bound on requests and failures of a save

ASSUME IntervalsAssumption ==
  /\ Requests \subseteq Int
  /\ MinPollInterval \in Nat \ {0} /\ DefaultPollInterval \in Nat \ {0}
ASSUME AbsentAssumption ==
  Absent \notin Int \cup RuleSets \cup {Installed}
ASSUME RuleSetsAssumption == RuleSets \cap Int = {}
ASSUME OverridesAssumption == Overrides \subseteq (Nat \ {0}) \cup {Absent}
ASSUME NoRulesAssumption  == NoRules \in RuleSets

VARIABLES
  override,     \* the flag or environment variable the agent is started with
  live,         \* Collector.interval and Evaluator's rules
  pc,           \* where each handler is
  field,        \* the key and value a handler is saving
  doc,          \* the document it is going to write
  status,       \* the agent process: "up", "down", or "failed" to start
  \* history variables
  synced,       \* keys whose last save succeeded, all after a restart
  overlapped,   \* two requests have been in progress at once
  ops

handlerVars == <<pc, field, doc>>
vars == <<override, live, handlerVars, fileVars, status, synced, overlapped, ops>>

LiveKeys == {"poll_interval", "rules"}
Keys     == LiveKeys \cup {"installed"}

\* 0 pauses collection; anything else below MinPollInterval is refused.
Accepted(d) == d = 0 \/ d >= MinPollInterval

Intervals == {d \in Requests : Accepted(d)} \cup {DefaultPollInterval} \cup (Overrides \ {Absent})

\* The settings in use.
InUse == {l \in [LiveKeys -> Intervals \cup RuleSets] :
            l["poll_interval"] \in Intervals /\ l["rules"] \in RuleSets}

Docs == {d \in [Keys -> Intervals \cup RuleSets \cup {Installed, Absent}] :
           /\ d["poll_interval"] \in Intervals \cup {Absent}
           /\ d["rules"] \in RuleSets \cup {Absent}
           /\ d["installed"] \in {Installed, Absent}}

Fields == [key : {"poll_interval"}, value : Intervals] \cup [key : {"rules"}, value : RuleSets]

saving == {"open", "write", "rename"}
Busy(h) == pc[h] # "idle"

TypeOK ==
  /\ override \in Overrides
  /\ live \in InUse
  /\ pc \in [Writers -> {"idle", "read"} \cup saving]
  /\ field \in [Writers -> Fields \cup {Absent}]
  /\ doc \in [Writers -> Docs \cup {Absent}]
  /\ \A h \in Writers : Busy(h) => field[h] \in Fields
  /\ \A h \in Writers : pc[h] \in saving => doc[h] \in Docs
  /\ FileTypeOK(Docs)
  /\ status \in {"up", "down", "failed"}
  /\ synced \subseteq LiveKeys
  /\ overlapped \in BOOLEAN
  /\ ops \in Nat

-----------------------------------------------------------------------------
(* Load                                                                    *)

\* Defaults, then the file's value unless it is zero (mergeNonZero), then
\* environment variables and flags.
LayeredPoll(d) ==
  IF override # Absent THEN override
  ELSE IF d \in {Absent, 0} THEN DefaultPollInterval ELSE d

\* Mutant: a rule set that is not in the file is passed on as it is.
LayeredRulesNil(rs) == rs

LayeredRules(rs) == IF rs = Absent THEN NoRules ELSE rs

Loaded(d) == [k \in LiveKeys |-> IF k = "rules" THEN LayeredRules(d["rules"])
                                 ELSE LayeredPoll(d["poll_interval"])]

InstalledDoc ==
  [k \in Keys |-> CASE k = "installed" -> Installed
                    [] k = "poll_interval" -> DefaultPollInterval
                    [] OTHER -> Absent]

\* The length of the JSON document, in keys and rules.
DocSize(d) ==
  1 + Cardinality({k \in Keys : d[k] # Absent})
    + (IF d["rules"] \in {Absent, NoRules} THEN 0 ELSE 1)

Init ==
  /\ override \in Overrides
  /\ tmp = NoFile
  /\ fd = [h \in Writers |-> NoFile]
  /\ path \in Files
  /\ data = [f \in Files |-> IF f = path THEN Whole(InstalledDoc, DocSize(InstalledDoc))
                             ELSE Empty]
  /\ live = Loaded(InstalledDoc)
  /\ pc = [h \in Writers |-> "idle"]
  /\ field = [h \in Writers |-> Absent]
  /\ doc = [h \in Writers |-> Absent]
  /\ status = "up"
  /\ synced = LiveKeys
  /\ overlapped = FALSE
  /\ ops = 0

-----------------------------------------------------------------------------
(* The requests                                                            *)

\* The value is applied at runtime, before anything is written.
Apply(h, key, value) ==
  /\ status = "up" /\ pc[h] = "idle" /\ ops < MaxOps
  /\ live' = [live EXCEPT ![key] = value]
  /\ field' = [field EXCEPT ![h] = [key |-> key, value |-> value]]
  /\ pc' = [pc EXCEPT ![h] = "read"]
  /\ overlapped' = (overlapped \/ \E g \in Writers \ {h} : Busy(g))
  /\ ops' = ops + 1
  /\ UNCHANGED <<override, doc, fileVars, status, synced>>

PatchConfig(h, d) == Accepted(d) /\ Apply(h, "poll_interval", d)

PatchAlerts(h, rs) == Apply(h, "rules", rs)

\* The request is answered.
Answer(h) == pc' = [pc EXCEPT ![h] = "idle"]

EmptyDoc == [k \in Keys |-> Absent]

\* What os.ReadFile finds: a missing or an empty file is an empty document.
Found == IF path = NoFile THEN Empty ELSE data[path]
Base  == IF Found.kind = "whole" THEN Found.doc ELSE EmptyDoc

\* Mutant: every setting is written as it is in memory.
OverlaidLive(h) == [k \in Keys |-> IF k \in LiveKeys THEN live[k] ELSE Base[k]]

\* Mutant: a key the file does not have yet is not added.
OverlaidIfPresent(h) ==
  IF Base[field[h].key] = Absent THEN Base ELSE [Base EXCEPT ![field[h].key] = field[h].value]

\* The document read, with the caller's key replaced.
Overlaid(h) == [Base EXCEPT ![field[h].key] = field[h].value]

ReadConfig(h) ==
  /\ status = "up" /\ pc[h] = "read"
  /\ Found.kind # "torn"
  /\ doc' = [doc EXCEPT ![h] = Overlaid(h)]
  /\ pc' = [pc EXCEPT ![h] = "open"]
  /\ UNCHANGED <<override, live, field, fileVars, status, synced, overlapped, ops>>

OpenConfig(h) ==
  /\ status = "up" /\ pc[h] = "open"
  /\ OpenTmp(h)
  /\ pc' = [pc EXCEPT ![h] = "write"]
  /\ UNCHANGED <<override, live, field, doc, status, synced, overlapped, ops>>

WriteConfig(h) ==
  /\ status = "up" /\ pc[h] = "write"
  /\ WriteTmp(h, doc[h], DocSize(doc[h]))
  /\ pc' = [pc EXCEPT ![h] = "rename"]
  /\ UNCHANGED <<override, live, field, doc, status, synced, overlapped, ops>>

\* Answered 200, or 500 when the temporary file is gone.
RenameConfig(h) ==
  /\ status = "up" /\ pc[h] = "rename"
  /\ RenameTmp
  /\ Answer(h)
  /\ synced' = IF RenameSucceeds THEN synced \cup {field[h].key} ELSE synced \ {field[h].key}
  /\ UNCHANGED <<override, live, field, doc, status, overlapped, ops>>

\* The file does not parse, or a system call fails: the value stays in memory
\* and the request is answered 500.
SaveFails(h) ==
  /\ status = "up"
  /\ \/ pc[h] = "read" /\ Found.kind = "torn" /\ UNCHANGED <<fileVars, ops>>
     \/ /\ pc[h] \in saving \cup {"read"} /\ ops < MaxOps
        /\ ops' = ops + 1
        /\ GiveUp(h)
  /\ Answer(h)
  /\ synced' = synced \ {field[h].key}
  /\ UNCHANGED <<override, live, field, doc, status, overlapped>>

-----------------------------------------------------------------------------
(* The process                                                             *)

Crash ==
  /\ status = "up"
  /\ status' = "down"
  /\ pc' = [h \in Writers |-> "idle"]
  /\ CloseAll
  /\ UNCHANGED <<override, live, field, doc, synced, overlapped, ops>>

\* Load fails on a file that is missing, empty or torn.
Restart ==
  /\ status = "down"
  /\ IF Present
     THEN status' = "up" /\ live' = Loaded(data[path].doc) /\ synced' = LiveKeys
     ELSE status' = "failed" /\ UNCHANGED <<live, synced>>
  /\ UNCHANGED <<override, handlerVars, fileVars, overlapped, ops>>

Patch(h) == (\E d \in Requests : PatchConfig(h, d)) \/ (\E rs \in RuleSets : PatchAlerts(h, rs))

Save(h) == ReadConfig(h) \/ OpenConfig(h) \/ WriteConfig(h) \/ RenameConfig(h) \/ SaveFails(h)

Next == (\E h \in Writers : Patch(h) \/ Save(h)) \/ Crash \/ Restart

Spec == Init /\ [][Next]_vars

-----------------------------------------------------------------------------
(* Properties                                                              *)

Quiet == status = "up" /\ \A h \in Writers : ~Busy(h)

\* A restart brings back what is running: between requests that came one after
\* the other, loading the file gives each setting whose last save succeeded,
\* although every request rewrites the whole file. (A pause is an exception,
\* and so is a poll interval given by a flag.)
RestartKeepsSettings ==
  ~overlapped /\ Quiet => \A k \in synced :
    \/ Loaded(data[path].doc)[k] = live[k]
    \/ k = "poll_interval" /\ (live[k] = 0 \/ override # Absent)

\* What a reader of the file, or a restart, makes of it.
OfFile(value) == IF Present THEN value ELSE Absent

Atomic == INSTANCE Settings
  WITH Values    <- Intervals \cup RuleSets,
       Pause     <- 0,
       Default   <- DefaultPollInterval,
       kept      <- OfFile(Loaded(data[path].doc)),
       installed <- OfFile(data[path].doc["installed"]),
       running   <- live,
       up        <- status = "up"

\* "writes the value back to the config file so it survives one [a restart]": while
\* requests come one after the other, the file behaves as a map of settings that
\* is changed in one step and one key at a time, whatever system call fails and
\* wherever the process dies. Nobody who reads it finds anything between, what
\* was installed stays, and the agent starts from it.
ImplementsSettings == Atomic!Init /\ [][overlapped' \/ Atomic!Next]_(Atomic!vars)

\* "saveConfigFields [...] preserving any keys the caller isn't setting": when
\* all requests are done, the file has every setting whose save succeeded.
SavesKeepOtherKeys ==
  Quiet => Present /\ \A k \in synced :
    live[k] \in {data[path].doc[k], Loaded(data[path].doc)[k]}
=============================================================================
