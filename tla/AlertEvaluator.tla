--------------------------- MODULE AlertEvaluator ---------------------------
(***************************************************************************)
(* The alert evaluator of internal/alerts/alerts.go: threshold rules with  *)
(* debounce and repeat, service up/down rules, and rule sets replaced at   *)
(* runtime by PATCH /api/v1/alerts while a sample is being evaluated.      *)
(*                                                                         *)
(* Handle takes the rule set under the mutex and evaluates the rules one   *)
(* after the other, each under the mutex for as long as it reads and       *)
(* writes the rule's state. State is kept by rule name, and by service     *)
(* name for service rules, and outlives the rule set. What the publisher   *)
(* does with a message never comes back to the evaluator, so a message is  *)
(* logged here in the step that decides it.                                *)
(*                                                                         *)
(* A rule is [name, metric, breach, for, repeat]: breach is the set of     *)
(* metric values on the wrong side of its threshold. A service rule is     *)
(* [name, service, recovery, repeat]. Times are sample timestamps.         *)
(***************************************************************************)
EXTENDS Integers, SequencesExt

CONSTANTS
  RuleSets,       \* rule sets PATCH may install: [rules, services], two sequences
  Metrics,
  Missing,        \* metricValue has nothing to report (a total of 0)
  Services,
  Observations,   \* what a sample says: [metrics, services], two functions
  Steps,          \* time from one sample's timestamp to the next; negative: the clock
                  \* was set back, which timestamps in UTC show
  Never,          \* the zero time.Time
  Unknown,        \* a service without a serviceState
  MaxSamples,     \* bound on samples handled
  MaxPatches      \* bound on rule sets installed at runtime

ASSUME NeverAssumption == Never \notin Int
ASSUME StepsAssumption == Steps \subseteq Int
ASSUME RuleSetsAssumption ==
  \A s \in RuleSets :
    /\ s.rules \in Seq(ToSet(s.rules)) /\ s.services \in Seq(ToSet(s.services))
    /\ \A r \in ToSet(s.rules) :
         r.metric \in Metrics /\ Missing \notin r.breach /\ r.for \in Int /\ r.repeat \in Int
    /\ \A r \in ToSet(s.services) :
         r.service \in Services /\ r.recovery \in BOOLEAN /\ r.repeat \in Int
ASSUME ObservationsAssumption ==
  \A o \in Observations : o.services \in [Services -> {"up", "down", "absent"}]
ASSUME UnknownAssumption == Unknown \notin [running : BOOLEAN, lastFired : Int \cup {Never}]

VARIABLES
  current,        \* Evaluator.rules and Evaluator.serviceRules
  ruleStates,     \* Evaluator.ruleStates; an absent entry is a zero ruleState
  serviceStates,  \* Evaluator.serviceStates
  todo,           \* rules of the snapshot still to evaluate
  serviceTodo,    \* service rules of the snapshot still to evaluate
  history,        \* history: every sample handled, with the rule set it met
  log,            \* history: messages passed to the publisher
  patches

vars == <<current, ruleStates, serviceStates, todo, serviceTodo, history, log, patches>>

AllRules        == UNION {ToSet(s.rules) : s \in RuleSets}
AllServiceRules == UNION {ToSet(s.services) : s \in RuleSets}
RuleNames       == {r.name : r \in AllRules}

Instant    == Int \cup {Never}
RuleState ==
  {st \in [since : Instant, firing : BOOLEAN, lastFired : Instant] :
     IF st.firing THEN st.since # Never /\ st.lastFired # Never ELSE st.lastFired = Never}
ZeroState == [since |-> Never, firing |-> FALSE, lastFired |-> Never]
ServiceState == [running : BOOLEAN, lastFired : Instant]

Samples  == [at : Int, metrics : {o.metrics : o \in Observations},
             services : {o.services : o \in Observations}, set : RuleSets]
Names    == RuleNames \cup {r.name : r \in AllServiceRules}
Messages == [name : Names, sample : Nat,
             kind : {"fire", "repeat", "recovered", "down", "still down", "up"}]

sample == Last(history)

\* t.Sub(u) >= d; the zero time lies before every deadline.
AtLeast(t, u, d) == u = Never \/ t - u >= d

TypeOK ==
  /\ current \in RuleSets
  /\ ruleStates \in [RuleNames -> RuleState]
  /\ serviceStates \in [Services -> ServiceState \cup {Unknown}]
  /\ todo \in Seq(AllRules) /\ serviceTodo \in Seq(AllServiceRules)
  /\ history \in Seq(Samples) /\ log \in Seq(Messages)
  /\ patches \in Nat

Init ==
  /\ current \in RuleSets
  /\ ruleStates = [n \in RuleNames |-> ZeroState]
  /\ serviceStates = [s \in Services |-> Unknown]
  /\ todo = <<>> /\ serviceTodo = <<>>
  /\ history = <<>> /\ log = <<>>
  /\ patches = 0

-----------------------------------------------------------------------------
\* Installing the set that is already there changes nothing.
SetRules(new) ==
  /\ new # current
  /\ patches < MaxPatches
  /\ current' = new
  /\ patches' = patches + 1
  /\ UNCHANGED <<ruleStates, serviceStates, todo, serviceTodo, history, log>>

\* Handle: the next sample arrives and the rule set is snapshotted for it.
Handle(obs, dt) ==
  /\ todo = <<>> /\ serviceTodo = <<>>
  /\ Len(history) < MaxSamples
  /\ history' = Append(history,
       [at |-> (IF history = <<>> THEN 0 ELSE sample.at) + dt,
        metrics |-> obs.metrics, services |-> obs.services, set |-> current])
  /\ todo' = current.rules
  /\ serviceTodo' = current.services
  /\ UNCHANGED <<current, ruleStates, serviceStates, log, patches>>

Message(rule, kind) == [name |-> rule.name, kind |-> kind, sample |-> Len(history)]

\* A message of the given kind, or none.
Publish(rule, kind) ==
  log' = IF kind = "none" THEN log ELSE Append(log, Message(rule, kind))

-----------------------------------------------------------------------------
(* evaluateRule                                                            *)

\* Mutant: the time of the last notification is not reset.
RecoverKeepingLastFired(rule, st) ==
  /\ ruleStates' = [ruleStates EXCEPT ![rule.name] = [ZeroState EXCEPT !.lastFired = st.lastFired]]
  /\ Publish(rule, IF st.firing THEN "recovered" ELSE "none")

\* Mutant: the debounce clock is not restarted by a good sample.
RecoverKeepingSince(rule, st) ==
  /\ ruleStates' = [ruleStates EXCEPT ![rule.name] = [ZeroState EXCEPT !.since = st.since]]
  /\ Publish(rule, IF st.firing THEN "recovered" ELSE "none")

\* The condition does not hold: the state is reset, an alert is recalled.
Recover(rule, st) ==
  /\ ruleStates' = [ruleStates EXCEPT ![rule.name] = ZeroState]
  /\ Publish(rule, IF st.firing THEN "recovered" ELSE "none")

\* Mutant: a firing rule is repeated with every sample.
RepeatAlways(rule, st) == rule.repeat > 0

\* The alert is repeated no more often than RepeatInterval, if that is set.
RepeatDue(rule, st) == rule.repeat > 0 /\ AtLeast(sample.at, st.lastFired, rule.repeat)

Breach(rule, st) ==
  LET since  == IF st.since = Never THEN sample.at ELSE st.since
      first  == ~st.firing /\ AtLeast(sample.at, since, rule.for)
      repeat == st.firing /\ RepeatDue(rule, st)
      fire   == first \/ repeat
  IN /\ ruleStates' = [ruleStates EXCEPT ![rule.name] =
          [since |-> since, firing |-> st.firing \/ fire,
           lastFired |-> IF fire THEN sample.at ELSE st.lastFired]]
     /\ Publish(rule, IF repeat THEN "repeat" ELSE IF first THEN "fire" ELSE "none")

EvaluateRule ==
  /\ todo # <<>>
  /\ todo' = Tail(todo)
  /\ LET rule  == Head(todo)
         value == sample.metrics[rule.metric]
         st    == ruleStates[rule.name]
     IN \/ value = Missing /\ UNCHANGED <<ruleStates, log>>
        \/ value \in rule.breach /\ Breach(rule, st)
        \/ value \notin rule.breach \cup {Missing} /\ Recover(rule, st)
  /\ UNCHANGED <<current, serviceStates, serviceTodo, history, patches>>

-----------------------------------------------------------------------------
(* evaluateServiceRule                                                     *)

\* Mutant: only the first notice of an outage is timed.
NoticedFirst(wentDown, stillDown) == wentDown

Noticed(wentDown, stillDown) == wentDown \/ stillDown

Observe(rule, running) ==
  LET st        == serviceStates[rule.service]
      wentDown  == st.running /\ ~running
      cameUp    == ~st.running /\ running
      stillDown == ~st.running /\ ~running /\ RepeatDue(rule, st)
  IN /\ serviceStates' = [serviceStates EXCEPT ![rule.service] =
          [running |-> running,
           lastFired |-> CASE Noticed(wentDown, stillDown) -> sample.at
                           [] cameUp -> Never
                           [] OTHER  -> st.lastFired]]
     /\ Publish(rule, CASE wentDown  -> "down"
                        [] stillDown -> "still down"
                        [] cameUp /\ rule.recovery -> "up"
                        [] OTHER -> "none")

\* Mutant: a service first seen down counts as having gone down.
FirstSightAlerting(rule, running) ==
  /\ serviceStates' = [serviceStates EXCEPT ![rule.service] =
                         [running |-> running, lastFired |-> Never]]
  /\ Publish(rule, IF running THEN "none" ELSE "down")

\* The first observation of a service has nothing to compare with.
FirstSight(rule, running) ==
  /\ serviceStates' = [serviceStates EXCEPT ![rule.service] =
                         [running |-> running, lastFired |-> Never]]
  /\ UNCHANGED log

EvaluateServiceRule ==
  /\ todo = <<>> /\ serviceTodo # <<>>
  /\ serviceTodo' = Tail(serviceTodo)
  /\ LET rule == Head(serviceTodo)
         seen == sample.services[rule.service]
     IN \/ seen = "absent" /\ UNCHANGED <<serviceStates, log>>
        \/ /\ seen # "absent" /\ serviceStates[rule.service] = Unknown
           /\ FirstSight(rule, seen = "up")
        \/ /\ seen # "absent" /\ serviceStates[rule.service] # Unknown
           /\ Observe(rule, seen = "up")
  /\ UNCHANGED <<current, ruleStates, todo, history, patches>>

Next ==
  \/ \E new \in RuleSets : SetRules(new)
  \/ \E obs \in Observations, dt \in Steps : Handle(obs, dt)
  \/ EvaluateRule
  \/ EvaluateServiceRule

Spec == Init /\ [][Next]_vars

-----------------------------------------------------------------------------
(* Properties. They compare the messages sent with the samples seen, not   *)
(* with the evaluator's own state.                                         *)

evaluated == todo = <<>> /\ serviceTodo = <<>> /\ history # <<>>

\* The messages about a rule, by their place in the log.
MessagesOf(rule) == {k \in DOMAIN log : log[k].name = rule.name}

\* Nothing in the code keeps two rules from having the same name: they would
\* share a state, and whoever reads their messages could not tell them apart.
NamesStandForRules ==
  /\ \A r, q \in AllRules : r.name = q.name => r = q
  /\ \A r, q \in AllServiceRules : r.name = q.name => r = q
  /\ \A r \in AllRules, q \in AllServiceRules : r.name # q.name

\* Samples in which rule was evaluated on a value.
Evaluations(rule) ==
  {i \in DOMAIN history : /\ rule \in ToSet(history[i].set.rules)
                          /\ history[i].metrics[rule.metric] # Missing}

\* The breach that goes on now: the samples rule was evaluated on since the last
\* good one.
Breaching(rule) ==
  {i \in Evaluations(rule) :
     \A j \in Evaluations(rule) : j >= i => history[j].metrics[rule.metric] \in rule.breach}

\* After each sample, the last thing said about a rule is that it is breached
\* exactly when the samples it was evaluated on have been breaching it without
\* interruption, up to one stamped rule.for later than the first, however rule
\* sets came and went and the clock was set back meanwhile.
AlertsFollowSamples ==
  NamesStandForRules /\ evaluated => \A rule \in AllRules :
    LET said       == MessagesOf(rule)
        breach     == Breaching(rule)
        LongAgo(i) == \E j \in breach : history[j].at - history[i].at >= rule.for
    IN (said # {} /\ log[Max(said)].kind # "recovered")
         <=> (breach # {} /\ LongAgo(Min(breach)))

\* The messages of a threshold rule form episodes: fire, repeats at least
\* RepeatInterval apart and only if one is set, at most one recovery.
Episodes ==
  NamesStandForRules => \A rule \in AllRules : \A i \in MessagesOf(rule) :
    LET earlier == {j \in MessagesOf(rule) : j < i}
        before  == Max(earlier)
        ts(k)   == history[log[k].sample].at
    IN IF earlier = {} \/ log[before].kind = "recovered"
       THEN log[i].kind = "fire"
       ELSE \/ log[i].kind = "recovered"
            \/ /\ log[i].kind = "repeat"
               /\ rule.repeat > 0 /\ ts(i) - ts(before) >= rule.repeat

\* Of two rules for one service, the first takes the change away from the second.
OneRulePerService ==
  /\ \A r, q \in AllServiceRules : r.service = q.service => r = q
  /\ \A s \in RuleSets : \A i, j \in DOMAIN s.services :
       s.services[i] = s.services[j] => i = j

\* Samples in which rule was evaluated on a state of its service.
Sightings(rule) ==
  {i \in DOMAIN history : /\ rule \in ToSet(history[i].set.services)
                          /\ history[i].services[rule.service] # "absent"}

\* What was said about a rule in the evaluation of a sample.
Said(rule, i) == {log[k].kind : k \in {n \in MessagesOf(rule) : log[n].sample = i}}

\* "ServiceRule fires when a named service's Running state changes": what is
\* said after a sighting is determined by the sightings so far, nothing else.
\* The first to find the service down announces it, one that finds it up again
\* does if the rule asks for that; one that finds it still down reminds of it
\* if the rule asks for that and RepeatInterval has passed since the last notice
\* of this outage. An outage that was on when the service was first seen has not
\* been announced, so there is no notice to count from: whether reminders may
\* begin at once, as they do in the code, is left open here.
OutagesAnnounced ==
  NamesStandForRules /\ OneRulePerService /\ evaluated =>
    \A rule \in AllServiceRules : \A j \in Sightings(rule) :
      LET Is(i)   == history[i].services[rule.service]
          earlier == {i \in Sightings(rule) : i < j}
          was     == IF earlier = {} THEN "unknown" ELSE Is(Max(earlier))
          outage  == {i \in earlier : \A k \in earlier : k >= i => Is(k) = "down"}
          notices == {i \in outage : Said(rule, i) # {}}
          due     == history[j].at - history[Max(notices)].at >= rule.repeat
      IN CASE was = "up" /\ Is(j) = "down" -> Said(rule, j) = {"down"}
           [] was = "down" /\ Is(j) = "up" /\ rule.recovery -> Said(rule, j) = {"up"}
           [] was = "down" /\ Is(j) = "down" /\ rule.repeat > 0 ->
                \/ notices = {} /\ Said(rule, j) \subseteq {"still down"}
                \/ notices # {} /\ Said(rule, j) = IF due THEN {"still down"} ELSE {}
           [] OTHER -> Said(rule, j) = {}
=============================================================================
