------------------------ MODULE AlertEvaluatorProofs ------------------------
(***************************************************************************)
(* Proofs about AlertEvaluator for any rule sets, samples and timestamps:  *)
(* what has been said about a rule follows from the samples it met.        *)
(***************************************************************************)
EXTENDS AlertEvaluator, SequenceTheorems, TLAPS

\* What is left of a snapshot is left of the one taken for the last sample.
PendingInv ==
  todo # <<>> \/ serviceTodo # <<>> =>
    /\ history # <<>>
    /\ ToSet(todo) \subseteq ToSet(sample.set.rules)
    /\ ToSet(serviceTodo) \subseteq ToSet(sample.set.services)

\* A message is about a sample handled.
LogInv == \A k \in DOMAIN log : log[k].sample \in DOMAIN history

\* The greatest element of a set of integers.
Greatest(i, S) == i \in S /\ \A k \in S : k <= i

\* A rule fires exactly when the last that was said about it is an alert, and
\* then remembers when that was.
LastWordInv(rule) ==
  LET st == ruleStates[rule.name] IN
    \/ MessagesOf(rule) = {} /\ ~st.firing
    \/ \E i \in MessagesOf(rule) :
         /\ Greatest(i, MessagesOf(rule))
         /\ st.firing <=> log[i].kind # "recovered"
         /\ st.firing => st.lastFired = history[log[i].sample].at

\* The breach that went on at the n-th sample.
BreachAt(rule, n) ==
  {i \in Evaluations(rule) :
     /\ i <= n
     /\ \A j \in Evaluations(rule) :
          i <= j /\ j <= n => history[j].metrics[rule.metric] \in rule.breach}

\* The rule's state is that of the breach that goes on.
Reflects(rule, n) ==
  LET st     == ruleStates[rule.name]
      breach == BreachAt(rule, n)
  IN \/ breach = {} /\ st = ZeroState
     \/ \E i \in breach :
          /\ \A k \in breach : i <= k
          /\ st.since = history[i].at
          /\ st.firing <=> \E j \in breach : history[j].at - history[i].at >= rule.for

\* It is up to date, except for the last sample while the rule waits for it.
ReflectsInv(rule) ==
  \/ Reflects(rule, Len(history))
  \/ rule \in ToSet(todo) /\ Reflects(rule, Len(history) - 1)

\* A message says what the episode it belongs to has come to.
EpisodeInv(rule, i) ==
  LET earlier == {j \in MessagesOf(rule) : j < i}
  IN \/ earlier = {} /\ log[i].kind = "fire"
     \/ \E b \in earlier :
          /\ Greatest(b, earlier)
          /\ \/ log[b].kind = "recovered" /\ log[i].kind = "fire"
             \/ log[b].kind # "recovered" /\ log[i].kind = "recovered"
             \/ /\ log[b].kind # "recovered" /\ log[i].kind = "repeat"
                /\ rule.repeat > 0
                /\ history[log[i].sample].at - history[log[b].sample].at >= rule.repeat

RuleInv(rule) ==
  LastWordInv(rule) /\ ReflectsInv(rule) /\ \A i \in MessagesOf(rule) : EpisodeInv(rule, i)

RulesInv == NamesStandForRules => \A rule \in AllRules : RuleInv(rule)

\* The sightings of the services until the n-th sample.
SightingsTo(rule, n) == {i \in Sightings(rule) : i <= n}

\* The outage that went on at the n-th sample, and the notices given of it.
OutageAt(rule, n) ==
  {i \in SightingsTo(rule, n) :
     \A k \in SightingsTo(rule, n) : k >= i => history[k].services[rule.service] = "down"}
NoticesAt(rule, n) == {i \in OutageAt(rule, n) : Said(rule, i) # {}}

\* A service's state is that of the last sighting, and remembers the last notice
\* of the outage that goes on.
ServiceReflects(rule, n) ==
  LET st == serviceStates[rule.service]
      seen == SightingsTo(rule, n)
      notices == NoticesAt(rule, n)
  IN \/ seen = {} /\ st = Unknown
     \/ \E m \in seen :
          /\ Greatest(m, seen)
          /\ st # Unknown
          /\ st.running <=> history[m].services[rule.service] = "up"
          /\ \/ notices = {} /\ st.lastFired = Never
             \/ \E p \in notices : Greatest(p, notices) /\ st.lastFired = history[p].at

\* What is said after the j-th sample is determined by the sightings so far.
Announced(rule, j) ==
  LET Is(i)   == history[i].services[rule.service]
      earlier == SightingsTo(rule, j - 1)
      notices == NoticesAt(rule, j - 1)
      due     == \A p \in notices :
                   Greatest(p, notices) => history[j].at - history[p].at >= rule.repeat
  IN \/ earlier = {} /\ Said(rule, j) = {}
     \/ \E m \in earlier :
          /\ Greatest(m, earlier)
          /\ notices = {} \/ \E p \in notices : Greatest(p, notices)
          /\ Said(rule, j) =
               CASE Is(m) = "up" /\ Is(j) = "down" -> {"down"}
                 [] Is(m) = "down" /\ Is(j) = "up" /\ rule.recovery -> {"up"}
                 [] Is(m) = "down" /\ Is(j) = "down" /\ rule.repeat > 0 /\ due -> {"still down"}
                 [] OTHER -> {}

\* The sample up to which a service rule has been evaluated.
Done(rule) == IF rule \in ToSet(serviceTodo) THEN Len(history) - 1 ELSE Len(history)

ServiceInv(rule) ==
  /\ ServiceReflects(rule, Done(rule))
  /\ \A j \in SightingsTo(rule, Done(rule)) : Announced(rule, j)
  /\ \A k \in MessagesOf(rule) : log[k].sample <= Done(rule)

ServicesInv ==
  NamesStandForRules /\ OneRulePerService =>
    /\ \A i, j \in DOMAIN serviceTodo : serviceTodo[i] = serviceTodo[j] => i = j
    /\ \A rule \in AllServiceRules : ServiceInv(rule)

IInv == TypeOK /\ PendingInv /\ LogInv /\ RulesInv /\ ServicesInv

-----------------------------------------------------------------------------
(* Sequences and sets of integers                                          *)

\* What taking the head off a sequence leaves.
LEMMA TailFacts ==
  ASSUME NEW S, NEW s \in Seq(S), s # <<>>
  PROVE  /\ Head(s) \in S /\ Tail(s) \in Seq(S)
         /\ Head(s) \in ToSet(s)
         /\ ToSet(s) = {Head(s)} \cup ToSet(Tail(s))
         /\ (\A i, j \in DOMAIN s : s[i] = s[j] => i = j) =>
               /\ Head(s) \notin ToSet(Tail(s))
               /\ \A i, j \in DOMAIN Tail(s) : Tail(s)[i] = Tail(s)[j] => i = j
<1>1. /\ Head(s) \in S /\ Tail(s) \in Seq(S) /\ Head(s) = s[1]
      /\ Len(s) \in Nat /\ Len(s) >= 1 /\ DOMAIN s = 1..Len(s)
      /\ DOMAIN Tail(s) = 1..(Len(s) - 1)
      /\ \A i \in 1..(Len(s) - 1) : Tail(s)[i] = s[i + 1]
  BY HeadTailProperties, LenProperties, EmptySeq
<1>2. Head(s) \in ToSet(s)
  BY <1>1 DEF ToSet
<1>3. ToSet(s) \subseteq {Head(s)} \cup ToSet(Tail(s))
  <2> SUFFICES ASSUME NEW i \in DOMAIN s, i # 1 PROVE s[i] \in ToSet(Tail(s))
    BY <1>1 DEF ToSet
  <2>1. i - 1 \in 1..(Len(s) - 1) /\ (i - 1) + 1 = i
    BY <1>1
  <2>2. Tail(s)[i - 1] = s[i] /\ i - 1 \in DOMAIN Tail(s)
    BY <1>1, <2>1
  <2> QED
    BY <2>2 DEF ToSet
<1>4. ToSet(Tail(s)) \subseteq ToSet(s)
  <2> SUFFICES ASSUME NEW i \in DOMAIN Tail(s) PROVE Tail(s)[i] \in ToSet(s)
    BY DEF ToSet
  <2>1. Tail(s)[i] = s[i + 1] /\ i + 1 \in DOMAIN s
    BY <1>1
  <2> QED
    BY <2>1 DEF ToSet
<1>5. ASSUME \A i, j \in DOMAIN s : s[i] = s[j] => i = j
      PROVE  Head(s) \notin ToSet(Tail(s))
  <2> SUFFICES ASSUME NEW i \in DOMAIN Tail(s), Tail(s)[i] = Head(s) PROVE FALSE
    BY DEF ToSet
  <2>1. s[i + 1] = s[1] /\ i + 1 \in DOMAIN s /\ 1 \in DOMAIN s /\ i + 1 # 1
    BY <1>1
  <2> QED
    BY <1>5, <2>1
<1>6. ASSUME \A i, j \in DOMAIN s : s[i] = s[j] => i = j,
             NEW i \in DOMAIN Tail(s), NEW j \in DOMAIN Tail(s), Tail(s)[i] = Tail(s)[j]
      PROVE  i = j
  <2>1. s[i + 1] = s[j + 1] /\ i + 1 \in DOMAIN s /\ j + 1 \in DOMAIN s
    BY <1>1, <1>6
  <2>2. i + 1 = j + 1
    BY <1>6, <2>1
  <2> QED
    BY <1>1, <2>2
<1> QED
  BY <1>1, <1>2, <1>3, <1>4, <1>5, <1>6

\* What appending to a sequence adds.
LEMMA AppendFacts ==
  ASSUME NEW S, NEW s \in Seq(S), NEW e \in S
  PROVE  /\ Append(s, e) \in Seq(S) /\ Append(s, e) # <<>>
         /\ Len(s) \in Nat /\ DOMAIN s = 1..Len(s)
         /\ Len(Append(s, e)) = Len(s) + 1 /\ DOMAIN Append(s, e) = 1..(Len(s) + 1)
         /\ \A i \in DOMAIN s : Append(s, e)[i] = s[i]
         /\ Append(s, e)[Len(s) + 1] = e
  BY AppendProperties, LenProperties

\* An interval grows by its end.
LEMMA IntervalGrows == \A n \in Nat : 1..(n + 1) = 1..n \cup {n + 1} /\ n + 1 \notin 1..n
  OBVIOUS

\* A greatest element is the maximum, and a least one the minimum.
LEMMA MaxIs ==
  ASSUME NEW S \in SUBSET Int, NEW i, Greatest(i, S)
  PROVE  Max(S) = i
<1>1. \A x \in S : (\A y \in S : x >= y) <=> x = i
  BY DEF Greatest
<1> QED
  BY <1>1 DEF Max, Greatest

\* The same for the least element.
LEMMA MinIs ==
  ASSUME NEW S \in SUBSET Int, NEW i \in S, \A k \in S : i <= k
  PROVE  Min(S) = i
<1>1. \A x \in S : (\A y \in S : x =< y) <=> x = i
  OBVIOUS
<1> QED
  BY <1>1 DEF Min

-----------------------------------------------------------------------------
(* Types                                                                   *)

\* What a rule set is made of.
LEMMA RuleFacts ==
  /\ \A r \in AllRules : /\ r.name \in RuleNames /\ r.name \in Names
                         /\ Missing \notin r.breach /\ r.for \in Int /\ r.repeat \in Int
  /\ \A r \in AllServiceRules : /\ r.name \in Names /\ r.service \in Services
                                /\ r.recovery \in BOOLEAN /\ r.repeat \in Int
  /\ \A s \in RuleSets : /\ s.rules \in Seq(AllRules) /\ s.services \in Seq(AllServiceRules)
                         /\ ToSet(s.rules) \subseteq AllRules
                         /\ ToSet(s.services) \subseteq AllServiceRules
<1>1. \A s \in RuleSets : /\ ToSet(s.rules) \subseteq AllRules
                          /\ ToSet(s.services) \subseteq AllServiceRules
  BY DEF AllRules, AllServiceRules
<1>2. \A s \in RuleSets : s.rules \in Seq(AllRules) /\ s.services \in Seq(AllServiceRules)
  BY <1>1, RuleSetsAssumption, SeqMonotonic
<1>3. \A r \in AllRules : \E s \in RuleSets : r \in ToSet(s.rules)
  BY DEF AllRules
<1>4. \A r \in AllServiceRules : \E s \in RuleSets : r \in ToSet(s.services)
  BY DEF AllServiceRules
<1>5. \A r \in AllRules : Missing \notin r.breach /\ r.for \in Int /\ r.repeat \in Int
  BY <1>3, RuleSetsAssumption
<1>6. \A r \in AllServiceRules :
        r.service \in Services /\ r.recovery \in BOOLEAN /\ r.repeat \in Int
  BY <1>4, RuleSetsAssumption
<1>7. /\ \A r \in AllRules : r.name \in RuleNames /\ r.name \in Names
      /\ \A r \in AllServiceRules : r.name \in Names
  BY DEF Names, RuleNames
<1> QED
  BY <1>1, <1>2, <1>5, <1>6, <1>7

\* The last sample handled, as long as there is one.
LEMMA SampleFacts ==
  ASSUME TypeOK, history # <<>>
  PROVE  /\ Len(history) \in Nat /\ Len(history) >= 1 /\ DOMAIN history = 1..Len(history)
         /\ Len(history) \in DOMAIN history
         /\ sample = history[Len(history)] /\ sample \in Samples /\ sample.at \in Int
         /\ sample.set \in RuleSets
<1>1. Len(history) \in Nat /\ Len(history) >= 1 /\ DOMAIN history = 1..Len(history)
  BY LenProperties, EmptySeq DEF TypeOK
<1>2. sample = history[Len(history)]
  BY DEF sample, Last
<1>3. sample \in Samples
  BY <1>1, <1>2, ElementOfSeq DEF TypeOK
<1>4. Len(history) \in DOMAIN history
  <2>1. PICK n \in Nat : n = Len(history) /\ n >= 1 /\ DOMAIN history = 1..n
    BY <1>1
  <2> QED
    BY <2>1
<1> QED
  BY <1>1, <1>2, <1>3, <1>4 DEF Samples

\* The kinds of a message, and none.
Kinds == {"fire", "repeat", "recovered", "down", "still down", "up", "none"}

\* They are told by name.
LEMMA KindNames ==
  /\ "fire" \in Kinds /\ "repeat" \in Kinds /\ "recovered" \in Kinds
  /\ "down" \in Kinds /\ "still down" \in Kinds /\ "up" \in Kinds /\ "none" \in Kinds
  /\ \A k \in Kinds \ {"none"} :
       k \in {"fire", "repeat", "recovered", "down", "still down", "up"}
  BY DEF Kinds

\* The evaluator starts well typed.
LEMMA TypeInit == Init => TypeOK /\ PendingInv
<1> SUFFICES ASSUME Init PROVE TypeOK /\ PendingInv
  OBVIOUS
<1>1. ZeroState \in RuleState
  BY DEF ZeroState, RuleState, Instant
<1>2. /\ todo \in Seq(AllRules) /\ serviceTodo \in Seq(AllServiceRules)
      /\ history \in Seq(Samples) /\ log \in Seq(Messages)
  BY EmptySeq DEF Init
<1>3. /\ ruleStates \in [RuleNames -> RuleState] /\ current \in RuleSets /\ patches \in Nat
      /\ serviceStates \in [Services -> ServiceState \cup {Unknown}]
  BY <1>1 DEF Init
<1>4. PendingInv
  BY DEF Init, PendingInv
<1> QED
  BY <1>2, <1>3, <1>4 DEF TypeOK

\* What one more message leaves of a log.
LEMMA LogAppend ==
  ASSUME NEW s \in Seq(Messages), NEW m \in Messages
  PROVE  /\ Append(s, m) \in Seq(Messages) /\ DOMAIN Append(s, m) = 1..(Len(s) + 1)
         /\ \A k \in DOMAIN s : Append(s, m)[k] = s[k]
         /\ Append(s, m)[Len(s) + 1] = m
  BY AppendFacts

\* A message adds to the log.
LEMMA PublishFacts ==
  ASSUME TypeOK, history # <<>>,
         NEW rule \in AllRules \cup AllServiceRules,
         NEW kind \in Kinds,
         Publish(rule, kind)
  PROVE  /\ log' \in Seq(Messages)
         /\ Len(log) \in Nat /\ DOMAIN log = 1..Len(log)
         /\ kind = "none" => log' = log
         /\ kind # "none" => /\ DOMAIN log' = DOMAIN log \cup {Len(log) + 1}
                             /\ \A k \in DOMAIN log : log'[k] = log[k]
                             /\ log'[Len(log) + 1].name = rule.name
                             /\ log'[Len(log) + 1].kind = kind
                             /\ log'[Len(log) + 1].sample = Len(history)
<1>1. log \in Seq(Messages) /\ Len(log) \in Nat /\ DOMAIN log = 1..Len(log)
  BY LenProperties DEF TypeOK
<1>2. CASE kind = "none"
  BY <1>1, <1>2 DEF Publish
<1>3. CASE kind # "none"
  <2>1. PICK n \in Nat : n = Len(history)
    BY SampleFacts
  <2>2. PICK m : m = [name |-> rule.name, kind |-> kind, sample |-> n]
    OBVIOUS
  <2>3. m \in Messages /\ m.name = rule.name /\ m.kind = kind /\ m.sample = n
    BY <1>3, <2>2, RuleFacts, KindNames DEF Messages
  <2>4. log' = Append(log, m)
    BY <1>3, <2>1, <2>2 DEF Publish, Message
  <2>5. PICK s \in Seq(Messages) : s = log
    BY <1>1
  <2>6. /\ Append(s, m) \in Seq(Messages) /\ DOMAIN Append(s, m) = 1..(Len(s) + 1)
        /\ \A k \in DOMAIN s : Append(s, m)[k] = s[k]
        /\ Append(s, m)[Len(s) + 1] = m
    BY <2>3, LogAppend
  <2>7. 1..(Len(log) + 1) = DOMAIN log \cup {Len(log) + 1}
    <3>1. PICK k \in Nat : k = Len(log)
      BY <1>1
    <3>2. 1..(k + 1) = 1..k \cup {k + 1}
      BY IntervalGrows
    <3> QED
      BY <1>1, <3>1, <3>2
  <2> QED
    BY <1>1, <1>3, <2>1, <2>3, <2>4, <2>5, <2>6, <2>7
<1> QED
  BY <1>2, <1>3

\* What a sample that breaches a rule does to its state, and says.
LEMMA BreachFacts ==
  ASSUME TypeOK, history # <<>>, NEW rule \in AllRules, NEW st,
         st = ruleStates[rule.name], Breach(rule, st)
  PROVE  \E new \in RuleState :
           /\ ruleStates' = [ruleStates EXCEPT ![rule.name] = new]
           /\ new.since = IF st.since = Never THEN sample.at ELSE st.since
           /\ new.firing <=> st.firing \/ sample.at - new.since >= rule.for
           /\ \/ /\ Publish(rule, "none")
                 /\ new.firing = st.firing /\ new.lastFired = st.lastFired
              \/ /\ Publish(rule, "fire")
                 /\ ~st.firing /\ new.firing /\ new.lastFired = sample.at
              \/ /\ Publish(rule, "repeat")
                 /\ st.firing /\ new.firing /\ new.lastFired = sample.at
                 /\ rule.repeat > 0 /\ sample.at - st.lastFired >= rule.repeat
<1> DEFINE since  == IF st.since = Never THEN sample.at ELSE st.since
           first  == ~st.firing /\ AtLeast(sample.at, since, rule.for)
           repeat == st.firing /\ RepeatDue(rule, st)
           new    == [since |-> since, firing |-> st.firing \/ first \/ repeat,
                      lastFired |-> IF first \/ repeat THEN sample.at ELSE st.lastFired]
<1>1. /\ ruleStates' = [ruleStates EXCEPT ![rule.name] = new]
      /\ Publish(rule, IF repeat THEN "repeat" ELSE IF first THEN "fire" ELSE "none")
  BY DEF Breach
<1>2. st \in RuleState /\ sample.at \in Int /\ rule.for \in Int /\ rule.repeat \in Int
  BY SampleFacts, RuleFacts DEF TypeOK
<1>3. /\ st.since \in Instant /\ st.lastFired \in Instant /\ st.firing \in BOOLEAN
      /\ st.firing => st.since # Never /\ st.lastFired # Never
      /\ ~st.firing => st.lastFired = Never
  BY <1>2 DEF RuleState
<1>4. since \in Int /\ since # Never /\ sample.at # Never
  BY <1>2, <1>3, NeverAssumption DEF Instant
<1>5. first <=> ~st.firing /\ sample.at - since >= rule.for
  BY <1>4 DEF AtLeast
<1>6. repeat <=> st.firing /\ rule.repeat > 0 /\ sample.at - st.lastFired >= rule.repeat
  BY <1>3 DEF RepeatDue, AtLeast
<1> HIDE DEF since, first, repeat
<1>7. first \in BOOLEAN /\ repeat \in BOOLEAN
  BY <1>5, <1>6
<1>8. new \in [since : Instant, firing : BOOLEAN, lastFired : Instant]
  BY <1>2, <1>3, <1>4 DEF Instant
<1>9. IF new.firing THEN new.since # Never /\ new.lastFired # Never ELSE new.lastFired = Never
  BY <1>3, <1>4, <1>5, <1>6
<1>10. new \in RuleState
  BY <1>8, <1>9 DEF RuleState
<1>11. new.since = since /\ (new.firing <=> st.firing \/ first \/ repeat)
       /\ new.lastFired = IF first \/ repeat THEN sample.at ELSE st.lastFired
  OBVIOUS
<1> HIDE DEF new
<1>12. new.firing <=> st.firing \/ sample.at - new.since >= rule.for
  BY <1>5, <1>6, <1>11
<1>13. new.since = IF st.since = Never THEN sample.at ELSE st.since
  BY <1>11 DEF since
<1>14. CASE repeat
  <2>1. /\ Publish(rule, "repeat") /\ st.firing /\ new.firing /\ new.lastFired = sample.at
        /\ rule.repeat > 0 /\ sample.at - st.lastFired >= rule.repeat
    BY <1>1, <1>6, <1>11, <1>14
  <2> QED
    BY <1>1, <1>10, <1>12, <1>13, <2>1
<1>15. CASE ~repeat /\ first
  <2>1. Publish(rule, "fire") /\ ~st.firing /\ new.firing /\ new.lastFired = sample.at
    BY <1>1, <1>5, <1>11, <1>15
  <2> QED
    BY <1>1, <1>10, <1>12, <1>13, <2>1
<1>16. CASE ~repeat /\ ~first
  <2>1. new.firing <=> st.firing
    BY <1>11, <1>16
  <2>2. new.firing = st.firing
    BY <1>3, <1>10, <2>1 DEF RuleState
  <2>3. Publish(rule, "none") /\ new.lastFired = st.lastFired
    BY <1>1, <1>11, <1>16
  <2> QED
    BY <1>1, <1>10, <1>12, <1>13, <2>2, <2>3
<1> QED
  BY <1>14, <1>15, <1>16

\* What a good sample does to the state of a rule, and says.
LEMMA RecoverFacts ==
  ASSUME TypeOK, NEW rule \in AllRules, NEW st, st = ruleStates[rule.name], Recover(rule, st)
  PROVE  /\ ZeroState \in RuleState /\ st.firing \in BOOLEAN
         /\ ruleStates' = [ruleStates EXCEPT ![rule.name] = ZeroState]
         /\ \/ st.firing /\ Publish(rule, "recovered")
            \/ ~st.firing /\ Publish(rule, "none")
<1>1. ZeroState \in RuleState
  BY DEF ZeroState, RuleState, Instant
<1>2. st.firing \in BOOLEAN
  BY RuleFacts DEF TypeOK, RuleState
<1>3. CASE st.firing
  BY <1>1, <1>2, <1>3 DEF Recover
<1>4. CASE ~st.firing
  BY <1>1, <1>2, <1>4 DEF Recover
<1> QED
  BY <1>2, <1>3, <1>4

\* Observe as EvaluateServiceRule calls it.
Sighted(rule, seen) == Observe(rule, seen = "up")

\* What it makes of the state of the service, and says.
Outcome(rule, seen, st, new, kind) ==
  \/ /\ st.running /\ seen # "up" /\ ~new.running
     /\ kind = "down" /\ new.lastFired = sample.at
  \/ /\ ~st.running /\ seen = "up" /\ new.running
     /\ kind = (IF rule.recovery THEN "up" ELSE "none") /\ new.lastFired = Never
  \/ /\ ~st.running /\ seen # "up" /\ ~new.running /\ RepeatDue(rule, st)
     /\ kind = "still down" /\ new.lastFired = sample.at
  \/ /\ ~st.running /\ seen # "up" /\ ~new.running /\ ~RepeatDue(rule, st)
     /\ kind = "none" /\ new.lastFired = st.lastFired
  \/ /\ st.running /\ seen = "up" /\ new.running
     /\ kind = "none" /\ new.lastFired = st.lastFired

\* A sighting of a service seen before comes out that way.
LEMMA ObserveFacts ==
  ASSUME TypeOK, history # <<>>, NEW rule \in AllServiceRules, NEW seen,
         NEW st, st = serviceStates[rule.service], st # Unknown, Sighted(rule, seen)
  PROVE  \E new \in ServiceState, kind \in Kinds :
           /\ serviceStates' \in [Services -> ServiceState \cup {Unknown}]
           /\ serviceStates'[rule.service] = new
           /\ \A s \in Services : s # rule.service => serviceStates'[s] = serviceStates[s]
           /\ Publish(rule, kind)
           /\ Outcome(rule, seen, st, new, kind)
<1> DEFINE running   == seen = "up"
           wentDown  == st.running /\ ~running
           cameUp    == ~st.running /\ running
           stillDown == ~st.running /\ ~running /\ RepeatDue(rule, st)
           fired     == CASE Noticed(wentDown, stillDown) -> sample.at
                          [] cameUp -> Never
                          [] OTHER  -> st.lastFired
           new       == [running |-> running, lastFired |-> fired]
           say       == CASE wentDown  -> "down"
                          [] stillDown -> "still down"
                          [] cameUp /\ rule.recovery -> "up"
                          [] OTHER -> "none"
<1>1. /\ serviceStates' = [serviceStates EXCEPT ![rule.service] = new]
      /\ Publish(rule, say)
  BY DEF Observe, Sighted
<1>2. st \in ServiceState /\ sample.at \in Int /\ rule.recovery \in BOOLEAN
  BY SampleFacts, RuleFacts DEF TypeOK
<1>3. ASSUME new \in ServiceState
      PROVE  /\ serviceStates' \in [Services -> ServiceState \cup {Unknown}]
             /\ serviceStates'[rule.service] = new
             /\ \A s \in Services : s # rule.service => serviceStates'[s] = serviceStates[s]
  <2> HIDE DEF new
  <2> QED
    BY <1>1, <1>3, RuleFacts DEF TypeOK
<1>4. st.running \in BOOLEAN /\ st.lastFired \in Instant
  BY <1>2 DEF ServiceState
<1> HIDE DEF new, fired, say
<1>5. CASE wentDown
  <2>1. fired = sample.at /\ say = "down"
    BY <1>5 DEF fired, say, Noticed
  <2>2. new \in ServiceState /\ new.running = running /\ new.lastFired = sample.at
    BY <1>2, <2>1 DEF new, ServiceState, Instant
  <2> QED
    BY <1>1, <1>3, <1>5, <2>1, <2>2, KindNames DEF Outcome
<1>6. CASE cameUp
  <2>1. fired = Never /\ say = IF rule.recovery THEN "up" ELSE "none"
    BY <1>2, <1>6 DEF fired, say, Noticed
  <2>2. new \in ServiceState /\ new.running = running /\ new.lastFired = Never
    BY <2>1 DEF new, ServiceState, Instant
  <2> QED
    BY <1>1, <1>3, <1>6, <2>1, <2>2, KindNames DEF Outcome
<1>7. CASE stillDown
  <2>1. fired = sample.at /\ say = "still down"
    BY <1>7 DEF fired, say, Noticed
  <2>2. new \in ServiceState /\ new.running = running /\ new.lastFired = sample.at
    BY <1>2, <2>1 DEF new, ServiceState, Instant
  <2> QED
    BY <1>1, <1>3, <1>7, <2>1, <2>2, KindNames DEF Outcome
<1>8. CASE ~wentDown /\ ~cameUp /\ ~stillDown
  <2>1. fired = st.lastFired /\ say = "none"
    BY <1>8 DEF fired, say, Noticed
  <2>2. new \in ServiceState /\ new.running = running /\ new.lastFired = st.lastFired
    BY <1>4, <2>1 DEF new, ServiceState
  <2>3. \/ ~st.running /\ ~running /\ ~RepeatDue(rule, st)
        \/ st.running /\ running
    BY <1>4, <1>8
  <2> QED
    BY <1>1, <1>3, <2>1, <2>2, <2>3, KindNames DEF Outcome
<1> QED
  BY <1>5, <1>6, <1>7, <1>8

\* One more sample, met by the rules of the moment.
LEMMA HandleFacts ==
  ASSUME TypeOK, NEW obs \in Observations, NEW dt \in Steps, Handle(obs, dt)
  PROVE  /\ history' \in Seq(Samples) /\ history' # <<>>
         /\ Len(history) \in Nat /\ DOMAIN history = 1..Len(history)
         /\ Len(history') = Len(history) + 1 /\ DOMAIN history' = 1..(Len(history) + 1)
         /\ \A i \in DOMAIN history : history'[i] = history[i]
         /\ sample' = history'[Len(history) + 1]
         /\ sample'.set = current
         /\ todo' = current.rules /\ serviceTodo' = current.services
<1> DEFINE at == (IF history = <<>> THEN 0 ELSE sample.at) + dt
           new == [at |-> at, metrics |-> obs.metrics, services |-> obs.services,
                   set |-> current]
<1>1. at \in Int
  BY SampleFacts, StepsAssumption
<1>2. new \in Samples /\ new.set = current
  BY <1>1 DEF TypeOK, Samples
<1>3. PICK h \in Seq(Samples) : h = history
  BY DEF TypeOK
<1>4. PICK e \in Samples : e = new
  BY <1>2
<1>5. history' = Append(h, e)
  BY <1>3, <1>4 DEF Handle
<1>6. /\ history' \in Seq(Samples) /\ history' # <<>>
      /\ Len(h) \in Nat /\ DOMAIN h = 1..Len(h)
      /\ Len(history') = Len(h) + 1 /\ DOMAIN history' = 1..(Len(h) + 1)
      /\ \A i \in DOMAIN h : history'[i] = h[i]
      /\ history'[Len(h) + 1] = e
  BY <1>5, AppendFacts
<1>7. sample' = history'[Len(history) + 1]
  BY <1>3, <1>6 DEF sample, Last
<1>8. sample'.set = current
  BY <1>2, <1>3, <1>4, <1>6, <1>7
<1> QED
  BY <1>3, <1>6, <1>7, <1>8 DEF Handle

\* Evaluating a rule takes the next one of the snapshot.
LEMMA EvaluateFacts ==
  ASSUME TypeOK, PendingInv, EvaluateRule
  PROVE  \E rule \in AllRules :
           /\ todo' \in Seq(AllRules) /\ rule \in ToSet(todo)
           /\ rule \in ToSet(sample.set.rules) /\ history # <<>>
           /\ ToSet(todo) = {rule} \cup ToSet(todo')
           /\ LET value == sample.metrics[rule.metric]
                  st    == ruleStates[rule.name]
              IN \/ value = Missing /\ UNCHANGED <<ruleStates, log>>
                 \/ value \in rule.breach /\ value # Missing /\ Breach(rule, st)
                 \/ value \notin rule.breach /\ value # Missing /\ Recover(rule, st)
           /\ UNCHANGED <<current, serviceStates, serviceTodo, history, patches, sample>>
<1>1. todo \in Seq(AllRules) /\ todo # <<>> /\ todo' = Tail(todo)
  BY DEF EvaluateRule, TypeOK
<1>2. PICK rule \in AllRules : rule = Head(todo)
  BY <1>1, TailFacts
<1>3. /\ todo' \in Seq(AllRules) /\ rule \in ToSet(todo)
      /\ ToSet(todo) = {rule} \cup ToSet(todo')
  BY <1>1, <1>2, TailFacts
<1>4. rule \in ToSet(sample.set.rules) /\ history # <<>>
  BY <1>1, <1>3 DEF PendingInv
<1>5. LET value == sample.metrics[rule.metric]
          st    == ruleStates[rule.name]
      IN \/ value = Missing /\ UNCHANGED <<ruleStates, log>>
         \/ value \in rule.breach /\ value # Missing /\ Breach(rule, st)
         \/ value \notin rule.breach /\ value # Missing /\ Recover(rule, st)
  BY <1>2, RuleFacts DEF EvaluateRule
<1>6. UNCHANGED <<current, serviceStates, serviceTodo, history, patches>>
  BY DEF EvaluateRule
<1>7. UNCHANGED sample
  BY <1>6 DEF sample, Last
<1> QED
  BY <1>3, <1>4, <1>5, <1>6, <1>7

\* So does evaluating a service rule, after the others.
LEMMA EvaluateServiceFacts ==
  ASSUME TypeOK, PendingInv, EvaluateServiceRule
  PROVE  \E rule \in AllServiceRules :
           /\ serviceTodo' \in Seq(AllServiceRules) /\ rule \in ToSet(serviceTodo)
           /\ rule \in ToSet(sample.set.services) /\ history # <<>>
           /\ ToSet(serviceTodo) = {rule} \cup ToSet(serviceTodo')
           /\ (\A i, j \in DOMAIN serviceTodo : serviceTodo[i] = serviceTodo[j] => i = j) =>
                /\ rule \notin ToSet(serviceTodo')
                /\ (\A i, j \in DOMAIN serviceTodo :
                      serviceTodo[i] = serviceTodo[j] => i = j)'
           /\ LET seen == sample.services[rule.service]
                  st   == serviceStates[rule.service]
              IN \/ seen = "absent" /\ UNCHANGED <<serviceStates, log>>
                 \/ seen # "absent" /\ st = Unknown /\ FirstSight(rule, seen = "up")
                 \/ seen # "absent" /\ st # Unknown /\ Sighted(rule, seen)
           /\ UNCHANGED <<current, ruleStates, todo, history, patches, sample>>
<1>1. /\ serviceTodo \in Seq(AllServiceRules) /\ serviceTodo # <<>>
      /\ serviceTodo' = Tail(serviceTodo)
  BY DEF EvaluateServiceRule, TypeOK
<1>2. PICK rule \in AllServiceRules : rule = Head(serviceTodo)
  BY <1>1, TailFacts
<1>3. /\ serviceTodo' \in Seq(AllServiceRules) /\ rule \in ToSet(serviceTodo)
      /\ ToSet(serviceTodo) = {rule} \cup ToSet(serviceTodo')
  BY <1>1, <1>2, TailFacts
<1>4. (\A i, j \in DOMAIN serviceTodo : serviceTodo[i] = serviceTodo[j] => i = j) =>
        /\ rule \notin ToSet(serviceTodo')
        /\ \A i, j \in DOMAIN serviceTodo' : serviceTodo'[i] = serviceTodo'[j] => i = j
  BY <1>1, <1>2, TailFacts
<1>5. rule \in ToSet(sample.set.services) /\ history # <<>>
  BY <1>1, <1>3 DEF PendingInv
<1>6. LET seen == sample.services[rule.service]
          st   == serviceStates[rule.service]
      IN \/ seen = "absent" /\ UNCHANGED <<serviceStates, log>>
         \/ seen # "absent" /\ st = Unknown /\ FirstSight(rule, seen = "up")
         \/ seen # "absent" /\ st # Unknown /\ Sighted(rule, seen)
  BY <1>2 DEF EvaluateServiceRule, Sighted
<1>7. UNCHANGED <<current, ruleStates, todo, history, patches>>
  BY DEF EvaluateServiceRule
<1>8. UNCHANGED sample
  BY <1>7 DEF sample, Last
<1> QED
  BY <1>3, <1>4, <1>5, <1>6, <1>7, <1>8

\* Every step keeps the types, and what is left to evaluate within the snapshot.
LEMMA TypeStep ==
  ASSUME TypeOK, PendingInv, [Next]_vars
  PROVE  TypeOK' /\ PendingInv'
<1>1. ASSUME NEW new \in RuleSets, SetRules(new)
      PROVE  TypeOK' /\ PendingInv'
  <2>1. /\ current' \in RuleSets /\ patches' \in Nat
        /\ UNCHANGED <<ruleStates, serviceStates, todo, serviceTodo, history, log>>
    BY <1>1 DEF SetRules, TypeOK
  <2>2. UNCHANGED sample
    BY <2>1 DEF sample, Last
  <2> QED
    BY <2>1, <2>2 DEF TypeOK, PendingInv
<1>2. ASSUME NEW obs \in Observations, NEW dt \in Steps, Handle(obs, dt)
      PROVE  TypeOK' /\ PendingInv'
  <2>1. /\ history' \in Seq(Samples) /\ history' # <<>> /\ sample'.set = current
        /\ todo' = current.rules /\ serviceTodo' = current.services
    BY <1>2, HandleFacts
  <2>2. todo' \in Seq(AllRules) /\ serviceTodo' \in Seq(AllServiceRules)
    BY <2>1, RuleFacts DEF TypeOK
  <2>3. UNCHANGED <<current, ruleStates, serviceStates, log, patches>>
    BY <1>2 DEF Handle
  <2>4. TypeOK'
    BY <2>1, <2>2, <2>3 DEF TypeOK
  <2>5. PendingInv'
    BY <2>1 DEF PendingInv
  <2> QED
    BY <2>4, <2>5
<1>3. CASE EvaluateRule
  <2>1. PICK rule \in AllRules :
          /\ todo' \in Seq(AllRules)
          /\ rule \in ToSet(todo) /\ history # <<>>
          /\ ToSet(todo) = {rule} \cup ToSet(todo')
          /\ LET value == sample.metrics[rule.metric]
                 st    == ruleStates[rule.name]
             IN \/ value = Missing /\ UNCHANGED <<ruleStates, log>>
                \/ value \in rule.breach /\ value # Missing /\ Breach(rule, st)
                \/ value \notin rule.breach /\ value # Missing /\ Recover(rule, st)
          /\ UNCHANGED <<current, serviceStates, serviceTodo, history, patches, sample>>
    BY <1>3, EvaluateFacts
  <2>2. ruleStates' \in [RuleNames -> RuleState] /\ log' \in Seq(Messages)
    <3>1. CASE UNCHANGED <<ruleStates, log>>
      BY <3>1 DEF TypeOK
    <3>2. CASE Breach(rule, ruleStates[rule.name])
      <4>1. PICK new \in RuleState, kind \in Kinds :
              /\ ruleStates' = [ruleStates EXCEPT ![rule.name] = new]
              /\ Publish(rule, kind)
        BY <2>1, <3>2, BreachFacts, KindNames
      <4> QED
        BY <2>1, <4>1, PublishFacts, RuleFacts DEF TypeOK
    <3>3. CASE Recover(rule, ruleStates[rule.name])
      <4>1. PICK kind \in Kinds :
              /\ ZeroState \in RuleState
              /\ ruleStates' = [ruleStates EXCEPT ![rule.name] = ZeroState]
              /\ Publish(rule, kind)
        BY <3>3, RecoverFacts, KindNames
      <4> QED
        BY <2>1, <4>1, PublishFacts, RuleFacts DEF TypeOK
    <3> QED
      BY <2>1, <3>1, <3>2, <3>3
  <2>3. TypeOK'
    BY <2>1, <2>2 DEF TypeOK
  <2>4. todo # <<>>
    BY <1>3 DEF EvaluateRule
  <2>5. PendingInv'
    BY <2>1, <2>4 DEF PendingInv
  <2> QED
    BY <2>3, <2>5
<1>4. CASE EvaluateServiceRule
  <2>1. PICK rule \in AllServiceRules :
          /\ serviceTodo' \in Seq(AllServiceRules)
          /\ rule \in ToSet(serviceTodo) /\ history # <<>>
          /\ ToSet(serviceTodo) = {rule} \cup ToSet(serviceTodo')
          /\ LET seen == sample.services[rule.service]
                 st   == serviceStates[rule.service]
             IN \/ seen = "absent" /\ UNCHANGED <<serviceStates, log>>
                \/ seen # "absent" /\ st = Unknown /\ FirstSight(rule, seen = "up")
                \/ seen # "absent" /\ st # Unknown /\ Sighted(rule, seen)
          /\ UNCHANGED <<current, ruleStates, todo, history, patches, sample>>
    BY <1>4, EvaluateServiceFacts
  <2>2. /\ serviceStates' \in [Services -> ServiceState \cup {Unknown}]
        /\ log' \in Seq(Messages)
    <3>1. CASE UNCHANGED <<serviceStates, log>>
      BY <3>1 DEF TypeOK
    <3>2. CASE FirstSight(rule, sample.services[rule.service] = "up")
      BY <3>2, RuleFacts DEF FirstSight, ServiceState, Instant, TypeOK
    <3>3. CASE /\ serviceStates[rule.service] # Unknown
               /\ Sighted(rule, sample.services[rule.service])
      <4>1. PICK kind \in Kinds :
              /\ serviceStates' \in [Services -> ServiceState \cup {Unknown}]
              /\ Publish(rule, kind)
        <5>1. PICK st, seen :
                st = serviceStates[rule.service] /\ seen = sample.services[rule.service]
          OBVIOUS
        <5>2. st # Unknown /\ Sighted(rule, seen) /\ history # <<>>
          BY <2>1, <3>3, <5>1
        <5> QED
          BY <5>1, <5>2, ObserveFacts
      <4> QED
        BY <2>1, <4>1, PublishFacts, RuleFacts DEF TypeOK
    <3> QED
      BY <2>1, <3>1, <3>2, <3>3
  <2>3. TypeOK'
    BY <2>1, <2>2 DEF TypeOK
  <2>4. serviceTodo # <<>>
    BY <1>4 DEF EvaluateServiceRule
  <2>5. PendingInv'
    BY <2>1, <2>4 DEF PendingInv
  <2> QED
    BY <2>3, <2>5
<1>5. CASE UNCHANGED vars
  <2>1. UNCHANGED sample
    BY <1>5 DEF vars, sample, Last
  <2> QED
    BY <1>5, <2>1 DEF vars, TypeOK, PendingInv
<1> QED
  BY <1>1, <1>2, <1>3, <1>4, <1>5 DEF Next

\* The evaluator's state stays well typed: a rule fires if and only if it has a
\* notification to remember, since evaluateRule (alerts.go) resets both together.
THEOREM TypeCorrect == Spec => []TypeOK
<1>1. Init => TypeOK /\ PendingInv
  BY TypeInit
<1>2. TypeOK /\ PendingInv /\ [Next]_vars => TypeOK' /\ PendingInv'
  BY TypeStep
<1> QED
  BY <1>1, <1>2, PTL DEF Spec

-----------------------------------------------------------------------------
(* Threshold rules                                                         *)

\* What has been handled has a timestamp.
LEMMA Timestamps ==
  ASSUME TypeOK
  PROVE  /\ Len(history) \in Nat /\ DOMAIN history = 1..Len(history)
         /\ \A i \in DOMAIN history : history[i] \in Samples /\ history[i].at \in Int
<1>1. Len(history) \in Nat /\ DOMAIN history = 1..Len(history)
  BY LenProperties DEF TypeOK
<1>2. \A i \in DOMAIN history : history[i] \in Samples
  BY <1>1, ElementOfSeq DEF TypeOK
<1> QED
  BY <1>1, <1>2 DEF Samples

\* The messages about a rule after one more message.
LEMMA MessagesGrow ==
  ASSUME TypeOK, history # <<>>,
         NEW rule \in AllRules \cup AllServiceRules,
         NEW kind \in Kinds,
         Publish(rule, kind), NEW q
  PROVE  /\ Len(log) \in Nat /\ DOMAIN log = 1..Len(log) /\ MessagesOf(q) \subseteq DOMAIN log
         /\ \A k \in DOMAIN log : log'[k] = log[k]
         /\ kind = "none" \/ q.name # rule.name => MessagesOf(q)' = MessagesOf(q)
         /\ kind # "none" /\ q.name = rule.name =>
              /\ MessagesOf(q)' = MessagesOf(q) \cup {Len(log) + 1}
              /\ log'[Len(log) + 1].kind = kind
              /\ log'[Len(log) + 1].sample = Len(history)
<1>1. PICK n \in Nat :
        /\ n = Len(log) /\ DOMAIN log = 1..n
        /\ kind = "none" => log' = log
        /\ kind # "none" => /\ DOMAIN log' = DOMAIN log \cup {n + 1}
                            /\ \A k \in DOMAIN log : log'[k] = log[k]
                            /\ log'[n + 1].name = rule.name
                            /\ log'[n + 1].kind = kind
                            /\ log'[n + 1].sample = Len(history)
  BY PublishFacts
<1>2. MessagesOf(q) \subseteq DOMAIN log
  BY DEF MessagesOf
<1>3. CASE kind = "none"
  BY <1>1, <1>2, <1>3 DEF MessagesOf
<1>4. CASE kind # "none"
  <2>1. q.name # rule.name => MessagesOf(q)' = MessagesOf(q)
    BY <1>1, <1>4 DEF MessagesOf
  <2>2. q.name = rule.name => MessagesOf(q)' = MessagesOf(q) \cup {n + 1}
    BY <1>1, <1>4 DEF MessagesOf
  <2> QED
    BY <1>1, <1>2, <1>4, <2>1, <2>2
<1> QED
  BY <1>3, <1>4

\* A message is about the sample that led to it.
LEMMA LogStep ==
  ASSUME TypeOK, LogInv, history # <<>>, UNCHANGED history,
         NEW rule \in AllRules \cup AllServiceRules,
         NEW kind \in Kinds,
         Publish(rule, kind)
  PROVE  LogInv'
<1>1. PICK h : h = Len(history) /\ h \in DOMAIN history
  BY SampleFacts
<1>2. PICK n :
        /\ n = Len(log) + 1
        /\ kind = "none" => log' = log
        /\ kind # "none" => /\ DOMAIN log' = DOMAIN log \cup {n}
                            /\ \A k \in DOMAIN log : log'[k] = log[k]
                            /\ log'[n].sample = h
  BY <1>1, PublishFacts
<1>3. CASE kind = "none"
  BY <1>2, <1>3 DEF LogInv
<1>4. CASE kind # "none"
  BY <1>1, <1>2, <1>4 DEF LogInv
<1> QED
  BY <1>3, <1>4

\* What is said about others and to others leaves a rule's last word alone.
LEMMA LastWordFrame ==
  ASSUME NEW rule, MessagesOf(rule)' = MessagesOf(rule),
         \A k \in MessagesOf(rule) :
           log'[k] = log[k] /\ history'[log[k].sample] = history[log[k].sample],
         ruleStates'[rule.name].firing <=> ruleStates[rule.name].firing,
         ruleStates[rule.name].firing =>
           ruleStates'[rule.name].lastFired = ruleStates[rule.name].lastFired,
         LastWordInv(rule)
  PROVE  LastWordInv(rule)'
<1>1. CASE MessagesOf(rule) = {} /\ ~ruleStates[rule.name].firing
  BY <1>1 DEF LastWordInv
<1>2. ASSUME NEW i \in MessagesOf(rule), Greatest(i, MessagesOf(rule)),
             ruleStates[rule.name].firing <=> log[i].kind # "recovered",
             ruleStates[rule.name].firing =>
               ruleStates[rule.name].lastFired = history[log[i].sample].at
      PROVE  LastWordInv(rule)'
  BY <1>2 DEF LastWordInv, Greatest
<1> QED
  BY <1>1, <1>2 DEF LastWordInv

\* Later messages do not change what an episode has come to.
LEMMA EpisodeFrame ==
  ASSUME NEW rule, NEW i \in MessagesOf(rule), MessagesOf(rule) \subseteq Int,
         {j \in MessagesOf(rule)' : j < i} = {j \in MessagesOf(rule) : j < i},
         \A k \in MessagesOf(rule) :
           log'[k] = log[k] /\ history'[log[k].sample] = history[log[k].sample],
         EpisodeInv(rule, i)
  PROVE  EpisodeInv(rule, i)'
<1> DEFINE earlier == {j \in MessagesOf(rule) : j < i}
<1>1. CASE earlier = {} /\ log[i].kind = "fire"
  BY <1>1 DEF EpisodeInv
<1>2. ASSUME NEW b \in earlier, Greatest(b, earlier),
             \/ log[b].kind = "recovered" /\ log[i].kind = "fire"
             \/ log[b].kind # "recovered" /\ log[i].kind = "recovered"
             \/ /\ log[b].kind # "recovered" /\ log[i].kind = "repeat"
                /\ rule.repeat > 0
                /\ history[log[i].sample].at - history[log[b].sample].at >= rule.repeat
      PROVE  EpisodeInv(rule, i)'
  <2>1. log'[b] = log[b] /\ log'[i] = log[i]
        /\ history'[log[i].sample] = history[log[i].sample]
        /\ history'[log[b].sample] = history[log[b].sample]
    OBVIOUS
  <2>2. b \in {j \in MessagesOf(rule)' : j < i} /\ Greatest(b, {j \in MessagesOf(rule)' : j < i})
    BY <1>2
  <2> QED
    BY <1>2, <2>1, <2>2 DEF EpisodeInv, Greatest
<1> QED
  BY <1>1, <1>2 DEF EpisodeInv

\* A step that says nothing about a rule and keeps what it remembers.
Quiet(rule) ==
  /\ MessagesOf(rule)' = MessagesOf(rule)
  /\ \A k \in DOMAIN log : log'[k] = log[k]
  /\ \A i \in DOMAIN history : history'[i] = history[i]

\* The rule's story goes on unchanged.
LEMMA StoryFrame ==
  ASSUME TypeOK, LogInv, NEW rule, Quiet(rule),
         ruleStates'[rule.name].firing <=> ruleStates[rule.name].firing,
         ruleStates[rule.name].firing =>
           ruleStates'[rule.name].lastFired = ruleStates[rule.name].lastFired,
         LastWordInv(rule), \A i \in MessagesOf(rule) : EpisodeInv(rule, i)
  PROVE  LastWordInv(rule)' /\ \A i \in MessagesOf(rule)' : EpisodeInv(rule, i)'
<1>1. MessagesOf(rule) \subseteq DOMAIN log /\ DOMAIN log \subseteq Int
  BY LenProperties DEF MessagesOf, TypeOK
<1>2. \A k \in MessagesOf(rule) :
        log'[k] = log[k] /\ history'[log[k].sample] = history[log[k].sample]
  BY <1>1 DEF LogInv, Quiet
<1>3. LastWordInv(rule)'
  BY <1>2, LastWordFrame DEF Quiet
<1>4. ASSUME NEW i \in MessagesOf(rule)' PROVE EpisodeInv(rule, i)'
  <2>1. i \in MessagesOf(rule) /\ EpisodeInv(rule, i)
    BY DEF Quiet
  <2>2. {j \in MessagesOf(rule)' : j < i} = {j \in MessagesOf(rule) : j < i}
    BY DEF Quiet
  <2> QED
    BY <1>1, <1>2, <2>1, <2>2, EpisodeFrame
<1> QED
  BY <1>3, <1>4

\* A rule speaks: the message fits the last one, and becomes the last.
LEMMA StorySpeak ==
  ASSUME TypeOK, LogInv, history # <<>>, NEW rule \in AllRules,
         NEW kind \in Kinds, Publish(rule, kind), UNCHANGED history,
         NEW old, NEW new, old = ruleStates[rule.name], new = ruleStates'[rule.name],
         \/ kind = "fire" /\ ~old.firing /\ new.firing /\ new.lastFired = sample.at
         \/ /\ kind = "repeat" /\ old.firing /\ new.firing /\ new.lastFired = sample.at
            /\ rule.repeat > 0 /\ sample.at - old.lastFired >= rule.repeat
         \/ kind = "recovered" /\ old.firing /\ ~new.firing,
         LastWordInv(rule), \A i \in MessagesOf(rule) : EpisodeInv(rule, i)
  PROVE  LastWordInv(rule)' /\ \A i \in MessagesOf(rule)' : EpisodeInv(rule, i)'
<1>1. PICK n \in Nat, h \in DOMAIN history :
        /\ n = Len(log) + 1 /\ h = Len(history) /\ sample = history[h]
        /\ DOMAIN log = 1..Len(log) /\ Len(log) \in Nat
  BY SampleFacts, LenProperties DEF TypeOK
<1>2. /\ MessagesOf(rule) \subseteq DOMAIN log /\ \A k \in DOMAIN log : log'[k] = log[k]
      /\ MessagesOf(rule)' = MessagesOf(rule) \cup {n}
      /\ log'[n].kind = kind /\ log'[n].sample = h
  BY <1>1, MessagesGrow
<1>3. \A k \in MessagesOf(rule) : k \in Int /\ k < n
  BY <1>1, <1>2
<1>4. \A k \in MessagesOf(rule) :
        log'[k] = log[k] /\ history'[log[k].sample] = history[log[k].sample]
  BY <1>2
<1>5. n \in MessagesOf(rule)' /\ Greatest(n, MessagesOf(rule)')
  BY <1>1, <1>2, <1>3 DEF Greatest
<1>6. LastWordInv(rule)'
  <2>1. new.firing <=> kind # "recovered"
    OBVIOUS
  <2>2. new.firing => new.lastFired = history'[log'[n].sample].at
    BY <1>1, <1>2
  <2> HIDE DEF Greatest
  <2> QED
    BY <1>2, <1>5, <2>1, <2>2 DEF LastWordInv
<1>7. ASSUME NEW i \in MessagesOf(rule) PROVE EpisodeInv(rule, i)'
  <2>1. {j \in MessagesOf(rule)' : j < i} = {j \in MessagesOf(rule) : j < i}
    BY <1>1, <1>2, <1>3
  <2> QED
    BY <1>3, <1>4, <2>1, EpisodeFrame
<1>8. EpisodeInv(rule, n)'
  <2>1. {j \in MessagesOf(rule)' : j < n} = MessagesOf(rule)
    BY <1>1, <1>2, <1>3
  <2>2. CASE MessagesOf(rule) = {} /\ ~old.firing
    <3>1. kind = "fire"
      BY <2>2
    <3> QED
      BY <1>2, <2>1, <2>2, <3>1 DEF EpisodeInv
  <2>3. ASSUME NEW b \in MessagesOf(rule), Greatest(b, MessagesOf(rule)),
               old.firing <=> log[b].kind # "recovered",
               old.firing => old.lastFired = history[log[b].sample].at
        PROVE  EpisodeInv(rule, n)'
    <3>1. log'[b] = log[b] /\ history'[log'[b].sample] = history[log[b].sample]
      BY <1>4
    <3>2. history'[log'[n].sample].at = sample.at
      BY <1>1, <1>2
    <3>3. \/ log'[b].kind = "recovered" /\ log'[n].kind = "fire"
          \/ log'[b].kind # "recovered" /\ log'[n].kind = "recovered"
          \/ /\ log'[b].kind # "recovered" /\ log'[n].kind = "repeat"
             /\ rule.repeat > 0
             /\ history'[log'[n].sample].at - history'[log'[b].sample].at >= rule.repeat
      BY <1>2, <2>3, <3>1, <3>2
    <3> QED
      BY <2>1, <2>3, <3>3 DEF EpisodeInv, Greatest
  <2> QED
    BY <2>2, <2>3 DEF LastWordInv
<1> QED
  BY <1>2, <1>6, <1>7, <1>8

\* What later samples bring does not change what went on before.
LEMMA BreachFrame ==
  ASSUME NEW rule, NEW n \in Nat, NEW h \in Nat, NEW g \in Nat, n <= h, h <= g,
         DOMAIN history = 1..h, DOMAIN history' = 1..g,
         \A i \in DOMAIN history : history'[i] = history[i]
  PROVE  BreachAt(rule, n)' = BreachAt(rule, n)
<1>1. \A i \in Int : i <= n => (i \in Evaluations(rule)' <=> i \in Evaluations(rule))
  BY DEF Evaluations
<1>2. \A i \in Evaluations(rule) : i \in Int /\ history'[i] = history[i]
  BY DEF Evaluations
<1>3. \A i \in Evaluations(rule)' : i \in Int
  BY DEF Evaluations
<1> QED
  BY <1>1, <1>2, <1>3 DEF BreachAt

\* A rule whose state stays that of its breach.
LEMMA ReflectsFrame ==
  ASSUME NEW rule, NEW n, BreachAt(rule, n)' = BreachAt(rule, n),
         \A i \in BreachAt(rule, n) : history'[i] = history[i],
         UNCHANGED ruleStates[rule.name], Reflects(rule, n)
  PROVE  Reflects(rule, n)'
<1>1. CASE BreachAt(rule, n) = {} /\ ruleStates[rule.name] = ZeroState
  BY <1>1 DEF Reflects, ZeroState
<1>2. ASSUME NEW i \in BreachAt(rule, n), \A k \in BreachAt(rule, n) : i <= k,
             ruleStates[rule.name].since = history[i].at,
             ruleStates[rule.name].firing <=>
               \E j \in BreachAt(rule, n) : history[j].at - history[i].at >= rule.for
      PROVE  Reflects(rule, n)'
  BY <1>2 DEF Reflects
<1> QED
  BY <1>1, <1>2 DEF Reflects

\* Whether a sample counts in a rule's breach.
LEMMA BreachNext ==
  ASSUME NEW rule, NEW n \in Nat, n >= 1, DOMAIN history = 1..n
  PROVE  /\ n \notin Evaluations(rule) => BreachAt(rule, n) = BreachAt(rule, n - 1)
         /\ n \in Evaluations(rule) =>
              IF history[n].metrics[rule.metric] \in rule.breach
              THEN BreachAt(rule, n) = BreachAt(rule, n - 1) \cup {n}
              ELSE BreachAt(rule, n) = {}
         /\ \A i \in BreachAt(rule, n - 1) : i \in 1..(n - 1) /\ i \in DOMAIN history
<1>1. \A i \in Evaluations(rule) : i \in 1..n
  BY DEF Evaluations
<1>2. CASE n \notin Evaluations(rule)
  <2>1. \A i \in Evaluations(rule) : i <= n <=> i <= n - 1
    BY <1>1, <1>2
  <2> QED
    BY <1>1, <1>2, <2>1 DEF BreachAt
<1>3. CASE n \in Evaluations(rule) /\ history[n].metrics[rule.metric] \in rule.breach
  <2>1. \A i \in Evaluations(rule) : i = n \/ (i <= n <=> i <= n - 1)
    BY <1>1
  <2>2. BreachAt(rule, n) \subseteq BreachAt(rule, n - 1) \cup {n}
    BY <1>1, <2>1 DEF BreachAt
  <2>3. BreachAt(rule, n - 1) \cup {n} \subseteq BreachAt(rule, n)
    BY <1>1, <1>3, <2>1 DEF BreachAt
  <2> QED
    BY <1>1, <1>3, <2>2, <2>3 DEF BreachAt
<1>4. CASE n \in Evaluations(rule) /\ history[n].metrics[rule.metric] \notin rule.breach
  BY <1>1, <1>4 DEF BreachAt
<1>5. \A i \in BreachAt(rule, n - 1) : i \in 1..(n - 1) /\ i \in DOMAIN history
  BY <1>1 DEF BreachAt
<1> QED
  BY <1>2, <1>3, <1>4, <1>5

\* A rule evaluated on the last sample is up to date with it, whether or not it
\* was before.
LEMMA ReflectsNext ==
  ASSUME TypeOK, history # <<>>, NEW rule \in AllRules,
         rule \in ToSet(sample.set.rules), UNCHANGED history,
         NEW n \in Nat, n = Len(history), NEW old, NEW new, NEW value,
         old = ruleStates[rule.name], new = ruleStates'[rule.name],
         value = sample.metrics[rule.metric],
         \/ value = Missing /\ new = old
         \/ /\ value \in rule.breach /\ value # Missing
            /\ new.since = IF old.since = Never THEN sample.at ELSE old.since
            /\ new.firing <=> old.firing \/ sample.at - new.since >= rule.for
         \/ value \notin rule.breach /\ value # Missing /\ new = ZeroState,
         Reflects(rule, n) \/ Reflects(rule, n - 1)
  PROVE  Reflects(rule, n)'
<1> DEFINE B == BreachAt(rule, n)
           A == BreachAt(rule, n - 1)
<1>1. /\ n >= 1 /\ DOMAIN history = 1..n /\ n \in DOMAIN history /\ sample = history[n]
      /\ \A i \in 1..n : history[i].at \in Int
  BY SampleFacts, Timestamps
<1>2. n \in Evaluations(rule) <=> value # Missing
  BY <1>1 DEF Evaluations
<1>3. /\ value = Missing => B = A
      /\ value # Missing => IF value \in rule.breach THEN B = A \cup {n} ELSE B = {}
      /\ \A i \in A : i \in 1..(n - 1) /\ i \in 1..n
  BY <1>1, <1>2, BreachNext
<1>4. B' = B
  BY <1>1, BreachFrame
<1>5. \A i \in B : i \in 1..n
  BY <1>1 DEF BreachAt, Evaluations
<1>6. rule.for \in Int /\ Never \notin Int
  BY RuleFacts, NeverAssumption
<1> HIDE DEF A, B
<1>7. CASE value = Missing
  <2>1. Reflects(rule, n)
    BY <1>3, <1>7 DEF Reflects, A, B
  <2>2. new = old
    BY <1>7, RuleFacts
  <2> QED
    BY <1>4, <2>1, <2>2, ReflectsFrame DEF B
<1>8. CASE value # Missing /\ value \notin rule.breach
  BY <1>3, <1>4, <1>8 DEF Reflects, B, ZeroState
<1>9. CASE value # Missing /\ value \in rule.breach
  <2> SUFFICES ASSUME NEW i \in B, \A k \in B : i <= k,
                      new.since = history[i].at,
                      new.firing <=> \E j \in B : history[j].at - history[i].at >= rule.for
               PROVE  Reflects(rule, n)'
    <3>1. /\ B = A \cup {n} /\ n \in B
          /\ new.since = IF old.since = Never THEN history[n].at ELSE old.since
          /\ new.firing <=> old.firing \/ history[n].at - new.since >= rule.for
      BY <1>1, <1>3, <1>9
    <3>2. CASE A = {} /\ old = ZeroState
      <4>1. /\ new.since = history[n].at /\ B = {n}
            /\ new.firing <=> history[n].at - history[n].at >= rule.for
        BY <3>1, <3>2 DEF ZeroState
      <4>2. \A k \in B : n <= k
        BY <4>1
      <4> QED
        BY <3>1, <4>1, <4>2
    <3>3. ASSUME NEW i \in A, \A k \in A : i <= k, old.since = history[i].at,
                 old.firing <=> \E j \in A : history[j].at - history[i].at >= rule.for
          PROVE  \E b \in B : /\ \A k \in B : b <= k
                              /\ new.since = history[b].at
                              /\ new.firing <=>
                                   \E j \in B : history[j].at - history[b].at >= rule.for
      <4>1. i \in B /\ \A k \in B : i <= k
        BY <1>3, <3>1, <3>3
      <4>2. new.since = history[i].at
        BY <1>1, <1>3, <1>6, <3>1, <3>3
      <4>3. new.firing <=> \E j \in B : history[j].at - history[i].at >= rule.for
        BY <3>1, <3>3, <4>2
      <4> QED
        BY <4>1, <4>2, <4>3
    <3>4. ASSUME NEW i \in B, \A k \in B : i <= k, old.since = history[i].at,
                 old.firing <=> \E j \in B : history[j].at - history[i].at >= rule.for
          PROVE  /\ new.since = history[i].at
                 /\ new.firing <=> \E j \in B : history[j].at - history[i].at >= rule.for
      <4>1. new.since = history[i].at
        BY <1>1, <1>5, <1>6, <3>1, <3>4
      <4> QED
        BY <3>1, <3>4, <4>1
    <3>5. CASE Reflects(rule, n - 1)
      <4>1. \/ A = {} /\ old = ZeroState
            \/ \E i \in A : /\ \A k \in A : i <= k
                            /\ old.since = history[i].at
                            /\ old.firing <=> \E j \in A : history[j].at - history[i].at >= rule.for
        BY <3>5, Zenon DEF Reflects, A
      <4> QED
        BY <3>2, <3>3, <4>1
    <3>6. CASE Reflects(rule, n)
      <4>1. B # {}
        BY <3>1
      <4>2. \E i \in B : /\ \A k \in B : i <= k
                         /\ old.since = history[i].at
                         /\ old.firing <=> \E j \in B : history[j].at - history[i].at >= rule.for
        BY <3>6, <4>1, Zenon DEF Reflects, B
      <4> QED
        BY <3>4, <4>2
    <3> QED
      BY <3>5, <3>6
  <2> QED
    BY <1>4 DEF Reflects, B
<1> QED
  BY <1>7, <1>8, <1>9

\* Messages stay about samples handled.
LEMMA LogInvStep ==
  ASSUME TypeOK, PendingInv, LogInv, [Next]_vars
  PROVE  LogInv'
<1>1. CASE UNCHANGED <<log, history>>
  BY <1>1 DEF LogInv
<1>2. ASSUME NEW obs \in Observations, NEW dt \in Steps, Handle(obs, dt)
      PROVE  LogInv'
  <2>1. PICK n \in Nat : DOMAIN history = 1..n /\ DOMAIN history' = 1..(n + 1)
    BY <1>2, HandleFacts
  <2>2. UNCHANGED log
    BY <1>2 DEF Handle
  <2> QED
    BY <2>1, <2>2 DEF LogInv
<1>3. ASSUME NEW rule \in AllRules \cup AllServiceRules, NEW kind \in Kinds,
             Publish(rule, kind), history # <<>>, UNCHANGED history
      PROVE  LogInv'
  BY <1>3, LogStep
<1>4. CASE EvaluateRule
  <2>1. PICK rule \in AllRules :
          /\ \/ UNCHANGED log
             \/ Breach(rule, ruleStates[rule.name])
             \/ Recover(rule, ruleStates[rule.name])
          /\ history # <<>> /\ UNCHANGED history
    BY <1>4, EvaluateFacts
  <2>2. CASE Breach(rule, ruleStates[rule.name])
    <3>1. PICK kind \in Kinds : Publish(rule, kind)
      BY <2>1, <2>2, BreachFacts, KindNames
    <3> QED
      BY <1>3, <2>1, <3>1
  <2>3. CASE Recover(rule, ruleStates[rule.name])
    <3>1. PICK kind \in Kinds : Publish(rule, kind)
      BY <2>3, RecoverFacts, KindNames
    <3> QED
      BY <1>3, <2>1, <3>1
  <2> QED
    BY <1>1, <2>1, <2>2, <2>3
<1>5. CASE EvaluateServiceRule
  <2>1. PICK rule \in AllServiceRules :
          /\ LET seen == sample.services[rule.service]
                 st   == serviceStates[rule.service]
             IN \/ seen = "absent" /\ UNCHANGED <<serviceStates, log>>
                \/ seen # "absent" /\ st = Unknown /\ FirstSight(rule, seen = "up")
                \/ seen # "absent" /\ st # Unknown /\ Sighted(rule, seen)
          /\ history # <<>> /\ UNCHANGED history
    BY <1>5, EvaluateServiceFacts
  <2>2. PICK seen, st :
          seen = sample.services[rule.service] /\ st = serviceStates[rule.service]
    OBVIOUS
  <2>3. CASE st # Unknown /\ Sighted(rule, seen)
    <3>1. PICK kind \in Kinds : Publish(rule, kind)
      BY <2>1, <2>2, <2>3, ObserveFacts
    <3> QED
      BY <1>3, <2>1, <3>1
  <2>4. CASE UNCHANGED log
    BY <1>1, <2>1, <2>4
  <2>5. FirstSight(rule, seen = "up") => UNCHANGED log
    BY DEF FirstSight
  <2> QED
    BY <2>1, <2>2, <2>3, <2>4, <2>5 DEF FirstSight
<1>6. ASSUME NEW new \in RuleSets, SetRules(new)
      PROVE  UNCHANGED <<log, history>>
  BY <1>6 DEF SetRules
<1>7. UNCHANGED vars => UNCHANGED <<log, history>>
  BY DEF vars
<1> QED
  BY <1>1, <1>2, <1>4, <1>5, <1>6, <1>7 DEF Next

\* A sample has come: the rule waits for it, or is not among its rules.
LEMMA RuleHandle ==
  ASSUME TypeOK, LogInv, NEW rule \in AllRules, RuleInv(rule),
         NEW obs \in Observations, NEW dt \in Steps, Handle(obs, dt)
  PROVE  RuleInv(rule)'
<1>1. PICK n \in Nat :
        /\ n = Len(history) /\ n + 1 = Len(history')
        /\ DOMAIN history = 1..n /\ DOMAIN history' = 1..(n + 1)
        /\ \A i \in DOMAIN history : history'[i] = history[i]
        /\ sample' = history'[n + 1]
        /\ todo' = sample'.set.rules
  BY HandleFacts
<1>2. /\ UNCHANGED <<ruleStates, log>> /\ todo = <<>>
  BY DEF Handle
<1>3. Quiet(rule)
  BY <1>1, <1>2 DEF Quiet, MessagesOf
<1>4. LastWordInv(rule)' /\ \A i \in MessagesOf(rule)' : EpisodeInv(rule, i)'
  BY <1>2, <1>3, StoryFrame DEF RuleInv
<1>5. ToSet(todo) = {}
  BY <1>2 DEF ToSet
<1>6. /\ BreachAt(rule, n)' = BreachAt(rule, n)
      /\ \A i \in BreachAt(rule, n) : history'[i] = history[i]
  <2>1. BreachAt(rule, n)' = BreachAt(rule, n)
    BY <1>1, BreachFrame
  <2>2. \A i \in BreachAt(rule, n) : i \in DOMAIN history
    BY DEF BreachAt, Evaluations
  <2> QED
    BY <1>1, <2>1, <2>2
<1>7. Reflects(rule, n)'
  <2>1. Reflects(rule, n)
    BY <1>1, <1>5 DEF RuleInv, ReflectsInv
  <2> QED
    BY <1>1, <1>2, <1>6, <2>1, ReflectsFrame
<1>8. ReflectsInv(rule)'
  <2>1. CASE rule \in ToSet(todo')
    <3>1. Len(history') - 1 = n
      BY <1>1
    <3> QED
      BY <1>7, <2>1, <3>1 DEF ReflectsInv
  <2>2. CASE rule \notin ToSet(todo')
    <3>1. n + 1 \notin Evaluations(rule)'
      BY <1>1, <2>2 DEF Evaluations
    <3>2. BreachAt(rule, n + 1)' = BreachAt(rule, n)'
      <4>1. \A i \in Evaluations(rule)' : i \in 1..n
        BY <1>1, <3>1 DEF Evaluations
      <4> QED
        BY <4>1 DEF BreachAt
    <3>3. Reflects(rule, n + 1)'
      BY <1>7, <3>2 DEF Reflects
    <3> QED
      BY <1>1, <3>3 DEF ReflectsInv
  <2> QED
    BY <2>1, <2>2
<1> QED
  BY <1>4, <1>8 DEF RuleInv

\* A rule of the snapshot is evaluated: the others keep theirs, it catches up.
LEMMA RuleEvaluated ==
  ASSUME TypeOK, PendingInv, LogInv, NamesStandForRules, EvaluateRule,
         NEW q \in AllRules, RuleInv(q)
  PROVE  RuleInv(q)'
<1>1. PICK rule \in AllRules :
        /\ rule \in ToSet(sample.set.rules) /\ history # <<>>
        /\ ToSet(todo) = {rule} \cup ToSet(todo')
        /\ LET value == sample.metrics[rule.metric]
               st    == ruleStates[rule.name]
           IN \/ value = Missing /\ UNCHANGED <<ruleStates, log>>
              \/ value \in rule.breach /\ value # Missing /\ Breach(rule, st)
              \/ value \notin rule.breach /\ value # Missing /\ Recover(rule, st)
        /\ UNCHANGED history
  BY EvaluateFacts
<1>9. PICK n \in Nat : n = Len(history)
  BY <1>1, SampleFacts
<1>2. PICK value, old, new :
        /\ n = Len(history) /\ value = sample.metrics[rule.metric]
        /\ old = ruleStates[rule.name] /\ new = ruleStates'[rule.name]
  BY <1>9
<1>3. q.name \in RuleNames /\ rule.name \in RuleNames /\ (q.name = rule.name => q = rule)
  BY RuleFacts DEF NamesStandForRules
\* What the step does to the states and the log, in one of four ways.
<1>4. PICK kind \in Kinds :
        /\ \A m \in RuleNames : m # rule.name => ruleStates'[m] = ruleStates[m]
        /\ kind # "none" => Publish(rule, kind)
        /\ kind = "none" => UNCHANGED log
        /\ \/ value = Missing /\ new = old
           \/ /\ value \in rule.breach /\ value # Missing
              /\ new.since = IF old.since = Never THEN sample.at ELSE old.since
              /\ new.firing <=> old.firing \/ sample.at - new.since >= rule.for
           \/ value \notin rule.breach /\ value # Missing /\ new = ZeroState
        /\ \/ /\ kind = "none" /\ (new.firing <=> old.firing)
              /\ old.firing => new.lastFired = old.lastFired
           \/ kind = "fire" /\ ~old.firing /\ new.firing /\ new.lastFired = sample.at
           \/ /\ kind = "repeat" /\ old.firing /\ new.firing /\ new.lastFired = sample.at
              /\ rule.repeat > 0 /\ sample.at - old.lastFired >= rule.repeat
           \/ kind = "recovered" /\ old.firing /\ ~new.firing
  <2>1. CASE value = Missing /\ UNCHANGED <<ruleStates, log>>
    BY <1>2, <2>1, KindNames
  <2>2. CASE value \in rule.breach /\ value # Missing /\ Breach(rule, old)
    <3>1. PICK st \in RuleState :
            /\ ruleStates' = [ruleStates EXCEPT ![rule.name] = st]
            /\ st.since = IF old.since = Never THEN sample.at ELSE old.since
            /\ st.firing <=> old.firing \/ sample.at - st.since >= rule.for
            /\ \/ /\ Publish(rule, "none")
                  /\ st.firing = old.firing /\ st.lastFired = old.lastFired
               \/ /\ Publish(rule, "fire")
                  /\ ~old.firing /\ st.firing /\ st.lastFired = sample.at
               \/ /\ Publish(rule, "repeat")
                  /\ old.firing /\ st.firing /\ st.lastFired = sample.at
                  /\ rule.repeat > 0 /\ sample.at - old.lastFired >= rule.repeat
      BY <1>1, <1>2, <2>2, BreachFacts
    <3>2. new = st /\ \A m \in RuleNames : m # rule.name => ruleStates'[m] = ruleStates[m]
      BY <1>2, <1>3, <3>1 DEF TypeOK
    <3>3. Publish(rule, "none") => UNCHANGED log
      BY DEF Publish
    <3> QED
      BY <2>2, <3>1, <3>2, <3>3, KindNames
  <2>3. CASE value \notin rule.breach /\ value # Missing /\ Recover(rule, old)
    <3>1. /\ ruleStates' = [ruleStates EXCEPT ![rule.name] = ZeroState]
          /\ \/ old.firing /\ Publish(rule, "recovered")
             \/ ~old.firing /\ Publish(rule, "none")
      BY <1>2, <2>3, RecoverFacts
    <3>2. /\ new = ZeroState /\ ~new.firing
          /\ \A m \in RuleNames : m # rule.name => ruleStates'[m] = ruleStates[m]
      BY <1>2, <1>3, <3>1 DEF TypeOK, ZeroState
    <3>3. Publish(rule, "none") => UNCHANGED log
      BY DEF Publish
    <3> QED
      BY <2>3, <3>1, <3>2, <3>3, KindNames
  <2> QED
    BY <1>1, <1>2, <2>1, <2>2, <2>3
<1>5. CASE q # rule
  <2>1. q.name # rule.name /\ UNCHANGED ruleStates[q.name]
    BY <1>3, <1>4, <1>5
  <2>2. Quiet(q)
    <3>1. CASE kind = "none"
      BY <1>1, <1>4, <3>1 DEF Quiet, MessagesOf
    <3>2. CASE kind # "none"
      BY <1>1, <1>4, <2>1, <3>2, MessagesGrow DEF Quiet
    <3> QED
      BY <3>1, <3>2
  <2>3. LastWordInv(q)' /\ \A i \in MessagesOf(q)' : EpisodeInv(q, i)'
    BY <2>1, <2>2, StoryFrame DEF RuleInv
  <2>4. \A m \in Nat : m <= n /\ Reflects(q, m) => Reflects(q, m)'
    <3> SUFFICES ASSUME NEW m \in Nat, m <= n, Reflects(q, m) PROVE Reflects(q, m)'
      OBVIOUS
    <3>1. DOMAIN history = 1..n
      BY <1>2, Timestamps
    <3>2. BreachAt(q, m)' = BreachAt(q, m)
      BY <1>1 DEF BreachAt, Evaluations
    <3> QED
      BY <1>1, <2>1, <3>2, ReflectsFrame
  <2>5. n >= 1
    BY <1>1, <1>2, SampleFacts
  <2>6. q \in ToSet(todo) <=> q \in ToSet(todo')
    BY <1>1, <1>5
  <2>7. ReflectsInv(q)'
    <3>1. Reflects(q, n) \/ (q \in ToSet(todo) /\ Reflects(q, n - 1))
      BY <1>2 DEF RuleInv, ReflectsInv
    <3>2. Reflects(q, n)' \/ (q \in ToSet(todo)' /\ Reflects(q, n - 1)')
      BY <2>4, <2>5, <2>6, <3>1
    <3> QED
      BY <1>1, <1>2, <3>2 DEF ReflectsInv
  <2> QED
    BY <2>3, <2>7 DEF RuleInv
<1>6. CASE q = rule
  <2>1. LastWordInv(rule)' /\ \A i \in MessagesOf(rule)' : EpisodeInv(rule, i)'
    <3>1. CASE kind = "none"
      <4>1. Quiet(rule)
        BY <1>1, <1>4, <3>1 DEF Quiet, MessagesOf
      <4> QED
        BY <1>2, <1>4, <1>6, <3>1, <4>1, StoryFrame DEF RuleInv
    <3>2. CASE kind # "none"
      BY <1>1, <1>2, <1>4, <1>6, <3>2, StorySpeak DEF RuleInv
    <3> QED
      BY <3>1, <3>2
  <2>2. Reflects(rule, n)'
    <3>1. Reflects(rule, n) \/ Reflects(rule, n - 1)
      BY <1>2, <1>6 DEF RuleInv, ReflectsInv
    <3> QED
      BY <1>1, <1>2, <1>4, <3>1, ReflectsNext
  <2>3. ReflectsInv(rule)'
    BY <1>1, <1>2, <2>2 DEF ReflectsInv
  <2> QED
    BY <1>6, <2>1, <2>3 DEF RuleInv
<1> QED
  BY <1>5, <1>6

\* The evaluation of a service rule leaves the others alone.
LEMMA RuleUntouched ==
  ASSUME TypeOK, PendingInv, LogInv, NamesStandForRules, EvaluateServiceRule,
         NEW q \in AllRules, RuleInv(q)
  PROVE  RuleInv(q)'
<1>1. PICK rule \in AllServiceRules :
        /\ LET seen == sample.services[rule.service]
               st   == serviceStates[rule.service]
           IN \/ seen = "absent" /\ UNCHANGED <<serviceStates, log>>
              \/ seen # "absent" /\ st = Unknown /\ FirstSight(rule, seen = "up")
              \/ seen # "absent" /\ st # Unknown /\ Sighted(rule, seen)
        /\ history # <<>> /\ UNCHANGED <<ruleStates, todo, history>>
  BY EvaluateServiceFacts
<1>2. PICK seen, st :
        seen = sample.services[rule.service] /\ st = serviceStates[rule.service]
  OBVIOUS
<1>3. Quiet(q)
  <2>1. CASE UNCHANGED log
    BY <1>1, <2>1 DEF Quiet, MessagesOf
  <2>2. CASE st # Unknown /\ Sighted(rule, seen)
    <3>1. PICK kind \in Kinds : Publish(rule, kind)
      BY <1>1, <1>2, <2>2, ObserveFacts
    <3>2. q.name # rule.name
      BY DEF NamesStandForRules
    <3> QED
      BY <1>1, <3>1, <3>2, MessagesGrow DEF Quiet
  <2> QED
    BY <1>1, <1>2, <2>1, <2>2 DEF FirstSight
<1>4. LastWordInv(q)' /\ \A i \in MessagesOf(q)' : EpisodeInv(q, i)'
  BY <1>1, <1>3, StoryFrame DEF RuleInv
<1>5. ReflectsInv(q)'
  <2>1. ReflectsInv(q) /\ ruleStates' = ruleStates /\ todo' = todo /\ history' = history
    BY <1>1 DEF RuleInv
  <2>2. Evaluations(q)' = Evaluations(q)
    BY <2>1, Zenon DEF Evaluations
  <2>3. \A n : BreachAt(q, n)' = BreachAt(q, n)
    BY <2>1, <2>2 DEF BreachAt
  <2>4. \A n : Reflects(q, n)' <=> Reflects(q, n)
    BY <2>1, <2>3 DEF Reflects
  <2> QED
    BY <2>1, <2>4, Zenon DEF ReflectsInv
<1> QED
  BY <1>4, <1>5 DEF RuleInv

\* The stories of the rules go on as they should.
LEMMA RulesStep ==
  ASSUME TypeOK, PendingInv, LogInv, RulesInv, [Next]_vars
  PROVE  RulesInv'
<1> SUFFICES ASSUME NamesStandForRules, NEW rule \in AllRules PROVE RuleInv(rule)'
  BY DEF RulesInv, NamesStandForRules
<1>1. RuleInv(rule)
  BY DEF RulesInv
<1>2. CASE UNCHANGED <<ruleStates, todo, history, log>>
  <2>1. LastWordInv(rule)'
    BY <1>1, <1>2 DEF RuleInv, LastWordInv, MessagesOf
  <2>2. \A i \in MessagesOf(rule)' : EpisodeInv(rule, i)'
    BY <1>1, <1>2 DEF RuleInv, EpisodeInv, MessagesOf
  <2>3. ReflectsInv(rule)'
    <3>1. ReflectsInv(rule) /\ ruleStates' = ruleStates /\ todo' = todo /\ history' = history
      BY <1>1, <1>2 DEF RuleInv
    <3>2. Evaluations(rule)' = Evaluations(rule)
      BY <3>1, Zenon DEF Evaluations
    <3>3. \A n : BreachAt(rule, n)' = BreachAt(rule, n)
      BY <3>1, <3>2 DEF BreachAt
    <3>4. \A n : Reflects(rule, n)' <=> Reflects(rule, n)
      BY <3>1, <3>3 DEF Reflects
    <3> QED
      BY <3>1, <3>4, Zenon DEF ReflectsInv
  <2> QED
    BY <2>1, <2>2, <2>3 DEF RuleInv
<1>3. ASSUME NEW new \in RuleSets, SetRules(new)
      PROVE  UNCHANGED <<ruleStates, todo, history, log>>
  BY <1>3 DEF SetRules
<1>4. UNCHANGED vars => UNCHANGED <<ruleStates, todo, history, log>>
  BY DEF vars
<1>5. ASSUME NEW obs \in Observations, NEW dt \in Steps, Handle(obs, dt)
      PROVE  RuleInv(rule)'
  BY <1>1, <1>5, RuleHandle
<1>6. CASE EvaluateRule
  BY <1>1, <1>6, RuleEvaluated
<1>7. CASE EvaluateServiceRule
  BY <1>1, <1>7, RuleUntouched
<1> QED
  BY <1>2, <1>3, <1>4, <1>5, <1>6, <1>7 DEF Next

\* At the start nothing has been said, and nothing is breached.
LEMMA RulesInit == Init => LogInv /\ RulesInv
<1> SUFFICES ASSUME Init PROVE LogInv /\ RulesInv
  OBVIOUS
<1>1. DOMAIN log = {} /\ DOMAIN history = {} /\ todo = <<>>
  BY DEF Init
<1>2. LogInv
  BY <1>1 DEF LogInv
<1>3. ASSUME NEW rule \in AllRules PROVE RuleInv(rule)
  <2>1. ruleStates[rule.name] = ZeroState
    BY RuleFacts DEF Init
  <2>2. MessagesOf(rule) = {} /\ ~ZeroState.firing
    BY <1>1 DEF MessagesOf, ZeroState
  <2>3. LastWordInv(rule)
    BY <2>1, <2>2 DEF LastWordInv
  <2>4. \A n : BreachAt(rule, n) = {}
    BY <1>1 DEF BreachAt, Evaluations
  <2>5. ReflectsInv(rule)
    BY <2>1, <2>4 DEF ReflectsInv, Reflects
  <2> QED
    BY <2>2, <2>3, <2>5 DEF RuleInv
<1> QED
  BY <1>2, <1>3 DEF RulesInv

\* The invariants tell the episodes,
LEMMA EpisodesFollow == TypeOK /\ RulesInv => Episodes
<1> SUFFICES ASSUME TypeOK, RulesInv, NamesStandForRules, NEW rule \in AllRules,
                    NEW i \in MessagesOf(rule)
             PROVE  LET earlier == {j \in MessagesOf(rule) : j < i}
                        before  == Max(earlier)
                        ts(k)   == history[log[k].sample].at
                    IN IF earlier = {} \/ log[before].kind = "recovered"
                       THEN log[i].kind = "fire"
                       ELSE \/ log[i].kind = "recovered"
                            \/ /\ log[i].kind = "repeat"
                               /\ rule.repeat > 0 /\ ts(i) - ts(before) >= rule.repeat
  BY DEF Episodes
<1> DEFINE earlier == {j \in MessagesOf(rule) : j < i}
<1>1. EpisodeInv(rule, i)
  BY DEF RulesInv, RuleInv
<1>2. earlier \in SUBSET Int
  BY LenProperties DEF MessagesOf, TypeOK
<1>3. CASE earlier = {} /\ log[i].kind = "fire"
  BY <1>3
<1>4. ASSUME NEW b \in earlier, Greatest(b, earlier),
             \/ log[b].kind = "recovered" /\ log[i].kind = "fire"
             \/ log[b].kind # "recovered" /\ log[i].kind = "recovered"
             \/ /\ log[b].kind # "recovered" /\ log[i].kind = "repeat"
                /\ rule.repeat > 0
                /\ history[log[i].sample].at - history[log[b].sample].at >= rule.repeat
      PROVE  IF earlier = {} \/ log[Max(earlier)].kind = "recovered"
             THEN log[i].kind = "fire"
             ELSE \/ log[i].kind = "recovered"
                  \/ /\ log[i].kind = "repeat"
                     /\ rule.repeat > 0
                     /\ history[log[i].sample].at - history[log[Max(earlier)].sample].at
                          >= rule.repeat
  <2>1. Max(earlier) = b
    BY <1>2, <1>4, MaxIs
  <2> QED
    BY <1>4, <2>1
<1> QED
  BY <1>1, <1>3, <1>4 DEF EpisodeInv

\* and that the last word about each rule is the right one.
LEMMA LastWordsFollow == TypeOK /\ RulesInv => AlertsFollowSamples
<1> SUFFICES ASSUME TypeOK, RulesInv, NamesStandForRules, evaluated, NEW rule \in AllRules
             PROVE  LET said       == MessagesOf(rule)
                        breach     == Breaching(rule)
                        LongAgo(i) == \E j \in breach :
                                        history[j].at - history[i].at >= rule.for
                    IN (said # {} /\ log[Max(said)].kind # "recovered")
                         <=> (breach # {} /\ LongAgo(Min(breach)))
  BY DEF AlertsFollowSamples
<1> DEFINE said   == MessagesOf(rule)
           breach == Breaching(rule)
           firing == ruleStates[rule.name].firing
<1>1. LastWordInv(rule) /\ ReflectsInv(rule)
  BY DEF RulesInv, RuleInv
<1>2. said \in SUBSET Int
  BY LenProperties DEF MessagesOf, TypeOK
<1>3. said # {} /\ log[Max(said)].kind # "recovered" <=> firing
  <2>1. CASE said = {} /\ ~firing
    BY <2>1
  <2>2. ASSUME NEW i \in said, Greatest(i, said), firing <=> log[i].kind # "recovered"
        PROVE  said # {} /\ log[Max(said)].kind # "recovered" <=> firing
    <3>1. Max(said) = i
      BY <1>2, <2>2, MaxIs
    <3> QED
      BY <2>2, <3>1
  <2> QED
    BY <1>1, <2>1, <2>2 DEF LastWordInv
<1>4. PICK n \in Nat : n = Len(history) /\ DOMAIN history = 1..n
  BY Timestamps
<1>5. breach = BreachAt(rule, n) /\ breach \in SUBSET Int
  BY <1>4 DEF Breaching, BreachAt, Evaluations
<1>6. Reflects(rule, n)
  <2>1. ToSet(todo) = {}
    BY DEF evaluated, ToSet
  <2> QED
    BY <1>1, <1>4, <2>1 DEF ReflectsInv
<1>7. (breach # {} /\ \E j \in breach : history[j].at - history[Min(breach)].at >= rule.for)
        <=> firing
  <2>1. CASE breach = {} /\ ruleStates[rule.name] = ZeroState
    BY <2>1 DEF ZeroState
  <2>2. ASSUME NEW i \in breach, \A k \in breach : i <= k,
               firing <=> \E j \in breach : history[j].at - history[i].at >= rule.for
        PROVE  (breach # {} /\ \E j \in breach :
                  history[j].at - history[Min(breach)].at >= rule.for) <=> firing
    <3>1. Min(breach) = i
      BY <1>5, <2>2, MinIs
    <3> QED
      BY <2>2, <3>1
  <2> QED
    BY <1>5, <1>6, <2>1, <2>2 DEF Reflects
<1> QED
  BY <1>3, <1>7

-----------------------------------------------------------------------------
(* Service rules                                                           *)

\* A service is up or down in the samples it is sighted in.
LEMMA SightingsFacts ==
  ASSUME TypeOK, NEW rule \in AllServiceRules, NEW i \in Sightings(rule)
  PROVE  /\ i \in DOMAIN history /\ i \in Int /\ history[i].at \in Int
         /\ history[i].services[rule.service] \in {"up", "down"}
<1>1. i \in DOMAIN history /\ i \in Int /\ history[i] \in Samples /\ history[i].at \in Int
  BY Timestamps DEF Sightings
<1>2. PICK o \in Observations : history[i].services = o.services
  BY <1>1 DEF Samples
<1>3. history[i].services[rule.service] \in {"up", "down", "absent"}
  BY <1>2, ObservationsAssumption, RuleFacts
<1> QED
  BY <1>1, <1>3 DEF Sightings

\* A message says nothing about any sample but the last.
LEMMA SaidElsewhere ==
  ASSUME TypeOK, history # <<>>,
         NEW rule \in AllRules \cup AllServiceRules,
         NEW kind \in Kinds,
         Publish(rule, kind), NEW q, NEW i, i # Len(history)
  PROVE  Said(q, i)' = Said(q, i)
<1>1. Len(log) \in Nat
  BY LenProperties DEF TypeOK
<1>2. PICK l :
        /\ MessagesOf(q) \subseteq DOMAIN log
        /\ \A k \in DOMAIN log : log'[k] = log[k]
        /\ MessagesOf(q)' = MessagesOf(q) \/ MessagesOf(q)' = MessagesOf(q) \cup {l}
        /\ MessagesOf(q)' # MessagesOf(q) => log'[l].sample = Len(history)
  BY MessagesGrow, IntervalGrows
<1>3. {k \in MessagesOf(q)' : log'[k].sample = i} = {k \in MessagesOf(q) : log[k].sample = i}
  BY <1>2
<1> QED
  BY <1>2, <1>3 DEF Said

\* What a message adds to what is said about the last sample.
LEMMA SaidGrows ==
  ASSUME TypeOK, history # <<>>,
         NEW rule \in AllRules \cup AllServiceRules,
         NEW kind \in Kinds,
         Publish(rule, kind), NEW q, NEW n, n = Len(history)
  PROVE  /\ kind = "none" \/ q.name # rule.name => \A i : Said(q, i)' = Said(q, i)
         /\ kind # "none" /\ q.name = rule.name => Said(q, n)' = Said(q, n) \cup {kind}
<1>1. PICK l :
        /\ l \notin DOMAIN log
        /\ MessagesOf(q) \subseteq DOMAIN log
        /\ \A k \in DOMAIN log : log'[k] = log[k]
        /\ kind = "none" \/ q.name # rule.name => MessagesOf(q)' = MessagesOf(q)
        /\ kind # "none" /\ q.name = rule.name =>
             /\ MessagesOf(q)' = MessagesOf(q) \cup {l}
             /\ log'[l].kind = kind
             /\ log'[l].sample = n
  <2>1. PICK m \in Nat : m = Len(log) /\ DOMAIN log = 1..m
    BY LenProperties DEF TypeOK
  <2>2. m + 1 \notin DOMAIN log
    BY <2>1, IntervalGrows
  <2> QED
    BY <2>1, <2>2, MessagesGrow
<1>2. CASE kind = "none" \/ q.name # rule.name
  <2>1. \A i : Said(q, i)' = Said(q, i)
    BY <1>1, <1>2 DEF Said
  <2> QED
    BY <1>2, <2>1
<1>3. CASE kind # "none" /\ q.name = rule.name
  <2>2. Said(q, n)' = Said(q, n) \cup {kind}
    <3>1. {k \in MessagesOf(q)' : log'[k].sample = n}
            = {k \in MessagesOf(q) : log[k].sample = n} \cup {l}
      BY <1>1, <1>3
    <3>2. \A k \in MessagesOf(q) : log'[k].kind = log[k].kind
      BY <1>1
    <3> DEFINE about == {k \in MessagesOf(q) : log[k].sample = n}
    <3>3. Said(q, n) = {log[k].kind : k \in about}
      BY DEF Said
    <3>4. Said(q, n)' = {log'[k].kind : k \in about \cup {l}}
      BY <3>1 DEF Said
    <3>5. \A k \in about : log'[k].kind = log[k].kind
      BY <3>2
    <3>6. log'[l].kind = kind
      BY <1>1, <1>3
    <3> HIDE DEF about
    <3>7. \A x : x \in Said(q, n)' <=> x = kind \/ \E k \in about : x = log[k].kind
      BY <3>4, <3>5, <3>6
    <3>8. \A x : x \in Said(q, n) <=> \E k \in about : x = log[k].kind
      BY <3>3
    <3> QED
      BY <3>7, <3>8
  <2> QED
    BY <1>3, <2>2
<1> QED
  BY <1>2, <1>3

\* What happened to a service before is not changed by later samples, nor by
\* what is said about them.
LEMMA OutageFrame ==
  ASSUME NEW rule, NEW n \in Int, NEW h \in Nat, NEW g \in Nat, n <= h, h <= g,
         DOMAIN history = 1..h, DOMAIN history' = 1..g,
         \A i \in DOMAIN history : history'[i] = history[i],
         \A i \in Int : i <= n => Said(rule, i)' = Said(rule, i)
  PROVE  /\ SightingsTo(rule, n)' = SightingsTo(rule, n)
         /\ \A i \in SightingsTo(rule, n) : i \in Int /\ i <= n /\ history'[i] = history[i]
         /\ NoticesAt(rule, n)' = NoticesAt(rule, n)
         /\ NoticesAt(rule, n) \subseteq SightingsTo(rule, n)
<1>1. SightingsTo(rule, n)' = SightingsTo(rule, n)
  BY DEF SightingsTo, Sightings
<1>2. \A i \in SightingsTo(rule, n) : i \in Int /\ i <= n /\ history'[i] = history[i]
  BY DEF SightingsTo, Sightings
<1>3. OutageAt(rule, n)' = OutageAt(rule, n) /\ OutageAt(rule, n) \subseteq SightingsTo(rule, n)
  BY <1>1, <1>2 DEF OutageAt
<1>4. \A i \in OutageAt(rule, n) : Said(rule, i)' = Said(rule, i)
  BY <1>2, <1>3
<1>5. NoticesAt(rule, n)' = NoticesAt(rule, n) /\ NoticesAt(rule, n) \subseteq SightingsTo(rule, n)
  BY <1>3, <1>4 DEF NoticesAt
<1> QED
  BY <1>1, <1>2, <1>5

\* So the state of a service, if it stays, goes on reflecting it,
LEMMA ServiceReflectsFrame ==
  ASSUME NEW rule, NEW n, UNCHANGED serviceStates[rule.service],
         SightingsTo(rule, n)' = SightingsTo(rule, n),
         \A i \in SightingsTo(rule, n) : history'[i] = history[i],
         NoticesAt(rule, n)' = NoticesAt(rule, n),
         NoticesAt(rule, n) \subseteq SightingsTo(rule, n),
         ServiceReflects(rule, n)
  PROVE  ServiceReflects(rule, n)'
<1> DEFINE st == serviceStates[rule.service]
           seen == SightingsTo(rule, n)
           notices == NoticesAt(rule, n)
<1>1. CASE seen = {} /\ st = Unknown
  BY <1>1 DEF ServiceReflects
<1>2. ASSUME NEW m \in seen, Greatest(m, seen), st # Unknown,
             st.running <=> history[m].services[rule.service] = "up",
             \/ notices = {} /\ st.lastFired = Never
             \/ \E p \in notices : Greatest(p, notices) /\ st.lastFired = history[p].at
      PROVE  ServiceReflects(rule, n)'
  <2>1. st'.running <=> history'[m].services[rule.service] = "up"
    BY <1>2
  <2>2. \/ notices' = {} /\ st'.lastFired = Never
        \/ \E p \in notices' : Greatest(p, notices)' /\ st'.lastFired = history'[p].at
    BY <1>2 DEF Greatest
  <2>3. m \in seen' /\ Greatest(m, seen)' /\ st' # Unknown
    BY <1>2 DEF Greatest
  <2> QED
    BY <2>1, <2>2, <2>3 DEF ServiceReflects
<1> QED
  BY <1>1, <1>2 DEF ServiceReflects

\* and what was said after a sighting remains right.
LEMMA AnnouncedFrame ==
  ASSUME NEW rule, NEW j \in Int, history'[j] = history[j],
         SightingsTo(rule, j - 1)' = SightingsTo(rule, j - 1),
         \A i \in SightingsTo(rule, j - 1) : history'[i] = history[i],
         NoticesAt(rule, j - 1)' = NoticesAt(rule, j - 1),
         NoticesAt(rule, j - 1) \subseteq SightingsTo(rule, j - 1),
         Said(rule, j)' = Said(rule, j), Announced(rule, j)
  PROVE  Announced(rule, j)'
<1> DEFINE Is(i)   == history[i].services[rule.service]
           earlier == SightingsTo(rule, j - 1)
           notices == NoticesAt(rule, j - 1)
           due     == \A p \in notices :
                        Greatest(p, notices) => history[j].at - history[p].at >= rule.repeat
<1>1. CASE earlier = {} /\ Said(rule, j) = {}
  BY <1>1 DEF Announced
<1>2. ASSUME NEW m \in earlier, Greatest(m, earlier),
             notices = {} \/ \E p \in notices : Greatest(p, notices),
             Said(rule, j) =
               CASE Is(m) = "up" /\ Is(j) = "down" -> {"down"}
                 [] Is(m) = "down" /\ Is(j) = "up" /\ rule.recovery -> {"up"}
                 [] Is(m) = "down" /\ Is(j) = "down" /\ rule.repeat > 0 /\ due -> {"still down"}
                 [] OTHER -> {}
      PROVE  Announced(rule, j)'
  <2>1. history'[m].services[rule.service] = Is(m) /\ history'[j].services[rule.service] = Is(j)
    BY <1>2
  <2>2. due' <=> due
    BY DEF Greatest
  <2>3. m \in earlier' /\ Greatest(m, earlier)'
    BY <1>2 DEF Greatest
  <2>4. notices' = {} \/ \E p \in notices' : Greatest(p, notices)'
    BY <1>2 DEF Greatest
  <2> HIDE DEF due
  <2>5. Said(rule, j)' =
          CASE Is(m)' = "up" /\ Is(j)' = "down" -> {"down"}
            [] Is(m)' = "down" /\ Is(j)' = "up" /\ rule.recovery -> {"up"}
            [] Is(m)' = "down" /\ Is(j)' = "down" /\ rule.repeat > 0 /\ due' -> {"still down"}
            [] OTHER -> {}
    BY <1>2, <2>1, <2>2
  <2> QED
    BY <2>3, <2>4, <2>5 DEF Announced, due
<1> QED
  BY <1>1, <1>2 DEF Announced

\* All that was said until a sample remains right.
LEMMA AnnouncementsFrame ==
  ASSUME NEW rule, NEW n \in Int, NEW h \in Nat, NEW g \in Nat, n <= h, h <= g,
         DOMAIN history = 1..h, DOMAIN history' = 1..g,
         \A i \in DOMAIN history : history'[i] = history[i],
         \A i \in Int : i <= n => Said(rule, i)' = Said(rule, i),
         \A j \in SightingsTo(rule, n) : Announced(rule, j)
  PROVE  \A j \in SightingsTo(rule, n)' : Announced(rule, j)'
<1> SUFFICES ASSUME NEW j \in SightingsTo(rule, n)' PROVE Announced(rule, j)'
  OBVIOUS
<1>1. /\ j \in SightingsTo(rule, n) /\ j \in Int /\ j <= n /\ history'[j] = history[j]
      /\ Announced(rule, j)
  BY OutageFrame
<1>2. j - 1 \in Int /\ j - 1 <= h /\ \A i \in Int : i <= j - 1 => Said(rule, i)' = Said(rule, i)
  BY <1>1
<1>3. PICK m \in Int : m = j - 1
  BY <1>1
<1>4. /\ SightingsTo(rule, m)' = SightingsTo(rule, m)
      /\ \A i \in SightingsTo(rule, m) : history'[i] = history[i]
      /\ NoticesAt(rule, m)' = NoticesAt(rule, m)
      /\ NoticesAt(rule, m) \subseteq SightingsTo(rule, m)
  BY <1>2, <1>3, OutageFrame
<1>5. Said(rule, j)' = Said(rule, j)
  BY <1>1
<1> QED
  BY <1>1, <1>3, <1>4, <1>5, AnnouncedFrame

\* All of it, for a rule that nothing happens to.
LEMMA ServiceFrame ==
  ASSUME NEW rule, NEW n \in Int, NEW h \in Nat, NEW g \in Nat, n <= h, h <= g,
         DOMAIN history = 1..h, DOMAIN history' = 1..g,
         \A i \in DOMAIN history : history'[i] = history[i],
         \A i : Said(rule, i)' = Said(rule, i),
         UNCHANGED serviceStates[rule.service],
         ServiceReflects(rule, n), \A j \in SightingsTo(rule, n) : Announced(rule, j)
  PROVE  /\ ServiceReflects(rule, n)'
         /\ \A j \in SightingsTo(rule, n)' : Announced(rule, j)'
<1>1. \A j \in SightingsTo(rule, n)' : Announced(rule, j)'
  BY AnnouncementsFrame
<1>2. /\ SightingsTo(rule, n)' = SightingsTo(rule, n)
      /\ \A i \in SightingsTo(rule, n) : history'[i] = history[i]
      /\ NoticesAt(rule, n)' = NoticesAt(rule, n)
      /\ NoticesAt(rule, n) \subseteq SightingsTo(rule, n)
  BY OutageFrame
<1>3. ServiceReflects(rule, n)'
  BY <1>2, ServiceReflectsFrame
<1> QED
  BY <1>1, <1>3

\* What one more sighting makes of the outage.
LEMMA OutageNext ==
  ASSUME NEW rule, NEW n \in Nat, n >= 1, DOMAIN history = 1..n
  PROVE  /\ \A i \in SightingsTo(rule, n - 1) : i \in 1..(n - 1)
         /\ n \notin Sightings(rule) =>
              /\ SightingsTo(rule, n) = SightingsTo(rule, n - 1)
              /\ OutageAt(rule, n) = OutageAt(rule, n - 1)
         /\ n \in Sightings(rule) =>
              /\ SightingsTo(rule, n) = SightingsTo(rule, n - 1) \cup {n}
              /\ IF history[n].services[rule.service] = "down"
                 THEN OutageAt(rule, n) = OutageAt(rule, n - 1) \cup {n}
                 ELSE OutageAt(rule, n) = {}
         /\ \A m \in SightingsTo(rule, n - 1) :
              Greatest(m, SightingsTo(rule, n - 1))
                /\ history[m].services[rule.service] # "down" => OutageAt(rule, n - 1) = {}
<1>1. \A i \in Sightings(rule) : i \in 1..n
  BY DEF Sightings
<1>2. \A i \in SightingsTo(rule, n - 1) : i \in 1..(n - 1)
  BY <1>1 DEF SightingsTo
<1>3. n \notin Sightings(rule) => SightingsTo(rule, n) = SightingsTo(rule, n - 1)
  BY <1>1 DEF SightingsTo
<1>4. n \in Sightings(rule) => SightingsTo(rule, n) = SightingsTo(rule, n - 1) \cup {n}
  <2>1. \A i \in Sightings(rule) : i <= n /\ (i <= n - 1 \/ i = n)
    BY <1>1
  <2> QED
    BY <2>1 DEF SightingsTo
<1>5. ASSUME n \in Sightings(rule)
      PROVE  IF history[n].services[rule.service] = "down"
             THEN OutageAt(rule, n) = OutageAt(rule, n - 1) \cup {n}
             ELSE OutageAt(rule, n) = {}
  BY <1>2, <1>4, <1>5 DEF OutageAt
<1>6. ASSUME NEW m \in SightingsTo(rule, n - 1), Greatest(m, SightingsTo(rule, n - 1)),
             history[m].services[rule.service] # "down"
      PROVE  OutageAt(rule, n - 1) = {}
  BY <1>2, <1>6 DEF OutageAt, Greatest
<1>7. n \notin Sightings(rule) => OutageAt(rule, n) = OutageAt(rule, n - 1)
  BY <1>3 DEF OutageAt
<1> QED
  BY <1>2, <1>3, <1>4, <1>5, <1>6, <1>7

\* A service sighted again: its state follows, and what is said is right.
LEMMA ObservedNext ==
  ASSUME TypeOK, NEW rule \in AllServiceRules, UNCHANGED history,
         NEW n \in Nat, n >= 1, DOMAIN history = 1..n, sample = history[n],
         rule \in ToSet(sample.set.services),
         NEW seen, seen = sample.services[rule.service], seen # "absent",
         NEW old, old = serviceStates[rule.service], old # Unknown,
         NEW new \in ServiceState, new = serviceStates'[rule.service],
         NEW kind \in Kinds, Outcome(rule, seen, old, new, kind),
         Said(rule, n)' = IF kind = "none" THEN {} ELSE {kind},
         \A i \in Int : i <= n - 1 => Said(rule, i)' = Said(rule, i),
         ServiceReflects(rule, n - 1)
  PROVE  ServiceReflects(rule, n)' /\ Announced(rule, n)'
<1> DEFINE Is(i)   == history[i].services[rule.service]
           A       == SightingsTo(rule, n - 1)
           N       == NoticesAt(rule, n - 1)
           M       == IF seen # "down" THEN {} ELSE IF kind = "none" THEN N ELSE N \cup {n}
           due     == \A p \in N :
                        Greatest(p, N) => history[n].at - history[p].at >= rule.repeat
<1>1. /\ n >= 1 /\ DOMAIN history = 1..n /\ sample = history[n] /\ n \in Sightings(rule)
      /\ Is(n) = seen /\ seen \in {"up", "down"}
  <2>1. n \in Sightings(rule)
    BY DEF Sightings
  <2> QED
    BY <2>1, SightingsFacts
<1>2. /\ A' = A /\ N' = N /\ N \subseteq A
      /\ \A i \in A : i \in 1..(n - 1) /\ Is(i) \in {"up", "down"} /\ history[i].at \in Int
  <2>1. n - 1 \in Int /\ n - 1 <= n
    OBVIOUS
  <2>2. PICK k \in Int : k = n - 1
    OBVIOUS
  <2>3. /\ SightingsTo(rule, k)' = SightingsTo(rule, k)
        /\ NoticesAt(rule, k)' = NoticesAt(rule, k)
        /\ NoticesAt(rule, k) \subseteq SightingsTo(rule, k)
    BY <1>1, <2>1, <2>2, OutageFrame
  <2>4. \A i \in A : i \in 1..(n - 1) /\ i \in Sightings(rule)
    BY <1>1, OutageNext DEF SightingsTo
  <2> QED
    BY <2>2, <2>3, <2>4, SightingsFacts
<1>3. PICK m \in A :
        /\ Greatest(m, A) /\ (old.running <=> Is(m) = "up")
        /\ \/ N = {} /\ old.lastFired = Never
           \/ \E p \in N : Greatest(p, N) /\ old.lastFired = history[p].at
  BY DEF ServiceReflects
<1>4. SightingsTo(rule, n)' = A \cup {n} /\ Greatest(n, A \cup {n})
  <2>1. SightingsTo(rule, n)' = SightingsTo(rule, n)
    BY DEF SightingsTo, Sightings
  <2> QED
    BY <1>1, <1>2, <2>1, OutageNext DEF Greatest
<1>5. Is(m) = "up" => N = {}
  BY <1>1, <1>3, OutageNext DEF NoticesAt
<1>6. NoticesAt(rule, n)' = M
  <2>1. OutageAt(rule, n)' = OutageAt(rule, n) /\ OutageAt(rule, n - 1)' = OutageAt(rule, n - 1)
    BY DEF OutageAt, SightingsTo, Sightings
  <2>2. seen = "down" => OutageAt(rule, n) = OutageAt(rule, n - 1) \cup {n}
    BY <1>1, OutageNext
  <2>3. seen # "down" => OutageAt(rule, n) = {}
    BY <1>1, OutageNext
  <2>4. Said(rule, n)' = {} <=> kind = "none"
    OBVIOUS
  <2>5. NoticesAt(rule, n - 1)' = {i \in OutageAt(rule, n - 1) : Said(rule, i)' # {}}
    BY <2>1 DEF NoticesAt
  <2>6. NoticesAt(rule, n)' = {i \in OutageAt(rule, n) : Said(rule, i)' # {}}
    BY <2>1 DEF NoticesAt
  <2>7. N = {i \in OutageAt(rule, n - 1) : Said(rule, i)' # {}}
    BY <1>2, <2>5
  <2> HIDE DEF N
  <2> QED
    BY <2>2, <2>3, <2>4, <2>6, <2>7
<1>7. RepeatDue(rule, old) <=> rule.repeat > 0 /\ due
  <2>1. CASE N = {} /\ old.lastFired = Never
    BY <2>1 DEF RepeatDue, AtLeast
  <2>2. ASSUME NEW p \in N, Greatest(p, N), old.lastFired = history[p].at
        PROVE  RepeatDue(rule, old) <=> rule.repeat > 0 /\ due
    <3>1. \A q \in N : Greatest(q, N) => q = p
      BY <1>2, <2>2 DEF Greatest
    <3>2. due <=> history[n].at - history[p].at >= rule.repeat
      BY <2>2, <3>1
    <3>3. history[p].at # Never
      BY <1>2, NeverAssumption
    <3>4. RepeatDue(rule, old)
            <=> rule.repeat > 0 /\ history[n].at - history[p].at >= rule.repeat
      BY <1>1, <2>2, <3>3 DEF RepeatDue, AtLeast
    <3> QED
      BY <3>2, <3>4
  <2> QED
    BY <1>3, <2>1, <2>2
<1>8. new # Unknown /\ (new.running <=> Is(n) = "up")
  <2>1. new # Unknown
    BY UnknownAssumption DEF ServiceState, Instant
  <2> QED
    BY <1>1, <2>1 DEF Outcome
<1>9. Greatest(n, N \cup {n}) /\ n \notin N
  BY <1>2 DEF Greatest
<1> HIDE DEF due, N, A
<1>10. \/ M = {} /\ new.lastFired = Never
       \/ \E p \in M : Greatest(p, M) /\ new.lastFired = history[p].at
  <2>1. CASE kind \in {"down", "still down"} /\ new.lastFired = sample.at /\ seen = "down"
    <3>1. n \in M /\ Greatest(n, M)
      BY <1>9, <2>1
    <3> QED
      BY <1>1, <2>1, <3>1
  <2>2. CASE seen = "up" /\ new.lastFired = Never
    BY <2>2
  <2>3. CASE seen = "down" /\ kind = "none" /\ new.lastFired = old.lastFired
    BY <1>3, <2>3
  <2>4. CASE seen = "up" /\ old.running /\ new.lastFired = old.lastFired
    <3>1. N = {}
      BY <1>3, <1>5, <2>4
    <3> QED
      BY <1>3, <2>4, <3>1
  <2> QED
    BY <1>1, <2>1, <2>2, <2>3, <2>4 DEF Outcome
<1>11. Said(rule, n)' =
         CASE Is(m) = "up" /\ Is(n) = "down" -> {"down"}
           [] Is(m) = "down" /\ Is(n) = "up" /\ rule.recovery -> {"up"}
           [] Is(m) = "down" /\ Is(n) = "down" /\ rule.repeat > 0 /\ due -> {"still down"}
           [] OTHER -> {}
  <2>1. Is(m) \in {"up", "down"} /\ rule.recovery \in BOOLEAN
    BY <1>2, RuleFacts
  <2>2. CASE old.running /\ seen # "up"
    <3>1. kind = "down" /\ Is(m) = "up" /\ Is(n) = "down"
      BY <1>1, <1>3, <2>2 DEF Outcome
    <3> QED
      BY <3>1
  <2>3. CASE ~old.running /\ seen = "up"
    <3>1. kind = (IF rule.recovery THEN "up" ELSE "none") /\ Is(m) = "down" /\ Is(n) = "up"
      BY <1>1, <1>3, <2>1, <2>3 DEF Outcome
    <3> QED
      BY <2>1, <3>1
  <2>4. CASE ~old.running /\ seen # "up" /\ RepeatDue(rule, old)
    <3>1. /\ kind = "still down" /\ Is(m) = "down" /\ Is(n) = "down"
          /\ rule.repeat > 0 /\ due
      BY <1>1, <1>3, <1>7, <2>1, <2>4 DEF Outcome
    <3> QED
      BY <3>1
  <2>5. CASE ~old.running /\ seen # "up" /\ ~RepeatDue(rule, old)
    <3>1. /\ kind = "none" /\ Is(m) = "down" /\ Is(n) = "down"
          /\ ~(rule.repeat > 0 /\ due)
      BY <1>1, <1>3, <1>7, <2>1, <2>5 DEF Outcome
    <3> QED
      BY <3>1
  <2>6. CASE old.running /\ seen = "up"
    <3>1. kind = "none" /\ Is(m) = "up" /\ Is(n) = "up"
      BY <1>1, <1>3, <2>6 DEF Outcome
    <3> QED
      BY <3>1
  <2> QED
    BY <2>2, <2>3, <2>4, <2>5, <2>6 DEF Outcome
<1>12. ServiceReflects(rule, n)'
  <2>1. n \in SightingsTo(rule, n)' /\ Greatest(n, SightingsTo(rule, n)')
    BY <1>4
  <2> HIDE DEF M
  <2> QED
    BY <1>6, <1>8, <1>10, <2>1 DEF ServiceReflects, Greatest
<1>13. Announced(rule, n)'
  <2>1. N = {} \/ \E p \in N : Greatest(p, N)
    BY <1>3
  <2>2. A' = A /\ N' = N /\ (due' <=> due)
    BY <1>2 DEF due, Greatest
  <2>3. m \in A' /\ Greatest(m, A)'
    BY <1>3, <2>2 DEF Greatest
  <2>4. N' = {} \/ \E p \in N' : Greatest(p, N)'
    BY <2>1, <2>2 DEF Greatest
  <2>5. Said(rule, n)' =
          CASE Is(m)' = "up" /\ Is(n)' = "down" -> {"down"}
            [] Is(m)' = "down" /\ Is(n)' = "up" /\ rule.recovery -> {"up"}
            [] Is(m)' = "down" /\ Is(n)' = "down" /\ rule.repeat > 0 /\ due' -> {"still down"}
            [] OTHER -> {}
    BY <1>11, <2>2
  <2> QED
    BY <2>3, <2>4, <2>5 DEF Announced, due, A, N
<1> QED
  BY <1>12, <1>13

\* A message is about a sample with a number.
LEMMA MessageFacts ==
  ASSUME NEW s \in Seq(Messages)
  PROVE  \A k \in DOMAIN s : s[k].sample \in Nat
<1>1. \A m \in Messages : m.sample \in Nat
  BY DEF Messages
<1>2. \A k \in DOMAIN s : s[k] \in Messages
  BY LenProperties, ElementOfSeq
<1> QED
  BY <1>1, <1>2

\* A service rule has been evaluated on every sample, or on all but the last.
LEMMA DoneFacts ==
  ASSUME TypeOK, PendingInv, NEW rule
  PROVE  \E n \in Nat, d \in Nat :
           /\ n = Len(history) /\ DOMAIN history = 1..n /\ d = Done(rule) /\ d <= n
           /\ rule \in ToSet(serviceTodo) => n >= 1 /\ d = n - 1
           /\ rule \notin ToSet(serviceTodo) => d = n
<1>1. PICK n \in Nat : n = Len(history) /\ DOMAIN history = 1..n
  BY Timestamps
<1>2. CASE rule \in ToSet(serviceTodo)
  <2>1. serviceTodo # <<>>
    BY <1>2 DEF ToSet
  <2>2. history # <<>>
    BY <2>1 DEF PendingInv
  <2>3. n >= 1
    BY <1>1, <2>2, SampleFacts
  <2> QED
    BY <1>1, <1>2, <2>3 DEF Done
<1>3. CASE rule \notin ToSet(serviceTodo)
  BY <1>1, <1>3 DEF Done
<1> QED
  BY <1>2, <1>3

\* A step that does not concern a service rule.
LEMMA ServiceQuiet ==
  ASSUME TypeOK, PendingInv, NEW rule, ServiceInv(rule), UNCHANGED history,
         UNCHANGED serviceStates[rule.service],
         rule \in ToSet(serviceTodo') <=> rule \in ToSet(serviceTodo),
         MessagesOf(rule)' = MessagesOf(rule), \A k \in DOMAIN log : log'[k] = log[k],
         \A i : Said(rule, i)' = Said(rule, i)
  PROVE  ServiceInv(rule)'
<1>1. PICK n \in Nat, d \in Nat :
        DOMAIN history = 1..n /\ d = Done(rule) /\ d <= n
  BY DoneFacts
<1>2. Done(rule)' = d
  BY <1>1 DEF Done
<1>3. /\ ServiceReflects(rule, d) /\ \A j \in SightingsTo(rule, d) : Announced(rule, j)
      /\ \A k \in MessagesOf(rule) : log[k].sample <= d
  BY <1>1 DEF ServiceInv
<1>4. /\ ServiceReflects(rule, d)'
      /\ \A j \in SightingsTo(rule, d)' : Announced(rule, j)'
  BY <1>1, <1>3, ServiceFrame
<1>5. \A k \in MessagesOf(rule)' : log'[k].sample <= d
  BY <1>3 DEF MessagesOf
<1> QED
  BY <1>2, <1>4, <1>5 DEF ServiceInv

\* A sample has come: the rule waits for it, or is not among its rules.
LEMMA ServiceHandle ==
  ASSUME TypeOK, PendingInv, NEW rule \in AllServiceRules, ServiceInv(rule),
         NEW obs \in Observations, NEW dt \in Steps, Handle(obs, dt)
  PROVE  ServiceInv(rule)'
<1>1. PICK n \in Nat :
        /\ n = Len(history) /\ n + 1 = Len(history')
        /\ DOMAIN history = 1..n /\ DOMAIN history' = 1..(n + 1)
        /\ \A i \in DOMAIN history : history'[i] = history[i]
        /\ sample' = history'[n + 1]
        /\ serviceTodo' = sample'.set.services
  BY HandleFacts
<1>2. UNCHANGED <<serviceStates, log>> /\ serviceTodo = <<>>
  BY DEF Handle
<1>3. Done(rule) = n
  BY <1>1, <1>2 DEF Done, ToSet
<1>4. /\ ServiceReflects(rule, n) /\ \A j \in SightingsTo(rule, n) : Announced(rule, j)
      /\ \A k \in MessagesOf(rule) : log[k].sample <= n
  BY <1>3 DEF ServiceInv
<1>5. \A i : Said(rule, i)' = Said(rule, i)
  BY <1>2 DEF Said, MessagesOf
<1>6. /\ ServiceReflects(rule, n)'
      /\ \A j \in SightingsTo(rule, n)' : Announced(rule, j)'
  BY <1>1, <1>2, <1>4, <1>5, ServiceFrame
<1>7. \A k \in MessagesOf(rule)' : log'[k].sample <= n
  BY <1>2, <1>4 DEF MessagesOf
<1>8. CASE rule \in ToSet(serviceTodo')
  <2>1. Done(rule)' = n
    BY <1>1, <1>8 DEF Done
  <2> QED
    BY <1>6, <1>7, <2>1 DEF ServiceInv
<1>9. CASE rule \notin ToSet(serviceTodo')
  <2>1. Done(rule)' = n + 1
    BY <1>1, <1>9 DEF Done
  <2>2. \A i \in Sightings(rule)' : i \in 1..n
    <3>1. n + 1 \notin Sightings(rule)'
      BY <1>1, <1>9 DEF Sightings
    <3> QED
      BY <1>1, <3>1 DEF Sightings
  <2>3. SightingsTo(rule, n + 1)' = SightingsTo(rule, n)'
    BY <2>2 DEF SightingsTo
  <2>4. NoticesAt(rule, n + 1)' = NoticesAt(rule, n)'
    BY <2>3 DEF NoticesAt, OutageAt
  <2>5. ServiceReflects(rule, n + 1)'
    BY <1>6, <2>3, <2>4 DEF ServiceReflects
  <2>6. \A k \in MessagesOf(rule)' : log'[k].sample <= n + 1
    <3>1. MessagesOf(rule)' \subseteq DOMAIN log /\ log \in Seq(Messages)
      BY <1>2 DEF MessagesOf, TypeOK
    <3>2. \A k \in DOMAIN log : log[k].sample \in Nat
      BY <3>1, MessageFacts
    <3> QED
      BY <1>2, <1>7, <3>1, <3>2
  <2> QED
    BY <1>6, <2>1, <2>3, <2>5, <2>6 DEF ServiceInv
<1> QED
  BY <1>8, <1>9

\* A service rule of the snapshot is evaluated: the others keep their state, it
\* catches up.
LEMMA ServiceEvaluated ==
  ASSUME TypeOK, PendingInv, LogInv, NamesStandForRules, OneRulePerService,
         \A i, j \in DOMAIN serviceTodo : serviceTodo[i] = serviceTodo[j] => i = j,
         EvaluateServiceRule, NEW q \in AllServiceRules, ServiceInv(q)
  PROVE  ServiceInv(q)'
<1>1. PICK rule \in AllServiceRules :
        /\ rule \in ToSet(serviceTodo) /\ rule \notin ToSet(serviceTodo')
        /\ rule \in ToSet(sample.set.services) /\ history # <<>>
        /\ ToSet(serviceTodo) = {rule} \cup ToSet(serviceTodo')
        /\ LET seen == sample.services[rule.service]
               st   == serviceStates[rule.service]
           IN \/ seen = "absent" /\ UNCHANGED <<serviceStates, log>>
              \/ seen # "absent" /\ st = Unknown /\ FirstSight(rule, seen = "up")
              \/ seen # "absent" /\ st # Unknown /\ Sighted(rule, seen)
        /\ UNCHANGED history
  BY EvaluateServiceFacts
<1>2. PICK n \in Nat, d \in Nat :
        /\ n = Len(history) /\ DOMAIN history = 1..n /\ d = Done(rule)
        /\ n >= 1 /\ d = n - 1 /\ sample = history[n]
  BY <1>1, DoneFacts, SampleFacts
<1>3. PICK seen, st, new :
        /\ seen = sample.services[rule.service] /\ st = serviceStates[rule.service]
        /\ new = serviceStates'[rule.service]
  OBVIOUS
<1>4. /\ q.service \in Services /\ rule.service \in Services
      /\ q # rule => q.name # rule.name /\ q.service # rule.service
  BY RuleFacts DEF NamesStandForRules, OneRulePerService
\* What the step does to the states and the log.
<1>5. PICK kind \in Kinds :
        /\ \A s \in Services : s # rule.service => serviceStates'[s] = serviceStates[s]
        /\ \/ kind = "none" /\ UNCHANGED log
           \/ Publish(rule, kind)
        /\ \/ seen = "absent" /\ kind = "none" /\ UNCHANGED serviceStates
           \/ /\ seen # "absent" /\ st = Unknown /\ kind = "none"
              /\ new = [running |-> seen = "up", lastFired |-> Never]
           \/ /\ seen # "absent" /\ st # Unknown /\ new \in ServiceState
              /\ Outcome(rule, seen, st, new, kind)
  <2>1. CASE seen = "absent" /\ UNCHANGED <<serviceStates, log>>
    BY <2>1, KindNames
  <2>2. CASE seen # "absent" /\ st = Unknown /\ FirstSight(rule, seen = "up")
    <3>1. /\ \A s \in Services : s # rule.service => serviceStates'[s] = serviceStates[s]
          /\ new = [running |-> seen = "up", lastFired |-> Never] /\ UNCHANGED log
      BY <1>3, <1>4, <2>2 DEF FirstSight, TypeOK
    <3> QED
      BY <2>2, <3>1, KindNames
  <2>3. CASE seen # "absent" /\ st # Unknown /\ Sighted(rule, seen)
    <3>1. PICK fresh \in ServiceState, kind \in Kinds :
            /\ serviceStates'[rule.service] = fresh
            /\ \A s \in Services : s # rule.service => serviceStates'[s] = serviceStates[s]
            /\ Publish(rule, kind)
            /\ Outcome(rule, seen, st, fresh, kind)
      BY <1>1, <1>3, <2>3, ObserveFacts
    <3>2. fresh = new
      BY <1>3, <3>1
    <3> QED
      BY <2>3, <3>1, <3>2
  <2> QED
    BY <1>1, <1>3, <2>1, <2>2, <2>3
<1>6. \A k \in DOMAIN log : log'[k] = log[k]
  BY <1>1, <1>5, MessagesGrow
<1>7. CASE q # rule
  <2>1. MessagesOf(q)' = MessagesOf(q)
    <3>1. CASE UNCHANGED log
      BY <3>1 DEF MessagesOf
    <3>2. CASE Publish(rule, kind)
      BY <1>1, <1>4, <1>7, <3>2, MessagesGrow
    <3> QED
      BY <1>5, <3>1, <3>2
  <2>2. \A i : Said(q, i)' = Said(q, i)
    BY <1>6, <2>1 DEF Said, MessagesOf
  <2>3. UNCHANGED serviceStates[q.service]
    BY <1>4, <1>5, <1>7
  <2>4. q \in ToSet(serviceTodo') <=> q \in ToSet(serviceTodo)
    BY <1>1, <1>7
  <2> QED
    BY <1>1, <1>6, <2>1, <2>2, <2>3, <2>4, ServiceQuiet
<1>8. CASE q = rule
  <2>1. /\ ServiceReflects(rule, d) /\ \A j \in SightingsTo(rule, d) : Announced(rule, j)
        /\ \A k \in MessagesOf(rule) : log[k].sample <= d
    BY <1>2, <1>8 DEF ServiceInv
  <2>2. Done(rule)' = n
    BY <1>1, <1>2 DEF Done
  <2>10. /\ d \in Int /\ d <= n /\ n <= n /\ DOMAIN history' = 1..n
        /\ \A i \in DOMAIN history : history'[i] = history[i]
    BY <1>1, <1>2
  <2>11. rule \in AllRules \cup AllServiceRules /\ history # <<>> /\ kind \in Kinds
    BY <1>1
  <2>3. Said(rule, n) = {}
    <3>1. \A k \in MessagesOf(rule) : log[k].sample # n
      BY <1>2, <2>1
    <3> QED
      BY <3>1 DEF Said
  <2>4. /\ \A i \in Int : i <= d => Said(rule, i)' = Said(rule, i)
        /\ Said(rule, n)' = IF kind = "none" THEN {} ELSE {kind}
    <3>1. CASE kind = "none" /\ UNCHANGED log
      BY <2>3, <3>1 DEF Said, MessagesOf
    <3>2. CASE Publish(rule, kind)
      <4>0. n = Len(history)
        BY <1>2
      <4>1. ASSUME NEW i, i # n PROVE Said(rule, i)' = Said(rule, i)
        BY <2>11, <3>2, <4>0, <4>1, SaidElsewhere
      <4>2. kind = "none" => Said(rule, n)' = Said(rule, n)
        BY <2>11, <3>2, <4>0, SaidGrows
      <4>3. kind # "none" => Said(rule, n)' = Said(rule, n) \cup {kind}
        BY <2>11, <3>2, <4>0, SaidGrows
      <4>4. \A i \in Int : i <= d => i # n
        BY <1>2
      <4> QED
        BY <2>3, <4>1, <4>2, <4>3, <4>4
    <3> QED
      BY <1>5, <3>1, <3>2
  <2>5. \A k \in MessagesOf(rule)' : log'[k].sample <= n
    <3>1. \A k \in MessagesOf(rule) : log[k].sample \in Nat /\ log[k].sample <= n
      BY <1>2, <2>1 DEF LogInv, MessagesOf
    <3>2. CASE UNCHANGED log
      BY <3>1, <3>2 DEF MessagesOf
    <3>3. CASE Publish(rule, kind)
      <4>1. PICK l :
              /\ kind = "none" => MessagesOf(rule)' = MessagesOf(rule)
              /\ kind # "none" => /\ MessagesOf(rule)' = MessagesOf(rule) \cup {l}
                                  /\ log'[l].sample = n
        BY <1>1, <1>2, <3>3, MessagesGrow
      <4>2. \A k \in MessagesOf(rule) : log'[k] = log[k]
        BY <1>6 DEF MessagesOf
      <4> QED
        BY <3>1, <4>1, <4>2
    <3> QED
      BY <1>5, <3>2, <3>3
  <2>6. \A j \in SightingsTo(rule, d)' : Announced(rule, j)'
    BY <1>2, <2>1, <2>4, <2>10, AnnouncementsFrame
  <2>7. /\ SightingsTo(rule, n)' = SightingsTo(rule, n)
        /\ SightingsTo(rule, d)' = SightingsTo(rule, d)
        /\ OutageAt(rule, n)' = OutageAt(rule, n)
    BY <1>1 DEF SightingsTo, Sightings, OutageAt
  <2>8. n \in Sightings(rule) <=> seen # "absent"
    BY <1>1, <1>2, <1>3 DEF Sightings
  <2>9. /\ ServiceReflects(rule, n)'
        /\ \A j \in SightingsTo(rule, n)' : Announced(rule, j)'
    <3>1. CASE seen = "absent" /\ kind = "none" /\ UNCHANGED serviceStates
      <4>1. SightingsTo(rule, n) = SightingsTo(rule, d) /\ OutageAt(rule, n) = OutageAt(rule, d)
        BY <1>2, <2>8, <3>1, OutageNext
      <4>2. /\ SightingsTo(rule, d)' = SightingsTo(rule, d)
            /\ \A i \in SightingsTo(rule, d) : history'[i] = history[i]
            /\ NoticesAt(rule, d)' = NoticesAt(rule, d)
            /\ NoticesAt(rule, d) \subseteq SightingsTo(rule, d)
        BY <1>2, <2>4, <2>10, OutageFrame
      <4>3. ServiceReflects(rule, d)'
        BY <2>1, <3>1, <4>2, ServiceReflectsFrame
      <4>4. OutageAt(rule, d)' = OutageAt(rule, d)
        BY <1>1 DEF SightingsTo, Sightings, OutageAt
      <4>5. /\ NoticesAt(rule, n)' = NoticesAt(rule, d)'
            /\ SightingsTo(rule, n)' = SightingsTo(rule, d)'
        BY <2>7, <4>1, <4>4 DEF NoticesAt
      <4>6. ServiceReflects(rule, n)'
        BY <4>3, <4>5 DEF ServiceReflects
      <4> QED
        BY <2>6, <4>5, <4>6
    <3>2. CASE /\ seen # "absent" /\ st = Unknown /\ kind = "none"
               /\ new = [running |-> seen = "up", lastFired |-> Never]
      <4>1. SightingsTo(rule, d) = {}
        BY <1>3, <2>1, <3>2 DEF ServiceReflects
      <4>2. SightingsTo(rule, n)' = {n}
        BY <1>2, <2>7, <2>8, <3>2, <4>1, OutageNext
      <4>3. NoticesAt(rule, n)' = {}
        <5>1. OutageAt(rule, n)' \subseteq {n}
          BY <4>2 DEF OutageAt
        <5>2. Said(rule, n)' = {}
          BY <2>4, <3>2
        <5> QED
          BY <5>1, <5>2 DEF NoticesAt
      <4>4. /\ new # Unknown /\ new.lastFired = Never
            /\ new.running <=> history[n].services[rule.service] = "up"
        <5>1. new \in [running : BOOLEAN, lastFired : Int \cup {Never}]
          BY <3>2
        <5>2. new # Unknown
          BY <5>1, UnknownAssumption
        <5>3. new.lastFired = Never /\ (new.running <=> seen = "up")
          BY <3>2
        <5>4. seen = history[n].services[rule.service]
          BY <1>2, <1>3
        <5> QED
          BY <5>2, <5>3, <5>4
      <4>5. ServiceReflects(rule, n)'
        <5>1. n \in SightingsTo(rule, n)' /\ Greatest(n, SightingsTo(rule, n)')
          BY <4>2 DEF Greatest
        <5> QED
          BY <1>1, <1>3, <4>3, <4>4, <5>1 DEF ServiceReflects, Greatest
      <4>6. Announced(rule, n)'
        <5>1. SightingsTo(rule, n - 1)' = {} /\ Said(rule, n)' = {}
          BY <1>2, <2>4, <2>7, <3>2, <4>1
        <5> QED
          BY <5>1 DEF Announced
      <4> QED
        BY <4>2, <4>5, <4>6
    <3>3. CASE /\ seen # "absent" /\ st # Unknown /\ new \in ServiceState
               /\ Outcome(rule, seen, st, new, kind)
      <4>1. ServiceReflects(rule, n)' /\ Announced(rule, n)'
        BY <1>1, <1>2, <1>3, <2>1, <2>4, <3>3, ObservedNext
      <4>2. SightingsTo(rule, n)' = SightingsTo(rule, d)' \cup {n}
        BY <1>2, <2>7, <2>8, <3>3, OutageNext
      <4> QED
        BY <2>6, <4>1, <4>2
    <3> QED
      BY <1>5, <3>1, <3>2, <3>3
  <2> QED
    BY <1>8, <2>2, <2>5, <2>9 DEF ServiceInv
<1> QED
  BY <1>7, <1>8

\* Evaluating a threshold rule says nothing about a service.
LEMMA ServiceUntouched ==
  ASSUME TypeOK, PendingInv, NamesStandForRules, EvaluateRule,
         NEW q \in AllServiceRules, ServiceInv(q)
  PROVE  ServiceInv(q)'
<1>1. PICK rule \in AllRules :
        /\ history # <<>>
        /\ LET value == sample.metrics[rule.metric]
               st    == ruleStates[rule.name]
           IN \/ value = Missing /\ UNCHANGED <<ruleStates, log>>
              \/ value \in rule.breach /\ value # Missing /\ Breach(rule, st)
              \/ value \notin rule.breach /\ value # Missing /\ Recover(rule, st)
        /\ UNCHANGED <<serviceStates, serviceTodo, history>>
  BY EvaluateFacts
<1>2. PICK st : st = ruleStates[rule.name]
  OBVIOUS
<1>3. UNCHANGED log \/ \E kind \in Kinds : Publish(rule, kind)
  <2>1. CASE Breach(rule, st)
    <3>1. Publish(rule, "none") \/ Publish(rule, "fire") \/ Publish(rule, "repeat")
      BY <1>1, <1>2, <2>1, BreachFacts
    <3> QED
      BY <3>1, KindNames
  <2>2. CASE Recover(rule, st)
    <3>1. Publish(rule, "recovered") \/ Publish(rule, "none")
      BY <1>2, <2>2, RecoverFacts
    <3> QED
      BY <3>1, KindNames
  <2> QED
    BY <1>1, <1>2, <2>1, <2>2
<1>4. /\ MessagesOf(q)' = MessagesOf(q)
      /\ \A k \in DOMAIN log : log'[k] = log[k]
  <2>1. CASE UNCHANGED log
    BY <2>1 DEF MessagesOf
  <2>2. ASSUME NEW kind \in Kinds, Publish(rule, kind)
        PROVE  /\ MessagesOf(q)' = MessagesOf(q)
               /\ \A k \in DOMAIN log : log'[k] = log[k]
    <3>1. q.name # rule.name
      BY DEF NamesStandForRules
    <3> QED
      BY <1>1, <2>2, <3>1, MessagesGrow
  <2> QED
    BY <1>3, <2>1, <2>2
<1>5. \A i : Said(q, i)' = Said(q, i)
  BY <1>4 DEF Said, MessagesOf
<1> QED
  BY <1>1, <1>4, <1>5, ServiceQuiet

\* Every step keeps what is known of the services.
LEMMA ServicesStep ==
  ASSUME TypeOK, PendingInv, LogInv, ServicesInv, [Next]_vars
  PROVE  ServicesInv'
<1> SUFFICES ASSUME NamesStandForRules, OneRulePerService
             PROVE  /\ (\A i, j \in DOMAIN serviceTodo :
                          serviceTodo[i] = serviceTodo[j] => i = j)'
                    /\ \A rule \in AllServiceRules : ServiceInv(rule)'
  BY DEF ServicesInv, NamesStandForRules, OneRulePerService
<1>1. /\ \A i, j \in DOMAIN serviceTodo : serviceTodo[i] = serviceTodo[j] => i = j
      /\ \A rule \in AllServiceRules : ServiceInv(rule)
  BY DEF ServicesInv
<1>2. (\A i, j \in DOMAIN serviceTodo : serviceTodo[i] = serviceTodo[j] => i = j)'
  <2>1. CASE UNCHANGED serviceTodo
    BY <1>1, <2>1
  <2>2. ASSUME NEW obs \in Observations, NEW dt \in Steps, Handle(obs, dt)
        PROVE  (\A i, j \in DOMAIN serviceTodo : serviceTodo[i] = serviceTodo[j] => i = j)'
    <3>1. serviceTodo' = current.services /\ current \in RuleSets
      BY <2>2 DEF Handle, TypeOK
    <3> QED
      BY <3>1 DEF OneRulePerService
  <2>3. CASE EvaluateServiceRule
    BY <1>1, <2>3, EvaluateServiceFacts
  <2> QED
    BY <2>1, <2>2, <2>3 DEF Next, vars, SetRules, EvaluateRule
<1>3. ASSUME NEW rule \in AllServiceRules PROVE ServiceInv(rule)'
  <2>1. ServiceInv(rule)
    BY <1>1
  <2>2. CASE UNCHANGED <<serviceStates, serviceTodo, history, log>>
    <3>1. /\ UNCHANGED serviceStates[rule.service]
          /\ rule \in ToSet(serviceTodo') <=> rule \in ToSet(serviceTodo)
          /\ \A k \in DOMAIN log : log'[k] = log[k]
          /\ UNCHANGED history
      BY <2>2
    <3>2. MessagesOf(rule)' = MessagesOf(rule) /\ \A i : Said(rule, i)' = Said(rule, i)
      BY <2>2 DEF Said, MessagesOf
    <3> QED
      BY <2>1, <3>1, <3>2, ServiceQuiet
  <2>3. ASSUME NEW new \in RuleSets, SetRules(new)
        PROVE  UNCHANGED <<serviceStates, serviceTodo, history, log>>
    BY <2>3 DEF SetRules
  <2>4. UNCHANGED vars => UNCHANGED <<serviceStates, serviceTodo, history, log>>
    BY DEF vars
  <2>5. ASSUME NEW obs \in Observations, NEW dt \in Steps, Handle(obs, dt)
        PROVE  ServiceInv(rule)'
    BY <2>1, <2>5, ServiceHandle
  <2>6. CASE EvaluateRule
    BY <2>1, <2>6, ServiceUntouched
  <2>7. CASE EvaluateServiceRule
    BY <1>1, <2>1, <2>7, ServiceEvaluated
  <2> QED
    BY <2>2, <2>3, <2>4, <2>5, <2>6, <2>7 DEF Next
<1> QED
  BY <1>2, <1>3

\* At the start no service has been seen.
LEMMA ServicesInit == Init => ServicesInv
<1> SUFFICES ASSUME Init PROVE ServicesInv
  OBVIOUS
<1>1. DOMAIN log = {} /\ DOMAIN history = {} /\ DOMAIN serviceTodo = {}
  BY DEF Init
<1>2. ASSUME NEW rule \in AllServiceRules PROVE ServiceInv(rule)
  <2>1. serviceStates[rule.service] = Unknown
    BY RuleFacts DEF Init
  <2>2. \A n : SightingsTo(rule, n) = {}
    BY <1>1 DEF SightingsTo, Sightings
  <2>3. MessagesOf(rule) = {}
    BY <1>1 DEF MessagesOf
  <2>4. \A n : ServiceReflects(rule, n)
    BY <2>1, <2>2 DEF ServiceReflects
  <2> QED
    BY <2>2, <2>3, <2>4 DEF ServiceInv
<1> QED
  BY <1>1, <1>2 DEF ServicesInv

\* The invariants tell what is said after each sighting.
LEMMA OutagesFollow == TypeOK /\ PendingInv /\ ServicesInv => OutagesAnnounced
<1> SUFFICES ASSUME TypeOK, PendingInv, ServicesInv, NamesStandForRules, OneRulePerService,
                    evaluated, NEW rule \in AllServiceRules, NEW j \in Sightings(rule)
             PROVE  LET Is(i)   == history[i].services[rule.service]
                        earlier == {i \in Sightings(rule) : i < j}
                        was     == IF earlier = {} THEN "unknown" ELSE Is(Max(earlier))
                        outage  == {i \in earlier :
                                      \A k \in earlier : k >= i => Is(k) = "down"}
                        notices == {i \in outage : Said(rule, i) # {}}
                        due     == history[j].at - history[Max(notices)].at >= rule.repeat
                    IN CASE was = "up" /\ Is(j) = "down" -> Said(rule, j) = {"down"}
                         [] was = "down" /\ Is(j) = "up" /\ rule.recovery ->
                              Said(rule, j) = {"up"}
                         [] was = "down" /\ Is(j) = "down" /\ rule.repeat > 0 ->
                              \/ notices = {} /\ Said(rule, j) \subseteq {"still down"}
                              \/ /\ notices # {}
                                 /\ Said(rule, j) = IF due THEN {"still down"} ELSE {}
                         [] OTHER -> Said(rule, j) = {}
  BY DEF OutagesAnnounced
<1> DEFINE Is(i)   == history[i].services[rule.service]
           earlier == {i \in Sightings(rule) : i < j}
           was     == IF earlier = {} THEN "unknown" ELSE Is(Max(earlier))
           outage  == {i \in earlier : \A k \in earlier : k >= i => Is(k) = "down"}
           notices == {i \in outage : Said(rule, i) # {}}
           late    == history[j].at - history[Max(notices)].at >= rule.repeat
           due     == notices = {} \/ late
           overdue == \A p \in notices : Greatest(p, notices) =>
                        history[j].at - history[p].at >= rule.repeat
<1>1. \A i \in Sightings(rule) : i \in Int
  BY SightingsFacts
<1>2. /\ earlier = SightingsTo(rule, j - 1)
      /\ outage = OutageAt(rule, j - 1) /\ notices = NoticesAt(rule, j - 1)
  <2>1. \A i \in Sightings(rule) : i < j <=> i <= j - 1
    BY <1>1
  <2>2. earlier = SightingsTo(rule, j - 1)
    BY <2>1 DEF SightingsTo
  <2>3. outage = OutageAt(rule, j - 1)
    BY <2>2 DEF OutageAt
  <2> QED
    BY <2>2, <2>3 DEF NoticesAt
<1>3. earlier \in SUBSET Int /\ notices \in SUBSET Int
  BY <1>1
<1>4. Announced(rule, j)
  <2>1. PICK n \in Nat : n = Done(rule) /\ n = Len(history) /\ DOMAIN history = 1..n
    <3>1. ToSet(serviceTodo) = {}
      BY DEF evaluated, ToSet
    <3> QED
      BY <3>1, DoneFacts
  <2>2. j \in SightingsTo(rule, n)
    BY <2>1 DEF SightingsTo, Sightings
  <2> QED
    BY <2>1, <2>2 DEF ServicesInv, ServiceInv
<1> HIDE DEF earlier, outage, notices
<1>5. CASE earlier = {} /\ Said(rule, j) = {}
  <2>1. was = "unknown"
    BY <1>5
  <2>2. was # "up" /\ was # "down"
    BY <2>1
  <2> HIDE DEF was, due
  <2>3. Said(rule, j) =
          CASE was = "up" /\ Is(j) = "down" -> {"down"}
            [] was = "down" /\ Is(j) = "up" /\ rule.recovery -> {"up"}
            [] was = "down" /\ Is(j) = "down" /\ rule.repeat > 0 /\ due -> {"still down"}
            [] OTHER -> {}
    BY <1>5, <2>2
  <2> QED
    BY <2>3 DEF was, due, notices, outage, earlier
<1>6. ASSUME NEW m \in earlier, Greatest(m, earlier),
             notices = {} \/ \E p \in notices : Greatest(p, notices),
             Said(rule, j) =
               CASE Is(m) = "up" /\ Is(j) = "down" -> {"down"}
                 [] Is(m) = "down" /\ Is(j) = "up" /\ rule.recovery -> {"up"}
                 [] Is(m) = "down" /\ Is(j) = "down" /\ rule.repeat > 0 /\ overdue ->
                      {"still down"}
                 [] OTHER -> {}
      PROVE  Said(rule, j) =
               CASE was = "up" /\ Is(j) = "down" -> {"down"}
                 [] was = "down" /\ Is(j) = "up" /\ rule.recovery -> {"up"}
                 [] was = "down" /\ Is(j) = "down" /\ rule.repeat > 0 /\ due -> {"still down"}
                 [] OTHER -> {}
  <2>1. was = Is(m)
    <3>1. Max(earlier) = m
      BY <1>3, <1>6, MaxIs
    <3> QED
      BY <1>6, <3>1
  <2>2. due <=> overdue
    <3>1. CASE notices = {}
      BY <3>1
    <3>2. ASSUME NEW p \in notices, Greatest(p, notices) PROVE due <=> overdue
      <4>1. Max(notices) = p
        BY <1>3, <3>2, MaxIs
      <4>2. \A r \in notices : Greatest(r, notices) => r = p
        BY <1>3, <3>2 DEF Greatest
      <4> QED
        BY <3>2, <4>1, <4>2
    <3> QED
      BY <1>6, <3>1, <3>2
  <2> HIDE DEF was, due, overdue
  <2> QED
    BY <1>6, <2>1, <2>2
<1>7. Said(rule, j) =
        CASE was = "up" /\ Is(j) = "down" -> {"down"}
          [] was = "down" /\ Is(j) = "up" /\ rule.recovery -> {"up"}
          [] was = "down" /\ Is(j) = "down" /\ rule.repeat > 0 /\ due -> {"still down"}
          [] OTHER -> {}
  BY <1>2, <1>4, <1>5, <1>6 DEF Announced, earlier, outage, notices
<1> HIDE DEF was, late
<1> QED
  <2>1. CASE was = "up" /\ Is(j) = "down"
    BY <1>7, <2>1 DEF late, was, earlier, outage, notices
  <2>2. CASE was = "down" /\ Is(j) = "up"
    BY <1>7, <2>2 DEF late, was, earlier, outage, notices
  <2>3. CASE was = "down" /\ Is(j) = "down" /\ rule.repeat > 0
    BY <1>7, <2>3 DEF late, was, earlier, outage, notices
  <2>4. CASE was = "down" /\ Is(j) = "down" /\ ~(rule.repeat > 0)
    BY <1>7, <2>4 DEF late, was, earlier, outage, notices
  <2> QED
    BY <2>1, <2>2, <2>3, <2>4, <1>7 DEF late, was, earlier, outage, notices

-----------------------------------------------------------------------------
(* What is said                                                            *)

\* The invariants hold at the start, and every step keeps them.
LEMMA Invariants == Spec => []IInv
<1>1. Init => IInv
  BY TypeInit, RulesInit, ServicesInit DEF IInv
<1>2. IInv /\ [Next]_vars => IInv'
  BY TypeStep, LogInvStep, RulesStep, ServicesStep DEF IInv
<1> QED
  BY <1>1, <1>2, PTL DEF Spec

\* The messages about a threshold rule form episodes, whatever rule sets, samples
\* and timestamps come: evaluateRule (alerts.go) fires once, repeats no more often
\* than RepeatInterval and recalls an alert once.
THEOREM EpisodesAreOrderly == Spec => []Episodes
<1>1. IInv => Episodes
  BY EpisodesFollow DEF IInv
<1> QED
  BY <1>1, Invariants, PTL

\* After each sample the last word about a threshold rule is that it is breached
\* exactly when the samples it met say so: Evaluator.Handle (alerts.go) neither
\* misses nor invents an alert, though rule sets are replaced at any moment.
THEOREM LastWordIsRight == Spec => []AlertsFollowSamples
<1>1. IInv => AlertsFollowSamples
  BY LastWordsFollow DEF IInv
<1> QED
  BY <1>1, Invariants, PTL

\* What is said about a service is determined by the samples it was seen in:
\* evaluateServiceRule (alerts.go) announces each change once, reminds of an outage
\* no more often than RepeatInterval, and is silent otherwise, though rule sets come
\* and go while a service is down. Only the first reminder of an outage that began
\* before the service was seen is left open.
THEOREM OutagesAreAnnounced == Spec => []OutagesAnnounced
<1>1. IInv => OutagesAnnounced
  BY OutagesFollow DEF IInv
<1> QED
  BY <1>1, Invariants, PTL
=============================================================================
