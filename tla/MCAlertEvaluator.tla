-------------------------- MODULE MCAlertEvaluator --------------------------
(* One debounced, repeating memory rule and one service rule, installed    *)
(* together or not at all.                                                 *)
EXTENDS AlertEvaluator

mem == [name |-> "mem", metric |-> "mem_percent", breach |-> {"high"}, for |-> 2, repeat |-> 2]

web == [name |-> "web", service |-> "nginx", recovery |-> TRUE, repeat |-> 2]

RuleSet(rules, services) == [rules |-> rules, services |-> services]

OneRuleSets == {RuleSet(<<mem>>, <<web>>), RuleSet(<<>>, <<>>)}

\* What samples say. The two kinds of rule share no state, so most samples
\* vary only one of them.
Observed(m, s) == [metrics |-> [x \in Metrics |-> m], services |-> [x \in Services |-> s]]

MCObservations ==
  {Observed(m, "absent") : m \in {"low", "high", Missing}}
    \cup {Observed(Missing, s) : s \in {"up", "down"}}
    \cup {Observed("high", "down")}

\* Samples are half the rules' durations apart, or a whole one, or the clock is
\* set back in between.
MCSteps == {1, 2, -1}
=============================================================================
