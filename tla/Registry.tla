------------------------------ MODULE Registry ------------------------------
(***************************************************************************)
(* What the push-token registry promises, with no files: devices come and  *)
(* go in the list in use, the whole list becomes durable in one step, and  *)
(* only what has just become durable is acknowledged; the agent starts     *)
(* with what is durable. TokenStore implements this as long as saves do    *)
(* not overlap.                                                            *)
(***************************************************************************)
CONSTANTS
  Tokens,         \* device tokens
  Registration,   \* what is kept of a registered device
  Unregistered    \* what the token of any other device maps to

VARIABLES
  listed,         \* the list in use
  durable,        \* the list a restart would bring back
  acked,          \* devices told that they are registered
  up              \* whether the agent runs

vars == <<listed, durable, acked, up>>

Nobody == [t \in Tokens |-> Unregistered]

Init == up = TRUE /\ listed = Nobody /\ durable = Nobody /\ acked = {}

Register(t) ==
  /\ up
  /\ \E reg \in Registration : listed' = [listed EXCEPT ![t] = reg]
  /\ UNCHANGED <<durable, acked, up>>

Prune(t) ==
  /\ up
  /\ listed' = [listed EXCEPT ![t] = Unregistered]
  /\ acked' = acked \ {t}
  /\ UNCHANGED <<durable, up>>

\* A save that fails is no step: the list is in use and not durable, and nobody
\* is told anything.
Save ==
  /\ up
  /\ durable' = listed
  /\ \E told \in SUBSET {t \in Tokens : listed[t] # Unregistered} : acked' = acked \cup told
  /\ UNCHANGED <<listed, up>>

Crash == up /\ up' = FALSE /\ listed' = Nobody /\ UNCHANGED <<durable, acked>>

Restart == ~up /\ up' = TRUE /\ listed' = durable /\ UNCHANGED <<durable, acked>>

Next == Save \/ Crash \/ Restart \/ \E t \in Tokens : Register(t) \/ Prune(t)

Spec == Init /\ [][Next]_vars
=============================================================================
