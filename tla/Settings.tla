------------------------------ MODULE Settings ------------------------------
(***************************************************************************)
(* What PATCH /api/v1/config and PATCH /api/v1/alerts promise, with no     *)
(* files: a setting changes at runtime first and is kept afterwards, by    *)
(* itself and in one step; the agent starts with what is kept, and what    *)
(* was installed stays. ConfigFile implements this as long as requests do  *)
(* not overlap.                                                            *)
(***************************************************************************)
CONSTANTS
  LiveKeys,     \* the settings a request can change
  Values,       \* the values they can have
  Pause,        \* the one that is not kept: a restart takes it for no value
  Default       \* and starts with this instead

VARIABLES
  kept,         \* the settings a restart would bring back
  installed,    \* everything else
  running,      \* the settings in use
  up            \* whether the agent runs

vars == <<kept, installed, running, up>>

Init == up = TRUE /\ running = kept

Change(k) ==
  /\ up
  /\ \E v \in Values : running' = [running EXCEPT ![k] = v]
  /\ UNCHANGED <<kept, installed, up>>

\* A save that fails is no step: the setting is in use and not kept.
Save(k) ==
  /\ up
  /\ kept' = [kept EXCEPT ![k] = IF running[k] = Pause THEN Default ELSE running[k]]
  /\ UNCHANGED <<installed, running, up>>

Crash == up /\ up' = FALSE /\ UNCHANGED <<kept, installed, running>>

Restart == ~up /\ up' = TRUE /\ running' = kept /\ UNCHANGED <<kept, installed>>

Next == Crash \/ Restart \/ \E k \in LiveKeys : Change(k) \/ Save(k)

Spec == Init /\ [][Next]_vars
=============================================================================
