---------------------------- MODULE LossyStream ----------------------------
(***************************************************************************)
(* What GET /api/v1/stream promises its clients, with no locks, no         *)
(* goroutines and no subscriber map: from the moment it is connected, a    *)
(* client is offered every sample, once and in order, and misses one only  *)
(* while Cap older ones wait for it. StreamHub implements this.            *)
(***************************************************************************)
EXTENDS Naturals, Sequences

CONSTANTS
  Clients,
  Cap           \* samples that may wait for a client

VARIABLES
  newest,       \* number of the newest sample
  open,         \* the clients connected
  seen,         \* the newest sample each of them has been offered
  inbox,        \* the samples that wait for it
  given         \* the samples it has taken since it connected

vars == <<newest, open, seen, inbox, given>>

Nothing == [c \in Clients |-> <<>>]

Init ==
  /\ newest = 0
  /\ open = {}
  /\ seen = [c \in Clients |-> 0]
  /\ inbox = Nothing /\ given = Nothing

\* The next sample waits until all have been offered the last one.
Produce ==
  /\ \A c \in open : seen[c] = newest
  /\ newest' = newest + 1
  /\ UNCHANGED <<open, seen, inbox, given>>

\* Who connects while a sample is sent out may still be offered it.
Open(c) ==
  /\ c \notin open
  /\ open' = open \cup {c}
  /\ \E n \in {newest, newest - 1} \cap Nat : seen' = [seen EXCEPT ![c] = n]
  /\ UNCHANGED <<newest, inbox, given>>

Offer(c) ==
  /\ c \in open /\ seen[c] < newest
  /\ seen' = [seen EXCEPT ![c] = @ + 1]
  /\ IF Len(inbox[c]) < Cap
     THEN inbox' = [inbox EXCEPT ![c] = Append(@, seen[c] + 1)]
     ELSE UNCHANGED inbox
  /\ UNCHANGED <<newest, open, given>>

Take(c) ==
  /\ c \in open /\ inbox[c] # <<>>
  /\ given' = [given EXCEPT ![c] = Append(@, Head(inbox[c]))]
  /\ inbox' = [inbox EXCEPT ![c] = Tail(@)]
  /\ UNCHANGED <<newest, open, seen>>

\* What waits for a client that is gone is lost.
Shut(c) ==
  /\ c \in open
  /\ open' = open \ {c}
  /\ seen' = [seen EXCEPT ![c] = 0]
  /\ inbox' = [inbox EXCEPT ![c] = <<>>]
  /\ given' = [given EXCEPT ![c] = <<>>]
  /\ UNCHANGED newest

Next ==
  \/ Produce
  \/ \E c \in Clients : Open(c) \/ Offer(c) \/ Take(c) \/ Shut(c)

Spec == Init /\ [][Next]_vars
=============================================================================
