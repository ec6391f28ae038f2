----------------------------- MODULE StreamHub -----------------------------
(***************************************************************************)
(* The live stream of internal/api/api.go: BroadcastSample, run by the     *)
(* collector goroutine for every sample, and one handleStream goroutine    *)
(* per connected client, sharing the map of subscriber channels under      *)
(* broadcastMu.                                                            *)
(*                                                                         *)
(* A broadcast holds the read lock from its first to its last send; adding *)
(* or removing a channel under the write lock is one step here. As in a    *)
(* sync.RWMutex, a handler that has called Lock ("join", "leave") holds up *)
(* a broadcast that calls RLock later, and the first writer to unlock      *)
(* hands over to the waiting reader. A handler writes to its client        *)
(* between two receives and may hang there for ever. A client that comes   *)
(* back gets a new channel.                                                *)
(***************************************************************************)
EXTENDS Naturals, FiniteSets, SequencesExt

CONSTANTS
  Clients,      \* connections to GET /api/v1/stream
  ChanCap,      \* capacity of a subscriber channel (8 in the code)
  MaxSamples    \* bound on samples collected

ASSUME ChanCapAssumption == ChanCap \in Nat \ {0}

VARIABLES
  subscribers,  \* the clients whose channels are in Server.subscribers
  channel,      \* samples buffered in each client's channel
  closed,       \* clients whose channel has been closed
  handler,      \* where each handleStream goroutine is
  reader,       \* BroadcastSample: not running, waiting for or holding RLock
  todo,         \* subscribers the broadcast has still to range over
  collected,    \* number of the newest sample
  written       \* history: the samples a connection's handler took, in order

vars == <<subscribers, channel, closed, handler, reader, todo, collected, written>>

TypeOK ==
  /\ subscribers \subseteq Clients
  /\ channel \in [Clients -> Seq(Nat)]
  /\ \A c \in Clients : Len(channel[c]) <= ChanCap
  /\ closed \subseteq Clients
  /\ handler \in [Clients -> {"none", "join", "select", "write", "leave", "close"}]
  /\ reader \in {"none", "waiting", "holding"}
  /\ todo \subseteq Clients
  /\ collected \in Nat
  /\ written \in [Clients -> Seq(Nat)]

Init ==
  /\ subscribers = {}
  /\ channel = [c \in Clients |-> <<>>]
  /\ closed = {}
  /\ handler = [c \in Clients |-> "none"]
  /\ reader = "none"
  /\ todo = {}
  /\ collected = 0
  /\ written = [c \in Clients |-> <<>>]

-----------------------------------------------------------------------------
(* BroadcastSample                                                         *)

WaitingForLock == {c \in Clients : handler[c] \in {"join", "leave"}}

\* RLock; once it is held, the range over the map begins.
BeginBroadcast ==
  /\ reader = "none"
  /\ collected < MaxSamples
  /\ collected' = collected + 1
  /\ reader' = IF WaitingForLock = {} THEN "holding" ELSE "waiting"
  /\ todo' = IF WaitingForLock = {} THEN subscribers ELSE {}
  /\ UNCHANGED <<subscribers, channel, closed, handler, written>>

\* Unlock by a writer that leaves the subscribers subs behind.
Unlock(subs) ==
  /\ reader' = IF reader = "waiting" THEN "holding" ELSE reader
  /\ todo' = IF reader = "waiting" THEN subs ELSE todo
  /\ subscribers' = subs

\* Mutant: the buffer is taken to be large enough.
RoomAssumed(c) == TRUE

HasRoom(c) == Len(channel[c]) < ChanCap

\* Mutant: a send without the default branch waits for a slow client.
BlockingOffer(c) ==
  /\ reader = "holding" /\ c \in todo /\ HasRoom(c)
  /\ todo' = todo \ {c}
  /\ channel' = [channel EXCEPT ![c] = Append(@, collected)]
  /\ UNCHANGED <<subscribers, closed, handler, reader, collected, written>>

\* The sample goes into the channel, or past a client whose channel is full.
Offer(c) ==
  /\ reader = "holding" /\ c \in todo
  /\ todo' = todo \ {c}
  /\ IF HasRoom(c)
     THEN channel' = [channel EXCEPT ![c] = Append(@, collected)]
     ELSE UNCHANGED channel
  /\ UNCHANGED <<subscribers, closed, handler, reader, collected, written>>

\* RUnlock.
EndBroadcast ==
  /\ reader = "holding" /\ todo = {}
  /\ reader' = "none"
  /\ UNCHANGED <<subscribers, channel, closed, handler, todo, collected, written>>

-----------------------------------------------------------------------------
(* handleStream                                                            *)

\* A request arrives: its handler makes a channel and calls Lock.
Connect(c) ==
  /\ handler[c] = "none"
  /\ handler' = [handler EXCEPT ![c] = "join"]
  /\ UNCHANGED <<subscribers, channel, closed, reader, todo, collected, written>>

\* The new channel is added under the write lock.
Subscribe(c) ==
  /\ handler[c] = "join" /\ reader # "holding"
  /\ Unlock(subscribers \cup {c})
  /\ channel' = [channel EXCEPT ![c] = <<>>]
  /\ closed' = closed \ {c}
  /\ handler' = [handler EXCEPT ![c] = "select"]
  /\ written' = [written EXCEPT ![c] = <<>>]
  /\ UNCHANGED collected

\* Mutant: a handler that is behind skips to the newest sample.
ReceiveNewest(c) ==
  /\ handler[c] = "select" /\ channel[c] # <<>>
  /\ handler' = [handler EXCEPT ![c] = "write"]
  /\ written' = [written EXCEPT ![c] = Append(@, Last(channel[c]))]
  /\ channel' = [channel EXCEPT ![c] = <<>>]
  /\ UNCHANGED <<subscribers, closed, reader, todo, collected>>

Receive(c) ==
  /\ handler[c] = "select" /\ channel[c] # <<>>
  /\ handler' = [handler EXCEPT ![c] = "write"]
  /\ written' = [written EXCEPT ![c] = Append(@, Head(channel[c]))]
  /\ channel' = [channel EXCEPT ![c] = Tail(@)]
  /\ UNCHANGED <<subscribers, closed, reader, todo, collected>>

\* The write to the client returns (a keep-alive leads back here as well).
Written(c) ==
  /\ handler[c] = "write"
  /\ handler' = [handler EXCEPT ![c] = "select"]
  /\ UNCHANGED <<subscribers, channel, closed, reader, todo, collected, written>>

\* The request's context is done: the deferred function calls Lock.
Disconnect(c) ==
  /\ handler[c] = "select"
  /\ handler' = [handler EXCEPT ![c] = "leave"]
  /\ UNCHANGED <<subscribers, channel, closed, reader, todo, collected, written>>

\* Mutant: the channel is taken out of the map without the lock.
UnsubscribeUnlocked(c) ==
  /\ handler[c] = "leave"
  /\ Unlock(subscribers \ {c})
  /\ handler' = [handler EXCEPT ![c] = "close"]
  /\ UNCHANGED <<channel, closed, collected, written>>

\* Mutant: a channel is removed only once it is empty.
UnsubscribeDrained(c) ==
  /\ handler[c] = "leave" /\ reader # "holding" /\ channel[c] = <<>>
  /\ Unlock(subscribers \ {c})
  /\ handler' = [handler EXCEPT ![c] = "close"]
  /\ UNCHANGED <<channel, closed, collected, written>>

\* The channel is removed from the map under the write lock.
Unsubscribe(c) ==
  /\ handler[c] = "leave" /\ reader # "holding"
  /\ Unlock(subscribers \ {c})
  /\ handler' = [handler EXCEPT ![c] = "close"]
  /\ UNCHANGED <<channel, closed, collected, written>>

Close(c) ==
  /\ handler[c] = "close"
  /\ closed' = closed \cup {c}
  /\ channel' = [channel EXCEPT ![c] = <<>>]
  /\ handler' = [handler EXCEPT ![c] = "none"]
  /\ UNCHANGED <<subscribers, reader, todo, collected, written>>

-----------------------------------------------------------------------------
Broadcast == EndBroadcast \/ \E c \in Clients : Offer(c)

Handler(c) ==
  \/ Connect(c) \/ Subscribe(c) \/ Receive(c) \/ Written(c)
  \/ Disconnect(c) \/ Unsubscribe(c) \/ Close(c)

Next == BeginBroadcast \/ Broadcast \/ \E c \in Clients : Handler(c)

Spec == Init /\ [][Next]_vars

(***************************************************************************)
(* The collector goroutine keeps running, and so does a handler that is    *)
(* joining or leaving. Nothing obliges one that is streaming to make       *)
(* progress: its client may hold up its writes.                            *)
(***************************************************************************)
FairSpec ==
  /\ Spec
  /\ WF_vars(Broadcast)
  /\ \A c \in Clients : WF_vars(Subscribe(c) \/ Unsubscribe(c) \/ Close(c))

-----------------------------------------------------------------------------
(* Properties                                                              *)

\* The broadcast never reaches a closed channel: a send on one would panic on
\* the collector goroutine and take the whole agent down.
NoSendOnClosed == todo \cap closed = {}

Streaming == {c \in Clients : handler[c] \in {"select", "write"}}

\* A client that is not streaming has nothing.
OfStreaming(f, none) == [c \in Clients |-> IF c \in Streaming THEN f[c] ELSE none]

\* The newest sample a client has been offered: the broadcast may have to get to
\* it yet, or wait for the lock.
LastOffered(c) == IF c \in todo \/ reader = "waiting" THEN collected - 1 ELSE collected

Lossy == INSTANCE LossyStream
  WITH Cap    <- ChanCap,
       newest <- collected,
       open   <- Streaming,
       seen   <- OfStreaming([c \in Clients |-> LastOffered(c)], 0),
       inbox  <- OfStreaming(channel, <<>>),
       given  <- OfStreaming(written, <<>>)

\* "fans a newly-collected sample out to every connected /api/v1/stream client
\* [...] drop the sample rather than blocking": whatever the locks, the map and
\* the channels do meanwhile, each client streams as if it alone was served: it
\* is offered every sample from the first after it subscribed, once and in
\* order, and one passes it by only while ChanCap older ones wait for it.
ImplementsLossyStream == Lossy!Spec

\* No client, whether it hangs, joins or leaves, stops the collector goroutine
\* for good, neither while it waits for the lock nor while it sends.
BroadcastEnds == reader # "none" ~> reader = "none"

\* A disconnected client's handler gets out of the map and returns.
LeaversLeave == \A c \in Clients : handler[c] = "leave" ~> handler[c] = "none"
=============================================================================
