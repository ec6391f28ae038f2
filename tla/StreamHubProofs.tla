-------------------------- MODULE StreamHubProofs --------------------------
(***************************************************************************)
(* Proofs about StreamHub for any set of clients and any channel capacity. *)
(***************************************************************************)
EXTENDS StreamHub, TLAPS

SampleSeqs == [Clients -> Seq(Nat)]

\* Appending a sample to one client's sequence.
LEMMA AppendTyped ==
  ASSUME NEW f \in SampleSeqs, NEW c \in Clients, NEW x \in Nat
  PROVE  [f EXCEPT ![c] = Append(@, x)] \in SampleSeqs
  BY DEF SampleSeqs

\* The types hold in every step; in particular no channel ever holds more
\* than its capacity.
LEMMA TypeStep == TypeOK /\ [Next]_vars => TypeOK'
<1> SUFFICES ASSUME TypeOK, [Next]_vars PROVE TypeOK'
  OBVIOUS
<1> USE ChanCapAssumption DEF TypeOK
<1>1. CASE UNCHANGED vars
  BY <1>1 DEF vars
<1>2. CASE BeginBroadcast
  BY <1>2 DEF BeginBroadcast
<1>3. CASE EndBroadcast
  BY <1>3 DEF EndBroadcast
<1>4. ASSUME NEW c \in Clients, Offer(c) PROVE TypeOK'
  <2>1. CASE HasRoom(c)
    <3>1. channel' = [channel EXCEPT ![c] = Append(@, collected)]
      BY <1>4, <2>1 DEF Offer
    <3>2. Len(Append(channel[c], collected)) = Len(channel[c]) + 1
      OBVIOUS
    <3>3. channel' \in [Clients -> Seq(Nat)]
      BY <3>1, AppendTyped DEF SampleSeqs
    <3>4. Len(channel[c]) + 1 <= ChanCap
      BY <2>1 DEF HasRoom
    <3>5. \A d \in Clients : Len(channel'[d]) <= ChanCap
      BY <3>1, <3>2, <3>4
    <3> QED
      BY <1>4, <3>3, <3>5 DEF Offer
  <2>2. CASE ~HasRoom(c)
    BY <1>4, <2>2 DEF Offer
  <2> QED
    BY <2>1, <2>2
<1>5. ASSUME NEW c \in Clients, Connect(c) PROVE TypeOK'
  BY <1>5 DEF Connect
<1>6. ASSUME NEW c \in Clients, Subscribe(c) PROVE TypeOK'
  <2>1. channel' \in [Clients -> Seq(Nat)] /\ written' \in [Clients -> Seq(Nat)]
    BY <1>6 DEF Subscribe
  <2>2. \A d \in Clients : Len(channel'[d]) <= ChanCap
    BY <1>6 DEF Subscribe
  <2> QED
    BY <1>6, <2>1, <2>2 DEF Subscribe, Unlock
<1>7. ASSUME NEW c \in Clients, Receive(c) PROVE TypeOK'
  <2>1. /\ Head(channel[c]) \in Nat
        /\ Tail(channel[c]) \in Seq(Nat)
        /\ Len(Tail(channel[c])) <= ChanCap
    BY <1>7 DEF Receive
  <2>2. written' \in [Clients -> Seq(Nat)]
    BY <1>7, <2>1, AppendTyped DEF Receive, SampleSeqs
  <2> QED
    BY <1>7, <2>1, <2>2 DEF Receive
<1>8. ASSUME NEW c \in Clients, Written(c) PROVE TypeOK'
  BY <1>8 DEF Written
<1>9. ASSUME NEW c \in Clients, Disconnect(c) PROVE TypeOK'
  BY <1>9 DEF Disconnect
<1>10. ASSUME NEW c \in Clients, Unsubscribe(c) PROVE TypeOK'
  BY <1>10 DEF Unsubscribe, Unlock
<1>11. ASSUME NEW c \in Clients, Close(c) PROVE TypeOK'
  BY <1>11 DEF Close
<1> QED
  BY <1>1, <1>2, <1>3, <1>4, <1>5, <1>6, <1>7, <1>8, <1>9, <1>10, <1>11
  DEF Next, Broadcast, Handler

\* At first there are no clients.
LEMMA InitTypeOK == Init => TypeOK
<1> SUFFICES ASSUME Init PROVE TypeOK
  OBVIOUS
<1>1. subscribers \subseteq Clients /\ closed \subseteq Clients /\ todo \subseteq Clients
  BY DEF Init
<1>2. channel \in [Clients -> Seq(Nat)] /\ written \in [Clients -> Seq(Nat)]
  BY DEF Init
<1>3. \A c \in Clients : Len(channel[c]) <= ChanCap
  BY ChanCapAssumption DEF Init
<1>4. handler \in [Clients -> {"none", "join", "select", "write", "leave", "close"}]
  BY DEF Init
<1>5. reader \in {"none", "waiting", "holding"} /\ collected \in Nat
  BY DEF Init
<1> QED
  BY <1>1, <1>2, <1>3, <1>4, <1>5 DEF TypeOK

\* Every step keeps the variables in their types.
THEOREM TypeCorrect == Spec => []TypeOK
  BY InitTypeOK, TypeStep, PTL DEF Spec

-----------------------------------------------------------------------------
(***************************************************************************)
(* What the read lock buys: while a broadcast ranges over the map, every   *)
(* channel it has still to visit stays in the map, and a channel in the    *)
(* map belongs to a handler that has not got as far as closing it.         *)
(***************************************************************************)
LockInv ==
  /\ reader # "holding" => todo = {}
  /\ todo \subseteq subscribers
  /\ subscribers \cap closed = {}
  /\ \A c \in subscribers : handler[c] \in {"select", "write", "leave"}

\* Every step keeps the map and the lock in step.
LEMMA LockStep == TypeOK /\ LockInv /\ [Next]_vars => LockInv'
<1> SUFFICES ASSUME TypeOK, LockInv, [Next]_vars PROVE LockInv'
  OBVIOUS
<1> USE DEF LockInv, TypeOK
<1>1. CASE UNCHANGED vars
  BY <1>1 DEF vars
<1>2. CASE BeginBroadcast
  BY <1>2 DEF BeginBroadcast
<1>3. CASE EndBroadcast
  BY <1>3 DEF EndBroadcast
<1>4. ASSUME NEW c \in Clients, Offer(c) PROVE LockInv'
  BY <1>4 DEF Offer
<1>5. ASSUME NEW c \in Clients, Connect(c) PROVE LockInv'
  BY <1>5 DEF Connect
<1>6. ASSUME NEW c \in Clients, Subscribe(c) PROVE LockInv'
  BY <1>6 DEF Subscribe, Unlock
<1>7. ASSUME NEW c \in Clients, Receive(c) \/ Written(c) \/ Disconnect(c) PROVE LockInv'
  BY <1>7 DEF Receive, Written, Disconnect
<1>8. ASSUME NEW c \in Clients, Unsubscribe(c) PROVE LockInv'
  BY <1>8 DEF Unsubscribe, Unlock
<1>9. ASSUME NEW c \in Clients, Close(c) PROVE LockInv'
  <2>1. c \notin subscribers
    BY <1>9 DEF Close
  <2> QED
    BY <1>9, <2>1 DEF Close
<1> QED
  BY <1>1, <1>2, <1>3, <1>4, <1>5, <1>6, <1>7, <1>8, <1>9
  DEF Next, Broadcast, Handler

\* No send on a closed channel, however many clients come and go during a
\* broadcast.
THEOREM SendsAreSafe == Spec => []NoSendOnClosed
<1>1. Init => LockInv
  BY DEF Init, LockInv
<1>2. LockInv => NoSendOnClosed
  BY DEF LockInv, NoSendOnClosed
<1> QED
  BY <1>1, <1>2, TypeCorrect, LockStep, PTL DEF Spec

-----------------------------------------------------------------------------
(***************************************************************************)
(* StreamHub implements LossyStream. Two more facts are needed: a handler  *)
(* that streams is in the map, so that the next broadcast will visit it,   *)
(* and a broadcast under way is that of a sample.                          *)
(***************************************************************************)
MapInv == Streaming \subseteq subscribers

Started == reader # "none" => collected > 0

StreamInv == TypeOK /\ LockInv /\ MapInv /\ Started

\* The three invariants hold together with the types in every step.
LEMMA StreamStep == StreamInv /\ [Next]_vars => StreamInv'
<1> SUFFICES ASSUME StreamInv, [Next]_vars PROVE MapInv' /\ Started'
  BY TypeStep, LockStep DEF StreamInv
<1> USE DEF StreamInv, TypeOK, LockInv, MapInv, Started, Streaming
<1>1. CASE UNCHANGED vars
  BY <1>1 DEF vars
<1>2. CASE BeginBroadcast
  BY <1>2 DEF BeginBroadcast
<1>3. CASE EndBroadcast
  BY <1>3 DEF EndBroadcast
<1>4. ASSUME NEW c \in Clients, Offer(c) PROVE MapInv' /\ Started'
  BY <1>4 DEF Offer
<1>5. ASSUME NEW c \in Clients, Connect(c) \/ Disconnect(c) PROVE MapInv' /\ Started'
  BY <1>5 DEF Connect, Disconnect
<1>6. ASSUME NEW c \in Clients, Subscribe(c) PROVE MapInv' /\ Started'
  BY <1>6 DEF Subscribe, Unlock
<1>7. ASSUME NEW c \in Clients, Receive(c) \/ Written(c) PROVE MapInv' /\ Started'
  BY <1>7 DEF Receive, Written
<1>8. ASSUME NEW c \in Clients, Unsubscribe(c) PROVE MapInv' /\ Started'
  BY <1>8 DEF Unsubscribe, Unlock
<1>9. ASSUME NEW c \in Clients, Close(c) PROVE MapInv' /\ Started'
  BY <1>9 DEF Close
<1> QED
  BY <1>1, <1>2, <1>3, <1>4, <1>5, <1>6, <1>7, <1>8, <1>9 DEF Next, Broadcast, Handler

\* Two functions on the clients that differ in one of them.
LEMMA OneChanged ==
  ASSUME NEW f, NEW g, NEW c \in Clients, NEW x,
         f = [d \in Clients |-> f[d]], g = [d \in Clients |-> g[d]],
         g[c] = x, \A d \in Clients \ {c} : g[d] = f[d]
  PROVE  g = [f EXCEPT ![c] = x]
<1>1. [f EXCEPT ![c] = x] = [d \in Clients |-> IF d = c THEN x ELSE f[d]]
  OBVIOUS
<1>2. \A d \in Clients : g[d] = IF d = c THEN x ELSE f[d]
  OBVIOUS
<1> QED
  BY <1>1, <1>2

\* Every step is a step of LossyStream, or invisible to every client.
LEMMA Simulation == StreamInv /\ [Next]_vars => [Lossy!Next]_(Lossy!vars)
<1> SUFFICES ASSUME StreamInv, [Next]_vars PROVE Lossy!Next \/ UNCHANGED Lossy!vars
  OBVIOUS
<1> USE DEF StreamInv, TypeOK, LockInv, MapInv, Started, Streaming, OfStreaming, LastOffered
<1>1. CASE UNCHANGED vars
  BY <1>1 DEF vars, Lossy!vars
<1>2. CASE BeginBroadcast
  <2>1. Lossy!Produce
    BY <1>2 DEF BeginBroadcast, Lossy!Produce
  <2> QED
    BY <2>1 DEF Lossy!Next
<1>3. CASE EndBroadcast
  BY <1>3 DEF EndBroadcast, Lossy!vars
<1> DEFINE seen  == OfStreaming([c \in Clients |-> LastOffered(c)], 0)
           inbox == OfStreaming(channel, <<>>)
           given == OfStreaming(written, <<>>)
<1>4. ASSUME NEW c \in Clients, Offer(c) PROVE Lossy!Offer(c) \/ UNCHANGED Lossy!vars
  <2>1. CASE c \in Streaming
    <3>1. UNCHANGED <<handler, reader, collected, written>> /\ todo' = todo \ {c}
      BY <1>4 DEF Offer
    <3>2. seen[c] = collected - 1 /\ inbox[c] = channel[c]
      BY <1>4, <2>1 DEF Offer
    <3>3. seen' = [seen EXCEPT ![c] = @ + 1]
      <4>1. seen' = [d \in Clients |-> seen'[d]] /\ seen = [d \in Clients |-> seen[d]]
        BY <3>1
      <4>2. seen'[c] = seen[c] + 1
        BY <1>4, <2>1, <3>1, <3>2 DEF Offer
      <4>3. \A d \in Clients \ {c} : seen'[d] = seen[d]
        BY <3>1
      <4> HIDE DEF seen
      <4> QED
        BY <4>1, <4>2, <4>3, OneChanged
    <3>4. UNCHANGED <<collected, Streaming, given>>
      BY <3>1
    <3>5. IF Len(inbox[c]) < ChanCap
          THEN inbox' = [inbox EXCEPT ![c] = Append(@, seen[c] + 1)]
          ELSE UNCHANGED inbox
      <4>1. CASE HasRoom(c)
        <5>1. channel' = [channel EXCEPT ![c] = Append(@, collected)]
          BY <1>4, <4>1 DEF Offer
        <5>2. inbox' = [inbox EXCEPT ![c] = Append(@, collected)]
          BY <2>1, <3>1, <5>1
        <5> HIDE DEF seen, inbox
        <5> QED
          BY <3>2, <4>1, <5>2 DEF HasRoom
      <4>2. CASE ~HasRoom(c)
        <5>1. UNCHANGED <<channel, handler>>
          BY <1>4, <4>2 DEF Offer
        <5>2. UNCHANGED inbox
          BY <5>1
        <5> HIDE DEF seen, inbox
        <5> QED
          BY <3>2, <4>2, <5>2 DEF HasRoom
      <4> QED
        BY <4>1, <4>2
    <3>6. seen[c] < collected
      BY <3>2
    <3> HIDE DEF seen, inbox, given, Streaming, OfStreaming, LastOffered
    <3> QED
      BY <2>1, <3>3, <3>4, <3>5, <3>6 DEF Lossy!Offer, seen, inbox, given
  <2>2. CASE c \notin Streaming
    BY <1>4, <2>2 DEF Offer, Lossy!vars
  <2> QED
    BY <2>1, <2>2
<1>5. ASSUME NEW c \in Clients, Connect(c) \/ Written(c) PROVE UNCHANGED Lossy!vars
  BY <1>5 DEF Connect, Written, Lossy!vars
<1>6. ASSUME NEW c \in Clients, Subscribe(c) PROVE Lossy!Open(c)
  <2>1. c \notin Streaming /\ Streaming' = Streaming \cup {c} /\ UNCHANGED collected
    BY <1>6 DEF Subscribe
  <2>2. channel' = [channel EXCEPT ![c] = <<>>] /\ written' = [written EXCEPT ![c] = <<>>]
    BY <1>6 DEF Subscribe
  <2>3. UNCHANGED <<inbox, given>>
    BY <2>1, <2>2
  <2>4. /\ seen' = [seen EXCEPT ![c] = LastOffered(c)']
        /\ LastOffered(c)' \in {collected, collected - 1} \cap Nat
    <3>1. CASE reader = "waiting"
      <4>1. reader' = "holding" /\ todo' = subscribers \cup {c}
        BY <1>6, <3>1 DEF Subscribe, Unlock
      <4>2. \A d \in Streaming \cup {c} : LastOffered(d)' = collected - 1
        BY <2>1, <4>1
      <4>3. \A d \in Streaming : LastOffered(d) = collected - 1
        BY <3>1
      <4>4. seen' = [d \in Clients |-> seen'[d]] /\ seen = [d \in Clients |-> seen[d]]
        OBVIOUS
      <4>5. seen'[c] = LastOffered(c)' /\ \A d \in Clients \ {c} : seen'[d] = seen[d]
        BY <2>1, <4>2, <4>3 DEF OfStreaming
      <4>6. collected - 1 \in Nat
        BY <3>1
      <4> HIDE DEF seen, LastOffered, Streaming
      <4> QED
        BY <4>2, <4>4, <4>5, <4>6, OneChanged
    <3>2. CASE reader = "none"
      <4>1. reader' = "none" /\ todo' = {} /\ todo = {}
        BY <1>6, <3>2 DEF Subscribe, Unlock
      <4>2. \A d \in Clients : LastOffered(d)' = collected /\ LastOffered(d) = collected
        BY <2>1, <3>2, <4>1
      <4> QED
        BY <2>1, <4>2
    <3> QED
      BY <1>6, <3>1, <3>2 DEF Subscribe
  <2> HIDE DEF seen, inbox, given, Streaming, OfStreaming, LastOffered
  <2> QED
    BY <2>1, <2>3, <2>4 DEF Lossy!Open, seen, inbox, given
<1>7. ASSUME NEW c \in Clients, Receive(c) PROVE Lossy!Take(c)
  BY <1>7 DEF Receive, Lossy!Take
<1>8. ASSUME NEW c \in Clients, Disconnect(c) PROVE Lossy!Shut(c)
  BY <1>8 DEF Disconnect, Lossy!Shut
<1>9. ASSUME NEW c \in Clients, Unsubscribe(c) PROVE UNCHANGED Lossy!vars
  BY <1>9 DEF Unsubscribe, Unlock, Lossy!vars
<1>10. ASSUME NEW c \in Clients, Close(c) PROVE UNCHANGED Lossy!vars
  BY <1>10 DEF Close, Lossy!vars
<1> QED
  BY <1>1, <1>2, <1>3, <1>4, <1>5, <1>6, <1>7, <1>8, <1>9, <1>10
  DEF Next, Broadcast, Handler, Lossy!Next

\* Each client streams as LossyStream promises, for any number of clients and
\* any capacity: every sample is offered once and in order, and one is lost
\* only at a full channel.
THEOREM StreamsAsPromised == Spec => ImplementsLossyStream
<1>1. Init => StreamInv
  BY InitTypeOK DEF Init, StreamInv, LockInv, MapInv, Started, Streaming
<1>2. Init => Lossy!Init
  BY DEF Init, Lossy!Init, Lossy!Nothing, Streaming, OfStreaming, LastOffered
<1> QED
  BY <1>1, <1>2, StreamStep, Simulation, PTL DEF Spec, ImplementsLossyStream, Lossy!Spec
=============================================================================
