------------------------ MODULE WidgetNotifierProofs ------------------------
(***************************************************************************)
(* Proofs about WidgetNotifier for any set of concurrent callers, any      *)
(* devices, any floor above zero and any poll intervals.                   *)
(***************************************************************************)
EXTENDS WidgetNotifier, TLAPS

\* The effective interval is a number no smaller than the floor.
LEMMA IntervalFloored == TypeOK => Interval \in Nat /\ Interval >= MinWidgetInterval
  BY MinWidgetIntervalAssumption, PollIntervalsAssumption DEF Interval, TypeOK

\* The types hold in every step; in particular every interval respected is at
\* least the floor and no stamp lies in the future.
LEMMA TypeStep == TypeOK /\ [Next]_vars => TypeOK'
<1> SUFFICES ASSUME TypeOK, [Next]_vars PROVE TypeOK'
  OBVIOUS
<1> USE MinWidgetIntervalAssumption, PollIntervalsAssumption DEF TypeOK
<1>1. CASE UNCHANGED vars
  BY <1>1 DEF vars, callVars
<1>2. ASSUME NEW n \in Notifiers, ReadInterval(n) PROVE TypeOK'
  BY <1>2, IntervalFloored DEF ReadInterval
<1>3. ASSUME NEW n \in Notifiers, Skip(n) PROVE TypeOK'
  BY <1>3 DEF Skip, callVars
<1>4. ASSUME NEW n \in Notifiers, Claim(n) PROVE TypeOK'
  <2>1. [id |-> claims', at |-> clock, interval |-> interval[n]] \in Slot
    BY <1>4 DEF Claim, Slot
  <2>2. claim' \in [Notifiers -> Slot]
    BY <1>4, <2>1 DEF Claim
  <2>3. previous' \in [Notifiers -> 0..clock'] /\ lastSent' \in 0..clock'
    BY <1>4 DEF Claim
  <2> QED
    BY <1>4, <2>2, <2>3 DEF Claim
<1>5. ASSUME NEW n \in Notifiers, Publish(n) PROVE TypeOK'
  BY <1>5 DEF Publish
<1>6. ASSUME NEW n \in Notifiers, NEW d \in todo[n], NEW answer \in Answers, Send(n, d, answer)
      PROVE  TypeOK'
  <2>1. d \in Devices
    BY <1>6
  <2>2. pushed' \subseteq [device : Devices, slot : Slot]
    BY <1>6, <2>1 DEF Send
  <2>3. failed' \in [Notifiers -> BOOLEAN]
    BY <1>6, Zenon DEF Send
  <2> QED
    BY <1>6, <2>2, <2>3 DEF Send
<1>7. ASSUME NEW n \in Notifiers, Return(n) PROVE TypeOK'
  <2>1. lastSent' \in 0..clock'
    BY <1>7 DEF Return, Restored
  <2>2. sent' \subseteq Slot
    BY <1>7 DEF Return
  <2> QED
    BY <1>7, <2>1, <2>2 DEF Return, callVars
<1>8. ASSUME NEW d \in PollIntervals, SetPollInterval(d) PROVE TypeOK'
  BY <1>8 DEF SetPollInterval, callVars
<1>9. ASSUME NEW d \in Devices, Register(d) PROVE TypeOK'
  BY <1>9 DEF Register, callVars
<1>10. CASE Tick
  <2>1. clock' \in Nat \ {0} /\ \A x \in 0..clock : x \in 0..clock'
    BY <1>10 DEF Tick
  <2>2. previous' \in [Notifiers -> 0..clock'] /\ lastSent' \in 0..clock'
    BY <1>10, <2>1 DEF Tick, callVars
  <2> QED
    BY <1>10, <2>1, <2>2 DEF Tick, callVars
<1> QED
  BY <1>1, <1>2, <1>3, <1>4, <1>5, <1>6, <1>7, <1>8, <1>9, <1>10 DEF Next, Notify

\* Every step keeps the variables in their types.
THEOREM TypeCorrect == Spec => []TypeOK
<1>1. Init => TypeOK
  <2> SUFFICES ASSUME Init PROVE TypeOK
    OBVIOUS
  <2> USE MinWidgetIntervalAssumption
  <2>1. clock \in Nat \ {0} /\ poll \in PollIntervals /\ registered \subseteq Devices
    BY DEF Init
  <2>2. lastSent \in 0..clock /\ previous \in [Notifiers -> 0..clock]
    BY DEF Init
  <2>3. pc \in [Notifiers -> {"idle", "claim", "publish", "send"}]
    BY DEF Init
  <2>4. interval \in [Notifiers -> {d \in Nat : d >= MinWidgetInterval}]
    BY DEF Init
  <2>5. claim \in [Notifiers -> Slot]
    BY DEF Init, NoSlot, Slot
  <2>6. todo \in [Notifiers -> SUBSET Devices] /\ failed \in [Notifiers -> BOOLEAN]
    BY DEF Init
  <2>7. claims \in Nat /\ overlapped \in BOOLEAN
    BY DEF Init
  <2>8. sent \subseteq Slot /\ pushed \subseteq [device : Devices, slot : Slot]
    BY DEF Init
  <2> QED
    BY <2>1, <2>2, <2>3, <2>4, <2>5, <2>6, <2>7, <2>8 DEF TypeOK
<1> QED
  BY <1>1, TypeStep, PTL DEF Spec

-----------------------------------------------------------------------------
(***************************************************************************)
(* The slots that count: those of calls that succeeded and of calls still  *)
(* publishing. A failed call gives its slot up.                            *)
(*                                                                         *)
(* The stamp never falls behind a slot that counts, because a call in      *)
(* flight remembers a stamp that is not behind any older one (Remembered). *)
(***************************************************************************)
Live == sent \cup {claim[n] : n \in InFlight}

Stamped ==
  \A c \in Live : /\ 1 <= c.at /\ c.at <= lastSent
                  /\ c.interval >= MinWidgetInterval
                  /\ c.id <= claims

Apart ==
  \A c, d \in Live : c.id # d.id =>
    c.at # d.at /\ (c.at < d.at => d.at - c.at >= d.interval)

Remembered ==
  \A n \in InFlight : \A c \in Live :
    c.id # claim[n].id /\ c.at < claim[n].at => c.at <= previous[n]

OwnSlots ==
  /\ \A n, m \in InFlight : n # m => claim[n].id # claim[m].id
  /\ \A n \in InFlight : \A s \in sent : s.id # claim[n].id

SlotInv == Stamped /\ Apart /\ Remembered /\ OwnSlots

\* SlotInv depends only on the slots that count, the stamps and the counter.
LEMMA SlotsKept ==
  ASSUME SlotInv, InFlight' = InFlight,
         UNCHANGED <<sent, claim, lastSent, claims, previous>>
  PROVE  SlotInv' /\ Live' = Live
<1>1. Live' = Live
  BY DEF Live
<1> QED
  BY <1>1 DEF SlotInv, Stamped, Apart, Remembered, OwnSlots

\* A claim adds a slot that is younger than all that count by its interval.
LEMMA ClaimKeepsSlots ==
  ASSUME TypeOK, SlotInv, NEW n \in Notifiers, Claim(n)
  PROVE  SlotInv'
<1> USE MinWidgetIntervalAssumption
<1> DEFINE new == [id |-> claims + 1, at |-> clock, interval |-> interval[n]]
<1>1. /\ claim' = [claim EXCEPT ![n] = new] /\ claim'[n] = new
      /\ lastSent' = clock /\ claims' = claims + 1 /\ sent' = sent
      /\ previous' = [previous EXCEPT ![n] = lastSent]
  BY DEF Claim, TypeOK
<1>2. n \notin InFlight /\ InFlight' = InFlight \cup {n}
  BY DEF Claim, InFlight, TypeOK
<1>3. \A m \in InFlight : claim'[m] = claim[m] /\ previous'[m] = previous[m]
  BY <1>1, <1>2 DEF InFlight, TypeOK
<1>4. Live' = Live \cup {new}
  BY <1>1, <1>2, <1>3 DEF Live
<1>5. Live \subseteq Slot
  BY DEF Live, InFlight, TypeOK
<1>6. interval[n] \in Nat /\ interval[n] >= MinWidgetInterval /\ clock \in Nat
      /\ lastSent \in Nat /\ claims \in Nat
  BY DEF TypeOK
<1>7. lastSent = 0 \/ clock - lastSent >= interval[n]
  BY <1>6 DEF Claim, Throttled
<1>8. \A c \in Live : /\ c.at \in Nat /\ c.id \in Nat
                      /\ c.at <= lastSent /\ clock - c.at >= interval[n]
                      /\ c.at < clock /\ c.id <= claims
  BY <1>5, <1>6, <1>7 DEF SlotInv, Stamped, Slot
<1>9. Stamped'
  <2>1. 1 <= new.at /\ new.at <= lastSent' /\ new.interval >= MinWidgetInterval
        /\ new.id <= claims'
    BY <1>1, <1>6 DEF TypeOK
  <2>2. \A c \in Live : /\ 1 <= c.at /\ c.at <= lastSent'
                        /\ c.interval >= MinWidgetInterval /\ c.id <= claims'
    BY <1>1, <1>6, <1>8 DEF SlotInv, Stamped
  <2> QED
    BY <1>4, <2>1, <2>2 DEF Stamped
<1>10. Apart'
  <2>1. \A c \in Live : /\ c.at # new.at /\ new.at - c.at >= new.interval
                        /\ ~(new.at < c.at)
    BY <1>6, <1>8
  <2>2. \A c, d \in Live' : c.id # d.id =>
          c.at # d.at /\ (c.at < d.at => d.at - c.at >= d.interval)
    BY <1>4, <2>1 DEF SlotInv, Apart
  <2> QED
    BY <2>2 DEF Apart
<1>11. Remembered'
  <2>1. \A c \in Live : c.at <= previous'[n]
    BY <1>1, <1>8 DEF TypeOK
  <2>2. ~(new.at < new.at)
    BY <1>6
  <2>3. \A m \in InFlight : ~(new.at < claim[m].at)
    BY <1>6, <1>8 DEF Live
  <2> QED
    BY <1>1, <1>2, <1>3, <1>4, <2>1, <2>2, <2>3 DEF SlotInv, Remembered
<1>12. OwnSlots'
  <2>1. \A c \in Live : c.id # new.id
    BY <1>6, <1>8
  <2> QED
    BY <1>1, <1>2, <1>3, <2>1 DEF SlotInv, OwnSlots, Live
<1> QED
  BY <1>9, <1>10, <1>11, <1>12 DEF SlotInv

\* A call that returns keeps its slot or gives it up; if it restores a stamp,
\* no slot that still counts is younger than that.
LEMMA ReturnKeepsSlots ==
  ASSUME TypeOK, SlotInv, NEW n \in Notifiers, Return(n)
  PROVE  SlotInv'
<1>1. /\ n \in InFlight /\ InFlight' = InFlight \ {n}
      /\ claim' = claim /\ previous' = previous /\ claims' = claims
  BY DEF Return, InFlight, TypeOK, callVars
<1>2. Live \subseteq Slot /\ claim[n] \in Live
  BY <1>1 DEF Live, InFlight, TypeOK
<1>3. CASE ~failed[n]
  <2>1. lastSent' = lastSent /\ sent' = sent \cup {claim[n]}
    BY <1>3 DEF Return
  <2>2. Live' = Live
    BY <1>1, <2>1 DEF Live
  <2>3. OwnSlots'
    BY <1>1, <2>1 DEF SlotInv, OwnSlots
  <2> QED
    BY <1>1, <2>1, <2>2, <2>3 DEF SlotInv, Stamped, Apart, Remembered
<1>4. CASE failed[n]
  <2>1. lastSent' = Restored(n) /\ sent' = sent
    BY <1>4 DEF Return
  <2>2. \A c \in Live' : c \in Live /\ c.id # claim[n].id
    BY <1>1, <2>1 DEF Live, SlotInv, OwnSlots
  <2>3. \A c \in Live' : c.at <= lastSent'
    <3>1. CASE lastSent = claim[n].at
      <4>1. lastSent' = previous[n]
        BY <2>1, <3>1 DEF Restored
      <4>2. ASSUME NEW c \in Live' PROVE c.at <= previous[n]
        <5>1. c \in Live /\ c.id # claim[n].id
          BY <2>2
        <5>2. c.at <= claim[n].at /\ c.at # claim[n].at
          BY <1>2, <3>1, <5>1 DEF SlotInv, Stamped, Apart
        <5>3. c.at < claim[n].at
          BY <1>2, <5>1, <5>2 DEF Slot
        <5> QED
          BY <1>1, <5>1, <5>3 DEF SlotInv, Remembered
      <4> QED
        BY <4>1, <4>2
    <3>2. CASE lastSent # claim[n].at
      BY <2>1, <2>2, <3>2 DEF Restored, SlotInv, Stamped
    <3> QED
      BY <3>1, <3>2
  <2>4. Stamped'
    BY <1>1, <2>2, <2>3 DEF SlotInv, Stamped
  <2>5. Apart' /\ Remembered'
    BY <1>1, <2>2 DEF SlotInv, Apart, Remembered
  <2>6. OwnSlots'
    BY <1>1, <2>1 DEF SlotInv, OwnSlots
  <2> QED
    BY <2>4, <2>5, <2>6 DEF SlotInv
<1> QED
  BY <1>3, <1>4
\* The steps that neither claim a slot nor return leave the slots alone.
OtherStep ==
  \/ \E n \in Notifiers : \/ ReadInterval(n) \/ Skip(n) \/ Publish(n)
                          \/ \E d \in todo[n], answer \in Answers : Send(n, d, answer)
  \/ \E d \in PollIntervals : SetPollInterval(d)
  \/ \E d \in Devices : Register(d)
  \/ Tick
  \/ UNCHANGED vars

\* Steps that claim, send and restore nothing leave the slots alone.
LEMMA OtherStepsKeepSlots ==
  ASSUME TypeOK, OtherStep
  PROVE  /\ InFlight' = InFlight
         /\ UNCHANGED <<sent, claim, lastSent, claims, previous, overlapped>>
<1>1. UNCHANGED <<sent, claim, lastSent, claims, previous, overlapped>>
  BY DEF OtherStep, ReadInterval, Skip, Publish, Send, SetPollInterval, Register, Tick,
     vars, callVars
<1>2. ASSUME NEW m \in Notifiers
      PROVE  pc'[m] \in {"publish", "send"} <=> pc[m] \in {"publish", "send"}
  BY DEF OtherStep, ReadInterval, Skip, Publish, Send, SetPollInterval, Register, Tick,
     vars, TypeOK
<1> QED
  BY <1>1, <1>2 DEF InFlight

\* The kinds of steps the invariants tell apart.
LEMMA StepKinds == [Next]_vars <=>
  \/ OtherStep
  \/ \E n \in Notifiers : Claim(n) \/ Return(n)
  BY DEF Next, Notify, OtherStep

\* Every step keeps the slots that count apart from each other and from the stamp.
LEMMA SlotStep == TypeOK /\ SlotInv /\ [Next]_vars => SlotInv'
<1> SUFFICES ASSUME TypeOK, SlotInv, [Next]_vars PROVE SlotInv'
  OBVIOUS
<1>1. CASE OtherStep
  BY <1>1, OtherStepsKeepSlots, SlotsKept
<1>2. ASSUME NEW n \in Notifiers, Claim(n) PROVE SlotInv'
  BY <1>2, ClaimKeepsSlots
<1>3. ASSUME NEW n \in Notifiers, Return(n) PROVE SlotInv'
  BY <1>3, ReturnKeepsSlots
<1> QED
  BY <1>1, <1>2, <1>3, StepKinds

\* Overlapping calls never bring the stamp behind a slot that counts.
LEMMA SlotsHold == Spec => []SlotInv
<1>1. Init => SlotInv
  <2> SUFFICES ASSUME Init PROVE SlotInv
    OBVIOUS
  <2>1. InFlight = {} /\ sent = {}
    BY DEF Init, InFlight
  <2>2. Live = {}
    BY <2>1 DEF Live
  <2> QED
    BY <2>1, <2>2 DEF SlotInv, Stamped, Apart, Remembered, OwnSlots
<1> QED
  BY <1>1, TypeCorrect, SlotStep, PTL DEF Spec

\* At most one successful push per interval, for any number of overlapping
\* calls, whatever fails and however the poll interval changes.
THEOREM ThrottleHolds == Spec => []SuccessesApart
<1>1. TypeOK /\ SlotInv => SuccessesApart
  <2> SUFFICES ASSUME TypeOK, SlotInv, NEW s \in sent, NEW t \in sent, s.id # t.id
               PROVE  \/ t.at - s.at >= t.interval /\ t.interval >= MinWidgetInterval
                      \/ s.at - t.at >= s.interval /\ s.interval >= MinWidgetInterval
    BY DEF SuccessesApart
  <2>1. s \in Live /\ t \in Live /\ s \in Slot /\ t \in Slot
    BY DEF Live, TypeOK
  <2>2. s.at # t.at /\ s.interval >= MinWidgetInterval /\ t.interval >= MinWidgetInterval
    BY <2>1 DEF SlotInv, Apart, Stamped
  <2>3. s.at < t.at \/ t.at < s.at
    BY <2>1, <2>2 DEF Slot
  <2> QED
    BY <2>1, <2>2, <2>3 DEF SlotInv, Apart
<1> QED
  BY <1>1, TypeCorrect, SlotsHold, PTL

-----------------------------------------------------------------------------
\* The slots pushes were sent in, whether their calls went on to succeed or not.
Used == {p.slot : p \in pushed}

\* Every slot in use was claimed an interval after each older slot that counts,
\* and keeps that distance: slots stop counting, but none begins to count late.
QuietInv ==
  /\ \A s \in Used : s.id <= claims /\ s.interval >= MinWidgetInterval
  /\ \A c \in Live, s \in Used \cup Live : c.id < s.id => s.at - c.at >= s.interval

\* A claim is an interval after all that counts; nothing has been pushed in it yet.
LEMMA ClaimKeepsQuiet ==
  ASSUME TypeOK, SlotInv, QuietInv, NEW n \in Notifiers, Claim(n)
  PROVE  QuietInv'
<1> DEFINE new == [id |-> claims + 1, at |-> clock, interval |-> interval[n]]
<1>1. /\ claim' = [claim EXCEPT ![n] = new] /\ claim'[n] = new
      /\ claims' = claims + 1 /\ sent' = sent /\ pushed' = pushed
  BY DEF Claim, TypeOK
<1>2. InFlight' = InFlight \cup {n} /\ \A m \in InFlight : claim'[m] = claim[m]
  BY <1>1 DEF Claim, InFlight, TypeOK
<1>3. Live' = Live \cup {new} /\ Used' = Used
  BY <1>1, <1>2 DEF Live, Used
<1>4. Live \subseteq Slot /\ Used \subseteq Slot
  BY DEF Live, Used, InFlight, TypeOK
<1>5. /\ interval[n] \in Nat /\ clock \in Nat /\ lastSent \in Nat /\ claims \in Nat
      /\ lastSent = 0 \/ clock - lastSent >= interval[n]
  BY DEF Claim, Throttled, TypeOK
<1>6. PICK v : v = new
  OBVIOUS
<1>7. v.id = claims + 1 /\ v.at = clock /\ v.interval = interval[n]
  BY <1>6
<1> HIDE DEF new
<1>8. ASSUME NEW c \in Live
      PROVE  c.id <= claims /\ c.id \in Nat /\ v.at - c.at >= v.interval
  <2>1. /\ c.at \in Nat /\ c.id \in Nat
        /\ 1 <= c.at /\ c.at <= lastSent /\ c.id <= claims
    BY <1>4 DEF SlotInv, Stamped, Slot
  <2> QED
    BY <1>5, <1>7, <2>1
<1>9. ASSUME NEW s \in Used PROVE s.id <= claims' /\ s.id \in Nat /\ ~(v.id < s.id)
  <2>1. s.id \in Nat /\ s.id <= claims
    BY <1>4 DEF QuietInv, Slot
  <2> QED
    BY <1>1, <1>5, <1>7, <2>1
<1>10. ASSUME NEW c \in Live', NEW s \in Used' \cup Live', c.id < s.id
       PROVE  s.at - c.at >= s.interval
  <2>1. c # v
    <3>1. s = v \/ s \in Used \/ s \in Live
      BY <1>3, <1>6
    <3> QED
      BY <1>5, <1>7, <1>8, <1>9, <1>10, <3>1
  <2>2. c \in Live
    BY <1>3, <1>6, <2>1
  <2>3. CASE s = v
    BY <1>8, <2>2, <2>3
  <2>4. CASE s # v
    BY <1>3, <1>6, <1>10, <2>2, <2>4 DEF QuietInv
  <2> QED
    BY <2>3, <2>4
<1>11. \A s \in Used' : s.id <= claims' /\ s.interval >= MinWidgetInterval
  BY <1>3, <1>9 DEF QuietInv
<1> QED
  BY <1>10, <1>11 DEF QuietInv

\* A push is sent in the slot of its call, which counts.
LEMMA OtherStepsKeepQuiet ==
  ASSUME TypeOK, SlotInv, QuietInv, OtherStep
  PROVE  QuietInv'
<1>1. Live' = Live /\ claims' = claims
  BY OtherStepsKeepSlots DEF Live
<1>2. ASSUME NEW s \in Used' PROVE s \in Used \cup Live
  <2>1. CASE pushed' = pushed
    BY <2>1 DEF Used
  <2>2. ASSUME NEW n \in Notifiers, NEW d \in todo[n], NEW answer \in Answers,
               Send(n, d, answer)
        PROVE  s \in Used \cup Live
    <3>1. n \in InFlight
      BY <2>2 DEF Send, InFlight
    <3>2. \A p \in pushed' : p \in pushed \/ p.slot = claim[n]
      BY <2>2 DEF Send
    <3> QED
      BY <3>1, <3>2 DEF Used, Live
  <2> QED
    BY <2>1, <2>2
    DEF OtherStep, ReadInterval, Skip, Publish, SetPollInterval, Register, Tick, vars, callVars
<1>3. \A s \in Live : s.id <= claims /\ s.interval >= MinWidgetInterval
  BY DEF SlotInv, Stamped
<1> QED
  BY <1>1, <1>2, <1>3 DEF QuietInv

\* A call that returns keeps its slot or gives it up.
LEMMA ReturnKeepsQuiet ==
  ASSUME TypeOK, QuietInv, NEW n \in Notifiers, Return(n)
  PROVE  QuietInv'
<1>1. n \in InFlight /\ InFlight' \subseteq InFlight
  BY DEF Return, InFlight, TypeOK
<1>2. UNCHANGED <<claim, claims, pushed>> /\ sent' \subseteq sent \cup {claim[n]}
  BY DEF Return, callVars
<1>3. Live' \subseteq Live /\ Used' = Used
  BY <1>1, <1>2 DEF Live, Used
<1> QED
  BY <1>2, <1>3 DEF QuietInv

\* After a call that reached every device nobody is pushed until the next
\* interval is over, for any number of overlapping calls, devices and failures.
THEOREM SuccessKeepsQuiet == Spec => []QuietAfterSuccess
<1>1. Init => QuietInv
  <2> SUFFICES ASSUME Init PROVE QuietInv
    OBVIOUS
  <2>1. Used = {} /\ Live = {}
    BY DEF Init, Used, Live, InFlight
  <2> QED
    BY <2>1 DEF QuietInv
<1>2. TypeOK /\ SlotInv /\ QuietInv /\ [Next]_vars => QuietInv'
  BY StepKinds, ClaimKeepsQuiet, OtherStepsKeepQuiet, ReturnKeepsQuiet
<1>3. QuietInv => QuietAfterSuccess
  BY DEF QuietInv, QuietAfterSuccess, Used, Live
<1> QED
  BY <1>1, <1>2, <1>3, TypeCorrect, SlotsHold, PTL DEF Spec

-----------------------------------------------------------------------------
\* While calls do not overlap, the stamp of the last success is either the
\* current one or remembered by the one call in flight.
AloneInv ==
  ~overlapped =>
    /\ \A n, m \in InFlight : n = m
    /\ InFlight = {} => LastSuccess(lastSent)
    /\ \A n \in InFlight : LastSuccess(previous[n]) /\ lastSent = claim[n].at

\* Every step of calls that do not overlap keeps the stamp at the last success.
LEMMA AloneStep == TypeOK /\ SlotInv /\ AloneInv /\ [Next]_vars => AloneInv'
<1> SUFFICES ASSUME TypeOK, SlotInv, AloneInv, [Next]_vars, ~overlapped' PROVE AloneInv'
  BY DEF AloneInv
<1>1. CASE OtherStep
  BY <1>1, OtherStepsKeepSlots DEF AloneInv, LastSuccess
<1>2. ASSUME NEW n \in Notifiers, Claim(n) PROVE AloneInv'
  <2>1. InFlight = {} /\ ~overlapped
    BY <1>2 DEF Claim
  <2>2. InFlight' = {n}
    BY <1>2, <2>1 DEF Claim, InFlight, TypeOK
  <2>3. sent' = sent /\ previous'[n] = lastSent /\ lastSent' = claim'[n].at
    BY <1>2 DEF Claim, TypeOK
  <2>4. LastSuccess(lastSent)
    BY <2>1 DEF AloneInv
  <2> QED
    BY <2>2, <2>3, <2>4 DEF AloneInv, LastSuccess
<1>3. ASSUME NEW n \in Notifiers, Return(n) PROVE AloneInv'
  <2>1. ~overlapped /\ n \in InFlight /\ InFlight' = InFlight \ {n}
    BY <1>3 DEF Return, InFlight, TypeOK
  <2>2. InFlight' = {} /\ lastSent = claim[n].at /\ LastSuccess(previous[n])
    BY <2>1 DEF AloneInv
  <2>3. CASE failed[n]
    <3>1. lastSent' = previous[n] /\ sent' = sent
      BY <1>3, <2>2, <2>3 DEF Return, Restored
    <3> QED
      BY <2>2, <3>1 DEF AloneInv, LastSuccess
  <2>4. CASE ~failed[n]
    <3>1. lastSent' = claim[n].at /\ sent' = sent \cup {claim[n]}
      BY <1>3, <2>2, <2>4 DEF Return
    <3>2. \A s \in sent : s.at <= claim[n].at
      BY <2>2 DEF SlotInv, Stamped, Live
    <3>3. claim[n].at <= claim[n].at
      BY DEF TypeOK, Slot
    <3> QED
      BY <2>2, <3>1, <3>2, <3>3 DEF AloneInv, LastSuccess
  <2> QED
    BY <2>3, <2>4
<1> QED
  BY <1>1, <1>2, <1>3, StepKinds

\* A failed push leaves no trace in the throttle, as long as calls come one
\* after the other.
THEOREM FailuresAreFree == Spec => []FailureCostsNothing
<1>1. Init => AloneInv
  BY DEF Init, AloneInv, InFlight, LastSuccess
<1>2. AloneInv => FailureCostsNothing
  BY DEF AloneInv, FailureCostsNothing
<1> QED
  BY <1>1, <1>2, TypeCorrect, SlotsHold, AloneStep, PTL DEF Spec
=============================================================================
