--------------------------- MODULE WidgetNotifier ---------------------------
(***************************************************************************)
(* The throttle of the silent widget pushes (internal/pushrelay/widget.go, *)
(* Notify) with the fan-out it calls (publisher.go, PublishMetrics).       *)
(*                                                                         *)
(* Notify reads the interval, claims the slot under the mutex, publishes   *)
(* without it, and after a failed publish takes the mutex again to restore *)
(* the stamp it replaced. The serve command calls it on the collector      *)
(* goroutine only; its comments promise more, so the model lets any set of *)
(* goroutines call it. Go's clock is monotonic here (Sub and Equal use the *)
(* monotonic reading); it starts at 1 and 0 is the zero time.Time.         *)
(***************************************************************************)
EXTENDS Integers, FiniteSets

CONSTANTS
  Notifiers,        \* goroutines calling Notify
  Devices,          \* devices that can be registered
  MinWidgetInterval,
  PollIntervals,    \* poll intervals the app may set
  MaxTime,          \* bound on the clock
  MaxClaims         \* bound on slots claimed

ASSUME MinWidgetIntervalAssumption == MinWidgetInterval \in Nat \ {0}
ASSUME PollIntervalsAssumption == PollIntervals \subseteq Int

VARIABLES
  clock,
  poll,         \* the collector's current poll interval
  registered,   \* devices in the token store
  lastSent,     \* WidgetNotifier.lastSent
  pc,           \* where each call of Notify is
  interval,     \* the interval it has read
  claim,        \* the slot it has claimed (see Slot)
  previous,     \* the stamp it replaced
  todo,         \* devices PublishMetrics has still to send to
  failed,       \* PublishMetrics has met an error
  \* history variables
  claims,       \* number of slots claimed
  overlapped,   \* two calls have published at once
  sent,         \* slots whose call of Notify returned true
  pushed        \* pushes the relay accepted: the device and the slot

callVars == <<interval, claim, previous, todo, failed>>
vars == <<clock, poll, registered, lastSent, pc, callVars,
          claims, overlapped, sent, pushed>>

\* A slot: its number, when it was claimed, the interval that was respected.
Slot   == [id : Nat, at : Nat, interval : Nat]
NoSlot == [id |-> 0, at |-> 0, interval |-> 0]

TypeOK ==
  /\ clock \in Nat \ {0}
  /\ poll \in PollIntervals
  /\ registered \subseteq Devices
  /\ lastSent \in 0..clock
  /\ pc \in [Notifiers -> {"idle", "claim", "publish", "send"}]
  /\ interval \in [Notifiers -> {d \in Nat : d >= MinWidgetInterval}]
  /\ claim \in [Notifiers -> Slot]
  /\ previous \in [Notifiers -> 0..clock]
  /\ todo \in [Notifiers -> SUBSET Devices]
  /\ failed \in [Notifiers -> BOOLEAN]
  /\ claims \in Nat
  /\ overlapped \in BOOLEAN
  /\ sent \subseteq Slot
  /\ pushed \subseteq [device : Devices, slot : Slot]

Init ==
  /\ clock = 1
  /\ poll \in PollIntervals
  /\ registered \in SUBSET Devices
  /\ lastSent = 0
  /\ pc = [n \in Notifiers |-> "idle"]
  /\ interval = [n \in Notifiers |-> MinWidgetInterval]
  /\ claim = [n \in Notifiers |-> NoSlot]
  /\ previous = [n \in Notifiers |-> 0]
  /\ todo = [n \in Notifiers |-> {}]
  /\ failed = [n \in Notifiers |-> FALSE]
  /\ claims = 0
  /\ overlapped = FALSE
  /\ sent = {}
  /\ pushed = {}

-----------------------------------------------------------------------------
(* Notify                                                                  *)

\* Mutant: the poll interval is used as it is.
IntervalUnfloored == IF poll < 0 THEN 0 ELSE poll

\* The poll interval, floored at MinWidgetInterval.
Interval == IF poll < MinWidgetInterval THEN MinWidgetInterval ELSE poll

ReadInterval(n) ==
  /\ pc[n] = "idle" /\ claims < MaxClaims
  /\ interval' = [interval EXCEPT ![n] = Interval]
  /\ pc' = [pc EXCEPT ![n] = "claim"]
  /\ UNCHANGED <<clock, poll, registered, lastSent, claim, previous, todo, failed,
                 claims, overlapped, sent, pushed>>

Throttled(n) == lastSent # 0 /\ clock - lastSent < interval[n]

InFlight == {n \in Notifiers : pc[n] \in {"publish", "send"}}

Skip(n) ==
  /\ pc[n] = "claim" /\ Throttled(n)
  /\ pc' = [pc EXCEPT ![n] = "idle"]
  /\ UNCHANGED <<clock, poll, registered, lastSent, callVars,
                 claims, overlapped, sent, pushed>>

Claim(n) ==
  /\ pc[n] = "claim" /\ ~Throttled(n)
  /\ previous' = [previous EXCEPT ![n] = lastSent]
  /\ lastSent' = clock
  /\ claims' = claims + 1
  /\ claim' = [claim EXCEPT ![n] = [id |-> claims', at |-> clock, interval |-> interval[n]]]
  /\ overlapped' = (overlapped \/ InFlight # {})
  /\ pc' = [pc EXCEPT ![n] = "publish"]
  /\ UNCHANGED <<clock, poll, registered, interval, todo, failed, sent, pushed>>

-----------------------------------------------------------------------------
(* PublishMetrics                                                          *)

\* The registered devices are copied; none at all is an error (ErrNoDevices).
Publish(n) ==
  /\ pc[n] = "publish"
  /\ todo' = [todo EXCEPT ![n] = registered]
  /\ failed' = [failed EXCEPT ![n] = (registered = {})]
  /\ pc' = [pc EXCEPT ![n] = "send"]
  /\ UNCHANGED <<clock, poll, registered, lastSent, interval, claim, previous,
                 claims, overlapped, sent, pushed>>

\* The relay accepts the push, answers 410, which prunes the device, or fails.
Send(n, d, answer) ==
  /\ pc[n] = "send" /\ d \in todo[n]
  /\ todo' = [todo EXCEPT ![n] = @ \ {d}]
  /\ failed' = [failed EXCEPT ![n] = @ \/ answer # "accepted"]
  /\ registered' = IF answer = "gone" THEN registered \ {d} ELSE registered
  /\ pushed' = IF answer = "accepted"
               THEN pushed \cup {[device |-> d, slot |-> claim[n]]} ELSE pushed
  /\ UNCHANGED <<clock, poll, lastSent, pc, interval, claim, previous,
                 claims, overlapped, sent>>

-----------------------------------------------------------------------------
(* Notify returns                                                          *)

\* Mutant: the stamp is restored whoever set the current one.
RestoredBlindly(n) == previous[n]

\* Mutant: a failed push keeps its slot.
RestoredNever(n) == lastSent

\* The replaced stamp comes back, unless a later call has set its own.
Restored(n) == IF lastSent = claim[n].at THEN previous[n] ELSE lastSent

Return(n) ==
  /\ pc[n] = "send" /\ todo[n] = {}
  /\ lastSent' = IF failed[n] THEN Restored(n) ELSE lastSent
  /\ sent' = IF failed[n] THEN sent ELSE sent \cup {claim[n]}
  /\ pc' = [pc EXCEPT ![n] = "idle"]
  /\ UNCHANGED <<clock, poll, registered, callVars, claims, overlapped, pushed>>

-----------------------------------------------------------------------------
(* Around it                                                               *)

SetPollInterval(d) ==
  /\ poll' = d
  /\ UNCHANGED <<clock, registered, lastSent, pc, callVars, claims, overlapped, sent, pushed>>

Register(d) ==
  /\ registered' = registered \cup {d}
  /\ UNCHANGED <<clock, poll, lastSent, pc, callVars, claims, overlapped, sent, pushed>>

Tick ==
  /\ clock < MaxTime
  /\ clock' = clock + 1
  /\ UNCHANGED <<poll, registered, lastSent, pc, callVars, claims, overlapped, sent, pushed>>

Answers == {"accepted", "gone", "error"}

Notify(n) ==
  \/ ReadInterval(n) \/ Skip(n) \/ Claim(n) \/ Publish(n) \/ Return(n)
  \/ \E d \in todo[n], answer \in Answers : Send(n, d, answer)

Next ==
  \/ \E n \in Notifiers : Notify(n)
  \/ \E d \in PollIntervals : SetPollInterval(d)
  \/ \E d \in Devices : Register(d)
  \/ Tick

Spec == Init /\ [][Next]_vars

-----------------------------------------------------------------------------
(* Properties                                                              *)

\* "Notify sends at most one push per interval": of two calls that returned
\* true, the later one claimed its slot at least the interval it had read,
\* never less than MinWidgetInterval, after the earlier one, although a slow
\* relay, failures in between and a changing poll interval let calls overlap
\* and restore each other's stamps.
SuccessesApart ==
  \A s, t \in sent : s.id # t.id =>
    \/ t.at - s.at >= t.interval /\ t.interval >= MinWidgetInterval
    \/ s.at - t.at >= s.interval /\ s.interval >= MinWidgetInterval

LastSuccess(x) ==
  IF sent = {} THEN x = 0
  ELSE /\ \E s \in sent : x = s.at
       /\ \A s \in sent : s.at <= x

\* "A failed send should not cost the next interval": while calls do not
\* overlap, the stamp between two calls is that of the last successful one.
FailureCostsNothing == ~overlapped /\ InFlight = {} => LastSuccess(lastSent)

\* "A slow relay must not let a second sample slip past the throttle": after a call
\* that reached every device, none is pushed in a later slot before the interval
\* is over, not even by a call that fails for another device, and although the
\* first call may still have been sending when the second one claimed its slot.
QuietAfterSuccess ==
  \A s \in sent, p \in pushed : s.id < p.slot.id =>
    p.slot.at - s.at >= p.slot.interval /\ p.slot.interval >= MinWidgetInterval

\* "Ten minutes caps it at six per hour" (per app and device): two pushes
\* accepted for one device are MinWidgetInterval apart.
DevicePushesApart ==
  \A p, q \in pushed : p.device = q.device /\ p.slot.id < q.slot.id =>
    q.slot.at - p.slot.at >= MinWidgetInterval
=============================================================================
