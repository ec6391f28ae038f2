----------------------------- MODULE TokenStore -----------------------------
(***************************************************************************)
(* The push-token registry (internal/pushrelay/tokenstore.go) and the      *)
(* publisher that sends to every registered device and prunes the ones     *)
(* Apple no longer knows (publisher.go).                                   *)
(*                                                                         *)
(* Set and Remove change the list and copy it under the mutex, and save    *)
(* the copy after the unlock. Handlers register devices, publishers (the   *)
(* collector goroutine, the test-alert handlers) send and prune. The       *)
(* process may die between any two steps and is started again from the     *)
(* file. The order of the list is abstracted away: a registration is what  *)
(* its token maps to.                                                      *)
(***************************************************************************)
EXTENDS FileSwap, FiniteSets

CONSTANTS
  Tokens,         \* device tokens
  Environments,   \* APNs environments after NormalizeEnvironment
  Labels,         \* device labels
  NoLabel,        \* the empty label
  Unregistered,   \* what a token that is not in the list maps to
  Handlers,       \* goroutines serving POST /api/v1/push-token
  Publishers,     \* goroutines running Publish, PublishMetrics or SendTest
  MaxOps          \* bound on registrations, publishes and failures of a save

ASSUME UnregisteredAssumption ==
  Unregistered \notin [environment : Environments, label : Labels]
ASSUME TokensAssumption  == IsFiniteSet(Tokens)
ASSUME NoLabelAssumption == NoLabel \in Labels
ASSUME WritersAssumption == Writers = Handlers \cup Publishers

Registration  == [environment : Environments, label : Labels]
Registrations == [Tokens -> Registration \cup {Unregistered}]

VARIABLES
  registrations,  \* TokenStore.registrations
  pc,             \* where each writer is
  snapshot,       \* the copy each writer took under the mutex
  todo,           \* devices a publish has still to send to
  status,         \* the agent process: "up", "down", or "failed" to start
  \* history variables
  setting,        \* the token an unanswered POST is registering
  acked,          \* tokens whose registration was answered with 200
  overlapped,     \* two saves have been in progress at once in this process
  saved,          \* the last save to end succeeded
  round,          \* what each publish has achieved
  ops

storeVars == <<registrations, snapshot>>
histVars  == <<setting, acked, overlapped, saved>>
vars == <<registrations, pc, snapshot, todo, fileVars, status,
          setting, acked, overlapped, saved, round, ops>>

Registered(regs) == {t \in Tokens : regs[t] # Unregistered}
NoRegistrations  == [t \in Tokens |-> Unregistered]

\* The length of the JSON document, in entries and labels.
DocSize(regs) ==
  1 + Cardinality(Registered(regs))
    + Cardinality({t \in Registered(regs) : regs[t].label # NoLabel})

NoRound == [targets |-> {}, sent |-> {}, failed |-> {}]

saving == {"open", "write", "rename"}
Saving(a) == pc[a] \in saving

TypeOK ==
  /\ registrations \in Registrations
  /\ pc \in [Writers -> {"idle", "send"} \cup saving]
  /\ snapshot \in [Writers -> Registrations]
  /\ todo \in [Writers -> SUBSET Tokens]
  /\ FileTypeOK(Registrations)
  /\ status \in {"up", "down", "failed"}
  /\ setting \in [Writers -> SUBSET Tokens]
  /\ acked \in SUBSET Tokens
  /\ overlapped \in BOOLEAN /\ saved \in BOOLEAN
  /\ round \in [Writers -> [targets : SUBSET Tokens, sent : SUBSET Tokens,
                           failed : SUBSET Tokens]]
  /\ ops \in Nat

Init ==
  /\ registrations = NoRegistrations
  /\ pc = [a \in Writers |-> "idle"]
  /\ snapshot = [a \in Writers |-> NoRegistrations]
  /\ todo = [a \in Writers |-> {}]
  /\ FileInit
  /\ status = "up"
  /\ setting = [a \in Writers |-> {}]
  /\ acked = {}
  /\ overlapped = FALSE /\ saved = TRUE
  /\ round = [a \in Writers |-> NoRound]
  /\ ops = 0

-----------------------------------------------------------------------------
(* The critical section of Set and Remove, and persist                     *)

\* Mutant: the copy is taken before the change.
UpdateAfterCopy(a, regs) ==
  /\ registrations' = regs
  /\ snapshot' = [snapshot EXCEPT ![a] = registrations]
  /\ pc' = [pc EXCEPT ![a] = "open"]
  /\ overlapped' = (overlapped \/ \E b \in Writers \ {a} : Saving(b))

\* The list becomes regs, the writer leaves the mutex with a copy of it.
Update(a, regs) ==
  /\ registrations' = regs
  /\ snapshot' = [snapshot EXCEPT ![a] = regs]
  /\ pc' = [pc EXCEPT ![a] = "open"]
  /\ overlapped' = (overlapped \/ \E b \in Writers \ {a} : Saving(b))

\* Set on a known device keeps the label it has when the new one is empty.
NewRegistration(t, env, label) ==
  [environment |-> env,
   label |-> IF label = NoLabel /\ registrations[t] # Unregistered
             THEN registrations[t].label ELSE label]

Set(h, t, env, label) ==
  /\ status = "up" /\ pc[h] = "idle" /\ ops < MaxOps
  /\ Update(h, [registrations EXCEPT ![t] = NewRegistration(t, env, label)])
  /\ setting' = [setting EXCEPT ![h] = {t}]
  /\ ops' = ops + 1
  /\ UNCHANGED <<todo, fileVars, status, acked, saved, round>>

PersistOpen(a) ==
  /\ status = "up" /\ pc[a] = "open"
  /\ OpenTmp(a)
  /\ pc' = [pc EXCEPT ![a] = "write"]
  /\ UNCHANGED <<storeVars, todo, status, histVars, round, ops>>

PersistWrite(a) ==
  /\ status = "up" /\ pc[a] = "write"
  /\ WriteTmp(a, snapshot[a], DocSize(snapshot[a]))
  /\ pc' = [pc EXCEPT ![a] = "rename"]
  /\ UNCHANGED <<storeVars, todo, status, histVars, round, ops>>

\* After persist a POST is answered; a publish ignores the outcome of Remove
\* and goes on with the next device.
SaveEnds(a) ==
  /\ pc' = [pc EXCEPT ![a] = IF todo[a] = {} THEN "idle" ELSE "send"]
  /\ setting' = [setting EXCEPT ![a] = {}]

\* A POST is answered 200, or 500 when the file is gone.
PersistRename(a) ==
  /\ status = "up" /\ pc[a] = "rename"
  /\ RenameTmp
  /\ SaveEnds(a)
  /\ saved' = RenameSucceeds
  /\ acked' = IF RenameSucceeds THEN acked \cup setting[a] ELSE acked
  /\ UNCHANGED <<storeVars, todo, status, overlapped, round, ops>>

\* Any of the three system calls may fail otherwise: the change stays in
\* memory, a POST is answered 500.
PersistFails(a) ==
  /\ status = "up" /\ Saving(a) /\ ops < MaxOps
  /\ GiveUp(a)
  /\ SaveEnds(a)
  /\ saved' = FALSE
  /\ ops' = ops + 1
  /\ UNCHANGED <<storeVars, todo, status, acked, overlapped, round>>

-----------------------------------------------------------------------------
(* Publish and PublishMetrics (every device), SendTest (one device)        *)

StartRound(p, targets) ==
  /\ status = "up" /\ pc[p] = "idle" /\ ops < MaxOps
  /\ targets # {}
  /\ todo' = [todo EXCEPT ![p] = targets]
  /\ round' = [round EXCEPT ![p] = [NoRound EXCEPT !.targets = targets]]
  /\ pc' = [pc EXCEPT ![p] = "send"]
  /\ ops' = ops + 1
  /\ UNCHANGED <<storeVars, fileVars, status, histVars>>

Publish(p)     == StartRound(p, Registered(registrations))
SendTest(p, t) == StartRound(p, {t} \cap Registered(registrations))

\* Mutant: the first failure ends the fan-out.
RemainingIfDelivered(p, t, delivered) == IF delivered THEN todo[p] \ {t} ELSE {}

\* Every device gets its own attempt, whatever the others answered.
Remaining(p, t, delivered) == todo[p] \ {t}

Answered(p, t, delivered) ==
  /\ status = "up" /\ pc[p] = "send" /\ t \in todo[p]
  /\ todo' = [todo EXCEPT ![p] = Remaining(p, t, delivered)]
  /\ round' = [round EXCEPT
       ![p].sent   = IF delivered THEN @ \cup {t} ELSE @,
       ![p].failed = IF delivered THEN @ ELSE @ \cup {t}]
  /\ UNCHANGED <<fileVars, status, setting, saved, ops>>

\* The relay accepts the push, or answers anything but 410, or not at all.
Send(p, t, delivered) ==
  /\ Answered(p, t, delivered)
  /\ pc' = [pc EXCEPT ![p] = IF todo'[p] = {} THEN "idle" ELSE "send"]
  /\ UNCHANGED <<storeVars, acked, overlapped>>

\* Mutant: every device registered like this one goes with it.
ListWithoutLike(t) ==
  [u \in Tokens |-> IF registrations[u] = registrations[t] THEN Unregistered
                   ELSE registrations[u]]

ListWithout(t) == [registrations EXCEPT ![t] = Unregistered]

\* The relay answers 410: Remove drops the device and saves the list.
Prune(p, t) ==
  /\ Answered(p, t, FALSE)
  /\ Update(p, ListWithout(t))
  /\ acked' = acked \ {t}

-----------------------------------------------------------------------------
(* The process                                                             *)

Crash ==
  /\ status = "up"
  /\ status' = "down"
  /\ registrations' = NoRegistrations
  /\ pc' = [a \in Writers |-> "idle"]
  /\ snapshot' = [a \in Writers |-> NoRegistrations]
  /\ todo' = [a \in Writers |-> {}]
  /\ setting' = [a \in Writers |-> {}]
  /\ round' = [a \in Writers |-> NoRound]
  /\ CloseAll
  /\ UNCHANGED <<acked, overlapped, saved, ops>>

\* NewTokenStore. A file it cannot parse makes the serve command fail; what
\* earlier overlapping saves lost is forgotten with them.
Restart ==
  /\ status = "down"
  /\ IF Readable
     THEN /\ status' = "up"
          /\ registrations' = Stored(NoRegistrations)
          /\ overlapped' = FALSE /\ saved' = TRUE
          /\ acked' = IF overlapped THEN acked \cap Registered(registrations') ELSE acked
     ELSE /\ status' = "failed"
          /\ UNCHANGED <<registrations, overlapped, saved, acked>>
  /\ UNCHANGED <<pc, snapshot, todo, fileVars, setting, round, ops>>

Persist(a) == PersistOpen(a) \/ PersistWrite(a) \/ PersistRename(a) \/ PersistFails(a)

Register(h) ==
  \E t \in Tokens, env \in Environments, label \in Labels : Set(h, t, env, label)

Deliver(p) ==
  \E t \in todo[p] : Prune(p, t) \/ \E delivered \in BOOLEAN : Send(p, t, delivered)

Next ==
  \/ \E h \in Handlers : Register(h)
  \/ \E p \in Publishers : Publish(p) \/ (\E t \in Tokens : SendTest(p, t)) \/ Deliver(p)
  \/ \E a \in Writers : Persist(a)
  \/ Crash
  \/ Restart

Spec == Init /\ [][Next]_vars

-----------------------------------------------------------------------------
(* Properties                                                              *)

\* While saves have not overlapped, the file can always be read back, at
\* whatever point the process dies or a save fails, and between saves it holds
\* exactly the list in memory, unless the last save failed.
FileFollowsMemory ==
  ~overlapped =>
    /\ Readable
    /\ status = "up" /\ saved /\ (\A a \in Writers : ~Saving(a)) =>
         Stored(NoRegistrations) = registrations

\* While saves have not overlapped, a registration that was answered with 200
\* and not pruned since is in the file at every moment, so that no crash, not
\* even one in the middle of saving another device, and no failed save forgets it.
AckedSurviveCrash ==
  ~overlapped => acked \subseteq Registered(Stored(NoRegistrations))

\* A publish that has ended tried each device it started with exactly once,
\* although saves, registrations and other publishes ran in between and some
\* of the devices failed.
EveryDeviceTried ==
  \A p \in Publishers : pc[p] = "idle" =>
    /\ round[p].targets = round[p].sent \cup round[p].failed
    /\ round[p].sent \cap round[p].failed = {}

Durable == INSTANCE Registry
  WITH listed  <- registrations,
       durable <- Stored(NoRegistrations),
       up      <- status = "up"

\* "Atomic write (temp file + rename)": until saves overlap, the registry
\* behaves as a list that is changed one device at a time, becomes durable in
\* one step and acknowledges only what that step has saved, whatever system
\* call fails, whatever a publish prunes meanwhile and wherever the process
\* dies. A restart finds the durable list, never one between two.
ImplementsRegistry == Durable!Init /\ [][overlapped \/ Durable!Next]_(Durable!vars)

\* "TokenStore persists every APNs device token registered with this agent
\* [...] across restarts": what was acknowledged is in the file once all saves
\* are done, the last with success, also when devices registered together.
PersistsEveryToken ==
  status = "up" /\ saved /\ (\A a \in Writers : ~Saving(a)) =>
    Readable /\ acked \subseteq Registered(Stored(NoRegistrations))
=============================================================================
