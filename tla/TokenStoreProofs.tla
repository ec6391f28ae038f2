-------------------------- MODULE TokenStoreProofs --------------------------
(***************************************************************************)
(* Proofs about TokenStore for any number of tokens, handlers, publishers, *)
(* crashes and restarts: one save at a time keeps the file equal to the    *)
(* list, and acknowledged registrations in it, at every step of the save.  *)
(***************************************************************************)
EXTENDS TokenStore, FiniteSetTheorems, TLAPS

\* Descriptors are open only between open and write, a POST is pending only
\* while its save runs, and a dead process runs nothing.
ProcessInv ==
  /\ \A w \in Writers : pc[w] # "write" => fd[w] = NoFile
  /\ \A w \in Writers : ~Saving(w) => setting[w] = {}
  /\ status # "up" => \A w \in Writers : pc[w] = "idle"
  /\ tmp # NoFile => tmp # path

\* How far a save has come, and what it is saving.
SaveInv(w) ==
  /\ Saving(w) => snapshot[w] = registrations
  /\ setting[w] \subseteq Registered(registrations)
  /\ pc[w] = "write" => tmp # NoFile /\ fd[w] = tmp /\ data[tmp] = Empty
  /\ pc[w] = "rename" => tmp # NoFile /\ data[tmp] = Whole(snapshot[w], DocSize(snapshot[w]))

\* One save at a time.
SerialInv ==
  /\ \A v, w \in Writers : Saving(v) /\ Saving(w) => v = w
  /\ \A w \in Writers : SaveInv(w)
  /\ Readable
  /\ status = "up" /\ saved /\ (\A w \in Writers : ~Saving(w)) =>
       Stored(NoRegistrations) = registrations
  /\ status = "up" => acked \subseteq Registered(registrations)
  /\ acked \subseteq Registered(Stored(NoRegistrations))

IInv == TypeOK /\ ProcessInv /\ (~overlapped => SerialInv)

-----------------------------------------------------------------------------

\* A list of registrations has a length.
LEMMA DocSizeNat == ASSUME NEW regs \in Registrations PROVE DocSize(regs) \in Nat
<1>1. IsFiniteSet(Registered(regs))
  BY TokensAssumption, FS_Subset DEF Registered
<1>2. IsFiniteSet({t \in Registered(regs) : regs[t].label # NoLabel})
  BY <1>1, FS_Subset
<1> QED
  BY <1>1, <1>2, FS_CardinalityType DEF DocSize

\* What a write leaves in a file is a document or torn.
LEMMA OverlayType ==
  ASSUME NEW old \in Contents(Registrations), NEW regs \in Registrations
  PROVE  Overlay(old, regs, DocSize(regs)) \in Contents(Registrations)
<1>1. old.size \in Nat /\ DocSize(regs) \in Nat
  BY DocSizeNat DEF Contents, Empty
<1> QED
  BY <1>1 DEF Overlay, Contents, Whole, Torn

-----------------------------------------------------------------------------
\* The list a save starts from, and the sets the history variables hold.
LEMMA UpdateType ==
  ASSUME TypeOK, NEW a \in Writers, NEW regs \in Registrations, Update(a, regs)
  PROVE  /\ registrations' \in Registrations
         /\ snapshot' \in [Writers -> Registrations]
         /\ pc' \in [Writers -> {"idle", "send"} \cup saving]
         /\ overlapped' \in BOOLEAN
  BY DEF TypeOK, Update, saving, Saving

\* Set builds a registration.
LEMMA NewRegistrationType ==
  ASSUME TypeOK, NEW t \in Tokens, NEW env \in Environments, NEW label \in Labels
  PROVE  [registrations EXCEPT ![t] = NewRegistration(t, env, label)] \in Registrations
<1>1. NewRegistration(t, env, label) \in Registration
  <2>1. CASE label = NoLabel /\ registrations[t] # Unregistered
    <3>1. registrations[t] \in Registration
      BY <2>1 DEF TypeOK, Registrations
    <3> QED
      BY <2>1, <3>1 DEF NewRegistration, Registration
  <2>2. CASE ~(label = NoLabel /\ registrations[t] # Unregistered)
    BY <2>2 DEF NewRegistration, Registration
  <2> QED
    BY <2>1, <2>2
<1> QED
  BY <1>1 DEF TypeOK, Registrations

\* An answer of the relay keeps the fan-out's bookkeeping typed.
LEMMA AnsweredType ==
  ASSUME TypeOK, NEW p \in Writers, NEW t \in Tokens, NEW delivered \in BOOLEAN,
         Answered(p, t, delivered)
  PROVE  /\ todo' \in [Writers -> SUBSET Tokens]
         /\ round' \in [Writers -> [targets : SUBSET Tokens, sent : SUBSET Tokens,
                                     failed : SUBSET Tokens]]
<1> USE DEF TypeOK, Answered
<1>1. todo' \in [Writers -> SUBSET Tokens]
  BY DEF Remaining
<1>2. round[p] \in [targets : SUBSET Tokens, sent : SUBSET Tokens, failed : SUBSET Tokens]
  OBVIOUS
<1> DEFINE new == [round[p] EXCEPT
                     !.sent   = IF delivered THEN @ \cup {t} ELSE @,
                     !.failed = IF delivered THEN @ ELSE @ \cup {t}]
<1>3. new \in [targets : SUBSET Tokens, sent : SUBSET Tokens, failed : SUBSET Tokens]
  BY <1>2
<1>4. round' = [round EXCEPT ![p] = new]
  OBVIOUS
<1>5. round \in [Writers -> [targets : SUBSET Tokens, sent : SUBSET Tokens,
                             failed : SUBSET Tokens]]
  OBVIOUS
<1> HIDE DEF new, TypeOK, Answered
<1>6. PICK e : e = new
  OBVIOUS
<1>7. round' \in [Writers -> [targets : SUBSET Tokens, sent : SUBSET Tokens,
                              failed : SUBSET Tokens]]
  <2>1. PICK R : R = [targets : SUBSET Tokens, sent : SUBSET Tokens, failed : SUBSET Tokens]
    OBVIOUS
  <2>2. e \in R /\ round \in [Writers -> R] /\ round' = [round EXCEPT ![p] = e]
    BY <1>3, <1>4, <1>5, <1>6, <2>1
  <2>3. round' \in [Writers -> R]
    BY <2>2
  <2> QED
    BY <2>1, <2>3
<1> QED
  BY <1>1, <1>7

\* Opening the temporary file keeps the files typed.
LEMMA OpenType ==
  ASSUME FileTypeOK(Registrations), NEW w \in Writers, OpenTmp(w)
  PROVE  FileTypeOK(Registrations)'
  BY DEF FileTypeOK, OpenTmp, Unused, Contents

\* So does writing it,
LEMMA WriteType ==
  ASSUME FileTypeOK(Registrations), NEW w \in Writers, NEW regs \in Registrations,
         WriteTmp(w, regs, DocSize(regs))
  PROVE  FileTypeOK(Registrations)'
<1>1. fd[w] \in Files
  BY DEF WriteTmp, FileTypeOK
<1>2. data[fd[w]] \in Contents(Registrations)
  BY <1>1 DEF FileTypeOK
<1>3. Overlay(data[fd[w]], regs, DocSize(regs)) \in Contents(Registrations)
  BY <1>2, OverlayType
<1> QED
  BY <1>1, <1>3 DEF FileTypeOK, WriteTmp

\* renaming it,
LEMMA RenameType ==
  ASSUME FileTypeOK(Registrations), RenameTmp
  PROVE  FileTypeOK(Registrations)'
<1>1. Empty \in Contents(Registrations)
  BY DEF Contents
<1> QED
  BY <1>1, NoFileAssumption DEF FileTypeOK, RenameTmp, RenameSucceeds, fileVars

\* and failing at any of the three.
LEMMA GiveUpType ==
  ASSUME FileTypeOK(Registrations), NEW w \in Writers, GiveUp(w)
  PROVE  FileTypeOK(Registrations)'
<1>1. CASE UNCHANGED data
  BY <1>1 DEF FileTypeOK, GiveUp
<1>2. CASE fd[w] # NoFile /\ data' = [data EXCEPT ![fd[w]] = Torn(@.size)]
  <2>1. fd[w] \in Files
    BY <1>2 DEF FileTypeOK
  <2>2. data[fd[w]].size \in Nat
    BY <2>1 DEF FileTypeOK, Contents, Empty
  <2>3. Torn(data[fd[w]].size) \in Contents(Registrations)
    BY <2>2 DEF Torn, Contents
  <2> QED
    BY <1>2, <2>1, <2>3 DEF FileTypeOK, GiveUp
<1> QED
  BY <1>1, <1>2 DEF GiveUp

\* What a restart reads is a list of registrations.
LEMMA StoredType ==
  ASSUME FileTypeOK(Registrations) PROVE Stored(NoRegistrations) \in Registrations
<1>1. NoRegistrations \in Registrations
  BY DEF NoRegistrations, Registrations
<1>2. CASE Present
  <2>1. path \in Files /\ data[path].kind = "whole"
    BY <1>2 DEF Present, FileTypeOK
  <2>2. data[path] \in Contents(Registrations)
    BY <2>1 DEF FileTypeOK
  <2>3. data[path].doc \in Registrations
    BY <2>1, <2>2 DEF Contents, Empty
  <2> QED
    BY <1>2, <2>3 DEF Stored
<1> QED
  BY <1>1, <1>2 DEF Stored

-----------------------------------------------------------------------------

\* The agent starts well typed.
LEMMA TypeInit == Init => TypeOK
<1> SUFFICES ASSUME Init PROVE TypeOK
  OBVIOUS
<1>1. NoRegistrations \in Registrations
  BY DEF NoRegistrations, Registrations
<1>2. FileTypeOK(Registrations)
  BY DEF Init, FileInit, FileTypeOK, Contents
<1>3. /\ registrations \in Registrations
      /\ snapshot \in [Writers -> Registrations]
  BY <1>1 DEF Init
<1>4. /\ pc \in [Writers -> {"idle", "send"} \cup saving]
      /\ todo \in [Writers -> SUBSET Tokens]
      /\ setting \in [Writers -> SUBSET Tokens]
  BY DEF Init
<1>5. round \in [Writers -> [targets : SUBSET Tokens, sent : SUBSET Tokens,
                             failed : SUBSET Tokens]]
  BY DEF Init, NoRound
<1>6. status \in {"up", "down", "failed"} /\ overlapped \in BOOLEAN /\ saved \in BOOLEAN
  BY DEF Init
<1>7. acked \in SUBSET Tokens /\ ops \in Nat
  BY DEF Init
<1> QED
  BY <1>2, <1>3, <1>4, <1>5, <1>6, <1>7 DEF TypeOK

\* Every list in memory, in a save under way or in a file is a list of
\* registrations, whatever overlaps and wherever the process dies.
THEOREM TypeCorrect == Spec => []TypeOK
<1>1. TypeOK /\ [Next]_vars => TypeOK'
  <2> SUFFICES ASSUME TypeOK, [Next]_vars PROVE TypeOK'
    OBVIOUS
  <2> USE WritersAssumption
  <2>1. CASE UNCHANGED vars
    BY <2>1 DEF vars, fileVars, TypeOK, FileTypeOK
  <2>2. ASSUME NEW h \in Handlers, NEW t \in Tokens, NEW env \in Environments,
               NEW label \in Labels, Set(h, t, env, label)
        PROVE  TypeOK'
    <3> h \in Writers
      OBVIOUS
    <3>1. [registrations EXCEPT ![t] = NewRegistration(t, env, label)] \in Registrations
      BY NewRegistrationType
    <3>2. Update(h, [registrations EXCEPT ![t] = NewRegistration(t, env, label)])
      BY <2>2 DEF Set
    <3> QED
      BY <2>2, <3>1, <3>2, UpdateType DEF Set, TypeOK, FileTypeOK, fileVars
  <2>3. ASSUME NEW a \in Writers, PersistOpen(a) PROVE TypeOK'
    BY <2>3, OpenType DEF PersistOpen, TypeOK, storeVars, histVars, saving
  <2>4. ASSUME NEW a \in Writers, PersistWrite(a) PROVE TypeOK'
    <3>1. snapshot[a] \in Registrations
      BY DEF TypeOK
    <3> QED
      BY <2>4, <3>1, WriteType DEF PersistWrite, TypeOK, storeVars, histVars, saving
  <2>5. ASSUME NEW a \in Writers, PersistRename(a) PROVE TypeOK'
    BY <2>5, RenameType DEF PersistRename, SaveEnds, RenameSucceeds, TypeOK, storeVars, saving
  <2>12. ASSUME NEW a \in Writers, PersistFails(a) PROVE TypeOK'
    <3>1. FileTypeOK(Registrations)'
      BY <2>12, GiveUpType DEF PersistFails, TypeOK
    <3>2. pc' \in [Writers -> {"idle", "send"} \cup saving]
          /\ setting' \in [Writers -> SUBSET Tokens]
      BY <2>12 DEF PersistFails, SaveEnds, TypeOK, saving
    <3>3. ops' \in Nat
      BY <2>12 DEF PersistFails, TypeOK
    <3> QED
      BY <2>12, <3>1, <3>2, <3>3 DEF PersistFails, TypeOK, storeVars
  <2>6. ASSUME NEW p \in Publishers, NEW targets \in SUBSET Tokens, StartRound(p, targets)
        PROVE  TypeOK'
    BY <2>6 DEF StartRound, TypeOK, storeVars, histVars, fileVars, FileTypeOK, NoRound, saving
  <2>7. ASSUME NEW p \in Publishers, NEW t \in todo[p], NEW delivered \in BOOLEAN,
               Send(p, t, delivered)
        PROVE  TypeOK'
    <3>1. p \in Writers /\ t \in Tokens
      BY DEF TypeOK
    <3>2. Answered(p, t, delivered)
      BY <2>7 DEF Send
    <3>3. /\ todo' \in [Writers -> SUBSET Tokens]
          /\ round' \in [Writers -> [targets : SUBSET Tokens, sent : SUBSET Tokens,
                                      failed : SUBSET Tokens]]
      BY <3>1, <3>2, AnsweredType
    <3> QED
      BY <2>7, <3>1, <3>2, <3>3
      DEF Send, Answered, TypeOK, storeVars, fileVars, FileTypeOK, saving
  <2>8. ASSUME NEW p \in Publishers, NEW t \in todo[p], Prune(p, t) PROVE TypeOK'
    <3>1. p \in Writers /\ t \in Tokens
      BY DEF TypeOK
    <3>2. Answered(p, t, FALSE)
      BY <2>8 DEF Prune
    <3>3. /\ todo' \in [Writers -> SUBSET Tokens]
          /\ round' \in [Writers -> [targets : SUBSET Tokens, sent : SUBSET Tokens,
                                      failed : SUBSET Tokens]]
      BY <3>1, <3>2, AnsweredType
    <3>4. ListWithout(t) \in Registrations
      BY <3>1 DEF ListWithout, TypeOK, Registrations
    <3> QED
      BY <2>8, <3>1, <3>2, <3>3, <3>4, UpdateType
      DEF Prune, Answered, TypeOK, fileVars, FileTypeOK
  <2>9. CASE Crash
    BY <2>9 DEF Crash, CloseAll, TypeOK, FileTypeOK, NoRegistrations, Registrations,
                NoRound, saving
  <2>10. CASE Restart
    BY <2>10, StoredType DEF Restart, TypeOK, fileVars, FileTypeOK
  <2>11. ASSUME NEW p \in Publishers, Publish(p) \/ \E t \in Tokens : SendTest(p, t)
         PROVE  TypeOK'
    BY <2>6, <2>11 DEF Publish, SendTest, Registered
  <2> QED
    BY <2>1, <2>2, <2>3, <2>4, <2>5, <2>7, <2>8, <2>9, <2>10, <2>11, <2>12
    DEF Next, Register, Deliver, Persist
<1> QED
  BY <1>1, TypeInit, PTL DEF Spec

-----------------------------------------------------------------------------
\* The process bookkeeping holds in every run, overlapping saves or not.
LEMMA ProcessStep == TypeOK /\ ProcessInv /\ [Next]_vars => ProcessInv'
<1> SUFFICES ASSUME TypeOK, ProcessInv, [Next]_vars PROVE ProcessInv'
  OBVIOUS
<1> USE WritersAssumption, NoFileAssumption DEF Saving, saving
<1> /\ pc \in [Writers -> {"idle", "send"} \cup saving]
    /\ fd \in [Writers -> Files \cup {NoFile}]
    /\ setting \in [Writers -> SUBSET Tokens]
  BY DEF TypeOK, FileTypeOK
<1>1. CASE UNCHANGED vars
  BY <1>1 DEF vars, fileVars, ProcessInv
<1>2. ASSUME NEW h \in Handlers, NEW t \in Tokens, NEW env \in Environments,
             NEW label \in Labels, Set(h, t, env, label)
      PROVE  ProcessInv'
  BY <1>2 DEF Set, Update, fileVars, ProcessInv
<1>3. ASSUME NEW a \in Writers, PersistOpen(a) PROVE ProcessInv'
  BY <1>3 DEF PersistOpen, OpenTmp, Unused, storeVars, histVars, ProcessInv
<1>4. ASSUME NEW a \in Writers, PersistWrite(a) PROVE ProcessInv'
  BY <1>4 DEF PersistWrite, WriteTmp, storeVars, histVars, ProcessInv
<1>5. ASSUME NEW a \in Writers, PersistRename(a) PROVE ProcessInv'
  BY <1>5 DEF PersistRename, SaveEnds, RenameTmp, RenameSucceeds, storeVars, fileVars, ProcessInv
<1>12. ASSUME NEW a \in Writers, PersistFails(a) PROVE ProcessInv'
  BY <1>12 DEF PersistFails, SaveEnds, GiveUp, storeVars, ProcessInv
<1>6. ASSUME NEW p \in Publishers, NEW targets \in SUBSET Tokens, StartRound(p, targets)
      PROVE  ProcessInv'
  BY <1>6 DEF StartRound, storeVars, histVars, fileVars, ProcessInv
<1>7. ASSUME NEW p \in Publishers, NEW t \in todo[p], NEW delivered \in BOOLEAN,
             Send(p, t, delivered)
      PROVE  ProcessInv'
  BY <1>7 DEF Send, Answered, storeVars, fileVars, ProcessInv
<1>8. ASSUME NEW p \in Publishers, NEW t \in todo[p], Prune(p, t) PROVE ProcessInv'
  BY <1>8 DEF Prune, Update, Answered, fileVars, ProcessInv
<1>9. CASE Crash
  BY <1>9 DEF Crash, CloseAll, ProcessInv
<1>10. CASE Restart
  BY <1>10 DEF Restart, fileVars, ProcessInv
<1>11. ASSUME NEW p \in Publishers, Publish(p) \/ \E t \in Tokens : SendTest(p, t)
       PROVE  ProcessInv'
  BY <1>6, <1>11 DEF Publish, SendTest, Registered
<1> QED
  BY <1>1, <1>2, <1>3, <1>4, <1>5, <1>7, <1>8, <1>9, <1>10, <1>11, <1>12
  DEF Next, Register, Deliver, Persist

-----------------------------------------------------------------------------
\* Entering a save alone: nobody else is saving, so the file still holds the
\* list as it was before the change.
LEMMA UpdateStep ==
  ASSUME TypeOK, ProcessInv, ~overlapped => SerialInv, ~overlapped',
         NEW a \in Writers, NEW regs \in Registrations,
         status = "up", ~Saving(a), Update(a, regs),
         UNCHANGED <<path, tmp, data, fd, status>>,
         setting' \in [Writers -> SUBSET Tokens],
         setting'[a] \subseteq Registered(regs),
         \A w \in Writers \ {a} : setting'[w] = setting[w],
         acked' \subseteq acked, acked' \subseteq Registered(regs)
  PROVE  SerialInv'
<1> USE DEF Saving, saving
<1>1. ~overlapped /\ \A w \in Writers : ~Saving(w)
  BY DEF Update
<1>2. SerialInv
  BY <1>1
<1>3. /\ pc' = [pc EXCEPT ![a] = "open"] /\ pc \in [Writers -> {"idle", "send"} \cup saving]
      /\ registrations' = regs
      /\ snapshot' = [snapshot EXCEPT ![a] = regs] /\ snapshot \in [Writers -> Registrations]
  BY DEF Update, TypeOK
<1>4. \A v, w \in Writers : Saving(v)' /\ Saving(w)' => v = w
  BY <1>1, <1>3
<1>5. ASSUME NEW w \in Writers PROVE SaveInv(w)'
  <2>1. CASE w = a
    BY <1>3, <2>1 DEF SaveInv, Registered
  <2>2. CASE w # a
    <3>1. pc'[w] = pc[w] /\ ~Saving(w) /\ setting'[w] = {}
      BY <1>1, <1>3, <2>2 DEF ProcessInv
    <3> QED
      BY <3>1 DEF SaveInv
  <2> QED
    BY <2>1, <2>2
<1>6. Readable' /\ Stored(NoRegistrations)' = Stored(NoRegistrations)
  BY <1>2 DEF SerialInv, Readable, Present, Stored, NoRegistrations
<1>7. Saving(a)'
  BY <1>3
<1>8. acked' \subseteq Registered(Stored(NoRegistrations))'
  BY <1>2, <1>6 DEF SerialInv, Registered
<1>9. acked' \subseteq Registered(registrations)'
  BY <1>3 DEF Registered
<1> QED
  BY <1>4, <1>5, <1>6, <1>7, <1>8, <1>9 DEF SerialInv

\* No step of a serial save touches the file it is to replace: not opening its own,
LEMMA OpenKeepsFile ==
  ASSUME TypeOK, ProcessInv, SerialInv, NEW a \in Writers, PersistOpen(a)
  PROVE  Readable' /\ Stored(NoRegistrations)' = Stored(NoRegistrations)
<1> USE NoFileAssumption
<1>1. path' = path
  BY DEF PersistOpen, OpenTmp
<1>2. PICK f \in IF tmp = NoFile THEN Unused ELSE {tmp} :
         data' = [data EXCEPT ![f] = Empty]
  BY DEF PersistOpen, OpenTmp
<1>3. f # path
  BY <1>2 DEF Unused, ProcessInv
<1>4. data \in [Files -> Contents(Registrations)]
  BY DEF TypeOK, FileTypeOK
<1> QED
  BY <1>1, <1>2, <1>3, <1>4 DEF SerialInv, Readable, Present, Stored, NoRegistrations

\* nor writing it,
LEMMA WriteKeepsFile ==
  ASSUME TypeOK, ProcessInv, SerialInv, NEW a \in Writers, PersistWrite(a)
  PROVE  Readable' /\ Stored(NoRegistrations)' = Stored(NoRegistrations)
<1>1. pc[a] = "write" /\ path' = path
      /\ \E c : data' = [data EXCEPT ![fd[a]] = c]
  BY DEF PersistWrite, WriteTmp
<1>2. fd[a] = tmp /\ tmp # path
  BY <1>1 DEF SerialInv, SaveInv, ProcessInv
<1>3. data \in [Files -> Contents(Registrations)]
  BY DEF TypeOK, FileTypeOK
<1> QED
  BY <1>1, <1>2, <1>3 DEF SerialInv, Readable, Present, Stored, NoRegistrations

\* nor failing at either.
LEMMA FailKeepsFile ==
  ASSUME TypeOK, ProcessInv, SerialInv, NEW a \in Writers, PersistFails(a)
  PROVE  Readable' /\ Stored(NoRegistrations)' = Stored(NoRegistrations)
<1>1. path # NoFile => path \in Files /\ data'[path] = data[path]
  <2>1. fd[a] # NoFile => fd[a] = tmp /\ tmp # path
    BY DEF SerialInv, SaveInv, ProcessInv
  <2>2. path \in Files \cup {NoFile} /\ data \in [Files -> Contents(Registrations)]
    BY DEF TypeOK, FileTypeOK
  <2> QED
    BY <2>1, <2>2 DEF PersistFails, GiveUp
<1>2. path' = path
  BY DEF PersistFails, GiveUp
<1> QED
  BY <1>1, <1>2 DEF SerialInv, Readable, Present, Stored, NoRegistrations

\* Renaming it puts the current list in the file and answers the POST.
LEMMA RenameSavesList ==
  ASSUME TypeOK, ProcessInv, SerialInv, NEW a \in Writers, PersistRename(a)
  PROVE  /\ Present' /\ Stored(NoRegistrations)' = registrations
         /\ acked' = acked \cup setting[a]
<1> USE NoFileAssumption
<1>1. pc[a] = "rename" /\ Saving(a)
  BY DEF PersistRename, Saving, saving
<1>2. /\ tmp \in Files /\ tmp # path
      /\ data[tmp] = Whole(registrations, DocSize(registrations))
  BY <1>1 DEF SerialInv, SaveInv, ProcessInv, TypeOK, FileTypeOK
<1>3. path' = tmp /\ data' = (IF path = NoFile THEN data ELSE [data EXCEPT ![path] = Empty])
  BY <1>2 DEF PersistRename, RenameTmp, RenameSucceeds
<1>4. data \in [Files -> Contents(Registrations)]
  BY DEF TypeOK, FileTypeOK
<1>5. data'[path'] = Whole(registrations, DocSize(registrations))
  BY <1>2, <1>3, <1>4
<1>6. Present' /\ Stored(NoRegistrations)' = registrations
  BY <1>2, <1>3, <1>5 DEF Present, Stored, Whole
<1>7. acked' = acked \cup setting[a]
  BY <1>2 DEF PersistRename, RenameSucceeds
<1> QED
  BY <1>6, <1>7

\* A serial save still saves the current list after opening its file,
LEMMA OpenStep ==
  ASSUME TypeOK, ProcessInv, SerialInv, NEW a \in Writers, PersistOpen(a)
  PROVE  SerialInv'
<1> USE NoFileAssumption DEF Saving, saving
<1>1. /\ pc' = [pc EXCEPT ![a] = "write"] /\ pc \in [Writers -> {"idle", "send"} \cup saving]
      /\ pc[a] = "open" /\ status = "up" /\ status' = status
      /\ UNCHANGED <<registrations, snapshot, setting, acked, path>>
  BY DEF PersistOpen, OpenTmp, TypeOK, storeVars, histVars
<1>2. PICK f \in IF tmp = NoFile THEN Unused ELSE {tmp} :
         /\ tmp' = f
         /\ data' = [data EXCEPT ![f] = Empty]
         /\ fd' = [fd EXCEPT ![a] = f]
  BY DEF PersistOpen, OpenTmp
<1>3. f \in Files /\ f # path
  BY <1>2 DEF Unused, ProcessInv, TypeOK, FileTypeOK
<1>4. data \in [Files -> Contents(Registrations)] /\ fd \in [Writers -> Files \cup {NoFile}]
  BY DEF TypeOK, FileTypeOK
<1>5. Readable' /\ Stored(NoRegistrations)' = Stored(NoRegistrations)
  BY OpenKeepsFile
<1>6. \A w \in Writers : Saving(w)' <=> Saving(w)
  BY <1>1
<1>7. ASSUME NEW w \in Writers PROVE SaveInv(w)'
  <2>1. CASE w = a
    BY <1>1, <1>2, <1>3, <1>4, <2>1 DEF SerialInv, SaveInv, Registered
  <2>2. CASE w # a
    BY <1>1, <2>2 DEF SerialInv, SaveInv, Registered
  <2> QED
    BY <2>1, <2>2
<1> QED
  BY <1>1, <1>5, <1>6, <1>7 DEF SerialInv, Registered

\* after writing it,
LEMMA WriteStep ==
  ASSUME TypeOK, ProcessInv, SerialInv, NEW a \in Writers, PersistWrite(a)
  PROVE  SerialInv'
<1> USE NoFileAssumption DEF Saving, saving
<1>1. /\ pc' = [pc EXCEPT ![a] = "rename"] /\ pc \in [Writers -> {"idle", "send"} \cup saving]
      /\ pc[a] = "write" /\ status = "up" /\ status' = status
      /\ UNCHANGED <<registrations, snapshot, setting, acked, path, tmp>>
  BY DEF PersistWrite, WriteTmp, TypeOK, storeVars, histVars
<1>2. tmp \in Files /\ fd[a] = tmp /\ data[tmp] = Empty /\ tmp # path
  BY <1>1 DEF SerialInv, SaveInv, ProcessInv, TypeOK, FileTypeOK
<1>3. snapshot[a] \in Registrations
  BY DEF TypeOK
<1>4. DocSize(snapshot[a]) >= data[tmp].size
  BY <1>2, <1>3, DocSizeNat DEF Empty
<1>5. data' = [data EXCEPT ![tmp] = Whole(snapshot[a], DocSize(snapshot[a]))]
  BY <1>2, <1>4 DEF PersistWrite, WriteTmp, Overlay
<1>6. data \in [Files -> Contents(Registrations)]
  BY DEF TypeOK, FileTypeOK
<1>7. Readable' /\ Stored(NoRegistrations)' = Stored(NoRegistrations)
  BY WriteKeepsFile
<1>8. \A w \in Writers : Saving(w)' <=> Saving(w)
  BY <1>1
<1>9. ASSUME NEW w \in Writers PROVE SaveInv(w)'
  <2>1. CASE w = a
    BY <1>1, <1>2, <1>5, <1>6, <2>1 DEF SerialInv, SaveInv, Registered
  <2>2. CASE w # a
    BY <1>1, <2>2 DEF SerialInv, SaveInv, Registered
  <2> QED
    BY <2>1, <2>2
<1> QED
  BY <1>1, <1>7, <1>8, <1>9 DEF SerialInv, Registered

\* and after renaming it.
LEMMA RenameStep ==
  ASSUME TypeOK, ProcessInv, SerialInv, NEW a \in Writers, PersistRename(a)
  PROVE  SerialInv'
<1> USE NoFileAssumption DEF Saving, saving
<1>1. /\ pc[a] = "rename" /\ status = "up" /\ status' = status
      /\ UNCHANGED <<registrations, snapshot, overlapped>>
      /\ setting' = [setting EXCEPT ![a] = {}] /\ setting \in [Writers -> SUBSET Tokens]
      /\ pc' = [pc EXCEPT ![a] = IF todo[a] = {} THEN "idle" ELSE "send"]
      /\ pc \in [Writers -> {"idle", "send"} \cup saving]
  BY DEF PersistRename, SaveEnds, TypeOK, storeVars
<1>2. /\ Present' /\ Stored(NoRegistrations)' = registrations'
      /\ acked' = acked \cup setting[a]
  BY <1>1, RenameSavesList
<1>3. \A w \in Writers : ~Saving(w)'
  BY <1>1 DEF SerialInv
<1>4. ASSUME NEW w \in Writers PROVE SaveInv(w)'
  BY <1>1, <1>3 DEF SerialInv, SaveInv, Registered
<1>5. acked' \subseteq Registered(registrations)'
  BY <1>1, <1>2 DEF SerialInv, SaveInv, Registered
<1> QED
  BY <1>2, <1>3, <1>4, <1>5 DEF SerialInv, Readable, Registered

\* A save that fails leaves the file and what it was to replace it with.
LEMMA FailStep ==
  ASSUME TypeOK, ProcessInv, SerialInv, NEW a \in Writers, PersistFails(a)
  PROVE  SerialInv'
<1> USE NoFileAssumption DEF Saving, saving
<1>1. /\ Saving(a) /\ status' = status /\ saved' = FALSE
      /\ UNCHANGED <<registrations, snapshot, acked, path, tmp>>
      /\ setting' = [setting EXCEPT ![a] = {}] /\ setting \in [Writers -> SUBSET Tokens]
      /\ pc' = [pc EXCEPT ![a] = IF todo[a] = {} THEN "idle" ELSE "send"]
      /\ pc \in [Writers -> {"idle", "send"} \cup saving]
  BY DEF PersistFails, SaveEnds, GiveUp, TypeOK, storeVars
<1>2. \A w \in Writers : ~Saving(w)'
  BY <1>1 DEF SerialInv
<1>3. Readable' /\ Stored(NoRegistrations)' = Stored(NoRegistrations)
  BY FailKeepsFile
<1>4. ASSUME NEW w \in Writers PROVE SaveInv(w)'
  <2>1. setting'[w] \subseteq Registered(registrations)
    BY <1>1 DEF SerialInv, SaveInv
  <2> QED
    BY <1>1, <1>2, <2>1 DEF SaveInv, Registered
<1> QED
  BY <1>1, <1>2, <1>3, <1>4 DEF SerialInv, Registered

\* Steps that touch neither the file, nor the list, nor a save.
LEMMA QuietStep ==
  ASSUME TypeOK, SerialInv,
         UNCHANGED <<storeVars, fileVars, status, setting, acked, saved>>,
         \A w \in Writers : pc'[w] = pc[w] \/ (pc'[w] \in {"idle", "send"} /\ ~Saving(w))
  PROVE  SerialInv'
<1> USE DEF Saving, saving
<1>1. \A w \in Writers : (Saving(w)' <=> Saving(w)) /\ (Saving(w) => pc'[w] = pc[w])
  OBVIOUS
<1>2. Readable' /\ Stored(NoRegistrations)' = Stored(NoRegistrations)
  BY DEF SerialInv, Readable, Present, Stored, NoRegistrations, fileVars
<1>3. \A w \in Writers : SaveInv(w)'
  BY <1>1 DEF SerialInv, SaveInv, Registered, storeVars, fileVars
<1> QED
  BY <1>1, <1>2, <1>3 DEF SerialInv, Registered, storeVars

\* A restart reads back what the dead process had in the file.
LEMMA RestartStep ==
  ASSUME TypeOK, ProcessInv, ~overlapped => SerialInv, Restart, ~overlapped'
  PROVE  SerialInv'
<1> USE DEF Saving, saving
<1>1. /\ UNCHANGED <<pc, snapshot, path, tmp, data, setting>>
      /\ \A w \in Writers : pc[w] = "idle"
  BY DEF Restart, fileVars, ProcessInv
<1>2. \A w \in Writers : SaveInv(w)'
  BY <1>1 DEF SaveInv, ProcessInv
<1>3. Readable' = Readable /\ Stored(NoRegistrations)' = Stored(NoRegistrations)
  BY <1>1 DEF Readable, Present, Stored, NoRegistrations
<1>4. CASE Readable
  <2>1. /\ registrations' = Stored(NoRegistrations)
        /\ acked' = IF overlapped THEN acked \cap Registered(registrations') ELSE acked
    BY <1>4 DEF Restart
  <2>2. acked' \subseteq Registered(registrations')
    BY <2>1 DEF SerialInv
  <2>3. Registered(registrations)' = Registered(registrations')
    BY DEF Registered
  <2> QED
    BY <1>1, <1>2, <1>3, <1>4, <2>1, <2>2, <2>3 DEF SerialInv, Registered
<1>5. CASE ~Readable
  BY <1>5 DEF Restart, SerialInv
<1> QED
  BY <1>4, <1>5

\* Every step of serial saves keeps file and memory in step.
LEMMA SerialStep ==
  TypeOK /\ ProcessInv /\ (~overlapped => SerialInv) /\ [Next]_vars => (~overlapped => SerialInv)'
<1> SUFFICES ASSUME TypeOK, ProcessInv, ~overlapped => SerialInv, [Next]_vars, ~overlapped'
             PROVE  SerialInv'
  OBVIOUS
<1> USE WritersAssumption
<1>1. CASE UNCHANGED vars
  <2>1. /\ UNCHANGED <<storeVars, fileVars, status, setting, acked, saved>>
        /\ UNCHANGED <<pc, overlapped>>
    BY <1>1 DEF vars, storeVars
  <2> QED
    BY <2>1, QuietStep
<1>2. ASSUME NEW h \in Handlers, NEW t \in Tokens, NEW env \in Environments,
             NEW label \in Labels, Set(h, t, env, label)
      PROVE  SerialInv'
  <2> DEFINE regs == [registrations EXCEPT ![t] = NewRegistration(t, env, label)]
  <2>1. h \in Writers /\ regs \in Registrations
    BY NewRegistrationType
  <2>2. /\ status = "up" /\ ~Saving(h) /\ Update(h, regs)
        /\ UNCHANGED <<path, tmp, data, fd, status>> /\ acked' = acked
        /\ setting' = [setting EXCEPT ![h] = {t}]
    BY <1>2 DEF Set, Saving, saving, fileVars
  <2>3. NewRegistration(t, env, label) # Unregistered
    <3>1. registrations[t] # Unregistered => registrations[t] \in Registration
      BY DEF TypeOK, Registrations
    <3>2. NewRegistration(t, env, label) \in Registration
      BY <3>1 DEF NewRegistration, Registration
    <3> QED
      BY <3>2, UnregisteredAssumption DEF Registration
  <2>4. Registered(regs) = Registered(registrations) \cup {t}
    BY <2>3 DEF Registered, TypeOK, Registrations
  <2>5. acked \subseteq Registered(registrations)
    BY <2>2 DEF Update, SerialInv
  <2>6. /\ setting' \in [Writers -> SUBSET Tokens] /\ setting'[h] = {t}
        /\ \A w \in Writers \ {h} : setting'[w] = setting[w]
    BY <2>1, <2>2 DEF TypeOK
  <2> HIDE DEF regs
  <2> QED
    BY <2>1, <2>2, <2>4, <2>5, <2>6, UpdateStep
<1>3. ASSUME NEW a \in Writers, PersistOpen(a) PROVE SerialInv'
  BY <1>3, OpenStep DEF PersistOpen, histVars
<1>4. ASSUME NEW a \in Writers, PersistWrite(a) PROVE SerialInv'
  BY <1>4, WriteStep DEF PersistWrite, histVars
<1>5. ASSUME NEW a \in Writers, PersistRename(a) PROVE SerialInv'
  BY <1>5, RenameStep DEF PersistRename
<1>12. ASSUME NEW a \in Writers, PersistFails(a) PROVE SerialInv'
  BY <1>12, FailStep DEF PersistFails
<1>6. ASSUME NEW p \in Publishers, NEW targets, StartRound(p, targets) PROVE SerialInv'
  <2>1. /\ UNCHANGED <<storeVars, fileVars, status, setting, acked, saved, overlapped>>
        /\ pc' = [pc EXCEPT ![p] = "send"] /\ pc[p] = "idle"
    BY <1>6 DEF StartRound, histVars
  <2>2. ASSUME NEW w \in Writers
        PROVE  pc'[w] = pc[w] \/ (pc'[w] \in {"idle", "send"} /\ ~Saving(w))
    <3>1. pc \in [Writers -> {"idle", "send"} \cup saving]
      BY DEF TypeOK
    <3>2. pc'[w] = IF w = p THEN "send" ELSE pc[w]
      BY <2>1, <3>1
    <3> QED
      BY <2>1, <3>2 DEF Saving, saving
  <2> QED
    BY <2>1, <2>2, QuietStep
<1>7. ASSUME NEW p \in Publishers, NEW t \in todo[p], NEW delivered \in BOOLEAN,
             Send(p, t, delivered)
      PROVE  SerialInv'
  <2>1. /\ UNCHANGED <<storeVars, fileVars, status, setting, acked, saved, overlapped>>
        /\ pc' = [pc EXCEPT ![p] = IF todo'[p] = {} THEN "idle" ELSE "send"] /\ pc[p] = "send"
    BY <1>7 DEF Send, Answered
  <2>2. ASSUME NEW w \in Writers
        PROVE  pc'[w] = pc[w] \/ (pc'[w] \in {"idle", "send"} /\ ~Saving(w))
    <3>1. pc \in [Writers -> {"idle", "send"} \cup saving]
      BY DEF TypeOK
    <3>2. pc'[w] = IF w = p THEN IF todo'[p] = {} THEN "idle" ELSE "send" ELSE pc[w]
      BY <2>1, <3>1
    <3> QED
      BY <2>1, <3>2 DEF Saving, saving
  <2> QED
    BY <2>1, <2>2, QuietStep
<1>8. ASSUME NEW p \in Publishers, NEW t \in todo[p], Prune(p, t) PROVE SerialInv'
  <2>1. p \in Writers /\ t \in Tokens /\ ListWithout(t) \in Registrations
    BY DEF TypeOK, ListWithout, Registrations
  <2>2. /\ status = "up" /\ ~Saving(p) /\ Update(p, ListWithout(t))
        /\ UNCHANGED <<path, tmp, data, fd, status, setting>> /\ acked' = acked \ {t}
    BY <1>8 DEF Prune, Answered, Saving, saving, fileVars
  <2>3. setting[p] = {}
    BY <2>1, <2>2 DEF ProcessInv
  <2>4. acked \subseteq Registered(registrations)
    BY <2>2 DEF Update, SerialInv
  <2>5. acked' \subseteq Registered(ListWithout(t))
    BY <2>1, <2>2, <2>4 DEF Registered, ListWithout, TypeOK, Registrations
  <2>6. setting' \in [Writers -> SUBSET Tokens]
    BY <2>2 DEF TypeOK
  <2> QED
    BY <2>1, <2>2, <2>3, <2>5, <2>6, UpdateStep
<1>9. CASE Crash
  <2>1. /\ UNCHANGED <<path, tmp, data, acked, overlapped, saved>> /\ status' = "down"
        /\ registrations' = NoRegistrations
        /\ snapshot' = [w \in Writers |-> NoRegistrations]
        /\ \A w \in Writers : pc'[w] = "idle" /\ setting'[w] = {}
    BY <1>9 DEF Crash, CloseAll
  <2>2. Readable' /\ Stored(NoRegistrations)' = Stored(NoRegistrations)
    BY <2>1 DEF SerialInv, Readable, Present, Stored, NoRegistrations
  <2>3. \A w \in Writers : SaveInv(w)' /\ ~Saving(w)'
    BY <2>1 DEF SaveInv, Saving, saving
  <2> QED
    BY <2>1, <2>2, <2>3 DEF SerialInv, Registered
<1>10. CASE Restart
  BY <1>10, RestartStep
<1>11. ASSUME NEW p \in Publishers, Publish(p) \/ \E t \in Tokens : SendTest(p, t)
       PROVE  SerialInv'
  BY <1>6, <1>11 DEF Publish, SendTest
<1> QED
  BY <1>1, <1>2, <1>3, <1>4, <1>5, <1>7, <1>8, <1>9, <1>10, <1>11, <1>12
  DEF Next, Register, Deliver, Persist

\* The invariant behind both theorems below.
LEMMA InductiveInvariant == Spec => []IInv
<1>1. Init => IInv
  <2> SUFFICES ASSUME Init PROVE ProcessInv /\ SerialInv
    <3>1. Init => TypeOK
      BY TypeInit
    <3> QED
      BY <3>1 DEF IInv
  <2> QED
    BY NoFileAssumption
    DEF Init, FileInit, ProcessInv, SerialInv, SaveInv, Saving, saving, Readable, Present,
        Stored, Registered, NoRegistrations
<1> QED
  BY <1>1, TypeCorrect, ProcessStep, SerialStep, PTL DEF Spec, IInv

\* A process that never runs two saves at once can be killed at any step and
\* restarted: the file is readable, and equal to the list between saves.
THEOREM SerialSavesFollowMemory == Spec => []FileFollowsMemory
<1>1. IInv => FileFollowsMemory
  BY DEF IInv, SerialInv, FileFollowsMemory
<1> QED
  BY <1>1, InductiveInvariant, PTL

\* It never forgets a device whose registration it has acknowledged.
THEOREM SerialSavesKeepAcked == Spec => []AckedSurviveCrash
<1>1. IInv => AckedSurviveCrash
  BY DEF IInv, SerialInv, AckedSurviveCrash
<1> QED
  BY <1>1, InductiveInvariant, PTL

-----------------------------------------------------------------------------
(* The refinement                                                          *)

\* What the abstract registry is made of is unchanged when these are.
LEMMA DurableFrame ==
  ASSUME UNCHANGED <<registrations, acked, status>>,
         Stored(NoRegistrations)' = Stored(NoRegistrations)
  PROVE  UNCHANGED Durable!vars
  BY DEF Durable!vars

\* A file that stays as it is says what it said.
LEMMA StoredFrame ==
  ASSUME UNCHANGED <<path, data>>
  PROVE  Stored(NoRegistrations)' = Stored(NoRegistrations)
  BY DEF Stored, Present, NoRegistrations

\* The change Set makes in the list is a registration,
LEMMA SetRegisters ==
  ASSUME TypeOK, NEW h \in Writers, NEW t \in Tokens, NEW env \in Environments,
         NEW label \in Labels, Set(h, t, env, label)
  PROVE  Durable!Next
<1>1. NewRegistration(t, env, label) \in Registration
  <2>1. registrations[t] # Unregistered => registrations[t] \in Registration
    BY DEF TypeOK, Registrations
  <2> QED
    BY <2>1 DEF NewRegistration, Registration
<1>2. PICK reg \in Registration : reg = NewRegistration(t, env, label)
  BY <1>1
<1>3. /\ status = "up" /\ UNCHANGED <<path, data, acked, status>>
      /\ registrations' = [registrations EXCEPT ![t] = reg]
  BY <1>2 DEF Set, Update, fileVars
<1>4. Stored(NoRegistrations)' = Stored(NoRegistrations)
  BY <1>3, StoredFrame
<1>5. Durable!Register(t)
  BY <1>3, <1>4 DEF Durable!Register
<1> QED
  BY <1>5 DEF Durable!Next

\* and the one a publish makes when a device is gone is its pruning.
LEMMA PrunePrunes ==
  ASSUME NEW p, NEW t \in Tokens, Prune(p, t)
  PROVE  Durable!Next
<1>1. /\ status = "up" /\ UNCHANGED <<path, data, status>>
      /\ registrations' = [registrations EXCEPT ![t] = Unregistered]
      /\ acked' = acked \ {t}
  BY DEF Prune, Answered, Update, ListWithout, fileVars
<1>2. Stored(NoRegistrations)' = Stored(NoRegistrations)
  BY <1>1, StoredFrame
<1>3. Durable!Prune(t)
  BY <1>1, <1>2 DEF Durable!Prune
<1> QED
  BY <1>3 DEF Durable!Next

\* The rename is the moment the list becomes durable.
LEMMA RenameIsSave ==
  ASSUME TypeOK, ProcessInv, SerialInv, NEW a \in Writers, PersistRename(a)
  PROVE  Durable!Next
<1>1. status = "up" /\ UNCHANGED <<registrations, status>> /\ Saving(a)
  BY DEF PersistRename, storeVars, Saving, saving
<1>2. Stored(NoRegistrations)' = registrations /\ acked' = acked \cup setting[a]
  BY RenameSavesList
<1>3. setting[a] \in SUBSET {t \in Tokens : registrations[t] # Unregistered}
  BY DEF SerialInv, SaveInv, Registered
<1>4. Durable!Save
  BY <1>1, <1>2, <1>3 DEF Durable!Save
<1> QED
  BY <1>4 DEF Durable!Next

\* Every step from a state in which saves have not overlapped is a step of the
\* abstract registry or changes nothing of it.
LEMMA Simulation ==
  ASSUME IInv, [Next]_vars
  PROVE  [overlapped \/ Durable!Next]_(Durable!vars)
<1> SUFFICES ASSUME ~overlapped PROVE Durable!Next \/ UNCHANGED Durable!vars
  OBVIOUS
<1> USE WritersAssumption
<1>0. TypeOK /\ ProcessInv /\ SerialInv
  BY DEF IInv
<1>1. CASE UNCHANGED vars
  BY <1>1, StoredFrame, DurableFrame DEF vars, fileVars
<1>2. ASSUME NEW h \in Handlers, Register(h) PROVE Durable!Next
  BY <1>0, <1>2, SetRegisters DEF Register
<1>3. ASSUME NEW a \in Writers, PersistOpen(a) PROVE UNCHANGED Durable!vars
  BY <1>0, <1>3, OpenKeepsFile, DurableFrame DEF PersistOpen, storeVars, histVars
<1>4. ASSUME NEW a \in Writers, PersistWrite(a) PROVE UNCHANGED Durable!vars
  BY <1>0, <1>4, WriteKeepsFile, DurableFrame DEF PersistWrite, storeVars, histVars
<1>5. ASSUME NEW a \in Writers, PersistRename(a) PROVE Durable!Next
  BY <1>0, <1>5, RenameIsSave
<1>6. ASSUME NEW a \in Writers, PersistFails(a) PROVE UNCHANGED Durable!vars
  BY <1>0, <1>6, FailKeepsFile, DurableFrame DEF PersistFails, storeVars
<1>7. ASSUME NEW p \in Publishers, NEW targets, StartRound(p, targets)
      PROVE  UNCHANGED Durable!vars
  BY <1>7, StoredFrame, DurableFrame DEF StartRound, storeVars, fileVars, histVars
<1>8. ASSUME NEW p \in Publishers, Publish(p) \/ \E t \in Tokens : SendTest(p, t)
      PROVE  UNCHANGED Durable!vars
  BY <1>7, <1>8 DEF Publish, SendTest
<1>9. ASSUME NEW p \in Publishers, NEW t \in todo[p], NEW delivered \in BOOLEAN,
             Send(p, t, delivered)
      PROVE  UNCHANGED Durable!vars
  BY <1>9, StoredFrame, DurableFrame DEF Send, Answered, storeVars, fileVars
<1>10. ASSUME NEW p \in Publishers, NEW t \in todo[p], Prune(p, t) PROVE Durable!Next
  <2>1. t \in Tokens
    BY <1>0 DEF TypeOK
  <2> QED
    BY <1>10, <2>1, PrunePrunes
<1>11. CASE Crash
  <2>1. /\ status = "up" /\ status' = "down" /\ UNCHANGED <<path, data, acked>>
        /\ registrations' = NoRegistrations
    BY <1>11 DEF Crash, CloseAll
  <2>2. Stored(NoRegistrations)' = Stored(NoRegistrations)
    BY <2>1, StoredFrame
  <2>3. Durable!Crash
    BY <2>1, <2>2 DEF Durable!Crash, Durable!Nobody, NoRegistrations
  <2> QED
    BY <2>3 DEF Durable!Next
<1>12. CASE Restart
  <2>1. /\ status = "down" /\ status' = "up" /\ UNCHANGED <<path, data, acked>>
        /\ registrations' = Stored(NoRegistrations)
    BY <1>0, <1>12 DEF Restart, SerialInv, fileVars
  <2>2. Stored(NoRegistrations)' = Stored(NoRegistrations)
    BY <2>1, StoredFrame
  <2>3. Durable!Restart
    BY <2>1, <2>2 DEF Durable!Restart
  <2> QED
    BY <2>3 DEF Durable!Next
<1> QED
  BY <1>1, <1>2, <1>3, <1>4, <1>5, <1>6, <1>8, <1>9, <1>10, <1>11, <1>12
  DEF Next, Deliver, Persist

\* Opening, writing and renaming a file shared by any number of handlers and
\* publishers implements a list that becomes durable in one step and
\* acknowledges nothing else, until two saves overlap.
THEOREM SerialSavesRefine == Spec => ImplementsRegistry
<1>1. Init => Durable!Init
  BY DEF Init, FileInit, Durable!Init, Durable!Nobody, Stored, Present, NoRegistrations
<1>2. IInv /\ [Next]_vars => [overlapped \/ Durable!Next]_(Durable!vars)
  BY Simulation
<1> QED
  BY <1>1, <1>2, InductiveInvariant, PTL DEF Spec, ImplementsRegistry

-----------------------------------------------------------------------------
(* The fan-out                                                             *)

\* The devices of a publish are those it has still to try, those it reached
\* and those it did not, and a publish that has devices left has not ended.
FanOutInv ==
  \A a \in Writers :
    /\ round[a].targets = todo[a] \cup round[a].sent \cup round[a].failed
    /\ round[a].sent \cap round[a].failed = {}
    /\ todo[a] \cap (round[a].sent \cup round[a].failed) = {}
    /\ pc[a] = "idle" => todo[a] = {}

\* An answer moves one device from those to try to those tried.
LEMMA AnsweredStep ==
  ASSUME TypeOK, FanOutInv, NEW p \in Writers, NEW t \in Tokens, NEW delivered \in BOOLEAN,
         Answered(p, t, delivered),
         \A a \in Writers \ {p} : pc'[a] = pc[a],
         pc'[p] = "idle" => todo'[p] = {}
  PROVE  FanOutInv'
<1> DEFINE new == [round[p] EXCEPT
                     !.sent   = IF delivered THEN @ \cup {t} ELSE @,
                     !.failed = IF delivered THEN @ ELSE @ \cup {t}]
<1>1. /\ t \in todo[p] /\ todo' = [todo EXCEPT ![p] = todo[p] \ {t}]
      /\ todo \in [Writers -> SUBSET Tokens]
  BY DEF Answered, Remaining, TypeOK
<1>2. /\ round' = [round EXCEPT ![p] = new]
      /\ round \in [Writers -> [targets : SUBSET Tokens, sent : SUBSET Tokens,
                                 failed : SUBSET Tokens]]
  BY DEF Answered, TypeOK
<1>3. /\ new.targets = round[p].targets
      /\ new.sent = (IF delivered THEN round[p].sent \cup {t} ELSE round[p].sent)
      /\ new.failed = (IF delivered THEN round[p].failed ELSE round[p].failed \cup {t})
  BY <1>2
<1> HIDE DEF new
<1>4. todo'[p] = todo[p] \ {t} /\ round'[p] = new
  BY <1>1, <1>2
<1>5. \A a \in Writers \ {p} : todo'[a] = todo[a] /\ round'[a] = round[a]
  BY <1>1, <1>2
<1>6. ASSUME NEW a \in Writers \ {p}
      PROVE  /\ round'[a].targets = todo'[a] \cup round'[a].sent \cup round'[a].failed
             /\ round'[a].sent \cap round'[a].failed = {}
             /\ todo'[a] \cap (round'[a].sent \cup round'[a].failed) = {}
             /\ pc'[a] = "idle" => todo'[a] = {}
  BY <1>5 DEF FanOutInv
<1>7. /\ round'[p].targets = todo'[p] \cup round'[p].sent \cup round'[p].failed
      /\ round'[p].sent \cap round'[p].failed = {}
      /\ todo'[p] \cap (round'[p].sent \cup round'[p].failed) = {}
  BY <1>1, <1>3, <1>4 DEF FanOutInv
<1> QED
  BY <1>6, <1>7 DEF FanOutInv

\* Other steps leave the fan-out alone, and end a publish only when nothing is
\* left to try.
LEMMA FanOutQuiet ==
  ASSUME TypeOK, FanOutInv, UNCHANGED <<todo, round>>,
         \A a \in Writers : pc'[a] = "idle" => pc[a] = "idle" \/ todo[a] = {}
  PROVE  FanOutInv'
  BY DEF FanOutInv

\* Every step keeps the books of every publish.
LEMMA FanOutStep == TypeOK /\ FanOutInv /\ [Next]_vars => FanOutInv'
<1> SUFFICES ASSUME TypeOK, FanOutInv, [Next]_vars PROVE FanOutInv'
  OBVIOUS
<1> USE WritersAssumption
<1>0. pc \in [Writers -> {"idle", "send"} \cup saving]
  BY DEF TypeOK
<1>1. CASE UNCHANGED vars
  BY <1>1, FanOutQuiet DEF vars
<1>2. ASSUME NEW h \in Handlers, NEW t \in Tokens, NEW env \in Environments,
             NEW label \in Labels, Set(h, t, env, label)
      PROVE  FanOutInv'
  BY <1>0, <1>2, FanOutQuiet DEF Set, Update
<1>3. ASSUME NEW a \in Writers, PersistOpen(a) \/ PersistWrite(a) PROVE FanOutInv'
  BY <1>0, <1>3, FanOutQuiet DEF PersistOpen, PersistWrite
<1>4. ASSUME NEW a \in Writers, PersistRename(a) \/ PersistFails(a) PROVE FanOutInv'
  BY <1>0, <1>4, FanOutQuiet DEF PersistRename, PersistFails, SaveEnds
<1>5. ASSUME NEW p \in Publishers, NEW targets \in SUBSET Tokens, StartRound(p, targets)
      PROVE  FanOutInv'
  <2>1. /\ todo' = [todo EXCEPT ![p] = targets] /\ pc' = [pc EXCEPT ![p] = "send"]
        /\ round' = [round EXCEPT ![p] = [NoRound EXCEPT !.targets = targets]]
        /\ todo \in [Writers -> SUBSET Tokens]
        /\ round \in [Writers -> [targets : SUBSET Tokens, sent : SUBSET Tokens,
                                   failed : SUBSET Tokens]]
    BY <1>5 DEF StartRound, TypeOK
  <2>2. /\ todo'[p] = targets /\ pc'[p] = "send"
        /\ round'[p] = [targets |-> targets, sent |-> {}, failed |-> {}]
    BY <1>0, <2>1 DEF NoRound
  <2>3. \A a \in Writers \ {p} : todo'[a] = todo[a] /\ round'[a] = round[a] /\ pc'[a] = pc[a]
    BY <1>0, <2>1
  <2> QED
    BY <2>2, <2>3 DEF FanOutInv
<1>6. ASSUME NEW p \in Publishers, Publish(p) \/ \E t \in Tokens : SendTest(p, t)
      PROVE  FanOutInv'
  BY <1>5, <1>6 DEF Publish, SendTest, Registered
<1>7. ASSUME NEW p \in Publishers, NEW t \in todo[p], NEW delivered \in BOOLEAN,
             Send(p, t, delivered)
      PROVE  FanOutInv'
  <2>1. t \in Tokens /\ Answered(p, t, delivered)
    BY <1>7 DEF Send, TypeOK
  <2>2. /\ \A a \in Writers \ {p} : pc'[a] = pc[a]
        /\ pc'[p] = "idle" => todo'[p] = {}
    BY <1>0, <1>7 DEF Send
  <2> QED
    BY <2>1, <2>2, AnsweredStep
<1>8. ASSUME NEW p \in Publishers, NEW t \in todo[p], Prune(p, t) PROVE FanOutInv'
  <2>1. t \in Tokens /\ Answered(p, t, FALSE)
    BY <1>8 DEF Prune, TypeOK
  <2>2. /\ \A a \in Writers \ {p} : pc'[a] = pc[a]
        /\ pc'[p] = "idle" => todo'[p] = {}
    BY <1>0, <1>8 DEF Prune, Update
  <2> QED
    BY <2>1, <2>2, AnsweredStep
<1>9. CASE Crash
  BY <1>9 DEF Crash, FanOutInv, NoRound
<1>10. CASE Restart
  BY <1>10, FanOutQuiet DEF Restart
<1> QED
  BY <1>1, <1>2, <1>3, <1>4, <1>6, <1>7, <1>8, <1>9, <1>10
  DEF Next, Register, Deliver, Persist

\* Whatever is registered, pruned, saved or lost while it runs, a publish tries
\* every device it started with exactly once.
THEOREM FanOutComplete == Spec => []EveryDeviceTried
<1>1. Init => FanOutInv
  <2>1. NoRound.targets = {} /\ NoRound.sent = {} /\ NoRound.failed = {}
    BY DEF NoRound
  <2> QED
    BY <2>1 DEF Init, FanOutInv
<1>2. FanOutInv => EveryDeviceTried
  BY WritersAssumption DEF FanOutInv, EveryDeviceTried
<1> QED
  BY <1>1, <1>2, FanOutStep, TypeCorrect, PTL DEF Spec
=============================================================================
