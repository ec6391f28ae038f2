-------------------------- MODULE ConfigFileProofs --------------------------
(***************************************************************************)
(* Proofs about ConfigFile for any number of handlers, files, requests,    *)
(* crashes and restarts: as long as no two requests have overlapped, the   *)
(* config file is never missing, torn or short of a key, and it implements *)
(* Settings, a map of settings that is changed one key at a time.          *)
(***************************************************************************)
EXTENDS ConfigFile, FiniteSetTheorems, TLAPS

\* Descriptors are open only between open and write, and a dead process runs
\* nothing.
ProcessInv ==
  /\ \A h \in Writers : pc[h] # "write" => fd[h] = NoFile
  /\ status # "up" => \A h \in Writers : ~Busy(h)
  /\ tmp # NoFile => tmp # path

\* How far a request has come, and what it is saving.
RequestInv(h) ==
  /\ Busy(h) => field[h].value = live[field[h].key]
  /\ pc[h] \in saving => doc[h] = [data[path].doc EXCEPT ![field[h].key] = field[h].value]
  /\ pc[h] = "write" => tmp # NoFile /\ fd[h] = tmp /\ data[tmp] = Empty
  /\ pc[h] = "rename" => tmp # NoFile /\ data[tmp] = Whole(doc[h], DocSize(doc[h]))

\* A restart would bring setting k back as it is.
Durable(k) ==
  \/ Loaded(data[path].doc)[k] = live[k]
  \/ k = "poll_interval" /\ (live[k] = 0 \/ override # Absent)

\* One request at a time.
SerialInv ==
  /\ \A g, h \in Writers : Busy(g) /\ Busy(h) => g = h
  /\ \A h \in Writers : RequestInv(h)
  /\ Present
  /\ data[path].doc["installed"] = Installed
  /\ status # "failed"
  /\ status = "up" =>
       \A k \in synced : (\A h \in Writers : Busy(h) => field[h].key # k) => Durable(k)

IInv == TypeOK /\ ProcessInv /\ (~overlapped => SerialInv)

-----------------------------------------------------------------------------
(* The operators of the model                                              *)

\* A document has a length.
LEMMA DocSizeNat == ASSUME NEW d \in Docs PROVE DocSize(d) \in Nat
<1>1. IsFiniteSet(Keys)
  <2>1. IsFiniteSet({"poll_interval"}) /\ IsFiniteSet({"installed"})
    BY FS_Singleton
  <2>2. IsFiniteSet({"poll_interval"} \cup {"rules"})
    BY <2>1, FS_AddElement
  <2>3. IsFiniteSet(({"poll_interval"} \cup {"rules"}) \cup {"installed"})
    BY <2>2, FS_AddElement
  <2>4. Keys = ({"poll_interval"} \cup {"rules"}) \cup {"installed"}
    BY DEF Keys, LiveKeys
  <2> QED
    BY <2>3, <2>4
<1>2. IsFiniteSet({k \in Keys : d[k] # Absent})
  BY <1>1, FS_Subset
<1> QED
  BY <1>2, FS_CardinalityType DEF DocSize

\* What a write leaves in a file is a document or torn.
LEMMA OverlayType ==
  ASSUME NEW old \in Contents(Docs), NEW d \in Docs
  PROVE  Overlay(old, d, DocSize(d)) \in Contents(Docs)
<1>1. old.size \in Nat /\ DocSize(d) \in Nat
  BY DocSizeNat DEF Contents, Empty
<1> QED
  BY <1>1 DEF Overlay, Contents, Whole, Torn

\* The file, when it is there, is a document.
LEMMA PresentType ==
  ASSUME FileTypeOK(Docs), Present
  PROVE  path \in Files /\ data[path].doc \in Docs
<1>1. path \in Files /\ data[path].kind = "whole" /\ data[path] \in Contents(Docs)
  BY DEF Present, FileTypeOK
<1> QED
  BY <1>1 DEF Contents, Empty

\* Replacing a key by a value a request may ask for gives a document.
LEMMA ReplaceType ==
  ASSUME NEW d \in Docs, NEW f \in Fields
  PROVE  /\ [d EXCEPT ![f.key] = f.value] \in Docs
         /\ f.key \in LiveKeys /\ f.key # "installed"
<1>1. CASE f \in [key : {"poll_interval"}, value : Intervals]
  BY <1>1 DEF Docs, Keys, LiveKeys
<1>2. CASE f \in [key : {"rules"}, value : RuleSets]
  BY <1>2 DEF Docs, Keys, LiveKeys
<1> QED
  BY <1>1, <1>2 DEF Fields

\* Every document gives settings to start with.
LEMMA LoadedType ==
  ASSUME override \in Overrides, NEW d \in Docs PROVE Loaded(d) \in InUse
<1>1. LayeredPoll(d["poll_interval"]) \in Intervals
  BY DEF LayeredPoll, Docs, Intervals
<1>2. LayeredRules(d["rules"]) \in RuleSets
  BY NoRulesAssumption DEF LayeredRules, Docs
<1> QED
  BY <1>1, <1>2 DEF Loaded, InUse, LiveKeys

\* The empty and the installed document are documents.
LEMMA FirstDocType == EmptyDoc \in Docs /\ InstalledDoc \in Docs
<1>1. DefaultPollInterval \in Intervals
  BY DEF Intervals
<1> QED
  BY <1>1 DEF EmptyDoc, InstalledDoc, Docs, Keys, LiveKeys

\* A handler starts from a document.
LEMMA BaseType == ASSUME FileTypeOK(Docs) PROVE Base \in Docs
<1>1. CASE Found.kind = "whole"
  <2>1. Present /\ Base = data[path].doc
    BY <1>1 DEF Found, Base, Present, Empty
  <2> QED
    BY <2>1, PresentType
<1>2. CASE Found.kind # "whole"
  BY <1>2, FirstDocType DEF Base
<1> QED
  BY <1>1, <1>2

-----------------------------------------------------------------------------
(* Types                                                                   *)

\* Opening the temporary file keeps the files typed.
LEMMA OpenType ==
  ASSUME FileTypeOK(Docs), NEW h \in Writers, OpenTmp(h)
  PROVE  FileTypeOK(Docs)'
<1>1. Empty \in Contents(Docs)
  BY DEF Contents
<1> QED
  BY <1>1 DEF FileTypeOK, OpenTmp, Unused

\* So does writing it,
LEMMA WriteType ==
  ASSUME FileTypeOK(Docs), NEW h \in Writers, NEW d \in Docs, WriteTmp(h, d, DocSize(d))
  PROVE  FileTypeOK(Docs)'
<1>1. fd[h] \in Files
  BY DEF WriteTmp, FileTypeOK
<1>2. data[fd[h]] \in Contents(Docs)
  BY <1>1 DEF FileTypeOK
<1>3. Overlay(data[fd[h]], d, DocSize(d)) \in Contents(Docs)
  BY <1>2, OverlayType
<1> QED
  BY <1>1, <1>3 DEF FileTypeOK, WriteTmp

\* renaming it,
LEMMA RenameType == ASSUME FileTypeOK(Docs), RenameTmp PROVE FileTypeOK(Docs)'
<1>1. Empty \in Contents(Docs)
  BY DEF Contents
<1> QED
  BY <1>1, NoFileAssumption DEF FileTypeOK, RenameTmp, RenameSucceeds, fileVars

\* and failing at any of the three.
LEMMA GiveUpType ==
  ASSUME FileTypeOK(Docs), NEW h \in Writers, GiveUp(h)
  PROVE  FileTypeOK(Docs)'
<1>1. CASE UNCHANGED data
  BY <1>1 DEF FileTypeOK, GiveUp
<1>2. CASE fd[h] # NoFile /\ data' = [data EXCEPT ![fd[h]] = Torn(@.size)]
  <2>1. fd[h] \in Files
    BY <1>2 DEF FileTypeOK
  <2>2. data[fd[h]].size \in Nat
    BY <2>1 DEF FileTypeOK, Contents, Empty
  <2>3. Torn(data[fd[h]].size) \in Contents(Docs)
    BY <2>2 DEF Torn, Contents
  <2> QED
    BY <1>2, <2>1, <2>3 DEF FileTypeOK, GiveUp
<1> QED
  BY <1>1, <1>2 DEF GiveUp

\* A request changes one setting in use.
LEMMA ApplyType ==
  ASSUME TypeOK, NEW h \in Writers, NEW f \in Fields, Apply(h, f.key, f.value)
  PROVE  TypeOK'
<1>1. live' = [live EXCEPT ![f.key] = f.value] /\ f = [key |-> f.key, value |-> f.value]
  BY DEF Apply, Fields
<1>2. live' \in InUse
  BY <1>1 DEF TypeOK, InUse, LiveKeys, Fields
<1>3. field' = [field EXCEPT ![h] = f]
  BY <1>1 DEF Apply
<1>4. /\ field' \in [Writers -> Fields \cup {Absent}]
      /\ pc' \in [Writers -> {"idle", "read"} \cup saving]
      /\ \A g \in Writers : Busy(g)' => field'[g] \in Fields
  BY <1>3 DEF Apply, TypeOK, Busy
<1>5. \A g \in Writers : pc'[g] \in saving => doc'[g] \in Docs
  BY DEF Apply, TypeOK, saving
<1> QED
  BY <1>2, <1>4, <1>5 DEF Apply, TypeOK, fileVars, FileTypeOK

\* What the two requests ask for are fields a request may save.
LEMMA PatchField ==
  /\ \A h \in Writers, d \in Requests : PatchConfig(h, d) =>
       \E f \in Fields : Apply(h, f.key, f.value)
  /\ \A h \in Writers, rs \in RuleSets : PatchAlerts(h, rs) =>
       \E f \in Fields : Apply(h, f.key, f.value)
<1>1. ASSUME NEW h \in Writers, NEW d \in Requests, PatchConfig(h, d)
      PROVE  \E f \in Fields : Apply(h, f.key, f.value)
  <2> DEFINE f == [key |-> "poll_interval", value |-> d]
  <2>1. f \in Fields
    BY <1>1 DEF PatchConfig, Fields, Intervals
  <2>2. Apply(h, f.key, f.value)
    BY <1>1 DEF PatchConfig
  <2> QED
    BY <2>1, <2>2
<1>2. ASSUME NEW h \in Writers, NEW rs \in RuleSets, PatchAlerts(h, rs)
      PROVE  \E f \in Fields : Apply(h, f.key, f.value)
  <2> DEFINE f == [key |-> "rules", value |-> rs]
  <2>1. f \in Fields
    BY DEF Fields
  <2>2. Apply(h, f.key, f.value)
    BY <1>2 DEF PatchAlerts
  <2> QED
    BY <2>1, <2>2
<1> QED
  BY <1>1, <1>2

\* The agent starts well typed.
LEMMA TypeInit == Init => TypeOK
<1> SUFFICES ASSUME Init PROVE TypeOK
  OBVIOUS
<1>1. Whole(InstalledDoc, DocSize(InstalledDoc)) \in Contents(Docs)
  BY FirstDocType, DocSizeNat DEF Contents, Whole
<1>2. FileTypeOK(Docs)
  BY <1>1 DEF Init, FileTypeOK, Contents
<1>3. live \in InUse
  BY FirstDocType, LoadedType DEF Init
<1>4. /\ pc \in [Writers -> {"idle", "read"} \cup saving]
      /\ field \in [Writers -> Fields \cup {Absent}]
      /\ doc \in [Writers -> Docs \cup {Absent}]
      /\ \A h \in Writers : ~Busy(h) /\ pc[h] \notin saving
  BY DEF Init, Busy, saving
<1> QED
  BY <1>2, <1>3, <1>4 DEF Init, TypeOK

\* Every setting in use, every document being saved and every file has its
\* type, whatever overlaps and wherever the process dies: a rule set or an
\* interval that is absent never gets into the running agent.
THEOREM TypeCorrect == Spec => []TypeOK
<1>1. TypeOK /\ [Next]_vars => TypeOK'
  <2> SUFFICES ASSUME TypeOK, [Next]_vars PROVE TypeOK'
    OBVIOUS
  <2>1. CASE UNCHANGED vars
    BY <2>1 DEF vars, handlerVars, fileVars, TypeOK, FileTypeOK, Busy
  <2>2. ASSUME NEW h \in Writers, Patch(h) PROVE TypeOK'
    BY <2>2, ApplyType, PatchField DEF Patch
  <2>3. ASSUME NEW h \in Writers, ReadConfig(h) PROVE TypeOK'
    <3>1. field[h] \in Fields
      BY <2>3 DEF ReadConfig, TypeOK, Busy
    <3>2. Overlaid(h) \in Docs
      BY <3>1, BaseType, ReplaceType DEF TypeOK, Overlaid
    <3>3. /\ doc' \in [Writers -> Docs \cup {Absent}]
          /\ pc' \in [Writers -> {"idle", "read"} \cup saving]
          /\ \A g \in Writers : pc'[g] \in saving => doc'[g] \in Docs
      BY <2>3, <3>2 DEF ReadConfig, TypeOK, saving
    <3>4. \A g \in Writers : Busy(g)' => field'[g] \in Fields
      BY <2>3 DEF ReadConfig, TypeOK, Busy
    <3> QED
      BY <2>3, <3>3, <3>4 DEF ReadConfig, TypeOK, fileVars, FileTypeOK
  <2>4. ASSUME NEW h \in Writers, OpenConfig(h) PROVE TypeOK'
    <3>1. FileTypeOK(Docs)'
      BY <2>4, OpenType DEF OpenConfig, TypeOK
    <3> QED
      BY <2>4, <3>1 DEF OpenConfig, TypeOK, saving, Busy
  <2>5. ASSUME NEW h \in Writers, WriteConfig(h) PROVE TypeOK'
    <3>1. doc[h] \in Docs
      BY <2>5 DEF WriteConfig, TypeOK, saving
    <3>2. FileTypeOK(Docs)'
      BY <2>5, <3>1, WriteType DEF WriteConfig, TypeOK
    <3> QED
      BY <2>5, <3>2 DEF WriteConfig, TypeOK, saving, Busy
  <2>6. ASSUME NEW h \in Writers, RenameConfig(h) PROVE TypeOK'
    <3>1. FileTypeOK(Docs)' /\ field[h].key \in LiveKeys
      BY <2>6, RenameType DEF RenameConfig, TypeOK, Busy, Fields, LiveKeys
    <3> QED
      BY <2>6, <3>1 DEF RenameConfig, Answer, TypeOK, saving, Busy
  <2>7. ASSUME NEW h \in Writers, SaveFails(h) PROVE TypeOK'
    <3>1. FileTypeOK(Docs)'
      BY <2>7, GiveUpType DEF SaveFails, TypeOK, fileVars, FileTypeOK
    <3>2. ops' \in Nat /\ pc' = [pc EXCEPT ![h] = "idle"] /\ synced' \subseteq LiveKeys
      BY <2>7 DEF SaveFails, Answer, TypeOK
    <3> QED
      BY <2>7, <3>1, <3>2 DEF SaveFails, TypeOK, saving, Busy
  <2>8. CASE Crash
    BY <2>8 DEF Crash, CloseAll, TypeOK, FileTypeOK, saving, Busy
  <2>9. CASE Restart
    <3>1. Present => Loaded(data[path].doc) \in InUse
      BY PresentType, LoadedType DEF TypeOK
    <3>2. live' \in InUse /\ synced' \subseteq LiveKeys /\ status' \in {"up", "down", "failed"}
      BY <2>9, <3>1 DEF Restart, TypeOK
    <3> QED
      BY <2>9, <3>2 DEF Restart, handlerVars, fileVars, TypeOK, FileTypeOK, Busy
  <2> QED
    BY <2>1, <2>2, <2>3, <2>4, <2>5, <2>6, <2>7, <2>8, <2>9 DEF Next, Save
<1> QED
  BY <1>1, TypeInit, PTL DEF Spec

-----------------------------------------------------------------------------
(* One request at a time                                                   *)

\* Replacing one key changes that setting, unless it is a pause or a flag
\* overrides it, and nothing else of what a restart finds.
LEMMA LoadedReplace ==
  ASSUME override \in Overrides, NEW d \in Docs, NEW f \in Fields, NEW e,
         e = [d EXCEPT ![f.key] = f.value]
  PROVE  /\ \A k \in LiveKeys : k # f.key => Loaded(e)[k] = Loaded(d)[k]
         /\ e["installed"] = d["installed"]
         /\ f.key = "rules" => Loaded(e)[f.key] = f.value
         /\ f.key = "poll_interval" /\ override # Absent =>
              Loaded(e)[f.key] = Loaded(d)[f.key]
         /\ f.key = "poll_interval" /\ override = Absent =>
              Loaded(e)[f.key] = IF f.value = 0 THEN DefaultPollInterval ELSE f.value
<1>1. f.key \in LiveKeys /\ f.key # "installed"
  BY ReplaceType
<1>2. \A k \in Keys : e[k] = IF k = f.key THEN f.value ELSE d[k]
  BY <1>1 DEF Docs, Keys
<1>3. f.key = "rules" => f.value # Absent
  BY AbsentAssumption DEF Fields
<1>4. f.key = "poll_interval" => f.value # Absent
  <2>1. \A o \in Overrides \ {Absent} : o \in Int
    BY OverridesAssumption
  <2>2. \A i \in Intervals : i \in Int
    BY <2>1, IntervalsAssumption DEF Intervals
  <2> QED
    BY <2>2, AbsentAssumption DEF Fields
<1> QED
  BY <1>1, <1>2, <1>3, <1>4 DEF Loaded, LayeredPoll, LayeredRules, LiveKeys, Keys

\* Descriptors stay closed and dead processes idle.
LEMMA ProcessStep == TypeOK /\ ProcessInv /\ [Next]_vars => ProcessInv'
<1> SUFFICES ASSUME TypeOK, ProcessInv, [Next]_vars PROVE ProcessInv'
  OBVIOUS
<1> USE DEF ProcessInv, Busy
<1> pc \in [Writers -> {"idle", "read"} \cup saving] /\ fd \in [Writers -> Files \cup {NoFile}]
  BY DEF TypeOK, FileTypeOK
<1>1. CASE UNCHANGED vars
  BY <1>1 DEF vars, handlerVars, fileVars
<1>2. ASSUME NEW h \in Writers, Patch(h) PROVE ProcessInv'
  BY <1>2 DEF Patch, PatchConfig, PatchAlerts, Apply, fileVars
<1>3. ASSUME NEW h \in Writers, ReadConfig(h) PROVE ProcessInv'
  BY <1>3 DEF ReadConfig, fileVars
<1>4. ASSUME NEW h \in Writers, OpenConfig(h) PROVE ProcessInv'
  BY <1>4 DEF OpenConfig, OpenTmp, Unused
<1>5. ASSUME NEW h \in Writers, WriteConfig(h) PROVE ProcessInv'
  BY <1>5 DEF WriteConfig, WriteTmp
<1>6. ASSUME NEW h \in Writers, RenameConfig(h) PROVE ProcessInv'
  BY <1>6 DEF RenameConfig, Answer, RenameTmp, RenameSucceeds, fileVars
<1>7. ASSUME NEW h \in Writers, SaveFails(h) PROVE ProcessInv'
  BY <1>7 DEF SaveFails, Answer, GiveUp, fileVars
<1>8. CASE Crash
  BY <1>8 DEF Crash, CloseAll
<1>9. CASE Restart
  BY <1>9 DEF Restart, handlerVars, fileVars
<1> QED
  BY <1>1, <1>2, <1>3, <1>4, <1>5, <1>6, <1>7, <1>8, <1>9 DEF Next, Save

\* While a request runs no other does.
LEMMA Alone ==
  ASSUME SerialInv, NEW h \in Writers, Busy(h)
  PROVE  \A g \in Writers : g # h => ~Busy(g)
  BY DEF SerialInv

\* A file that is not touched gives the same settings.
LEMMA SameFile ==
  ASSUME Present, UNCHANGED <<path, override>>, data'[path] = data[path]
  PROVE  /\ Present' /\ (data[path].doc)' = data[path].doc
         /\ Loaded(data[path].doc)' = Loaded(data[path].doc)
  BY DEF Present, Loaded, LayeredPoll, LayeredRules

\* Nothing is known of a request that is not there.
LEMMA IdleRequest == ASSUME NEW h \in Writers, ~Busy(h) PROVE RequestInv(h)
  BY DEF RequestInv, Busy, saving

\* The invariant holds after a request has applied its value,
LEMMA ApplyStep ==
  ASSUME TypeOK, ~overlapped => SerialInv, ~overlapped',
         NEW h \in Writers, NEW f \in Fields, Apply(h, f.key, f.value)
  PROVE  SerialInv'
<1>1. /\ pc[h] = "idle" /\ pc' = [pc EXCEPT ![h] = "read"]
      /\ pc \in [Writers -> {"idle", "read"} \cup saving]
      /\ status = "up" /\ live' = [live EXCEPT ![f.key] = f.value]
      /\ field' = [field EXCEPT ![h] = f] /\ field \in [Writers -> Fields \cup {Absent}]
      /\ UNCHANGED <<override, doc, path, tmp, data, fd, status, synced>>
  <2>1. f = [key |-> f.key, value |-> f.value]
    BY DEF Fields
  <2> QED
    BY <2>1 DEF Apply, TypeOK, fileVars
<1>2. SerialInv /\ \A g \in Writers : ~Busy(g)
  BY <1>1 DEF Apply, Busy
<1>3. \A g \in Writers : Busy(g)' <=> g = h
  BY <1>1, <1>2 DEF Busy
<1>4. live'[f.key] = f.value /\ \A k \in LiveKeys : k # f.key => live'[k] = live[k]
  BY <1>1, ReplaceType DEF TypeOK, InUse, Fields, LiveKeys
<1>5. ASSUME NEW g \in Writers PROVE RequestInv(g)'
  BY <1>1, <1>3, <1>4 DEF RequestInv, Busy, saving
<1>6. Present' /\ (data[path].doc)' = data[path].doc
      /\ Loaded(data[path].doc)' = Loaded(data[path].doc)
  BY <1>1, <1>2, SameFile DEF SerialInv
<1>7. ASSUME NEW k \in synced', f.key # k PROVE Durable(k)'
  <2>1. k \in LiveKeys /\ Durable(k)
    BY <1>1, <1>2, <1>7 DEF SerialInv, TypeOK
  <2> QED
    BY <1>1, <1>4, <1>6, <1>7, <2>1 DEF Durable
<1>8. field'[h].key = f.key
  BY <1>1
<1> QED
  BY <1>1, <1>2, <1>3, <1>5, <1>6, <1>7, <1>8 DEF SerialInv

\* after it has read the file,
LEMMA ReadStep ==
  ASSUME TypeOK, SerialInv, NEW h \in Writers, ReadConfig(h)
  PROVE  SerialInv'
<1>1. /\ pc[h] = "read" /\ pc' = [pc EXCEPT ![h] = "open"]
      /\ pc \in [Writers -> {"idle", "read"} \cup saving]
      /\ doc' = [doc EXCEPT ![h] = Overlaid(h)] /\ doc \in [Writers -> Docs \cup {Absent}]
      /\ UNCHANGED <<override, live, field, path, tmp, data, fd, status, synced>>
  BY DEF ReadConfig, TypeOK, fileVars
<1>2. \A g \in Writers : Busy(g)' <=> Busy(g)
  BY <1>1 DEF Busy
<1>3. Base = data[path].doc
  BY DEF SerialInv, Present, Base, Found
<1>4. Present' /\ (data[path].doc)' = data[path].doc
      /\ Loaded(data[path].doc)' = Loaded(data[path].doc)
  BY <1>1, SameFile DEF SerialInv
<1>5. ASSUME NEW g \in Writers PROVE RequestInv(g)'
  <2>1. CASE g = h
    BY <1>1, <1>3, <1>4, <2>1 DEF SerialInv, RequestInv, Overlaid, Busy
  <2>2. CASE g # h
    BY <1>1, <1>4, <2>2 DEF SerialInv, RequestInv, Busy
  <2> QED
    BY <2>1, <2>2
<1>6. \A k : Durable(k)' <=> Durable(k)
  BY <1>1, <1>4 DEF Durable
<1> QED
  BY <1>1, <1>2, <1>4, <1>5, <1>6 DEF SerialInv

\* after it has opened the temporary file,
LEMMA OpenStep ==
  ASSUME TypeOK, ProcessInv, SerialInv, NEW h \in Writers, OpenConfig(h)
  PROVE  SerialInv'
<1>1. /\ pc[h] = "open" /\ pc' = [pc EXCEPT ![h] = "write"]
      /\ pc \in [Writers -> {"idle", "read"} \cup saving]
      /\ UNCHANGED <<override, live, field, doc, path, status, synced>>
  BY DEF OpenConfig, OpenTmp, TypeOK
<1>2. PICK f \in IF tmp = NoFile THEN Unused ELSE {tmp} :
         tmp' = f /\ data' = [data EXCEPT ![f] = Empty] /\ fd' = [fd EXCEPT ![h] = f]
  BY DEF OpenConfig, OpenTmp
<1>3. f \in Files /\ f # path /\ f # NoFile
  BY <1>2, NoFileAssumption DEF Unused, ProcessInv, TypeOK, FileTypeOK
<1>4. data \in [Files -> Contents(Docs)] /\ fd \in [Writers -> Files \cup {NoFile}]
  BY DEF TypeOK, FileTypeOK
<1>5. data'[path] = data[path]
  BY <1>2, <1>3, <1>4 DEF SerialInv, Present, TypeOK, FileTypeOK
<1>6. Present' /\ (data[path].doc)' = data[path].doc
      /\ Loaded(data[path].doc)' = Loaded(data[path].doc)
  BY <1>1, <1>5, SameFile DEF SerialInv
<1>7. \A g \in Writers : Busy(g)' <=> Busy(g)
  BY <1>1 DEF Busy
<1>8. ASSUME NEW g \in Writers PROVE RequestInv(g)'
  <2>1. CASE g = h
    BY <1>1, <1>2, <1>3, <1>4, <1>6, <2>1 DEF SerialInv, RequestInv, Busy, saving
  <2>2. CASE g # h
    <3>1. ~Busy(g)
      BY <1>1, <2>2, Alone DEF Busy
    <3> QED
      BY <1>1, <2>2, <3>1 DEF RequestInv, Busy, saving
  <2> QED
    BY <2>1, <2>2
<1>9. \A k : Durable(k)' <=> Durable(k)
  BY <1>1, <1>6 DEF Durable
<1> QED
  BY <1>1, <1>6, <1>7, <1>8, <1>9 DEF SerialInv

\* after it has written it,
LEMMA WriteStep ==
  ASSUME TypeOK, ProcessInv, SerialInv, NEW h \in Writers, WriteConfig(h)
  PROVE  SerialInv'
<1>1. /\ pc[h] = "write" /\ pc' = [pc EXCEPT ![h] = "rename"]
      /\ pc \in [Writers -> {"idle", "read"} \cup saving]
      /\ UNCHANGED <<override, live, field, doc, path, tmp, status, synced>>
  BY DEF WriteConfig, WriteTmp, TypeOK
<1>2. tmp \in Files /\ fd[h] = tmp /\ data[tmp] = Empty /\ tmp # path
  BY <1>1 DEF SerialInv, RequestInv, ProcessInv, TypeOK, FileTypeOK
<1>3. doc[h] \in Docs
  BY <1>1 DEF TypeOK, saving
<1>4. DocSize(doc[h]) >= data[tmp].size
  BY <1>2, <1>3, DocSizeNat DEF Empty
<1>5. data' = [data EXCEPT ![tmp] = Whole(doc[h], DocSize(doc[h]))]
  BY <1>2, <1>4 DEF WriteConfig, WriteTmp, Overlay
<1>6. data \in [Files -> Contents(Docs)]
  BY DEF TypeOK, FileTypeOK
<1>7. data'[path] = data[path]
  BY <1>2, <1>5, <1>6 DEF SerialInv, Present, TypeOK, FileTypeOK
<1>8. Present' /\ (data[path].doc)' = data[path].doc
      /\ Loaded(data[path].doc)' = Loaded(data[path].doc)
  BY <1>1, <1>7, SameFile DEF SerialInv
<1>9. \A g \in Writers : Busy(g)' <=> Busy(g)
  BY <1>1 DEF Busy
<1>10. ASSUME NEW g \in Writers PROVE RequestInv(g)'
  <2>1. CASE g = h
    <3>1. DocSize(doc[h])' = DocSize(doc[h]) /\ data'[tmp] = Whole(doc[h], DocSize(doc[h]))
      BY <1>1, <1>2, <1>5, <1>6 DEF DocSize
    <3> QED
      BY <1>1, <1>2, <1>8, <2>1, <3>1, NoFileAssumption DEF SerialInv, RequestInv, Busy, saving
  <2>2. CASE g # h
    <3>1. ~Busy(g)
      BY <1>1, <2>2, Alone DEF Busy
    <3> QED
      BY <1>1, <2>2, <3>1 DEF RequestInv, Busy, saving
  <2> QED
    BY <2>1, <2>2
<1>11. \A k : Durable(k)' <=> Durable(k)
  BY <1>1, <1>8 DEF Durable
<1> QED
  BY <1>1, <1>8, <1>9, <1>10, <1>11 DEF SerialInv

\* and after it has renamed it: the file now has the new value,
LEMMA RenameStep ==
  ASSUME TypeOK, ProcessInv, SerialInv, NEW h \in Writers, RenameConfig(h)
  PROVE  /\ SerialInv'
         /\ \E f \in Fields : /\ live[f.key] = f.value
                              /\ data'[path'].doc = [data[path].doc EXCEPT ![f.key] = f.value]
<1> DEFINE f == field[h]
<1>1. /\ pc[h] = "rename" /\ pc' = [pc EXCEPT ![h] = "idle"]
      /\ pc \in [Writers -> {"idle", "read"} \cup saving]
      /\ UNCHANGED <<override, live, field, doc, status>>
  BY DEF RenameConfig, Answer, TypeOK
<1>2. /\ f \in Fields /\ live[f.key] = f.value
      /\ doc[h] = [data[path].doc EXCEPT ![f.key] = f.value]
      /\ data[tmp] = Whole(doc[h], DocSize(doc[h]))
      /\ tmp \in Files /\ tmp # NoFile /\ tmp # path
  BY <1>1, NoFileAssumption
  DEF SerialInv, RequestInv, ProcessInv, TypeOK, FileTypeOK, Busy, saving
<1>3. path' = tmp /\ data' = (IF path = NoFile THEN data ELSE [data EXCEPT ![path] = Empty])
      /\ synced' = synced \cup {f.key}
  BY <1>2 DEF RenameConfig, RenameTmp, RenameSucceeds
<1>4. data \in [Files -> Contents(Docs)] /\ path \in Files /\ data[path].doc \in Docs
  BY PresentType DEF TypeOK, FileTypeOK, SerialInv
<1>5. data'[path'] = Whole(doc[h], DocSize(doc[h]))
  BY <1>2, <1>3, <1>4
<1>6. Present' /\ (data[path].doc)' = doc[h]
  BY <1>2, <1>3, <1>5 DEF Present, Whole
<1>7. Loaded(data[path].doc)' = Loaded(doc[h])
  BY <1>1, <1>6 DEF Loaded, LayeredPoll, LayeredRules
<1>8. /\ \A k \in LiveKeys : k # f.key => Loaded(doc[h])[k] = Loaded(data[path].doc)[k]
      /\ doc[h]["installed"] = data[path].doc["installed"]
      /\ f.key = "rules" => Loaded(doc[h])[f.key] = f.value
      /\ f.key = "poll_interval" /\ override = Absent =>
           Loaded(doc[h])[f.key] = IF f.value = 0 THEN DefaultPollInterval ELSE f.value
  <2> HIDE DEF f
  <2> QED
    BY <1>2, <1>4, LoadedReplace DEF TypeOK
<1>9. \A g \in Writers : ~Busy(g)'
  BY <1>1, Alone DEF Busy
<1>10. \A g \in Writers : RequestInv(g)'
  BY <1>9 DEF RequestInv, Busy, saving
<1>11. ASSUME NEW k \in synced' PROVE Durable(k)'
  <2>1. CASE k = f.key
    <3>1. k = "rules" \/ k = "poll_interval"
      BY <1>2, <2>1 DEF Fields
    <3> QED
      BY <1>1, <1>2, <1>7, <1>8, <2>1, <3>1 DEF Durable
  <2>2. CASE k # f.key
    <3>1. k \in synced /\ k \in LiveKeys
      BY <1>3, <2>2 DEF TypeOK
    <3>2. \A g \in Writers : Busy(g) => field[g].key # k
      BY <1>1, <2>2, Alone DEF Busy
    <3>3. status = "up"
      BY DEF RenameConfig
    <3>4. Durable(k)
      BY <3>1, <3>2, <3>3 DEF SerialInv
    <3> QED
      BY <1>1, <1>7, <1>8, <2>2, <3>1, <3>4 DEF Durable
  <2> QED
    BY <2>1, <2>2
<1>12. SerialInv'
  BY <1>1, <1>6, <1>8, <1>9, <1>10, <1>11 DEF SerialInv
<1> QED
  BY <1>2, <1>6, <1>12

\* A save that fails leaves the file and what it was to replace it with.
LEMMA FailStep ==
  ASSUME TypeOK, ProcessInv, SerialInv, NEW h \in Writers, SaveFails(h)
  PROVE  SerialInv' /\ UNCHANGED path /\ data'[path] = data[path]
<1>1. /\ Busy(h) /\ pc' = [pc EXCEPT ![h] = "idle"]
      /\ pc \in [Writers -> {"idle", "read"} \cup saving]
      /\ synced' = synced \ {field[h].key} /\ status = "up"
      /\ UNCHANGED <<override, live, field, doc, path, status>>
  BY DEF SaveFails, Answer, GiveUp, TypeOK, Busy, saving, fileVars
<1>2. data'[path] = data[path]
  <2>1. fd[h] # NoFile => fd[h] = tmp /\ tmp # path
    BY DEF SerialInv, RequestInv, ProcessInv
  <2>2. path \in Files /\ data \in [Files -> Contents(Docs)]
    BY PresentType DEF SerialInv, TypeOK, FileTypeOK
  <2> QED
    BY <2>1, <2>2 DEF SaveFails, GiveUp, fileVars
<1>3. Present' /\ (data[path].doc)' = data[path].doc
      /\ Loaded(data[path].doc)' = Loaded(data[path].doc)
  BY <1>1, <1>2, SameFile DEF SerialInv
<1>4. \A g \in Writers : ~Busy(g)'
  BY <1>1, Alone DEF Busy
<1>5. \A g \in Writers : RequestInv(g)'
  BY <1>4 DEF RequestInv, Busy, saving
<1>6. ASSUME NEW k \in synced' PROVE Durable(k)'
  <2>1. Durable(k)
    BY <1>1, <1>6, Alone DEF SerialInv
  <2> QED
    BY <1>1, <1>3, <2>1 DEF Durable
<1> QED
  BY <1>1, <1>2, <1>3, <1>4, <1>5, <1>6 DEF SerialInv

\* A crash leaves the file, and whatever the temporary one holds.
LEMMA CrashStep == ASSUME TypeOK, SerialInv, Crash PROVE SerialInv'
<1>1. /\ UNCHANGED <<override, live, path, data>> /\ status' = "down"
      /\ \A h \in Writers : pc'[h] = "idle"
  BY DEF Crash, CloseAll
<1>2. Present' /\ (data[path].doc)' = data[path].doc
  BY <1>1, SameFile DEF SerialInv
<1> QED
  BY <1>1, <1>2 DEF SerialInv, RequestInv, Busy, saving

\* A restart finds every setting it saved.
LEMMA RestartStep == ASSUME TypeOK, ProcessInv, SerialInv, Restart PROVE SerialInv'
<1>1. /\ UNCHANGED <<override, path, data, pc>> /\ status # "up" /\ status' = "up"
      /\ live' = Loaded(data[path].doc)
  BY DEF Restart, SerialInv, handlerVars, fileVars
<1>2. Present' /\ (data[path].doc)' = data[path].doc
      /\ Loaded(data[path].doc)' = Loaded(data[path].doc)
  BY <1>1, SameFile DEF SerialInv
<1>3. \A h \in Writers : ~Busy(h)'
  BY <1>1 DEF ProcessInv, Busy
<1>4. \A h \in Writers : RequestInv(h)'
  BY <1>3 DEF RequestInv, Busy, saving
<1>5. \A k : Durable(k)'
  BY <1>1, <1>2 DEF Durable
<1> QED
  BY <1>1, <1>2, <1>3, <1>4, <1>5 DEF SerialInv

\* Every step of requests that come one after the other keeps the file whole
\* and up to date.
LEMMA SerialStep ==
  TypeOK /\ ProcessInv /\ (~overlapped => SerialInv) /\ [Next]_vars => (~overlapped => SerialInv)'
<1> SUFFICES ASSUME TypeOK, ProcessInv, ~overlapped => SerialInv, [Next]_vars, ~overlapped'
             PROVE  SerialInv'
  OBVIOUS
<1>1. CASE UNCHANGED vars
  <2>1. SerialInv /\ UNCHANGED <<override, live, pc, field, doc, fd, path, tmp, data, status,
                                 synced, overlapped>>
    BY <1>1 DEF vars, handlerVars, fileVars
  <2>2. \A d : Loaded(d)' = Loaded(d) /\ DocSize(d)' = DocSize(d)
    BY <2>1 DEF Loaded, LayeredPoll, LayeredRules, DocSize
  <2>3. \A h : Busy(h)' <=> Busy(h)
    BY <2>1 DEF Busy
  <2>4. ASSUME NEW h \in Writers PROVE RequestInv(h)'
    BY <2>1, <2>2, <2>3 DEF SerialInv, RequestInv
  <2>5. \A k : Durable(k)' <=> Durable(k)
    BY <2>1, <2>2 DEF Durable
  <2>6. Present'
    BY <2>1 DEF SerialInv, Present
  <2> QED
    BY <2>1, <2>3, <2>4, <2>5, <2>6 DEF SerialInv
<1>2. ASSUME NEW h \in Writers, Patch(h) PROVE SerialInv'
  BY <1>2, PatchField, ApplyStep DEF Patch
<1>3. ASSUME NEW h \in Writers, ReadConfig(h) PROVE SerialInv'
  BY <1>3, ReadStep DEF ReadConfig
<1>4. ASSUME NEW h \in Writers, OpenConfig(h) PROVE SerialInv'
  BY <1>4, OpenStep DEF OpenConfig
<1>5. ASSUME NEW h \in Writers, WriteConfig(h) PROVE SerialInv'
  BY <1>5, WriteStep DEF WriteConfig
<1>6. ASSUME NEW h \in Writers, RenameConfig(h) PROVE SerialInv'
  BY <1>6, RenameStep DEF RenameConfig
<1>7. ASSUME NEW h \in Writers, SaveFails(h) PROVE SerialInv'
  BY <1>7, FailStep DEF SaveFails
<1>8. CASE Crash
  BY <1>8, CrashStep DEF Crash
<1>9. CASE Restart
  BY <1>9, RestartStep DEF Restart
<1> QED
  BY <1>1, <1>2, <1>3, <1>4, <1>5, <1>6, <1>7, <1>8, <1>9 DEF Next, Save

\* The agent starts with what install.sh wrote.
LEMMA InvInit == Init => IInv
<1> SUFFICES ASSUME Init PROVE ProcessInv /\ SerialInv
  BY TypeInit DEF IInv
<1>1. ProcessInv /\ \A h \in Writers : ~Busy(h) /\ RequestInv(h)
  BY DEF Init, ProcessInv, RequestInv, Busy, saving
<1>2. path \in Files /\ data[path] = Whole(InstalledDoc, DocSize(InstalledDoc))
  BY DEF Init
<1>3. Present /\ data[path].doc = InstalledDoc
  BY <1>2, NoFileAssumption DEF Present, Whole
<1>4. InstalledDoc["installed"] = Installed
  BY DEF InstalledDoc, Keys
<1>5. \A k : Durable(k)
  BY <1>3 DEF Init, Durable
<1> QED
  BY <1>1, <1>3, <1>4, <1>5 DEF Init, SerialInv

\* The invariant behind both theorems below.
LEMMA InductiveInvariant == Spec => []IInv
  BY InvInit, TypeCorrect, ProcessStep, SerialStep, PTL DEF Spec, IInv

\* Between requests that came one after the other, loading the file gives each
\* setting whose last save succeeded, whatever failed and wherever the process
\* died on the way.
THEOREM RestartKeeps == Spec => []RestartKeepsSettings
<1>1. IInv => RestartKeepsSettings
  BY DEF IInv, SerialInv, Durable, RestartKeepsSettings, Quiet
<1> QED
  BY <1>1, InductiveInvariant, PTL

-----------------------------------------------------------------------------
(* The refinement                                                          *)

\* What the abstract settings see of a file that is there.
LEMMA Seen ==
  ASSUME Present
  PROVE  /\ OfFile(Loaded(data[path].doc)) = Loaded(data[path].doc)
         /\ OfFile(data[path].doc["installed"]) = data[path].doc["installed"]
  BY DEF OfFile

\* They see no difference when the file is not touched.
LEMMA SeenSame ==
  ASSUME Present, UNCHANGED <<path, override>>, data'[path] = data[path]
  PROVE  /\ OfFile(Loaded(data[path].doc))' = OfFile(Loaded(data[path].doc))
         /\ OfFile(data[path].doc["installed"])' = OfFile(data[path].doc["installed"])
<1>1. Present' /\ (data[path].doc)' = data[path].doc
      /\ Loaded(data[path].doc)' = Loaded(data[path].doc)
  BY SameFile
<1> QED
  BY <1>1 DEF OfFile

\* A step that leaves the settings in use, the file and the process is a
\* stuttering step of the abstract settings.
LEMMA Stutter ==
  ASSUME Present, UNCHANGED <<override, live, path, status>>, data'[path] = data[path]
  PROVE  UNCHANGED Atomic!vars
  BY SeenSame DEF Atomic!vars

\* Applying a value is a change of the abstract settings,
LEMMA ApplyChanges ==
  ASSUME TypeOK, SerialInv, NEW h \in Writers, NEW f \in Fields, Apply(h, f.key, f.value)
  PROVE  Atomic!Change(f.key)
<1>1. f.value \in Intervals \cup RuleSets
  BY DEF Fields
<1>2. /\ UNCHANGED <<path, data, override, status>> /\ status = "up"
      /\ live' = [live EXCEPT ![f.key] = f.value]
  BY DEF Apply, fileVars
<1>3. /\ OfFile(Loaded(data[path].doc))' = OfFile(Loaded(data[path].doc))
      /\ OfFile(data[path].doc["installed"])' = OfFile(data[path].doc["installed"])
  BY <1>2, SeenSame DEF SerialInv
<1> QED
  BY <1>1, <1>2, <1>3 DEF Atomic!Change

\* and the rename is where it is saved, or a stuttering step when a flag
\* overrides the file.
LEMMA RenameSaves ==
  ASSUME TypeOK, ProcessInv, SerialInv, NEW h \in Writers, RenameConfig(h)
  PROVE  (\E k \in LiveKeys : Atomic!Save(k)) \/ UNCHANGED Atomic!vars
<1>1. PICK f \in Fields : /\ live[f.key] = f.value
                          /\ data'[path'].doc = [data[path].doc EXCEPT ![f.key] = f.value]
  BY RenameStep
<1> PICK d, e : d = data[path].doc /\ e = data'[path'].doc
  OBVIOUS
<1>2. /\ d \in Docs /\ Present /\ Present'
      /\ status = "up" /\ UNCHANGED <<override, live, status>>
  BY RenameStep, PresentType DEF SerialInv, TypeOK, RenameConfig
<1>3. e = [d EXCEPT ![f.key] = f.value]
  BY <1>1
<1>4. /\ \A k \in LiveKeys : k # f.key => Loaded(e)[k] = Loaded(d)[k]
      /\ e["installed"] = d["installed"]
      /\ f.key = "rules" => Loaded(e)[f.key] = f.value
      /\ f.key = "poll_interval" /\ override # Absent => Loaded(e)[f.key] = Loaded(d)[f.key]
      /\ f.key = "poll_interval" /\ override = Absent =>
           Loaded(e)[f.key] = IF f.value = 0 THEN DefaultPollInterval ELSE f.value
  BY <1>2, <1>3, LoadedReplace DEF TypeOK
<1>5. /\ OfFile(Loaded(data[path].doc)) = Loaded(d)
      /\ OfFile(Loaded(data[path].doc))' = Loaded(e)
      /\ OfFile(data[path].doc["installed"])' = OfFile(data[path].doc["installed"])
  BY <1>2, <1>4 DEF OfFile, Loaded, LayeredPoll, LayeredRules
<1>6. f.key \in LiveKeys
  BY DEF Fields, LiveKeys
<1>7. /\ DOMAIN Loaded(d) = LiveKeys /\ DOMAIN Loaded(e) = LiveKeys
      /\ Loaded(d) = [k \in LiveKeys |-> Loaded(d)[k]]
      /\ Loaded(e) = [k \in LiveKeys |-> Loaded(e)[k]]
  BY DEF Loaded
<1>8. CASE f.key = "poll_interval" /\ override # Absent
  <2>1. Loaded(e) = Loaded(d)
    BY <1>4, <1>7, <1>8
  <2> QED
    BY <1>2, <1>5, <2>1 DEF Atomic!vars
<1>9. CASE ~(f.key = "poll_interval" /\ override # Absent)
  <2> DEFINE v == IF live[f.key] = 0 THEN DefaultPollInterval ELSE live[f.key]
  <2>1. Loaded(e)[f.key] = v
    <3>1. f.key = "rules" => f.value # 0
      BY RuleSetsAssumption DEF Fields
    <3>2. f.key = "rules" \/ f.key = "poll_interval"
      BY <1>6 DEF LiveKeys
    <3> QED
      BY <1>1, <1>4, <1>9, <3>1, <3>2
  <2> HIDE DEF v
  <2>2. Loaded(e) = [Loaded(d) EXCEPT ![f.key] = v]
    BY <1>4, <1>6, <1>7, <2>1
  <2>3. Atomic!Save(f.key)
    BY <1>2, <1>5, <2>2 DEF Atomic!Save, v
  <2> QED
    BY <1>6, <2>3
<1> QED
  BY <1>8, <1>9

\* Every step of requests that do not overlap is a step of the abstract
\* settings, or none.
LEMMA Simulation ==
  ASSUME TypeOK, ProcessInv, ~overlapped => SerialInv, [Next]_vars, ~overlapped'
  PROVE  Atomic!Next \/ UNCHANGED Atomic!vars
<1>1. CASE UNCHANGED vars
  BY <1>1 DEF vars, handlerVars, fileVars, Atomic!vars, OfFile, Present, Loaded,
              LayeredPoll, LayeredRules
<1>2. ASSUME NEW h \in Writers, Patch(h) PROVE Atomic!Next
  <2>1. PICK f \in Fields : Apply(h, f.key, f.value)
    BY <1>2, PatchField DEF Patch
  <2>2. SerialInv
    BY <2>1 DEF Apply
  <2>3. f.key \in LiveKeys
    BY DEF Fields, LiveKeys
  <2> QED
    BY <2>1, <2>2, <2>3, ApplyChanges DEF Atomic!Next
<1>3. ASSUME NEW h \in Writers, ReadConfig(h) PROVE UNCHANGED Atomic!vars
  BY <1>3, Stutter DEF ReadConfig, fileVars, SerialInv
<1>4. ASSUME NEW h \in Writers, OpenConfig(h) PROVE UNCHANGED Atomic!vars
  <2>1. PICK f \in IF tmp = NoFile THEN Unused ELSE {tmp} : data' = [data EXCEPT ![f] = Empty]
    BY <1>4 DEF OpenConfig, OpenTmp
  <2>2. f # path /\ SerialInv /\ path \in Files /\ data \in [Files -> Contents(Docs)]
    BY <1>4, <2>1, PresentType
    DEF OpenConfig, SerialInv, Unused, ProcessInv, TypeOK, FileTypeOK
  <2>3. data'[path] = data[path]
    BY <2>1, <2>2
  <2> QED
    BY <1>4, <2>2, <2>3, Stutter DEF OpenConfig, OpenTmp, SerialInv
<1>5. ASSUME NEW h \in Writers, WriteConfig(h) PROVE UNCHANGED Atomic!vars
  <2>1. SerialInv /\ fd[h] = tmp /\ tmp # path
    BY <1>5 DEF WriteConfig, SerialInv, RequestInv, ProcessInv
  <2>2. path \in Files /\ data \in [Files -> Contents(Docs)]
    BY <2>1, PresentType DEF SerialInv, TypeOK, FileTypeOK
  <2>3. data'[path] = data[path]
    BY <1>5, <2>1, <2>2 DEF WriteConfig, WriteTmp
  <2> QED
    BY <1>5, <2>1, <2>3, Stutter DEF WriteConfig, WriteTmp, SerialInv
<1>6. ASSUME NEW h \in Writers, RenameConfig(h) PROVE Atomic!Next \/ UNCHANGED Atomic!vars
  BY <1>6, RenameSaves DEF RenameConfig, Atomic!Next
<1>7. ASSUME NEW h \in Writers, SaveFails(h) PROVE UNCHANGED Atomic!vars
  BY <1>7, FailStep, Stutter DEF SaveFails, SerialInv
<1>8. CASE Crash
  <2>1. SerialInv /\ UNCHANGED <<override, path, data, live>>
        /\ status = "up" /\ status' = "down"
    BY <1>8 DEF Crash, CloseAll
  <2>2. /\ OfFile(Loaded(data[path].doc))' = OfFile(Loaded(data[path].doc))
        /\ OfFile(data[path].doc["installed"])' = OfFile(data[path].doc["installed"])
    BY <2>1, SeenSame DEF SerialInv
  <2>3. Atomic!Crash
    BY <2>1, <2>2 DEF Atomic!Crash
  <2> QED
    BY <2>3 DEF Atomic!Next
<1>9. CASE Restart
  <2>1. SerialInv /\ Present /\ UNCHANGED <<override, path, data>>
    BY <1>9 DEF Restart, fileVars, SerialInv
  <2>2. status # "up" /\ status' = "up" /\ live' = OfFile(Loaded(data[path].doc))
    BY <1>9, <2>1, Seen DEF Restart
  <2>3. /\ OfFile(Loaded(data[path].doc))' = OfFile(Loaded(data[path].doc))
        /\ OfFile(data[path].doc["installed"])' = OfFile(data[path].doc["installed"])
    BY <2>1, SeenSame
  <2>4. Atomic!Restart
    BY <2>2, <2>3 DEF Atomic!Restart
  <2> QED
    BY <2>4 DEF Atomic!Next
<1> QED
  BY <1>1, <1>2, <1>3, <1>4, <1>5, <1>6, <1>7, <1>8, <1>9 DEF Next, Save

\* Reading, opening, writing and renaming a file shared by any number of
\* handlers implements a map of settings changed in one step and one key at a
\* time, as long as no two requests overlap.
THEOREM SerialRequestsRefine == Spec => ImplementsSettings
<1>1. Init => Atomic!Init
  <2> SUFFICES ASSUME Init PROVE Atomic!Init
    OBVIOUS
  <2>1. Present /\ status = "up" /\ live = Loaded(InstalledDoc)
    BY InvInit DEF Init, IInv, SerialInv
  <2>2. data[path].doc = InstalledDoc
    BY DEF Init, Whole
  <2> QED
    BY <2>1, <2>2, Seen DEF Atomic!Init
<1>2. IInv /\ [Next]_vars => [overlapped' \/ Atomic!Next]_(Atomic!vars)
  BY Simulation DEF IInv
<1> QED
  BY <1>1, <1>2, InductiveInvariant, PTL DEF Spec, ImplementsSettings
=============================================================================
