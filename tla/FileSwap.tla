------------------------------ MODULE FileSwap ------------------------------
(***************************************************************************)
(* Saving a document as <path>.tmp and renaming it over <path>, as the     *)
(* token store (internal/pushrelay/tokenstore.go, persist) and the config  *)
(* file (internal/config/config.go, saveConfigFields) both do, with every  *)
(* writer using the same temporary name and no lock held.                  *)
(*                                                                         *)
(* os.WriteFile opens the temporary name with O_CREATE|O_TRUNC and then    *)
(* writes: two steps on whatever file the name stood for when it was       *)
(* opened. A writer therefore keeps writing to its own file when another   *)
(* one has meanwhile renamed it. The machine itself does not crash here:   *)
(* what was written before the process died is read after it restarts.     *)
(***************************************************************************)
EXTENDS Naturals

CONSTANTS
  Writers,      \* goroutines that may save
  Files,        \* file identities (inodes) a name can stand for
  NoFile        \* a name that does not exist, a writer with no open file

ASSUME NoFileAssumption == NoFile \notin Files

VARIABLES
  path,         \* the file <path> stands for
  tmp,          \* the file <path>.tmp stands for
  data,         \* contents of every file
  fd            \* the file each writer holds open between open and write

fileVars == <<path, tmp, data, fd>>

Empty         == [kind |-> "empty", size |-> 0]
Torn(n)       == [kind |-> "torn", size |-> n]   \* a document with another's tail
Whole(doc, n) == [kind |-> "whole", size |-> n, doc |-> doc]

Contents(Docs) ==
  {Empty} \cup [kind : {"torn"}, size : Nat]
          \cup [kind : {"whole"}, size : Nat, doc : Docs]

FileTypeOK(Docs) ==
  /\ path \in Files \cup {NoFile}
  /\ tmp \in Files \cup {NoFile}
  /\ data \in [Files -> Contents(Docs)]
  /\ fd \in [Writers -> Files \cup {NoFile}]

FileInit ==
  /\ path = NoFile
  /\ tmp = NoFile
  /\ data = [f \in Files |-> Empty]
  /\ fd = [w \in Writers |-> NoFile]

Unused == {f \in Files : f # path /\ f # tmp /\ \A w \in Writers : fd[w] # f}

\* Mutant: the document is written to <path> itself.
OpenInPlace(w) ==
  /\ \E f \in IF path = NoFile THEN Unused ELSE {path} :
       /\ path' = f
       /\ data' = [data EXCEPT ![f] = Empty]
       /\ fd' = [fd EXCEPT ![w] = f]
  /\ UNCHANGED tmp

\* os.WriteFile opens <path>.tmp: an existing file is truncated, whoever made it.
OpenTmp(w) ==
  /\ \E f \in IF tmp = NoFile THEN Unused ELSE {tmp} :
       /\ tmp' = f
       /\ data' = [data EXCEPT ![f] = Empty]
       /\ fd' = [fd EXCEPT ![w] = f]
  /\ UNCHANGED path

\* Writing doc, of length n, at offset 0 over what another writer has put
\* there since the open: a longer document leaves its tail behind.
Overlay(old, doc, n) == IF n >= old.size THEN Whole(doc, n) ELSE Torn(old.size)

\* os.WriteFile writes and closes.
WriteTmp(w, doc, n) ==
  /\ fd[w] # NoFile
  /\ data' = [data EXCEPT ![fd[w]] = Overlay(@, doc, n)]
  /\ fd' = [fd EXCEPT ![w] = NoFile]
  /\ UNCHANGED <<path, tmp>>

\* A save stops at an error (no space, no permission): nothing or a part of the
\* document has been written, <path>.tmp is left behind as it is.
GiveUp(w) ==
  /\ \/ UNCHANGED data
     \/ fd[w] # NoFile /\ data' = [data EXCEPT ![fd[w]] = Torn(@.size)]
  /\ fd' = [fd EXCEPT ![w] = NoFile]
  /\ UNCHANGED <<path, tmp>>

\* os.Rename: <path> now stands for the temporary file, the replaced file is
\* gone. It fails with ENOENT when another writer has renamed the file away.
RenameSucceeds == tmp # NoFile

RenameTmp ==
  IF RenameSucceeds
  THEN /\ path' = tmp
       /\ tmp' = NoFile
       /\ data' = IF path = NoFile THEN data ELSE [data EXCEPT ![path] = Empty]
       /\ UNCHANGED fd
  ELSE UNCHANGED fileVars

\* The process dies: its descriptors are closed, the directory stays.
CloseAll ==
  /\ fd' = [w \in Writers |-> NoFile]
  /\ UNCHANGED <<path, tmp, data>>

\* What reading <path> gives: nothing there, a document, or a parse error.
Present     == path # NoFile /\ data[path].kind = "whole"
Readable    == path = NoFile \/ Present
Stored(new) == IF Present THEN data[path].doc ELSE new
=============================================================================
