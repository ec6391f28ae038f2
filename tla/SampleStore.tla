---------------------------- MODULE SampleStore ----------------------------
(***************************************************************************)
(* The history of samples (internal/store): the in-memory store of the     *)
(* default build and the SQLite store of the release build, side by side   *)
(* on the same calls, with the time ranges the API asks them for           *)
(* (internal/api/api.go, parseRange).                                      *)
(*                                                                         *)
(* A sample carries the wall-clock time at which gather started; it is     *)
(* saved when gather and the sinks before have run. The clock counts       *)
(* fractions of a second, SQLite and the API whole seconds. The clock may  *)
(* be set back once; time.Now().UTC() has no monotonic reading to protect  *)
(* the timestamps from that. A save or a query is one step: the memory     *)
(* store holds its mutex, and SQLite has a single connection. Nothing      *)
(* prunes: ApplyRetention has no caller. Rows of one second come in the    *)
(* order of their ids, as the index on timestamp has them.                 *)
(***************************************************************************)
EXTENDS Integers, Sequences, SequencesExt

CONSTANTS
  Second,       \* clock units in a second
  Hour,         \* length of the default range, in clock units
  Capacity,     \* MemoryStore.MaxSamples (100 000 in newStore)
  None,         \* no sample in the making, no sample to show, no parameter
  MaxTime,      \* bound on the clock
  MaxGathered   \* bound on samples

ASSUME SecondAssumption   == Second \in Nat \ {0}
ASSUME HourAssumption     == Hour \in Nat
ASSUME CapacityAssumption == Capacity \in Nat \ {0}
ASSUME NoneAssumption     == None \notin Int

VARIABLES
  now,          \* the wall clock
  gathering,    \* timestamp of the sample in the making
  samples,      \* MemoryStore.samples
  rows,         \* the SQLite table, in the order of its ids
  \* history variables
  stamps,       \* timestamps of all samples saved, over all runs
  session,      \* number of samples saved before this run of the process
  setBack       \* the clock has been set back

vars == <<now, gathering, samples, rows, stamps, session, setBack>>

Unix(t) == t \div Second

TypeOK ==
  /\ now \in Nat
  /\ gathering \in Nat \cup {None}
  /\ samples \in Seq([id : Nat \ {0}, at : Nat]) /\ Len(samples) <= Capacity
  /\ rows \in Seq([id : Nat \ {0}, second : Nat])
  /\ stamps \in Seq(Nat)
  /\ session \in 0..Len(stamps)
  /\ setBack \in BOOLEAN

Init ==
  /\ now = 0
  /\ gathering = None
  /\ samples = <<>> /\ rows = <<>>
  /\ stamps = <<>> /\ session = 0
  /\ setBack = FALSE

-----------------------------------------------------------------------------
(* Saving                                                                  *)

Gather ==
  /\ gathering = None
  /\ Len(stamps) < MaxGathered
  /\ gathering' = now
  /\ UNCHANGED <<now, samples, rows, stamps, session, setBack>>

\* Mutant: the cap is not enforced.
EvictNone(s) == s

\* The oldest samples make room.
Evict(s) ==
  IF Len(s) > Capacity THEN SubSeq(s, Len(s) - Capacity + 1, Len(s)) ELSE s

\* Mutant: the timestamp is the key of the table.
InsertedBySecond(row) == Append(SelectSeq(rows, LAMBDA r : r.second # row.second), row)

\* A row with an id of its own.
Inserted(row) == Append(rows, row)

\* The sink saves the sample. SQLite may fail or exceed the sink's five
\* seconds: the error is logged and the sample is not in the table.
SaveSample(ok) ==
  /\ gathering # None
  /\ LET id == Len(stamps) + 1
     IN /\ samples' = Evict(Append(samples, [id |-> id, at |-> gathering]))
        /\ rows' = IF ok THEN Inserted([id |-> id, second |-> Unix(gathering)]) ELSE rows
  /\ stamps' = Append(stamps, gathering)
  /\ gathering' = None
  /\ UNCHANGED <<now, session, setBack>>

-----------------------------------------------------------------------------
(* Range queries                                                           *)

\* Mutant: the search stops at the first sample after from.
FirstAfter(from) ==
  LET search[r \in (0..Len(samples)) \X (0..Len(samples))] ==
        LET i == r[1]
            j == r[2]
            h == (i + j) \div 2
        IN IF i >= j THEN i
           ELSE IF samples[h + 1].at <= from THEN search[<<h + 1, j>>] ELSE search[<<i, h>>]
  IN search[<<0, Len(samples)>>]

\* sort.Search: the binary search for the first sample not before from.
FirstNotBefore(from) ==
  LET search[r \in (0..Len(samples)) \X (0..Len(samples))] ==
        LET i == r[1]
            j == r[2]
            h == (i + j) \div 2
        IN IF i >= j THEN i
           ELSE IF samples[h + 1].at < from THEN search[<<h + 1, j>>] ELSE search[<<i, h>>]
  IN search[<<0, Len(samples)>>]

\* From there on, samples are taken until one lies after to.
MemoryRange(from, to) ==
  LET tail == SubSeq(samples, FirstNotBefore(from) + 1, Len(samples))
      past == SelectInSeq(tail, LAMBDA s : s.at > to)
  IN IF past = 0 THEN tail ELSE SubSeq(tail, 1, past - 1)

Before(r, s) == r.second < s.second \/ (r.second = s.second /\ r.id < s.id)

\* ORDER BY: the place of a row is told by how many come before it.
Place(S, r) == Cardinality({s \in S : Before(s, r)}) + 1
Ascending(S) == [i \in 1..Cardinality(S) |-> CHOOSE r \in S : Place(S, r) = i]

\* Mutant: the upper bound is exclusive.
BetweenExclusive(r, from, to) == Unix(from) <= r.second /\ r.second < Unix(to)

Between(r, from, to) == Unix(from) <= r.second /\ r.second <= Unix(to)

SQLiteRange(from, to) == Ascending({r \in ToSet(rows) : Between(r, from, to)})

\* The range of GET /api/v1/metrics: two unix seconds, each of which may be
\* missing; a range that ends before it starts is refused. (So is a parameter
\* that is no number.)
ParseRange(req) ==
  [from |-> IF req.from = None THEN now - Hour ELSE req.from * Second,
   to   |-> IF req.to = None THEN now ELSE req.to * Second]

Refused(range) == range.from > range.to

-----------------------------------------------------------------------------
(* The latest sample, for GET /api/v1/latest and /api/v1/services; None is *)
(* answered with 404 by the one and with an empty list by the other.       *)

MemoryLatest == IF samples = <<>> THEN None ELSE Last(samples).id

\* Mutant: the oldest row of the newest second is taken.
OldestOfNewest(r) == \A s \in ToSet(rows) \ {r} :
  s.second < r.second \/ (s.second = r.second /\ r.id < s.id)

Newest(r) == \A s \in ToSet(rows) \ {r} : Before(s, r)

SQLiteLatest ==
  IF rows = <<>> THEN None ELSE (CHOOSE r \in ToSet(rows) : Newest(r)).id

-----------------------------------------------------------------------------
(* The process and the clock                                               *)

\* OpenSQLiteStore creates the table only if it does not exist.
OpenTable == rows

\* The process ends, or is killed, and is started again.
Restart ==
  /\ gathering # None \/ samples # <<>>
  /\ gathering' = None
  /\ samples' = <<>>
  /\ rows' = OpenTable
  /\ session' = Len(stamps)
  /\ UNCHANGED <<now, stamps, setBack>>

Tick ==
  /\ now < MaxTime
  /\ now' = now + 1
  /\ UNCHANGED <<gathering, samples, rows, stamps, session, setBack>>

SetClockBack ==
  /\ ~setBack
  /\ \E t \in 0..(now - 1) : now' = t
  /\ setBack' = TRUE
  /\ UNCHANGED <<gathering, samples, rows, stamps, session>>

Next == Gather \/ (\E ok \in BOOLEAN : SaveSample(ok)) \/ Restart \/ Tick \/ SetClockBack

Spec == Init /\ [][Next]_vars

-----------------------------------------------------------------------------
(* Properties                                                              *)

Seconds == 0..Unix(MaxTime)

\* The ranges the API lets through at this moment.
Ranges ==
  {range \in {ParseRange(req) : req \in [from : Seconds \cup {None}, to : Seconds \cup {None}]} :
     ~Refused(range)}

Ids(answer) == [i \in DOMAIN answer |-> answer[i].id]
InRange(id, range) == range.from <= stamps[id] /\ stamps[id] <= range.to

\* "QueryRange returns all samples with Timestamp in [from, to], ordered by
\* Timestamp ascending": the memory store answers with exactly the samples of
\* this run in the range, of the last Capacity, although it searches and stops
\* early, provided the clock has not been set back.
MemoryAnswers ==
  ~setBack => \A range \in Ranges :
    LET answer == MemoryRange(range.from, range.to)
        kept   == (Max({session, Len(stamps) - Capacity}) + 1)..Len(stamps)
    IN /\ ToSet(Ids(answer)) = {id \in kept : InRange(id, range)}
       /\ \A i, j \in DOMAIN answer : i < j => answer[i].id < answer[j].id

\* The same of the SQLite store, whose rows and bounds are cut to seconds: of
\* what was saved with success, over all runs and whatever the clock did, it
\* returns every sample in the range, in order of their seconds, and beyond
\* the range only samples of the very seconds in which it starts or ends.
SQLiteAnswers ==
  \A range \in Ranges :
    LET answer == SQLiteRange(range.from, range.to)
    IN /\ {id \in ToSet(Ids(rows)) : InRange(id, range)} \subseteq ToSet(Ids(answer))
       /\ \A r \in ToSet(answer) :
            InRange(r.id, range) \/ Unix(stamps[r.id]) \in {Unix(range.from), Unix(range.to)}
       /\ \A i, j \in DOMAIN answer : i < j =>
            Unix(stamps[answer[i].id]) <= Unix(stamps[answer[j].id])

\* "LatestSample returns the most recently saved sample": so does the memory
\* store in each run, and the SQLite store over all runs, also of two samples
\* in one second, as long as the clock has not been set back. (After that it
\* returns the one with the latest timestamp until the clock has caught up.)
LatestIsNewest ==
  /\ MemoryLatest = IF Len(stamps) > session THEN Len(stamps) ELSE None
  /\ ~setBack /\ rows # <<>> => SQLiteLatest = Last(rows).id

\* What a client was told of a range stays true, over saves, failures, restarts
\* and whatever the clock does, but for the one sample in the making: it may
\* still come, into the ranges that its own second is in. As long as the clock
\* has not been set back it comes last, so that a client who has seen a range
\* up to some sample misses nothing by asking on from there.
AnswersOnlyGrow ==
  [][\A from, to \in Seconds :
       LET asked == SQLiteRange(from * Second, to * Second)
           late  == [id |-> Len(stamps) + 1, second |-> Unix(gathering)]
       IN asked' # asked =>
            /\ gathering # None /\ late.second \in from..to
            /\ IF setBack THEN ToSet(asked') = ToSet(asked) \cup {late}
               ELSE asked' = Append(asked, late)]_vars
=============================================================================
