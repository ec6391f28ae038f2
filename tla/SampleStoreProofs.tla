------------------------- MODULE SampleStoreProofs -------------------------
(***************************************************************************)
(* Proofs about SampleStore for any number of samples, any capacity and    *)
(* any clock.                                                              *)
(***************************************************************************)
EXTENDS SampleStore, FunctionTheorems, FiniteSetTheorems, SequenceTheorems,
        WellFoundedInduction, TLAPS

Entries == [id : Nat \ {0}, at : Nat]
Rows    == [id : Nat \ {0}, second : Nat]

\* The table has samples saved, in the order in which they were.
RowsInv ==
  /\ \A i \in DOMAIN rows :
       rows[i].id \in DOMAIN stamps /\ rows[i].second = Unix(stamps[rows[i].id])
  /\ \A i, j \in DOMAIN rows : i < j => rows[i].id < rows[j].id

\* The memory store has the last samples of this run.
SamplesInv ==
  /\ Len(samples) <= Len(stamps) - session
  /\ Len(samples) = Capacity \/ Len(samples) = Len(stamps) - session
  /\ \A i \in DOMAIN samples :
       /\ samples[i].id = Len(stamps) - Len(samples) + i
       /\ samples[i].at = stamps[samples[i].id]

\* As long as the clock has not been set back, no timestamp comes before another
\* one of a sample saved later.
ClockInv ==
  ~setBack =>
    /\ gathering # None => gathering <= now
    /\ \A i \in DOMAIN stamps :
         stamps[i] <= IF gathering = None THEN now ELSE gathering
    /\ \A i, j \in DOMAIN stamps : i < j => stamps[i] <= stamps[j]

IInv == TypeOK /\ RowsInv /\ SamplesInv /\ ClockInv

-----------------------------------------------------------------------------
(* Seconds and sequences                                                   *)

\* Cutting timestamps to seconds keeps their order.
LEMMA UnixFacts ==
  ASSUME NEW t \in Nat, NEW u \in Nat
  PROVE  Unix(t) \in Nat /\ (t <= u => Unix(t) <= Unix(u))
BY SecondAssumption DEF Unix

\* A sequence is made longer by one element.
LEMMA AppendFacts ==
  ASSUME NEW S, NEW s \in Seq(S), NEW e \in S
  PROVE  /\ Append(s, e) \in Seq(S) /\ Append(s, e) # <<>>
         /\ Len(s) \in Nat /\ DOMAIN s = 1..Len(s)
         /\ Len(Append(s, e)) = Len(s) + 1 /\ DOMAIN Append(s, e) = 1..(Len(s) + 1)
         /\ \A i \in 1..Len(s) : Append(s, e)[i] = s[i]
         /\ Append(s, e)[Len(s) + 1] = e
<1>1. /\ Append(s, e) \in Seq(S) /\ Append(s, e) # <<>>
      /\ Len(s) \in Nat /\ DOMAIN s = 1..Len(s)
      /\ Len(Append(s, e)) = Len(s) + 1
      /\ \A i \in 1..Len(s) : Append(s, e)[i] = s[i]
      /\ Append(s, e)[Len(s) + 1] = e
  BY AppendProperties, LenProperties
<1>2. DOMAIN Append(s, e) = 1..Len(Append(s, e))
  BY <1>1, LenProperties
<1> QED
  BY <1>1, <1>2

\* The cap takes away what is before the last Capacity elements.
LEMMA EvictFacts ==
  ASSUME NEW S, NEW s \in Seq(S)
  PROVE  /\ Evict(s) \in Seq(S) /\ Len(s) \in Nat
         /\ Len(Evict(s)) = IF Len(s) > Capacity THEN Capacity ELSE Len(s)
         /\ \A i \in DOMAIN Evict(s) : Evict(s)[i] = s[Len(s) - Len(Evict(s)) + i]
<1>1. PICK n \in Nat, c \in Nat \ {0} : n = Len(s) /\ DOMAIN s = 1..n /\ c = Capacity
  BY LenProperties, CapacityAssumption
<1>2. CASE n <= c
  <2>1. Evict(s) = s /\ Len(Evict(s)) = n /\ DOMAIN Evict(s) = 1..n
    BY <1>1, <1>2 DEF Evict
  <2>2. \A i \in DOMAIN Evict(s) : n - n + i = i
    BY <2>1
  <2> QED
    BY <1>1, <1>2, <2>1, <2>2
<1>3. CASE n > c
  <2>1. Evict(s) = SubSeq(s, n - c + 1, n)
    BY <1>1, <1>3 DEF Evict
  <2>2. \A i \in (n - c + 1)..n : s[i] \in S
    <3>1. \A i \in (n - c + 1)..n : i \in 1..n
      BY <1>1, <1>3
    <3> QED
      BY <1>1, <3>1, ElementOfSeq
  <2>3. /\ Evict(s) \in Seq(S) /\ Len(Evict(s)) = n - (n - c + 1) + 1
        /\ \A i \in 1..(n - (n - c + 1) + 1) : Evict(s)[i] = s[(n - c + 1) + i - 1]
    <3>1. n - c + 1 \in Int /\ n - c + 1 <= n
      BY <1>3
    <3> QED
      BY <2>1, <2>2, <3>1, SubSeqProperties
  <2>4. Len(Evict(s)) = c /\ DOMAIN Evict(s) = 1..c
    BY <2>3, LenProperties
  <2>5. \A i \in 1..c : Evict(s)[i] = s[n - c + i]
    BY <2>3
  <2> QED
    BY <1>1, <1>3, <2>3, <2>4, <2>5
<1> QED
  BY <1>1, <1>2, <1>3

-----------------------------------------------------------------------------
(* The invariants                                                          *)

\* A new process, without a table.
LEMMA InvInit == Init => IInv
<1> SUFFICES ASSUME Init PROVE IInv
  OBVIOUS
<1>1. /\ Len(samples) = 0 /\ Len(stamps) = 0 /\ DOMAIN samples = {}
      /\ DOMAIN rows = {} /\ DOMAIN stamps = {}
  BY DEF Init
<1>2. /\ samples \in Seq(Entries) /\ rows \in Seq(Rows) /\ stamps \in Seq(Nat)
  BY EmptySeq DEF Init
<1>3. TypeOK
  <2>1. 0 <= Capacity /\ 0 \in 0..0
    BY CapacityAssumption
  <2>2. Len(samples) <= Capacity /\ session \in 0..Len(stamps)
    BY <1>1, <2>1 DEF Init
  <2> QED
    BY <1>2, <2>2 DEF Init, TypeOK, Entries, Rows
<1>4. RowsInv /\ SamplesInv /\ ClockInv
  BY <1>1 DEF Init, RowsInv, SamplesInv, ClockInv
<1> QED
  BY <1>3, <1>4 DEF IInv

\* What saving a sample adds.
LEMMA SaveFacts ==
  ASSUME TypeOK, NEW ok \in BOOLEAN, SaveSample(ok)
  PROVE  \E n \in Nat, t \in Nat :
           /\ n = Len(stamps) /\ DOMAIN stamps = 1..n /\ t = gathering
           /\ stamps' \in Seq(Nat) /\ Len(stamps') = n + 1 /\ DOMAIN stamps' = 1..(n + 1)
           /\ \A i \in 1..n : stamps'[i] = stamps[i]
           /\ stamps'[n + 1] = t
           /\ gathering' = None
           /\ UNCHANGED <<now, session, setBack>>
<1>1. PICK t \in Nat : t = gathering /\ stamps' = Append(stamps, t)
  BY DEF TypeOK, SaveSample
<1>2. PICK s \in Seq(Nat) : s = stamps
  BY DEF TypeOK
<1>3. stamps' = Append(s, t)
  BY <1>1, <1>2
<1>4. /\ stamps' \in Seq(Nat) /\ Len(s) \in Nat /\ DOMAIN s = 1..Len(s)
      /\ Len(stamps') = Len(s) + 1 /\ DOMAIN stamps' = 1..(Len(s) + 1)
      /\ \A i \in 1..Len(s) : stamps'[i] = s[i]
      /\ stamps'[Len(s) + 1] = t
  BY <1>3, AppendFacts
<1>5. gathering' = None /\ UNCHANGED <<now, session, setBack>>
  BY DEF SaveSample
<1> QED
  BY <1>1, <1>2, <1>4, <1>5

\* The row it adds, unless SQLite fails.
LEMMA RowFacts ==
  ASSUME TypeOK, NEW ok \in BOOLEAN, SaveSample(ok)
  PROVE  /\ rows' \in Seq(Rows)
         /\ \/ UNCHANGED rows
            \/ \E m \in Nat :
                 /\ m = Len(rows) /\ DOMAIN rows = 1..m
                 /\ rows' # <<>> /\ Len(rows') = m + 1 /\ DOMAIN rows' = 1..(m + 1)
                 /\ \A i \in 1..m : rows'[i] = rows[i]
                 /\ rows'[m + 1] = [id |-> Len(stamps) + 1, second |-> Unix(gathering)]
<1>1. PICK r \in Seq(Rows) : r = rows
  BY DEF TypeOK, Rows
<1>2. CASE ~ok
  BY <1>1, <1>2 DEF SaveSample
<1>3. CASE ok
  <2>1. PICK n \in Nat, t \in Nat : n = Len(stamps) /\ t = gathering
    BY SaveFacts
  <2>2. n + 1 \in Nat \ {0} /\ Unix(t) \in Nat
    BY UnixFacts
  <2>3. PICK e \in Rows : e = [id |-> n + 1, second |-> Unix(t)]
    BY <2>2 DEF Rows
  <2>4. rows' = Append(r, e)
    BY <1>1, <1>3, <2>1, <2>3 DEF SaveSample, Inserted
  <2>5. /\ rows' \in Seq(Rows) /\ rows' # <<>>
        /\ Len(r) \in Nat /\ DOMAIN r = 1..Len(r)
        /\ Len(rows') = Len(r) + 1 /\ DOMAIN rows' = 1..(Len(r) + 1)
        /\ \A i \in 1..Len(r) : rows'[i] = r[i]
        /\ rows'[Len(r) + 1] = e
    BY <2>4, AppendFacts
  <2> QED
    BY <1>1, <2>1, <2>3, <2>5
<1> QED
  BY <1>2, <1>3

\* The entry it adds in memory, where older ones make room.
LEMMA EntryFacts ==
  ASSUME TypeOK, SamplesInv, NEW ok \in BOOLEAN, SaveSample(ok)
  PROVE  \E k \in Nat :
           /\ samples' \in Seq(Entries) /\ k = Len(samples') /\ DOMAIN samples' = 1..k
           /\ k <= Capacity
           /\ k = IF Len(samples) + 1 > Capacity THEN Capacity ELSE Len(samples) + 1
           /\ \A i \in 1..k :
                /\ samples'[i].id = Len(stamps) + 1 - k + i
                /\ samples'[i].at =
                     IF i = k THEN gathering ELSE stamps[Len(stamps) + 1 - k + i]
<1>1. PICK n \in Nat, t \in Nat : n = Len(stamps) /\ t = gathering
  BY SaveFacts
<1>2. PICK s \in Seq(Entries) : s = samples
  BY DEF TypeOK, Entries
<1>3. PICK m \in Nat : m = Len(s) /\ DOMAIN s = 1..m
  BY LenProperties
<1>4. PICK e \in Entries : e = [id |-> n + 1, at |-> t]
  <2>1. n + 1 \in Nat \ {0}
    OBVIOUS
  <2> QED
    BY <2>1 DEF Entries
<1>5. PICK a \in Seq(Entries) :
        /\ a = Append(s, e) /\ Len(a) = m + 1 /\ DOMAIN a = 1..(m + 1)
        /\ \A i \in 1..m : a[i] = s[i]
        /\ a[m + 1] = e
  <2>1. PICK a : a = Append(s, e)
    OBVIOUS
  <2>2. /\ Append(s, e) \in Seq(Entries) /\ Len(Append(s, e)) = Len(s) + 1
        /\ DOMAIN Append(s, e) = 1..(Len(s) + 1)
        /\ \A i \in 1..Len(s) : Append(s, e)[i] = s[i]
        /\ Append(s, e)[Len(s) + 1] = e
    BY AppendFacts
  <2>3. /\ a \in Seq(Entries) /\ Len(a) = m + 1 /\ DOMAIN a = 1..(m + 1)
        /\ \A i \in 1..m : a[i] = s[i]
        /\ a[m + 1] = e
    BY <1>3, <2>1, <2>2, Zenon
  <2> QED
    BY <2>1, <2>3, Zenon
<1>6. samples' = Evict(a)
  BY <1>1, <1>2, <1>4, <1>5 DEF SaveSample
<1>7. PICK k \in Nat, c \in Nat \ {0} :
        /\ samples' \in Seq(Entries) /\ k = Len(samples') /\ DOMAIN samples' = 1..k
        /\ c = Capacity /\ k = IF m + 1 > c THEN c ELSE m + 1
        /\ \A i \in 1..k : samples'[i] = a[m + 1 - k + i]
  <2>1. /\ samples' \in Seq(Entries)
        /\ Len(samples') = IF Len(a) > Capacity THEN Capacity ELSE Len(a)
        /\ \A i \in DOMAIN samples' : samples'[i] = a[Len(a) - Len(samples') + i]
    BY <1>6, EvictFacts
  <2>2. PICK k \in Nat : k = Len(samples') /\ DOMAIN samples' = 1..k
    BY <2>1, LenProperties
  <2>3. PICK c \in Nat \ {0} : c = Capacity
    BY CapacityAssumption
  <2>4. k = IF m + 1 > c THEN c ELSE m + 1
    BY <1>5, <2>1, <2>2, <2>3
  <2>5. ASSUME NEW i \in 1..k PROVE samples'[i] = a[m + 1 - k + i]
    <3>1. i \in DOMAIN samples' /\ Len(a) = m + 1 /\ Len(samples') = k
      BY <1>5, <2>2
    <3>2. PICK p : p = Len(a) - Len(samples') + i
      OBVIOUS
    <3>3. samples'[i] = a[p]
      BY <2>1, <3>1, <3>2, Zenon
    <3>4. p = m + 1 - k + i
      BY <3>1, <3>2
    <3> QED
      BY <3>3, <3>4
  <2> QED
    BY <2>1, <2>2, <2>3, <2>4, <2>5
<1>8. ASSUME NEW i \in 1..k
      PROVE  /\ samples'[i].id = n + 1 - k + i
             /\ samples'[i].at = IF i = k THEN t ELSE stamps[n + 1 - k + i]
  <2>1. CASE i = k
    <3>0. m + 1 - k + i = m + 1
      BY <2>1
    <3>1. samples'[i] = e
      BY <1>5, <1>7, <3>0
    <3> QED
      BY <1>4, <2>1, <3>1
  <2>2. CASE i # k
    <3>1. m + 1 - k + i \in 1..m
      BY <1>7, <2>2
    <3>2. samples'[i] = samples[m + 1 - k + i]
      BY <1>2, <1>5, <1>7, <3>1
    <3>3. /\ samples[m + 1 - k + i].id = n - m + (m + 1 - k + i)
          /\ samples[m + 1 - k + i].at = stamps[samples[m + 1 - k + i].id]
      BY <1>1, <1>2, <1>3, <3>1 DEF SamplesInv
    <3>4. n - m + (m + 1 - k + i) = n + 1 - k + i
      OBVIOUS
    <3> QED
      BY <2>2, <3>2, <3>3, <3>4
  <2> QED
    BY <2>1, <2>2
<1>9. k <= Capacity /\ k = IF Len(samples) + 1 > Capacity THEN Capacity ELSE Len(samples) + 1
  BY <1>2, <1>3, <1>7
<1> QED
  BY <1>1, <1>7, <1>8, <1>9

\* Every step keeps the types.
LEMMA TypeStep ==
  ASSUME TypeOK, SamplesInv, [Next]_vars
  PROVE  TypeOK'
<1>1. CASE UNCHANGED vars
  BY <1>1 DEF vars, TypeOK
<1>2. CASE Gather
  BY <1>2 DEF Gather, TypeOK
<1>3. ASSUME NEW ok \in BOOLEAN, SaveSample(ok) PROVE TypeOK'
  <2>1. /\ stamps' \in Seq(Nat) /\ Len(stamps') = Len(stamps) + 1 /\ Len(stamps) \in Nat
        /\ gathering' = None /\ UNCHANGED <<now, session, setBack>>
    BY <1>3, SaveFacts
  <2>2. rows' \in Seq(Rows)
    BY <1>3, RowFacts
  <2>3. samples' \in Seq(Entries) /\ Len(samples') <= Capacity
    BY <1>3, EntryFacts
  <2>4. session' \in 0..Len(stamps')
    BY <2>1 DEF TypeOK
  <2> QED
    BY <2>1, <2>2, <2>3, <2>4 DEF TypeOK, Entries, Rows
<1>4. CASE Restart
  <2>1. /\ UNCHANGED <<now, stamps, rows, setBack>> /\ gathering' = None
        /\ session' = Len(stamps) /\ samples' = <<>>
    BY <1>4 DEF Restart, OpenTable
  <2>2. samples' \in Seq(Entries) /\ Len(samples') = 0
    BY <2>1, EmptySeq
  <2>3. Len(samples') <= Capacity
    BY <2>2, CapacityAssumption
  <2>4. session' \in 0..Len(stamps')
    <3>1. PICK n \in Nat : n = Len(stamps)
      BY LenProperties DEF TypeOK
    <3>2. n \in 0..n
      OBVIOUS
    <3> QED
      BY <2>1, <3>1, <3>2
  <2> QED
    BY <2>1, <2>2, <2>3, <2>4 DEF TypeOK, Entries
<1>5. CASE Tick
  BY <1>5 DEF Tick, TypeOK
<1>6. CASE SetClockBack
  BY <1>6 DEF SetClockBack, TypeOK
<1> QED
  BY <1>1, <1>2, <1>3, <1>4, <1>5, <1>6 DEF Next

\* Rows stay those of the samples they were saved for.
LEMMA RowsStep ==
  ASSUME TypeOK, RowsInv, [Next]_vars
  PROVE  RowsInv'
<1>1. CASE UNCHANGED <<rows, stamps>>
  BY <1>1 DEF RowsInv
<1>2. ASSUME NEW ok \in BOOLEAN, SaveSample(ok) PROVE RowsInv'
  <2>1. PICK n \in Nat, t \in Nat :
          /\ n = Len(stamps) /\ DOMAIN stamps = 1..n /\ t = gathering
          /\ DOMAIN stamps' = 1..(n + 1)
          /\ \A i \in 1..n : stamps'[i] = stamps[i]
          /\ stamps'[n + 1] = t
    BY <1>2, SaveFacts
  <2>2. ASSUME NEW i \in DOMAIN rows
        PROVE  /\ rows[i].id \in 1..n /\ rows[i].id \in DOMAIN stamps'
               /\ rows[i].second = Unix(stamps'[rows[i].id])
    <3>1. rows[i].id \in 1..n /\ rows[i].second = Unix(stamps[rows[i].id])
      BY <2>1 DEF RowsInv
    <3>2. stamps'[rows[i].id] = stamps[rows[i].id] /\ rows[i].id \in 1..(n + 1)
      BY <2>1, <3>1
    <3> QED
      BY <2>1, <3>1, <3>2
  <2>3. CASE UNCHANGED rows
    BY <2>2, <2>3 DEF RowsInv
  <2>4. ASSUME NEW m \in Nat, DOMAIN rows = 1..m, DOMAIN rows' = 1..(m + 1),
               \A i \in 1..m : rows'[i] = rows[i],
               rows'[m + 1] = [id |-> Len(stamps) + 1, second |-> Unix(gathering)]
        PROVE  RowsInv'
    <3>1. rows'[m + 1].id = n + 1 /\ rows'[m + 1].second = Unix(stamps'[n + 1])
      BY <2>1, <2>4
    <3>2. ASSUME NEW i \in DOMAIN rows'
          PROVE  /\ rows'[i].id \in DOMAIN stamps'
                 /\ rows'[i].second = Unix(stamps'[rows'[i].id])
      <4>1. CASE i \in 1..m
        BY <2>2, <2>4, <4>1
      <4>2. CASE i = m + 1
        BY <2>1, <3>1, <4>2
      <4> QED
        BY <2>4, <4>1, <4>2
    <3>3. ASSUME NEW i \in DOMAIN rows', NEW j \in DOMAIN rows', i < j
          PROVE  rows'[i].id < rows'[j].id
      <4>1. i \in 1..m /\ rows'[i] = rows[i] /\ rows[i].id \in 1..n
        BY <2>2, <2>4, <3>3
      <4>2. CASE j \in 1..m
        BY <2>4, <3>3, <4>1, <4>2 DEF RowsInv
      <4>3. CASE j = m + 1
        BY <3>1, <4>1, <4>3
      <4> QED
        BY <2>4, <4>2, <4>3
    <3> QED
      BY <3>2, <3>3 DEF RowsInv
  <2> QED
    BY <1>2, <2>3, <2>4, RowFacts
<1> QED
  BY <1>1, <1>2 DEF Next, vars, Gather, Restart, OpenTable, Tick, SetClockBack

\* The memory store keeps the last samples of this run.
LEMMA SamplesStep ==
  ASSUME TypeOK, SamplesInv, [Next]_vars
  PROVE  SamplesInv'
<1>1. CASE UNCHANGED <<samples, stamps, session>>
  BY <1>1 DEF SamplesInv
<1>2. ASSUME NEW ok \in BOOLEAN, SaveSample(ok) PROVE SamplesInv'
  <2>1. PICK n \in Nat, t \in Nat :
          /\ n = Len(stamps) /\ DOMAIN stamps = 1..n /\ t = gathering
          /\ Len(stamps') = n + 1
          /\ \A i \in 1..n : stamps'[i] = stamps[i]
          /\ stamps'[n + 1] = t
          /\ UNCHANGED session
    BY <1>2, SaveFacts
  <2>2. PICK k \in Nat :
          /\ k = Len(samples') /\ DOMAIN samples' = 1..k
          /\ k = IF Len(samples) + 1 > Capacity THEN Capacity ELSE Len(samples) + 1
          /\ \A i \in 1..k :
               /\ samples'[i].id = n + 1 - k + i
               /\ samples'[i].at = IF i = k THEN t ELSE stamps[n + 1 - k + i]
    <3>1. PICK k \in Nat :
             /\ k = Len(samples') /\ DOMAIN samples' = 1..k
             /\ k = IF Len(samples) + 1 > Capacity THEN Capacity ELSE Len(samples) + 1
             /\ \A i \in 1..k :
                  /\ samples'[i].id = Len(stamps) + 1 - k + i
                  /\ samples'[i].at =
                       IF i = k THEN gathering ELSE stamps[Len(stamps) + 1 - k + i]
      BY <1>2, EntryFacts, Zenon
    <3>2. \A i \in 1..k :
             /\ samples'[i].id = n + 1 - k + i
             /\ samples'[i].at = IF i = k THEN t ELSE stamps[n + 1 - k + i]
      BY <2>1, <3>1
    <3> QED
      BY <3>1, <3>2, Zenon
  <2>3. PICK m \in Nat, c \in Nat, s \in 0..n :
          /\ m = Len(samples) /\ c = Capacity /\ s = session
          /\ m <= c /\ m <= n - s /\ (m = c \/ m = n - s)
    BY <2>1, LenProperties, CapacityAssumption DEF SamplesInv, TypeOK
  <2>4. k <= n + 1 - s /\ (k = c \/ k = n + 1 - s)
    BY <2>2, <2>3
  <2>5. ASSUME NEW i \in 1..k
        PROVE  /\ samples'[i].id = n + 1 - k + i
               /\ samples'[i].at = stamps'[samples'[i].id]
    <3>1. CASE i = k
      <4>1. samples'[i].id = n + 1 - k + i /\ samples'[i].at = t
        BY <2>2, <3>1
      <4>2. n + 1 - k + i = n + 1
        BY <3>1
      <4> QED
        BY <2>1, <4>1, <4>2
    <3>2. CASE i # k
      <4>1. n + 1 - k + i \in 1..n
        BY <2>3, <2>4, <3>2
      <4> QED
        BY <2>1, <2>2, <3>2, <4>1
    <3> QED
      BY <3>1, <3>2
  <2>6. \A i \in DOMAIN samples' :
          /\ samples'[i].id = Len(stamps') - Len(samples') + i
          /\ samples'[i].at = stamps'[samples'[i].id]
    <3>1. Len(stamps') - Len(samples') = n + 1 - k
      BY <2>1, <2>2
    <3> QED
      BY <2>2, <2>5, <3>1
  <2>7. /\ Len(samples') <= Len(stamps') - session'
        /\ Len(samples') = Capacity \/ Len(samples') = Len(stamps') - session'
    BY <2>1, <2>2, <2>3, <2>4
  <2> QED
    BY <2>6, <2>7 DEF SamplesInv
<1>3. CASE Restart
  <2>1. samples' = <<>> /\ session' = Len(stamps) /\ UNCHANGED stamps
    BY <1>3 DEF Restart
  <2>2. Len(samples') = 0 /\ DOMAIN samples' = {}
    BY <2>1
  <2>3. Len(stamps') - session' = 0
    BY <2>1, LenProperties DEF TypeOK
  <2> QED
    BY <2>2, <2>3 DEF SamplesInv
<1> QED
  BY <1>1, <1>2, <1>3 DEF Next, vars, Gather, Tick, SetClockBack

\* Timestamps follow the clock, which only goes forward unless it is set back.
LEMMA ClockStep ==
  ASSUME TypeOK, ClockInv, [Next]_vars
  PROVE  ClockInv'
<1>1. CASE UNCHANGED <<now, gathering, stamps, setBack>>
  BY <1>1 DEF ClockInv
<1>2. DOMAIN stamps \subseteq Nat /\ \A i \in DOMAIN stamps : stamps[i] \in Nat
  BY LenProperties, ElementOfSeq DEF TypeOK
<1>3. CASE Gather
  <2>1. gathering = None /\ gathering' = now /\ now \in Nat /\ UNCHANGED <<now, stamps, setBack>>
    BY <1>3 DEF Gather, TypeOK
  <2> QED
    BY <1>2, <2>1, NoneAssumption DEF ClockInv
<1>4. ASSUME NEW ok \in BOOLEAN, SaveSample(ok) PROVE ClockInv'
  <2>1. PICK n \in Nat, t \in Nat :
          /\ n = Len(stamps) /\ DOMAIN stamps = 1..n /\ t = gathering
          /\ DOMAIN stamps' = 1..(n + 1)
          /\ \A i \in 1..n : stamps'[i] = stamps[i]
          /\ stamps'[n + 1] = t
          /\ gathering' = None
          /\ UNCHANGED <<now, setBack>>
    BY <1>4, SaveFacts
  <2> SUFFICES ASSUME ~setBack PROVE ClockInv'
    BY <2>1 DEF ClockInv
  <2>2. t <= now /\ now \in Nat
    BY <2>1, NoneAssumption DEF ClockInv, TypeOK
  <2>3. \A i \in 1..n : stamps[i] \in Nat /\ stamps[i] <= t
    BY <1>2, <2>1, NoneAssumption DEF ClockInv
  <2>4. \A i \in 1..(n + 1) : stamps'[i] \in Nat /\ stamps'[i] <= t
    BY <2>1, <2>3
  <2>5. \A i \in 1..(n + 1) : stamps'[i] <= now
    BY <2>2, <2>4
  <2>6. ASSUME NEW i \in 1..(n + 1), NEW j \in 1..(n + 1), i < j
        PROVE  stamps'[i] <= stamps'[j]
    <3>1. CASE j = n + 1
      BY <2>1, <2>4, <3>1
    <3>2. CASE j # n + 1
      BY <2>1, <2>6, <3>2 DEF ClockInv
    <3> QED
      BY <3>1, <3>2
  <2> QED
    BY <2>1, <2>5, <2>6 DEF ClockInv
<1>5. CASE Restart
  <2>1. gathering' = None /\ UNCHANGED <<now, stamps, setBack>>
    BY <1>5 DEF Restart
  <2>2. now \in Nat /\ gathering \in Nat \cup {None}
    BY DEF TypeOK
  <2> QED
    BY <1>2, <2>1, <2>2 DEF ClockInv
<1>6. CASE Tick
  <2>1. now' = now + 1 /\ now \in Nat /\ gathering \in Nat \cup {None}
        /\ UNCHANGED <<gathering, stamps, setBack>>
    BY <1>6 DEF Tick, TypeOK
  <2> QED
    BY <1>2, <2>1 DEF ClockInv
<1>7. CASE SetClockBack
  BY <1>7 DEF SetClockBack, ClockInv
<1> QED
  BY <1>1, <1>3, <1>4, <1>5, <1>6, <1>7 DEF Next, vars

\* The invariants hold at the start, and every step keeps them.
LEMMA Invariants == Spec => []IInv
<1>1. IInv /\ [Next]_vars => IInv'
  BY TypeStep, RowsStep, SamplesStep, ClockStep DEF IInv
<1> QED
  BY <1>1, InvInit, PTL DEF Spec

-----------------------------------------------------------------------------
(* What is answered                                                        *)

\* Both stores keep well-formed samples, the memory store no more than Capacity of
\* them (MemoryStore, SQLiteStore), for any capacity and any number of samples.
THEOREM TypeCorrect == Spec => []TypeOK
<1>1. IInv => TypeOK
  BY DEF IInv
<1> QED
  BY <1>1, Invariants, PTL

\* The invariants tell the latest sample of each store.
LEMMA LatestFollows == IInv => LatestIsNewest
<1> SUFFICES ASSUME IInv PROVE LatestIsNewest
  OBVIOUS
<1>0. TypeOK /\ RowsInv /\ SamplesInv /\ ClockInv
  BY DEF IInv
<1>1. MemoryLatest = IF Len(stamps) > session THEN Len(stamps) ELSE None
  <2>1. PICK n \in Nat, k \in Nat, s \in Nat :
          /\ n = Len(stamps) /\ k = Len(samples) /\ DOMAIN samples = 1..k /\ s = session /\ s <= n
          /\ k <= n - s /\ (k = Capacity \/ k = n - s)
    BY <1>0, LenProperties DEF TypeOK, SamplesInv
  <2>2. k = 0 <=> n = s
    BY <2>1, CapacityAssumption
  <2>3. samples = <<>> <=> k = 0
    BY <1>0, <2>1, EmptySeq DEF TypeOK
  <2>4. ASSUME k # 0 PROVE Last(samples).id = n
    <3>1. k \in DOMAIN samples
      BY <2>1, <2>4
    <3>2. samples[k].id = n - k + k
      BY <1>0, <2>1, <3>1 DEF SamplesInv
    <3> QED
      BY <2>1, <3>2 DEF Last
  <2> QED
    BY <2>1, <2>2, <2>3, <2>4 DEF MemoryLatest
<1>2. ASSUME ~setBack, rows # <<>> PROVE SQLiteLatest = Last(rows).id
  <2>1. PICK m \in Nat : m = Len(rows) /\ m >= 1 /\ DOMAIN rows = 1..m
    BY <1>0, <1>2, LenProperties, EmptySeq DEF TypeOK
  <2>2. PICK r : r = Last(rows) /\ r = rows[m] /\ r \in ToSet(rows)
    BY <2>1 DEF Last, ToSet
  <2>3. ASSUME NEW i \in 1..m, i # m PROVE Before(rows[i], r)
    <3>1. i < m /\ m \in 1..m
      BY <2>1, <2>3
    <3>2. PICK a \in DOMAIN stamps, b \in DOMAIN stamps :
            /\ a = rows[i].id /\ b = r.id /\ a < b
            /\ rows[i].second = Unix(stamps[a]) /\ r.second = Unix(stamps[b])
      BY <1>0, <2>1, <2>2, <3>1 DEF RowsInv
    <3>3. stamps[a] \in Nat /\ stamps[b] \in Nat /\ stamps[a] <= stamps[b]
      BY <1>0, <1>2, <3>2, ElementOfSeq, LenProperties DEF TypeOK, ClockInv
    <3>4. /\ Unix(stamps[a]) \in Nat /\ Unix(stamps[b]) \in Nat
          /\ Unix(stamps[a]) <= Unix(stamps[b])
      BY <3>3, UnixFacts
    <3>5. rows[i].second < r.second \/ rows[i].second = r.second
      BY <3>2, <3>4
    <3> QED
      BY <3>2, <3>5 DEF Before
  <2>4. Newest(r)
    BY <2>1, <2>2, <2>3 DEF Newest, ToSet
  <2>5. ASSUME NEW q \in ToSet(rows), Newest(q) PROVE q = r
    <3>0. \A i \in 1..m : rows[i] \in Rows
      BY <1>0, <2>1, ElementOfSeq DEF TypeOK, Rows
    <3>1. \A s \in ToSet(rows) : s.second \in Nat /\ s.id \in Nat
      BY <2>1, <3>0 DEF ToSet, Rows
    <3>2. ~ (Before(q, r) /\ Before(r, q))
      BY <2>2, <3>1 DEF Before
    <3> QED
      BY <2>2, <2>4, <2>5, <3>2 DEF Newest
  <2>6. (CHOOSE q \in ToSet(rows) : Newest(q)) = r
    BY <2>2, <2>4, <2>5
  <2> QED
    BY <1>2, <2>2, <2>6 DEF SQLiteLatest
<1> QED
  BY <1>1, <1>2 DEF LatestIsNewest

\* The memory store's latest sample is the last one saved in this run; while the
\* clock is not set back the SQLite store's is the last one in the table, however
\* many samples fall into one second (LatestSample in memory.go and sqlite.go).
THEOREM LatestIsLast == Spec => []LatestIsNewest
BY LatestFollows, Invariants, PTL

-----------------------------------------------------------------------------
(* Binary search                                                           *)

\* Induction on the natural numbers, as a least counterexample.
LEMMA LeastNat ==
  ASSUME NEW T \in SUBSET Nat, T # {}
  PROVE  \E x \in T : \A y \in T : x <= y
<1>1. IsWellFoundedOn(OpToRel(<, Nat), Nat)
  BY NatLessThanWellFounded
<1>2. PICK x \in T : \A y \in T : <<y, x>> \notin OpToRel(<, Nat)
  BY <1>1, WFMin
<1>3. \A y \in T : ~(y < x)
  BY <1>2 DEF OpToRel
<1> QED
  BY <1>3

\* In s, between the places i and j, the elements before from end with the k-th.
Boundary(s, from, i, j, k) ==
  /\ k \in i..j
  /\ \A l \in (i + 1)..k : s[l].at < from
  /\ \A l \in (k + 1)..j : s[l].at >= from

\* A sequence of n entries in the order of their timestamps.
Sorted(s, n) ==
  /\ \A l \in 1..n : s[l].at \in Nat
  /\ \A l, m \in 1..n : l < m => s[l].at <= s[m].at

\* There is such a place.
LEMMA BoundaryExists ==
  ASSUME NEW s, NEW n \in Nat, Sorted(s, n), NEW from \in Int,
         NEW i \in 0..n, NEW j \in 0..n, i <= j
  PROVE  \E k : Boundary(s, from, i, j, k)
<1> DEFINE T == {k \in i..j : k = j \/ s[k + 1].at >= from}
<1>1. T \in SUBSET Nat /\ j \in T
  OBVIOUS
<1>2. PICK k \in T : \A l \in T : k <= l
  BY <1>1, LeastNat
<1>3. ASSUME NEW l \in (i + 1)..k PROVE s[l].at < from
  <2>1. l - 1 \in i..j /\ l - 1 < k /\ l - 1 # j /\ l \in 1..n /\ (l - 1) + 1 = l
    BY <1>3
  <2>2. l - 1 \notin T
    BY <1>2, <2>1
  <2>3. ~(s[l].at >= from)
    BY <2>1, <2>2
  <2> QED
    BY <2>1, <2>3 DEF Sorted
<1>4. ASSUME NEW l \in (k + 1)..j PROVE s[l].at >= from
  <2>1. s[k + 1].at >= from /\ k + 1 \in 1..n /\ l \in 1..n
    BY <1>4
  <2> QED
    BY <2>1, <1>4 DEF Sorted
<1>5. k \in i..j
  OBVIOUS
<1> QED
  BY <1>3, <1>4, <1>5 DEF Boundary

\* There is only one.
LEMMA BoundaryUnique ==
  ASSUME NEW s, NEW n \in Nat, Sorted(s, n), NEW from \in Int,
         NEW i \in 0..n, NEW j \in 0..n, NEW k, NEW l,
         Boundary(s, from, i, j, k), Boundary(s, from, i, j, l)
  PROVE  k = l
<1>1. ASSUME NEW x \in i..j, NEW y \in i..j, x < y,
             Boundary(s, from, i, j, x), Boundary(s, from, i, j, y)
      PROVE  FALSE
  <2>1. x + 1 \in (i + 1)..y /\ x + 1 \in (x + 1)..j /\ x + 1 \in 1..n
    BY <1>1
  <2>2. s[x + 1].at < from /\ s[x + 1].at >= from /\ s[x + 1].at \in Nat
    BY <1>1, <2>1 DEF Boundary, Sorted
  <2> QED
    BY <2>2
<1>2. k \in i..j /\ l \in i..j
  BY DEF Boundary
<1>3. k < l \/ l < k \/ k = l
  BY <1>2
<1> QED
  BY <1>1, <1>2, <1>3

\* What is found in the right one of the two halves is found.
Halves(s, from, n, i, j, h) ==
  /\ h \in i..(j - 1) /\ h \in 0..n /\ h + 1 \in 0..n
  /\ s[h + 1].at < from =>
       \A k : Boundary(s, from, h + 1, j, k) => Boundary(s, from, i, j, k)
  /\ ~(s[h + 1].at < from) =>
       \A k : Boundary(s, from, i, h, k) => Boundary(s, from, i, j, k)

\* Looking in the middle tells in which half it is.
LEMMA Bisection ==
  ASSUME NEW s, NEW n \in Nat, Sorted(s, n), NEW from \in Int,
         NEW i \in 0..n, NEW j \in 0..n, i < j, NEW h, h = (i + j) \div 2
  PROVE  Halves(s, from, n, i, j, h)
<1>1. h \in i..(j - 1) /\ h \in 0..n /\ h + 1 \in 0..n /\ h + 1 \in 1..n
  OBVIOUS
<1>2. ASSUME s[h + 1].at < from, NEW k, Boundary(s, from, h + 1, j, k)
      PROVE  Boundary(s, from, i, j, k)
  <2>1. k \in (h + 1)..j /\ k \in i..j
    BY <1>1, <1>2 DEF Boundary
  <2>2. ASSUME NEW l \in (i + 1)..k PROVE s[l].at < from
    <3>1. CASE l <= h + 1
      <4>1. l \in 1..n
        BY <1>1, <3>1
      <4>2. s[l].at \in Nat /\ s[h + 1].at \in Nat /\ s[l].at <= s[h + 1].at
        BY <1>1, <3>1, <4>1 DEF Sorted
      <4> QED
        BY <1>2, <4>2
    <3>2. CASE ~(l <= h + 1)
      <4>1. l \in (h + 1 + 1)..k
        BY <1>1, <2>1, <3>2
      <4> QED
        BY <1>2, <4>1 DEF Boundary
    <3> QED
      BY <3>1, <3>2
  <2> QED
    BY <1>2, <2>1, <2>2 DEF Boundary
<1>3. ASSUME ~(s[h + 1].at < from), NEW k, Boundary(s, from, i, h, k)
      PROVE  Boundary(s, from, i, j, k)
  <2>1. k \in i..h /\ k \in i..j
    BY <1>1, <1>3 DEF Boundary
  <2>2. ASSUME NEW l \in (k + 1)..j PROVE s[l].at >= from
    <3>1. CASE l >= h + 1
      <4>1. l \in 1..n
        BY <1>1, <2>1, <3>1
      <4>2. s[l].at \in Nat /\ s[h + 1].at \in Nat /\ s[h + 1].at <= s[l].at
        BY <1>1, <3>1, <4>1 DEF Sorted
      <4> QED
        BY <1>3, <4>2
    <3>2. CASE ~(l >= h + 1)
      <4>1. l \in (k + 1)..h
        BY <1>1, <2>1, <3>2
      <4> QED
        BY <1>3, <4>1 DEF Boundary
    <3> QED
      BY <3>1, <3>2
  <2> QED
    BY <1>3, <2>1, <2>2 DEF Boundary
<1> QED
  BY <1>1, <1>2, <1>3 DEF Halves

\* What the binary search of QueryRange computes, as a function of the interval that
\* is left.
Searches(f, s, from, n) ==
  f = [r \in (0..n) \X (0..n) |->
         LET i == r[1]
             j == r[2]
             h == (i + j) \div 2
         IN IF i >= j THEN i
            ELSE IF s[h + 1].at < from THEN f[<<h + 1, j>>] ELSE f[<<i, h>>]]

\* It looks in the middle of an interval and goes on with one of the halves.
Looks(f, s, from, i, j, h) ==
  f[<<i, j>>] = IF i >= j THEN i
                ELSE IF s[h + 1].at < from THEN f[<<h + 1, j>>] ELSE f[<<i, h>>]

\* One step of it.
LEMMA SearchStep ==
  ASSUME NEW s, NEW n \in Nat, NEW from, NEW f, Searches(f, s, from, n),
         NEW i \in 0..n, NEW j \in 0..n, NEW h, h = (i + j) \div 2
  PROVE  Looks(f, s, from, i, j, h)
<1>1. <<i, j>> \in (0..n) \X (0..n) /\ <<i, j>>[1] = i /\ <<i, j>>[2] = j
  OBVIOUS
<1> QED
  BY <1>1, Zenon DEF Searches, Looks

\* A function that finds the place in every interval.
LEMMA PlaceExists ==
  ASSUME NEW s, NEW n \in Nat, Sorted(s, n), NEW from \in Int
  PROVE  \E g : /\ g = [r \in (0..n) \X (0..n) |-> g[r]]
                /\ \A i, j \in 0..n : i > j => g[<<i, j>>] = i
                /\ \A i, j \in 0..n : i <= j => Boundary(s, from, i, j, g[<<i, j>>])
<1> DEFINE There(i, j) == IF i > j THEN i ELSE CHOOSE k : Boundary(s, from, i, j, k)
           g == [r \in (0..n) \X (0..n) |-> There(r[1], r[2])]
<1>1. ASSUME NEW i \in 0..n, NEW j \in 0..n PROVE g[<<i, j>>] = There(i, j)
  <2>1. <<i, j>> \in (0..n) \X (0..n) /\ <<i, j>>[1] = i /\ <<i, j>>[2] = j
    OBVIOUS
  <2> HIDE DEF There
  <2> QED
    BY <2>1, Zenon
<1>2. g = [r \in (0..n) \X (0..n) |-> g[r]]
  <2> HIDE DEF There
  <2> QED
    OBVIOUS
<1>3. ASSUME NEW i \in 0..n, NEW j \in 0..n, i > j PROVE There(i, j) = i
  BY <1>3
<1>4. ASSUME NEW i \in 0..n, NEW j \in 0..n, i <= j PROVE Boundary(s, from, i, j, There(i, j))
  <2>1. \E k : Boundary(s, from, i, j, k)
    BY <1>4, BoundaryExists
  <2>2. There(i, j) = CHOOSE k : Boundary(s, from, i, j, k)
    BY <1>4
  <2> HIDE DEF There
  <2> QED
    BY <2>1, <2>2, Zenon
<1> HIDE DEF g, There
<1>5. \A i, j \in 0..n : i > j => g[<<i, j>>] = i
  BY <1>1, <1>3
<1>6. \A i, j \in 0..n : i <= j => Boundary(s, from, i, j, g[<<i, j>>])
  BY <1>1, <1>4, Zenon
<1> QED
  BY <1>2, <1>5, <1>6, Zenon

\* There is such a search.
LEMMA SearchExists ==
  ASSUME NEW s, NEW n \in Nat, Sorted(s, n), NEW from \in Int
  PROVE  \E f : Searches(f, s, from, n)
<1>1. PICK g : /\ g = [r \in (0..n) \X (0..n) |-> g[r]]
               /\ \A i, j \in 0..n : i > j => g[<<i, j>>] = i
               /\ \A i, j \in 0..n : i <= j => Boundary(s, from, i, j, g[<<i, j>>])
  BY PlaceExists
<1>2. ASSUME NEW i \in 0..n, NEW j \in 0..n, NEW h, h = (i + j) \div 2
      PROVE  g[<<i, j>>] = IF i >= j THEN i
                           ELSE IF s[h + 1].at < from THEN g[<<h + 1, j>>] ELSE g[<<i, h>>]
  <2>1. CASE i > j
    BY <1>1, <2>1
  <2>2. CASE i = j
    <3>1. PICK x : x = g[<<i, j>>]
      OBVIOUS
    <3>2. i <= j
      BY <2>2
    <3>3. Boundary(s, from, i, j, x)
      BY <1>1, <3>1, <3>2, Zenon
    <3>4. x \in i..j
      BY <3>3 DEF Boundary
    <3> QED
      BY <2>2, <3>1, <3>4
  <2>3. CASE i < j
    <3> Halves(s, from, n, i, j, h)
      BY <1>2, <2>3, Bisection, Zenon
    <3>1. h \in i..(j - 1) /\ h \in 0..n /\ h + 1 \in 0..n
      BY Zenon DEF Halves
    <3>2. PICK x, y, z : x = g[<<i, j>>] /\ y = g[<<h + 1, j>>] /\ z = g[<<i, h>>]
      OBVIOUS
    <3>3. Boundary(s, from, i, j, x)
      <4>1. i <= j
        BY <2>3
      <4> QED
        BY <1>1, <3>2, <4>1, Zenon
    <3>4. Boundary(s, from, h + 1, j, y)
      <4>1. h + 1 <= j
        BY <3>1
      <4> QED
        BY <1>1, <3>1, <3>2, <4>1
    <3>5. Boundary(s, from, i, h, z)
      <4>1. i <= h
        BY <3>1
      <4> QED
        BY <1>1, <3>1, <3>2, <4>1
    <3>6. CASE s[h + 1].at < from
      <4>1. Boundary(s, from, i, j, y)
        <5>1. \A k : Boundary(s, from, h + 1, j, k) => Boundary(s, from, i, j, k)
          BY <3>6, Zenon DEF Halves
        <5> QED
          BY <3>4, <5>1
      <4>2. x = y
        BY <3>3, <4>1, BoundaryUnique
      <4> QED
        BY <2>3, <3>2, <3>6, <4>2
    <3>7. CASE ~(s[h + 1].at < from)
      <4>1. Boundary(s, from, i, j, z)
        <5>1. \A k : Boundary(s, from, i, h, k) => Boundary(s, from, i, j, k)
          BY <3>7, Zenon DEF Halves
        <5> QED
          BY <3>5, <5>1
      <4>2. x = z
        BY <3>3, <4>1, BoundaryUnique
      <4> QED
        BY <2>3, <3>2, <3>7, <4>2
    <3> QED
      BY <3>6, <3>7
  <2> QED
    BY <2>1, <2>2, <2>3
<1>3. ASSUME NEW r \in (0..n) \X (0..n)
      PROVE  g[r] = LET i == r[1]
                        j == r[2]
                        h == (i + j) \div 2
                    IN IF i >= j THEN i
                       ELSE IF s[h + 1].at < from THEN g[<<h + 1, j>>] ELSE g[<<i, h>>]
  <2>1. PICK i \in 0..n, j \in 0..n : i = r[1] /\ j = r[2] /\ r = <<i, j>>
    OBVIOUS
  <2>2. PICK h : h = (i + j) \div 2
    OBVIOUS
  <2>3. g[<<i, j>>] = IF i >= j THEN i
                      ELSE IF s[h + 1].at < from THEN g[<<h + 1, j>>] ELSE g[<<i, h>>]
    BY <1>2, <2>2
  <2> QED
    BY <2>1, <2>2, <2>3, Zenon
<1>4. Searches(g, s, from, n)
  BY <1>1, <1>3, Zenon DEF Searches
<1> QED
  BY <1>4, Zenon

\* It finds the place.
LEMMA SearchFinds ==
  ASSUME NEW s, NEW n \in Nat, Sorted(s, n), NEW from \in Int,
         NEW f, Searches(f, s, from, n)
  PROVE  \A i, j \in 0..n : i <= j => Boundary(s, from, i, j, f[<<i, j>>])
<1> DEFINE Right(a, b) == Boundary(s, from, a, b, f[<<a, b>>])
           T == {d \in 0..n : \E a, b \in 0..n : b - a = d /\ ~Right(a, b)}
<1> HIDE DEF Right
<1>1. T = {}
  <2>1. SUFFICES ASSUME T # {} PROVE FALSE
    OBVIOUS
  <2>2. PICK d \in T : \A e \in T : d <= e
    <3>1. T \in SUBSET Nat
      OBVIOUS
    <3> HIDE DEF T
    <3> QED
      BY <2>1, <3>1, LeastNat
  <2>3. PICK a \in 0..n, b \in 0..n : b - a = d /\ ~Right(a, b)
    OBVIOUS
  <2>4. PICK h : h = (a + b) \div 2
    OBVIOUS
  <2>5. f[<<a, b>>] = IF a >= b THEN a
                      ELSE IF s[h + 1].at < from THEN f[<<h + 1, b>>] ELSE f[<<a, h>>]
    <3>1. Looks(f, s, from, a, b, h)
      BY <2>4, SearchStep, Zenon
    <3> QED
      BY <3>1, Zenon DEF Looks
  <2>6. a <= b
    BY <2>3
  <2>7. CASE a = b
    <3>1. f[<<a, b>>] = a
      BY <2>5, <2>7
    <3>2. Right(a, b)
      BY <2>7, <3>1 DEF Boundary, Right
    <3> QED
      BY <2>3, <3>2
  <2>8. CASE a < b
    <3>1. /\ h \in a..(b - 1) /\ h \in 0..n /\ h + 1 \in 0..n
          /\ s[h + 1].at < from =>
               \A k : Boundary(s, from, h + 1, b, k) => Boundary(s, from, a, b, k)
          /\ ~(s[h + 1].at < from) =>
               \A k : Boundary(s, from, a, h, k) => Boundary(s, from, a, b, k)
      <4>1. Halves(s, from, n, a, b, h)
        BY <2>4, <2>8, Bisection, Zenon
      <4> QED
        BY <4>1, Zenon DEF Halves
    <3>2. ASSUME NEW x \in 0..n, NEW y \in 0..n, x <= y, y - x < d PROVE Right(x, y)
      <4>1. y - x \in 0..n /\ d \in 0..n
        BY <3>2
      <4>2. y - x \notin T
        <5> HIDE DEF T
        <5>1. PICK e : e = y - x
          OBVIOUS
        <5>2. e \in Int /\ d \in Int /\ ~(d <= e)
          BY <3>2, <4>1, <5>1
        <5> QED
          BY <2>2, <5>1, <5>2
      <4> QED
        BY <4>1, <4>2
    <3>3. Right(h + 1, b) /\ Right(a, h)
      <4>1. h + 1 <= b /\ b - (h + 1) < d
        BY <2>3, <3>1
      <4>2. a <= h /\ h - a < d
        BY <2>3, <3>1
      <4> QED
        BY <3>1, <3>2, <4>1, <4>2
    <3>4. PICK y, z : y = f[<<h + 1, b>>] /\ z = f[<<a, h>>]
      OBVIOUS
    <3>5. Boundary(s, from, h + 1, b, y) /\ Boundary(s, from, a, h, z)
      BY <3>3, <3>4 DEF Right
    <3>6. CASE s[h + 1].at < from
      <4>1. \A k : Boundary(s, from, h + 1, b, k) => Boundary(s, from, a, b, k)
        BY <3>1, <3>6
      <4>2. f[<<a, b>>] = y
        BY <2>5, <2>8, <3>4, <3>6
      <4> QED
        BY <2>3, <3>5, <4>1, <4>2 DEF Right
    <3>7. CASE ~(s[h + 1].at < from)
      <4>1. \A k : Boundary(s, from, a, h, k) => Boundary(s, from, a, b, k)
        BY <3>1, <3>7
      <4>2. f[<<a, b>>] = z
        BY <2>5, <2>8, <3>4, <3>7
      <4> QED
        BY <2>3, <3>5, <4>1, <4>2 DEF Right
    <3> QED
      BY <3>6, <3>7
  <2> QED
    BY <2>6, <2>7, <2>8
<1>2. ASSUME NEW i \in 0..n, NEW j \in 0..n, i <= j PROVE Right(i, j)
  <2>1. j - i \in 0..n
    BY <1>2
  <2>2. j - i \notin T
    BY <1>1, Zenon
  <2> QED
    BY <2>1, <2>2
<1> QED
  BY <1>2 DEF Right

\* FirstNotBefore tells how many samples lie before a time.
LEMMA FirstNotBeforeFinds ==
  ASSUME NEW n \in Nat, n = Len(samples), Sorted(samples, n), NEW from \in Int
  PROVE  Boundary(samples, from, 0, n, FirstNotBefore(from))
<1>1. FirstNotBefore(from) = (CHOOSE f : Searches(f, samples, from, Len(samples)))[<<0, Len(samples)>>]
  BY Zenon DEF FirstNotBefore, Searches
<1>2. PICK f : f = CHOOSE g : Searches(g, samples, from, n)
  OBVIOUS
<1>3. Searches(f, samples, from, n)
  <2>1. \E g : Searches(g, samples, from, n)
    BY SearchExists
  <2> QED
    BY <1>2, <2>1, Zenon
<1>4. Boundary(samples, from, 0, n, f[<<0, n>>])
  <2>1. 0 \in 0..n /\ n \in 0..n /\ 0 <= n
    OBVIOUS
  <2> QED
    BY <1>3, <2>1, SearchFinds
<1>5. FirstNotBefore(from) = f[<<0, n>>]
  BY <1>1, <1>2, Zenon
<1> QED
  BY <1>4, <1>5, Zenon

-----------------------------------------------------------------------------
(* The answers of the memory store                                         *)

\* The least of some numbers of a range.
LEMMA MinFacts ==
  ASSUME NEW n \in Nat, NEW I \in SUBSET (1..n), I # {}
  PROVE  Min(I) \in I /\ \A i \in I : Min(I) <= i
<1>1. \E x \in I : \A y \in I : x =< y
  <2>1. I \in SUBSET Nat
    OBVIOUS
  <2> QED
    BY <2>1, LeastNat
<1> QED
  BY <1>1, Zenon DEF Min

\* What is left of a position after an offset, and back.
LEMMA Offset == ASSUME NEW k \in Int, NEW l \in Int PROVE l - k \in Int /\ k + (l - k) = l
  OBVIOUS

\* The answer has the samples after the one in place k, up to the one in place e, before
\* the first that lies after to.
Taken(answer, to, k, e, n) ==
  /\ DOMAIN answer = 1..(e - k)
  /\ \A i \in 1..(e - k) : answer[i] = samples[k + i]
  /\ \A l \in (k + 1)..e : ~(samples[l].at > to)
  /\ e < n => samples[e + 1].at > to

\* That is what the memory store takes.
LEMMA RangeTakes ==
  ASSUME NEW n \in Nat, n = Len(samples), samples \in Seq(Entries), NEW from, NEW to \in Int,
         NEW k \in 0..n, k = FirstNotBefore(from)
  PROVE  \E e \in k..n : Taken(MemoryRange(from, to), to, k, e, n)
<1>1. PICK tail : tail = SubSeq(samples, k + 1, n)
  OBVIOUS
<1>2. \A i \in (k + 1)..n : samples[i] \in Entries
  <2>1. \A i \in 1..n : samples[i] \in Entries
    BY ElementOfSeq
  <2> QED
    BY <2>1
<1>3. /\ tail \in Seq(Entries) /\ Len(tail) = n - k
      /\ \A i \in 1..(n - k) : tail[i] = samples[k + i]
  <2>1. /\ tail \in Seq(Entries)
        /\ Len(tail) = IF k + 1 <= n THEN n - (k + 1) + 1 ELSE 0
        /\ \A i \in 1..(n - (k + 1) + 1) : tail[i] = samples[(k + 1) + i - 1]
    BY <1>1, <1>2, SubSeqProperties
  <2>2. n - (k + 1) + 1 = n - k /\ \A i \in 1..(n - k) : (k + 1) + i - 1 = k + i
    OBVIOUS
  <2>3. Len(tail) = n - k
    BY <2>1
  <2>4. ASSUME NEW i \in 1..(n - k) PROVE tail[i] = samples[k + i]
    BY <2>1, <2>2
  <2> QED
    BY <2>1, <2>3, <2>4
<1>4. PICK I : I = {i \in 1..(n - k) : tail[i].at > to}
  OBVIOUS
<1>5. I \in SUBSET (1..(n - k)) /\ n - k \in Nat
  BY <1>4
<1>6. PICK past : past = IF I # {} THEN Min(I) ELSE 0
  OBVIOUS
<1>7. SelectInSeq(tail, LAMBDA s : s.at > to) = past
  BY <1>3, <1>4, <1>6 DEF SelectInSeq
<1>8. MemoryRange(from, to) = IF past = 0 THEN tail ELSE SubSeq(tail, 1, past - 1)
  BY <1>1, <1>7, Zenon DEF MemoryRange
<1>9. CASE I = {}
  <2>1. past = 0
    BY <1>6, <1>9
  <2>2. MemoryRange(from, to) = tail
    BY <1>8, <2>1
  <2>3. DOMAIN tail = 1..(n - k)
    BY <1>3, LenProperties
  <2>4. ASSUME NEW l \in (k + 1)..n PROVE ~(samples[l].at > to)
    <3>1. l - k \in 1..(n - k) /\ k + (l - k) = l
      OBVIOUS
    <3>2. PICK i : i = l - k
      OBVIOUS
    <3>3. i \in 1..(n - k) /\ tail[i] = samples[l]
      BY <1>3, <3>1, <3>2
    <3> QED
      BY <1>4, <1>9, <3>3
  <2>5. n \in k..n /\ ~(n < n)
    OBVIOUS
  <2>6. DOMAIN MemoryRange(from, to) = 1..(n - k)
    BY <2>2, <2>3
  <2>7. \A i \in 1..(n - k) : MemoryRange(from, to)[i] = samples[k + i]
    BY <1>3, <2>2
  <2> QED
    BY <2>4, <2>5, <2>6, <2>7, Zenon DEF Taken
<1>10. CASE I # {}
  <2>1. past \in I /\ \A i \in I : past <= i
    <3>1. past = Min(I)
      BY <1>6, <1>10
    <3>2. PICK m : m = n - k
      OBVIOUS
    <3>3. m \in Nat /\ I \in SUBSET (1..m)
      BY <1>5, <3>2
    <3> QED
      BY <1>10, <3>1, <3>3, MinFacts
  <2>2. past \in 1..(n - k) /\ past # 0 /\ tail[past].at > to
    BY <1>4, <2>1
  <2>3. PICK answer : answer = SubSeq(tail, 1, past - 1)
    OBVIOUS
  <2>4. MemoryRange(from, to) = answer
    BY <1>8, <2>2, <2>3
  <2>5. PICK e : e = k + past - 1
    OBVIOUS
  <2>6. e \in k..n /\ e - k = past - 1 /\ e + 1 = k + past /\ e < n
    BY <2>2, <2>5
  <2>7. \A i \in 1..(past - 1) : tail[i] \in Entries
    <3>1. \A i \in 1..(n - k) : tail[i] \in Entries
      BY <1>3, ElementOfSeq
    <3> QED
      BY <2>2, <3>1
  <2>8. /\ answer \in Seq(Entries)
        /\ Len(answer) = IF 1 <= past - 1 THEN past - 1 - 1 + 1 ELSE 0
        /\ \A i \in 1..(past - 1 - 1 + 1) : answer[i] = tail[1 + i - 1]
    BY <2>2, <2>3, <2>7, SubSeqProperties
  <2>9. Len(answer) = past - 1
    BY <2>2, <2>8
  <2>10. DOMAIN answer = 1..(past - 1)
    BY <2>8, <2>9, LenProperties
  <2>11. ASSUME NEW i \in 1..(past - 1) PROVE answer[i] = samples[k + i]
    <3>1. i \in 1..(past - 1 - 1 + 1) /\ 1 + i - 1 = i /\ i \in 1..(n - k)
      BY <2>2
    <3>2. answer[i] = tail[i]
      BY <2>8, <3>1
    <3> QED
      BY <1>3, <3>1, <3>2
  <2>12. ASSUME NEW l \in (k + 1)..e PROVE ~(samples[l].at > to)
    <3>1. PICK i : i = l - k
      OBVIOUS
    <3>2. i \in 1..(n - k) /\ k + i = l /\ i < past
      <4>1. k \in Int /\ past \in Int /\ n \in Int /\ past - 1 < n - k
        BY <2>2
      <4>2. l \in Int /\ k + 1 <= l /\ l <= k + past - 1
        BY <2>5, <4>1
      <4>3. i \in Int /\ k + i = l
        BY <3>1, <4>1, <4>2, Offset, Zenon
      <4>4. 1 <= i /\ i < past
        BY <4>1, <4>2, <4>3
      <4>5. i <= n - k
        BY <4>1, <4>3, <4>4
      <4> QED
        BY <4>1, <4>3, <4>4, <4>5
    <3>3. tail[i] = samples[l]
      BY <1>3, <3>2
    <3>4. i \notin I
      BY <2>1, <2>2, <3>2
    <3> QED
      BY <1>4, <3>2, <3>3, <3>4
  <2>13. samples[e + 1].at > to
    <3>1. tail[past] = samples[k + past]
      BY <1>3, <2>2
    <3> QED
      BY <2>2, <2>6, <3>1
  <2>14. \A i \in 1..(e - k) : answer[i] = samples[k + i]
    BY <2>6, <2>11
  <2>15. DOMAIN answer = 1..(e - k)
    BY <2>6, <2>10
  <2> QED
    BY <2>4, <2>6, <2>12, <2>13, <2>14, <2>15, Zenon DEF Taken
<1> QED
  BY <1>9, <1>10

\* A range the API lets through has two numbers as its bounds.
LEMMA RangeFacts ==
  ASSUME TypeOK, NEW range \in Ranges
  PROVE  range.from \in Int /\ range.to \in Int
<1>1. PICK req \in [from : Seconds \cup {None}, to : Seconds \cup {None}] :
        range = ParseRange(req)
  BY DEF Ranges
<1>2. now \in Nat /\ Hour \in Nat /\ Second \in Nat
  BY HourAssumption, SecondAssumption DEF TypeOK
<1>3. ASSUME NEW x \in Seconds PROVE x * Second \in Int
  BY <1>2 DEF Seconds
<1>4. req.from = None \/ req.from \in Seconds
  BY <1>1
<1>5. req.to = None \/ req.to \in Seconds
  BY <1>1
<1>6. range.from = (IF req.from = None THEN now - Hour ELSE req.from * Second)
  BY <1>1 DEF ParseRange
<1>7. range.to = (IF req.to = None THEN now ELSE req.to * Second)
  BY <1>1 DEF ParseRange
<1>8. range.from \in Int
  <2>1. CASE req.from = None
    BY <1>2, <1>6, <2>1
  <2>2. CASE req.from # None
    <3>1. req.from * Second \in Int
      BY <1>3, <1>4, <2>2
    <3> QED
      BY <1>6, <2>2, <3>1
  <2> QED
    BY <2>1, <2>2
<1>9. range.to \in Int
  <2>1. CASE req.to = None
    BY <1>2, <1>7, <2>1
  <2>2. CASE req.to # None
    <3>1. req.to * Second \in Int
      BY <1>3, <1>5, <2>2
    <3> QED
      BY <1>7, <2>2, <3>1
  <2> QED
    BY <2>1, <2>2
<1> QED
  BY <1>8, <1>9

\* The memory store answers with what it should.
LEMMA MemoryFollows == IInv => MemoryAnswers
<1> SUFFICES ASSUME IInv, ~setBack, NEW range \in Ranges
    PROVE  LET answer == MemoryRange(range.from, range.to)
               kept   == (Max({session, Len(stamps) - Capacity}) + 1)..Len(stamps)
           IN /\ ToSet(Ids(answer)) = {id \in kept : InRange(id, range)}
              /\ \A i, j \in DOMAIN answer : i < j => answer[i].id < answer[j].id
  BY DEF MemoryAnswers
<1>1. PICK n, N : n = Len(samples) /\ N = Len(stamps)
  OBVIOUS
<1>2. /\ n \in Nat /\ N \in Nat /\ samples \in Seq(Entries) /\ stamps \in Seq(Nat)
      /\ DOMAIN samples = 1..n /\ DOMAIN stamps = 1..N /\ n <= N
      /\ session \in 0..N /\ Capacity \in Nat /\ n <= Capacity
  <2>1. /\ samples \in Seq(Entries) /\ stamps \in Seq(Nat) /\ session \in 0..N /\ n <= Capacity
    BY <1>1 DEF IInv, TypeOK, Entries
  <2>2. n \in Nat /\ N \in Nat /\ DOMAIN samples = 1..n /\ DOMAIN stamps = 1..N
    BY <1>1, <2>1, LenProperties
  <2>3. n <= N - session
    BY <1>1 DEF IInv, SamplesInv
  <2> QED
    BY <2>1, <2>2, <2>3, CapacityAssumption
<1>3. PICK from, to : from = range.from /\ to = range.to
  OBVIOUS
<1>4. from \in Int /\ to \in Int
  BY <1>3, RangeFacts DEF IInv
\* The samples are the last of this run, in the order of their timestamps.
<1>5. \A l \in 1..n : /\ samples[l].id = N - n + l /\ N - n + l \in 1..N
                      /\ samples[l].at = stamps[N - n + l] /\ samples[l].at \in Nat
  <2>1. ASSUME NEW l \in 1..n
        PROVE  /\ samples[l].id = N - n + l /\ N - n + l \in 1..N
               /\ samples[l].at = stamps[N - n + l] /\ samples[l].at \in Nat
    <3>1. samples[l].id = N - n + l /\ samples[l].at = stamps[samples[l].id]
      BY <1>1, <1>2 DEF IInv, SamplesInv
    <3>2. samples[l] \in Entries
      BY <1>1, <1>2, ElementOfSeq
    <3>3. N - n + l \in 1..N
      BY <1>2
    <3> QED
      BY <3>1, <3>2, <3>3 DEF Entries
  <2> QED
    BY <2>1
<1>6. Sorted(samples, n)
  <2>1. \A i, j \in 1..N : i < j => stamps[i] <= stamps[j]
    BY <1>2 DEF IInv, ClockInv
  <2>2. ASSUME NEW l \in 1..n, NEW m \in 1..n, l < m PROVE samples[l].at <= samples[m].at
    <3>1. PICK i \in 1..N, j \in 1..N : i = N - n + l /\ j = N - n + m
      BY <1>5
    <3>2. i < j
      BY <1>2, <2>2, <3>1
    <3>3. samples[l].at = stamps[i] /\ samples[m].at = stamps[j]
      BY <1>5, <3>1
    <3> QED
      BY <2>1, <3>2, <3>3
  <2> QED
    BY <1>5, <2>2 DEF Sorted
<1>7. PICK k : k = FirstNotBefore(from)
  OBVIOUS
<1>8. Boundary(samples, from, 0, n, k)
  BY <1>1, <1>2, <1>4, <1>6, <1>7, FirstNotBeforeFinds
<1>9. k \in 0..n
  BY <1>8 DEF Boundary
<1>10. PICK answer : answer = MemoryRange(from, to)
  OBVIOUS
<1>11. PICK e \in k..n : Taken(answer, to, k, e, n)
  BY <1>1, <1>2, <1>4, <1>7, <1>9, <1>10, RangeTakes
<1>12. DOMAIN answer = 1..(e - k)
  BY <1>11 DEF Taken
<1>13. ASSUME NEW i \in 1..(e - k)
       PROVE  answer[i].id = N - n + (k + i) /\ k + i \in (k + 1)..e /\ k + i \in 1..n
  <2>1. k + i \in (k + 1)..e /\ k + i \in 1..n
    BY <1>2, <1>9
  <2>2. answer[i] = samples[k + i]
    BY <1>11 DEF Taken
  <2>3. PICK l : l = k + i
    OBVIOUS
  <2>4. samples[l].id = N - n + l
    BY <1>5, <2>1, <2>3
  <2> QED
    BY <2>1, <2>2, <2>3, <2>4
\* Those between from and to are the ones taken.
<1>14. ASSUME NEW l \in 1..n
       PROVE  (from <= samples[l].at /\ samples[l].at <= to) <=> l \in (k + 1)..e
  <2>1. samples[l].at \in Nat
    BY <1>5
  <2>2. CASE l <= k
    <3>1. samples[l].at < from
      BY <1>8, <2>2 DEF Boundary
    <3> QED
      BY <1>4, <1>9, <2>1, <2>2, <3>1
  <2>3. CASE k < l /\ l <= e
    <3>1. samples[l].at >= from
      BY <1>8, <1>9, <2>3 DEF Boundary
    <3>2. ~(samples[l].at > to)
      BY <1>9, <1>11, <2>3 DEF Taken
    <3> QED
      BY <1>4, <1>9, <2>1, <2>3, <3>1, <3>2
  <2>4. CASE e < l
    <3>1. e + 1 \in 1..n /\ e + 1 <= l /\ e < n
      BY <1>2, <1>9, <2>4
    <3>2. samples[e + 1].at > to /\ samples[e + 1].at \in Nat
      BY <1>5, <1>11, <3>1 DEF Taken
    <3>3. samples[e + 1].at <= samples[l].at
      <4>1. CASE e + 1 = l
        BY <2>1, <4>1
      <4>2. CASE e + 1 < l
        BY <1>6, <3>1, <4>2 DEF Sorted
      <4> QED
        BY <3>1, <4>1, <4>2
    <3> QED
      BY <1>4, <1>9, <2>1, <2>4, <3>2, <3>3
  <2> QED
    BY <1>9, <2>2, <2>3, <2>4
\* The last Capacity of this run are those the memory store has.
<1>15. Max({session, N - Capacity}) = N - n
  <2>1. n <= N - session /\ (n = Capacity \/ n = N - session)
    BY <1>1 DEF IInv, SamplesInv
  <2>2. N - n \in {session, N - Capacity} /\ N - n >= session /\ N - n >= N - Capacity
    BY <1>2, <2>1
  <2>3. \A x \in {session, N - Capacity} :
          (\A y \in {session, N - Capacity} : x >= y) => x = N - n
    BY <1>2, <2>2
  <2>4. \E x \in {session, N - Capacity} : \A y \in {session, N - Capacity} : x >= y
    BY <2>2
  <2> HIDE <2>1, <2>2
  <2>5. PICK S : S = {session, N - Capacity}
    OBVIOUS
  <2>6. Max(S) \in S /\ \A y \in S : Max(S) >= y
    BY <2>4, <2>5, Zenon DEF Max
  <2> QED
    BY <2>3, <2>5, <2>6
<1>16. PICK kept : kept = (Max({session, N - Capacity}) + 1)..N
  OBVIOUS
<1>17. kept = (N - n + 1)..N
  BY <1>15, <1>16
<1>18. ToSet(Ids(answer)) = {answer[i].id : i \in 1..(e - k)}
  <2>1. DOMAIN Ids(answer) = 1..(e - k) /\ \A i \in 1..(e - k) : Ids(answer)[i] = answer[i].id
    BY <1>12 DEF Ids
  <2> QED
    BY <2>1 DEF ToSet
<1>19. ASSUME NEW i \in 1..(e - k)
       PROVE  answer[i].id \in kept /\ InRange(answer[i].id, range)
  <2>1. PICK l : l = k + i
    OBVIOUS
  <2>2. l \in (k + 1)..e /\ l \in 1..n /\ answer[i].id = N - n + l
    BY <1>13, <2>1
  <2>3. N - n + l \in kept
    BY <1>2, <1>17, <2>2
  <2>4. from <= samples[l].at /\ samples[l].at <= to /\ samples[l].at = stamps[N - n + l]
    BY <1>5, <1>14, <2>2
  <2> QED
    BY <1>3, <2>2, <2>3, <2>4 DEF InRange
<1>20. ASSUME NEW id \in kept, InRange(id, range)
       PROVE  \E i \in 1..(e - k) : answer[i].id = id
  <2>1. PICK l : l = id - (N - n)
    OBVIOUS
  <2>2. l \in 1..n /\ N - n + l = id
    BY <1>2, <1>17, <2>1
  <2>3. samples[l].at = stamps[id]
    BY <1>5, <2>2
  <2>4. l \in (k + 1)..e
    BY <1>3, <1>14, <1>20, <2>2, <2>3 DEF InRange
  <2>5. PICK i : i = l - k
    OBVIOUS
  <2>6. i \in 1..(e - k) /\ k + i = l
    BY <1>9, <2>4, <2>5
  <2> QED
    BY <1>13, <2>2, <2>6
<1>21. ToSet(Ids(answer)) = {id \in kept : InRange(id, range)}
  BY <1>18, <1>19, <1>20
<1>22. \A i, j \in DOMAIN answer : i < j => answer[i].id < answer[j].id
  <2>1. ASSUME NEW i \in 1..(e - k), NEW j \in 1..(e - k), i < j
        PROVE  answer[i].id < answer[j].id
    <3>1. answer[i].id = N - n + (k + i) /\ answer[j].id = N - n + (k + j)
      BY <1>13
    <3>2. N - n + (k + i) < N - n + (k + j)
      BY <1>2, <1>9, <2>1
    <3> QED
      BY <3>1, <3>2
  <2> QED
    BY <1>12, <2>1, Zenon
<1> QED
  BY <1>1, <1>3, <1>10, <1>16, <1>21, <1>22, Zenon

\* MemoryAnswers: the in-memory store answers every range the API lets through with
\* exactly the samples of this run in it that it has not evicted (QueryRange of
\* memory.go).
THEOREM MemoryAnswersRanges == Spec => []MemoryAnswers
BY Invariants, MemoryFollows, PTL

-----------------------------------------------------------------------------
(* The answers of SQLite                                                   *)

\* Rows each with an id of its own.
Distinct(S) ==
  /\ S \subseteq Rows
  /\ \A r, s \in S : r.id = s.id => r = s

\* Before orders them.
LEMMA BeforeFacts ==
  ASSUME NEW S, Distinct(S), NEW a \in S, NEW b \in S, NEW c \in S
  PROVE  /\ ~Before(a, a)
         /\ Before(a, b) /\ Before(b, c) => Before(a, c)
         /\ a = b \/ Before(a, b) \/ Before(b, a)
<1>1. /\ a.id \in Nat /\ b.id \in Nat /\ c.id \in Nat
      /\ a.second \in Nat /\ b.second \in Nat /\ c.second \in Nat
  BY DEF Distinct, Rows
<1>2. a.id = b.id => a = b
  BY DEF Distinct
<1> QED
  BY <1>1, <1>2 DEF Before

\* A row has as many places as rows, and comes after those before it.
LEMMA PlaceFacts ==
  ASSUME NEW S, IsFiniteSet(S), Distinct(S)
  PROVE  /\ Cardinality(S) \in Nat
         /\ \A r \in S : Place(S, r) \in 1..Cardinality(S)
         /\ \A r, s \in S : Before(r, s) => Place(S, r) < Place(S, s)
<1>1. Cardinality(S) \in Nat
  BY FS_CardinalityType
<1> DEFINE P(r) == {s \in S : Before(s, r)}
<1>2. ASSUME NEW r \in S PROVE P(r) \subseteq S /\ r \notin P(r)
  BY BeforeFacts
<1>3. ASSUME NEW r \in S, NEW s \in S, Before(r, s)
      PROVE  P(r) \subseteq P(s) /\ P(r) # P(s)
  <2>1. ASSUME NEW x \in P(r) PROVE Before(x, s)
    BY <1>3, <2>1, BeforeFacts
  <2>2. r \in P(s) /\ r \notin P(r)
    BY <1>2, <1>3
  <2> QED
    BY <2>1, <2>2
<1>4. ASSUME NEW r \in S PROVE Place(S, r) = Cardinality(P(r)) + 1
  BY DEF Place
<1> HIDE DEF P
<1>5. ASSUME NEW r \in S
      PROVE  /\ IsFiniteSet(P(r)) /\ Cardinality(P(r)) \in Nat
             /\ Cardinality(P(r)) < Cardinality(S)
  <2>1. PICK T : T = P(r)
    OBVIOUS
  <2>2. T \in SUBSET S /\ T # S
    BY <1>2, <2>1
  <2>3. /\ IsFiniteSet(T) /\ Cardinality(T) <= Cardinality(S)
        /\ (Cardinality(S) = Cardinality(T) => S = T)
    BY <2>2, FS_Subset
  <2>4. Cardinality(T) \in Nat
    BY <2>3, FS_CardinalityType
  <2>5. Cardinality(T) < Cardinality(S)
    BY <1>1, <2>2, <2>3, <2>4
  <2> QED
    BY <2>1, <2>3, <2>4, <2>5
<1>6. ASSUME NEW r \in S, NEW s \in S, Before(r, s)
      PROVE  Cardinality(P(r)) < Cardinality(P(s))
  <2>1. PICK T, U : T = P(r) /\ U = P(s)
    OBVIOUS
  <2>2. T \in SUBSET U /\ T # U /\ IsFiniteSet(U)
    BY <1>3, <1>5, <1>6, <2>1
  <2>3. Cardinality(T) <= Cardinality(U) /\ (Cardinality(U) = Cardinality(T) => U = T)
    BY <2>2, FS_Subset
  <2>4. Cardinality(T) \in Nat /\ Cardinality(U) \in Nat
    BY <1>5, <2>1
  <2>5. Cardinality(T) < Cardinality(U)
    BY <2>2, <2>3, <2>4
  <2> QED
    BY <2>1, <2>5
<1>7. ASSUME NEW r \in S PROVE Place(S, r) \in 1..Cardinality(S)
  <2>1. PICK x, n : x = Cardinality(P(r)) /\ n = Cardinality(S)
    OBVIOUS
  <2>2. x \in Nat /\ n \in Nat /\ x < n
    BY <1>1, <1>5, <2>1
  <2>3. x + 1 \in 1..n
    BY <2>2
  <2> QED
    BY <1>4, <2>1, <2>3
<1>8. ASSUME NEW r \in S, NEW s \in S, Before(r, s) PROVE Place(S, r) < Place(S, s)
  <2>1. PICK x, y : x = Cardinality(P(r)) /\ y = Cardinality(P(s))
    OBVIOUS
  <2>2. x \in Nat /\ y \in Nat /\ x < y
    BY <1>5, <1>6, <1>8, <2>1
  <2>3. x + 1 < y + 1
    BY <2>2
  <2> QED
    BY <1>4, <2>1, <2>3
<1> QED
  BY <1>1, <1>7, <1>8

\* Every place is taken by one row.
LEMMA PlacesTaken ==
  ASSUME NEW S, IsFiniteSet(S), Distinct(S)
  PROVE  /\ \A i \in 1..Cardinality(S) : \E r \in S : Place(S, r) = i
         /\ \A r, s \in S : Place(S, r) = Place(S, s) => r = s
<1>1. PICK n : n = Cardinality(S)
  OBVIOUS
<1>2. /\ n \in Nat
      /\ \A r \in S : Place(S, r) \in 1..n
      /\ \A r, s \in S : Before(r, s) => Place(S, r) < Place(S, s)
  BY <1>1, PlaceFacts
<1>3. PICK f : f = [r \in S |-> Place(S, r)]
  OBVIOUS
<1>4. f \in [S -> 1..n] /\ \A r \in S : f[r] = Place(S, r)
  BY <1>2, <1>3
<1>5. \A r, s \in S : f[r] = f[s] => r = s
  <2>1. ASSUME NEW r \in S, NEW s \in S, f[r] = f[s] PROVE r = s
    <3>1. PICK x \in 1..n, y \in 1..n : x = f[r] /\ y = f[s]
      BY <1>4
    <3>2. (Before(r, s) => x < y) /\ (Before(s, r) => y < x)
      BY <1>2, <1>4, <3>1
    <3>3. ~Before(r, s) /\ ~Before(s, r)
      BY <2>1, <3>1, <3>2
    <3> QED
      BY <3>3, BeforeFacts
  <2> QED
    BY <2>1
<1>6. f \in Injection(S, 1..n)
  BY <1>4, <1>5 DEF Injection, IsInjective
<1>7. IsFiniteSet(1..n) /\ Cardinality(1..n) = n
  <2>1. Cardinality(1..n) = IF 1 > n THEN 0 ELSE n - 1 + 1
    BY <1>2, FS_Interval
  <2>2. n = IF 1 > n THEN 0 ELSE n - 1 + 1
    BY <1>2
  <2> QED
    BY <1>2, <2>1, <2>2, FS_Interval
<1>8. f \in Surjection(S, 1..n)
  BY <1>1, <1>6, <1>7, FS_Injection
<1>9. \A i \in 1..n : \E r \in S : f[r] = i
  BY <1>8 DEF Surjection
<1> QED
  BY <1>1, <1>4, <1>5, <1>9

\* Ascending has each of the rows, in order.
LEMMA AscendingFacts ==
  ASSUME NEW S, IsFiniteSet(S), Distinct(S)
  PROVE  /\ \A i \in DOMAIN Ascending(S) : Ascending(S)[i] \in S
         /\ \A r \in S : \E i \in DOMAIN Ascending(S) : Ascending(S)[i] = r
         /\ \A i, j \in DOMAIN Ascending(S) :
              i < j => Before(Ascending(S)[i], Ascending(S)[j])
<1>1. PICK n : n = Cardinality(S)
  OBVIOUS
<1>2. /\ n \in Nat
      /\ \A r \in S : Place(S, r) \in 1..n
      /\ \A r, s \in S : Before(r, s) => Place(S, r) < Place(S, s)
  BY <1>1, PlaceFacts
<1>3. /\ \A i \in 1..n : \E r \in S : Place(S, r) = i
      /\ \A r, s \in S : Place(S, r) = Place(S, s) => r = s
  BY <1>1, PlacesTaken
<1>4. PICK answer : answer = [i \in 1..n |-> CHOOSE r \in S : Place(S, r) = i]
  OBVIOUS
<1>5. Ascending(S) = answer
  BY <1>1, <1>4 DEF Ascending
<1>6. DOMAIN answer = 1..n
  BY <1>4
<1>7. ASSUME NEW i \in 1..n PROVE answer[i] \in S /\ Place(S, answer[i]) = i
  <2>1. \E r \in S : Place(S, r) = i
    BY <1>3
  <2>2. answer[i] = CHOOSE r \in S : Place(S, r) = i
    BY <1>4
  <2> QED
    BY <2>1, <2>2
<1>8. ASSUME NEW r \in S PROVE answer[Place(S, r)] = r
  <2>1. PICK i \in 1..n : i = Place(S, r)
    BY <1>2
  <2>2. answer[i] \in S /\ Place(S, answer[i]) = i
    BY <1>7
  <2>3. PICK s \in S : s = answer[i]
    BY <2>2
  <2> QED
    BY <1>3, <2>1, <2>2, <2>3
<1>9. ASSUME NEW i \in 1..n, NEW j \in 1..n, i < j PROVE Before(answer[i], answer[j])
  <2>1. PICK r \in S, s \in S : r = answer[i] /\ s = answer[j]
    BY <1>7
  <2>2. Place(S, r) = i /\ Place(S, s) = j
    BY <1>7, <2>1
  <2>3. r # s /\ ~Before(s, r)
    BY <1>2, <1>9, <2>2
  <2> QED
    BY <2>1, <2>3, BeforeFacts
<1> QED
  <2>1. \A r \in S : \E i \in 1..n : answer[i] = r
    BY <1>2, <1>8
  <2> QED
    BY <1>5, <1>6, <1>7, <1>9, <2>1

\* Seconds of any two times, also of those before 1970.
LEMMA UnixMonotonic ==
  ASSUME NEW t \in Int, NEW u \in Int
  PROVE  Unix(t) \in Int /\ (t <= u => Unix(t) <= Unix(u))
BY SecondAssumption DEF Unix

\* The table has each row once.
LEMMA TableFacts ==
  ASSUME IInv
  PROVE  /\ IsFiniteSet(ToSet(rows)) /\ Distinct(ToSet(rows))
         /\ \A r \in ToSet(rows) : /\ r.id \in DOMAIN stamps /\ stamps[r.id] \in Nat
                                   /\ r.second = Unix(stamps[r.id])
<1>1. rows \in Seq(Rows) /\ stamps \in Seq(Nat)
  BY DEF IInv, TypeOK, Rows
<1>2. PICK n \in Nat : n = Len(rows) /\ DOMAIN rows = 1..n
  BY <1>1, LenProperties
<1>3. ToSet(rows) = {rows[i] : i \in 1..n}
  BY <1>2 DEF ToSet
<1>4. \A i \in 1..n : rows[i] \in Rows
  BY <1>1, <1>2, ElementOfSeq
<1>5. IsFiniteSet(ToSet(rows))
  <2>1. PICK T, f : T = ToSet(rows) /\ f = [i \in 1..n |-> rows[i]]
    OBVIOUS
  <2>2. f \in Surjection(1..n, T)
    <3>1. f \in [1..n -> T]
      BY <1>3, <2>1
    <3>2. \A t \in T : \E i \in 1..n : f[i] = t
      BY <1>3, <2>1
    <3> QED
      BY <3>1, <3>2 DEF Surjection
  <2>3. IsFiniteSet(1..n)
    BY FS_Interval
  <2> QED
    BY <2>1, <2>2, <2>3, FS_Surjection
<1>6. ASSUME NEW r \in ToSet(rows), NEW s \in ToSet(rows), r.id = s.id PROVE r = s
  <2>1. PICK i \in 1..n, j \in 1..n : r = rows[i] /\ s = rows[j]
    BY <1>3
  <2>2. \A x, y \in 1..n : x < y => rows[x].id < rows[y].id
    BY <1>2 DEF IInv, RowsInv
  <2>3. rows[i].id \in Nat /\ rows[j].id \in Nat
    BY <1>4 DEF Rows
  <2>4. ~(i < j) /\ ~(j < i)
    BY <1>6, <2>1, <2>2, <2>3
  <2> QED
    BY <2>1, <2>4
<1>7. ASSUME NEW r \in ToSet(rows)
      PROVE  r.id \in DOMAIN stamps /\ stamps[r.id] \in Nat /\ r.second = Unix(stamps[r.id])
  <2>1. PICK i \in 1..n : r = rows[i]
    BY <1>3
  <2>2. r.id \in DOMAIN stamps /\ r.second = Unix(stamps[r.id])
    BY <1>2, <2>1 DEF IInv, RowsInv
  <2>3. DOMAIN stamps = 1..Len(stamps)
    BY <1>1, LenProperties
  <2> QED
    BY <1>1, <2>2, <2>3, ElementOfSeq
<1>8. ToSet(rows) \subseteq Rows
  BY <1>3, <1>4
<1> QED
  BY <1>5, <1>6, <1>7, <1>8 DEF Distinct

\* SQLite answers with what it should.
LEMMA SQLiteFollows == IInv => SQLiteAnswers
<1> SUFFICES ASSUME IInv, NEW range \in Ranges
    PROVE  LET answer == SQLiteRange(range.from, range.to)
           IN /\ {id \in ToSet(Ids(rows)) : InRange(id, range)} \subseteq ToSet(Ids(answer))
              /\ \A r \in ToSet(answer) :
                   \/ InRange(r.id, range)
                   \/ Unix(stamps[r.id]) \in {Unix(range.from), Unix(range.to)}
              /\ \A i, j \in DOMAIN answer : i < j =>
                   Unix(stamps[answer[i].id]) <= Unix(stamps[answer[j].id])
  BY DEF SQLiteAnswers
<1>1. PICK from, to : from = range.from /\ to = range.to
  OBVIOUS
<1>2. from \in Int /\ to \in Int
  BY <1>1, RangeFacts DEF IInv
<1>3. PICK S : S = {r \in ToSet(rows) : Between(r, from, to)}
  OBVIOUS
<1>4. PICK answer : answer = Ascending(S)
  OBVIOUS
<1>5. SQLiteRange(from, to) = answer
  BY <1>3, <1>4, Zenon DEF SQLiteRange
<1>6. IsFiniteSet(S) /\ Distinct(S) /\ S \subseteq ToSet(rows)
  <2>1. PICK T : T = ToSet(rows) /\ IsFiniteSet(T) /\ Distinct(T)
    BY TableFacts
  <2>2. S \in SUBSET T
    BY <1>3, <2>1
  <2>3. IsFiniteSet(S)
    BY <2>1, <2>2, FS_Subset
  <2>4. Distinct(S)
    BY <2>1, <2>2 DEF Distinct
  <2> QED
    BY <2>1, <2>2, <2>3, <2>4
<1>7. /\ \A i \in DOMAIN answer : answer[i] \in S
      /\ \A r \in S : \E i \in DOMAIN answer : answer[i] = r
      /\ \A i, j \in DOMAIN answer : i < j => Before(answer[i], answer[j])
  BY <1>4, <1>6, AscendingFacts
<1>8. \A r \in ToSet(rows) : stamps[r.id] \in Nat /\ r.second = Unix(stamps[r.id])
  BY TableFacts
<1>9. ASSUME NEW id \in ToSet(Ids(rows)), InRange(id, range) PROVE id \in ToSet(Ids(answer))
  <2>1. PICK r \in ToSet(rows) : r.id = id
    BY DEF ToSet, Ids
  <2>2. PICK t \in Nat : t = stamps[id] /\ r.second = Unix(t) /\ from <= t /\ t <= to
    BY <1>1, <1>8, <1>9, <2>1 DEF InRange
  <2>3. Unix(from) <= Unix(t) /\ Unix(t) <= Unix(to)
    BY <1>2, <2>2, UnixMonotonic
  <2>4. r \in S
    BY <1>3, <2>2, <2>3 DEF Between
  <2>5. PICK i \in DOMAIN answer : answer[i] = r
    BY <1>7, <2>4
  <2>6. i \in DOMAIN Ids(answer) /\ Ids(answer)[i] = id
    BY <2>1, <2>5 DEF Ids
  <2> QED
    BY <2>6 DEF ToSet
<1>10. ASSUME NEW r \in ToSet(answer)
       PROVE  InRange(r.id, range) \/ Unix(stamps[r.id]) \in {Unix(range.from), Unix(range.to)}
  <2>1. r \in S /\ r \in ToSet(rows)
    BY <1>6, <1>7 DEF ToSet
  <2>2. PICK t \in Nat : t = stamps[r.id] /\ r.second = Unix(t)
    BY <1>8, <2>1
  <2>3. Unix(from) <= Unix(t) /\ Unix(t) <= Unix(to)
    BY <1>3, <2>1, <2>2 DEF Between
  <2>4. /\ Unix(from) \in Int /\ Unix(t) \in Int /\ Unix(to) \in Int
        /\ (t <= from => Unix(t) <= Unix(from)) /\ (to <= t => Unix(to) <= Unix(t))
    BY <1>2, <2>2, UnixMonotonic
  <2>5. CASE from <= t /\ t <= to
    BY <1>1, <2>2, <2>5 DEF InRange
  <2>6. CASE ~(from <= t)
    <3>1. Unix(t) = Unix(from)
      BY <1>2, <2>2, <2>3, <2>4, <2>6
    <3> QED
      BY <1>1, <2>2, <3>1
  <2>7. CASE ~(t <= to)
    <3>1. Unix(t) = Unix(to)
      BY <1>2, <2>2, <2>3, <2>4, <2>7
    <3> QED
      BY <1>1, <2>2, <3>1
  <2> QED
    BY <2>5, <2>6, <2>7
<1>11. ASSUME NEW i \in DOMAIN answer, NEW j \in DOMAIN answer, i < j
       PROVE  Unix(stamps[answer[i].id]) <= Unix(stamps[answer[j].id])
  <2>1. PICK r \in ToSet(rows), s \in ToSet(rows) :
          r = answer[i] /\ s = answer[j] /\ Before(r, s)
    BY <1>6, <1>7, <1>11
  <2>2. PICK t \in Nat, u \in Nat :
          t = stamps[r.id] /\ u = stamps[s.id] /\ r.second = Unix(t) /\ s.second = Unix(u)
    BY <1>8
  <2>3. Unix(t) \in Int /\ Unix(u) \in Int
    BY <2>2, UnixMonotonic
  <2>4. r.second <= s.second
    BY <2>1, <2>2, <2>3 DEF Before
  <2> QED
    BY <2>1, <2>2, <2>4
<1> QED
  BY <1>1, <1>5, <1>9, <1>10, <1>11, Zenon

\* SQLiteAnswers: the SQLite store answers every range the API lets through with what
\* is in it, cut to seconds, in order (QueryRange of sqlite.go).
THEOREM SQLiteAnswersRanges == Spec => []SQLiteAnswers
BY Invariants, SQLiteFollows, PTL

-----------------------------------------------------------------------------
(* What an answer may still gain                                           *)

\* A row after all others comes last.
LEMMA AscendingAppend ==
  ASSUME NEW S, IsFiniteSet(S), NEW e, e \notin S, NEW T, T = S \cup {e}, Distinct(T),
         \A s \in S : Before(s, e)
  PROVE  Ascending(T) = Append(Ascending(S), e)
<1>1. IsFiniteSet(T) /\ Cardinality(T) = Cardinality(S) + 1 /\ Cardinality(S) \in Nat
  BY FS_AddElement, FS_CardinalityType
<1>2. Distinct(S)
  BY DEF Distinct
<1>3. PICK n \in Nat : n = Cardinality(S) /\ Cardinality(T) = n + 1
  BY <1>1
<1>4. ASSUME NEW r \in S PROVE Place(T, r) = Place(S, r)
  <2>1. ~Before(e, r)
    BY <1>4, BeforeFacts
  <2>2. {s \in T : Before(s, r)} = {s \in S : Before(s, r)}
    BY <2>1
  <2> QED
    BY <2>2 DEF Place
<1>5. Place(T, e) = n + 1
  <2>1. ~Before(e, e)
    BY BeforeFacts
  <2>2. {s \in T : Before(s, e)} = S
    BY <2>1
  <2> QED
    BY <1>3, <2>2 DEF Place
<1>6. /\ \A i \in 1..n : \E r \in S : Place(S, r) = i
      /\ \A r, s \in S : Place(S, r) = Place(S, s) => r = s
      /\ \A r, s \in T : Place(T, r) = Place(T, s) => r = s
  BY <1>1, <1>2, <1>3, PlacesTaken
<1>7. PICK f : f = [i \in 1..n |-> CHOOSE r \in S : Place(S, r) = i]
  OBVIOUS
<1>8. PICK g : g = [i \in 1..(n + 1) |-> CHOOSE r \in T : Place(T, r) = i]
  OBVIOUS
<1>9. Ascending(S) = f /\ Ascending(T) = g
  BY <1>3, <1>7, <1>8 DEF Ascending
<1>10. ASSUME NEW i \in 1..n PROVE f[i] \in S /\ g[i] = f[i]
  <2>1. PICK r \in S : Place(S, r) = i
    BY <1>6
  <2>2. (CHOOSE s \in S : Place(S, s) = i) = r
    BY <1>6, <2>1
  <2>3. r \in T /\ Place(T, r) = i
    BY <1>4, <2>1
  <2>4. (CHOOSE s \in T : Place(T, s) = i) = r
    BY <1>6, <2>3
  <2>5. f[i] = r
    BY <1>7, <2>2
  <2>6. i \in 1..(n + 1)
    OBVIOUS
  <2>7. g[i] = r
    BY <1>8, <2>4, <2>6
  <2> QED
    BY <2>1, <2>5, <2>7
<1>11. g[n + 1] = e
  <2>1. e \in T /\ Place(T, e) = n + 1
    BY <1>5
  <2>2. (CHOOSE s \in T : Place(T, s) = n + 1) = e
    BY <1>6, <2>1
  <2>3. n + 1 \in 1..(n + 1)
    OBVIOUS
  <2> QED
    BY <1>8, <2>2, <2>3
<1>12. f \in Seq(T) /\ Len(f) = n
  <2>1. f \in [1..n -> T]
    BY <1>7, <1>10
  <2>2. f \in Seq(T)
    BY <2>1, SeqDef
  <2>3. PICK m \in Nat : m = Len(f) /\ DOMAIN f = 1..m
    BY <2>2, LenProperties
  <2>4. 1..m = 1..n
    BY <1>7, <2>3
  <2>5. m = n
    <3>1. m \in 1..m => m \in 1..n
      BY <2>4
    <3>2. n \in 1..n => n \in 1..m
      BY <2>4
    <3> QED
      BY <3>1, <3>2
  <2> QED
    BY <2>2, <2>3, <2>5
<1>13. PICK h : h = Append(f, e)
  OBVIOUS
<1>14. /\ h \in Seq(T) /\ DOMAIN h = 1..(n + 1)
       /\ \A i \in 1..n : h[i] = f[i]
       /\ h[n + 1] = e
  <2>1. e \in T
    OBVIOUS
  <2> QED
    BY <1>12, <1>13, <2>1, AppendFacts
<1>15. h = g
  <2>1. \A i \in 1..(n + 1) : i \in 1..n \/ i = n + 1
    OBVIOUS
  <2>2. \A i \in 1..(n + 1) : h[i] = g[i]
    BY <1>10, <1>11, <1>14, <2>1
  <2>3. DOMAIN g = 1..(n + 1)
    BY <1>8
  <2>4. g = [i \in 1..(n + 1) |-> g[i]]
    <3> DEFINE row(i) == CHOOSE r \in T : Place(T, r) = i
    <3>1. g = [i \in 1..(n + 1) |-> row(i)]
      BY <1>8
    <3> HIDE DEF row
    <3> QED
      BY <3>1
  <2>5. PICK m \in Nat : h \in [1..m -> T]
    BY <1>14, SeqDef
  <2>6. DOMAIN h = 1..m /\ h = [i \in 1..m |-> h[i]]
    BY <2>5
  <2>7. h = [i \in 1..(n + 1) |-> h[i]]
    BY <1>14, <2>6
  <2> QED
    BY <2>2, <2>4, <2>7
<1> QED
  BY <1>9, <1>13, <1>15

\* Sorting takes and leaves nothing.
LEMMA AscendingSet ==
  ASSUME NEW S, IsFiniteSet(S), Distinct(S)
  PROVE  ToSet(Ascending(S)) = S
<1>1. /\ \A i \in DOMAIN Ascending(S) : Ascending(S)[i] \in S
      /\ \A r \in S : \E i \in DOMAIN Ascending(S) : Ascending(S)[i] = r
  BY AscendingFacts
<1> QED
  BY <1>1 DEF ToSet

\* The rows a range of seconds is answered with.
Asked(from, to) == {r \in ToSet(rows) : from <= r.second /\ r.second <= to}

\* Sorted, they are the answer.
LEMMA AskedIsAnswered ==
  ASSUME NEW from \in Nat, NEW to \in Nat
  PROVE  SQLiteRange(from * Second, to * Second) = Ascending(Asked(from, to))
<1>1. Unix(from * Second) = from /\ Unix(to * Second) = to
  BY SecondAssumption DEF Unix
<1>2. {r \in ToSet(rows) : Between(r, from * Second, to * Second)} = Asked(from, to)
  BY <1>1 DEF Between, Asked
<1> QED
  BY <1>2, Zenon DEF SQLiteRange

\* A step leaves the rows alone or adds that of the sample in the making, whose
\* second is not before that of another unless the clock has been set back.
LEMMA RowsGrow ==
  ASSUME IInv, [Next]_vars
  PROVE  \/ ToSet(rows') = ToSet(rows)
         \/ \E e \in Rows :
              /\ e = [id |-> Len(stamps) + 1, second |-> Unix(gathering)]
              /\ gathering # None
              /\ ToSet(rows') = ToSet(rows) \cup {e}
              /\ e \notin ToSet(rows)
              /\ ~setBack => \A r \in ToSet(rows) : Before(r, e)
<1>1. ASSUME NEW ok \in BOOLEAN, SaveSample(ok), NEW m \in Nat,
             DOMAIN rows = 1..m, DOMAIN rows' = 1..(m + 1),
             \A i \in 1..m : rows'[i] = rows[i],
             rows'[m + 1] = [id |-> Len(stamps) + 1, second |-> Unix(gathering)]
      PROVE  \E e \in Rows :
               /\ e = [id |-> Len(stamps) + 1, second |-> Unix(gathering)]
               /\ gathering # None
               /\ ToSet(rows') = ToSet(rows) \cup {e}
               /\ e \notin ToSet(rows)
               /\ ~setBack => \A r \in ToSet(rows) : Before(r, e)
  <2>1. PICK n \in Nat, t \in Nat :
          n = Len(stamps) /\ DOMAIN stamps = 1..n /\ t = gathering /\ gathering # None
    BY <1>1, NoneAssumption, SaveFacts DEF IInv
  <2>2. n + 1 \in Nat \ {0} /\ Unix(t) \in Nat
    BY UnixFacts
  <2>3. PICK e \in Rows : e = [id |-> n + 1, second |-> Unix(t)]
    BY <2>2 DEF Rows
  <2>4. e.id = n + 1 /\ e.second = Unix(t)
    BY <2>3
  <2>5. ToSet(rows') = ToSet(rows) \cup {e}
    BY <1>1, <2>1, <2>3 DEF ToSet
  <2>6. \A r \in ToSet(rows) : r.id \in 1..n /\ stamps[r.id] \in Nat
                               /\ r.second = Unix(stamps[r.id])
    BY <2>1, TableFacts
  <2>7. e \notin ToSet(rows)
    BY <2>4, <2>6
  <2>8. ASSUME ~setBack, NEW r \in ToSet(rows) PROVE Before(r, e)
    <3>1. PICK i \in 1..n, u \in Nat : i = r.id /\ u = stamps[i] /\ r.second = Unix(u)
      BY <2>6
    <3>2. u <= t
      BY <2>1, <2>8, <3>1 DEF IInv, ClockInv
    <3>3. Unix(u) \in Nat /\ Unix(u) <= Unix(t)
      BY <3>2, UnixFacts
    <3>4. r.second < e.second \/ r.second = e.second
      BY <2>2, <2>4, <3>1, <3>3
    <3>5. r.id < e.id
      BY <2>4, <3>1
    <3> QED
      BY <3>4, <3>5 DEF Before
  <2> QED
    BY <2>1, <2>3, <2>5, <2>7, <2>8
<1>2. ASSUME NEW ok \in BOOLEAN, SaveSample(ok), ~UNCHANGED rows
      PROVE  \E m \in Nat :
               /\ DOMAIN rows = 1..m /\ DOMAIN rows' = 1..(m + 1)
               /\ \A i \in 1..m : rows'[i] = rows[i]
               /\ rows'[m + 1] = [id |-> Len(stamps) + 1, second |-> Unix(gathering)]
  BY <1>2, RowFacts DEF IInv
<1>3. CASE UNCHANGED rows
  BY <1>3
<1>4. UNCHANGED rows \/ \E ok \in BOOLEAN : SaveSample(ok)
  BY DEF Next, vars, Gather, Restart, OpenTable, Tick, SetClockBack
<1> QED
  BY <1>1, <1>2, <1>3, <1>4

\* What an answer gains in a step.
LEMMA AnswerStep ==
  ASSUME IInv, [Next]_vars, NEW from \in Nat, NEW to \in Nat
  PROVE  LET asked == SQLiteRange(from * Second, to * Second)
             late  == [id |-> Len(stamps) + 1, second |-> Unix(gathering)]
         IN asked' # asked =>
              /\ gathering # None /\ late.second \in from..to
              /\ IF setBack THEN ToSet(asked') = ToSet(asked) \cup {late}
                 ELSE asked' = Append(asked, late)
<1>1. PICK S, T : S = Asked(from, to) /\ T = Asked(from, to)'
  OBVIOUS
<1>2. /\ SQLiteRange(from * Second, to * Second) = Ascending(S)
      /\ SQLiteRange(from * Second, to * Second)' = Ascending(T)
  <2>1. SQLiteRange(from * Second, to * Second) = Ascending(Asked(from, to))
    BY AskedIsAnswered
  <2>2. Unix(from * Second) = from /\ Unix(to * Second) = to
    BY SecondAssumption DEF Unix
  <2>3. {r \in ToSet(rows') : Between(r, from * Second, to * Second)} = T
    BY <1>1, <2>2 DEF Between, Asked
  <2>4. SQLiteRange(from * Second, to * Second)'
          = Ascending({r \in ToSet(rows') : Between(r, from * Second, to * Second)})
    BY DEF SQLiteRange
  <2> QED
    BY <1>1, <2>1, <2>3, <2>4
<1>3. CASE ToSet(rows') = ToSet(rows)
  BY <1>1, <1>2, <1>3 DEF Asked
<1>4. ASSUME NEW e \in Rows,
             e = [id |-> Len(stamps) + 1, second |-> Unix(gathering)], gathering # None,
             ToSet(rows') = ToSet(rows) \cup {e}, e \notin ToSet(rows),
             ~setBack => \A r \in ToSet(rows) : Before(r, e)
      PROVE  Ascending(T) # Ascending(S) =>
               /\ e.second \in from..to
               /\ IF setBack THEN ToSet(Ascending(T)) = ToSet(Ascending(S)) \cup {e}
                  ELSE Ascending(T) = Append(Ascending(S), e)
  <2>1. CASE ~(from <= e.second /\ e.second <= to)
    <3>1. T = S
      BY <1>1, <1>4, <2>1 DEF Asked
    <3> QED
      BY <3>1
  <2>2. CASE from <= e.second /\ e.second <= to
    <3>1. T = S \cup {e} /\ e \notin S /\ S \subseteq ToSet(rows)
      BY <1>1, <1>4, <2>2 DEF Asked
    <3>2. IsFiniteSet(S)
      <4>1. IsFiniteSet(ToSet(rows))
        BY TableFacts
      <4> QED
        BY <3>1, <4>1, FS_Subset
    <3>3. Distinct(T)
      <4>1. Distinct(ToSet(rows)) /\ \A r \in ToSet(rows) : r.id \in DOMAIN stamps
        BY TableFacts
      <4>2. PICK n \in Nat : n = Len(stamps) /\ DOMAIN stamps = 1..n
        BY LenProperties DEF IInv, TypeOK
      <4>3. e.id = n + 1
        BY <1>4, <4>2
      <4>4. \A r \in S : r.id # e.id
        BY <3>1, <4>1, <4>2, <4>3
      <4> QED
        BY <3>1, <4>1, <4>4 DEF Distinct
    <3>4. e.second \in from..to
      BY <2>2 DEF Rows
    <3>5. CASE setBack
      <4>1. IsFiniteSet(T) /\ Distinct(S)
        BY <3>1, <3>2, <3>3, FS_AddElement DEF Distinct
      <4>2. ToSet(Ascending(S)) = S /\ ToSet(Ascending(T)) = T
        BY <3>2, <3>3, <4>1, AscendingSet
      <4> QED
        BY <3>1, <3>4, <3>5, <4>2
    <3>6. CASE ~setBack
      <4>1. \A s \in S : Before(s, e)
        BY <1>4, <3>1, <3>6
      <4>2. Ascending(T) = Append(Ascending(S), e)
        BY <3>1, <3>2, <3>3, <4>1, AscendingAppend
      <4> QED
        BY <3>4, <3>6, <4>2
    <3> QED
      BY <3>5, <3>6
  <2> QED
    BY <2>1, <2>2
<1>5. CASE \E e \in Rows :
             /\ e = [id |-> Len(stamps) + 1, second |-> Unix(gathering)]
             /\ gathering # None
             /\ ToSet(rows') = ToSet(rows) \cup {e}
             /\ e \notin ToSet(rows)
             /\ ~setBack => \A r \in ToSet(rows) : Before(r, e)
  BY <1>2, <1>4, <1>5, Zenon
<1> QED
  BY <1>3, <1>5, RowsGrow, Zenon

\* The answer to a range changes only by the sample in the making, if its second
\* is in the range, and at its end until the clock is set back (SaveSample and
\* QueryRange of sqlite.go): for any samples, failures and restarts.
THEOREM AnswersKeep == Spec => AnswersOnlyGrow
<1>1. Seconds \subseteq Nat
  BY DEF Seconds
<1>2. IInv /\ [Next]_vars =>
        [\A from, to \in Seconds :
           LET asked == SQLiteRange(from * Second, to * Second)
               late  == [id |-> Len(stamps) + 1, second |-> Unix(gathering)]
           IN asked' # asked =>
                /\ gathering # None /\ late.second \in from..to
                /\ IF setBack THEN ToSet(asked') = ToSet(asked) \cup {late}
                   ELSE asked' = Append(asked, late)]_vars
  BY <1>1, AnswerStep
<1> QED
  BY <1>2, Invariants, PTL DEF Spec, AnswersOnlyGrow
=============================================================================
