------------------------ MODULE SecurityAuditProofs ------------------------
(***************************************************************************)
(* Proofs about SecurityAudit for any number of callers, certificates and  *)
(* changes of the host, and any lifetime of a report: what a finding may   *)
(* claim, and how old a report may be.                                     *)
(***************************************************************************)
EXTENDS SecurityAudit, SequenceTheorems, TLAPS

\* What has been heard in the running scan was so at some moment of it, or is
\* a failure; reading a certificate does not fail by itself.
HeardInv ==
  holder # None =>
    /\ Facts \subseteq shown
    /\ \A p \in Sources : heard[p] \in {None, "denied"} \/ <<p, heard[p]>> \in shown
    /\ \A p \in ToSet(Certs) : heard[p] = None \/ <<p, heard[p]>> \in shown

\* A scan begins after the request that runs it,
FreshInv == \A c \in Callers : pc[c] = "scan" => before[c] < scans

\* and a report is stamped with the time it was made, by a clock that is right
\* until it is set back, and behind from then on.
ClockInv ==
  LET behind == IF setBack THEN Setback ELSE 0
  IN /\ wall = now - behind
     /\ report.at \in {report.ended, report.ended - behind}

IInv == TypeOK /\ HeardInv /\ FreshInv /\ ClockInv

-----------------------------------------------------------------------------
(* The sources                                                             *)

\* The names of the commands.
LEMMA CommandNames ==
  \A p \in {"updates", "listeners", "sshd", "sshd_config", "ufw", "firewalld", "nft",
            "timers", "crontab"} : p \in ToSet(Commands)
<1>1. /\ Commands[1] = "updates" /\ Commands[2] = "listeners" /\ Commands[3] = "sshd"
      /\ Commands[4] = "sshd_config" /\ Commands[5] = "ufw" /\ Commands[6] = "firewalld"
      /\ Commands[7] = "nft" /\ Commands[8] = "timers" /\ Commands[9] = "crontab"
  BY DEF Commands
<1>2. DOMAIN Commands = 1..9
  BY DEF Commands
<1> QED
  BY <1>1, <1>2 DEF ToSet

\* Every command and every certificate has its place in the order.
LEMMA OrderCovers ==
  ASSUME NEW p \in ToSet(Commands) \cup ToSet(Certs)
  PROVE  p \in Sources /\ \E i \in DOMAIN Order : Order[i] = p
<1> DEFINE S == ToSet(Commands) \cup ToSet(Certs)
           m == Len(Commands)
           n == Len(Certs)
<1>1. Commands \in Seq(S)
  <2>1. DOMAIN Commands = 1..9 /\ Commands = [i \in DOMAIN Commands |-> Commands[i]]
    BY DEF Commands
  <2>2. \A i \in DOMAIN Commands : Commands[i] \in S
    BY DEF ToSet
  <2>3. Commands \in [1..9 -> S]
    BY <2>1, <2>2
  <2> QED
    BY <2>3, SeqDef
<1>2. Certs \in Seq(S)
  BY CertsAssumption, SeqMonotonic
<1> HIDE DEF S
<1>3. /\ m \in Nat /\ DOMAIN Commands = 1..m
      /\ n \in Nat /\ DOMAIN Certs = 1..n
  BY <1>1, <1>2, LenProperties
<1>4. /\ Order \in Seq(S) /\ Len(Order) = m + n
      /\ \A i \in 1..(m + n) : Order[i] = IF i <= m THEN Commands[i] ELSE Certs[i - m]
  BY <1>1, <1>2, ConcatProperties DEF Order
<1>5. DOMAIN Order = 1..(m + n)
  BY <1>4, LenProperties
<1> HIDE DEF m, n
<1>6. CASE p \in ToSet(Commands)
  <2>1. PICK i \in 1..m : Commands[i] = p
    BY <1>3, <1>6 DEF ToSet
  <2>2. i \in 1..(m + n) /\ i <= m
    BY <1>3
  <2>3. i \in DOMAIN Order /\ Order[i] = p
    BY <1>4, <1>5, <2>1, <2>2
  <2> QED
    BY <2>3 DEF Sources, ToSet
<1>7. CASE p \in ToSet(Certs)
  <2>1. PICK i \in 1..n : Certs[i] = p
    BY <1>3, <1>7 DEF ToSet
  <2>2. i + m \in 1..(m + n) /\ ~(i + m <= m) /\ (i + m) - m = i
    BY <1>3
  <2>3. i + m \in DOMAIN Order /\ Order[i + m] = p
    BY <1>4, <1>5, <2>1, <2>2
  <2> QED
    BY <2>3 DEF Sources, ToSet
<1> QED
  BY <1>6, <1>7

\* A place in the order is that of a source, which may be unreadable.
LEMMA PlaceIsSource ==
  ASSUME NEW i \in DOMAIN Order
  PROVE  Order[i] \in Sources /\ "denied" \in Says(Order[i])
  BY DEF Sources, ToSet, Says

-----------------------------------------------------------------------------
(* Types                                                                   *)

\* Each check comes out with a status it can have, whatever was heard.
LEMMA FindingsType == Findings \in FindingSets
<1>1. Updates \in {"pass", "fail", "unknown"}
  BY DEF Updates
<1>2. Listeners \in {"pass", "warning", "unknown"}
  BY DEF Listeners
<1>3. SSH \in {"pass", "fail", "unknown"}
  BY DEF SSH
<1>4. Firewall \in {"pass", "fail", "warning", "unknown"}
  BY DEF Firewall
<1>5. Backups \in {"pass", "warning"}
  BY DEF Backups
<1>6. Certificates \in {"pass", "fail", "warning", "unknown"}
  BY DEF Certificates
<1> QED
  BY <1>1, <1>2, <1>3, <1>4, <1>5, <1>6 DEF Findings, FindingSets

\* Before a scan nothing has been heard.
LEMMA NothingHeard ==
  ASSUME NEW h, h = [p \in Sources |-> None]
  PROVE  /\ h \in [Sources -> Answers \cup {None}]
         /\ \A p \in Sources : h[p] \in Says(p) \cup {None}
  OBVIOUS

\* The agent starts well typed.
LEMMA TypeInit == Init => TypeOK
<1> SUFFICES ASSUME Init PROVE TypeOK
  OBVIOUS
<1>1. host \in HostStates /\ 0 \in 0..MaxTime
  BY HostsAssumption, TimeAssumption DEF Init
<1>2. report.at = 0 /\ report = NoReport
  BY DEF Init, NoReport
<1>3. /\ heard \in [Sources -> Answers \cup {None}]
      /\ \A p \in Sources : heard[p] \in Says(p) \cup {None}
  BY NothingHeard DEF Init
<1>4. /\ pc \in [Callers -> {"idle", "lock", "scan"}] /\ refresh \in [Callers -> BOOLEAN]
      /\ scans \in Nat /\ before \in [Callers -> 0..scans]
  BY DEF Init
<1>5. \A c \in Callers : pc[c] = "scan" <=> holder = c
  BY NoneAssumption DEF Init
<1>6. holder \in Callers \cup {None} /\ setBack \in BOOLEAN /\ wall = 0
  BY DEF Init
<1>7. report.at <= wall
  BY <1>2, <1>6
<1>8. now \in 0..MaxTime
  BY <1>1 DEF Init
<1> QED
  BY <1>1, <1>2, <1>3, <1>4, <1>5, <1>6, <1>7, <1>8 DEF TypeOK

\* What happens to a report or to the callers' books that keeps them typed.
LEMMA ReturnType ==
  ASSUME TypeOK, NEW c \in Callers, Return(c), UNCHANGED scans
  PROVE  /\ pc' \in [Callers -> {"idle", "lock", "scan"}]
         /\ refresh' \in [Callers -> BOOLEAN] /\ before' \in [Callers -> 0..scans']
  BY DEF TypeOK, Return

\* Whatever fails, changes or arrives during a scan, every source has said
\* something it can say, the mutex has one holder, and the report has for each
\* check a status that check can have.
THEOREM TypeCorrect == Spec => []TypeOK
<1>1. TypeOK /\ [Next]_vars => TypeOK'
  <2> SUFFICES ASSUME TypeOK, [Next]_vars PROVE TypeOK'
    OBVIOUS
  <2> USE DEF cacheVars, timeVars, bounds
  <2>1. CASE UNCHANGED vars
    BY <2>1 DEF vars, TypeOK
  <2>2. CASE HostChanges
    <3>1. PICK change \in Changes : host' = [host EXCEPT ![change[1]] = change[2]]
      BY <2>2 DEF HostChanges
    <3>2. change[1] \in Sources /\ change[2] \in Says(change[1])
      BY ChangesAssumption
    <3>3. host' \in HostStates
      BY <3>1, <3>2 DEF TypeOK, HostStates, Answers
    <3> QED
      BY <2>2, <3>3 DEF HostChanges, TypeOK
  <2>3. CASE Tick
    <3>1. /\ now' \in 0..MaxTime /\ wall' \in Int /\ now' = now + 1 /\ wall' = wall + 1
          /\ UNCHANGED <<host, heard, holder, report, pc, refresh, setBack, scans, before>>
      BY <2>3, TimeAssumption DEF Tick, TypeOK
    <3>2. report = NoReport \/
          report \in [findings : FindingSets, at : Int, ended : 0..now', scan : 0..scans]
      BY <3>1, TimeAssumption DEF TypeOK
    <3>3. report.at <= wall' \/ setBack
      <4>1. report.at \in Int
        BY DEF TypeOK, NoReport
      <4> QED
        BY <3>1, <4>1 DEF TypeOK
    <3> QED
      BY <3>1, <3>2, <3>3 DEF TypeOK, Answers
  <2>4. CASE SetClockBack
    <3>1. wall' \in Int /\ setBack' = TRUE
      BY <2>4, SetbackAssumption DEF SetClockBack, TypeOK
    <3> QED
      BY <2>4, <3>1 DEF SetClockBack, TypeOK
  <2>5. CASE Ask
    <3>1. PICK i \in Remaining : \/ heard' = [heard EXCEPT ![Order[i]] = host[Order[i]]]
                                 \/ heard' = [heard EXCEPT ![Order[i]] = "denied"]
      BY <2>5 DEF Ask
    <3>2. Order[i] \in Sources /\ "denied" \in Says(Order[i])
      BY PlaceIsSource DEF Remaining
    <3>3. host[Order[i]] \in Says(Order[i])
      BY <3>2 DEF TypeOK, HostStates, Answers
    <3>4. /\ heard' \in [Sources -> Answers \cup {None}]
          /\ \A p \in Sources : heard'[p] \in Says(p) \cup {None}
      BY <3>1, <3>2, <3>3 DEF TypeOK, Answers
    <3> QED
      BY <2>5, <3>4 DEF Ask, TypeOK
  <2>6. ASSUME NEW c \in Callers, NEW r \in BOOLEAN, Call(c, r) PROVE TypeOK'
    BY <2>6 DEF Call, TypeOK
  <2>7. ASSUME NEW c \in Callers, ServeCached(c) PROVE TypeOK'
    <3>1. /\ pc' \in [Callers -> {"idle", "lock", "scan"}]
          /\ refresh' \in [Callers -> BOOLEAN] /\ before' \in [Callers -> 0..scans']
      BY <2>7, ReturnType DEF ServeCached
    <3>2. \A d \in Callers : pc'[d] = "scan" <=> holder' = d
      BY <2>7, NoneAssumption DEF ServeCached, Locks, Return, TypeOK
    <3> QED
      BY <2>7, <3>1, <3>2 DEF ServeCached, TypeOK
  <2>8. ASSUME NEW c \in Callers, BeginScan(c) PROVE TypeOK'
    <3>1. \A d \in Callers : pc'[d] = "scan" <=> holder' = d
      BY <2>8, NoneAssumption DEF BeginScan, Locks, TypeOK
    <3>2. /\ scans' \in Nat /\ scans' = scans + 1
          /\ before' \in [Callers -> 0..scans']
      BY <2>8 DEF BeginScan, TypeOK
    <3>3. report = NoReport \/
          report \in [findings : FindingSets, at : Int, ended : 0..now, scan : 0..scans']
      BY <3>2 DEF TypeOK
    <3>4. /\ heard' \in [Sources -> Answers \cup {None}]
          /\ \A p \in Sources : heard'[p] \in Says(p) \cup {None}
      BY <2>8, NothingHeard DEF BeginScan
    <3> QED
      BY <2>8, <3>1, <3>2, <3>3, <3>4 DEF BeginScan, TypeOK
  <2>9. ASSUME NEW c \in Callers, EndScan(c) PROVE TypeOK'
    <3>1. /\ pc' \in [Callers -> {"idle", "lock", "scan"}]
          /\ refresh' \in [Callers -> BOOLEAN] /\ before' \in [Callers -> 0..scans']
      BY <2>9, ReturnType DEF EndScan
    <3>2. \A d \in Callers : pc'[d] = "scan" <=> holder' = d
      BY <2>9, NoneAssumption DEF EndScan, Return, TypeOK
    <3>3. report' \in [findings : FindingSets, at : Int, ended : 0..now', scan : 0..scans']
      <4>1. wall \in Int /\ now \in 0..now' /\ scans \in 0..scans'
        BY <2>9, TimeAssumption DEF EndScan, TypeOK
      <4> QED
        BY <2>9, <4>1, FindingsType DEF EndScan
    <3>4. report'.at <= wall'
      BY <2>9 DEF EndScan, TypeOK
    <3>5. /\ heard' \in [Sources -> Answers \cup {None}]
          /\ \A p \in Sources : heard'[p] \in Says(p) \cup {None}
      BY <2>9, NothingHeard DEF EndScan
    <3> QED
      BY <2>9, <3>1, <3>2, <3>3, <3>4, <3>5 DEF EndScan, TypeOK
  <2> QED
    BY <2>1, <2>2, <2>3, <2>4, <2>5, <2>6, <2>7, <2>8, <2>9 DEF Next, Scan
<1> QED
  BY <1>1, TypeInit, PTL DEF Spec

-----------------------------------------------------------------------------
(* What a finding may claim                                                *)

\* The host's present state is a set of facts.
LEMMA FactsHold == ASSUME NEW p \in Sources PROVE <<p, host[p]>> \in Facts
  BY DEF Facts

\* What has been heard stays so through every step of a scan.
LEMMA HeardStep == TypeOK /\ HeardInv /\ [Next]_vars => HeardInv'
<1> SUFFICES ASSUME TypeOK, HeardInv, [Next]_vars, holder' # None
             PROVE  /\ Facts' \subseteq shown'
                    /\ \A p \in Sources : heard'[p] \in {None, "denied"}
                                          \/ <<p, heard'[p]>> \in shown'
                    /\ \A p \in ToSet(Certs) : heard'[p] = None \/ <<p, heard'[p]>> \in shown'
  BY DEF HeardInv
<1> USE DEF cacheVars, timeVars, bounds
<1>1. CASE UNCHANGED <<host, heard, holder, shown>>
  BY <1>1 DEF HeardInv, Facts
<1>2. CASE HostChanges
  BY <1>2 DEF HostChanges, HeardInv
<1>3. CASE Tick \/ SetClockBack
  BY <1>1, <1>3 DEF Tick, SetClockBack
<1>4. CASE Ask
  <2>1. PICK i \in Remaining :
           \/ heard' = [heard EXCEPT ![Order[i]] = host[Order[i]]]
           \/ heard' = [heard EXCEPT ![Order[i]] = "denied"] /\ MayFail(Order[i])
    BY <1>4 DEF Ask
  <2>2. Order[i] \in Sources
    BY PlaceIsSource DEF Remaining
  <2>3. /\ UNCHANGED <<shown, host, holder>> /\ Facts' = Facts /\ holder # None
        /\ heard \in [Sources -> Answers \cup {None}]
    BY <1>4 DEF Ask, Facts, TypeOK
  <2>4. <<Order[i], host[Order[i]]>> \in shown
    BY <2>2, <2>3, FactsHold DEF HeardInv
  <2>5. MayFail(Order[i]) => Order[i] \notin ToSet(Certs)
    BY CertsAssumption DEF MayFail
  <2>6. \A p \in ToSet(Certs) : p \in Sources
    BY OrderCovers
  <2> QED
    BY <2>1, <2>2, <2>3, <2>4, <2>5, <2>6 DEF HeardInv
<1>5. ASSUME NEW c \in Callers, NEW r \in BOOLEAN, Call(c, r) \/ ServeCached(c)
      PROVE  UNCHANGED <<host, heard, holder, shown>>
  BY <1>5 DEF Call, ServeCached
<1>6. ASSUME NEW c \in Callers, BeginScan(c)
      PROVE  /\ Facts' = shown'
             /\ \A p \in Sources : heard'[p] = None
  BY <1>6 DEF BeginScan, Facts
<1>7. ASSUME NEW c \in Callers, EndScan(c) PROVE FALSE
  BY <1>7 DEF EndScan
<1>8. \A p \in ToSet(Certs) : p \in Sources
  BY OrderCovers
<1> QED
  BY <1>1, <1>2, <1>3, <1>4, <1>5, <1>6, <1>7, <1>8 DEF Next, Scan, vars

\* A command that was heard to say something other than a failure was shown.
LEMMA HeardWasShown ==
  ASSUME HeardInv, holder # None, NEW p \in ToSet(Commands), NEW v \in Says(p) \ {"denied"},
         heard[p] = v
  PROVE  <<p, v>> \in shown
<1>1. p \in Sources /\ v # None
  BY OrderCovers, NoneAssumption
<1> QED
  BY <1>1 DEF HeardInv

\* When a scan is over every certificate has been read.
LEMMA CertsAsked ==
  ASSUME Remaining = {}, NEW p \in ToSet(Certs)
  PROVE  heard[p] # None
<1>1. PICK i \in DOMAIN Order : Order[i] = p
  BY OrderCovers
<1>2. p \notin {"sshd_config", "firewalld", "nft"}
  BY CommandNames, CertsAssumption
<1>3. Needed(p)
  BY <1>2 DEF Needed
<1> QED
  BY <1>1, <1>3 DEF Remaining, Asked

\* What the commands a check can pass on say is no failure.
LEMMA GoodAnswers ==
  /\ "none" \in Says("updates") \ {"denied"} /\ "local" \in Says("listeners") \ {"denied"}
  /\ "strict" \in Says("sshd") \ {"denied"} /\ "strict" \in Says("sshd_config") \ {"denied"}
  /\ "active" \in Says("ufw") \ {"denied"} /\ "running" \in Says("firewalld") \ {"denied"}
  /\ "backup" \in Says("timers") \ {"denied"} /\ "backup" \in Says("crontab") \ {"denied"}
<1>1. \A p \in ToSet(Commands) : p \notin ToSet(Certs)
  BY CertsAssumption
<1> QED
  BY <1>1, CommandNames DEF Says, CommandSays

\* The findings of a scan that is over pass only on what was shown.
LEMMA FindingsShown ==
  ASSUME TypeOK, HeardInv, holder # None, Remaining = {},
         NEW c \in Checks, Findings[c] = "pass"
  PROVE  Basis(shown)[c]
<1> USE CommandNames, GoodAnswers
<1>1. CASE c = "updates"
  <2>1. heard["updates"] = "none"
    BY <1>1 DEF Findings, Updates
  <2>2. <<"updates", "none">> \in shown
    BY <2>1, HeardWasShown
  <2> QED
    BY <1>1, <2>2 DEF Basis
<1>2. CASE c = "listeners"
  <2>1. heard["listeners"] = "local"
    BY <1>2 DEF Findings, Listeners
  <2>2. <<"listeners", "local">> \in shown
    BY <2>1, HeardWasShown
  <2> QED
    BY <1>2, <2>2 DEF Basis
<1>3. CASE c = "ssh"
  <2>1. \/ heard["sshd"] = "strict"
        \/ heard["sshd"] = "denied" /\ heard["sshd_config"] = "strict"
    BY <1>3 DEF Findings, SSH
  <2>2. \/ <<"sshd", "strict">> \in shown
        \/ heard["sshd"] = "denied" /\ <<"sshd_config", "strict">> \in shown
    BY <2>1, HeardWasShown
  <2> QED
    BY <1>3, <2>2 DEF Basis
<1>4. CASE c = "firewall"
  <2>1. \/ heard["ufw"] = "active"
        \/ heard["ufw"] = "denied" /\ heard["firewalld"] = "running"
    BY <1>4 DEF Findings, Firewall
  <2>2. \/ <<"ufw", "active">> \in shown
        \/ heard["ufw"] = "denied" /\ <<"firewalld", "running">> \in shown
    BY <2>1, HeardWasShown
  <2> QED
    BY <1>4, <2>2 DEF Basis
<1>5. CASE c = "backups"
  <2>1. heard["timers"] = "backup" \/ heard["crontab"] = "backup"
    BY <1>5 DEF Findings, Backups
  <2>2. <<"timers", "backup">> \in shown \/ <<"crontab", "backup">> \in shown
    BY <2>1, HeardWasShown
  <2> QED
    BY <1>5, <2>2 DEF Basis
<1>6. CASE c = "certificates"
  <2> DEFINE read == {heard[p] : p \in ToSet(Certs)} \ {"denied"}
  <2>1. "expired" \notin read /\ "expiring" \notin read /\ read # {}
    BY <1>6 DEF Findings, Certificates
  <2>2. ASSUME NEW p \in ToSet(Certs)
        PROVE  heard[p] \in {"denied", "valid"} /\ <<p, heard[p]>> \in shown
    <3>1. p \in Sources /\ heard[p] # None
      BY OrderCovers, CertsAsked
    <3>2. heard[p] \in {"denied", "valid", "expiring", "expired"}
      BY <3>1 DEF TypeOK, Says
    <3>3. heard[p] # "denied" => heard[p] \in read
      OBVIOUS
    <3>4. heard[p] \in {"denied", "valid"}
      BY <2>1, <3>2, <3>3
    <3> QED
      BY <3>1, <3>4 DEF HeardInv
  <2>3. \E p \in ToSet(Certs) : heard[p] # "denied"
    BY <2>1
  <2>4. /\ \E p \in ToSet(Certs) : <<p, "valid">> \in shown
        /\ \A p \in ToSet(Certs) : <<p, "valid">> \in shown \/ <<p, "denied">> \in shown
    BY <2>2, <2>3
  <2> QED
    BY <1>6, <2>4 DEF Basis
<1> QED
  BY <1>1, <1>2, <1>3, <1>4, <1>5, <1>6 DEF Checks

\* No finding passes on something the agent could not find out: a check passes
\* in a new report only if the host was in order at some moment of the very
\* scan that made it.
THEOREM PassIsSeen == Spec => PassWasSeen
<1>1. TypeOK /\ HeardInv /\ [Next]_vars =>
        [report'.scan # report.scan =>
           \A c \in Checks : report'.findings[c] = "pass" => Basis(shown)[c]]_vars
  <2> SUFFICES ASSUME TypeOK, HeardInv, [Next]_vars, report'.scan # report.scan,
                      NEW c \in Checks, report'.findings[c] = "pass"
               PROVE  Basis(shown)[c]
    OBVIOUS
  <2>1. \E d \in Callers : EndScan(d)
    BY DEF Next, Scan, vars, cacheVars, HostChanges, Tick, SetClockBack, Ask, Call,
           ServeCached, BeginScan
  <2>2. holder # None /\ Remaining = {} /\ report'.findings = Findings
    BY <2>1, NoneAssumption DEF EndScan
  <2> QED
    BY <2>2, FindingsShown
<1>2. Init => HeardInv
  BY DEF Init, HeardInv
<1> QED
  BY <1>1, <1>2, HeardStep, TypeCorrect, PTL DEF Spec, PassWasSeen

-----------------------------------------------------------------------------
(* How old a report may be                                                 *)

\* A scan is numbered after the request that runs it.
LEMMA FreshStep == TypeOK /\ FreshInv /\ [Next]_vars => FreshInv'
<1> SUFFICES ASSUME TypeOK, FreshInv, [Next]_vars PROVE FreshInv'
  OBVIOUS
<1> USE DEF cacheVars, timeVars, bounds
<1>0. /\ pc \in [Callers -> {"idle", "lock", "scan"}] /\ before \in [Callers -> 0..scans]
      /\ scans \in Nat
  BY DEF TypeOK
<1>1. CASE UNCHANGED <<pc, before, scans>>
  BY <1>1 DEF FreshInv
<1>2. CASE HostChanges \/ Tick \/ SetClockBack \/ Ask
  BY <1>1, <1>2 DEF HostChanges, Tick, SetClockBack, Ask
<1>3. ASSUME NEW c \in Callers, NEW r \in BOOLEAN, Call(c, r) PROVE FreshInv'
  BY <1>0, <1>3 DEF Call, FreshInv
<1>4. ASSUME NEW c \in Callers, ServeCached(c) \/ EndScan(c) PROVE FreshInv'
  BY <1>0, <1>4 DEF ServeCached, Locks, EndScan, Return, FreshInv
<1>5. ASSUME NEW c \in Callers, BeginScan(c) PROVE FreshInv'
  BY <1>0, <1>5 DEF BeginScan, Locks, FreshInv
<1> QED
  BY <1>1, <1>2, <1>3, <1>4, <1>5 DEF Next, Scan, vars

\* The clock is right until it is set back, and stays behind after that.
LEMMA ClockStep == TypeOK /\ ClockInv /\ [Next]_vars => ClockInv'
<1> SUFFICES ASSUME TypeOK, ClockInv, [Next]_vars PROVE ClockInv'
  OBVIOUS
<1> USE DEF cacheVars, timeVars, bounds
<1>1. now \in Nat /\ wall \in Int /\ Setback \in Nat /\ setBack \in BOOLEAN
  BY TimeAssumption, SetbackAssumption DEF TypeOK
<1>2. report.at \in Int /\ report.ended \in Int
  <2>1. CASE report = NoReport
    BY <2>1 DEF NoReport
  <2>2. CASE report # NoReport
    BY <1>1, <2>2 DEF TypeOK
  <2> QED
    BY <2>1, <2>2
<1>3. CASE UNCHANGED <<timeVars, report>>
  BY <1>3 DEF ClockInv
<1>4. CASE HostChanges \/ Ask
  BY <1>3, <1>4 DEF HostChanges, Ask
<1>5. CASE Tick
  BY <1>1, <1>5 DEF Tick, ClockInv
<1>6. CASE SetClockBack
  <2>1. wall = now /\ report.at = report.ended
    BY <1>1, <1>2, <1>6 DEF SetClockBack, ClockInv
  <2> QED
    BY <1>1, <1>2, <1>6, <2>1 DEF SetClockBack, ClockInv
<1>7. ASSUME NEW c \in Callers, NEW r \in BOOLEAN,
             Call(c, r) \/ ServeCached(c) \/ BeginScan(c)
      PROVE  ClockInv'
  BY <1>3, <1>7 DEF Call, ServeCached, BeginScan
<1>8. ASSUME NEW c \in Callers, EndScan(c) PROVE ClockInv'
  <2>1. report'.at = wall /\ report'.ended = now /\ UNCHANGED timeVars
    BY <1>8 DEF EndScan
  <2> QED
    BY <1>1, <2>1 DEF ClockInv
<1> QED
  BY <1>3, <1>4, <1>5, <1>6, <1>7, <1>8 DEF Next, Scan, vars

\* The invariant behind the theorems.
LEMMA InductiveInvariant == Spec => []IInv
<1>1. Init => HeardInv /\ FreshInv
  BY DEF Init, HeardInv, FreshInv
<1>2. Init => ClockInv
  BY DEF Init, ClockInv, NoReport
<1> QED
  BY <1>1, <1>2, TypeCorrect, HeardStep, FreshStep, ClockStep, PTL DEF Spec, IInv

\* Who is answered had a report in the cache, or has run a scan.
LEMMA AnswerIs ==
  ASSUME TypeOK, [Next]_vars, NEW c \in Callers, Answered(c)
  PROVE  ServeCached(c) \/ EndScan(c)
<1>1. pc \in [Callers -> {"idle", "lock", "scan"}] /\ pc[c] # "idle" /\ pc'[c] = "idle"
  BY DEF TypeOK, Answered
<1>2. ~UNCHANGED pc
  BY <1>1
<1>3. ~(HostChanges \/ Tick \/ SetClockBack \/ Ask)
  BY <1>2 DEF HostChanges, Tick, SetClockBack, Ask, cacheVars
<1>4. ASSUME NEW d \in Callers, NEW r \in BOOLEAN, Call(d, r) PROVE FALSE
  BY <1>1, <1>4 DEF Call
<1>5. ASSUME NEW d \in Callers, BeginScan(d) PROVE FALSE
  BY <1>1, <1>5 DEF BeginScan, Locks
<1>6. ASSUME NEW d \in Callers, ServeCached(d) \/ EndScan(d) PROVE d = c
  BY <1>1, <1>6 DEF ServeCached, Locks, EndScan, Return
<1> QED
  BY <1>2, <1>3, <1>4, <1>5, <1>6 DEF Next, Scan, vars, cacheVars

\* Who asks for a fresh report gets one of a scan that began after the request,
\* however many requests wait for the mutex.
THEOREM RefreshAlwaysFresh == Spec => RefreshIsFresh
<1>1. IInv /\ [Next]_vars =>
        [\A c \in Callers : Answered(c) /\ refresh[c] => report'.scan > before[c]]_vars
  <2> SUFFICES ASSUME IInv, [Next]_vars, NEW c \in Callers, Answered(c), refresh[c]
               PROVE  report'.scan > before[c]
    OBVIOUS
  <2>1. EndScan(c)
    BY AnswerIs DEF IInv, ServeCached, Usable
  <2>2. pc[c] = "scan" /\ report'.scan = scans
    BY <2>1 DEF EndScan, IInv, TypeOK
  <2>3. before[c] < scans /\ before[c] \in Nat /\ scans \in Nat
    BY <2>2 DEF IInv, FreshInv, TypeOK
  <2> QED
    BY <2>2, <2>3
<1> QED
  BY <1>1, InductiveInvariant, PTL DEF Spec, RefreshIsFresh

\* Everybody else gets a report of a scan that began after the request or one
\* that ended less than TTL ago; a clock that is set back adds to that what it
\* was set back by, for the report it found in the cache.
THEOREM ReportsAreRecent == Spec => CachedIsRecent
<1>1. IInv /\ [Next]_vars =>
        [\A c \in Callers : Answered(c) =>
           report'.scan > before[c] \/ now - report'.ended < TTL + Overtaken(report')]_vars
  <2> SUFFICES ASSUME IInv, [Next]_vars, NEW c \in Callers, Answered(c)
               PROVE  \/ report'.scan > before[c]
                      \/ now - report'.ended < TTL + Overtaken(report')
    OBVIOUS
  <2>1. CASE EndScan(c)
    <3>1. pc[c] = "scan" /\ report'.scan = scans
      BY <2>1 DEF EndScan, IInv, TypeOK
    <3>2. before[c] < scans /\ before[c] \in Nat /\ scans \in Nat
      BY <3>1 DEF IInv, FreshInv, TypeOK
    <3> QED
      BY <3>1, <3>2
  <2>2. CASE ServeCached(c)
    <3>1. report' = report /\ report # NoReport /\ wall - report.at < TTL
      BY <2>2 DEF ServeCached, Usable
    <3>2. PICK n \in Int, e \in Int, a \in Int, w \in Int :
            n = now /\ e = report.ended /\ a = report.at /\ w = wall
      BY <3>1, TimeAssumption DEF IInv, TypeOK
    <3>3. Setback \in Nat /\ TTL \in Nat
      BY SetbackAssumption, TTLAssumption
    <3>4. CASE ~setBack
      <4>1. w = n /\ a = e
        BY <3>2, <3>3, <3>4 DEF IInv, ClockInv
      <4>2. Overtaken(report') = 0
        BY <3>4 DEF Overtaken
      <4> QED
        BY <3>1, <3>2, <3>3, <4>1, <4>2
    <3>5. CASE setBack /\ a = e
      <4>1. w = n - Setback
        BY <3>2, <3>5 DEF IInv, ClockInv
      <4>2. Overtaken(report') = Setback
        BY <3>1, <3>2, <3>5 DEF Overtaken
      <4>3. n - e < TTL + Setback
        BY <3>1, <3>2, <3>3, <3>5, <4>1
      <4> QED
        BY <3>1, <3>2, <4>2, <4>3
    <3>6. CASE setBack /\ a # e
      <4>1. w = n - Setback /\ a = e - Setback
        BY <3>2, <3>6 DEF IInv, ClockInv
      <4>2. Overtaken(report') = 0
        BY <3>1, <3>2, <3>6 DEF Overtaken
      <4>3. n - e < TTL
        BY <3>1, <3>2, <3>3, <4>1
      <4> QED
        BY <3>1, <3>2, <3>3, <4>2, <4>3
    <3> QED
      BY <3>4, <3>5, <3>6
  <2> QED
    BY <2>1, <2>2, AnswerIs DEF IInv
<1> QED
  BY <1>1, InductiveInvariant, PTL DEF Spec, CachedIsRecent
=============================================================================
