--------------------------- MODULE SecurityAudit ---------------------------
(***************************************************************************)
(* GET /api/v1/security: the cached scanner of internal/securityaudit and  *)
(* the scan it runs, while several requests arrive, the host changes,      *)
(* commands fail or time out, and the clock is set back.                   *)
(*                                                                         *)
(* A scan asks sources (commands and files) one after the other; which     *)
(* ones depends on the answers before. An answer is what the host says at  *)
(* that moment, or "denied": not installed, no permission, unreadable,     *)
(* blank, an unsupported package manager, or a timeout. The mutex of the   *)
(* cached scanner is held for the whole scan.                              *)
(***************************************************************************)
EXTENDS Integers, SequencesExt

CONSTANTS
  Callers,      \* requests in progress at once
  Certs,        \* the certificate files, a sequence in the order of the glob
  Hosts,        \* the states the host can be in at first
  Changes,      \* what may change on it: pairs of a source and what it says then
  TTL,          \* age from which a report is not served from the cache
  Setback,      \* how far the wall clock is set back
  None,         \* nobody, nothing
  MaxCalls, MaxChanges, MaxFailures, MaxTime    \* bounds

ASSUME TTLAssumption  == TTL \in Nat \ {0}
ASSUME TimeAssumption == MaxTime \in Nat
ASSUME SetbackAssumption == Setback \in Nat

\* The commands and the file, in the order they are asked, then certificates.
Commands == <<"updates", "listeners", "sshd", "sshd_config", "ufw", "firewalld", "nft",
              "timers", "crontab">>
Order    == Commands \o Certs
Sources  == ToSet(Order)

ASSUME CertsAssumption ==
  Certs \in Seq(ToSet(Certs)) /\ ToSet(Certs) \cap ToSet(Commands) = {}

\* What a source says of the host.
CommandSays ==
  [updates   |-> {"none", "pending"},
   listeners |-> {"local", "public"},
   sshd      |-> {"strict", "lax", "partial"}, sshd_config |-> {"strict", "lax", "partial"},
   ufw       |-> {"inactive", "active"},
   firewalld |-> {"stopped", "running"},
   nft       |-> {"empty", "rules"},
   timers    |-> {"none", "backup"},           crontab     |-> {"none", "backup"}]

Says(p) ==
  {"denied"} \cup IF p \in ToSet(Certs) THEN {"valid", "expiring", "expired"} ELSE CommandSays[p]

Answers == UNION {Says(p) : p \in Sources}

HostStates == {h \in [Sources -> Answers] : \A p \in Sources : h[p] \in Says(p)}

ASSUME HostsAssumption   == Hosts \subseteq HostStates
ASSUME ChangesAssumption ==
  \A change \in Changes : change[1] \in Sources /\ change[2] \in Says(change[1])
ASSUME NoneAssumption    == None \notin Callers /\ \A p \in Sources : None \notin Says(p)

\* The report's findings, by check.
FindingSets ==
  [updates      : {"pass", "fail", "unknown"},
   listeners    : {"pass", "warning", "unknown"},
   ssh          : {"pass", "fail", "unknown"},
   firewall     : {"pass", "fail", "warning", "unknown"},
   backups      : {"pass", "warning"},
   certificates : {"pass", "fail", "warning", "unknown"}]

VARIABLES
  host,         \* what each source would say now
  heard,        \* what the sources asked so far in the running scan have said
  holder,       \* who holds CachedScanner.mu
  report,       \* CachedScanner.report
  pc,           \* where each caller is
  refresh,      \* whether it asked for a fresh report
  now, wall,    \* time, and what the wall clock makes of it
  \* history variables
  scans,        \* scans begun
  before,       \* of each caller: scans begun when it called
  shown,        \* what was true of the host at some moment of the running scan
  setBack, calls, changes, failures

cacheVars == <<holder, report, pc, refresh>>
timeVars  == <<now, wall, setBack>>
bounds    == <<calls, changes, failures>>
vars == <<host, heard, cacheVars, timeVars, scans, before, shown, bounds>>

Checks == {"updates", "listeners", "ssh", "firewall", "backups", "certificates"}

NoReport == [findings |-> None, at |-> 0, ended |-> 0, scan |-> 0]

Facts == {<<p, host[p]>> : p \in Sources}

TypeOK ==
  /\ host \in HostStates
  /\ heard \in [Sources -> Answers \cup {None}]
  /\ \A p \in Sources : heard[p] \in Says(p) \cup {None}
  /\ holder \in Callers \cup {None}
  /\ \/ report = NoReport
     \/ report \in [findings : FindingSets, at : Int, ended : 0..now, scan : 0..scans]
  /\ report.at <= wall \/ setBack
  /\ pc \in [Callers -> {"idle", "lock", "scan"}]
  /\ \A c \in Callers : pc[c] = "scan" <=> holder = c
  /\ refresh \in [Callers -> BOOLEAN]
  /\ now \in 0..MaxTime /\ wall \in Int
  /\ scans \in Nat /\ before \in [Callers -> 0..scans]
  /\ setBack \in BOOLEAN

Init ==
  /\ host \in Hosts
  /\ heard = [p \in Sources |-> None]
  /\ holder = None /\ report = NoReport
  /\ pc = [c \in Callers |-> "idle"]
  /\ refresh = [c \in Callers |-> FALSE]
  /\ now = 0 /\ wall = 0
  /\ scans = 0 /\ before = [c \in Callers |-> 0]
  /\ shown = {}
  /\ setBack = FALSE /\ calls = 0 /\ changes = 0 /\ failures = 0

-----------------------------------------------------------------------------
(* The environment                                                         *)

HostChanges ==
  /\ changes < MaxChanges
  /\ \E change \in Changes : host' = [host EXCEPT ![change[1]] = change[2]]
  /\ host' # host
  /\ changes' = changes + 1
  /\ shown' = IF holder = None THEN shown ELSE shown \cup Facts'
  /\ UNCHANGED <<heard, cacheVars, timeVars, scans, before, calls, failures>>

Tick ==
  /\ now < MaxTime
  /\ now' = now + 1
  /\ wall' = wall + 1
  /\ UNCHANGED <<host, heard, cacheVars, setBack, scans, before, shown, bounds>>

SetClockBack ==
  /\ ~setBack /\ setBack' = TRUE
  /\ wall' = wall - Setback
  /\ UNCHANGED <<host, heard, cacheVars, now, scans, before, shown, bounds>>

-----------------------------------------------------------------------------
(* SystemScanner.Scan                                                      *)

Asked(p) == heard[p] # None

\* Fallbacks are asked only when what they stand in for has said nothing.
Needed(p) ==
  /\ p = "sshd_config" => heard["sshd"] = "denied"
  /\ p = "firewalld"   => heard["ufw"] = "denied"
  /\ p = "nft"         => heard["ufw"] = "denied" /\ heard["firewalld"] # "running"

\* The places in the order of the sources that this scan has still to ask.
Remaining == {i \in DOMAIN Order : ~Asked(Order[i]) /\ Needed(Order[i])}

\* Mutant: a failed command has no output, hence no pending upgrades.
UpdatesIgnoringError ==
  IF heard["updates"] = "pending" THEN "fail" ELSE "pass"

Updates ==
  CASE heard["updates"] = "none"    -> "pass"
    [] heard["updates"] = "pending" -> "fail"
    [] OTHER                        -> "unknown"

Listeners ==
  CASE heard["listeners"] = "local"  -> "pass"
    [] heard["listeners"] = "public" -> "warning"
    [] OTHER                         -> "unknown"

SSH ==
  LET config == IF heard["sshd"] = "denied" THEN heard["sshd_config"] ELSE heard["sshd"]
  IN CASE config = "lax"    -> "fail"
       [] config = "strict" -> "pass"
       [] OTHER             -> "unknown"

Firewall ==
  LET silent == heard["ufw"] = "denied"
  IN CASE heard["ufw"] = "active"                  -> "pass"
       [] heard["ufw"] = "inactive"                -> "fail"
       [] silent /\ heard["firewalld"] = "running" -> "pass"
       [] silent /\ heard["firewalld"] # "running" /\ heard["nft"] = "rules" -> "warning"
       [] OTHER                                    -> "unknown"

Backups == IF "backup" \in {heard["timers"], heard["crontab"]} THEN "pass" ELSE "warning"

\* Files that cannot be read or parsed are skipped.
Certificates ==
  LET read == {heard[p] : p \in ToSet(Certs)} \ {"denied"}
  IN CASE "expired" \in read     -> "fail"
       [] read = {}              -> "unknown"
       [] read = {"valid"}       -> "pass"
       [] OTHER                  -> "warning"

Findings ==
  [updates |-> Updates, listeners |-> Listeners, ssh |-> SSH, firewall |-> Firewall,
   backups |-> Backups, certificates |-> Certificates]

\* A command may fail, or run into its timeout, whatever the host is like.
MayFail(p) == p \in ToSet(Commands) \ {"sshd_config"} /\ failures < MaxFailures

\* The next source is asked.
Ask ==
  /\ holder # None
  /\ \E i \in Remaining :
       /\ \A j \in Remaining : i <= j
       /\ \/ heard' = [heard EXCEPT ![Order[i]] = host[Order[i]]] /\ UNCHANGED failures
          \/ /\ MayFail(Order[i])
             /\ heard' = [heard EXCEPT ![Order[i]] = "denied"]
             /\ failures' = failures + 1
  /\ UNCHANGED <<host, cacheVars, timeVars, scans, before, shown, calls, changes>>

-----------------------------------------------------------------------------
(* CachedScanner.Scan                                                      *)

Call(c, r) ==
  /\ pc[c] = "idle" /\ calls < MaxCalls
  /\ calls' = calls + 1
  /\ pc' = [pc EXCEPT ![c] = "lock"]
  /\ refresh' = [refresh EXCEPT ![c] = r]
  /\ before' = [before EXCEPT ![c] = scans]
  /\ UNCHANGED <<host, heard, holder, report, timeVars, scans, shown, changes, failures>>

\* The request is answered and forgotten.
Return(c) ==
  /\ pc' = [pc EXCEPT ![c] = "idle"]
  /\ refresh' = [refresh EXCEPT ![c] = FALSE]
  /\ before' = [before EXCEPT ![c] = 0]

\* Mutant: whoever had to wait for a scan takes its report.
UsableAfterWait(c) ==
  /\ report # NoReport
  /\ report.scan >= before[c] \/ (~refresh[c] /\ wall - report.at < TTL)

\* The report may be served again. Its stamp has no monotonic reading.
Usable(c) == ~refresh[c] /\ report # NoReport /\ wall - report.at < TTL

\* Mutant: the mutex is held for the look at the cache only, not for the scan.
HasLookedUp(c) == pc[c] = "lock"

\* The caller gets the mutex.
Locks(c) == pc[c] = "lock" /\ holder = None

\* Mutant: every use makes a report younger.
ServeCachedAnew(c) ==
  /\ Locks(c)
  /\ Usable(c)
  /\ report' = [report EXCEPT !.at = wall]
  /\ Return(c)
  /\ UNCHANGED <<host, heard, holder, timeVars, scans, shown, bounds>>

\* The cached report is the answer.
ServeCached(c) ==
  /\ Locks(c)
  /\ Usable(c)
  /\ Return(c)
  /\ UNCHANGED <<host, heard, holder, report, timeVars, scans, shown, bounds>>

BeginScan(c) ==
  /\ Locks(c)
  /\ ~Usable(c)
  /\ holder' = c
  /\ pc' = [pc EXCEPT ![c] = "scan"]
  /\ heard' = [p \in Sources |-> None]
  /\ scans' = scans + 1
  /\ shown' = Facts
  /\ UNCHANGED <<host, report, refresh, timeVars, before, bounds>>

\* The report is stamped when the scan is over, stored, and the answer.
EndScan(c) ==
  /\ holder = c /\ Remaining = {}
  /\ report' = [findings |-> Findings, at |-> wall, ended |-> now, scan |-> scans]
  /\ holder' = None
  /\ Return(c)
  /\ heard' = [p \in Sources |-> None]
  /\ shown' = {}
  /\ UNCHANGED <<host, timeVars, scans, bounds>>

-----------------------------------------------------------------------------
Scan(c) == ServeCached(c) \/ BeginScan(c) \/ EndScan(c)

Next ==
  \/ HostChanges \/ Tick \/ SetClockBack \/ Ask
  \/ \E c \in Callers : Scan(c) \/ \E r \in BOOLEAN : Call(c, r)

Spec == Init /\ [][Next]_vars

-----------------------------------------------------------------------------
(* Properties                                                              *)

\* What the host must have shown for each check to pass. A second choice counts
\* only if the first one said nothing.
Basis(facts) ==
  LET Shown(p, v) == <<p, v>> \in facts
      Silent(p)   == heard[p] = "denied"
  IN [updates   |-> Shown("updates", "none"),
      listeners |-> Shown("listeners", "local"),
      ssh       |->
        Shown("sshd", "strict") \/ (Silent("sshd") /\ Shown("sshd_config", "strict")),
      firewall  |->
        Shown("ufw", "active") \/ (Silent("ufw") /\ Shown("firewalld", "running")),
      backups   |-> Shown("timers", "backup") \/ Shown("crontab", "backup"),
      certificates |->
        /\ \E p \in ToSet(Certs) : Shown(p, "valid")
        /\ \A p \in ToSet(Certs) : Shown(p, "valid") \/ Shown(p, "denied")]

\* "Unknown is not reported as pass" (scanner_test.go): a check passes in a new
\* report only if the host was seen to be in order at some moment of the very
\* scan that made it, whatever failed, changed or was read meanwhile; and by a
\* fallback only if what it stands in for could not be asked.
PassWasSeen ==
  [][report'.scan # report.scan =>
       \A c \in Checks : report'.findings[c] = "pass" => Basis(shown)[c]]_vars

Answered(c) == pc[c] # "idle" /\ pc'[c] = "idle"

\* "explicitly refreshed": who asks for a refresh gets a report of a scan that
\* began after the request, not of one that was running when it arrived.
RefreshIsFresh ==
  [][\A c \in Callers : Answered(c) /\ refresh[c] => report'.scan > before[c]]_vars

\* How far the clock has been set back since a report was stamped; one stamped
\* after that does not have the time at which it was made.
Overtaken(r) == IF setBack /\ r.at = r.ended THEN Setback ELSE 0

\* Otherwise the report is of a scan that began after the request, or one that
\* ended less than TTL ago. A clock set back keeps the report at hand for just
\* as much longer, and no other.
CachedIsRecent ==
  [][\A c \in Callers : Answered(c) =>
       report'.scan > before[c] \/ now - report'.ended < TTL + Overtaken(report')]_vars
=============================================================================
