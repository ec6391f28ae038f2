-------------------------- MODULE MCSecurityAudit --------------------------
(* Two hosts: one where everything can be read and is in order, and one    *)
(* as an unprivileged agent finds it, where fallbacks have to answer.      *)
EXTENDS SecurityAudit, TLC

OneCert == <<"fullchain.pem">>

InOrder ==
  [p \in Sources |->
     CASE p = "updates" -> "none"       [] p = "listeners" -> "local"
       [] p = "sshd" -> "strict"        [] p = "sshd_config" -> "strict"
       [] p = "ufw" -> "active"         [] p = "firewalld" -> "denied"
       [] p = "nft" -> "rules"          [] p = "timers" -> "backup"
       [] p = "crontab" -> "none"       [] OTHER -> "valid"]

Unprivileged ==
  [InOrder EXCEPT !["sshd"] = "denied", !["ufw"] = "denied", !["firewalld"] = "running",
                  !["nft"] = "denied", !["timers"] = "none", !["fullchain.pem"] = "denied"]

MCHosts == {InOrder, Unprivileged}

MCChanges ==
  {<<"updates", "pending">>, <<"sshd_config", "lax">>, <<"ufw", "inactive">>,
   <<"timers", "denied">>, <<"fullchain.pem", "expired">>}

CallersAreAlike == Permutations(Callers)
=============================================================================
