----------------------------- MODULE MCServices -----------------------------
(***************************************************************************)
(* AutoLock, PowerMonitor, AuthEntry, LinkQuery and Probe for TLC.  They   *)
(* share no state, so a behaviour is one of one of them, and the others    *)
(* rest in one initial state: the states of the five are added, not        *)
(* multiplied.                                                             *)
(***************************************************************************)
EXTENDS AutoLock, PowerMonitor, AuthEntry, LinkQuery, Probe

VARIABLE part    \* the one that runs

servicesVars == <<vars, monitorVars, entryVars, queryVars, probeVars, part>>

ServicesInit ==
  /\ part \in {"auto-lock", "monitor", "entry", "query", "probe"}
  /\ Init /\ MonitorInit /\ AuthInit /\ QueryInit /\ ProbeInit
  /\ part # "auto-lock" => ~locked /\ ~noctalia /\ ~linked
  /\ part # "entry" => ~linkUp /\ request = [entry |-> "locker", user |-> "other", ruser |-> "other"]
  /\ part # "query" => present
  /\ part # "probe" => ~enroll /\ ~profile /\ bonds = {}

ServicesNext ==
  /\ \/ part = "auto-lock" /\ Next /\ UNCHANGED <<monitorVars, entryVars, queryVars, probeVars>>
     \/ part = "monitor" /\ MonitorNext /\ UNCHANGED <<vars, entryVars, queryVars, probeVars>>
     \/ part = "entry" /\ AuthNext /\ UNCHANGED <<vars, monitorVars, queryVars, probeVars>>
     \/ part = "query" /\ QueryNext /\ UNCHANGED <<vars, monitorVars, entryVars, probeVars>>
     \/ part = "probe" /\ ProbeNext /\ UNCHANGED <<vars, monitorVars, entryVars, queryVars>>
  /\ UNCHANGED part

ServicesSpec == ServicesInit /\ [][ServicesNext]_servicesVars

ServicesFairSpec ==
  /\ ServicesSpec
  /\ part = "monitor" => MonitorFairness
  /\ part = "entry" => AuthFairness

ServicesTypeOK == TypeOK /\ MonitorTypeOK /\ AuthTypeOK /\ ProbeTypeOK
=============================================================================
