--------------------------- MODULE ConnectAttempt ---------------------------
(***************************************************************************)
(* query_or_connect of src/src/lib.rs, called by any number of processes   *)
(* (the connect service, the power monitor, the auto-lock loop, the        *)
(* keyring helper, the command line): one attempt, with one time budget,   *)
(* to bring up an encrypted LE link to the phone on hci0.                  *)
(*                                                                         *)
(* The processes share the flock on /run/bluetooth-auth/hci0.lock, the     *)
(* kernel's connection table and BlueZ, which holds the temporary HID      *)
(* application and advertisement of each bus connection.  A process may    *)
(* be killed between any two steps.                                        *)
(***************************************************************************)
EXTENDS Naturals, FiniteSets

CONSTANTS Client,     \* processes that call query_or_connect
          Holder,     \* everything that may take the lock; includes Client
          Nobody,     \* the lock is free
          Budget      \* timeout_ms, in ticks

ASSUME ConnectAssumption ==
  /\ Client \subseteq Holder
  /\ Nobody \notin Holder
  /\ Budget \in Nat

VARIABLES
  pc,         \* where each client is in query_or_connect
  result,     \* what its last call returned
  left,       \* ticks before its deadline
  lock,       \* who holds hci0.lock
  request,    \* its outstanding registration call to BlueZ
  hid, adv,   \* owners of the HID applications and advertisements in BlueZ
  preparing,  \* clients with a running prepare-le child
  orphans,    \* clients whose child outlived a kill
  adapter,    \* hci0, as kernel and BlueZ show it
  link,       \* the phone's LE link
  linkedSince \* history: encrypted in every state since the adapter was ready

clientVars == <<pc, result, left, request, preparing, orphans, linkedSince>>
bluezVars  == <<hid, adv>>
envVars    == <<adapter, link>>
vars       == <<clientVars, lock, bluezVars, envVars>>

\* Mutant: the wait for the lock is outside the timeout.
AwaitingOutsideLock == {"adapter", "prepare", "register", "advertise", "poll"}

Awaiting == {"lock", "adapter", "prepare", "register", "advertise", "poll"}
Timed    == Awaiting \cup {"recheck", "strict", "spawn"}
Cleanup  == {"reap", "close", "unlock"}
Location == {"idle", "query", "open"} \cup Timed \cup Cleanup
Holding  == Timed \ {"lock"}

Outcome == {"yes", "no", "nodev", "netdown", "error"}
Result  == {"none", "true", "false", "error", "killed"}
Request == {"none", "app", "adv", "ok", "rejected"}
Adapter == {"absent", "off", "on"}
Link    == {"none", "plain", "encrypted"}

TypeOK ==
  /\ pc \in [Client -> Location]
  /\ result \in [Client -> Result]
  /\ left \in [Client -> 0..Budget]
  /\ lock \in Holder \cup {Nobody}
  /\ request \in [Client -> Request]
  /\ hid \subseteq Holder /\ adv \subseteq Holder
  /\ preparing \subseteq Client /\ orphans \subseteq Client
  /\ adapter \in Adapter /\ link \in Link
  /\ linkedSince \subseteq Client

Init ==
  /\ pc = [c \in Client |-> "idle"]
  /\ result = [c \in Client |-> "none"]
  /\ left = [c \in Client |-> 0]
  /\ lock = Nobody
  /\ request = [c \in Client |-> "none"]
  /\ hid = {} /\ adv = {}
  /\ preparing = {} /\ orphans = {}
  /\ adapter \in Adapter
  /\ link \in IF adapter = "on" THEN Link ELSE {"none"}
  /\ linkedSince = {}

-----------------------------------------------------------------------------
(* The connection table, as query_connection reports it.                   *)

Linked == adapter = "on" /\ link = "encrypted"

Observation == { o \in Outcome :
  /\ o = "yes" => Linked
  /\ o = "no" => ~Linked /\ adapter # "absent"
  /\ o = "nodev" => adapter = "absent"
  /\ o = "netdown" => adapter = "off" }

\* The closure query: an absent or powered-off adapter is only "not connected".
Lenient(o) == IF o \in {"nodev", "netdown"} THEN "no" ELSE o

\* Elsewhere those two are errors like any other.
Strict(o) == IF o \in {"nodev", "netdown"} THEN "error" ELSE o

Verdict(o) == IF o = "yes" THEN "true" ELSE "error"

Goto(c, l) == pc' = [pc EXCEPT ![c] = l]

\* Mutant: an early return that skips the cleanup, but for the lock.
FinishAtUnlock(c, r) ==
  /\ Goto(c, "unlock")
  /\ result' = [result EXCEPT ![c] = r]

\* The timed future is over, with r: what is left is the cleanup.
Finish(c, r) ==
  /\ Goto(c, "reap")
  /\ result' = [result EXCEPT ![c] = r]

-----------------------------------------------------------------------------
(* Before the lock.                                                        *)

Call(c) ==
  /\ pc[c] = "idle"
  /\ Goto(c, "query")
  /\ result' = [result EXCEPT ![c] = "none"]
  /\ UNCHANGED <<left, lock, request, preparing, orphans, linkedSince, bluezVars, envVars>>

FirstQuery(c) ==
  /\ pc[c] = "query"
  /\ \E o \in Observation :
       IF Lenient(o) = "no"
       THEN Goto(c, "open") /\ UNCHANGED result
       ELSE Goto(c, "idle") /\ result' = [result EXCEPT ![c] = Verdict(o)]
  /\ UNCHANGED <<left, lock, request, preparing, orphans, linkedSince, bluezVars, envVars>>

\* The deadline is fixed here, then the lock file is opened.
OpenLock(c) ==
  /\ pc[c] = "open"
  /\ \/ /\ Goto(c, "lock")
        /\ left' = [left EXCEPT ![c] = Budget]
        /\ UNCHANGED result
     \/ /\ Goto(c, "idle")        \* no lock file, or no runtime
        /\ result' = [result EXCEPT ![c] = "error"]
        /\ UNCHANGED left
  /\ UNCHANGED <<lock, request, preparing, orphans, linkedSince, bluezVars, envVars>>

\* Mutant: a lock that does not exclude.
TryLockShared(c) ==
  /\ pc[c] = "lock"
  /\ lock' = c
  /\ Goto(c, "recheck")
  /\ UNCHANGED <<result, left, request, preparing, orphans, linkedSince, bluezVars, envVars>>

\* Mutant: the deadline is set when the lock is taken.
TryLockAfresh(c) ==
  /\ pc[c] = "lock" /\ lock = Nobody
  /\ lock' = c /\ left' = [left EXCEPT ![c] = Budget]
  /\ Goto(c, "recheck")
  /\ UNCHANGED <<result, request, preparing, orphans, linkedSince, bluezVars, envVars>>

\* A try_lock that would block only sleeps: no step.
TryLock(c) ==
  /\ pc[c] = "lock"
  /\ \/ /\ lock = Nobody
        /\ lock' = c
        /\ Goto(c, "recheck")
        /\ UNCHANGED result
     \/ /\ Finish(c, "error")
        /\ UNCHANGED lock
  /\ UNCHANGED <<left, request, preparing, orphans, linkedSince, bluezVars, envVars>>

-----------------------------------------------------------------------------
(* Under the lock.                                                         *)

Recheck(c) ==
  /\ pc[c] = "recheck"
  /\ \E o \in Observation :
       IF Lenient(o) = "no"
       THEN Goto(c, "adapter") /\ UNCHANGED result
       ELSE Finish(c, Verdict(o))
  /\ UNCHANGED <<left, lock, request, preparing, orphans, linkedSince, bluezVars, envVars>>

WaitForAdapter(c) ==
  /\ pc[c] = "adapter"
  /\ \/ /\ adapter = "on"
        /\ Goto(c, "strict")
        /\ linkedSince' = IF Linked THEN linkedSince \cup {c} ELSE linkedSince \ {c}
        /\ UNCHANGED result
     \/ /\ Finish(c, "error")      \* any other BlueZ or bus error
        /\ UNCHANGED linkedSince
  /\ UNCHANGED <<left, lock, request, preparing, orphans, bluezVars, envVars>>

\* Mutant: no second look after the wait for the adapter.
StrictQuerySkipped(c) ==
  /\ pc[c] = "strict"
  /\ Goto(c, "spawn")
  /\ UNCHANGED <<result, left, lock, request, preparing, orphans, linkedSince, bluezVars, envVars>>

StrictQuery(c) ==
  /\ pc[c] = "strict"
  /\ \E o \in Observation :
       IF Strict(o) = "no"
       THEN Goto(c, "spawn") /\ UNCHANGED result
       ELSE Finish(c, Verdict(o))
  /\ UNCHANGED <<left, lock, request, preparing, orphans, linkedSince, bluezVars, envVars>>

\* A helper that cannot be started is only logged.
SpawnHelper(c) ==
  /\ pc[c] = "spawn"
  /\ \/ Goto(c, "prepare") /\ preparing' = preparing \cup {c}
     \/ Goto(c, "register") /\ UNCHANGED preparing
  /\ UNCHANGED <<result, left, lock, request, orphans, linkedSince, bluezVars, envVars>>

\* The helper exits, or is killed after a failed write or wait; it is reaped
\* here, and its exit status is not looked at.
HelperReaped(c) ==
  /\ pc[c] = "prepare"
  /\ \/ Goto(c, "register") /\ preparing' = preparing \ {c} /\ UNCHANGED result
     \/ Finish(c, "error") /\ UNCHANGED preparing    \* a kill that fails
  /\ UNCHANGED <<left, lock, request, orphans, linkedSince, bluezVars, envVars>>

Asking(c) == [register |-> "app", advertise |-> "adv"][pc[c]]

SendRegistration(c) ==
  /\ pc[c] \in {"register", "advertise"}
  /\ request[c] = "none"
  /\ request' = [request EXCEPT ![c] = Asking(c)]
  /\ UNCHANGED <<pc, result, left, lock, preparing, orphans, linkedSince, bluezVars, envVars>>

RegistrationReply(c) ==
  /\ pc[c] \in {"register", "advertise"}
  /\ \/ /\ request[c] = "ok"
        /\ Goto(c, IF pc[c] = "register" THEN "advertise" ELSE "poll")
        /\ UNCHANGED result
     \/ /\ request[c] = "rejected"
        /\ Finish(c, "error")
  /\ request' = [request EXCEPT ![c] = "none"]
  /\ UNCHANGED <<left, lock, preparing, orphans, linkedSince, bluezVars, envVars>>

\* A query that finds no encrypted link only sleeps 10 ms: no step.
Poll(c) ==
  /\ pc[c] = "poll"
  /\ \E o \in Observation : Strict(o) # "no" /\ Finish(c, Verdict(o))
  /\ UNCHANGED <<left, lock, request, preparing, orphans, linkedSince, bluezVars, envVars>>

\* Mutant: running out of time counts as connected.
TimeoutTrue(c) ==
  /\ pc[c] \in Awaiting /\ left[c] = 0
  /\ Finish(c, "true")
  /\ UNCHANGED <<left, lock, request, preparing, orphans, linkedSince, bluezVars, envVars>>

\* timeout_at drops the future at whatever it awaits.
Timeout(c) ==
  /\ pc[c] \in Awaiting
  /\ left[c] = 0
  /\ Finish(c, "false")
  /\ UNCHANGED <<left, lock, request, preparing, orphans, linkedSince, bluezVars, envVars>>

-----------------------------------------------------------------------------
(* Cleanup, in the order of the code: child, bus connections, lock.        *)

\* A kill that fails is an error; the child is killed again when it is dropped.
Reap(c) ==
  /\ pc[c] = "reap"
  /\ preparing' = preparing \ {c}
  /\ \/ UNCHANGED result
     \/ c \in preparing /\ result' = [result EXCEPT ![c] = "error"]
  /\ Goto(c, "close")
  /\ UNCHANGED <<left, lock, request, orphans, linkedSince, bluezVars, envVars>>

\* Mutant: the runtime is dropped after the lock.
CloseBusLate(c) ==
  /\ pc[c] = "close"
  /\ Goto(c, "unlock")
  /\ UNCHANGED <<result, left, lock, request, preparing, orphans, linkedSince, bluezVars, envVars>>

\* BlueZ drops what a closed bus connection had registered or asked for.
CloseBus(c) ==
  /\ pc[c] = "close"
  /\ request' = [request EXCEPT ![c] = "none"]
  /\ hid' = hid \ {c}
  /\ adv' = adv \ {c}
  /\ Goto(c, "unlock")
  /\ UNCHANGED <<result, left, lock, preparing, orphans, linkedSince, envVars>>

Unlock(c) ==
  /\ pc[c] = "unlock"
  /\ lock' = IF lock = c THEN Nobody ELSE lock
  /\ linkedSince' = linkedSince \ {c}
  /\ Goto(c, "idle")
  /\ UNCHANGED <<result, left, request, preparing, orphans, bluezVars, envVars>>

\* The process dies with its lock and bus connections.  Its child lives on,
\* unless systemd kills the whole control group.
Kill(c) ==
  /\ pc[c] # "idle"
  /\ c \notin preparing \cap orphans    \* bound: one orphan per client
  /\ Goto(c, "idle")
  /\ result' = [result EXCEPT ![c] = "killed"]
  /\ lock' = IF lock = c THEN Nobody ELSE lock
  /\ request' = [request EXCEPT ![c] = "none"]
  /\ hid' = hid \ {c}
  /\ adv' = adv \ {c}
  /\ orphans' \in {orphans, orphans \cup (preparing \cap {c})}
  /\ preparing' = preparing \ {c}
  /\ linkedSince' = linkedSince \ {c}
  /\ UNCHANGED <<left, envVars>>

-----------------------------------------------------------------------------
(* BlueZ, the radio and time.                                              *)

BluezAccepts(c) ==
  /\ adapter # "absent"
  /\ \/ request[c] = "app" /\ hid' = hid \cup {c} /\ UNCHANGED adv
     \/ request[c] = "adv" /\ adv' = adv \cup {c} /\ UNCHANGED hid
  /\ request' = [request EXCEPT ![c] = "ok"]
  /\ UNCHANGED <<pc, result, left, lock, preparing, orphans, linkedSince, envVars>>

BluezRejects(c) ==
  /\ request[c] \in {"app", "adv"}
  /\ request' = [request EXCEPT ![c] = "rejected"]
  /\ UNCHANGED <<pc, result, left, lock, preparing, orphans, linkedSince, bluezVars, envVars>>

\* Losing the adapter loses its registrations; switching it off does not.
AdapterChanges ==
  /\ adapter' \in Adapter \ {adapter}
  /\ link' = "none"
  /\ linkedSince' = {}
  /\ IF adapter' = "absent" THEN hid' = {} /\ adv' = {} ELSE UNCHANGED bluezVars
  /\ UNCHANGED <<pc, result, left, lock, request, preparing, orphans>>

LinkChanges ==
  /\ adapter = "on"
  /\ link' \in Link \ {link}
  /\ linkedSince' = {}
  /\ UNCHANGED <<pc, result, left, lock, request, preparing, orphans, bluezVars, adapter>>

OrphanExits(c) ==
  /\ c \in orphans
  /\ orphans' = orphans \ {c}
  /\ UNCHANGED <<pc, result, left, lock, request, preparing, linkedSince, bluezVars, envVars>>

\* Time does not pass while a client is past its deadline: its timer has fired.
Tick ==
  /\ \E c \in Client : pc[c] \in Timed
  /\ \A c \in Client : pc[c] \in Timed => left[c] > 0
  /\ left' = [c \in Client |-> IF pc[c] \in Timed THEN left[c] - 1 ELSE left[c]]
  /\ UNCHANGED <<pc, result, lock, request, preparing, orphans, linkedSince, bluezVars, envVars>>

-----------------------------------------------------------------------------

\* What the code does by itself once it has been called.
Step(c) ==
  \/ FirstQuery(c) \/ OpenLock(c) \/ TryLock(c)
  \/ Recheck(c) \/ WaitForAdapter(c) \/ StrictQuery(c)
  \/ SpawnHelper(c) \/ HelperReaped(c)
  \/ SendRegistration(c) \/ RegistrationReply(c) \/ Poll(c)
  \/ Timeout(c)
  \/ Reap(c) \/ CloseBus(c) \/ Unlock(c)

Bluez(c) == BluezAccepts(c) \/ BluezRejects(c)

ClientNext == \E c \in Client :
  Call(c) \/ Step(c) \/ Kill(c) \/ Bluez(c) \/ OrphanExits(c)

Next == ClientNext \/ AdapterChanges \/ LinkChanges \/ Tick

Spec == Init /\ [][Next]_vars

\* The steps that need nothing but the processor, and the timer.
Prompt(c) ==
  \/ FirstQuery(c) \/ OpenLock(c) \/ Recheck(c) \/ StrictQuery(c) \/ SpawnHelper(c)
  \/ Timeout(c) \/ Reap(c) \/ CloseBus(c) \/ Unlock(c)

Fairness == WF_vars(Tick) /\ \A c \in Client : WF_vars(Prompt(c))

FairSpec == Spec /\ Fairness

-----------------------------------------------------------------------------
(* Safety.                                                                 *)

\* At any time BlueZ carries at most one HID application and one advertisement
\* of these processes: an attempt withdraws its own before the next may start
\* (the drop of the runtime before the lock, lib.rs:526-527).
OneHidAtATime == Cardinality(hid) <= 1 /\ Cardinality(adv) <= 1

\* Whatever a client has in BlueZ, or has asked of it and may still get, it
\* has under the lock; so a registration that BlueZ completes after the
\* deadline still dies before the lock is free (lib.rs:512-527).
RegisteredUnderLock == \A c \in Client :
  c \in hid \cup adv \/ request[c] # "none" => lock = c

\* The LE preparation, which removes pairings, runs only under its client's
\* lock: on a timeout the child is killed and reaped before the lock is
\* released (lib.rs:520-523).  Only a killed parent leaves one behind.
PreparationUnderLock == \A c \in preparing : lock = c

\* An attempt whose link was up when the adapter was found ready, and has
\* stayed up, does not prepare, register or advertise: it returns at the
\* second query under the lock (lib.rs:482-485).
NoAttemptOverALink == \A c \in linkedSince :
  pc[c] \notin {"spawn", "prepare", "register", "advertise", "poll"}

\* A finished call has left nothing behind, whatever ended it (lib.rs:519-528).
NothingLeftBehind == \A c \in Client : pc[c] = "idle" =>
  /\ lock # c
  /\ c \notin hid \cup adv \cup preparing
  /\ request[c] = "none"

\* Why the properties above hold, as an inductive invariant: where a client
\* must and may hold the lock, and what it may have in use there.
Exposing == {"register", "advertise", "poll", "reap", "close"}

LockDiscipline == \A c \in Client :
  /\ pc[c] \in Holding => lock = c
  /\ lock = c => pc[c] \in Holding \cup Cleanup
  /\ c \in hid \cup adv \/ request[c] # "none" => lock = c /\ pc[c] \in Exposing
  /\ c \in preparing => lock = c /\ pc[c] \in {"prepare", "reap"}
  /\ c \in linkedSince => Linked /\ pc[c] \in {"strict"} \cup Cleanup

\* A call answers true only in a step that sees the link encrypted; one that
\* ran out of time, or lost the adapter, never does (lib.rs:454, 479-485, 514-524).
TrueIsSeen == [][\A c \in Client :
  result'[c] = "true" /\ result[c] # "true" => Linked]_vars

\* Waiting for the lock, for the adapter, for the helper and for the phone all
\* eat one budget: it is set once, before the lock (lib.rs:457-459, 471).
OneBudget == [][\A c \in Client :
  pc[c] \in Timed /\ pc'[c] \in Timed => left'[c] <= left[c]]_vars

\* The attempts implement the slot of HidSlot: the lock is its owner, BlueZ's
\* registrations its exposure, the running helpers its work (lib.rs:471-527).
Slot == INSTANCE HidSlot WITH
  User <- Holder, owner <- lock, exposed <- hid \cup adv, working <- preparing
SlotSpec == Slot!Spec

(* Liveness, under FairSpec.                                               *)

\* Every call ends, even while another process keeps the lock, the adapter
\* is missing, BlueZ never answers or the helper hangs (lib.rs:471, 519).
EveryCallEnds == \A c \in Client : pc[c] = "query" ~> pc[c] = "idle"

=============================================================================
