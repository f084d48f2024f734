------------------------------ MODULE HidServer -----------------------------
(***************************************************************************)
(* bluetooth-auth-hid-server (src/src/bin/bluetooth-auth-hid-server.rs):   *)
(* the manual pairing helper.  Under the shared lock it saves the adapter  *)
(* settings, changes three of them, serves the HID application until a     *)
(* signal, and puts the settings back before it gives the lock up.         *)
(*                                                                         *)
(* lock, hid and adv are shared with ConnectAttempt.  A setting is TRUE or *)
(* FALSE; PairableTimeout is FALSE when it is 0, "no timeout".             *)
(***************************************************************************)
EXTENDS Naturals, Sequences

CONSTANTS Server,    \* runs of the helper
          Nobody     \* the lock is free

ASSUME ServerAssumption == Nobody \notin Server

VARIABLES
  spc,       \* where each run is
  at,        \* which setting it changes or restores next
  saved,     \* the originals it has read
  failed,    \* settings it could not restore
  ask,       \* its outstanding registration call to BlueZ
  signalled, \* runs with a SIGINT or SIGTERM not yet acted upon
  broken,    \* runs whose setup or service failed
  exit,      \* how each run ended
  settings,  \* the adapter's settings, in BlueZ
  home,      \* history: what the settings are to return to
  lock, hid, adv

serverVars == <<spc, at, saved, failed, ask, signalled, broken, exit, settings, home>>
sharedVars == <<lock, hid, adv>>

Property == {"Pairable", "Discoverable", "Connectable", "PairableTimeout"}

\* What the helper changes, in which order, and to what; and the order in which
\* it puts everything back.
Setup     == <<"Discoverable", "PairableTimeout", "Pairable">>
Wanted(p) == p = "Pairable"

\* Mutant: the settings are restored in another order.
RestoreInOrder == <<"Pairable", "Connectable", "Discoverable", "PairableTimeout">>

Restore == <<"Pairable", "Discoverable", "Connectable", "PairableTimeout">>

Blank   == [p \in Property |-> FALSE]   \* nothing read yet

Waiting   == {"register", "advertise", "serving"}   \* the awaits of select!
Modifying == {"setup", "drop", "restore"} \cup Waiting
Place     == {"off", "wait", "read"} \cup Modifying
Exit      == {"none", "ok", "error", "killed"}

ServerTypeOK ==
  /\ spc \in [Server -> Place]
  /\ at \in [Server -> 1..Len(Restore) + 1]
  /\ saved \in [Server -> [Property -> BOOLEAN]]
  /\ failed \in [Server -> SUBSET Property]
  /\ ask \in [Server -> {"none", "app", "adv", "ok", "rejected"}]
  /\ signalled \subseteq Server /\ broken \subseteq Server
  /\ exit \in [Server -> Exit]
  /\ settings \in [Property -> BOOLEAN] /\ home \in [Property -> BOOLEAN]

ServerInit ==
  /\ spc = [s \in Server |-> "off"]
  /\ at = [s \in Server |-> 1]
  /\ saved = [s \in Server |-> Blank]
  /\ failed = [s \in Server |-> {}]
  /\ ask = [s \in Server |-> "none"]
  /\ signalled = {} /\ broken = {}
  /\ exit = [s \in Server |-> "none"]
  /\ settings \in [Property -> BOOLEAN]
  /\ home = settings

-----------------------------------------------------------------------------

Move(s, l) == spc' = [spc EXCEPT ![s] = l]

Restart(s) == at' = [at EXCEPT ![s] = 1]
Advance(s) == at' = [at EXCEPT ![s] = @ + 1]

\* What a property call may change in the adapter: Discoverable may take
\* Connectable along.
Affected(p) == IF p = "Discoverable" THEN {{p}, {p, "Connectable"}} ELSE {{p}}

Written(p, v) ==
  { [q \in Property |-> IF q \in ps THEN v ELSE settings[q]] : ps \in Affected(p) }

\* A call that fails may still have been carried out: it has a time limit, and
\* BlueZ keeps the order of the calls.
MaybeWritten(p, v) == Written(p, v) \cup {settings}

\* The process is gone, with its memory, its lock and its registrations.
Gone(s, how) ==
  /\ Move(s, "off")
  /\ Restart(s)
  /\ saved' = [saved EXCEPT ![s] = Blank]
  /\ failed' = [failed EXCEPT ![s] = {}]
  /\ broken' = broken \ {s}
  /\ exit' = [exit EXCEPT ![s] = how]
  /\ lock' = IF lock = s THEN Nobody ELSE lock
  /\ hid' = hid \ {s} /\ adv' = adv \ {s}
  /\ ask' = [ask EXCEPT ![s] = "none"]
  /\ signalled' = signalled \ {s}
  /\ home' = IF how # "ok" /\ spc[s] \in Modifying THEN settings ELSE home

Launch(s) ==
  /\ spc[s] = "off"
  /\ Move(s, "wait")
  /\ exit' = [exit EXCEPT ![s] = "none"]
  /\ UNCHANGED <<at, saved, failed, ask, signalled, broken, settings, home, sharedVars>>

\* Mutant: a lock that does not exclude.
AcquireShared(s) ==
  /\ spc[s] = "wait"
  /\ lock' = s
  /\ Move(s, "read")
  /\ UNCHANGED <<at, saved, failed, ask, signalled, broken, exit, settings, home, hid, adv>>

AcquireLock(s) ==
  /\ spc[s] = "wait"
  /\ lock = Nobody
  /\ lock' = s
  /\ Move(s, "read")
  /\ UNCHANGED <<at, saved, failed, ask, signalled, broken, exit, settings, home, hid, adv>>

\* The originals are read under the lock; a failed read ends the run at once.
ReadOriginals(s) ==
  /\ spc[s] = "read"
  /\ \/ /\ saved' = [saved EXCEPT ![s] = settings]
        /\ Move(s, "setup")
        /\ UNCHANGED <<at, failed, ask, signalled, broken, exit, home, sharedVars>>
     \/ Gone(s, "error")
  /\ UNCHANGED settings

ChangeSetting(s) ==
  /\ spc[s] = "setup"
  /\ LET p == Setup[at[s]]
     IN  \/ /\ settings' \in Written(p, Wanted(p))
            /\ IF at[s] = Len(Setup) THEN Move(s, "register") ELSE Move(s, "setup")
            /\ Advance(s)
            /\ UNCHANGED broken
         \/ /\ settings' \in MaybeWritten(p, Wanted(p))
            /\ broken' = broken \cup {s}
            /\ Move(s, "drop")
            /\ UNCHANGED at
  /\ UNCHANGED <<saved, failed, ask, signalled, exit, home, sharedVars>>

Register(s) ==
  /\ spc[s] \in {"register", "advertise"}
  /\ \/ /\ ask[s] = "none"
        /\ ask' = [ask EXCEPT ![s] = IF spc[s] = "register" THEN "app" ELSE "adv"]
        /\ UNCHANGED <<spc, broken>>
     \/ /\ ask[s] = "ok"
        /\ ask' = [ask EXCEPT ![s] = "none"]
        /\ Move(s, IF spc[s] = "register" THEN "advertise" ELSE "serving")
        /\ UNCHANGED broken
     \/ /\ ask[s] = "rejected"
        /\ ask' = [ask EXCEPT ![s] = "none"]
        /\ Move(s, "drop")
        /\ broken' = broken \cup {s}
  /\ UNCHANGED <<at, saved, failed, signalled, exit, settings, home, sharedVars>>

BluezAnswers(s) ==
  /\ ask[s] \in {"app", "adv"}
  /\ \/ /\ ask' = [ask EXCEPT ![s] = "ok"]
        /\ hid' = IF ask[s] = "app" THEN hid \cup {s} ELSE hid
        /\ adv' = IF ask[s] = "adv" THEN adv \cup {s} ELSE adv
     \/ /\ ask' = [ask EXCEPT ![s] = "rejected"]
        /\ UNCHANGED <<hid, adv>>
  /\ UNCHANGED <<spc, at, saved, failed, signalled, broken, exit, settings, home, lock>>

\* The handlers are installed just before the setup; once they are, a signal
\* is only remembered.
Signal(s) ==
  /\ spc[s] \in Modifying
  /\ signalled' = signalled \cup {s}
  /\ UNCHANGED <<spc, at, saved, failed, ask, broken, exit, settings, home, sharedVars>>

\* Mutant: only the last await is in the select!.
TakeSignalServing(s) ==
  /\ s \in signalled
  /\ spc[s] = "serving"
  /\ Move(s, "drop")
  /\ UNCHANGED <<at, saved, failed, ask, signalled, broken, exit, settings, home, sharedVars>>

\* select! sees a signal at an await, or before the setup has begun.
TakeSignal(s) ==
  /\ s \in signalled
  /\ \/ spc[s] \in Waiting
     \/ spc[s] = "setup" /\ at[s] = 1
  /\ Move(s, "drop")
  /\ UNCHANGED <<at, saved, failed, ask, signalled, broken, exit, settings, home, sharedVars>>

\* Mutant: the runtime is dropped at the end of the run.
DropLate(s) ==
  /\ spc[s] = "drop"
  /\ Move(s, "restore") /\ Restart(s)
  /\ UNCHANGED <<saved, failed, ask, signalled, broken, exit, settings, home, sharedVars>>

DropRuntime(s) ==
  /\ spc[s] = "drop"
  /\ hid' = hid \ {s} /\ adv' = adv \ {s}
  /\ ask' = [ask EXCEPT ![s] = "none"]
  /\ Move(s, "restore")
  /\ Restart(s)
  /\ UNCHANGED <<saved, failed, signalled, broken, exit, settings, home, lock>>

\* Every setting is restored, whatever happened to the ones before it.
RestoreSetting(s) ==
  /\ spc[s] = "restore"
  /\ at[s] <= Len(Restore)
  /\ LET p == Restore[at[s]]
     IN  \/ settings' \in Written(p, saved[s][p]) /\ UNCHANGED failed
         \/ /\ settings' \in MaybeWritten(p, saved[s][p])
            /\ failed' = [failed EXCEPT ![s] = @ \cup {p}]
  /\ Advance(s)
  /\ UNCHANGED <<spc, saved, ask, signalled, broken, exit, home, sharedVars>>

Return(s) ==
  /\ spc[s] = "restore"
  /\ at[s] > Len(Restore)
  /\ Gone(s, IF s \in broken \/ failed[s] # {} THEN "error" ELSE "ok")
  /\ UNCHANGED settings

\* SIGKILL at any time; or SIGINT or SIGTERM before their handlers exist.
KillServer(s) ==
  /\ spc[s] # "off"
  /\ Gone(s, "killed")
  /\ UNCHANGED settings

-----------------------------------------------------------------------------

Work(s) ==
  \/ ReadOriginals(s) \/ ChangeSetting(s) \/ TakeSignal(s) \/ DropRuntime(s)
  \/ RestoreSetting(s) \/ Return(s)

ServerNext == \E s \in Server :
  \/ Launch(s) \/ AcquireLock(s) \/ Work(s) \/ Register(s) \/ BluezAnswers(s)
  \/ Signal(s) \/ KillServer(s)

\* hci0 disappears, and with it what is registered on it.  The helper does not
\* watch for that; its property calls may fail at any time anyway.
AdapterLost == hid' = {} /\ adv' = {} /\ UNCHANGED <<serverVars, lock>>

vars == <<serverVars, sharedVars>>

Init == ServerInit /\ lock = Nobody /\ hid = {} /\ adv = {}

Next == ServerNext \/ AdapterLost

Spec == Init /\ [][Next]_vars

\* Property calls have a time limit; the rest of Work does not wait for BlueZ.
ServerFairness == \A s \in Server : WF_vars(Work(s))

FairSpec == Spec /\ ServerFairness

-----------------------------------------------------------------------------

TypeOK ==
  /\ ServerTypeOK
  /\ lock \in Server \cup {Nobody}
  /\ hid \subseteq Server /\ adv \subseteq Server

\* Between runs the adapter has its own settings: they differ only while a run
\* holds the lock and is set to put them back, so no other run can take
\* borrowed settings for originals (hid-server.rs:17-25, 50-62).
BorrowedUnderLock ==
  settings # home => \E s \in Server : lock = s /\ spc[s] \in Modifying

\* A run that is not killed leaves every setting as it found it, but for those
\* it reports; Discoverable cannot undo Connectable, which is restored after it
\* (hid-server.rs:52-73).
OnlyReportedDiffer == [][\A s \in Server :
  spc[s] = "restore" /\ exit'[s] \in {"ok", "error"} =>
    /\ \A p \in Property \ failed[s] : settings[p] = home[p]
    /\ exit'[s] = "ok" => failed[s] = {}]_vars

\* While the helper advertises, Classic discovery is off and pairing has no
\* time limit: registrations, even partial ones, are gone before the first
\* setting is restored (hid-server.rs:33-39, 48-50).
HiddenWhileAdvertising == \A s \in adv :
  settings.Pairable /\ ~settings.Discoverable /\ ~settings.PairableTimeout

\* Nothing is registered without the lock (hid-server.rs:17, 38-50).
ServedUnderLock == \A s \in Server :
  s \in hid \cup adv \/ ask[s] # "none" => lock = s /\ spc[s] \in Modifying \ {"restore"}

\* Ctrl+C or SIGTERM always ends a run, wherever it finds it
\* (hid-server.rs:29-46).
SignalEndsRun == \A s \in Server : s \in signalled ~> spc[s] = "off"
=============================================================================
