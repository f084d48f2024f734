-------------------------------- MODULE Labs --------------------------------
(***************************************************************************)
(* The two labs of the iPhone experiment (src/experiments/iphone_ble) that *)
(* borrow the Bluetooth adapter and return it as they found it: the        *)
(* exclusive lab (ble_lab.py, adapter.py, state.py, radio.py), which takes *)
(* the adapter away from BlueZ, and the shared lab (bluez_hid_lab.py),     *)
(* which changes Pairable under BlueZ.  Each has a lock file and a record  *)
(* of the settings it found, written before anything is changed, from      *)
(* which a later `restore` command can finish what a dead run could not.   *)
(*                                                                         *)
(* A process is one command from its start to its end; it may be killed    *)
(* between any two steps.  A record is replaced as atomic_json does it:    *)
(* truncate the temporary file, fill it, rename it.                        *)
(***************************************************************************)
EXTENDS Naturals, Sequences

CONSTANTS
  Exclusive,   \* processes that run commands of the exclusive lab
  Shared,      \* processes that run commands of the shared lab
  Nobody,
  Careful      \* see Alone

ASSUME LabsAssumption ==
  /\ Nobody \notin Exclusive \cup Shared /\ Exclusive \cap Shared = {}
  /\ Careful \in BOOLEAN

VARIABLES
  settings,    \* the adapter's settings in BlueZ
  channel,     \* who has the adapter as an HCI user channel: BlueZ has lost it
  root,        \* the exclusive lab's state directory: none, bare, or with its manifest
  lockFile,    \* there is a run.lock in it
  holder,      \* per lab: who holds the lock
  journal,     \* per lab: the record
  temporary,   \* per lab: its temporary file
  pc,          \* where a process is
  command,     \* what it was started for
  saved,       \* the record it works with
  then,        \* where it goes on when the record is written
  home         \* the settings as they were before any lab touched them

files    == <<root, lockFile, holder, journal, temporary>>
process  == <<pc, command, saved, then>>
labsVars == <<settings, channel, files, process, home>>

Procs == Exclusive \cup Shared
Lab(p) == IF p \in Exclusive THEN "exclusive" ELSE "shared"
Labs  == {"exclusive", "shared"}

\* The settings the labs save; an adapter that is off is not discoverable.
Settings == {s \in [Powered : BOOLEAN, Pairable : BOOLEAN, Discoverable : BOOLEAN] :
               s.Discoverable => s.Powered}
Unset == [Powered |-> FALSE, Pairable |-> FALSE, Discoverable |-> FALSE]

\* restore() goes through the settings in this order.
Order == <<"Powered", "Pairable", "Discoverable">>
NameAfter(n) == LET i == CHOOSE j \in DOMAIN Order : Order[j] = n
                IN IF i = Len(Order) THEN "compare" ELSE Order[i + 1]
Names == {Order[i] : i \in DOMAIN Order}

Absent   == [is |-> "absent", of |-> Unset]
Partial  == [is |-> "partial", of |-> Unset]
Whole(s) == [is |-> "whole", of |-> s]
File     == {Absent, Partial} \cup {Whole(s) : s \in Settings}

Pending(l) == journal[l] # Absent \/ temporary[l] # Absent

\* What a restoration would read.
Record(l)   == IF journal[l] # Absent THEN journal[l] ELSE temporary[l]
Readable(l) == Record(l).is = "whole"

Starting == {"lock", "paths", "own", "both"}
Making   == {"mkdir", "manifest", "make"}
Inside   == {"begin", "write", "rename", "acquire", "off", "verify", "session", "radio",
             "restore", "find", "compare", "unlink", "tidy", "purge", "purgeLock",
             "preflight", "baseline", "borrow", "share"} \cup Names

LabTypeOK ==
  /\ settings \in Settings /\ home \in Settings
  /\ channel \in Exclusive \cup {Nobody}
  /\ root \in {"none", "bare", "ready"} /\ lockFile \in BOOLEAN
  /\ holder \in [Labs -> Procs \cup {Nobody}]
  /\ journal \in [Labs -> File \ {Partial}] /\ temporary \in [Labs -> File]
  /\ pc \in [Procs -> {"idle"} \cup Starting \cup Making \cup Inside]
  /\ command \in [Procs -> {"none", "run", "restore", "clean", "prepare"}]
  /\ saved \in [Procs -> Settings] /\ then \in [Procs -> {"none"} \cup Inside]
  /\ \A p \in Procs : pc[p] \in Inside <=> holder[Lab(p)] = p

LabsInit ==
  /\ settings \in Settings /\ home = settings
  /\ channel = Nobody
  /\ root = "none" /\ lockFile = FALSE
  /\ holder = [l \in Labs |-> Nobody]
  /\ journal = [l \in Labs |-> Absent] /\ temporary = [l \in Labs |-> Absent]
  /\ pc = [p \in Procs |-> "idle"] /\ command = [p \in Procs |-> "none"]
  /\ saved = [p \in Procs |-> Unset] /\ then = [p \in Procs |-> "none"]

-----------------------------------------------------------------------------

\* What BlueZ makes of an adapter it gets back: it may switch it on by itself.
Returned == {s \in Settings : s.Pairable = settings.Pairable}

\* A property call that works.
Changed(s, n, v) ==
  CASE n = "Powered" /\ ~v                    -> [s EXCEPT !.Powered = FALSE, !.Discoverable = FALSE]
    [] n = "Discoverable" /\ v /\ ~s.Powered  -> s
    [] OTHER                                  -> [s EXCEPT ![n] = v]

Goto(p, where) == pc' = [pc EXCEPT ![p] = where]
Keep(p, s) == saved' = [saved EXCEPT ![p] = s]

\* The process ends: the kernel drops its locks and its channel.
Exits(p) ==
  /\ pc' = [pc EXCEPT ![p] = "idle"] /\ command' = [command EXCEPT ![p] = "none"]
  /\ saved' = [saved EXCEPT ![p] = Unset] /\ then' = [then EXCEPT ![p] = "none"]
  /\ holder' = [l \in Labs |-> IF holder[l] = p THEN Nobody ELSE holder[l]]
  /\ channel' = IF channel = p THEN Nobody ELSE channel
  /\ IF channel = p THEN settings' \in Returned ELSE settings' = settings
  /\ UNCHANGED home

Ends(p) == Exits(p) /\ UNCHANGED <<root, lockFile, journal, temporary>>

Kill(p) == pc[p] # "idle" /\ Ends(p)

\* A careful user starts one command at a time and, as long as the exclusive lab has
\* no lock file, does not use both labs at once.
Alone(p) ==
  Careful =>
    /\ \A q \in Procs \ {p} : pc[q] \notin Starting
    /\ ~lockFile => \A q \in Procs : pc[q] # "idle" => Lab(q) = Lab(p)

Starts(p, c, where) ==
  /\ pc[p] = "idle" /\ Alone(p)
  /\ Goto(p, where) /\ command' = [command EXCEPT ![p] = c]
  /\ UNCHANGED <<settings, channel, files, saved, then, home>>

\* While a careful user's command starts, nothing else happens.
Undisturbed(p) == Careful => \A q \in Procs \ {p} : pc[q] \notin Starting

-----------------------------------------------------------------------------
(* Records: atomic_json *)

\* It opens and truncates the temporary file.
Writes(p, next) ==
  /\ temporary' = [temporary EXCEPT ![Lab(p)] = Partial]
  /\ Goto(p, "write") /\ then' = [then EXCEPT ![p] = next]

WriteRecord(p) ==
  /\ pc[p] = "write"
  /\ temporary' = [temporary EXCEPT ![Lab(p)] = Whole(saved[p])]
  /\ Goto(p, "rename")
  /\ UNCHANGED <<settings, channel, root, lockFile, holder, journal, command, saved, then, home>>

RenameRecord(p) ==
  /\ pc[p] = "rename"
  /\ journal' = [journal EXCEPT ![Lab(p)] = temporary[Lab(p)]]
  /\ temporary' = [temporary EXCEPT ![Lab(p)] = Absent]
  /\ Goto(p, then[p]) /\ then' = [then EXCEPT ![p] = "none"]
  /\ UNCHANGED <<settings, channel, root, lockFile, holder, command, saved, home>>

\* The disk is full, say.  A run goes on to its restoration, or with its session; a
\* restoration gives up.
WriteFails(p) ==
  /\ pc[p] \in {"write", "rename"}
  /\ \/ /\ then[p] \in {"off", "session", "borrow", "share"}
        /\ Goto(p, IF then[p] = "share" THEN "share" ELSE "restore")
        /\ then' = [then EXCEPT ![p] = "none"]
        /\ UNCHANGED <<settings, channel, files, command, saved, home>>
     \/ then[p] \in {"find", "Powered"} /\ Ends(p)

-----------------------------------------------------------------------------
(* The exclusive lab: run_experiment, restore_experiment, purge, prepare *)

\* It looks for the shared lab's record before it locks.
StartExclusive(p) ==
  \/ ~Pending("shared") /\ Starts(p, "run", "lock")
  \/ root # "none" /\ Starts(p, "restore", "lock")
  \/ root # "none" /\ Starts(p, "clean", "lock")
  \/ Starts(p, "prepare", IF root = "none" THEN "mkdir" ELSE "lock")

MakeRoot(p) ==
  /\ pc[p] = "mkdir"
  /\ IF root = "none"
       THEN /\ root' = "bare" /\ Goto(p, "manifest")
            /\ UNCHANGED <<settings, channel, lockFile, holder, journal, temporary,
                           command, saved, then, home>>
       ELSE Ends(p)

WriteManifest(p) ==
  /\ pc[p] = "manifest"
  /\ root' = "ready" /\ Goto(p, "lock")
  /\ UNCHANGED <<settings, channel, lockFile, holder, journal, temporary, command, saved, then, home>>

\* LabState.lock: validate, create run.lock, flock without waiting.
LockExclusive(p) ==
  /\ pc[p] = "lock"
  /\ \/ /\ root = "ready" /\ holder["exclusive"] = Nobody
        /\ lockFile' = TRUE /\ holder' = [holder EXCEPT !["exclusive"] = p]
        /\ Goto(p, "begin")
        /\ UNCHANGED <<settings, channel, root, journal, temporary, command, saved, then, home>>
     \/ root # "ready" /\ Ends(p)
     \/ root = "ready" /\ holder["exclusive"] # Nobody /\ Ends(p)

BeginExclusive(p) ==
  /\ pc[p] = "begin" /\ p \in Exclusive
  /\ \/ command[p] = "run" /\ ~Pending("exclusive") /\ Goto(p, "acquire")
     \/ command[p] = "restore" /\ Goto(p, "restore")
     \/ command[p] = "clean" /\ ~Pending("exclusive") /\ Goto(p, "purge")
  /\ UNCHANGED <<settings, channel, files, command, saved, then, home>>

\* A pending record, a changed configuration, a bond that does not fit; or it is done.
BeginRefuses(p) ==
  /\ pc[p] = "begin" /\ p \in Exclusive
  /\ command[p] # "restore"
  /\ Ends(p)

\* Mutant: the record is written after the adapter has been switched off.
AcquireUnrecorded(p) ==
  /\ pc[p] = "acquire" /\ channel = Nobody
  /\ Keep(p, settings) /\ Goto(p, "off")
  /\ UNCHANGED <<settings, channel, files, command, then, home>>

\* acquire: read the settings, write them down ...
Acquire(p) ==
  /\ pc[p] = "acquire" /\ channel = Nobody
  /\ Keep(p, settings) /\ Writes(p, "off")
  /\ UNCHANGED <<settings, channel, root, lockFile, holder, journal, command, home>>

\* ... and switch the adapter off.  A call that fails may have worked.
PowerOff(p) ==
  /\ pc[p] = "off"
  /\ settings' \in {settings, Changed(settings, "Powered", FALSE)}
  /\ Goto(p, "verify")
  /\ UNCHANGED <<channel, files, command, saved, then, home>>

VerifyOff(p) ==
  /\ pc[p] = "verify" /\ ~settings.Powered
  /\ Writes(p, "session")
  /\ UNCHANGED <<settings, channel, root, lockFile, holder, journal, command, saved, home>>

\* run_probe opens the HCI user channel, and closes it however it ends.
OpenChannel(p) ==
  /\ pc[p] = "session" /\ channel = Nobody
  /\ channel' = p /\ Goto(p, "radio")
  /\ UNCHANGED <<settings, files, command, saved, then, home>>

CloseChannel(p) ==
  /\ pc[p] = "radio"
  /\ channel' = Nobody /\ settings' \in Returned
  /\ Goto(p, "restore")
  /\ UNCHANGED <<files, command, saved, then, home>>

\* The probe is over, the channel could not be closed, or a call failed: finally.
RunFails(p) ==
  /\ pc[p] \in {"acquire", "off", "verify", "session", "radio"}
  /\ Goto(p, "restore")
  /\ UNCHANGED <<settings, channel, files, command, saved, then, home>>

\* restore: nothing to do, a record, or a temporary file that is one.
RestoreExclusive(p) ==
  /\ pc[p] = "restore" /\ p \in Exclusive
  /\ \/ ~Readable("exclusive") /\ Ends(p)
     \/ /\ journal["exclusive"] # Absent
        /\ Keep(p, journal["exclusive"].of) /\ Goto(p, "find")
        /\ UNCHANGED <<settings, channel, files, command, then, home>>
     \/ /\ journal["exclusive"] = Absent /\ Readable("exclusive")
        /\ Keep(p, temporary["exclusive"].of) /\ Writes(p, "find")
        /\ UNCHANGED <<settings, channel, root, lockFile, holder, journal, command, home>>

\* The adapter is back in BlueZ; the record is written once more.
FindAdapter(p) ==
  /\ pc[p] = "find" /\ channel = Nobody
  /\ Writes(p, "Powered")
  /\ UNCHANGED <<settings, channel, root, lockFile, holder, journal, command, saved, home>>

\* _restore_property: set it until it reads as it should.
RestoreProperty(p) ==
  /\ pc[p] \in Names /\ channel = Nobody
  /\ LET n == pc[p]
     IN IF settings[n] = saved[p][n]
          THEN Goto(p, NameAfter(n)) /\ UNCHANGED settings
          ELSE settings' = Changed(settings, n, saved[p][n]) /\ UNCHANGED pc
  /\ UNCHANGED <<channel, files, command, saved, then, home>>

\* BlueZ refuses, a deadline passes, someone has renamed the adapter or (shared) a
\* process on the recorded bus name is alive, a link is missing: the record stays.
RestoreFails(p) ==
  /\ pc[p] \in {"restore", "find", "compare"} \cup Names
  /\ Ends(p)

\* The settings are verified, whatever the calls said.
Compare(p) ==
  /\ pc[p] = "compare" /\ channel = Nobody
  /\ settings = saved[p] /\ Goto(p, "unlink")
  /\ UNCHANGED <<settings, channel, files, command, saved, then, home>>

UnlinkRecord(p) ==
  /\ pc[p] = "unlink"
  /\ journal' = [journal EXCEPT ![Lab(p)] = Absent]
  /\ Goto(p, "tidy")
  /\ UNCHANGED <<settings, channel, root, lockFile, holder, temporary, command, saved, then, home>>

UnlinkTemporary(p) ==
  /\ pc[p] = "tidy"
  /\ temporary' = [temporary EXCEPT ![Lab(p)] = Absent]
  /\ Exits(p)
  /\ UNCHANGED <<root, lockFile, journal>>

\* purge: the files, then run.lock and the directory.
PurgeFiles(p) ==
  /\ pc[p] = "purge"
  /\ root' = "bare" /\ Goto(p, "purgeLock")
  /\ UNCHANGED <<settings, channel, lockFile, holder, journal, temporary, command, saved, then, home>>

PurgeRoot(p) ==
  /\ pc[p] = "purgeLock"
  /\ root' = "none" /\ lockFile' = FALSE
  /\ Exits(p)
  /\ UNCHANGED <<journal, temporary>>

-----------------------------------------------------------------------------
(* The shared lab: State.lock, run, restore *)

\* It looks for the exclusive lab's record, then for its lock file.
StartShared(p) ==
  /\ ~Pending("exclusive")
  /\ \/ Starts(p, "run", "paths")
     \/ Pending("shared") /\ Starts(p, "restore", "paths")

LookForLock(p) ==
  /\ pc[p] = "paths"
  /\ Goto(p, IF lockFile THEN "both" ELSE "own")
  /\ UNCHANGED <<settings, channel, files, command, saved, then, home>>

\* Mutant: the other lab's lock is left alone.
LockSharedOwn(p) ==
  /\ pc[p] \in {"own", "both"}
  /\ \/ /\ holder["shared"] = Nobody
        /\ holder' = [holder EXCEPT !["shared"] = p]
        /\ Goto(p, "begin")
        /\ UNCHANGED <<settings, channel, root, lockFile, journal, temporary, command, saved, then, home>>
     \/ holder["shared"] # Nobody /\ Ends(p)

LockShared(p) ==
  /\ pc[p] \in {"own", "both"}
  /\ LET wanted == IF pc[p] = "both" THEN Labs ELSE {"shared"}
         free   == /\ \A l \in wanted : holder[l] = Nobody
                   /\ pc[p] = "both" => root # "none"
     IN \/ /\ free
           /\ holder' = [l \in Labs |-> IF l \in wanted THEN p ELSE holder[l]]
           /\ lockFile' = (lockFile \/ pc[p] = "both")
           /\ Goto(p, "begin")
           /\ UNCHANGED <<settings, channel, root, journal, temporary, command, saved, then, home>>
        \/ ~free /\ Ends(p)

BeginShared(p) ==
  /\ pc[p] = "begin" /\ p \in Shared
  /\ \/ command[p] = "run" /\ Pending("shared") /\ Ends(p)
     \/ /\ \/ command[p] = "run" /\ ~Pending("shared") /\ Goto(p, "preflight")
           \/ command[p] = "restore" /\ Goto(p, "restore")
        /\ UNCHANGED <<settings, channel, files, command, saved, then, home>>

\* The adapter is on and as it should be ...
Preflight(p) ==
  /\ pc[p] = "preflight" /\ channel = Nobody /\ settings.Powered
  /\ Keep(p, settings) /\ Goto(p, "baseline")
  /\ UNCHANGED <<settings, channel, files, command, then, home>>

\* ... and once its links are known, too, all of it is written down.
SaveBaseline(p) ==
  /\ pc[p] = "baseline"
  /\ Writes(p, "borrow")
  /\ UNCHANGED <<settings, channel, root, lockFile, holder, journal, command, saved, home>>

\* Pairable on to repair the pairing, off otherwise.  A call that fails may have worked.
Borrow(p) ==
  /\ pc[p] = "borrow"
  /\ \E repair \in BOOLEAN : settings' \in {settings, [settings EXCEPT !.Pairable = repair]}
  /\ Goto(p, "share")
  /\ UNCHANGED <<channel, files, command, saved, then, home>>

\* It notes a candidate, or a lost link, in the record.
RewriteRecord(p) ==
  /\ pc[p] = "share"
  /\ Writes(p, "share")
  /\ UNCHANGED <<settings, channel, root, lockFile, holder, journal, command, saved, home>>

\* However it ends; a pairing run first closes its window, if BlueZ lets it.
EndShare(p) ==
  /\ pc[p] \in {"preflight", "baseline", "borrow", "share"}
  /\ \/ UNCHANGED settings
     \/ pc[p] \in {"borrow", "share"} /\ settings' = [settings EXCEPT !.Pairable = saved[p].Pairable]
  /\ Goto(p, "restore")
  /\ UNCHANGED <<channel, files, command, saved, then, home>>

RestoreShared(p) ==
  /\ pc[p] = "restore" /\ p \in Shared
  /\ \/ ~Readable("shared") /\ Ends(p)
     \/ /\ Readable("shared")
        /\ Keep(p, Record("shared").of) /\ Goto(p, "find")
        /\ UNCHANGED <<settings, channel, files, command, then, home>>

RestorePairable(p) ==
  /\ pc[p] = "find" /\ p \in Shared /\ channel = Nobody
  /\ settings' = [settings EXCEPT !.Pairable = saved[p].Pairable]
  /\ Goto(p, "compare")
  /\ UNCHANGED <<channel, files, command, saved, then, home>>

-----------------------------------------------------------------------------

ExclusiveNext(p) ==
  \/ StartExclusive(p) \/ MakeRoot(p) \/ WriteManifest(p) \/ LockExclusive(p)
  \/ BeginExclusive(p) \/ BeginRefuses(p) \/ Acquire(p) \/ PowerOff(p) \/ VerifyOff(p)
  \/ OpenChannel(p) \/ CloseChannel(p) \/ RunFails(p) \/ RestoreExclusive(p)
  \/ FindAdapter(p) \/ RestoreProperty(p) \/ PurgeFiles(p) \/ PurgeRoot(p)

SharedNext(p) ==
  \/ StartShared(p) \/ LookForLock(p) \/ LockShared(p) \/ BeginShared(p) \/ Preflight(p)
  \/ SaveBaseline(p) \/ Borrow(p) \/ RewriteRecord(p) \/ EndShare(p) \/ RestoreShared(p)
  \/ RestorePairable(p)

EitherNext(p) ==
  \/ Kill(p) \/ WriteRecord(p) \/ RenameRecord(p) \/ WriteFails(p) \/ RestoreFails(p)
  \/ Compare(p) \/ UnlinkRecord(p) \/ UnlinkTemporary(p)

LabsNext ==
  \/ \E p \in Exclusive : Undisturbed(p) /\ ExclusiveNext(p)
  \/ \E p \in Shared : Undisturbed(p) /\ SharedNext(p)
  \/ \E p \in Procs : Undisturbed(p) /\ EitherNext(p)

LabsSpec == LabsInit /\ [][LabsNext]_labsVars

-----------------------------------------------------------------------------

\* Whatever was killed when, settings a lab has changed are in a record that a
\* restoration can read.  (adapter.py 190-198, 288-301, 370-374; state.py 35-55,
\* 250-256; bluez_hid_lab.py 145-151, 183-187, 769)
OriginalsAreKept ==
  channel = Nobody /\ settings # home => \E l \in Labs : Readable(l) /\ Record(l).of = home

\* With the adapter, whose settings it has read.  Before that a command may still find
\* that it cannot run or has nothing to restore; prepare and clean use no Bluetooth.
Working == Inside \ {"begin", "acquire", "preflight", "restore", "purge", "purgeLock"}

\* No run or restoration of one lab goes on beside one of the other: each refuses that,
\* by the other's record and by the lock.  (bluez_hid_lab.py 101-124; ble_lab.py 114-125)
LabsAreAlone ==
  \A p \in Exclusive, q \in Shared : ~(pc[p] \in Working /\ pc[q] \in Working)

=============================================================================
