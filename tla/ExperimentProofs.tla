-------------------------- MODULE ExperimentProofs --------------------------
(***************************************************************************)
(* What the experiments promise.                                           *)
(*                                                                         *)
(* The labs (Labs), any number of commands, each killed wherever it is:    *)
(* one command at a time works on the adapter, and what it changes is      *)
(* written down before and stays so until it is as it was.  Both for a     *)
(* user who starts one command at a time and, before the exclusive lab has *)
(* a lock file, does not use both labs (Careful): without that the labs    *)
(* are not alone, as the run labs_at_once shows.                           *)
(*                                                                         *)
(* One context (Device), any number of tasks, connections and messages:    *)
(* BlueZ holds at most one application and one advertisement of it, what   *)
(* the context takes for a registration is one, and only a late release    *)
(* lets an advertisement stay.                                             *)
(***************************************************************************)
EXTENDS Labs, Device, SequenceTheorems, FiniteSetTheorems, TLAPS

-----------------------------------------------------------------------------
(* Labs.                                                                   *)

LEMMA Constants ==
  /\ Nobody \notin Procs
  /\ \A p \in Exclusive : Lab(p) = "exclusive"
  /\ \A p \in Shared : Lab(p) = "shared" /\ p \notin Exclusive
  /\ \A p \in Procs : Lab(p) \in Labs
BY LabsAssumption DEF Procs, Lab, Labs

LEMMA NamesAre == Names = {"Powered", "Pairable", "Discoverable"}
BY DEF Names, Order

LEMMA NextName ==
  ASSUME NEW n \in Names
  PROVE  NameAfter(n) \in {"Pairable", "Discoverable", "compare"}
<1>1. PICK i \in 1..3 : Order[i] = n
  BY DEF Names, Order
<1>2. DOMAIN Order = 1..3 /\ Len(Order) = 3
  BY DEF Order
<1>3. (CHOOSE j \in DOMAIN Order : Order[j] = n) \in 1..3
  BY <1>1, <1>2
<1>4. \A j \in 1..3 : (IF j = 3 THEN "compare" ELSE Order[j + 1])
                        \in {"Pairable", "Discoverable", "compare"}
  BY DEF Order
<1>5. QED
  BY <1>2, <1>3, <1>4 DEF NameAfter

\* The states of a file.
LEMMA Files ==
  /\ Absent # Partial
  /\ Absent.is # "whole" /\ Partial.is # "whole"
  /\ \A s : /\ Whole(s).is = "whole" /\ Whole(s).of = s
            /\ Whole(s) # Absent /\ Whole(s) # Partial
BY DEF Absent, Partial, Whole

-----------------------------------------------------------------------------
(* The steps.                                                              *)

Steps(p) ==
  /\ Undisturbed(p)
  /\ \/ p \in Exclusive /\ ExclusiveNext(p)
     \/ p \in Shared /\ SharedNext(p)
     \/ EitherNext(p)

LEMMA NextSteps ==
  ASSUME [LabsNext]_labsVars
  PROVE  (\E p \in Procs : Steps(p)) \/ UNCHANGED labsVars
BY DEF LabsNext, Steps, Procs

Types ==
  /\ settings \in Settings /\ home \in Settings
  /\ channel \in Exclusive \cup {Nobody}
  /\ root \in {"none", "bare", "ready"} /\ lockFile \in BOOLEAN
  /\ holder \in [Labs -> Procs \cup {Nobody}]
  /\ journal \in [Labs -> File \ {Partial}] /\ temporary \in [Labs -> File]
  /\ pc \in [Procs -> {"idle"} \cup Starting \cup Making \cup Inside]
  /\ command \in [Procs -> {"none", "run", "restore", "clean", "prepare"}]
  /\ saved \in [Procs -> Settings] /\ then \in [Procs -> {"none"} \cup Inside]

\* Who is inside holds the lock of his lab, and who holds it is inside.
Holding == \A p \in Procs : pc[p] \in Inside <=> holder[Lab(p)] = p

\* Where a record is being written, and what for.
Writing(p) ==
  pc[p] \in {"write", "rename"} =>
    then[p] \in IF p \in Exclusive THEN {"off", "session", "find", "Powered"}
                                   ELSE {"borrow", "share"}

\* What a step does to the locks, whatever else it does.
InsideOf(p) == {w \in Inside : w \in {"purge", "purgeLock"} => p \in Exclusive}

Moves(p) ==
  /\ pc[p] \in Inside
  /\ \E w \in InsideOf(p) : pc' = [pc EXCEPT ![p] = w]
  /\ UNCHANGED <<lockFile, holder>>

Approaches(p) ==
  /\ \/ pc[p] = "mkdir" /\ pc' = [pc EXCEPT ![p] = "manifest"]
     \/ pc[p] = "manifest" /\ pc' = [pc EXCEPT ![p] = "lock"]
     \/ /\ pc[p] = "paths"
        /\ \/ ~lockFile /\ pc' = [pc EXCEPT ![p] = "own"]
           \/ lockFile /\ pc' = [pc EXCEPT ![p] = "both"]
  /\ UNCHANGED <<lockFile, holder>>

Enters(p) ==
  /\ pc[p] = "idle" /\ Alone(p)
  /\ \E w \in IF p \in Exclusive THEN {"lock", "mkdir"} ELSE {"paths"} : pc' = [pc EXCEPT ![p] = w]
  /\ UNCHANGED <<lockFile, holder>>

Leaves(p) ==
  /\ pc[p] # "idle" /\ pc' = [pc EXCEPT ![p] = "idle"]
  /\ holder' = [l \in Labs |-> IF holder[l] = p THEN Nobody ELSE holder[l]]
  /\ \/ lockFile' = lockFile
     \/ lockFile' = FALSE /\ pc[p] = "purgeLock"

Locks(p) ==
  /\ pc' = [pc EXCEPT ![p] = "begin"]
  /\ \/ /\ p \in Exclusive /\ pc[p] = "lock" /\ holder["exclusive"] = Nobody
        /\ lockFile' = TRUE /\ holder' = [holder EXCEPT !["exclusive"] = p]
     \/ /\ p \in Shared /\ pc[p] = "own" /\ holder["shared"] = Nobody
        /\ lockFile' = lockFile
        /\ holder' = [l \in Labs |-> IF l = "shared" THEN p ELSE holder[l]]
     \/ /\ p \in Shared /\ pc[p] = "both" /\ \A l \in Labs : holder[l] = Nobody
        /\ lockFile' = TRUE
        /\ holder' = [l \in Labs |-> p]

LEMMA StepKinds ==
  ASSUME Types, NEW p \in Procs, Writing(p), Steps(p)
  PROVE  Moves(p) \/ Approaches(p) \/ Enters(p) \/ Leaves(p) \/ Locks(p)
<1> USE DEF files, Goto, Writes, Keep
<1>0. ASSUME Exits(p), pc[p] # "idle", lockFile' = lockFile PROVE Leaves(p)
  BY <1>0 DEF Exits, Leaves
<1>1. ASSUME Ends(p), pc[p] # "idle" PROVE Leaves(p)
  BY <1>0, <1>1 DEF Ends
<1>2. ASSUME pc[p] \in Inside, NEW w \in Inside, Goto(p, w), UNCHANGED <<lockFile, holder>>,
             w \in {"purge", "purgeLock"} => p \in Exclusive
      PROVE  Moves(p)
  BY <1>2 DEF Moves, InsideOf
<1>3. CASE p \in Exclusive /\ ExclusiveNext(p)
  <2>1. CASE StartExclusive(p)
    BY <1>3, <2>1 DEF StartExclusive, Starts, Enters
  <2>2. CASE MakeRoot(p) \/ WriteManifest(p)
    BY <2>2, <1>1 DEF MakeRoot, WriteManifest, Approaches
  <2>3. CASE LockExclusive(p)
    BY <1>3, <2>3, <1>1 DEF LockExclusive, Locks
  <2>4. CASE BeginExclusive(p) \/ Acquire(p) \/ PowerOff(p) \/ VerifyOff(p) \/ OpenChannel(p)
             \/ CloseChannel(p) \/ RunFails(p) \/ FindAdapter(p) \/ PurgeFiles(p)
    BY <1>3, <2>4, <1>2 DEF BeginExclusive, Acquire, PowerOff, VerifyOff, OpenChannel, CloseChannel,
       RunFails, FindAdapter, PurgeFiles, Inside
  <2>5. CASE BeginRefuses(p)
    BY <2>5, <1>1 DEF BeginRefuses
  <2>6. CASE RestoreExclusive(p)
    BY <2>6, <1>1, <1>2 DEF RestoreExclusive, Inside
  <2>7. CASE RestoreProperty(p)
    <3>1. pc[p] \in Inside /\ NameAfter(pc[p]) \in Inside /\ p \in Exclusive
      BY <1>3, <2>7, NextName, NamesAre DEF RestoreProperty, Inside
    <3>2. pc' = pc => pc' = [pc EXCEPT ![p] = pc[p]]
      BY DEF Types
    <3>3. QED
      BY <2>7, <3>1, <3>2, <1>2 DEF RestoreProperty
  <2>8. CASE PurgeRoot(p)
    BY <2>8 DEF PurgeRoot, Exits, Leaves
  <2>9. QED
    BY <1>3, <2>1, <2>2, <2>3, <2>4, <2>5, <2>6, <2>7, <2>8 DEF ExclusiveNext
<1>4. CASE p \in Shared /\ SharedNext(p)
  <2>1. CASE StartShared(p)
    BY <1>4, <2>1, Constants DEF StartShared, Starts, Enters
  <2>2. CASE LookForLock(p)
    BY <2>2 DEF LookForLock, Approaches
  <2>3. CASE LockShared(p)
    <3>1. CASE Ends(p)
      BY <2>3, <3>1, <1>1 DEF LockShared
    <3>2. CASE pc[p] = "own" /\ ~Ends(p)
      <4>1. /\ holder["shared"] = Nobody /\ Goto(p, "begin")
            /\ holder' = [l \in Labs |-> IF l \in {"shared"} THEN p ELSE holder[l]]
            /\ lockFile' = (lockFile \/ FALSE)
        BY <2>3, <3>2 DEF LockShared
      <4>2. lockFile' = lockFile
        BY <4>1 DEF Types
      <4>3. QED
        BY <1>4, <3>2, <4>1, <4>2 DEF Locks
    <3>3. CASE pc[p] = "both" /\ ~Ends(p)
      <4>1. /\ \A l \in Labs : holder[l] = Nobody
            /\ Goto(p, "begin")
            /\ holder' = [l \in Labs |-> IF l \in Labs THEN p ELSE holder[l]]
            /\ lockFile' = (lockFile \/ TRUE)
        BY <2>3, <3>3 DEF LockShared
      <4>2. lockFile' = TRUE /\ holder' = [l \in Labs |-> p]
        BY <4>1
      <4>3. QED
        BY <1>4, <3>3, <4>1, <4>2 DEF Locks
    <3>4. QED
      BY <2>3, <3>1, <3>2, <3>3 DEF LockShared
  <2>4. CASE BeginShared(p)
    BY <2>4, <1>1, <1>2 DEF BeginShared, Inside
  <2>5. CASE Preflight(p) \/ SaveBaseline(p) \/ Borrow(p) \/ RewriteRecord(p) \/ EndShare(p)
             \/ RestorePairable(p)
    BY <2>5, <1>2 DEF Preflight, SaveBaseline, Borrow, RewriteRecord, EndShare, RestorePairable,
       Inside
  <2>6. CASE RestoreShared(p)
    BY <2>6, <1>1, <1>2 DEF RestoreShared, Inside
  <2>7. QED
    BY <1>4, <2>1, <2>2, <2>3, <2>4, <2>5, <2>6 DEF SharedNext
<1>5. CASE EitherNext(p)
  <2>1. CASE Kill(p)
    BY <2>1, <1>1 DEF Kill
  <2>2. CASE WriteRecord(p) \/ Compare(p) \/ UnlinkRecord(p)
    BY <2>2, <1>2 DEF WriteRecord, Compare, UnlinkRecord, Inside
  <2>3. CASE RenameRecord(p)
    <3>1. pc[p] \in Inside /\ then[p] \in Inside \ {"purge", "purgeLock"}
      BY <2>3, NamesAre DEF RenameRecord, Writing, Inside
    <3>2. QED
      BY <2>3, <3>1, <1>2 DEF RenameRecord
  <2>4. CASE WriteFails(p)
    BY <2>4, <1>1, <1>2 DEF WriteFails, Inside
  <2>5. CASE RestoreFails(p)
    BY <2>5, <1>1, NamesAre DEF RestoreFails
  <2>6. CASE UnlinkTemporary(p)
    BY <2>6, <1>0 DEF UnlinkTemporary
  <2>7. QED
    BY <1>5, <2>1, <2>2, <2>3, <2>4, <2>5, <2>6 DEF EitherNext
<1>6. QED
  BY <1>3, <1>4, <1>5 DEF Steps

-----------------------------------------------------------------------------
(* Types, and what a step leaves alone.                                    *)

\* A record that is renamed is a whole one.
Renaming(p) == pc[p] = "rename" => temporary[Lab(p)] \in {Whole(s) : s \in Settings}

LEMMA ChangedIsSettings ==
  ASSUME NEW s \in Settings, NEW n \in Names, NEW v \in BOOLEAN
  PROVE  Changed(s, n, v) \in Settings
<1> DEFINE S == [Powered : BOOLEAN, Pairable : BOOLEAN, Discoverable : BOOLEAN]
<1>1. s \in S /\ (s.Discoverable => s.Powered)
  BY DEF Settings
<1>2. CASE n = "Powered" /\ ~v
  <2>1. Changed(s, n, v) = [s EXCEPT !.Powered = FALSE, !.Discoverable = FALSE]
    BY <1>2, Zenon DEF Changed
  <2>2. [s EXCEPT !.Powered = FALSE, !.Discoverable = FALSE] \in Settings
    BY <1>1 DEF Settings
  <2>3. QED
    BY <2>1, <2>2
<1>3. CASE n = "Discoverable" /\ v /\ ~s.Powered
  <2>1. Changed(s, n, v) = s
    BY <1>3, Zenon DEF Changed
  <2>2. QED
    BY <2>1
<1>4. CASE ~(n = "Powered" /\ ~v) /\ ~(n = "Discoverable" /\ v /\ ~s.Powered)
  <2>1. Changed(s, n, v) = [s EXCEPT ![n] = v]
    BY <1>4, Zenon DEF Changed
  <2>2. [s EXCEPT ![n] = v] \in S
    BY <1>1, NamesAre
  <2>3. [s EXCEPT ![n] = v].Discoverable => [s EXCEPT ![n] = v].Powered
    BY <1>1, <1>4, NamesAre
  <2>4. QED
    BY <2>1, <2>2, <2>3 DEF Settings
<1>5. QED
  BY <1>2, <1>3, <1>4

LEMMA ExitTypes ==
  ASSUME Types, NEW p \in Procs, Exits(p), UNCHANGED <<root, journal, temporary>>,
         lockFile' \in BOOLEAN
  PROVE  Types'
<1>1. settings' \in Settings /\ home' = home
  BY DEF Exits, Returned, Types
<1>2. Unset \in Settings
  BY DEF Unset, Settings
<1>3. QED
  BY <1>1, <1>2 DEF Exits, Types

LEMMA EndTypes ==
  ASSUME Types, NEW p \in Procs, Ends(p)
  PROVE  Types'
BY ExitTypes DEF Ends, Types

\* A record that can be read holds settings.
LEMMA Readables ==
  ASSUME Types, NEW l \in Labs
  PROVE  /\ journal[l] # Absent => journal[l].of \in Settings
         /\ Readable(l) => Record(l).of \in Settings
         /\ journal[l] = Absent => Record(l) = temporary[l]
BY Files DEF Types, File, Readable, Record

LEMMA TypesStep ==
  ASSUME Types, NEW p \in Procs, Writing(p), Renaming(p), Steps(p)
  PROVE  Types'
<1> USE EndTypes DEF files, Goto, Keep
<1>1. Lab(p) \in Labs /\ \A s \in Settings : Whole(s) \in File \ {Partial}
  BY Constants, Files DEF File
<1>2. CASE p \in Exclusive /\ ExclusiveNext(p)
  <2>1. CASE StartExclusive(p)
    BY <2>1 DEF StartExclusive, Starts, Types, Starting, Making
  <2>2. CASE MakeRoot(p) \/ WriteManifest(p)
    BY <2>2 DEF MakeRoot, WriteManifest, Types, Starting, Making
  <2>3. CASE LockExclusive(p)
    BY <2>3 DEF LockExclusive, Types, Inside
  <2>4. CASE BeginExclusive(p) \/ RunFails(p) \/ PurgeFiles(p)
    BY <2>4 DEF BeginExclusive, RunFails, PurgeFiles, Types, Inside
  <2>5. CASE BeginRefuses(p)
    BY <2>5 DEF BeginRefuses
  <2>6. CASE Acquire(p) \/ VerifyOff(p) \/ FindAdapter(p)
    BY <1>1, <2>6, NamesAre DEF Acquire, VerifyOff, FindAdapter, Writes, Types, Inside, File
  <2>7. CASE PowerOff(p)
    <3>1. settings' \in Settings
      BY <2>7, ChangedIsSettings, NamesAre DEF PowerOff, Types
    <3>2. QED
      BY <2>7, <3>1 DEF PowerOff, Types, Inside
  <2>8. CASE OpenChannel(p) \/ CloseChannel(p)
    BY <1>2, <2>8 DEF OpenChannel, CloseChannel, Returned, Types, Inside
  <2>9. CASE RestoreExclusive(p)
    <3>1. CASE Ends(p)
      BY <3>1
    <3>2. CASE journal["exclusive"] # Absent /\ ~Ends(p)
      <4>1. journal["exclusive"].of \in Settings
        BY <3>2, Readables DEF Labs
      <4>2. QED
        BY <2>9, <3>2, <4>1 DEF RestoreExclusive, Types, Inside
    <3>3. CASE journal["exclusive"] = Absent /\ ~Ends(p)
      <4>1. temporary["exclusive"].of \in Settings
        BY <2>9, <3>3, Readables DEF RestoreExclusive, Labs
      <4>2. QED
        BY <1>1, <2>9, <3>3, <4>1 DEF RestoreExclusive, Writes, Types, Inside, File
    <3>4. QED
      BY <3>1, <3>2, <3>3
  <2>10. CASE RestoreProperty(p)
    <3>1. pc[p] \in Names /\ NameAfter(pc[p]) \in Inside /\ saved[p][pc[p]] \in BOOLEAN
      BY <2>10, NextName, NamesAre DEF RestoreProperty, Inside, Types, Settings
    <3>2. Changed(settings, pc[p], saved[p][pc[p]]) \in Settings
      BY <3>1, ChangedIsSettings DEF Types
    <3>3. settings' \in Settings /\ (pc' = pc \/ Goto(p, NameAfter(pc[p])))
      BY <2>10, <3>2 DEF RestoreProperty, Types
    <3>4. pc' \in [Procs -> {"idle"} \cup Starting \cup Making \cup Inside]
      BY <3>1, <3>3 DEF Types
    <3>5. UNCHANGED <<channel, root, lockFile, holder, journal, temporary, command, saved, then, home>>
      BY <2>10 DEF RestoreProperty
    <3>6. QED
      BY <3>3, <3>4, <3>5 DEF Types
  <2>11. CASE PurgeRoot(p)
    <3>1. Exits(p) /\ root' = "none" /\ lockFile' = FALSE /\ UNCHANGED <<journal, temporary>>
      BY <2>11 DEF PurgeRoot
    <3>2. settings' \in Settings /\ Unset \in Settings
      BY <3>1 DEF Exits, Returned, Types, Unset, Settings
    <3>3. QED
      BY <3>1, <3>2 DEF Exits, Types
  <2>12. QED
    BY <1>2, <2>1, <2>2, <2>3, <2>4, <2>5, <2>6, <2>7, <2>8, <2>9, <2>10, <2>11 DEF ExclusiveNext
<1>3. CASE p \in Shared /\ SharedNext(p)
  <2>1. CASE StartShared(p) \/ LookForLock(p)
    BY <2>1 DEF StartShared, Starts, LookForLock, Types, Starting
  <2>2. CASE LockShared(p)
    <3>1. CASE Ends(p)
      BY <3>1
    <3>2. CASE ~Ends(p)
      <4>1. UNCHANGED <<settings, channel, root, journal, temporary, command, saved, then, home>>
        BY <2>2, <3>2 DEF LockShared
      <4>2. pc' = [pc EXCEPT ![p] = "begin"] /\ lockFile' \in BOOLEAN
        BY <2>2, <3>2 DEF LockShared, Types
      <4>3. holder' \in [Labs -> Procs \cup {Nobody}]
        BY <2>2, <3>2 DEF LockShared, Types
      <4>4. QED
        BY <4>1, <4>2, <4>3 DEF Types, Inside
    <3>3. QED
      BY <3>1, <3>2
  <2>3. CASE BeginShared(p)
    BY <2>3 DEF BeginShared, Types, Inside
  <2>4. CASE Preflight(p)
    BY <2>4 DEF Preflight, Types, Inside
  <2>5. CASE SaveBaseline(p) \/ RewriteRecord(p)
    BY <1>1, <2>5 DEF SaveBaseline, RewriteRecord, Writes, Types, Inside, File
  <2>6. CASE Borrow(p) \/ EndShare(p) \/ RestorePairable(p)
    <3>1. \A b \in BOOLEAN : [settings EXCEPT !.Pairable = b] \in Settings
      BY DEF Types, Settings
    <3>2. saved[p].Pairable \in BOOLEAN
      BY DEF Types, Settings
    <3>3. settings' \in Settings
      BY <2>6, <3>1, <3>2 DEF Borrow, EndShare, RestorePairable, Types
    <3>4. QED
      BY <2>6, <3>3 DEF Borrow, EndShare, RestorePairable, Types, Inside
  <2>7. CASE RestoreShared(p)
    <3>1. Readable("shared") => Record("shared").of \in Settings
      BY Readables DEF Labs
    <3>2. QED
      BY <2>7, <3>1 DEF RestoreShared, Types, Inside
  <2>8. QED
    BY <1>3, <2>1, <2>2, <2>3, <2>4, <2>5, <2>6, <2>7 DEF SharedNext
<1>4. CASE EitherNext(p)
  <2>1. CASE Kill(p) \/ RestoreFails(p)
    BY <2>1 DEF Kill, RestoreFails
  <2>2. CASE WriteRecord(p)
    <3>1. Whole(saved[p]) \in File
      BY <1>1 DEF Types
    <3>2. QED
      BY <1>1, <2>2, <3>1 DEF WriteRecord, Types, Inside
  <2>3. CASE RenameRecord(p)
    <3>1. then[p] \in Inside /\ temporary[Lab(p)] \in File \ {Partial} /\ Absent \in File
      BY <1>1, <2>3, NamesAre DEF RenameRecord, Writing, Renaming, Inside, File
    <3>2. QED
      BY <1>1, <2>3, <3>1 DEF RenameRecord, Types
  <2>4. CASE WriteFails(p)
    BY <2>4 DEF WriteFails, Types, Inside
  <2>5. CASE Compare(p)
    BY <2>5 DEF Compare, Types, Inside
  <2>6. CASE UnlinkRecord(p)
    <3>1. Absent \in File \ {Partial}
      BY Files DEF File
    <3>2. QED
      BY <1>1, <2>6, <3>1 DEF UnlinkRecord, Types, Inside
  <2>7. CASE UnlinkTemporary(p)
    <3>1. /\ Exits(p) /\ UNCHANGED <<root, lockFile, journal>>
          /\ temporary' = [temporary EXCEPT ![Lab(p)] = Absent]
      BY <2>7 DEF UnlinkTemporary
    <3>2. settings' \in Settings /\ Unset \in Settings /\ temporary' \in [Labs -> File]
      BY <1>1, <3>1 DEF Exits, Returned, Types, Unset, Settings, File
    <3>3. QED
      BY <3>1, <3>2 DEF Exits, Types
  <2>8. QED
    BY <1>4, <2>1, <2>2, <2>3, <2>4, <2>5, <2>6, <2>7 DEF EitherNext
<1>5. QED
  BY <1>2, <1>3, <1>4 DEF Steps

\* What is not the step's own stays as it is.
Footprint(p) ==
  /\ \A q \in Procs \ {p} : /\ pc'[q] = pc[q] /\ command'[q] = command[q]
                            /\ saved'[q] = saved[q] /\ then'[q] = then[q]
  /\ \A l \in Labs : \/ journal'[l] = journal[l] /\ temporary'[l] = temporary[l]
                     \/ l = Lab(p) /\ pc[p] \in Inside
  /\ home' = home
  /\ (settings' = settings /\ channel' = channel) \/ pc[p] \in Inside \/ channel = p

LEMMA FootprintStep ==
  ASSUME Types, NEW p \in Procs, Steps(p)
  PROVE  Footprint(p)
<1> USE DEF files, Goto, Keep, Footprint
<1>1. ASSUME Exits(p), UNCHANGED <<journal, temporary>> PROVE Footprint(p)
  BY <1>1 DEF Exits, Types
<1>2. ASSUME Ends(p) PROVE Footprint(p)
  BY <1>1, <1>2 DEF Ends
<1>3. CASE p \in Exclusive /\ ExclusiveNext(p)
  <2>1. CASE StartExclusive(p)
    BY <2>1 DEF StartExclusive, Starts, Types
  <2>2. CASE MakeRoot(p) \/ WriteManifest(p) \/ LockExclusive(p) \/ BeginRefuses(p)
    BY <1>2, <2>2 DEF MakeRoot, WriteManifest, LockExclusive, BeginRefuses, Types
  <2>3. CASE BeginExclusive(p) \/ RunFails(p) \/ PurgeFiles(p) \/ PowerOff(p) \/ OpenChannel(p)
             \/ CloseChannel(p)
    BY <2>3 DEF BeginExclusive, RunFails, PurgeFiles, PowerOff, OpenChannel, CloseChannel, Types,
       Inside
  <2>4. CASE Acquire(p) \/ VerifyOff(p) \/ FindAdapter(p)
    BY <2>4 DEF Acquire, VerifyOff, FindAdapter, Writes, Types, Inside
  <2>5. CASE RestoreExclusive(p)
    BY <1>2, <2>5 DEF RestoreExclusive, Writes, Types, Inside
  <2>6. CASE RestoreProperty(p)
    <3>1. pc' = pc \/ Goto(p, NameAfter(pc[p]))
      BY <2>6 DEF RestoreProperty
    <3>2. UNCHANGED <<journal, temporary, command, saved, then, home>>
      BY <2>6 DEF RestoreProperty
    <3>3. pc[p] \in Inside
      BY <2>6, NamesAre DEF RestoreProperty, Inside
    <3>4. QED
      BY <3>1, <3>2, <3>3 DEF Types
  <2>7. CASE PurgeRoot(p)
    BY <1>1, <2>7 DEF PurgeRoot
  <2>8. QED
    BY <1>3, <2>1, <2>2, <2>3, <2>4, <2>5, <2>6, <2>7 DEF ExclusiveNext
<1>4. CASE p \in Shared /\ SharedNext(p)
  <2>1. CASE StartShared(p) \/ LookForLock(p)
    BY <2>1 DEF StartShared, Starts, LookForLock, Types
  <2>2. CASE LockShared(p) \/ BeginShared(p) \/ RestoreShared(p)
    BY <1>2, <2>2 DEF LockShared, BeginShared, RestoreShared, Types
  <2>3. CASE Preflight(p) \/ Borrow(p) \/ EndShare(p) \/ RestorePairable(p)
    BY <2>3 DEF Preflight, Borrow, EndShare, RestorePairable, Types, Inside
  <2>4. CASE SaveBaseline(p) \/ RewriteRecord(p)
    BY <2>4 DEF SaveBaseline, RewriteRecord, Writes, Types, Inside
  <2>5. QED
    BY <1>4, <2>1, <2>2, <2>3, <2>4 DEF SharedNext
<1>5. CASE EitherNext(p)
  <2>1. CASE Kill(p) \/ RestoreFails(p)
    BY <1>2, <2>1 DEF Kill, RestoreFails
  <2>2. CASE WriteRecord(p) \/ RenameRecord(p) \/ Compare(p) \/ UnlinkRecord(p)
    BY <2>2 DEF WriteRecord, RenameRecord, Compare, UnlinkRecord, Types, Inside
  <2>3. CASE WriteFails(p)
    BY <1>2, <2>3 DEF WriteFails, Types
  <2>4. CASE UnlinkTemporary(p)
    BY <2>4 DEF UnlinkTemporary, Exits, Types, Inside
  <2>5. QED
    BY <1>5, <2>1, <2>2, <2>3, <2>4 DEF EitherNext
<1>6. QED
  BY <1>3, <1>4, <1>5 DEF Steps

-----------------------------------------------------------------------------
(* Who holds the locks.                                                    *)

LEMMA PlacesApart ==
  /\ {"idle", "lock", "paths", "own", "both", "mkdir", "manifest", "make"} \cap Inside = {}
  /\ "begin" \in Inside
BY NamesAre DEF Inside

\* Where a step of each kind leads.
LEMMA Places ==
  ASSUME Types, NEW p \in Procs
  PROVE  /\ Moves(p) => /\ pc[p] \in Inside /\ pc'[p] \in Inside
                        /\ pc'[p] \in {"purge", "purgeLock"} => p \in Exclusive
                        /\ UNCHANGED <<lockFile, holder>>
         /\ Approaches(p) => /\ pc[p] \in {"mkdir", "manifest", "paths"}
                             /\ pc'[p] \in {"manifest", "lock", "own", "both"}
                             /\ pc'[p] = "manifest" => pc[p] = "mkdir"
                             /\ UNCHANGED <<lockFile, holder>>
         /\ Enters(p) => /\ pc[p] = "idle" /\ pc'[p] \in {"lock", "mkdir", "paths"}
                         /\ pc'[p] = "mkdir" => p \in Exclusive
                         /\ UNCHANGED <<lockFile, holder>>
         /\ Leaves(p) => pc[p] # "idle" /\ pc'[p] = "idle"
         /\ Locks(p) => pc[p] \in Starting /\ pc'[p] = "begin"
         /\ Moves(p) \/ Approaches(p) \/ Enters(p) \/ Leaves(p) \/ Locks(p) =>
              \A q \in Procs \ {p} : pc'[q] = pc[q]
<1>1. CASE Moves(p)
  <2>1. PICK w \in InsideOf(p) : pc' = [pc EXCEPT ![p] = w]
    BY <1>1 DEF Moves
  <2>2. pc'[p] = w /\ \A q \in Procs \ {p} : pc'[q] = pc[q]
    BY <2>1 DEF Types
  <2>3. w # "idle" /\ w \notin {"lock", "mkdir", "paths", "own", "both", "mkdir", "manifest", "make"}
    BY PlacesApart DEF InsideOf
  <2>4. ~Approaches(p) /\ ~Enters(p) /\ ~Leaves(p) /\ ~Locks(p)
    BY <1>1, <2>2, <2>3, PlacesApart DEF Approaches, Enters, Leaves, Locks, Moves, Types
  <2>5. QED
    BY <1>1, <2>1, <2>2, <2>4 DEF Moves, InsideOf
<1>2. CASE ~Moves(p)
  BY <1>2 DEF Approaches, Enters, Leaves, Locks, Types, Starting
<1>3. QED
  BY <1>1, <1>2

LEMMA HoldingStep ==
  ASSUME Types, Holding, NEW p \in Procs,
         Moves(p) \/ Approaches(p) \/ Enters(p) \/ Leaves(p) \/ Locks(p)
  PROVE  Holding'
<1> SUFFICES ASSUME NEW q \in Procs
             PROVE  pc'[q] \in Inside <=> holder'[Lab(q)] = q
  BY DEF Holding
<1>1. Lab(q) \in Labs /\ Lab(p) \in Labs /\ Nobody # q /\ Nobody # p
  BY Constants
<1>2. \A r \in Procs : pc[r] \in Inside <=> holder[Lab(r)] = r
  BY DEF Holding
<1>3. CASE Moves(p) \/ Approaches(p) \/ Enters(p)
  BY <1>2, <1>3, PlacesApart, Places
<1>4. CASE Leaves(p)
  BY <1>1, <1>2, <1>4, PlacesApart DEF Leaves, Types
<1>5. CASE Locks(p)
  BY <1>1, <1>2, <1>5, PlacesApart, Constants DEF Locks, Types, Labs
<1>6. QED
  BY <1>3, <1>4, <1>5

\* No two commands of a lab are inside.
LEMMA OneInside ==
  ASSUME Holding, NEW p \in Procs, NEW q \in Procs, Lab(p) = Lab(q),
         pc[p] \in Inside, pc[q] \in Inside
  PROVE  p = q
BY DEF Holding

\* A record is only ever written by the command that has begun it.
LEMMA WritingStep ==
  ASSUME Types, Types', Holding, NEW p \in Procs, Steps(p),
         \A q \in Procs : Writing(q) /\ Renaming(q)
  PROVE  \A q \in Procs : (Writing(q) /\ Renaming(q))'
<1> USE DEF files, Goto, Keep
<1>1. ASSUME NEW q \in Procs \ {p} PROVE (Writing(q) /\ Renaming(q))'
  <2>1. /\ pc'[q] = pc[q] /\ then'[q] = then[q]
        /\ temporary'[Lab(q)] = temporary[Lab(q)] \/ (Lab(q) = Lab(p) /\ pc[p] \in Inside)
    <3>1. Footprint(p) /\ Lab(q) \in Labs
      BY FootprintStep, Constants
    <3>2. QED
      BY <3>1 DEF Footprint
  <2>2. pc[q] = "rename" => temporary'[Lab(q)] = temporary[Lab(q)]
    BY <2>1, OneInside DEF Inside
  <2>3. QED
    BY <2>1, <2>2 DEF Writing, Renaming
<1>2. ASSUME pc'[p] \notin {"write", "rename"} PROVE (Writing(p) /\ Renaming(p))'
  BY <1>2 DEF Writing, Renaming
<1>3. ASSUME NEW next, Writes(p, next),
             next \in IF p \in Exclusive THEN {"off", "session", "find", "Powered"}
                                         ELSE {"borrow", "share"}
      PROVE  (Writing(p) /\ Renaming(p))'
  BY <1>3 DEF Writes, Writing, Renaming, Types
<1>4. ASSUME Exits(p) PROVE (Writing(p) /\ Renaming(p))'
  BY <1>2, <1>4 DEF Exits, Types
<1>5. ASSUME Ends(p) PROVE (Writing(p) /\ Renaming(p))'
  BY <1>4, <1>5 DEF Ends
<1>6. (Writing(p) /\ Renaming(p))'
  <2>1. CASE p \in Exclusive /\ ExclusiveNext(p)
    <3>1. CASE StartExclusive(p) \/ MakeRoot(p) \/ WriteManifest(p) \/ LockExclusive(p)
               \/ BeginExclusive(p) \/ BeginRefuses(p) \/ PowerOff(p) \/ OpenChannel(p)
               \/ CloseChannel(p) \/ RunFails(p) \/ PurgeFiles(p)
      BY <3>1, <1>2, <1>5 DEF StartExclusive, Starts, MakeRoot, WriteManifest, LockExclusive,
         BeginExclusive, BeginRefuses, PowerOff, OpenChannel, CloseChannel, RunFails, PurgeFiles,
         Types
    <3>2. CASE Acquire(p) \/ VerifyOff(p) \/ FindAdapter(p)
      BY <2>1, <3>2, <1>3 DEF Acquire, VerifyOff, FindAdapter
    <3>3. CASE RestoreExclusive(p)
      BY <2>1, <3>3, <1>2, <1>3, <1>5 DEF RestoreExclusive, Types
    <3>4. CASE RestoreProperty(p)
      <4>1. pc[p] \in Names /\ (pc' = pc \/ Goto(p, NameAfter(pc[p])))
        BY <3>4 DEF RestoreProperty
      <4>2. NameAfter(pc[p]) \in {"Pairable", "Discoverable", "compare"}
        BY <4>1, NextName
      <4>3. QED
        BY <4>1, <4>2, <1>2, NamesAre DEF Types
    <3>5. CASE PurgeRoot(p)
      BY <3>5, <1>4 DEF PurgeRoot
    <3>6. QED
      BY <2>1, <3>1, <3>2, <3>3, <3>4, <3>5 DEF ExclusiveNext
  <2>2. CASE p \in Shared /\ SharedNext(p)
    <3>1. CASE SaveBaseline(p) \/ RewriteRecord(p)
      BY <2>2, <3>1, <1>3, Constants DEF SaveBaseline, RewriteRecord
    <3>2. CASE ~(SaveBaseline(p) \/ RewriteRecord(p))
      BY <2>2, <3>2, <1>2, <1>5 DEF SharedNext, StartShared, Starts, LookForLock, LockShared,
         BeginShared, Preflight, Borrow, EndShare, RestoreShared, RestorePairable, Types
    <3>3. QED
      BY <3>1, <3>2
  <2>3. CASE EitherNext(p)
    <3>1. CASE WriteRecord(p)
      <4>1. Lab(p) \in Labs /\ saved[p] \in Settings
        BY Constants DEF Types
      <4>2. QED
        BY <3>1, <4>1 DEF WriteRecord, Writing, Renaming, Types
    <3>2. CASE RenameRecord(p)
      <4>1. pc'[p] = then[p] /\ Writing(p) /\ pc[p] = "rename"
        BY <3>2 DEF RenameRecord, Types
      <4>2. QED
        BY <4>1, <1>2 DEF Writing
    <3>3. CASE ~(WriteRecord(p) \/ RenameRecord(p))
      BY <2>3, <3>3, <1>2, <1>4, <1>5 DEF EitherNext, Kill, WriteFails, RestoreFails, Compare,
         UnlinkRecord, UnlinkTemporary, Types
    <3>4. QED
      BY <3>1, <3>2, <3>3
  <2>4. QED
    BY <2>1, <2>2, <2>3 DEF Steps
<1>7. QED
  BY <1>1, <1>6

\* What holds of any user.
Sound == Types /\ Holding /\ \A p \in Procs : Writing(p) /\ Renaming(p)

LEMMA SoundInit == LabsInit => Sound
<1> SUFFICES ASSUME LabsInit PROVE Sound
  OBVIOUS
<1>1. Types
  BY Files DEF LabsInit, Types, File, Unset, Settings
<1>2. Holding
  BY Constants, PlacesApart DEF LabsInit, Holding
<1>3. \A p \in Procs : pc[p] = "idle"
  BY DEF LabsInit
<1>4. QED
  BY <1>1, <1>2, <1>3 DEF Sound, Writing, Renaming

LEMMA SoundStep ==
  ASSUME Sound, [LabsNext]_labsVars
  PROVE  Sound'
<1>1. CASE UNCHANGED labsVars
  BY <1>1 DEF Sound, Types, Holding, Writing, Renaming, labsVars, files, process
<1>2. ASSUME NEW p \in Procs, Steps(p) PROVE Sound'
  <2>1. Types' /\ Holding'
    BY <1>2, TypesStep, StepKinds, HoldingStep DEF Sound
  <2>2. \A q \in Procs : (Writing(q) /\ Renaming(q))'
    BY <1>2, <2>1, WritingStep DEF Sound
  <2>3. QED
    BY <2>1, <2>2 DEF Sound
<1>3. QED
  BY <1>1, <1>2, NextSteps

\* Whatever is killed when, and whoever works beside whom: every variable has its
\* type, no record is torn, and who holds the lock of a lab is the one inside.
THEOREM LabsTypeCorrect == LabsSpec => []LabTypeOK
<1>1. Sound => LabTypeOK
  BY DEF Sound, Types, Holding, LabTypeOK
<1>2. QED
  BY <1>1, SoundInit, SoundStep, PTL DEF LabsSpec

-----------------------------------------------------------------------------
(* A careful user: the labs are alone.                                     *)

\* One command starts at a time; as long as the exclusive lab has no lock file all are
\* of one lab; and a shared command that is inside without the other lab's lock, or
\* will be, has found no lock file, and there still is none.
OneStarts  == \A p, q \in Procs : pc[p] \in Starting /\ pc[q] \in Starting => p = q
OwnSteps   == \A q \in Shared : pc[q] \notin Making \cup {"purge", "purgeLock"}
OneLab     == ~lockFile => \A p, q \in Procs : pc[p] # "idle" /\ pc[q] # "idle" => Lab(p) = Lab(q)
NoLockFile == \A q \in Shared :
                pc[q] = "own" \/ (pc[q] \in Inside /\ holder["exclusive"] # q) => ~lockFile
Orderly == OneStarts /\ OwnSteps /\ OneLab /\ NoLockFile

LEMMA OrderlyInit == LabsInit => Orderly
BY Constants DEF LabsInit, Orderly, OneStarts, OwnSteps, OneLab, NoLockFile, Starting, Making, Inside,
   Procs

\* Whoever is inside is alone: the other lab's commands are outside.
LEMMA Apart ==
  ASSUME Holding, Orderly, NEW p \in Procs, NEW q \in Procs, pc[p] \in Inside, pc[q] \in Inside
  PROVE  p = q
<1>1. ASSUME NEW e \in Exclusive, NEW s \in Shared, pc[e] \in Inside, pc[s] \in Inside
      PROVE  FALSE
  <2>1. e \in Procs /\ s \in Procs /\ Lab(e) = "exclusive" /\ Lab(s) = "shared"
    BY Constants DEF Procs
  <2>2. holder["exclusive"] = e /\ e # s
    BY <1>1, <2>1 DEF Holding
  <2>3. ~lockFile
    BY <1>1, <2>2 DEF Orderly, NoLockFile
  <2>4. pc[e] # "idle" /\ pc[s] # "idle"
    BY <1>1, PlacesApart
  <2>5. QED
    BY <2>1, <2>3, <2>4 DEF Orderly, OneLab
<1>2. CASE Lab(p) = Lab(q)
  BY <1>2, OneInside
<1>3. CASE Lab(p) # Lab(q)
  BY <1>1, <1>3, Constants DEF Procs
<1>4. QED
  BY <1>2, <1>3

LEMMA OrderlyStep ==
  ASSUME Careful, Types, Holding, Orderly, NEW p \in Procs, Undisturbed(p),
         Moves(p) \/ Approaches(p) \/ Enters(p) \/ Leaves(p) \/ Locks(p)
  PROVE  Orderly'
<1> USE DEF Orderly
<1>1. \A q \in Procs \ {p} : pc[q] \notin Starting
  BY DEF Undisturbed
<1>2. /\ Exclusive \cup Shared = Procs /\ Lab(p) \in Labs
      /\ \A q \in Shared : q \notin Exclusive
  BY Constants DEF Procs
<1>3. pc'[p] \in {"idle"} \cup Starting \cup Making \cup Inside /\ \A q \in Procs \ {p} : pc'[q] = pc[q]
  BY Places, PlacesApart DEF Starting, Making
<1>4. OneStarts'
  BY <1>1, <1>3 DEF OneStarts
<1>5. OwnSteps'
  <2>1. ASSUME p \in Shared PROVE pc'[p] \notin Making \cup {"purge", "purgeLock"}
    BY <1>2, <2>1, Places, PlacesApart DEF OwnSteps, Making
  <2>2. QED
    BY <1>2, <1>3, <2>1 DEF OwnSteps
<1>6. CASE Moves(p)
  <2>1. pc[p] # "idle" /\ pc'[p] # "idle" /\ pc'[p] # "own" /\ pc[p] \in Inside
    BY <1>6, Places, PlacesApart
  <2>2. OneLab'
    BY <1>3, <1>6, <2>1 DEF Moves, OneLab
  <2>3. NoLockFile'
    BY <1>2, <1>3, <1>6, <2>1 DEF Moves, NoLockFile
  <2>4. QED
    BY <1>4, <1>5, <2>2, <2>3
<1>7. CASE Approaches(p)
  <2>1. pc[p] # "idle" /\ pc'[p] # "idle" /\ pc'[p] \notin Inside /\ (pc'[p] = "own" => ~lockFile)
    BY <1>7, PlacesApart DEF Approaches, Types
  <2>2. OneLab'
    BY <1>3, <1>7, <2>1 DEF Approaches, OneLab
  <2>3. NoLockFile'
    BY <1>2, <1>3, <1>7, <2>1 DEF Approaches, NoLockFile
  <2>4. QED
    BY <1>4, <1>5, <2>2, <2>3
<1>8. CASE Enters(p)
  <2>1. /\ pc'[p] # "own" /\ pc'[p] \notin Inside
        /\ ~lockFile => \A q \in Procs : pc[q] # "idle" => Lab(q) = Lab(p)
    BY <1>8, PlacesApart DEF Enters, Alone, Types
  <2>2. OneLab'
    BY <1>3, <1>8, <2>1 DEF Enters, OneLab
  <2>3. NoLockFile'
    BY <1>2, <1>3, <1>8, <2>1 DEF Enters, NoLockFile
  <2>4. QED
    BY <1>4, <1>5, <2>2, <2>3
<1>9. CASE Leaves(p)
  <2>1. pc'[p] = "idle" /\ pc[p] # "idle" /\ "idle" \notin Inside
    BY <1>9, PlacesApart DEF Leaves, Types
  <2>2. CASE lockFile' = lockFile
    <3>1. OneLab'
      BY <1>3, <2>1, <2>2 DEF OneLab
    <3>2. ASSUME NEW q \in Shared, pc'[q] = "own" \/ (pc'[q] \in Inside /\ holder'["exclusive"] # q)
          PROVE  ~lockFile'
      <4>1. q # p /\ q \in Procs /\ pc[q] = pc'[q]
        BY <1>2, <1>3, <2>1, <3>2
      <4>2. holder["exclusive"] = q => holder'["exclusive"] = q
        BY <1>9, <4>1 DEF Leaves, Labs
      <4>3. QED
        BY <2>2, <3>2, <4>1, <4>2 DEF NoLockFile
    <3>3. QED
      BY <1>4, <1>5, <3>1, <3>2 DEF NoLockFile
  <2>3. CASE lockFile' = FALSE /\ pc[p] = "purgeLock" /\ lockFile
    <3>1. p \in Exclusive /\ pc[p] \in Inside /\ Lab(p) = "exclusive"
      BY <1>2, <2>3, Constants DEF OwnSteps, Inside
    <3>2. holder["exclusive"] = p
      BY <3>1 DEF Holding
    <3>3. ASSUME NEW q \in Shared PROVE pc[q] = "idle"
      <4>1. q \in Procs /\ q # p
        BY <1>2, <3>1
      <4>2. pc[q] \notin Inside
        BY <2>3, <3>2, <4>1 DEF NoLockFile
      <4>3. QED
        BY <1>1, <4>1, <4>2 DEF OwnSteps, Types
    <3>4. \A q \in Procs : pc'[q] # "idle" => Lab(q) = "exclusive"
      BY <1>2, <1>3, <2>1, <3>3, Constants
    <3>5. OneLab'
      BY <3>4 DEF OneLab
    <3>6. QED
      BY <1>4, <1>5, <2>3, <3>5 DEF NoLockFile
  <2>4. CASE lockFile' = FALSE /\ ~lockFile
    <3>1. OneLab'
      BY <1>3, <2>1, <2>4 DEF OneLab
    <3>2. QED
      BY <1>4, <1>5, <2>4, <3>1 DEF NoLockFile
  <2>5. QED
    BY <1>9, <2>2, <2>3, <2>4 DEF Leaves
<1>10. CASE Locks(p)
  <2>1. pc'[p] = "begin" /\ "begin" # "idle" /\ "begin" # "own"
    BY <1>10 DEF Locks, Types
  <2>2. CASE p \in Exclusive /\ lockFile' = TRUE /\ pc[p] = "lock" /\ holder["exclusive"] = Nobody
    <3>1. ASSUME NEW q \in Shared PROVE pc'[q] # "own" /\ pc'[q] \notin Inside
      <4>1. q \in Procs /\ q # p /\ q # Nobody
        BY <1>2, <2>2, Constants
      <4>2. pc[q] # "own"
        BY <1>1, <4>1 DEF Starting
      <4>3. pc[q] \in Inside => ~lockFile
        BY <2>2, <4>1 DEF NoLockFile
      <4>4. pc[q] \in Inside => Lab(p) = Lab(q)
        BY <2>2, <4>1, <4>3, PlacesApart DEF OneLab
      <4>5. QED
        BY <1>3, <2>2, <4>1, <4>2, <4>4, Constants
    <3>2. QED
      BY <1>4, <1>5, <2>2, <3>1 DEF OneLab, NoLockFile
  <2>3. CASE p \in Shared /\ pc[p] = "own"
    <3>1. lockFile' = lockFile /\ ~lockFile
      BY <1>2, <1>10, <2>3 DEF Locks, NoLockFile
    <3>2. OneLab'
      BY <1>3, <2>1, <2>3, <3>1 DEF OneLab
    <3>3. QED
      BY <1>4, <1>5, <3>1, <3>2 DEF NoLockFile
  <2>4. CASE p \in Shared /\ pc[p] = "both"
    <3>1. /\ lockFile' = TRUE /\ holder'["exclusive"] = p
          /\ holder["shared"] = Nobody
      BY <1>2, <1>10, <2>4 DEF Locks, Labs
    <3>2. ASSUME NEW q \in Shared \ {p} PROVE pc'[q] # "own" /\ pc'[q] \notin Inside
      <4>1. q \in Procs /\ q # Nobody /\ Lab(q) = "shared"
        BY <1>2, Constants
      <4>2. pc[q] # "own" /\ pc[q] \notin Inside
        BY <1>1, <3>1, <4>1 DEF Starting, Holding
      <4>3. QED
        BY <1>3, <4>1, <4>2
    <3>3. QED
      BY <1>4, <1>5, <2>1, <3>1, <3>2 DEF OneLab, NoLockFile
  <2>5. QED
    BY <1>10, <2>2, <2>3, <2>4 DEF Locks
<1>11. QED
  BY <1>6, <1>7, <1>8, <1>9, <1>10

LEMMA OrderlyNext ==
  ASSUME Careful, Sound, Orderly, [LabsNext]_labsVars
  PROVE  Orderly'
<1>1. CASE UNCHANGED labsVars
  BY <1>1 DEF Orderly, OneStarts, OwnSteps, OneLab, NoLockFile, labsVars, files, process
<1>2. ASSUME NEW p \in Procs, Steps(p) PROVE Orderly'
  <2>1. Moves(p) \/ Approaches(p) \/ Enters(p) \/ Leaves(p) \/ Locks(p)
    BY <1>2, StepKinds DEF Sound
  <2>2. QED
    BY <1>2, <2>1, OrderlyStep DEF Sound, Steps
<1>3. QED
  BY <1>1, <1>2, NextSteps

\* The labs never work at the same time: each refuses to start on the other's record,
\* the shared lab takes the exclusive lab's lock as well when there is one, and the user
\* does not use both before there is one.
THEOREM NeverBoth ==
  ASSUME Careful
  PROVE  LabsSpec => []LabsAreAlone
<1>1. Sound /\ Orderly => LabsAreAlone
  BY Apart, Constants DEF Sound, LabsAreAlone, Working, Procs
<1>2. Sound /\ Orderly /\ [LabsNext]_labsVars => Orderly'
  BY OrderlyNext
<1>3. QED
  BY <1>1, <1>2, SoundInit, SoundStep, OrderlyInit, PTL DEF LabsSpec

-----------------------------------------------------------------------------
(* A careful user: the settings are kept.                                  *)

\* A file has the settings from before all of this or nothing of use; changed settings
\* are in a record, and so are those of an adapter BlueZ has lost.
Kept ==
  /\ \A l \in Labs : journal[l] \in {Absent, Whole(home)}
  /\ \A l \in Labs : temporary[l] \in {Absent, Partial, Whole(home)}
  /\ settings # home => \E l \in Labs : journal[l] # Absent
  /\ channel # Nobody => /\ pc[channel] \in {"radio", "restore", "find"}
                         /\ journal["exclusive"] # Absent

\* A command that is not told to run, or is yet to look at the adapter, saves nothing.
Unsaved == {"begin", "acquire", "restore", "purge", "purgeLock", "preflight"}

\* What a command knows where it is.
Knows(p) ==
  /\ pc[p] \in Inside \ Unsaved => saved[p] = home
  /\ pc[p] \in {"off", "verify", "session", "radio", "borrow", "share"} => journal[Lab(p)] # Absent
  /\ pc[p] \in {"write", "rename"} /\ then[p] = "share" => journal[Lab(p)] # Absent
  /\ pc[p] \in {"unlink", "tidy", "baseline"} => settings = home
  /\ pc[p] \in {"acquire", "preflight"} => \A l \in Labs : journal[l] = Absent
  /\ pc[p] \in Making => command[p] # "run"
  /\ command[p] = "run" /\ pc[p] \in Starting \cup {"begin"} =>
       \A l \in Labs \ {Lab(p)} : journal[l] = Absent

LEMMA Begun ==
  ASSUME LabsInit
  PROVE  Kept /\ \A p \in Procs : Knows(p)
<1>1. \A p \in Procs : pc[p] = "idle" /\ "idle" \notin Starting \cup Making \cup Inside
  BY PlacesApart DEF LabsInit, Starting, Making
<1>2. QED
  BY <1>1, PlacesApart DEF LabsInit, Kept, Knows

\* The others know what they knew.
LEMMA OthersKnow ==
  ASSUME Careful, Sound, Orderly, Kept, NEW p \in Procs, Steps(p), NEW q \in Procs \ {p}, Knows(q)
  PROVE  Knows(q)'
<1>1. Footprint(p) /\ Lab(q) \in Labs
  BY FootprintStep, Constants DEF Sound
<1>2. pc[q] \notin Starting
  BY DEF Steps, Undisturbed
<1>3. /\ pc'[q] = pc[q] /\ command'[q] = command[q] /\ saved'[q] = saved[q] /\ then'[q] = then[q]
      /\ home' = home
  BY <1>1 DEF Footprint
<1>4. CASE pc[p] \in Inside
  <2>1. pc[q] \notin Inside
    BY <1>4, Apart DEF Sound
  <2>2. QED
    BY <1>2, <1>3, <2>1, PlacesApart DEF Knows, Inside
<1>5. CASE pc[p] \notin Inside
  <2>1. channel # p
    BY <1>5, Constants DEF Kept, Inside
  <2>2. settings' = settings /\ \A l \in Labs : journal'[l] = journal[l]
    BY <1>1, <1>5, <2>1 DEF Footprint
  <2>3. QED
    BY <1>1, <1>3, <2>2 DEF Knows
<1>6. QED
  BY <1>4, <1>5

\* No record, so nothing has been changed.
LEMMA NothingChanged ==
  ASSUME Kept, \A l \in Labs : journal[l] = Absent
  PROVE  settings = home
BY DEF Kept

LEMMA KeptFiles ==
  ASSUME Kept, NEW l \in Labs
  PROVE  /\ journal[l] # Absent => journal[l].of = home
         /\ Readable(l) => Record(l).of = home
         /\ journal[l] = Absent => Record(l) = temporary[l]
BY Files DEF Kept, Readable, Record

\* A step that touches neither settings nor files.
LEMMA KeptSame ==
  ASSUME Types, Kept, NEW p \in Procs, Footprint(p),
         UNCHANGED <<settings, channel, journal, temporary>>,
         channel = p => pc'[p] \in {"radio", "restore", "find"}
  PROVE  Kept'
BY Constants DEF Kept, Types, Footprint, Procs

\* A step that writes a temporary file.
LEMMA KeptTemporary ==
  ASSUME Types, Kept, NEW p \in Procs, Footprint(p), NEW f \in {Absent, Partial, Whole(home)},
         UNCHANGED <<settings, channel, journal>>, channel # p,
         temporary' = [temporary EXCEPT ![Lab(p)] = f]
  PROVE  Kept'
BY Constants DEF Kept, Types, Footprint, Procs

\* The end of a command, however it comes.
LEMMA KeptAtExit ==
  ASSUME Types, Kept, NEW p \in Procs, Footprint(p), Exits(p), journal' = journal,
         \A l \in Labs : temporary'[l] \in {temporary[l], Absent}
  PROVE  Kept' /\ Knows(p)'
<1>1. Knows(p)'
  <2>1. pc'[p] = "idle" /\ "idle" \notin Inside \cup Starting \cup Making
    BY PlacesApart DEF Exits, Types, Starting, Making
  <2>2. QED
    BY <2>1, PlacesApart DEF Knows
<1>2. home' = home
  BY DEF Exits
<1>3. CASE channel = p
  <2>1. channel' = Nobody /\ journal["exclusive"] # Absent
    BY <1>3, Constants DEF Exits, Kept
  <2>2. QED
    BY <1>1, <1>2, <2>1 DEF Kept, Labs
<1>4. CASE channel # p
  <2>1. settings' = settings /\ channel' = channel
    BY <1>4 DEF Exits
  <2>2. channel # Nobody => pc'[channel] = pc[channel]
    BY <1>4 DEF Types, Footprint, Procs
  <2>3. QED
    BY <1>1, <1>2, <2>1, <2>2 DEF Kept
<1>5. QED
  BY <1>3, <1>4

LEMMA KeptAtEnd ==
  ASSUME Types, Kept, NEW p \in Procs, Footprint(p), Ends(p)
  PROVE  Kept' /\ Knows(p)'
BY KeptAtExit DEF Ends

LEMMA KeptStep ==
  ASSUME Careful, Sound, Orderly, Kept, NEW p \in Procs, Steps(p), Knows(p)
  PROVE  Kept' /\ Knows(p)'
<1> USE DEF files, Goto, Keep
<1>1. /\ Types /\ Holding /\ Writing(p) /\ Renaming(p) /\ Footprint(p) /\ Lab(p) \in Labs
      /\ home' = home
  BY FootprintStep, Constants DEF Sound, Footprint
<1>2. (pc[p] \in Inside \ {"radio", "restore", "find"}) \/ pc[p] \notin Inside => channel # p
  BY <1>1, Constants DEF Kept, Inside
<1>3. ASSUME Ends(p) PROVE Kept' /\ Knows(p)'
  BY <1>1, <1>3, KeptAtEnd
<1>4. ASSUME UNCHANGED <<settings, channel, journal, temporary>>,
             channel = p => pc'[p] \in {"radio", "restore", "find"}
      PROVE  Kept'
  BY <1>1, <1>4, KeptSame
<1>5. ASSUME UNCHANGED <<settings, channel, journal>>, channel # p,
             temporary' = [temporary EXCEPT ![Lab(p)] = Partial]
      PROVE  Kept'
  BY <1>1, <1>5, KeptTemporary
<1>6. CASE p \in Exclusive /\ ExclusiveNext(p)
  <2>0. Lab(p) = "exclusive" /\ Labs = {"exclusive", "shared"}
    BY <1>6, Constants DEF Labs
  <2>1. CASE StartExclusive(p)
    <3>1. /\ pc'[p] \in {"lock", "mkdir"} /\ UNCHANGED <<settings, channel, journal, temporary>>
          /\ pc'[p] = "mkdir" => command'[p] # "run"
          /\ command'[p] = "run" => journal["shared"] = Absent
      BY <1>1, <2>1 DEF StartExclusive, Starts, Pending, Types
    <3>2. channel # p
      BY <1>2, <2>1, PlacesApart DEF StartExclusive, Starts
    <3>3. Knows(p)'
      BY <2>0, <3>1, PlacesApart DEF Knows, Starting, Making
    <3>4. QED
      BY <1>4, <3>1, <3>2, <3>3
  <2>2. CASE MakeRoot(p) \/ WriteManifest(p)
    <3>1. CASE Ends(p)
      BY <1>3, <3>1
    <3>2. CASE ~Ends(p)
      <4>1. /\ pc[p] \in Making /\ pc'[p] \in {"manifest", "lock"} /\ command' = command
            /\ UNCHANGED <<settings, channel, journal, temporary>>
        BY <1>1, <2>2, <3>2 DEF MakeRoot, WriteManifest, Making, Types
      <4>2. channel # p
        BY <1>2, <4>1, PlacesApart DEF Making
      <4>3. Knows(p)'
        BY <4>1, PlacesApart DEF Knows
      <4>4. QED
        BY <1>4, <4>1, <4>2, <4>3
    <3>3. QED
      BY <3>1, <3>2
  <2>3. CASE LockExclusive(p)
    <3>1. CASE Ends(p)
      BY <1>3, <3>1
    <3>2. CASE ~Ends(p)
      <4>1. /\ pc[p] = "lock" /\ pc'[p] = "begin" /\ command' = command
            /\ UNCHANGED <<settings, channel, journal, temporary>>
        BY <1>1, <2>3, <3>2 DEF LockExclusive, Types
      <4>2. channel # p
        BY <1>2, <4>1, PlacesApart
      <4>3. Knows(p)'
        BY <4>1, PlacesApart DEF Knows, Unsaved, Starting, Making
      <4>4. QED
        BY <1>4, <4>1, <4>2, <4>3
    <3>3. QED
      BY <3>1, <3>2
  <2>4. CASE BeginExclusive(p)
    <3>1. /\ pc[p] = "begin" /\ pc'[p] \in {"acquire", "restore", "purge"} /\ command' = command
          /\ UNCHANGED <<settings, channel, journal, temporary>>
          /\ pc'[p] = "acquire" => command[p] = "run" /\ journal["exclusive"] = Absent
      BY <1>1, <2>4 DEF BeginExclusive, Pending, Types
    <3>2. channel # p
      BY <1>2, <3>1 DEF Inside
    <3>3. Knows(p)'
      BY <2>0, <3>1 DEF Knows, Unsaved, Starting, Making
    <3>4. QED
      BY <1>4, <3>1, <3>2, <3>3
  <2>5. CASE BeginRefuses(p)
    BY <1>3, <2>5 DEF BeginRefuses
  <2>6. CASE Acquire(p)
    <3>1. /\ pc[p] = "acquire" /\ pc'[p] = "write" /\ then'[p] = "off" /\ saved'[p] = settings
          /\ UNCHANGED <<settings, channel, journal>>
          /\ temporary' = [temporary EXCEPT ![Lab(p)] = Partial]
      BY <1>1, <2>6 DEF Acquire, Writes, Types
    <3>2. settings = home /\ channel # p
      BY <1>2, <3>1, NothingChanged DEF Knows, Inside
    <3>3. Knows(p)'
      BY <1>1, <3>1, <3>2 DEF Knows, Starting, Making
    <3>4. QED
      BY <1>5, <3>1, <3>2, <3>3
  <2>7. CASE PowerOff(p)
    <3>1. /\ pc[p] = "off" /\ pc'[p] = "verify"
          /\ UNCHANGED <<channel, journal, temporary, command, saved, then>>
      BY <1>1, <2>7 DEF PowerOff, Types
    <3>2. channel # p /\ journal[Lab(p)] # Absent /\ saved[p] = home
      BY <1>2, <3>1 DEF Knows, Inside, Unsaved
    <3>3. Knows(p)'
      BY <1>1, <3>1, <3>2 DEF Knows, Starting, Making
    <3>4. channel # Nobody => pc'[channel] = pc[channel]
      BY <1>1, <3>2 DEF Types, Footprint, Procs
    <3>5. Kept'
      BY <1>1, <3>1, <3>2, <3>4 DEF Kept
    <3>6. QED
      BY <3>3, <3>5
  <2>8. CASE VerifyOff(p)
    <3>1. /\ pc[p] = "verify" /\ pc'[p] = "write" /\ then'[p] = "session" /\ saved' = saved
          /\ UNCHANGED <<settings, channel, journal>>
          /\ temporary' = [temporary EXCEPT ![Lab(p)] = Partial]
      BY <1>1, <2>8 DEF VerifyOff, Writes, Types
    <3>2. channel # p /\ saved[p] = home
      BY <1>2, <3>1 DEF Knows, Inside, Unsaved
    <3>3. Knows(p)'
      BY <1>1, <3>1, <3>2 DEF Knows, Starting, Making
    <3>4. QED
      BY <1>5, <3>1, <3>2, <3>3
  <2>9. CASE OpenChannel(p)
    <3>1. /\ pc[p] = "session" /\ pc'[p] = "radio" /\ channel' = p
          /\ UNCHANGED <<settings, journal, temporary, command, saved, then>>
      BY <1>1, <2>9 DEF OpenChannel, Types
    <3>2. journal[Lab(p)] # Absent /\ saved[p] = home
      BY <3>1 DEF Knows, Inside, Unsaved
    <3>3. Knows(p)'
      BY <1>1, <3>1, <3>2 DEF Knows, Starting, Making
    <3>4. Kept'
      BY <1>1, <2>0, <3>1, <3>2 DEF Kept
    <3>5. QED
      BY <3>3, <3>4
  <2>10. CASE CloseChannel(p)
    <3>1. /\ pc[p] = "radio" /\ pc'[p] = "restore" /\ channel' = Nobody
          /\ UNCHANGED <<journal, temporary, command, saved, then>>
      BY <1>1, <2>10 DEF CloseChannel, Types
    <3>2. journal[Lab(p)] # Absent
      BY <3>1 DEF Knows
    <3>3. Knows(p)'
      BY <1>1, <3>1, <3>2 DEF Knows, Starting, Making, Unsaved
    <3>4. Kept'
      BY <1>1, <3>1, <3>2 DEF Kept
    <3>5. QED
      BY <3>3, <3>4
  <2>11. CASE RunFails(p)
    <3>1. /\ pc'[p] = "restore" /\ UNCHANGED <<settings, channel, journal, temporary>>
      BY <1>1, <2>11 DEF RunFails, Types
    <3>2. Knows(p)'
      BY <3>1 DEF Knows, Starting, Making, Unsaved
    <3>3. QED
      BY <1>4, <3>1, <3>2
  <2>12. CASE RestoreExclusive(p)
    <3>1. CASE Ends(p)
      BY <1>3, <3>1
    <3>2. CASE journal["exclusive"] # Absent /\ ~Ends(p)
      <4>1. /\ pc'[p] = "find" /\ saved'[p] = journal["exclusive"].of
            /\ UNCHANGED <<settings, channel, journal, temporary>>
        BY <1>1, <2>12, <3>2 DEF RestoreExclusive, Types
      <4>2. saved'[p] = home
        BY <2>0, <3>2, <4>1, KeptFiles
      <4>3. Knows(p)'
        BY <1>1, <4>1, <4>2 DEF Knows, Starting, Making
      <4>4. QED
        BY <1>4, <4>1, <4>3
    <3>3. CASE journal["exclusive"] = Absent /\ ~Ends(p)
      <4>1. /\ pc'[p] = "write" /\ then'[p] = "find" /\ saved'[p] = temporary["exclusive"].of
            /\ Readable("exclusive") /\ UNCHANGED <<settings, channel, journal>>
            /\ temporary' = [temporary EXCEPT ![Lab(p)] = Partial]
        BY <1>1, <2>12, <3>3 DEF RestoreExclusive, Writes, Types
      <4>2. saved'[p] = home /\ channel # p
        BY <1>1, <2>0, <3>3, <4>1, KeptFiles, Constants DEF Kept
      <4>3. Knows(p)'
        BY <1>1, <4>1, <4>2 DEF Knows, Starting, Making
      <4>4. QED
        BY <1>5, <4>1, <4>2, <4>3
    <3>4. QED
      BY <3>1, <3>2, <3>3
  <2>13. CASE FindAdapter(p)
    <3>1. /\ pc[p] = "find" /\ pc'[p] = "write" /\ then'[p] = "Powered" /\ saved' = saved
          /\ UNCHANGED <<settings, channel, journal>> /\ channel = Nobody
          /\ temporary' = [temporary EXCEPT ![Lab(p)] = Partial]
      BY <1>1, <2>13 DEF FindAdapter, Writes, Types
    <3>2. channel # p /\ saved[p] = home
      BY <3>1, Constants DEF Knows, Inside, Unsaved
    <3>3. Knows(p)'
      BY <1>1, <3>1, <3>2 DEF Knows, Starting, Making
    <3>4. QED
      BY <1>5, <3>1, <3>2, <3>3
  <2>14. CASE RestoreProperty(p)
    <3>1. /\ pc[p] \in Names /\ channel = Nobody
          /\ UNCHANGED <<channel, journal, temporary, command, saved, then>>
          /\ settings[pc[p]] = saved[p][pc[p]] => settings' = settings
          /\ pc' = pc \/ Goto(p, NameAfter(pc[p]))
      BY <2>14 DEF RestoreProperty
    <3>2. pc'[p] \in Names \cup {"compare"}
      BY <1>1, <3>1, NextName, NamesAre DEF Types
    <3>3. saved[p] = home
      BY <3>1, NamesAre DEF Knows, Inside, Unsaved
    <3>4. Knows(p)'
      BY <1>1, <3>1, <3>2, <3>3, NamesAre DEF Knows, Starting, Making
    <3>5. Kept'
      BY <1>1, <3>1, <3>3 DEF Kept
    <3>6. QED
      BY <3>4, <3>5
  <2>15. CASE PurgeFiles(p)
    <3>1. /\ pc[p] = "purge" /\ pc'[p] = "purgeLock"
          /\ UNCHANGED <<settings, channel, journal, temporary>>
      BY <1>1, <2>15 DEF PurgeFiles, Types
    <3>2. Knows(p)'
      BY <3>1 DEF Knows, Starting, Making, Unsaved
    <3>3. QED
      BY <1>2, <1>4, <3>1, <3>2 DEF Inside
  <2>16. CASE PurgeRoot(p)
    BY <1>1, <2>16, KeptAtExit DEF PurgeRoot
  <2>17. QED
    BY <1>6, <2>1, <2>2, <2>3, <2>4, <2>5, <2>6, <2>7, <2>8, <2>9, <2>10, <2>11, <2>12, <2>13, <2>14,
       <2>15, <2>16 DEF ExclusiveNext
<1>7. CASE p \in Shared /\ SharedNext(p)
  <2>0. Lab(p) = "shared" /\ Labs = {"exclusive", "shared"} /\ channel # p
    BY <1>1, <1>7, Constants DEF Labs, Types
  <2>1. CASE StartShared(p)
    <3>1. /\ pc'[p] = "paths" /\ UNCHANGED <<settings, channel, journal, temporary>>
          /\ journal["exclusive"] = Absent
      BY <1>1, <2>1 DEF StartShared, Starts, Pending, Types
    <3>2. Knows(p)'
      BY <2>0, <3>1, PlacesApart DEF Knows, Making
    <3>3. QED
      BY <1>4, <2>0, <3>1, <3>2
  <2>2. CASE LookForLock(p)
    <3>1. /\ pc[p] = "paths" /\ pc'[p] \in {"own", "both"} /\ command' = command
          /\ UNCHANGED <<settings, channel, journal, temporary>>
      BY <1>1, <2>2 DEF LookForLock, Types
    <3>2. Knows(p)'
      BY <3>1, PlacesApart DEF Knows, Making, Starting
    <3>3. QED
      BY <1>4, <2>0, <3>1, <3>2
  <2>3. CASE LockShared(p)
    <3>1. CASE Ends(p)
      BY <1>3, <3>1
    <3>2. CASE ~Ends(p)
      <4>1. /\ pc[p] \in {"own", "both"} /\ pc'[p] = "begin" /\ command' = command
            /\ UNCHANGED <<settings, channel, journal, temporary>>
        BY <1>1, <2>3, <3>2 DEF LockShared, Types
      <4>2. Knows(p)'
        BY <4>1 DEF Knows, Making, Starting, Unsaved
      <4>3. QED
        BY <1>4, <2>0, <4>1, <4>2
    <3>3. QED
      BY <3>1, <3>2
  <2>4. CASE BeginShared(p)
    <3>1. CASE Ends(p)
      BY <1>3, <3>1
    <3>2. CASE ~Ends(p)
      <4>1. /\ pc[p] = "begin" /\ pc'[p] \in {"preflight", "restore"}
            /\ UNCHANGED <<settings, channel, journal, temporary>>
            /\ pc'[p] = "preflight" => command[p] = "run" /\ journal["shared"] = Absent
        BY <1>1, <2>4, <3>2 DEF BeginShared, Pending, Types
      <4>2. Knows(p)'
        BY <2>0, <4>1 DEF Knows, Making, Starting, Unsaved
      <4>3. QED
        BY <1>4, <2>0, <4>1, <4>2
    <3>3. QED
      BY <3>1, <3>2
  <2>5. CASE Preflight(p)
    <3>1. /\ pc[p] = "preflight" /\ pc'[p] = "baseline" /\ saved'[p] = settings
          /\ UNCHANGED <<settings, channel, journal, temporary>>
      BY <1>1, <2>5 DEF Preflight, Types
    <3>2. settings = home
      BY <3>1, NothingChanged DEF Knows
    <3>3. Knows(p)'
      BY <1>1, <3>1, <3>2 DEF Knows, Making, Starting
    <3>4. QED
      BY <1>4, <2>0, <3>1, <3>3
  <2>6. CASE SaveBaseline(p) \/ RewriteRecord(p)
    <3>1. /\ pc'[p] = "write" /\ saved' = saved /\ pc[p] \in {"baseline", "share"}
          /\ then'[p] = "share" => pc[p] = "share"
          /\ UNCHANGED <<settings, channel, journal>>
          /\ temporary' = [temporary EXCEPT ![Lab(p)] = Partial]
      BY <1>1, <2>6 DEF SaveBaseline, RewriteRecord, Writes, Types
    <3>2. Knows(p)'
      BY <1>1, <3>1 DEF Knows, Making, Starting, Inside, Unsaved
    <3>3. QED
      BY <1>5, <2>0, <3>1, <3>2
  <2>7. CASE Borrow(p)
    <3>1. /\ pc[p] = "borrow" /\ pc'[p] = "share"
          /\ UNCHANGED <<channel, journal, temporary, command, saved, then>>
      BY <1>1, <2>7 DEF Borrow, Types
    <3>2. journal[Lab(p)] # Absent /\ saved[p] = home
      BY <3>1 DEF Knows, Inside, Unsaved
    <3>3. Knows(p)'
      BY <1>1, <3>1, <3>2 DEF Knows, Starting, Making
    <3>4. channel # Nobody => pc'[channel] = pc[channel]
      BY <1>1, <2>0 DEF Types, Footprint, Procs
    <3>5. Kept'
      BY <1>1, <3>1, <3>2, <3>4 DEF Kept
    <3>6. QED
      BY <3>3, <3>5
  <2>8. CASE EndShare(p)
    <3>1. /\ pc'[p] = "restore" /\ UNCHANGED <<channel, journal, temporary>>
          /\ settings' = settings \/ pc[p] \in {"borrow", "share"}
      BY <1>1, <2>8 DEF EndShare, Types
    <3>2. Knows(p)'
      BY <3>1 DEF Knows, Starting, Making, Unsaved
    <3>3. pc[p] \in {"borrow", "share"} => journal[Lab(p)] # Absent
      BY DEF Knows
    <3>4. channel # Nobody => pc'[channel] = pc[channel]
      BY <1>1, <2>0 DEF Types, Footprint, Procs
    <3>5. Kept'
      BY <1>1, <3>1, <3>3, <3>4 DEF Kept
    <3>6. QED
      BY <3>2, <3>5
  <2>9. CASE RestoreShared(p)
    <3>1. CASE Ends(p)
      BY <1>3, <3>1
    <3>2. CASE ~Ends(p)
      <4>1. /\ pc'[p] = "find" /\ saved'[p] = Record("shared").of /\ Readable("shared")
            /\ UNCHANGED <<settings, channel, journal, temporary>>
        BY <1>1, <2>9, <3>2 DEF RestoreShared, Types
      <4>2. saved'[p] = home
        BY <2>0, <4>1, KeptFiles
      <4>3. Knows(p)'
        BY <1>1, <4>1, <4>2 DEF Knows, Starting, Making
      <4>4. QED
        BY <1>4, <2>0, <4>1, <4>3
    <3>3. QED
      BY <3>1, <3>2
  <2>10. CASE RestorePairable(p)
    <3>1. /\ pc[p] = "find" /\ pc'[p] = "compare" /\ channel = Nobody
          /\ UNCHANGED <<channel, journal, temporary, command, saved, then>>
          /\ settings' = [settings EXCEPT !.Pairable = saved[p].Pairable]
      BY <1>1, <2>10 DEF RestorePairable, Types
    <3>2. saved[p] = home
      BY <3>1 DEF Knows, Inside, Unsaved
    <3>3. settings = home => settings' = home
      BY <1>1, <3>1, <3>2 DEF Types, Settings
    <3>4. Knows(p)'
      BY <1>1, <3>1, <3>2 DEF Knows, Starting, Making
    <3>5. Kept'
      BY <1>1, <3>1, <3>3 DEF Kept
    <3>6. QED
      BY <3>4, <3>5
  <2>11. QED
    BY <1>7, <2>1, <2>2, <2>3, <2>4, <2>5, <2>6, <2>7, <2>8, <2>9, <2>10 DEF SharedNext
<1>8. CASE EitherNext(p)
  <2>1. CASE Kill(p) \/ RestoreFails(p)
    BY <1>3, <2>1 DEF Kill, RestoreFails
  <2>2. CASE WriteRecord(p)
    <3>1. /\ pc[p] = "write" /\ pc'[p] = "rename" /\ saved[p] = home /\ channel # p
          /\ UNCHANGED <<settings, channel, journal, command, saved, then>>
          /\ temporary' = [temporary EXCEPT ![Lab(p)] = Whole(saved[p])]
      BY <1>1, <1>2, <2>2 DEF WriteRecord, Types, Knows, Inside, Unsaved
    <3>2. Kept'
      BY <1>1, <3>1, KeptTemporary
    <3>3. Knows(p)'
      BY <1>1, <3>1 DEF Knows, Starting, Making
    <3>4. QED
      BY <3>2, <3>3
  <2>3. CASE RenameRecord(p)
    <3>1. /\ pc[p] = "rename" /\ pc'[p] = then[p] /\ saved[p] = home /\ channel # p
          /\ UNCHANGED <<settings, channel, command, saved>>
          /\ journal' = [journal EXCEPT ![Lab(p)] = temporary[Lab(p)]]
          /\ temporary' = [temporary EXCEPT ![Lab(p)] = Absent]
      BY <1>1, <1>2, <2>3 DEF RenameRecord, Types, Knows, Inside, Unsaved
    <3>2. temporary[Lab(p)] = Whole(home)
      BY <1>1, <3>1, Files DEF Renaming, Kept
    <3>3. journal'[Lab(p)] = Whole(home) /\ Whole(home) # Absent
      BY <1>1, <3>1, <3>2, Files DEF Types
    <3>4. then[p] \in {"off", "session", "find", "Powered", "borrow", "share"}
      BY <1>1, <3>1 DEF Writing
    <3>5. Knows(p)'
      BY <1>1, <3>1, <3>3, <3>4 DEF Knows, Starting, Making
    <3>6. channel # Nobody => pc'[channel] = pc[channel]
      BY <1>1, <3>1 DEF Types, Footprint, Procs
    <3>7. \A l \in Labs : /\ journal'[l] = IF l = Lab(p) THEN Whole(home) ELSE journal[l]
                          /\ temporary'[l] = IF l = Lab(p) THEN Absent ELSE temporary[l]
      BY <1>1, <3>1, <3>2 DEF Types
    <3>8. Kept'
      BY <1>1, <3>1, <3>3, <3>6, <3>7 DEF Kept, Labs
    <3>9. QED
      BY <3>5, <3>8
  <2>4. CASE WriteFails(p)
    <3>1. CASE Ends(p)
      BY <1>3, <3>1
    <3>2. CASE ~Ends(p)
      <4>1. /\ pc[p] \in {"write", "rename"} /\ pc'[p] = (IF then[p] = "share" THEN "share" ELSE "restore")
            /\ UNCHANGED <<settings, channel, journal, temporary, saved>>
        BY <1>1, <2>4, <3>2 DEF WriteFails, Types
      <4>2. Knows(p)'
        BY <1>1, <4>1 DEF Knows, Starting, Making, Inside, Unsaved
      <4>3. QED
        BY <1>2, <1>4, <4>1, <4>2 DEF Inside
    <3>3. QED
      BY <3>1, <3>2
  <2>5. CASE Compare(p)
    <3>1. /\ pc[p] = "compare" /\ pc'[p] = "unlink" /\ settings = saved[p]
          /\ UNCHANGED <<settings, channel, journal, temporary, saved>>
      BY <1>1, <2>5 DEF Compare, Types
    <3>2. settings = home
      BY <3>1 DEF Knows, Inside, Unsaved
    <3>3. Knows(p)'
      BY <1>1, <3>1, <3>2 DEF Knows, Starting, Making
    <3>4. QED
      BY <1>2, <1>4, <3>1, <3>3 DEF Inside
  <2>6. CASE UnlinkRecord(p)
    <3>1. /\ pc[p] = "unlink" /\ pc'[p] = "tidy" /\ settings = home
          /\ UNCHANGED <<settings, channel, temporary, command, saved, then>>
          /\ journal' = [journal EXCEPT ![Lab(p)] = Absent]
      BY <1>1, <2>6 DEF UnlinkRecord, Types, Knows
    <3>2. saved[p] = home /\ pc[p] \in Inside
      BY <3>1 DEF Knows, Inside, Unsaved
    <3>3. Knows(p)'
      BY <1>1, <3>1, <3>2 DEF Knows, Starting, Making
    <3>4. channel = Nobody
      <4>1. channel # Nobody => channel \in Procs /\ pc[channel] \in {"radio", "restore", "find"}
        BY <1>1 DEF Types, Procs, Kept
      <4>2. channel # Nobody => channel = p
        BY <1>1, <3>2, <4>1, Apart DEF Inside
      <4>3. QED
        BY <3>1, <4>1, <4>2
    <3>5. \A l \in Labs : journal'[l] \in {journal[l], Absent}
      BY <1>1, <3>1 DEF Types
    <3>6. Kept'
      BY <1>1, <3>1, <3>4, <3>5 DEF Kept
    <3>7. QED
      BY <3>3, <3>6
  <2>7. CASE UnlinkTemporary(p)
    <3>1. /\ Exits(p) /\ journal' = journal
          /\ \A l \in Labs : temporary'[l] \in {temporary[l], Absent}
      BY <1>1, <2>7 DEF UnlinkTemporary, Types
    <3>2. QED
      BY <1>1, <3>1, KeptAtExit
  <2>8. QED
    BY <1>8, <2>1, <2>2, <2>3, <2>4, <2>5, <2>6, <2>7 DEF EitherNext
<1>9. QED
  BY <1>6, <1>7, <1>8 DEF Steps

LEMMA KeptNext ==
  ASSUME Careful, Sound, Orderly, Kept, \A p \in Procs : Knows(p), [LabsNext]_labsVars
  PROVE  Kept' /\ \A p \in Procs : Knows(p)'
<1>1. CASE UNCHANGED labsVars
  BY <1>1 DEF Kept, Knows, labsVars, files, process
<1>2. ASSUME NEW p \in Procs, Steps(p) PROVE Kept' /\ \A q \in Procs : Knows(q)'
  <2>1. Kept' /\ Knows(p)'
    BY <1>2, KeptStep
  <2>2. \A q \in Procs \ {p} : Knows(q)'
    BY <1>2, OthersKnow
  <2>3. QED
    BY <2>1, <2>2
<1>3. QED
  BY <1>1, <1>2, NextSteps

\* Whatever is killed when: settings a lab has changed and not put back are in a record,
\* a whole one, and it has the settings from before the labs.
THEOREM OriginalsSurvive ==
  ASSUME Careful
  PROVE  LabsSpec => []OriginalsAreKept
<1> DEFINE Known == \A p \in Procs : Knows(p)
<1>1. Kept => OriginalsAreKept
  BY Files DEF Kept, OriginalsAreKept, Readable, Record
<1>2. LabsInit => Kept /\ Known
  BY Begun
<1>3. Sound /\ Orderly /\ [LabsNext]_labsVars => Orderly'
  BY OrderlyNext
<1>4. Sound /\ Orderly /\ Kept /\ Known /\ [LabsNext]_labsVars => Kept' /\ Known'
  BY KeptNext
<1> HIDE DEF Known
<1>5. QED
  BY <1>1, <1>2, <1>3, <1>4, SoundInit, SoundStep, OrderlyInit, PTL DEF LabsSpec

-----------------------------------------------------------------------------
(* Device: the parts of its inductive invariant.                           *)

Waiting == {"register", "advertise", "withdraw"}

\* The lock's queue has who is in a call, each once; who is past the lock is its first.
Queued ==
  /\ \A t \in Task : at[t] # "idle" <=> \E i \in DOMAIN queue : queue[i] = t
  /\ \A i, k \in DOMAIN queue : queue[i] = queue[k] => i = k
  /\ \A t \in Task : at[t] \notin {"idle", "lock"} => queue # <<>> /\ queue[1] = t

\* One reply is awaited at most: its call is with BlueZ, or it is on its way back.
Asked ==
  /\ \A i \in DOMAIN sent : sent[i].who # None => sent[i].from = bus /\ at[sent[i].who] = sent[i].what
  /\ \A i \in DOMAIN received :
       /\ received[i].what = "release" <=> received[i].who = None
       /\ received[i].who # None => at[received[i].who] \in Waiting
  /\ \A i, k \in DOMAIN sent : sent[i].who # None /\ sent[k].who # None => i = k
  /\ \A i, k \in DOMAIN received : received[i].who # None /\ received[k].who # None => i = k
  /\ \A i \in DOMAIN sent, k \in DOMAIN received : sent[i].who = None \/ received[k].who = None

\* BlueZ has nothing of a connection.
Unknown(b) == b \notin apps \cup advs /\ \A i \in DOMAIN sent : sent[i].from # b

\* Nothing is registered on a connection that is made or given up, nor can be while the
\* name of BlueZ is not known.
Fresh ==
  /\ bus = None => ~registered
  /\ \A t \in Task : at[t] \in {"open"} \cup Closing \cup Opening => ~registered
  /\ \A t \in Task : at[t] \in Opening => bus # None
  /\ \A t \in Task : at[t] \in {"connect", "owner", "objects"} => Unknown(bus)
  /\ Connected /\ ~known => Unknown(bus)

\* One application, and on it the advertisement.
One ==
  /\ \A b, c \in apps : b = c
  /\ advs \subseteq apps
  /\ \A i \in DOMAIN sent : sent[i].what = "register" =>
       apps = {} /\ \A k \in DOMAIN sent : sent[k].what = "register" => k = i
  /\ \A i \in DOMAIN sent : sent[i].what = "advertise" => sent[i].from \in apps

\* A registration that is confirmed, noted or not, is there.
Confirmed ==
  /\ ReuseIsSound
  /\ \A i \in DOMAIN received :
       received[i].what = "ok" /\ at[received[i].who] = "register" /\ Connected /\ known => bus \in apps

\* The last that BlueZ was sent about an advertisement is to withdraw it.
Withdrawn ==
  /\ bus \in advs => \E k \in DOMAIN sent : sent[k].from = bus /\ sent[k].what = "withdraw"
  /\ \A i \in DOMAIN sent : sent[i].from = bus /\ sent[i].what = "advertise" =>
       \E k \in DOMAIN sent : k > i /\ sent[k].from = bus /\ sent[k].what = "withdraw"

Ending == Connected => released \/ (\E t \in Task : at[t] \in Advertising) \/ Withdrawn

DeviceInv == DeviceTypeOK /\ Queued /\ Asked /\ Fresh /\ One /\ Confirmed /\ Ending

-----------------------------------------------------------------------------
(* Sequences.                                                              *)

LEMMA RemovedAt ==
  ASSUME NEW S, NEW s \in Seq(S), NEW i \in DOMAIN s
  PROVE  /\ RemoveAt(s, i) \in Seq(S)
         /\ DOMAIN RemoveAt(s, i) = 1..(Len(s) - 1)
         /\ \A k \in 1..(Len(s) - 1) : RemoveAt(s, i)[k] = IF k < i THEN s[k] ELSE s[k + 1]
<1> DEFINE a == SubSeq(s, 1, i - 1)
           b == SubSeq(s, i + 1, Len(s))
<1>1. i \in 1..Len(s) /\ Len(s) \in Nat /\ \A k \in 1..Len(s) : s[k] \in S
  OBVIOUS
<1>2. a \in Seq(S) /\ Len(a) = i - 1 /\ \A k \in 1..(i - 1) : a[k] = s[k]
  <2>1. \A k \in 1..(i - 1) : s[k] \in S
    BY <1>1
  <2>2. /\ a \in Seq(S) /\ Len(a) = IF 1 <= i - 1 THEN (i - 1) - 1 + 1 ELSE 0
        /\ \A k \in 1..((i - 1) - 1 + 1) : a[k] = s[1 + k - 1]
    BY <1>1, <2>1, SubSeqProperties
  <2>3. QED
    BY <1>1, <2>2
<1>3. b \in Seq(S) /\ Len(b) = Len(s) - i /\ \A k \in 1..(Len(s) - i) : b[k] = s[i + k]
  <2>1. \A k \in (i + 1)..Len(s) : s[k] \in S
    BY <1>1
  <2>2. /\ b \in Seq(S) /\ Len(b) = IF i + 1 <= Len(s) THEN Len(s) - (i + 1) + 1 ELSE 0
        /\ \A k \in 1..(Len(s) - (i + 1) + 1) : b[k] = s[(i + 1) + k - 1]
    BY <1>1, <2>1, SubSeqProperties
  <2>3. QED
    BY <1>1, <2>2
<1> HIDE DEF a, b
<1>4. /\ a \o b \in Seq(S) /\ Len(a \o b) = Len(a) + Len(b)
      /\ \A k \in 1..(Len(a) + Len(b)) : (a \o b)[k] = IF k <= Len(a) THEN a[k] ELSE b[k - Len(a)]
  BY <1>2, <1>3, ConcatProperties
<1>5. RemoveAt(s, i) = a \o b
  BY DEF RemoveAt, a, b
<1> DEFINE c == RemoveAt(s, i)
<1>6. /\ c \in Seq(S) /\ Len(c) = Len(a) + Len(b)
      /\ \A k \in 1..(Len(a) + Len(b)) : c[k] = IF k <= Len(a) THEN a[k] ELSE b[k - Len(a)]
  BY <1>4, <1>5
<1> HIDE DEF c
<1>7. Len(c) = Len(s) - 1 /\ DOMAIN c = 1..(Len(s) - 1)
  BY <1>1, <1>2, <1>3, <1>6
<1>8. ASSUME NEW k \in 1..(Len(s) - 1) PROVE c[k] = IF k < i THEN s[k] ELSE s[k + 1]
  <2>1. k \in 1..(Len(a) + Len(b)) /\ Len(a) = i - 1
    BY <1>1, <1>2, <1>3
  <2>2. c[k] = IF k <= Len(a) THEN a[k] ELSE b[k - Len(a)]
    BY <1>6, <2>1, Zenon
  <2>3. CASE k < i
    <3>1. k <= Len(a) /\ k \in 1..(i - 1)
      BY <1>1, <2>1, <2>3
    <3>2. QED
      BY <1>2, <2>2, <2>3, <3>1, Zenon
  <2>4. CASE ~(k < i)
    <3>1. i \in Nat /\ k \in Nat /\ Len(s) \in Nat /\ i <= k /\ k <= Len(s) - 1
      BY <1>1, <2>4
    <3> DEFINE l == Len(s)
               n == k - (i - 1)
    <3>2. Len(a) = i - 1 /\ l \in Nat /\ k <= l - 1
      BY <2>1, <3>1
    <3> HIDE DEF l
    <3>3. ~(k <= Len(a)) /\ k - Len(a) \in 1..(Len(s) - i) /\ i + (k - Len(a)) = k + 1
      <4>1. ~(k <= i - 1) /\ n \in 1..(l - i) /\ i + n = k + 1
        BY <3>1, <3>2
      <4>2. QED
        BY <3>2, <4>1 DEF l
    <3>4. b[k - Len(a)] = s[i + (k - Len(a))]
      BY <1>3, <3>3, Zenon
    <3>5. QED
      BY <2>2, <2>4, <3>3, <3>4, Zenon
  <2>5. QED
    BY <2>3, <2>4
<1>9. QED
  BY <1>6, <1>7, <1>8 DEF c

LEMMA InSeq ==
  ASSUME NEW S, NEW s \in Seq(S)
  PROVE  DOMAIN s = 1..Len(s) /\ Len(s) \in Nat /\ \A i \in DOMAIN s : s[i] \in S
OBVIOUS

LEMMA Tailed ==
  ASSUME NEW S, NEW s \in Seq(S), s # <<>>
  PROVE  /\ Tail(s) \in Seq(S) /\ DOMAIN Tail(s) = 1..(Len(s) - 1) /\ Len(s) \in Nat \ {0}
         /\ Head(s) = s[1] /\ 1 \in DOMAIN s /\ s[1] \in S
         /\ \A k \in DOMAIN Tail(s) : k + 1 \in DOMAIN s /\ Tail(s)[k] = s[k + 1]
BY HeadTailProperties, EmptySeq

\* Messages that are no longer awaited are what they were.
LEMMA AbandonedIs ==
  ASSUME DeviceTypeOK, NEW t \in Task
  PROVE  /\ Abandoned(t) \in Seq(Call) /\ DOMAIN Abandoned(t) = DOMAIN sent
         /\ Len(Abandoned(t)) = Len(sent)
         /\ \A i \in DOMAIN sent : /\ Abandoned(t)[i].from = sent[i].from
                                   /\ Abandoned(t)[i].what = sent[i].what
                                   /\ Abandoned(t)[i].who = IF sent[i].who = t THEN None ELSE sent[i].who
<1>1. sent \in Seq(Call)
  BY DEF DeviceTypeOK
<1>0. DOMAIN sent = 1..Len(sent) /\ Len(sent) \in Nat /\ \A i \in DOMAIN sent : sent[i] \in Call
  BY <1>1, InSeq
<1>2. ASSUME NEW i \in DOMAIN sent
      PROVE  /\ Abandoned(t)[i] \in Call
             /\ Abandoned(t)[i].from = sent[i].from
             /\ Abandoned(t)[i].what = sent[i].what
             /\ Abandoned(t)[i].who = IF sent[i].who = t THEN None ELSE sent[i].who
  <2>1. sent[i] \in Call
    BY <1>0
  <2>2. QED
    BY <2>1 DEF Abandoned, Call
<1>3. Abandoned(t) \in [1..Len(sent) -> Call]
  BY <1>0, <1>2 DEF Abandoned
<1>4. QED
  BY <1>0, <1>2, <1>3

\* What a task sends, if it can, comes behind all of it.
LEMMA SendingIs ==
  ASSUME DeviceTypeOK, NEW t \in Task, NEW what \in {"register", "advertise", "withdraw"}
  PROVE  \/ /\ ~(Connected /\ known) /\ Sending(t, what) = Abandoned(t)
         \/ /\ Connected /\ known /\ bus \in Bus
            /\ Sending(t, what) \in Seq(Call)
            /\ DOMAIN Sending(t, what) = 1..(Len(sent) + 1) /\ Len(sent) \in Nat
            /\ \A i \in DOMAIN sent : Sending(t, what)[i] = Abandoned(t)[i]
            /\ Sending(t, what)[Len(sent) + 1] = [from |-> bus, who |-> t, what |-> what]
<1>0. sent \in Seq(Call)
  BY DEF DeviceTypeOK
<1>1. /\ Abandoned(t) \in Seq(Call) /\ DOMAIN Abandoned(t) = DOMAIN sent /\ Len(Abandoned(t)) = Len(sent)
      /\ DOMAIN sent = 1..Len(sent) /\ Len(sent) \in Nat
  BY <1>0, AbandonedIs, InSeq
<1>2. CASE ~(Connected /\ known)
  <2>1. Sending(t, what) = Abandoned(t) \o <<>>
    BY <1>2 DEF Sending
  <2>2. QED
    BY <1>1, <1>2, <2>1, ConcatEmptySeq
<1>3. CASE Connected /\ known
  <2> DEFINE m == [from |-> bus, who |-> t, what |-> what]
  <2>1. bus \in Bus /\ m \in Call
    BY <1>3 DEF Connected, DeviceTypeOK, Call
  <2>2. Sending(t, what) = Abandoned(t) \o <<m>>
    BY <1>3 DEF Sending
  <2> HIDE DEF m
  <2>3. Sending(t, what) = Append(Abandoned(t), m)
    BY <1>1, <2>1, <2>2, AppendIsConcat
  <2>4. /\ Sending(t, what) \in Seq(Call) /\ Len(Sending(t, what)) = Len(sent) + 1
        /\ \A i \in 1..Len(sent) : Sending(t, what)[i] = Abandoned(t)[i]
        /\ Sending(t, what)[Len(sent) + 1] = m
    BY <1>1, <2>1, <2>3, AppendProperties
  <2>5. QED
    BY <1>1, <1>3, <2>1, <2>4 DEF m
<1>4. QED
  BY <1>2, <1>3

\* What is known of the messages by their types.
LEMMA MessagesAre ==
  ASSUME DeviceTypeOK
  PROVE  /\ sent \in Seq(Call) /\ DOMAIN sent = 1..Len(sent) /\ Len(sent) \in Nat
         /\ \A i \in DOMAIN sent : /\ sent[i] \in Call /\ sent[i].from \in Bus
                                   /\ sent[i].who \in Task \cup {None} /\ sent[i].what \in Waiting
         /\ received \in Seq(Incoming) /\ DOMAIN received = 1..Len(received) /\ Len(received) \in Nat
         /\ \A i \in DOMAIN received : /\ received[i] \in Incoming
                                       /\ received[i].who \in Task \cup {None}
                                       /\ received[i].what \in {"ok", "error", "gone", "release"}
         /\ queue \in Seq(Task) /\ DOMAIN queue = 1..Len(queue) /\ Len(queue) \in Nat
         /\ \A i \in DOMAIN queue : queue[i] \in Task
         /\ None \notin Task /\ None \notin Bus
<1>1. sent \in Seq(Call) /\ received \in Seq(Incoming) /\ queue \in Seq(Task)
  BY DEF DeviceTypeOK
<1>2. \A m \in Call : m.from \in Bus /\ m.who \in Task \cup {None} /\ m.what \in Waiting
  BY DEF Call, Waiting
<1>3. \A m \in Incoming : m.who \in Task \cup {None} /\ m.what \in {"ok", "error", "gone", "release"}
  BY DEF Incoming
<1>4. None \notin Task /\ None \notin Bus
  BY DeviceAssumption
<1>5. /\ DOMAIN sent = 1..Len(sent) /\ Len(sent) \in Nat /\ \A i \in DOMAIN sent : sent[i] \in Call
      /\ DOMAIN received = 1..Len(received) /\ Len(received) \in Nat
      /\ \A i \in DOMAIN received : received[i] \in Incoming
      /\ DOMAIN queue = 1..Len(queue) /\ Len(queue) \in Nat /\ \A i \in DOMAIN queue : queue[i] \in Task
  BY <1>1, InSeq
<1>6. QED
  BY <1>1, <1>2, <1>3, <1>4, <1>5

-----------------------------------------------------------------------------
(* The lock.                                                               *)

First(t) == queue # <<>> /\ queue[1] = t /\ at[t] # "idle"

Joins(t) == at[t] = "idle" /\ at' = [at EXCEPT ![t] = "lock"] /\ queue' = Append(queue, t)
Goes(t, place) == First(t) /\ at' = [at EXCEPT ![t] = place] /\ place # "idle" /\ UNCHANGED queue
Quits(t) == at[t] # "idle" /\ at' = [at EXCEPT ![t] = "idle"] /\ LetGo(t)

\* Only the first is past the lock.
LEMMA OneWorks ==
  ASSUME DeviceTypeOK, Queued, NEW t \in Task
  PROVE  /\ at[t] \notin {"idle", "lock"} => First(t)
         /\ First(t) => \A u \in Task \ {t} : at[u] \in {"idle", "lock"}
         /\ queue # <<>> => Head(queue) = queue[1]
BY MessagesAre DEF Queued, First

\* However tasks come and go, those who are in a call are those in the queue.
LEMMA QueuedStays ==
  ASSUME DeviceTypeOK, Queued, NEW t \in Task,
         Joins(t) \/ (\E place \in Place : Goes(t, place)) \/ Quits(t)
  PROVE  Queued' /\ queue' \in Seq(Task) /\ at' \in [Task -> Place]
<1>0. at \in [Task -> Place]
  BY DEF DeviceTypeOK
<1>1. CASE Joins(t)
  <2>1. at' = [at EXCEPT ![t] = "lock"] /\ at[t] = "idle" /\ "lock" \in Place
    BY <1>1 DEF Joins, Place
  <2>2. /\ queue' \in Seq(Task) /\ Len(queue') = Len(queue) + 1
        /\ \A i \in 1..Len(queue) : queue'[i] = queue[i]
        /\ queue'[Len(queue) + 1] = t
    BY <1>1, MessagesAre, AppendProperties DEF Joins
  <2>3. DOMAIN queue' = 1..(Len(queue) + 1) /\ DOMAIN queue = 1..Len(queue) /\ Len(queue) \in Nat
    BY <2>2, MessagesAre, InSeq
  <2>4. \A i \in DOMAIN queue : queue[i] # t
    BY <2>1 DEF Queued
  <2>5. at' \in [Task -> Place]
    BY <1>0, <2>1
  <2>6. \A u \in Task : at'[u] # "idle" <=> \E i \in DOMAIN queue' : queue'[i] = u
    <3>1. at'[t] # "idle" /\ \E i \in DOMAIN queue' : queue'[i] = t
      BY <1>0, <2>1, <2>2, <2>3
    <3>2. ASSUME NEW u \in Task \ {t} PROVE at'[u] # "idle" <=> \E i \in DOMAIN queue' : queue'[i] = u
      <4>1. at'[u] = at[u]
        BY <1>0, <2>1, <3>2
      <4>2. (\E i \in DOMAIN queue' : queue'[i] = u) <=> \E i \in DOMAIN queue : queue[i] = u
        BY <2>2, <2>3, <3>2
      <4>3. QED
        BY <4>1, <4>2 DEF Queued
    <3>3. QED
      BY <3>1, <3>2
  <2>7. \A i, k \in DOMAIN queue' : queue'[i] = queue'[k] => i = k
    BY <2>2, <2>3, <2>4 DEF Queued
  <2>8. \A u \in Task : at'[u] \notin {"idle", "lock"} => queue' # <<>> /\ queue'[1] = u
    <3>1. ASSUME NEW u \in Task, at'[u] \notin {"idle", "lock"} PROVE queue' # <<>> /\ queue'[1] = u
      <4>1. at[u] \notin {"idle", "lock"}
        BY <1>0, <2>1, <3>1
      <4>2. queue # <<>> /\ queue[1] = u
        BY <4>1 DEF Queued
      <4>3. 1 \in 1..Len(queue)
        BY <4>2, MessagesAre
      <4>4. QED
        BY <2>2, <2>3, <4>2, <4>3
    <3>2. QED
      BY <3>1
  <2>9. QED
    BY <2>2, <2>5, <2>6, <2>7, <2>8 DEF Queued
<1>2. ASSUME NEW place \in Place, Goes(t, place) PROVE Queued' /\ queue' \in Seq(Task) /\ at' \in [Task -> Place]
  <2>1. at' = [at EXCEPT ![t] = place] /\ at[t] # "idle" /\ place # "idle" /\ queue' = queue /\ queue # <<>> /\ queue[1] = t
    BY <1>2 DEF Goes, First
  <2>2. at'[t] = place /\ \A u \in Task \ {t} : at'[u] = at[u]
    BY <1>0, <2>1
  <2>3. queue' \in Seq(Task) /\ at' \in [Task -> Place]
    BY <1>0, <2>1, MessagesAre
  <2>4. QED
    BY <2>1, <2>2, <2>3 DEF Queued
<1>3. CASE Quits(t)
  <2>1. at' = [at EXCEPT ![t] = "idle"] /\ at[t] # "idle" /\ "idle" \in Place
    BY <1>3 DEF Quits, Place
  <2>2. PICK i \in DOMAIN queue : queue[i] = t /\ queue' = RemoveAt(queue, i)
    BY <1>3 DEF Quits, LetGo
  <2>3. /\ queue' \in Seq(Task) /\ DOMAIN queue' = 1..(Len(queue) - 1)
        /\ \A k \in 1..(Len(queue) - 1) : queue'[k] = IF k < i THEN queue[k] ELSE queue[k + 1]
    BY <2>2, MessagesAre, RemovedAt
  <2>4. DOMAIN queue = 1..Len(queue) /\ Len(queue) \in Nat /\ i \in 1..Len(queue)
    BY MessagesAre
  <2>5. at' \in [Task -> Place] /\ at'[t] = "idle" /\ \A u \in Task \ {t} : at'[u] = at[u]
    BY <1>0, <2>1
  <2>6. \A k \in DOMAIN queue' : \E j \in DOMAIN queue : j # i /\ queue'[k] = queue[j]
    BY <2>3, <2>4
  <2>7. \A j \in DOMAIN queue : j # i => \E k \in DOMAIN queue' : queue'[k] = queue[j]
    <3>1. ASSUME NEW j \in DOMAIN queue, j # i PROVE \E k \in DOMAIN queue' : queue'[k] = queue[j]
      <4>1. CASE j < i
        <5>1. j \in 1..(Len(queue) - 1)
          BY <2>4, <4>1
        <5>2. QED
          BY <2>3, <4>1, <5>1
      <4>2. CASE j > i
        <5>1. j - 1 \in 1..(Len(queue) - 1) /\ ~(j - 1 < i) /\ (j - 1) + 1 = j
          BY <2>4, <4>2
        <5>2. QED
          BY <2>3, <5>1
      <4>3. QED
        BY <2>4, <3>1, <4>1, <4>2
    <3>2. QED
      BY <3>1
  <2>8. \A u \in Task : at'[u] # "idle" <=> \E k \in DOMAIN queue' : queue'[k] = u
    <3>1. ASSUME NEW k \in DOMAIN queue' PROVE queue'[k] # t
      BY <2>2, <2>6 DEF Queued
    <3>2. ASSUME NEW u \in Task \ {t} PROVE at'[u] # "idle" <=> \E k \in DOMAIN queue' : queue'[k] = u
      <4>1. (\E k \in DOMAIN queue' : queue'[k] = u) <=> \E j \in DOMAIN queue : queue[j] = u
        BY <2>2, <2>6, <2>7
      <4>2. QED
        BY <2>5, <4>1 DEF Queued
    <3>3. QED
      BY <2>5, <3>1, <3>2
  <2>9. \A k, l \in DOMAIN queue' : queue'[k] = queue'[l] => k = l
    <3>1. ASSUME NEW k \in DOMAIN queue', NEW l \in DOMAIN queue', k < l PROVE queue'[k] # queue'[l]
      <4> DEFINE a == IF k < i THEN k ELSE k + 1
                 b == IF l < i THEN l ELSE l + 1
      <4>1. queue'[k] = queue[a] /\ queue'[l] = queue[b]
        BY <2>3
      <4>2. a \in DOMAIN queue /\ b \in DOMAIN queue /\ a # b
        BY <2>3, <2>4, <3>1
      <4> HIDE DEF a, b
      <4>3. QED
        BY <4>1, <4>2 DEF Queued
    <3>2. QED
      BY <2>3, <2>4, <3>1
  <2>10. \A u \in Task : at'[u] \notin {"idle", "lock"} => queue' # <<>> /\ queue'[1] = u
    <3>1. ASSUME NEW u \in Task, at'[u] \notin {"idle", "lock"} PROVE queue' # <<>> /\ queue'[1] = u
      <4>1. u # t /\ at[u] \notin {"idle", "lock"}
        BY <2>5, <3>1
      <4>2. queue # <<>> /\ queue[1] = u
        BY <4>1 DEF Queued
      <4>3. i > 1 /\ Len(queue) - 1 >= 1
        BY <2>2, <2>4, <4>1, <4>2
      <4>4. 1 \in DOMAIN queue' /\ queue'[1] = queue[1]
        BY <2>3, <2>4, <4>3
      <4>5. QED
        BY <4>2, <4>4
    <3>2. QED
      BY <3>1
  <2>11. QED
    BY <2>3, <2>5, <2>8, <2>9, <2>10 DEF Queued
<1>4. QED
  BY <1>1, <1>2, <1>3

-----------------------------------------------------------------------------
(* The calls.                                                              *)

Outcome == {""} \cup Failures

\* How a task ends its call, or goes on in it.
LEMMA CallEnds ==
  ASSUME DeviceInv, NEW t \in Task, at[t] # "idle", NEW e \in Outcome, Return(t, e)
  PROVE  /\ Quits(t) /\ at' = [at EXCEPT ![t] = "idle"]
         /\ at' \in [Task -> Place] /\ queue' \in Seq(Task) /\ Queued'
         /\ failure' \in [Task -> Outcome] /\ op' \in [Task -> {"register", "unregister", "connect"}]
<1>1. Quits(t) /\ failure' = [failure EXCEPT ![t] = e] /\ op' = op
  BY DEF Return, Quits, GoTo, Noting
<1>2. QED
  BY <1>1, QueuedStays DEF DeviceInv, DeviceTypeOK, Quits, Outcome

LEMMA CallGoesOn ==
  ASSUME DeviceInv, NEW t \in Task, First(t), NEW place \in Place, place # "idle", GoTo(t, place), Stay(t)
  PROVE  /\ Goes(t, place) /\ at' = [at EXCEPT ![t] = place]
         /\ at' \in [Task -> Place] /\ queue' \in Seq(Task) /\ Queued'
         /\ op' \in [Task -> {"register", "unregister", "connect"}]
<1>1. Goes(t, place) /\ op' = op
  BY DEF GoTo, Stay, Goes
<1>2. QED
  BY <1>1, QueuedStays DEF DeviceInv, DeviceTypeOK, Goes

\* Only the place changes, and it is one where nothing is asked for.
LEMMA QuietStep ==
  ASSUME DeviceInv, NEW t \in Task, at[t] \in {"idle", "lock", "ask"},
         NEW to \in {"idle", "lock", "ask", "open"}, at' = [at EXCEPT ![t] = to],
         to = "open" => bus = None,
         at' \in [Task -> Place], queue' \in Seq(Task), Queued',
         failure' \in [Task -> Outcome], op' \in [Task -> {"register", "unregister", "connect"}],
         UNCHANGED <<ctxVars, advVars, lineVars, bluezVars>>
  PROVE  DeviceInv'
<1> USE DEF ctxVars, advVars, lineVars, bluezVars
<1>1. at'[t] = to /\ \A u \in Task \ {t} : at'[u] = at[u]
  BY DEF DeviceInv, DeviceTypeOK
<1>2. DeviceTypeOK'
  BY DEF DeviceInv, DeviceTypeOK, Outcome
<1>3. Asked'
  <2>1. \A u \in Task : at[u] \in Waiting => at'[u] = at[u]
    BY <1>1 DEF Waiting
  <2>2. QED
    BY <2>1, MessagesAre DEF DeviceInv, Asked
<1>4. Fresh'
  BY <1>1 DEF DeviceInv, Fresh, Connected, Unknown, Closing, Opening
<1>5. One'
  BY DEF DeviceInv, One
<1>6. Confirmed'
  <2>1. ASSUME NEW i \in DOMAIN received, received[i].what = "ok", at'[received[i].who] = "register"
        PROVE  at[received[i].who] = "register"
    <3>1. received[i].who \in Task
      BY <2>1, MessagesAre DEF DeviceInv, Asked
    <3>2. QED
      BY <1>1, <2>1, <3>1
  <2>2. QED
    BY <2>1 DEF DeviceInv, Confirmed, ReuseIsSound, Connected
<1>7. Ending'
  <2>1. (\E u \in Task : at[u] \in Advertising) => \E u \in Task : at'[u] \in Advertising
    BY <1>1 DEF Advertising
  <2>2. QED
    BY <2>1 DEF DeviceInv, Ending, Connected, Withdrawn
<1>8. QED
  BY <1>2, <1>3, <1>4, <1>5, <1>6, <1>7 DEF DeviceInv

\* The connection is closed: nothing of it counts any more.
LEMMA CloseStep ==
  ASSUME DeviceInv, NEW t \in Task, First(t), NEW place \in Closing, NEW e \in Outcome,
         Close(t, place, e), UNCHANGED bluezVars
  PROVE  DeviceInv'
<1> USE DEF ctxVars, advVars, lineVars, bluezVars
<1>1. /\ GoTo(t, place) /\ Stay(t) /\ failure' = [failure EXCEPT ![t] = e]
      /\ registered' = FALSE /\ bus' = bus /\ known' = known
      /\ line' = "closed" /\ received' = <<>> /\ sent' = Abandoned(t)
      /\ UNCHANGED <<exported, released, bluez, apps, advs>>
  BY DEF Close, Noting
<1>2. place \in Place /\ place # "idle"
  BY DEF Closing, Place
<1>3. /\ Goes(t, place) /\ at' = [at EXCEPT ![t] = place]
      /\ at' \in [Task -> Place] /\ queue' \in Seq(Task) /\ Queued'
      /\ op' \in [Task -> {"register", "unregister", "connect"}]
  BY <1>1, <1>2, CallGoesOn
<1>4. at'[t] = place /\ \A u \in Task \ {t} : at'[u] = at[u] /\ at[u] \in {"idle", "lock"}
  BY <1>3, OneWorks DEF DeviceInv, DeviceTypeOK
<1>5. /\ sent' \in Seq(Call) /\ DOMAIN sent' = DOMAIN sent
      /\ \A i \in DOMAIN sent : /\ sent'[i].from = sent[i].from /\ sent'[i].what = sent[i].what
                                /\ sent'[i].who = IF sent[i].who = t THEN None ELSE sent[i].who
  BY <1>1, AbandonedIs DEF DeviceInv
<1>6. DeviceTypeOK'
  <2>1. received' \in Seq(Incoming)
    BY <1>1
  <2>2. failure' \in [Task -> {""} \cup Failures]
    BY <1>1 DEF DeviceInv, DeviceTypeOK, Outcome
  <2>3. QED
    BY <1>1, <1>3, <1>5, <2>1, <2>2 DEF DeviceInv, DeviceTypeOK
<1>7. Asked'
  <2>1. \A i \in DOMAIN sent : sent[i].who \in Task => sent[i].who = t
    BY <1>4, MessagesAre DEF DeviceInv, Asked, Waiting
  <2>2. \A i \in DOMAIN sent' : sent'[i].who = None
    BY <1>5, <2>1, MessagesAre DEF DeviceInv
  <2>3. DOMAIN received' = {}
    BY <1>1
  <2>4. QED
    BY <2>2, <2>3 DEF Asked
<1>8. Fresh'
  BY <1>1, <1>4 DEF Fresh, Connected, Closing, Opening
<1>9. One'
  BY <1>1, <1>5 DEF DeviceInv, One
<1>10. Confirmed' /\ Ending'
  BY <1>1 DEF Confirmed, ReuseIsSound, Ending, Connected
<1>11. QED
  BY <1>3, <1>6, <1>7, <1>8, <1>9, <1>10 DEF DeviceInv

\* While the first awaits no reply, no reply is awaited.
LEMMA NoneAwaited ==
  ASSUME DeviceInv, NEW t \in Task, First(t), at[t] \notin Waiting
  PROVE  /\ \A u \in Task \ {t} : at[u] \in {"idle", "lock"}
         /\ \A i \in DOMAIN sent : sent[i].who = None
         /\ \A i \in DOMAIN received : received[i].who = None
<1>1. \A u \in Task \ {t} : at[u] \in {"idle", "lock"}
  BY OneWorks DEF DeviceInv
<1>2. \A u \in Task : at[u] \notin Waiting
  BY <1>1 DEF Waiting
<1>3. QED
  BY <1>1, <1>2, MessagesAre DEF DeviceInv, Asked

LEMMA NothingAsked ==
  ASSUME \A i \in DOMAIN sent' : sent'[i].who = None,
         \A i \in DOMAIN received' : received'[i].who = None /\ received'[i].what = "release"
  PROVE  Asked'
BY DEF Asked

LEMMA ClosedStep ==
  ASSUME DeviceInv, NEW t \in Task, Closed(t)
  PROVE  DeviceInv'
<1> USE DEF ctxVars, advVars, lineVars, bluezVars
<1>1. /\ at[t] \in Closing
      /\ \/ GoTo(t, "open") /\ Stay(t) /\ UNCHANGED failure
         \/ Return(t, failure[t])
      /\ bus' = None /\ known' = FALSE
      /\ UNCHANGED <<registered, exported, released, line, received, sent, bluez, apps, advs>>
  BY DEF Closed
<1>2. First(t) /\ at[t] \notin Waiting /\ at[t] # "idle" /\ ~registered
  BY <1>1, OneWorks DEF DeviceInv, Closing, Waiting, Fresh
<1>3. failure[t] \in Outcome /\ failure \in [Task -> Outcome] /\ "open" \in Place
  BY DEF DeviceInv, DeviceTypeOK, Outcome, Place
<1>4. PICK to \in {"idle", "open"} :
        /\ at' = [at EXCEPT ![t] = to]
        /\ at' \in [Task -> Place] /\ queue' \in Seq(Task) /\ Queued'
        /\ failure' \in [Task -> Outcome] /\ op' \in [Task -> {"register", "unregister", "connect"}]
  <2>1. CASE GoTo(t, "open") /\ Stay(t) /\ UNCHANGED failure
    BY <1>2, <1>3, <2>1, CallGoesOn
  <2>2. CASE Return(t, failure[t])
    BY <1>2, <1>3, <2>2, CallEnds
  <2>3. QED
    BY <1>1, <2>1, <2>2
<1>5. at'[t] = to /\ \A u \in Task \ {t} : at'[u] = at[u] /\ at[u] \in {"idle", "lock"}
  BY <1>2, <1>4, NoneAwaited DEF DeviceInv, DeviceTypeOK
<1>6. DeviceTypeOK'
  BY <1>1, <1>4 DEF DeviceInv, DeviceTypeOK, Outcome
<1>7. Asked'
  BY <1>1, <1>2, NoneAwaited, NothingAsked DEF DeviceInv, Asked
<1>8. Fresh'
  BY <1>1, <1>2, <1>5 DEF Fresh, Connected, Opening
<1>9. One'
  BY <1>1 DEF DeviceInv, One
<1>10. Confirmed' /\ Ending'
  BY <1>1 DEF Confirmed, ReuseIsSound, Ending, Connected
<1>11. QED
  BY <1>4, <1>6, <1>7, <1>8, <1>9, <1>10 DEF DeviceInv

LEMMA OpenStep ==
  ASSUME DeviceInv, NEW t \in Task, Open(t)
  PROVE  DeviceInv'
<1> USE DEF ctxVars, advVars, lineVars, bluezVars
<1>1. PICK b \in Bus : b \notin apps \cup advs /\ (\A i \in DOMAIN sent : sent[i].from # b) /\ bus' = b
  BY DEF Open
<1>2. /\ at[t] = "open" /\ line' = "opening" /\ GoTo(t, "connect") /\ Stay(t)
      /\ UNCHANGED <<failure, registered, known, exported, released, sent, received, bluez, apps, advs>>
  BY DEF Open
<1>3. First(t) /\ at[t] \notin Waiting /\ ~registered
  BY <1>2, OneWorks DEF DeviceInv, Waiting, Fresh
<1>4. "connect" \in Place
  BY DEF Place, Opening
<1>5. /\ at' = [at EXCEPT ![t] = "connect"]
      /\ at' \in [Task -> Place] /\ queue' \in Seq(Task) /\ Queued'
      /\ op' \in [Task -> {"register", "unregister", "connect"}]
  BY <1>2, <1>3, <1>4, CallGoesOn
<1>6. DeviceTypeOK'
  BY <1>1, <1>2, <1>5 DEF DeviceInv, DeviceTypeOK
<1>7. Asked'
  BY <1>2, <1>3, NoneAwaited, NothingAsked DEF DeviceInv, Asked
<1>8. Fresh'
  BY <1>1, <1>2, <1>3, MessagesAre DEF DeviceInv, Fresh, Connected, Unknown
<1>9. One'
  BY <1>2 DEF DeviceInv, One
<1>10. Confirmed' /\ Ending'
  BY <1>2 DEF Confirmed, ReuseIsSound, Ending, Connected
<1>11. QED
  BY <1>5, <1>6, <1>7, <1>8, <1>9, <1>10 DEF DeviceInv

\* The two steps in which a connection becomes one that may be used.
LEMMA ReadyStep ==
  ASSUME DeviceInv, NEW t \in Task, Connects(t) \/ GetOwner(t)
  PROVE  DeviceInv'
<1> USE DEF ctxVars, advVars, lineVars, bluezVars
<1>1. PICK to \in {"owner", "objects"} :
        /\ GoTo(t, to) /\ Stay(t)
        /\ at[t] \in {"connect", "owner"}
        /\ line' = "open" /\ known' \in BOOLEAN
        /\ UNCHANGED <<failure, bus, registered, exported, released, sent, received, bluez, apps, advs>>
  BY DEF Connects, GetOwner, Connected, DeviceInv, DeviceTypeOK
<1>2. First(t) /\ at[t] \notin Waiting /\ ~registered /\ Unknown(bus) /\ bus # None
  BY <1>1, OneWorks DEF DeviceInv, Waiting, Fresh, Opening
<1>3. to \in Place /\ to # "idle"
  BY DEF Place, Opening
<1>4. /\ at' = [at EXCEPT ![t] = to]
      /\ at' \in [Task -> Place] /\ queue' \in Seq(Task) /\ Queued'
      /\ op' \in [Task -> {"register", "unregister", "connect"}]
  BY <1>1, <1>2, <1>3, CallGoesOn
<1>5. DeviceTypeOK'
  BY <1>1, <1>4 DEF DeviceInv, DeviceTypeOK
<1>6. \A i \in DOMAIN received : received[i].who = None /\ received[i].what = "release"
  BY <1>2, NoneAwaited DEF DeviceInv, Asked
<1>7. Asked'
  BY <1>1, <1>2, <1>6, NoneAwaited, NothingAsked
<1>8. Fresh'
  BY <1>1, <1>2 DEF Fresh, Connected, Unknown
<1>9. One'
  BY <1>1 DEF DeviceInv, One
<1>10. Confirmed'
  BY <1>1, <1>2, <1>6 DEF Confirmed, ReuseIsSound
<1>11. Ending'
  BY <1>1, <1>2 DEF Ending, Withdrawn, Unknown
<1>12. QED
  BY <1>4, <1>5, <1>7, <1>8, <1>9, <1>10, <1>11 DEF DeviceInv

\* What has become of the calls when a task has sent one, if it can.
LEMMA SentBy ==
  ASSUME DeviceInv, NEW t \in Task, NEW what \in Waiting, sent' = Sending(t, what)
  PROVE  /\ sent' \in Seq(Call) /\ DOMAIN sent = 1..Len(sent) /\ Len(sent) \in Nat
         /\ \A i \in DOMAIN sent : /\ i \in DOMAIN sent'
                                   /\ sent'[i].from = sent[i].from /\ sent'[i].what = sent[i].what
                                   /\ sent'[i].who = IF sent[i].who = t THEN None ELSE sent[i].who
         /\ \A i \in DOMAIN sent' : i \notin DOMAIN sent =>
              /\ Connected /\ known /\ bus \in Bus /\ i = Len(sent) + 1
              /\ sent'[i] = [from |-> bus, who |-> t, what |-> what]
         /\ Connected /\ known => Len(sent) + 1 \in DOMAIN sent'
<1>1. /\ Abandoned(t) \in Seq(Call) /\ DOMAIN Abandoned(t) = DOMAIN sent
      /\ \A i \in DOMAIN sent : /\ Abandoned(t)[i].from = sent[i].from
                                /\ Abandoned(t)[i].what = sent[i].what
                                /\ Abandoned(t)[i].who = IF sent[i].who = t THEN None ELSE sent[i].who
  BY AbandonedIs DEF DeviceInv
<1>2. DOMAIN sent = 1..Len(sent) /\ Len(sent) \in Nat
  BY MessagesAre DEF DeviceInv
<1>3. CASE ~(Connected /\ known)
  <2>1. sent' = Abandoned(t)
    BY <1>3, SendingIs DEF DeviceInv, Waiting
  <2>2. QED
    BY <1>1, <1>2, <1>3, <2>1
<1>4. CASE Connected /\ known
  <2>1. /\ bus \in Bus /\ sent' \in Seq(Call)
        /\ DOMAIN sent' = 1..(Len(sent) + 1)
        /\ \A i \in DOMAIN sent : sent'[i] = Abandoned(t)[i]
        /\ sent'[Len(sent) + 1] = [from |-> bus, who |-> t, what |-> what]
    BY <1>4, SendingIs DEF DeviceInv, Waiting
  <2>2. QED
    BY <1>1, <1>2, <1>4, <2>1
<1>5. QED
  BY <1>3, <1>4

LEMMA GetObjectsStep ==
  ASSUME DeviceInv, NEW t \in Task, GetObjects(t)
  PROVE  DeviceInv'
<1> USE DEF ctxVars, advVars, lineVars, bluezVars
<1>1. /\ at[t] = "objects" /\ Connected /\ known /\ sent = <<>> /\ apps = {}
      /\ sent' = Sending(t, "register") /\ GoTo(t, "register") /\ Stay(t)
      /\ UNCHANGED <<failure, bus, registered, known, exported, released, line, received, bluez, apps, advs>>
  BY DEF GetObjects
<1>2. First(t) /\ at[t] \notin Waiting /\ ~registered /\ bus # None
  BY <1>1, OneWorks DEF DeviceInv, Waiting, Fresh, Opening
<1>3. "register" \in Place /\ "register" \in Waiting
  BY DEF Place, Opening, Waiting
<1>4. /\ at' = [at EXCEPT ![t] = "register"]
      /\ at' \in [Task -> Place] /\ queue' \in Seq(Task) /\ Queued'
      /\ op' \in [Task -> {"register", "unregister", "connect"}]
  BY <1>1, <1>2, <1>3, CallGoesOn
<1>5. at'[t] = "register" /\ \A u \in Task \ {t} : at'[u] = at[u] /\ at[u] \in {"idle", "lock"}
  BY <1>2, <1>4, NoneAwaited DEF DeviceInv, DeviceTypeOK
<1>6. /\ sent' \in Seq(Call)
      /\ \A i \in DOMAIN sent' : i = 1 /\ sent'[i] = [from |-> bus, who |-> t, what |-> "register"]
  <2>1. DOMAIN sent = {} /\ Len(sent) = 0
    BY <1>1
  <2>2. QED
    BY <1>1, <1>3, <2>1, SentBy
<1>7. DeviceTypeOK'
  BY <1>1, <1>4, <1>6 DEF DeviceInv, DeviceTypeOK
<1>8. \A i \in DOMAIN received : received[i].who = None /\ received[i].what = "release"
  BY <1>2, NoneAwaited DEF DeviceInv, Asked
<1>9. Asked'
  BY <1>1, <1>5, <1>6, <1>8 DEF Asked
<1>10. Fresh'
  BY <1>1, <1>2, <1>5 DEF Fresh, Connected
<1>11. One'
  BY <1>1, <1>6 DEF DeviceInv, One
<1>12. Confirmed'
  BY <1>1, <1>2, <1>8 DEF Confirmed, ReuseIsSound
<1>13. Ending'
  BY <1>1, <1>6 DEF DeviceInv, One, Ending, Withdrawn
<1>14. QED
  BY <1>4, <1>7, <1>9, <1>10, <1>11, <1>12, <1>13 DEF DeviceInv

\* A connect goes from the lock to its advertisement.
Advertises(t) ==
  /\ Locked(t, "connect") /\ registered /\ Connected
  /\ exported' = TRUE /\ released' = FALSE
  /\ sent' = Sending(t, "advertise") /\ UNCHANGED <<line, received>>
  /\ GoTo(t, "advertise") /\ Stay(t)
  /\ UNCHANGED <<failure, ctxVars>>

LEMMA LockedIsFirst ==
  ASSUME DeviceInv, NEW t \in Task, NEW o, Locked(t, o)
  PROVE  First(t) /\ at[t] = "lock" /\ UNCHANGED bluezVars
<1>1. at[t] = "lock" /\ Head(queue) = t /\ UNCHANGED bluezVars
  BY DEF Locked
<1>2. queue # <<>>
  BY <1>1 DEF DeviceInv, Queued
<1>3. QED
  BY <1>1, <1>2, OneWorks DEF DeviceInv, First

LEMMA AdvertiseStep ==
  ASSUME DeviceInv, NEW t \in Task, Advertises(t)
  PROVE  DeviceInv'
<1> USE DEF ctxVars, advVars, lineVars, bluezVars
<1>1. /\ registered /\ Connected /\ exported' = TRUE /\ released' = FALSE
      /\ sent' = Sending(t, "advertise") /\ GoTo(t, "advertise") /\ Stay(t)
      /\ UNCHANGED <<failure, bus, registered, known, line, received, bluez, apps, advs>>
  BY LockedIsFirst DEF Advertises
<1>2. First(t) /\ at[t] \notin Waiting /\ at[t] = "lock" /\ bus # None
  BY <1>1, LockedIsFirst DEF Advertises, Waiting, Connected
<1>3. "advertise" \in Place /\ "advertise" \in Waiting
  BY DEF Place, Advertising, Waiting
<1>4. /\ at' = [at EXCEPT ![t] = "advertise"]
      /\ at' \in [Task -> Place] /\ queue' \in Seq(Task) /\ Queued'
      /\ op' \in [Task -> {"register", "unregister", "connect"}]
  BY <1>1, <1>2, <1>3, CallGoesOn
<1>5. at'[t] = "advertise" /\ \A u \in Task \ {t} : at'[u] = at[u] /\ at[u] \in {"idle", "lock"}
  BY <1>2, <1>4, NoneAwaited DEF DeviceInv, DeviceTypeOK
<1>6. /\ sent' \in Seq(Call) /\ DOMAIN sent = 1..Len(sent) /\ Len(sent) \in Nat
      /\ \A i \in DOMAIN sent : /\ i \in DOMAIN sent'
                                /\ sent'[i].from = sent[i].from /\ sent'[i].what = sent[i].what
                                /\ sent'[i].who = None
      /\ \A i \in DOMAIN sent' : i \notin DOMAIN sent =>
           /\ Connected /\ known /\ i = Len(sent) + 1
           /\ sent'[i] = [from |-> bus, who |-> t, what |-> "advertise"]
  BY <1>1, <1>2, <1>3, SentBy, NoneAwaited
<1>7. DeviceTypeOK'
  BY <1>1, <1>4, <1>6 DEF DeviceInv, DeviceTypeOK
<1>8. \A i \in DOMAIN received : received[i].who = None /\ received[i].what = "release"
  BY <1>2, NoneAwaited DEF DeviceInv, Asked
<1>9. Asked'
  <2>1. \A i \in DOMAIN sent' : sent'[i].who # None =>
          i = Len(sent) + 1 /\ sent'[i].who = t /\ sent'[i].from = bus /\ sent'[i].what = "advertise"
    BY <1>6
  <2>2. QED
    BY <1>1, <1>5, <1>8, <2>1 DEF Asked
<1>10. Fresh'
  <2>1. ~known => \A i \in DOMAIN sent' : i \in DOMAIN sent
    BY <1>6
  <2>2. ~known => Unknown(bus)'
    BY <1>1, <1>6, <2>1 DEF DeviceInv, Fresh, Unknown
  <2>3. QED
    BY <1>1, <1>2, <1>5, <2>2 DEF Fresh, Connected, Opening, Closing
<1>11. One'
  <2>1. Connected /\ known => bus \in apps
    BY <1>1 DEF DeviceInv, Confirmed, ReuseIsSound
  <2>2. \A i \in DOMAIN sent' : sent'[i].what = "register" => i \in DOMAIN sent
    BY <1>6
  <2>3. \A i \in DOMAIN sent' : sent'[i].what = "advertise" => sent'[i].from \in apps
    BY <1>6, <2>1 DEF DeviceInv, One
  <2>4. QED
    BY <1>1, <1>6, <2>2, <2>3 DEF DeviceInv, One
<1>12. Confirmed'
  BY <1>1, <1>8 DEF DeviceInv, Confirmed, ReuseIsSound, Connected
<1>13. Ending'
  BY <1>5 DEF Ending, Advertising
<1>14. QED
  BY <1>4, <1>7, <1>9, <1>10, <1>11, <1>12, <1>13 DEF DeviceInv

-----------------------------------------------------------------------------
(* What is read, and what fails.                                           *)

\* What may be left when a task has read its reply or gives up: nothing for it, and
\* what was there before or only releases.
Rests(t, rest) ==
  /\ rest \in Seq(Incoming)
  /\ \A k \in DOMAIN rest : rest[k].who # t
  /\ \/ rest = received
     \/ \A k \in DOMAIN rest : rest[k].who = None /\ rest[k].what = "release"

LEMMA RestOfMine ==
  ASSUME DeviceInv, NEW t \in Task, NEW i \in DOMAIN received, received[i].who = t
  PROVE  Rests(t, RemoveAt(received, i))
<1>1. /\ received \in Seq(Incoming) /\ DOMAIN received = 1..Len(received) /\ Len(received) \in Nat
      /\ t # None
  BY MessagesAre DEF DeviceInv
<1>2. /\ RemoveAt(received, i) \in Seq(Incoming)
      /\ DOMAIN RemoveAt(received, i) = 1..(Len(received) - 1)
      /\ \A k \in 1..(Len(received) - 1) :
           RemoveAt(received, i)[k] = IF k < i THEN received[k] ELSE received[k + 1]
  BY <1>1, RemovedAt
<1>3. ASSUME NEW k \in DOMAIN RemoveAt(received, i)
      PROVE  \E j \in DOMAIN received : j # i /\ RemoveAt(received, i)[k] = received[j]
  <2>1. CASE k < i
    BY <1>1, <1>2, <2>1
  <2>2. CASE ~(k < i)
    <3>1. k \in 1..(Len(received) - 1) /\ k + 1 \in DOMAIN received /\ k + 1 # i
      BY <1>1, <1>2, <2>2
    <3>2. RemoveAt(received, i)[k] = received[k + 1]
      BY <1>2, <2>2, <3>1
    <3>3. QED
      BY <3>1, <3>2
  <2>3. QED
    BY <2>1, <2>2
<1>4. \A j \in DOMAIN received : j # i => received[j].who = None /\ received[j].what = "release"
  BY <1>1 DEF DeviceInv, Asked
<1>5. QED
  BY <1>1, <1>2, <1>3, <1>4 DEF Rests

LEMMA RestOfReply ==
  ASSUME DeviceInv, NEW t \in Task, received # <<>>, received[1].who = t
  PROVE  Rests(t, Tail(received)) /\ \A k \in DOMAIN Tail(received) : Tail(received)[k].who = None
<1>1. /\ Tail(received) \in Seq(Incoming) /\ 1 \in DOMAIN received
      /\ \A k \in DOMAIN Tail(received) : k + 1 \in DOMAIN received /\ Tail(received)[k] = received[k + 1]
      /\ DOMAIN Tail(received) = 1..(Len(received) - 1) /\ Len(received) \in Nat
      /\ t # None
  BY MessagesAre, Tailed DEF DeviceInv
<1>2. \A j \in DOMAIN received : j # 1 => received[j].who = None /\ received[j].what = "release"
  BY <1>1 DEF DeviceInv, Asked
<1>3. \A k \in DOMAIN Tail(received) : k + 1 # 1
  BY <1>1
<1>4. QED
  BY <1>1, <1>2, <1>3 DEF Rests

LEMMA StaysWithdrawn ==
  ASSUME Withdrawn, UNCHANGED <<bus, advs>>, DOMAIN sent' = DOMAIN sent,
         \A i \in DOMAIN sent : sent'[i].from = sent[i].from /\ sent'[i].what = sent[i].what
  PROVE  Withdrawn'
<1>1. bus' \in advs' => \E k \in DOMAIN sent' : sent'[k].from = bus' /\ sent'[k].what = "withdraw"
  BY DEF Withdrawn
<1>2. ASSUME NEW i \in DOMAIN sent', sent'[i].from = bus', sent'[i].what = "advertise"
      PROVE  \E k \in DOMAIN sent' : k > i /\ sent'[k].from = bus' /\ sent'[k].what = "withdraw"
  <2>1. PICK k \in DOMAIN sent : k > i /\ sent[k].from = bus /\ sent[k].what = "withdraw"
    BY <1>2 DEF Withdrawn
  <2>2. QED
    BY <2>1
<1>3. QED
  BY <1>1, <1>2 DEF Withdrawn

\* A call ends, or its advertisement is up.
LEMMA RestStep ==
  ASSUME DeviceInv, NEW t \in Task, at[t] # "idle",
         NEW to \in {"idle", "poll"}, at' = [at EXCEPT ![t] = to],
         to = "idle" => at[t] \notin Advertising \/ released,
         at' \in [Task -> Place], queue' \in Seq(Task), Queued',
         failure' \in [Task -> Outcome], op' \in [Task -> {"register", "unregister", "connect"}],
         exported' \in BOOLEAN, UNCHANGED <<ctxVars, released, line, bluezVars>>,
         Rests(t, received'),
         sent' \in Seq(Call), DOMAIN sent' = DOMAIN sent,
         \A i \in DOMAIN sent : /\ sent'[i].from = sent[i].from /\ sent'[i].what = sent[i].what
                                /\ sent'[i].who = IF sent[i].who = t THEN None ELSE sent[i].who
  PROVE  DeviceInv'
<1> USE DEF ctxVars, bluezVars
<1>1. at'[t] = to /\ \A u \in Task \ {t} : at'[u] = at[u]
  BY DEF DeviceInv, DeviceTypeOK
<1>2. /\ received' \in Seq(Incoming)
      /\ \A k \in DOMAIN received' : received'[k].who # t
      /\ \/ received' = received
         \/ \A k \in DOMAIN received' : received'[k].who = None /\ received'[k].what = "release"
  BY DEF Rests
<1>3. DeviceTypeOK'
  BY <1>2 DEF DeviceInv, DeviceTypeOK, Outcome
<1>4. Asked'
  <2>1. ASSUME NEW i \in DOMAIN sent', sent'[i].who # None
        PROVE  sent'[i].who = sent[i].who /\ sent'[i].from = bus' /\ at'[sent'[i].who] = sent'[i].what
    <3>1. sent'[i].who = sent[i].who /\ sent[i].who \in Task \ {t}
      BY <2>1, MessagesAre DEF DeviceInv
    <3>2. QED
      BY <1>1, <2>1, <3>1 DEF DeviceInv, Asked
  <2>2. CASE received' = received
    <3>1. \A i \in DOMAIN received' : received'[i].who # None => received'[i].who \in Task \ {t}
      BY <1>2, <2>2, MessagesAre DEF DeviceInv
    <3>2. \A i \in DOMAIN received' : received'[i].who # None => at'[received'[i].who] \in Waiting
      BY <1>1, <2>2, <3>1 DEF DeviceInv, Asked
    <3>3. QED
      BY <2>1, <2>2, <3>2 DEF DeviceInv, Asked
  <2>3. CASE \A k \in DOMAIN received' : received'[k].who = None /\ received'[k].what = "release"
    BY <2>1, <2>3 DEF DeviceInv, Asked
  <2>4. QED
    BY <1>2, <2>2, <2>3
<1>5. Fresh'
  BY <1>1 DEF DeviceInv, Fresh, Connected, Unknown, Closing, Opening
<1>6. One'
  BY DEF DeviceInv, One
<1>7. Confirmed'
  <2>1. CASE received' = received
    <3>1. ASSUME NEW i \in DOMAIN received', received'[i].what = "ok" PROVE at'[received'[i].who] = at[received[i].who]
      <4>1. received[i].who \in Task \ {t}
        BY <1>2, <2>1, <3>1, MessagesAre DEF DeviceInv, Asked
      <4>2. QED
        BY <1>1, <2>1, <4>1
    <3>2. QED
      BY <2>1, <3>1 DEF DeviceInv, Confirmed, ReuseIsSound, Connected
  <2>2. CASE \A k \in DOMAIN received' : received'[k].who = None /\ received'[k].what = "release"
    BY <2>2 DEF DeviceInv, Confirmed, ReuseIsSound, Connected
  <2>3. QED
    BY <1>2, <2>1, <2>2
<1>8. Ending'
  <2>1. Withdrawn => Withdrawn'
    BY StaysWithdrawn
  <2>2. ASSUME ~released, NEW u \in Task, at[u] \in Advertising PROVE at'[u] \in Advertising
    BY <1>1, <2>2 DEF Advertising
  <2>3. QED
    BY <2>1, <2>2 DEF DeviceInv, Ending, Connected
<1>9. QED
  BY <1>3, <1>4, <1>5, <1>6, <1>7, <1>8 DEF DeviceInv

\* A call gives up.
LEMMA GivesUpStep ==
  ASSUME DeviceInv, NEW t \in Task, at[t] # "idle", at[t] \notin Advertising \/ released,
         NEW e \in Outcome, Return(t, e), NEW rest, Rests(t, rest), received' = rest,
         sent' = Abandoned(t), exported' \in BOOLEAN, UNCHANGED <<ctxVars, released, line, bluezVars>>
  PROVE  DeviceInv'
<1>1. /\ at' = [at EXCEPT ![t] = "idle"]
      /\ at' \in [Task -> Place] /\ queue' \in Seq(Task) /\ Queued'
      /\ failure' \in [Task -> Outcome] /\ op' \in [Task -> {"register", "unregister", "connect"}]
  BY CallEnds
<1>2. /\ sent' \in Seq(Call) /\ DOMAIN sent' = DOMAIN sent
      /\ \A i \in DOMAIN sent : /\ sent'[i].from = sent[i].from /\ sent'[i].what = sent[i].what
                                /\ sent'[i].who = IF sent[i].who = t THEN None ELSE sent[i].who
  BY AbandonedIs DEF DeviceInv
<1>3. QED
  BY <1>1, <1>2, RestStep

\* An advertisement is withdrawn, unless BlueZ has said that it is gone.
LEMMA WithdrawStep ==
  ASSUME DeviceInv, NEW t \in Task, at[t] \in Advertising, NEW e \in Outcome,
         NEW rest, Rests(t, rest), Withdraw(t, e, rest), UNCHANGED bluezVars
  PROVE  DeviceInv'
<1> USE DEF ctxVars, advVars, lineVars, bluezVars
<1>0. First(t) /\ at[t] # "idle"
  BY OneWorks DEF DeviceInv, Advertising
<1>1. CASE released
  <2>1. /\ Return(t, e) /\ exported' = FALSE /\ sent' = Abandoned(t) /\ received' = rest
        /\ UNCHANGED <<ctxVars, released, line, bluezVars>>
    BY <1>1 DEF Withdraw
  <2>2. exported' \in BOOLEAN
    BY <2>1
  <2>3. QED
    BY <1>0, <1>1, <2>1, <2>2, GivesUpStep
<1>2. CASE ~released
  <2>1. /\ GoTo(t, "withdraw") /\ failure' = [failure EXCEPT ![t] = e] /\ Stay(t)
        /\ sent' = Sending(t, "withdraw") /\ received' = rest
        /\ UNCHANGED <<bus, registered, known, exported, released, line, bluez, apps, advs>>
    BY <1>2 DEF Withdraw, Noting
  <2>2. "withdraw" \in Place /\ "withdraw" \in Waiting
    BY DEF Place, Waiting
  <2>3. /\ at' = [at EXCEPT ![t] = "withdraw"]
        /\ at' \in [Task -> Place] /\ queue' \in Seq(Task) /\ Queued'
        /\ op' \in [Task -> {"register", "unregister", "connect"}]
    BY <1>0, <2>1, <2>2, CallGoesOn
  <2>4. at'[t] = "withdraw" /\ \A u \in Task \ {t} : at'[u] = at[u] /\ at[u] \in {"idle", "lock"}
    BY <1>0, <2>3, OneWorks DEF DeviceInv, DeviceTypeOK
  <2>5. \A i \in DOMAIN sent : sent[i].who \in {t, None}
    BY <2>4, MessagesAre DEF DeviceInv, Asked, Waiting
  <2>6. /\ sent' \in Seq(Call) /\ DOMAIN sent = 1..Len(sent) /\ Len(sent) \in Nat
        /\ \A i \in DOMAIN sent : /\ i \in DOMAIN sent'
                                  /\ sent'[i].from = sent[i].from /\ sent'[i].what = sent[i].what
                                  /\ sent'[i].who = None
        /\ \A i \in DOMAIN sent' : i \notin DOMAIN sent =>
             /\ Connected /\ known /\ i = Len(sent) + 1
             /\ sent'[i] = [from |-> bus, who |-> t, what |-> "withdraw"]
        /\ Connected /\ known => Len(sent) + 1 \in DOMAIN sent'
    BY <2>1, <2>2, <2>5, SentBy
  <2>7. /\ received' \in Seq(Incoming)
        /\ \A k \in DOMAIN received' : received'[k].who = None /\ received'[k].what = "release"
    <3>1. \A i \in DOMAIN received : received[i].who # t => received[i].who = None /\ received[i].what = "release"
      BY <2>4, MessagesAre DEF DeviceInv, Asked, Waiting
    <3>2. QED
      BY <2>1, <3>1 DEF Rests
  <2>8. DeviceTypeOK'
    <3>1. failure' \in [Task -> {""} \cup Failures]
      BY <2>1 DEF DeviceInv, DeviceTypeOK, Outcome
    <3>2. QED
      BY <2>1, <2>3, <2>6, <2>7, <3>1 DEF DeviceInv, DeviceTypeOK
  <2>9. Asked'
    <3>1. \A i \in DOMAIN sent' : sent'[i].who # None =>
            i = Len(sent) + 1 /\ sent'[i].who = t /\ sent'[i].from = bus /\ sent'[i].what = "withdraw"
      BY <2>6
    <3>2. QED
      BY <2>1, <2>4, <2>7, <3>1 DEF Asked
  <2>10. Fresh'
    <3>1. ~known => \A i \in DOMAIN sent' : i \in DOMAIN sent
      BY <2>6
    <3>2. Connected /\ ~known => Unknown(bus)'
      BY <2>1, <2>6, <3>1 DEF DeviceInv, Fresh, Unknown
    <3>3. bus = None => ~registered
      BY DEF DeviceInv, Fresh
    <3>4. QED
      BY <2>1, <2>4, <3>2, <3>3 DEF Fresh, Connected, Opening, Closing
  <2>11. One'
    <3>1. \A i \in DOMAIN sent' : sent'[i].what \in {"register", "advertise"} => i \in DOMAIN sent
      BY <2>6
    <3>2. QED
      BY <2>1, <2>6, <3>1 DEF DeviceInv, One
  <2>12. Confirmed'
    BY <2>1, <2>7 DEF DeviceInv, Confirmed, ReuseIsSound, Connected
  <2>13. Ending'
    <3>1. CASE Connected /\ known
      <4>1. Len(sent) + 1 \in DOMAIN sent' /\ Len(sent) + 1 \notin DOMAIN sent
        BY <2>6, <3>1
      <4>2. sent'[Len(sent) + 1].from = bus /\ sent'[Len(sent) + 1].what = "withdraw"
        BY <2>6, <4>1
      <4>3. \A i \in DOMAIN sent' : sent'[i].what = "advertise" => Len(sent) + 1 > i
        BY <2>6
      <4>4. Withdrawn'
        BY <2>1, <4>1, <4>2, <4>3 DEF Withdrawn
      <4>5. QED
        BY <4>4 DEF Ending
    <3>2. CASE Connected /\ ~known
      <4>1. Unknown(bus)'
        BY <2>1, <2>10, <3>2 DEF Fresh, Connected
      <4>2. QED
        BY <4>1 DEF Unknown, Ending, Withdrawn
    <3>3. QED
      BY <2>1, <3>1, <3>2 DEF Ending, Connected
  <2>14. QED
    BY <2>3, <2>8, <2>9, <2>10, <2>11, <2>12, <2>13 DEF DeviceInv
<1>3. QED
  BY <1>1, <1>2

\* What is awaited fails.
LEMMA FailsStep ==
  ASSUME DeviceInv, NEW t \in Task, NEW e \in Failures, NEW rest, Rests(t, rest), Fails(t, e, rest)
  PROVE  DeviceInv'
<1>1. UNCHANGED bluezVars /\ e \in Outcome
  BY DEF Fails, Outcome
<1>2. CASE /\ at[t] \in {"lock", "ask", "close", "undo", "withdraw"}
           /\ Return(t, Later(t, e))
           /\ sent' = Abandoned(t) /\ received' = rest
           /\ exported' = (exported /\ at[t] # "withdraw")
           /\ UNCHANGED <<ctxVars, released, line>>
  <2>1. Later(t, e) \in Outcome
    BY <1>1 DEF Later, DeviceInv, DeviceTypeOK, Outcome
  <2>2. at[t] # "idle" /\ at[t] \notin Advertising
    BY <1>2 DEF Advertising
  <2>3. exported' \in BOOLEAN
    BY <1>2
  <2>4. QED
    BY <1>1, <1>2, <2>1, <2>2, <2>3, GivesUpStep
<1>3. CASE at[t] \in Opening /\ Close(t, "undo", e)
  <2>1. First(t) /\ "undo" \in Closing
    BY <1>3, OneWorks DEF DeviceInv, Opening, Closing
  <2>2. QED
    BY <1>1, <1>3, <2>1, CloseStep
<1>4. CASE at[t] \in Advertising /\ Withdraw(t, e, rest)
  BY <1>1, <1>4, WithdrawStep
<1>5. QED
  BY <1>2, <1>3, <1>4 DEF Fails

LEMMA InterruptStep ==
  ASSUME DeviceInv, NEW t \in Task, NEW e \in Failures, Interrupt(t, e)
  PROVE  DeviceInv'
<1>1. CASE (\A i \in DOMAIN received : received[i].who # t) /\ Fails(t, e, received)
  <2>1. Rests(t, received)
    BY <1>1, MessagesAre DEF DeviceInv, Rests
  <2>2. QED
    BY <1>1, <2>1, FailsStep
<1>2. ASSUME NEW i \in DOMAIN received, received[i].who = t, Fails(t, e, RemoveAt(received, i))
      PROVE  DeviceInv'
  BY <1>2, RestOfMine, FailsStep
<1>3. QED
  BY <1>1, <1>2 DEF Interrupt

LEMMA ReleaseStep ==
  ASSUME DeviceInv, received # <<>>, Head(received).what = "release", Receive
  PROVE  DeviceInv'
<1> USE DEF taskVars, ctxVars, advVars, lineVars, bluezVars
<1>1. /\ received' = Tail(received) /\ released' = (released \/ exported)
      /\ UNCHANGED <<at, op, failure, queue, bus, registered, known, exported, line, sent, bluez, apps, advs>>
  BY DEF Receive
<1>2. /\ received' \in Seq(Incoming) /\ DOMAIN received' = 1..(Len(received) - 1)
      /\ \A k \in DOMAIN received' : k + 1 \in DOMAIN received /\ received'[k] = received[k + 1]
  BY <1>1, MessagesAre, Tailed DEF DeviceInv
<1>3. DeviceTypeOK'
  BY <1>1, <1>2 DEF DeviceInv, DeviceTypeOK
<1>4. Queued'
  BY <1>1 DEF DeviceInv, Queued
<1>5. Asked'
  <2>1. \A i, k \in DOMAIN received' : i + 1 = k + 1 => i = k
    BY <1>2
  <2>2. QED
    BY <1>1, <1>2, <2>1 DEF DeviceInv, Asked
<1>6. Fresh'
  BY <1>1 DEF DeviceInv, Fresh, Connected, Unknown
<1>7. One'
  BY <1>1 DEF DeviceInv, One
<1>8. Confirmed'
  BY <1>1, <1>2 DEF DeviceInv, Confirmed, ReuseIsSound, Connected
<1>9. Ending'
  BY <1>1 DEF DeviceInv, Ending, Connected, Withdrawn
<1>10. QED
  BY <1>3, <1>4, <1>5, <1>6, <1>7, <1>8, <1>9 DEF DeviceInv

\* BlueZ has registered the application, and the call notes it.
LEMMA RegisteredStep ==
  ASSUME DeviceInv, received # <<>>, NEW t \in Task, received[1].who = t, received[1].what = "ok",
         at[t] = "register", registered' = TRUE, Return(t, ""), received' = Tail(received),
         UNCHANGED <<bus, known, advVars, line, sent, bluezVars>>
  PROVE  DeviceInv'
<1> USE DEF advVars, bluezVars
<1>1. First(t) /\ at[t] # "idle" /\ bus # None
  BY OneWorks DEF DeviceInv, Fresh, Opening
<1>2. /\ at' = [at EXCEPT ![t] = "idle"]
      /\ at' \in [Task -> Place] /\ queue' \in Seq(Task) /\ Queued'
      /\ failure' \in [Task -> Outcome] /\ op' \in [Task -> {"register", "unregister", "connect"}]
  <2>1. "" \in Outcome
    BY DEF Outcome
  <2>2. QED
    BY <1>1, <2>1, CallEnds
<1>3. at'[t] = "idle" /\ \A u \in Task \ {t} : at'[u] = at[u] /\ at[u] \in {"idle", "lock"}
  <2>0. at \in [Task -> Place]
    BY DEF DeviceInv, DeviceTypeOK
  <2>1. at'[t] = "idle" /\ \A u \in Task \ {t} : at'[u] = at[u]
    BY <1>2, <2>0
  <2>2. \A u \in Task \ {t} : at[u] \in {"idle", "lock"}
    BY <1>1, OneWorks DEF DeviceInv
  <2>3. QED
    BY <2>1, <2>2
<1>4. /\ received' \in Seq(Incoming)
      /\ \A k \in DOMAIN received' : received'[k].who = None
  BY RestOfReply DEF Rests
<1>5. 1 \in DOMAIN received /\ t # None
  BY MessagesAre, Tailed DEF DeviceInv
<1>6. \A k \in DOMAIN received' : received'[k].what = "release"
  <2>1. \A k \in DOMAIN received' : \E j \in DOMAIN received : received'[k] = received[j]
    <3>1. received \in Seq(Incoming)
      BY MessagesAre DEF DeviceInv
    <3>2. \A k \in DOMAIN Tail(received) : k + 1 \in DOMAIN received /\ Tail(received)[k] = received[k + 1]
      BY <3>1, Tailed
    <3>3. QED
      BY <3>2
  <2>2. QED
    BY <1>4, <2>1 DEF DeviceInv, Asked
<1>7. \A i \in DOMAIN sent : sent[i].who = None
  BY <1>5 DEF DeviceInv, Asked
<1>8. DeviceTypeOK'
  BY <1>2, <1>4 DEF DeviceInv, DeviceTypeOK, Outcome
<1>9. Asked'
  BY <1>4, <1>6, <1>7, NothingAsked
<1>10. Fresh'
  BY <1>1, <1>3 DEF DeviceInv, Fresh, Connected, Unknown, Opening, Closing
<1>11. One'
  BY DEF DeviceInv, One
<1>12. Confirmed'
  <2>1. Connected /\ known => bus \in apps
    BY <1>5 DEF DeviceInv, Confirmed
  <2>2. QED
    BY <1>6, <2>1 DEF Confirmed, ReuseIsSound, Connected
<1>13. Ending'
  <2>1. \A u \in Task : at[u] \notin Advertising
    BY <1>3 DEF Advertising
  <2>2. QED
    BY <2>1 DEF DeviceInv, Ending, Connected, Withdrawn
<1>14. QED
  BY <1>2, <1>8, <1>9, <1>10, <1>11, <1>12, <1>13 DEF DeviceInv

LEMMA RepliedStep ==
  ASSUME DeviceInv, received # <<>>, Head(received).what # "release",
         Replied(Head(received).who, Head(received).what)
  PROVE  DeviceInv'
<1> DEFINE t == received[1].who
           what == received[1].what
<1> USE DEF ctxVars, advVars, bluezVars
<1>1. t \in Task /\ what # "release" /\ Replied(t, what) /\ at[t] \in Waiting
  <2>1. Head(received) = received[1] /\ 1 \in DOMAIN received
    BY MessagesAre, Tailed DEF DeviceInv
  <2>2. QED
    BY <2>1, MessagesAre DEF DeviceInv, Asked
<1>2. Rests(t, Tail(received))
  BY <1>1, RestOfReply
<1>3. First(t) /\ at[t] # "idle"
  BY <1>1, OneWorks DEF DeviceInv, Waiting
<1>4. \A i \in DOMAIN sent : sent[i].who = None
  <2>1. 1 \in DOMAIN received /\ t # None
    BY <1>1, MessagesAre, Tailed DEF DeviceInv
  <2>2. QED
    BY <2>1 DEF DeviceInv, Asked
<1>5. sent \in Seq(Call) /\ t # None
  BY <1>1, MessagesAre DEF DeviceInv
<1> HIDE DEF t, what
<1>6. CASE what = "error" /\ Fails(t, "error", Tail(received))
  BY <1>1, <1>2, <1>6, FailsStep DEF Failures
<1>7. CASE /\ at[t] = "register" /\ what = "ok"
           /\ registered' = TRUE /\ Return(t, "") /\ received' = Tail(received)
           /\ UNCHANGED <<bus, known, advVars, line, sent, bluezVars>>
  BY <1>1, <1>7, RegisteredStep DEF t, what
<1>8. CASE /\ at[t] = "advertise" /\ what = "ok"
           /\ GoTo(t, "poll") /\ Stay(t) /\ received' = Tail(received)
           /\ UNCHANGED <<failure, ctxVars, advVars, line, sent, bluezVars>>
  <2>1. "poll" \in Place
    BY DEF Place, Advertising
  <2>2. /\ at' = [at EXCEPT ![t] = "poll"]
        /\ at' \in [Task -> Place] /\ queue' \in Seq(Task) /\ Queued'
        /\ op' \in [Task -> {"register", "unregister", "connect"}]
    BY <1>1, <1>3, <1>8, <2>1, CallGoesOn
  <2>3. failure' \in [Task -> Outcome] /\ exported' \in BOOLEAN
    BY <1>8 DEF DeviceInv, DeviceTypeOK, Outcome
  <2>4. Rests(t, received')
    BY <1>2, <1>8
  <2>5. QED
    BY <1>1, <1>3, <1>4, <1>5, <1>8, <2>2, <2>3, <2>4, RestStep
<1>9. CASE /\ at[t] = "withdraw" /\ what \in {"ok", "gone"}
           /\ Return(t, failure[t]) /\ exported' = FALSE /\ received' = Tail(received)
           /\ UNCHANGED <<ctxVars, released, line, sent, bluezVars>>
  <2>1. failure[t] \in Outcome
    BY <1>1 DEF DeviceInv, DeviceTypeOK, Outcome
  <2>2. /\ at' = [at EXCEPT ![t] = "idle"]
        /\ at' \in [Task -> Place] /\ queue' \in Seq(Task) /\ Queued'
        /\ failure' \in [Task -> Outcome] /\ op' \in [Task -> {"register", "unregister", "connect"}]
    BY <1>1, <1>3, <1>9, <2>1, CallEnds
  <2>3. at[t] \notin Advertising /\ exported' \in BOOLEAN
    BY <1>9 DEF Advertising
  <2>4. Rests(t, received')
    BY <1>2, <1>9
  <2>5. QED
    BY <1>1, <1>3, <1>4, <1>5, <1>9, <2>2, <2>3, <2>4, RestStep
<1>10. QED
  BY <1>1, <1>6, <1>7, <1>8, <1>9 DEF Replied

LEMMA ReceiveStep == ASSUME DeviceInv, Receive PROVE DeviceInv'
<1>1. received # <<>>
  BY DEF Receive
<1>2. CASE Head(received).what = "release"
  BY <1>1, <1>2, ReleaseStep
<1>3. CASE Head(received).what # "release"
  BY <1>1, <1>3, RepliedStep DEF Receive
<1>4. QED
  BY <1>2, <1>3

-----------------------------------------------------------------------------
(* BlueZ and the bus.                                                      *)

\* What is told is appended, if anybody is there to hear it.
LEMMA Told ==
  ASSUME DeviceInv, NEW b, NEW message \in Incoming, Tell(b, message)
  PROVE  /\ received' \in Seq(Incoming)
         /\ DOMAIN received = 1..Len(received) /\ Len(received) \in Nat
         /\ \/ received' = received
            \/ /\ Connected /\ b = bus /\ (message.who # None \/ message.what = "release")
               /\ DOMAIN received' = 1..(Len(received) + 1)
               /\ \A i \in DOMAIN received : received'[i] = received[i]
               /\ received'[Len(received) + 1] = message
<1>1. received \in Seq(Incoming) /\ DOMAIN received = 1..Len(received) /\ Len(received) \in Nat
  BY MessagesAre DEF DeviceInv
<1>2. CASE received' = received
  BY <1>1, <1>2
<1>3. CASE /\ received' = Append(received, message)
           /\ Connected /\ b = bus /\ (message.who # None \/ message.what = "release")
  <2>1. /\ received' \in Seq(Incoming) /\ Len(received') = Len(received) + 1
        /\ \A i \in 1..Len(received) : received'[i] = received[i]
        /\ received'[Len(received) + 1] = message
    <3>1. received \in Seq(Incoming) /\ received' = Append(received, message)
      BY <1>1, <1>3
    <3>2. QED
      BY <3>1, AppendProperties
  <2>2. DOMAIN received' = 1..(Len(received) + 1)
    BY <2>1, InSeq
  <2>3. QED
    BY <1>1, <1>3, <2>1, <2>2
<1>4. QED
  BY <1>2, <1>3 DEF Tell

LEMMA HandlesStep ==
  ASSUME DeviceInv, BluezHandles
  PROVE  DeviceInv'
<1> USE DEF taskVars, ctxVars, advVars, lineVars, bluezVars
<1> DEFINE call == sent[1]
<1>0. sent # <<>> /\ sent' = Tail(sent) /\ Head(sent) = call
  BY MessagesAre, Tailed DEF DeviceInv, BluezHandles
<1>1. PICK reply \in Replies(call) :
        /\ Tell(call.from, [who |-> call.who, what |-> reply])
        /\ apps' = IF call.what = "register" /\ reply = "ok" THEN apps \cup {call.from} ELSE apps
        /\ advs' = CASE call.what = "advertise" /\ reply = "ok" -> advs \cup {call.from}
                     [] call.what = "withdraw"                  -> advs \ {call.from}
                     [] OTHER                                   -> advs
  BY <1>0 DEF BluezHandles
<1>2. UNCHANGED <<at, op, failure, queue, bus, registered, known, exported, released, line, bluez>>
  BY DEF BluezHandles
<1>3. /\ sent' \in Seq(Call) /\ 1 \in DOMAIN sent /\ call \in Call
      /\ DOMAIN sent' = 1..(Len(sent) - 1) /\ Len(sent) \in Nat \ {0} /\ DOMAIN sent = 1..Len(sent)
      /\ \A k \in DOMAIN sent' : k + 1 \in DOMAIN sent /\ sent'[k] = sent[k + 1]
  BY <1>0, MessagesAre, Tailed DEF DeviceInv
<1>4. /\ call.from \in Bus /\ call.who \in Task \cup {None} /\ call.what \in Waiting
      /\ reply \in {"ok", "error", "gone"}
  <2>1. call.from \in Bus /\ call.who \in Task \cup {None} /\ call.what \in Waiting
    BY <1>3, MessagesAre DEF DeviceInv
  <2>2. Replies(call) \subseteq {"ok", "error", "gone"}
    BY <2>1 DEF Replies, Waiting
  <2>3. QED
    BY <2>1, <2>2
<1> DEFINE message == [who |-> call.who, what |-> reply]
<1>5. message \in Incoming /\ message.who = call.who /\ message.what = reply
  BY <1>4 DEF Incoming
<1>6. /\ received' \in Seq(Incoming)
      /\ DOMAIN received = 1..Len(received) /\ Len(received) \in Nat
      /\ \/ received' = received
         \/ /\ Connected /\ call.from = bus /\ call.who # None
            /\ DOMAIN received' = 1..(Len(received) + 1)
            /\ \A i \in DOMAIN received : received'[i] = received[i]
            /\ received'[Len(received) + 1].who = call.who
            /\ received'[Len(received) + 1].what = reply
  <2>1. /\ received' \in Seq(Incoming)
        /\ DOMAIN received = 1..Len(received) /\ Len(received) \in Nat
        /\ \/ received' = received
           \/ /\ Connected /\ call.from = bus /\ (message.who # None \/ message.what = "release")
              /\ DOMAIN received' = 1..(Len(received) + 1)
              /\ \A i \in DOMAIN received : received'[i] = received[i]
              /\ received'[Len(received) + 1] = message
    BY <1>1, <1>5, Told
  <2> HIDE DEF call, message
  <2>2. reply # "release"
    BY <1>4
  <2>3. QED
    BY <1>5, <2>1, <2>2
<1>7. /\ apps' \in {apps, apps \cup {call.from}}
      /\ apps' # apps => call.what = "register"
      /\ call.what = "register" /\ reply = "ok" => call.from \in apps'
  BY <1>1
<1>8. /\ call.what = "register" => advs' = advs
      /\ call.what = "advertise" => advs' \in {advs, advs \cup {call.from}}
      /\ call.what = "withdraw" => advs' = advs \ {call.from}
  BY <1>1
<1>9. \A i, k \in DOMAIN sent' : i + 1 = k + 1 => i = k
  BY <1>3
<1>10. \A k \in DOMAIN sent' : k + 1 # 1
  BY <1>3
<1> HIDE DEF call, message
<1>11. DeviceTypeOK'
  <2>1. apps' \subseteq Bus
    BY <1>4, <1>7 DEF DeviceInv, DeviceTypeOK
  <2>2. advs' \subseteq Bus
    BY <1>4, <1>8 DEF DeviceInv, DeviceTypeOK, Waiting
  <2>3. QED
    BY <1>2, <1>3, <1>6, <2>1, <2>2 DEF DeviceInv, DeviceTypeOK
<1>12. Queued'
  BY <1>2 DEF DeviceInv, Queued
<1>13. call.who # None => /\ \A k \in DOMAIN sent' : sent'[k].who = None
                          /\ \A k \in DOMAIN received : received[k].who = None
                          /\ at[call.who] = call.what
  BY <1>3, <1>10 DEF DeviceInv, Asked, call
<1>14. Asked'
  <2>1. /\ \A i \in DOMAIN sent' : sent'[i].who # None => sent'[i].from = bus' /\ at'[sent'[i].who] = sent'[i].what
        /\ \A i, k \in DOMAIN sent' : sent'[i].who # None /\ sent'[k].who # None => i = k
    BY <1>2, <1>3, <1>9 DEF DeviceInv, Asked
  <2>2. CASE received' = received
    BY <1>2, <1>3, <2>1, <2>2 DEF DeviceInv, Asked
  <2>3. CASE /\ call.who # None
             /\ DOMAIN received' = 1..(Len(received) + 1)
             /\ \A i \in DOMAIN received : received'[i] = received[i]
             /\ received'[Len(received) + 1].who = call.who
             /\ received'[Len(received) + 1].what = reply
    <3>1. \A i \in DOMAIN received' : i \in DOMAIN received \/ i = Len(received) + 1
      BY <1>6, <2>3
    <3>2. \A i \in DOMAIN received' : received'[i].who # None => i = Len(received) + 1
      BY <1>13, <2>3, <3>1
    <3>3. /\ received'[Len(received) + 1].what # "release"
          /\ at'[received'[Len(received) + 1].who] \in Waiting
      BY <1>2, <1>4, <1>13, <2>3
    <3>4. \A i \in DOMAIN received' : /\ received'[i].what = "release" <=> received'[i].who = None
                                      /\ received'[i].who # None => at'[received'[i].who] \in Waiting
      BY <1>13, <2>3, <3>1, <3>3 DEF DeviceInv, Asked
    <3>5. QED
      BY <1>13, <2>1, <2>3, <3>2, <3>4 DEF Asked
  <2>4. QED
    BY <1>6, <2>2, <2>3
<1>15. Fresh'
  <2>1. Unknown(bus) => Unknown(bus)'
    <3>1. ASSUME Unknown(bus) PROVE call.from # bus
      BY <1>3, <3>1 DEF Unknown, call
    <3>2. QED
      BY <1>2, <1>3, <1>4, <1>7, <1>8, <3>1 DEF Unknown, Waiting
  <2>2. QED
    BY <1>2, <2>1 DEF DeviceInv, Fresh, Connected
<1>16. One'
  <2>1. call.what = "register" => apps = {} /\ \A k \in DOMAIN sent' : sent'[k].what # "register"
    BY <1>3, <1>10 DEF DeviceInv, One, call
  <2>2. call.what = "advertise" => call.from \in apps
    BY <1>3 DEF DeviceInv, One, call
  <2>3. \A b, c \in apps' : b = c
    BY <1>7, <2>1 DEF DeviceInv, One
  <2>4. advs' \subseteq apps'
    BY <1>4, <1>7, <1>8, <2>2 DEF DeviceInv, One, Waiting
  <2>5. \A i \in DOMAIN sent' : sent'[i].what = "register" =>
          apps' = {} /\ \A k \in DOMAIN sent' : sent'[k].what = "register" => k = i
    BY <1>3, <1>7, <1>9, <2>1 DEF DeviceInv, One
  <2>6. \A i \in DOMAIN sent' : sent'[i].what = "advertise" => sent'[i].from \in apps'
    BY <1>3, <1>7 DEF DeviceInv, One
  <2>7. QED
    BY <2>3, <2>4, <2>5, <2>6 DEF One
<1>17. Confirmed'
  <2>1. apps \subseteq apps'
    BY <1>7
  <2>2. ReuseIsSound'
    BY <1>2, <2>1 DEF DeviceInv, Confirmed, ReuseIsSound, Connected
  <2>3. ASSUME NEW i \in DOMAIN received', received'[i].what = "ok", at'[received'[i].who] = "register",
               Connected', known'
        PROVE  bus' \in apps'
    <3>1. CASE i \in DOMAIN received /\ received'[i] = received[i]
      BY <1>2, <2>1, <2>3, <3>1 DEF DeviceInv, Confirmed, Connected
    <3>2. CASE /\ call.from = bus /\ call.who # None
               /\ received'[i].who = call.who /\ received'[i].what = reply
      BY <1>2, <1>7, <1>13, <2>3, <3>2
    <3>3. QED
      BY <1>6, <2>3, <3>1, <3>2
  <2>4. QED
    BY <2>2, <2>3 DEF Confirmed
<1>18. Ending'
  <2>1. ASSUME Withdrawn, bus \in advs'
        PROVE  \E k \in DOMAIN sent' : sent'[k].from = bus /\ sent'[k].what = "withdraw"
    <3>1. PICK k \in DOMAIN sent : k # 1 /\ sent[k].from = bus /\ sent[k].what = "withdraw"
      <4>1. CASE bus \in advs
        <5>1. PICK k \in DOMAIN sent : sent[k].from = bus /\ sent[k].what = "withdraw"
          BY <2>1, <4>1 DEF Withdrawn
        <5>2. k # 1
          BY <1>8, <2>1, <5>1 DEF call
        <5>3. QED
          BY <5>1, <5>2
      <4>2. CASE bus \notin advs
        <5>1. call.what = "advertise" /\ call.from = bus
          BY <1>4, <1>8, <2>1, <4>2 DEF Waiting
        <5>2. PICK k \in DOMAIN sent : k > 1 /\ sent[k].from = bus /\ sent[k].what = "withdraw"
          BY <1>3, <2>1, <5>1 DEF Withdrawn, call
        <5>3. QED
          BY <5>2
      <4>3. QED
        BY <4>1, <4>2
    <3>2. k - 1 \in DOMAIN sent' /\ sent'[k - 1] = sent[k]
      <4>1. k - 1 \in DOMAIN sent' /\ (k - 1) + 1 = k
        BY <1>3, <3>1
      <4>2. QED
        BY <1>3, <4>1
    <3>3. QED
      BY <3>1, <3>2
  <2>2. ASSUME Withdrawn, NEW i \in DOMAIN sent', sent'[i].from = bus, sent'[i].what = "advertise"
        PROVE  \E k \in DOMAIN sent' : k > i /\ sent'[k].from = bus /\ sent'[k].what = "withdraw"
    <3>1. PICK k \in DOMAIN sent : k > i + 1 /\ sent[k].from = bus /\ sent[k].what = "withdraw"
      BY <1>3, <2>2 DEF Withdrawn
    <3>2. k - 1 \in DOMAIN sent' /\ (k - 1) + 1 = k /\ k - 1 > i
      BY <1>3, <3>1
    <3>3. sent'[k - 1] = sent[k]
      BY <1>3, <3>2
    <3>4. QED
      BY <3>1, <3>2, <3>3
  <2>3. Withdrawn => Withdrawn'
    BY <1>2, <2>1, <2>2 DEF Withdrawn
  <2>4. QED
    BY <1>2, <2>3 DEF DeviceInv, Ending, Connected
<1>19. QED
  BY <1>11, <1>12, <1>14, <1>15, <1>16, <1>17, <1>18 DEF DeviceInv

LEMMA ReleasesStep ==
  ASSUME DeviceInv, NEW b \in Bus, BluezReleases(b)
  PROVE  DeviceInv'
<1> USE DEF taskVars, ctxVars, advVars, lineVars, bluezVars
<1>1. /\ advs' = advs \ {b} /\ Tell(b, [who |-> None, what |-> "release"])
      /\ UNCHANGED <<at, op, failure, queue, bus, registered, known, exported, released, line, sent, bluez, apps>>
  BY DEF BluezReleases
<1> DEFINE message == [who |-> None, what |-> "release"]
<1>2. message \in Incoming /\ message.who = None /\ message.what = "release"
  BY DEF Incoming
<1>3. /\ received' \in Seq(Incoming)
      /\ DOMAIN received = 1..Len(received) /\ Len(received) \in Nat
      /\ \/ received' = received
         \/ /\ DOMAIN received' = 1..(Len(received) + 1)
            /\ \A i \in DOMAIN received : received'[i] = received[i]
            /\ received'[Len(received) + 1].who = None
            /\ received'[Len(received) + 1].what = "release"
  <2>1. Tell(b, message)
    BY <1>1
  <2> HIDE DEF message
  <2>2. QED
    BY <1>2, <2>1, Told
<1>4. \A i \in DOMAIN received' :
        \/ i \in DOMAIN received /\ received'[i] = received[i]
        \/ received'[i].who = None /\ received'[i].what = "release"
  BY <1>3
<1>5. DeviceTypeOK'
  BY <1>1, <1>3 DEF DeviceInv, DeviceTypeOK
<1>6. Queued'
  BY <1>1 DEF DeviceInv, Queued
<1>7. Asked'
  BY <1>1, <1>4 DEF DeviceInv, Asked
<1>8. Fresh'
  BY <1>1 DEF DeviceInv, Fresh, Connected, Unknown
<1>9. One'
  BY <1>1 DEF DeviceInv, One
<1>10. Confirmed'
  BY <1>1, <1>4 DEF DeviceInv, Confirmed, ReuseIsSound, Connected
<1>11. Ending'
  BY <1>1 DEF DeviceInv, Ending, Connected, Withdrawn
<1>12. QED
  BY <1>5, <1>6, <1>7, <1>8, <1>9, <1>10, <1>11 DEF DeviceInv

LEMMA ForgetsStep ==
  ASSUME DeviceInv, NEW b \in Bus, BluezForgets(b)
  PROVE  DeviceInv'
<1> USE DEF taskVars, ctxVars, advVars, lineVars, bluezVars
<1>1. /\ ~(Connected /\ b = bus) /\ (\A i \in DOMAIN sent : sent[i].from # b)
      /\ apps' = apps \ {b} /\ advs' = advs \ {b}
      /\ UNCHANGED <<at, op, failure, queue, bus, registered, known, exported, released, line, received, sent, bluez>>
  BY DEF BluezForgets
<1>2. DeviceTypeOK'
  BY <1>1 DEF DeviceInv, DeviceTypeOK
<1>3. Queued' /\ Asked'
  BY <1>1 DEF DeviceInv, Queued, Asked
<1>4. Fresh'
  BY <1>1 DEF DeviceInv, Fresh, Connected, Unknown
<1>5. One'
  BY <1>1 DEF DeviceInv, One
<1>6. Confirmed'
  BY <1>1 DEF DeviceInv, Confirmed, ReuseIsSound, Connected
<1>7. Ending'
  BY <1>1 DEF DeviceInv, Ending, Connected, Withdrawn
<1>8. QED
  BY <1>2, <1>3, <1>4, <1>5, <1>6, <1>7 DEF DeviceInv

\* BlueZ stops and starts, and the connection is lost.
LEMMA WorldStep ==
  ASSUME DeviceInv, BluezStops \/ BluezStarts \/ BusDrops
  PROVE  DeviceInv'
<1> USE DEF taskVars, ctxVars, advVars, lineVars, bluezVars
<1>1. CASE BluezStops
  <2>1. /\ bluez' = FALSE /\ apps' = {} /\ advs' = {} /\ known' = FALSE /\ sent' = <<>>
        /\ UNCHANGED <<at, op, failure, queue, bus, registered, exported, released, line, received>>
    BY <1>1 DEF BluezStops
  <2>2. sent' \in Seq(Call) /\ DOMAIN sent' = {}
    BY <2>1
  <2>3. DeviceTypeOK'
    BY <2>1, <2>2 DEF DeviceInv, DeviceTypeOK
  <2>4. Queued' /\ Asked'
    BY <2>1, <2>2 DEF DeviceInv, Queued, Asked
  <2>5. Fresh'
    BY <2>1, <2>2 DEF DeviceInv, Fresh, Unknown
  <2>6. One'
    BY <2>1, <2>2 DEF One
  <2>7. Confirmed'
    BY <2>1 DEF Confirmed, ReuseIsSound
  <2>8. Ending'
    BY <2>1, <2>2 DEF Ending, Withdrawn
  <2>9. QED
    BY <2>3, <2>4, <2>5, <2>6, <2>7, <2>8 DEF DeviceInv
<1>2. CASE BluezStarts
  <2>1. /\ bluez' = TRUE
        /\ UNCHANGED <<at, op, failure, queue, bus, registered, known, exported, released, line, received, sent,
                       apps, advs>>
    BY <1>2 DEF BluezStarts
  <2>2. DeviceTypeOK'
    BY <2>1 DEF DeviceInv, DeviceTypeOK
  <2>3. Queued' /\ Asked'
    BY <2>1 DEF DeviceInv, Queued, Asked
  <2>4. Fresh' /\ One'
    BY <2>1 DEF DeviceInv, Fresh, Connected, Unknown, One
  <2>5. Confirmed' /\ Ending'
    BY <2>1 DEF DeviceInv, Confirmed, ReuseIsSound, Ending, Connected, Withdrawn
  <2>6. QED
    BY <2>2, <2>3, <2>4, <2>5 DEF DeviceInv
<1>3. CASE BusDrops
  <2>1. /\ line' = "lost" /\ received' = <<>>
        /\ UNCHANGED <<at, op, failure, queue, bus, registered, known, exported, released, sent, bluez, apps, advs>>
    BY <1>3 DEF BusDrops
  <2>2. received' \in Seq(Incoming) /\ DOMAIN received' = {}
    BY <2>1
  <2>3. DeviceTypeOK'
    BY <2>1, <2>2 DEF DeviceInv, DeviceTypeOK
  <2>4. Queued' /\ Asked'
    BY <2>1, <2>2 DEF DeviceInv, Queued, Asked
  <2>5. Fresh' /\ One'
    BY <2>1 DEF DeviceInv, Fresh, Connected, Unknown, One
  <2>6. Confirmed' /\ Ending'
    BY <2>1 DEF Confirmed, ReuseIsSound, Ending, Connected
  <2>7. QED
    BY <2>3, <2>4, <2>5, <2>6 DEF DeviceInv
<1>4. QED
  BY <1>1, <1>2, <1>3

-----------------------------------------------------------------------------
(* The specification.                                                      *)

LEMMA BeginStep ==
  ASSUME DeviceInv, NEW t \in Task, NEW o \in {"register", "unregister", "connect"}, Begin(t, o)
  PROVE  DeviceInv'
<1>1. /\ at[t] = "idle" /\ at' = [at EXCEPT ![t] = "lock"]
      /\ failure' = [failure EXCEPT ![t] = ""] /\ op' = [op EXCEPT ![t] = o]
      /\ queue' = Append(queue, t)
      /\ UNCHANGED <<ctxVars, advVars, lineVars, bluezVars>>
  BY DEF Begin, GoTo, Noting
<1>2. Joins(t)
  BY <1>1 DEF Joins
<1>3. Queued' /\ queue' \in Seq(Task) /\ at' \in [Task -> Place]
  BY <1>2, QueuedStays DEF DeviceInv
<1>4. failure' \in [Task -> Outcome] /\ op' \in [Task -> {"register", "unregister", "connect"}]
  BY <1>1 DEF DeviceInv, DeviceTypeOK, Outcome
<1>5. QED
  BY <1>1, <1>3, <1>4, QuietStep

\* A call that has nothing to do, or finds that there is nothing to do.
LEMMA ReturnStep ==
  ASSUME DeviceInv, NEW t \in Task, at[t] \in {"lock", "ask"}, NEW e \in Outcome, Return(t, e),
         UNCHANGED <<ctxVars, advVars, lineVars, bluezVars>>
  PROVE  DeviceInv'
BY CallEnds, QuietStep

LEMMA LockStep ==
  ASSUME DeviceInv, NEW t \in Task,
         BeginRegister(t) \/ AskOwner(t) \/ BeginUnregister(t) \/ BeginConnect(t)
  PROVE  DeviceInv'
<1>0. "" \in Outcome /\ "error" \in Outcome /\ "close" \in Closing
  BY DEF Outcome, Failures, Closing
<1>1. CASE BeginRegister(t)
  <2>1. First(t) /\ at[t] = "lock" /\ UNCHANGED bluezVars
    BY <1>1, LockedIsFirst DEF BeginRegister
  <2>2. CASE /\ GoTo(t, IF bus = None THEN "open" ELSE "ask")
             /\ UNCHANGED <<op, queue, failure, ctxVars, advVars, lineVars>>
    <3> DEFINE to == IF bus = None THEN "open" ELSE "ask"
    <3>1. to \in Place /\ to \in {"idle", "lock", "ask", "open"} /\ to # "idle" /\ (to = "open" => bus = None)
      BY DEF Place
    <3>2. GoTo(t, to) /\ Stay(t)
      BY <2>2 DEF Stay
    <3> HIDE DEF to
    <3>3. /\ at' = [at EXCEPT ![t] = to]
          /\ at' \in [Task -> Place] /\ queue' \in Seq(Task) /\ Queued'
          /\ op' \in [Task -> {"register", "unregister", "connect"}]
      BY <2>1, <3>1, <3>2, CallGoesOn
    <3>4. failure' \in [Task -> Outcome]
      BY <2>2 DEF DeviceInv, DeviceTypeOK, Outcome
    <3>5. QED
      BY <2>1, <2>2, <3>1, <3>3, <3>4, QuietStep
  <2>3. CASE Close(t, "close", "")
    BY <1>0, <2>1, <2>3, CloseStep
  <2>4. QED
    BY <1>1, <2>2, <2>3 DEF BeginRegister
<1>2. CASE AskOwner(t)
  <2>1. at[t] = "ask" /\ UNCHANGED bluezVars
    BY <1>2 DEF AskOwner
  <2>2. First(t)
    BY <2>1, OneWorks DEF DeviceInv
  <2>3. CASE Return(t, "") /\ UNCHANGED <<ctxVars, advVars, lineVars>>
    BY <1>0, <2>1, <2>3, ReturnStep
  <2>4. CASE Close(t, "close", "")
    BY <1>0, <2>1, <2>2, <2>4, CloseStep
  <2>5. QED
    BY <1>2, <2>3, <2>4 DEF AskOwner
<1>3. CASE BeginUnregister(t)
  <2>1. First(t) /\ at[t] = "lock" /\ UNCHANGED bluezVars
    BY <1>3, LockedIsFirst DEF BeginUnregister
  <2>2. CASE Return(t, "") /\ UNCHANGED <<ctxVars, advVars, lineVars>>
    BY <1>0, <2>1, <2>2, ReturnStep
  <2>3. CASE Close(t, "close", "")
    BY <1>0, <2>1, <2>3, CloseStep
  <2>4. QED
    BY <1>3, <2>2, <2>3 DEF BeginUnregister
<1>4. CASE BeginConnect(t)
  <2>1. First(t) /\ at[t] = "lock" /\ UNCHANGED bluezVars
    BY <1>4, LockedIsFirst DEF BeginConnect
  <2>2. ASSUME NEW e \in {"", "error"}, Return(t, e), UNCHANGED <<ctxVars, advVars, lineVars>>
        PROVE  DeviceInv'
    BY <1>0, <2>1, <2>2, ReturnStep
  <2>3. CASE Advertises(t)
    BY <2>3, AdvertiseStep
  <2>4. QED
    BY <1>4, <2>2, <2>3 DEF BeginConnect, Advertises
<1>5. QED
  BY <1>1, <1>2, <1>3, <1>4

LEMMA PollStep ==
  ASSUME DeviceInv, NEW t \in Task, Poll(t)
  PROVE  DeviceInv'
<1>1. at[t] = "poll" /\ UNCHANGED bluezVars
  BY DEF Poll
<1>2. PICK e \in {"", "error"} : Withdraw(t, e, received)
  BY DEF Poll
<1>3. e \in Outcome /\ at[t] \in Advertising
  BY <1>1 DEF Outcome, Failures, Advertising
<1>4. Rests(t, received)
  <2>1. First(t) /\ at[t] \notin Waiting
    BY <1>1, OneWorks DEF DeviceInv, Waiting
  <2>2. QED
    BY <2>1, NoneAwaited, MessagesAre DEF DeviceInv, Rests
<1>5. QED
  BY <1>1, <1>2, <1>3, <1>4, WithdrawStep

LEMMA DeviceInitially == DeviceInit => DeviceInv
<1> SUFFICES ASSUME DeviceInit PROVE DeviceInv
  OBVIOUS
<1>1. /\ at = [t \in Task |-> "idle"] /\ op = [t \in Task |-> "unregister"]
      /\ failure = [t \in Task |-> "error"] /\ queue = <<>>
      /\ bus = None /\ registered = FALSE /\ known = FALSE
      /\ exported = FALSE /\ released = FALSE
      /\ line = "closed" /\ received = <<>> /\ sent = <<>>
      /\ bluez \in BOOLEAN /\ apps = {} /\ advs = {}
  BY DEF DeviceInit
<1>2. \A t \in Task : at[t] = "idle"
  BY <1>1
<1>3. DeviceTypeOK
  <2>1. "idle" \in Place /\ "error" \in Failures
    BY DEF Place, Failures
  <2>2. queue \in Seq(Task) /\ received \in Seq(Incoming) /\ sent \in Seq(Call)
    BY <1>1
  <2>3. QED
    BY <1>1, <2>1, <2>2 DEF DeviceTypeOK
<1>4. DOMAIN queue = {} /\ DOMAIN sent = {} /\ DOMAIN received = {}
  BY <1>1
<1>5. Queued /\ Asked
  BY <1>2, <1>4 DEF Queued, Asked
<1>6. Fresh /\ One /\ Confirmed /\ Ending
  BY <1>1, <1>2, <1>4 DEF Fresh, One, Confirmed, ReuseIsSound, Ending, Connected, Opening, Closing
<1>7. QED
  BY <1>3, <1>5, <1>6 DEF DeviceInv

LEMMA DeviceSteps ==
  ASSUME DeviceInv, [DeviceNext]_deviceVars
  PROVE  DeviceInv'
<1>1. ASSUME NEW t \in Task, NEW o \in {"register", "unregister", "connect"}, Begin(t, o) PROVE DeviceInv'
  BY <1>1, BeginStep
<1>2. ASSUME NEW t \in Task, TaskStep(t) PROVE DeviceInv'
  BY <1>2, LockStep, ClosedStep, OpenStep, ReadyStep, GetObjectsStep, PollStep DEF TaskStep
<1>3. ASSUME NEW t \in Task, NEW e \in Failures, Interrupt(t, e) PROVE DeviceInv'
  BY <1>3, InterruptStep
<1>4. ASSUME NEW b \in Bus, BluezReleases(b) \/ BluezForgets(b) PROVE DeviceInv'
  BY <1>4, ReleasesStep, ForgetsStep
<1>5. CASE Receive
  BY <1>5, ReceiveStep
<1>6. CASE BluezHandles
  BY <1>6, HandlesStep
<1>7. CASE BluezStops \/ BluezStarts \/ BusDrops
  BY <1>7, WorldStep
<1>8. CASE UNCHANGED deviceVars
  <2>1. UNCHANGED <<at, op, failure, queue, bus, registered, known, exported, released, line, received, sent,
                    bluez, apps, advs>>
    BY <1>8 DEF deviceVars, taskVars, ctxVars, advVars, lineVars, bluezVars
  <2>2. DeviceTypeOK'
    BY <2>1 DEF DeviceInv, DeviceTypeOK
  <2>3. Queued' /\ Asked'
    BY <2>1 DEF DeviceInv, Queued, Asked
  <2>4. Fresh' /\ One'
    BY <2>1 DEF DeviceInv, Fresh, Connected, Unknown, One
  <2>5. Confirmed' /\ Ending'
    BY <2>1 DEF DeviceInv, Confirmed, ReuseIsSound, Ending, Connected, Withdrawn
  <2>6. QED
    BY <2>2, <2>3, <2>4, <2>5 DEF DeviceInv
<1>9. QED
  BY <1>1, <1>2, <1>3, <1>4, <1>5, <1>6, <1>7, <1>8 DEF DeviceNext

\* What is under way, in the queue of the lock, at BlueZ and on the way back, belongs
\* together at every moment of register_hid, unregister_hid and connect (device.py:48-246).
THEOREM CallsBelongTogether == DeviceSpec => []DeviceInv
<1>1. DeviceInit => DeviceInv
  BY DeviceInitially
<1>2. DeviceInv /\ [DeviceNext]_deviceVars => DeviceInv'
  BY DeviceSteps
<1>3. QED
  BY <1>1, <1>2, PTL DEF DeviceSpec

\* The variables of the context and its calls have their types (device.py).
THEOREM DeviceTypeCorrect == DeviceSpec => []DeviceTypeOK
<1>1. DeviceInv => DeviceTypeOK
  BY DEF DeviceInv
<1>2. QED
  BY <1>1, CallsBelongTogether, PTL

LEMMA AtMostOne ==
  ASSUME NEW S, \A b, c \in S : b = c
  PROVE  Cardinality(S) <= 1
<1>1. CASE S = {}
  BY <1>1, FS_EmptySet
<1>2. ASSUME NEW b \in S PROVE Cardinality(S) <= 1
  <2>1. S = {b}
    BY <1>2
  <2>2. QED
    BY <2>1, FS_Singleton
<1>3. QED
  BY <1>1, <1>2

\* BlueZ holds at most one HID application and one advertisement of the context
\* (device.py:49-63, 110-111).
THEOREM OneApplication == DeviceSpec => []OneHid
<1>1. DeviceInv => OneHid
  BY AtMostOne DEF DeviceInv, One, OneHid
<1>2. QED
  BY <1>1, CallsBelongTogether, PTL

\* What register_hid takes for a standing registration is one (device.py:49-63, 127, 330).
THEOREM ReusesWhatIs == DeviceSpec => []ReuseIsSound
<1>1. DeviceInv => ReuseIsSound
  BY DEF DeviceInv, Confirmed
<1>2. QED
  BY <1>1, CallsBelongTogether, PTL

\* When all calls are over and BlueZ has handled what it was sent, an advertisement is
\* left only if a release was read while it was exported (device.py:216-246).
THEOREM LeavesIfReleased == DeviceSpec => []LeftOnlyIfReleased
<1>1. DeviceInv => LeftOnlyIfReleased
  <2> SUFFICES ASSUME DeviceInv, \A t \in Task : at[t] = "idle", Connected, sent = <<>>, bus \in advs
               PROVE  released
    BY DEF LeftOnlyIfReleased
  <2>1. DOMAIN sent = {}
    OBVIOUS
  <2>2. ~Withdrawn
    BY <2>1 DEF Withdrawn
  <2>3. QED
    BY <2>2 DEF DeviceInv, Ending, Advertising
<1>2. QED
  BY <1>1, CallsBelongTogether, PTL
=============================================================================
