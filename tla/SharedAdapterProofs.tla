------------------------- MODULE SharedAdapterProofs ------------------------
(***************************************************************************)
(* Connection attempts and pairing runs together.  Each kind, seen alone   *)
(* on hci0, behaves as its own specification says, the other kind being to *)
(* it no more than a lock that is busy; so whatever is proved of the kinds *)
(* holds of the whole, and with it what they owe to one another.           *)
(***************************************************************************)
EXTENDS SharedAdapter, ConnectAttemptProofs, TLAPS

\* What each kind sees of the lock and of BlueZ.
Attempts == INSTANCE ConnectAttemptProofs
  WITH lock <- IF lock \in Client THEN lock ELSE Nobody,
       hid <- hid \cap Client, adv <- adv \cap Client

Runs == INSTANCE HidServerProofs
  WITH lock <- IF lock \in Server THEN lock ELSE Nobody,
       hid <- hid \cap Server, adv <- adv \cap Server

\* The two kinds are different processes, and none of them is nobody.
LEMMA Kinds ==
  /\ Client \cap Server = {}
  /\ Nobody \notin Client /\ Nobody \notin Server
BY ConnectAssumption, SharedAssumption

ServerAction(s) ==
  \/ Pairing!Launch(s) \/ Pairing!AcquireLock(s)
  \/ Pairing!ReadOriginals(s) \/ Pairing!ChangeSetting(s) \/ Pairing!TakeSignal(s)
  \/ Pairing!DropRuntime(s) \/ Pairing!RestoreSetting(s) \/ Pairing!Return(s)
  \/ Pairing!Register(s) \/ Pairing!BluezAnswers(s) \/ Pairing!Signal(s) \/ Pairing!KillServer(s)

\* The steps of the whole, one by one.
LEMMA SharedCases ==
  ASSUME [SharedNext]_sharedVars
  PROVE  \/ /\ \/ \E c \in Client : ClientAction(c)
               \/ AdapterChanges \/ LinkChanges \/ Tick
            /\ UNCHANGED pairingVars
         \/ (\E s \in Server : ServerAction(s)) /\ UNCHANGED <<clientVars, envVars>>
         \/ UNCHANGED sharedVars
BY DEF SharedNext, PairingStep, Next, ClientNext, ClientAction, Pairing!ServerNext,
       Pairing!Work, ServerAction

-----------------------------------------------------------------------------
(* What one kind does to the lock and to BlueZ, the other does not see.    *)

\* A pairing run takes the lock only when it is free, releases only its own, and
\* touches only what is its own in BlueZ.
LEMMA RunsKeepToThemselves ==
  ASSUME NEW s \in Server, ServerAction(s)
  PROVE  /\ lock' # lock => (lock = Nobody /\ lock' = s) \/ (lock = s /\ lock' = Nobody)
         /\ hid' \ {s} = hid \ {s} /\ adv' \ {s} = adv \ {s}
<1> USE DEF Pairing!sharedVars
<1>1. CASE Pairing!Launch(s) \/ Pairing!AcquireLock(s)
  BY <1>1 DEF Pairing!Launch, Pairing!AcquireLock
<1>2. CASE Pairing!ReadOriginals(s) \/ Pairing!Return(s) \/ Pairing!KillServer(s)
  BY <1>2 DEF Pairing!ReadOriginals, Pairing!Return, Pairing!KillServer, Pairing!Gone
<1>3. CASE Pairing!ChangeSetting(s) \/ Pairing!RestoreSetting(s)
  BY <1>3 DEF Pairing!ChangeSetting, Pairing!RestoreSetting
<1>4. CASE Pairing!TakeSignal(s) \/ Pairing!DropRuntime(s) \/ Pairing!Signal(s)
  BY <1>4 DEF Pairing!TakeSignal, Pairing!DropRuntime, Pairing!Signal
<1>5. CASE Pairing!Register(s) \/ Pairing!BluezAnswers(s)
  BY <1>5 DEF Pairing!Register, Pairing!BluezAnswers
<1>6. QED
  BY <1>1, <1>2, <1>3, <1>4, <1>5 DEF ServerAction

\* So does an attempt.
LEMMA AttemptsKeepToThemselves ==
  ASSUME NEW c \in Client, ClientAction(c)
  PROVE  /\ lock' # lock => (lock = Nobody /\ lock' = c) \/ (lock = c /\ lock' = Nobody)
         /\ hid' \ {c} = hid \ {c} /\ adv' \ {c} = adv \ {c}
<1> USE DEF clientVars, bluezVars, envVars
<1>1. CASE Call(c) \/ FirstQuery(c) \/ OpenLock(c) \/ TryLock(c) \/ Recheck(c)
  BY <1>1 DEF Call, FirstQuery, OpenLock, TryLock, Recheck
<1>2. CASE WaitForAdapter(c) \/ StrictQuery(c) \/ SpawnHelper(c) \/ HelperReaped(c)
  BY <1>2 DEF WaitForAdapter, StrictQuery, SpawnHelper, HelperReaped
<1>3. CASE SendRegistration(c) \/ RegistrationReply(c) \/ Poll(c) \/ Timeout(c)
  BY <1>3 DEF SendRegistration, RegistrationReply, Poll, Timeout
<1>4. CASE Reap(c) \/ CloseBus(c) \/ Unlock(c) \/ Kill(c)
  BY <1>4 DEF Reap, CloseBus, Unlock, Kill
<1>5. CASE BluezAccepts(c) \/ BluezRejects(c) \/ OrphanExits(c)
  BY <1>5 DEF BluezAccepts, BluezRejects, OrphanExits
<1>6. QED
  BY <1>1, <1>2, <1>3, <1>4, <1>5 DEF ClientAction, Step, Bluez

\* An attempt, seen without the pairing runs, does the same as with them.
LEMMA AttemptsSeenAlone ==
  ASSUME NEW c \in Client, ClientAction(c)
  PROVE  Attempts!ClientAction(c)
<1> USE Kinds
    DEF clientVars, bluezVars, envVars, Goto, Finish, Holding, Timed, Awaiting, Linked,
        Attempts!clientVars, Attempts!bluezVars, Attempts!envVars, Attempts!Goto,
        Attempts!Finish, Attempts!Linked
<1>0. /\ Attempts!Observation = Observation
      /\ \A o : Attempts!Lenient(o) = Lenient(o) /\ Attempts!Strict(o) = Strict(o)
               /\ Attempts!Verdict(o) = Verdict(o)
  BY DEF Observation, Outcome, Lenient, Strict, Verdict, Attempts!Observation,
         Attempts!Outcome, Attempts!Lenient, Attempts!Strict, Attempts!Verdict
<1>1. CASE Call(c) \/ Step(c)
  <2>1. Call(c) => Attempts!Call(c)
    BY DEF Call, Attempts!Call
  <2>2. FirstQuery(c) => Attempts!FirstQuery(c)
    BY <1>0 DEF FirstQuery, Attempts!FirstQuery
  <2>3. OpenLock(c) => Attempts!OpenLock(c)
    BY DEF OpenLock, Attempts!OpenLock
  <2>4. TryLock(c) => Attempts!TryLock(c)
    BY DEF TryLock, Attempts!TryLock
  <2>5. Recheck(c) => Attempts!Recheck(c)
    BY <1>0 DEF Recheck, Attempts!Recheck
  <2>6. WaitForAdapter(c) => Attempts!WaitForAdapter(c)
    BY DEF WaitForAdapter, Attempts!WaitForAdapter
  <2>7. StrictQuery(c) => Attempts!StrictQuery(c)
    BY <1>0 DEF StrictQuery, Attempts!StrictQuery
  <2>8. SpawnHelper(c) => Attempts!SpawnHelper(c)
    BY DEF SpawnHelper, Attempts!SpawnHelper
  <2>9. HelperReaped(c) => Attempts!HelperReaped(c)
    BY DEF HelperReaped, Attempts!HelperReaped
  <2>10. SendRegistration(c) => Attempts!SendRegistration(c)
    BY DEF SendRegistration, Asking, Attempts!SendRegistration, Attempts!Asking
  <2>11. RegistrationReply(c) => Attempts!RegistrationReply(c)
    BY DEF RegistrationReply, Attempts!RegistrationReply
  <2>12. Poll(c) => Attempts!Poll(c)
    BY <1>0 DEF Poll, Attempts!Poll
  <2>13. Timeout(c) => Attempts!Timeout(c)
    BY DEF Timeout, Attempts!Timeout, Attempts!Awaiting
  <2>14. Reap(c) => Attempts!Reap(c)
    BY DEF Reap, Attempts!Reap
  <2>15. CloseBus(c) => Attempts!CloseBus(c)
    BY DEF CloseBus, Attempts!CloseBus
  <2>16. Unlock(c) => Attempts!Unlock(c)
    BY DEF Unlock, Attempts!Unlock
  <2>17. QED
    BY <1>1, <2>1, <2>2, <2>3, <2>4, <2>5, <2>6, <2>7, <2>8, <2>9, <2>10, <2>11, <2>12,
       <2>13, <2>14, <2>15, <2>16 DEF Step, Attempts!Step, Attempts!ClientAction
<1>2. CASE Kill(c)
  <2>1. Attempts!Kill(c)
    BY <1>2 DEF Kill, Attempts!Kill
  <2>2. QED
    BY <2>1 DEF Attempts!ClientAction
<1>3. CASE Bluez(c) \/ OrphanExits(c)
  <2>1. BluezAccepts(c) => Attempts!BluezAccepts(c)
    BY DEF BluezAccepts, Attempts!BluezAccepts
  <2>2. BluezRejects(c) => Attempts!BluezRejects(c)
    BY DEF BluezRejects, Attempts!BluezRejects
  <2>3. OrphanExits(c) => Attempts!OrphanExits(c)
    BY DEF OrphanExits, Attempts!OrphanExits
  <2>4. QED
    BY <1>3, <2>1, <2>2, <2>3 DEF Bluez, Attempts!Bluez, Attempts!ClientAction
<1>4. QED
  BY <1>1, <1>2, <1>3 DEF ClientAction

\* Every behaviour of the whole is, to the attempts, one of theirs: the pairing
\* runs only make the lock busy (lib.rs:462-476; hid-server.rs:11-17).
THEOREM AttemptsUndisturbed == SharedSpec => Attempts!Spec
<1> USE Kinds
<1>1. SharedInit => Attempts!Init
  BY DEF SharedInit, Init, Attempts!Init, Adapter, Link, Attempts!Adapter, Attempts!Link
<1>2. [SharedNext]_sharedVars => [Attempts!Next]_(Attempts!vars)
  <2> SUFFICES ASSUME [SharedNext]_sharedVars
               PROVE  Attempts!Next \/ UNCHANGED Attempts!vars
    OBVIOUS
  <2>1. ASSUME NEW c \in Client, ClientAction(c) PROVE Attempts!Next
    BY <2>1, AttemptsSeenAlone DEF Attempts!ClientAction, Attempts!Next, Attempts!ClientNext
  <2>2. CASE AdapterChanges
    <3>1. Attempts!AdapterChanges
      BY <2>2 DEF AdapterChanges, bluezVars, Adapter, Attempts!AdapterChanges,
                  Attempts!bluezVars, Attempts!Adapter
    <3>2. QED
      BY <3>1 DEF Attempts!Next
  <2>3. CASE LinkChanges
    <3>1. Attempts!LinkChanges
      BY <2>3 DEF LinkChanges, bluezVars, Link, Attempts!LinkChanges, Attempts!bluezVars,
                  Attempts!Link
    <3>2. QED
      BY <3>1 DEF Attempts!Next
  <2>4. CASE Tick
    <3>1. Attempts!Tick
      BY <2>4 DEF Tick, bluezVars, envVars, Timed, Awaiting, Attempts!Tick,
                  Attempts!bluezVars, Attempts!envVars, Attempts!Timed, Attempts!Awaiting
    <3>2. QED
      BY <3>1 DEF Attempts!Next
  <2>5. ASSUME NEW s \in Server, ServerAction(s), UNCHANGED <<clientVars, envVars>>
        PROVE  UNCHANGED Attempts!vars
    <3>1. s \notin Client /\ s # Nobody
      OBVIOUS
    <3>2. hid' \cap Client = hid \cap Client /\ adv' \cap Client = adv \cap Client
      BY <2>5, <3>1, RunsKeepToThemselves
    <3>3. (IF lock \in Client THEN lock ELSE Nobody)' = IF lock \in Client THEN lock ELSE Nobody
      BY <2>5, <3>1, RunsKeepToThemselves
    <3>4. QED
      BY <2>5, <3>2, <3>3 DEF clientVars, envVars, Attempts!vars, Attempts!clientVars,
         Attempts!bluezVars, Attempts!envVars
  <2>6. CASE UNCHANGED sharedVars
    BY <2>6 DEF sharedVars, vars, clientVars, bluezVars, envVars,
                Attempts!vars, Attempts!clientVars, Attempts!bluezVars, Attempts!envVars
  <2>7. QED
    BY <2>1, <2>2, <2>3, <2>4, <2>5, <2>6, SharedCases
<1>3. QED
  BY <1>1, <1>2, PTL DEF SharedSpec, Attempts!Spec

\* A pairing run, seen without the attempts, does the same as with them.
LEMMA RunsSeenAlone ==
  ASSUME NEW s \in Server, ServerAction(s)
  PROVE  Runs!ServerAction(s)
<1> USE Kinds
    DEF Pairing!sharedVars, Pairing!Move, Pairing!Restart, Pairing!Advance,
        Runs!sharedVars, Runs!Move, Runs!Restart, Runs!Advance
<1>0. /\ Runs!Setup = Pairing!Setup /\ Runs!Restore = Pairing!Restore
      /\ Runs!Blank = Pairing!Blank
      /\ Runs!Waiting = Pairing!Waiting /\ Runs!Modifying = Pairing!Modifying
  BY DEF Pairing!Setup, Pairing!Restore, Pairing!Blank, Pairing!Property, Pairing!Waiting,
     Pairing!Modifying, Runs!Setup, Runs!Restore, Runs!Blank, Runs!Property, Runs!Waiting,
     Runs!Modifying
<1>1. ASSUME NEW p, NEW v
      PROVE  /\ Runs!Written(p, v) = Pairing!Written(p, v)
             /\ Runs!MaybeWritten(p, v) = Pairing!MaybeWritten(p, v)
             /\ Runs!Wanted(p) = Pairing!Wanted(p)
  <2>1. Runs!Wanted(p) = Pairing!Wanted(p)
    BY Zenon DEF Pairing!Wanted, Runs!Wanted
  <2>2. QED
    BY <2>1 DEF Pairing!Written, Pairing!MaybeWritten, Pairing!Affected, Pairing!Property,
       Runs!Written, Runs!MaybeWritten, Runs!Affected, Runs!Property
<1>2. ASSUME NEW how, Pairing!Gone(s, how) PROVE Runs!Gone(s, how)
  BY <1>0, <1>2 DEF Pairing!Gone, Runs!Gone
<1>3. CASE Pairing!Launch(s) \/ Pairing!AcquireLock(s)
  BY <1>3 DEF Pairing!Launch, Pairing!AcquireLock, Runs!Launch, Runs!AcquireLock, Runs!ServerAction
<1>4. CASE Pairing!ReadOriginals(s) \/ Pairing!Return(s) \/ Pairing!KillServer(s)
  <2>1. Pairing!ReadOriginals(s) => Runs!ReadOriginals(s)
    BY <1>2 DEF Pairing!ReadOriginals, Runs!ReadOriginals
  <2>2. Pairing!Return(s) => Runs!Return(s)
    BY <1>0, <1>2 DEF Pairing!Return, Runs!Return
  <2>3. Pairing!KillServer(s) => Runs!KillServer(s)
    BY <1>2 DEF Pairing!KillServer, Runs!KillServer
  <2>4. QED
    BY <1>4, <2>1, <2>2, <2>3 DEF Runs!ServerAction
<1>5. CASE Pairing!ChangeSetting(s)
  <2>1. Runs!ChangeSetting(s)
    BY <1>0, <1>1, <1>5 DEF Pairing!ChangeSetting, Runs!ChangeSetting
  <2>2. QED
    BY <2>1 DEF Runs!ServerAction
<1>6. CASE Pairing!RestoreSetting(s)
  <2>1. Runs!RestoreSetting(s)
    BY <1>0, <1>1, <1>6 DEF Pairing!RestoreSetting, Runs!RestoreSetting
  <2>2. QED
    BY <2>1 DEF Runs!ServerAction
<1>7. CASE Pairing!TakeSignal(s) \/ Pairing!DropRuntime(s) \/ Pairing!Signal(s)
  <2>1. Pairing!TakeSignal(s) => Runs!TakeSignal(s)
    BY <1>0 DEF Pairing!TakeSignal, Runs!TakeSignal
  <2>2. Pairing!DropRuntime(s) => Runs!DropRuntime(s)
    BY DEF Pairing!DropRuntime, Runs!DropRuntime
  <2>3. Pairing!Signal(s) => Runs!Signal(s)
    BY <1>0 DEF Pairing!Signal, Runs!Signal
  <2>4. QED
    BY <1>7, <2>1, <2>2, <2>3 DEF Runs!ServerAction
<1>8. CASE Pairing!Register(s) \/ Pairing!BluezAnswers(s)
  <2>1. Pairing!Register(s) => Runs!Register(s)
    BY DEF Pairing!Register, Runs!Register
  <2>2. Pairing!BluezAnswers(s) => Runs!BluezAnswers(s)
    BY DEF Pairing!BluezAnswers, Runs!BluezAnswers
  <2>3. QED
    BY <1>8, <2>1, <2>2 DEF Runs!ServerAction
<1>9. QED
  BY <1>3, <1>4, <1>5, <1>6, <1>7, <1>8 DEF ServerAction

\* Every behaviour of the whole is, to the pairing runs, one of theirs.
THEOREM RunsUndisturbed == SharedSpec => Runs!Spec
<1> USE Kinds
<1>1. SharedInit => Runs!Init
  BY DEF SharedInit, Init, Pairing!ServerInit, Pairing!Blank, Pairing!Property,
         Runs!Init, Runs!ServerInit, Runs!Blank, Runs!Property
<1>2. [SharedNext]_sharedVars => [Runs!Next]_(Runs!vars)
  <2> SUFFICES ASSUME [SharedNext]_sharedVars
               PROVE  Runs!Next \/ UNCHANGED Runs!vars
    OBVIOUS
  <2> USE DEF pairingVars, Runs!vars, Runs!serverVars, Runs!sharedVars
  <2>1. ASSUME NEW s \in Server, ServerAction(s) PROVE Runs!Next
    BY <2>1, RunsSeenAlone DEF Runs!ServerAction, Runs!Next, Runs!ServerNext, Runs!Work
  <2>2. ASSUME NEW c \in Client, ClientAction(c), UNCHANGED pairingVars
        PROVE  UNCHANGED Runs!vars
    <3>1. c \notin Server /\ c # Nobody
      OBVIOUS
    <3>2. hid' \cap Server = hid \cap Server /\ adv' \cap Server = adv \cap Server
      BY <2>2, <3>1, AttemptsKeepToThemselves
    <3>3. (IF lock \in Server THEN lock ELSE Nobody)' = IF lock \in Server THEN lock ELSE Nobody
      BY <2>2, <3>1, AttemptsKeepToThemselves
    <3>4. QED
      BY <2>2, <3>2, <3>3
  <2>3. CASE AdapterChanges /\ UNCHANGED pairingVars
    <3>1. CASE hid' = {} /\ adv' = {}
      <4>1. Runs!AdapterLost
        BY <2>3, <3>1 DEF AdapterChanges, Runs!AdapterLost
      <4>2. QED
        BY <4>1 DEF Runs!Next
    <3>2. CASE UNCHANGED bluezVars
      BY <2>3, <3>2 DEF AdapterChanges, bluezVars
    <3>3. QED
      BY <2>3, <3>1, <3>2 DEF AdapterChanges
  <2>4. CASE (LinkChanges \/ Tick) /\ UNCHANGED pairingVars
    BY <2>4 DEF LinkChanges, Tick, bluezVars
  <2>5. CASE UNCHANGED sharedVars
    BY <2>5 DEF sharedVars, vars, bluezVars
  <2>6. QED
    BY <2>1, <2>2, <2>3, <2>4, <2>5, SharedCases
<1>3. QED
  BY <1>1, <1>2, PTL DEF SharedSpec, Runs!Spec

-----------------------------------------------------------------------------
(* What the kinds owe to one another.                                      *)

\* Whoever works on hci0, or has anything in BlueZ, is of one kind or the other.
Owners ==
  /\ lock \in Client \cup Server \cup {Nobody}
  /\ hid \cup adv \subseteq Client \cup Server

\* No step gives the lock or a place in BlueZ to anybody else (lib.rs:462-476, 512-513;
\* hid-server.rs:11-17, 48-50).
THEOREM OwnersAreKnown == SharedSpec => []Owners
<1> USE Kinds DEF Owners
<1>1. SharedInit => Owners
  BY DEF SharedInit, Init
<1>2. Owners /\ [SharedNext]_sharedVars => Owners'
  <2> SUFFICES ASSUME Owners, [SharedNext]_sharedVars PROVE Owners'
    OBVIOUS
  <2>1. ASSUME NEW c \in Client, ClientAction(c) PROVE Owners'
    BY <2>1, AttemptsKeepToThemselves
  <2>2. ASSUME NEW s \in Server, ServerAction(s) PROVE Owners'
    BY <2>2, RunsKeepToThemselves
  <2>3. CASE AdapterChanges \/ LinkChanges \/ Tick \/ UNCHANGED sharedVars
    BY <2>3 DEF AdapterChanges, LinkChanges, Tick, sharedVars, vars, bluezVars
  <2>4. QED
    BY <2>1, <2>2, <2>3, SharedCases
<1>3. QED
  BY <1>1, <1>2, PTL DEF SharedSpec

\* Each kind keeps its own discipline in the whole, with the lock as it is.
SharedInv ==
  /\ TypeOK
  /\ LockDiscipline
  /\ preparing \subseteq Client
  /\ \A s \in Server : s \in hid \cup adv \/ ask[s] # "none" => lock = s
  /\ settings # home => lock \in Server

\* Registrations, helpers and borrowed settings are under the one lock, whichever
\* program has them (lib.rs:471-527; hid-server.rs:11-17, 48-73).
THEOREM SharedDiscipline == SharedSpec => []SharedInv
<1> USE Kinds
<1>1. SharedSpec => []Attempts!IInv
  <2>1. Attempts!ConnectAssumption
    BY ConnectAssumption DEF Attempts!ConnectAssumption
  <2>2. QED
    BY <2>1, AttemptsUndisturbed, Attempts!Disciplined, PTL
<1>2. SharedSpec => []Runs!ServedUnderLock /\ []Runs!BorrowedUnderLock
  <2>1. Runs!ServerAssumption
    BY DEF Runs!ServerAssumption
  <2>2. QED
    BY <2>1, RunsUndisturbed, Runs!ServesUnderLock, Runs!BorrowsUnderLock, PTL
<1>3. Owners /\ Attempts!IInv /\ Runs!ServedUnderLock /\ Runs!BorrowedUnderLock => SharedInv
  <2> SUFFICES ASSUME Owners, Attempts!IInv, Runs!ServedUnderLock, Runs!BorrowedUnderLock
               PROVE  SharedInv
    OBVIOUS
  <2>1. TypeOK
    BY ConnectAssumption, SharedAssumption
       DEF Owners, TypeOK, Location, Timed, Awaiting, Cleanup, Result, Request, Adapter, Link,
           Attempts!IInv, Attempts!TypeOK, Attempts!Location, Attempts!Timed,
           Attempts!Awaiting, Attempts!Cleanup, Attempts!Result, Attempts!Request,
           Attempts!Adapter, Attempts!Link
  <2>2. LockDiscipline
    BY DEF LockDiscipline, Holding, Timed, Awaiting, Cleanup, Exposing, Linked,
           Attempts!IInv, Attempts!LockDiscipline, Attempts!Holding, Attempts!Timed,
           Attempts!Awaiting, Attempts!Cleanup, Attempts!Exposing, Attempts!Linked
  <2>3. preparing \subseteq Client
    BY <2>1 DEF TypeOK
  <2>4. \A s \in Server : s \in hid \cup adv \/ ask[s] # "none" => lock = s
    BY DEF Runs!ServedUnderLock
  <2>5. settings # home => lock \in Server
    BY DEF Runs!BorrowedUnderLock
  <2>6. QED
    BY <2>1, <2>2, <2>3, <2>4, <2>5 DEF SharedInv
<1>4. QED
  BY <1>1, <1>2, <1>3, OwnersAreKnown, PTL

\* While a pairing run has an application in BlueZ, which anybody may use, or has
\* borrowed the settings, no attempt exposes, prepares or holds anything
\* (hid-server.rs:11-17, 48-73; lib.rs:462-476, 526-527).
THEOREM PairingStaysAlone == SharedSpec => []PairingIsAlone
<1>1. SharedInv => PairingIsAlone
  <2> SUFFICES ASSUME SharedInv, NEW s \in Server,
                      s \in hid \cup adv \/ settings # home, NEW c \in Client
               PROVE  c \notin hid \cup adv /\ c \notin preparing /\ lock \notin Client
    BY DEF PairingIsAlone
  <2>1. lock \in Server
    BY DEF SharedInv
  <2>2. lock \notin Client
    BY <2>1, Kinds
  <2>3. QED
    BY <2>2 DEF SharedInv, LockDiscipline
<1>2. QED
  BY <1>1, SharedDiscipline, PTL

\* Attempts and pairing runs together never put two HID applications or two
\* advertisements into BlueZ (lib.rs:526-527; hid-server.rs:48-50).
THEOREM OneHidOfAll == SharedSpec => []OneHidAtATime
<1>1. Owners /\ SharedInv => OneHidAtATime
  <2> SUFFICES ASSUME Owners, SharedInv PROVE OneHidAtATime
    OBVIOUS
  <2>1. hid \subseteq {lock} /\ adv \subseteq {lock}
    BY DEF Owners, SharedInv, LockDiscipline
  <2>2. QED
    BY <2>1, AtMostOne DEF OneHidAtATime
<1>2. QED
  BY <1>1, OwnersAreKnown, SharedDiscipline, PTL

\* Attempts and pairing runs together implement HidSlot: whoever exposes or
\* prepares owns the slot, whichever program it is (lib.rs:471-527;
\* hid-server.rs:11-17, 48-50).
THEOREM SharedRefinement == SharedSpec => SlotSpec
<1> USE Kinds
<1>1. SharedInit => Slot!Init
  BY DEF SharedInit, Init, Slot!Init
<1>2. SharedInv /\ [SharedNext]_sharedVars => [Slot!Next]_(Slot!slotVars)
  <2> SUFFICES ASSUME SharedInv, [SharedNext]_sharedVars
               PROVE  Slot!Next \/ UNCHANGED <<lock, hid \cup adv, preparing>>
    BY DEF Slot!slotVars
  <2>1. CASE [Next]_vars
    BY <2>1, SlotStep DEF SharedInv
  <2>2. ASSUME NEW s \in Server, ServerAction(s), UNCHANGED <<clientVars, envVars>>
        PROVE  Slot!Next \/ UNCHANGED <<lock, hid \cup adv, preparing>>
    <3>0. s \in Holder /\ s \notin preparing /\ UNCHANGED preparing
      BY <2>2, SharedAssumption DEF SharedInv, clientVars
    <3> USE DEF Pairing!sharedVars
    <3>1. CASE Pairing!AcquireLock(s)
      <4>1. Slot!Take(s)
        BY <3>0, <3>1 DEF Pairing!AcquireLock, Slot!Take
      <4>2. QED
        BY <3>0, <4>1 DEF Slot!Next
    <3>2. CASE Pairing!BluezAnswers(s)
      <4>1. lock = s
        BY <3>2 DEF SharedInv, Pairing!BluezAnswers
      <4>2. Slot!Expose(s) \/ UNCHANGED <<lock, hid, adv, preparing>>
        BY <3>0, <3>2, <4>1 DEF Pairing!BluezAnswers, Slot!Expose
      <4>3. QED
        BY <3>0, <4>2 DEF Slot!Next
    <3>3. CASE Pairing!DropRuntime(s)
      <4>1. Slot!Withdraw(s)
        BY <3>0, <3>3 DEF Pairing!DropRuntime, Slot!Withdraw
      <4>2. QED
        BY <3>0, <4>1 DEF Slot!Next
    <3>4. ASSUME NEW how, Pairing!Gone(s, how) PROVE Slot!Next
      <4>1. CASE lock = s
        <5>1. Slot!Die(s)
          BY <3>0, <3>4, <4>1 DEF Pairing!Gone, Slot!Die
        <5>2. QED
          BY <3>0, <5>1 DEF Slot!Next
      <4>2. CASE lock # s
        <5>1. Slot!Withdraw(s)
          BY <3>0, <3>4, <4>2 DEF Pairing!Gone, Slot!Withdraw
        <5>2. QED
          BY <3>0, <5>1 DEF Slot!Next
      <4>3. QED
        BY <4>1, <4>2
    <3>5. CASE Pairing!ReadOriginals(s) \/ Pairing!Return(s) \/ Pairing!KillServer(s)
      BY <3>0, <3>4, <3>5 DEF Pairing!ReadOriginals, Pairing!Return, Pairing!KillServer
    <3>6. CASE \/ Pairing!Launch(s) \/ Pairing!ChangeSetting(s) \/ Pairing!TakeSignal(s)
               \/ Pairing!RestoreSetting(s) \/ Pairing!Register(s) \/ Pairing!Signal(s)
      BY <3>0, <3>6 DEF Pairing!Launch, Pairing!ChangeSetting, Pairing!TakeSignal,
         Pairing!RestoreSetting, Pairing!Register, Pairing!Signal
    <3>7. QED
      BY <2>2, <3>1, <3>2, <3>3, <3>5, <3>6 DEF ServerAction
  <2>3. QED
    BY <2>1, <2>2, SharedCases DEF Next, ClientNext, ClientAction, sharedVars
<1>3. QED
  BY <1>1, <1>2, SharedDiscipline, PTL DEF SharedSpec, SlotSpec, Slot!Spec

\* So of all the processes that share the lock at most one is exposed or working,
\* whatever their number and kind (the purpose of hci0.lock, README.md:44).
THEOREM OneAtATime == SharedSpec => []Slot!Exclusive
BY SharedRefinement, SlotIsExclusive, PTL
=============================================================================
