----------------------- MODULE ConnectAttemptProofs -------------------------
(***************************************************************************)
(* Proofs about ConnectAttempt, for any number of clients and any budget.  *)
(***************************************************************************)
EXTENDS ConnectAttempt, FiniteSetTheorems, TLAPS

\* An action of a client, whatever the client: the cases of the proofs below.
ClientAction(c) == Call(c) \/ Step(c) \/ Kill(c) \/ Bluez(c) \/ OrphanExits(c)

LEMMA NextCases ==
  ASSUME [Next]_vars
  PROVE  \/ \E c \in Client : ClientAction(c)
         \/ AdapterChanges \/ LinkChanges \/ Tick \/ UNCHANGED vars
  BY DEF Next, ClientNext, ClientAction

\* The variables always have the values their comments say.
THEOREM TypeCorrect == Spec => []TypeOK
<1>1. Init => TypeOK
  BY ConnectAssumption DEF Init, TypeOK, Location, Timed, Awaiting, Cleanup,
     Result, Request, Adapter, Link
<1>2. TypeOK /\ [Next]_vars => TypeOK'
  <2> SUFFICES ASSUME TypeOK, [Next]_vars PROVE TypeOK'
    OBVIOUS
  <2> USE ConnectAssumption
      DEF TypeOK, Location, Timed, Awaiting, Cleanup, Result, Request, Adapter, Link,
          clientVars, bluezVars, envVars, Goto, Finish
  <2>1. ASSUME NEW c \in Client, Call(c) PROVE TypeOK'
    BY <2>1 DEF Call
  <2>2. ASSUME NEW c \in Client, Step(c) PROVE TypeOK'
    <3>1. CASE FirstQuery(c)   BY <3>1 DEF FirstQuery, Verdict
    <3>2. CASE OpenLock(c)     BY <3>2 DEF OpenLock
    <3>3. CASE TryLock(c)      BY <3>3 DEF TryLock
    <3>4. CASE Recheck(c)      BY <3>4 DEF Recheck, Verdict
    <3>5. CASE WaitForAdapter(c) BY <3>5 DEF WaitForAdapter
    <3>6. CASE StrictQuery(c)  BY <3>6 DEF StrictQuery, Verdict
    <3>7. CASE SpawnHelper(c)  BY <3>7 DEF SpawnHelper
    <3>8. CASE HelperReaped(c) BY <3>8 DEF HelperReaped
    <3>9. CASE SendRegistration(c) BY <3>9 DEF SendRegistration, Asking
    <3>10. CASE RegistrationReply(c) BY <3>10 DEF RegistrationReply
    <3>11. CASE Poll(c)        BY <3>11 DEF Poll, Verdict
    <3>12. CASE Timeout(c)     BY <3>12 DEF Timeout
    <3>13. CASE Reap(c)        BY <3>13 DEF Reap
    <3>14. CASE CloseBus(c)    BY <3>14 DEF CloseBus
    <3>15. CASE Unlock(c)      BY <3>15 DEF Unlock
    <3>16. QED
      BY <2>2, <3>1, <3>2, <3>3, <3>4, <3>5, <3>6, <3>7, <3>8, <3>9, <3>10,
         <3>11, <3>12, <3>13, <3>14, <3>15 DEF Step
  <2>3. ASSUME NEW c \in Client, Kill(c) PROVE TypeOK'
    BY <2>3 DEF Kill
  <2>4. ASSUME NEW c \in Client, Bluez(c) PROVE TypeOK'
    BY <2>4 DEF Bluez, BluezAccepts, BluezRejects
  <2>5. ASSUME NEW c \in Client, OrphanExits(c) PROVE TypeOK'
    BY <2>5 DEF OrphanExits
  <2>6. CASE AdapterChanges
    BY <2>6 DEF AdapterChanges
  <2>7. CASE LinkChanges
    BY <2>7 DEF LinkChanges
  <2>8. CASE Tick
    BY <2>8 DEF Tick
  <2>9. CASE UNCHANGED vars
    BY <2>9 DEF vars
  <2>10. QED
    BY <2>1, <2>2, <2>3, <2>4, <2>5, <2>6, <2>7, <2>8, <2>9, NextCases DEF ClientAction
<1>3. QED
  BY <1>1, <1>2, PTL DEF Spec

-----------------------------------------------------------------------------

\* All that BlueZ holds here comes from these clients.
OwnersAreClients == hid \cup adv \subseteq Client

IInv == TypeOK /\ LockDiscipline /\ OwnersAreClients

\* What a client holds, asks for and runs is bound to where it is in the code.
THEOREM Disciplined == Spec => []IInv
<1>1. Init => IInv
  <2>1. Init => TypeOK
    BY ConnectAssumption DEF Init, TypeOK, Location, Timed, Awaiting, Cleanup,
       Result, Request, Adapter, Link
  <2>2. Init => LockDiscipline /\ OwnersAreClients
    BY ConnectAssumption DEF Init, LockDiscipline, OwnersAreClients, Holding, Timed, Awaiting
  <2>3. QED
    BY <2>1, <2>2 DEF IInv
<1>2. TypeOK /\ TypeOK' /\ IInv /\ [Next]_vars => IInv'
  <2> SUFFICES ASSUME TypeOK, TypeOK', IInv, [Next]_vars
               PROVE  LockDiscipline' /\ OwnersAreClients'
    BY DEF IInv
  <2> USE ConnectAssumption
      DEF IInv, TypeOK, LockDiscipline, OwnersAreClients, Holding, Exposing, Linked,
          Timed, Awaiting, Cleanup, clientVars, bluezVars, envVars, Goto, Finish
  <2>1. ASSUME NEW c \in Client, Call(c) PROVE LockDiscipline' /\ OwnersAreClients'
    BY <2>1 DEF Call
  <2>2. ASSUME NEW c \in Client, Step(c) PROVE LockDiscipline' /\ OwnersAreClients'
    <3>1. CASE FirstQuery(c)   BY <3>1 DEF FirstQuery
    <3>2. CASE OpenLock(c)     BY <3>2 DEF OpenLock
    <3>3. CASE TryLock(c)      BY <3>3 DEF TryLock
    <3>4. CASE Recheck(c)      BY <3>4 DEF Recheck
    <3>5. CASE WaitForAdapter(c) BY <3>5 DEF WaitForAdapter
    <3>6. CASE StrictQuery(c)  BY <3>6 DEF StrictQuery, Observation, Strict
    <3>7. CASE SpawnHelper(c)  BY <3>7 DEF SpawnHelper
    <3>8. CASE HelperReaped(c) BY <3>8 DEF HelperReaped
    <3>9. CASE SendRegistration(c) BY <3>9 DEF SendRegistration
    <3>10. CASE RegistrationReply(c) BY <3>10 DEF RegistrationReply
    <3>11. CASE Poll(c)        BY <3>11 DEF Poll
    <3>12. CASE Timeout(c)     BY <3>12 DEF Timeout
    <3>13. CASE Reap(c)        BY <3>13 DEF Reap
    <3>14. CASE CloseBus(c)    BY <3>14 DEF CloseBus
    <3>15. CASE Unlock(c)      BY <3>15 DEF Unlock
    <3>16. QED
      BY <2>2, <3>1, <3>2, <3>3, <3>4, <3>5, <3>6, <3>7, <3>8, <3>9, <3>10,
         <3>11, <3>12, <3>13, <3>14, <3>15 DEF Step
  <2>3. ASSUME NEW c \in Client, Kill(c) PROVE LockDiscipline' /\ OwnersAreClients'
    BY <2>3 DEF Kill
  <2>4. ASSUME NEW c \in Client, Bluez(c) PROVE LockDiscipline' /\ OwnersAreClients'
    BY <2>4 DEF Bluez, BluezAccepts, BluezRejects
  <2>5. ASSUME NEW c \in Client, OrphanExits(c) PROVE LockDiscipline' /\ OwnersAreClients'
    BY <2>5 DEF OrphanExits
  <2>6. CASE AdapterChanges
    BY <2>6 DEF AdapterChanges
  <2>7. CASE LinkChanges
    BY <2>7 DEF LinkChanges
  <2>8. CASE Tick
    BY <2>8 DEF Tick
  <2>9. CASE UNCHANGED vars
    BY <2>9 DEF vars
  <2>10. QED
    BY <2>1, <2>2, <2>3, <2>4, <2>5, <2>6, <2>7, <2>8, <2>9, NextCases DEF ClientAction
<1>3. QED
  BY <1>1, <1>2, TypeCorrect, PTL DEF Spec

\* Its readable part: the holder of the lock is in a place from which it gives
\* it back, and whatever a client has in use, it has under the lock.
THEOREM UnderTheLock == Spec => []LockDiscipline
<1>1. IInv => LockDiscipline
  BY DEF IInv
<1>2. QED
  BY <1>1, Disciplined, PTL

-----------------------------------------------------------------------------
(* The safety properties.                                                  *)

\* What a client has in BlueZ, or may still get, it has under the lock.
THEOREM RegistrationsNeedTheLock == Spec => []RegisteredUnderLock
<1>1. IInv => RegisteredUnderLock
  BY DEF IInv, LockDiscipline, RegisteredUnderLock
<1>2. QED
  BY <1>1, Disciplined, PTL

\* A preparation helper that still has its parent runs under the lock.
THEOREM PreparationNeedsTheLock == Spec => []PreparationUnderLock
<1>1. IInv => PreparationUnderLock
  BY DEF IInv, TypeOK, LockDiscipline, PreparationUnderLock
<1>2. QED
  BY <1>1, Disciplined, PTL

\* A set with no element but x has at most one.
LEMMA AtMostOne ==
  ASSUME NEW S, NEW x, S \subseteq {x}
  PROVE  Cardinality(S) <= 1
<1>1. IsFiniteSet({x}) /\ Cardinality({x}) = 1
  BY FS_Singleton
<1>2. Cardinality(S) <= Cardinality({x})
  BY <1>1, FS_Subset
<1>3. QED
  BY <1>1, <1>2

\* BlueZ never carries two HID applications or two advertisements at a time.
THEOREM OneHid == Spec => []OneHidAtATime
<1>1. IInv => OneHidAtATime
  <2> SUFFICES ASSUME IInv PROVE OneHidAtATime
    OBVIOUS
  <2>1. hid \subseteq {lock} /\ adv \subseteq {lock}
    BY DEF IInv, LockDiscipline, OwnersAreClients
  <2>2. QED
    BY <2>1, AtMostOne DEF OneHidAtATime
<1>2. QED
  BY <1>1, Disciplined, PTL

\* A call that is over holds, exposes, asks for and runs nothing.
THEOREM CleanExit == Spec => []NothingLeftBehind
<1>1. IInv => NothingLeftBehind
  BY DEF IInv, LockDiscipline, NothingLeftBehind, Holding, Timed, Awaiting, Cleanup, Exposing
<1>2. QED
  BY <1>1, Disciplined, PTL

\* No preparation, registration or advertisement over a link that was up when
\* the adapter was found ready and has stayed up.
THEOREM SparesALink == Spec => []NoAttemptOverALink
<1>1. IInv => NoAttemptOverALink
  BY DEF IInv, TypeOK, LockDiscipline, NoAttemptOverALink, Cleanup
<1>2. QED
  BY <1>1, Disciplined, PTL

-----------------------------------------------------------------------------
(* The action properties: no step breaks them, whatever the state.         *)

\* Only a step that sees the encrypted link makes a call answer true.
THEOREM TrueOnlyIfSeen == Spec => TrueIsSeen
<1> DEFINE Seen == \A c \in Client : result'[c] = "true" /\ result[c] # "true" => Linked
<1>1. TypeOK /\ [Next]_vars => [Seen]_vars
  <2> SUFFICES ASSUME TypeOK, [Next]_vars, UNCHANGED vars \/ Next,
                      NEW d \in Client, result'[d] = "true", result[d] # "true"
               PROVE  Linked
    BY DEF vars
  <2> USE DEF TypeOK, clientVars, bluezVars, envVars, Finish
  <2>1. ASSUME NEW c \in Client, ClientAction(c) PROVE Linked
    <3>1. CASE Call(c)         BY <3>1 DEF Call
    <3>2. CASE FirstQuery(c)   BY <3>2 DEF FirstQuery, Observation, Verdict
    <3>3. CASE Recheck(c)      BY <3>3 DEF Recheck, Observation, Verdict
    <3>4. CASE StrictQuery(c)  BY <3>4 DEF StrictQuery, Observation, Verdict
    <3>5. CASE Poll(c)         BY <3>5 DEF Poll, Observation, Verdict
    <3>6. CASE \/ OpenLock(c) \/ TryLock(c) \/ WaitForAdapter(c)
               \/ RegistrationReply(c) \/ Timeout(c) \/ Kill(c)
      BY <3>6 DEF OpenLock, TryLock, WaitForAdapter, RegistrationReply, Timeout, Kill
    <3>7. CASE \/ SpawnHelper(c) \/ HelperReaped(c) \/ SendRegistration(c)
               \/ Reap(c) \/ CloseBus(c) \/ Unlock(c) \/ Bluez(c) \/ OrphanExits(c)
      BY <3>7 DEF SpawnHelper, HelperReaped, SendRegistration, Reap, CloseBus, Unlock,
                  Bluez, BluezAccepts, BluezRejects, OrphanExits
    <3>8. QED
      BY <2>1, <3>1, <3>2, <3>3, <3>4, <3>5, <3>6, <3>7 DEF ClientAction, Step
  <2>2. CASE AdapterChanges \/ LinkChanges \/ Tick \/ UNCHANGED vars
    BY <2>2 DEF AdapterChanges, LinkChanges, Tick, vars
  <2>3. QED
    BY <2>1, <2>2, NextCases
<1>2. QED
  BY <1>1, TypeCorrect, PTL DEF Spec, TrueIsSeen

\* Nothing an attempt waits for gives it more time.
THEOREM OneBudgetPerCall == Spec => OneBudget
<1> DEFINE Spent == \A c \in Client :
             pc[c] \in Timed /\ pc'[c] \in Timed => left'[c] <= left[c]
<1>1. TypeOK /\ [Next]_vars => [Spent]_vars
  <2> SUFFICES ASSUME TypeOK, [Next]_vars, NEW d \in Client,
                      pc[d] \in Timed, pc'[d] \in Timed
               PROVE  left'[d] <= left[d]
    BY DEF vars
  <2> USE ConnectAssumption DEF TypeOK, clientVars, bluezVars, envVars
  <2>1. ASSUME NEW c \in Client, ClientAction(c) PROVE left'[d] <= left[d]
    <3>1. CASE OpenLock(c)
      BY <3>1 DEF OpenLock, Goto, Timed, Awaiting
    <3>2. CASE ~OpenLock(c)
      <4>1. left' = left
        BY <2>1, <3>2 DEF ClientAction, Step, Call, FirstQuery, TryLock, Recheck,
           WaitForAdapter, StrictQuery, SpawnHelper, HelperReaped, SendRegistration,
           RegistrationReply, Poll, Timeout, Reap, CloseBus, Unlock, Kill,
           Bluez, BluezAccepts, BluezRejects, OrphanExits
      <4>2. QED
        BY <4>1
    <3>3. QED
      BY <3>1, <3>2
  <2>2. CASE Tick
    BY <2>2 DEF Tick
  <2>3. CASE AdapterChanges \/ LinkChanges \/ UNCHANGED vars
    BY <2>3 DEF AdapterChanges, LinkChanges, vars
  <2>4. QED
    BY <2>1, <2>2, <2>3, NextCases
<1>2. QED
  BY <1>1, TypeCorrect, PTL DEF Spec, OneBudget

-----------------------------------------------------------------------------
(* Refinement.                                                             *)

\* Each step of the attempts is a step of the slot or none.
LEMMA SlotStep ==
  ASSUME TypeOK, LockDiscipline, [Next]_vars
  PROVE  Slot!Next \/ UNCHANGED <<lock, hid \cup adv, preparing>>
<1> USE ConnectAssumption
    DEF TypeOK, LockDiscipline, Holding, Timed, Awaiting, Cleanup, Exposing,
        clientVars, bluezVars, envVars, Goto, Finish
<1>1. ASSUME NEW c \in Client, ClientAction(c)
      PROVE  Slot!Next \/ UNCHANGED <<lock, hid \cup adv, preparing>>
  <2>0. c \in Holder
    OBVIOUS
  <2>1. CASE TryLock(c)
    <3>1. Slot!Take(c) \/ UNCHANGED <<lock, hid, adv, preparing>>
      BY <2>1 DEF TryLock, Slot!Take
    <3>2. QED
      BY <2>0, <3>1 DEF Slot!Next
  <2>2. CASE SpawnHelper(c)
    <3>1. Slot!Work(c) \/ UNCHANGED <<lock, hid, adv, preparing>>
      BY <2>2 DEF SpawnHelper, Slot!Work
    <3>2. QED
      BY <2>0, <3>1 DEF Slot!Next
  <2>3. CASE HelperReaped(c) \/ Reap(c)
    <3>1. Slot!StopWork(c) \/ UNCHANGED <<lock, hid, adv, preparing>>
      BY <2>3 DEF HelperReaped, Reap, Slot!StopWork
    <3>2. QED
      BY <2>0, <3>1 DEF Slot!Next
  <2>4. CASE CloseBus(c)
    <3>1. Slot!Withdraw(c)
      BY <2>4 DEF CloseBus, Slot!Withdraw
    <3>2. QED
      BY <2>0, <3>1 DEF Slot!Next
  <2>5. CASE Unlock(c)
    <3>1. Slot!Release(c) \/ UNCHANGED <<lock, hid, adv, preparing>>
      BY <2>5 DEF Unlock, Slot!Release
    <3>2. QED
      BY <2>0, <3>1 DEF Slot!Next
  <2>6. CASE Kill(c)
    <3>1. CASE lock = c
      <4>1. Slot!Die(c)
        BY <2>6, <3>1 DEF Kill, Slot!Die
      <4>2. QED
        BY <2>0, <4>1 DEF Slot!Next
    <3>2. CASE lock # c
      BY <2>6, <3>2 DEF Kill
    <3>3. QED
      BY <3>1, <3>2
  <2>7. CASE BluezAccepts(c)
    <3>1. Slot!Expose(c)
      BY <2>7 DEF BluezAccepts, Slot!Expose
    <3>2. QED
      BY <2>0, <3>1 DEF Slot!Next
  <2>8. CASE \/ Call(c) \/ FirstQuery(c) \/ OpenLock(c) \/ Recheck(c)
             \/ WaitForAdapter(c) \/ StrictQuery(c) \/ SendRegistration(c)
             \/ RegistrationReply(c) \/ Poll(c) \/ Timeout(c)
             \/ BluezRejects(c) \/ OrphanExits(c)
    BY <2>8 DEF Call, FirstQuery, OpenLock, Recheck, WaitForAdapter, StrictQuery,
       SendRegistration, RegistrationReply, Poll, Timeout, BluezRejects, OrphanExits
  <2>9. QED
    BY <1>1, <2>1, <2>2, <2>3, <2>4, <2>5, <2>6, <2>7, <2>8 DEF ClientAction, Step, Bluez
<1>2. CASE AdapterChanges
  BY <1>2 DEF AdapterChanges, Slot!Next, Slot!Lose
<1>3. CASE LinkChanges \/ Tick \/ UNCHANGED vars
  BY <1>3 DEF LinkChanges, Tick, vars
<1>4. QED
  BY <1>1, <1>2, <1>3, NextCases

\* The attempts implement HidSlot.
THEOREM Refinement == Spec => SlotSpec
<1>1. Init => Slot!Init
  BY DEF Init, Slot!Init
<1>2. IInv /\ [Next]_vars => [Slot!Next]_(Slot!slotVars)
  BY SlotStep DEF IInv, Slot!slotVars
<1>3. QED
  BY <1>1, <1>2, Disciplined, PTL DEF Spec, SlotSpec, Slot!Spec

\* Nobody who does not own the slot is exposed or working; so at most one user
\* is, whatever the number of users (the purpose of hci0.lock, README.md:44).
THEOREM SlotIsExclusive == SlotSpec => []Slot!Exclusive
<1> USE ConnectAssumption DEF Slot!Exclusive
<1> DEFINE Empty == Nobody \notin hid \cup adv \cup preparing
           Strong == Slot!Exclusive /\ Empty
<1>1. Slot!Init => Strong
  BY DEF Slot!Init
<1>2. Strong /\ [Slot!Next]_(Slot!slotVars) => Strong'
  <2> SUFFICES ASSUME Strong, [Slot!Next]_(Slot!slotVars) PROVE Strong'
    OBVIOUS
  <2>1. ASSUME NEW u \in Holder, Slot!Take(u) \/ Slot!Expose(u) \/ Slot!Work(u)
        PROVE  Strong'
    BY <2>1 DEF Slot!Take, Slot!Expose, Slot!Work
  <2>2. ASSUME NEW u \in Holder,
               Slot!Withdraw(u) \/ Slot!StopWork(u) \/ Slot!Release(u) \/ Slot!Die(u)
        PROVE  Strong'
    BY <2>2 DEF Slot!Withdraw, Slot!StopWork, Slot!Release, Slot!Die
  <2>3. CASE Slot!Lose
    BY <2>3 DEF Slot!Lose
  <2>4. CASE UNCHANGED Slot!slotVars
    BY <2>4 DEF Slot!slotVars
  <2>5. QED
    BY <2>1, <2>2, <2>3, <2>4 DEF Slot!Next
<1>3. QED
  BY <1>1, <1>2, PTL DEF SlotSpec, Slot!Spec
=============================================================================
