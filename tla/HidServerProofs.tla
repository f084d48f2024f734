-------------------------- MODULE HidServerProofs ---------------------------
(***************************************************************************)
(* The pairing helper gives back what it borrows, for any number of runs:  *)
(* the lock keeps other runs off the adapter's settings, and within a run  *)
(* each restoration leaves the earlier ones alone.                         *)
(***************************************************************************)
EXTENDS HidServer, TLAPS

ServerAction(s) ==
  \/ Launch(s) \/ AcquireLock(s)
  \/ ReadOriginals(s) \/ ChangeSetting(s) \/ TakeSignal(s) \/ DropRuntime(s)
  \/ RestoreSetting(s) \/ Return(s)
  \/ Register(s) \/ BluezAnswers(s) \/ Signal(s) \/ KillServer(s)

\* The steps of the specification, one by one.
LEMMA NextCases ==
  ASSUME [Next]_vars
  PROVE  (\E s \in Server : ServerAction(s)) \/ AdapterLost \/ UNCHANGED vars
BY DEF Next, ServerNext, ServerAction, Work

-----------------------------------------------------------------------------

\* A property call changes its property, and only Discoverable takes another,
\* Connectable, along.
LEMMA WrittenOnly ==
  ASSUME settings \in [Property -> BOOLEAN],
         NEW p \in Property, NEW v \in BOOLEAN, NEW new \in Written(p, v)
  PROVE  /\ new \in [Property -> BOOLEAN]
         /\ new[p] = v
         /\ \A q \in Property : q # p /\ ~(p = "Discoverable" /\ q = "Connectable")
              => new[q] = settings[q]
BY DEF Written, Affected, Property

\* One that fails did what it should, or nothing.
LEMMA MaybeWrittenOnly ==
  ASSUME settings \in [Property -> BOOLEAN],
         NEW p \in Property, NEW v \in BOOLEAN, NEW new \in MaybeWritten(p, v)
  PROVE  /\ new \in [Property -> BOOLEAN]
         /\ \A q \in Property : q # p /\ ~(p = "Discoverable" /\ q = "Connectable")
              => new[q] = settings[q]
BY WrittenOnly DEF MaybeWritten

\* The orders in which settings are changed and restored.
LEMMA Orders ==
  /\ Len(Setup) = 3 /\ Len(Restore) = 4
  /\ Setup[1] = "Discoverable" /\ Setup[2] = "PairableTimeout" /\ Setup[3] = "Pairable"
  /\ Restore[1] = "Pairable" /\ Restore[2] = "Discoverable"
  /\ Restore[3] = "Connectable" /\ Restore[4] = "PairableTimeout"
BY DEF Setup, Restore

LEMMA CallsOfSetup ==
  ASSUME NEW i \in 1..3
  PROVE  Setup[i] \in Property
BY Orders DEF Property

LEMMA CallsOfRestore ==
  ASSUME NEW i \in 1..4
  PROVE  Restore[i] \in Property
BY Orders DEF Property

-----------------------------------------------------------------------------

\* The setup has a setting to change.
InSetup == \A s \in Server :
  /\ spc[s] \in {"off", "wait", "read"} => at[s] = 1
  /\ spc[s] = "setup" => at[s] \in 1..3

\* The variables stay in their types; no run works past the end of its lists.
THEOREM TypeCorrect == Spec => [](TypeOK /\ InSetup)
<1> USE ServerAssumption, Orders
<1>1. Init => TypeOK /\ InSetup
  BY DEF Init, ServerInit, TypeOK, ServerTypeOK, InSetup, Place, Modifying, Waiting, Exit,
         Blank, Property
<1>2. TypeOK /\ InSetup /\ [Next]_vars => (TypeOK /\ InSetup)'
  <2> SUFFICES ASSUME TypeOK, InSetup, [Next]_vars PROVE TypeOK' /\ InSetup'
    OBVIOUS
  <2> USE DEF TypeOK, ServerTypeOK, InSetup, Place, Modifying, Waiting, Exit, sharedVars,
              Move, Restart, Advance
  <2>1. ASSUME NEW s \in Server, ServerAction(s) PROVE TypeOK' /\ InSetup'
    <3>1. CASE Launch(s)
      BY <3>1 DEF Launch
    <3>2. CASE AcquireLock(s)
      BY <3>2 DEF AcquireLock
    <3>3. CASE ReadOriginals(s)
      <4>1. CASE Gone(s, "error")
        BY <3>3, <4>1 DEF ReadOriginals, Gone, Blank
      <4>2. CASE /\ saved' = [saved EXCEPT ![s] = settings]
                 /\ Move(s, "setup")
                 /\ UNCHANGED <<at, failed, ask, signalled, broken, exit, home, lock, hid, adv>>
        BY <3>3, <4>2 DEF ReadOriginals
      <4>3. QED
        BY <3>3, <4>1, <4>2 DEF ReadOriginals
    <3>4. CASE ChangeSetting(s)
      <4>1. at[s] \in 1..3 /\ Setup[at[s]] \in Property
        BY <3>4, CallsOfSetup DEF ChangeSetting
      <4>0. Wanted(Setup[at[s]]) \in BOOLEAN
        BY Zenon DEF Wanted
      <4>2. settings' \in MaybeWritten(Setup[at[s]], Wanted(Setup[at[s]]))
        BY <3>4 DEF ChangeSetting, MaybeWritten
      <4>3. settings' \in [Property -> BOOLEAN]
        BY <4>1, <4>0, <4>2, MaybeWrittenOnly
      <4>4. /\ spc' \in [Server -> Place] /\ broken' \subseteq Server
            /\ at' \in [Server -> 1..5] /\ InSetup'
        <5>1. CASE /\ at' = [at EXCEPT ![s] = @ + 1] /\ broken' = broken
                   /\ spc' = [spc EXCEPT ![s] = IF at[s] = 3 THEN "register" ELSE "setup"]
          BY <4>1, <5>1
        <5>2. CASE /\ at' = at /\ broken' = broken \cup {s}
                   /\ spc' = [spc EXCEPT ![s] = "drop"]
          BY <4>1, <5>2
        <5>3. QED
          BY <3>4, <5>1, <5>2 DEF ChangeSetting
      <4>5. UNCHANGED <<saved, failed, ask, signalled, exit, home, lock, hid, adv>>
        BY <3>4 DEF ChangeSetting
      <4>6. QED
        BY <4>3, <4>4, <4>5
    <3>5. CASE TakeSignal(s)
      BY <3>5 DEF TakeSignal
    <3>6. CASE DropRuntime(s)
      BY <3>6 DEF DropRuntime
    <3>7. CASE RestoreSetting(s)
      <4>1. at[s] \in 1..4 /\ Restore[at[s]] \in Property
        BY <3>7, CallsOfRestore DEF RestoreSetting
      <4>2. saved[s][Restore[at[s]]] \in BOOLEAN
        BY <4>1
      <4>3. /\ settings' \in MaybeWritten(Restore[at[s]], saved[s][Restore[at[s]]])
            /\ failed' \in [Server -> SUBSET Property]
        BY <3>7, <4>1 DEF RestoreSetting, MaybeWritten
      <4>4. settings' \in [Property -> BOOLEAN]
        BY <4>1, <4>2, <4>3, MaybeWrittenOnly
      <4>5. at' \in [Server -> 1..5] /\ InSetup'
        BY <3>7, <4>1 DEF RestoreSetting
      <4>6. UNCHANGED <<spc, saved, ask, signalled, broken, exit, home, lock, hid, adv>>
        BY <3>7 DEF RestoreSetting
      <4>7. QED
        BY <4>3, <4>4, <4>5, <4>6
    <3>8. CASE Return(s)
      BY <3>8 DEF Return, Gone, Blank
    <3>9. CASE Register(s)
      <4>1. /\ spc[s] \in {"register", "advertise"}
            /\ UNCHANGED <<at, saved, failed, signalled, exit, settings, home, lock, hid, adv>>
        BY <3>9 DEF Register
      <4>2. CASE /\ ask' = [ask EXCEPT ![s] = IF spc[s] = "register" THEN "app" ELSE "adv"]
                 /\ UNCHANGED <<spc, broken>>
        BY <4>1, <4>2
      <4>3. CASE /\ ask' = [ask EXCEPT ![s] = "none"] /\ broken' = broken
                 /\ spc' = [spc EXCEPT ![s] = IF spc[s] = "register" THEN "advertise" ELSE "serving"]
        BY <4>1, <4>3
      <4>4. CASE /\ ask' = [ask EXCEPT ![s] = "none"] /\ broken' = broken \cup {s}
                 /\ spc' = [spc EXCEPT ![s] = "drop"]
        BY <4>1, <4>4
      <4>5. QED
        BY <3>9, <4>2, <4>3, <4>4 DEF Register
    <3>10. CASE BluezAnswers(s)
      BY <3>10 DEF BluezAnswers
    <3>11. CASE Signal(s)
      BY <3>11 DEF Signal
    <3>12. CASE KillServer(s)
      BY <3>12 DEF KillServer, Gone, Blank
    <3>13. QED
      BY <2>1, <3>1, <3>2, <3>3, <3>4, <3>5, <3>6, <3>7, <3>8, <3>9, <3>10, <3>11, <3>12
         DEF ServerAction
  <2>2. CASE AdapterLost
    BY <2>2 DEF AdapterLost, serverVars
  <2>3. CASE UNCHANGED vars
    BY <2>3 DEF vars, serverVars
  <2>4. QED
    BY <2>1, <2>2, <2>3, NextCases
<1>3. QED
  BY <1>1, <1>2, PTL DEF Spec

-----------------------------------------------------------------------------
(* The lock.                                                               *)

Inside == {"read"} \cup Modifying

\* A run holds the lock exactly where it works, has registrations, or may still
\* get them, only there and before it restores, and has not ended before it is over.
Exclusion == \A s \in Server :
  /\ lock = s <=> spc[s] \in Inside
  /\ s \in hid \cup adv \/ ask[s] # "none" => spc[s] \in Waiting \cup {"drop"}
  /\ spc[s] # "off" => exit[s] = "none"

\* The helper's runs exclude one another, and none serves without the lock.
THEOREM RunsExclude == Spec => []Exclusion
<1> USE ServerAssumption
<1>1. Init => Exclusion
  <2> SUFFICES ASSUME Init, NEW s \in Server
               PROVE  /\ lock # s /\ spc[s] = "off"
                      /\ s \notin hid \cup adv /\ ask[s] = "none"
    BY DEF Exclusion, Inside, Modifying, Waiting
  <2>1. QED
    BY DEF Init, ServerInit
<1>2. TypeOK /\ Exclusion /\ [Next]_vars => Exclusion'
  <2> SUFFICES ASSUME TypeOK, Exclusion, [Next]_vars PROVE Exclusion'
    OBVIOUS
  <2> USE DEF TypeOK, ServerTypeOK, Exclusion, Inside, Place, Modifying, Waiting, sharedVars, Move
  <2>1. ASSUME NEW s \in Server, ServerAction(s) PROVE Exclusion'
    <3>1. CASE Launch(s)
      BY <3>1 DEF Launch
    <3>2. CASE AcquireLock(s)
      BY <3>2 DEF AcquireLock
    <3>3. CASE ReadOriginals(s)
      BY <3>3 DEF ReadOriginals, Gone
    <3>4. CASE ChangeSetting(s)
      BY <3>4 DEF ChangeSetting
    <3>5. CASE TakeSignal(s)
      BY <3>5 DEF TakeSignal
    <3>6. CASE DropRuntime(s)
      BY <3>6 DEF DropRuntime
    <3>7. CASE RestoreSetting(s)
      BY <3>7 DEF RestoreSetting
    <3>8. CASE Return(s)
      BY <3>8 DEF Return, Gone
    <3>9. CASE Register(s)
      BY <3>9 DEF Register
    <3>10. CASE BluezAnswers(s)
      BY <3>10 DEF BluezAnswers
    <3>11. CASE Signal(s)
      BY <3>11 DEF Signal
    <3>12. CASE KillServer(s)
      BY <3>12 DEF KillServer, Gone
    <3>13. QED
      BY <2>1, <3>1, <3>2, <3>3, <3>4, <3>5, <3>6, <3>7, <3>8, <3>9, <3>10, <3>11, <3>12
         DEF ServerAction
  <2>2. CASE AdapterLost
    BY <2>2 DEF AdapterLost, serverVars
  <2>3. CASE UNCHANGED vars
    BY <2>3 DEF vars, serverVars
  <2>4. QED
    BY <2>1, <2>2, <2>3, NextCases
<1>3. QED
  BY <1>1, <1>2, TypeCorrect, PTL DEF Spec

\* Whatever is registered, or may still be, is so under the lock.
THEOREM ServesUnderLock == Spec => []ServedUnderLock
<1>1. Exclusion => ServedUnderLock
  BY DEF Exclusion, ServedUnderLock, Inside, Modifying, Waiting
<1>2. QED
  BY <1>1, RunsExclude, PTL

-----------------------------------------------------------------------------
(* The settings.                                                           *)

Quiet == settings["Pairable"] = TRUE /\ settings["Discoverable"] = FALSE
           /\ settings["PairableTimeout"] = FALSE

\* The settings are out of place only while a run has them.
Borrowed == settings # home => \E s \in Server : spc[s] \in Modifying

\* It knows how they were; what it has set is set, and stays so as long as anything
\* of it is in BlueZ; what it has restored, and does not report, is restored.
Lent(s) ==
  /\ spc[s] \in Modifying => saved[s] = home
  /\ spc[s] = "setup" /\ at[s] >= 2 => settings["Discoverable"] = FALSE
  /\ spc[s] = "setup" /\ at[s] >= 3 => settings["PairableTimeout"] = FALSE
  /\ spc[s] \in Waiting \/ s \in hid \cup adv \/ ask[s] # "none" => Quiet
  /\ spc[s] = "restore" => \A i \in 1..4 :
       i < at[s] /\ Restore[i] \notin failed[s] => settings[Restore[i]] = saved[s][Restore[i]]

Lending == Borrowed /\ \A s \in Server : Lent(s)

\* No two runs are inside at once.
LEMMA Alone ==
  ASSUME Exclusion, NEW s \in Server, spc[s] \in Inside, NEW t \in Server, t # s
  PROVE  spc[t] \notin Inside
BY DEF Exclusion

\* A step of one run leaves the others where they are.
LEMMA OthersStay ==
  ASSUME TypeOK, NEW s \in Server, ServerAction(s), NEW t \in Server, t # s
  PROVE  /\ UNCHANGED <<spc[t], at[t], saved[t], failed[t], ask[t]>>
         /\ t \in hid' <=> t \in hid
         /\ t \in adv' <=> t \in adv
<1> USE DEF TypeOK, ServerTypeOK, sharedVars, Move, Restart, Advance
<1>1. CASE Launch(s) \/ AcquireLock(s)
  BY <1>1 DEF Launch, AcquireLock
<1>2. CASE ReadOriginals(s) \/ Return(s) \/ KillServer(s)
  BY <1>2 DEF ReadOriginals, Return, KillServer, Gone
<1>3. CASE ChangeSetting(s) \/ RestoreSetting(s)
  BY <1>3 DEF ChangeSetting, RestoreSetting
<1>4. CASE TakeSignal(s) \/ DropRuntime(s) \/ Signal(s)
  BY <1>4 DEF TakeSignal, DropRuntime, Signal
<1>5. CASE Register(s) \/ BluezAnswers(s)
  BY <1>5 DEF Register, BluezAnswers
<1>6. QED
  BY <1>1, <1>2, <1>3, <1>4, <1>5 DEF ServerAction

\* Only a run that is set to put them back touches the settings.
LEMMA OnlyBorrowers ==
  ASSUME NEW s \in Server, ServerAction(s), ~UNCHANGED <<settings, home>>
  PROVE  spc[s] \in Modifying
<1> USE DEF Modifying, Waiting, sharedVars
<1>1. CASE Launch(s) \/ AcquireLock(s)
  BY <1>1 DEF Launch, AcquireLock
<1>2. CASE ReadOriginals(s) \/ Return(s) \/ KillServer(s)
  BY <1>2 DEF ReadOriginals, Return, KillServer, Gone
<1>3. CASE ChangeSetting(s) \/ RestoreSetting(s)
  BY <1>3 DEF ChangeSetting, RestoreSetting
<1>4. CASE TakeSignal(s) \/ DropRuntime(s) \/ Signal(s)
  BY <1>4 DEF TakeSignal, DropRuntime, Signal
<1>5. CASE Register(s) \/ BluezAnswers(s)
  BY <1>5 DEF Register, BluezAnswers
<1>6. QED
  BY <1>1, <1>2, <1>3, <1>4, <1>5 DEF ServerAction

\* After the last restoration everything is as it was, but for what is reported.
LEMMA AllRestored ==
  ASSUME TypeOK, Lending, NEW s \in Server, spc[s] = "restore", at[s] > 4
  PROVE  /\ \A p \in Property \ failed[s] : settings[p] = home[p]
         /\ failed[s] = {} => settings = home
<1>1. saved[s] = home
  BY DEF Lending, Lent, Modifying
<1>2. \A i \in 1..4 : i < at[s]
  BY DEF TypeOK, ServerTypeOK
<1>3. \A i \in 1..4 : Restore[i] \notin failed[s] => settings[Restore[i]] = home[Restore[i]]
  BY <1>1, <1>2 DEF Lending, Lent
<1>4. \A p \in Property : \E i \in 1..4 : p = Restore[i]
  BY Orders DEF Property
<1>5. \A p \in Property \ failed[s] : settings[p] = home[p]
  BY <1>3, <1>4
<1>6. settings \in [Property -> BOOLEAN] /\ home \in [Property -> BOOLEAN]
  BY DEF TypeOK, ServerTypeOK
<1>7. failed[s] = {} => settings = home
  BY <1>5, <1>6
<1>8. QED
  BY <1>5, <1>7

\* What is lent stays so, and is given back.
THEOREM SettingsAreLent == Spec => []Lending
<1> USE ServerAssumption
<1> DEFINE IInv == TypeOK /\ InSetup /\ Exclusion /\ Lending
<1>1. Init => Lending
  <2> SUFFICES ASSUME Init PROVE settings = home /\ \A s \in Server :
                 spc[s] = "off" /\ s \notin hid \cup adv /\ ask[s] = "none"
    BY DEF Lending, Borrowed, Lent, Modifying, Waiting
  <2>1. QED
    BY DEF Init, ServerInit
<1>2. IInv /\ (TypeOK /\ InSetup /\ Exclusion)' /\ [Next]_vars => Lending'
  <2> SUFFICES ASSUME TypeOK, InSetup, Exclusion, Lending, TypeOK', Exclusion', [Next]_vars
               PROVE  Lending'
    OBVIOUS
  <2>1. ASSUME NEW s \in Server, ServerAction(s) PROVE Lending'
    <3>1. ASSUME NEW t \in Server, t # s PROVE Lent(t)'
      <4>1. /\ UNCHANGED <<spc[t], at[t], saved[t], failed[t], ask[t]>>
            /\ t \in hid' <=> t \in hid
            /\ t \in adv' <=> t \in adv
        BY <2>1, <3>1, OthersStay
      <4>2. CASE UNCHANGED <<settings, home>>
        BY <4>1, <4>2 DEF Lending, Lent, Quiet
      <4>3. CASE ~UNCHANGED <<settings, home>>
        <5>1. spc[s] \in Inside
          BY <2>1, <4>3, OnlyBorrowers DEF Inside
        <5>2. spc[t] \notin Inside
          BY <3>1, <5>1, Alone
        <5>3. QED
          BY <4>1, <5>2 DEF Exclusion, Inside, Modifying, Waiting, Lent
      <4>4. QED
        BY <4>2, <4>3
    <3>2. ASSUME Lent(s)', Borrowed' PROVE Lending'
      BY <3>1, <3>2 DEF Lending
    <3> USE DEF TypeOK, ServerTypeOK, sharedVars, Move, Restart, Advance
    <3>3. ASSUME spc[s] \notin Modifying, UNCHANGED <<settings, home>> PROVE Borrowed'
      <4>1. CASE settings = home
        BY <3>3, <4>1 DEF Borrowed
      <4>2. CASE settings # home
        <5>1. PICK r \in Server : spc[r] \in Modifying
          BY <4>2 DEF Lending, Borrowed
        <5>2. r # s
          BY <3>3, <5>1
        <5>3. spc'[r] = spc[r]
          BY <2>1, <5>2, OthersStay
        <5>4. QED
          BY <5>1, <5>3 DEF Borrowed
      <4>3. QED
        BY <4>1, <4>2
    <3>4. ASSUME spc'[s] \in Modifying PROVE Borrowed'
      BY <3>4 DEF Borrowed
    <3>5. ASSUME settings' = home' PROVE Borrowed'
      BY <3>5 DEF Borrowed
    <3>6. CASE Launch(s) \/ AcquireLock(s)
      <4>1. spc[s] \notin Modifying /\ UNCHANGED <<settings, home, hid, adv, ask>>
        BY <3>6 DEF Launch, AcquireLock, Modifying, Waiting
      <4>2. spc[s] \in {"off", "wait"} /\ spc'[s] \in {"wait", "read"}
        BY <3>6 DEF Launch, AcquireLock
      <4>3. s \notin hid \cup adv /\ ask[s] = "none"
        BY <4>2 DEF Exclusion, Waiting
      <4>4. Lent(s)'
        BY <4>1, <4>2, <4>3 DEF Lent, Modifying, Waiting
      <4>5. QED
        BY <3>2, <3>3, <4>1, <4>4
    <3>7. CASE ReadOriginals(s)
      <4>1. spc[s] = "read" /\ at[s] = 1 /\ settings' = settings /\ home' = home
        BY <3>7 DEF ReadOriginals, Gone, Modifying, Waiting, InSetup
      <4>2. \A t \in Server : spc[t] \notin Modifying
        BY <4>1, Alone DEF Inside, Modifying, Waiting
      <4>3. settings = home
        BY <4>2 DEF Lending, Borrowed
      <4>4. s \notin hid' \cup adv' /\ ask'[s] = "none"
        <5>1. s \notin hid \cup adv /\ ask[s] = "none"
          BY <4>1 DEF Exclusion, Waiting
        <5>2. QED
          BY <3>7, <5>1 DEF ReadOriginals, Gone
      <4>5. \/ spc'[s] = "off"
            \/ spc'[s] = "setup" /\ saved'[s] = settings /\ at'[s] = 1
        BY <3>7, <4>1 DEF ReadOriginals, Gone
      <4>6. Lent(s)'
        BY <4>1, <4>3, <4>4, <4>5 DEF Lent, Modifying, Waiting
      <4>7. QED
        BY <3>2, <3>5, <4>1, <4>3, <4>6
    <3>8. CASE Return(s) \/ KillServer(s)
      <4>1. spc'[s] = "off" /\ s \notin hid' \cup adv' /\ ask'[s] = "none" /\ settings' = settings
        BY <3>8 DEF Return, KillServer, Gone
      <4>2. Lent(s)'
        BY <4>1 DEF Lent, Modifying, Waiting
      <4>3. CASE spc[s] \notin Modifying
        BY <3>2, <3>3, <3>8, <4>2, <4>3 DEF Return, KillServer, Gone
      <4>4. CASE home' = settings
        BY <3>2, <3>5, <4>1, <4>2, <4>4
      <4>5. CASE spc[s] \in Modifying /\ home' # settings
        <5>1. Return(s) /\ failed[s] = {} /\ home' = home
          BY <3>8, <4>5 DEF Return, KillServer, Gone
        <5>2. spc[s] = "restore" /\ at[s] > 4
          BY <5>1, Orders DEF Return
        <5>3. settings = home
          BY <5>1, <5>2, AllRestored
        <5>4. QED
          BY <4>5, <5>1, <5>3
      <4>6. QED
        BY <4>3, <4>4, <4>5
    <3>9. CASE ChangeSetting(s)
      <4>1. /\ at[s] \in 1..3 /\ Setup[at[s]] \in Property /\ spc[s] = "setup"
            /\ s \notin hid' \cup adv' /\ ask'[s] = "none"
        BY <3>9, CallsOfSetup DEF ChangeSetting, InSetup, Exclusion, Waiting
      <4>2. saved'[s] = home' /\ home' = home
        BY <3>9, <4>1 DEF ChangeSetting, Lending, Lent, Modifying
      <4>3. CASE spc'[s] = "drop"
        <5>1. Lent(s)'
          BY <4>1, <4>2, <4>3 DEF Lent, Waiting
        <5>2. QED
          BY <3>2, <3>4, <4>3, <5>1 DEF Modifying
      <4>4. CASE spc'[s] # "drop"
        <5>1. /\ settings' \in Written(Setup[at[s]], Wanted(Setup[at[s]]))
              /\ at'[s] = at[s] + 1
              /\ spc'[s] = IF at[s] = 3 THEN "register" ELSE "setup"
          BY <3>9, <4>1, <4>4, Orders DEF ChangeSetting
        <5>2. Wanted(Setup[at[s]]) \in BOOLEAN
          BY Zenon DEF Wanted
        <5>3. /\ settings'[Setup[at[s]]] = Wanted(Setup[at[s]])
              /\ \A q \in Property :
                   q # Setup[at[s]] /\ ~(Setup[at[s]] = "Discoverable" /\ q = "Connectable")
                     => settings'[q] = settings[q]
          BY <4>1, <5>1, <5>2, WrittenOnly
        <5>4. CASE at[s] = 1
          <6>1. settings'["Discoverable"] = FALSE
            BY <5>3, <5>4, Orders DEF Wanted
          <6>2. Lent(s)'
            BY <4>1, <4>2, <5>1, <5>4, <6>1 DEF Lent, Waiting
          <6>3. QED
            BY <3>2, <3>4, <5>1, <5>4, <6>2 DEF Modifying
        <5>5. CASE at[s] = 2
          <6>1. settings'["PairableTimeout"] = FALSE
            BY <5>3, <5>5, Orders DEF Wanted
          <6>2. settings'["Discoverable"] = FALSE
            BY <4>1, <5>3, <5>5, Orders DEF Property, Lending, Lent
          <6>3. Lent(s)'
            BY <4>1, <4>2, <5>1, <5>5, <6>1, <6>2 DEF Lent, Waiting
          <6>4. QED
            BY <3>2, <3>4, <5>1, <5>5, <6>3 DEF Modifying
        <5>6. CASE at[s] = 3
          <6>1. settings'["Pairable"] = TRUE
            BY <5>3, <5>6, Orders DEF Wanted
          <6>2. settings'["Discoverable"] = FALSE /\ settings'["PairableTimeout"] = FALSE
            BY <4>1, <5>3, <5>6, Orders DEF Property, Lending, Lent
          <6>3. Lent(s)'
            BY <4>1, <4>2, <5>1, <5>6, <6>1, <6>2 DEF Lent, Quiet, Waiting
          <6>4. QED
            BY <3>2, <3>4, <5>1, <5>6, <6>3 DEF Modifying, Waiting
        <5>7. QED
          BY <4>1, <5>4, <5>5, <5>6
      <4>5. QED
        BY <4>3, <4>4
    <3>10. CASE RestoreSetting(s)
      <4>1. /\ at[s] \in 1..4 /\ Restore[at[s]] \in Property
            /\ spc[s] = "restore" /\ spc'[s] = "restore" /\ at'[s] = at[s] + 1
            /\ UNCHANGED <<saved, home, hid, adv, ask>>
        BY <3>10, CallsOfRestore, Orders DEF RestoreSetting
      <4>0. s \notin hid' \cup adv' /\ ask'[s] = "none"
        BY <4>1 DEF Exclusion, Waiting
      <4>2. saved[s] = home /\ saved[s][Restore[at[s]]] \in BOOLEAN
        BY <4>1 DEF Lending, Lent, Modifying
      <4>3. /\ failed[s] \subseteq failed'[s]
            /\ \/ settings' \in Written(Restore[at[s]], saved[s][Restore[at[s]]])
               \/ /\ settings' \in MaybeWritten(Restore[at[s]], saved[s][Restore[at[s]]])
                  /\ Restore[at[s]] \in failed'[s]
        BY <3>10 DEF RestoreSetting
      <4>4. /\ \/ settings'[Restore[at[s]]] = saved[s][Restore[at[s]]]
               \/ Restore[at[s]] \in failed'[s]
            /\ \A q \in Property :
                 q # Restore[at[s]] /\ ~(Restore[at[s]] = "Discoverable" /\ q = "Connectable")
                   => settings'[q] = settings[q]
        BY <4>1, <4>2, <4>3, WrittenOnly, MaybeWrittenOnly
      <4>5. ASSUME NEW i \in 1..4, i < at'[s], Restore[i] \notin failed'[s]
            PROVE  settings'[Restore[i]] = saved[s][Restore[i]]
        <5>1. CASE i = at[s]
          BY <4>4, <4>5, <5>1
        <5>2. CASE i < at[s]
          <6>1. settings[Restore[i]] = saved[s][Restore[i]]
            BY <4>1, <4>3, <4>5, <5>2 DEF Lending, Lent
          <6>2. /\ Restore[i] \in Property /\ Restore[i] # Restore[at[s]]
                /\ ~(Restore[at[s]] = "Discoverable" /\ Restore[i] = "Connectable")
            BY <4>1, <5>2, Orders DEF Property
          <6>3. QED
            BY <4>4, <6>1, <6>2
        <5>3. QED
          BY <4>1, <4>5, <5>1, <5>2
      <4>6. Lent(s)'
        BY <4>0, <4>1, <4>2, <4>5 DEF Lent, Waiting
      <4>7. QED
        BY <3>2, <3>4, <4>1, <4>6 DEF Modifying
    <3>11. CASE TakeSignal(s) \/ DropRuntime(s) \/ Signal(s)
      <4>1. /\ spc[s] \in Modifying /\ spc'[s] \in Modifying
            /\ saved' = saved /\ home' = home /\ settings' = settings
        BY <3>11 DEF TakeSignal, DropRuntime, Signal, Modifying, Waiting
      <4>2. Lent(s)'
        <5>1. CASE TakeSignal(s)
          BY <4>1, <5>1 DEF TakeSignal, Lending, Lent, Quiet, Waiting
        <5>2. CASE DropRuntime(s)
          BY <4>1, <5>2 DEF DropRuntime, Lending, Lent, Quiet, Waiting
        <5>3. CASE Signal(s)
          BY <4>1, <5>3 DEF Signal, Lending, Lent, Quiet, Waiting
        <5>4. QED
          BY <3>11, <5>1, <5>2, <5>3
      <4>3. QED
        BY <3>2, <3>4, <4>1, <4>2
    <3>12. CASE Register(s) \/ BluezAnswers(s)
      <4>1. /\ spc[s] \in Waiting \cup {"drop"} /\ spc'[s] \in Waiting \cup {"drop"}
            /\ saved' = saved /\ home' = home /\ settings' = settings
        BY <3>12 DEF Register, BluezAnswers, Exclusion, Waiting
      <4>2. Quiet
        BY <3>12 DEF Register, BluezAnswers, Lending, Lent, Waiting
      <4>3. Lent(s)'
        BY <4>1, <4>2 DEF Lending, Lent, Quiet, Modifying, Waiting
      <4>4. QED
        BY <3>2, <3>4, <4>1, <4>3 DEF Modifying
    <3>13. QED
      BY <2>1, <3>6, <3>7, <3>8, <3>9, <3>10, <3>11, <3>12 DEF ServerAction
  <2>2. CASE AdapterLost
    BY <2>2 DEF AdapterLost, serverVars, Lending, Borrowed, Lent, Quiet
  <2>3. CASE UNCHANGED vars
    BY <2>3 DEF vars, serverVars, sharedVars, Lending, Borrowed, Lent, Quiet
  <2>4. QED
    BY <2>1, <2>2, <2>3, NextCases
<1>3. QED
  BY <1>1, <1>2, TypeCorrect, RunsExclude, PTL DEF Spec

\* Between runs the adapter has its own settings; they differ only while a run
\* holds the lock and is set to put them back (hid-server.rs:17-25, 50-62).
THEOREM BorrowsUnderLock == Spec => []BorrowedUnderLock
<1>1. Exclusion /\ Lending => BorrowedUnderLock
  BY DEF Exclusion, Lending, Borrowed, Inside, BorrowedUnderLock
<1>2. QED
  BY <1>1, RunsExclude, SettingsAreLent, PTL

\* The helper never advertises with Classic discovery or a pairing time limit on,
\* whatever fails and whenever BlueZ answers (hid-server.rs:33-39, 48-50).
THEOREM HidesWhileAdvertising == Spec => []HiddenWhileAdvertising
<1>1. TypeOK /\ Lending => HiddenWhileAdvertising
  <2> SUFFICES ASSUME TypeOK, Lending, NEW s \in adv
               PROVE  settings.Pairable /\ ~settings.Discoverable /\ ~settings.PairableTimeout
    BY DEF HiddenWhileAdvertising
  <2>1. Quiet
    BY DEF TypeOK, Lending, Lent
  <2>2. QED
    BY <2>1 DEF Quiet
<1>2. QED
  BY <1>1, TypeCorrect, SettingsAreLent, PTL

\* A run that ends by itself leaves only what it reports (hid-server.rs:52-73).
THEOREM ReportsWhatDiffers == Spec => OnlyReportedDiffer
<1> DEFINE Reported == \A s \in Server :
      spc[s] = "restore" /\ exit'[s] \in {"ok", "error"} =>
        /\ \A p \in Property \ failed[s] : settings[p] = home[p]
        /\ exit'[s] = "ok" => failed[s] = {}
<1>1. TypeOK /\ Exclusion /\ Lending /\ [Next]_vars => [Reported]_vars
  <2> SUFFICES ASSUME TypeOK, Exclusion, Lending, [Next]_vars,
                      NEW s \in Server, spc[s] = "restore", exit'[s] \in {"ok", "error"}
               PROVE  /\ \A p \in Property \ failed[s] : settings[p] = home[p]
                      /\ exit'[s] = "ok" => failed[s] = {}
    OBVIOUS
  <2>1. exit[s] = "none"
    BY DEF Exclusion
  <2>2. Return(s)
    <3>1. ASSUME NEW r \in Server, ServerAction(r) PROVE Return(s)
      <4>1. CASE exit' = exit
        BY <2>1, <4>1
      <4>2. CASE Launch(r)
        BY <2>1, <4>2 DEF Launch, TypeOK, ServerTypeOK
      <4>3. CASE ReadOriginals(r) \/ KillServer(r)
        BY <2>1, <4>3 DEF ReadOriginals, KillServer, Gone, TypeOK, ServerTypeOK
      <4>4. CASE Return(r)
        BY <2>1, <4>4 DEF Return, Gone, TypeOK, ServerTypeOK
      <4>5. QED
        BY <3>1, <4>1, <4>2, <4>3, <4>4 DEF ServerAction, AcquireLock, ChangeSetting,
           TakeSignal, DropRuntime, RestoreSetting, Register, BluezAnswers, Signal
    <3>2. CASE AdapterLost \/ UNCHANGED vars
      BY <2>1, <3>2 DEF AdapterLost, vars, serverVars
    <3>3. QED
      BY <3>1, <3>2, NextCases
  <2>3. at[s] > 4 /\ (exit'[s] = "ok" => failed[s] = {})
    BY <2>2, Orders DEF Return, Gone, TypeOK, ServerTypeOK
  <2>4. QED
    BY <2>3, AllRestored
<1>2. QED
  BY <1>1, TypeCorrect, RunsExclude, SettingsAreLent, PTL DEF Spec, OnlyReportedDiffer
=============================================================================
