--------------------------- MODULE ServicesProofs ---------------------------
(***************************************************************************)
(* What the programs of MCServices promise by themselves: the auto-lock    *)
(* service locks in time (AutoLock), the query answers rightly             *)
(* (LinkQuery), the entries pass only the owner of the phone (AuthEntry)   *)
(* and the socket starts an attempt only on demand (ConnectService), the   *)
(* radio session of the exclusive lab bonds with one phone at most and     *)
(* reports a success only after what it was to hold (Probe), and the power *)
(* monitor loses no power-on (PowerMonitor).                               *)
(***************************************************************************)
EXTENDS AutoLock, PowerMonitor, LinkQuery, AuthEntry, Probe, TLAPS

-----------------------------------------------------------------------------
(* AutoLock, for any intervals.                                            *)

Durations ==
  /\ AttemptTime \in Nat /\ StartupTime \in Nat /\ RestartTime \in Nat
  /\ UnlockedConnected \in Nat /\ UnlockedDisconnected \in Nat
  /\ LockedConnected \in Nat /\ LockedDisconnected \in Nat
  /\ Bound \in Nat

LEMMA DurationsAreNumbers == Durations
  BY TimeAssumption DEF Durations

\* The variables stay in their types; no timer runs below zero.
THEOREM LoopTypeCorrect == Spec => []TypeOK
<1> USE DurationsAreNumbers DEF Durations
<1>1. Init => TypeOK
  <2> SUFFICES ASSUME Init PROVE TypeOK
    OBVIOUS
  <2>1. pc \in Place /\ timer \in Nat /\ alone \in Nat
    BY DEF Init, Place, Timed
  <2>2. /\ believed \in BOOLEAN /\ locked \in BOOLEAN
        /\ noctalia \in BOOLEAN /\ linked \in BOOLEAN
    BY DEF Init
  <2>3. QED
    BY <2>1, <2>2 DEF TypeOK
<1>2. TypeOK /\ [Next]_vars => TypeOK'
  <2> SUFFICES ASSUME TypeOK, [Next]_vars PROVE TypeOK'
    OBVIOUS
  <2> USE DEF TypeOK, Place, Timed, GoTo, Fail, BeginRound, envVars
  <2>1. CASE WaitForNoctalia
    BY <2>1 DEF WaitForNoctalia
  <2>2. CASE Attempt
    BY <2>2 DEF Attempt, Interval
  <2>3. CASE LockSession
    <3>1. pc' \in Place /\ timer' \in Nat /\ alone' \in Nat
      BY <2>3 DEF LockSession
    <3>2. UNCHANGED <<believed, noctalia, linked>> /\ (locked' = TRUE \/ UNCHANGED locked)
      BY <2>3 DEF LockSession
    <3>3. QED
      BY <3>1, <3>2
  <2>4. CASE Confirm
    BY <2>4 DEF Confirm, Interval
  <2>5. CASE Wake \/ ReadAgain \/ Restart
    BY <2>5 DEF Wake, ReadAgain, Restart
  <2>6. CASE UserLocksOrUnlocks \/ NoctaliaChanges \/ LinkChanges
    <3>1. UNCHANGED <<pc, timer, believed>> /\ alone' \in {0, alone}
      BY <2>6 DEF UserLocksOrUnlocks, NoctaliaChanges, LinkChanges, Settle
    <3>2. locked' \in BOOLEAN /\ noctalia' \in BOOLEAN /\ linked' \in BOOLEAN
      BY <2>6, Zenon DEF UserLocksOrUnlocks, NoctaliaChanges, LinkChanges, Settle
    <3>3. QED
      BY <3>1, <3>2
  <2>7. CASE Tick
    BY <2>7 DEF Tick
  <2>8. CASE UNCHANGED vars
    BY <2>8 DEF vars
  <2>9. QED
    BY <2>1, <2>2, <2>3, <2>4, <2>5, <2>6, <2>7, <2>8 DEF Next
<1>3. QED
  BY <1>1, <1>2, PTL DEF Spec

\* The inductive invariant: time alone and time still to wait add up.
THEOREM OnSchedule == Spec => []Schedule
<1> USE DurationsAreNumbers, BoundAssumption DEF Durations
<1>1. Init => Schedule
  BY DEF Init, Schedule
<1>2. TypeOK /\ Schedule /\ [Next]_vars => Schedule'
  <2> SUFFICES ASSUME TypeOK, Schedule, [Next]_vars PROVE Schedule'
    OBVIOUS
  <2> USE DEF TypeOK, Schedule, Exposed, GoTo, Fail, BeginRound, envVars
  <2>1. CASE WaitForNoctalia
    BY <2>1 DEF WaitForNoctalia
  <2>2. CASE Attempt
    BY <2>2 DEF Attempt, Interval
  <2>3. CASE LockSession
    BY <2>3 DEF LockSession
  <2>4. CASE Confirm
    BY <2>4 DEF Confirm, Interval
  <2>5. CASE Wake
    BY <2>5 DEF Wake
  <2>6. CASE ReadAgain
    BY <2>6 DEF ReadAgain
  <2>7. CASE Restart
    BY <2>7 DEF Restart
  <2>8. CASE UserLocksOrUnlocks \/ NoctaliaChanges \/ LinkChanges
    BY <2>8 DEF UserLocksOrUnlocks, NoctaliaChanges, LinkChanges, Settle
  <2>9. CASE Tick
    BY <2>9 DEF Tick, Timed
  <2>10. CASE UNCHANGED vars
    BY <2>10 DEF vars
  <2>11. QED
    BY <2>1, <2>2, <2>3, <2>4, <2>5, <2>6, <2>7, <2>8, <2>9, <2>10 DEF Next
<1>3. QED
  BY <1>1, <1>2, LoopTypeCorrect, PTL DEF Spec

\* A session left alone is locked within Bound, whatever the intervals, the
\* time of an attempt and the restart delay are.
THEOREM LocksInTime == Spec => []LockedInTime
<1>1. TypeOK /\ Schedule => LockedInTime
  BY DurationsAreNumbers, BoundAssumption
     DEF Durations, TypeOK, Schedule, LockedInTime, Place, Timed
<1>2. QED
  BY <1>1, LoopTypeCorrect, OnSchedule, PTL

-----------------------------------------------------------------------------
(* LinkQuery, for a buffer of any size, 512 entries included, and a kernel *)
(* list of any length.                                                     *)

ListOK == links \in Seq(Entry)

\* The kernel's list stays a list of entries.
THEOREM ListCorrect == QuerySpec => []ListOK
<1> USE DEF ListOK
<1>1. QueryInit => ListOK
  BY DEF QueryInit
<1>2. ListOK /\ [QueryNext]_queryVars => ListOK'
  <2> SUFFICES ASSUME ListOK, [QueryNext]_queryVars PROVE ListOK'
    OBVIOUS
  <2>1. CASE Appear
    BY <2>1 DEF Appear
  <2>2. CASE Change
    BY <2>2 DEF Change
  <2>3. CASE Vanish
    <3>1. PICK i \in 1..Len(links) :
            links' = SubSeq(links, 1, i - 1) \o SubSeq(links, i + 1, Len(links))
      BY <2>3 DEF Vanish
    <3>2. SubSeq(links, 1, i - 1) \in Seq(Entry)
      OBVIOUS
    <3>3. SubSeq(links, i + 1, Len(links)) \in Seq(Entry)
      OBVIOUS
    <3>4. QED
      BY <3>1, <3>2, <3>3
  <2>4. CASE Plug
    BY <2>4 DEF Plug
  <2>5. CASE UNCHANGED queryVars
    BY <2>5 DEF queryVars
  <2>6. QED
    BY <2>1, <2>2, <2>3, <2>4, <2>5 DEF QueryNext
<1>3. QED
  BY <1>1, <1>2, PTL DEF QuerySpec

\* A buffer that is not full holds the whole list.
LEMMA NotCutIsAll ==
  ASSUME NEW list \in Seq(Entry), ~MayBeCut(Copied(list))
  PROVE  Copied(list) = list
<1>1. Len(list) \in Nat /\ Capacity \in Nat
  BY QueryAssumption
<1>2. CASE Len(list) <= Capacity
  <2>1. Copied(list) = SubSeq(list, 1, Len(list))
    BY <1>1, <1>2 DEF Copied, Shortest
  <2>2. QED
    BY <2>1
<1>3. CASE ~(Len(list) <= Capacity)
  <2>1. Copied(list) = SubSeq(list, 1, Capacity)
    BY <1>1, <1>3 DEF Copied, Shortest
  <2>2. Len(Copied(list)) = Capacity
    BY <1>1, <1>3, <2>1
  <2>3. QED
    BY <1>1, <2>2 DEF MayBeCut
<1>4. QED
  BY <1>2, <1>3

\* What an answer other than an error says of the kernel's list.
LEMMA AnswerIsRight ==
  ASSUME ListOK, Query \in {"yes", "no"}
  PROVE  /\ \A i, j \in PhoneLinks : i = j
         /\ Query = "yes" <=> \E i \in PhoneLinks : links[i].encrypted
<1> DEFINE buffer == Copied(links)
<1>1. /\ ~MayBeCut(buffer)
      /\ \A i, j \in Matching(buffer) : i = j
      /\ Query = "yes" <=> \E i \in Matching(buffer) : buffer[i].encrypted
  BY DEF Query, QueryConnection
<1>2. buffer = links
  BY <1>1, NotCutIsAll DEF ListOK
<1>3. Matching(links) = PhoneLinks
  BY DEF Matching, PhoneLinks, IsTarget
<1>4. QED
  BY <1>1, <1>2, <1>3

\* The query never says "connected" of anything but an encrypted LE link.
THEOREM YesIsTrue == QuerySpec => []YesIsEncrypted
<1>1. ListOK => YesIsEncrypted
  BY AnswerIsRight DEF YesIsEncrypted
<1>2. QED
  BY <1>1, ListCorrect, PTL

\* The query never says "not connected" while the phone is linked.
THEOREM NoIsTrue == QuerySpec => []NoIsComplete
<1>1. ListOK => NoIsComplete
  BY AnswerIsRight DEF NoIsComplete
<1>2. QED
  BY <1>1, ListCorrect, PTL

-----------------------------------------------------------------------------
(* AuthEntry, for any polkit actions, and ConnectService, for a socket of  *)
(* any size.                                                               *)

\* Where the phone is asked in each stack, and how long it is.
LEMMA Stacks ==
  /\ Len(Rules("sudo")) = 4 /\ Len(Rules("locker")) = 3 /\ Len(Rules("polkit")) = 3
  /\ Rules("sudo")[1] = "user" /\ Rules("sudo")[2] = "ruser"
  /\ Rules("sudo")[3] = "phone" /\ Rules("sudo")[4] = "password"
  /\ Rules("locker")[1] = "user" /\ Rules("locker")[2] = "phone"
  /\ Rules("locker")[3] = "password"
  /\ Rules("polkit")[1] = "subject" /\ Rules("polkit")[2] = "phone"
  /\ Rules("polkit")[3] = "password"
BY DEF Rules

LEMMA Entries ==
  ASSUME NEW r \in Request
  PROVE  /\ r.entry \in {"sudo", "locker", "polkit"}
         /\ Len(Rules(r.entry)) \in {3, 4}
<1>1. r.entry \in {"sudo", "locker", "polkit"}
  BY DEF Request, PamRequest, PolkitRequest
<1>2. QED
  BY <1>1, Stacks

LEMMA Depth ==
  ASSUME NEW r \in Request, NEW i \in 0..3
  PROVE  i \in 0..Len(Rules(r.entry))
<1>1. Len(Rules(r.entry)) \in {3, 4}
  BY Entries
<1>2. QED
  BY <1>1

\* What each test skips.
LEMMA Skips ==
  /\ request.entry = "sudo" =>
       /\ request.user = "trusted" => Skipped("user") = 1
       /\ request.user # "trusted" => Skipped("user") = 0
       /\ request.ruser = "trusted" => Skipped("ruser") = 0
       /\ request.ruser # "trusted" => Skipped("ruser") = 1
  /\ request.entry # "sudo" =>
       /\ request.user = "trusted" => Skipped("user") = 0
       /\ request.user # "trusted" => Skipped("user") = 1
       /\ request.user = "trusted" /\ request.activeLocal => Skipped("subject") = 0
       /\ ~(request.user = "trusted" /\ request.activeLocal) => Skipped("subject") = 1
<1>1. Holds("user") <=> request.user = "trusted"
  BY Zenon DEF Holds
<1>2. Holds("ruser") <=> request.ruser = "trusted"
  BY Zenon DEF Holds
<1>3. Holds("subject") <=> request.user = "trusted" /\ request.activeLocal
  BY Zenon DEF Holds
<1>4. QED
  BY <1>1, <1>2, <1>3, Zenon DEF Skipped

\* The phone may decide for this request.
Entitled ==
  /\ request.entry = "sudo" => request.user = "trusted" \/ request.ruser = "trusted"
  /\ request.entry = "locker" => request.user = "trusted"
  /\ request.entry = "polkit" => request.user = "trusted" /\ request.activeLocal

\* A stack reaches its phone rule, and passes there, only for the entitled; and
\* while the socket is watched there are datagrams in it only if somebody asked.
EntryInv ==
  /\ AuthTypeOK
  /\ at > 0 /\ Rule = "phone" => Entitled
  /\ at = 0 /\ outcome = "phone" => Entitled
  /\ socket = "listening" /\ inbox > 0 => asked

\* What the service's own steps leave true.
LEMMA ServiceKeeps ==
  ASSUME EntryInv, Service!ServiceNext
  PROVE  /\ Service!ServiceTypeOK'
         /\ socket' = "listening" /\ inbox' > 0 => asked'
<1> USE InboxAssumption DEF EntryInv, AuthTypeOK, Service!ServiceTypeOK
<1>1. CASE Service!SocketTriggers
  BY <1>1 DEF Service!SocketTriggers, Service!Start
<1>2. CASE Service!EventStarts
  BY <1>2 DEF Service!EventStarts, Service!Start
<1>3. CASE Service!AttemptEnds
  BY <1>3 DEF Service!AttemptEnds
<1>4. CASE Service!ServiceOver
  BY <1>4 DEF Service!ServiceOver
<1>5. QED
  BY <1>1, <1>2, <1>3, <1>4 DEF Service!ServiceNext

\* Whatever stack is walked and whatever the socket does: the phone rule is reached
\* only by the entitled (pam-auth.nix:19-58, polkit-auth.nix:30-37), and a watched
\* socket has datagrams only if somebody asked (connect.nix:53-62).
THEOREM EntryInvariant == AuthSpec => []EntryInv
<1> USE InboxAssumption, Entries
<1>1. AuthInit => EntryInv
  <2> SUFFICES ASSUME AuthInit PROVE EntryInv
    OBVIOUS
  <2>1. request \in Request /\ at = 0 /\ outcome = "ordinary" /\ linkUp \in BOOLEAN
    BY DEF AuthInit
  <2>2. Service!ServiceTypeOK /\ inbox = 0
    <3>1. socket = "listening" /\ inbox = 0 /\ service = "dead"
      BY DEF AuthInit, Service!ServiceInit
    <3>2. asked \in BOOLEAN /\ waiting \in BOOLEAN
      BY DEF AuthInit, Service!ServiceInit
    <3>3. inbox \in 0..MaxInbox
      BY <3>1
    <3>4. QED
      BY <3>1, <3>2, <3>3 DEF Service!ServiceTypeOK
  <2>3. at \in 0..Len(Rules(request.entry))
    BY <2>1
  <2>4. QED
    BY <2>1, <2>2, <2>3 DEF EntryInv, AuthTypeOK
<1>2. EntryInv /\ [AuthNext]_entryVars => EntryInv'
  <2> SUFFICES ASSUME EntryInv, [AuthNext]_entryVars PROVE EntryInv'
    OBVIOUS
  <2> USE DEF EntryInv, AuthTypeOK, serviceVars
  <2>1. CASE Authenticate
    <3>1. request' \in Request /\ at' = 1 /\ Service!ServiceTypeOK'
      BY <2>1 DEF Authenticate, Service!ServiceTypeOK
    <3>2. at' \in 0..Len(Rules(request'.entry))
      BY <3>1, Depth
    <3>3. Rules(request'.entry)[1] # "phone"
      BY <3>1, Stacks
    <3>4. QED
      BY <2>1, <3>1, <3>2, <3>3 DEF Authenticate, Rule
  <2>2. CASE TestSubject
    <3>1. /\ Rule \in {"user", "ruser", "subject"} /\ at' = at + 1 + Skipped(Rule)
          /\ UNCHANGED <<request, outcome, linkUp, socket, inbox, service, asked, waiting>>
      BY <2>2 DEF TestSubject
    <3>2. Service!ServiceTypeOK'
      BY <3>1 DEF Service!ServiceTypeOK
    <3>3. CASE request.entry = "sudo"
      <4>1. \/ at = 1 /\ at' = (IF request.user = "trusted" THEN 3 ELSE 2)
            \/ at = 2 /\ at' = (IF request.ruser = "trusted" THEN 3 ELSE 4)
        BY <2>2, <3>1, <3>3, Stacks, Skips DEF TestSubject, Rule
      <4>2. QED
        BY <3>1, <3>2, <3>3, <4>1, Stacks DEF Rule, Entitled
    <3>4. CASE request.entry = "locker"
      <4>1. at = 1 /\ at' = IF request.user = "trusted" THEN 2 ELSE 3
        BY <2>2, <3>1, <3>4, Stacks, Skips DEF TestSubject, Rule
      <4>2. QED
        BY <3>1, <3>2, <3>4, <4>1, Stacks DEF Rule, Entitled
    <3>5. CASE request.entry = "polkit"
      <4>1. at = 1 /\ at' = 2 + Skipped("subject")
        BY <2>2, <3>1, <3>5, Stacks DEF TestSubject, Rule
      <4>2. request.entry # "sudo"
        BY <3>5
      <4>3. \/ Skipped("subject") = 1
            \/ Skipped("subject") = 0 /\ request.user = "trusted" /\ request.activeLocal
        BY <4>2, Skips, Zenon
      <4>4. QED
        BY <3>1, <3>2, <3>5, <4>1, <4>3, Stacks DEF Rule, Entitled
    <3>6. QED
      BY <3>3, <3>4, <3>5
  <2>3. CASE TestPhone
    <3>1. at > 0 /\ Rule = "phone" /\ Entitled /\ UNCHANGED <<request, linkUp>>
      BY <2>3 DEF TestPhone
    <3>2. at + 1 \in 0..Len(Rules(request.entry)) /\ Rules(request.entry)[at + 1] # "phone"
      BY <3>1, Stacks DEF Rule
    <3>3. CASE outcome' = "phone" /\ at' = 0 /\ UNCHANGED serviceVars
      BY <3>1, <3>3 DEF Rule, Entitled, Service!ServiceTypeOK
    <3>4. CASE Service!SendRequest /\ at' = at + 1 /\ UNCHANGED outcome
      <4>1. /\ Service!ServiceTypeOK'
            /\ socket' = "listening" /\ inbox' > 0 => asked'
        <5>1. /\ inbox' \in 0..MaxInbox /\ UNCHANGED <<socket, service>>
              /\ inbox' = inbox \/ asked' = TRUE
              /\ inbox' = inbox => asked' = asked \/ asked' = TRUE
          BY <3>4 DEF Service!SendRequest, Service!ServiceTypeOK
        <5>2. asked' \in BOOLEAN /\ waiting' \in BOOLEAN
          BY <3>4, Zenon DEF Service!SendRequest, Service!ServiceTypeOK
        <5>3. QED
          BY <5>1, <5>2 DEF Service!ServiceTypeOK
      <4>2. QED
        BY <3>1, <3>2, <3>4, <4>1 DEF Rule
    <3>5. CASE at' = at + 1 /\ UNCHANGED <<outcome, serviceVars>>
      BY <3>1, <3>2, <3>5 DEF Rule, Service!ServiceTypeOK
    <3>6. QED
      BY <2>3, <3>3, <3>4, <3>5 DEF TestPhone
  <2>4. CASE TestPassword
    BY <2>4 DEF TestPassword, Rule, Entitled, Service!ServiceTypeOK
  <2>5. CASE Serving(Service!ServiceNext)
    BY <2>5, ServiceKeeps DEF Serving, authVars, Rule, Entitled
  <2>6. CASE LinkLost
    BY <2>6 DEF LinkLost, authVars, Rule, Entitled, Service!ServiceTypeOK
  <2>7. CASE UNCHANGED entryVars
    BY <2>7 DEF entryVars, authVars, Rule, Entitled, Service!ServiceTypeOK
  <2>8. QED
    BY <2>1, <2>2, <2>3, <2>4, <2>5, <2>6, <2>7 DEF AuthNext
<1>3. QED
  BY <1>1, <1>2, PTL DEF AuthSpec

\* The phone passes an authentication only for its owner, whatever the stacks'
\* skips do (pam-auth.nix:19-58, polkit-auth.nix:30-37).
THEOREM OnlyForTrusted == AuthSpec => []PhoneOnlyForTrusted
<1>1. EntryInv => PhoneOnlyForTrusted
  BY Entries DEF EntryInv, AuthTypeOK, Entitled, PhoneOnlyForTrusted
<1>2. QED
  BY <1>1, EntryInvariant, PTL

\* The socket starts an attempt only if somebody asked since it last started
\* one (connect.nix:53-62).
THEOREM StartsOnDemand == AuthSpec => StartedOnDemand
<1> DEFINE OnDemand ==
      socket = "listening" /\ socket' = "running" /\ service = "dead" => asked
<1>1. EntryInv /\ [AuthNext]_entryVars => [OnDemand]_(Service!serviceVars)
  <2> SUFFICES ASSUME EntryInv, [AuthNext]_entryVars,
                      socket = "listening", socket' = "running", service = "dead"
               PROVE  asked
    BY DEF Service!serviceVars
  <2>1. CASE Serving(Service!ServiceNext)
    BY <2>1 DEF EntryInv, Serving, Service!ServiceNext, Service!SocketTriggers,
       Service!EventStarts, Service!AttemptEnds, Service!ServiceOver
  <2>2. CASE Authenticate \/ TestSubject \/ TestPhone \/ TestPassword \/ LinkLost
    BY <2>2 DEF Authenticate, TestSubject, TestPhone, TestPassword, LinkLost, serviceVars,
       Service!SendRequest
  <2>3. CASE UNCHANGED entryVars
    BY <2>3 DEF entryVars, serviceVars
  <2>4. QED
    BY <2>1, <2>2, <2>3 DEF AuthNext
<1>2. QED
  BY <1>1, EntryInvariant, PTL DEF AuthSpec, StartedOnDemand, Service!StartedOnDemand

-----------------------------------------------------------------------------
(* Probe, for any phones and any number of cycles.                         *)

\* The steps, one by one.
LEMMA ProbeCases ==
  ASSUME [ProbeNext]_probeVars
  PROVE  \/ NextRun \/ StartProbe \/ OpenTransport \/ PowerOnRadio \/ ReadKeys
         \/ StartAdvertising \/ Look \/ Hear \/ LookUpBond \/ RefuseStranger \/ WaitEncrypted
         \/ WaitBondSaved \/ PrepareService \/ BeginHold \/ HoldElapses \/ StopProfile \/ HangUp
         \/ ProbeFails \/ CancelProbe \/ StopAdvertising \/ PowerOffRadio \/ CloseTransport
         \/ \E p \in Phone : PhoneConnects(p)
         \/ \E c \in Connection :
              \/ PhoneVanishes(c) \/ PhoneEncrypts(c) \/ AcceptPairing(c) \/ CompareNumbers(c)
              \/ AnswerComparison(c) \/ PairingEncrypts(c) \/ SaveBond(c)
         \/ LoseTransport
         \/ UNCHANGED probeVars
BY DEF ProbeNext, MainNext, RadioNext

-----------------------------------------------------------------------------
(* Whom it bonds with.                                                     *)

\* The shapes of what the arguments below update.
Shapes ==
  /\ count \in 0..(Cycles + 1) /\ enrollment \in 0..count
  /\ DOMAIN peer = Connection /\ DOMAIN until = Connection
  /\ DOMAIN encrypted = Connection /\ DOMAIN pairing = Connection
  /\ \A c \in Connection : until[c] = "up" => c <= count

\* Pairings belong to one connection, the one that may pair as long as there is one;
\* a phone can only come to be enrolled, or to pair, if no other is in the keystore.
Chosen ==
  /\ stage \in {"idle", "open", "power", "keys"} =>
       count = 0 /\ enrollment = None /\ ~advertising /\ ~available
  /\ \A c \in Connection : c > count => pairing[c] = "none"
  /\ available => bonds = {} /\ enrollment = None /\ \A c \in Connection : pairing[c] = "none"
  /\ enrollment # None =>
       /\ bonds \subseteq {peer[enrollment]}
       /\ \A c \in Connection : pairing[c] # "none" => c = enrollment
  /\ \A c \in Connection : pairing[c] # "none" => bonds \subseteq {peer[c]}
  /\ \A c, d \in Connection : pairing[c] # "none" /\ pairing[d] # "none" => c = d
  /\ OnePhone

\* What a step may do to it all, if it is not one of those that count.
Elsewhere ==
  /\ UNCHANGED <<bonds, count, peer>>
  /\ enrollment' \in {enrollment, None}
  /\ available' => \/ available
                   \/ stage = "keys" /\ bonds = {} /\ stage' = "advertise"
  /\ DOMAIN until' = Connection /\ DOMAIN encrypted' = Connection /\ DOMAIN pairing' = Connection
  /\ \A c \in Connection : /\ until'[c] = "up" => until[c] = "up"
                           /\ pairing[c] = "none" => pairing'[c] = "none"
  /\ stage' \in {"idle", "open", "power", "keys"} =>
       stage \in {"idle", "open", "power", "keys"} /\ (advertising' => advertising)

LEMMA ElsewhereKeeps ==
  ASSUME Shapes, Chosen, Elsewhere
  PROVE  Shapes' /\ Chosen'
<1>1. Shapes'
  BY ProbeAssumption DEF Shapes, Elsewhere, None, Connection
<1>2. Chosen'
  <2>1. bonds' = bonds /\ count' = count /\ peer' = peer
    BY DEF Elsewhere
  <2>2. \A c \in Connection : pairing'[c] # "none" => pairing[c] # "none"
    BY DEF Elsewhere
  <2>3. OnePhone'
    BY <2>1 DEF Chosen, OnePhone
  <2>4. stage = "keys" => \A c \in Connection : pairing[c] = "none"
    BY ProbeAssumption DEF Chosen, Connection
  <2>5. enrollment' # None => enrollment' = enrollment
    BY DEF Elsewhere
  <2>6. available' => bonds' = {} /\ enrollment' = None /\ \A c \in Connection : pairing'[c] = "none"
    BY <2>1, <2>2, <2>4, <2>5 DEF Chosen, Elsewhere
  <2>7. stage' \in {"idle", "open", "power", "keys"} =>
          count' = 0 /\ enrollment' = None /\ ~advertising' /\ ~available'
    BY <2>1, <2>5 DEF Chosen, Elsewhere
  <2>8. QED
    BY <2>1, <2>2, <2>3, <2>5, <2>6, <2>7 DEF Chosen
<1>3. QED
  BY <1>1, <1>2

LEMMA MainIsElsewhere ==
  ASSUME Shapes, MainNext, ~NextRun
  PROVE  Elsewhere
<1> USE DEF Shapes, Elsewhere, Goto, CleanUp, options, radio, selection, progress, linksVars, report,
            InCycle, Held, Opening, Closing, None
<1>1. CASE StartProbe \/ OpenTransport \/ PowerOnRadio \/ StartAdvertising
  BY <1>1 DEF StartProbe, OpenTransport, PowerOnRadio, StartAdvertising
<1>12. CASE ReadKeys
  <2>1. available' => bonds = {}
    BY <1>12 DEF ReadKeys
  <2>2. QED
    BY <1>12, <2>1 DEF ReadKeys
<1>2. CASE Look \/ Hear \/ LookUpBond \/ WaitEncrypted
  BY <1>2 DEF Look, Hear, LookUpBond, WaitEncrypted
<1>3. CASE RefuseStranger
  BY <1>3 DEF RefuseStranger
<1>4. CASE WaitBondSaved \/ PrepareService \/ BeginHold
  BY <1>4 DEF WaitBondSaved, PrepareService, BeginHold
<1>5. CASE HoldElapses \/ StopProfile
  BY <1>5 DEF HoldElapses, StopProfile, EndOfCycle
<1>6. CASE HangUp
  BY <1>6 DEF HangUp
<1>7. CASE ProbeFails \/ CancelProbe
  BY <1>7 DEF ProbeFails, CancelProbe
<1>8. CASE StopAdvertising
  BY <1>8 DEF StopAdvertising
<1>9. CASE PowerOffRadio
  BY <1>9 DEF PowerOffRadio, LinksEnd
<1>10. CASE CloseTransport
  <2>1. LinksEnd \/ UNCHANGED linksVars
    BY <1>10 DEF CloseTransport
  <2>2. stage' = "over" /\ UNCHANGED <<bonds, selection>>
    BY <1>10 DEF CloseTransport
  <2>3. CASE LinksEnd
    BY <2>2, <2>3 DEF LinksEnd
  <2>4. CASE UNCHANGED linksVars
    BY <2>2, <2>4
  <2>5. QED
    BY <2>1, <2>3, <2>4
<1>11. QED
  BY <1>1, <1>12, <1>2, <1>3, <1>4, <1>5, <1>6, <1>7, <1>8, <1>9, <1>10 DEF MainNext

LEMMA RadioIsElsewhere ==
  ASSUME Shapes, NEW c \in Connection,
         \/ PhoneVanishes(c) \/ PhoneEncrypts(c) \/ CompareNumbers(c) \/ AnswerComparison(c)
         \/ PairingEncrypts(c) \/ LoseTransport
  PROVE  Elsewhere
<1> USE DEF Shapes, Elsewhere, options, radio, selection, progress, linksVars, report
<1>1. CASE PhoneVanishes(c) \/ PhoneEncrypts(c)
  BY <1>1 DEF PhoneVanishes, PhoneEncrypts, Active
<1>2. CASE CompareNumbers(c) \/ AnswerComparison(c) \/ PairingEncrypts(c)
  BY <1>2 DEF CompareNumbers, AnswerComparison, PairingEncrypts, Pairs
<1>3. CASE LoseTransport
  BY <1>3 DEF LoseTransport, LinksEnd
<1>4. QED
  BY <1>1, <1>2, <1>3

\* Whom a probe enrolls, of any number of phones: the inductive invariant.
THEOREM ChosenAlways == ProbeSpec => [](Shapes /\ Chosen)
<1> USE ProbeAssumption
<1>1. ProbeInit => Shapes /\ Chosen
  BY DEF ProbeInit, Shapes, Chosen, OnePhone, None, Connection
<1>2. Shapes /\ Chosen /\ [ProbeNext]_probeVars => (Shapes /\ Chosen)'
  <2> SUFFICES ASSUME Shapes, Chosen, [ProbeNext]_probeVars PROVE Shapes' /\ Chosen'
    OBVIOUS
  <2>1. CASE MainNext /\ ~NextRun
    BY <2>1, MainIsElsewhere, ElsewhereKeeps
  <2>2. CASE NextRun
    BY <2>2 DEF NextRun, Goto, Shapes, Chosen, OnePhone, None, Connection
  <2>3. ASSUME NEW p \in Phone, PhoneConnects(p) PROVE Shapes' /\ Chosen'
    <3>1. /\ stage' = stage /\ stage \notin {"idle", "open", "power", "keys"}
          /\ count' = count + 1 /\ count' \in Connection
          /\ bonds' = bonds /\ pairing' = pairing /\ encrypted' = encrypted
      BY <2>3 DEF PhoneConnects, Chosen, Shapes, Connection
    <3>2. /\ DOMAIN peer' = Connection /\ DOMAIN until' = Connection
          /\ \A c \in Connection : c # count' => peer'[c] = peer[c] /\ until'[c] = until[c]
      BY <2>3 DEF PhoneConnects, Shapes
    <3>3. \/ enrollment' = enrollment /\ available' = available
          \/ available /\ enrollment' = count' /\ ~available'
      BY <2>3 DEF PhoneConnects, selection
    <3>4. Shapes'
      BY <3>1, <3>2, <3>3 DEF Shapes, Connection
    <3>5. \A c \in Connection : pairing[c] # "none" => peer'[c] = peer[c]
      BY <3>1, <3>2 DEF Chosen, Shapes, Connection
    <3>6. enrollment # None => peer'[enrollment] = peer[enrollment]
      BY <3>1, <3>2 DEF Shapes, Connection, None
    <3>7. Chosen'
      BY <3>1, <3>3, <3>5, <3>6 DEF Chosen, Shapes, OnePhone, Connection, None
    <3>8. QED
      BY <3>4, <3>7
  <2>4. ASSUME NEW c \in Connection, AcceptPairing(c) PROVE Shapes' /\ Chosen'
    <3>1. /\ UNCHANGED <<stage, bonds, radio, selection, count, peer, until, encrypted>>
          /\ enrollment = c /\ pairing' = [pairing EXCEPT ![c] = "accepted"]
      BY <2>4 DEF AcceptPairing, Allowed, Pairs
    <3>2. QED
      BY <3>1 DEF Shapes, Chosen, OnePhone, Connection, None, radio, selection
  <2>5. ASSUME NEW c \in Connection, SaveBond(c) PROVE Shapes' /\ Chosen'
    <3>1. /\ UNCHANGED <<stage, radio, selection, count, peer, until, encrypted>>
          /\ pairing[c] # "none" /\ pairing' = [pairing EXCEPT ![c] = "done"]
          /\ bonds' = bonds \cup {peer[c]}
      BY <2>5 DEF SaveBond
    <3>2. bonds' \subseteq {peer[c]}
      BY <3>1 DEF Chosen
    <3>3. QED
      BY <3>1, <3>2 DEF Shapes, Chosen, OnePhone, Connection, None, radio, selection
  <2>6. ASSUME NEW c \in Connection,
               \/ PhoneVanishes(c) \/ PhoneEncrypts(c) \/ CompareNumbers(c) \/ AnswerComparison(c)
               \/ PairingEncrypts(c) \/ LoseTransport
        PROVE  Shapes' /\ Chosen'
    BY <2>6, RadioIsElsewhere, ElsewhereKeeps
  <2>7. CASE LoseTransport
    BY <2>7, <2>6 DEF Connection
  <2>8. CASE UNCHANGED probeVars
    BY <2>8 DEF probeVars, radio, selection, linksVars, Shapes, Chosen, OnePhone
  <2>9. QED
    BY <2>1, <2>2, <2>3, <2>4, <2>5, <2>6, <2>7, <2>8 DEF ProbeNext, RadioNext
<1>3. QED
  BY <1>1, <1>2, PTL DEF ProbeSpec

\* OnePhone, for any number of phones, cycles and runs.
THEOREM BondsWithOne == ProbeSpec => []OnePhone
<1>1. Chosen => OnePhone
  BY DEF Chosen
<1>2. QED
  BY <1>1, ChosenAlways, PTL

-----------------------------------------------------------------------------
(* What it means that it has passed.                                       *)

Before   == 1..(cycle - 1)
Taken    == {"bond", "refuse", "encrypt", "saving", "service", "hold", "holding"} \cup Held
Finished == Closing \cup {"over"}

\* A cycle whose connection was held.
Done(n) ==
  /\ held[n] \in 1..count
  /\ encrypted[held[n]] /\ Bonded(held[n])
  /\ until[held[n]] \notin InCycle

\* Each cycle so far has held a connection of its own.
CyclesHeld ==
  /\ \A n \in Before : Done(n) /\ until[held[n]] # "up"
  /\ \A m, n \in Before : held[m] = held[n] => m = n
  /\ stage \in Held \/ passed => Done(cycle) /\ \A n \in Before : held[n] # held[cycle]
  /\ stage \in Held => held[cycle] = connection

\* What the present one has come to know of its connection.
CycleKnows ==
  /\ stage \in Taken => connection \in 1..count /\ \A n \in Before : held[n] # connection
  /\ stage = "listen" /\ heard # None => heard \in 1..count /\ \A n \in Before : held[n] # heard
  /\ stage = "encrypt" /\ ~enrolling => Bonded(connection)
  /\ stage \in {"saving", "service", "hold", "holding"} => encrypted[connection]
  /\ stage \in {"service", "hold", "holding"} => Bonded(connection)
  /\ stage = "holding" => until[connection] \in {"up", "holding"}

\* What comes of the result.
ResultStands ==
  /\ cycle \in Connection /\ DOMAIN held = Connection
  /\ stage = "disconnect" => cycle <= Cycles
  /\ stage \in InCycle \cup Held \cup {"keys"} => poweredOn
  /\ cancelled => stage \in Finished
  /\ passed => /\ stage \in Finished /\ cycle = Cycles + 1
               /\ cancelled => failed
               /\ stage = "over" => ~failed /\ ~channel

Kept == ResultStands /\ CyclesHeld /\ CycleKnows

\* What no step of a probe does to its connections: one that has ended stays so, and
\* encryption and bonds stay.
LinksKept ==
  /\ count' \in 0..(Cycles + 1) /\ count' >= count /\ bonds \subseteq bonds'
  /\ \A c \in 1..count :
       /\ peer'[c] = peer[c] /\ (encrypted[c] => encrypted'[c])
       /\ \/ until'[c] = until[c]
          \/ until[c] \in {"up", stage} /\ until'[c] = stage

LEMMA MainKeepsLinks ==
  ASSUME Shapes, MainNext, ~NextRun
  PROVE  LinksKept /\ count' = count /\ bonds' = bonds /\ peer' = peer /\ encrypted' = encrypted
<1> USE ProbeAssumption DEF Shapes, LinksKept, linksVars, Connection
<1>1. CASE \/ StartProbe \/ OpenTransport \/ PowerOnRadio \/ StartAdvertising \/ ReadKeys
           \/ Look \/ Hear \/ LookUpBond \/ WaitEncrypted \/ WaitBondSaved \/ PrepareService
           \/ BeginHold \/ HoldElapses \/ StopProfile \/ ProbeFails \/ CancelProbe \/ StopAdvertising
  <2>1. UNCHANGED <<bonds, linksVars>>
    BY <1>1 DEF StartProbe, OpenTransport, PowerOnRadio, StartAdvertising, ReadKeys, Look, Hear,
                LookUpBond, WaitEncrypted, WaitBondSaved, PrepareService, BeginHold, HoldElapses,
                StopProfile, ProbeFails, CancelProbe, StopAdvertising
  <2>2. QED
    BY <2>1
<1>2. CASE RefuseStranger
  BY <1>2 DEF RefuseStranger, OnConnection, Active
<1>3. CASE HangUp
  BY <1>3 DEF HangUp
<1>4. CASE PowerOffRadio
  <2>1. bonds' = bonds /\ (LinksEnd \/ UNCHANGED linksVars)
    BY <1>4 DEF PowerOffRadio
  <2>2. QED
    BY <2>1 DEF LinksEnd
<1>5. CASE CloseTransport
  <2>1. bonds' = bonds /\ (LinksEnd \/ UNCHANGED linksVars)
    BY <1>5 DEF CloseTransport
  <2>2. QED
    BY <2>1 DEF LinksEnd
<1>6. QED
  BY <1>1, <1>2, <1>3, <1>4, <1>5 DEF MainNext

LEMMA RadioKeepsLinks ==
  ASSUME Shapes, RadioNext
  PROVE  LinksKept
<1> USE ProbeAssumption DEF Shapes, LinksKept, Connection
<1>1. ASSUME NEW p \in Phone, PhoneConnects(p) PROVE LinksKept
  BY <1>1 DEF PhoneConnects
<1>2. ASSUME NEW c \in Connection, PhoneVanishes(c) PROVE LinksKept
  BY <1>2 DEF PhoneVanishes, Active
<1>3. ASSUME NEW c \in Connection, PhoneEncrypts(c) PROVE LinksKept
  BY <1>3 DEF PhoneEncrypts
<1>4. ASSUME NEW c \in Connection,
             AcceptPairing(c) \/ CompareNumbers(c) \/ AnswerComparison(c) \/ PairingEncrypts(c)
      PROVE  LinksKept
  BY <1>4 DEF AcceptPairing, CompareNumbers, AnswerComparison, PairingEncrypts, Pairs
<1>5. ASSUME NEW c \in Connection, SaveBond(c) PROVE LinksKept
  BY <1>5 DEF SaveBond
<1>6. CASE LoseTransport
  BY <1>6 DEF LoseTransport, LinksEnd
<1>7. QED
  BY <1>1, <1>2, <1>3, <1>4, <1>5, <1>6 DEF RadioNext

\* A cycle that was done stays so, as long as nothing ends its connection before its end.
LEMMA DoneStays ==
  ASSUME LinksKept, Shapes, NEW n \in Nat, Done(n), held'[n] = held[n],
         stage \notin InCycle \/ until[held[n]] # "up"
  PROVE  Done(n)' /\ (until[held[n]] # "up" => until'[held[n]] # "up")
BY ProbeAssumption DEF LinksKept, Shapes, Done, Bonded

LEMMA BeforeStays ==
  ASSUME Shapes, Kept, LinksKept, cycle' = cycle, \A n \in Before : held'[n] = held[n]
  PROVE  /\ \A n \in Before' : Done(n)' /\ until'[held'[n]] # "up"
         /\ \A m, n \in Before' : held'[m] = held'[n] => m = n
<1> USE ProbeAssumption DEF Kept, ResultStands, Connection, Before
<1>1. ASSUME NEW n \in Before PROVE Done(n)' /\ until'[held'[n]] # "up"
  <2>1. n \in Nat /\ Done(n) /\ until[held[n]] # "up" /\ held'[n] = held[n]
    BY <1>1 DEF CyclesHeld
  <2>2. QED
    BY <2>1, DoneStays
<1>2. QED
  BY <1>1 DEF CyclesHeld

\* The radio changes what a cycle knows only by what it finds out itself.
LEMMA RadioKeeps ==
  ASSUME Shapes, Kept, RadioNext
  PROVE  Kept'
<1> USE ProbeAssumption
<1>1. LinksKept
  BY RadioKeepsLinks
<1>2. /\ UNCHANGED <<stage, cycle, held, connection, enrolling, report, channel, poweredOn>>
      /\ stage # "over"
  BY DEF RadioNext, PhoneConnects, PhoneVanishes, PhoneEncrypts, AcceptPairing, CompareNumbers,
         AnswerComparison, PairingEncrypts, SaveBond, LoseTransport, Pairs, OnAir, progress, radio
<1>3. \/ heard' = heard
      \/ heard' = count + 1 /\ count' = count + 1
  BY DEF RadioNext, PhoneConnects, PhoneVanishes, PhoneEncrypts, AcceptPairing, CompareNumbers,
         AnswerComparison, PairingEncrypts, SaveBond, LoseTransport, Pairs, progress
<1>4. ResultStands'
  BY <1>2 DEF Kept, ResultStands, report
<1>5. Before' = Before
  BY <1>2 DEF Before
<1>6. CyclesHeld'
  <2>1. /\ \A n \in Before' : Done(n)' /\ until'[held'[n]] # "up"
        /\ \A m, n \in Before' : held'[m] = held'[n] => m = n
    BY <1>1, <1>2, BeforeStays
  <2>2. ASSUME stage \in Held \/ passed PROVE Done(cycle)'
    <3>1. stage \notin InCycle /\ Done(cycle) /\ cycle \in Nat
      BY <2>2 DEF Kept, ResultStands, CyclesHeld, Held, InCycle, Finished, Closing, Connection
    <3>2. QED
      BY <1>1, <1>2, <3>1, DoneStays
  <2>3. QED
    BY <1>2, <1>5, <2>1, <2>2 DEF CyclesHeld, Kept, report
<1>7. CycleKnows'
  <2>1. stage \in Taken => connection' \in 1..count' /\ \A n \in Before' : held'[n] # connection'
    BY <1>1, <1>2, <1>5 DEF Kept, CycleKnows, LinksKept, Shapes
  <2>2. stage = "listen" /\ heard' # None => heard' \in 1..count' /\ \A n \in Before' : held'[n] # heard'
    <3>1. \A n \in Before : held[n] \in 1..count
      BY DEF Kept, CyclesHeld, Done
    <3>2. QED
      BY <1>1, <1>2, <1>3, <1>5, <3>1 DEF Kept, CycleKnows, LinksKept, Shapes
  <2>3. ASSUME stage \in Taken PROVE /\ Bonded(connection) => Bonded(connection)'
                                     /\ encrypted[connection] => encrypted'[connection]
    BY <1>1, <1>2, <2>3 DEF Kept, CycleKnows, LinksKept, Bonded
  <2>4. stage = "holding" => until'[connection] \in {"up", "holding"}
    BY <1>1, <1>2 DEF Kept, CycleKnows, LinksKept, Taken
  <2>5. QED
    BY <1>2, <2>1, <2>2, <2>3, <2>4 DEF Kept, CycleKnows, Taken
<1>8. QED
  BY <1>4, <1>6, <1>7 DEF Kept

\* Steps of the probe by which no cycle comes to an end.
LEMMA CyclesStay ==
  ASSUME Shapes, Kept, LinksKept, cycle' = cycle, held' = held,
         stage' \in Held \/ passed' => stage \in Held \/ passed,
         stage' \in Held => stage \in Held /\ connection' = connection
  PROVE  CyclesHeld'
<1>1. /\ \A n \in Before' : Done(n)' /\ until'[held'[n]] # "up"
      /\ \A m, n \in Before' : held'[m] = held'[n] => m = n
  BY BeforeStays
<1>2. Before' = Before
  BY DEF Before
<1>3. ASSUME stage' \in Held \/ passed' PROVE Done(cycle)'
  <2>1. stage \notin InCycle /\ Done(cycle) /\ cycle \in Nat
    BY <1>3, ProbeAssumption
    DEF Kept, ResultStands, CyclesHeld, Held, InCycle, Finished, Closing, Connection
  <2>2. QED
    BY <2>1, DoneStays
<1>4. QED
  BY <1>1, <1>2, <1>3 DEF CyclesHeld, Kept

\* The ways into the cleanup.
LEMMA CleanUpIsFinished ==
  ASSUME CleanUp
  PROVE  stage' \in Finished /\ (poweredOn => stage' # "over")
BY DEF CleanUp, Goto, Finished, Closing

LEMMA FinishedKnows ==
  ASSUME stage' \in Finished
  PROVE  CycleKnows' /\ stage' \notin Held
BY DEF Finished, Closing, CycleKnows, Taken, Held

\* Steps up to the end of a cycle's hold.
LEMMA WithinKeeps ==
  ASSUME Shapes, Kept, MainNext, ~NextRun,
         \/ StartProbe \/ OpenTransport \/ PowerOnRadio \/ ReadKeys \/ StartAdvertising
         \/ Look \/ Hear \/ LookUpBond \/ WaitEncrypted \/ WaitBondSaved \/ PrepareService \/ BeginHold
  PROVE  Kept'
<1> USE ProbeAssumption
<1>1. LinksKept /\ UNCHANGED <<count, bonds, peer, encrypted>>
  BY MainKeepsLinks
<1>2. /\ UNCHANGED <<cycle, held, report, until>>
      /\ stage \notin Finished \cup Held
      /\ \/ poweredOn' = TRUE
         \/ /\ poweredOn' = poweredOn
            /\ stage' \in InCycle \cup {"keys"} => stage \in InCycle \cup {"keys"}
      /\ stage' \in {"open", "power", "keys", "over"} \cup InCycle
  BY DEF StartProbe, OpenTransport, PowerOnRadio, ReadKeys, StartAdvertising, Look, Hear, LookUpBond,
         WaitEncrypted, WaitBondSaved, PrepareService, BeginHold, Goto, radio, progress, linksVars,
         InCycle, Held, Finished, Closing
<1>3. ~passed /\ ~cancelled /\ ~passed' /\ ~cancelled'
  BY <1>2 DEF Kept, ResultStands, report
<1>4. ResultStands'
  BY <1>2, <1>3 DEF Kept, ResultStands, InCycle, Held
<1>5. CyclesHeld'
  BY <1>1, <1>2, <1>3, CyclesStay DEF Held, InCycle
<1>6. CycleKnows'
  <2> USE DEF Kept, CycleKnows, Goto, Taken, Held, Bonded, progress, linksVars
  <2>1. Before' = Before
    BY <1>2 DEF Before
  <2>2. CASE StartProbe \/ OpenTransport \/ PowerOnRadio \/ ReadKeys \/ StartAdvertising
    BY <2>2 DEF StartProbe, OpenTransport, PowerOnRadio, ReadKeys, StartAdvertising
  <2>3. CASE Look
    <3>1. ASSUME NEW c \in Connection, Active(c), connection' = c, stage' = "bond"
          PROVE  CycleKnows'
      <4>1. c \in 1..count /\ \A n \in Before : held[n] # c
        BY <3>1 DEF Shapes, Active, Connection, CyclesHeld
      <4>2. QED
        BY <1>1, <1>2, <2>1, <3>1, <4>1
    <3>2. ASSUME stage' = "listen", heard' = None PROVE CycleKnows'
      BY <3>2
    <3>3. QED
      BY <2>3, <3>1, <3>2 DEF Look
  <2>4. CASE Hear
    BY <1>1, <1>2, <2>1, <2>4 DEF Hear
  <2>5. CASE LookUpBond
    BY <1>1, <1>2, <2>1, <2>5 DEF LookUpBond
  <2>6. CASE WaitEncrypted
    BY <1>1, <1>2, <2>1, <2>6 DEF WaitEncrypted
  <2>7. CASE WaitBondSaved
    BY <1>1, <1>2, <2>1, <2>7 DEF WaitBondSaved
  <2>8. CASE PrepareService
    BY <1>1, <1>2, <2>1, <2>8 DEF PrepareService
  <2>9. CASE BeginHold
    BY <1>1, <1>2, <2>1, <2>9 DEF BeginHold, OnConnection, Active
  <2>10. QED
    BY <2>2, <2>3, <2>4, <2>5, <2>6, <2>7, <2>8, <2>9
<1>7. QED
  BY <1>4, <1>5, <1>6 DEF Kept

\* The ways out of a cycle, and the cleanup.
LEMMA LeavingKeeps ==
  ASSUME Shapes, Kept, MainNext, ~NextRun,
         \/ RefuseStranger \/ ProbeFails \/ CancelProbe
         \/ StopAdvertising \/ PowerOffRadio \/ CloseTransport
  PROVE  Kept'
<1> USE ProbeAssumption
<1>1. LinksKept
  BY MainKeepsLinks
<1>2. /\ UNCHANGED <<cycle, held>> /\ stage' \in Finished
      /\ passed' => passed
  <2>1. CASE RefuseStranger \/ ProbeFails \/ CancelProbe
    <3>1. CleanUp /\ UNCHANGED <<cycle, held>> /\ (passed' => passed)
      BY <2>1 DEF RefuseStranger, ProbeFails, CancelProbe, progress, report
    <3>2. QED
      BY <3>1, CleanUpIsFinished
  <2>2. CASE StopAdvertising \/ PowerOffRadio
    <3>1. UNCHANGED <<cycle, held, passed>>
      BY <2>2 DEF StopAdvertising, PowerOffRadio, progress
    <3>2. stage' \in Finished
      BY <2>2 DEF StopAdvertising, PowerOffRadio, Goto, Finished, Closing
    <3>3. QED
      BY <3>1, <3>2
  <2>3. CASE CloseTransport
    BY <2>3 DEF CloseTransport, Goto, progress, Finished
  <2>4. QED
    BY <2>1, <2>2, <2>3
<1>3. CycleKnows' /\ stage' \notin Held
  BY <1>2, FinishedKnows
<1>4. CyclesHeld'
  BY <1>1, <1>2, <1>3, CyclesStay
<1>5. ResultStands'
  <2> USE DEF Kept, ResultStands, Finished, Closing, InCycle, Held, Opening, Connection
  <2>1. CASE RefuseStranger \/ ProbeFails \/ CancelProbe
    BY <1>2, <2>1 DEF RefuseStranger, ProbeFails, CancelProbe, report
  <2>2. CASE StopAdvertising \/ PowerOffRadio
    <3>1. /\ stage' \in Closing /\ stage \in Closing /\ UNCHANGED passed
          /\ failed' = TRUE \/ UNCHANGED <<failed, cancelled>>
      BY <2>2 DEF StopAdvertising, PowerOffRadio, CleanUpStepFails, Goto
    <3>2. QED
      BY <1>2, <3>1
  <2>4. CASE CloseTransport
    <3>1. /\ stage' = "over" /\ stage \in Closing /\ (passed' => passed /\ ~failed')
          /\ \/ failed' = TRUE
             \/ channel' = FALSE /\ UNCHANGED <<failed, cancelled>>
      BY <2>4 DEF CloseTransport, CleanUpStepFails, Goto
    <3>2. QED
      BY <1>2, <3>1
  <2>5. QED
    BY <2>1, <2>2, <2>4
<1>6. QED
  BY <1>3, <1>4, <1>5 DEF Kept

\* The end of a cycle.
LEMMA EndingKeeps ==
  ASSUME Shapes, Kept, MainNext, ~NextRun, HoldElapses \/ StopProfile \/ HangUp
  PROVE  Kept'
<1> USE ProbeAssumption
<1>1. LinksKept /\ UNCHANGED <<count, bonds, peer, encrypted>>
  BY MainKeepsLinks
<1>2. /\ cycle \in Connection /\ poweredOn /\ ~passed /\ ~cancelled
      /\ cycle \in Nat
  BY DEF Kept, ResultStands, HoldElapses, StopProfile, HangUp, InCycle, Held, Finished, Closing, Connection
<1>3. ASSUME EndOfCycle, cycle' = cycle, UNCHANGED <<failed, cancelled, poweredOn>>, DOMAIN held' = Connection
      PROVE  ResultStands' /\ (stage' \in Held => stage' = "disconnect")
             /\ (stage' = "disconnect" \/ stage' \in Finished)
  BY <1>2, <1>3 DEF EndOfCycle, CleanUp, Goto, ResultStands, Held, InCycle, Finished, Closing, Connection
<1>4. CASE StopProfile
  <2>1. /\ UNCHANGED <<cycle, held, connection, poweredOn, failed, cancelled>> /\ EndOfCycle /\ stage \in Held
    BY <1>4 DEF StopProfile, progress, radio, Held
  <2>2. ResultStands' /\ (stage' = "disconnect" \/ stage' \in Finished)
    BY <1>3, <2>1 DEF Kept, ResultStands
  <2>3. CyclesHeld'
    BY <1>1, <2>1, CyclesStay
  <2>4. CycleKnows'
    <3>1. Before' = Before
      BY <2>1 DEF Before
    <3>2. CASE stage' = "disconnect"
      BY <1>1, <2>1, <3>1, <3>2 DEF Kept, CycleKnows, Taken, Held
    <3>3. QED
      BY <2>2, <3>2, FinishedKnows
  <2>5. QED
    BY <2>2, <2>3, <2>4 DEF Kept
<1>5. CASE HoldElapses
  <2>1. /\ UNCHANGED <<cycle, connection, poweredOn, failed, cancelled, until>> /\ stage = "holding"
        /\ held' = [held EXCEPT ![cycle] = connection] /\ until[connection] = "up"
        /\ IF profile THEN stage' = "stop" /\ passed' = passed ELSE EndOfCycle
    BY <1>5 DEF HoldElapses, radio, linksVars, Goto, Kept, CycleKnows
  <2>2. DOMAIN held' = Connection /\ held'[cycle] = connection
        /\ \A n \in Before : n \in Nat /\ n # cycle /\ held'[n] = held[n]
    BY <1>2, <2>1 DEF Kept, ResultStands, Before, Connection
  <2>3. ResultStands' /\ stage' \in Finished \cup Held
    <3>1. CASE profile
      BY <1>2, <2>1, <2>2, <3>1 DEF Kept, ResultStands, InCycle, Held, Finished, Closing
    <3>2. QED
      BY <1>3, <2>1, <2>2, <3>1 DEF Held
  <2>4. Before' = Before
    BY <2>1 DEF Before
  <2>5. Done(cycle)'
    <3>1. /\ connection \in 1..count /\ encrypted[connection] /\ Bonded(connection)
      BY <2>1 DEF Kept, CycleKnows, Taken
    <3>2. QED
      BY <1>1, <2>1, <2>2, <3>1 DEF Done, Bonded, InCycle
  <2>6. CyclesHeld'
    <3>1. /\ \A n \in Before' : Done(n)' /\ until'[held'[n]] # "up"
          /\ \A m, n \in Before' : held'[m] = held'[n] => m = n
      BY <1>1, <2>1, <2>2, BeforeStays
    <3>2. \A n \in Before : held'[n] # connection
      BY <2>1, <2>2 DEF Kept, CycleKnows, Taken
    <3>3. QED
      BY <2>1, <2>2, <2>4, <2>5, <3>1, <3>2 DEF CyclesHeld
  <2>7. CycleKnows'
    <3>1. CASE stage' \in Held
      BY <1>1, <2>1, <2>2, <2>4, <3>1 DEF Kept, CycleKnows, Taken, Held
    <3>2. QED
      BY <2>3, <3>1, FinishedKnows
  <2>8. QED
    BY <2>3, <2>6, <2>7 DEF Kept
<1>6. CASE HangUp
  <2>1. /\ UNCHANGED <<held, connection, poweredOn, report>> /\ stage = "disconnect"
        /\ cycle' = cycle + 1 /\ stage' = "advertise"
        /\ until' = [until EXCEPT ![connection] = "disconnect"]
    BY <1>6 DEF HangUp, radio, Goto
  <2>2. ResultStands'
    BY <1>2, <2>1 DEF Kept, ResultStands, report, InCycle, Held, Finished, Closing, Connection
  <2>3. Before' = Before \cup {cycle}
    BY <1>2, <2>1 DEF Before, Connection
  <2>4. Done(cycle) /\ held[cycle] = connection /\ \A n \in Before : held[n] # held[cycle]
    BY <2>1 DEF Kept, CyclesHeld, Held
  <2>5. ASSUME NEW n \in Before' PROVE Done(n)' /\ until'[held'[n]] # "up"
    <3>1. n \in Nat /\ held'[n] = held[n] /\ Done(n) /\ (n # cycle => until[held[n]] # "up")
      BY <1>2, <2>1, <2>3, <2>4 DEF Kept, CyclesHeld, Before
    <3>2. until'[connection] # "up"
      BY <2>1, <2>4 DEF Done, Shapes, Connection
    <3>3. QED
      BY <1>1, <2>1, <2>4, <3>1, <3>2, DoneStays DEF InCycle
  <2>6. \A m, n \in Before' : held'[m] = held'[n] => m = n
    BY <2>1, <2>3, <2>4 DEF Kept, CyclesHeld
  <2>7. CyclesHeld'
    BY <1>2, <2>1, <2>5, <2>6 DEF CyclesHeld, Held, report
  <2>8. CycleKnows'
    BY <2>1 DEF CycleKnows, Taken, Held
  <2>9. QED
    BY <2>2, <2>7, <2>8 DEF Kept
<1>7. QED
  BY <1>4, <1>5, <1>6

\* What each cycle has held, of any number: the inductive invariant.
THEOREM KeptAlways == ProbeSpec => []Kept
<1> USE ProbeAssumption
<1>1. ProbeInit => Kept
  BY DEF ProbeInit, Kept, ResultStands, CyclesHeld, CycleKnows, Connection, Before, Taken, Held,
         InCycle, Finished, Closing, None
<1>2. Shapes /\ Kept /\ [ProbeNext]_probeVars => Kept'
  <2> SUFFICES ASSUME Shapes, Kept, [ProbeNext]_probeVars PROVE Kept'
    OBVIOUS
  <2>1. CASE NextRun
    BY <2>1 DEF NextRun, Goto, Kept, ResultStands, CyclesHeld, CycleKnows, Connection, Before, Taken,
                Held, InCycle, Finished, Closing, None
  <2>2. CASE MainNext /\ ~NextRun
    BY <2>2, WithinKeeps, LeavingKeeps, EndingKeeps DEF MainNext
  <2>3. CASE RadioNext
    BY <2>3, RadioKeeps
  <2>4. CASE UNCHANGED probeVars
    BY <2>4 DEF probeVars, radio, progress, linksVars, report, Kept, ResultStands, CyclesHeld,
                CycleKnows, Before, Done, Bonded
  <2>5. QED
    BY <2>1, <2>2, <2>3, <2>4 DEF ProbeNext
<1>3. QED
  BY <1>1, <1>2, ChosenAlways, PTL DEF ProbeSpec

\* PassIsTrue, for any phones and any number of cycles.
THEOREM PassMeansHeld == ProbeSpec => []PassIsTrue
<1>1. Shapes /\ Kept => PassIsTrue
  <2> SUFFICES ASSUME Shapes, Kept, passed, stage = "over"
               PROVE  /\ ~cancelled /\ ~channel
                      /\ \A n \in 1..(Cycles + 1) :
                           /\ held[n] \in Connection
                           /\ encrypted[held[n]] /\ Bonded(held[n])
                           /\ until[held[n]] \notin InCycle
                           /\ \A m \in 1..(n - 1) : held[m] # held[n]
    BY DEF PassIsTrue
  <2> USE ProbeAssumption
  <2>1. cycle = Cycles + 1 /\ ~cancelled /\ ~channel
    BY DEF Kept, ResultStands
  <2>2. \A n \in 1..(Cycles + 1) : n \in Before \/ n = cycle
    BY <2>1 DEF Before
  <2>3. \A n \in 1..(Cycles + 1) : Done(n)
    BY <2>2 DEF Kept, CyclesHeld
  <2>4. ASSUME NEW n \in 1..(Cycles + 1), NEW k \in 1..(n - 1) PROVE held[k] # held[n]
    <3>1. k \in Before /\ k # n
      BY <2>1 DEF Before
    <3>2. QED
      BY <2>2, <3>1 DEF Kept, CyclesHeld
  <2>5. QED
    BY <2>1, <2>3, <2>4 DEF Done, Shapes, Connection
<1>2. QED
  BY <1>1, ChosenAlways, KeptAlways, PTL

-----------------------------------------------------------------------------
(* Probe's types, for any phones and any number of cycles.                 *)

TaskTypes ==
  /\ stage \in Stages /\ cycle \in Connection /\ (stage = "disconnect" => cycle <= Cycles)
  /\ heard \in Connection \cup {None} /\ connection \in Connection \cup {None}
  /\ enrolling \in BOOLEAN /\ held \in [Connection -> Connection \cup {None}]

RadioTypes ==
  /\ channel \in BOOLEAN /\ lost \in BOOLEAN /\ poweredOn \in BOOLEAN /\ advertising \in BOOLEAN
  /\ available \in BOOLEAN /\ enrollment \in Connection \cup {None}

ReportTypes ==
  /\ enroll \in BOOLEAN /\ profile \in BOOLEAN
  /\ failed \in BOOLEAN /\ cancelled \in BOOLEAN /\ passed \in BOOLEAN

\* Only what has connected pairs, and only phones have.
LinksTypes ==
  /\ bonds \subseteq Phone /\ count \in 0..(Cycles + 1)
  /\ peer \in [Connection -> Phone \cup {None}]
  /\ until \in [Connection -> Stages \cup {"new", "up"}]
  /\ encrypted \in [Connection -> BOOLEAN]
  /\ pairing \in [Connection -> {"none", "accepted", "shown", "confirmed", "keys", "done"}]
  /\ \A c \in Connection : /\ c <= count => peer[c] \in Phone
                           /\ c > count => pairing[c] = "none" /\ until[c] = "new"

ProbeTypes == TaskTypes /\ RadioTypes /\ ReportTypes /\ LinksTypes

LEMMA StageStays ==
  ASSUME stage \in Stages, MainNext
  PROVE  stage' \in Stages
<1> USE DEF Goto, CleanUp, EndOfCycle, Stages, InCycle, Held, Opening, Closing
<1>1. CASE NextRun \/ StartProbe \/ OpenTransport \/ PowerOnRadio \/ ReadKeys
  BY <1>1 DEF NextRun, StartProbe, OpenTransport, PowerOnRadio, ReadKeys
<1>2. CASE StartAdvertising \/ Look \/ Hear \/ LookUpBond \/ RefuseStranger \/ WaitEncrypted
  BY <1>2 DEF StartAdvertising, Look, Hear, LookUpBond, RefuseStranger, WaitEncrypted
<1>3. CASE WaitBondSaved \/ PrepareService \/ BeginHold \/ HoldElapses \/ StopProfile \/ HangUp
  BY <1>3 DEF WaitBondSaved, PrepareService, BeginHold, HoldElapses, StopProfile, HangUp
<1>4. CASE ProbeFails \/ CancelProbe \/ StopAdvertising \/ PowerOffRadio \/ CloseTransport
  BY <1>4 DEF ProbeFails, CancelProbe, StopAdvertising, PowerOffRadio, CloseTransport
<1>5. QED
  BY <1>1, <1>2, <1>3, <1>4 DEF MainNext

LEMMA CycleStays ==
  ASSUME TaskTypes, MainNext
  PROVE  cycle' \in Connection /\ (stage' = "disconnect" => cycle' <= Cycles)
<1> USE ProbeAssumption DEF TaskTypes, progress, Goto, CleanUp
<1>1. CASE NextRun
  BY <1>1 DEF NextRun, Connection
<1>2. CASE StartProbe \/ OpenTransport \/ PowerOnRadio \/ ReadKeys \/ StartAdvertising
  BY <1>2 DEF StartProbe, OpenTransport, PowerOnRadio, ReadKeys, StartAdvertising
<1>3. CASE Look \/ Hear \/ LookUpBond \/ RefuseStranger \/ WaitEncrypted
  BY <1>3 DEF Look, Hear, LookUpBond, RefuseStranger, WaitEncrypted
<1>4. CASE WaitBondSaved \/ PrepareService \/ BeginHold \/ HoldElapses \/ StopProfile
  BY <1>4 DEF WaitBondSaved, PrepareService, BeginHold, HoldElapses, StopProfile, EndOfCycle
<1>5. CASE HangUp
  BY <1>5 DEF HangUp, Connection
<1>6. CASE ProbeFails \/ CancelProbe \/ StopAdvertising \/ PowerOffRadio \/ CloseTransport
  BY <1>6 DEF ProbeFails, CancelProbe, StopAdvertising, PowerOffRadio, CloseTransport
<1>7. QED
  BY <1>1, <1>2, <1>3, <1>4, <1>5, <1>6 DEF MainNext

LEMMA ChoiceStays ==
  ASSUME TaskTypes, MainNext
  PROVE  /\ heard' \in Connection \cup {None} /\ connection' \in Connection \cup {None}
         /\ enrolling' \in BOOLEAN /\ held' \in [Connection -> Connection \cup {None}]
<1> USE DEF TaskTypes, progress
<1>1. CASE NextRun
  BY <1>1 DEF NextRun
<1>2. CASE Look \/ Hear \/ LookUpBond
  BY <1>2 DEF Look, Hear, LookUpBond
<1>3. CASE HoldElapses
  BY <1>3 DEF HoldElapses
<1>4. CASE HangUp
  BY <1>4 DEF HangUp
<1>5. CASE ~(NextRun \/ Look \/ Hear \/ LookUpBond \/ HoldElapses \/ HangUp)
  <2>1. UNCHANGED progress
    BY <1>5 DEF MainNext, StartProbe, OpenTransport, PowerOnRadio, ReadKeys, StartAdvertising, RefuseStranger,
       WaitEncrypted, WaitBondSaved, PrepareService, BeginHold, StopProfile, ProbeFails, CancelProbe,
       StopAdvertising, PowerOffRadio, CloseTransport
  <2>2. QED
    BY <2>1
<1>6. QED
  BY <1>1, <1>2, <1>3, <1>4, <1>5

LEMMA RadioTypesStay ==
  ASSUME RadioTypes, MainNext
  PROVE  RadioTypes'
<1> USE DEF RadioTypes
<1>1. CASE NextRun
  BY <1>1 DEF NextRun
<1>2. CASE OpenTransport \/ PowerOnRadio
  BY <1>2 DEF OpenTransport, PowerOnRadio, selection
<1>3. CASE ReadKeys
  BY <1>3 DEF ReadKeys, radio
<1>4. CASE StartAdvertising
  BY <1>4 DEF StartAdvertising, selection
<1>5. CASE WaitEncrypted
  BY <1>5 DEF WaitEncrypted, radio
<1>6. CASE StopAdvertising
  BY <1>6 DEF StopAdvertising, CleanUpStepFails, selection
<1>7. CASE CloseTransport
  <2>1. channel' \in BOOLEAN /\ advertising' \in {advertising, FALSE}
    BY <1>7 DEF CloseTransport, CleanUpStepFails
  <2>2. UNCHANGED <<lost, poweredOn, selection>>
    BY <1>7 DEF CloseTransport
  <2>3. QED
    BY <2>1, <2>2 DEF selection
<1>8. CASE ~(NextRun \/ OpenTransport \/ PowerOnRadio \/ ReadKeys \/ StartAdvertising \/ WaitEncrypted
             \/ StopAdvertising \/ CloseTransport)
  <2>1. UNCHANGED <<radio, selection>>
    BY <1>8 DEF MainNext, StartProbe, Look, Hear, LookUpBond, RefuseStranger, WaitBondSaved, PrepareService,
       BeginHold, HoldElapses, StopProfile, HangUp, ProbeFails, CancelProbe, PowerOffRadio
  <2>2. QED
    BY <2>1 DEF radio, selection
<1>9. QED
  BY <1>1, <1>2, <1>3, <1>4, <1>5, <1>6, <1>7, <1>8

LEMMA ReportTypesStay ==
  ASSUME ReportTypes, MainNext
  PROVE  ReportTypes'
<1>1. CASE NextRun
  BY <1>1 DEF NextRun, ReportTypes
<1>2. CASE HoldElapses \/ StopProfile
  <2>1. UNCHANGED <<options, failed, cancelled>> /\ passed' \in {passed, TRUE}
    BY <1>2 DEF HoldElapses, StopProfile, EndOfCycle
  <2>2. QED
    BY <2>1 DEF ReportTypes, options
<1>3. CASE CancelProbe
  <2>1. UNCHANGED <<options, failed, passed>> /\ cancelled' = TRUE
    BY <1>3 DEF CancelProbe
  <2>2. QED
    BY <2>1 DEF ReportTypes, options
<1>4. CASE StopAdvertising \/ PowerOffRadio \/ CloseTransport
  <2>1. UNCHANGED options /\ failed' \in {failed, TRUE} /\ cancelled' \in {cancelled, TRUE}
    BY <1>4 DEF StopAdvertising, PowerOffRadio, CloseTransport, CleanUpStepFails
  <2>2. passed' = passed \/ passed' = (passed /\ ~failed')
    BY <1>4 DEF StopAdvertising, PowerOffRadio, CloseTransport
  <2>3. QED
    BY <2>1, <2>2 DEF ReportTypes, options
<1>5. CASE ~(NextRun \/ HoldElapses \/ StopProfile \/ CancelProbe \/ StopAdvertising \/ PowerOffRadio
             \/ CloseTransport)
  <2>1. UNCHANGED <<options, report>>
    BY <1>5 DEF MainNext, StartProbe, OpenTransport, PowerOnRadio, ReadKeys, StartAdvertising, Look, Hear,
       LookUpBond, RefuseStranger, WaitEncrypted, WaitBondSaved, PrepareService, BeginHold, HangUp, ProbeFails
  <2>2. QED
    BY <2>1 DEF ReportTypes, options, report
<1>6. QED
  BY <1>1, <1>2, <1>3, <1>4, <1>5

\* What phones do to their connections alone.
LEMMA StepAside ==
  ASSUME TaskTypes, RadioTypes, ReportTypes,
         UNCHANGED <<stage, options, radio, selection, progress, report>>
  PROVE  TaskTypes' /\ RadioTypes' /\ ReportTypes'
<1>1. TaskTypes'
  BY DEF TaskTypes, progress
<1>2. RadioTypes'
  BY DEF RadioTypes, radio, selection
<1>3. ReportTypes'
  BY DEF ReportTypes, options, report
<1>4. QED
  BY <1>1, <1>2, <1>3

LEMMA EndedLinksTyped ==
  ASSUME LinksTypes, stage \in Stages, bonds' = bonds, LinksEnd
  PROVE  LinksTypes'
BY DEF LinksTypes, LinksEnd

LEMMA UntouchedLinksTyped ==
  ASSUME LinksTypes, bonds' = bonds, UNCHANGED linksVars
  PROVE  LinksTypes'
BY DEF LinksTypes, linksVars

LEMMA LinksTypesStay ==
  ASSUME LinksTypes, TaskTypes, MainNext
  PROVE  LinksTypes'
<1> USE UntouchedLinksTyped
<1>0. stage \in Stages
  BY DEF TaskTypes
<1>1. CASE NextRun
  <2>1. bonds' = bonds /\ count' = 0 /\ peer' = [c \in Connection |-> None]
        /\ until' = [c \in Connection |-> "new"] /\ encrypted' = [c \in Connection |-> FALSE]
        /\ pairing' = [c \in Connection |-> "none"]
    BY <1>1 DEF NextRun
  <2>2. \A c \in Connection : ~(c <= 0)
    BY DEF Connection
  <2>3. QED
    BY <2>1, <2>2, ProbeAssumption DEF LinksTypes
<1>2. CASE StartProbe \/ OpenTransport \/ PowerOnRadio \/ ReadKeys \/ StartAdvertising
  BY <1>2 DEF StartProbe, OpenTransport, PowerOnRadio, ReadKeys, StartAdvertising
<1>3. CASE Look \/ Hear \/ LookUpBond \/ WaitEncrypted \/ WaitBondSaved \/ PrepareService \/ BeginHold
  BY <1>3 DEF Look, Hear, LookUpBond, WaitEncrypted, WaitBondSaved, PrepareService, BeginHold
<1>4. CASE HoldElapses \/ StopProfile \/ ProbeFails \/ CancelProbe \/ StopAdvertising
  BY <1>4 DEF HoldElapses, StopProfile, ProbeFails, CancelProbe, StopAdvertising
<1>5. CASE RefuseStranger \/ HangUp
  <2>1. /\ until' = [until EXCEPT ![connection] = stage] /\ until[connection] # "new"
        /\ UNCHANGED <<bonds, count, peer, encrypted, pairing>>
    BY <1>5 DEF RefuseStranger, HangUp, OnConnection, Active
  <2>2. QED
    BY <1>0, <2>1 DEF LinksTypes
<1>6. CASE PowerOffRadio
  BY <1>0, <1>6, EndedLinksTyped DEF PowerOffRadio
<1>7. CASE CloseTransport
  <2>1. bonds' = bonds /\ (LinksEnd \/ UNCHANGED linksVars)
    BY <1>7 DEF CloseTransport
  <2>2. QED
    BY <1>0, <2>1, EndedLinksTyped
<1>8. QED
  BY <1>1, <1>2, <1>3, <1>4, <1>5, <1>6, <1>7 DEF MainNext

\* The variables of a probe stay in their types, in every run of the lab: what it saves
\* are bonds with phones, and no cycle comes after the last.
THEOREM ProbeTypeCorrect == ProbeSpec => []ProbeTypeOK
<1> USE ProbeAssumption
<1>1. ProbeInit => ProbeTypes
  <2> SUFFICES ASSUME ProbeInit PROVE ProbeTypes
    OBVIOUS
  <2>1. TaskTypes /\ RadioTypes /\ ReportTypes
    <3>1. 1 \in Connection
      BY DEF Connection
    <3>2. TaskTypes
      BY <3>1 DEF ProbeInit, TaskTypes, Stages
    <3>3. QED
      BY <3>2 DEF ProbeInit, RadioTypes, ReportTypes
  <2>2. bonds \subseteq Phone
    BY DEF ProbeInit
  <2>3. \A c \in Connection : ~(c <= 0)
    BY DEF Connection
  <2>4. LinksTypes
    BY <2>2, <2>3 DEF ProbeInit, LinksTypes
  <2>5. QED
    BY <2>1, <2>4 DEF ProbeTypes
<1>2. ProbeTypes /\ [ProbeNext]_probeVars => ProbeTypes'
  <2> SUFFICES ASSUME ProbeTypes, [ProbeNext]_probeVars PROVE ProbeTypes'
    OBVIOUS
  <2>0. TaskTypes /\ RadioTypes /\ ReportTypes /\ LinksTypes
    BY DEF ProbeTypes
  <2>1. CASE MainNext
    <3>1. TaskTypes'
      <4>1. stage' \in Stages
        BY <2>0, <2>1, StageStays DEF TaskTypes
      <4>2. QED
        BY <2>0, <2>1, <4>1, CycleStays, ChoiceStays DEF TaskTypes
    <3>2. QED
      BY <2>0, <2>1, <3>1, RadioTypesStay, ReportTypesStay, LinksTypesStay DEF ProbeTypes
  <2>2. ASSUME NEW p \in Phone, PhoneConnects(p) PROVE ProbeTypes'
    <3>1. count' = count + 1 /\ count' \in Connection
      BY <2>0, <2>2 DEF PhoneConnects, LinksTypes, Connection
    <3>2. TaskTypes'
      BY <2>0, <2>2, <3>1 DEF PhoneConnects, TaskTypes
    <3>3. RadioTypes' /\ ReportTypes'
      BY <2>0, <2>2, <3>1 DEF PhoneConnects, RadioTypes, ReportTypes, selection, options, report
    <3>4. LinksTypes'
      <4>1. /\ peer' = [peer EXCEPT ![count'] = p] /\ until' = [until EXCEPT ![count'] = "up"]
            /\ UNCHANGED <<bonds, encrypted, pairing>>
        BY <2>2 DEF PhoneConnects
      <4>2. \A c \in Connection : c \in Nat
        BY DEF Connection
      <4>3. count \in Nat /\ count' \in 0..(Cycles + 1)
        BY <2>0, <3>1 DEF LinksTypes, Connection
      <4>4. \A c \in Connection : /\ c <= count' => c = count' \/ c <= count
                                  /\ c > count' => c > count /\ c # count'
        BY <3>1, <4>2, <4>3
      <4>5. QED
        BY <2>0, <3>1, <4>1, <4>3, <4>4 DEF LinksTypes
    <3>5. QED
      BY <3>2, <3>3, <3>4 DEF ProbeTypes
  <2>3. ASSUME NEW c \in Connection,
               \/ PhoneVanishes(c) \/ PhoneEncrypts(c) \/ AcceptPairing(c) \/ CompareNumbers(c)
               \/ AnswerComparison(c) \/ PairingEncrypts(c) \/ SaveBond(c)
        PROVE  ProbeTypes'
    <3>1. /\ TaskTypes' /\ RadioTypes' /\ ReportTypes'
      <4>1. UNCHANGED <<stage, options, radio, selection, progress, report>>
        BY <2>3 DEF PhoneVanishes, PhoneEncrypts, AcceptPairing, CompareNumbers, AnswerComparison,
                    PairingEncrypts, SaveBond, Pairs
      <4>2. QED
        BY <2>0, <4>1, StepAside
    <3>2. LinksTypes'
      <4>0. stage \in Stages /\ c \in Nat /\ count \in Nat
        BY <2>0 DEF TaskTypes, LinksTypes, Connection
      <4>1. CASE PhoneVanishes(c)
        BY <2>0, <4>0, <4>1 DEF LinksTypes, PhoneVanishes, Active
      <4>2. CASE PhoneEncrypts(c)
        BY <2>0, <4>0, <4>2 DEF LinksTypes, PhoneEncrypts, Active
      <4>3. CASE AcceptPairing(c) \/ CompareNumbers(c) \/ AnswerComparison(c) \/ PairingEncrypts(c)
        BY <2>0, <4>0, <4>3 DEF LinksTypes, AcceptPairing, CompareNumbers, AnswerComparison, PairingEncrypts,
           Pairs, Active
      <4>4. CASE SaveBond(c)
        BY <2>0, <4>0, <4>4 DEF LinksTypes, SaveBond
      <4>5. QED
        BY <2>3, <4>1, <4>2, <4>3, <4>4
    <3>3. QED
      BY <3>1, <3>2 DEF ProbeTypes
  <2>4. CASE LoseTransport
    <3>1. TaskTypes' /\ RadioTypes' /\ ReportTypes'
      BY <2>0, <2>4 DEF LoseTransport, options, selection, progress, report, TaskTypes, RadioTypes, ReportTypes
    <3>2. QED
      BY <2>0, <2>4, <3>1, EndedLinksTyped DEF LoseTransport, ProbeTypes, TaskTypes
  <2>5. CASE UNCHANGED probeVars
    <3>1. UNCHANGED <<stage, options, bonds, radio, selection, progress, linksVars, report>>
      BY <2>5 DEF probeVars
    <3>2. TaskTypes' /\ RadioTypes' /\ ReportTypes'
      BY <2>0, <3>1, StepAside
    <3>3. QED
      BY <2>0, <3>1, <3>2, UntouchedLinksTyped DEF ProbeTypes
  <2>6. QED
    BY <2>1, <2>2, <2>3, <2>4, <2>5 DEF ProbeNext, RadioNext
<1>3. ProbeTypes => ProbeTypeOK
  BY DEF ProbeTypes, TaskTypes, RadioTypes, ReportTypes, LinksTypes, ProbeTypeOK
<1>4. QED
  BY <1>1, <1>2, <1>3, PTL DEF ProbeSpec

-----------------------------------------------------------------------------
(* PowerMonitor, for a connection that holds any number of signals.        *)

Waiting == \E i \in 1..Len(signals) : signals[i] = "on"

\* A monitor that BlueZ can start beside has its match, and the power-on it
\* owes an attempt for is in its connection.
MonitorInv ==
  /\ MonitorTypeOK
  /\ monitor \in Ready \cup {"subscribing"} => subscribed
  /\ owed => monitor \in Ready /\ Waiting

\* What comes behind leaves a power-on waiting; so does the reading of
\* anything else before it.
LEMMA QueueKeepsPowerOn ==
  ASSUME signals \in Seq({"on", "other"}), NEW s \in {"on", "other"}
  PROVE  /\ signals' = Append(signals, s) /\ (s = "on" \/ Waiting) => Waiting'
         /\ signals # <<>> /\ signals' = Tail(signals) /\ Head(signals) # "on" /\ Waiting
              => Waiting'
<1>1. ASSUME signals' = Append(signals, s), s = "on"  PROVE Waiting'
  <2>1. Len(signals') = Len(signals) + 1 /\ signals'[Len(signals) + 1] = "on"
    BY <1>1
  <2>2. Len(signals) + 1 \in 1..Len(signals')
    BY <2>1
  <2>3. QED
    BY <2>1, <2>2 DEF Waiting
<1>2. ASSUME signals' = Append(signals, s), Waiting  PROVE Waiting'
  <2>1. PICK i \in 1..Len(signals) : signals[i] = "on"
    BY <1>2 DEF Waiting
  <2>2. i \in 1..Len(signals') /\ signals'[i] = "on"
    BY <1>2, <2>1
  <2>3. QED
    BY <2>2 DEF Waiting
<1>3. ASSUME signals # <<>>, signals' = Tail(signals), Head(signals) # "on", Waiting
      PROVE  Waiting'
  <2>1. PICK i \in 1..Len(signals) : signals[i] = "on"
    BY <1>3 DEF Waiting
  <2>2. i # 1
    BY <1>3, <2>1
  <2>3. i - 1 \in 1..Len(signals') /\ signals'[i - 1] = "on"
    BY <1>3, <2>1, <2>2
  <2>4. QED
    BY <2>3 DEF Waiting
<1>4. QED
  BY <1>1, <1>2, <1>3

\* Emit keeps the connection in its bound, and what waits in it.
LEMMA EmitKeepsPowerOn ==
  ASSUME MonitorTypeOK, NEW s \in {"on", "other"}, Emit(s)
  PROVE  /\ signals' \in Seq({"on", "other"}) /\ Len(signals') <= MaxSignals
         /\ subscribed /\ (s = "on" \/ Waiting) => Waiting'
         /\ Waiting => Waiting'
<1>1. CASE subscribed
  <2>1. Len(signals) < MaxSignals /\ signals' = Append(signals, s)
    BY <1>1 DEF Emit
  <2>2. signals \in Seq({"on", "other"}) /\ MaxSignals \in Nat
    BY SignalsAssumption DEF MonitorTypeOK
  <2>3. signals' \in Seq({"on", "other"}) /\ Len(signals') <= MaxSignals
    BY <2>1, <2>2
  <2>4. QED
    BY <1>1, <2>1, <2>2, <2>3, QueueKeepsPowerOn
<1>2. CASE ~subscribed
  BY <1>2 DEF Emit, MonitorTypeOK, Waiting
<1>3. QED
  BY <1>1, <1>2

\* No power-on that a ready monitor could see is lost before its attempt:
\* until an attempt begins, or the program ends, the monitor stays ready with
\* its match installed and the signal in its connection, whatever else comes,
\* and whatever BlueZ does (power-monitor.rs:40-76).
THEOREM PowerOnWaits == MonitorSpec => []MonitorInv
<1> USE DEF Starting, Ready
<1>e. <<>> \in Seq({"on", "other"}) /\ Len(<<>>) <= MaxSignals
  BY SignalsAssumption
<1>1. MonitorInit => MonitorInv
  <2> SUFFICES ASSUME MonitorInit PROVE MonitorInv
    OBVIOUS
  <2>1. signals \in Seq({"on", "other"}) /\ Len(signals) <= MaxSignals
    BY <1>e DEF MonitorInit
  <2>2. QED
    BY <2>1 DEF MonitorInit, MonitorInv, MonitorTypeOK
<1>2. MonitorInv /\ [MonitorNext]_monitorVars => MonitorInv'
  <2> SUFFICES ASSUME MonitorInv, [MonitorNext]_monitorVars PROVE MonitorInv'
    OBVIOUS
  <2>1. CASE MonitorFails
    <3>1. signals' \in Seq({"on", "other"}) /\ Len(signals') <= MaxSignals
      BY <2>1, <1>e DEF MonitorFails
    <3>2. QED
      BY <2>1, <3>1 DEF MonitorFails, MonitorInv, MonitorTypeOK
  <2>2. CASE MonitorRestarts \/ AddMatch \/ RequestName \/ MonitorAttemptEnds
    <3>1. UNCHANGED <<signals, bluez, powered, owed>> /\ (Waiting <=> Waiting')
      BY <2>2 DEF MonitorRestarts, AddMatch, RequestName, MonitorAttemptEnds, Waiting
    <3>2. /\ monitor' \in {"connected", "subscribing", "idle"} /\ subscribed' \in BOOLEAN
          /\ monitor' # "connected" => subscribed'
          /\ owed => monitor' = "idle"
      BY <2>2 DEF MonitorRestarts, AddMatch, RequestName, MonitorAttemptEnds,
                  MonitorInv, MonitorTypeOK
    <3>3. QED
      BY <3>1, <3>2 DEF MonitorInv, MonitorTypeOK
  <2>3. CASE ReadSignal
    <3>1. /\ signals \in Seq({"on", "other"}) /\ Len(signals) <= MaxSignals
          /\ signals # <<>> /\ signals' = Tail(signals) /\ MaxSignals \in Nat
      BY <2>3, SignalsAssumption DEF ReadSignal, MonitorInv, MonitorTypeOK
    <3>2. signals' \in Seq({"on", "other"}) /\ Len(signals') <= MaxSignals
      BY <3>1
    <3>3. CASE Head(signals) = "on"
      BY <2>3, <3>2, <3>3 DEF ReadSignal, MonitorInv, MonitorTypeOK
    <3>4. CASE Head(signals) # "on"
      <4>1. Waiting => Waiting'
        BY <3>1, <3>4, QueueKeepsPowerOn
      <4>2. QED
        BY <2>3, <3>2, <3>4, <4>1 DEF ReadSignal, MonitorInv, MonitorTypeOK
    <3>5. QED
      BY <3>3, <3>4
  <2>4. CASE BluezStarts \/ BluezStops
    <3>1. /\ UNCHANGED <<monitor, subscribed, signals, owed>> /\ (Waiting <=> Waiting')
          /\ bluez' \in BOOLEAN /\ powered' \in {powered, FALSE}
      BY <2>4 DEF BluezStarts, BluezStops, Waiting
    <3>2. QED
      BY <3>1 DEF MonitorInv, MonitorTypeOK
  <2>5. CASE PowerOn
    <3>1. /\ signals' \in Seq({"on", "other"}) /\ Len(signals') <= MaxSignals
          /\ subscribed => Waiting'
      BY <2>5, EmitKeepsPowerOn DEF PowerOn, MonitorInv
    <3>2. owed' => monitor \in Ready
      BY <2>5 DEF PowerOn, MonitorInv
    <3>3. QED
      BY <2>5, <3>1, <3>2 DEF PowerOn, MonitorInv, MonitorTypeOK
  <2>6. CASE PowerOff \/ OtherProperty
    <3>1. Emit("other") /\ UNCHANGED <<monitor, subscribed, bluez, owed>>
      BY <2>6 DEF PowerOff, OtherProperty
    <3>2. /\ signals' \in Seq({"on", "other"}) /\ Len(signals') <= MaxSignals
          /\ Waiting => Waiting'
      BY <3>1, EmitKeepsPowerOn DEF MonitorInv
    <3>3. powered' \in BOOLEAN
      BY <2>6 DEF PowerOff, OtherProperty, MonitorInv, MonitorTypeOK
    <3>4. QED
      BY <3>1, <3>2, <3>3 DEF MonitorInv, MonitorTypeOK
  <2>7. CASE UNCHANGED monitorVars
    <3>1. Waiting <=> Waiting'
      BY <2>7 DEF monitorVars, Waiting
    <3>2. QED
      BY <2>7, <3>1 DEF monitorVars, MonitorInv, MonitorTypeOK
  <2>8. QED
    BY <2>1, <2>2, <2>3, <2>4, <2>5, <2>6, <2>7 DEF MonitorNext
<1>3. QED
  BY <1>1, <1>2, PTL DEF MonitorSpec
=============================================================================
