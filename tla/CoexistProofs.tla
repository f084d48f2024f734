--------------------------- MODULE CoexistProofs ----------------------------
(***************************************************************************)
(* The coexistence test for any companions, devices, handlers and number   *)
(* of unread events: what a verdict, a confirmation, a reply and a missing *)
(* record mean, and the types.                                             *)
(***************************************************************************)
EXTENDS Coexist, FiniteSetTheorems, TLAPS

\* The steps, one by one.
LEMMA NextCases ==
  ASSUME [CoexistNext]_coexistVars
  PROVE  \/ StartRun \/ StartRestore \/ Kill \/ Tick
         \/ Preflight \/ SaveBaseline \/ BaselineFails \/ RegisterAgent \/ SetPairable
         \/ RegisterApp \/ RegisterAdv \/ Look \/ Judge \/ RoundFails
         \/ UndoAdv \/ UndoApp \/ UndoPairable \/ UndoAgent \/ Closing
         \/ RestoreBegins \/ RestoreAnswered \/ Reset \/ Verify \/ VerifyLinks \/ RestoreFails \/ Leave
         \/ \E h \in Handler : HandlerWakes(h) \/ HandlerFails(h) \/ UserAnswers(h)
         \/ \E d \in Device : RequestConfirmation(d)
         \/ \E l \in Link : LinkChanges(l)
         \/ GattAccess \/ Cancel \/ ReadEvents \/ Forget \/ KernelAnswers
         \/ UNCHANGED coexistVars
BY DEF CoexistNext, MainStep, HandlerStep

-----------------------------------------------------------------------------
(* The channel.                                                            *)

ReplyTo == [to: Task, links: SUBSET Link]

ChannelOK ==
  /\ queue \in Seq(Task) /\ replies \in Seq(ReplyTo) /\ links \subseteq Link
  /\ RepliesAreOwn

\* What a step does to the channel.
ChannelStep ==
  \/ UNCHANGED <<queue, replies>>
  \/ queue' = <<>> /\ replies' = <<>>
  \/ queue' = <<Main>> /\ replies' = <<>>
  \/ \E t \in Task : Command(t) \/ Wakes(t) \/ Leaves(t)
  \/ Answers
  \/ queue # <<>> /\ replies' = <<>> /\ queue' = Append(Tail(queue), Main)
  \/ queue # <<>> /\ replies' = <<>> /\ queue' = Tail(queue)

LEMMA ChannelFailure ==
  ASSUME ChannelFails
  PROVE  ChannelStep /\ links' = links
BY CoexistAssumption DEF ChannelFails, GivesUp, Terminate, Unheeded, ChannelStep

LEMMA ChannelSteps ==
  ASSUME [CoexistNext]_coexistVars
  PROVE  ChannelStep /\ links' \subseteq links \cup Link
<1> USE CoexistAssumption DEF linkVars
<1>1. CASE StartRun \/ StartRestore \/ Tick \/ Forget \/ Cancel \/ GattAccess \/ Reset
  BY <1>1 DEF StartRun, StartRestore, Tick, Forget, Cancel, GattAccess, Reset, ChannelStep
<1>2. CASE Kill \/ Leave \/ Closing
  BY <1>2 DEF Kill, Leave, Closing, Over, Terminate, ChannelStep
<1>3. CASE Preflight
  BY <1>3 DEF Preflight, OpenAnd, ChannelStep
<1>4. CASE SaveBaseline \/ Judge \/ VerifyLinks
  BY <1>4 DEF SaveBaseline, Judge, VerifyLinks, ChannelStep
<1>5. CASE BaselineFails
  BY <1>5, ChannelFailure DEF BaselineFails, ChannelStep
<1>6. CASE RoundFails \/ RestoreFails
  BY <1>6, ChannelFailure DEF RoundFails, RestoreFails
<1>7. CASE RegisterAgent \/ RegisterApp \/ RegisterAdv \/ SetPairable
  BY <1>7 DEF RegisterAgent, RegisterApp, RegisterAdv, Registers, SetPairable, Unheeded, ChannelStep
<1>8. CASE Look \/ Verify
  BY <1>8 DEF Look, Verify, Unheeded, ChannelStep
<1>9. CASE UndoAdv \/ UndoApp \/ UndoPairable \/ UndoAgent
  BY <1>9 DEF UndoAdv, UndoApp, UndoPairable, UndoAgent, Unregister, ChannelStep
<1>10. CASE RestoreBegins
  BY <1>10 DEF RestoreBegins, OpenAnd, ChannelStep
<1>11. CASE RestoreAnswered
  <2>1. queue # <<>> /\ replies' = <<>> /\ links' \subseteq links
    BY <1>11 DEF RestoreAnswered
  <2>2. queue' \in {<<>>, Tail(queue), Append(Tail(queue), Main)}
    BY <1>11 DEF RestoreAnswered, CloseLinks
  <2>3. QED
    BY <2>1, <2>2 DEF ChannelStep
<1>12. ASSUME NEW h \in Handler, HandlerWakes(h) \/ HandlerFails(h) \/ UserAnswers(h) PROVE ChannelStep /\ links' \subseteq links \cup Link
  BY <1>12 DEF HandlerWakes, HandlerFails, UserAnswers, GivesUp, Terminate, ChannelStep
<1>13. ASSUME NEW d \in Device, RequestConfirmation(d) PROVE ChannelStep /\ links' \subseteq links \cup Link
  BY <1>13 DEF RequestConfirmation, Asking, Pick, Free, ChannelStep
<1>14. ASSUME NEW l \in Link, LinkChanges(l) PROVE ChannelStep /\ links' \subseteq links \cup Link
  BY <1>14 DEF LinkChanges, Changes, ChannelStep
<1>15. CASE ReadEvents \/ KernelAnswers
  BY <1>15 DEF ReadEvents, KernelAnswers, Reads, Answers, ChannelStep
<1>16. CASE UNCHANGED coexistVars
  BY <1>16 DEF coexistVars, ChannelStep
<1>17. QED
  BY <1>1, <1>2, <1>3, <1>4, <1>5, <1>6, <1>7, <1>8, <1>9, <1>10, <1>11, <1>12, <1>13, <1>14, <1>15,
     <1>16, NextCases

LEMMA ChannelStaysOK ==
  ASSUME ChannelOK, ChannelStep, links' \subseteq links \cup Link
  PROVE  ChannelOK'
<1> USE DEF ChannelOK, RepliesAreOwn
<1>1. CASE UNCHANGED <<queue, replies>>
  BY <1>1
<1>2. CASE queue' = <<>> /\ replies' = <<>>
  BY <1>2
<1>3. CASE queue' = <<Main>> /\ replies' = <<>>
  BY <1>3, CoexistAssumption
<1>4. ASSUME NEW t \in Task, Command(t) PROVE ChannelOK'
  <2>1. queue' = Append(queue, t) /\ replies' = replies
    BY <1>4 DEF Command
  <2>2. queue # <<>> => Head(queue') = Head(queue)
    BY <2>1
  <2>3. QED
    BY <2>1, <2>2
<1>5. ASSUME NEW t \in Task, Wakes(t) PROVE ChannelOK'
  <2>1. queue # <<>> /\ queue' = Tail(queue) /\ replies' = <<>>
    BY <1>5 DEF Wakes
  <2>2. QED
    BY <2>1
<1>6. ASSUME NEW t \in Task, Leaves(t) PROVE ChannelOK'
  <2>1. PICK i \in DOMAIN queue \ {1} : queue' = RemoveAt(queue, i)
    BY <1>6 DEF Leaves
  <2>2. i \in 2..Len(queue) /\ Len(queue) \in Nat
    BY <2>1
  <2>3. SubSeq(queue, 1, i - 1) \in Seq(Task) /\ SubSeq(queue, i + 1, Len(queue)) \in Seq(Task)
    BY <2>2
  <2>4. Len(SubSeq(queue, 1, i - 1)) = i - 1 /\ SubSeq(queue, 1, i - 1)[1] = queue[1]
    BY <2>2
  <2>5. queue' \in Seq(Task) /\ queue' # <<>> /\ Head(queue') = Head(queue)
    <3> DEFINE a == SubSeq(queue, 1, i - 1)
               b == SubSeq(queue, i + 1, Len(queue))
    <3>1. queue' = a \o b
      BY <2>1 DEF RemoveAt
    <3>2. a \in Seq(Task) /\ b \in Seq(Task) /\ Len(a) >= 1 /\ a[1] = queue[1]
      <4>1. a \in Seq(Task) /\ b \in Seq(Task) /\ a[1] = queue[1] /\ Len(a) = i - 1
        BY <2>3, <2>4
      <4>2. i - 1 >= 1
        BY <2>2
      <4>3. QED
        BY <4>1, <4>2
    <3> HIDE DEF a, b
    <3>3. a \o b \in Seq(Task) /\ Len(a \o b) >= 1 /\ (a \o b)[1] = a[1]
      BY <3>2
    <3>4. Head(queue') = queue'[1] /\ Head(queue) = queue[1]
      BY <2>2, <3>1, <3>3
    <3>5. QED
      BY <3>1, <3>2, <3>3, <3>4
  <2>6. QED
    BY <1>6, <2>2, <2>5 DEF Leaves
<1>7. CASE Answers
  <2>1. /\ queue # <<>> /\ queue' = queue /\ Head(queue) \in Task /\ links' = links
        /\ replies' = Append(replies, [to |-> Head(queue), links |-> links])
    BY <1>7 DEF Answers
  <2>2. [to |-> Head(queue), links |-> links] \in ReplyTo
    BY <2>1 DEF ReplyTo
  <2>3. QED
    BY <2>1, <2>2
<1>8. CASE queue # <<>> /\ replies' = <<>> /\ queue' = Append(Tail(queue), Main)
  BY <1>8, CoexistAssumption
<1>9. CASE queue # <<>> /\ replies' = <<>> /\ queue' = Tail(queue)
  BY <1>9
<1>10. QED
  BY <1>1, <1>2, <1>3, <1>4, <1>5, <1>6, <1>7, <1>8, <1>9 DEF ChannelStep

\* The channel's queue and replies, and whose the replies are.
THEOREM ChannelCorrect == CoexistSpec => []ChannelOK
<1>1. CoexistInit => ChannelOK
  <2> SUFFICES ASSUME CoexistInit PROVE ChannelOK
    OBVIOUS
  <2>1. queue = <<>> /\ replies = <<>> /\ links \subseteq Link
    BY DEF CoexistInit
  <2>2. QED
    BY <2>1 DEF ChannelOK, RepliesAreOwn
<1>2. ChannelOK /\ [CoexistNext]_coexistVars => ChannelOK'
  BY ChannelSteps, ChannelStaysOK
<1>3. QED
  BY <1>1, <1>2, PTL DEF CoexistSpec

\* No task takes another's reply for its own, however many tasks share the channel,
\* and however often one gives up, is cancelled or leaves (coexist_link.py:217-269).
THEOREM NobodyElsesReply == CoexistSpec => []RepliesAreOwn
<1>1. ChannelOK => RepliesAreOwn
  BY DEF ChannelOK
<1>2. QED
  BY <1>1, ChannelCorrect, PTL

-----------------------------------------------------------------------------
(* The places after a verdict.                                             *)

LEMMA UndoLeads ==
  ASSUME NEW place
  PROVE  UndoFrom(place) \in Undoing
<1>1. CASE place \in {"adv", "look", "links"}
  BY <1>1 DEF UndoFrom, Undoing
<1>2. CASE place = "app"
  BY <1>2 DEF UndoFrom, Undoing
<1>3. CASE place \in {"agent", "pairable"}
  BY <1>3 DEF UndoFrom, Undoing
<1>4. CASE place \notin {"adv", "look", "links", "app", "agent", "pairable"}
  BY <1>4 DEF UndoFrom, Undoing
<1>5. QED
  BY <1>1, <1>2, <1>3, <1>4

\* A verdict ends the session.
LEMMA VerdictLeads ==
  ASSUME NEW s, Verdict(s)
  PROVE  pc' \in Undoing /\ pc' \notin Session \cup Restoring \cup {"none"} /\ intact' = {} /\ hid' = "nothing"
<1>1. pc' \in Undoing /\ intact' = {} /\ hid' = "nothing"
  BY UndoLeads DEF Verdict
<1>2. QED
  BY <1>1 DEF Undoing, Session, Restoring

-----------------------------------------------------------------------------
(* The record.                                                             *)

Registering == {"agent", "pairable", "app", "adv", "look", "links"}

\* Where restore has waited for the end of the run's connection.
Waited == {"current", "check", "drop", "reset", "verify", "verify links"}

Clean ==
  /\ serving \cap {"app", "adv"} = {} /\ pairable = original
  /\ "agent" \in serving => ~alive

\* There is a record wherever BlueZ may differ, and while a run changes it; restore has
\* waited for the end of the run's connection, and what it found clean is so until it has
\* read the links.
Recorded ==
  /\ record \in BOOLEAN
  /\ ~record => Clean
  /\ pc \in Registering => record
  /\ pc \in Waited => ~alive
  /\ pc = "verify links" /\ clean => Clean

\* Whatever a run has changed is in its record, and a record is removed only where
\* nothing is left (bluez_hid_lab.py:733-808, 404-550): the invariant "Recorded".
THEOREM RecordedAlways == CoexistSpec => []Recorded
<1> USE DEF Recorded, Clean, Registering, Waited
<1>1. CoexistInit => Recorded
  BY DEF CoexistInit
<1>2. Recorded /\ [CoexistNext]_coexistVars => Recorded'
  <2> SUFFICES ASSUME Recorded, [CoexistNext]_coexistVars PROVE Recorded'
    OBVIOUS
  <2> USE DEF GoTo, GoOn, Unrestored, recordVars, restoreVars, bluezVars, mainVars
  <2>21. ASSUME NEW s, Verdict(s) PROVE pc' \notin Registering \cup Waited
    BY <2>21, VerdictLeads DEF Undoing
  <2>1. CASE StartRestore \/ Tick
    <3>1. UNCHANGED <<record, original, clean, bluezVars>>
      BY <2>1 DEF StartRestore, Tick
    <3>2. pc' = pc \/ pc' = "restore"
      BY <2>1 DEF StartRestore, Tick
    <3>3. QED
      BY <3>1, <3>2
  <2>23. CASE StartRun
    <3>1. UNCHANGED <<record, original, clean, serving, pairable>> /\ serving = {} /\ pc' = "preflight"
      BY <2>23 DEF StartRun
    <3>2. QED
      BY <3>1
  <2>22. CASE Preflight
    <3>1. pc' \notin Registering \cup Waited
      BY <2>22, <2>21 DEF Preflight
    <3>2. UNCHANGED <<record, clean, bluezVars>> /\ original' \in {original, pairable}
      BY <2>22 DEF Preflight
    <3>3. QED
      BY <3>1, <3>2
  <2>2. CASE SaveBaseline \/ BaselineFails
    <3>1. record' \in {record, TRUE} /\ UNCHANGED <<original, clean, bluezVars>>
      BY <2>2 DEF SaveBaseline, BaselineFails
    <3>2. pc' \in Registering => record'
      BY <2>2, <2>21 DEF SaveBaseline, BaselineFails
    <3>3. pc' \notin Waited
      BY <2>2, <2>21 DEF SaveBaseline, BaselineFails
    <3>4. QED
      BY <3>1, <3>2, <3>3
  <2>3. CASE RegisterAgent \/ RegisterApp \/ RegisterAdv \/ SetPairable
    <3>1. pc' \notin Waited /\ record /\ record' = record
      BY <2>3, <2>21 DEF RegisterAgent, RegisterApp, RegisterAdv, Registers, SetPairable
    <3>2. QED
      BY <3>1
  <2>4. CASE Look \/ RoundFails
    <3>1. pc' \notin Waited /\ record /\ record' = record
      BY <2>4, <2>21 DEF Look, RoundFails
    <3>2. QED
      BY <3>1
  <2>5. CASE Judge
    <3>1. record' = record /\ clean' = clean /\ UNCHANGED <<original, bluezVars>> /\ record
      BY <2>5 DEF Judge
    <3>2. pc' \notin Waited
      BY <2>5, <2>21 DEF Judge, Hold, BeginHold, Wait
    <3>3. QED
      BY <3>1, <3>2
  <2>6. CASE UndoAdv \/ UndoApp \/ UndoPairable \/ UndoAgent
    <3>1. pc' \notin Registering \cup Waited
      BY <2>6 DEF UndoAdv, UndoApp, UndoPairable, UndoAgent
    <3>2. UNCHANGED <<record, original, alive>> /\ pairable' \in {pairable, original} /\ serving' \subseteq serving
      BY <2>6 DEF UndoAdv, UndoApp, UndoPairable, UndoAgent, Unregister
    <3>3. QED
      BY <3>1, <3>2
  <2>7. CASE Closing
    <3>1. pc' = "restore" /\ UNCHANGED <<original, clean, bluezVars>>
      BY <2>7 DEF Closing
    <3>2. record' \in BOOLEAN /\ (record => record')
      BY <2>7 DEF Closing
    <3>3. QED
      BY <3>1, <3>2
  <2>8. CASE RestoreBegins \/ RestoreFails
    <3>1. UNCHANGED <<record, original, clean, bluezVars>>
      BY <2>8 DEF RestoreBegins, RestoreFails
    <3>2. pc' = "leave" \/ (pc' = "current" /\ ~alive)
      BY <2>8 DEF RestoreBegins, RestoreFails
    <3>3. QED
      BY <3>1, <3>2
  <2>9. CASE RestoreAnswered
    BY <2>9 DEF RestoreAnswered, CloseLinks
  <2>10. CASE Reset
    <3>1. (pairable' = pairable \/ pairable' = original) /\ UNCHANGED <<serving, alive, record, original>>
      BY <2>10 DEF Reset
    <3>2. pc' \in {"verify", "leave"} /\ pc \in Waited
      BY <2>10 DEF Reset
    <3>3. QED
      BY <3>1, <3>2
  <2>11. CASE Verify
    BY <2>11 DEF Verify, InPlace
  <2>12. CASE VerifyLinks
    <3>1. UNCHANGED <<original, bluezVars, clean>> /\ pc = "verify links" /\ (pc' = pc => FALSE)
      BY <2>12 DEF VerifyLinks
    <3>2. record' = record \/ (record' = FALSE /\ clean)
      BY <2>12 DEF VerifyLinks
    <3>3. pc' \in {"leave", "verify"}
      BY <2>12 DEF VerifyLinks
    <3>4. QED
      BY <3>1, <3>2, <3>3
  <2>13. CASE Leave \/ Kill
    <3>1. pc' = "none" /\ UNCHANGED <<record, original, bluezVars>>
      BY <2>13 DEF Leave, Kill, Over
    <3>2. QED
      BY <3>1
  <2>14. ASSUME NEW h \in Handler, HandlerWakes(h) \/ HandlerFails(h) \/ UserAnswers(h) PROVE Recorded'
    <3>1. (record' = record \/ record' = TRUE) /\ UNCHANGED <<pc, original, clean, bluezVars>>
      BY <2>14 DEF HandlerWakes, HandlerFails, UserAnswers
    <3>2. QED
      BY <3>1
  <2>15. ASSUME NEW d \in Device, RequestConfirmation(d) PROVE Recorded'
    BY <2>15 DEF RequestConfirmation
  <2>16. ASSUME NEW l \in Link, LinkChanges(l) PROVE Recorded'
    BY <2>16 DEF LinkChanges
  <2>17. CASE GattAccess \/ Cancel \/ ReadEvents \/ KernelAnswers
    <3>1. UNCHANGED <<pc, record, original, clean, bluezVars>>
      BY <2>17 DEF GattAccess, Cancel, ReadEvents, KernelAnswers
    <3>2. QED
      BY <3>1
  <2>18. CASE Forget
    <3>1. UNCHANGED <<pc, record, original, clean, pairable>>
      BY <2>18 DEF Forget
    <3>2. CASE alive' = FALSE /\ serving' = serving
      BY <3>1, <3>2
    <3>3. CASE alive' = alive /\ serving' = {}
      <4>1. Clean' <=> pairable = original
        BY <3>1, <3>3
      <4>2. QED
        BY <3>1, <3>3, <4>1
    <3>4. QED
      BY <2>18, <3>2, <3>3 DEF Forget
  <2>19. CASE UNCHANGED coexistVars
    BY <2>19 DEF coexistVars
  <2>20. QED
    BY <2>1, <2>2, <2>3, <2>4, <2>5, <2>6, <2>7, <2>8, <2>9, <2>10, <2>11, <2>12, <2>13, <2>14, <2>15,
       <2>16, <2>17, <2>18, <2>19, <2>22, <2>23, NextCases
<1>3. QED
  BY <1>1, <1>2, PTL DEF CoexistSpec

\* Without a process and without a record, no service, advertisement or Pairable of any
\* run is left, and no agent that can be asked, wherever the runs before were killed
\* (bluez_hid_lab.py:404-550, 733-769).
THEOREM CleanWithoutRecord == CoexistSpec => []NoRecordMeansClean
<1>1. Recorded => NoRecordMeansClean
  BY DEF Recorded, Clean, NoRecordMeansClean
<1>2. QED
  BY <1>1, RecordedAlways, PTL

-----------------------------------------------------------------------------
(* The confirmation.                                                       *)

\* A question is open for the candidate only, and for one handler.
Asked ==
  /\ handling \in [Handler -> {"none", "links", "user"}]
  /\ device \in [Handler -> Device \cup {None}]
  /\ confirmed \in {None, candidate}
  /\ \A h \in Handler : handling[h] = "links" => device[h] # None
  /\ \A h \in Handler : handling[h] = "user" => device[h] = candidate /\ candidate # None
  /\ \A g, h \in Handler : handling[g] = "user" /\ handling[h] = "user" => g = h

LEMMA AskedStays ==
  ASSUME Asked, handling' = handling, device' = device, confirmed' = confirmed, candidate' = candidate
  PROVE  Asked'
BY DEF Asked

\* A handler that ends, and handlers that are cancelled, ask no more.
LEMMA FewerAsk ==
  ASSUME Asked, confirmed' \in {None, candidate'}, candidate' = candidate,
         handling' \in [Handler -> {"none", "links", "user"}], device' \in [Handler -> Device \cup {None}],
         \A h \in Handler : handling'[h] = "none" \/ (handling'[h] = handling[h] /\ device'[h] = device[h])
  PROVE  Asked'
BY DEF Asked

LEMMA RepliedAsksNot ==
  ASSUME Asked, NEW h \in Handler, Replied(h), candidate' = candidate, confirmed' \in {None, candidate'}
  PROVE  Asked'
<1>1. handling' \in [Handler -> {"none", "links", "user"}] /\ device' \in [Handler -> Device \cup {None}]
  BY DEF Asked, Replied
<1>2. \A g \in Handler : handling'[g] = "none" \/ (handling'[g] = handling[g] /\ device'[g] = device[g])
  BY DEF Asked, Replied
<1>3. QED
  BY <1>1, <1>2, FewerAsk

LEMMA CancelledAskNot ==
  ASSUME Asked, CancelPending, candidate' = candidate, confirmed' = confirmed
  PROVE  Asked'
<1>1. Cancelled \in [Handler -> {"none", "links", "user"}]
  BY DEF Asked, Cancelled
<1>2. handling' \in [Handler -> {"none", "links", "user"}] /\ device' \in [Handler -> Device \cup {None}]
  BY <1>1 DEF Asked, CancelPending
<1>3. \A g \in Handler : handling'[g] = "none" \/ (handling'[g] = handling[g] /\ device'[g] = device[g])
  BY DEF Asked, CancelPending, Cancelled
<1>4. QED
  BY <1>2, <1>3, FewerAsk DEF Asked

\* At most one handler has a question before the user, the one about the device that
\* is recorded as the candidate (coexist_pairing.py:54-105): the invariant "Asked".
THEOREM AskedAlways == CoexistSpec => []Asked
<1>1. CoexistInit => Asked
  BY DEF CoexistInit, Asked
<1>2. Asked /\ [CoexistNext]_coexistVars => Asked'
  <2> SUFFICES ASSUME Asked, [CoexistNext]_coexistVars PROVE Asked'
    OBVIOUS
  <2> USE DEF agentVars, recordVars
  <2>1. CASE StartRun \/ StartRestore \/ Tick \/ Preflight \/ SaveBaseline \/ BaselineFails
    BY <2>1, AskedStays DEF StartRun, StartRestore, Tick, Preflight, SaveBaseline, BaselineFails
  <2>2. CASE RegisterAgent \/ RegisterApp \/ RegisterAdv \/ SetPairable \/ Look \/ Judge \/ RoundFails
    BY <2>2, AskedStays DEF RegisterAgent, RegisterApp, RegisterAdv, Registers, SetPairable, Look, Judge, RoundFails
  <2>3. CASE UndoAdv \/ UndoPairable \/ UndoAgent
    BY <2>3, AskedStays DEF UndoAdv, UndoPairable, UndoAgent, Unregister
  <2>4. CASE UndoApp
    <3>1. candidate' = candidate /\ confirmed' = confirmed
      BY <2>4 DEF UndoApp, Unregister
    <3>2. CancelPending \/ UNCHANGED <<handling, device>>
      BY <2>4 DEF UndoApp
    <3>3. QED
      BY <3>1, <3>2, AskedStays, CancelledAskNot
  <2>5. CASE Closing
    <3>1. /\ handling' = [h \in Handler |-> IF handling[h] = "user" THEN "user" ELSE "none"]
          /\ device' = [h \in Handler |-> IF handling[h] = "user" THEN device[h] ELSE None]
          /\ confirmed' = None
          /\ candidate' = IF \E h \in Handler : handling[h] = "user" THEN candidate ELSE None
      BY <2>5 DEF Closing
    <3>2. QED
      BY <3>1 DEF Asked
  <2>6. CASE RestoreBegins \/ RestoreFails \/ RestoreAnswered \/ Reset \/ Verify \/ VerifyLinks
    BY <2>6, AskedStays DEF RestoreBegins, RestoreFails, RestoreAnswered, Reset, Verify, VerifyLinks
  <2>7. CASE Leave \/ Kill
    BY <2>7 DEF Leave, Kill, Over, Asked
  <2>8. ASSUME NEW h \in Handler, HandlerWakes(h) PROVE Asked'
    <3>1. CASE Replied(h) /\ UNCHANGED <<candidate, record>>
      BY <2>8, <3>1, RepliedAsksNot DEF HandlerWakes, Asked
    <3>2. CASE /\ ~Refuses(h) /\ handling' = [handling EXCEPT ![h] = "user"]
               /\ candidate' = device[h] /\ UNCHANGED <<device, pending>>
      <4>1. handling[h] = "links" /\ confirmed' = confirmed /\ candidate = None
        BY <2>8, <3>2 DEF HandlerWakes, Refuses
      <4>2. \A g \in Handler : handling[g] # "user"
        BY <4>1 DEF Asked
      <4>3. QED
        BY <3>2, <4>1, <4>2 DEF Asked
    <3>3. QED
      BY <2>8, <3>1, <3>2 DEF HandlerWakes
  <2>9. ASSUME NEW h \in Handler, HandlerFails(h) PROVE Asked'
    BY <2>9, RepliedAsksNot DEF HandlerFails, Asked
  <2>10. ASSUME NEW h \in Handler, UserAnswers(h) PROVE Asked'
    BY <2>10, RepliedAsksNot DEF UserAnswers, Asked
  <2>11. ASSUME NEW d \in Device, RequestConfirmation(d) PROVE Asked'
    <3>1. Pick(Free) \in Free
      BY <2>11 DEF RequestConfirmation, Pick
    <3>2. /\ Pick(Free) \in Handler /\ d # None
          /\ handling' = [handling EXCEPT ![Pick(Free)] = "links"]
          /\ device' = [device EXCEPT ![Pick(Free)] = d]
          /\ confirmed' = confirmed /\ candidate' = candidate
      BY <2>11, <3>1, CoexistAssumption DEF RequestConfirmation, Asking, Free
    <3> HIDE <2>11
    <3>3. QED
      BY <3>2 DEF Asked
  <2>12. ASSUME NEW l \in Link, LinkChanges(l) PROVE Asked'
    BY <2>12, AskedStays DEF LinkChanges
  <2>13. CASE GattAccess \/ ReadEvents \/ KernelAnswers \/ Forget
    BY <2>13, AskedStays DEF GattAccess, ReadEvents, KernelAnswers, Forget
  <2>14. CASE Cancel
    BY <2>14, CancelledAskNot DEF Cancel
  <2>15. CASE UNCHANGED coexistVars
    BY <2>15, AskedStays DEF coexistVars
  <2>16. QED
    BY <2>1, <2>2, <2>3, <2>4, <2>5, <2>6, <2>7, <2>8, <2>9, <2>10, <2>11, <2>12, <2>13, <2>14, <2>15, NextCases
<1>3. QED
  BY <1>1, <1>2, PTL DEF CoexistSpec

\* The user confirms only what was asked and recorded, one question at a time,
\* for any number of handlers and devices (coexist_pairing.py:64-100).
THEOREM ConfirmsTheCandidate == CoexistSpec => []ConfirmedIsCandidate
<1>1. Asked => ConfirmedIsCandidate
  <2> SUFFICES ASSUME Asked PROVE ConfirmedIsCandidate
    OBVIOUS
  <2> DEFINE asking == {h \in Handler : handling[h] = "user"}
  <2>1. asking = {} \/ \E h : asking = {h}
    BY DEF Asked
  <2>2. Cardinality(asking) \in {0, 1}
    BY <2>1, FS_EmptySet, FS_Singleton
  <2>3. Cardinality(asking) <= 1
    BY <2>2
  <2>4. QED
    BY <2>3 DEF Asked, ConfirmedIsCandidate
<1>2. QED
  BY <1>1, AskedAlways, PTL

-----------------------------------------------------------------------------
(* The verdict.                                                            *)

Testing == Session \ {"preflight", "baseline"}

\* The events that are not read yet account for each connection that was lost and not
\* noticed: what replies tell is up or has its event in the socket, and so is what
\* was up when the baseline was taken, or the phone's since the hold began.
ToldIsTrue == \A i \in 1..Len(replies) : replies[i].links \subseteq links \cup events

Unnoticed ==
  /\ baseline \subseteq intact \cup events
  /\ hid = "held" => Phone \in intact \cup events

Watched ==
  /\ pc \in Session \cup {"none"} => status = "" /\ (closed => queue = <<>> /\ replies = <<>>)
  /\ pc = "none" => closed
  /\ intact \subseteq links /\ (pc \notin Session => intact = {})
  /\ pc \in Session /\ ~closed => ToldIsTrue
  /\ pc \in Testing /\ ~closed /\ hid # "broken" => Unnoticed

LEMMA PhoneIsALink == Phone \in Link
BY CoexistAssumption

\* What can be read off what the reader makes of the events.
LEMMA ShownMeans ==
  ASSUME status = "", Shown # "broken"
  PROVE  /\ hid # "broken" /\ events \cap baseline = {}
         /\ Shown = "held" => hid = "held" /\ Phone \notin events
         /\ Shown = "fresh" => hid = "fresh" /\ Phone \notin events
BY DEF Shown, Broken

\* Reading the socket empty loses nothing.
LEMMA DrainNotices ==
  ASSUME Watched, pc \in Testing, ~closed, Drain, baseline' = baseline, hid' # "broken"
  PROVE  baseline \subseteq intact' /\ (hid' = "held" => Phone \in intact') /\ intact' = intact
<1>1. status = "" /\ Shown = hid' /\ intact' = intact
  BY DEF Watched, Testing, Drain
<1>2. Unnoticed
  BY <1>1, ShownMeans DEF Watched
<1>3. QED
  BY <1>1, <1>2, ShownMeans DEF Unnoticed

\* The first reply tells links that are up, or whose events are there.
LEMMA TheTold ==
  ASSUME ChannelOK, Watched, pc \in Session, NEW t, Wakes(t)
  PROVE  ~closed /\ closed' = closed /\ events' = {} /\ replies' = <<>> /\ Told \subseteq links \cup events
<1>1. queue # <<>> /\ replies # <<>> /\ closed' = closed /\ events' = {} /\ replies' = <<>>
  BY DEF Wakes
<1>2. ~closed
  BY <1>1 DEF Watched
<1>3. 1 \in 1..Len(replies) /\ Head(replies) = replies[1]
  BY <1>1 DEF ChannelOK
<1>4. QED
  BY <1>1, <1>2, <1>3 DEF Watched, ToldIsTrue, Told

\* A step out of the session leaves nothing to watch.
LEMMA Unwatched ==
  ASSUME pc' \notin Session \cup {"none"}, intact' = {}
  PROVE  Watched'
BY DEF Watched, Testing

\* A step that leaves links, events and the channel alone.
LEMMA WatchedStays ==
  ASSUME Watched, links' = links, intact' = intact, baseline' = baseline, events' = events,
         closed' = closed, replies' = replies, closed => queue' = queue,
         pc' = "none" => pc = "none",
         pc' \in Session \cup {"none"} => status' = "" /\ pc \in Session \cup {"none"},
         pc' \notin Session => intact = {},
         pc' \in Testing => pc \in Testing /\ (hid' = hid \/ (hid' = "fresh" /\ hid # "broken"))
  PROVE  Watched'
<1>1. pc' \in Session \cup {"none"} => status' = "" /\ (closed' => queue' = <<>> /\ replies' = <<>>)
  BY DEF Watched
<1>2. intact' \subseteq links' /\ (pc' \notin Session => intact' = {})
  BY DEF Watched
<1>3. pc' \in Session /\ ~closed' => ToldIsTrue'
  BY DEF Watched, ToldIsTrue
<1>4. pc' \in Testing /\ ~closed' /\ hid' # "broken" => Unnoticed'
  BY DEF Watched, Unnoticed, Testing
<1>5. pc' = "none" => closed'
  BY DEF Watched
<1>6. QED
  BY <1>1, <1>2, <1>3, <1>4, <1>5 DEF Watched

\* An empty socket has no message to look at.
LEMMA NothingToRead ==
  ASSUME NEW s, s = <<>>
  PROVE  \A i \in 1..Len(s) : FALSE
<1>1. Len(<<>>) = 0
  OBVIOUS
<1>2. Len(s) = 0
  BY <1>1
<1>3. QED
  BY <1>2

\* A step that empties the socket.
LEMMA WatchedAfresh ==
  ASSUME ~closed', replies' = <<>>, pc' \in Session, status' = "", intact' \subseteq links',
         pc' \in Testing /\ hid' # "broken" => baseline' \subseteq intact' /\ (hid' = "held" => Phone \in intact')
  PROVE  Watched'
<1>1. ToldIsTrue'
  BY NothingToRead DEF ToldIsTrue
<1>2. pc' \in Testing /\ hid' # "broken" => Unnoticed'
  BY DEF Unnoticed
<1>3. pc' # "none"
  BY DEF Session
<1>4. QED
  BY <1>1, <1>2, <1>3 DEF Watched, Testing

\* While a test runs, no connection that must stay has been lost without its event
\* being still unread, or the test knowing it (bluez_hid_lab.py:836-937): "Watched".
THEOREM WatchedAlways == CoexistSpec => []Watched
<1>1. CoexistInit => Watched
  BY DEF CoexistInit, Watched, ToldIsTrue, Session, Testing
<1>2. ChannelOK /\ Watched /\ [CoexistNext]_coexistVars => Watched'
  <2> SUFFICES ASSUME ChannelOK, Watched, [CoexistNext]_coexistVars PROVE Watched'
    OBVIOUS
  <2> USE DEF linkVars, mainVars, shownVars, recordVars
  <2>0. pc \notin Session => intact = {}
    BY DEF Watched
  <2>1. ASSUME NEW s, Verdict(s) PROVE Watched'
    BY <2>1, VerdictLeads, Unwatched
  <2>2. CASE StartRun
    <3>1. /\ pc = "none" /\ pc' = "preflight" /\ status' = status
          /\ UNCHANGED <<closed, queue, replies, links, intact>>
      BY <2>2 DEF StartRun
    <3>2. closed /\ status = "" /\ replies = <<>> /\ queue = <<>> /\ intact = {}
      BY <3>1 DEF Watched, Session
    <3>3. QED
      BY <3>1, <3>2 DEF Watched, Testing, Session
  <2>3. CASE StartRestore
    BY <2>3, <2>0, Unwatched DEF StartRestore, Session
  <2>4. CASE Kill \/ Leave
    <3>1. pc' = "none" /\ status' = "" /\ closed' /\ queue' = <<>> /\ replies' = <<>> /\ intact' = {}
      BY <2>4 DEF Kill, Leave, Over, Terminate
    <3>2. QED
      BY <3>1 DEF Watched, Session, Testing
  <2>5. CASE Tick
    BY <2>5, WatchedStays DEF Tick, Watched, Testing
  <2>6. CASE Preflight
    <3>1. CASE OpenAnd(<<Main>>) /\ GoOn("baseline")
      <4>1. /\ pc' = "baseline" /\ status' = "" /\ closed' = FALSE /\ replies' = <<>>
            /\ intact' = intact /\ links' = links
        BY <2>6, <3>1 DEF Preflight, OpenAnd, GoOn, GoTo, Watched, Session
      <4>2. QED
        BY <4>1, WatchedAfresh DEF Watched, Session, Testing
    <3>2. QED
      BY <2>6, <2>1, <3>1 DEF Preflight
  <2>7. CASE SaveBaseline
    <3>1. CASE /\ GoTo(IF repair THEN "agent" ELSE "pairable")
               /\ intact' = Told \cap links
               /\ hid' = IF (gone \cup events) \cap Told = {} THEN "nothing" ELSE "broken"
      <4>1. pc \in Session /\ Wakes(Main) /\ baseline' = Told /\ links' = links
        BY <2>7 DEF SaveBaseline, Session
      <4>2. ~closed' /\ events' = {} /\ replies' = <<>> /\ Told \subseteq links \cup events
        BY <4>1, TheTold
      <4>3. pc' \in Session /\ status' = ""
        BY <3>1, <4>1 DEF GoTo, Session, Watched
      <4>4. hid' # "broken" => baseline' \subseteq intact' /\ hid' # "held"
        BY <3>1, <4>1, <4>2
      <4>5. QED
        BY <3>1, <4>1, <4>2, <4>3, <4>4, WatchedAfresh
    <3>2. QED
      BY <2>7, <2>1, <3>1 DEF SaveBaseline
  <2>8. CASE BaselineFails \/ RoundFails
    BY <2>8, <2>1 DEF BaselineFails, RoundFails
  <2>9. ASSUME NEW what \in {"agent", "app", "adv"}, NEW next \in {"pairable", "adv", "look"}, Registers(what, next)
        PROVE  Watched'
    <3>1. CASE GoOn(next) /\ UNCHANGED linkVars
      BY <2>9, <3>1, WatchedStays DEF Registers, GoOn, GoTo, Session, Testing, Watched
    <3>2. QED
      BY <2>9, <2>1, <3>1 DEF Registers
  <2>10. CASE SetPairable
    <3>1. CASE GoOn("app") /\ UNCHANGED linkVars
      BY <2>10, <3>1, WatchedStays DEF SetPairable, GoOn, GoTo, Session, Testing, Watched
    <3>2. QED
      BY <2>10, <2>1, <3>1 DEF SetPairable
  <2>11. CASE Look
    <3>1. CASE ~closed /\ Command(Main) /\ GoOn("links")
      BY <2>11, <3>1, WatchedStays DEF Look, Command, GoOn, GoTo, Session, Testing, Watched
    <3>2. QED
      BY <2>11, <2>1, <3>1 DEF Look
  <2>12. CASE Judge
    <3>1. /\ pc \in Testing /\ pc \in Session /\ Wakes(Main) /\ baseline' = baseline /\ links' = links
          /\ status = "" /\ intact \subseteq links
      BY <2>12 DEF Judge, Session, Testing, Watched
    <3>2. ~closed /\ ~closed' /\ events' = {} /\ replies' = <<>> /\ Told \subseteq links \cup events
      BY <3>1, TheTold
    <3>3. ASSUME pc' = "look", status' = "", intact' \subseteq links,
                 hid' # "broken" => baseline \subseteq intact' /\ (hid' = "held" => Phone \in intact')
          PROVE  Watched'
      BY <3>1, <3>2, <3>3, WatchedAfresh DEF Session
    <3>4. ASSUME NEW verified, BeginHold(verified) PROVE Watched'
      <4>1. Shown = "fresh" /\ Phone \in Told /\ intact' = intact \cup {Phone} /\ pc' = "look" /\ status' = ""
        BY <3>1, <3>4 DEF BeginHold
      <4>2. Unnoticed /\ events \cap baseline = {} /\ Phone \notin events
        BY <3>1, <3>2, <4>1, ShownMeans DEF Watched
      <4>3. QED
        BY <3>1, <3>2, <3>3, <4>1, <4>2 DEF Unnoticed
    <3>5. ASSUME GoTo("look"), Drain PROVE Watched'
      <4>1. intact' \subseteq links
        BY <3>1, <3>5 DEF Drain
      <4>2. QED
        BY <3>1, <3>2, <3>3, <3>5, <4>1, DrainNotices DEF GoTo
    <3>6. CASE Hold
      BY <2>1, <3>5, <3>6 DEF Hold
    <3>7. ASSUME NEW verified, Wait(verified) PROVE Watched'
      BY <2>1, <3>5, <3>7 DEF Wait
    <3>8. QED
      BY <2>12, <2>1, <3>4, <3>6, <3>7 DEF Judge
  <2>13. CASE UndoAdv \/ UndoApp \/ UndoPairable \/ UndoAgent
    <3>1. pc \notin Session /\ pc' \notin Session \cup {"none"} /\ intact' = intact
      BY <2>13 DEF UndoAdv, UndoApp, UndoPairable, UndoAgent, Unregister, GoTo, Session
    <3>2. QED
      BY <2>0, <3>1, Unwatched
  <2>14. CASE Closing
    BY <2>14, <2>0, Unwatched DEF Closing, Session
  <2>15. CASE RestoreBegins \/ RestoreAnswered \/ Reset \/ Verify \/ VerifyLinks \/ RestoreFails
    <3>1. pc \in Restoring /\ intact' = intact
      BY <2>15 DEF RestoreBegins, RestoreAnswered, Reset, Verify, VerifyLinks, RestoreFails, Restoring
    <3>2. pc' \in Restoring
      BY <2>15 DEF RestoreBegins, RestoreAnswered, CloseLinks, Reset, Verify, VerifyLinks, RestoreFails,
                   GoTo, Unrestored, Restoring
    <3>3. QED
      BY <2>0, <3>1, <3>2, Unwatched DEF Session, Restoring
  <2>16. ASSUME NEW h \in Handler, HandlerWakes(h) PROVE Watched'
    <3>1. Wakes(h) /\ Drain /\ pc' = pc /\ status' = status /\ links' = links /\ baseline' = baseline
      BY <2>16 DEF HandlerWakes
    <3>2. intact' \in {{}, intact}
      BY <3>1 DEF Drain
    <3>3. CASE pc \in Session
      <4>1. ~closed /\ ~closed' /\ events' = {} /\ replies' = <<>>
        BY <3>1, <3>3, TheTold
      <4>2. pc \in Testing /\ hid' # "broken" => baseline \subseteq intact' /\ (hid' = "held" => Phone \in intact')
        BY <3>1, <4>1, DrainNotices
      <4>3. QED
        BY <3>1, <3>2, <3>3, <4>1, <4>2, WatchedAfresh DEF Watched, Testing
    <3>4. CASE pc \notin Session
      <4>1. pc # "none"
        BY <3>1 DEF Wakes, Watched
      <4>2. QED
        BY <2>0, <3>1, <3>2, <3>4, <4>1, Unwatched
    <3>5. QED
      BY <3>3, <3>4
  <2>17. ASSUME NEW h \in Handler, HandlerFails(h) PROVE Watched'
    <3>1. UNCHANGED <<links, pc, status, hid, intact, baseline>>
      BY <2>17 DEF HandlerFails
    <3>2. CASE GivesUp(h)
      <4>1. closed' /\ queue' = <<>> /\ replies' = <<>>
        BY <3>2 DEF GivesUp, Terminate
      <4>2. QED
        BY <3>1, <4>1 DEF Watched
    <3>3. CASE UNCHANGED linkVars
      BY <3>1, <3>3, WatchedStays DEF Watched
    <3>4. QED
      BY <2>17, <3>2, <3>3 DEF HandlerFails
  <2>18. CASE Cancel \/ Forget \/ \E h \in Handler : UserAnswers(h)
    <3>1. UNCHANGED <<linkVars, links, pc, status, hid, intact, baseline>>
      BY <2>18 DEF Cancel, Forget, UserAnswers
    <3>2. QED
      BY <3>1, WatchedStays DEF Watched
  <2>19. CASE GattAccess
    <3>1. /\ UNCHANGED <<linkVars, links, pc, status, intact, baseline>>
          /\ hid' = "fresh" /\ hid \in {"nothing", "stale"}
      BY <2>19 DEF GattAccess
    <3>2. QED
      BY <3>1, WatchedStays DEF Watched
  <2>20. ASSUME NEW d \in Device, RequestConfirmation(d) PROVE Watched'
    <3>1. UNCHANGED <<closed, replies, events, links, pc, status, hid, intact, baseline>> /\ ~closed
      BY <2>20 DEF RequestConfirmation, Asking, Command
    <3>2. QED
      BY <3>1, WatchedStays DEF Watched
  <2>21. CASE ReadEvents
    <3>1. /\ ~closed /\ replies = <<>> /\ events' = {} /\ UNCHANGED <<closed, queue, replies>> /\ Drain
          /\ UNCHANGED <<links, pc, status, baseline>>
      BY <2>21 DEF ReadEvents, Reads
    <3>2. intact' \in {{}, intact}
      BY <3>1 DEF Drain
    <3>3. pc \in Testing /\ hid' # "broken" => baseline \subseteq intact' /\ (hid' = "held" => Phone \in intact')
      BY <3>1, DrainNotices
    <3>4. QED
      <4>1. CASE pc \in Session
        BY <3>1, <3>2, <3>3, <4>1, WatchedAfresh DEF Watched, Testing
      <4>2. CASE pc \notin Session
        BY <2>0, <3>1, <3>2, <4>2, Unwatched DEF Watched
      <4>3. QED
        BY <4>1, <4>2
  <2>22. ASSUME NEW l \in Link, LinkChanges(l) PROVE Watched'
    <3>1. /\ UNCHANGED <<closed, queue, replies, pc, status, hid, baseline>> /\ intact' = intact \ {l}
          /\ links' = IF l \in links THEN links \ {l} ELSE links \cup {l}
          /\ events' = IF l \in links /\ pc \in Session \cup Undoing /\ ~closed THEN events \cup {l} ELSE events
      BY <2>22 DEF LinkChanges, Changes
    <3>2. intact' \subseteq links' /\ (pc' \notin Session => intact' = {})
      BY <3>1 DEF Watched
    <3>3. pc \in Session /\ ~closed => ToldIsTrue'
      BY <3>1 DEF Watched, ToldIsTrue
    <3>4. pc \in Testing /\ ~closed /\ hid # "broken" => Unnoticed'
      BY <3>1 DEF Watched, Unnoticed, Testing
    <3>5. QED
      BY <3>1, <3>2, <3>3, <3>4 DEF Watched, Testing
  <2>23. CASE KernelAnswers
    <3>1. /\ UNCHANGED <<closed, queue, events, links, pc, status, hid, intact, baseline>> /\ queue # <<>>
          /\ replies' = Append(replies, [to |-> Head(queue), links |-> links])
      BY <2>23 DEF KernelAnswers, Answers
    <3>2. ToldIsTrue => ToldIsTrue'
      BY <3>1 DEF ToldIsTrue, ChannelOK
    <3>3. QED
      BY <3>1, <3>2 DEF Watched, Unnoticed, Testing
  <2>24. CASE UNCHANGED coexistVars
    BY <2>24, WatchedStays DEF coexistVars, Watched
  <2>25. CASE RegisterAgent \/ RegisterApp \/ RegisterAdv
    BY <2>9, <2>25 DEF RegisterAgent, RegisterApp, RegisterAdv
  <2>26. QED
    BY <2>2, <2>3, <2>4, <2>5, <2>6, <2>7, <2>8, <2>10, <2>11, <2>12, <2>13, <2>14, <2>15, <2>16, <2>17,
       <2>18, <2>19, <2>20, <2>21, <2>22, <2>23, <2>24, <2>25, NextCases
<1>3. QED
  BY <1>1, <1>2, ChannelCorrect, PTL DEF CoexistSpec

\* A verdict "passed" is given in a round whose links and events show everything that
\* must have stayed; no other step gives it.
LEMMA OnlyJudgePasses ==
  ASSUME [CoexistNext]_coexistVars, status # "passed", status' = "passed"
  PROVE  Judge /\ Hold
<1> USE DEF GoTo, GoOn, Verdict, Unrestored, mainVars
<1>1. CASE Judge
  BY <1>1 DEF Judge, BeginHold, Wait
<1>2. CASE StartRun \/ StartRestore \/ Kill \/ Tick \/ Leave
  BY <1>2 DEF StartRun, StartRestore, Kill, Tick, Leave, Over
<1>3. CASE Preflight \/ SaveBaseline \/ BaselineFails \/ Look \/ RoundFails
  BY <1>3 DEF Preflight, SaveBaseline, BaselineFails, Look, RoundFails
<1>4. CASE RegisterAgent \/ SetPairable \/ RegisterApp \/ RegisterAdv
  BY <1>4 DEF RegisterAgent, SetPairable, RegisterApp, RegisterAdv, Registers
<1>5. CASE UndoAdv \/ UndoApp \/ UndoPairable \/ UndoAgent \/ Closing
  BY <1>5 DEF UndoAdv, UndoApp, UndoPairable, UndoAgent, Closing
<1>6. CASE RestoreBegins \/ RestoreAnswered \/ Reset \/ Verify \/ VerifyLinks \/ RestoreFails
  BY <1>6 DEF RestoreBegins, RestoreAnswered, CloseLinks, Reset, Verify, VerifyLinks, RestoreFails
<1>7. ASSUME NEW h \in Handler, HandlerWakes(h) \/ HandlerFails(h) \/ UserAnswers(h) PROVE FALSE
  BY <1>7 DEF HandlerWakes, HandlerFails, UserAnswers
<1>8. ASSUME NEW d \in Device, RequestConfirmation(d) PROVE FALSE
  BY <1>8 DEF RequestConfirmation
<1>9. ASSUME NEW l \in Link, LinkChanges(l) PROVE FALSE
  BY <1>9 DEF LinkChanges
<1>10. CASE GattAccess \/ Cancel \/ ReadEvents \/ Forget \/ KernelAnswers \/ UNCHANGED coexistVars
  BY <1>10 DEF GattAccess, Cancel, ReadEvents, Forget, KernelAnswers, coexistVars
<1>11. QED
  BY <1>1, <1>2, <1>3, <1>4, <1>5, <1>6, <1>7, <1>8, <1>9, <1>10, NextCases

\* A run passes only if every connection of its baseline stayed up all the time and
\* one of the phone's since the hold began (bluez_hid_lab.py:839-853, 903-937): for
\* any number of companions, of handlers that read the same socket, and of events.
THEOREM PassedMeansKept == CoexistSpec => PassMeansKept
<1>1. ChannelOK /\ Watched /\ [CoexistNext]_coexistVars
        => (status # "passed" /\ status' = "passed" => baseline \cup {Phone} \subseteq intact)
  <2> SUFFICES ASSUME ChannelOK, Watched, [CoexistNext]_coexistVars, status # "passed", status' = "passed"
               PROVE  baseline \cup {Phone} \subseteq intact
    OBVIOUS
  <2>1. Judge /\ Hold
    BY OnlyJudgePasses
  <2>2. pc \in Testing /\ pc \in Session /\ Wakes(Main) /\ status = "" /\ Shown = "held"
    BY <2>1 DEF Judge, Hold, Session, Testing, Watched
  <2>3. ~closed
    BY <2>2, TheTold
  <2>4. hid = "held" /\ events \cap baseline = {} /\ Phone \notin events
    BY <2>2, ShownMeans
  <2>5. QED
    BY <2>2, <2>3, <2>4 DEF Watched, Unnoticed
<1>2. QED
  BY <1>1, WatchedAlways, ChannelCorrect, PTL DEF CoexistSpec, PassMeansKept

-----------------------------------------------------------------------------
(* The types, a group of variables at a time.                              *)

SocketTypes == closed \in BOOLEAN /\ events \subseteq Link

RunTypes ==
  /\ pc \in Place /\ repair \in BOOLEAN /\ due \in BOOLEAN
  /\ status \in {"", "passed", "failed", "unrestored"}

ShownTypes == hid \in Shows /\ gone \subseteq Link /\ intact \subseteq Link

AgentTypes ==
  /\ handling \in [Handler -> {"none", "links", "user"}]
  /\ device \in [Handler -> Device \cup {None}]
  /\ confirmed \in Device \cup {None} /\ pending \in Handler \cup {None}

RecordTypes ==
  /\ record \in BOOLEAN /\ baseline \subseteq Link /\ candidate \in Device \cup {None}
  /\ original \in BOOLEAN

SettingTypes ==
  /\ clean \in BOOLEAN /\ todo \subseteq Link
  /\ pairable \in BOOLEAN /\ alive \in BOOLEAN /\ serving \subseteq {"app", "adv", "agent"}

CoexistTypes ==
  /\ SocketTypes /\ RunTypes /\ ShownTypes /\ AgentTypes /\ RecordTypes /\ SettingTypes

LEMMA ToldAreLinks ==
  ASSUME ChannelOK, replies # <<>>
  PROVE  Told \subseteq Link
<1>1. Head(replies) \in ReplyTo
  BY DEF ChannelOK
<1>2. QED
  BY <1>1 DEF ReplyTo, Told

\* What a command, a reply, an event or the end of the channel does to the socket.
LEMMA SocketTypesStay ==
  ASSUME SocketTypes, [CoexistNext]_coexistVars
  PROVE  SocketTypes'
<1>1. ASSUME UNCHANGED linkVars PROVE SocketTypes'
  BY <1>1 DEF SocketTypes, linkVars
<1>2. ASSUME closed' \in {closed, TRUE, FALSE}, events' \in {events, {}} PROVE SocketTypes'
  BY <1>2 DEF SocketTypes
<1>3. ASSUME ChannelFails PROVE SocketTypes'
  BY <1>2, <1>3 DEF ChannelFails, GivesUp, Terminate, Leaves, Unheeded
<1> USE DEF linkVars
<1>4. CASE StartRun \/ StartRestore \/ Tick \/ Forget \/ Cancel \/ GattAccess \/ Reset
  BY <1>1, <1>4 DEF StartRun, StartRestore, Tick, Forget, Cancel, GattAccess, Reset
<1>5. CASE Kill \/ Leave \/ Closing
  BY <1>2, <1>5 DEF Kill, Leave, Closing, Over, Terminate
<1>6. CASE Preflight \/ RestoreBegins
  BY <1>2, <1>6 DEF Preflight, RestoreBegins, OpenAnd
<1>7. CASE SaveBaseline \/ Judge \/ VerifyLinks
  BY <1>2, <1>7 DEF SaveBaseline, Judge, VerifyLinks, Wakes
<1>8. CASE BaselineFails
  BY <1>2, <1>3, <1>8 DEF BaselineFails, Wakes
<1>9. CASE RoundFails \/ RestoreFails
  BY <1>3, <1>9 DEF RoundFails, RestoreFails
<1>10. CASE RegisterAgent \/ RegisterApp \/ RegisterAdv \/ SetPairable
  BY <1>2, <1>10 DEF RegisterAgent, RegisterApp, RegisterAdv, Registers, SetPairable, Unheeded
<1>11. CASE Look \/ Verify
  BY <1>2, <1>11 DEF Look, Verify, Unheeded, Command
<1>12. CASE UndoAdv \/ UndoApp \/ UndoPairable \/ UndoAgent
  BY <1>1, <1>12 DEF UndoAdv, UndoApp, UndoPairable, UndoAgent, Unregister
<1>13. CASE RestoreAnswered
  BY <1>2, <1>13 DEF RestoreAnswered
<1>14. ASSUME NEW h \in Handler, HandlerWakes(h) \/ HandlerFails(h) \/ UserAnswers(h) PROVE SocketTypes'
  BY <1>2, <1>14 DEF HandlerWakes, HandlerFails, UserAnswers, GivesUp, Terminate, Wakes
<1>15. ASSUME NEW d \in Device, RequestConfirmation(d) PROVE SocketTypes'
  BY <1>2, <1>15 DEF RequestConfirmation, Asking, Command
<1>16. ASSUME NEW l \in Link, LinkChanges(l) PROVE SocketTypes'
  BY <1>16 DEF LinkChanges, Changes, SocketTypes
<1>17. CASE ReadEvents \/ KernelAnswers
  BY <1>2, <1>17 DEF ReadEvents, KernelAnswers, Reads, Answers
<1>18. CASE UNCHANGED coexistVars
  BY <1>1, <1>18 DEF coexistVars
<1>19. QED
  BY <1>4, <1>5, <1>6, <1>7, <1>8, <1>9, <1>10, <1>11, <1>12, <1>13, <1>14, <1>15, <1>16, <1>17, <1>18,
     NextCases

\* Every step of the main task ends at a place of the program.
LEMMA RunTypesStay ==
  ASSUME RunTypes, [CoexistNext]_coexistVars
  PROVE  RunTypes'
<1>0. Session \cup Undoing \cup Restoring \cup {"none"} \subseteq Place
  BY DEF Place
<1>1. ASSUME NEW s \in {"passed", "failed"}, Verdict(s) PROVE RunTypes'
  <2>1. pc' \in Undoing /\ status' = s /\ due' = FALSE /\ repair' = repair
    BY <1>1, VerdictLeads DEF Verdict
  <2>2. QED
    BY <1>0, <2>1 DEF RunTypes
<1>2. ASSUME NEW place \in Place, GoTo(place) \/ GoOn(place) PROVE RunTypes'
  BY <1>2 DEF GoTo, GoOn, RunTypes
<1>3. ASSUME Unrestored PROVE RunTypes'
  BY <1>3 DEF Unrestored, RunTypes, Place, Restoring
<1>4. ASSUME UNCHANGED mainVars PROVE RunTypes'
  BY <1>4 DEF mainVars, RunTypes
<1>5. CASE StartRun \/ StartRestore \/ Tick
  BY <1>5 DEF StartRun, StartRestore, Tick, RunTypes, Place, Session, Restoring
<1>6. CASE Kill \/ Leave
  BY <1>6 DEF Kill, Leave, Over, RunTypes, Place
<1>7. CASE Preflight \/ SaveBaseline \/ BaselineFails
  <2>1. \/ \E s \in {"passed", "failed"} : Verdict(s)
        \/ \E place \in {"baseline", "agent", "pairable"} : GoTo(place) \/ GoOn(place)
    BY <1>7 DEF Preflight, SaveBaseline, BaselineFails
  <2>2. {"baseline", "agent", "pairable"} \subseteq Place
    BY DEF Place, Session
  <2>3. QED
    BY <1>1, <1>2, <2>1, <2>2
<1>8. CASE RegisterAgent \/ SetPairable \/ RegisterApp \/ RegisterAdv \/ Look
  <2>1. \/ \E s \in {"passed", "failed"} : Verdict(s)
        \/ \E place \in {"pairable", "app", "adv", "look", "links"} : GoTo(place) \/ GoOn(place)
    BY <1>8 DEF RegisterAgent, SetPairable, RegisterApp, RegisterAdv, Registers, Look
  <2>2. {"pairable", "app", "adv", "look", "links"} \subseteq Place
    BY DEF Place, Session
  <2>3. QED
    BY <1>1, <1>2, <2>1, <2>2
<1>9. CASE Judge \/ RoundFails
  <2>1. "look" \in Place
    BY DEF Place, Session
  <2>2. ASSUME NEW verified, BeginHold(verified) PROVE RunTypes'
    BY <2>1, <2>2 DEF BeginHold, RunTypes
  <2>3. ASSUME Hold \/ \E verified \in Verified : Wait(verified) PROVE RunTypes'
    BY <1>1, <1>2, <2>1, <2>3 DEF Hold, Wait
  <2>4. QED
    BY <1>1, <1>9, <2>2, <2>3 DEF Judge, RoundFails
<1>10. CASE UndoAdv \/ UndoApp \/ UndoPairable \/ UndoAgent
  <2>1. \E place \in Undoing : GoTo(place)
    BY <1>10 DEF UndoAdv, UndoApp, UndoPairable, UndoAgent, Undoing
  <2>2. QED
    BY <1>0, <1>2, <2>1
<1>11. CASE Closing
  BY <1>11 DEF Closing, RunTypes, Place, Restoring
<1>12. CASE RestoreBegins \/ RestoreAnswered \/ Reset \/ Verify \/ VerifyLinks \/ RestoreFails
  <2>1. \/ \E place \in Restoring : GoTo(place)
        \/ Unrestored
        \/ pc' = "verify" /\ due' = FALSE /\ UNCHANGED <<repair, status>>
        \/ pc' = "leave" /\ status' = "failed" /\ UNCHANGED <<repair, due>>
    BY <1>12 DEF RestoreBegins, RestoreAnswered, CloseLinks, Reset, Verify, VerifyLinks, RestoreFails, Restoring
  <2>2. {"verify", "leave"} \subseteq Place
    BY DEF Place, Restoring
  <2>3. QED
    BY <1>0, <1>2, <1>3, <2>1, <2>2 DEF RunTypes
<1>13. ASSUME NEW h \in Handler, HandlerWakes(h) \/ HandlerFails(h) \/ UserAnswers(h) PROVE RunTypes'
  BY <1>4, <1>13 DEF HandlerWakes, HandlerFails, UserAnswers
<1>14. ASSUME NEW d \in Device, RequestConfirmation(d) PROVE RunTypes'
  BY <1>4, <1>14 DEF RequestConfirmation
<1>15. ASSUME NEW l \in Link, LinkChanges(l) PROVE RunTypes'
  BY <1>4, <1>15 DEF LinkChanges
<1>16. CASE GattAccess \/ Cancel \/ ReadEvents \/ Forget \/ KernelAnswers
  BY <1>4, <1>16 DEF GattAccess, Cancel, ReadEvents, Forget, KernelAnswers
<1>17. CASE UNCHANGED coexistVars
  BY <1>4, <1>17 DEF coexistVars
<1>18. QED
  BY <1>5, <1>6, <1>7, <1>8, <1>9, <1>10, <1>11, <1>12, <1>13, <1>14, <1>15, <1>16, <1>17, NextCases

LEMMA ShownIsKnown ==
  ASSUME ShownTypes
  PROVE  Shown \in Shows
BY DEF ShownTypes, Shown, Shows

\* What the phone has shown, and which links a test has not lost.
LEMMA ShownTypesStay ==
  ASSUME ShownTypes, SocketTypes, ChannelOK, [CoexistNext]_coexistVars
  PROVE  ShownTypes'
<1>1. ASSUME UNCHANGED shownVars PROVE ShownTypes'
  BY <1>1 DEF shownVars, ShownTypes
<1>2. ASSUME NEW s, Verdict(s) PROVE ShownTypes'
  BY <1>2 DEF Verdict, ShownTypes, Shows
<1>3. ASSUME Drain PROVE ShownTypes'
  <2>1. hid' \in Shows
    BY <1>3, ShownIsKnown DEF Drain
  <2>2. gone' \subseteq Link /\ intact' \subseteq Link
    BY <1>3 DEF Drain, ShownTypes, SocketTypes
  <2>3. QED
    BY <2>1, <2>2 DEF ShownTypes
<1>4. CASE StartRun \/ StartRestore \/ Tick \/ Forget \/ Cancel
  BY <1>1, <1>4 DEF StartRun, StartRestore, Tick, Forget, Cancel
<1>5. CASE Kill \/ Leave
  BY <1>5 DEF Kill, Leave, Over, ShownTypes, Shows
<1>6. CASE Preflight \/ BaselineFails
  BY <1>1, <1>2, <1>6 DEF Preflight, BaselineFails, GoOn
<1>7. CASE SaveBaseline
  <2>1. CASE /\ gone' = {} /\ intact' = Told \cap links
             /\ hid' = IF (gone \cup events) \cap Told = {} THEN "nothing" ELSE "broken"
    BY <2>1 DEF ShownTypes, Shows, ChannelOK
  <2>2. QED
    BY <1>2, <1>7, <2>1 DEF SaveBaseline
<1>8. CASE RegisterAgent \/ SetPairable \/ RegisterApp \/ RegisterAdv \/ Look \/ RoundFails
  BY <1>1, <1>2, <1>8 DEF RegisterAgent, SetPairable, RegisterApp, RegisterAdv, Registers, Look, RoundFails, GoOn
<1>9. CASE Judge
  <2>1. ASSUME NEW verified, BeginHold(verified) PROVE ShownTypes'
    <3>1. hid' = "held" /\ intact' = intact \cup {Phone} /\ UNCHANGED gone
      BY <2>1 DEF BeginHold
    <3>2. QED
      BY <3>1, CoexistAssumption DEF ShownTypes, Shows
  <2>2. ASSUME Hold \/ \E verified \in Verified : Wait(verified) PROVE ShownTypes'
    BY <1>2, <1>3, <2>2 DEF Hold, Wait
  <2>3. QED
    BY <1>2, <1>9, <2>1, <2>2 DEF Judge
<1>10. CASE UndoAdv \/ UndoApp \/ UndoPairable \/ UndoAgent
  BY <1>1, <1>10 DEF UndoAdv, UndoApp, UndoPairable, UndoAgent, Unregister
<1>11. CASE Closing
  BY <1>11 DEF Closing, ShownTypes, Shows
<1>12. CASE RestoreBegins \/ RestoreAnswered \/ Reset \/ Verify \/ VerifyLinks \/ RestoreFails
  BY <1>1, <1>12 DEF RestoreBegins, RestoreAnswered, Reset, Verify, VerifyLinks, RestoreFails
<1>13. ASSUME NEW h \in Handler, HandlerWakes(h) \/ HandlerFails(h) \/ UserAnswers(h) PROVE ShownTypes'
  BY <1>1, <1>3, <1>13 DEF HandlerWakes, HandlerFails, UserAnswers
<1>14. ASSUME NEW d \in Device, RequestConfirmation(d) PROVE ShownTypes'
  BY <1>1, <1>14 DEF RequestConfirmation
<1>15. ASSUME NEW l \in Link, LinkChanges(l) PROVE ShownTypes'
  BY <1>15 DEF LinkChanges, ShownTypes
<1>16. CASE GattAccess
  BY <1>16 DEF GattAccess, ShownTypes, Shows
<1>17. CASE ReadEvents \/ KernelAnswers
  BY <1>1, <1>3, <1>17 DEF ReadEvents, KernelAnswers
<1>18. CASE UNCHANGED coexistVars
  BY <1>1, <1>18 DEF coexistVars
<1>19. QED
  BY <1>4, <1>5, <1>6, <1>7, <1>8, <1>9, <1>10, <1>11, <1>12, <1>13, <1>14, <1>15, <1>16, <1>17, <1>18,
     NextCases

LEMMA AnsweredTyped ==
  ASSUME AgentTypes, NEW h \in Handler, Replied(h)
  PROVE  /\ handling' \in [Handler -> {"none", "links", "user"}]
         /\ device' \in [Handler -> Device \cup {None}] /\ pending' \in Handler \cup {None}
BY DEF AgentTypes, Replied

LEMMA CancelledTyped ==
  ASSUME AgentTypes, CancelPending
  PROVE  /\ handling' \in [Handler -> {"none", "links", "user"}]
         /\ device' \in [Handler -> Device \cup {None}]
<1>1. handling' = Cancelled
  BY DEF CancelPending
<1>2. Cancelled \in [Handler -> {"none", "links", "user"}]
  BY DEF Cancelled, AgentTypes
<1>3. device' \in [Handler -> Device \cup {None}]
  BY DEF CancelPending, AgentTypes
<1>4. QED
  BY <1>1, <1>2, <1>3

\* The handlers are each at their step, for a device that has asked.
LEMMA AgentTypesStay ==
  ASSUME AgentTypes, [CoexistNext]_coexistVars
  PROVE  AgentTypes'
<1>1. ASSUME UNCHANGED agentVars PROVE AgentTypes'
  BY <1>1 DEF agentVars, AgentTypes
<1>2. CASE StartRun \/ StartRestore \/ Tick \/ Forget \/ GattAccess \/ ReadEvents \/ KernelAnswers
  BY <1>1, <1>2 DEF StartRun, StartRestore, Tick, Forget, GattAccess, ReadEvents, KernelAnswers
<1>3. CASE Kill \/ Leave
  BY <1>3 DEF Kill, Leave, Over, AgentTypes
<1>4. CASE Preflight \/ SaveBaseline \/ BaselineFails \/ Look \/ Judge \/ RoundFails
  BY <1>1, <1>4 DEF Preflight, SaveBaseline, BaselineFails, Look, Judge, RoundFails
<1>5. CASE RegisterAgent \/ SetPairable \/ RegisterApp \/ RegisterAdv
  BY <1>1, <1>5 DEF RegisterAgent, SetPairable, RegisterApp, RegisterAdv, Registers
<1>6. CASE UndoAdv \/ UndoPairable \/ UndoAgent
  BY <1>1, <1>6 DEF UndoAdv, UndoPairable, UndoAgent
<1>7. CASE UndoApp
  BY <1>7, CancelledTyped DEF UndoApp, AgentTypes
<1>8. CASE Closing
  <2>1. /\ handling' = [h \in Handler |-> IF handling[h] = "user" THEN "user" ELSE "none"]
        /\ device' = [h \in Handler |-> IF handling[h] = "user" THEN device[h] ELSE None]
        /\ confirmed' = None /\ pending' = None
    BY <1>8 DEF Closing
  <2>2. QED
    BY <2>1 DEF AgentTypes
<1>9. CASE RestoreBegins \/ RestoreAnswered \/ Reset \/ Verify \/ VerifyLinks \/ RestoreFails
  BY <1>1, <1>9 DEF RestoreBegins, RestoreAnswered, Reset, Verify, VerifyLinks, RestoreFails
<1>10. CASE Cancel
  BY <1>10, CancelledTyped DEF Cancel, AgentTypes
<1>11. ASSUME NEW h \in Handler, HandlerWakes(h) PROVE AgentTypes'
  <2>1. CASE handling' = [handling EXCEPT ![h] = "user"] /\ UNCHANGED <<device, pending>>
    BY <1>11, <2>1 DEF HandlerWakes, AgentTypes
  <2>2. CASE Replied(h)
    BY <1>11, <2>2, AnsweredTyped DEF HandlerWakes, AgentTypes
  <2>3. QED
    BY <1>11, <2>1, <2>2 DEF HandlerWakes
<1>12. ASSUME NEW h \in Handler, HandlerFails(h) PROVE AgentTypes'
  BY <1>12, AnsweredTyped DEF HandlerFails, AgentTypes
<1>13. ASSUME NEW h \in Handler, UserAnswers(h) PROVE AgentTypes'
  <2>1. confirmed' \in {device[h], confirmed}
    BY <1>13 DEF UserAnswers
  <2>2. QED
    BY <1>13, <2>1, AnsweredTyped DEF UserAnswers, AgentTypes
<1>14. ASSUME NEW d \in Device, RequestConfirmation(d) PROVE AgentTypes'
  <2>1. Pick(Free) \in Handler
    BY <1>14 DEF RequestConfirmation, Pick, Free
  <2>2. PICK h \in Handler : Asking(h, d)
    BY <1>14, <2>1 DEF RequestConfirmation
  <2>3. QED
    BY <1>14, <2>2 DEF RequestConfirmation, Asking, AgentTypes
<1>15. ASSUME NEW l \in Link, LinkChanges(l) PROVE AgentTypes'
  BY <1>1, <1>15 DEF LinkChanges
<1>16. CASE UNCHANGED coexistVars
  BY <1>1, <1>16 DEF coexistVars
<1>17. QED
  BY <1>2, <1>3, <1>4, <1>5, <1>6, <1>7, <1>8, <1>9, <1>10, <1>11, <1>12, <1>13, <1>14, <1>15, <1>16,
     NextCases

\* What is recorded are links the kernel has told and a device that has asked.
LEMMA RecordTypesStay ==
  ASSUME RecordTypes, AgentTypes, SettingTypes, ChannelOK, [CoexistNext]_coexistVars
  PROVE  RecordTypes'
<1>1. ASSUME UNCHANGED recordVars PROVE RecordTypes'
  BY <1>1 DEF recordVars, RecordTypes
<1>2. CASE StartRun \/ StartRestore \/ Tick \/ Forget \/ Cancel \/ GattAccess \/ ReadEvents \/ KernelAnswers
  BY <1>1, <1>2 DEF StartRun, StartRestore, Tick, Forget, Cancel, GattAccess, ReadEvents, KernelAnswers
<1>3. CASE Kill \/ Leave
  BY <1>3 DEF Kill, Leave, Over, RecordTypes
<1>4. CASE Preflight
  <2>1. original' \in {original, pairable} /\ UNCHANGED <<record, baseline, candidate>>
    BY <1>4 DEF Preflight
  <2>2. QED
    BY <2>1 DEF RecordTypes, SettingTypes
<1>5. CASE SaveBaseline
  <2>1. baseline' = Told /\ record' \in {record, TRUE} /\ UNCHANGED <<candidate, original>>
    BY <1>5 DEF SaveBaseline
  <2>2. Told \subseteq Link
    BY <1>5, ToldAreLinks DEF SaveBaseline, Wakes
  <2>3. QED
    BY <2>1, <2>2 DEF RecordTypes
<1>6. CASE BaselineFails \/ Look \/ Judge \/ RoundFails
  BY <1>1, <1>6 DEF BaselineFails, Look, Judge, RoundFails
<1>7. CASE RegisterAgent \/ SetPairable \/ RegisterApp \/ RegisterAdv
  BY <1>1, <1>7 DEF RegisterAgent, SetPairable, RegisterApp, RegisterAdv, Registers
<1>8. CASE UndoAdv \/ UndoApp \/ UndoPairable \/ UndoAgent
  BY <1>1, <1>8 DEF UndoAdv, UndoApp, UndoPairable, UndoAgent, Unregister
<1>9. CASE Closing
  <2>1. candidate' \in {candidate, None} /\ UNCHANGED <<baseline, original>>
    BY <1>9 DEF Closing
  <2>2. record' \in BOOLEAN
    BY <1>9 DEF Closing, RecordTypes
  <2>3. QED
    BY <2>1, <2>2 DEF RecordTypes
<1>10. CASE RestoreBegins \/ RestoreAnswered \/ Reset \/ Verify \/ RestoreFails
  BY <1>1, <1>10 DEF RestoreBegins, RestoreAnswered, Reset, Verify, RestoreFails
<1>11. CASE VerifyLinks
  <2>1. record' \in {record, FALSE} /\ UNCHANGED <<baseline, candidate, original>>
    BY <1>11 DEF VerifyLinks
  <2>2. QED
    BY <2>1 DEF RecordTypes
<1>12. ASSUME NEW h \in Handler, HandlerWakes(h) \/ HandlerFails(h) \/ UserAnswers(h) PROVE RecordTypes'
  <2>1. /\ candidate' \in {candidate, device[h]} /\ record' \in {record, TRUE}
        /\ UNCHANGED <<baseline, original>>
    BY <1>12 DEF HandlerWakes, HandlerFails, UserAnswers, recordVars
  <2>2. QED
    BY <2>1 DEF RecordTypes, AgentTypes
<1>13. ASSUME NEW d \in Device, RequestConfirmation(d) PROVE RecordTypes'
  BY <1>1, <1>13 DEF RequestConfirmation
<1>14. ASSUME NEW l \in Link, LinkChanges(l) PROVE RecordTypes'
  BY <1>1, <1>14 DEF LinkChanges
<1>15. CASE UNCHANGED coexistVars
  BY <1>1, <1>15 DEF coexistVars
<1>16. QED
  BY <1>2, <1>3, <1>4, <1>5, <1>6, <1>7, <1>8, <1>9, <1>10, <1>11, <1>12, <1>13, <1>14, <1>15, NextCases

\* What BlueZ has of ours, and what restore has still to do.
LEMMA SettingTypesStay ==
  ASSUME SettingTypes, RunTypes, RecordTypes, [CoexistNext]_coexistVars
  PROVE  SettingTypes'
<1>1. ASSUME UNCHANGED restoreVars, UNCHANGED bluezVars PROVE SettingTypes'
  BY <1>1 DEF restoreVars, bluezVars, SettingTypes
<1>2. CASE StartRun
  BY <1>2 DEF StartRun, restoreVars, SettingTypes
<1>3. CASE StartRestore \/ Tick \/ Cancel \/ GattAccess \/ ReadEvents \/ KernelAnswers
  BY <1>1, <1>3 DEF StartRestore, Tick, Cancel, GattAccess, ReadEvents, KernelAnswers
<1>4. CASE Forget
  <2>1. UNCHANGED <<restoreVars, pairable>> /\ alive' \in {alive, FALSE} /\ serving' \in {serving, {}}
    BY <1>4 DEF Forget
  <2>2. QED
    BY <2>1 DEF restoreVars, SettingTypes
<1>5. CASE Kill \/ Leave
  BY <1>5 DEF Kill, Leave, Over, bluezVars, SettingTypes
<1>6. CASE Preflight \/ SaveBaseline \/ BaselineFails \/ Look \/ Judge \/ RoundFails
  BY <1>1, <1>6 DEF Preflight, SaveBaseline, BaselineFails, Look, Judge, RoundFails
<1>7. ASSUME NEW what \in {"agent", "app", "adv"}, NEW next, Registers(what, next) PROVE SettingTypes'
  <2>1. UNCHANGED <<restoreVars, pairable, alive>> /\ serving' \in {serving, serving \cup {what}}
    BY <1>7 DEF Registers
  <2>2. QED
    BY <2>1 DEF restoreVars, SettingTypes
<1>8. CASE RegisterAgent \/ RegisterApp \/ RegisterAdv
  BY <1>7, <1>8 DEF RegisterAgent, RegisterApp, RegisterAdv
<1>9. CASE SetPairable
  <2>1. UNCHANGED <<restoreVars, serving, alive>> /\ pairable' \in {pairable, repair}
    BY <1>9 DEF SetPairable
  <2>2. QED
    BY <2>1 DEF restoreVars, SettingTypes, RunTypes
<1>10. ASSUME NEW what, Unregister(what) PROVE SettingTypes'
  <2>1. UNCHANGED <<restoreVars, pairable, alive>> /\ serving' \in {serving, serving \ {what}}
    BY <1>10 DEF Unregister
  <2>2. QED
    BY <2>1 DEF restoreVars, SettingTypes
<1>11. CASE UndoAdv \/ UndoApp \/ UndoAgent
  BY <1>10, <1>11 DEF UndoAdv, UndoApp, UndoAgent
<1>12. CASE UndoPairable \/ Reset
  <2>1. UNCHANGED <<restoreVars, serving, alive>> /\ pairable' \in {pairable, original}
    BY <1>12 DEF UndoPairable, Reset
  <2>2. QED
    BY <2>1 DEF restoreVars, SettingTypes, RecordTypes
<1>13. CASE Closing \/ RestoreBegins \/ VerifyLinks \/ RestoreFails
  BY <1>1, <1>13 DEF Closing, RestoreBegins, VerifyLinks, RestoreFails
<1>14. CASE RestoreAnswered
  <2>1. UNCHANGED <<clean, bluezVars>>
    BY <1>14 DEF RestoreAnswered
  <2>2. todo' \in {todo, Added(Told), todo \ {Pick(todo)}}
    BY <1>14 DEF RestoreAnswered, CloseLinks
  <2>3. Added(Told) \subseteq Link
    BY CoexistAssumption DEF Added
  <2>4. QED
    BY <2>1, <2>2, <2>3 DEF bluezVars, SettingTypes
<1>15. CASE Verify
  <2>1. UNCHANGED <<todo, bluezVars>> /\ clean' \in {clean, InPlace}
    BY <1>15 DEF Verify
  <2>2. InPlace \in BOOLEAN
    BY DEF InPlace
  <2>3. QED
    BY <2>1, <2>2 DEF bluezVars, SettingTypes
<1>16. ASSUME NEW h \in Handler, HandlerWakes(h) \/ HandlerFails(h) \/ UserAnswers(h) PROVE SettingTypes'
  BY <1>1, <1>16 DEF HandlerWakes, HandlerFails, UserAnswers
<1>17. ASSUME NEW d \in Device, RequestConfirmation(d) PROVE SettingTypes'
  BY <1>1, <1>17 DEF RequestConfirmation
<1>18. ASSUME NEW l \in Link, LinkChanges(l) PROVE SettingTypes'
  BY <1>1, <1>18 DEF LinkChanges
<1>19. CASE UNCHANGED coexistVars
  BY <1>1, <1>19 DEF coexistVars
<1>20. QED
  BY <1>2, <1>3, <1>4, <1>5, <1>6, <1>8, <1>9, <1>11, <1>12, <1>13, <1>14, <1>15, <1>16, <1>17, <1>18,
     <1>19, NextCases

\* The variables of a coexistence test stay in their types, for any links, devices and
\* handlers, whatever fails and wherever a process is killed.
THEOREM CoexistTypeCorrect == CoexistSpec => []CoexistTypeOK
<1>1. CoexistInit => CoexistTypes
  <2> SUFFICES ASSUME CoexistInit PROVE CoexistTypes
    OBVIOUS
  <2>1. SocketTypes /\ RunTypes
    BY DEF CoexistInit, SocketTypes, RunTypes, Place
  <2>2. ShownTypes /\ RecordTypes /\ SettingTypes
    BY DEF CoexistInit, ShownTypes, RecordTypes, SettingTypes, Shows
  <2>3. AgentTypes
    BY DEF CoexistInit, AgentTypes
  <2>4. QED
    BY <2>1, <2>2, <2>3 DEF CoexistTypes
<1>2. ChannelOK /\ CoexistTypes /\ [CoexistNext]_coexistVars => CoexistTypes'
  BY SocketTypesStay, RunTypesStay, ShownTypesStay, AgentTypesStay, RecordTypesStay, SettingTypesStay
     DEF CoexistTypes
<1>3. ChannelOK /\ CoexistTypes => CoexistTypeOK
  BY DEF ChannelOK, ReplyTo, CoexistTypes, SocketTypes, RunTypes, ShownTypes, AgentTypes, RecordTypes,
         SettingTypes, CoexistTypeOK, LinkTypeOK
<1>4. QED
  BY <1>1, <1>2, <1>3, ChannelCorrect, PTL DEF CoexistSpec
=============================================================================
