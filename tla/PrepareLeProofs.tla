--------------------------- MODULE PrepareLeProofs --------------------------
(***************************************************************************)
(* What prepare_le does to the phone's pairing, for any number of helpers  *)
(* and any number of unread messages.                                      *)
(***************************************************************************)
EXTENDS PrepareLe, TLAPS

\* The steps, one by one.
LEMMA NextCases ==
  ASSUME [Next]_vars
  PROVE  \/ \E h \in Helper :
              \/ PreferLe(h) \/ SendCommand(h) \/ Receive(h) \/ CommandTimeout(h)
              \/ KillHelper(h) \/ Expire(h)
              \/ KernelDisconnects(h) \/ KernelUnpairs(h) \/ KernelAccepts(h) \/ Broadcast(h)
         \/ BluetoothdForgets \/ PhoneChangesClassic
         \/ UNCHANGED vars
BY DEF Next, HelperStep

LEMMA Messages ==
  ASSUME NEW cmd \in Command, NEW e \in {"complete", "status"}, NEW st \in {"ok", "absent", "failed"}
  PROVE  Reply(e, cmd, st) \in Message /\ Noise(cmd) \cup Malformed(cmd) \subseteq Message
<1>1. \A f \in {"complete", "status", "other"}, c \in Command \cup {"other"} :
        Reply(f, c, st) \in Message /\ Reply(f, c, "ok") \in Message
  BY DEF Reply, Message
<1>2. \A m \in Message : /\ [m EXCEPT !.hci0 = FALSE] \in Message
                          /\ [m EXCEPT !.target = FALSE] \in Message
                          /\ [m EXCEPT !.form = "truncated"] \in Message
                          /\ [m EXCEPT !.form = "length"] \in Message
  BY DEF Message
<1>3. Noise(cmd) \cup Malformed(cmd) \subseteq Message
  BY <1>1, <1>2 DEF Noise, Malformed
<1>4. QED
  BY <1>1, <1>3

\* What a delivery does to the queues, if all the messages it may bring are.
LEMMA Delivered ==
  ASSUME TypeOK, NEW h \in Helper, NEW cmd, NEW ms \in SUBSET Message, Deliver(h, cmd, ms)
  PROVE  /\ socket' \in [Helper -> Seq(Message)]
         /\ \A g \in Helper :
              \/ socket'[g] = socket[g]
              \/ g = h /\ step[h] = cmd /\ \E m \in ms : socket'[g] = Append(socket[g], m)
<1>1. CASE step[h] = cmd
  <2>1. PICK m \in ms : socket' = [socket EXCEPT ![h] = Append(socket[h], m)]
    BY <1>1 DEF Deliver
  <2>2. Append(socket[h], m) \in Seq(Message)
    BY DEF TypeOK
  <2>3. QED
    BY <1>1, <2>1, <2>2 DEF TypeOK
<1>2. CASE step[h] # cmd
  BY <1>2 DEF Deliver, TypeOK
<1>3. QED
  BY <1>1, <1>2

\* Where a helper goes when a command is over.
LEMMA CommandCases ==
  ASSUME NEW h, NEW success \in BOOLEAN, CommandOver(h, success)
  PROVE  \/ step[h] = "disconnect" /\ success /\ GoOn(h, "unpair") /\ verdict' = verdict
         \/ \E v \in {"true", "false"} :
              /\ GoOn(h, "done") /\ verdict' = [verdict EXCEPT ![h] = v]
              /\ v = "true" => step[h] # "disconnect" /\ success /\ h \in preferred
<1>1. CASE step[h] = "disconnect" /\ success
  BY <1>1 DEF CommandOver
<1>2. CASE ~(step[h] = "disconnect" /\ success)
  BY <1>2 DEF CommandOver, End
<1>3. QED
  BY <1>1, <1>2

\* The values the variables take.
THEOREM TypeCorrect == Spec => []TypeOK
<1>1. Init => TypeOK
  <2> SUFFICES ASSUME Init PROVE TypeOK
    OBVIOUS
  <2> USE DEF Init
  <2>1. socket \in [Helper -> Seq(Message)]
    OBVIOUS
  <2>2. step \in [Helper -> {"prefer", "done"} \cup Command]
    OBVIOUS
  <2>3. verdict \in [Helper -> {"none", "true", "false", "killed"}]
    OBVIOUS
  <2>4. sent \in [Helper -> SUBSET Command] /\ todo \in [Helper -> SUBSET Command]
    OBVIOUS
  <2>5. late \subseteq Helper /\ preferred \subseteq Helper /\ wasDown \subseteq Helper
    OBVIOUS
  <2>6. bearer \in {"last-used", "le"}
    OBVIOUS
  <2>7. \A flag \in {classic, bond, stored, known, reconnected, leLost} : flag \in BOOLEAN
    OBVIOUS
  <2>8. QED
    BY <2>1, <2>2, <2>3, <2>4, <2>5, <2>6, <2>7 DEF TypeOK
<1>2. TypeOK /\ [Next]_vars => TypeOK'
  <2> SUFFICES ASSUME TypeOK, [Next]_vars PROVE TypeOK'
    OBVIOUS
  <2> USE DEF TypeOK
  <2>1. ASSUME NEW h \in Helper, PreferLe(h) PROVE TypeOK'
    BY <2>1 DEF PreferLe, GoOn, Command, phoneVars, history
  <2>2. ASSUME NEW h \in Helper, NEW success \in BOOLEAN, CommandOver(h, success)
        PROVE  /\ step' \in [Helper -> {"prefer", "done"} \cup Command] /\ late' \subseteq Helper
               /\ socket' \in [Helper -> Seq(Message)]
               /\ verdict' \in [Helper -> {"none", "true", "false", "killed"}]
    <3>1. PICK next \in {"unpair", "done"} : GoOn(h, next)
      BY <2>2, CommandCases
    <3>2. step' \in [Helper -> {"prefer", "done"} \cup Command]
      BY <3>1 DEF GoOn, Command
    <3>3. socket' \in [Helper -> Seq(Message)]
      BY <3>1 DEF GoOn
    <3>4. late' \subseteq Helper
      BY <3>1 DEF GoOn
    <3>5. verdict' \in [Helper -> {"none", "true", "false", "killed"}]
      BY <2>2, CommandCases
    <3>6. QED
      BY <3>2, <3>3, <3>4, <3>5
  <2>3. ASSUME NEW h \in Helper, SendCommand(h) PROVE TypeOK'
    <3>1. CASE CommandOver(h, FALSE) /\ UNCHANGED <<sent, todo>>
      BY <3>1, <2>3, <2>2 DEF SendCommand, phoneVars, history
    <3>2. CASE /\ sent' = [sent EXCEPT ![h] = @ \cup {step[h]}]
               /\ todo' = [todo EXCEPT ![h] = @ \cup {step[h]}]
               /\ UNCHANGED <<step, socket, late, verdict>>
      <4>1. step[h] \in Command /\ UNCHANGED <<preferred, phoneVars, bearer, history>>
        BY <2>3 DEF SendCommand
      <4>2. sent' \in [Helper -> SUBSET Command] /\ todo' \in [Helper -> SUBSET Command]
        BY <3>2, <4>1
      <4>3. QED
        BY <3>2, <4>1, <4>2 DEF phoneVars, history
    <3>3. QED
      BY <3>1, <3>2, <2>3 DEF SendCommand
  <2>4. ASSUME NEW h \in Helper, Receive(h) PROVE TypeOK'
    <3>1. Tail(socket[h]) \in Seq(Message)
      BY <2>4 DEF Receive
    <3>2. QED
      BY <2>4, <2>2, <3>1 DEF Receive, phoneVars, history
  <2>5. ASSUME NEW h \in Helper, CommandTimeout(h) PROVE TypeOK'
    BY <2>5, <2>2 DEF CommandTimeout, phoneVars, history
  <2>6. ASSUME NEW h \in Helper, KillHelper(h) PROVE TypeOK'
    BY <2>6 DEF KillHelper, End, GoOn, phoneVars, history
  <2>13. ASSUME NEW h \in Helper, Expire(h) PROVE TypeOK'
    BY <2>13 DEF Expire, phoneVars, history
  <2>7. ASSUME NEW h \in Helper, KernelDisconnects(h) PROVE TypeOK'
    <3>1. socket' \in [Helper -> Seq(Message)]
      <4>1. PICK ms \in SUBSET Message : Deliver(h, "disconnect", ms)
        <5>1. \A e \in {"complete", "status"}, st \in {"ok", "absent", "failed"} :
                Reply(e, "disconnect", st) \in Message
          BY Messages DEF Command
        <5>2. QED
          BY <2>7, <5>1 DEF KernelDisconnects
      <4>2. QED
        BY <4>1, Delivered
    <3>2. QED
      BY <2>7, <3>1 DEF KernelDisconnects, Executed
  <2>8. ASSUME NEW h \in Helper, KernelUnpairs(h) PROVE TypeOK'
    <3>1. socket' \in [Helper -> Seq(Message)]
      <4>1. PICK ms \in SUBSET Message : Deliver(h, "unpair", ms)
        <5>1. \A e \in {"complete", "status"}, st \in {"ok", "absent", "failed"} :
                Reply(e, "unpair", st) \in Message
          BY Messages DEF Command
        <5>2. QED
          BY <2>8, <5>1 DEF KernelUnpairs
      <4>2. QED
        BY <4>1, Delivered
    <3>2. QED
      BY <2>8, <3>1 DEF KernelUnpairs, Executed, history
  <2>9. ASSUME NEW h \in Helper, KernelAccepts(h) \/ Broadcast(h) PROVE TypeOK'
    <3>1. step[h] \in Command
      BY <2>9 DEF KernelAccepts, Broadcast
    <3>2. socket' \in [Helper -> Seq(Message)]
      <4>1. PICK ms \in SUBSET Message : Deliver(h, step[h], ms)
        <5>1. Reply("status", step[h], "ok") \in Message
              /\ Noise(step[h]) \cup Malformed(step[h]) \subseteq Message
          BY <3>1, Messages
        <5>2. QED
          BY <2>9, <5>1 DEF KernelAccepts, Broadcast
      <4>2. QED
        BY <4>1, Delivered
    <3>3. QED
      BY <2>9, <3>2 DEF KernelAccepts, Broadcast, phoneVars, history
  <2>10. CASE BluetoothdForgets \/ PhoneChangesClassic
    BY <2>10 DEF BluetoothdForgets, PhoneChangesClassic, helperVars
  <2>11. CASE UNCHANGED vars
    BY <2>11 DEF vars, helperVars, phoneVars, history
  <2>12. QED
    BY <2>1, <2>3, <2>4, <2>5, <2>6, <2>7, <2>8, <2>9, <2>10, <2>11, <2>13, NextCases
<1>3. QED
  BY <1>1, <1>2, PTL DEF Spec

-----------------------------------------------------------------------------

\* A message that the helper would take for the success of its command is none
\* unless the command's effect is there.
Truthful(h, m) ==
  Judge(m, step[h]) = "success" =>
    /\ step[h] = "disconnect" => h \in wasDown
    /\ step[h] = "unpair" => ~bond

Truth == \A h \in Helper : \A i \in 1..Len(socket[h]) : Truthful(h, socket[h][i])

\* What is known of BR/EDR and of the bond at any time.
Phone ==
  /\ ~classic => wasDown = Helper
  /\ wasDown # {} /\ classic => reconnected
  /\ stored /\ ~bond => wasDown # {}
  /\ \A h \in Helper : todo[h] \subseteq sent[h]

\* A helper that has set the preference has: nobody takes it back.
Preference == \A h \in preferred : known => bearer = "le"

\* Together with the properties of the runs, these are inductive.
Sound == Truth /\ Phone /\ Preference /\ UnpairAfterDisconnect /\ LeLinkSurvives /\ TrueMeansLeOnly

\* Broadcasts and malformed messages are ignored or end the helper, as is a mere
\* Command Status, and a reported failure.
LEMMA OnlyCompletions ==
  ASSUME NEW cmd \in Command
  PROVE  /\ \A m \in Noise(cmd) \cup Malformed(cmd) : Judge(m, cmd) # "success"
         /\ Judge(Reply("status", cmd, "ok"), cmd) # "success"
         /\ Judge(Reply("status", cmd, "failed"), cmd) # "success"
<1>1. \A m \in Noise(cmd) : Judge(m, cmd) # "success"
  BY DEF Noise, Judge, Reply, Command
<1>2. \A m \in Malformed(cmd) : Judge(m, cmd) # "success"
  BY DEF Malformed, Judge, Reply, Command
<1>3. Judge(Reply("status", cmd, "ok"), cmd) # "success" /\ Judge(Reply("status", cmd, "failed"), cmd) # "success"
  BY DEF Judge, Reply, Command
<1>4. QED
  BY <1>1, <1>2, <1>3

\* What makes no untruth: a queue loses messages or gets one that is true, a command
\* is another only with an empty queue, and what is done is not undone.
LEMMA TruthStays ==
  ASSUME TypeOK, TypeOK', Truth, wasDown \subseteq wasDown', bond' => bond,
         \A h \in Helper :
           \/ socket'[h] = <<>>
           \/ step'[h] = step[h] /\ socket'[h] = socket[h]
           \/ step'[h] = step[h] /\ socket[h] # <<>> /\ socket'[h] = Tail(socket[h])
           \/ /\ step'[h] = step[h]
              /\ \E m \in Message : socket'[h] = Append(socket[h], m) /\ Truthful(h, m)'
  PROVE  Truth'
<1> SUFFICES ASSUME NEW h \in Helper, NEW i \in 1..Len(socket'[h]) PROVE Truthful(h, socket[h][i])'
  BY DEF Truth
<1>0. socket[h] \in Seq(Message) /\ socket'[h] \in Seq(Message) /\ i \in Nat \ {0}
  BY DEF TypeOK
<1>1. CASE socket'[h] = <<>>
  BY <1>1
<1>2. ASSUME step'[h] = step[h], NEW j \in 1..Len(socket[h]), socket'[h][i] = socket[h][j]
      PROVE  Truthful(h, socket[h][i])'
  <2>1. Truthful(h, socket[h][j])
    BY DEF Truth
  <2>2. QED
    BY <1>2, <2>1 DEF Truthful, Judge
<1>3. CASE step'[h] = step[h] /\ socket'[h] = socket[h]
  BY <1>2, <1>3
<1>4. CASE step'[h] = step[h] /\ socket[h] # <<>> /\ socket'[h] = Tail(socket[h])
  <2>1. i + 1 \in 1..Len(socket[h]) /\ socket'[h][i] = socket[h][i + 1]
    BY <1>0, <1>4
  <2>2. QED
    BY <1>2, <1>4, <2>1
<1>5. ASSUME step'[h] = step[h], NEW m \in Message, socket'[h] = Append(socket[h], m), Truthful(h, m)'
      PROVE  Truthful(h, socket[h][i])'
  <2>1. CASE i = Len(socket[h]) + 1
    <3>1. socket'[h][i] = m
      BY <1>0, <1>5, <2>1
    <3>2. QED
      BY <1>5, <3>1 DEF Truthful, Judge
  <2>2. CASE i # Len(socket[h]) + 1
    <3>1. i \in 1..Len(socket[h]) /\ socket'[h][i] = socket[h][i]
      BY <1>0, <1>5, <2>2
    <3>2. QED
      BY <1>2, <1>5, <3>1
  <2>3. QED
    BY <2>1, <2>2
<1>6. QED
  BY <1>1, <1>3, <1>4, <1>5

\* The end of a command, successful only if a true message said so.
LEMMA OverIsSound ==
  ASSUME TypeOK, TypeOK', Sound, NEW h \in Helper, NEW success \in BOOLEAN, CommandOver(h, success),
         success => h \notin late /\ step[h] \in sent[h] /\ socket[h] # <<>>
                    /\ Judge(Head(socket[h]), step[h]) = "success",
         sent' = sent, todo' = todo,
         UNCHANGED <<preferred, phoneVars, bearer, history>>
  PROVE  Sound'
<1> USE DEF Sound, phoneVars, history
<1>1. \A g \in Helper : g # h => step'[g] = step[g] /\ socket'[g] = socket[g] /\ verdict'[g] = verdict[g]
  BY CommandCases DEF GoOn, TypeOK
<1>2. socket'[h] = <<>>
  BY CommandCases DEF GoOn, TypeOK
<1>3. Truth'
  BY <1>1, <1>2, TruthStays
<1>4. success => /\ step[h] = "disconnect" => h \in wasDown
                 /\ step[h] = "unpair" => ~bond
                 /\ step[h] \in Command
  <2> SUFFICES ASSUME success PROVE /\ step[h] = "disconnect" => h \in wasDown
                                    /\ step[h] = "unpair" => ~bond
                                    /\ step[h] \in Command
    OBVIOUS
  <2>1. 1 \in 1..Len(socket[h]) /\ Head(socket[h]) = socket[h][1]
    BY DEF TypeOK
  <2>2. QED
    BY <2>1 DEF Truth, Truthful, TypeOK
<1>5. Phone' /\ Preference' /\ LeLinkSurvives'
  BY DEF Phone, Preference, LeLinkSurvives
<1>6. UnpairAfterDisconnect'
  <2>1. step'[h] = "unpair" => h \in wasDown
    BY <1>4, CommandCases DEF GoOn, TypeOK
  <2>2. QED
    BY <1>1, <2>1 DEF UnpairAfterDisconnect
<1>7. TrueMeansLeOnly'
  <2>1. verdict'[h] = "true" => verdict[h] = "true" \/ (~bond /\ h \in preferred)
    BY <1>4, CommandCases DEF GoOn, TypeOK, Command
  <2>2. QED
    BY <1>1, <2>1 DEF TrueMeansLeOnly, Preference
<1>8. QED
  BY <1>3, <1>5, <1>6, <1>7

\* A message of the kernel, true or of no effect, that reaches one helper at most.
LEMMA DeliveryIsTrue ==
  ASSUME TypeOK, TypeOK', Truth, NEW h \in Helper, NEW cmd, NEW ms \in SUBSET Message,
         Deliver(h, cmd, ms), step' = step,
         wasDown \subseteq wasDown', bond' => bond,
         step[h] = cmd => \A m \in ms : Truthful(h, m)'
  PROVE  Truth'
BY Delivered, TruthStays

\* What no helper, message, broadcast, kill or change of the phone disturbs: true
\* messages and what follows of the pairing (lib.rs:25-49, 161-210).
THEOREM SoundAlways == Spec => []Sound
<1>1. Init => Sound
  BY DEF Init, Sound, Truth, Phone, Preference, UnpairAfterDisconnect, LeLinkSurvives, TrueMeansLeOnly
<1>2. TypeOK /\ TypeOK' /\ Sound /\ [Next]_vars => Sound'
  <2> SUFFICES ASSUME TypeOK, TypeOK', Sound, [Next]_vars PROVE Sound'
    OBVIOUS
  <2>1. ASSUME NEW h \in Helper, PreferLe(h) PROVE Sound'
    <3> USE <2>1 DEF PreferLe, GoOn, phoneVars, history
    <3>1. Truth'
      BY TruthStays DEF TypeOK, Sound
    <3>2. Phone' /\ UnpairAfterDisconnect' /\ LeLinkSurvives'
      BY DEF Sound, Phone, UnpairAfterDisconnect, LeLinkSurvives, TypeOK
    <3>3. Preference' /\ TrueMeansLeOnly'
      BY DEF Sound, Preference, TrueMeansLeOnly
    <3>4. QED
      BY <3>1, <3>2, <3>3 DEF Sound
  <2>2. ASSUME NEW h \in Helper, SendCommand(h) PROVE Sound'
    <3>1. CASE CommandOver(h, FALSE) /\ UNCHANGED <<sent, todo>>
      BY <2>2, <3>1, OverIsSound DEF SendCommand
    <3>2. CASE /\ sent' = [sent EXCEPT ![h] = @ \cup {step[h]}]
               /\ todo' = [todo EXCEPT ![h] = @ \cup {step[h]}]
               /\ UNCHANGED <<step, socket, late, verdict>>
      <4> USE <2>2, <3>2 DEF SendCommand, phoneVars, history
      <4>1. Truth'
        BY TruthStays DEF Sound
      <4>2. Phone' /\ UnpairAfterDisconnect'
        BY DEF Sound, Phone, UnpairAfterDisconnect, TypeOK
      <4>3. QED
        BY <4>1, <4>2 DEF Sound, Preference, LeLinkSurvives, TrueMeansLeOnly
    <3>3. QED
      BY <2>2, <3>1, <3>2 DEF SendCommand
  <2>3. ASSUME NEW h \in Helper, Receive(h) PROVE Sound'
    <3> DEFINE means == Judge(Head(socket[h]), step[h])
    <3>1. CASE means = "ignore"
      <4>1. /\ socket' = [socket EXCEPT ![h] = Tail(@)] /\ socket[h] # <<>>
            /\ UNCHANGED <<step, sent, verdict, preferred, todo, phoneVars, bearer, history>>
        BY <2>3, <3>1 DEF Receive
      <4>2. Truth'
        BY <4>1, TruthStays DEF Sound, TypeOK, phoneVars, history
      <4>3. QED
        BY <4>1, <4>2 DEF Sound, Phone, Preference, UnpairAfterDisconnect, LeLinkSurvives,
                          TrueMeansLeOnly, phoneVars, history
    <3>2. CASE means # "ignore"
      <4>1. CommandOver(h, means = "success") /\ (means = "success") \in BOOLEAN
        BY <2>3, <3>2 DEF Receive
      <4>2. QED
        BY <2>3, <4>1, OverIsSound DEF Receive
    <3>3. QED
      BY <3>1, <3>2
  <2>4. ASSUME NEW h \in Helper, CommandTimeout(h) PROVE Sound'
    BY <2>4, OverIsSound DEF CommandTimeout
  <2>5. ASSUME NEW h \in Helper, KillHelper(h) PROVE Sound'
    <3> USE <2>5 DEF KillHelper, End, GoOn, phoneVars, history
    <3>1. Truth'
      BY TruthStays DEF Sound, TypeOK
    <3>2. Phone' /\ UnpairAfterDisconnect' /\ LeLinkSurvives' /\ Preference'
      BY DEF Sound, Phone, UnpairAfterDisconnect, LeLinkSurvives, Preference, TypeOK
    <3>3. TrueMeansLeOnly'
      BY DEF Sound, TrueMeansLeOnly, TypeOK
    <3>4. QED
      BY <3>1, <3>2, <3>3 DEF Sound
  <2>6. ASSUME NEW h \in Helper, KernelDisconnects(h) PROVE Sound'
    <3> USE <2>6 DEF KernelDisconnects, Executed
    <3>1. wasDown \subseteq wasDown' /\ wasDown' \in {wasDown, Helper}
      BY DEF TypeOK
    <3>2. Truth'
      <4>1. "disconnect" \in Command
            /\ \A e \in {"complete", "status"}, st \in {"ok", "absent", "failed"} :
                 Reply(e, "disconnect", st) \in Message
        BY Messages DEF Command
      <4>2. CASE ~classic
        BY <3>1, <4>1, <4>2, DeliveryIsTrue DEF Sound, Phone, Truthful
      <4>3. CASE classic /\ Deliver(h, "disconnect", {Reply("complete", "disconnect", "ok")}) /\ wasDown' = Helper
        BY <3>1, <4>1, <4>3, DeliveryIsTrue DEF Sound, Truthful
      <4>4. CASE classic /\ Deliver(h, "disconnect", {Reply("status", "disconnect", "failed")})
        BY <3>1, <4>1, <4>4, DeliveryIsTrue, OnlyCompletions DEF Sound, Truthful
      <4>5. QED
        BY <4>2, <4>3, <4>4
    <3>3. Phone'
      BY <3>1 DEF Sound, Phone, TypeOK
    <3>4. UnpairAfterDisconnect'
      BY <3>1 DEF Sound, UnpairAfterDisconnect
    <3>5. Preference' /\ LeLinkSurvives' /\ TrueMeansLeOnly'
      BY DEF Sound, Preference, LeLinkSurvives, TrueMeansLeOnly
    <3>6. QED
      BY <3>2, <3>3, <3>4, <3>5 DEF Sound
  <2>7. ASSUME NEW h \in Helper, KernelUnpairs(h) PROVE Sound'
    <3> USE <2>7 DEF KernelUnpairs, Executed, history
    <3>1. Truth'
      <4>1. "unpair" \in Command
            /\ \A e \in {"complete", "status"}, st \in {"ok", "absent", "failed"} :
                 Reply(e, "unpair", st) \in Message
        BY Messages DEF Command
      <4>2. CASE ~bond' /\ Deliver(h, "unpair", {Reply("complete", "unpair", IF bond THEN "ok" ELSE "absent")})
        BY <4>1, <4>2, DeliveryIsTrue DEF Sound, Truthful
      <4>3. CASE bond' = bond /\ Deliver(h, "unpair", {Reply("status", "unpair", "failed")})
        BY <4>1, <4>3, DeliveryIsTrue, OnlyCompletions DEF Sound, Truthful
      <4>4. QED
        BY <4>2, <4>3
    <3>2. Phone'
      <4>1. h \in wasDown
        BY DEF Sound, Phone, UnpairAfterDisconnect
      <4>2. QED
        BY <4>1 DEF Sound, Phone, TypeOK
    <3>3. UnpairAfterDisconnect' /\ Preference' /\ LeLinkSurvives' /\ TrueMeansLeOnly'
      BY DEF Sound, Preference, LeLinkSurvives, TrueMeansLeOnly, UnpairAfterDisconnect
    <3>4. QED
      BY <3>1, <3>2, <3>3 DEF Sound
  <2>8. ASSUME NEW h \in Helper, KernelAccepts(h) \/ Broadcast(h) PROVE Sound'
    <3>1. step[h] \in Command /\ step' = step
          /\ UNCHANGED <<sent, late, preferred, verdict, todo, phoneVars, bearer, history>>
      BY <2>8 DEF KernelAccepts, Broadcast, TypeOK
    <3>2. Truth'
      <4>1. Reply("status", step[h], "ok") \in Message
            /\ Noise(step[h]) \cup Malformed(step[h]) \subseteq Message
        BY <3>1, Messages
      <4>2. CASE KernelAccepts(h)
        BY <3>1, <4>1, <4>2, DeliveryIsTrue, OnlyCompletions DEF Sound, Truthful, KernelAccepts, phoneVars, history
      <4>3. CASE Broadcast(h)
        BY <3>1, <4>1, <4>3, DeliveryIsTrue, OnlyCompletions DEF Sound, Truthful, Broadcast, phoneVars, history
      <4>4. QED
        BY <2>8, <4>2, <4>3
    <3>3. QED
      BY <3>1, <3>2 DEF Sound, Phone, Preference, UnpairAfterDisconnect, LeLinkSurvives,
                        TrueMeansLeOnly, phoneVars, history
  <2>9. ASSUME NEW h \in Helper, Expire(h) PROVE Sound'
    <3> USE <2>9 DEF Expire, phoneVars, history
    <3>1. Truth'
      BY TruthStays DEF Sound
    <3>2. QED
      BY <3>1 DEF Sound, Phone, Preference, UnpairAfterDisconnect, LeLinkSurvives, TrueMeansLeOnly
  <2>10. CASE BluetoothdForgets
    <3> USE <2>10 DEF BluetoothdForgets, helperVars
    <3>1. Truth'
      BY TruthStays DEF Sound
    <3>2. LeLinkSurvives'
      BY DEF Sound, LeLinkSurvives, Phone
    <3>3. QED
      BY <3>1, <3>2 DEF Sound, Phone, Preference, UnpairAfterDisconnect, TrueMeansLeOnly
  <2>11. CASE PhoneChangesClassic
    <3> USE <2>11 DEF PhoneChangesClassic, helperVars
    <3>1. wasDown \subseteq wasDown' /\ wasDown' \in {wasDown, Helper}
      BY DEF TypeOK
    <3>2. Truth'
      BY <3>1, TruthStays DEF Sound
    <3>3. Phone'
      BY <3>1 DEF Sound, Phone, TypeOK
    <3>4. QED
      BY <3>1, <3>2, <3>3 DEF Sound, Preference, UnpairAfterDisconnect, LeLinkSurvives, TrueMeansLeOnly
  <2>12. CASE UNCHANGED vars
    <3> USE <2>12 DEF vars, helperVars, phoneVars, history
    <3>1. Truth'
      BY TruthStays DEF Sound
    <3>2. QED
      BY <3>1 DEF Sound, Phone, Preference, UnpairAfterDisconnect, LeLinkSurvives, TrueMeansLeOnly
  <2>13. QED
    BY <2>1, <2>2, <2>3, <2>4, <2>5, <2>6, <2>7, <2>8, <2>9, <2>10, <2>11, <2>12, NextCases
<1>3. QED
  BY <1>1, <1>2, TypeCorrect, PTL DEF Spec

\* The pairing is not touched before BR/EDR has been down in the helper's time
\* (lib.rs:29-32, 178-209), for any number of helpers and unread messages.
THEOREM UnpairsAfterDisconnect == Spec => []UnpairAfterDisconnect
<1>1. Sound => UnpairAfterDisconnect
  BY DEF Sound
<1>2. QED
  BY <1>1, SoundAlways, PTL

\* The LE link is lost only if BR/EDR came back by itself (lib.rs:44-46).
THEOREM SparesTheLeLink == Spec => []LeLinkSurvives
<1>1. Sound => LeLinkSurvives
  BY DEF Sound
<1>2. QED
  BY <1>1, SoundAlways, PTL

\* "true" means no BR/EDR key and LE preferred (lib.rs:25-37, 72-78), whatever
\* other helpers and the phone do.
THEOREM TrueIsLeOnly == Spec => []TrueMeansLeOnly
<1>1. Sound => TrueMeansLeOnly
  BY DEF Sound
<1>2. QED
  BY <1>1, SoundAlways, PTL
=============================================================================
