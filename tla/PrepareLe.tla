------------------------------ MODULE PrepareLe -----------------------------
(***************************************************************************)
(* bluetooth-auth-prepare-le (src/src/lib.rs:25-211): prefer LE for the    *)
(* phone, disconnect its BR/EDR link, remove its BR/EDR bond.  The last    *)
(* two are MGMT commands, each on a control socket of its own, on which    *)
(* the kernel also broadcasts events.  A helper whose parent was killed    *)
(* may still run beside the next attempt's.                                *)
(***************************************************************************)
EXTENDS Naturals, Sequences

CONSTANTS Helper,      \* runs of the helper
          MaxQueue     \* bound: unread messages on a control socket

ASSUME PrepareAssumption == MaxQueue \in Nat \ {0}

VARIABLES
  step,          \* where each helper is
  sent,          \* the commands it has sent
  socket,        \* unread messages on the control socket of its current command
  late,          \* helpers whose current command is past its deadline
  preferred,     \* helpers that set the preference, or had nothing to set
  verdict,       \* what each helper returned
  todo,          \* its commands the kernel has not carried out
  classic,       \* the phone's BR/EDR link is up
  bond, stored,  \* its BR/EDR key, in the kernel and in bluetoothd's files
  known, bearer, \* BlueZ has a device object, and its PreferredBearer
  wasDown,       \* history: helpers in whose time BR/EDR was down
  reconnected,   \* history: BR/EDR came back by itself
  leLost         \* history: bluetoothd disconnected the phone's LE link

helperVars == <<step, sent, socket, late, preferred, verdict>>
phoneVars  == <<classic, bond, stored, known>>
history    == <<wasDown, reconnected, leLost>>
vars       == <<helperVars, todo, phoneVars, bearer, history>>

Command == {"disconnect", "unpair"}

\* A message, as far as the loop looks at it: event 1 (complete), 2 (status) or
\* another; index 0 or not; its length; its command, status and address.
\* "absent" is Not Connected or Disconnected, or Not Paired.
Message == [event: {"complete", "status", "other"}, hci0: BOOLEAN,
            form: {"good", "truncated", "length"}, command: Command \cup {"other"},
            status: {"ok", "absent", "failed"}, target: BOOLEAN]

Reply(e, cmd, st) == [event |-> e, hci0 |-> TRUE, form |-> "good",
                      command |-> cmd, status |-> st, target |-> TRUE]

\* Not for this command: a broadcast, another controller, another command.
Noise(cmd) == {
  Reply("other", "other", "ok"),
  [Reply("complete", cmd, "ok") EXCEPT !.hci0 = FALSE],
  Reply("complete", "other", "ok") }

\* For this command, but not as the protocol has it.
Malformed(cmd) == {
  [Reply("complete", cmd, "ok") EXCEPT !.form = "truncated"],
  [Reply("complete", cmd, "ok") EXCEPT !.form = "length"],
  [Reply("complete", cmd, "ok") EXCEPT !.target = FALSE] }

TypeOK ==
  /\ step \in [Helper -> {"prefer", "done"} \cup Command]
  /\ sent \in [Helper -> SUBSET Command] /\ todo \in [Helper -> SUBSET Command]
  /\ socket \in [Helper -> Seq(Message)]
  /\ late \subseteq Helper /\ preferred \subseteq Helper /\ wasDown \subseteq Helper
  /\ verdict \in [Helper -> {"none", "true", "false", "killed"}]
  /\ bearer \in {"last-used", "le"}
  /\ \A flag \in {classic, bond, stored, known, reconnected, leLost} : flag \in BOOLEAN

Init ==
  /\ step = [h \in Helper |-> "prefer"]
  /\ sent = [h \in Helper |-> {}] /\ todo = sent
  /\ socket = [h \in Helper |-> <<>>]
  /\ late = {} /\ preferred = {}
  /\ verdict = [h \in Helper |-> "none"]
  /\ classic \in BOOLEAN /\ bond \in BOOLEAN /\ stored = bond
  /\ known \in BOOLEAN /\ bearer = "last-used"
  /\ wasDown = IF classic THEN {} ELSE Helper
  /\ reconnected = FALSE /\ leLost = FALSE

-----------------------------------------------------------------------------
(* The helper.                                                             *)

\* Mutant: a Command Status is taken for a Command Complete.
JudgeStatusToo(m, cmd) ==
  IF m.form = "truncated" THEN "error"
  ELSE IF m.event = "other" \/ ~m.hci0 THEN "ignore"
  ELSE IF m.form = "length" THEN "error"
  ELSE IF m.command # cmd THEN "ignore"
  ELSE IF m.status = "failed" THEN "error"
  ELSE "success"

\* What a message means to a loop that waits for the reply to cmd: the tests
\* of the loop, in its order.
Judge(m, cmd) ==
  IF m.form = "truncated" THEN "error"
  ELSE IF m.event = "other" \/ ~m.hci0 THEN "ignore"
  ELSE IF m.form = "length" THEN "error"
  ELSE IF m.command # cmd THEN "ignore"
  ELSE IF m.status = "absent" THEN "success"
  ELSE IF m.status = "failed" THEN "error"
  ELSE IF m.event = "status" THEN "ignore"
  ELSE IF ~m.target THEN "error"
  ELSE "success"

\* Each command has a socket, and five seconds, of its own.
GoOn(h, next) ==
  /\ step' = [step EXCEPT ![h] = next]
  /\ socket' = [socket EXCEPT ![h] = <<>>]
  /\ late' = late \ {h}

End(h, v) ==
  /\ GoOn(h, "done")
  /\ verdict' = [verdict EXCEPT ![h] = v]

\* The D-Bus call has a time limit: one that fails may have been carried out.
PreferLe(h) ==
  /\ step[h] = "prefer"
  /\ \/ /\ bearer' = IF known THEN "le" ELSE bearer
        /\ preferred' = preferred \cup {h}
     \/ /\ bearer' \in IF known THEN {bearer, "le"} ELSE {bearer}
        /\ UNCHANGED preferred
  /\ GoOn(h, "disconnect")
  /\ UNCHANGED <<sent, verdict, todo, phoneVars, history>>

\* Mutant: the pairing is removed even if the disconnection failed.
CommandOverRegardless(h, success) ==
  IF step[h] = "disconnect"
  THEN GoOn(h, "unpair") /\ UNCHANGED verdict
  ELSE End(h, IF success /\ h \in preferred THEN "true" ELSE "false")

\* Mutant: the preference does not count.
CommandOverUnpreferred(h, success) ==
  IF step[h] = "disconnect" /\ success
  THEN GoOn(h, "unpair") /\ UNCHANGED verdict
  ELSE End(h, IF success THEN "true" ELSE "false")

\* A failed disconnection ends the helper before the unpairing; a failed
\* unpairing or preference only makes it answer false.
CommandOver(h, success) ==
  IF step[h] = "disconnect" /\ success
  THEN GoOn(h, "unpair") /\ UNCHANGED verdict
  ELSE End(h, IF success /\ h \in preferred THEN "true" ELSE "false")

SendCommand(h) ==
  /\ step[h] \in Command \ sent[h]
  /\ \/ /\ sent' = [sent EXCEPT ![h] = @ \cup {step[h]}]
        /\ todo' = [todo EXCEPT ![h] = @ \cup {step[h]}]
        /\ UNCHANGED <<step, socket, late, verdict>>
     \/ CommandOver(h, FALSE) /\ UNCHANGED <<sent, todo>>   \* no socket, or a short write
  /\ UNCHANGED <<preferred, phoneVars, bearer, history>>

\* Mutant: each message gets five seconds of its own.
ReceiveAfresh(h) ==
  /\ step[h] \in sent[h]
  /\ socket[h] # <<>>
  /\ LET means == Judge(Head(socket[h]), step[h])
     IN  IF means = "ignore"
         THEN /\ socket' = [socket EXCEPT ![h] = Tail(@)]
              /\ late' = late \ {h}
              /\ UNCHANGED <<step, verdict>>
         ELSE CommandOver(h, means = "success")
  /\ UNCHANGED <<sent, preferred, todo, phoneVars, bearer, history>>

Receive(h) ==
  /\ step[h] \in sent[h]
  /\ h \notin late
  /\ socket[h] # <<>>
  /\ LET means == Judge(Head(socket[h]), step[h])
     IN  IF means = "ignore"
         THEN /\ socket' = [socket EXCEPT ![h] = Tail(@)]
              /\ UNCHANGED <<step, late, verdict>>
         ELSE CommandOver(h, means = "success")
  /\ UNCHANGED <<sent, preferred, todo, phoneVars, bearer, history>>

\* The deadline was fixed when the command was sent: messages do not move it.
CommandTimeout(h) ==
  /\ step[h] \in sent[h]
  /\ h \in late
  /\ CommandOver(h, FALSE)
  /\ UNCHANGED <<sent, preferred, todo, phoneVars, bearer, history>>

\* The client's deadline, or a signal: what the kernel was told stays told.
KillHelper(h) ==
  /\ step[h] # "done"
  /\ End(h, "killed")
  /\ UNCHANGED <<sent, preferred, todo, phoneVars, bearer, history>>

-----------------------------------------------------------------------------
(* The kernel, bluetoothd, the phone and time.                             *)

\* A message reaches the socket of cmd, if its helper still has it.
Deliver(h, cmd, ms) ==
  IF step[h] = cmd
  THEN /\ Len(socket[h]) < MaxQueue
       /\ \E m \in ms : socket' = [socket EXCEPT ![h] = Append(@, m)]
  ELSE UNCHANGED socket

Executed(h, cmd) == todo' = [todo EXCEPT ![h] = @ \ {cmd}]

KernelDisconnects(h) ==
  /\ "disconnect" \in todo[h]
  /\ Executed(h, "disconnect")
  /\ \/ /\ ~classic
        /\ Deliver(h, "disconnect", {Reply(e, "disconnect", "absent") : e \in {"complete", "status"}})
        /\ UNCHANGED <<classic, wasDown>>
     \/ /\ classic
        /\ Deliver(h, "disconnect", {Reply("complete", "disconnect", "ok")})
        /\ classic' = FALSE
        /\ wasDown' = Helper
     \/ /\ classic
        /\ Deliver(h, "disconnect", {Reply("status", "disconnect", "failed")})
        /\ UNCHANGED <<classic, wasDown>>
  /\ UNCHANGED <<step, sent, late, preferred, verdict, bond, stored, known, bearer,
                 reconnected, leLost>>

KernelUnpairs(h) ==
  /\ "unpair" \in todo[h]
  /\ Executed(h, "unpair")
  /\ \/ /\ Deliver(h, "unpair", {Reply("complete", "unpair", IF bond THEN "ok" ELSE "absent")})
        /\ bond' = FALSE
     \/ /\ Deliver(h, "unpair", {Reply("status", "unpair", "failed")})
        /\ UNCHANGED bond
  /\ UNCHANGED <<step, sent, late, preferred, verdict, classic, stored, known, bearer, history>>

\* A Command Status that only says the command has been accepted.
KernelAccepts(h) ==
  /\ step[h] \in todo[h]
  /\ Deliver(h, step[h], {Reply("status", step[h], "ok")})
  /\ UNCHANGED <<step, sent, late, preferred, verdict, todo, phoneVars, bearer, history>>

Broadcast(h) ==
  /\ step[h] \in sent[h]
  /\ Deliver(h, step[h], Noise(step[h]) \cup Malformed(step[h]))
  /\ UNCHANGED <<step, sent, late, preferred, verdict, todo, phoneVars, bearer, history>>

\* bluetoothd forgets the key it is told about; with BR/EDR up it may also
\* disconnect the phone altogether.
BluetoothdForgets ==
  /\ stored /\ ~bond
  /\ stored' = FALSE
  /\ leLost' \in IF classic THEN {leLost, TRUE} ELSE {leLost}
  /\ UNCHANGED <<helperVars, todo, classic, bond, known, bearer, wasDown, reconnected>>

PhoneChangesClassic ==
  /\ classic' = ~classic
  /\ wasDown' = IF classic THEN Helper ELSE wasDown
  /\ reconnected' = (reconnected \/ ~classic)
  /\ UNCHANGED <<helperVars, todo, bond, stored, known, bearer, leLost>>

Expire(h) ==
  /\ step[h] \in sent[h]
  /\ late' = late \cup {h}
  /\ UNCHANGED <<step, sent, socket, preferred, verdict, todo, phoneVars, bearer, history>>

-----------------------------------------------------------------------------

HelperStep(h) == PreferLe(h) \/ SendCommand(h) \/ Receive(h) \/ CommandTimeout(h)

Next ==
  \/ \E h \in Helper :
       \/ HelperStep(h) \/ KillHelper(h) \/ Expire(h)
       \/ KernelDisconnects(h) \/ KernelUnpairs(h) \/ KernelAccepts(h) \/ Broadcast(h)
  \/ BluetoothdForgets \/ PhoneChangesClassic

Spec == Init /\ [][Next]_vars

FairSpec == Spec /\ \A h \in Helper : WF_vars(HelperStep(h)) /\ WF_vars(Expire(h))

-----------------------------------------------------------------------------

\* The pairing is not touched before BR/EDR has been seen down: neither an
\* unrelated reply, nor a mere Command Status, nor a lost reply lets the helper
\* go on to unpair (lib.rs:29-32, 178-209).
UnpairAfterDisconnect == \A h \in Helper :
  step[h] = "unpair" \/ "unpair" \in sent[h] => h \in wasDown

\* So the phone's LE link survives the unpairing, unless BR/EDR came back in
\* between, which the code cannot exclude (lib.rs:44-46).
LeLinkSurvives == leLost => reconnected

\* A helper that answers true has left the phone LE only: no BR/EDR key in the
\* kernel, and LE preferred if BlueZ knows the phone (lib.rs:25-37, 72-78).
TrueMeansLeOnly == \A h \in Helper :
  verdict[h] = "true" => ~bond /\ (known => bearer = "le")

\* Each helper ends, even if the kernel never replies and broadcasts never
\* stop: the deadline is fixed when a command is sent (lib.rs:137-160).
HelperEnds == \A h \in Helper : <>(step[h] = "done")
=============================================================================
