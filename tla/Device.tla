------------------------------- MODULE Device -------------------------------
(***************************************************************************)
(* BluetoothContext (src/experiments/iphone_ble/python/bluetooth_auth_hid/ *)
(* device.py): register_hid, unregister_hid and connect on one context, in *)
(* tasks of one event loop.  A call awaits D-Bus replies under the lock of *)
(* the context; each await but the lock's is timed, and any may be         *)
(* cancelled.  Meanwhile BlueZ works off what it was sent, releases an     *)
(* advertisement, stops and starts, and a bus connection may be lost.      *)
(*                                                                         *)
(* Calls that only read take effect when their reply is taken; a call to a *)
(* BlueZ that is gone is never answered.  _query is LinkQuery's            *)
(* QueryConnection: here it answers anything.                              *)
(***************************************************************************)
EXTENDS Naturals, SequencesExt

CONSTANTS
  Task,    \* tasks that use the context
  Bus,     \* bound: its bus connections BlueZ knows at a time
  Room,    \* bound: messages left when a connect or a release comes
  None

ASSUME DeviceAssumption == None \notin Task \cup Bus /\ Room \in Nat

VARIABLES
  at, op,       \* where a task is, and in which call
  failure,      \* what has gone wrong in it, or in the last one: "" is a success
  queue,        \* ctx._lock: its holder, then those who wait
  bus,          \* ctx._bus
  registered,   \* ctx._registered
  known,        \* ctx._owner is the name of the running BlueZ
  exported,     \* an advertisement object is exported,
  released,     \* and BlueZ has released it
  line,         \* state of the connection ctx._bus
  received,     \* what came over it and is not read yet
  sent,         \* calls BlueZ has not handled, of any connection
  bluez,        \* BlueZ runs
  apps, advs    \* connections whose HID application, advertisement it holds

taskVars  == <<at, op, failure, queue>>
ctxVars   == <<bus, registered, known>>
advVars   == <<exported, released>>
lineVars  == <<line, received, sent>>
bluezVars == <<bluez, apps, advs>>
deviceVars == <<taskVars, ctxVars, advVars, lineVars, bluezVars>>

Closing     == {"close", "undo"}
Opening     == {"connect", "owner", "objects", "register"}
Advertising == {"advertise", "poll"}
Place == {"idle", "lock", "ask", "open", "withdraw"} \cup Closing \cup Opening \cup Advertising

Failures == {"error", "cancelled"}
Call     == [from: Bus, who: Task \cup {None}, what: {"register", "advertise", "withdraw"}]
Incoming == [who: Task \cup {None}, what: {"ok", "error", "gone", "release"}]

DeviceTypeOK ==
  /\ at \in [Task -> Place] /\ op \in [Task -> {"register", "unregister", "connect"}]
  /\ failure \in [Task -> {""} \cup Failures]
  /\ queue \in Seq(Task)
  /\ bus \in Bus \cup {None} /\ registered \in BOOLEAN /\ known \in BOOLEAN
  /\ exported \in BOOLEAN /\ released \in BOOLEAN
  /\ line \in {"closed", "opening", "open", "lost"}
  /\ received \in Seq(Incoming) /\ sent \in Seq(Call)
  /\ bluez \in BOOLEAN /\ apps \subseteq Bus /\ advs \subseteq Bus

DeviceInit ==
  /\ at = [t \in Task |-> "idle"] /\ op = [t \in Task |-> "unregister"]
  /\ failure = [t \in Task |-> "error"] /\ queue = <<>>
  /\ bus = None /\ registered = FALSE /\ known = FALSE
  /\ exported = FALSE /\ released = FALSE
  /\ line = "closed" /\ received = <<>> /\ sent = <<>>
  /\ bluez \in BOOLEAN /\ apps = {} /\ advs = {}

-----------------------------------------------------------------------------

Connected == bus # None /\ line = "open"

GoTo(t, place) == at' = [at EXCEPT ![t] = place]

Noting(t, e) == failure' = [failure EXCEPT ![t] = e]

\* An error is added to a failure as a note; a cancellation replaces it.
Later(t, e) == IF e = "error" /\ failure[t] # "" THEN failure[t] ELSE e

\* A task no longer has or awaits the lock.
LetGo(t) == \E i \in DOMAIN queue : queue[i] = t /\ queue' = RemoveAt(queue, i)

\* Mutant: a cancelled call keeps the lock.
ReturnLocked(t, e) ==
  /\ GoTo(t, "idle") /\ Noting(t, e)
  /\ IF e = "cancelled" THEN UNCHANGED queue ELSE LetGo(t)
  /\ UNCHANGED op

\* The call is over and lets the next one in.
Return(t, e) ==
  /\ GoTo(t, "idle") /\ Noting(t, e)
  /\ LetGo(t)
  /\ UNCHANGED op

Stay(t) == UNCHANGED <<op, queue>>

\* A task no longer waits for the reply to what it sent.
Abandoned(t) == [i \in DOMAIN sent |-> IF sent[i].who = t THEN [sent[i] EXCEPT !.who = None] ELSE sent[i]]

\* A call to a BlueZ that is gone, or over a connection that is, gets nowhere.
Sending(t, what) ==
  Abandoned(t) \o IF Connected /\ known THEN <<[from |-> bus, who |-> t, what |-> what]>> ELSE <<>>

\* _close: what BlueZ was sent before, it still handles.
Close(t, place, e) ==
  /\ GoTo(t, place) /\ Noting(t, e) /\ Stay(t)
  /\ registered' = FALSE /\ UNCHANGED <<bus, known>>
  /\ line' = "closed" /\ received' = <<>> /\ sent' = Abandoned(t)
  /\ UNCHANGED advVars

\* The advertisement is withdrawn, unless BlueZ has said that it is gone; rest is
\* what is left to be read.
Withdraw(t, e, rest) ==
  /\ IF released
     THEN Return(t, e) /\ exported' = FALSE /\ sent' = Abandoned(t)
     ELSE /\ GoTo(t, "withdraw") /\ Noting(t, e) /\ Stay(t)
          /\ sent' = Sending(t, "withdraw")
          /\ UNCHANGED exported
  /\ received' = rest
  /\ UNCHANGED <<ctxVars, released, line>>

-----------------------------------------------------------------------------
(* The calls.                                                              *)

Begin(t, o) ==
  /\ at[t] = "idle"
  /\ GoTo(t, "lock") /\ Noting(t, "") /\ op' = [op EXCEPT ![t] = o]
  /\ queue' = Append(queue, t)
  /\ UNCHANGED <<ctxVars, advVars, lineVars, bluezVars>>

Locked(t, o) == at[t] = "lock" /\ Head(queue) = t /\ op[t] = o /\ UNCHANGED bluezVars

\* A registration is kept only if connection and owner still are; to ask for
\* the owner takes a call.
BeginRegister(t) ==
  /\ Locked(t, "register")
  /\ IF bus = None \/ (Connected /\ registered)
     THEN /\ GoTo(t, IF bus = None THEN "open" ELSE "ask")
          /\ UNCHANGED <<op, queue, failure, ctxVars, advVars, lineVars>>
     ELSE Close(t, "close", "")

\* Mutant: the name of the BlueZ that runs now is noted, and that is all.
AskOwnerAgain(t) ==
  /\ at[t] = "ask" /\ Connected /\ bluez
  /\ known' = TRUE /\ UNCHANGED <<bus, registered>>
  /\ Return(t, "")
  /\ UNCHANGED <<advVars, lineVars, bluezVars>>

AskOwner(t) ==
  /\ at[t] = "ask" /\ Connected /\ bluez
  /\ IF known
     THEN Return(t, "") /\ UNCHANGED <<ctxVars, advVars, lineVars>>
     ELSE Close(t, "close", "")
  /\ UNCHANGED bluezVars

BeginUnregister(t) ==
  /\ Locked(t, "unregister")
  /\ IF bus = None
     THEN Return(t, "") /\ UNCHANGED <<ctxVars, advVars, lineVars>>
     ELSE Close(t, "close", "")

\* wait_for_disconnect: then the handle is given up.
Closed(t) ==
  /\ at[t] \in Closing
  /\ bus' = None /\ known' = FALSE /\ UNCHANGED registered
  /\ IF at[t] = "close" /\ op[t] = "register"
     THEN GoTo(t, "open") /\ Stay(t) /\ UNCHANGED failure
     ELSE Return(t, failure[t])
  /\ UNCHANGED <<advVars, lineVars, bluezVars>>

\* A new connection is one that BlueZ does not know from before.
Open(t) ==
  /\ at[t] = "open"
  /\ \E b \in Bus :
       /\ b \notin apps \cup advs /\ \A i \in DOMAIN sent : sent[i].from # b
       /\ bus' = b
  /\ line' = "opening"
  /\ GoTo(t, "connect") /\ Stay(t)
  /\ UNCHANGED <<failure, registered, known, advVars, sent, received, bluezVars>>

Connects(t) ==
  /\ at[t] = "connect" /\ line = "opening"
  /\ line' = "open"
  /\ GoTo(t, "owner") /\ Stay(t)
  /\ UNCHANGED <<failure, ctxVars, advVars, sent, received, bluezVars>>

GetOwner(t) ==
  /\ at[t] = "owner" /\ Connected /\ bluez
  /\ known' = TRUE /\ UNCHANGED <<bus, registered>>
  /\ GoTo(t, "objects") /\ Stay(t)
  /\ UNCHANGED <<failure, advVars, lineVars, bluezVars>>

\* Mutant: the adapter's list of services is not looked at.
GetObjectsUnchecked(t) ==
  /\ at[t] = "objects" /\ Connected /\ known
  /\ sent = <<>>
  /\ sent' = Sending(t, "register") /\ UNCHANGED <<line, received>>
  /\ GoTo(t, "register") /\ Stay(t)
  /\ UNCHANGED <<failure, ctxVars, advVars, bluezVars>>

\* No HID service on the adapter: not even one of ours that BlueZ still holds.
GetObjects(t) ==
  /\ at[t] = "objects" /\ Connected /\ known
  /\ sent = <<>> /\ apps = {}
  /\ sent' = Sending(t, "register") /\ UNCHANGED <<line, received>>
  /\ GoTo(t, "register") /\ Stay(t)
  /\ UNCHANGED <<failure, ctxVars, advVars, bluezVars>>

\* connect: nothing to do, or an advertisement on what is registered.
BeginConnect(t) ==
  /\ Locked(t, "connect")
  /\ \/ \E e \in {"", "error"} : Return(t, e) /\ UNCHANGED <<advVars, lineVars>>
     \/ /\ registered /\ Connected /\ Len(sent) < Room
        /\ exported' = TRUE /\ released' = FALSE
        /\ sent' = Sending(t, "advertise") /\ UNCHANGED <<line, received>>
        /\ GoTo(t, "advertise") /\ Stay(t)
        /\ UNCHANGED failure
  /\ UNCHANGED ctxVars

\* Every 0.2 s; a release ends it, whatever the link is by then.
Poll(t) ==
  /\ at[t] = "poll"
  /\ \E e \in {"", "error"} :
       /\ released => e = "error"
       /\ Withdraw(t, e, received)
  /\ UNCHANGED bluezVars

\* Mutant: what was not seen registered is not withdrawn.
FailsAsIs(t, e, rest) ==
  /\ \/ /\ at[t] \in {"lock", "ask", "close", "undo", "withdraw", "advertise"}
        /\ at[t] = "lock" => e = "cancelled"
        /\ Return(t, Later(t, e))
        /\ sent' = Abandoned(t) /\ received' = rest
        /\ exported' = FALSE
        /\ UNCHANGED <<ctxVars, released, line>>
     \/ at[t] \in Opening /\ Close(t, "undo", e)
     \/ at[t] = "poll" /\ Withdraw(t, e, rest)
  /\ UNCHANGED bluezVars

\* What is awaited fails, with this left to be read.
Fails(t, e, rest) ==
  /\ \/ /\ at[t] \in {"lock", "ask", "close", "undo", "withdraw"}
        /\ at[t] = "lock" => e = "cancelled"
        /\ Return(t, Later(t, e))
        /\ sent' = Abandoned(t) /\ received' = rest
        /\ exported' = (exported /\ at[t] # "withdraw")
        /\ UNCHANGED <<ctxVars, released, line>>
     \/ at[t] \in Opening /\ Close(t, "undo", e)
     \/ at[t] \in Advertising /\ Withdraw(t, e, rest)
  /\ UNCHANGED bluezVars

\* It fails by itself, takes too long, or is cancelled; a reply that is there by
\* then is not looked at.
Interrupt(t, e) ==
  \/ (\A i \in DOMAIN received : received[i].who # t) /\ Fails(t, e, received)
  \/ \E i \in DOMAIN received : received[i].who = t /\ Fails(t, e, RemoveAt(received, i))

\* The reply to its last call.
Replied(t, what) ==
  \/ what = "error" /\ Fails(t, "error", Tail(received))
  \/ /\ at[t] = "register" /\ what = "ok"
     /\ registered' = TRUE
     /\ Return(t, "")
     /\ received' = Tail(received)
     /\ UNCHANGED <<bus, known, advVars, line, sent, bluezVars>>
  \/ /\ at[t] = "advertise" /\ what = "ok"
     /\ GoTo(t, "poll") /\ Stay(t)
     /\ received' = Tail(received)
     /\ UNCHANGED <<failure, ctxVars, advVars, line, sent, bluezVars>>
  \/ /\ at[t] = "withdraw" /\ what \in {"ok", "gone"}
     /\ Return(t, failure[t])
     /\ exported' = FALSE
     /\ received' = Tail(received)
     /\ UNCHANGED <<ctxVars, released, line, sent, bluezVars>>

\* The event loop reads a message; Release is for whatever object is exported
\* at the path now.
Receive ==
  /\ received # <<>>
  /\ IF Head(received).what = "release"
     THEN /\ received' = Tail(received)
          /\ released' = (released \/ exported)
          /\ UNCHANGED <<taskVars, ctxVars, exported, line, sent, bluezVars>>
     ELSE Replied(Head(received).who, Head(received).what)

-----------------------------------------------------------------------------
(* BlueZ and the bus.                                                      *)

\* A reply nobody waits for is not looked at.
Tell(b, message) ==
  received' = IF Connected /\ b = bus /\ (message.who # None \/ message.what = "release")
              THEN Append(received, message)
              ELSE received

\* What BlueZ may say to a call.
Replies(call) ==
  CASE call.what = "register"  -> IF call.from \in apps THEN {"error"} ELSE {"ok", "error"}
    [] call.what = "advertise" -> IF call.from \in advs THEN {"error"} ELSE {"ok", "error"}
    [] call.what = "withdraw"  -> IF call.from \in advs THEN {"ok"} ELSE {"gone"}

\* All connections lead through one bus to one queue.
BluezHandles ==
  /\ sent # <<>>
  /\ sent' = Tail(sent)
  /\ LET call == Head(sent)
     IN  \E reply \in Replies(call) :
           /\ Tell(call.from, [who |-> call.who, what |-> reply])
           /\ apps' = IF call.what = "register" /\ reply = "ok" THEN apps \cup {call.from} ELSE apps
           /\ advs' = CASE call.what = "advertise" /\ reply = "ok" -> advs \cup {call.from}
                        [] call.what = "withdraw"                  -> advs \ {call.from}
                        [] OTHER                                   -> advs
  /\ UNCHANGED <<taskVars, ctxVars, advVars, line, bluez>>

BluezReleases(b) ==
  /\ b \in advs /\ Len(received) < Room
  /\ advs' = advs \ {b}
  /\ Tell(b, [who |-> None, what |-> "release"])
  /\ UNCHANGED <<taskVars, ctxVars, advVars, line, sent, bluez, apps>>

\* BlueZ learns that a connection is gone, after all that came over it.
BluezForgets(b) ==
  /\ b \in apps \cup advs /\ ~(Connected /\ b = bus)
  /\ \A i \in DOMAIN sent : sent[i].from # b
  /\ apps' = apps \ {b} /\ advs' = advs \ {b}
  /\ UNCHANGED <<taskVars, ctxVars, advVars, lineVars, bluez>>

BluezStops ==
  /\ bluez
  /\ bluez' = FALSE /\ apps' = {} /\ advs' = {}
  /\ known' = FALSE
  /\ sent' = <<>>
  /\ UNCHANGED <<taskVars, bus, registered, advVars, line, received>>

BluezStarts ==
  /\ ~bluez /\ bluez' = TRUE
  /\ UNCHANGED <<taskVars, ctxVars, advVars, lineVars, apps, advs>>

BusDrops ==
  /\ Connected
  /\ line' = "lost" /\ received' = <<>>
  /\ UNCHANGED <<taskVars, ctxVars, advVars, sent, bluezVars>>

-----------------------------------------------------------------------------

TaskStep(t) ==
  \/ BeginRegister(t) \/ AskOwner(t) \/ BeginUnregister(t) \/ BeginConnect(t)
  \/ Closed(t) \/ Open(t) \/ Connects(t) \/ GetOwner(t) \/ GetObjects(t) \/ Poll(t)

DeviceNext ==
  \/ \E t \in Task :
       \/ \E o \in {"register", "unregister", "connect"} : Begin(t, o)
       \/ TaskStep(t)
       \/ \E e \in Failures : Interrupt(t, e)
  \/ \E b \in Bus :
       BluezReleases(b) \/ BluezForgets(b)
  \/ Receive \/ BluezHandles \/ BluezStops \/ BluezStarts \/ BusDrops

DeviceSpec == DeviceInit /\ [][DeviceNext]_deviceVars

\* The event loop runs, and every wait but the lock's has a time limit; a BlueZ
\* that runs works off what it has and hears of connections that are gone.
DeviceFairness ==
  /\ \A t \in Task : WF_deviceVars(TaskStep(t)) /\ WF_deviceVars(Interrupt(t, "error"))
  /\ WF_deviceVars(BluezHandles) /\ \A b \in Bus : WF_deviceVars(BluezForgets(b))

DeviceFairSpec == DeviceSpec /\ DeviceFairness

-----------------------------------------------------------------------------

\* BlueZ never holds two HID applications or two advertisements of the context,
\* though what a closed connection left may outlive it (device.py:49-63, 110-111).
OneHid == Cardinality(apps) <= 1 /\ Cardinality(advs) <= 1

\* What register_hid takes for a standing registration is one: connected, the
\* flag set and the owner unchanged mean that BlueZ has the application, through
\* restarts, lost connections, failed and late calls (device.py:49-63, 127, 330).
ReuseIsSound == Connected /\ registered /\ known => bus \in apps

\* connect "stops advertising when it ends" (device.py:189, in Chinese): nothing
\* is advertised once all are done and BlueZ has handled what it was sent.  A
\* Release for an earlier object that is read late, when the next is exported at
\* the same path, keeps the next advertisement from being withdrawn.
AdvertisingStops ==
  (\A t \in Task : at[t] = "idle") /\ Connected /\ sent = <<>> => bus \notin advs

\* But for that, a connect that succeeds, fails, takes too long or is cancelled,
\* in its advertising or while it cleans up, leaves no advertisement
\* (device.py:216-246).
LeftOnlyIfReleased ==
  (\A t \in Task : at[t] = "idle") /\ Connected /\ sent = <<>> /\ bus \in advs => released

\* Every call ends: nobody waits for the lock for ever (device.py:48, 138-140, 305).
CallsEnd == \A t \in Task : at[t] # "idle" ~> at[t] = "idle"
=============================================================================
