----------------------------- MODULE HidDaemon -----------------------------
(***************************************************************************)
(* The HID daemon of the iPhone experiment (src/experiments/iphone_ble/    *)
(* python/bluetooth_auth_hid): Authentication and run (daemon.py), the     *)
(* BlueZBackend (bluez.py) and the callers (client.py).  The daemon keeps  *)
(* the HID service and its advertisement, and answers AskOrConnect: is the *)
(* trusted phone connected over encrypted LE, or does it connect soon?     *)
(*                                                                         *)
(* One asyncio loop runs three things whose steps interleave at awaits:    *)
(* the reader of the bus connection, which handles messages in their       *)
(* order; the main task (open, wait, close); and one request shared by all *)
(* who ask meanwhile.  Every call to BlueZ is answered through the same    *)
(* ordered connection that carries its signals and the callers' messages.  *)
(***************************************************************************)
EXTENDS Naturals, Sequences

CONSTANTS
  Callers,     \* the clients of the daemon whose answers are followed
  MaxInbox,    \* bound: unread messages in the daemon's bus connection
  MaxEpoch     \* bound: bluetoothd processes, one after the other

ASSUME DaemonAssumption ==
  /\ MaxInbox \in Nat /\ MaxInbox >= 2 /\ MaxEpoch \in Nat \ {0}
  /\ "none" \notin Callers

VARIABLES
  \* the world
  link,        \* the kernel has an encrypted LE link to the phone
  phone,       \* BlueZ's Device1 of the phone
  powered,     \* BlueZ's Adapter1.Powered
  epoch,       \* the bluetoothd that owns org.bluez
  connection,  \* the daemon's connection to the system bus is up
  \* the daemon
  stage,       \* the call of open() under way, or where run() is
  call,        \* the method call under way: sent and not yet answered
  reply,       \* the answer the awaiting task has not taken yet
  inbox,       \* messages the loop has not read
  matches,     \* how many of the two match rules are installed
  owner,       \* self.owner: the bluetoothd it talks to
  copy,        \* self.phone: what it believes of the phone
  failed,      \* self.failed is set
  request,     \* self._request: running, done with True, or neither
  phase,       \* where _once is
  query,       \* where connected() is
  adapterOn,   \* Powered in the adapter's answer of this query
  moved,       \* self.revision is no longer what the query started with
  dropped,     \* self.disconnect_count is no longer the baseline of _once
  answer,      \* per caller: its call, True, or "no": False, an error, no call yet
  \* history
  seen,        \* callers for whom the encrypted link has been up since they asked
  held,        \* callers for whom BlueZ has had the trusted phone connected since
  refreshed    \* a query has replaced the copy taken by open()

world   == <<link, phone, powered, epoch, connection>>
calls   == <<call, reply>>
backend == <<matches, owner, copy, failed>>
once    == <<request, phase, query, adapterOn, moved, dropped>>
history == <<seen, held, refreshed>>
daemonVars == <<world, stage, calls, inbox, backend, once, answer, history>>

\* trusted: paired, bonded, trusted and not blocked; a removed phone is not.
Phone   == [state : {"trusted", "untrusted"}, connected : BOOLEAN]
Gone    == [state |-> "gone", connected |-> FALSE]
None    == "none"

\* The calls of open() in their order, then run().
OpenCalls == <<"RequestName", "GetNameOwner", "WatchBluez", "WatchOwner", "Recheck",
               "GetManagedObjects", "RegisterApplication", "RegisterAdvertisement">>
Opening   == {OpenCalls[i] : i \in DOMAIN OpenCalls}
After(s)  == LET i == CHOOSE j \in DOMAIN OpenCalls : OpenCalls[j] = s
             IN IF i = Len(OpenCalls) THEN "serving" ELSE OpenCalls[i + 1]

\* What an answer may tell: the state of BlueZ and of the bus when it was sent.
Answers == [owner : 1..MaxEpoch, powered : BOOLEAN, phone : Phone]
NoReply == [owner |-> 0, powered |-> FALSE, phone |-> Gone]
Current == [owner |-> epoch, powered |-> powered, phone |-> phone]

Signal(kind, value) == [kind |-> kind, value |-> value, from |-> epoch]

DaemonTypeOK ==
  /\ link \in BOOLEAN /\ phone \in Phone /\ powered \in BOOLEAN
  /\ epoch \in 1..MaxEpoch /\ connection \in BOOLEAN
  /\ stage \in Opening \cup {"serving", "closing", "ended"}
  /\ call \in {None, "sent", "answered"} /\ reply \in Answers \cup {NoReply}
  /\ Len(inbox) <= MaxInbox + 1
  /\ matches \in 0..2 /\ owner \in 0..MaxEpoch /\ copy \in [state : {"trusted", "untrusted", "gone"}, connected : BOOLEAN]
  /\ failed \in BOOLEAN
  /\ request \in {None, "running", "true"}
  /\ phase \in {None, "new", "first", "wait", "sleep"}
  /\ query \in {None, "adapter", "phone"}
  /\ adapterOn \in BOOLEAN /\ moved \in BOOLEAN /\ dropped \in BOOLEAN
  /\ answer \in [Callers -> {"no", "sent", "joined", "true"}]
  /\ seen \subseteq Callers /\ held \subseteq Callers /\ refreshed \in BOOLEAN
  /\ (request = "running") <=> (phase # None)
  /\ request = "running" => stage = "serving"

\* run() has connected to the bus and open() has sent its first call.
DaemonInit ==
  /\ link \in BOOLEAN /\ phone \in Phone
  /\ powered = TRUE /\ epoch = 1 /\ connection = TRUE
  /\ stage = "RequestName" /\ call = "sent" /\ reply = NoReply /\ inbox = <<>>
  /\ matches = 0 /\ owner = 0 /\ copy = Gone /\ failed = FALSE
  /\ request = None /\ phase = None /\ query = None /\ adapterOn = FALSE
  /\ moved = FALSE /\ dropped = FALSE
  /\ answer = [c \in Callers |-> "no"] /\ seen = {} /\ held = {} /\ refreshed = FALSE

-----------------------------------------------------------------------------
(* The world *)

OnBus == connection /\ stage # "ended"

\* The world matters to the daemon until it has failed; from then on it reads nothing
\* of it (bluez.py 64-66, 302), and the model lets it rest.
Watched == OnBus /\ ~failed

\* The bus passes on the signals of a match rule once the daemon has installed it.
Announce(rule, signals) ==
  LET heard == IF matches >= rule THEN signals ELSE <<>>
  IN /\ Watched /\ Len(inbox) + Len(heard) <= MaxInbox
     /\ inbox' = inbox \o heard

BluezRule == 1
OwnerRule == 2

Pending == {c \in Callers : answer[c] \in {"sent", "joined"}}
Lost    == [c \in Callers |-> IF c \in Pending THEN "no" ELSE answer[c]]

BluezHolds == powered /\ phone = [state |-> "trusted", connected |-> TRUE]

Remember ==
  /\ seen' = seen \cup {c \in Pending : link'}
  /\ held' = held \cup {c \in Pending : BluezHolds'}

\* Only of use for those who wait or were told yes.
Forget ==
  /\ seen' = {c \in seen : answer'[c] # "no"}
  /\ held' = {c \in held : answer'[c] # "no"}

WorldOnly == /\ Remember
             /\ UNCHANGED <<connection, stage, calls, backend, once, answer, refreshed>>

LinkChanges ==
  /\ Watched /\ powered
  /\ link' = ~link
  /\ UNCHANGED <<phone, powered, epoch, inbox>> /\ WorldOnly

\* Connected covers both bearers, and follows the kernel when bluetoothd gets to it.
ConnectedChanges ==
  /\ powered
  /\ phone' = [phone EXCEPT !.connected = ~@]
  /\ Announce(BluezRule,
              IF phone.connected
                THEN <<Signal("disconnected", TRUE), Signal("connected", FALSE)>>
                ELSE <<Signal("connected", TRUE)>>)
  /\ UNCHANGED <<link, powered, epoch>> /\ WorldOnly

TrustChanges ==
  /\ phone' = [phone EXCEPT !.state = IF @ = "trusted" THEN "untrusted" ELSE "trusted"]
  /\ Announce(BluezRule, <<Signal("state", phone'.state)>>)
  /\ UNCHANGED <<link, powered, epoch>> /\ WorldOnly

\* Its Device1 disappears; it may come back, and be trusted again property by property.
PhoneRemoved ==
  /\ phone' = [state |-> "untrusted", connected |-> FALSE] /\ link' = FALSE
  /\ Announce(BluezRule, <<Signal("removed", TRUE)>>)
  /\ UNCHANGED <<powered, epoch>> /\ WorldOnly

PowerChanges ==
  /\ powered' = ~powered
  /\ link' = FALSE /\ phone' = [phone EXCEPT !.connected = FALSE]
  /\ Announce(BluezRule, <<Signal("powered", powered')>>)
  /\ UNCHANGED epoch /\ WorldOnly

\* Another bluetoothd takes over; what the old one had been asked stays unanswered.
\* (Before the daemon has learnt the owner's name it makes no difference.)
BluezRestarts ==
  /\ epoch < MaxEpoch /\ owner # 0
  /\ epoch' = epoch + 1
  /\ Announce(OwnerRule, <<Signal("owner", epoch')>>)
  /\ UNCHANGED <<link, phone, powered>> /\ WorldOnly

\* BlueZ withdraws the advertisement by itself (hid.py Advertisement.Release).
BluezReleases ==
  /\ stage = "serving" /\ connection /\ owner = epoch /\ Len(inbox) < MaxInbox
  /\ inbox' = Append(inbox, Signal("released", TRUE))
  /\ UNCHANGED <<world, stage, calls, backend, once, answer, history>>

BusDrops ==
  /\ Watched
  /\ connection' = FALSE /\ inbox' = <<>> /\ answer' = Lost /\ Forget
  /\ UNCHANGED <<link, phone, powered, epoch, stage, calls, backend, once, refreshed>>

\* client.py: one call to the owner of the name, which open() claims first.
Ask(c) ==
  /\ OnBus /\ stage # "RequestName" /\ Len(inbox) < MaxInbox
  /\ c \notin Pending
  /\ answer' = [answer EXCEPT ![c] = "sent"]
  /\ inbox' = Append(inbox, [kind |-> "ask", value |-> c, from |-> epoch])
  /\ seen' = (seen \ {c}) \cup {d \in {c} : link}
  /\ held' = (held \ {c}) \cup {d \in {c} : BluezHolds}
  /\ UNCHANGED <<world, stage, calls, backend, once, refreshed>>

\* BlueZ or the bus answers the call; a match rule works from then on.  A call that
\* is refused or never answered ends in OpenFails or TimesOut.
Serve ==
  /\ OnBus /\ call = "sent" /\ Len(inbox) <= MaxInbox
  /\ stage \in {"RequestName", "GetNameOwner", "WatchBluez", "WatchOwner", "Recheck"} \/ owner = epoch
  /\ call' = "answered"
  /\ inbox' = Append(inbox, [kind |-> "reply", value |-> Current, from |-> epoch])
  /\ matches' = matches + (IF stage \in {"WatchBluez", "WatchOwner"} THEN 1 ELSE 0)
  /\ UNCHANGED <<world, stage, reply, owner, copy, failed, once, answer, history>>

-----------------------------------------------------------------------------
(* The reader of the bus connection: BlueZBackend._message and the dispatch of replies
   and of AskOrConnect *)

TargetKnown == stage \in {"RegisterApplication", "RegisterAdvertisement", "serving", "closing"}

\* A signal of the bluetoothd in use, about the phone or the adapter.
AboutPhone(m) == m.from = owner /\ TargetKnown /\ m.kind \in {"state", "connected", "removed", "disconnected"}
AboutAdapter(m) == m.from = owner /\ m.kind = "powered"

Drops(m) ==
  /\ AboutPhone(m)
  /\ \/ m.kind \in {"removed", "disconnected"}
     \/ m.kind = "connected" /\ ~m.value /\ copy.connected

Fails(m) ==
  \/ m.kind = "owner" /\ m.value # owner
  \/ AboutAdapter(m) /\ ~m.value
  \/ m.kind = "released" /\ m.from = owner

\* A cleared record gets single properties back, never the address: it stays invalid.
Updated(m) ==
  IF ~AboutPhone(m) THEN copy
  ELSE CASE m.kind = "state" /\ copy.state # "gone" -> [copy EXCEPT !.state = m.value]
         [] m.kind = "connected"                    -> [copy EXCEPT !.connected = m.value]
         [] m.kind = "removed"                      -> Gone
         [] OTHER                                   -> copy

ReadSignal(m) ==
  /\ m.kind \in {"state", "connected", "removed", "disconnected", "powered", "owner", "released"}
  /\ copy' = Updated(m)
  /\ moved' = (query # None /\ (moved \/ AboutPhone(m) \/ AboutAdapter(m)))
  /\ dropped' = (phase \in {"wait", "sleep"} /\ (dropped \/ Drops(m)))
  /\ failed' = (failed \/ Fails(m))
  /\ UNCHANGED <<stage, calls, matches, owner, request, phase, query, adapterOn,
                 answer, history>>

ReadReply(m) ==
  /\ m.kind = "reply"
  /\ reply' = m.value /\ call' = None
  /\ UNCHANGED <<stage, backend, once, answer, history>>

\* The reply to a call that nobody waits for any more.
ReadLate(m) ==
  /\ m.kind = "late"
  /\ UNCHANGED <<stage, calls, backend, once, answer, history>>

Told(c, what) == [d \in Callers |-> IF d = c THEN what ELSE answer[d]]

\* Mutant: a finished request answers as well.
JoinOrReuse(c) ==
  IF request = "true"
    THEN answer' = Told(c, "true") /\ UNCHANGED once
    ELSE /\ answer' = Told(c, "joined")
         /\ IF request = "running"
              THEN UNCHANGED once
              ELSE /\ request' = "running" /\ phase' = "new"
                   /\ UNCHANGED <<query, adapterOn, moved, dropped>>

\* ask_or_connect: the callers of a running request share it.
JoinOrStart(c) ==
  /\ answer' = Told(c, "joined")
  /\ IF request = "running"
       THEN UNCHANGED once
       ELSE /\ request' = "running" /\ phase' = "new"
            /\ UNCHANGED <<query, adapterOn, moved, dropped>>

\* The object is exported once open() is over, and refuses after close().
ReadAsk(m) ==
  /\ m.kind = "ask"
  /\ IF stage = "serving"
       THEN JoinOrStart(m.value)
       ELSE answer' = Told(m.value, "no") /\ UNCHANGED once
  /\ Forget
  /\ UNCHANGED <<stage, calls, backend, refreshed>>

\* Any other client's call is read; also one of a caller that has meanwhile given up on
\* it, which the daemon does not notice.  Nobody follows the answer.
OthersAsk ==
  /\ OnBus /\ stage = "serving"
  /\ JoinOrStart(None)
  /\ UNCHANGED <<world, stage, calls, inbox, backend, history>>

Read ==
  /\ OnBus /\ inbox # <<>>
  /\ inbox' = Tail(inbox)
  /\ ReadSignal(Head(inbox)) \/ ReadReply(Head(inbox)) \/ ReadLate(Head(inbox))
     \/ ReadAsk(Head(inbox))
  /\ UNCHANGED world

-----------------------------------------------------------------------------
(* The request: Authentication._once and BlueZBackend.connected *)

\* A late answer finds nobody waiting.
Late(m) == IF m.kind = "reply" THEN [kind |-> "late", value |-> None, from |-> m.from] ELSE m

DropReply ==
  /\ call' = None /\ reply' = NoReply
  /\ inbox' = [i \in DOMAIN inbox |-> Late(inbox[i])]

Finish(r) ==
  /\ request' = IF r = "true" THEN "true" ELSE None
  /\ phase' = None /\ query' = None
  /\ adapterOn' = FALSE /\ moved' = FALSE /\ dropped' = FALSE
  /\ answer' = [c \in Callers |-> IF answer[c] = "joined" THEN r ELSE answer[c]]
  /\ DropReply /\ Forget

Send(q) == query' = q /\ call' = "sent" /\ reply' = NoReply /\ UNCHANGED inbox

\* connected() notes the revision and asks for the adapter.
NewQuery == Send("adapter") /\ moved' = FALSE

RequestOnly == UNCHANGED <<world, stage, matches, owner, failed>>

StartRequest ==
  /\ phase = "new"
  /\ \/ failed /\ Finish("no")
     \/ /\ ~failed /\ phase' = "first" /\ NewQuery
        /\ UNCHANGED <<request, adapterOn, dropped, answer, seen, held>>
  /\ RequestOnly /\ UNCHANGED <<copy, refreshed>>

AdapterAnswered ==
  /\ query = "adapter" /\ reply # NoReply
  /\ \/ failed /\ Finish("no")
     \/ /\ ~failed /\ adapterOn' = reply.powered /\ Send("phone")
        /\ UNCHANGED <<request, phase, moved, dropped, answer, seen, held>>
  /\ RequestOnly /\ UNCHANGED <<copy, refreshed>>

\* Mutant: what changed meanwhile does not count.
ConsistentWhenSent == ~failed /\ adapterOn /\ reply.phone.state = "trusted"

\* connected() raises unless all of this holds after the kernel's list has been read.
Consistent == ~failed /\ adapterOn /\ reply.phone.state = "trusted" /\ ~moved

\* LinkReader.read: the kernel's list has the phone's one LE link, encrypted.
ReadLinks == link

Connected == ReadLinks /\ reply.phone.connected

\* No await between reading the kernel's list and the verdict.
PhoneAnswered ==
  /\ query = "phone" /\ reply # NoReply
  /\ \/ ~Consistent /\ Finish("no") /\ UNCHANGED <<copy, refreshed>>
     \/ /\ Consistent
        /\ copy' = reply.phone /\ refreshed' = TRUE
        /\ \/ phase = "first" /\ Connected /\ Finish("true")
           \/ /\ phase = "first" /\ ~Connected
              /\ phase' = "wait" /\ dropped' = FALSE /\ NewQuery
              /\ UNCHANGED <<request, adapterOn, answer, seen, held>>
           \/ phase = "wait" /\ dropped /\ Finish("no")
           \/ phase = "wait" /\ ~dropped /\ Connected /\ Finish("true")
           \/ /\ phase = "wait" /\ ~dropped /\ ~Connected
              /\ phase' = "sleep" /\ query' = None /\ reply' = NoReply
              /\ UNCHANGED <<request, adapterOn, moved, dropped, answer, seen, held, call, inbox>>
  /\ RequestOnly

\* wait_change: a change, or 0.2 s.
WakesUp ==
  /\ phase = "sleep"
  /\ \/ failed /\ Finish("no")
     \/ /\ ~failed /\ phase' = "wait" /\ NewQuery
        /\ UNCHANGED <<request, adapterOn, dropped, answer, seen, held>>
  /\ RequestOnly /\ UNCHANGED <<copy, refreshed>>

\* Mutant: only the calls have a limit, not the wait for the phone.
CallTimesOut ==
  /\ query # None
  /\ Finish("no")
  /\ RequestOnly /\ UNCHANGED <<copy, refreshed>>

\* A call that fails, a kernel list that cannot be read, or one of the time limits.
TimesOut ==
  /\ phase \in {"first", "wait", "sleep"}
  /\ Finish("no")
  /\ RequestOnly /\ UNCHANGED <<copy, refreshed>>

-----------------------------------------------------------------------------
(* The main task: open(), run() and close() *)

\* Mutant: the rules are not installed before the objects are read.
OpenStepUnwatched ==
  /\ stage \in Opening /\ reply # NoReply /\ ~failed
  /\ stage = "GetManagedObjects" => reply.powered /\ reply.phone.state = "trusted"
  /\ owner' = IF stage = "GetNameOwner" THEN reply.owner ELSE owner
  /\ copy' = IF stage = "GetManagedObjects" THEN reply.phone ELSE copy
  /\ stage' = IF stage = "GetNameOwner" THEN "GetManagedObjects" ELSE After(stage)
  /\ reply' = NoReply /\ call' = IF stage' = "serving" THEN None ELSE "sent"
  /\ UNCHANGED <<world, inbox, matches, failed, once, answer, history>>

\* One call of open() succeeded: its checks, and the next call.
OpenStep ==
  /\ stage \in Opening /\ reply # NoReply /\ ~failed
  /\ stage = "Recheck" => reply.owner = owner
  /\ stage = "GetManagedObjects" => reply.powered /\ reply.phone.state = "trusted"
  /\ owner' = IF stage = "GetNameOwner" THEN reply.owner ELSE owner
  /\ copy' = IF stage = "GetManagedObjects" THEN reply.phone ELSE copy
  /\ stage' = After(stage)
  /\ reply' = NoReply /\ call' = IF stage' = "serving" THEN None ELSE "sent"
  /\ UNCHANGED <<world, inbox, matches, failed, once, answer, history>>

\* Closing the connection: BlueZ forgets the objects, callers get an error.
HangUp ==
  /\ stage' = "ended" /\ inbox' = <<>> /\ call' = None /\ reply' = NoReply /\ answer' = Lost
  /\ Forget

\* open() was refused, found something wrong, timed out or was cancelled: it closes.
OpenFails ==
  /\ stage \in Opening
  /\ HangUp
  /\ UNCHANGED <<world, backend, once, refreshed>>

\* _watch_disconnect.
WatchBus ==
  /\ stage = "serving" /\ ~connection /\ ~failed
  /\ failed' = TRUE
  /\ UNCHANGED <<world, stage, calls, inbox, matches, owner, copy, once, answer, history>>

\* The wait of run() is over: Authentication.close cancels the request.
CloseApi ==
  /\ stage = "serving"
  /\ stage' = "closing"
  /\ \/ request = "running" /\ Finish("no")
     \/ request # "running" /\ UNCHANGED <<once, answer, seen, held, calls, inbox>>
  /\ UNCHANGED <<world, backend, refreshed>>

\* failed is set ...
Fail == failed /\ CloseApi

\* ... or SIGINT or SIGTERM cancels the wait.
Stop == CloseApi

CloseBackend ==
  /\ stage = "closing"
  /\ HangUp
  /\ UNCHANGED <<world, backend, once, refreshed>>

-----------------------------------------------------------------------------

World == \/ LinkChanges \/ ConnectedChanges \/ TrustChanges \/ PhoneRemoved
         \/ PowerChanges \/ BluezRestarts \/ BluezReleases \/ BusDrops \/ Serve
         \/ \E c \in Callers : Ask(c)

Daemon == \/ Read \/ OthersAsk \/ StartRequest \/ AdapterAnswered \/ PhoneAnswered \/ WakesUp \/ TimesOut
          \/ OpenStep \/ OpenFails \/ WatchBus \/ Fail \/ Stop \/ CloseBackend

DaemonNext == World \/ Daemon

\* The loop runs, and its timers fire; nothing is asked of BlueZ, the bus or the phone.
DaemonFairness ==
  /\ WF_daemonVars(Read)
  /\ WF_daemonVars(StartRequest \/ TimesOut)
  /\ WF_daemonVars(WatchBus \/ Fail \/ CloseBackend)

DaemonSpec == DaemonInit /\ [][DaemonNext]_daemonVars /\ DaemonFairness

-----------------------------------------------------------------------------

\* A caller that hears yes asked before the link it hears of: since its own call the
\* kernel has had the encrypted link, and BlueZ the trusted phone connected to a
\* powered adapter -- although it may have joined a request that others started.
\* (daemon.py 59-62; bluez.py 283-316)
TrueIsFresh == \A c \in Callers : answer[c] = "true" => c \in seen \cap held

\* _allow_device: GATT access for the phone as the copy has it.
Allowed == stage # "ended" /\ ~failed /\ TargetKnown /\ copy.state = "trusted"

\* Once a query has refreshed it, the copy grants access only while BlueZ trusts the
\* phone, or the news that it no longer does is already on the way.  (Until then it may
\* be older: open() knows the phone's path only after the reader may have skipped news.)
\* (bluez.py 56, 112-118, 146-176, 303-305)
AccessIsCurrent ==
  Allowed /\ refreshed /\ OnBus /\ phone.state # "trusted"
    => \E i \in DOMAIN inbox : inbox[i].kind \in {"state", "removed", "owner"}

\* Every call is answered, whatever BlueZ, the bus and the phone do: the request has
\* limits, and a daemon that ends takes its callers along.  (daemon.py 64-88)
AskEnds == \A c \in Callers : c \in Pending ~> c \notin Pending

\* A daemon that serves does not outlive the adapter's power or the bluetoothd it has
\* registered with, even if they went while it was still registering.
\* (bluez.py 131-139, 159-164, 198-282; daemon.py 106-108)
EndsWithBluez ==
  stage = "serving" /\ (~powered \/ owner # epoch \/ ~connection) ~> stage = "ended"

=============================================================================
