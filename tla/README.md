# Formal verification of bluetooth-auth

TLA+ models of bluetooth-auth, the TLC runs that check them on small instances and the
TLAPS proofs of what matters most. bluetooth-auth lets a connected iPhone stand in for
a password: programs on the computer ask the kernel whether there is an encrypted LE
link to the phone and, if not, bring one up by registering a temporary HID service with
BlueZ and advertising it.

Paths below are relative to the repository (`src/lib.rs` is `src/src/lib.rs` in
`PROJECT.json`, whose `map` names the lines of every definition).

## 1. Inventory

### The program

| Component | Keeps | Operations | What makes it correct |
| --- | --- | --- | --- |
| **Connection query** `query_connection` (lib.rs 364-414) | nothing | one ioctl, one search | says yes only of an encrypted, established LE link of the phone, no only if the list is complete |
| **Connection attempt** `query_or_connect` (lib.rs 416-529), used by `link`, `power-monitor`, `noctalia-auto-lock`, `keyring-unlock` | the flock on `/run/bluetooth-auth/hci0.lock`, a child, a bus connection with registrations | query, lock, query, wait for hci0, query, prepare, register, advertise, poll, clean up | one attempt at a time, within one budget, leaving nothing behind, and none over a link that is up |
| **LE preparation** `prepare_le` (lib.rs 23-211, `prepare-le`) | a control socket per command; pairing and preference in kernel and bluetoothd | prefer LE, disconnect BR/EDR, unpair BR/EDR | unpairs only after BR/EDR is down; always ends; tells success from partial failure |
| **HID registration** `register_hid`, `advertise` (lib.rs 213-362) | application and advertisement in BlueZ, owned by a bus connection | register, withdraw by closing the connection | gone before the lock is |
| **Pairing helper** `hid-server` | saved adapter settings, the lock, registrations | save, change, serve, restore | borrows settings only under the lock and returns or reports them, whatever fails |
| **Auto-lock** `noctalia-auto-lock` | the lock state it read last | wait for Noctalia, attempt, lock, sleep | locks a session whose phone is away within a bound |
| **Link command** and **PAM/polkit entries** (`link`, pam-auth.nix, polkit-auth.nix and the three services' modules) | nothing | test the user, ask the phone, fall through | the phone authenticates only its owner, and never blocks the ordinary way |
| **Connect socket and service** (connect.nix, auto-connect.nix) | a datagram socket, a one-shot unit | a datagram, a start of BlueZ or a resume start one attempt | every request gets an attempt, no attempt starts itself again |
| **Power monitor** `power-monitor` | a D-Bus match, a bus name, queued signals | each power-on starts an attempt | no power-on after its start is missed |
| **Keyring unlock** `keyring-unlock` | nothing | locked? phone? decrypt, unlock, verify | decrypts only after the phone was seen |
| **GATT query** `gatt-query` | nothing | reads one characteristic | |
| **Option plumbing** (bluetooth-auth.nix, sops.nix, flake, package) | | | |

The parts interact through four things: the lock file (attempts and pairing runs), BlueZ
(registrations, adapter settings, signals), the kernel (connection list, MGMT commands)
and systemd (socket activation, restarts, kills).

### The iPhone BLE experiment (`experiments/iphone_ble`)

| Component | Keeps | What is hard |
| --- | --- | --- |
| HID daemon and client (`daemon.py`, `client.py`, `bluez.py`) | one shared in-flight request, a copy of BlueZ's state | state that changes while a reply is awaited; cancellation; the daemon's own failure |
| Device state (`device.py`, `link.py`, `register_hid.py`) | a registration and a bus connection under an asyncio lock | cancelled registration, a BlueZ that was restarted meanwhile |
| Exclusive lab (`adapter.py`, `state.py`, `ble_lab.py`) | a write-ahead journal of the adapter's settings, private keys, a lock | crash between journal, change and restoration; purge |
| Its radio session (`radio.py`) | an HCI user channel, the connection of each cycle, one enrollment, a keystore | phones that come and go at every await; pairing only with the phone to enroll; cleanup and result under failures and cancellation |
| Shared-adapter lab (`bluez_hid_lab.py`, `hid_release_test.py`, `gatt_keepalive_test.py`, holder processes) | another journal and lock | mutual exclusion with the exclusive lab, partial restoration |
| Coexistence probes (`coexist_*.py`, `observe_le_link.py`) | a MGMT channel with one waiter, one pairing confirmation | late replies without identifiers, links that belong to others |
| HID application (`hid.py`), diagnostics, repository checks | constant data, measurements, files | little control |

`PROJECT.json` lists all of these as components, with the hazards of each at its line.

## 2. Modules

| Module | Models | Composes / is composed by |
| --- | --- | --- |
| `HidSlot` | abstract: one slot on hci0; its owner may expose and work, and gives it up with nothing in use | implemented by `ConnectAttempt` and by `SharedAdapter` |
| `ConnectAttempt` | `query_or_connect` of any number of processes | `SharedAdapter` |
| `LinkQuery` | `query_connection` as a function of list and buffer | the answers `ConnectAttempt` takes from `Observation` |
| `PrepareLe` | `prepare_le` and the MGMT reply loop | the child of `ConnectAttempt` |
| `HidServer` | the pairing helper | `SharedAdapter` |
| `SharedAdapter` | attempts and pairing runs over one lock and one BlueZ | extends `ConnectAttempt`, instantiates `HidServer` |
| `AutoLock` | the auto-lock loop in ticks | |
| `ConnectService` | the socket and its one-shot service | `AuthEntry` |
| `AuthEntry` | PAM stacks and the polkit rule, asking `ConnectService` | instantiates `ConnectService` |
| `PowerMonitor` | the power monitor beside BlueZ | |
| `HidDaemon` | the experiment's HID daemon: its bus reader, its shared request, its start and end | |
| `Device` | `register_hid`, `unregister_hid` and `connect` on one context, over one bus connection at a time | `LinkQuery` has what its `_query` answers |
| `MgmtLink` | one MGMT socket for several tasks: turns, replies, disconnect events | `Coexist` |
| `Coexist` | the coexistence test: run, cleanup, restoration, pairing agent | extends `MgmtLink`; `Labs` has its locks and how its record is written |
| `Labs` | the two labs' locks, records and restorations, over one adapter | |
| `Probe` | the exclusive lab's radio session, `run_probe`: cycles, enrollment, hold, cleanup, result | what `Labs` does in its place `radio` |
| `MCConnectAttempt`, `MCSharedAdapter` | symmetry and initial states for TLC | |
| `MCServices` | `AutoLock`, `PowerMonitor`, `AuthEntry`, `LinkQuery` and `Probe` in one run | they share nothing: a behaviour is one of one of them |
| `*Proofs` | the theorems | |

### ConnectAttempt

`pc` follows the code between awaits: `query` (454), `open` (457-467), `lock` (472-478),
`recheck` (479), `adapter` (482), `strict` (483), `spawn` (486), `prepare` (494-508),
`register` (512), `advertise` (513), `poll` (514), then the cleanup `reap` (520-523),
`close` (527), `unlock` (528). One action is one such step; an early return or a `?`
inside the timed future goes to `reap`, as the cleanup runs on every path out of it.

* The wait loops (`try_lock`, `is_powered`, the poll) have no step for "not yet": they sleep.
* `Observation` is what the query may answer in a state, errors included; `Lenient` and
  `Strict` are its two uses (`ENODEV` and `ENETDOWN` count as "not connected" or as an
  error). Its answers are those `LinkQuery` shows to be right.
* A registration has two halves: the call (`SendRegistration`) and BlueZ's reaction
  (`BluezAccepts`, `BluezRejects`). BlueZ may react in any later state, also after the
  deadline dropped the call, as long as the bus connection lives. Nothing obliges it to
  react at all.
* `Kill` is the end of the process at any point: the kernel drops its lock and its bus
  connections; the child dies with it or becomes an orphan (systemd kills the group, a
  plain SIGKILL does not).
* `left` counts ticks to the deadline. `Tick` waits for a process whose timer has fired:
  the deadline is exact in the model, up to a tick, but every step between two awaits
  takes no time.
* `linkedSince` is a history variable: the clients whose link has been up and encrypted in
  every state since the adapter was found ready.

### LinkQuery, PrepareLe

`LinkQuery` has the kernel's list change in any way and evaluates `QueryConnection` in
every state. `PrepareLe` has two commands with a socket and a deadline each. `Judge`
holds the tests of the reply loop in their order. Messages are records of what these
tests look at; the kernel sends the command's reply (Command Complete, or a Command
Status with an error), a Command Status that only accepts, events for others, replies of
other controllers and commands, and malformed ones. A timed-out or killed helper leaves
its command with the kernel, which may carry it out later. `LeLinkSurvives` models the
warning in lib.rs 45: bluetoothd may drop the LE link if it hears of the unpairing while
BR/EDR is up; the phone may reconnect BR/EDR by itself at any time, which the code cannot
exclude, so the property speaks of the other cases. `prefer_le` finds or does not find the
device; the set of devices is reduced to the phone.

### HidServer, SharedAdapter

The settings are four Booleans (a timeout is 0 or not). A property call may fail and yet
have been carried out; `Discoverable` may take `Connectable` along, as the comment at
hid-server.rs 53 says. `home` is a history variable: what the settings are to return to;
a run that is killed or reports an error ends its responsibility for them. Nobody else
changes the adapter's settings in the model: properties that compare settings assume that
(a user who changes them during a run has them overwritten, as the code means to).
`TakeSignal` is enabled at the awaits of `select!` and before the setup; inside the
setup and the restoration a signal is only remembered.

`SharedAdapter` shares `lock`, `hid` and `adv` between both specifications: to an attempt, a
pairing run is no more than a lock that is busy, and the other way round. hci0 may disappear at
any time and takes what is registered with it (`AdapterChanges`); `HidServer`, which does not
model the adapter's presence, has the same as `AdapterLost`.

### AutoLock, AuthEntry, ConnectService, PowerMonitor

`AutoLock` counts `alone`, the ticks for which a session has been unlocked with Noctalia
running and the phone away; the counter starts again when Noctalia refuses a command,
since no loop can lock it then. An attempt answers `connected` only if the link is up
(`TrueIsSeen` of `ConnectAttempt`) and ends within `timeout_ms` (`EveryCallEnds`). With
the default intervals (7 s, 30 s, 5 s, 30 s, 30 s, 120 s, 60 s) `BoundAssumption` is
met by Bound = 127 s: a session unlocked just after a round with a locked session and a
phone is seen in the next round, 120 s later.

`AuthEntry` walks the rules of a stack with their numeric skips, `password` standing for
all the rules that were there before. greetd's stack is the locker's. `ConnectService` is
what the units ask of systemd: one service at a time (`Accept=false`), the socket not
watched while its service runs, flushed when it is over, no trigger limit, no restart.
`PowerMonitor` has the order of subscription and name, the queue of its connection, and
BlueZ started only after the name is claimed.

### HidDaemon

One asyncio loop, three threads of control. `Read` handles the next message of the
daemon's only bus connection; signals, replies and the callers' own calls all pass through
it in order, which is what the code's revision counter relies on. `stage` is the main
task: the calls of `open()` in their order, then `serving`, `closing`, `ended`. `phase`
and `query` are the request: `first` and `wait` are the two places of `_once` that call
`connected()`, `adapter` and `phone` the reply it awaits there. `moved` and `dropped`
stand for the difference of `revision` and `disconnect_count` from the values noted at the
start; only the difference is ever looked at. One caller is followed, `OthersAsk` stands
for all the others (they start requests it joins, and join its own); a caller that gives up
is not noticed by the daemon. A reply that comes when its call has been given up stays in the
inbox, marked `late`, until the reader drops it: it delays what is behind it. Signals come only
from the rules that are installed (`matches`, `BluezRule`, `OwnerRule`). BlueZ's `Connected` covers both bearers, so it changes
independently of the kernel's LE link.

Once `failed` is set the daemon looks at nothing but its own end, and the world is left
alone (`Watched`). `seen`, `held` and `refreshed` are history variables. `AccessIsCurrent`
is stated from the first query on: the reader may handle signals between the reply of
`GetManagedObjects` and the moment `open()` resumes and sets `target_path`; these are
skipped, and the copy taken from the reply stays stale until a query replaces it.

### Device

Tasks of one event loop call `register_hid`, `unregister_hid` and `connect` on one
`BluetoothContext`, in any order and as often as they like. `at` is the await a task is
in; `queue` is the asyncio lock, its holder first. A call that is sent goes through
`sent` to BlueZ and its reply through `received`, so it may be carried out after the task
that sent it was cancelled or timed out, and even after its connection was closed: the bus
delivers what was sent before. `Interrupt` is all that can end an await otherwise: an error,
the five seconds of `_call`, a cancellation; each goes where the `except` clauses lead.
A failure is kept in `failure`, and a cancellation replaces an error as in the code.

BlueZ may stop and start (`known`: the owner the context has noted is the one that
runs), release an advertisement, and notices a closed connection only later
(`BluezForgets`); `apps` and `advs` are what it holds, by connection. Calls that only
read (`GetNameOwner`, `GetManagedObjects`) take effect when their reply is taken. Bounds: `Bus`
connections that BlueZ knows at a time, and `Room` unhandled messages when a new connect
or a release comes.

`Release` sets the flag of whatever object is exported at the advertisement's path when the
message is read. `AdvertisingStops` is what the docstring of `connect` promises; it is violated
(section 3). `LeftOnlyIfReleased` is what does hold.

### MgmtLink, Coexist

`MgmtLink` has `_command`'s lock as `queue` (its first is the task whose command is out),
the socket as `replies` (with a history of whose command each answers; the code sees only
opcodes) and `events`, the links whose disconnect events are unread. A task wakes with the
first reply, `Told`, once the reader has emptied the socket. A command that is given up,
for whatever reason, closes the channel for all (`Terminate`).

In `Coexist` the main task goes `preflight`, `baseline`, the registrations `agent`, `pairable`,
`app`, `adv`, then rounds of `look` and `links`; a verdict leads to the cleanup at the point
that was reached (`UndoFrom`), then to `restore` in the same process. `RestoreBegins` is
also how a `restore` command starts after a kill. `hid` sums up `hid_access`, the counters of
disconnect events and `ready_at`: whether there was an access, whether the phone's link
went down after it, whether the hold has begun, whether the test is lost. It is computed
(`Shown`) from the events read, as the code does in each round. `intact` is a history
variable: the links that were really up ever since the baseline was taken, for the phone
since the hold began.

A pairing handler (`handling`, `device`) awaits the connection list on the same channel, then
asks the user at most once in the life of an agent. BlueZ waits for one handler at a time
(`pending`), but `Cancel` and `cancel_pending` stop only a question that is before the user:
a handler on its way to it goes on, and meets the next one. That is why there are two.

What can make the test fail at any round, a switched-off adapter, a changed Pairable, a
changed phone record, new audio, a released advertisement, is one nondeterministic failure
in `Look`. Calls to BlueZ may fail and yet have worked. Nobody else changes Pairable.
The phone has one address; links of unknown devices are not followed (one that asks
to pair may be connected or not). The bus notices the end of a connection before BlueZ does
(`Forget`). Bounds, named where they are: disconnect events unread (`Room`), devices ask to
pair only while they see the advertisement and the user was not asked, the repair mode only
where Pairable is off, links stay while a failed test cleans up, and a run starts only when BlueZ
has noticed the end of the one before.

`restore` looks for the HID service, the advertisements and Pairable, but reports the pairing agent
as removed (`test_pairing_agent_removed`) without a look; it relies on the bus having forgotten the
run's connection. `NoRecordMeansClean` says the same: BlueZ may still list the agent for
a moment, but of a closed connection, so that nothing can be asked of it.

Two things the code allows and no property is about: a HID read that is handled after the
disconnect event of its link counts for the phone's next link; and a handler that
is on its way when the cleanup cancels open questions asks afterwards, so that a late answer
writes the record again (`UserAnswers` in `restore` and `leave`) after `complete()` has
removed it. The next restoration then finds everything in place and removes it.

### Labs

A process is one command (`run`, `restore`, `clean`, `prepare`) of one lab; `pc` is where it
is, and `Kill` may end it anywhere. The exclusive lab's `run` goes from `lock` through
`begin`, `acquire`, `off`, `verify` to `session` and `radio` (the adapter is then out of
BlueZ's hands) and `restore`; the shared lab's from `paths` and `own` or `both` through
`preflight`, `baseline`, `borrow` to `share` and `restore`. Restorations are the same steps
in a run and in a `restore` command: `find`, one place per property, `compare`, `unlink`,
`tidy`.

Writing a record is three steps, `Writes`, `WriteRecord`, `RenameRecord`, with a kill or an
error between any two. What a record says besides the settings (its phase, links, bus
names) no step of the model depends on, except that a restoration may refuse for such a
reason (`RestoreFails`). Six settings are three Booleans: power, one that is free, and one
that needs power. A call that fails may have worked (`PowerOff`, `Borrow`); BlueZ may switch
an adapter on that it gets back (`Returned`). Nobody else changes the settings. The
machine does not go down (only processes do); what is synced to the disk is therefore no
question here. Opening a lock file and locking it are one step.

`Careful` is an assumption about the user: commands are started one at a time (the moment
between a command's look at the other lab's record and its own lock), and as long as the
exclusive lab has no `run.lock` the two labs are not used at once. Both properties need it. In `labs` nothing else happens
while a command starts, so that run is about the locks; the window between a look and a lock is
what `labs_at_once` is about. `LabsAreAlone` counts who is at work on the adapter (`Working`):
not `prepare` and `clean`, which hold the lock but use no Bluetooth, and not a command that
has not read the settings yet and may still find that it cannot run.

### Probe

`stage` is the await `_run_probe` is in: `open`, `power`, `keys`; in each cycle `advertise`,
`look` and `listen` (the two halves of `_wait_connection`), `bond` or `refuse`, `encrypt`,
`saving`, `service`, `hold` and `holding`, `stop`, `disconnect`; then the `finally` clause,
`stopAdvertising`, `powerOff`, `close`. `OnTransport` and `OnConnection` are what
`_while_transport_open` and `_while_connected` ask of an operation that is to succeed; any
await may instead fail (`ProbeFails`: an error, a time limit, a loss) or be cancelled.
Connections are numbered as they come; `peer`, `until` (the stage in which each ended, `up`
before), `encrypted` and `pairing` are what Bumble's objects know of them. `held` is a history
variable. A phone's bond is looked up by its identity, to which Bumble resolves its address.

Bumble and the phones act between any two awaits: a phone connects if the controller
advertises, and only the first in an enrollment is `enrollment`; it asks to pair, which the
delegate lets it only while it is that one, asked anew before the number is shown; it encrypts
with a bond's key, or vanishes; keys that were exchanged are saved by a task of Bumble's
later, also after a hang-up. The socket may fail at any time (`LoseTransport`), which ends
everything that is awaited, but not the cleanup.

More is possible in the model than in the program: durations are not modelled, so a
hold may end at once; any options meet any keystore (the lab asks for an enrollment exactly
when there is no bond); a link that is encrypted may have ended when `WaitEncrypted` lets it
pass, as in the code, where the next step notices; and the cleanup's steps may fail and yet
have worked. The event log and the data that is advertised or served are left out.

## 3. Runs

| Run | Instance | Checks |
| --- | --- | --- |
| `connect` | two interchangeable clients, budget 2 | one HID at a time; no attempt over a link; lock discipline; true only if seen; one budget |
| `pairing` | two runs of the helper, all 16 settings | borrowed under the lock; hidden while advertising; only reported settings differ; a signal ends a run |
| `shared_adapter` | one client with budget 1, one pairing run | pairing is alone; implements `HidSlot`; every call ends |
| `prepare_le` | two helpers, one unread message each | unpair after disconnect; LE link survives; true means LE only; every helper ends |
| `services` | auto-lock: intervals in the defaults' order, Bound 9; query: every list of up to 4 entries, buffer of 3; entries: two datagrams, two actions; monitor: three queued signals; radio session: two phones, an initial connection and one reconnection, any options | locked in time (9 is the smallest bound that holds); yes is encrypted, no is complete; phone only for its owner; started on demand; requests are served; every power-on is served; one phone gets a bond; a pass is true |
| `hid_daemon` | one followed caller and any others, two unread messages, two bluetoothd processes | true is fresh; the copy grants access only to a phone that is trusted; every call ends; the daemon ends with BlueZ |
| `device` | two tasks, two bus connections, one message left over | one HID application and one advertisement in BlueZ; a registration that is reused is one; no advertisement is left, but for a late release; every call ends |
| `device_release` | as `device` | **violated**: advertising stops when `connect` ends (below) |
| `coexist` | a companion, the phone and a stranger; two handlers; one unread event | replies are one's own; one confirmation, of the candidate; no record means that nothing of a run is in force; passed means kept; every session ends |
| `labs` | two processes for each lab, all settings, a careful user | originals are kept in a readable record; runs and restorations of the two labs exclude one another, once started |
| `labs_at_once` | one process for each lab, any user | **violated**: no run of one lab beside a run of the other (below) |
| `polkit_actions` | one datagram, two actions | **violated**: the README's list of allowed polkit actions (below) |

The bounds and why they are enough:

* *Two clients.* Everything a client does to another goes through the lock, and the lock
  has one holder: a holder and one that waits are all the roles there are. The theorems
  remove the bound. *Budget 2* puts the deadline before, at and after each await;
  theorem `OneBudgetPerCall` holds for every budget.
* *Two helpers*: the attempt's own and one orphan of a predecessor. *MaxQueue 1*: the loop
  looks at one message at a time; a second that waits is one delivered later.
* *Capacity 3, four links*: a list that fits, one that just fills the buffer and one that
  is cut, with two entries for the phone in every position.
* *MaxInbox 2*: a datagram that is merged with another, and a full socket.
  *MaxSignals 3*: on, off, on during one attempt.
* *HidDaemon*: two unread messages are a reply and a signal in either order, or the two
  signals of one disconnection; a third place is kept for a reply. Two bluetoothd processes:
  the one registered with and another. One followed caller is enough for properties of each
  caller by itself.
* *Device*: two tasks are the holder of the lock and one that waits or cancels; what they do
  one after the other is any sequence of calls. Two connections are the context's and one
  that BlueZ has not yet forgotten. One message left over is enough for a call that is
  carried out, and a release that is read, under the next call.
* *Coexist*: one companion stands for each that must stay, one stranger for each other
  device; theorem `PassedMeansKept` is for all numbers. Two handlers are one that BlueZ
  has cancelled and the next. One unread event: more of them are only of other links, or the
  phone's and the companion's in succession; again the theorems are for every `Room`.
* *Probe*: two phones are the one to enroll and any other. Two cycles are the initial one and
  one that has a cycle before it, so that a connection left over from that is met; theorems
  `BondsWithOne` and `PassMeansHeld` are for all numbers of both.
* *Labs*: one process that works and one that comes in between, for each lab; a process that
  has ended may be any later command.
* *AutoLock*: the scaled intervals keep the order of the defaults, so the same term of
  `BoundAssumption` decides; theorem `LocksInTime` is for all values.

Symmetry is used only in `connect`, which checks no liveness.
`SharedAdapter`'s run starts from one setting of the adapter and lets a run end only with
the original settings or those it serves with (`MCSpec`): every other combination is
covered by `pairing`.

Deadlock is checked in all runs but `hid_daemon`, whose daemon ends. Each module with a
component's state defines its type invariant; the runs spend their properties on other things.
The type invariants are theorems, or part of one; that of `ConnectService` as part of
`AuthEntry`'s, that of `MgmtLink` as part of `Coexist`'s.

### Fairness

* `ConnectAttempt`/`SharedAdapter`: time passes, and a step that needs only the processor,
  or a timer that has fired, is eventually taken. There is none on BlueZ, the adapter, the
  lock's other users, the helper or the phone.
* `HidServer`: `Work` steps, which call BlueZ with a time limit of five seconds; not the
  registration, which may hang for ever (the signal then ends it).
* `PrepareLe`: the helper's own steps, and that five seconds pass.
* `AuthEntry`: systemd reacts to datagrams and to the end of a service, and an attempt ends
  (`EveryCallEnds`, and `TimeoutStartSec`). `PowerMonitor`: the same for its attempts, and
  the idle loop reads.
* `Device`: the loop runs, the five seconds of a call pass, and a BlueZ that runs works off
  what it was sent and hears of closed connections. Nothing is asked of the order in which
  tasks call, of cancellations, or of the bus.
* `Coexist`: every await of the main task and of a handler ends (`COMMAND_TIMEOUT`, the
  time limits of D-Bus calls), and both deadlines pass. Nothing is asked of the kernel, BlueZ,
  the user or the phone: a question may stay open for ever.
* `HidDaemon`: the loop runs and its timers fire; nothing is asked of BlueZ, the bus, the
  phone or the callers.

### Disagreements with the documentation

`README.md` line 126 (and the option table, line 196) says that the polkit rule
additionally requires an action in `auth.polkit.allowedActions`, and that `[]` authorizes
none. `polkit-auth.nix` has no such option, and its rule never looks at `action`. The run
`polkit_actions` shows the authentication.

`bluez_hid_lab.py` lines 101-102 and 124 say that the labs share a lock and refuse to run in
parallel. The shared lab takes the other's `run.lock` only if it exists when it looks, the
exclusive lab takes only its own, and each looks for the other's record before it has any
lock. A prepared exclusive lab without `run.lock` (its preparation was killed after the
manifest) or one that is prepared meanwhile can start beside a run of the shared lab, as
`labs_at_once` shows: a preparation is killed before it has created `run.lock`; a shared run finds
none and takes its own lock only; when it has read the settings, but not recorded them, an
exclusive run finds no record, locks, reads the settings and starts to write its record, after
which it switches the adapter off, while the shared run goes on to borrow it. If it reads them a
little later, it saves the borrowed Pairable as the original.

`device.py` line 189 says that `connect` stops advertising when it ends. The run
`device_release` shows when it does not: the withdrawal of an earlier `connect` takes too
long or is cancelled; BlueZ releases that advertisement; the next `connect` exports its own
object at the same path; now the `Release` is read and marks the new object; that `connect`
ends, sees `released`, and skips `UnregisterAdvertisement` (line 220). BlueZ keeps
advertising until the registration is given up. `LeftOnlyIfReleased` shows that there is no
other way.

A kill while the very first record is written leaves a temporary file that no command
accepts or removes: `run`, `restore` and `clean` all refuse from then on. `OriginalsAreKept`
shows that nothing has been changed at that point; the file has to be removed by hand.

## 4. Proofs

Each theorem is for every value of the constants.

* **`ConnectAttemptProofs`**. `TypeCorrect`; then the inductive invariant `IInv`: type
  correctness, `LockDiscipline` and that registrations belong to clients. The lock alone
  is not inductive: that at most one application exists follows from "what a client has,
  *or has asked for and may still get*, it has under the lock and in a place whose way out
  leads through the cleanup". `LockDiscipline` says so, and also that the lock's holder is
  in a place from which it releases it, and that a client in `linkedSince` is still before
  the second query. From `IInv`: `OneHid`, `SparesALink`, `RegistrationsNeedTheLock`,
  `PreparationNeedsTheLock`, `CleanExit`. `TrueOnlyIfSeen` and `OneBudgetPerCall` are action
  properties, by the actions. `Refinement` maps every step to a step of `HidSlot` or a
  stutter, with `IInv` giving the guards (a release with nothing in use, exposure only by
  the owner). `SlotIsExclusive` is what `HidSlot` then promises.
* **`HidServerProofs`**. `RunsExclude`: a run holds the lock exactly where it works (`Exclusion`).
  `SettingsAreLent` is the inductive invariant of the settings, `Lending`: they differ from
  `home` only while a run has them; that run knows them (`saved[s] = home`); what it has set
  so far is set, and all of it is as long as anything of the run is or may come to be in
  BlueZ; what it has restored and does not report equals what it saved. The order of
  restoration enters there: `Connectable`, which `Discoverable` may take along, comes after
  it. `WrittenOnly` and `MaybeWrittenOnly` say what a property call leaves alone. From it:
  `BorrowsUnderLock`, `HidesWhileAdvertising`, `ReportsWhatDiffers`, `ServesUnderLock`.
* **`SharedAdapterProofs`**, the composition. `AttemptsUndisturbed` and `RunsUndisturbed`: with
  the other kind's part of `lock`, `hid` and `adv` hidden, every step of the whole is a step of
  `ConnectAttempt`, respectively of `HidServer`, or a stutter. So the theorems about each kind,
  taken through the instance, hold of the whole; since each says that what its kind has in use
  it has under the *same* lock, their conjunction (`SharedDiscipline`) gives what none of them
  says: `PairingStaysAlone`, `OneHidOfAll`. `SharedRefinement` maps the whole to `HidSlot`, and
  `OneAtATime` carries `SlotIsExclusive` back: of all processes, of either kind and in any
  number, at most one works or is exposed.
* **`ServicesProofs`**, the parts of `MCServices` one after the other.
  *AutoLock*: `LoopTypeCorrect`; the inductive invariant `Schedule` (`OnSchedule`) bounds, for each
  place, the time already alone plus the time still to wait there; `LocksInTime` follows from it
  and from `BoundAssumption`.
  *LinkQuery*: `NotCutIsAll` (a buffer that is not full holds the whole list), `AnswerIsRight`
  (what the answers mean, for any list), and from them `YesIsTrue`, `NoIsTrue`.
  *AuthEntry*: `EntryInv` says, for each stack, that its phone rule is reached only past the
  tests (the skips, `Skips`, lead there), and of the socket that it holds datagrams while it is
  watched only if somebody asked; `OnlyForTrusted` and the action property `StartsOnDemand`
  follow.
  *Probe*, with two inductive invariants. `ChosenAlways` (`Chosen`): pairings belong to one
  connection, the one that may pair as long as there is one, and what the keystore holds
  meanwhile is at most that connection's phone; that a new connection is chosen only while
  nothing is paired and nothing stored makes it inductive. `OnePhone` alone is not, since
  `SaveBond` runs long after the choice. `BondsWithOne` follows. `KeptAlways` (`Kept`): what the
  present cycle has come to know of its connection at each stage (`CycleKnows`: it is newer than
  those of the cycles before, bonded, encrypted, not ended before the hold), that each cycle
  before has held one that is over (`CyclesHeld`), and what comes of the result in the cleanup
  (`ResultStands`). What the radio may do to connections meanwhile is `LinksKept`: an end,
  encryption and bonds are for good. `PassMeansHeld` follows. `ProbeTypeCorrect` needs that only
  what has connected pairs, so that a saved bond is a phone's, and that a cycle ends with a hang-up
  only if another is to come.
  *PowerMonitor*: `PowerOnWaits`. A monitor BlueZ can start beside has its match, so a power-on
  that it has not acted upon is in its connection for as long as it runs, whatever comes behind it
  (`MonitorInv`); that it is then acted upon is `PowerOnServed`, which TLC checks.
* **`PrepareLeProofs`**. `SoundAlways` is the inductive invariant: what a helper has seen
  confirmed is what the kernel has done for it, so a helper is past the disconnection only
  if BR/EDR has been down since its command, up to a reconnection by the phone; and a command
  still with the kernel, also one of a killed helper, is one its sender had reason to send.
  Replies in the socket are in it too: a completion is there only for a command that was
  carried out. From it: `UnpairsAfterDisconnect`, `SparesTheLeLink`, `TrueIsLeOnly`.
* **`CoexistProofs`**, in three parts, each with an inductive invariant.
  `ChannelCorrect`: every reply is to the command at the head of the queue, by how each step
  may change queue and replies (`ChannelStep`); `NobodyElsesReply` follows.
  `RecordedAlways` (`Recorded`): there is a record wherever BlueZ may differ from what it was
  and in each place that is about to change something; restore has waited for the end of the run's
  connection (`Waited`), and what it has found in place
  stays so until it has read the links; `CleanWithoutRecord` follows. `AskedAlways` (`Asked`): a
  handler that is before the user asks about the recorded candidate, and no other does, whatever
  handlers are on their way; `ConfirmsTheCandidate` follows.
  `WatchedAlways` (`Watched`): a baseline link that has been lost, or the phone's during its
  hold, has its event in the socket, or the test knows (`Unnoticed`), and a list of links that
  is waiting to be read tells links that are up or whose events are there (`ToldIsTrue`), though
  handlers read the same socket. `PassedMeansKept` follows: `OnlyJudgePasses`, with nothing lost
  in the events read, nothing missing in the list. `CoexistTypeCorrect` goes through the variables
  in groups, a lemma for each, on top of `ChannelCorrect`, which types what a reply tells.
* **`ExperimentProofs`**, `Labs` and `Device` one after the other.
  *Labs*, for any number of commands of each lab: `LabsTypeCorrect`: besides types, the
  holder of a lab's lock is the command inside it, and a record is torn only while the holder
  writes its temporary file (`Sound`); it needs nothing of the user. `NeverBoth`: that the labs
  exclude one another is inductive only with what lies between a look and a lock, who may be at
  its start (`OneStarts`), which steps belong to which lab (`OwnSteps`), and that
  while a shared command is inside without the exclusive lab's lock there is no `run.lock`
  (`NoLockFile`), all in `Orderly`. `OriginalsSurvive`:
  `Kept` says that settings that differ from before the labs are in a record with those values,
  and `Knows`, of each command by itself, what it has read, is about to write and has put back.
  `Knows` of the others survives a step of one because the labs are never both at work. The
  last two have `Careful` as a hypothesis, and need it: see `labs_at_once`.
  *Device*, for any number of tasks, connections, messages and restarts of BlueZ:
  `CallsBelongTogether` is the inductive invariant `DeviceInv`. That the lock works is `Queued`: who
  is in a call is in the queue once, and who is past the lock is its first, so all that follows is
  about one working task and what cancelled ones have left under way. `Asked`: of all calls at BlueZ
  and replies on the way back, one at most is awaited, by a task in the place for it. `One`: `OneHid`
  is not inductive by itself, since a cancelled `RegisterApplication` may be carried out at any
  later time; that there is at most one, and none while BlueZ has an application, is. `Confirmed`
  says of a reply that has not been noted what `ReuseIsSound` says of one that has, and `Fresh`,
  that BlueZ has nothing of a connection whose owner has not been asked for. `Ending`: of the running
  connection, unless a release was noted or a task still advertises, the last thing BlueZ was sent
  about an advertisement is to withdraw it; here the order of the one bus counts. The steps of
  tasks fall into a few shapes (a call ends, goes on, closes the connection, sends), and BlueZ's
  into one each. From it: `OneApplication`, `ReusesWhatIs`, `LeavesIfReleased`. `RemovedAt` says what
  `RemoveAt`, by which tasks leave the queue and replies are dropped, returns.
* **`HidDaemonProofs`**, for any number of callers, of messages in the inbox and of restarts of
  BlueZ. What the code relies on is the order of its one bus connection, and so is the
  invariant: *what a reply says is the case, unless there is news behind it in the inbox*
  (`PowerSaid`, `TrustSaid`, `HeldSaid`, for a reply that has been read, place 0, as for one in
  the inbox). News that is read while a query is under way is of the bluetoothd that is in use
  (`OneBluez`), hence it sets `moved` or fails the daemon (`ReadTakesNote`); a verdict with
  nothing moved is therefore of the present (`VerdictIsSound`), and one who joins meanwhile is
  covered only while no news has been read, which is why `HeldSaid` counts the asks in the
  inbox up to the first news. `Base` has the types, which signals can be in the inbox at each
  stage, that there is one call and one reply at a time, and that a caller asks once. The
  many steps fall into a few shapes (`Steps`: news arrives, the request ends or goes on, the
  backend closes, a message is read), and each part of the invariant is shown shape by shape.
  From it: `YesIsFresh`, `AccessFollowsTrust`; `DaemonTypeCorrect` adds the bound of the inbox.

Assumptions: those named in the modules (`ConnectAssumption`, `ServerAssumption`,
`SharedAssumption`, `QueryAssumption`, `TimeAssumption`, `BoundAssumption`, `InboxAssumption`,
`PrepareAssumption`, `CoexistAssumption`, `ProbeAssumption`, `LabsAssumption`,
`DaemonAssumption`, `DeviceAssumption`, `SignalsAssumption`), nothing else; and `Careful` where the theorem says so.

Only model-checked: everything under fairness (`EveryCallEnds`, `HelperEnds`,
`SignalEndsRun`, `RequestServed`, `PowerOnServed`, `AskEnds`, `EndsWithBluez`, `CallsEnd`,
`SessionEnds`), which is out of the prover's reach.

## 5. Not modelled

* Of the modelled parts: the GATT tree, the authorization closure on the phone's address,
  parsing of addresses, log texts, PAM's setcred phase, file permissions.
* A request that arrives after an attempt's last query is flushed with the socket, and a
  power-on while the monitor is down before its restart is lost: both are how the units are
  meant, and no property speaks of them.
* `keyring-unlock` (a straight line around one attempt), `gatt-query` (reads only), option
  plumbing.
* Of the HID daemon: arguments, exit codes, the address file, the parsing of the kernel's list.
  Of `device.py`: GATT reads, the filter on callers, the removal of the adapter, the argument
  checks; `register_hid.py` is a command line around one call.
* Of the labs: of `radio.py` the advertised and served data, the parsing of its configuration
  (any of it may be refused), the writer of its socket and all durations; the event log; the
  passive observers `coexist_trace.py` and `observe_le_link.py`; the measurements
  `hid_release_test.py`, `gatt_keepalive_test.py` and `diagnostics/`; the repository checks.
* The probe holds a phone's link encrypted and bonded from before the hold; that it is still
  encrypted at the hold's end is not asked by the code, and no link loses its encryption in the
  model.
* In `Labs`, opening a lock file and locking it are one step: that `clean` may unlink a `run.lock`
  which another command has opened is not seen.

## 6. Plan

Done: all program components with state, the HID daemon, `device.py`, both labs, the radio session
and the coexistence test; proofs of every safety property that a run checks and expects to hold.
Worth doing next, in this order:

1. The lock file of `Labs` as two steps (open, lock), with the unlinking of `clean`.
2. The release test with its holder process (`hid_release_test.py`).
3. `keyring-unlock`'s order, with the attempt as its only collaborator.
