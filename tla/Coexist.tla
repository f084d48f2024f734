------------------------------ MODULE Coexist -------------------------------
(***************************************************************************)
(* The coexistence test (src/experiments/iphone_ble/bluez_hid_lab.py run   *)
(* and restore, with coexist_pairing.py and coexist_gatt.py): a HID        *)
(* service on an adapter in use, for the phone, beside connections that    *)
(* must stay.  The main task registers, judges each snapshot of the        *)
(* connections until a deadline, takes everything back and restores.       *)
(* Meanwhile BlueZ asks the pairing agent, whose handlers use the same     *)
(* MGMT channel (MgmtLink) and end at a question to the user, and has the  *)
(* HID service read.  A process may be killed anywhere; a later one        *)
(* restores from the record.  One process runs at a time: Labs has the     *)
(* locks and how a record is written.                                      *)
(*                                                                         *)
(* Link has the companions and the phone, under an address that is known   *)
(* for its own; links of other devices are not followed: one that asks to  *)
(* pair may be connected or not.                                           *)
(***************************************************************************)
EXTENDS MgmtLink, Naturals, FiniteSets

CONSTANTS
  Main, Handler,   \* the tasks of a process
  Phone, None,
  Device,          \* that ask to pair: companions, the phone, and any other
  Room             \* bound: disconnect events that are not read yet

ASSUME CoexistAssumption ==
  /\ Task = Handler \cup {Main} /\ Main \notin Handler
  /\ Phone \in Link \cap Device /\ None \notin Device \cup Task /\ Room \in Nat

VARIABLES
  pc,          \* where the process is: "none" if there is none
  repair,      \* --repair-phone-pairing
  status,      \* "" until the verdict; exit codes 1, 3 and 130 are "failed"
  hid,         \* what the phone has shown: see Shows
  due,         \* the deadline has passed
  handling,    \* where a handler is
  device,      \* and for which device
  confirmed,   \* agent.confirmed_device
  gone,        \* link.disconnect_events, before there is a baseline
  clean,       \* what restore has read of BlueZ last is as it should be
  todo,        \* links restore is about to close
  record,      \* restore.json is there, with
  baseline,    \* baseline_links,
  candidate,   \* pairing_candidate_path (None: the user was not asked) and
  original,    \* Pairable
  pairable,    \* BlueZ's setting,
  serving,     \* what of ours it has registered,
  alive,       \* the bus connection that is registered
  pending,     \* and the handler it waits for
  intact       \* history: links up ever since the baseline, or since the hold began

mainVars    == <<pc, repair, status, due>>
agentVars   == <<handling, device, confirmed, pending>>
recordVars  == <<record, baseline, candidate, original>>
restoreVars == <<clean, todo>>
bluezVars   == <<pairable, serving, alive>>
shownVars   == <<hid, gone, intact>>
coexistVars == <<linkVars, links, mainVars, shownVars, agentVars, recordVars, restoreVars, bluezVars>>

Undoing   == {"undo adv", "undo app", "undo pairable", "undo agent", "closing"}
Session   == {"preflight", "baseline", "agent", "pairable", "app", "adv", "look", "links"}
Restoring == {"restore", "current", "check", "drop", "reset", "verify", "verify links", "leave"}
Place     == {"none"} \cup Session \cup Undoing \cup Restoring

\* An access is stale once the phone has been down after it; the test is broken if
\* what may not go down has.
Shows == {"nothing", "stale", "fresh", "held", "broken"}

CoexistTypeOK ==
  /\ LinkTypeOK
  /\ pc \in Place /\ repair \in BOOLEAN /\ due \in BOOLEAN
  /\ status \in {"", "passed", "failed", "unrestored"}
  /\ hid \in Shows /\ gone \subseteq Link /\ clean \in BOOLEAN /\ todo \subseteq Link
  /\ handling \in [Handler -> {"none", "links", "user"}]
  /\ device \in [Handler -> Device \cup {None}]
  /\ confirmed \in Device \cup {None}
  /\ record \in BOOLEAN /\ baseline \subseteq Link /\ candidate \in Device \cup {None}
  /\ original \in BOOLEAN /\ pairable \in BOOLEAN /\ alive \in BOOLEAN
  /\ serving \subseteq {"app", "adv", "agent"} /\ pending \in Handler \cup {None}
  /\ intact \subseteq Link

CoexistInit ==
  /\ closed = TRUE /\ queue = <<>> /\ replies = <<>> /\ events = {} /\ links \in SUBSET Link
  /\ pc = "none" /\ repair = FALSE /\ status = "" /\ due = FALSE /\ hid = "nothing"
  /\ handling = [h \in Handler |-> "none"] /\ device = [h \in Handler |-> None]
  /\ confirmed = None /\ gone = {} /\ clean = FALSE /\ todo = {}
  /\ record = FALSE /\ baseline = {} /\ candidate = None
  /\ pairable \in BOOLEAN /\ original = pairable /\ serving = {} /\ alive = FALSE /\ pending = None
  /\ intact = {}

-----------------------------------------------------------------------------

Pick(set) == CHOOSE x \in set : TRUE

GoTo(place) == pc' = place /\ UNCHANGED <<repair, status, due>>

GoOn(place) == GoTo(place) /\ UNCHANGED shownVars

\* Mutant: only the snapshots say what was lost of the baseline.
PhoneBroken == Phone \in events /\ hid = "held"

\* What the reader finds counts at once: a baseline connection that was down, or the
\* phone's in its hold, settles it.
Broken == events \cap baseline # {} \/ (Phone \in events /\ hid = "held")

\* And the phone's makes an access stale.
Shown ==
  IF status = "failed" THEN hid
  ELSE IF Broken THEN "broken"
  ELSE IF Phone \in events /\ hid = "fresh" THEN "stale"
  ELSE hid

Drain ==
  /\ hid' = Shown /\ intact' = (IF Shown = "broken" THEN {} ELSE intact)
  /\ gone' = IF pc = "baseline" THEN gone \cup events ELSE {}

\* Where the cleanup begins: each part was attempted if its await was reached.
UndoFrom(place) ==
  CASE place \in {"adv", "look", "links"}  -> "undo adv"
    [] place = "app"                       -> "undo app"
    [] place \in {"agent", "pairable"}     -> IF repair THEN "undo pairable" ELSE "closing"
    [] OTHER                               -> "closing"

\* From here on nobody looks at the deadline and at what the phone has shown, nor, in a
\* test that has failed, at disconnect events.
Verdict(s) ==
  /\ status' = s /\ pc' = UndoFrom(pc) /\ due' = FALSE /\ UNCHANGED repair
  /\ hid' = "nothing" /\ gone' = {} /\ intact' = {}

\* An await of the main task on the channel ends with an exception: in its turn, by
\* SIGINT before that, or because another's command took the channel down.
ChannelFails ==
  /\ \/ GivesUp(Main)
     \/ Leaves(Main)
     \/ ~Contains(queue, Main) /\ Unheeded
  /\ UNCHANGED links

-----------------------------------------------------------------------------
(* run.                                                                    *)

\* Bounds: the repair mode where it has to open Pairable, else it has less to change; and
\* BlueZ has noticed the end of the run before.
StartRun ==
  /\ pc = "none" /\ ~record /\ ~alive /\ serving = {}
  /\ pc' = "preflight" /\ repair' \in {FALSE, ~pairable} /\ alive' = TRUE
  /\ UNCHANGED <<linkVars, links, status, due, shownVars, agentVars, recordVars, restoreVars, pairable, serving>>

\* An adapter or a phone that does not qualify, or a call that fails, ends the run.
Preflight ==
  /\ pc = "preflight"
  /\ \/ "app" \notin serving /\ OpenAnd(<<Main>>) /\ GoOn("baseline") /\ original' = pairable
     \/ Verdict("failed") /\ UNCHANGED <<linkVars, original>>
  /\ UNCHANGED <<links, agentVars, record, baseline, candidate, restoreVars, bluezVars>>

\* The record is there before anything is changed; what fails here may have written it.
SaveBaseline ==
  /\ pc = "baseline" /\ Wakes(Main)
  /\ ~(Told \subseteq {Phone})
  /\ baseline' = Told
  /\ \/ /\ record' = TRUE /\ GoTo(IF repair THEN "agent" ELSE "pairable")
        /\ gone' = {} /\ intact' = Told \cap links
        /\ hid' = IF (gone \cup events) \cap Told = {} THEN "nothing" ELSE "broken"
     \/ record' \in {record, TRUE} /\ Verdict("failed")
  /\ UNCHANGED <<links, candidate, original, agentVars, restoreVars, bluezVars>>

\* There has to be a companion.
BaselineFails ==
  /\ pc = "baseline"
  /\ (Wakes(Main) /\ Told \subseteq {Phone} /\ UNCHANGED links) \/ ChannelFails
  /\ Verdict("failed")
  /\ UNCHANGED <<recordVars, agentVars, restoreVars, bluezVars>>

\* A call to BlueZ; one that fails, or that SIGINT cancels, may have worked.
Registers(what, next) ==
  /\ pc = what
  /\ \/ serving' = serving \cup {what} /\ GoOn(next) /\ UNCHANGED linkVars
     \/ serving' \in {serving, serving \cup {what}} /\ Verdict("failed") /\ Unheeded
  /\ UNCHANGED <<links, agentVars, recordVars, restoreVars, pairable, alive>>

RegisterAgent == Registers("agent", "pairable")
RegisterApp   == Registers("app", "adv")
RegisterAdv   == Registers("adv", "look")

SetPairable ==
  /\ pc = "pairable"
  /\ \/ pairable' = repair /\ GoOn("app") /\ UNCHANGED linkVars
     \/ pairable' \in {pairable, repair} /\ Verdict("failed") /\ Unheeded
  /\ UNCHANGED <<links, agentVars, recordVars, restoreVars, serving, alive>>

\* The objects are read.  Changes of power, Pairable, the phone's record or its
\* audio, and a release of the advertisement only end the run: here it may.
Look ==
  /\ pc = "look"
  /\ \/ ~closed /\ Command(Main) /\ GoOn("links")
     \/ Verdict("failed") /\ Unheeded
  /\ UNCHANGED <<links, agentVars, recordVars, restoreVars, bluezVars>>

\* identity_verified: BlueZ has bonded the confirmed device and knows it for the phone.
Verified == IF ~repair THEN {TRUE} ELSE IF confirmed = None THEN {FALSE} ELSE BOOLEAN

\* The deadline is from here on the hold's; later accesses change nothing.
BeginHold(verified) ==
  /\ verified /\ Shown = "fresh" /\ Phone \in Told
  /\ pc' = "look" /\ due' = FALSE /\ UNCHANGED <<repair, status>>
  /\ hid' = "held" /\ intact' = intact \cup {Phone} /\ UNCHANGED gone

Hold ==
  /\ Shown = "held" /\ Phone \in Told
  /\ IF due THEN Verdict("passed") ELSE GoTo("look") /\ Drain

Wait(verified) ==
  /\ Shown \in {"nothing", "stale", "fresh"} /\ ~(verified /\ Shown = "fresh" /\ Phone \in Told)
  /\ IF due THEN Verdict("failed")
     ELSE GoTo("look") /\ Drain

\* One round, on the objects read before and on what the channel tells now.
Judge ==
  /\ pc = "links" /\ Wakes(Main)
  /\ IF ~(baseline \subseteq Told) \/ Shown = "broken" \/ (Shown = "held" /\ Phone \notin Told) THEN Verdict("failed")
     ELSE \/ Hold
          \/ \E verified \in Verified : BeginHold(verified) \/ Wait(verified)
  /\ UNCHANGED <<links, agentVars, recordVars, restoreVars, bluezVars>>

RoundFails ==
  /\ pc = "links" /\ ChannelFails /\ Verdict("failed")
  /\ UNCHANGED <<agentVars, recordVars, restoreVars, bluezVars>>

-----------------------------------------------------------------------------
(* The pairing agent and the HID service, in tasks of the same loop.       *)

Listening == alive /\ pc \in (Session \ {"preflight", "baseline"}) \cup Undoing

Replied(h) ==
  /\ handling' = [handling EXCEPT ![h] = "none"] /\ device' = [device EXCEPT ![h] = None]
  /\ pending' = IF pending = h THEN None ELSE pending

\* allow_pairing, up to its await: any other device has to be a new one.
MayPair(d) == (d = Phone \/ d \notin baseline) /\ candidate \in {None, d}

IsConnected(d) == IF d \in Link THEN d \in Told ELSE TRUE

Asking(h, d) ==
  /\ pending' = h /\ Command(h)
  /\ handling' = [handling EXCEPT ![h] = "links"] /\ device' = [device EXCEPT ![h] = d]

Free == {h \in Handler : handling[h] = "none"}

\* Bounds: devices pair while they see the advertisement, and not again once the user
\* was asked (such a request only uses the channel before it is refused).
RequestConfirmation(d) ==
  /\ Listening /\ {"agent", "adv"} \subseteq serving /\ pending = None /\ candidate = None
  /\ MayPair(d) /\ ~closed
  /\ Free # {} /\ Asking(Pick(Free), d)
  /\ UNCHANGED <<links, mainVars, shownVars, confirmed, recordVars, restoreVars, bluezVars>>

\* Mutant: whether one was asked is looked at before the await only.
RefusesEarly(h) == FALSE

\* One confirmation in the life of an agent.
Refuses(h) == candidate # None

\* The user is asked only if the device is connected when the links are told.
HandlerWakes(h) ==
  /\ handling[h] = "links" /\ Wakes(h) /\ Drain
  /\ \/ /\ IsConnected(device[h]) /\ ~Refuses(h)
        /\ handling' = [handling EXCEPT ![h] = "user"]
        /\ candidate' = device[h] /\ record' = TRUE
        /\ UNCHANGED <<device, pending>>
     \/ /\ device[h] \notin Told \/ Refuses(h)
        /\ Replied(h) /\ UNCHANGED <<candidate, record>>
  /\ UNCHANGED <<links, mainVars, confirmed, baseline, original, restoreVars, bluezVars>>

HandlerFails(h) ==
  /\ handling[h] = "links"
  /\ GivesUp(h) \/ (~Contains(queue, h) /\ UNCHANGED linkVars)
  /\ Replied(h)
  /\ UNCHANGED <<links, mainVars, shownVars, confirmed, recordVars, restoreVars, bluezVars>>

\* An answer is recorded, whatever the main task is doing.
UserAnswers(h) ==
  /\ handling[h] = "user" /\ Replied(h)
  /\ \/ confirmed' = device[h] /\ record' = TRUE
     \/ UNCHANGED <<confirmed, record>>
  /\ UNCHANGED <<linkVars, links, mainVars, shownVars, baseline, candidate, original, restoreVars, bluezVars>>

\* cancel_pending stops a question, not a handler on its way to one.
Cancelled == [h \in Handler |-> IF handling[h] = "user" THEN "none" ELSE handling[h]]

CancelPending ==
  /\ handling' = Cancelled
  /\ device' = [h \in Handler |-> IF Cancelled[h] = "none" THEN None ELSE device[h]]

Cancel ==
  /\ Listening /\ pending # None
  /\ CancelPending /\ pending' = None
  /\ UNCHANGED <<linkVars, links, mainVars, shownVars, confirmed, recordVars, restoreVars, bluezVars>>

\* _access with allow_device, for the phone, or for the confirmed device before BlueZ
\* knows it for the phone.  A read may come late, after the link it came over.
GattAccess ==
  /\ Listening /\ "app" \in serving /\ (repair => confirmed # None)
  /\ status = "" /\ hid \in {"nothing", "stale"} /\ hid' = "fresh"
  /\ UNCHANGED <<linkVars, links, mainVars, gone, intact, agentVars, recordVars, restoreVars, bluezVars>>

ReadEvents ==
  /\ ~closed /\ Reads /\ Drain
  /\ UNCHANGED <<links, mainVars, agentVars, recordVars, restoreVars, bluezVars>>

-----------------------------------------------------------------------------
(* The cleanup: each part is tried, whatever becomes of the others.        *)

Unregister(what) ==
  /\ serving' \in {serving, serving \ {what}}
  /\ UNCHANGED <<linkVars, links, shownVars, recordVars, restoreVars, pairable, alive>>

UndoAdv == pc = "undo adv" /\ Unregister("adv") /\ GoTo("undo app") /\ UNCHANGED agentVars

UndoApp ==
  /\ pc = "undo app" /\ Unregister("app")
  /\ IF repair THEN GoTo("undo pairable") /\ CancelPending ELSE GoTo("closing") /\ UNCHANGED <<handling, device>>
  /\ UNCHANGED <<confirmed, pending>>

UndoPairable ==
  /\ pc = "undo pairable" /\ GoTo("undo agent")
  /\ pairable' \in {pairable, original}
  /\ UNCHANGED <<linkVars, links, shownVars, agentVars, recordVars, restoreVars, serving, alive>>

UndoAgent == pc = "undo agent" /\ Unregister("agent") /\ GoTo("closing") /\ UNCHANGED agentVars

\* The events of the whole run decide once more; then MGMT and bus are closed.  A
\* question to the user stays; other handlers fail.  Nobody asks any more what has
\* been lost or confirmed.
Closing ==
  /\ pc = "closing" /\ pc' = "restore" /\ repair' = FALSE /\ hid' = "nothing" /\ confirmed' = None
  /\ status' = IF status = "passed" /\ hid = "broken" THEN "failed" ELSE status
  /\ record' \in {record, record \/ baseline # {}}
  /\ handling' = [h \in Handler |-> IF handling[h] = "user" THEN "user" ELSE "none"]
  /\ device' = [h \in Handler |-> IF handling[h] = "user" THEN device[h] ELSE None]
  /\ candidate' = (IF \E h \in Handler : handling[h] = "user" THEN candidate ELSE None)
  /\ Terminate /\ pending' = None
  /\ UNCHANGED <<links, due, gone, intact, baseline, original, restoreVars, bluezVars>>

-----------------------------------------------------------------------------
(* restore, at the end of a run or as a command.                           *)

StartRestore ==
  /\ pc = "none" /\ record
  /\ pc' = "restore" /\ status' = "" /\ due' = FALSE /\ UNCHANGED repair
  /\ UNCHANGED <<linkVars, links, shownVars, agentVars, recordVars, restoreVars, bluezVars>>

Unrestored == status' = "unrestored" /\ pc' = "leave" /\ UNCHANGED <<repair, due>>

\* Not before the bus has forgotten the connection of the run.
RestoreBegins ==
  /\ pc = "restore"
  /\ \/ ~record /\ GoTo("leave") /\ UNCHANGED linkVars
     \/ record /\ Unrestored /\ UNCHANGED linkVars
     \/ record /\ ~alive /\ GoTo("current") /\ OpenAnd(<<Main>>)
  /\ UNCHANGED <<links, shownVars, agentVars, recordVars, restoreVars, bluezVars>>

\* disconnect_le asks again before each link it closes.
CloseLinks(some) ==
  /\ todo' = some
  /\ IF some = {} THEN GoTo("reset") /\ queue' = Tail(queue)
     ELSE GoTo("check") /\ queue' = Append(Tail(queue), Main)

Added(now) == (now \ baseline) \cap {Phone}

RestoreAnswered ==
  /\ queue # <<>> /\ Head(queue) = Main /\ replies # <<>>
  /\ replies' = <<>> /\ events' = {} /\ UNCHANGED closed
  /\ \/ pc = "current" /\ CloseLinks(Added(Told)) /\ UNCHANGED links
     \/ /\ pc = "check" /\ UNCHANGED <<links, todo>>
        /\ IF Pick(todo) \in Told THEN GoTo("drop") /\ queue' = Append(Tail(queue), Main)
           ELSE Unrestored /\ queue' = <<>>
     \/ pc = "drop" /\ links' = links \ {Pick(todo)} /\ CloseLinks(todo \ {Pick(todo)})
  /\ UNCHANGED <<shownVars, agentVars, recordVars, clean, bluezVars>>

Reset ==
  /\ pc = "reset"
  /\ pairable' \in {pairable, original}
  /\ IF pairable' = original THEN (pc' = "verify" /\ due' = FALSE /\ UNCHANGED <<repair, status>>) \/ Unrestored
     ELSE Unrestored
  /\ UNCHANGED <<linkVars, links, shownVars, agentVars, recordVars, restoreVars, serving, alive>>

\* Mutant: only the settings are compared.
InPlaceBySettings == pairable = original

\* HID service, advertisements and Pairable; BlueZ may still have to notice that the run is gone.
InPlace == serving \cap {"app", "adv"} = {} /\ pairable = original

Verify ==
  /\ pc = "verify"
  /\ \/ clean' = InPlace /\ Command(Main) /\ GoTo("verify links")
     \/ Unrestored /\ UNCHANGED <<clean, linkVars>>
  /\ UNCHANGED <<links, shownVars, agentVars, recordVars, todo, bluezVars>>

\* Complete only if every baseline link is there and no Classic one is new.
VerifyLinks ==
  /\ pc = "verify links" /\ Wakes(Main)
  /\ IF Added(Told) = {} /\ clean
     THEN \/ baseline \subseteq Told /\ record' = FALSE /\ GoTo("leave")
          \/ record' = record /\ pc' = "leave" /\ status' = "failed" /\ UNCHANGED <<repair, due>>
          \/ record' = record /\ Unrestored
     ELSE /\ record' = record
          /\ IF due THEN Unrestored ELSE GoTo("verify")
  /\ UNCHANGED <<links, shownVars, agentVars, baseline, candidate, original, restoreVars, bluezVars>>

RestoreFails ==
  /\ pc \in {"current", "check", "drop", "verify links"}
  /\ ChannelFails /\ Unrestored
  /\ UNCHANGED <<shownVars, agentVars, recordVars, restoreVars, bluezVars>>

\* The loop ends and cancels what is left in it.
Over ==
  /\ pc' = "none" /\ repair' = FALSE /\ status' = "" /\ due' = FALSE /\ hid' = "nothing" /\ gone' = {}
  /\ handling' = [h \in Handler |-> "none"] /\ device' = [h \in Handler |-> None]
  /\ confirmed' = None /\ pending' = None /\ clean' = FALSE /\ todo' = {} /\ intact' = {}
  /\ baseline' = (IF record THEN baseline ELSE {}) /\ candidate' = None
  /\ Terminate
  /\ UNCHANGED <<links, record, original, bluezVars>>

Leave == pc = "leave" /\ Over

Kill == pc # "none" /\ Over

-----------------------------------------------------------------------------
(* The others.                                                             *)

\* The bus and then BlueZ notice the end of the run's connection.
Forget ==
  /\ pc \in {"none"} \cup Restoring
  /\ \/ alive /\ alive' = FALSE /\ UNCHANGED serving
     \/ ~alive /\ serving # {} /\ serving' = {} /\ UNCHANGED alive
  /\ UNCHANGED <<linkVars, links, mainVars, shownVars, agentVars, recordVars, restoreVars, pairable>>

\* Events matter until the verdict, and for a test that has passed so far.  Bound:
\* links stay as they are while a failed one cleans up.
LinkChanges(l) ==
  /\ ~(pc \in Undoing /\ status = "failed")
  /\ l \in links => Cardinality(events \cup {l}) <= Room
  /\ Changes(l, pc \in Session \cup Undoing) /\ intact' = intact \ {l}
  /\ UNCHANGED <<mainVars, hid, gone, agentVars, recordVars, restoreVars, bluezVars>>

KernelAnswers ==
  /\ Answers
  /\ UNCHANGED <<mainVars, shownVars, agentVars, recordVars, restoreVars, bluezVars>>

Tick ==
  /\ ~due /\ hid # "broken" /\ pc \in {"look", "links", "verify", "verify links"} /\ due' = TRUE
  /\ UNCHANGED <<linkVars, links, pc, repair, status, shownVars, agentVars, recordVars, restoreVars, bluezVars>>

MainStep ==
  \/ Preflight \/ SaveBaseline \/ BaselineFails \/ RegisterAgent \/ SetPairable \/ RegisterApp \/ RegisterAdv
  \/ Look \/ Judge \/ RoundFails
  \/ UndoAdv \/ UndoApp \/ UndoPairable \/ UndoAgent \/ Closing
  \/ RestoreBegins \/ RestoreAnswered \/ Reset \/ Verify \/ VerifyLinks \/ RestoreFails \/ Leave

HandlerStep(h) == HandlerWakes(h) \/ HandlerFails(h)

CoexistNext ==
  \/ StartRun \/ StartRestore \/ MainStep \/ Kill \/ Tick
  \/ \E h \in Handler : HandlerStep(h) \/ UserAnswers(h)
  \/ \E d \in Device : RequestConfirmation(d)
  \/ \E l \in Link : LinkChanges(l)
  \/ GattAccess \/ Cancel \/ ReadEvents \/ Forget \/ KernelAnswers

CoexistSpec == CoexistInit /\ [][CoexistNext]_coexistVars

\* Every await of the program is timed, the channel's by COMMAND_TIMEOUT, and both
\* deadlines pass.  Nothing is asked of the kernel, BlueZ, the user or the phone.
CoexistFairSpec ==
  /\ CoexistSpec /\ WF_coexistVars(MainStep) /\ WF_coexistVars(Tick)
  /\ WF_coexistVars(\E h \in Handler : HandlerStep(h))

-----------------------------------------------------------------------------

\* A run passes only if each connection of the baseline has stayed up all the time,
\* and one of the phone since the hold began (bluez_hid_lab.py:840-859, 911-937).
PassMeansKept ==
  [][status # "passed" /\ status' = "passed" => baseline \cup {Phone} \subseteq intact]_coexistVars

\* What the user confirms is what was asked and recorded, and no two questions are
\* open (coexist_pairing.py:65-105, bluez_hid_lab.py:673-680).
ConfirmedIsCandidate ==
  /\ confirmed \in {None, candidate}
  /\ \A h \in Handler : handling[h] = "user" => device[h] = candidate
  /\ Cardinality({h \in Handler : handling[h] = "user"}) <= 1

\* When no process is there and no record, nothing of a run is in force, wherever the
\* runs before have failed or were killed: its HID service and its advertisement are
\* gone, Pairable is as it was, and an agent that BlueZ still lists, since restore
\* reports it as removed without a look, is that of a connection that is closed
\* (bluez_hid_lab.py:404-550, 733-769).
NoRecordMeansClean ==
  pc = "none" /\ ~record =>
    /\ serving \cap {"app", "adv"} = {} /\ pairable = original
    /\ "agent" \in serving => ~alive

\* A run or a restoration ends (coexist_link.py:242, bluez_hid_lab.py:831-978, 449-477).
SessionEnds == pc # "none" ~> pc = "none"
=============================================================================
