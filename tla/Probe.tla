------------------------------- MODULE Probe --------------------------------
(***************************************************************************)
(* The radio session of the exclusive lab: run_probe in                    *)
(* src/experiments/iphone_ble/radio.py.  It opens the adapter as an HCI    *)
(* user channel, and goes through Cycles + 1 cycles: it advertises, waits  *)
(* for the phone, has the link encrypted (in an enrollment, paired by      *)
(* Numeric Comparison and the bond saved), waits for the service, and      *)
(* holds the link; between two cycles it hangs up.  Then it closes all it  *)
(* has opened, whatever came between, and tells whether it passed.         *)
(*                                                                         *)
(* Every await is a place where phones connect, pair, encrypt and vanish,  *)
(* the controller is lost, time runs out (durations are not modelled) or   *)
(* the probe is cancelled.  The stack under it is Bumble, its delegate and *)
(* its listeners run in its tasks.                                         *)
(***************************************************************************)
EXTENDS Naturals

CONSTANTS
  Phone,     \* whoever may answer the advertisement
  Cycles     \* options.cycles: how often the phone has to come back

ASSUME ProbeAssumption == Cycles \in Nat

VARIABLES
  stage,        \* where _run_probe is
  cycle,        \* cycle_number
  enroll,       \* options.enroll
  profile,      \* the mode is one (ancs) with a client to stop after the hold
  bonds,        \* the phones in the keystore
  channel,      \* the user channel is open
  lost,         \* transport.source.terminated
  poweredOn,    \* powered_on
  advertising,  \* the controller advertises
  available,    \* enrollment_available
  enrollment,   \* enrollment_connection
  heard,        \* the connection the listener of _wait_connection has caught
  connection,   \* the cycle's connection
  enrolling,    \* its phone was not in the keystore
  held,         \* per cycle: the connection held to its end
  count,        \* connections so far; they are numbered
  peer,         \* per connection: its phone
  until,        \* per connection: the stage in which it ended
  encrypted,    \* per connection: is_encrypted
  pairing,      \* per connection: how far a pairing has come
  failed,       \* there are cleanup_failures
  cancelled,    \* the probe's task was cancelled
  passed        \* result["passed"]

options    == <<enroll, profile>>
radio      == <<channel, lost, poweredOn, advertising>>
selection  == <<available, enrollment>>
progress   == <<cycle, heard, connection, enrolling, held>>
linksVars  == <<count, peer, until, encrypted, pairing>>
report     == <<failed, cancelled, passed>>
probeVars  == <<stage, options, bonds, radio, selection, progress, linksVars, report>>

\* A start of advertising brings one connection at most.
Connection == 1..(Cycles + 1)
None       == 0

InCycle == {"advertise", "look", "listen", "bond", "refuse", "encrypt", "saving",
            "service", "hold", "holding"}
Held    == {"stop", "disconnect"}
Opening == {"power", "keys"}
Closing == {"stopAdvertising", "powerOff", "close"}
Stages  == {"idle", "open", "over"} \cup Opening \cup InCycle \cup Held \cup Closing

ProbeTypeOK ==
  /\ stage \in Stages /\ cycle \in Connection
  /\ enroll \in BOOLEAN /\ profile \in BOOLEAN /\ bonds \subseteq Phone
  /\ channel \in BOOLEAN /\ lost \in BOOLEAN /\ poweredOn \in BOOLEAN
  /\ advertising \in BOOLEAN /\ available \in BOOLEAN
  /\ enrollment \in Connection \cup {None} /\ heard \in Connection \cup {None}
  /\ connection \in Connection \cup {None} /\ enrolling \in BOOLEAN
  /\ held \in [Connection -> Connection \cup {None}]
  /\ count \in 0..(Cycles + 1)
  /\ peer \in [Connection -> Phone \cup {None}]
  /\ until \in [Connection -> Stages \cup {"new", "up"}]
  /\ encrypted \in [Connection -> BOOLEAN]
  /\ pairing \in [Connection -> {"none", "accepted", "shown", "confirmed", "keys", "done"}]
  /\ failed \in BOOLEAN /\ cancelled \in BOOLEAN /\ passed \in BOOLEAN

\* Any options; the lab keeps one phone in a keystore at most.
ProbeInit ==
  /\ stage = "idle" /\ bonds \in {{}} \cup {{p} : p \in Phone}
  /\ cycle = 1 /\ enroll \in BOOLEAN /\ profile \in BOOLEAN
  /\ channel = FALSE /\ lost = FALSE /\ poweredOn = FALSE /\ advertising = FALSE
  /\ available = FALSE /\ enrollment = None
  /\ heard = None /\ connection = None /\ enrolling = FALSE
  /\ held = [n \in Connection |-> None]
  /\ count = 0 /\ peer = [c \in Connection |-> None] /\ until = [c \in Connection |-> "new"]
  /\ encrypted = [c \in Connection |-> FALSE] /\ pairing = [c \in Connection |-> "none"]
  /\ failed = FALSE /\ cancelled = FALSE /\ passed = FALSE

-----------------------------------------------------------------------------
(* What the helpers tell *)

\* _connection_is_active
Active(c) == c # None /\ until[c] = "up"

\* _bond_for_connection
Bonded(c) == peer[c] \in bonds

Goto(s) == stage' = s

\* finally: what has been opened is closed again.
CleanUp == Goto(IF poweredOn THEN "stopAdvertising" ELSE IF channel THEN "close" ELSE "over")

\* _while_transport_open lets nothing succeed on a lost transport, nor does
\* _while_connected on an ended connection.
OnTransport  == ~lost
OnConnection == OnTransport /\ Active(connection)

-----------------------------------------------------------------------------
(* run_probe *)

\* Options and configuration are checked before anything is opened.
StartProbe ==
  /\ stage = "idle"
  /\ stage' \in {"open", "over"}
  /\ UNCHANGED <<options, bonds, radio, selection, progress, linksVars, report>>

\* A socket that cannot be bound is closed.
OpenTransport ==
  /\ stage = "open"
  /\ \/ channel' = TRUE /\ Goto("power")
     \/ channel' = FALSE /\ Goto("over")
  /\ UNCHANGED <<options, bonds, lost, poweredOn, advertising, selection, progress, linksVars, report>>

PowerOnRadio ==
  /\ stage = "power" /\ OnTransport
  /\ poweredOn' = TRUE /\ Goto("keys")
  /\ UNCHANGED <<options, bonds, channel, lost, advertising, selection, progress, linksVars, report>>

\* Mutant: an enrollment whatever is in the keystore.
ReadKeysAnyway ==
  /\ stage = "keys" /\ OnTransport
  /\ available' = enroll /\ Goto("advertise")
  /\ UNCHANGED <<options, bonds, radio, enrollment, progress, linksVars, report>>

\* An enrollment needs an empty keystore.
ReadKeys ==
  /\ stage = "keys" /\ OnTransport
  /\ available' = (enroll /\ bonds = {}) /\ Goto("advertise")
  /\ UNCHANGED <<options, bonds, radio, enrollment, progress, linksVars, report>>

\* The command takes effect before its reply is awaited.
StartAdvertising ==
  /\ stage = "advertise" /\ OnTransport
  /\ advertising' = TRUE /\ Goto("look")
  /\ UNCHANGED <<options, bonds, channel, lost, poweredOn, selection, progress, linksVars, report>>

\* _wait_connection: a connection there is ...
Look ==
  /\ stage = "look" /\ OnTransport
  /\ IF \E c \in Connection : Active(c)
       THEN \E c \in Connection : Active(c) /\ connection' = c /\ Goto("bond") /\ UNCHANGED heard
       ELSE heard' = None /\ Goto("listen") /\ UNCHANGED connection
  /\ UNCHANGED <<options, bonds, radio, selection, cycle, enrolling, held, linksVars, report>>

\* ... or the next one, which may have ended again.
Hear ==
  /\ stage = "listen" /\ OnTransport /\ heard # None
  /\ connection' = heard /\ Goto("bond")
  /\ UNCHANGED <<options, bonds, radio, selection, cycle, heard, enrolling, held, linksVars, report>>

\* A phone without a bond stays only if it is the one to enroll.
LookUpBond ==
  /\ stage = "bond" /\ OnTransport
  /\ enrolling' = ~Bonded(connection)
  /\ Goto(IF ~Bonded(connection) /\ enrollment # connection THEN "refuse" ELSE "encrypt")
  /\ UNCHANGED <<options, bonds, radio, selection, cycle, heard, connection, held, linksVars, report>>

\* It hangs up, and fails.
RefuseStranger ==
  /\ stage = "refuse" /\ OnConnection
  /\ until' = [until EXCEPT ![connection] = stage]
  /\ CleanUp
  /\ UNCHANGED <<options, bonds, radio, selection, progress, count, peer, encrypted, pairing, report>>

\* It has asked the phone for security; from now on nobody may pair.  That the phone is
\* still there is left to the next step.
WaitEncrypted ==
  /\ stage = "encrypt" /\ OnTransport /\ encrypted[connection]
  /\ enrollment' = None
  /\ Goto(IF enrolling THEN "saving" ELSE "service")
  /\ UNCHANGED <<options, bonds, radio, available, progress, linksVars, report>>

WaitBondSaved ==
  /\ stage = "saving" /\ OnConnection /\ Bonded(connection)
  /\ Goto("service")
  /\ UNCHANGED <<options, bonds, radio, selection, progress, linksVars, report>>

\* _prepare_ancs, _prepare_cts, _prepare_hogp
PrepareService ==
  /\ stage = "service" /\ OnConnection
  /\ Goto("hold")
  /\ UNCHANGED <<options, bonds, radio, selection, progress, linksVars, report>>

\* Mutant: it listens for the end of a connection that may have ended.
BeginHoldBlindly ==
  /\ stage = "hold" /\ OnTransport
  /\ Goto("holding")
  /\ UNCHANGED <<options, bonds, radio, selection, progress, linksVars, report>>

\* The connection may have ended before _hold_connection listens for its end.
BeginHold ==
  /\ stage = "hold" /\ OnConnection
  /\ Goto("holding")
  /\ UNCHANGED <<options, bonds, radio, selection, progress, linksVars, report>>

\* The last cycle ends the probe, any other with a hang-up.
EndOfCycle ==
  IF cycle <= Cycles
    THEN Goto("disconnect") /\ UNCHANGED passed
    ELSE CleanUp /\ passed' = TRUE

\* Its time is over, and the listener has heard nothing.
HoldElapses ==
  /\ stage = "holding" /\ OnTransport /\ until[connection] # "holding"
  /\ held' = [held EXCEPT ![cycle] = connection]
  /\ IF profile THEN Goto("stop") /\ UNCHANGED passed ELSE EndOfCycle
  /\ UNCHANGED <<options, bonds, radio, selection, cycle, heard, connection, enrolling,
                 linksVars, failed, cancelled>>

\* profile.stop(), whatever becomes of it.
StopProfile ==
  /\ stage = "stop" /\ EndOfCycle
  /\ UNCHANGED <<options, bonds, radio, selection, progress, linksVars, failed, cancelled>>

\* The phone may hang up first; a connection that was over before cannot be ended.
HangUp ==
  /\ stage = "disconnect" /\ OnTransport /\ until[connection] \in {"up", stage}
  /\ until' = [until EXCEPT ![connection] = stage]
  /\ cycle' = cycle + 1 /\ Goto("advertise")
  /\ UNCHANGED <<options, bonds, radio, selection, heard, connection, enrolling, held,
                 count, peer, encrypted, pairing, report>>

\* A timeout, an error, an end of the transport or of the connection.
ProbeFails ==
  /\ stage \in Opening \cup InCycle \cup {"disconnect"}
  /\ CleanUp
  /\ UNCHANGED <<options, bonds, radio, selection, progress, linksVars, report>>

\* asyncio cancels the task once; what a cleanup awaits then fails.
CancelProbe ==
  /\ stage \in Opening \cup InCycle \cup Held /\ ~cancelled
  /\ cancelled' = TRUE /\ CleanUp
  /\ UNCHANGED <<options, bonds, radio, selection, progress, linksVars, failed, passed>>

CleanUpStepFails ==
  /\ failed' = TRUE /\ cancelled' \in {cancelled, TRUE}

StopAdvertising ==
  /\ stage = "stopAdvertising"
  /\ \/ advertising' = FALSE /\ UNCHANGED <<failed, cancelled>>
     \/ advertising' \in {advertising, FALSE} /\ CleanUpStepFails
  /\ Goto("powerOff")
  /\ UNCHANGED <<options, bonds, channel, lost, poweredOn, selection, progress, linksVars, passed>>

\* An end of the radio ends the connections, and the pairings not yet through.
LinksEnd ==
  /\ until' = [c \in Connection |-> IF until[c] = "up" THEN stage ELSE until[c]]
  /\ pairing' = [c \in Connection |-> IF pairing[c] = "done" THEN "done" ELSE "none"]
  /\ UNCHANGED <<count, peer, encrypted>>

PowerOffRadio ==
  /\ stage = "powerOff"
  /\ \/ LinksEnd /\ UNCHANGED <<failed, cancelled>>
     \/ UNCHANGED linksVars /\ CleanUpStepFails
  /\ Goto("close")
  /\ UNCHANGED <<options, bonds, radio, selection, progress, passed>>

\* If the transport cannot be closed, or not in time, its socket is.  A probe with
\* cleanup_failures has not passed.
CloseTransport ==
  /\ stage = "close"
  /\ \/ channel' = FALSE /\ UNCHANGED <<failed, cancelled>>
     \/ channel' \in BOOLEAN /\ CleanUpStepFails
  /\ IF channel' THEN UNCHANGED <<advertising, linksVars>>
                 ELSE advertising' = FALSE /\ LinksEnd
  /\ passed' = (passed /\ ~failed')
  /\ Goto("over")
  /\ UNCHANGED <<options, bonds, lost, poweredOn, selection, progress>>

-----------------------------------------------------------------------------
(* The radio: phones, and the tasks of the stack *)

OnAir == channel /\ ~lost /\ stage # "over"

\* The controller advertises no more.  select_enrollment_connection takes the first
\* connection, and the listener of _wait_connection the first after it listens.
PhoneConnects(p) ==
  /\ OnAir /\ advertising /\ count <= Cycles
  /\ \A c \in Connection : Active(c) => peer[c] # p
  /\ advertising' = FALSE
  /\ count' = count + 1
  /\ peer' = [peer EXCEPT ![count'] = p] /\ until' = [until EXCEPT ![count'] = "up"]
  /\ IF available /\ enrollment = None /\ stage \in InCycle \cup Held
       THEN enrollment' = count' /\ available' = FALSE
       ELSE UNCHANGED selection
  /\ heard' = IF stage = "listen" /\ heard = None THEN count' ELSE heard
  /\ UNCHANGED <<stage, options, bonds, channel, lost, poweredOn, cycle, connection, enrolling,
                 held, encrypted, pairing, report>>

\* A dialog ends with its connection, but keys that were exchanged are still saved.
PhoneVanishes(c) ==
  /\ OnAir /\ Active(c)
  /\ until' = [until EXCEPT ![c] = stage]
  /\ pairing' = [pairing EXCEPT ![c] = IF @ \in {"keys", "done"} THEN @ ELSE "none"]
  /\ UNCHANGED <<stage, options, bonds, radio, selection, progress, count, peer, encrypted, report>>

\* The phone has the bond's key.
PhoneEncrypts(c) ==
  /\ OnAir /\ Active(c) /\ Bonded(c)
  /\ encrypted' = [encrypted EXCEPT ![c] = TRUE]
  /\ UNCHANGED <<stage, options, bonds, radio, selection, progress, count, peer, until, pairing, report>>

Pairs(c, from, to) ==
  /\ OnAir /\ Active(c) /\ pairing[c] \in from
  /\ pairing' = [pairing EXCEPT ![c] = to]
  /\ UNCHANGED <<stage, options, bonds, radio, selection, progress, count, peer, until, report>>

\* _EnrollmentPairingDelegate._allowed
Allowed(c) == enrollment = c

\* accept
AcceptPairing(c) ==
  /\ Allowed(c)
  /\ Pairs(c, {"none", "done"}, "accepted") /\ UNCHANGED encrypted

\* compare_numbers: asked again before a number is shown.  Any other method is refused.
CompareNumbers(c) ==
  /\ Pairs(c, {"accepted"}, IF Allowed(c) THEN "shown" ELSE "none") /\ UNCHANGED encrypted

\* _terminal_confirm_pairing: yes; no, too late or no terminal.
AnswerComparison(c) ==
  /\ \E to \in {"confirmed", "none"} : Pairs(c, {"shown"}, to)
  /\ UNCHANGED encrypted

\* The phone agrees: the link is encrypted, and keys are exchanged.
PairingEncrypts(c) ==
  /\ Pairs(c, {"confirmed"}, "keys")
  /\ encrypted' = [encrypted EXCEPT ![c] = TRUE]

\* A task of its own writes the keystore.
SaveBond(c) ==
  /\ OnAir /\ pairing[c] = "keys"
  /\ bonds' = bonds \cup {peer[c]} /\ pairing' = [pairing EXCEPT ![c] = "done"]
  /\ UNCHANGED <<stage, options, radio, selection, progress, count, peer, until, encrypted, report>>

\* _receive_available: the socket has failed.
LoseTransport ==
  /\ OnAir
  /\ lost' = TRUE /\ LinksEnd
  /\ UNCHANGED <<stage, options, bonds, channel, poweredOn, advertising, selection, progress, report>>

-----------------------------------------------------------------------------

\* The lab's next run finds the keystore as this one has left it, and nothing else.
NextRun ==
  /\ stage = "over" /\ Goto("idle") /\ UNCHANGED bonds
  /\ cycle' = 1 /\ enroll' \in BOOLEAN /\ profile' \in BOOLEAN
  /\ channel' = FALSE /\ lost' = FALSE /\ poweredOn' = FALSE /\ advertising' = FALSE
  /\ available' = FALSE /\ enrollment' = None
  /\ heard' = None /\ connection' = None /\ enrolling' = FALSE
  /\ held' = [n \in Connection |-> None]
  /\ count' = 0 /\ peer' = [c \in Connection |-> None] /\ until' = [c \in Connection |-> "new"]
  /\ encrypted' = [c \in Connection |-> FALSE] /\ pairing' = [c \in Connection |-> "none"]
  /\ failed' = FALSE /\ cancelled' = FALSE /\ passed' = FALSE

MainNext ==
  \/ NextRun \/ StartProbe \/ OpenTransport \/ PowerOnRadio \/ ReadKeys \/ StartAdvertising \/ Look \/ Hear
  \/ LookUpBond \/ RefuseStranger \/ WaitEncrypted \/ WaitBondSaved \/ PrepareService
  \/ BeginHold \/ HoldElapses \/ StopProfile \/ HangUp \/ ProbeFails \/ CancelProbe
  \/ StopAdvertising \/ PowerOffRadio \/ CloseTransport

RadioNext ==
  \/ \E p \in Phone : PhoneConnects(p)
  \/ \E c \in Connection :
       \/ PhoneVanishes(c) \/ PhoneEncrypts(c) \/ AcceptPairing(c) \/ CompareNumbers(c)
       \/ AnswerComparison(c) \/ PairingEncrypts(c) \/ SaveBond(c)
  \/ LoseTransport

ProbeNext == MainNext \/ RadioNext

ProbeSpec == ProbeInit /\ [][ProbeNext]_probeVars

-----------------------------------------------------------------------------

\* A probe bonds with one phone: the first to connect in an enrollment that found the
\* keystore empty; whoever connects then, or pairs again, gets no bond.  (radio.py
\* 103-116, 826-842, 908-932; ble_lab.py 131-135: no test bond is overwritten)
OnePhone == \A p, q \in bonds : p = q

\* What a probe reports that has passed: it was not cancelled, has closed the channel,
\* and in every cycle it held, to the end of the hold, an encrypted connection of its
\* own to the bonded phone.  (radio.py 934-992, 1015-1033; exit status 0 in ble_lab.py
\* 169-171)
PassIsTrue ==
  passed /\ stage = "over" =>
    /\ ~cancelled /\ ~channel
    /\ \A n \in 1..(Cycles + 1) :
         /\ held[n] \in Connection
         /\ encrypted[held[n]] /\ Bonded(held[n])
         /\ until[held[n]] \notin InCycle
         /\ \A m \in 1..(n - 1) : held[m] # held[n]

=============================================================================
