--------------------------- MODULE SharedAdapter ----------------------------
(***************************************************************************)
(* The whole of what contends for hci0: connection attempts                *)
(* (ConnectAttempt) and the manual pairing helper (HidServer), through the *)
(* same lock file and the same BlueZ.  A pairing run keeps the lock until  *)
(* somebody stops it, which may be never.                                  *)
(***************************************************************************)
EXTENDS ConnectAttempt

CONSTANT Server

ASSUME SharedAssumption == Server \subseteq Holder \ Client

VARIABLES spc, at, saved, failed, ask, signalled, broken, exit, settings, home

Pairing == INSTANCE HidServer

pairingVars == <<spc, at, saved, failed, ask, signalled, broken, exit, settings, home>>
sharedVars  == <<vars, pairingVars>>

SharedInit == Init /\ Pairing!ServerInit

\* BlueZ has nothing to register on while hci0 is absent.
PairingStep ==
  /\ Pairing!ServerNext
  /\ adapter = "absent" => hid' \subseteq hid /\ adv' \subseteq adv
  /\ UNCHANGED <<clientVars, envVars>>

SharedNext ==
  \/ Next /\ UNCHANGED pairingVars
  \/ PairingStep

SharedSpec == SharedInit /\ [][SharedNext]_sharedVars

\* Time passes, and a client that is due runs, whatever the pairing run does.
SharedFairness ==
  /\ WF_sharedVars(Tick /\ UNCHANGED pairingVars)
  /\ \A c \in Client : WF_sharedVars(Prompt(c) /\ UNCHANGED pairingVars)

SharedFairSpec == SharedSpec /\ SharedFairness

\* An unauthenticated pairing application (registered for anyone) and a
\* connection attempt's (for the target only) are never both in BlueZ, and the
\* borrowed settings are never seen by an attempt that has the lock
\* (hid-server.rs:11-17, 48-73; lib.rs:462-476, 526-527).
PairingIsAlone == \A s \in Server :
  s \in hid \cup adv \/ settings # home =>
    /\ \A c \in Client : c \notin hid \cup adv /\ c \notin preparing
    /\ lock \notin Client
=============================================================================
