---------------------------- MODULE PowerMonitor ----------------------------
(***************************************************************************)
(* bluetooth-auth-power-monitor (src/src/bin/bluetooth-auth-power-         *)
(* monitor.rs) and its unit (src/modules/nixos/auto-connect.nix): one      *)
(* connection attempt whenever hci0 is powered on.  It subscribes, claims  *)
(* its bus name, and only then does systemd start BlueZ; while an attempt  *)
(* runs it reads nothing, and signals wait in its connection.              *)
(***************************************************************************)
EXTENDS Naturals, Sequences

CONSTANT MaxSignals    \* bound: signals waiting in the connection

ASSUME SignalsAssumption == MaxSignals \in Nat \ {0}

VARIABLES
  monitor,      \* where the program is
  subscribed,   \* its match is installed
  signals,      \* PropertiesChanged of hci0 it has not read: Powered or not
  bluez,        \* bluetoothd runs
  powered,      \* hci0 is on
  owed          \* history: a power-on the ready monitor has not acted upon

monitorVars == <<monitor, subscribed, signals, bluez, powered, owed>>

Starting == {"connected", "subscribing"}
Ready    == {"idle", "attempt"}

MonitorTypeOK ==
  /\ monitor \in {"down"} \cup Starting \cup Ready
  /\ subscribed \in BOOLEAN /\ bluez \in BOOLEAN /\ powered \in BOOLEAN /\ owed \in BOOLEAN
  /\ signals \in Seq({"on", "other"}) /\ Len(signals) <= MaxSignals

\* At boot both units are being started, the monitor before BlueZ.
MonitorInit ==
  /\ monitor = "connected" /\ subscribed = FALSE /\ signals = <<>>
  /\ bluez = FALSE /\ powered = FALSE /\ owed = FALSE

-----------------------------------------------------------------------------

\* An error ends the program; systemd starts it again after RestartSec.
MonitorFails ==
  /\ monitor # "down"
  /\ monitor' = "down" /\ subscribed' = FALSE /\ signals' = <<>> /\ owed' = FALSE
  /\ UNCHANGED <<bluez, powered>>

MonitorRestarts ==
  /\ monitor = "down"
  /\ monitor' = "connected"
  /\ UNCHANGED <<subscribed, signals, bluez, powered, owed>>

AddMatch ==
  /\ monitor = "connected"
  /\ subscribed' = TRUE
  /\ monitor' = "subscribing"
  /\ UNCHANGED <<signals, bluez, powered, owed>>

\* Mutant: the name is claimed first.
RequestNameFirst ==
  /\ monitor \in Starting
  /\ monitor' = "idle"
  /\ UNCHANGED <<subscribed, signals, bluez, powered, owed>>

RequestName ==
  /\ monitor = "subscribing"
  /\ monitor' = "idle"
  /\ UNCHANGED <<subscribed, signals, bluez, powered, owed>>

\* Anything but Powered becoming true is read and forgotten.
ReadSignal ==
  /\ monitor = "idle" /\ signals # <<>>
  /\ signals' = Tail(signals)
  /\ IF Head(signals) = "on"
     THEN monitor' = "attempt" /\ owed' = FALSE
     ELSE UNCHANGED <<monitor, owed>>
  /\ UNCHANGED <<subscribed, bluez, powered>>

\* query_or_connect returns; an error is only logged.
MonitorAttemptEnds ==
  /\ monitor = "attempt"
  /\ monitor' = "idle"
  /\ UNCHANGED <<subscribed, signals, bluez, powered, owed>>

-----------------------------------------------------------------------------
(* BlueZ.                                                                  *)

\* bluetooth.service waits for a monitor that is being started.
BluezStarts ==
  /\ ~bluez /\ monitor \notin Starting
  /\ bluez' = TRUE
  /\ UNCHANGED <<monitor, subscribed, signals, powered, owed>>

BluezStops ==
  /\ bluez
  /\ bluez' = FALSE /\ powered' = FALSE
  /\ UNCHANGED <<monitor, subscribed, signals, owed>>

Emit(signal) ==
  IF subscribed
  THEN Len(signals) < MaxSignals /\ signals' = Append(signals, signal)
  ELSE UNCHANGED signals

PowerOn ==
  /\ bluez /\ ~powered
  /\ powered' = TRUE
  /\ Emit("on")
  /\ owed' = (owed \/ monitor \in Ready)
  /\ UNCHANGED <<monitor, subscribed, bluez>>

PowerOff ==
  /\ bluez /\ powered
  /\ powered' = FALSE
  /\ Emit("other")
  /\ UNCHANGED <<monitor, subscribed, bluez, owed>>

OtherProperty ==
  /\ bluez
  /\ Emit("other")
  /\ UNCHANGED <<monitor, subscribed, bluez, powered, owed>>

MonitorNext ==
  \/ MonitorFails \/ MonitorRestarts \/ AddMatch \/ RequestName
  \/ ReadSignal \/ MonitorAttemptEnds
  \/ BluezStarts \/ BluezStops \/ PowerOn \/ PowerOff \/ OtherProperty

MonitorSpec == MonitorInit /\ [][MonitorNext]_monitorVars

\* An attempt is bounded, and the idle monitor reads what waits.
MonitorFairness == WF_monitorVars(ReadSignal) /\ WF_monitorVars(MonitorAttemptEnds)

-----------------------------------------------------------------------------

\* Every power-on that a ready monitor could see is followed by an attempt of
\* its own or one started after it, though others may come while an attempt
\* runs; only the end of the program cancels it (power-monitor.rs:40-76).
PowerOnServed == owed ~> ~owed
=============================================================================
