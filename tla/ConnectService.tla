--------------------------- MODULE ConnectService ---------------------------
(***************************************************************************)
(* bluetooth-auth-connect.socket and .service                              *)
(* (src/modules/nixos/connect.nix): a datagram on connect.sock makes       *)
(* systemd run one connection attempt.  The attempt never reads the        *)
(* socket; systemd empties it when the service is over (FlushPending).     *)
(* The start and restart of BlueZ and the end of a sleep start the service *)
(* too (src/modules/nixos/auto-connect.nix).  What systemd does is         *)
(* modelled from what these units ask of it.                               *)
(***************************************************************************)
EXTENDS Naturals

CONSTANT MaxInbox     \* datagrams the socket holds

VARIABLES
  socket,    \* "listening", or "running": not watched until the service is over
  inbox,     \* datagrams in it
  service,   \* the attempt runs, has exited, was refused, or there is none
  asked,     \* history: a request was sent since the socket last started it
  waiting    \* history: a request sent while there was no attempt still has none

serviceVars == <<socket, inbox, service, asked, waiting>>

ServiceTypeOK ==
  /\ socket \in {"listening", "running"}
  /\ inbox \in 0..MaxInbox
  /\ service \in {"dead", "attempt", "exited", "refused"}
  /\ asked \in BOOLEAN /\ waiting \in BOOLEAN

ServiceInit ==
  /\ socket = "listening" /\ inbox = 0
  /\ service = "dead"
  /\ asked = FALSE /\ waiting = FALSE

-----------------------------------------------------------------------------

\* link --connect -1 sends one byte without waiting; a full socket is an error.
SendRequest ==
  /\ IF inbox < MaxInbox
     THEN /\ inbox' = inbox + 1
          /\ asked' = TRUE
          /\ waiting' = (waiting \/ service = "dead")
     ELSE UNCHANGED <<inbox, asked, waiting>>
  /\ UNCHANGED <<socket, service>>

\* The service requires bluetooth.service, which may not come up.
Start ==
  /\ service = "dead"
  /\ service' \in {"attempt", "refused"}
  /\ waiting' = FALSE

\* Accept=false: one service, however many datagrams there are; if it is
\* running already, for whatever reason, the socket waits for its end.
SocketTriggers ==
  /\ socket = "listening" /\ inbox > 0
  /\ socket' = "running"
  /\ \/ Start /\ asked' = FALSE
     \/ service # "dead" /\ UNCHANGED <<service, asked, waiting>>
  /\ UNCHANGED inbox

\* The start of BlueZ, or the end of a sleep: no second service either.
EventStarts ==
  /\ Start
  /\ UNCHANGED <<socket, inbox, asked>>

\* Within timeout_ms, or TimeoutStartSec kills it; Restart=no.
AttemptEnds ==
  /\ service = "attempt"
  /\ service' = "exited"
  /\ UNCHANGED <<socket, inbox, asked, waiting>>

\* Mutant: FlushPending=false.
ServiceOverUnflushed ==
  /\ service \in {"exited", "refused"}
  /\ service' = "dead" /\ socket' = "listening"
  /\ UNCHANGED <<inbox, asked, waiting>>

\* Mutant: the socket stops with its service (as after a hit trigger limit).
ServiceOverForGood ==
  /\ service \in {"exited", "refused"}
  /\ service' = "dead"
  /\ inbox' = IF socket = "running" THEN 0 ELSE inbox
  /\ UNCHANGED <<socket, asked, waiting>>

\* systemd notices the end; a socket that waited for it is flushed and listens.
ServiceOver ==
  /\ service \in {"exited", "refused"}
  /\ service' = "dead"
  /\ IF socket = "running"
     THEN socket' = "listening" /\ inbox' = 0
     ELSE UNCHANGED <<socket, inbox>>
  /\ UNCHANGED <<asked, waiting>>

ServiceNext == SocketTriggers \/ EventStarts \/ AttemptEnds \/ ServiceOver

-----------------------------------------------------------------------------

\* The socket starts an attempt only if somebody asked since the last one it
\* started: an attempt never leaves behind what would start the next, although
\* no program ever reads the socket (connect.nix:53-62).
StartedOnDemand == [][
  socket = "listening" /\ socket' = "running" /\ service = "dead" => asked]_serviceVars

\* A request sent while there is no attempt is followed by one, or by a refused
\* start; failures before it do not count (connect.nix:48-75, link.rs:55-59).
RequestServed == waiting ~> ~waiting
=============================================================================
