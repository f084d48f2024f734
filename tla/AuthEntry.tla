------------------------------ MODULE AuthEntry -----------------------------
(***************************************************************************)
(* The ways into an authentication that the phone can pass: the PAM stacks *)
(* of sudo, the locker and greetd (src/modules/nixos/pam-auth.nix) and the *)
(* rule for polkit (src/modules/nixos/polkit-auth.nix).  Each runs         *)
(* bluetooth-auth-link --connect -1, which only looks at the link and, if  *)
(* it is down, asks ConnectService for an attempt nobody waits for; the    *)
(* two modules are checked together here.                                  *)
(*                                                                         *)
(* A stack is a sequence of rules; the result of a rule may skip others.   *)
(***************************************************************************)
EXTENDS Naturals, Sequences

CONSTANTS MaxInbox,
          Action,          \* polkit actions
          AllowedActions   \* those the README lets the phone authorize

ASSUME InboxAssumption == MaxInbox \in Nat \ {0}

VARIABLES
  request,   \* the authentication that goes on, or went on last
  at,        \* the rule it is at; 0: none goes on
  outcome,   \* how it was decided: by the "phone", or in the "ordinary" way
  linkUp,    \* the phone's link is up and encrypted
  socket, inbox, service, asked, waiting

Service == INSTANCE ConnectService

authVars    == <<request, at, outcome>>
serviceVars == <<socket, inbox, service, asked, waiting>>
entryVars   == <<authVars, linkUp, serviceVars>>

User == {"trusted", "other"}

PamRequest == [entry: {"sudo", "locker"}, user: User, ruser: User]
PolkitRequest == [entry: {"polkit"}, user: User, activeLocal: BOOLEAN, action: Action]
Request == PamRequest \cup PolkitRequest

AuthInit ==
  /\ request \in Request /\ at = 0 /\ outcome = "ordinary"
  /\ linkUp \in BOOLEAN
  /\ Service!ServiceInit

-----------------------------------------------------------------------------

\* The rules, sorted by their order; "password" stands for all that was there
\* before, which may accept or deny.
Rules(entry) ==
  CASE entry = "sudo"   -> <<"user", "ruser", "phone", "password">>
    [] entry = "locker" -> <<"user", "phone", "password">>
    [] entry = "polkit" -> <<"subject", "phone", "password">>

Holds(rule) ==
  CASE rule = "user"    -> request.user = "trusted"
    [] rule = "ruser"   -> request.ruser = "trusted"
    [] rule = "subject" -> request.user = "trusted" /\ request.activeLocal

\* Mutant: the ruser rule has the control of sudo's user rule.
SkippedByRuser(rule) ==
  IF request.entry = "sudo"
  THEN IF Holds(rule) THEN 1 ELSE 0
  ELSE IF Holds(rule) THEN 0 ELSE 1

\* How many rules the result of a test skips: sudo's first test may pass over
\* the second; any other failed test passes over the phone.
Skipped(rule) ==
  IF rule = "user" /\ request.entry = "sudo"
  THEN IF Holds(rule) THEN 1 ELSE 0
  ELSE IF Holds(rule) THEN 0 ELSE 1

Rule == Rules(request.entry)[at]

\* No result skips past the end of a stack: ordinary authentication remains.
AuthTypeOK ==
  /\ Service!ServiceTypeOK
  /\ request \in Request /\ at \in 0..Len(Rules(request.entry))
  /\ outcome \in {"phone", "ordinary"} /\ linkUp \in BOOLEAN

Authenticate ==
  /\ at = 0
  /\ request' \in Request
  /\ at' = 1
  /\ UNCHANGED <<outcome, linkUp, serviceVars>>

TestSubject ==
  /\ at > 0 /\ Rule \in {"user", "ruser", "subject"}
  /\ at' = at + 1 + Skipped(Rule)
  /\ UNCHANGED <<request, outcome, linkUp, serviceVars>>

\* bluetooth-auth-link: an encrypted link passes; none asks for an attempt; a
\* failed query or an unreadable address only fails.
TestPhone ==
  /\ at > 0 /\ Rule = "phone"
  /\ \/ linkUp /\ outcome' = "phone" /\ at' = 0 /\ UNCHANGED serviceVars
     \/ ~linkUp /\ Service!SendRequest /\ at' = at + 1 /\ UNCHANGED outcome
     \/ at' = at + 1 /\ UNCHANGED <<outcome, serviceVars>>
  /\ UNCHANGED <<request, linkUp>>

TestPassword ==
  /\ at > 0 /\ Rule = "password"
  /\ outcome' = "ordinary"
  /\ at' = 0
  /\ UNCHANGED <<request, linkUp, serviceVars>>

\* An attempt of the service may bring the link up; it may go at any time.
Serving(A) ==
  /\ A
  /\ linkUp' \in IF service = "attempt" THEN {linkUp, TRUE} ELSE {linkUp}
  /\ UNCHANGED authVars

LinkLost ==
  /\ linkUp /\ linkUp' = FALSE
  /\ UNCHANGED <<authVars, serviceVars>>

AuthNext ==
  \/ Authenticate \/ TestSubject \/ TestPhone \/ TestPassword
  \/ Serving(Service!ServiceNext) \/ LinkLost

AuthSpec == AuthInit /\ [][AuthNext]_entryVars

\* systemd reacts to datagrams and to the end of the attempt, whose time is
\* limited.  Nobody needs to authenticate, and no sleep needs to end.
AuthFairness ==
  /\ WF_entryVars(Serving(Service!SocketTriggers))
  /\ WF_entryVars(Serving(Service!AttemptEnds))
  /\ WF_entryVars(Serving(Service!ServiceOver))

-----------------------------------------------------------------------------

\* The phone passes an authentication only for its owner: the user being
\* authenticated, the user who calls sudo, or the user of an active local
\* session (pam-auth.nix:19-58, polkit-auth.nix:30-37).
PhoneOnlyForTrusted == at = 0 /\ outcome = "phone" =>
  CASE request.entry = "sudo"   -> "trusted" \in {request.user, request.ruser}
    [] request.entry = "locker" -> request.user = "trusted"
    [] request.entry = "polkit" -> request.user = "trusted" /\ request.activeLocal

\* README.md:126 says of polkit: it "additionally requires ... an action in
\* auth.polkit.allowedActions".  The rule does not look at the action.
OnlyAllowedActions ==
  at = 0 /\ outcome = "phone" /\ request.entry = "polkit" => request.action \in AllowedActions

\* The properties of the socket and its service (connect.nix:48-89).
StartedOnDemand == Service!StartedOnDemand
RequestServed   == Service!RequestServed
=============================================================================
