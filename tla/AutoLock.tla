------------------------------ MODULE AutoLock ------------------------------
(***************************************************************************)
(* bluetooth-auth-noctalia-auto-lock and its user service                  *)
(* (src/src/bin/bluetooth-auth-noctalia-auto-lock.rs,                      *)
(* src/modules/nixos/noctalia-auto-lock.nix): a loop that locks the        *)
(* session when the phone cannot be reached, and sleeps between its rounds *)
(* by what it last saw.  Meanwhile the user locks and unlocks the session, *)
(* Noctalia comes and goes, and so does the phone.                         *)
(*                                                                         *)
(* query_or_connect is the contract of ConnectAttempt: it takes at most    *)
(* AttemptTime, and answers true only when it sees the link encrypted.     *)
(***************************************************************************)
EXTENDS Naturals

CONSTANTS
  AttemptTime,      \* timeout_ms
  StartupTime,      \* how long the start waits for Noctalia: 30 s
  RestartTime,      \* RestartSec of the service
  UnlockedConnected, UnlockedDisconnected, LockedConnected, LockedDisconnected,
  Bound             \* the longest time to lock a session left alone

Longest(a, b) == IF a >= b THEN a ELSE b

ASSUME TimeAssumption ==
  /\ {AttemptTime, StartupTime, RestartTime} \subseteq Nat
  /\ {UnlockedConnected, UnlockedDisconnected, LockedConnected, LockedDisconnected}
       \subseteq Nat \ {0}
  /\ Bound \in Nat

ASSUME BoundAssumption ==
  /\ Bound >= AttemptTime + LockedDisconnected + AttemptTime
  /\ Bound >= LockedConnected + AttemptTime
  /\ Bound >= UnlockedConnected + AttemptTime
  /\ Bound >= UnlockedDisconnected + AttemptTime
  /\ Bound >= RestartTime + AttemptTime

VARIABLES
  pc,         \* where the service is
  timer,      \* ticks left of what it does there
  believed,   \* session_locked, as it was last read
  locked,     \* Noctalia's session is locked
  noctalia,   \* Noctalia answers
  linked,     \* the phone's link is up and encrypted
  alone       \* history: ticks for which an unlocked session had no phone

envVars == <<noctalia, linked>>
vars    == <<pc, timer, believed, locked, envVars, alone>>

\* Places in which time passes; the others are done at once, 300 ms included.
Timed == {"start", "attempt", "sleep", "failed"}
Place == Timed \cup {"lock", "confirm", "reread"}

TypeOK ==
  /\ pc \in Place
  /\ timer \in Nat
  /\ believed \in BOOLEAN /\ locked \in BOOLEAN
  /\ noctalia \in BOOLEAN /\ linked \in BOOLEAN
  /\ alone \in Nat

Init ==
  /\ pc = "start" /\ timer = StartupTime
  /\ believed = FALSE
  /\ locked \in BOOLEAN /\ noctalia \in BOOLEAN /\ linked \in BOOLEAN
  /\ alone = 0

-----------------------------------------------------------------------------
(* The service.                                                            *)

Exposed == ~locked /\ ~linked /\ noctalia

Interval(isLocked, isConnected) ==
  IF isLocked
  THEN IF isConnected THEN LockedConnected ELSE LockedDisconnected
  ELSE IF isConnected THEN UnlockedConnected ELSE UnlockedDisconnected

GoTo(place, ticks) == pc' = place /\ timer' = ticks

\* The process ends with an error and systemd waits before it starts another.
\* The time this takes is Noctalia's, not the loop's.
Fail == GoTo("failed", RestartTime) /\ alone' = 0 /\ UNCHANGED believed

BeginRound(isLocked) == GoTo("attempt", AttemptTime) /\ believed' = isLocked

\* "Not running" is asked again until the time is over; then, and on any other
\* error, the start fails.
WaitForNoctalia ==
  /\ pc = "start"
  /\ \/ noctalia /\ BeginRound(locked) /\ UNCHANGED alone
     \/ ~noctalia /\ timer = 0 /\ Fail
     \/ noctalia /\ Fail
  /\ UNCHANGED <<locked, envVars>>

\* The attempt: whatever happens to the session meanwhile, the loop goes by
\* what it read before.  An error counts as "not connected".
Attempt ==
  /\ pc = "attempt"
  /\ \E connected \in BOOLEAN :
       /\ connected => linked
       /\ IF believed \/ connected
          THEN GoTo("sleep", Interval(believed, connected))
          ELSE GoTo("lock", 0)
  /\ UNCHANGED <<believed, locked, envVars, alone>>

\* `noctalia msg session lock`: done, taken and not done, or refused.
LockSession ==
  /\ pc = "lock"
  /\ \/ /\ noctalia
        /\ locked' = TRUE \/ UNCHANGED locked
        /\ alone' = 0
        /\ GoTo("confirm", 0)
        /\ UNCHANGED believed
     \/ Fail /\ UNCHANGED locked
  /\ UNCHANGED envVars

Confirm ==
  /\ pc = "confirm"
  /\ \/ /\ noctalia
        /\ believed' = locked
        /\ GoTo("sleep", Interval(locked, FALSE))
        /\ UNCHANGED alone
     \/ Fail
  /\ UNCHANGED <<locked, envVars>>

Wake ==
  /\ pc = "sleep" /\ timer = 0
  /\ GoTo("reread", 0)
  /\ UNCHANGED <<believed, locked, envVars, alone>>

\* Mutant: the loop goes on with what it saw before it slept.
ReadAgainNothing ==
  /\ pc = "reread"
  /\ BeginRound(believed)
  /\ UNCHANGED <<locked, envVars, alone>>

ReadAgain ==
  /\ pc = "reread"
  /\ \/ noctalia /\ BeginRound(locked) /\ UNCHANGED alone
     \/ Fail
  /\ UNCHANGED <<locked, envVars>>

Restart ==
  /\ pc = "failed" /\ timer = 0
  /\ GoTo("start", StartupTime)
  /\ UNCHANGED <<believed, locked, envVars, alone>>

-----------------------------------------------------------------------------
(* The user, Noctalia, the phone and time.                                 *)

Settle(l, n, p) ==
  /\ locked' = l /\ noctalia' = n /\ linked' = p
  /\ alone' = IF Exposed' THEN alone ELSE 0
  /\ UNCHANGED <<pc, timer, believed>>

UserLocksOrUnlocks == noctalia /\ Settle(~locked, noctalia, linked)
NoctaliaChanges    == \E l \in BOOLEAN : Settle(l, ~noctalia, linked)
LinkChanges        == Settle(locked, noctalia, ~linked)

\* Time passes only where the service waits, and not past the end of the wait;
\* a start that can be answered is answered first.
Tick ==
  /\ pc \in Timed /\ timer > 0
  /\ pc = "start" => ~noctalia
  /\ timer' = timer - 1
  /\ alone' = IF Exposed THEN alone + 1 ELSE 0
  /\ UNCHANGED <<pc, believed, locked, envVars>>

Next ==
  \/ WaitForNoctalia \/ Attempt \/ LockSession \/ Confirm \/ Wake \/ ReadAgain
  \/ Restart
  \/ UserLocksOrUnlocks \/ NoctaliaChanges \/ LinkChanges \/ Tick

Spec == Init /\ [][Next]_vars

-----------------------------------------------------------------------------

\* What is left to wait in each place, on top of the time already spent alone:
\* the inductive form of LockedInTime.
Schedule ==
  /\ alone > 0 => Exposed
  /\ pc = "start"   => alone <= RestartTime
  /\ pc = "attempt" => alone + timer <= IF believed THEN AttemptTime ELSE Bound
  /\ pc = "lock"    => alone <= Bound
  /\ pc = "confirm" => alone = 0
  /\ pc = "sleep"   => alone + timer + AttemptTime <= Bound
  /\ pc = "reread"  => alone + AttemptTime <= Bound
  /\ pc = "failed"  => alone + timer <= RestartTime

\* An unlocked session whose phone is away is locked within Bound, as long as
\* Noctalia runs and does what it is told: although the loop acts on a lock
\* state it read before the attempt, and sleeps by it, what it missed is seen
\* in the next round (auto-lock.rs:61-71, 101-108).
LockedInTime == alone <= Bound
=============================================================================
