------------------------------ MODULE HidSlot -------------------------------
(***************************************************************************)
(* What the processes that share hci0.lock promise one another: there is   *)
(* one slot for working on hci0.  Only its owner prepares or exposes the   *)
(* temporary HID service, and it gives the slot up with nothing in use.    *)
(* A process that dies loses slot and exposure in one step.                *)
(***************************************************************************)
CONSTANTS User, Nobody

VARIABLES owner,    \* who has the slot
          exposed,  \* users with an application or advertisement in BlueZ
          working   \* users whose LE preparation runs

slotVars == <<owner, exposed, working>>

Init == owner = Nobody /\ exposed = {} /\ working = {}

Take(u) ==
  /\ owner = Nobody
  /\ owner' = u
  /\ UNCHANGED <<exposed, working>>

Expose(u) ==
  /\ owner = u
  /\ exposed' = exposed \cup {u}
  /\ UNCHANGED <<owner, working>>

Work(u) ==
  /\ owner = u
  /\ working' = working \cup {u}
  /\ UNCHANGED <<owner, exposed>>

Withdraw(u) ==
  /\ exposed' = exposed \ {u}
  /\ UNCHANGED <<owner, working>>

StopWork(u) ==
  /\ working' = working \ {u}
  /\ UNCHANGED <<owner, exposed>>

Release(u) ==
  /\ owner = u
  /\ u \notin exposed \cup working
  /\ owner' = Nobody
  /\ UNCHANGED <<exposed, working>>

Die(u) ==
  /\ owner = u
  /\ owner' = Nobody
  /\ exposed' = exposed \ {u}
  /\ working' = working \ {u}

\* The adapter disappears, and with it everything exposed on it.
Lose == exposed' = {} /\ UNCHANGED <<owner, working>>

Next ==
  \/ \E u \in User :
       \/ Take(u) \/ Expose(u) \/ Work(u) \/ Withdraw(u)
       \/ StopWork(u) \/ Release(u) \/ Die(u)
  \/ Lose

Spec == Init /\ [][Next]_slotVars

\* Only the owner of the slot is exposed or working: what the steps above
\* promise together.
Exclusive == exposed \cup working \subseteq {owner}
=============================================================================
