------------------------------ MODULE MgmtLink ------------------------------
(***************************************************************************)
(* MgmtLink (src/experiments/iphone_ble/coexist_link.py): one MGMT socket  *)
(* for all tasks of a program.  A reply says which command it is to by its *)
(* opcode only, so commands take turns under a lock, and one that is not   *)
(* answered in time takes the channel with it.  Disconnect events arrive   *)
(* over the same socket, in order with the replies.                        *)
(***************************************************************************)
EXTENDS SequencesExt

CONSTANTS Task,    \* that send commands
          Link     \* connections of the controller

VARIABLES
  closed,     \* no command gets through any more
  queue,      \* the lock: the task whose command is out, then those who wait
  replies,    \* in the socket: whose command each is to, and the links it tells
  events,     \* links whose disconnect events are in it
  links       \* the controller's connections

linkVars == <<closed, queue, replies, events>>

LinkTypeOK ==
  /\ closed \in BOOLEAN
  /\ queue \in Seq(Task) /\ replies \in Seq([to: Task, links: SUBSET Link])
  /\ events \subseteq Link /\ links \subseteq Link

OpenAnd(q) == closed' = FALSE /\ queue' = q /\ replies' = <<>> /\ events' = {}

\* Those who wait find it closed; what is in the socket is lost.
Terminate == closed' = TRUE /\ queue' = <<>> /\ replies' = <<>> /\ events' = {}

\* _command, up to its reply.
Command(t) ==
  /\ queue' = Append(queue, t)
  /\ UNCHANGED <<closed, replies, events>>

\* The kernel has the command of the task whose turn it is.
Answers ==
  /\ queue # <<>> /\ \A i \in DOMAIN replies : replies[i].to # Head(queue)
  /\ replies' = Append(replies, [to |-> Head(queue), links |-> links])
  /\ UNCHANGED <<closed, queue, events, links>>

\* The socket is read until it is empty; the first reply wakes the task.
Told == Head(replies).links

Wakes(t) ==
  /\ queue # <<>> /\ Head(queue) = t /\ replies # <<>>
  /\ queue' = Tail(queue) /\ replies' = <<>> /\ events' = {}
  /\ UNCHANGED closed

Reads ==
  /\ replies = <<>> /\ events # {}
  /\ events' = {}
  /\ UNCHANGED <<closed, queue, replies>>

\* Mutant: a command that takes too long is only given up.
GivesUpAlone(t) ==
  /\ queue # <<>> /\ Head(queue) = t
  /\ queue' = Tail(queue)
  /\ UNCHANGED <<closed, replies, events>>

\* Mutant: no time limit; it is given up when the channel is gone.
GivesUpClosed(t) ==
  /\ queue # <<>> /\ Head(queue) = t /\ closed
  /\ Terminate

\* COMMAND_TIMEOUT, a cancellation, a failed send or a reply that makes no sense.
GivesUp(t) ==
  /\ queue # <<>> /\ Head(queue) = t
  /\ Terminate

\* Nobody looks at the events any more.
Unheeded == events' = {} /\ UNCHANGED <<closed, queue, replies>>

\* A task no longer waits for its turn.
Leaves(t) ==
  /\ \E i \in DOMAIN queue \ {1} : queue[i] = t /\ queue' = RemoveAt(queue, i)
  /\ events' = {} /\ UNCHANGED <<closed, replies>>

\* An event that nobody will look at is left out.
Changes(l, heeded) ==
  /\ links' = IF l \in links THEN links \ {l} ELSE links \cup {l}
  /\ events' = IF l \in links /\ heeded /\ ~closed THEN events \cup {l} ELSE events
  /\ UNCHANGED <<closed, queue, replies>>

\* No command is answered with another's reply (coexist_link.py:193-196, 245-259).
RepliesAreOwn == \A i \in DOMAIN replies : queue # <<>> /\ replies[i].to = Head(queue)
=============================================================================
