------------------------------ MODULE LinkQuery -----------------------------
(***************************************************************************)
(* query_connection (src/src/lib.rs:364-414): does the kernel's connection *)
(* list of hci0 hold one encrypted LE link to the phone?  The list is      *)
(* copied into a buffer of Capacity entries, so what the query sees may be *)
(* cut off.  ConnectAttempt takes its Observation from what is shown here. *)
(***************************************************************************)
EXTENDS Naturals, Sequences

CONSTANTS Capacity,   \* entries of the buffer: 512 in the code
          MaxLinks    \* bound: entries of the kernel's list

ASSUME QueryAssumption == Capacity \in Nat /\ MaxLinks \in Nat

VARIABLES present,    \* hci0 exists
          links       \* the kernel's connection list of hci0

queryVars == <<present, links>>

\* An entry: the phone's or another address; LE_LINK or another type;
\* BT_CONNECTED or another state; HCI_LM_ENCRYPT in its link mode or not.
Entry == [target: BOOLEAN, le: BOOLEAN, connected: BOOLEAN, encrypted: BOOLEAN]

Shortest(n, m) == IF n <= m THEN n ELSE m

-----------------------------------------------------------------------------

\* The ioctl copies entries until the list or the buffer is at its end.
Copied(list) == SubSeq(list, 1, Shortest(Len(list), Capacity))

\* Mutant: a Classic link to the phone will do.
IsTargetOnAnyBearer(e) == e.target /\ e.connected

IsTarget(e) == e.target /\ e.le /\ e.connected

\* Mutant: a buffer that is just full is taken for complete.
MayBeCutAfterAll(buffer) == Len(buffer) > Capacity

\* A full buffer may lack entries.
MayBeCut(buffer) == Len(buffer) >= Capacity

Matching(buffer) == { i \in 1..Len(buffer) : IsTarget(buffer[i]) }

QueryConnection(list) ==
  LET buffer  == Copied(list)
      matches == Matching(buffer)
  IN  IF MayBeCut(buffer) \/ \E i, j \in matches : i # j
      THEN "error"
      ELSE IF \E i \in matches : buffer[i].encrypted THEN "yes" ELSE "no"

Query == IF present THEN QueryConnection(links) ELSE "nodev"

-----------------------------------------------------------------------------
(* The kernel.                                                             *)

QueryInit == present \in BOOLEAN /\ links = <<>>

\* A link appears, in any state of its setup.
Appear ==
  /\ present /\ Len(links) < MaxLinks
  /\ \E e \in Entry : links' = Append(links, e)
  /\ UNCHANGED present

\* It is connected, or encrypted, or loses one of these.
Change ==
  /\ \E i \in 1..Len(links), e \in Entry :
       /\ e.target = links[i].target /\ e.le = links[i].le
       /\ links' = [links EXCEPT ![i] = e]
  /\ UNCHANGED present

Vanish ==
  /\ \E i \in 1..Len(links) :
       links' = SubSeq(links, 1, i - 1) \o SubSeq(links, i + 1, Len(links))
  /\ UNCHANGED present

Plug == present' = ~present /\ links' = <<>>

QueryNext == Appear \/ Change \/ Vanish \/ Plug

QuerySpec == QueryInit /\ [][QueryNext]_queryVars

-----------------------------------------------------------------------------

\* An established LE link of the phone, encrypted or not.
PhoneLinks == { i \in 1..Len(links) : links[i].target /\ links[i].le /\ links[i].connected }

\* "Connected" is said only of an encrypted, established LE link of the phone;
\* a Classic link, one still being set up, or one of two of which the other is
\* not encrypted, does not count (lib.rs:399-413).
YesIsEncrypted == Query = "yes" =>
  PhoneLinks # {} /\ \A i \in PhoneLinks : links[i].encrypted

\* "Not connected" is said only if the whole list has no such link: a link that
\* did not fit into the buffer is never overlooked (lib.rs:390-395, 411).
NoIsComplete == Query = "no" => \A i \in PhoneLinks : ~links[i].encrypted
=============================================================================
