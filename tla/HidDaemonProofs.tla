-------------------------- MODULE HidDaemonProofs --------------------------
(***************************************************************************)
(* The HID daemon, for any number of callers, unread messages and          *)
(* restarts of BlueZ: a yes is true of the time since the caller asked,    *)
(* and a copy that grants access is either right or about to be put right. *)
(* Both rest on one thing, the order of the bus connection: what a reply   *)
(* says is the state of BlueZ, unless there is news behind it.             *)
(***************************************************************************)
EXTENDS HidDaemon, SequenceTheorems, TLAPS

Kinds == {"state", "connected", "removed", "disconnected", "powered", "owner"}

\* What BlueZ and the bus send by themselves, and the part that is about trust.
News(m)    == m.kind \in Kinds
OfPhone(m) == m.kind \in {"state", "removed"}
OfOwner(m) == m.kind = "owner"

Message ==
  [kind : {"state"}, value : {"trusted", "untrusted"}, from : 1..MaxEpoch]
    \cup [kind : {"connected", "removed", "disconnected", "powered", "released"},
          value : BOOLEAN, from : 1..MaxEpoch]
    \cup [kind : {"owner"}, value : 1..MaxEpoch, from : 1..MaxEpoch]
    \cup [kind : {"reply"}, value : Answers, from : 1..MaxEpoch]
    \cup [kind : {"late"}, value : {None}, from : 1..MaxEpoch]
    \cup [kind : {"ask"}, value : Callers, from : 1..MaxEpoch]

Stages == {"RequestName", "GetNameOwner", "WatchBluez", "WatchOwner", "Recheck",
           "GetManagedObjects", "RegisterApplication", "RegisterAdvertisement",
           "serving", "closing", "ended"}

Types ==
  /\ link \in BOOLEAN /\ phone \in Phone /\ powered \in BOOLEAN
  /\ epoch \in 1..MaxEpoch /\ connection \in BOOLEAN
  /\ stage \in Stages
  /\ call \in {None, "sent", "answered"} /\ reply \in Answers \cup {NoReply}
  /\ inbox \in Seq(Message)
  /\ matches \in 0..2 /\ owner \in 0..MaxEpoch /\ copy \in Phone \cup [state : {"gone"}, connected : BOOLEAN]
  /\ failed \in BOOLEAN
  /\ request \in {None, "running", "true"}
  /\ phase \in {None, "new", "first", "wait", "sleep"}
  /\ query \in {None, "adapter", "phone"}
  /\ adapterOn \in BOOLEAN /\ moved \in BOOLEAN /\ dropped \in BOOLEAN
  /\ answer \in [Callers -> {"no", "sent", "joined", "true"}]
  /\ seen \subseteq Callers /\ held \subseteq Callers /\ refreshed \in BOOLEAN
  /\ (request = "running") <=> (phase # None)
  /\ request = "running" => stage = "serving"
  /\ query # None <=> phase \in {"first", "wait"}

-----------------------------------------------------------------------------

LEMMA StagesAre ==
  Opening = {"RequestName", "GetNameOwner", "WatchBluez", "WatchOwner", "Recheck",
             "GetManagedObjects", "RegisterApplication", "RegisterAdvertisement"}
BY DEF Opening, OpenCalls

LEMMA StageAfter ==
  /\ After("RequestName") = "GetNameOwner" /\ After("GetNameOwner") = "WatchBluez"
  /\ After("WatchBluez") = "WatchOwner" /\ After("WatchOwner") = "Recheck"
  /\ After("Recheck") = "GetManagedObjects"
  /\ After("GetManagedObjects") = "RegisterApplication"
  /\ After("RegisterApplication") = "RegisterAdvertisement"
  /\ After("RegisterAdvertisement") = "serving"
<1>1. DOMAIN OpenCalls = 1..8 /\ Len(OpenCalls) = 8
  BY DEF OpenCalls
<1>2. ASSUME NEW i \in 1..8 PROVE (CHOOSE j \in DOMAIN OpenCalls : OpenCalls[j] = OpenCalls[i]) = i
  <2>1. \A j \in 1..8 : OpenCalls[j] = OpenCalls[i] => j = i
    BY DEF OpenCalls
  <2>2. QED
    BY <1>1, <2>1
<1>3. ASSUME NEW i \in 1..8 PROVE After(OpenCalls[i]) = IF i = 8 THEN "serving" ELSE OpenCalls[i + 1]
  <2> DEFINE found == CHOOSE j \in DOMAIN OpenCalls : OpenCalls[j] = OpenCalls[i]
  <2>1. After(OpenCalls[i]) = IF found = Len(OpenCalls) THEN "serving" ELSE OpenCalls[found + 1]
    BY Zenon DEF After
  <2>2. found = i
    BY <1>2
  <2> HIDE DEF found
  <2>3. QED
    BY <1>1, <2>1, <2>2
<1>4. QED
  BY <1>3 DEF OpenCalls

\* The shapes a step gives the inbox.
LEMMA InboxIs ==
  ASSUME Types
  PROVE  /\ DOMAIN inbox = 1..Len(inbox) /\ Len(inbox) \in Nat
         /\ \A i \in 1..Len(inbox) : inbox[i] \in Message
BY DEF Types

LEMMA Posted ==
  ASSUME Types, NEW ms \in Seq(Message), inbox' = inbox \o ms
  PROVE  /\ inbox' \in Seq(Message)
         /\ DOMAIN inbox' = 1..(Len(inbox) + Len(ms))
         /\ Len(inbox') = Len(inbox) + Len(ms)
         /\ \A i \in 1..Len(inbox) : inbox'[i] = inbox[i]
         /\ \A i \in 1..Len(ms) : inbox'[Len(inbox) + i] = ms[i]
BY ConcatProperties DEF Types

LEMMA Appended ==
  ASSUME Types, NEW m \in Message, inbox' = Append(inbox, m)
  PROVE  /\ inbox' \in Seq(Message)
         /\ DOMAIN inbox' = 1..(Len(inbox) + 1)
         /\ Len(inbox') = Len(inbox) + 1
         /\ \A i \in 1..Len(inbox) : inbox'[i] = inbox[i]
         /\ inbox'[Len(inbox) + 1] = m
BY AppendProperties DEF Types

LEMMA Taken ==
  ASSUME Types, inbox # <<>>, inbox' = Tail(inbox)
  PROVE  /\ inbox' \in Seq(Message)
         /\ Len(inbox) >= 1 /\ Head(inbox) = inbox[1] /\ inbox[1] \in Message
         /\ DOMAIN inbox' = 1..(Len(inbox) - 1)
         /\ Len(inbox') = Len(inbox) - 1
         /\ \A i \in 1..(Len(inbox) - 1) : inbox'[i] = inbox[i + 1]
BY HeadTailProperties, EmptySeq DEF Types

LEMMA Marked ==
  ASSUME Types, inbox' = [i \in DOMAIN inbox |-> Late(inbox[i])]
  PROVE  /\ inbox' \in Seq(Message)
         /\ DOMAIN inbox' = DOMAIN inbox /\ Len(inbox') = Len(inbox)
         /\ \A i \in 1..Len(inbox) : /\ inbox'[i] = Late(inbox[i])
                                     /\ inbox[i].kind # "reply" => inbox'[i] = inbox[i]
                                     /\ inbox'[i].kind # "reply"
                                     /\ inbox[i].kind = "reply" => inbox'[i].kind = "late"
<1>1. \A m \in Message : Late(m) \in Message /\ Late(m).kind # "reply" /\ (m.kind # "reply" => Late(m) = m)
                         /\ (m.kind = "reply" => Late(m).kind = "late")
  BY DEF Message, Late, None
<1>2. DOMAIN inbox = 1..Len(inbox) /\ Len(inbox) \in Nat /\ \A i \in 1..Len(inbox) : inbox[i] \in Message
  BY InboxIs
<1>3. inbox' \in [1..Len(inbox) -> Message]
  BY <1>1, <1>2
<1>4. inbox' \in Seq(Message) /\ Len(inbox') = Len(inbox)
  BY <1>2, <1>3
<1>5. QED
  BY <1>1, <1>2, <1>3, <1>4

-----------------------------------------------------------------------------
(* What is true of the messages and the calls at any time.                 *)

Rules ==
  /\ stage \in {"RequestName", "GetNameOwner"} => matches = 0
  /\ stage = "WatchBluez" => matches = IF call = "sent" THEN 0 ELSE 1
  /\ stage = "WatchOwner" => matches = IF call = "sent" THEN 1 ELSE 2
  /\ stage \in {"Recheck", "GetManagedObjects", "RegisterApplication", "RegisterAdvertisement",
                "serving", "closing"} => matches = 2
  /\ stage \notin {"RequestName", "GetNameOwner", "ended"} => owner # 0
  /\ owner <= epoch

\* One call at a time, and one reply.
Calls ==
  /\ reply # NoReply => call = None /\ reply.owner <= epoch
  /\ \A i \in 1..Len(inbox) : inbox[i].kind = "reply" => call = "answered" /\ inbox[i].value.owner <= epoch
  /\ \A i, k \in 1..Len(inbox) : inbox[i].kind = "reply" /\ inbox[k].kind = "reply" => i = k
  /\ stage \notin Opening /\ query = None => call = None /\ reply = NoReply

\* News comes with a rule, from the bluetoothd known or a later one; trust that has been
\* announced is there, or its end has been announced as well.
NewsIs ==
  /\ \A i \in 1..Len(inbox) :
       News(inbox[i]) => matches >= 1 /\ owner <= inbox[i].from /\ inbox[i].from <= epoch
  /\ \A i \in 1..Len(inbox) : OfOwner(inbox[i]) => inbox[i].value > owner
  /\ \A i \in 1..Len(inbox) :
       inbox[i].kind = "state" /\ inbox[i].value = "trusted" =>
         phone.state = "trusted" \/ \E k \in 1..Len(inbox) : k > i /\ OfPhone(inbox[k])

\* Each caller has one call under way.
AsksAre ==
  /\ \A i \in 1..Len(inbox) : inbox[i].kind = "ask" => answer[inbox[i].value] = "sent"
  /\ \A i, k \in 1..Len(inbox) :
       inbox[i].kind = "ask" /\ inbox[k].kind = "ask" /\ inbox[i].value = inbox[k].value => i = k
  /\ ~OnBus => inbox = <<>> /\ Pending = {}

\* A caller has seen what is the case.
Remembered == \A c \in Pending : (link => c \in seen) /\ (BluezHolds => c \in held)

Base == Types /\ Rules /\ Calls /\ NewsIs /\ AsksAre /\ Remembered

-----------------------------------------------------------------------------
(* The world.                                                              *)

WorldChanges ==
  \/ LinkChanges \/ ConnectedChanges \/ TrustChanges \/ PhoneRemoved \/ PowerChanges
  \/ BluezRestarts

\* What all of its steps have in common: nothing changes without news of it.
Heard(ms) ==
  /\ Watched
  /\ inbox' = inbox \o ms
  /\ Len(ms) >= 1 => Len(inbox) + Len(ms) <= MaxInbox
  /\ \A i \in 1..Len(ms) :
       /\ News(ms[i]) /\ ms[i].from = epoch /\ matches >= 1
       /\ OfOwner(ms[i]) => ms[i].value = epoch + 1
       /\ ms[i].kind = "state" /\ ms[i].value = "trusted" => phone'.state = "trusted"
  /\ matches >= 1 /\ (phone' # phone \/ powered' # powered) => Len(ms) >= 1
  /\ matches >= 1 /\ phone'.state # phone.state => \E i \in 1..Len(ms) : OfPhone(ms[i])
  /\ \/ epoch' = epoch
     \/ epoch' = epoch + 1 /\ (matches = 2 => \E i \in 1..Len(ms) : OfOwner(ms[i]))
  /\ link' \in BOOLEAN /\ phone' \in Phone /\ powered' \in BOOLEAN /\ epoch' \in 1..MaxEpoch

LEMMA WorldIsHeard ==
  ASSUME Types, WorldChanges
  PROVE  WorldOnly /\ \E ms \in Seq(Message) : Heard(ms)
<1> USE DaemonAssumption DEF News, OfPhone, OfOwner, Kinds
<1>0. ASSUME NEW rule \in {BluezRule, OwnerRule}, NEW ms, Announce(rule, ms)
      PROVE  /\ Watched
             /\ \/ matches >= rule /\ inbox' = inbox \o ms /\ Len(inbox) + Len(ms) <= MaxInbox
                \/ matches < rule /\ inbox' = inbox \o <<>>
  BY <1>0 DEF Announce, Types, BluezRule, OwnerRule
<1>00. <<>> \in Seq(Message) /\ Len(<<>>) = 0
  BY EmptySeq
<1>1. CASE LinkChanges
  <2>1. <<>> \in Seq(Message) /\ inbox \o <<>> = inbox /\ Len(<<>>) = 0
    BY EmptySeq, ConcatEmptySeq DEF Types
  <2>2. Heard(<<>>)
    BY <1>1, <2>1 DEF LinkChanges, Heard, Types
  <2>3. QED
    BY <1>1, <2>1, <2>2 DEF LinkChanges
<1>2. CASE ConnectedChanges
  <2> DEFINE ms == IF phone.connected
                     THEN <<Signal("disconnected", TRUE), Signal("connected", FALSE)>>
                     ELSE <<Signal("connected", TRUE)>>
  <2>1. ms \in Seq(Message) /\ Len(ms) \in {1, 2}
        /\ \A i \in 1..Len(ms) : ms[i].kind \in {"connected", "disconnected"} /\ ms[i].from = epoch
    <3>1. /\ Signal("disconnected", TRUE) \in Message /\ Signal("connected", FALSE) \in Message
          /\ Signal("connected", TRUE) \in Message
      BY DEF Signal, Message, Types
    <3>2. CASE phone.connected
      <4>1. ms = <<Signal("disconnected", TRUE), Signal("connected", FALSE)>>
        BY <3>2
      <4> HIDE DEF ms
      <4>2. QED
        BY <3>1, <4>1 DEF Signal
    <3>3. CASE ~phone.connected
      <4>1. ms = <<Signal("connected", TRUE)>>
        BY <3>3
      <4> HIDE DEF ms
      <4>2. QED
        BY <3>1, <4>1 DEF Signal
    <3>4. QED
      BY <3>2, <3>3
  <2>2. Announce(BluezRule, ms) /\ WorldOnly /\ UNCHANGED <<link, powered, epoch>>
        /\ phone' = [phone EXCEPT !.connected = ~@]
    BY <1>2 DEF ConnectedChanges
  <2> HIDE DEF ms
  <2>3. /\ Watched
        /\ \/ matches >= 1 /\ inbox' = inbox \o ms /\ Len(inbox) + Len(ms) <= MaxInbox
           \/ matches < 1 /\ inbox' = inbox \o <<>>
    BY <1>0, <2>2 DEF BluezRule
  <2>4. phone' \in Phone /\ phone'.state = phone.state
    BY <2>2 DEF Types, Phone
  <2>5. CASE matches >= 1
    <3>1. \A i \in 1..Len(ms) : News(ms[i]) /\ ms[i].from = epoch /\ ~OfOwner(ms[i]) /\ ms[i].kind # "state"
      BY <2>1
    <3>2. link' = link /\ powered' = powered /\ epoch' = epoch
      BY <2>2
    <3>3. Len(ms) >= 1
      BY <2>1
    <3>4. Heard(ms)
      BY <2>3, <2>4, <2>5, <3>1, <3>2, <3>3 DEF Heard, Types
    <3>5. QED
      BY <2>1, <2>2, <3>4
  <2>6. CASE matches < 1
    <3>1. Heard(<<>>)
      BY <1>00, <2>1, <2>2, <2>4, <2>3, <2>6 DEF Heard, Types
    <3>2. QED
      BY <1>00, <2>1, <2>2, <2>4, <3>1
  <2>7. QED
    BY <2>5, <2>6 DEF Types
<1>3. CASE TrustChanges
  <2> DEFINE ms == <<Signal("state", phone'.state)>>
  <2>1. phone' \in Phone /\ phone'.state # phone.state
    BY <1>3 DEF TrustChanges, Types, Phone
  <2>2. ms \in Seq(Message) /\ Len(ms) = 1
        /\ ms[1].kind = "state" /\ ms[1].from = epoch /\ ms[1].value = phone'.state
    BY <2>1 DEF Signal, Message, Types, Phone
  <2>3. Announce(BluezRule, ms) /\ WorldOnly /\ UNCHANGED <<link, powered, epoch>>
    BY <1>3 DEF TrustChanges
  <2> HIDE DEF ms
  <2>4. /\ Watched
        /\ \/ matches >= 1 /\ inbox' = inbox \o ms /\ Len(inbox) + Len(ms) <= MaxInbox
           \/ matches < 1 /\ inbox' = inbox \o <<>>
    BY <1>0, <2>3 DEF BluezRule
  <2>5. CASE matches >= 1
    <3>1. Heard(ms)
      BY <2>1, <2>2, <2>3, <2>4, <2>5 DEF Heard, Types
    <3>2. QED
      BY <2>1, <2>2, <2>3, <3>1
  <2>6. CASE matches < 1
    <3>1. Heard(<<>>)
      BY <1>00, <2>1, <2>2, <2>3, <2>4, <2>6 DEF Heard, Types
    <3>2. QED
      BY <1>00, <2>1, <2>2, <2>3, <3>1
  <2>7. QED
    BY <2>5, <2>6 DEF Types
<1>4. CASE PhoneRemoved
  <2> DEFINE ms == <<Signal("removed", TRUE)>>
  <2>1. ms \in Seq(Message) /\ Len(ms) = 1 /\ ms[1].kind = "removed" /\ ms[1].from = epoch
    BY DEF Signal, Message, Types
  <2>2. Announce(BluezRule, ms) /\ WorldOnly /\ UNCHANGED <<powered, epoch>>
        /\ phone' \in Phone /\ link' \in BOOLEAN
    BY <1>4 DEF PhoneRemoved, Phone
  <2> HIDE DEF ms
  <2>3. /\ Watched
        /\ \/ matches >= 1 /\ inbox' = inbox \o ms /\ Len(inbox) + Len(ms) <= MaxInbox
           \/ matches < 1 /\ inbox' = inbox \o <<>>
    BY <1>0, <2>2 DEF BluezRule
  <2>4. CASE matches >= 1
    <3>1. Heard(ms)
      BY <2>1, <2>2, <2>3, <2>4 DEF Heard, Types
    <3>2. QED
      BY <2>1, <2>2, <3>1
  <2>5. CASE matches < 1
    <3>1. Heard(<<>>)
      BY <1>00, <2>1, <2>2, <2>3, <2>5 DEF Heard, Types
    <3>2. QED
      BY <1>00, <2>1, <2>2, <3>1
  <2>6. QED
    BY <2>4, <2>5 DEF Types
<1>5. CASE PowerChanges
  <2> DEFINE ms == <<Signal("powered", powered')>>
  <2>1. powered' \in BOOLEAN /\ phone' \in Phone /\ phone'.state = phone.state /\ link' \in BOOLEAN
    BY <1>5 DEF PowerChanges, Phone, Types
  <2>2. ms \in Seq(Message) /\ Len(ms) = 1 /\ ms[1].kind = "powered" /\ ms[1].from = epoch
    BY <2>1 DEF Signal, Message, Types
  <2>3. Announce(BluezRule, ms) /\ WorldOnly /\ epoch' = epoch
    BY <1>5 DEF PowerChanges
  <2> HIDE DEF ms
  <2>4. /\ Watched
        /\ \/ matches >= 1 /\ inbox' = inbox \o ms /\ Len(inbox) + Len(ms) <= MaxInbox
           \/ matches < 1 /\ inbox' = inbox \o <<>>
    BY <1>0, <2>3 DEF BluezRule
  <2>5. CASE matches >= 1
    <3>1. Heard(ms)
      BY <2>1, <2>2, <2>3, <2>4, <2>5 DEF Heard, Types
    <3>2. QED
      BY <2>1, <2>2, <2>3, <3>1
  <2>6. CASE matches < 1
    <3>1. Heard(<<>>)
      BY <1>00, <2>1, <2>2, <2>3, <2>4, <2>6 DEF Heard, Types
    <3>2. QED
      BY <1>00, <2>1, <2>2, <2>3, <3>1
  <2>7. QED
    BY <2>5, <2>6 DEF Types
<1>6. CASE BluezRestarts
  <2> DEFINE ms == <<Signal("owner", epoch')>>
  <2>1. epoch' = epoch + 1 /\ epoch' \in 1..MaxEpoch /\ UNCHANGED <<link, phone, powered>>
    BY <1>6 DEF BluezRestarts, Types
  <2>2. ms \in Seq(Message) /\ Len(ms) = 1 /\ ms[1].kind = "owner" /\ ms[1].from = epoch
        /\ ms[1].value = epoch + 1
    BY <2>1 DEF Signal, Message, Types
  <2>3. Announce(OwnerRule, ms) /\ WorldOnly
    BY <1>6 DEF BluezRestarts
  <2> HIDE DEF ms
  <2>4. /\ Watched
        /\ \/ matches >= 2 /\ inbox' = inbox \o ms /\ Len(inbox) + Len(ms) <= MaxInbox
           \/ matches < 2 /\ inbox' = inbox \o <<>>
    BY <1>0, <2>3 DEF OwnerRule
  <2>5. CASE matches >= 2
    <3>1. Heard(ms)
      BY <2>1, <2>2, <2>3, <2>4, <2>5 DEF Heard, Types
    <3>2. QED
      BY <2>1, <2>2, <2>3, <3>1
  <2>6. CASE matches < 2
    <3>1. Heard(<<>>)
      BY <1>00, <2>1, <2>2, <2>3, <2>4, <2>6 DEF Heard, Types
    <3>2. QED
      BY <1>00, <2>1, <2>2, <2>3, <3>1
  <2>7. QED
    BY <2>5, <2>6 DEF Types
<1>7. QED
  BY <1>1, <1>2, <1>3, <1>4, <1>5, <1>6 DEF WorldChanges

\* The same, of the inbox as it is then.
Arrived ==
  /\ inbox' \in Seq(Message) /\ Len(inbox') \in Nat /\ Len(inbox') >= Len(inbox)
  /\ DOMAIN inbox' = 1..Len(inbox')
  /\ \A k \in 1..Len(inbox) : inbox'[k] = inbox[k]
  /\ \A k \in 1..Len(inbox') :
       k > Len(inbox) => /\ News(inbox'[k]) /\ inbox'[k].from = epoch /\ matches >= 1
                         /\ OfOwner(inbox'[k]) => inbox'[k].value = epoch + 1
                         /\ inbox'[k].kind = "state" /\ inbox'[k].value = "trusted" => phone'.state = "trusted"
  /\ matches >= 1 /\ (phone' # phone \/ powered' # powered) => Len(inbox') > Len(inbox)
  /\ matches >= 1 /\ phone'.state # phone.state =>
       \E k \in 1..Len(inbox') : k > Len(inbox) /\ OfPhone(inbox'[k])
  /\ \/ epoch' = epoch
     \/ /\ epoch' = epoch + 1
        /\ matches = 2 => \E k \in 1..Len(inbox') : k > Len(inbox) /\ OfOwner(inbox'[k])

LEMMA Arrives ==
  ASSUME Types, NEW ms \in Seq(Message), Heard(ms)
  PROVE  Arrived
<1>1. /\ inbox' \in Seq(Message) /\ Len(inbox') = Len(inbox) + Len(ms)
      /\ DOMAIN inbox' = 1..(Len(inbox) + Len(ms))
      /\ \A k \in 1..Len(inbox) : inbox'[k] = inbox[k]
      /\ \A k \in 1..Len(ms) : inbox'[Len(inbox) + k] = ms[k]
      /\ Len(inbox) \in Nat /\ Len(ms) \in Nat
  BY Posted DEF Heard, Types
<1>2. ASSUME NEW k \in 1..Len(inbox'), k > Len(inbox)
      PROVE  k - Len(inbox) \in 1..Len(ms) /\ inbox'[k] = ms[k - Len(inbox)]
  <2>1. k - Len(inbox) \in 1..Len(ms)
    BY <1>1, <1>2
  <2>2. inbox'[Len(inbox) + (k - Len(inbox))] = ms[k - Len(inbox)]
    BY <1>1, <2>1
  <2>3. QED
    BY <1>1, <2>1, <2>2
<1>3. (\E i \in 1..Len(ms) : OfPhone(ms[i])) => \E k \in 1..Len(inbox') : k > Len(inbox) /\ OfPhone(inbox'[k])
  BY <1>1
<1>4. (\E i \in 1..Len(ms) : OfOwner(ms[i])) => \E k \in 1..Len(inbox') : k > Len(inbox) /\ OfOwner(inbox'[k])
  BY <1>1
<1>5. ASSUME NEW k \in 1..Len(inbox'), k > Len(inbox)
      PROVE  /\ News(inbox'[k]) /\ inbox'[k].from = epoch /\ matches >= 1
             /\ OfOwner(inbox'[k]) => inbox'[k].value = epoch + 1
             /\ inbox'[k].kind = "state" /\ inbox'[k].value = "trusted" => phone'.state = "trusted"
  <2>1. PICK i \in 1..Len(ms) : inbox'[k] = ms[i]
    BY <1>2, <1>5
  <2>2. QED
    BY <2>1 DEF Heard
<1>6. matches >= 1 /\ (phone' # phone \/ powered' # powered) => Len(inbox') > Len(inbox)
  BY <1>1 DEF Heard
<1>7. matches >= 1 /\ phone'.state # phone.state =>
        \E k \in 1..Len(inbox') : k > Len(inbox) /\ OfPhone(inbox'[k])
  BY <1>3 DEF Heard
<1>8. \/ epoch' = epoch
      \/ /\ epoch' = epoch + 1
         /\ matches = 2 => \E k \in 1..Len(inbox') : k > Len(inbox) /\ OfOwner(inbox'[k])
  BY <1>4 DEF Heard
<1>9. Len(inbox') \in Nat /\ Len(inbox') >= Len(inbox) /\ DOMAIN inbox' = 1..Len(inbox')
  BY <1>1
<1>10. QED
  BY <1>1, <1>5, <1>6, <1>7, <1>8, <1>9 DEF Arrived

-----------------------------------------------------------------------------
(* A step of the world keeps all this.                                     *)

LEMMA Messages ==
  ASSUME NEW m \in Message
  PROVE  /\ m.kind = "reply" => m.value \in Answers
         /\ m.kind = "ask" => m.value \in Callers
         /\ m.kind = "owner" => m.value \in 1..MaxEpoch
         /\ m.kind = "state" => m.value \in {"trusted", "untrusted"}
         /\ m.from \in 1..MaxEpoch
         /\ m.kind \in Kinds \cup {"reply", "late", "ask", "released"}
BY DEF Message, Kinds

LEMMA WorldKeepsBase ==
  ASSUME Base, WorldOnly, Arrived, Watched,
         link' \in BOOLEAN, phone' \in Phone, powered' \in BOOLEAN, epoch' \in 1..MaxEpoch
  PROVE  Base'
<1> USE DaemonAssumption DEF calls, backend, once, history
<1>1. /\ Types /\ Len(inbox) \in Nat /\ OnBus
      /\ UNCHANGED <<connection, stage, call, reply, matches, owner, copy, failed, request, phase,
                     query, adapterOn, moved, dropped, answer, refreshed>>
      /\ epoch' >= epoch /\ epoch \in Nat /\ owner \in Nat /\ matches \in Nat
  BY DEF Base, WorldOnly, Types, Arrived, Watched
<1>2. Types'
  <2>1. seen' \subseteq Callers /\ held' \subseteq Callers
    BY <1>1 DEF WorldOnly, Remember, Types, Pending
  <2>2. QED
    BY <1>1, <2>1 DEF Arrived, Types
<1>3. Rules'
  BY <1>1 DEF Base, Rules, Types
<1>4. Calls'
  <2>1. \A k \in 1..Len(inbox') : inbox'[k].kind = "reply" => k \in 1..Len(inbox)
    BY <1>1 DEF Arrived, News, Kinds
  <2>2. \A k \in 1..Len(inbox) : inbox[k].kind = "reply" => inbox[k].value.owner \in Nat
    BY <1>1, InboxIs, Messages DEF Answers
  <2>3. reply.owner \in Nat
    BY <1>1 DEF Types, Answers, NoReply
  <2>4. reply' # NoReply => call' = None /\ reply'.owner <= epoch'
    BY <1>1, <2>3 DEF Base, Types, Calls, Arrived
  <2>5. \A k \in 1..Len(inbox') :
          inbox'[k].kind = "reply" => call' = "answered" /\ inbox'[k].value.owner <= epoch'
    <3>1. epoch' >= epoch /\ epoch \in Nat /\ epoch' \in Nat
      BY <1>1 DEF Base, Types, Arrived
    <3>2. QED
      BY <1>1, <2>1, <2>2, <3>1 DEF Base, Calls, Arrived
  <2>6. \A i, k \in 1..Len(inbox') : inbox'[i].kind = "reply" /\ inbox'[k].kind = "reply" => i = k
    BY <1>1, <2>1 DEF Base, Calls, Arrived
  <2>7. stage' \notin Opening /\ query' = None => call' = None /\ reply' = NoReply
    BY <1>1 DEF Base, Calls, Opening
  <2>8. QED
    BY <2>4, <2>5, <2>6, <2>7 DEF Calls
<1>5. NewsIs'
  <2>1. ASSUME NEW i \in 1..Len(inbox'), News(inbox'[i])
        PROVE  matches' >= 1 /\ owner' <= inbox'[i].from /\ inbox'[i].from <= epoch'
    <3>1. CASE i \in 1..Len(inbox)
      <4>1. inbox[i].from \in Nat
        BY <1>1, <3>1, InboxIs, Messages
      <4>2. QED
        BY <1>1, <2>1, <3>1, <4>1 DEF Base, NewsIs, Arrived
    <3>2. CASE i > Len(inbox)
      BY <1>1, <2>1, <3>2 DEF Base, Rules, Arrived
    <3>3. QED
      BY <1>1, <3>1, <3>2
  <2>2. ASSUME NEW i \in 1..Len(inbox'), OfOwner(inbox'[i]) PROVE inbox'[i].value > owner'
    BY <1>1, <2>2 DEF Base, NewsIs, Arrived, Rules
  <2>3. ASSUME NEW i \in 1..Len(inbox'), inbox'[i].kind = "state", inbox'[i].value = "trusted"
        PROVE  phone'.state = "trusted" \/ \E k \in 1..Len(inbox') : k > i /\ OfPhone(inbox'[k])
    <3>1. CASE i > Len(inbox)
      BY <2>3, <3>1 DEF Arrived
    <3>2. CASE i \in 1..Len(inbox) /\ phone'.state = phone.state
      BY <1>1, <2>3, <3>2 DEF Base, NewsIs, Arrived
    <3>3. CASE i \in 1..Len(inbox) /\ phone'.state # phone.state
      <4>1. matches >= 1
        BY <1>1, <2>3, <3>3 DEF Base, NewsIs, Arrived, News, Kinds
      <4>2. QED
        BY <1>1, <3>3, <4>1 DEF Arrived
    <3>4. QED
      BY <1>1, <3>1, <3>2, <3>3
  <2>4. QED
    BY <2>1, <2>2, <2>3 DEF NewsIs
<1>6. AsksAre'
  <2>1. \A k \in 1..Len(inbox') : inbox'[k].kind = "ask" => k \in 1..Len(inbox)
    BY <1>1 DEF Arrived, News, Kinds
  <2>2. OnBus'
    BY <1>1 DEF OnBus
  <2>3. QED
    BY <1>1, <2>1, <2>2 DEF Base, AsksAre, Arrived
<1>7. Remembered'
  BY <1>1 DEF WorldOnly, Remember, Remembered, Pending
<1>8. QED
  BY <1>2, <1>3, <1>4, <1>5, <1>6, <1>7 DEF Base

-----------------------------------------------------------------------------
(* Messages that are no news: a release, a caller's call, a reply.         *)

LEMMA Bounds ==
  ASSUME Types
  PROVE  /\ Len(inbox) \in Nat /\ DOMAIN inbox = 1..Len(inbox)
         /\ owner \in Nat /\ epoch \in Nat /\ matches \in Nat
         /\ \A i \in 1..Len(inbox) : inbox[i] \in Message
         /\ reply \in Answers => reply.owner \in Nat
BY DaemonAssumption, InboxIs DEF Types, Answers

LEMMA CurrentIsAnswer ==
  ASSUME Types
  PROVE  Current \in Answers /\ Current # NoReply /\ Current.owner = epoch
         /\ Current.powered = powered /\ Current.phone = phone
BY DaemonAssumption DEF Current, Answers, NoReply, Types

LEMMA ReleaseKeepsBase ==
  ASSUME Base, BluezReleases
  PROVE  Base'
<1> DEFINE m == Signal("released", TRUE)
<1> USE DEF world, calls, backend, once, history
<1>1. /\ Types /\ inbox' = Append(inbox, m) /\ m \in Message /\ m.kind = "released"
      /\ UNCHANGED <<link, phone, powered, epoch, connection, stage, call, reply, matches, owner,
                     copy, failed, request, phase, query, adapterOn, moved, dropped, answer, seen,
                     held, refreshed>>
  BY DEF BluezReleases, Base, Signal, Message, Types
<1>2. OnBus
  BY DEF BluezReleases, OnBus
<1> HIDE DEF m
<1>3. /\ inbox' \in Seq(Message) /\ Len(inbox') = Len(inbox) + 1 /\ Len(inbox) \in Nat
      /\ \A i \in 1..Len(inbox) : inbox'[i] = inbox[i]
      /\ inbox'[Len(inbox) + 1].kind = "released"
  BY <1>1, Appended, Bounds
<1>4. \A i \in 1..Len(inbox') : i \in 1..Len(inbox) \/ inbox'[i].kind = "released"
  BY <1>3
<1>5. Types' /\ Rules' /\ Remembered'
  BY <1>1, <1>3 DEF Base, Types, Rules, Remembered, Pending, BluezHolds
<1>6. Calls' /\ AsksAre'
  BY <1>1, <1>2, <1>3, <1>4 DEF Base, Calls, AsksAre, OnBus
<1>7. NewsIs'
  BY <1>1, <1>3, <1>4 DEF Base, NewsIs, News, Kinds, OfOwner, OfPhone
<1>8. QED
  BY <1>5, <1>6, <1>7 DEF Base

LEMMA AskKeepsBase ==
  ASSUME Base, NEW c \in Callers, Ask(c)
  PROVE  Base'
<1> DEFINE m == [kind |-> "ask", value |-> c, from |-> epoch]
<1> USE DEF world, calls, backend, once, history
<1>1. /\ Types /\ inbox' = Append(inbox, m) /\ m \in Message /\ m.kind = "ask" /\ m.value = c
      /\ UNCHANGED <<link, phone, powered, epoch, connection, stage, call, reply, matches, owner,
                     copy, failed, request, phase, query, adapterOn, moved, dropped, refreshed>>
      /\ answer' = [answer EXCEPT ![c] = "sent"] /\ c \notin Pending /\ OnBus
  BY DEF Ask, Base, Signal, Message, Types
<1> HIDE DEF m
<1>2. /\ inbox' \in Seq(Message) /\ Len(inbox') = Len(inbox) + 1 /\ Len(inbox) \in Nat
      /\ \A i \in 1..Len(inbox) : inbox'[i] = inbox[i]
      /\ inbox'[Len(inbox) + 1].kind = "ask" /\ inbox'[Len(inbox) + 1].value = c
  BY <1>1, Appended, Bounds
<1>3. \A i \in 1..Len(inbox') : i \in 1..Len(inbox) \/ (i = Len(inbox) + 1 /\ inbox'[i].kind = "ask")
  BY <1>2
<1>4. /\ seen' = (seen \ {c}) \cup {d \in {c} : link} /\ held' = (held \ {c}) \cup {d \in {c} : BluezHolds}
      /\ answer' \in [Callers -> {"no", "sent", "joined", "true"}]
      /\ Pending' = Pending \cup {c}
  BY <1>1 DEF Ask, Types, Pending
<1>5. Types' /\ Rules'
  BY <1>1, <1>2, <1>4 DEF Base, Types, Rules
<1>6. Remembered'
  BY <1>1, <1>4 DEF Base, Remembered, BluezHolds
<1>7. \A i \in 1..Len(inbox) : inbox[i].kind = "ask" => inbox[i].value # c /\ inbox[i].value \in Callers
  BY <1>1, Bounds, Messages DEF Base, AsksAre, Pending
<1>8. Calls'
  BY <1>1, <1>2, <1>3 DEF Base, Calls
<1>9. AsksAre'
  BY <1>1, <1>2, <1>3, <1>7 DEF Base, AsksAre, OnBus, Types
<1>10. NewsIs'
  BY <1>1, <1>2, <1>3 DEF Base, NewsIs, News, Kinds, OfOwner, OfPhone
<1>11. QED
  BY <1>5, <1>6, <1>8, <1>9, <1>10 DEF Base

LEMMA ServeKeepsBase ==
  ASSUME Base, Serve
  PROVE  Base'
<1> DEFINE m == [kind |-> "reply", value |-> Current, from |-> epoch]
<1> USE DEF world, calls, backend, once, history
<1>1. /\ Types /\ inbox' = Append(inbox, m) /\ m \in Message /\ m.kind = "reply" /\ m.value.owner = epoch
      /\ UNCHANGED <<link, phone, powered, epoch, connection, stage, reply, owner,
                     copy, failed, request, phase, query, adapterOn, moved, dropped, answer, seen,
                     held, refreshed>>
      /\ call = "sent" /\ call' = "answered" /\ OnBus
      /\ matches' = matches + (IF stage \in {"WatchBluez", "WatchOwner"} THEN 1 ELSE 0)
  BY CurrentIsAnswer DEF Serve, Base, Message, Types
<1> HIDE DEF m
<1>2. /\ inbox' \in Seq(Message) /\ Len(inbox') = Len(inbox) + 1 /\ Len(inbox) \in Nat
      /\ \A i \in 1..Len(inbox) : inbox'[i] = inbox[i]
      /\ inbox'[Len(inbox) + 1].kind = "reply" /\ inbox'[Len(inbox) + 1].value.owner = epoch
  BY <1>1, Appended, Bounds
<1>3. \A i \in 1..Len(inbox') : i \in 1..Len(inbox) \/ (i = Len(inbox) + 1 /\ inbox'[i].kind = "reply")
  BY <1>2
<1>4. \A i \in 1..Len(inbox) : inbox[i].kind # "reply"
  BY <1>1 DEF Base, Calls, None
<1>5. reply = NoReply /\ matches' >= matches /\ matches' \in 0..2
  BY <1>1 DEF Base, Calls, Rules, None, Types
<1>6. Types' /\ Rules'
  BY <1>1, <1>2, <1>5 DEF Base, Types, Rules, None, Stages
<1>7. Remembered'
  BY <1>1 DEF Base, Remembered, BluezHolds, Pending
<1>8. Calls'
  BY <1>1, <1>2, <1>3, <1>4, <1>5, Bounds, StagesAre DEF Base, Calls, None
<1>9. AsksAre'
  BY <1>1, <1>2, <1>3 DEF Base, AsksAre, OnBus, Pending
<1>10. NewsIs'
  BY <1>1, <1>2, <1>3, <1>5, Bounds DEF Base, NewsIs, News, Kinds, OfOwner, OfPhone
<1>11. QED
  BY <1>6, <1>7, <1>8, <1>9, <1>10 DEF Base

LEMMA DropKeepsBase ==
  ASSUME Base, BusDrops
  PROVE  Base'
<1> USE DEF world, calls, backend, once, history
<1>1. /\ Types /\ inbox' = <<>> /\ connection' = FALSE /\ answer' = Lost
      /\ UNCHANGED <<link, phone, powered, epoch, stage, call, reply, matches, owner, copy, failed,
                     request, phase, query, adapterOn, moved, dropped, refreshed>>
      /\ seen' = {c \in seen : answer'[c] # "no"} /\ held' = {c \in held : answer'[c] # "no"}
  BY DEF BusDrops, Forget, Base
<1>2. inbox' \in Seq(Message) /\ Len(inbox') = 0
  BY <1>1, EmptySeq
<1>3. answer' \in [Callers -> {"no", "sent", "joined", "true"}] /\ Pending' = {}
  BY <1>1 DEF Lost, Pending, Types
<1>4. Types' /\ Rules'
  <2>1. seen' \subseteq Callers /\ held' \subseteq Callers
    BY <1>1 DEF Types
  <2>2. /\ Types /\ connection' \in BOOLEAN
        /\ UNCHANGED <<link, phone, powered, epoch, stage, call, reply, matches, owner, copy, failed,
                       request, phase, query, adapterOn, moved, dropped, refreshed>>
    BY <1>1
  <2>3. Types'
    BY <1>2, <1>3, <2>1, <2>2 DEF Types
  <2>4. Rules'
    BY <2>2 DEF Base, Rules
  <2>5. QED
    BY <2>3, <2>4
<1>5. Calls' /\ NewsIs' /\ AsksAre' /\ Remembered'
  <2>1. 1..Len(inbox') = {}
    BY <1>2
  <2>2. QED
    BY <1>1, <1>3, <2>1 DEF Base, Calls, NewsIs, AsksAre, Remembered, OnBus
<1>6. QED
  BY <1>4, <1>5 DEF Base

-----------------------------------------------------------------------------
(* The reader takes the first message.                                     *)

\* What is said of the messages survives their moving up by one.
LEMMA ReadKeepsBase ==
  ASSUME Base, Read
  PROVE  Base'
<1> DEFINE m == Head(inbox)
<1> USE DEF world, calls, backend, once, history
<1>1. /\ Types /\ OnBus /\ inbox # <<>> /\ inbox' = Tail(inbox)
      /\ UNCHANGED <<link, phone, powered, epoch, connection>>
      /\ ReadSignal(m) \/ ReadReply(m) \/ ReadLate(m) \/ ReadAsk(m)
  BY DEF Read, Base
<1> HIDE DEF m
<1>2. /\ inbox' \in Seq(Message) /\ Len(inbox) \in Nat /\ Len(inbox) >= 1 /\ m = inbox[1] /\ m \in Message
      /\ Len(inbox') = Len(inbox) - 1
      /\ \A i \in 1..Len(inbox') : i + 1 \in 1..Len(inbox) /\ inbox'[i] = inbox[i + 1]
  BY <1>1, Taken, Bounds DEF m
<1>3. UNCHANGED <<stage, matches, owner>>
  BY <1>1 DEF ReadSignal, ReadReply, ReadLate, ReadAsk
<1>4. NewsIs'
  <2>1. ASSUME NEW i \in 1..Len(inbox'), inbox'[i].kind = "state", inbox'[i].value = "trusted"
        PROVE  phone'.state = "trusted" \/ \E k \in 1..Len(inbox') : k > i /\ OfPhone(inbox'[k])
    <3>1. phone.state = "trusted" \/ \E k \in 1..Len(inbox) : k > i + 1 /\ OfPhone(inbox[k])
      BY <1>2, <2>1 DEF Base, NewsIs
    <3>2. ASSUME NEW k \in 1..Len(inbox), k > i + 1
          PROVE  k - 1 \in 1..Len(inbox') /\ k - 1 > i /\ inbox'[k - 1] = inbox[k]
      BY <1>2, <3>2
    <3>3. QED
      BY <1>1, <3>1, <3>2
  <2>2. QED
    BY <1>1, <1>2, <1>3, <2>1 DEF Base, NewsIs
<1>5. CASE ReadSignal(m)
  <2>1. /\ UNCHANGED <<call, reply, request, phase, query, adapterOn, answer, seen, held, refreshed>>
        /\ m.kind \notin {"reply", "ask"}
        /\ copy' = Updated(m) /\ moved' \in BOOLEAN /\ dropped' \in BOOLEAN /\ failed' \in BOOLEAN
    BY <1>1, <1>5 DEF ReadSignal, Types
  <2>2. Updated(m) \in Phone \cup [state : {"gone"}, connected : BOOLEAN]
    <3>1. m.kind = "state" => m.value \in {"trusted", "untrusted"}
      BY <1>2, Messages
    <3>2. m.kind = "connected" => m.value \in BOOLEAN
      BY <1>2 DEF Message
    <3>3. QED
      BY <1>1, <3>1, <3>2 DEF Updated, Types, Phone, Gone
  <2>3. Types' /\ Rules'
    BY <1>1, <1>2, <1>3, <2>1, <2>2 DEF Base, Types, Rules
  <2>4. Calls' /\ AsksAre'
    BY <1>1, <1>2, <1>3, <2>1 DEF Base, Calls, AsksAre, OnBus
  <2>5. Remembered'
    BY <1>1, <2>1 DEF Base, Remembered, Pending, BluezHolds
  <2>6. QED
    BY <1>4, <2>3, <2>4, <2>5 DEF Base
<1>6. CASE ReadReply(m)
  <2>1. /\ UNCHANGED <<copy, failed, request, phase, query, adapterOn, moved, dropped, answer, seen, held, refreshed>>
        /\ m.kind = "reply" /\ reply' = m.value /\ call' = None
    BY <1>6 DEF ReadReply
  <2>2. reply' \in Answers /\ inbox[1].kind = "reply" /\ reply'.owner <= epoch
    BY <1>2, <2>1, Messages DEF Base, Calls
  <2>3. \A i \in 1..Len(inbox') : inbox'[i].kind # "reply"
    BY <1>2, <2>2 DEF Base, Calls
  <2>4. Types' /\ Rules'
    <3>1. stage \in {"WatchBluez", "WatchOwner"} => call = "answered"
      BY <1>2, <2>2 DEF Base, Calls
    <3>2. QED
      BY <1>1, <1>2, <1>3, <2>1, <2>2, <3>1 DEF Base, Types, Rules, None
  <2>5. call = "answered"
    BY <1>2, <2>2 DEF Base, Calls
  <2>6. Calls' /\ AsksAre'
    BY <1>1, <1>2, <1>3, <2>1, <2>2, <2>3, <2>5 DEF Base, Calls, AsksAre, OnBus, None
  <2>7. Remembered'
    BY <1>1, <2>1 DEF Base, Remembered, Pending, BluezHolds
  <2>8. QED
    BY <1>4, <2>4, <2>6, <2>7 DEF Base
<1>7. CASE ReadLate(m)
  <2>1. /\ UNCHANGED <<call, reply, copy, failed, request, phase, query, adapterOn, moved, dropped, answer, seen, held, refreshed>>
        /\ m.kind = "late"
    BY <1>7 DEF ReadLate
  <2>2. Types' /\ Rules'
    BY <1>1, <1>2, <1>3, <2>1 DEF Base, Types, Rules
  <2>3. Calls' /\ AsksAre'
    BY <1>1, <1>2, <1>3, <2>1 DEF Base, Calls, AsksAre, OnBus
  <2>4. Remembered'
    BY <1>1, <2>1 DEF Base, Remembered, Pending, BluezHolds
  <2>5. QED
    BY <1>4, <2>2, <2>3, <2>4 DEF Base
<1>8. CASE ReadAsk(m)
  <2> DEFINE c == m.value
  <2>1. /\ UNCHANGED <<call, reply, copy, failed, query, adapterOn, moved, dropped, refreshed>>
        /\ m.kind = "ask" /\ c \in Callers /\ answer[c] = "sent"
        /\ seen' = {d \in seen : answer'[d] # "no"} /\ held' = {d \in held : answer'[d] # "no"}
    BY <1>1, <1>2, <1>8, Messages DEF ReadAsk, JoinOrStart, Forget, Base, AsksAre
  <2>2. \/ /\ answer' = Told(c, "joined") /\ stage = "serving"
           /\ \/ request = "running" /\ UNCHANGED <<request, phase>>
              \/ request # "running" /\ request' = "running" /\ phase' = "new"
        \/ answer' = Told(c, "no") /\ UNCHANGED <<request, phase>>
    BY <1>8 DEF ReadAsk, JoinOrStart
  <2> HIDE DEF c
  <2>3. /\ answer' \in [Callers -> {"no", "sent", "joined", "true"}]
        /\ \A d \in Callers \ {c} : answer'[d] = answer[d]
        /\ answer'[c] \in {"joined", "no"}
    BY <1>1, <2>1, <2>2 DEF Told, Types
  <2>4. Types'
    <3>1. request # "running" => query = None
      BY <1>1 DEF Types, None
    <3>2. QED
      BY <1>1, <1>2, <1>3, <2>1, <2>2, <2>3, <3>1 DEF Types, None
  <2>5. Rules' /\ Calls'
    BY <1>1, <1>2, <1>3, <2>1 DEF Base, Rules, Calls
  <2>6. AsksAre'
    <3>1. \A i \in 1..Len(inbox') : inbox'[i].kind = "ask" => inbox'[i].value # c /\ inbox'[i].value \in Callers
      <4>1. inbox[1].kind = "ask" /\ inbox[1].value = c
        BY <1>2, <2>1 DEF c
      <4>2. QED
        BY <1>1, <1>2, <4>1, Bounds, Messages DEF Base, AsksAre
    <3>2. OnBus'
      BY <1>1, <1>3 DEF OnBus
    <3>3. ASSUME NEW i \in 1..Len(inbox'), inbox'[i].kind = "ask" PROVE answer'[inbox'[i].value] = "sent"
      <4>1. answer[inbox'[i].value] = "sent"
        BY <1>2, <3>3 DEF Base, AsksAre
      <4>2. QED
        BY <2>3, <3>1, <3>3, <4>1
    <3>4. ASSUME NEW i \in 1..Len(inbox'), NEW k \in 1..Len(inbox'), inbox'[i].kind = "ask",
                 inbox'[k].kind = "ask", inbox'[i].value = inbox'[k].value
          PROVE  i = k
      <4>1. i + 1 = k + 1
        BY <1>2, <3>4 DEF Base, AsksAre
      <4>2. QED
        BY <4>1
    <3>5. QED
      BY <3>2, <3>3, <3>4 DEF AsksAre
  <2>7. Remembered'
    <3>1. Pending' \subseteq Pending /\ \A d \in Pending' : answer'[d] # "no"
      BY <1>1, <2>1, <2>3 DEF Pending, Types
    <3>2. QED
      BY <1>1, <2>1, <3>1 DEF Base, Remembered, BluezHolds
  <2>8. QED
    BY <1>4, <2>4, <2>5, <2>6, <2>7 DEF Base
<1>9. QED
  BY <1>1, <1>5, <1>6, <1>7, <1>8

-----------------------------------------------------------------------------
(* The request: it ends, or it goes on with another call or a pause.       *)

Copies == Phone \cup [state : {"gone"}, connected : BOOLEAN]

\* A query that found everything as it should be replaces the copy.
Verdict == query = "phone" /\ reply # NoReply /\ Consistent

TakesCopy ==
  /\ copy' \in Copies /\ refreshed' \in BOOLEAN
  /\ \/ UNCHANGED <<copy, refreshed>>
     \/ Verdict /\ copy' = reply.phone /\ refreshed' = TRUE

\* Mark the replies nobody waits for, and tell everyone.
Ends(r) ==
  /\ request = "running" /\ Finish(r)
  /\ UNCHANGED <<world, matches, owner, failed>>
  /\ \/ stage' = stage
     \/ stage = "serving" /\ stage' = "closing"
  /\ TakesCopy
  /\ r = "true" => Verdict /\ Connected

GoesOn ==
  /\ request = "running" /\ call = None
  /\ UNCHANGED <<world, stage, matches, owner, failed, request, answer, seen, held, inbox>>
  /\ TakesCopy
  /\ adapterOn' \in BOOLEAN /\ moved' \in BOOLEAN /\ dropped' \in BOOLEAN
  /\ reply' = NoReply
  /\ \/ /\ query' = "adapter" /\ phase' \in {"first", "wait"} /\ call' = "sent"
     \/ /\ query' = "phone" /\ phase' \in {"first", "wait"} /\ call' = "sent"
        /\ query = "adapter" /\ reply # NoReply /\ adapterOn' = reply.powered /\ moved' = moved
     \/ /\ query' = None /\ phase' = "sleep" /\ call' = None

LEMMA EndsKeepsBase ==
  ASSUME Base, NEW r \in {"no", "true"}, Ends(r)
  PROVE  Base'
<1> USE DEF world
<1>1. /\ Types /\ stage = "serving" /\ stage' \in {"serving", "closing"}
      /\ UNCHANGED <<link, phone, powered, epoch, connection, matches, owner, failed>>
      /\ call' = None /\ reply' = NoReply /\ inbox' = [i \in DOMAIN inbox |-> Late(inbox[i])]
      /\ request' \in {None, "true"} /\ phase' = None /\ query' = None
      /\ adapterOn' \in BOOLEAN /\ moved' \in BOOLEAN /\ dropped' \in BOOLEAN
      /\ copy' \in Copies /\ refreshed' \in BOOLEAN
      /\ answer' = [c \in Callers |-> IF answer[c] = "joined" THEN r ELSE answer[c]]
      /\ seen' = {c \in seen : answer'[c] # "no"} /\ held' = {c \in held : answer'[c] # "no"}
  BY DEF Base, Types, Ends, Finish, DropReply, Forget, TakesCopy
<1>2. /\ inbox' \in Seq(Message) /\ Len(inbox') = Len(inbox)
      /\ \A i \in 1..Len(inbox) :
           /\ inbox[i].kind # "reply" => inbox'[i] = inbox[i]
           /\ inbox'[i].kind # "reply"
           /\ inbox[i].kind = "reply" => inbox'[i].kind = "late"
  BY <1>1, Marked
<1>3. \A i \in 1..Len(inbox) : inbox'[i].kind # "late" => inbox'[i] = inbox[i]
  BY <1>2
<1>4. /\ answer' \in [Callers -> {"no", "sent", "joined", "true"}]
      /\ \A c \in Callers : answer[c] = "sent" => answer'[c] = "sent"
      /\ \A c \in Callers : answer'[c] \in {"sent", "joined"} => answer[c] = answer'[c] /\ answer'[c] # "no"
  BY <1>1 DEF Types
<1>5. Types'
  <2>1. seen' \subseteq Callers /\ held' \subseteq Callers
    BY <1>1 DEF Types
  <2>2. QED
    BY <1>1, <1>2, <1>4, <2>1 DEF Types, Copies, None, Stages
<1>6. Rules' /\ Calls'
  <2>1. Rules'
    BY <1>1 DEF Base, Rules
  <2>2. reply'.owner <= epoch
    BY <1>1, Bounds DEF NoReply
  <2>3. Calls'
    BY <1>1, <1>2, <2>2 DEF Calls
  <2>4. QED
    BY <2>1, <2>3
<1>7. NewsIs'
  <2>1. ASSUME NEW i \in 1..Len(inbox), OfPhone(inbox[i]) PROVE OfPhone(inbox'[i])
    BY <1>2, <2>1 DEF OfPhone
  <2>2. ASSUME NEW i \in 1..Len(inbox'), News(inbox'[i]) PROVE inbox'[i] = inbox[i] /\ i \in 1..Len(inbox)
    BY <1>2, <1>3, <2>2 DEF News, Kinds
  <2>3. ASSUME NEW i \in 1..Len(inbox'), inbox'[i].kind = "state", inbox'[i].value = "trusted"
        PROVE  phone'.state = "trusted" \/ \E k \in 1..Len(inbox') : k > i /\ OfPhone(inbox'[k])
    <3>1. i \in 1..Len(inbox) /\ inbox'[i] = inbox[i]
      BY <2>2, <2>3 DEF News, Kinds
    <3>2. phone.state = "trusted" \/ \E k \in 1..Len(inbox) : k > i /\ OfPhone(inbox[k])
      BY <2>3, <3>1 DEF Base, NewsIs
    <3>3. QED
      BY <1>1, <1>2, <2>1, <3>2
  <2>4. \A i \in 1..Len(inbox') : OfOwner(inbox'[i]) => News(inbox'[i])
    BY DEF OfOwner, News, Kinds
  <2>5. QED
    BY <1>1, <2>2, <2>3, <2>4 DEF Base, NewsIs
<1>8. AsksAre'
  <2>1. OnBus => OnBus'
    BY <1>1 DEF OnBus
  <2>2. \A i \in 1..Len(inbox) : inbox[i].kind = "ask" => inbox[i].value \in Callers
    BY <1>1, Bounds, Messages
  <2>3. OnBus \/ (inbox' = <<>> /\ Pending' = {})
    <3>1. CASE ~OnBus
      <4>1. inbox = <<>> /\ Pending = {}
        BY <3>1 DEF Base, AsksAre
      <4>2. Len(inbox') = 0
        BY <1>2, <4>1
      <4>3. Pending' = {}
        BY <1>4, <4>1 DEF Pending
      <4>4. QED
        BY <1>2, <4>2, <4>3, EmptySeq
    <3>2. QED
      BY <3>1
  <2>4. ASSUME NEW i \in 1..Len(inbox'), inbox'[i].kind = "ask"
        PROVE  i \in 1..Len(inbox) /\ inbox[i].kind = "ask" /\ inbox'[i].value = inbox[i].value
    BY <1>2, <1>3, <2>4
  <2>5. ASSUME NEW i \in 1..Len(inbox'), inbox'[i].kind = "ask" PROVE answer'[inbox'[i].value] = "sent"
    <3>1. i \in 1..Len(inbox) /\ inbox[i].kind = "ask" /\ inbox'[i].value = inbox[i].value
      BY <2>4, <2>5
    <3>2. answer[inbox[i].value] = "sent"
      BY <3>1 DEF Base, AsksAre
    <3>3. QED
      BY <1>4, <2>2, <3>1, <3>2
  <2>6. ASSUME NEW i \in 1..Len(inbox'), NEW k \in 1..Len(inbox'), inbox'[i].kind = "ask",
               inbox'[k].kind = "ask", inbox'[i].value = inbox'[k].value
        PROVE  i = k
    BY <2>4, <2>6 DEF Base, AsksAre
  <2>7. QED
    BY <2>1, <2>3, <2>5, <2>6 DEF AsksAre
<1>9. Remembered'
  <2>1. \A c \in Pending' : c \in Pending /\ answer'[c] # "no"
    BY <1>4 DEF Pending
  <2>2. QED
    BY <1>1, <2>1 DEF Base, Remembered, BluezHolds
<1>10. QED
  BY <1>5, <1>6, <1>7, <1>8, <1>9 DEF Base

LEMMA GoesOnKeepsBase ==
  ASSUME Base, GoesOn
  PROVE  Base'
<1> USE DEF world
<1>1. /\ Types /\ stage = "serving" /\ call = None
      /\ UNCHANGED <<link, phone, powered, epoch, connection, stage, matches, owner, failed, request, answer,
                     seen, held, inbox>>
      /\ reply' = NoReply
      /\ \/ query' \in {"adapter", "phone"} /\ phase' \in {"first", "wait"} /\ call' = "sent"
         \/ query' = None /\ phase' = "sleep" /\ call' = None
  BY DEF Base, Types, GoesOn
<1>2. Types'
  BY <1>1 DEF GoesOn, TakesCopy, Types, Copies, None
<1>3. Rules'
  BY <1>1 DEF Base, Rules
<1>4. \A i \in 1..Len(inbox) : inbox[i].kind # "reply"
  BY <1>1 DEF Base, Calls, None
<1>5. Calls'
  <2>1. stage' \notin Opening /\ query' = None => call' = None /\ reply' = NoReply
    BY <1>1 DEF None
  <2>2. QED
    BY <1>1, <1>4, <2>1 DEF Calls
<1>6. NewsIs' /\ AsksAre' /\ Remembered'
  BY <1>1 DEF Base, NewsIs, AsksAre, Remembered, OnBus, Pending, BluezHolds
<1>7. QED
  BY <1>2, <1>3, <1>5, <1>6 DEF Base

Request == StartRequest \/ AdapterAnswered \/ PhoneAnswered \/ WakesUp \/ TimesOut

LEMMA RequestEndsOrGoesOn ==
  ASSUME Base, Request
  PROVE  (\E r \in {"no", "true"} : Ends(r)) \/ GoesOn
<1> USE DEF RequestOnly, Send, NewQuery, world
<1>1. /\ Types
      /\ phase # None => request = "running" /\ stage = "serving"
      /\ query # None => phase \in {"first", "wait"}
      /\ phase \in {"new", "sleep"} => query = None
      /\ reply # NoReply => call = None /\ reply \in Answers
      /\ stage \notin Opening /\ query = None => call = None
      /\ copy \in Copies /\ refreshed \in BOOLEAN
  BY DEF Base, Types, Calls, None, Copies
<1>2. "serving" \notin Opening
  BY StagesAre
<1>3. CASE StartRequest
  <2>1. request = "running" /\ call = None
    BY <1>1, <1>2, <1>3 DEF StartRequest, None
  <2>2. UNCHANGED <<world, stage, matches, owner, failed, copy, refreshed>>
    BY <1>3 DEF StartRequest
  <2>3. ASSUME Finish("no") PROVE Ends("no")
    BY <1>1, <2>1, <2>2, <2>3 DEF Ends, TakesCopy
  <2>4. ASSUME ~Finish("no") PROVE GoesOn
    <3>1. /\ phase' = "first" /\ query' = "adapter" /\ call' = "sent" /\ reply' = NoReply /\ moved' = FALSE
          /\ UNCHANGED <<inbox, request, adapterOn, dropped, answer, seen, held>>
      BY <1>3, <2>4 DEF StartRequest
    <3>2. adapterOn' \in BOOLEAN /\ moved' \in BOOLEAN /\ dropped' \in BOOLEAN
      BY <1>1, <3>1 DEF Types
    <3>3. QED
      BY <1>1, <2>1, <2>2, <3>1, <3>2 DEF GoesOn, TakesCopy
  <2>5. QED
    BY <2>3, <2>4
<1>4. CASE AdapterAnswered
  <2>1. request = "running" /\ call = None /\ phase \in {"first", "wait"} /\ reply.powered \in BOOLEAN
    BY <1>1, <1>4 DEF AdapterAnswered, None, Answers
  <2>2. UNCHANGED <<world, stage, matches, owner, failed, copy, refreshed>>
    BY <1>4 DEF AdapterAnswered
  <2>3. ASSUME Finish("no") PROVE Ends("no")
    BY <1>1, <2>1, <2>2, <2>3 DEF Ends, TakesCopy
  <2>4. ASSUME ~Finish("no") PROVE GoesOn
    <3>1. /\ phase' = phase /\ query = "adapter" /\ reply # NoReply
          /\ query' = "phone" /\ call' = "sent" /\ reply' = NoReply /\ adapterOn' = reply.powered
          /\ UNCHANGED <<inbox, request, moved, dropped, answer, seen, held>>
      BY <1>4, <2>4 DEF AdapterAnswered
    <3>2. adapterOn' \in BOOLEAN /\ moved' \in BOOLEAN /\ dropped' \in BOOLEAN
      BY <1>1, <2>1, <3>1 DEF Types
    <3>3. QED
      BY <1>1, <2>1, <2>2, <3>1, <3>2 DEF GoesOn, TakesCopy
  <2>5. QED
    BY <2>3, <2>4
<1>5. CASE WakesUp
  <2>1. request = "running" /\ call = None
    BY <1>1, <1>2, <1>5 DEF WakesUp, None
  <2>2. UNCHANGED <<world, stage, matches, owner, failed, copy, refreshed>>
    BY <1>5 DEF WakesUp
  <2>3. ASSUME Finish("no") PROVE Ends("no")
    BY <1>1, <2>1, <2>2, <2>3 DEF Ends, TakesCopy
  <2>4. ASSUME ~Finish("no") PROVE GoesOn
    <3>1. /\ phase' = "wait" /\ query' = "adapter" /\ call' = "sent" /\ reply' = NoReply /\ moved' = FALSE
          /\ UNCHANGED <<inbox, request, adapterOn, dropped, answer, seen, held>>
      BY <1>5, <2>4 DEF WakesUp
    <3>2. adapterOn' \in BOOLEAN /\ moved' \in BOOLEAN /\ dropped' \in BOOLEAN
      BY <1>1, <3>1 DEF Types
    <3>3. QED
      BY <1>1, <2>1, <2>2, <3>1, <3>2 DEF GoesOn, TakesCopy
  <2>5. QED
    BY <2>3, <2>4
<1>6. CASE TimesOut
  <2>1. request = "running"
    BY <1>1, <1>6 DEF TimesOut, None
  <2>2. UNCHANGED <<world, stage, matches, owner, failed, copy, refreshed>> /\ Finish("no")
    BY <1>6 DEF TimesOut
  <2>3. QED
    BY <1>1, <2>1, <2>2 DEF Ends, TakesCopy
<1>7. CASE PhoneAnswered
  <2>1. /\ request = "running" /\ call = None /\ phase \in {"first", "wait"}
        /\ TakesCopy
    BY <1>1, <1>7 DEF PhoneAnswered, None, Answers, Copies, Types, TakesCopy, Verdict
  <2>2. UNCHANGED <<world, stage, matches, owner, failed>>
    BY <1>7 DEF PhoneAnswered
  <2>3. ASSUME Finish("no") PROVE Ends("no")
    BY <1>1, <2>1, <2>2, <2>3 DEF Ends
  <2>5. ASSUME Finish("true"), ~Finish("no") PROVE Ends("true")
    <3>0. request' # request
      BY <2>1, <2>5 DEF Finish
    <3>1. Verdict /\ Connected
      BY <1>7, <2>5, <3>0 DEF PhoneAnswered, Verdict
    <3>2. QED
      BY <1>1, <2>1, <2>2, <2>5, <3>1 DEF Ends
  <2>4. ASSUME ~Finish("no"), ~Finish("true") PROVE GoesOn
    <3>1. /\ reply' = NoReply
          /\ UNCHANGED <<inbox, request, adapterOn, answer, seen, held>>
          /\ \/ query' = "adapter" /\ call' = "sent" /\ phase' = "wait"
             \/ query' = None /\ call' = None /\ phase' = "sleep"
      BY <1>7, <2>1, <2>4 DEF PhoneAnswered
    <3>2. adapterOn' \in BOOLEAN /\ moved' \in BOOLEAN /\ dropped' \in BOOLEAN
      BY <1>1, <1>7, <2>4 DEF Types, PhoneAnswered
    <3>3. QED
      BY <1>1, <2>1, <2>2, <3>1, <3>2 DEF GoesOn, TakesCopy
  <2>6. QED
    BY <2>3, <2>4, <2>5
<1>8. QED
  BY <1>3, <1>4, <1>5, <1>6, <1>7 DEF Request

-----------------------------------------------------------------------------
(* The main task, and a call that nobody follows.                          *)

\* A refused, cancelled or finished daemon closes its connection.
Closes ==
  /\ stage \in Opening \cup {"closing"} /\ HangUp
  /\ UNCHANGED <<world, backend, once, refreshed>>

\* close() with no request running.
StopsIdle ==
  /\ stage = "serving" /\ stage' = "closing" /\ request # "running"
  /\ UNCHANGED <<world, backend, once, refreshed, answer, seen, held, calls, inbox>>

LEMMA OpenKeepsBase ==
  ASSUME Base, OpenStep
  PROVE  Base'
<1> USE DEF world, once, history
<1>1. /\ Types /\ stage \in Opening /\ reply # NoReply /\ call = None /\ reply \in Answers
      /\ stage' = After(stage) /\ reply' = NoReply
      /\ call' = IF stage' = "serving" THEN None ELSE "sent"
      /\ owner' = IF stage = "GetNameOwner" THEN reply.owner ELSE owner
      /\ copy' = IF stage = "GetManagedObjects" THEN reply.phone ELSE copy
      /\ UNCHANGED <<link, phone, powered, epoch, connection, inbox, matches, failed, request, phase, query,
                     adapterOn, moved, dropped, answer, seen, held, refreshed>>
  BY DEF Base, Types, OpenStep, Calls
<1>2. /\ stage \in {"RequestName", "GetNameOwner", "WatchBluez", "WatchOwner", "Recheck",
                    "GetManagedObjects", "RegisterApplication", "RegisterAdvertisement"}
      /\ stage' \in Stages \ {"ended", "closing", "RequestName"} /\ request # "running"
  BY <1>1, StagesAre, StageAfter DEF Types, Stages
<1>3. /\ stage = "GetNameOwner" => owner' = reply.owner /\ owner' \in 1..MaxEpoch /\ owner' <= epoch
      /\ stage # "GetNameOwner" => owner' = owner
  BY <1>1 DEF Base, Calls, Answers
<1>4. Types'
  <2>1. owner' \in 0..MaxEpoch /\ copy' \in Phone \cup [state : {"gone"}, connected : BOOLEAN]
    BY <1>1, <1>3, DaemonAssumption DEF Answers, Types
  <2>2. call' \in {None, "sent", "answered"} /\ stage' \in Stages
    BY <1>1, <1>2 DEF Stages, None
  <2>3. QED
    BY <1>1, <1>2, <2>1, <2>2 DEF Types
<1>5. Rules'
  <2>1. ~(stage = "RequestName") => owner' # 0
    BY <1>2, <1>3 DEF Base, Rules
  <2>2. owner' <= epoch
    BY <1>3 DEF Base, Rules
  <2>3. /\ stage \in {"RequestName", "GetNameOwner"} => matches = 0
        /\ stage = "WatchBluez" => matches = 1
        /\ stage \notin {"RequestName", "GetNameOwner", "WatchBluez"} => matches = 2
    BY <1>1, <1>2 DEF Base, Rules, None
  <2>4. call' \in {"sent", None} /\ (stage' # "serving" => call' = "sent")
    BY <1>1
  <2>5. QED
    BY <1>1, <1>2, <2>1, <2>2, <2>3, <2>4, StageAfter DEF Rules
<1>6. \A i \in 1..Len(inbox) : inbox[i].kind # "reply"
  BY <1>1 DEF Base, Calls, None
<1>7. Calls'
  <2>1. stage' \notin Opening => call' = None
    BY <1>1, <1>2, StagesAre DEF Stages
  <2>2. QED
    BY <1>1, <1>6, <2>1 DEF Calls
<1>8. NewsIs'
  <2>1. CASE stage = "GetNameOwner"
    <3>1. \A i \in 1..Len(inbox) : ~News(inbox[i])
      BY <2>1, Bounds, <1>1 DEF Base, NewsIs, Rules
    <3>2. QED
      BY <1>1, <3>1 DEF NewsIs, News, Kinds, OfOwner
  <2>2. CASE stage # "GetNameOwner"
    BY <1>1, <1>3, <2>2 DEF Base, NewsIs
  <2>3. QED
    BY <2>1, <2>2
<1>9. AsksAre' /\ Remembered'
  <2>1. OnBus => OnBus'
    BY <1>1, <1>2 DEF OnBus
  <2>2. QED
    BY <1>1, <2>1 DEF Base, AsksAre, Remembered, Pending, BluezHolds
<1>10. QED
  BY <1>4, <1>5, <1>7, <1>8, <1>9 DEF Base

LEMMA ClosesKeepsBase ==
  ASSUME Base, Closes
  PROVE  Base'
<1> USE DEF world, backend, once
<1>1. /\ Types /\ inbox' = <<>> /\ stage' = "ended" /\ answer' = Lost /\ call' = None /\ reply' = NoReply
      /\ stage # "serving"
      /\ UNCHANGED <<link, phone, powered, epoch, connection, matches, owner, copy, failed, request, phase,
                     query, adapterOn, moved, dropped, refreshed>>
      /\ seen' = {c \in seen : answer'[c] # "no"} /\ held' = {c \in held : answer'[c] # "no"}
  BY StagesAre DEF Closes, HangUp, Forget, Base
<1>2. inbox' \in Seq(Message) /\ Len(inbox') = 0
  BY <1>1, EmptySeq
<1>3. answer' \in [Callers -> {"no", "sent", "joined", "true"}] /\ Pending' = {}
  BY <1>1 DEF Lost, Pending, Types
<1>4. Types' /\ Rules'
  <2>1. seen' \subseteq Callers /\ held' \subseteq Callers
    BY <1>1 DEF Types
  <2>2. /\ Types /\ stage' \in Stages /\ stage # "serving" /\ call' = None /\ reply' = NoReply /\ stage' = "ended"
        /\ UNCHANGED <<link, phone, powered, epoch, connection, matches, owner, copy, failed, request, phase,
                       query, adapterOn, moved, dropped, refreshed>>
    BY <1>1 DEF Stages
  <2>3. Types'
    BY <1>2, <1>3, <2>1, <2>2 DEF Types
  <2>4. Rules'
    BY <2>2 DEF Base, Rules
  <2>5. QED
    BY <2>3, <2>4
<1>5. Calls' /\ NewsIs' /\ AsksAre' /\ Remembered'
  <2>1. 1..Len(inbox') = {}
    BY <1>2
  <2>2. QED
    BY <1>1, <1>3, <2>1 DEF Calls, NewsIs, AsksAre, Remembered
<1>6. QED
  BY <1>4, <1>5 DEF Base

LEMMA IdleKeepsBase ==
  ASSUME Base, StopsIdle \/ WatchBus \/ OthersAsk
  PROVE  Base'
<1> USE DEF world, calls, backend, once, history
<1>1. CASE StopsIdle
  <2>1. /\ Types /\ stage = "serving" /\ stage' = "closing" /\ request # "running"
        /\ UNCHANGED <<link, phone, powered, epoch, connection, call, reply, inbox, matches, owner, copy, failed,
                       request, phase, query, adapterOn, moved, dropped, answer, seen, held, refreshed>>
    BY <1>1 DEF StopsIdle, Base
  <2>2. Types' /\ Rules'
    BY <2>1 DEF Base, Types, Rules, Stages
  <2>3. Calls' /\ NewsIs' /\ AsksAre' /\ Remembered'
    BY <2>1, StagesAre DEF Base, Calls, NewsIs, AsksAre, Remembered, Pending, BluezHolds, OnBus
  <2>4. QED
    BY <2>2, <2>3 DEF Base
<1>2. CASE WatchBus
  <2>1. /\ Types /\ failed' = TRUE
        /\ UNCHANGED <<link, phone, powered, epoch, connection, stage, call, reply, inbox, matches, owner, copy,
                       request, phase, query, adapterOn, moved, dropped, answer, seen, held, refreshed>>
    BY <1>2 DEF WatchBus, Base
  <2>2. Types' /\ Rules'
    BY <2>1 DEF Base, Types, Rules
  <2>3. Calls' /\ NewsIs' /\ AsksAre' /\ Remembered'
    BY <2>1 DEF Base, Calls, NewsIs, AsksAre, Remembered, Pending, BluezHolds, OnBus
  <2>4. QED
    BY <2>2, <2>3 DEF Base
<1>3. CASE OthersAsk
  <2>1. Told(None, "joined") = answer
    <3>1. None \notin Callers /\ answer \in [Callers -> {"no", "sent", "joined", "true"}]
      BY DaemonAssumption DEF None, Base, Types
    <3>2. \A d \in Callers : d # None
      BY <3>1
    <3>3. QED
      BY <3>1, <3>2 DEF Told
  <2>2. /\ Types /\ stage = "serving" /\ answer' = answer
        /\ UNCHANGED <<link, phone, powered, epoch, connection, stage, call, reply, inbox, matches, owner, copy,
                       failed, query, adapterOn, moved, dropped, seen, held, refreshed>>
        /\ \/ request = "running" /\ UNCHANGED <<request, phase>>
           \/ request # "running" /\ request' = "running" /\ phase' = "new"
    BY <1>3, <2>1 DEF OthersAsk, JoinOrStart, Base
  <2>3. request # "running" => query = None
    BY <2>2 DEF Types, None
  <2>4. Types' /\ Rules'
    BY <2>2, <2>3 DEF Base, Types, Rules, None
  <2>5. Calls' /\ NewsIs' /\ AsksAre' /\ Remembered'
    BY <2>2 DEF Base, Calls, NewsIs, AsksAre, Remembered, Pending, BluezHolds, OnBus
  <2>6. QED
    BY <2>4, <2>5 DEF Base
<1>4. QED
  BY <1>1, <1>2, <1>3

\* Every step is one of these.
LEMMA Steps ==
  ASSUME Base, DaemonNext
  PROVE  \/ WorldOnly /\ Watched /\ \E ms \in Seq(Message) : Heard(ms)
         \/ BluezReleases \/ BusDrops \/ Serve \/ (\E c \in Callers : Ask(c))
         \/ Read \/ (\E r \in {"no", "true"} : Ends(r)) \/ GoesOn
         \/ OpenStep \/ Closes \/ StopsIdle \/ WatchBus \/ OthersAsk
<1> USE DEF world, calls, backend, once
<1>1. ASSUME WorldChanges PROVE WorldOnly /\ Watched /\ \E ms \in Seq(Message) : Heard(ms)
  BY <1>1, WorldIsHeard DEF Base, Heard
<1>2. ASSUME CloseApi PROVE Ends("no") \/ StopsIdle
  <2>1. copy \in Copies /\ refreshed \in BOOLEAN
    BY DEF Base, Types, Copies
  <2>2. CASE request = "running"
    BY <1>2, <2>1, <2>2 DEF CloseApi, Ends, TakesCopy
  <2>3. CASE request # "running"
    BY <1>2, <2>3 DEF CloseApi, StopsIdle
  <2>4. QED
    BY <2>2, <2>3
<1>3. ASSUME OpenFails \/ CloseBackend PROVE Closes
  BY <1>3 DEF OpenFails, CloseBackend, Closes
<1>4. QED
  BY <1>1, <1>2, <1>3, RequestEndsOrGoesOn DEF DaemonNext, World, Daemon, WorldChanges, Request, Fail, Stop

LEMMA BaseStep ==
  ASSUME Base, [DaemonNext]_daemonVars
  PROVE  Base'
<1>1. CASE DaemonNext
  <2>1. ASSUME WorldOnly, Watched, NEW ms \in Seq(Message), Heard(ms) PROVE Base'
    <3>1. Arrived
      BY <2>1, Arrives DEF Base
    <3>2. QED
      BY <2>1, <3>1, WorldKeepsBase DEF Heard
  <2>2. QED
    BY <1>1, <2>1, Steps, ReleaseKeepsBase, DropKeepsBase, ServeKeepsBase, AskKeepsBase, ReadKeepsBase,
       EndsKeepsBase, GoesOnKeepsBase, OpenKeepsBase, ClosesKeepsBase, IdleKeepsBase
<1>2. CASE UNCHANGED daemonVars
  <2> USE DEF daemonVars, world, calls, backend, once, history
  <2>1. Types' /\ Rules' /\ Calls'
    BY <1>2 DEF Base, Types, Rules, Calls
  <2>2. NewsIs' /\ AsksAre' /\ Remembered'
    BY <1>2 DEF Base, NewsIs, AsksAre, Remembered, Pending, BluezHolds, OnBus
  <2>3. QED
    BY <2>1, <2>2 DEF Base
<1>3. QED
  BY <1>1, <1>2

-----------------------------------------------------------------------------
(* What a reply says is the case unless there is news behind it.           *)

\* A reply: place 0 for the one that has been read, or its place in the inbox.
Said(j)  == (j = 0 /\ reply # NoReply) \/ (j \in 1..Len(inbox) /\ inbox[j].kind = "reply")
Value(j) == IF j = 0 THEN reply ELSE inbox[j].value

NewsAfter(j) == \E i \in 1..Len(inbox) : i > j /\ News(inbox[i])
NewsUpTo(j)  == \E i \in 1..Len(inbox) : i <= j /\ News(inbox[i])
PhoneNewsAfter(j) == \E i \in 1..Len(inbox) : i > j /\ OfPhone(inbox[i])

\* A query has been answered, so it was by the bluetoothd the daemon knows.
Answered ==
  query = "phone" \/ refreshed \/ (query = "adapter" /\ \E j \in 0..Len(inbox) : Said(j))

\* From then on all the news is its news, up to the news that there is another.
OneBluez ==
  Answered /\ Watched =>
    /\ epoch # owner => \E k \in 1..Len(inbox) : OfOwner(inbox[k])
    /\ \A i \in 1..Len(inbox) :
         News(inbox[i]) /\ inbox[i].from # owner => \E k \in 1..Len(inbox) : k <= i /\ OfOwner(inbox[k])

\* Nothing has been read since the query began that changes its verdict.
Steady == Watched /\ ~moved

PowerSaid ==
  query = "adapter" /\ Steady =>
    \A j \in 0..Len(inbox) : Said(j) /\ ~NewsAfter(j) => Value(j).powered = powered

PowerKept == query = "phone" /\ Steady /\ call = "sent" /\ adapterOn /\ ~NewsAfter(0) => powered

TrustSaid ==
  query = "phone" /\ Steady =>
    \A j \in 0..Len(inbox) :
      Said(j) /\ Value(j).phone.state = "trusted" => phone.state = "trusted" \/ PhoneNewsAfter(j)

ConnectedPhone == [state |-> "trusted", connected |-> TRUE]

\* It was so when the reply was sent: for who was waiting then, and for who joins
\* before the reader gets to any news.
HeldSaid ==
  query = "phone" /\ Steady /\ adapterOn =>
    \A j \in 0..Len(inbox) :
      Said(j) /\ Value(j).phone = ConnectedPhone =>
        /\ ~NewsAfter(0) => BluezHolds
        /\ \A i, n \in 1..Len(inbox) :
             inbox[i].kind = "ask" /\ i <= n /\ j <= n /\ ~NewsUpTo(n) => inbox[i].value \in held
        /\ ~NewsUpTo(j) => \A c \in Callers : answer[c] = "joined" => c \in held

CopyIs ==
  /\ refreshed => stage \in {"serving", "closing", "ended"}
  /\ refreshed /\ Watched /\ copy.state = "trusted" /\ phone.state # "trusted" =>
       \E i \in 1..Len(inbox) : OfPhone(inbox[i]) \/ OfOwner(inbox[i])

Order == OneBluez /\ PowerSaid /\ PowerKept /\ TrustSaid /\ HeldSaid

Inv == Base /\ Order /\ CopyIs /\ TrueIsFresh

-----------------------------------------------------------------------------

\* Where a query is, and where the copy counts, both rules are installed.
LEMMA AnsweredWhere ==
  ASSUME Base, CopyIs
  PROVE  /\ query # None => stage = "serving" /\ matches = 2
         /\ Answered /\ Watched => stage \in {"serving", "closing"} /\ matches = 2 /\ owner # 0
         /\ Watched => OnBus /\ ~failed
         /\ Answered => query # None \/ refreshed
BY DEF Base, Types, Rules, CopyIs, Answered, Watched, OnBus, None

\* When nothing is waited for, only the copy is left to account for.
LEMMA NoQuery ==
  ASSUME query' = None
  PROVE  PowerSaid' /\ PowerKept' /\ TrustSaid' /\ HeldSaid' /\ (Answered' => refreshed')
BY DEF PowerSaid, PowerKept, TrustSaid, HeldSaid, Answered, None

\* A daemon that listens no longer promises nothing.
LEMMA NotWatched ==
  ASSUME ~Watched', refreshed' => stage' \in {"serving", "closing", "ended"}
  PROVE  Order' /\ CopyIs'
BY DEF Order, OneBluez, PowerSaid, PowerKept, TrustSaid, HeldSaid, CopyIs, Steady

\* News comes behind everything that is there.
LEMMA WorldKeepsOrder ==
  ASSUME Inv, WorldOnly, Arrived, Watched
  PROVE  Order' /\ CopyIs' /\ TrueIsFresh'
<1> DEFINE old == Len(inbox)
<1> USE DEF calls, backend, once, history
<1>1. /\ Base /\ OneBluez /\ PowerSaid /\ PowerKept /\ TrustSaid /\ HeldSaid /\ CopyIs /\ TrueIsFresh
      /\ Len(inbox) \in Nat /\ Len(inbox') \in Nat /\ Len(inbox') >= Len(inbox)
      /\ UNCHANGED <<connection, stage, call, reply, matches, owner, copy, failed, request, phase,
                     query, adapterOn, moved, dropped, answer, refreshed>>
      /\ \A k \in 1..Len(inbox) : inbox'[k] = inbox[k]
      /\ \A k \in 1..Len(inbox') : k > Len(inbox) => News(inbox'[k]) /\ inbox'[k].from = epoch
  BY Bounds DEF Inv, Order, WorldOnly, Arrived, Base
<1>2. held \subseteq held' /\ seen \subseteq seen'
  BY DEF WorldOnly, Remember
<1>3. (query # None \/ Answered) => matches = 2 /\ matches >= 1
  BY <1>1, AnsweredWhere
<1>4. Watched' /\ Steady' = Steady
  BY <1>1 DEF Watched, OnBus, Steady
<1>5. \A j \in 0..Len(inbox') : Said(j)' => j \in 0..Len(inbox) /\ Said(j) /\ Value(j)' = Value(j)
  BY <1>1 DEF Said, Value, News, Kinds
<1>6. \A j \in 0..Len(inbox) : Said(j) => Said(j)' /\ j \in 0..Len(inbox')
  BY <1>1 DEF Said
<1>7. Answered' <=> Answered
  BY <1>1, <1>5, <1>6 DEF Answered
<1>8. \A j \in Nat : /\ NewsAfter(j) => NewsAfter(j)'
                     /\ NewsUpTo(j) => NewsUpTo(j)'
                     /\ PhoneNewsAfter(j) => PhoneNewsAfter(j)'
  <2>1. \A i \in 1..Len(inbox) : i \in 1..Len(inbox')
    BY <1>1
  <2>2. QED
    BY <1>1, <2>1 DEF NewsAfter, NewsUpTo, PhoneNewsAfter
<1>9. ASSUME query # None, NEW j \in 0..Len(inbox), ~NewsAfter(j)'
      PROVE  phone' = phone /\ powered' = powered
  <2>1. ~(Len(inbox') > Len(inbox))
    <3>1. ASSUME Len(inbox') > Len(inbox) PROVE NewsAfter(j)'
      <4>1. Len(inbox') \in 1..Len(inbox') /\ Len(inbox') > j
        BY <1>1, <3>1
      <4>2. News(inbox'[Len(inbox')])
        BY <1>1, <3>1, <4>1
      <4>3. QED
        BY <4>1, <4>2 DEF NewsAfter
    <3>2. QED
      BY <1>9, <3>1
  <2>2. QED
    BY <1>3, <1>9, <2>1 DEF Arrived
<1>10. OneBluez'
  <2> SUFFICES ASSUME Answered, Watched
      PROVE  /\ epoch' # owner => \E k \in 1..Len(inbox') : OfOwner(inbox'[k])
             /\ \A i \in 1..Len(inbox') :
                  News(inbox'[i]) /\ inbox'[i].from # owner => \E k \in 1..Len(inbox') : k <= i /\ OfOwner(inbox'[k])
    BY <1>1, <1>7 DEF OneBluez
  <2>1. \A k \in 1..Len(inbox) : k \in 1..Len(inbox') /\ inbox'[k] = inbox[k]
    BY <1>1
  <2>2. epoch # owner => \E k \in 1..Len(inbox) : OfOwner(inbox[k])
    BY <1>1 DEF OneBluez
  <2>3. epoch' # owner => \E k \in 1..Len(inbox') : OfOwner(inbox'[k])
    BY <1>3, <2>1, <2>2 DEF Arrived
  <2>4. ASSUME NEW i \in 1..Len(inbox'), News(inbox'[i]), inbox'[i].from # owner
        PROVE  \E k \in 1..Len(inbox') : k <= i /\ OfOwner(inbox'[k])
    <3>1. CASE i \in 1..Len(inbox)
      <4>1. \E k \in 1..Len(inbox) : k <= i /\ OfOwner(inbox[k])
        BY <1>1, <2>4, <3>1 DEF OneBluez
      <4>2. QED
        BY <2>1, <4>1
    <3>2. CASE i > Len(inbox)
      <4>1. PICK k \in 1..Len(inbox) : OfOwner(inbox[k])
        BY <1>1, <2>2, <2>4, <3>2
      <4>2. k <= i
        BY <1>1, <3>2
      <4>3. QED
        BY <2>1, <4>1, <4>2
    <3>3. QED
      BY <1>1, <3>1, <3>2
  <2>5. QED
    BY <2>3, <2>4
<1>11. PowerSaid'
  <2> SUFFICES ASSUME query = "adapter", Steady, NEW j \in 0..Len(inbox'), Said(j)', ~NewsAfter(j)'
      PROVE  Value(j)'.powered = powered'
    BY <1>1, <1>4 DEF PowerSaid
  <2>1. j \in 0..Len(inbox) /\ Said(j) /\ Value(j)' = Value(j) /\ ~NewsAfter(j)
    BY <1>1, <1>5, <1>8
  <2>2. powered' = powered
    BY <1>9, <2>1 DEF None
  <2>3. QED
    BY <1>1, <2>1, <2>2 DEF PowerSaid
<1>12. PowerKept'
  <2> SUFFICES ASSUME query = "phone", Steady, call = "sent", adapterOn, ~NewsAfter(0)'
      PROVE  powered'
    BY <1>1, <1>4 DEF PowerKept
  <2>1. powered' = powered /\ ~NewsAfter(0)
    BY <1>1, <1>8, <1>9 DEF None
  <2>2. QED
    BY <1>1, <2>1 DEF PowerKept
<1>13. TrustSaid'
  <2> SUFFICES ASSUME query = "phone", Steady, NEW j \in 0..Len(inbox'), Said(j)', Value(j)'.phone.state = "trusted"
      PROVE  phone'.state = "trusted" \/ PhoneNewsAfter(j)'
    BY <1>1, <1>4 DEF TrustSaid
  <2>1. j \in 0..Len(inbox) /\ Said(j) /\ Value(j)' = Value(j)
    BY <1>5
  <2>2. phone.state = "trusted" \/ PhoneNewsAfter(j)
    BY <1>1, <2>1 DEF TrustSaid
  <2>3. CASE phone'.state = phone.state
    BY <1>1, <1>8, <2>1, <2>2, <2>3
  <2>4. CASE phone'.state # phone.state
    <3>1. PICK k \in 1..Len(inbox') : k > Len(inbox) /\ OfPhone(inbox'[k])
      BY <1>3, <2>4 DEF Arrived, None
    <3>2. k > j
      BY <1>1, <2>1, <3>1
    <3>3. QED
      BY <3>1, <3>2 DEF PhoneNewsAfter
  <2>5. QED
    BY <2>3, <2>4
<1>14. HeldSaid'
  <2> SUFFICES ASSUME query = "phone", Steady, adapterOn, NEW j \in 0..Len(inbox'), Said(j)',
                      Value(j)'.phone = ConnectedPhone
      PROVE  /\ ~NewsAfter(0)' => BluezHolds'
             /\ \A i, n \in 1..Len(inbox') :
                  inbox'[i].kind = "ask" /\ i <= n /\ j <= n /\ ~NewsUpTo(n)' => inbox'[i].value \in held'
             /\ ~NewsUpTo(j)' => \A c \in Callers : answer[c] = "joined" => c \in held'
    BY <1>1, <1>4 DEF HeldSaid
  <2>1. j \in 0..Len(inbox) /\ Said(j) /\ Value(j)' = Value(j) /\ j \in Nat
    BY <1>1, <1>5
  <2>2. /\ ~NewsAfter(0) => BluezHolds
        /\ \A i, n \in 1..Len(inbox) :
             inbox[i].kind = "ask" /\ i <= n /\ j <= n /\ ~NewsUpTo(n) => inbox[i].value \in held
        /\ ~NewsUpTo(j) => \A c \in Callers : answer[c] = "joined" => c \in held
    BY <1>1, <2>1 DEF HeldSaid
  <2>3. ~NewsAfter(0)' => BluezHolds'
    <3>1. ASSUME ~NewsAfter(0)' PROVE phone' = phone /\ powered' = powered /\ ~NewsAfter(0)
      BY <1>1, <1>8, <1>9, <3>1 DEF None
    <3>2. QED
      BY <2>2, <3>1 DEF BluezHolds
  <2>4. ASSUME NEW i \in 1..Len(inbox'), NEW n \in 1..Len(inbox'), inbox'[i].kind = "ask", i <= n, j <= n,
               ~NewsUpTo(n)'
        PROVE  inbox'[i].value \in held'
    <3>1. i \in 1..Len(inbox) /\ inbox'[i] = inbox[i]
      BY <1>1, <2>4 DEF News, Kinds
    <3>2. n \in 1..Len(inbox)
      <4>1. n > Len(inbox) => NewsUpTo(n)'
        BY <1>1 DEF NewsUpTo
      <4>2. QED
        BY <1>1, <2>4, <4>1
    <3>3. ~NewsUpTo(n)
      BY <1>8, <2>4
    <3>4. QED
      BY <1>2, <2>2, <2>4, <3>1, <3>2, <3>3
  <2>5. ~NewsUpTo(j)' => \A c \in Callers : answer[c] = "joined" => c \in held'
    BY <1>2, <1>8, <2>1, <2>2
  <2>6. QED
    BY <2>3, <2>4, <2>5
<1>15. CopyIs'
  <2>1. ASSUME refreshed, copy.state = "trusted", phone'.state # "trusted"
        PROVE  \E i \in 1..Len(inbox') : OfPhone(inbox'[i]) \/ OfOwner(inbox'[i])
    <3>1. CASE phone'.state = phone.state
      <4>1. PICK i \in 1..Len(inbox) : OfPhone(inbox[i]) \/ OfOwner(inbox[i])
        BY <1>1, <2>1, <3>1 DEF CopyIs
      <4>2. QED
        BY <1>1, <4>1
    <3>2. CASE phone'.state # phone.state
      BY <1>1, <1>3, <2>1, <3>2 DEF Arrived, Answered
    <3>3. QED
      BY <3>1, <3>2
  <2>2. QED
    BY <1>1, <2>1 DEF CopyIs
<1>16. TrueIsFresh'
  BY <1>1, <1>2 DEF TrueIsFresh
<1>17. QED
  BY <1>10, <1>11, <1>12, <1>13, <1>14, <1>15, <1>16 DEF Order

\* What is no news behind the rest changes nothing of what was said.
Joins(m) ==
  /\ Len(inbox) \in Nat /\ Len(inbox') = Len(inbox) + 1
  /\ \A i \in 1..Len(inbox) : inbox'[i] = inbox[i]
  /\ inbox'[Len(inbox) + 1] = m
  /\ ~News(m) /\ ~OfPhone(m) /\ ~OfOwner(m)

LEMMA JoinsQuietly ==
  ASSUME NEW m, Joins(m)
  PROVE  /\ \A j : /\ NewsAfter(j)' <=> NewsAfter(j)
                   /\ NewsUpTo(j)' <=> NewsUpTo(j)
                   /\ PhoneNewsAfter(j)' <=> PhoneNewsAfter(j)
         /\ \A i \in 1..Len(inbox') : i \in 1..Len(inbox) \/ (i = Len(inbox) + 1 /\ inbox'[i] = m)
<1>1. \A i \in 1..Len(inbox') : i \in 1..Len(inbox) \/ (i = Len(inbox) + 1 /\ inbox'[i] = m)
  BY DEF Joins
<1>2. \A i \in 1..Len(inbox) : i \in 1..Len(inbox') /\ inbox'[i] = inbox[i]
  BY DEF Joins
<1>3. QED
  BY <1>1, <1>2 DEF Joins, NewsAfter, NewsUpTo, PhoneNewsAfter

LEMMA JoinsOneBluez ==
  ASSUME NEW m, Joins(m), OneBluez, Answered, UNCHANGED <<epoch, owner>>, Watched' => Watched
  PROVE  OneBluez'
<1>1. \A i \in 1..Len(inbox) : i \in 1..Len(inbox') /\ inbox'[i] = inbox[i]
  BY DEF Joins
<1>2. \A i \in 1..Len(inbox') : News(inbox'[i]) => i \in 1..Len(inbox)
  BY JoinsQuietly DEF Joins
<1>3. QED
  BY <1>1, <1>2 DEF OneBluez

LEMMA ReleaseKeepsOrder ==
  ASSUME Inv, BluezReleases
  PROVE  Order' /\ CopyIs' /\ TrueIsFresh'
<1> DEFINE m == Signal("released", TRUE)
<1> USE DEF world, calls, backend, once, history
<1>1. /\ Types /\ inbox' = Append(inbox, m) /\ m \in Message /\ m.kind = "released"
      /\ UNCHANGED <<link, phone, powered, epoch, connection, stage, call, reply, matches, owner,
                     copy, failed, request, phase, query, adapterOn, moved, dropped, answer, seen,
                     held, refreshed>>
  BY DEF BluezReleases, Inv, Base, Signal, Message, Types
<1> HIDE DEF m
<1>2. Joins(m)
  BY <1>1, Appended, Bounds DEF Joins, News, Kinds, OfPhone, OfOwner
<1>3. /\ \A i \in 1..Len(inbox) : i \in 1..Len(inbox') /\ inbox'[i] = inbox[i]
      /\ \A i \in 1..Len(inbox') : i \in 1..Len(inbox) \/ (i = Len(inbox) + 1 /\ inbox'[i] = m)
      /\ \A i \in 1..Len(inbox') : inbox'[i].kind # "released" => i \in 1..Len(inbox)
      /\ Len(inbox) \in Nat /\ Len(inbox') = Len(inbox) + 1
  BY <1>1, <1>2, JoinsQuietly DEF Joins
<1>4. /\ \A j \in 0..Len(inbox') : Said(j)' => j \in 0..Len(inbox) /\ Said(j) /\ Value(j)' = Value(j)
      /\ \A j \in 0..Len(inbox) : Said(j) => Said(j)' /\ j \in 0..Len(inbox')
  BY <1>1, <1>3 DEF Said, Value
<1>5. /\ Watched' = Watched /\ Steady' = Steady
      /\ Answered' <=> Answered
  BY <1>1, <1>4 DEF Watched, OnBus, Steady, Answered
<1>6. OneBluez'
  <2>1. CASE Answered
    BY <1>1, <1>2, <1>5, <2>1, JoinsOneBluez DEF Inv, Order
  <2>2. CASE ~Answered
    BY <1>5, <2>2 DEF OneBluez
  <2>3. QED
    BY <2>1, <2>2
<1>7. PowerSaid' /\ PowerKept' /\ TrustSaid'
  BY <1>1, <1>2, <1>4, <1>5, JoinsQuietly DEF Inv, Order, PowerSaid, PowerKept, TrustSaid
<1>8. HeldSaid'
  <2> SUFFICES ASSUME query = "phone", Steady, adapterOn, NEW j \in 0..Len(inbox'), Said(j)',
                      Value(j)'.phone = ConnectedPhone
      PROVE  /\ ~NewsAfter(0)' => BluezHolds'
             /\ \A i, n \in 1..Len(inbox') :
                  inbox'[i].kind = "ask" /\ i <= n /\ j <= n /\ ~NewsUpTo(n)' => inbox'[i].value \in held'
             /\ ~NewsUpTo(j)' => \A c \in Callers : answer[c] = "joined" => c \in held'
    BY <1>1, <1>5 DEF HeldSaid
  <2>1. j \in 0..Len(inbox) /\ Said(j) /\ Value(j)' = Value(j)
    BY <1>4
  <2>2. /\ ~NewsAfter(0) => BluezHolds
        /\ \A i, n \in 1..Len(inbox) :
             inbox[i].kind = "ask" /\ i <= n /\ j <= n /\ ~NewsUpTo(n) => inbox[i].value \in held
        /\ ~NewsUpTo(j) => \A c \in Callers : answer[c] = "joined" => c \in held
    BY <2>1 DEF Inv, Order, HeldSaid
  <2>3. ASSUME NEW i \in 1..Len(inbox'), NEW n \in 1..Len(inbox'), inbox'[i].kind = "ask", i <= n, j <= n,
               ~NewsUpTo(n)'
        PROVE  inbox'[i].value \in held'
    <3>1. i \in 1..Len(inbox) /\ inbox'[i] = inbox[i] /\ ~NewsUpTo(n)
      BY <1>2, <1>3, <2>3, JoinsQuietly
    <3>2. CASE n \in 1..Len(inbox)
      BY <1>1, <2>2, <2>3, <3>1, <3>2
    <3>3. CASE n = Len(inbox) + 1
      <4>1. ~NewsUpTo(Len(inbox)) /\ Len(inbox) \in 1..Len(inbox)
        BY <1>3, <3>1, <3>3 DEF NewsUpTo
      <4>2. i <= Len(inbox) /\ j <= Len(inbox)
        BY <2>1, <3>1
      <4>3. QED
        BY <1>1, <2>2, <2>3, <3>1, <4>1, <4>2
    <3>4. QED
      BY <1>3, <3>2, <3>3
  <2>4. QED
    BY <1>1, <1>2, <2>2, <2>3, JoinsQuietly DEF BluezHolds
<1>9. CopyIs' /\ TrueIsFresh'
  BY <1>1, <1>3, <1>5 DEF Inv, CopyIs, TrueIsFresh
<1>10. QED
  BY <1>6, <1>7, <1>8, <1>9 DEF Order

LEMMA AskKeepsOrder ==
  ASSUME Inv, NEW c \in Callers, Ask(c)
  PROVE  Order' /\ CopyIs' /\ TrueIsFresh'
<1> DEFINE m == [kind |-> "ask", value |-> c, from |-> epoch]
<1> USE DEF world, calls, backend, once, history
<1>1. /\ Types /\ inbox' = Append(inbox, m) /\ m \in Message /\ m.kind = "ask" /\ m.value = c
      /\ UNCHANGED <<link, phone, powered, epoch, connection, stage, call, reply, matches, owner,
                     copy, failed, request, phase, query, adapterOn, moved, dropped, refreshed>>
      /\ answer' = [answer EXCEPT ![c] = "sent"]
      /\ seen' = (seen \ {c}) \cup {d \in {c} : link} /\ held' = (held \ {c}) \cup {d \in {c} : BluezHolds}
  BY DEF Ask, Inv, Base, Signal, Message, Types
<1> HIDE DEF m
<1>2. Joins(m)
  BY <1>1, Appended, Bounds DEF Joins, News, Kinds, OfPhone, OfOwner
<1>3. /\ \A i \in 1..Len(inbox) : i \in 1..Len(inbox') /\ inbox'[i] = inbox[i]
      /\ \A i \in 1..Len(inbox') : i \in 1..Len(inbox) \/ (i = Len(inbox) + 1 /\ inbox'[i] = m)
      /\ Len(inbox) \in Nat /\ Len(inbox') = Len(inbox) + 1
  BY <1>1, <1>2, JoinsQuietly DEF Joins
<1>4. /\ \A j \in 0..Len(inbox') : Said(j)' => j \in 0..Len(inbox) /\ Said(j) /\ Value(j)' = Value(j)
      /\ \A j \in 0..Len(inbox) : Said(j) => Said(j)' /\ j \in 0..Len(inbox')
  BY <1>1, <1>3 DEF Said, Value
<1>5. /\ Watched' = Watched /\ Steady' = Steady
      /\ Answered' <=> Answered
  BY <1>1, <1>4 DEF Watched, OnBus, Steady, Answered
<1>6. OneBluez'
  <2>1. CASE Answered
    BY <1>1, <1>2, <1>5, <2>1, JoinsOneBluez DEF Inv, Order
  <2>2. CASE ~Answered
    BY <1>5, <2>2 DEF OneBluez
  <2>3. QED
    BY <2>1, <2>2
<1>7. PowerSaid' /\ PowerKept' /\ TrustSaid'
  BY <1>1, <1>2, <1>4, <1>5, JoinsQuietly DEF Inv, Order, PowerSaid, PowerKept, TrustSaid
<1>8. /\ BluezHolds => c \in held'
      /\ \A d \in held : d # c => d \in held'
      /\ \A d \in seen : d # c => d \in seen'
      /\ \A d \in Callers : d # c => answer'[d] = answer[d]
      /\ answer'[c] = "sent"
  BY <1>1 DEF Types
<1>9. HeldSaid'
  <2> SUFFICES ASSUME query = "phone", Steady, adapterOn, NEW j \in 0..Len(inbox'), Said(j)',
                      Value(j)'.phone = ConnectedPhone
      PROVE  /\ ~NewsAfter(0)' => BluezHolds'
             /\ \A i, n \in 1..Len(inbox') :
                  inbox'[i].kind = "ask" /\ i <= n /\ j <= n /\ ~NewsUpTo(n)' => inbox'[i].value \in held'
             /\ ~NewsUpTo(j)' => \A d \in Callers : answer'[d] = "joined" => d \in held'
    BY <1>1, <1>5 DEF HeldSaid
  <2>1. j \in 0..Len(inbox) /\ Said(j) /\ Value(j)' = Value(j)
    BY <1>4
  <2>2. /\ ~NewsAfter(0) => BluezHolds
        /\ \A i, n \in 1..Len(inbox) :
             inbox[i].kind = "ask" /\ i <= n /\ j <= n /\ ~NewsUpTo(n) => inbox[i].value \in held
        /\ ~NewsUpTo(j) => \A d \in Callers : answer[d] = "joined" => d \in held
    BY <2>1 DEF Inv, Order, HeldSaid
  <2>3. ASSUME NEW i \in 1..Len(inbox'), NEW n \in 1..Len(inbox'), inbox'[i].kind = "ask", i <= n, j <= n,
               ~NewsUpTo(n)'
        PROVE  inbox'[i].value \in held'
    <3>1. ~NewsUpTo(n)
      BY <1>2, <2>3, JoinsQuietly
    <3>2. CASE i \in 1..Len(inbox) /\ inbox'[i].value # c
      <4>1. inbox'[i] = inbox[i]
        BY <1>3, <3>2
      <4>2. CASE n \in 1..Len(inbox)
        BY <1>8, <2>2, <2>3, <3>1, <3>2, <4>1, <4>2
      <4>3. CASE n = Len(inbox) + 1
        <5>1. ~NewsUpTo(Len(inbox)) /\ Len(inbox) \in 1..Len(inbox)
          BY <1>3, <3>1, <3>2, <4>3 DEF NewsUpTo
        <5>2. i <= Len(inbox) /\ j <= Len(inbox)
          BY <2>1, <3>2
        <5>3. QED
          BY <1>8, <2>2, <2>3, <3>2, <4>1, <5>1, <5>2
      <4>4. QED
        BY <1>3, <4>2, <4>3
    <3>3. CASE i \in 1..Len(inbox) /\ inbox'[i].value = c
      <4>1. inbox[i].kind = "ask" /\ inbox[i].value = c
        BY <1>3, <2>3, <3>3
      <4>2. answer[c] = "sent"
        BY <3>3, <4>1 DEF Inv, Base, AsksAre
      <4>3. QED
        BY <4>2 DEF Ask, Pending
    <3>4. CASE i = Len(inbox) + 1 /\ inbox'[i] = m
      <4>1. n = Len(inbox) + 1 /\ inbox'[i].value = c
        BY <1>1, <1>3, <2>3, <3>4
      <4>2. ~NewsAfter(0)
        BY <1>3, <3>1, <4>1 DEF NewsUpTo, NewsAfter
      <4>3. QED
        BY <1>8, <2>2, <4>1, <4>2
    <3>5. QED
      BY <1>3, <3>2, <3>3, <3>4
  <2>4. ~NewsUpTo(j)' => \A d \in Callers : answer'[d] = "joined" => d \in held'
    BY <1>2, <1>8, <2>2, JoinsQuietly
  <2>5. QED
    BY <1>1, <1>2, <2>2, <2>3, <2>4, JoinsQuietly DEF BluezHolds
<1>10. CopyIs'
  BY <1>1, <1>3, <1>5 DEF Inv, CopyIs
<1>11. TrueIsFresh'
  BY <1>8 DEF Inv, TrueIsFresh
<1>12. QED
  BY <1>6, <1>7, <1>9, <1>10, <1>11 DEF Order

\* A reply says what is the case now; it comes from the bluetoothd the daemon knows,
\* for no other answers its calls.
LEMMA ServeKeepsOrder ==
  ASSUME Inv, Serve
  PROVE  Order' /\ CopyIs' /\ TrueIsFresh'
<1> DEFINE m == [kind |-> "reply", value |-> Current, from |-> epoch]
<1> DEFINE last == Len(inbox) + 1
<1> USE DEF world, calls, backend, once, history
<1>1. /\ Base /\ Types /\ inbox' = Append(inbox, m) /\ m \in Message /\ m.kind = "reply"
      /\ m.value.powered = powered /\ m.value.phone = phone
      /\ UNCHANGED <<link, phone, powered, epoch, connection, stage, reply, owner,
                     copy, failed, request, phase, query, adapterOn, moved, dropped, answer, seen,
                     held, refreshed>>
      /\ call = "sent" /\ call' = "answered"
      /\ stage \in {"RequestName", "GetNameOwner", "WatchBluez", "WatchOwner", "Recheck"} \/ owner = epoch
  BY CurrentIsAnswer DEF Serve, Inv, Base, Message, Types
<1> HIDE DEF m
<1>2. Joins(m)
  BY <1>1, Appended, Bounds DEF Joins, News, Kinds, OfPhone, OfOwner
<1>3. /\ \A i \in 1..Len(inbox) : i \in 1..Len(inbox') /\ inbox'[i] = inbox[i]
      /\ \A i \in 1..Len(inbox') : i \in 1..Len(inbox) \/ (i = last /\ inbox'[i] = m)
      /\ Len(inbox) \in Nat /\ Len(inbox') = last /\ inbox'[last] = m
  BY <1>1, <1>2, JoinsQuietly DEF Joins
<1>4. \A j \in 0..Len(inbox) : ~Said(j)
  BY <1>1 DEF Base, Calls, Said, None
<1>5. \A j \in 0..Len(inbox') : Said(j)' => j = last /\ Value(j)' = m.value
  BY <1>1, <1>3, <1>4 DEF Said, Value
<1>6. Watched' = Watched /\ Steady' = Steady
  BY <1>1 DEF Watched, OnBus, Steady
<1>7. OneBluez'
  <2>1. ASSUME Answered', Watched PROVE owner = epoch
    <3>1. query # None \/ refreshed
      BY <1>1, <2>1 DEF Answered, None
    <3>2. stage \in {"serving", "closing"}
      BY <1>1, <2>1, <3>1, AnsweredWhere DEF Inv, CopyIs, Watched, OnBus
    <3>3. QED
      BY <1>1, <3>2
  <2>2. ASSUME owner = epoch, NEW i \in 1..Len(inbox'), News(inbox'[i]) PROVE inbox'[i].from = owner
    <3>1. i \in 1..Len(inbox) /\ inbox'[i] = inbox[i]
      BY <1>2, <1>3, <2>2 DEF Joins
    <3>2. owner <= inbox[i].from /\ inbox[i].from <= epoch
      BY <1>1, <2>2, <3>1 DEF Base, NewsIs
    <3>3. inbox[i].from \in Nat /\ owner \in Nat
      BY <1>1, <3>1, Bounds, Messages
    <3>4. QED
      BY <2>2, <3>1, <3>2, <3>3
  <2>3. QED
    BY <1>1, <1>6, <2>1, <2>2 DEF OneBluez
<1>8. PowerSaid' /\ PowerKept' /\ TrustSaid'
  BY <1>1, <1>5 DEF PowerSaid, PowerKept, TrustSaid
<1>9. HeldSaid'
  <2> SUFFICES ASSUME query = "phone", Steady, adapterOn, NEW j \in 0..Len(inbox'), Said(j)',
                      Value(j)'.phone = ConnectedPhone
      PROVE  /\ ~NewsAfter(0)' => BluezHolds'
             /\ \A i, n \in 1..Len(inbox') :
                  inbox'[i].kind = "ask" /\ i <= n /\ j <= n /\ ~NewsUpTo(n)' => inbox'[i].value \in held'
             /\ ~NewsUpTo(j)' => \A c \in Callers : answer[c] = "joined" => c \in held'
    BY <1>1, <1>6 DEF HeldSaid
  <2>1. j = last /\ phone = ConnectedPhone
    BY <1>1, <1>5
  <2>2. ~NewsAfter(0) => BluezHolds
    BY <1>1, <2>1 DEF Inv, Order, PowerKept, BluezHolds, ConnectedPhone
  <2>3. \A n : n = last /\ ~NewsUpTo(n)' => ~NewsAfter(0)
    BY <1>2, <1>3, JoinsQuietly DEF NewsUpTo, NewsAfter
  <2>4. BluezHolds => \A c \in Pending : c \in held
    BY <1>1 DEF Base, Remembered
  <2>5. ASSUME NEW i \in 1..Len(inbox'), inbox'[i].kind = "ask" PROVE inbox'[i].value \in Pending
    <3>1. i \in 1..Len(inbox) /\ inbox'[i] = inbox[i]
      BY <1>1, <1>3, <2>5
    <3>2. inbox[i].value \in Callers /\ answer[inbox[i].value] = "sent"
      BY <1>1, <2>5, <3>1, Bounds, Messages DEF Base, AsksAre
    <3>3. QED
      BY <3>1, <3>2 DEF Pending
  <2>6. \A n \in 1..Len(inbox') : j <= n => n = last
    BY <1>3, <2>1
  <2>7. BluezHolds' = BluezHolds /\ (NewsAfter(0)' <=> NewsAfter(0))
    BY <1>1, <1>2, JoinsQuietly DEF BluezHolds
  <2>8. \A c \in Callers : answer[c] = "joined" => c \in Pending
    BY DEF Pending
  <2>9. QED
    BY <1>1, <2>1, <2>2, <2>3, <2>4, <2>5, <2>6, <2>7, <2>8
<1>10. CopyIs' /\ TrueIsFresh'
  BY <1>1, <1>3, <1>6 DEF Inv, CopyIs, TrueIsFresh
<1>11. QED
  BY <1>7, <1>8, <1>9, <1>10 DEF Order

-----------------------------------------------------------------------------
(* The reader.                                                             *)

\* News that is read while a query is under way, or the copy counts, is of the
\* bluetoothd in use: it is taken into account, or it ends the daemon.
LEMMA ReadTakesNote ==
  ASSUME Inv, Read, Answered, Watched', stage \in {"serving", "closing"}
  PROVE  /\ Watched
         /\ ~OfOwner(inbox[1])
         /\ News(inbox[1]) => inbox[1].from = owner
         /\ query # None /\ News(inbox[1]) => moved'
<1> DEFINE m == Head(inbox)
<1>1. /\ Base /\ OneBluez /\ Types /\ OnBus /\ inbox # <<>> /\ inbox' = Tail(inbox)
      /\ ReadSignal(m) \/ ReadReply(m) \/ ReadLate(m) \/ ReadAsk(m)
  BY DEF Inv, Base, Order, Read
<1>2. Len(inbox) >= 1 /\ m = inbox[1] /\ m \in Message /\ Len(inbox) \in Nat /\ owner \in Nat
  BY <1>1, Taken, Bounds
<1> HIDE DEF m
<1>3. News(m) => ReadSignal(m)
  BY <1>1 DEF News, Kinds, ReadSignal, ReadReply, ReadLate, ReadAsk
<1>4. failed => failed'
  BY <1>1 DEF ReadSignal, ReadReply, ReadLate, ReadAsk, backend
<1>5. Watched
  BY <1>1, <1>4 DEF Watched
<1>6. ~OfOwner(m)
  <2>1. OfOwner(m) => News(m) /\ Fails(m)
    <3>1. OfOwner(m) => m.value > owner /\ m.value \in 1..MaxEpoch
      <4>1. 1 \in 1..Len(inbox)
        BY <1>2
      <4>2. QED
        BY <1>1, <1>2, <4>1, Messages DEF Base, NewsIs, OfOwner
    <3>2. QED
      BY <1>2, <3>1 DEF Fails, OfOwner, News, Kinds
  <2>2. QED
    BY <1>3, <2>1 DEF ReadSignal, Watched
<1>7. News(m) => m.from = owner
  <2>1. ASSUME News(m), m.from # owner PROVE FALSE
    <3>1. \E k \in 1..Len(inbox) : k <= 1 /\ OfOwner(inbox[k])
      BY <1>1, <1>2, <1>5, <2>1 DEF OneBluez
    <3>2. QED
      BY <1>2, <1>6, <3>1
  <2>2. QED
    BY <2>1
<1>8. query # None /\ News(m) => moved'
  BY <1>3, <1>6, <1>7 DEF ReadSignal, AboutPhone, AboutAdapter, TargetKnown, News, Kinds, OfOwner
<1>9. QED
  BY <1>2, <1>5, <1>6, <1>7, <1>8

\* The messages move up by one; the first, if it is the reply, is kept.
LEMMA ReadMovesUp ==
  ASSUME Base, Read
  PROVE  /\ Len(inbox) \in Nat /\ Len(inbox) >= 1 /\ Len(inbox') = Len(inbox) - 1
         /\ \A i \in 1..Len(inbox') : i + 1 \in 1..Len(inbox) /\ inbox'[i] = inbox[i + 1]
         /\ \A i \in 1..Len(inbox) : i > 1 => i - 1 \in 1..Len(inbox') /\ inbox'[i - 1] = inbox[i]
         /\ \A j \in 0..Len(inbox') : Said(j)' =>
              \E b \in 0..Len(inbox) : /\ Said(b) /\ Value(b) = Value(j)'
                                       /\ b = j + 1 \/ (b = 0 /\ j = 0)
         /\ \A j \in Nat, b \in Nat : b <= j + 1 /\ ~News(inbox[1]) =>
              /\ NewsAfter(0) => NewsAfter(0)'
              /\ NewsUpTo(b) => NewsUpTo(j)'
         /\ \A j \in Nat, b \in Nat : (b = j + 1 \/ (b = 0 /\ j = 0)) /\ ~News(inbox[1]) =>
              /\ NewsAfter(b) => NewsAfter(j)'
              /\ PhoneNewsAfter(b) => PhoneNewsAfter(j)'
<1> DEFINE m == Head(inbox)
<1>1. /\ Types /\ inbox # <<>> /\ inbox' = Tail(inbox)
      /\ ReadSignal(m) \/ ReadReply(m) \/ ReadLate(m) \/ ReadAsk(m)
  BY DEF Base, Read
<1>2. /\ Len(inbox) \in Nat /\ Len(inbox) >= 1 /\ Len(inbox') = Len(inbox) - 1 /\ m = inbox[1] /\ m \in Message
      /\ \A i \in 1..Len(inbox') : i + 1 \in 1..Len(inbox) /\ inbox'[i] = inbox[i + 1]
  BY <1>1, Taken, Bounds
<1> HIDE DEF m
<1>3. ASSUME NEW i \in 1..Len(inbox), i > 1
      PROVE  i - 1 \in 1..Len(inbox') /\ inbox'[i - 1] = inbox[i]
  BY <1>2, <1>3
<1>4. ASSUME NEW j \in 0..Len(inbox'), Said(j)'
      PROVE  \E b \in 0..Len(inbox) : /\ Said(b) /\ Value(b) = Value(j)'
                                      /\ b = j + 1 \/ (b = 0 /\ j = 0)
  <2>1. CASE j # 0
    <3>1. j + 1 \in 0..Len(inbox) /\ Said(j + 1) /\ Value(j + 1) = Value(j)'
      BY <1>2, <1>4, <2>1 DEF Said, Value
    <3>2. QED
      BY <3>1
  <2>2. CASE j = 0 /\ reply' = reply
    <3>1. 0 \in 0..Len(inbox) /\ Said(0) /\ Value(0) = Value(j)'
      BY <1>2, <1>4, <2>2 DEF Said, Value
    <3>2. QED
      BY <2>2, <3>1
  <2>3. CASE j = 0 /\ reply' # reply
    <3>1. ReadReply(m)
      BY <1>1, <2>3 DEF ReadSignal, ReadLate, ReadAsk, calls
    <3>2. j + 1 \in 0..Len(inbox) /\ Said(j + 1) /\ Value(j + 1) = Value(j)'
      BY <1>2, <2>3, <3>1 DEF Said, Value, ReadReply
    <3>3. QED
      BY <3>2
  <2>4. QED
    BY <2>1, <2>2, <2>3
<1>5. ASSUME NEW j \in Nat, NEW b \in Nat, b <= j + 1, ~News(inbox[1])
      PROVE  /\ NewsAfter(0) => NewsAfter(0)'
             /\ NewsUpTo(b) => NewsUpTo(j)'
  <2>1. ASSUME NEW i \in 1..Len(inbox), News(inbox[i])
        PROVE  i > 1 /\ i - 1 \in 1..Len(inbox') /\ inbox'[i - 1] = inbox[i] /\ i - 1 > 0 /\ (i <= b => i - 1 <= j)
    BY <1>2, <1>3, <1>5, <2>1
  <2>2. QED
    BY <2>1 DEF NewsAfter, NewsUpTo
<1>6. ASSUME NEW j \in Nat, NEW b \in Nat, b = j + 1 \/ (b = 0 /\ j = 0), ~News(inbox[1])
      PROVE  /\ NewsAfter(b) => NewsAfter(j)'
             /\ PhoneNewsAfter(b) => PhoneNewsAfter(j)'
  <2>1. \A i \in 1..Len(inbox) : OfPhone(inbox[i]) => News(inbox[i])
    BY DEF OfPhone, News, Kinds
  <2>2. ASSUME NEW i \in 1..Len(inbox), News(inbox[i]), i > b
        PROVE  i > 1 /\ i - 1 \in 1..Len(inbox') /\ inbox'[i - 1] = inbox[i] /\ i - 1 > j
    BY <1>2, <1>3, <1>6, <2>2
  <2>3. QED
    BY <2>1, <2>2 DEF NewsAfter, PhoneNewsAfter
<1>7. QED
  BY <1>2, <1>3, <1>4, <1>5, <1>6

LEMMA ReadKeepsOrder ==
  ASSUME Inv, Read, stage \in {"serving", "closing"}, Watched'
  PROVE  Order'
<1> DEFINE m == Head(inbox)
<1> USE DEF world, calls, backend, once, history
<1>1. /\ Base /\ Types /\ OnBus /\ inbox # <<>> /\ inbox' = Tail(inbox)
      /\ UNCHANGED <<link, phone, powered, epoch, connection>>
      /\ ReadSignal(m) \/ ReadReply(m) \/ ReadLate(m) \/ ReadAsk(m)
      /\ Base'
  BY ReadKeepsBase DEF Inv, Base, Read
<1>2. /\ Len(inbox) \in Nat /\ Len(inbox) >= 1 /\ Len(inbox') = Len(inbox) - 1 /\ m = inbox[1] /\ m \in Message
      /\ \A i \in 1..Len(inbox') : i + 1 \in 1..Len(inbox) /\ inbox'[i] = inbox[i + 1]
      /\ \A i \in 1..Len(inbox) : i > 1 => i - 1 \in 1..Len(inbox') /\ inbox'[i - 1] = inbox[i]
  BY <1>1, Taken, ReadMovesUp
<1> HIDE DEF m
<1>3. UNCHANGED <<stage, matches, owner, query, adapterOn, refreshed, powered, phone, epoch>>
  BY <1>1 DEF ReadSignal, ReadReply, ReadLate, ReadAsk, JoinOrStart
<1>4. ASSUME NEW j \in 0..Len(inbox'), Said(j)'
      PROVE  \E b \in 0..Len(inbox) : /\ Said(b) /\ Value(b) = Value(j)'
                                      /\ b = j + 1 \/ (b = 0 /\ j = 0)
  BY <1>1, <1>4, ReadMovesUp
<1>5. Answered' => Answered
  <2>1. (\E j \in 0..Len(inbox') : Said(j)') => \E b \in 0..Len(inbox) : Said(b)
    BY <1>4
  <2>2. QED
    BY <1>3, <2>1 DEF Answered
<1>6. ASSUME Answered, query # None, Steady' PROVE ~News(inbox[1]) /\ Steady
  <2>1. Watched /\ ~News(inbox[1])
    BY <1>6, ReadTakesNote DEF Steady
  <2>2. ~moved
    BY <1>1, <1>6 DEF ReadSignal, ReadReply, ReadLate, ReadAsk, JoinOrStart, Steady
  <2>3. QED
    BY <2>1, <2>2 DEF Steady
<1>7. OneBluez'
  <2> SUFFICES ASSUME Answered
      PROVE  /\ epoch # owner => \E k \in 1..Len(inbox') : OfOwner(inbox'[k])
             /\ \A i \in 1..Len(inbox') :
                  News(inbox'[i]) /\ inbox'[i].from # owner => \E k \in 1..Len(inbox') : k <= i /\ OfOwner(inbox'[k])
    BY <1>3, <1>5 DEF OneBluez
  <2>1. Watched /\ ~OfOwner(inbox[1])
    BY ReadTakesNote
  <2>2. ASSUME NEW k \in 1..Len(inbox), OfOwner(inbox[k])
        PROVE  k - 1 \in 1..Len(inbox') /\ inbox'[k - 1] = inbox[k]
    BY <1>2, <2>1, <2>2
  <2>3. epoch # owner => \E k \in 1..Len(inbox) : OfOwner(inbox[k])
    BY <2>1 DEF Inv, Order, OneBluez
  <2>4. ASSUME NEW i \in 1..Len(inbox'), News(inbox'[i]), inbox'[i].from # owner
        PROVE  \E k \in 1..Len(inbox') : k <= i /\ OfOwner(inbox'[k])
    <3>1. PICK k \in 1..Len(inbox) : k <= i + 1 /\ OfOwner(inbox[k])
      BY <1>2, <2>1, <2>4 DEF Inv, Order, OneBluez
    <3>2. k - 1 \in 1..Len(inbox') /\ inbox'[k - 1] = inbox[k] /\ k - 1 <= i
      BY <1>2, <2>2, <3>1
    <3>3. QED
      BY <3>1, <3>2
  <2>5. QED
    BY <2>2, <2>3, <2>4
<1>8. PowerSaid'
  <2> SUFFICES ASSUME query = "adapter", Steady', NEW j \in 0..Len(inbox'), Said(j)', ~NewsAfter(j)'
      PROVE  Value(j)'.powered = powered
    BY <1>3 DEF PowerSaid
  <2>1. PICK b \in 0..Len(inbox) : Said(b) /\ Value(b) = Value(j)' /\ (b = j + 1 \/ (b = 0 /\ j = 0))
    BY <1>4
  <2>2. ~News(inbox[1]) /\ Steady
    BY <1>6, <2>1 DEF Answered, None
  <2>3. ~NewsAfter(b)
    BY <1>1, <1>2, <2>1, <2>2, ReadMovesUp
  <2>4. QED
    BY <2>1, <2>2, <2>3 DEF Inv, Order, PowerSaid
<1>9. PowerKept'
  <2> SUFFICES ASSUME query = "phone", Steady', call' = "sent", adapterOn, ~NewsAfter(0)'
      PROVE  powered
    BY <1>3 DEF PowerKept
  <2>1. ~News(inbox[1]) /\ Steady
    BY <1>6 DEF Answered, None
  <2>2. call = "sent"
    BY <1>1 DEF ReadSignal, ReadReply, ReadLate, ReadAsk, None
  <2>3. ~NewsAfter(0)
    BY <1>1, <2>1, ReadMovesUp
  <2>4. QED
    BY <2>1, <2>2, <2>3 DEF Inv, Order, PowerKept
<1>10. TrustSaid'
  <2> SUFFICES ASSUME query = "phone", Steady', NEW j \in 0..Len(inbox'), Said(j)', Value(j)'.phone.state = "trusted"
      PROVE  phone.state = "trusted" \/ PhoneNewsAfter(j)'
    BY <1>3 DEF TrustSaid
  <2>1. PICK b \in 0..Len(inbox) : Said(b) /\ Value(b) = Value(j)' /\ (b = j + 1 \/ (b = 0 /\ j = 0))
    BY <1>4
  <2>2. ~News(inbox[1]) /\ Steady
    BY <1>6 DEF Answered, None
  <2>3. phone.state = "trusted" \/ PhoneNewsAfter(b)
    BY <2>1, <2>2 DEF Inv, Order, TrustSaid
  <2>4. PhoneNewsAfter(b) => PhoneNewsAfter(j)'
    BY <1>1, <1>2, <2>1, <2>2, ReadMovesUp
  <2>5. QED
    BY <2>3, <2>4
<1>11. HeldSaid'
  <2> SUFFICES ASSUME query = "phone", Steady', adapterOn, NEW j \in 0..Len(inbox'), Said(j)',
                      Value(j)'.phone = ConnectedPhone
      PROVE  /\ ~NewsAfter(0)' => BluezHolds
             /\ \A i, n \in 1..Len(inbox') :
                  inbox'[i].kind = "ask" /\ i <= n /\ j <= n /\ ~NewsUpTo(n)' => inbox'[i].value \in held'
             /\ ~NewsUpTo(j)' => \A c \in Callers : answer'[c] = "joined" => c \in held'
    BY <1>3 DEF HeldSaid, BluezHolds
  <2>1. PICK b \in 0..Len(inbox) : Said(b) /\ Value(b) = Value(j)' /\ (b = j + 1 \/ (b = 0 /\ j = 0))
    BY <1>4
  <2>2. ~News(inbox[1]) /\ Steady
    BY <1>6 DEF Answered, None
  <2>3. /\ ~NewsAfter(0) => BluezHolds
        /\ \A i, n \in 1..Len(inbox) :
             inbox[i].kind = "ask" /\ i <= n /\ b <= n /\ ~NewsUpTo(n) => inbox[i].value \in held
        /\ ~NewsUpTo(b) => \A c \in Callers : answer[c] = "joined" => c \in held
    BY <2>1, <2>2 DEF Inv, Order, HeldSaid
  <2>4. \A d \in held : answer'[d] # "no" => d \in held'
    BY <1>1 DEF ReadSignal, ReadReply, ReadLate, ReadAsk, Forget
  <2>5. ~NewsAfter(0)' => BluezHolds
    BY <1>1, <2>2, <2>3, ReadMovesUp
  <2>6. ASSUME NEW i \in 1..Len(inbox'), NEW n \in 1..Len(inbox'), inbox'[i].kind = "ask", i <= n, j <= n, ~NewsUpTo(n)'
        PROVE  inbox'[i].value \in held'
    <3>1. i + 1 \in 1..Len(inbox) /\ n + 1 \in 1..Len(inbox) /\ inbox'[i] = inbox[i + 1] /\ i + 1 <= n + 1 /\ b <= n + 1
      BY <1>2, <2>1, <2>6
    <3>2. ~NewsUpTo(n + 1)
      BY <1>1, <1>2, <2>2, <2>6, ReadMovesUp
    <3>3. inbox[i + 1].value \in held
      BY <2>3, <2>6, <3>1, <3>2
    <3>4. answer'[inbox'[i].value] = "sent"
      BY <1>1, <2>6 DEF Base, AsksAre
    <3>5. QED
      BY <2>4, <3>1, <3>3, <3>4
  <2>7. ASSUME NEW c \in Callers, answer'[c] = "joined", ~NewsUpTo(j)'
        PROVE  c \in held'
    <3>1. CASE answer[c] = "joined"
      <4>1. ~NewsUpTo(b)
        BY <1>1, <1>2, <2>1, <2>2, <2>7, ReadMovesUp
      <4>2. QED
        BY <2>3, <2>4, <2>7, <3>1, <4>1
    <3>2. CASE answer[c] # "joined"
      <4>1. inbox[1].kind = "ask" /\ inbox[1].value = c
        BY <1>1, <1>2, <2>7, <3>2 DEF ReadSignal, ReadReply, ReadLate, ReadAsk, JoinOrStart, Told
      <4>2. j + 1 \in 1..Len(inbox) /\ 1 \in 1..Len(inbox) /\ 1 <= j + 1 /\ b <= j + 1
        BY <1>2, <2>1
      <4>3. ~NewsUpTo(j + 1)
        BY <1>1, <1>2, <2>2, <2>7, ReadMovesUp
      <4>4. c \in held
        BY <2>3, <4>1, <4>2, <4>3
      <4>5. QED
        BY <2>4, <2>7, <4>4
    <3>3. QED
      BY <3>1, <3>2
  <2>8. QED
    BY <2>5, <2>6, <2>7
<1>12. QED
  BY <1>7, <1>8, <1>9, <1>10, <1>11 DEF Order

\* What is read of the phone is put into the copy, and trust comes only with news that
\* is still true or that has been overtaken.
LEMMA ReadKeepsCopy ==
  ASSUME Inv, Read
  PROVE  CopyIs' /\ TrueIsFresh'
<1> DEFINE m == Head(inbox)
<1> USE DEF world, calls, backend, once, history
<1>1. /\ Base /\ Types /\ OnBus /\ inbox # <<>> /\ inbox' = Tail(inbox)
      /\ UNCHANGED <<link, phone, powered, epoch, connection>>
      /\ ReadSignal(m) \/ ReadReply(m) \/ ReadLate(m) \/ ReadAsk(m)
  BY DEF Inv, Base, Read
<1>2. /\ Len(inbox) \in Nat /\ Len(inbox) >= 1 /\ Len(inbox') = Len(inbox) - 1 /\ m = inbox[1] /\ m \in Message
      /\ \A i \in 1..Len(inbox) : i > 1 => i - 1 \in 1..Len(inbox') /\ inbox'[i - 1] = inbox[i]
  BY <1>1, Taken, ReadMovesUp
<1> HIDE DEF m
<1>3. UNCHANGED <<stage, owner, refreshed>>
  BY <1>1 DEF ReadSignal, ReadReply, ReadLate, ReadAsk
<1>4. ASSUME refreshed, Watched', copy'.state = "trusted", phone.state # "trusted"
      PROVE  \E i \in 1..Len(inbox') : OfPhone(inbox'[i]) \/ OfOwner(inbox'[i])
  <2>1. Answered /\ stage \in {"serving", "closing"} /\ TargetKnown
    BY <1>1, <1>3, <1>4 DEF Inv, CopyIs, Answered, Watched, OnBus, TargetKnown
  <2>2. Watched /\ ~OfOwner(m) /\ (News(m) => m.from = owner)
    BY <1>2, <1>4, <2>1, ReadTakesNote
  <2>3. SUFFICES \E i \in 1..Len(inbox) : i > 1 /\ (OfPhone(inbox[i]) \/ OfOwner(inbox[i]))
    BY <1>2
  <2>4. CASE ~OfPhone(m)
    <3>1. copy.state = "trusted"
      <4>1. CASE ReadSignal(m)
        BY <1>4, <2>4, <4>1 DEF ReadSignal, Updated, AboutPhone, OfPhone
      <4>2. CASE ~ReadSignal(m)
        BY <1>1, <1>4, <4>2 DEF ReadReply, ReadLate, ReadAsk
      <4>3. QED
        BY <4>1, <4>2
    <3>2. PICK i \in 1..Len(inbox) : OfPhone(inbox[i]) \/ OfOwner(inbox[i])
      BY <1>4, <2>2, <3>1 DEF Inv, CopyIs
    <3>3. i > 1
      BY <1>2, <2>2, <2>4, <3>2
    <3>4. QED
      BY <3>2, <3>3
  <2>5. CASE OfPhone(m)
    <3>1. ReadSignal(m) /\ AboutPhone(m)
      BY <1>1, <2>1, <2>2, <2>5 DEF OfPhone, News, Kinds, AboutPhone, ReadSignal, ReadReply, ReadLate, ReadAsk
    <3>2. m.kind = "state" /\ m.value = "trusted"
      <4>1. copy' = Updated(m)
        BY <3>1 DEF ReadSignal
      <4>2. m.kind # "removed"
        BY <1>4, <3>1, <4>1 DEF Updated, Gone
      <4>3. m.kind = "state"
        BY <2>5, <4>2 DEF OfPhone
      <4>4. copy.state # "gone" => copy' = [copy EXCEPT !.state = m.value]
        BY <3>1, <4>1, <4>3 DEF Updated
      <4>5. copy.state = "gone" => copy' = copy
        BY <3>1, <4>1, <4>3 DEF Updated
      <4>6. copy.state # "gone"
        BY <1>4, <4>5
      <4>7. copy'.state = m.value
        BY <1>1, <4>4, <4>6 DEF Types, Phone
      <4>8. QED
        BY <1>4, <4>3, <4>7
    <3>3. 1 \in 1..Len(inbox)
      BY <1>2
    <3>4. \E k \in 1..Len(inbox) : k > 1 /\ OfPhone(inbox[k])
      BY <1>1, <1>2, <1>4, <3>2, <3>3 DEF Base, NewsIs
    <3>5. QED
      BY <3>4
  <2>6. QED
    BY <2>4, <2>5
<1>5. CopyIs'
  BY <1>1, <1>3, <1>4 DEF Inv, CopyIs
<1>6. TrueIsFresh'
  <2>1. ASSUME NEW c \in Callers, answer'[c] = "true" PROVE answer[c] = "true"
    BY <1>1, <2>1 DEF ReadSignal, ReadReply, ReadLate, ReadAsk, JoinOrStart, Told
  <2>2. \A c \in Callers : (c \in seen /\ answer'[c] # "no" => c \in seen') /\ (c \in held /\ answer'[c] # "no" => c \in held')
    BY <1>1 DEF ReadSignal, ReadReply, ReadLate, ReadAsk, Forget
  <2>3. QED
    BY <2>1, <2>2 DEF Inv, TrueIsFresh
<1>7. QED
  BY <1>5, <1>6

-----------------------------------------------------------------------------
(* The request.                                                            *)

\* The verdict is sound: whoever waits has had the phone's link, and BlueZ the phone.
LEMMA VerdictIsSound ==
  ASSUME Inv, Verdict, Connected, Watched
  PROVE  \A c \in Callers : answer[c] = "joined" => c \in seen \cap held
<1>1. /\ query = "phone" /\ reply # NoReply /\ ~failed /\ adapterOn /\ reply.phone.state = "trusted" /\ ~moved
      /\ link /\ reply.phone.connected /\ Base /\ Types
  BY DEF Verdict, Consistent, Connected, ReadLinks, Inv, Base
<1>2. reply.phone = ConnectedPhone
  <2>1. reply.phone \in Phone
    BY <1>1 DEF Types, Answers
  <2>2. QED
    BY <1>1, <2>1 DEF Phone, ConnectedPhone
<1>3. Said(0) /\ Value(0) = reply /\ 0 \in 0..Len(inbox) /\ ~NewsUpTo(0)
  BY <1>1, Bounds DEF Said, Value, NewsUpTo
<1>4. \A c \in Callers : answer[c] = "joined" => c \in held
  BY <1>1, <1>2, <1>3 DEF Inv, Order, HeldSaid, Steady
<1>5. \A c \in Callers : answer[c] = "joined" => c \in seen
  BY <1>1 DEF Base, Remembered, Pending
<1>6. QED
  BY <1>4, <1>5

\* The copy it takes is right, or there is news of it.
LEMMA TakenIsTrue ==
  ASSUME Inv, TakesCopy, Watched, refreshed', copy'.state = "trusted", phone.state # "trusted"
  PROVE  \E i \in 1..Len(inbox) : OfPhone(inbox[i]) \/ OfOwner(inbox[i])
<1>1. CASE UNCHANGED <<copy, refreshed>>
  BY <1>1 DEF Inv, CopyIs
<1>2. CASE Verdict /\ copy' = reply.phone
  <2>1. /\ query = "phone" /\ Steady /\ Said(0) /\ Value(0) = reply /\ 0 \in 0..Len(inbox)
        /\ reply.phone.state = "trusted"
    BY <1>2, Bounds DEF Verdict, Consistent, Steady, Said, Value, Inv, Base
  <2>2. PhoneNewsAfter(0)
    BY <2>1 DEF Inv, Order, TrustSaid
  <2>3. QED
    BY <2>2 DEF PhoneNewsAfter
<1>3. QED
  BY <1>1, <1>2 DEF TakesCopy

LEMMA EndsKeepsOrder ==
  ASSUME Inv, NEW r \in {"no", "true"}, Ends(r)
  PROVE  Order' /\ CopyIs' /\ TrueIsFresh'
<1> USE DEF world
<1>1. /\ Base /\ Types /\ stage = "serving" /\ stage' \in {"serving", "closing"}
      /\ UNCHANGED <<link, phone, powered, epoch, connection, matches, owner, failed>>
      /\ inbox' = [i \in DOMAIN inbox |-> Late(inbox[i])]
      /\ query' = None
      /\ answer' = [c \in Callers |-> IF answer[c] = "joined" THEN r ELSE answer[c]]
      /\ seen' = {c \in seen : answer'[c] # "no"} /\ held' = {c \in held : answer'[c] # "no"}
      /\ TakesCopy /\ (r = "true" => Verdict /\ Connected)
  BY DEF Inv, Base, Types, Ends, Finish, DropReply, Forget
<1>2. /\ Len(inbox') = Len(inbox)
      /\ \A i \in 1..Len(inbox) :
           /\ inbox[i].kind # "reply" => inbox'[i] = inbox[i]
           /\ inbox[i].kind = "reply" => inbox'[i].kind = "late"
  BY <1>1, Marked
<1>3. /\ \A i \in 1..Len(inbox) : (News(inbox[i]) \/ OfPhone(inbox[i]) \/ OfOwner(inbox[i])) => inbox'[i] = inbox[i]
      /\ \A i \in 1..Len(inbox) : News(inbox'[i]) => inbox'[i] = inbox[i]
  BY <1>2 DEF News, Kinds, OfPhone, OfOwner
<1>4. Watched' => Watched
  BY <1>1 DEF Watched, OnBus
<1>5. PowerSaid' /\ PowerKept' /\ TrustSaid' /\ HeldSaid' /\ (Answered' => refreshed')
  BY <1>1, NoQuery
<1>6. Answered' => Answered
  BY <1>1, <1>5 DEF Answered, TakesCopy, Verdict
<1>7. OneBluez'
  <2> SUFFICES ASSUME Answered, Watched
      PROVE  /\ epoch # owner => \E k \in 1..Len(inbox') : OfOwner(inbox'[k])
             /\ \A i \in 1..Len(inbox') :
                  News(inbox'[i]) /\ inbox'[i].from # owner => \E k \in 1..Len(inbox') : k <= i /\ OfOwner(inbox'[k])
    BY <1>1, <1>4, <1>6 DEF OneBluez
  <2>1. epoch # owner => \E k \in 1..Len(inbox) : OfOwner(inbox[k])
    BY DEF Inv, Order, OneBluez
  <2>2. ASSUME NEW i \in 1..Len(inbox), News(inbox[i]), inbox[i].from # owner
        PROVE  \E k \in 1..Len(inbox) : k <= i /\ OfOwner(inbox[k])
    BY <2>2 DEF Inv, Order, OneBluez
  <2>3. QED
    BY <1>2, <1>3, <2>1, <2>2
<1>8. CopyIs'
  <2>1. ASSUME refreshed', Watched', copy'.state = "trusted", phone.state # "trusted"
        PROVE  \E i \in 1..Len(inbox') : OfPhone(inbox'[i]) \/ OfOwner(inbox'[i])
    <3>1. \E i \in 1..Len(inbox) : OfPhone(inbox[i]) \/ OfOwner(inbox[i])
      BY <1>1, <1>4, <2>1, TakenIsTrue
    <3>2. QED
      BY <1>2, <1>3, <3>1
  <2>2. QED
    BY <1>1, <2>1 DEF CopyIs
<1>9. TrueIsFresh'
  <2>1. ASSUME NEW c \in Callers, answer'[c] = "true" PROVE c \in seen \cap held
    <3>1. CASE answer[c] = "true"
      BY <3>1 DEF Inv, TrueIsFresh
    <3>2. CASE answer[c] = "joined" /\ r = "true"
      <4>1. Verdict /\ Connected
        BY <1>1, <3>2
      <4>2. Watched
        <5>1. OnBus
          BY <1>1, <3>2 DEF Base, AsksAre, Pending
        <5>2. QED
          BY <4>1, <5>1 DEF Watched, Verdict, Consistent
      <4>3. QED
        BY <3>2, <4>1, <4>2, VerdictIsSound
    <3>3. QED
      BY <1>1, <2>1, <3>1, <3>2
  <2>2. QED
    BY <1>1, <2>1 DEF TrueIsFresh
<1>10. QED
  BY <1>5, <1>7, <1>8, <1>9 DEF Order

LEMMA GoesOnKeepsOrder ==
  ASSUME Inv, GoesOn
  PROVE  Order' /\ CopyIs' /\ TrueIsFresh'
<1> USE DEF world
<1>1. /\ Base /\ Types /\ stage = "serving" /\ call = None /\ TakesCopy
      /\ UNCHANGED <<link, phone, powered, epoch, connection, stage, matches, owner, failed, answer,
                     seen, held, inbox>>
      /\ reply' = NoReply
      /\ \/ query' = "adapter"
         \/ /\ query' = "phone" /\ query = "adapter" /\ reply # NoReply
            /\ adapterOn' = reply.powered /\ moved' = moved
         \/ query' = None
  BY DEF Inv, Base, Types, GoesOn
<1>2. \A j \in 0..Len(inbox) : ~Said(j)'
  BY <1>1 DEF Base, Calls, Said, None
<1>3. Watched' = Watched
  BY <1>1 DEF Watched, OnBus
<1>4. Answered' => Answered
  <2>1. refreshed' => refreshed \/ query = "phone"
    BY <1>1 DEF TakesCopy, Verdict
  <2>2. query = "adapter" /\ reply # NoReply => \E j \in 0..Len(inbox) : Said(j)
    BY <1>1, Bounds DEF Said
  <2>3. QED
    BY <1>1, <1>2, <2>1, <2>2 DEF Answered, None
<1>5. OneBluez'
  BY <1>1, <1>3, <1>4 DEF Inv, Order, OneBluez
<1>6. PowerSaid' /\ TrustSaid' /\ HeldSaid'
  BY <1>1, <1>2 DEF PowerSaid, TrustSaid, HeldSaid
<1>7. PowerKept'
  <2> SUFFICES ASSUME query' = "phone", Steady', adapterOn', ~NewsAfter(0)' PROVE powered
    BY <1>1 DEF PowerKept
  <2>1. query = "adapter" /\ reply # NoReply /\ adapterOn' = reply.powered /\ moved' = moved
    BY <1>1 DEF None
  <2>2. Steady /\ Said(0) /\ Value(0) = reply /\ 0 \in 0..Len(inbox)
    BY <1>1, <1>3, <2>1, Bounds DEF Steady, Said, Value
  <2>3. ~NewsAfter(0)
    BY <1>1 DEF NewsAfter
  <2>4. reply.powered = powered
    BY <2>1, <2>2, <2>3 DEF Inv, Order, PowerSaid
  <2>5. QED
    BY <2>1, <2>4
<1>8. CopyIs'
  BY <1>1, <1>3, TakenIsTrue DEF CopyIs
<1>9. TrueIsFresh'
  BY <1>1 DEF Inv, TrueIsFresh
<1>10. QED
  BY <1>5, <1>6, <1>7, <1>8, <1>9 DEF Order

-----------------------------------------------------------------------------
(* The main task, and the whole.                                           *)

LEMMA OthersKeepOrder ==
  ASSUME Inv, BusDrops \/ OpenStep \/ Closes \/ StopsIdle \/ WatchBus \/ OthersAsk
  PROVE  Order' /\ CopyIs' /\ TrueIsFresh'
<1> USE DEF world, calls, backend, once, history
<1>1. Base /\ Types /\ CopyIs /\ (query # None => request = "running" /\ stage = "serving")
  BY DEF Inv, Base, Types, None
<1>2. CASE BusDrops \/ Closes
  <2>1. /\ ~Watched' /\ (refreshed' => stage' \in {"serving", "closing", "ended"})
        /\ answer' = Lost
        /\ seen' = {c \in seen : answer'[c] # "no"} /\ held' = {c \in held : answer'[c] # "no"}
    BY <1>1, <1>2, StagesAre DEF BusDrops, Closes, HangUp, Forget, Watched, OnBus, CopyIs
  <2>2. \A c \in Callers : answer'[c] = "true" => answer[c] = "true"
    BY <2>1 DEF Lost
  <2>3. TrueIsFresh'
    BY <2>1, <2>2 DEF Inv, TrueIsFresh
  <2>4. QED
    BY <2>1, <2>3, NotWatched
<1>3. CASE WatchBus
  <2>1. ~Watched' /\ UNCHANGED <<answer, seen, held, refreshed, stage>>
    BY <1>3 DEF WatchBus, Watched
  <2>2. TrueIsFresh'
    BY <2>1 DEF Inv, TrueIsFresh
  <2>3. QED
    BY <1>1, <2>1, <2>2, NotWatched DEF CopyIs
<1>4. CASE OpenStep
  <2>1. /\ stage \in Opening /\ query = None /\ query' = None /\ ~refreshed
        /\ UNCHANGED <<answer, seen, held, refreshed>>
    BY <1>1, <1>4, StagesAre DEF OpenStep, CopyIs
  <2>2. TrueIsFresh'
    BY <2>1 DEF Inv, TrueIsFresh
  <2>3. ~refreshed'
    BY <2>1
  <2>4. CopyIs'
    BY <2>3 DEF CopyIs
  <2>5. Order'
    BY <2>1, <2>3, NoQuery DEF Order, OneBluez
  <2>6. QED
    BY <2>2, <2>4, <2>5
<1>5. CASE StopsIdle
  <2>1. /\ stage = "serving" /\ stage' = "closing" /\ query = None /\ query' = None
        /\ UNCHANGED <<link, phone, powered, epoch, connection, inbox, matches, owner, copy, failed,
                       answer, seen, held, refreshed>>
    BY <1>1, <1>5 DEF StopsIdle
  <2>2. Watched' = Watched
    BY <2>1 DEF Watched, OnBus
  <2>3. CopyIs' /\ TrueIsFresh'
    BY <2>1, <2>2 DEF Inv, CopyIs, TrueIsFresh
  <2>4. OneBluez'
    BY <2>1, <2>2, NoQuery DEF Inv, Order, OneBluez, Answered
  <2>5. QED
    BY <2>1, <2>3, <2>4, NoQuery DEF Order
<1>6. CASE OthersAsk
  <2>1. Told(None, "joined") = answer
    <3>1. None \notin Callers /\ answer \in [Callers -> {"no", "sent", "joined", "true"}]
      BY <1>1, DaemonAssumption DEF None, Types
    <3>2. \A d \in Callers : d # None
      BY <3>1
    <3>3. QED
      BY <3>1, <3>2 DEF Told
  <2>2. UNCHANGED <<link, phone, powered, epoch, connection, stage, call, reply, inbox, matches, owner, copy,
                    failed, query, adapterOn, moved, dropped, answer, seen, held, refreshed>>
    BY <1>6, <2>1 DEF OthersAsk, JoinOrStart
  <2>3. CopyIs' /\ TrueIsFresh'
    BY <2>2 DEF Inv, CopyIs, TrueIsFresh, Watched, OnBus
  <2>4. OneBluez'
    BY <2>2 DEF Inv, Order, OneBluez, Watched, OnBus, Answered, Said
  <2>5. PowerSaid' /\ PowerKept' /\ TrustSaid'
    BY <2>2 DEF Inv, Order, PowerSaid, PowerKept, TrustSaid, Steady, Watched, OnBus, Said, Value, NewsAfter,
                PhoneNewsAfter
  <2>6. HeldSaid'
    BY <2>2 DEF Inv, Order, HeldSaid, Steady, Watched, OnBus, Said, Value, NewsAfter, NewsUpTo, BluezHolds
  <2>7. QED
    BY <2>3, <2>4, <2>5, <2>6 DEF Order
<1>7. QED
  BY <1>2, <1>3, <1>4, <1>5, <1>6

LEMMA InvStep ==
  ASSUME Inv, [DaemonNext]_daemonVars
  PROVE  Inv'
<1>1. Base'
  BY BaseStep DEF Inv
<1>2. CASE DaemonNext
  <2>1. ASSUME WorldOnly, Watched, NEW ms \in Seq(Message), Heard(ms) PROVE Order' /\ CopyIs' /\ TrueIsFresh'
    <3>1. Arrived
      BY <2>1, Arrives DEF Inv, Base
    <3>2. QED
      BY <2>1, <3>1, WorldKeepsOrder
  <2>2. ASSUME Read PROVE Order' /\ CopyIs' /\ TrueIsFresh'
    <3>1. CopyIs' /\ TrueIsFresh'
      BY <2>2, ReadKeepsCopy
    <3>2. CASE stage \in {"serving", "closing"} /\ Watched'
      BY <2>2, <3>1, <3>2, ReadKeepsOrder
    <3>3. CASE ~Watched'
      BY <3>1, <3>3, NotWatched DEF CopyIs
    <3>4. CASE stage \notin {"serving", "closing"} /\ Watched'
      <4>1. stage' = stage /\ refreshed' = refreshed /\ query' = query
        BY <2>2 DEF Read, ReadSignal, ReadReply, ReadLate, ReadAsk, JoinOrStart, once, history
      <4>2. stage # "ended"
        BY <3>4, <4>1 DEF Watched, OnBus
      <4>3. query = None /\ ~refreshed
        BY <3>4, <4>2 DEF Inv, Base, Types, CopyIs, None
      <4>4. query' = None /\ ~refreshed'
        BY <4>1, <4>3
      <4>5. QED
        BY <3>1, <4>4, NoQuery DEF Order, OneBluez
    <3>5. QED
      BY <3>2, <3>3, <3>4
  <2>3. Order' /\ CopyIs' /\ TrueIsFresh'
    <3>1. Base
      BY DEF Inv
    <3>2. \/ WorldOnly /\ Watched /\ \E ms \in Seq(Message) : Heard(ms)
          \/ BluezReleases \/ Serve \/ (\E c \in Callers : Ask(c))
          \/ Read \/ (\E r \in {"no", "true"} : Ends(r)) \/ GoesOn
          \/ (BusDrops \/ OpenStep \/ Closes \/ StopsIdle \/ WatchBus \/ OthersAsk)
      BY <1>2, <3>1, Steps
    <3>3. QED
      BY <2>1, <2>2, <3>2, ReleaseKeepsOrder, ServeKeepsOrder, AskKeepsOrder, EndsKeepsOrder, GoesOnKeepsOrder,
         OthersKeepOrder
  <2>4. QED
    BY <1>1, <2>3 DEF Inv
<1>3. CASE UNCHANGED daemonVars
  <2> USE DEF daemonVars, world, calls, backend, once, history
  <2>1. CopyIs' /\ TrueIsFresh'
    BY <1>3 DEF Inv, CopyIs, TrueIsFresh, Watched, OnBus
  <2>2. OneBluez'
    BY <1>3 DEF Inv, Order, OneBluez, Watched, OnBus, Answered, Said
  <2>3. PowerSaid' /\ PowerKept' /\ TrustSaid'
    BY <1>3 DEF Inv, Order, PowerSaid, PowerKept, TrustSaid, Steady, Watched, OnBus, Said, Value, NewsAfter,
                PhoneNewsAfter
  <2>4. HeldSaid'
    BY <1>3 DEF Inv, Order, HeldSaid, Steady, Watched, OnBus, Said, Value, NewsAfter, NewsUpTo, BluezHolds
  <2>5. QED
    BY <1>1, <2>1, <2>2, <2>3, <2>4 DEF Inv, Order
<1>4. QED
  BY <1>2, <1>3

LEMMA InvInit ==
  ASSUME DaemonInit
  PROVE  Inv
<1>1. Types
  <2>1. inbox \in Seq(Message)
    BY EmptySeq DEF DaemonInit
  <2>2. 1 \in 1..MaxEpoch /\ 0 \in 0..MaxEpoch
    BY DaemonAssumption
  <2>3. copy \in [state : {"gone"}, connected : BOOLEAN]
    BY DEF DaemonInit, Gone
  <2>4. answer \in [Callers -> {"no", "sent", "joined", "true"}]
    BY DEF DaemonInit
  <2>5. /\ link \in BOOLEAN /\ phone \in Phone
        /\ powered = TRUE /\ connection = TRUE /\ failed = FALSE /\ refreshed = FALSE
        /\ adapterOn = FALSE /\ moved = FALSE /\ dropped = FALSE
        /\ stage = "RequestName" /\ call = "sent" /\ reply = NoReply
        /\ request = None /\ phase = None /\ query = None
        /\ epoch = 1 /\ matches = 0 /\ owner = 0 /\ seen = {} /\ held = {}
    BY DEF DaemonInit
  <2>6. /\ powered \in BOOLEAN /\ connection \in BOOLEAN /\ failed \in BOOLEAN /\ refreshed \in BOOLEAN
        /\ adapterOn \in BOOLEAN /\ moved \in BOOLEAN /\ dropped \in BOOLEAN
    BY <2>5
  <2>7. /\ epoch \in 1..MaxEpoch /\ matches \in 0..2 /\ owner \in 0..MaxEpoch
        /\ seen \subseteq Callers /\ held \subseteq Callers
    BY <2>2, <2>5
  <2>8. /\ stage \in Stages /\ call \in {None, "sent", "answered"} /\ reply \in Answers \cup {NoReply}
        /\ request \in {None, "running", "true"} /\ phase \in {None, "new", "first", "wait", "sleep"}
        /\ query \in {None, "adapter", "phone"}
        /\ (request = "running") <=> (phase # None)
        /\ request = "running" => stage = "serving"
        /\ query # None <=> phase \in {"first", "wait"}
    BY <2>5 DEF Stages, None
  <2>9. QED
    BY <2>1, <2>3, <2>4, <2>5, <2>6, <2>7, <2>8 DEF Types
<1>2. Len(inbox) = 0 /\ 1..Len(inbox) = {}
  BY EmptySeq DEF DaemonInit
<1>3. Base
  <2>1. Rules /\ Calls
    BY <1>2, StagesAre DEF DaemonInit, Rules, Calls, NoReply
  <2>2. NewsIs /\ AsksAre /\ Remembered
    BY <1>2 DEF DaemonInit, NewsIs, AsksAre, Remembered, Pending, OnBus
  <2>3. QED
    BY <1>1, <2>1, <2>2 DEF Base
<1>4. Order
  BY DEF DaemonInit, Order, OneBluez, PowerSaid, PowerKept, TrustSaid, HeldSaid, Answered, None
<1>5. CopyIs /\ TrueIsFresh
  BY DEF DaemonInit, CopyIs, TrueIsFresh
<1>6. QED
  BY <1>3, <1>4, <1>5 DEF Inv

LEMMA AlwaysInv == DaemonSpec => []Inv
<1>1. DaemonInit => Inv
  BY InvInit
<1>2. Inv /\ [DaemonNext]_daemonVars => Inv'
  BY InvStep
<1>3. QED
  BY <1>1, <1>2, PTL DEF DaemonSpec

\* Whatever the order of the callers, the replies, the news and the restarts of BlueZ:
\* a caller that hears yes asked before the link and the phone were there (TrueIsFresh:
\* BlueZBackend.connected, Authentication._once).
THEOREM YesIsFresh == DaemonSpec => []TrueIsFresh
<1>1. Inv => TrueIsFresh
  BY DEF Inv
<1>2. QED
  BY <1>1, AlwaysInv, PTL

\* A copy that a query has refreshed grants GATT access only while BlueZ trusts the phone,
\* or with the news of it on the way (AccessIsCurrent: BlueZBackend._message, _allow_device).
THEOREM AccessFollowsTrust == DaemonSpec => []AccessIsCurrent
<1>1. Inv => AccessIsCurrent
  BY InboxIs DEF Inv, Base, CopyIs, AccessIsCurrent, Allowed, Watched, OfPhone, OfOwner
<1>2. QED
  BY <1>1, AlwaysInv, PTL


\* The inbox has room: only the world fills it, and a reply has a place of its own.
LEMMA RoomStep ==
  ASSUME Base, DaemonTypeOK, [DaemonNext]_daemonVars
  PROVE  Len(inbox') <= MaxInbox + 1
<1> USE DEF calls, once, world, backend, history
<1>1. /\ Types /\ Len(inbox) \in Nat /\ MaxInbox \in Nat /\ MaxInbox >= 2 /\ Len(inbox) <= MaxInbox + 1
  BY Bounds, DaemonAssumption DEF Base, DaemonTypeOK
<1>2. ASSUME NEW ms \in Seq(Message), Heard(ms) PROVE Len(inbox') <= MaxInbox + 1
  BY <1>1, <1>2, Posted DEF Heard
<1>3. ASSUME NEW m, inbox' = Append(inbox, m) PROVE Len(inbox') = Len(inbox) + 1
  BY <1>1, <1>3 DEF Types
<1>4. ASSUME BluezReleases \/ Serve \/ \E c \in Callers : Ask(c) PROVE Len(inbox') <= MaxInbox + 1
  <2>1. PICK m : inbox' = Append(inbox, m) /\ Len(inbox) <= MaxInbox
    <3>1. BluezReleases => inbox' = Append(inbox, Signal("released", TRUE)) /\ Len(inbox) < MaxInbox
      BY DEF BluezReleases
    <3>2. Serve => inbox' = Append(inbox, [kind |-> "reply", value |-> Current, from |-> epoch])
                   /\ Len(inbox) <= MaxInbox
      BY DEF Serve
    <3>3. \A c \in Callers : Ask(c) => inbox' = Append(inbox, [kind |-> "ask", value |-> c, from |-> epoch])
                                      /\ Len(inbox) < MaxInbox
      BY DEF Ask
    <3>4. Len(inbox) < MaxInbox => Len(inbox) <= MaxInbox
      BY <1>1
    <3>5. QED
      BY <1>4, <3>1, <3>2, <3>3, <3>4, Zenon
  <2>2. QED
    BY <1>1, <1>3, <2>1
<1>5. ASSUME BusDrops \/ Closes PROVE Len(inbox') <= MaxInbox + 1
  BY <1>1, <1>5, EmptySeq DEF BusDrops, Closes, HangUp
<1>6. ASSUME Read PROVE Len(inbox') <= MaxInbox + 1
  BY <1>1, <1>6, Taken DEF Read
<1>7. ASSUME NEW r \in {"no", "true"}, Ends(r) PROVE Len(inbox') <= MaxInbox + 1
  <2>1. inbox' = [i \in DOMAIN inbox |-> Late(inbox[i])]
    BY <1>7 DEF Ends, Finish, DropReply
  <2>2. QED
    BY <1>1, <2>1, Marked
<1>8. ASSUME GoesOn \/ OpenStep \/ StopsIdle \/ WatchBus \/ OthersAsk PROVE Len(inbox') <= MaxInbox + 1
  <2>1. inbox' = inbox
    BY <1>8 DEF GoesOn, OpenStep, StopsIdle, WatchBus, OthersAsk
  <2>2. QED
    BY <1>1, <2>1
<1>9. CASE UNCHANGED daemonVars
  BY <1>1, <1>9 DEF daemonVars
<1>10. CASE DaemonNext
  BY <1>2, <1>4, <1>5, <1>6, <1>7, <1>8, <1>10, Steps
<1>11. QED
  BY <1>9, <1>10

\* Whatever the order of messages, every variable keeps its type, and the inbox its bound:
\* nothing the daemon does adds to it (DaemonTypeOK).
THEOREM DaemonTypeCorrect == DaemonSpec => []DaemonTypeOK
<1>1. Types /\ Len(inbox) <= MaxInbox + 1 => DaemonTypeOK
  <2>1. Stages = Opening \cup {"serving", "closing", "ended"}
    BY StagesAre DEF Stages
  <2>2. Phone \cup [state : {"gone"}, connected : BOOLEAN]
          \subseteq [state : {"trusted", "untrusted", "gone"}, connected : BOOLEAN]
    BY DEF Phone
  <2>3. QED
    BY <2>1, <2>2 DEF Types, DaemonTypeOK
<1>2. DaemonInit => Inv /\ DaemonTypeOK
  <2>1. DaemonInit => Len(inbox) <= MaxInbox + 1
    BY DaemonAssumption, EmptySeq DEF DaemonInit
  <2>2. QED
    BY <1>1, <2>1, InvInit DEF Inv, Base
<1>3. Inv /\ DaemonTypeOK /\ [DaemonNext]_daemonVars => (Inv /\ DaemonTypeOK)'
  <2> SUFFICES ASSUME Inv, DaemonTypeOK, [DaemonNext]_daemonVars PROVE Inv' /\ DaemonTypeOK'
    OBVIOUS
  <2>1. Inv' /\ Len(inbox') <= MaxInbox + 1
    BY InvStep, RoomStep DEF Inv
  <2>2. Types'
    BY <2>1 DEF Inv, Base
  <2>3. DaemonTypeOK'
    <3>1. Stages = Opening \cup {"serving", "closing", "ended"}
      BY StagesAre DEF Stages
    <3>2. Phone \cup [state : {"gone"}, connected : BOOLEAN]
            \subseteq [state : {"trusted", "untrusted", "gone"}, connected : BOOLEAN]
      BY DEF Phone
    <3>3. QED
      BY <2>1, <2>2, <3>1, <3>2 DEF Types, DaemonTypeOK
  <2>4. QED
    BY <2>1, <2>3
<1>4. QED
  BY <1>2, <1>3, PTL DEF DaemonSpec
=============================================================================
