---------------------------- MODULE RoomView_proofs ----------------------------
(***************************************************************************)
(* Proofs about RoomView, for any users, names and themes, any number of   *)
(* commands, patches, arrivals and lost connections, and any lengths of    *)
(* the chat: that nothing which is sent is dropped by the client's         *)
(* schemas, and that once the room is quiet the client shows it as it is.  *)
(***************************************************************************)
EXTENDS RoomView, FiniteSetTheorems, SequenceTheorems, TLAPS

USE DEF Guest, Member, Cohost, Hosting

------------------------------------------------------------------------------
(* What the variables range over.                                           *)

Rosters == UNION {[S -> RoomRole] : S \in SUBSET Users}
Recents == {l \in Seq(ChatMessage) : Len(l) <= MaxRecent}

Stores ==
  [me : Users \cup {None}, role : RoomRole, perms : Permissions \cup {None},
   room : RoomSnapshot \cup {None}, people : Rosters, queue : Seq(Nat),
   queueVersion : Nat, messages : Seq(ChatMessage), kicked : BOOLEAN,
   lastError : BOOLEAN, unread : Nat]

Readies ==
  [t : {"ready"}, me : {Me}, role : RoomRole, perms : Permissions,
   room : RoomSnapshot, people : Rosters, queue : Seq(Nat), messages : Recents]
PersonFrames ==
  [t : {"participant_joined", "participant_updated"}, user : Users, role : RoomRole]
LeftFrames == [t : {"participant_left"}, user : Users]
QueueFrames == [t : {"queue_updated"}, items : Seq(Nat), version : Nat]
ChatFrames == [t : {"chat_message"}, message : ChatMessage]
RoomFrames == [t : {"room_updated"}, room : RoomSnapshot]
AuthorityFrames ==
  [t : {"permissions_updated"}, user : Users, role : RoomRole, perms : Permissions]
ErrorFrames == [t : {"error"}]

Frames ==
  Readies \cup PersonFrames \cup LeftFrames \cup QueueFrames \cup ChatFrames
    \cup RoomFrames \cup AuthorityFrames \cup ErrorFrames

\* Each of them fits the client's schemas.
LEMMA FramesFit == \A m \in Frames : ServerMessage(m)
<1> SUFFICES ASSUME NEW m \in Frames
             PROVE  ServerMessage(m)
  OBVIOUS
<1>1. CASE m \in Readies
  <2>1. Participants(m.people)
    <3>1. PICK S \in SUBSET Users : m.people \in [S -> RoomRole]
      BY <1>1 DEF Readies, Rosters
    <3> QED
      BY <3>1 DEF Participants, Range
  <2>2. m.t = "ready" /\ m.me \in Users /\ m.messages \in Seq(ChatMessage)
    BY <1>1 DEF Readies, Recents, Users
  <2> QED
    BY <1>1, <2>1, <2>2 DEF Readies, ServerMessage, ReadyMessage
<1>2. CASE m \in PersonFrames
  BY <1>2 DEF PersonFrames, ServerMessage, ParticipantMessage
<1>3. CASE m \in LeftFrames
  BY <1>3 DEF LeftFrames, ServerMessage, ParticipantMessage
<1>4. CASE m \in QueueFrames
  BY <1>4 DEF QueueFrames, ServerMessage, QueueMessage
<1>5. CASE m \in ChatFrames
  BY <1>5 DEF ChatFrames, ServerMessage, ChatEvent
<1>6. CASE m \in RoomFrames
  BY <1>6 DEF RoomFrames, ServerMessage, RoomMessage
<1>7. CASE m \in AuthorityFrames
  BY <1>7 DEF AuthorityFrames, ServerMessage, RoomMessage
<1>8. CASE m \in ErrorFrames
  BY <1>8 DEF ErrorFrames, ServerMessage, Notice
<1> QED
  BY <1>1, <1>2, <1>3, <1>4, <1>5, <1>6, <1>7, <1>8 DEF Frames

\* The last n of a list are that many of its members at most.
LEMMA LastOfType ==
  ASSUME NEW S, NEW list \in Seq(S), NEW n \in Nat \ {0}
  PROVE  /\ LastOf(list, n) \in Seq(S)
         /\ Len(LastOf(list, n)) <= n /\ Len(LastOf(list, n)) <= Len(list)
         /\ \E k \in Nat :
              /\ k = 0 \/ k = Len(list) - n
              /\ Len(LastOf(list, n)) = Len(list) - k
              /\ \A i \in 1 .. Len(LastOf(list, n)) :
                   i + k \in 1 .. Len(list) /\ LastOf(list, n)[i] = list[i + k]
<1> DEFINE k == IF Len(list) > n THEN Len(list) - n ELSE 0
<1>1. k \in Nat /\ k <= Len(list) /\ Len(list) - k <= n /\ (k = 0 \/ k = Len(list) - n)
  OBVIOUS
<1>2. LastOf(list, n) = SubSeq(list, k + 1, Len(list))
  BY DEF LastOf
<1> HIDE DEF k
<1>3. \A i \in k + 1 .. Len(list) : list[i] \in S
  BY <1>1
<1>4. /\ LastOf(list, n) \in Seq(S)
      /\ Len(LastOf(list, n)) = IF k + 1 <= Len(list) THEN Len(list) - (k + 1) + 1 ELSE 0
      /\ \A i \in 1 .. Len(list) - (k + 1) + 1 : LastOf(list, n)[i] = list[k + 1 + i - 1]
  BY <1>1, <1>2, <1>3, k + 1 \in Int, Len(list) \in Int, SubSeqProperties
<1>5. Len(LastOf(list, n)) = Len(list) - k
  BY <1>1, <1>4
<1>6. \A i \in 1 .. Len(LastOf(list, n)) :
        i + k \in 1 .. Len(list) /\ LastOf(list, n)[i] = list[i + k]
  <2> TAKE i \in 1 .. Len(LastOf(list, n))
  <2>1. i \in Int /\ k + 1 + i - 1 = i + k /\ i \in 1 .. Len(list) - (k + 1) + 1
    BY <1>1, <1>5
  <2> QED
    BY <2>1, <1>1, <1>4
<1>7. Len(LastOf(list, n)) <= n /\ Len(LastOf(list, n)) <= Len(list)
  BY <1>1, <1>5
<1> QED
  BY <1>1, <1>4, <1>5, <1>6, <1>7

\* Rosters are functions, changed a person at a time.
LEMMA RosterOps ==
  ASSUME NEW r \in Rosters, NEW u \in Users, NEW role \in RoomRole
  PROVE  /\ DOMAIN r \subseteq Users /\ \A x \in DOMAIN r : r[x] \in RoomRole
         /\ With(r, u, role) \in Rosters
         /\ [x \in DOMAIN r \ {u} |-> r[x]] \in Rosters
         /\ [r EXCEPT ![u] = role] \in Rosters
<1>1. PICK S \in SUBSET Users : r \in [S -> RoomRole]
  BY DEF Rosters
<1>2. With(r, u, role) \in [S \cup {u} -> RoomRole]
  BY <1>1 DEF With
<1>3. [x \in DOMAIN r \ {u} |-> r[x]] \in [S \ {u} -> RoomRole]
  BY <1>1
<1>4. [r EXCEPT ![u] = role] \in [S -> RoomRole]
  BY <1>1
<1>5. S \cup {u} \in SUBSET Users /\ S \ {u} \in SUBSET Users
  OBVIOUS
<1> QED
  BY <1>1, <1>2, <1>3, <1>4, <1>5 DEF Rosters

\* Nothing the server sends takes the store out of its range.
LEMMA AppendMessageType ==
  ASSUME NEW list \in Seq(ChatMessage), NEW m \in ChatMessage, MaxMessages \in Nat \ {0}
  PROVE  /\ AppendMessage(list, m) \in Seq(ChatMessage)
         /\ Len(list) <= MaxMessages => Len(AppendMessage(list, m)) <= MaxMessages
<1>1. Append(list, m) \in Seq(ChatMessage)
  OBVIOUS
<1>2. LastOf(Append(list, m), MaxMessages) \in Seq(ChatMessage)
      /\ Len(LastOf(Append(list, m), MaxMessages)) <= MaxMessages
  BY <1>1, LastOfType
<1> QED
  BY <1>2 DEF AppendMessage

\* Nothing the server sends takes the store out of its range, and each message
\* changes its own fields only.
LEMMA ApplyType ==
  ASSUME NEW s \in Stores, NEW m \in Frames, MaxMessages \in Nat \ {0},
         MaxRecent \in 1 .. MaxMessages
  PROVE  /\ Apply(s, m) \in Stores
         /\ Len(s.messages) <= MaxMessages => Len(Apply(s, m).messages) <= MaxMessages
<1>1. CASE m \in Readies
  <2>1. Apply(s, m) = ApplyReady(s, m)
    BY <1>1 DEF Readies, Apply
  <2>2. m.messages \in Seq(ChatMessage) /\ Len(m.messages) <= MaxMessages /\ Me \in Users
    BY <1>1 DEF Readies, Recents, Users
  <2>3. ApplyReady(s, m) \in Stores
    BY <1>1, <2>2 DEF Readies, Stores, ApplyReady
  <2>4. ApplyReady(s, m).messages = m.messages
    BY DEF Stores, ApplyReady
  <2> QED
    BY <2>1, <2>2, <2>3, <2>4
<1>2. CASE m \in PersonFrames
  <2>1. s.people \in Rosters /\ m.user \in Users /\ m.role \in RoomRole
    BY <1>2 DEF PersonFrames, Stores
  <2>2. With(s.people, m.user, m.role) \in Rosters
        /\ [s.people EXCEPT ![m.user] = m.role] \in Rosters
    BY <2>1, RosterOps
  <2>3. Apply(s, m) \in {ApplyJoined(s, m), ApplyUpdated(s, m)}
    BY <1>2 DEF PersonFrames, Apply
  <2>4. ApplyJoined(s, m) \in Stores /\ ApplyJoined(s, m).messages = s.messages
    BY <2>2 DEF ApplyJoined, Stores
  <2>5. ApplyUpdated(s, m) \in Stores /\ ApplyUpdated(s, m).messages = s.messages
    BY <2>2 DEF ApplyUpdated, Stores
  <2> QED
    BY <2>3, <2>4, <2>5
<1>3. CASE m \in LeftFrames
  <2>1. s.people \in Rosters /\ m.user \in Users /\ 0 \in RoomRole
    BY <1>3 DEF LeftFrames, Stores, RoomRole
  <2>2. [u \in DOMAIN s.people \ {m.user} |-> s.people[u]] \in Rosters
    BY <2>1, RosterOps
  <2>3. Apply(s, m) = ApplyLeft(s, m)
    BY <1>3 DEF LeftFrames, Apply
  <2> QED
    BY <2>2, <2>3 DEF ApplyLeft, Stores
<1>4. CASE m \in QueueFrames
  <2>1. Apply(s, m) = ApplyQueueUpdated(s, m)
    BY <1>4 DEF QueueFrames, Apply
  <2>2. ApplyQueueUpdated(s, m) \in Stores
    BY <1>4 DEF QueueFrames, ApplyQueueUpdated, Stores
  <2>3. ApplyQueueUpdated(s, m).messages = s.messages
    BY DEF ApplyQueueUpdated, Stores
  <2> QED
    BY <2>1, <2>2, <2>3
<1>5. CASE m \in ChatFrames
  <2>1. Apply(s, m) = ApplyChat(s, m)
    BY <1>5 DEF ChatFrames, Apply
  <2>2. /\ AppendMessage(s.messages, m.message) \in Seq(ChatMessage)
        /\ Len(s.messages) <= MaxMessages
             => Len(AppendMessage(s.messages, m.message)) <= MaxMessages
    BY <1>5, AppendMessageType DEF ChatFrames, Stores
  <2>3. (IF m.message.by = s.me THEN s.unread ELSE s.unread + 1) \in Nat
    BY DEF Stores
  <2>4. ApplyChat(s, m) \in Stores
    BY <2>2, <2>3 DEF ApplyChat, Stores
  <2>5. ApplyChat(s, m).messages = AppendMessage(s.messages, m.message)
    BY DEF ApplyChat, Stores
  <2> QED
    BY <2>1, <2>2, <2>4, <2>5
<1>6. CASE m \in RoomFrames
  <2>1. Apply(s, m) = ApplyRoomUpdated(s, m)
    BY <1>6 DEF RoomFrames, Apply
  <2> QED
    BY <1>6, <2>1 DEF RoomFrames, ApplyRoomUpdated, Stores
<1>7. CASE m \in AuthorityFrames
  <2>1. Apply(s, m) = ApplyPermissionsUpdated(s, m)
    BY <1>7 DEF AuthorityFrames, Apply
  <2>2. ApplyPermissionsUpdated(s, m) \in Stores
    BY <1>7 DEF AuthorityFrames, ApplyPermissionsUpdated, Stores
  <2>3. ApplyPermissionsUpdated(s, m).messages = s.messages
    BY DEF ApplyPermissionsUpdated, Stores
  <2> QED
    BY <2>1, <2>2, <2>3
<1>8. CASE m \in ErrorFrames
  <2>1. Apply(s, m) = ApplyError(s, m)
    BY <1>8 DEF ErrorFrames, Apply
  <2> QED
    BY <2>1 DEF ApplyError, Stores
<1> QED
  BY <1>1, <1>2, <1>3, <1>4, <1>5, <1>6, <1>7, <1>8 DEF Frames

------------------------------------------------------------------------------
(* Type correctness.  The ranges are inductive together with who may be in a *)
(* handler, and with what has been numbered and admitted so far.             *)

Stages ==
  {"idle", "role_saved", "role_applied", "role_told", "host_saved", "host_applied", "host_told",
   "designated", "kicked", "said", "queue_saved", "queue_read", "greeting", "admitted"}

\* What the handler at h remembers.
WorkOf(h) ==
  /\ h.at \in Stages
  /\ h.at = "idle" => h = Idle
  /\ h.at \in {"role_saved", "role_applied", "role_told"} =>
       h \in [at : {"role_saved", "role_applied", "role_told"}, target : Users, role : RoomRole]
  /\ h.at \in {"host_saved", "host_applied", "host_told"} =>
       h \in [at : {"host_saved", "host_applied", "host_told"}, target : Users, role : {Hosting}]
  /\ h.at = "designated" => h.room \in RoomSnapshot
  /\ h.at = "kicked" => h.target \in Users
  /\ h.at = "said" => h.message \in ChatMessage
  /\ h.at = "queue_read" =>
       h \in [at : {"queue_read"}, list : Seq(Nat), before : SUBSET Users]
  /\ h.at = "admitted" => h.role \in RoomRole /\ h.perms \in Permissions

Asking(p) ==
  \/ p.field = "name" /\ p.value \in Names
  \/ p.field = "gq" /\ p.value \in BOOLEAN
  \/ p.field = "theme" /\ p.value \in Themes

PatchOf(p) ==
  /\ p.at = "read" => p.base \in RoomSnapshot /\ Asking(p.patch)
  /\ p.at = "saved" => p.row \in RoomSnapshot
  /\ p.at = "applied" => p.room \in RoomSnapshot

Rows ==
  /\ rows \in [Users -> [role : RoomRole, banned : BOOLEAN, known : BOOLEAN]]
  /\ \A u \in Users : ~rows[u].known => rows[u].role = Guest
Present ==
  /\ live \in Rosters /\ conns \in 0 .. 2
  /\ conns > 0 => Me \in DOMAIN live
  /\ \A u \in DOMAIN live : rows[u].known
  /\ \A u \in Users \ {Me} : busy[u] # Idle => u \in DOMAIN live
Sessions == sess \in [Users -> [role : RoomRole, perms : Permissions]]
Settings == info \in RoomSnapshot /\ saved \in RoomSnapshot /\ \A p \in patches : PatchOf(p)
Records == log \in Seq(ChatMessage) /\ items \in Seq(Nat)
Work == busy = [u \in Users |-> busy[u]] /\ \A u \in Users : WorkOf(busy[u])
Numbers ==
  /\ numbered \in Nat /\ store.queueVersion < numbered
  /\ \A i \in DOMAIN inbox : inbox[i].t = "queue_updated" => inbox[i].version < numbered
Wire ==
  /\ link \in {"down", "admitted", "joining", "up"}
  /\ inbox \in Seq(Frames) /\ raced \in BOOLEAN /\ crossed \subseteq {"queue", "roles", "room"}
  /\ ~Hears => inbox = <<>>
Connection ==
  /\ Hears => conns > 0
  /\ link = "admitted" <=> busy[Me].at = "admitted"
  /\ link = "admitted" => conns < 2
  /\ ~inRoom => link = "down"
Server ==
  /\ Rows /\ Present /\ Sessions /\ Settings /\ Records /\ Work /\ Numbers /\ Wire
  /\ Connection
Client ==
  /\ store \in Stores /\ Len(store.messages) <= MaxMessages
  /\ inRoom \in BOOLEAN /\ panel \in Panels
  /\ box \in [follows : BOOLEAN, behind : BOOLEAN, read : Seq(ChatMessage)]
  /\ form \in [name : Names \cup {None}, gq : BOOLEAN, typed : BOOLEAN]
  /\ panel = "settings" /\ store.room # None => form.name \in Names
  /\ own \in Themes /\ override \in Themes \cup {None} /\ looks \in 0 .. MaxLooks
Ranges == Server /\ Client /\ ops \in 0 .. MaxOps

\* The assumptions, and that the modelled user is one of the users.
LEMMA Constants ==
  /\ MaxMessages \in Nat \ {0} /\ MaxRecent \in 1 .. MaxMessages /\ MaxRecent \in Nat \ {0}
  /\ MaxOps \in Nat /\ MaxLooks \in Nat
  /\ Me \in Users /\ Host \in Users /\ Me # Host /\ Me \notin Others /\ Host \notin Others
  /\ None \notin Users /\ None \notin Names /\ None \notin Themes /\ None \notin RoomSnapshot
  /\ IsFiniteSet(Users)
<1>1. IsFiniteSet(Others)
  BY MessagesAssumption DEF MessagesAssumption
<1>2. IsFiniteSet(Others \cup {Me})
  BY <1>1, FS_AddElement
<1>3. IsFiniteSet((Others \cup {Me}) \cup {Host})
  BY <1>2, FS_AddElement
<1>4. Users = (Others \cup {Me}) \cup {Host}
  BY DEF Users
<1>5. MaxMessages \in Nat \ {0} /\ MaxRecent \in 1 .. MaxMessages /\ MaxOps \in Nat /\ MaxLooks \in Nat
  BY StoreAssumption, MembersAssumption, LooksAssumption
     DEF StoreAssumption, MembersAssumption, LooksAssumption
<1>6. MaxRecent \in Nat \ {0}
  BY <1>5
<1> QED
  BY <1>3, <1>4, <1>5, <1>6, MessagesAssumption DEF MessagesAssumption, Users

\* An announcement of frames that fit leaves only such on the way.
LEMMA BroadcastTypes ==
  ASSUME Wire, NEW s \in Seq(Frames), Broadcast(s)
  PROVE  /\ inbox' \in Seq(Frames) /\ raced' \in BOOLEAN
         /\ ~Hears => inbox' = <<>>
         /\ \A i \in DOMAIN inbox' :
              \/ i \in DOMAIN inbox /\ inbox'[i] = inbox[i]
              \/ \E j \in DOMAIN s : inbox'[i] = s[j]
<1>1. inbox \in Seq(Frames) /\ raced \in BOOLEAN
  BY DEF Wire
<1>2. CASE Hears
  <2>1. inbox' = inbox \o s
    BY <1>2 DEF Broadcast
  <2>2. ASSUME NEW i \in DOMAIN inbox'
        PROVE  \/ i \in DOMAIN inbox /\ inbox'[i] = inbox[i]
               \/ \E j \in DOMAIN s : inbox'[i] = s[j]
    <3>1. i \in 1 .. Len(inbox) + Len(s)
      BY <1>1, <2>1, <2>2
    <3>2. CASE i <= Len(inbox)
      BY <1>1, <2>1, <3>1, <3>2
    <3>3. CASE i > Len(inbox)
      <4>1. i - Len(inbox) \in DOMAIN s /\ inbox'[i] = s[i - Len(inbox)]
        BY <1>1, <2>1, <3>1, <3>3
      <4> QED
        BY <4>1
    <3> QED
      BY <1>1, <3>1, <3>2, <3>3
  <2> QED
    BY <1>1, <1>2, <2>1, <2>2 DEF Broadcast
<1>3. CASE ~Hears
  BY <1>1, <1>3 DEF Broadcast, Wire
<1> QED
  BY <1>2, <1>3

\* And a queue's list is numbered below the next.
LEMMA BroadcastNumbers ==
  ASSUME Wire, Numbers, NEW s \in Seq(Frames), Broadcast(s), numbered' \in Nat,
         numbered <= numbered', store'.queueVersion = store.queueVersion,
         store.queueVersion \in Nat,
         \A j \in DOMAIN s : s[j].t = "queue_updated" => s[j].version < numbered'
  PROVE  Numbers'
<1>1. \A i \in DOMAIN inbox' :
        \/ i \in DOMAIN inbox /\ inbox'[i] = inbox[i]
        \/ \E j \in DOMAIN s : inbox'[i] = s[j]
  BY BroadcastTypes
<1>2. ASSUME NEW i \in DOMAIN inbox', inbox'[i].t = "queue_updated"
      PROVE  inbox'[i].version < numbered'
  <2>1. CASE i \in DOMAIN inbox /\ inbox'[i] = inbox[i]
    <3>1. inbox[i] \in QueueFrames
      BY <1>2, <2>1 DEF Wire, Frames, Readies, PersonFrames, LeftFrames, ChatFrames,
         RoomFrames, AuthorityFrames, ErrorFrames
    <3>2. inbox[i].version \in Nat /\ inbox[i].version < numbered /\ numbered \in Nat
      BY <1>2, <2>1, <3>1 DEF Numbers, QueueFrames
    <3> QED
      BY <2>1, <3>2
  <2>2. CASE \E j \in DOMAIN s : inbox'[i] = s[j]
    BY <1>2, <2>2
  <2> QED
    BY <1>1, <2>1, <2>2
<1> QED
  BY <1>2 DEF Numbers

\* One session moves on, to where its handler remembers what it should, and
\* nobody comes or goes.
LEMMA Acts ==
  ASSUME Work, Present, Connection, NEW u \in Users, NEW h, WorkOf(h),
         h.at # "admitted", busy[u].at # "admitted",
         u # Me /\ h # Idle => u \in DOMAIN live,
         busy' = [busy EXCEPT ![u] = h],
         live' = live, conns' = conns, link' = link, inRoom' = inRoom,
         \A x \in Users : rows[x].known => rows'[x].known
  PROVE  /\ Work' /\ Present' /\ Connection'
         /\ busy'[u] = h /\ \A x \in Users \ {u} : busy'[x] = busy[x]
<1>1. busy'[u] = h /\ \A x \in Users \ {u} : busy'[x] = busy[x]
  BY DEF Work
<1>2. Work'
  BY <1>1 DEF Work
<1>3. Present'
  <2>1. \A x \in DOMAIN live : x \in Users
    BY DEF Present, Rosters
  <2> QED
    BY <1>1, <2>1 DEF Present
<1>4. busy'[Me].at = "admitted" <=> busy[Me].at = "admitted"
  BY <1>1, Constants
<1> QED
  BY <1>1, <1>2, <1>3, <1>4 DEF Connection, Hears

\* A session that is ready is in no handler.
LEMMA ReadyIdle ==
  ASSUME NEW u \in Users, Ready(u)
  PROVE  /\ u \in DOMAIN live /\ busy[u] = Idle /\ busy[u].at = "idle"
         /\ u = Me => Hears
BY DEF Ready, Idle, Hears

\* What is on the way stays in range when nothing is sent, and when frames are.
LEMMA QuietWire ==
  ASSUME Wire, Numbers, Quietly, numbered' = numbered, store' = store
  PROVE  Wire' /\ Numbers'
BY DEF Wire, Numbers, Quietly, Silent, Hears

LEMMA BroadcastWire ==
  ASSUME Wire, Numbers, NEW s \in Seq(Frames), Broadcast(s), numbered' = numbered,
         store' = store, store \in Stores, link' = link, crossed' \subseteq {"queue", "roles", "room"},
         \A j \in DOMAIN s : s[j].t # "queue_updated"
  PROVE  Wire' /\ Numbers'
<1>1. Wire'
  BY BroadcastTypes DEF Wire, Hears
<1>2. Numbers'
  BY BroadcastNumbers DEF Numbers, Stores
<1> QED
  BY <1>1, <1>2

LEMMA FrameWire ==
  ASSUME Wire, Numbers, NEW m \in Frames, m.t # "queue_updated", Broadcast(<<m>>),
         numbered' = numbered, store' = store, store \in Stores, link' = link, crossed' = crossed
  PROVE  Wire' /\ Numbers'
<1>1. <<m>> \in Seq(Frames) /\ \A j \in DOMAIN <<m>> : <<m>>[j].t # "queue_updated"
  OBVIOUS
<1>2. crossed' \subseteq {"queue", "roles", "room"}
  BY DEF Wire
<1> QED
  BY <1>1, <1>2, BroadcastWire

\* Two sequences that are written out, one after the other.
LEMMA Pair ==
  ASSUME NEW S, NEW a \in S, NEW b \in S
  PROVE  <<a>> \o <<b>> = <<a, b>> /\ <<a>> \o <<>> = <<a>>
<1> DEFINE c == <<a>> \o <<b>>
<1>1. <<a>> \in Seq(S) /\ <<b>> \in Seq(S) /\ <<a, b>> \in Seq(S)
      /\ Len(<<a>>) = 1 /\ Len(<<b>>) = 1 /\ Len(<<a, b>>) = 2
      /\ <<a>>[1] = a /\ <<b>>[1] = b /\ <<a, b>>[1] = a /\ <<a, b>>[2] = b
  OBVIOUS
<1>2. /\ c \in Seq(S) /\ Len(c) = Len(<<a>>) + Len(<<b>>)
      /\ \A i \in 1 .. Len(<<a>>) + Len(<<b>>) :
           c[i] = IF i <= Len(<<a>>) THEN <<a>>[i] ELSE <<b>>[i - Len(<<a>>)]
  BY <1>1, ConcatProperties
<1>3. Len(c) = 2 /\ c[1] = a /\ c[2] = b
  <2> HIDE DEF c
  <2>1. Len(c) = 2 /\ \A i \in 1 .. 2 : c[i] = IF i <= 1 THEN <<a>>[i] ELSE <<b>>[i - 1]
    BY <1>1, <1>2
  <2>2. c[1] = <<a>>[1] /\ c[2] = <<b>>[2 - 1]
    BY <2>1
  <2> QED
    BY <1>1, <2>1, <2>2
<1>4. c = <<a, b>>
  <2> HIDE DEF c
  <2>1. \A i \in 1 .. Len(c) : c[i] = <<a, b>>[i]
    BY <1>1, <1>3
  <2> QED
    BY <1>1, <1>2, <1>3, <2>1, SeqEqual
<1>5. <<a>> \o <<>> = <<a>>
  BY <1>1, ConcatEmptySeq
<1> QED
  BY <1>4, <1>5

------------------------------------------------------------------------------
(* The commands keep the ranges.                                            *)

LEMMA SetRoleTypes ==
  ASSUME Server, Client, store' = store, inRoom' = inRoom,
         NEW u \in Users, NEW t \in Users, NEW role \in {Member, Cohost},
         Ready(u), SetRole(u, t, role)
  PROVE  Server'
<1> DEFINE h == [at |-> "role_saved", target |-> t, role |-> role]
<1>1. t \in DOMAIN live /\ role \in RoomRole
  BY DEF SetRole, MaySetRole, RoomRole
<1>2. rows' = [rows EXCEPT ![t].role = role]
  BY DEF SetRole
<1>3. Rows' /\ \A x \in Users : rows[x].known => rows'[x].known
  BY <1>1, <1>2 DEF Server, Rows, Present
<1>4. WorkOf(h)
  BY <1>1 DEF WorkOf, Stages
<1>5. Work' /\ Present' /\ Connection'
  BY <1>3, <1>4, Acts, ReadyIdle DEF Server, SetRole, Quietly
<1>6. Wire' /\ Numbers'
  BY QuietWire DEF Server, SetRole
<1>7. Sessions' /\ Settings' /\ Records'
  BY DEF Server, Sessions, Settings, Records, SetRole
<1> QED
  BY <1>3, <1>5, <1>6, <1>7 DEF Server

LEMMA TransferHostTypes ==
  ASSUME Server, Client, store' = store, inRoom' = inRoom,
         NEW u \in Users, NEW t \in Users, Ready(u), TransferHost(u, t)
  PROVE  Server'
<1> DEFINE h == [at |-> "host_saved", target |-> t, role |-> Hosting]
<1>1. u \in DOMAIN live /\ t # u
  BY ReadyIdle DEF TransferHost
<1>2. rows' = [rows EXCEPT ![u].role = Cohost, ![t] = [@ EXCEPT !.role = Hosting, !.known = TRUE]]
  BY DEF TransferHost
<1>3. Rows' /\ \A x \in Users : rows[x].known => rows'[x].known
  <2>1. rows' \in [Users -> [role : RoomRole, banned : BOOLEAN, known : BOOLEAN]]
    <3> DEFINE halfway == [rows EXCEPT ![u].role = Cohost]
    <3>1. halfway \in [Users -> [role : RoomRole, banned : BOOLEAN, known : BOOLEAN]]
      BY DEF Server, Rows, RoomRole
    <3>2. rows' = [halfway EXCEPT ![t] = [@ EXCEPT !.role = Hosting, !.known = TRUE]]
      BY <1>2
    <3> HIDE DEF halfway
    <3>3. halfway[t] \in [role : RoomRole, banned : BOOLEAN, known : BOOLEAN]
      BY <3>1
    <3>4. [halfway[t] EXCEPT !.role = Hosting] \in [role : RoomRole, banned : BOOLEAN, known : BOOLEAN]
      BY <3>3 DEF RoomRole
    <3>5. [[halfway[t] EXCEPT !.role = Hosting] EXCEPT !.known = TRUE]
            \in [role : RoomRole, banned : BOOLEAN, known : BOOLEAN]
      BY <3>4
    <3> QED
      BY <3>1, <3>2, <3>5
  <2>2. rows[u].known /\ rows'[u].known = rows[u].known /\ rows'[t].known
    BY <1>1, <1>2 DEF Server, Rows, Present
  <2>3. \A x \in Users \ {u, t} : rows'[x] = rows[x]
    BY <1>2 DEF Server, Rows
  <2> QED
    BY <2>1, <2>2, <2>3 DEF Server, Rows
<1>4. WorkOf(h)
  BY DEF WorkOf, Stages
<1>5. Work' /\ Present' /\ Connection'
  BY <1>3, <1>4, Acts, ReadyIdle DEF Server, TransferHost, Quietly
<1>6. Wire' /\ Numbers'
  BY QuietWire DEF Server, TransferHost
<1>7. Sessions' /\ Settings' /\ Records'
  BY DEF Server, Sessions, Settings, Records, TransferHost
<1> QED
  BY <1>3, <1>5, <1>6, <1>7 DEF Server

LEMMA KickTypes ==
  ASSUME Server, Client, store' = store, inRoom' = inRoom,
         NEW u \in Users, NEW t \in Users, Ready(u), Kick(u, t)
  PROVE  Server'
<1> DEFINE h == [at |-> "kicked", target |-> t]
<1>1. rows' = [rows EXCEPT ![t].banned = TRUE]
  BY DEF Kick
<1>2. Rows' /\ \A x \in Users : rows[x].known => rows'[x].known
  BY <1>1 DEF Server, Rows
<1>3. WorkOf(h)
  BY DEF WorkOf, Stages
<1>4. Work' /\ Present' /\ Connection'
  BY <1>2, <1>3, Acts, ReadyIdle DEF Server, Kick, Quietly
<1>5. Wire' /\ Numbers'
  BY QuietWire DEF Server, Kick
<1>6. Sessions' /\ Settings' /\ Records'
  BY DEF Server, Sessions, Settings, Records, Kick
<1> QED
  BY <1>2, <1>4, <1>5, <1>6 DEF Server

LEMMA DesignateTypes ==
  ASSUME Server, Client, store' = store, inRoom' = inRoom,
         NEW u \in Users, NEW t \in Users \cup {None}, Ready(u), Designate(u, t)
  PROVE  Server'
<1> DEFINE h == [at |-> "designated", room |-> info']
<1>1. info' \in RoomSnapshot
  BY DEF Server, Settings, Designate, RoomSnapshot
<1>2. WorkOf(h) /\ busy' = [busy EXCEPT ![u] = h]
  BY <1>1 DEF WorkOf, Stages, Designate, Idle
<1>3. h.at # "admitted" /\ h # Idle
  BY DEF Idle
<1> HIDE DEF h
<1>4. Wire' /\ Numbers'
  BY DEF Server, Wire, Numbers, Designate, RoomCrosses, Silent, Hears
<1>5. Work' /\ Present' /\ Connection'
  BY <1>2, <1>3, Acts, ReadyIdle DEF Server, Designate
<1>6. Settings'
  BY <1>1 DEF Server, Settings, Designate
<1>7. Rows' /\ Sessions' /\ Records'
  BY DEF Server, Rows, Sessions, Records, Designate
<1> QED
  BY <1>4, <1>5, <1>6, <1>7 DEF Server

LEMMA DesignateAnnouncedTypes ==
  ASSUME Server, Client, store' = store, inRoom' = inRoom, NEW u \in Users, DesignateAnnounced(u)
  PROVE  Server'
<1> DEFINE s == <<[t |-> "room_updated", room |-> busy[u].room]>>
<1>1. busy[u].at = "designated" /\ busy[u].room \in RoomSnapshot
  BY DEF DesignateAnnounced, Server, Work, WorkOf
<1>2. s \in Seq(Frames) /\ \A j \in DOMAIN s : s[j].t # "queue_updated"
  BY <1>1 DEF Frames, RoomFrames
<1>3. Broadcast(s) /\ numbered' = numbered /\ link' = link
  BY DEF DesignateAnnounced, Stays
<1> HIDE DEF s
<1>4. Wire' /\ Numbers'
  <2>1. crossed' \subseteq {"queue", "roles", "room"}
    BY DEF DesignateAnnounced, RoomSettles, Server, Wire
  <2> QED
    BY <1>2, <1>3, <2>1, BroadcastWire DEF Server, Client
<1>5. WorkOf(Idle)
  BY DEF WorkOf, Stages, Idle
<1>6. Work' /\ Present' /\ Connection'
  BY <1>1, <1>5, Acts DEF Server, DesignateAnnounced, Stays, Idle
<1>7. Rows' /\ Sessions' /\ Settings' /\ Records'
  BY DEF Server, Rows, Sessions, Settings, Records, DesignateAnnounced, Stays
<1> QED
  BY <1>4, <1>6, <1>7 DEF Server

LEMMA ChatSendTypes ==
  ASSUME Server, Client, store' = store, inRoom' = inRoom, NEW u \in Users, Ready(u), ChatSend(u)
  PROVE  Server'
<1> DEFINE line == [id |-> Len(log) + 1, by |-> u]
           h == [at |-> "said", message |-> log'[Len(log')]]
<1>1. log' = Append(log, line) /\ line \in ChatMessage /\ log \in Seq(ChatMessage)
  BY DEF Server, Records, ChatSend, ChatMessage
<1>2. log' \in Seq(ChatMessage) /\ log'[Len(log')] = line
  BY <1>1
<1>3. WorkOf(h)
  BY <1>1, <1>2 DEF WorkOf, Stages
<1>4. Work' /\ Present' /\ Connection'
  BY <1>3, Acts, ReadyIdle DEF Server, ChatSend, Quietly
<1>5. Wire' /\ Numbers'
  BY QuietWire DEF Server, ChatSend
<1>6. Rows' /\ Sessions' /\ Settings'
  BY DEF Server, Rows, Sessions, Settings, ChatSend
<1>7. Records'
  BY <1>2 DEF Server, Records, ChatSend
<1> QED
  BY <1>4, <1>5, <1>6, <1>7 DEF Server

\* A number for a new item can always be found.
FreshNumber(taken) == CHOOSE n \in 1 .. Cardinality(taken) + 1 : n \notin taken

LEMMA FreshNumberType ==
  ASSUME NEW taken, IsFiniteSet(taken)
  PROVE  FreshNumber(taken) \in Nat
<1>1. Cardinality(taken) \in Nat
  BY FS_CardinalityType
<1>2. \E n \in 1 .. Cardinality(taken) + 1 : n \notin taken
  <2> SUFFICES ASSUME 1 .. Cardinality(taken) + 1 \subseteq taken
               PROVE  FALSE
    OBVIOUS
  <2>1. Cardinality(1 .. Cardinality(taken) + 1) <= Cardinality(taken)
    BY FS_Subset
  <2>2. Cardinality(1 .. Cardinality(taken) + 1) = Cardinality(taken) + 1
    BY <1>1, FS_Interval
  <2> QED
    BY <1>1, <2>1, <2>2
<1>3. FreshNumber(taken) \in 1 .. Cardinality(taken) + 1
  BY <1>2 DEF FreshNumber
<1> QED
  BY <1>1, <1>3

\* Every edit leaves a queue of numbers.
LEMMA QueueEditsType ==
  ASSUME items \in Seq(Nat), NEW edit \in DOMAIN QueueEdits
  PROVE  QueueEdits[edit] \in Seq(Nat)
<1> DEFINE taken == ToSet(items)
           first == FreshNumber(taken)
           both == taken \cup {first}
           second == FreshNumber(both)
           edits == [add |-> Append(items, first), import |-> items \o <<first, second>>,
                     remove |-> IF items = <<>> THEN items ELSE Tail(items),
                     shuffle |-> Reverse(items), clear |-> <<>>]
<1>1. IsFiniteSet(taken)
  <2>1. IsFiniteSet(1 .. Len(items))
    BY FS_Interval
  <2>2. items \in Surjection(1 .. Len(items), taken)
    BY DEF Surjection, ToSet
  <2> QED
    BY <2>1, <2>2, FS_Surjection
<1>2. IsFiniteSet(both)
  BY <1>1, FS_AddElement
<1> HIDE DEF taken
<1>3. first \in Nat
  BY <1>1, FreshNumberType
<1> HIDE DEF both
<1>4. second \in Nat
  BY <1>2, FreshNumberType
<1> HIDE DEF first, second
<1>5. QueueEdits = edits
  BY DEF QueueEdits, FreshNumber, first, second, both, taken
<1>6. Append(items, first) \in Seq(Nat) /\ items \o <<first, second>> \in Seq(Nat)
  BY <1>3, <1>4
<1>7. (IF items = <<>> THEN items ELSE Tail(items)) \in Seq(Nat)
  OBVIOUS
<1>8. Reverse(items) \in Seq(Nat)
  BY DEF Reverse
<1>9. edit \in {"add", "import", "remove", "shuffle", "clear"}
  BY <1>5
<1>10. edits[edit] \in Seq(Nat)
  <2>1. CASE edit = "add"
    BY <1>6, <2>1
  <2>2. CASE edit = "import"
    BY <1>6, <2>2
  <2>3. CASE edit = "remove"
    BY <1>7, <2>3
  <2>4. CASE edit = "shuffle"
    BY <1>8, <2>4
  <2>5. CASE edit = "clear"
    BY <2>5
  <2> QED
    BY <1>9, <2>1, <2>2, <2>3, <2>4, <2>5
<1> QED
  BY <1>5, <1>10

LEMMA QueueEditTypes ==
  ASSUME Server, Client, store' = store, inRoom' = inRoom,
         NEW u \in Users, NEW edit \in DOMAIN QueueEdits, Ready(u), QueueEdit(u, edit)
  PROVE  Server'
<1> DEFINE h == [at |-> "queue_saved"]
           line == [id |-> Len(log) + 1, by |-> None]
<1>1. log \in Seq(ChatMessage) /\ line \in ChatMessage /\ items \in Seq(Nat)
  BY DEF Server, Records, ChatMessage
<1>2. log' \in {log, Append(log, line)} /\ items' = QueueEdits[edit]
  BY DEF QueueEdit
<1>3. Records'
  <2>1. items' \in Seq(Nat)
    BY <1>1, <1>2, QueueEditsType
  <2>2. log' \in Seq(ChatMessage)
    <3> HIDE DEF line
    <3>1. Append(log, line) \in Seq(ChatMessage)
      BY <1>1
    <3> QED
      BY <1>1, <1>2, <3>1
  <2> QED
    BY <2>1, <2>2 DEF Records
<1>4. WorkOf(h)
  BY DEF WorkOf, Stages
<1>5. Work' /\ Present' /\ Connection'
  BY <1>4, Acts, ReadyIdle DEF Server, QueueEdit, Quietly
<1>6. Wire' /\ Numbers'
  BY QuietWire DEF Server, QueueEdit
<1>7. Rows' /\ Sessions' /\ Settings'
  BY DEF Server, Rows, Sessions, Settings, QueueEdit
<1> QED
  BY <1>3, <1>5, <1>6, <1>7 DEF Server

LEMMA RefusedTypes ==
  ASSUME Server, Client, store' = store, inRoom' = inRoom, Hears, Refused(Me)
  PROVE  Server'
<1> DEFINE m == [t |-> "error"]
<1>1. m \in Frames
  BY DEF Frames, ErrorFrames
<1>2. inbox' = Append(inbox, m) /\ inbox \in Seq(Frames)
  BY DEF Refused, Server, Wire
<1>3. Wire'
  BY <1>1, <1>2 DEF Server, Wire, Refused, Hears
<1>4. Numbers'
  <2>1. numbered' = numbered /\ store'.queueVersion < numbered'
    BY DEF Server, Numbers, Refused
  <2>2. ASSUME NEW i \in DOMAIN inbox', inbox'[i].t = "queue_updated"
        PROVE  i \in DOMAIN inbox /\ inbox'[i] = inbox[i]
    BY <1>1, <1>2, <2>2
  <2> QED
    BY <2>1, <2>2 DEF Server, Numbers
<1>5. Rows' /\ Present' /\ Sessions' /\ Settings' /\ Records' /\ Work' /\ Connection'
  BY DEF Server, Rows, Present, Sessions, Settings, Records, Work, Connection, Hears, Refused
<1> QED
  BY <1>3, <1>4, <1>5 DEF Server

LEMMA PatchStartsTypes ==
  ASSUME Server, Client, store' = store, inRoom' = inRoom,
         NEW u \in Users, NEW patch, Asking(patch), PatchStarts(u, patch)
  PROVE  Server'
<1>1. Settings'
  <2>1. PatchOf([at |-> "read", base |-> saved, patch |-> patch])
    BY DEF Server, Settings, PatchOf
  <2> QED
    BY <2>1 DEF Server, Settings, PatchStarts
<1>2. Wire' /\ Numbers'
  BY QuietWire DEF Server, PatchStarts
<1>3. Rows' /\ Present' /\ Sessions' /\ Records' /\ Work' /\ Connection'
  BY DEF Server, Rows, Present, Sessions, Records, Work, Connection, Hears, PatchStarts,
     Quietly
<1> QED
  BY <1>1, <1>2, <1>3 DEF Server

\* What a role may do is a set of permissions.
LEMMA ResolveType == \A role, gq : Resolve(role, gq) \in Permissions
BY DEF Resolve, Permissions

\* A member's row tells their role, and nobody else's says anything but guest.
LEMMA RoleOfRow ==
  ASSUME Rows, NEW u \in Users
  PROVE  RoleOf(u) = rows[u].role /\ RoleOf(u) \in RoomRole
BY DEF Rows, RoleOf, RoomRole

LEMMA ArrivesTypes ==
  ASSUME Server, Client, store' = store, inRoom' = inRoom,
         NEW u \in Users \ {Me}, Arrives(u)
  PROVE  Server'
<1> DEFINE h == [at |-> "greeting"]
<1>1. RoleOf(u) \in RoomRole /\ Resolve(RoleOf(u), saved.gq) \in Permissions
  BY RoleOfRow, ResolveType DEF Server
<1>2. /\ rows' = [rows EXCEPT ![u] = [@ EXCEPT !.role = RoleOf(u), !.known = TRUE]]
      /\ live' = With(live, u, RoleOf(u)) /\ busy' = [busy EXCEPT ![u] = h]
  BY DEF Arrives
<1>3. Rows' /\ rows'[u].known /\ \A x \in Users : rows[x].known => rows'[x].known
  BY <1>1, <1>2 DEF Server, Rows
<1>4. live' \in Rosters
  BY <1>1, <1>2, RosterOps DEF Server, Present
<1>5. DOMAIN live' = DOMAIN live \cup {u}
  BY <1>2 DEF With
<1>6. busy'[u] = h /\ \A x \in Users \ {u} : busy'[x] = busy[x]
  BY <1>2 DEF Server, Work
<1>7. Work'
  BY <1>2, <1>6 DEF Server, Work, WorkOf, Stages
<1>8. Present'
  <2>1. DOMAIN live \subseteq Users
    BY DEF Server, Present, Rosters
  <2> QED
    BY <1>3, <1>4, <1>5, <1>6, <2>1 DEF Server, Present, Arrives
<1>9. Wire' /\ Numbers'
  BY QuietWire DEF Server, Arrives
<1>10. Sessions'
  BY <1>1 DEF Server, Sessions, Arrives
<1>11. Settings' /\ Records'
  BY DEF Server, Settings, Records, Arrives
<1>12. Connection'
  BY <1>6, Constants DEF Server, Connection, Hears, Arrives, Quietly, Silent
<1> QED
  BY <1>3, <1>7, <1>8, <1>9, <1>10, <1>11, <1>12 DEF Server

LEMMA LeavesTypes ==
  ASSUME Server, Client, store' = store, inRoom' = inRoom,
         NEW u \in Users \ {Me}, Leaves(u)
  PROVE  Server'
<1> DEFINE s == <<[t |-> "participant_left", user |-> u]>>
<1>1. s \in Seq(Frames) /\ \A j \in DOMAIN s : s[j].t # "queue_updated"
  BY DEF Frames, LeftFrames
<1>2. Wire' /\ Numbers'
  BY <1>1, BroadcastWire DEF Server, Client, Leaves, Wire
<1>3. live' = [x \in DOMAIN live \ {u} |-> live[x]] /\ live' \in Rosters
  BY RosterOps, 0 \in RoomRole DEF Leaves, Server, Present, RoomRole
<1>4. Present'
  BY <1>3, ReadyIdle DEF Server, Present, Leaves
<1>5. Rows' /\ Sessions' /\ Settings' /\ Records' /\ Work' /\ Connection'
  BY DEF Server, Rows, Sessions, Settings, Records, Work, Connection, Hears, Leaves
<1> QED
  BY <1>2, <1>4, <1>5 DEF Server

------------------------------------------------------------------------------
(* So do the handlers.                                                      *)

LEMMA RoleAppliedTypes ==
  ASSUME Server, Client, store' = store, inRoom' = inRoom, NEW u \in Users, RoleApplied(u)
  PROVE  Server'
<1> DEFINE h == busy[u]
           there == h.target \in DOMAIN live
           after == IF there THEN [h EXCEPT !.at = "role_applied"] ELSE Idle
           line == [id |-> Len(log) + 1, by |-> None]
<1>1. h \in [at : {"role_saved", "role_applied", "role_told"}, target : Users, role : RoomRole] /\ h.at = "role_saved"
  BY DEF RoleApplied, Server, Work, WorkOf
<1>2. live' \in Rosters /\ DOMAIN live' = DOMAIN live
  <2>1. [live EXCEPT ![h.target] = h.role] \in Rosters
    BY <1>1, RosterOps DEF Server, Present
  <2> QED
    BY <2>1 DEF RoleApplied, Server, Present
<1>3. WorkOf(after) /\ after.at # "admitted"
  BY <1>1 DEF WorkOf, Stages, Idle
<1>4. busy' = [busy EXCEPT ![u] = after]
  BY DEF RoleApplied
<1> HIDE DEF after
<1>5. busy'[u] = after /\ \A x \in Users \ {u} : busy'[x] = busy[x]
  BY <1>4 DEF Server, Work
<1>6. Work'
  BY <1>3, <1>4, <1>5 DEF Server, Work
<1>7. Present'
  <2>1. u # Me => u \in DOMAIN live
    BY <1>1 DEF Server, Present, Idle
  <2> QED
    BY <1>2, <1>5, <2>1 DEF Server, Present, RoleApplied
<1>8. Connection'
  BY <1>1, <1>3, <1>5, Constants DEF Server, Connection, Hears, RoleApplied
<1>9. Records'
  <2> HIDE DEF line
  <2>1. log \in Seq(ChatMessage) /\ line \in ChatMessage
    BY DEF Server, Records, ChatMessage, line
  <2>2. log' = IF there THEN Append(log, line) ELSE log
    BY DEF RoleApplied, line
  <2> QED
    BY <2>1, <2>2 DEF Server, Records, RoleApplied
<1>10. crossed' \subseteq {"queue", "roles", "room"}
  BY DEF RoleApplied, RolesCross, Server, Wire
<1>11. Wire' /\ Numbers'
  BY <1>10 DEF Server, Wire, Numbers, RoleApplied, Silent, Hears
<1>12. Rows' /\ Sessions' /\ Settings'
  BY DEF Server, Rows, Sessions, Settings, RoleApplied
<1> QED
  BY <1>2, <1>6, <1>7, <1>8, <1>9, <1>11, <1>12 DEF Server

LEMMA RoleAnnouncedTypes ==
  ASSUME Server, Client, store' = store, inRoom' = inRoom, NEW u \in Users, RoleAnnounced(u)
  PROVE  Server'
<1> DEFINE m == [t |-> "participant_updated", user |-> busy[u].target, role |-> busy[u].role]
           h == [busy[u] EXCEPT !.at = "role_told"]
<1>0. Broadcast(<<m>>) /\ numbered' = numbered /\ link' = link /\ crossed' = crossed
  BY DEF RoleAnnounced, Stays
<1>1. /\ busy[u].at = "role_applied"
      /\ busy[u] \in [at : {"role_saved", "role_applied", "role_told"}, target : Users, role : RoomRole]
  BY DEF RoleAnnounced, Server, Work, WorkOf
<1>2. m \in Frames /\ m.t # "queue_updated"
  BY <1>1 DEF Frames, PersonFrames
<1> HIDE DEF m
<1>3. Wire' /\ Numbers'
  BY <1>2, <1>0, FrameWire DEF Server, Client
<1>4. WorkOf(h) /\ h.at # "admitted"
  BY <1>1 DEF WorkOf, Stages, Idle
<1>5. busy' = [busy EXCEPT ![u] = h] /\ (u # Me => u \in DOMAIN live)
  BY <1>1 DEF RoleAnnounced, Server, Present, Idle
<1> HIDE DEF h
<1>6. Work' /\ Present' /\ Connection'
  BY <1>1, <1>4, <1>5, Acts DEF Server, RoleAnnounced, Stays
<1>7. Rows' /\ Sessions' /\ Settings' /\ Records'
  BY DEF Server, Rows, Sessions, Settings, Records, RoleAnnounced, Stays
<1> QED
  BY <1>3, <1>6, <1>7 DEF Server

LEMMA TargetToldTypes ==
  ASSUME Server, Client, store' = store, inRoom' = inRoom, NEW u \in Users, TargetTold(u)
  PROVE  Server'
<1> DEFINE m == Entitlement(busy[u].target, busy[u].role)
<1>0. Broadcast(<<m>>) /\ numbered' = numbered /\ link' = link /\ crossed' = crossed
  BY DEF TargetTold, Stays
<1>1. busy[u].at = "role_told" /\ busy[u].target \in Users /\ busy[u].role \in RoomRole
  BY DEF TargetTold, Server, Work, WorkOf
<1>2. m \in Frames /\ m.t # "queue_updated"
  BY <1>1, ResolveType DEF Frames, AuthorityFrames, Entitlement
<1> HIDE DEF m
<1>3. Wire' /\ Numbers'
  BY <1>2, <1>0, FrameWire DEF Server, Client
<1>4. WorkOf(Idle)
  BY DEF WorkOf, Stages, Idle
<1>5. Work' /\ Present' /\ Connection'
  BY <1>1, <1>4, Acts DEF Server, TargetTold, Stays, Idle
<1>6. Rows' /\ Sessions' /\ Settings' /\ Records'
  BY DEF Server, Rows, Sessions, Settings, Records, TargetTold, Stays
<1> QED
  BY <1>3, <1>5, <1>6 DEF Server

LEMMA HostAppliedTypes ==
  ASSUME Server, Client, store' = store, inRoom' = inRoom, NEW u \in Users, HostApplied(u)
  PROVE  Server'
<1> DEFINE h == busy[u]
           after == [h EXCEPT !.at = "host_applied"]
           line == [id |-> Len(log) + 1, by |-> None]
<1>1. h \in [at : {"host_saved", "host_applied", "host_told"}, target : Users, role : {Hosting}] /\ h.at = "host_saved"
  BY DEF HostApplied, Server, Work, WorkOf
<1>2. live' \in Rosters /\ DOMAIN live' = DOMAIN live
  <2>1. PICK S \in SUBSET Users : live \in [S -> RoomRole]
    BY DEF Server, Present, Rosters
  <2>2. live' \in [S -> RoomRole] /\ DOMAIN live' = S
    BY <2>1 DEF HostApplied, RoomRole
  <2> QED
    BY <2>1, <2>2 DEF Rosters
<1>3. WorkOf(after) /\ after.at # "admitted"
  BY <1>1 DEF WorkOf, Stages, Idle
<1>4. busy' = [busy EXCEPT ![u] = after]
  BY DEF HostApplied
<1> HIDE DEF after
<1>5. busy'[u] = after /\ \A x \in Users \ {u} : busy'[x] = busy[x]
  BY <1>4 DEF Server, Work
<1>6. Work'
  BY <1>3, <1>4, <1>5 DEF Server, Work
<1>7. Present'
  <2>1. u # Me => u \in DOMAIN live
    BY <1>1 DEF Server, Present, Idle
  <2> QED
    BY <1>2, <1>5, <2>1 DEF Server, Present, HostApplied
<1>8. Connection'
  BY <1>1, <1>3, <1>5, Constants DEF Server, Connection, Hears, HostApplied
<1>9. Records'
  <2> HIDE DEF line
  <2>1. log \in Seq(ChatMessage) /\ line \in ChatMessage
    BY DEF Server, Records, ChatMessage, line
  <2>2. log' = Append(log, line)
    BY DEF HostApplied, line
  <2> QED
    BY <2>1, <2>2 DEF Server, Records, HostApplied
<1>10. crossed' \subseteq {"queue", "roles", "room"}
  BY DEF HostApplied, RolesCross, Server, Wire
<1>11. Wire' /\ Numbers'
  BY <1>10 DEF Server, Wire, Numbers, HostApplied, Silent, Hears
<1>12. Sessions'
  <2>1. Cohost \in RoomRole /\ Resolve(Cohost, info.gq) \in Permissions
    BY ResolveType DEF RoomRole
  <2>2. [role |-> Cohost, perms |-> Resolve(Cohost, info.gq)] \in [role : RoomRole, perms : Permissions]
    BY <2>1
  <2> QED
    BY <2>2 DEF Server, Sessions, HostApplied
<1>13. Rows' /\ Settings'
  BY DEF Server, Rows, Settings, HostApplied
<1> QED
  BY <1>2, <1>6, <1>7, <1>8, <1>9, <1>11, <1>12, <1>13 DEF Server

\* A finite set in a sequence: its members, and all of them.
LEMMA Listed ==
  ASSUME NEW S, IsFiniteSet(S)
  PROVE  /\ Cardinality(S) \in Nat /\ SetToSeq(S) \in [1 .. Cardinality(S) -> S]
         /\ \A x \in S : \E i \in 1 .. Cardinality(S) : SetToSeq(S)[i] = x
<1> DEFINE n == Cardinality(S)
<1>1. n \in Nat /\ ExistsBijection(1 .. n, S)
  BY FS_CardinalityType
<1>2. \E f \in [1 .. n -> S] : IsInjective(f)
  BY <1>1 DEF ExistsBijection, Bijection, Injection
<1>3. SetToSeq(S) \in [1 .. n -> S] /\ IsInjective(SetToSeq(S))
  BY <1>2 DEF SetToSeq
<1>4. SetToSeq(S) \in Injection(1 .. n, S)
  BY <1>3 DEF Injection
<1>5. IsFiniteSet(1 .. n) /\ Cardinality(1 .. n) = n
  BY <1>1, FS_Interval
<1>6. SetToSeq(S) \in Surjection(1 .. n, S)
  BY <1>4, <1>5, FS_Injection
<1> QED
  BY <1>1, <1>3, <1>6 DEF Surjection

\* What a handover announces first: everybody.
WholeList ==
  [i \in 1 .. Cardinality(DOMAIN live) |->
     [t |-> "participant_updated", user |-> SetToSeq(DOMAIN live)[i],
      role |-> live[SetToSeq(DOMAIN live)[i]]]]

LEMMA WholeListFrames ==
  ASSUME Server
  PROVE  /\ WholeList \in Seq(Frames) /\ Len(WholeList) = Cardinality(DOMAIN live)
         /\ \A i \in DOMAIN WholeList :
              /\ WholeList[i] \in PersonFrames /\ WholeList[i].t = "participant_updated"
              /\ WholeList[i].user \in DOMAIN live /\ WholeList[i].role = live[WholeList[i].user]
         /\ \A x \in DOMAIN live : \E i \in DOMAIN WholeList : WholeList[i].user = x
<1>1. DOMAIN live \subseteq Users /\ \A x \in DOMAIN live : live[x] \in RoomRole
  BY DEF Server, Present, Rosters
<1>2. IsFiniteSet(DOMAIN live)
  BY <1>1, Constants, FS_Subset
<1> DEFINE n == Cardinality(DOMAIN live)
           q == SetToSeq(DOMAIN live)
<1>3. /\ n \in Nat /\ q \in [1 .. n -> DOMAIN live]
      /\ \A x \in DOMAIN live : \E i \in 1 .. n : q[i] = x
  BY <1>2, Listed
<1>4. WholeList = [i \in 1 .. n |-> [t |-> "participant_updated", user |-> q[i], role |-> live[q[i]]]]
  BY DEF WholeList
<1> HIDE DEF n, q
<1>5. \A i \in 1 .. n : WholeList[i] \in PersonFrames
  BY <1>1, <1>3, <1>4 DEF PersonFrames
<1>6. WholeList \in Seq(Frames) /\ Len(WholeList) = n
  BY <1>3, <1>4, <1>5 DEF Frames
<1>7. DOMAIN WholeList = 1 .. n
  BY <1>4
<1>8. \A i \in 1 .. n : WholeList[i].user = q[i] /\ WholeList[i].role = live[q[i]]
                        /\ WholeList[i].t = "participant_updated"
  BY <1>4
<1> QED
  BY <1>3, <1>5, <1>6, <1>7, <1>8 DEF n

LEMMA HostAnnouncedTypes ==
  ASSUME Server, Client, store' = store, inRoom' = inRoom, NEW u \in Users, HostAnnounced(u)
  PROVE  Server'
<1> DEFINE h == [busy[u] EXCEPT !.at = "host_told"]
<1>1. /\ busy[u].at = "host_applied" /\ Broadcast(WholeList)
      /\ busy[u] \in [at : {"host_saved", "host_applied", "host_told"}, target : Users, role : {Hosting}]
  BY DEF HostAnnounced, WholeList, Server, Work, WorkOf
<1>2. WholeList \in Seq(Frames) /\ \A j \in DOMAIN WholeList : WholeList[j].t # "queue_updated"
  BY WholeListFrames
<1>3. Wire' /\ Numbers'
  BY <1>1, <1>2, BroadcastWire DEF Server, Client, HostAnnounced, Stays, Wire
<1>4. WorkOf(h) /\ h.at # "admitted"
  BY <1>1 DEF WorkOf, Stages, Idle
<1>5. busy' = [busy EXCEPT ![u] = h] /\ (u # Me => u \in DOMAIN live)
  BY <1>1 DEF HostAnnounced, Server, Present, Idle
<1> HIDE DEF h
<1>6. Work' /\ Present' /\ Connection'
  BY <1>1, <1>4, <1>5, Acts DEF Server, HostAnnounced, Stays
<1>7. Rows' /\ Sessions' /\ Settings' /\ Records'
  BY DEF Server, Rows, Sessions, Settings, Records, HostAnnounced, Stays
<1> QED
  BY <1>3, <1>6, <1>7 DEF Server

LEMMA HostToldTypes ==
  ASSUME Server, Client, store' = store, inRoom' = inRoom, NEW u \in Users, HostTold(u)
  PROVE  Server'
<1> DEFINE m == [t |-> "permissions_updated", user |-> u, role |-> Cohost, perms |-> sess[u].perms]
           h == [busy[u] EXCEPT !.at = "role_told"]
<1>0. Broadcast(<<m>>) /\ numbered' = numbered /\ link' = link /\ crossed' = crossed
  BY DEF HostTold, Stays
<1>1. /\ busy[u].at = "host_told"
      /\ busy[u] \in [at : {"host_saved", "host_applied", "host_told"}, target : Users, role : {Hosting}]
  BY DEF HostTold, Server, Work, WorkOf
<1>2. m \in Frames /\ m.t # "queue_updated"
  BY DEF Frames, AuthorityFrames, Server, Sessions, RoomRole, Cohost
<1> HIDE DEF m
<1>3. Wire' /\ Numbers'
  BY <1>2, <1>0, FrameWire DEF Server, Client
<1>4. WorkOf(h) /\ h.at # "admitted"
  BY <1>1 DEF WorkOf, Stages, Idle, RoomRole, Guest, Hosting
<1>5. busy' = [busy EXCEPT ![u] = h] /\ (u # Me => u \in DOMAIN live)
  BY <1>1 DEF HostTold, Server, Present, Idle, Work
<1> HIDE DEF h
<1>6. Work' /\ Present' /\ Connection'
  BY <1>1, <1>4, <1>5, Acts DEF Server, HostTold, Stays
<1>7. Rows' /\ Sessions' /\ Settings' /\ Records'
  BY DEF Server, Rows, Sessions, Settings, Records, HostTold, Stays
<1> QED
  BY <1>3, <1>6, <1>7 DEF Server

LEMMA KickAnnouncedTypes ==
  ASSUME Server, Client, store' = store, inRoom' = inRoom, NEW u \in Users, KickAnnounced(u)
  PROVE  Server'
<1> DEFINE m == [t |-> "participant_left", user |-> busy[u].target]
<1>0. Broadcast(<<m>>) /\ numbered' = numbered /\ link' = link /\ crossed' = crossed
  BY DEF KickAnnounced, Stays
<1>1. busy[u].at = "kicked" /\ busy[u].target \in Users
  BY DEF KickAnnounced, Server, Work, WorkOf
<1>2. m \in Frames /\ m.t # "queue_updated"
  BY <1>1 DEF Frames, LeftFrames
<1> HIDE DEF m
<1>3. Wire' /\ Numbers'
  BY <1>2, <1>0, FrameWire DEF Server, Client
<1>4. WorkOf(Idle)
  BY DEF WorkOf, Stages, Idle
<1>5. Work' /\ Present' /\ Connection'
  BY <1>1, <1>4, Acts DEF Server, KickAnnounced, Stays, Idle
<1>6. Rows' /\ Sessions' /\ Settings' /\ Records'
  BY DEF Server, Rows, Sessions, Settings, Records, KickAnnounced, Stays
<1> QED
  BY <1>3, <1>5, <1>6 DEF Server

LEMMA ChatAnnouncedTypes ==
  ASSUME Server, Client, store' = store, inRoom' = inRoom, NEW u \in Users, ChatAnnounced(u)
  PROVE  Server'
<1> DEFINE m == [t |-> "chat_message", message |-> busy[u].message]
<1>0. Broadcast(<<m>>) /\ numbered' = numbered /\ link' = link /\ crossed' = crossed
  BY DEF ChatAnnounced, Stays
<1>1. busy[u].at = "said" /\ busy[u].message \in ChatMessage
  BY DEF ChatAnnounced, Server, Work, WorkOf
<1>2. m \in Frames /\ m.t # "queue_updated"
  BY <1>1 DEF Frames, ChatFrames
<1> HIDE DEF m
<1>3. Wire' /\ Numbers'
  BY <1>2, <1>0, FrameWire DEF Server, Client
<1>4. WorkOf(Idle)
  BY DEF WorkOf, Stages, Idle
<1>5. Work' /\ Present' /\ Connection'
  BY <1>1, <1>4, Acts DEF Server, ChatAnnounced, Stays, Idle
<1>6. Rows' /\ Sessions' /\ Settings' /\ Records'
  BY DEF Server, Rows, Sessions, Settings, Records, ChatAnnounced, Stays
<1> QED
  BY <1>3, <1>5, <1>6 DEF Server

LEMMA QueueReadTypes ==
  ASSUME Server, Client, store' = store, inRoom' = inRoom, NEW u \in Users, QueueRead(u)
  PROVE  Server'
<1> DEFINE h == [at |-> "queue_read", list |-> items, before |-> Reading]
<1>1. busy[u].at = "queue_saved" /\ items \in Seq(Nat) /\ Reading \in SUBSET Users
  BY DEF QueueRead, Server, Records, Reading
<1>2. WorkOf(h)
  BY <1>1 DEF WorkOf, Stages
<1>3. u # Me => u \in DOMAIN live
  BY <1>1 DEF Server, Present, Idle
<1>4. Work' /\ Present' /\ Connection'
  BY <1>1, <1>2, <1>3, Acts DEF Server, QueueRead, Stays, Quietly
<1>5. Wire' /\ Numbers'
  BY QuietWire DEF Server, QueueRead, Stays
<1>6. Rows' /\ Sessions' /\ Settings' /\ Records'
  BY DEF Server, Rows, Sessions, Settings, Records, QueueRead, Stays
<1> QED
  BY <1>4, <1>5, <1>6 DEF Server

LEMMA QueueAnnouncedTypes ==
  ASSUME Server, Client, store' = store, inRoom' = inRoom, NEW u \in Users, QueueAnnounced(u)
  PROVE  Server'
<1> DEFINE h == busy[u]
           m == [t |-> "queue_updated", items |-> h.list, version |-> numbered]
<1>1. /\ h.at = "queue_read" /\ h.list \in Seq(Nat) /\ numbered \in Nat /\ numbered' = numbered + 1
      /\ Broadcast(<<m>>)
  BY DEF QueueAnnounced, Server, Work, WorkOf, Numbers
<1>2. m \in Frames /\ m.version < numbered'
  BY <1>1 DEF Frames, QueueFrames
<1>3. crossed' \subseteq {"queue", "roles", "room"}
  BY DEF QueueAnnounced, Server, Wire
<1>4. Wire'
  <2>1. <<m>> \in Seq(Frames)
    BY <1>2
  <2> QED
    BY <1>1, <1>3, <2>1, BroadcastTypes DEF Server, Wire, Hears, QueueAnnounced
<1>5. Numbers'
  <2>1. <<m>> \in Seq(Frames) /\ \A j \in DOMAIN <<m>> : <<m>>[j].version < numbered'
    BY <1>2
  <2>2. store'.queueVersion = store.queueVersion /\ store.queueVersion \in Nat /\ numbered <= numbered'
    BY <1>1 DEF Client, Stores
  <2>3. Wire /\ Numbers /\ Broadcast(<<m>>) /\ numbered' \in Nat
    BY <1>1 DEF Server
  <2> DEFINE s == <<m>>
  <2>4. s \in Seq(Frames) /\ Broadcast(s) /\ \A j \in DOMAIN s : s[j].version < numbered'
    BY <2>1, <2>3
  <2> HIDE DEF s
  <2> QED
    BY <2>2, <2>3, <2>4, BroadcastNumbers
<1>6. \A x \in Users :
        \/ busy'[x] = Idle /\ x = u
        \/ x # u /\ x \in Reading /\ busy'[x] = [busy[x] EXCEPT !.before = @ \ {u}]
        \/ x # u /\ x \notin Reading /\ busy'[x] = busy[x]
  BY DEF QueueAnnounced
<1>7. \A x \in Users \ {u} : busy'[x].at = busy[x].at /\ WorkOf(busy'[x])
  <2> TAKE x \in Users \ {u}
  <2>1. CASE x \in Reading
    <3>1. busy[x] \in [at : {"queue_read"}, list : Seq(Nat), before : SUBSET Users]
      BY <2>1 DEF Reading, Server, Work, WorkOf
    <3>2. busy'[x] = [busy[x] EXCEPT !.before = @ \ {u}] /\ busy[x].before \ {u} \in SUBSET Users
      BY <1>6, <2>1, <3>1
    <3>3. busy'[x] \in [at : {"queue_read"}, list : Seq(Nat), before : SUBSET Users]
      BY <3>1, <3>2
    <3> QED
      BY <3>1, <3>3 DEF WorkOf, Stages
  <2>2. CASE x \notin Reading
    BY <1>6, <2>2 DEF Server, Work
  <2> QED
    BY <2>1, <2>2
<1>8. busy'[u] = Idle /\ WorkOf(Idle)
  BY <1>6 DEF WorkOf, Stages, Idle
<1>9. Work'
  BY <1>7, <1>8 DEF Work, QueueAnnounced
<1>10. \A x \in Users : busy'[x] # Idle => busy[x] # Idle
  BY <1>7, <1>8 DEF Server, Work, WorkOf, Idle
<1>11. Present'
  BY <1>10 DEF Server, Present, QueueAnnounced
<1>12. busy'[Me].at = "admitted" <=> busy[Me].at = "admitted"
  BY <1>1, <1>7, <1>8, Constants DEF Idle
<1>13. Connection'
  BY <1>12 DEF Server, Connection, Hears, QueueAnnounced
<1>14. Rows' /\ Sessions' /\ Settings' /\ Records'
  BY DEF Server, Rows, Sessions, Settings, Records, QueueAnnounced
<1> QED
  BY <1>4, <1>5, <1>9, <1>11, <1>13, <1>14 DEF Server

LEMMA GreetsTypes ==
  ASSUME Server, Client, store' = store, inRoom' = inRoom, NEW u \in Users, Greets(u)
  PROVE  Server'
<1> DEFINE m == [t |-> "participant_joined", user |-> u, role |-> live[u]]
<1>0. Broadcast(<<m>>) /\ numbered' = numbered /\ link' = link /\ crossed' = crossed
  BY DEF Greets, Stays
<1>1. u # Me /\ busy[u].at = "greeting" /\ u \in DOMAIN live
  BY DEF Greets, Server, Present, Idle
<1>2. live[u] \in RoomRole
  BY <1>1 DEF Server, Present, Rosters
<1>3. m \in Frames /\ m.t # "queue_updated"
  BY <1>2 DEF Frames, PersonFrames
<1> HIDE DEF m
<1>4. Wire' /\ Numbers'
  BY <1>3, <1>0, FrameWire DEF Server, Client
<1>5. WorkOf(Idle)
  BY DEF WorkOf, Stages, Idle
<1>6. Work' /\ Present' /\ Connection'
  BY <1>1, <1>5, Acts DEF Server, Greets, Stays, Idle
<1>7. Rows' /\ Sessions' /\ Settings' /\ Records'
  BY DEF Server, Rows, Sessions, Settings, Records, Greets, Stays
<1> QED
  BY <1>4, <1>6, <1>7 DEF Server

LEMMA PatchSavedTypes ==
  ASSUME Server, Client, store' = store, inRoom' = inRoom, NEW p \in patches, PatchSaved(p)
  PROVE  Server'
<1>1. p.base \in RoomSnapshot /\ Asking(p.patch) /\ saved \in RoomSnapshot
  BY DEF PatchSaved, Server, Settings, PatchOf
<1>2. saved' \in RoomSnapshot
  <2> DEFINE named == [p.base EXCEPT !.name = saved.name]
  <2>1. named \in RoomSnapshot
    BY <1>1 DEF RoomSnapshot
  <2>2. saved' = [named EXCEPT ![p.patch.field] = p.patch.value]
    BY DEF PatchSaved, Merged
  <2> HIDE DEF named
  <2>3. CASE p.patch.field = "name" /\ p.patch.value \in Names
    BY <2>1, <2>2, <2>3 DEF RoomSnapshot
  <2>4. CASE p.patch.field = "gq" /\ p.patch.value \in BOOLEAN
    BY <2>1, <2>2, <2>4 DEF RoomSnapshot
  <2>5. CASE p.patch.field = "theme" /\ p.patch.value \in Themes
    BY <2>1, <2>2, <2>5 DEF RoomSnapshot
  <2> QED
    BY <1>1, <2>3, <2>4, <2>5 DEF Asking
<1>3. Settings'
  <2>1. PatchOf([at |-> "saved", row |-> saved'])
    BY <1>2 DEF PatchOf
  <2> QED
    BY <1>2, <2>1 DEF Server, Settings, PatchSaved
<1>4. Wire' /\ Numbers'
  BY QuietWire DEF Server, PatchSaved
<1>5. Rows' /\ Present' /\ Sessions' /\ Records' /\ Work' /\ Connection'
  BY DEF Server, Rows, Present, Sessions, Records, Work, Connection, Hears, PatchSaved, Quietly
<1> QED
  BY <1>3, <1>4, <1>5 DEF Server

LEMMA PatchAppliedTypes ==
  ASSUME Server, Client, store' = store, inRoom' = inRoom, NEW p \in patches, PatchApplied(p)
  PROVE  Server'
<1>1. info' \in RoomSnapshot
  BY DEF PatchApplied, Server, Settings, PatchOf, RoomSnapshot
<1>2. PatchOf([at |-> "applied", room |-> info'])
  BY <1>1 DEF PatchOf
<1>3. Settings'
  BY <1>1, <1>2 DEF Server, Settings, PatchApplied
<1>4. Wire' /\ Numbers'
  BY DEF Server, Wire, Numbers, PatchApplied, RoomCrosses, Silent, Hears
<1>5. Rows' /\ Present' /\ Sessions' /\ Records' /\ Work' /\ Connection'
  BY DEF Server, Rows, Present, Sessions, Records, Work, Connection, Hears, PatchApplied
<1> QED
  BY <1>3, <1>4, <1>5 DEF Server

LEMMA PatchAnnouncedTypes ==
  ASSUME Server, Client, store' = store, inRoom' = inRoom, NEW p \in patches, PatchAnnounced(p)
  PROVE  Server'
<1> DEFINE s == <<[t |-> "room_updated", room |-> p.room]>>
<1>1. p.room \in RoomSnapshot
  BY DEF PatchAnnounced, Server, Settings, PatchOf
<1>2. s \in Seq(Frames) /\ \A j \in DOMAIN s : s[j].t # "queue_updated"
  BY <1>1 DEF Frames, RoomFrames
<1>3. Broadcast(s) /\ numbered' = numbered /\ link' = link
  BY DEF PatchAnnounced
<1> HIDE DEF s
<1>4. Wire' /\ Numbers'
  <2>1. crossed' \subseteq {"queue", "roles", "room"}
    BY DEF PatchAnnounced, RoomSettles, Server, Wire
  <2> QED
    BY <1>2, <1>3, <2>1, BroadcastWire DEF Server, Client
<1>5. Settings'
  BY DEF Server, Settings, PatchAnnounced
<1>6. Rows' /\ Present' /\ Sessions' /\ Records' /\ Work' /\ Connection'
  BY DEF Server, Rows, Present, Sessions, Records, Work, Connection, Hears, PatchAnnounced
<1> QED
  BY <1>4, <1>5, <1>6 DEF Server

LEMMA AdmittedTypes ==
  ASSUME Server, Client, store' = store, inRoom' = inRoom, inRoom, Admitted
  PROVE  Server'
<1> DEFINE h == [at |-> "admitted", role |-> RoleOf(Me), perms |-> Resolve(RoleOf(Me), saved.gq)]
<1>1. RoleOf(Me) \in RoomRole /\ Resolve(RoleOf(Me), saved.gq) \in Permissions
  BY RoleOfRow, ResolveType, Constants DEF Server
<1>2. WorkOf(h)
  BY <1>1 DEF WorkOf, Stages
<1>3. busy'[Me] = h /\ \A x \in Users \ {Me} : busy'[x] = busy[x]
  BY Constants DEF Admitted, Server, Work
<1>4. Work'
  BY <1>2, <1>3 DEF Server, Work, Admitted
<1>5. Present'
  BY <1>3 DEF Server, Present, Admitted, Stays
<1>6. Wire' /\ Numbers'
  BY DEF Server, Wire, Numbers, Admitted, Stays, Silent, Hears
<1>7. Connection'
  BY <1>3 DEF Server, Connection, Hears, Admitted, Stays
<1>8. Rows' /\ Sessions' /\ Settings' /\ Records'
  BY DEF Server, Rows, Sessions, Settings, Records, Admitted, Stays
<1> QED
  BY <1>4, <1>5, <1>6, <1>7, <1>8 DEF Server

LEMMA AttachesTypes ==
  ASSUME Server, Client, store' = store, inRoom' = inRoom, Attaches
  PROVE  Server'
<1> DEFINE h == busy[Me]
           after == [at |-> "greeting", first |-> Me \notin DOMAIN live]
<1>1. /\ h.at = "admitted" /\ h.role \in RoomRole /\ h.perms \in Permissions
      /\ link = "admitted" /\ conns < 2 /\ inRoom
  BY Constants DEF Attaches, Server, Work, WorkOf, Connection
<1>2. Rows' /\ rows'[Me].known /\ \A x \in Users : rows[x].known => rows'[x].known
  <2>1. rows' = [rows EXCEPT ![Me] = [@ EXCEPT !.role = RoleOf(Me), !.known = TRUE]]
    BY DEF Attaches
  <2>2. RoleOf(Me) \in RoomRole
    BY RoleOfRow, Constants DEF Server
  <2> QED
    BY <2>1, <2>2, Constants DEF Server, Rows
<1>3. live' \in Rosters /\ DOMAIN live' = DOMAIN live \cup {Me}
  <2>1. live' = With(live, Me, h.role)
    BY DEF Attaches
  <2> QED
    BY <1>1, <2>1, RosterOps, Constants DEF Server, Present, With
<1>4. busy'[Me] = after /\ \A x \in Users \ {Me} : busy'[x] = busy[x]
  BY Constants DEF Attaches, Server, Work
<1>5. Work'
  <2>1. WorkOf(after)
    BY DEF WorkOf, Stages
  <2> QED
    BY <1>4, <2>1 DEF Server, Work, Attaches
<1>6. Present'
  <2>1. DOMAIN live \subseteq Users
    BY DEF Server, Present, Rosters
  <2>2. conns' \in 0 .. 2
    BY <1>1 DEF Server, Present, Attaches
  <2> QED
    BY <1>2, <1>3, <1>4, <2>1, <2>2 DEF Server, Present
<1>7. Wire' /\ Numbers'
  <2>1. inbox = <<>> /\ raced' \in BOOLEAN
    BY <1>1 DEF Server, Wire, Hears, Attaches
  <2> QED
    BY <2>1 DEF Server, Wire, Numbers, Hears, Attaches
<1>8. Connection'
  <2>1. conns' > 0 /\ busy'[Me].at = "greeting" /\ link' = "joining"
    BY <1>4 DEF Server, Present, Attaches
  <2> QED
    BY <1>1, <2>1 DEF Connection, Hears
<1>9. Sessions'
  BY <1>1 DEF Server, Sessions, Attaches
<1>10. Settings' /\ Records'
  BY DEF Server, Settings, Records, Attaches
<1> QED
  BY <1>2, <1>5, <1>6, <1>7, <1>8, <1>9, <1>10 DEF Server

\* The snapshot fits, and what follows it.
LEMMA SnapshotFits ==
  ASSUME Server
  PROVE  Snapshot \in Readies /\ Snapshot \in Frames
<1>1. LastOf(log, MaxRecent) \in Recents
  BY LastOfType, Constants DEF Server, Records, Recents
<1>2. sess[Me].role \in RoomRole /\ sess[Me].perms \in Permissions
  BY Constants DEF Server, Sessions
<1>3. Snapshot \in Readies
  BY <1>1, <1>2 DEF Snapshot, Readies, Server, Settings, Present, Records
<1> QED
  BY <1>3 DEF Frames

LEMMA ReadySentTypes ==
  ASSUME Server, Client, store' = store, inRoom' = inRoom, ReadySent
  PROVE  Server'
<1> DEFINE h == busy[Me]
           joined == [t |-> "participant_joined", user |-> Me, role |-> live[Me]]
           s == <<Snapshot>> \o (IF h.first THEN <<joined>> ELSE <<>>)
<1>1. h.at = "greeting"
  BY DEF ReadySent
<1>2. ASSUME link = "joining"
      PROVE  /\ s \in Seq(Frames) /\ s \in {<<Snapshot>>, <<Snapshot, joined>>}
             /\ \A j \in DOMAIN s : s[j].t # "queue_updated"
  <2>1. Me \in DOMAIN live
    BY <1>2 DEF Server, Connection, Hears, Present
  <2>2. live[Me] \in RoomRole
    BY <2>1 DEF Server, Present, Rosters
  <2>3. joined \in Frames
    BY <2>2, Constants DEF Frames, PersonFrames
  <2>4. Snapshot.t = "ready" /\ Snapshot \in Frames
    BY SnapshotFits DEF Readies
  <2> HIDE DEF joined
  <2>5. s = <<Snapshot>> \/ s = <<Snapshot, joined>>
    <3>1. CASE h.first
      BY <3>1, <2>3, <2>4, Pair
    <3>2. CASE ~h.first
      BY <3>2, <2>4, Pair
    <3> QED
      BY <3>1, <3>2
  <2> QED
    BY <2>3, <2>4, <2>5 DEF joined
<1>3. Wire' /\ Numbers'
  <2>1. CASE link = "joining"
    <3>1. inbox' = inbox \o s /\ inbox \in Seq(Frames)
      BY <2>1 DEF ReadySent, Server, Wire
    <3> HIDE DEF s
    <3>2. inbox' \in Seq(Frames)
      BY <1>2, <2>1, <3>1
    <3>3. ASSUME NEW i \in DOMAIN inbox', inbox'[i].t = "queue_updated"
          PROVE  i \in DOMAIN inbox /\ inbox'[i] = inbox[i]
      <4>1. i \in 1 .. Len(inbox) + Len(s) /\ s \in Seq(Frames)
        BY <1>2, <2>1, <3>1, <3>3
      <4>2. CASE i > Len(inbox)
        BY <1>2, <2>1, <3>1, <3>3, <4>1, <4>2
      <4> QED
        BY <3>1, <4>1, <4>2
    <3>4. Wire'
      BY <2>1, <3>2 DEF Server, Wire, Hears, ReadySent, Stays
    <3> QED
      BY <3>3, <3>4 DEF Server, Numbers, ReadySent, Stays
  <2>2. CASE link # "joining"
    BY <2>2 DEF Server, Wire, Numbers, Hears, ReadySent, Stays
  <2> QED
    BY <2>1, <2>2
<1>4. WorkOf(Idle)
  BY DEF WorkOf, Stages, Idle
<1>5. Work' /\ Present' /\ Connection'
  BY <1>1, <1>4, Acts, Constants DEF Server, ReadySent, Stays, Idle
<1>6. Rows' /\ Sessions' /\ Settings' /\ Records'
  BY DEF Server, Rows, Sessions, Settings, Records, ReadySent, Stays
<1> QED
  BY <1>3, <1>5, <1>6 DEF Server

LEMMA DetachesTypes ==
  ASSUME Server, Client, store' = store, inRoom' = inRoom, Detaches
  PROVE  Server'
<1> DEFINE m == [t |-> "participant_left", user |-> Me]
<1>1. /\ busy[Me] = Idle /\ conns > 0 /\ conns' = conns - 1 /\ conns' \in 0 .. 2
      /\ Hears => conns' > 0
  BY DEF Detaches, Server, Present
<1>2. CASE conns' > 0
  <2>1. Wire' /\ Numbers' /\ live' = live
    BY <1>2 DEF Detaches, Server, Wire, Numbers, Silent, Hears
  <2>2. Present'
    BY <1>1, <1>2, <2>1 DEF Server, Present, Detaches
  <2>3. Connection'
    BY <1>1, <1>2 DEF Server, Connection, Hears, Detaches
  <2>4. Rows' /\ Sessions' /\ Settings' /\ Records' /\ Work'
    BY DEF Server, Rows, Sessions, Settings, Records, Work, Detaches
  <2> QED
    BY <2>1, <2>2, <2>3, <2>4 DEF Server
<1>3. CASE ~(conns' > 0)
  <2>1. m \in Frames /\ m.t # "queue_updated"
    BY Constants DEF Frames, LeftFrames
  <2>2. Broadcast(<<m>>) /\ live' = [x \in DOMAIN live \ {Me} |-> live[x]]
    BY <1>3 DEF Detaches
  <2> HIDE DEF m
  <2>3. Wire' /\ Numbers'
    BY <2>1, <2>2, FrameWire DEF Server, Client, Detaches
  <2>4. live' \in Rosters
    BY <2>2, RosterOps, Constants, 0 \in RoomRole DEF Server, Present, RoomRole
  <2>5. Present'
    BY <1>1, <1>3, <2>2, <2>4 DEF Server, Present, Detaches
  <2>6. Connection'
    BY <1>1, <1>3 DEF Server, Connection, Hears, Detaches
  <2>7. Rows' /\ Sessions' /\ Settings' /\ Records' /\ Work'
    BY DEF Server, Rows, Sessions, Settings, Records, Work, Detaches
  <2> QED
    BY <2>3, <2>5, <2>6, <2>7 DEF Server
<1> QED
  BY <1>2, <1>3

------------------------------------------------------------------------------
(* What the client makes of a frame, and of everything else.                *)

\* Each kind of frame changes its own fields.
LEMMA ApplyFields ==
  ASSUME NEW s \in Stores, NEW m \in Frames
  PROVE  /\ m.t # "ready" => Apply(s, m).me = s.me
         /\ m.t \notin {"ready", "room_updated"} => Apply(s, m).room = s.room
         /\ m.t \notin {"ready", "chat_message"} => Apply(s, m).messages = s.messages
         /\ m.t \notin {"ready", "queue_updated"} => Apply(s, m).queue = s.queue
         /\ m.t # "queue_updated" => Apply(s, m).queueVersion = s.queueVersion
         /\ m.t \notin {"ready", "permissions_updated"} =>
              Apply(s, m).role = s.role /\ Apply(s, m).perms = s.perms
         /\ m.t \notin {"ready", "participant_joined", "participant_left",
                        "participant_updated"} => Apply(s, m).people = s.people
<1>1. CASE m \in Readies
  <2>1. Apply(s, m) = ApplyReady(s, m) /\ m.t = "ready"
    BY <1>1 DEF Readies, Apply
  <2> QED
    BY <2>1 DEF ApplyReady, Stores
<1>2. CASE m \in PersonFrames
  <2>1. Apply(s, m) \in {ApplyJoined(s, m), ApplyUpdated(s, m)}
        /\ m.t \in {"participant_joined", "participant_updated"}
    BY <1>2 DEF PersonFrames, Apply
  <2>2. Apply(s, m) \in {s, [s EXCEPT !.people = With(s.people, m.user, m.role)],
                         [s EXCEPT !.people = [s.people EXCEPT ![m.user] = m.role]]}
    BY <2>1 DEF ApplyJoined, ApplyUpdated, Stores
  <2> DEFINE r == Apply(s, m)
  <2>3. \A people : [s EXCEPT !.people = people] =
                      [me |-> s.me, role |-> s.role, perms |-> s.perms, room |-> s.room,
                       people |-> people, queue |-> s.queue, queueVersion |-> s.queueVersion,
                       messages |-> s.messages, kicked |-> s.kicked,
                       lastError |-> s.lastError, unread |-> s.unread]
    BY DEF Stores
  <2>4. r = s \/ \E people : r = [s EXCEPT !.people = people]
    BY <2>2
  <2> HIDE DEF r
  <2>5. r.me = s.me /\ r.room = s.room /\ r.messages = s.messages /\ r.queue = s.queue
        /\ r.queueVersion = s.queueVersion /\ r.role = s.role /\ r.perms = s.perms
    <3>1. CASE r = s
      BY <3>1
    <3>2. ASSUME NEW people, r = [s EXCEPT !.people = people]
          PROVE  r.me = s.me /\ r.room = s.room /\ r.messages = s.messages /\ r.queue = s.queue
                 /\ r.queueVersion = s.queueVersion /\ r.role = s.role /\ r.perms = s.perms
      BY <2>3, <3>2
    <3> QED
      BY <2>4, <3>1, <3>2
  <2> QED
    BY <2>1, <2>5 DEF r
<1>3. CASE m \in LeftFrames
  <2>1. Apply(s, m) = ApplyLeft(s, m) /\ m.t = "participant_left"
    BY <1>3 DEF LeftFrames, Apply
  <2> QED
    BY <2>1 DEF ApplyLeft, Stores
<1>4. CASE m \in QueueFrames
  <2>1. Apply(s, m) = ApplyQueueUpdated(s, m) /\ m.t = "queue_updated"
    BY <1>4 DEF QueueFrames, Apply
  <2> QED
    BY <2>1 DEF ApplyQueueUpdated, Stores
<1>5. CASE m \in ChatFrames
  <2>1. Apply(s, m) = ApplyChat(s, m) /\ m.t = "chat_message"
    BY <1>5 DEF ChatFrames, Apply
  <2> QED
    BY <2>1 DEF ApplyChat, Stores
<1>6. CASE m \in RoomFrames
  <2>1. Apply(s, m) = ApplyRoomUpdated(s, m) /\ m.t = "room_updated"
    BY <1>6 DEF RoomFrames, Apply
  <2> QED
    BY <2>1 DEF ApplyRoomUpdated, Stores
<1>7. CASE m \in AuthorityFrames
  <2>1. Apply(s, m) = ApplyPermissionsUpdated(s, m) /\ m.t = "permissions_updated"
    BY <1>7 DEF AuthorityFrames, Apply
  <2> QED
    BY <2>1 DEF ApplyPermissionsUpdated, Stores
<1>8. CASE m \in ErrorFrames
  <2>1. Apply(s, m) = ApplyError(s, m) /\ m.t = "error"
    BY <1>8 DEF ErrorFrames, Apply
  <2> QED
    BY <2>1 DEF ApplyError, Stores
<1> QED
  BY <1>1, <1>2, <1>3, <1>4, <1>5, <1>6, <1>7, <1>8 DEF Frames

\* The fields a frame sets, by its kind.
LEMMA ApplySets ==
  ASSUME NEW s \in Stores, NEW m \in Frames
  PROVE  /\ m.t = "ready" => /\ Apply(s, m).me = m.me /\ Apply(s, m).role = m.role
                             /\ Apply(s, m).room = m.room /\ Apply(s, m).people = m.people
                             /\ Apply(s, m).queue = m.queue /\ m \in Readies
         /\ m.t = "room_updated" => Apply(s, m).room = m.room /\ m.room \in RoomSnapshot
         /\ m.t = "queue_updated" =>
              /\ m \in QueueFrames
              /\ m.version <= s.queueVersion =>
                   Apply(s, m).queueVersion = s.queueVersion /\ Apply(s, m).queue = s.queue
              /\ m.version > s.queueVersion =>
                   Apply(s, m).queueVersion = m.version /\ Apply(s, m).queue = m.items
         /\ m.t = "permissions_updated" =>
              Apply(s, m).role = IF m.user = s.me THEN m.role ELSE s.role
<1>1. CASE m.t = "ready"
  <2>1. m \in Readies
    BY <1>1 DEF Frames, Readies, PersonFrames, LeftFrames, QueueFrames, ChatFrames, RoomFrames,
       AuthorityFrames, ErrorFrames
  <2>2. Apply(s, m) = ApplyReady(s, m)
    BY <1>1 DEF Apply
  <2> QED
    BY <1>1, <2>1, <2>2 DEF ApplyReady, Stores
<1>2. CASE m.t = "room_updated"
  <2>1. m \in RoomFrames
    BY <1>2 DEF Frames, Readies, PersonFrames, LeftFrames, QueueFrames, ChatFrames, RoomFrames,
       AuthorityFrames, ErrorFrames
  <2>2. Apply(s, m) = ApplyRoomUpdated(s, m)
    BY <1>2 DEF Apply
  <2> QED
    BY <1>2, <2>1, <2>2 DEF ApplyRoomUpdated, Stores, RoomFrames
<1>3. CASE m.t = "queue_updated"
  <2>1. m \in QueueFrames
    BY <1>3 DEF Frames, Readies, PersonFrames, LeftFrames, QueueFrames, ChatFrames, RoomFrames,
       AuthorityFrames, ErrorFrames
  <2>2. Apply(s, m) = ApplyQueueUpdated(s, m)
    BY <1>3 DEF Apply
  <2>3. m.version \in Nat /\ s.queueVersion \in Nat
    BY <2>1 DEF QueueFrames, Stores
  <2>4. CASE m.version <= s.queueVersion
    <3>1. Apply(s, m) = s
      BY <2>2, <2>4 DEF ApplyQueueUpdated
    <3> QED
      BY <1>3, <2>1, <2>3, <2>4, <3>1
  <2>5. CASE m.version > s.queueVersion
    <3>1. Apply(s, m) = [s EXCEPT !.queue = m.items, !.queueVersion = m.version]
      BY <2>2, <2>3, <2>5 DEF ApplyQueueUpdated
    <3>2. Apply(s, m).queueVersion = m.version /\ Apply(s, m).queue = m.items
      BY <3>1 DEF Stores
    <3> QED
      BY <1>3, <2>1, <2>3, <2>5, <3>2
  <2> QED
    BY <2>3, <2>4, <2>5
<1>4. CASE m.t = "permissions_updated"
  <2>1. Apply(s, m) = ApplyPermissionsUpdated(s, m)
    BY <1>4 DEF Apply
  <2> QED
    BY <1>4, <2>1 DEF ApplyPermissionsUpdated, Stores
<1> QED
  BY <1>1, <1>2, <1>3, <1>4

\* Marking the chat read and the error shown leaves the rest of the store.
LEMMA SettledFields ==
  ASSUME NEW s \in Stores
  PROVE  /\ Settled(s) \in Stores
         /\ Settled(s).me = s.me /\ Settled(s).role = s.role /\ Settled(s).perms = s.perms
         /\ Settled(s).room = s.room /\ Settled(s).people = s.people
         /\ Settled(s).queue = s.queue /\ Settled(s).queueVersion = s.queueVersion
         /\ Settled(s).messages = s.messages
BY DEF Settled, MarkChatRead, ClearError, Stores

\* What is rendered is in range, when the form is filled in again with the room.
LEMMA RenderedTypes ==
  ASSUME Client, NEW s \in Stores, NEW news \in BOOLEAN, NEW reseeds \in BOOLEAN,
         Len(s.messages) <= MaxMessages, Rendered(s, news, reseeds),
         reseeds \/ s.room = store.room,
         inRoom' = inRoom, panel' = panel, own' = own, looks' = looks
  PROVE  Client'
<1>1. store' \in Stores /\ store'.room = s.room /\ store'.messages = s.messages
  BY SettledFields DEF Rendered
<1>2. override' \in Themes \cup {None}
  BY DEF Rendered, RoomTheme, Stores, RoomSnapshot
<1>3. box' \in [follows : BOOLEAN, behind : BOOLEAN, read : Seq(ChatMessage)]
  BY DEF Rendered, Client, Followed, OpenedBox, Stores
<1>4. s.room = None \/ s.room \in RoomSnapshot
  BY DEF Stores
<1>5. CASE panel = "settings" /\ reseeds
  <2>1. form' = Seeded(form, s.room)
    BY <1>5 DEF Rendered
  <2>2. CASE s.room = None
    BY <1>1, <1>2, <1>3, <2>1, <2>2 DEF Client, Seeded
  <2>3. CASE s.room # None
    <3>1. s.room \in RoomSnapshot /\ form' = [name |-> s.room.name, gq |-> s.room.gq, typed |-> FALSE]
      BY <1>4, <2>1, <2>3 DEF Seeded
    <3>2. form' \in [name : Names \cup {None}, gq : BOOLEAN, typed : BOOLEAN] /\ form'.name \in Names
      BY <3>1 DEF RoomSnapshot
    <3> QED
      BY <1>1, <1>2, <1>3, <3>2 DEF Client
  <2> QED
    BY <2>2, <2>3
<1>6. CASE ~(panel = "settings" /\ reseeds)
  <2>1. form' = form
    BY <1>6 DEF Rendered
  <2> QED
    BY <1>1, <1>2, <1>3, <1>6, <2>1 DEF Client
<1> QED
  BY <1>5, <1>6

\* What comes first is a frame, and is applied.
LEMMA FirstApplied ==
  ASSUME Ranges, Receives
  PROVE  /\ Head(inbox) \in Frames /\ Tail(inbox) \in Seq(Frames) /\ Hears
         /\ Understood(store, Head(inbox)) = Apply(store, Head(inbox))
         /\ Apply(store, Head(inbox)) \in Stores
         /\ Len(Apply(store, Head(inbox)).messages) <= MaxMessages
<1>1. inbox # <<>> /\ inbox \in Seq(Frames) /\ Hears
  BY DEF Receives, Ranges, Server, Wire
<1>2. Head(inbox) \in Frames /\ Tail(inbox) \in Seq(Frames)
  BY <1>1
<1>3. Understood(store, Head(inbox)) = Apply(store, Head(inbox))
  BY <1>2, FramesFit DEF Understood
<1> QED
  BY <1>1, <1>2, <1>3, ApplyType, Constants DEF Ranges, Client

LEMMA ReceivesTypes ==
  ASSUME Ranges, Receives
  PROVE  Ranges'
<1> DEFINE m == Head(inbox)
           s == Apply(store, m)
<1>1. /\ m \in Frames /\ Tail(inbox) \in Seq(Frames) /\ Hears /\ s \in Stores
      /\ Len(s.messages) <= MaxMessages /\ inbox' = Tail(inbox) /\ inbox \in Seq(Frames)
      /\ inbox # <<>>
      /\ Rendered(s, m.t = "ready" \/ s.messages # store.messages,
                  m.t \in {"ready", "room_updated"})
      /\ link' = IF m.t = "ready" THEN "up" ELSE link
  BY FirstApplied DEF Receives, Ranges, Server, Wire
<1>2. m.t \notin {"ready", "room_updated"} => s.room = store.room
  BY <1>1, ApplyFields DEF Ranges, Client
<1>3. UNCHANGED <<rows, live, conns, sess, info, saved, busy, patches, log, items,
                  numbered, raced, crossed, ops, inRoom, panel, own, looks>>
  BY DEF Receives
<1>4. store'.queueVersion < numbered'
  <2>1. store'.queueVersion = s.queueVersion
    BY <1>1, SettledFields DEF Rendered
  <2>2. store.queueVersion < numbered
    BY DEF Ranges, Server, Numbers
  <2>3. CASE m.t # "queue_updated"
    BY <1>1, <1>3, <2>1, <2>2, <2>3, ApplyFields DEF Ranges, Client
  <2>4. CASE m.t = "queue_updated"
    <3>1. m.version < numbered
      BY <1>1, <2>4 DEF Ranges, Server, Numbers
    <3>2. s.queueVersion \in {store.queueVersion, m.version}
      <4>1. m \in QueueFrames
        BY <1>1, <2>4, ApplySets DEF Ranges, Client
      <4>2. m.version \in Nat /\ store.queueVersion \in Nat
        BY <4>1 DEF QueueFrames, Ranges, Client, Stores
      <4>3. m.version <= store.queueVersion \/ m.version > store.queueVersion
        BY <4>2
      <4> QED
        BY <1>1, <2>4, <4>3, ApplySets DEF Ranges, Client
    <3> QED
      BY <1>3, <2>1, <2>2, <3>1, <3>2
  <2> QED
    BY <2>3, <2>4
<1> HIDE DEF m, s
<1>5. Client'
  <2> DEFINE news == m.t = "ready" \/ s.messages # store.messages
             reseeds == m.t \in {"ready", "room_updated"}
  <2>1. Rendered(s, news, reseeds) /\ (reseeds \/ s.room = store.room)
        /\ news \in BOOLEAN /\ reseeds \in BOOLEAN
    BY <1>1, <1>2
  <2> HIDE DEF news, reseeds
  <2> QED
    BY <1>1, <1>3, <2>1, RenderedTypes DEF Ranges
<1>6. Numbers'
  <2>1. ASSUME NEW i \in DOMAIN inbox', inbox'[i].t = "queue_updated"
        PROVE  inbox'[i].version < numbered'
    <3>1. i + 1 \in DOMAIN inbox /\ inbox'[i] = inbox[i + 1]
      BY <1>1
    <3> QED
      BY <1>3, <2>1, <3>1 DEF Ranges, Server, Numbers
  <2> QED
    BY <1>3, <1>4, <2>1 DEF Ranges, Server, Numbers
<1>7. Wire' /\ Connection'
  BY <1>1, <1>3 DEF Ranges, Server, Wire, Connection, Hears
<1>8. Rows' /\ Present' /\ Sessions' /\ Settings' /\ Records' /\ Work' /\ ops' \in 0 .. MaxOps
  BY <1>3 DEF Ranges, Server, Rows, Present, Sessions, Settings, Records, Work
<1> QED
  BY <1>5, <1>6, <1>7, <1>8 DEF Ranges, Server

\* The server's side stays, and so does its range, when the client's own steps
\* leave its connection, and the version of the queue it shows.
LEMMA ServerStays ==
  ASSUME Server, UNCHANGED membersVars, store'.queueVersion = store.queueVersion,
         inRoom' = inRoom \/ inRoom'
  PROVE  Server'
<1>1. UNCHANGED <<rows, live, conns, sess, info, saved, busy, patches, log, items, numbered,
                  link, inbox, raced, crossed, ops>>
  BY DEF membersVars
<1> QED
  BY <1>1 DEF Server, Rows, Present, Sessions, Settings, Records, Work, Numbers, Wire,
     Connection, Hears

LEMMA TurnedAwayTypes ==
  ASSUME Ranges, TurnedAway
  PROVE  Ranges'
<1> DEFINE s == ApplyKicked(store, [t |-> "kicked"])
<1>1. s \in Stores /\ s.room = store.room /\ s.messages = store.messages
      /\ s.queueVersion = store.queueVersion
  BY DEF ApplyKicked, Stores, Ranges, Client
<1>2. Rendered(s, FALSE, FALSE) /\ UNCHANGED <<inRoom, panel, own, looks>> /\ UNCHANGED membersVars
  BY DEF TurnedAway
<1> HIDE DEF s
<1>3. Client'
  BY <1>1, <1>2, RenderedTypes DEF Ranges, Client
<1>4. store'.queueVersion = store.queueVersion
  BY <1>1, <1>2, SettledFields DEF Rendered
<1>5. Server' /\ ops' = ops
  BY <1>2, <1>4, ServerStays DEF Ranges, membersVars
<1> QED
  BY <1>3, <1>5 DEF Ranges

\* The shell and the tabs.
LEMMA HangsTypes ==
  ASSUME Server, Hangs("down"), store'.queueVersion < numbered
  PROVE  Server'
<1>1. UNCHANGED <<rows, live, conns, sess, info, saved, busy, patches, log, items,
                  numbered, crossed, ops>>
      /\ link \in {"joining", "up"} /\ link' = "down" /\ inbox' = <<>> /\ raced' = FALSE
  BY DEF Hangs
<1>2. Rows' /\ Present' /\ Sessions' /\ Settings' /\ Records' /\ Work'
  BY <1>1 DEF Server, Rows, Present, Sessions, Settings, Records, Work
<1>3. Numbers' /\ Wire' /\ Connection'
  <2>1. <<>> \in Seq(Frames) /\ DOMAIN <<>> = {}
    OBVIOUS
  <2> QED
    BY <1>1, <2>1 DEF Server, Numbers, Wire, Connection, Hears
<1> QED
  BY <1>2, <1>3 DEF Server

LEMMA LooksCount == ASSUME Client, Looked PROVE looks' \in 0 .. MaxLooks
BY Constants DEF Client, Looked

LEMMA DropsTypes ==
  ASSUME Ranges, Drops
  PROVE  Ranges'
<1>1. Hangs("down") /\ UNCHANGED <<store, inRoom, panel, box, form, own, override>>
      /\ looks' \in 0 .. MaxLooks
  BY LooksCount DEF Drops, Ranges
<1>2. Server'
  BY <1>1, HangsTypes DEF Ranges, Server, Numbers
<1> QED
  BY <1>1, <1>2 DEF Ranges, Client, Hangs

LEMMA InitialFits ==
  /\ Initial \in Stores /\ Len(Initial.messages) = 0 /\ Initial.room = None
  /\ Initial.queueVersion = 0 /\ Initial.messages = <<>>
<1>1. <<>> \in Rosters
  <2>1. <<>> = [x \in {} |-> 0] /\ [x \in {} |-> 0] \in [{} -> RoomRole]
    OBVIOUS
  <2> QED
    BY <2>1 DEF Rosters
<1>2. <<>> \in Seq(Nat) /\ <<>> \in Seq(ChatMessage) /\ 0 \in RoomRole /\ Len(<<>>) = 0
  BY DEF RoomRole
<1>3. /\ Initial.me = None /\ Initial.role = 0 /\ Initial.perms = None /\ Initial.room = None
      /\ Initial.people = <<>> /\ Initial.queue = <<>> /\ Initial.queueVersion = 0
      /\ Initial.messages = <<>> /\ Initial.kicked = FALSE /\ Initial.lastError = FALSE
      /\ Initial.unread = 0
  BY DEF Initial
<1> QED
  BY <1>1, <1>2, <1>3 DEF Initial, Stores

LEMMA LeavesRoomTypes ==
  ASSUME Ranges, LeavesRoom
  PROVE  Ranges'
<1>1. Hangs("down") /\ inRoom' = FALSE /\ panel' = "chat" /\ store' = Initial
      /\ override' = RoomTheme(None) /\ box' = OpenedBox(<<>>) /\ form' = Unseeded /\ own' = own
      /\ looks' \in 0 .. MaxLooks
  BY LooksCount DEF LeavesRoom, Ranges
<1>2. 0 < numbered
  BY DEF Ranges, Server, Numbers, Client, Stores
<1>3. Server'
  BY <1>1, <1>2, InitialFits, HangsTypes DEF Ranges
<1>4. Client'
  <2>1. override' = None /\ <<>> \in Seq(ChatMessage)
    BY <1>1 DEF RoomTheme
  <2>2. box' \in [follows : BOOLEAN, behind : BOOLEAN, read : Seq(ChatMessage)]
    BY <1>1, <2>1 DEF OpenedBox
  <2>3. form' \in [name : Names \cup {None}, gq : BOOLEAN, typed : BOOLEAN]
    BY <1>1 DEF Unseeded
  <2>4. Len(store'.messages) <= MaxMessages /\ store' \in Stores /\ store'.room = None
    BY <1>1, InitialFits, Constants
  <2> QED
    BY <1>1, <2>1, <2>2, <2>3, <2>4 DEF Ranges, Client, Panels
<1> QED
  BY <1>1, <1>3, <1>4 DEF Ranges, Hangs

LEMMA EntersRoomTypes ==
  ASSUME Ranges, EntersRoom
  PROVE  Ranges'
<1>1. inRoom' = TRUE /\ UNCHANGED <<store, panel, box, form, own, override>>
      /\ UNCHANGED membersVars /\ looks' \in 0 .. MaxLooks
  BY LooksCount DEF EntersRoom, Ranges
<1>2. Server' /\ ops' = ops
  BY <1>1, ServerStays DEF Ranges, membersVars
<1> QED
  BY <1>1, <1>2 DEF Ranges, Client

LEMMA ChoosesThemeTypes ==
  ASSUME Ranges, ChoosesTheme
  PROVE  Ranges'
<1>1. own' \in Themes /\ UNCHANGED <<store, inRoom, panel, box, form, override>>
      /\ UNCHANGED membersVars /\ looks' \in 0 .. MaxLooks
  BY LooksCount DEF ChoosesTheme, SetTheme, Ranges
<1>2. Server' /\ ops' = ops
  BY <1>1, ServerStays DEF Ranges, membersVars
<1> QED
  BY <1>1, <1>2 DEF Ranges, Client

LEMMA OpensPanelTypes ==
  ASSUME Ranges, NEW p \in Panels, OpensPanel(p)
  PROVE  Ranges'
<1>1. panel' = p /\ UNCHANGED <<inRoom, own, override>> /\ UNCHANGED membersVars
      /\ looks' \in 0 .. MaxLooks
      /\ store' = (IF p = "chat" THEN MarkChatRead(store) ELSE store)
      /\ box' = OpenedBox(IF p = "chat" THEN store.messages ELSE <<>>)
      /\ form' = (IF p = "settings" THEN Seeded(Unseeded, store.room) ELSE Unseeded)
  BY LooksCount DEF OpensPanel, Ranges
<1>2. store \in Stores
  BY DEF Ranges, Client
<1>3. store' \in Stores /\ store'.messages = store.messages /\ store'.room = store.room
      /\ store'.queueVersion = store.queueVersion
  BY <1>1, <1>2 DEF MarkChatRead, Stores
<1>4. box' \in [follows : BOOLEAN, behind : BOOLEAN, read : Seq(ChatMessage)]
  <2>1. <<>> \in Seq(ChatMessage) /\ store.messages \in Seq(ChatMessage)
    BY <1>2 DEF Stores
  <2> QED
    BY <1>1, <2>1 DEF OpenedBox
<1>5. form' \in [name : Names \cup {None}, gq : BOOLEAN, typed : BOOLEAN]
      /\ (p = "settings" /\ store.room # None => form'.name \in Names)
  <2>1. Unseeded \in [name : Names \cup {None}, gq : BOOLEAN, typed : BOOLEAN]
    BY DEF Unseeded
  <2>2. CASE p = "settings" /\ store.room # None
    <3>1. store.room \in RoomSnapshot
      BY <1>2, <2>2 DEF Stores
    <3>2. form' = [name |-> store.room.name, gq |-> store.room.gq, typed |-> FALSE]
      BY <1>1, <2>2 DEF Seeded
    <3> QED
      BY <3>1, <3>2 DEF RoomSnapshot
  <2>3. CASE ~(p = "settings" /\ store.room # None)
    BY <1>1, <2>1, <2>3 DEF Seeded
  <2> QED
    BY <2>2, <2>3
<1>6. Client'
  BY <1>1, <1>3, <1>4, <1>5 DEF Ranges, Client
<1>7. Server' /\ ops' = ops
  BY <1>1, <1>3, ServerStays DEF Ranges, membersVars
<1> QED
  BY <1>6, <1>7 DEF Ranges

LEMMA ScrollsTypes ==
  ASSUME Ranges, Scrolls
  PROVE  Ranges'
<1>1. UNCHANGED <<store, inRoom, panel, form, own, override>> /\ UNCHANGED membersVars
      /\ looks' \in 0 .. MaxLooks
      /\ box' = (IF box.follows THEN [box EXCEPT !.follows = FALSE] ELSE OpenedBox(store.messages))
  BY LooksCount DEF Scrolls, Ranges
<1>2. box' \in [follows : BOOLEAN, behind : BOOLEAN, read : Seq(ChatMessage)]
  <2>1. store.messages \in Seq(ChatMessage)
    BY DEF Ranges, Client, Stores
  <2> QED
    BY <1>1, <2>1 DEF OpenedBox, Ranges, Client
<1>3. Server' /\ ops' = ops
  BY <1>1, ServerStays DEF Ranges, membersVars
<1> QED
  BY <1>1, <1>2, <1>3 DEF Ranges, Client

LEMMA TypesNameTypes ==
  ASSUME Ranges, TypesName
  PROVE  Ranges'
<1>1. UNCHANGED <<store, inRoom, panel, box, own, override>> /\ UNCHANGED membersVars
      /\ looks' \in 0 .. MaxLooks
      /\ \E n \in Names : form' = [form EXCEPT !.name = n, !.typed = TRUE]
  BY LooksCount DEF TypesName, Ranges
<1>2. PICK n \in Names : form' = [form EXCEPT !.name = n, !.typed = TRUE]
  BY <1>1
<1>3. form' \in [name : Names \cup {None}, gq : BOOLEAN, typed : BOOLEAN] /\ form'.name \in Names
  <2>1. form \in [name : Names \cup {None}, gq : BOOLEAN, typed : BOOLEAN]
    BY DEF Ranges, Client
  <2>2. form' = [name |-> n, gq |-> form.gq, typed |-> TRUE]
    BY <1>2, <2>1
  <2> QED
    BY <2>1, <2>2
<1>4. Server' /\ ops' = ops
  BY <1>1, ServerStays DEF Ranges, membersVars
<1> QED
  BY <1>1, <1>3, <1>4 DEF Ranges, Client

------------------------------------------------------------------------------
(* Every step is one of the server's, under which the store and the shell    *)
(* stay, or one of the client's.                                             *)

\* A command, a request, somebody coming or going, or a handler going on.
Commands ==
  \E u \in Users :
    /\ Ready(u)
    /\ \/ \E t \in Users, role \in {Member, Cohost} : SetRole(u, t, role)
       \/ \E t \in Users : TransferHost(u, t) \/ Kick(u, t)
       \/ \E t \in Users \cup {None} : Designate(u, t)
       \/ \E e \in DOMAIN QueueEdits : QueueEdit(u, e)
       \/ ChatSend(u) \/ (u = Me /\ Refused(Me))

Requests == \E u \in Users, patch \in {p \in [field : {"name", "gq", "theme"},
                                             value : Names \cup BOOLEAN \cup Themes] : Asking(p)} :
              PatchStarts(u, patch)

Goings == \E u \in Users \ {Me} : Arrives(u) \/ Leaves(u)

Serves ==
  \/ (Commands \/ Requests \/ Goings) /\ Counted
  \/ Handlers \/ (inRoom /\ Admitted)

\* What a step of the server leaves of the page: a click in it may let the chat
\* follow again, or turn a switch.
PageStays ==
  /\ UNCHANGED <<store, inRoom, panel, own, override, looks>>
  /\ box' = box \/ box' = [box EXCEPT !.follows = TRUE]
  /\ form' = form \/ form' = [form EXCEPT !.gq = ~@, !.typed = TRUE]

\* A request that is refused.
Refusal ==
  /\ PageStays /\ Counted
  /\ UNCHANGED <<rows, live, conns, sess, info, saved, busy, patches, log, items,
                 numbered, link, inbox, raced, crossed>>

\* What the visitor does to the page alone.
Looking ==
  \/ LeavesRoom \/ EntersRoom \/ ChoosesTheme \/ Scrolls \/ (\E p \in Panels : OpensPanel(p))
  \/ TypesName \/ TurnedAway \/ Drops

LEMMA SavesSteps ==
  ASSUME NEW patch, Asking(patch), PageStays, Saves(patch),
         patch \in [field : {"name", "gq", "theme"}, value : Names \cup BOOLEAN \cup Themes]
  PROVE  (Serves /\ PageStays) \/ Refusal
<1>1. Counted
  BY DEF Saves
<1>2. CASE PatchStarts(Me, patch)
  BY <1>1, <1>2, Constants DEF Serves, Requests
<1>3. CASE ~PatchStarts(Me, patch)
  BY <1>1, <1>3 DEF Saves, Refusal
<1> QED
  BY <1>2, <1>3

LEMMA EditsNamed == DOMAIN QueueEdits = {"add", "import", "remove", "shuffle", "clear"}
BY DEF QueueEdits

LEMMA UnreadPage == ASSUME Unread PROVE PageStays
BY DEF Unread, viewVars, PageStays

LEMMA MenuSteps ==
  ASSUME Ranges, NEW u \in DOMAIN store.people, UsesMenu(u)
  PROVE  Serves /\ PageStays
<1> DEFINE role == IF store.people[u] = Cohost THEN Member ELSE Cohost
           heir == IF store.room.successor = u THEN None ELSE u
<1>1. u \in Users
  BY DEF Ranges, Client, Stores, Rosters
<1>2. Ready(Me) /\ Counted /\ PageStays
  BY UnreadPage DEF UsesMenu, Clicks
<1>3. \/ SetRole(Me, u, role) \/ Refused(Me) \/ Designate(Me, heir)
      \/ TransferHost(Me, u) \/ Kick(Me, u)
  BY DEF UsesMenu
<1>4. role \in {Member, Cohost} /\ heir \in Users \cup {None}
  BY <1>1
<1> HIDE DEF role, heir
<1>5. Commands
  BY <1>1, <1>2, <1>3, <1>4, Constants DEF Commands
<1> QED
  BY <1>2, <1>5 DEF Serves

LEMMA QueueSteps ==
  ASSUME Ranges, UsesQueue
  PROVE  Serves /\ PageStays
<1>1. Ready(Me) /\ Counted /\ PageStays
  BY UnreadPage DEF UsesQueue, Clicks
<1>2. PICK e \in QueueControls(store) : QueueEdit(Me, e) \/ Refused(Me)
  BY DEF UsesQueue
<1>3. e \in DOMAIN QueueEdits
  BY <1>2, EditsNamed DEF QueueControls, AddSourceDialog, ImportPlaylistDialog, QueueRow
<1>4. Commands
  BY <1>1, <1>2, <1>3, Constants DEF Commands
<1> QED
  BY <1>1, <1>4 DEF Serves

LEMMA SaysSteps == ASSUME Says PROVE Serves /\ PageStays
<1>1. Ready(Me) /\ Counted /\ PageStays /\ ChatSend(Me)
  BY DEF Says, Clicks, PageStays
<1>2. Commands
  BY <1>1, Constants DEF Commands
<1> QED
  BY <1>1, <1>2 DEF Serves

\* What the form asks for is something the server takes.
LEMMA FormSteps ==
  ASSUME Ranges, SavesDetails \/ Toggles \/ PicksRoomTheme
  PROVE  (Serves /\ PageStays) \/ Refusal
<1> DEFINE P == [field : {"name", "gq", "theme"}, value : Names \cup BOOLEAN \cup Themes]
<1>1. Editing /\ PageStays
  BY UnreadPage DEF SavesDetails, Toggles, PicksRoomTheme, PageStays
<1>2. form.name \in Names /\ form.gq \in BOOLEAN
  BY <1>1 DEF Editing, Ranges, Client
<1>3. CASE SavesDetails
  <2> DEFINE p == [field |-> "name", value |-> form.name]
  <2>1. p \in P /\ Asking(p) /\ Saves(p)
    BY <1>2, <1>3 DEF Asking, SavesDetails
  <2> HIDE DEF p
  <2> QED
    BY <1>1, <2>1, SavesSteps
<1>4. CASE Toggles
  <2> DEFINE p == [field |-> "gq", value |-> ~form.gq]
  <2>1. p \in P /\ Asking(p) /\ Saves(p)
    BY <1>2, <1>4 DEF Asking, Toggles
  <2> HIDE DEF p
  <2> QED
    BY <1>1, <2>1, SavesSteps
<1>5. CASE PicksRoomTheme
  <2>1. PICK t \in Themes : Saves([field |-> "theme", value |-> t])
    BY <1>5 DEF PicksRoomTheme
  <2> DEFINE p == [field |-> "theme", value |-> t]
  <2>2. p \in P /\ Asking(p) /\ Saves(p)
    BY <2>1 DEF Asking
  <2> HIDE DEF p
  <2> QED
    BY <1>1, <2>2, SavesSteps
<1> QED
  BY <1>3, <1>4, <1>5

LEMMA OthersSteps ==
  ASSUME NEW u \in Users \ {Me}, SomebodyActs(u) \/ SomebodySaves(u) \/ ComesOrGoes(u)
  PROVE  Serves /\ PageStays
<1> DEFINE P == [field : {"name", "gq", "theme"}, value : Names \cup BOOLEAN \cup Themes]
<1>1. Counted /\ PageStays
  BY UnreadPage DEF SomebodyActs, SomebodySaves, ComesOrGoes
<1>2. CASE SomebodyActs(u)
  <2>1. Commands
    BY <1>2 DEF SomebodyActs, Commands
  <2> QED
    BY <1>1, <2>1 DEF Serves
<1>3. CASE SomebodySaves(u)
  <2>1. \/ \E b \in BOOLEAN : PatchStarts(u, [field |-> "gq", value |-> b])
        \/ \E t \in Themes : PatchStarts(u, [field |-> "theme", value |-> t])
        \/ \E n \in Names : PatchStarts(u, [field |-> "name", value |-> n])
    BY <1>3 DEF SomebodySaves
  <2>2. /\ \A b \in BOOLEAN : [field |-> "gq", value |-> b] \in {p \in P : Asking(p)}
        /\ \A t \in Themes : [field |-> "theme", value |-> t] \in {p \in P : Asking(p)}
        /\ \A n \in Names : [field |-> "name", value |-> n] \in {p \in P : Asking(p)}
    BY DEF Asking
  <2> HIDE DEF P
  <2>3. \E p \in {p \in P : Asking(p)} : PatchStarts(u, p)
    <3>1. ASSUME NEW b \in BOOLEAN, PatchStarts(u, [field |-> "gq", value |-> b])
          PROVE  \E p \in {p \in P : Asking(p)} : PatchStarts(u, p)
      BY <2>2, <3>1
    <3>2. ASSUME NEW t \in Themes, PatchStarts(u, [field |-> "theme", value |-> t])
          PROVE  \E p \in {p \in P : Asking(p)} : PatchStarts(u, p)
      BY <2>2, <3>2
    <3>3. ASSUME NEW n \in Names, PatchStarts(u, [field |-> "name", value |-> n])
          PROVE  \E p \in {p \in P : Asking(p)} : PatchStarts(u, p)
      BY <2>2, <3>3
    <3> QED
      BY <2>1, <3>1, <3>2, <3>3
  <2>4. Requests
    BY <2>3 DEF Requests, P
  <2> QED
    BY <1>1, <2>4 DEF Serves
<1>4. CASE ComesOrGoes(u)
  <2>1. Goings
    BY <1>4 DEF ComesOrGoes, Goings
  <2> QED
    BY <1>1, <2>1 DEF Serves
<1> QED
  BY <1>2, <1>3, <1>4

LEMMA Steps ==
  ASSUME Ranges, Next
  PROVE  (Serves /\ PageStays) \/ Refusal \/ Looking \/ Receives
<1>1. CASE Visitor
  <2>1. CASE \E u \in DOMAIN store.people : UsesMenu(u)
    BY <2>1, MenuSteps
  <2>2. CASE UsesQueue
    BY <2>2, QueueSteps
  <2>3. CASE Says
    BY <2>3, SaysSteps
  <2>4. CASE SavesDetails \/ Toggles \/ PicksRoomTheme
    BY <2>4, FormSteps
  <2> QED
    BY <1>1, <2>1, <2>2, <2>3, <2>4 DEF Visitor, Looking
<1>2. CASE Room
  <2>1. CASE (Handlers \/ (inRoom /\ Admitted)) /\ Unread
    BY <2>1, UnreadPage DEF Serves
  <2>2. CASE \E u \in Users \ {Me} : SomebodyActs(u) \/ SomebodySaves(u) \/ ComesOrGoes(u)
    BY <2>2, OthersSteps
  <2> QED
    BY <1>2, <2>1, <2>2 DEF Room
<1> QED
  BY <1>1, <1>2 DEF Next, Looking

\* A step of the server keeps the ranges.
LEMMA CommandsTypes ==
  ASSUME Server, Client, store' = store, inRoom' = inRoom, Commands
  PROVE  Server'
<1>1. PICK u \in Users :
        /\ Ready(u)
        /\ \/ \E t \in Users, role \in {Member, Cohost} : SetRole(u, t, role)
           \/ \E t \in Users : TransferHost(u, t) \/ Kick(u, t)
           \/ \E t \in Users \cup {None} : Designate(u, t)
           \/ \E e \in DOMAIN QueueEdits : QueueEdit(u, e)
           \/ ChatSend(u) \/ (u = Me /\ Refused(Me))
  BY DEF Commands
<1>2. CASE \E t \in Users, role \in {Member, Cohost} : SetRole(u, t, role)
  BY <1>1, <1>2, SetRoleTypes
<1>3. CASE \E t \in Users : TransferHost(u, t)
  BY <1>1, <1>3, TransferHostTypes
<1>4. CASE \E t \in Users : Kick(u, t)
  BY <1>1, <1>4, KickTypes
<1>5. CASE \E t \in Users \cup {None} : Designate(u, t)
  BY <1>1, <1>5, DesignateTypes
<1>6. CASE \E e \in DOMAIN QueueEdits : QueueEdit(u, e)
  BY <1>1, <1>6, QueueEditTypes
<1>7. CASE ChatSend(u)
  BY <1>1, <1>7, ChatSendTypes
<1>8. CASE u = Me /\ Refused(Me)
  BY <1>1, <1>8, ReadyIdle, RefusedTypes
<1> QED
  BY <1>1, <1>2, <1>3, <1>4, <1>5, <1>6, <1>7, <1>8

LEMMA HandlersTypes ==
  ASSUME Server, Client, store' = store, inRoom' = inRoom, Handlers
  PROVE  Server' /\ ops' = ops
<1>1. ASSUME NEW u \in Users,
             \/ RoleApplied(u) \/ RoleAnnounced(u) \/ HostApplied(u) \/ HostAnnounced(u)
             \/ HostTold(u) \/ TargetTold(u) \/ DesignateAnnounced(u)
             \/ KickAnnounced(u) \/ ChatAnnounced(u) \/ QueueRead(u) \/ QueueAnnounced(u)
             \/ Greets(u)
      PROVE  Server' /\ ops' = ops
  <2>1. CASE RoleApplied(u)
    BY <2>1, RoleAppliedTypes DEF RoleApplied
  <2>2. CASE RoleAnnounced(u)
    BY <2>2, RoleAnnouncedTypes DEF RoleAnnounced
  <2>10. CASE HostTold(u)
    BY <2>10, HostToldTypes DEF HostTold
  <2>11. CASE TargetTold(u)
    BY <2>11, TargetToldTypes DEF TargetTold
  <2>12. CASE DesignateAnnounced(u)
    BY <2>12, DesignateAnnouncedTypes DEF DesignateAnnounced
  <2>3. CASE HostApplied(u)
    BY <2>3, HostAppliedTypes DEF HostApplied
  <2>4. CASE HostAnnounced(u)
    BY <2>4, HostAnnouncedTypes DEF HostAnnounced
  <2>5. CASE KickAnnounced(u)
    BY <2>5, KickAnnouncedTypes DEF KickAnnounced
  <2>6. CASE ChatAnnounced(u)
    BY <2>6, ChatAnnouncedTypes DEF ChatAnnounced
  <2>7. CASE QueueRead(u)
    BY <2>7, QueueReadTypes DEF QueueRead
  <2>8. CASE QueueAnnounced(u)
    BY <2>8, QueueAnnouncedTypes DEF QueueAnnounced
  <2>9. CASE Greets(u)
    BY <2>9, GreetsTypes DEF Greets
  <2> QED
    BY <1>1, <2>1, <2>2, <2>3, <2>4, <2>5, <2>6, <2>7, <2>8, <2>9, <2>10, <2>11, <2>12
<1>2. ASSUME NEW p \in patches, PatchSaved(p) \/ PatchApplied(p) \/ PatchAnnounced(p)
      PROVE  Server' /\ ops' = ops
  <2>1. CASE PatchSaved(p)
    BY <2>1, PatchSavedTypes DEF PatchSaved
  <2>2. CASE PatchAnnounced(p)
    BY <2>2, PatchAnnouncedTypes DEF PatchAnnounced
  <2>3. CASE PatchApplied(p)
    BY <2>3, PatchAppliedTypes DEF PatchApplied
  <2> QED
    BY <1>2, <2>1, <2>2, <2>3
<1>3. CASE Attaches
  BY <1>3, AttachesTypes DEF Attaches
<1>4. CASE ReadySent
  BY <1>4, ReadySentTypes DEF ReadySent
<1>5. CASE Detaches
  BY <1>5, DetachesTypes DEF Detaches
<1> QED
  BY <1>1, <1>2, <1>3, <1>4, <1>5 DEF Handlers

LEMMA ServesTypes ==
  ASSUME Ranges, Serves, store' = store, inRoom' = inRoom
  PROVE  Server' /\ ops' \in 0 .. MaxOps
<1>1. ops \in 0 .. MaxOps /\ (Counted => ops' \in 0 .. MaxOps)
  BY Constants DEF Ranges, Counted
<1>2. CASE Commands /\ Counted
  BY <1>1, <1>2, CommandsTypes DEF Ranges
<1>3. CASE Requests /\ Counted
  BY <1>1, <1>3, PatchStartsTypes DEF Ranges, Requests
<1>4. CASE Goings /\ Counted
  BY <1>1, <1>4, ArrivesTypes, LeavesTypes DEF Ranges, Goings
<1>5. CASE Handlers
  BY <1>1, <1>5, HandlersTypes DEF Ranges
<1>6. CASE inRoom /\ Admitted
  BY <1>1, <1>6, AdmittedTypes DEF Ranges, Admitted
<1> QED
  BY <1>2, <1>3, <1>4, <1>5, <1>6 DEF Serves

LEMMA PageTypes ==
  ASSUME Client, PageStays
  PROVE  Client'
<1>1. box' \in [follows : BOOLEAN, behind : BOOLEAN, read : Seq(ChatMessage)]
  BY DEF Client, PageStays
<1>2. form' \in [name : Names \cup {None}, gq : BOOLEAN, typed : BOOLEAN] /\ form'.name = form.name
  <2>1. form' = form \/ form' = [name |-> form.name, gq |-> ~form.gq, typed |-> TRUE]
    BY DEF Client, PageStays
  <2>2. form \in [name : Names \cup {None}, gq : BOOLEAN, typed : BOOLEAN]
    BY DEF Client
  <2>3. CASE form' = form
    BY <2>2, <2>3
  <2>4. CASE form' = [name |-> form.name, gq |-> ~form.gq, typed |-> TRUE]
    <3>1. form.name \in Names \cup {None} /\ (~form.gq) \in BOOLEAN /\ TRUE \in BOOLEAN
      BY <2>2
    <3> QED
      BY <2>4, <3>1
  <2> QED
    BY <2>1, <2>3, <2>4
<1> QED
  BY <1>1, <1>2 DEF Client, PageStays

LEMMA RefusalTypes ==
  ASSUME Ranges, Refusal
  PROVE  Ranges'
<1>1. Client' /\ ops' \in 0 .. MaxOps
  BY PageTypes, Constants DEF Ranges, Refusal, Counted
<1>2. UNCHANGED <<rows, live, conns, sess, info, saved, busy, patches, log, items,
                  numbered, link, inbox, raced, crossed>> /\ UNCHANGED <<store, inRoom>>
  BY DEF Refusal, PageStays
<1>3. Server'
  BY <1>2 DEF Ranges, Server, Rows, Present, Sessions, Settings, Records, Work, Numbers, Wire,
     Connection, Hears
<1> QED
  BY <1>1, <1>3 DEF Ranges

LEMMA RangesStep ==
  ASSUME Ranges, [Next]_vars
  PROVE  Ranges'
<1>1. CASE Serves /\ PageStays
  BY <1>1, ServesTypes, PageTypes DEF Ranges, PageStays
<1>2. CASE Refusal
  BY <1>2, RefusalTypes
<1>3. CASE Looking
  BY <1>3, LeavesRoomTypes, EntersRoomTypes, ChoosesThemeTypes, ScrollsTypes, OpensPanelTypes,
     TypesNameTypes, TurnedAwayTypes, DropsTypes DEF Looking
<1>4. CASE Receives
  BY <1>4, ReceivesTypes
<1>5. CASE UNCHANGED vars
  BY <1>5 DEF vars, Ranges, Client, Server, Rows, Present, Sessions, Settings, Records, Work,
     Numbers, Wire, Connection, Hears
<1> QED
  BY <1>1, <1>2, <1>3, <1>4, <1>5, Steps

LEMMA InitRanges == Init => Ranges
<1> SUFFICES ASSUME Init
             PROVE  Ranges
  OBVIOUS
<1> USE DEF Init, MembersInit
<1>1. (CHOOSE n \in Names : TRUE) \in Names /\ (CHOOSE t \in Themes : TRUE) \in Themes
  BY MessagesAssumption DEF MessagesAssumption
<1>2. Rows /\ Sessions /\ busy = [u \in Users |-> Idle]
  <2>1. \A role \in RoomRole : Resolve(role, saved.gq) \in Permissions
    BY ResolveType
  <2>2. rows \in [Users -> [role : RoomRole, banned : BOOLEAN, known : BOOLEAN]]
    BY DEF RoomRole
  <2>3. \A u \in Users : rows[u].known => rows[u].role \in RoomRole
    BY <2>2
  <2>4. sess \in [Users -> [role : RoomRole, perms : Permissions]]
    BY <2>1, <2>2
  <2> QED
    BY <2>2, <2>4, Constants DEF Rows, Sessions
<1>3. WorkOf(Idle) /\ Work
  <2>1. WorkOf(Idle)
    BY DEF WorkOf, Stages, Idle
  <2> QED
    BY <1>2, <2>1 DEF Work
<1>4. Present
  <2> DEFINE S == {Host} \cup Others
  <2>1. live = [u \in S |-> rows[u].role]
    OBVIOUS
  <2>2. S \subseteq Users /\ Me \notin S
    BY Constants DEF Users
  <2>3. live \in [S -> RoomRole]
    BY <1>2, <2>1, <2>2 DEF Rows
  <2>4. live \in Rosters
    BY <2>2, <2>3 DEF Rosters
  <2>5. \A u \in DOMAIN live : rows[u].known
    BY <2>1, <2>2
  <2>6. \A u \in Users : busy[u] = Idle
    BY <1>2
  <2>7. conns = 0
    OBVIOUS
  <2> HIDE DEF Init, MembersInit
  <2> QED
    BY <2>4, <2>5, <2>6, <2>7 DEF Present
<1>5. Settings /\ Records
  <2> DEFINE n == CHOOSE n \in Names : TRUE
             t == CHOOSE t \in Themes : TRUE
  <2>1. saved \in RoomSnapshot /\ info = saved /\ patches = {}
    <3>1. saved = [name |-> n, gq |-> TRUE, theme |-> t, successor |-> None]
      OBVIOUS
    <3>2. n \in Names /\ t \in Themes
      BY <1>1
    <3>3. info = saved /\ patches = {}
      OBVIOUS
    <3> HIDE DEF n, t, Init, MembersInit
    <3> QED
      BY <3>1, <3>2, <3>3 DEF RoomSnapshot
  <2>2. log = <<[id |-> 1, by |-> Host]>> /\ [id |-> 1, by |-> Host] \in ChatMessage
    BY Constants DEF ChatMessage
  <2>3. items = <<>>
    OBVIOUS
  <2> QED
    BY <2>1, <2>2, <2>3 DEF Settings, Records
<1>6. Numbers /\ Wire /\ Connection
  <2>1. store = Initial /\ numbered = 1 /\ inbox = <<>> /\ link = "down" /\ raced = FALSE
        /\ crossed = {} /\ conns = 0 /\ inRoom = TRUE
    OBVIOUS
  <2>2. busy[Me].at = "idle"
    BY <1>2, Constants DEF Idle
  <2> HIDE DEF Init, MembersInit
  <2>3. <<>> \in Seq(Frames) /\ DOMAIN <<>> = {}
    OBVIOUS
  <2>4. Numbers
    BY <2>1, <2>3, InitialFits DEF Numbers
  <2>5. Wire
    BY <2>1, <2>3 DEF Wire, Hears
  <2>6. Connection
    BY <2>1, <2>2 DEF Connection, Hears
  <2> QED
    BY <2>4, <2>5, <2>6
<1>7. Client
  <2>1. store = Initial /\ inRoom = TRUE /\ panel = "chat" /\ box = OpenedBox(<<>>)
        /\ form = Unseeded /\ own \in Themes /\ override = None /\ looks = 0
    BY <1>1
  <2>2. box \in [follows : BOOLEAN, behind : BOOLEAN, read : Seq(ChatMessage)]
    <3>1. <<>> \in Seq(ChatMessage)
      OBVIOUS
    <3> QED
      BY <2>1, <3>1 DEF OpenedBox
  <2>3. form \in [name : Names \cup {None}, gq : BOOLEAN, typed : BOOLEAN]
    BY <2>1 DEF Unseeded
  <2> QED
    BY <2>1, <2>2, <2>3, InitialFits, Constants DEF Client, Panels
<1>8. ops \in 0 .. MaxOps
  BY Constants
<1> QED
  BY <1>2, <1>3, <1>4, <1>5, <1>6, <1>7, <1>8 DEF Ranges, Server

LEMMA RangesAlways == Spec => []Ranges
BY InitRanges, RangesStep, PTL DEF Spec

LEMMA RangesTypeOK == Ranges => ViewTypeOK
<1> SUFFICES ASSUME Ranges
             PROVE  ViewTypeOK
  OBVIOUS
<1>1. DOMAIN live \subseteq Users
  BY DEF Ranges, Server, Present, Rosters
<1>2. \A i \in DOMAIN inbox : ServerMessage(inbox[i])
  BY FramesFit DEF Ranges, Server, Wire
<1>3. store.role \in Guest .. Hosting
  BY DEF Ranges, Client, Stores, RoomRole
<1>4. Theme \in Themes
  BY DEF Theme, Ranges, Client
<1>5. /\ conns \in 0 .. 2 /\ ops \in 0 .. MaxOps /\ store.queueVersion < numbered
      /\ link \in {"down", "admitted", "joining", "up"} /\ raced \in BOOLEAN
      /\ crossed \subseteq {"queue", "roles", "room"} /\ panel \in Panels /\ inRoom \in BOOLEAN
      /\ looks \in 0 .. MaxLooks /\ Len(store.messages) <= MaxMessages
      /\ \A u \in Users \ {Me} : busy[u] # Idle => u \in DOMAIN live
  BY DEF Ranges, Server, Client, Present, Wire, Numbers
<1> QED
  BY <1>1, <1>2, <1>3, <1>4, <1>5 DEF ViewTypeOK

\* Whatever commands, requests, arrivals and lost connections interleave, every
\* variable stays in its range; in particular nothing the server sends
\* (session.rs, ws.rs) is a frame the client's schemas (server-messages.ts) drop,
\* and the version of the queue a client has seen stays below the next
\* (session.rs:607-637, room-store.ts:142-147).
THEOREM ViewTypes == Spec => []ViewTypeOK
BY RangesAlways, RangesTypeOK, PTL

------------------------------------------------------------------------------
(* The page follows the store, whatever the server does.                    *)

Shown ==
  /\ override = RoomTheme(store.room)
  /\ ~inRoom => store.room = None
  /\ panel = "chat" /\ ~box.behind => box.read = store.messages
  /\ panel = "settings" /\ ~form.typed /\ store.room # None =>
       form.name = store.room.name /\ form.gq = store.room.gq

LEMMA PageShown ==
  ASSUME Ranges, Shown, PageStays
  PROVE  Shown'
<1>1. UNCHANGED <<store, inRoom, panel, own, override, looks>>
  BY DEF PageStays
<1>2. box'.behind = box.behind /\ box'.read = box.read
  BY DEF PageStays, Ranges, Client
<1>3. ~form'.typed => form' = form
  BY DEF PageStays, Ranges, Client
<1> QED
  BY <1>1, <1>2, <1>3 DEF Shown, RoomTheme

LEMMA RenderedShown ==
  ASSUME Ranges, Shown, NEW s \in Stores, NEW news \in BOOLEAN, NEW reseeds \in BOOLEAN,
         Rendered(s, news, reseeds), reseeds \/ s.room = store.room,
         news \/ s.messages = store.messages, inRoom, inRoom' = inRoom, panel' = panel
  PROVE  Shown'
<1>1. store' \in Stores /\ store'.room = s.room /\ store'.messages = s.messages
  BY SettledFields DEF Rendered
<1>2. override' = RoomTheme(store'.room)
  BY <1>1 DEF Rendered, RoomTheme
<1>3. panel' = "chat" /\ ~box'.behind => box'.read = store'.messages
  <2>1. CASE panel = "chat" /\ news
    <3>1. box' = Followed(box, s.messages)
      BY <2>1 DEF Rendered
    <3>2. CASE box.follows
      BY <1>1, <3>1, <3>2 DEF Followed, OpenedBox
    <3>3. CASE ~box.follows
      <4>1. box'.behind = TRUE
        BY <3>1, <3>3 DEF Followed, Ranges, Client
      <4> QED
        BY <4>1
    <3> QED
      BY <3>2, <3>3
  <2>2. CASE ~(panel = "chat" /\ news)
    BY <1>1, <2>2 DEF Rendered, Shown
  <2> QED
    BY <2>1, <2>2
<1>4. panel' = "settings" /\ ~form'.typed /\ store'.room # None =>
        form'.name = store'.room.name /\ form'.gq = store'.room.gq
  <2>1. CASE panel = "settings" /\ reseeds
    BY <1>1, <2>1 DEF Rendered, Seeded
  <2>2. CASE ~(panel = "settings" /\ reseeds)
    BY <1>1, <2>2 DEF Rendered, Shown
  <2> QED
    BY <2>1, <2>2
<1> QED
  BY <1>2, <1>3, <1>4 DEF Shown

LEMMA ReceivesShown ==
  ASSUME Ranges, Shown, Receives
  PROVE  Shown'
<1> DEFINE m == Head(inbox)
           s == Apply(store, m)
           news == m.t = "ready" \/ s.messages # store.messages
           reseeds == m.t \in {"ready", "room_updated"}
<1>1. m \in Frames /\ s \in Stores /\ Hears /\ Rendered(s, news, reseeds)
      /\ inRoom' = inRoom /\ panel' = panel
  BY FirstApplied DEF Receives
<1>2. reseeds \/ s.room = store.room
  BY <1>1, ApplyFields DEF Ranges, Client
<1>3. inRoom
  BY <1>1 DEF Ranges, Client, Server, Connection, Hears
<1>4. (news \/ s.messages = store.messages) /\ news \in BOOLEAN /\ reseeds \in BOOLEAN
  OBVIOUS
<1> HIDE DEF m, s, news, reseeds
<1> QED
  BY <1>1, <1>2, <1>3, <1>4, RenderedShown

LEMMA LookingShown ==
  ASSUME Ranges, Shown, Looking
  PROVE  Shown'
<1>1. CASE LeavesRoom
  <2>1. inRoom' = FALSE /\ panel' = "chat" /\ store' = Initial /\ override' = RoomTheme(None)
        /\ box' = OpenedBox(<<>>)
    BY <1>1 DEF LeavesRoom
  <2>2. box'.read = store'.messages /\ store'.room = None
    BY <2>1, InitialFits DEF OpenedBox
  <2>3. override' = RoomTheme(store'.room)
    BY <2>1, <2>2
  <2> QED
    BY <2>1, <2>2, <2>3 DEF Shown
<1>2. CASE EntersRoom
  BY <1>2 DEF EntersRoom, Shown, RoomTheme
<1>3. CASE ChoosesTheme
  BY <1>3 DEF ChoosesTheme, Shown, RoomTheme
<1>4. CASE Scrolls
  <2>1. UNCHANGED <<store, inRoom, panel, form, own, override>>
        /\ box' = (IF box.follows THEN [box EXCEPT !.follows = FALSE]
                   ELSE OpenedBox(store.messages))
    BY <1>4 DEF Scrolls
  <2>2. CASE box.follows
    <3>1. box'.behind = box.behind /\ box'.read = box.read
      BY <2>1, <2>2 DEF Ranges, Client
    <3> QED
      BY <2>1, <3>1 DEF Shown, RoomTheme
  <2>3. CASE ~box.follows
    <3>1. box'.read = store.messages
      BY <2>1, <2>3 DEF OpenedBox
    <3> QED
      BY <2>1, <3>1 DEF Shown, RoomTheme
  <2> QED
    BY <2>2, <2>3
<1>5. ASSUME NEW p \in Panels, OpensPanel(p)
      PROVE  Shown'
  <2>1. panel' = p /\ UNCHANGED <<inRoom, own, override>> /\ inRoom
        /\ store' = (IF p = "chat" THEN MarkChatRead(store) ELSE store)
        /\ box' = OpenedBox(IF p = "chat" THEN store.messages ELSE <<>>)
        /\ form' = (IF p = "settings" THEN Seeded(Unseeded, store.room) ELSE Unseeded)
    BY <1>5 DEF OpensPanel
  <2>2. store'.messages = store.messages /\ store'.room = store.room
    BY <2>1 DEF MarkChatRead, Ranges, Client, Stores
  <2>3. p = "chat" => box'.read = store.messages
    BY <2>1 DEF OpenedBox
  <2>4. p = "settings" /\ store.room # None =>
          form'.name = store.room.name /\ form'.gq = store.room.gq
    BY <2>1 DEF Seeded
  <2>5. override' = RoomTheme(store'.room)
    BY <2>1, <2>2 DEF Shown, RoomTheme
  <2> QED
    BY <2>1, <2>2, <2>3, <2>4, <2>5 DEF Shown
<1>6. CASE TypesName
  <2>1. UNCHANGED <<store, inRoom, panel, box, own, override>>
        /\ \E n \in Names : form' = [form EXCEPT !.name = n, !.typed = TRUE]
    BY <1>6 DEF TypesName
  <2>2. form'.typed = TRUE
    BY <2>1 DEF Ranges, Client
  <2> QED
    BY <2>1, <2>2 DEF Shown, RoomTheme
<1>7. CASE TurnedAway
  <2> DEFINE s == ApplyKicked(store, [t |-> "kicked"])
  <2>1. s \in Stores /\ s.room = store.room /\ s.messages = store.messages
    BY DEF ApplyKicked, Stores, Ranges, Client
  <2>2. Rendered(s, FALSE, FALSE) /\ inRoom /\ UNCHANGED <<inRoom, panel, own, looks>>
    BY <1>7 DEF TurnedAway
  <2> HIDE DEF s
  <2> QED
    BY <2>1, <2>2, RenderedShown
<1>8. CASE Drops
  BY <1>8 DEF Drops, Shown, RoomTheme
<1> QED
  BY <1>1, <1>2, <1>3, <1>4, <1>5, <1>6, <1>7, <1>8 DEF Looking

LEMMA ShownStep ==
  ASSUME Ranges, Shown, [Next]_vars
  PROVE  Shown'
<1>1. CASE PageStays
  BY <1>1, PageShown
<1>2. CASE Looking
  BY <1>2, LookingShown
<1>3. CASE Receives
  BY <1>3, ReceivesShown
<1>4. CASE UNCHANGED vars
  BY <1>4 DEF vars, Shown, RoomTheme
<1> QED
  BY <1>1, <1>2, <1>3, <1>4, Steps DEF Refusal

LEMMA InitShown == Init => Shown
<1> SUFFICES ASSUME Init
             PROVE  Shown
  OBVIOUS
<1>1. store = Initial /\ inRoom = TRUE /\ panel = "chat" /\ box = OpenedBox(<<>>) /\ override = None
  BY DEF Init
<1>2. store.room = None /\ box.read = store.messages
  BY <1>1, InitialFits DEF OpenedBox
<1> QED
  BY <1>1, <1>2 DEF Shown, RoomTheme

LEMMA ShownAlways == Spec => []Shown
BY InitRanges, RangesStep, InitShown, ShownStep, PTL DEF Spec

\* Whatever arrives while the visitor scrolls, changes tabs, leaves, comes back
\* or is cut off: what is not in view of the chat is offered (chat.tsx:70-113).
THEOREM News == Spec => []NewsIsOffered
<1>1. Shown => NewsIsOffered
  BY DEF Shown, NewsIsOffered
<1> QED
  BY <1>1, ShownAlways, PTL

------------------------------------------------------------------------------
(* What the client will have made of everything that is on its way to it.   *)

\* The same room, people and queue.
Same(a, b) ==
  /\ a.me = b.me /\ a.role = b.role /\ a.room = b.room /\ a.people = b.people
  /\ a.queue = b.queue /\ a.queueVersion = b.queueVersion

\* Applying q to s, one frame after the other, ends in e.
Leads(s, q, e) ==
  \E run \in [0 .. Len(q) -> Stores] :
    /\ Same(run[0], s) /\ run[Len(q)] = e
    /\ \A i \in 1 .. Len(q) : run[i] = Apply(run[i - 1], q[i])

\* What a frame makes of the list of people depends on the list alone.
LEMMA ApplyPeople ==
  ASSUME NEW s \in Stores, NEW m \in Frames
  PROVE  /\ m.t = "participant_joined" =>
              /\ m \in PersonFrames
              /\ Apply(s, m).people = IF m.user \in DOMAIN s.people THEN s.people
                                      ELSE With(s.people, m.user, m.role)
         /\ m.t = "participant_left" =>
              Apply(s, m).people = [u \in DOMAIN s.people \ {m.user} |-> s.people[u]]
         /\ m.t = "participant_updated" =>
              /\ m \in PersonFrames
              /\ Apply(s, m).people = IF m.user \in DOMAIN s.people
                                      THEN [s.people EXCEPT ![m.user] = m.role]
                                      ELSE s.people
<1> USE DEF Frames, Readies, PersonFrames, LeftFrames, QueueFrames, ChatFrames, RoomFrames,
    AuthorityFrames, ErrorFrames
<1>1. CASE m.t = "participant_joined"
  <2>1. m \in PersonFrames
    BY <1>1
  <2>2. Apply(s, m) = ApplyJoined(s, m)
    BY <1>1 DEF Apply
  <2>3. ApplyJoined(s, m).people = IF m.user \in DOMAIN s.people THEN s.people
                                   ELSE With(s.people, m.user, m.role)
    BY DEF ApplyJoined, Stores
  <2> QED
    BY <1>1, <2>1, <2>2, <2>3
<1>2. CASE m.t = "participant_left"
  <2>1. Apply(s, m) = ApplyLeft(s, m)
    BY <1>2 DEF Apply
  <2> QED
    BY <1>2, <2>1 DEF ApplyLeft, Stores
<1>3. CASE m.t = "participant_updated"
  <2>1. m \in PersonFrames
    BY <1>3
  <2>2. Apply(s, m) = ApplyUpdated(s, m)
    BY <1>3 DEF Apply
  <2>3. ApplyUpdated(s, m).people = IF m.user \in DOMAIN s.people
                                    THEN [s.people EXCEPT ![m.user] = m.role] ELSE s.people
    BY DEF ApplyUpdated, Stores
  <2> QED
    BY <1>3, <2>1, <2>2, <2>3
<1> QED
  BY <1>1, <1>2, <1>3

LEMMA SameApplied ==
  ASSUME NEW a \in Stores, NEW b \in Stores, Same(a, b), NEW m \in Frames
  PROVE  Same(Apply(a, m), Apply(b, m))
<1>1. a.me = b.me /\ a.role = b.role /\ a.room = b.room /\ a.people = b.people
      /\ a.queue = b.queue /\ a.queueVersion = b.queueVersion
      /\ a.queueVersion \in Nat /\ b.queueVersion \in Nat
  BY DEF Same, Stores
<1>2. Apply(a, m).me = Apply(b, m).me
  BY <1>1, ApplyFields, ApplySets
<1>3. Apply(a, m).role = Apply(b, m).role
  BY <1>1, ApplyFields, ApplySets
<1>4. Apply(a, m).room = Apply(b, m).room
  BY <1>1, ApplyFields, ApplySets
<1>5. Apply(a, m).people = Apply(b, m).people
  <2>1. CASE m.t = "ready"
    BY <2>1, ApplySets
  <2>2. CASE m.t \in {"participant_joined", "participant_left", "participant_updated"}
    <3> DEFINE P == a.people
    <3>1. P = b.people /\ P = a.people
      BY <1>1
    <3> HIDE DEF P
    <3>2. CASE m.t = "participant_joined"
      <4> DEFINE Listing(people) ==
                   IF m.user \in DOMAIN people THEN people ELSE With(people, m.user, m.role)
      <4>1. Apply(a, m).people = Listing(a.people)
        BY <3>2, ApplyPeople
      <4>2. Apply(b, m).people = Listing(b.people)
        BY <3>2, ApplyPeople
      <4> HIDE DEF Listing
      <4> QED
        BY <3>1, <4>1, <4>2
    <3>3. CASE m.t = "participant_left"
      <4> DEFINE Without(people) == [u \in DOMAIN people \ {m.user} |-> people[u]]
      <4>1. Apply(a, m).people = Without(a.people)
        BY <3>3, ApplyPeople
      <4>2. Apply(b, m).people = Without(b.people)
        BY <3>3, ApplyPeople
      <4> HIDE DEF Without
      <4> QED
        BY <3>1, <4>1, <4>2
    <3>4. CASE m.t = "participant_updated"
      <4>1. Apply(a, m).people = IF m.user \in DOMAIN P THEN [P EXCEPT ![m.user] = m.role] ELSE P
        BY <3>1, <3>4, ApplyPeople
      <4>2. Apply(b, m).people = IF m.user \in DOMAIN P THEN [P EXCEPT ![m.user] = m.role] ELSE P
        BY <3>1, <3>4, ApplyPeople
      <4> QED
        BY <4>1, <4>2
    <3> QED
      BY <2>2, <3>2, <3>3, <3>4
  <2>3. CASE m.t \notin {"ready", "participant_joined", "participant_left",
                       "participant_updated"}
    BY <1>1, <2>3, ApplyFields
  <2> QED
    BY <2>1, <2>2, <2>3
<1>6. Apply(a, m).queue = Apply(b, m).queue /\ Apply(a, m).queueVersion = Apply(b, m).queueVersion
  <2>1. CASE m.t = "queue_updated"
    <3>1. m \in QueueFrames
      BY <2>1, ApplySets
    <3>2. m.version <= a.queueVersion \/ m.version > a.queueVersion
      BY <1>1, <3>1 DEF QueueFrames
    <3> QED
      BY <1>1, <2>1, <3>2, ApplySets
  <2>2. CASE m.t # "queue_updated"
    BY <1>1, <2>2, ApplyFields, ApplySets
  <2> QED
    BY <2>1, <2>2
<1> QED
  BY <1>2, <1>3, <1>4, <1>5, <1>6 DEF Same

LEMMA LeadsSame ==
  ASSUME NEW a, NEW b, NEW q, NEW e, Same(a, b), Leads(a, q, e)
  PROVE  Leads(b, q, e)
<1>1. PICK run \in [0 .. Len(q) -> Stores] :
        /\ Same(run[0], a) /\ run[Len(q)] = e
        /\ \A i \in 1 .. Len(q) : run[i] = Apply(run[i - 1], q[i])
  BY DEF Leads
<1>2. Same(run[0], b)
  BY <1>1 DEF Same
<1> QED
  BY <1>1, <1>2 DEF Leads

\* Nothing on the way: the store itself.
LEMMA LeadsNow ==
  ASSUME NEW s \in Stores
  PROVE  Leads(s, <<>>, s)
<1> DEFINE run == [i \in 0 .. Len(<<>>) |-> s]
<1>1. Len(<<>>) = 0
  OBVIOUS
<1>2. run \in [0 .. Len(<<>>) -> Stores] /\ run[0] = s /\ run[Len(<<>>)] = s
  BY <1>1
<1>3. Same(run[0], s) /\ \A i \in 1 .. Len(<<>>) : run[i] = Apply(run[i - 1], <<>>[i])
  BY <1>1, <1>2 DEF Same
<1> QED
  BY <1>2, <1>3 DEF Leads

LEMMA LeadsDone ==
  ASSUME NEW s, NEW e, Leads(s, <<>>, e)
  PROVE  Same(e, s)
<1>1. Len(<<>>) = 0
  OBVIOUS
<1> QED
  BY <1>1 DEF Leads

\* The first frame is applied to the store, and the rest leads where it did.
LEMMA LeadsFirst ==
  ASSUME NEW s \in Stores, NEW q \in Seq(Frames), q # <<>>, NEW e, Leads(s, q, e)
  PROVE  Leads(Apply(s, Head(q)), Tail(q), e)
<1>1. PICK run \in [0 .. Len(q) -> Stores] :
        /\ Same(run[0], s) /\ run[Len(q)] = e
        /\ \A i \in 1 .. Len(q) : run[i] = Apply(run[i - 1], q[i])
  BY DEF Leads
<1> DEFINE rest == [i \in 0 .. Len(q) - 1 |-> run[i + 1]]
<1>2. Len(q) \in Nat \ {0} /\ Len(Tail(q)) = Len(q) - 1 /\ Head(q) = q[1] /\ q[1] \in Frames
      /\ \A i \in 1 .. Len(q) - 1 : Tail(q)[i] = q[i + 1]
  OBVIOUS
<1>3. rest \in [0 .. Len(q) - 1 -> Stores] /\ rest[0] = run[1] /\ rest[Len(q) - 1] = e
  BY <1>1, <1>2
<1>4. \A i \in 1 .. Len(q) - 1 : rest[i] = Apply(rest[i - 1], Tail(q)[i])
  <2> TAKE i \in 1 .. Len(q) - 1
  <2>1. i + 1 \in 1 .. Len(q) /\ i \in 0 .. Len(q) - 1 /\ i - 1 \in 0 .. Len(q) - 1
        /\ (i + 1) - 1 = i /\ (i - 1) + 1 = i
    BY <1>2
  <2>2. run[i + 1] = Apply(run[i], q[i + 1])
    BY <1>1, <2>1
  <2>3. rest[i] = run[i + 1] /\ rest[i - 1] = run[i]
    BY <2>1
  <2> QED
    BY <1>2, <2>2, <2>3
<1>5. run[0] \in Stores /\ run[1] = Apply(run[0], q[1])
  <2>1. 1 \in 1 .. Len(q) /\ 1 - 1 = 0 /\ 0 \in 0 .. Len(q)
    BY <1>2
  <2> QED
    BY <1>1, <2>1
<1>6. Same(run[1], Apply(s, q[1]))
  BY <1>1, <1>2, <1>5, SameApplied
<1> HIDE DEF rest
<1> QED
  BY <1>2, <1>3, <1>4, <1>6 DEF Leads

\* More frames are sent.
LEMMA LeadsOn ==
  ASSUME NEW s, NEW q \in Seq(Frames), NEW e, Leads(s, q, e), NEW l \in Seq(Frames),
         NEW more \in [0 .. Len(l) -> Stores], more[0] = e,
         \A i \in 1 .. Len(l) : more[i] = Apply(more[i - 1], l[i])
  PROVE  Leads(s, q \o l, more[Len(l)])
<1>1. PICK run \in [0 .. Len(q) -> Stores] :
        /\ Same(run[0], s) /\ run[Len(q)] = e
        /\ \A i \in 1 .. Len(q) : run[i] = Apply(run[i - 1], q[i])
  BY DEF Leads
<1> DEFINE n == Len(q)
           k == Len(l)
           whole == [i \in 0 .. n + k |-> IF i <= n THEN run[i] ELSE more[i - n]]
           p == q \o l
<1>2. n \in Nat /\ k \in Nat /\ Len(p) = n + k
      /\ \A i \in 1 .. n + k : p[i] = IF i <= n THEN q[i] ELSE l[i - n]
  OBVIOUS
<1>3. whole \in [0 .. n + k -> Stores]
  <2> SUFFICES ASSUME NEW i \in 0 .. n + k
               PROVE  (IF i <= n THEN run[i] ELSE more[i - n]) \in Stores
    OBVIOUS
  <2>1. CASE i <= n
    BY <1>2, <2>1
  <2>2. CASE i > n
    <3>1. i - n \in 0 .. k
      BY <1>2, <2>2
    <3>2. more[i - n] \in Stores
      BY <3>1
    <3>3. ~(i <= n)
      BY <1>2, <2>2
    <3> QED
      BY <3>2, <3>3
  <2>3. i <= n \/ i > n
    BY <1>2
  <2> QED
    BY <2>1, <2>2, <2>3
<1>4. whole[0] = run[0] /\ whole[n] = e /\ whole[n + k] = more[k]
  <2>1. 0 \in 0 .. n + k /\ n \in 0 .. n + k /\ n + k \in 0 .. n + k /\ 0 <= n
    BY <1>2
  <2>2. n + k <= n => k = 0 /\ n + k = n
    BY <1>2
  <2>3. n + k - n = k
    BY <1>2
  <2> QED
    BY <1>1, <2>1, <2>2, <2>3
<1>5. \A i \in 1 .. n + k : whole[i] = Apply(whole[i - 1], p[i])
  <2> TAKE i \in 1 .. n + k
  <2>1. i \in 0 .. n + k /\ i - 1 \in 0 .. n + k
    BY <1>2
  <2>2. CASE i <= n
    <3>1. i \in 1 .. n /\ i - 1 <= n /\ whole[i] = run[i] /\ whole[i - 1] = run[i - 1] /\ p[i] = q[i]
      BY <1>2, <2>1, <2>2
    <3> QED
      BY <1>1, <3>1
  <2>3. CASE i > n
    <3>1. i - n \in 1 .. k /\ whole[i] = more[i - n] /\ p[i] = l[i - n]
      BY <1>2, <2>1, <2>3
    <3>2. more[i - n] = Apply(more[i - n - 1], l[i - n])
      BY <3>1
    <3>3. whole[i - 1] = more[i - n - 1]
      <4>1. CASE i - 1 = n
        <5>1. i - n - 1 = 0
          BY <1>2, <4>1
        <5> QED
          BY <1>4, <4>1, <5>1
      <4>2. CASE i - 1 # n
        <5>1. n \in Int /\ i \in Int /\ i > n /\ i - 1 # n
          BY <1>2, <2>1, <2>3, <4>2
        <5>2. ~(i - 1 <= n) /\ (i - 1) - n = i - n - 1
          <6> HIDE DEF n
          <6> QED
            BY <5>1
        <5> QED
          BY <2>1, <5>2
      <4> QED
        BY <4>1, <4>2
    <3> QED
      BY <3>1, <3>2, <3>3
  <2> QED
    BY <1>2, <2>2, <2>3
<1>6. Same(whole[0], s)
  BY <1>1, <1>4
<1> HIDE DEF whole, p, n, k
<1>7. Leads(s, p, more[k])
  BY <1>2, <1>3, <1>4, <1>5, <1>6 DEF Leads
<1> QED
  BY <1>7 DEF p, k

\* One more frame, and two.
LEMMA LeadsNext ==
  ASSUME NEW s, NEW q \in Seq(Frames), NEW e \in Stores, Leads(s, q, e), NEW m \in Frames
  PROVE  Leads(s, q \o <<m>>, Apply(e, m)) /\ Apply(e, m) \in Stores
<1> DEFINE l == <<m>>
           more == [i \in 0 .. 1 |-> IF i = 0 THEN e ELSE Apply(e, m)]
<1>1. Apply(e, m) \in Stores
  BY ApplyType, Constants
<1>2. l \in Seq(Frames) /\ Len(l) = 1 /\ l[1] = m
  OBVIOUS
<1>3. more \in [0 .. 1 -> Stores] /\ more[0] = e /\ more[1] = Apply(e, m)
  BY <1>1
<1>4. \A i \in 1 .. 1 : more[i] = Apply(more[i - 1], l[i])
  <2>1. more[1] = Apply(more[1 - 1], l[1])
    BY <1>2, <1>3
  <2> HIDE DEF more, l
  <2> QED
    BY <2>1
<1> HIDE DEF l, more
<1>5. Leads(s, q \o l, more[1])
  BY <1>2, <1>3, <1>4, LeadsOn
<1> QED
  BY <1>1, <1>3, <1>5 DEF l

LEMMA LeadsTwice ==
  ASSUME NEW s, NEW q \in Seq(Frames), NEW e \in Stores, Leads(s, q, e),
         NEW a \in Frames, NEW b \in Frames
  PROVE  Leads(s, q \o <<a, b>>, Apply(Apply(e, a), b)) /\ Apply(Apply(e, a), b) \in Stores
<1>1. Leads(s, q \o <<a>>, Apply(e, a)) /\ Apply(e, a) \in Stores
  BY LeadsNext
<1>2. q \o <<a>> \in Seq(Frames) /\ <<a>> \in Seq(Frames) /\ <<b>> \in Seq(Frames)
  OBVIOUS
<1>3. Leads(s, (q \o <<a>>) \o <<b>>, Apply(Apply(e, a), b)) /\ Apply(Apply(e, a), b) \in Stores
  BY <1>1, <1>2, LeadsNext
<1>4. (q \o <<a>>) \o <<b>> = q \o (<<a>> \o <<b>>)
  BY <1>2, ConcatAssociative
<1>5. <<a>> \o <<b>> = <<a, b>>
  BY Pair
<1> QED
  BY <1>3, <1>4, <1>5

------------------------------------------------------------------------------
(* Handlers whose announcements are still to come.                          *)

\* The client has been sent its snapshot, and so hears of everything since.
Told == link = "up" \/ (link = "joining" /\ busy[Me].at # "greeting")
Sure == Told /\ ~raced

RoleStages ==
  {"role_saved", "role_applied", "role_told", "host_saved", "host_applied", "host_told"}
QueueStages == {"queue_saved", "queue_read"}

\* A change of roles that is in the database only, or in memory too, and whether the
\* people in the room have still to hear of it; whom it concerns, and what it makes
\* of them.
Writing(w) == busy[w].at \in {"role_saved", "host_saved"}
Telling(w) == busy[w].at \in {"role_applied", "role_told", "host_applied", "host_told"}
Listing(w) == busy[w].at \in {"role_applied", "host_applied"}
Concerns(w, v) ==
  busy[w].target = v \/ (busy[w].at \in {"host_saved", "host_applied", "host_told"} /\ w = v)
Gives(w, v) == IF busy[w].target = v THEN busy[w].role ELSE Cohost

Written(v) == \E w \in Users : Writing(w) /\ Concerns(w, v)
Pending(v) == Written(v) \/ \E w \in Users : Telling(w) /\ Concerns(w, v)
Unlisted(v) == Written(v) \/ \E w \in Users : Listing(w) /\ Concerns(w, v)

\* Unless they crossed, one change of roles is announced at a time,
OneTells == \A w, x \in Users : Telling(w) /\ Telling(x) => w = x

\* what a change gives is what the database says, or will say next,
Latest ==
  \A w, v \in Users :
    (Writing(w) \/ Telling(w)) /\ Concerns(w, v) =>
       Gives(w, v) = rows[v].role \/ \E x \in Users \ {w} : Writing(x) /\ Concerns(x, v)

\* what is announced is so, or is about to change again,
LiveLatest ==
  \A w, v \in Users :
    Telling(w) /\ Concerns(w, v) /\ v \in DOMAIN live /\ (v = Me => Hears /\ ~raced) =>
       Gives(w, v) = live[v] \/ Written(v)

\* and the role a snapshot will give is so, or is about to change.
SessionLatest ==
  link = "joining" /\ busy[Me].at = "greeting" /\ ~raced =>
    sess[Me].role = live[Me] \/ Pending(Me)

RolesInTurn ==
  "roles" \notin crossed => OneTells /\ Latest /\ LiveLatest /\ SessionLatest

\* Unless the lists crossed, the last to be announced is the queue as it is, when
\* nobody is still to read it.
Rereading == \E u \in Users : busy[u].at = "queue_saved"
ListsInTurn ==
  "queue" \notin crossed =>
    \/ Rereading \/ Reading = {}
    \/ \E w \in Reading : busy[w].list = items /\ Reading \ {w} \subseteq busy[w].before

\* Whoever is being removed is banned, and no snapshot is sent before its time.
KicksBan == \A u \in Users : busy[u].at = "kicked" => rows[busy[u].target].banned
NoReadyYet ==
  link = "joining" /\ busy[Me].at = "greeting" =>
    \A i \in DOMAIN inbox : inbox[i].t # "ready"

\* The room is handed over to somebody else.
HeirsOther ==
  \A u \in Users :
    busy[u].at \in {"host_saved", "host_applied", "host_told"} => busy[u].target # u

InTurn == RolesInTurn /\ ListsInTurn /\ KicksBan /\ NoReadyYet /\ HeirsOther

\* Everybody's handler is as it was, less those whose stages are not of a kind.
Apart(stages) ==
  \A w \in Users : busy'[w] = busy[w] \/ (busy[w].at \notin stages /\ busy'[w].at \notin stages)

LEMMA RolesApart ==
  ASSUME Apart(RoleStages)
  PROVE  /\ \A w \in Users : (Writing(w)' <=> Writing(w)) /\ (Telling(w)' <=> Telling(w))
         /\ \A w \in Users : Writing(w) \/ Telling(w) => busy'[w] = busy[w]
         /\ \A w, v \in Users : Writing(w) \/ Telling(w) =>
              (Concerns(w, v)' <=> Concerns(w, v)) /\ Gives(w, v)' = Gives(w, v)
         /\ \A v \in Users : /\ Written(v)' <=> Written(v)
                             /\ Pending(v)' <=> Pending(v)
                             /\ Unlisted(v)' <=> Unlisted(v)
<1>1. \A w \in Users : /\ Writing(w)' <=> Writing(w)
                       /\ Telling(w)' <=> Telling(w)
                       /\ Listing(w)' <=> Listing(w)
                       /\ Listing(w) => Telling(w)
  BY DEF Apart, RoleStages, Writing, Telling, Listing
<1>2. \A w \in Users : Writing(w) \/ Telling(w) => busy'[w] = busy[w]
  BY DEF Apart, RoleStages, Writing, Telling
<1>3. \A w, v \in Users : Writing(w) \/ Telling(w) =>
        (Concerns(w, v)' <=> Concerns(w, v)) /\ Gives(w, v)' = Gives(w, v)
  BY <1>2 DEF Concerns, Gives
<1>4. \A v \in Users : /\ Written(v)' <=> Written(v)
                       /\ Pending(v)' <=> Pending(v)
                       /\ Unlisted(v)' <=> Unlisted(v)
  BY <1>1, <1>3 DEF Written, Pending, Unlisted
<1> QED
  BY <1>1, <1>2, <1>3, <1>4

\* Roles stay in turn under a step that leaves the changes of roles alone, where
\* somebody who comes is given what the database says.
LEMMA RolesInTurnStay ==
  ASSUME RolesInTurn, Apart(RoleStages), \A v \in Users : rows'[v].role = rows[v].role,
         "roles" \notin crossed' => "roles" \notin crossed,
         \A v \in Users : v \in DOMAIN live' /\ (v = Me => Hears' /\ ~raced') =>
           \/ v \in DOMAIN live /\ live'[v] = live[v] /\ (v = Me => Hears /\ ~raced)
           \/ live'[v] = rows[v].role,
         link' = "joining" /\ busy'[Me].at = "greeting" /\ ~raced' =>
           \/ /\ link = "joining" /\ busy[Me].at = "greeting" /\ ~raced
              /\ sess'[Me].role = sess[Me].role /\ live'[Me] = live[Me]
           \/ sess'[Me].role = live'[Me]
  PROVE  RolesInTurn'
<1> SUFFICES ASSUME "roles" \notin crossed'
             PROVE  OneTells' /\ Latest' /\ LiveLatest' /\ SessionLatest'
  BY DEF RolesInTurn
<1>1. OneTells /\ Latest /\ LiveLatest /\ SessionLatest
  BY DEF RolesInTurn
<1>2. OneTells'
  BY <1>1, RolesApart DEF OneTells
<1>3. Latest'
  <2> SUFFICES ASSUME NEW w \in Users, NEW v \in Users,
                      (Writing(w) \/ Telling(w))' /\ Concerns(w, v)'
               PROVE  \/ Gives(w, v)' = rows'[v].role
                      \/ \E x \in Users \ {w} : Writing(x)' /\ Concerns(x, v)'
    BY DEF Latest
  <2>1. (Writing(w) \/ Telling(w)) /\ Concerns(w, v) /\ Gives(w, v)' = Gives(w, v)
    BY RolesApart
  <2>2. Gives(w, v) = rows[v].role \/ \E x \in Users \ {w} : Writing(x) /\ Concerns(x, v)
    BY <1>1, <2>1 DEF Latest
  <2> QED
    BY <2>1, <2>2, RolesApart
<1>4. LiveLatest'
  <2> SUFFICES ASSUME NEW w \in Users, NEW v \in Users, Telling(w)', Concerns(w, v)',
                      v \in DOMAIN live', v = Me => Hears' /\ ~raced'
               PROVE  Gives(w, v)' = live'[v] \/ Written(v)'
    BY DEF LiveLatest
  <2>1. Telling(w) /\ Concerns(w, v) /\ Gives(w, v)' = Gives(w, v)
        /\ (Written(v)' <=> Written(v))
    BY RolesApart
  <2>2. CASE v \in DOMAIN live /\ live'[v] = live[v] /\ (v = Me => Hears /\ ~raced)
    BY <1>1, <2>1, <2>2 DEF LiveLatest
  <2>3. CASE live'[v] = rows[v].role
    <3>1. Gives(w, v) = rows[v].role \/ Written(v)
      BY <1>1, <2>1 DEF Latest, Written
    <3> QED
      BY <2>1, <2>3, <3>1
  <2> QED
    BY <2>2, <2>3
<1>5. SessionLatest'
  BY <1>1, RolesApart, Constants DEF SessionLatest
<1> QED
  BY <1>2, <1>3, <1>4, <1>5

\* The same for the lists, those being removed, and the snapshot.
LEMMA ListsInTurnStay ==
  ASSUME ListsInTurn, Apart(QueueStages), items' = items,
         "queue" \notin crossed' => "queue" \notin crossed
  PROVE  ListsInTurn'
<1>1. Rereading' <=> Rereading
  BY DEF Rereading, Apart, QueueStages
<1>2. Reading' = Reading /\ \A w \in Reading : busy'[w] = busy[w]
  BY DEF Reading, Apart, QueueStages
<1> QED
  BY <1>1, <1>2 DEF ListsInTurn

LEMMA KicksBanStay ==
  ASSUME KicksBan, Apart({"kicked"}), \A v \in Users : rows[v].banned => rows'[v].banned,
         \A u \in Users : busy[u].at = "kicked" => busy[u].target \in Users
  PROVE  KicksBan'
<1> SUFFICES ASSUME NEW u \in Users, busy'[u].at = "kicked"
             PROVE  rows'[busy'[u].target].banned
  BY DEF KicksBan
<1>1. busy'[u] = busy[u]
  BY DEF Apart
<1> QED
  BY <1>1 DEF KicksBan

LEMMA HeirsOtherStay ==
  ASSUME HeirsOther, Apart(RoleStages)
  PROVE  HeirsOther'
BY DEF HeirsOther, Apart, RoleStages

LEMMA NoReadyYetStays ==
  ASSUME Wire, NoReadyYet, NEW s \in Seq(Frames), Broadcast(s), \A j \in DOMAIN s : s[j].t # "ready",
         link' = link, busy'[Me].at = "greeting" => busy[Me].at = "greeting"
  PROVE  NoReadyYet'
<1> SUFFICES ASSUME link' = "joining", busy'[Me].at = "greeting", NEW i \in DOMAIN inbox'
             PROVE  inbox'[i].t # "ready"
  BY DEF NoReadyYet
<1>1. \/ i \in DOMAIN inbox /\ inbox'[i] = inbox[i]
      \/ \E j \in DOMAIN s : inbox'[i] = s[j]
  BY BroadcastTypes
<1> QED
  BY <1>1 DEF NoReadyYet

\* What crosses, but for the announcements of the room.
NotTheRoom ==
  /\ "roles" \in crossed' <=> "roles" \in crossed
  /\ "queue" \in crossed' <=> "queue" \in crossed

\* A step that is none of these, and sends nothing but a frame of another kind.
LEMMA InTurnStays ==
  ASSUME Ranges, InTurn, Apart(RoleStages), Apart(QueueStages), Apart({"kicked"}),
         rows' = rows, sess' = sess, live' = live, items' = items, link' = link,
         NotTheRoom, busy'[Me].at = "greeting" => busy[Me].at = "greeting",
         \/ inbox' = inbox /\ raced' = raced
         \/ \E m \in Frames : m.t # "ready" /\ Broadcast(<<m>>)
  PROVE  InTurn'
<1>1. ~raced' => ~raced
  BY DEF Broadcast, Ranges, Server, Wire
<1>2. RolesInTurn'
  BY <1>1, RolesInTurnStay DEF InTurn, Hears, NotTheRoom
<1>3. ListsInTurn'
  BY ListsInTurnStay DEF InTurn, NotTheRoom
<1>4. \A u \in Users : busy[u].at = "kicked" => busy[u].target \in Users
  BY DEF Ranges, Server, Work, WorkOf
<1>5. KicksBan'
  BY <1>4, KicksBanStay DEF InTurn
<1>6. NoReadyYet'
  <2>1. CASE inbox' = inbox /\ raced' = raced
    BY <2>1 DEF InTurn, NoReadyYet
  <2>2. ASSUME NEW m \in Frames, m.t # "ready", Broadcast(<<m>>)
        PROVE  NoReadyYet'
    <3> DEFINE s == <<m>>
    <3>1. s \in Seq(Frames) /\ Broadcast(s) /\ \A j \in DOMAIN s : s[j].t # "ready"
      BY <2>2
    <3> HIDE DEF s
    <3> QED
      BY <3>1, NoReadyYetStays DEF Ranges, Server, InTurn
  <2> QED
    BY <2>1, <2>2
<1> QED
  BY <1>2, <1>3, <1>5, <1>6, HeirsOtherStay DEF InTurn

\* One session moves on.
LEMMA OneMoves ==
  ASSUME Work, NEW u \in Users, NEW h, busy' = [busy EXCEPT ![u] = h]
  PROVE  /\ busy'[u] = h /\ \A x \in Users \ {u} : busy'[x] = busy[x]
         /\ \A stages : busy[u].at \notin stages /\ h.at \notin stages => Apart(stages)
BY DEF Work, Apart

\* A change of roles is written, applied and announced.
LEMMA RoleStarts ==
  ASSUME RolesInTurn, NEW u \in Users, busy[u].at = "idle",
         \A x \in Users \ {u} : busy'[x] = busy[x], Writing(u)',
         \A v \in Users : Concerns(u, v)' => Gives(u, v)' = rows'[v].role,
         \A v \in Users : ~Concerns(u, v)' => rows'[v].role = rows[v].role,
         live' = live, sess' = sess, link' = link, raced' = raced, crossed' = crossed
  PROVE  RolesInTurn'
<1> SUFFICES ASSUME "roles" \notin crossed
             PROVE  OneTells' /\ Latest' /\ LiveLatest' /\ SessionLatest'
  BY DEF RolesInTurn
<1>1. OneTells /\ Latest /\ LiveLatest /\ SessionLatest
  BY DEF RolesInTurn
<1>2. ~Writing(u) /\ ~Telling(u) /\ ~Telling(u)'
  BY DEF Writing, Telling
<1>3. \A x \in Users \ {u} :
        /\ (Writing(x)' <=> Writing(x)) /\ (Telling(x)' <=> Telling(x))
        /\ \A v \in Users : (Concerns(x, v)' <=> Concerns(x, v)) /\ Gives(x, v)' = Gives(x, v)
  BY DEF Writing, Telling, Concerns, Gives
<1>4. \A v \in Users : (Written(v) => Written(v)') /\ (Pending(v) => Pending(v)')
  BY <1>2, <1>3 DEF Written, Pending
<1>5. OneTells'
  BY <1>1, <1>2, <1>3 DEF OneTells
<1>6. Latest'
  <2> SUFFICES ASSUME NEW w \in Users, NEW v \in Users,
                      (Writing(w) \/ Telling(w))' /\ Concerns(w, v)'
               PROVE  \/ Gives(w, v)' = rows'[v].role
                      \/ \E x \in Users \ {w} : Writing(x)' /\ Concerns(x, v)'
    BY DEF Latest
  <2>1. CASE w = u
    BY <2>1
  <2>2. CASE w # u /\ Concerns(u, v)'
    BY <2>2
  <2>3. CASE w # u /\ ~Concerns(u, v)'
    <3>1. (Writing(w) \/ Telling(w)) /\ Concerns(w, v) /\ Gives(w, v)' = Gives(w, v)
      BY <1>3, <2>3
    <3>2. Gives(w, v) = rows[v].role \/ \E x \in Users \ {w} : Writing(x) /\ Concerns(x, v)
      BY <1>1, <3>1 DEF Latest
    <3> QED
      BY <1>2, <1>3, <2>3, <3>1, <3>2
  <2> QED
    BY <2>1, <2>2, <2>3
<1>7. LiveLatest'
  BY <1>1, <1>2, <1>3, <1>4 DEF LiveLatest, Hears
<1>8. SessionLatest'
  BY <1>1, <1>2, <1>4, Constants DEF SessionLatest, Writing
<1> QED
  BY <1>5, <1>6, <1>7, <1>8

LEMMA RoleApplies ==
  ASSUME Ranges, RolesInTurn, NEW u \in Users, Writing(u), RolesCross(u),
         \A x \in Users \ {u} : busy'[x] = busy[x] /\ sess'[x] = sess[x], ~Writing(u)',
         busy'[u].at # "greeting",
         \A v \in Users : Telling(u)' /\ Concerns(u, v)' =>
           /\ Concerns(u, v) /\ Gives(u, v)' = Gives(u, v)
           /\ v \in DOMAIN live => live'[v] = Gives(u, v),
         \A v \in DOMAIN live : IF Concerns(u, v) THEN Telling(u)' /\ Concerns(u, v)'
                                ELSE live'[v] = live[v],
         DOMAIN live' = DOMAIN live, rows' = rows, link' = link, raced' = raced
  PROVE  RolesInTurn'
<1> SUFFICES ASSUME "roles" \notin crossed'
             PROVE  OneTells' /\ Latest' /\ LiveLatest' /\ SessionLatest'
  BY DEF RolesInTurn
<1>1. "roles" \notin crossed /\ \A x \in Users \ {u} : busy[x].at \notin RoleStages
  BY DEF RolesCross, RoleStages, ChangingRoles
<1>2. Latest /\ SessionLatest
  BY <1>1 DEF RolesInTurn
<1>3. \A x \in Users \ {u} : ~Writing(x) /\ ~Telling(x) /\ ~Writing(x)' /\ ~Telling(x)'
  BY <1>1 DEF RoleStages, Writing, Telling
<1>4. OneTells'
  BY <1>3 DEF OneTells
<1>5. \A v \in Users : Telling(u)' /\ Concerns(u, v)' => Gives(u, v)' = rows'[v].role
  BY <1>2, <1>3 DEF Latest
<1>6. Latest'
  BY <1>3, <1>5 DEF Latest
<1>7. LiveLatest'
  BY <1>3 DEF LiveLatest
<1>8. SessionLatest'
  <2> SUFFICES ASSUME link' = "joining", busy'[Me].at = "greeting", ~raced'
               PROVE  sess'[Me].role = live'[Me] \/ Pending(Me)'
    BY DEF SessionLatest
  <2>1. Me \in Users /\ Me # u /\ busy[Me].at = "greeting" /\ sess'[Me] = sess[Me]
    BY Constants
  <2>2. Me \in DOMAIN live
    BY DEF Ranges, Server, Connection, Hears, Present
  <2>3. CASE Concerns(u, Me)
    BY <2>1, <2>2, <2>3 DEF Pending
  <2>4. CASE ~Concerns(u, Me)
    <3>1. ~Pending(Me)
      BY <1>3, <2>4 DEF Pending, Written
    <3>2. sess[Me].role = live[Me]
      BY <1>2, <2>1, <3>1 DEF SessionLatest
    <3> QED
      BY <2>1, <2>2, <2>4, <3>2
  <2> QED
    BY <2>3, <2>4
<1> QED
  BY <1>4, <1>6, <1>7, <1>8

LEMMA RoleTold ==
  ASSUME RolesInTurn, NEW u \in Users, Telling(u), ~Writing(u)',
         \A v \in Users : Telling(u)' /\ Concerns(u, v)' =>
           Concerns(u, v) /\ Gives(u, v)' = Gives(u, v),
         \A x \in Users \ {u} : busy'[x] = busy[x],
         rows' = rows, live' = live, sess' = sess, link' = link, crossed' = crossed,
         raced' = (raced \/ link = "joining")
  PROVE  RolesInTurn'
<1> SUFFICES ASSUME "roles" \notin crossed
             PROVE  OneTells' /\ Latest' /\ LiveLatest' /\ SessionLatest'
  BY DEF RolesInTurn
<1>1. OneTells /\ Latest /\ LiveLatest /\ SessionLatest
  BY DEF RolesInTurn
<1>2. ~Writing(u) /\ ~Writing(u)'
  BY DEF Writing, Telling
<1>3. \A x \in Users \ {u} :
        /\ (Writing(x)' <=> Writing(x)) /\ (Telling(x)' <=> Telling(x))
        /\ \A v \in Users : (Concerns(x, v)' <=> Concerns(x, v)) /\ Gives(x, v)' = Gives(x, v)
  BY DEF Writing, Telling, Concerns, Gives
<1>4. \A v \in Users : Written(v)' <=> Written(v)
  BY <1>2, <1>3 DEF Written
<1>5. OneTells'
  BY <1>1, <1>2, <1>3 DEF OneTells
<1>6. Latest'
  <2> SUFFICES ASSUME NEW w \in Users, NEW v \in Users,
                      (Writing(w) \/ Telling(w))' /\ Concerns(w, v)'
               PROVE  \/ Gives(w, v)' = rows'[v].role
                      \/ \E x \in Users \ {w} : Writing(x)' /\ Concerns(x, v)'
    BY DEF Latest
  <2>1. (Writing(w) \/ Telling(w)) /\ Concerns(w, v) /\ Gives(w, v)' = Gives(w, v)
    BY <1>2, <1>3
  <2>2. Gives(w, v) = rows[v].role \/ \E x \in Users \ {w} : Writing(x) /\ Concerns(x, v)
    BY <1>1, <2>1 DEF Latest
  <2> QED
    BY <1>2, <1>3, <2>1, <2>2
<1>7. LiveLatest'
  <2> SUFFICES ASSUME NEW w \in Users, NEW v \in Users, Telling(w)', Concerns(w, v)',
                      v \in DOMAIN live, v = Me => Hears /\ ~raced
               PROVE  Gives(w, v)' = live[v] \/ Written(v)'
    BY DEF LiveLatest, Hears
  <2>1. Telling(w) /\ Concerns(w, v) /\ Gives(w, v)' = Gives(w, v)
    BY <1>3
  <2> QED
    BY <1>1, <1>4, <2>1 DEF LiveLatest
<1>8. SessionLatest'
  BY DEF SessionLatest
<1> QED
  BY <1>5, <1>6, <1>7, <1>8

\* Targets are users, and everybody's handler is a known one.
LEMMA WorkIn ==
  ASSUME Ranges
  PROVE  /\ Work /\ Wire
         /\ \A u \in Users : busy[u].at = "kicked" => busy[u].target \in Users
         /\ \A u \in Users : Writing(u) \/ Telling(u) => busy[u].target \in Users
BY DEF Ranges, Server, Work, WorkOf, Writing, Telling

LEMMA SetRoleInTurn ==
  ASSUME Ranges, InTurn, NEW u \in Users, NEW t \in Users, NEW role \in {Member, Cohost},
         Ready(u), SetRole(u, t, role)
  PROVE  InTurn'
<1> DEFINE h == [at |-> "role_saved", target |-> t, role |-> role]
<1>1. busy[u].at = "idle" /\ busy' = [busy EXCEPT ![u] = h] /\ rows' = [rows EXCEPT ![t].role = role]
      /\ h.at = "role_saved"
      /\ UNCHANGED <<live, conns, sess, info, saved, patches, log, items, numbered, inbox, raced,
                     link, crossed>>
  BY ReadyIdle DEF SetRole, Quietly, Silent
<1>2. /\ busy'[u] = h /\ \A x \in Users \ {u} : busy'[x] = busy[x]
      /\ Apart(QueueStages) /\ Apart({"kicked"})
  <2>1. busy[u].at \notin QueueStages \cup {"kicked"} /\ h.at \notin QueueStages \cup {"kicked"}
    BY <1>1 DEF QueueStages
  <2> HIDE DEF h
  <2> QED
    BY <1>1, <2>1, OneMoves, WorkIn
<1>3. /\ rows'[t].role = role /\ \A v \in Users : rows'[v].banned = rows[v].banned
      /\ \A v \in Users \ {t} : rows'[v].role = rows[v].role
  BY <1>1 DEF Ranges, Server, Rows
<1>4. Writing(u)' /\ \A v \in Users : (Concerns(u, v)' <=> v = t) /\ Gives(u, t)' = role
  BY <1>2 DEF Writing, Concerns, Gives
<1>5. RolesInTurn'
  BY <1>1, <1>2, <1>3, <1>4, RoleStarts DEF InTurn
<1>6. ListsInTurn' /\ KicksBan'
  BY <1>1, <1>2, <1>3, WorkIn, ListsInTurnStay, KicksBanStay DEF InTurn
<1>7. NoReadyYet'
  BY <1>1, <1>2, Constants DEF InTurn, NoReadyYet
<1>8. HeirsOther'
  BY <1>1, <1>2 DEF InTurn, HeirsOther
<1> QED
  BY <1>5, <1>6, <1>7, <1>8 DEF InTurn

LEMMA TransferHostInTurn ==
  ASSUME Ranges, InTurn, NEW u \in Users, NEW t \in Users, Ready(u), TransferHost(u, t)
  PROVE  InTurn'
<1> DEFINE h == [at |-> "host_saved", target |-> t, role |-> Hosting]
<1>1. busy[u].at = "idle" /\ busy' = [busy EXCEPT ![u] = h] /\ t # u
      /\ rows' = [rows EXCEPT ![u].role = Cohost, ![t] = [@ EXCEPT !.role = Hosting, !.known = TRUE]]
      /\ UNCHANGED <<live, conns, sess, info, saved, patches, log, items, numbered, inbox, raced,
                     link, crossed>>
  BY ReadyIdle DEF TransferHost, Quietly, Silent
<1>2. /\ busy'[u] = h /\ \A x \in Users \ {u} : busy'[x] = busy[x]
      /\ Apart(QueueStages) /\ Apart({"kicked"})
  <2>1. busy[u].at = "idle" /\ busy' = [busy EXCEPT ![u] = h] /\ h.at = "host_saved"
    BY <1>1
  <2> HIDE DEF h
  <2> QED
    BY <2>1, OneMoves, WorkIn DEF QueueStages
<1>3. /\ rows'[t].role = Hosting /\ rows'[u].role = Cohost
      /\ \A v \in Users : rows'[v].banned = rows[v].banned
      /\ \A v \in Users \ {t, u} : rows'[v].role = rows[v].role
  BY <1>1 DEF Ranges, Server, Rows
<1>4. Writing(u)' /\ Gives(u, t)' = Hosting /\ Gives(u, u)' = Cohost
      /\ \A v \in Users : (Concerns(u, v)' <=> v \in {t, u})
  BY <1>1, <1>2 DEF Writing, Concerns, Gives
<1>5. RolesInTurn'
  BY <1>1, <1>2, <1>3, <1>4, RoleStarts DEF InTurn
<1>6. ListsInTurn' /\ KicksBan'
  BY <1>1, <1>2, <1>3, WorkIn, ListsInTurnStay, KicksBanStay DEF InTurn
<1>7. NoReadyYet'
  BY <1>1, <1>2, Constants DEF InTurn, NoReadyYet
<1>8. HeirsOther'
  BY <1>1, <1>2 DEF InTurn, HeirsOther
<1> QED
  BY <1>5, <1>6, <1>7, <1>8 DEF InTurn

\* A change of roles is applied, in one step, whichever the change.
Applying(u) ==
  /\ Writing(u) /\ ~Writing(u)' /\ RolesCross(u)
  /\ UNCHANGED <<rows, info, items, numbered, link, inbox, raced>>
  /\ \A x \in Users \ {u} : busy'[x] = busy[x] /\ sess'[x] = sess[x]
  /\ Apart(QueueStages) /\ Apart({"kicked"}) /\ Apart({"greeting"})
  /\ busy'[u].at \in {"idle", "role_applied", "host_applied"}
  /\ busy'[u].at = "host_applied" => busy'[u].target # u
  /\ DOMAIN live' = DOMAIN live
  /\ \A v \in Users : Telling(u)' /\ Concerns(u, v)' =>
       /\ Concerns(u, v) /\ Gives(u, v)' = Gives(u, v)
       /\ v \in DOMAIN live => live'[v] = Gives(u, v)
  /\ \A v \in DOMAIN live : IF Concerns(u, v) THEN Telling(u)' /\ Concerns(u, v)'
                            ELSE live'[v] = live[v]

LEMMA RoleApplying ==
  ASSUME Ranges, NEW u \in Users, RoleApplied(u)
  PROVE  Applying(u)
<1> DEFINE h == busy[u]
           there == h.target \in DOMAIN live
           after == IF there THEN [h EXCEPT !.at = "role_applied"] ELSE Idle
<1>1. /\ h.at = "role_saved" /\ busy' = [busy EXCEPT ![u] = after]
      /\ live' = (IF there THEN [live EXCEPT ![h.target] = h.role] ELSE live)
      /\ UNCHANGED <<rows, conns, sess, info, saved, patches, items, numbered, link, inbox, raced>>
      /\ RolesCross(u)
  BY DEF RoleApplied, Silent
<1>2. h \in [at : {"role_saved", "role_applied", "role_told"}, target : Users, role : RoomRole]
  BY <1>1 DEF Ranges, Server, Work, WorkOf
<1>3. /\ after.at \in {"idle", "role_applied"} /\ (there <=> after.at = "role_applied")
      /\ there => after.target = h.target /\ after.role = h.role
  BY <1>2 DEF Idle
<1> HIDE DEF after
<1>4. /\ busy'[u] = after /\ \A x \in Users \ {u} : busy'[x] = busy[x]
      /\ Apart(QueueStages) /\ Apart({"kicked"}) /\ Apart({"greeting"})
  BY <1>1, <1>3, OneMoves, WorkIn DEF QueueStages
<1>5. DOMAIN live' = DOMAIN live /\ \A v \in DOMAIN live : live'[v] = IF v = h.target THEN h.role ELSE live[v]
  BY <1>1 DEF Ranges, Server, Present, Rosters
<1>6. /\ Writing(u) /\ ~Writing(u)' /\ (Telling(u)' <=> there)
      /\ busy'[u].at \in {"idle", "role_applied"}
  BY <1>1, <1>3, <1>4 DEF Writing, Telling
<1> DEFINE t == h.target
           r == h.role
<1>7. \A v \in Users : (Concerns(u, v) <=> v = t) /\ (v = t => Gives(u, v) = r)
  BY <1>1 DEF Concerns, Gives
<1>8. there => \A v \in Users : (Concerns(u, v)' <=> v = t) /\ (v = t => Gives(u, v)' = r)
  <2>1. there => busy'[u].at = "role_applied" /\ busy'[u].target = t /\ busy'[u].role = r
    BY <1>3, <1>4
  <2> HIDE DEF there, t, r
  <2> QED
    BY <2>1 DEF Concerns, Gives
<1>9. /\ \A v \in DOMAIN live : v \in Users
      /\ \A v \in DOMAIN live : live'[v] = IF v = t THEN r ELSE live[v]
      /\ there <=> t \in DOMAIN live
  BY <1>5 DEF Ranges, Server, Present, Rosters
<1> HIDE DEF there, t, r
<1>10. ASSUME NEW v \in Users, Telling(u)', Concerns(u, v)'
       PROVE  /\ Concerns(u, v) /\ Gives(u, v)' = Gives(u, v)
              /\ v \in DOMAIN live => live'[v] = Gives(u, v)
  <2>1. there /\ v = t
    BY <1>6, <1>8, <1>10
  <2>2. Concerns(u, v) /\ Gives(u, v) = r /\ Gives(u, v)' = r
    BY <1>7, <1>8, <2>1
  <2> QED
    BY <1>9, <2>1, <2>2
<1>11. ASSUME NEW v \in DOMAIN live
       PROVE  IF Concerns(u, v) THEN Telling(u)' /\ Concerns(u, v)' ELSE live'[v] = live[v]
  <2>1. CASE v = t
    <3>1. there /\ v \in Users
      BY <1>9, <2>1
    <3> QED
      BY <1>6, <1>7, <1>8, <2>1, <3>1
  <2>2. CASE v # t
    <3>1. ~Concerns(u, v) /\ live'[v] = live[v]
      BY <1>7, <1>9, <2>2
    <3> QED
      BY <3>1
  <2> QED
    BY <2>1, <2>2
<1> HIDE DEF h
<1>12. \A x \in Users \ {u} : busy'[x] = busy[x] /\ sess'[x] = sess[x]
  BY <1>1, <1>4
<1>13. DOMAIN live' = DOMAIN live /\ RolesCross(u)
       /\ UNCHANGED <<rows, info, items, numbered, link, inbox, raced>>
  BY <1>1, <1>5
<1> QED
  BY <1>4, <1>6, <1>10, <1>11, <1>12, <1>13 DEF Applying

LEMMA HostApplying ==
  ASSUME Ranges, HeirsOther, NEW u \in Users, HostApplied(u)
  PROVE  Applying(u)
<1> DEFINE t == busy[u].target
           after == [busy[u] EXCEPT !.at = "host_applied"]
<1>1. /\ busy[u].at = "host_saved" /\ t \in Users /\ busy[u].role = Hosting /\ t # u
      /\ busy' = [busy EXCEPT ![u] = after]
      /\ after.at = "host_applied" /\ after.target = t /\ after.role = Hosting
  <2>1. busy[u].at = "host_saved" /\ busy' = [busy EXCEPT ![u] = after]
    BY DEF HostApplied
  <2>2. busy[u] \in [at : {"host_saved", "host_applied", "host_told"}, target : Users,
                      role : {Hosting}]
    BY <2>1 DEF Ranges, Server, Work, WorkOf
  <2> QED
    BY <2>1, <2>2 DEF HeirsOther
<1>2. /\ UNCHANGED <<rows, conns, info, saved, patches, items, numbered, link, inbox, raced>>
      /\ RolesCross(u) /\ \A x \in Users \ {u} : sess'[x] = sess[x]
  BY DEF HostApplied, Silent, Ranges, Server, Sessions
<1>3. /\ DOMAIN live' = DOMAIN live
      /\ \A v \in DOMAIN live :
           live'[v] = IF v = u THEN Cohost ELSE IF v = t THEN Hosting ELSE live[v]
  BY <1>1 DEF HostApplied
<1> HIDE DEF after, t
<1>4. /\ busy'[u] = after /\ \A x \in Users \ {u} : busy'[x] = busy[x]
      /\ Apart(QueueStages) /\ Apart({"kicked"}) /\ Apart({"greeting"})
  BY <1>1, OneMoves, WorkIn DEF QueueStages
<1>5. /\ Writing(u) /\ ~Writing(u)' /\ Telling(u)' /\ busy'[u].at = "host_applied"
      /\ busy'[u].target # u
  BY <1>1, <1>4 DEF Writing, Telling
<1>6. \A v \in Users : /\ Concerns(u, v) <=> v \in {u, t}
                       /\ Gives(u, v) = IF v = t THEN Hosting ELSE Cohost
  BY <1>1 DEF Concerns, Gives, t
<1>7. \A v \in Users : /\ Concerns(u, v)' <=> v \in {u, t}
                       /\ Gives(u, v)' = IF v = t THEN Hosting ELSE Cohost
  BY <1>1, <1>4 DEF Concerns, Gives
<1>8. ASSUME NEW v \in Users, Telling(u)', Concerns(u, v)'
      PROVE  /\ Concerns(u, v) /\ Gives(u, v)' = Gives(u, v)
             /\ v \in DOMAIN live => live'[v] = Gives(u, v)
  <2>1. v \in {u, t} /\ Concerns(u, v) /\ Gives(u, v)' = Gives(u, v)
    BY <1>6, <1>7, <1>8
  <2> QED
    BY <1>1, <1>3, <1>6, <2>1
<1>9. ASSUME NEW v \in DOMAIN live
      PROVE  IF Concerns(u, v) THEN Telling(u)' /\ Concerns(u, v)' ELSE live'[v] = live[v]
  <2>1. v \in Users
    BY DEF Ranges, Server, Present, Rosters
  <2>2. CASE v \in {u, t}
    <3>1. Concerns(u, v) /\ Concerns(u, v)'
      BY <1>6, <1>7, <2>1, <2>2
    <3> QED
      BY <1>5, <3>1
  <2>3. CASE v \notin {u, t}
    <3>1. ~Concerns(u, v) /\ live'[v] = live[v]
      BY <1>3, <1>6, <2>1, <2>3
    <3> QED
      BY <3>1
  <2> QED
    BY <2>2, <2>3
<1>10. \A x \in Users \ {u} : busy'[x] = busy[x] /\ sess'[x] = sess[x]
  BY <1>2, <1>4
<1>11. DOMAIN live' = DOMAIN live /\ RolesCross(u)
       /\ UNCHANGED <<rows, info, items, numbered, link, inbox, raced>>
  BY <1>2, <1>3
<1> QED
  BY <1>4, <1>5, <1>8, <1>9, <1>10, <1>11 DEF Applying

LEMMA ApplyingInTurn ==
  ASSUME Ranges, InTurn, NEW u \in Users, Applying(u)
  PROVE  InTurn'
<1>1. RolesInTurn'
  BY RoleApplies DEF InTurn, Applying
<1>2. ListsInTurn' /\ KicksBan'
  <2>1. "queue" \notin crossed' => "queue" \notin crossed
    BY DEF Applying, RolesCross
  <2> QED
    BY <2>1, WorkIn, ListsInTurnStay, KicksBanStay DEF InTurn, Applying
<1>3. NoReadyYet' /\ HeirsOther'
  BY Constants DEF InTurn, NoReadyYet, HeirsOther, Applying
<1> QED
  BY <1>1, <1>2, <1>3 DEF InTurn

\* A change of roles is told of, a frame or the whole list at a time: whom the
\* handler still concerns it concerned, and it gives them what it gave.
Tells(u, s) ==
  /\ Telling(u) /\ ~Writing(u)' /\ ~Listing(u)' /\ Broadcast(s)
  /\ busy'[u].at \in {"idle", "role_told", "host_told"}
  /\ busy'[u].at = "host_told" => busy'[u].target # u
  /\ UNCHANGED <<rows, live, sess, info, items, numbered, link, crossed>>
  /\ \A x \in Users \ {u} : busy'[x] = busy[x]
  /\ Apart(QueueStages) /\ Apart({"kicked"}) /\ Apart({"greeting"}) /\ Apart({"designated"})
  /\ Apart({"said"})
  /\ \A v \in Users : Telling(u)' /\ Concerns(u, v)' =>
       Concerns(u, v) /\ Gives(u, v)' = Gives(u, v)

LEMMA TellsInTurn ==
  ASSUME Ranges, InTurn, NEW u \in Users, NEW s \in Seq(Frames), Tells(u, s),
         \A j \in DOMAIN s : s[j].t # "ready", link = "joining" => s # <<>>
  PROVE  InTurn'
<1>1. raced' = (raced \/ link = "joining")
  BY DEF Tells, Broadcast, Ranges, Server, Wire
<1>2. RolesInTurn'
  BY <1>1, RoleTold DEF InTurn, Tells
<1>3. ListsInTurn' /\ KicksBan'
  BY WorkIn, ListsInTurnStay, KicksBanStay DEF InTurn, Tells
<1>4. NoReadyYet'
  <2>1. busy'[Me].at = "greeting" => busy[Me].at = "greeting"
    BY Constants DEF Tells, Apart
  <2> QED
    BY <2>1, WorkIn, NoReadyYetStays DEF InTurn, Tells
<1>5. HeirsOther'
  BY DEF InTurn, HeirsOther, Tells
<1> QED
  BY <1>2, <1>3, <1>4, <1>5 DEF InTurn

\* The frames of each announcement.
ToTarget(u) == [t |-> "participant_updated", user |-> busy[u].target, role |-> busy[u].role]
ToLeaver(u) == [t |-> "permissions_updated", user |-> u, role |-> Cohost, perms |-> sess[u].perms]

LEMMA ToTargetFrame ==
  ASSUME Ranges, NEW u \in Users, busy[u].at \in {"role_applied", "role_told"}
  PROVE  /\ busy[u].target \in Users /\ busy[u].role \in RoomRole
         /\ ToTarget(u) \in PersonFrames /\ ToTarget(u).t = "participant_updated"
         /\ ToTarget(u).user = busy[u].target /\ ToTarget(u).role = busy[u].role
         /\ Entitlement(busy[u].target, busy[u].role) \in AuthorityFrames
         /\ Entitlement(busy[u].target, busy[u].role).user = busy[u].target
         /\ Entitlement(busy[u].target, busy[u].role).role = busy[u].role
<1>1. busy[u].target \in Users /\ busy[u].role \in RoomRole
  BY DEF Ranges, Server, Work, WorkOf
<1> QED
  BY <1>1, ResolveType DEF ToTarget, Entitlement, PersonFrames, AuthorityFrames

LEMMA ToLeaverFrame ==
  ASSUME Ranges, NEW u \in Users
  PROVE  /\ ToLeaver(u) \in AuthorityFrames /\ ToLeaver(u).user = u /\ ToLeaver(u).role = Cohost
<1>1. sess[u].perms \in Permissions
  BY DEF Ranges, Server, Sessions
<1> QED
  BY <1>1 DEF ToLeaver, AuthorityFrames, RoomRole

LEMMA RoleAnnouncedTells ==
  ASSUME Ranges, NEW u \in Users, RoleAnnounced(u)
  PROVE  Tells(u, <<ToTarget(u)>>)
<1> DEFINE after == [busy[u] EXCEPT !.at = "role_told"]
<1>1. /\ busy[u].at = "role_applied" /\ busy' = [busy EXCEPT ![u] = after]
      /\ busy[u] \in [at : {"role_saved", "role_applied", "role_told"}, target : Users, role : RoomRole]
  BY DEF RoleAnnounced, Ranges, Server, Work, WorkOf
<1>2. after.at = "role_told" /\ after.target = busy[u].target /\ after.role = busy[u].role
  BY <1>1
<1> HIDE DEF after
<1>3. /\ busy'[u] = after /\ \A x \in Users \ {u} : busy'[x] = busy[x]
      /\ Apart(QueueStages) /\ Apart({"kicked"}) /\ Apart({"greeting"}) /\ Apart({"designated"})
  /\ Apart({"said"})
  BY <1>1, <1>2, OneMoves, WorkIn DEF QueueStages
<1>4. /\ Telling(u) /\ ~Writing(u)' /\ ~Listing(u)'
      /\ \A v \in Users : Concerns(u, v)' => Concerns(u, v) /\ Gives(u, v)' = Gives(u, v)
  BY <1>1, <1>2, <1>3 DEF Telling, Writing, Listing, Concerns, Gives
<1>5. Broadcast(<<ToTarget(u)>>)
      /\ UNCHANGED <<rows, live, sess, info, items, numbered, link, crossed>>
  BY DEF RoleAnnounced, ToTarget, Stays
<1> QED
  BY <1>2, <1>3, <1>4, <1>5 DEF Tells

LEMMA TargetToldTells ==
  ASSUME Ranges, NEW u \in Users, TargetTold(u)
  PROVE  Tells(u, <<Entitlement(busy[u].target, busy[u].role)>>)
<1>1. busy[u].at = "role_told" /\ busy' = [busy EXCEPT ![u] = Idle] /\ Idle.at = "idle"
  BY DEF TargetTold, Idle
<1>2. /\ busy'[u] = Idle /\ \A x \in Users \ {u} : busy'[x] = busy[x]
      /\ Apart(QueueStages) /\ Apart({"kicked"}) /\ Apart({"greeting"}) /\ Apart({"designated"})
  /\ Apart({"said"})
  BY <1>1, OneMoves, WorkIn DEF QueueStages
<1>3. Telling(u) /\ ~Writing(u)' /\ ~Listing(u)' /\ ~Telling(u)'
  BY <1>1, <1>2 DEF Telling, Writing, Listing
<1>4. Broadcast(<<Entitlement(busy[u].target, busy[u].role)>>)
      /\ UNCHANGED <<rows, live, sess, info, items, numbered, link, crossed>>
  BY DEF TargetTold, Stays
<1> QED
  BY <1>1, <1>2, <1>3, <1>4 DEF Tells

LEMMA HostAnnouncedTells ==
  ASSUME Ranges, HeirsOther, NEW u \in Users, HostAnnounced(u)
  PROVE  Tells(u, WholeList)
<1> DEFINE after == [busy[u] EXCEPT !.at = "host_told"]
<1>1. /\ busy[u].at = "host_applied" /\ busy' = [busy EXCEPT ![u] = after]
      /\ busy[u] \in [at : {"host_saved", "host_applied", "host_told"}, target : Users, role : {Hosting}]
  BY DEF HostAnnounced, Ranges, Server, Work, WorkOf
<1>2. after.at = "host_told" /\ after.target = busy[u].target /\ after.role = busy[u].role
      /\ busy[u].target # u
  BY <1>1 DEF HeirsOther
<1> HIDE DEF after
<1>3. /\ busy'[u] = after /\ \A x \in Users \ {u} : busy'[x] = busy[x]
      /\ Apart(QueueStages) /\ Apart({"kicked"}) /\ Apart({"greeting"}) /\ Apart({"designated"})
  /\ Apart({"said"})
  BY <1>1, <1>2, OneMoves, WorkIn DEF QueueStages
<1>4. /\ Telling(u) /\ ~Writing(u)' /\ ~Listing(u)'
      /\ \A v \in Users : Concerns(u, v)' => Concerns(u, v) /\ Gives(u, v)' = Gives(u, v)
  BY <1>1, <1>2, <1>3 DEF Telling, Writing, Listing, Concerns, Gives
<1>5. Broadcast(WholeList)
      /\ UNCHANGED <<rows, live, sess, info, items, numbered, link, crossed>>
  BY DEF HostAnnounced, WholeList, Stays
<1> QED
  BY <1>2, <1>3, <1>4, <1>5 DEF Tells

LEMMA HostToldTells ==
  ASSUME Ranges, NEW u \in Users, HostTold(u)
  PROVE  Tells(u, <<ToLeaver(u)>>)
<1> DEFINE after == [busy[u] EXCEPT !.at = "role_told"]
<1>1. /\ busy[u].at = "host_told" /\ busy' = [busy EXCEPT ![u] = after]
      /\ busy[u] \in [at : {"host_saved", "host_applied", "host_told"}, target : Users, role : {Hosting}]
  BY DEF HostTold, Ranges, Server, Work, WorkOf
<1>2. after.at = "role_told" /\ after.target = busy[u].target /\ after.role = busy[u].role
  BY <1>1
<1> HIDE DEF after
<1>3. /\ busy'[u] = after /\ \A x \in Users \ {u} : busy'[x] = busy[x]
      /\ Apart(QueueStages) /\ Apart({"kicked"}) /\ Apart({"greeting"}) /\ Apart({"designated"})
  /\ Apart({"said"})
  BY <1>1, <1>2, OneMoves, WorkIn DEF QueueStages
<1>4. /\ Telling(u) /\ ~Writing(u)' /\ ~Listing(u)'
      /\ \A v \in Users : Concerns(u, v)' => Concerns(u, v) /\ Gives(u, v)' = Gives(u, v)
  BY <1>1, <1>2, <1>3 DEF Telling, Writing, Listing, Concerns, Gives
<1>5. Broadcast(<<ToLeaver(u)>>)
      /\ UNCHANGED <<rows, live, sess, info, items, numbered, link, crossed>>
  BY DEF HostTold, ToLeaver, Stays
<1> QED
  BY <1>2, <1>3, <1>4, <1>5 DEF Tells

\* One frame at a time.
LEMMA FrameTold ==
  ASSUME Ranges, InTurn, NEW u \in Users, NEW m \in Frames, Tells(u, <<m>>), m.t # "ready"
  PROVE  InTurn'
<1> DEFINE s == <<m>>
<1>1. s \in Seq(Frames) /\ s # <<>> /\ Tells(u, s) /\ \A j \in DOMAIN s : s[j].t # "ready"
  OBVIOUS
<1> HIDE DEF s
<1> QED
  BY <1>1, TellsInTurn

LEMMA RoleAnnouncedInTurn ==
  ASSUME Ranges, InTurn, NEW u \in Users, RoleAnnounced(u)
  PROVE  InTurn'
<1>1. ToTarget(u) \in Frames /\ ToTarget(u).t # "ready"
  BY ToTargetFrame DEF RoleAnnounced, Frames
<1> QED
  BY <1>1, RoleAnnouncedTells, FrameTold

LEMMA TargetToldInTurn ==
  ASSUME Ranges, InTurn, NEW u \in Users, TargetTold(u)
  PROVE  InTurn'
<1> DEFINE m == Entitlement(busy[u].target, busy[u].role)
<1>1. m \in Frames /\ m.t # "ready"
  BY ToTargetFrame DEF TargetTold, Frames, AuthorityFrames
<1> QED
  BY <1>1, TargetToldTells, FrameTold

LEMMA HostAnnouncedInTurn ==
  ASSUME Ranges, InTurn, NEW u \in Users, HostAnnounced(u)
  PROVE  InTurn'
<1>1. WholeList \in Seq(Frames) /\ \A j \in DOMAIN WholeList : WholeList[j].t # "ready"
  BY WholeListFrames DEF Ranges
<1>2. link = "joining" => WholeList # <<>>
  BY WholeListFrames DEF Ranges, Server, Connection, Hears, Present
<1> QED
  BY <1>1, <1>2, HostAnnouncedTells, TellsInTurn DEF InTurn

LEMMA HostToldInTurn ==
  ASSUME Ranges, InTurn, NEW u \in Users, HostTold(u)
  PROVE  InTurn'
<1>1. ToLeaver(u) \in Frames /\ ToLeaver(u).t # "ready"
  BY ToLeaverFrame DEF Frames, AuthorityFrames
<1> QED
  BY <1>1, HostToldTells, FrameTold

\* One sequence after another.
LEMMA Joined ==
  ASSUME NEW S, NEW a \in Seq(S), NEW b \in Seq(S)
  PROVE  /\ a \o b \in Seq(S) /\ Len(a \o b) = Len(a) + Len(b)
         /\ DOMAIN (a \o b) = 1 .. Len(a) + Len(b)
         /\ \A i \in 1 .. Len(a) : (a \o b)[i] = a[i]
         /\ \A i \in 1 .. Len(b) : (a \o b)[Len(a) + i] = b[i]
OBVIOUS

LEMMA KickInTurn ==
  ASSUME Ranges, InTurn, NEW u \in Users, NEW t \in Users, Ready(u), Kick(u, t)
  PROVE  InTurn'
<1> DEFINE h == [at |-> "kicked", target |-> t]
<1>1. busy[u].at = "idle" /\ busy' = [busy EXCEPT ![u] = h] /\ rows' = [rows EXCEPT ![t].banned = TRUE]
      /\ UNCHANGED <<live, sess, items, inbox, raced, link, crossed>>
  BY ReadyIdle DEF Kick, Quietly, Silent
<1>2. /\ busy'[u] = h /\ \A x \in Users \ {u} : busy'[x] = busy[x]
      /\ Apart(QueueStages) /\ Apart(RoleStages)
  BY <1>1, OneMoves, WorkIn DEF QueueStages, RoleStages
<1>3. rows'[t].banned /\ \A v \in Users : /\ rows[v].banned => rows'[v].banned
                                          /\ rows'[v].role = rows[v].role
  BY <1>1 DEF Ranges, Server, Rows
<1>4. busy'[Me].at = "greeting" => busy[Me].at = "greeting"
  BY <1>2, Constants
<1>5. RolesInTurn' /\ ListsInTurn' /\ HeirsOther'
  BY <1>1, <1>2, <1>3, <1>4, RolesInTurnStay, ListsInTurnStay, HeirsOtherStay DEF InTurn, Hears
<1>6. KicksBan'
  BY <1>2, <1>3, WorkIn DEF InTurn, KicksBan
<1>7. NoReadyYet'
  BY <1>1, <1>4 DEF InTurn, NoReadyYet
<1> QED
  BY <1>5, <1>6, <1>7 DEF InTurn

LEMMA KickAnnouncedInTurn ==
  ASSUME Ranges, InTurn, NEW u \in Users, KickAnnounced(u)
  PROVE  InTurn'
<1> DEFINE m == [t |-> "participant_left", user |-> busy[u].target]
           s == <<m>>
<1>1. busy[u].at = "kicked" /\ Broadcast(s) /\ busy' = [busy EXCEPT ![u] = Idle]
      /\ UNCHANGED <<rows, live, sess, items, link, crossed>>
  BY DEF KickAnnounced, Stays
<1>2. /\ busy'[u] = Idle /\ Idle.at = "idle" /\ \A x \in Users \ {u} : busy'[x] = busy[x]
      /\ Apart(QueueStages) /\ Apart(RoleStages)
  BY <1>1, OneMoves, WorkIn DEF QueueStages, RoleStages, Idle
<1>3. s \in Seq(Frames) /\ \A j \in DOMAIN s : s[j].t # "ready"
  <2>1. m \in Frames /\ m.t # "ready"
    BY <1>1, WorkIn DEF Frames, LeftFrames
  <2> HIDE DEF m
  <2> QED
    BY <2>1
<1> HIDE DEF s
<1>4. /\ busy'[Me].at = "greeting" => busy[Me].at = "greeting"
      /\ ~raced' => ~raced
  BY <1>1, <1>2, WorkIn, Constants DEF Broadcast, Wire
<1>5. RolesInTurn' /\ ListsInTurn' /\ HeirsOther'
  BY <1>1, <1>2, <1>4, RolesInTurnStay, ListsInTurnStay, HeirsOtherStay DEF InTurn, Hears
<1>6. KicksBan'
  BY <1>1, <1>2, WorkIn DEF InTurn, KicksBan
<1>7. NoReadyYet'
  BY <1>1, <1>3, <1>4, WorkIn, NoReadyYetStays DEF InTurn
<1> QED
  BY <1>5, <1>6, <1>7 DEF InTurn

\* The queue: saved, read, announced.
LEMMA QueueEditInTurn ==
  ASSUME Ranges, InTurn, NEW u \in Users, NEW e \in DOMAIN QueueEdits, Ready(u), QueueEdit(u, e)
  PROVE  InTurn'
<1> DEFINE h == [at |-> "queue_saved"]
<1>1. busy[u].at = "idle" /\ busy' = [busy EXCEPT ![u] = h]
      /\ UNCHANGED <<rows, live, sess, inbox, raced, link, crossed>>
  BY ReadyIdle DEF QueueEdit, Quietly, Silent
<1>2. /\ busy'[u] = h /\ \A x \in Users \ {u} : busy'[x] = busy[x]
      /\ Apart({"kicked"}) /\ Apart(RoleStages)
  BY <1>1, OneMoves, WorkIn DEF RoleStages
<1>3. busy'[Me].at = "greeting" => busy[Me].at = "greeting"
  BY <1>2, Constants
<1>4. RolesInTurn' /\ KicksBan' /\ HeirsOther'
  BY <1>1, <1>2, <1>3, WorkIn, RolesInTurnStay, KicksBanStay, HeirsOtherStay DEF InTurn, Hears
<1>5. ListsInTurn'
  BY <1>2 DEF ListsInTurn, Rereading
<1>6. NoReadyYet'
  BY <1>1, <1>3 DEF InTurn, NoReadyYet
<1> QED
  BY <1>4, <1>5, <1>6 DEF InTurn

LEMMA QueueReadInTurn ==
  ASSUME Ranges, InTurn, NEW u \in Users, QueueRead(u)
  PROVE  InTurn'
<1> DEFINE h == [at |-> "queue_read", list |-> items, before |-> Reading]
<1>1. busy[u].at = "queue_saved" /\ busy' = [busy EXCEPT ![u] = h]
      /\ UNCHANGED <<rows, live, sess, items, inbox, raced, link, crossed>>
  BY DEF QueueRead, Quietly, Silent, Stays
<1>2. /\ busy'[u] = h /\ \A x \in Users \ {u} : busy'[x] = busy[x]
      /\ Apart({"kicked"}) /\ Apart(RoleStages)
  <2>1. h.at = "queue_read"
    OBVIOUS
  <2> HIDE DEF h
  <2> QED
    BY <1>1, <2>1, OneMoves, WorkIn DEF RoleStages
<1>3. busy'[Me].at = "greeting" => busy[Me].at = "greeting"
  BY <1>2, Constants
<1>4. RolesInTurn' /\ KicksBan' /\ HeirsOther'
  BY <1>1, <1>2, <1>3, WorkIn, RolesInTurnStay, KicksBanStay, HeirsOtherStay DEF InTurn, Hears
<1>5. ListsInTurn'
  <2>1. Reading' = Reading \cup {u} /\ u \notin Reading
    BY <1>1, <1>2 DEF Reading
  <2>2. busy'[u].list = items' /\ Reading' \ {u} \subseteq busy'[u].before
    BY <1>1, <1>2, <2>1
  <2> QED
    BY <2>1, <2>2 DEF ListsInTurn
<1>6. NoReadyYet'
  BY <1>1, <1>3 DEF InTurn, NoReadyYet
<1> QED
  BY <1>4, <1>5, <1>6 DEF InTurn

\* After an announcement, whoever still reads forgets that it was being read.
LEMMA ReadersLeft ==
  ASSUME Work, NEW u \in Users, QueueAnnounced(u)
  PROVE  /\ u \in Reading /\ Reading' = Reading \ {u} /\ busy'[u] = Idle /\ Idle.at = "idle"
         /\ \A x \in Users \ {u} : /\ busy'[x].at = busy[x].at
                                   /\ x \notin Reading => busy'[x] = busy[x]
         /\ \A x \in Reading \ {u} : /\ busy'[x].list = busy[x].list
                                     /\ busy'[x].before = busy[x].before \ {u}
<1>1. \A x \in Users : busy'[x] = IF x = u THEN Idle
                                  ELSE IF x \in Reading THEN [busy[x] EXCEPT !.before = @ \ {u}]
                                  ELSE busy[x]
  BY DEF QueueAnnounced
<1>2. u \in Reading /\ busy'[u] = Idle /\ Idle.at = "idle"
  BY <1>1 DEF QueueAnnounced, Reading, Idle
<1>3. \A x \in Reading \ {u} : /\ busy'[x].list = busy[x].list /\ busy'[x].at = busy[x].at
                               /\ busy'[x].before = busy[x].before \ {u}
  <2> TAKE x \in Reading \ {u}
  <2>1. busy[x] \in [at : {"queue_read"}, list : Seq(Nat), before : SUBSET Users]
    BY DEF Reading, Work, WorkOf
  <2>2. busy'[x] = [busy[x] EXCEPT !.before = @ \ {u}]
    BY <1>1 DEF Reading
  <2> QED
    BY <2>1, <2>2
<1>4. \A x \in Users \ {u} : busy'[x].at = busy[x].at /\ (x \notin Reading => busy'[x] = busy[x])
  BY <1>1, <1>3
<1>5. Reading' = Reading \ {u}
  BY <1>2, <1>4 DEF Reading
<1> QED
  BY <1>2, <1>3, <1>4, <1>5

LEMMA QueueAnnouncedInTurn ==
  ASSUME Ranges, InTurn, NEW u \in Users, QueueAnnounced(u)
  PROVE  InTurn'
<1> DEFINE m == [t |-> "queue_updated", items |-> busy[u].list, version |-> numbered]
           s == <<m>>
<1>1. busy[u].at = "queue_read" /\ Broadcast(s)
      /\ UNCHANGED <<rows, live, sess, items, link>>
      /\ crossed' = IF busy[u].before \cap Reading # {} THEN crossed \cup {"queue"}
                    ELSE IF busy[u].list = items /\ Reading = {u} THEN crossed \ {"queue"}
                    ELSE crossed
  BY DEF QueueAnnounced
<1>2. /\ u \in Reading /\ Reading' = Reading \ {u} /\ busy'[u] = Idle /\ Idle.at = "idle"
      /\ \A x \in Users \ {u} : /\ busy'[x].at = busy[x].at
                                /\ x \notin Reading => busy'[x] = busy[x]
      /\ \A x \in Reading \ {u} : /\ busy'[x].list = busy[x].list
                                  /\ busy'[x].before = busy[x].before \ {u}
  BY ReadersLeft, WorkIn
<1>3. Apart(RoleStages) /\ Apart({"kicked"})
  BY <1>1, <1>2 DEF Apart, RoleStages, Reading
<1>4. s \in Seq(Frames) /\ \A j \in DOMAIN s : s[j].t # "ready"
  <2>1. busy[u].list \in Seq(Nat) /\ numbered \in Nat
    BY <1>1 DEF Ranges, Server, Work, WorkOf, Numbers
  <2>2. m \in Frames /\ m.t # "ready"
    BY <2>1 DEF Frames, QueueFrames
  <2> HIDE DEF m
  <2> QED
    BY <2>2
<1> HIDE DEF s
<1>5. /\ busy'[Me].at = "greeting" => busy[Me].at = "greeting"
      /\ ~raced' => ~raced
  BY <1>1, <1>2, WorkIn, Constants DEF Broadcast, Wire
<1>6. "roles" \notin crossed' => "roles" \notin crossed
  BY <1>1
<1>7. ~raced' => ~raced
  BY <1>1, WorkIn DEF Broadcast, Wire
<1>8. RolesInTurn' /\ KicksBan' /\ HeirsOther'
  BY <1>1, <1>3, <1>5, <1>6, <1>7, WorkIn, RolesInTurnStay, KicksBanStay, HeirsOtherStay
     DEF InTurn, Hears
<1>9. ListsInTurn'
  <2> SUFFICES ASSUME "queue" \notin crossed'
               PROVE  \/ Rereading' \/ Reading' = {}
                      \/ \E w \in Reading' : /\ busy'[w].list = items
                                             /\ Reading' \ {w} \subseteq busy'[w].before
    BY <1>1 DEF ListsInTurn
  <2>1. busy[u].before \cap Reading = {}
    BY <1>1
  <2>2. CASE busy[u].list = items /\ Reading = {u}
    BY <1>2, <2>2
  <2>3. CASE ~(busy[u].list = items /\ Reading = {u})
    <3>1. "queue" \notin crossed
      BY <1>1, <2>1, <2>3
    <3>2. CASE Rereading
      <4>1. PICK x \in Users : busy[x].at = "queue_saved"
        BY <3>2 DEF Rereading
      <4>2. busy'[x].at = "queue_saved"
        BY <1>1, <1>2, <4>1
      <4> QED
        BY <4>2 DEF Rereading
    <3>3. ASSUME NEW w \in Reading, busy[w].list = items, Reading \ {w} \subseteq busy[w].before
          PROVE  \E x \in Reading' : busy'[x].list = items /\ Reading' \ {x} \subseteq busy'[x].before
      <4>1. w # u
        BY <1>2, <2>1, <2>3, <3>3
      <4>2. w \in Reading' /\ busy'[w].list = items /\ busy'[w].before = busy[w].before \ {u}
        BY <1>2, <3>3, <4>1
      <4> QED
        BY <1>2, <3>3, <4>2
    <3> QED
      BY <1>2, <3>1, <3>2, <3>3 DEF InTurn, ListsInTurn
  <2> QED
    BY <2>2, <2>3
<1>10. NoReadyYet'
  BY <1>1, <1>4, <1>5, WorkIn, NoReadyYetStays DEF InTurn
<1> QED
  BY <1>8, <1>9, <1>10 DEF InTurn

\* Coming and going.
LEMMA ArrivesInTurn ==
  ASSUME Ranges, InTurn, NEW u \in Users \ {Me}, Arrives(u)
  PROVE  InTurn'
<1> DEFINE h == [at |-> "greeting"]
<1>1. /\ busy[u].at = "idle" /\ busy' = [busy EXCEPT ![u] = h] /\ live' = With(live, u, RoleOf(u))
      /\ rows' = [rows EXCEPT ![u] = [@ EXCEPT !.role = RoleOf(u), !.known = TRUE]]
      /\ sess' = [sess EXCEPT ![u] = [role |-> RoleOf(u), perms |-> Resolve(RoleOf(u), saved.gq)]]
      /\ UNCHANGED <<items, inbox, raced, link, crossed>>
  BY DEF Arrives, Quietly, Silent, Idle
<1>2. /\ busy'[u] = h /\ \A x \in Users \ {u} : busy'[x] = busy[x]
      /\ Apart(QueueStages) /\ Apart({"kicked"}) /\ Apart(RoleStages)
  BY <1>1, OneMoves, WorkIn DEF QueueStages, RoleStages
<1>3. RoleOf(u) = rows[u].role
  BY DEF RoleOf, Ranges, Server, Rows
<1>4. \A v \in Users : rows'[v].role = rows[v].role /\ rows'[v].banned = rows[v].banned
  BY <1>1, <1>3 DEF Ranges, Server, Rows
<1>5. /\ DOMAIN live' = DOMAIN live \cup {u} /\ live'[u] = rows[u].role
      /\ \A v \in DOMAIN live \ {u} : live'[v] = live[v]
  BY <1>1, <1>3 DEF With
<1>6. sess'[Me] = sess[Me] /\ busy'[Me] = busy[Me]
  BY <1>1, <1>2, Constants DEF Ranges, Server, Sessions
<1>7. link = "joining" => Me \in DOMAIN live /\ live'[Me] = live[Me]
  BY <1>5 DEF Ranges, Server, Present, Connection, Hears
<1>8. RolesInTurn' /\ ListsInTurn' /\ HeirsOther' /\ KicksBan'
  BY <1>1, <1>2, <1>4, <1>5, <1>6, <1>7, WorkIn, RolesInTurnStay, ListsInTurnStay, HeirsOtherStay,
     KicksBanStay DEF InTurn, Hears
<1>9. NoReadyYet'
  BY <1>1, <1>6 DEF InTurn, NoReadyYet
<1> QED
  BY <1>8, <1>9 DEF InTurn

LEMMA LeavesInTurn ==
  ASSUME Ranges, InTurn, NEW u \in Users \ {Me}, Leaves(u)
  PROVE  InTurn'
<1> DEFINE m == [t |-> "participant_left", user |-> u]
           s == <<m>>
<1>1. Broadcast(s) /\ live' = [x \in DOMAIN live \ {u} |-> live[x]]
      /\ UNCHANGED <<rows, sess, busy, items, link, crossed>>
  BY DEF Leaves
<1>2. s \in Seq(Frames) /\ \A j \in DOMAIN s : s[j].t # "ready"
  <2>1. m \in Frames /\ m.t # "ready"
    BY DEF Frames, LeftFrames
  <2> HIDE DEF m
  <2> QED
    BY <2>1
<1> HIDE DEF s
<1>3. Apart(RoleStages) /\ Apart(QueueStages) /\ Apart({"kicked"}) /\ (~raced' => ~raced)
  BY <1>1, WorkIn DEF Apart, Broadcast, Wire
<1>4. \A v \in Users : v \in DOMAIN live' => v \in DOMAIN live /\ live'[v] = live[v]
  BY <1>1
<1>5. link = "joining" => live'[Me] = live[Me]
  BY <1>1 DEF Ranges, Server, Present, Connection, Hears
<1>6. RolesInTurn' /\ ListsInTurn' /\ HeirsOther' /\ KicksBan'
  BY <1>1, <1>3, <1>4, <1>5, WorkIn, RolesInTurnStay, ListsInTurnStay, HeirsOtherStay, KicksBanStay
     DEF InTurn, Hears
<1>7. NoReadyYet'
  BY <1>1, <1>2, WorkIn, NoReadyYetStays DEF InTurn
<1> QED
  BY <1>6, <1>7 DEF InTurn

LEMMA AdmittedInTurn ==
  ASSUME Ranges, InTurn, Admitted
  PROVE  InTurn'
<1> DEFINE h == [at |-> "admitted", role |-> RoleOf(Me), perms |-> Resolve(RoleOf(Me), saved.gq)]
<1>1. /\ busy[Me].at = "idle" /\ busy' = [busy EXCEPT ![Me] = h] /\ link' = "admitted"
      /\ UNCHANGED <<rows, live, sess, items, inbox, raced, crossed>>
  BY DEF Admitted, Stays, Silent, Idle
<1>2. Apart(QueueStages) /\ Apart({"kicked"}) /\ Apart(RoleStages)
  <2>1. h.at = "admitted" /\ Me \in Users
    BY Constants
  <2> HIDE DEF h
  <2> QED
    BY <1>1, <2>1, OneMoves, WorkIn DEF QueueStages, RoleStages
<1>3. RolesInTurn' /\ ListsInTurn' /\ HeirsOther' /\ KicksBan'
  BY <1>1, <1>2, WorkIn, RolesInTurnStay, ListsInTurnStay, HeirsOtherStay, KicksBanStay
     DEF InTurn, Hears
<1>4. NoReadyYet'
  BY <1>1 DEF NoReadyYet
<1> QED
  BY <1>3, <1>4 DEF InTurn

LEMMA AttachesInTurn ==
  ASSUME Ranges, InTurn, Attaches
  PROVE  InTurn'
<1> DEFINE h == busy[Me]
           after == [at |-> "greeting", first |-> Me \notin DOMAIN live]
<1>1. /\ h.at = "admitted" /\ busy' = [busy EXCEPT ![Me] = after] /\ link' = "joining"
      /\ live' = With(live, Me, h.role) /\ raced' = (h.role # RoleOf(Me))
      /\ rows' = [rows EXCEPT ![Me] = [@ EXCEPT !.role = RoleOf(Me), !.known = TRUE]]
      /\ sess' = [sess EXCEPT ![Me] = [role |-> h.role, perms |-> h.perms]]
      /\ UNCHANGED <<items, inbox, crossed>>
  BY DEF Attaches
<1>2. Apart(QueueStages) /\ Apart({"kicked"}) /\ Apart(RoleStages)
  <2>1. after.at = "greeting" /\ Me \in Users
    BY Constants
  <2> HIDE DEF after
  <2> QED
    BY <1>1, <2>1, OneMoves, WorkIn DEF QueueStages, RoleStages
<1>3. RoleOf(Me) = rows[Me].role
  BY Constants DEF RoleOf, Ranges, Server, Rows
<1>4. \A v \in Users : rows'[v].role = rows[v].role /\ rows'[v].banned = rows[v].banned
  BY <1>1, <1>3, Constants DEF Ranges, Server, Rows
<1>5. /\ live'[Me] = h.role /\ \A v \in DOMAIN live' \ {Me} : v \in DOMAIN live /\ live'[v] = live[v]
  BY <1>1 DEF With
<1>6. sess'[Me].role = h.role
  BY <1>1, Constants DEF Ranges, Server, Sessions
<1>7. \A v \in Users : v \in DOMAIN live' /\ (v = Me => Hears' /\ ~raced') =>
        \/ v \in DOMAIN live /\ live'[v] = live[v] /\ (v = Me => Hears /\ ~raced)
        \/ live'[v] = rows[v].role
  BY <1>1, <1>3, <1>5
<1>8. RolesInTurn'
  BY <1>1, <1>2, <1>4, <1>5, <1>6, <1>7, RolesInTurnStay DEF InTurn
<1>9. ListsInTurn' /\ HeirsOther' /\ KicksBan'
  BY <1>1, <1>2, <1>4, WorkIn, ListsInTurnStay, HeirsOtherStay, KicksBanStay DEF InTurn
<1>10. NoReadyYet'
  <2>1. inbox = <<>>
    BY <1>1 DEF Ranges, Server, Connection, Wire, Hears
  <2> QED
    BY <1>1, <2>1 DEF NoReadyYet
<1> QED
  BY <1>8, <1>9, <1>10 DEF InTurn

LEMMA ReadySentInTurn ==
  ASSUME Ranges, InTurn, ReadySent
  PROVE  InTurn'
<1>1. busy[Me].at = "greeting" /\ busy' = [busy EXCEPT ![Me] = Idle]
      /\ UNCHANGED <<rows, live, sess, items, link, raced, crossed>>
  BY DEF ReadySent, Stays
<1>2. /\ busy'[Me] = Idle /\ Idle.at = "idle"
      /\ Apart(QueueStages) /\ Apart({"kicked"}) /\ Apart(RoleStages)
  BY <1>1, OneMoves, WorkIn, Constants DEF QueueStages, RoleStages, Idle
<1>3. RolesInTurn' /\ ListsInTurn' /\ HeirsOther' /\ KicksBan'
  BY <1>1, <1>2, WorkIn, RolesInTurnStay, ListsInTurnStay, HeirsOtherStay, KicksBanStay
     DEF InTurn, Hears
<1>4. NoReadyYet'
  BY <1>2 DEF NoReadyYet
<1> QED
  BY <1>3, <1>4 DEF InTurn

LEMMA DetachesInTurn ==
  ASSUME Ranges, InTurn, Detaches
  PROVE  InTurn'
<1>1. busy[Me] = Idle /\ UNCHANGED <<rows, sess, busy, items, link, crossed>>
  BY DEF Detaches
<1>2. Apart(RoleStages) /\ Apart(QueueStages) /\ Apart({"kicked"}) /\ busy'[Me].at = "idle"
  BY <1>1 DEF Apart, Idle
<1>3. /\ \A v \in DOMAIN live' : v \in DOMAIN live /\ live'[v] = live[v]
      /\ ~raced' => ~raced
  BY WorkIn DEF Detaches, Broadcast, Silent, Wire
<1>4. RolesInTurn' /\ ListsInTurn' /\ HeirsOther' /\ KicksBan'
  BY <1>1, <1>2, <1>3, WorkIn, RolesInTurnStay, ListsInTurnStay, HeirsOtherStay, KicksBanStay
     DEF InTurn, Hears
<1>5. NoReadyYet'
  BY <1>2 DEF NoReadyYet
<1> QED
  BY <1>4, <1>5 DEF InTurn

\* The client receives, hangs up, or does something else.
LEMMA ListensInTurn ==
  ASSUME Ranges, InTurn, UNCHANGED <<rows, live, sess, items, busy, crossed>>,
         Hears' => Hears /\ raced' = raced,
         link' = "joining" => /\ link = "joining"
                              /\ \A i \in DOMAIN inbox' : \E j \in DOMAIN inbox : inbox'[i] = inbox[j]
  PROVE  InTurn'
<1>1. Apart(RoleStages) /\ Apart(QueueStages) /\ Apart({"kicked"})
  BY DEF Apart
<1>2. RolesInTurn' /\ ListsInTurn' /\ HeirsOther' /\ KicksBan'
  BY <1>1, WorkIn, RolesInTurnStay, ListsInTurnStay, HeirsOtherStay, KicksBanStay
     DEF InTurn, Hears
<1>3. NoReadyYet'
  BY DEF InTurn, NoReadyYet
<1> QED
  BY <1>2, <1>3 DEF InTurn

LEMMA ClientInTurn ==
  ASSUME Ranges, InTurn, Receives \/ Refusal \/ Looking \/ UNCHANGED vars
  PROVE  InTurn'
<1>1. CASE Receives
  <2>1. UNCHANGED <<rows, live, sess, items, busy, crossed, raced>> /\ inbox' = Tail(inbox)
        /\ inbox # <<>> /\ inbox \in Seq(Frames) /\ (link' = "up" \/ link' = link) /\ Hears
    BY <1>1, FirstApplied, WorkIn DEF Receives, Wire
  <2>2. \A i \in DOMAIN inbox' : i + 1 \in DOMAIN inbox /\ inbox'[i] = inbox[i + 1]
    BY <2>1
  <2> QED
    BY <2>1, <2>2, ListensInTurn DEF Hears
<1>2. CASE Refusal \/ UNCHANGED vars
  BY <1>2, ListensInTurn DEF Refusal, vars, Hears
<1>3. CASE Looking
  <2>1. CASE Hangs("down")
    BY <2>1, ListensInTurn DEF Hangs, Hears
  <2>2. CASE UNCHANGED membersVars
    BY <2>2, ListensInTurn DEF membersVars, Hears
  <2> QED
    BY <1>3, <2>1, <2>2 DEF Looking, LeavesRoom, EntersRoom, ChoosesTheme, Scrolls, OpensPanel,
       TypesName, TurnedAway, Drops
<1> QED
  BY <1>1, <1>2, <1>3

\* The chat, the settings, refusals and greetings are apart from all that.
LEMMA SendsInTurn ==
  ASSUME Ranges, InTurn, NEW u \in Users, NEW h, busy' = [busy EXCEPT ![u] = h],
         busy[u].at \notin RoleStages \cup QueueStages \cup {"kicked"},
         h.at \notin RoleStages \cup QueueStages \cup {"kicked", "greeting"},
         rows' = rows, sess' = sess, live' = live, items' = items, link' = link, NotTheRoom,
         \/ inbox' = inbox /\ raced' = raced
         \/ \E m \in Frames : m.t # "ready" /\ Broadcast(<<m>>)
  PROVE  InTurn'
<1>1. /\ busy'[u] = h /\ \A x \in Users \ {u} : busy'[x] = busy[x]
      /\ Apart(RoleStages) /\ Apart(QueueStages) /\ Apart({"kicked"})
  BY OneMoves, WorkIn
<1>2. busy'[Me].at = "greeting" => busy[Me].at = "greeting"
  BY <1>1, Constants
<1> QED
  BY <1>1, <1>2, InTurnStays

LEMMA AsideInTurn ==
  ASSUME Ranges, InTurn, busy' = busy,
         rows' = rows, sess' = sess, live' = live, items' = items, link' = link, NotTheRoom,
         \/ inbox' = inbox /\ raced' = raced
         \/ \E m \in Frames : m.t # "ready" /\ Broadcast(<<m>>)
  PROVE  InTurn'
<1>1. Apart(RoleStages) /\ Apart(QueueStages) /\ Apart({"kicked"})
  BY DEF Apart
<1> QED
  BY <1>1, InTurnStays

LEMMA ChatInTurn ==
  ASSUME Ranges, InTurn, NEW u \in Users, (Ready(u) /\ ChatSend(u)) \/ ChatAnnounced(u)
  PROVE  InTurn'
<1> USE DEF RoleStages, QueueStages
<1>1. CASE Ready(u) /\ ChatSend(u)
  <2> DEFINE h == [at |-> "said", message |-> log'[Len(log')]]
  <2>1. busy[u].at = "idle" /\ busy' = [busy EXCEPT ![u] = h] /\ h.at = "said"
    BY <1>1, ReadyIdle DEF ChatSend
  <2>2. UNCHANGED <<rows, sess, live, items, link, crossed, inbox, raced>>
    BY <1>1 DEF ChatSend, Quietly, Silent
  <2> HIDE DEF h
  <2> QED
    BY <2>1, <2>2, SendsInTurn DEF NotTheRoom
<1>2. CASE ChatAnnounced(u)
  <2> DEFINE m == [t |-> "chat_message", message |-> busy[u].message]
  <2>1. busy[u].at = "said" /\ busy' = [busy EXCEPT ![u] = Idle] /\ Idle.at = "idle"
        /\ Broadcast(<<m>>) /\ UNCHANGED <<rows, sess, live, items, link, crossed>>
    BY <1>2 DEF ChatAnnounced, Stays, Idle
  <2>2. m \in Frames /\ m.t # "ready"
    BY <2>1 DEF Ranges, Server, Work, WorkOf, Frames, ChatFrames
  <2> HIDE DEF m
  <2> QED
    BY <2>1, <2>2, SendsInTurn DEF NotTheRoom
<1> QED
  BY <1>1, <1>2

LEMMA GreetsInTurn ==
  ASSUME Ranges, InTurn, NEW u \in Users, Greets(u)
  PROVE  InTurn'
<1> DEFINE m == [t |-> "participant_joined", user |-> u, role |-> live[u]]
<1>1. u # Me /\ busy[u].at = "greeting" /\ busy' = [busy EXCEPT ![u] = Idle] /\ Idle.at = "idle"
      /\ Broadcast(<<m>>) /\ UNCHANGED <<rows, sess, live, items, link, crossed>>
  BY DEF Greets, Stays, Idle
<1>2. m \in Frames /\ m.t # "ready"
  <2>1. u \in DOMAIN live
    BY <1>1 DEF Ranges, Server, Present, Idle
  <2>2. live[u] \in RoomRole
    BY <2>1 DEF Ranges, Server, Present, Rosters
  <2> QED
    BY <2>2 DEF Frames, PersonFrames
<1> HIDE DEF m
<1> QED
  BY <1>1, <1>2, SendsInTurn DEF NotTheRoom, RoleStages, QueueStages

\* The room changes, or is announced.
LEMMA RoomChangesInTurn ==
  ASSUME Ranges, InTurn,
         \/ \E u \in Users, t \in Users \cup {None} : Ready(u) /\ Designate(u, t)
         \/ \E u \in Users : DesignateAnnounced(u)
         \/ \E p \in patches : PatchApplied(p) \/ PatchAnnounced(p)
  PROVE  InTurn'
<1> USE DEF RoleStages, QueueStages
<1>1. ASSUME NEW u \in Users, NEW t \in Users \cup {None}, Ready(u), Designate(u, t)
      PROVE  InTurn'
  <2> DEFINE h == [at |-> "designated", room |-> info']
  <2>1. busy[u].at = "idle" /\ busy' = [busy EXCEPT ![u] = h] /\ h.at = "designated"
        /\ UNCHANGED <<rows, sess, live, items, link, inbox, raced>>
    BY <1>1, ReadyIdle DEF Designate, Silent
  <2>2. NotTheRoom
    BY <1>1 DEF Designate, RoomCrosses, NotTheRoom
  <2> HIDE DEF h
  <2> QED
    BY <2>1, <2>2, SendsInTurn
<1>2. ASSUME NEW u \in Users, DesignateAnnounced(u)
      PROVE  InTurn'
  <2> DEFINE m == [t |-> "room_updated", room |-> busy[u].room]
  <2>1. busy[u].at = "designated" /\ busy' = [busy EXCEPT ![u] = Idle] /\ Idle.at = "idle"
        /\ Broadcast(<<m>>) /\ UNCHANGED <<rows, sess, live, items, link>>
    BY <1>2 DEF DesignateAnnounced, Stays, Idle
  <2>2. NotTheRoom
    BY <1>2 DEF DesignateAnnounced, RoomSettles, NotTheRoom
  <2>3. m \in Frames /\ m.t # "ready"
    BY <2>1 DEF Ranges, Server, Work, WorkOf, Frames, RoomFrames
  <2> HIDE DEF m
  <2> QED
    BY <2>1, <2>2, <2>3, SendsInTurn
<1>3. ASSUME NEW p \in patches, PatchApplied(p)
      PROVE  InTurn'
  <2>1. NotTheRoom
    BY <1>3 DEF PatchApplied, RoomCrosses, NotTheRoom
  <2> QED
    BY <1>3, <2>1, AsideInTurn DEF PatchApplied, Silent
<1>4. ASSUME NEW p \in patches, PatchAnnounced(p)
      PROVE  InTurn'
  <2> DEFINE m == [t |-> "room_updated", room |-> p.room]
  <2>1. p.at = "applied" /\ Broadcast(<<m>>) /\ UNCHANGED <<rows, sess, live, busy, items, link>>
    BY <1>4 DEF PatchAnnounced
  <2>2. NotTheRoom
    BY <1>4 DEF PatchAnnounced, RoomSettles, NotTheRoom
  <2>3. m \in Frames /\ m.t # "ready"
    BY <2>1 DEF Ranges, Server, Settings, PatchOf, Frames, RoomFrames
  <2> HIDE DEF m
  <2> QED
    BY <2>1, <2>2, <2>3, AsideInTurn
<1> QED
  BY <1>1, <1>2, <1>3, <1>4

LEMMA AsidesInTurn ==
  ASSUME Ranges, InTurn,
         \/ Refused(Me)
         \/ \E u \in Users : \E patch : PatchStarts(u, patch)
         \/ \E p \in patches : PatchSaved(p)
  PROVE  InTurn'
<1>1. CASE Refused(Me)
  <2>1. UNCHANGED <<rows, sess, live, busy, items, link, crossed, raced>>
        /\ inbox' = Append(inbox, [t |-> "error"])
    BY <1>1 DEF Refused
  <2>2. link = "joining" /\ busy[Me].at = "greeting" => \A i \in DOMAIN inbox' : inbox'[i].t # "ready"
    <3>1. inbox \in Seq(Frames)
      BY WorkIn DEF Wire
    <3> DEFINE m == [t |-> "error"]
    <3>2. m.t # "ready"
      OBVIOUS
    <3> HIDE DEF m
    <3>3. \A i \in DOMAIN inbox' : (i \in DOMAIN inbox /\ inbox'[i] = inbox[i]) \/ inbox'[i] = m
      BY <2>1, <3>1 DEF m
    <3> QED
      BY <3>2, <3>3 DEF InTurn, NoReadyYet
  <2>3. Apart(RoleStages) /\ Apart(QueueStages) /\ Apart({"kicked"})
    BY <2>1 DEF Apart
  <2>4. RolesInTurn' /\ ListsInTurn' /\ HeirsOther' /\ KicksBan'
    BY <2>1, <2>3, WorkIn, RolesInTurnStay, ListsInTurnStay, HeirsOtherStay, KicksBanStay
       DEF InTurn, Hears
  <2>5. NoReadyYet'
    BY <2>1, <2>2 DEF NoReadyYet
  <2> QED
    BY <2>4, <2>5 DEF InTurn
<1>2. ASSUME NEW u \in Users, NEW patch, PatchStarts(u, patch)
      PROVE  InTurn'
  BY <1>2, AsideInTurn DEF PatchStarts, Quietly, Silent, NotTheRoom
<1>3. ASSUME NEW p \in patches, PatchSaved(p)
      PROVE  InTurn'
  BY <1>3, AsideInTurn DEF PatchSaved, Quietly, Silent, NotTheRoom
<1> QED
  BY <1>1, <1>2, <1>3

LEMMA CommandsInTurn ==
  ASSUME Ranges, InTurn, Commands
  PROVE  InTurn'
<1>1. PICK u \in Users :
        /\ Ready(u)
        /\ \/ \E t \in Users, role \in {Member, Cohost} : SetRole(u, t, role)
           \/ \E t \in Users : TransferHost(u, t) \/ Kick(u, t)
           \/ \E t \in Users \cup {None} : Designate(u, t)
           \/ \E e \in DOMAIN QueueEdits : QueueEdit(u, e)
           \/ ChatSend(u) \/ (u = Me /\ Refused(Me))
  BY DEF Commands
<1>2. CASE \E t \in Users, role \in {Member, Cohost} : SetRole(u, t, role)
  BY <1>1, <1>2, SetRoleInTurn
<1>3. CASE \E t \in Users : TransferHost(u, t) \/ Kick(u, t)
  BY <1>1, <1>3, TransferHostInTurn, KickInTurn
<1>4. CASE (\E t \in Users \cup {None} : Designate(u, t)) \/ Refused(Me)
  BY <1>1, <1>4, AsidesInTurn, RoomChangesInTurn
<1>5. CASE \E e \in DOMAIN QueueEdits : QueueEdit(u, e)
  BY <1>1, <1>5, QueueEditInTurn
<1>6. CASE ChatSend(u)
  BY <1>1, <1>6, ChatInTurn
<1> QED
  BY <1>1, <1>2, <1>3, <1>4, <1>5, <1>6

LEMMA InTurnStep ==
  ASSUME Ranges, InTurn, [Next]_vars
  PROVE  InTurn'
<1>1. CASE Commands
  BY <1>1, CommandsInTurn
<1>2. CASE Requests
  BY <1>2, AsidesInTurn DEF Requests
<1>3. CASE Goings
  BY <1>3, ArrivesInTurn, LeavesInTurn DEF Goings
<1>4. CASE Handlers
  <2>1. ASSUME NEW u \in Users,
               \/ RoleApplied(u) \/ RoleAnnounced(u) \/ HostApplied(u) \/ HostAnnounced(u)
               \/ HostTold(u) \/ TargetTold(u) \/ DesignateAnnounced(u)
               \/ KickAnnounced(u) \/ ChatAnnounced(u) \/ QueueRead(u) \/ QueueAnnounced(u)
               \/ Greets(u)
        PROVE  InTurn'
    <3>1. CASE RoleApplied(u) \/ HostApplied(u)
      BY <3>1, RoleApplying, HostApplying, ApplyingInTurn DEF InTurn
    <3> QED
      BY <2>1, <3>1, RoleAnnouncedInTurn, TargetToldInTurn, HostAnnouncedInTurn, HostToldInTurn,
         RoomChangesInTurn, KickAnnouncedInTurn, ChatInTurn, QueueReadInTurn,
         QueueAnnouncedInTurn, GreetsInTurn
  <2>2. CASE \E p \in patches : PatchSaved(p) \/ PatchApplied(p) \/ PatchAnnounced(p)
    BY <2>2, AsidesInTurn, RoomChangesInTurn
  <2> QED
    BY <1>4, <2>1, <2>2, AttachesInTurn, ReadySentInTurn, DetachesInTurn DEF Handlers
<1>5. CASE Admitted
  BY <1>5, AdmittedInTurn
<1>6. CASE Receives \/ Refusal \/ Looking \/ UNCHANGED vars
  BY <1>6, ClientInTurn
<1> QED
  BY <1>1, <1>2, <1>3, <1>4, <1>5, <1>6, Steps DEF Serves

LEMMA InitInTurn == Init => InTurn
<1> SUFFICES ASSUME Init
             PROVE  InTurn
  OBVIOUS
<1>1. \A u \in Users : busy[u] = Idle /\ busy[u].at = "idle"
  BY DEF Init, MembersInit, Idle
<1>2. link = "down"
  BY DEF Init, MembersInit
<1>3. RolesInTurn
  BY <1>1, <1>2 DEF RolesInTurn, OneTells, Latest, LiveLatest, SessionLatest, Writing, Telling
<1>4. ListsInTurn /\ KicksBan /\ HeirsOther /\ NoReadyYet
  BY <1>1, <1>2 DEF ListsInTurn, Reading, KicksBan, HeirsOther, NoReadyYet
<1> QED
  BY <1>3, <1>4 DEF InTurn

------------------------------------------------------------------------------
(* What is on its way leads to the room as it is.                           *)

\* What holds of the store in which everything on the way will have been applied:
\* no list of the queue outruns the numbering;
Fresh(e) == e.queueVersion < numbered

\* once a snapshot has been sent, it knows the room, unless a change of it is still to
\* be announced;
Changing == Designating # {} \/ Applied # {}
Knows(e) == Told => e.me = Me /\ ("room" \notin crossed => e.room = info \/ Changing)

\* it has the queue, unless somebody is still to announce it;
SeesQueue(e) ==
  Sure /\ "queue" \notin crossed /\ ~Rereading /\ Reading = {} => e.queue = items

\* it lists whoever is here, but for those who are still to be announced;
SeesPeople(e) ==
  Sure => /\ DOMAIN e.people \subseteq DOMAIN live
          /\ \A u \in DOMAIN live : \/ rows[u].banned \/ u \in DOMAIN e.people
                                    \/ u # Me /\ busy[u].at = "greeting"

\* and as what, but for a change of roles that is still to be announced.
SeesRoles(e) ==
  Sure /\ "roles" \notin crossed =>
    /\ \A v \in DOMAIN e.people \cap DOMAIN live : e.people[v] = live[v] \/ Unlisted(v)
    /\ e.role = live[Me] \/ Pending(Me)

Foresees(e) == Fresh(e) /\ Knows(e) /\ SeesQueue(e) /\ SeesPeople(e) /\ SeesRoles(e)
Foreseen == \E e \in Stores : Leads(store, inbox, e) /\ Foresees(e)

\* What is to be announced of the room is the room, unless changes of it crossed.
RoomInTurn ==
  "room" \notin crossed => /\ \A u \in Designating : busy[u].room = info
                          /\ \A p \in Applied : p.room = info

\* A step that neither changes the room nor announces it.
RoomStays ==
  /\ info' = info /\ ("room" \in crossed' <=> "room" \in crossed)
  /\ Apart({"designated"}) /\ Applied' = Applied

LEMMA ChangingStays ==
  ASSUME RoomStays
  PROVE  /\ Designating' = Designating /\ \A u \in Designating : busy'[u] = busy[u]
         /\ Changing' <=> Changing
<1>1. Designating' = Designating /\ \A u \in Designating : busy'[u] = busy[u]
  BY DEF RoomStays, Apart, Designating
<1> QED
  BY <1>1 DEF RoomStays, Changing

LEMMA KnowsStays ==
  ASSUME RoomStays, NEW e, NEW f, Knows(e), Told' => Told, f.me = e.me, f.room = e.room
  PROVE  Knows(f)'
BY ChangingStays DEF RoomStays, Knows

LEMMA ToldStays ==
  ASSUME link' = link, Apart({"greeting"})
  PROVE  Told' <=> Told
BY Constants DEF Told, Apart

\* A client that has been told nothing is sure of nothing.
LEMMA DeafForesees ==
  ASSUME NEW e, Fresh(e)', ~Told'
  PROVE  Foresees(e)'
BY DEF Foresees, Knows, SeesQueue, SeesPeople, SeesRoles, Sure

\* Each part stays true under steps that leave alone what it is about.
LEMMA SeesQueueStays ==
  ASSUME NEW e, NEW f, SeesQueue(e), f.queue = e.queue, Sure' => Sure, Apart(QueueStages),
         items' = items, "queue" \notin crossed' => "queue" \notin crossed
  PROVE  SeesQueue(f)'
<1>1. Rereading' <=> Rereading
  BY DEF Rereading, Apart, QueueStages
<1>2. Reading' = Reading
  BY DEF Reading, Apart, QueueStages
<1> QED
  BY <1>1, <1>2 DEF SeesQueue

LEMMA SeesPeopleStays ==
  ASSUME Ranges, NEW e, NEW f, SeesPeople(e), f.people = e.people, Sure' => Sure,
         DOMAIN live' = DOMAIN live, Apart({"greeting"}),
         \A u \in Users : rows[u].banned => rows'[u].banned
  PROVE  SeesPeople(f)'
<1>1. DOMAIN live \subseteq Users
  BY DEF Ranges, Server, Present, Rosters
<1> QED
  BY <1>1 DEF SeesPeople, Apart

LEMMA MeHere ==
  ASSUME Ranges, Hears
  PROVE  Me \in DOMAIN live
BY DEF Ranges, Server, Connection, Present

LEMMA SureHears ==
  ASSUME Sure
  PROVE  Hears /\ Told /\ ~raced
BY DEF Sure, Told, Hears

\* A step that sends nothing.
LEMMA SilentForeseen ==
  ASSUME Foreseen, store' = store, inbox' = inbox,
         \A e \in Stores : Foresees(e) => Foresees(e)'
  PROVE  Foreseen'
BY DEF Foreseen

\* A step that sends one frame.
LEMMA SentForeseen ==
  ASSUME Ranges, Foreseen, store' = store, NEW m \in Frames, Broadcast(<<m>>), link' = link,
         \A e \in Stores : Fresh(e) => Fresh(e)',
         Hears => \A e, f \in Stores : f = Apply(e, m) /\ Foresees(e) => Foresees(f)'
  PROVE  Foreseen'
<1>1. PICK e \in Stores : Leads(store, inbox, e) /\ Foresees(e)
  BY DEF Foreseen
<1>2. CASE Hears
  <2>1. PICK f \in Stores : f = Apply(e, m) /\ Leads(store, inbox \o <<m>>, f)
    BY <1>1, LeadsNext, WorkIn DEF Wire
  <2>2. inbox' = inbox \o <<m>>
    BY <1>2 DEF Broadcast
  <2> QED
    BY <1>1, <1>2, <2>1, <2>2 DEF Foreseen
<1>3. CASE ~Hears
  <2>1. inbox' = inbox
    BY <1>3 DEF Broadcast
  <2>2. Fresh(e)' /\ ~Hears'
    BY <1>1, <1>3 DEF Foresees, Hears
  <2>3. ~Told'
    BY <2>2 DEF Told, Hears
  <2>4. Foresees(e)'
    BY <2>2, <2>3, DeafForesees
  <2> QED
    BY <1>1, <2>1, <2>4 DEF Foreseen
<1> QED
  BY <1>2, <1>3

\* A step of the chat, of the settings and the like: the people, their roles and
\* the queue stay as they are, and what the client makes of them.
LEMMA AsideForesees ==
  ASSUME Ranges, NEW e, NEW f, Foresees(e), Told' => Told, ~raced' => ~raced, Knows(f)',
         f.me = e.me, f.role = e.role, f.people = e.people, f.queue = e.queue,
         f.queueVersion = e.queueVersion,
         live' = live, items' = items, numbered' = numbered, NotTheRoom,
         \A u \in Users : rows[u].banned => rows'[u].banned,
         Apart({"greeting"}), Apart(RoleStages), Apart(QueueStages)
  PROVE  Foresees(f)'
<1>1. Sure' => Sure
  BY DEF Sure
<1>2. Fresh(f)'
  BY <1>1 DEF Foresees, Fresh
<1>3. SeesQueue(f)'
  BY <1>1, SeesQueueStays DEF Foresees, NotTheRoom
<1>4. SeesPeople(f)'
  BY <1>1, SeesPeopleStays DEF Foresees
<1>5. \A v \in Users : (Pending(v)' <=> Pending(v)) /\ (Unlisted(v)' <=> Unlisted(v))
  BY RolesApart
<1>6. DOMAIN live \subseteq Users /\ Me \in Users
  BY Constants DEF Ranges, Server, Present, Rosters
<1>7. SeesRoles(f)'
  BY <1>1, <1>5, <1>6 DEF Foresees, SeesRoles, NotTheRoom
<1> QED
  BY <1>2, <1>3, <1>4, <1>7 DEF Foresees

\* What somebody else's change of roles concerns stays pending.
LEMMA OthersPending ==
  ASSUME NEW u \in Users, \A x \in Users \ {u} : busy'[x] = busy[x]
  PROVE  \A v \in Users :
           /\ Pending(v) /\ ~((Writing(u) \/ Telling(u)) /\ Concerns(u, v)) => Pending(v)'
           /\ Unlisted(v) /\ ~((Writing(u) \/ Listing(u)) /\ Concerns(u, v)) => Unlisted(v)'
           /\ Written(v) /\ ~(Writing(u) /\ Concerns(u, v)) => Written(v)'
<1>1. \A x \in Users \ {u} :
        /\ Writing(x)' <=> Writing(x)
        /\ Telling(x)' <=> Telling(x)
        /\ Listing(x)' <=> Listing(x)
        /\ \A v \in Users : Concerns(x, v)' <=> Concerns(x, v)
  BY DEF Writing, Telling, Listing, Concerns
<1>2. \A v \in Users : Written(v) /\ ~(Writing(u) /\ Concerns(u, v)) => Written(v)'
  BY <1>1 DEF Written
<1>3. \A v \in Users : (\E w \in Users : Telling(w) /\ Concerns(w, v))
                         /\ ~(Telling(u) /\ Concerns(u, v))
                       => \E w \in Users : Telling(w)' /\ Concerns(w, v)'
  BY <1>1
<1>4. \A v \in Users : (\E w \in Users : Listing(w) /\ Concerns(w, v))
                         /\ ~(Listing(u) /\ Concerns(u, v))
                       => \E w \in Users : Listing(w)' /\ Concerns(w, v)'
  BY <1>1
<1> QED
  BY <1>2, <1>3, <1>4 DEF Pending, Unlisted

\* A change of roles starts.
LEMMA StartsForeseen ==
  ASSUME Ranges, RoomStays, Foreseen, store' = store, NEW u \in Users, NEW h, busy[u].at = "idle",
         busy' = [busy EXCEPT ![u] = h], h.at \in RoleStages,
         UNCHANGED <<live, info, items, numbered, inbox, raced, link, crossed>>,
         \A v \in Users : rows[v].banned => rows'[v].banned
  PROVE  Foreseen'
<1>1. /\ busy'[u] = h /\ \A x \in Users \ {u} : busy'[x] = busy[x]
      /\ Apart(QueueStages) /\ Apart({"greeting"})
  BY OneMoves, WorkIn DEF QueueStages, RoleStages
<1>2. \A v \in Users : (Pending(v) => Pending(v)') /\ (Unlisted(v) => Unlisted(v)')
  BY <1>1, OthersPending DEF Writing, Telling, Listing
<1>3. (Told' <=> Told) /\ (Sure' <=> Sure)
  BY <1>1, ToldStays DEF Sure
<1>4. ASSUME NEW e \in Stores, Foresees(e)
      PROVE  Foresees(e)'
  <2>1. Fresh(e)' /\ Knows(e)'
    BY <1>3, <1>4, KnowsStays DEF Foresees, Fresh
  <2>2. SeesQueue(e)'
    BY <1>1, <1>3, <1>4, SeesQueueStays DEF Foresees
  <2>3. SeesPeople(e)'
    BY <1>1, <1>3, <1>4, SeesPeopleStays DEF Foresees
  <2>4. DOMAIN live \subseteq Users /\ Me \in Users
    BY Constants DEF Ranges, Server, Present, Rosters
  <2>5. SeesRoles(e)'
    BY <1>2, <1>3, <1>4, <2>4 DEF Foresees, SeesRoles
  <2> QED
    BY <2>1, <2>2, <2>3, <2>5 DEF Foresees
<1> QED
  BY <1>4, SilentForeseen

LEMMA RolesStartForeseen ==
  ASSUME Ranges, RoomStays, Foreseen, store' = store, NEW u \in Users, NEW t \in Users, Ready(u),
         TransferHost(u, t) \/ \E role \in {Member, Cohost} : SetRole(u, t, role)
  PROVE  Foreseen'
<1>1. busy[u].at = "idle"
  BY ReadyIdle
<1>2. UNCHANGED <<live, info, items, numbered, inbox, raced, link, crossed>>
  BY DEF TransferHost, SetRole, Quietly, Silent
<1>3. \A v \in Users : rows'[v].banned = rows[v].banned
  <2>1. CASE TransferHost(u, t)
    <3>1. rows' = [rows EXCEPT ![u].role = Cohost,
                               ![t] = [@ EXCEPT !.role = Hosting, !.known = TRUE]]
      BY <2>1 DEF TransferHost
    <3> QED
      BY <3>1 DEF Ranges, Server, Rows
  <2>2. CASE \E role \in {Member, Cohost} : SetRole(u, t, role)
    BY <2>2 DEF SetRole, Ranges, Server, Rows
  <2> QED
    BY <2>1, <2>2
<1>4. CASE TransferHost(u, t)
  <2> DEFINE h == [at |-> "host_saved", target |-> t, role |-> Hosting]
  <2>1. busy' = [busy EXCEPT ![u] = h] /\ h.at \in RoleStages
    BY <1>4 DEF TransferHost, RoleStages
  <2> HIDE DEF h
  <2> QED
    BY <1>1, <1>2, <1>3, <2>1, StartsForeseen
<1>5. ASSUME NEW role \in {Member, Cohost}, SetRole(u, t, role)
      PROVE  Foreseen'
  <2> DEFINE h == [at |-> "role_saved", target |-> t, role |-> role]
  <2>1. busy' = [busy EXCEPT ![u] = h] /\ h.at \in RoleStages
    BY <1>5 DEF SetRole, RoleStages
  <2> HIDE DEF h
  <2> QED
    BY <1>1, <1>2, <1>3, <2>1, StartsForeseen
<1> QED
  BY <1>4, <1>5

\* A silent step that is none of the queue's, nor of roles or greetings.
LEMMA QuietForeseen ==
  ASSUME Ranges, RoomStays, Foreseen, store' = store,
         UNCHANGED <<live, info, items, numbered, inbox, raced, link, crossed>>,
         \A v \in Users : rows[v].banned => rows'[v].banned,
         Apart({"greeting"}), Apart(RoleStages), Apart(QueueStages)
  PROVE  Foreseen'
<1>1. \A e \in Stores : Foresees(e) => Foresees(e)'
  BY ToldStays, KnowsStays, AsideForesees DEF Foresees, NotTheRoom
<1> QED
  BY <1>1, SilentForeseen

\* One that sends a frame about the chat or the settings.
LEMMA FrameForeseen ==
  ASSUME Ranges, RoomStays, Foreseen, store' = store, NEW m \in Frames, Broadcast(<<m>>),
         m.t \notin {"ready", "participant_joined", "participant_left", "participant_updated",
                     "queue_updated", "permissions_updated", "room_updated"},
         UNCHANGED <<rows, live, items, numbered, link, crossed>>,
         Apart({"greeting"}), Apart(RoleStages), Apart(QueueStages)
  PROVE  Foreseen'
<1>1. ~raced' => ~raced
  BY WorkIn DEF Broadcast, Wire
<1>2. ASSUME NEW e \in Stores, NEW f \in Stores, f = Apply(e, m), Foresees(e)
      PROVE  Foresees(f)'
  <2>1. f.me = e.me /\ f.role = e.role /\ f.people = e.people /\ f.queue = e.queue
        /\ f.queueVersion = e.queueVersion /\ f.room = e.room
    BY <1>2, ApplyFields
  <2>2. Knows(f)'
    BY <1>2, <2>1, ToldStays, KnowsStays DEF Foresees
  <2> QED
    BY <1>1, <1>2, <2>1, <2>2, ToldStays, AsideForesees DEF NotTheRoom
<1>3. \A e \in Stores : Fresh(e) => Fresh(e)'
  BY DEF Fresh
<1> QED
  BY <1>2, <1>3, SentForeseen

LEMMA KickForeseen ==
  ASSUME Ranges, RoomStays, Foreseen, store' = store, NEW u \in Users, NEW t \in Users, Ready(u), Kick(u, t)
  PROVE  Foreseen'
<1> DEFINE h == [at |-> "kicked", target |-> t]
<1>1. busy[u].at = "idle" /\ busy' = [busy EXCEPT ![u] = h] /\ h.at = "kicked"
      /\ UNCHANGED <<live, info, items, numbered, inbox, raced, link, crossed>>
  BY ReadyIdle DEF Kick, Quietly, Silent
<1>2. Apart({"greeting"}) /\ Apart(RoleStages) /\ Apart(QueueStages)
  <2> HIDE DEF h
  <2> QED
    BY <1>1, OneMoves, WorkIn DEF RoleStages, QueueStages
<1>3. \A v \in Users : rows[v].banned => rows'[v].banned
  BY DEF Kick, Ranges, Server, Rows
<1> QED
  BY <1>1, <1>2, <1>3, QuietForeseen

LEMMA ChatForeseen ==
  ASSUME Ranges, RoomStays, Foreseen, store' = store, NEW u \in Users,
         (Ready(u) /\ ChatSend(u)) \/ ChatAnnounced(u)
  PROVE  Foreseen'
<1> USE DEF RoleStages, QueueStages
<1>1. CASE Ready(u) /\ ChatSend(u)
  <2> DEFINE h == [at |-> "said", message |-> log'[Len(log')]]
  <2>1. busy[u].at = "idle" /\ busy' = [busy EXCEPT ![u] = h] /\ h.at = "said"
    BY <1>1, ReadyIdle DEF ChatSend
  <2>2. UNCHANGED <<rows, live, info, items, numbered, inbox, raced, link, crossed>>
    BY <1>1 DEF ChatSend, Quietly, Silent
  <2> HIDE DEF h
  <2>3. Apart({"greeting"}) /\ Apart(RoleStages) /\ Apart(QueueStages)
    BY <2>1, OneMoves, WorkIn
  <2> QED
    BY <2>2, <2>3, QuietForeseen
<1>2. CASE ChatAnnounced(u)
  <2> DEFINE m == [t |-> "chat_message", message |-> busy[u].message]
  <2>1. busy[u].at = "said" /\ busy' = [busy EXCEPT ![u] = Idle] /\ Idle.at = "idle"
        /\ Broadcast(<<m>>) /\ UNCHANGED <<rows, live, info, items, numbered, link, crossed>>
    BY <1>2 DEF ChatAnnounced, Stays, Idle
  <2>2. m \in Frames /\ m.t = "chat_message"
    BY <2>1 DEF Ranges, Server, Work, WorkOf, Frames, ChatFrames
  <2> HIDE DEF m
  <2>3. Apart({"greeting"}) /\ Apart(RoleStages) /\ Apart(QueueStages)
    BY <2>1, OneMoves, WorkIn
  <2> QED
    BY <2>1, <2>2, <2>3, FrameForeseen
<1> QED
  BY <1>1, <1>2

LEMMA AsidesForeseen ==
  ASSUME Ranges, RoomStays, Foreseen, store' = store,
         \/ Ready(Me) /\ Refused(Me)
         \/ \E u \in Users : \E patch : PatchStarts(u, patch)
         \/ \E p \in patches : PatchSaved(p)
  PROVE  Foreseen'
<1>1. busy' = busy
  BY DEF Refused, PatchStarts, PatchSaved
<1>2. Apart({"greeting"}) /\ Apart(RoleStages) /\ Apart(QueueStages)
  BY <1>1 DEF Apart
<1>3. CASE Ready(Me) /\ Refused(Me)
  <2> DEFINE m == [t |-> "error"]
  <2>1. inbox' = Append(inbox, m) /\ link = "up" /\ inbox \in Seq(Frames)
        /\ UNCHANGED <<rows, live, info, items, numbered, link, crossed, raced>>
    BY <1>3, WorkIn DEF Refused, Ready, Wire
  <2>2. m \in Frames /\ m.t = "error"
    BY DEF Frames, ErrorFrames
  <2> HIDE DEF m
  <2>3. inbox' = inbox \o <<m>>
    BY <2>1, <2>2, AppendIsConcat
  <2>4. Broadcast(<<m>>)
    BY <2>1, <2>3, WorkIn DEF Broadcast, Hears, Wire
  <2> QED
    BY <1>2, <2>1, <2>2, <2>4, FrameForeseen
<1>4. CASE \/ \E u \in Users : \E patch : PatchStarts(u, patch)
           \/ \E p \in patches : PatchSaved(p)
  <2>1. UNCHANGED <<rows, live, info, items, numbered, inbox, raced, link, crossed>>
    BY <1>4 DEF PatchStarts, PatchSaved, Quietly, Silent
  <2> QED
    BY <1>2, <2>1, QuietForeseen
<1> QED
  BY <1>3, <1>4

\* A change of roles is applied: whom it concerns is now still to be told of.
LEMMA ApplyingForeseen ==
  ASSUME Ranges, RoomStays, Foreseen, store' = store, NEW u \in Users, Applying(u)
  PROVE  Foreseen'
<1>1. (Told' <=> Told) /\ (Sure' <=> Sure)
  BY ToldStays DEF Applying, Sure
<1>2. \A v \in DOMAIN live :
        v \in Users /\ \/ Pending(v)' /\ Unlisted(v)'
                       \/ live'[v] = live[v] /\ ~Concerns(u, v)
  <2>1. Telling(u)' => Listing(u)'
    BY DEF Applying, Telling, Listing
  <2> QED
    BY <2>1 DEF Applying, Pending, Unlisted, Ranges, Server, Present, Rosters
<1>3. \A v \in Users : ~Concerns(u, v) => /\ (Pending(v) => Pending(v)')
                                         /\ (Unlisted(v) => Unlisted(v)')
  BY OthersPending DEF Applying
<1>4. DOMAIN live' = DOMAIN live /\ ("roles" \notin crossed' => "roles" \notin crossed)
      /\ ("queue" \notin crossed' => "queue" \notin crossed)
  BY DEF Applying, RolesCross
<1>5. Sure => Me \in DOMAIN live
  BY SureHears, MeHere
<1>6. ASSUME NEW e \in Stores, Foresees(e)
      PROVE  Foresees(e)'
  <2>1. Fresh(e)' /\ Knows(e)'
    BY <1>1, <1>6, KnowsStays DEF Foresees, Fresh, Applying
  <2>2. SeesQueue(e)'
    BY <1>1, <1>4, <1>6, SeesQueueStays DEF Foresees, Applying
  <2>3. SeesPeople(e)'
    BY <1>1, <1>4, <1>6, SeesPeopleStays DEF Foresees, Applying
  <2>4. SeesRoles(e)'
    BY <1>1, <1>2, <1>3, <1>4, <1>5, <1>6 DEF Foresees, SeesRoles
  <2> QED
    BY <2>1, <2>2, <2>3, <2>4 DEF Foresees
<1> QED
  BY <1>6, SilentForeseen DEF Applying

\* Several frames are sent.
LEMMA SeveralForeseen ==
  ASSUME Ranges, Foreseen, store' = store, NEW s, Broadcast(s), link' = link, numbered' = numbered,
         Hears => \A e \in Stores : Leads(store, inbox, e) /\ Foresees(e) =>
                    \E f \in Stores : Leads(store, inbox \o s, f) /\ Foresees(f)'
  PROVE  Foreseen'
<1>1. PICK e \in Stores : Leads(store, inbox, e) /\ Foresees(e)
  BY DEF Foreseen
<1>2. CASE Hears
  <2>1. inbox' = inbox \o s
    BY <1>2 DEF Broadcast
  <2> QED
    BY <1>1, <1>2, <2>1 DEF Foreseen
<1>3. CASE ~Hears
  <2>1. inbox' = inbox /\ Fresh(e)' /\ ~Told'
    BY <1>1, <1>3 DEF Broadcast, Foresees, Fresh, Told, Hears
  <2>2. Foresees(e)'
    BY <2>1, DeafForesees
  <2> QED
    BY <1>1, <2>1, <2>2 DEF Foreseen
<1> QED
  BY <1>2, <1>3

\* Once a change has been told of, f shows whom it concerned as it says, and the rest as e did.
ShowsTold(u, e, f) ==
  /\ f.me = e.me /\ f.room = e.room /\ f.queue = e.queue /\ f.queueVersion = e.queueVersion
  /\ DOMAIN f.people = DOMAIN e.people
  /\ \A v \in DOMAIN e.people \cap DOMAIN live :
       \/ f.people[v] = live[v]
       \/ f.people[v] = e.people[v] /\ ~(Listing(u) /\ Concerns(u, v))
       \/ f.people[v] = Gives(u, v) /\ Concerns(u, v)
  /\ e.me = Me => \/ f.role = e.role /\ (Concerns(u, Me) => Telling(u)' /\ Concerns(u, Me)')
                  \/ f.role = Gives(u, Me) /\ Concerns(u, Me)

\* A change of roles is told of: whom it still concerned is shown as it says.
LEMMA TellingForesees ==
  ASSUME Ranges, RoomStays, InTurn, NEW u \in Users, NEW s \in Seq(Frames), Tells(u, s),
         link = "joining" => s # <<>>, NEW e, NEW f, Foresees(e), ShowsTold(u, e, f)
  PROVE  Foresees(f)'
<1>0. f.me = e.me /\ f.room = e.room /\ f.queue = e.queue /\ f.queueVersion = e.queueVersion
      /\ DOMAIN f.people = DOMAIN e.people
  BY DEF ShowsTold
<1>1. /\ Apart(QueueStages) /\ Apart({"greeting"})
      /\ \A x \in Users \ {u} : busy'[x] = busy[x]
      /\ Telling(u) /\ ~Writing(u) /\ UNCHANGED <<rows, live, items, numbered, link, crossed>>
  BY DEF Tells, Telling, Writing
<1>2. (Told' <=> Told) /\ (Sure' => Sure)
  BY <1>1, ToldStays, WorkIn DEF Sure, Tells, Broadcast, Wire
<1>3. Fresh(f)' /\ Knows(f)'
  BY <1>0, <1>1, <1>2, KnowsStays DEF Foresees, Fresh
<1>4. SeesQueue(f)'
  BY <1>0, <1>1, <1>2, SeesQueueStays DEF Foresees
<1>5. SeesPeople(f)'
  <2>1. DOMAIN live \subseteq Users
    BY DEF Ranges, Server, Present, Rosters
  <2> QED
    BY <1>0, <1>1, <1>2, <2>1 DEF Foresees, SeesPeople, Apart
<1>6. SeesRoles(f)'
  <2> SUFFICES ASSUME Sure, "roles" \notin crossed
               PROVE  /\ \A v \in DOMAIN e.people \cap DOMAIN live :
                           f.people[v] = live[v] \/ Unlisted(v)'
                      /\ f.role = live[Me] \/ Pending(Me)'
    BY <1>0, <1>1, <1>2 DEF SeesRoles
  <2>1. Hears /\ Told /\ ~raced /\ e.me = Me /\ Me \in DOMAIN live /\ Me \in Users
        /\ DOMAIN live \subseteq Users
    BY SureHears, MeHere, Constants DEF Foresees, Knows, Ranges, Server, Present, Rosters
  <2>2. /\ \A v \in DOMAIN e.people \cap DOMAIN live : e.people[v] = live[v] \/ Unlisted(v)
        /\ e.role = live[Me] \/ Pending(Me)
    BY DEF Foresees, SeesRoles
  <2>3. \A v \in DOMAIN live : Concerns(u, v) => Gives(u, v) = live[v] \/ Written(v)'
    <3>1. \A v \in DOMAIN live : Concerns(u, v) => Gives(u, v) = live[v] \/ Written(v)
      BY <1>1, <2>1 DEF InTurn, RolesInTurn, LiveLatest
    <3>2. \A v \in Users : Written(v) => Written(v)'
      BY <1>1, OthersPending
    <3> QED
      BY <2>1, <3>1, <3>2
  <2>4. \A v \in Users : /\ Written(v)' => Pending(v)' /\ Unlisted(v)'
                         /\ Pending(v) /\ ~Concerns(u, v) => Pending(v)'
                         /\ Unlisted(v) /\ ~(Listing(u) /\ Concerns(u, v)) => Unlisted(v)'
                         /\ Telling(u)' /\ Concerns(u, v)' => Pending(v)'
    BY <1>1, OthersPending DEF Pending, Unlisted
  <2>5. ASSUME NEW v \in DOMAIN e.people \cap DOMAIN live
        PROVE  f.people[v] = live[v] \/ Unlisted(v)'
    BY <2>1, <2>2, <2>3, <2>4 DEF ShowsTold
  <2>6. f.role = live[Me] \/ Pending(Me)'
    BY <2>1, <2>2, <2>3, <2>4 DEF ShowsTold
  <2> QED
    BY <2>5, <2>6
<1> QED
  BY <1>3, <1>4, <1>5, <1>6 DEF Foresees

\* A frame that tells of somebody's role, to everybody or to them.
LEMMA ToldForeseen ==
  ASSUME Ranges, RoomStays, InTurn, Foreseen, store' = store, NEW u \in Users,
         NEW m \in Frames, Tells(u, <<m>>), m.user \in Users, Concerns(u, m.user),
         m.role = Gives(u, m.user),
         \/ /\ m.t = "participant_updated"
            /\ \A v \in Users : Concerns(u, v) => v = m.user /\ Telling(u)' /\ Concerns(u, v)'
         \/ /\ m.t = "permissions_updated" /\ ~Listing(u)
            /\ Concerns(u, Me) => m.user = Me \/ (Telling(u)' /\ Concerns(u, Me)')
  PROVE  Foreseen'
<1> DEFINE s == <<m>>
<1>1. s \in Seq(Frames) /\ s # <<>> /\ Tells(u, s)
  OBVIOUS
<1> HIDE DEF s
<1>2. DOMAIN live \subseteq Users /\ Me \in Users
  BY Constants DEF Ranges, Server, Present, Rosters
<1>3. ASSUME NEW e \in Stores, NEW f \in Stores, f = Apply(e, m), Foresees(e)
      PROVE  Foresees(f)'
  <2>1. f.me = e.me /\ f.room = e.room /\ f.queue = e.queue /\ f.queueVersion = e.queueVersion
    BY <1>3, ApplyFields
  <2>2. CASE m.t = "participant_updated"
    <3>1. f.role = e.role
      BY <1>3, <2>2, ApplyFields
    <3>2. f.people = IF m.user \in DOMAIN e.people THEN [e.people EXCEPT ![m.user] = m.role]
                     ELSE e.people
      BY <1>3, <2>2, ApplyPeople
    <3>3. e.people = [v \in DOMAIN e.people |-> e.people[v]]
      <4>1. e.people \in Rosters
        BY DEF Stores
      <4> QED
        BY <4>1 DEF Rosters
    <3>4. /\ DOMAIN f.people = DOMAIN e.people
          /\ \A v \in DOMAIN e.people :
               f.people[v] = IF v = m.user THEN m.role ELSE e.people[v]
      BY <3>2, <3>3
    <3>5. \A v \in DOMAIN e.people \cap DOMAIN live :
            \/ f.people[v] = e.people[v] /\ ~(Listing(u) /\ Concerns(u, v))
            \/ f.people[v] = Gives(u, v) /\ Concerns(u, v)
      BY <1>2, <2>2, <3>4
    <3>6. Concerns(u, Me) => Telling(u)' /\ Concerns(u, Me)'
      BY <1>2, <2>2
    <3>7. ShowsTold(u, e, f)
      BY <2>1, <3>1, <3>4, <3>5, <3>6 DEF ShowsTold
    <3> QED
      BY <1>1, <1>3, <2>1, <3>7, TellingForesees
  <2>3. CASE m.t = "permissions_updated" /\ ~Listing(u)
                 /\ (Concerns(u, Me) => m.user = Me \/ (Telling(u)' /\ Concerns(u, Me)'))
    <3>1. f.people = e.people /\ f.role = IF m.user = e.me THEN m.role ELSE e.role
      BY <1>3, <2>3, ApplyFields, ApplySets
    <3>2. e.me = Me => \/ f.role = e.role /\ (Concerns(u, Me) => Telling(u)' /\ Concerns(u, Me)')
                       \/ f.role = Gives(u, Me) /\ Concerns(u, Me)
      BY <2>3, <3>1
    <3>3. ShowsTold(u, e, f)
      BY <2>1, <2>3, <3>1, <3>2 DEF ShowsTold
    <3> QED
      BY <1>1, <1>3, <2>1, <3>3, TellingForesees
  <2> QED
    BY <2>2, <2>3
<1>4. \A e \in Stores : Fresh(e) => Fresh(e)'
  BY DEF Fresh, Tells
<1> QED
  BY <1>3, <1>4, SentForeseen DEF Tells

LEMMA RoleAnnouncedForeseen ==
  ASSUME Ranges, RoomStays, InTurn, Foreseen, store' = store, NEW u \in Users, RoleAnnounced(u)
  PROVE  Foreseen'
<1> DEFINE m == ToTarget(u)
<1>1. /\ busy[u].at = "role_applied" /\ busy' = [busy EXCEPT ![u] = [busy[u] EXCEPT !.at = "role_told"]]
      /\ busy[u] \in [at : {"role_saved", "role_applied", "role_told"}, target : Users, role : RoomRole]
  BY DEF RoleAnnounced, Ranges, Server, Work, WorkOf
<1>2. m \in Frames /\ m.t = "participant_updated" /\ m.user = busy[u].target /\ m.role = busy[u].role
  BY <1>1, ToTargetFrame DEF Frames
<1>3. Tells(u, <<m>>)
  BY RoleAnnouncedTells
<1>4. busy'[u].at = "role_told" /\ busy'[u].target = busy[u].target
  BY <1>1, WorkIn DEF Work
<1>5. \A v \in Users : (Concerns(u, v) <=> v = busy[u].target) /\ (Concerns(u, v)' <=> v = busy[u].target)
  BY <1>1, <1>4 DEF Concerns
<1>6. Telling(u)' /\ Gives(u, busy[u].target) = busy[u].role /\ busy[u].target \in Users
  BY <1>1, <1>4 DEF Telling, Gives
<1> HIDE DEF m
<1> QED
  BY <1>2, <1>3, <1>5, <1>6, ToldForeseen

LEMMA TargetToldForeseen ==
  ASSUME Ranges, RoomStays, InTurn, Foreseen, store' = store, NEW u \in Users, TargetTold(u)
  PROVE  Foreseen'
<1> DEFINE m == Entitlement(busy[u].target, busy[u].role)
<1>1. busy[u].at = "role_told" /\ Tells(u, <<m>>)
  BY TargetToldTells DEF TargetTold
<1>2. m \in Frames /\ m.t = "permissions_updated" /\ m.user = busy[u].target /\ m.role = busy[u].role
      /\ busy[u].target \in Users
  BY <1>1, ToTargetFrame DEF Frames, AuthorityFrames
<1>3. \A v \in Users : Concerns(u, v) <=> v = busy[u].target
  BY <1>1 DEF Concerns
<1>4. ~Listing(u) /\ Gives(u, busy[u].target) = busy[u].role
  BY <1>1 DEF Listing, Gives
<1> HIDE DEF m
<1> QED
  BY <1>1, <1>2, <1>3, <1>4, Constants, ToldForeseen

\* The whole list, applied one after the other: after k of them, the people they
\* are about are shown as they are.
LEMMA ListApplied ==
  ASSUME Ranges, NEW e \in Stores
  PROVE  \E more \in [0 .. Len(WholeList) -> Stores] :
           /\ more[0] = e /\ \A i \in 1 .. Len(WholeList) : more[i] = Apply(more[i - 1], WholeList[i])
           /\ LET g == more[Len(WholeList)]
              IN  /\ g.me = e.me /\ g.room = e.room /\ g.queue = e.queue /\ g.role = e.role
                  /\ g.queueVersion = e.queueVersion /\ DOMAIN g.people = DOMAIN e.people
                  /\ \A v \in DOMAIN e.people \cap DOMAIN live : g.people[v] = live[v]
<1> DEFINE n == Len(WholeList)
           Put(p) == [me |-> e.me, role |-> e.role, perms |-> e.perms, room |-> e.room,
                      people |-> p, queue |-> e.queue, queueVersion |-> e.queueVersion,
                      messages |-> e.messages, kicked |-> e.kicked,
                      lastError |-> e.lastError, unread |-> e.unread]
           P(k) == [x \in DOMAIN e.people |->
                      IF \E j \in 1 .. k : WholeList[j].user = x THEN live[x] ELSE e.people[x]]
           more == [k \in 0 .. n |-> Put(P(k))]
<1>1. /\ n \in Nat /\ DOMAIN WholeList = 1 .. n
      /\ \A i \in 1 .. n : /\ WholeList[i] \in Frames /\ WholeList[i].t = "participant_updated"
                           /\ WholeList[i].user \in DOMAIN live
                           /\ WholeList[i].role = live[WholeList[i].user]
      /\ \A x \in DOMAIN live : \E i \in 1 .. n : WholeList[i].user = x
  <2>1. Server
    BY DEF Ranges
  <2>2. WholeList \in Seq(Frames)
    BY <2>1, WholeListFrames
  <2>3. n \in Nat /\ DOMAIN WholeList = 1 .. n /\ \A i \in 1 .. n : WholeList[i] \in Frames
    BY <2>2
  <2> QED
    BY <2>1, <2>3, WholeListFrames
<1> HIDE DEF n
<1>2. e.people \in Rosters /\ \A x \in DOMAIN live : live[x] \in RoomRole
  BY DEF Stores, Ranges, Server, Present, Rosters
<1>3. \A p : \A q : [Put(p) EXCEPT !.people = q] = Put(q)
  OBVIOUS
<1>4. /\ \A p \in Rosters : Put(p) \in Stores
      /\ Put(e.people) = e
      /\ \A p : Put(p).people = p
  BY DEF Stores
<1>5. \A p : /\ Put(p).me = e.me /\ Put(p).room = e.room /\ Put(p).queue = e.queue
             /\ Put(p).role = e.role /\ Put(p).queueVersion = e.queueVersion
  OBVIOUS
<1> HIDE DEF Put
<1>6. \A k \in 0 .. n : P(k) \in Rosters
  <2> TAKE k \in 0 .. n
  <2>1. DOMAIN e.people \subseteq Users /\ \A x \in DOMAIN e.people : e.people[x] \in RoomRole
    BY <1>2 DEF Rosters
  <2>2. \A x \in DOMAIN e.people :
          (IF \E j \in 1 .. k : WholeList[j].user = x THEN live[x] ELSE e.people[x]) \in RoomRole
    <3>1. \A j \in 1 .. k : j \in 1 .. n
      BY <1>1
    <3> QED
      BY <1>1, <1>2, <2>1, <3>1
  <2>3. P(k) \in [DOMAIN e.people -> RoomRole]
    BY <2>2
  <2> HIDE DEF P
  <2> QED
    BY <2>1, <2>3 DEF Rosters
<1>7. P(0) = e.people
  <2>1. e.people = [x \in DOMAIN e.people |-> e.people[x]]
    BY <1>2 DEF Rosters
  <2> QED
    BY <2>1
<1>8. ASSUME NEW i \in 1 .. n
      PROVE  P(i) = IF WholeList[i].user \in DOMAIN P(i - 1)
                    THEN [P(i - 1) EXCEPT ![WholeList[i].user] = WholeList[i].role]
                    ELSE P(i - 1)
  <2>1. \A x : (\E j \in 1 .. i : WholeList[j].user = x)
                 <=> (\E j \in 1 .. i - 1 : WholeList[j].user = x) \/ WholeList[i].user = x
    <3>1. 1 .. i = (1 .. i - 1) \cup {i}
      BY <1>1
    <3> QED
      BY <3>1
  <2>2. DOMAIN P(i - 1) = DOMAIN e.people
    OBVIOUS
  <2>3. CASE WholeList[i].user \in DOMAIN e.people
    BY <1>1, <2>1, <2>2, <2>3
  <2>4. CASE WholeList[i].user \notin DOMAIN e.people
    BY <1>1, <2>1, <2>2, <2>4
  <2> QED
    BY <2>2, <2>3, <2>4
<1>9. DOMAIN P(n) = DOMAIN e.people
      /\ \A v \in DOMAIN e.people \cap DOMAIN live : P(n)[v] = live[v]
  BY <1>1
<1> HIDE DEF P
<1>10. more \in [0 .. n -> Stores] /\ more[0] = e /\ more[n] = Put(P(n))
       /\ \A i \in 0 .. n : more[i] = Put(P(i))
  <2>1. 0 \in 0 .. n /\ n \in 0 .. n
    BY <1>1
  <2> QED
    BY <1>4, <1>6, <1>7, <2>1
<1>11. \A i \in 1 .. n : more[i] = Apply(more[i - 1], WholeList[i])
  <2> TAKE i \in 1 .. n
  <2> DEFINE m == WholeList[i]
             q == P(i - 1)
  <2>1. i \in 0 .. n /\ i - 1 \in 0 .. n /\ m.t = "participant_updated"
    BY <1>1
  <2>2. more[i - 1] = Put(q) /\ Put(q).people = q
    BY <1>4, <1>10, <2>1
  <2>3. Apply(Put(q), m) = ApplyUpdated(Put(q), m)
    BY <2>1 DEF Apply
  <2>4. ApplyUpdated(Put(q), m) =
          IF m.user \in DOMAIN q THEN [Put(q) EXCEPT !.people = [q EXCEPT ![m.user] = m.role]]
          ELSE Put(q)
    BY <2>2 DEF ApplyUpdated
  <2>5. P(i) = IF m.user \in DOMAIN q THEN [q EXCEPT ![m.user] = m.role] ELSE q
    BY <1>8
  <2>6. Put(P(i)) = ApplyUpdated(Put(q), m)
    <3> HIDE DEF m, q
    <3>1. CASE m.user \in DOMAIN q
      BY <1>3, <2>4, <2>5, <3>1
    <3>2. CASE m.user \notin DOMAIN q
      BY <2>4, <2>5, <3>2
    <3> QED
      BY <3>1, <3>2
  <2>7. more[i] = Put(P(i))
    BY <1>10, <2>1
  <2> QED
    BY <2>2, <2>3, <2>6, <2>7
<1>12. LET g == more[n]
       IN  /\ g.me = e.me /\ g.room = e.room /\ g.queue = e.queue /\ g.role = e.role
           /\ g.queueVersion = e.queueVersion /\ DOMAIN g.people = DOMAIN e.people
           /\ \A v \in DOMAIN e.people \cap DOMAIN live : g.people[v] = live[v]
  <2> HIDE DEF more
  <2>1. more[n] = Put(P(n)) /\ Put(P(n)).people = P(n)
    BY <1>4, <1>10
  <2>2. /\ Put(P(n)).me = e.me /\ Put(P(n)).room = e.room /\ Put(P(n)).queue = e.queue
        /\ Put(P(n)).role = e.role /\ Put(P(n)).queueVersion = e.queueVersion
    BY <1>5
  <2> QED
    BY <1>9, <2>1, <2>2
<1> HIDE DEF more
<1> QED
  BY <1>10, <1>11, <1>12 DEF n

LEMMA HostAnnouncedForeseen ==
  ASSUME Ranges, RoomStays, InTurn, Foreseen, store' = store, NEW u \in Users, HostAnnounced(u)
  PROVE  Foreseen'
<1>1. WholeList \in Seq(Frames) /\ (link = "joining" => WholeList # <<>>)
  BY WholeListFrames DEF Ranges, Server, Connection, Hears, Present
<1>2. Tells(u, WholeList)
  BY HostAnnouncedTells DEF InTurn
<1>3. /\ busy[u].at = "host_applied" /\ busy' = [busy EXCEPT ![u] = [busy[u] EXCEPT !.at = "host_told"]]
      /\ busy[u] \in [at : {"host_saved", "host_applied", "host_told"}, target : Users, role : {Hosting}]
  BY DEF HostAnnounced, Ranges, Server, Work, WorkOf
<1>4. busy'[u].at = "host_told" /\ busy'[u].target = busy[u].target
  BY <1>3, WorkIn DEF Work
<1>5. Telling(u)' /\ (Concerns(u, Me) => Concerns(u, Me)')
  BY <1>3, <1>4 DEF Telling, Concerns
<1>6. ASSUME NEW e \in Stores, Leads(store, inbox, e), Foresees(e)
      PROVE  \E f \in Stores : Leads(store, inbox \o WholeList, f) /\ Foresees(f)'
  <2>1. inbox \in Seq(Frames)
    BY WorkIn DEF Wire
  <2>2. PICK more \in [0 .. Len(WholeList) -> Stores] :
          /\ more[0] = e /\ \A i \in 1 .. Len(WholeList) : more[i] = Apply(more[i - 1], WholeList[i])
          /\ LET g == more[Len(WholeList)]
             IN  /\ g.me = e.me /\ g.room = e.room /\ g.queue = e.queue /\ g.role = e.role
                 /\ g.queueVersion = e.queueVersion /\ DOMAIN g.people = DOMAIN e.people
                 /\ \A v \in DOMAIN e.people \cap DOMAIN live : g.people[v] = live[v]
    BY ListApplied
  <2>3. PICK g \in Stores : g = more[Len(WholeList)]
    <3>1. Len(WholeList) \in 0 .. Len(WholeList)
      BY <1>1
    <3> QED
      BY <2>2, <3>1
  <2>4. Leads(store, inbox \o WholeList, g)
    BY <1>1, <1>6, <2>1, <2>2, <2>3, LeadsOn
  <2>5. Foresees(g)'
    <3>1. ShowsTold(u, e, g)
      BY <1>2, <1>5, <1>6, <2>2, <2>3 DEF ShowsTold
    <3> QED
      BY <1>1, <1>2, <1>5, <1>6, <3>1, TellingForesees
  <2> QED
    BY <2>4, <2>5
<1> QED
  BY <1>2, <1>6, SeveralForeseen DEF Tells

LEMMA HostToldForeseen ==
  ASSUME Ranges, RoomStays, InTurn, Foreseen, store' = store, NEW u \in Users, HostTold(u)
  PROVE  Foreseen'
<1> DEFINE m == ToLeaver(u)
<1>1. /\ busy[u].at = "host_told" /\ busy' = [busy EXCEPT ![u].at = "role_told"]
      /\ busy[u] \in [at : {"host_saved", "host_applied", "host_told"}, target : Users, role : {Hosting}]
  BY DEF HostTold, Ranges, Server, Work, WorkOf
<1>2. Tells(u, <<m>>)
  BY HostToldTells
<1>3. m \in Frames /\ m.t = "permissions_updated" /\ m.user = u /\ m.role = Cohost
  BY ToLeaverFrame DEF Frames, AuthorityFrames
<1>4. busy'[u].at = "role_told" /\ busy'[u].target = busy[u].target
  BY <1>1, WorkIn DEF Work
<1>5. busy[u].target # u
  BY <1>1 DEF InTurn, HeirsOther
<1>6. /\ \A v \in Users : Concerns(u, v) => v = u \/ Concerns(u, v)'
      /\ Concerns(u, u) /\ Gives(u, u) = Cohost /\ Telling(u)' /\ ~Listing(u)
  BY <1>1, <1>4, <1>5 DEF Concerns, Gives, Telling, Listing
<1> HIDE DEF m
<1> QED
  BY <1>2, <1>3, <1>6, Constants, ToldForeseen

\* Somebody has left, or is removed and stays.
LEMMA LeftForeseen ==
  ASSUME Ranges, RoomStays, Foreseen, store' = store, NEW w \in Users,
         Broadcast(<<[t |-> "participant_left", user |-> w]>>),
         UNCHANGED <<rows, info, items, numbered, link, crossed>>,
         Apart({"greeting"}), Apart(RoleStages), Apart(QueueStages),
         \A v \in DOMAIN live' : v \in DOMAIN live /\ live'[v] = live[v],
         \A v \in DOMAIN live \ {w} : v \in DOMAIN live',
         w \in DOMAIN live' => rows[w].banned, w # Me \/ live' = live
  PROVE  Foreseen'
<1> DEFINE m == [t |-> "participant_left", user |-> w]
<1>1. m \in Frames /\ m.t = "participant_left" /\ m.user = w /\ Broadcast(<<m>>)
  BY DEF Frames, LeftFrames
<1> HIDE DEF m
<1>2. (Told' <=> Told) /\ (Sure' => Sure)
  BY <1>1, ToldStays, WorkIn DEF Sure, Broadcast, Wire
<1>3. DOMAIN live \subseteq Users /\ Me \in Users /\ (Sure => Me \in DOMAIN live)
  BY SureHears, MeHere, Constants DEF Ranges, Server, Present, Rosters
<1>4. \A v \in Users : (Pending(v)' <=> Pending(v)) /\ (Unlisted(v)' <=> Unlisted(v))
  BY RolesApart
<1>5. ASSUME NEW e \in Stores, NEW f \in Stores, f = Apply(e, m), Foresees(e)
      PROVE  Foresees(f)'
  <2> DEFINE Less(x) == [u \in DOMAIN e.people \ {x} |-> e.people[u]]
  <2>0. f.people = Less(m.user)
    BY <1>1, <1>5, ApplyPeople
  <2> HIDE DEF Less
  <2>1. /\ f.me = e.me /\ f.role = e.role /\ f.room = e.room /\ f.queue = e.queue
        /\ f.queueVersion = e.queueVersion /\ f.people = Less(w)
    BY <1>1, <1>5, <2>0, ApplyFields
  <2> USE DEF Less
  <2>2. Fresh(f)' /\ Knows(f)'
    BY <1>2, <1>5, <2>1, KnowsStays DEF Foresees, Fresh
  <2>3. SeesQueue(f)'
    BY <1>2, <1>5, <2>1, SeesQueueStays DEF Foresees
  <2>4. SeesPeople(f)'
    BY <1>2, <1>3, <1>5, <2>1 DEF Foresees, SeesPeople, Apart
  <2>5. SeesRoles(f)'
    BY <1>2, <1>3, <1>4, <1>5, <2>1 DEF Foresees, SeesRoles
  <2> QED
    BY <2>2, <2>3, <2>4, <2>5 DEF Foresees
<1>6. \A e \in Stores : Fresh(e) => Fresh(e)'
  BY DEF Fresh
<1> QED
  BY <1>1, <1>5, <1>6, SentForeseen

LEMMA KickAnnouncedForeseen ==
  ASSUME Ranges, RoomStays, InTurn, Foreseen, store' = store, NEW u \in Users, KickAnnounced(u)
  PROVE  Foreseen'
<1>1. /\ busy[u].at = "kicked" /\ Broadcast(<<[t |-> "participant_left", user |-> busy[u].target]>>)
      /\ busy' = [busy EXCEPT ![u] = Idle] /\ Idle.at = "idle"
      /\ UNCHANGED <<rows, live, info, items, numbered, link, crossed>>
  BY DEF KickAnnounced, Stays, Idle
<1>2. Apart({"greeting"}) /\ Apart(RoleStages) /\ Apart(QueueStages)
  BY <1>1, OneMoves, WorkIn DEF RoleStages, QueueStages
<1>3. busy[u].target \in Users /\ rows[busy[u].target].banned
  BY <1>1, WorkIn DEF InTurn, KicksBan
<1> QED
  BY <1>1, <1>2, <1>3, LeftForeseen

LEMMA LeavesForeseen ==
  ASSUME Ranges, RoomStays, Foreseen, store' = store, NEW u \in Users \ {Me}, Leaves(u)
  PROVE  Foreseen'
<1>1. /\ Broadcast(<<[t |-> "participant_left", user |-> u]>>) /\ busy' = busy
      /\ live' = [x \in DOMAIN live \ {u} |-> live[x]]
      /\ UNCHANGED <<rows, info, items, numbered, link, crossed>>
  BY DEF Leaves
<1>2. Apart({"greeting"}) /\ Apart(RoleStages) /\ Apart(QueueStages)
  BY <1>1 DEF Apart
<1>3. u \notin DOMAIN live' /\ (\A v \in DOMAIN live' : v \in DOMAIN live /\ live'[v] = live[v])
      /\ \A v \in DOMAIN live \ {u} : v \in DOMAIN live'
  BY <1>1
<1> QED
  BY <1>1, <1>2, <1>3, LeftForeseen

\* Somebody has come, and is announced afterwards.
LEMMA ArrivesForeseen ==
  ASSUME Ranges, RoomStays, Foreseen, store' = store, NEW u \in Users \ {Me}, Arrives(u)
  PROVE  Foreseen'
<1> DEFINE h == [at |-> "greeting"]
<1>1. /\ busy[u].at = "idle" /\ busy' = [busy EXCEPT ![u] = h] /\ live' = With(live, u, RoleOf(u))
      /\ rows' = [rows EXCEPT ![u] = [@ EXCEPT !.role = RoleOf(u), !.known = TRUE]]
      /\ u \notin DOMAIN live
      /\ UNCHANGED <<info, items, numbered, inbox, raced, link, crossed>>
  BY DEF Arrives, Quietly, Silent, Idle
<1>2. /\ busy'[u] = h /\ \A x \in Users \ {u} : busy'[x] = busy[x]
      /\ Apart(QueueStages) /\ Apart(RoleStages)
  BY <1>1, OneMoves, WorkIn DEF QueueStages, RoleStages
<1>3. \A v \in Users : rows[v].banned => rows'[v].banned
  BY <1>1 DEF Ranges, Server, Rows
<1>4. DOMAIN live' = DOMAIN live \cup {u} /\ \A v \in DOMAIN live : live'[v] = live[v]
  BY <1>1 DEF With
<1>5. busy'[Me] = busy[Me] /\ Me \in Users
  BY <1>2, Constants
<1>6. (Told' <=> Told) /\ (Sure' <=> Sure)
  BY <1>1, <1>5 DEF Told, Sure
<1>7. DOMAIN live \subseteq Users /\ (Sure => Me \in DOMAIN live)
  BY SureHears, MeHere DEF Ranges, Server, Present, Rosters
<1>8. \A v \in Users : (Pending(v)' <=> Pending(v)) /\ (Unlisted(v)' <=> Unlisted(v))
  BY <1>2, RolesApart
<1>9. ASSUME NEW e \in Stores, Foresees(e)
      PROVE  Foresees(e)'
  <2>1. Fresh(e)' /\ Knows(e)'
    BY <1>1, <1>6, <1>9, KnowsStays DEF Foresees, Fresh
  <2>2. SeesQueue(e)'
    BY <1>1, <1>2, <1>6, <1>9, SeesQueueStays DEF Foresees
  <2>3. SeesPeople(e)'
    <3>1. \A v \in Users : v # u /\ busy[v].at = "greeting" => busy'[v].at = "greeting"
      BY <1>2
    <3>2. busy'[u].at = "greeting" /\ u # Me
      BY <1>2
    <3> HIDE DEF h
    <3> QED
      BY <1>3, <1>4, <1>6, <1>7, <1>9, <3>1, <3>2 DEF Foresees, SeesPeople
  <2>4. SeesRoles(e)'
    BY <1>1, <1>4, <1>6, <1>7, <1>8, <1>9, <1>5 DEF Foresees, SeesRoles, SeesPeople
  <2> QED
    BY <2>1, <2>2, <2>3, <2>4 DEF Foresees
<1> QED
  BY <1>1, <1>9, SilentForeseen

LEMMA GreetsForeseen ==
  ASSUME Ranges, RoomStays, Foreseen, store' = store, NEW u \in Users, Greets(u)
  PROVE  Foreseen'
<1> DEFINE m == [t |-> "participant_joined", user |-> u, role |-> live[u]]
<1>1. u # Me /\ busy[u].at = "greeting" /\ busy' = [busy EXCEPT ![u] = Idle] /\ Idle.at = "idle"
      /\ Broadcast(<<m>>) /\ UNCHANGED <<rows, live, info, items, numbered, link, crossed>>
  BY DEF Greets, Stays, Idle
<1>2. u \in DOMAIN live
  BY <1>1 DEF Ranges, Server, Present, Idle
<1>3. m \in Frames /\ m.t = "participant_joined" /\ m.user = u /\ m.role = live[u]
  <2>1. live[u] \in RoomRole
    BY <1>2 DEF Ranges, Server, Present, Rosters
  <2> QED
    BY <2>1 DEF Frames, PersonFrames
<1> HIDE DEF m
<1>4. /\ busy'[u] = Idle /\ \A x \in Users \ {u} : busy'[x] = busy[x]
      /\ Apart(QueueStages) /\ Apart(RoleStages)
  BY <1>1, OneMoves, WorkIn DEF QueueStages, RoleStages
<1>5. (Told' <=> Told) /\ (Sure' => Sure)
  <2>1. busy'[Me] = busy[Me] /\ (~raced' => ~raced)
    BY <1>1, <1>4, WorkIn, Constants DEF Broadcast, Wire
  <2> QED
    BY <1>1, <2>1 DEF Told, Sure
<1>6. DOMAIN live \subseteq Users /\ Me \in Users
  BY Constants DEF Ranges, Server, Present, Rosters
<1>7. \A v \in Users : (Pending(v)' <=> Pending(v)) /\ (Unlisted(v)' <=> Unlisted(v))
  BY <1>4, RolesApart
<1>8. ASSUME NEW e \in Stores, NEW f \in Stores, f = Apply(e, m), Foresees(e)
      PROVE  Foresees(f)'
  <2> DEFINE Joining(x, r) == IF x \in DOMAIN e.people THEN e.people ELSE With(e.people, x, r)
  <2>0. f.people = Joining(m.user, m.role)
    BY <1>3, <1>8, ApplyPeople
  <2> HIDE DEF Joining
  <2>1. /\ f.me = e.me /\ f.role = e.role /\ f.room = e.room /\ f.queue = e.queue
        /\ f.queueVersion = e.queueVersion /\ f.people = Joining(u, live[u])
    BY <1>3, <1>8, <2>0, ApplyFields
  <2>2. /\ DOMAIN f.people = DOMAIN e.people \cup {u}
        /\ \A v \in DOMAIN e.people : f.people[v] = e.people[v]
        /\ u \notin DOMAIN e.people => f.people[u] = live[u]
    BY <2>1 DEF With, Joining
  <2>3. Fresh(f)' /\ Knows(f)'
    BY <1>1, <1>5, <1>8, <2>1, KnowsStays DEF Foresees, Fresh
  <2>4. SeesQueue(f)'
    BY <1>1, <1>4, <1>5, <1>8, <2>1, SeesQueueStays DEF Foresees
  <2>5. SeesPeople(f)'
    BY <1>1, <1>2, <1>4, <1>5, <1>6, <1>8, <2>2 DEF Foresees, SeesPeople
  <2>6. SeesRoles(f)'
    BY <1>1, <1>5, <1>6, <1>7, <1>8, <2>1, <2>2 DEF Foresees, SeesRoles
  <2> QED
    BY <2>3, <2>4, <2>5, <2>6 DEF Foresees
<1>9. \A e \in Stores : Fresh(e) => Fresh(e)'
  BY <1>1 DEF Fresh
<1> QED
  BY <1>1, <1>3, <1>8, <1>9, SentForeseen

\* The queue is saved, or read: it is still to be announced.
LEMMA QueueForeseen ==
  ASSUME Ranges, RoomStays, Foreseen, store' = store, NEW u \in Users,
         QueueRead(u) \/ (Ready(u) /\ \E e \in DOMAIN QueueEdits : QueueEdit(u, e))
  PROVE  Foreseen'
<1>1. /\ busy[u].at \in {"idle", "queue_saved"} /\ \A x \in Users \ {u} : busy'[x] = busy[x]
      /\ busy'[u].at \in QueueStages
      /\ UNCHANGED <<rows, live, info, numbered, inbox, raced, link, crossed>>
  <2>1. CASE QueueRead(u)
    <3>1. busy'[u] = [at |-> "queue_read", list |-> items, before |-> Reading]
          /\ \A x \in Users \ {u} : busy'[x] = busy[x]
      BY <2>1, WorkIn DEF QueueRead, Work
    <3>2. busy'[u].at = "queue_read" /\ busy[u].at = "queue_saved"
      BY <2>1, <3>1 DEF QueueRead
    <3> QED
      BY <2>1, <3>1, <3>2 DEF QueueRead, Quietly, Silent, Stays, QueueStages
  <2>2. CASE Ready(u) /\ \E e \in DOMAIN QueueEdits : QueueEdit(u, e)
    <3>1. busy'[u] = [at |-> "queue_saved"] /\ \A x \in Users \ {u} : busy'[x] = busy[x]
      BY <2>2, WorkIn DEF QueueEdit, Work
    <3> QED
      BY <2>2, <3>1, ReadyIdle DEF QueueEdit, Quietly, Silent, QueueStages
  <2> QED
    BY <2>1, <2>2
<1>2. Apart({"greeting"}) /\ Apart(RoleStages) /\ (Rereading' \/ Reading' # {})
  BY <1>1 DEF Apart, QueueStages, RoleStages, Rereading, Reading
<1>3. (Told' <=> Told) /\ (Sure' <=> Sure)
  BY <1>1, <1>2, ToldStays DEF Sure
<1>4. \A v \in Users : (Pending(v)' <=> Pending(v)) /\ (Unlisted(v)' <=> Unlisted(v))
  BY <1>2, RolesApart
<1>5. ASSUME NEW e \in Stores, Foresees(e)
      PROVE  Foresees(e)'
  <2>1. Fresh(e)' /\ Knows(e)'
    BY <1>1, <1>3, <1>5, KnowsStays DEF Foresees, Fresh
  <2>2. SeesQueue(e)'
    BY <1>2 DEF SeesQueue
  <2>3. SeesPeople(e)'
    BY <1>1, <1>2, <1>3, <1>5, SeesPeopleStays DEF Foresees
  <2>4. DOMAIN live \subseteq Users /\ Me \in Users
    BY Constants DEF Ranges, Server, Present, Rosters
  <2>5. SeesRoles(e)'
    BY <1>1, <1>3, <1>4, <1>5, <2>4 DEF Foresees, SeesRoles
  <2> QED
    BY <2>1, <2>2, <2>3, <2>5 DEF Foresees
<1> QED
  BY <1>1, <1>5, SilentForeseen

\* The list of whoever was the last to read it is the queue.
LEMMA QueueAnnouncedForeseen ==
  ASSUME Ranges, RoomStays, InTurn, Foreseen, store' = store, NEW u \in Users, QueueAnnounced(u)
  PROVE  Foreseen'
<1> DEFINE m == [t |-> "queue_updated", items |-> busy[u].list, version |-> numbered]
<1>1. /\ busy[u].at = "queue_read" /\ Broadcast(<<m>>) /\ numbered' = numbered + 1
      /\ UNCHANGED <<rows, live, info, items, link>>
      /\ crossed' = IF busy[u].before \cap Reading # {} THEN crossed \cup {"queue"}
                    ELSE IF busy[u].list = items /\ Reading = {u} THEN crossed \ {"queue"}
                    ELSE crossed
  BY DEF QueueAnnounced
<1>2. /\ u \in Reading /\ Reading' = Reading \ {u} /\ busy'[u] = Idle /\ Idle.at = "idle"
      /\ \A x \in Users \ {u} : /\ busy'[x].at = busy[x].at
                                /\ x \notin Reading => busy'[x] = busy[x]
  BY ReadersLeft, WorkIn
<1>3. Apart(RoleStages) /\ Apart({"greeting"}) /\ (Rereading => Rereading')
  BY <1>1, <1>2 DEF Apart, RoleStages, Reading, Rereading
<1>4. busy[u].list \in Seq(Nat) /\ numbered \in Nat
  BY <1>1 DEF Ranges, Server, Work, WorkOf, Numbers
<1>5. m \in Frames /\ m.t = "queue_updated" /\ m.items = busy[u].list /\ m.version = numbered
  BY <1>4 DEF Frames, QueueFrames
<1> HIDE DEF m
<1>6. (Told' <=> Told) /\ (Sure' => Sure) /\ ("roles" \notin crossed' => "roles" \notin crossed)
  BY <1>1, <1>3, ToldStays, WorkIn DEF Sure, Broadcast, Wire
<1>7. \A v \in Users : (Pending(v)' <=> Pending(v)) /\ (Unlisted(v)' <=> Unlisted(v))
  BY <1>3, RolesApart
<1>8. Sure' /\ "queue" \notin crossed' /\ ~Rereading' /\ Reading' = {} => busy[u].list = items
  <2> SUFFICES ASSUME "queue" \notin crossed', ~Rereading', Reading' = {},
                      busy[u].list # items
               PROVE  FALSE
    OBVIOUS
  <2>1. Reading = {u} /\ "queue" \notin crossed /\ ~Rereading
    BY <1>1, <1>2, <1>3
  <2> QED
    BY <2>1 DEF InTurn, ListsInTurn
<1>9. ASSUME NEW e \in Stores, NEW f \in Stores, f = Apply(e, m), Foresees(e)
      PROVE  Foresees(f)'
  <2>1. numbered > e.queueVersion /\ e.queueVersion \in Nat
    BY <1>4, <1>9 DEF Foresees, Fresh, Stores
  <2>2. /\ f.me = e.me /\ f.role = e.role /\ f.room = e.room /\ f.people = e.people
        /\ f.queue = busy[u].list /\ f.queueVersion = numbered
    BY <1>5, <1>9, <2>1, ApplyFields, ApplySets
  <2>3. Fresh(f)' /\ Knows(f)'
    BY <1>1, <1>4, <1>6, <1>9, <2>2, KnowsStays DEF Foresees, Fresh
  <2>4. SeesQueue(f)'
    BY <1>1, <1>8, <2>2 DEF SeesQueue
  <2>5. SeesPeople(f)'
    BY <1>1, <1>3, <1>6, <1>9, <2>2, SeesPeopleStays DEF Foresees
  <2>6. DOMAIN live \subseteq Users /\ Me \in Users
    BY Constants DEF Ranges, Server, Present, Rosters
  <2>7. SeesRoles(f)'
    BY <1>1, <1>6, <1>7, <1>9, <2>2, <2>6 DEF Foresees, SeesRoles
  <2> QED
    BY <2>3, <2>4, <2>5, <2>7 DEF Foresees
<1>10. \A e \in Stores : Fresh(e) => Fresh(e)'
  BY <1>1, <1>4 DEF Fresh, Stores
<1> QED
  BY <1>1, <1>5, <1>9, <1>10, SentForeseen

\* A connection is admitted, joins, and goes: nobody has been told of anything yet.
LEMMA ConnectsForeseen ==
  ASSUME Ranges, Foreseen, store' = store, Admitted \/ Attaches
  PROVE  Foreseen'
<1>1. inbox' = inbox /\ numbered' = numbered /\ ~Told'
  <2>1. CASE Admitted
    BY <2>1 DEF Admitted, Stays, Silent, Told
  <2>2. CASE Attaches
    <3>1. busy'[Me] = [at |-> "greeting", first |-> Me \notin DOMAIN live] /\ link' = "joining"
      BY <2>2, WorkIn, Constants DEF Attaches, Work
    <3> QED
      BY <2>2, <3>1 DEF Attaches, Told
  <2> QED
    BY <2>1, <2>2
<1>2. \A e \in Stores : Foresees(e) => Foresees(e)'
  BY <1>1, DeafForesees DEF Foresees, Fresh
<1> QED
  BY <1>1, <1>2, SilentForeseen

LEMMA DetachesForeseen ==
  ASSUME Ranges, RoomStays, Foreseen, store' = store, Detaches
  PROVE  Foreseen'
<1>1. UNCHANGED <<rows, info, busy, items, numbered, link, crossed>>
  BY DEF Detaches
<1>2. CASE conns' > 0
  <2>1. live' = live /\ inbox' = inbox /\ raced' = raced
    BY <1>2 DEF Detaches, Silent
  <2>2. Apart({"greeting"}) /\ Apart(RoleStages) /\ Apart(QueueStages)
    BY <1>1 DEF Apart
  <2> QED
    BY <1>1, <2>1, <2>2, QuietForeseen
<1>3. CASE ~(conns' > 0)
  <2>1. ~Hears
    BY <1>3 DEF Detaches, Ranges, Server, Present
  <2>2. inbox' = inbox /\ ~Told'
    BY <1>1, <1>3, <2>1 DEF Detaches, Broadcast, Told, Hears
  <2>3. \A e \in Stores : Foresees(e) => Foresees(e)'
    BY <1>1, <2>2, DeafForesees DEF Foresees, Fresh
  <2> QED
    BY <2>2, <2>3, SilentForeseen
<1> QED
  BY <1>2, <1>3

\* A store with the snapshot in it: it says what the room is.
LEMMA SnapshotForesees ==
  ASSUME Ranges, RoomStays, InTurn, ReadySent, link = "joining", NEW e, NEW f, Fresh(e),
         f.me = Me, f.role = sess[Me].role, f.room = info, f.people = live, f.queue = items,
         f.queueVersion = e.queueVersion
  PROVE  Foresees(f)'
<1>1. /\ busy[Me].at = "greeting" /\ busy' = [busy EXCEPT ![Me] = Idle]
      /\ UNCHANGED <<rows, live, info, items, numbered, raced, crossed>>
  BY DEF ReadySent, Stays
<1>2. Apart(RoleStages)
  BY <1>1, OneMoves, WorkIn, Constants DEF RoleStages, Idle
<1>3. \A v \in Users : (Pending(v)' <=> Pending(v)) /\ (Unlisted(v)' <=> Unlisted(v))
  BY <1>2, RolesApart
<1>4. Fresh(f)' /\ Knows(f)' /\ SeesQueue(f)' /\ SeesPeople(f)'
  BY <1>1 DEF Fresh, Knows, SeesQueue, SeesPeople
<1>5. Sure' /\ "roles" \notin crossed' => f.role = live'[Me] \/ Pending(Me)'
  BY <1>1, <1>3, Constants DEF Sure, InTurn, RolesInTurn, SessionLatest
<1>6. SeesRoles(f)'
  BY <1>1, <1>5 DEF SeesRoles
<1> QED
  BY <1>4, <1>6 DEF Foresees

\* The snapshot is sent, and after it the greeting of a first connection.
LEMMA ReadySentForeseen ==
  ASSUME Ranges, RoomStays, InTurn, Foreseen, store' = store, ReadySent
  PROVE  Foreseen'
<1> DEFINE h == busy[Me]
           m == [t |-> "participant_joined", user |-> Me, role |-> live[Me]]
<1>1. /\ busy[Me].at = "greeting" /\ busy' = [busy EXCEPT ![Me] = Idle] /\ Idle.at = "idle"
      /\ inbox' = IF link = "joining"
                  THEN inbox \o <<Snapshot>> \o (IF h.first THEN <<m>> ELSE <<>>)
                  ELSE inbox
      /\ UNCHANGED <<rows, live, info, items, numbered, raced, link, crossed>>
  BY DEF ReadySent, Stays, Idle
<1>2. PICK e \in Stores : Leads(store, inbox, e) /\ Foresees(e)
  BY DEF Foreseen
<1>3. CASE link = "joining"
  <2>1. Snapshot \in Frames /\ Snapshot.t = "ready"
    BY SnapshotFits DEF Ranges, Readies
  <2>2. inbox \in Seq(Frames)
    BY WorkIn DEF Wire
  <2>3. PICK f \in Stores : f = Apply(e, Snapshot) /\ Leads(store, inbox \o <<Snapshot>>, f)
    BY <1>2, <2>1, <2>2, LeadsNext
  <2>4. /\ f.me = Me /\ f.role = sess[Me].role /\ f.room = info /\ f.people = live
        /\ f.queue = items /\ f.queueVersion = e.queueVersion
    <3>1. /\ Snapshot.me = Me /\ Snapshot.role = sess[Me].role /\ Snapshot.room = info
          /\ Snapshot.people = live /\ Snapshot.queue = items
      BY DEF Snapshot
    <3> QED
      BY <2>1, <2>3, <3>1, ApplySets, ApplyFields
  <2>5. Fresh(e)
    BY <1>2 DEF Foresees
  <2>6. Foresees(f)'
    BY <1>3, <2>4, <2>5, SnapshotForesees
  <2>7. Me \in DOMAIN live
    BY <1>3, MeHere DEF Hears
  <2>8. m \in Frames /\ m.t = "participant_joined" /\ m.user = Me
    <3>1. live[Me] \in RoomRole
      BY <2>7 DEF Ranges, Server, Present, Rosters
    <3> QED
      BY <3>1, Constants DEF Frames, PersonFrames
  <2> HIDE DEF m
  <2>9. inbox \o <<Snapshot>> \in Seq(Frames)
    BY <2>1, <2>2
  <2>10. CASE h.first
    <3>1. inbox' = (inbox \o <<Snapshot>>) \o <<m>>
      BY <1>1, <1>3, <2>10
    <3>2. PICK g \in Stores : g = Apply(f, m) /\ Leads(store, inbox', g)
      BY <2>3, <2>8, <2>9, <3>1, LeadsNext
    <3>3. /\ g.me = f.me /\ g.role = f.role /\ g.room = f.room /\ g.people = f.people
          /\ g.queue = f.queue /\ g.queueVersion = f.queueVersion
      BY <2>4, <2>7, <2>8, <3>2, ApplyFields, ApplyPeople
    <3>4. Foresees(g)'
      BY <1>3, <2>4, <2>5, <3>3, SnapshotForesees
    <3> QED
      BY <3>2, <3>4 DEF Foreseen
  <2>11. CASE ~h.first
    <3>1. inbox' = (inbox \o <<Snapshot>>) \o <<>>
      BY <1>1, <1>3, <2>11
    <3>2. inbox' = inbox \o <<Snapshot>>
      BY <2>9, <3>1, ConcatEmptySeq
    <3> QED
      BY <2>3, <2>6, <3>2 DEF Foreseen
  <2> QED
    BY <2>10, <2>11
<1>4. CASE link # "joining"
  <2>1. inbox' = inbox /\ (Told' => Told)
    BY <1>1, <1>4 DEF Told
  <2>2. Apart(RoleStages) /\ Apart(QueueStages)
    BY <1>1, OneMoves, WorkIn, Constants DEF RoleStages, QueueStages
  <2>3. /\ busy'[Me] = Idle /\ \A x \in Users \ {Me} : busy'[x] = busy[x]
    BY <1>1, OneMoves, WorkIn, Constants
  <2>4. Fresh(e)' /\ Knows(e)'
    BY <1>1, <1>2, <2>1, KnowsStays DEF Foresees, Fresh
  <2>5. Sure' => Sure
    BY <1>1, <2>1 DEF Sure
  <2>6. SeesQueue(e)'
    BY <1>1, <1>2, <2>2, <2>5, SeesQueueStays DEF Foresees
  <2>7. DOMAIN live \subseteq Users /\ Me \in Users
    BY Constants DEF Ranges, Server, Present, Rosters
  <2>8. SeesPeople(e)'
    BY <1>1, <1>2, <2>3, <2>5, <2>7 DEF Foresees, SeesPeople
  <2>9. \A v \in Users : (Pending(v)' <=> Pending(v)) /\ (Unlisted(v)' <=> Unlisted(v))
    BY <2>2, RolesApart
  <2>10. SeesRoles(e)'
    BY <1>1, <1>2, <2>5, <2>7, <2>9 DEF Foresees, SeesRoles
  <2> QED
    BY <1>2, <2>1, <2>4, <2>6, <2>8, <2>10 DEF Foresees, Foreseen
<1> QED
  BY <1>3, <1>4

\* What is received was foreseen.
LEMMA ReceivesForeseen ==
  ASSUME Ranges, RoomStays, InTurn, Foreseen, Receives
  PROVE  Foreseen'
<1> DEFINE m == Head(inbox)
           s == Apply(store, m)
<1>1. /\ inbox # <<>> /\ inbox \in Seq(Frames) /\ m \in Frames /\ Hears /\ s \in Stores
      /\ inbox' = Tail(inbox) /\ store' = Settled(s) /\ store \in Stores
      /\ link' = IF m.t = "ready" THEN "up" ELSE link
      /\ UNCHANGED <<rows, live, info, items, numbered, busy, raced, crossed>>
  BY FirstApplied, WorkIn DEF Receives, Rendered, Wire, Ranges, Client
<1>2. PICK e \in Stores : Leads(store, inbox, e) /\ Foresees(e)
  BY DEF Foreseen
<1>3. Leads(s, Tail(inbox), e)
  BY <1>1, <1>2, LeadsFirst
<1>4. Same(s, store')
  BY <1>1, SettledFields DEF Same
<1>5. Leads(store', inbox', e)
  BY <1>1, <1>3, <1>4, LeadsSame
<1>6. Told' => Told
  <2> SUFFICES ASSUME Told', ~Told
               PROVE  FALSE
    OBVIOUS
  <2>1. m.t = "ready" /\ link = "joining" /\ busy[Me].at = "greeting"
    BY <1>1 DEF Told, Hears
  <2>2. 1 \in DOMAIN inbox /\ inbox[1] = m
    BY <1>1
  <2> QED
    BY <2>1, <2>2 DEF InTurn, NoReadyYet
<1>7. Apart({"greeting"}) /\ Apart(RoleStages) /\ Apart(QueueStages)
  BY <1>1 DEF Apart
<1> HIDE DEF m, s
<1>8. Foresees(e)'
  BY <1>1, <1>2, <1>6, <1>7, KnowsStays, AsideForesees DEF Foresees, NotTheRoom
<1> QED
  BY <1>2, <1>5, <1>8 DEF Foreseen

\* The client hangs up, or does something else to the page.
LEMMA HangsForeseen ==
  ASSUME Ranges, Ranges', Hangs("down")
  PROVE  Foreseen'
<1>1. inbox' = <<>> /\ ~Told'
  BY DEF Hangs, Told
<1>2. PICK e \in Stores : e = store' /\ Fresh(e)'
  BY DEF Ranges, Client, Server, Numbers, Fresh
<1>3. Leads(store', inbox', e)
  BY <1>1, <1>2, LeadsNow
<1>4. Foresees(e)'
  BY <1>1, <1>2, DeafForesees
<1> QED
  BY <1>2, <1>3, <1>4 DEF Foreseen

LEMMA StillForeseen ==
  ASSUME Ranges, RoomStays, Foreseen, Same(store, store'), UNCHANGED <<rows, live, info, items, numbered,
         busy, link, inbox, raced, crossed>>
  PROVE  Foreseen'
<1>1. PICK e \in Stores : Leads(store, inbox, e) /\ Foresees(e)
  BY DEF Foreseen
<1>2. Leads(store', inbox', e)
  BY <1>1, LeadsSame
<1>3. Apart({"greeting"}) /\ Apart(RoleStages) /\ Apart(QueueStages)
  BY DEF Apart
<1>4. Told' => Told
  BY DEF Told
<1>5. Foresees(e)'
  BY <1>1, <1>3, <1>4, KnowsStays, AsideForesees DEF Foresees, NotTheRoom
<1> QED
  BY <1>1, <1>2, <1>5 DEF Foreseen

LEMMA LookingForeseen ==
  ASSUME Ranges, Ranges', RoomStays, Foreseen, Looking
  PROVE  Foreseen'
<1>1. CASE Hangs("down")
  BY <1>1, HangsForeseen
<1>2. CASE UNCHANGED membersVars /\ Same(store, store')
  BY <1>2, StillForeseen DEF membersVars
<1>3. CASE LeavesRoom \/ Drops
  BY <1>1, <1>3 DEF LeavesRoom, Drops
<1>4. CASE EntersRoom \/ ChoosesTheme \/ Scrolls \/ TypesName
  BY <1>2, <1>4 DEF EntersRoom, ChoosesTheme, Scrolls, TypesName, Same
<1>5. ASSUME NEW p \in Panels, OpensPanel(p)
      PROVE  Foreseen'
  <2>1. store' \in {store, MarkChatRead(store)} /\ UNCHANGED membersVars
    BY <1>5 DEF OpensPanel
  <2>2. Same(store, MarkChatRead(store)) /\ Same(store, store)
    BY DEF Same, MarkChatRead, Ranges, Client, Stores
  <2> QED
    BY <1>2, <2>1, <2>2
<1>6. CASE TurnedAway
  <2> DEFINE s == ApplyKicked(store, [t |-> "kicked"])
  <2>1. store' = Settled(s) /\ UNCHANGED membersVars
    BY <1>6 DEF TurnedAway, Rendered
  <2>2. s \in Stores /\ Same(store, s)
    BY DEF ApplyKicked, Ranges, Client, Stores, Same
  <2> HIDE DEF s
  <2>3. Same(store, store')
    BY <2>1, <2>2, SettledFields DEF Same
  <2> QED
    BY <1>2, <2>1, <2>3
<1> QED
  BY <1>3, <1>4, <1>5, <1>6 DEF Looking

\* The room changes, or is announced as it was changed.
RoomChanges ==
  \/ \E u \in Users, t \in Users \cup {None} : Ready(u) /\ Designate(u, t)
  \/ \E u \in Users : DesignateAnnounced(u)
  \/ \E p \in patches : PatchApplied(p) \/ PatchAnnounced(p)

\* A change that is still to be announced, and one that is.
ChangesUnseen ==
  /\ UNCHANGED <<inbox, raced>> /\ Changing'
ChangesShown ==
  \E m \in RoomFrames : Broadcast(<<m>>) /\ ("room" \notin crossed' => m.room = info')

LEMMA RoomChangesSteps ==
  ASSUME Ranges, RoomInTurn, RoomChanges
  PROVE  /\ RoomInTurn' /\ (ChangesUnseen \/ ChangesShown) /\ NotTheRoom
         /\ UNCHANGED <<rows, live, items, numbered, link>>
         /\ Apart({"greeting"}) /\ Apart(RoleStages) /\ Apart(QueueStages)
<1> USE DEF RoleStages, QueueStages
<1>1. ASSUME NEW u \in Users, NEW t \in Users \cup {None}, Ready(u), Designate(u, t)
      PROVE  /\ RoomInTurn' /\ ChangesUnseen /\ NotTheRoom
             /\ UNCHANGED <<rows, live, items, numbered, link>>
             /\ Apart({"greeting"}) /\ Apart(RoleStages) /\ Apart(QueueStages)
  <2> DEFINE h == [at |-> "designated", room |-> info']
  <2>1. busy[u].at = "idle" /\ busy' = [busy EXCEPT ![u] = h] /\ h.at = "designated"
        /\ h.room = info' /\ RoomCrosses /\ UNCHANGED <<rows, live, items, numbered, link, inbox, raced, patches>>
    BY <1>1, ReadyIdle DEF Designate, Silent
  <2> HIDE DEF h
  <2>2. /\ busy'[u] = h /\ \A x \in Users \ {u} : busy'[x] = busy[x]
        /\ Apart({"greeting"}) /\ Apart(RoleStages) /\ Apart(QueueStages)
    BY <2>1, OneMoves, WorkIn
  <2>3. Designating' = Designating \cup {u} /\ Applied' = Applied
    BY <2>1, <2>2 DEF Designating, Applied
  <2>4. "room" \notin crossed' => Designating' = {u} /\ Applied' = {}
    BY <2>1, <2>3 DEF RoomCrosses
  <2>5. RoomInTurn'
    BY <2>1, <2>2, <2>4 DEF RoomInTurn
  <2>6. ChangesUnseen /\ NotTheRoom
    BY <2>1, <2>3 DEF ChangesUnseen, Changing, RoomCrosses, NotTheRoom
  <2> QED
    BY <2>1, <2>2, <2>5, <2>6
<1>2. ASSUME NEW u \in Users, DesignateAnnounced(u)
      PROVE  /\ RoomInTurn' /\ ChangesShown /\ NotTheRoom
             /\ UNCHANGED <<rows, live, items, numbered, link>>
             /\ Apart({"greeting"}) /\ Apart(RoleStages) /\ Apart(QueueStages)
  <2> DEFINE m == [t |-> "room_updated", room |-> busy[u].room]
  <2>1. busy[u].at = "designated" /\ busy' = [busy EXCEPT ![u] = Idle] /\ Idle.at = "idle"
        /\ Broadcast(<<m>>) /\ RoomSettles(busy[u].room, Designating = {u} /\ Applied = {})
        /\ UNCHANGED <<rows, live, info, patches, items, numbered, link>>
    BY <1>2 DEF DesignateAnnounced, Stays, Idle
  <2>2. /\ busy'[u] = Idle /\ \A x \in Users \ {u} : busy'[x] = busy[x]
        /\ Apart({"greeting"}) /\ Apart(RoleStages) /\ Apart(QueueStages)
    BY <2>1, OneMoves, WorkIn
  <2>3. u \in Designating /\ Designating' = Designating \ {u} /\ Applied' = Applied
    BY <2>1, <2>2 DEF Designating, Applied
  <2>4. /\ "room" \notin crossed' => busy[u].room = info
        /\ "room" \in crossed /\ "room" \notin crossed' => Designating' = {} /\ Applied' = {}
    BY <2>1, <2>3 DEF RoomSettles, RoomInTurn
  <2>5. RoomInTurn'
    <3>1. \A w \in Designating' : w \in Designating /\ busy'[w] = busy[w]
      BY <2>2, <2>3 DEF Designating
    <3> QED
      BY <2>1, <2>3, <2>4, <3>1 DEF RoomInTurn
  <2>6. m \in RoomFrames /\ m.room = busy[u].room
    BY <2>1 DEF Ranges, Server, Work, WorkOf, RoomFrames
  <2> HIDE DEF m
  <2>7. ChangesShown /\ NotTheRoom
    BY <2>1, <2>4, <2>6 DEF ChangesShown, RoomSettles, NotTheRoom
  <2> QED
    BY <2>1, <2>2, <2>5, <2>7
<1>3. ASSUME NEW p \in patches, PatchApplied(p)
      PROVE  /\ RoomInTurn' /\ ChangesUnseen /\ NotTheRoom
             /\ UNCHANGED <<rows, live, items, numbered, link>>
             /\ Apart({"greeting"}) /\ Apart(RoleStages) /\ Apart(QueueStages)
  <2> DEFINE q == [at |-> "applied", room |-> info']
  <2>1. p.at = "saved" /\ patches' = (patches \ {p}) \cup {q} /\ RoomCrosses
        /\ UNCHANGED <<rows, live, busy, items, numbered, link, inbox, raced>>
    BY <1>3 DEF PatchApplied, Silent
  <2>2. q.at = "applied" /\ q.room = info'
    OBVIOUS
  <2> HIDE DEF q
  <2>3. Designating' = Designating /\ Applied' = Applied \cup {q}
    BY <2>1, <2>2 DEF Designating, Applied
  <2>4. "room" \notin crossed' => Designating' = {} /\ Applied' = {q}
    BY <2>1, <2>3 DEF RoomCrosses
  <2>5. RoomInTurn'
    BY <2>2, <2>4 DEF RoomInTurn
  <2>6. ChangesUnseen /\ NotTheRoom
    BY <2>1, <2>3 DEF ChangesUnseen, Changing, RoomCrosses, NotTheRoom
  <2> QED
    BY <2>1, <2>5, <2>6 DEF Apart
<1>4. ASSUME NEW p \in patches, PatchAnnounced(p)
      PROVE  /\ RoomInTurn' /\ ChangesShown /\ NotTheRoom
             /\ UNCHANGED <<rows, live, items, numbered, link>>
             /\ Apart({"greeting"}) /\ Apart(RoleStages) /\ Apart(QueueStages)
  <2> DEFINE m == [t |-> "room_updated", room |-> p.room]
  <2>1. p.at = "applied" /\ patches' = patches \ {p} /\ Broadcast(<<m>>)
        /\ RoomSettles(p.room, Designating = {} /\ Applied = {p})
        /\ UNCHANGED <<rows, live, info, busy, items, numbered, link>>
    BY <1>4 DEF PatchAnnounced
  <2>2. Designating' = Designating /\ Applied' = Applied \ {p} /\ p \in Applied
    BY <2>1 DEF Designating, Applied
  <2>3. /\ "room" \notin crossed' => p.room = info
        /\ "room" \in crossed /\ "room" \notin crossed' => Designating' = {} /\ Applied' = {}
    BY <2>1, <2>2 DEF RoomSettles, RoomInTurn
  <2>4. RoomInTurn'
    BY <2>1, <2>2, <2>3 DEF RoomInTurn
  <2>5. m \in RoomFrames /\ m.room = p.room
    BY <2>1 DEF Ranges, Server, Settings, PatchOf, RoomFrames
  <2> HIDE DEF m
  <2>6. ChangesShown /\ NotTheRoom
    BY <2>1, <2>3, <2>5 DEF ChangesShown, RoomSettles, NotTheRoom
  <2> QED
    BY <2>1, <2>4, <2>6 DEF Apart
<1> QED
  BY <1>1, <1>2, <1>3, <1>4 DEF RoomChanges

LEMMA RoomChangesForeseen ==
  ASSUME Ranges, RoomInTurn, Foreseen, store' = store, RoomChanges
  PROVE  Foreseen'
<1>1. /\ NotTheRoom /\ UNCHANGED <<rows, live, items, numbered, link>>
      /\ Apart({"greeting"}) /\ Apart(RoleStages) /\ Apart(QueueStages)
  BY RoomChangesSteps
<1>2. (Told' <=> Told) /\ \A e \in Stores : Fresh(e) => Fresh(e)'
  BY <1>1, ToldStays DEF Fresh
<1>3. CASE ChangesUnseen
  <2>1. ASSUME NEW e \in Stores, Foresees(e)
        PROVE  Foresees(e)'
    <3>1. Knows(e)'
      BY <1>2, <1>3, <2>1 DEF Foresees, Knows, ChangesUnseen
    <3> QED
      BY <1>1, <1>2, <1>3, <2>1, <3>1, AsideForesees DEF ChangesUnseen
  <2> QED
    BY <1>3, <2>1, SilentForeseen DEF ChangesUnseen
<1>4. CASE ChangesShown
  <2>1. PICK m \in RoomFrames : Broadcast(<<m>>) /\ ("room" \notin crossed' => m.room = info')
    BY <1>4 DEF ChangesShown
  <2>2. m \in Frames /\ m.t = "room_updated"
    BY DEF Frames, RoomFrames
  <2>3. ~raced' => ~raced
    BY <2>1, WorkIn DEF Broadcast, Wire
  <2>4. ASSUME NEW e \in Stores, NEW f \in Stores, f = Apply(e, m), Foresees(e)
        PROVE  Foresees(f)'
    <3>1. f.me = e.me /\ f.role = e.role /\ f.people = e.people /\ f.queue = e.queue
          /\ f.queueVersion = e.queueVersion /\ f.room = m.room
      BY <2>2, <2>4, ApplyFields, ApplySets
    <3>2. Knows(f)'
      BY <1>2, <2>1, <2>4, <3>1 DEF Foresees, Knows
    <3> QED
      BY <1>1, <1>2, <2>3, <2>4, <3>1, <3>2, AsideForesees
  <2> QED
    BY <1>1, <1>2, <2>1, <2>2, <2>4, SentForeseen
<1> QED
  BY <1>3, <1>4, RoomChangesSteps

\* Every other step leaves it alone.
LEMMA ServesLeaveRoom ==
  ASSUME Ranges, InTurn, Serves, ~RoomChanges
  PROVE  RoomStays
<1> USE DEF RoomStays
<1>1. ASSUME NEW u \in Users, NEW h, busy' = [busy EXCEPT ![u] = h], busy[u].at # "designated",
             h.at # "designated", UNCHANGED <<info, patches>>,
             "room" \in crossed' <=> "room" \in crossed
      PROVE  RoomStays
  BY <1>1, OneMoves, WorkIn DEF Applied
<1>2. ASSUME UNCHANGED <<info, busy, patches, crossed>>
      PROVE  RoomStays
  BY <1>2 DEF Applied, Apart
<1>3. CASE Commands
  <2>1. PICK u \in Users :
          /\ Ready(u)
          /\ \/ \E t \in Users, role \in {Member, Cohost} : SetRole(u, t, role)
             \/ \E t \in Users : TransferHost(u, t) \/ Kick(u, t)
             \/ \E t \in Users \cup {None} : Designate(u, t)
             \/ \E e \in DOMAIN QueueEdits : QueueEdit(u, e)
             \/ ChatSend(u) \/ (u = Me /\ Refused(Me))
    BY <1>3 DEF Commands
  <2>2. CASE u = Me /\ Refused(Me)
    BY <1>2, <2>2 DEF Refused
  <2>3. CASE ~(u = Me /\ Refused(Me))
    <3>1. /\ busy[u].at = "idle" /\ UNCHANGED <<info, patches, crossed>>
          /\ \E h : busy' = [busy EXCEPT ![u] = h] /\ h.at # "designated"
      <4>1. CASE \E t \in Users, role \in {Member, Cohost} : SetRole(u, t, role)
        <5>1. PICK t \in Users, role \in {Member, Cohost} : SetRole(u, t, role)
          BY <4>1
        <5> DEFINE h == [at |-> "role_saved", target |-> t, role |-> role]
        <5>2. busy' = [busy EXCEPT ![u] = h] /\ h.at # "designated"
          BY <5>1 DEF SetRole
        <5> HIDE DEF h
        <5> QED
          BY <2>1, <5>1, <5>2, ReadyIdle DEF SetRole, Quietly
      <4>2. ASSUME NEW t \in Users, TransferHost(u, t)
            PROVE  /\ busy[u].at = "idle" /\ UNCHANGED <<info, patches, crossed>>
                   /\ \E h : busy' = [busy EXCEPT ![u] = h] /\ h.at # "designated"
        <5> DEFINE h == [at |-> "host_saved", target |-> t, role |-> Hosting]
        <5>1. busy' = [busy EXCEPT ![u] = h] /\ h.at # "designated"
          BY <4>2 DEF TransferHost
        <5> HIDE DEF h
        <5> QED
          BY <2>1, <4>2, <5>1, ReadyIdle DEF TransferHost, Quietly
      <4>3. ASSUME NEW t \in Users, Kick(u, t)
            PROVE  /\ busy[u].at = "idle" /\ UNCHANGED <<info, patches, crossed>>
                   /\ \E h : busy' = [busy EXCEPT ![u] = h] /\ h.at # "designated"
        <5> DEFINE h == [at |-> "kicked", target |-> t]
        <5>1. busy' = [busy EXCEPT ![u] = h] /\ h.at # "designated"
          BY <4>3 DEF Kick
        <5> HIDE DEF h
        <5> QED
          BY <2>1, <4>3, <5>1, ReadyIdle DEF Kick, Quietly
      <4>4. ASSUME NEW e \in DOMAIN QueueEdits, QueueEdit(u, e)
            PROVE  /\ busy[u].at = "idle" /\ UNCHANGED <<info, patches, crossed>>
                   /\ \E h : busy' = [busy EXCEPT ![u] = h] /\ h.at # "designated"
        <5> DEFINE h == [at |-> "queue_saved"]
        <5>1. busy' = [busy EXCEPT ![u] = h] /\ h.at # "designated"
          BY <4>4 DEF QueueEdit
        <5> HIDE DEF h
        <5> QED
          BY <2>1, <4>4, <5>1, ReadyIdle DEF QueueEdit, Quietly
      <4>5. CASE ChatSend(u)
        <5> DEFINE h == [at |-> "said", message |-> log'[Len(log')]]
        <5>1. busy' = [busy EXCEPT ![u] = h] /\ h.at # "designated"
          BY <4>5 DEF ChatSend
        <5> HIDE DEF h
        <5> QED
          BY <2>1, <4>5, <5>1, ReadyIdle DEF ChatSend, Quietly
      <4> QED
        BY <2>1, <2>3, <4>1, <4>2, <4>3, <4>4, <4>5 DEF RoomChanges
    <3> QED
      BY <1>1, <3>1
  <2> QED
    BY <2>2, <2>3
<1>4. CASE Requests
  BY <1>4 DEF Requests, PatchStarts, Quietly, Applied, Apart
<1>5. CASE Goings
  <2>1. ASSUME NEW u \in Users \ {Me}, Arrives(u)
        PROVE  RoomStays
    <3> DEFINE h == [at |-> "greeting"]
    <3>1. busy[u].at = "idle" /\ busy' = [busy EXCEPT ![u] = h] /\ h.at = "greeting"
          /\ UNCHANGED <<info, patches, crossed>>
      BY <2>1 DEF Arrives, Quietly, Idle
    <3> HIDE DEF h
    <3> QED
      BY <1>1, <3>1
  <2>2. ASSUME NEW u \in Users \ {Me}, Leaves(u)
        PROVE  RoomStays
    BY <1>2, <2>2 DEF Leaves
  <2> QED
    BY <1>5, <2>1, <2>2 DEF Goings
<1>6. CASE Handlers
  <2>1. ASSUME NEW u \in Users, RoleApplied(u) \/ HostApplied(u)
        PROVE  RoomStays
    <3>1. /\ busy[u].at \in {"role_saved", "host_saved"} /\ info' = info /\ patches' = patches
          /\ \A x \in Users \ {u} : busy'[x] = busy[x]
          /\ busy'[u].at \in {"idle", "role_applied", "host_applied"} /\ RolesCross(u)
      BY <2>1, RoleApplying, HostApplying DEF InTurn, Applying, RoleApplied, HostApplied
    <3> QED
      BY <3>1 DEF Applied, Apart, RolesCross
  <2>2. ASSUME NEW u \in Users, RoleAnnounced(u) \/ TargetTold(u) \/ HostAnnounced(u) \/ HostTold(u)
        PROVE  RoomStays
    <3>1. PICK s : Tells(u, s)
      BY <2>2, RoleAnnouncedTells, TargetToldTells, HostAnnouncedTells, HostToldTells DEF InTurn
    <3>2. patches' = patches
      BY <2>2 DEF RoleAnnounced, TargetTold, HostAnnounced, HostTold, Stays
    <3> QED
      BY <3>1, <3>2 DEF Tells, Applied
  <2>3. ASSUME NEW u \in Users, KickAnnounced(u) \/ ChatAnnounced(u) \/ Greets(u)
        PROVE  RoomStays
    <3>1. busy[u].at \in {"kicked", "said", "greeting"} /\ busy' = [busy EXCEPT ![u] = Idle]
          /\ Idle.at = "idle" /\ UNCHANGED <<info, patches, crossed>>
      BY <2>3 DEF KickAnnounced, ChatAnnounced, Greets, Stays, Idle
    <3> QED
      BY <1>1, <3>1
  <2>4. ASSUME NEW u \in Users, QueueRead(u)
        PROVE  RoomStays
    <3> DEFINE h == [at |-> "queue_read", list |-> items, before |-> Reading]
    <3>1. busy[u].at = "queue_saved" /\ busy' = [busy EXCEPT ![u] = h] /\ h.at = "queue_read"
          /\ UNCHANGED <<info, patches, crossed>>
      BY <2>4 DEF QueueRead, Stays, Quietly
    <3> HIDE DEF h
    <3> QED
      BY <1>1, <3>1
  <2>5. ASSUME NEW u \in Users, QueueAnnounced(u)
        PROVE  RoomStays
    <3>1. /\ u \in Reading /\ busy'[u] = Idle /\ Idle.at = "idle"
          /\ \A x \in Users \ {u} : /\ busy'[x].at = busy[x].at
                                    /\ x \notin Reading => busy'[x] = busy[x]
      BY <2>5, ReadersLeft, WorkIn
    <3>2. /\ UNCHANGED <<info, patches>>
          /\ crossed' = IF busy[u].before \cap Reading # {} THEN crossed \cup {"queue"}
                        ELSE IF busy[u].list = items /\ Reading = {u} THEN crossed \ {"queue"}
                        ELSE crossed
      BY <2>5 DEF QueueAnnounced
    <3> QED
      BY <3>1, <3>2 DEF Applied, Apart, Reading
  <2>6. ASSUME NEW p \in patches, PatchSaved(p)
        PROVE  RoomStays
    <3> DEFINE q == [at |-> "saved", row |-> saved']
    <3>1. p.at = "read" /\ patches' = (patches \ {p}) \cup {q} /\ UNCHANGED <<info, busy, crossed>>
      BY <2>6 DEF PatchSaved, Quietly
    <3>2. q.at = "saved"
      OBVIOUS
    <3> HIDE DEF q
    <3>3. Applied' = Applied
      BY <3>1, <3>2 DEF Applied
    <3> QED
      BY <3>1, <3>3 DEF Apart
  <2>7. CASE Attaches
    <3> DEFINE h == [at |-> "greeting", first |-> Me \notin DOMAIN live]
    <3>1. busy[Me].at = "admitted" /\ busy' = [busy EXCEPT ![Me] = h] /\ h.at = "greeting"
          /\ UNCHANGED <<info, patches, crossed>>
      BY <2>7 DEF Attaches
    <3> HIDE DEF h
    <3> QED
      BY <1>1, <3>1, Constants
  <2>8. CASE ReadySent
    <3>1. busy[Me].at = "greeting" /\ busy' = [busy EXCEPT ![Me] = Idle] /\ Idle.at = "idle"
          /\ UNCHANGED <<info, patches, crossed>>
      BY <2>8 DEF ReadySent, Stays, Idle
    <3> QED
      BY <1>1, <3>1, Constants
  <2>9. CASE Detaches
    BY <1>2, <2>9 DEF Detaches
  <2> QED
    BY <1>6, <2>1, <2>2, <2>3, <2>4, <2>5, <2>6, <2>7, <2>8, <2>9 DEF Handlers, RoomChanges
<1>7. CASE Admitted
  <2> DEFINE h == [at |-> "admitted", role |-> RoleOf(Me), perms |-> Resolve(RoleOf(Me), saved.gq)]
  <2>1. busy[Me].at = "idle" /\ busy' = [busy EXCEPT ![Me] = h] /\ h.at = "admitted"
        /\ UNCHANGED <<info, patches, crossed>>
    BY <1>7 DEF Admitted, Stays, Idle
  <2> HIDE DEF h
  <2> QED
    BY <1>1, <2>1, Constants
<1> QED
  BY <1>3, <1>4, <1>5, <1>6, <1>7 DEF Serves

LEMMA PageLeavesRoom ==
  ASSUME Receives \/ Refusal \/ Looking \/ UNCHANGED vars
  PROVE  RoomStays
<1>1. ASSUME UNCHANGED <<info, busy, patches, crossed>>
      PROVE  RoomStays
  BY <1>1 DEF RoomStays, Applied, Apart
<1>2. CASE Looking
  <2>1. CASE Hangs("down")
    BY <1>1, <2>1 DEF Hangs
  <2>2. CASE UNCHANGED membersVars
    BY <1>1, <2>2 DEF membersVars
  <2> QED
    BY <1>2, <2>1, <2>2 DEF Looking, LeavesRoom, EntersRoom, ChoosesTheme, Scrolls, OpensPanel,
       TypesName, TurnedAway, Drops
<1>3. CASE Receives \/ Refusal \/ UNCHANGED vars
  BY <1>1, <1>3 DEF Receives, Refusal, vars, membersVars
<1> QED
  BY <1>2, <1>3

LEMMA RoomInTurnStep ==
  ASSUME Ranges, InTurn, RoomInTurn, [Next]_vars
  PROVE  RoomInTurn'
<1>1. CASE RoomChanges
  BY <1>1, RoomChangesSteps
<1>2. CASE RoomStays
  BY <1>2, ChangingStays DEF RoomInTurn, RoomStays
<1> QED
  BY <1>1, <1>2, ServesLeaveRoom, PageLeavesRoom, Steps

LEMMA CommandsForeseen ==
  ASSUME Ranges, RoomStays, InTurn, Foreseen, store' = store, Commands, ~RoomChanges
  PROVE  Foreseen'
<1>1. PICK u \in Users :
        /\ Ready(u)
        /\ \/ \E t \in Users, role \in {Member, Cohost} : SetRole(u, t, role)
           \/ \E t \in Users : TransferHost(u, t) \/ Kick(u, t)
           \/ \E t \in Users \cup {None} : Designate(u, t)
           \/ \E e \in DOMAIN QueueEdits : QueueEdit(u, e)
           \/ ChatSend(u) \/ (u = Me /\ Refused(Me))
  BY DEF Commands
<1>2. CASE \E t \in Users, role \in {Member, Cohost} : SetRole(u, t, role)
  BY <1>1, <1>2, RolesStartForeseen
<1>3. CASE \E t \in Users : TransferHost(u, t)
  BY <1>1, <1>3, RolesStartForeseen
<1>4. CASE \E t \in Users : Kick(u, t)
  BY <1>1, <1>4, KickForeseen
<1>5. CASE (\E t \in Users \cup {None} : Designate(u, t)) \/ (u = Me /\ Refused(Me))
  BY <1>1, <1>5, AsidesForeseen DEF RoomChanges
<1>6. CASE \E e \in DOMAIN QueueEdits : QueueEdit(u, e)
  BY <1>1, <1>6, QueueForeseen
<1>7. CASE ChatSend(u)
  BY <1>1, <1>7, ChatForeseen
<1> QED
  BY <1>1, <1>2, <1>3, <1>4, <1>5, <1>6, <1>7

LEMMA HandlersForeseen ==
  ASSUME Ranges, RoomStays, InTurn, Foreseen, store' = store, Handlers, ~RoomChanges
  PROVE  Foreseen'
<1>1. ASSUME NEW u \in Users,
             \/ RoleApplied(u) \/ RoleAnnounced(u) \/ HostApplied(u) \/ HostAnnounced(u)
             \/ HostTold(u) \/ TargetTold(u) \/ DesignateAnnounced(u)
             \/ KickAnnounced(u) \/ ChatAnnounced(u) \/ QueueRead(u) \/ QueueAnnounced(u)
             \/ Greets(u)
      PROVE  Foreseen'
  <2>1. CASE RoleApplied(u) \/ HostApplied(u)
    BY <2>1, RoleApplying, HostApplying, ApplyingForeseen DEF InTurn
  <2>2. CASE ChatAnnounced(u)
    BY <2>2, ChatForeseen
  <2>3. CASE QueueRead(u)
    BY <2>3, QueueForeseen
  <2> QED
    BY <1>1, <2>1, <2>2, <2>3, RoleAnnouncedForeseen, TargetToldForeseen, HostAnnouncedForeseen,
       HostToldForeseen, KickAnnouncedForeseen, QueueAnnouncedForeseen, GreetsForeseen
       DEF RoomChanges
<1>2. CASE \E p \in patches : PatchSaved(p) \/ PatchApplied(p) \/ PatchAnnounced(p)
  BY <1>2, AsidesForeseen DEF RoomChanges
<1>3. CASE Attaches
  BY <1>3, ConnectsForeseen
<1> QED
  BY <1>1, <1>2, <1>3, ReadySentForeseen, DetachesForeseen DEF Handlers

LEMMA ForeseenStep ==
  ASSUME Ranges, InTurn, RoomInTurn, Foreseen, [Next]_vars
  PROVE  Foreseen'
<1>1. CASE Serves /\ PageStays /\ RoomChanges
  BY <1>1, RoomChangesForeseen DEF PageStays
<1>2. CASE Serves /\ PageStays /\ ~RoomChanges
  <2>1. store' = store /\ RoomStays
    BY <1>2, ServesLeaveRoom DEF PageStays
  <2>2. CASE Requests
    BY <2>1, <2>2, AsidesForeseen DEF Requests
  <2>3. CASE Goings
    BY <2>1, <2>3, ArrivesForeseen, LeavesForeseen DEF Goings
  <2>4. CASE Admitted
    BY <2>1, <2>4, ConnectsForeseen
  <2> QED
    BY <1>2, <2>1, <2>2, <2>3, <2>4, CommandsForeseen, HandlersForeseen DEF Serves
<1>3. CASE Refusal \/ UNCHANGED vars
  BY <1>3, PageLeavesRoom, StillForeseen DEF Refusal, PageStays, vars, Same
<1>4. CASE Looking
  BY <1>4, PageLeavesRoom, RangesStep, LookingForeseen
<1>5. CASE Receives
  BY <1>5, PageLeavesRoom, ReceivesForeseen
<1> QED
  BY <1>1, <1>2, <1>3, <1>4, <1>5, Steps

LEMMA InitForeseen == Init => RoomInTurn /\ Foreseen
<1> SUFFICES ASSUME Init
             PROVE  RoomInTurn /\ Foreseen
  OBVIOUS
<1>0. Designating = {} /\ Applied = {}
  BY DEF Init, MembersInit, Designating, Applied, Idle
<1>1. store = Initial /\ inbox = <<>> /\ ~Told /\ numbered = 1
  BY DEF Init, MembersInit, Told
<1>2. store \in Stores /\ Fresh(store)
  BY <1>1, InitialFits DEF Fresh
<1>3. Leads(store, inbox, store)
  BY <1>1, <1>2, LeadsNow
<1>4. Foresees(store)
  BY <1>1, <1>2 DEF Foresees, Knows, SeesQueue, SeesPeople, SeesRoles, Sure
<1> QED
  BY <1>0, <1>2, <1>3, <1>4 DEF Foreseen, RoomInTurn

LEMMA ForeseenAlways == Spec => [](Ranges /\ InTurn /\ Foreseen)
<1>1. Init => Ranges /\ InTurn /\ RoomInTurn /\ Foreseen
  BY InitRanges, InitInTurn, InitForeseen
<1>2. Ranges /\ InTurn /\ RoomInTurn /\ Foreseen /\ [Next]_vars
        => (Ranges /\ InTurn /\ RoomInTurn /\ Foreseen)'
  BY RangesStep, InTurnStep, RoomInTurnStep, ForeseenStep
<1> QED
  BY <1>1, <1>2, PTL DEF Spec

------------------------------------------------------------------------------
(* The client of a room that is quiet.                                      *)

\* Nothing is on its way, and nobody is to announce anything: what was foreseen
\* is what the client has.
LEMMA QuietSees ==
  ASSUME Ranges, Foreseen, Quiet
  PROVE  /\ store.me = Me /\ ("room" \notin crossed => store.room = info)
         /\ "queue" \notin crossed => store.queue = items
         /\ DOMAIN store.people \subseteq DOMAIN live
         /\ \A u \in DOMAIN live : rows[u].banned \/ u \in DOMAIN store.people
         /\ "roles" \notin crossed =>
              /\ \A u \in DOMAIN store.people : store.people[u] = live[u]
              /\ store.role = live[Me]
<1>1. PICK e \in Stores : Leads(store, inbox, e) /\ Foresees(e)
  BY DEF Foreseen
<1>2. Same(e, store)
  BY <1>1, LeadsDone DEF Quiet
<1>3. \A u \in Users : busy[u].at = "idle"
  BY DEF Quiet, Idle
<1>4. Told /\ Sure
  BY DEF Quiet, Told, Sure
<1>5. ~Rereading /\ Reading = {} /\ ~Changing /\ \A v : ~Pending(v) /\ ~Unlisted(v)
  BY <1>3 DEF Rereading, Reading, Pending, Unlisted, Written, Writing, Telling, Listing,
     Changing, Designating, Applied, Quiet
<1>6. DOMAIN live \subseteq Users
  BY DEF Ranges, Server, Present, Rosters
<1>7. e.me = Me /\ ("room" \notin crossed => e.room = info)
      /\ ("queue" \notin crossed => e.queue = items)
  BY <1>1, <1>4, <1>5 DEF Foresees, Knows, SeesQueue
<1>8. /\ DOMAIN e.people \subseteq DOMAIN live
      /\ \A u \in DOMAIN live : rows[u].banned \/ u \in DOMAIN e.people
  BY <1>1, <1>3, <1>4, <1>6 DEF Foresees, SeesPeople
<1>9. "roles" \notin crossed => /\ \A u \in DOMAIN e.people : e.people[u] = live[u]
                                /\ e.role = live[Me]
  BY <1>1, <1>4, <1>5, <1>8 DEF Foresees, SeesRoles
<1> QED
  BY <1>2, <1>7, <1>8, <1>9 DEF Same

\* However roles are given, the room handed over, people removed, gone and come
\* back, and the client disconnected (the handlers of session.rs, and the reducer
\* of room-store.ts): in a quiet room the client lists exactly who is here, less
\* those who were removed, and as what they are, unless changes of roles crossed.
THEOREM Roster == Spec => []RosterConverges
<1>1. Ranges /\ InTurn /\ Foreseen => RosterConverges
  BY QuietSees DEF RosterConverges
<1> QED
  BY <1>1, ForeseenAlways, PTL

\* The role the client takes for its own, from a snapshot or from an announcement
\* (permissions_updated), is its role in the room, unless changes of roles crossed.
THEOREM Authority == Spec => []AuthorityIsMine
<1>1. Ranges /\ InTurn /\ Foreseen => AuthorityIsMine
  BY QuietSees DEF AuthorityIsMine
<1> QED
  BY <1>1, ForeseenAlways, PTL

\* However many lists broadcast_queue reads and announces at once, the one with the
\* last number is the queue, unless they were announced in another order.
THEOREM QueueShown == Spec => []QueueSettles
<1>1. Ranges /\ InTurn /\ Foreseen => QueueSettles
  BY QuietSees DEF QueueSettles
<1> QED
  BY <1>1, ForeseenAlways, PTL

\* What the room is called and looks like, and what its settings' form says while
\* nobody has typed in it, is what they are (room_updated, and the effects of
\* theme-provider.tsx and settings.tsx), though a change and its announcement are
\* steps apart, unless changes crossed; outside it the visitor's theme is back.
THEOREM RoomShown == Spec => []RoomIsShown
<1>1. ASSUME Ranges, Foreseen, Shown
      PROVE  RoomIsShown
  <2>1. ~inRoom => Theme = own
    BY <1>1 DEF Shown, RoomTheme, Theme
  <2>2. ASSUME Quiet, "room" \notin crossed
        PROVE  /\ store.room = info /\ Theme = info.theme
               /\ panel = "settings" /\ ~form.typed =>
                    form.name = info.name /\ form.gq = info.gq
    <3>1. store.room = info
      BY <1>1, <2>2, QuietSees
    <3>2. info \in RoomSnapshot
      BY <1>1 DEF Ranges, Server, Settings
    <3>3. info # None /\ info.theme # None
      <4>1. info.theme \in Themes
        BY <3>2 DEF RoomSnapshot
      <4> QED
        BY <3>2, <4>1, Constants
    <3> QED
      BY <1>1, <3>1, <3>3 DEF Shown, RoomTheme, Theme
  <2> QED
    BY <2>1, <2>2 DEF RoomIsShown
<1> QED
  BY <1>1, ForeseenAlways, ShownAlways, PTL

------------------------------------------------------------------------------
(* What the chat says.  These lemmas are about lists: ms as a client shows   *)
(* it, lg as the log has it, said from whoever is about to announce          *)
(* something to its number in the log.                                       *)

Numbered(lg) == \A n \in DOMAIN lg : lg[n].id = n
Single(ms) == \A i, j \in DOMAIN ms : ms[i].id = ms[j].id => i = j

\* What is shown is in the log, and shown once.
Quoted(ms, lg) ==
  Single(ms) /\ \A i \in DOMAIN ms : ms[i].id \in DOMAIN lg /\ ms[i] = lg[ms[i].id]

\* What comes after a message, less what was said after it: this has overtaken it,
\* or will when it is announced.
After(ms, i) == {ms[j].id : j \in i + 1 .. Len(ms)}
Overtaken(ms, i) == {n \in After(ms, i) : n < ms[i].id}
Late(said, n) == {u \in DOMAIN said : said[u] < n}

\* So many may be in a room that a message is pushed out of the list only when
\* the window of a snapshot has gone by it.
Crowd == MaxMessages - MaxRecent + 1
FewLate(ms, said) ==
  \A i \in DOMAIN ms :
    Cardinality(Overtaken(ms, i)) + Cardinality(Late(said, ms[i].id)) < Crowd

\* Nothing is missing that was announced.
Complete(ms, lg, said) ==
  \A n \in DOMAIN lg :
    n > Len(lg) - MaxRecent /\ lg[n].by # None /\ (\A u \in DOMAIN said : said[u] # n) =>
      \E i \in DOMAIN ms : ms[i].id = n

Heeds(ms, lg, said) == Quoted(ms, lg) /\ FewLate(ms, said) /\ Complete(ms, lg, said)

\* Both are finite, and counted.
LEMMA LateCounted ==
  ASSUME NEW ms \in Seq(ChatMessage), NEW i \in DOMAIN ms, NEW said, IsFiniteSet(DOMAIN said),
         NEW n
  PROVE  /\ IsFiniteSet(Overtaken(ms, i)) /\ Cardinality(Overtaken(ms, i)) \in Nat
         /\ IsFiniteSet(Late(said, n)) /\ Cardinality(Late(said, n)) \in Nat
<1> DEFINE top == ms[i].id
<1>1. /\ \A j \in 1 .. Len(ms) : ms[j].id \in Nat
      /\ Len(ms) \in Nat /\ i \in 1 .. Len(ms)
  <2>1. Len(ms) \in Nat /\ i \in 1 .. Len(ms) /\ \A j \in 1 .. Len(ms) : ms[j] \in ChatMessage
    OBVIOUS
  <2> QED
    BY <2>1 DEF ChatMessage
<1>2. top \in Nat /\ \A j \in i + 1 .. Len(ms) : ms[j].id \in Nat
  BY <1>1
<1>3. Overtaken(ms, i) \subseteq 0 .. top /\ IsFiniteSet(0 .. top)
  <2>1. Overtaken(ms, i) \subseteq 0 .. top
    BY <1>2 DEF Overtaken, After
  <2> HIDE DEF top
  <2> QED
    BY <1>2, <2>1, FS_Interval
<1>4. IsFiniteSet(Overtaken(ms, i))
  BY <1>3, FS_Subset
<1>5. Late(said, n) \subseteq DOMAIN said
  BY DEF Late
<1>6. IsFiniteSet(Late(said, n))
  BY <1>5, FS_Subset
<1> QED
  BY <1>4, <1>6, FS_CardinalityType

\* A message that is appended comes after those it was said before too.
LEMMA AppendOvertakes ==
  ASSUME NEW ms \in Seq(ChatMessage), NEW m \in ChatMessage
  PROVE  /\ \A i \in DOMAIN ms :
              Overtaken(Append(ms, m), i) =
                Overtaken(ms, i) \cup (IF m.id < ms[i].id THEN {m.id} ELSE {})
         /\ Overtaken(Append(ms, m), Len(ms) + 1) = {}
<1> DEFINE ns == Append(ms, m)
<1>1. Len(ns) = Len(ms) + 1 /\ ns[Len(ms) + 1] = m /\ \A i \in 1 .. Len(ms) : ns[i] = ms[i]
  OBVIOUS
<1>2. Len(ms) \in Nat /\ DOMAIN ms = 1 .. Len(ms)
  OBVIOUS
<1> HIDE DEF ns
<1>3. \A i \in 1 .. Len(ms) : After(ns, i) = After(ms, i) \cup {m.id}
  <2> TAKE i \in 1 .. Len(ms)
  <2>1. After(ns, i) \subseteq After(ms, i) \cup {m.id}
    <3> SUFFICES ASSUME NEW j \in i + 1 .. Len(ns)
                 PROVE  ns[j].id \in After(ms, i) \cup {m.id}
      BY DEF After
    <3>1. CASE j = Len(ms) + 1
      BY <1>1, <3>1
    <3>2. CASE j # Len(ms) + 1
      <4>1. j \in i + 1 .. Len(ms) /\ j \in 1 .. Len(ms)
        BY <1>1, <1>2, <3>2
      <4> QED
        BY <1>1, <4>1 DEF After
    <3> QED
      BY <3>1, <3>2
  <2>2. m.id \in After(ns, i)
    <3>1. Len(ms) + 1 \in i + 1 .. Len(ns)
      BY <1>1, <1>2
    <3> QED
      BY <1>1, <3>1 DEF After
  <2>3. ASSUME NEW j \in i + 1 .. Len(ms)
        PROVE  ms[j].id \in After(ns, i)
    <3>1. j \in i + 1 .. Len(ns) /\ j \in 1 .. Len(ms)
      BY <1>1, <1>2
    <3>2. ns[j] = ms[j]
      BY <1>1, <3>1
    <3> QED
      BY <3>1, <3>2 DEF After
  <2> QED
    BY <2>1, <2>2, <2>3 DEF After
<1>4. After(ns, Len(ms) + 1) = {}
  <2>1. Len(ms) + 1 + 1 .. Len(ns) = {}
    BY <1>1, <1>2
  <2> QED
    BY <2>1 DEF After
<1>5. \A i \in 1 .. Len(ms) :
        Overtaken(ns, i) = Overtaken(ms, i) \cup (IF m.id < ms[i].id THEN {m.id} ELSE {})
  BY <1>1, <1>3 DEF Overtaken
<1>6. Overtaken(ns, Len(ms) + 1) = {}
  BY <1>4 DEF Overtaken
<1> QED
  BY <1>2, <1>5, <1>6 DEF ns

\* The last messages of a list that is one too long are all but the first.
LEMMA LastOfOneMore ==
  ASSUME NEW ms \in Seq(ChatMessage), NEW k \in Nat \ {0}, Len(ms) <= k + 1
  PROVE  /\ Len(ms) <= k => LastOf(ms, k) = ms
         /\ Len(ms) = k + 1 => LastOf(ms, k) = Tail(ms)
<1>1. Len(ms) \in Nat /\ k \in Nat
  OBVIOUS
<1>2. CASE Len(ms) <= k
  <2>1. ~(Len(ms) > k) /\ Len(ms) # k + 1
    BY <1>1, <1>2
  <2>2. LastOf(ms, k) = SubSeq(ms, 0 + 1, Len(ms)) /\ 0 + 1 = 1
    BY <2>1 DEF LastOf
  <2>3. SubSeq(ms, 1, Len(ms)) = ms
    BY SubSeqFull
  <2> QED
    BY <2>1, <2>2, <2>3
<1>3. CASE Len(ms) = k + 1
  <2>1. Len(ms) > k /\ ~(Len(ms) <= k) /\ Len(ms) - k + 1 = 2
    BY <1>1, <1>3
  <2>2. LastOf(ms, k) = SubSeq(ms, 2, Len(ms))
    BY <2>1 DEF LastOf
  <2>3. SubSeq(ms, 2, Len(ms)) = Tail(ms)
    BY <1>3, ms # <<>>, TailIsSubSeq
  <2> QED
    BY <2>1, <2>2, <2>3
<1> QED
  BY <1>1, <1>2, <1>3

\* Less the first, what was overtaken still is.
LEMMA TailOvertaken ==
  ASSUME NEW ms \in Seq(ChatMessage), ms # <<>>
  PROVE  /\ Tail(ms) \in Seq(ChatMessage) /\ Len(Tail(ms)) = Len(ms) - 1
         /\ \A i \in 1 .. Len(ms) - 1 : Tail(ms)[i] = ms[i + 1]
         /\ \A i \in 1 .. Len(ms) - 1 : Overtaken(Tail(ms), i) = Overtaken(ms, i + 1)
<1> DEFINE ns == Tail(ms)
<1>1. /\ Len(ms) \in Nat \ {0} /\ ns \in Seq(ChatMessage) /\ Len(ns) = Len(ms) - 1
      /\ \A i \in 1 .. Len(ms) - 1 : ns[i] = ms[i + 1]
  OBVIOUS
<1> HIDE DEF ns
<1>2. ASSUME NEW i \in 1 .. Len(ms) - 1
      PROVE  After(ns, i) = After(ms, i + 1)
  <2>1. ASSUME NEW j \in i + 1 .. Len(ns)
        PROVE  ns[j].id \in After(ms, i + 1)
    <3>1. j + 1 \in (i + 1) + 1 .. Len(ms) /\ j \in 1 .. Len(ms) - 1
      BY <1>1
    <3>2. ns[j] = ms[j + 1]
      BY <1>1, <3>1
    <3> QED
      BY <3>1, <3>2 DEF After
  <2>2. ASSUME NEW j \in (i + 1) + 1 .. Len(ms)
        PROVE  ms[j].id \in After(ns, i)
    <3>1. j - 1 \in i + 1 .. Len(ns) /\ j - 1 \in 1 .. Len(ms) - 1 /\ (j - 1) + 1 = j
      BY <1>1
    <3>2. ns[j - 1] = ms[j]
      BY <1>1, <3>1
    <3> QED
      BY <3>1, <3>2 DEF After
  <2> QED
    BY <2>1, <2>2 DEF After
<1>3. \A i \in 1 .. Len(ms) - 1 : Overtaken(ns, i) = Overtaken(ms, i + 1)
  BY <1>1, <1>2 DEF Overtaken
<1> QED
  BY <1>1, <1>3 DEF ns

\* What is shown stays as it is; the log grows, by a line of the room's own or by
\* what somebody is still to announce.
LEMMA LogGrows ==
  ASSUME NEW ms \in Seq(ChatMessage), NEW lg \in Seq(ChatMessage), Quoted(ms, lg),
         NEW line \in ChatMessage
  PROVE  /\ Quoted(ms, Append(lg, line)) /\ Len(Append(lg, line)) = Len(lg) + 1
         /\ \A i \in DOMAIN ms : ms[i].id <= Len(lg)
         /\ \A n \in DOMAIN Append(lg, line) :
              n = Len(lg) + 1 \/ (n \in DOMAIN lg /\ Append(lg, line)[n] = lg[n])
         /\ Append(lg, line)[Len(lg) + 1] = line
         /\ Numbered(lg) /\ line.id = Len(lg) + 1 => Numbered(Append(lg, line))
<1> DEFINE l2 == Append(lg, line)
<1>1. /\ Len(lg) \in Nat /\ DOMAIN lg = 1 .. Len(lg) /\ Len(l2) = Len(lg) + 1
      /\ DOMAIN l2 = 1 .. Len(lg) + 1 /\ l2[Len(lg) + 1] = line
      /\ \A n \in 1 .. Len(lg) : l2[n] = lg[n]
  OBVIOUS
<1> HIDE DEF l2
<1>2. Quoted(ms, l2)
  BY <1>1 DEF Quoted
<1>3. \A i \in DOMAIN ms : ms[i].id <= Len(lg)
  BY <1>1 DEF Quoted
<1>4. \A n \in DOMAIN l2 : n = Len(lg) + 1 \/ (n \in DOMAIN lg /\ l2[n] = lg[n])
  BY <1>1
<1>5. Numbered(lg) /\ line.id = Len(lg) + 1 => Numbered(l2)
  BY <1>1, <1>4 DEF Numbered
<1> QED
  BY <1>1, <1>2, <1>3, <1>4, <1>5 DEF l2

\* A line of the room's own is nothing to be shown.
LEMMA RoomLineHeeds ==
  ASSUME NEW ms \in Seq(ChatMessage), NEW lg \in Seq(ChatMessage), NEW said,
         Heeds(ms, lg, said), NEW line \in ChatMessage, line.by = None
  PROVE  Heeds(ms, Append(lg, line), said)
<1> DEFINE l2 == Append(lg, line)
<1>1. /\ Quoted(ms, l2) /\ Len(l2) = Len(lg) + 1 /\ l2[Len(lg) + 1] = line
      /\ \A n \in DOMAIN l2 : n = Len(lg) + 1 \/ (n \in DOMAIN lg /\ l2[n] = lg[n])
  BY LogGrows DEF Heeds
<1> HIDE DEF l2
<1>2. Len(lg) \in Nat /\ DOMAIN lg = 1 .. Len(lg) /\ MaxRecent \in Nat
  BY Constants
<1>3. Complete(ms, l2, said)
  <2> SUFFICES ASSUME NEW n \in DOMAIN l2, n > Len(l2) - MaxRecent, l2[n].by # None,
                      \A u \in DOMAIN said : said[u] # n
               PROVE  \E i \in DOMAIN ms : ms[i].id = n
    BY DEF Complete
  <2>1. n \in DOMAIN lg /\ l2[n] = lg[n]
    BY <1>1
  <2>2. n > Len(lg) - MaxRecent
    BY <1>1, <1>2, <2>1
  <2> QED
    BY <2>1, <2>2 DEF Heeds, Complete
<1> QED
  BY <1>1, <1>3 DEF Heeds, l2

\* Somebody says something: it is last, and nobody has been told of it.
LEMMA SayingHeeds ==
  ASSUME NEW ms \in Seq(ChatMessage), NEW lg \in Seq(ChatMessage), NEW said,
         Heeds(ms, lg, said), NEW line \in ChatMessage, NEW u, u \notin DOMAIN said,
         NEW more, DOMAIN more = DOMAIN said \cup {u}, more[u] = Len(lg) + 1,
         \A x \in DOMAIN said : more[x] = said[x]
  PROVE  Heeds(ms, Append(lg, line), more)
<1> DEFINE l2 == Append(lg, line)
<1>1. /\ Quoted(ms, l2) /\ Len(l2) = Len(lg) + 1
      /\ \A i \in DOMAIN ms : ms[i].id <= Len(lg)
      /\ \A n \in DOMAIN l2 : n = Len(lg) + 1 \/ (n \in DOMAIN lg /\ l2[n] = lg[n])
  BY LogGrows DEF Heeds
<1> HIDE DEF l2
<1>2. Len(lg) \in Nat /\ DOMAIN lg = 1 .. Len(lg) /\ MaxRecent \in Nat
  BY Constants
<1>3. \A i \in DOMAIN ms : Late(more, ms[i].id) = Late(said, ms[i].id)
  <2> TAKE i \in DOMAIN ms
  <2>1. ms[i].id \in Nat /\ ms[i].id <= Len(lg)
    BY <1>1, <1>2 DEF Quoted, Heeds
  <2>2. ~(more[u] < ms[i].id)
    BY <1>2, <2>1
  <2> QED
    BY <2>2 DEF Late
<1>4. FewLate(ms, more)
  BY <1>3 DEF Heeds, FewLate
<1>5. Complete(ms, l2, more)
  <2> SUFFICES ASSUME NEW n \in DOMAIN l2, n > Len(l2) - MaxRecent, l2[n].by # None,
                      \A x \in DOMAIN more : more[x] # n
               PROVE  \E i \in DOMAIN ms : ms[i].id = n
    BY DEF Complete
  <2>1. n \in DOMAIN lg /\ l2[n] = lg[n]
    BY <1>1
  <2>2. n > Len(lg) - MaxRecent
    BY <1>1, <1>2, <2>1
  <2>3. \A x \in DOMAIN said : said[x] # n
    OBVIOUS
  <2> QED
    BY <2>1, <2>2, <2>3 DEF Heeds, Complete
<1> QED
  BY <1>1, <1>4, <1>5 DEF Heeds, l2

Without(said, u) == [x \in DOMAIN said \ {u} |-> said[x]]

\* Who announces something is no longer about to: what is shown already, since a
\* snapshot had it, is left where it is,
LEMMA FewerLate ==
  ASSUME NEW said, IsFiniteSet(DOMAIN said), NEW u \in DOMAIN said, NEW n
  PROVE  /\ Late(Without(said, u), n) = Late(said, n) \ {u}
         /\ IsFiniteSet(Late(Without(said, u), n)) /\ Cardinality(Late(Without(said, u), n)) \in Nat
         /\ Cardinality(Late(said, n)) \in Nat
         /\ Cardinality(Late(Without(said, u), n)) <= Cardinality(Late(said, n))
         /\ said[u] < n => Cardinality(Late(Without(said, u), n)) = Cardinality(Late(said, n)) - 1
         /\ Cardinality(DOMAIN said) \in Nat
         /\ Cardinality(Late(Without(said, u), n)) < Cardinality(DOMAIN said)
<1>1. Late(Without(said, u), n) = Late(said, n) \ {u}
  BY DEF Late, Without
<1>2. Late(said, n) \subseteq DOMAIN said /\ Late(Without(said, u), n) \subseteq DOMAIN said \ {u}
  BY DEF Late, Without
<1>3. IsFiniteSet(Late(said, n)) /\ IsFiniteSet(DOMAIN said \ {u})
  BY <1>2, FS_Subset
<1>4. /\ IsFiniteSet(Late(Without(said, u), n))
      /\ Cardinality(Late(Without(said, u), n)) =
           IF u \in Late(said, n) THEN Cardinality(Late(said, n)) - 1
           ELSE Cardinality(Late(said, n))
  BY <1>1, <1>3, FS_RemoveElement
<1>5. Cardinality(Late(said, n)) \in Nat /\ Cardinality(Late(Without(said, u), n)) \in Nat
      /\ Cardinality(DOMAIN said) \in Nat
  BY <1>3, <1>4, FS_CardinalityType
<1>6. said[u] < n => u \in Late(said, n)
  BY DEF Late, Without
<1>7. Cardinality(DOMAIN said \ {u}) = Cardinality(DOMAIN said) - 1
  BY FS_RemoveElement
<1>8. Cardinality(Late(Without(said, u), n)) <= Cardinality(DOMAIN said \ {u})
  BY <1>2, <1>3, FS_Subset
<1>9. Cardinality(Late(Without(said, u), n)) < Cardinality(DOMAIN said)
  BY <1>5, <1>7, <1>8
<1> QED
  BY <1>1, <1>4, <1>5, <1>6, <1>9

LEMMA ShownHeeds ==
  ASSUME NEW ms \in Seq(ChatMessage), NEW lg \in Seq(ChatMessage), NEW said,
         Heeds(ms, lg, said), IsFiniteSet(DOMAIN said), NEW u \in DOMAIN said,
         \E i \in DOMAIN ms : ms[i].id = said[u]
  PROVE  Heeds(ms, lg, Without(said, u))
<1>1. FewLate(ms, Without(said, u))
  <2> SUFFICES ASSUME NEW i \in DOMAIN ms
               PROVE  Cardinality(Overtaken(ms, i)) + Cardinality(Late(Without(said, u), ms[i].id)) < Crowd
    BY DEF FewLate
  <2>1. Cardinality(Overtaken(ms, i)) + Cardinality(Late(said, ms[i].id)) < Crowd
    BY DEF Heeds, FewLate
  <2>2. Cardinality(Overtaken(ms, i)) \in Nat
    BY LateCounted
  <2>3. /\ Cardinality(Late(Without(said, u), ms[i].id)) <= Cardinality(Late(said, ms[i].id))
        /\ Cardinality(Late(Without(said, u), ms[i].id)) \in Nat
        /\ Cardinality(Late(said, ms[i].id)) \in Nat
    <3> DEFINE n == ms[i].id
    <3> HIDE DEF n
    <3>1. /\ Cardinality(Late(Without(said, u), n)) <= Cardinality(Late(said, n))
          /\ Cardinality(Late(Without(said, u), n)) \in Nat /\ Cardinality(Late(said, n)) \in Nat
      BY FewerLate
    <3> QED
      BY <3>1 DEF n
  <2>4. Crowd \in Int
    BY Constants DEF Crowd
  <2> QED
    BY <2>1, <2>2, <2>3, <2>4
<1>2. Complete(ms, lg, Without(said, u))
  <2> SUFFICES ASSUME NEW n \in DOMAIN lg, n > Len(lg) - MaxRecent, lg[n].by # None,
                      \A x \in DOMAIN said \ {u} : said[x] # n
               PROVE  \E i \in DOMAIN ms : ms[i].id = n
    BY DEF Complete, Without
  <2>1. CASE n = said[u]
    BY <2>1
  <2>2. CASE n # said[u]
    BY <2>2 DEF Heeds, Complete
  <2> QED
    BY <2>1, <2>2
<1> QED
  BY <1>1, <1>2 DEF Heeds

\* and what is not shown comes last.
LEMMA AppendedHeeds ==
  ASSUME NEW ms \in Seq(ChatMessage), NEW lg \in Seq(ChatMessage), NEW said,
         Heeds(ms, lg, said), IsFiniteSet(DOMAIN said), NEW u \in DOMAIN said,
         Cardinality(DOMAIN said) <= Crowd,
         NEW m \in ChatMessage, m.id = said[u], m.id \in DOMAIN lg, m = lg[m.id],
         \A i \in DOMAIN ms : ms[i].id # m.id
  PROVE  Heeds(Append(ms, m), lg, Without(said, u))
<1>1. ASSUME NEW n
      PROVE  /\ Cardinality(Late(Without(said, u), n)) <= Cardinality(Late(said, n))
             /\ Cardinality(Late(Without(said, u), n)) \in Nat /\ Cardinality(Late(said, n)) \in Nat
             /\ said[u] < n => Cardinality(Late(Without(said, u), n)) = Cardinality(Late(said, n)) - 1
  BY FewerLate
<1> DEFINE ns == Append(ms, m)
<1>2. /\ Len(ms) \in Nat /\ DOMAIN ms = 1 .. Len(ms) /\ DOMAIN ns = 1 .. Len(ms) + 1
      /\ ns[Len(ms) + 1] = m /\ \A i \in 1 .. Len(ms) : ns[i] = ms[i]
  OBVIOUS
<1>3. /\ \A i \in DOMAIN ms :
           Overtaken(ns, i) = Overtaken(ms, i) \cup (IF m.id < ms[i].id THEN {m.id} ELSE {})
      /\ Overtaken(ns, Len(ms) + 1) = {}
  BY AppendOvertakes
<1> HIDE DEF ns
<1>4. \A i \in DOMAIN ns : i = Len(ms) + 1 \/ (i \in DOMAIN ms /\ ns[i] = ms[i])
  BY <1>2
<1>5. Quoted(ns, lg)
  BY <1>2, <1>4 DEF Quoted, Single, Heeds
<1>6. Crowd \in Int
  BY Constants DEF Crowd
<1>7. ASSUME NEW i \in DOMAIN ns
      PROVE  Cardinality(Overtaken(ns, i)) + Cardinality(Late(Without(said, u), ns[i].id)) < Crowd
  <2>1. CASE i = Len(ms) + 1
    <3>1. Cardinality(Overtaken(ns, i)) = 0
      BY <1>3, <2>1, FS_EmptySet
    <3>2. /\ Cardinality(Late(Without(said, u), ns[i].id)) < Cardinality(DOMAIN said)
          /\ Cardinality(DOMAIN said) \in Nat /\ Cardinality(Late(Without(said, u), ns[i].id)) \in Nat
      BY FewerLate
    <3> QED
      BY <1>6, <3>1, <3>2
  <2>2. CASE i \in DOMAIN ms /\ ns[i] = ms[i]
    <3> DEFINE over == Cardinality(Overtaken(ms, i))
               late == Cardinality(Late(said, ms[i].id))
               next == Cardinality(Overtaken(ns, i))
               left == Cardinality(Late(Without(said, u), ms[i].id))
    <3>1. over + late < Crowd
      BY <2>2 DEF Heeds, FewLate
    <3>2. IsFiniteSet(Overtaken(ms, i)) /\ over \in Nat
      BY <2>2, LateCounted
    <3>3. /\ left \in Nat /\ late \in Nat /\ left <= late
          /\ m.id < ms[i].id => left = late - 1
      BY <1>1
    <3>4. CASE m.id < ms[i].id
      <4>1. Overtaken(ns, i) = Overtaken(ms, i) \cup {m.id}
        BY <1>3, <2>2, <3>4
      <4>2. next = over \/ next = over + 1
        <5> DEFINE S == Overtaken(ms, i)
        <5> HIDE DEF S
        <5>1. IsFiniteSet(S)
          BY <3>2 DEF S
        <5>2. Cardinality(S \cup {m.id}) = Cardinality(S) \/ Cardinality(S \cup {m.id}) = Cardinality(S) + 1
          BY <5>1, FS_AddElement
        <5> QED
          BY <4>1, <5>2 DEF S
      <4> HIDE DEF over, late, next, left
      <4>3. next + left < Crowd
        BY <1>6, <3>1, <3>2, <3>3, <3>4, <4>2
      <4> QED
        BY <2>2, <4>3 DEF next, left
    <3>5. CASE ~(m.id < ms[i].id)
      <4>1. Overtaken(ns, i) = Overtaken(ms, i)
        BY <1>3, <2>2, <3>5
      <4>2. next = over
        BY <4>1
      <4> HIDE DEF over, late, next, left
      <4>3. next + left < Crowd
        BY <1>6, <3>1, <3>2, <3>3, <4>2
      <4> QED
        BY <2>2, <4>3 DEF next, left
    <3> QED
      BY <3>4, <3>5
  <2> QED
    BY <1>4, <2>1, <2>2
<1>8. Complete(ns, lg, Without(said, u))
  <2> SUFFICES ASSUME NEW n \in DOMAIN lg, n > Len(lg) - MaxRecent, lg[n].by # None,
                      \A x \in DOMAIN said \ {u} : said[x] # n
               PROVE  \E i \in DOMAIN ns : ns[i].id = n
    BY DEF Complete, Without
  <2>1. CASE n = said[u]
    BY <1>2, <2>1
  <2>2. CASE n # said[u]
    <3>1. \A x \in DOMAIN said : said[x] # n
      BY <2>2
    <3>2. PICK i \in DOMAIN ms : ms[i].id = n
      BY <3>1 DEF Heeds, Complete
    <3> QED
      BY <1>2, <3>2
  <2> QED
    BY <2>1, <2>2
<1> QED
  BY <1>5, <1>7, <1>8 DEF Heeds, FewLate, ns

\* What drops out of a list that has grown too long is in no snapshot any more: so
\* few were late that a window of those after it were said after it.
LEMMA DroppedHeeds ==
  ASSUME NEW ms \in Seq(ChatMessage), NEW lg \in Seq(ChatMessage), NEW said,
         Heeds(ms, lg, said), IsFiniteSet(DOMAIN said), Len(ms) = MaxMessages + 1
  PROVE  Heeds(Tail(ms), lg, said)
<1> DEFINE ns == Tail(ms)
           first == ms[1].id
           I == After(ms, 1)
           len == Len(ms)
<1>1. MaxMessages \in Nat \ {0} /\ MaxRecent \in Nat /\ Crowd = MaxMessages - MaxRecent + 1
  BY Constants DEF Crowd
<1>2. /\ len = MaxMessages + 1 /\ DOMAIN ms = 1 .. len /\ 1 \in DOMAIN ms /\ ms # <<>>
      /\ Len(lg) \in Nat /\ DOMAIN lg = 1 .. Len(lg)
  BY <1>1
<1>3. /\ ns \in Seq(ChatMessage) /\ DOMAIN ns = 1 .. len - 1
      /\ \A i \in 1 .. len - 1 : ns[i] = ms[i + 1] /\ Overtaken(ns, i) = Overtaken(ms, i + 1)
  BY <1>2, TailOvertaken
<1> HIDE DEF ns, len
<1>4. \A i \in 1 .. len - 1 : i + 1 \in DOMAIN ms
  BY <1>1, <1>2
<1>5. Quoted(ns, lg)
  <2>1. \A i \in DOMAIN ns : ns[i].id \in DOMAIN lg /\ ns[i] = lg[ns[i].id]
    BY <1>3, <1>4 DEF Heeds, Quoted
  <2>2. ASSUME NEW i \in DOMAIN ns, NEW j \in DOMAIN ns, ns[i].id = ns[j].id
        PROVE  i = j
    <3>1. i + 1 = j + 1
      <4>1. ns[i] = ms[i + 1] /\ ns[j] = ms[j + 1] /\ i + 1 \in DOMAIN ms /\ j + 1 \in DOMAIN ms
        BY <1>3, <1>4
      <4>2. ms[i + 1].id = ms[j + 1].id
        BY <2>2, <4>1
      <4>3. Single(ms)
        BY DEF Heeds, Quoted
      <4> QED
        BY <4>1, <4>2, <4>3 DEF Single
    <3>2. i \in Nat /\ j \in Nat
      BY <1>3
    <3> QED
      BY <3>1, <3>2
  <2> QED
    BY <2>1, <2>2 DEF Quoted, Single
<1>6. FewLate(ns, said)
  BY <1>3, <1>4 DEF Heeds, FewLate
<1>7. first <= Len(lg) - MaxRecent
  <2>1. first \in 1 .. Len(lg) /\ \A n \in I : n \in 1 .. Len(lg) /\ n # first
    <3>1. \A j \in 2 .. len : j \in DOMAIN ms /\ j # 1
      BY <1>1, <1>2
    <3>2. \A j \in 2 .. len : ms[j].id \in 1 .. Len(lg) /\ ms[j].id # first
      BY <1>2, <3>1 DEF Heeds, Quoted, Single
    <3>3. I = {ms[j].id : j \in 2 .. len}
      BY DEF After, len
    <3>4. first \in 1 .. Len(lg)
      BY <1>2 DEF Heeds, Quoted
    <3> QED
      BY <3>2, <3>3, <3>4
  <2>2. IsFiniteSet(I)
    <3>1. IsFiniteSet(1 .. Len(lg)) /\ I \subseteq 1 .. Len(lg)
      BY <1>2, <2>1, FS_Interval
    <3> HIDE DEF I
    <3> QED
      BY <3>1, FS_Subset
  <2>3. MaxMessages <= Cardinality(I)
    <3> DEFINE f == [j \in 2 .. len |-> ms[j].id]
    <3>1. I = {ms[j].id : j \in 2 .. len}
      BY DEF After, len
    <3>2. f \in [2 .. len -> I]
      BY <3>1
    <3>3. \A a, b \in 2 .. len : f[a] = f[b] => a = b
      <4>1. \A j \in 2 .. len : j \in DOMAIN ms
        BY <1>1, <1>2
      <4> QED
        BY <4>1 DEF Heeds, Quoted, Single
    <3> HIDE DEF f, I
    <3>4. f \in Injection(2 .. len, I)
      BY <3>2, <3>3 DEF Injection, IsInjective
    <3>5. Cardinality(2 .. len) <= Cardinality(I)
      BY <2>2, <3>4, FS_Injection
    <3>6. Cardinality(2 .. len) = MaxMessages
      <4>1. len \in Int /\ ~(2 > len) /\ len - 2 + 1 = MaxMessages
        BY <1>1, <1>2
      <4> QED
        BY <4>1, FS_Interval
    <3> QED
      BY <3>5, <3>6
  <2> DEFINE over == Overtaken(ms, 1)
             later == first + 1 .. Len(lg)
  <2>4. IsFiniteSet(over) /\ Cardinality(over) \in Nat /\ Cardinality(over) < Crowd
    <3>1. IsFiniteSet(over) /\ Cardinality(over) \in Nat /\ Cardinality(Late(said, first)) \in Nat
      BY <1>2, LateCounted
    <3>2. Cardinality(over) + Cardinality(Late(said, first)) < Crowd
      BY <1>2 DEF Heeds, FewLate
    <3> HIDE DEF over
    <3> QED
      BY <1>1, <3>1, <3>2
  <2>5. IsFiniteSet(later) /\ Cardinality(later) = Len(lg) - first
    <3>1. first + 1 \in Int /\ Len(lg) \in Int /\ first <= Len(lg)
      BY <1>2, <2>1
    <3>2. /\ IsFiniteSet(later)
          /\ Cardinality(later) = IF first + 1 > Len(lg) THEN 0 ELSE Len(lg) - (first + 1) + 1
      BY <3>1, FS_Interval
    <3>3. first \in Int
      BY <2>1
    <3> HIDE DEF first
    <3> QED
      BY <3>1, <3>2, <3>3
  <2>6. I \subseteq over \cup later
    BY <1>2, <2>1 DEF Overtaken
  <2> HIDE DEF I, over, later
  <2>7. /\ IsFiniteSet(over \cup later) /\ Cardinality(I) <= Cardinality(over \cup later)
    <3>1. IsFiniteSet(over \cup later)
      BY <2>4, <2>5, FS_Union
    <3> QED
      BY <2>6, <3>1, FS_Subset
  <2>8. Cardinality(over \cup later) = Cardinality(over) + Cardinality(later) - Cardinality(over \cap later)
    BY <2>4, <2>5, FS_Union
  <2>9. Cardinality(over \cap later) \in Nat
    BY <2>4, FS_Intersection, FS_CardinalityType
  <2>10. Cardinality(I) \in Nat /\ first \in Nat /\ Cardinality(later) \in Nat
    BY <2>1, <2>2, <2>5, FS_CardinalityType
  <2> HIDE DEF first
  <2> QED
    BY <1>1, <1>2, <2>3, <2>4, <2>5, <2>7, <2>8, <2>9, <2>10
<1>8. Complete(ns, lg, said)
  <2> SUFFICES ASSUME NEW n \in DOMAIN lg, n > Len(lg) - MaxRecent, lg[n].by # None,
                      \A x \in DOMAIN said : said[x] # n
               PROVE  \E i \in DOMAIN ns : ns[i].id = n
    BY DEF Complete
  <2>1. PICK i \in DOMAIN ms : ms[i].id = n
    BY DEF Heeds, Complete
  <2>2. i # 1
    <3>1. n \in Nat /\ ~(n <= Len(lg) - MaxRecent)
      BY <1>1, <1>2
    <3> QED
      BY <1>7, <2>1, <3>1
  <2>3. i - 1 \in 1 .. len - 1 /\ (i - 1) + 1 = i
    BY <1>2, <2>2
  <2>4. ns[i - 1] = ms[i]
    BY <1>3, <2>3
  <2> QED
    BY <1>3, <2>1, <2>3, <2>4
<1> QED
  BY <1>5, <1>6, <1>8 DEF Heeds, ns

\* The end of a list, from the one after the k-th on.
EndOf(last, list, n, k) ==
  /\ last \in Seq(ChatMessage) /\ Len(last) <= n
  /\ k = 0 \/ k = Len(list) - n
  /\ Len(last) = Len(list) - k
  /\ \A i \in 1 .. Len(last) : i + k \in 1 .. Len(list) /\ last[i] = list[i + k]

LEMMA LastOfEnds ==
  ASSUME NEW list \in Seq(ChatMessage), NEW n \in Nat \ {0}
  PROVE  \E k \in Nat : EndOf(LastOf(list, n), list, n, k)
<1> DEFINE last == LastOf(list, n)
<1>1. /\ last \in Seq(ChatMessage) /\ Len(last) <= n /\ Len(last) <= Len(list)
      /\ \E k \in Nat :
           /\ k = 0 \/ k = Len(list) - n
           /\ Len(last) = Len(list) - k
           /\ \A i \in 1 .. Len(last) : i + k \in 1 .. Len(list) /\ last[i] = list[i + k]
  BY LastOfType, ZenonT(30)
<1> HIDE DEF last
<1>2. \E k \in Nat : EndOf(last, list, n, k)
  BY <1>1 DEF EndOf
<1> QED
  BY <1>2 DEF last

\* A snapshot has everything in its window, in order.
LEMMA SnapshotHeeds ==
  ASSUME NEW lg \in Seq(ChatMessage), Numbered(lg), NEW said, IsFiniteSet(DOMAIN said),
         Cardinality(DOMAIN said) < Crowd
  PROVE  Heeds(LastOf(lg, MaxRecent), lg, said)
<1> DEFINE ms == LastOf(lg, MaxRecent)
<1>1. MaxMessages \in Nat \ {0} /\ MaxRecent \in Nat \ {0} /\ Crowd \in Int
  BY Constants DEF Crowd
<1>2. PICK k \in Nat : EndOf(ms, lg, MaxRecent, k)
  BY <1>1, LastOfEnds
<1>3. /\ ms \in Seq(ChatMessage) /\ (k = 0 \/ k = Len(lg) - MaxRecent)
      /\ Len(ms) = Len(lg) - k
      /\ \A i \in 1 .. Len(ms) : i + k \in 1 .. Len(lg) /\ ms[i] = lg[i + k]
  BY <1>2 DEF EndOf
<1> HIDE DEF ms
<1>4. Len(lg) \in Nat /\ Len(ms) \in Nat /\ DOMAIN ms = 1 .. Len(ms) /\ DOMAIN lg = 1 .. Len(lg)
  BY <1>3
<1>5. \A i \in 1 .. Len(ms) : ms[i].id = i + k /\ i + k \in DOMAIN lg /\ ms[i] = lg[i + k]
  BY <1>3, <1>4 DEF Numbered
<1>6. Quoted(ms, lg)
  <2>1. \A i, j \in 1 .. Len(ms) : i + k = j + k => i = j
    OBVIOUS
  <2> QED
    BY <1>4, <1>5, <2>1 DEF Quoted, Single
<1>7. ASSUME NEW i \in DOMAIN ms
      PROVE  Cardinality(Overtaken(ms, i)) + Cardinality(Late(said, ms[i].id)) < Crowd
  <2>1. Overtaken(ms, i) = {}
    <3>1. \A j \in i + 1 .. Len(ms) : ms[j].id = j + k /\ ~(j + k < i + k)
      BY <1>4, <1>5
    <3>2. ms[i].id = i + k
      BY <1>4, <1>5
    <3> QED
      BY <3>1, <3>2 DEF Overtaken, After
  <2>2. Cardinality(Overtaken(ms, i)) = 0
    BY <2>1, FS_EmptySet
  <2> DEFINE late == Late(said, ms[i].id)
  <2>3. late \subseteq DOMAIN said
    BY DEF Late
  <2> HIDE DEF late
  <2>4. Cardinality(late) <= Cardinality(DOMAIN said) /\ Cardinality(late) \in Nat
        /\ Cardinality(DOMAIN said) \in Nat
    BY <2>3, FS_Subset, FS_CardinalityType
  <2>5. 0 + Cardinality(late) < Crowd
    BY <1>1, <2>4
  <2> QED
    BY <2>2, <2>5 DEF late
<1>8. Complete(ms, lg, said)
  <2> SUFFICES ASSUME NEW n \in DOMAIN lg, n > Len(lg) - MaxRecent
               PROVE  \E i \in DOMAIN ms : ms[i].id = n
    BY DEF Complete
  <2>1. n \in 1 .. Len(lg) /\ n > k
    BY <1>1, <1>3, <1>4
  <2>2. n - k \in 1 .. Len(ms) /\ (n - k) + k = n
    BY <1>3, <1>4, <2>1
  <2> QED
    BY <1>4, <1>5, <2>2
<1> QED
  BY <1>6, <1>7, <1>8 DEF Heeds, FewLate, ms

\* What is announced is shown, and nothing that a snapshot would have is lost.
LEMMA AnnouncedHeeds ==
  ASSUME NEW ms \in Seq(ChatMessage), NEW lg \in Seq(ChatMessage), NEW said,
         Heeds(ms, lg, said), Len(ms) <= MaxMessages, IsFiniteSet(DOMAIN said),
         NEW u \in DOMAIN said, Cardinality(DOMAIN said) <= Crowd,
         NEW m \in ChatMessage, m.id = said[u], m.id \in DOMAIN lg, m = lg[m.id]
  PROVE  Heeds(AppendMessage(ms, m), lg, Without(said, u))
<1>1. CASE \E i \in DOMAIN ms : ms[i].id = m.id
  <2>1. AppendMessage(ms, m) = ms
    BY <1>1 DEF AppendMessage
  <2> QED
    BY <1>1, <2>1, ShownHeeds
<1>2. CASE ~ \E i \in DOMAIN ms : ms[i].id = m.id
  <2> DEFINE ns == Append(ms, m)
  <2>1. AppendMessage(ms, m) = LastOf(ns, MaxMessages)
    BY <1>2 DEF AppendMessage
  <2>2. Heeds(ns, lg, Without(said, u))
    BY <1>2, AppendedHeeds
  <2>3. ns \in Seq(ChatMessage) /\ Len(ns) = Len(ms) + 1 /\ Len(ns) <= MaxMessages + 1
        /\ MaxMessages \in Nat \ {0}
    BY Constants
  <2> HIDE DEF ns
  <2>4. /\ Len(ns) <= MaxMessages => LastOf(ns, MaxMessages) = ns
        /\ Len(ns) = MaxMessages + 1 => LastOf(ns, MaxMessages) = Tail(ns)
    BY <2>3, LastOfOneMore
  <2>5. IsFiniteSet(DOMAIN Without(said, u))
    <3>1. DOMAIN Without(said, u) = DOMAIN said \ {u}
      BY DEF Without
    <3> QED
      BY <3>1, FS_RemoveElement
  <2>6. Len(ns) = MaxMessages + 1 => Heeds(Tail(ns), lg, Without(said, u))
    BY <2>2, <2>3, <2>5, DroppedHeeds
  <2>7. Len(ns) <= MaxMessages \/ Len(ns) = MaxMessages + 1
    BY <2>3
  <2> QED
    BY <2>1, <2>2, <2>4, <2>6, <2>7
<1> QED
  BY <1>1, <1>2
------------------------------------------------------------------------------
(* What the chat will say when everything that is on its way has arrived.   *)

Chatless(m) == m.t \notin {"ready", "chat_message"}

\* What a frame makes of the messages shown,
Heard(ms, m) ==
  CASE m.t = "ready" -> m.messages
    [] m.t = "chat_message" -> AppendMessage(ms, m.message)
    [] OTHER -> ms

\* and q, one frame after the other.
Hearing(ms, q, e) ==
  \E run \in [0 .. Len(q) -> Seq(ChatMessage)] :
    /\ run[0] = ms /\ run[Len(q)] = e
    /\ \A i \in 1 .. Len(q) : run[i] = Heard(run[i - 1], q[i])

LEMMA HeardApply ==
  ASSUME NEW s \in Stores, NEW m \in Frames
  PROVE  Apply(s, m).messages = Heard(s.messages, m)
<1>1. CASE m.t = "ready"
  <2>1. Apply(s, m) = ApplyReady(s, m)
    BY <1>1 DEF Apply
  <2> QED
    BY <1>1, <2>1 DEF ApplyReady, Stores, Heard
<1>2. CASE m.t = "chat_message"
  <2>1. Apply(s, m) = ApplyChat(s, m)
    BY <1>2 DEF Apply
  <2> QED
    BY <1>2, <2>1 DEF ApplyChat, Stores, Heard
<1>3. CASE Chatless(m)
  BY <1>3, ApplyFields DEF Chatless, Heard
<1> QED
  BY <1>1, <1>2, <1>3 DEF Chatless

LEMMA HeardType ==
  ASSUME NEW ms \in Seq(ChatMessage), NEW m \in Frames
  PROVE  /\ Heard(ms, m) \in Seq(ChatMessage)
         /\ Len(ms) <= MaxMessages => Len(Heard(ms, m)) <= MaxMessages
         /\ Chatless(m) => Heard(ms, m) = ms
<1>1. MaxMessages \in Nat \ {0} /\ MaxRecent \in 1 .. MaxMessages
  BY Constants
<1>2. CASE m.t = "ready"
  <2>1. m \in Readies
    BY <1>2 DEF Frames, PersonFrames, LeftFrames, QueueFrames, ChatFrames, RoomFrames,
       AuthorityFrames, ErrorFrames
  <2>2. m.messages \in Seq(ChatMessage) /\ Len(m.messages) <= MaxRecent
    BY <2>1 DEF Readies, Recents
  <2>3. Len(m.messages) <= MaxMessages
    BY <1>1, <2>2
  <2> QED
    BY <1>2, <2>2, <2>3 DEF Heard, Chatless
<1>3. CASE m.t = "chat_message"
  <2>1. m \in ChatFrames
    BY <1>3 DEF Frames, Readies, PersonFrames, LeftFrames, QueueFrames, RoomFrames,
       AuthorityFrames, ErrorFrames
  <2>2. m.message \in ChatMessage
    BY <2>1 DEF ChatFrames
  <2> QED
    BY <1>1, <1>3, <2>2, AppendMessageType DEF Heard, Chatless
<1>4. CASE Chatless(m)
  BY <1>4 DEF Heard, Chatless
<1> QED
  BY <1>2, <1>3, <1>4 DEF Chatless

LEMMA HearingNow ==
  ASSUME NEW ms \in Seq(ChatMessage)
  PROVE  Hearing(ms, <<>>, ms)
<1> DEFINE run == [i \in 0 .. Len(<<>>) |-> ms]
<1>1. Len(<<>>) = 0
  OBVIOUS
<1>2. run \in [0 .. Len(<<>>) -> Seq(ChatMessage)] /\ run[0] = ms /\ run[Len(<<>>)] = ms
  BY <1>1
<1>3. \A i \in 1 .. Len(<<>>) : run[i] = Heard(run[i - 1], <<>>[i])
  BY <1>1
<1> HIDE DEF run
<1> QED
  BY <1>2, <1>3 DEF Hearing

LEMMA HearingDone ==
  ASSUME NEW ms, NEW e, Hearing(ms, <<>>, e)
  PROVE  e = ms
<1>1. Len(<<>>) = 0
  OBVIOUS
<1> QED
  BY <1>1 DEF Hearing

\* The first frame is heard, and the rest is still to be.
LEMMA HearingFirst ==
  ASSUME NEW ms, NEW q \in Seq(Frames), q # <<>>, NEW e, Hearing(ms, q, e)
  PROVE  Hearing(Heard(ms, Head(q)), Tail(q), e)
<1>1. PICK run \in [0 .. Len(q) -> Seq(ChatMessage)] :
        /\ run[0] = ms /\ run[Len(q)] = e
        /\ \A i \in 1 .. Len(q) : run[i] = Heard(run[i - 1], q[i])
  BY DEF Hearing
<1> DEFINE rest == [i \in 0 .. Len(q) - 1 |-> run[i + 1]]
<1>2. Len(q) \in Nat \ {0} /\ Len(Tail(q)) = Len(q) - 1 /\ Head(q) = q[1]
      /\ \A i \in 1 .. Len(q) - 1 : Tail(q)[i] = q[i + 1]
  OBVIOUS
<1>3. rest \in [0 .. Len(q) - 1 -> Seq(ChatMessage)] /\ rest[0] = run[1] /\ rest[Len(q) - 1] = e
  BY <1>1, <1>2
<1>4. \A i \in 1 .. Len(q) - 1 : rest[i] = Heard(rest[i - 1], Tail(q)[i])
  <2> TAKE i \in 1 .. Len(q) - 1
  <2>1. i + 1 \in 1 .. Len(q) /\ i \in 0 .. Len(q) - 1 /\ i - 1 \in 0 .. Len(q) - 1
        /\ (i + 1) - 1 = i /\ (i - 1) + 1 = i
    BY <1>2
  <2>2. run[i + 1] = Heard(run[i], q[i + 1])
    BY <1>1, <2>1
  <2>3. rest[i] = run[i + 1] /\ rest[i - 1] = run[i]
    BY <2>1
  <2> QED
    BY <1>2, <2>2, <2>3
<1>5. run[1] = Heard(ms, q[1])
  <2>1. 1 \in 1 .. Len(q) /\ 1 - 1 = 0
    BY <1>2
  <2>2. run[1] = Heard(run[1 - 1], q[1])
    BY <1>1, <2>1
  <2> QED
    BY <1>1, <2>1, <2>2
<1> HIDE DEF rest
<1> QED
  BY <1>2, <1>3, <1>4, <1>5 DEF Hearing

\* More frames are sent: one of any kind, or some that are not about the chat.
LEMMA HearingMore ==
  ASSUME NEW ms, NEW q \in Seq(Frames), NEW e \in Seq(ChatMessage), Hearing(ms, q, e),
         NEW l \in Seq(Frames), NEW f \in Seq(ChatMessage), Len(l) # 0 \/ f = e,
         \A i \in 1 .. Len(l) : f = Heard(IF i = 1 THEN e ELSE f, l[i])
  PROVE  Hearing(ms, q \o l, f)
<1>1. PICK run \in [0 .. Len(q) -> Seq(ChatMessage)] :
        /\ run[0] = ms /\ run[Len(q)] = e
        /\ \A i \in 1 .. Len(q) : run[i] = Heard(run[i - 1], q[i])
  BY DEF Hearing
<1> DEFINE n == Len(q)
           k == Len(l)
           whole == [i \in 0 .. n + k |-> IF i <= n THEN run[i] ELSE f]
           p == q \o l
<1>2. n \in Nat /\ k \in Nat /\ Len(p) = n + k
      /\ \A i \in 1 .. n + k : p[i] = IF i <= n THEN q[i] ELSE l[i - n]
  OBVIOUS
<1>3. whole \in [0 .. n + k -> Seq(ChatMessage)]
  <2> SUFFICES ASSUME NEW i \in 0 .. n + k
               PROVE  (IF i <= n THEN run[i] ELSE f) \in Seq(ChatMessage)
    OBVIOUS
  <2>1. i <= n => i \in 0 .. n
    BY <1>2
  <2> QED
    BY <2>1
<1>4. whole[0] = ms /\ whole[n] = e /\ whole[n + k] = f
  <2>1. 0 \in 0 .. n + k /\ n \in 0 .. n + k /\ n + k \in 0 .. n + k /\ 0 <= n
    BY <1>2
  <2>2. n + k <= n => k = 0 /\ n + k = n
    BY <1>2
  <2> QED
    BY <1>1, <2>1, <2>2
<1>5. \A i \in 1 .. n + k : whole[i] = Heard(whole[i - 1], p[i])
  <2> TAKE i \in 1 .. n + k
  <2>1. i \in 0 .. n + k /\ i - 1 \in 0 .. n + k
    BY <1>2
  <2>2. CASE i <= n
    <3>1. i \in 1 .. n /\ i - 1 <= n /\ whole[i] = run[i] /\ whole[i - 1] = run[i - 1] /\ p[i] = q[i]
      BY <1>2, <2>1, <2>2
    <3> QED
      BY <1>1, <3>1
  <2>3. CASE i > n
    <3>1. i - n \in 1 .. k /\ whole[i] = f /\ p[i] = l[i - n]
      BY <1>2, <2>1, <2>3
    <3>2. f = Heard(IF i - n = 1 THEN e ELSE f, l[i - n])
      BY <3>1
    <3>3. whole[i - 1] = IF i - n = 1 THEN e ELSE f
      <4>1. CASE i - n = 1
        <5>1. i - 1 = n
          BY <1>2, <2>1, <4>1
        <5> QED
          BY <1>4, <4>1, <5>1
      <4>2. CASE i - n # 1
        <5>1. ~(i - 1 <= n)
          <6>1. n \in Int /\ i \in Int /\ i > n /\ i - n # 1
            BY <1>2, <2>1, <2>3, <4>2
          <6> HIDE DEF n
          <6> QED
            BY <6>1
        <5> QED
          BY <2>1, <4>2, <5>1
      <4> QED
        BY <4>1, <4>2
    <3> QED
      BY <3>1, <3>2, <3>3
  <2> QED
    BY <1>2, <2>2, <2>3
<1> HIDE DEF whole, p, n, k
<1>6. Hearing(ms, p, f)
  BY <1>2, <1>3, <1>4, <1>5 DEF Hearing
<1> QED
  BY <1>6 DEF p

LEMMA HearingNext ==
  ASSUME NEW ms, NEW q \in Seq(Frames), NEW e \in Seq(ChatMessage), Hearing(ms, q, e),
         NEW m \in Frames
  PROVE  Hearing(ms, q \o <<m>>, Heard(e, m)) /\ Heard(e, m) \in Seq(ChatMessage)
<1> DEFINE l == <<m>>
           f == Heard(e, m)
<1>1. l \in Seq(Frames) /\ Len(l) = 1 /\ l[1] = m
  OBVIOUS
<1>2. f \in Seq(ChatMessage)
  BY HeardType
<1>3. \A i \in 1 .. Len(l) : f = Heard(IF i = 1 THEN e ELSE f, l[i])
  <2> TAKE i \in 1 .. Len(l)
  <2>1. i = 1
    BY <1>1
  <2> QED
    BY <1>1, <2>1
<1> HIDE DEF l, f
<1>4. Len(l) # 0
  BY <1>1
<1>5. Hearing(ms, q \o l, f)
  BY <1>1, <1>2, <1>3, <1>4, HearingMore
<1> QED
  BY <1>2, <1>5 DEF l, f

LEMMA HearingOn ==
  ASSUME NEW ms, NEW q \in Seq(Frames), NEW e \in Seq(ChatMessage), Hearing(ms, q, e),
         NEW l \in Seq(Frames), \A i \in DOMAIN l : Chatless(l[i])
  PROVE  Hearing(ms, q \o l, e)
<1>1. \A i \in 1 .. Len(l) : l[i] \in Frames /\ Chatless(l[i])
  OBVIOUS
<1>2. \A i \in 1 .. Len(l) : e = Heard(IF i = 1 THEN e ELSE e, l[i])
  BY <1>1, HeardType
<1> QED
  BY <1>2, HearingMore
------------------------------------------------------------------------------
(* The chat of a client that hears of everything.                           *)

\* Whoever is about to announce a message, and its number.
Said == [u \in {x \in Users : busy[x].at = "said"} |-> busy[u].message.id]

\* The log is numbered, and what is about to be announced is in it.
Logged ==
  /\ Numbered(log)
  /\ \A u \in Users : busy[u].at = "said" =>
       busy[u].message.id \in DOMAIN log /\ busy[u].message = log[busy[u].message.id]

ShownOnce ==
  /\ Single(store.messages)
  /\ \A i \in DOMAIN inbox : inbox[i].t = "ready" => Single(inbox[i].messages)

\* What will be shown, of which more is known once a snapshot has been sent.
Attends ==
  \E e \in Seq(ChatMessage) :
    /\ Hearing(store.messages, inbox, e) /\ Len(e) <= MaxMessages
    /\ Sure => Heeds(e, log, Said)

\* No more are in the room than a list has room for beyond a snapshot's window, and
\* one: 241 with the code's 300 and 60, where a room takes 100 at most
\* (rooms/routes.rs).
Fits == Cardinality(DOMAIN live) <= Crowd

\* A step keeps all that, the last part as long as they fit.
KeepsChat == Logged' /\ ShownOnce' /\ (Fits /\ Attends => Attends')

\* Whoever is about to announce something.
LEMMA SaidBy ==
  /\ DOMAIN Said = {x \in Users : busy[x].at = "said"} /\ IsFiniteSet(DOMAIN Said)
  /\ \A u \in Users : busy[u].at = "said" => u \in DOMAIN Said /\ Said[u] = busy[u].message.id
<1>1. DOMAIN Said = {x \in Users : busy[x].at = "said"}
  BY DEF Said
<1>2. IsFiniteSet(DOMAIN Said)
  BY <1>1, Constants, FS_Subset
<1> QED
  BY <1>1, <1>2 DEF Said

\* A step may write a line of the room's own to the log, and send frames that are
\* not about the chat.
RoomLine == [id |-> Len(log) + 1, by |-> None]
LogsLine == log' = log \/ log' = Append(log, RoomLine)
Sends(l) == \/ l = <<>> /\ inbox' = inbox /\ raced' = raced
            \/ Broadcast(l)
SendsNoChat == \E l \in Seq(Frames) : (\A i \in DOMAIN l : Chatless(l[i])) /\ Sends(l)

\* The log grows by a line with the next number.
LEMMA NumberedGrows ==
  ASSUME NEW lg \in Seq(ChatMessage), Numbered(lg), NEW line \in ChatMessage, line.id = Len(lg) + 1
  PROVE  /\ Numbered(Append(lg, line)) /\ Len(lg) + 1 \in DOMAIN Append(lg, line)
         /\ Append(lg, line)[Len(lg) + 1] = line
         /\ \A n \in DOMAIN lg : n \in DOMAIN Append(lg, line) /\ Append(lg, line)[n] = lg[n]
<1> DEFINE l2 == Append(lg, line)
<1>1. /\ Len(lg) \in Nat /\ DOMAIN lg = 1 .. Len(lg) /\ DOMAIN l2 = 1 .. Len(lg) + 1
      /\ l2[Len(lg) + 1] = line /\ \A n \in 1 .. Len(lg) : l2[n] = lg[n]
  OBVIOUS
<1> HIDE DEF l2
<1>2. Numbered(l2)
  <2> SUFFICES ASSUME NEW n \in 1 .. Len(lg) + 1
               PROVE  l2[n].id = n
    BY <1>1 DEF Numbered
  <2>1. n = Len(lg) + 1 \/ n \in 1 .. Len(lg)
    BY <1>1
  <2> QED
    BY <1>1, <2>1 DEF Numbered
<1>3. Len(lg) + 1 \in DOMAIN l2 /\ \A n \in DOMAIN lg : n \in DOMAIN l2
  BY <1>1
<1> QED
  BY <1>1, <1>2, <1>3 DEF l2

LEMMA LineTypes ==
  ASSUME Ranges
  PROVE  log \in Seq(ChatMessage) /\ RoomLine \in ChatMessage /\ RoomLine.by = None
         /\ RoomLine.id = Len(log) + 1
<1>1. log \in Seq(ChatMessage)
  BY DEF Ranges, Server, Records
<1>2. Len(log) \in Nat
  BY <1>1
<1> QED
  BY <1>1, <1>2 DEF RoomLine, ChatMessage

\* Who is about to announce something stays so, whether or not the room adds a line.
LEMMA LoggedStays ==
  ASSUME Ranges, Logged, Apart({"said"}), LogsLine
  PROVE  Logged' /\ Said' = Said
<1>1. \A u \in Users : (busy'[u].at = "said" <=> busy[u].at = "said")
                       /\ (busy'[u].at = "said" => busy'[u] = busy[u])
  BY DEF Apart
<1>2. Said' = Said
  <2>1. {x \in Users : busy'[x].at = "said"} = {x \in Users : busy[x].at = "said"}
    BY <1>1
  <2> QED
    BY <1>1, <2>1 DEF Said
<1>3. Numbered(log') /\ \A n \in DOMAIN log : n \in DOMAIN log' /\ log'[n] = log[n]
  <2>1. CASE log' = log
    BY <2>1 DEF Logged
  <2>2. CASE log' = Append(log, RoomLine)
    <3> DEFINE line == RoomLine
    <3>1. log \in Seq(ChatMessage) /\ line \in ChatMessage /\ line.id = Len(log) + 1 /\ Numbered(log)
      BY LineTypes DEF Logged
    <3> HIDE DEF line
    <3>2. Numbered(Append(log, line))
          /\ \A n \in DOMAIN log : n \in DOMAIN Append(log, line) /\ Append(log, line)[n] = log[n]
      BY <3>1, NumberedGrows
    <3> QED
      BY <2>2, <3>2 DEF line
  <2> QED
    BY <2>1, <2>2 DEF LogsLine
<1>4. \A u \in Users : busy'[u].at = "said" =>
        busy'[u].message.id \in DOMAIN log' /\ busy'[u].message = log'[busy'[u].message.id]
  BY <1>1, <1>3 DEF Logged
<1> QED
  BY <1>2, <1>3, <1>4 DEF Logged

\* What is sent is on the way, unless the client does not hear it, as nothing is.
LEMMA SentOn ==
  ASSUME Wire, NEW l \in Seq(Frames), Sends(l)
  PROVE  /\ raced' \in BOOLEAN /\ (raced => raced')
         /\ Hears => inbox' = inbox \o l
         /\ ~Hears => inbox' = inbox
<1>1. inbox \in Seq(Frames) /\ raced \in BOOLEAN
  BY DEF Wire
<1>2. CASE l = <<>> /\ inbox' = inbox /\ raced' = raced
  <2>1. inbox \o <<>> = inbox
    BY <1>1, ConcatEmptySeq
  <2> QED
    BY <1>1, <1>2, <2>1
<1>3. CASE Broadcast(l)
  BY <1>1, <1>3 DEF Broadcast
<1> QED
  BY <1>2, <1>3 DEF Sends

\* What is in two sequences, one after the other, is in one of them.
LEMMA EitherPart ==
  ASSUME NEW S, NEW a \in Seq(S), NEW b \in Seq(S), NEW i \in DOMAIN (a \o b)
  PROVE  (i \in DOMAIN a /\ (a \o b)[i] = a[i]) \/ \E j \in DOMAIN b : (a \o b)[i] = b[j]
<1>1. Len(a) \in Nat /\ Len(b) \in Nat /\ DOMAIN a = 1 .. Len(a) /\ DOMAIN b = 1 .. Len(b)
      /\ i \in 1 .. Len(a) + Len(b)
      /\ \A j \in 1 .. Len(a) + Len(b) : (a \o b)[j] = IF j <= Len(a) THEN a[j] ELSE b[j - Len(a)]
  OBVIOUS
<1>2. CASE i <= Len(a)
  BY <1>1, <1>2
<1>3. CASE ~(i <= Len(a))
  <2>1. i - Len(a) \in DOMAIN b /\ (a \o b)[i] = b[i - Len(a)]
    BY <1>1, <1>3
  <2> QED
    BY <2>1
<1> QED
  BY <1>2, <1>3

\* A step that is not about the chat.
LEMMA AsideKeepsChat ==
  ASSUME Ranges, Logged, ShownOnce, store' = store, Apart({"said"}), LogsLine,
         SendsNoChat \/ inbox' = inbox, Sure' => Sure
  PROVE  KeepsChat
<1>1. PICK l \in Seq(Frames) :
        (\A i \in DOMAIN l : Chatless(l[i])) /\ (Sends(l) \/ inbox' = inbox)
  <2>1. <<>> \in Seq(Frames) /\ \A i \in DOMAIN <<>> : Chatless(<<>>[i])
    OBVIOUS
  <2> QED
    BY <2>1 DEF SendsNoChat
<1>2. inbox \in Seq(Frames) /\ Wire
  BY WorkIn DEF Wire
<1>3. inbox' = inbox \o l \/ inbox' = inbox
  BY <1>1, <1>2, SentOn
<1>4. Logged' /\ Said' = Said
  BY LoggedStays
<1>5. ShownOnce'
  <2>1. ASSUME NEW i \in DOMAIN inbox', inbox'[i].t = "ready"
        PROVE  i \in DOMAIN inbox /\ inbox'[i] = inbox[i]
    <3>1. CASE inbox' = inbox
      BY <3>1
    <3>2. CASE inbox' = inbox \o l
      <4>1. (i \in DOMAIN inbox /\ inbox'[i] = inbox[i]) \/ \E j \in DOMAIN l : inbox'[i] = l[j]
        BY <1>2, <2>1, <3>2, EitherPart
      <4> QED
        BY <1>1, <2>1, <4>1 DEF Chatless
    <3> QED
      BY <1>3, <3>1, <3>2
  <2> QED
    BY <2>1 DEF ShownOnce
<1>6. ASSUME Attends
      PROVE  Attends'
  <2>1. PICK e \in Seq(ChatMessage) :
          /\ Hearing(store.messages, inbox, e) /\ Len(e) <= MaxMessages
          /\ Sure => Heeds(e, log, Said)
    BY <1>6 DEF Attends
  <2>2. Hearing(store.messages, inbox', e)
    BY <1>1, <1>2, <1>3, <2>1, HearingOn
  <2>3. Sure' => Heeds(e, log', Said')
    <3>1. ASSUME Heeds(e, log, Said)
          PROVE  Heeds(e, Append(log, RoomLine), Said)
      <4> DEFINE line == RoomLine
      <4>1. log \in Seq(ChatMessage) /\ line \in ChatMessage /\ line.by = None
        BY LineTypes
      <4> HIDE DEF line
      <4>2. Heeds(e, Append(log, line), Said)
        BY <3>1, <4>1, RoomLineHeeds
      <4> QED
        BY <4>2 DEF line
    <3> QED
      BY <1>4, <2>1, <3>1 DEF LogsLine
  <2> QED
    BY <2>1, <2>2, <2>3 DEF Attends
<1> QED
  BY <1>4, <1>5, <1>6 DEF KeepsChat

LEMMA SilentNoChat == ASSUME Silent PROVE SendsNoChat
<1>1. <<>> \in Seq(Frames) /\ \A i \in DOMAIN <<>> : Chatless(<<>>[i])
  OBVIOUS
<1>2. Sends(<<>>)
  BY DEF Silent, Sends
<1> QED
  BY <1>1, <1>2 DEF SendsNoChat

LEMMA FrameNoChat ==
  ASSUME NEW m \in Frames, Chatless(m), Broadcast(<<m>>)
  PROVE  SendsNoChat
<1> DEFINE l == <<m>>
<1>1. l \in Seq(Frames) /\ \A i \in DOMAIN l : l[i] = m
  OBVIOUS
<1>2. Sends(l)
  BY DEF Sends
<1> HIDE DEF l
<1> QED
  BY <1>1, <1>2 DEF SendsNoChat

\* A session moves on that is about to say nothing, or none does.
LEMMA StaysSure ==
  ASSUME Ranges, SendsNoChat, link' = link, busy'[Me] = busy[Me] \/ busy[Me].at # "greeting"
  PROVE  Sure' => Sure
<1>1. raced => raced'
  BY WorkIn, SentOn DEF SendsNoChat
<1> QED
  BY <1>1 DEF Sure, Told

LEMMA MoveKeepsChat ==
  ASSUME Ranges, Logged, ShownOnce, store' = store, NEW u \in Users, NEW h,
         busy' = [busy EXCEPT ![u] = h], busy[u].at # "said", h.at # "said",
         u = Me => busy[u].at # "greeting", link' = link, LogsLine, SendsNoChat
  PROVE  KeepsChat
<1>1. Apart({"said"}) /\ \A x \in Users \ {u} : busy'[x] = busy[x]
  BY OneMoves, WorkIn
<1>2. Sure' => Sure
  BY <1>1, StaysSure, Constants
<1> QED
  BY <1>1, <1>2, AsideKeepsChat

LEMMA StillKeepsChat ==
  ASSUME Ranges, Logged, ShownOnce, store' = store, busy' = busy, link' = link, log' = log,
         SendsNoChat
  PROVE  KeepsChat
<1>1. Apart({"said"}) /\ LogsLine
  BY DEF Apart, LogsLine
<1>2. Sure' => Sure
  BY StaysSure
<1> QED
  BY <1>1, <1>2, AsideKeepsChat

\* Commands other than chat_send, and requests.
LEMMA StartsKeepChat ==
  ASSUME Ranges, Logged, ShownOnce, store' = store, NEW u \in Users, Ready(u),
         \/ \E t \in Users, role \in {Member, Cohost} : SetRole(u, t, role)
         \/ \E t \in Users : TransferHost(u, t) \/ Kick(u, t)
         \/ \E e \in DOMAIN QueueEdits : QueueEdit(u, e)
  PROVE  KeepsChat
<1>1. busy[u].at = "idle"
  BY ReadyIdle
<1>2. link' = link /\ SendsNoChat
  BY SilentNoChat DEF SetRole, TransferHost, Kick, QueueEdit, Quietly
<1>3. LogsLine
  BY DEF SetRole, TransferHost, Kick, QueueEdit, LogsLine, RoomLine
<1>4. PICK h : busy' = [busy EXCEPT ![u] = h] /\ h.at # "said"
  <2>1. ASSUME NEW t \in Users, NEW role, SetRole(u, t, role)
        PROVE  \E h : busy' = [busy EXCEPT ![u] = h] /\ h.at # "said"
    <3> DEFINE h == [at |-> "role_saved", target |-> t, role |-> role]
    <3>1. busy' = [busy EXCEPT ![u] = h] /\ h.at # "said"
      BY <2>1 DEF SetRole
    <3> HIDE DEF h
    <3> QED
      BY <3>1
  <2>2. ASSUME NEW t \in Users, TransferHost(u, t)
        PROVE  \E h : busy' = [busy EXCEPT ![u] = h] /\ h.at # "said"
    <3> DEFINE h == [at |-> "host_saved", target |-> t, role |-> Hosting]
    <3>1. busy' = [busy EXCEPT ![u] = h] /\ h.at # "said"
      BY <2>2 DEF TransferHost
    <3> HIDE DEF h
    <3> QED
      BY <3>1
  <2>3. ASSUME NEW t \in Users, Kick(u, t)
        PROVE  \E h : busy' = [busy EXCEPT ![u] = h] /\ h.at # "said"
    <3> DEFINE h == [at |-> "kicked", target |-> t]
    <3>1. busy' = [busy EXCEPT ![u] = h] /\ h.at # "said"
      BY <2>3 DEF Kick
    <3> HIDE DEF h
    <3> QED
      BY <3>1
  <2>4. ASSUME NEW e, QueueEdit(u, e)
        PROVE  \E h : busy' = [busy EXCEPT ![u] = h] /\ h.at # "said"
    <3> DEFINE h == [at |-> "queue_saved"]
    <3>1. busy' = [busy EXCEPT ![u] = h] /\ h.at # "said"
      BY <2>4 DEF QueueEdit
    <3> HIDE DEF h
    <3> QED
      BY <3>1
  <2> QED
    BY <2>1, <2>2, <2>3, <2>4
<1> QED
  BY <1>1, <1>2, <1>3, <1>4, MoveKeepsChat

LEMMA SettingsKeepChat ==
  ASSUME Ranges, Logged, ShownOnce, store' = store,
         \/ \E u \in Users, t \in Users \cup {None} : Ready(u) /\ Designate(u, t)
         \/ \E u \in Users : DesignateAnnounced(u)
         \/ Ready(Me) /\ Refused(Me)
         \/ \E u \in Users : \E patch : PatchStarts(u, patch)
         \/ \E p \in patches : PatchSaved(p) \/ PatchApplied(p) \/ PatchAnnounced(p)
  PROVE  KeepsChat
<1>1. ASSUME NEW u \in Users, NEW t, Ready(u), Designate(u, t)
      PROVE  KeepsChat
  <2> DEFINE h == [at |-> "designated", room |-> info']
  <2>1. busy[u].at = "idle" /\ busy' = [busy EXCEPT ![u] = h] /\ h.at # "said"
        /\ link' = link /\ LogsLine /\ SendsNoChat
    BY <1>1, ReadyIdle, SilentNoChat DEF Designate, LogsLine
  <2> HIDE DEF h
  <2> QED
    BY <2>1, MoveKeepsChat
<1>2. ASSUME NEW u \in Users, DesignateAnnounced(u)
      PROVE  KeepsChat
  <2> DEFINE m == [t |-> "room_updated", room |-> busy[u].room]
  <2>1. busy[u].at = "designated" /\ busy' = [busy EXCEPT ![u] = Idle] /\ Idle.at = "idle"
        /\ Broadcast(<<m>>) /\ link' = link /\ LogsLine
    BY <1>2 DEF DesignateAnnounced, Stays, Idle, LogsLine
  <2>2. m \in Frames /\ Chatless(m)
    BY <2>1 DEF Ranges, Server, Work, WorkOf, Frames, RoomFrames, Chatless
  <2> HIDE DEF m
  <2> QED
    BY <2>1, <2>2, FrameNoChat, MoveKeepsChat
<1>3. CASE Ready(Me) /\ Refused(Me)
  <2> DEFINE m == [t |-> "error"]
  <2>1. inbox' = Append(inbox, m) /\ link = "up" /\ inbox \in Seq(Frames) /\ raced' = raced
        /\ busy' = busy /\ link' = link /\ log' = log
    BY <1>3, WorkIn DEF Refused, Ready, Wire
  <2>2. m \in Frames /\ Chatless(m)
    BY DEF Frames, ErrorFrames, Chatless
  <2> HIDE DEF m
  <2>3. inbox' = inbox \o <<m>>
    BY <2>1, <2>2, AppendIsConcat
  <2>4. Broadcast(<<m>>)
    BY <2>1, <2>3, WorkIn DEF Broadcast, Hears, Wire
  <2> QED
    BY <2>1, <2>2, <2>4, FrameNoChat, StillKeepsChat
<1>4. CASE \/ \E u \in Users : \E patch : PatchStarts(u, patch)
           \/ \E p \in patches : PatchSaved(p) \/ PatchApplied(p)
  <2>1. busy' = busy /\ link' = link /\ log' = log /\ Silent
    BY <1>4 DEF PatchStarts, PatchSaved, PatchApplied, Quietly
  <2> QED
    BY <2>1, SilentNoChat, StillKeepsChat
<1>5. ASSUME NEW p \in patches, PatchAnnounced(p)
      PROVE  KeepsChat
  <2> DEFINE m == [t |-> "room_updated", room |-> p.room]
  <2>1. p.at = "applied" /\ Broadcast(<<m>>) /\ busy' = busy /\ link' = link /\ log' = log
    BY <1>5 DEF PatchAnnounced
  <2>2. m \in Frames /\ Chatless(m)
    BY <2>1 DEF Ranges, Server, Settings, PatchOf, Frames, RoomFrames, Chatless
  <2> HIDE DEF m
  <2> QED
    BY <2>1, <2>2, FrameNoChat, StillKeepsChat
<1> QED
  BY <1>1, <1>2, <1>3, <1>4, <1>5

\* People who come and go, and whoever is greeted or said to have left.
LEMMA GoingsKeepChat ==
  ASSUME Ranges, Logged, ShownOnce, store' = store, NEW u \in Users,
         (u # Me /\ (Arrives(u) \/ Leaves(u))) \/ Greets(u) \/ KickAnnounced(u)
  PROVE  KeepsChat
<1>1. CASE u # Me /\ Arrives(u)
  <2> DEFINE h == [at |-> "greeting"]
  <2>1. busy[u].at = "idle" /\ busy' = [busy EXCEPT ![u] = h] /\ h.at # "said"
        /\ link' = link /\ LogsLine /\ SendsNoChat
    BY <1>1, SilentNoChat DEF Arrives, Idle, Quietly, LogsLine
  <2> HIDE DEF h
  <2> QED
    BY <1>1, <2>1, MoveKeepsChat
<1>2. CASE u # Me /\ Leaves(u)
  <2> DEFINE m == [t |-> "participant_left", user |-> u]
  <2>1. busy' = busy /\ link' = link /\ log' = log /\ Broadcast(<<m>>)
    BY <1>2 DEF Leaves
  <2>2. m \in Frames /\ Chatless(m)
    BY DEF Frames, LeftFrames, Chatless
  <2> HIDE DEF m
  <2> QED
    BY <2>1, <2>2, FrameNoChat, StillKeepsChat
<1>3. CASE Greets(u)
  <2> DEFINE m == [t |-> "participant_joined", user |-> u, role |-> live[u]]
  <2>1. u # Me /\ busy[u].at = "greeting" /\ busy' = [busy EXCEPT ![u] = Idle] /\ Idle.at = "idle"
        /\ Broadcast(<<m>>) /\ link' = link /\ LogsLine
    BY <1>3 DEF Greets, Stays, Idle, LogsLine
  <2>2. m \in Frames /\ Chatless(m)
    <3>1. u \in DOMAIN live
      BY <2>1 DEF Ranges, Server, Present, Idle
    <3>2. live[u] \in RoomRole
      BY <3>1 DEF Ranges, Server, Present, Rosters
    <3> QED
      BY <3>2 DEF Frames, PersonFrames, Chatless
  <2> HIDE DEF m
  <2> QED
    BY <2>1, <2>2, FrameNoChat, MoveKeepsChat
<1>4. CASE KickAnnounced(u)
  <2> DEFINE m == [t |-> "participant_left", user |-> busy[u].target]
  <2>1. busy[u].at = "kicked" /\ busy' = [busy EXCEPT ![u] = Idle] /\ Idle.at = "idle"
        /\ Broadcast(<<m>>) /\ link' = link /\ LogsLine
    BY <1>4 DEF KickAnnounced, Stays, Idle, LogsLine
  <2>2. m \in Frames /\ Chatless(m)
    BY <2>1, WorkIn DEF Frames, LeftFrames, Chatless
  <2> HIDE DEF m
  <2> QED
    BY <2>1, <2>2, FrameNoChat, MoveKeepsChat
<1> QED
  BY <1>1, <1>2, <1>3, <1>4

\* Changes of roles, which leave a line in the log and are announced at length.
LEMMA RolesKeepChat ==
  ASSUME Ranges, Logged, ShownOnce, store' = store, NEW u \in Users,
         \/ RoleApplied(u) \/ RoleAnnounced(u) \/ TargetTold(u)
         \/ HeirsOther /\ (HostApplied(u) \/ HostAnnounced(u) \/ HostTold(u))
  PROVE  KeepsChat
<1>1. CASE RoleApplied(u)
  <2> DEFINE h == IF busy[u].target \in DOMAIN live
                  THEN [busy[u] EXCEPT !.at = "role_applied"] ELSE Idle
  <2>1. busy[u].at = "role_saved" /\ busy' = [busy EXCEPT ![u] = h] /\ link' = link
        /\ LogsLine /\ SendsNoChat
    BY <1>1, SilentNoChat DEF RoleApplied, LogsLine, RoomLine
  <2>2. h.at # "said"
    <3>1. busy[u] \in [at : {"role_saved", "role_applied", "role_told"}, target : Users, role : RoomRole]
      BY <2>1 DEF Ranges, Server, Work, WorkOf
    <3> QED
      BY <3>1 DEF Idle
  <2> HIDE DEF h
  <2> QED
    BY <2>1, <2>2, MoveKeepsChat
<1>2. CASE HostApplied(u)
  <2> DEFINE h == [busy[u] EXCEPT !.at = "host_applied"]
  <2>1. busy[u].at = "host_saved" /\ busy' = [busy EXCEPT ![u] = h] /\ link' = link
        /\ LogsLine /\ SendsNoChat
    BY <1>2, SilentNoChat DEF HostApplied, LogsLine, RoomLine
  <2>2. h.at # "said"
    <3>1. busy[u] \in [at : {"host_saved", "host_applied", "host_told"}, target : Users, role : {Hosting}]
      BY <2>1 DEF Ranges, Server, Work, WorkOf
    <3> QED
      BY <3>1
  <2> HIDE DEF h
  <2> QED
    BY <2>1, <2>2, MoveKeepsChat
<1>3. ASSUME NEW s \in Seq(Frames), Tells(u, s), \A j \in DOMAIN s : Chatless(s[j]), log' = log
      PROVE  KeepsChat
  <2>1. SendsNoChat /\ LogsLine
    BY <1>3 DEF Tells, SendsNoChat, Sends, LogsLine
  <2>2. busy'[Me] = busy[Me] \/ busy[Me].at # "greeting"
    BY <1>3, Constants DEF Tells, Telling
  <2>3. Sure' => Sure
    BY <1>3, <2>1, <2>2, StaysSure DEF Tells
  <2> QED
    BY <1>3, <2>1, <2>3, AsideKeepsChat DEF Tells
<1>4. ASSUME NEW m \in Frames, Tells(u, <<m>>), Chatless(m), log' = log
      PROVE  KeepsChat
  <2> DEFINE s == <<m>>
  <2>1. s \in Seq(Frames) /\ Tells(u, s) /\ \A j \in DOMAIN s : Chatless(s[j])
    BY <1>4
  <2> HIDE DEF s
  <2> QED
    BY <1>3, <1>4, <2>1
<1>5. CASE RoleAnnounced(u)
  <2>1. ToTarget(u) \in Frames /\ Chatless(ToTarget(u)) /\ log' = log
    BY <1>5, ToTargetFrame DEF RoleAnnounced, Stays, Frames, Chatless
  <2> QED
    BY <1>4, <1>5, <2>1, RoleAnnouncedTells
<1>6. CASE TargetTold(u)
  <2> DEFINE m == Entitlement(busy[u].target, busy[u].role)
  <2>1. m \in Frames /\ Chatless(m) /\ log' = log
    BY <1>6, ToTargetFrame DEF TargetTold, Stays, Frames, AuthorityFrames, Chatless
  <2> QED
    BY <1>4, <1>6, <2>1, TargetToldTells
<1>7. CASE HeirsOther /\ HostAnnounced(u)
  <2>1. WholeList \in Seq(Frames) /\ \A j \in DOMAIN WholeList : Chatless(WholeList[j])
    BY WholeListFrames DEF Ranges, Chatless
  <2>2. log' = log
    BY <1>7 DEF HostAnnounced, Stays
  <2> QED
    BY <1>3, <1>7, <2>1, <2>2, HostAnnouncedTells
<1>8. CASE HostTold(u)
  <2>1. ToLeaver(u) \in Frames /\ Chatless(ToLeaver(u)) /\ log' = log
    BY <1>8, ToLeaverFrame DEF HostTold, Stays, Frames, AuthorityFrames, Chatless
  <2> QED
    BY <1>4, <1>8, <2>1, HostToldTells
<1> QED
  BY <1>1, <1>2, <1>5, <1>6, <1>7, <1>8

\* The queue's lists.
LEMMA ListsKeepChat ==
  ASSUME Ranges, Logged, ShownOnce, store' = store, NEW u \in Users,
         QueueRead(u) \/ QueueAnnounced(u)
  PROVE  KeepsChat
<1>1. CASE QueueRead(u)
  <2> DEFINE h == [at |-> "queue_read", list |-> items, before |-> Reading]
  <2>1. busy[u].at = "queue_saved" /\ busy' = [busy EXCEPT ![u] = h] /\ h.at # "said"
        /\ link' = link /\ LogsLine /\ SendsNoChat
    BY <1>1, SilentNoChat DEF QueueRead, Stays, Quietly, LogsLine
  <2> HIDE DEF h
  <2> QED
    BY <2>1, MoveKeepsChat
<1>2. CASE QueueAnnounced(u)
  <2> DEFINE m == [t |-> "queue_updated", items |-> busy[u].list, version |-> numbered]
  <2>1. busy[u].at = "queue_read" /\ Broadcast(<<m>>) /\ link' = link /\ LogsLine
    BY <1>2 DEF QueueAnnounced, LogsLine
  <2>2. m \in Frames /\ Chatless(m)
    <3>1. busy[u].list \in Seq(Nat) /\ numbered \in Nat
      BY <2>1 DEF Ranges, Server, Work, WorkOf, Numbers
    <3> QED
      BY <3>1 DEF Frames, QueueFrames, Chatless
  <2> HIDE DEF m
  <2>3. SendsNoChat
    BY <2>1, <2>2, FrameNoChat
  <2>4. busy'[u] = Idle /\ Idle.at = "idle" /\ Reading \subseteq Users
        /\ \A x \in Users \ {u} : /\ busy'[x].at = busy[x].at
                                  /\ x \notin Reading => busy'[x] = busy[x]
    BY <1>2, WorkIn, ReadersLeft DEF Reading
  <2>5. Apart({"said"})
    <3>1. \A x \in Reading : busy[x].at = "queue_read"
      BY DEF Reading
    <3> QED
      BY <2>1, <2>4, <3>1 DEF Apart
  <2>6. busy'[Me] = busy[Me] \/ busy[Me].at # "greeting"
    <3>1. \A x \in Reading : busy[x].at = "queue_read"
      BY DEF Reading
    <3> QED
      BY <2>1, <2>4, <3>1, Constants
  <2>7. Sure' => Sure
    BY <2>1, <2>3, <2>6, StaysSure
  <2> QED
    BY <2>1, <2>3, <2>5, <2>7, AsideKeepsChat
<1> QED
  BY <1>1, <1>2

\* The client's connection, until it is sent its snapshot.
LEMMA ConnectsKeepsChat ==
  ASSUME Ranges, Logged, ShownOnce, store' = store, Admitted \/ Attaches \/ Detaches
  PROVE  KeepsChat
<1>1. CASE Admitted
  <2> DEFINE h == [at |-> "admitted", role |-> RoleOf(Me), perms |-> Resolve(RoleOf(Me), saved.gq)]
  <2>1. busy[Me].at = "idle" /\ busy' = [busy EXCEPT ![Me] = h] /\ h.at # "said"
        /\ LogsLine /\ SendsNoChat /\ ~Sure'
    BY <1>1, SilentNoChat DEF Admitted, Idle, Stays, LogsLine, Sure, Told
  <2> HIDE DEF h
  <2>2. Apart({"said"})
    BY <2>1, OneMoves, WorkIn, Constants
  <2> QED
    BY <2>1, <2>2, AsideKeepsChat
<1>2. CASE Attaches
  <2> DEFINE h == [at |-> "greeting", first |-> Me \notin DOMAIN live]
  <2>1. busy[Me].at = "admitted" /\ busy' = [busy EXCEPT ![Me] = h] /\ h.at = "greeting"
        /\ LogsLine /\ inbox' = inbox /\ link' = "joining"
    BY <1>2 DEF Attaches, LogsLine
  <2> HIDE DEF h
  <2>2. Apart({"said"}) /\ busy'[Me].at = "greeting"
    BY <2>1, OneMoves, WorkIn, Constants
  <2>3. ~Sure'
    BY <2>1, <2>2 DEF Sure, Told
  <2> QED
    BY <2>1, <2>2, <2>3, AsideKeepsChat
<1>3. CASE Detaches
  <2>1. busy' = busy /\ link' = link /\ log' = log
    BY <1>3 DEF Detaches
  <2>2. CASE conns' > 0
    BY <1>3, <2>1, <2>2, SilentNoChat, StillKeepsChat DEF Detaches
  <2>3. CASE ~(conns' > 0)
    <3> DEFINE m == [t |-> "participant_left", user |-> Me]
    <3>1. Broadcast(<<m>>)
      BY <1>3, <2>3 DEF Detaches
    <3>2. m \in Frames /\ Chatless(m)
      BY Constants DEF Frames, LeftFrames, Chatless
    <3> HIDE DEF m
    <3> QED
      BY <2>1, <3>1, <3>2, FrameNoChat, StillKeepsChat
  <2> QED
    BY <2>2, <2>3
<1> QED
  BY <1>1, <1>2, <1>3

\* Something is said: it is in the log, and nobody has been told.
LEMMA SayKeepsChat ==
  ASSUME Ranges, Logged, ShownOnce, store' = store, NEW u \in Users, Ready(u), ChatSend(u)
  PROVE  KeepsChat
<1> DEFINE line == [id |-> Len(log) + 1, by |-> u]
           h == [at |-> "said", message |-> log'[Len(log')]]
<1>1. /\ busy[u].at = "idle" /\ log' = Append(log, line) /\ busy' = [busy EXCEPT ![u] = h]
      /\ h.at = "said" /\ h.message = log'[Len(log')]
      /\ inbox' = inbox /\ raced' = raced /\ link' = link
  BY ReadyIdle DEF ChatSend, Quietly, Silent
<1>2. log \in Seq(ChatMessage) /\ line \in ChatMessage /\ line.id = Len(log) + 1
  <2>1. log \in Seq(ChatMessage)
    BY DEF Ranges, Server, Records
  <2>2. Len(log) \in Nat
    BY <2>1
  <2> QED
    BY <2>1, <2>2 DEF ChatMessage
<1> HIDE DEF line, h
<1>3. /\ Numbered(log') /\ Len(log) + 1 \in DOMAIN log' /\ log'[Len(log) + 1] = line
      /\ \A n \in DOMAIN log : n \in DOMAIN log' /\ log'[n] = log[n]
  BY <1>1, <1>2, NumberedGrows DEF Logged
<1>4. Len(log') = Len(log) + 1
  BY <1>1, <1>2
<1>5. busy'[u] = h /\ h.message = line /\ \A x \in Users \ {u} : busy'[x] = busy[x]
  BY <1>1, <1>3, <1>4, OneMoves, WorkIn
<1>6. Logged'
  <2>1. ASSUME NEW x \in Users, busy'[x].at = "said"
        PROVE  busy'[x].message.id \in DOMAIN log' /\ busy'[x].message = log'[busy'[x].message.id]
    <3>1. CASE x = u
      BY <1>2, <1>3, <1>5, <3>1
    <3>2. CASE x # u
      BY <1>3, <1>5, <2>1, <3>2 DEF Logged
    <3> QED
      BY <3>1, <3>2
  <2> QED
    BY <1>3, <2>1 DEF Logged
<1>7. ShownOnce'
  BY <1>1 DEF ShownOnce
<1>8. ASSUME Attends
      PROVE  Attends'
  <2>1. PICK e \in Seq(ChatMessage) :
          /\ Hearing(store.messages, inbox, e) /\ Len(e) <= MaxMessages
          /\ Sure => Heeds(e, log, Said)
    BY <1>8 DEF Attends
  <2>2. Sure' => Sure
    BY <1>1, <1>5, Constants DEF Sure, Told
  <2>3. /\ u \notin DOMAIN Said /\ DOMAIN Said' = DOMAIN Said \cup {u}
        /\ Said'[u] = Len(log) + 1 /\ \A x \in DOMAIN Said : Said'[x] = Said[x]
    <3>1. {x \in Users : busy'[x].at = "said"} = {x \in Users : busy[x].at = "said"} \cup {u}
      BY <1>1, <1>5
    <3>2. u \notin {x \in Users : busy[x].at = "said"}
      BY <1>1
    <3> QED
      BY <1>2, <1>5, <3>1, <3>2 DEF Said
  <2> DEFINE more == Said'
  <2> HIDE DEF more
  <2>4. ASSUME Heeds(e, log, Said)
        PROVE  Heeds(e, log', more)
    <3>1. u \notin DOMAIN Said /\ DOMAIN more = DOMAIN Said \cup {u} /\ more[u] = Len(log) + 1
          /\ \A x \in DOMAIN Said : more[x] = Said[x]
      BY <2>3 DEF more
    <3>2. Heeds(e, Append(log, line), more)
      BY <1>2, <2>4, <3>1, SayingHeeds
    <3> QED
      BY <1>1, <3>2
  <2>5. Sure' => Heeds(e, log', Said')
    BY <2>1, <2>2, <2>4 DEF more
  <2> QED
    BY <1>1, <2>1, <2>5 DEF Attends
<1> QED
  BY <1>6, <1>7, <1>8 DEF KeepsChat

\* It is announced: unless more are about to announce something than fit, it is
\* shown, and what falls out of the list is in no snapshot any more.
LEMMA AnnouncementKeepsChat ==
  ASSUME Ranges, Logged, ShownOnce, store' = store, NEW u \in Users, ChatAnnounced(u)
  PROVE  KeepsChat
<1> DEFINE m == [t |-> "chat_message", message |-> busy[u].message]
<1>1. /\ busy[u].at = "said" /\ busy' = [busy EXCEPT ![u] = Idle] /\ Idle.at = "idle"
      /\ Broadcast(<<m>>) /\ log' = log /\ link' = link
      /\ m.t = "chat_message" /\ m.message = busy[u].message
  BY DEF ChatAnnounced, Stays, Idle
<1>2. m \in Frames /\ m.message \in ChatMessage
  BY <1>1 DEF Ranges, Server, Work, WorkOf, Frames, ChatFrames
<1> HIDE DEF m
<1>3. busy'[u] = Idle /\ \A x \in Users \ {u} : busy'[x] = busy[x]
  BY <1>1, OneMoves, WorkIn
<1>4. inbox \in Seq(Frames) /\ raced \in BOOLEAN
  BY WorkIn DEF Wire
<1>5. inbox' = inbox \/ (Hears /\ inbox' = inbox \o <<m>>)
  BY <1>1 DEF Broadcast
<1>6. Logged'
  BY <1>1, <1>3 DEF Logged
<1>7. ShownOnce'
  <2>1. \A i \in DOMAIN inbox' : (i \in DOMAIN inbox /\ inbox'[i] = inbox[i]) \/ inbox'[i] = m
    BY <1>2, <1>4, <1>5
  <2> QED
    BY <1>1, <2>1 DEF ShownOnce
<1>8. ASSUME Fits, Attends
      PROVE  Attends'
  <2>1. PICK e \in Seq(ChatMessage) :
          /\ Hearing(store.messages, inbox, e) /\ Len(e) <= MaxMessages
          /\ Sure => Heeds(e, log, Said)
    BY <1>8 DEF Attends
  <2>2. raced => raced'
    BY <1>1, <1>4 DEF Broadcast
  <2>3. Sure' => Sure
    BY <1>1, <1>3, <2>2, Constants DEF Sure, Told
  <2>4. CASE Hears
    <3> DEFINE f == Heard(e, m)
    <3>1. f \in Seq(ChatMessage) /\ Len(f) <= MaxMessages /\ Hearing(store.messages, inbox \o <<m>>, f)
      BY <1>2, <1>4, <2>1, HearingNext, HeardType
    <3>2. f = AppendMessage(e, m.message)
      BY <1>1 DEF Heard
    <3>3. inbox' = inbox \o <<m>>
      BY <1>1, <2>4 DEF Broadcast
    <3>4. /\ u \in DOMAIN Said /\ m.message.id = Said[u] /\ IsFiniteSet(DOMAIN Said)
          /\ m.message.id \in DOMAIN log /\ m.message = log[m.message.id]
      BY <1>1, SaidBy DEF Logged
    <3>5. Cardinality(DOMAIN Said) <= Crowd
      <4>1. DOMAIN Said \subseteq DOMAIN live /\ DOMAIN live \subseteq Users
        <5>1. Me \in DOMAIN live
          BY <2>4, MeHere
        <5>2. \A x \in Users \ {Me} : busy[x].at = "said" => x \in DOMAIN live
          BY DEF Ranges, Server, Present, Idle
        <5> QED
          BY <5>1, <5>2, SaidBy DEF Ranges, Server, Present, Rosters
      <4>2. IsFiniteSet(DOMAIN live)
        BY <4>1, Constants, FS_Subset
      <4>3. Cardinality(DOMAIN Said) <= Cardinality(DOMAIN live)
        BY <4>1, <4>2, FS_Subset
      <4>4. Cardinality(DOMAIN Said) \in Nat /\ Cardinality(DOMAIN live) \in Nat /\ Crowd \in Int
        BY <3>4, <4>2, FS_CardinalityType, Constants DEF Crowd
      <4> QED
        BY <1>8, <4>3, <4>4 DEF Fits
    <3>6. Said' = Without(Said, u)
      <4>1. {x \in Users : busy'[x].at = "said"} = {x \in Users : busy[x].at = "said"} \ {u}
        BY <1>1, <1>3
      <4>2. \A x \in Users \ {u} : busy'[x].message.id = busy[x].message.id
        BY <1>3
      <4> QED
        BY <4>1, <4>2 DEF Said, Without
    <3>7. log \in Seq(ChatMessage)
      BY DEF Ranges, Server, Records
    <3> HIDE DEF f
    <3>8. Heeds(e, log, Said) => Heeds(f, log', Said')
      <4> SUFFICES ASSUME Heeds(e, log, Said)
                   PROVE  Heeds(f, log', Said')
        OBVIOUS
      <4>1. Heeds(AppendMessage(e, m.message), log, Without(Said, u))
        BY <1>2, <2>1, <3>4, <3>5, <3>7, AnnouncedHeeds
      <4> QED
        BY <1>1, <3>2, <3>6, <4>1
    <3> QED
      BY <2>1, <2>3, <3>1, <3>3, <3>8 DEF Attends
  <2>5. CASE ~Hears
    <3>1. ~Sure' /\ inbox' = inbox
      BY <1>5, <2>3, <2>5, SureHears
    <3> QED
      BY <2>1, <3>1 DEF Attends
  <2> QED
    BY <2>4, <2>5
<1> QED
  BY <1>6, <1>7, <1>8 DEF KeepsChat

\* The snapshot is sent: it has the end of the log, each line of it once.
LEMMA SnapshotSingle ==
  ASSUME NEW lg \in Seq(ChatMessage), Numbered(lg)
  PROVE  Single(LastOf(lg, MaxRecent))
<1> DEFINE nobody == [x \in {} |-> 0]
<1>1. DOMAIN nobody = {} /\ Cardinality({}) = 0 /\ IsFiniteSet({})
  BY FS_EmptySet
<1>2. 0 < Crowd
  BY Constants DEF Crowd
<1> HIDE DEF nobody
<1>3. Heeds(LastOf(lg, MaxRecent), lg, nobody)
  BY <1>1, <1>2, SnapshotHeeds
<1> QED
  BY <1>3 DEF Heeds, Quoted

LEMMA ReadyKeepsChat ==
  ASSUME Ranges, Logged, ShownOnce, store' = store, ReadySent
  PROVE  KeepsChat
<1> DEFINE h == busy[Me]
           m == [t |-> "participant_joined", user |-> Me, role |-> live[Me]]
           ms == LastOf(log, MaxRecent)
<1>1. /\ busy[Me].at = "greeting" /\ busy' = [busy EXCEPT ![Me] = Idle] /\ Idle.at = "idle"
      /\ inbox' = IF link = "joining"
                  THEN inbox \o <<Snapshot>> \o (IF h.first THEN <<m>> ELSE <<>>)
                  ELSE inbox
      /\ log' = log /\ raced' = raced /\ link' = link
  BY DEF ReadySent, Stays, Idle
<1>2. Apart({"said"}) /\ LogsLine /\ inbox \in Seq(Frames)
  BY <1>1, OneMoves, WorkIn, Constants DEF LogsLine, Wire
<1>3. CASE link # "joining"
  <2>1. (Sure' => Sure) /\ inbox' = inbox
    BY <1>1, <1>3 DEF Sure, Told
  <2> QED
    BY <1>2, <2>1, AsideKeepsChat
<1>4. CASE link = "joining"
  <2>1. /\ Snapshot \in Frames /\ Snapshot.t = "ready" /\ Snapshot.messages = ms
        /\ log \in Seq(ChatMessage) /\ Numbered(log)
    BY SnapshotFits DEF Ranges, Snapshot, Server, Records, Logged
  <2> HIDE DEF ms
  <2>2. Single(ms)
    BY <2>1, SnapshotSingle DEF ms
  <2>3. Me \in DOMAIN live
    BY <1>4, MeHere DEF Hears
  <2>4. m \in Frames /\ Chatless(m)
    <3>1. live[Me] \in RoomRole
      BY <2>3 DEF Ranges, Server, Present, Rosters
    <3> QED
      BY <3>1, Constants DEF Frames, PersonFrames, Chatless
  <2> HIDE DEF m
  <2> DEFINE q == inbox \o <<Snapshot>>
             l == IF h.first THEN <<m>> ELSE <<>>
  <2>5. /\ q \in Seq(Frames) /\ Len(q) = Len(inbox) + 1 /\ q[Len(inbox) + 1] = Snapshot
        /\ \A i \in 1 .. Len(inbox) : q[i] = inbox[i]
        /\ Len(inbox) \in Nat
    BY <1>2, <2>1
  <2>6. l \in Seq(Frames) /\ \A i \in DOMAIN l : Chatless(l[i])
    <3>1. <<m>> \in Seq(Frames) /\ \A i \in DOMAIN <<m>> : <<m>>[i] = m
      BY <2>4
    <3>2. <<>> \in Seq(Frames) /\ \A i \in DOMAIN <<>> : Chatless(<<>>[i])
      OBVIOUS
    <3> QED
      BY <2>4, <3>1, <3>2
  <2>7. inbox' = q \o l
    BY <1>1, <1>4
  <2> HIDE DEF q, l
  <2>8. Logged' /\ Said' = Said
    BY <1>2, LoggedStays
  <2>9. ShownOnce'
    <3>1. ASSUME NEW i \in DOMAIN inbox', inbox'[i].t = "ready"
          PROVE  Single(inbox'[i].messages)
      <4>1. (i \in DOMAIN q /\ inbox'[i] = q[i]) \/ \E j \in DOMAIN l : inbox'[i] = l[j]
        BY <2>5, <2>6, <2>7, EitherPart
      <4>2. i \in DOMAIN q /\ inbox'[i] = q[i]
        BY <2>6, <3>1, <4>1 DEF Chatless
      <4>3. i \in 1 .. Len(inbox) \/ i = Len(inbox) + 1
        BY <2>5, <4>2
      <4>4. CASE i \in 1 .. Len(inbox)
        <5>1. i \in DOMAIN inbox /\ inbox'[i] = inbox[i]
          BY <1>2, <2>5, <4>2, <4>4
        <5> QED
          BY <3>1, <5>1 DEF ShownOnce
      <4>5. CASE i = Len(inbox) + 1
        BY <2>1, <2>2, <2>5, <4>2, <4>5
      <4> QED
        BY <4>3, <4>4, <4>5
    <3> QED
      BY <3>1 DEF ShownOnce
  <2>10. ASSUME Fits, Attends
         PROVE  Attends'
    <3>1. PICK e \in Seq(ChatMessage) : Hearing(store.messages, inbox, e)
      BY <2>10 DEF Attends
    <3>2. Heard(e, Snapshot) = ms
      BY <2>1 DEF Heard
    <3>3. Hearing(store.messages, q, ms) /\ ms \in Seq(ChatMessage)
      BY <1>2, <2>1, <3>1, <3>2, HearingNext DEF q
    <3>4. Hearing(store.messages, inbox', ms)
      BY <2>5, <2>6, <2>7, <3>3, HearingOn
    <3>5. Len(ms) <= MaxMessages
      <4>1. Len(ms) <= MaxRecent
        BY <2>1, LastOfType, Constants DEF ms
      <4>2. Len(ms) \in Nat
        BY <3>3
      <4> QED
        BY <4>1, <4>2, Constants
    <3>6. IsFiniteSet(DOMAIN Said) /\ Cardinality(DOMAIN Said) < Crowd
      <4>1. DOMAIN Said \subseteq DOMAIN live \ {Me} /\ DOMAIN live \subseteq Users
        <5>1. \A x \in Users \ {Me} : busy[x].at = "said" => x \in DOMAIN live
          BY DEF Ranges, Server, Present, Idle
        <5> QED
          BY <1>1, <5>1, SaidBy DEF Ranges, Server, Present, Rosters
      <4>2. IsFiniteSet(DOMAIN live)
        BY <4>1, Constants, FS_Subset
      <4>3. IsFiniteSet(DOMAIN live \ {Me})
            /\ Cardinality(DOMAIN live \ {Me}) = Cardinality(DOMAIN live) - 1
        BY <2>3, <4>2, FS_RemoveElement
      <4>4. Cardinality(DOMAIN Said) <= Cardinality(DOMAIN live \ {Me})
        BY <4>1, <4>3, FS_Subset
      <4>5. Cardinality(DOMAIN Said) \in Nat /\ Cardinality(DOMAIN live) \in Nat /\ Crowd \in Int
        BY <4>2, SaidBy, FS_CardinalityType, Constants DEF Crowd
      <4>6. IsFiniteSet(DOMAIN Said)
        BY SaidBy
      <4> QED
        BY <2>10, <4>3, <4>4, <4>5, <4>6 DEF Fits
    <3>7. Heeds(ms, log, Said)
      BY <2>1, <3>6, SnapshotHeeds DEF ms
    <3>8. Heeds(ms, log', Said')
      BY <1>1, <2>8, <3>7
    <3> QED
      BY <3>3, <3>4, <3>5, <3>8 DEF Attends
  <2> QED
    BY <2>8, <2>9, <2>10 DEF KeepsChat
<1> QED
  BY <1>3, <1>4

\* A message is shown once when it arrives, and what was to come is still to come.
LEMMA HeardSingle ==
  ASSUME NEW ms \in Seq(ChatMessage), Single(ms), NEW m \in Frames,
         m.t = "ready" => Single(m.messages)
  PROVE  Single(Heard(ms, m))
<1>1. CASE m.t = "chat_message"
  <2> DEFINE c == m.message
             ns == Append(ms, c)
  <2>1. c \in ChatMessage
    BY <1>1 DEF Frames, Readies, PersonFrames, LeftFrames, QueueFrames, ChatFrames, RoomFrames,
       AuthorityFrames, ErrorFrames
  <2>2. Heard(ms, m) = AppendMessage(ms, c)
    BY <1>1 DEF Heard
  <2> HIDE DEF c
  <2>3. CASE \E i \in DOMAIN ms : ms[i].id = c.id
    BY <2>2, <2>3 DEF AppendMessage
  <2>4. CASE ~ \E i \in DOMAIN ms : ms[i].id = c.id
    <3>1. /\ ns \in Seq(ChatMessage) /\ Len(ns) = Len(ms) + 1 /\ ns[Len(ms) + 1] = c
          /\ Len(ms) \in Nat /\ DOMAIN ms = 1 .. Len(ms)
          /\ \A i \in 1 .. Len(ms) : ns[i] = ms[i]
      BY <2>1
    <3>2. Heard(ms, m) = LastOf(ns, MaxMessages)
      BY <2>2, <2>4 DEF AppendMessage
    <3> HIDE DEF ns
    <3>3. ASSUME NEW i \in 1 .. Len(ns), NEW j \in 1 .. Len(ns), ns[i].id = ns[j].id
          PROVE  i = j
      <4>1. \A x \in 1 .. Len(ns) : x \in 1 .. Len(ms) \/ x = Len(ms) + 1
        BY <3>1
      <4> QED
        BY <2>4, <3>1, <3>3, <4>1 DEF Single
    <3> DEFINE last == LastOf(ns, MaxMessages)
    <3>4. PICK k \in Nat : EndOf(last, ns, MaxMessages, k)
      BY <3>1, LastOfEnds, Constants
    <3> HIDE DEF last
    <3>5. /\ last \in Seq(ChatMessage)
          /\ \A i \in 1 .. Len(last) : i + k \in 1 .. Len(ns) /\ last[i] = ns[i + k]
      BY <3>4 DEF EndOf
    <3>6. ASSUME NEW i \in DOMAIN last, NEW j \in DOMAIN last, last[i].id = last[j].id
          PROVE  i = j
      <4>1. i \in 1 .. Len(last) /\ j \in 1 .. Len(last) /\ i \in Nat /\ j \in Nat
        BY <3>5
      <4>2. ns[i + k].id = ns[j + k].id /\ i + k \in 1 .. Len(ns) /\ j + k \in 1 .. Len(ns)
        BY <3>5, <3>6, <4>1
      <4>3. i + k = j + k
        BY <3>3, <4>2
      <4> QED
        BY <4>1, <4>3
    <3> QED
      BY <3>2, <3>6 DEF Single, last
  <2> QED
    BY <2>3, <2>4
<1>2. CASE m.t # "chat_message"
  BY <1>2 DEF Heard
<1> QED
  BY <1>1, <1>2

LEMMA ReceivesKeepsChat ==
  ASSUME Ranges, InTurn, Logged, ShownOnce, Receives
  PROVE  KeepsChat
<1> DEFINE m == Head(inbox)
           s == Apply(store, m)
<1>1. /\ inbox # <<>> /\ inbox \in Seq(Frames) /\ m \in Frames /\ Hears /\ s \in Stores
      /\ inbox' = Tail(inbox) /\ store' = Settled(s) /\ store \in Stores
      /\ link' = IF m.t = "ready" THEN "up" ELSE link
      /\ UNCHANGED <<busy, log, raced>>
  BY FirstApplied, WorkIn DEF Receives, Rendered, Wire, Ranges, Client
<1>2. store'.messages = Heard(store.messages, m) /\ store.messages \in Seq(ChatMessage)
  <2>1. s.messages = Heard(store.messages, m)
    BY <1>1, HeardApply
  <2> HIDE DEF m, s
  <2>2. store'.messages = s.messages
    BY <1>1, SettledFields
  <2> QED
    BY <1>1, <2>1, <2>2 DEF Stores
<1>3. /\ 1 \in DOMAIN inbox /\ inbox[1] = m
      /\ \A i \in DOMAIN inbox' : i + 1 \in DOMAIN inbox /\ inbox'[i] = inbox[i + 1]
  BY <1>1
<1>4. Sure' => Sure
  <2> SUFFICES ASSUME Told', ~Told
               PROVE  FALSE
    BY <1>1 DEF Sure
  <2>1. m.t = "ready" /\ link = "joining" /\ busy[Me].at = "greeting"
    BY <1>1 DEF Told, Hears
  <2> QED
    BY <1>3, <2>1 DEF InTurn, NoReadyYet
<1>5. Logged' /\ Said' = Said
  BY <1>1 DEF Logged, Said
<1> HIDE DEF m, s
<1>6. ShownOnce'
  <2>1. Single(Heard(store.messages, m))
    BY <1>1, <1>2, <1>3, HeardSingle DEF ShownOnce
  <2> QED
    BY <1>2, <1>3, <2>1 DEF ShownOnce
<1>7. ASSUME Attends
      PROVE  Attends'
  <2>1. PICK e \in Seq(ChatMessage) :
          /\ Hearing(store.messages, inbox, e) /\ Len(e) <= MaxMessages
          /\ Sure => Heeds(e, log, Said)
    BY <1>7 DEF Attends
  <2>2. Hearing(Heard(store.messages, m), Tail(inbox), e)
    BY <1>1, <2>1, HearingFirst DEF m
  <2>3. Hearing(store'.messages, inbox', e)
    BY <1>1, <1>2, <2>2
  <2>4. Sure' => Heeds(e, log', Said')
    BY <1>1, <1>4, <1>5, <2>1
  <2> QED
    BY <2>1, <2>3, <2>4 DEF Attends
<1> QED
  BY <1>5, <1>6, <1>7 DEF KeepsChat

\* What the visitor does to the page leaves the messages, unless the client hangs up.
LEMMA PageKeepsChat ==
  ASSUME Logged, ShownOnce, UNCHANGED <<busy, log, link, inbox, raced>>,
         store'.messages = store.messages
  PROVE  KeepsChat
<1>1. Logged' /\ Said' = Said
  BY DEF Logged, Said
<1>2. ShownOnce'
  BY DEF ShownOnce
<1>3. Sure' <=> Sure
  BY DEF Sure, Told
<1>4. Attends => Attends'
  BY <1>1, <1>3 DEF Attends
<1> QED
  BY <1>1, <1>2, <1>4 DEF KeepsChat

LEMMA HangingKeepsChat ==
  ASSUME Ranges', Logged, ShownOnce, Hangs("down"), store' = store \/ store' = Initial
  PROVE  KeepsChat
<1>1. inbox' = <<>> /\ ~Sure' /\ UNCHANGED <<busy, log>>
  BY DEF Hangs, Sure, Told
<1>2. Logged'
  BY <1>1 DEF Logged
<1>3. ShownOnce'
  <2>1. Single(store'.messages)
    BY DEF ShownOnce, Initial, Single
  <2> QED
    BY <1>1, <2>1 DEF ShownOnce
<1>4. store'.messages \in Seq(ChatMessage) /\ Len(store'.messages) <= MaxMessages
  BY DEF Ranges, Client, Stores
<1>5. Hearing(store'.messages, inbox', store'.messages)
  BY <1>1, <1>4, HearingNow
<1>6. Attends'
  BY <1>1, <1>4, <1>5 DEF Attends
<1> QED
  BY <1>2, <1>3, <1>6 DEF KeepsChat

LEMMA LookingKeepsChat ==
  ASSUME Ranges, Ranges', Logged, ShownOnce, Looking
  PROVE  KeepsChat
<1>1. CASE LeavesRoom \/ Drops
  BY <1>1, HangingKeepsChat DEF LeavesRoom, Drops
<1>2. CASE UNCHANGED membersVars /\ store'.messages = store.messages
  BY <1>2, PageKeepsChat DEF membersVars
<1>3. CASE EntersRoom \/ ChoosesTheme \/ Scrolls \/ TypesName
  BY <1>2, <1>3 DEF EntersRoom, ChoosesTheme, Scrolls, TypesName
<1>4. ASSUME NEW p \in Panels, OpensPanel(p)
      PROVE  KeepsChat
  <2>1. store' \in {store, MarkChatRead(store)} /\ UNCHANGED membersVars
    BY <1>4 DEF OpensPanel
  <2>2. MarkChatRead(store).messages = store.messages
    BY DEF MarkChatRead, Ranges, Client, Stores
  <2> QED
    BY <1>2, <2>1, <2>2
<1>5. CASE TurnedAway
  <2> DEFINE s == ApplyKicked(store, [t |-> "kicked"])
  <2>1. store' = Settled(s) /\ UNCHANGED membersVars
    BY <1>5 DEF TurnedAway, Rendered
  <2>2. s \in Stores /\ s.messages = store.messages
    BY DEF ApplyKicked, Ranges, Client, Stores
  <2> HIDE DEF s
  <2> QED
    BY <1>2, <2>1, <2>2, SettledFields
<1> QED
  BY <1>1, <1>3, <1>4, <1>5 DEF Looking

LEMMA CommandsKeepChat ==
  ASSUME Ranges, Logged, ShownOnce, store' = store, Commands
  PROVE  KeepsChat
<1>1. PICK u \in Users :
        /\ Ready(u)
        /\ \/ \E t \in Users, role \in {Member, Cohost} : SetRole(u, t, role)
           \/ \E t \in Users : TransferHost(u, t) \/ Kick(u, t)
           \/ \E t \in Users \cup {None} : Designate(u, t)
           \/ \E e \in DOMAIN QueueEdits : QueueEdit(u, e)
           \/ ChatSend(u) \/ (u = Me /\ Refused(Me))
  BY DEF Commands
<1>2. CASE \/ \E t \in Users, role \in {Member, Cohost} : SetRole(u, t, role)
           \/ \E t \in Users : TransferHost(u, t) \/ Kick(u, t)
           \/ \E e \in DOMAIN QueueEdits : QueueEdit(u, e)
  BY <1>1, <1>2, StartsKeepChat
<1>3. CASE (\E t \in Users \cup {None} : Designate(u, t)) \/ (u = Me /\ Refused(Me))
  BY <1>1, <1>3, SettingsKeepChat
<1>4. CASE ChatSend(u)
  BY <1>1, <1>4, SayKeepsChat
<1> QED
  BY <1>1, <1>2, <1>3, <1>4

LEMMA HandlersKeepChat ==
  ASSUME Ranges, HeirsOther, Logged, ShownOnce, store' = store, Handlers
  PROVE  KeepsChat
<1>1. ASSUME NEW u \in Users,
             \/ RoleApplied(u) \/ RoleAnnounced(u) \/ HostApplied(u) \/ HostAnnounced(u)
             \/ HostTold(u) \/ TargetTold(u) \/ DesignateAnnounced(u)
             \/ KickAnnounced(u) \/ ChatAnnounced(u) \/ QueueRead(u) \/ QueueAnnounced(u)
             \/ Greets(u)
      PROVE  KeepsChat
  BY <1>1, RolesKeepChat, SettingsKeepChat, ListsKeepChat, GoingsKeepChat, AnnouncementKeepsChat
<1>2. CASE \E p \in patches : PatchSaved(p) \/ PatchApplied(p) \/ PatchAnnounced(p)
  BY <1>2, SettingsKeepChat
<1> QED
  BY <1>1, <1>2, ConnectsKeepsChat, ReadyKeepsChat DEF Handlers

LEMMA ChatStep ==
  ASSUME Ranges, InTurn, Logged, ShownOnce, [Next]_vars
  PROVE  KeepsChat
<1>1. CASE Serves /\ PageStays
  <2>1. store' = store
    BY <1>1 DEF PageStays
  <2>2. CASE Requests
    BY <2>1, <2>2, SettingsKeepChat DEF Requests
  <2>3. CASE Goings
    BY <2>1, <2>3, GoingsKeepChat DEF Goings
  <2>4. CASE Admitted
    BY <2>1, <2>4, ConnectsKeepsChat
  <2> QED
    BY <1>1, <2>1, <2>2, <2>3, <2>4, CommandsKeepChat, HandlersKeepChat
       DEF Serves, InTurn
<1>2. CASE Refusal \/ UNCHANGED vars
  BY <1>2, PageKeepsChat DEF Refusal, PageStays, vars
<1>3. CASE Looking
  BY <1>3, RangesStep, LookingKeepsChat
<1>4. CASE Receives
  BY <1>4, ReceivesKeepsChat
<1> QED
  BY <1>1, <1>2, <1>3, <1>4, Steps

LEMMA InitChat == Init => Logged /\ ShownOnce /\ Attends
<1> SUFFICES ASSUME Init
             PROVE  Logged /\ ShownOnce /\ Attends
  OBVIOUS
<1>1. /\ store = Initial /\ inbox = <<>> /\ ~Sure /\ log = <<[id |-> 1, by |-> Host]>>
      /\ \A u \in Users : busy[u].at = "idle"
  BY DEF Init, MembersInit, Sure, Told, Idle
<1>2. Logged
  <2>1. DOMAIN log = {1} /\ log[1].id = 1
    BY <1>1
  <2> QED
    BY <1>1, <2>1 DEF Logged, Numbered
<1>3. store.messages = <<>> /\ <<>> \in Seq(ChatMessage) /\ Len(<<>>) <= MaxMessages
  BY <1>1, Constants DEF Initial
<1>4. ShownOnce
  BY <1>1, <1>3 DEF ShownOnce, Single
<1>5. Hearing(store.messages, inbox, store.messages)
  BY <1>1, <1>3, HearingNow
<1> QED
  BY <1>1, <1>2, <1>3, <1>4, <1>5 DEF Attends

LEMMA ShownOnceAlways == Spec => [](Ranges /\ InTurn /\ Logged /\ ShownOnce)
<1>1. Init => Ranges /\ InTurn /\ Logged /\ ShownOnce
  BY InitRanges, InitInTurn, InitChat
<1>2. Ranges /\ InTurn /\ Logged /\ ShownOnce /\ [Next]_vars =>
        (Ranges /\ InTurn /\ Logged /\ ShownOnce)'
  BY RangesStep, InTurnStep, ChatStep DEF KeepsChat
<1> QED
  BY <1>1, <1>2, PTL DEF Spec

\* Nothing is on its way, and nobody is to announce anything.
LEMMA QuietChat ==
  ASSUME Ranges, Attends, Quiet
  PROVE  {m \in ToSet(LastOf(log, MaxRecent)) : m.by # None} \subseteq ToSet(store.messages)
<1>1. PICK e \in Seq(ChatMessage) :
        /\ Hearing(store.messages, inbox, e)
        /\ Sure => Heeds(e, log, Said)
  BY DEF Attends
<1> DEFINE ms == store.messages
           last == LastOf(log, MaxRecent)
<1>2. e = ms /\ Sure
  BY <1>1, HearingDone DEF Quiet, Sure, Told
<1>3. Heeds(ms, log, Said) /\ DOMAIN Said = {}
  <2>1. \A u \in Users : busy[u].at = "idle"
    BY DEF Quiet, Idle
  <2>2. DOMAIN Said = {}
    BY <2>1, SaidBy
  <2> QED
    BY <1>1, <1>2, <2>2
<1> SUFFICES ASSUME NEW i \in DOMAIN last, last[i].by # None
             PROVE  last[i] \in ToSet(ms)
  BY DEF ToSet
<1>4. log \in Seq(ChatMessage) /\ MaxRecent \in Nat \ {0}
  BY Constants DEF Ranges, Server, Records
<1>5. PICK k \in Nat : EndOf(last, log, MaxRecent, k)
  BY <1>4, LastOfEnds
<1> HIDE DEF last, ms
<1>6. /\ last \in Seq(ChatMessage) /\ Len(last) <= MaxRecent
      /\ k = 0 \/ k = Len(log) - MaxRecent
      /\ Len(last) = Len(log) - k
      /\ \A j \in 1 .. Len(last) : j + k \in 1 .. Len(log) /\ last[j] = log[j + k]
  BY <1>5 DEF EndOf
<1>7. i \in 1 .. Len(last) /\ Len(log) \in Nat /\ DOMAIN log = 1 .. Len(log)
  BY <1>4, <1>6
<1>8. i + k \in DOMAIN log /\ last[i] = log[i + k] /\ i + k > Len(log) - MaxRecent
  <2>1. i + k \in DOMAIN log /\ last[i] = log[i + k]
    BY <1>6, <1>7
  <2>2. i + k > Len(log) - MaxRecent
    BY <1>4, <1>6, <1>7
  <2> QED
    BY <2>1, <2>2
<1>9. PICK j \in DOMAIN ms : ms[j].id = i + k
  BY <1>3, <1>8 DEF Heeds, Complete
<1>10. ms[j] = last[i]
  BY <1>3, <1>8, <1>9 DEF Heeds, Quoted
<1> QED
  BY <1>9, <1>10 DEF ToSet

\* However often the client connects again, and whatever a snapshot had already, no
\* message is shown twice (room-store.ts, chat_message): however many speak at once.
THEOREM NeverTwice == Spec => []Single(store.messages)
<1>1. Ranges /\ InTurn /\ Logged /\ ShownOnce => Single(store.messages)
  BY DEF ShownOnce
<1> QED
  BY <1>1, ShownOnceAlways, PTL

\* And in a quiet room nothing of the last that was said is missing, in whichever
\* order it was written to the log and announced (session.rs, chat_send), as long as
\* no more are in the room than a list has room for beyond a snapshot's window.
THEOREM ChatOnceAlways == Spec /\ []Fits => []ChatOnce
<1>1. Init => Attends
  BY InitChat
<1>2. Ranges /\ InTurn /\ Logged /\ ShownOnce /\ Fits /\ Attends /\ [Next]_vars => Attends'
  BY ChatStep DEF KeepsChat
<1>3. Ranges /\ ShownOnce /\ Attends => ChatOnce
  BY QuietChat DEF ShownOnce, Single, ChatOnce
<1> QED
  BY <1>1, <1>2, <1>3, ShownOnceAlways, PTL DEF Spec
=============================================================================
