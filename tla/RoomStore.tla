------------------------------- MODULE RoomStore -------------------------------
(***************************************************************************)
(* The client's live room state, apps/web/src/stores/room-store.ts: what     *)
(* each message of the server does to the store.  Chat messages are          *)
(* [id, by], the people a function from user to role, a room [name, gq,      *)
(* theme, successor].  The playback fields are Player's.                     *)
(***************************************************************************)
EXTENDS Naturals, SequencesExt

CONSTANTS None,          \* JavaScript's null
          MaxMessages    \* MAX_MESSAGES, the code's 300

StoreAssumption == MaxMessages \in Nat \ {0}
ASSUME StoreAssumption

Initial ==
  [me |-> None, role |-> 0, perms |-> None, room |-> None, people |-> <<>>,
   queue |-> <<>>, queueVersion |-> 0, messages |-> <<>>,
   kicked |-> FALSE, lastError |-> FALSE, unread |-> 0]

------------------------------------------------------------------------------
(* The reducer, one operator per message.                                   *)

\* A snapshot.  The queue's version is not in it.
ApplyReady(s, m) ==
  [s EXCEPT !.me = m.me, !.role = m.role, !.perms = m.perms, !.room = m.room,
            !.people = m.people, !.queue = m.queue, !.messages = m.messages,
            !.kicked = FALSE, !.lastError = FALSE]

\* A list of people with one of them, new or not, in a role.
With(people, user, role) ==
  [u \in DOMAIN people \cup {user} |-> IF u = user THEN role ELSE people[u]]

\* Somebody who is listed already stays as they are.
ApplyJoined(s, m) ==
  IF m.user \in DOMAIN s.people THEN s
  ELSE [s EXCEPT !.people = With(@, m.user, m.role)]

ApplyLeft(s, m) ==
  [s EXCEPT !.people = [u \in DOMAIN @ \ {m.user} |-> @[u]]]

\* A plausible bug: somebody unknown is added.
UpdatedAnyway(s, m) ==
  [s EXCEPT !.people = With(@, m.user, m.role)]

ApplyUpdated(s, m) ==
  IF m.user \in DOMAIN s.people THEN [s EXCEPT !.people[m.user] = m.role] ELSE s

\* A plausible bug: the first one after a version is dropped too.
QueueUpdatedLater(s, m) ==
  IF m.version <= s.queueVersion + 1 THEN s
  ELSE [s EXCEPT !.queue = m.items, !.queueVersion = m.version]

ApplyQueueUpdated(s, m) ==
  IF m.version <= s.queueVersion THEN s
  ELSE [s EXCEPT !.queue = m.items, !.queueVersion = m.version]

\* The last n of a list.
LastOf(list, n) == SubSeq(list, (IF Len(list) > n THEN Len(list) - n ELSE 0) + 1, Len(list))

\* A plausible bug: a message that is there already is appended again.
AppendTwice(list, message) == LastOf(Append(list, message), MaxMessages)

\* A plausible bug: the list grows for as long as the room is open.
AppendUncapped(list, message) ==
  IF \E i \in DOMAIN list : list[i].id = message.id THEN list ELSE Append(list, message)

\* The bubble with the same nonce is the message itself: this client draws none
\* before the server answers.
AppendMessage(list, message) ==
  IF \E i \in DOMAIN list : list[i].id = message.id THEN list
  ELSE LastOf(Append(list, message), MaxMessages)

ApplyChat(s, m) ==
  [s EXCEPT !.messages = AppendMessage(@, m.message),
            !.unread = IF m.message.by = s.me THEN @ ELSE @ + 1]

ApplyRoomUpdated(s, m) == [s EXCEPT !.room = m.room]

\* A plausible bug: everybody's authority is taken for one's own.
PermissionsUpdatedForAll(s, m) == [s EXCEPT !.role = m.role, !.perms = m.perms]

ApplyPermissionsUpdated(s, m) ==
  IF m.user # s.me THEN s ELSE [s EXCEPT !.role = m.role, !.perms = m.perms]

ApplyKicked(s, m) == [s EXCEPT !.kicked = TRUE]

ApplyError(s, m) == [s EXCEPT !.lastError = TRUE]

Apply(s, m) ==
  CASE m.t = "ready" -> ApplyReady(s, m)
    [] m.t = "participant_joined" -> ApplyJoined(s, m)
    [] m.t = "participant_left" -> ApplyLeft(s, m)
    [] m.t = "participant_updated" -> ApplyUpdated(s, m)
    [] m.t = "queue_updated" -> ApplyQueueUpdated(s, m)
    [] m.t = "chat_message" -> ApplyChat(s, m)
    [] m.t = "room_updated" -> ApplyRoomUpdated(s, m)
    [] m.t = "permissions_updated" -> ApplyPermissionsUpdated(s, m)
    [] m.t = "kicked" -> ApplyKicked(s, m)
    [] OTHER -> ApplyError(s, m)

MarkChatRead(s) == [s EXCEPT !.unread = 0]
ClearError(s) == [s EXCEPT !.lastError = FALSE]     \* useErrorToasts, once shown
=============================================================================
