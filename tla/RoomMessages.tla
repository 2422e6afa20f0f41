----------------------------- MODULE RoomMessages -----------------------------
(***************************************************************************)
(* What the server may tell a client: the schemas of packages/protocol/src,  *)
(* against which socket.ts holds every frame, dropping what does not fit.    *)
(* A queue item is its number, and a participant a user with a role.         *)
(***************************************************************************)
EXTENDS RoomStore, FiniteSets

CONSTANTS Me, Host, Others,   \* the users; Host opened the room
          Names, Themes       \* what a room may be called and look like

Users == {Me, Host} \cup Others

RoomSnapshot ==
  [name : Names, gq : BOOLEAN, theme : Themes, successor : Users \cup {None}]

MessagesAssumption ==
  /\ IsFiniteSet(Others) /\ Me # Host /\ {Me, Host} \cap Others = {}
  /\ Names # {} /\ Themes # {} /\ None \notin Users \cup Names \cup Themes
  /\ None \notin RoomSnapshot
ASSUME MessagesAssumption

Guest == 0
Member == 1
Cohost == 2
Hosting == 3

RoomRole == Guest .. Hosting
Permissions == SUBSET {"queue", "kick", "edit", "transfer", "roles", "designate"}
Participants(people) == DOMAIN people \subseteq Users /\ Range(people) \subseteq RoomRole

\* The room's own lines have no author.
ChatMessage == [id : Nat, by : Users \cup {None}]

ReadyMessage(m) ==
  /\ m.t = "ready" /\ m.me \in Users /\ m.role \in RoomRole /\ m.perms \in Permissions
  /\ m.room \in RoomSnapshot /\ Participants(m.people)
  /\ m.queue \in Seq(Nat) /\ m.messages \in Seq(ChatMessage)

ParticipantMessage(m) ==
  \/ m.t \in {"participant_joined", "participant_updated"}
     /\ m.user \in Users /\ m.role \in RoomRole
  \/ m.t = "participant_left" /\ m.user \in Users

QueueMessage(m) == m.t = "queue_updated" /\ m.items \in Seq(Nat) /\ m.version \in Nat

ChatEvent(m) == m.t = "chat_message" /\ m.message \in ChatMessage

RoomMessage(m) ==
  \/ m.t = "room_updated" /\ m.room \in RoomSnapshot
  \/ /\ m.t = "permissions_updated"
     /\ m.user \in Users /\ m.role \in RoomRole /\ m.perms \in Permissions

Notice(m) == m.t \in {"kicked", "error"}

ServerMessage(m) ==
  \/ ReadyMessage(m) \/ ParticipantMessage(m) \/ QueueMessage(m)
  \/ ChatEvent(m) \/ RoomMessage(m) \/ Notice(m)

\* What does not fit is dropped.
Understood(s, m) == IF ServerMessage(m) THEN Apply(s, m) ELSE s
=============================================================================
