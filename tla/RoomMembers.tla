------------------------------ MODULE RoomMembers ------------------------------
(***************************************************************************)
(* The server's side of a room, less its playback: who is in it and with     *)
(* which authority, its settings, chat and queue, and what its handlers      *)
(* announce (apps/server/src/realtime/session.rs, ws.rs and room.rs,         *)
(* rooms/routes.rs).  A handler is one step per stretch between the awaits   *)
(* that part its writes from its announcements; busy says where each user's  *)
(* session is.  Me is the user whose client is modelled, and inbox what is   *)
(* on its way to that client.                                                *)
(***************************************************************************)
EXTENDS RoomMessages

CONSTANTS MaxRecent,          \* chat messages in a snapshot, the code's 60
          MaxOps              \* bound: commands, patches, arrivals and departures

MembersAssumption == MaxRecent \in 1 .. MaxMessages /\ MaxOps \in Nat
ASSUME MembersAssumption

VARIABLES
  rows,       \* room_members: each user's role and ban
  live,       \* the participants in memory, from user to role
  conns,      \* connections of the user whose client is modelled
  sess,       \* each session's role and permissions
  info,       \* the room in memory
  saved,      \* its settings in the database
  busy,       \* where each user's handler is
  patches,    \* settings requests under way
  log,        \* the chat in the database
  items,      \* the queue in the database
  numbered,   \* QUEUE_VERSION
  link,       \* the client's connection: down, admitted, joining or up
  inbox,      \* what has been sent to it
  raced,      \* something was announced while it was joining
  crossed,    \* what was announced in another order than it happened: queue, roles, room
  ops

membersVars == <<rows, live, conns, sess, info, saved, busy, patches, log, items,
                 numbered, link, inbox, raced, crossed, ops>>

Idle == [at |-> "idle"]

\* What a role may do (permissions::resolve), less what no panel here asks for: to
\* control playback, which a setting of its own gives to guests, to vote and to invite.
Resolve(role, gq) ==
  (IF role >= Cohost \/ gq THEN {"queue"} ELSE {})
    \cup (IF role >= Cohost THEN {"kick"} ELSE {})
    \cup (IF role = Hosting THEN {"edit", "transfer", "roles", "designate"} ELSE {})

Outranks(actor, target) == actor > target

------------------------------------------------------------------------------
(* Announcements reach the client once it has subscribed.                   *)

Hears == link \in {"joining", "up"}

Broadcast(messages) ==
  /\ inbox' = IF Hears THEN inbox \o messages ELSE inbox
  /\ raced' = (raced \/ (link = "joining" /\ messages # <<>>))

Silent == UNCHANGED <<inbox, raced>>
Quietly == Silent /\ UNCHANGED <<link, crossed>>

Counted == ops < MaxOps /\ ops' = ops + 1

\* A session that can take a command.
Ready(u) == u \in DOMAIN live /\ busy[u] = Idle /\ (u = Me => link = "up")

\* The command is refused, and the one who gave it told.
Refused(u) ==
  /\ u = Me /\ inbox' = Append(inbox, [t |-> "error"])
  /\ UNCHANGED <<rows, live, conns, sess, info, saved, busy, patches, log, items,
                 numbered, link, raced, crossed>>

Stays == UNCHANGED <<rows, live, conns, sess, info, saved, patches, log, items, numbered>>

------------------------------------------------------------------------------
(* Roles.                                                                   *)

ChangingRoles ==
  {"role_saved", "role_applied", "role_told", "host_saved", "host_applied", "host_told"}

\* Another change of roles is still under way.
RolesCross(u) ==
  crossed' = IF \E x \in Users \ {u} : busy[x].at \in ChangingRoles
             THEN crossed \cup {"roles"} ELSE crossed

MaySetRole(u, t) ==
  /\ "roles" \in sess[u].perms /\ t # u
  /\ t \in DOMAIN live /\ Outranks(sess[u].role, live[t])

SetRole(u, t, role) ==
  /\ MaySetRole(u, t)
  /\ rows' = [rows EXCEPT ![t].role = role]
  /\ busy' = [busy EXCEPT ![u] = [at |-> "role_saved", target |-> t, role |-> role]]
  /\ UNCHANGED <<live, conns, sess, info, saved, patches, log, items, numbered>> /\ Quietly

\* The live copy, if the target is still there, and a line in the chat's log.
RoleApplied(u) ==
  LET h == busy[u]
      there == h.target \in DOMAIN live
  IN  /\ h.at = "role_saved"
      /\ live' = IF there THEN [live EXCEPT ![h.target] = h.role] ELSE live
      /\ busy' = [busy EXCEPT ![u] = IF there THEN [h EXCEPT !.at = "role_applied"] ELSE Idle]
      /\ log' = IF there THEN Append(log, [id |-> Len(log) + 1, by |-> None]) ELSE log
      /\ UNCHANGED <<rows, conns, sess, info, saved, patches, items, numbered, link, ops>>
      /\ Silent /\ RolesCross(u)

\* Everybody's list.
RoleAnnounced(u) ==
  LET h == busy[u]
  IN  /\ h.at = "role_applied"
      /\ Broadcast(<<[t |-> "participant_updated", user |-> h.target, role |-> h.role]>>)
      /\ busy' = [busy EXCEPT ![u] = [h EXCEPT !.at = "role_told"]]
      /\ Stays /\ UNCHANGED <<link, crossed, ops>>

Entitlement(u, role) ==
  [t |-> "permissions_updated", user |-> u, role |-> role, perms |-> Resolve(role, info.gq)]

\* The target's own authority.
TargetTold(u) ==
  LET h == busy[u]
  IN  /\ h.at = "role_told"
      /\ Broadcast(<<Entitlement(h.target, h.role)>>)
      /\ busy' = [busy EXCEPT ![u] = Idle]
      /\ Stays /\ UNCHANGED <<link, crossed, ops>>

\* The target need not be there.
TransferHost(u, t) ==
  /\ "transfer" \in sess[u].perms /\ t # u
  /\ rows' = [rows EXCEPT ![u].role = Cohost,
                           ![t] = [@ EXCEPT !.role = Hosting, !.known = TRUE]]
  /\ busy' = [busy EXCEPT ![u] = [at |-> "host_saved", target |-> t, role |-> Hosting]]
  /\ UNCHANGED <<live, conns, sess, info, saved, patches, log, items, numbered>> /\ Quietly

HostApplied(u) ==
  LET h == busy[u]
  IN  /\ h.at = "host_saved"
      /\ live' = [x \in DOMAIN live |-> CASE x = u -> Cohost [] x = h.target -> Hosting
                                          [] OTHER -> live[x]]
      /\ sess' = [sess EXCEPT ![u] = [role |-> Cohost, perms |-> Resolve(Cohost, info.gq)]]
      /\ busy' = [busy EXCEPT ![u].at = "host_applied"]
      /\ log' = Append(log, [id |-> Len(log) + 1, by |-> None])
      /\ UNCHANGED <<rows, conns, info, saved, patches, items, numbered, link, ops>>
      /\ Silent /\ RolesCross(u)

\* The whole list, before both sides of the handover.
HostAnnounced(u) ==
  LET h == busy[u]
      updates == [i \in 1 .. Cardinality(DOMAIN live) |->
                    LET x == SetToSeq(DOMAIN live)[i]
                    IN  [t |-> "participant_updated", user |-> x, role |-> live[x]]]
  IN  /\ h.at = "host_applied"
      /\ Broadcast(updates)
      /\ busy' = [busy EXCEPT ![u] = [h EXCEPT !.at = "host_told"]]
      /\ Stays /\ UNCHANGED <<link, crossed, ops>>

\* The outgoing host, before the incoming one.
HostTold(u) ==
  /\ busy[u].at = "host_told"
  /\ Broadcast(<<[t |-> "permissions_updated", user |-> u, role |-> Cohost,
                   perms |-> sess[u].perms]>>)
  /\ busy' = [busy EXCEPT ![u].at = "role_told"]
  /\ Stays /\ UNCHANGED <<link, crossed, ops>>

------------------------------------------------------------------------------
(* The room itself.  Who changes it lets go of its lock before telling.      *)

Designating == {u \in Users : busy[u].at = "designated"}
Applied == {p \in patches : p.at = "applied"}

\* Another change of the room has still to be announced.
RoomCrosses ==
  crossed' = IF Designating # {} \/ Applied # {} THEN crossed \cup {"room"} ELSE crossed

\* The last of them tells of the room as it is.
RoomSettles(room, alone) ==
  crossed' = IF room = info /\ alone THEN crossed \ {"room"} ELSE crossed

Designate(u, t) ==
  /\ "designate" \in sess[u].perms /\ t # u
  /\ t # None => rows[t].known
  /\ info' = [info EXCEPT !.successor = t] /\ RoomCrosses
  /\ busy' = [busy EXCEPT ![u] = [at |-> "designated", room |-> info']]
  /\ UNCHANGED <<rows, live, conns, sess, saved, patches, log, items, numbered, link>>
  /\ Silent

DesignateAnnounced(u) ==
  LET room == busy[u].room
  IN  /\ busy[u].at = "designated"
      /\ Broadcast(<<[t |-> "room_updated", room |-> room]>>)
      /\ RoomSettles(room, Designating = {u} /\ Applied = {})
      /\ busy' = [busy EXCEPT ![u] = Idle]
      /\ Stays /\ UNCHANGED <<link, ops>>

\* Nobody is disconnected.
Kick(u, t) ==
  /\ "kick" \in sess[u].perms /\ t \in DOMAIN live /\ Outranks(sess[u].role, live[t])
  /\ rows' = [rows EXCEPT ![t].banned = TRUE]
  /\ busy' = [busy EXCEPT ![u] = [at |-> "kicked", target |-> t]]
  /\ UNCHANGED <<live, conns, sess, info, saved, patches, log, items, numbered>> /\ Quietly

KickAnnounced(u) ==
  /\ busy[u].at = "kicked"
  /\ Broadcast(<<[t |-> "participant_left", user |-> busy[u].target]>>)
  /\ busy' = [busy EXCEPT ![u] = Idle]
  /\ Stays /\ UNCHANGED <<link, crossed, ops>>

------------------------------------------------------------------------------
(* Chat, and the queue less what plays.                                     *)

ChatSend(u) ==
  /\ log' = Append(log, [id |-> Len(log) + 1, by |-> u])
  /\ busy' = [busy EXCEPT ![u] = [at |-> "said", message |-> log'[Len(log')]]]
  /\ UNCHANGED <<rows, live, conns, sess, info, saved, patches, items, numbered>> /\ Quietly

ChatAnnounced(u) ==
  /\ busy[u].at = "said"
  /\ Broadcast(<<[t |-> "chat_message", message |-> busy[u].message]>>)
  /\ busy' = [busy EXCEPT ![u] = Idle]
  /\ Stays /\ UNCHANGED <<link, crossed, ops>>

\* What adding, importing, removing, shuffling and clearing make of a queue.
QueueEdits ==
  LET Fresh(taken) == CHOOSE n \in 1 .. Cardinality(taken) + 1 : n \notin taken
      first == Fresh(ToSet(items))
  IN  [add |-> Append(items, first),
       import |-> items \o <<first, Fresh(ToSet(items) \cup {first})>>,
       remove |-> IF items = <<>> THEN items ELSE Tail(items),
       shuffle |-> Reverse(items), clear |-> <<>>]

\* An import also leaves a line in the chat's log.
QueueEdit(u, edit) ==
  /\ "queue" \in sess[u].perms
  /\ items' = QueueEdits[edit]
  /\ log' = IF edit = "import" THEN Append(log, [id |-> Len(log) + 1, by |-> None]) ELSE log
  /\ busy' = [busy EXCEPT ![u] = [at |-> "queue_saved"]]
  /\ UNCHANGED <<rows, live, conns, sess, info, saved, patches, numbered>> /\ Quietly

Reading == {u \in Users : busy[u].at = "queue_read"}

\* broadcast_queue reads the list, then its authors.
QueueRead(u) ==
  /\ busy[u].at = "queue_saved"
  /\ busy' = [busy EXCEPT ![u] = [at |-> "queue_read", list |-> items, before |-> Reading]]
  /\ Stays /\ UNCHANGED ops /\ Quietly

QueueAnnounced(u) ==
  LET h == busy[u]
  IN  /\ h.at = "queue_read"
      /\ Broadcast(<<[t |-> "queue_updated", items |-> h.list, version |-> numbered]>>)
      /\ numbered' = numbered + 1
      /\ crossed' = IF h.before \cap Reading # {} THEN crossed \cup {"queue"}
                    ELSE IF h.list = items /\ Reading = {u} THEN crossed \ {"queue"}
                    ELSE crossed
      /\ busy' = [x \in Users |-> IF x = u THEN Idle
                    ELSE IF x \in Reading THEN [busy[x] EXCEPT !.before = @ \ {u}]
                    ELSE busy[x]]
      /\ UNCHANGED <<rows, live, conns, sess, info, saved, patches, log, items, link, ops>>

------------------------------------------------------------------------------
(* Settings, over REST: the room is read, merged, saved and announced.      *)

PatchStarts(u, patch) ==
  /\ "edit" \in Resolve(rows[u].role, saved.gq)
  /\ patches' = patches \cup {[at |-> "read", base |-> saved, patch |-> patch]}
  /\ UNCHANGED <<rows, live, conns, sess, info, saved, busy, log, items, numbered>> /\ Quietly

\* The name is a column of its own; the settings are one, replaced whole.
Merged(base, patch) ==
  [([base EXCEPT !.name = saved.name]) EXCEPT ![patch.field] = patch.value]

PatchSaved(p) ==
  /\ p.at = "read" /\ saved' = Merged(p.base, p.patch)
  /\ patches' = (patches \ {p}) \cup {[at |-> "saved", row |-> saved']}
  /\ UNCHANGED <<rows, live, conns, sess, info, busy, log, items, numbered, ops>> /\ Quietly

PatchApplied(p) ==
  /\ p.at = "saved" /\ info' = [p.row EXCEPT !.successor = info.successor] /\ RoomCrosses
  /\ patches' = (patches \ {p}) \cup {[at |-> "applied", room |-> info']}
  /\ UNCHANGED <<rows, live, conns, sess, saved, busy, log, items, numbered, link, ops>>
  /\ Silent

PatchAnnounced(p) ==
  /\ p.at = "applied" /\ patches' = patches \ {p}
  /\ Broadcast(<<[t |-> "room_updated", room |-> p.room]>>)
  /\ RoomSettles(p.room, Designating = {} /\ Applied = {p})
  /\ UNCHANGED <<rows, live, conns, sess, info, saved, busy, log, items, numbered, link,
                 ops>>

------------------------------------------------------------------------------
(* Coming and going.                                                        *)

RoleOf(u) == IF rows[u].known THEN rows[u].role ELSE Guest

Arrives(u) ==
  /\ u \notin DOMAIN live /\ busy[u] = Idle /\ ~rows[u].banned
  /\ live' = With(live, u, RoleOf(u))
  /\ rows' = [rows EXCEPT ![u] = [@ EXCEPT !.role = RoleOf(u), !.known = TRUE]]
  /\ sess' = [sess EXCEPT ![u] = [role |-> RoleOf(u), perms |-> Resolve(RoleOf(u), saved.gq)]]
  /\ busy' = [busy EXCEPT ![u] = [at |-> "greeting"]]
  /\ UNCHANGED <<conns, info, saved, patches, log, items, numbered>> /\ Quietly

Greets(u) ==
  /\ u # Me /\ busy[u].at = "greeting"
  /\ Broadcast(<<[t |-> "participant_joined", user |-> u, role |-> live[u]]>>)
  /\ busy' = [busy EXCEPT ![u] = Idle]
  /\ Stays /\ UNCHANGED <<link, crossed, ops>>

\* The host stays: nobody inherits the room here.
Leaves(u) ==
  /\ Ready(u) /\ u # Me /\ rows[u].role # Hosting
  /\ live' = [x \in DOMAIN live \ {u} |-> live[x]]
  /\ Broadcast(<<[t |-> "participant_left", user |-> u]>>)
  /\ UNCHANGED <<rows, conns, sess, info, saved, busy, patches, log, items, numbered,
                 link, crossed>>

\* The client's own connection: its membership is read, and a ban refuses it.
Admitted ==
  /\ link = "down" /\ busy[Me] = Idle /\ conns < 2 /\ ~rows[Me].banned
  /\ link' = "admitted"
  /\ busy' = [busy EXCEPT ![Me] = [at |-> "admitted", role |-> RoleOf(Me),
                                   perms |-> Resolve(RoleOf(Me), saved.gq)]]
  /\ Stays /\ Silent /\ UNCHANGED <<crossed, ops>>

\* A second connection of the same user is not announced, and sets the role.
Attaches ==
  LET h == busy[Me]
  IN  /\ h.at = "admitted" /\ link' = "joining" /\ conns' = conns + 1
      /\ live' = With(live, Me, h.role)
      /\ rows' = [rows EXCEPT ![Me] = [@ EXCEPT !.role = RoleOf(Me), !.known = TRUE]]
      /\ sess' = [sess EXCEPT ![Me] = [role |-> h.role, perms |-> h.perms]]
      /\ busy' = [busy EXCEPT ![Me] = [at |-> "greeting", first |-> Me \notin DOMAIN live]]
      /\ raced' = (h.role # RoleOf(Me))
      /\ UNCHANGED <<info, saved, patches, log, items, numbered, inbox, crossed, ops>>

\* With the last of the chat.
Snapshot ==
  [t |-> "ready", me |-> Me, role |-> sess[Me].role, perms |-> sess[Me].perms,
   room |-> info, people |-> live, queue |-> items, messages |-> LastOf(log, MaxRecent)]

ReadySent ==
  LET h == busy[Me]
      joined == [t |-> "participant_joined", user |-> Me, role |-> live[Me]]
  IN  /\ h.at = "greeting"
      /\ inbox' = IF link = "joining"
                  THEN inbox \o <<Snapshot>> \o (IF h.first THEN <<joined>> ELSE <<>>)
                  ELSE inbox
      /\ busy' = [busy EXCEPT ![Me] = Idle]
      /\ Stays /\ UNCHANGED <<link, raced, crossed, ops>>

\* The server learns that a connection of the client is gone.
Detaches ==
  /\ busy[Me] = Idle /\ conns > (IF Hears THEN 1 ELSE 0)
  /\ conns' = conns - 1
  /\ IF conns' > 0 THEN UNCHANGED live /\ Silent
     ELSE /\ live' = [x \in DOMAIN live \ {Me} |-> live[x]]
          /\ Broadcast(<<[t |-> "participant_left", user |-> Me]>>)
  /\ UNCHANGED <<rows, sess, info, saved, busy, patches, log, items, numbered, link,
                 crossed, ops>>

------------------------------------------------------------------------------
MembersInit ==
  /\ rows = [u \in Users |-> [role |-> IF u = Host THEN Hosting
                                       ELSE IF u = Me THEN Guest ELSE Member,
                              banned |-> FALSE, known |-> u # Me]]
  /\ live = [u \in {Host} \cup Others |-> rows[u].role]
  /\ conns = 0 /\ saved = [name |-> CHOOSE n \in Names : TRUE, gq |-> TRUE,
                            theme |-> CHOOSE t \in Themes : TRUE, successor |-> None]
  /\ info = saved /\ ops = 0
  /\ sess = [u \in Users |-> [role |-> rows[u].role, perms |-> Resolve(rows[u].role, saved.gq)]]
  /\ busy = [u \in Users |-> Idle] /\ patches = {} /\ log = <<[id |-> 1, by |-> Host]>>
  /\ items = <<>> /\ numbered = 1 /\ link = "down" /\ inbox = <<>>
  /\ raced = FALSE /\ crossed = {}

\* What every handler does after it has started.
Handlers ==
  \/ \E u \in Users :
       \/ RoleApplied(u) \/ RoleAnnounced(u) \/ HostApplied(u) \/ HostAnnounced(u)
       \/ HostTold(u) \/ TargetTold(u) \/ DesignateAnnounced(u)
       \/ KickAnnounced(u) \/ ChatAnnounced(u) \/ QueueRead(u) \/ QueueAnnounced(u)
       \/ Greets(u)
  \/ \E p \in patches : PatchSaved(p) \/ PatchApplied(p) \/ PatchAnnounced(p)
  \/ Attaches \/ ReadySent \/ Detaches
=============================================================================
