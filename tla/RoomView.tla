------------------------------- MODULE RoomView -------------------------------
(***************************************************************************)
(* What one client shows of a room, against what the room is: the store, the *)
(* panels beside the player and the theme (components/room/room-shell.tsx,   *)
(* chat.tsx, queue.tsx, participants.tsx, settings.tsx and                   *)
(* components/theme-provider.tsx), composed with the server's side.          *)
(***************************************************************************)
EXTENDS RoomMembers

CONSTANT MaxLooks      \* bound: what the visitor does to the page, and drops

LooksAssumption == MaxLooks \in Nat
ASSUME LooksAssumption

Panels == {"chat", "queue", "people", "settings"}

VARIABLES
  store,      \* RoomStore's
  inRoom,     \* the shell is mounted
  panel,      \* the tab beside the player
  box,        \* the chat's scroll: whether it follows, offers news, and what was read
  form,       \* the settings' fields
  own,        \* the visitor's theme
  override,   \* the room's, over it
  looks

viewVars == <<store, inRoom, panel, box, form, own, override, looks>>
vars == <<rows, live, conns, sess, info, saved, busy, patches, log, items, numbered,
          link, inbox, raced, crossed, ops,
          store, inRoom, panel, box, form, own, override, looks>>

Looked == looks < MaxLooks /\ looks' = looks + 1

------------------------------------------------------------------------------
(* Rendering, with the effects that follow it.                              *)

\* A plausible bug: no cleanup.
RoomThemeStays(room) == IF room = None THEN override ELSE room.theme

\* The room's theme while there is one, and the visitor's own once there is not.
RoomTheme(room) == IF room = None THEN None ELSE room.theme

Theme == IF override = None THEN own ELSE override

\* Looking at the chat marks it read, and an error is shown once.
Settled(s) == ClearError(IF panel = "chat" THEN MarkChatRead(s) ELSE s)

OpenedBox(messages) == [follows |-> TRUE, behind |-> FALSE, read |-> messages]

\* A plausible bug: the effect is keyed on how many messages there are.
FollowedByLength(b, messages) ==
  IF Len(messages) = Len(b.read) THEN b
  ELSE IF b.follows THEN OpenedBox(messages) ELSE [b EXCEPT !.behind = TRUE]

\* The chat after its messages have changed.
Followed(b, messages) ==
  IF b.follows THEN OpenedBox(messages) ELSE [b EXCEPT !.behind = TRUE]

Unseeded == [name |-> None, gq |-> TRUE, typed |-> FALSE]

Seeded(f, room) ==
  IF room = None THEN f ELSE [name |-> room.name, gq |-> room.gq, typed |-> FALSE]

\* A message is applied, and what depends on the fields it sets is rendered.
Rendered(s, news, reseeds) ==
  /\ store' = Settled(s) /\ override' = RoomTheme(s.room)
  /\ box' = IF panel = "chat" /\ news THEN Followed(box, s.messages) ELSE box
  /\ form' = IF panel = "settings" /\ reseeds THEN Seeded(form, s.room) ELSE form

Receives ==
  LET m == Head(inbox)
      s == Understood(store, m)
  IN  /\ inbox # <<>> /\ inbox' = Tail(inbox)
      /\ link' = IF m.t = "ready" THEN "up" ELSE link
      /\ Rendered(s, m.t = "ready" \/ s.messages # store.messages,
                  m.t \in {"ready", "room_updated"})
      /\ UNCHANGED <<rows, live, conns, sess, info, saved, busy, patches, log, items,
                     numbered, raced, crossed, ops, inRoom, panel, own, looks>>

\* A banned visitor is told, and hung up on.
TurnedAway ==
  /\ inRoom /\ link = "down" /\ busy[Me] = Idle /\ rows[Me].banned
  /\ Rendered(ApplyKicked(store, [t |-> "kicked"]), FALSE, FALSE)
  /\ UNCHANGED <<inRoom, panel, own, looks>> /\ UNCHANGED membersVars

------------------------------------------------------------------------------
(* The shell and the tabs.                                                  *)

Hangs(state) ==
  /\ link \in {"joining", "up"} /\ link' = state /\ inbox' = <<>> /\ raced' = FALSE
  /\ UNCHANGED <<rows, live, conns, sess, info, saved, busy, patches, log, items,
                 numbered, crossed, ops>>

\* The connection is lost; the server has still to learn of it.
Drops ==
  /\ Looked /\ Hangs("down")
  /\ UNCHANGED <<store, inRoom, panel, box, form, own, override>>

\* Leaving resets the store, whose theme goes with it.
LeavesRoom ==
  /\ Looked /\ inRoom /\ Hangs("down")
  /\ inRoom' = FALSE /\ panel' = "chat" /\ store' = Initial
  /\ override' = RoomTheme(None) /\ box' = OpenedBox(<<>>) /\ form' = Unseeded
  /\ UNCHANGED own

EntersRoom ==
  /\ Looked /\ ~inRoom /\ inRoom' = TRUE
  /\ UNCHANGED <<store, panel, box, form, own, override>> /\ UNCHANGED membersVars

\* The palette of the pages outside the room, and what it changes.
SetTheme(t) == own' = t

ChoosesTheme ==
  /\ Looked /\ ~inRoom /\ \E t \in Themes \ {own} : SetTheme(t)
  /\ UNCHANGED <<store, inRoom, panel, box, form, override>> /\ UNCHANGED membersVars

\* The tabs there are; one that is open stays when its own goes.
Tabs(s) ==
  {"chat", "queue", "people"}
    \cup (IF s.perms # None /\ "edit" \in s.perms THEN {"settings"} ELSE {})

OpensPanel(p) ==
  /\ Looked /\ inRoom /\ ~store.kicked /\ p \in Tabs(store) \ {panel} /\ panel' = p
  /\ store' = IF p = "chat" THEN MarkChatRead(store) ELSE store
  /\ box' = OpenedBox(IF p = "chat" THEN store.messages ELSE <<>>)
  /\ form' = IF p = "settings" THEN Seeded(Unseeded, store.room) ELSE Unseeded
  /\ UNCHANGED <<inRoom, own, override>> /\ UNCHANGED membersVars

Scrolls ==
  /\ Looked /\ inRoom /\ panel = "chat" /\ store.messages # <<>>
  /\ box' = IF box.follows THEN [box EXCEPT !.follows = FALSE] ELSE OpenedBox(store.messages)
  /\ UNCHANGED <<store, inRoom, panel, form, own, override>> /\ UNCHANGED membersVars

------------------------------------------------------------------------------
(* The panels' controls.                                                    *)

Allows(s, what) == s.perms # None /\ what \in s.perms

\* What each part of the queue's panel offers.
AddSourceDialog(s) == IF Allows(s, "queue") THEN {"add"} ELSE {}
ImportPlaylistDialog(s) == IF Allows(s, "queue") THEN {"import"} ELSE {}
QueueRow(s) == IF Allows(s, "queue") /\ s.queue # <<>> THEN {"remove"} ELSE {}

QueueControls(s) ==
  AddSourceDialog(s) \cup ImportPlaylistDialog(s) \cup QueueRow(s)
    \cup {e \in {"shuffle", "clear"} :
            Allows(s, "queue") /\ Len(s.queue) >= (IF e = "shuffle" THEN 2 ELSE 1)}

\* Nobody acts on the host, nor on oneself.
PersonMenu(s, u) ==
  IF u = s.me \/ s.people[u] = Hosting THEN {}
  ELSE {what \in {"roles", "designate", "transfer", "kick"} : Allows(s, what)}

\* A control that is there is used while the session is free.
Clicks(p) == Ready(Me) /\ panel = p /\ ~store.kicked /\ Counted
Unread == UNCHANGED viewVars

UsesMenu(u) ==
  LET menu == PersonMenu(store, u)
      role == IF store.people[u] = Cohost THEN Member ELSE Cohost
      heir == IF store.room.successor = u THEN None ELSE u
  IN  /\ Clicks("people") /\ Unread
      /\ \/ "roles" \in menu /\ (SetRole(Me, u, role) \/ (~MaySetRole(Me, u) /\ Refused(Me)))
         \/ "designate" \in menu
            /\ (Designate(Me, heir) \/ ("designate" \notin sess[Me].perms /\ Refused(Me)))
         \/ "transfer" \in menu
            /\ (TransferHost(Me, u) \/ ("transfer" \notin sess[Me].perms /\ Refused(Me)))
         \/ "kick" \in menu
            /\ (Kick(Me, u) \/ ("kick" \notin sess[Me].perms /\ Refused(Me)))

UsesQueue ==
  /\ Clicks("queue") /\ Unread
  /\ \E e \in QueueControls(store) :
       QueueEdit(Me, e) \/ ("queue" \notin sess[Me].perms /\ Refused(Me))

\* Saying something makes the chat follow again, where it stands.
Says ==
  /\ Clicks("chat") /\ ChatSend(Me) /\ box' = [box EXCEPT !.follows = TRUE]
  /\ UNCHANGED <<store, inRoom, panel, form, own, override, looks>>

------------------------------------------------------------------------------
(* The settings' form.                                                      *)

Editing == inRoom /\ panel = "settings" /\ Allows(store, "edit") /\ store.room # None

TypesName ==
  /\ Editing /\ Looked /\ \E n \in Names \ {form.name} : form' = [form EXCEPT !.name = n, !.typed = TRUE]
  /\ UNCHANGED <<store, inRoom, panel, box, own, override>> /\ UNCHANGED membersVars

\* The request, which the server may refuse.
Saves(patch) ==
  /\ Counted
  /\ \/ PatchStarts(Me, patch)
     \/ /\ "edit" \notin Resolve(rows[Me].role, saved.gq)
        /\ UNCHANGED <<rows, live, conns, sess, info, saved, busy, patches, log, items,
                       numbered, link, inbox, raced, crossed>>

SavesDetails ==
  /\ Editing /\ Saves([field |-> "name", value |-> form.name]) /\ Unread

\* A switch moves at once.
Toggles ==
  /\ Editing /\ form' = [form EXCEPT !.gq = ~@, !.typed = TRUE]
  /\ Saves([field |-> "gq", value |-> ~form.gq])
  /\ UNCHANGED <<store, inRoom, panel, box, own, override, looks>>

PicksRoomTheme ==
  /\ Editing /\ Unread
  /\ \E t \in Themes : Saves([field |-> "theme", value |-> t])

------------------------------------------------------------------------------
(* Everybody else, whose clients are not modelled: what is refused changes
   nothing, and an empty queue is only added to.                            *)

SomebodyActs(u) ==
  /\ Ready(u) /\ Counted /\ Unread
  /\ \/ \E t \in Users : SetRole(u, t, Member) \/ SetRole(u, t, Cohost)
     \/ \E t \in Users : TransferHost(u, t) \/ Kick(u, t)
     \/ \E t \in Users \cup {None} : Designate(u, t)
     \/ \E e \in DOMAIN QueueEdits : (items = <<>> => e \in {"add", "import"}) /\ QueueEdit(u, e)
     \/ ChatSend(u)

SomebodySaves(u) ==
  /\ Counted /\ Unread
  /\ \/ \E b \in BOOLEAN : PatchStarts(u, [field |-> "gq", value |-> b])
     \/ \E t \in Themes : PatchStarts(u, [field |-> "theme", value |-> t])
     \/ \E n \in Names : PatchStarts(u, [field |-> "name", value |-> n])

ComesOrGoes(u) == Counted /\ Unread /\ (Arrives(u) \/ Leaves(u))

------------------------------------------------------------------------------
Init ==
  /\ MembersInit
  /\ store = Initial /\ inRoom = TRUE /\ panel = "chat" /\ box = OpenedBox(<<>>)
  /\ form = Unseeded /\ own = (CHOOSE t \in Themes : TRUE) /\ override = None /\ looks = 0

Visitor ==
  \/ LeavesRoom \/ EntersRoom \/ ChoosesTheme \/ Scrolls
  \/ \E p \in Panels : OpensPanel(p)
  \/ \E u \in DOMAIN store.people : UsesMenu(u)
  \/ UsesQueue \/ Says \/ TypesName \/ SavesDetails \/ Toggles \/ PicksRoomTheme

Room ==
  \/ (Handlers \/ (inRoom /\ Admitted)) /\ Unread
  \/ \E u \in Users \ {Me} : SomebodyActs(u) \/ SomebodySaves(u) \/ ComesOrGoes(u)

Next == Visitor \/ Room \/ Receives \/ TurnedAway \/ Drops

Spec == Init /\ [][Next]_vars

------------------------------------------------------------------------------
(* Properties.                                                              *)

\* Every variable stays in its range, the list of messages within its length,
\* and somebody's handler under way only while they are in the room; no message
\* sent to the client is one its schemas (server-messages.ts) make it drop.
ViewTypeOK ==
  /\ DOMAIN live \subseteq Users /\ conns \in 0 .. 2 /\ ops \in 0 .. MaxOps
  /\ link \in {"down", "admitted", "joining", "up"} /\ raced \in BOOLEAN /\ crossed \subseteq {"queue", "roles", "room"}
  /\ panel \in Panels /\ inRoom \in BOOLEAN /\ looks \in 0 .. MaxLooks
  /\ Len(store.messages) <= MaxMessages /\ store.queueVersion < numbered
  /\ store.role \in Guest .. Hosting /\ Theme \in Themes
  /\ \A u \in Users \ {Me} : busy[u] # Idle => u \in DOMAIN live
  /\ \A i \in DOMAIN inbox : ServerMessage(inbox[i])

\* Nothing is under way that the client has not been told of, and nothing was
\* announced while it was joining.
Quiet ==
  /\ link = "up" /\ inbox = <<>> /\ patches = {} /\ ~raced
  /\ conns = 1 /\ \A u \in Users : busy[u] = Idle

\* However roles are given, the room handed over, people removed, gone and come
\* back, and the client disconnected: whom it shows is here, less those who were
\* removed and go on listening, and as what, unless two changes of roles crossed.
RosterConverges ==
  Quiet => /\ \A u \in DOMAIN store.people :
                u \in DOMAIN live /\ ("roles" \notin crossed => store.people[u] = live[u])
           /\ \A u \in DOMAIN live : rows[u].banned \/ u \in DOMAIN store.people

\* The role the client believes to be its own is the one it has in the room,
\* unless two changes of roles crossed.
AuthorityIsMine == Quiet /\ "roles" \notin crossed => store.role = live[Me]

\* Each thing said is shown once, whichever of the snapshot and the announcement
\* told of it first; only the room's own lines wait for the next snapshot.
ChatOnce ==
  /\ \A i, j \in DOMAIN store.messages : store.messages[i].id = store.messages[j].id => i = j
  /\ Quiet => {m \in ToSet(LastOf(log, MaxRecent)) : m.by # None} \subseteq ToSet(store.messages)

\* News that is not in view is offered.
NewsIsOffered ==
  inRoom /\ panel = "chat" /\ ~box.behind => box.read = store.messages

\* The queue shown is the queue, unless its last lists crossed.
QueueSettles == Quiet /\ "queue" \notin crossed => store.queue = items

\* However settings are saved and heirs named, the room's name, settings and look,
\* and the fields of a form nobody has typed in, are the room's, unless the last of
\* two changes announced was not the last made; outside, one's own theme is back.
RoomIsShown ==
  /\ ~inRoom => Theme = own
  /\ Quiet /\ "room" \notin crossed =>
              /\ store.room = info /\ Theme = info.theme
              /\ panel = "settings" /\ ~form.typed =>
                   form.name = info.name /\ form.gq = info.gq

\* What the client is told it may do, its session may do (session.rs:1122-1126).
PermissionsHonoured == Quiet => store.perms = sess[Me].perms
=============================================================================
