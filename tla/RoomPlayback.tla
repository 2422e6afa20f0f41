---------------------------- MODULE RoomPlayback ----------------------------
(***************************************************************************)
(* One room on the node that owns it: the timeline under the room's lock,  *)
(* the handlers that change it, the auto-advance sweep, and the sockets    *)
(* the result is broadcast to.                                             *)
(*                                                                         *)
(*   apps/server/src/realtime/session.rs      handlers, advance, publish   *)
(*   apps/server/src/realtime/autoadvance.rs  the sweep                    *)
(*   apps/server/src/realtime/{room,ws}.rs    votes, presence, the writer  *)
(*   apps/server/src/db/queue.rs              the queue statements         *)
(*   apps/web/src/stores/room-store.ts        what a client keeps          *)
(*                                                                         *)
(* A handler is asynchronous: between two awaits anything else may run.    *)
(* So each actor (one session per client, and the sweep) has a job, whose  *)
(* "at" names the statement it will run next; an action is what happens    *)
(* between two awaits: one critical section, one database statement, one   *)
(* Redis command or one send.                                              *)
(*                                                                         *)
(* Ownership is settled here (this node holds the lease throughout), and   *)
(* queue_updated, skip_vote_update, chat and presence messages carry       *)
(* nothing the timeline depends on and are left out.                       *)
(***************************************************************************)
EXTENDS Timeline, SequencesExt

CONSTANTS Clients,       \* people with a socket to this room
          Sweeper,       \* the auto-advance task
          Controllers,   \* clients with can_control_playback
          Managers,      \* clients with can_manage_queue
          Reconnecting,  \* clients that may leave and come back
          Commands,      \* what clients may send: [do, item, value]
          Backlogs,      \* queues the room may have been left with
          ItemLength,    \* duration_seconds of each queue row, 0 unknown
          LiveItems,     \* items whose kind may_be_live
          StartTimeout,  \* START_TIMEOUT_MS
          RatioNum, RatioDen,  \* vote_skip_ratio
          SendBuffer,    \* capacity of a broadcast receiver
          MaxFaults,     \* bound: statements and mirror writes that fail
          MaxSends,      \* bound: commands and setting changes between them
          MaxTime,       \* bound: the clock stops here
          SweepLag       \* bound: how stale the sweep's clock reading gets

CommandNames ==
  {"play", "pause", "seek", "rate", "loop", "restart",  \* relative intents
   "next", "previous", "playNow",                       \* changes_source
   "length", "ready", "vote", "unvote",
   "add", "addNext", "remove", "clear", "reorder"}

ASSUME RoomAssumption ==
         /\ Sweeper \notin Clients
         /\ Controllers \subseteq Clients /\ Managers \subseteq Clients
         /\ Reconnecting \subseteq Clients
         /\ Commands \subseteq [do : CommandNames, item : Items, value : Nat]
         /\ Backlogs \subseteq Seq(Items)
         /\ ItemLength \in [Items -> Nat]
         /\ StartTimeout \in Nat /\ RatioNum \in Nat /\ RatioDen \in Nat \ {0}
         /\ SendBuffer \in Nat \ {0}
         /\ MaxFaults \in Nat /\ MaxSends \in Nat /\ MaxTime \in Nat
         /\ SweepLag \in Nat

VARIABLES
  now,          \* the server's clock
  tl,           \* RoomRuntime.timeline
  connections,  \* RoomRuntime.participants: connections each is counted with
  votes,        \* RoomRuntime.skip_votes
  pending,      \* queue rows with played_at NULL, by position
  history,      \* queue rows with played_at set, latest first
  unused,       \* item ids no row has had yet
  mirror,       \* the timeline in Redis
  autoAdvance,  \* RoomSettings.auto_advance
  job,          \* the handler each actor is in the middle of
  link,         \* each client's socket: "up", "lagged", "deaf" or "down"
  inbox,        \* broadcasts the client's receiver holds
  welcome,      \* direct replies (ready) waiting for the writer
  outbox,       \* the command a client has in flight, with what it then saw
  view,         \* the timeline in the client's room store
  sent,         \* commands and setting changes so far
  faults        \* failures so far

clientVars == <<link, inbox, welcome, outbox, view, sent>>
queueVars  == <<pending, history, unused>>
vars == <<now, tl, connections, votes, queueVars, mirror, autoAdvance, job, clientVars, faults>>

Actors == Clients \cup {Sweeper}

------------------------------------------------------------------------------
(* Jobs.                                                                    *)

Places ==
  {"idle",
   "pop", "find", "mark", "recall", "measure", "requeue", "load",  \* advance
   "read", "persist", "send",                           \* publish_timeline
   "startIfIdle", "append", "insert", "reorder",        \* queue handlers
   "overdue", "ended", "restart", "pause",              \* the sweep
   "snapshot", "reply"}                                 \* joining

\* item: the row the job is about; edge: the pending row a position was
\* computed next to; copy: the clone publish or ready sends;
\* clock: the sweep's reading of the time; rows: those a queue transaction
\* holds FOR UPDATE; about: what was loaded when votes or the sweep decided to
\* move on (NoItem for a request), recorded for the properties only.
NoJob == [at |-> "idle", item |-> NoItem, edge |-> NoItem, copy |-> Idle(0),
          clock |-> 0, rows |-> {}, about |-> NoItem]

JobAt(a, place) == job[a].at = place
Become(a, j)    == job' = [job EXCEPT ![a] = j]
Goto(a, place)  == Become(a, [job[a] EXCEPT !.at = place])
Begin(a, place) == Become(a, [NoJob EXCEPT !.at = place])
Finish(a)       == Become(a, NoJob)

Locked == UNION {job[a].rows : a \in Actors}

------------------------------------------------------------------------------
(* Rows and votes.                                                          *)

Rows(s) == {s[k] : k \in 1..Len(s)}
Drop(s, item) ==
  IF item \in Rows(s)
  THEN RemoveAt(s, CHOOSE k \in 1..Len(s) : s[k] = item)
  ELSE s

\* Everybody the room counts a connection of.
present == {c \in Clients : connections[c] > 0}

\* A position next to the row "edge", computed before s was what it is now: a
\* row that came, went or moved meanwhile may lie on either side of it.
Ahead(edge, s)  == {k \in 0..Len(s) : \A n \in 1..Len(s) : s[n] = edge => k < n}
Behind(edge, s) == {k \in 0..Len(s) : \A n \in 1..Len(s) : s[n] = edge => k >= n}

\* votes_needed: at least one, even of an empty room.
VotesNeeded ==
  LET people == IF present = {} THEN 1 ELSE Cardinality(present)
      share  == (people * RatioNum + RatioDen - 1) \div RatioDen
  IN  IF share < 1 THEN 1 ELSE share

ShouldSkip(ballots) == Cardinality(ballots) >= VotesNeeded

------------------------------------------------------------------------------
\* A room whose first queued video is cued, and one that stands idle over
\* the queue it was left with.
CuedOver(q) ==
  /\ q # <<>>
  /\ tl = Load(Idle(0), 0, Head(q), ItemLength[Head(q)])
  /\ pending = Tail(q)
  /\ history = <<Head(q)>>

IdleOver(q) ==
  /\ tl = Idle(0)
  /\ pending = q
  /\ history = <<>>

Init ==
  /\ now = 0
  /\ \E q \in Backlogs :
       /\ CuedOver(q) \/ IdleOver(q)
       /\ unused = Items \ Rows(q)
  /\ connections = [c \in Clients |-> 1]
  /\ votes = {}
  /\ mirror = Wire(tl)
  /\ autoAdvance \in BOOLEAN
  /\ job = [a \in Actors |-> NoJob]
  /\ link = [c \in Clients |-> "up"]
  /\ inbox = [c \in Clients |-> <<>>]
  /\ welcome = [c \in Clients |-> <<>>]
  /\ outbox = [c \in Clients |-> <<>>]
  /\ view = [c \in Clients |-> Wire(tl)]
  /\ sent = 0
  /\ faults = 0

Tick ==
  /\ now < MaxTime
  /\ JobAt(Sweeper, "idle") \/ now - job[Sweeper].clock < SweepLag
  /\ now' = now + 1
  /\ UNCHANGED <<tl, connections, votes, queueVars, mirror, autoAdvance, job, clientVars, faults>>

\* update_room flips the setting under a sweep's feet.
ToggleAutoAdvance ==
  /\ sent < MaxSends
  /\ sent' = sent + 1
  /\ autoAdvance' = ~autoAdvance
  /\ UNCHANGED <<now, tl, connections, votes, queueVars, mirror, job,
                 link, inbox, welcome, outbox, view, faults>>

------------------------------------------------------------------------------
(* The client.                                                              *)

\* Everything a client sends is computed from the timeline it holds; an
\* intent and a ready report carry that timeline's version.
Send(c) ==
  /\ link[c] \in {"up", "lagged"} /\ outbox[c] = <<>>
  /\ sent < MaxSends
  /\ sent' = sent + 1
  /\ \E command \in Commands :
        outbox' = [outbox EXCEPT ![c] = <<[command |-> command, seen |-> view[c]]>>]
  /\ UNCHANGED <<now, tl, connections, votes, queueVars, mirror, autoAdvance, job,
                 link, inbox, welcome, view, faults>>

\* A guard the wrong way round would keep the oldest timeline.
AcceptsOlder(held, new) == new.version < held.version
\* A timeline message is applied only when it is strictly newer.
Accepts(held, new) == new.version > held.version

\* The writer task takes the next broadcast, the client applies it.
Deliver(c) ==
  /\ link[c] \in {"up", "deaf"} /\ inbox[c] # <<>>
  /\ inbox' = [inbox EXCEPT ![c] = Tail(@)]
  /\ view' = IF Accepts(view[c], Head(inbox[c]))
             THEN [view EXCEPT ![c] = Head(inbox[c])]
             ELSE view
  /\ UNCHANGED <<now, tl, connections, votes, queueVars, mirror, autoAdvance, job,
                 link, welcome, outbox, sent, faults>>

\* The same task takes the ready reply: select! prefers neither queue.  The
\* store replaces its timeline without looking at the version.
DeliverReady(c) ==
  /\ link[c] # "down" /\ welcome[c] # <<>>
  /\ view' = [view EXCEPT ![c] = Head(welcome[c])]
  /\ welcome' = [welcome EXCEPT ![c] = <<>>]
  /\ UNCHANGED <<now, tl, connections, votes, queueVars, mirror, autoAdvance, job,
                 link, inbox, outbox, sent, faults>>

------------------------------------------------------------------------------
(* The session: connecting, leaving, and taking the next message.           *)

\* ws.rs subscribes, attaches the participant, and only then takes the
\* snapshot its ready reply carries.
Connect(c) ==
  /\ link[c] = "down"
  /\ link' = [link EXCEPT ![c] = "up"]
  /\ connections' = [connections EXCEPT ![c] = @ + 1]
  /\ Begin(c, "snapshot")
  /\ UNCHANGED <<now, tl, votes, queueVars, mirror, autoAdvance,
                 inbox, welcome, outbox, view, sent, faults>>

Snapshot(c) ==
  /\ JobAt(c, "snapshot")
  /\ Become(c, [job[c] EXCEPT !.at = "reply", !.copy = tl])
  /\ UNCHANGED <<now, tl, connections, votes, queueVars, mirror, autoAdvance, clientVars, faults>>

Reply(c) ==
  /\ JobAt(c, "reply")
  /\ welcome' = [welcome EXCEPT ![c] = <<Wire(job[c].copy)>>]
  /\ Finish(c)
  /\ UNCHANGED <<now, tl, connections, votes, queueVars, mirror, autoAdvance,
                 link, inbox, outbox, view, sent, faults>>

\* The membership or the snapshot cannot be read: the session ends without the
\* detach its attach calls for, and nobody stops its writer, which goes on
\* passing broadcasts to a socket nobody reads.
SnapshotFails(c) ==
  /\ faults < MaxFaults
  /\ JobAt(c, "snapshot")
  /\ faults' = faults + 1
  /\ link' = [link EXCEPT ![c] = IF @ = "up" THEN "deaf" ELSE "down"]
  /\ outbox' = [outbox EXCEPT ![c] = <<>>]
  /\ Finish(c)
  /\ UNCHANGED <<now, tl, connections, votes, queueVars, mirror, autoAdvance,
                 inbox, welcome, view, sent>>

\* The client gives up a socket that never said it was ready.
GiveUp(c) ==
  /\ link[c] = "deaf"
  /\ link' = [link EXCEPT ![c] = "down"]
  /\ inbox' = [inbox EXCEPT ![c] = <<>>]
  /\ UNCHANGED <<now, tl, connections, votes, queueVars, mirror, autoAdvance, job,
                 welcome, outbox, view, sent, faults>>

\* detach that leaves the ballot behind.
BallotsStay(c) == votes
\* detach: presence-derived state does not outlive the participant, who is
\* gone with the last connection counted.
BallotsWithout(c) == IF connections[c] > 1 THEN votes ELSE votes \ {c}

\* The read loop ends between two messages, never inside a handler.
Leave(c) ==
  /\ link[c] = "lagged" \/ (link[c] = "up" /\ c \in Reconnecting)
  /\ JobAt(c, "idle")
  /\ connections' = [connections EXCEPT ![c] = IF @ = 0 THEN 0 ELSE @ - 1]
  /\ votes' = BallotsWithout(c)
  /\ link' = [link EXCEPT ![c] = "down"]
  /\ inbox' = [inbox EXCEPT ![c] = <<>>]
  /\ welcome' = [welcome EXCEPT ![c] = <<>>]
  /\ outbox' = [outbox EXCEPT ![c] = <<>>]
  /\ UNCHANGED <<now, tl, queueVars, mirror, autoAdvance, job, view, sent, faults>>

\* The next message of an idle session goes to its handler.
Takes(c, names) ==
  /\ JobAt(c, "idle")
  /\ outbox[c] # <<>>
  /\ Head(outbox[c]).command.do \in names
  /\ outbox' = [outbox EXCEPT ![c] = <<>>]

Asked(c) == Head(outbox[c]).command
Saw(c)   == Head(outbox[c]).seen

Relative == {"play", "pause", "seek", "rate", "loop", "restart"}
Jumps    == {"next", "previous", "playNow"}
Edits    == {"add", "addNext", "remove", "clear", "reorder"}

\* A guard that lets an overtaken intent through.
FreshEnoughAlways(c) == Saw(c).version <= tl.version
\* An intent computed against a timeline already moved past is rejected.
FreshEnough(c) == Saw(c).version >= tl.version

\* A ready report counts only for the very timeline it was made on.
ReadyFor(c) == Saw(c).version = tl.version /\ CanStart(tl)

\* Error replies and early returns.
Refuse(c) ==
  /\ Takes(c, CommandNames)
  /\ LET do == Asked(c).do IN
       \/ do \in Relative \cup Jumps \cup {"length"} /\ c \notin Controllers
       \/ do \in Edits /\ c \notin Managers
       \/ do \in Relative /\ ~FreshEnough(c)
       \/ do = "rate" /\ Asked(c).value \notin Rates
       \/ do = "length" /\ ~AcceptsDuration(tl, Asked(c).value)
       \/ do = "ready" /\ ~ReadyFor(c)
       \/ do \in {"vote", "unvote"} /\ ~IsLoaded(tl)
  /\ UNCHANGED <<now, tl, connections, votes, queueVars, mirror, autoAdvance, job,
                 link, inbox, welcome, view, sent, faults>>

\* The rate limiter turns the message away.
Throttled(c) ==
  /\ Takes(c, Relative \cup Jumps \cup {"add", "addNext"})
  /\ UNCHANGED <<now, tl, connections, votes, queueVars, mirror, autoAdvance, job,
                 link, inbox, welcome, view, sent, faults>>

------------------------------------------------------------------------------
(* Handlers that change the timeline where it stands.                       *)

\* handle_sync_intent, under one hold of the room's lock.
SyncIntent(c) ==
  /\ Takes(c, Relative)
  /\ c \in Controllers
  /\ FreshEnough(c)
  /\ LET do == Asked(c).do
         value == Asked(c).value
     IN  \/ do = "play"    /\ tl' = Play(tl, now)
         \/ do = "pause"   /\ tl' = Pause(tl, now)
         \/ do = "seek"    /\ tl' = Seek(tl, now, value)
         \/ do = "rate"    /\ value \in Rates /\ tl' = SetRate(tl, now, value)
         \/ do = "loop"    /\ tl' = SetLoop(tl, value = 1)
         \/ do = "restart" /\ tl' = Restart(tl, now)
  /\ Begin(c, "read")
  /\ UNCHANGED <<now, connections, votes, queueVars, mirror, autoAdvance,
                 link, inbox, welcome, view, sent, faults>>

ReportDuration(c) ==
  /\ Takes(c, {"length"})
  /\ c \in Controllers
  /\ AcceptsDuration(tl, Asked(c).value)
  /\ tl' = SetDuration(tl, Asked(c).value)
  /\ Begin(c, "read")
  /\ UNCHANGED <<now, connections, votes, queueVars, mirror, autoAdvance,
                 link, inbox, welcome, view, sent, faults>>

\* Anyone may release the hold.
PlaybackReady(c) ==
  /\ Takes(c, {"ready"})
  /\ ReadyFor(c)
  /\ tl' = StartPlayback(tl, now)
  /\ Begin(c, "read")
  /\ UNCHANGED <<now, connections, votes, queueVars, mirror, autoAdvance,
                 link, inbox, welcome, view, sent, faults>>

\* The threshold is looked at only here, never when someone leaves.
SkipVote(c) ==
  /\ Takes(c, {"vote", "unvote"})
  /\ IsLoaded(tl)
  /\ votes' = IF Asked(c).do = "vote" THEN votes \cup {c} ELSE votes \ {c}
  /\ IF ShouldSkip(votes')
     THEN Become(c, [NoJob EXCEPT !.at = "pop", !.about = tl.item])
     ELSE UNCHANGED job
  /\ UNCHANGED <<now, tl, connections, queueVars, mirror, autoAdvance,
                 link, inbox, welcome, view, sent, faults>>

------------------------------------------------------------------------------
(* Handlers that move to another video: advance.                            *)

\* "next" needs no lookup, "playNow" names its row, "previous" asks history.
ChangeSource(c) ==
  /\ Takes(c, Jumps)
  /\ c \in Controllers
  /\ LET do == Asked(c).do IN
       \/ do = "next"     /\ Begin(c, "pop")
       \/ do = "previous" /\ Begin(c, "recall")
       \/ do = "playNow"  /\ Become(c, [NoJob EXCEPT !.at = "find", !.item = Asked(c).item])
  /\ UNCHANGED <<now, tl, connections, votes, queueVars, mirror, autoAdvance,
                 link, inbox, welcome, view, sent, faults>>

\* A statement of advance leaves everything but the queue and its job alone.
Statement == UNCHANGED <<now, tl, connections, votes, mirror, autoAdvance, clientVars, faults>>

LoadNext(a, item) == Become(a, [job[a] EXCEPT !.at = "load", !.item = item])

\* pop_next: the first row nobody has locked, SKIP LOCKED, marked played.
Free == {k \in 1..Len(pending) : pending[k] \notin Locked}
Pop(a) ==
  /\ JobAt(a, "pop")
  /\ \/ /\ Free = {}
        /\ LoadNext(a, NoItem)
        /\ UNCHANGED queueVars
     \/ \E k \in Free :
          /\ \A j \in Free : k <= j
          /\ LoadNext(a, pending[k])
          /\ pending' = RemoveAt(pending, k)
          /\ history' = <<pending[k]>> \o history
          /\ UNCHANGED unused
  /\ Statement

Find(a) ==
  /\ JobAt(a, "find")
  /\ IF job[a].item \in Rows(pending) \cup Rows(history)
     THEN Goto(a, "mark")
     ELSE LoadNext(a, NoItem)
  /\ UNCHANGED queueVars
  /\ Statement

\* mark_played touches a row only if it has not been played.
MarkPlayed(a) ==
  /\ JobAt(a, "mark")
  /\ job[a].item \notin Locked
  /\ IF job[a].item \in Rows(pending)
     THEN /\ pending' = Drop(pending, job[a].item)
          /\ history' = <<job[a].item>> \o history
     ELSE UNCHANGED <<pending, history>>
  /\ UNCHANGED unused
  /\ Goto(a, "load")
  /\ Statement

\* recent_history: [0] is taken for what is playing, [1] for the one before.
Recall(a) ==
  /\ JobAt(a, "recall")
  /\ IF Len(history) >= 2
     THEN Become(a, [job[a] EXCEPT !.at = "measure", !.item = history[2]])
     ELSE LoadNext(a, NoItem)
  /\ UNCHANGED queueVars
  /\ Statement

\* requeue_front: one statement reads the least position there is...
MeasureHead(a) ==
  /\ JobAt(a, "measure")
  /\ Become(a, [job[a] EXCEPT !.at = "requeue",
                               !.edge = IF pending = <<>> THEN NoItem ELSE Head(pending)])
  /\ UNCHANGED queueVars
  /\ Statement

\* ...and another puts the row before it.  A deleted row stays deleted.
Requeue(a) ==
  /\ JobAt(a, "requeue")
  /\ job[a].item \notin Locked
  /\ IF job[a].item \in Rows(pending) \cup Rows(history)
     THEN LET rest == Drop(pending, job[a].item)
          IN  /\ \E k \in Ahead(job[a].edge, rest) :
                   pending' = InsertAt(rest, k + 1, job[a].item)
              /\ history' = Drop(history, job[a].item)
     ELSE UNCHANGED <<pending, history>>
  /\ UNCHANGED unused
  /\ Become(a, [job[a] EXCEPT !.at = "pop", !.item = NoItem, !.edge = NoItem])
  /\ Statement

\* A new video invalidates votes cast against the previous one.
BallotsAfterLoad == {}

\* The timeline half of advance: load what was found, or go idle.
LoadOrClear(a) ==
  /\ JobAt(a, "load")
  /\ tl' = IF job[a].item = NoItem
           THEN Clear(tl, now)
           ELSE Load(tl, now, job[a].item, ItemLength[job[a].item])
  /\ votes' = BallotsAfterLoad
  /\ Begin(a, "read")
  /\ UNCHANGED <<now, connections, queueVars, mirror, autoAdvance, clientVars, faults>>

------------------------------------------------------------------------------
(* publish_timeline, and broadcast_current, its copy in the sweep.          *)

ReadTimeline(a) ==
  /\ JobAt(a, "read")
  /\ Become(a, [job[a] EXCEPT !.at = "persist", !.copy = tl])
  /\ UNCHANGED <<now, tl, connections, votes, queueVars, mirror, autoAdvance, clientVars, faults>>

Persist(a) ==
  /\ JobAt(a, "persist")
  /\ mirror' = Wire(job[a].copy)
  /\ Goto(a, "send")
  /\ UNCHANGED <<now, tl, connections, votes, queueVars, autoAdvance, clientVars, faults>>

\* A receiver that is full has lost its place: its writer stops at the next
\* broadcast it asks for, and the connection closes.
Broadcast(a) ==
  /\ JobAt(a, "send")
  /\ LET heard == {c \in Clients : link[c] \in {"up", "deaf"}}
         full  == {c \in heard : Len(inbox[c]) >= SendBuffer} IN
       /\ inbox' = [c \in Clients |->
                      IF c \in full \/ c \notin heard THEN <<>>
                      ELSE Append(inbox[c], Wire(job[a].copy))]
       /\ link' = [c \in Clients |-> IF c \notin full THEN link[c]
                                     ELSE IF link[c] = "up" THEN "lagged" ELSE "down"]
  /\ Finish(a)
  /\ UNCHANGED <<now, tl, connections, votes, queueVars, mirror, autoAdvance,
                 welcome, outbox, view, sent, faults>>

------------------------------------------------------------------------------
(* Queue handlers.  Each ends in broadcast_queue.                           *)

\* add reads the greatest position there is, locking nothing...
QueueAdd(c) ==
  /\ Takes(c, {"add"})
  /\ c \in Managers
  /\ \E item \in unused :
       /\ Become(c, [NoJob EXCEPT !.at = "append", !.item = item,
                                  !.edge = IF pending = <<>> THEN NoItem ELSE Last(pending)])
       /\ unused' = unused \ {item}
  /\ UNCHANGED <<now, tl, connections, votes, pending, history, mirror, autoAdvance,
                 link, inbox, welcome, view, sent, faults>>

\* ...and inserts the row after it.
AppendRow(a) ==
  /\ JobAt(a, "append")
  /\ \E k \in Behind(job[a].edge, pending) : pending' = InsertAt(pending, k + 1, job[a].item)
  /\ Begin(a, "startIfIdle")
  /\ UNCHANGED <<history, unused>>
  /\ Statement

\* play_next: the first two rows are locked, then the new one goes between.
LockHead(c) ==
  /\ Takes(c, {"addNext"})
  /\ c \in Managers
  /\ LET head == {pending[k] : k \in {n \in 1..Len(pending) : n <= 2}} IN
       /\ head \cap Locked = {}
       /\ \E item \in unused :
            /\ Become(c, [NoJob EXCEPT !.at = "insert", !.item = item, !.rows = head])
            /\ unused' = unused \ {item}
  /\ UNCHANGED <<now, tl, connections, votes, pending, history, mirror, autoAdvance,
                 link, inbox, welcome, view, sent, faults>>

InsertNext(a) ==
  /\ JobAt(a, "insert")
  /\ LET held == {k \in 1..Len(pending) : pending[k] \in job[a].rows}
     IN  \/ held = {} /\ pending' = Append(pending, job[a].item)
         \/ \E k \in held :
              /\ \A j \in held : k <= j
              /\ pending' = InsertAt(pending, k + 1, job[a].item)
  /\ Begin(a, "startIfIdle")
  /\ UNCHANGED <<history, unused>>
  /\ Statement

\* An idle room starts playing the moment something is queued.
IdleNow == ~IsLoaded(tl)

StartIfIdle(a) ==
  /\ JobAt(a, "startIfIdle")
  /\ IF IdleNow THEN Goto(a, "pop") ELSE Finish(a)
  /\ UNCHANGED queueVars
  /\ Statement

\* A DELETE waits for the rows it wants.
RemoveRow(c) ==
  /\ Takes(c, {"remove"})
  /\ c \in Managers
  /\ Asked(c).item \notin Locked
  /\ pending' = Drop(pending, Asked(c).item)
  /\ history' = Drop(history, Asked(c).item)
  /\ UNCHANGED <<now, tl, connections, votes, unused, mirror, autoAdvance, job,
                 link, inbox, welcome, view, sent, faults>>

ClearPending(c) ==
  /\ Takes(c, {"clear"})
  /\ c \in Managers
  /\ Rows(pending) \cap Locked = {}
  /\ pending' = <<>>
  /\ UNCHANGED <<now, tl, connections, votes, history, unused, mirror, autoAdvance, job,
                 link, inbox, welcome, view, sent, faults>>

\* move_item and shuffle lock every pending row, then write new positions.
LockQueue(c) ==
  /\ Takes(c, {"reorder"})
  /\ c \in Managers
  /\ Rows(pending) \cap Locked = {}
  /\ Become(c, [NoJob EXCEPT !.at = "reorder", !.rows = Rows(pending)])
  /\ UNCHANGED <<now, tl, connections, votes, queueVars, mirror, autoAdvance,
                 link, inbox, welcome, view, sent, faults>>

Reorder(a) ==
  /\ JobAt(a, "reorder")
  /\ pending' \in {s \in [1..Len(pending) -> Rows(pending)] : Rows(s) = Rows(pending)}
  /\ Finish(a)
  /\ UNCHANGED <<history, unused>>
  /\ Statement

------------------------------------------------------------------------------
(* The auto-advance sweep, one room's share of it.  Every step works with   *)
(* the clock reading its pass began with, however long the pass takes.      *)

SweepBegin ==
  /\ JobAt(Sweeper, "idle")
  /\ present # {}
  /\ Become(Sweeper, [NoJob EXCEPT !.at = "overdue", !.clock = now])
  /\ UNCHANGED <<now, tl, connections, votes, queueVars, mirror, autoAdvance, clientVars, faults>>

\* Release a cue nobody answered, before looking whether anything ended.
SweepOverdue ==
  /\ JobAt(Sweeper, "overdue")
  /\ IF StartOverdue(tl, job[Sweeper].clock, StartTimeout)
     THEN /\ tl' = StartPlayback(tl, job[Sweeper].clock)
          /\ Begin(Sweeper, "read")
     ELSE /\ Goto(Sweeper, "ended")
          /\ UNCHANGED tl
  /\ UNCHANGED <<now, connections, votes, queueVars, mirror, autoAdvance, clientVars, faults>>

\* A live source has no end to reach; loop wins over advance.
SweepEnded ==
  /\ JobAt(Sweeper, "ended")
  /\ IF ~HasEnded(tl, job[Sweeper].clock) \/ tl.item \in LiveItems
     THEN Finish(Sweeper)
     ELSE Become(Sweeper,
            [job[Sweeper] EXCEPT !.at = IF tl.looping THEN "restart"
                                        ELSE IF autoAdvance THEN "pop" ELSE "pause",
                                 !.about = tl.item])
  /\ UNCHANGED <<now, tl, connections, votes, queueVars, mirror, autoAdvance, clientVars, faults>>

\* The lock was let go after the decision and is taken again to act on it.
SweepRestart ==
  /\ JobAt(Sweeper, "restart")
  /\ tl' = Restart(tl, job[Sweeper].clock)
  /\ Begin(Sweeper, "read")
  /\ UNCHANGED <<now, connections, votes, queueVars, mirror, autoAdvance, clientVars, faults>>

\* A sweep that leaves the ended timeline as it is, to be found again.
SweepLetsItBe ==
  /\ JobAt(Sweeper, "pause")
  /\ Finish(Sweeper)
  /\ UNCHANGED <<now, tl, connections, votes, queueVars, mirror, autoAdvance, clientVars, faults>>

\* Without auto-advance a room pauses on the final frame.
SweepPause ==
  /\ JobAt(Sweeper, "pause")
  /\ tl' = Pause(tl, job[Sweeper].clock)
  /\ Begin(Sweeper, "read")
  /\ UNCHANGED <<now, connections, votes, queueVars, mirror, autoAdvance, clientVars, faults>>

------------------------------------------------------------------------------
(* Failures.  A failed statement ends its handler with an error reply, and  *)
(* what the handler had done before it stands; a failed mirror write is     *)
(* only logged.                                                             *)

Statements == {"pop", "find", "mark", "recall", "measure", "requeue",
               "append", "insert", "startIfIdle", "reorder"}

StatementFails(a) ==
  /\ faults < MaxFaults
  /\ job[a].at \in Statements
  /\ faults' = faults + 1
  /\ Finish(a)
  /\ UNCHANGED <<now, tl, connections, votes, queueVars, mirror, autoAdvance, clientVars>>

MirrorFails(a) ==
  /\ faults < MaxFaults
  /\ JobAt(a, "persist")
  /\ faults' = faults + 1
  /\ Goto(a, "send")
  /\ UNCHANGED <<now, tl, connections, votes, queueVars, mirror, autoAdvance, clientVars>>

------------------------------------------------------------------------------
\* What an actor's job does next, whoever the actor is.
Proceed(a) ==
  \/ Pop(a) \/ Find(a) \/ MarkPlayed(a) \/ Recall(a) \/ MeasureHead(a) \/ Requeue(a)
  \/ LoadOrClear(a)
  \/ ReadTimeline(a) \/ Persist(a) \/ Broadcast(a)
  \/ AppendRow(a) \/ InsertNext(a) \/ StartIfIdle(a) \/ Reorder(a)

Handle(c) ==
  \/ SyncIntent(c) \/ ChangeSource(c) \/ ReportDuration(c) \/ PlaybackReady(c)
  \/ SkipVote(c) \/ QueueAdd(c) \/ LockHead(c) \/ RemoveRow(c) \/ ClearPending(c)
  \/ LockQueue(c) \/ Refuse(c) \/ Throttled(c)

Join(c) == Snapshot(c) \/ Reply(c)

Sweep == SweepBegin \/ SweepOverdue \/ SweepEnded \/ SweepRestart \/ SweepPause

Next ==
  \/ Tick \/ ToggleAutoAdvance \/ Sweep
  \/ \E a \in Actors : Proceed(a) \/ StatementFails(a) \/ MirrorFails(a)
  \/ \E c \in Clients : \/ Send(c) \/ Deliver(c) \/ DeliverReady(c)
                        \/ Connect(c) \/ Join(c) \/ SnapshotFails(c) \/ GiveUp(c)
                        \/ Leave(c) \/ Handle(c)

\* The runtime polls every task that can move and the interval timer fires
\* every second; no one has to send, connect, leave or change a setting, and
\* nothing has to fail.  A connection that lagged is closed.
Fairness ==
  /\ WF_vars(Tick)
  /\ WF_vars(Sweep)
  /\ \A a \in Actors : WF_vars(Proceed(a))
  /\ \A c \in Clients :
       /\ WF_vars(Handle(c)) /\ WF_vars(Join(c))
       /\ WF_vars(Deliver(c)) /\ WF_vars(DeliverReady(c))
       /\ WF_vars(link[c] = "lagged" /\ Leave(c))

Spec == Init /\ [][Next]_vars /\ Fairness

------------------------------------------------------------------------------
Orders == [command : Commands, seen : Timelines]

\* A handler about to insert a row has one in hand.
Jobs ==
  {j \in [at : Places, item : Items \cup {NoItem}, edge : Items \cup {NoItem},
          copy : Timelines, clock : Nat, rows : SUBSET Items, about : Items \cup {NoItem}] :
     j.at \in {"append", "insert"} => j.item \in Items}

RoomTypes ==
  /\ now \in Nat
  /\ tl \in Timelines
  /\ tl.at <= now /\ tl.cuedAt <= now
  /\ connections \in [Clients -> Nat]
  /\ votes \subseteq Clients
  /\ mirror \in Timelines
  /\ autoAdvance \in BOOLEAN
  /\ faults \in Nat

QueueTypes ==
  /\ pending \in Seq(Items)
  /\ history \in Seq(Items)
  /\ unused \subseteq Items

JobTypes ==
  /\ job \in [Actors -> Jobs]
  /\ \A a \in Actors : job[a].clock <= now

ClientTypes ==
  /\ link \in [Clients -> {"up", "lagged", "deaf", "down"}]
  /\ inbox \in [Clients -> Seq(Timelines)]
  /\ welcome \in [Clients -> Seq(Timelines)]
  /\ outbox \in [Clients -> Seq(Orders)]
  /\ view \in [Clients -> Timelines]
  /\ sent \in Nat

\* Everything has its type, and nobody's clock is ahead of the server's: an
\* anchor in the future would have every client extrapolate backwards.
TypeOK == RoomTypes /\ QueueTypes /\ JobTypes /\ ClientTypes

\* Every timeline there is, as it is on the wire: the room's own, the mirror,
\* the idle one a room and a page begin with, what handlers are about to send,
\* what is on its way to a client, what a client holds and what it held when
\* it sent its last command.
Copies ==
  {Wire(tl), mirror, Idle(0)}
    \cup {Wire(job[a].copy) : a \in Actors}
    \cup (UNION {Rows(inbox[c]) \cup Rows(welcome[c]) : c \in Clients})
    \cup {view[c] : c \in Clients}
    \cup {Saw(c) : c \in {d \in Clients : outbox[d] # <<>>}}

\* A version number names one state of playback: two copies that carry the
\* same version are the same timeline, and no copy is ahead of the room.  It
\* is what makes "reject what is not newer" (room-store.ts) and "reject what
\* was computed on an older version" (handle_sync_intent) mean what they say,
\* however broadcasts, snapshots, mirror writes and handlers interleave.
CopiesAgree ==
  /\ \A x, y \in Copies : x.version = y.version => x = y
  /\ \A x \in Copies : x.version <= tl.version

\* A relative intent or a ready report takes effect only on the playback
\* state its sender was looking at: nobody pauses, seeks or starts a video
\* they had not seen (handle_sync_intent, handle_playback_ready).
IntentSeesPresent ==
  [][\A c \in Clients :
       /\ outbox[c] # <<>> /\ outbox'[c] = <<>>
       /\ Asked(c).do \in Relative \cup {"ready"}
       /\ tl' # tl
       => Saw(c) = Wire(tl)]_vars

\* The hold on a cued video is real in a room too, whoever holds the lock and
\* with whatever stale clock: it is loaded, paused, and at its first frame.
HeldIsParked == tl.awaiting => IsLoaded(tl) /\ tl.paused /\ tl.pos = 0

\* Ballots are those of people the room counts, against something loaded.
VotesAreLive ==
  /\ votes \subseteq present
  /\ votes # {} => IsLoaded(tl)

\* Nothing is under way: no handler in the middle, nothing left to deliver.
Quiet ==
  /\ \A a \in Actors : JobAt(a, "idle")
  /\ \A c \in Clients : inbox[c] = <<>> /\ welcome[c] = <<>>

\* When the room is quiet, everyone connected looks at the room's timeline:
\* no change goes unpublished, and no order of publishing leaves a client on
\* an older one.
Converged ==
  Quiet => \A c \in Clients : link[c] = "up" => view[c] = Wire(tl)

\* When the votes or the sweep decide to move on, it is the video they were
\* about that is moved on from.
SkipHitsItsVideo ==
  [][\A a \in Actors :
       JobAt(a, "load") /\ ~(job'[a].at = "load") /\ job[a].about # NoItem
       => job[a].about = tl.item]_vars

\* A quiet room is not idle over a queue: whatever was queued is playing or
\* will be, without anyone pressing play.
NothingStranded ==
  Quiet /\ (\A c \in Clients : outbox[c] = <<>>) /\ pending # <<>> => IsLoaded(tl)

\* A cue is not held for ever: if nobody reports ready the sweep starts it,
\* as long as someone is there (START_TIMEOUT_MS).  Only cues whose time runs
\* out within the modelled clock count.
Timely == tl.awaiting /\ tl.cuedAt + StartTimeout <= MaxTime
CueStarts == Timely ~> ~Timely \/ present = {}

\* A video that has run out does not stay on screen: the sweep repeats it,
\* pauses it or moves on, whatever fails on the way, as long as someone is
\* there and the source is not live.
RunOut == HasEnded(tl, now) /\ tl.item \notin LiveItems
EndMovesOn == RunOut ~> ~RunOut \/ present = {}
=============================================================================
