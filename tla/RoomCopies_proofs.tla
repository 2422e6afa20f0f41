-------------------------- MODULE RoomCopies_proofs --------------------------
(***************************************************************************)
(* A version names one state of playback, in every copy there is.          *)
(*                                                                         *)
(* The argument: a step makes no copy but of a timeline there already was, *)
(* or of the room's own (CopiesStep), and it numbers a changed timeline    *)
(* higher than everything before it (TimelineStep).                        *)
(***************************************************************************)
EXTENDS RoomPlayback_proofs

------------------------------------------------------------------------------
(* Where the copies are, one by one.                                        *)

LEMMA IdleWire == Wire(Idle(0)) = Idle(0)
<1>1. Idle(0) \in Timelines
  BY IdleType
<1>2. Idle(0).cuedAt = 0
  BY DEF Idle
<1>3. \A t \in Timelines : t.cuedAt = 0 => [t EXCEPT !.cuedAt = 0] = t
  BY DEF Timelines
<1> QED
  BY <1>1, <1>2, <1>3 DEF Wire

LEMMA CopyMember ==
  /\ Wire(tl) \in Copies /\ mirror \in Copies /\ Idle(0) \in Copies
  /\ \A a \in Actors : Wire(job[a].copy) \in Copies
  /\ \A c \in Clients : /\ Rows(inbox[c]) \subseteq Copies
                        /\ Rows(welcome[c]) \subseteq Copies
                        /\ view[c] \in Copies
                        /\ outbox[c] # <<>> => Saw(c) \in Copies
<1>1. /\ Wire(tl) \in Copies /\ mirror \in Copies /\ Idle(0) \in Copies
      /\ \A a \in Actors : Wire(job[a].copy) \in Copies
      /\ \A c \in Clients : view[c] \in Copies
  BY Zenon DEF Copies
<1>2. ASSUME NEW c \in Clients
      PROVE  Rows(inbox[c]) \cup Rows(welcome[c]) \subseteq Copies
  BY Zenon DEF Copies
<1>3. ASSUME NEW c \in Clients, outbox[c] # <<>>
      PROVE  Saw(c) \in Copies
  BY <1>3, Zenon DEF Copies
<1> QED
  BY <1>1, <1>2, <1>3

\* What a step does to the copies, place by place.
MirrorMoves == mirror' \in Copies
JobsMove    == \A a \in Actors : Wire(job'[a].copy) \in Copies
ClientsMove ==
  \A c \in Clients : /\ Rows(inbox'[c]) \subseteq Copies
                     /\ Rows(welcome'[c]) \subseteq Copies
                     /\ view'[c] \in Copies
                     /\ outbox'[c] # <<>> => Saw(c)' \in Copies

LEMMA CopiesMove ==
  ASSUME MirrorMoves, JobsMove, ClientsMove
  PROVE  Copies' \subseteq Copies \cup {Wire(tl')}
<1> SUFFICES ASSUME NEW x \in Copies', x # Wire(tl')
             PROVE  x \in Copies
  OBVIOUS
<1>1. Wire(tl)' = Wire(tl') /\ Idle(0)' = Idle(0)
  BY DEF Wire, Idle
<1>2. \/ x = mirror' \/ x = Idle(0)
      \/ \E a \in Actors : x = Wire(job'[a].copy)
      \/ \E c \in Clients : \/ x \in Rows(inbox'[c]) \/ x \in Rows(welcome'[c])
                            \/ x = view'[c]
                            \/ outbox'[c] # <<>> /\ x = Saw(c)'
  <2>1. \/ x \in {Wire(tl'), mirror', Idle(0)}
        \/ x \in {Wire(job'[a].copy) : a \in Actors}
        \/ x \in UNION {Rows(inbox'[c]) \cup Rows(welcome'[c]) : c \in Clients}
        \/ x \in {view'[c] : c \in Clients}
        \/ x \in {Saw(c)' : c \in {d \in Clients : outbox'[d] # <<>>}}
    BY <1>1, Zenon DEF Copies, Rows, Wire, Saw
  <2> QED
    BY <2>1
<1> QED
  BY <1>2, CopyMember DEF MirrorMoves, JobsMove, ClientsMove

LEMMA MirrorSame ==
  ASSUME UNCHANGED mirror
  PROVE  MirrorMoves
BY CopyMember DEF MirrorMoves

LEMMA JobsSame ==
  ASSUME UNCHANGED job
  PROVE  JobsMove
BY CopyMember DEF JobsMove

LEMMA ClientsSame ==
  ASSUME UNCHANGED <<inbox, welcome, view, outbox>>
  PROVE  ClientsMove
<1>1. \A c \in Clients : outbox'[c] = outbox[c] /\ Saw(c)' = Saw(c)
  BY DEF Saw
<1> QED
  BY <1>1, CopyMember DEF ClientsMove

LEMMA BecomeMoves ==
  ASSUME JobTypes, NEW a \in Actors, NEW j, Wire(j.copy) \in Copies, Become(a, j)
  PROVE  JobsMove
<1>1. \A b \in Actors : job'[b] = IF b = a THEN j ELSE job[b]
  BY DEF Become, JobTypes
<1> QED
  BY <1>1, CopyMember DEF JobsMove

LEMMA NoJobCopy == Wire(NoJob.copy) \in Copies
<1>1. NoJob.copy = Idle(0)
  BY DEF NoJob
<1> QED
  BY <1>1, IdleWire, CopyMember

\* A job that ends, begins or moves on keeps its copy or drops it.
LEMMA FinishMoves ==
  ASSUME JobTypes, NEW a \in Actors, Finish(a)
  PROVE  JobsMove
BY NoJobCopy, BecomeMoves DEF Finish

LEMMA FreshMoves ==
  ASSUME JobTypes, NEW a \in Actors, NEW j, j.copy = NoJob.copy, Become(a, j)
  PROVE  JobsMove
BY NoJobCopy, BecomeMoves

LEMMA BeginMoves ==
  ASSUME JobTypes, NEW a \in Actors, NEW place, Begin(a, place)
  PROVE  JobsMove
<1> DEFINE j == [NoJob EXCEPT !.at = place]
<1>1. j.copy = NoJob.copy
  BY DEF NoJob
<1> HIDE DEF j
<1> QED
  BY <1>1, FreshMoves DEF Begin, j

LEMMA OnwardMoves ==
  ASSUME JobTypes, NEW a \in Actors, NEW j, j.copy = job[a].copy, Become(a, j)
  PROVE  JobsMove
BY CopyMember, BecomeMoves

LEMMA GotoMoves ==
  ASSUME JobTypes, NEW a \in Actors, NEW place, Goto(a, place)
  PROVE  JobsMove
<1> DEFINE j == [job[a] EXCEPT !.at = place]
<1>1. j.copy = job[a].copy
  BY DEF JobTypes, Jobs
<1> HIDE DEF j
<1> QED
  BY <1>1, OnwardMoves DEF Goto, j

LEMMA HandOverMoves ==
  ASSUME JobTypes, NEW a \in Actors, NEW place, NEW i,
         Become(a, [job[a] EXCEPT !.at = place, !.item = i])
  PROVE  JobsMove
<1> DEFINE j == [job[a] EXCEPT !.at = place, !.item = i]
<1>1. j.copy = job[a].copy
  BY DEF JobTypes, Jobs
<1> HIDE DEF j
<1> QED
  BY <1>1, OnwardMoves DEF j

\* A clone of the room's timeline is a copy of it.
LEMMA CloneMoves ==
  ASSUME JobTypes, NEW a \in Actors, NEW place,
         Become(a, [job[a] EXCEPT !.at = place, !.copy = tl])
  PROVE  JobsMove
<1> DEFINE j == [job[a] EXCEPT !.at = place, !.copy = tl]
<1>1. j.copy = tl
  BY DEF JobTypes, Jobs
<1> HIDE DEF j
<1> QED
  BY <1>1, CopyMember, BecomeMoves DEF j

LEMMA TakesMoves ==
  ASSUME ClientTypes, NEW c \in Clients, NEW names, Takes(c, names),
         UNCHANGED <<inbox, welcome, view>>
  PROVE  ClientsMove
<1>1. \A d \in Clients : outbox'[d] = IF d = c THEN <<>> ELSE outbox[d]
  BY DEF Takes, ClientTypes
<1> QED
  BY <1>1, CopyMember DEF ClientsMove, Saw

------------------------------------------------------------------------------
(* One step, by who takes it.                                               *)

LEMMA ProceedMoves ==
  ASSUME TypeOK, NEW a \in Actors, Proceed(a)
  PROVE  MirrorMoves /\ JobsMove /\ ClientsMove
<1> USE DEF TypeOK
<1>1. Statement => MirrorMoves /\ ClientsMove
  BY MirrorSame, ClientsSame DEF Statement, clientVars
<1>2. CASE Pop(a)
  <2>1. \E i : LoadNext(a, i)
    BY <1>2 DEF Pop
  <2> QED
    BY <1>1, <1>2, <2>1, HandOverMoves DEF Pop, LoadNext
<1>3. CASE Find(a)
  BY <1>1, <1>3, GotoMoves, HandOverMoves DEF Find, LoadNext
<1>4. CASE MarkPlayed(a)
  BY <1>1, <1>4, GotoMoves DEF MarkPlayed
<1>5. CASE Recall(a)
  BY <1>1, <1>5, HandOverMoves DEF Recall, LoadNext
<1>6. CASE Requeue(a)
  <2> DEFINE j == [job[a] EXCEPT !.at = "pop", !.item = NoItem, !.edge = NoItem]
  <2>1. j.copy = job[a].copy
    BY DEF JobTypes, Jobs
  <2>2. Become(a, j)
    BY <1>6 DEF Requeue
  <2> HIDE DEF j
  <2> QED
    BY <1>1, <1>6, <2>1, <2>2, OnwardMoves DEF Requeue
<1>7. CASE LoadOrClear(a)
  BY <1>7, MirrorSame, ClientsSame, BeginMoves DEF LoadOrClear, clientVars
<1>8. CASE ReadTimeline(a)
  BY <1>8, MirrorSame, ClientsSame, CloneMoves DEF ReadTimeline, clientVars
<1>9. CASE Persist(a)
  <2>1. MirrorMoves
    BY <1>9, CopyMember DEF Persist, MirrorMoves
  <2> QED
    BY <1>9, <2>1, ClientsSame, GotoMoves DEF Persist, clientVars
<1>10. CASE Broadcast(a)
  <2> DEFINE w == Wire(job[a].copy)
  <2>1. w \in Copies
    BY CopyMember
  <2>2. \A c \in Clients : /\ inbox'[c] \in {<<>>, Append(inbox[c], w)}
                           /\ welcome'[c] = welcome[c]
                           /\ view'[c] = view[c] /\ outbox'[c] = outbox[c]
    BY <1>10 DEF Broadcast
  <2> HIDE DEF w
  <2>3. ASSUME NEW c \in Clients
        PROVE  Rows(inbox'[c]) \subseteq Copies /\ Rows(welcome'[c]) \subseteq Copies
    <3>1. inbox[c] \in Seq(Timelines)
      BY DEF ClientTypes
    <3>2. Rows(inbox[c]) \subseteq Copies /\ Rows(welcome[c]) \subseteq Copies
      BY CopyMember
    <3>3. Rows(<<>>) = {}
      BY DEF Rows
    <3>4. Rows(Append(inbox[c], w)) \subseteq Rows(inbox[c]) \cup {w}
      BY <3>1 DEF Rows
    <3> QED
      BY <2>1, <2>2, <3>2, <3>3, <3>4
  <2>4. \A c \in Clients : Saw(c)' = Saw(c)
    BY <2>2 DEF Saw
  <2>5. ClientsMove
    BY <2>2, <2>3, <2>4, CopyMember DEF ClientsMove
  <2> QED
    BY <1>10, <2>5, MirrorSame, FinishMoves DEF Broadcast
<1>11. CASE InsertNext(a)
  BY <1>1, <1>11, BeginMoves DEF InsertNext
<1>12. CASE StartIfIdle(a)
  BY <1>1, <1>12, GotoMoves, FinishMoves DEF StartIfIdle
<1>13. CASE Reorder(a)
  BY <1>1, <1>13, FinishMoves DEF Reorder
<1>14. CASE MeasureHead(a)
  <2> DEFINE j == [job[a] EXCEPT !.at = "requeue",
                                 !.edge = IF pending = <<>> THEN NoItem ELSE Head(pending)]
  <2>1. j.copy = job[a].copy
    BY DEF JobTypes, Jobs
  <2>2. Become(a, j)
    BY <1>14 DEF MeasureHead
  <2> HIDE DEF j
  <2> QED
    BY <1>1, <1>14, <2>1, <2>2, OnwardMoves DEF MeasureHead
<1>15. CASE AppendRow(a)
  BY <1>1, <1>15, BeginMoves DEF AppendRow
<1> QED
  BY <1>2, <1>3, <1>4, <1>5, <1>6, <1>7, <1>8, <1>9, <1>10, <1>11, <1>12, <1>13, <1>14, <1>15
     DEF Proceed

LEMMA HandleMoves ==
  ASSUME TypeOK, NEW c \in Clients, Handle(c)
  PROVE  MirrorMoves /\ JobsMove /\ ClientsMove
<1> USE DEF TypeOK
<1>1. c \in Actors
  BY DEF Actors
<1>2. MirrorMoves
  BY MirrorSame DEF Handle, SyncIntent, ReportDuration, PlaybackReady, ChangeSource, SkipVote,
     QueueAdd, LockHead, RemoveRow, ClearPending, LockQueue, Refuse, Throttled
<1>3. (\E names : Takes(c, names)) /\ UNCHANGED <<inbox, welcome, view>>
  BY DEF Handle, SyncIntent, ReportDuration, PlaybackReady, ChangeSource, SkipVote,
     QueueAdd, LockHead, RemoveRow, ClearPending, LockQueue, Refuse, Throttled
<1>4. ClientsMove
  BY <1>3, TakesMoves
<1>5. JobsMove
  <2>1. CASE SyncIntent(c) \/ ReportDuration(c) \/ PlaybackReady(c)
    BY <1>1, <2>1, BeginMoves DEF SyncIntent, ReportDuration, PlaybackReady
  <2>2. CASE RemoveRow(c) \/ ClearPending(c) \/ Refuse(c) \/ Throttled(c)
    BY <2>2, JobsSame DEF RemoveRow, ClearPending, Refuse, Throttled
  <2>3. CASE ChangeSource(c)
    <3> DEFINE j == [NoJob EXCEPT !.at = "find", !.item = Asked(c).item]
    <3>1. j.copy = NoJob.copy
      BY DEF NoJob
    <3>2. Begin(c, "pop") \/ Begin(c, "recall") \/ Become(c, j)
      BY <2>3 DEF ChangeSource
    <3> HIDE DEF j
    <3> QED
      BY <1>1, <3>1, <3>2, BeginMoves, FreshMoves
  <2>4. CASE SkipVote(c)
    <3> DEFINE j == [NoJob EXCEPT !.at = "pop", !.about = tl.item]
    <3>1. j.copy = NoJob.copy
      BY DEF NoJob
    <3>2. Become(c, j) \/ UNCHANGED job
      BY <2>4 DEF SkipVote
    <3> HIDE DEF j
    <3> QED
      BY <1>1, <3>1, <3>2, JobsSame, FreshMoves
  <2>5. CASE LockHead(c)
    <3>1. PICK i, rows : Become(c, [NoJob EXCEPT !.at = "insert", !.item = i, !.rows = rows])
      BY <2>5 DEF LockHead
    <3> DEFINE j == [NoJob EXCEPT !.at = "insert", !.item = i, !.rows = rows]
    <3>2. j.copy = NoJob.copy
      BY DEF NoJob
    <3>3. Become(c, j)
      BY <3>1
    <3> HIDE DEF j
    <3> QED
      BY <1>1, <3>2, <3>3, FreshMoves
  <2>6. CASE LockQueue(c)
    <3> DEFINE j == [NoJob EXCEPT !.at = "reorder", !.rows = Rows(pending)]
    <3>1. j.copy = NoJob.copy
      BY DEF NoJob
    <3>2. Become(c, j)
      BY <2>6 DEF LockQueue
    <3> HIDE DEF j
    <3> QED
      BY <1>1, <3>1, <3>2, FreshMoves
  <2>7. CASE QueueAdd(c)
    <3>1. PICK i, edge : Become(c, [NoJob EXCEPT !.at = "append", !.item = i, !.edge = edge])
      BY <2>7 DEF QueueAdd
    <3> DEFINE j == [NoJob EXCEPT !.at = "append", !.item = i, !.edge = edge]
    <3>2. j.copy = NoJob.copy
      BY DEF NoJob
    <3>3. Become(c, j)
      BY <3>1
    <3> HIDE DEF j
    <3> QED
      BY <1>1, <3>2, <3>3, FreshMoves
  <2> QED
    BY <2>1, <2>2, <2>3, <2>4, <2>5, <2>6, <2>7 DEF Handle
<1> QED
  BY <1>2, <1>4, <1>5

LEMMA SweepMoves ==
  ASSUME TypeOK, Sweep
  PROVE  MirrorMoves /\ JobsMove /\ ClientsMove
<1> USE DEF TypeOK
<1>1. MirrorMoves /\ ClientsMove
  BY MirrorSame, ClientsSame DEF Sweep, SweepBegin, SweepOverdue, SweepEnded, SweepRestart,
     SweepPause, clientVars
<1>2. Sweeper \in Actors
  BY DEF Actors
<1>3. CASE SweepBegin
  <2> DEFINE j == [NoJob EXCEPT !.at = "overdue", !.clock = now]
  <2>1. j.copy = NoJob.copy
    BY DEF NoJob
  <2>2. Become(Sweeper, j)
    BY <1>3 DEF SweepBegin
  <2> HIDE DEF j
  <2>3. JobsMove
    BY <1>2, <2>1, <2>2, FreshMoves
  <2> QED
    BY <1>1, <2>3
<1>4. CASE SweepOverdue
  BY <1>1, <1>2, <1>4, BeginMoves, GotoMoves DEF SweepOverdue
<1>5. CASE SweepEnded
  <2>1. PICK place :
          \/ Finish(Sweeper)
          \/ Become(Sweeper, [job[Sweeper] EXCEPT !.at = place, !.about = tl.item])
    BY <1>5 DEF SweepEnded
  <2> DEFINE j == [job[Sweeper] EXCEPT !.at = place, !.about = tl.item]
  <2>2. j.copy = job[Sweeper].copy
    BY <1>2 DEF JobTypes, Jobs
  <2>3. Finish(Sweeper) \/ Become(Sweeper, j)
    BY <2>1
  <2> HIDE DEF j
  <2>4. JobsMove
    BY <1>2, <2>2, <2>3, FinishMoves, OnwardMoves
  <2> QED
    BY <1>1, <2>4
<1>6. CASE SweepRestart \/ SweepPause
  BY <1>1, <1>2, <1>6, BeginMoves DEF SweepRestart, SweepPause
<1> QED
  BY <1>3, <1>4, <1>5, <1>6 DEF Sweep

LEMMA ClientSideMoves ==
  ASSUME TypeOK,
         NEW c \in Clients,
         \/ Send(c) \/ Deliver(c) \/ DeliverReady(c)
         \/ Connect(c) \/ Join(c) \/ SnapshotFails(c) \/ GiveUp(c) \/ Leave(c)
  PROVE  MirrorMoves /\ JobsMove /\ ClientsMove
<1> USE DEF TypeOK
<1>1. MirrorMoves
  BY MirrorSame DEF Send, Deliver, DeliverReady, Connect, Join, Snapshot, Reply, SnapshotFails, GiveUp, Leave
<1>2. c \in Actors
  BY DEF Actors
<1>3. CASE Send(c)
  <2>1. PICK command \in Commands :
          outbox' = [outbox EXCEPT ![c] = <<[command |-> command, seen |-> view[c]]>>]
    BY <1>3 DEF Send
  <2>2. \A d \in Clients \ {c} : outbox'[d] = outbox[d]
    BY <2>1 DEF ClientTypes
  <2>3. outbox'[c] = <<[command |-> command, seen |-> view[c]]>>
    BY <2>1 DEF ClientTypes
  <2>4. Saw(c)' = view[c]
    BY <2>3 DEF Saw
  <2>5. \A d \in Clients \ {c} : Saw(d)' = Saw(d)
    BY <2>2 DEF Saw
  <2>6. UNCHANGED <<inbox, welcome, view, job>>
    BY <1>3 DEF Send
  <2>7. ClientsMove
    BY <2>2, <2>4, <2>5, <2>6, CopyMember DEF ClientsMove
  <2> QED
    BY <1>1, <2>6, <2>7, JobsSame
<1>4. CASE Deliver(c)
  <2>1. inbox[c] \in Seq(Timelines) /\ inbox[c] # <<>>
    BY <1>4 DEF Deliver, ClientTypes
  <2>2. Head(inbox[c]) \in Rows(inbox[c]) /\ Rows(Tail(inbox[c])) \subseteq Rows(inbox[c])
    BY <2>1 DEF Rows
  <2>3. Rows(inbox[c]) \subseteq Copies
    BY CopyMember
  <2>4. UNCHANGED <<welcome, outbox, job>>
    BY <1>4 DEF Deliver
  <2>5. \A d \in Clients : inbox'[d] = IF d = c THEN Tail(inbox[c]) ELSE inbox[d]
    BY <1>4 DEF Deliver, ClientTypes
  <2>6. \A d \in Clients : view'[d] = view[d] \/ view'[d] = Head(inbox[c])
    BY <1>4 DEF Deliver, ClientTypes
  <2>7. \A d \in Clients : Saw(d)' = Saw(d)
    BY <2>4 DEF Saw
  <2>8. ClientsMove
    BY <2>2, <2>3, <2>4, <2>5, <2>6, <2>7, CopyMember DEF ClientsMove
  <2> QED
    BY <1>1, <2>4, <2>8, JobsSame
<1>5. CASE DeliverReady(c)
  <2>1. welcome[c] \in Seq(Timelines) /\ welcome[c] # <<>>
    BY <1>5 DEF DeliverReady, ClientTypes
  <2>2. Head(welcome[c]) \in Rows(welcome[c]) /\ Rows(<<>>) = {}
    BY <2>1 DEF Rows
  <2>3. Rows(welcome[c]) \subseteq Copies
    BY CopyMember
  <2>4. UNCHANGED <<inbox, outbox, job>>
    BY <1>5 DEF DeliverReady
  <2>5. \A d \in Clients : welcome'[d] = IF d = c THEN <<>> ELSE welcome[d]
    BY <1>5 DEF DeliverReady, ClientTypes
  <2>6. \A d \in Clients : view'[d] = view[d] \/ view'[d] = Head(welcome[c])
    BY <1>5 DEF DeliverReady, ClientTypes
  <2>7. \A d \in Clients : Saw(d)' = Saw(d)
    BY <2>4 DEF Saw
  <2>8. ClientsMove
    BY <2>2, <2>3, <2>4, <2>5, <2>6, <2>7, CopyMember DEF ClientsMove
  <2> QED
    BY <1>1, <2>4, <2>8, JobsSame
<1>6. CASE Connect(c)
  BY <1>1, <1>2, <1>6, ClientsSame, BeginMoves DEF Connect
<1>7. CASE Snapshot(c)
  BY <1>1, <1>2, <1>7, ClientsSame, CloneMoves DEF Snapshot, clientVars
<1>8. CASE Reply(c)
  <2> DEFINE w == Wire(job[c].copy)
  <2>1. w \in Copies
    BY <1>2, CopyMember
  <2>2. \A d \in Clients : welcome'[d] \in {welcome[d], <<w>>}
    BY <1>8 DEF Reply, ClientTypes
  <2> HIDE DEF w
  <2>3. Rows(<<w>>) = {w}
    BY DEF Rows
  <2>4. UNCHANGED <<inbox, view, outbox>>
    BY <1>8 DEF Reply
  <2>5. \A d \in Clients : Saw(d)' = Saw(d)
    BY <2>4 DEF Saw
  <2>6. ASSUME NEW d \in Clients
        PROVE  Rows(welcome'[d]) \subseteq Copies
    BY <2>1, <2>2, <2>3, CopyMember
  <2>7. ClientsMove
    BY <2>4, <2>5, <2>6, CopyMember DEF ClientsMove
  <2> QED
    BY <1>1, <1>2, <1>8, <2>7, FinishMoves DEF Reply
<1>9. CASE Leave(c)
  <2>1. \A d \in Clients :
          /\ inbox'[d] \in {inbox[d], <<>>}
          /\ welcome'[d] \in {welcome[d], <<>>}
          /\ outbox'[d] = outbox[d] \/ outbox'[d] = <<>>
    BY <1>9 DEF Leave, ClientTypes
  <2>2. Rows(<<>>) = {}
    BY DEF Rows
  <2>3. UNCHANGED <<view, job>>
    BY <1>9 DEF Leave
  <2>4. \A d \in Clients : outbox'[d] = outbox[d] => Saw(d)' = Saw(d)
    BY DEF Saw
  <2>5. ClientsMove
    BY <2>1, <2>2, <2>3, <2>4, CopyMember DEF ClientsMove
  <2> QED
    BY <1>1, <2>3, <2>5, JobsSame
<1>10. CASE SnapshotFails(c) \/ GiveUp(c)
  <2>1. \A d \in Clients : /\ inbox'[d] \in {inbox[d], <<>>}
                           /\ outbox'[d] = outbox[d] \/ outbox'[d] = <<>>
    BY <1>10 DEF SnapshotFails, GiveUp, ClientTypes
  <2>2. Rows(<<>>) = {}
    BY DEF Rows
  <2>3. UNCHANGED <<view, welcome>> /\ (Finish(c) \/ UNCHANGED job)
    BY <1>10 DEF SnapshotFails, GiveUp
  <2>4. \A d \in Clients : outbox'[d] = outbox[d] => Saw(d)' = Saw(d)
    BY DEF Saw
  <2>5. ClientsMove
    BY <2>1, <2>2, <2>3, <2>4, CopyMember DEF ClientsMove
  <2> QED
    BY <1>1, <1>2, <2>3, <2>5, FinishMoves, JobsSame
<1> QED
  BY <1>3, <1>4, <1>5, <1>6, <1>7, <1>8, <1>9, <1>10 DEF Join

LEMMA CopiesStep ==
  ASSUME TypeOK, [Next]_vars
  PROVE  Copies' \subseteq Copies \cup {Wire(tl')}
<1>1. MirrorMoves /\ JobsMove /\ ClientsMove
  <2>1. CASE Tick \/ ToggleAutoAdvance
    BY <2>1, MirrorSame, JobsSame, ClientsSame DEF Tick, ToggleAutoAdvance, clientVars
  <2>2. CASE \E a \in Actors : StatementFails(a) \/ MirrorFails(a)
    <3>1. PICK a \in Actors : StatementFails(a) \/ MirrorFails(a)
      BY <2>2
    <3>2. JobsMove
      BY <3>1, FinishMoves, GotoMoves DEF StatementFails, MirrorFails, TypeOK
    <3> QED
      BY <3>1, <3>2, MirrorSame, ClientsSame DEF StatementFails, MirrorFails, clientVars
  <2>3. CASE UNCHANGED vars
    BY <2>3, MirrorSame, JobsSame, ClientsSame DEF vars, clientVars
  <2> QED
    BY <2>1, <2>2, <2>3, ProceedMoves, HandleMoves, SweepMoves, ClientSideMoves DEF Next
<1> QED
  BY <1>1, CopiesMove

------------------------------------------------------------------------------
(* Versions name timelines.                                                 *)

LEMMA CopiesTyped ==
  ASSUME TypeOK
  PROVE  Copies \subseteq Timelines
<1> SUFFICES ASSUME NEW x \in Copies
             PROVE  x \in Timelines
  OBVIOUS
<1> USE DEF TypeOK
<1>1. \/ x \in {Wire(tl), mirror, Idle(0)}
      \/ x \in {Wire(job[a].copy) : a \in Actors}
      \/ x \in UNION {Rows(inbox[c]) \cup Rows(welcome[c]) : c \in Clients}
      \/ x \in {view[c] : c \in Clients}
      \/ x \in {Saw(c) : c \in {d \in Clients : outbox[d] # <<>>}}
  BY Zenon DEF Copies
<1>2. CASE x \in {Wire(tl), mirror, Idle(0)}
  BY <1>2, WireType, IdleType DEF RoomTypes
<1>3. CASE x \in {Wire(job[a].copy) : a \in Actors}
  BY <1>3, WireType DEF JobTypes, Jobs
<1>4. ASSUME NEW c \in Clients, x \in Rows(inbox[c]) \cup Rows(welcome[c])
      PROVE  x \in Timelines
  BY <1>4 DEF ClientTypes, Rows
<1>5. CASE x \in {view[c] : c \in Clients}
  BY <1>5 DEF ClientTypes
<1>6. CASE x \in {Saw(c) : c \in {d \in Clients : outbox[d] # <<>>}}
  BY <1>6, OrderType
<1> QED
  BY <1>1, <1>2, <1>3, <1>4, <1>5, <1>6

LEMMA SameVersion ==
  ASSUME CopiesAgree, NEW x \in Copies, NEW y \in Copies, x.version = y.version
  PROVE  x = y
BY DEF CopiesAgree

LEMMA NotAhead ==
  ASSUME CopiesAgree, NEW x \in Copies
  PROVE  x.version <= tl.version
BY DEF CopiesAgree

LEMMA AgreeStep ==
  ASSUME TypeOK, CopiesAgree, [Next]_vars
  PROVE  CopiesAgree'
<1>1. PICK n \in Nat : Change(tl, tl', n)
  BY TimelineStep
<1>2. Copies' \subseteq Copies \cup {Wire(tl')}
  BY CopiesStep
<1>3. tl \in Timelines /\ tl' \in Timelines
  BY <1>1 DEF TypeOK, RoomTypes, Change
<1>4. /\ Wire(tl') \in Timelines /\ Wire(tl').version = tl'.version
      /\ tl.version \in Nat /\ tl'.version \in Nat
  BY <1>3, WireType DEF Timelines
<1>5. \A x \in Copies : x.version \in Nat
  BY CopiesTyped DEF Timelines
<1>6. CASE tl' = tl
  <2>1. Copies' \subseteq Copies
    BY <1>2, <1>6, CopyMember
  <2> QED
    BY <1>6, <2>1 DEF CopiesAgree
<1>7. CASE tl'.version = tl.version + 1
  <2>1. \A x \in Copies : x.version < tl'.version
    BY <1>4, <1>5, <1>7 DEF CopiesAgree
  <2>2. \A x \in Copies' : x \in Copies \/ x = Wire(tl')
    BY <1>2
  <2>3. \A x, y \in Copies' : x.version = y.version => x = y
    BY <1>4, <1>5, <2>1, <2>2 DEF CopiesAgree
  <2>4. \A x \in Copies' : x.version <= tl'.version
    BY <1>4, <1>5, <2>1, <2>2
  <2> QED
    BY <2>3, <2>4 DEF CopiesAgree
<1> QED
  BY <1>1, <1>6, <1>7 DEF Change

LEMMA AgreeInit == Init => CopiesAgree
<1> SUFFICES ASSUME Init PROVE CopiesAgree
  OBVIOUS
<1>1. Copies \subseteq {Wire(tl), Idle(0)}
  BY NoJobType, IdleWire DEF Init, Copies, Rows, NoJob
<1>2. Wire(tl).version = tl.version /\ tl.version \in Nat
  BY TypeInit, WireType DEF TypeOK, RoomTypes, Timelines
<1>3. Idle(0).version = 0
  BY DEF Idle
<1>4. PICK q \in Backlogs : CuedOver(q) \/ IdleOver(q)
  BY DEF Init
<1>5. tl = Idle(0) \/ tl.version = 1
  <2>1. CASE CuedOver(q)
    <3>1. Head(q) \in Items /\ ItemLength[Head(q)] \in Nat
      BY <2>1, RoomAssumption DEF CuedOver
    <3>2. Change(Idle(0), tl, 0)
      BY <2>1, <3>1, IdleType, LoadChange DEF CuedOver
    <3> QED
      BY <1>3, <3>2 DEF Change
  <2>2. CASE IdleOver(q)
    BY <2>2 DEF IdleOver
  <2> QED
    BY <1>4, <2>1, <2>2
<1>6. CASE tl = Idle(0)
  BY <1>1, <1>3, <1>6, IdleWire DEF CopiesAgree
<1>7. CASE tl.version = 1
  BY <1>1, <1>2, <1>3, <1>7 DEF CopiesAgree
<1> QED
  BY <1>5, <1>6, <1>7

\* Two copies with one version are one timeline and no copy is ahead of the
\* room, whatever is on its way between handlers, mirror and clients.
THEOREM VersionsName == Spec => []CopiesAgree
<1>1. TypeOK /\ CopiesAgree /\ [Next]_vars => CopiesAgree'
  BY AgreeStep
<1> QED
  BY AgreeInit, <1>1, TypeCorrect, PTL DEF Spec

\* So the version test of an intent and of a ready report is a test that its
\* sender was looking at the very timeline it changes (session.rs
\* handle_sync_intent, handle_playback_ready).
THEOREM IntentsSee == Spec => IntentSeesPresent
<1> DEFINE Effect ==
      \A c \in Clients :
        /\ outbox[c] # <<>> /\ outbox'[c] = <<>>
        /\ Asked(c).do \in Relative \cup {"ready"}
        /\ tl' # tl
        => Saw(c) = Wire(tl)
<1>1. ASSUME TypeOK, CopiesAgree, [Next]_vars
      PROVE  Effect
  <2> SUFFICES ASSUME NEW c \in Clients, outbox[c] # <<>>, outbox'[c] = <<>>,
                      Asked(c).do \in Relative \cup {"ready"}, tl' # tl
               PROVE  Saw(c) = Wire(tl)
    OBVIOUS
  <2>1. /\ Saw(c) \in Copies /\ Wire(tl) \in Copies
        /\ Saw(c).version \in Nat /\ tl.version \in Nat
        /\ Wire(tl).version = tl.version
    <3>1. Saw(c) \in Timelines /\ tl \in Timelines
      BY <1>1, OrderType DEF TypeOK, RoomTypes
    <3>2. Saw(c).version \in Nat /\ tl.version \in Nat
      BY <3>1 DEF Timelines
    <3> QED
      BY <3>1, <3>2, CopyMember, WireType
  <2>2. Saw(c).version >= tl.version
    <3>1. CASE SyncIntent(c)
      BY <3>1 DEF SyncIntent, FreshEnough
    <3>2. CASE PlaybackReady(c)
      BY <2>1, <3>2 DEF PlaybackReady, ReadyFor
    <3>3. ASSUME NEW d \in Clients, Handle(d), d # c
          PROVE  FALSE
      <4>1. \E names : Takes(d, names)
        BY <3>3 DEF Handle, SyncIntent, ReportDuration, PlaybackReady, ChangeSource, SkipVote,
           QueueAdd, LockHead, RemoveRow, ClearPending, LockQueue, Refuse, Throttled
      <4>2. outbox'[c] = outbox[c]
        BY <1>1, <3>3, <4>1 DEF Takes, TypeOK, ClientTypes
      <4> QED
        BY <4>2
    <3>4. ASSUME Handle(c), ~SyncIntent(c), ~PlaybackReady(c)
          PROVE  FALSE
      <4>1. CASE ReportDuration(c)
        BY <4>1 DEF ReportDuration, Takes, Asked, Relative
      <4> QED
        BY <3>4, <4>1 DEF Handle, ChangeSource, SkipVote, QueueAdd, LockHead, RemoveRow,
           ClearPending, LockQueue, Refuse, Throttled
    <3>5. ASSUME \/ Tick \/ ToggleAutoAdvance \/ Sweep
                 \/ \E a \in Actors : Proceed(a) \/ StatementFails(a) \/ MirrorFails(a)
          PROVE  FALSE
      BY <3>5 DEF Tick, ToggleAutoAdvance, Sweep, SweepBegin, SweepOverdue, SweepEnded,
         SweepRestart, SweepPause, Proceed, Pop, Find, MarkPlayed, Recall, MeasureHead, Requeue,
         LoadOrClear, ReadTimeline, Persist, Broadcast, AppendRow, InsertNext, StartIfIdle, Reorder,
         Statement, StatementFails, MirrorFails, clientVars
    <3>6. ASSUME NEW d \in Clients,
                 \/ Send(d) \/ Deliver(d) \/ DeliverReady(d)
                 \/ Connect(d) \/ Join(d) \/ SnapshotFails(d) \/ GiveUp(d) \/ Leave(d)
          PROVE  FALSE
      BY <3>6 DEF Send, Deliver, DeliverReady, Connect, Join, Snapshot, Reply, SnapshotFails, GiveUp, Leave
    <3>7. CASE UNCHANGED vars
      BY <3>7 DEF vars
    <3>8. CASE \E d \in Clients : Handle(d)
      BY <3>1, <3>2, <3>3, <3>4, <3>8
    <3> QED
      BY <1>1, <3>5, <3>6, <3>7, <3>8 DEF Next
  <2>3. Saw(c).version <= tl.version
    BY <1>1, <2>1, NotAhead
  <2>4. Saw(c).version = Wire(tl).version
    BY <2>1, <2>2, <2>3
  <2> QED
    BY <1>1, <2>1, <2>4, SameVersion
<1>2. TypeOK /\ CopiesAgree /\ [Next]_vars => [Effect]_vars
  BY <1>1
<1> QED
  BY <1>2, TypeCorrect, VersionsName, PTL DEF Spec, IntentSeesPresent

------------------------------------------------------------------------------
(* Convergence.  A client that does not show the room's timeline has it on   *)
(* the way: in its receiver, in the hands of a handler that will broadcast,  *)
(* or in the snapshot it is about to be greeted with.                       *)

IsNewest(t) == t.version = tl.version

Publishing(a) ==
  \/ JobAt(a, "read")
  \/ job[a].at \in {"persist", "send"} /\ IsNewest(job[a].copy)

Greeting(c) == JobAt(c, "snapshot") \/ (JobAt(c, "reply") /\ IsNewest(job[c].copy))

Greeted(c) == welcome[c] # <<>> /\ IsNewest(Head(welcome[c]))

InReceiver(c) == \E i \in 1 .. Len(inbox[c]) : IsNewest(inbox[c][i])

Informed(c) ==
  \/ IsNewest(view[c])
  \/ InReceiver(c)
  \/ \E a \in Actors : Publishing(a)
  \/ Greeting(c)
  \/ Greeted(c)

OnTheWay == \A c \in Clients : link[c] = "up" => Informed(c)

\* Nobody reads what the client sends: it is away, or its session has ended
\* and left the writer behind.
Away(c) == link[c] \in {"down", "deaf"}

\* A connection begins with nobody in its handler and nothing to be delivered,
\* and greets once.
Arriving ==
  \A c \in Clients :
    /\ Away(c) => JobAt(c, "idle") /\ welcome[c] = <<>> /\ outbox[c] = <<>>
    /\ job[c].at \in {"snapshot", "reply"} => welcome[c] = <<>>

\* No client is taken back to an older timeline.
NeverBack == \A c \in Clients : view'[c].version >= view[c].version

\* Places from which nothing is sent.
Unsent == Places \ {"read", "persist", "send", "snapshot", "reply"}

\* The timeline stands and at most one actor moves, from and to places where
\* it has nothing to send.
LEMMA AsideKeeps ==
  ASSUME TypeOK, OnTheWay, UNCHANGED <<tl, link, inbox, welcome, view>>,
         NEW a \in Actors, job[a].at \in Unsent,
         \A b \in Actors : b # a => job'[b] = job[b]
  PROVE  OnTheWay'
<1> SUFFICES ASSUME NEW c \in Clients, link[c] = "up"
             PROVE  Informed(c)'
  BY DEF OnTheWay
<1>1. Informed(c)
  BY DEF OnTheWay
<1>2. c \in Actors
  BY DEF Actors
<1>3. CASE IsNewest(view[c]) \/ InReceiver(c) \/ Greeted(c)
  BY <1>3 DEF Informed, IsNewest, InReceiver, Greeted
<1>4. CASE \E b \in Actors : Publishing(b)
  <2>1. PICK b \in Actors : Publishing(b)
    BY <1>4
  <2>2. b # a
    BY <2>1 DEF Publishing, JobAt, Unsent
  <2>3. Publishing(b)'
    BY <2>1, <2>2 DEF Publishing, JobAt, IsNewest
  <2> QED
    BY <2>3 DEF Informed
<1>5. CASE Greeting(c)
  <2>1. c # a
    BY <1>5 DEF Greeting, JobAt, Unsent
  <2>2. Greeting(c)'
    BY <1>2, <1>5, <2>1 DEF Greeting, JobAt, IsNewest
  <2> QED
    BY <2>2 DEF Informed
<1> QED
  BY <1>1, <1>3, <1>4, <1>5 DEF Informed

\* Whoever changes the timeline goes on to publish it.
LEMMA ReadKeeps ==
  ASSUME NEW a \in Actors, JobAt(a, "read")'
  PROVE  OnTheWay'
BY DEF OnTheWay, Informed, Publishing

\* Nothing that informs anyone moves.
LEMMA StillKeeps ==
  ASSUME OnTheWay, UNCHANGED <<tl, link, inbox, welcome, view, job>>
  PROVE  OnTheWay'
BY DEF OnTheWay, Informed, IsNewest, InReceiver, Greeted, Greeting, Publishing, JobAt

\* Where an actor is after Begin, Finish and Goto.
LEMMA JobNext ==
  ASSUME JobTypes, NEW a \in Actors, NEW j, Become(a, j)
  PROVE  job'[a] = j /\ \A b \in Actors : b # a => job'[b] = job[b]
BY DEF JobTypes, Become

LEMMA Begun ==
  ASSUME JobTypes, NEW a \in Actors, NEW p, Begin(a, p)
  PROVE  job'[a].at = p /\ \A b \in Actors : b # a => job'[b] = job[b]
<1> DEFINE j == [NoJob EXCEPT !.at = p]
<1>1. j.at = p
  BY DEF NoJob
<1> HIDE DEF j
<1>2. Become(a, j)
  BY DEF Begin, j
<1> QED
  BY <1>1, <1>2, JobNext

LEMMA Finished ==
  ASSUME JobTypes, NEW a \in Actors, Finish(a)
  PROVE  job'[a].at = "idle" /\ \A b \in Actors : b # a => job'[b] = job[b]
<1>1. NoJob.at = "idle"
  BY DEF NoJob
<1> QED
  BY <1>1, JobNext DEF Finish

\* The steps of a handler or of the sweep, publishing apart.
LEMMA WorkKeeps ==
  ASSUME TypeOK, OnTheWay, NEW a \in Actors,
         \/ Pop(a) \/ Find(a) \/ MarkPlayed(a) \/ Recall(a) \/ MeasureHead(a) \/ Requeue(a)
         \/ AppendRow(a) \/ InsertNext(a) \/ StartIfIdle(a) \/ Reorder(a) \/ StatementFails(a)
  PROVE  OnTheWay'
<1>1. job[a].at \in Unsent
  BY DEF Pop, Find, MarkPlayed, Recall, MeasureHead, Requeue, AppendRow, InsertNext, StartIfIdle, Reorder,
     StatementFails, Statements, JobAt, Unsent, Places
<1>2. UNCHANGED <<tl, link, inbox, welcome, view>>
  BY DEF Pop, Find, MarkPlayed, Recall, MeasureHead, Requeue, AppendRow, InsertNext, StartIfIdle, Reorder,
     StatementFails, Statement, clientVars
<1>3. \E j : Become(a, j)
  BY DEF Pop, Find, MarkPlayed, Recall, MeasureHead, Requeue, AppendRow, InsertNext, StartIfIdle, Reorder,
     StatementFails, LoadNext, Goto, Begin, Finish
<1>4. \A b \in Actors : b # a => job'[b] = job[b]
  BY <1>3, JobNext DEF TypeOK
<1> QED
  BY <1>1, <1>2, <1>4, AsideKeeps

LEMMA HandleKeeps ==
  ASSUME TypeOK, OnTheWay, NEW c \in Clients, Handle(c)
  PROVE  OnTheWay'
<1>1. c \in Actors /\ JobTypes
  BY DEF Actors, TypeOK
<1>2. CASE SyncIntent(c) \/ ReportDuration(c) \/ PlaybackReady(c)
  <2>1. Begin(c, "read")
    BY <1>2 DEF SyncIntent, ReportDuration, PlaybackReady
  <2> QED
    BY <1>1, <2>1, Begun, ReadKeeps DEF JobAt
<1>3. CASE ~(SyncIntent(c) \/ ReportDuration(c) \/ PlaybackReady(c))
  <2>1. UNCHANGED <<tl, link, inbox, welcome, view>> /\ JobAt(c, "idle")
        /\ ((\E j : Become(c, j)) \/ UNCHANGED job)
    BY <1>3 DEF Handle, ChangeSource, SkipVote, QueueAdd, LockHead, RemoveRow, ClearPending,
       LockQueue, Refuse, Throttled, Takes, Begin
  <2>2. job[c].at \in Unsent
    BY <2>1 DEF JobAt, Unsent, Places
  <2>3. \A b \in Actors : b # c => job'[b] = job[b]
    BY <1>1, <2>1, JobNext
  <2> QED
    BY <1>1, <2>1, <2>2, <2>3, AsideKeeps
<1> QED
  BY <1>2, <1>3

LEMMA SweepKeeps ==
  ASSUME TypeOK, OnTheWay, Sweep
  PROVE  OnTheWay'
<1>1. Sweeper \in Actors /\ JobTypes
  BY DEF Actors, TypeOK
<1>2. CASE Begin(Sweeper, "read")
  BY <1>1, <1>2, Begun, ReadKeeps DEF JobAt
<1>3. CASE ~Begin(Sweeper, "read")
  <2>1. UNCHANGED <<tl, link, inbox, welcome, view>>
        /\ job[Sweeper].at \in {"idle", "overdue", "ended"}
        /\ \E j : Become(Sweeper, j)
    BY <1>3 DEF Sweep, SweepBegin, SweepOverdue, SweepEnded, SweepRestart, SweepPause,
       JobAt, Goto, Finish, clientVars
  <2>2. job[Sweeper].at \in Unsent
    BY <2>1 DEF Unsent, Places
  <2>3. \A b \in Actors : b # Sweeper => job'[b] = job[b]
    BY <1>1, <2>1, JobNext
  <2> QED
    BY <1>1, <2>1, <2>2, <2>3, AsideKeeps
<1> QED
  BY <1>2, <1>3

\* The clone is taken of the timeline as it is, and carried to the receivers.
LEMMA PublishKeeps ==
  ASSUME TypeOK, OnTheWay, NEW a \in Actors,
         \/ LoadOrClear(a) \/ ReadTimeline(a) \/ Persist(a) \/ MirrorFails(a)
  PROVE  OnTheWay'
<1>1. JobTypes /\ job[a] \in Jobs
  BY DEF TypeOK, JobTypes
<1>2. CASE LoadOrClear(a)
  <2>1. Begin(a, "read")
    BY <1>2 DEF LoadOrClear
  <2> QED
    BY <1>1, <2>1, Begun, ReadKeeps DEF JobAt
<1>3. CASE ReadTimeline(a)
  <2> DEFINE j == [job[a] EXCEPT !.at = "persist", !.copy = tl]
  <2>1. j.at = "persist" /\ j.copy = tl
    BY <1>1 DEF Jobs
  <2> HIDE DEF j
  <2>2. Become(a, j) /\ tl' = tl
    BY <1>3 DEF ReadTimeline, j
  <2>3. job'[a] = j
    BY <1>1, <2>2, JobNext
  <2>4. Publishing(a)'
    BY <2>1, <2>2, <2>3 DEF Publishing, IsNewest, JobAt
  <2> QED
    BY <2>4 DEF OnTheWay, Informed
<1>4. CASE Persist(a) \/ MirrorFails(a)
  <2> DEFINE j == [job[a] EXCEPT !.at = "send"]
  <2>1. j.at = "send" /\ j.copy = job[a].copy
    BY <1>1 DEF Jobs
  <2> HIDE DEF j
  <2>2. Become(a, j) /\ UNCHANGED <<tl, link, inbox, welcome, view>> /\ JobAt(a, "persist")
    BY <1>4 DEF Persist, MirrorFails, Goto, j, clientVars
  <2>3. job'[a] = j /\ \A b \in Actors : b # a => job'[b] = job[b]
    BY <1>1, <2>2, JobNext
  <2>4. \A b \in Actors : Publishing(b) => Publishing(b)'
    BY <2>1, <2>2, <2>3 DEF Publishing, IsNewest, JobAt
  <2>5. \A c \in Clients : Greeting(c) => Greeting(c)'
    BY <2>1, <2>2, <2>3 DEF Greeting, IsNewest, JobAt, Actors
  <2> QED
    BY <2>2, <2>4, <2>5 DEF OnTheWay, Informed, IsNewest, InReceiver, Greeted
<1> QED
  BY <1>2, <1>3, <1>4

\* What is broadcast reaches every receiver that has room, behind what it holds.
LEMMA BroadcastKeeps ==
  ASSUME TypeOK, OnTheWay, NEW a \in Actors, Broadcast(a)
  PROVE  OnTheWay'
<1> DEFINE w == Wire(job[a].copy)
<1> SUFFICES ASSUME NEW c \in Clients, link'[c] = "up"
             PROVE  Informed(c)'
  BY DEF OnTheWay
<1>1. JobTypes /\ c \in Actors /\ inbox[c] \in Seq(Timelines) /\ w \in Timelines
      /\ w.version = job[a].copy.version
  BY WireType DEF TypeOK, JobTypes, Jobs, ClientTypes, Actors
<1> HIDE DEF w
<1>2. /\ UNCHANGED <<tl, welcome, view>> /\ JobAt(a, "send") /\ Finish(a)
      /\ link[c] = "up" /\ inbox'[c] = Append(inbox[c], w)
  BY DEF Broadcast, w
<1>3. /\ Len(inbox'[c]) = Len(inbox[c]) + 1 /\ Len(inbox[c]) \in Nat
      /\ inbox'[c][Len(inbox[c]) + 1] = w
      /\ \A i \in 1 .. Len(inbox[c]) : inbox'[c][i] = inbox[c][i]
  BY <1>1, <1>2
<1>4. job'[a].at = "idle" /\ \A b \in Actors : b # a => job'[b] = job[b]
  BY <1>1, <1>2, Finished
<1>5. Informed(c)
  BY <1>2 DEF OnTheWay
<1>6. CASE IsNewest(view[c]) \/ Greeted(c)
  BY <1>2, <1>6 DEF Informed, IsNewest, Greeted
<1>7. CASE InReceiver(c)
  <2>1. PICK i \in 1 .. Len(inbox[c]) : IsNewest(inbox[c][i])
    BY <1>7 DEF InReceiver
  <2>2. i \in 1 .. Len(inbox'[c]) /\ IsNewest(inbox[c][i])'
    BY <1>2, <1>3, <2>1 DEF IsNewest
  <2> QED
    BY <2>2 DEF Informed, InReceiver
<1>8. CASE \E b \in Actors : Publishing(b)
  <2>1. PICK b \in Actors : Publishing(b)
    BY <1>8
  <2>2. CASE b = a
    <3>1. w.version = tl.version
      BY <1>1, <1>2, <2>1, <2>2 DEF Publishing, JobAt, IsNewest
    <3>2. Len(inbox[c]) + 1 \in 1 .. Len(inbox'[c])
      BY <1>3
    <3>3. inbox'[c][Len(inbox[c]) + 1].version = tl'.version
      BY <1>2, <1>3, <3>1
    <3> QED
      BY <3>2, <3>3 DEF Informed, InReceiver, IsNewest
  <2>3. CASE b # a
    BY <1>2, <1>4, <2>1, <2>3 DEF Informed, Publishing, JobAt, IsNewest
  <2> QED
    BY <2>2, <2>3
<1>9. CASE Greeting(c)
  <2>1. c # a
    BY <1>2, <1>9 DEF Greeting, JobAt
  <2> QED
    BY <1>1, <1>2, <1>4, <1>9, <2>1 DEF Informed, Greeting, JobAt, IsNewest
<1> QED
  BY <1>5, <1>6, <1>7, <1>8, <1>9 DEF Informed

\* The snapshot is taken when the timeline is what it is, and becomes the reply.
LEMMA JoinKeeps ==
  ASSUME TypeOK, OnTheWay, Arriving, NEW c \in Clients, Join(c)
  PROVE  OnTheWay'
<1>1. JobTypes /\ c \in Actors /\ job[c] \in Jobs /\ tl \in Timelines /\ ClientTypes
  BY DEF TypeOK, JobTypes, Actors, RoomTypes
<1>2. CASE Snapshot(c)
  <2> DEFINE j == [job[c] EXCEPT !.at = "reply", !.copy = tl]
  <2>1. j.at = "reply" /\ j.copy = tl
    BY <1>1 DEF Jobs
  <2> HIDE DEF j
  <2>2. Become(c, j) /\ UNCHANGED <<tl, link, inbox, welcome, view>> /\ JobAt(c, "snapshot")
    BY <1>2 DEF Snapshot, j, clientVars
  <2>3. job'[c] = j /\ \A b \in Actors : b # c => job'[b] = job[b]
    BY <1>1, <2>2, JobNext
  <2>4. \A b \in Actors : Publishing(b) => Publishing(b)'
    BY <2>2, <2>3 DEF Publishing, IsNewest, JobAt
  <2>5. Greeting(c)'
    BY <2>1, <2>2, <2>3 DEF Greeting, IsNewest, JobAt
  <2>6. \A d \in Clients : d # c => (Greeting(d) => Greeting(d)')
    BY <2>2, <2>3 DEF Greeting, IsNewest, JobAt, Actors
  <2> QED
    BY <2>2, <2>4, <2>5, <2>6 DEF OnTheWay, Informed, IsNewest, InReceiver, Greeted
<1>3. CASE Reply(c)
  <2> DEFINE w == Wire(job[c].copy)
  <2>1. w \in Timelines /\ w.version = job[c].copy.version
    BY <1>1, WireType DEF Jobs
  <2> HIDE DEF w
  <2>2. /\ UNCHANGED <<tl, link, inbox, view>> /\ JobAt(c, "reply") /\ Finish(c)
        /\ welcome' = [welcome EXCEPT ![c] = <<w>>]
    BY <1>3 DEF Reply, w
  <2>3. job'[c].at = "idle" /\ \A b \in Actors : b # c => job'[b] = job[b]
    BY <1>1, <2>2, Finished
  <2>4. welcome'[c] = <<w>> /\ \A d \in Clients : d # c => welcome'[d] = welcome[d]
    BY <1>1, <2>2 DEF ClientTypes
  <2>5. \A b \in Actors : Publishing(b) => Publishing(b)'
    BY <2>2, <2>3 DEF Publishing, IsNewest, JobAt
  <2>6. Greeting(c) => Greeted(c)'
    BY <2>1, <2>2, <2>4 DEF Greeting, Greeted, IsNewest, JobAt
  <2>7. ~Greeted(c)
    BY <2>2 DEF Greeted, Arriving, JobAt
  <2>8. \A d \in Clients : d # c => (Greeting(d) => Greeting(d)') /\ (Greeted(d) => Greeted(d)')
    BY <2>2, <2>3, <2>4 DEF Greeting, Greeted, IsNewest, JobAt, Actors
  <2> QED
    BY <2>2, <2>5, <2>6, <2>7, <2>8 DEF OnTheWay, Informed, IsNewest, InReceiver
<1> QED
  BY <1>2, <1>3 DEF Join

\* A broadcast that is newer is taken; one that is not costs nothing, for no
\* copy is ahead of the room.
LEMMA DeliverKeeps ==
  ASSUME TypeOK, CopiesAgree, OnTheWay, NEW c \in Clients, Deliver(c)
  PROVE  OnTheWay'
<1>1. /\ ClientTypes /\ UNCHANGED <<tl, link, welcome, job>>
      /\ inbox[c] \in Seq(Timelines) /\ inbox[c] # <<>>
      /\ inbox' = [inbox EXCEPT ![c] = Tail(@)]
  BY DEF Deliver, TypeOK, ClientTypes
<1>2. /\ inbox'[c] = Tail(inbox[c])
      /\ \A d \in Clients : d # c => inbox'[d] = inbox[d] /\ view'[d] = view[d]
      /\ view'[c] = IF Accepts(view[c], Head(inbox[c])) THEN Head(inbox[c]) ELSE view[c]
  BY <1>1 DEF Deliver, ClientTypes
<1>3. /\ Head(inbox[c]) = inbox[c][1] /\ Len(inbox[c]) \in Nat
      /\ Len(Tail(inbox[c])) = Len(inbox[c]) - 1
      /\ \A i \in 1 .. Len(inbox[c]) : i # 1 =>
           i - 1 \in 1 .. Len(Tail(inbox[c])) /\ Tail(inbox[c])[i - 1] = inbox[c][i]
  BY <1>1
<1>4. view[c] \in Copies /\ Head(inbox[c]) \in Copies
  <2>1. 1 \in 1 .. Len(inbox[c])
    BY <1>1, <1>3
  <2>2. Head(inbox[c]) \in Rows(inbox[c])
    BY <1>3, <2>1 DEF Rows
  <2> QED
    BY <2>2, CopyMember
<1>5. /\ view[c].version \in Nat /\ Head(inbox[c]).version \in Nat /\ tl.version \in Nat
      /\ view[c].version <= tl.version /\ Head(inbox[c]).version <= tl.version
  BY <1>4, CopiesTyped, NotAhead DEF Timelines, TypeOK, RoomTypes
<1>6. IsNewest(view[c]) => IsNewest(view[c])'
  BY <1>1, <1>2, <1>5 DEF IsNewest, Accepts
<1>7. InReceiver(c) => IsNewest(view[c])' \/ InReceiver(c)'
  <2> SUFFICES ASSUME NEW i \in 1 .. Len(inbox[c]), IsNewest(inbox[c][i])
               PROVE  IsNewest(view[c])' \/ InReceiver(c)'
    BY DEF InReceiver
  <2>1. CASE i = 1
    BY <1>1, <1>2, <1>3, <1>5, <2>1 DEF IsNewest, Accepts
  <2>2. CASE i # 1
    BY <1>1, <1>2, <1>3, <2>2 DEF IsNewest, InReceiver
  <2> QED
    BY <2>1, <2>2
<1>8. Informed(c) => Informed(c)'
  <2>1. \A b \in Actors : Publishing(b) => Publishing(b)'
    BY <1>1 DEF Publishing, IsNewest, JobAt
  <2>2. (Greeting(c) => Greeting(c)') /\ (Greeted(c) => Greeted(c)')
    BY <1>1 DEF Greeting, Greeted, IsNewest, JobAt
  <2> QED
    BY <1>6, <1>7, <2>1, <2>2 DEF Informed
<1>9. \A d \in Clients : d # c => (Informed(d) => Informed(d)')
  BY <1>1, <1>2 DEF Informed, IsNewest, InReceiver, Greeted, Greeting, Publishing, JobAt
<1> QED
  BY <1>1, <1>8, <1>9 DEF OnTheWay

\* The greeting replaces what the client holds, newer or not: here is where
\* the hypothesis is needed.
LEMMA DeliverReadyKeeps ==
  ASSUME TypeOK, CopiesAgree, OnTheWay, NeverBack, NEW c \in Clients, DeliverReady(c)
  PROVE  OnTheWay'
<1>1. /\ ClientTypes /\ UNCHANGED <<tl, link, inbox, job>>
      /\ welcome[c] \in Seq(Timelines) /\ welcome[c] # <<>>
      /\ view'[c] = Head(welcome[c])
      /\ \A d \in Clients : d # c => welcome'[d] = welcome[d] /\ view'[d] = view[d]
  BY DEF DeliverReady, TypeOK, ClientTypes
<1>2. Head(welcome[c]) \in Copies /\ view[c] \in Copies
  <2>1. Head(welcome[c]) = welcome[c][1] /\ 1 \in 1 .. Len(welcome[c])
    BY <1>1
  <2> QED
    BY <2>1, CopyMember DEF Rows
<1>3. /\ view[c].version \in Nat /\ view'[c].version \in Nat /\ tl.version \in Nat
      /\ view'[c].version <= tl.version /\ view[c].version <= view'[c].version
  BY <1>1, <1>2, CopiesTyped, NotAhead DEF Timelines, TypeOK, RoomTypes, NeverBack
<1>4. IsNewest(view[c]) \/ Greeted(c) => IsNewest(view[c])'
  BY <1>1, <1>3 DEF IsNewest, Greeted
<1>5. Informed(c) => Informed(c)'
  <2>1. \A b \in Actors : Publishing(b) => Publishing(b)'
    BY <1>1 DEF Publishing, IsNewest, JobAt
  <2>2. (Greeting(c) => Greeting(c)') /\ (InReceiver(c) => InReceiver(c)')
    BY <1>1 DEF Greeting, InReceiver, IsNewest, JobAt
  <2> QED
    BY <1>4, <2>1, <2>2 DEF Informed
<1>6. \A d \in Clients : d # c => (Informed(d) => Informed(d)')
  BY <1>1 DEF Informed, IsNewest, InReceiver, Greeted, Greeting, Publishing, JobAt
<1> QED
  BY <1>1, <1>5, <1>6 DEF OnTheWay

\* Who connects is about to be greeted; who leaves need not be told anything.
LEMMA ComeAndGoKeeps ==
  ASSUME TypeOK, OnTheWay, Arriving, NEW c \in Clients, Connect(c) \/ Leave(c)
  PROVE  OnTheWay'
<1>1. JobTypes /\ c \in Actors /\ ClientTypes
  BY DEF TypeOK, Actors
<1>2. JobAt(c, "idle") /\ UNCHANGED <<tl, view>>
  BY DEF Connect, Leave, Arriving, Away
<1>3. \A b \in Actors : b # c => job'[b] = job[b]
  BY <1>1, Begun DEF Connect, Leave
<1>4. \A d \in Clients : d # c =>
        link'[d] = link[d] /\ inbox'[d] = inbox[d] /\ welcome'[d] = welcome[d]
  BY <1>1 DEF Connect, Leave, ClientTypes
<1>5. link'[c] = "up" => Informed(c)'
  <2>1. CASE Connect(c)
    BY <1>1, <2>1, Begun DEF Connect, Informed, Greeting, JobAt
  <2>2. CASE Leave(c)
    BY <1>1, <2>2 DEF Leave, ClientTypes
  <2> QED
    BY <2>1, <2>2
<1>6. \A b \in Actors : Publishing(b) => Publishing(b)'
  BY <1>2, <1>3 DEF Publishing, IsNewest, JobAt
<1>7. \A d \in Clients : d # c => (Informed(d) => Informed(d)')
  BY <1>2, <1>3, <1>4, <1>6 DEF Informed, IsNewest, InReceiver, Greeted, Greeting, JobAt, Actors
<1> QED
  BY <1>4, <1>5, <1>7 DEF OnTheWay

\* Whose snapshot failed is not kept informed, and nobody else notices.
LEMMA FailedKeeps ==
  ASSUME TypeOK, OnTheWay, NEW c \in Clients, SnapshotFails(c) \/ GiveUp(c)
  PROVE  OnTheWay'
<1>1. JobTypes /\ c \in Actors /\ ClientTypes
  BY DEF TypeOK, Actors
<1>2. /\ UNCHANGED <<tl, view, welcome>> /\ link'[c] # "up"
      /\ \A d \in Clients : d # c => link'[d] = link[d] /\ inbox'[d] = inbox[d]
  BY <1>1 DEF SnapshotFails, GiveUp, ClientTypes
<1>3. \A b \in Actors : b # c => job'[b] = job[b]
  BY <1>1, Finished DEF SnapshotFails, GiveUp
<1>4. \A b \in Actors : Publishing(b) => Publishing(b)'
  <2>1. UNCHANGED job \/ JobAt(c, "snapshot")
    BY DEF SnapshotFails, GiveUp
  <2> QED
    BY <1>2, <1>3, <2>1 DEF Publishing, IsNewest, JobAt
<1>5. \A d \in Clients : d # c => (Informed(d) => Informed(d)')
  BY <1>2, <1>3, <1>4 DEF Informed, IsNewest, InReceiver, Greeted, Greeting, JobAt, Actors
<1> QED
  BY <1>2, <1>5 DEF OnTheWay

LEMMA OnTheWayStep ==
  ASSUME TypeOK, CopiesAgree, OnTheWay, Arriving, NeverBack, [Next]_vars
  PROVE  OnTheWay'
<1>1. CASE Tick \/ ToggleAutoAdvance \/ UNCHANGED vars
  <2>1. UNCHANGED <<tl, link, inbox, welcome, view, job>>
    BY <1>1 DEF Tick, ToggleAutoAdvance, vars, clientVars
  <2> QED
    BY <2>1, StillKeeps
<1>2. ASSUME NEW a \in Actors, Proceed(a) \/ StatementFails(a) \/ MirrorFails(a)
      PROVE  OnTheWay'
  BY <1>2, WorkKeeps, PublishKeeps, BroadcastKeeps DEF Proceed
<1>3. ASSUME NEW c \in Clients, Send(c)
      PROVE  OnTheWay'
  BY <1>3, StillKeeps DEF Send
<1>4. ASSUME NEW c \in Clients,
             \/ Deliver(c) \/ DeliverReady(c) \/ Connect(c)
             \/ Join(c) \/ SnapshotFails(c) \/ GiveUp(c) \/ Leave(c) \/ Handle(c)
      PROVE  OnTheWay'
  BY <1>4, DeliverKeeps, DeliverReadyKeeps, ComeAndGoKeeps, JoinKeeps, FailedKeeps, HandleKeeps
<1> QED
  BY <1>1, <1>2, <1>3, <1>4, SweepKeeps DEF Next

------------------------------------------------------------------------------
(* Arrivals.                                                                *)

\* One client's connection, given that nothing else about it has changed.
Arrived(c) ==
  /\ Away(c) => JobAt(c, "idle") /\ welcome[c] = <<>> /\ outbox[c] = <<>>
  /\ job[c].at \in {"snapshot", "reply"} => welcome[c] = <<>>

\* A step of one actor that does not take it to a place of arrival.
LEMMA ArrivingKept ==
  ASSUME TypeOK, Arriving, UNCHANGED welcome, NEW a \in Actors,
         \A b \in Actors : b # a => job'[b] = job[b],
         \A d \in Clients : outbox'[d] \in {outbox[d], <<>>},
         \A d \in Clients : Away(d)' <=> Away(d),
         a \in Clients => ~Away(a),
         job'[a].at \notin {"snapshot", "reply"}
  PROVE  Arriving'
<1> SUFFICES ASSUME NEW d \in Clients
             PROVE  Arrived(d)'
  BY DEF Arriving, Arrived
<1>1. d \in Actors /\ Arrived(d)
  BY DEF Actors, Arriving, Arrived
<1> QED
  BY <1>1 DEF Arrived, Away, JobAt

LEMMA WorkJob ==
  ASSUME TypeOK, NEW a \in Actors,
         Proceed(a) \/ StatementFails(a) \/ MirrorFails(a)
  PROVE  /\ job[a].at \notin {"idle", "snapshot", "reply"}
         /\ job'[a].at \notin {"snapshot", "reply"}
         /\ \A b \in Actors : b # a => job'[b] = job[b]
<1>1. JobTypes /\ job[a] \in Jobs /\ job[a].at \notin {"idle", "snapshot", "reply"}
  BY DEF TypeOK, JobTypes, Proceed, Pop, Find, MarkPlayed, Recall, MeasureHead, Requeue, LoadOrClear, ReadTimeline,
     Persist, Broadcast, AppendRow, InsertNext, StartIfIdle, Reorder, StatementFails, Statements,
     MirrorFails, JobAt
<1>2. \E j : Become(a, j) /\ j.at \notin {"snapshot", "reply"}
  <2>1. ASSUME NEW p, Goto(a, p), p \notin {"snapshot", "reply"}
        PROVE  \E j : Become(a, j) /\ j.at \notin {"snapshot", "reply"}
    <3> DEFINE j == [job[a] EXCEPT !.at = p]
    <3>1. j.at = p
      BY <1>1 DEF Jobs
    <3> QED
      BY <2>1, <3>1 DEF Goto
  <2>2. ASSUME NEW p, Begin(a, p), p \notin {"snapshot", "reply"}
        PROVE  \E j : Become(a, j) /\ j.at \notin {"snapshot", "reply"}
    <3> DEFINE j == [NoJob EXCEPT !.at = p]
    <3>1. j.at = p
      BY DEF NoJob
    <3> QED
      BY <2>2, <3>1 DEF Begin
  <2>3. ASSUME Finish(a)
        PROVE  \E j : Become(a, j) /\ j.at \notin {"snapshot", "reply"}
    BY <2>3 DEF Finish, NoJob
  <2>4. ASSUME NEW i, LoadNext(a, i)
        PROVE  \E j : Become(a, j) /\ j.at \notin {"snapshot", "reply"}
    <3> DEFINE j == [job[a] EXCEPT !.at = "load", !.item = i]
    <3>1. j.at = "load"
      BY <1>1 DEF Jobs
    <3> QED
      BY <2>4, <3>1 DEF LoadNext
  <2>5. CASE Recall(a)
    <3> DEFINE j == [job[a] EXCEPT !.at = "measure", !.item = history[2]]
    <3>1. j.at = "measure"
      BY <1>1 DEF Jobs
    <3> QED
      BY <2>4, <2>5, <3>1 DEF Recall
  <2>6. CASE Requeue(a)
    <3> DEFINE j == [job[a] EXCEPT !.at = "pop", !.item = NoItem, !.edge = NoItem]
    <3>1. j.at = "pop"
      BY <1>1 DEF Jobs
    <3> QED
      BY <2>6, <3>1 DEF Requeue
  <2>7. CASE ReadTimeline(a)
    <3> DEFINE j == [job[a] EXCEPT !.at = "persist", !.copy = tl]
    <3>1. j.at = "persist"
      BY <1>1 DEF Jobs
    <3> QED
      BY <2>7, <3>1 DEF ReadTimeline
  <2>8. CASE Pop(a) \/ Find(a) \/ MarkPlayed(a)
    BY <2>1, <2>4, <2>8 DEF Pop, Find, MarkPlayed
  <2>9. CASE LoadOrClear(a) \/ AppendRow(a) \/ InsertNext(a)
    BY <2>2, <2>9 DEF LoadOrClear, AppendRow, InsertNext
  <2>10. CASE \/ Broadcast(a) \/ Reorder(a) \/ StatementFails(a)
    BY <2>3, <2>10 DEF Broadcast, Reorder, StatementFails
  <2>11. CASE Persist(a) \/ MirrorFails(a)
    BY <2>1, <2>11 DEF Persist, MirrorFails
  <2>12. CASE StartIfIdle(a)
    BY <2>1, <2>3, <2>12 DEF StartIfIdle
  <2>13. CASE MeasureHead(a)
    <3> DEFINE j == [job[a] EXCEPT !.at = "requeue",
                                   !.edge = IF pending = <<>> THEN NoItem ELSE Head(pending)]
    <3>1. j.at = "requeue"
      BY <1>1 DEF Jobs
    <3> QED
      BY <2>13, <3>1 DEF MeasureHead
  <2> QED
    BY <2>5, <2>6, <2>7, <2>8, <2>9, <2>10, <2>11, <2>12, <2>13 DEF Proceed
<1> QED
  BY <1>1, <1>2, JobNext

LEMMA WorkArrives ==
  ASSUME TypeOK, Arriving, NEW a \in Actors,
         Proceed(a) \/ StatementFails(a) \/ MirrorFails(a)
  PROVE  Arriving'
<1>1. UNCHANGED <<welcome, outbox>> /\ \A d \in Clients : Away(d)' <=> Away(d)
  BY DEF Away, Proceed, Pop, Find, MarkPlayed, Recall, MeasureHead, Requeue, LoadOrClear, ReadTimeline,
     Persist, Broadcast, AppendRow, InsertNext, StartIfIdle, Reorder, StatementFails,
     MirrorFails, Statement, clientVars
<1>2. a \in Clients => ~Away(a)
  BY WorkJob DEF Arriving, JobAt
<1> QED
  BY <1>1, <1>2, WorkJob, ArrivingKept

LEMMA HandleJob ==
  ASSUME TypeOK, NEW c \in Clients, Handle(c)
  PROVE  /\ job'[c].at \notin {"snapshot", "reply"}
         /\ \A b \in Actors : b # c => job'[b] = job[b]
<1>1. c \in Actors /\ JobTypes
  BY DEF Actors, TypeOK
<1>2. JobAt(c, "idle")
  BY DEF Handle, SyncIntent, ReportDuration, PlaybackReady, ChangeSource, SkipVote, QueueAdd,
     LockHead, RemoveRow, ClearPending, LockQueue, Refuse, Throttled, Takes
<1>3. UNCHANGED job \/ \E j : Become(c, j) /\ j.at \notin {"snapshot", "reply"}
  <2>1. ASSUME NEW p, Begin(c, p), p \notin {"snapshot", "reply"}
        PROVE  \E j : Become(c, j) /\ j.at \notin {"snapshot", "reply"}
    <3> DEFINE j == [NoJob EXCEPT !.at = p]
    <3>1. j.at = p
      BY DEF NoJob
    <3> QED
      BY <2>1, <3>1 DEF Begin
  <2>2. CASE SyncIntent(c) \/ ReportDuration(c) \/ PlaybackReady(c)
    BY <2>1, <2>2 DEF SyncIntent, ReportDuration, PlaybackReady
  <2>3. CASE ChangeSource(c)
    <3> DEFINE j == [NoJob EXCEPT !.at = "find", !.item = Asked(c).item]
    <3>1. j.at = "find"
      BY DEF NoJob
    <3> HIDE DEF j
    <3>2. Begin(c, "pop") \/ Begin(c, "recall") \/ Become(c, j)
      BY <2>3 DEF ChangeSource, j
    <3> QED
      BY <2>1, <3>1, <3>2
  <2>4. CASE SkipVote(c)
    <3> DEFINE j == [NoJob EXCEPT !.at = "pop", !.about = tl.item]
    <3>1. j.at = "pop"
      BY DEF NoJob
    <3> HIDE DEF j
    <3>2. UNCHANGED job \/ Become(c, j)
      BY <2>4 DEF SkipVote, j
    <3> QED
      BY <3>1, <3>2
  <2>5. CASE LockHead(c)
    <3>1. PICK item, head :
            Become(c, [NoJob EXCEPT !.at = "insert", !.item = item, !.rows = head])
      BY <2>5 DEF LockHead
    <3> DEFINE j == [NoJob EXCEPT !.at = "insert", !.item = item, !.rows = head]
    <3>2. j.at = "insert"
      BY DEF NoJob
    <3> QED
      BY <3>1, <3>2
  <2>6. CASE LockQueue(c)
    <3> DEFINE j == [NoJob EXCEPT !.at = "reorder", !.rows = Rows(pending)]
    <3>1. j.at = "reorder"
      BY DEF NoJob
    <3> QED
      BY <2>6, <3>1 DEF LockQueue
  <2>7. CASE RemoveRow(c) \/ ClearPending(c) \/ Refuse(c) \/ Throttled(c)
    BY <2>7 DEF RemoveRow, ClearPending, Refuse, Throttled
  <2>8. CASE QueueAdd(c)
    <3>1. PICK item, edge :
            Become(c, [NoJob EXCEPT !.at = "append", !.item = item, !.edge = edge])
      BY <2>8 DEF QueueAdd
    <3> DEFINE j == [NoJob EXCEPT !.at = "append", !.item = item, !.edge = edge]
    <3>2. j.at = "append"
      BY DEF NoJob
    <3> QED
      BY <3>1, <3>2
  <2> QED
    BY <2>2, <2>3, <2>4, <2>5, <2>6, <2>7, <2>8 DEF Handle
<1> QED
  BY <1>1, <1>2, <1>3, JobNext DEF JobAt

LEMMA HandleArrives ==
  ASSUME TypeOK, Arriving, NEW c \in Clients, Handle(c)
  PROVE  Arriving'
<1>1. c \in Actors /\ ClientTypes
  BY DEF Actors, TypeOK
<1>2. /\ UNCHANGED <<link, welcome>> /\ JobAt(c, "idle")
      /\ outbox[c] # <<>> /\ outbox' = [outbox EXCEPT ![c] = <<>>]
  BY DEF Handle, SyncIntent, ReportDuration, PlaybackReady, ChangeSource, SkipVote, QueueAdd,
     LockHead, RemoveRow, ClearPending, LockQueue, Refuse, Throttled, Takes
<1>3. ~Away(c) /\ \A d \in Clients : outbox'[d] \in {outbox[d], <<>>}
  BY <1>1, <1>2 DEF Arriving, ClientTypes
<1> QED
  BY <1>1, <1>2, <1>3, HandleJob, ArrivingKept DEF Away

LEMMA SweepJob ==
  ASSUME TypeOK, Sweep
  PROVE  /\ UNCHANGED <<link, welcome, outbox, view>>
         /\ \A c \in Clients : job'[c] = job[c]
<1>1. Sweeper \in Actors /\ Sweeper \notin Clients /\ JobTypes
  BY RoomAssumption DEF Actors, TypeOK
<1>2. UNCHANGED <<link, welcome, outbox, view>> /\ \E j : Become(Sweeper, j)
  BY DEF Sweep, SweepBegin, SweepOverdue, SweepEnded, SweepRestart, SweepPause,
     Begin, Goto, Finish, clientVars
<1> QED
  BY <1>1, <1>2, JobNext DEF Actors

LEMMA SweepArrives ==
  ASSUME TypeOK, Arriving, Sweep
  PROVE  Arriving'
BY SweepJob DEF Arriving, Away, JobAt

LEMMA ClientArrives ==
  ASSUME TypeOK, Arriving, NEW c \in Clients,
         \/ Send(c) \/ Deliver(c) \/ DeliverReady(c) \/ Connect(c) \/ Join(c)
         \/ SnapshotFails(c) \/ GiveUp(c) \/ Leave(c)
  PROVE  Arriving'
<1> SUFFICES ASSUME NEW d \in Clients
             PROVE  Arrived(d)'
  BY DEF Arriving, Arrived
<1>1. c \in Actors /\ d \in Actors /\ JobTypes /\ job[c] \in Jobs /\ ClientTypes /\ Arrived(d)
  BY DEF Actors, TypeOK, JobTypes, Arriving, Arrived
<1>2. CASE Send(c)
  BY <1>1, <1>2 DEF Send, Arrived, Away, JobAt, ClientTypes
<1>3. CASE Deliver(c)
  BY <1>1, <1>3 DEF Deliver, Arrived, Away, JobAt
<1>4. CASE DeliverReady(c)
  BY <1>1, <1>4 DEF DeliverReady, Arrived, Away, JobAt, ClientTypes
<1>5. CASE Connect(c)
  <2>1. /\ \A b \in Actors : b # c => job'[b] = job[b]
        /\ UNCHANGED <<welcome, outbox>> /\ link' = [link EXCEPT ![c] = "up"]
        /\ link[c] = "down"
    BY <1>1, <1>5, Begun DEF Connect
  <2> QED
    BY <1>1, <2>1 DEF Arrived, Away, JobAt, ClientTypes
<1>6. CASE Snapshot(c)
  <2>1. UNCHANGED <<link, welcome, outbox>> /\ JobAt(c, "snapshot") /\ \E j : Become(c, j)
    BY <1>6 DEF Snapshot, clientVars
  <2>2. \A b \in Actors : b # c => job'[b] = job[b]
    BY <1>1, <2>1, JobNext
  <2> QED
    BY <1>1, <2>1, <2>2 DEF Arrived, Away, JobAt
<1>7. CASE Reply(c)
  <2>1. UNCHANGED <<link, outbox>> /\ JobAt(c, "reply") /\ Finish(c)
        /\ \A b \in Clients : b # c => welcome'[b] = welcome[b]
    BY <1>1, <1>7 DEF Reply, ClientTypes
  <2>2. job'[c].at = "idle" /\ \A b \in Actors : b # c => job'[b] = job[b]
    BY <1>1, <2>1, Finished
  <2> QED
    BY <1>1, <2>1, <2>2 DEF Arrived, Away, JobAt
<1>8. CASE Leave(c)
  BY <1>1, <1>8 DEF Leave, Arrived, Away, JobAt, ClientTypes
<1>9. CASE GiveUp(c)
  BY <1>1, <1>9 DEF GiveUp, Arrived, Away, JobAt, ClientTypes
<1>10. CASE SnapshotFails(c)
  <2>1. /\ UNCHANGED welcome /\ outbox'[c] = <<>> /\ JobAt(c, "snapshot") /\ Finish(c)
        /\ \A b \in Clients : b # c => link'[b] = link[b] /\ outbox'[b] = outbox[b]
    BY <1>1, <1>10 DEF SnapshotFails, ClientTypes
  <2>2. job'[c].at = "idle" /\ \A b \in Actors : b # c => job'[b] = job[b]
    BY <1>1, <2>1, Finished
  <2>3. welcome[c] = <<>>
    BY <2>1 DEF Arriving, JobAt
  <2> QED
    BY <1>1, <2>1, <2>2, <2>3 DEF Arrived, Away, JobAt
<1> QED
  BY <1>2, <1>3, <1>4, <1>5, <1>6, <1>7, <1>8, <1>9, <1>10 DEF Join

LEMMA ArrivingStep ==
  ASSUME TypeOK, Arriving, [Next]_vars
  PROVE  Arriving'
<1>1. CASE Tick \/ ToggleAutoAdvance \/ UNCHANGED vars
  BY <1>1 DEF Tick, ToggleAutoAdvance, vars, clientVars, Arriving, Away, JobAt
<1> QED
  BY <1>1, WorkArrives, HandleArrives, SweepArrives, ClientArrives DEF Next

LEMMA ConvergenceInit ==
  ASSUME Init
  PROVE  OnTheWay /\ Arriving
<1>1. \A a \in Actors : job[a] = NoJob
  BY DEF Init
<1>2. Wire(tl).version = tl.version
  BY TypeInit, WireType DEF TypeOK, RoomTypes
<1> QED
  BY <1>1, <1>2 DEF Init, OnTheWay, Arriving, Away, Informed, IsNewest, JobAt, NoJob, Actors

\* At rest nothing is on its way any more, so everyone is informed by what
\* they hold; and one version is one timeline.
LEMMA AtRest ==
  ASSUME TypeOK, CopiesAgree, OnTheWay
  PROVE  Converged
<1> SUFFICES ASSUME Quiet, NEW c \in Clients, link[c] = "up"
             PROVE  view[c] = Wire(tl)
  BY DEF Converged
<1>1. Informed(c)
  BY DEF OnTheWay
<1>2. ~InReceiver(c) /\ ~Greeted(c)
  BY DEF Quiet, InReceiver, Greeted
<1>3. ~Greeting(c) /\ \A a \in Actors : ~Publishing(a)
  BY DEF Quiet, Greeting, Publishing, JobAt, Actors
<1>4. view[c].version = Wire(tl).version
  BY <1>1, <1>2, <1>3, WireType DEF Informed, IsNewest, TypeOK, RoomTypes
<1> QED
  BY <1>4, CopyMember, SameVersion

\* A quiet room shows every client its timeline, however handlers publish and
\* receivers fill up, and whoever connects and leaves, unless a client is taken
\* back to an older timeline: and the only step that can do that is the store
\* replacing what it holds with the ready reply (room-store.ts).
THEOREM Converges == Spec /\ [][NeverBack]_vars => []Converged
<1>1. TypeOK /\ CopiesAgree /\ OnTheWay /\ Arriving /\ [Next]_vars /\ [NeverBack]_vars
        => OnTheWay' /\ Arriving'
  <2> SUFFICES ASSUME TypeOK, CopiesAgree, OnTheWay, Arriving, [Next]_vars, [NeverBack]_vars
               PROVE  OnTheWay' /\ Arriving'
    OBVIOUS
  <2>1. Arriving'
    BY ArrivingStep
  <2>2. CASE UNCHANGED vars
    BY <2>1, <2>2, StillKeeps DEF vars, clientVars
  <2>3. CASE NeverBack
    BY <2>1, <2>3, OnTheWayStep
  <2> QED
    BY <2>1, <2>2, <2>3
<1>2. TypeOK /\ CopiesAgree /\ OnTheWay => Converged
  BY AtRest
<1> QED
  BY ConvergenceInit, <1>1, <1>2, TypeCorrect, VersionsName, PTL DEF Spec
\* Whose page never reconnects is never taken back: nobody is greeted after
\* the page has loaded.
Ungreeted ==
  \A c \in Clients : job[c].at \notin {"snapshot", "reply"} /\ welcome[c] = <<>>

\* So in a room whose clients may leave but do not come back, quiet means
\* convergence without any hypothesis on what they are shown.
THEOREM ConvergesUnlessRejoined ==
  Spec /\ [][\A c \in Clients : ~Connect(c)]_vars => []Converged
<1> DEFINE NoneConnects == \A c \in Clients : ~Connect(c)
<1>1. Init => Ungreeted
  BY DEF Init, NoJob, Ungreeted, Actors
<1>2. ASSUME TypeOK, Ungreeted, [Next]_vars, [NoneConnects]_vars
      PROVE  Ungreeted' /\ [NeverBack]_vars
  <2>1. \A c \in Clients : c \in Actors /\ view[c].version \in Nat
    BY <1>2 DEF TypeOK, ClientTypes, Timelines, Actors
  <2>2. CASE UNCHANGED vars
    BY <1>2, <2>2 DEF vars, clientVars, Ungreeted
  <2>3. ASSUME UNCHANGED <<welcome, view>>, NEW a \in Actors,
               \A b \in Actors : b # a => job'[b] = job[b],
               job'[a].at \notin {"snapshot", "reply"}
        PROVE  Ungreeted' /\ NeverBack
    BY <1>2, <2>1, <2>3 DEF Ungreeted, NeverBack
  <2>4. CASE Tick \/ ToggleAutoAdvance \/ \E c \in Clients : Send(c)
    BY <1>2, <2>1, <2>4 DEF Tick, ToggleAutoAdvance, Send, clientVars, Ungreeted, NeverBack
  <2>5. CASE Sweep
    BY <1>2, <2>1, <2>5, SweepJob DEF Ungreeted, NeverBack
  <2>6. ASSUME NEW a \in Actors, Proceed(a) \/ StatementFails(a) \/ MirrorFails(a)
        PROVE  Ungreeted' /\ NeverBack
    <3>1. UNCHANGED <<welcome, view>>
      BY <2>6 DEF Proceed, Pop, Find, MarkPlayed, Recall, MeasureHead, Requeue, LoadOrClear, ReadTimeline,
         Persist, Broadcast, AppendRow, InsertNext, StartIfIdle, Reorder, StatementFails,
         MirrorFails, Statement, clientVars
    <3> QED
      BY <1>2, <2>3, <2>6, <3>1, WorkJob
  <2>7. ASSUME NEW c \in Clients, Handle(c)
        PROVE  Ungreeted' /\ NeverBack
    <3>1. UNCHANGED <<welcome, view>>
      BY <2>7 DEF Handle, SyncIntent, ReportDuration, PlaybackReady, ChangeSource, SkipVote,
         QueueAdd, LockHead, RemoveRow, ClearPending, LockQueue, Refuse, Throttled
    <3> QED
      BY <1>2, <2>1, <2>3, <2>7, <3>1, HandleJob
  <2>8. ASSUME NEW c \in Clients, Deliver(c)
        PROVE  Ungreeted' /\ NeverBack
    <3>1. Head(inbox[c]).version \in Nat
      <4>1. inbox[c] \in Seq(Timelines) /\ inbox[c] # <<>>
        BY <1>2, <2>8 DEF Deliver, TypeOK, ClientTypes
      <4>2. Head(inbox[c]) \in Timelines
        BY <4>1
      <4> QED
        BY <4>2 DEF Timelines
    <3>2. /\ view'[c] = IF Accepts(view[c], Head(inbox[c])) THEN Head(inbox[c]) ELSE view[c]
          /\ \A d \in Clients : d # c => view'[d] = view[d]
      BY <1>2, <2>8 DEF Deliver, TypeOK, ClientTypes
    <3>3. NeverBack
      BY <2>1, <3>1, <3>2 DEF NeverBack, Accepts
    <3> QED
      BY <1>2, <2>8, <3>3 DEF Deliver, Ungreeted
  <2>9. ASSUME NEW c \in Clients, Leave(c)
        PROVE  Ungreeted' /\ NeverBack
    BY <1>2, <2>1, <2>9 DEF Leave, Ungreeted, NeverBack, TypeOK, ClientTypes
  <2>10. ASSUME NEW c \in Clients, DeliverReady(c) \/ Join(c) \/ SnapshotFails(c)
         PROVE  FALSE
    BY <1>2, <2>10 DEF DeliverReady, Join, Snapshot, Reply, SnapshotFails, Ungreeted, JobAt
  <2>11. ASSUME NEW c \in Clients, GiveUp(c)
         PROVE  Ungreeted' /\ NeverBack
    BY <1>2, <2>1, <2>11 DEF GiveUp, Ungreeted, NeverBack
  <2> QED
    BY <1>2, <2>2, <2>4, <2>5, <2>6, <2>7, <2>8, <2>9, <2>10, <2>11 DEF Next
<1> QED
  BY <1>1, <1>2, TypeCorrect, Converges, PTL DEF Spec
=============================================================================
