------------------------ MODULE RoomPlayback_proofs ------------------------
(***************************************************************************)
(* Proofs about RoomPlayback, for any number of clients, any queue, any    *)
(* commands and any bounds.                                                *)
(***************************************************************************)
EXTENDS RoomPlayback, TimelineLemmas

------------------------------------------------------------------------------
(* What the queue statements do to a sequence of rows.                      *)

LEMMA RemoveAtType ==
  ASSUME NEW s \in Seq(Items), NEW k \in 1..Len(s)
  PROVE  RemoveAt(s, k) \in Seq(Items)
BY DEF RemoveAt

LEMMA InsertAtType ==
  ASSUME NEW s \in Seq(Items), NEW k \in 0..Len(s), NEW e \in Items
  PROVE  InsertAt(s, k + 1, e) \in Seq(Items)
<1>1. /\ SubSeq(s, 1, (k + 1) - 1) \in Seq(Items)
      /\ SubSeq(s, k + 1, Len(s)) \in Seq(Items)
      /\ <<e>> \in Seq(Items)
  OBVIOUS
<1> QED
  BY <1>1 DEF InsertAt

LEMMA DropType ==
  ASSUME NEW s \in Seq(Items), NEW e
  PROVE  Drop(s, e) \in Seq(Items)
<1>1. CASE e \in Rows(s)
  <2> DEFINE k == CHOOSE n \in 1..Len(s) : s[n] = e
  <2>1. \E n \in 1..Len(s) : s[n] = e
    BY <1>1 DEF Rows
  <2>2. k \in 1..Len(s)
    BY <2>1
  <2> HIDE DEF k
  <2>3. RemoveAt(s, k) \in Seq(Items)
    BY <2>2, RemoveAtType
  <2> QED
    BY <1>1, <2>3 DEF Drop, k
<1>2. CASE e \notin Rows(s)
  BY <1>2 DEF Drop
<1> QED
  BY <1>1, <1>2

LEMMA PrependType ==
  ASSUME NEW s \in Seq(Items), NEW e \in Items
  PROVE  <<e>> \o s \in Seq(Items)
OBVIOUS

LEMMA RowsType ==
  ASSUME NEW s \in Seq(Items)
  PROVE  Rows(s) \subseteq Items
BY DEF Rows

------------------------------------------------------------------------------
(* Types of the parts an action leaves alone or replaces whole.             *)

LEMMA NoJobType == NoJob \in Jobs /\ NoJob.clock = 0
<1>1. Idle(0) \in Timelines
  BY IdleType
<1> HIDE DEF Idle
<1> QED
  BY <1>1 DEF NoJob, Jobs, Places

LEMMA BecomeType ==
  ASSUME JobTypes, now' = now, NEW a \in Actors, NEW j \in Jobs,
         j.clock <= now, Become(a, j)
  PROVE  JobTypes'
BY DEF JobTypes, Become

LEMMA BeginType ==
  ASSUME JobTypes, now \in Nat, now' = now, NEW a \in Actors, NEW place \in Places \ {"append", "insert"},
         Begin(a, place)
  PROVE  JobTypes'
<1> DEFINE j == [NoJob EXCEPT !.at = place]
<1>1. j \in Jobs /\ j.clock = 0
  BY NoJobType DEF Jobs
<1> HIDE DEF j
<1>2. j.clock <= now /\ Become(a, j)
  BY <1>1 DEF Begin, j
<1> QED
  BY <1>1, <1>2, BecomeType

LEMMA FinishType ==
  ASSUME JobTypes, now \in Nat, now' = now, NEW a \in Actors, Finish(a)
  PROVE  JobTypes'
BY NoJobType, BecomeType DEF Finish

\* Moving a job on, with another row in hand or not.
LEMMA GotoType ==
  ASSUME JobTypes, now' = now, NEW a \in Actors, NEW place \in Places \ {"append", "insert"},
         Goto(a, place)
  PROVE  JobTypes'
<1> DEFINE j == [job[a] EXCEPT !.at = place]
<1>1. job[a] \in Jobs /\ job[a].clock <= now
  BY DEF JobTypes
<1>2. j \in Jobs /\ j.clock <= now
  BY <1>1 DEF Jobs
<1> HIDE DEF j
<1> QED
  BY <1>2, BecomeType DEF Goto, j

LEMMA HandOverType ==
  ASSUME JobTypes, now' = now, NEW a \in Actors, NEW place \in Places \ {"append", "insert"},
         NEW i \in Items \cup {NoItem},
         Become(a, [job[a] EXCEPT !.at = place, !.item = i])
  PROVE  JobTypes'
<1> DEFINE j == [job[a] EXCEPT !.at = place, !.item = i]
<1>1. job[a] \in Jobs /\ job[a].clock <= now
  BY DEF JobTypes
<1>2. j \in Jobs /\ j.clock <= now
  BY <1>1 DEF Jobs
<1> HIDE DEF j
<1> QED
  BY <1>2, BecomeType DEF j

\* A job about a row next to which it read a position.
LEMMA EdgeType ==
  ASSUME QueueTypes
  PROVE  pending # <<>> => Head(pending) \in Items /\ Last(pending) \in Items
BY DEF QueueTypes, Last

LEMMA LoadNextType ==
  ASSUME JobTypes, now' = now, NEW a \in Actors, NEW i \in Items \cup {NoItem},
         LoadNext(a, i)
  PROVE  JobTypes'
BY HandOverType DEF LoadNext, Places

LEMMA RoomFrame ==
  ASSUME RoomTypes, UNCHANGED <<now, tl, connections, votes, mirror, autoAdvance, faults>>
  PROVE  RoomTypes'
BY DEF RoomTypes

LEMMA QueueFrame ==
  ASSUME QueueTypes, UNCHANGED queueVars
  PROVE  QueueTypes'
BY DEF QueueTypes, queueVars

LEMMA JobFrame ==
  ASSUME JobTypes, UNCHANGED <<now, job>>
  PROVE  JobTypes'
BY DEF JobTypes

LEMMA ClientFrame ==
  ASSUME ClientTypes, UNCHANGED clientVars
  PROVE  ClientTypes'
BY DEF ClientTypes, clientVars

\* A method of the timeline called at a clock reading that is not ahead.
LEMMA RoomChange ==
  ASSUME RoomTypes, NEW n \in Nat, n <= now, Change(tl, tl', n),
         votes' \subseteq Clients,
         UNCHANGED <<now, connections, mirror, autoAdvance, faults>>
  PROVE  RoomTypes'
BY DEF RoomTypes, Change

LEMMA TakesType ==
  ASSUME ClientTypes, NEW c \in Clients, NEW names, Takes(c, names),
         UNCHANGED <<link, inbox, welcome, view, sent>>
  PROVE  ClientTypes'
BY DEF ClientTypes, Takes

LEMMA OrderType ==
  ASSUME ClientTypes, NEW c \in Clients, outbox[c] # <<>>
  PROVE  /\ Asked(c) \in [do : CommandNames, item : Items, value : Nat]
         /\ Saw(c) \in Timelines
<1>1. outbox[c] \in Seq(Orders)
  BY DEF ClientTypes
<1>2. Head(outbox[c]) \in Orders
  BY <1>1
<1>3. Head(outbox[c]).command \in Commands /\ Head(outbox[c]).seen \in Timelines
  BY <1>2 DEF Orders
<1>4. Commands \subseteq [do : CommandNames, item : Items, value : Nat]
  BY RoomAssumption
<1> QED
  BY <1>3, <1>4 DEF Asked, Saw

------------------------------------------------------------------------------
(* Type correctness, one lemma per group of actions.                        *)

LEMMA TypeInit == Init => TypeOK
<1> SUFFICES ASSUME Init PROVE TypeOK
  OBVIOUS
<1>1. PICK q \in Backlogs : (CuedOver(q) \/ IdleOver(q)) /\ unused = Items \ Rows(q)
  BY DEF Init
<1>2. q \in Seq(Items)
  BY RoomAssumption
<1>3. tl \in Timelines /\ tl.at <= 0 /\ tl.cuedAt <= 0 /\ QueueTypes
  <2>1. CASE CuedOver(q)
    <3>1. Head(q) \in Items /\ Tail(q) \in Seq(Items) /\ <<Head(q)>> \in Seq(Items)
      BY <1>2, <2>1 DEF CuedOver
    <3>2. ItemLength[Head(q)] \in Nat
      BY <3>1, RoomAssumption
    <3>3. Change(Idle(0), tl, 0)
      BY <2>1, <3>1, <3>2, IdleType, LoadChange DEF CuedOver
    <3>4. Idle(0).at = 0 /\ Idle(0).cuedAt = 0
      BY DEF Idle
    <3> QED
      BY <1>1, <2>1, <3>1, <3>3, <3>4 DEF CuedOver, QueueTypes, Change
  <2>2. CASE IdleOver(q)
    <3>1. Idle(0) \in Timelines /\ Idle(0).at = 0 /\ Idle(0).cuedAt = 0
      BY IdleType DEF Idle
    <3> QED
      BY <1>1, <1>2, <2>2, <3>1 DEF IdleOver, QueueTypes
  <2> QED
    BY <1>1, <2>1, <2>2
<1>4. Wire(tl) \in Timelines
  BY <1>3, WireType
<1>5. RoomTypes
  BY <1>3, <1>4 DEF Init, RoomTypes
<1>6. JobTypes
  BY NoJobType DEF Init, JobTypes
<1>7. ClientTypes
  BY <1>4 DEF Init, ClientTypes
<1> QED
  BY <1>3, <1>5, <1>6, <1>7 DEF TypeOK

\* Time, settings, what clients send and what reaches them.
LEMMA TypeOutside ==
  ASSUME TypeOK,
         \/ Tick \/ ToggleAutoAdvance
         \/ \E c \in Clients : Send(c) \/ Deliver(c) \/ DeliverReady(c) \/ GiveUp(c) \/ Leave(c)
  PROVE  TypeOK'
<1> USE DEF TypeOK
<1>1. CASE Tick
  <2>1. now' = now + 1 /\ now' \in Nat /\ UNCHANGED <<queueVars, clientVars, job>>
    BY <1>1 DEF Tick, RoomTypes
  <2>2. RoomTypes'
    BY <1>1, <2>1 DEF Tick, RoomTypes, Timelines
  <2>3. JobTypes'
    BY <2>1 DEF JobTypes, RoomTypes, Jobs
  <2> QED
    BY <2>1, <2>2, <2>3, QueueFrame, ClientFrame
<1>2. CASE ToggleAutoAdvance
  <2>1. RoomTypes' /\ ClientTypes'
    BY <1>2 DEF ToggleAutoAdvance, RoomTypes, ClientTypes
  <2> QED
    BY <1>2, <2>1, QueueFrame, JobFrame DEF ToggleAutoAdvance
<1>3. ASSUME NEW c \in Clients, Send(c)
      PROVE  TypeOK'
  <2>1. PICK command \in Commands :
          outbox' = [outbox EXCEPT ![c] = <<[command |-> command, seen |-> view[c]]>>]
    BY <1>3 DEF Send
  <2>2. view[c] \in Timelines
    BY DEF ClientTypes
  <2>3. <<[command |-> command, seen |-> view[c]]>> \in Seq(Orders)
    BY <2>2 DEF Orders
  <2>4. ClientTypes'
    BY <1>3, <2>1, <2>3 DEF Send, ClientTypes
  <2> QED
    BY <1>3, <2>4, RoomFrame, QueueFrame, JobFrame DEF Send
<1>4. ASSUME NEW c \in Clients, Deliver(c)
      PROVE  TypeOK'
  <2>1. Head(inbox[c]) \in Timelines /\ Tail(inbox[c]) \in Seq(Timelines)
    BY <1>4 DEF Deliver, ClientTypes
  <2>2. ClientTypes'
    BY <1>4, <2>1 DEF Deliver, ClientTypes
  <2> QED
    BY <1>4, <2>2, RoomFrame, QueueFrame, JobFrame DEF Deliver
<1>5. ASSUME NEW c \in Clients, DeliverReady(c)
      PROVE  TypeOK'
  <2>1. Head(welcome[c]) \in Timelines
    BY <1>5 DEF DeliverReady, ClientTypes
  <2>2. ClientTypes'
    BY <1>5, <2>1 DEF DeliverReady, ClientTypes
  <2> QED
    BY <1>5, <2>2, RoomFrame, QueueFrame, JobFrame DEF DeliverReady
<1>6. ASSUME NEW c \in Clients, Leave(c)
      PROVE  TypeOK'
  <2>1. ClientTypes'
    BY <1>6 DEF Leave, ClientTypes
  <2>2. RoomTypes'
    BY <1>6 DEF Leave, RoomTypes, BallotsWithout
  <2> QED
    BY <1>6, <2>1, <2>2, QueueFrame, JobFrame DEF Leave
<1>7. ASSUME NEW c \in Clients, GiveUp(c)
      PROVE  TypeOK'
  <2>1. ClientTypes'
    BY <1>7 DEF GiveUp, ClientTypes
  <2> QED
    BY <1>7, <2>1, RoomFrame, QueueFrame, JobFrame DEF GiveUp
<1> QED
  BY <1>1, <1>2, <1>3, <1>4, <1>5, <1>6, <1>7

LEMMA TypeJoin ==
  ASSUME TypeOK, NEW c \in Clients, Connect(c) \/ Join(c) \/ SnapshotFails(c)
  PROVE  TypeOK'
<1> USE DEF TypeOK
<1>1. c \in Actors /\ now \in Nat
  BY DEF Actors, RoomTypes
<1>2. CASE Connect(c)
  <2>1. ClientTypes'
    BY <1>2 DEF Connect, ClientTypes
  <2>2. RoomTypes'
    BY <1>2 DEF Connect, RoomTypes
  <2>3. JobTypes'
    BY <1>1, <1>2, BeginType DEF Connect, Places
  <2> QED
    BY <1>2, <2>1, <2>2, <2>3, QueueFrame DEF Connect
<1>3. CASE Snapshot(c)
  <2> DEFINE j == [job[c] EXCEPT !.at = "reply", !.copy = tl]
  <2>1. job[c] \in Jobs /\ job[c].clock <= now /\ tl \in Timelines
    BY <1>1 DEF JobTypes, RoomTypes
  <2>2. j \in Jobs /\ j.clock <= now
    BY <2>1 DEF Jobs, Places
  <2> HIDE DEF j
  <2>3. Become(c, j) /\ now' = now
    BY <1>3 DEF Snapshot, j
  <2>4. JobTypes'
    BY <1>1, <2>2, <2>3, BecomeType
  <2> QED
    BY <1>3, <2>4, RoomFrame, QueueFrame, ClientFrame DEF Snapshot
<1>4. CASE Reply(c)
  <2>1. job[c].copy \in Timelines
    BY <1>1 DEF JobTypes, Jobs
  <2>2. <<Wire(job[c].copy)>> \in Seq(Timelines)
    BY <2>1, WireType
  <2>3. ClientTypes'
    BY <1>4, <2>2 DEF Reply, ClientTypes
  <2>4. JobTypes'
    BY <1>1, <1>4, FinishType DEF Reply
  <2> QED
    BY <1>4, <2>3, <2>4, RoomFrame, QueueFrame DEF Reply
<1>5. CASE SnapshotFails(c)
  <2>1. RoomTypes' /\ ClientTypes'
    BY <1>5 DEF SnapshotFails, RoomTypes, ClientTypes
  <2>2. JobTypes'
    BY <1>1, <1>5, FinishType DEF SnapshotFails
  <2> QED
    BY <1>5, <2>1, <2>2, QueueFrame DEF SnapshotFails
<1> QED
  BY <1>2, <1>3, <1>4, <1>5 DEF Join

\* The handlers that start and end in one critical section or statement.
LEMMA TypeHandle ==
  ASSUME TypeOK, NEW c \in Clients, Handle(c)
  PROVE  TypeOK'
<1> USE DEF TypeOK
<1>1. c \in Actors /\ now \in Nat /\ tl \in Timelines
  BY DEF Actors, RoomTypes
<1>2. CASE SyncIntent(c)
  <2>1. Asked(c).value \in Nat
    BY <1>2, OrderType DEF SyncIntent, Takes
  <2>2. \/ tl' = Play(tl, now)
        \/ tl' = Pause(tl, now)
        \/ tl' = Seek(tl, now, Asked(c).value)
        \/ Asked(c).value \in Rates /\ tl' = SetRate(tl, now, Asked(c).value)
        \/ tl' = SetLoop(tl, Asked(c).value = 1)
        \/ tl' = Restart(tl, now)
    BY <1>2 DEF SyncIntent
  <2>3. (Asked(c).value = 1) \in BOOLEAN
    OBVIOUS
  <2>4. Change(tl, tl', now)
    BY <1>1, <2>1, <2>2, <2>3, PlayChange, PauseChange, SeekChange, SetRateChange,
       SetLoopChange, RestartChange
  <2>5. RoomTypes'
    BY <1>1, <1>2, <2>4, RoomChange DEF SyncIntent, RoomTypes
  <2>6. JobTypes' /\ ClientTypes'
    BY <1>1, <1>2, BeginType, TakesType DEF SyncIntent, Places
  <2> QED
    BY <1>2, <2>5, <2>6, QueueFrame DEF SyncIntent
<1>3. CASE ReportDuration(c)
  <2>1. Asked(c).value \in Nat
    BY <1>3, OrderType DEF ReportDuration, Takes
  <2>2. Change(tl, tl', now)
    BY <1>1, <1>3, <2>1, SetDurationChange DEF ReportDuration
  <2>3. RoomTypes'
    BY <1>1, <1>3, <2>2, RoomChange DEF ReportDuration, RoomTypes
  <2>4. JobTypes' /\ ClientTypes'
    BY <1>1, <1>3, BeginType, TakesType DEF ReportDuration, Places
  <2> QED
    BY <1>3, <2>3, <2>4, QueueFrame DEF ReportDuration
<1>4. CASE PlaybackReady(c)
  <2>1. Change(tl, tl', now)
    BY <1>1, <1>4, StartChange DEF PlaybackReady
  <2>2. RoomTypes'
    BY <1>1, <1>4, <2>1, RoomChange DEF PlaybackReady, RoomTypes
  <2>3. JobTypes' /\ ClientTypes'
    BY <1>1, <1>4, BeginType, TakesType DEF PlaybackReady, Places
  <2> QED
    BY <1>4, <2>2, <2>3, QueueFrame DEF PlaybackReady
<1>5. CASE SkipVote(c)
  <2>1. RoomTypes' /\ ClientTypes'
    BY <1>5, TakesType DEF SkipVote, RoomTypes
  <2>2. JobTypes'
    <3> DEFINE j == [NoJob EXCEPT !.at = "pop", !.about = tl.item]
    <3>1. tl.item \in Items \cup {NoItem}
      BY <1>1 DEF Timelines
    <3>2. j \in Jobs /\ j.clock = 0
      BY <3>1, NoJobType DEF Jobs, Places
    <3> HIDE DEF j
    <3>3. Become(c, j) \/ UNCHANGED job
      BY <1>5 DEF SkipVote, j
    <3>4. now' = now /\ j.clock <= now
      BY <1>1, <1>5, <3>2 DEF SkipVote
    <3> QED
      BY <1>1, <3>2, <3>3, <3>4, BecomeType, JobFrame
  <2> QED
    BY <1>5, <2>1, <2>2, QueueFrame DEF SkipVote
<1>6. CASE ChangeSource(c)
  <2>1. Asked(c).item \in Items
    BY <1>6, OrderType DEF ChangeSource, Takes
  <2>2. JobTypes'
    <3> DEFINE j == [NoJob EXCEPT !.at = "find", !.item = Asked(c).item]
    <3>1. j \in Jobs /\ j.clock = 0
      BY <2>1, NoJobType DEF Jobs, Places
    <3> HIDE DEF j
    <3>2. Begin(c, "pop") \/ Begin(c, "recall") \/ Become(c, j)
      BY <1>6 DEF ChangeSource, j
    <3>3. now' = now /\ j.clock <= now
      BY <1>1, <1>6, <3>1 DEF ChangeSource
    <3> QED
      BY <1>1, <3>1, <3>2, <3>3, BeginType, BecomeType DEF Places
  <2> QED
    BY <1>6, <2>2, RoomFrame, QueueFrame, TakesType DEF ChangeSource
<1>7. CASE QueueAdd(c)
  <2> DEFINE edge == IF pending = <<>> THEN NoItem ELSE Last(pending)
  <2>1. PICK item \in unused :
          /\ Become(c, [NoJob EXCEPT !.at = "append", !.item = item, !.edge = edge])
          /\ unused' = unused \ {item}
    BY <1>7 DEF QueueAdd
  <2>2. edge \in Items \cup {NoItem}
    BY EdgeType
  <2>3. JobTypes'
    <3> HIDE DEF edge
    <3> DEFINE j == [NoJob EXCEPT !.at = "append", !.item = item, !.edge = edge]
    <3>1. item \in Items
      BY DEF QueueTypes
    <3>2. j \in Jobs /\ j.clock = 0
      BY <2>2, <3>1, NoJobType DEF Jobs, Places
    <3>3. Become(c, j)
      BY <2>1
    <3> HIDE DEF j
    <3> QED
      BY <1>1, <1>7, <3>2, <3>3, BecomeType DEF QueueAdd
  <2>4. QueueTypes'
    BY <1>7, <2>1 DEF QueueAdd, QueueTypes
  <2> QED
    BY <1>7, <2>3, <2>4, RoomFrame, TakesType DEF QueueAdd
<1>8. CASE LockHead(c)
  <2> DEFINE head == {pending[k] : k \in {n \in 1..Len(pending) : n <= 2}}
  <2>1. PICK item \in unused :
          /\ Become(c, [NoJob EXCEPT !.at = "insert", !.item = item, !.rows = head])
          /\ unused' = unused \ {item}
    BY <1>8 DEF LockHead
  <2>2. head \subseteq Items
    BY DEF QueueTypes
  <2>3. JobTypes'
    <3> HIDE DEF head
    <3> DEFINE j == [NoJob EXCEPT !.at = "insert", !.item = item, !.rows = head]
    <3>1. item \in Items
      BY DEF QueueTypes
    <3>2. j \in Jobs /\ j.clock = 0
      BY <2>2, <3>1, NoJobType DEF Jobs, Places
    <3>3. Become(c, j)
      BY <2>1
    <3> HIDE DEF j
    <3> QED
      BY <1>1, <1>8, <3>2, <3>3, BecomeType DEF LockHead
  <2>4. QueueTypes'
    BY <1>8, <2>1 DEF LockHead, QueueTypes
  <2> QED
    BY <1>8, <2>3, <2>4, RoomFrame, TakesType DEF LockHead
<1>9. CASE RemoveRow(c)
  <2>1. QueueTypes'
    BY <1>9, DropType DEF RemoveRow, QueueTypes
  <2> QED
    BY <1>9, <2>1, RoomFrame, JobFrame, TakesType DEF RemoveRow
<1>10. CASE ClearPending(c)
  <2>1. QueueTypes'
    BY <1>10 DEF ClearPending, QueueTypes
  <2> QED
    BY <1>10, <2>1, RoomFrame, JobFrame, TakesType DEF ClearPending
<1>11. CASE LockQueue(c)
  <2> DEFINE j == [NoJob EXCEPT !.at = "reorder", !.rows = Rows(pending)]
  <2>1. Rows(pending) \subseteq Items
    BY RowsType DEF QueueTypes
  <2>2. j \in Jobs /\ j.clock = 0
    BY <2>1, NoJobType DEF Jobs, Places
  <2> HIDE DEF j
  <2>3. Become(c, j) /\ now' = now
    BY <1>11 DEF LockQueue, j
  <2>4. JobTypes'
    BY <1>1, <2>2, <2>3, BecomeType
  <2> QED
    BY <1>11, <2>4, RoomFrame, QueueFrame, TakesType DEF LockQueue
<1>12. CASE Refuse(c) \/ Throttled(c)
  <2>1. ClientTypes'
    BY <1>12, TakesType DEF Refuse, Throttled
  <2> QED
    BY <1>12, <2>1, RoomFrame, QueueFrame, JobFrame DEF Refuse, Throttled
<1> QED
  BY <1>2, <1>3, <1>4, <1>5, <1>6, <1>7, <1>8, <1>9, <1>10, <1>11, <1>12 DEF Handle

\* The statements of advance, of the queue handlers, and publish_timeline.
LEMMA TypeProceed ==
  ASSUME TypeOK, NEW a \in Actors, Proceed(a)
  PROVE  TypeOK'
<1> USE DEF TypeOK
<1>1. /\ now \in Nat /\ tl \in Timelines
      /\ pending \in Seq(Items) /\ history \in Seq(Items)
      /\ job[a].item \in Items \cup {NoItem} /\ job[a].copy \in Timelines
  BY DEF RoomTypes, QueueTypes, JobTypes, Jobs
<1>2. Statement => RoomTypes' /\ ClientTypes' /\ now' = now
  BY RoomFrame, ClientFrame DEF Statement
<1>3. CASE Pop(a)
  <2>1. CASE Free = {}
    <3>1. UNCHANGED queueVars /\ LoadNext(a, NoItem)
      BY <1>3, <2>1 DEF Pop
    <3> QED
      BY <1>2, <1>3, <3>1, QueueFrame, LoadNextType DEF Pop
  <2>2. CASE Free # {}
    <3>1. PICK k \in Free :
            /\ LoadNext(a, pending[k])
            /\ pending' = RemoveAt(pending, k)
            /\ history' = <<pending[k]>> \o history
            /\ UNCHANGED unused
      BY <1>3, <2>2 DEF Pop
    <3>2. k \in 1..Len(pending) /\ pending[k] \in Items
      BY <1>1 DEF Free
    <3>3. QueueTypes'
      BY <1>1, <3>1, <3>2, RemoveAtType, PrependType DEF QueueTypes
    <3>4. now' = now
      BY <1>2, <1>3 DEF Pop
    <3>5. JobTypes'
      BY <3>1, <3>2, <3>4, LoadNextType
    <3> QED
      BY <1>2, <1>3, <3>3, <3>5 DEF Pop
  <2> QED
    BY <2>1, <2>2
<1>4. CASE Find(a)
  <2>1. now' = now
    BY <1>2, <1>4 DEF Find
  <2>2. Goto(a, "mark") \/ LoadNext(a, NoItem)
    BY <1>4 DEF Find
  <2>3. JobTypes'
    BY <2>1, <2>2, GotoType, LoadNextType DEF Places
  <2> QED
    BY <1>2, <1>4, <2>3, QueueFrame DEF Find
<1>5. CASE MarkPlayed(a)
  <2>1. now' = now /\ Goto(a, "load")
    BY <1>2, <1>5 DEF MarkPlayed
  <2>2. JobTypes'
    BY <2>1, GotoType DEF Places
  <2>3. job[a].item \in Rows(pending) => job[a].item \in Items
    BY <1>1, RowsType
  <2>4. Drop(pending, job[a].item) \in Seq(Items)
    BY <1>1, DropType
  <2>5. job[a].item \in Items => <<job[a].item>> \o history \in Seq(Items)
    BY <1>1, PrependType
  <2>6. \/ UNCHANGED queueVars
        \/ /\ job[a].item \in Rows(pending)
           /\ pending' = Drop(pending, job[a].item)
           /\ history' = <<job[a].item>> \o history
           /\ UNCHANGED unused
    BY <1>5 DEF MarkPlayed, queueVars
  <2>7. QueueTypes'
    BY <2>3, <2>4, <2>5, <2>6, QueueFrame DEF QueueTypes
  <2> QED
    BY <1>2, <1>5, <2>2, <2>7 DEF MarkPlayed
<1>6. CASE Recall(a)
  <2>1. now' = now
    BY <1>2, <1>6 DEF Recall
  <2>2. CASE Len(history) >= 2
    <3>1. history[2] \in Items \cup {NoItem}
      BY <1>1, <2>2
    <3>2. Become(a, [job[a] EXCEPT !.at = "measure", !.item = history[2]])
      BY <1>6, <2>2 DEF Recall
    <3>3. "measure" \in Places
      BY DEF Places
    <3> QED
      BY <1>2, <1>6, <2>1, <3>1, <3>2, <3>3, HandOverType, QueueFrame DEF Recall
  <2>3. CASE ~(Len(history) >= 2)
    BY <1>2, <1>6, <2>1, <2>3, LoadNextType, QueueFrame DEF Recall
  <2> QED
    BY <2>2, <2>3
<1>7. CASE Requeue(a)
  <2> DEFINE j == [job[a] EXCEPT !.at = "pop", !.item = NoItem, !.edge = NoItem]
             rest == Drop(pending, job[a].item)
  <2>1. j \in Jobs /\ j.clock <= now
    BY DEF Jobs, JobTypes, Places
  <2>2. now' = now /\ Become(a, j)
    BY <1>2, <1>7 DEF Requeue
  <2>3. JobTypes'
    <3> HIDE DEF j
    <3> QED
      BY <2>1, <2>2, BecomeType
  <2>4. job[a].item \in Rows(pending) \cup Rows(history) => job[a].item \in Items
    BY <1>1, RowsType
  <2>5. Drop(pending, job[a].item) \in Seq(Items) /\ Drop(history, job[a].item) \in Seq(Items)
    BY <1>1, DropType
  <2> HIDE DEF rest
  <2>6. job[a].item \in Items
        => \A k \in Ahead(job[a].edge, rest) : InsertAt(rest, k + 1, job[a].item) \in Seq(Items)
    BY <2>5, InsertAtType DEF Ahead, rest
  <2>7. \/ UNCHANGED queueVars
        \/ /\ job[a].item \in Rows(pending) \cup Rows(history)
           /\ \E k \in Ahead(job[a].edge, rest) : pending' = InsertAt(rest, k + 1, job[a].item)
           /\ history' = Drop(history, job[a].item)
           /\ UNCHANGED unused
    BY <1>7 DEF Requeue, queueVars, rest
  <2>8. QueueTypes'
    BY <2>4, <2>5, <2>6, <2>7, QueueFrame DEF QueueTypes
  <2> QED
    BY <1>2, <1>7, <2>3, <2>8 DEF Requeue
<1>8. CASE LoadOrClear(a)
  <2>1. job[a].item # NoItem => job[a].item \in Items /\ ItemLength[job[a].item] \in Nat
    BY <1>1, RoomAssumption
  <2>2. Change(tl, tl', now)
    BY <1>1, <1>8, <2>1, LoadChange, ClearChange DEF LoadOrClear
  <2>3. RoomTypes'
    BY <1>1, <1>8, <2>2, RoomChange DEF LoadOrClear, RoomTypes, BallotsAfterLoad
  <2>4. JobTypes'
    BY <1>1, <1>8, BeginType DEF LoadOrClear, Places
  <2> QED
    BY <1>8, <2>3, <2>4, QueueFrame, ClientFrame DEF LoadOrClear
<1>9. CASE ReadTimeline(a)
  <2> DEFINE j == [job[a] EXCEPT !.at = "persist", !.copy = tl]
  <2>1. job[a] \in Jobs /\ job[a].clock <= now
    BY DEF JobTypes
  <2>2. j \in Jobs /\ j.clock <= now
    BY <1>1, <2>1 DEF Jobs, Places
  <2> HIDE DEF j
  <2>3. Become(a, j) /\ now' = now
    BY <1>9 DEF ReadTimeline, j
  <2>4. JobTypes'
    BY <2>2, <2>3, BecomeType
  <2> QED
    BY <1>9, <2>4, RoomFrame, QueueFrame, ClientFrame DEF ReadTimeline
<1>10. CASE Persist(a)
  <2>1. mirror' \in Timelines
    BY <1>1, <1>10, WireType DEF Persist
  <2>2. RoomTypes'
    BY <1>10, <2>1 DEF Persist, RoomTypes
  <2>3. JobTypes'
    BY <1>10, GotoType DEF Persist, Places
  <2> QED
    BY <1>10, <2>2, <2>3, QueueFrame, ClientFrame DEF Persist
<1>11. CASE Broadcast(a)
  <2>1. Wire(job[a].copy) \in Timelines
    BY <1>1, WireType
  <2>2. PICK full \in SUBSET Clients, heard \in SUBSET Clients :
          /\ inbox' = [c \in Clients |->
                         IF c \in full \/ c \notin heard THEN <<>>
                         ELSE Append(inbox[c], Wire(job[a].copy))]
          /\ link' = [c \in Clients |-> IF c \notin full THEN link[c]
                                        ELSE IF link[c] = "up" THEN "lagged" ELSE "down"]
    BY <1>11 DEF Broadcast
  <2>3. ClientTypes'
    BY <1>11, <2>1, <2>2 DEF Broadcast, ClientTypes
  <2>4. JobTypes'
    BY <1>1, <1>11, FinishType DEF Broadcast
  <2> QED
    BY <1>11, <2>3, <2>4, RoomFrame, QueueFrame DEF Broadcast
<1>12. CASE InsertNext(a)
  <2>1. job[a].item \in Items
    BY <1>12 DEF InsertNext, JobAt, JobTypes, Jobs
  <2>2. pending' \in Seq(Items)
    <3>1. PICK held \in SUBSET (1..Len(pending)) :
            \/ held = {} /\ pending' = Append(pending, job[a].item)
            \/ \E k \in held :
                 /\ \A j \in held : k <= j
                 /\ pending' = InsertAt(pending, k + 1, job[a].item)
      BY <1>12 DEF InsertNext
    <3>2. CASE pending' = Append(pending, job[a].item)
      BY <1>1, <2>1, <3>2
    <3>3. CASE \E k \in held : pending' = InsertAt(pending, k + 1, job[a].item)
      BY <1>1, <2>1, <3>3, InsertAtType
    <3> QED
      BY <3>1, <3>2, <3>3
  <2>4. QueueTypes'
    BY <1>12, <2>2 DEF InsertNext, QueueTypes
  <2>3. JobTypes'
    BY <1>1, <1>2, <1>12, BeginType DEF InsertNext, Places
  <2> QED
    BY <1>2, <1>12, <2>3, <2>4 DEF InsertNext
<1>13. CASE StartIfIdle(a)
  <2>1. now' = now /\ (Goto(a, "pop") \/ Finish(a))
    BY <1>2, <1>13 DEF StartIfIdle
  <2>2. JobTypes'
    BY <1>1, <2>1, GotoType, FinishType DEF Places
  <2> QED
    BY <1>2, <1>13, <2>2, QueueFrame DEF StartIfIdle
<1>14. CASE Reorder(a)
  <2>1. pending' \in [1..Len(pending) -> Rows(pending)]
    BY <1>14 DEF Reorder
  <2>2. pending' \in Seq(Items)
    BY <1>1, <2>1, RowsType
  <2>3. QueueTypes'
    BY <1>14, <2>2 DEF Reorder, QueueTypes
  <2>4. JobTypes'
    BY <1>1, <1>2, <1>14, FinishType DEF Reorder
  <2> QED
    BY <1>2, <1>14, <2>3, <2>4 DEF Reorder
<1>15. CASE MeasureHead(a)
  <2> DEFINE edge == IF pending = <<>> THEN NoItem ELSE Head(pending)
             j == [job[a] EXCEPT !.at = "requeue", !.edge = edge]
  <2>1. edge \in Items \cup {NoItem}
    BY EdgeType
  <2> HIDE DEF edge
  <2>2. j \in Jobs /\ j.clock <= now
    BY <2>1 DEF Jobs, JobTypes, Places
  <2>3. Become(a, j)
    BY <1>15 DEF MeasureHead, edge
  <2> HIDE DEF j
  <2>4. JobTypes'
    BY <1>2, <1>15, <2>2, <2>3, BecomeType DEF MeasureHead
  <2> QED
    BY <1>2, <1>15, <2>4, QueueFrame DEF MeasureHead
<1>16. CASE AppendRow(a)
  <2>1. job[a].item \in Items
    BY <1>16 DEF AppendRow, JobAt, JobTypes, Jobs
  <2>2. PICK k \in 0..Len(pending) : pending' = InsertAt(pending, k + 1, job[a].item)
    BY <1>16 DEF AppendRow, Behind
  <2>3. QueueTypes'
    BY <1>1, <1>16, <2>1, <2>2, InsertAtType DEF AppendRow, QueueTypes
  <2>4. JobTypes'
    BY <1>1, <1>2, <1>16, BeginType DEF AppendRow, Places
  <2> QED
    BY <1>2, <1>16, <2>3, <2>4 DEF AppendRow
<1> QED
  BY <1>3, <1>4, <1>5, <1>6, <1>7, <1>8, <1>9, <1>10, <1>11, <1>12, <1>13, <1>14, <1>15, <1>16
     DEF Proceed

LEMMA TypeSweep ==
  ASSUME TypeOK, Sweep
  PROVE  TypeOK'
<1> USE DEF TypeOK
<1> DEFINE n == job[Sweeper].clock
<1>1. /\ now \in Nat /\ tl \in Timelines /\ Sweeper \in Actors
      /\ job[Sweeper] \in Jobs /\ n \in Nat /\ n <= now
  BY DEF RoomTypes, JobTypes, Jobs, Actors
<1>2. CASE SweepBegin
  <2> DEFINE j == [NoJob EXCEPT !.at = "overdue", !.clock = now]
  <2>1. j \in Jobs /\ j.clock = now
    <3>1. "overdue" \in Places /\ NoJob \in Jobs /\ now \in Nat
      BY <1>1, NoJobType DEF Places
    <3> QED
      BY <3>1 DEF Jobs
  <2> HIDE DEF j
  <2>2. Become(Sweeper, j) /\ now' = now /\ j.clock <= now
    <3>1. Become(Sweeper, j) /\ now' = now
      BY <1>2 DEF SweepBegin, j
    <3> QED
      BY <3>1, <1>1, <2>1
  <2>3. JobTypes'
    BY <1>1, <2>1, <2>2, BecomeType
  <2> QED
    BY <1>2, <2>3, RoomFrame, QueueFrame, ClientFrame DEF SweepBegin
<1>3. CASE SweepOverdue
  <2>1. \/ tl' = StartPlayback(tl, n) /\ Begin(Sweeper, "read")
        \/ tl' = tl /\ Goto(Sweeper, "ended")
    BY <1>3 DEF SweepOverdue
  <2>2. Change(tl, tl', n)
    BY <1>1, <2>1, StartChange DEF Change
  <2>3. RoomTypes'
    BY <1>1, <1>3, <2>2, RoomChange DEF SweepOverdue, RoomTypes
  <2>4. JobTypes'
    BY <1>1, <1>3, <2>1, BeginType, GotoType DEF SweepOverdue, Places
  <2> QED
    BY <1>3, <2>3, <2>4, QueueFrame, ClientFrame DEF SweepOverdue
<1>4. CASE SweepEnded
  <2>1. PICK place \in {"restart", "pop", "pause"} :
          \/ Finish(Sweeper)
          \/ Become(Sweeper, [job[Sweeper] EXCEPT !.at = place, !.about = tl.item])
    BY <1>4 DEF SweepEnded
  <2> DEFINE j == [job[Sweeper] EXCEPT !.at = place, !.about = tl.item]
  <2>2. place \in Places /\ tl.item \in Items \cup {NoItem}
    BY <1>1 DEF Places, Timelines
  <2>3. j \in Jobs /\ j.clock <= now
    BY <1>1, <2>2 DEF Jobs
  <2>4. Finish(Sweeper) \/ Become(Sweeper, j)
    BY <2>1
  <2> HIDE DEF j
  <2>5. JobTypes'
    BY <1>1, <1>4, <2>3, <2>4, FinishType, BecomeType DEF SweepEnded
  <2> QED
    BY <1>4, <2>5, RoomFrame, QueueFrame, ClientFrame DEF SweepEnded
<1>5. CASE SweepRestart
  <2>1. Change(tl, tl', n)
    BY <1>1, <1>5, RestartChange DEF SweepRestart
  <2>2. RoomTypes'
    BY <1>1, <1>5, <2>1, RoomChange DEF SweepRestart, RoomTypes
  <2>3. JobTypes'
    BY <1>1, <1>5, BeginType DEF SweepRestart, Places
  <2> QED
    BY <1>5, <2>2, <2>3, QueueFrame, ClientFrame DEF SweepRestart
<1>6. CASE SweepPause
  <2>1. Change(tl, tl', n)
    BY <1>1, <1>6, PauseChange DEF SweepPause
  <2>2. RoomTypes'
    BY <1>1, <1>6, <2>1, RoomChange DEF SweepPause, RoomTypes
  <2>3. JobTypes'
    BY <1>1, <1>6, BeginType DEF SweepPause, Places
  <2> QED
    BY <1>6, <2>2, <2>3, QueueFrame, ClientFrame DEF SweepPause
<1> QED
  BY <1>2, <1>3, <1>4, <1>5, <1>6 DEF Sweep

LEMMA TypeFailure ==
  ASSUME TypeOK, NEW a \in Actors, StatementFails(a) \/ MirrorFails(a)
  PROVE  TypeOK'
<1> USE DEF TypeOK
<1>1. RoomTypes'
  BY DEF StatementFails, MirrorFails, RoomTypes
<1>2. now \in Nat /\ now' = now /\ (Finish(a) \/ Goto(a, "send"))
  BY DEF StatementFails, MirrorFails, RoomTypes
<1>3. JobTypes'
  BY <1>2, FinishType, GotoType DEF Places
<1> QED
  BY <1>1, <1>3, QueueFrame, ClientFrame DEF StatementFails, MirrorFails

------------------------------------------------------------------------------
(* The two together.                                                        *)

LEMMA TypeStep ==
  ASSUME TypeOK, [Next]_vars
  PROVE  TypeOK'
<1>1. CASE UNCHANGED vars
  BY <1>1, RoomFrame, QueueFrame, JobFrame, ClientFrame DEF vars, queueVars, clientVars, TypeOK
<1> QED
  BY <1>1, TypeOutside, TypeJoin, TypeHandle, TypeProceed, TypeSweep, TypeFailure DEF Next

\* Every variable has its type in every reachable state, and no anchor, cue
\* or sweep reading is ever ahead of the server's clock, whichever handlers
\* and sweeps interleave (timeline.rs, session.rs, autoadvance.rs).
THEOREM TypeCorrect == Spec => []TypeOK
<1>1. Init => TypeOK
  BY TypeInit
<1>2. TypeOK /\ [Next]_vars => TypeOK'
  BY TypeStep
<1> QED
  BY <1>1, <1>2, PTL DEF Spec

------------------------------------------------------------------------------
(* The timeline.                                                            *)

\* One step applies at most one method of the timeline, at a clock reading
\* that is not ahead of the server's.
LEMMA TimelineStep ==
  ASSUME TypeOK, [Next]_vars
  PROVE  \E n \in Nat : n <= now /\ Change(tl, tl', n)
<1>1. now \in Nat /\ tl \in Timelines
  BY DEF TypeOK, RoomTypes
<1>2. ASSUME tl' = tl
      PROVE  \E n \in Nat : n <= now /\ Change(tl, tl', n)
  <2>1. Change(tl, tl', now)
    BY <1>1, <1>2 DEF Change
  <2> QED
    BY <1>1, <2>1
<1>3. ASSUME NEW c \in Clients, SyncIntent(c)
      PROVE  Change(tl, tl', now)
  <2>1. Asked(c).value \in Nat
    BY <1>3, OrderType DEF SyncIntent, Takes, TypeOK
  <2>2. (Asked(c).value = 1) \in BOOLEAN
    OBVIOUS
  <2>3. \/ tl' = Play(tl, now)
        \/ tl' = Pause(tl, now)
        \/ tl' = Seek(tl, now, Asked(c).value)
        \/ Asked(c).value \in Rates /\ tl' = SetRate(tl, now, Asked(c).value)
        \/ tl' = SetLoop(tl, Asked(c).value = 1)
        \/ tl' = Restart(tl, now)
    BY <1>3 DEF SyncIntent
  <2> QED
    BY <1>1, <2>1, <2>2, <2>3, PlayChange, PauseChange, SeekChange, SetRateChange,
       SetLoopChange, RestartChange
<1>4. ASSUME NEW c \in Clients, ReportDuration(c)
      PROVE  Change(tl, tl', now)
  <2>1. Asked(c).value \in Nat
    BY <1>4, OrderType DEF ReportDuration, Takes, TypeOK
  <2> QED
    BY <1>1, <1>4, <2>1, SetDurationChange DEF ReportDuration
<1>5. ASSUME NEW c \in Clients, PlaybackReady(c)
      PROVE  Change(tl, tl', now)
  BY <1>1, <1>5, StartChange DEF PlaybackReady
<1>6. ASSUME NEW a \in Actors, LoadOrClear(a)
      PROVE  Change(tl, tl', now)
  <2>1. job[a].item \in Items \cup {NoItem}
    BY DEF TypeOK, JobTypes, Jobs
  <2>2. job[a].item # NoItem => job[a].item \in Items /\ ItemLength[job[a].item] \in Nat
    BY <2>1, RoomAssumption
  <2> QED
    BY <1>1, <1>6, <2>2, LoadChange, ClearChange DEF LoadOrClear
<1>7. CASE Sweep
  <2> DEFINE n == job[Sweeper].clock
  <2>1. n \in Nat /\ n <= now
    BY DEF TypeOK, JobTypes, Jobs, Actors
  <2>2. \/ tl' = tl
        \/ tl' = StartPlayback(tl, n)
        \/ tl' = Restart(tl, n)
        \/ tl' = Pause(tl, n)
    BY <1>7 DEF Sweep, SweepBegin, SweepOverdue, SweepEnded, SweepRestart, SweepPause
  <2>3. tl' = tl \/ Change(tl, tl', n)
    BY <1>1, <2>1, <2>2, StartChange, RestartChange, PauseChange
  <2> QED
    BY <1>2, <2>1, <2>3
<1>8. CASE \E a \in Actors : (Proceed(a) /\ ~LoadOrClear(a)) \/ StatementFails(a) \/ MirrorFails(a)
  BY <1>2, <1>8 DEF Proceed, Pop, Find, MarkPlayed, Recall, MeasureHead, Requeue, Statement,
     ReadTimeline, Persist, Broadcast, AppendRow, InsertNext, StartIfIdle, Reorder,
     StatementFails, MirrorFails
<1>9. CASE \E c \in Clients : /\ Handle(c)
                              /\ ~SyncIntent(c) /\ ~ReportDuration(c) /\ ~PlaybackReady(c)
  BY <1>2, <1>9 DEF Handle, ChangeSource, SkipVote, QueueAdd, LockHead, RemoveRow,
     ClearPending, LockQueue, Refuse, Throttled
<1>10. CASE \/ Tick \/ ToggleAutoAdvance
            \/ \E c \in Clients : \/ Send(c) \/ Deliver(c) \/ DeliverReady(c)
                                  \/ Connect(c) \/ Join(c) \/ SnapshotFails(c)
                                  \/ GiveUp(c) \/ Leave(c)
  BY <1>2, <1>10 DEF Tick, ToggleAutoAdvance, Send, Deliver, DeliverReady, Connect,
     Join, Snapshot, Reply, SnapshotFails, GiveUp, Leave
<1>11. CASE UNCHANGED vars
  BY <1>2, <1>11 DEF vars
<1> QED
  BY <1>1, <1>3, <1>4, <1>5, <1>6, <1>7, <1>8, <1>9, <1>10, <1>11 DEF Next

LEMMA HeldStep ==
  ASSUME TypeOK, HeldIsParked, [Next]_vars
  PROVE  HeldIsParked'
<1>1. PICK n \in Nat : Change(tl, tl', n)
  BY TimelineStep
<1>2. Held(tl)
  BY DEF HeldIsParked, Held
<1>3. Held(tl')
  BY <1>1, <1>2 DEF Change
<1> QED
  BY <1>3 DEF HeldIsParked, Held, IsLoaded

\* A cued video is parked at its first frame for as long as it is held, in
\* whatever order handlers, ready reports and sweeps reach the timeline
\* (timeline.rs load and start_playback, autoadvance.rs sweep).
THEOREM HeldParked == Spec => []HeldIsParked
<1>1. Init => HeldIsParked
  <2> SUFFICES ASSUME Init PROVE HeldIsParked
    OBVIOUS
  <2>1. PICK q \in Backlogs : CuedOver(q) \/ IdleOver(q)
    BY DEF Init
  <2>2. CASE CuedOver(q)
    <3>1. Head(q) \in Items /\ ItemLength[Head(q)] \in Nat
      BY <2>2, RoomAssumption DEF CuedOver
    <3>2. Held(tl)
      BY <2>2, <3>1, IdleType, LoadChange DEF CuedOver
    <3> QED
      BY <3>2 DEF Held, HeldIsParked
  <2>3. CASE IdleOver(q)
    BY <2>3 DEF IdleOver, Idle, HeldIsParked
  <2> QED
    BY <2>1, <2>2, <2>3
<1>2. TypeOK /\ HeldIsParked /\ [Next]_vars => HeldIsParked'
  BY HeldStep
<1> QED
  BY <1>1, <1>2, TypeCorrect, PTL DEF Spec

------------------------------------------------------------------------------
(* The ballots.                                                             *)

\* Only advance puts up or takes down a video, and it empties the ballot box
\* in the same critical section.
LEMMA ItemStep ==
  ASSUME TypeOK, [Next]_vars
  PROVE  tl'.item = tl.item \/ votes' = {}
<1>1. now \in Nat /\ tl \in Timelines
  BY DEF TypeOK, RoomTypes
<1>2. ASSUME NEW c \in Clients, SyncIntent(c)
      PROVE  tl'.item = tl.item
  <2>1. \/ tl' = Play(tl, now)
        \/ tl' = Pause(tl, now)
        \/ tl' = Seek(tl, now, Asked(c).value)
        \/ tl' = SetRate(tl, now, Asked(c).value)
        \/ tl' = SetLoop(tl, Asked(c).value = 1)
        \/ tl' = Restart(tl, now)
    BY <1>2 DEF SyncIntent
  <2> QED
    BY <1>1, <2>1, SameItem
<1>3. ASSUME NEW c \in Clients, ReportDuration(c)
      PROVE  tl'.item = tl.item
  BY <1>1, <1>3, SameItem DEF ReportDuration
<1>4. ASSUME NEW c \in Clients, PlaybackReady(c)
      PROVE  tl'.item = tl.item
  BY <1>1, <1>4, SameItem DEF PlaybackReady
<1>5. ASSUME NEW a \in Actors, LoadOrClear(a)
      PROVE  votes' = {}
  BY <1>5 DEF LoadOrClear, BallotsAfterLoad
<1>6. CASE Sweep
  <2> DEFINE n == job[Sweeper].clock
  <2>1. n \in Nat
    BY DEF TypeOK, JobTypes, Jobs, Actors
  <2>2. \/ tl' = tl
        \/ tl' = StartPlayback(tl, n)
        \/ tl' = Restart(tl, n)
        \/ tl' = Pause(tl, n)
    BY <1>6 DEF Sweep, SweepBegin, SweepOverdue, SweepEnded, SweepRestart, SweepPause
  <2> QED
    BY <1>1, <2>1, <2>2, SameItem
<1>7. CASE \E a \in Actors : (Proceed(a) /\ ~LoadOrClear(a)) \/ StatementFails(a) \/ MirrorFails(a)
  BY <1>7 DEF Proceed, Pop, Find, MarkPlayed, Recall, MeasureHead, Requeue, Statement,
     ReadTimeline, Persist, Broadcast, AppendRow, InsertNext, StartIfIdle, Reorder,
     StatementFails, MirrorFails
<1>8. CASE \E c \in Clients : /\ Handle(c)
                              /\ ~SyncIntent(c) /\ ~ReportDuration(c) /\ ~PlaybackReady(c)
  BY <1>8 DEF Handle, ChangeSource, SkipVote, QueueAdd, LockHead, RemoveRow,
     ClearPending, LockQueue, Refuse, Throttled
<1>9. CASE \/ Tick \/ ToggleAutoAdvance
           \/ \E c \in Clients : \/ Send(c) \/ Deliver(c) \/ DeliverReady(c)
                                 \/ Connect(c) \/ Join(c) \/ SnapshotFails(c)
                                 \/ GiveUp(c) \/ Leave(c)
  BY <1>9 DEF Tick, ToggleAutoAdvance, Send, Deliver, DeliverReady, Connect,
     Join, Snapshot, Reply, SnapshotFails, GiveUp, Leave
<1>10. CASE UNCHANGED vars
  BY <1>10 DEF vars
<1> QED
  BY <1>2, <1>3, <1>4, <1>5, <1>6, <1>7, <1>8, <1>9, <1>10 DEF Next

\* Whoever has a message on its way has a session.
SendersArePresent == \A c \in Clients : outbox[c] # <<>> => link[c] \in {"up", "lagged"}

\* Whoever has a session is a participant.
OpenIsPresent == \A c \in Clients : link[c] \in {"up", "lagged"} => c \in present

LEMMA PresenceStep ==
  ASSUME TypeOK, SendersArePresent, OpenIsPresent, [Next]_vars
  PROVE  (SendersArePresent /\ OpenIsPresent)'
<1> USE DEF SendersArePresent, OpenIsPresent
<1>1. /\ link \in [Clients -> {"up", "lagged", "deaf", "down"}]
      /\ outbox \in [Clients -> Seq(Orders)]
  BY DEF TypeOK, ClientTypes
<1>2. ASSUME UNCHANGED <<connections, link, outbox>>
      PROVE  (SendersArePresent /\ OpenIsPresent)'
  BY <1>2 DEF present
<1>3. ASSUME NEW c \in Clients, NEW names, Takes(c, names), UNCHANGED <<connections, link>>
      PROVE  (SendersArePresent /\ OpenIsPresent)'
  BY <1>1, <1>3 DEF Takes, present
<1>4. ASSUME NEW a \in Actors, Proceed(a) \/ StatementFails(a) \/ MirrorFails(a)
      PROVE  (SendersArePresent /\ OpenIsPresent)'
  <2>1. CASE Broadcast(a)
    <3>1. UNCHANGED <<connections, outbox>>
      BY <2>1 DEF Broadcast
    <3>2. \A c \in Clients : \/ link'[c] = link[c]
                             \/ link[c] = "up" /\ link'[c] = "lagged"
                             \/ link[c] = "deaf" /\ link'[c] = "down"
      BY <2>1 DEF Broadcast
    <3>3. present' = present
      BY <3>1 DEF present
    <3> QED
      BY <1>1, <3>1, <3>2, <3>3
  <2>2. CASE ~Broadcast(a)
    BY <1>2, <1>4, <2>2 DEF Proceed, Pop, Find, MarkPlayed, Recall, MeasureHead, Requeue, Statement,
       LoadOrClear, ReadTimeline, Persist, AppendRow, InsertNext, StartIfIdle, Reorder,
       StatementFails, MirrorFails, clientVars
  <2> QED
    BY <2>1, <2>2
<1>5. ASSUME NEW c \in Clients, Handle(c)
      PROVE  (SendersArePresent /\ OpenIsPresent)'
  <2>1. UNCHANGED <<connections, link>> /\ \E names : Takes(c, names)
    BY <1>5 DEF Handle, SyncIntent, ReportDuration, PlaybackReady, ChangeSource, SkipVote,
       QueueAdd, LockHead, RemoveRow, ClearPending, LockQueue, Refuse, Throttled
  <2> QED
    BY <1>3, <2>1
<1>6. ASSUME NEW c \in Clients, Send(c)
      PROVE  (SendersArePresent /\ OpenIsPresent)'
  BY <1>1, <1>6 DEF Send, present
<1>7. ASSUME NEW c \in Clients, Connect(c) \/ Leave(c) \/ SnapshotFails(c) \/ GiveUp(c)
      PROVE  (SendersArePresent /\ OpenIsPresent)'
  <2>1. connections[c] \in Nat /\ connections \in [Clients -> Nat]
    BY DEF TypeOK, RoomTypes
  <2>2. CASE Connect(c)
    <3>1. present' = present \cup {c}
      BY <2>1, <2>2 DEF Connect, present
    <3>2. outbox' = outbox /\ link' = [link EXCEPT ![c] = "up"]
      BY <2>2 DEF Connect
    <3> QED
      BY <1>1, <3>1, <3>2
  <2>3. CASE Leave(c)
    <3>1. present \ {c} \subseteq present'
      BY <2>1, <2>3 DEF Leave, present
    <3>2. link' = [link EXCEPT ![c] = "down"] /\ outbox' = [outbox EXCEPT ![c] = <<>>]
      BY <2>3 DEF Leave
    <3> QED
      BY <1>1, <3>1, <3>2
  <2>4. CASE SnapshotFails(c)
    <3>1. present' = present
      BY <2>4 DEF SnapshotFails, present
    <3>2. /\ outbox' = [outbox EXCEPT ![c] = <<>>]
          /\ \A d \in Clients \ {c} : link'[d] = link[d]
          /\ link'[c] \in {"deaf", "down"}
      BY <1>1, <2>4 DEF SnapshotFails
    <3> QED
      BY <1>1, <3>1, <3>2
  <2>5. CASE GiveUp(c)
    <3>1. present' = present
      BY <2>5 DEF GiveUp, present
    <3> QED
      BY <1>1, <2>5, <3>1 DEF GiveUp
  <2> QED
    BY <1>7, <2>2, <2>3, <2>4, <2>5
<1>8. CASE \/ Tick \/ ToggleAutoAdvance \/ Sweep
           \/ \E c \in Clients : Deliver(c) \/ DeliverReady(c) \/ Join(c)
  BY <1>1, <1>2, <1>8 DEF Tick, ToggleAutoAdvance, Sweep, SweepBegin, SweepOverdue, SweepEnded,
     SweepRestart, SweepPause, Deliver, DeliverReady, Join, Snapshot, Reply, clientVars
<1>9. CASE UNCHANGED vars
  BY <1>2, <1>9 DEF vars, clientVars
<1> QED
  BY <1>4, <1>5, <1>6, <1>7, <1>8, <1>9 DEF Next

LEMMA VotesStep ==
  ASSUME TypeOK, VotesAreLive, SendersArePresent, OpenIsPresent, [Next]_vars
  PROVE  VotesAreLive'
<1> USE DEF VotesAreLive
<1>1. ASSUME UNCHANGED <<votes, connections>>
      PROVE  VotesAreLive'
  BY <1>1, ItemStep DEF IsLoaded, present
<1>2. ASSUME NEW c \in Clients, SkipVote(c)
      PROVE  VotesAreLive'
  <2>1. c \in present
    BY <1>2 DEF SkipVote, Takes, SendersArePresent, OpenIsPresent
  <2> QED
    BY <1>2, <2>1 DEF SkipVote, present
<1>3. ASSUME NEW a \in Actors, LoadOrClear(a)
      PROVE  VotesAreLive'
  BY <1>3 DEF LoadOrClear, BallotsAfterLoad
<1>4. ASSUME NEW c \in Clients, Connect(c) \/ SnapshotFails(c) \/ GiveUp(c) \/ Leave(c)
      PROVE  VotesAreLive'
  <2>1. connections \in [Clients -> Nat] /\ votes \subseteq Clients
    BY DEF TypeOK, RoomTypes
  <2>2. CASE Connect(c) \/ SnapshotFails(c) \/ GiveUp(c)
    BY <2>1, <2>2 DEF Connect, SnapshotFails, GiveUp, present
  <2>3. CASE Leave(c)
    <3>1. votes' = IF connections[c] > 1 THEN votes ELSE votes \ {c}
      BY <2>3 DEF Leave, BallotsWithout
    <3>2. connections' = [connections EXCEPT ![c] = IF @ = 0 THEN 0 ELSE @ - 1] /\ tl' = tl
      BY <2>3 DEF Leave
    <3> QED
      BY <2>1, <3>1, <3>2 DEF present
  <2> QED
    BY <1>4, <2>2, <2>3
<1>5. CASE \E a \in Actors : (Proceed(a) /\ ~LoadOrClear(a)) \/ StatementFails(a) \/ MirrorFails(a)
  BY <1>1, <1>5 DEF Proceed, Pop, Find, MarkPlayed, Recall, MeasureHead, Requeue, Statement,
     ReadTimeline, Persist, Broadcast, AppendRow, InsertNext, StartIfIdle, Reorder,
     StatementFails, MirrorFails
<1>6. CASE \E c \in Clients : Handle(c) /\ ~SkipVote(c)
  BY <1>1, <1>6 DEF Handle, SyncIntent, ReportDuration, PlaybackReady, ChangeSource,
     QueueAdd, LockHead, RemoveRow, ClearPending, LockQueue, Refuse, Throttled
<1>7. CASE \/ Tick \/ ToggleAutoAdvance \/ Sweep
           \/ \E c \in Clients : \/ Send(c) \/ Deliver(c) \/ DeliverReady(c) \/ Join(c)
  BY <1>1, <1>7 DEF Tick, ToggleAutoAdvance, Sweep, SweepBegin, SweepOverdue, SweepEnded,
     SweepRestart, SweepPause, Send, Deliver, DeliverReady, Join, Snapshot, Reply
<1>8. CASE UNCHANGED vars
  BY <1>1, <1>8 DEF vars
<1> QED
  BY <1>2, <1>3, <1>4, <1>5, <1>6, <1>7, <1>8 DEF Next

\* Every ballot is that of someone the room counts, against something loaded,
\* so the share of the room that votes_needed asks for is reached by ballots of
\* the people it is a share of (room.rs detach, session.rs handle_skip_vote).
THEOREM VotesLive == Spec => []VotesAreLive
<1> DEFINE Inv == VotesAreLive /\ SendersArePresent /\ OpenIsPresent
<1>1. Init => Inv
  BY DEF Init, VotesAreLive, SendersArePresent, OpenIsPresent, present
<1>2. TypeOK /\ Inv /\ [Next]_vars => Inv'
  BY VotesStep, PresenceStep
<1>3. Inv => VotesAreLive
  OBVIOUS
<1> QED
  BY <1>1, <1>2, <1>3, TypeCorrect, PTL DEF Spec
=============================================================================
