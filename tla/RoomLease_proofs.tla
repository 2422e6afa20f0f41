---------------------------- MODULE RoomLease_proofs ----------------------------
(***************************************************************************)
(* Two nodes never both own a room without cause, the people a room object  *)
(* lists are those whose socket is in it, and the copy in Redis is not      *)
(* behind what people were told: for any number of nodes, visitors and      *)
(* bounds.                                                                  *)
(***************************************************************************)
EXTENDS RoomLease, TLAPS

(* A task that may touch the room object has one.                           *)
Housed == \A t \in Tasks :
  task[t].pc \in Joined \cup {"joining", "restoring", "restored"}
    \/ task[t].for \in {"room", "intent"} => task[t].room # 0

(* A task past its first step has a node; so have all tasks of a node.      *)
Placed == \A t \in Tasks : Node(t) \in Nodes \/ (t \in Visitors /\ At(t, "rest"))

(* What a node believes, or is about to, Redis says, or it is in doubt.     *)
Believed == /\ \A n \in owned : n \in doubt \/ key = n
            /\ \A t \in Tasks : At(t, "won") => Node(t) \in doubt \/ key = Node(t)

LeaseInv == Typed /\ Housed /\ Placed /\ Believed

LEMMA StageNames ==
  {"rest", "reading", "set", "held", "won", "lost", "error", "restoring", "restored",
   "joining", "in", "leaving", "removing", "releasing", "drained", "authority", "acting",
   "forwarding", "publishing", "persisting", "announcing"} \subseteq Stages
  BY DEF Stages

LEMMA TaskNames == /\ \A v \in Visitors : v \in Tasks
                   /\ \A n \in Nodes : \A k \in {"renew", "relay", "drain"} :
                        <<k, n>> \in Tasks /\ <<k, n>> \notin Visitors
  BY LeaseConstants DEF Tasks, Kinds

(* The two ways tasks are updated: a stage alone, and a stage with whatever  *)
(* else the step settles.                                                   *)
LEMMA StageSet ==
  ASSUME TasksTyped, NEW t \in Tasks, NEW p \in Stages,
         task' = [task EXCEPT ![t].pc = p]
  PROVE  TasksTyped'
  BY DEF TasksTyped, TaskType

LEMMA ForSet ==
  ASSUME TasksTyped, NEW t \in Tasks, NEW p \in Stages,
         NEW f \in {"none", "room", "intent", "renew"},
         task' = [task EXCEPT ![t].pc = p, ![t].for = f]
  PROVE  TasksTyped'
  BY DEF TasksTyped, TaskType

LEMMA ValueSet ==
  ASSUME TasksTyped, NEW t \in Tasks, NEW p \in Stages, NEW x \in Versions,
         task' = [task EXCEPT ![t].pc = p, ![t].v = x]
  PROVE  TasksTyped'
  BY DEF TasksTyped, TaskType

LEMMA RoomSet ==
  ASSUME TasksTyped, NEW t \in Tasks, NEW p \in Stages, NEW r \in 0 .. MaxVisits,
         task' = [task EXCEPT ![t].pc = p, ![t].room = r]
  PROVE  TasksTyped'
  BY DEF TasksTyped, TaskType

LEMMA Reset ==
  ASSUME TasksTyped, NEW t \in Tasks, task' = [task EXCEPT ![t] = Rest]
  PROVE  TasksTyped'
  <1>1. Rest \in TaskType
    BY LeaseConstants DEF Rest, TaskType, Stages, NoTimeline, Versions
  <1> QED
    BY <1>1 DEF TasksTyped

(* Every step leaves the tasks well typed. *)
LEMMA TasksStep == ASSUME Typed, Housed, Placed, [Next]_vars PROVE TasksTyped'
  <1>0. TasksTyped
    BY DEF Typed
  <1> USE <1>0
  <1>1. ASSUME NEW t \in Tasks, SetNX(t) PROVE TasksTyped'
    BY <1>1, StageNames, StageSet DEF SetNX, Goto
  <1>2. ASSUME NEW t \in Tasks, Extend(t) PROVE TasksTyped'
    BY <1>2, StageNames, StageSet DEF Extend, Goto
  <1>3. ASSUME NEW t \in Tasks, RedisFails(t) PROVE TasksTyped'
    BY <1>3, StageNames, StageSet DEF RedisFails, Goto
  <1>4. ASSUME NEW t \in Tasks, TryClaim(t) PROVE TasksTyped'
    <2>1. \A w \in BOOLEAN : AfterClaim(t, w) \in Stages
      BY StageNames DEF AfterClaim
    <2> QED
      BY <1>4, <2>1, ForSet DEF TryClaim, Answered, Lost, Continues
  <1>5. ASSUME NEW t \in Tasks, AssumesAuthority(t) PROVE TasksTyped'
    BY <1>5, StageNames, StageSet, ForSet DEF AssumesAuthority, Asks, Goto
  <1>6. ASSUME NEW t \in Tasks, Forwards(t) PROVE TasksTyped'
    BY <1>6, StageNames, StageSet DEF Forwards, Goto
  <1>7. ASSUME NEW t \in Tasks, Applies(t) PROVE TasksTyped'
    BY <1>7, StageNames, StageSet DEF Applies, Goto
  <1>8. ASSUME NEW t \in Tasks, Clones(t) PROVE TasksTyped'
    <2>1. task[t].room \in 1 .. MaxVisits
      BY <1>8 DEF Clones, Typed, TasksTyped, TaskType, Housed, Joined, At
    <2>2. rooms[task[t].room].tl \in Versions
      BY <2>1 DEF Typed, RoomsTyped, RoomType
    <2> QED
      BY <1>8, <2>2, StageNames, ValueSet DEF Clones
  <1>9. ASSUME NEW t \in Tasks, Persists(t) PROVE TasksTyped'
    BY <1>9, StageNames, StageSet DEF Persists, Goto
  <1>10. ASSUME NEW t \in Tasks, Announces(t) PROVE TasksTyped'
    <2>1. NoTimeline \in Versions
      BY LeaseConstants DEF Versions, NoTimeline
    <2> QED
      BY <1>10, <2>1, StageNames, ValueSet DEF Announces
  <1>11. ASSUME NEW v \in Visitors, NEW n \in Nodes, Enters(v, n) PROVE TasksTyped'
    <2>1. cur[n] \in 0 .. MaxVisits
      BY DEF Typed, NodesTyped
    <2>2. (IF cur[n] # 0 THEN "joining" ELSE "reading") \in Stages
      BY StageNames
    <2>3. task' = [task EXCEPT ![v].node = n, ![v].room = cur[n],
                     ![v].pc = IF cur[n] # 0 THEN "joining" ELSE "reading"]
      BY <1>11 DEF Enters
    <2> DEFINE p == IF cur[n] # 0 THEN "joining" ELSE "reading"
    <2> HIDE DEF p
    <2>4. p \in Stages /\ v \in Tasks
          /\ task' = [task EXCEPT ![v].node = n, ![v].room = cur[n], ![v].pc = p]
      BY <2>2, <2>3, TaskNames DEF p
    <2> DEFINE x == [task[v] EXCEPT !.node = n, !.room = cur[n], !.pc = p]
    <2>5. x \in TaskType
      BY <2>1, <2>4 DEF TasksTyped, TaskType
    <2>6. task' = [task EXCEPT ![v] = x]
      BY <2>4, Zenon
    <2> QED
      BY <2>4, <2>5, <2>6 DEF TasksTyped
  <1>12. ASSUME NEW v \in Visitors, Inserts(v) PROVE TasksTyped'
    <2>1. PICK r \in 0 .. MaxVisits :
            task' = [task EXCEPT ![v].pc = "set", ![v].for = "room", ![v].room = r]
      <3>1. Node(v) \in Nodes
        BY <1>12, TaskNames DEF Placed, Inserts, At
      <3>2. cur[Node(v)] \in 0 .. MaxVisits
        BY <3>1 DEF Typed, NodesTyped
      <3>3. made < MaxVisits /\ made' = made + 1 => made' \in 0 .. MaxVisits
        BY LeaseConstants DEF Typed, SharedTyped
      <3> QED
        BY <1>12, <3>2, <3>3 DEF Inserts
    <2>2. v \in Tasks /\ "set" \in Stages
      BY StageNames, TaskNames
    <2> DEFINE x == [task[v] EXCEPT !.pc = "set", !.for = "room", !.room = r]
    <2>3. x \in TaskType
      BY <2>2 DEF TasksTyped, TaskType
    <2>4. task' = [task EXCEPT ![v] = x]
      BY <2>1, Zenon
    <2> QED
      BY <2>2, <2>3, <2>4 DEF TasksTyped
  <1>13. ASSUME NEW v \in Visitors, Reads(v) PROVE TasksTyped'
    <2>1. NoTimeline \in Versions /\ mirror \in Versions
      BY LeaseConstants DEF Versions, NoTimeline, Typed, SharedTyped
    <2> QED
      BY <1>13, <2>1, StageNames, TaskNames, ValueSet DEF Reads
  <1>14. ASSUME NEW v \in Visitors, Restores(v) PROVE TasksTyped'
    <2>1. NoTimeline \in Versions
      BY LeaseConstants DEF Versions, NoTimeline
    <2> QED
      BY <1>14, <2>1, StageNames, TaskNames, ValueSet DEF Restores
  <1>15. ASSUME NEW v \in Visitors, Joins(v) PROVE TasksTyped'
    BY <1>15, StageNames, TaskNames, StageSet DEF Joins, Goto
  <1>16. ASSUME NEW v \in Visitors, Intends(v) PROVE TasksTyped'
    BY <1>16, StageNames, TaskNames, StageSet DEF Intends, Goto
  <1>17. ASSUME NEW v \in Visitors, Leaves(v) PROVE TasksTyped'
    BY <1>17, StageNames, TaskNames, StageSet DEF Leaves, Goto
  <1>18. ASSUME NEW v \in Visitors, LooksAround(v) PROVE TasksTyped'
    BY <1>18, StageNames, TaskNames, StageSet, Reset DEF LooksAround, Goto
  <1>19. ASSUME NEW v \in Visitors, Removes(v) PROVE TasksTyped'
    BY <1>19, StageNames, TaskNames, StageSet, Reset DEF Removes, Goto
  <1>20. ASSUME NEW v \in Visitors, Releases(v) PROVE TasksTyped'
    BY <1>20, TaskNames, Reset DEF Releases
  <1>21. ASSUME NEW n \in Nodes, RenewLeases(n) PROVE TasksTyped'
    BY <1>21, StageNames, TaskNames, ForSet DEF RenewLeases, Asks
  <1>22. ASSUME NEW n \in Nodes, Relays(n) PROVE TasksTyped'
    <2>1. cur[n] \in 0 .. MaxVisits
      BY DEF Typed, NodesTyped
    <2>2. CASE UNCHANGED task
      BY <2>2 DEF TasksTyped
    <2>3. CASE task' = [task EXCEPT ![<<"relay", n>>].pc = "authority",
                                    ![<<"relay", n>>].room = cur[n]]
      BY <2>1, <2>3, StageNames, TaskNames, RoomSet
    <2> QED
      BY <1>22, <2>2, <2>3 DEF Relays
  <1>23. ASSUME NEW n \in Nodes, Drains(n) PROVE TasksTyped'
    BY <1>23, StageNames, TaskNames, StageSet DEF Drains, Goto
  <1>24. ASSUME NEW n \in Nodes, DrainReleases(n) PROVE TasksTyped'
    BY <1>24, StageNames, TaskNames, StageSet DEF DrainReleases, Goto
  <1>25. ASSUME NEW n \in Nodes, Stops(n) PROVE TasksTyped'
    <2>1. TaskOf(n) \in TaskType /\ Rest \in TaskType
      BY LeaseConstants DEF Rest, TaskOf, TaskType, Stages, NoTimeline, Versions
    <2>2. task' = [t \in Tasks |-> IF Node(t) # n THEN task[t]
                                  ELSE IF t \in Visitors THEN Rest ELSE TaskOf(n)]
      BY <1>25 DEF Stops
    <2> QED
      BY <2>1, <2>2 DEF TasksTyped
  <1>26. ASSUME NEW n \in Nodes, Starts(n) PROVE TasksTyped'
    BY <1>26 DEF Starts, TasksTyped
  <1>27. ASSUME Lapses PROVE TasksTyped'
    BY <1>27 DEF Lapses, TasksTyped
  <1>28. CASE UNCHANGED vars
    BY <1>28 DEF vars, TasksTyped
  <1> QED
    BY <1>1, <1>2, <1>3, <1>4, <1>5, <1>6, <1>7, <1>8, <1>9, <1>10, <1>11, <1>12, <1>13, <1>14, <1>15, <1>16, <1>17, <1>18, <1>19, <1>20, <1>21, <1>22, <1>23, <1>24, <1>25, <1>26, <1>27, <1>28 DEF Next, Handled, Visit, Process

(* Every step leaves the room objects well typed. *)
LEMMA RoomsStep == ASSUME Typed, [Next]_vars PROVE RoomsTyped'
  <1> USE LeaseConstants DEF RoomsTyped, RoomType, At, Goto, Node, counters, ghosts, redis
  <1>1. ASSUME NEW t \in Tasks, SetNX(t) PROVE RoomsTyped'
    BY <1>1 DEF SetNX, Granted, Typed
  <1>2. ASSUME NEW t \in Tasks, Extend(t) PROVE RoomsTyped'
    BY <1>2 DEF Extend, Granted, Typed
  <1>3. ASSUME NEW t \in Tasks, RedisFails(t) PROVE RoomsTyped'
    BY <1>3 DEF RedisFails, Fault, Typed
  <1>4. ASSUME NEW t \in Tasks, TryClaim(t) PROVE RoomsTyped'
    BY <1>4 DEF TryClaim, Answered, Lost, Continues, AfterClaim, Typed
  <1>5. ASSUME NEW t \in Tasks, AssumesAuthority(t) PROVE RoomsTyped'
    BY <1>5 DEF AssumesAuthority, Asks, Typed
  <1>6. ASSUME NEW t \in Tasks, Forwards(t) PROVE RoomsTyped'
    BY <1>6 DEF Forwards, Fault, Typed
  <1>7. ASSUME NEW t \in Tasks, Applies(t) PROVE RoomsTyped'
    <2> DEFINE r == task[t].room
               tl == IF rooms[r].tl = NoTimeline THEN 0 ELSE rooms[r].tl
    <2>1. rooms' = [rooms EXCEPT ![r].tl = tl + 1] /\ tl < MaxIntents
      BY <1>7 DEF Applies
    <2>2. CASE r \in 1 .. MaxVisits
      <3>1. tl + 1 \in Versions
        BY <2>1, <2>2 DEF Typed, Versions, NoTimeline
      <3> QED
        BY <2>1, <3>1 DEF Typed
    <2>3. CASE r \notin 1 .. MaxVisits
      BY <2>1, <2>3 DEF Typed
    <2> QED
      BY <2>2, <2>3
  <1>8. ASSUME NEW t \in Tasks, Clones(t) PROVE RoomsTyped'
    BY <1>8 DEF Clones, Typed
  <1>9. ASSUME NEW t \in Tasks, Persists(t) PROVE RoomsTyped'
    BY <1>9 DEF Persists, Fault, Typed
  <1>10. ASSUME NEW t \in Tasks, Announces(t) PROVE RoomsTyped'
    BY <1>10 DEF Announces, Typed
  <1>11. ASSUME NEW v \in Visitors, NEW n \in Nodes, Enters(v, n) PROVE RoomsTyped'
    BY <1>11 DEF Enters, Typed
  <1>12. ASSUME NEW v \in Visitors, Inserts(v) PROVE RoomsTyped'
    BY <1>12 DEF Inserts, Typed
  <1>13. ASSUME NEW v \in Visitors, Reads(v) PROVE RoomsTyped'
    BY <1>13 DEF Reads, Fault, Typed
  <1>14. ASSUME NEW v \in Visitors, Restores(v) PROVE RoomsTyped'
    <2>1. (IF task[v].v = NoTimeline THEN 0 ELSE task[v].v) \in Versions
      BY TaskNames DEF Typed, TasksTyped, TaskType, Versions, NoTimeline
    <2> QED
      BY <1>14, <2>1 DEF Restores, Typed
  <1>15. ASSUME NEW v \in Visitors, Joins(v) PROVE RoomsTyped'
    <2>1. \A x \in RoomType : [tl |-> IF x.tl = NoTimeline THEN 0 ELSE x.tl,
                                 here |-> x.here \cup {v}] \in RoomType
      BY DEF Versions, NoTimeline
    <2> DEFINE r == task[v].room
    <2>2. rooms' = [rooms EXCEPT ![r] =
                      [tl |-> IF rooms[r].tl = NoTimeline THEN 0 ELSE rooms[r].tl,
                       here |-> rooms[r].here \cup {v}]]
      BY <1>15 DEF Joins
    <2>3. CASE r \in 1 .. MaxVisits
      <3>1. rooms[r] \in RoomType
        BY <2>3 DEF Typed
      <3> QED
        BY <2>1, <2>2, <3>1 DEF Typed
    <2>4. CASE r \notin 1 .. MaxVisits
      BY <2>2, <2>4 DEF Typed
    <2> QED
      BY <2>3, <2>4
  <1>16. ASSUME NEW v \in Visitors, Intends(v) PROVE RoomsTyped'
    BY <1>16 DEF Intends, Typed
  <1>17. ASSUME NEW v \in Visitors, Leaves(v) PROVE RoomsTyped'
    BY <1>17 DEF Leaves, Typed
  <1>18. ASSUME NEW v \in Visitors, LooksAround(v) PROVE RoomsTyped'
    BY <1>18 DEF LooksAround, Typed
  <1>19. ASSUME NEW v \in Visitors, Removes(v) PROVE RoomsTyped'
    BY <1>19 DEF Removes, Typed
  <1>20. ASSUME NEW v \in Visitors, Releases(v) PROVE RoomsTyped'
    BY <1>20 DEF Releases, Deleted, Typed
  <1>21. ASSUME NEW n \in Nodes, RenewLeases(n) PROVE RoomsTyped'
    BY <1>21 DEF RenewLeases, Asks, Typed
  <1>22. ASSUME NEW n \in Nodes, Relays(n) PROVE RoomsTyped'
    BY <1>22 DEF Relays, Typed
  <1>23. ASSUME NEW n \in Nodes, Drains(n) PROVE RoomsTyped'
    BY <1>23 DEF Drains, Fault, Typed
  <1>24. ASSUME NEW n \in Nodes, DrainReleases(n) PROVE RoomsTyped'
    BY <1>24 DEF DrainReleases, Deleted, Typed
  <1>25. ASSUME NEW n \in Nodes, Stops(n) PROVE RoomsTyped'
    BY <1>25 DEF Stops, Fault, TaskOf, Typed
  <1>26. ASSUME NEW n \in Nodes, Starts(n) PROVE RoomsTyped'
    BY <1>26 DEF Starts, Typed
  <1>27. ASSUME Lapses PROVE RoomsTyped'
    BY <1>27 DEF Lapses, Fault, Typed
  <1>28. CASE UNCHANGED vars
    BY <1>28 DEF vars, Typed
  <1> QED
    BY <1>1, <1>2, <1>3, <1>4, <1>5, <1>6, <1>7, <1>8, <1>9, <1>10, <1>11, <1>12, <1>13, <1>14, <1>15, <1>16, <1>17, <1>18, <1>19, <1>20, <1>21, <1>22, <1>23, <1>24, <1>25, <1>26, <1>27, <1>28 DEF Next, Handled, Visit, Process

(* Every step leaves what nodes know well typed. *)
LEMMA NodesStep == ASSUME Typed, Placed, [Next]_vars PROVE NodesTyped'
  <1> USE LeaseConstants DEF NodesTyped, At, Goto, Node, counters, ghosts, redis
  <1>1. ASSUME NEW t \in Tasks, SetNX(t) PROVE NodesTyped'
    <2>1. Node(t) \in Nodes
      BY <1>1 DEF SetNX, Placed
    <2> QED
      BY <1>1, <2>1 DEF SetNX, Granted, Typed
  <1>2. ASSUME NEW t \in Tasks, Extend(t) PROVE NodesTyped'
    BY <1>2 DEF Extend, Granted, Typed, SharedTyped
  <1>3. ASSUME NEW t \in Tasks, RedisFails(t) PROVE NodesTyped'
    BY <1>3 DEF RedisFails, Fault, Typed, SharedTyped
  <1>4. ASSUME NEW t \in Tasks, TryClaim(t) PROVE NodesTyped'
    <2>1. Node(t) \in Nodes
      BY <1>4 DEF TryClaim, Answered, Lost, Placed
    <2> QED
      BY <1>4, <2>1 DEF TryClaim, Answered, Lost, Typed
  <1>5. ASSUME NEW t \in Tasks, AssumesAuthority(t) PROVE NodesTyped'
    BY <1>5 DEF AssumesAuthority, Asks, Typed, SharedTyped
  <1>6. ASSUME NEW t \in Tasks, Forwards(t) PROVE NodesTyped'
    BY <1>6 DEF Forwards, Fault, Typed, SharedTyped
  <1>7. ASSUME NEW t \in Tasks, Applies(t) PROVE NodesTyped'
    BY <1>7 DEF Applies, Typed, SharedTyped
  <1>8. ASSUME NEW t \in Tasks, Clones(t) PROVE NodesTyped'
    BY <1>8 DEF Clones, Typed, SharedTyped
  <1>9. ASSUME NEW t \in Tasks, Persists(t) PROVE NodesTyped'
    BY <1>9 DEF Persists, Fault, Typed, SharedTyped
  <1>10. ASSUME NEW t \in Tasks, Announces(t) PROVE NodesTyped'
    BY <1>10 DEF Announces, Typed, SharedTyped
  <1>11. ASSUME NEW v \in Visitors, NEW n \in Nodes, Enters(v, n) PROVE NodesTyped'
    BY <1>11 DEF Enters, Typed, SharedTyped
  <1>12. ASSUME NEW v \in Visitors, Inserts(v) PROVE NodesTyped'
    <2>1. Node(v) \in Nodes
      BY <1>12, TaskNames DEF Inserts, Placed
    <2> QED
      BY <1>12, <2>1 DEF Inserts, Typed, SharedTyped
  <1>13. ASSUME NEW v \in Visitors, Reads(v) PROVE NodesTyped'
    BY <1>13 DEF Reads, Fault, Typed, SharedTyped
  <1>14. ASSUME NEW v \in Visitors, Restores(v) PROVE NodesTyped'
    BY <1>14 DEF Restores, Typed, SharedTyped
  <1>15. ASSUME NEW v \in Visitors, Joins(v) PROVE NodesTyped'
    BY <1>15 DEF Joins, Typed, SharedTyped
  <1>16. ASSUME NEW v \in Visitors, Intends(v) PROVE NodesTyped'
    BY <1>16 DEF Intends, Typed, SharedTyped
  <1>17. ASSUME NEW v \in Visitors, Leaves(v) PROVE NodesTyped'
    BY <1>17 DEF Leaves, Typed, SharedTyped
  <1>18. ASSUME NEW v \in Visitors, LooksAround(v) PROVE NodesTyped'
    BY <1>18 DEF LooksAround, Typed, SharedTyped
  <1>19. ASSUME NEW v \in Visitors, Removes(v) PROVE NodesTyped'
    <2>1. Node(v) \in Nodes
      BY <1>19, TaskNames DEF Removes, Placed
    <2> QED
      BY <1>19, <2>1 DEF Removes, Typed
  <1>20. ASSUME NEW v \in Visitors, Releases(v) PROVE NodesTyped'
    <2>1. Node(v) \in Nodes
      BY <1>20, TaskNames DEF Releases, Placed
    <2> QED
      BY <1>20, <2>1 DEF Releases, Deleted, Typed
  <1>21. ASSUME NEW n \in Nodes, RenewLeases(n) PROVE NodesTyped'
    BY <1>21 DEF RenewLeases, Asks, Typed, SharedTyped
  <1>22. ASSUME NEW n \in Nodes, Relays(n) PROVE NodesTyped'
    BY <1>22 DEF Relays, Typed, SharedTyped
  <1>23. ASSUME NEW n \in Nodes, Drains(n) PROVE NodesTyped'
    BY <1>23 DEF Drains, Fault, Typed, SharedTyped
  <1>24. ASSUME NEW n \in Nodes, DrainReleases(n) PROVE NodesTyped'
    BY <1>24 DEF DrainReleases, Deleted, Typed, SharedTyped
  <1>25. ASSUME NEW n \in Nodes, Stops(n) PROVE NodesTyped'
    BY <1>25 DEF Stops, Fault, TaskOf, Typed, SharedTyped
  <1>26. ASSUME NEW n \in Nodes, Starts(n) PROVE NodesTyped'
    BY <1>26 DEF Starts, Typed, SharedTyped
  <1>27. ASSUME Lapses PROVE NodesTyped'
    BY <1>27 DEF Lapses, Fault, Typed, SharedTyped
  <1>28. CASE UNCHANGED vars
    BY <1>28 DEF vars, Typed
  <1> QED
    BY <1>1, <1>2, <1>3, <1>4, <1>5, <1>6, <1>7, <1>8, <1>9, <1>10, <1>11, <1>12, <1>13, <1>14, <1>15, <1>16, <1>17, <1>18, <1>19, <1>20, <1>21, <1>22, <1>23, <1>24, <1>25, <1>26, <1>27, <1>28 DEF Next, Handled, Visit, Process

(* Every step leaves Redis and the counters well typed. *)
LEMMA SharedStep == ASSUME Typed, Housed, Placed, [Next]_vars PROVE SharedTyped'
  <1> USE LeaseConstants DEF SharedTyped, Versions, At, Goto, Node, counters, ghosts, redis
  <1>1. ASSUME NEW t \in Tasks, SetNX(t) PROVE SharedTyped'
    <2>1. Node(t) \in Nodes
      BY <1>1 DEF SetNX, Placed
    <2> QED
      BY <1>1, <2>1 DEF SetNX, Typed
  <1>2. ASSUME NEW t \in Tasks, Extend(t) PROVE SharedTyped'
    BY <1>2 DEF Extend, Granted, Typed
  <1>3. ASSUME NEW t \in Tasks, RedisFails(t) PROVE SharedTyped'
    BY <1>3 DEF RedisFails, Fault, Typed
  <1>4. ASSUME NEW t \in Tasks, TryClaim(t) PROVE SharedTyped'
    BY <1>4 DEF TryClaim, Answered, Lost, Continues, AfterClaim, Typed
  <1>5. ASSUME NEW t \in Tasks, AssumesAuthority(t) PROVE SharedTyped'
    BY <1>5 DEF AssumesAuthority, Asks, Typed
  <1>6. ASSUME NEW t \in Tasks, Forwards(t) PROVE SharedTyped'
    BY <1>6 DEF Forwards, Fault, Typed
  <1>7. ASSUME NEW t \in Tasks, Applies(t) PROVE SharedTyped'
    BY <1>7 DEF Applies, Typed
  <1>8. ASSUME NEW t \in Tasks, Clones(t) PROVE SharedTyped'
    BY <1>8 DEF Clones, Typed
  <1>9. ASSUME NEW t \in Tasks, Persists(t) PROVE SharedTyped'
    <2>1. task[t].v \in Versions
      BY DEF Typed, TasksTyped, TaskType
    <2>2. astray' \in BOOLEAN
      BY <1>9, Zenon DEF Persists, Typed
    <2>3. mirror' \in Versions
      BY <1>9, <2>1 DEF Persists, Typed
    <2> QED
      BY <1>9, <2>2, <2>3 DEF Persists, Fault, Typed
  <1>10. ASSUME NEW t \in Tasks, Announces(t) PROVE SharedTyped'
    <2>1. task[t].v \in Versions
      BY DEF Typed, TasksTyped, TaskType
    <2> QED
      BY <1>10, <2>1 DEF Announces, Typed
  <1>11. ASSUME NEW v \in Visitors, NEW n \in Nodes, Enters(v, n) PROVE SharedTyped'
    BY <1>11 DEF Enters, Typed
  <1>12. ASSUME NEW v \in Visitors, Inserts(v) PROVE SharedTyped'
    BY <1>12 DEF Inserts, Typed
  <1>13. ASSUME NEW v \in Visitors, Reads(v) PROVE SharedTyped'
    <2>2. astray' \in BOOLEAN
      BY <1>13, Zenon DEF Reads, Typed
    <2> QED
      BY <1>13, <2>2 DEF Reads, Fault, Typed
  <1>14. ASSUME NEW v \in Visitors, Restores(v) PROVE SharedTyped'
    BY <1>14 DEF Restores, Typed
  <1>15. ASSUME NEW v \in Visitors, Joins(v) PROVE SharedTyped'
    BY <1>15 DEF Joins, Typed
  <1>16. ASSUME NEW v \in Visitors, Intends(v) PROVE SharedTyped'
    BY <1>16 DEF Intends, Typed
  <1>17. ASSUME NEW v \in Visitors, Leaves(v) PROVE SharedTyped'
    BY <1>17 DEF Leaves, Typed
  <1>18. ASSUME NEW v \in Visitors, LooksAround(v) PROVE SharedTyped'
    BY <1>18 DEF LooksAround, Typed
  <1>19. ASSUME NEW v \in Visitors, Removes(v) PROVE SharedTyped'
    BY <1>19 DEF Removes, Typed
  <1>20. ASSUME NEW v \in Visitors, Releases(v) PROVE SharedTyped'
    BY <1>20 DEF Releases, Deleted, Typed
  <1>21. ASSUME NEW n \in Nodes, RenewLeases(n) PROVE SharedTyped'
    BY <1>21 DEF RenewLeases, Asks, Typed
  <1>22. ASSUME NEW n \in Nodes, Relays(n) PROVE SharedTyped'
    BY <1>22 DEF Relays, Typed
  <1>23. ASSUME NEW n \in Nodes, Drains(n) PROVE SharedTyped'
    <2>1. cur[n] # 0 => rooms[cur[n]].tl \in Versions
      BY LeaseConstants DEF Typed, RoomsTyped, RoomType, NodesTyped
    <2>2. astray' \in BOOLEAN
      BY <1>23, Zenon DEF Drains, Typed
    <2>3. mirror' \in Versions
      BY <1>23, <2>1 DEF Drains, Typed
    <2> QED
      BY <1>23, <2>2, <2>3 DEF Drains, Fault, Typed
  <1>24. ASSUME NEW n \in Nodes, DrainReleases(n) PROVE SharedTyped'
    BY <1>24 DEF DrainReleases, Deleted, Typed
  <1>25. ASSUME NEW n \in Nodes, Stops(n) PROVE SharedTyped'
    BY <1>25 DEF Stops, Fault, TaskOf, Typed
  <1>26. ASSUME NEW n \in Nodes, Starts(n) PROVE SharedTyped'
    BY <1>26 DEF Starts, Typed
  <1>27. ASSUME Lapses PROVE SharedTyped'
    BY <1>27 DEF Lapses, Fault, Typed
  <1>28. CASE UNCHANGED vars
    BY <1>28 DEF vars, Typed
  <1> QED
    BY <1>1, <1>2, <1>3, <1>4, <1>5, <1>6, <1>7, <1>8, <1>9, <1>10, <1>11, <1>12, <1>13, <1>14, <1>15, <1>16, <1>17, <1>18, <1>19, <1>20, <1>21, <1>22, <1>23, <1>24, <1>25, <1>26, <1>27, <1>28 DEF Next, Handled, Visit, Process

(* Every step leaves a task that needs one with a room object. *)
LEMMA HousedStep == ASSUME Typed, Housed, [Next]_vars PROVE Housed'
  <1> USE LeaseConstants DEF Housed, Joined, At, Goto, Node, counters, ghosts, redis
  <1>1. ASSUME NEW t \in Tasks, SetNX(t) PROVE Housed'
    BY <1>1 DEF SetNX, Granted, Typed, TasksTyped, TaskType, SharedTyped, NodesTyped, Tasks, Rest, TaskOf
  <1>2. ASSUME NEW t \in Tasks, Extend(t) PROVE Housed'
    BY <1>2 DEF Extend, Granted, Typed, TasksTyped, TaskType, SharedTyped, NodesTyped, Tasks, Rest, TaskOf
  <1>3. ASSUME NEW t \in Tasks, RedisFails(t) PROVE Housed'
    BY <1>3 DEF RedisFails, Fault, Typed, TasksTyped, TaskType, SharedTyped, NodesTyped, Tasks, Rest, TaskOf
  <1>4. ASSUME NEW t \in Tasks, TryClaim(t) PROVE Housed'
    BY <1>4 DEF TryClaim, Answered, Lost, Continues, AfterClaim, Typed, TasksTyped, TaskType, SharedTyped, NodesTyped, Tasks, Rest, TaskOf
  <1>5. ASSUME NEW t \in Tasks, AssumesAuthority(t) PROVE Housed'
    BY <1>5 DEF AssumesAuthority, Asks, Typed, TasksTyped, TaskType, SharedTyped, NodesTyped, Tasks, Rest, TaskOf
  <1>6. ASSUME NEW t \in Tasks, Forwards(t) PROVE Housed'
    BY <1>6 DEF Forwards, Fault, Typed, TasksTyped, TaskType, SharedTyped, NodesTyped, Tasks, Rest, TaskOf
  <1>7. ASSUME NEW t \in Tasks, Applies(t) PROVE Housed'
    BY <1>7 DEF Applies, Typed, TasksTyped, TaskType, SharedTyped, NodesTyped, Tasks, Rest, TaskOf
  <1>8. ASSUME NEW t \in Tasks, Clones(t) PROVE Housed'
    BY <1>8 DEF Clones, Typed, TasksTyped, TaskType, SharedTyped, NodesTyped, Tasks, Rest, TaskOf
  <1>9. ASSUME NEW t \in Tasks, Persists(t) PROVE Housed'
    BY <1>9 DEF Persists, Fault, Typed, TasksTyped, TaskType, SharedTyped, NodesTyped, Tasks, Rest, TaskOf
  <1>10. ASSUME NEW t \in Tasks, Announces(t) PROVE Housed'
    BY <1>10 DEF Announces, Typed, TasksTyped, TaskType, SharedTyped, NodesTyped, Tasks, Rest, TaskOf
  <1>11. ASSUME NEW v \in Visitors, NEW n \in Nodes, Enters(v, n) PROVE Housed'
    BY <1>11 DEF Enters, Typed, TasksTyped, TaskType, SharedTyped, NodesTyped, Tasks, Rest, TaskOf
  <1>12. ASSUME NEW v \in Visitors, Inserts(v) PROVE Housed'
    BY <1>12 DEF Inserts, Typed, TasksTyped, TaskType, SharedTyped, NodesTyped, Tasks, Rest, TaskOf
  <1>13. ASSUME NEW v \in Visitors, Reads(v) PROVE Housed'
    BY <1>13 DEF Reads, Fault, Typed, TasksTyped, TaskType, SharedTyped, NodesTyped, Tasks, Rest, TaskOf
  <1>14. ASSUME NEW v \in Visitors, Restores(v) PROVE Housed'
    BY <1>14 DEF Restores, Typed, TasksTyped, TaskType, SharedTyped, NodesTyped, Tasks, Rest, TaskOf
  <1>15. ASSUME NEW v \in Visitors, Joins(v) PROVE Housed'
    BY <1>15 DEF Joins, Typed, TasksTyped, TaskType, SharedTyped, NodesTyped, Tasks, Rest, TaskOf
  <1>16. ASSUME NEW v \in Visitors, Intends(v) PROVE Housed'
    BY <1>16 DEF Intends, Typed, TasksTyped, TaskType, SharedTyped, NodesTyped, Tasks, Rest, TaskOf
  <1>17. ASSUME NEW v \in Visitors, Leaves(v) PROVE Housed'
    BY <1>17 DEF Leaves, Typed, TasksTyped, TaskType, SharedTyped, NodesTyped, Tasks, Rest, TaskOf
  <1>18. ASSUME NEW v \in Visitors, LooksAround(v) PROVE Housed'
    BY <1>18 DEF LooksAround, Typed, TasksTyped, TaskType, SharedTyped, NodesTyped, Tasks, Rest, TaskOf
  <1>19. ASSUME NEW v \in Visitors, Removes(v) PROVE Housed'
    BY <1>19 DEF Removes, Typed, TasksTyped, TaskType, SharedTyped, NodesTyped, Tasks, Rest, TaskOf
  <1>20. ASSUME NEW v \in Visitors, Releases(v) PROVE Housed'
    BY <1>20 DEF Releases, Deleted, Typed, TasksTyped, TaskType, SharedTyped, NodesTyped, Tasks, Rest, TaskOf
  <1>21. ASSUME NEW n \in Nodes, RenewLeases(n) PROVE Housed'
    BY <1>21 DEF RenewLeases, Asks, Typed, TasksTyped, TaskType, SharedTyped, NodesTyped, Tasks, Rest, TaskOf
  <1>22. ASSUME NEW n \in Nodes, Relays(n) PROVE Housed'
    BY <1>22 DEF Relays, Typed, TasksTyped, TaskType, SharedTyped, NodesTyped, Tasks, Rest, TaskOf
  <1>23. ASSUME NEW n \in Nodes, Drains(n) PROVE Housed'
    BY <1>23 DEF Drains, Fault, Typed, TasksTyped, TaskType, SharedTyped, NodesTyped, Tasks, Rest, TaskOf
  <1>24. ASSUME NEW n \in Nodes, DrainReleases(n) PROVE Housed'
    BY <1>24 DEF DrainReleases, Deleted, Typed, TasksTyped, TaskType, SharedTyped, NodesTyped, Tasks, Rest, TaskOf
  <1>25. ASSUME NEW n \in Nodes, Stops(n) PROVE Housed'
    BY <1>25 DEF Stops, Fault, TaskOf, Typed, TasksTyped, TaskType, SharedTyped, NodesTyped, Tasks, Rest, TaskOf
  <1>26. ASSUME NEW n \in Nodes, Starts(n) PROVE Housed'
    BY <1>26 DEF Starts, Typed, TasksTyped, TaskType, SharedTyped, NodesTyped, Tasks, Rest, TaskOf
  <1>27. ASSUME Lapses PROVE Housed'
    BY <1>27 DEF Lapses, Fault, Typed, TasksTyped, TaskType, SharedTyped, NodesTyped, Tasks, Rest, TaskOf
  <1>28. CASE UNCHANGED vars
    BY <1>28 DEF vars, Typed
  <1> QED
    BY <1>1, <1>2, <1>3, <1>4, <1>5, <1>6, <1>7, <1>8, <1>9, <1>10, <1>11, <1>12, <1>13, <1>14, <1>15, <1>16, <1>17, <1>18, <1>19, <1>20, <1>21, <1>22, <1>23, <1>24, <1>25, <1>26, <1>27, <1>28 DEF Next, Handled, Visit, Process

(* Every step leaves a task at work on a node. *)
LEMMA PlacedStep == ASSUME Typed, Placed, [Next]_vars PROVE Placed'
  <1> USE LeaseConstants DEF Placed, At, Goto, Node, counters, ghosts, redis
  <1>1. ASSUME NEW t \in Tasks, SetNX(t) PROVE Placed'
    BY <1>1 DEF SetNX, Granted, Typed, TasksTyped, TaskType, NodesTyped, Tasks, Kinds, Rest, TaskOf
  <1>2. ASSUME NEW t \in Tasks, Extend(t) PROVE Placed'
    BY <1>2 DEF Extend, Granted, Typed, TasksTyped, TaskType, NodesTyped, Tasks, Kinds, Rest, TaskOf
  <1>3. ASSUME NEW t \in Tasks, RedisFails(t) PROVE Placed'
    BY <1>3 DEF RedisFails, Fault, Typed, TasksTyped, TaskType, NodesTyped, Tasks, Kinds, Rest, TaskOf
  <1>4. ASSUME NEW t \in Tasks, TryClaim(t) PROVE Placed'
    BY <1>4 DEF TryClaim, Answered, Lost, Continues, AfterClaim, Typed, TasksTyped, TaskType, NodesTyped, Tasks, Kinds, Rest, TaskOf
  <1>5. ASSUME NEW t \in Tasks, AssumesAuthority(t) PROVE Placed'
    BY <1>5 DEF AssumesAuthority, Asks, Typed, TasksTyped, TaskType, NodesTyped, Tasks, Kinds, Rest, TaskOf
  <1>6. ASSUME NEW t \in Tasks, Forwards(t) PROVE Placed'
    BY <1>6 DEF Forwards, Fault, Typed, TasksTyped, TaskType, NodesTyped, Tasks, Kinds, Rest, TaskOf
  <1>7. ASSUME NEW t \in Tasks, Applies(t) PROVE Placed'
    BY <1>7 DEF Applies, Typed, TasksTyped, TaskType, NodesTyped, Tasks, Kinds, Rest, TaskOf
  <1>8. ASSUME NEW t \in Tasks, Clones(t) PROVE Placed'
    BY <1>8 DEF Clones, Typed, TasksTyped, TaskType, NodesTyped, Tasks, Kinds, Rest, TaskOf
  <1>9. ASSUME NEW t \in Tasks, Persists(t) PROVE Placed'
    BY <1>9 DEF Persists, Fault, Typed, TasksTyped, TaskType, NodesTyped, Tasks, Kinds, Rest, TaskOf
  <1>10. ASSUME NEW t \in Tasks, Announces(t) PROVE Placed'
    BY <1>10 DEF Announces, Typed, TasksTyped, TaskType, NodesTyped, Tasks, Kinds, Rest, TaskOf
  <1>11. ASSUME NEW v \in Visitors, NEW n \in Nodes, Enters(v, n) PROVE Placed'
    BY <1>11 DEF Enters, Typed, TasksTyped, TaskType, NodesTyped, Tasks, Kinds, Rest, TaskOf
  <1>12. ASSUME NEW v \in Visitors, Inserts(v) PROVE Placed'
    BY <1>12 DEF Inserts, Typed, TasksTyped, TaskType, NodesTyped, Tasks, Kinds, Rest, TaskOf
  <1>13. ASSUME NEW v \in Visitors, Reads(v) PROVE Placed'
    BY <1>13 DEF Reads, Fault, Typed, TasksTyped, TaskType, NodesTyped, Tasks, Kinds, Rest, TaskOf
  <1>14. ASSUME NEW v \in Visitors, Restores(v) PROVE Placed'
    BY <1>14 DEF Restores, Typed, TasksTyped, TaskType, NodesTyped, Tasks, Kinds, Rest, TaskOf
  <1>15. ASSUME NEW v \in Visitors, Joins(v) PROVE Placed'
    BY <1>15 DEF Joins, Typed, TasksTyped, TaskType, NodesTyped, Tasks, Kinds, Rest, TaskOf
  <1>16. ASSUME NEW v \in Visitors, Intends(v) PROVE Placed'
    BY <1>16 DEF Intends, Typed, TasksTyped, TaskType, NodesTyped, Tasks, Kinds, Rest, TaskOf
  <1>17. ASSUME NEW v \in Visitors, Leaves(v) PROVE Placed'
    BY <1>17 DEF Leaves, Typed, TasksTyped, TaskType, NodesTyped, Tasks, Kinds, Rest, TaskOf
  <1>18. ASSUME NEW v \in Visitors, LooksAround(v) PROVE Placed'
    BY <1>18 DEF LooksAround, Typed, TasksTyped, TaskType, NodesTyped, Tasks, Kinds, Rest, TaskOf
  <1>19. ASSUME NEW v \in Visitors, Removes(v) PROVE Placed'
    BY <1>19 DEF Removes, Typed, TasksTyped, TaskType, NodesTyped, Tasks, Kinds, Rest, TaskOf
  <1>20. ASSUME NEW v \in Visitors, Releases(v) PROVE Placed'
    BY <1>20 DEF Releases, Deleted, Typed, TasksTyped, TaskType, NodesTyped, Tasks, Kinds, Rest, TaskOf
  <1>21. ASSUME NEW n \in Nodes, RenewLeases(n) PROVE Placed'
    <2>1. PICK t \in Tasks : /\ t \notin Visitors
                           /\ task' = [task EXCEPT ![t].pc = "set", ![t].for = "renew"]
      BY <1>21, TaskNames DEF RenewLeases, Asks
    <2> QED
      BY <2>1 DEF Typed, TasksTyped, TaskType
  <1>22. ASSUME NEW n \in Nodes, Relays(n) PROVE Placed'
    <2>1. PICK t \in Tasks : /\ ~(t \in Visitors)
                           /\ \/ task' = task
                              \/ task' = [task EXCEPT ![t].pc = "authority", ![t].room = cur[n]]
      BY <1>22, TaskNames DEF Relays
    <2>2. CASE task' = task
      BY <2>2
    <2>3. CASE task' = [task EXCEPT ![t].pc = "authority", ![t].room = cur[n]]
      BY <2>1, <2>3 DEF Typed, TasksTyped, TaskType
    <2> QED
      BY <2>1, <2>2, <2>3
  <1>23. ASSUME NEW n \in Nodes, Drains(n) PROVE Placed'
    <2>1. PICK t \in Tasks : /\ t \notin Visitors
                           /\ task' = [task EXCEPT ![t].pc = IF n \in owned THEN "releasing" ELSE "drained"]
      BY <1>23, TaskNames DEF Drains
    <2> QED
      BY <2>1 DEF Typed, TasksTyped, TaskType
  <1>24. ASSUME NEW n \in Nodes, DrainReleases(n) PROVE Placed'
    BY <1>24, TaskNames DEF DrainReleases, Typed, TasksTyped, TaskType
  <1>25. ASSUME NEW n \in Nodes, Stops(n) PROVE Placed'
    BY <1>25 DEF Stops, Fault, TaskOf, Typed, TasksTyped, TaskType, NodesTyped, Tasks, Kinds, Rest, TaskOf
  <1>26. ASSUME NEW n \in Nodes, Starts(n) PROVE Placed'
    BY <1>26 DEF Starts, Typed, TasksTyped, TaskType, NodesTyped, Tasks, Kinds, Rest, TaskOf
  <1>27. ASSUME Lapses PROVE Placed'
    BY <1>27 DEF Lapses, Fault, Typed, TasksTyped, TaskType, NodesTyped, Tasks, Kinds, Rest, TaskOf
  <1>28. CASE UNCHANGED vars
    BY <1>28 DEF vars, Typed
  <1> QED
    BY <1>1, <1>2, <1>3, <1>4, <1>5, <1>6, <1>7, <1>8, <1>9, <1>10, <1>11, <1>12, <1>13, <1>14, <1>15, <1>16, <1>17, <1>18, <1>19, <1>20, <1>21, <1>22, <1>23, <1>24, <1>25, <1>26, <1>27, <1>28 DEF Next, Handled, Visit, Process

(* Every step keeps belief and Redis together. *)
LEMMA BelievedStep == ASSUME Typed, Believed, Placed, [Next]_vars PROVE Believed'
  <1> USE LeaseConstants DEF Believed, Placed, At, Goto, Node, counters, ghosts, redis
  <1>1. ASSUME NEW t \in Tasks, SetNX(t) PROVE Believed'
    BY <1>1 DEF SetNX, Granted, Typed, TasksTyped, TaskType, NodesTyped, SharedTyped, Tasks, Rest, TaskOf
  <1>2. ASSUME NEW t \in Tasks, Extend(t) PROVE Believed'
    BY <1>2 DEF Extend, Granted, Typed, TasksTyped, TaskType, NodesTyped, SharedTyped, Tasks, Rest, TaskOf
  <1>3. ASSUME NEW t \in Tasks, RedisFails(t) PROVE Believed'
    BY <1>3 DEF RedisFails, Fault, Typed, TasksTyped, TaskType, NodesTyped, SharedTyped, Tasks, Rest, TaskOf
  <1>4. ASSUME NEW t \in Tasks, TryClaim(t) PROVE Believed'
    BY <1>4 DEF TryClaim, Answered, Lost, Continues, AfterClaim, Typed, TasksTyped, TaskType, NodesTyped, SharedTyped, Tasks, Rest, TaskOf
  <1>5. ASSUME NEW t \in Tasks, AssumesAuthority(t) PROVE Believed'
    BY <1>5 DEF AssumesAuthority, Asks, Typed, TasksTyped, TaskType, NodesTyped, SharedTyped, Tasks, Rest, TaskOf
  <1>6. ASSUME NEW t \in Tasks, Forwards(t) PROVE Believed'
    BY <1>6 DEF Forwards, Fault, Typed, TasksTyped, TaskType, NodesTyped, SharedTyped, Tasks, Rest, TaskOf
  <1>7. ASSUME NEW t \in Tasks, Applies(t) PROVE Believed'
    BY <1>7 DEF Applies, Typed, TasksTyped, TaskType, NodesTyped, SharedTyped, Tasks, Rest, TaskOf
  <1>8. ASSUME NEW t \in Tasks, Clones(t) PROVE Believed'
    BY <1>8 DEF Clones, Typed, TasksTyped, TaskType, NodesTyped, SharedTyped, Tasks, Rest, TaskOf
  <1>9. ASSUME NEW t \in Tasks, Persists(t) PROVE Believed'
    BY <1>9 DEF Persists, Fault, Typed, TasksTyped, TaskType, NodesTyped, SharedTyped, Tasks, Rest, TaskOf
  <1>10. ASSUME NEW t \in Tasks, Announces(t) PROVE Believed'
    BY <1>10 DEF Announces, Typed, TasksTyped, TaskType, NodesTyped, SharedTyped, Tasks, Rest, TaskOf
  <1>11. ASSUME NEW v \in Visitors, NEW n \in Nodes, Enters(v, n) PROVE Believed'
    BY <1>11 DEF Enters, Typed, TasksTyped, TaskType, NodesTyped, SharedTyped, Tasks, Rest, TaskOf
  <1>12. ASSUME NEW v \in Visitors, Inserts(v) PROVE Believed'
    BY <1>12 DEF Inserts, Typed, TasksTyped, TaskType, NodesTyped, SharedTyped, Tasks, Rest, TaskOf
  <1>13. ASSUME NEW v \in Visitors, Reads(v) PROVE Believed'
    BY <1>13 DEF Reads, Fault, Typed, TasksTyped, TaskType, NodesTyped, SharedTyped, Tasks, Rest, TaskOf
  <1>14. ASSUME NEW v \in Visitors, Restores(v) PROVE Believed'
    BY <1>14 DEF Restores, Typed, TasksTyped, TaskType, NodesTyped, SharedTyped, Tasks, Rest, TaskOf
  <1>15. ASSUME NEW v \in Visitors, Joins(v) PROVE Believed'
    BY <1>15 DEF Joins, Typed, TasksTyped, TaskType, NodesTyped, SharedTyped, Tasks, Rest, TaskOf
  <1>16. ASSUME NEW v \in Visitors, Intends(v) PROVE Believed'
    BY <1>16 DEF Intends, Typed, TasksTyped, TaskType, NodesTyped, SharedTyped, Tasks, Rest, TaskOf
  <1>17. ASSUME NEW v \in Visitors, Leaves(v) PROVE Believed'
    BY <1>17 DEF Leaves, Typed, TasksTyped, TaskType, NodesTyped, SharedTyped, Tasks, Rest, TaskOf
  <1>18. ASSUME NEW v \in Visitors, LooksAround(v) PROVE Believed'
    BY <1>18 DEF LooksAround, Typed, TasksTyped, TaskType, NodesTyped, SharedTyped, Tasks, Rest, TaskOf
  <1>19. ASSUME NEW v \in Visitors, Removes(v) PROVE Believed'
    BY <1>19 DEF Removes, Typed, TasksTyped, TaskType, NodesTyped, SharedTyped, Tasks, Rest, TaskOf
  <1>20. ASSUME NEW v \in Visitors, Releases(v) PROVE Believed'
    BY <1>20 DEF Releases, Deleted, Typed, TasksTyped, TaskType, NodesTyped, SharedTyped, Tasks, Rest, TaskOf
  <1>21. ASSUME NEW n \in Nodes, RenewLeases(n) PROVE Believed'
    BY <1>21 DEF RenewLeases, Asks, Typed, TasksTyped, TaskType, NodesTyped, SharedTyped, Tasks, Rest, TaskOf
  <1>22. ASSUME NEW n \in Nodes, Relays(n) PROVE Believed'
    BY <1>22 DEF Relays, Typed, TasksTyped, TaskType, NodesTyped, SharedTyped, Tasks, Rest, TaskOf
  <1>23. ASSUME NEW n \in Nodes, Drains(n) PROVE Believed'
    BY <1>23 DEF Drains, Fault, Typed, TasksTyped, TaskType, NodesTyped, SharedTyped, Tasks, Rest, TaskOf
  <1>24. ASSUME NEW n \in Nodes, DrainReleases(n) PROVE Believed'
    BY <1>24 DEF DrainReleases, Deleted, Typed, TasksTyped, TaskType, NodesTyped, SharedTyped, Tasks, Rest, TaskOf
  <1>25. ASSUME NEW n \in Nodes, Stops(n) PROVE Believed'
    BY <1>25 DEF Stops, Fault, TaskOf, Typed, TasksTyped, TaskType, NodesTyped, SharedTyped, Tasks, Rest, TaskOf
  <1>26. ASSUME NEW n \in Nodes, Starts(n) PROVE Believed'
    BY <1>26 DEF Starts, Typed, TasksTyped, TaskType, NodesTyped, SharedTyped, Tasks, Rest, TaskOf
  <1>27. ASSUME Lapses PROVE Believed'
    BY <1>27 DEF Lapses, Fault, Typed, TasksTyped, TaskType, NodesTyped, SharedTyped, Tasks, Rest, TaskOf
  <1>28. CASE UNCHANGED vars
    BY <1>28 DEF vars, Typed
  <1> QED
    BY <1>1, <1>2, <1>3, <1>4, <1>5, <1>6, <1>7, <1>8, <1>9, <1>10, <1>11, <1>12, <1>13, <1>14, <1>15, <1>16, <1>17, <1>18, <1>19, <1>20, <1>21, <1>22, <1>23, <1>24, <1>25, <1>26, <1>27, <1>28 DEF Next, Handled, Visit, Process

LEMMA InitInv == Init => LeaseInv
  <1> SUFFICES ASSUME Init PROVE LeaseInv
    OBVIOUS
  <1>1. \A n \in Nodes : TaskOf(n) \in TaskType /\ Rest \in TaskType
    BY LeaseConstants DEF Rest, TaskOf, TaskType, Stages, NoTimeline, Versions
  <1>2. \A t \in Tasks : t \in Visitors \/ t[2] \in Nodes
    BY DEF Tasks
  <1> DEFINE first(t) == IF t \in Visitors THEN Rest ELSE TaskOf(t[2])
  <1>9. \A t \in Tasks : first(t) \in TaskType
    <2>1. Rest \in TaskType
      BY LeaseConstants DEF Rest, TaskType, Stages, NoTimeline, Versions
    <2> QED
      BY <1>1, <1>2, <2>1
  <1>10. task = [t \in Tasks |-> first(t)]
    BY DEF Init
  <1> HIDE DEF first
  <1>3. TasksTyped
    BY <1>9, <1>10 DEF TasksTyped
  <1>4. RoomsTyped
    BY LeaseConstants DEF Init, RoomsTyped, RoomType, NoTimeline, Versions
  <1>5. NodesTyped
    BY LeaseConstants DEF Init, NodesTyped
  <1>8. SharedTyped
    <2>1. astray \in BOOLEAN
      BY DEF Init
    <2> QED
      BY <2>1, LeaseConstants DEF Init, SharedTyped, NoTimeline, Versions
  <1>6. Housed /\ Placed
    BY <1>2 DEF Init, Housed, Placed, Joined, Rest, TaskOf, At, Node
  <1>7. Believed
    BY DEF Init, Believed, Rest, TaskOf, At
  <1> QED
    BY <1>3, <1>4, <1>5, <1>6, <1>7, <1>8 DEF LeaseInv, Typed

(* The invariant holds always.                                              *)
THEOREM LeaseInvariant == Spec => []LeaseInv
  <1>1. LeaseInv /\ [Next]_vars => LeaseInv'
    BY TasksStep, RoomsStep, NodesStep, SharedStep, HousedStep, PlacedStep, BelievedStep
    DEF LeaseInv, Typed
  <1> QED
    BY <1>1, InitInv, PTL DEF Spec

(* hub.rs, cache.rs:134-193: whatever the number of nodes and tasks and the  *)
(* order of claims, renewals, late releases and deaths, two nodes believe    *)
(* they own the room only if one of them lost or guessed its lease.          *)
THEOREM OwnersAgree == Spec => []SoleOwner
  <1>1. LeaseInv => SoleOwner
    BY DEF LeaseInv, Believed, SoleOwner
  <1> QED
    BY <1>1, LeaseInvariant, PTL

------------------------------------------------------------------------------
(* The people in a room object, and the copy in Redis.                      *)

Claims == {"set", "held", "won", "lost", "error"}

(* Whoever claims has a reason, and no one else has.                        *)
Claiming == \A t \in Tasks : /\ task[t].for # "none" <=> task[t].pc \in Claims
                             /\ t \in Visitors => task[t].for # "renew"

(* A node's own tasks are its own.                                          *)
Homed == \A n \in Nodes : \A k \in Kinds : Node(<<k, n>>) = n

(* Only a running process works, and only it owns.                          *)
Alive == owned \subseteq up /\ \A t \in Tasks : At(t, "rest") \/ Node(t) \in up

Seated == \A v \in Visitors : At(v, "rest") <=> Node(v) = None

Listed == \A r \in DOMAIN rooms : \A v \in Visitors :
  v \in rooms[r].here <=> task[v].room = r /\ Present(v)

(* The mirror only goes forward, and what is about to be announced is in it. *)
Mirrored == \/ astray
            \/ /\ newest <= mirror
               /\ \A t \in Tasks : At(t, "announcing") => task[t].v <= mirror

(* A task of a node's own that moves is no visitor's.                       *)
LEMMA OwnTask ==
  ASSUME Homed, NEW n \in Nodes, NEW k \in Kinds
  PROVE  <<k, n>> \in Tasks /\ <<k, n>> \notin Visitors /\ Node(<<k, n>>) = n
  BY TaskNames DEF Homed, Kinds

(* The list stands when one task moves and nobody comes or goes by it.      *)
LEMMA ListedKept ==
  ASSUME Listed, UNCHANGED rooms, NEW u \in Tasks,
         \A t \in Tasks : t # u => task'[t] = task[t],
         u \in Visitors => (Present(u)' <=> Present(u)) /\ (task'[u].room = task[u].room \/ ~Present(u))
  PROVE  Listed'
  BY TaskNames DEF Listed, Present

(* What a step of a task does to the tasks and to who is where.             *)
LEMMA HandledMoves ==
  ASSUME Typed, NEW t \in Tasks, Handled(t)
  PROVE  /\ \A u \in Tasks : u # t => task'[u] = task[u]
         /\ task'[t].node = task[t].node
         /\ ~At(t, "rest") /\ UNCHANGED up
         /\ owned' \subseteq owned \cup {Node(t)}
  <1>1. ~At(t, "rest") /\ UNCHANGED up /\ owned' \subseteq owned \cup {Node(t)}
    BY DEF Handled, SetNX, Extend, RedisFails, TryClaim, Answered, Lost, AssumesAuthority, Forwards,
       Applies, Clones, Persists, Announces, At
  <1>2. CASE SetNX(t) \/ Extend(t) \/ RedisFails(t)
    BY <1>1, <1>2 DEF SetNX, Extend, RedisFails, Goto, Typed, TasksTyped, TaskType
  <1>3. CASE TryClaim(t)
    BY <1>1, <1>3 DEF TryClaim, Answered, Continues, Typed, TasksTyped, TaskType
  <1>4. CASE AssumesAuthority(t) \/ Forwards(t) \/ Applies(t)
    BY <1>1, <1>4 DEF AssumesAuthority, Asks, Forwards, Applies, Goto, Typed, TasksTyped, TaskType
  <1>5. CASE Clones(t) \/ Persists(t) \/ Announces(t)
    BY <1>1, <1>5 DEF Clones, Persists, Announces, Goto, Typed, TasksTyped, TaskType
  <1> QED
    BY <1>2, <1>3, <1>4, <1>5 DEF Handled

LEMMA VisitMoves ==
  ASSUME Typed, NEW v \in Visitors, Visit(v)
  PROVE  /\ \A u \in Tasks : u # v => task'[u] = task[u]
         /\ \/ ~At(v, "rest") /\ task'[v].node = task[v].node
            \/ task'[v] = Rest
            \/ task'[v].node \in up
         /\ UNCHANGED up /\ owned' \subseteq owned
  <1>1. v \in Tasks
    BY TaskNames
  <1>2. UNCHANGED up /\ owned' \subseteq owned
    BY DEF Visit, Enters, Inserts, Reads, Restores, Joins, Intends, Leaves, LooksAround, Removes,
       Releases
  <1>3. ASSUME NEW n \in Nodes, Enters(v, n)
        PROVE  /\ \A u \in Tasks : u # v => task'[u] = task[u]
               /\ task'[v].node \in up
    BY <1>1, <1>3 DEF Enters, Typed, TasksTyped, TaskType
  <1>4. CASE Inserts(v) \/ Reads(v) \/ Restores(v)
    BY <1>1, <1>2, <1>4 DEF Inserts, Reads, Restores, At, Typed, TasksTyped, TaskType
  <1>5. CASE Joins(v) \/ Intends(v) \/ Leaves(v)
    BY <1>1, <1>2, <1>5 DEF Joins, Intends, Leaves, Goto, At, Typed, TasksTyped, TaskType
  <1>6. CASE LooksAround(v) \/ Removes(v) \/ Releases(v)
    BY <1>1, <1>2, <1>6 DEF LooksAround, Removes, Releases, Goto, At, Typed, TasksTyped, TaskType
  <1> QED
    BY <1>2, <1>3, <1>4, <1>5, <1>6 DEF Visit

LEMMA ProcessMoves ==
  ASSUME Typed, NEW n \in Nodes,
         RenewLeases(n) \/ Relays(n) \/ Drains(n) \/ DrainReleases(n)
  PROVE  /\ UNCHANGED <<up, owned, rooms>>
         /\ \E k \in Kinds :
              /\ \A u \in Tasks : u # <<k, n>> => task'[u] = task[u]
              /\ task'[<<k, n>>].node = task[<<k, n>>].node
              /\ \/ n \in owned \cup up
                 \/ ~At(<<k, n>>, "rest")
                 \/ At(<<k, n>>, "rest")'
  <1>1. UNCHANGED <<up, owned, rooms>>
    BY DEF RenewLeases, Relays, Drains, DrainReleases
  <1>2. \A k \in Kinds : <<k, n>> \in Tasks
    BY TaskNames DEF Kinds
  <1>3. "renew" \in Kinds /\ "relay" \in Kinds /\ "drain" \in Kinds
    BY DEF Kinds
  <1>4. CASE RenewLeases(n)
    <2> DEFINE t == <<"renew", n>>
    <2>1. t \in Tasks /\ n \in owned /\ task' = [task EXCEPT ![t].pc = "set", ![t].for = "renew"]
      BY <1>2, <1>3, <1>4 DEF RenewLeases, Asks
    <2> HIDE DEF t
    <2>2. (\A u \in Tasks : u # t => task'[u] = task[u]) /\ task'[t].node = task[t].node
      BY <2>1 DEF Typed, TasksTyped, TaskType
    <2> QED
      BY <1>1, <1>3, <2>1, <2>2 DEF t
  <1>5. CASE Relays(n)
    <2> DEFINE t == <<"relay", n>>
    <2>1. /\ t \in Tasks /\ At(t, "rest")
          /\ \/ task' = task
             \/ n \in owned /\ task' = [task EXCEPT ![t].pc = "authority", ![t].room = cur[n]]
      BY <1>2, <1>3, <1>5 DEF Relays
    <2> HIDE DEF t
    <2>2. /\ \A u \in Tasks : u # t => task'[u] = task[u]
          /\ task'[t].node = task[t].node /\ (n \in owned \/ At(t, "rest")')
      BY <2>1 DEF At, Typed, TasksTyped, TaskType
    <2> QED
      BY <1>1, <1>3, <2>1, <2>2 DEF t
  <1>6. CASE Drains(n) \/ DrainReleases(n)
    <2> DEFINE t == <<"drain", n>>
    <2>1. /\ t \in Tasks /\ (n \in up \/ ~At(t, "rest"))
          /\ \E p : task' = [task EXCEPT ![t].pc = p]
      BY <1>2, <1>3, <1>6 DEF Drains, DrainReleases, Goto, At
    <2> HIDE DEF t
    <2>2. (\A u \in Tasks : u # t => task'[u] = task[u]) /\ task'[t].node = task[t].node
      BY <2>1, <1>2, <1>3 DEF Typed, TasksTyped, TaskType, t
    <2> QED
      BY <1>1, <1>3, <2>1, <2>2 DEF t
  <1> QED
    BY <1>4, <1>5, <1>6

(* Every step leaves a node its tasks.                                      *)
LEMMA HomedStep == ASSUME Typed, Homed, [Next]_vars PROVE Homed'
  <1> SUFFICES ASSUME NEW n \in Nodes, NEW k \in Kinds
               PROVE  Node(<<k, n>>)' = n
    BY DEF Homed
  <1> DEFINE own == <<k, n>>
  <1>1. own \in Tasks /\ own \notin Visitors /\ Node(own) = n
    BY OwnTask
  <1>2. ASSUME NEW t \in Tasks, Handled(t)
        PROVE  Node(own)' = n
    BY <1>1, <1>2, HandledMoves DEF Node
  <1>3. ASSUME NEW v \in Visitors, Visit(v)
        PROVE  Node(own)' = n
    BY <1>1, <1>3, VisitMoves DEF Node
  <1>4. ASSUME NEW m \in Nodes, RenewLeases(m) \/ Relays(m) \/ Drains(m) \/ DrainReleases(m)
        PROVE  Node(own)' = n
    <2>1. PICK l \in Kinds : /\ \A u \in Tasks : u # <<l, m>> => task'[u] = task[u]
                            /\ task'[<<l, m>>].node = task[<<l, m>>].node
      BY <1>4, ProcessMoves
    <2> QED
      BY <1>1, <2>1 DEF Node
  <1>5. ASSUME NEW m \in Nodes, Stops(m)
        PROVE  Node(own)' = n
    BY <1>1, <1>5 DEF Stops, Node, TaskOf, Rest
  <1>6. CASE Lapses \/ UNCHANGED vars \/ \E m \in Nodes : Starts(m)
    BY <1>1, <1>6 DEF Lapses, vars, Starts, Node
  <1> QED
    BY <1>2, <1>3, <1>4, <1>5, <1>6 DEF Next, Process

(* Every step leaves only running processes at work.                        *)
LEMMA AliveStep == ASSUME Typed, Placed, Homed, Alive, [Next]_vars PROVE Alive'
  <1>1. ASSUME NEW t \in Tasks, Handled(t)
        PROVE  Alive'
    BY <1>1, HandledMoves DEF Alive, At, Node
  <1>2. ASSUME NEW v \in Visitors, Visit(v)
        PROVE  Alive'
    <2>1. Rest.pc = "rest" /\ v \in Tasks
      BY TaskNames DEF Rest
    <2> QED
      BY <1>2, <2>1, VisitMoves DEF Alive, At, Node
  <1>3. ASSUME NEW n \in Nodes, RenewLeases(n) \/ Relays(n) \/ Drains(n) \/ DrainReleases(n)
        PROVE  Alive'
    <2>1. PICK k \in Kinds :
            /\ \A u \in Tasks : u # <<k, n>> => task'[u] = task[u]
            /\ task'[<<k, n>>].node = task[<<k, n>>].node
            /\ n \in owned \cup up \/ ~At(<<k, n>>, "rest") \/ At(<<k, n>>, "rest")'
      BY <1>3, ProcessMoves
    <2>2. <<k, n>> \in Tasks /\ Node(<<k, n>>) = n /\ UNCHANGED <<up, owned>>
      BY <1>3, OwnTask, ProcessMoves
    <2> QED
      BY <2>1, <2>2 DEF Alive, At, Node
  <1>4. ASSUME NEW n \in Nodes, Stops(n)
        PROVE  Alive'
    <2>1. /\ up' = up \ {n} /\ owned' = owned \ {n}
          /\ \A t \in Tasks : IF Node(t) # n THEN task'[t] = task[t] ELSE task'[t].pc = "rest"
      BY <1>4 DEF Stops, TaskOf, Rest, Node
    <2> QED
      BY <2>1 DEF Alive, At, Node
  <1>5. CASE Lapses \/ UNCHANGED vars \/ \E n \in Nodes : Starts(n)
    BY <1>5 DEF Lapses, vars, Starts, Alive, At, Node
  <1> QED
    BY <1>1, <1>2, <1>3, <1>4, <1>5 DEF Next, Process

LEMMA RelayKeepsList ==
  ASSUME Typed, Listed, NEW n \in Nodes, Relays(n)
  PROVE  Listed'
  <1>1. PICK k \in Kinds : \A u \in Tasks : u # <<k, n>> => task'[u] = task[u]
    BY ProcessMoves
  <1>2. UNCHANGED rooms /\ <<k, n>> \in Tasks /\ <<k, n>> \notin Visitors
    BY TaskNames DEF Kinds, Relays
  <1> QED
    BY <1>1, <1>2, ListedKept

(* Every step keeps reasons and claims together. *)
LEMMA ClaimingStep == ASSUME Typed, Claiming, [Next]_vars PROVE Claiming'
  <1> USE LeaseConstants, TaskNames DEF Claiming, Claims, At, Goto, Node, counters, ghosts, redis
  <1>1. ASSUME NEW t \in Tasks, SetNX(t) PROVE Claiming'
    BY <1>1 DEF SetNX, Granted, Typed, TasksTyped, TaskType, Rest, TaskOf
  <1>2. ASSUME NEW t \in Tasks, Extend(t) PROVE Claiming'
    BY <1>2 DEF Extend, Granted, Typed, TasksTyped, TaskType, Rest, TaskOf
  <1>3. ASSUME NEW t \in Tasks, RedisFails(t) PROVE Claiming'
    BY <1>3 DEF RedisFails, Fault, Typed, TasksTyped, TaskType, Rest, TaskOf
  <1>4. ASSUME NEW t \in Tasks, TryClaim(t) PROVE Claiming'
    BY <1>4 DEF TryClaim, Answered, Lost, Continues, AfterClaim, Typed, TasksTyped, TaskType, Rest, TaskOf
  <1>5. ASSUME NEW t \in Tasks, AssumesAuthority(t) PROVE Claiming'
    BY <1>5 DEF AssumesAuthority, Asks, Typed, TasksTyped, TaskType, Rest, TaskOf
  <1>6. ASSUME NEW t \in Tasks, Forwards(t) PROVE Claiming'
    BY <1>6 DEF Forwards, Fault, Typed, TasksTyped, TaskType, Rest, TaskOf
  <1>7. ASSUME NEW t \in Tasks, Applies(t) PROVE Claiming'
    BY <1>7 DEF Applies, Typed, TasksTyped, TaskType, Rest, TaskOf
  <1>8. ASSUME NEW t \in Tasks, Clones(t) PROVE Claiming'
    BY <1>8 DEF Clones, Typed, TasksTyped, TaskType, Rest, TaskOf
  <1>9. ASSUME NEW t \in Tasks, Persists(t) PROVE Claiming'
    BY <1>9 DEF Persists, Fault, Typed, TasksTyped, TaskType, Rest, TaskOf
  <1>10. ASSUME NEW t \in Tasks, Announces(t) PROVE Claiming'
    BY <1>10 DEF Announces, Typed, TasksTyped, TaskType, Rest, TaskOf
  <1>11. ASSUME NEW v \in Visitors, NEW n \in Nodes, Enters(v, n) PROVE Claiming'
    BY <1>11 DEF Enters, Typed, TasksTyped, TaskType, Rest, TaskOf
  <1>12. ASSUME NEW v \in Visitors, Inserts(v) PROVE Claiming'
    BY <1>12 DEF Inserts, Typed, TasksTyped, TaskType, Rest, TaskOf
  <1>13. ASSUME NEW v \in Visitors, Reads(v) PROVE Claiming'
    BY <1>13 DEF Reads, Fault, Typed, TasksTyped, TaskType, Rest, TaskOf
  <1>14. ASSUME NEW v \in Visitors, Restores(v) PROVE Claiming'
    BY <1>14 DEF Restores, Typed, TasksTyped, TaskType, Rest, TaskOf
  <1>15. ASSUME NEW v \in Visitors, Joins(v) PROVE Claiming'
    BY <1>15 DEF Joins, Typed, TasksTyped, TaskType, Rest, TaskOf
  <1>16. ASSUME NEW v \in Visitors, Intends(v) PROVE Claiming'
    BY <1>16 DEF Intends, Typed, TasksTyped, TaskType, Rest, TaskOf
  <1>17. ASSUME NEW v \in Visitors, Leaves(v) PROVE Claiming'
    BY <1>17 DEF Leaves, Typed, TasksTyped, TaskType, Rest, TaskOf
  <1>18. ASSUME NEW v \in Visitors, LooksAround(v) PROVE Claiming'
    BY <1>18 DEF LooksAround, Typed, TasksTyped, TaskType, Rest, TaskOf
  <1>19. ASSUME NEW v \in Visitors, Removes(v) PROVE Claiming'
    BY <1>19 DEF Removes, Typed, TasksTyped, TaskType, Rest, TaskOf
  <1>20. ASSUME NEW v \in Visitors, Releases(v) PROVE Claiming'
    BY <1>20 DEF Releases, Deleted, Typed, TasksTyped, TaskType, Rest, TaskOf
  <1>21. ASSUME NEW n \in Nodes, RenewLeases(n) PROVE Claiming'
    BY <1>21 DEF RenewLeases, Asks, Typed, TasksTyped, TaskType, Rest, TaskOf
  <1>22. ASSUME NEW n \in Nodes, Relays(n) PROVE Claiming'
    <2>1. PICK t \in Tasks : /\ t \notin Visitors /\ At(t, "rest")
                           /\ \/ task' = task
                              \/ task' = [task EXCEPT ![t].pc = "authority", ![t].room = cur[n]]
      BY <1>22 DEF Relays
    <2>2. CASE task' = task
      BY <2>2
    <2>3. CASE task' = [task EXCEPT ![t].pc = "authority", ![t].room = cur[n]]
      BY <2>1, <2>3 DEF Typed, TasksTyped, TaskType
    <2> QED
      BY <2>1, <2>2, <2>3
  <1>23. ASSUME NEW n \in Nodes, Drains(n) PROVE Claiming'
    BY <1>23 DEF Drains, Fault, Typed, TasksTyped, TaskType, Rest, TaskOf
  <1>24. ASSUME NEW n \in Nodes, DrainReleases(n) PROVE Claiming'
    BY <1>24 DEF DrainReleases, Deleted, Typed, TasksTyped, TaskType, Rest, TaskOf
  <1>25. ASSUME NEW n \in Nodes, Stops(n) PROVE Claiming'
    BY <1>25 DEF Stops, Fault, TaskOf, Typed, TasksTyped, TaskType, Rest, TaskOf
  <1>26. ASSUME NEW n \in Nodes, Starts(n) PROVE Claiming'
    BY <1>26 DEF Starts, Typed, TasksTyped, TaskType, Rest, TaskOf
  <1>27. CASE Lapses
    BY <1>27 DEF Lapses, Typed, TasksTyped, TaskType, Rest, TaskOf
  <1>28. CASE UNCHANGED vars
    BY <1>28 DEF vars, Typed, TasksTyped, TaskType, Rest, TaskOf
  <1> QED
    BY <1>1, <1>2, <1>3, <1>4, <1>5, <1>6, <1>7, <1>8, <1>9, <1>10, <1>11, <1>12, <1>13, <1>14, <1>15, <1>16, <1>17, <1>18, <1>19, <1>20, <1>21, <1>22, <1>23, <1>24, <1>25, <1>26, <1>27, <1>28 DEF Next, Handled, Visit, Process

(* Every step keeps visitors without a node outside. *)
LEMMA SeatedStep == ASSUME Typed, Claiming, Seated, [Next]_vars PROVE Seated'
  <1> USE LeaseConstants, TaskNames DEF Seated, Claiming, Claims, At, Goto, Node, counters, ghosts, redis
  <1>1. ASSUME NEW t \in Tasks, SetNX(t) PROVE Seated'
    BY <1>1 DEF SetNX, Granted, Typed, TasksTyped, TaskType, Rest, TaskOf
  <1>2. ASSUME NEW t \in Tasks, Extend(t) PROVE Seated'
    BY <1>2 DEF Extend, Granted, Typed, TasksTyped, TaskType, Rest, TaskOf
  <1>3. ASSUME NEW t \in Tasks, RedisFails(t) PROVE Seated'
    BY <1>3 DEF RedisFails, Fault, Typed, TasksTyped, TaskType, Rest, TaskOf
  <1>4. ASSUME NEW t \in Tasks, TryClaim(t) PROVE Seated'
    BY <1>4 DEF TryClaim, Answered, Lost, Continues, AfterClaim, Typed, TasksTyped, TaskType, Rest, TaskOf
  <1>5. ASSUME NEW t \in Tasks, AssumesAuthority(t) PROVE Seated'
    BY <1>5 DEF AssumesAuthority, Asks, Typed, TasksTyped, TaskType, Rest, TaskOf
  <1>6. ASSUME NEW t \in Tasks, Forwards(t) PROVE Seated'
    BY <1>6 DEF Forwards, Fault, Typed, TasksTyped, TaskType, Rest, TaskOf
  <1>7. ASSUME NEW t \in Tasks, Applies(t) PROVE Seated'
    BY <1>7 DEF Applies, Typed, TasksTyped, TaskType, Rest, TaskOf
  <1>8. ASSUME NEW t \in Tasks, Clones(t) PROVE Seated'
    BY <1>8 DEF Clones, Typed, TasksTyped, TaskType, Rest, TaskOf
  <1>9. ASSUME NEW t \in Tasks, Persists(t) PROVE Seated'
    BY <1>9 DEF Persists, Fault, Typed, TasksTyped, TaskType, Rest, TaskOf
  <1>10. ASSUME NEW t \in Tasks, Announces(t) PROVE Seated'
    BY <1>10 DEF Announces, Typed, TasksTyped, TaskType, Rest, TaskOf
  <1>11. ASSUME NEW v \in Visitors, NEW n \in Nodes, Enters(v, n) PROVE Seated'
    BY <1>11 DEF Enters, Typed, TasksTyped, TaskType, Rest, TaskOf
  <1>12. ASSUME NEW v \in Visitors, Inserts(v) PROVE Seated'
    BY <1>12 DEF Inserts, Typed, TasksTyped, TaskType, Rest, TaskOf
  <1>13. ASSUME NEW v \in Visitors, Reads(v) PROVE Seated'
    BY <1>13 DEF Reads, Fault, Typed, TasksTyped, TaskType, Rest, TaskOf
  <1>14. ASSUME NEW v \in Visitors, Restores(v) PROVE Seated'
    BY <1>14 DEF Restores, Typed, TasksTyped, TaskType, Rest, TaskOf
  <1>15. ASSUME NEW v \in Visitors, Joins(v) PROVE Seated'
    BY <1>15 DEF Joins, Typed, TasksTyped, TaskType, Rest, TaskOf
  <1>16. ASSUME NEW v \in Visitors, Intends(v) PROVE Seated'
    BY <1>16 DEF Intends, Typed, TasksTyped, TaskType, Rest, TaskOf
  <1>17. ASSUME NEW v \in Visitors, Leaves(v) PROVE Seated'
    BY <1>17 DEF Leaves, Typed, TasksTyped, TaskType, Rest, TaskOf
  <1>18. ASSUME NEW v \in Visitors, LooksAround(v) PROVE Seated'
    BY <1>18 DEF LooksAround, Typed, TasksTyped, TaskType, Rest, TaskOf
  <1>19. ASSUME NEW v \in Visitors, Removes(v) PROVE Seated'
    BY <1>19 DEF Removes, Typed, TasksTyped, TaskType, Rest, TaskOf
  <1>20. ASSUME NEW v \in Visitors, Releases(v) PROVE Seated'
    BY <1>20 DEF Releases, Deleted, Typed, TasksTyped, TaskType, Rest, TaskOf
  <1>21. ASSUME NEW n \in Nodes, RenewLeases(n) PROVE Seated'
    BY <1>21 DEF RenewLeases, Asks, Typed, TasksTyped, TaskType, Rest, TaskOf
  <1>22. ASSUME NEW n \in Nodes, Relays(n) PROVE Seated'
    BY <1>22 DEF Relays, Typed, TasksTyped, TaskType, Rest, TaskOf
  <1>23. ASSUME NEW n \in Nodes, Drains(n) PROVE Seated'
    BY <1>23 DEF Drains, Fault, Typed, TasksTyped, TaskType, Rest, TaskOf
  <1>24. ASSUME NEW n \in Nodes, DrainReleases(n) PROVE Seated'
    BY <1>24 DEF DrainReleases, Deleted, Typed, TasksTyped, TaskType, Rest, TaskOf
  <1>25. ASSUME NEW n \in Nodes, Stops(n) PROVE Seated'
    BY <1>25 DEF Stops, Fault, TaskOf, Typed, TasksTyped, TaskType, Rest, TaskOf
  <1>26. ASSUME NEW n \in Nodes, Starts(n) PROVE Seated'
    BY <1>26 DEF Starts, Typed, TasksTyped, TaskType, Rest, TaskOf
  <1>27. CASE Lapses
    BY <1>27 DEF Lapses, Typed, TasksTyped, TaskType, Rest, TaskOf
  <1>28. CASE UNCHANGED vars
    BY <1>28 DEF vars, Typed, TasksTyped, TaskType, Rest, TaskOf
  <1> QED
    BY <1>1, <1>2, <1>3, <1>4, <1>5, <1>6, <1>7, <1>8, <1>9, <1>10, <1>11, <1>12, <1>13, <1>14, <1>15, <1>16, <1>17, <1>18, <1>19, <1>20, <1>21, <1>22, <1>23, <1>24, <1>25, <1>26, <1>27, <1>28 DEF Next, Handled, Visit, Process

(* Every step keeps the list of those present. *)
LEMMA ListedStep == ASSUME Typed, Housed, Claiming, Listed, [Next]_vars PROVE Listed'
  <1> USE LeaseConstants, TaskNames DEF Listed, Present, Joined, Claiming, Claims, At, Goto, Node, counters, ghosts, redis
  <1>1. ASSUME NEW t \in Tasks, SetNX(t) PROVE Listed'
    <2>1. UNCHANGED rooms /\ \A u \in Tasks : u # t => task'[u] = task[u]
      BY <1>1 DEF SetNX, Granted, Typed, TasksTyped
    <2>2. t \in Visitors => (Present(t)' <=> Present(t))
                           /\ (task'[t].room = task[t].room \/ ~Present(t))
      BY <1>1 DEF SetNX, Granted, Typed, TasksTyped, TaskType, Rest
    <2> QED
      BY <2>1, <2>2, ListedKept
  <1>2. ASSUME NEW t \in Tasks, Extend(t) PROVE Listed'
    <2>1. UNCHANGED rooms /\ \A u \in Tasks : u # t => task'[u] = task[u]
      BY <1>2 DEF Extend, Granted, Typed, TasksTyped
    <2>2. t \in Visitors => (Present(t)' <=> Present(t))
                           /\ (task'[t].room = task[t].room \/ ~Present(t))
      BY <1>2 DEF Extend, Granted, Typed, TasksTyped, TaskType, Rest
    <2> QED
      BY <2>1, <2>2, ListedKept
  <1>3. ASSUME NEW t \in Tasks, RedisFails(t) PROVE Listed'
    BY <1>3 DEF RedisFails, Fault, Typed, TasksTyped, TaskType, Rest, TaskOf, RoomsTyped, RoomType
  <1>4. ASSUME NEW t \in Tasks, TryClaim(t) PROVE Listed'
    BY <1>4 DEF TryClaim, Answered, Lost, Continues, AfterClaim, Typed, TasksTyped, TaskType, Rest, TaskOf, RoomsTyped, RoomType
  <1>5. ASSUME NEW t \in Tasks, AssumesAuthority(t) PROVE Listed'
    BY <1>5 DEF AssumesAuthority, Asks, Typed, TasksTyped, TaskType, Rest, TaskOf, RoomsTyped, RoomType
  <1>6. ASSUME NEW t \in Tasks, Forwards(t) PROVE Listed'
    BY <1>6 DEF Forwards, Fault, Typed, TasksTyped, TaskType, Rest, TaskOf, RoomsTyped, RoomType
  <1>7. ASSUME NEW t \in Tasks, Applies(t) PROVE Listed'
    BY <1>7 DEF Applies, Typed, TasksTyped, TaskType, Rest, TaskOf, RoomsTyped, RoomType
  <1>8. ASSUME NEW t \in Tasks, Clones(t) PROVE Listed'
    BY <1>8 DEF Clones, Typed, TasksTyped, TaskType, Rest, TaskOf, RoomsTyped, RoomType
  <1>9. ASSUME NEW t \in Tasks, Persists(t) PROVE Listed'
    BY <1>9 DEF Persists, Fault, Typed, TasksTyped, TaskType, Rest, TaskOf, RoomsTyped, RoomType
  <1>10. ASSUME NEW t \in Tasks, Announces(t) PROVE Listed'
    BY <1>10 DEF Announces, Typed, TasksTyped, TaskType, Rest, TaskOf, RoomsTyped, RoomType
  <1>11. ASSUME NEW v \in Visitors, NEW n \in Nodes, Enters(v, n) PROVE Listed'
    BY <1>11 DEF Enters, Typed, TasksTyped, TaskType, Rest, TaskOf, RoomsTyped, RoomType
  <1>12. ASSUME NEW v \in Visitors, Inserts(v) PROVE Listed'
    <2>1. UNCHANGED rooms /\ \A u \in Tasks : u # v => task'[u] = task[u]
      BY <1>12 DEF Inserts, Typed, TasksTyped
    <2>2. v \in Visitors => (Present(v)' <=> Present(v))
                           /\ (task'[v].room = task[v].room \/ ~Present(v))
      BY <1>12 DEF Inserts, Typed, TasksTyped, TaskType, Rest
    <2> QED
      BY <2>1, <2>2, ListedKept
  <1>13. ASSUME NEW v \in Visitors, Reads(v) PROVE Listed'
    <2>1. UNCHANGED rooms /\ \A u \in Tasks : u # v => task'[u] = task[u]
      BY <1>13 DEF Reads, Typed, TasksTyped
    <2>2. v \in Visitors => (Present(v)' <=> Present(v))
                           /\ (task'[v].room = task[v].room \/ ~Present(v))
      BY <1>13 DEF Reads, Typed, TasksTyped, TaskType, Rest
    <2> QED
      BY <2>1, <2>2, ListedKept
  <1>14. ASSUME NEW v \in Visitors, Restores(v) PROVE Listed'
    BY <1>14 DEF Restores, Typed, TasksTyped, TaskType, Rest, TaskOf, RoomsTyped, RoomType
  <1>15. ASSUME NEW v \in Visitors, Joins(v) PROVE Listed'
    BY <1>15 DEF Joins, Typed, TasksTyped, TaskType, Rest, TaskOf, RoomsTyped, RoomType
  <1>16. ASSUME NEW v \in Visitors, Intends(v) PROVE Listed'
    BY <1>16 DEF Intends, Typed, TasksTyped, TaskType, Rest, TaskOf, RoomsTyped, RoomType
  <1>17. ASSUME NEW v \in Visitors, Leaves(v) PROVE Listed'
    <2> DEFINE q == task[v].room
    <2>1. q \in 1 .. MaxVisits
      BY <1>17 DEF Leaves, Housed, Typed, TasksTyped, TaskType
    <2>2. /\ task'[v].room = q /\ ~Present(v)'
          /\ \A u \in Visitors : u # v => task'[u] = task[u]
      BY <1>17 DEF Leaves, Typed, TasksTyped, TaskType
    <2>3. rooms' = [rooms EXCEPT ![q].here = @ \ {v}]
      BY <1>17 DEF Leaves
    <2> HIDE DEF q
    <2>4. DOMAIN rooms' = DOMAIN rooms /\ rooms'[q].here = rooms[q].here \ {v}
          /\ \A r \in DOMAIN rooms : r # q => rooms'[r] = rooms[r]
      BY <2>1, <2>3 DEF Typed, RoomsTyped, RoomType
    <2>5. \A r \in DOMAIN rooms : v \notin rooms'[r].here
      BY <1>17, <2>4 DEF q
    <2>6. \A r \in DOMAIN rooms : \A u \in Visitors :
            u # v => (u \in rooms'[r].here <=> u \in rooms[r].here)
      BY <2>4
    <2> QED
      BY <2>2, <2>4, <2>5, <2>6
  <1>18. ASSUME NEW v \in Visitors, LooksAround(v) PROVE Listed'
    <2>1. UNCHANGED rooms /\ \A u \in Tasks : u # v => task'[u] = task[u]
      BY <1>18 DEF LooksAround, Typed, TasksTyped
    <2>2. v \in Visitors => (Present(v)' <=> Present(v))
                           /\ (task'[v].room = task[v].room \/ ~Present(v))
      BY <1>18 DEF LooksAround, Typed, TasksTyped, TaskType, Rest
    <2> QED
      BY <2>1, <2>2, ListedKept
  <1>19. ASSUME NEW v \in Visitors, Removes(v) PROVE Listed'
    <2>1. UNCHANGED rooms /\ \A u \in Tasks : u # v => task'[u] = task[u]
      BY <1>19 DEF Removes, Typed, TasksTyped
    <2>2. v \in Visitors => (Present(v)' <=> Present(v))
                           /\ (task'[v].room = task[v].room \/ ~Present(v))
      BY <1>19 DEF Removes, Typed, TasksTyped, TaskType, Rest
    <2> QED
      BY <2>1, <2>2, ListedKept
  <1>20. ASSUME NEW v \in Visitors, Releases(v) PROVE Listed'
    <2>1. UNCHANGED rooms /\ \A u \in Tasks : u # v => task'[u] = task[u]
      BY <1>20 DEF Releases, Typed, TasksTyped
    <2>2. v \in Visitors => (Present(v)' <=> Present(v))
                           /\ (task'[v].room = task[v].room \/ ~Present(v))
      BY <1>20 DEF Releases, Typed, TasksTyped, TaskType, Rest
    <2> QED
      BY <2>1, <2>2, ListedKept
  <1>21. ASSUME NEW n \in Nodes, RenewLeases(n) PROVE Listed'
    BY <1>21 DEF RenewLeases, Asks, Typed, TasksTyped, TaskType, Rest, TaskOf, RoomsTyped, RoomType
  <1>22. ASSUME NEW n \in Nodes, Relays(n) PROVE Listed'
    BY <1>22, RelayKeepsList
  <1>23. ASSUME NEW n \in Nodes, Drains(n) PROVE Listed'
    BY <1>23 DEF Drains, Fault, Typed, TasksTyped, TaskType, Rest, TaskOf, RoomsTyped, RoomType
  <1>24. ASSUME NEW n \in Nodes, DrainReleases(n) PROVE Listed'
    BY <1>24 DEF DrainReleases, Deleted, Typed, TasksTyped, TaskType, Rest, TaskOf, RoomsTyped, RoomType
  <1>25. ASSUME NEW n \in Nodes, Stops(n) PROVE Listed'
    BY <1>25 DEF Stops, Fault, TaskOf, Typed, TasksTyped, TaskType, Rest, TaskOf, RoomsTyped, RoomType
  <1>26. ASSUME NEW n \in Nodes, Starts(n) PROVE Listed'
    BY <1>26 DEF Starts, Typed, TasksTyped, TaskType, Rest, TaskOf, RoomsTyped, RoomType
  <1>27. CASE Lapses
    BY <1>27 DEF Lapses, Typed, TasksTyped, TaskType, Rest, TaskOf, RoomsTyped, RoomType
  <1>28. CASE UNCHANGED vars
    BY <1>28 DEF vars, Typed, TasksTyped, TaskType, Rest, TaskOf, RoomsTyped, RoomType
  <1> QED
    BY <1>1, <1>2, <1>3, <1>4, <1>5, <1>6, <1>7, <1>8, <1>9, <1>10, <1>11, <1>12, <1>13, <1>14, <1>15, <1>16, <1>17, <1>18, <1>19, <1>20, <1>21, <1>22, <1>23, <1>24, <1>25, <1>26, <1>27, <1>28 DEF Next, Handled, Visit, Process

(* Every step leaves the newest timeline in the mirror, or astray. *)
LEMMA MirroredStep == ASSUME Typed, Mirrored, [Next]_vars PROVE Mirrored'
  <1> USE LeaseConstants, TaskNames DEF Mirrored, At, Goto, Node, counters, ghosts, redis
  <1>1. ASSUME NEW t \in Tasks, SetNX(t) PROVE Mirrored'
    BY <1>1 DEF SetNX, Granted, Typed, TasksTyped, TaskType, Rest, TaskOf, SharedTyped, Versions
  <1>2. ASSUME NEW t \in Tasks, Extend(t) PROVE Mirrored'
    BY <1>2 DEF Extend, Granted, Typed, TasksTyped, TaskType, Rest, TaskOf, SharedTyped, Versions
  <1>3. ASSUME NEW t \in Tasks, RedisFails(t) PROVE Mirrored'
    BY <1>3 DEF RedisFails, Fault, Typed, TasksTyped, TaskType, Rest, TaskOf, SharedTyped, Versions
  <1>4. ASSUME NEW t \in Tasks, TryClaim(t) PROVE Mirrored'
    BY <1>4 DEF TryClaim, Answered, Lost, Continues, AfterClaim, Typed, TasksTyped, TaskType, Rest, TaskOf, SharedTyped, Versions
  <1>5. ASSUME NEW t \in Tasks, AssumesAuthority(t) PROVE Mirrored'
    BY <1>5 DEF AssumesAuthority, Asks, Typed, TasksTyped, TaskType, Rest, TaskOf, SharedTyped, Versions
  <1>6. ASSUME NEW t \in Tasks, Forwards(t) PROVE Mirrored'
    BY <1>6 DEF Forwards, Fault, Typed, TasksTyped, TaskType, Rest, TaskOf, SharedTyped, Versions
  <1>7. ASSUME NEW t \in Tasks, Applies(t) PROVE Mirrored'
    BY <1>7 DEF Applies, Typed, TasksTyped, TaskType, Rest, TaskOf, SharedTyped, Versions
  <1>8. ASSUME NEW t \in Tasks, Clones(t) PROVE Mirrored'
    BY <1>8 DEF Clones, Typed, TasksTyped, TaskType, Rest, TaskOf, SharedTyped, Versions
  <1>9. ASSUME NEW t \in Tasks, Persists(t) PROVE Mirrored'
    <2>1. /\ task[t].v \in Versions /\ mirror \in Versions /\ newest \in Versions
          /\ \A u \in Tasks : task[u].v \in Versions
      BY DEF Typed, TasksTyped, TaskType, SharedTyped
    <2>2. /\ task'[t].v = task[t].v /\ \A u \in Tasks : u # t => task'[u] = task[u]
          /\ newest' = newest
      BY <1>9 DEF Persists, Typed, TasksTyped, TaskType
    <2>3. CASE astray'
      BY <2>3
    <2>4. CASE ~astray'
      <3>1. mirror' = task[t].v /\ ~astray /\ ~(task[t].v < mirror)
        BY <1>9, <2>4 DEF Persists
      <3>2. mirror <= mirror'
        BY <2>1, <3>1 DEF Versions
      <3>3. newest' <= mirror' /\ \A u \in Tasks : u # t /\ At(u, "announcing") => task[u].v <= mirror'
        BY <2>1, <2>2, <3>1, <3>2 DEF Versions
      <3>4. task'[t].v <= mirror'
        BY <2>1, <2>2, <3>1 DEF Versions
      <3> QED
        BY <2>2, <3>3, <3>4
    <2> QED
      BY <2>3, <2>4
  <1>10. ASSUME NEW t \in Tasks, Announces(t) PROVE Mirrored'
    BY <1>10 DEF Announces, Typed, TasksTyped, TaskType, Rest, TaskOf, SharedTyped, Versions
  <1>11. ASSUME NEW v \in Visitors, NEW n \in Nodes, Enters(v, n) PROVE Mirrored'
    BY <1>11 DEF Enters, Typed, TasksTyped, TaskType, Rest, TaskOf, SharedTyped, Versions
  <1>12. ASSUME NEW v \in Visitors, Inserts(v) PROVE Mirrored'
    BY <1>12 DEF Inserts, Typed, TasksTyped, TaskType, Rest, TaskOf, SharedTyped, Versions
  <1>13. ASSUME NEW v \in Visitors, Reads(v) PROVE Mirrored'
    BY <1>13 DEF Reads, Fault, Typed, TasksTyped, TaskType, Rest, TaskOf, SharedTyped, Versions
  <1>14. ASSUME NEW v \in Visitors, Restores(v) PROVE Mirrored'
    BY <1>14 DEF Restores, Typed, TasksTyped, TaskType, Rest, TaskOf, SharedTyped, Versions
  <1>15. ASSUME NEW v \in Visitors, Joins(v) PROVE Mirrored'
    BY <1>15 DEF Joins, Typed, TasksTyped, TaskType, Rest, TaskOf, SharedTyped, Versions
  <1>16. ASSUME NEW v \in Visitors, Intends(v) PROVE Mirrored'
    BY <1>16 DEF Intends, Typed, TasksTyped, TaskType, Rest, TaskOf, SharedTyped, Versions
  <1>17. ASSUME NEW v \in Visitors, Leaves(v) PROVE Mirrored'
    BY <1>17 DEF Leaves, Typed, TasksTyped, TaskType, Rest, TaskOf, SharedTyped, Versions
  <1>18. ASSUME NEW v \in Visitors, LooksAround(v) PROVE Mirrored'
    BY <1>18 DEF LooksAround, Typed, TasksTyped, TaskType, Rest, TaskOf, SharedTyped, Versions
  <1>19. ASSUME NEW v \in Visitors, Removes(v) PROVE Mirrored'
    BY <1>19 DEF Removes, Typed, TasksTyped, TaskType, Rest, TaskOf, SharedTyped, Versions
  <1>20. ASSUME NEW v \in Visitors, Releases(v) PROVE Mirrored'
    BY <1>20 DEF Releases, Deleted, Typed, TasksTyped, TaskType, Rest, TaskOf, SharedTyped, Versions
  <1>21. ASSUME NEW n \in Nodes, RenewLeases(n) PROVE Mirrored'
    BY <1>21 DEF RenewLeases, Asks, Typed, TasksTyped, TaskType, Rest, TaskOf, SharedTyped, Versions
  <1>22. ASSUME NEW n \in Nodes, Relays(n) PROVE Mirrored'
    <2>1. /\ <<"relay", n>> \in Tasks /\ UNCHANGED <<mirror, newest, astray>>
          /\ \A u \in Tasks : u # <<"relay", n>> => task'[u] = task[u]
      BY <1>22 DEF Relays, Typed, TasksTyped
    <2>2. task' = task \/ task'[<<"relay", n>>].pc = "authority"
      BY <1>22, <2>1 DEF Relays, Typed, TasksTyped, TaskType
    <2> QED
      BY <2>1, <2>2
  <1>23. ASSUME NEW n \in Nodes, Drains(n) PROVE Mirrored'
    <2>1. /\ mirror \in Versions /\ newest \in Versions /\ newest' = newest
          /\ \A u \in Tasks : task[u].v \in Versions
          /\ \A m \in Nodes : cur[m] # 0 => rooms[cur[m]].tl \in Versions
      BY <1>23 DEF Drains, Typed, TasksTyped, TaskType, SharedTyped, NodesTyped, RoomsTyped, RoomType
    <2>2. /\ <<"drain", n>> \in Tasks /\ \A u \in Tasks : u # <<"drain", n>> => task'[u] = task[u]
          /\ task'[<<"drain", n>>].pc \in {"releasing", "drained"}
      BY <1>23, StageNames DEF Drains, Typed, TasksTyped, TaskType
    <2>3. astray' \/ (~astray /\ mirror <= mirror' /\ mirror' \in Versions)
      <3>1. CASE UNCHANGED <<mirror, astray>>
        BY <2>1, <3>1 DEF Versions, SharedTyped, Typed
      <3>2. CASE ~UNCHANGED <<mirror, astray>>
        <4>1. PICK x \in Versions : mirror' = x /\ (astray \/ x < mirror => astray')
          BY <1>23, <2>1, <3>2 DEF Drains
        <4> QED
          BY <2>1, <4>1 DEF Versions
      <3> QED
        BY <3>1, <3>2
    <2>4. \A u \in Tasks : At(u, "announcing")' => At(u, "announcing") /\ task'[u].v = task[u].v
      BY <2>2
    <2> QED
      BY <2>1, <2>3, <2>4 DEF Versions
  <1>24. ASSUME NEW n \in Nodes, DrainReleases(n) PROVE Mirrored'
    BY <1>24 DEF DrainReleases, Deleted, Typed, TasksTyped, TaskType, Rest, TaskOf, SharedTyped, Versions
  <1>25. ASSUME NEW n \in Nodes, Stops(n) PROVE Mirrored'
    BY <1>25 DEF Stops, Fault, TaskOf, Typed, TasksTyped, TaskType, Rest, TaskOf, SharedTyped, Versions
  <1>26. ASSUME NEW n \in Nodes, Starts(n) PROVE Mirrored'
    BY <1>26 DEF Starts, Typed, TasksTyped, TaskType, Rest, TaskOf, SharedTyped, Versions
  <1>27. CASE Lapses
    BY <1>27 DEF Lapses, Typed, TasksTyped, TaskType, Rest, TaskOf, SharedTyped, Versions
  <1>28. CASE UNCHANGED vars
    BY <1>28 DEF vars, Typed, TasksTyped, TaskType, Rest, TaskOf, SharedTyped, Versions
  <1> QED
    BY <1>1, <1>2, <1>3, <1>4, <1>5, <1>6, <1>7, <1>8, <1>9, <1>10, <1>11, <1>12, <1>13, <1>14, <1>15, <1>16, <1>17, <1>18, <1>19, <1>20, <1>21, <1>22, <1>23, <1>24, <1>25, <1>26, <1>27, <1>28 DEF Next, Handled, Visit, Process

LEMMA InitLists == Init => Claiming /\ Homed /\ Alive /\ Seated /\ Listed /\ Mirrored
  <1> SUFFICES ASSUME Init PROVE Claiming /\ Homed /\ Alive /\ Seated /\ Listed /\ Mirrored
    OBVIOUS
  <1>1. \A t \in Tasks : /\ task[t].for = "none" /\ At(t, "rest")
                         /\ t \in Visitors => task[t] = Rest
    BY DEF Init, Rest, TaskOf, At
  <1>2. Claiming /\ Alive
    BY <1>1 DEF Init, Claiming, Claims, Alive, At
  <1>7. Mirrored
    BY <1>1 DEF Init, Mirrored, At, NoTimeline
  <1>3. Homed
    BY TaskNames DEF Init, Homed, Kinds, Node, TaskOf, Rest
  <1>4. \A v \in Visitors : task[v] = Rest /\ v \in Tasks
    BY <1>1, TaskNames
  <1>5. Rest.node = None /\ Rest.pc = "rest" /\ Rest.for = "none"
    BY DEF Rest
  <1>6. Seated /\ Listed
    BY <1>4, <1>5 DEF Init, Seated, Listed, Present, Joined, At, Node
  <1> QED
    BY <1>2, <1>3, <1>6, <1>7

(* The list of a room is exactly the people whose socket is in it, only a    *)
(* running process owns, and every variable has its type, whatever sockets   *)
(* come and go with the claims of others under way (hub.rs get_or_create,    *)
(* attach, detach, release).                                                 *)
THEOREM LeaseTypes == Spec => []LeaseTypeOK
  <1>1. /\ LeaseInv /\ Claiming /\ Homed /\ Alive /\ Seated /\ Listed /\ [Next]_vars
        => Claiming' /\ Homed' /\ Alive' /\ Seated' /\ Listed'
    BY ClaimingStep, HomedStep, AliveStep, SeatedStep, ListedStep DEF LeaseInv
  <1>2. LeaseInv /\ Alive /\ Seated /\ Listed => LeaseTypeOK
    BY DEF LeaseInv, Alive, Seated, Listed, LeaseTypeOK
  <1> QED
    BY <1>1, <1>2, InitLists, LeaseInvariant, PTL DEF Spec

(* hub.rs:87-91, publish_timeline: a new owner never restores less than      *)
(* people were told, for any number of nodes and any interleaving of the     *)
(* mirror writes and announcements, unless a write failed or was overtaken.  *)
THEOREM MirrorIsNewest == Spec => []NewestIsMirrored
  <1>1. LeaseInv /\ Mirrored /\ [Next]_vars => Mirrored'
    BY MirroredStep DEF LeaseInv
  <1>2. Mirrored => NewestIsMirrored
    BY DEF Mirrored, NewestIsMirrored
  <1> QED
    BY <1>1, <1>2, InitLists, LeaseInvariant, PTL DEF Spec

================================================================================
