------------------------------- MODULE RoomLease -------------------------------
(***************************************************************************)
(* One room on several server nodes: the lease in Redis that says which    *)
(* node may change the timeline, the room object each node keeps while it  *)
(* has sockets for it, and the copy of the timeline in Redis from which a  *)
(* new owner goes on (apps/server/src/realtime/hub.rs, the claim and        *)
(* release scripts of cache.rs, assume_authority of session.rs, relay.rs).  *)
(* Every task of a node is interleaved at each of its awaits.              *)
(*                                                                         *)
(* A timeline is its version.  A node's id is drawn when its process       *)
(* starts, so a process that dies leaves a lease in a name nobody bears    *)
(* (Dead).  The time to live of a lease is the action Lapses.              *)
(***************************************************************************)
EXTENDS Integers, FiniteSets

CONSTANTS Nodes, Visitors, None, Dead,
          MaxVisits,    \* times somebody opens the room's page
          MaxIntents,   \* changes people ask for
          MaxFaults     \* crashes, drains, errors and lapses under a live owner

ASSUME LeaseConstants ==
  /\ None \notin Nodes /\ Dead \notin Nodes /\ None # Dead
  /\ Visitors \cap ({"renew", "relay", "drain"} \X Nodes) = {}
  /\ MaxVisits \in Nat /\ MaxIntents \in Nat /\ MaxFaults \in Nat

VARIABLES key,       \* Redis: who holds the room's lease
          mirror,    \* Redis: the timeline written last
          up,        \* the nodes whose process runs
          cur,       \* Hub.rooms: the room object a node finds by the room's id
          owned,     \* Hub.owned: the nodes that believe they hold the lease
          rooms,     \* the room objects: their timeline and the people in it
          task,      \* where each task stands
          inbox,     \* intents forwarded to a node and not yet looked at
          made,      \* room objects built
          visits, intents, faults,   \* counters of the bounds
          newest,    \* the newest timeline announced to anybody
          doubt,     \* nodes that lost what they were granted, or guessed
          astray     \* a timeline was changed or mirrored behind the newest

vars == <<key, mirror, up, cur, owned, rooms, task, inbox, made, visits, intents,
          faults, newest, doubt, astray>>
redis == <<key, mirror>>
ghosts == <<newest, doubt, astray>>
counters == <<made, visits, intents, faults>>

NoTimeline == -1
Versions == -1 .. MaxIntents
(* A node's own tasks: the renewal ticker, the intent relay, the drain.      *)
Kinds == {"renew", "relay", "drain"}
Tasks == Visitors \cup (Kinds \X Nodes)
Rest == [pc |-> "rest", for |-> "none", node |-> None, room |-> 0, v |-> NoTimeline]
TaskOf(n) == [Rest EXCEPT !.node = n]

Init == /\ key = None /\ mirror = NoTimeline
        /\ up = Nodes /\ cur = [n \in Nodes |-> 0] /\ owned = {}
        /\ rooms = [r \in 1 .. MaxVisits |-> [tl |-> NoTimeline, here |-> {}]]
        /\ task = [t \in Tasks |-> IF t \in Visitors THEN Rest ELSE TaskOf(t[2])]
        /\ inbox = [n \in Nodes |-> 0]
        /\ made = 0 /\ visits = 0 /\ intents = 0 /\ faults = 0
        /\ newest = NoTimeline /\ doubt = {} /\ astray = FALSE

At(t, pc) == task[t].pc = pc
Goto(t, pc) == task' = [task EXCEPT ![t].pc = pc]
Node(t) == task[t].node
Fault == faults < MaxFaults /\ faults' = faults + 1

(***************************************************************************)
(* Claiming: SET NX, then compare-and-extend, then the answer is acted on.  *)
(***************************************************************************)
Asks(t, why) == task' = [task EXCEPT ![t].pc = "set", ![t].for = why]

Granted(n) == doubt' = doubt \ {n}

SetNX(t) ==
  /\ At(t, "set")
  /\ IF key = None THEN key' = Node(t) /\ Granted(Node(t)) /\ Goto(t, "won")
                   ELSE UNCHANGED <<key, doubt>> /\ Goto(t, "held")
  /\ UNCHANGED <<mirror, up, cur, owned, rooms, inbox, counters, newest, astray>>

(* A plausible bug: EXPIRE without the comparison.                          *)
RenewForAnyone(t) ==
  /\ At(t, "held")
  /\ key # None /\ Granted(Node(t)) /\ Goto(t, "won")
  /\ UNCHANGED <<redis, up, cur, owned, rooms, inbox, counters, newest, astray>>

Extend(t) ==
  /\ At(t, "held")
  /\ IF key = Node(t) THEN Granted(Node(t)) /\ Goto(t, "won")
                      ELSE UNCHANGED doubt /\ Goto(t, "lost")
  /\ UNCHANGED <<redis, up, cur, owned, rooms, inbox, counters, newest, astray>>

RedisFails(t) ==
  /\ task[t].pc \in {"set", "held"} /\ Fault /\ Goto(t, "error")
  /\ UNCHANGED <<redis, up, cur, owned, rooms, inbox, made, visits, intents, ghosts>>

(* What the caller of try_claim goes on with.                               *)
AfterClaim(t, won) ==
  CASE task[t].for = "room"   -> IF won THEN "restoring" ELSE "joining"
    [] task[t].for = "intent" -> IF won THEN "acting" ELSE "forwarding"
    [] OTHER                  -> "rest"

Continues(t, won) ==
  task' = [task EXCEPT ![t].pc = AfterClaim(t, won), ![t].for = "none"]

(* A plausible bug: an answer of no is not remembered.                      *)
LostKept(t) == At(t, "lost") /\ UNCHANGED <<owned, doubt>>

Lost(t) == At(t, "lost") /\ owned' = owned \ {Node(t)} /\ UNCHANGED doubt

(* An error counts as a grant: the node goes on alone.                      *)
Answered(t) ==
  \/ /\ At(t, "won") /\ owned' = owned \cup {Node(t)} /\ UNCHANGED doubt
     /\ Continues(t, TRUE)
  \/ Lost(t) /\ Continues(t, FALSE)
  \/ /\ At(t, "error") /\ owned' = owned \cup {Node(t)} /\ doubt' = doubt \cup {Node(t)}
     /\ Continues(t, TRUE)

TryClaim(t) ==
  /\ Answered(t)
  /\ UNCHANGED <<redis, up, cur, rooms, inbox, counters, newest, astray>>

(***************************************************************************)
(* A visitor's socket: get_or_create, attach, detach, release.             *)
(***************************************************************************)
Enters(v, n) ==
  /\ At(v, "rest") /\ n \in up /\ ~At(<<"drain", n>>, "drained")
  /\ task' = [task EXCEPT ![v].node = n, ![v].room = cur[n],
                ![v].pc = IF cur[n] # 0 THEN "joining" ELSE "reading"]
  /\ visits < MaxVisits /\ visits' = visits + 1
  /\ UNCHANGED <<redis, up, cur, owned, rooms, inbox, made, intents, faults, ghosts>>

(* The row was read.  The object of whoever was first is kept; both claim.   *)
Inserts(v) ==
  /\ At(v, "reading")
  /\ LET n == Node(v) IN
     \/ /\ cur[n] = 0 /\ made < MaxVisits
        /\ made' = made + 1 /\ cur' = [cur EXCEPT ![n] = made']
        /\ task' = [task EXCEPT ![v].pc = "set", ![v].for = "room", ![v].room = made']
     \/ /\ cur[n] # 0 /\ UNCHANGED <<made, cur>>
        /\ task' = [task EXCEPT ![v].pc = "set", ![v].for = "room", ![v].room = cur[n]]
  /\ UNCHANGED <<redis, up, owned, rooms, inbox, visits, intents, faults, ghosts>>

(* restore_timeline: a failing GET means an idle timeline.                  *)
Reads(v) ==
  /\ At(v, "restoring")
  /\ \/ /\ task' = [task EXCEPT ![v].pc = "restored", ![v].v = mirror]
        /\ UNCHANGED <<faults, astray>>
     \/ /\ Fault /\ astray' = TRUE
        /\ task' = [task EXCEPT ![v].pc = "restored", ![v].v = NoTimeline]
  /\ UNCHANGED <<redis, up, cur, owned, rooms, inbox, made, visits, intents, newest, doubt>>

Restores(v) ==
  /\ At(v, "restored")
  /\ task' = [task EXCEPT ![v].pc = "joining", ![v].v = NoTimeline]
  /\ rooms' = [rooms EXCEPT ![task[v].room].tl =
                 IF task[v].v = NoTimeline THEN 0 ELSE task[v].v]
  /\ UNCHANGED <<redis, up, cur, owned, inbox, counters, ghosts>>

(* attach, and the snapshot, which builds an idle timeline where there is   *)
(* none: a node that is not the owner has no other.                         *)
Joins(v) ==
  /\ At(v, "joining") /\ Goto(v, "in")
  /\ rooms' = [rooms EXCEPT ![task[v].room] =
                 [tl |-> IF @.tl = NoTimeline THEN 0 ELSE @.tl, here |-> @.here \cup {v}]]
  /\ UNCHANGED <<redis, up, cur, owned, inbox, counters, ghosts>>

(* A plausible bug: a torn down socket stays in the room.                    *)
LeavesBehind(v) ==
  /\ At(v, "in") /\ Goto(v, "leaving")
  /\ UNCHANGED <<redis, up, cur, owned, rooms, inbox, counters, ghosts>>

Leaves(v) ==
  /\ At(v, "in") /\ Goto(v, "leaving")
  /\ rooms' = [rooms EXCEPT ![task[v].room].here = @ \ {v}]
  /\ UNCHANGED <<redis, up, cur, owned, inbox, counters, ghosts>>

(* release looks for listeners and participants of the room it finds under  *)
(* the id; the receiver of an aborted writer may not be gone yet.           *)
LooksAround(v) ==
  /\ At(v, "leaving")
  /\ LET r == cur[Node(v)] IN
     \/ r # 0 /\ rooms[r].here = {} /\ Goto(v, "removing")
     \/ task' = [task EXCEPT ![v] = Rest]
  /\ UNCHANGED <<redis, up, cur, owned, rooms, inbox, counters, ghosts>>

Removes(v) ==
  /\ At(v, "removing")
  /\ cur' = [cur EXCEPT ![Node(v)] = 0]
  /\ owned' = owned \ {Node(v)}
  /\ IF Node(v) \in owned THEN Goto(v, "releasing") ELSE task' = [task EXCEPT ![v] = Rest]
  /\ UNCHANGED <<redis, up, rooms, inbox, counters, ghosts>>

(***************************************************************************)
(* Giving the lease up: compare-and-delete.                                *)
(***************************************************************************)
Deleted(n) ==
  IF key = n THEN key' = None /\ doubt' = doubt \cup {n} ELSE UNCHANGED <<key, doubt>>

Releases(v) ==
  /\ At(v, "releasing") /\ Deleted(Node(v)) /\ task' = [task EXCEPT ![v] = Rest]
  /\ UNCHANGED <<mirror, up, cur, owned, rooms, inbox, counters, newest, astray>>

(* drain mirrors and releases, and leaves `owned` as it is.                  *)
Drains(n) ==
  LET r == cur[n] IN
  /\ n \in up /\ At(<<"drain", n>>, "rest") /\ Fault
  /\ Goto(<<"drain", n>>, IF n \in owned THEN "releasing" ELSE "drained")
  /\ IF n \in owned /\ r # 0 /\ rooms[r].tl # NoTimeline
       THEN mirror' = rooms[r].tl /\ astray' = (astray \/ rooms[r].tl < mirror)
       ELSE UNCHANGED <<mirror, astray>>
  /\ UNCHANGED <<key, up, cur, owned, rooms, inbox, made, visits, intents, newest, doubt>>

DrainReleases(n) ==
  /\ At(<<"drain", n>>, "releasing") /\ Deleted(n) /\ Goto(<<"drain", n>>, "drained")
  /\ UNCHANGED <<mirror, up, cur, owned, rooms, inbox, counters, newest, astray>>

(***************************************************************************)
(* An intent: authority, the change, its publication, or its forwarding.   *)
(***************************************************************************)
Intends(v) ==
  /\ At(v, "in") /\ intents < MaxIntents /\ intents' = intents + 1
  /\ Goto(v, "authority")
  /\ UNCHANGED <<redis, up, cur, owned, rooms, inbox, made, visits, faults, ghosts>>

AssumesAuthority(t) ==
  /\ At(t, "authority")
  /\ IF Node(t) \in owned THEN Goto(t, "acting") ELSE Asks(t, "intent")
  /\ UNCHANGED <<redis, up, cur, owned, rooms, inbox, counters, ghosts>>

Forwards(t) ==
  /\ At(t, "forwarding") /\ Goto(t, IF t \in Visitors THEN "in" ELSE "rest")
  /\ \/ /\ inbox' = [n \in Nodes |->
                       IF n # Node(t) /\ n \in up THEN inbox[n] + 1 ELSE inbox[n]]
        /\ UNCHANGED faults
     \/ Fault /\ UNCHANGED inbox
  /\ UNCHANGED <<redis, up, cur, owned, rooms, made, visits, intents, ghosts>>

(* relay.rs: only a node that believes it owns the room applies; what it    *)
(* does not apply is dropped.                                               *)
Relays(n) ==
  LET t == <<"relay", n>> IN
  /\ At(t, "rest") /\ inbox[n] > 0
  /\ inbox' = [inbox EXCEPT ![n] = @ - 1]
  /\ IF n \in owned /\ cur[n] # 0
       THEN task' = [task EXCEPT ![t].pc = "authority", ![t].room = cur[n]]
       ELSE UNCHANGED task
  /\ UNCHANGED <<redis, up, cur, owned, rooms, counters, ghosts>>

Applies(t) ==
  LET r == task[t].room
      tl == IF rooms[r].tl = NoTimeline THEN 0 ELSE rooms[r].tl IN
  /\ At(t, "acting") /\ tl < MaxIntents /\ Goto(t, "publishing")
  /\ rooms' = [rooms EXCEPT ![r].tl = tl + 1]
  /\ astray' = (astray \/ tl < newest)
  /\ UNCHANGED <<redis, up, cur, owned, inbox, counters, newest, doubt>>

(* A plausible bug: people hear before the mirror is written.                *)
AnnouncesFirst(t) ==
  /\ At(t, "publishing")
  /\ newest' = (IF newest < rooms[task[t].room].tl THEN rooms[task[t].room].tl ELSE newest)
  /\ task' = [task EXCEPT ![t].pc = "persisting", ![t].v = rooms[task[t].room].tl]
  /\ UNCHANGED <<redis, up, cur, owned, rooms, inbox, counters, doubt, astray>>

Clones(t) ==
  /\ At(t, "publishing")
  /\ task' = [task EXCEPT ![t].pc = "persisting", ![t].v = rooms[task[t].room].tl]
  /\ UNCHANGED <<redis, up, cur, owned, rooms, inbox, counters, ghosts>>

Persists(t) ==
  /\ At(t, "persisting") /\ Goto(t, "announcing")
  /\ \/ /\ mirror' = task[t].v /\ astray' = (astray \/ task[t].v < mirror)
        /\ UNCHANGED faults
     \/ Fault /\ astray' = TRUE /\ UNCHANGED mirror
  /\ UNCHANGED <<key, up, cur, owned, rooms, inbox, made, visits, intents, newest, doubt>>

Announces(t) ==
  /\ At(t, "announcing")
  /\ task' = [task EXCEPT ![t].pc = IF t \in Visitors THEN "in" ELSE "rest",
                ![t].v = NoTimeline]
  /\ newest' = IF newest < task[t].v THEN task[t].v ELSE newest
  /\ UNCHANGED <<redis, up, cur, owned, rooms, inbox, counters, doubt, astray>>

(***************************************************************************)
(* Time and failure.                                                       *)
(***************************************************************************)
RenewLeases(n) ==
  /\ n \in owned /\ At(<<"renew", n>>, "rest") /\ Asks(<<"renew", n>>, "renew")
  /\ UNCHANGED <<redis, up, cur, owned, rooms, inbox, counters, ghosts>>

(* The lease of a process that is gone runs out; that of one that is merely  *)
(* too slow to renew is a fault.                                            *)
Lapses ==
  /\ key # None /\ key' = None
  /\ IF key \in Nodes THEN Fault /\ doubt' = doubt \cup {key}
                      ELSE UNCHANGED <<faults, doubt>>
  /\ UNCHANGED <<mirror, up, cur, owned, rooms, task, inbox, made, visits, intents, newest, astray>>

(* A process dies, killed or drained: everything it held in memory is gone.  *)
Stops(n) ==
  /\ n \in up
  /\ IF At(<<"drain", n>>, "drained") THEN UNCHANGED faults ELSE Fault
  /\ up' = up \ {n} /\ cur' = [cur EXCEPT ![n] = 0] /\ owned' = owned \ {n}
  /\ inbox' = [inbox EXCEPT ![n] = 0]
  /\ key' = IF key = n THEN Dead ELSE key
  /\ doubt' = doubt \ {n}
  /\ task' = [t \in Tasks |-> IF Node(t) # n THEN task[t]
                              ELSE IF t \in Visitors THEN Rest ELSE TaskOf(n)]
  /\ rooms' = [r \in DOMAIN rooms |->
                [rooms[r] EXCEPT !.here = {v \in @ : Node(v) # n}]]
  /\ UNCHANGED <<mirror, made, visits, intents, newest, astray>>

Starts(n) ==
  /\ n \notin up /\ up' = up \cup {n}
  /\ UNCHANGED <<redis, cur, owned, rooms, task, inbox, counters, ghosts>>

Handled(t) ==
  \/ SetNX(t) \/ Extend(t) \/ RedisFails(t) \/ TryClaim(t)
  \/ AssumesAuthority(t) \/ Forwards(t) \/ Applies(t) \/ Clones(t) \/ Persists(t)
  \/ Announces(t)

Visit(v) ==
  \/ \E n \in Nodes : Enters(v, n)
  \/ Inserts(v) \/ Reads(v) \/ Restores(v) \/ Joins(v) \/ Intends(v)
  \/ Leaves(v) \/ LooksAround(v) \/ Removes(v) \/ Releases(v)

Process(n) ==
  RenewLeases(n) \/ Relays(n) \/ Drains(n) \/ DrainReleases(n) \/ Stops(n) \/ Starts(n)

Next == \/ \E t \in Tasks : Handled(t)
        \/ \E v \in Visitors : Visit(v)
        \/ \E n \in Nodes : Process(n)
        \/ Lapses

(* The renewal ticker of a running process keeps running.                   *)
Renewal(n) ==
  LET t == <<"renew", n>> IN RenewLeases(n) \/ SetNX(t) \/ Extend(t) \/ TryClaim(t)

Fairness == \A n \in Nodes : WF_vars(Renewal(n))
Spec == Init /\ [][Next]_vars /\ Fairness

(***************************************************************************)
(* Properties.                                                             *)
(***************************************************************************)
Stages == {"rest", "reading", "set", "held", "won", "lost", "error", "restoring",
           "restored", "joining", "in", "leaving", "removing", "releasing", "drained",
           "authority", "acting", "forwarding", "publishing", "persisting", "announcing"}

TaskType == [pc : Stages, for : {"none", "room", "intent", "renew"},
             node : Nodes \cup {None}, room : 0 .. MaxVisits, v : Versions]

RoomType == [tl : Versions, here : SUBSET Visitors]

TasksTyped == task \in [Tasks -> TaskType]
RoomsTyped == rooms \in [1 .. MaxVisits -> RoomType]
NodesTyped == /\ up \subseteq Nodes /\ owned \subseteq Nodes /\ doubt \subseteq Nodes
              /\ cur \in [Nodes -> 0 .. MaxVisits] /\ inbox \in [Nodes -> Nat]
SharedTyped == /\ key \in Nodes \cup {None, Dead} /\ mirror \in Versions
               /\ made \in 0 .. MaxVisits /\ visits \in 0 .. MaxVisits
               /\ intents \in 0 .. MaxIntents /\ faults \in 0 .. MaxFaults
               /\ newest \in Versions /\ astray \in BOOLEAN
Typed == TasksTyped /\ RoomsTyped /\ NodesTyped /\ SharedTyped

Joined == {"in", "authority", "acting", "forwarding", "publishing", "persisting",
           "announcing"}
Present(v) == task[v].pc \in Joined \/ task[v].for = "intent"

(* The tasks, room objects and copies of the timeline (hub.rs:47-83) hold    *)
(* only what the handlers put there; whoever has a node has left the first   *)
(* step, only a running process owns, and a room object lists exactly the    *)
(* people whose socket is in it.                                             *)
LeaseTypeOK ==
  /\ Typed /\ owned \subseteq up
  /\ \A v \in Visitors : At(v, "rest") <=> Node(v) = None
  /\ \A r \in DOMAIN rooms : \A v \in Visitors :
       v \in rooms[r].here <=> task[v].room = r /\ Present(v)

(* Two nodes never both believe they own the room (assume_authority: "doing  *)
(* both would produce two conflicting timelines") unless one of them was      *)
(* slower than its lease, could not reach Redis, or gave the lease up itself  *)
(* under a claim of its own; whatever the order of claims, renewals, answers  *)
(* under way, late releases and deaths.                                      *)
SoleOwner == \A n, m \in owned : n = m \/ n \in doubt \/ m \in doubt

(* What a new owner would restore is never behind what people were told       *)
(* (hub.rs:87-91, publish_timeline writes the mirror before it sends), as     *)
(* long as every change was made on the newest timeline and no write was lost *)
(* or overtaken.                                                             *)
NewestIsMirrored == astray \/ newest <= mirror

(* Two nodes that both believe they own the room do not both go on believing  *)
(* it: renew_leases asks again, and an answer of no takes the room away.      *)
SplitHeals ==
  \A pair \in {p \in SUBSET Nodes : Cardinality(p) = 2} :
    (pair \subseteq owned) ~> ~(pair \subseteq owned)

================================================================================
