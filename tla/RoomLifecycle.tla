----------------------------- MODULE RoomLifecycle -----------------------------
(***************************************************************************)
(* Who runs the room, and when it stops existing: rooms/lifecycle.rs, the   *)
(* joining and leaving of realtime/ws.rs that call it, the host's own acts   *)
(* in realtime/session.rs, and the rows of db/rooms.rs they write.          *)
(*                                                                         *)
(* One room on one node.  A socket runs its statements one at a time, and   *)
(* those of another, of a handover and of the sweep come between them.      *)
(* Nobody is banned here and nothing is announced: RoomMembers does both.   *)
(***************************************************************************)
EXTENDS Integers, Sequences, SequencesExt, FiniteSetsExt

CONSTANTS Sockets,    \* connections, each used again once closed
          Users, Creator, Visitors,   \* everybody, who made the room, the guests
          UserOf,     \* whose connection it is
          NoOne,
          Capacity,   \* max_participants
          MaxJoins,   \* bound: connections opened
          MaxActs     \* bound: acts of a host

LifecycleAssumption ==
  /\ Creator \in Users /\ Visitors \subseteq Users /\ NoOne \notin Users
  /\ UserOf \in [Sockets -> Users]
  /\ Capacity \in Nat \ {0} /\ MaxJoins \in Nat /\ MaxActs \in Nat
ASSUME LifecycleAssumption

VARIABLES
  room,      \* the row of rooms: host, owner, successor, closed, its emptiness
  members,   \* the role in each row of room_members
  open,      \* whether the hub holds the room
  info,      \* its host and its successor
  seats,     \* who is present, by time of joining
  tabs,      \* the connections of each
  standing,  \* the live role of each
  socks,     \* how far the handler of each connection is
  sleeping,  \* whose handovers wait out the grace period
  handovers, \* how far the handover of each is
  races,     \* the orders nobody meant that happened
  joins, acts

rowVars == <<room, members>>
liveVars == <<open, info, seats, tabs, standing>>
vars == <<room, members, open, info, seats, tabs, standing, socks, sleeping, handovers,
          races, joins, acts>>

Roles == {"guest", "member", "cohost", "host"}
Rank(role) == CASE role = "cohost" -> 0 [] role = "member" -> 1
                [] role = "guest" -> 2 [] role = "host" -> 3

Off == [at |-> "off", role |-> "guest", held |-> NoOne, alone |-> FALSE]
Rest == [at |-> "none", next |-> NoOne]

Present == {u \in Users : tabs[u] > 0}
Goes(c, at) == socks' = [socks EXCEPT ![c].at = at]
\* In the read loop, or out of it: what was read on the way is done with.
Sits(c) == socks' = [socks EXCEPT ![c].at = "in", ![c].held = NoOne]
Rises(c, at) == socks' = [socks EXCEPT ![c].at = at, ![c].role = "guest"]
\* Bound: nothing is followed past an order that every property excuses.
Orderly == "overtaken" \notin races
At(c, at) == Orderly /\ socks[c].at = at
Hand(u, at) == Orderly /\ handovers[u].at = at
Races(race, happens) == races' = IF happens THEN races \cup {race} ELSE races

Init ==
  /\ room = [host |-> Creator, owner |-> Creator, successor |-> NoOne, closed |-> "no",
             empty |-> FALSE, counted |-> FALSE]
  /\ members = [u \in Users |-> IF u = Creator THEN "host" ELSE "none"]
  /\ open = FALSE /\ info = [host |-> Creator, successor |-> NoOne]
  /\ seats = <<>> /\ tabs = [u \in Users |-> 0] /\ standing = [u \in Users |-> "guest"]
  /\ socks = [c \in Sockets |-> Off]
  /\ sleeping = [u \in Users |-> 0] /\ handovers = [u \in Users |-> Rest]
  /\ races = {} /\ joins = 0 /\ acts = 0

------------------------------------------------------------------------------
(* The rows.                                                                *)

\* transfer_host: demoted, promoted, recorded, all or nothing; the index on the
\* rows lets one host stand.
Transferred(from, to) ==
  [u \in Users |-> CASE u = to -> "host"
                     [] u = from /\ u # to /\ members[u] # "none" -> "cohost"
                     [] OTHER -> members[u]]
Transferable(from, to) == \A u \in Users \ {from, to} : members[u] # "host"

Transfers(from, to, permanent) ==
  /\ members' = Transferred(from, to)
  /\ room' = [room EXCEPT !.host = to, !.successor = NoOne,
                          !.owner = IF permanent THEN to ELSE @]

\* set_emptiness: whether the clock of the empty room runs, not for how long.
Emptied(row) == IF row.closed = "no" THEN [row EXCEPT !.empty = TRUE] ELSE row
Filled(row) == [row EXCEPT !.empty = FALSE]

------------------------------------------------------------------------------
(* Joining.                                                                 *)

\* should_reclaim that leaves a room alone that is already live.
ReclaimsOnlyDark(u) == room.owner = u /\ room.host # u /\ ~open
ShouldReclaim(u) == room.owner = u /\ room.host # u

\* The room's row.
Looks(c) ==
  /\ At(c, "off") /\ room.closed = "no"
  /\ joins < MaxJoins /\ joins' = joins + 1
  /\ socks' = [socks EXCEPT ![c] = [Off EXCEPT !.at = "looked",
       !.held = IF ShouldReclaim(UserOf[c]) THEN room.host ELSE NoOne]]
  /\ UNCHANGED <<sleeping, handovers, races, acts>>
  /\ UNCHANGED rowVars /\ UNCHANGED liveVars

DefaultRole(u) == IF u \in Visitors THEN "guest" ELSE "member"
RoleOf(u) == IF members[u] = "none" THEN DefaultRole(u) ELSE members[u]

\* The member's row, the room in the hub or made for it, and a place left in it.
Admitted(c) ==
  IF Cardinality(Present) >= Capacity THEN Off
  ELSE [socks[c] EXCEPT !.role = RoleOf(UserOf[c]),
          !.at = IF socks[c].held = NoOne THEN "attach" ELSE "reclaim"]

Enters(c) ==
  /\ At(c, "looked")
  /\ IF open \/ room.closed = "no"
     THEN /\ open' = TRUE /\ socks' = [socks EXCEPT ![c] = Admitted(c)]
          /\ info' = IF open THEN info ELSE [host |-> room.host, successor |-> room.successor]
     ELSE socks' = [socks EXCEPT ![c] = Off] /\ UNCHANGED <<open, info>>
  /\ Races("unattended", ~open /\ UserOf[c] # room.host /\ socks[c].held = NoOne)
  /\ UNCHANGED <<seats, tabs, standing, sleeping, handovers, joins, acts>>
  /\ UNCHANGED rowVars

\* The creator takes the room back from whoever held it when its row was read.
Reclaims(c) ==
  /\ At(c, "reclaim")
  /\ IF Transferable(socks[c].held, UserOf[c])
     THEN /\ Transfers(socks[c].held, UserOf[c], FALSE)
          /\ socks' = [socks EXCEPT ![c].role = "host", ![c].at = "told"]
     ELSE socks' = [socks EXCEPT ![c] = Off] /\ UNCHANGED rowVars
  /\ UNCHANGED <<sleeping, handovers, races, joins, acts>> /\ UNCHANGED liveVars

\* The room is told, in two writes.
ReclaimTold(c) ==
  /\ At(c, "told") /\ Goes(c, "demote")
  /\ info' = [host |-> UserOf[c], successor |-> NoOne]
  /\ Races("overtaken", room.host # UserOf[c])
  /\ UNCHANGED <<open, seats, tabs, standing, sleeping, handovers, joins, acts>>
  /\ UNCHANGED rowVars

SetRoleLocal(u, role) == standing' = IF u \in Present THEN [standing EXCEPT ![u] = role] ELSE standing

ReclaimDemotes(c) ==
  /\ At(c, "demote") /\ Goes(c, "attach")
  /\ SetRoleLocal(socks[c].held, "cohost")
  /\ Races("overtaken", room.host = socks[c].held)
  /\ UNCHANGED <<open, info, seats, tabs, sleeping, handovers, joins, acts>>
  /\ UNCHANGED rowVars

\* Another tab adds a connection, and takes the role it read along.
Attaches(c) ==
  LET u == UserOf[c]
  IN  /\ At(c, "attach") /\ Goes(c, "upsert")
      /\ tabs' = [tabs EXCEPT ![u] = @ + 1]
      /\ standing' = [standing EXCEPT ![u] = socks[c].role]
      /\ seats' = IF u \in Present THEN seats ELSE Append(seats, u)
      /\ Races("overtaken", RoleOf(u) # socks[c].role)
      /\ UNCHANGED <<open, info, sleeping, handovers, joins, acts>> /\ UNCHANGED rowVars

\* A row the member has keeps its role.
Upserts(c) ==
  /\ At(c, "upsert") /\ Goes(c, "greet")
  /\ members' = [members EXCEPT ![UserOf[c]] = IF @ = "none" THEN socks[c].role ELSE @]
  /\ UNCHANGED <<room, sleeping, handovers, races, joins, acts>> /\ UNCHANGED liveVars

\* Anyone present cancels the clock of the empty room.
Greets(c) ==
  /\ At(c, "greet") /\ Sits(c)
  /\ room' = Filled(room)
  /\ UNCHANGED <<members, sleeping, handovers, races, joins, acts>> /\ UNCHANGED liveVars

------------------------------------------------------------------------------
(* Leaving.                                                                 *)

Detaches(c) ==
  LET u == UserOf[c]
  IN  /\ At(c, "in")
      /\ tabs' = [tabs EXCEPT ![u] = @ - 1]
      /\ IF tabs[u] = 1
         THEN /\ seats' = Remove(seats, u) /\ Rises(c, "departed")
              /\ standing' = [standing EXCEPT ![u] = "guest"]
         ELSE UNCHANGED <<seats, standing>> /\ Rises(c, "count")
      /\ UNCHANGED <<open, info, sleeping, handovers, races, joins, acts>>
      /\ UNCHANGED rowVars

\* The host's last connection starts the grace period; the room it was in is counted.
Counts(c) ==
  /\ At(c, "departed") \/ At(c, "count")
  /\ sleeping' = IF socks[c].at = "departed" /\ info.host = UserOf[c]
                 THEN [sleeping EXCEPT ![UserOf[c]] = @ + 1] ELSE sleeping
  /\ socks' = [socks EXCEPT ![c].at = "touch", ![c].alone = Present = {}]
  /\ UNCHANGED <<handovers, races, joins, acts>> /\ UNCHANGED rowVars /\ UNCHANGED liveVars

\* A count that is no longer true is written all the same.
Stale(c) == socks[c].alone # (Present = {})

\* touch_activity that never takes a room back to nobody.
TouchesUpward(c) ==
  /\ At(c, "touch") /\ Goes(c, "empty")
  /\ room' = [room EXCEPT !.counted = @ \/ ~socks[c].alone]
  /\ Races("overtaken", Stale(c))
  /\ UNCHANGED <<members, sleeping, handovers, joins, acts>> /\ UNCHANGED liveVars
TouchesActivity(c) ==
  /\ At(c, "touch") /\ Goes(c, "empty")
  /\ room' = [room EXCEPT !.counted = ~socks[c].alone]
  /\ Races("overtaken", Stale(c))
  /\ UNCHANGED <<members, sleeping, handovers, joins, acts>> /\ UNCHANGED liveVars

SetsEmptiness(c) ==
  /\ At(c, "empty") /\ Goes(c, "release")
  /\ room' = IF socks[c].alone THEN Emptied(room) ELSE Filled(room)
  /\ Races("overtaken", Stale(c))
  /\ UNCHANGED <<members, sleeping, handovers, joins, acts>> /\ UNCHANGED liveVars

\* The room leaves the hub once nobody is in it, unless a writer that was told to
\* stop still listens.  Whoever was about to count it finds it empty, and its timers
\* find nobody in it; a handover is then of a room that is gone.  Nobody is on the
\* way in: RoomLease has the room that is released under them.
Arriving == {c \in Sockets : socks[c].at \in {"reclaim", "told", "demote", "attach"}}

Releases(c) ==
  /\ At(c, "release")
  /\ \/ /\ open /\ Present = {} /\ Arriving = {} /\ open' = FALSE
        /\ sleeping' = [u \in Users |-> 0]
        /\ socks' = [d \in Sockets |->
             IF d = c THEN Off
             ELSE IF socks[d].at \in {"departed", "count"}
                  THEN [socks[d] EXCEPT !.at = "touch", !.alone = TRUE] ELSE socks[d]]
        /\ Races("overtaken", \E u \in Users : handovers[u].at # "none")
     \/ socks' = [socks EXCEPT ![c] = Off] /\ UNCHANGED <<open, sleeping, races>>
  /\ UNCHANGED <<info, seats, tabs, standing, handovers, joins, acts>> /\ UNCHANGED rowVars

------------------------------------------------------------------------------
(* Handing over.                                                            *)

\* choose_successor: the nominee if there, or the best of those there.
Precedes(a, b) ==
  \/ Rank(standing[a]) < Rank(standing[b])
  \/ /\ Rank(standing[a]) = Rank(standing[b])
     /\ \E i, k \in DOMAIN seats : i < k /\ seats[i] = a /\ seats[k] = b
ChooseSuccessor(from) ==
  LET eligible == Present \ {from}
  IN  IF info.successor \in eligible THEN info.successor
      ELSE CHOOSE u \in eligible : \A v \in eligible \ {u} : Precedes(u, v)

Hands(u, at) == handovers' = [handovers EXCEPT ![u].at = at]

\* The grace period is over, and the host still away from a room with people in it.
Wakes(u) ==
  /\ sleeping[u] > 0 /\ sleeping' = [sleeping EXCEPT ![u] = @ - 1]
  /\ Hand(u, "none")
  /\ IF u \notin Present /\ info.host = u /\ Present # {}
     THEN Hands(u, "choose") ELSE UNCHANGED handovers
  /\ Races("unattended", Present = {} /\ info.host = u)
  /\ UNCHANGED <<socks, joins, acts>> /\ UNCHANGED rowVars /\ UNCHANGED liveVars

\* choose_successor that knows the nominee and nobody else.
ChoosesNominee(u) ==
  /\ Hand(u, "choose")
  /\ handovers' = IF info.successor \in Present \ {u}
                  THEN [handovers EXCEPT ![u].next = info.successor, ![u].at = "transfer"]
                  ELSE [handovers EXCEPT ![u] = Rest]
  /\ Races("unattended", info.host = u /\ Present \ {u} = {})
  /\ UNCHANGED <<sleeping, socks, joins, acts>> /\ UNCHANGED rowVars /\ UNCHANGED liveVars
Chooses(u) ==
  /\ Hand(u, "choose")
  /\ IF Present \ {u} = {}
     THEN handovers' = [handovers EXCEPT ![u] = Rest]
     ELSE handovers' = [handovers EXCEPT ![u].next = ChooseSuccessor(u), ![u].at = "transfer"]
  /\ Races("unattended", info.host = u /\ Present \ {u} = {})
  /\ UNCHANGED <<sleeping, socks, joins, acts>> /\ UNCHANGED rowVars /\ UNCHANGED liveVars

\* Custody, not ownership.
HandsOver(u) ==
  /\ Hand(u, "transfer")
  /\ IF Transferable(u, handovers[u].next)
     THEN Transfers(u, handovers[u].next, FALSE) /\ Hands(u, "told")
     ELSE handovers' = [handovers EXCEPT ![u] = Rest] /\ UNCHANGED rowVars
  /\ Races("overtaken", u \in Present \/ \E c \in Sockets : UserOf[c] = u /\ socks[c].at # "off")
  /\ UNCHANGED <<sleeping, socks, joins, acts>> /\ UNCHANGED liveVars

HandoverTold(u) ==
  /\ Hand(u, "told") /\ Hands(u, "promote")
  /\ info' = [host |-> handovers[u].next, successor |-> NoOne]
  /\ Races("overtaken", handovers[u].next \notin Present \/ room.host # handovers[u].next)
  /\ UNCHANGED <<open, seats, tabs, standing, sleeping, socks, joins, acts>>
  /\ UNCHANGED rowVars

Promotes(u) ==
  /\ Hand(u, "promote") /\ handovers' = [handovers EXCEPT ![u] = Rest]
  /\ SetRoleLocal(handovers[u].next, "host")
  /\ Races("overtaken", room.host # handovers[u].next)
  /\ UNCHANGED <<open, info, seats, tabs, sleeping, socks, joins, acts>>
  /\ UNCHANGED rowVars

------------------------------------------------------------------------------
(* The host's own acts, on the authority the session thinks it has.          *)

Acting(c, t) ==
  /\ At(c, "in") /\ socks[c].role = "host" /\ t # UserOf[c]
  /\ acts < MaxActs /\ acts' = acts + 1

\* A successor, or none: the row, and then the room.
Designates(c, t) ==
  /\ Acting(c, t) /\ (t # NoOne => members[t] # "none")
  /\ room' = [room EXCEPT !.successor = t]
  /\ socks' = [socks EXCEPT ![c].at = "designated", ![c].held = t]
  /\ UNCHANGED <<members, sleeping, handovers, races, joins>> /\ UNCHANGED liveVars

DesignateTold(c) ==
  /\ At(c, "designated") /\ Sits(c)
  /\ info' = [info EXCEPT !.successor = socks[c].held]
  /\ UNCHANGED <<open, seats, tabs, standing, sleeping, handovers, races, joins, acts>>
  /\ UNCHANGED rowVars

\* A gift: the room goes to whoever is named, there or not.
TransfersHost(c, t) ==
  /\ Acting(c, t)
  /\ IF Transferable(UserOf[c], t)
     THEN /\ Transfers(UserOf[c], t, TRUE)
          /\ socks' = [socks EXCEPT ![c].at = "given", ![c].held = t]
     ELSE UNCHANGED rowVars /\ UNCHANGED socks
  /\ Races("given away", t \notin Present)
  /\ UNCHANGED <<sleeping, handovers, joins>> /\ UNCHANGED liveVars

\* The room's roles, and then its host; the nominee it holds is left to it.
TransferRoles(c) ==
  /\ At(c, "given") /\ Goes(c, "seated")
  /\ standing' = [u \in Users |-> CASE u = UserOf[c] -> "cohost"
                                    [] u = socks[c].held /\ u \in Present -> "host"
                                    [] OTHER -> standing[u]]
  /\ Races("overtaken", room.host # socks[c].held)
  /\ UNCHANGED <<open, info, seats, tabs, sleeping, handovers, joins, acts>>
  /\ UNCHANGED rowVars

TransferTold(c) ==
  /\ At(c, "seated")
  /\ info' = [info EXCEPT !.host = socks[c].held]
  /\ socks' = [socks EXCEPT ![c].at = "in", ![c].role = "cohost", ![c].held = NoOne]
  /\ races' = races \cup (IF socks[c].held \in Present THEN {} ELSE {"given away"})
                   \cup (IF room.host = socks[c].held THEN {} ELSE {"overtaken"})
  /\ UNCHANGED <<open, seats, tabs, standing, sleeping, handovers, joins, acts>>
  /\ UNCHANGED rowVars

\* Up to co-host or down to member, of somebody present below the host.
SetsRole(c, t, role) ==
  /\ Acting(c, t) /\ t \in Present /\ standing[t] # "host"
  /\ members' = [members EXCEPT ![t] = IF @ = "none" THEN @ ELSE role]
  /\ socks' = [socks EXCEPT ![c].at = role, ![c].held = t]
  /\ Races("overtaken", members[t] = "host")
  /\ UNCHANGED <<room, sleeping, handovers, joins>> /\ UNCHANGED liveVars

RoleTold(c) ==
  /\ At(c, "member") \/ At(c, "cohost")
  /\ Sits(c)
  /\ SetRoleLocal(socks[c].held, socks[c].at)
  /\ Races("overtaken", members[socks[c].held] # socks[c].at)
  /\ UNCHANGED <<open, info, seats, tabs, sleeping, handovers, joins, acts>>
  /\ UNCHANGED rowVars

------------------------------------------------------------------------------
(* Closing.                                                                 *)

\* By the host of its row, from anywhere.
Deletes ==
  /\ Orderly /\ room.closed = "no" /\ acts < MaxActs /\ acts' = acts + 1
  /\ room' = [room EXCEPT !.closed = "deleted"]
  /\ UNCHANGED <<members, socks, sleeping, handovers, races, joins>> /\ UNCHANGED liveVars

\* The sweep closes a room whose grace period is over, which it may be at any time
\* its clock runs, unless somebody is counted in it after all.
Expired(row) == row.closed = "no" /\ row.empty /\ ~row.counted
Sweeps ==
  /\ Orderly /\ Expired(room) /\ room' = [room EXCEPT !.closed = "swept"]
  /\ UNCHANGED <<members, socks, sleeping, handovers, races, joins, acts>>
  /\ UNCHANGED liveVars

------------------------------------------------------------------------------
\* What a connection's handler does next, once it is in it.
Arrives(c) ==
  \/ Enters(c) \/ Reclaims(c) \/ ReclaimTold(c) \/ ReclaimDemotes(c)
  \/ Attaches(c) \/ Upserts(c) \/ Greets(c)
Leaves(c) ==
  Counts(c) \/ TouchesActivity(c) \/ SetsEmptiness(c) \/ Releases(c)
Acts(c) == DesignateTold(c) \/ TransferRoles(c) \/ TransferTold(c) \/ RoleTold(c)
Proceeds(c) == Arrives(c) \/ Leaves(c) \/ Acts(c)

HandsOn(u) == Chooses(u) \/ HandsOver(u) \/ HandoverTold(u) \/ Promotes(u)

Chosen(c) ==
  \/ Looks(c) \/ Detaches(c) \/ Designates(c, NoOne)
  \/ \E t \in Users : \/ Designates(c, t) \/ TransfersHost(c, t)
                      \/ \E role \in {"member", "cohost"} : SetsRole(c, t, role)

Next ==
  \/ \E c \in Sockets : Proceeds(c) \/ Chosen(c)
  \/ \E u \in Users : Wakes(u) \/ HandsOn(u)
  \/ Deletes \/ Sweeps

Spec == Init /\ [][Next]_vars

------------------------------------------------------------------------------
(* Properties.                                                              *)

\* Nothing is between two of its writes about the host.
Settled ==
  /\ \A c \in Sockets : socks[c].at \notin {"told", "demote", "attach", "given", "seated"}
  /\ \A u \in Users : handovers[u].at \notin {"told", "promote"}

\* The members' rows have one host ("exactly one host per room",
\* 20260730000001_init.sql:144), and once no write is under way it is the room's
\* own, the one the live room names and the only one who stands in it as host; and
\* "a creator keeps their room" (lifecycle.rs): whoever owns it is that host while
\* there.  All this whatever reclaims, handovers, gifts and changes of role came
\* before, short of one that ran between the statements of another.
OneHost ==
  /\ Cardinality({u \in Users : members[u] = "host"}) <= 1
  /\ Settled /\ Orderly =>
       /\ members[room.host] = "host" /\ (open => info.host = room.host)
       /\ \A u \in Present : standing[u] = "host" <=> u = room.host
       /\ room.owner \in Present => room.host = room.owner

\* "A room always has a host" (lifecycle.rs), with its limits: people left without
\* one have a handover due, its timer or the handover itself, or the host just left
\* or is on the way in; unless the room was opened or its timer ran out with the
\* host away and nobody there, or it was given to somebody who is not there.
HostIsDue ==
  Present # {} /\ info.host \notin Present /\ races = {} =>
    \/ sleeping[info.host] > 0 \/ handovers[info.host].at # "none"
    \/ \E c \in Sockets : UserOf[c] = info.host /\ socks[c].at \in {"demote", "attach", "departed"}

\* "An empty room closes" (lifecycle.rs), and only an empty one: once the last to
\* leave is gone the sweep may close it, and never while somebody is in it, in
\* whatever order people came and went, short of a count written when it was no
\* longer true.
SweepsTheEmpty ==
  Orderly /\ room.closed = "no" =>
    /\ joins > 0 /\ (\A c \in Sockets : socks[c].at = "off") => Expired(room)
    /\ Expired(room) => \A c \in Sockets : socks[c].at # "in"
=============================================================================
