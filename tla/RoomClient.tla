------------------------------ MODULE RoomClient ------------------------------
(***************************************************************************)
(* One browser tab: the pages a visitor moves between, the session, and the *)
(* room shell with the socket it keeps while it is mounted                  *)
(* (components/room/room-shell.tsx, join-gate.tsx, account-menu.tsx,        *)
(* routes/rooms.new.tsx and rooms.index.tsx).                               *)
(***************************************************************************)
EXTENDS RoomSocket, ClockEstimator

CONSTANT MaxVisits     \* bound: pages opened by following links

Routes == {"list", "new", "room"}

VARIABLES
  page,      \* the route
  lookup,    \* the query that resolves the room's slug
  mounted,   \* the socket of the shell's effect, 0 without one
  visits

clientVars == <<page, lookup, mounted, visits>>
vars == <<who, token, expired, timer, sender, refreshes, call, form, cookie, kinds, rows,
          reused, strayed, late, faults, ages, socks, built, given, wired, forgotten,
          page, lookup, mounted, visits>>

VisitsAssumption == MaxVisits \in Nat
ASSUME VisitsAssumption

Init ==
  /\ SessionInit /\ SocketInit
  /\ page \in Routes /\ lookup = IF page = "room" THEN "asking" ELSE "none"
  /\ mounted = 0 /\ visits = 0

Unmoved == UNCHANGED socketVars /\ UNCHANGED clientVars

------------------------------------------------------------------------------
(* What is on the screen.                                                   *)

RoomScreen ==
  CASE lookup = "asking" -> "spinner"
    [] lookup \in {"missing", "stale"} -> "not_found"
    [] who = "loading" -> "spinner"
    [] who = "anonymous" -> "join"
    [] OTHER -> "room"

NewRoomScreen ==
  CASE who = "loading" -> "spinner"
    [] who \in {"anonymous", "guest"} -> "sign_in_to_create"
    [] OTHER -> "create"

Screen ==
  CASE page = "room" -> RoomScreen
    [] page = "new" -> NewRoomScreen
    [] OTHER -> "directory"

\* The account menu is in the header of the pages outside the room.
AccountMenu == Screen \in {"directory", "create"}

------------------------------------------------------------------------------
(* The visitor.                                                             *)

\* A link.  What the query learned of the room is still in its cache.
Opens(p) ==
  /\ visits < MaxVisits /\ visits' = visits + 1
  /\ page' = p
  /\ lookup' = IF p = "room" /\ lookup \in {"none", "missing"} THEN "asking" ELSE lookup
  /\ UNCHANGED mounted /\ UNCHANGED sessionVars /\ UNCHANGED socketVars

Follows == \E p \in Routes \ {page} : Opens(p)

JoinsAsGuest ==
  /\ Screen = "join" /\ Len(kinds) < MaxFamilies
  /\ Submit("guest") /\ Unmoved

SignsOut ==
  /\ AccountMenu /\ Authenticated /\ Submit("logout") /\ Unmoved

Renames ==
  /\ AccountMenu /\ Authenticated /\ Submit("rename") /\ Unmoved

CreatesRoom ==
  /\ Screen = "create" /\ Submit("create") /\ Unmoved

\* The room there is now, whose page opens even if the visitor has left the form.
CreateAnswers ==
  /\ form.kind = "create" /\ Answerable(Form) /\ FormDone
  /\ page' = "room" /\ lookup' = "asking"
  /\ UNCHANGED <<refreshes, cookie, mounted, visits>>
  /\ UNCHANGED tabVars /\ UNCHANGED serverVars
  /\ UNCHANGED worldVars /\ UNCHANGED socketVars

\* The page's sockets die with it, and what they held is lost.
Unloaded ==
  /\ socks' = [n \in DOMAIN socks |-> Closed(socks[n])]
  /\ mounted' = 0 /\ lookup' = IF page = "room" THEN "asking" ELSE "none"
  /\ UNCHANGED <<page, built, given, wired, forgotten>>

ReturnsFromGoogle ==
  /\ who \in {"anonymous", "guest"} /\ Screen \notin {"spinner", "room", "not_found"}
  /\ visits < MaxVisits /\ visits' = visits + 1
  /\ GoogleReturns /\ Unloaded

ReloadsPage == Reloads /\ Unloaded /\ UNCHANGED visits

\* The panels are there as soon as the room is.
Commands == Screen = "room" /\ mounted # 0 /\ Send(mounted) /\ UNCHANGED clientVars

------------------------------------------------------------------------------
(* The shell.                                                               *)

\* The query of a page that looks at the room, or asks again about it.
LookupAnswers ==
  /\ page = "room" /\ lookup = "asking" /\ lookup' = "found"
  /\ UNCHANGED <<page, mounted, visits>>
  /\ UNCHANGED sessionVars /\ UNCHANGED socketVars

LookupFails ==
  /\ page = "room" /\ lookup \in {"asking", "found"}
  /\ faults < MaxFaults /\ faults' = faults + 1
  /\ lookup' = IF lookup = "found" THEN "stale" ELSE "missing"
  /\ UNCHANGED <<refreshes, call, form, cookie, strayed, late, ages, page, mounted, visits>>
  /\ UNCHANGED tabVars /\ UNCHANGED serverVars /\ UNCHANGED socketVars

\* The room's id is known, and somebody is signed in.
HasRoomId == page = "room" /\ Authenticated /\ lookup \in {"found", "stale"}

\* The effect keyed on it, and its cleanup.
MountSocket ==
  /\ HasRoomId /\ mounted = 0 /\ built < MaxSockets
  /\ mounted' = built + 1 /\ built' = built + 1
  /\ socks' = [socks EXCEPT ![built + 1] = Connecting(NewSocket)]
  /\ call' = Asking(call, built + 1)
  /\ UNCHANGED <<refreshes, form, cookie, given, wired, forgotten, page, lookup, visits>>
  /\ UNCHANGED tabVars /\ UNCHANGED serverVars /\ UNCHANGED worldVars

UnmountSocket ==
  /\ mounted # 0 /\ ~HasRoomId
  /\ mounted' = 0 /\ socks' = [socks EXCEPT ![mounted] = Closed(@)]
  /\ UNCHANGED <<built, given, wired, forgotten, page, lookup, visits>>
  /\ UNCHANGED sessionVars

------------------------------------------------------------------------------
Visitor ==
  \/ Follows \/ JoinsAsGuest \/ SignsOut \/ Renames \/ CreatesRoom
  \/ ReturnsFromGoogle \/ ReloadsPage \/ Commands

\* The tab and the servers, left to run; only what runs is bound to go on.
Refreshes ==
  \/ ServerRefreshes /\ Unmoved
  \/ RefreshLands /\ Unmoved

Page ==
  \/ (Unauthorized(Form) \/ BootAnswers \/ BootFails) /\ Unmoved
  \/ (GuestAnswers \/ LogoutAnswers \/ LogoutFails) /\ Unmoved
  \/ (RenameAnswers \/ FormFails) /\ Unmoved
  \/ CreateAnswers

Shell == LookupAnswers \/ MountSocket \/ UnmountSocket

Sockets(n) ==
  \/ SocketRuns(n) /\ UNCHANGED clientVars
  \/ TicketRefused(n) /\ UNCHANGED clientVars

Mishaps ==
  \/ (Expires \/ TimerFires \/ RefreshDenied \/ LateArrives \/ LogoutLost) /\ Unmoved
  \/ (Fails(Boot) \/ Fails(Form)) /\ Unmoved
  \/ LookupFails
  \/ \E n \in 1 .. built : (Drops(n) \/ TicketLost(n)) /\ UNCHANGED clientVars

Next ==
  \/ Visitor \/ Refreshes \/ Page \/ Shell \/ Mishaps
  \/ \E n \in 1 .. MaxSockets : Sockets(n)

\* A refusal also arrives; nothing in it is a mishap when it is due.
Refused == RefreshDenied /\ Unmoved

Fairness ==
  /\ WF_vars(Refreshes) /\ WF_vars(Refused) /\ WF_vars(Page) /\ WF_vars(Shell)
  /\ \A n \in 1 .. MaxSockets : WF_vars(Sockets(n))

Spec == Init /\ [][Next]_vars /\ Fairness

------------------------------------------------------------------------------
(* Properties.                                                              *)

\* Every variable of the tab stays in its range, and a socket whose timer runs
\* says that it is reconnecting.
ClientTypeOK ==
  /\ SessionTypeOK /\ SocketTypeOK
  /\ page \in Routes /\ lookup \in {"none", "asking", "found", "missing", "stale"}
  /\ mounted \in 0 .. built /\ visits \in 0 .. MaxVisits

\* Whenever a socket lets the player make fine corrections on its estimate, an
\* estimate of any window of probes is near the truth as soon as more than a
\* fifth of them were quick, whatever delayed the others (clock.ts, recompute).
ClockBounded ==
  (\E n \in 1 .. built : socks[n].fresh + socks[n].old >= Confident) => Robust

\* A room that stays on the screen of somebody whose token is good ends up
\* connected, after however many drops, lost tickets and refreshes: the retries
\* of socket.ts never give up and never get stuck.
ComesBack ==
  <>[](mounted # 0 /\ Usable) => <>[](mounted # 0 /\ socks[mounted].state = "open")

==============================================================================
