------------------------------ MODULE RoomSocket ------------------------------
(***************************************************************************)
(* The room socket, apps/web/src/realtime/socket.ts, with the clock         *)
(* estimate it feeds (realtime/clock.ts) and the ticket it asks for through *)
(* the session.  Commands are numbered in the order they are given.         *)
(***************************************************************************)
EXTENDS Session, FiniteSets

CONSTANTS MaxOutbox,   \* commands kept while the socket is down (the code's 32)
          Confident,   \* CLOCK.MIN_CONFIDENT_SAMPLES
          MaxCommands  \* bound: commands the user gives

SocketBoundsAssumption ==
  MaxOutbox \in Nat \ {0} /\ Confident \in Nat \ {0} /\ MaxCommands \in Nat
ASSUME SocketBoundsAssumption

VARIABLES
  socks,      \* every socket the page has made
  built,      \* how many
  given,      \* commands given so far
  wired,      \* the commands handed to a WebSocket, in order
  forgotten   \* those the outbox had no room for

socketVars == <<socks, built, given, wired, forgotten>>

\* fresh and old count the surviving probes of this connection and of earlier
\* ones, up to what confidence takes.
NewSocket ==
  [state |-> "idle", tried |-> FALSE, closed |-> FALSE, timer |-> FALSE,
   ws |-> "none", outbox |-> <<>>, fresh |-> 0, old |-> 0, probing |-> FALSE]

\* The actions of a socket leave the rest of the page and the server alone.
Becomes(n, s) == socks' = [socks EXCEPT ![n] = s] /\ UNCHANGED built
Alone == UNCHANGED sessionVars
NoCommand == UNCHANGED <<given, wired, forgotten>>

IsOpen(s) == s.ws \in {"auth", "live"}     \* readyState OPEN

------------------------------------------------------------------------------
(* Connecting.                                                              *)

\* A plausible bug: the estimate outlives its connection.
ResetNothing(s) == s

Reset(s) == [s EXCEPT !.fresh = 0, !.old = 0]

\* Probes of a connection that is over become old ones, and are dropped.
ScheduleReconnect(s) ==
  Reset([s EXCEPT !.state = "reconnecting", !.tried = TRUE, !.timer = TRUE,
                  !.old = @ + s.fresh, !.fresh = 0])

\* A plausible bug: a reconnection counts as one under way.
CanConnectNotAgain(s) == s.state \notin {"connecting", "open", "reconnecting"}

CanConnect(s) == s.state \notin {"connecting", "open"}

Connecting(s) ==
  [s EXCEPT !.closed = FALSE, !.state = IF s.tried THEN "reconnecting" ELSE "connecting"]

\* The timer of scheduleReconnect.
ReconnectTimer(n) ==
  /\ socks[n].timer /\ NoCommand
  /\ LET s == [socks[n] EXCEPT !.timer = FALSE]
     IN  IF CanConnect(s)
         THEN Becomes(n, Connecting(s)) /\ call' = Asking(call, n)
         ELSE Becomes(n, s) /\ UNCHANGED call
  /\ UNCHANGED <<refreshes, form, cookie>>
  /\ UNCHANGED tabVars /\ UNCHANGED serverVars /\ UNCHANGED worldVars

TicketDone(n) ==
  /\ call' = [call EXCEPT ![n] = "none"]
  /\ UNCHANGED <<refreshes, form, cookie>> /\ NoCommand
  /\ UNCHANGED tabVars /\ UNCHANGED serverVars /\ UNCHANGED worldVars

\* A ticket, and a WebSocket to spend it on, whatever became of the socket.
TicketAnswers(n) ==
  /\ Answerable(n) /\ TicketDone(n)
  /\ Becomes(n, [socks[n] EXCEPT !.ws = "dialing"])

TicketFails(n) ==
  /\ call[n] = "failed" /\ TicketDone(n)
  /\ Becomes(n, ScheduleReconnect(socks[n]))

\* The ticket is the first frame.
Opened(n) ==
  /\ socks[n].ws = "dialing" /\ Alone /\ NoCommand
  /\ Becomes(n, [socks[n] EXCEPT !.ws = "auth", !.state = "authenticating"])

\* A plausible bug: what was flushed stays.
FlushedInPlace(s) == s

Flushed(s) == [s EXCEPT !.outbox = <<>>]

Ready(n) ==
  /\ socks[n].ws = "auth" /\ Alone
  /\ Becomes(n, Flushed([socks[n] EXCEPT !.ws = "live", !.tried = FALSE,
                                         !.state = "open", !.probing = TRUE]))
  /\ wired' = wired \o socks[n].outbox
  /\ UNCHANGED <<given, forgotten>>

Pong(n) ==
  LET s == socks[n]
  IN  /\ s.ws = "live" /\ s.fresh + s.old < Confident /\ Alone /\ NoCommand
      /\ Becomes(n, [s EXCEPT !.fresh = @ + 1])

\* The connection ends, however far it had come.
OnClose(s) ==
  LET t == [s EXCEPT !.ws = "none", !.probing = FALSE]
  IN  IF s.closed THEN [t EXCEPT !.state = "closed"] ELSE ScheduleReconnect(t)

Drops(n) ==
  /\ socks[n].ws # "none" /\ NoCommand
  /\ faults < MaxFaults /\ faults' = faults + 1
  /\ Becomes(n, OnClose(socks[n]))
  /\ UNCHANGED <<refreshes, call, form, cookie, strayed, late, ages>>
  /\ UNCHANGED tabVars /\ UNCHANGED serverVars

\* A plausible bug: the timer is left to run.
ClosedTimerRuns(s) ==
  [s EXCEPT !.closed = TRUE, !.probing = FALSE, !.ws = "none", !.state = "closed"]

\* On a socket the room is done with; a ticket it awaits goes on coming.
Closed(s) ==
  [s EXCEPT !.closed = TRUE, !.probing = FALSE, !.timer = FALSE,
            !.ws = "none", !.state = "closed"]

------------------------------------------------------------------------------
(* Commands.                                                                *)

\* Down the wire as soon as there is one, authenticated or not.
SendNow(n) ==
  /\ IsOpen(socks[n]) /\ wired' = Append(wired, given + 1)
  /\ UNCHANGED <<socks, forgotten>>

Kept(outbox) == IF Len(outbox) > MaxOutbox THEN Tail(outbox) ELSE outbox

SendLater(n) ==
  LET outbox == Append(socks[n].outbox, given + 1)
  IN  /\ ~IsOpen(socks[n])
      /\ socks' = [socks EXCEPT ![n].outbox = Kept(outbox)]
      /\ forgotten' = forgotten \cup (ToSet(outbox) \ ToSet(Kept(outbox)))
      /\ UNCHANGED wired

Send(n) ==
  /\ given < MaxCommands /\ given' = given + 1
  /\ SendNow(n) \/ SendLater(n)
  /\ UNCHANGED built /\ Alone

------------------------------------------------------------------------------
SocketInit ==
  /\ socks = [n \in 1 .. MaxSockets |-> NewSocket] /\ built = 0
  /\ given = 0 /\ wired = <<>> /\ forgotten = {}

\* What the network and the server do for a socket, and its own timer.
SocketRuns(n) ==
  \/ ReconnectTimer(n)
  \/ TicketAnswers(n) \/ TicketFails(n)
  \/ Opened(n) \/ Ready(n) \/ Pong(n)

TicketRefused(n) == Unauthorized(n) /\ UNCHANGED socketVars
TicketLost(n) == Fails(n) /\ UNCHANGED socketVars

SocketTypeOK ==
  /\ built \in 0 .. MaxSockets /\ given \in 0 .. MaxCommands
  /\ socks \in [1 .. MaxSockets ->
       [state : {"idle", "connecting", "authenticating", "open", "reconnecting", "closed"},
        tried : BOOLEAN, closed : BOOLEAN, timer : BOOLEAN,
        ws : {"none", "dialing", "auth", "live"}, outbox : Seq(1 .. MaxCommands),
        fresh : 0 .. Confident, old : 0 .. Confident, probing : BOOLEAN]]
  /\ \A n \in 1 .. MaxSockets : socks[n].timer => socks[n].state = "reconnecting"
  /\ wired \in Seq(1 .. MaxCommands) /\ forgotten \subseteq 1 .. MaxCommands

\* Across drops, retries and refreshes, a command the user gives goes down
\* one WebSocket once, or waits in an outbox that is short enough, or was the
\* oldest in a full one; and nothing waits while its socket is open.
CommandsKept ==
  /\ \A k \in 1 .. given :
       Cardinality({i \in DOMAIN wired : wired[i] = k})
       + Cardinality({n \in 1 .. built : k \in ToSet(socks[n].outbox)})
       + (IF k \in forgotten THEN 1 ELSE 0) = 1
  /\ \A n \in 1 .. built :
       /\ Len(socks[n].outbox) <= MaxOutbox
       /\ socks[n].state = "open" => socks[n].outbox = <<>>

\* A clock that calls itself confident, and so lets the player make fine
\* corrections, rests on probes of the connection it has.
ConfidenceIsFresh ==
  \A n \in 1 .. built :
    socks[n].fresh + socks[n].old >= Confident => socks[n].old = 0

=============================================================================
