--------------------------- MODULE TimelineMachine ---------------------------
(***************************************************************************)
(* One timeline, a clock, and every method of the type called in any       *)
(* order: the state machine apps/server/src/sync/timeline.rs is the        *)
(* transition relation of.  Its callers (RoomPlayback) decide when a       *)
(* method runs; what the methods promise together is settled here.         *)
(***************************************************************************)
EXTENDS Timeline

CONSTANTS Lengths,      \* lengths a queue item or a player may report
          Seeks,        \* positions a seek may name
          StartTimeout, \* START_TIMEOUT_MS
          MaxVersion,   \* bound: commands stop at this version
          MaxTime       \* bound: the clock stops here

ASSUME MachineAssumption ==
         /\ Lengths \subseteq Nat \ {0}
         /\ Seeks \subseteq Nat
         /\ StartTimeout \in Nat
         /\ MaxVersion \in Nat
         /\ MaxTime \in Nat

VARIABLES tl, now

vars == <<tl, now>>

Init ==
  /\ now = 0
  /\ tl = Idle(now)

------------------------------------------------------------------------------
Tick ==
  /\ now < MaxTime
  /\ now' = now + 1
  /\ UNCHANGED tl

\* Every method below runs at one reading of the clock.
Command(t) ==
  /\ tl.version < MaxVersion
  /\ tl' = t
  /\ UNCHANGED now

DoLoad      == \E i \in Items, d \in Lengths \cup {0} : Command(Load(tl, now, i, d))
DoPlay      == Command(Play(tl, now))
DoPause     == Command(Pause(tl, now))
DoSeek      == \E p \in Seeks : Command(Seek(tl, now, p))
DoSetRate   == \E r \in Rates : Command(SetRate(tl, now, r))
DoSetLoop   == \E b \in BOOLEAN : Command(SetLoop(tl, b))
DoLearn     == \E d \in Lengths : Command(SetDuration(tl, d))
DoClear     == Command(Clear(tl, now))
DoRestart   == Command(Restart(tl, now))
\* A ready report, or the sweep that stops waiting for one.
DoStart     == Command(StartPlayback(tl, now))
DoOverdue   == StartOverdue(tl, now, StartTimeout) /\ Command(StartPlayback(tl, now))

Next ==
  \/ Tick
  \/ DoLoad \/ DoPlay \/ DoPause \/ DoSeek \/ DoSetRate \/ DoSetLoop
  \/ DoLearn \/ DoClear \/ DoRestart \/ DoStart \/ DoOverdue

Spec == Init /\ [][Next]_vars

------------------------------------------------------------------------------
TypeOK ==
  /\ tl \in Timelines
  /\ now \in Nat
  /\ tl.at <= now
  /\ tl.cuedAt <= now

\* A held cue is really held: it is loaded, it is paused, and its playhead is
\* at zero whatever was done to its rate, loop or duration meanwhile
\* (timeline.rs, awaiting_start and load).
HeldAtZero ==
  tl.awaiting => IsLoaded(tl) /\ tl.paused /\ PositionAt(tl, now) = 0

\* The auto-advance sweep moves on exactly when every observer sees the
\* playhead standing at the end of a running video: has_ended looks at the
\* unclamped extrapolation, position_at at the clamped one, and they agree.
EndedAtTheEnd ==
  HasEnded(tl, now) <=> /\ ~tl.paused
                        /\ tl.duration > 0
                        /\ PositionAt(tl, now) = tl.duration

\* Clients drop any timeline that is not strictly newer than theirs, so every
\* visible change must carry a new version, and by one: nothing is changed
\* twice under one number and clear does not start the count again.
EveryChangeIsNumbered ==
  [][tl' # tl => tl'.version = tl.version + 1]_vars

\* The derived position is the playhead of module Playhead: only time, a cue,
\* a seek, a restart or a clear moves it.  Play, pause, a rate change, a loop
\* change and a ready report leave it exactly where it is.
Seen == INSTANCE Playhead
          WITH Videos <- Items, NoVideo <- NoItem, Speeds <- Rates, Spots <- Seeks,
               video <- tl.item,
               media <- PositionAt(tl, now),
               speed <- IF tl.paused THEN 0 ELSE tl.rate,
               length <- tl.duration

ImplementsPlayhead == Seen!PlayheadSpec
=============================================================================
