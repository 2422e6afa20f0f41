------------------------------ MODULE Timeline ------------------------------
(***************************************************************************)
(* The authoritative playback timeline, apps/server/src/sync/timeline.rs,  *)
(* as pure operators on a record.                                          *)
(*                                                                         *)
(* A timeline never stores "the position": it stores an anchor, the        *)
(* position that was true at one instant of the server clock, and every    *)
(* observer extrapolates from it.  Each method of the Rust type becomes an *)
(* operator that takes the old record (and the caller's clock reading) and *)
(* returns the new one.                                                    *)
(*                                                                         *)
(* Data: time is an integer; a rate is a whole number of position units    *)
(* per time unit (with quarter-speed as the unit, the eight rates the code *)
(* allows are 1 .. 8 and NormalRate is 4), so the arithmetic is exact.     *)
(* Every source is loaded from a queue item and never without one, so the  *)
(* field "item" stands for both source and queue_item_id.  A duration of 0 *)
(* is None: session.rs turns a zero length into None before it loads, and  *)
(* set_duration refuses zero.                                              *)
(***************************************************************************)
EXTENDS Integers

CONSTANTS Items,        \* the queue items a room may ever load
          NoItem,       \* "no source loaded"
          Rates,        \* the playback rates accepted (ALLOWED_RATES)
          NormalRate    \* the rate of an idle timeline

ASSUME TimelineAssumption ==
         /\ NoItem \notin Items
         /\ Rates \subseteq Nat \ {0}
         /\ NormalRate \in Rates

Timelines ==
  [item     : Items \cup {NoItem},
   pos      : Nat,      \* anchor_pos
   at       : Nat,      \* anchor_at
   rate     : Rates,
   paused   : BOOLEAN,
   version  : Nat,
   looping  : BOOLEAN,  \* loop_current
   duration : Nat,      \* 0 when unknown
   awaiting : BOOLEAN,  \* awaiting_start
   cuedAt   : Nat]

Idle(now) ==
  [item |-> NoItem, pos |-> 0, at |-> now, rate |-> NormalRate,
   paused |-> TRUE, version |-> 0, looping |-> FALSE, duration |-> 0,
   awaiting |-> FALSE, cuedAt |-> now]

IsLoaded(t) == t.item # NoItem

------------------------------------------------------------------------------
(* Reading a timeline.                                                      *)

\* Only half of clamp_position.
ClampedBelow(t, p) == IF p < 0 THEN 0 ELSE p

\* clamp_position: never negative, never beyond a known end.
Clamped(t, p) ==
  LET lower == IF p < 0 THEN 0 ELSE p
  IN  IF t.duration > 0 /\ lower > t.duration THEN t.duration ELSE lower

\* The anchor carried forward to now, before any clamping.
Extrapolated(t, now) == t.pos + (now - t.at) * t.rate

\* position_at.
PositionAt(t, now) ==
  IF ~IsLoaded(t) THEN 0
  ELSE Clamped(t, IF t.paused THEN t.pos ELSE Extrapolated(t, now))

\* has_ended.
HasEnded(t, now) ==
  /\ IsLoaded(t)
  /\ t.duration > 0
  /\ ~t.paused
  /\ Extrapolated(t, now) >= t.duration

\* An overdue check that, like every other look at the clock, skips a paused
\* timeline: but a held one is paused.
StartOverdueRunning(t, now, after) ==
  t.awaiting /\ IsLoaded(t) /\ ~t.paused /\ now - t.cuedAt >= after

\* start_overdue.
StartOverdue(t, now, after) ==
  t.awaiting /\ IsLoaded(t) /\ now - t.cuedAt >= after

------------------------------------------------------------------------------
(* Changing a timeline.                                                     *)

\* reanchor: every transport change first makes the anchor true at now.
Reanchor(t, now) ==
  [t EXCEPT !.pos = PositionAt(t, now), !.at = now, !.version = @ + 1]

\* A play that anchors in the future, "in a moment".
PlayAhead(t, now) ==
  IF ~IsLoaded(t) THEN t
  ELSE [Reanchor(t, now) EXCEPT !.at = now + 1, !.awaiting = FALSE, !.paused = FALSE]

Play(t, now) ==
  IF ~IsLoaded(t) THEN t
  ELSE [Reanchor(t, now) EXCEPT !.awaiting = FALSE, !.paused = FALSE]

Pause(t, now) ==
  IF ~IsLoaded(t) THEN t
  ELSE [Reanchor(t, now) EXCEPT !.awaiting = FALSE, !.paused = TRUE]

Seek(t, now, p) ==
  IF ~IsLoaded(t) THEN t
  ELSE [Reanchor(t, now) EXCEPT !.awaiting = FALSE, !.pos = Clamped(t, p)]

\* The rate change the comment on set_rate warns about: no re-anchor, so the
\* seconds already played are recounted at the new rate.
SetRateUnanchored(t, now, r) ==
  IF r \notin Rates \/ ~IsLoaded(t) THEN t
  ELSE [t EXCEPT !.rate = r, !.version = @ + 1]

SetRate(t, now, r) ==
  IF r \notin Rates \/ ~IsLoaded(t) THEN t
  ELSE [Reanchor(t, now) EXCEPT !.rate = r]

\* set_loop without the version bump: a change no client would ever accept.
SetLoopSilently(t, b) == [t EXCEPT !.looping = b]

\* set_loop bumps the version even for a room with nothing loaded.
SetLoop(t, b) == [t EXCEPT !.looping = b, !.version = @ + 1]

\* The load of the first release: the clock starts before anyone has a frame.
LoadPlaying(t, now, item, duration) ==
  [t EXCEPT !.item = item, !.duration = duration, !.pos = 0, !.at = now,
            !.paused = FALSE, !.awaiting = TRUE, !.cuedAt = now,
            !.version = @ + 1]

\* load: cue at zero, held.  Rate and loop survive from the last video.
Load(t, now, item, duration) ==
  [t EXCEPT !.item = item, !.duration = duration, !.pos = 0, !.at = now,
            !.paused = TRUE, !.awaiting = TRUE, !.cuedAt = now,
            !.version = @ + 1]

\* start_playback: the hold is released once, by whoever comes first.
CanStart(t) == t.awaiting /\ IsLoaded(t)
StartPlayback(t, now) == IF CanStart(t) THEN Play(t, now) ELSE t

\* set_duration: only the first report for a loaded source counts.
AcceptsDuration(t, d) == IsLoaded(t) /\ t.duration = 0 /\ d > 0
SetDuration(t, d) ==
  IF AcceptsDuration(t, d)
  THEN [t EXCEPT !.duration = d, !.version = @ + 1]
  ELSE t

\* clear: idle again, but the version keeps counting.
Clear(t, now) == [Idle(now) EXCEPT !.version = t.version + 1]

Restart(t, now) ==
  IF ~IsLoaded(t) THEN t
  ELSE [Reanchor(t, now) EXCEPT !.awaiting = FALSE, !.pos = 0, !.paused = FALSE]

\* What leaves the process, to sockets and to the mirror: cued_at is
\* #[serde(skip)], so whoever reads the JSON back gets zero for it.
Wire(t) == [t EXCEPT !.cuedAt = 0]
=============================================================================
