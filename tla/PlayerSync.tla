----------------------------- MODULE PlayerSync -----------------------------
(***************************************************************************)
(* Keeping a player on the room's timeline:                                *)
(* apps/web/src/realtime/use-player-sync.ts, with the correction bands of  *)
(* packages/protocol/src/timeline.ts.  Written once against the engine     *)
(* interface, so here too: each command below is the adapter's own.        *)
(***************************************************************************)
EXTENDS YouTubeEngine, TwitchEngine, KickEngine, MediaEngine

VARIABLES
  room,       \* the timeline in the room store
  applied     \* appliedRate: the rate last pushed, whatever engine took it

\* The timeline as the sync loop reads it.  A position is not a number here:
\* widget.off says how the player's compares with it.
IdleRoom == [source |-> NoSource, paused |-> TRUE, awaiting |-> FALSE, rate |-> Normal]

EngineReady(e) == IF e.kind = "kick" THEN KickReady(e) ELSE e.player

\* live?.(): absent on Twitch, which is followed like a recording.  A stream is
\* taken for live whenever its element knows no length.
EngineLive(e) ==
  \/ e.kind = "youtube" /\ e.live
  \/ e.kind = "kick"
  \/ e.kind \in {"hls", "dash"} /\ (e.live \/ ~HasLength(e))

EnginePlay(x) ==
  CASE x.e.kind = "youtube" -> YouTubePlay(x)
    [] x.e.kind = "twitch"  -> TwitchPlay(x)
    [] x.e.kind = "kick"    -> KickPlay(x)
    [] OTHER                -> MediaPlay(x)

EnginePause(x) ==
  CASE x.e.kind = "youtube" -> YouTubePause(x)
    [] x.e.kind = "twitch"  -> TwitchPause(x)
    [] x.e.kind = "kick"    -> KickPause(x)
    [] OTHER                -> MediaPause(x)

EngineSeek(x) ==
  CASE x.e.kind = "youtube" -> YouTubeSeek(x)
    [] x.e.kind = "twitch"  -> TwitchSeek(x)
    [] x.e.kind = "kick"    -> KickSeek(x)
    [] OTHER                -> MediaSeek(x)

EngineSetRate(x, r) ==
  CASE x.e.kind = "youtube" -> YouTubeSetRate(x, r)
    [] x.e.kind = "twitch"  -> TwitchSetRate(x, r)
    [] x.e.kind = "kick"    -> KickSetRate(x, r)
    [] OTHER                -> MediaSetRate(x, r)

EngineSetMuted(x, m) ==
  CASE x.e.kind = "youtube" -> YouTubeSetMuted(x, m)
    [] x.e.kind = "twitch"  -> TwitchSetMuted(x, m)
    [] x.e.kind = "kick"    -> KickSetMuted(x, m)
    [] OTHER                -> MediaSetMuted(x, m)

------------------------------------------------------------------------------
\* decideCorrection: the three bands, and what suppresses them.
Correction(x, confident) ==
  IF x.e.buffering \/ x.w.off = "on" THEN "none"
  ELSE IF x.w.off = "far"             THEN "seek"
  ELSE IF ~confident                  THEN "none"
  ELSE "nudge"

\* Ahead, slow down by a twentieth; behind, speed up.
NudgedHard(x, r) == IF x.w.off = "ahead" THEN r - r \div 2 ELSE r + r \div 2
NudgedRate(x, r) == IF x.w.off = "ahead" THEN r - r \div 20 ELSE r + r \div 20

\* A rate is pushed only when it is not the one pushed last.
Push(x, a, r) == [x |-> IF a = r THEN x ELSE EngineSetRate(x, r), a |-> r]

\* The loop as it would be if it never went back to the room's real speed.
CorrectedForGood(x, tl, a, confident) ==
  CASE Correction(x, confident) = "seek"  -> Push(EngineSeek(x), a, tl.rate)
    [] Correction(x, confident) = "nudge" -> Push(x, a, NudgedRate(x, tl.rate))
    [] OTHER                   -> [x |-> x, a |-> a]

Corrected(x, tl, a, confident) ==
  CASE Correction(x, confident) = "seek"  -> Push(EngineSeek(x), a, tl.rate)
    [] Correction(x, confident) = "nudge" -> Push(x, a, NudgedRate(x, tl.rate))
    [] OTHER                   -> Push(x, a, tl.rate)

\* Pulled back to a position the room holds still at.
HeldAt(x) == IF x.w.off = "on" THEN x ELSE EngineSeek(x)

\* tickRef.current: held while the room waits for its players; at a live edge
\* only the play state; paused before position; then the correction.
Reconciled(x, tl, a, confident) ==
  IF ~EngineReady(x.e) \/ tl.source = NoSource THEN
    [x |-> x, a |-> a]
  ELSE IF tl.awaiting THEN
    [x |-> HeldAt(EnginePause(x)), a |-> a]
  ELSE IF EngineLive(x.e) THEN
    [x |-> IF tl.paused THEN EnginePause(x) ELSE EnginePlay(x), a |-> a]
  ELSE IF tl.paused THEN
    [x |-> HeldAt(EnginePause(x)), a |-> a]
  ELSE
    Corrected(EnginePlay(x), tl, a, confident)

(* Between two checks.                                                      *)

RoomPace == IF room.paused \/ room.awaiting THEN 0 ELSE room.rate
WidgetPace == IF widget.state = "playing" THEN widget.rate ELSE 0

\* positionAt and the playhead advance, each at its own pace.  A check comes
\* often enough for the distance to change by one band.
Drifted(w) ==
  IF w.of = 0 \/ RoomPace = WidgetPace \/ w.off = "far" THEN w
  ELSE [w EXCEPT !.off =
          IF WidgetPace > RoomPace
          THEN [on |-> "ahead", ahead |-> "far", behind |-> "on"][@]
          ELSE [on |-> "behind", behind |-> "far", ahead |-> "on"][@]]

\* The check of the interval, a second after the last.  The burst of probes on
\* connecting is over by then: clock.status.confident.
Tick ==
  /\ eng.gen # 0
  /\ UNCHANGED room /\ UNCHANGED pageVars
  /\ LET t == Reconciled([X EXCEPT !.w = Drifted(@)], room, applied, TRUE)
     IN  Becomes(t.x) /\ applied' = t.a
=============================================================================
