---------------------------- MODULE TwitchEngine ----------------------------
(***************************************************************************)
(* The Twitch adapter: apps/web/src/realtime/player/twitch-engine.ts.      *)
(***************************************************************************)
EXTENDS PlayerEngine

LoadTwitchEmbed == Request("twitch")

\* constructor, parseTwitch and the first part of #create.
TwitchNew(x) ==
  LET y == [x EXCEPT !.e.buffering = TRUE]
  IN  IF x.e.source \in BadLinks THEN OnError([y EXCEPT !.e.phase = "failed"], x.e.gen)
      ELSE y

TwitchCreate ==
  /\ eng.kind = "twitch" /\ eng.phase = "script" /\ scripts["twitch"] = "loaded"
  /\ Becomes([X EXCEPT !.e.phase = "built", !.w = NewWidget(eng.gen)])
  /\ UNCHANGED pageVars

TwitchUnavailable ==
  /\ eng.kind = "twitch" /\ eng.phase = "script" /\ scripts["twitch"] = "failed"
  /\ Becomes(OnError([X EXCEPT !.e.phase = "failed"], eng.gen))
  /\ UNCHANGED pageVars

\* #markReady without the latch: ready and playing each announce.
TwitchMarkReadyAgain(x) == OnReady(SetBuffering([x EXCEPT !.e.announced = TRUE], FALSE))

TwitchMarkReady(x) ==
  IF x.e.announced THEN x
  ELSE OnReady(SetBuffering([x EXCEPT !.e.announced = TRUE], FALSE))

\* #start
TwitchStart(x) ==
  IF ~x.e.player \/ Running(x.w) THEN x
  ELSE [x EXCEPT !.w = Played(@, activated),
                 !.e.verifying = @ \/ ~x.e.blocked]

\* #applyPending
TwitchApplyPending(x) ==
  LET y == [x EXCEPT !.w.muted = x.e.muted,
                     !.w.off = IF x.e.at THEN "on" ELSE @]
  IN  IF y.e.playing THEN TwitchStart(y) ELSE [y EXCEPT !.w = Stopped(@)]

\* The embed's ready event.
TwitchReady ==
  /\ eng.kind = "twitch" /\ eng.phase = "built" /\ ~eng.player
  /\ Becomes(TwitchMarkReady(TwitchApplyPending([X EXCEPT !.e.player = TRUE])))
  /\ UNCHANGED pageVars

\* The embed's playing event, which may also be the first one to arrive.
TwitchPlays ==
  /\ eng.kind = "twitch" /\ eng.phase = "built"
  /\ \/ widget.state \in {"starting", "buffering"}
     \/ ~eng.player /\ widget.state = "cued" /\ MayPlay(widget, activated)
  /\ Becomes(SetBuffering(TwitchMarkReady([X EXCEPT !.w.state = "playing"]), FALSE))
  /\ UNCHANGED pageVars

\* The embed refills its buffer without telling: #buffering does not follow.
TwitchStalls ==
  /\ eng.kind = "twitch" /\ widget.state = "playing"
  /\ Becomes([X EXCEPT !.w.state = "buffering"])
  /\ UNCHANGED pageVars

TwitchOffline ==
  /\ eng.kind = "twitch" /\ eng.phase = "built" /\ ~Running(widget)
  /\ Becomes(OnError(X, eng.gen))
  /\ UNCHANGED pageVars

TwitchVerify ==
  /\ eng.kind = "twitch" /\ eng.verifying
  /\ LET y == [X EXCEPT !.e.verifying = FALSE]
     IN  Becomes(IF ~eng.playing \/ Running(widget) THEN y
                 ELSE OnAudioBlocked(
                        [y EXCEPT !.e.blocked = TRUE,
                                  !.w = Played([@ EXCEPT !.muted = TRUE], activated)]))
  /\ UNCHANGED pageVars

TwitchPlay(x) == TwitchStart([x EXCEPT !.e.playing = TRUE])

TwitchPause(x) ==
  [x EXCEPT !.e.playing = FALSE, !.w = IF x.e.player THEN Stopped(@) ELSE @]

\* A live channel has no length, and seeking it would throw in the embed.
TwitchSeek(x) ==
  [x EXCEPT !.e.at = TRUE,
            !.w = IF x.e.player /\ HasLength(x.e) THEN Sought(@) ELSE @]

TwitchSetRate(x, r) == x

TwitchSetMuted(x, m) ==
  [x EXCEPT !.e.muted = m, !.e.blocked = @ /\ m,
            !.w.muted = IF x.e.player THEN m ELSE @]
=============================================================================
