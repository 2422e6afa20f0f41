---------------------------- MODULE YouTubeEngine ----------------------------
(***************************************************************************)
(* The YouTube adapter: apps/web/src/realtime/player/youtube-engine.ts and *)
(* the script loader of apps/web/src/realtime/youtube.ts.                  *)
(***************************************************************************)
EXTENDS PlayerEngine

LoadYouTubeApi == Request("youtube")

\* constructor and the first part of #create.
YouTubeNew(x) ==
  IF x.e.source \in BadLinks THEN OnError([x EXCEPT !.e.phase = "failed"], x.e.gen)
  ELSE x

\* #create continues: the API arrived, and the room has not moved on.
YouTubeCreate ==
  /\ eng.kind = "youtube" /\ eng.phase = "script" /\ scripts["youtube"] = "loaded"
  /\ Becomes([X EXCEPT !.e.phase = "built", !.w = NewWidget(eng.gen)])
  /\ UNCHANGED pageVars

\* The rejection as it would be if it only gave up.
YouTubeGivesUp ==
  /\ eng.kind = "youtube" /\ eng.phase = "script" /\ scripts["youtube"] = "failed"
  /\ Becomes([X EXCEPT !.e.phase = "failed"])
  /\ UNCHANGED pageVars

YouTubeUnavailable ==
  /\ eng.kind = "youtube" /\ eng.phase = "script" /\ scripts["youtube"] = "failed"
  /\ Becomes(OnError([X EXCEPT !.e.phase = "failed"], eng.gen))
  /\ UNCHANGED pageVars

\* #start as it would be without the check that playback really began.
YouTubeStartUnverified(x) ==
  IF ~x.e.player \/ Running(x.w) THEN x
  ELSE [x EXCEPT !.w = Played(@, activated)]

\* #start: ask, and once per attempt arrange to look whether it worked.
YouTubeStart(x) ==
  IF ~x.e.player \/ Running(x.w) THEN x
  ELSE [x EXCEPT !.w = Played(@, activated),
                 !.e.verifying = @ \/ ~x.e.blocked]

\* #applyPending
YouTubeApplyPending(x) ==
  LET y == [x EXCEPT !.w.rate = x.e.rate,
                     !.w.off = IF x.e.at THEN "on" ELSE @]
  IN  IF y.e.playing THEN YouTubeStart(y) ELSE [y EXCEPT !.w = Stopped(@)]

\* onReady of the API.  Whether the broadcast flag can be read yet is open.
YouTubeReady ==
  /\ eng.kind = "youtube" /\ eng.phase = "built" /\ ~eng.player
  /\ \E flagged \in BOOLEAN :
       LET live == flagged /\ eng.source \in LiveSources
       IN  Becomes(OnReady(YouTubeApplyPending([X EXCEPT !.e.player = TRUE,
                                                         !.e.live = live])))
  /\ UNCHANGED pageVars

\* onStateChange: the player stalls, or starts to show frames.
YouTubeStalls ==
  /\ eng.kind = "youtube" /\ eng.player /\ widget.state \in {"starting", "playing"}
  /\ Becomes(SetBuffering([X EXCEPT !.w.state = "buffering"], TRUE))
  /\ UNCHANGED pageVars

YouTubePlays ==
  /\ eng.kind = "youtube" /\ eng.player /\ widget.state \in {"starting", "buffering"}
  /\ \E flagged \in BOOLEAN :
       LET live == eng.live \/ (flagged /\ eng.source \in LiveSources)
       IN  Becomes(SetBuffering([X EXCEPT !.w.state = "playing", !.e.live = live], FALSE))
  /\ UNCHANGED pageVars

\* onError of the API: removed, private, not embeddable.
YouTubeFails ==
  /\ eng.kind = "youtube" /\ eng.phase = "built" /\ ~Running(widget)
  /\ Becomes(OnError(X, eng.gen))
  /\ UNCHANGED pageVars

\* The check AUTOPLAY_GRACE_MS after an attempt.
YouTubeVerify ==
  /\ eng.kind = "youtube" /\ eng.verifying
  /\ LET y == [X EXCEPT !.e.verifying = FALSE]
     IN  Becomes(IF ~eng.playing \/ Running(widget) THEN y
                 ELSE OnAudioBlocked(
                        [y EXCEPT !.e.blocked = TRUE,
                                  !.w = Played([@ EXCEPT !.muted = TRUE], activated)]))
  /\ UNCHANGED pageVars

YouTubePlay(x) == YouTubeStart([x EXCEPT !.e.playing = TRUE])

YouTubePause(x) ==
  [x EXCEPT !.e.playing = FALSE, !.w = IF x.e.player THEN Stopped(@) ELSE @]

YouTubeSeek(x) ==
  [x EXCEPT !.e.at = TRUE, !.w = IF x.e.player THEN Sought(@) ELSE @]

YouTubeSetRate(x, r) ==
  [x EXCEPT !.e.rate = r, !.w.rate = IF x.e.player THEN r ELSE @]

\* Mute, unlike the rest, is not kept for a player still loading.
YouTubeSetMuted(x, m) ==
  IF ~x.e.player THEN x
  ELSE [x EXCEPT !.e.blocked = @ /\ m, !.w.muted = m]
=============================================================================
