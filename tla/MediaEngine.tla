---------------------------- MODULE MediaEngine -----------------------------
(***************************************************************************)
(* The adapter around the room's one <video> element, for plain files, HLS *)
(* and DASH: apps/web/src/realtime/player/media-engine.ts.  The element    *)
(* outlives the engines: its muted flag carries over.             *)
(***************************************************************************)
EXTENDS PlayerEngine

CONSTANT HlsSupport  \* "mse", "native" or "none": what this browser can do

\* Giving the element a source: the load algorithm, which also pauses it and
\* resets its rate.
MediaSrc(x) ==
  [x EXCEPT !.e.phase = "built",
            !.w = [@ EXCEPT !.of = x.e.gen, !.state = "cued", !.off = "far",
                            !.rate = Normal]]

\* constructor; #attachSource up to its first await.
MediaNew(x) ==
  IF x.e.kind = "file" THEN MediaSrc(x) ELSE x

\* What play() does when its promise rejects: it takes any reason for the
\* autoplay policy's, mutes and tries again.
MediaCaught(x) ==
  LET y == [x EXCEPT !.e.attempt = "none"]
  IN  IF x.w.muted \/ x.e.blocked THEN y
      ELSE [y EXCEPT !.e.blocked = TRUE, !.e.attempt = "second",
                     !.w = Played([@ EXCEPT !.muted = TRUE], activated)]

\* The pending promise is rejected because the element was paused or reloaded:
\* for a second attempt the mute is taken back.
MediaAborted(x) ==
  CASE x.e.attempt = "first"  -> MediaCaught(x)
    [] x.e.attempt = "second" -> [x EXCEPT !.e.attempt = "none",
                                           !.e.blocked = FALSE, !.w.muted = FALSE]
    [] OTHER -> x

\* #startHls
StartHls(x, relayed) ==
  MediaAborted(MediaSrc([x EXCEPT !.e.relayed = relayed]))

\* #attachSource resumes once the library is imported.
MediaAttach ==
  /\ eng.kind \in {"hls", "dash"} /\ eng.phase = "script"
  /\ scripts[eng.kind] = "loaded"
  /\ Becomes(IF eng.kind = "dash" \/ HlsSupport = "native" THEN MediaSrc(X)
             ELSE IF HlsSupport = "mse" THEN StartHls(X, FALSE)
             ELSE OnError([X EXCEPT !.e.phase = "failed"], eng.gen))
  /\ UNCHANGED pageVars

\* Hls.Events.ERROR, fatal: a refused fetch is tried once more through the
\* relay.  A relayed one keeps asking, with startLoad and for ever: no step.
HlsNetworkError ==
  /\ eng.kind = "hls" /\ HlsSupport = "mse" /\ eng.phase = "built" /\ ~eng.relayed
  /\ Becomes(StartHls(X, TRUE))
  /\ UNCHANGED pageVars

\* A media error is recovered from, as often as it comes: recoverMediaError
\* takes the element's source away and gives it a new one.
HlsMediaError ==
  /\ eng.kind = "hls" /\ HlsSupport = "mse" /\ eng.phase = "built"
  /\ Becomes(MediaAborted(MediaSrc(X)))
  /\ UNCHANGED pageVars

\* Anything else is the end of it.
HlsFatalError ==
  /\ eng.kind = "hls" /\ HlsSupport = "mse" /\ eng.phase = "built" /\ ~Running(widget)
  /\ Becomes(OnError(X, eng.gen))
  /\ UNCHANGED pageVars

\* #markReady
MediaMarkReady(x) == IF x.e.player THEN x ELSE OnReady([x EXCEPT !.e.player = TRUE])

\* loadedmetadata and canplay of a source that loads.
MediaLoads ==
  /\ eng.kind \notin EmbeddedKinds /\ eng.phase = "built" /\ ~eng.player
  /\ widget.state \notin {"none", "playing"}
  /\ Becomes(SetBuffering(MediaMarkReady(X), FALSE))
  /\ UNCHANGED pageVars

\* waiting and stalled
MediaWaits ==
  /\ eng.kind \notin EmbeddedKinds /\ widget.state \in {"starting", "playing"}
  /\ widget.of = eng.gen
  /\ Becomes(SetBuffering([X EXCEPT !.w.state = IF @ = "playing" THEN "buffering" ELSE @],
                          TRUE))
  /\ UNCHANGED pageVars

\* playing: the promise of play() is kept, and a silent start is announced.
MediaPlays ==
  /\ eng.kind \notin EmbeddedKinds /\ widget.state \in {"starting", "buffering"}
  /\ widget.of = eng.gen
  /\ LET y == SetBuffering(MediaMarkReady([X EXCEPT !.w.state = "playing",
                                                    !.e.attempt = "none"]), FALSE)
     IN  Becomes(IF eng.attempt = "second" THEN OnAudioBlocked(y) ELSE y)
  /\ UNCHANGED pageVars

\* error of the element
MediaFails ==
  /\ eng.kind \notin EmbeddedKinds /\ eng.phase = "built" /\ ~Running(widget)
  /\ Becomes(OnError(X, eng.gen))
  /\ UNCHANGED pageVars

MediaPlay(x) ==
  IF x.w.state \notin {"cued", "paused"} THEN x
  ELSE IF MayPlay(x.w, activated)
       THEN [x EXCEPT !.e.attempt = "first", !.w = Played(@, activated)]
       ELSE MediaCaught(x)

MediaPause(x) ==
  LET y == [x EXCEPT !.w = Stopped(@)]
  IN  IF x.w.state = "starting" THEN MediaAborted(y) ELSE y

MediaSeek(x) == [x EXCEPT !.w = Sought(@)]
MediaSetRate(x, r) == [x EXCEPT !.w.rate = r]
MediaSetMuted(x, m) == [x EXCEPT !.e.blocked = @ /\ m, !.w.muted = m]

\* destroy: the element loses its source, and with it a pending promise; the
\* handler of a destroyed engine only ever takes a mute back.
MediaDestroy(x) ==
  [x EXCEPT !.w = [@ EXCEPT !.of = 0, !.state = "none",
                            !.muted = x.w.muted /\ x.e.attempt # "second"]]
=============================================================================
