----------------------------- MODULE KickEngine -----------------------------
(***************************************************************************)
(* The Kick adapter: apps/web/src/realtime/player/kick-engine.ts.  The     *)
(* embed has no API: an iframe is the only thing the engine can make, and  *)
(* its load event the only thing it can hear.                              *)
(***************************************************************************)
EXTENDS PlayerEngine

\* #mount: a new iframe for the state wanted now, and the 12 s timer.
KickMount(x) ==
  IF x.e.phase = "failed" THEN x
  ELSE [x EXCEPT !.e.phase = "built", !.e.timer = TRUE,
                 !.w = [NewWidget(x.e.gen) EXCEPT !.muted = x.e.muted]]

\* #teardown, with #clearUnreachable: the engine's own frame, if it has one.
KickTeardown(x) ==
  [x EXCEPT !.e.timer = FALSE,
            !.w = IF @.of = x.e.gen THEN NoWidget ELSE @]

\* constructor: loaded straight away, silent unless the page had a gesture.
KickNew(x) ==
  LET y == [x EXCEPT !.e.muted = ~activated]
  IN  IF x.e.source \in BadLinks THEN OnError([y EXCEPT !.e.phase = "failed"], x.e.gen)
      ELSE KickMount([y EXCEPT !.e.playing = TRUE])

\* The latch of #announced, shared by load, the timer and pause.
KickAnnounce(x) ==
  IF x.e.announced THEN x ELSE OnReady([x EXCEPT !.e.announced = TRUE])

\* The iframe's load event.
KickLoads ==
  /\ eng.kind = "kick" /\ widget.state = "cued"
  /\ LET y == OnBufferingChange(
                [X EXCEPT !.e.timer = FALSE, !.e.player = TRUE,
                          !.w.state = IF MayPlay(widget, activated)
                                      THEN "playing" ELSE "paused"], FALSE)
         z == KickAnnounce(y)
     IN  Becomes(IF eng.muted THEN OnAudioBlocked(z) ELSE z)
  /\ UNCHANGED pageVars

\* The timer: the embed never arrived.  A frame rebuilt after one that did
\* load finds #ready still set, and says nothing.
KickUnreachable ==
  /\ eng.kind = "kick" /\ eng.timer
  /\ LET y == [X EXCEPT !.e.timer = FALSE]
     IN  Becomes(IF eng.player THEN y ELSE OnError(KickAnnounce(y), eng.gen))
  /\ UNCHANGED pageVars

KickReady(e) == e.announced \/ e.player

KickPlay(x) ==
  IF x.e.playing /\ x.w.of = x.e.gen THEN x
  ELSE KickMount(OnBufferingChange([x EXCEPT !.e.playing = TRUE], TRUE))

KickPause(x) ==
  IF ~x.e.playing THEN x
  ELSE OnBufferingChange(
         KickTeardown(KickAnnounce([x EXCEPT !.e.playing = FALSE,
                                             !.e.player = FALSE])), FALSE)

KickSeek(x) == x
KickSetRate(x, r) == x

\* Mute is read once at load, so changing it while playing is a new iframe.
KickSetMuted(x, m) ==
  IF m = x.e.muted THEN x
  ELSE LET y == [x EXCEPT !.e.muted = m]
       IN  IF x.e.playing THEN KickMount(y) ELSE y
=============================================================================
