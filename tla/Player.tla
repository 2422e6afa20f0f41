------------------------------- MODULE Player -------------------------------
(***************************************************************************)
(* The room's player, apps/web/src/components/room/player.tsx, with the    *)
(* engine it builds for the source, the sync loop, the keyboard            *)
(* (hooks/use-room-shortcuts.ts) and the viewer.                           *)
(***************************************************************************)
EXTENDS PlayerSync

CONSTANTS MaxArrivals,  \* bound: timelines that arrive in one behaviour
          CannotLoad    \* the scripts and libraries that may fail to load

VARIABLES
  built,     \* engines built so far
  arrivals   \* timelines received so far

playerVars == <<eng, widget, panel, scripts, orphans, activated,
                room, applied, built, arrivals>>
roomVars == <<room, applied, built, arrivals>>

PlayerBoundsAssumption == MaxArrivals \in Nat /\ CannotLoad \subseteq Scripts
ASSUME PlayerBoundsAssumption

Init ==
  /\ eng = NoEngine /\ widget = NoWidget /\ panel = InitPanel
  /\ scripts = [s \in Scripts |-> "idle"] /\ orphans = {}
  /\ activated = FALSE
  /\ room = IdleRoom /\ applied = Normal
  /\ built = 0 /\ arrivals = 0

------------------------------------------------------------------------------
(* The engine's life: the effect keyed on the source.                       *)

\* Its cleanup: destroy, and the embed's mount emptied.
Unmounted(x) ==
  [x EXCEPT !.e = NoEngine,
            !.w = IF x.e.kind \in EmbeddedKinds THEN NoWidget ELSE MediaDestroy(x).w]

\* Construction that was waiting for a script goes on waiting.
Orphaned ==
  IF eng.phase = "script" /\ eng.kind \in Scripts
  THEN orphans \cup {[gen |-> eng.gen, kind |-> eng.kind]} ELSE orphans

\* The state that belongs to a source starts over; mute does not.
FreshPanel(p) ==
  [InitPanel EXCEPT !.buffering = TRUE, !.muted = p.muted]

\* An engine of the source's kind.
Mounted(s) ==
  LET x == [Unmounted(X) EXCEPT !.e = NewEngine(built + 1, s), !.p = FreshPanel(@)]
  IN  CASE KindOf[s] = "youtube" -> YouTubeNew(x)
        [] KindOf[s] = "twitch"  -> TwitchNew(x)
        [] KindOf[s] = "kick"    -> KickNew(x)
        [] OTHER                 -> MediaNew(x)

\* A destroyed engine, to whoever still holds it.  An embed's player is gone
\* with it, but Kick's adapter, which announced itself and has no frame left to
\* rebuild, and a <video>'s, deaf to refusals, still call themselves ready.  An
\* emptied element has no length, so a stream's takes itself for live.
Destroyed(e) ==
  [e EXCEPT !.phase = "failed", !.blocked = TRUE, !.attempt = "none",
            !.player = @ /\ e.kind \notin EmbeddedKinds,
            !.live = e.kind \in {"hls", "dash"}]

\* The element is the page's, not the engine's: left to a <video>, it reaches
\* what the successor is loading, unless that is an embed.
Reaches(e, successor) == e.kind = "kick" \/ successor.kind \notin EmbeddedKinds

\* In the commit that brings the new source the loop still holds the engine
\* just destroyed, and applies the new timeline to it.
StaleTick(x, tl, confident) ==
  LET stale == Reconciled([x EXCEPT !.e = Destroyed(eng)], tl, applied, confident)
  IN  [x |-> IF Reaches(eng, x.e) THEN [stale.x EXCEPT !.e = x.e] ELSE x,
       a |-> stale.a]

Asked(s) ==
  CASE s \in BadLinks            -> scripts
    [] KindOf[s] = "youtube"     -> LoadYouTubeApi
    [] KindOf[s] = "twitch"      -> LoadTwitchEmbed
    [] KindOf[s] \in {"hls", "dash"} -> Request(KindOf[s])
    [] OTHER                     -> scripts

Mount(tl) ==
  /\ built < MaxEngines /\ built' = built + 1
  /\ \E c \in BOOLEAN : LET t == StaleTick(Mounted(tl.source), tl, c)
                       IN  Becomes(t.x) /\ applied' = t.a
  /\ orphans' = Orphaned /\ scripts' = Asked(tl.source)

\* The same source under a new version: the engine stays, the loop runs.
Apply(tl) ==
  /\ \E c \in BOOLEAN : LET t == Reconciled(X, tl, applied, c)
                       IN  Becomes(t.x) /\ applied' = t.a
  /\ UNCHANGED <<built, orphans, scripts>>

Arrive(tl) ==
  /\ arrivals < MaxArrivals /\ arrivals' = arrivals + 1
  /\ room' = tl
  /\ IF tl.source = room.source THEN Apply(tl) ELSE Mount(tl)
  /\ UNCHANGED activated

\* What the server's timeline does: found as it is on joining, found playing
\* something else after a reconnection, cued, started, paused and resumed,
\* given another rate, emptied.
Found ==
  /\ arrivals = 0
  /\ \E s \in Sources, p \in BOOLEAN, r \in NominalRates :
       Arrive([source |-> s, paused |-> p, awaiting |-> FALSE, rate |-> r])

FoundAgain ==
  /\ arrivals > 0
  /\ \E s \in Sources \ {room.source} :
       Arrive([source |-> s, paused |-> FALSE, awaiting |-> FALSE, rate |-> room.rate])

Cued ==
  \E s \in Sources :
    Arrive([source |-> s, paused |-> TRUE, awaiting |-> TRUE, rate |-> room.rate])

Started == room.awaiting /\ Arrive([room EXCEPT !.awaiting = FALSE, !.paused = FALSE])

Toggled ==
  /\ room.source # NoSource /\ ~room.awaiting
  /\ Arrive([room EXCEPT !.paused = ~@])

Rated ==
  /\ room.source # NoSource
  /\ \E r \in NominalRates \ {room.rate} : Arrive([room EXCEPT !.rate = r])

\* A seek: the room is elsewhere, and the loop takes the player there.
Jumped ==
  /\ room.source # NoSource /\ ~room.awaiting
  /\ arrivals < MaxArrivals /\ arrivals' = arrivals + 1
  /\ widget.of # 0
  /\ LET t == Reconciled([X EXCEPT !.w.off = "far"], room, applied, FALSE)
     IN  Becomes(t.x) /\ applied' = t.a
  /\ UNCHANGED <<room, built>> /\ UNCHANGED pageVars

\* Nothing to play: IdlePlayer is rendered instead, and the <video> goes with
\* the rest of the page.
Emptied ==
  /\ room.source # NoSource
  /\ arrivals < MaxArrivals /\ arrivals' = arrivals + 1
  /\ room' = IdleRoom /\ Becomes([Unmounted(X) EXCEPT !.w = NoWidget])
  /\ orphans' = Orphaned
  /\ UNCHANGED <<scripts, activated, applied, built>>

------------------------------------------------------------------------------
(* Scripts.                                                                 *)

ScriptLoads ==
  /\ \E s \in Scripts : /\ scripts[s] = "loading"
                        /\ scripts' = [scripts EXCEPT ![s] = "loaded"]
  /\ UNCHANGED <<eng, widget, panel, orphans, activated>>
  /\ UNCHANGED roomVars

ScriptFails ==
  /\ \E s \in CannotLoad : /\ scripts[s] = "loading"
                           /\ scripts' = [scripts EXCEPT ![s] = "failed"]
  /\ UNCHANGED <<eng, widget, panel, orphans, activated>>
  /\ UNCHANGED roomVars

\* A destroyed engine whose script arrived, drawing as if it were not.
OrphanDraws ==
  \E o \in orphans :
    /\ scripts[o.kind] = "loaded" /\ orphans' = orphans \ {o}
    /\ widget' = NewWidget(o.gen)
    /\ UNCHANGED <<eng, panel, scripts, activated>> /\ UNCHANGED roomVars

\* The room has moved on while the script was loading: nothing is drawn.  A
\* library that failed is missed by nobody either.
OrphanResumes ==
  \E o \in orphans :
    /\ \/ scripts[o.kind] = "loaded"
       \/ scripts[o.kind] = "failed" /\ o.kind \notin EmbeddedKinds
    /\ orphans' = orphans \ {o}
    /\ UNCHANGED <<eng, widget, panel, scripts, activated>>
    /\ UNCHANGED roomVars

\* A script failed: that is reported without asking whether the room moved on.
OrphanCannotLoad ==
  \E o \in orphans :
    /\ scripts[o.kind] = "failed" /\ o.kind \in EmbeddedKinds
    /\ orphans' = orphans \ {o}
    /\ Becomes(OnError(X, o.gen))
    /\ UNCHANGED <<scripts, activated>> /\ UNCHANGED roomVars

------------------------------------------------------------------------------
(* The adapters' own steps.                                                 *)

YouTubeStep ==
  \/ YouTubeCreate \/ YouTubeUnavailable \/ YouTubeReady \/ YouTubeStalls
  \/ YouTubePlays \/ YouTubeFails \/ YouTubeVerify

TwitchStep ==
  \/ TwitchCreate \/ TwitchUnavailable \/ TwitchReady \/ TwitchPlays
  \/ TwitchStalls \/ TwitchOffline \/ TwitchVerify

MediaStep ==
  \/ MediaAttach \/ HlsNetworkError \/ HlsMediaError \/ HlsFatalError
  \/ MediaLoads \/ MediaWaits \/ MediaPlays \/ MediaFails

EngineStep ==
  /\ \/ YouTubeStep \/ TwitchStep \/ KickLoads \/ KickUnreachable \/ MediaStep
  /\ UNCHANGED roomVars

------------------------------------------------------------------------------
(* The viewer.  A press is a gesture before it is a click: the page counts  *)
(* as activated by the time a handler runs.  Of the chrome only what         *)
(* reaches the engine is here.                                              *)

HasVolume == room.source # NoSource /\ KindOf[room.source] # "kick"

\* UnmuteOverlay
OffersSound == panel.audioBlocked /\ ~room.paused

Touch ==
  /\ ~activated /\ activated' = TRUE
  /\ UNCHANGED <<eng, widget, panel, scripts, orphans>> /\ UNCHANGED roomVars

Click(x) == /\ activated /\ Becomes(x)
            /\ UNCHANGED pageVars /\ UNCHANGED roomVars

\* A call through engine?. reaches nothing when there is no engine.
OnEngine(x, called) == IF x.e.gen = 0 THEN x ELSE called

ToggleMute ==
  /\ room.source # NoSource
  /\ LET next == ~panel.muted
         x == [X EXCEPT !.p.muted = next, !.p.audioBlocked = @ /\ next]
     IN  Click(OnEngine(x, EngineSetMuted(x, next)))

\* The slider, released at nothing or at something.
ApplyVolume ==
  /\ HasVolume
  /\ \E zero \in BOOLEAN :
       LET x == [X EXCEPT !.p.muted = zero, !.p.audioBlocked = @ /\ zero]
       IN  Click(OnEngine(x, EngineSetMuted(x, zero)))

\* The overlay's button, which takes the browser up on its offer.
RestoreAudio ==
  /\ OffersSound
  /\ LET x == [X EXCEPT !.p.audioBlocked = FALSE, !.p.muted = FALSE]
     IN  Click(OnEngine(x, EnginePlay(EngineSetMuted(x, FALSE))))

\* M mutes the engine, and only the engine.
KeyMute == eng.gen # 0 /\ Click(EngineSetMuted(X, TRUE))

Viewer ==
  \/ Touch \/ ToggleMute \/ ApplyVolume \/ RestoreAudio \/ KeyMute

Timelines ==
  \/ Found \/ FoundAgain \/ Cued \/ Started \/ Toggled \/ Rated \/ Emptied
  \/ Jumped

Next ==
  \/ Timelines \/ Viewer \/ EngineStep
  \/ ScriptLoads \/ ScriptFails \/ OrphanResumes \/ OrphanCannotLoad
  \/ Tick /\ UNCHANGED <<built, arrivals>>

------------------------------------------------------------------------------
(* Fairness: timers fire, a request for a script is answered one way or the *)
(* other, and the client's own code goes on when it was.  That a widget,    *)
(* once made, ever says anything is not assumed.                            *)

\* What construction does next, and the timer of the one embed that is mute.
Constructs ==
  /\ UNCHANGED roomVars
  /\ \/ YouTubeCreate \/ YouTubeUnavailable
     \/ TwitchCreate \/ TwitchUnavailable
     \/ MediaAttach \/ KickUnreachable

\* A player told to play shows frames; a host that answered once answers again.
Frames ==
  /\ UNCHANGED roomVars
  /\ \/ YouTubePlays \/ TwitchPlays \/ MediaPlays
     \/ eng.player /\ KickLoads

\* AUTOPLAY_GRACE_MS
Grace == UNCHANGED roomVars /\ (YouTubeVerify \/ TwitchVerify)

PlayerFairness ==
  /\ WF_playerVars(UNCHANGED <<built, arrivals>> /\ Tick)
  /\ WF_playerVars(ScriptLoads \/ ScriptFails)
  /\ WF_playerVars(Constructs) /\ WF_playerVars(Frames) /\ WF_playerVars(Grace)

Spec == Init /\ [][Next]_playerVars /\ PlayerFairness

------------------------------------------------------------------------------
(* Properties.                                                              *)

\* The type of every variable.
PlayerTypeOK ==
  /\ eng \in EngineStates /\ widget \in WidgetStates /\ panel \in PanelStates
  /\ scripts \in [Scripts -> {"idle", "loading", "loaded", "failed"}]
  /\ orphans \subseteq [gen : 1..MaxEngines, kind : Scripts]
  /\ activated \in BOOLEAN
  /\ room \in [source : Sources \cup {NoSource}, paused : BOOLEAN,
               awaiting : BOOLEAN, rate : NominalRates]
  /\ applied \in EngineRates
  /\ built \in 0..MaxEngines /\ arrivals \in 0..MaxArrivals

\* What is on the page was drawn by the engine in place: a destroyed engine
\* leaves nothing behind and draws nothing later, however late its script is
\* (the #destroyed checks after each await, the cleanup of player.tsx).
OneWidget == widget.of \in {0, eng.gen} /\ (widget.of = 0 => widget.state = "none")

\* The room is told once per engine that it can play, whichever of several
\* events proves it first (#markReady, #announced).
ReadyOnce == panel.readies < 2

\* A start that only succeeded silently is never left looking audible: the
\* mute button says muted, so one press of it brings the sound back
\* (onAudioBlocked of engine.ts).  A second attempt still pending is not known
\* to have succeeded.
SilenceIsOffered ==
  eng.blocked /\ widget.muted /\ eng.attempt # "second" => panel.muted

\* Made, and not yet playing: the next word is the widget's.  Kick's can say
\* only that it arrived, so its adapter has a timer instead.
WidgetsTurn == eng.kind # "kick" /\ eng.phase = "built" /\ ~Running(widget)

\* An import that rejects is caught by nobody (media-engine.ts).
ImportFailed == eng.kind \in {"hls", "dash"} /\ scripts[eng.kind] = "failed"

\* The room's wait never hangs on the client: the engine in place in the end has
\* announced that it can play, shows an error, or drew a widget that has yet to
\* answer, however its script and its predecessors' fared (onReady and onError
\* of engine.ts, the catch of each #create, the timer of kick-engine.ts).
Released ==
  []<>(\/ eng.gen = 0 \/ panel.readies > 0 \/ panel.error # 0
       \/ WidgetsTurn \/ ImportFailed)

\* The room plays, and this player can.
Wanted == EngineReady(eng) /\ ~room.paused /\ ~room.awaiting

\* In a room that goes on playing a player that is ready keeps getting to
\* play, if silently, or an error is shown: autoplay refused is not the end.  A
\* viewer who never leaves the mute button alone rebuilds Kick's frame for ever,
\* and a stream may need to be recovered for ever just before it would play.
Plays ==
  <>[]Wanted => \/ []<>(Running(widget) \/ panel.error # 0)
                \/ []<>eng.muted /\ []<>~eng.muted
                \/ /\ []<>(eng.kind = "hls" /\ widget.state = "cued")
                   /\ []<>(eng.kind = "hls" /\ widget.state = "starting")

\* Followed without hindrance by an adapter that takes a rate.
Steady ==
  /\ Wanted /\ ~EngineLive(eng) /\ eng.kind \in {"youtube", "file", "hls", "dash"}
  /\ widget.state = "playing" /\ ~eng.buffering

\* appliedRate outlives the engine it was pushed to, so a new engine may run at
\* the wrong speed: the drift this makes corrects it, and every nudge ends.
RateConverges == <>[]Steady => []<>(widget.rate = room.rate)
=============================================================================
