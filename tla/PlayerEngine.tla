---------------------------- MODULE PlayerEngine ----------------------------
(***************************************************************************)
(* What every playback adapter shares: the contract of                     *)
(* apps/web/src/realtime/player/engine.ts, the part of the page it draws   *)
(* into, and the events it reports to the Player component.                *)
(*                                                                         *)
(* An adapter's methods call the page and fire events synchronously, so a  *)
(* method is an operator on a configuration [e, w, p]: the engine object,  *)
(* the widget it drew (an embed's iframe, or the one <video> element the   *)
(* media engines share) and the React state of the Player.  An action is   *)
(* one task of the browser's event loop.                                   *)
(*                                                                         *)
(* The browser and the embeds are not in this repository: what a widget    *)
(* does when told to play is modelled from what the adapters say of it and *)
(* how they use it.                                                        *)
(***************************************************************************)
EXTENDS Integers, FiniteSets

CONSTANTS Sources,      \* media sources, one per distinct kind:url
          NoSource,     \* an idle timeline's source
          KindOf,       \* the kind of each source
          LiveSources,  \* those that are broadcasts, whatever their kind
          BadLinks,     \* those whose URL names no video or channel
          NominalRates, \* timeline rates, in 400ths: 100 is quarter speed
          MaxEngines    \* bound: engines built in one behaviour

Kinds == {"youtube", "twitch", "kick", "hls", "dash", "file"}

\* EMBEDDED_KINDS: drawn by a third party's iframe.
EmbeddedKinds == {"youtube", "twitch", "kick"}

\* Speed one: what a new widget plays at.
Normal == 400

ASSUME PlayerAssumption ==
         /\ NoSource \notin Sources
         /\ KindOf \in [Sources -> Kinds]
         /\ LiveSources \subseteq Sources /\ BadLinks \subseteq Sources
         /\ NominalRates \subseteq {100 * n : n \in 1..8} /\ Normal \in NominalRates
         /\ MaxEngines \in Nat

\* A nudge is a twentieth of the nominal rate, up or down.
EngineRates == {r + d * (r \div 20) : r \in NominalRates, d \in {-1, 0, 1}}

------------------------------------------------------------------------------
(* The engine object.                                                       *)

\* phase: what construction is waiting for; "script" is the embed's script or
\* the imported library.  player: #player is known, or #ready.  playing, at,
\* rate, muted: the state kept to be applied later (#pending), or Kick's.
\* attempt: the promise of a <video>'s play().  timer: Kick's #unreachable.
NoEngine ==
  [gen |-> 0, source |-> NoSource, kind |-> "file", phase |-> "gone",
   player |-> FALSE, announced |-> FALSE, buffering |-> FALSE,
   live |-> FALSE, blocked |-> FALSE, verifying |-> FALSE,
   playing |-> FALSE, at |-> FALSE, rate |-> Normal,
   muted |-> FALSE, attempt |-> "none", timer |-> FALSE, relayed |-> FALSE]

EngineStates ==
  [gen : 0..MaxEngines, source : Sources \cup {NoSource}, kind : Kinds,
   phase : {"gone", "script", "built", "failed"},
   player : BOOLEAN, announced : BOOLEAN, buffering : BOOLEAN,
   live : BOOLEAN, blocked : BOOLEAN, verifying : BOOLEAN,
   playing : BOOLEAN, at : BOOLEAN, rate : EngineRates,
   muted : BOOLEAN, attempt : {"none", "first", "second"}, timer : BOOLEAN,
   relayed : BOOLEAN]

NewEngine(g, s) == [NoEngine EXCEPT !.gen = g, !.source = s,
                                    !.kind = KindOf[s], !.phase = "script"]

\* usableDuration: a broadcast has no length worth reporting.
HasLength(e) == e.source \notin LiveSources

------------------------------------------------------------------------------
(* The widget on the page.                                                  *)

\* A level of volume is not told apart: zero is muted.
\* of: the engine that drew it; off: where its playhead is, against the room's.
WidgetStates ==
  [of : 0..MaxEngines,
   state : {"none", "cued", "starting", "playing", "buffering", "paused"},
   rate : EngineRates, muted : BOOLEAN,
   off : {"on", "ahead", "behind", "far"}]

NoWidget == [of |-> 0, state |-> "none", rate |-> Normal, muted |-> FALSE, off |-> "on"]

NewWidget(g) == [NoWidget EXCEPT !.of = g, !.state = "cued", !.off = "far"]

Running(w) == w.state \in {"playing", "buffering"}

\* Autoplay policy: an audible start needs a gesture on the page.
MayPlay(w, gesture) == gesture \/ w.muted

\* Told to play: it starts, or an embed draws its own button and says nothing.
Played(w, gesture) ==
  IF w.state \in {"cued", "paused"} /\ MayPlay(w, gesture)
  THEN [w EXCEPT !.state = "starting"]
  ELSE w

Stopped(w) ==
  IF w.state \in {"starting", "playing", "buffering"}
  THEN [w EXCEPT !.state = "paused"] ELSE w

Sought(w) == [w EXCEPT !.off = "on"]

------------------------------------------------------------------------------
(* The page.                                                                *)

Scripts == {"youtube", "twitch", "hls", "dash"}

VARIABLES
  eng,        \* the engine in place, engineRef.current
  widget,     \* what it drew
  panel,      \* the Player component's state
  scripts,    \* the memoised loader promise or import of each library
  orphans,    \* destroyed engines whose construction is still waiting
  activated   \* navigator.userActivation.hasBeenActive

X == [e |-> eng, w |-> widget, p |-> panel]
Becomes(x) == eng' = x.e /\ widget' = x.w /\ panel' = x.p
pageVars == <<scripts, orphans, activated>>

\* Asked for once per document; a promise that rejected stays rejected.
Request(which) ==
  IF scripts[which] = "idle" THEN [scripts EXCEPT ![which] = "loading"] ELSE scripts

------------------------------------------------------------------------------
(* The Player component's state, and the events that change it.             *)

\* error: the engine a shown error came from, 0 for none.  readies: how often
\* playback_ready was sent for the engine in place.  What else it shows, a live
\* badge and the menu of renditions, changes no behaviour and is left out.
PanelStates ==
  [buffering : BOOLEAN, error : 0..MaxEngines, muted : BOOLEAN,
   audioBlocked : BOOLEAN, readies : 0..2]

InitPanel ==
  [buffering |-> FALSE, error |-> 0, muted |-> FALSE,
   audioBlocked |-> FALSE, readies |-> 0]

OnBufferingChange(x, b) == [x EXCEPT !.p.buffering = b]

OnError(x, g) == [x EXCEPT !.p.error = g, !.p.buffering = FALSE]

OnReady(x) ==
  [x EXCEPT !.p.buffering = FALSE,
            !.p.readies = IF @ < 2 THEN @ + 1 ELSE @]

\* An event that shows the overlay but leaves the mute button as it was.
OnAudioBlockedQuietly(x) == [x EXCEPT !.p.audioBlocked = TRUE]
OnAudioBlocked(x) == [x EXCEPT !.p.audioBlocked = TRUE, !.p.muted = TRUE]

\* #setBuffering of every adapter: an event only when it changed.
SetBuffering(x, b) ==
  IF x.e.buffering = b THEN x
  ELSE OnBufferingChange([x EXCEPT !.e.buffering = b], b)
=============================================================================
