---------------------------- MODULE Player_proofs ----------------------------
(***************************************************************************)
(* Whatever the source, the script that fails and the viewer's presses, one *)
(* widget at most is on the page, the room is told once that it plays, and  *)
(* a start that was only silent is never shown as audible: for any set of   *)
(* sources, kinds and rates, and any number of engines and timelines.       *)
(***************************************************************************)
EXTENDS Player, TLAPS

Configs == [e : EngineStates, w : WidgetStates, p : PanelStates]

(* What is on the page was drawn by the engine in place, once built.        *)
Drawn(x) == /\ x.w.of \in {0, x.e.gen} /\ (x.w.of = 0 => x.w.state = "none")
            /\ x.e.phase # "built" => x.w.of = 0

(* Where there is no engine nothing waits, plays or is refused.             *)
Absent(x) == x.e.gen = 0 => /\ x.e.kind = "file" /\ x.e.phase = "gone"
                            /\ ~x.e.player /\ ~x.e.blocked

(* An engine that announced itself remembers it: in #announced where the    *)
(* player may come and go, and else in having a player.                     *)
Latched(e) == IF e.kind \in {"twitch", "kick"} THEN e.announced ELSE e.player
Told(x) == /\ x.p.readies < 2
           /\ x.p.readies # 0 /\ x.e.gen # 0 => Latched(x.e)

(* A check of a start, or a start found refused, belongs to a player; the   *)
(* pending promise of play(), to an element still starting.                 *)
Tried(x) ==
  /\ x.e.blocked \/ x.e.verifying =>
       x.e.kind # "kick" /\ (x.e.kind = "youtube" => x.e.player)
  /\ x.e.attempt # "none" => x.e.kind \notin EmbeddedKinds /\ x.w.state = "starting"

(* Stronger than SilenceIsOffered: M may mute what the viewer unmuted.      *)
Hushed(x) == x.e.blocked /\ x.e.attempt # "second" => x.p.muted

Sturdy(x) == x \in Configs /\ Drawn(x) /\ Absent(x) /\ Told(x) /\ Tried(x)
Good(x) == Sturdy(x) /\ Hushed(x)

------------------------------------------------------------------------------
(* The types of the parts.                                                  *)

(* Every rate of the room's, and each nudge of it, is one an engine takes.  *)
LEMMA Nudges ==
  ASSUME NEW r \in NominalRates
  PROVE  r \in EngineRates /\ r - r \div 20 \in EngineRates /\ r + r \div 20 \in EngineRates
<1>1. r \in Int
  BY PlayerAssumption
<1>2. \A d \in {-1, 0, 1} : r + d * (r \div 20) \in EngineRates
  BY DEF EngineRates
<1>3. r \div 20 \in Int
  BY <1>1
<1>4. /\ r + 0 * (r \div 20) = r
      /\ r + (-1) * (r \div 20) = r - r \div 20
      /\ r + 1 * (r \div 20) = r + r \div 20
  BY <1>1, <1>3
<1> QED
  BY <1>2, <1>4

LEMMA SpeedOne == Normal \in EngineRates
  BY Nudges, PlayerAssumption

LEMMA Flags ==
  ASSUME NEW e \in EngineStates, NEW b \in BOOLEAN
  PROVE  /\ [e EXCEPT !.player = b] \in EngineStates
         /\ [e EXCEPT !.announced = b] \in EngineStates
         /\ [e EXCEPT !.buffering = b] \in EngineStates
         /\ [e EXCEPT !.live = b] \in EngineStates
         /\ [e EXCEPT !.blocked = b] \in EngineStates
         /\ [e EXCEPT !.verifying = b] \in EngineStates
         /\ [e EXCEPT !.playing = b] \in EngineStates
         /\ [e EXCEPT !.at = b] \in EngineStates
         /\ [e EXCEPT !.muted = b] \in EngineStates
         /\ [e EXCEPT !.timer = b] \in EngineStates
         /\ [e EXCEPT !.relayed = b] \in EngineStates
  BY DEF EngineStates

LEMMA Fields ==
  ASSUME NEW e \in EngineStates
  PROVE  /\ \A r \in EngineRates : [e EXCEPT !.rate = r] \in EngineStates
         /\ \A a \in {"none", "first", "second"} : [e EXCEPT !.attempt = a] \in EngineStates
         /\ \A h \in {"gone", "script", "built", "failed"} :
              [e EXCEPT !.phase = h] \in EngineStates
  BY DEF EngineStates

LEMMA Widgets ==
  ASSUME NEW w \in WidgetStates, NEW g
  PROVE  /\ Played(w, g) \in WidgetStates
         /\ Stopped(w) \in WidgetStates
         /\ Sought(w) \in WidgetStates
         /\ \A m \in BOOLEAN : [w EXCEPT !.muted = m] \in WidgetStates
         /\ \A r \in EngineRates : [w EXCEPT !.rate = r] \in WidgetStates
         /\ \A s \in {"none", "cued", "starting", "playing", "buffering", "paused"} :
              [w EXCEPT !.state = s] \in WidgetStates
         /\ \A o \in {"on", "ahead", "behind", "far"} : [w EXCEPT !.off = o] \in WidgetStates
  BY DEF WidgetStates, Played, Stopped, Sought

LEMMA NewWidgets ==
  /\ NoWidget \in WidgetStates
  /\ \A g \in 0 .. MaxEngines : NewWidget(g) \in WidgetStates
<1>1. NoWidget \in WidgetStates
  BY SpeedOne, PlayerAssumption DEF NoWidget, WidgetStates
<1>2. ASSUME NEW g \in 0 .. MaxEngines PROVE NewWidget(g) \in WidgetStates
  BY <1>1, <1>2 DEF NewWidget, WidgetStates
<1> QED
  BY <1>1, <1>2

LEMMA Panels ==
  ASSUME NEW p \in PanelStates
  PROVE  /\ \A b \in BOOLEAN : /\ [p EXCEPT !.buffering = b] \in PanelStates
                               /\ [p EXCEPT !.muted = b] \in PanelStates
                               /\ [p EXCEPT !.audioBlocked = b] \in PanelStates
         /\ \A g \in 0 .. MaxEngines : [p EXCEPT !.error = g] \in PanelStates
         /\ \A n \in 0 .. 2 : [p EXCEPT !.readies = n] \in PanelStates
  BY DEF PanelStates

LEMMA Announced ==
  ASSUME NEW p \in PanelStates, NEW n \in 0 .. 2
  PROVE  [p EXCEPT !.buffering = FALSE, !.readies = n] \in PanelStates
  BY DEF PanelStates

------------------------------------------------------------------------------
(* The events an engine reports to the component.                           *)

(* What changes the panel alone, and takes back neither ready nor muted.    *)
LEMMA PanelOnly ==
  ASSUME NEW x, Sturdy(x), NEW y \in Configs,
         y.e = x.e, y.w = x.w, y.p.readies = x.p.readies
  PROVE  Sturdy(y) /\ (y.p.muted \/ (Hushed(x) /\ y.p.muted = x.p.muted) => Good(y))
  BY DEF Good, Sturdy, Drawn, Absent, Told, Tried, Hushed

LEMMA BufferingSturdy ==
  ASSUME NEW x, Sturdy(x), NEW b \in BOOLEAN
  PROVE  /\ Sturdy(OnBufferingChange(x, b)) /\ OnBufferingChange(x, b).e = x.e
         /\ Hushed(x) => Hushed(OnBufferingChange(x, b))
<1>1. OnBufferingChange(x, b) \in Configs
  BY Panels DEF OnBufferingChange, Sturdy, Configs
<1> QED
  BY <1>1 DEF OnBufferingChange, Good, Sturdy, Drawn, Absent, Told, Latched, Tried, Hushed,
       EmbeddedKinds, Configs, EngineStates, WidgetStates, PanelStates

LEMMA BufferingGood ==
  ASSUME NEW x, Good(x), NEW b \in BOOLEAN
  PROVE  Good(OnBufferingChange(x, b)) /\ OnBufferingChange(x, b).e = x.e
  BY BufferingSturdy DEF Good

LEMMA ErrorGood ==
  ASSUME NEW x, Good(x), NEW g \in 0 .. MaxEngines
  PROVE  Good(OnError(x, g))
<1> DEFINE y == OnError(x, g)
<1>1. y \in Configs
  BY Panels DEF OnError, Good, Sturdy, Configs
<1>2. y.e = x.e /\ y.w = x.w /\ y.p.readies = x.p.readies /\ y.p.muted = x.p.muted
  BY DEF OnError, Good, Sturdy, Configs, PanelStates
<1> HIDE DEF y
<1>3. Good(y)
  BY <1>1, <1>2, PanelOnly DEF Good
<1> QED
  BY <1>3 DEF y

LEMMA ReadySturdy ==
  ASSUME NEW x, Sturdy(x), x.p.readies = 0, x.e.gen # 0 => Latched(x.e)
  PROVE  Sturdy(OnReady(x)) /\ OnReady(x).e = x.e /\ (Hushed(x) => Hushed(OnReady(x)))
<1>0. PICK n \in 0 .. 2 : n = 1
  OBVIOUS
<1> DEFINE q == [x.p EXCEPT !.buffering = FALSE, !.readies = n]
<1>1. q \in PanelStates
  BY Announced DEF Good, Sturdy, Configs
<1>2. OnReady(x) = [x EXCEPT !.p = q]
  <2>1. OnReady(x) = [x EXCEPT !.p.buffering = FALSE, !.p.readies = n]
    BY <1>0 DEF OnReady, Good, Sturdy, Configs, PanelStates
  <2> QED
    BY <2>1 DEF Good, Sturdy, Configs
<1>3. q.readies = 1 /\ q.muted = x.p.muted
  BY <1>0 DEF Good, Sturdy, Configs, PanelStates
<1> HIDE DEF q
<1> QED
  BY <1>1, <1>2, <1>3 DEF Good, Sturdy, Drawn, Absent, Told, Latched, Tried, Hushed,
       EmbeddedKinds, Configs, EngineStates, WidgetStates

LEMMA ReadyGood ==
  ASSUME NEW x, Good(x), x.p.readies = 0, x.e.gen # 0 => Latched(x.e)
  PROVE  Good(OnReady(x)) /\ OnReady(x).e = x.e
  BY ReadySturdy DEF Good

(* What onAudioBlocked is for: it makes any configuration a quiet one.      *)
LEMMA BlockedGood ==
  ASSUME NEW x, Sturdy(x)
  PROVE  Good(OnAudioBlocked(x))
<1> DEFINE y == OnAudioBlocked(x)
<1>1. y \in Configs
  BY Panels DEF OnAudioBlocked, Sturdy, Configs
<1>2. y.e = x.e /\ y.w = x.w /\ y.p.readies = x.p.readies /\ y.p.muted
  BY DEF OnAudioBlocked, Sturdy, Configs, PanelStates
<1> HIDE DEF y
<1>3. Good(y)
  BY <1>1, <1>2, PanelOnly
<1> QED
  BY <1>3 DEF y

LEMMA SetBufferingSturdy ==
  ASSUME NEW x, Sturdy(x), NEW b \in BOOLEAN
  PROVE  /\ Sturdy(SetBuffering(x, b)) /\ (Hushed(x) => Hushed(SetBuffering(x, b)))
         /\ SetBuffering(x, b).e = [x.e EXCEPT !.buffering = b]
         /\ SetBuffering(x, b).p.readies = x.p.readies
<1> DEFINE y == [x EXCEPT !.e.buffering = b]
<1>1. y \in Configs
  BY Flags DEF Sturdy, Configs
<1>2. Sturdy(y) /\ (Hushed(x) => Hushed(y))
  BY <1>1 DEF Good, Sturdy, Drawn, Absent, Told, Latched, Tried, Hushed, EmbeddedKinds,
       Configs, EngineStates, WidgetStates
<1>3. y.e = [x.e EXCEPT !.buffering = b] /\ y.p.readies = x.p.readies
  BY DEF Sturdy, Configs, EngineStates
<1>4. SetBuffering(x, b) = IF x.e.buffering = b THEN x ELSE OnBufferingChange(y, b)
  BY DEF SetBuffering
<1>5. x.e.buffering = b => x.e = [x.e EXCEPT !.buffering = b]
  BY DEF Sturdy, Configs, EngineStates
<1> HIDE DEF y
<1>6. /\ Sturdy(OnBufferingChange(y, b)) /\ (Hushed(y) => Hushed(OnBufferingChange(y, b)))
      /\ OnBufferingChange(y, b).e = y.e
      /\ OnBufferingChange(y, b).p.readies = y.p.readies
  BY <1>2, BufferingSturdy DEF OnBufferingChange, Sturdy, Configs, PanelStates
<1> QED
  BY <1>2, <1>3, <1>4, <1>5, <1>6

LEMMA SetBufferingGood ==
  ASSUME NEW x, Good(x), NEW b \in BOOLEAN
  PROVE  /\ Good(SetBuffering(x, b))
         /\ SetBuffering(x, b).e = [x.e EXCEPT !.buffering = b]
         /\ SetBuffering(x, b).p.readies = x.p.readies
  BY SetBufferingSturdy DEF Good

LEMMA Carried ==
  ASSUME NEW y, Good(y), Becomes(y) PROVE Good(X)'
<1>1. X' = [e |-> y.e, w |-> y.w, p |-> y.p]
  BY DEF X, Becomes
<1> DEFINE z == [e |-> y.e, w |-> y.w, p |-> y.p]
<1>2. Good(z)
  BY DEF Good, Sturdy, Drawn, Absent, Told, Latched, Tried, Hushed, EmbeddedKinds, Configs,
       EngineStates, WidgetStates
<1> QED
  BY <1>1, <1>2

(* The two ways construction ends: something is drawn, or an error shown.   *)
LEMMA DrawnGood ==
  ASSUME NEW x, Good(x), x.e.gen # 0, x.e.kind # "file", x.e.attempt = "none",
         NEW v \in WidgetStates, v.of = x.e.gen
  PROVE  Good([x EXCEPT !.e.phase = "built", !.w = v])
<1> DEFINE y == [x EXCEPT !.e.phase = "built", !.w = v]
<1>1. y \in Configs
  BY Fields DEF Good, Sturdy, Configs
<1> QED
  BY <1>1 DEF Good, Sturdy, Drawn, Absent, Told, Latched, Tried, Hushed, EmbeddedKinds,
       Configs, EngineStates, WidgetStates

LEMMA CreatedGood ==
  ASSUME NEW x, Good(x), x.e.phase = "script", x.e.kind # "file"
  PROVE  Good([x EXCEPT !.e.phase = "built", !.w = NewWidget(x.e.gen)])
<1>1. x.e.gen # 0 /\ x.e.attempt = "none" /\ x.e.gen \in 0 .. MaxEngines
  BY DEF Good, Sturdy, Drawn, Absent, Told, Latched, Tried, Hushed, EmbeddedKinds, Configs,
       EngineStates, WidgetStates
<1>2. NewWidget(x.e.gen) \in WidgetStates /\ NewWidget(x.e.gen).of = x.e.gen
  BY <1>1, NewWidgets DEF NewWidget, NoWidget
<1> QED
  BY <1>1, <1>2, DrawnGood

LEMMA FailedGood ==
  ASSUME NEW x, Good(x), x.e.phase = "script", x.e.gen # 0
  PROVE  Good(OnError([x EXCEPT !.e.phase = "failed"], x.e.gen))
<1> DEFINE y == [x EXCEPT !.e.phase = "failed"]
<1>1. y \in Configs
  BY Fields DEF Good, Sturdy, Configs
<1>2. Good(y) /\ x.e.gen \in 0 .. MaxEngines
  BY <1>1 DEF Good, Sturdy, Drawn, Absent, Told, Latched, Tried, Hushed, EmbeddedKinds,
       Configs, EngineStates, WidgetStates
<1> HIDE DEF y
<1>3. Good(OnError(y, x.e.gen))
  BY <1>2, ErrorGood
<1> QED
  BY <1>3 DEF y

(* #start, the same in the two adapters that can tell whether it worked.     *)
LEMMA StartGood ==
  ASSUME NEW x, Good(x), x.e.kind \in {"youtube", "twitch"}
  PROVE  /\ Good(YouTubeStart(x)) /\ YouTubeStart(x).p = x.p
         /\ YouTubeStart(x).e = x.e \/ \E b \in BOOLEAN :
              YouTubeStart(x).e = [x.e EXCEPT !.verifying = b]
<1> DEFINE b == x.e.verifying \/ ~x.e.blocked
           f == [x.e EXCEPT !.verifying = b]
           v == Played(x.w, activated)
           y == [x EXCEPT !.w = v, !.e = f]
<1>1. b \in BOOLEAN
  OBVIOUS
<1>2. f \in EngineStates
  BY <1>1, Flags DEF Good, Sturdy, Configs
<1>3. /\ v \in WidgetStates /\ v.of = x.w.of
      /\ v.state = x.w.state \/ (v.state = "starting" /\ x.w.state \in {"cued", "paused"})
  BY Widgets DEF Good, Sturdy, Configs, Played, WidgetStates
<1>4. YouTubeStart(x) = IF ~x.e.player \/ Running(x.w) THEN x ELSE y
  BY DEF YouTubeStart, Good, Sturdy, Configs
<1>5. ASSUME x.e.player PROVE Good(y) /\ y.e = f /\ y.p = x.p
  <2> HIDE DEF b, v
  <2>1. /\ f.gen = x.e.gen /\ f.phase = x.e.phase /\ f.kind = x.e.kind
        /\ f.player = x.e.player /\ f.announced = x.e.announced
        /\ f.blocked = x.e.blocked /\ f.attempt = x.e.attempt
    BY DEF Good, Sturdy, Configs, EngineStates
  <2> HIDE DEF f
  <2> QED
    BY <1>2, <1>3, <1>5, <2>1 DEF Good, Sturdy, Drawn, Absent, Told, Latched, Tried, Hushed,
         EmbeddedKinds, Configs
<1> HIDE DEF b, f, v, y
<1>6. f = [x.e EXCEPT !.verifying = b]
  BY DEF f
<1> QED
  BY <1>1, <1>4, <1>5, <1>6

(* The check of a start, which YouTube's adapter and Twitch's share.        *)
LEMMA VerifyGood ==
  ASSUME NEW x, Good(x), x.e.kind \in {"youtube", "twitch"}, x.e.verifying
  PROVE  LET y == [x EXCEPT !.e.verifying = FALSE]
             z == [y EXCEPT !.e.blocked = TRUE,
                            !.w = Played([@ EXCEPT !.muted = TRUE], activated)]
         IN  Good(y) /\ Good(OnAudioBlocked(z))
<1> DEFINE y == [x EXCEPT !.e.verifying = FALSE]
           v == Played([y.w EXCEPT !.muted = TRUE], activated)
           z == [y EXCEPT !.e.blocked = TRUE, !.w = v]
<1>1. y \in Configs
  BY Flags DEF Good, Sturdy, Configs
<1>2. /\ Good(y) /\ y.e.kind = x.e.kind
      /\ y.e.kind = "youtube" => y.e.player
      /\ y.e.gen # 0
  BY <1>1 DEF Good, Sturdy, Drawn, Absent, Told, Latched, Tried, Hushed, EmbeddedKinds,
       Configs, EngineStates, WidgetStates
<1>3. Sturdy(z)
  <2> HIDE DEF y
  <2>1. [y.w EXCEPT !.muted = TRUE] \in WidgetStates
    BY <1>2, Widgets DEF Good, Sturdy, Configs
  <2> DEFINE u == [y.w EXCEPT !.muted = TRUE]
  <2>2. v \in WidgetStates
    BY <2>1, Widgets
  <2>4. u.of = y.w.of /\ u.state = y.w.state
    BY <1>2 DEF Good, Sturdy, Configs, WidgetStates
  <2>5. u \in WidgetStates /\ v = Played(u, activated)
    BY <2>1
  <2> HIDE DEF u, v
  <2>6. /\ v.of = u.of
        /\ v.state = u.state \/ (v.state = "starting" /\ u.state \in {"cued", "paused"})
    BY <2>5 DEF Played, WidgetStates
  <2>7. /\ v.of = y.w.of
        /\ v.state = y.w.state \/ (v.state = "starting" /\ y.w.state \in {"cued", "paused"})
    BY <2>4, <2>6
  <2> HIDE DEF v
  <2>3. z \in Configs
    BY <1>2, <2>2, Flags DEF Good, Sturdy, Configs
  <2> QED
    BY <1>2, <2>2, <2>3, <2>7 DEF Good, Sturdy, Drawn, Absent, Told, Latched, Tried, Hushed,
         EmbeddedKinds, Configs, EngineStates, WidgetStates
<1>4. z = [y EXCEPT !.e.blocked = TRUE,
                    !.w = Played([@ EXCEPT !.muted = TRUE], activated)]
  BY <1>2 DEF Good, Sturdy, Configs
<1> HIDE DEF z
<1>5. Good(OnAudioBlocked(z))
  BY <1>3, BlockedGood
<1> QED
  BY <1>2, <1>4, <1>5

------------------------------------------------------------------------------
(* The YouTube adapter.                                                     *)

LEMMA YouTubeNewGood ==
  ASSUME NEW x, Good(x), x.e.phase = "script", x.e.gen # 0
  PROVE  Good(YouTubeNew(x))
  BY FailedGood DEF YouTubeNew

LEMMA YouTubePlayGood ==
  ASSUME NEW x, Good(x), x.e.kind = "youtube"
  PROVE  Good(YouTubePlay(x))
<1> DEFINE y == [x EXCEPT !.e.playing = TRUE]
<1>1. y \in Configs
  BY Flags DEF Good, Sturdy, Configs
<1>2. Good(y) /\ y.e.kind = "youtube"
  BY <1>1 DEF Good, Sturdy, Drawn, Absent, Told, Latched, Tried, Hushed, EmbeddedKinds,
       Configs, EngineStates, WidgetStates
<1> HIDE DEF y
<1>3. Good(YouTubeStart(y))
  BY <1>2, StartGood
<1> QED
  BY <1>3 DEF YouTubePlay, y

LEMMA YouTubePauseGood ==
  ASSUME NEW x, Good(x), x.e.kind = "youtube"
  PROVE  Good(YouTubePause(x))
<1>1. YouTubePause(x) \in Configs
  BY Flags, Widgets DEF YouTubePause, Good, Sturdy, Configs
<1> QED
  BY <1>1 DEF YouTubePause, Stopped, Good, Sturdy, Drawn, Absent, Told, Latched, Tried,
       Hushed, EmbeddedKinds, Configs, EngineStates, WidgetStates

LEMMA YouTubeSeekGood ==
  ASSUME NEW x, Good(x), x.e.kind = "youtube"
  PROVE  Good(YouTubeSeek(x)) /\ YouTubeSeek(x).e.kind = "youtube"
<1>1. YouTubeSeek(x) \in Configs
  BY Flags, Widgets DEF YouTubeSeek, Good, Sturdy, Configs
<1> QED
  BY <1>1 DEF YouTubeSeek, Sought, Good, Sturdy, Drawn, Absent, Told, Latched, Tried,
       Hushed, EmbeddedKinds, Configs, EngineStates, WidgetStates

LEMMA YouTubeSetRateGood ==
  ASSUME NEW x, Good(x), x.e.kind = "youtube", NEW r \in EngineRates
  PROVE  Good(YouTubeSetRate(x, r))
<1> DEFINE q == IF x.e.player THEN r ELSE x.w.rate
           f == [x.e EXCEPT !.rate = r]
           v == [x.w EXCEPT !.rate = q]
<1>1. q \in EngineRates
  BY DEF Good, Sturdy, Configs, WidgetStates
<1>2. YouTubeSetRate(x, r) = [x EXCEPT !.e = f, !.w = v]
  BY DEF YouTubeSetRate, Good, Sturdy, Configs
<1> HIDE DEF q
<1>3. f \in EngineStates /\ v \in WidgetStates
  BY <1>1, Fields, Widgets DEF Good, Sturdy, Configs
<1>4. YouTubeSetRate(x, r) \in Configs
  <2> HIDE DEF f, v
  <2> QED
    BY <1>2, <1>3 DEF Good, Sturdy, Configs
<1> QED
  BY <1>4 DEF YouTubeSetRate, Good, Sturdy, Drawn, Absent, Told, Latched, Tried, Hushed,
       EmbeddedKinds, Configs, EngineStates, WidgetStates

(* The mute button and M: one sets what the panel shows, the other mutes.   *)
LEMMA YouTubeSetMutedGood ==
  ASSUME NEW x, Sturdy(x), x.e.kind = "youtube", NEW m \in BOOLEAN,
         Hushed(x) \/ x.p.muted = m
  PROVE  Good(YouTubeSetMuted(x, m)) /\ YouTubeSetMuted(x, m).e.kind = x.e.kind
<1>1. YouTubeSetMuted(x, m) \in Configs
  BY Flags, Widgets DEF YouTubeSetMuted, Sturdy, Configs
<1> QED
  BY <1>1 DEF YouTubeSetMuted, Good, Sturdy, Drawn, Absent, Told, Latched, Tried, Hushed,
       EmbeddedKinds, Configs, EngineStates, WidgetStates

LEMMA YouTubeApplyPendingGood ==
  ASSUME NEW x, Good(x), x.e.kind = "youtube", x.e.player
  PROVE  /\ Good(YouTubeApplyPending(x)) /\ YouTubeApplyPending(x).p = x.p
         /\ YouTubeApplyPending(x).e.player /\ YouTubeApplyPending(x).e.kind = "youtube"
<1> DEFINE o == IF x.e.at THEN "on" ELSE x.w.off
           v == [[x.w EXCEPT !.rate = x.e.rate] EXCEPT !.off = o]
           y == [x EXCEPT !.w = v]
           z == [y EXCEPT !.w = Stopped(@)]
<1>1. o \in {"on", "ahead", "behind", "far"} /\ x.e.rate \in EngineRates /\ x.w \in WidgetStates
  BY DEF Good, Sturdy, Configs, EngineStates, WidgetStates
<1>2. v \in WidgetStates /\ v.of = x.w.of /\ v.state = x.w.state
  <2> HIDE DEF o
  <2> QED
    BY <1>1 DEF WidgetStates
<1>3. YouTubeApplyPending(x) = IF y.e.playing THEN YouTubeStart(y) ELSE z
  BY DEF YouTubeApplyPending, Good, Sturdy, Configs, WidgetStates
<1> HIDE DEF o, v
<1>4. Good(y) /\ y.p = x.p /\ y.e = x.e
  BY <1>2 DEF Good, Sturdy, Drawn, Absent, Told, Latched, Tried, Hushed, EmbeddedKinds,
       Configs, EngineStates, WidgetStates
<1>5. Good(z) /\ z.p = x.p /\ z.e = x.e
  <2>1. z \in Configs
    BY <1>4, Widgets DEF Good, Sturdy, Configs
  <2> HIDE DEF y
  <2> QED
    BY <1>4, <2>1 DEF Stopped, Good, Sturdy, Drawn, Absent, Told, Latched, Tried, Hushed,
         EmbeddedKinds, Configs, EngineStates, WidgetStates
<1> HIDE DEF y, z
<1>6. /\ Good(YouTubeStart(y)) /\ YouTubeStart(y).p = x.p
      /\ YouTubeStart(y).e.player /\ YouTubeStart(y).e.kind = "youtube"
  <2>1. /\ Good(YouTubeStart(y)) /\ YouTubeStart(y).p = x.p
        /\ YouTubeStart(y).e = x.e \/ \E b \in BOOLEAN :
             YouTubeStart(y).e = [x.e EXCEPT !.verifying = b]
    BY <1>4, StartGood
  <2> QED
    BY <2>1 DEF Good, Sturdy, Configs, EngineStates
<1> QED
  BY <1>3, <1>5, <1>6

LEMMA YouTubeCreateStep ==
  ASSUME Good(X), YouTubeCreate PROVE Good(X)'
<1>1. X.e = eng /\ eng.phase = "script" /\ eng.kind # "file"
  BY DEF YouTubeCreate, X
<1> QED
  BY <1>1, CreatedGood, Carried DEF YouTubeCreate

LEMMA YouTubeFailStep ==
  ASSUME Good(X), YouTubeUnavailable \/ YouTubeFails PROVE Good(X)'
<1>1. X.e = eng /\ eng.gen \in 0 .. MaxEngines
  BY DEF Good, Sturdy, Configs, EngineStates, X
<1>2. CASE YouTubeFails
  BY <1>1, <1>2, ErrorGood, Carried DEF YouTubeFails
<1>3. CASE YouTubeUnavailable
  <2>1. eng.phase = "script" /\ eng.gen # 0
    BY <1>1, <1>3 DEF YouTubeUnavailable, Good, Sturdy, Absent
  <2> QED
    BY <1>1, <1>3, <2>1, FailedGood, Carried DEF YouTubeUnavailable
<1> QED
  BY <1>2, <1>3

LEMMA YouTubeReadyStep ==
  ASSUME Good(X), YouTubeReady PROVE Good(X)'
<1>1. PICK flagged \in BOOLEAN :
        LET live == flagged /\ eng.source \in LiveSources
        IN  Becomes(OnReady(YouTubeApplyPending([X EXCEPT !.e.player = TRUE,
                                                          !.e.live = live])))
  BY DEF YouTubeReady
<1> DEFINE live == flagged /\ eng.source \in LiveSources
           x == [X EXCEPT !.e.player = TRUE, !.e.live = live]
           z == YouTubeApplyPending(x)
           y == OnReady(z)
<1>2. live \in BOOLEAN
  OBVIOUS
<1>3. X.e.kind = "youtube" /\ ~X.e.player
  BY DEF YouTubeReady, X
<1> HIDE DEF live
<1>4. x \in Configs
  BY <1>2, Flags DEF Good, Sturdy, Configs
<1>5. Good(x) /\ x.e.kind = "youtube" /\ x.e.player /\ x.p.readies = 0
  <2>1. /\ x.e.kind = "youtube" /\ x.e.player /\ x.e.gen = X.e.gen /\ x.e.phase = X.e.phase
        /\ x.e.blocked = X.e.blocked /\ x.e.attempt = X.e.attempt
        /\ x.w = X.w /\ x.p = X.p
    BY <1>3 DEF Good, Sturdy, Configs, EngineStates
  <2>2. X.p.readies = 0 /\ x.e.gen # 0
    BY <1>3 DEF Good, Sturdy, Absent, Told, Latched, Configs, EngineStates, PanelStates
  <2> HIDE DEF x
  <2>3. Drawn(x) /\ Absent(x) /\ Hushed(x)
    BY <2>1, <2>2 DEF Good, Sturdy, Drawn, Absent, Hushed
  <2>4. Told(x) /\ Tried(x)
    BY <1>3, <2>1, <2>2 DEF Good, Sturdy, Told, Tried
  <2> QED
    BY <1>4, <2>1, <2>2, <2>3, <2>4 DEF Good, Sturdy
<1> HIDE DEF x
<1>6. Good(z) /\ z.p.readies = 0 /\ Latched(z.e)
  BY <1>5, YouTubeApplyPendingGood DEF Latched
<1> HIDE DEF z
<1>7. Good(y)
  BY <1>6, ReadyGood
<1> HIDE DEF y
<1>8. Becomes(y)
  BY <1>1 DEF live, x, z, y
<1> QED
  BY <1>7, <1>8, Carried

LEMMA YouTubeStallsStep ==
  ASSUME Good(X), YouTubeStalls PROVE Good(X)'
<1> DEFINE y == [X EXCEPT !.w.state = "buffering"]
<1>1. y \in Configs
  BY Widgets DEF Good, Sturdy, Configs, X
<1>2. Good(y)
  BY <1>1 DEF YouTubeStalls, X, Good, Sturdy, Drawn, Absent, Told, Latched, Tried, Hushed,
       EmbeddedKinds, Configs, EngineStates, WidgetStates
<1> HIDE DEF y
<1> QED
  BY <1>2, SetBufferingGood, Carried DEF YouTubeStalls, y

LEMMA YouTubePlaysStep ==
  ASSUME Good(X), YouTubePlays PROVE Good(X)'
<1>1. PICK flagged \in BOOLEAN :
        LET live == eng.live \/ (flagged /\ eng.source \in LiveSources)
        IN  Becomes(SetBuffering([X EXCEPT !.w.state = "playing", !.e.live = live], FALSE))
  BY DEF YouTubePlays
<1> DEFINE live == eng.live \/ (flagged /\ eng.source \in LiveSources)
           x == [X EXCEPT !.w.state = "playing", !.e.live = live]
           y == SetBuffering(x, FALSE)
<1>2. live \in BOOLEAN
  OBVIOUS
<1> HIDE DEF live
<1>3. x \in Configs
  BY <1>2, Flags, Widgets DEF Good, Sturdy, Configs
<1>4. Good(x)
  BY <1>3 DEF YouTubePlays, X, Good, Sturdy, Drawn, Absent, Told, Latched, Tried, Hushed,
       EmbeddedKinds, Configs, EngineStates, WidgetStates
<1> HIDE DEF x
<1>5. Good(y)
  BY <1>4, SetBufferingGood
<1> HIDE DEF y
<1>6. Becomes(y)
  BY <1>1 DEF live, x, y
<1> QED
  BY <1>5, <1>6, Carried

LEMMA YouTubeVerifyStep ==
  ASSUME Good(X), YouTubeVerify PROVE Good(X)'
<1> DEFINE y == [X EXCEPT !.e.verifying = FALSE]
           z == [y EXCEPT !.e.blocked = TRUE,
                          !.w = Played([@ EXCEPT !.muted = TRUE], activated)]
<1>1. X.e.kind = "youtube" /\ X.e.verifying
  BY DEF YouTubeVerify, X
<1>2. Good(y) /\ Good(OnAudioBlocked(z))
  BY <1>1, VerifyGood
<1>3. Becomes(IF ~eng.playing \/ Running(widget) THEN y ELSE OnAudioBlocked(z))
  BY DEF YouTubeVerify
<1> HIDE DEF y, z
<1> QED
  BY <1>2, <1>3, Carried

------------------------------------------------------------------------------
(* The Twitch adapter.                                                      *)

LEMMA TwitchNewGood ==
  ASSUME NEW x, Good(x), x.e.phase = "script", x.e.gen # 0
  PROVE  Good(TwitchNew(x))
<1> DEFINE y == [x EXCEPT !.e.buffering = TRUE]
<1>1. y \in Configs
  BY Flags DEF Good, Sturdy, Configs
<1>2. Good(y) /\ y.e.phase = "script" /\ y.e.gen = x.e.gen
  BY <1>1 DEF Good, Sturdy, Drawn, Absent, Told, Latched, Tried, Hushed, EmbeddedKinds,
       Configs, EngineStates, WidgetStates
<1> HIDE DEF y
<1>3. Good(OnError([y EXCEPT !.e.phase = "failed"], x.e.gen))
  BY <1>2, FailedGood
<1> QED
  BY <1>2, <1>3 DEF TwitchNew, y

LEMMA TwitchCreateStep ==
  ASSUME Good(X), TwitchCreate PROVE Good(X)'
<1>1. X.e = eng /\ eng.phase = "script" /\ eng.kind # "file"
  BY DEF TwitchCreate, X
<1> QED
  BY <1>1, CreatedGood, Carried DEF TwitchCreate

LEMMA TwitchFailStep ==
  ASSUME Good(X), TwitchUnavailable \/ TwitchOffline PROVE Good(X)'
<1>1. X.e = eng /\ eng.gen \in 0 .. MaxEngines
  BY DEF Good, Sturdy, Configs, EngineStates, X
<1>2. CASE TwitchOffline
  BY <1>1, <1>2, ErrorGood, Carried DEF TwitchOffline
<1>3. CASE TwitchUnavailable
  <2>1. eng.phase = "script" /\ eng.gen # 0
    BY <1>1, <1>3 DEF TwitchUnavailable, Good, Sturdy, Absent
  <2> QED
    BY <1>1, <1>3, <2>1, FailedGood, Carried DEF TwitchUnavailable
<1> QED
  BY <1>2, <1>3

LEMMA TwitchMarkReadyGood ==
  ASSUME NEW x, Good(x), x.e.kind = "twitch"
  PROVE  Good(TwitchMarkReady(x))
<1> DEFINE y == [x EXCEPT !.e.announced = TRUE]
           z == SetBuffering(y, FALSE)
<1>1. CASE x.e.announced
  BY <1>1 DEF TwitchMarkReady
<1>2. CASE ~x.e.announced
  <2>1. y \in Configs
    BY Flags DEF Good, Sturdy, Configs
  <2>2. /\ Good(y) /\ y.p.readies = 0
        /\ y.e \in EngineStates /\ y.e.announced /\ y.e.kind = "twitch"
    BY <1>2, <2>1 DEF PanelStates, Good, Sturdy, Drawn, Absent, Told, Latched, Tried,
         Hushed, EmbeddedKinds, Configs, EngineStates, WidgetStates
  <2> HIDE DEF y
  <2>3. Good(z) /\ z.p.readies = 0 /\ z.e = [y.e EXCEPT !.buffering = FALSE]
    BY <2>2, SetBufferingGood
  <2> HIDE DEF z
  <2>4. Latched(z.e)
    BY <2>2, <2>3 DEF Latched, EngineStates
  <2>5. Good(OnReady(z))
    BY <2>3, <2>4, ReadyGood
  <2> QED
    BY <1>2, <2>5 DEF TwitchMarkReady, y, z
<1> QED
  BY <1>1, <1>2

LEMMA TwitchStartGood ==
  ASSUME NEW x, Good(x), x.e.kind = "twitch"
  PROVE  /\ Good(TwitchStart(x)) /\ TwitchStart(x).e.kind = "twitch"
<1>1. TwitchStart(x) = YouTubeStart(x)
  BY DEF TwitchStart, YouTubeStart
<1>2. /\ Good(YouTubeStart(x))
      /\ YouTubeStart(x).e = x.e \/ \E b \in BOOLEAN :
           YouTubeStart(x).e = [x.e EXCEPT !.verifying = b]
  BY StartGood
<1> QED
  BY <1>1, <1>2 DEF Good, Sturdy, Configs, EngineStates

LEMMA TwitchPlayGood ==
  ASSUME NEW x, Good(x), x.e.kind = "twitch"
  PROVE  Good(TwitchPlay(x))
<1> DEFINE y == [x EXCEPT !.e.playing = TRUE]
<1>1. y \in Configs
  BY Flags DEF Good, Sturdy, Configs
<1>2. Good(y) /\ y.e.kind = "twitch"
  BY <1>1 DEF Good, Sturdy, Drawn, Absent, Told, Latched, Tried, Hushed, EmbeddedKinds,
       Configs, EngineStates, WidgetStates
<1> HIDE DEF y
<1>3. Good(TwitchStart(y))
  BY <1>2, TwitchStartGood
<1> QED
  BY <1>3 DEF TwitchPlay, y

LEMMA TwitchPauseGood ==
  ASSUME NEW x, Good(x), x.e.kind = "twitch"
  PROVE  Good(TwitchPause(x))
<1>1. TwitchPause(x) \in Configs
  BY Flags, Widgets DEF TwitchPause, Good, Sturdy, Configs
<1> QED
  BY <1>1 DEF TwitchPause, Stopped, Good, Sturdy, Drawn, Absent, Told, Latched, Tried,
       Hushed, EmbeddedKinds, Configs, EngineStates, WidgetStates

LEMMA TwitchSeekGood ==
  ASSUME NEW x, Good(x), x.e.kind = "twitch"
  PROVE  Good(TwitchSeek(x)) /\ TwitchSeek(x).e.kind = "twitch"
<1>1. TwitchSeek(x) \in Configs
  BY Flags, Widgets DEF TwitchSeek, Good, Sturdy, Configs
<1> QED
  BY <1>1 DEF TwitchSeek, Sought, Good, Sturdy, Drawn, Absent, Told, Latched, Tried, Hushed,
       EmbeddedKinds, Configs, EngineStates, WidgetStates

LEMMA TwitchSetMutedGood ==
  ASSUME NEW x, Sturdy(x), x.e.kind = "twitch", NEW m \in BOOLEAN,
         Hushed(x) \/ x.p.muted = m
  PROVE  Good(TwitchSetMuted(x, m)) /\ TwitchSetMuted(x, m).e.kind = x.e.kind
<1> DEFINE n == x.e.blocked /\ m
           k == IF x.e.player THEN m ELSE x.w.muted
           f == [[x.e EXCEPT !.muted = m] EXCEPT !.blocked = n]
           v == [x.w EXCEPT !.muted = k]
           y == [x EXCEPT !.e = f, !.w = v]
<1>1. n \in BOOLEAN /\ k \in BOOLEAN /\ (n => x.e.blocked) /\ (n => m)
  BY DEF Sturdy, Configs, WidgetStates
<1>2. TwitchSetMuted(x, m) = y
  BY DEF TwitchSetMuted, Sturdy, Configs, EngineStates
<1> HIDE DEF n, k
<1>3. /\ f \in EngineStates
      /\ f.gen = x.e.gen /\ f.phase = x.e.phase /\ f.kind = x.e.kind
      /\ f.player = x.e.player /\ f.announced = x.e.announced
      /\ f.verifying = x.e.verifying /\ f.attempt = x.e.attempt /\ f.blocked = n
  BY <1>1 DEF Sturdy, Configs, EngineStates
<1>4. v \in WidgetStates /\ v.of = x.w.of /\ v.state = x.w.state
  BY <1>1 DEF Sturdy, Configs, WidgetStates
<1> HIDE DEF f, v
<1>5. Good(y) /\ y.e.kind = x.e.kind
  BY <1>1, <1>3, <1>4 DEF Good, Sturdy, Drawn, Absent, Told, Latched, Tried, Hushed,
       EmbeddedKinds, Configs
<1> HIDE DEF y
<1> QED
  BY <1>2, <1>5

LEMMA TwitchReadyStep ==
  ASSUME Good(X), TwitchReady PROVE Good(X)'
<1> DEFINE x == [X EXCEPT !.e.player = TRUE]
           o == IF x.e.at THEN "on" ELSE x.w.off
           v == [[x.w EXCEPT !.muted = x.e.muted] EXCEPT !.off = o]
           y == [x EXCEPT !.w = v]
           z == [y EXCEPT !.w = Stopped(@)]
<1>1. x \in Configs
  BY Flags DEF Good, Sturdy, Configs
<1>2. Good(x) /\ x.e.kind = "twitch"
  BY <1>1 DEF TwitchReady, X, Good, Sturdy, Drawn, Absent, Told, Latched, Tried, Hushed,
       EmbeddedKinds, Configs, EngineStates, WidgetStates
<1> HIDE DEF x
<1>3. o \in {"on", "ahead", "behind", "far"} /\ x.e.muted \in BOOLEAN /\ x.w \in WidgetStates
  BY <1>2 DEF Good, Sturdy, Configs, EngineStates, WidgetStates
<1>4. TwitchApplyPending(x) = IF y.e.playing THEN TwitchStart(y) ELSE z
  BY <1>2 DEF TwitchApplyPending, Good, Sturdy, Configs, WidgetStates
<1>5. v \in WidgetStates /\ v.of = x.w.of /\ v.state = x.w.state
  <2> HIDE DEF o
  <2> QED
    BY <1>3 DEF WidgetStates
<1> HIDE DEF o, v
<1>6. Good(y) /\ y.e.kind = "twitch"
  BY <1>2, <1>5 DEF Good, Sturdy, Drawn, Absent, Told, Latched, Tried, Hushed,
       EmbeddedKinds, Configs, EngineStates, WidgetStates
<1>7. Good(z) /\ z.e.kind = "twitch"
  <2>1. z \in Configs
    BY <1>6, Widgets DEF Good, Sturdy, Configs
  <2> HIDE DEF y
  <2> QED
    BY <1>6, <2>1 DEF Stopped, Good, Sturdy, Drawn, Absent, Told, Latched, Tried, Hushed,
         EmbeddedKinds, Configs, EngineStates, WidgetStates
<1> HIDE DEF y, z
<1>8. Good(TwitchApplyPending(x)) /\ TwitchApplyPending(x).e.kind = "twitch"
  BY <1>4, <1>6, <1>7, TwitchStartGood
<1>9. Good(TwitchMarkReady(TwitchApplyPending(x)))
  BY <1>8, TwitchMarkReadyGood
<1> QED
  BY <1>9, Carried DEF TwitchReady, x

LEMMA TwitchPlaysStep ==
  ASSUME Good(X), TwitchPlays PROVE Good(X)'
<1> DEFINE x == [X EXCEPT !.w.state = "playing"]
           y == SetBuffering(TwitchMarkReady(x), FALSE)
<1>1. x \in Configs
  BY Widgets DEF Good, Sturdy, Configs
<1>2. Good(x) /\ x.e.kind = "twitch"
  BY <1>1 DEF TwitchPlays, X, Good, Sturdy, Drawn, Absent, Told, Latched, Tried, Hushed,
       EmbeddedKinds, Configs, EngineStates, WidgetStates
<1> HIDE DEF x
<1>3. Good(TwitchMarkReady(x))
  BY <1>2, TwitchMarkReadyGood
<1>4. Good(y)
  BY <1>3, SetBufferingGood
<1> HIDE DEF y
<1> QED
  BY <1>4, Carried DEF TwitchPlays, x, y

LEMMA TwitchStallsStep ==
  ASSUME Good(X), TwitchStalls PROVE Good(X)'
<1> DEFINE y == [X EXCEPT !.w.state = "buffering"]
<1>1. y \in Configs
  BY Widgets DEF Good, Sturdy, Configs, X
<1>2. Good(y)
  BY <1>1 DEF TwitchStalls, X, Good, Sturdy, Drawn, Absent, Told, Latched, Tried, Hushed,
       EmbeddedKinds, Configs, EngineStates, WidgetStates
<1> HIDE DEF y
<1> QED
  BY <1>2, Carried DEF TwitchStalls, y

LEMMA TwitchVerifyStep ==
  ASSUME Good(X), TwitchVerify PROVE Good(X)'
<1> DEFINE y == [X EXCEPT !.e.verifying = FALSE]
           z == [y EXCEPT !.e.blocked = TRUE,
                          !.w = Played([@ EXCEPT !.muted = TRUE], activated)]
<1>1. X.e.kind = "twitch" /\ X.e.verifying
  BY DEF TwitchVerify, X
<1>2. Good(y) /\ Good(OnAudioBlocked(z))
  BY <1>1, VerifyGood
<1>3. Becomes(IF ~eng.playing \/ Running(widget) THEN y ELSE OnAudioBlocked(z))
  BY DEF TwitchVerify
<1> HIDE DEF y, z
<1> QED
  BY <1>2, <1>3, Carried

------------------------------------------------------------------------------
(* The Kick adapter.                                                        *)

LEMMA KickMountGood ==
  ASSUME NEW x, Good(x), x.e.kind = "kick"
  PROVE  Good(KickMount(x)) /\ KickMount(x).e.kind = "kick"
<1> DEFINE y == [x EXCEPT !.e.timer = TRUE]
           v == [NewWidget(x.e.gen) EXCEPT !.muted = x.e.muted]
<1>1. y \in Configs
  BY Flags DEF Good, Sturdy, Configs
<1>2. /\ Good(y) /\ y.e.gen = x.e.gen
      /\ y.e.kind = "kick" /\ y.e.gen # 0 /\ y.e.attempt = "none"
  BY <1>1 DEF Good, Sturdy, Drawn, Absent, Told, Latched, Tried, Hushed, EmbeddedKinds,
       Configs, EngineStates, WidgetStates
<1>3. /\ NewWidget(x.e.gen) \in WidgetStates /\ NewWidget(x.e.gen).of = x.e.gen
      /\ x.e.muted \in BOOLEAN
  BY NewWidgets DEF NewWidget, NoWidget, Good, Sturdy, Configs, EngineStates
<1>4. v \in WidgetStates /\ v.of = y.e.gen
  BY <1>2, <1>3 DEF WidgetStates
<1>5. KickMount(x) = IF x.e.phase = "failed" THEN x ELSE [y EXCEPT !.e.phase = "built", !.w = v]
  BY DEF KickMount, Good, Sturdy, Configs, EngineStates
<1> HIDE DEF y, v
<1> DEFINE z == [y EXCEPT !.e.phase = "built", !.w = v]
<1>6. Good(z)
  <2>1. y.e.kind # "file"
    BY <1>2
  <2> QED
    BY <1>2, <1>4, <2>1, DrawnGood
<1>7. z.e.kind = "kick"
  BY <1>2 DEF Good, Sturdy, Configs, EngineStates
<1> HIDE DEF z
<1> QED
  BY <1>5, <1>6, <1>7 DEF z

LEMMA KickTeardownGood ==
  ASSUME NEW x, Good(x), x.e.kind = "kick"
  PROVE  Good(KickTeardown(x))
<1>1. KickTeardown(x) \in Configs
  BY Flags, NewWidgets DEF KickTeardown, Good, Sturdy, Configs
<1> QED
  BY <1>1 DEF KickTeardown, NoWidget, Good, Sturdy, Drawn, Absent, Told, Latched, Tried,
       Hushed, EmbeddedKinds, Configs, EngineStates, WidgetStates

LEMMA KickAnnounceGood ==
  ASSUME NEW x, Good(x), x.e.kind = "kick"
  PROVE  Good(KickAnnounce(x)) /\ KickAnnounce(x).e.kind = "kick"
<1> DEFINE y == [x EXCEPT !.e.announced = TRUE]
<1>1. CASE x.e.announced
  BY <1>1 DEF KickAnnounce
<1>2. CASE ~x.e.announced
  <2>1. y \in Configs
    BY Flags DEF Good, Sturdy, Configs
  <2>2. Good(y) /\ y.p.readies = 0 /\ Latched(y.e) /\ y.e.kind = "kick"
    BY <1>2, <2>1 DEF PanelStates, Good, Sturdy, Drawn, Absent, Told, Latched, Tried,
         Hushed, EmbeddedKinds, Configs, EngineStates, WidgetStates
  <2> HIDE DEF y
  <2>3. Good(OnReady(y)) /\ OnReady(y).e = y.e
    BY <2>2, ReadyGood
  <2> QED
    BY <1>2, <2>2, <2>3 DEF KickAnnounce, y
<1> QED
  BY <1>1, <1>2

LEMMA KickNewGood ==
  ASSUME NEW x, Good(x), x.e.kind = "kick", x.e.phase = "script"
  PROVE  Good(KickNew(x))
<1> DEFINE m == ~activated
           y == [x EXCEPT !.e.muted = m]
           z == [y EXCEPT !.e.playing = TRUE]
<1>1. m \in BOOLEAN
  OBVIOUS
<1> HIDE DEF m
<1>2. y \in Configs
  BY <1>1, Flags DEF Good, Sturdy, Configs
<1>3. /\ Good(y) /\ y.e.gen = x.e.gen
      /\ y.e.kind = "kick" /\ y.e.phase = "script" /\ y.e.gen # 0
  BY <1>2 DEF Good, Sturdy, Drawn, Absent, Told, Latched, Tried, Hushed, EmbeddedKinds,
       Configs, EngineStates, WidgetStates
<1> HIDE DEF y
<1>4. Good(OnError([y EXCEPT !.e.phase = "failed"], x.e.gen))
  BY <1>3, FailedGood
<1>5. z \in Configs
  BY <1>3, Flags DEF Good, Sturdy, Configs
<1>6. Good(z) /\ z.e.kind = "kick"
  BY <1>3, <1>5 DEF Good, Sturdy, Drawn, Absent, Told, Latched, Tried, Hushed,
       EmbeddedKinds, Configs, EngineStates, WidgetStates
<1> HIDE DEF z
<1>7. Good(KickMount(z))
  BY <1>6, KickMountGood
<1> QED
  BY <1>4, <1>7 DEF KickNew, z, y, m

LEMMA KickPlayGood ==
  ASSUME NEW x, Good(x), x.e.kind = "kick"
  PROVE  Good(KickPlay(x))
<1> DEFINE y == [x EXCEPT !.e.playing = TRUE]
<1>1. y \in Configs
  BY Flags DEF Good, Sturdy, Configs
<1>2. Good(y) /\ y.e.kind = "kick"
  BY <1>1 DEF Good, Sturdy, Drawn, Absent, Told, Latched, Tried, Hushed, EmbeddedKinds,
       Configs, EngineStates, WidgetStates
<1> HIDE DEF y
<1>3. Good(KickMount(OnBufferingChange(y, TRUE)))
  BY <1>2, BufferingGood, KickMountGood
<1> QED
  BY <1>3 DEF KickPlay, y

LEMMA KickPauseGood ==
  ASSUME NEW x, Good(x), x.e.kind = "kick"
  PROVE  Good(KickPause(x))
<1> DEFINE y == [x EXCEPT !.e.playing = FALSE, !.e.player = FALSE]
<1>1. y \in Configs
  BY Flags DEF Good, Sturdy, Configs
<1>2. Good(y) /\ y.e.kind = "kick"
  <2>1. /\ y.e.kind = "kick" /\ y.e.gen = x.e.gen /\ y.e.phase = x.e.phase /\ ~y.e.player
        /\ y.e.announced = x.e.announced /\ y.e.blocked = x.e.blocked
        /\ y.e.verifying = x.e.verifying /\ y.e.attempt = x.e.attempt
        /\ y.w = x.w /\ y.p = x.p
    BY DEF Good, Sturdy, Configs, EngineStates
  <2> HIDE DEF y
  <2> QED
    BY <1>1, <2>1 DEF Good, Sturdy, Drawn, Absent, Told, Latched, Tried, Hushed
<1> HIDE DEF y
<1>3. Good(OnBufferingChange(KickTeardown(KickAnnounce(y)), FALSE))
  BY <1>2, KickAnnounceGood, KickTeardownGood, BufferingGood
<1> QED
  BY <1>3 DEF KickPause, y

LEMMA KickSetMutedGood ==
  ASSUME NEW x, Sturdy(x), x.e.kind = "kick", NEW m \in BOOLEAN
  PROVE  Good(KickSetMuted(x, m)) /\ KickSetMuted(x, m).e.kind = "kick"
<1> DEFINE y == [x EXCEPT !.e.muted = m]
<1>1. y \in Configs
  BY Flags DEF Sturdy, Configs
<1>2. Good(x) /\ Good(y) /\ y.e.kind = "kick"
  BY <1>1 DEF Good, Sturdy, Drawn, Absent, Told, Latched, Tried, Hushed, EmbeddedKinds,
       Configs, EngineStates, WidgetStates
<1> HIDE DEF y
<1>3. Good(KickMount(y)) /\ KickMount(y).e.kind = "kick"
  BY <1>2, KickMountGood
<1> QED
  BY <1>2, <1>3 DEF KickSetMuted, y

LEMMA KickLoadsStep ==
  ASSUME Good(X), KickLoads PROVE Good(X)'
<1> DEFINE s == IF MayPlay(widget, activated) THEN "playing" ELSE "paused"
           x == [X EXCEPT !.e.timer = FALSE, !.e.player = TRUE, !.w.state = s]
           y == OnBufferingChange(x, FALSE)
           z == KickAnnounce(y)
<1>1. s \in {"playing", "paused"}
  OBVIOUS
<1> HIDE DEF s
<1>2. x \in Configs
  BY <1>1, Flags, Widgets DEF Good, Sturdy, Configs
<1>3. /\ x.e.gen = X.e.gen /\ x.e.phase = X.e.phase
      /\ x.e.kind = "kick" /\ X.e.kind = "kick"
      /\ x.e.announced = X.e.announced /\ x.e.attempt = X.e.attempt
      /\ x.e.blocked = X.e.blocked /\ x.e.verifying = X.e.verifying
      /\ x.w.of = X.w.of /\ x.w.state = s /\ X.w.state = "cued" /\ x.p = X.p
  BY DEF KickLoads, X, Good, Sturdy, Configs, EngineStates, WidgetStates
<1> HIDE DEF x
<1>8. Good(x)
  BY <1>1, <1>2, <1>3 DEF Good, Sturdy, Drawn, Absent, Told, Latched, Tried, Hushed,
       EmbeddedKinds
<1>4. Good(y) /\ y.e.kind = "kick"
  BY <1>3, <1>8, BufferingGood
<1> HIDE DEF y
<1>5. Good(z)
  BY <1>4, KickAnnounceGood
<1> HIDE DEF z
<1>6. Good(IF eng.muted THEN OnAudioBlocked(z) ELSE z)
  BY <1>5, BlockedGood DEF Good
<1>7. Becomes(IF eng.muted THEN OnAudioBlocked(z) ELSE z)
  BY DEF KickLoads, s, x, y, z
<1> QED
  BY <1>6, <1>7, Carried

LEMMA KickUnreachableStep ==
  ASSUME Good(X), KickUnreachable PROVE Good(X)'
<1> DEFINE y == [X EXCEPT !.e.timer = FALSE]
<1>1. y \in Configs
  BY Flags DEF Good, Sturdy, Configs
<1>2. Good(y) /\ y.e.kind = "kick" /\ eng.gen \in 0 .. MaxEngines
  BY <1>1 DEF KickUnreachable, X, Good, Sturdy, Drawn, Absent, Told, Latched, Tried, Hushed,
       EmbeddedKinds, Configs, EngineStates, WidgetStates
<1> HIDE DEF y
<1>3. Good(OnError(KickAnnounce(y), eng.gen))
  BY <1>2, KickAnnounceGood, ErrorGood
<1>4. Good(IF eng.player THEN y ELSE OnError(KickAnnounce(y), eng.gen))
  BY <1>2, <1>3
<1> QED
  BY <1>4, Carried DEF KickUnreachable, y

------------------------------------------------------------------------------
(* The adapter around the <video> element.                                  *)

(* An element that does not start, whatever its promise is about to say.    *)
Resting(x) ==
  /\ x \in Configs /\ Drawn(x) /\ Absent(x) /\ Told(x) /\ Hushed(x)
  /\ x.e.kind \notin EmbeddedKinds /\ x.w.state \in {"cued", "paused"}

LEMMA MediaCaughtGood ==
  ASSUME NEW x, Resting(x), x.e.attempt # "second"
  PROVE  Good(MediaCaught(x)) /\ MediaCaught(x).e.kind = x.e.kind
<1> DEFINE f == [x.e EXCEPT !.attempt = "none"]
           y == [x EXCEPT !.e = f]
           g == [[x.e EXCEPT !.attempt = "second"] EXCEPT !.blocked = TRUE]
           u == [x.w EXCEPT !.muted = TRUE]
           v == Played(u, activated)
           z == [x EXCEPT !.e = g, !.w = v]
<1>1. f \in EngineStates /\ g \in EngineStates
  BY Fields, Flags DEF Resting, Configs
<1>2. u \in WidgetStates /\ u.of = x.w.of /\ u.state = x.w.state /\ u.muted = TRUE
  <2>1. u \in WidgetStates
    BY Widgets DEF Resting, Configs
  <2> QED
    BY <2>1 DEF Resting, Configs, WidgetStates
<1>3. v \in WidgetStates /\ v.of = x.w.of /\ v.state = "starting"
  <2> HIDE DEF u
  <2> QED
    BY <1>2, Widgets DEF Played, MayPlay, Resting, WidgetStates
<1>4. MediaCaught(x) = IF x.w.muted \/ x.e.blocked THEN y ELSE z
  BY DEF MediaCaught, Resting, Configs, EngineStates
<1>5. Good(y) /\ y.e.kind = x.e.kind
  <2>1. y \in Configs
    BY <1>1 DEF Resting, Configs
  <2> QED
    BY <2>1 DEF Resting, Good, Sturdy, Drawn, Absent, Told, Latched, Tried, Hushed,
         EmbeddedKinds, Configs, EngineStates, WidgetStates
<1>6. Good(z) /\ z.e.kind = x.e.kind
  <2> HIDE DEF u, v
  <2>1. z \in Configs
    BY <1>1, <1>3 DEF Resting, Configs
  <2>2. /\ g.gen = x.e.gen /\ g.phase = x.e.phase /\ g.kind = x.e.kind
        /\ g.player = x.e.player /\ g.announced = x.e.announced
        /\ g.attempt = "second"
    BY DEF Resting, Configs, EngineStates
  <2>3. z.e = g /\ z.w = v /\ z.p = x.p
    BY DEF Resting, Configs
  <2> HIDE DEF g, z
  <2>4. x.e.gen # 0
    BY DEF Resting, Drawn
  <2> QED
    BY <1>3, <2>1, <2>2, <2>3, <2>4 DEF Resting, Good, Sturdy, Drawn, Absent, Told, Latched,
         Tried, Hushed, EmbeddedKinds
<1> HIDE DEF y, z
<1> QED
  BY <1>4, <1>5, <1>6

LEMMA MediaAbortedGood ==
  ASSUME NEW x, Resting(x)
  PROVE  Good(MediaAborted(x)) /\ MediaAborted(x).e.kind = x.e.kind
<1>1. CASE x.e.attempt = "first"
  BY <1>1, MediaCaughtGood DEF MediaAborted
<1>2. CASE x.e.attempt = "second"
  <2> DEFINE g == [[x.e EXCEPT !.attempt = "none"] EXCEPT !.blocked = FALSE]
             v == [x.w EXCEPT !.muted = FALSE]
             y == [x EXCEPT !.e = g, !.w = v]
  <2>1. g \in EngineStates /\ v \in WidgetStates
    BY Fields, Flags, Widgets DEF Resting, Configs
  <2>2. MediaAborted(x) = y
    BY <1>2 DEF MediaAborted, Resting, Configs, EngineStates
  <2>3. y \in Configs
    BY <2>1 DEF Resting, Configs
  <2>4. /\ g.kind = x.e.kind /\ g.gen = x.e.gen /\ g.phase = x.e.phase
        /\ g.player = x.e.player /\ g.announced = x.e.announced
        /\ g.verifying = x.e.verifying /\ ~g.blocked /\ g.attempt = "none"
        /\ v.of = x.w.of /\ v.state = x.w.state
    BY DEF Resting, Configs, EngineStates, WidgetStates
  <2>5. y.e = g /\ y.w = v /\ y.p = x.p
    BY DEF Resting, Configs
  <2> HIDE DEF g, v, y
  <2>6. Drawn(y) /\ Absent(y) /\ Hushed(y)
    BY <2>4, <2>5 DEF Resting, Drawn, Absent, Hushed
  <2>7. Told(y) /\ Tried(y)
    BY <2>4, <2>5 DEF Resting, Told, Latched, Tried, EmbeddedKinds
  <2>8. Good(y) /\ y.e.kind = x.e.kind
    BY <2>3, <2>4, <2>5, <2>6, <2>7 DEF Good, Sturdy
  <2> QED
    BY <2>2, <2>8
<1>3. CASE x.e.attempt = "none"
  <2>1. Good(x)
    BY <1>3 DEF Resting, Good, Sturdy, Drawn, Absent, Told, Latched, Tried, Hushed,
         EmbeddedKinds, Configs, EngineStates, WidgetStates
  <2> QED
    BY <1>3, <2>1 DEF MediaAborted
<1> QED
  BY <1>1, <1>2, <1>3 DEF Resting, Configs, EngineStates

LEMMA MediaSrcResting ==
  ASSUME NEW x, Good(x), x.e.gen # 0, x.e.kind \in {"hls", "dash"}
                                      \/ (x.e.kind = "file" /\ x.e.phase = "script")
  PROVE  /\ Resting(MediaSrc(x)) /\ MediaSrc(x).e.attempt = x.e.attempt
         /\ MediaSrc(x).e.kind = x.e.kind
<1> DEFINE f == [x.e EXCEPT !.phase = "built"]
           v == [x.w EXCEPT !.of = x.e.gen, !.state = "cued", !.off = "far", !.rate = Normal]
           y == [x EXCEPT !.e = f, !.w = v]
<1>1. f \in EngineStates
  BY Fields DEF Good, Sturdy, Configs
<1>2. v \in WidgetStates /\ v.of = x.e.gen /\ v.state = "cued"
  BY SpeedOne DEF Good, Sturdy, Configs, EngineStates, WidgetStates
<1>3. MediaSrc(x) = y
  BY DEF MediaSrc, Good, Sturdy, Configs
<1> HIDE DEF v
<1>4. y \in Configs
  BY <1>1, <1>2 DEF Good, Sturdy, Configs
<1>5. Resting(y) /\ y.e.attempt = x.e.attempt /\ y.e.kind = x.e.kind
  BY <1>2, <1>4 DEF Resting, Good, Sturdy, Drawn, Absent, Told, Latched, Tried, Hushed,
       EmbeddedKinds, Configs, EngineStates, WidgetStates
<1> QED
  BY <1>3, <1>5

(* A source given to an element from which nothing is awaited.              *)
LEMMA MediaSrcGood ==
  ASSUME NEW x, Good(x), x.e.gen # 0, x.e.phase = "script", x.e.kind \in {"file", "hls", "dash"}
  PROVE  Good(MediaSrc(x))
<1>1. /\ Resting(MediaSrc(x)) /\ MediaSrc(x).e.attempt = x.e.attempt
  BY MediaSrcResting
<1>2. x.e.attempt = "none"
  BY DEF Good, Sturdy, Drawn, Absent, Told, Latched, Tried, Hushed, EmbeddedKinds, Configs,
       EngineStates, WidgetStates
<1> QED
  BY <1>1, <1>2 DEF Resting, Good, Sturdy, Drawn, Absent, Told, Latched, Tried, Hushed,
       EmbeddedKinds, Configs, EngineStates, WidgetStates

LEMMA MediaNewGood ==
  ASSUME NEW x, Good(x), x.e.gen # 0, x.e.phase = "script"
  PROVE  Good(MediaNew(x))
  BY MediaSrcGood DEF MediaNew

LEMMA StartHlsGood ==
  ASSUME NEW x, Good(x), x.e.gen # 0, x.e.kind = "hls", NEW b \in BOOLEAN
  PROVE  Good(StartHls(x, b))
<1> DEFINE y == [x EXCEPT !.e.relayed = b]
<1>1. y \in Configs
  BY Flags DEF Good, Sturdy, Configs
<1>2. Good(y) /\ y.e.gen # 0 /\ y.e.kind = "hls"
  BY <1>1 DEF Good, Sturdy, Drawn, Absent, Told, Latched, Tried, Hushed, EmbeddedKinds,
       Configs, EngineStates, WidgetStates
<1> HIDE DEF y
<1>3. Good(MediaAborted(MediaSrc(y)))
  BY <1>2, MediaSrcResting, MediaAbortedGood
<1> QED
  BY <1>3 DEF StartHls, y

LEMMA MediaAttachStep ==
  ASSUME Good(X), MediaAttach PROVE Good(X)'
<1>1. /\ X.e = eng /\ eng.phase = "script" /\ eng.kind \in {"hls", "dash"}
      /\ eng.gen # 0 /\ X.e.gen = eng.gen
  BY DEF MediaAttach, X, Good, Sturdy, Absent
<1>2. Good(MediaSrc(X))
  BY <1>1, MediaSrcGood
<1>3. eng.kind # "dash" => Good(StartHls(X, FALSE))
  BY <1>1, StartHlsGood
<1>4. Good(OnError([X EXCEPT !.e.phase = "failed"], eng.gen))
  BY <1>1, FailedGood
<1> DEFINE y == OnError([X EXCEPT !.e.phase = "failed"], eng.gen)
<1> HIDE DEF y
<1>5. Becomes(IF eng.kind = "dash" \/ HlsSupport = "native" THEN MediaSrc(X)
              ELSE IF HlsSupport = "mse" THEN StartHls(X, FALSE) ELSE y)
  BY DEF MediaAttach, y
<1>6. Good(y)
  BY <1>4 DEF y
<1> QED
  BY <1>2, <1>3, <1>5, <1>6, Carried

LEMMA HlsErrorStep ==
  ASSUME Good(X), HlsNetworkError \/ HlsMediaError \/ HlsFatalError \/ MediaFails
  PROVE  Good(X)'
<1>1. X.e = eng /\ eng.gen \in 0 .. MaxEngines
  BY DEF Good, Sturdy, Configs, EngineStates, X
<1>2. CASE HlsFatalError
  BY <1>1, <1>2, ErrorGood, Carried DEF HlsFatalError
<1>3. CASE MediaFails
  BY <1>1, <1>3, ErrorGood, Carried DEF MediaFails
<1>4. CASE HlsNetworkError
  <2>1. X.e.kind = "hls" /\ X.e.gen # 0
    BY <1>1, <1>4 DEF HlsNetworkError, Good, Sturdy, Absent
  <2>2. Good(StartHls(X, TRUE))
    BY <2>1, StartHlsGood
  <2> QED
    BY <1>4, <2>2, Carried DEF HlsNetworkError
<1>5. CASE HlsMediaError
  <2>1. X.e.kind = "hls" /\ X.e.gen # 0
    BY <1>1, <1>5 DEF HlsMediaError, Good, Sturdy, Absent
  <2>2. Good(MediaAborted(MediaSrc(X)))
    BY <2>1, MediaSrcResting, MediaAbortedGood
  <2> QED
    BY <1>5, <2>2, Carried DEF HlsMediaError
<1> QED
  BY <1>2, <1>3, <1>4, <1>5

LEMMA MediaMarkReadySturdy ==
  ASSUME NEW x, Sturdy(x), x.e.kind \notin EmbeddedKinds, x.e.gen # 0
  PROVE  Sturdy(MediaMarkReady(x)) /\ (Hushed(x) => Hushed(MediaMarkReady(x)))
<1> DEFINE y == [x EXCEPT !.e.player = TRUE]
<1>1. CASE x.e.player
  BY <1>1 DEF MediaMarkReady
<1>2. CASE ~x.e.player
  <2>1. y \in Configs
    BY Flags DEF Sturdy, Configs
  <2>2. /\ Sturdy(y) /\ y.p.readies = 0 /\ Latched(y.e)
        /\ Hushed(x) => Hushed(y)
    BY <1>2, <2>1 DEF PanelStates, Good, Sturdy, Drawn, Absent, Told, Latched, Tried,
         Hushed, EmbeddedKinds, Configs, EngineStates, WidgetStates
  <2> HIDE DEF y
  <2>3. Sturdy(OnReady(y)) /\ (Hushed(y) => Hushed(OnReady(y)))
    BY <2>2, ReadySturdy
  <2> QED
    BY <1>2, <2>2, <2>3 DEF MediaMarkReady, y
<1> QED
  BY <1>1, <1>2

LEMMA MediaLoadsStep ==
  ASSUME Good(X), MediaLoads PROVE Good(X)'
<1>1. X.e.kind \notin EmbeddedKinds /\ X.e.gen # 0
  BY DEF MediaLoads, X, Good, Sturdy, Absent
<1>2. Good(MediaMarkReady(X))
  BY <1>1, MediaMarkReadySturdy DEF Good
<1>3. Good(SetBuffering(MediaMarkReady(X), FALSE))
  BY <1>2, SetBufferingGood
<1> QED
  BY <1>3, Carried DEF MediaLoads

LEMMA MediaWaitsStep ==
  ASSUME Good(X), MediaWaits PROVE Good(X)'
<1> DEFINE s == IF X.w.state = "playing" THEN "buffering" ELSE X.w.state
           y == [X EXCEPT !.w.state = s]
<1>1. s \in {"buffering", "starting"} /\ (s = "buffering" => X.w.state = "playing")
      /\ X.w.state \in {"starting", "playing"} /\ (s = "starting" => X.w.state = "starting")
  BY DEF MediaWaits, X
<1>2. [X EXCEPT !.w.state = IF @ = "playing" THEN "buffering" ELSE @] = y
  OBVIOUS
<1> HIDE DEF s
<1>3. y \in Configs
  BY <1>1, Widgets DEF Good, Sturdy, Configs
<1>4. Good(y)
  BY <1>1, <1>3 DEF Good, Sturdy, Drawn, Absent, Told, Latched, Tried, Hushed,
       EmbeddedKinds, Configs, EngineStates, WidgetStates
<1> HIDE DEF y
<1>5. Good(SetBuffering(y, TRUE))
  BY <1>4, SetBufferingGood
<1> QED
  BY <1>2, <1>5, Carried DEF MediaWaits

LEMMA MediaPlaysStep ==
  ASSUME Good(X), MediaPlays PROVE Good(X)'
<1> DEFINE x == [X EXCEPT !.w.state = "playing", !.e.attempt = "none"]
           y == SetBuffering(MediaMarkReady(x), FALSE)
<1>1. x \in Configs
  BY Fields, Widgets DEF Good, Sturdy, Configs
<1>2. /\ Sturdy(x) /\ (eng.attempt # "second" => Hushed(x))
      /\ x.e.kind \notin EmbeddedKinds /\ x.e.gen # 0
  BY <1>1 DEF MediaPlays, X, Good, Sturdy, Drawn, Absent, Told, Latched, Tried, Hushed,
       EmbeddedKinds, Configs, EngineStates, WidgetStates
<1> HIDE DEF x
<1>3. /\ Sturdy(MediaMarkReady(x))
      /\ Hushed(x) => Hushed(MediaMarkReady(x))
  BY <1>2, MediaMarkReadySturdy
<1>4. /\ Sturdy(y)
      /\ Hushed(MediaMarkReady(x)) => Hushed(y)
  BY <1>3, SetBufferingSturdy
<1> HIDE DEF y
<1>5. Good(IF eng.attempt = "second" THEN OnAudioBlocked(y) ELSE y)
  BY <1>2, <1>3, <1>4, BlockedGood DEF Good
<1> QED
  BY <1>5, Carried DEF MediaPlays, x, y

LEMMA MediaPlayGood ==
  ASSUME NEW x, Good(x), x.e.kind \notin EmbeddedKinds
  PROVE  Good(MediaPlay(x))
<1> DEFINE f == [x.e EXCEPT !.attempt = "first"]
           v == Played(x.w, activated)
           y == [x EXCEPT !.e = f, !.w = v]
<1>1. CASE x.w.state \notin {"cued", "paused"}
  BY <1>1 DEF MediaPlay
<1>2. CASE x.w.state \in {"cued", "paused"} /\ MayPlay(x.w, activated)
  <2>1. f \in EngineStates
    BY Fields DEF Good, Sturdy, Configs
  <2>2. v \in WidgetStates /\ v.of = x.w.of /\ v.state = "starting"
    BY <1>2, Widgets DEF Played, Good, Sturdy, Configs, WidgetStates
  <2>3. MediaPlay(x) = y
    BY <1>2 DEF MediaPlay, Good, Sturdy, Configs
  <2> HIDE DEF v
  <2>4. y \in Configs
    BY <2>1, <2>2 DEF Good, Sturdy, Configs
  <2>5. Good(y)
    BY <1>2, <2>2, <2>4 DEF Good, Sturdy, Drawn, Absent, Told, Latched, Tried, Hushed,
         EmbeddedKinds, Configs, EngineStates, WidgetStates
  <2> QED
    BY <2>3, <2>5
<1>3. CASE x.w.state \in {"cued", "paused"} /\ ~MayPlay(x.w, activated)
  <2>1. Resting(x) /\ x.e.attempt # "second"
    BY <1>3 DEF Resting, Good, Sturdy, Tried
  <2> QED
    BY <1>3, <2>1, MediaCaughtGood DEF MediaPlay
<1> QED
  BY <1>1, <1>2, <1>3

LEMMA MediaPauseGood ==
  ASSUME NEW x, Good(x), x.e.kind \notin EmbeddedKinds
  PROVE  Good(MediaPause(x))
<1> DEFINE v == Stopped(x.w)
           y == [x EXCEPT !.w = v]
<1>1. /\ v \in WidgetStates /\ v.of = x.w.of
      /\ x.w.state = "starting" => v.state = "paused"
      /\ x.w.state = "none" => v.state = "none"
  BY Widgets DEF Stopped, Good, Sturdy, Configs, WidgetStates
<1> HIDE DEF v
<1>2. y \in Configs /\ y.e = x.e /\ y.p = x.p /\ y.w = v
  BY <1>1 DEF Good, Sturdy, Configs
<1> HIDE DEF y
<1>3. CASE x.w.state = "starting"
  <2>1. Resting(y)
    BY <1>1, <1>2, <1>3 DEF Resting, Good, Sturdy, Drawn, Absent, Told, Hushed
  <2> QED
    BY <1>3, <2>1, MediaAbortedGood DEF MediaPause, y, v
<1>4. CASE x.w.state # "starting"
  <2>1. Good(y)
    BY <1>1, <1>2, <1>4 DEF Good, Sturdy, Drawn, Absent, Told, Tried, Hushed
  <2> QED
    BY <1>4, <2>1 DEF MediaPause, y, v
<1> QED
  BY <1>3, <1>4

LEMMA MediaSeekGood ==
  ASSUME NEW x, Good(x)
  PROVE  Good(MediaSeek(x)) /\ MediaSeek(x).e = x.e
<1>1. MediaSeek(x) \in Configs
  BY Widgets DEF MediaSeek, Good, Sturdy, Configs
<1> QED
  BY <1>1 DEF MediaSeek, Sought, Good, Sturdy, Drawn, Absent, Told, Latched, Tried, Hushed,
       EmbeddedKinds, Configs, EngineStates, WidgetStates

LEMMA MediaSetRateGood ==
  ASSUME NEW x, Good(x), NEW r \in EngineRates
  PROVE  Good(MediaSetRate(x, r))
<1>1. MediaSetRate(x, r) \in Configs
  BY Widgets DEF MediaSetRate, Good, Sturdy, Configs
<1> QED
  BY <1>1 DEF MediaSetRate, Good, Sturdy, Drawn, Absent, Told, Latched, Tried, Hushed,
       EmbeddedKinds, Configs, EngineStates, WidgetStates

LEMMA MediaSetMutedGood ==
  ASSUME NEW x, Sturdy(x), x.e.kind \notin EmbeddedKinds, NEW m \in BOOLEAN,
         Hushed(x) \/ x.p.muted = m
  PROVE  Good(MediaSetMuted(x, m)) /\ MediaSetMuted(x, m).e.kind = x.e.kind
<1>1. MediaSetMuted(x, m) \in Configs
  BY Flags, Widgets DEF MediaSetMuted, Sturdy, Configs
<1> QED
  BY <1>1 DEF MediaSetMuted, Good, Sturdy, Drawn, Absent, Told, Latched, Tried, Hushed,
       EmbeddedKinds, Configs, EngineStates, WidgetStates

------------------------------------------------------------------------------
(* The sync loop, over whichever engine is in place.                        *)

LEMMA PlayGood ==
  ASSUME NEW x, Good(x) PROVE Good(EnginePlay(x))
<1>1. CASE x.e.kind = "youtube"
  BY <1>1, YouTubePlayGood DEF EnginePlay
<1>2. CASE x.e.kind = "twitch"
  BY <1>2, TwitchPlayGood DEF EnginePlay
<1>3. CASE x.e.kind = "kick"
  BY <1>3, KickPlayGood DEF EnginePlay
<1>4. CASE x.e.kind \notin EmbeddedKinds
  BY <1>4, MediaPlayGood DEF EnginePlay, EmbeddedKinds
<1> QED
  BY <1>1, <1>2, <1>3, <1>4 DEF EmbeddedKinds

LEMMA PauseGood ==
  ASSUME NEW x, Good(x) PROVE Good(EnginePause(x))
<1>1. CASE x.e.kind = "youtube"
  BY <1>1, YouTubePauseGood DEF EnginePause
<1>2. CASE x.e.kind = "twitch"
  BY <1>2, TwitchPauseGood DEF EnginePause
<1>3. CASE x.e.kind = "kick"
  BY <1>3, KickPauseGood DEF EnginePause
<1>4. CASE x.e.kind \notin EmbeddedKinds
  BY <1>4, MediaPauseGood DEF EnginePause, EmbeddedKinds
<1> QED
  BY <1>1, <1>2, <1>3, <1>4 DEF EmbeddedKinds

LEMMA SeekGood ==
  ASSUME NEW x, Good(x) PROVE Good(EngineSeek(x))
<1>1. CASE x.e.kind = "youtube"
  BY <1>1, YouTubeSeekGood DEF EngineSeek
<1>2. CASE x.e.kind = "twitch"
  BY <1>2, TwitchSeekGood DEF EngineSeek
<1>3. CASE x.e.kind = "kick"
  BY <1>3 DEF EngineSeek, KickSeek
<1>4. CASE x.e.kind \notin EmbeddedKinds
  BY <1>4, MediaSeekGood DEF EngineSeek, EmbeddedKinds
<1> QED
  BY <1>1, <1>2, <1>3, <1>4 DEF EmbeddedKinds

LEMMA SetRateGood ==
  ASSUME NEW x, Good(x), NEW r \in EngineRates PROVE Good(EngineSetRate(x, r))
<1>1. CASE x.e.kind = "youtube"
  BY <1>1, YouTubeSetRateGood DEF EngineSetRate
<1>2. CASE x.e.kind = "twitch"
  BY <1>2 DEF EngineSetRate, TwitchSetRate
<1>3. CASE x.e.kind = "kick"
  BY <1>3 DEF EngineSetRate, KickSetRate
<1>4. CASE x.e.kind \notin EmbeddedKinds
  BY <1>4, MediaSetRateGood DEF EngineSetRate, EmbeddedKinds
<1> QED
  BY <1>1, <1>2, <1>3, <1>4 DEF EmbeddedKinds

(* Told what the panel shows, or told anything where nothing is hidden.     *)
LEMMA SetMutedGood ==
  ASSUME NEW x, Sturdy(x), NEW m \in BOOLEAN, Hushed(x) \/ x.p.muted = m
  PROVE  Good(EngineSetMuted(x, m))
<1>1. CASE x.e.kind = "youtube"
  BY <1>1, YouTubeSetMutedGood DEF EngineSetMuted
<1>2. CASE x.e.kind = "twitch"
  BY <1>2, TwitchSetMutedGood DEF EngineSetMuted
<1>3. CASE x.e.kind = "kick"
  BY <1>3, KickSetMutedGood DEF EngineSetMuted
<1>4. CASE x.e.kind \notin EmbeddedKinds
  BY <1>4, MediaSetMutedGood DEF EngineSetMuted, EmbeddedKinds
<1> QED
  BY <1>1, <1>2, <1>3, <1>4 DEF EmbeddedKinds

LEMMA PushGood ==
  ASSUME NEW x, Good(x), NEW a \in EngineRates, NEW r \in EngineRates
  PROVE  Good(Push(x, a, r).x) /\ Push(x, a, r).a \in EngineRates
  BY SetRateGood DEF Push

LEMMA CorrectedGood ==
  ASSUME NEW x, Good(x), NEW tl, tl.rate \in NominalRates, NEW a \in EngineRates, NEW c
  PROVE  Good(Corrected(x, tl, a, c).x) /\ Corrected(x, tl, a, c).a \in EngineRates
<1>1. tl.rate \in EngineRates /\ NudgedRate(x, tl.rate) \in EngineRates
  BY Nudges DEF NudgedRate
<1>2. Good(EngineSeek(x))
  BY SeekGood
<1> DEFINE far == Push(EngineSeek(x), a, tl.rate)
           near == Push(x, a, NudgedRate(x, tl.rate))
           on == Push(x, a, tl.rate)
<1>3. Good(far.x) /\ far.a \in EngineRates
  BY <1>1, <1>2, PushGood
<1>4. Good(near.x) /\ near.a \in EngineRates
  BY <1>1, PushGood
<1>5. Good(on.x) /\ on.a \in EngineRates
  BY <1>1, PushGood
<1>6. Corrected(x, tl, a, c) \in {far, near, on}
  BY DEF Corrected
<1> HIDE DEF far, near, on
<1> QED
  BY <1>3, <1>4, <1>5, <1>6

LEMMA ReconciledGood ==
  ASSUME NEW x, Good(x), NEW tl, tl.rate \in NominalRates, NEW a \in EngineRates, NEW c
  PROVE  Good(Reconciled(x, tl, a, c).x) /\ Reconciled(x, tl, a, c).a \in EngineRates
<1>1. Good(EnginePlay(x)) /\ Good(EnginePause(x))
  BY PlayGood, PauseGood
<1>2. Good(HeldAt(EnginePause(x)))
  BY <1>1, SeekGood DEF HeldAt
<1> DEFINE still == [x |-> x, a |-> a]
           held == [x |-> HeldAt(EnginePause(x)), a |-> a]
           edge == [x |-> IF tl.paused THEN EnginePause(x) ELSE EnginePlay(x), a |-> a]
           moved == Corrected(EnginePlay(x), tl, a, c)
<1>3. Good(moved.x) /\ moved.a \in EngineRates
  BY <1>1, CorrectedGood
<1>4. /\ Good(still.x) /\ still.a \in EngineRates
      /\ Good(held.x) /\ held.a \in EngineRates
      /\ Good(edge.x) /\ edge.a \in EngineRates
  BY <1>1, <1>2
<1>5. Reconciled(x, tl, a, c) \in {still, held, edge, moved}
  BY DEF Reconciled
<1> HIDE DEF still, held, edge, moved
<1> QED
  BY <1>3, <1>4, <1>5

(* What a check finds moved is only how far the playhead is.                *)
LEMMA MovedGood ==
  ASSUME NEW x, Good(x), NEW o \in {"on", "ahead", "behind", "far"}
  PROVE  Good([x EXCEPT !.w.off = o])
<1> DEFINE y == [x EXCEPT !.w.off = o]
<1>1. y \in Configs
  BY Widgets DEF Good, Sturdy, Configs
<1> QED
  BY <1>1 DEF Good, Sturdy, Drawn, Absent, Told, Latched, Tried, Hushed, EmbeddedKinds,
       Configs, EngineStates, WidgetStates

LEMMA DriftedGood ==
  ASSUME Good(X) PROVE Good([X EXCEPT !.w = Drifted(@)])
<1> DEFINE up == [on |-> "ahead", ahead |-> "far", behind |-> "on"]
           down == [on |-> "behind", behind |-> "far", ahead |-> "on"]
           o == IF WidgetPace > RoomPace THEN up[widget.off] ELSE down[widget.off]
<1>1. widget \in WidgetStates /\ X.w = widget
  BY DEF X, Good, Sturdy, Configs
<1>2. widget.off \in {"on", "ahead", "behind", "far"}
  BY <1>1 DEF WidgetStates
<1>3. CASE widget.of = 0 \/ RoomPace = WidgetPace \/ widget.off = "far"
  BY <1>1, <1>3 DEF Drifted, X
<1>4. CASE ~(widget.of = 0 \/ RoomPace = WidgetPace \/ widget.off = "far")
  <2>1. up[widget.off] \in {"on", "ahead", "far"} /\ down[widget.off] \in {"on", "behind", "far"}
    BY <1>2, <1>4
  <2>2. o \in {"on", "ahead", "behind", "far"}
    BY <2>1
  <2>3. Drifted(widget) = [widget EXCEPT !.off = o]
    BY <1>4 DEF Drifted
  <2> HIDE DEF o
  <2>4. [X EXCEPT !.w = Drifted(@)] = [X EXCEPT !.w.off = o]
    BY <2>3 DEF X
  <2> QED
    BY <2>2, <2>4, MovedGood
<1> QED
  BY <1>3, <1>4

------------------------------------------------------------------------------
(* The component: the rest of its state, and the whole invariant.           *)

Rest ==
  /\ scripts \in [Scripts -> {"idle", "loading", "loaded", "failed"}]
  /\ orphans \subseteq [gen : 1..MaxEngines, kind : Scripts]
  /\ activated \in BOOLEAN
  /\ room \in [source : Sources \cup {NoSource}, paused : BOOLEAN,
               awaiting : BOOLEAN, rate : NominalRates]
  /\ applied \in EngineRates
  /\ built \in 0..MaxEngines /\ arrivals \in 0..MaxArrivals

PlayerInv == Good(X) /\ Rest

LEMMA NoEngineType == NoEngine \in EngineStates
  BY SpeedOne, PlayerAssumption DEF NoEngine, EngineStates, Kinds

LEMMA NewEngineType ==
  ASSUME NEW g \in 1 .. MaxEngines, NEW s \in Sources
  PROVE  /\ NewEngine(g, s) \in EngineStates
         /\ NewEngine(g, s).gen = g /\ NewEngine(g, s).phase = "script"
         /\ NewEngine(g, s).kind = KindOf[s] /\ ~NewEngine(g, s).blocked
         /\ ~NewEngine(g, s).verifying /\ NewEngine(g, s).attempt = "none"
<1>1. g \in 0 .. MaxEngines /\ KindOf[s] \in Kinds
  BY PlayerAssumption
<1> DEFINE a == [NoEngine EXCEPT !.gen = g]
           b == [a EXCEPT !.source = s]
           c == [b EXCEPT !.kind = KindOf[s]]
           d == [c EXCEPT !.phase = "script"]
<1>2. a \in EngineStates
  BY <1>1, NoEngineType DEF EngineStates
<1>3. b \in EngineStates
  <2> HIDE DEF a
  <2> QED
    BY <1>2 DEF EngineStates
<1>4. c \in EngineStates
  <2> HIDE DEF b
  <2> QED
    BY <1>1, <1>3 DEF EngineStates
<1>5. d \in EngineStates
  <2> HIDE DEF c
  <2> QED
    BY <1>4, Fields
<1>6. NewEngine(g, s) = d
  BY DEF NewEngine, NoEngine
<1>7. /\ d.gen = g /\ d.phase = "script" /\ d.kind = KindOf[s]
      /\ ~d.blocked /\ ~d.verifying /\ d.attempt = "none"
  BY DEF NoEngine
<1> QED
  BY <1>5, <1>6, <1>7

LEMMA DestroyedType ==
  ASSUME NEW x \in Configs
  PROVE  /\ MediaDestroy(x).w \in WidgetStates
         /\ MediaDestroy(x).w.of = 0 /\ MediaDestroy(x).w.state = "none"
<1> DEFINE m == x.w.muted /\ x.e.attempt # "second"
           u == [x.w EXCEPT !.of = 0, !.state = "none", !.muted = m]
<1>1. MediaDestroy(x).w = u
  <2>1. MediaDestroy(x) = [x EXCEPT !.w = u]
    BY DEF MediaDestroy, Configs, WidgetStates
  <2> HIDE DEF u
  <2> QED
    BY <2>1 DEF Configs
<1>2. m \in BOOLEAN /\ 0 \in 0 .. MaxEngines
  BY PlayerAssumption
<1> HIDE DEF m
<1>3. u \in WidgetStates /\ u.of = 0 /\ u.state = "none"
  BY <1>2 DEF Configs, WidgetStates
<1> QED
  BY <1>1, <1>3

(* The page as the cleanup leaves it.                                       *)
LEMMA UnmountedGood ==
  ASSUME NEW x, Good(x)
  PROVE  /\ Good(Unmounted(x)) /\ Unmounted(x).p = x.p
         /\ Unmounted(x).w.of = 0 /\ Unmounted(x).w.state = "none"
<1> DEFINE v == IF x.e.kind \in EmbeddedKinds THEN NoWidget ELSE MediaDestroy(x).w
           y == [x EXCEPT !.e = NoEngine, !.w = v]
<1>1. v \in WidgetStates /\ v.of = 0 /\ v.state = "none"
  BY DestroyedType, NewWidgets DEF NoWidget, Good, Sturdy
<1>2. Unmounted(x) = y
  BY DEF Unmounted
<1> HIDE DEF v
<1>3. y \in Configs
  BY <1>1, NoEngineType DEF Good, Sturdy, Configs
<1>4. y.e = NoEngine /\ y.w = v /\ y.p = x.p
  BY DEF Good, Sturdy, Configs
<1> HIDE DEF y
<1>5. Good(y)
  BY <1>1, <1>3, <1>4 DEF NoEngine, Good, Sturdy, Drawn, Absent, Told, Tried, Hushed
<1> QED
  BY <1>1, <1>2, <1>4, <1>5

LEMMA EmptiedGood ==
  ASSUME NEW x, Good(x) PROVE Good([Unmounted(x) EXCEPT !.w = NoWidget])
<1> DEFINE u == Unmounted(x)
           y == [u EXCEPT !.w = NoWidget]
<1>1. Good(u) /\ u.e = NoEngine
  BY UnmountedGood DEF Unmounted, Good, Sturdy, Configs
<1> HIDE DEF u
<1>2. y \in Configs /\ y.e = NoEngine /\ y.w = NoWidget /\ y.p = u.p
  BY <1>1, NewWidgets DEF Good, Sturdy, Configs
<1> HIDE DEF y
<1>3. Good(y)
  BY <1>1, <1>2 DEF NoEngine, NoWidget, Good, Sturdy, Drawn, Absent, Told, Tried, Hushed
<1> QED
  BY <1>3 DEF y, u

LEMMA FreshPanelType ==
  ASSUME NEW p \in PanelStates
  PROVE  FreshPanel(p) \in PanelStates /\ FreshPanel(p).readies = 0
<1> DEFINE q == [InitPanel EXCEPT !.buffering = TRUE]
           z == [q EXCEPT !.muted = p.muted]
<1>1. InitPanel \in PanelStates
  BY PlayerAssumption DEF InitPanel, PanelStates
<1>2. q \in PanelStates
  BY <1>1, Panels
<1>3. z \in PanelStates
  <2> HIDE DEF q
  <2>1. p.muted \in BOOLEAN
    BY DEF PanelStates
  <2> QED
    BY <1>2, <2>1, Panels
<1>4. FreshPanel(p) = z
  BY DEF FreshPanel
<1>5. FreshPanel(p).readies = 0
  BY DEF FreshPanel, InitPanel
<1> QED
  BY <1>3, <1>4, <1>5

LEMMA MountedGood ==
  ASSUME PlayerInv, built < MaxEngines, NEW s \in Sources
  PROVE  Good(Mounted(s)) /\ Mounted(s).e.attempt = "none"
<1> DEFINE u == Unmounted(X)
           f == NewEngine(built + 1, s)
           q == FreshPanel(u.p)
           x == [u EXCEPT !.e = f, !.p = q]
           y == CASE KindOf[s] = "youtube" -> YouTubeNew(x)
                  [] KindOf[s] = "twitch"  -> TwitchNew(x)
                  [] KindOf[s] = "kick"    -> KickNew(x)
                  [] OTHER                 -> MediaNew(x)
<1>1. Good(u) /\ u.w.of = 0 /\ u.w.state = "none"
  BY UnmountedGood DEF PlayerInv
<1>2. built + 1 \in 1 .. MaxEngines
  BY PlayerAssumption DEF PlayerInv, Rest
<1>3. /\ f \in EngineStates /\ f.gen # 0 /\ f.phase = "script" /\ f.kind = KindOf[s]
      /\ ~f.blocked /\ ~f.verifying /\ f.attempt = "none"
  BY <1>2, NewEngineType
<1> HIDE DEF u
<1>4. q \in PanelStates /\ q.readies = 0
  BY <1>1, FreshPanelType DEF Good, Sturdy, Configs
<1> HIDE DEF f, q
<1>5. x \in Configs /\ x.e = f /\ x.w = u.w /\ x.p = q
  BY <1>1, <1>3, <1>4 DEF Good, Sturdy, Configs
<1> HIDE DEF x
<1>6. Good(x) /\ x.e.gen # 0 /\ x.e.phase = "script" /\ x.e.kind = KindOf[s]
  BY <1>1, <1>3, <1>4, <1>5 DEF Good, Sturdy, Drawn, Absent, Told, Tried, Hushed
<1>7. Good(y)
  BY <1>6, YouTubeNewGood, TwitchNewGood, KickNewGood, MediaNewGood
<1> HIDE DEF y
<1>8. Mounted(s) = y
  BY DEF Mounted, y, x, q, f, u
<1>9. y.e.attempt = "none"
  <2>1. x.e.attempt = "none" /\ x.e \in EngineStates /\ x \in Configs
    BY <1>3, <1>5 DEF Configs
  <2>2. ASSUME NEW z \in Configs, z.e.attempt = "none"
        PROVE  /\ [z EXCEPT !.e.phase = "failed"].e.attempt = "none"
               /\ \A g : OnError([z EXCEPT !.e.phase = "failed"], g).e.attempt = "none"
               /\ KickMount(z).e.attempt = "none" /\ MediaSrc(z).e.attempt = "none"
    BY <2>2 DEF OnError, KickMount, MediaSrc, Configs, EngineStates
  <2>3. ASSUME NEW b \in BOOLEAN
        PROVE  /\ [x EXCEPT !.e.buffering = b] \in Configs
               /\ [x EXCEPT !.e.buffering = b].e.attempt = "none"
               /\ [x EXCEPT !.e.muted = b] \in Configs
               /\ [x EXCEPT !.e.muted = b].e.attempt = "none"
               /\ [[x EXCEPT !.e.muted = b] EXCEPT !.e.playing = TRUE] \in Configs
               /\ [[x EXCEPT !.e.muted = b] EXCEPT !.e.playing = TRUE].e.attempt = "none"
    BY <2>1 DEF Configs, EngineStates
  <2>4. YouTubeNew(x).e.attempt = "none" /\ MediaNew(x).e.attempt = "none"
    BY <2>1, <2>2 DEF YouTubeNew, MediaNew
  <2>5. TwitchNew(x).e.attempt = "none"
    BY <2>2, <2>3 DEF TwitchNew
  <2>6. KickNew(x).e.attempt = "none"
    <3>1. PICK b \in BOOLEAN : b = ~activated
      OBVIOUS
    <3> QED
      BY <2>2, <2>3, <3>1 DEF KickNew
  <2> QED
    BY <2>4, <2>5, <2>6 DEF y
<1> QED
  BY <1>7, <1>8, <1>9

(* What the call of a destroyed adapter may have done to the page a new one *)
(* stands on: nothing the new one has told, and never a widget of its own.  *)
Passed(x, z) ==
  /\ z \in Configs /\ z.p.readies = x.p.readies /\ z.p.muted = x.p.muted
  /\ \/ z.w.of = 0 /\ z.w.state = "none"
     \/ z.w.of = x.w.of /\ (x.w.state = "none" => z.w.state = "none")

(* A <video>'s adapter once destroyed: no refusal reaches it any more.      *)
Deaf(z) == z.e.kind \notin EmbeddedKinds /\ z.e.blocked /\ z.e.attempt # "second"

LEMMA PassedGood ==
  ASSUME NEW x, Good(x), x.e.attempt = "none", NEW z, Passed(x, z)
  PROVE  Good([z EXCEPT !.e = x.e])
<1> DEFINE y == [z EXCEPT !.e = x.e]
<1>1. y \in Configs /\ y.e = x.e /\ y.w = z.w /\ y.p = z.p
  BY DEF Passed, Good, Sturdy, Configs
<1> HIDE DEF y
<1>2. Good(y)
  BY <1>1 DEF Passed, Good, Sturdy, Drawn, Absent, Told, Tried, Hushed
<1> QED
  BY <1>2 DEF y

LEMMA DeafWidget ==
  ASSUME NEW x, NEW z, Passed(x, z), Deaf(z), NEW v \in WidgetStates,
         NEW a \in {"none", "first"},
         v.of = z.w.of, z.w.state = "none" => v.state = "none"
  PROVE  /\ Passed(x, [z EXCEPT !.e.attempt = a, !.w = v])
         /\ Deaf([z EXCEPT !.e.attempt = a, !.w = v])
<1> DEFINE f == [z.e EXCEPT !.attempt = a]
           y == [z EXCEPT !.e = f, !.w = v]
<1>1. /\ f \in EngineStates /\ f.kind = z.e.kind /\ f.blocked = z.e.blocked
      /\ f.attempt = a
  <2>1. z.e \in EngineStates
    BY DEF Passed, Configs
  <2>2. f \in EngineStates
    BY <2>1, Fields
  <2> QED
    BY <2>1, <2>2 DEF EngineStates
<1>2. y = [z EXCEPT !.e.attempt = a, !.w = v]
  BY DEF Passed, Configs
<1> HIDE DEF f
<1>3. y \in Configs /\ y.e = f /\ y.w = v /\ y.p = z.p
  BY <1>1 DEF Passed, Configs
<1> HIDE DEF y
<1>4. Passed(x, y) /\ Deaf(y)
  BY <1>1, <1>3 DEF Passed, Deaf
<1> QED
  BY <1>2, <1>4

LEMMA DeafPlay ==
  ASSUME NEW x, NEW z, Passed(x, z), Deaf(z)
  PROVE  Passed(x, EnginePlay(z)) /\ Deaf(EnginePlay(z))
<1>1. EnginePlay(z) = MediaPlay(z)
  BY DEF EnginePlay, Deaf, EmbeddedKinds
<1> DEFINE v == Played(z.w, activated)
<1>2. v \in WidgetStates /\ v.of = z.w.of /\ (z.w.state = "none" => v.state = "none")
  BY Widgets DEF Played, Passed, Configs, WidgetStates
<1>3. /\ Passed(x, [z EXCEPT !.e.attempt = "first", !.w = v])
      /\ Deaf([z EXCEPT !.e.attempt = "first", !.w = v])
  <2> HIDE DEF v
  <2> QED
    BY <1>2, DeafWidget
<1>4. /\ Passed(x, [z EXCEPT !.e.attempt = "none", !.w = z.w])
      /\ Deaf([z EXCEPT !.e.attempt = "none", !.w = z.w])
  BY DeafWidget DEF Passed, Configs
<1>5. [z EXCEPT !.e.attempt = "none", !.w = z.w] = [z EXCEPT !.e.attempt = "none"]
  BY DEF Passed, Configs
<1>6. MediaCaught(z) = [z EXCEPT !.e.attempt = "none"]
  BY DEF MediaCaught, Deaf
<1>7. MediaPlay(z) = IF z.w.state \notin {"cued", "paused"} THEN z
                     ELSE IF MayPlay(z.w, activated)
                          THEN [z EXCEPT !.e.attempt = "first", !.w = v]
                          ELSE MediaCaught(z)
  BY DEF MediaPlay
<1> HIDE DEF v
<1> QED
  BY <1>1, <1>3, <1>4, <1>5, <1>6, <1>7

LEMMA DeafPause ==
  ASSUME NEW x, NEW z, Passed(x, z), Deaf(z)
  PROVE  Passed(x, EnginePause(z)) /\ Deaf(EnginePause(z))
<1>1. EnginePause(z) = MediaPause(z)
  BY DEF EnginePause, Deaf, EmbeddedKinds
<1> DEFINE v == Stopped(z.w)
           y == [z EXCEPT !.w = v]
<1>2. v \in WidgetStates /\ v.of = z.w.of /\ (z.w.state = "none" => v.state = "none")
  BY Widgets DEF Stopped, Passed, Configs, WidgetStates
<1> HIDE DEF v
<1>3. z.e.attempt \in {"none", "first"} /\ z.e = [z.e EXCEPT !.attempt = z.e.attempt]
  BY DEF Deaf, Passed, Configs, EngineStates
<1>4. y \in Configs /\ y.e = z.e /\ y.w = v /\ y.p = z.p
  BY <1>2 DEF Passed, Configs
<1> HIDE DEF y
<1>5. Passed(x, y) /\ Deaf(y)
  BY <1>2, <1>4 DEF Passed, Deaf
<1>6. /\ Passed(x, [y EXCEPT !.e.attempt = "none", !.w = v])
      /\ Deaf([y EXCEPT !.e.attempt = "none", !.w = v])
  BY <1>2, <1>4, <1>5, DeafWidget
<1>7. [y EXCEPT !.e.attempt = "none", !.w = v] = [y EXCEPT !.e.attempt = "none"]
  BY <1>4 DEF Configs
<1>8. MediaAborted(y) \in {y, [y EXCEPT !.e.attempt = "none"]}
  BY <1>5 DEF MediaAborted, MediaCaught, Deaf
<1>9. EnginePause(z) = IF z.w.state = "starting" THEN MediaAborted(y) ELSE y
  BY <1>1 DEF MediaPause, y, v
<1> QED
  BY <1>5, <1>6, <1>7, <1>8, <1>9

LEMMA DeafSeek ==
  ASSUME NEW x, NEW z, Passed(x, z), Deaf(z)
  PROVE  Passed(x, EngineSeek(z)) /\ Deaf(EngineSeek(z))
<1> DEFINE v == Sought(z.w)
           y == [z EXCEPT !.w = v]
<1>1. EngineSeek(z) = y
  BY DEF EngineSeek, MediaSeek, Deaf, EmbeddedKinds
<1>2. v \in WidgetStates /\ v.of = z.w.of /\ v.state = z.w.state
  BY Widgets DEF Sought, Passed, Configs, WidgetStates
<1> HIDE DEF v
<1>3. y \in Configs /\ y.e = z.e /\ y.w = v /\ y.p = z.p
  BY <1>2 DEF Passed, Configs
<1> HIDE DEF y
<1> QED
  BY <1>1, <1>2, <1>3 DEF Passed, Deaf

LEMMA DeafSetRate ==
  ASSUME NEW x, NEW z, Passed(x, z), Deaf(z), NEW r \in EngineRates
  PROVE  Passed(x, EngineSetRate(z, r)) /\ Deaf(EngineSetRate(z, r))
<1> DEFINE v == [z.w EXCEPT !.rate = r]
           y == [z EXCEPT !.w = v]
<1>1. EngineSetRate(z, r) = y
  BY DEF EngineSetRate, MediaSetRate, Deaf, EmbeddedKinds, Passed, Configs
<1>2. v \in WidgetStates /\ v.of = z.w.of /\ v.state = z.w.state
  <2>1. z.w \in WidgetStates
    BY DEF Passed, Configs
  <2>2. v \in WidgetStates
    BY <2>1, Widgets
  <2> QED
    BY <2>1, <2>2 DEF WidgetStates
<1> HIDE DEF v
<1>3. y \in Configs /\ y.e = z.e /\ y.w = v /\ y.p = z.p
  BY <1>2 DEF Passed, Configs
<1> HIDE DEF y
<1> QED
  BY <1>1, <1>2, <1>3 DEF Passed, Deaf

LEMMA DeafPush ==
  ASSUME NEW x, NEW z, Passed(x, z), Deaf(z), NEW a \in EngineRates, NEW r \in EngineRates
  PROVE  Passed(x, Push(z, a, r).x) /\ Push(z, a, r).a \in EngineRates
  BY DeafSetRate DEF Push

(* The loop, run once more over the <video>'s destroyed adapter.            *)
LEMMA DeafReconciled ==
  ASSUME NEW x, NEW z, Passed(x, z), Deaf(z), NEW tl, tl.rate \in NominalRates,
         NEW a \in EngineRates, NEW c
  PROVE  Passed(x, Reconciled(z, tl, a, c).x) /\ Reconciled(z, tl, a, c).a \in EngineRates
<1>1. /\ Passed(x, EnginePlay(z)) /\ Deaf(EnginePlay(z))
      /\ Passed(x, EnginePause(z)) /\ Deaf(EnginePause(z))
  BY DeafPlay, DeafPause
<1>2. Passed(x, HeldAt(EnginePause(z)))
  BY <1>1, DeafSeek DEF HeldAt
<1> DEFINE p == EnginePlay(z)
           far == Push(EngineSeek(p), a, tl.rate)
           near == Push(p, a, NudgedRate(p, tl.rate))
           on == Push(p, a, tl.rate)
           still == [x |-> z, a |-> a]
           held == [x |-> HeldAt(EnginePause(z)), a |-> a]
           edge == [x |-> IF tl.paused THEN EnginePause(z) ELSE EnginePlay(z), a |-> a]
<1>3. tl.rate \in EngineRates /\ NudgedRate(p, tl.rate) \in EngineRates
  BY Nudges DEF NudgedRate
<1>4. Passed(x, EngineSeek(p)) /\ Deaf(EngineSeek(p))
  BY <1>1, DeafSeek
<1>5. /\ Passed(x, far.x) /\ far.a \in EngineRates
      /\ Passed(x, near.x) /\ near.a \in EngineRates
      /\ Passed(x, on.x) /\ on.a \in EngineRates
  <2> HIDE DEF p
  <2>1. Passed(x, p) /\ Deaf(p)
    BY <1>1 DEF p
  <2> QED
    BY <1>3, <1>4, <2>1, DeafPush
<1>6. /\ Passed(x, still.x) /\ still.a \in EngineRates
      /\ Passed(x, held.x) /\ held.a \in EngineRates
      /\ Passed(x, edge.x) /\ edge.a \in EngineRates
  BY <1>1, <1>2
<1>7. Reconciled(z, tl, a, c) \in {still, held, edge, far, near, on}
  BY DEF Reconciled, Corrected
<1> HIDE DEF still, held, edge, far, near, on
<1> QED
  BY <1>5, <1>6, <1>7

(* And over Kick's: all it has left to do is to speak of buffering.         *)
LEMMA FramelessReconciled ==
  ASSUME NEW x, NEW z, Passed(x, z), z.e.kind = "kick", z.e.phase = "failed", ~z.e.player,
         NEW tl, NEW a, NEW c
  PROVE  Passed(x, Reconciled(z, tl, a, c).x) /\ Reconciled(z, tl, a, c).a = a
<1>1. /\ EnginePlay(z) = KickPlay(z) /\ EnginePause(z) = KickPause(z)
      /\ EngineLive(z.e) /\ (EngineReady(z.e) => z.e.announced)
      /\ \A y : y.e.kind = "kick" => EngineSeek(y) = y
  <2>1. EnginePlay(z) = KickPlay(z) /\ EnginePause(z) = KickPause(z)
    BY DEF EnginePlay, EnginePause
  <2>2. EngineLive(z.e)
    BY DEF EngineLive
  <2>3. EngineReady(z.e) => z.e.announced
    BY DEF EngineReady, KickReady
  <2>4. \A y : y.e.kind = "kick" => EngineSeek(y) = y
    BY DEF EngineSeek, KickSeek
  <2> QED
    BY <2>1, <2>2, <2>3, <2>4
<1>2. Passed(x, KickPlay(z))
  <2> DEFINE f == [z.e EXCEPT !.playing = TRUE]
             q == [z.p EXCEPT !.buffering = TRUE]
             y == [z EXCEPT !.e = f, !.p = q]
  <2>0. z.e \in EngineStates
    BY DEF Passed, Configs
  <2>1. f \in EngineStates /\ f.phase = "failed"
    <3>1. f \in EngineStates
      BY <2>0, Flags
    <3> QED
      BY <2>0, <3>1 DEF EngineStates
  <2>2. q \in PanelStates /\ q.readies = z.p.readies /\ q.muted = z.p.muted
    BY Panels DEF Passed, Configs, PanelStates
  <2>3. OnBufferingChange([z EXCEPT !.e.playing = TRUE], TRUE) = y
    BY DEF OnBufferingChange, Passed, Configs
  <2> HIDE DEF f, q
  <2>4. y \in Configs /\ y.e = f /\ y.w = z.w /\ y.p = q
    BY <2>1, <2>2 DEF Passed, Configs
  <2> HIDE DEF y
  <2>5. Passed(x, y) /\ KickMount(y) = y
    BY <2>1, <2>2, <2>4 DEF Passed, KickMount
  <2> QED
    BY <2>3, <2>5 DEF KickPlay
<1>3. ASSUME z.e.announced
      PROVE  Passed(x, KickPause(z)) /\ KickPause(z).e.kind = "kick"
  <2> DEFINE f == [z.e EXCEPT !.playing = FALSE, !.player = FALSE]
             y == [z EXCEPT !.e = f]
  <2>0. z.e \in EngineStates
    BY DEF Passed, Configs
  <2>1. /\ f \in EngineStates /\ f.announced /\ f.kind = "kick"
    <3>1. [z.e EXCEPT !.playing = FALSE] \in EngineStates
      BY <2>0, Flags
    <3>2. [[z.e EXCEPT !.playing = FALSE] EXCEPT !.player = FALSE] \in EngineStates
      BY <3>1, Flags
    <3> QED
      BY <1>3, <2>0, <3>2 DEF EngineStates
  <2>2. [z EXCEPT !.e.playing = FALSE, !.e.player = FALSE] = y
    BY DEF Passed, Configs
  <2> HIDE DEF f
  <2>3. y \in Configs /\ y.e = f /\ y.w = z.w /\ y.p = z.p
    BY <2>1 DEF Passed, Configs
  <2> HIDE DEF y
  <2>4. KickAnnounce(y) = y
    BY <2>1, <2>3 DEF KickAnnounce
  <2> DEFINE g == [f EXCEPT !.timer = FALSE]
             v == IF y.w.of = y.e.gen THEN NoWidget ELSE y.w
             q == [z.p EXCEPT !.buffering = FALSE]
             k == [y EXCEPT !.e = g, !.w = v, !.p = q]
  <2>5. g \in EngineStates /\ g.kind = "kick"
    <3>1. g \in EngineStates
      BY <2>1, Flags
    <3> QED
      BY <2>1, <3>1 DEF EngineStates
  <2>6. v \in WidgetStates
    BY <2>3, NewWidgets DEF Configs
  <2>7. q \in PanelStates /\ q.readies = z.p.readies /\ q.muted = z.p.muted
    BY Panels DEF Passed, Configs, PanelStates
  <2>8. OnBufferingChange(KickTeardown(y), FALSE) = k
    BY <2>3 DEF OnBufferingChange, KickTeardown, Configs
  <2>9. v = z.w \/ (v.of = 0 /\ v.state = "none")
    BY <2>3 DEF NoWidget
  <2> HIDE DEF g, v, q
  <2>10. k \in Configs /\ k.e = g /\ k.w = v /\ k.p = q
    BY <2>3, <2>5, <2>6, <2>7 DEF Configs
  <2> HIDE DEF k
  <2>11. Passed(x, k) /\ k.e.kind = "kick"
    BY <2>5, <2>7, <2>9, <2>10 DEF Passed
  <2> QED
    BY <2>2, <2>4, <2>8, <2>11 DEF KickPause
<1>4. z.e.announced => HeldAt(EnginePause(z)) = EnginePause(z)
  BY <1>1, <1>3 DEF HeldAt
<1> DEFINE still == [x |-> z, a |-> a]
           held == [x |-> HeldAt(EnginePause(z)), a |-> a]
           edge == [x |-> IF tl.paused THEN EnginePause(z) ELSE EnginePlay(z), a |-> a]
<1>5. CASE ~EngineReady(z.e)
  BY <1>5 DEF Reconciled
<1>6. CASE EngineReady(z.e)
  <2>1. z.e.announced
    BY <1>1, <1>6
  <2>2. Reconciled(z, tl, a, c) \in {still, held, edge}
    BY <1>1 DEF Reconciled
  <2>3. Passed(x, still.x) /\ Passed(x, held.x) /\ Passed(x, edge.x)
    BY <1>1, <1>2, <1>3, <1>4, <2>1
  <2>4. still.a = a /\ held.a = a /\ edge.a = a
    OBVIOUS
  <2> HIDE DEF still, held, edge
  <2> QED
    BY <2>2, <2>3, <2>4
<1> QED
  BY <1>5, <1>6

LEMMA DestroyedState ==
  ASSUME NEW e \in EngineStates
  PROVE  /\ Destroyed(e) \in EngineStates /\ Destroyed(e).kind = e.kind
         /\ Destroyed(e).phase = "failed" /\ Destroyed(e).blocked
         /\ Destroyed(e).attempt = "none"
         /\ Destroyed(e).player = (e.player /\ e.kind \notin EmbeddedKinds)
<1>1. PICK p \in BOOLEAN : p = (e.player /\ e.kind \notin EmbeddedKinds)
  OBVIOUS
<1>2. (e.kind \in {"hls", "dash"}) \in BOOLEAN
  OBVIOUS
<1>5. PICK l \in BOOLEAN : l = (e.kind \in {"hls", "dash"})
  BY <1>2
<1> DEFINE f == [e EXCEPT !.phase = "failed", !.blocked = TRUE, !.attempt = "none",
                          !.player = p, !.live = l]
<1>3. Destroyed(e) = f
  BY <1>1, <1>5 DEF Destroyed, EngineStates
<1>4. /\ f \in EngineStates /\ f.kind = e.kind /\ f.phase = "failed" /\ f.blocked
      /\ f.attempt = "none" /\ f.player = p
  BY DEF EngineStates
<1> QED
  BY <1>1, <1>3, <1>4

(* The commit that brings a new source: whatever the engine just destroyed  *)
(* still does, the page of the new one stays good.                          *)
LEMMA StaleTickGood ==
  ASSUME Good(X), applied \in EngineRates, NEW x, Good(x), x.e.attempt = "none",
         NEW tl, tl.rate \in NominalRates, NEW c
  PROVE  Good(StaleTick(x, tl, c).x) /\ StaleTick(x, tl, c).a \in EngineRates
<1> DEFINE d == Destroyed(eng)
           z == [x EXCEPT !.e = d]
           stale == Reconciled(z, tl, applied, c)
<1>1. /\ d \in EngineStates /\ d.kind = eng.kind /\ d.phase = "failed" /\ d.blocked
      /\ d.attempt = "none" /\ d.player = (eng.player /\ eng.kind \notin EmbeddedKinds)
  BY DestroyedState DEF X, Good, Sturdy, Configs
<1> HIDE DEF d
<1>2. z \in Configs /\ z.e = d /\ z.w = x.w /\ z.p = x.p
  BY <1>1 DEF Good, Sturdy, Configs
<1> HIDE DEF z
<1>3. Passed(x, z)
  BY <1>2 DEF Passed
<1>4. Passed(x, stale.x) /\ stale.a \in EngineRates
  <2>1. CASE eng.kind \notin EmbeddedKinds
    <3>1. Deaf(z)
      BY <1>1, <1>2, <2>1 DEF Deaf
    <3> QED
      BY <1>3, <3>1, DeafReconciled
  <2>2. CASE eng.kind = "kick"
    <3>1. z.e.kind = "kick" /\ z.e.phase = "failed" /\ ~z.e.player
      BY <1>1, <1>2, <2>2 DEF EmbeddedKinds
    <3> QED
      BY <1>3, <3>1, FramelessReconciled
  <2>3. CASE eng.kind \in {"youtube", "twitch"}
    <3>1. ~EngineReady(z.e)
      BY <1>1, <1>2, <2>3 DEF EngineReady, EmbeddedKinds
    <3>2. stale = [x |-> z, a |-> applied]
      BY <3>1 DEF Reconciled
    <3> QED
      BY <1>3, <3>2
  <2> QED
    BY <2>1, <2>2, <2>3 DEF EmbeddedKinds
<1> HIDE DEF stale
<1>5. Good([stale.x EXCEPT !.e = x.e])
  BY <1>4, PassedGood
<1>6. StaleTick(x, tl, c) =
        [x |-> IF Reaches(eng, x.e) THEN [stale.x EXCEPT !.e = x.e] ELSE x, a |-> stale.a]
  BY DEF StaleTick, stale, z, d
<1> QED
  BY <1>4, <1>5, <1>6

LEMMA OrphanedType ==
  ASSUME PlayerInv PROVE Orphaned \subseteq [gen : 1..MaxEngines, kind : Scripts]
<1>1. eng.phase = "script" => eng.gen \in 1 .. MaxEngines
  BY PlayerAssumption DEF PlayerInv, X, Good, Sturdy, Absent, Configs, EngineStates
<1> QED
  BY <1>1 DEF Orphaned, PlayerInv, Rest

LEMMA RequestType ==
  ASSUME Rest, NEW w \in Scripts
  PROVE  Request(w) \in [Scripts -> {"idle", "loading", "loaded", "failed"}]
  BY DEF Rest, Request

LEMMA AskedType ==
  ASSUME Rest, NEW s
  PROVE  Asked(s) \in [Scripts -> {"idle", "loading", "loaded", "failed"}]
<1>1. scripts \in [Scripts -> {"idle", "loading", "loaded", "failed"}]
  BY DEF Rest
<1>2. /\ "youtube" \in Scripts /\ "twitch" \in Scripts
      /\ KindOf[s] \in {"hls", "dash"} => KindOf[s] \in Scripts
  BY DEF Scripts
<1> QED
  BY <1>1, <1>2, RequestType DEF Asked, LoadYouTubeApi, LoadTwitchEmbed

TimelineType == [source : Sources \cup {NoSource}, paused : BOOLEAN,
                 awaiting : BOOLEAN, rate : NominalRates]

(* A timeline that arrives: another engine, or the loop over this one.      *)
LEMMA ArriveStep ==
  ASSUME PlayerInv, NEW tl \in TimelineType, Arrive(tl),
         tl.source \in Sources \/ tl.source = room.source
  PROVE  PlayerInv'
<1>1. room' \in TimelineType /\ arrivals' \in 0 .. MaxArrivals /\ activated' \in BOOLEAN
  BY PlayerBoundsAssumption DEF PlayerBoundsAssumption, Arrive, PlayerInv, Rest
<1>2. tl.rate \in NominalRates
  BY DEF TimelineType
<1>3. CASE tl.source = room.source
  <2>1. PICK c \in BOOLEAN :
          LET t == Reconciled(X, tl, applied, c) IN Becomes(t.x) /\ applied' = t.a
    BY <1>3 DEF Arrive, Apply
  <2> DEFINE t == Reconciled(X, tl, applied, c)
  <2>2. Good(t.x) /\ t.a \in EngineRates
    BY <1>2, ReconciledGood DEF PlayerInv, Rest
  <2>3. Becomes(t.x) /\ applied' = t.a
    BY <2>1
  <2> HIDE DEF t
  <2>4. Good(X)'
    BY <2>2, <2>3, Carried
  <2>5. Rest'
    BY <1>1, <1>3, <2>2, <2>3 DEF Arrive, Apply, TimelineType, PlayerInv, Rest
  <2> QED
    BY <2>4, <2>5 DEF PlayerInv
<1>4. CASE tl.source # room.source
  <2>1. /\ built < MaxEngines /\ built' = built + 1
        /\ orphans' = Orphaned /\ scripts' = Asked(tl.source)
    BY <1>4 DEF Arrive, Mount
  <2>6. PICK c \in BOOLEAN : LET t == StaleTick(Mounted(tl.source), tl, c)
                             IN  Becomes(t.x) /\ applied' = t.a
    BY <1>4 DEF Arrive, Mount
  <2> DEFINE t == StaleTick(Mounted(tl.source), tl, c)
  <2>7. Good(Mounted(tl.source)) /\ Mounted(tl.source).e.attempt = "none"
    BY <1>4, <2>1, MountedGood
  <2>10. Good(X) /\ applied \in EngineRates
    BY DEF PlayerInv, Rest
  <2>8. Good(t.x) /\ t.a \in EngineRates
    <3> DEFINE m == Mounted(tl.source)
    <3>1. Good(m) /\ m.e.attempt = "none" /\ t = StaleTick(m, tl, c)
      BY <2>7
    <3> HIDE DEF m, t
    <3> QED
      BY <1>2, <2>10, <3>1, StaleTickGood
  <2>9. Becomes(t.x) /\ applied' = t.a
    BY <2>6
  <2> HIDE DEF t
  <2>2. Good(X)'
    BY <2>8, <2>9, Carried
  <2>3. scripts' \in [Scripts -> {"idle", "loading", "loaded", "failed"}]
    BY <2>1, AskedType DEF PlayerInv
  <2>4. orphans' \subseteq [gen : 1..MaxEngines, kind : Scripts]
    BY <2>1, OrphanedType
  <2>5. built' \in 0 .. MaxEngines /\ applied' \in EngineRates
    BY <2>1, <2>8, <2>9, PlayerAssumption DEF PlayerInv, Rest
  <2> QED
    BY <1>1, <2>2, <2>3, <2>4, <2>5 DEF TimelineType, PlayerInv, Rest
<1> QED
  BY <1>3, <1>4

LEMMA TimelinesStep ==
  ASSUME PlayerInv, Timelines PROVE PlayerInv'
<1>1. room \in TimelineType /\ applied \in EngineRates
  BY DEF PlayerInv, Rest, TimelineType
<1>2. ASSUME NEW s \in Sources, NEW p \in BOOLEAN, NEW h \in BOOLEAN, NEW r \in NominalRates,
             Arrive([source |-> s, paused |-> p, awaiting |-> h, rate |-> r])
      PROVE  PlayerInv'
  <2> DEFINE tl == [source |-> s, paused |-> p, awaiting |-> h, rate |-> r]
  <2>1. tl \in TimelineType /\ tl.source \in Sources
    BY DEF TimelineType
  <2>2. Arrive(tl)
    BY <1>2
  <2> HIDE DEF tl
  <2> QED
    BY <2>1, <2>2, ArriveStep
<1>3. ASSUME NEW tl \in TimelineType, tl.source = room.source, Arrive(tl)
      PROVE  PlayerInv'
  BY <1>3, ArriveStep
<1>4. CASE Found
  BY <1>2, <1>4 DEF Found
<1>5. CASE FoundAgain
  BY <1>1, <1>2, <1>5 DEF FoundAgain, TimelineType
<1>6. CASE Cued
  BY <1>1, <1>2, <1>6 DEF Cued, TimelineType
<1>7. CASE Started
  <2>1. PICK tl : tl = [room EXCEPT !.awaiting = FALSE, !.paused = FALSE]
    OBVIOUS
  <2>2. tl \in TimelineType /\ tl.source = room.source
    BY <1>1, <2>1 DEF TimelineType
  <2> QED
    BY <1>3, <1>7, <2>1, <2>2 DEF Started
<1>8. CASE Toggled
  <2>1. PICK tl : tl = [room EXCEPT !.paused = ~@]
    OBVIOUS
  <2>2. tl \in TimelineType /\ tl.source = room.source
    <3>1. PICK b \in BOOLEAN : b = ~room.paused
      OBVIOUS
    <3>2. tl = [room EXCEPT !.paused = b]
      BY <2>1, <3>1
    <3> QED
      BY <1>1, <3>2 DEF TimelineType
  <2> QED
    BY <1>3, <1>8, <2>1, <2>2 DEF Toggled
<1>9. CASE Rated
  <2>1. PICK r \in NominalRates : Arrive([room EXCEPT !.rate = r])
    BY <1>9 DEF Rated
  <2>2. PICK tl : tl = [room EXCEPT !.rate = r]
    OBVIOUS
  <2>3. tl \in TimelineType /\ tl.source = room.source
    BY <1>1, <2>2 DEF TimelineType
  <2> QED
    BY <1>3, <2>1, <2>2, <2>3
<1>10. CASE Emptied
  <2>1. Good(X)'
    BY <1>10, EmptiedGood, Carried DEF Emptied, PlayerInv
  <2>2. room' \in TimelineType
    BY <1>10, PlayerAssumption DEF Emptied, IdleRoom, TimelineType
  <2>3. orphans' \subseteq [gen : 1..MaxEngines, kind : Scripts]
    BY <1>10, OrphanedType DEF Emptied
  <2>4. arrivals' \in 0 .. MaxArrivals
    BY <1>10, PlayerBoundsAssumption DEF PlayerBoundsAssumption, Emptied, PlayerInv, Rest
  <2> QED
    BY <1>10, <2>1, <2>2, <2>3, <2>4 DEF Emptied, TimelineType, PlayerInv, Rest
<1>11. CASE Jumped
  <2> DEFINE x == [X EXCEPT !.w.off = "far"]
             t == Reconciled(x, room, applied, FALSE)
  <2>1. Good(x)
    BY MovedGood DEF PlayerInv
  <2>2. room.rate \in NominalRates
    BY <1>1 DEF TimelineType
  <2> HIDE DEF x
  <2>3. Good(t.x) /\ t.a \in EngineRates
    BY <1>1, <2>1, <2>2, ReconciledGood
  <2> HIDE DEF t
  <2>4. Becomes(t.x) /\ applied' = t.a
    BY <1>11 DEF Jumped, t, x
  <2>5. Good(X)'
    BY <2>3, <2>4, Carried
  <2>6. arrivals' \in 0 .. MaxArrivals
    BY <1>11, PlayerBoundsAssumption DEF PlayerBoundsAssumption, Jumped, PlayerInv, Rest
  <2> QED
    BY <1>11, <2>3, <2>4, <2>5, <2>6 DEF Jumped, pageVars, PlayerInv, Rest
<1> QED
  BY <1>4, <1>5, <1>6, <1>7, <1>8, <1>9, <1>10, <1>11 DEF Timelines

LEMMA TickStep ==
  ASSUME PlayerInv, Tick, UNCHANGED <<built, arrivals>> PROVE PlayerInv'
<1> DEFINE x == [X EXCEPT !.w = Drifted(@)]
           t == Reconciled(x, room, applied, TRUE)
<1>1. Good(x)
  BY DriftedGood DEF PlayerInv
<1>2. room.rate \in NominalRates /\ applied \in EngineRates
  BY DEF PlayerInv, Rest
<1> HIDE DEF x
<1>3. Good(t.x) /\ t.a \in EngineRates
  BY <1>1, <1>2, ReconciledGood
<1> HIDE DEF t
<1>4. Becomes(t.x) /\ applied' = t.a
  BY DEF Tick, t, x
<1>5. Good(X)'
  BY <1>3, <1>4, Carried
<1> QED
  BY <1>3, <1>4, <1>5 DEF Tick, pageVars, PlayerInv, Rest

------------------------------------------------------------------------------
(* Scripts, the adapters' own steps and the viewer.                         *)

LEMMA ScriptsStep ==
  ASSUME PlayerInv, ScriptLoads \/ ScriptFails PROVE PlayerInv'
<1>1. X' = X
  BY DEF ScriptLoads, ScriptFails, X
<1>2. Good(X)'
  BY <1>1 DEF PlayerInv
<1>3. scripts' \in [Scripts -> {"idle", "loading", "loaded", "failed"}]
  BY DEF ScriptLoads, ScriptFails, PlayerInv, Rest
<1> QED
  BY <1>2, <1>3 DEF ScriptLoads, ScriptFails, roomVars, PlayerInv, Rest

LEMMA OrphansStep ==
  ASSUME PlayerInv, OrphanResumes \/ OrphanCannotLoad PROVE PlayerInv'
<1>1. orphans' \subseteq orphans
  BY DEF OrphanResumes, OrphanCannotLoad
<1>2. Good(X)'
  <2>1. CASE OrphanResumes
    <3>1. X' = X
      BY <2>1 DEF OrphanResumes, X
    <3> QED
      BY <3>1 DEF PlayerInv
  <2>2. CASE OrphanCannotLoad
    <3>1. PICK o \in orphans : Becomes(OnError(X, o.gen))
      BY <2>2 DEF OrphanCannotLoad
    <3>2. o.gen \in 0 .. MaxEngines
      BY DEF PlayerInv, Rest
    <3> QED
      BY <3>1, <3>2, ErrorGood, Carried DEF PlayerInv
  <2> QED
    BY <2>1, <2>2
<1> QED
  BY <1>1, <1>2 DEF OrphanResumes, OrphanCannotLoad, roomVars, PlayerInv, Rest

LEMMA EngineStepStep ==
  ASSUME PlayerInv, EngineStep PROVE PlayerInv'
<1> USE DEF PlayerInv
<1>1. CASE YouTubeStep
  <2>1. Good(X)'
    BY <1>1, YouTubeCreateStep, YouTubeFailStep, YouTubeReadyStep, YouTubeStallsStep,
       YouTubePlaysStep, YouTubeVerifyStep DEF YouTubeStep
  <2>2. UNCHANGED pageVars
    BY <1>1 DEF YouTubeStep, YouTubeCreate, YouTubeUnavailable, YouTubeReady, YouTubeStalls,
       YouTubePlays, YouTubeFails, YouTubeVerify
  <2> QED
    BY <2>1, <2>2 DEF EngineStep, pageVars, roomVars, Rest
<1>2. CASE TwitchStep
  <2>1. Good(X)'
    BY <1>2, TwitchCreateStep, TwitchFailStep, TwitchReadyStep, TwitchPlaysStep,
       TwitchStallsStep, TwitchVerifyStep DEF TwitchStep
  <2>2. UNCHANGED pageVars
    BY <1>2 DEF TwitchStep, TwitchCreate, TwitchUnavailable, TwitchReady, TwitchPlays,
       TwitchStalls, TwitchOffline, TwitchVerify
  <2> QED
    BY <2>1, <2>2 DEF EngineStep, pageVars, roomVars, Rest
<1>3. CASE KickLoads \/ KickUnreachable
  <2>1. Good(X)'
    BY <1>3, KickLoadsStep, KickUnreachableStep
  <2>2. UNCHANGED pageVars
    BY <1>3 DEF KickLoads, KickUnreachable
  <2> QED
    BY <2>1, <2>2 DEF EngineStep, pageVars, roomVars, Rest
<1>4. CASE MediaStep
  <2>1. Good(X)'
    BY <1>4, MediaAttachStep, HlsErrorStep, MediaLoadsStep, MediaWaitsStep,
       MediaPlaysStep DEF MediaStep
  <2>2. UNCHANGED pageVars
    BY <1>4 DEF MediaStep, MediaAttach, HlsNetworkError, HlsMediaError, HlsFatalError,
       MediaLoads, MediaWaits, MediaPlays, MediaFails
  <2> QED
    BY <2>1, <2>2 DEF EngineStep, pageVars, roomVars, Rest
<1> QED
  BY <1>1, <1>2, <1>3, <1>4 DEF EngineStep

(* The viewer sets the panel and the engine at once, to the same.           *)
(* The store's half of a press: the button as it shall show.               *)
Shown(x, m, b) == [x EXCEPT !.p.muted = m, !.p.audioBlocked = b]

LEMMA ShownGood ==
  ASSUME NEW x, Good(x), NEW m \in BOOLEAN, NEW b \in BOOLEAN
  PROVE  /\ Sturdy(Shown(x, m, b)) /\ Shown(x, m, b).p.muted = m /\ Shown(x, m, b).e = x.e
         /\ x.e.gen = 0 => Good(Shown(x, m, b))
<1> DEFINE y == Shown(x, m, b)
<1>1. y \in Configs
  BY Panels DEF Shown, Good, Sturdy, Configs
<1>2. y.p.muted = m /\ y.p.readies = x.p.readies /\ y.e = x.e /\ y.w = x.w
  BY DEF Shown, Good, Sturdy, Configs, PanelStates
<1> HIDE DEF y
<1>3. Sturdy(y)
  BY <1>1, <1>2, PanelOnly DEF Good
<1>4. x.e.gen = 0 => Good(y)
  BY <1>2, <1>3 DEF Good, Sturdy, Absent, Hushed
<1> QED
  BY <1>2, <1>3, <1>4 DEF y

LEMMA ClickStep ==
  ASSUME PlayerInv, NEW x, Good(x), Click(x) PROVE PlayerInv'
<1>1. Good(X)'
  BY Carried DEF Click
<1> QED
  BY <1>1 DEF Click, pageVars, roomVars, PlayerInv, Rest

LEMMA ViewerStep ==
  ASSUME PlayerInv, Viewer PROVE PlayerInv'
<1>1. panel \in PanelStates /\ X.p = panel /\ X.e = eng
  BY DEF PlayerInv, X, Good, Sturdy, Configs
<1>2. CASE Touch
  <2>1. X' = X
    BY <1>2 DEF Touch, X
  <2>2. Good(X)'
    BY <2>1 DEF PlayerInv
  <2> QED
    BY <1>2, <2>2 DEF Touch, roomVars, PlayerInv, Rest
<1>3. ASSUME NEW m \in BOOLEAN, NEW b \in BOOLEAN,
             Click(OnEngine(Shown(X, m, b), EngineSetMuted(Shown(X, m, b), m)))
      PROVE  PlayerInv'
  <2> DEFINE x == Shown(X, m, b)
  <2>1. Click(OnEngine(x, EngineSetMuted(x, m)))
    BY <1>3
  <2>2. Sturdy(x) /\ x.p.muted = m /\ x.e = X.e /\ (X.e.gen = 0 => Good(x))
    BY ShownGood DEF PlayerInv
  <2> HIDE DEF x
  <2>3. Good(EngineSetMuted(x, m))
    BY <2>2, SetMutedGood
  <2>4. Good(OnEngine(x, EngineSetMuted(x, m)))
    BY <2>2, <2>3 DEF OnEngine
  <2> QED
    BY <2>1, <2>4, ClickStep
<1>4. CASE ToggleMute
  <2>1. PICK m \in BOOLEAN : m = ~panel.muted
    OBVIOUS
  <2>2. PICK b \in BOOLEAN : b = (panel.audioBlocked /\ m)
    OBVIOUS
  <2>3. [X EXCEPT !.p.muted = m, !.p.audioBlocked = @ /\ m]
          = Shown(X, m, b)
    BY <2>2 DEF Shown, X
  <2> QED
    BY <1>3, <1>4, <2>1, <2>3 DEF ToggleMute
<1>5. CASE ApplyVolume
  <2>1. PICK m \in BOOLEAN :
          LET x == [X EXCEPT !.p.muted = m, !.p.audioBlocked = @ /\ m]
          IN  Click(OnEngine(x, EngineSetMuted(x, m)))
    BY <1>5 DEF ApplyVolume
  <2>2. PICK b \in BOOLEAN : b = (panel.audioBlocked /\ m)
    OBVIOUS
  <2>3. [X EXCEPT !.p.muted = m, !.p.audioBlocked = @ /\ m]
          = Shown(X, m, b)
    BY <2>2 DEF Shown, X
  <2> QED
    BY <1>3, <2>1, <2>3
<1>6. CASE RestoreAudio
  <2> DEFINE x == Shown(X, FALSE, FALSE)
  <2>1. [X EXCEPT !.p.audioBlocked = FALSE, !.p.muted = FALSE] = x
    BY <1>1 DEF Shown, X, PanelStates
  <2>2. Sturdy(x) /\ x.p.muted = FALSE /\ x.e = X.e /\ (X.e.gen = 0 => Good(x))
    BY ShownGood DEF PlayerInv
  <2> HIDE DEF x
  <2>3. Good(EnginePlay(EngineSetMuted(x, FALSE)))
    BY <2>2, SetMutedGood, PlayGood
  <2>4. Good(OnEngine(x, EnginePlay(EngineSetMuted(x, FALSE))))
    BY <2>2, <2>3 DEF OnEngine
  <2>5. Click(OnEngine(x, EnginePlay(EngineSetMuted(x, FALSE))))
    BY <1>6, <2>1 DEF RestoreAudio
  <2> QED
    BY <2>4, <2>5, ClickStep
<1>7. CASE KeyMute
  <2>1. Good(EngineSetMuted(X, TRUE))
    BY SetMutedGood DEF PlayerInv, Good
  <2> QED
    BY <1>7, <2>1, ClickStep DEF KeyMute
<1> QED
  BY <1>2, <1>4, <1>5, <1>6, <1>7 DEF Viewer

LEMMA InitInv == Init => PlayerInv
<1> SUFFICES ASSUME Init PROVE PlayerInv
  OBVIOUS
<1>1. X = [e |-> NoEngine, w |-> NoWidget, p |-> InitPanel]
  BY DEF Init, X
<1>2. InitPanel \in PanelStates
  BY PlayerAssumption DEF InitPanel, PanelStates
<1>3. X \in Configs
  BY <1>1, <1>2, NoEngineType, NewWidgets DEF Configs
<1>4. Good(X)
  BY <1>1, <1>3 DEF NoEngine, NoWidget, InitPanel, Good, Sturdy, Drawn, Absent, Told, Tried,
       Hushed
<1>5. scripts \in [Scripts -> {"idle", "loading", "loaded", "failed"}] /\ room \in TimelineType
  BY PlayerAssumption DEF Init, IdleRoom, TimelineType
<1>6. 0 \in 0 .. MaxEngines /\ 0 \in 0 .. MaxArrivals
  BY PlayerAssumption, PlayerBoundsAssumption DEF PlayerBoundsAssumption
<1>7. applied \in EngineRates
  BY SpeedOne DEF Init
<1>8. Rest
  BY <1>5, <1>6, <1>7 DEF Init, Rest, TimelineType
<1> QED
  BY <1>4, <1>8 DEF PlayerInv

LEMMA NextInv == ASSUME PlayerInv, [Next]_playerVars PROVE PlayerInv'
<1>1. CASE Next
  BY <1>1, TimelinesStep, ViewerStep, EngineStepStep, ScriptsStep, OrphansStep, TickStep DEF
       Next
<1>2. CASE UNCHANGED playerVars
  <2>1. X' = X
    BY <1>2 DEF playerVars, X
  <2>2. Good(X)'
    BY <2>1 DEF PlayerInv
  <2> QED
    BY <1>2, <2>2 DEF playerVars, PlayerInv, Rest
<1> QED
  BY <1>1, <1>2

(* The inductive invariant, of the specification with or without fairness.  *)
THEOREM PlayerInvariant == Spec => []PlayerInv
<1>1. Init => PlayerInv
  BY InitInv
<1>2. PlayerInv /\ [Next]_playerVars => PlayerInv'
  BY NextInv
<1> QED
  BY <1>1, <1>2, PTL DEF Spec

(* Every variable of the player keeps its type: the engine that was built,   *)
(* what it drew, the panel, and the rate last pushed, whatever the nudges.  *)
THEOREM PlayerTypes == Spec => []PlayerTypeOK
<1>1. PlayerInv => PlayerTypeOK
  BY DEF PlayerInv, Rest, PlayerTypeOK, X, Good, Sturdy, Configs
<1> QED
  BY <1>1, PlayerInvariant, PTL

(* A destroyed engine leaves nothing on the page and draws nothing later    *)
(* (the #destroyed checks of the adapters, the cleanup of player.tsx).      *)
THEOREM OneWidgetAlways == Spec => []OneWidget
<1>1. PlayerInv => OneWidget
  BY DEF PlayerInv, OneWidget, X, Good, Sturdy, Drawn
<1> QED
  BY <1>1, PlayerInvariant, PTL

(* playback_ready is sent once per engine, whichever of the events that     *)
(* prove it arrives first and however often they repeat (#markReady,        *)
(* #announced).                                                             *)
THEOREM ReadyOnceAlways == Spec => []ReadyOnce
<1>1. PlayerInv => ReadyOnce
  BY DEF PlayerInv, ReadyOnce, X, Good, Sturdy, Told
<1> QED
  BY <1>1, PlayerInvariant, PTL

(* A start that succeeded only silently is shown as muted, so that one      *)
(* press brings the sound back (onAudioBlocked of engine.ts).               *)
THEOREM SilenceOffered == Spec => []SilenceIsOffered
<1>1. PlayerInv => SilenceIsOffered
  BY DEF PlayerInv, SilenceIsOffered, X, Good, Hushed
<1> QED
  BY <1>1, PlayerInvariant, PTL
=============================================================================
