--------------------------- MODULE TimelineLemmas ---------------------------
(***************************************************************************)
(* What every method of the timeline does to it, whatever the clock reads: *)
(* the facts the proofs about TimelineMachine and RoomPlayback share.      *)
(***************************************************************************)
EXTENDS Timeline, TLAPS

\* A hold that is in force keeps the video loaded, paused and at its start.
Held(t) == t.awaiting => IsLoaded(t) /\ t.paused /\ t.pos = 0

\* u is t after one method called at clock reading n: still a timeline, either
\* unchanged or numbered one higher, anchored where it was or at n, and
\* holding properly if t was.
Change(t, u, n) ==
  /\ u \in Timelines
  /\ u = t \/ u.version = t.version + 1
  /\ u.at = t.at \/ u.at = n
  /\ u.cuedAt = t.cuedAt \/ u.cuedAt = n
  /\ Held(t) => Held(u)

------------------------------------------------------------------------------
\* Clamping yields a position, inside the video when its end is known.
LEMMA ClampedType ==
  ASSUME NEW t \in Timelines, NEW p \in Int
  PROVE  /\ Clamped(t, p) \in Nat
         /\ t.duration > 0 => Clamped(t, p) <= t.duration
         /\ p = 0 => Clamped(t, p) = 0
BY DEF Clamped, Timelines

LEMMA RateType == ASSUME NEW r \in Rates PROVE r \in Int
BY TimelineAssumption

LEMMA ExtrapolatedType ==
  ASSUME NEW t \in Timelines, NEW n \in Nat
  PROVE  Extrapolated(t, n) \in Int
<1>1. t.pos \in Int /\ t.at \in Int /\ t.rate \in Rates
  BY DEF Timelines
<1>2. t.rate \in Int
  BY <1>1, RateType
<1>3. n - t.at \in Int
  BY <1>1
<1>4. \A x, y \in Int : x * y \in Int
  OBVIOUS
<1>5. (n - t.at) * t.rate \in Int
  BY <1>2, <1>3, <1>4
<1> QED
  BY <1>1, <1>5 DEF Extrapolated

LEMMA PositionType ==
  ASSUME NEW t \in Timelines, NEW n \in Nat
  PROVE  /\ PositionAt(t, n) \in Nat
         /\ t.paused /\ t.pos = 0 => PositionAt(t, n) = 0
<1>1. t.pos \in Int
  BY DEF Timelines
<1>2. Clamped(t, t.pos) \in Nat /\ (t.pos = 0 => Clamped(t, t.pos) = 0)
  BY <1>1, ClampedType
<1>3. Clamped(t, Extrapolated(t, n)) \in Nat
  BY ClampedType, ExtrapolatedType
<1> QED
  BY <1>2, <1>3 DEF PositionAt

LEMMA NextNumber ==
  ASSUME NEW t \in Timelines
  PROVE  t.version + 1 \in Nat
BY DEF Timelines

LEMMA IdleType == ASSUME NEW n \in Nat PROVE Idle(n) \in Timelines
BY TimelineAssumption DEF Idle, Timelines

LEMMA WireType ==
  ASSUME NEW t \in Timelines
  PROVE  Wire(t) \in Timelines /\ Wire(t).version = t.version
BY DEF Wire, Timelines

\* Re-anchoring changes the anchor and the number, nothing else.
LEMMA ReanchorChange ==
  ASSUME NEW t \in Timelines, NEW n \in Nat
  PROVE  /\ Reanchor(t, n) \in Timelines
         /\ Reanchor(t, n).version = t.version + 1
         /\ Reanchor(t, n).at = n
         /\ Reanchor(t, n).cuedAt = t.cuedAt
         /\ Reanchor(t, n).item = t.item
         /\ Reanchor(t, n).duration = t.duration
         /\ Reanchor(t, n).pos = PositionAt(t, n)
         /\ Reanchor(t, n).awaiting = t.awaiting
         /\ Reanchor(t, n).paused = t.paused
<1> DEFINE p == PositionAt(t, n)
           v == t.version + 1
           u == [t EXCEPT !.pos = p, !.at = n, !.version = v]
<1>1. p \in Nat /\ v \in Nat
  BY PositionType, NextNumber
<1>2. Reanchor(t, n) = u
  BY DEF Reanchor
<1> HIDE DEF p, v
<1>3. /\ u \in Timelines
      /\ u.version = v
      /\ u.at = n /\ u.cuedAt = t.cuedAt
      /\ u.item = t.item /\ u.duration = t.duration
      /\ u.pos = p /\ u.awaiting = t.awaiting /\ u.paused = t.paused
  BY <1>1 DEF Timelines
<1> QED
  BY <1>2, <1>3 DEF p, v

LEMMA PlayChange ==
  ASSUME NEW t \in Timelines, NEW n \in Nat
  PROVE  Change(t, Play(t, n), n)
<1> DEFINE w == Reanchor(t, n)
           u == [w EXCEPT !.awaiting = FALSE, !.paused = FALSE]
<1>1. /\ w \in Timelines /\ w.version = t.version + 1
      /\ w.at = n /\ w.cuedAt = t.cuedAt
  BY ReanchorChange
<1>2. Play(t, n) \in {t, u}
  BY DEF Play
<1>3. Change(t, t, n)
  BY DEF Change
<1> HIDE DEF w
<1>4. /\ u \in Timelines /\ u.version = w.version
      /\ u.at = w.at /\ u.cuedAt = w.cuedAt
      /\ u.awaiting = FALSE
  BY <1>1 DEF Timelines
<1> HIDE DEF u
<1>5. Held(u)
  BY <1>4 DEF Held
<1>6. Change(t, u, n)
  BY <1>1, <1>4, <1>5 DEF Change
<1> QED
  BY <1>2, <1>3, <1>6

LEMMA PauseChange ==
  ASSUME NEW t \in Timelines, NEW n \in Nat
  PROVE  Change(t, Pause(t, n), n)
<1> DEFINE w == Reanchor(t, n)
           u == [w EXCEPT !.awaiting = FALSE, !.paused = TRUE]
<1>1. /\ w \in Timelines /\ w.version = t.version + 1
      /\ w.at = n /\ w.cuedAt = t.cuedAt
  BY ReanchorChange
<1>2. Pause(t, n) \in {t, u}
  BY DEF Pause
<1>3. Change(t, t, n)
  BY DEF Change
<1> HIDE DEF w
<1>4. /\ u \in Timelines /\ u.version = w.version
      /\ u.at = w.at /\ u.cuedAt = w.cuedAt
      /\ u.awaiting = FALSE
  BY <1>1 DEF Timelines
<1> HIDE DEF u
<1>5. Held(u)
  BY <1>4 DEF Held
<1>6. Change(t, u, n)
  BY <1>1, <1>4, <1>5 DEF Change
<1> QED
  BY <1>2, <1>3, <1>6

LEMMA SeekChange ==
  ASSUME NEW t \in Timelines, NEW n \in Nat, NEW p \in Nat
  PROVE  Change(t, Seek(t, n, p), n)
<1> DEFINE w == Reanchor(t, n)
           u == [w EXCEPT !.awaiting = FALSE, !.pos = Clamped(t, p)]
<1>1. Clamped(t, p) \in Nat
  BY ClampedType
<1>2. /\ w \in Timelines /\ w.version = t.version + 1
      /\ w.at = n /\ w.cuedAt = t.cuedAt
  BY ReanchorChange
<1>3. Seek(t, n, p) \in {t, u}
  BY DEF Seek
<1>4. Change(t, t, n)
  BY DEF Change
<1> HIDE DEF w
<1>5. /\ u \in Timelines /\ u.version = w.version
      /\ u.at = w.at /\ u.cuedAt = w.cuedAt
      /\ u.awaiting = FALSE
  BY <1>1, <1>2 DEF Timelines
<1> HIDE DEF u
<1>6. Held(u)
  BY <1>5 DEF Held
<1>7. Change(t, u, n)
  BY <1>2, <1>5, <1>6 DEF Change
<1> QED
  BY <1>3, <1>4, <1>7

LEMMA RestartChange ==
  ASSUME NEW t \in Timelines, NEW n \in Nat
  PROVE  Change(t, Restart(t, n), n)
<1> DEFINE w == Reanchor(t, n)
           u == [w EXCEPT !.awaiting = FALSE, !.pos = 0, !.paused = FALSE]
<1>1. /\ w \in Timelines /\ w.version = t.version + 1
      /\ w.at = n /\ w.cuedAt = t.cuedAt
  BY ReanchorChange
<1>2. Restart(t, n) \in {t, u}
  BY DEF Restart
<1>3. Change(t, t, n)
  BY DEF Change
<1> HIDE DEF w
<1>4. /\ u \in Timelines /\ u.version = w.version
      /\ u.at = w.at /\ u.cuedAt = w.cuedAt
      /\ u.awaiting = FALSE
  BY <1>1 DEF Timelines
<1> HIDE DEF u
<1>5. Held(u)
  BY <1>4 DEF Held
<1>6. Change(t, u, n)
  BY <1>1, <1>4, <1>5 DEF Change
<1> QED
  BY <1>2, <1>3, <1>6

\* A rate change re-anchors, and a held timeline re-anchors at zero.
LEMMA SetRateChange ==
  ASSUME NEW t \in Timelines, NEW n \in Nat, NEW r \in Rates
  PROVE  Change(t, SetRate(t, n, r), n)
<1> DEFINE w == Reanchor(t, n)
           u == [w EXCEPT !.rate = r]
<1>1. /\ w \in Timelines /\ w.version = t.version + 1
      /\ w.at = n /\ w.cuedAt = t.cuedAt
  BY ReanchorChange
<1>2. w.awaiting = t.awaiting /\ w.item = t.item /\ w.paused = t.paused
  BY ReanchorChange
<1>3. w.pos = PositionAt(t, n)
  BY ReanchorChange
<1>4. t.paused /\ t.pos = 0 => w.pos = 0
  BY <1>3, PositionType, Zenon
<1>5. SetRate(t, n, r) \in {t, u}
  BY DEF SetRate
<1>6. Change(t, t, n)
  BY DEF Change
<1> HIDE DEF w
<1>7. /\ u \in Timelines /\ u.version = w.version
      /\ u.at = w.at /\ u.cuedAt = w.cuedAt
      /\ u.awaiting = w.awaiting /\ u.item = w.item /\ u.paused = w.paused /\ u.pos = w.pos
  BY <1>1 DEF Timelines
<1> HIDE DEF u
<1>8. Held(t) => Held(u)
  BY <1>7, <1>2, <1>4 DEF Held, IsLoaded
<1>9. Change(t, u, n)
  BY <1>1, <1>7, <1>8 DEF Change
<1> QED
  BY <1>5, <1>6, <1>9

LEMMA SetLoopChange ==
  ASSUME NEW t \in Timelines, NEW n \in Nat, NEW b \in BOOLEAN
  PROVE  Change(t, SetLoop(t, b), n)
<1> DEFINE v == t.version + 1
           u == [t EXCEPT !.looping = b, !.version = v]
<1>1. v \in Nat
  BY NextNumber
<1>2. SetLoop(t, b) = u
  BY DEF SetLoop
<1> HIDE DEF v
<1>3. /\ u \in Timelines /\ u.version = v
      /\ u.at = t.at /\ u.cuedAt = t.cuedAt
      /\ u.awaiting = t.awaiting /\ u.item = t.item
      /\ u.paused = t.paused /\ u.pos = t.pos
  BY <1>1 DEF Timelines
<1> HIDE DEF u
<1>4. Held(t) => Held(u)
  BY <1>3 DEF Held, IsLoaded
<1>5. Change(t, u, n)
  BY <1>3, <1>4 DEF Change, v
<1> QED
  BY <1>5, <1>2

LEMMA SetDurationChange ==
  ASSUME NEW t \in Timelines, NEW n \in Nat, NEW d \in Nat
  PROVE  Change(t, SetDuration(t, d), n)
<1> DEFINE v == t.version + 1
           u == [t EXCEPT !.duration = d, !.version = v]
<1>1. v \in Nat
  BY NextNumber
<1>2. SetDuration(t, d) \in {t, u}
  BY DEF SetDuration
<1> HIDE DEF v
<1>3. /\ u \in Timelines /\ u.version = v
      /\ u.at = t.at /\ u.cuedAt = t.cuedAt
      /\ u.awaiting = t.awaiting /\ u.item = t.item
      /\ u.paused = t.paused /\ u.pos = t.pos
  BY <1>1 DEF Timelines
<1> HIDE DEF u
<1>4. Held(t) => Held(u)
  BY <1>3 DEF Held, IsLoaded
<1>5. Change(t, u, n) /\ Change(t, t, n)
  BY <1>3, <1>4 DEF Change, v
<1> QED
  BY <1>2, <1>5

LEMMA StartChange ==
  ASSUME NEW t \in Timelines, NEW n \in Nat
  PROVE  Change(t, StartPlayback(t, n), n)
<1>1. Change(t, t, n)
  BY DEF Change
<1> QED
  BY <1>1, PlayChange DEF StartPlayback

\* A cue and a clear hold whatever the timeline was before.
LEMMA LoadChange ==
  ASSUME NEW t \in Timelines, NEW n \in Nat, NEW i \in Items, NEW d \in Nat
  PROVE  Change(t, Load(t, n, i, d), n) /\ Held(Load(t, n, i, d))
<1> DEFINE v == t.version + 1
           u == [t EXCEPT !.item = i, !.duration = d, !.pos = 0, !.at = n,
                          !.paused = TRUE, !.awaiting = TRUE, !.cuedAt = n,
                          !.version = v]
<1>1. v \in Nat
  BY NextNumber
<1>2. Load(t, n, i, d) = u
  BY DEF Load
<1>3. i # NoItem
  BY TimelineAssumption
<1> HIDE DEF v
<1>4. u \in Timelines
  BY <1>1 DEF Timelines
<1>5. /\ u.item = i /\ u.pos = 0 /\ u.paused = TRUE
      /\ u.version = v /\ u.at = n /\ u.cuedAt = n
  BY DEF Timelines
<1> HIDE DEF u
<1>6. Held(u)
  BY <1>3, <1>5 DEF Held, IsLoaded
<1>7. Change(t, u, n)
  BY <1>4, <1>5, <1>6 DEF Change, v
<1> QED
  BY <1>2, <1>6, <1>7

LEMMA ClearChange ==
  ASSUME NEW t \in Timelines, NEW n \in Nat
  PROVE  Change(t, Clear(t, n), n) /\ Held(Clear(t, n))
<1> DEFINE u == Clear(t, n)
<1>1. t.version + 1 \in Nat
  BY DEF Timelines
<1>2. /\ u \in Timelines
      /\ u.awaiting = FALSE
      /\ u.version = t.version + 1 /\ u.at = n /\ u.cuedAt = n
  BY <1>1, TimelineAssumption DEF Clear, Idle, Timelines
<1> HIDE DEF u
<1>3. Held(u)
  BY <1>2 DEF Held
<1>4. Change(t, u, n)
  BY <1>2, <1>3 DEF Change
<1> QED
  BY <1>3, <1>4 DEF u

\* No method but load and clear puts up or takes down a video.
LEMMA SameItem ==
  ASSUME NEW t \in Timelines, NEW n \in Nat, NEW p, NEW r, NEW b, NEW d
  PROVE  /\ Play(t, n).item = t.item
         /\ Pause(t, n).item = t.item
         /\ Seek(t, n, p).item = t.item
         /\ Restart(t, n).item = t.item
         /\ SetRate(t, n, r).item = t.item
         /\ SetLoop(t, b).item = t.item
         /\ SetDuration(t, d).item = t.item
         /\ StartPlayback(t, n).item = t.item
<1>1. Play(t, n).item = t.item
  BY ReanchorChange DEF Play, Timelines
<1>2. Pause(t, n).item = t.item
  BY ReanchorChange DEF Pause, Timelines
<1>3. Seek(t, n, p).item = t.item
  BY ReanchorChange DEF Seek, Timelines
<1>4. Restart(t, n).item = t.item
  BY ReanchorChange DEF Restart, Timelines
<1>5. SetRate(t, n, r).item = t.item
  BY ReanchorChange DEF SetRate, Timelines
<1>6. SetLoop(t, b).item = t.item /\ SetDuration(t, d).item = t.item
  BY DEF SetLoop, SetDuration, Timelines
<1>7. StartPlayback(t, n).item = t.item
  BY <1>1 DEF StartPlayback
<1> QED
  BY <1>1, <1>2, <1>3, <1>4, <1>5, <1>6, <1>7
=============================================================================
