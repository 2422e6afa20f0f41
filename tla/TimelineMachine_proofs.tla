----------------------- MODULE TimelineMachine_proofs -----------------------
(***************************************************************************)
(* What the methods of the timeline keep, for any items, rates, lengths    *)
(* and seeks and for clocks and versions without end.                      *)
(***************************************************************************)
EXTENDS TimelineMachine, TimelineLemmas

\* One step is one method at the machine's clock, or a tick.
LEMMA MachineStep ==
  ASSUME TypeOK, [Next]_vars
  PROVE  \/ Change(tl, tl', now) /\ now' = now
         \/ tl' = tl /\ now' = now + 1
<1>1. tl \in Timelines /\ now \in Nat
  BY DEF TypeOK
<1>2. Change(tl, tl, now)
  BY <1>1 DEF Change
<1>3. CASE Tick
  BY <1>3 DEF Tick
<1>4. CASE DoLoad
  <2>1. PICK i \in Items, d \in Lengths \cup {0} : Command(Load(tl, now, i, d))
    BY <1>4 DEF DoLoad
  <2>2. d \in Nat
    BY MachineAssumption
  <2> QED
    BY <1>1, <2>1, <2>2, LoadChange DEF Command
<1>5. CASE DoSeek
  <2>1. PICK p \in Seeks : Command(Seek(tl, now, p))
    BY <1>5 DEF DoSeek
  <2>2. p \in Nat
    BY MachineAssumption
  <2> QED
    BY <1>1, <2>1, <2>2, SeekChange DEF Command
<1>6. CASE DoLearn
  <2>1. PICK d \in Lengths : Command(SetDuration(tl, d))
    BY <1>6 DEF DoLearn
  <2>2. d \in Nat
    BY MachineAssumption
  <2> QED
    BY <1>1, <2>1, <2>2, SetDurationChange DEF Command
<1>7. CASE DoSetRate \/ DoSetLoop
  BY <1>1, <1>7, SetRateChange, SetLoopChange DEF DoSetRate, DoSetLoop, Command
<1>8. CASE DoPlay \/ DoPause \/ DoRestart \/ DoClear
  BY <1>1, <1>8, PlayChange, PauseChange, RestartChange, ClearChange
     DEF DoPlay, DoPause, DoRestart, DoClear, Command
<1>9. CASE DoStart \/ DoOverdue
  BY <1>1, <1>9, StartChange DEF DoStart, DoOverdue, Command
<1>10. CASE UNCHANGED vars
  BY <1>2, <1>10 DEF vars
<1> QED
  BY <1>3, <1>4, <1>5, <1>6, <1>7, <1>8, <1>9, <1>10 DEF Next

LEMMA MachineTypeStep ==
  ASSUME TypeOK, [Next]_vars
  PROVE  TypeOK'
<1>1. tl.at \in Nat /\ tl.cuedAt \in Nat /\ now \in Nat
  BY DEF TypeOK, Timelines
<1>2. CASE Change(tl, tl', now) /\ now' = now
  BY <1>1, <1>2 DEF TypeOK, Change
<1>3. CASE tl' = tl /\ now' = now + 1
  BY <1>1, <1>3 DEF TypeOK
<1> QED
  BY <1>2, <1>3, MachineStep

\* A timeline is never anchored ahead of the clock it is read with.
THEOREM MachineTypes == Spec => []TypeOK
<1>1. Init => TypeOK
  BY IdleType DEF Init, TypeOK, Idle
<1>2. TypeOK /\ [Next]_vars => TypeOK'
  BY MachineTypeStep
<1> QED
  BY <1>1, <1>2, PTL DEF Spec

\* The hold keeps a cue at zero: inductive as Held, which speaks of the
\* anchor, and not as HeldAtZero, which speaks of the position read from it.
THEOREM CueHeldAtZero == Spec => []HeldAtZero
<1>1. Init => Held(tl)
  BY DEF Init, Idle, Held
<1>2. TypeOK /\ Held(tl) /\ [Next]_vars => Held(tl')
  <2> SUFFICES ASSUME TypeOK, Held(tl), [Next]_vars
               PROVE  Held(tl')
    OBVIOUS
  <2> QED
    BY MachineStep DEF Change
<1>3. TypeOK /\ Held(tl) => HeldAtZero
  BY PositionType DEF TypeOK, Held, HeldAtZero
<1>4. Held(tl)' <=> Held(tl')
  BY DEF Held, IsLoaded
<1> QED
  BY <1>1, <1>2, <1>3, <1>4, MachineTypes, PTL DEF Spec

\* Clients tell timelines apart by number alone: every change has one of its
\* own, the next (timeline.rs, every mutator; room-store.ts, the guard).
THEOREM ChangesNumbered == Spec => EveryChangeIsNumbered
<1>1. TypeOK /\ [Next]_vars => [tl' # tl => tl'.version = tl.version + 1]_vars
  BY MachineStep DEF Change
<1> QED
  BY <1>1, MachineTypes, PTL DEF Spec, EveryChangeIsNumbered

\* The sweep's test for the end and the viewers' position agree, although one
\* looks at the extrapolation before it is clamped and the other after.
THEOREM EndSeen == Spec => []EndedAtTheEnd
<1>1. TypeOK => EndedAtTheEnd
  <2> SUFFICES ASSUME TypeOK
               PROVE  EndedAtTheEnd
    OBVIOUS
  <2> DEFINE e == Extrapolated(tl, now)
  <2>1. tl \in Timelines /\ now \in Nat /\ e \in Int /\ tl.duration \in Nat
    BY ExtrapolatedType DEF TypeOK, Timelines
  <2> HIDE DEF e
  <2>2. tl.duration > 0 => (e >= tl.duration <=> Clamped(tl, e) = tl.duration)
    BY <2>1 DEF Clamped
  <2>3. CASE IsLoaded(tl) /\ ~tl.paused
    BY <2>2, <2>3 DEF EndedAtTheEnd, HasEnded, PositionAt, e
  <2>4. CASE tl.paused
    BY <2>4 DEF EndedAtTheEnd, HasEnded
  <2>5. CASE ~IsLoaded(tl)
    BY <2>1, <2>5 DEF EndedAtTheEnd, HasEnded, PositionAt
  <2> QED
    BY <2>3, <2>4, <2>5
<1> QED
  BY <1>1, MachineTypes, PTL

------------------------------------------------------------------------------
(* The refinement: what observers derive from anchor, rate and clock is one *)
(* playhead that only time, a cue, a seek, a restart or a clear can move.   *)

\* Rates and elapsed times are multiplied: the three facts needed of that.
LEMMA Products ==
  /\ \A x, y \in Nat : x * y \in Nat
  /\ \A y \in Int : 0 * y = 0
  /\ \A x, y \in Int : (x + 1) * y = x * y + y
OBVIOUS

\* Right after a method has anchored it, a timeline stands at its anchor.
LEMMA AnchoredNow ==
  ASSUME NEW u \in Timelines, NEW n \in Nat, u.at = n, IsLoaded(u)
  PROVE  PositionAt(u, n) = Clamped(u, u.pos)
<1>1. u.pos \in Int /\ u.rate \in Rates
  BY DEF Timelines
<1>2. u.rate \in Int
  BY <1>1, RateType
<1>3. (n - u.at) * u.rate = 0
  <2>1. n - u.at = 0
    OBVIOUS
  <2> QED
    BY <2>1, <1>2, Products
<1>4. Extrapolated(u, n) = u.pos
  BY <1>1, <1>3 DEF Extrapolated
<1> QED
  BY <1>4 DEF PositionAt

\* Clamping a position that is already inside the video leaves it alone.
LEMMA PositionInside ==
  ASSUME NEW t \in Timelines, NEW n \in Nat, IsLoaded(t)
  PROVE  Clamped(t, PositionAt(t, n)) = PositionAt(t, n)
<1> DEFINE e == IF t.paused THEN t.pos ELSE Extrapolated(t, n)
<1>1. e \in Int
  BY ExtrapolatedType DEF Timelines
<1>2. PositionAt(t, n) = Clamped(t, e)
  BY DEF PositionAt
<1> HIDE DEF e
<1>3. Clamped(t, Clamped(t, e)) = Clamped(t, e)
  BY <1>1 DEF Clamped, Timelines
<1> QED
  BY <1>2, <1>3

\* A running timeline one tick later has moved by its rate, up to the end.
LEMMA PlayheadAdvances ==
  ASSUME NEW t \in Timelines, NEW n \in Nat, t.at <= n, IsLoaded(t), ~t.paused
  PROVE  PositionAt(t, n + 1) = Seen!Capped(PositionAt(t, n) + t.rate, t.duration)
<1> DEFINE e == Extrapolated(t, n)
           r == t.rate
<1>1. t.pos \in Nat /\ t.at \in Nat /\ t.duration \in Nat /\ r \in Rates
  BY DEF Timelines
<1>2. r \in Nat
  BY <1>1, TimelineAssumption
<1>3. n - t.at \in Nat
  BY <1>1
<1>4. (n - t.at) * r \in Nat
  BY <1>2, <1>3, Products
<1>5. ((n + 1) - t.at) * r = (n - t.at) * r + r
  <2>1. (n + 1) - t.at = (n - t.at) + 1
    BY <1>1
  <2> QED
    BY <2>1, <1>2, <1>3, Products
<1>6. e \in Nat
  BY <1>1, <1>4 DEF Extrapolated
<1>7. Extrapolated(t, n + 1) = e + r
  BY <1>1, <1>2, <1>4, <1>5 DEF Extrapolated
<1>8. PositionAt(t, n) = Clamped(t, e) /\ PositionAt(t, n + 1) = Clamped(t, e + r)
  BY <1>7 DEF PositionAt
<1> HIDE DEF e, r
<1>9. Clamped(t, e + r) = Seen!Capped(Clamped(t, e) + r, t.duration)
  BY <1>1, <1>2, <1>6 DEF Clamped, Seen!Capped
<1> QED
  BY <1>8, <1>9 DEF r

------------------------------------------------------------------------------
(* What a method does, in the terms of Playhead.                            *)

Speed(t) == IF t.paused THEN 0 ELSE t.rate

\* u is t after a method called at n that leaves the playhead where it is.
Keeps(t, n, u) ==
  /\ IsLoaded(t)
  /\ u.item = t.item /\ u.duration = t.duration
  /\ PositionAt(u, n) = PositionAt(t, n) /\ Speed(u) \in Rates \cup {0}

\* A method that only re-anchors is not seen by anyone.
LEMMA ReanchoredKeeps ==
  ASSUME NEW t \in Timelines, NEW u \in Timelines, NEW n \in Nat,
         IsLoaded(t), u.item = t.item, u.duration = t.duration,
         u.at = n, u.pos = PositionAt(t, n)
  PROVE  Keeps(t, n, u)
<1>1. PositionAt(u, n) = Clamped(u, u.pos)
  BY AnchoredNow DEF IsLoaded
<1>2. Clamped(u, u.pos) = Clamped(t, u.pos)
  BY DEF Clamped
<1>3. PositionAt(u, n) = PositionAt(t, n)
  BY <1>1, <1>2, PositionInside
<1>4. Speed(u) \in Rates \cup {0}
  BY DEF Speed, Timelines
<1> QED
  BY <1>3, <1>4 DEF Keeps

\* The fields of a re-anchored timeline that the lemmas below start from.
LEMMA ReanchorFields ==
  ASSUME NEW t \in Timelines, NEW n \in Nat
  PROVE  LET w == Reanchor(t, n)
         IN  /\ w \in Timelines /\ w.at = n /\ w.item = t.item
             /\ w.duration = t.duration /\ w.pos = PositionAt(t, n)
             /\ w.rate = t.rate /\ w.paused = t.paused
<1>1. Reanchor(t, n).rate = t.rate
  BY DEF Reanchor, Timelines
<1> QED
  BY <1>1, ReanchorChange

LEMMA PlayKeeps ==
  ASSUME NEW t \in Timelines, NEW n \in Nat, IsLoaded(t)
  PROVE  Keeps(t, n, Play(t, n))
<1> DEFINE w == Reanchor(t, n)
           u == [w EXCEPT !.awaiting = FALSE, !.paused = FALSE]
<1>1. /\ w \in Timelines /\ w.at = n /\ w.item = t.item
      /\ w.duration = t.duration /\ w.pos = PositionAt(t, n)
  BY ReanchorFields
<1>2. Play(t, n) = u
  BY DEF Play
<1> HIDE DEF w
<1>3. /\ u \in Timelines /\ u.at = w.at /\ u.item = w.item
      /\ u.duration = w.duration /\ u.pos = w.pos
  BY <1>1 DEF Timelines
<1> HIDE DEF u
<1> QED
  BY <1>1, <1>2, <1>3, ReanchoredKeeps

LEMMA PauseKeeps ==
  ASSUME NEW t \in Timelines, NEW n \in Nat, IsLoaded(t)
  PROVE  Keeps(t, n, Pause(t, n))
<1> DEFINE w == Reanchor(t, n)
           u == [w EXCEPT !.awaiting = FALSE, !.paused = TRUE]
<1>1. /\ w \in Timelines /\ w.at = n /\ w.item = t.item
      /\ w.duration = t.duration /\ w.pos = PositionAt(t, n)
  BY ReanchorFields
<1>2. Pause(t, n) = u
  BY DEF Pause
<1> HIDE DEF w
<1>3. /\ u \in Timelines /\ u.at = w.at /\ u.item = w.item
      /\ u.duration = w.duration /\ u.pos = w.pos
  BY <1>1 DEF Timelines
<1> HIDE DEF u
<1> QED
  BY <1>1, <1>2, <1>3, ReanchoredKeeps

\* The one a product could break: the seconds played so far are counted at
\* the old rate, into the anchor, before the new one applies.
LEMMA SetRateKeeps ==
  ASSUME NEW t \in Timelines, NEW n \in Nat, NEW r \in Rates, IsLoaded(t)
  PROVE  Keeps(t, n, SetRate(t, n, r))
<1> DEFINE w == Reanchor(t, n)
           u == [w EXCEPT !.rate = r]
<1>1. /\ w \in Timelines /\ w.at = n /\ w.item = t.item
      /\ w.duration = t.duration /\ w.pos = PositionAt(t, n)
  BY ReanchorFields
<1>2. SetRate(t, n, r) = u
  BY DEF SetRate
<1> HIDE DEF w
<1>3. /\ u \in Timelines /\ u.at = w.at /\ u.item = w.item
      /\ u.duration = w.duration /\ u.pos = w.pos
  BY <1>1 DEF Timelines
<1> HIDE DEF u
<1> QED
  BY <1>1, <1>2, <1>3, ReanchoredKeeps

LEMMA SeekLands ==
  ASSUME NEW t \in Timelines, NEW n \in Nat, NEW p \in Nat, IsLoaded(t)
  PROVE  LET u == Seek(t, n, p)
         IN  /\ u.item = t.item /\ u.duration = t.duration /\ Speed(u) = Speed(t)
             /\ PositionAt(u, n) = Seen!Capped(p, t.duration)
<1> DEFINE w == Reanchor(t, n)
           c == Clamped(t, p)
           u == [w EXCEPT !.awaiting = FALSE, !.pos = c]
<1>1. /\ w \in Timelines /\ w.at = n /\ w.item = t.item
      /\ w.duration = t.duration /\ w.rate = t.rate /\ w.paused = t.paused
  BY ReanchorFields
<1>2. c \in Nat /\ c = Seen!Capped(p, t.duration) /\ Clamped(t, c) = c
  BY DEF Clamped, Seen!Capped, Timelines
<1>3. Seek(t, n, p) = u
  BY DEF Seek
<1> HIDE DEF w, c
<1>4. /\ u \in Timelines /\ u.at = w.at /\ u.item = w.item
      /\ u.duration = w.duration /\ u.pos = c
      /\ u.rate = w.rate /\ u.paused = w.paused
  BY <1>1, <1>2 DEF Timelines
<1> HIDE DEF u
<1>5. PositionAt(u, n) = Clamped(u, u.pos)
  BY <1>1, <1>4, AnchoredNow DEF IsLoaded
<1>6. Clamped(u, c) = Clamped(t, c)
  BY <1>1, <1>4 DEF Clamped
<1>7. Speed(u) = Speed(t)
  BY <1>1, <1>4 DEF Speed
<1> QED
  BY <1>1, <1>2, <1>3, <1>4, <1>5, <1>6, <1>7

LEMMA RestartLands ==
  ASSUME NEW t \in Timelines, NEW n \in Nat, IsLoaded(t)
  PROVE  LET u == Restart(t, n)
         IN  /\ u.item = t.item /\ u.duration = t.duration /\ Speed(u) \in Rates
             /\ PositionAt(u, n) = 0
<1> DEFINE w == Reanchor(t, n)
           u == [w EXCEPT !.awaiting = FALSE, !.pos = 0, !.paused = FALSE]
<1>1. w \in Timelines /\ w.at = n /\ w.item = t.item /\ w.duration = t.duration
  BY ReanchorFields
<1>2. Restart(t, n) = u
  BY DEF Restart
<1> HIDE DEF w
<1>3. /\ u \in Timelines /\ u.at = w.at /\ u.item = w.item
      /\ u.duration = w.duration /\ u.pos = 0 /\ ~u.paused
  BY <1>1 DEF Timelines
<1> HIDE DEF u
<1>4. PositionAt(u, n) = Clamped(u, u.pos)
  BY <1>1, <1>3, AnchoredNow DEF IsLoaded
<1>5. PositionAt(u, n) = 0
  BY <1>3, <1>4, ClampedType
<1>6. Speed(u) \in Rates
  BY <1>3 DEF Speed, Timelines
<1> QED
  BY <1>1, <1>2, <1>3, <1>5, <1>6

LEMMA LengthLearned ==
  ASSUME NEW t \in Timelines, NEW n \in Nat, NEW d \in Nat, AcceptsDuration(t, d)
  PROVE  LET u == SetDuration(t, d)
         IN  /\ u.item = t.item /\ u.duration = d /\ Speed(u) = Speed(t)
             /\ PositionAt(u, n) = Seen!Capped(PositionAt(t, n), d)
<1> DEFINE v == t.version + 1
           u == [t EXCEPT !.duration = d, !.version = v]
           e == IF t.paused THEN t.pos ELSE Extrapolated(t, n)
<1>1. e \in Int
  BY ExtrapolatedType DEF Timelines
<1>2. SetDuration(t, d) = u
  BY DEF SetDuration
<1> HIDE DEF v
<1>3. /\ u.item = t.item /\ u.duration = d /\ u.pos = t.pos /\ u.at = t.at
      /\ u.rate = t.rate /\ u.paused = t.paused
  BY DEF Timelines
<1> HIDE DEF u
<1>4. IsLoaded(t) /\ t.duration = 0 /\ d > 0
  BY DEF AcceptsDuration
<1>5. PositionAt(u, n) = Clamped(u, e) /\ PositionAt(t, n) = Clamped(t, e)
  BY <1>3, <1>4 DEF PositionAt, IsLoaded, Extrapolated
<1> HIDE DEF e
<1>6. Clamped(u, e) = Seen!Capped(Clamped(t, e), d)
  BY <1>1, <1>3, <1>4 DEF Clamped, Seen!Capped
<1>7. Speed(u) = Speed(t)
  BY <1>3 DEF Speed
<1> QED
  BY <1>2, <1>3, <1>5, <1>6, <1>7

------------------------------------------------------------------------------
(* The refinement.                                                          *)

\* Every step of the machine is a step of the playhead or unseen.
LEMMA PlayheadStep ==
  ASSUME TypeOK, [Next]_vars
  PROVE  [Seen!PlayheadNext]_Seen!playheadVars
<1>1. /\ tl \in Timelines /\ now \in Nat /\ tl.at <= now
      /\ tl.duration \in Nat
  BY DEF TypeOK, Timelines
<1>2. PositionAt(tl, now)' = PositionAt(tl', now')
  BY DEF PositionAt, IsLoaded, Clamped, Extrapolated
<1>3. /\ (IF tl.paused THEN 0 ELSE tl.rate) = Speed(tl)
      /\ (IF tl.paused THEN 0 ELSE tl.rate)' = Speed(tl')
  BY DEF Speed
<1>4. ASSUME tl' = tl, now' = now
      PROVE  UNCHANGED Seen!playheadVars
  BY <1>2, <1>4 DEF Seen!playheadVars
<1>5. ASSUME Keeps(tl, now, tl'), now' = now
      PROVE  Seen!ChangeSpeed
  BY <1>2, <1>3, <1>5 DEF Keeps, IsLoaded, Seen!ChangeSpeed
<1>6. CASE Tick
  <2>1. tl' = tl /\ now' = now + 1
    BY <1>6 DEF Tick
  <2>2. CASE IsLoaded(tl) /\ ~tl.paused
    <3>1. PositionAt(tl', now') = Seen!Capped(PositionAt(tl, now) + tl.rate, tl.duration)
      BY <1>1, <2>1, <2>2, PlayheadAdvances
    <3>2. Seen!Advance
      BY <1>2, <2>1, <2>2, <3>1 DEF Seen!Advance
    <3> QED
      BY <3>2 DEF Seen!PlayheadNext
  <2>3. CASE ~IsLoaded(tl) \/ tl.paused
    <3>1. PositionAt(tl', now') = PositionAt(tl, now)
      BY <2>1, <2>3 DEF PositionAt
    <3> QED
      BY <1>2, <2>1, <3>1 DEF Seen!playheadVars
  <2> QED
    BY <2>2, <2>3
<1>7. CASE DoLoad
  <2>1. PICK i \in Items, d \in Lengths \cup {0} : Command(Load(tl, now, i, d))
    BY <1>7 DEF DoLoad
  <2>2. tl' = Load(tl, now, i, d) /\ now' = now /\ d \in Nat
    BY <2>1, MachineAssumption DEF Command
  <2>3. tl'.item = i /\ tl'.duration = d /\ tl'.pos = 0 /\ tl'.paused
    BY <1>1, <2>2 DEF Load, Timelines
  <2>4. tl' \in Timelines
    BY <1>1, <2>2, LoadChange DEF Change
  <2>5. PositionAt(tl', now') = 0
    BY <1>1, <2>2, <2>3, <2>4, PositionType
  <2>6. Seen!Cue
    BY <1>2, <2>2, <2>3, <2>5 DEF Seen!Cue
  <2> QED
    BY <2>6 DEF Seen!PlayheadNext
<1>8. CASE DoClear
  <2>1. tl' = Clear(tl, now) /\ now' = now
    BY <1>8 DEF DoClear, Command
  <2>2. tl'.item = NoItem /\ tl'.duration = 0 /\ tl'.paused
    BY <2>1 DEF Clear, Idle
  <2>3. PositionAt(tl', now') = 0
    BY <2>2 DEF PositionAt, IsLoaded
  <2>4. Seen!Eject
    BY <1>2, <2>2, <2>3 DEF Seen!Eject
  <2> QED
    BY <2>4 DEF Seen!PlayheadNext
<1>9. CASE DoSeek
  <2>1. PICK p \in Seeks : Command(Seek(tl, now, p))
    BY <1>9 DEF DoSeek
  <2>2. tl' = Seek(tl, now, p) /\ now' = now /\ p \in Nat
    BY <2>1, MachineAssumption DEF Command
  <2>3. CASE ~IsLoaded(tl)
    BY <1>4, <2>2, <2>3 DEF Seek
  <2>4. CASE IsLoaded(tl)
    <3>1. /\ tl'.item = tl.item /\ tl'.duration = tl.duration
          /\ Speed(tl') = Speed(tl)
          /\ PositionAt(tl', now') = Seen!Capped(p, tl.duration)
      BY <1>1, <2>2, <2>4, SeekLands
    <3>2. Seen!Jump
      BY <1>2, <1>3, <2>4, <3>1 DEF Seen!Jump, IsLoaded
    <3> QED
      BY <3>2 DEF Seen!PlayheadNext
  <2> QED
    BY <2>3, <2>4
<1>10. CASE DoRestart
  <2>1. tl' = Restart(tl, now) /\ now' = now
    BY <1>10 DEF DoRestart, Command
  <2>2. CASE ~IsLoaded(tl)
    BY <1>4, <2>1, <2>2 DEF Restart
  <2>3. CASE IsLoaded(tl)
    <3>1. /\ tl'.item = tl.item /\ tl'.duration = tl.duration
          /\ Speed(tl') \in Rates /\ PositionAt(tl', now') = 0
      BY <1>1, <2>1, <2>3, RestartLands
    <3>2. Seen!Rewind
      BY <1>2, <1>3, <2>3, <3>1 DEF Seen!Rewind, IsLoaded
    <3> QED
      BY <3>2 DEF Seen!PlayheadNext
  <2> QED
    BY <2>2, <2>3
<1>11. CASE DoLearn
  <2>1. PICK d \in Lengths : Command(SetDuration(tl, d))
    BY <1>11 DEF DoLearn
  <2>2. tl' = SetDuration(tl, d) /\ now' = now /\ d \in Nat \ {0}
    BY <2>1, MachineAssumption DEF Command
  <2>3. CASE ~AcceptsDuration(tl, d)
    BY <1>4, <2>2, <2>3 DEF SetDuration
  <2>4. CASE AcceptsDuration(tl, d)
    <3>1. /\ tl'.item = tl.item /\ tl'.duration = d /\ Speed(tl') = Speed(tl)
          /\ PositionAt(tl', now') = Seen!Capped(PositionAt(tl, now), d)
      BY <1>1, <2>2, <2>4, LengthLearned
    <3>2. Seen!LearnLength
      BY <1>2, <1>3, <2>2, <2>4, <3>1 DEF Seen!LearnLength, AcceptsDuration, IsLoaded
    <3> QED
      BY <3>2 DEF Seen!PlayheadNext
  <2> QED
    BY <2>3, <2>4
<1>12. CASE DoSetLoop
  <2>1. PICK b \in BOOLEAN : Command(SetLoop(tl, b))
    BY <1>12 DEF DoSetLoop
  <2>2. tl' = SetLoop(tl, b) /\ now' = now
    BY <2>1 DEF Command
  <2>3. /\ tl'.item = tl.item /\ tl'.duration = tl.duration /\ tl'.pos = tl.pos
        /\ tl'.at = tl.at /\ tl'.rate = tl.rate /\ tl'.paused = tl.paused
    BY <1>1, <2>2 DEF SetLoop, Timelines
  <2>4. PositionAt(tl', now') = PositionAt(tl, now) /\ Speed(tl') = Speed(tl)
    BY <2>2, <2>3 DEF PositionAt, IsLoaded, Clamped, Extrapolated, Speed
  <2> QED
    BY <1>2, <1>3, <2>3, <2>4 DEF Seen!playheadVars
<1>13. CASE DoSetRate
  <2>1. PICK r \in Rates : Command(SetRate(tl, now, r))
    BY <1>13 DEF DoSetRate
  <2>2. tl' = SetRate(tl, now, r) /\ now' = now
    BY <2>1 DEF Command
  <2>3. CASE ~IsLoaded(tl)
    BY <1>4, <2>2, <2>3 DEF SetRate
  <2>4. CASE IsLoaded(tl)
    BY <1>1, <1>5, <2>2, <2>4, SetRateKeeps DEF Seen!PlayheadNext
  <2> QED
    BY <2>3, <2>4
<1>14. CASE DoPause
  <2>1. tl' = Pause(tl, now) /\ now' = now
    BY <1>14 DEF DoPause, Command
  <2>2. CASE ~IsLoaded(tl)
    BY <1>4, <2>1, <2>2 DEF Pause
  <2>3. CASE IsLoaded(tl)
    BY <1>1, <1>5, <2>1, <2>3, PauseKeeps DEF Seen!PlayheadNext
  <2> QED
    BY <2>2, <2>3
<1>15. CASE DoPlay \/ DoStart \/ DoOverdue
  <2>1. now' = now /\ (tl' = Play(tl, now) \/ tl' = tl)
    BY <1>15 DEF DoPlay, DoStart, DoOverdue, Command, StartPlayback
  <2>2. CASE tl' = tl
    BY <1>4, <2>1, <2>2
  <2>3. CASE tl' = Play(tl, now) /\ ~IsLoaded(tl)
    BY <1>4, <2>1, <2>3 DEF Play
  <2>4. CASE tl' = Play(tl, now) /\ IsLoaded(tl)
    BY <1>1, <1>5, <2>1, <2>4, PlayKeeps DEF Seen!PlayheadNext
  <2> QED
    BY <2>1, <2>2, <2>3, <2>4
<1>16. CASE UNCHANGED vars
  BY <1>4, <1>16 DEF vars
<1> QED
  BY <1>6, <1>7, <1>8, <1>9, <1>10, <1>11, <1>12, <1>13, <1>14, <1>15, <1>16 DEF Next

\* The timeline implements the playhead: play, pause, a change of rate or loop
\* and a ready report never move what a viewer sees (timeline.rs, reanchor).
THEOREM TimelineRefines == Spec => ImplementsPlayhead
<1>1. Init => Seen!PlayheadInit
  BY DEF Init, Idle, PositionAt, IsLoaded, Seen!PlayheadInit
<1>2. TypeOK /\ [Next]_vars => [Seen!PlayheadNext]_Seen!playheadVars
  BY PlayheadStep
<1> QED
  BY <1>1, <1>2, MachineTypes, PTL DEF Spec, ImplementsPlayhead, Seen!PlayheadSpec
=============================================================================
