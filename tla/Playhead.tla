------------------------------ MODULE Playhead ------------------------------
(***************************************************************************)
(* What the room promises its viewers, with no anchors and no arithmetic:  *)
(* there is one playhead, time moves it forward at the current speed and   *)
(* stops it at the end, and nothing else moves it except a command that    *)
(* says where it should go.  apps/server/src/sync/timeline.rs, lines 1-11, *)
(* is this promise in prose; module TimelineMachine is shown to keep it.   *)
(***************************************************************************)
EXTENDS Integers

CONSTANTS Videos, NoVideo,
          Speeds,           \* the speeds a viewer may choose
          Spots             \* the positions a seek may name

VARIABLES video,    \* what is loaded
          media,    \* where the playhead is
          speed,    \* position units per time unit, 0 while held or paused
          length    \* where the video ends, 0 while unknown

playheadVars == <<video, media, speed, length>>

Capped(p, len) == IF len > 0 /\ p > len THEN len ELSE p

PlayheadInit ==
  /\ video = NoVideo
  /\ media = 0
  /\ speed = 0
  /\ length = 0

\* Time passes.
Advance ==
  /\ media' = Capped(media + speed, length)
  /\ UNCHANGED <<video, speed, length>>

\* A source is put up, at its start and not moving.
Cue ==
  /\ video' \in Videos
  /\ length' \in Nat
  /\ media' = 0
  /\ speed' = 0

\* The room goes idle.
Eject ==
  /\ video' = NoVideo
  /\ media' = 0
  /\ speed' = 0
  /\ length' = 0

\* Play, pause, change of rate: the playhead stays exactly where it is.
ChangeSpeed ==
  /\ video # NoVideo
  /\ speed' \in Speeds \cup {0}
  /\ UNCHANGED <<video, media, length>>

\* A seek goes where it says, or to the end, and keeps the speed.
Jump ==
  /\ video # NoVideo
  /\ \E p \in Spots : media' = Capped(p, length)
  /\ UNCHANGED <<video, speed, length>>

\* From the top, running.
Rewind ==
  /\ video # NoVideo
  /\ media' = 0
  /\ speed' \in Speeds
  /\ UNCHANGED <<video, length>>

\* The end of the video becomes known, once.
LearnLength ==
  /\ video # NoVideo
  /\ length = 0
  /\ length' \in Nat \ {0}
  /\ media' = Capped(media, length')
  /\ UNCHANGED <<video, speed>>

PlayheadNext ==
  \/ Advance \/ Cue \/ Eject
  \/ ChangeSpeed \/ Jump \/ Rewind \/ LearnLength

PlayheadSpec == PlayheadInit /\ [][PlayheadNext]_playheadVars
=============================================================================
