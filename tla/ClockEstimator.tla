---------------------------- MODULE ClockEstimator ----------------------------
(***************************************************************************)
(* The clock estimate of apps/web/src/realtime/clock.ts, as a function of  *)
(* the window of probes.  A probe is the pair of one-way delays it met: its *)
(* round trip is their sum, and Cristian's estimate is off by half their    *)
(* difference.  Errors are counted in quarters so that the mean of the two  *)
(* middle ones is an integer.                                               *)
(***************************************************************************)
EXTENDS Integers, Sequences, FiniteSets

CONSTANTS Delays,    \* one-way delays a probe may meet
          MaxWindow  \* bound on the probes in the window (WINDOW is 32)

\* A probe that answers before it was sent is not data.
ClockAssumption == Delays \subseteq Nat /\ MaxWindow \in Nat
ASSUME ClockAssumption

Probes == [up : Delays, down : Delays]
Rtt(p) == p.up + p.down
QuarterError(p) == 2 * (p.up - p.down)

Below(values, v) == Cardinality({i \in DOMAIN values : values[i] < v})
UpTo(values, v) == Cardinality({i \in DOMAIN values : values[i] <= v})

\* What sorting a finite family of numbers leaves at index k.
Sorted(values, k) ==
  CHOOSE v \in {values[i] : i \in DOMAIN values} :
    Below(values, v) < k /\ k <= UpTo(values, v)

\* The 20th percentile of the round trips.
Baseline(window) ==
  Sorted([i \in DOMAIN window |-> Rtt(window[i])], ((Len(window) * 2) \div 10) + 1)

\* A plausible bug: slow probes count as much as quick ones.
SurvivorsAll(window) == DOMAIN window

\* Those within half as much again of it, and at least the best one.
Survivors(window) ==
  LET near == {i \in DOMAIN window : 2 * Rtt(window[i]) <= 3 * Baseline(window)}
      best == CHOOSE i \in DOMAIN window : Rtt(window[i]) =
                Sorted([j \in DOMAIN window |-> Rtt(window[j])], 1)
  IN  IF near # {} THEN near ELSE {best}

Median(errors) ==
  LET count == Cardinality(DOMAIN errors)
      mid == count \div 2
  IN  IF count % 2 = 1 THEN Sorted(errors, mid + 1)
      ELSE (Sorted(errors, mid) + Sorted(errors, mid + 1)) \div 2

\* What recompute leaves the offset off by.
OffsetError(window) ==
  Median([i \in Survivors(window) |-> QuarterError(window[i])])

Windows == UNION {[1 .. n -> Probes] : n \in 1 .. MaxWindow}

\* If more than a fifth of the probes in the window came back within some
\* round trip, the estimate is within three quarters of it, whatever delays
\* and asymmetry the other four fifths met.
Robust ==
  \A window \in Windows :
    LET error == OffsetError(window)
    IN  \A r \in {Rtt(p) : p \in Probes} :
          Cardinality({i \in DOMAIN window : Rtt(window[i]) <= r}) > Len(window) \div 5
          => error <= 3 * r /\ -error <= 3 * r

=============================================================================
