----------------------------- MODULE MCTimeline -----------------------------
(* A timeline with one item, two rates, one known length and three seeks.  *)
EXTENDS TimelineMachine

const_Items   == {"clip"}
const_Rates   == {1, 2}
const_Lengths == {3}
const_Seeks   == {0, 2, 5}
=============================================================================
