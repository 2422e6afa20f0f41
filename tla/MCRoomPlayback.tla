--------------------------- MODULE MCRoomPlayback ---------------------------
(* Small rooms.  Each run picks its commands and backlog from these.        *)
EXTENDS RoomPlayback

const_Rates == {1, 2}

const_TwoItems   == {"a", "b"}
const_ThreeItems == {"a", "b", "c"}

const_NoLive == {}
const_Length == [i \in Items |-> IF i = "a" THEN 1 ELSE 0]

Ask(name, i, n) == [do |-> name, item |-> i, value |-> n]
AskAll(names) == {Ask(name, "a", 1) : name \in names}

const_EveryCommand ==
  AskAll(CommandNames \ {"rate", "playNow"})
    \cup {Ask("rate", "a", 2), Ask("playNow", "a", 1), Ask("playNow", "b", 1)}

const_Few      == AskAll({"next", "vote", "loop"})
const_Seek     == AskAll({"seek"})
const_Vote     == AskAll({"vote"})
const_Fill     == AskAll({"add", "next"})

const_Unknown == [i \in Items |-> 0]

const_BacklogABC == {<<"a", "b", "c">>}
const_BacklogAB == {<<"a", "b">>}
const_NoBacklog == {<<>>}
=============================================================================
