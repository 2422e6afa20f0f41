---------------------------- MODULE MCRoomLifecycle ----------------------------
(***************************************************************************)
(* A creator with two tabs, a member and a guest, in a room for two.         *)
(***************************************************************************)
EXTENDS RoomLifecycle

CONSTANTS o1, o2, a1, b1, O, A, B

MCSockets == {o1, o2, a1, b1}
MCUsers == {O, A, B}
MCVisitors == {B}
MCUserOf == o1 :> O @@ o2 :> O @@ a1 :> A @@ b1 :> B
=============================================================================
