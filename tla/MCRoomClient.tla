----------------------------- MODULE MCRoomClient -----------------------------
(* One tab, two visits to the room, and the clock on small windows of quick,  *)
(* fair and slow one-way delays.                                             *)
EXTENDS RoomClient

MCDelays == {1, 2, 6}
=============================================================================
