------------------------------ MODULE MCRoomView ------------------------------
(* Three people in a room: the one whose client is watched, the one who opened
   it, and somebody else.                                                   *)
EXTENDS RoomView
=============================================================================
