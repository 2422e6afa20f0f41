------------------------------ MODULE MCRoomLease ------------------------------
(* RoomLease on two nodes.                                                   *)
EXTENDS RoomLease
================================================================================
