---------------------------- MODULE MCRoomClient ----------------------------
(* RoomClient with two rooms: the user's own and one that is either to be  *)
(* created or to be joined.                                                *)
EXTENDS RoomClient
=============================================================================
