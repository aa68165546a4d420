---------------------------- MODULE MCRoomSession ----------------------------
(* The window starts a Core with both pipes; by hand it may have a duration.  *)
EXTENDS RoomSession

Started == {{"sender", "control"}, {"sender", "telemetry", "limit"}, {"control", "limit"}}
=============================================================================
