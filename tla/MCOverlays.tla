----------------------------- MODULE MCOverlays -----------------------------
(* The row of an owner, and the user's menu. *)
EXTENDS Overlays, TLC

MCActions == "own" :> <<"rename", "move", "share", "delete">>
=============================================================================
