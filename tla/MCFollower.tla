----------------------------- MODULE MCFollower -----------------------------
(***************************************************************************)
(* Two logs, three lines between them, one rotation, a torn write, and     *)
(* reads that take a line and a half.                                      *)
(***************************************************************************)
EXTENDS Follower
=============================================================================
