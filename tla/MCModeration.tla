---------------------------- MODULE MCModeration ----------------------------
(***************************************************************************)
(* The runs of Moderation. Once two operations on one name have overlapped *)
(* its invariants claim nothing more, so that the run that checks them     *)
(* goes no further than the state in which that happens (Isolated). The    *)
(* run that shows what an overlap does has no constraint.                  *)
(***************************************************************************)
EXTENDS Moderation

Isolated == ~overlapped
=============================================================================
