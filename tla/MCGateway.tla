----------------------------- MODULE MCGateway -----------------------------
(***************************************************************************)
(* The run of Gateway and of the Desk in front of it. It stops at the      *)
(* first index that is given back to the counter of another network, and   *)
(* follows overlapping saves, and what a confirmed request has left in the *)
(* file, only of a shop that has quoted nothing yet.                       *)
(* The card is used on a gateway that was neither killed nor asked for an  *)
(* order, with its saves as single steps, and not followed any further     *)
(* once it was used for a network it does not name.                        *)
(* Orders, saves and requests are only compared with their own kind, so    *)
(* they may be permuted.                                                   *)
(***************************************************************************)
EXTENDS Desk, TLC

Untraded == \A n \in Networks : store[n].next = 0
InOrder  == ~strayed /\ (overlapped \/ told # None => Untraded)

AtDesk == screen.at # "closed" \/ page.in
Apart  == AtDesk => Untraded /\ ~overlapped /\ crashes = 0 /\ told = None /\ ~hasty

InBounds == InOrder /\ Apart

Symmetry == Permutations(Orders) \cup Permutations(Calls) \cup Permutations(Slots)
=============================================================================
