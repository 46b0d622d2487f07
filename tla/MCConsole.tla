----------------------------- MODULE MCConsole ------------------------------
(***************************************************************************)
(* The run of Console: two directories to import from. The two panels and  *)
(* the update check meet only in a restart and in the reload after an      *)
(* update, so that the run has one of them in use at a time. What a page   *)
(* shows after an answer was overtaken is not followed any further: the    *)
(* properties say nothing of it.                                           *)
(***************************************************************************)
EXTENDS Console, FiniteSets

InUse == {k \in Kinds : run[k] # None \/ Follows(k)}
           \cup (IF cache # None \/ floor \/ checks # <<>> THEN {"check"} ELSE {})

Apart == Cardinality(InUse) <= 1 /\ ~trouble
=============================================================================
