------------------------------ MODULE MCLogin ------------------------------
(***************************************************************************)
(* The run of Login. Once a load or a rename has lost what was saved, its  *)
(* properties claim nothing more, and the run goes no further.             *)
(***************************************************************************)
EXTENDS Login

InOrder == ~overwrote /\ ~reordered
=============================================================================
