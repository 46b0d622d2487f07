------------------------------ MODULE MCProbe ------------------------------
(***************************************************************************)
(* The run of Probe: a node with an apikey and one without are listed, or  *)
(* the second and an imported one whose URL is broken; a third node is     *)
(* pending, and sometimes another broken one.                              *)
(***************************************************************************)
EXTENDS Probe

CONSTANTS keyed, plain, waiting, broken, torn

MCLists  == {<<keyed, plain>>, <<plain, broken>>}
MCQueues == {<<waiting>>, <<waiting, torn>>}
=============================================================================
