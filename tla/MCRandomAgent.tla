---------------------------- MODULE MCRandomAgent -----------------------------
(***************************************************************************)
(* OcarinaRandomAgent over a library of up to two functions: an empty one, *)
(* one function, and two.                                                  *)
(***************************************************************************)
EXTENDS RandomAgent

MCLibraries == {<<>>, <<"f">>, <<"f", "g">>}
MCGrabBag == <<"empty", "id">>
=============================================================================
