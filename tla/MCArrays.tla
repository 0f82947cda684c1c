------------------------------ MODULE MCArrays ------------------------------
(***************************************************************************)
(* Arrays of one, two and three dimensions with up to eight words.         *)
(***************************************************************************)
EXTENDS Arrays

MCShapes == {<<3>>, <<2, 2>>, <<3, 2>>, <<2, 1, 2>>, <<2, 2, 2>>}
MCBaseTypes == {"int", "float"}
=============================================================================
