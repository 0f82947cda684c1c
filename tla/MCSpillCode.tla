---------------------------- MODULE MCSpillCode ----------------------------
(***************************************************************************)
(* Two integers, two floats and a result; every program defines the four   *)
(* first, then has one instruction of up to three operands and one that    *)
(* may read the result.  Slots 0 and 8 are near, the others are distant,   *)
(* so that any two operands meet in distant slots.                         *)
(***************************************************************************)
EXTENDS SpillCode

CONSTANTS x, y, f, g, z, t2

MCVreg == {x, y, f, g, z}
MCFloatVreg == {f, g}
MCScratch == {t2}
MCMaxImmediate == 8

Op(n, def, use) == Instr("op", n, def, use, 0)

Prefix == <<Op(1, <<x>>, <<>>), Op(2, <<y>>, <<>>), Op(3, <<f>>, <<>>), Op(4, <<g>>, <<>>)>>

(* Reading the same operand twice, two of a class, or one of each. *)
Reads == {<<x, x>>, <<x, y>>, <<f, f>>, <<f, g>>, <<x, f>>, <<g, y>>, <<t2, x>>, <<f, t2>>,
          <<t2, f, x>>}

Writes == {<<>>, <<z>>, <<t2>>, <<z, t2>>}

MayRead(def) ==
  Reads \cup (IF z \in ToSet(def) THEN {<<z, x>>, <<f, z>>, <<z, z>>, <<t2, z>>} ELSE {})

MCPrograms ==
  UNION {{Prefix \o <<Op(5, def, use[1]), Op(6, last, use[2])>> :
            last \in {<<>>, <<t2>>}, use \in Reads \X MayRead(def)} : def \in Writes}
=============================================================================
