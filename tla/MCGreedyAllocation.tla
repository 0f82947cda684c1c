------------------------- MODULE MCGreedyAllocation -------------------------
(***************************************************************************)
(* Small instances of GreedyAllocation.  The functions have the blocks of  *)
(* a short-circuit expression: b1 evaluates the left side and may skip b2, *)
(* which evaluates the right side; b3 and b4 use what was computed.  Such  *)
(* expressions make values live across blocks: in                          *)
(*     a[i] = (p + (q && f(r))) && s                                       *)
(* the address of a[i] and p are computed before the right sides are.      *)
(* There are fewer allocatable registers than values, as there are in a    *)
(* function whose expressions keep more than the machine's registers busy. *)
(***************************************************************************)
EXTENDS GreedyAllocation, TLC

CONSTANTS b1, b2, b3, b4, x, y, z, a0, s1, sp, MaxReads

MCBlock == {b1, b2, b3, b4}
TwoValues == {x, y}
ThreeValues == {x, y, z}
MCBlockWeight == [b \in MCBlock |-> 1]
MCNone == {}
MCOtherReg == {sp}

OneReg == {s1}
TwoRegs == {a0, s1}
ArgReg == {a0}
OneIndex == s1 :> 0
TwoIndex == a0 :> 0 @@ s1 :> 1

Slot == {1, 2, 3}

Succ == b1 :> <<b2, b3>> @@ b2 :> <<b3>> @@ b3 :> <<b4>> @@ b4 :> <<>>
Pred == b1 :> <<>> @@ b2 :> <<b1>> @@ b3 :> <<b1, b2>> @@ b4 :> <<b3>>

UpTo(n, S) == {U \in SUBSET S : Cardinality(U) <= n}

(* Where each value is written, and where it may be read. *)
Def == x :> <<b1, 1>> @@ y :> <<b1, 2>> @@ z :> <<b3, 1>>
ReadsOf(v) ==
  CASE v = x -> UpTo(1, {<<b2, 2>>, <<b3, 3>>, <<b4, 1>>, <<b4, 3>>})
    [] v = y -> UpTo(MaxReads, {b1, b2, b3} \X {2, 3} \ {<<b1, 2>>})
    [] v = z -> UpTo(2, {<<b3, 2>>, <<b3, 3>>, <<b4, 2>>})

(* What b2 calls: nothing, a function without arguments, or one that takes *)
(* y in a0 and whose result is read there; then x is the parameter that    *)
(* arrived in a0, and z (if it exists) is a copy of y.                     *)
FixedDefs(call) ==
  CASE call = "none" -> {}
    [] call = "plain" -> {<<b2, 2>>}
    [] call = "argument" -> {<<b2, 1>>, <<b2, 2>>}
FixedUses(call) ==
  IF call = "argument" THEN {<<b1, 1>>, <<b2, 2>>, <<b2, 3>>} ELSE {}
MovePlaces(call) ==
  IF call = "argument" THEN {<<b1, 1>>, <<b2, 1>>, <<b3, 1>>} ELSE {}

ReadPlaces(reads, call, v) ==
  reads[v] \cup (IF v = y /\ call = "argument" THEN {<<b2, 1>>, <<b3, 1>>} ELSE {})

CodeOf(reads, call) ==
  [b \in MCBlock |-> [i \in Slot |->
     LET p == <<b, i>>
         def == {v \in Vreg : Def[v] = p}
                  \cup (IF p \in FixedDefs(call) THEN {a0} ELSE {})
         use == {v \in Vreg : p \in ReadPlaces(reads, call, v)}
                  \cup (IF p \in FixedUses(call) THEN {a0} ELSE {})
     IN [def |-> SetToSeq(def), use |-> SetToSeq(use),
         move |-> p \in MovePlaces(call) /\ def # {} /\ Cardinality(use) = 1]]]

Build(reads, call) ==
  [blocks |-> <<b1, b2, b3, b4>>, succ |-> Succ, pred |-> Pred,
   code |-> CodeOf(reads, call)]

TwoReads == {x :> q[1] @@ y :> q[2] : q \in ReadsOf(x) \X ReadsOf(y)}
ThreeReads ==
  {x :> q[1] @@ y :> q[2] @@ z :> q[3] : q \in ReadsOf(x) \X ReadsOf(y) \X ReadsOf(z)}

WithoutCalls == {Build(reads, "none") : reads \in ThreeReads}
TwoValuesAndCalls ==
  {Build(q[1], q[2]) : q \in TwoReads \X {"none", "plain", "argument"}}
=============================================================================
