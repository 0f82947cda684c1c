----------------------------- MODULE MCLiveness -----------------------------
(***************************************************************************)
(* Small instance of Liveness: functions of four blocks of two             *)
(* instructions each, in the three shapes that statements compile to (if   *)
(* with else, while, if without else), with two virtual registers that     *)
(* are written once and read only where that write dominates, as the       *)
(* instruction selection of SSA-like code leaves them, and optionally an   *)
(* argument register that is read at the entry and written by a call.      *)
(***************************************************************************)
EXTENDS Liveness

CONSTANTS b1, b2, b3, b4, b5, x, y, a0

MCBlock == {b1, b2, b3, b4}
MCOperand == {x, y, a0}

Slot == {1, 2}
Position == MCBlock \X Slot

IfElse ==
  [succ |-> (b1 :> <<b2, b3>> @@ b2 :> <<b4>> @@ b3 :> <<b4>> @@ b4 :> <<>>),
   pred |-> (b1 :> <<>> @@ b2 :> <<b1>> @@ b3 :> <<b1>> @@ b4 :> <<b2, b3>>),
   dom |-> (b1 :> MCBlock @@ b2 :> {b2} @@ b3 :> {b3} @@ b4 :> {b4})]

While ==
  [succ |-> (b1 :> <<b2>> @@ b2 :> <<b3, b4>> @@ b3 :> <<b2>> @@ b4 :> <<>>),
   pred |-> (b1 :> <<>> @@ b2 :> <<b1, b3>> @@ b3 :> <<b2>> @@ b4 :> <<b2>>),
   dom |-> (b1 :> MCBlock @@ b2 :> {b2, b3, b4} @@ b3 :> {b3} @@ b4 :> {b4})]

If ==
  [succ |-> (b1 :> <<b2, b3>> @@ b2 :> <<b3>> @@ b3 :> <<b4>> @@ b4 :> <<>>),
   pred |-> (b1 :> <<>> @@ b2 :> <<b1>> @@ b3 :> <<b1, b2>> @@ b4 :> <<b3>>),
   dom |-> (b1 :> MCBlock @@ b2 :> {b2} @@ b3 :> {b3, b4} @@ b4 :> {b4})]

Dominates(shape, d, p) ==
  \/ p[1] = d[1] /\ p[2] > d[2]
  \/ p[1] # d[1] /\ p[1] \in shape.dom[d[1]]

(* One write of a virtual register and the reads of it. *)
LivesOfX ==
  {[def |-> {d}, use |-> U] :
     d \in {<<b1, 1>>, <<b2, 1>>, <<b3, 2>>}, U \in {V \in SUBSET Position : Cardinality(V) <= 2}}
LivesOfY ==
  {[def |-> {d}, use |-> U] :
     d \in {<<b1, 2>>, <<b2, 2>>}, U \in {V \in SUBSET Position : Cardinality(V) <= 1}}

ArgumentLives ==
  {[def |-> {}, use |-> {}], [def |-> {<<b3, 1>>}, use |-> {<<b1, 1>>, <<b3, 2>>}]}

Build(shape, lives) ==
  [blocks |-> <<b1, b2, b3, b4>>,
   succ |-> shape.succ,
   pred |-> shape.pred,
   code |-> [b \in MCBlock |-> [i \in Slot |->
     [def |-> SetToSeq({o \in MCOperand : <<b, i>> \in lives[o].def}),
      use |-> SetToSeq({o \in MCOperand : <<b, i>> \in lives[o].use}),
      move |-> FALSE]]]]

Dominating(shape, l) == \A d \in l.def, p \in l.use : Dominates(shape, d, p)

MCPrograms ==
  {Build(q[1], x :> q[2] @@ y :> q[3] @@ a0 :> q[4]) :
     q \in {q \in {IfElse, While, If} \X LivesOfX \X LivesOfY \X ArgumentLives :
              Dominating(q[1], q[2]) /\ Dominating(q[1], q[3])}}

-----------------------------------------------------------------------------
(* return e; while (c) s;  The loop is not reachable, but its condition b2 *)
(* and its body b3 mention each other, so that remove_unused_block keeps   *)
(* them: only a block that nothing jumps to goes away.                     *)
DeadLoopBlock == {b1, b2, b3, b4, b5}

DeadLoop(defs, uses) ==
  [blocks |-> <<b1, b2, b3, b4, b5>>,
   succ |-> (b1 :> <<b5>> @@ b2 :> <<b3, b4>> @@ b3 :> <<b2>> @@ b4 :> <<b5>> @@ b5 :> <<>>),
   pred |-> (b1 :> <<>> @@ b2 :> <<b3>> @@ b3 :> <<b2>> @@ b4 :> <<b2>> @@ b5 :> <<b1, b4>>),
   code |-> [b \in DeadLoopBlock |-> [i \in Slot |->
     [def |-> SetToSeq({o \in MCOperand : <<b, i>> \in defs[o]}),
      use |-> SetToSeq({o \in MCOperand : <<b, i>> \in uses[o]}),
      move |-> FALSE]]]]

DeadLoopPrograms ==
  {DeadLoop(x :> {<<b1, 1>>} @@ y :> {<<b2, 1>>} @@ a0 :> {<<b5, 1>>},
            x :> U @@ y :> V @@ a0 :> {<<b5, 2>>}) :
     U \in SUBSET {<<b1, 2>>}, V \in SUBSET {<<b2, 2>>}}
=============================================================================
