--------------------------- MODULE MCControlFlow ---------------------------
(***************************************************************************)
(* Functions of one or two statements at the top, with an if or a loop and *)
(* in it an if, a loop or a block of two statements: every way to leave a  *)
(* nest of two loops, code after a return, a break or a continue, constant *)
(* conditions, and conditions of up to three operands.                     *)
(***************************************************************************)
EXTENDS ControlFlow

E(name) == [kind |-> "effect", name |-> name]
BlockOf(body) == [kind |-> "block", body |-> body]
If(cond, then, else) == [kind |-> "if", cond |-> cond, then |-> then, else |-> else]
While(cond, body) == [kind |-> "while", cond |-> cond, body |-> body]
Break == [kind |-> "break"]
Continue == [kind |-> "continue"]
Return(v) == [kind |-> "return", value |-> v]

A == [kind |-> "test", atom |-> "a"]
B == [kind |-> "test", atom |-> "b"]
C == [kind |-> "test", atom |-> "c"]
Constant(v) == [kind |-> "const", value |-> v]
Neg(e) == [kind |-> "not", e |-> e]
And(l, r) == [kind |-> "and", l |-> l, r |-> r]
Or(l, r) == [kind |-> "or", l |-> l, r |-> r]

LogicalConditions ==
  {And(A, B), Or(A, B), Or(And(A, B), C), And(Or(A, B), C), And(A, Or(B, C)),
   Or(A, And(B, C)), Neg(And(A, B)), And(Neg(A), B), Or(Constant(FALSE), A),
   And(Constant(TRUE), A), And(A, Constant(FALSE))}

SimpleConditions == {A, Constant(TRUE), Constant(FALSE)}

(* Ways to leave; returns are of a function of type int. *)
Leaves == {Return(<<TRUE>>), Break, Continue}
Inner == Leaves \cup {E("e"), Blank}
InnerBlocks ==
  {BlockOf(<<E("e"), l>>) : l \in Leaves} \cup {BlockOf(<<l, E("e")>>) : l \in Leaves}
    \cup {BlockOf(<<BlockOf(<<Break, E("e")>>), E("f")>>)}

(* A statement of the body of a loop. *)
LoopBodies ==
  Inner \cup InnerBlocks
    \cup {If(B, s, <<>>) : s \in Inner \cup InnerBlocks}
    \cup {If(B, s, <<t>>) : s \in Leaves, t \in Inner}
    \cup {If(Constant(v), s, <<E("f")>>) : v \in BOOLEAN, s \in InnerBlocks}
    \cup {BlockOf(<<If(B, s, <<t>>), E("f")>>) : s \in Leaves, t \in Leaves}
    \cup {While(B, s) : s \in Inner}
    \cup {BlockOf(<<While(B, s), t>>) : s \in Leaves, t \in Leaves}
    \cup {BlockOf(<<s, While(B, E("e"))>>) : s \in Leaves}
    \cup {While(B, If(C, s, <<t>>)) : s \in Inner, t \in Inner}
    \cup {BlockOf(<<While(B, BlockOf(<<If(C, s, <<>>), t>>)), E("f")>>) :
             s \in Inner, t \in Inner}
    \cup {BlockOf(<<s, If(B, E("e"), <<>>), t>>) : s \in Leaves, t \in Leaves}

Loops ==
  {While(c, s) : c \in SimpleConditions, s \in LoopBodies}
    \cup {While(c, If(d, s, <<>>)) :
             c \in LogicalConditions, d \in {A, Or(B, Neg(C))}, s \in {Break, Continue}}

TopLevel ==
  Loops \cup {If(c, E("e"), <<E("f")>>) : c \in LogicalConditions}
    \cup {[kind |-> "expression", cond |-> c] : c \in LogicalConditions}
    \cup {If(A, Return(<<FALSE>>), <<s>>) : s \in {Return(<<TRUE>>), BlockOf(<<Blank>>), E("e")}}

Function(void, params, body) == [void |-> void, params |-> params, body |-> body]

IntFunctions ==
  {Function(FALSE, 0, body) :
     body \in {<<s, Return(<<FALSE>>)>> : s \in TopLevel}
                \cup {<<Return(<<TRUE>>), s>> : s \in {s \in TopLevel : s.kind # "while"}}}

VoidBodies ==
  {<<Blank>>, <<Return(<<>>)>>, <<E("e")>>, <<If(A, Return(<<>>), <<>>), E("e")>>,
   <<While(A, Return(<<>>))>>, <<Return(<<>>), While(A, E("e"))>>}

VoidFunctions == {Function(TRUE, n, body) : n \in 0 .. 1, body \in VoidBodies}

MCPrograms == IntFunctions \cup VoidFunctions
=============================================================================
