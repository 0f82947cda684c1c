-------------------------- MODULE MCExpressionCode --------------------------
(***************************************************************************)
(* Expressions of up to three operands over two variables, two constants   *)
(* and literals that fit or do not fit an immediate, as the value of every *)
(* kind of statement; conditions with comparisons and logical operators.   *)
(***************************************************************************)
EXTENDS ExpressionCode

MCVariables ==
  [x |-> [type |-> "int", init |-> <<>>],
   f |-> [type |-> "float", init |-> <<>>],
   k |-> [type |-> "int", init |-> <<-3>>],
   g |-> [type |-> "float", init |-> <<3>>]]

MCFunctions ==
  [h |-> [params |-> <<"int", "float", "int">>, result |-> "float"],
   i |-> [params |-> <<"float">>, result |-> "int"]]
MCBody(name, args) == IF name = "h" THEN args[2] ELSE ToInt(args[1])

MCMemories ==
  {[x |-> x, f |-> f, k |-> -3, g |-> 3] : x \in {-5, 0, MaxInt}, f \in {-3, 0}}

X == Var("x")
F == Var("f")
Small == Lit("int", 2)
Leaves == {X, F, Var("k"), Var("g"), Small, Lit("int", 7), Lit("float", 5)}
Unaries == {Un(op, e) : op \in {"Plus", "Minus", "Not"}, e \in Leaves \ {Var("k"), Lit("int", 7)}}
Operand1 == Leaves \cup Unaries \cup {Un("Not", Un("Not", X)), Un("Minus", Un("Not", X))}

(* C has no remainder of floats. *)
Sums ==
  {Bin(op, l, r) : op \in ArithmeticOps \ {"Mod"}, l \in Operand1, r \in Leaves}
    \cup {Bin("Mod", l, r) : l \in {X, Var("k"), Small, Un("Minus", X), Un("Not", X)},
                             r \in {X, Var("k"), Small, Lit("int", 7)}}
Mixed ==
  {Bin(op, Bin(q, X, Small), r) : op \in {"Sub", "Div"}, q \in {"Add", "Mul"}, r \in {X, F, Un("Minus", X)}}
    \cup {Bin(op, Small, Bin(q, X, r)) : op \in {"Sub", "Div"}, q \in {"Add", "Mul"}, r \in {X, F}}
    \cup {Un(op, Bin("Add", X, r)) : op \in {"Minus", "Not"}, r \in {X, Small}}
Calls ==
  {CallOf("h", <<a, b, c>>) : a \in {X, F, Lit("float", 5)}, b \in {X, Lit("int", 2), F, Un("Not", X)}, c \in {X, F}}
    \cup {Bin("Sub", CallOf("i", <<e>>), F) : e \in {X, F}}
    \cup {CallOf("i", <<X, X>>)}

Values == Operand1 \cup Sums \cup Mixed \cup Calls

Comparisons ==
  {Bin(op, l, r) : op \in RelationalOps \cup EqualityOps, l \in Operand1, r \in {X, F, Small, Lit("int", 7), Un("Not", X)}}
Nested ==
  {Bin(op, Bin(q, X, Small), r) : op \in {"Eq", "Lt", "And", "Or"}, q \in {"Lt", "Eq", "Ne"},
                                 r \in {X, F, Small, Lit("float", 5), Un("Not", X), Bin("Ge", F, X)}}
    \cup {Bin(op, l, r) : op \in LogicalOps, l \in {X, F, Small, Un("Not", X), Lit("float", 0)},
                          r \in {F, Lit("int", 0), Un("Not", X), CallOf("i", <<X>>)}}

(* ! of a float that is not constant, whose code does not hold C. *)
RECURSIVE NotOfFloat(_)
NotOfFloat(e) ==
  CASE e.kind \in {"literal", "variable"} -> FALSE
    [] e.kind = "unary" ->
         NotOfFloat(e.e) \/ (e.op = "Not" /\ Parse(e.e).type = "float" /\ ~IsConstant(Parse(e.e)))
    [] e.kind = "binary" -> NotOfFloat(e.l) \/ NotOfFloat(e.r)
    [] e.kind = "call" -> \E k \in DOMAIN e.args : NotOfFloat(e.args[k])


St(kind, type, name, e) == [kind |-> kind, type |-> type, name |-> name, e |-> e]

StatementsOf(values, conditions) ==
  {St("assign", "int", "x", e) : e \in values} \cup {St("assign", "float", "f", e) : e \in values}
    \cup {St(kind, type, "v", e) : kind \in {"declare", "constant", "global", "return"},
                                    type \in {"int", "float"}, e \in values}
    \cup {St("expression", "int", "v", e) : e \in values}
    \cup {St(kind, "int", "v", e) : kind \in Conditions, e \in conditions}

MCStatements ==
  StatementsOf({e \in Values : ~NotOfFloat(e)},
               {e \in Values \cup Comparisons \cup Nested : ~NotOfFloat(e)})
=============================================================================
