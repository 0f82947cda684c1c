----------------------------- MODULE Expressions -----------------------------
(***************************************************************************)
(* From the text of an expression to its tree: the types, the conversions  *)
(* and the constants that create* of src/src/frontend/ast.cpp and          *)
(* compileTime.cpp compute while the parser reduces, next to what C says   *)
(* that the same text means.                                               *)
(*                                                                         *)
(* A Boolean is an integer 0 or 1.  Throws is an exception.                *)
(***************************************************************************)
EXTENDS Words, Sequences

CONSTANTS
  Variables,   \* what is declared: [name -> [type, init]], init a constant or <<>>
  Functions,   \* [name -> [params, result]]
  Body(_, _)   \* what the function with a name does to its arguments

-----------------------------------------------------------------------------
(* The text. *)

Lit(type, v) == [kind |-> "literal", type |-> type, value |-> v]
Var(name) == [kind |-> "variable", name |-> name]
Un(op, e) == [kind |-> "unary", op |-> op, e |-> e]
Bin(op, l, r) == [kind |-> "binary", op |-> op, l |-> l, r |-> r]
CallOf(name, args) == [kind |-> "call", name |-> name, args |-> args]

(* What C says: values of type int and float; Undefined is an operation    *)
(* whose result C leaves open.                                             *)

CInt(n) == IF n \in Int32 THEN [type |-> "int", v |-> n] ELSE [type |-> "undefined", v |-> 0]
CFloat(f) == [type |-> "float", v |-> f]
Undefined == CInt(MaxInt + 1)

Convert(type, x) ==
  IF x.type \in {type, "undefined"} THEN x
  ELSE IF type = "float" THEN CFloat(ToFloat(x.v)) ELSE CInt(ToInt(x.v))

Usual(x, y) == IF "float" \in {x.type, y.type} THEN "float" ELSE "int"

CArithmetic(op, x, y) ==
  IF Usual(x, y) = "float"
  THEN IF op = "Mod" THEN Undefined
       ELSE CFloat(FloatArithmetic(op, Convert("float", x).v, Convert("float", y).v))
  ELSE IF op \in {"Div", "Mod"} /\ (y.v = 0 \/ (x.v = MinInt /\ y.v = -1)) THEN Undefined
  ELSE CInt(IntArithmetic(op, x.v, y.v))

CCompare(op, x, y) ==
  LET type == Usual(x, y)
  IN CInt(Truth(Compare(op, Convert(type, x).v, Convert(type, y).v)))

RECURSIVE Meaning(_, _)
Meaning(e, memory) ==
  CASE e.kind = "literal" -> [type |-> e.type, v |-> e.value]
    [] e.kind = "variable" -> [type |-> Variables[e.name].type, v |-> memory[e.name]]
    [] e.kind = "unary" ->
         LET x == Meaning(e.e, memory)
         IN IF x.type = "undefined" \/ e.op = "Plus" THEN x
            ELSE IF e.op = "Not" THEN CInt(Truth(x.v = 0))
            ELSE IF x.type = "int" THEN CInt(-x.v) ELSE CFloat(Cut(-x.v))
    [] e.kind = "call" ->
         LET args == [k \in DOMAIN e.args |->
                        Convert(Functions[e.name].params[k], Meaning(e.args[k], memory))]
         IN IF \E k \in DOMAIN args : args[k].type = "undefined" THEN Undefined
            ELSE [type |-> Functions[e.name].result,
                  v |-> Body(e.name, [k \in DOMAIN args |-> args[k].v])]
    [] OTHER ->
         LET x == Meaning(e.l, memory)
             y == Meaning(e.r, memory)
             decided == e.op \in LogicalOps /\ (x.v # 0) = (e.op = "Or")
         IN IF x.type = "undefined" THEN x
            ELSE IF decided THEN CInt(Truth(e.op = "Or"))
            ELSE IF y.type = "undefined" THEN y
            ELSE IF e.op \in LogicalOps THEN CInt(Truth(y.v # 0))
            ELSE IF e.op \in ArithmeticOps THEN CArithmetic(e.op, x, y) ELSE CCompare(e.op, x, y)

-----------------------------------------------------------------------------
(* The tree. *)

Constant(type, v) == [node |-> "constant", type |-> type, value |-> v]
Identifier(name) ==
  [node |-> "identifier", type |-> Variables[name].type, name |-> name,
   init |-> Variables[name].init]
Binary(op, l, r, type) == [node |-> "binary", type |-> type, op |-> op, l |-> l, r |-> r]
Unary(op, e, type) == [node |-> "unary", type |-> type, op |-> op, e |-> e]
Cast(type, e) == [node |-> "cast", type |-> type, e |-> e]
Call(name, args) ==
  [node |-> "call", type |-> Functions[name].result, name |-> name, args |-> args]
Throws == [node |-> "throws", type |-> "none"]

Zero(type) == Constant(type, 0)

(* compileTime.cpp: operators on two constants of one type. *)
FoldBinary(op, l, r) ==
  LET both == {l.type, r.type}
      a == l.value
      b == r.value
  IN IF both = {"int"} /\ op \in ArithmeticOps THEN Constant("int", Wrap(IntArithmetic(op, a, b)))
     ELSE IF both = {"float"} /\ op \in ArithmeticOps \ {"Mod"}
     THEN Constant("float", FloatArithmetic(op, a, b))
     ELSE IF (both \in {{"int"}, {"float"}} /\ op \in RelationalOps)
               \/ (both \in {{"int"}, {"float"}, {"bool"}} /\ op \in EqualityOps)
     THEN Constant("bool", Truth(Compare(op, a, b)))
     ELSE IF both = {"bool"} /\ op = "And" THEN Constant("bool", Truth(a = 1 /\ b = 1))
     ELSE IF both = {"bool"} /\ op = "Or" THEN Constant("bool", Truth(a = 1 \/ b = 1))
     ELSE Throws

FoldUnary(op, e) ==
  IF e.type = "bool" /\ op = "Not" THEN Constant("bool", 1 - e.value)
  ELSE IF e.type = "int" /\ op \in {"Plus", "Minus"}
  THEN Constant("int", IF op = "Plus" THEN e.value ELSE Wrap(-e.value))
  ELSE IF e.type = "float" /\ op \in {"Plus", "Minus"}
  THEN Constant("float", IF op = "Plus" THEN e.value ELSE Cut(-e.value))
  ELSE Throws

MutRoundDown(type, e) ==
  Constant(type,
           IF type = "bool" THEN Truth(e.value # 0)
           ELSE IF type = "float" /\ e.type # "float" THEN ToFloat(e.value)
           ELSE IF type = "int" /\ e.type = "float" THEN e.value \div 2
           ELSE e.value)

FoldCast(type, e) ==
  Constant(type,
           IF type = "bool" THEN Truth(e.value # 0)
           ELSE IF type = "float" /\ e.type # "float" THEN ToFloat(e.value)
           ELSE IF type = "int" /\ e.type = "float" THEN ToInt(e.value)
           ELSE e.value)

(* isCompileTimeConstant and getCompileTimeConstantValue. *)
RECURSIVE IsConstant(_)
IsConstant(e) ==
  CASE e.node = "constant" -> TRUE
    [] e.node = "identifier" -> e.init # <<>>
    [] e.node = "binary" -> IsConstant(e.l) /\ IsConstant(e.r)
    [] e.node \in {"unary", "cast"} -> IsConstant(e.e)
    [] OTHER -> FALSE

RECURSIVE ValueOf(_)
ValueOf(e) ==
  CASE e.node = "constant" -> e
    [] e.node = "identifier" -> Constant(e.type, e.init[1])
    [] e.node = "binary" -> FoldBinary(e.op, ValueOf(e.l), ValueOf(e.r))
    [] e.node = "unary" -> FoldUnary(e.op, ValueOf(e.e))
    [] e.node = "cast" -> FoldCast(e.type, ValueOf(e.e))

Fold(e) == IF IsConstant(e) THEN ValueOf(e) ELSE e

(* The common type of two operands: conversions go to the larger type. *)
Common(types) ==
  IF "float" \in types THEN "float" ELSE IF "int" \in types THEN "int" ELSE "bool"

RECURSIVE CreateBinary(_, _, _), CreateCast(_, _)

(* Which operands an operator converts and to what. *)
Operands(op, types) ==
  IF op \in LogicalOps THEN "bool" ELSE Common(types)
Unsupported(op, types) ==
  \/ op \in ArithmeticOps /\ types = {"bool"}
  \/ op \in RelationalOps /\ "bool" \in types

CreateBinary(op, lhs, rhs) ==
  LET l == Fold(lhs)
      r == Fold(rhs)
      types == {l.type, r.type}
      to == Operands(op, types)
      result == IF op \in ArithmeticOps THEN to ELSE "bool"
  IN IF "none" \in types \/ Unsupported(op, types) THEN Throws
     ELSE Binary(op, CreateCast(to, l), CreateCast(to, r), result)

(* A conversion to Boolean is a comparison with zero. *)
CreateCast(type, e) ==
  LET v == Fold(e)
  IN IF v.type \in {type, "none"} THEN v
     ELSE IF type = "bool" THEN CreateBinary("Ne", v, Zero(v.type)) ELSE Cast(type, v)

(* What the operator needs as the type of its operand. *)
UnaryOperand(op, e) ==
  IF op = "Not" THEN CreateCast("bool", e)
  ELSE IF e.type = "bool" THEN CreateCast("int", e) ELSE e

(* The node has the type of the operand as it was before its conversion. *)
UnaryType(op, e) == e.type

CreateUnary(op, operand) ==
  LET e == Fold(operand)
  IN IF e.type = "none" THEN Throws
     ELSE IF IsConstant(e) THEN FoldUnary(op, ValueOf(UnaryOperand(op, e)))
     ELSE Unary(op, UnaryOperand(op, e), UnaryType(op, e))

CreateCall(name, args) ==
  LET params == Functions[name].params
  IN IF Len(args) # Len(params) \/ (\E k \in DOMAIN args : args[k].type = "none") THEN Throws
     ELSE Call(name, [k \in DOMAIN args |-> CreateCast(params[k], args[k])])

(* The reductions of the parser. *)
RECURSIVE Parse(_)
Parse(e) ==
  CASE e.kind = "literal" -> Constant(e.type, e.value)
    [] e.kind = "variable" -> Identifier(e.name)
    [] e.kind = "unary" -> CreateUnary(e.op, Parse(e.e))
    [] e.kind = "binary" -> CreateBinary(e.op, Parse(e.l), Parse(e.r))
    [] e.kind = "call" -> CreateCall(e.name, [k \in DOMAIN e.args |-> Parse(e.args[k])])
=============================================================================
