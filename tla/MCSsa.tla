------------------------------- MODULE MCSsa -------------------------------
(***************************************************************************)
(* Functions of the shapes that statements compile to: each block between  *)
(* the first and the last writes, copies or swaps variables x and y, or    *)
(* says one; m is an array, which stays in memory.                         *)
(***************************************************************************)
EXTENDS Ssa

x == Variable(1)
y == Variable(2)
m == Variable(3)

(* Successors: first the way taken when a condition holds.                 *)
MCIf == <<<<2, 3>>, <<3>>, <<>>>>
MCIfElse == <<<<2, 3>>, <<4>>, <<4>>, <<>>>>
MCAndOr == <<<<2, 3>>, <<3, 4>>, <<4>>, <<>>>>
MCWhile == <<<<2>>, <<3, 4>>, <<2>>, <<>>>>
MCBreak == <<<<2>>, <<3, 5>>, <<5, 4>>, <<2>>, <<>>>>
MCContinue == <<<<2>>, <<3, 5>>, <<2, 4>>, <<2>>, <<>>>>
MCTwoWays == <<<<2>>, <<3, 6>>, <<4, 5>>, <<2>>, <<2>>, <<>>>>
MCNested == <<<<2>>, <<3, 5>>, <<4, 2>>, <<3>>, <<>>>>
MCGraphs == {MCIf, MCIfElse, MCAndOr, MCWhile, MCBreak, MCContinue, MCTwoWays, MCNested}

MCLocal(b, k) == Local(10 * b + k)
MCBodies(b) ==
  {<<>>,
   <<Store(Const(b), x)>>,
   <<Load(MCLocal(b, 1), x), Say(MCLocal(b, 1))>>,
   <<Load(MCLocal(b, 1), y), Store(MCLocal(b, 1), x)>>,
   <<Load(MCLocal(b, 1), x), Load(MCLocal(b, 2), y),
     Store(MCLocal(b, 1), y), Store(MCLocal(b, 2), x)>>,
   <<Load(MCLocal(b, 1), y), Store(MCLocal(b, 1), m)>>}

MCFirst == {<<>>, <<Store(Const(1), y)>>}
MCDeclarations == <<Alloca(x, TRUE), Alloca(y, TRUE), Alloca(m, FALSE)>>
MCLast(b) ==
  <<Load(MCLocal(b, 1), x), Load(MCLocal(b, 2), y), Load(MCLocal(b, 3), m),
    Say(MCLocal(b, 1)), Say(MCLocal(b, 2)), Say(MCLocal(b, 3)), Ret>>

MCExit(next) ==
  IF Len(next) = 1 THEN <<Jump(next[1])>> ELSE <<Br(next[1], next[2])>>

MCFunctionsOn(g) ==
  {[b \in DOMAIN g |->
      IF b = 1 THEN MCDeclarations \o first \o MCExit(g[b])
      ELSE IF b = Len(g) THEN MCLast(b)
      ELSE body[b] \o MCExit(g[b])] :
     first \in MCFirst,
     body \in {f \in [2 .. Len(g) - 1 -> UNION {MCBodies(b) : b \in 2 .. Len(g) - 1}] :
                 \A b \in DOMAIN f : f[b] \in MCBodies(b)}}

MCFunctions == UNION {MCFunctionsOn(g) : g \in MCGraphs}
=============================================================================
