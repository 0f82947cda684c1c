--------------------------- MODULE ExpressionCode ---------------------------
(***************************************************************************)
(* A statement around one expression: the instructions that irgen_expr     *)
(* (src/src/frontend/irgen.cpp) makes of its tree, the RISC-V instructions *)
(* that codegen_instruction (src/src/ir/codegen.cpp) selects for them one  *)
(* by one, and their execution.  Registers have 2 * Width bits; integers   *)
(* are kept in them sign-extended, and the W forms of the instructions see *)
(* to that.  Short immediates have ImmediateWidth bits.                    *)
(*                                                                         *)
(* Code of a condition is kept in one list with labels; which block it     *)
(* goes to is the business of ControlFlow.                                 *)
(***************************************************************************)
EXTENDS Expressions, FiniteSets, SequencesExt, Bitwise

CONSTANTS
  ImmediateWidth, \* 12 in the code
  Statements,     \* [kind, e, type, name, global]
  Memories        \* values of the variables

ASSUME ImmediateAssumption == ImmediateWidth \in Nat /\ 1 < ImmediateWidth /\ ImmediateWidth <= Width

VARIABLES
  statement, memory, \* the statement and the variables it starts from
  phase,             \* "parse", "select", "run", "done", or "rejected"
  ir,                \* the instructions that are still to be translated
  vreg,              \* operand_map: the virtual registers of the locals
  fresh,             \* the next virtual register
  asm,               \* what has been selected
  regs, cells, pc,   \* the machine: registers, memory by name, next instruction
  calls,             \* calls made: name and arguments
  entry              \* value of the symbol table entry that a declaration makes

vars == <<statement, memory, phase, ir, vreg, fresh, asm, regs, cells, pc, calls, entry>>

-----------------------------------------------------------------------------
(* IR. Locals are numbered in the order in which they are fetched, labels  *)
(* with them. *)

Local(id, type) == [kind |-> "local", id |-> id, type |-> type]
Imm(type, v) == [kind |-> "constant", type |-> type, value |-> v]

Load(dst, ptr) == [op |-> "load", dst |-> dst, ptr |-> ptr]
Store(src, ptr) == [op |-> "store", src |-> src, ptr |-> ptr]
Operate(op, what, dst, l, r) == [op |-> op, what |-> what, dst |-> dst, l |-> l, r |-> r]
CastTo(what, dst, src) == [op |-> "cast", what |-> what, dst |-> dst, src |-> src]
Branch(cond, yes, no) == [op |-> "branch", cond |-> cond, yes |-> yes, no |-> no]
Jump(to) == [op |-> "jump", to |-> to]
Label(id) == [op |-> "label", id |-> id]
CallTo(dst, name, args) == [op |-> "call", dst |-> dst, name |-> name, args |-> args]

(* irgen_expr returns code, the operand with the value, the next number.   *)
Generated(code, is, next) == [code |-> code, is |-> is, next |-> next]

(* A binary operator on two operands: what becomes of the six comparisons. *)
BinaryInstruction(e, dst, l, r) ==
  LET float == e.l.type = "float"
      compare == IF float THEN "fcmp" ELSE "icmp"
  IN CASE e.op \in ArithmeticOps ->
            Operate(IF e.type = "float" /\ e.op # "Mod" THEN "fbinary" ELSE "ibinary", e.op, dst, l, r)
       [] e.op \in {"Lt", "Le", "Eq", "Ne"} -> Operate(compare, e.op, dst, l, r)
       [] e.op = "Gt" -> Operate(compare, "Lt", dst, r, l)
       [] e.op = "Ge" -> Operate(compare, "Le", dst, r, l)

(* And and Or keep their result in a local variable, here named by its     *)
(* number.                                                                 *)
Cell(n) == ToString(n)

LogicalCode(op, l, r, n) ==
  LET rhs == n + 1
      true == n + 2
      false == n + 3
      tail == n + 4
      dst == Local(r.next, "bool")
  IN Generated(
       l.code
         \o <<IF op = "And" THEN Branch(l.is, rhs, false) ELSE Branch(l.is, true, rhs), Label(rhs)>>
         \o r.code
         \o <<Branch(r.is, true, false),
              Label(true), Store(Imm("bool", 1), Cell(n)), Jump(tail),
              Label(false), Store(Imm("bool", 0), Cell(n)), Jump(tail),
              Label(tail), Load(dst, Cell(n))>>,
       dst, r.next + 1)

CastCode(type, e, g) ==
  LET dst == Local(g.next, type)
      second == Local(g.next + 1, type)
  IN CASE e.type = "int" /\ type = "float" ->
            Generated(g.code \o <<CastTo("I2F", dst, g.is)>>, dst, g.next + 1)
       [] e.type = "float" /\ type = "int" ->
            Generated(g.code \o <<CastTo("F2I", dst, g.is)>>, dst, g.next + 1)
       [] e.type = "bool" /\ type = "int" ->
            Generated(g.code \o <<CastTo("Ext", dst, g.is)>>, dst, g.next + 1)
       [] e.type = "bool" /\ type = "float" ->
            Generated(g.code \o <<CastTo("Ext", Local(g.next, "int"), g.is),
                                  CastTo("I2F", second, g.is)>>,
                      second, g.next + 2)

UnaryCode(op, e, g) ==
  LET dst == Local(g.next, IF op = "Not" THEN "bool" ELSE e.type)
      zero == Imm(dst.type, 0)
      inst == IF op = "Not" THEN Operate("icmp", "Eq", dst, g.is, zero)
              ELSE Operate(IF e.type = "float" THEN "fbinary" ELSE "ibinary", "Sub", dst, zero, g.is)
  IN IF op = "Plus" THEN g ELSE Generated(Append(g.code, inst), dst, g.next + 1)

RECURSIVE Generate(_, _)
Generate(e, n) ==
  CASE e.node = "constant" -> Generated(<<>>, Imm(e.type, e.value), n)
    [] e.node = "identifier" -> Generated(<<Load(Local(n, e.type), e.name)>>, Local(n, e.type), n + 1)
    [] e.node = "binary" /\ e.op \in LogicalOps ->
         LET l == Generate(e.l, n + 5) IN LogicalCode(e.op, l, Generate(e.r, l.next), n)
    [] e.node = "binary" /\ e.op \notin LogicalOps ->
         LET l == Generate(e.l, n)
             r == Generate(e.r, l.next)
             dst == Local(r.next, e.type)
         IN Generated(l.code \o r.code \o <<BinaryInstruction(e, dst, l.is, r.is)>>, dst, r.next + 1)
    [] e.node = "cast" -> CastCode(e.type, e.e, Generate(e.e, n))
    [] e.node = "unary" -> UnaryCode(e.op, e.e, Generate(e.e, n))
    [] e.node = "call" ->
         LET dst == Local(n, e.type)
             args[k \in 0 .. Len(e.args)] ==
               IF k = 0 THEN [code |-> <<>>, is |-> <<>>, next |-> n + 1]
               ELSE LET before == args[k - 1]
                        g == Generate(e.args[k], before.next)
                    IN [code |-> before.code \o g.code, is |-> Append(before.is, g.is), next |-> g.next]
             all == args[Len(e.args)]
         IN Generated(Append(all.code, CallTo(dst, e.name, all.is)), dst, all.next)

-----------------------------------------------------------------------------
(* Statements: what is done with the value of the expression. The cell     *)
(* "result" is the local variable for the result of a function; a branch   *)
(* of an if or of a loop leaves there that it was taken.                   *)

Declarations == {"declare", "constant", "global"}
Conditions == {"if", "while"}

CreateStatement(s) ==
  LET e == Parse(s.e)
  IN IF s.kind \in Conditions THEN CreateCast("bool", e)
     ELSE IF s.kind = "expression" \/ (s.kind # "assign" /\ e.type = s.type) THEN e
     ELSE CreateCast(s.type, e)

(* A compile time constant makes no code in an expression statement, and   *)
(* as the condition of an if it selects a branch.                          *)
Dropped(s, e) == s.kind = "global" \/ (s.kind = "expression" /\ IsConstant(e))
Selected(s, e) == s.kind = "if" /\ IsConstant(e)

Taken(n) == Store(Imm("int", n), "result")

BranchCode(g) ==
  LET yes == g.next
      no == g.next + 1
      tail == g.next + 2
  IN g.code \o <<Branch(g.is, yes, no), Label(yes), Taken(1), Jump(tail),
                 Label(no), Taken(0), Label(tail)>>

ReturnCode(s, g) ==
  LET block == g.next
      dst == Local(g.next + 1, s.type)
  IN g.code \o <<Store(g.is, "result"), Jump(block), Label(block),
                 Load(dst, "result"), [op |-> "ret", src |-> dst]>>

StatementCode(s, e) ==
  IF Dropped(s, e) THEN <<>>
  ELSE IF Selected(s, e) THEN <<Taken(ValueOf(e).value)>>
  ELSE LET g == Generate(e, 1)
       IN CASE s.kind \in Conditions -> BranchCode(g)
            [] s.kind = "return" -> ReturnCode(s, g)
            [] s.kind = "expression" -> g.code
            [] OTHER -> Append(g.code, Store(g.is, s.name))

-----------------------------------------------------------------------------
(* RISC-V. *)

Reg(class, name, n) == [class |-> class, name |-> name, n |-> n]
Virtual(class, n) == Reg(class, "v", n)
ZeroReg == Reg("general", "zero", 0)
Argument(class, n) == Reg(class, "a", n)
ClassOf(type) == IF type = "float" THEN "float" ELSE "general"

Inst(op, defs, uses, arg) == [op |-> op, defs |-> defs, uses |-> uses, arg |-> arg]
Three(op, rd, rs1, rs2) == Inst(op, <<rd>>, <<rs1, rs2>>, 0)
Two(op, rd, rs, imm) == Inst(op, <<rd>>, <<rs>>, imm)
Li(rd, imm) == Inst("li", <<rd>>, <<>>, imm)

ShortImmediates == -(2 ^ (ImmediateWidth - 1)) .. 2 ^ (ImmediateWidth - 1) - 1

(* codegen_operand: a constant stays an immediate, or goes to a register,  *)
(* the bits of a float on request to a float register.                     *)
Operand(code, is, next) == [code |-> code, is |-> is, next |-> next]
IsImmediate(x) == x.is.class = "immediate"

MutNoMove(x, keepImmediate, moveFloat, n) ==
  IF x.kind = "local" THEN Operand(<<>>, vreg[x.id].reg, n)
  ELSE IF x.type # "float" /\ keepImmediate /\ x.value \in ShortImmediates
  THEN Operand(<<>>, Reg("immediate", "imm", x.value), n)
  ELSE Operand(<<Li(Virtual("general", n), Unsigned(x.value, Width))>>, Virtual("general", n), n + 1)

AsmOperand(x, keepImmediate, moveFloat, n) ==
  LET general == Virtual("general", n)
      float == Virtual("float", n + 1)
  IN IF x.kind = "local" THEN Operand(<<>>, vreg[x.id].reg, n)
     ELSE IF x.type # "float"
     THEN IF keepImmediate /\ x.value \in ShortImmediates
          THEN Operand(<<>>, Reg("immediate", "imm", x.value), n)
          ELSE Operand(<<Li(general, x.value)>>, general, n + 1)
     ELSE LET bits == Li(general, Unsigned(x.value, Width))
          IN IF moveFloat
             THEN Operand(<<bits, Inst("fmv.w.x", <<float>>, <<general>>, 0)>>, float, n + 2)
             ELSE Operand(<<bits>>, general, n + 1)

RegOrImmediate(opImm, op, rd, rs, x) ==
  IF IsImmediate(x) THEN Two(opImm, rd, rs, x.is.n) ELSE Three(op, rd, rs, x.is)

-----------------------------------------------------------------------------
(* Selection: one action per instruction. *)

Translate(kinds) == phase = "select" /\ ir # <<>> /\ Head(ir).op \in kinds
SelectedCode(code, next) ==
  /\ asm' = asm \o code
  /\ fresh' = next
  /\ ir' = Tail(ir)
  /\ UNCHANGED <<statement, memory, phase, regs, cells, pc, calls, entry>>
(* codegen_vreg *)
Defines(dst) == (dst.id :> [reg |-> Virtual(ClassOf(dst.type), fresh), type |-> dst.type]) @@ vreg
Dst(x) == Virtual(ClassOf(x.dst.type), fresh)

SelectStore ==
  /\ Translate({"store"})
  /\ LET v == AsmOperand(Head(ir).src, FALSE, FALSE, fresh)
         op == IF v.is.class = "float" THEN "fsw" ELSE "sw"
     IN SelectedCode(Append(v.code, Inst(op, <<>>, <<v.is>>, Head(ir).ptr)), v.next)
  /\ UNCHANGED vreg

SelectLoad ==
  /\ Translate({"load"})
  /\ LET x == Head(ir)
     IN /\ SelectedCode(<<Inst(IF Dst(x).class = "float" THEN "flw" ELSE "lw",
                               <<Dst(x)>>, <<>>, x.ptr)>>, fresh + 1)
        /\ vreg' = Defines(x.dst)

IntegerOp(what) ==
  CASE what = "Add" -> "addw" [] what = "Sub" -> "subw" [] what = "Mul" -> "mulw"
    [] what = "Div" -> "divw" [] what = "Mod" -> "remw"
FloatOp(what) ==
  CASE what = "Add" -> "fadd" [] what = "Sub" -> "fsub" [] what = "Mul" -> "fmul"
    [] what = "Div" -> "fdiv"

MutWideAdd(x, l, r) == RegOrImmediate("addi", IntegerOp(x.what), Dst(x), l.is, r)
IntegerInstruction(x, l, r) == RegOrImmediate("addiw", IntegerOp(x.what), Dst(x), l.is, r)

SelectBinary ==
  /\ Translate({"ibinary", "fbinary"})
  /\ LET x == Head(ir)
         float == x.op = "fbinary"
         l == AsmOperand(x.l, FALSE, TRUE, fresh + 1)
         r == AsmOperand(x.r, x.what = "Add" /\ ~float, float, l.next)
         inst == IF float THEN Three(FloatOp(x.what), Dst(x), l.is, r.is)
                 ELSE IntegerInstruction(x, l, r)
     IN /\ SelectedCode(l.code \o r.code \o <<inst>>, r.next)
        /\ vreg' = Defines(x.dst)

(* Equal if the exclusive or is zero; a <= b as not b < a. *)
EqualCode(x, tmp, l, r) ==
  <<RegOrImmediate("xori", "xor", tmp, l.is, r),
    IF x.what = "Eq" THEN Two("sltiu", Dst(x), tmp, 1) ELSE Three("sltu", Dst(x), ZeroReg, tmp)>>
MutNotNegated(x, tmp, l, r) ==
  <<RegOrImmediate("slti", "slt", tmp, r.is, l), Two("addi", Dst(x), tmp, 0)>>
LessEqualCode(x, tmp, l, r) ==
  <<RegOrImmediate("slti", "slt", tmp, r.is, l), Two("sltiu", Dst(x), tmp, 1)>>

SelectICmp ==
  /\ Translate({"icmp"})
  /\ LET x == Head(ir)
         less == x.what = "Lt"
         tmp == Virtual("general", fresh + 1)
         l == AsmOperand(x.l, x.what = "Le", FALSE, IF less THEN fresh + 1 ELSE fresh + 2)
         r == AsmOperand(x.r, x.what # "Le", FALSE, l.next)
         code == IF less THEN <<RegOrImmediate("slti", "slt", Dst(x), l.is, r)>>
                 ELSE IF x.what = "Le" THEN LessEqualCode(x, tmp, l, r) ELSE EqualCode(x, tmp, l, r)
     IN /\ SelectedCode(l.code \o r.code \o code, r.next)
        /\ vreg' = Defines(x.dst)

SelectFCmp ==
  /\ Translate({"fcmp"})
  /\ LET x == Head(ir)
         l == AsmOperand(x.l, FALSE, TRUE, fresh + 1)
         r == AsmOperand(x.r, FALSE, TRUE, l.next)
         tmp == Virtual("general", r.next)
         op == CASE x.what \in {"Eq", "Ne"} -> "feq" [] x.what = "Lt" -> "flt" [] x.what = "Le" -> "fle"
         code == IF x.what # "Ne" THEN <<Three(op, Dst(x), l.is, r.is)>>
                 ELSE <<Three(op, tmp, l.is, r.is), Two("sltiu", Dst(x), tmp, 1)>>
     IN /\ SelectedCode(l.code \o r.code \o code, IF x.what = "Ne" THEN r.next + 1 ELSE r.next)
        /\ vreg' = Defines(x.dst)

SelectCast ==
  /\ Translate({"cast"})
  /\ LET x == Head(ir)
         src == AsmOperand(x.src, FALSE, TRUE, fresh + 1)
         op == CASE x.what = "Ext" -> "addi" [] x.what = "F2I" -> "fcvt.w.s" [] x.what = "I2F" -> "fcvt.s.w"
     IN /\ SelectedCode(Append(src.code, Two(op, Dst(x), src.is, 0)), src.next)
        /\ vreg' = Defines(x.dst)

SelectBranch ==
  /\ Translate({"branch"})
  /\ LET x == Head(ir)
         cond == AsmOperand(x.cond, FALSE, FALSE, fresh)
     IN SelectedCode(cond.code \o <<Inst("bne", <<>>, <<cond.is, ZeroReg>>, x.yes),
                                    Inst("j", <<>>, <<>>, x.no)>>, cond.next)
  /\ UNCHANGED vreg

SelectJump ==
  /\ Translate({"jump", "label"})
  /\ SelectedCode(<<IF Head(ir).op = "jump" THEN Inst("j", <<>>, <<>>, Head(ir).to)
                    ELSE Inst("label", <<>>, <<>>, Head(ir).id)>>, fresh)
  /\ UNCHANGED vreg

(* Arguments go to the next register of their class. *)
Position(params, k) ==
  Cardinality({j \in 1 .. k - 1 : ClassOf(params[j]) = ClassOf(params[k])})
MutCountAll(class, types, k) == Argument(class, k - 1)
ArgumentRegister(class, types, k) == Argument(class, Position(types, k))
Move(to, from) ==
  IF from.class = "float" THEN Three("fsgnj", to, from, from) ELSE Two("addi", to, from, 0)

SelectCall ==
  /\ Translate({"call"})
  /\ LET x == Head(ir)
         classes(k) == [j \in 1 .. k |-> x.args[j].type]
         moved[k \in 0 .. Len(x.args)] ==
           IF k = 0 THEN [code |-> <<>>, next |-> fresh]
           ELSE LET before == moved[k - 1]
                    arg == AsmOperand(x.args[k], FALSE, TRUE, before.next)
                    to == ArgumentRegister(arg.is.class, classes(k), k)
                IN [code |-> before.code \o arg.code \o <<Move(to, arg.is)>>, next |-> arg.next]
         all == moved[Len(x.args)]
         dst == Virtual(ClassOf(x.dst.type), all.next)
     IN /\ SelectedCode(all.code \o <<Inst("call", <<>>, <<>>, x.name),
                                      Move(dst, Argument(dst.class, 0))>>, all.next + 1)
        /\ vreg' = (x.dst.id :> [reg |-> dst, type |-> x.dst.type]) @@ vreg

SelectRet ==
  /\ Translate({"ret"})
  /\ LET v == AsmOperand(Head(ir).src, FALSE, FALSE, fresh)
     IN SelectedCode(v.code \o <<Move(Argument(v.is.class, 0), v.is), Inst("ret", <<>>, <<>>, 0)>>, v.next)
  /\ UNCHANGED vreg

-----------------------------------------------------------------------------
(* The whole statement: the parser makes the tree and the entry of the     *)
(* symbol table, irgen the instructions; a global is data and no code.     *)

Init ==
  /\ statement \in Statements
  /\ memory \in Memories
  /\ phase = "parse"
  /\ ir = <<>> /\ vreg = <<>> /\ fresh = 0 /\ asm = <<>>
  /\ regs = <<>> /\ cells = <<>> /\ pc = 1 /\ calls = <<>> /\ entry = <<>>

ParseStatement ==
  /\ phase = "parse"
  /\ \E e \in {CreateStatement(statement)} :
       LET known == e.type # "none" /\ IsConstant(e) /\ ValueOf(e).type # "none"
           accepted == e.type # "none" /\ (statement.kind = "global" => known)
       IN /\ phase' = IF accepted THEN "select" ELSE "rejected"
          /\ ir' = IF accepted THEN StatementCode(statement, e) ELSE <<>>
          /\ entry' = IF statement.kind = "constant" /\ known THEN <<ValueOf(e).value>> ELSE <<>>
          /\ cells' = IF statement.kind = "global" /\ known
                      THEN (statement.name :> ValueOf(e).value) @@ memory ELSE memory
  /\ UNCHANGED <<statement, memory, vreg, fresh, asm, regs, pc, calls>>

Run ==
  /\ phase = "select" /\ ir = <<>>
  /\ phase' = "run"
  /\ UNCHANGED <<statement, memory, ir, vreg, fresh, asm, regs, cells, pc, calls, entry>>

-----------------------------------------------------------------------------
(* The machine. What a register holds before it is written is left over.   *)

Wide(n) == Signed(n, 2 * Width)
Natural(n) == Unsigned(n, 2 * Width)
Leftover == 2 ^ (2 * Width - 1) - 1
Read(r) == IF r = ZeroReg THEN 0 ELSE IF r \in DOMAIN regs THEN regs[r] ELSE Leftover

Value(inst) ==
  LET a == Read(inst.uses[1])
      b == Read(inst.uses[2])
      imm == inst.arg
  IN CASE inst.op = "li" -> Wide(imm)
       [] inst.op = "addi" -> Wide(a + imm)
       [] inst.op = "addiw" -> Wrap(a + imm)
       [] inst.op = "addw" -> Wrap(a + b)
       [] inst.op = "subw" -> Wrap(a - b)
       [] inst.op = "mulw" -> Wrap(a * b)
       [] inst.op = "divw" -> IF Wrap(b) = 0 THEN -1 ELSE Wrap(TruncDiv(Wrap(a), Wrap(b)))
       [] inst.op = "remw" -> IF Wrap(b) = 0 THEN Wrap(a) ELSE Wrap(TruncMod(Wrap(a), Wrap(b)))
       [] inst.op = "xor" -> Wide(Natural(a) ^^ Natural(b))
       [] inst.op = "xori" -> Wide(Natural(a) ^^ Natural(imm))
       [] inst.op = "slt" -> Truth(a < b)
       [] inst.op = "slti" -> Truth(a < imm)
       [] inst.op = "sltu" -> Truth(Natural(a) < Natural(b))
       [] inst.op = "sltiu" -> Truth(Natural(a) < Natural(imm))
       [] inst.op = "fadd" -> FloatArithmetic("Add", a, b)
       [] inst.op = "fsub" -> FloatArithmetic("Sub", a, b)
       [] inst.op = "fmul" -> FloatArithmetic("Mul", a, b)
       [] inst.op = "fdiv" -> FloatArithmetic("Div", a, b)
       [] inst.op = "feq" -> Truth(a = b)
       [] inst.op = "flt" -> Truth(a < b)
       [] inst.op = "fle" -> Truth(a <= b)
       [] inst.op = "fsgnj" -> a
       [] inst.op = "fmv.w.x" -> Wrap(a)
       [] inst.op = "fcvt.s.w" -> ToFloat(Wrap(a))
       [] inst.op = "fcvt.w.s" -> ToInt(a)
       [] inst.op \in {"lw", "flw"} -> cells[inst.arg]

Running == phase = "run" /\ pc <= Len(asm)
Current == asm[pc]
Target(label) == CHOOSE k \in DOMAIN asm : asm[k].op = "label" /\ asm[k].arg = label
UnchangedCompiler == UNCHANGED <<statement, memory, phase, ir, vreg, fresh, asm, entry>>

Compute ==
  /\ Running /\ Current.defs # <<>>
  /\ regs' = (Current.defs[1] :> Value(Current)) @@ regs
  /\ pc' = pc + 1
  /\ UnchangedCompiler /\ UNCHANGED <<cells, calls>>

Keep ==
  /\ Running /\ Current.op \in {"sw", "fsw"}
  /\ cells' = (Current.arg :> Wrap(Read(Current.uses[1]))) @@ cells
  /\ pc' = pc + 1
  /\ UnchangedCompiler /\ UNCHANGED <<regs, calls>>

Transfer ==
  /\ Running /\ Current.op \in {"bne", "j", "label"}
  /\ pc' = IF Current.op = "j" \/ (Current.op = "bne" /\ Read(Current.uses[1]) # Read(Current.uses[2]))
           THEN Target(Current.arg) ELSE pc + 1
  /\ UnchangedCompiler /\ UNCHANGED <<regs, cells, calls>>

(* A called function finds its arguments where its parameters are. *)
Invoke ==
  /\ Running /\ Current.op = "call"
  /\ LET f == Functions[Current.arg]
         args == [k \in DOMAIN f.params |->
                    Read(Argument(ClassOf(f.params[k]), Position(f.params, k)))]
     IN /\ calls' = Append(calls, [name |-> Current.arg, args |-> args])
        /\ regs' = (Argument(ClassOf(f.result), 0) :> Body(Current.arg, args)) @@ regs
  /\ pc' = pc + 1
  /\ UnchangedCompiler /\ UNCHANGED cells

(* ret, or the end of the statement. *)
Finish ==
  /\ phase = "run"
  /\ IF Running THEN Current.op = "ret" ELSE TRUE
  /\ phase' = "done"
  /\ UNCHANGED <<statement, memory, ir, vreg, fresh, asm, regs, cells, pc, calls, entry>>

Rest == phase \in {"done", "rejected"} /\ UNCHANGED vars

Next ==
  \/ ParseStatement \/ Run
  \/ SelectStore \/ SelectLoad \/ SelectBinary \/ SelectICmp \/ SelectFCmp \/ SelectCast
  \/ SelectBranch \/ SelectJump \/ SelectCall \/ SelectRet
  \/ Compute \/ Keep \/ Transfer \/ Invoke \/ Finish \/ Rest

Spec == Init /\ [][Next]_vars

-----------------------------------------------------------------------------
(* Properties. *)

(* The variables hold what their comments say; registers hold words. *)
TypeOK ==
  /\ phase \in {"parse", "select", "run", "done", "rejected"}
  /\ fresh \in Nat
  /\ pc \in 1 .. Len(asm) + 1
  /\ \A r \in DOMAIN regs : regs[r] \in -(2 ^ (2 * Width - 1)) .. 2 ^ (2 * Width - 1) - 1
  /\ \A c \in DOMAIN cells : cells[c] \in Int32
  /\ Len(entry) <= 1

C == Meaning(statement.e, memory)
Result ==
  IF statement.kind = "return" THEN regs[Argument(ClassOf(statement.type), 0)]
  ELSE cells[IF statement.kind \in Conditions THEN "result" ELSE statement.name]

(* The value that a statement stores, returns or branches on is the one    *)
(* that C gives the text, whatever was computed by the compiler and        *)
(* whatever by the program, and it is sign-extended where it is returned.  *)
SameResult ==
  phase = "done" /\ C.type # "undefined" /\ statement.kind # "expression"
    => Result = IF statement.kind \in Conditions THEN Truth(C.v # 0)
                ELSE Convert(statement.type, C).v

(* What the compiler takes a constant to be is what the program finds in   *)
(* the variable of the same name.                                          *)
EntryAgrees ==
  phase = "done" /\ entry # <<>> => cells[statement.name] = entry[1]

RECURSIVE CallsIn(_)
CallsIn(e) ==
  CASE e.kind \in {"literal", "variable"} -> <<>>
    [] e.kind = "unary" -> CallsIn(e.e)
    [] e.kind = "binary" ->
         CallsIn(e.l) \o IF e.op \in LogicalOps /\ (Meaning(e.l, memory).v # 0) = (e.op = "Or")
                         THEN <<>> ELSE CallsIn(e.r)
    [] e.kind = "call" ->
         <<[name |-> e.name,
            args |-> [k \in DOMAIN e.args |->
                        Convert(Functions[e.name].params[k], Meaning(e.args[k], memory)).v]]>>

(* A function is called with the converted arguments, each in the register *)
(* where it looks for it, once for every call of the text that is reached. *)
SameCalls == phase = "done" /\ C.type # "undefined" => calls = CallsIn(statement.e)

(* Classes of the registers that an instruction defines and uses.          *)
GeneralOps == {"li", "addi", "addiw", "addw", "subw", "mulw", "divw", "remw", "xor", "xori",
               "slt", "slti", "sltu", "sltiu", "lw", "sw", "bne", "j", "label", "call", "ret"}
FloatOps == {"fadd", "fsub", "fmul", "fdiv", "fsgnj", "flw", "fsw"}
DefClass(op) ==
  IF op \in FloatOps \cup {"fmv.w.x", "fcvt.s.w"} THEN "float" ELSE "general"
UseClass(op) ==
  IF op \in FloatOps \cup {"fcvt.w.s", "feq", "flt", "fle"} THEN "float" ELSE "general"

(* Every instruction names registers of the classes that it has, and an    *)
(* immediate that fits it.                                                 *)
OperandsFit ==
  \A k \in DOMAIN asm :
    /\ \A j \in DOMAIN asm[k].defs : asm[k].defs[j].class = DefClass(asm[k].op)
    /\ \A j \in DOMAIN asm[k].uses : asm[k].uses[j].class = UseClass(asm[k].op)
    /\ asm[k].op \in {"addi", "addiw", "xori", "slti", "sltiu"} => asm[k].arg \in ShortImmediates

(* A register that stands for a value of type int holds it sign-extended,  *)
(* one of a Boolean 0 or 1, so that comparing whole registers is right.    *)
SignExtended ==
  \A id \in DOMAIN vreg : vreg[id].reg \in DOMAIN regs =>
    regs[vreg[id].reg] \in IF vreg[id].type = "bool" THEN {0, 1} ELSE Int32
=============================================================================
