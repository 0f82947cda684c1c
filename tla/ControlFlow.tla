---------------------------- MODULE ControlFlow ----------------------------
(***************************************************************************)
(* From statements to basic blocks (irgen_stmt and irgen_expr of           *)
(* src/src/frontend/irgen.cpp on the builder of src/src/ir/builder.cpp),   *)
(* with the two passes over a finished function, add_terminator and        *)
(* remove_unused_block (src/src/ir/function.cpp).                          *)
(*                                                                         *)
(* irgen is recursive; "work" is its call stack, one task per pending      *)
(* statement list, statement, condition or rest of a handler, and an       *)
(* action is what the code does from one recursive call to the next.       *)
(*                                                                         *)
(* When the function is finished, its blocks are executed next to the      *)
(* statements that they were made from: both take silent steps of their    *)
(* own and observable steps (a test of a condition, an effect, a return)   *)
(* together.  The outcome of a test is arbitrary.                          *)
(***************************************************************************)
EXTENDS Naturals, SequencesExt, FiniteSets

CONSTANTS
  Programs,         \* the functions: [void, params, body]
  FirstBlock,       \* next_block_id when the function begins
  FirstInstruction  \* next_instruction_id when the function begins

ASSUME IdsAssumption == FirstBlock \in Nat /\ FirstInstruction \in Nat
ASSUME ProgramsAssumption == \A p \in Programs : p.params \in Nat

VARIABLES
  program, \* the function that is compiled
  builder, \* the builder and the blocks that it has made
  work,    \* the call stack of irgen
  operand, \* what the last call of irgen_expr returned
  phase,   \* "irgen", "terminate", "remove", "run" or "done"
  source,  \* what the statements have still to do
  at,      \* where the blocks are executed: a block and the next instruction
  value    \* the registers and local variables of the execution, by instruction

vars == <<program, builder, work, operand, phase, source, at, value>>

-----------------------------------------------------------------------------
(* Instructions.  The id of an instruction also names the register or the  *)
(* local variable that it defines.                                         *)

Local(id) == [kind |-> "local", is |-> id]
Const(v) == [kind |-> "const", is |-> v]

Test(id, atom) == [op |-> "test", id |-> id, atom |-> atom]
Not(id, src) == [op |-> "not", id |-> id, src |-> src]
Store(id, src, ptr) == [op |-> "store", id |-> id, src |-> src, ptr |-> ptr]
Load(id, ptr) == [op |-> "load", id |-> id, ptr |-> ptr]
Effect(id, name) == [op |-> "effect", id |-> id, name |-> name]
Branch(id, cond, yes, no) == [op |-> "branch", id |-> id, src |-> cond, to |-> <<yes, no>>]
Jump(id, block) == [op |-> "jump", id |-> id, to |-> <<block>>]
Ret(id, src) == [op |-> "ret", id |-> id, src |-> src]

Targets(inst) == IF inst.op \in {"branch", "jump"} THEN ToSet(inst.to) ELSE {}
IsTerminator(inst) == inst.op \in {"branch", "jump", "ret"}

-----------------------------------------------------------------------------
(* The builder. code holds the instructions of every block, also of those  *)
(* that are in no function; list is the list of blocks of the function;    *)
(* uses is use_id_list.                                                    *)

HasTerminator(b) == b.code[b.cur] # <<>> /\ IsTerminator(Last(b.code[b.cur]))

FetchBlocks(b, n) ==
  LET new == b.nextBlock .. b.nextBlock + n - 1
  IN [b EXCEPT !.nextBlock = @ + n,
               !.code = [k \in DOMAIN @ \cup new |-> IF k \in new THEN <<>> ELSE @[k]],
               !.uses = [k \in DOMAIN @ \cup new |-> IF k \in new THEN {} ELSE @[k]]]

(* Blocks go in front of the return block. *)
AppendAtEnd(b, block) == [b EXCEPT !.list = Append(@, block)]
AppendBlock(b, block) == [b EXCEPT !.list = Front(@) \o <<block, Last(@)>>]
SetCurr(b, block) == [b EXCEPT !.cur = block]
Enter(b, block) == SetCurr(AppendBlock(b, block), block)

(* append_instruction: after a terminator, code goes to a fresh block that *)
(* no function contains.                                                   *)
SameBlock(b) == b
OpenBlock(b) == IF HasTerminator(b) THEN SetCurr(FetchBlocks(b, 1), b.nextBlock) ELSE b

AppendInstruction(b, inst) ==
  LET open == OpenBlock(b)
  IN [open EXCEPT !.code[open.cur] = Append(@, inst)]

(* Fetching an instruction takes an id and adds the use of its targets. *)
Emit(b, inst) ==
  AppendInstruction([b EXCEPT !.nextInst = inst.id + 1,
                              !.uses = [k \in DOMAIN @ |->
                                          IF k \in Targets(inst) THEN @[k] \cup {inst.id}
                                          ELSE @[k]]],
                    inst)

EmitJump(b, block) == Emit(b, Jump(b.nextInst, block))
EmitJumpIfOpen(b, block) == IF HasTerminator(b) THEN b ELSE EmitJump(b, block)

(* Instructions that matter only by the ids they take: allocas and the     *)
(* stores of the parameters.                                               *)
TakeIds(b, n) == [b EXCEPT !.nextInst = @ + n]

(* A new function: entry and return block, the local variable for the      *)
(* result and the return from it.                                          *)
NewFunction(p) ==
  LET entry == FirstBlock
      return == FirstBlock + 1
      inst == FirstInstruction + 2 * p.params
      ret == IF p.void THEN <<Ret(inst, Const(TRUE))>>
             ELSE <<Load(inst + 1, inst), Ret(inst + 2, Local(inst + 1))>>
  IN [code |-> [k \in {entry, return} |-> IF k = entry THEN <<>> ELSE ret],
      uses |-> [k \in {entry, return} |-> {}],
      list |-> <<entry, return>>,
      cur |-> entry,
      returnBlock |-> return,
      returnCell |-> inst,
      condStack |-> <<>>,
      tailStack |-> <<>>,
      nextBlock |-> return + 1,
      nextInst |-> Last(ret).id + 1]

-----------------------------------------------------------------------------
(* Tasks.  A nested statement is a branch of an if or the body of a loop.  *)

Statement(s) == [task |-> "statement", s |-> s]
Nested(s) == [task |-> "nested", s |-> s]
Statements(body, stop, begun) ==
  [task |-> "statements", body |-> body, stop |-> stop, begun |-> begun]
Condition(e) == [task |-> "condition", e |-> e]
Rest(task, s, first) == [task |-> task, s |-> s, first |-> first]

-----------------------------------------------------------------------------
(* irgen. *)

Top == Head(work)
Is(task) == phase = "irgen" /\ work # <<>> /\ Top.task = task
IsStatement(kind) == Is("statement") /\ Top.s.kind = kind
IsCondition(kind) == Is("condition") /\ Top.e.kind = kind

Replace(tasks) == work' = tasks \o Tail(work)
Build(b) == builder' = b
UnchangedRun == UNCHANGED <<program, phase, source, at, value>>
StatementDone == operand' = operand /\ UnchangedRun

Blank == [kind |-> "blank"]

Init ==
  /\ program \in Programs
  /\ builder = NewFunction(program)
  /\ work = <<Statements(program.body, FALSE, FALSE)>>
  /\ operand = Const(TRUE)
  /\ phase = "irgen"
  /\ source = program.body
  /\ at = <<FirstBlock, 1>>
  /\ value = <<>>

(* createIf: an if whose condition is constant never reaches irgen, the     *)
(* parser has put what is left of it in its place.                         *)
CreateIf ==
  /\ Is("statement") \/ Is("nested")
  /\ Top.s.kind = "if" /\ Top.s.cond.kind = "const"
  /\ LET taken == IF Top.s.cond.value THEN Top.s.then
                  ELSE IF Top.s.else = <<>> THEN Blank ELSE Top.s.else[1]
     IN Replace(<<[Top EXCEPT !.s = taken]>>)
  /\ UNCHANGED builder /\ StatementDone

GenStatements ==
  /\ Is("statements")
  /\ Replace(IF Top.body = <<>> \/ (Top.stop /\ Top.begun /\ HasTerminator(builder)) THEN <<>>
             ELSE <<Statement(Head(Top.body)), Statements(Tail(Top.body), Top.stop, TRUE)>>)
  /\ UNCHANGED builder /\ StatementDone

(* The statements of a nested block are generated until one of them ends   *)
(* the current block.                                                      *)
GenNested ==
  /\ Is("nested") /\ ~(Top.s.kind = "if" /\ Top.s.cond.kind = "const")
  /\ Replace(IF Top.s.kind = "block" THEN <<Statements(Top.s.body, TRUE, FALSE)>>
             ELSE <<Statement(Top.s)>>)
  /\ UNCHANGED builder /\ StatementDone

GenBlock ==
  /\ IsStatement("block")
  /\ Replace(<<Statements(Top.s.body, FALSE, FALSE)>>)
  /\ UNCHANGED builder /\ StatementDone

GenBlank ==
  /\ IsStatement("blank")
  /\ Replace(<<>>)
  /\ UNCHANGED builder /\ StatementDone

(* A call or an assignment. *)
GenEffect ==
  /\ IsStatement("effect")
  /\ Build(Emit(builder, Effect(builder.nextInst, Top.s.name)))
  /\ Replace(<<>>) /\ StatementDone

(* An expression statement. *)
GenExpression ==
  /\ IsStatement("expression")
  /\ Replace(<<Condition(Top.s.cond)>>)
  /\ UNCHANGED builder /\ StatementDone

GenReturn ==
  /\ IsStatement("return")
  /\ LET stored == IF Top.s.value = <<>> THEN builder
                   ELSE Emit(builder, Store(builder.nextInst, Const(Top.s.value[1]),
                                            builder.returnCell))
     IN Build(EmitJump(stored, builder.returnBlock))
  /\ Replace(<<>>) /\ StatementDone

(* Blocks of an if: then, else if there is one, tail. *)
TailOfIf(s, first) == IF s.else = <<>> THEN first + 1 ELSE first + 2

GenIf ==
  /\ IsStatement("if") /\ Top.s.cond.kind # "const"
  /\ LET first == builder.nextBlock
     IN /\ Build(FetchBlocks(builder, IF Top.s.else = <<>> THEN 2 ELSE 3))
        /\ Replace(<<Condition(Top.s.cond), Rest("then", Top.s, first)>>)
  /\ StatementDone

GenThen ==
  /\ Is("then")
  /\ Build(Enter(Emit(builder, Branch(builder.nextInst, operand, Top.first, Top.first + 1)),
                 Top.first))
  /\ Replace(<<Nested(Top.s.then), [Top EXCEPT !.task = "else"]>>)
  /\ StatementDone

GenElse ==
  /\ Is("else")
  /\ LET tail == TailOfIf(Top.s, Top.first)
         closed == EmitJumpIfOpen(builder, tail)
     IN IF Top.s.else = <<>>
        THEN Build(Enter(closed, tail)) /\ Replace(<<>>)
        ELSE /\ Build(Enter(closed, Top.first + 1))
             /\ Replace(<<Nested(Top.s.else[1]), [Top EXCEPT !.task = "endif"]>>)
  /\ StatementDone

GenEndIf ==
  /\ Is("endif")
  /\ LET tail == TailOfIf(Top.s, Top.first)
     IN Build(Enter(EmitJumpIfOpen(builder, tail), tail))
  /\ Replace(<<>>) /\ StatementDone

(* Blocks of a loop: condition, body, tail.  No jump leads to the          *)
(* condition from the code before the loop.                                *)
GenWhile ==
  /\ IsStatement("while")
  /\ LET cond == builder.nextBlock
         entered == Enter(FetchBlocks(builder, 3), cond)
     IN /\ Build([entered EXCEPT !.condStack = Append(@, cond), !.tailStack = Append(@, cond + 2)])
        /\ Replace(<<Condition(Top.s.cond), Rest("body", Top.s, cond)>>)
  /\ StatementDone

GenBody ==
  /\ Is("body")
  /\ Build(Enter(Emit(builder, Branch(builder.nextInst, operand, Top.first + 1, Top.first + 2)),
                 Top.first + 1))
  /\ Replace(<<Nested(Top.s.body), [Top EXCEPT !.task = "endwhile"]>>)
  /\ StatementDone

PopLoop(b) == [b EXCEPT !.condStack = Front(@), !.tailStack = Front(@)]

GenEndWhile ==
  /\ Is("endwhile")
  /\ Build(PopLoop(Enter(EmitJumpIfOpen(builder, Top.first), Top.first + 2)))
  /\ Replace(<<>>) /\ StatementDone

BreakToCondition ==
  /\ IsStatement("break")
  /\ Build(EmitJump(builder, Last(builder.condStack)))
  /\ Replace(<<>>) /\ StatementDone

GenBreak ==
  /\ IsStatement("break")
  /\ Build(EmitJump(builder, Last(builder.tailStack)))
  /\ Replace(<<>>) /\ StatementDone

GenContinue ==
  /\ IsStatement("continue")
  /\ Build(EmitJump(builder, Last(builder.condStack)))
  /\ Replace(<<>>) /\ StatementDone

-----------------------------------------------------------------------------
(* Conditions: irgen_expr on expressions of boolean type. *)

Returns(result) == operand' = result /\ UnchangedRun

GenConstant ==
  /\ IsCondition("const")
  /\ Replace(<<>>) /\ Returns(Const(Top.e.value))
  /\ UNCHANGED builder

(* An integer variable, loaded and compared with 0. *)
GenTest ==
  /\ IsCondition("test")
  /\ LET id == builder.nextInst + 1
     IN /\ Build(Emit(builder, Test(id, Top.e.atom)))
        /\ Returns(Local(id))
  /\ Replace(<<>>)

GenNot ==
  /\ IsCondition("not")
  /\ Replace(<<Condition(Top.e.e), [task |-> "not"]>>)
  /\ UNCHANGED builder /\ StatementDone

GenNotRest ==
  /\ Is("not")
  /\ Build(Emit(builder, Not(builder.nextInst, operand)))
  /\ Returns(Local(builder.nextInst))
  /\ Replace(<<>>)

(* && and ||: the result goes through a local variable.  Blocks: right     *)
(* operand, true, false, tail.                                             *)
GenShortCircuit ==
  /\ IsCondition("and") \/ IsCondition("or")
  /\ LET result == [e |-> Top.e, first |-> builder.nextBlock, cell |-> builder.nextInst]
     IN Replace(<<Condition(Top.e.l), [task |-> "left", of |-> result]>>)
  /\ Build(FetchBlocks(TakeIds(builder, 1), 4))
  /\ StatementDone

(* What the left operand decides alone. *)
BothOnTrue(e, first) ==
  IF e.kind = "and" THEN <<first, first + 2>> ELSE <<first, first + 1>>
LeftTargets(e, first) ==
  IF e.kind = "and" THEN <<first, first + 2>> ELSE <<first + 1, first>>

GenLeft ==
  /\ Is("left")
  /\ LET first == Top.of.first
         to == LeftTargets(Top.of.e, first)
     IN Build(Enter(Emit(builder, Branch(builder.nextInst, operand, to[1], to[2])), first))
  /\ Replace(<<Condition(Top.of.e.r), [Top EXCEPT !.task = "right"]>>)
  /\ StatementDone

StoreResult(b, block, v, cell, tail) ==
  LET entered == Enter(b, block)
  IN EmitJump(Emit(entered, Store(entered.nextInst, Const(v), cell)), tail)

GenRight ==
  /\ Is("right")
  /\ LET first == Top.of.first
         cell == Top.of.cell
         branched == Emit(builder, Branch(builder.nextInst, operand, first + 1, first + 2))
         stored == StoreResult(StoreResult(branched, first + 1, TRUE, cell, first + 3),
                               first + 2, FALSE, cell, first + 3)
         tail == Enter(stored, first + 3)
     IN /\ Build(Emit(tail, Load(tail.nextInst, cell)))
        /\ Returns(Local(tail.nextInst))
  /\ Replace(<<>>)

-----------------------------------------------------------------------------
(* The end of a function. *)

GenEnd ==
  /\ phase = "irgen" /\ work = <<>>
  /\ phase' = "terminate"
  /\ UNCHANGED <<program, builder, work, operand, source, at, value>>

(* add_terminator: a block without one continues with the next block. *)
Terminated(b) ==
  LET n == Len(b.list)
      done[k \in 0 .. n - 1] ==
        IF k = 0 THEN b
        ELSE EmitJumpIfOpen(SetCurr(done[k - 1], b.list[k]), b.list[k + 1])
  IN done[n - 1]

AddTerminator ==
  /\ phase = "terminate"
  /\ Build(Terminated(builder))
  /\ phase' = "remove"
  /\ UNCHANGED <<program, work, operand, source, at, value>>

(* The uses of a block are instructions, and one of them with the id of    *)
(* the block does not count.                                               *)
UsedTwice(b, block) == Cardinality(b.uses[block]) > 1
HasUse(b, block) == b.uses[block] \ {block} # {}

(* Removing a block removes its instructions and so the uses they are. *)
RemoveBlock(b, block) ==
  LET ids == {b.code[block][i].id : i \in DOMAIN b.code[block]}
  IN [b EXCEPT !.list = RemoveAt(@, CHOOSE i \in DOMAIN @ : @[i] = block),
               !.uses = [k \in DOMAIN @ |-> @[k] \ ids]]

(* remove_unused_block: one pass over the list, from the second block. *)
Cleaned(b) ==
  LET n == Len(b.list)
      cleaned[k \in 1 .. n] ==
        IF k = 1 THEN b
        ELSE IF HasUse(cleaned[k - 1], b.list[k]) THEN cleaned[k - 1]
        ELSE RemoveBlock(cleaned[k - 1], b.list[k])
  IN cleaned[n]

RemoveUnusedBlock ==
  /\ phase = "remove"
  /\ Build(Cleaned(builder))
  /\ phase' = "run"
  /\ UNCHANGED <<program, work, operand, source, at, value>>

-----------------------------------------------------------------------------
(* Execution of the statements.  The source is a list of statements, loops *)
(* that are running, and tests with what follows either outcome.           *)

Loop(s) == [kind |-> "loop", s |-> s]
Choice(e, yes, no) == [kind |-> "choice", e |-> e, yes |-> yes, no |-> no]

(* What follows the innermost loop, or the loop again. *)
AfterLoop(s, again) ==
  LET loop == SelectInSeq(s, LAMBDA x : x.kind = "loop")
  IN SubSeq(s, IF again THEN loop ELSE loop + 1, Len(s))

(* The next silent step of the statements. *)
Unfolded(s) ==
  LET x == Head(s)
      rest == Tail(s)
  IN CASE x.kind = "blank" -> rest
       [] x.kind = "block" -> x.body \o rest
       [] x.kind = "expression" -> <<Choice(x.cond, rest, rest)>>
       [] x.kind = "if" -> <<Choice(x.cond, <<x.then>> \o rest, x.else \o rest)>>
       [] x.kind = "while" -> <<Choice(x.cond, <<x.body, Loop(x)>> \o rest, rest)>>
       [] x.kind = "loop" -> <<x.s>> \o rest
       [] x.kind = "break" -> AfterLoop(rest, FALSE)
       [] x.kind = "continue" -> AfterLoop(rest, TRUE)
       [] x.kind = "choice" /\ x.e.kind = "const" -> IF x.e.value THEN x.yes ELSE x.no
       [] x.kind = "choice" /\ x.e.kind = "not" -> <<Choice(x.e.e, x.no, x.yes)>>
       [] x.kind = "choice" /\ x.e.kind = "and" ->
            <<Choice(x.e.l, <<Choice(x.e.r, x.yes, x.no)>>, x.no)>>
       [] x.kind = "choice" /\ x.e.kind = "or" ->
            <<Choice(x.e.l, x.yes, <<Choice(x.e.r, x.yes, x.no)>>)>>

SourceReady ==
  IF source = <<>> THEN TRUE
  ELSE IF Head(source).kind = "choice" THEN Head(source).e.kind = "test"
  ELSE Head(source).kind \in {"effect", "return"}

SourceStep ==
  /\ phase = "run" /\ ~SourceReady
  /\ source' = Unfolded(source)
  /\ UNCHANGED <<program, builder, work, operand, phase, at, value>>

(* Execution of the blocks. *)
Block == at[1]
Attached == Block \in ToSet(builder.list) /\ at[2] \in DOMAIN builder.code[Block]
Current == builder.code[Block][at[2]]
BlocksReady == Attached /\ Current.op \in {"test", "effect", "ret"}

ValueOf(src) == IF src.kind = "const" THEN src.is ELSE value[src.is]
Set(cell, v) == value' = [k \in DOMAIN value \cup {cell} |-> IF k = cell THEN v ELSE value[k]]
NextInstruction == at' = <<Block, at[2] + 1>>

BlocksStep ==
  /\ phase = "run" /\ Attached /\ ~BlocksReady
  /\ CASE Current.op = "store" -> Set(Current.ptr, ValueOf(Current.src)) /\ NextInstruction
       [] Current.op = "load" ->
            /\ IF Current.ptr \in DOMAIN value THEN Set(Current.id, value[Current.ptr])
               ELSE \E v \in BOOLEAN : Set(Current.id, v)
            /\ NextInstruction
       [] Current.op = "not" -> Set(Current.id, ~ValueOf(Current.src)) /\ NextInstruction
       [] Current.op = "jump" -> at' = <<Current.to[1], 1>> /\ UNCHANGED value
       [] Current.op = "branch" ->
            /\ at' = <<IF ValueOf(Current.src) THEN Current.to[1] ELSE Current.to[2], 1>>
            /\ UNCHANGED value
  /\ UNCHANGED <<program, builder, work, operand, phase, source>>

(* Both do the same thing; a function that ends without a return statement *)
(* returns anything.                                                       *)
SameEvent ==
  LET x == IF source = <<>> THEN [kind |-> "return", value |-> <<>>] ELSE Head(source)
  IN CASE x.kind = "effect" -> Current.op = "effect" /\ Current.name = x.name
       [] x.kind = "choice" -> Current.op = "test" /\ Current.atom = x.e.atom
       [] x.kind = "return" ->
            Current.op = "ret" /\ x.value \in {<<>>, <<ValueOf(Current.src)>>}

BothStep ==
  /\ phase = "run" /\ SourceReady /\ BlocksReady /\ SameEvent
  /\ CASE Current.op = "ret" -> phase' = "done" /\ UNCHANGED <<source, at, value>>
       [] Current.op = "effect" ->
            source' = Tail(source) /\ NextInstruction /\ UNCHANGED <<value, phase>>
       [] Current.op = "test" ->
            \E v \in BOOLEAN :
              /\ source' = IF v THEN Head(source).yes ELSE Head(source).no
              /\ Set(Current.id, v) /\ NextInstruction /\ UNCHANGED phase
  /\ UNCHANGED <<program, builder, work, operand>>

GenStatement ==
  \/ CreateIf \/ GenStatements \/ GenNested \/ GenBlock \/ GenBlank \/ GenEffect
  \/ GenExpression \/ GenReturn
  \/ GenIf \/ GenThen \/ GenElse \/ GenEndIf
  \/ GenWhile \/ GenBody \/ GenEndWhile \/ GenBreak \/ GenContinue

GenCondition ==
  GenConstant \/ GenTest \/ GenNot \/ GenNotRest \/ GenShortCircuit \/ GenLeft \/ GenRight

Run == SourceStep \/ BlocksStep \/ BothStep

Next ==
  GenStatement \/ GenCondition \/ GenEnd \/ AddTerminator \/ RemoveUnusedBlock \/ Run

(* Neither execution stops in front of a silent step. *)
Fairness == WF_vars(SourceStep) /\ WF_vars(BlocksStep)

Spec == Init /\ [][Next]_vars /\ Fairness

-----------------------------------------------------------------------------
(* Properties. *)

Finished == phase \in {"run", "done"}

(* Blocks are in the function at most once, the current one exists, and    *)
(* the stacks of the enclosing loops go together and empty again.          *)
TypeOK ==
  /\ IsInjective(builder.list)
  /\ ToSet(builder.list) \cup {builder.cur} \subseteq DOMAIN builder.code
  /\ Len(builder.condStack) = Len(builder.tailStack)
  /\ phase # "irgen" => builder.condStack = <<>>

(* What the code takes for granted.  A break or continue finds a loop on   *)
(* the stacks, whose top it reads unasked; and no block of the function is *)
(* used by an instruction with its own number, a use that has_use drops.   *)
BreaksInLoops == (IsStatement("break") \/ IsStatement("continue")) => builder.condStack # <<>>
IdsApart == phase = "remove" => \A k \in DOMAIN builder.uses : k \notin builder.uses[k]
Regular == BreaksInLoops /\ IdsApart

(* Whatever follows a return, break or continue, no block goes on after an *)
(* instruction that leaves it, and in a finished function every block ends *)
(* in one.                                                                 *)
BlocksEndOnce ==
  /\ \A k \in DOMAIN builder.code : \A i \in DOMAIN builder.code[k] :
       IsTerminator(builder.code[k][i]) => i = Len(builder.code[k])
  /\ phase \in {"remove", "run", "done"} =>
       \A k \in ToSet(builder.list) :
         builder.code[k] # <<>> /\ IsTerminator(Last(builder.code[k]))

(* The return block stays the last block of the function: the code         *)
(* generator puts the epilogue in front of the last instruction of the     *)
(* last block and nowhere else.                                            *)
ReturnBlockLast == Last(builder.list) = builder.returnBlock

(* The blocks that the function keeps go only to blocks that it keeps.     *)
TargetsListed ==
  Finished =>
    \A k \in ToSet(builder.list) :
      Targets(Last(builder.code[k])) \subseteq ToSet(builder.list)

(* Executed next to the statements, the blocks do the same tests, effects  *)
(* and return in the same order, with breaks and continues of the right    *)
(* loop and operands evaluated only when they have to be.                  *)
SameBehaviour == phase = "run" /\ SourceReady /\ BlocksReady => SameEvent

(* The blocks never loop silently where the statements have something to   *)
(* do, nor the other way round.                                            *)
NeitherStalls ==
  /\ (phase = "run" /\ SourceReady) ~> BlocksReady
  /\ (phase = "run" /\ BlocksReady) ~> SourceReady

=============================================================================
