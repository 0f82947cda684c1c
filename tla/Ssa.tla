-------------------------------- MODULE Ssa --------------------------------
(***************************************************************************)
(* Out of memory and back: dominators and their frontiers                  *)
(* (src/src/ir/passes/control_flow_analysis.cpp), promotion of local       *)
(* variables to values joined by phi instructions (mem2reg.cpp), selection *)
(* of phi and branch instructions (src/src/ir/codegen.cpp), and the        *)
(* elimination of phi instructions by copies on the edges                  *)
(* (src/src/backend/passes/phi_elimination.cpp).                           *)
(*                                                                         *)
(* The passes transform one function.  Then the function they were given   *)
(* and what they made of it are executed side by side, either in SSA form  *)
(* or after elimination; which way a branch goes is chosen.                *)
(***************************************************************************)
EXTENDS Integers, FiniteSets, TLC, SequencesExt

CONSTANTS
  Functions,   \* sequences of blocks; a block is a sequence of instructions
  FirstFresh   \* the number of the first local operand a pass creates

VARIABLES
  fun,      \* the function before the passes
  phase,    \* what is done next; see Phases
  order,    \* the list of blocks
  code,     \* block -> instructions
  succ,     \* succ_list of each block
  pred,     \* pred_list of each block
  idom,     \* immediate dominators
  frontier, \* df_set
  promoted, \* promotable
  worklist, \* worklist_map: variable -> blocks that define it
  defining, \* def_bb
  inserted, \* inserted_bb
  phiVar,   \* phi_map, by the operand that the phi defines
  stacks,   \* def_stack: a map that grows when it is read, too
  visits,   \* what rename has left to do
  fresh,    \* the number of the next operand
  at,       \* the block that is dealt with, or executed; 0 at the end
  here,     \* the block of the transformed function that is executed
  from,     \* the block executed before
  memory,   \* the variables of the function executed
  values,   \* the operands of the transformed function
  said,     \* what the function says in a block ...
  echoed    \* ... and what the transformed one says

passes == <<idom, frontier, promoted, worklist, defining, inserted, phiVar, stacks, visits>>
run == <<here, from, memory, values, said, echoed>>
vars == <<fun, phase, order, code, succ, pred, passes, fresh, at, run>>

-----------------------------------------------------------------------------
(* Operands and instructions.  Say stands for every instruction that reads *)
(* a value and is not touched otherwise.                                   *)
Variable(n) == <<"variable", n>>
Local(n) == <<"local", n>>
Const(n) == <<"const", n>>
Unknown == <<"unknown", 0>>   \* what is read where nothing was written

Alloca(var, scalar) == [op |-> "alloca", dst |-> var, scalar |-> scalar]
Store(value, ptr) == [op |-> "store", value |-> value, ptr |-> ptr]
Load(dst, ptr) == [op |-> "load", dst |-> dst, ptr |-> ptr]
Say(value) == [op |-> "say", value |-> value]
Phi(dst, incoming) == [op |-> "phi", dst |-> dst, incoming |-> incoming]
Copy(dst, value) == [op |-> "copy", dst |-> dst, value |-> value]
Br(then, else) == [op |-> "br", then |-> then, else |-> else]    \* of the IR
Branch(block) == [op |-> "branch", block |-> block]              \* of RISC-V
Jump(block) == [op |-> "jump", block |-> block]
Ret == [op |-> "ret"]

Is(inst, op) == inst.op = op
Targets(inst) ==
  CASE Is(inst, "br") -> {inst.then, inst.else}
    [] inst.op \in {"branch", "jump"} -> {inst.block}
    [] OTHER -> {}
TargetsOf(insts) == UNION {Targets(insts[k]) : k \in DOMAIN insts}

Ascending(S) == SetToSortSeq(S, <)
Entry == 1

Successors(blocks) == [b \in DOMAIN blocks |-> TargetsOf(blocks[b])]
Predecessors(blocks) ==
  [b \in DOMAIN blocks |-> {p \in DOMAIN blocks : b \in TargetsOf(blocks[p])}]

-----------------------------------------------------------------------------
(* The reference for dominators: a dominates b if b cannot be reached from *)
(* the entry without a.                                                    *)
Reached(next, without) ==
  LET Within[k \in Nat] ==
        IF k = 0 THEN {Entry} \ {without}
        ELSE Within[k - 1] \cup (UNION {next[b] : b \in Within[k - 1]} \ {without})
  IN Within[Cardinality(DOMAIN next)]

Dominates(a, b) == b \notin Reached(Successors(fun), a)
StrictlyDominates(a, b) == a # b /\ Dominates(a, b)

(* The functions are those of a program: every block can be reached, and   *)
(* nothing leads back to the entry (irgen opens a block for the condition  *)
(* of a loop).                                                             *)
ASSUME SsaAssumption ==
  /\ FirstFresh \in Nat
  /\ \A f \in Functions :
       LET next == Successors(f)
       IN Reached(next, 0) = DOMAIN f /\ \A b \in DOMAIN f : Entry \notin next[b]

-----------------------------------------------------------------------------
(* CFA.  dfs numbers the blocks from 0; t has the numbers and the parents. *)
RECURSIVE Dfs(_, _, _)
Dfs(t, curr, fa) ==
  LET me == Cardinality(DOMAIN t.number)
      entered == [number |-> t.number @@ (curr :> me), father |-> t.father @@ (me :> fa)]
      Visit(u, next) == IF next \in DOMAIN u.number THEN u ELSE Dfs(u, next, me)
  IN FoldLeft(Visit, entered, Ascending(succ[curr]))

(* gen_sdom: the blocks above the block of number curr on the way up from  *)
(* the predecessor n are taken with the smallest number they come from.    *)
SemiDominators(t) ==
  LET last == Cardinality(DOMAIN t.number) - 1
      Preds(k) == {t.number[p] : p \in UNION {pred[b] : b \in {c \in DOMAIN t.number : t.number[c] = k}}}
      Sdom[k \in 0 .. last] ==
        LET Up[n \in 0 .. last] == IF n <= k THEN {} ELSE {Sdom[n]} \cup Up[t.father[n]]
            found == UNION {{n} \cup Up[n] : n \in Preds(k)}
        IN IF found = {} THEN last + 1 ELSE Min(found)   \* numeric_limits::max
  IN Sdom

(* gen_idom: from the parent up to the first that is not after sdom.       *)
ImmediateDominators(t, sdom) ==
  LET Idom[k \in DOMAIN sdom] ==
        LET Climb[j \in DOMAIN sdom] == IF j > sdom[k] THEN Climb[Idom[j]] ELSE j
        IN IF k = 0 THEN 0 ELSE Climb[t.father[k]]
      block == [k \in DOMAIN sdom |-> CHOOSE b \in DOMAIN t.number : t.number[b] = k]
  IN [b \in DOMAIN t.number |-> block[Idom[t.number[b]]]]

(* A fault: only the predecessors themselves are looked at.                *)
MutNoClimb(dom) ==
  [x \in DOMAIN dom |->
     {b \in DOMAIN dom : Cardinality(pred[b]) > 1 /\ x \in pred[b] \ {dom[b]}}]

(* From each predecessor up to the immediate dominator.                    *)
Frontiers(dom) ==
  LET Runners(b) ==
        LET Up[x \in DOMAIN dom] == IF x = dom[b] THEN {} ELSE {x} \cup Up[dom[x]]
        IN UNION {Up[p] : p \in pred[b]}
  IN [x \in DOMAIN dom |->
        {b \in DOMAIN dom : Cardinality(pred[b]) > 1 /\ x \in Runners(b)}]

DomTree(b) == Ascending({c \in DOMAIN idom : idom[c] = b /\ c # b})

Analyze ==
  /\ phase = "analyze"
  /\ phase' = "promote"
  /\ \E t \in {Dfs([number |-> <<>>, father |-> <<>>], Entry, 0)} :
       \E dom \in {ImmediateDominators(t, SemiDominators(t))} :
         idom' = dom /\ frontier' = Frontiers(dom)
  /\ UNCHANGED <<fun, order, code, succ, pred, promoted, worklist, defining, inserted,
                 phiVar, stacks, visits, fresh, at, run>>

-----------------------------------------------------------------------------
(* mem2reg.                                                                *)
InstructionsOf(blocks) == UNION {ToSet(blocks[b]) : b \in DOMAIN blocks}

(* Only loaded from and stored to.                                         *)
IsAllocaPromotable(var) ==
  \A i \in InstructionsOf(code) : i.op \in {"store", "say"} => i.value # var

Promotable ==
  {i.dst : i \in {j \in ToSet(code[Entry]) : Is(j, "alloca") /\ j.scalar /\ IsAllocaPromotable(j.dst)}}

GenPromotable ==
  /\ phase = "promote"
  /\ phase' = "insert"
  /\ promoted' = Promotable
  /\ code' = [code EXCEPT ![Entry] =
                SelectSeq(@, LAMBDA i : ~(Is(i, "alloca") /\ i.dst \in Promotable))]
  /\ \E defs \in {[v \in Promotable |->
                     {b \in DOMAIN code : \E i \in ToSet(code[b]) : Is(i, "store") /\ i.ptr = v}]} :
       defining' = defs /\ worklist' = [v \in Promotable |-> SelectSeq(order, LAMBDA b : b \in defs[v])]
  /\ inserted' = [v \in Promotable |-> {}]
  /\ UNCHANGED <<fun, order, succ, pred, idom, frontier, phiVar, stacks, visits, fresh, at, run>>

(* One turn for the first variable with work: a phi at the head of each    *)
(* block of the frontier, which defines the variable too.                  *)
InsertPhi(v) ==
  /\ phase = "insert" /\ worklist[v] # <<>>
  /\ \A w \in promoted : w[2] < v[2] => worklist[w] = <<>>
  /\ LET new == Ascending(frontier[Head(worklist[v])] \ inserted[v])
         dst == [k \in DOMAIN new |-> Local(fresh + k - 1)]
         index == [b \in ToSet(new) |-> CHOOSE k \in DOMAIN new : new[k] = b]
     IN /\ code' = [b \in DOMAIN code |->
                      IF b \in ToSet(new) THEN <<Phi(dst[index[b]], {})>> \o code[b] ELSE code[b]]
        /\ phiVar' = [o \in ToSet(dst) |-> v] @@ phiVar
        /\ inserted' = [inserted EXCEPT ![v] = @ \cup ToSet(new)]
        /\ worklist' = [worklist EXCEPT ![v] =
                          Tail(@) \o SelectSeq(new, LAMBDA b : b \notin defining[v])]
        /\ fresh' = fresh + Len(new)
  /\ UNCHANGED <<fun, phase, order, succ, pred, idom, frontier, promoted, defining, stacks,
                 visits, at, run>>

InsertEnds ==
  /\ phase = "insert" /\ \A v \in promoted : worklist[v] = <<>>
  /\ phase' = "rename"
  /\ visits' = <<[block |-> Entry, pops |-> <<>>]>>
  /\ UNCHANGED <<fun, order, code, succ, pred, idom, frontier, promoted, worklist, defining,
                 inserted, phiVar, stacks, fresh, at, run>>

Zero == Const(0)
StackOf(s, v) == IF v \in DOMAIN s THEN s[v] ELSE <<>>
Pushed(s, v, value) == (v :> Append(StackOf(s, v), value)) @@ s

(* replace_operand; the pointer of a load or store stays as it is.         *)
Replaced(inst, old, new) ==
  CASE inst.op \in {"store", "say"} /\ inst.value = old -> [inst EXCEPT !.value = new]
    [] Is(inst, "phi") -> [inst EXCEPT !.incoming = {<<IF e[1] = old THEN new ELSE e[1], e[2]>> : e \in @}]
    [] OTHER -> inst
ReplacedAll(blocks, old, new) ==
  [b \in DOMAIN blocks |-> [k \in DOMAIN blocks[b] |-> Replaced(blocks[b][k], old, new)]]

(* What a load from v becomes.  The test is for a map without stacks, so   *)
(* that the top of an empty stack may be read.                             *)
Reaching(s, v) ==
  CASE DOMAIN s = {} -> Zero
    [] StackOf(s, v) = <<>> -> Unknown
    [] OTHER -> Last(StackOf(s, v))

(* One instruction of the block b: acc has the code with the instructions  *)
(* of the block kept so far, the stacks and what leaving b has to pop.     *)
RenameInstruction(acc, k, b) ==
  LET inst == acc.code[b][k]
      Removed(blocks) == [blocks EXCEPT ![b][k] = [op |-> "removed"]]
  IN CASE Is(inst, "store") /\ inst.ptr \in promoted ->
            [code |-> Removed(acc.code), pops |-> Append(acc.pops, inst.ptr),
             stacks |-> Pushed(acc.stacks, inst.ptr, inst.value)]
       [] Is(inst, "load") /\ inst.ptr \in promoted ->
            [acc EXCEPT !.code = Removed(ReplacedAll(@, inst.dst, Reaching(acc.stacks, inst.ptr))),
                        !.stacks = IF DOMAIN @ = {} THEN @ ELSE (inst.ptr :> StackOf(@, inst.ptr)) @@ @]
       [] Is(inst, "phi") ->
            [acc EXCEPT !.pops = Append(@, phiVar[inst.dst]),
                        !.stacks = Pushed(@, phiVar[inst.dst], inst.dst)]
       [] OTHER -> acc

(* The operands that the block b adds to the phis of its successors.       *)
Incoming(s, v) == IF StackOf(s, v) = <<>> THEN Zero ELSE Last(StackOf(s, v))
WithOperands(blocks, s, b) ==
  [c \in DOMAIN blocks |->
     IF c \notin succ[b] THEN blocks[c]
     ELSE [k \in DOMAIN blocks[c] |->
             LET inst == blocks[c][k]
             IN IF Is(inst, "phi")
                THEN [inst EXCEPT !.incoming = @ \cup {<<Incoming(s, phiVar[inst.dst]), b>>}]
                ELSE inst]]

Kept(blocks, b) == [blocks EXCEPT ![b] = SelectSeq(@, LAMBDA i : ~Is(i, "removed"))]

(* The phis of the successors of b read their stacks, and so create them.  *)
Touched(s, b) ==
  LET vs == {phiVar[i.dst] : i \in {j \in UNION {ToSet(code[c]) : c \in succ[b]} : Is(j, "phi")}}
  IN s @@ [v \in vs |-> <<>>]

Child(b) == [block |-> b, pops |-> <<>>]
Leave(pops) == [block |-> 0, pops |-> pops]

Rename ==
  /\ phase = "rename" /\ visits # <<>> /\ Head(visits).block # 0
  /\ LET b == Head(visits).block
     IN \E acc \in {FoldLeft(LAMBDA a, k : RenameInstruction(a, k, b),
                             [code |-> code, stacks |-> stacks, pops |-> <<>>],
                             [k \in DOMAIN code[b] |-> k])} :
          /\ code' = Kept(WithOperands(acc.code, acc.stacks, b), b)
          /\ stacks' = Touched(acc.stacks, b)
          /\ visits' = [k \in DOMAIN DomTree(b) |-> Child(DomTree(b)[k])]
                       \o <<Leave(acc.pops)>> \o Tail(visits)
  /\ UNCHANGED <<fun, phase, order, succ, pred, idom, frontier, promoted, worklist, defining,
                 inserted, phiVar, fresh, at, run>>

(* A fault: the definitions of a block stay when it is left.               *)
MutNotPopped(s, pops) == s

Popped(s, pops) == FoldLeft(LAMBDA a, v : [a EXCEPT ![v] = Front(@)], s, pops)

RenameLeave ==
  /\ phase = "rename" /\ visits # <<>> /\ Head(visits).block = 0
  /\ stacks' = Popped(stacks, Head(visits).pops)
  /\ visits' = Tail(visits)
  /\ UNCHANGED <<fun, phase, order, code, succ, pred, idom, frontier, promoted, worklist,
                 defining, inserted, phiVar, fresh, at, run>>

RenameEnds ==
  /\ phase = "rename" /\ visits = <<>>
  /\ phase' = "ssa"
  /\ UNCHANGED <<fun, order, code, succ, pred, passes, fresh, at, run>>

-----------------------------------------------------------------------------
(* Selection: a branch becomes two instructions, one for each way.         *)
Selected(insts) ==
  FoldLeft(LAMBDA s, i : s \o (IF Is(i, "br") THEN <<Branch(i.then), Jump(i.else)>> ELSE <<i>>),
           <<>>, insts)

Select ==
  /\ phase = "ssa"
  /\ phase' = "eliminate"
  /\ code' = [b \in DOMAIN code |-> Selected(code[b])]
  /\ at' = Entry
  /\ UNCHANGED <<fun, order, succ, pred, passes, fresh, run>>

-----------------------------------------------------------------------------
(* phi_elimination_function, for the block now.                            *)
PhisOf(insts) == SelectSeq(insts, LAMBDA i : Is(i, "phi"))
OperandsOf(phi) == {e[1] : e \in phi.incoming}

(* A fault: a phi that reads the result of another is taken for harmless.  *)
MutNoConflict(phis) == {}

(* Results of phis that a later phi of the block reads.                    *)
ConflictSet(phis) ==
  {phis[j].dst : j \in {i \in DOMAIN phis :
                          \E k \in DOMAIN phis : i < k /\ phis[i].dst \in OperandsOf(phis[k])}}

IsBranchOrJump(inst) == inst.op \in {"branch", "jump"}

(* In front of the branches and jumps at the end of a block.               *)
BeforeExit(insts, copies) ==
  LET exits == {k \in DOMAIN insts : \A j \in k .. Len(insts) : IsBranchOrJump(insts[j])}
      k == IF exits = {} THEN Len(insts) + 1 ELSE Min(exits)
  IN SubSeq(insts, 1, k - 1) \o copies \o SubSeq(insts, k, Len(insts))

(* A fault: jumps are redirected, branches forgotten.                      *)
MutJumpsOnly(insts, old, new) ==
  LET hits == {k \in DOMAIN insts : Is(insts[k], "jump") /\ insts[k].block = old}
  IN IF hits = {} THEN insts ELSE [insts EXCEPT ![Max(hits)].block = new]

(* The last of the branches and jumps that leads to old leads to new.      *)
Redirected(insts, old, new) ==
  LET hits == {k \in DOMAIN insts : IsBranchOrJump(insts[k]) /\ insts[k].block = old}
  IN IF hits = {} THEN insts ELSE [insts EXCEPT ![Max(hits)].block = new]

(* The block that the copies for the edge from p go to: p itself, or a new *)
(* block on the edge if p has other successors.                            *)
Splitting(now, phis) ==
  LET edges == {e[2] : e \in UNION {phis[k].incoming : k \in DOMAIN phis}} \cap pred[now]
      split == Ascending({p \in edges : Cardinality(succ[p]) > 1})
      base == Cardinality(DOMAIN code)
  IN [p \in edges |->
        IF \E k \in DOMAIN split : split[k] = p
        THEN base + (CHOOSE k \in DOMAIN split : split[k] = p) ELSE p]

(* The copies for the edge from p, in the order of the phis.               *)
Copies(phis, temp, p) ==
  FoldLeft(LAMBDA s, phi : s \o SetToSeq({Copy(temp[phi.dst], e[1]) : e \in {f \in phi.incoming : f[2] = p}}),
           <<>>, phis)

Eliminated(now, phis, place, temp) ==
  LET split == {p \in DOMAIN place : place[p] # p}
      Placed(b) == CHOOSE p \in split : place[p] = b
      FromTemps == FoldLeft(LAMBDA s, phi : IF temp[phi.dst] = phi.dst THEN s
                                            ELSE <<Copy(phi.dst, temp[phi.dst])>> \o s,
                            <<>>, phis)
      Own(b) == IF b = now THEN FromTemps \o SelectSeq(code[b], LAMBDA i : ~Is(i, "phi")) ELSE code[b]
      old == [b \in DOMAIN code |-> IF b \in split THEN Redirected(Own(b), now, place[b]) ELSE Own(b)]
      new == [b \in {place[p] : p \in split} |-> <<Jump(now)>>]
  IN [b \in DOMAIN old \cup DOMAIN new |->
        IF b \in DOMAIN new THEN BeforeExit(new[b], Copies(phis, temp, Placed(b)))
        ELSE IF b \in DOMAIN place \ split THEN BeforeExit(old[b], Copies(phis, temp, b))
        ELSE old[b]]

NextBlock(b) ==
  LET k == CHOOSE j \in DOMAIN order : order[j] = b
  IN IF k = Len(order) THEN 0 ELSE order[k + 1]

EliminateBlock ==
  /\ phase = "eliminate" /\ at # 0
  /\ \E phis \in {PhisOf(code[at])} : \E place \in {Splitting(at, PhisOf(code[at]))} :
       LET conflicts == Ascending({d[2] : d \in ConflictSet(phis)})
           temp == [d \in {phis[k].dst : k \in DOMAIN phis} |->
                      IF \E k \in DOMAIN conflicts : Local(conflicts[k]) = d
                      THEN Local(fresh - 1 + (CHOOSE k \in DOMAIN conflicts : Local(conflicts[k]) = d))
                      ELSE d]
           split == {p \in DOMAIN place : place[p] # p}
           edge == [b \in {place[p] : p \in split} |-> CHOOSE p \in split : place[p] = b]
       IN /\ code' = Eliminated(at, phis, place, temp)
          /\ fresh' = fresh + Len(conflicts)
          /\ succ' = [b \in DOMAIN succ |-> IF b \in split THEN (succ[b] \ {at}) \cup {place[b]}
                                            ELSE succ[b]] @@ [b \in DOMAIN edge |-> {at}]
          /\ pred' = [pred EXCEPT ![at] = (@ \ split) \cup DOMAIN edge]
                     @@ [b \in DOMAIN edge |-> {edge[b]}]
          /\ order' = FoldLeft(LAMBDA s, b : s \o (IF b \in split THEN <<b, place[b]>> ELSE <<b>>),
                               <<>>, order)
  /\ at' = NextBlock(at)
  /\ UNCHANGED <<fun, phase, passes, run>>

EliminateEnds ==
  /\ phase = "eliminate" /\ at = 0
  /\ phase' = "eliminated"
  /\ UNCHANGED <<fun, order, code, succ, pred, passes, fresh, at, run>>

-----------------------------------------------------------------------------
(* Execution of a block in the state env, a map from what was written.     *)
ValueIn(env, o) ==
  CASE o[1] = "const" -> o
    [] o \in DOMAIN env -> env[o]
    [] OTHER -> Unknown

Executed(insts, env) ==
  LET Do(s, i) ==
        CASE Is(i, "store") -> [s EXCEPT !.env = (i.ptr :> ValueIn(@, i.value)) @@ @]
          [] Is(i, "load") -> [s EXCEPT !.env = (i.dst :> ValueIn(@, i.ptr)) @@ @]
          [] Is(i, "copy") -> [s EXCEPT !.env = (i.dst :> ValueIn(@, i.value)) @@ @]
          [] Is(i, "say") -> [s EXCEPT !.said = Append(@, ValueIn(s.env, i.value))]
          [] OTHER -> s
  IN FoldLeft(Do, [env |-> env, said |-> <<>>], insts)

(* Phis take their operands all at once, on the way from a block.          *)
Joined(insts, env, b) ==
  LET Taken(phi) == CHOOSE e \in phi.incoming : e[2] = b
      phis == PhisOf(insts)
  IN [o \in {phis[k].dst : k \in DOMAIN phis} |->
        LET phi == CHOOSE p \in ToSet(phis) : p.dst = o IN ValueIn(env, Taken(phi)[1])] @@ env

(* Where a block leads to; 0 is the end of the function.                   *)
Following(insts, choice) ==
  LET exit == Last(insts)
      two == Len(insts) > 1 /\ Is(insts[Len(insts) - 1], "branch")
  IN CASE Is(exit, "ret") -> 0
       [] Is(exit, "br") -> IF choice THEN exit.then ELSE exit.else
       [] two /\ choice -> insts[Len(insts) - 1].block
       [] OTHER -> exit.block

StartRun ==
  /\ phase \in {"ssa", "eliminated"}
  /\ phase' = "run"
  /\ at' = Entry /\ here' = Entry
  /\ UNCHANGED <<fun, order, code, succ, pred, passes, fresh, from, memory, values, said, echoed>>

(* A block of the function, the same block transformed, and what was put   *)
(* on the edge to the next.                                                *)
Execute(choice) ==
  /\ phase = "run" /\ at # 0
  /\ LET source == Executed(fun[at], memory)
         target == Executed(code[here], Joined(code[here], values, from))
         next == Following(code[here], choice)
         split == next > Len(fun)
     IN /\ at' = Following(fun[at], choice)
        /\ memory' = source.env /\ said' = source.said
        /\ from' = here /\ echoed' = target.said
        /\ here' = IF split THEN Following(code[next], choice) ELSE next
        /\ values' = IF split THEN Executed(code[next], target.env).env ELSE target.env
  /\ UNCHANGED <<fun, phase, order, code, succ, pred, passes, fresh>>

-----------------------------------------------------------------------------
Phases == {"analyze", "promote", "insert", "rename", "ssa", "eliminate", "eliminated", "run"}

Init ==
  /\ fun \in Functions
  /\ phase = "analyze"
  /\ order = [k \in DOMAIN fun |-> k]
  /\ code = fun /\ succ = Successors(fun) /\ pred = Predecessors(fun)
  /\ idom = <<>> /\ frontier = <<>>
  /\ promoted = {} /\ worklist = <<>> /\ defining = <<>> /\ inserted = <<>>
  /\ phiVar = <<>> /\ stacks = <<>> /\ visits = <<>>
  /\ fresh = FirstFresh
  /\ at = 0 /\ here = 0 /\ from = 0
  /\ memory = <<>> /\ values = <<>> /\ said = <<>> /\ echoed = <<>>

Next ==
  \/ Analyze
  \/ GenPromotable \/ (\E v \in promoted : InsertPhi(v)) \/ InsertEnds
  \/ Rename \/ RenameLeave \/ RenameEnds
  \/ Select \/ EliminateBlock \/ EliminateEnds
  \/ StartRun \/ \E choice \in BOOLEAN : Execute(choice)

Spec == Init /\ [][Next]_vars

-----------------------------------------------------------------------------
(* The dominators found by numbers of the search are those by paths, and   *)
(* the frontier of a block is where its dominance ends                     *)
(* (control_flow_analysis.cpp:27, 97).                                     *)
DominanceExact ==
  phase = "promote" =>
    /\ idom[Entry] = Entry
    /\ \A b \in DOMAIN fun \ {Entry} :
         /\ StrictlyDominates(idom[b], b)
         /\ \A a \in DOMAIN fun : StrictlyDominates(a, b) => Dominates(a, idom[b])
    /\ \A a \in DOMAIN fun :
         frontier[a] = {b \in DOMAIN fun : /\ \E p \in pred[b] : Dominates(a, p)
                                          /\ ~StrictlyDominates(a, b)}

DefinitionsOf(o) ==
  {<<b, k>> \in UNION {{b} \X DOMAIN code[b] : b \in DOMAIN code} :
     code[b][k].op \in {"load", "phi"} /\ code[b][k].dst = o}

(* After mem2reg no memory is left of a promoted variable, every phi has   *)
(* one operand for each way into its block, and every operand is defined   *)
(* once, on every path to where it is read (mem2reg.cpp:56, 99).           *)
SsaForm ==
  phase = "ssa" =>
    \A b \in DOMAIN code : \A k \in DOMAIN code[b] :
      LET inst == code[b][k]
          Fixed(o) == o[1] # "local"
          Above(o, c, n) ==
            \E d \in DefinitionsOf(o) :
              /\ DefinitionsOf(o) = {d}
              /\ IF d[1] = c THEN d[2] < n ELSE Dominates(d[1], c)
      IN CASE inst.op \in {"store", "load"} /\ inst.ptr \in promoted -> FALSE
           [] inst.op \in {"store", "say"} -> Fixed(inst.value) \/ Above(inst.value, b, k)
           [] Is(inst, "phi") ->
                /\ {e[2] : e \in inst.incoming} = pred[b]
                /\ Cardinality(inst.incoming) = Cardinality(pred[b])
                /\ \A e \in inst.incoming : Fixed(e[1]) \/ Above(e[1], e[2], Len(code[e[2]]) + 1)
           [] OTHER -> TRUE

(* Along every path the transformed function reads what the function reads *)
(* from memory, with its phis taken at once or as copies one after the     *)
(* other; what C leaves open may differ (mem2reg.cpp:99,                   *)
(* phi_elimination.cpp:40).                                                *)
SameReads ==
  /\ (phase = "run" => here = at)
  /\ Len(said) = Len(echoed)
  /\ \A k \in DOMAIN said : said[k] = Unknown \/ echoed[k] = said[k]

(* After the edges are split, the lists of successors and predecessors say *)
(* what the branches and jumps do, each block is listed once, and no phi   *)
(* is left (phi_elimination.cpp:93).                                       *)
EdgesAgree ==
  phase = "eliminated" =>
    /\ succ = Successors(code) /\ pred = Predecessors(code)
    /\ ToSet(order) = DOMAIN code /\ Len(order) = Cardinality(DOMAIN code)
    /\ \A b \in DOMAIN code : PhisOf(code[b]) = <<>>

=============================================================================
