# A formal model of the SysY compiler

The repository holds a compiler from SysY, a small C-like language with `int`,
`float` and arrays, to RISC-V assembly, written in C++ for one thread. This
directory models the parts of it whose correctness does not show in a single
function: the way of names from the text to places in memory, that of an expression
to executed instructions, that of an array and its initializer list to words of
memory, the control flow that IR generation builds, dominators and SSA form with the
way back out of it, liveness analysis, the greedy register allocator, the code that
spilling adds, and the frames that functions share the stack with. Paths below are
relative to the repository's root: `src/` is the implementation, `include/` its
headers.

    tlc -config MCRegAlloc.cfg MCRegAlloc.tla       # one configuration
    tlapm RegAllocProof.tla                         # the proofs of one module

## 1. The system

`main.cpp` runs the phases once, in order: the parser builds an AST (scopes are
opened and closed by the `Driver` while it does), `irgen` turns the AST into IR
functions of basic blocks, `codegen` selects RISC-V instructions over virtual
registers, `codegen_rest` allocates registers function by function and only then
adds prologues and epilogues, and the printer writes the assembly. Nothing is
persisted and nothing runs concurrently. What makes the code hard is that each
phase relies on conventions that an earlier phase keeps: ids, the order of
lists, maps that have to say the same, and frames that grow after their layout
has been used.

| component | source | state | operations | what makes it correct |
|---|---|---|---|---|
| driver and scopes | `src/frontend/driver.cpp` | current function, block, symbol table | open and close functions and blocks | names resolve to the innermost declaration; closing restores what opening replaced |
| symbol table | `src/frontend/symbolTable.cpp` | nested maps from names to symbols | insert, lookup from the inside out | as above |
| AST and types | `src/frontend/ast.cpp`, `type.cpp` | tree; list being initialised | create nodes, fold constants, spread initializer lists over the dimensions | folding keeps values; elements land where C puts them |
| compile-time evaluation | `src/frontend/compileTime.cpp` | none | arithmetic on constants | equals arithmetic at run time |
| IR generation | `src/frontend/irgen.cpp` | current function and block, stacks of break and continue targets | one visitor per statement and expression | the blocks do what the statements say |
| IR builder and blocks | `src/ir/builder.cpp`, `function.cpp`, `basic_block.cpp` | instructions, block list, uses | append an instruction, append a block, add missing terminators, remove unused blocks | each block ends once; every target is in the function |
| IR passes | `src/ir/passes` | dominators and frontiers, worklists, stacks of definitions | analyze, promote, place phis, rename; never called by `main` | every read gets the value that memory held; each operand is defined once, on every path to its uses |
| instruction selection and frames | `src/ir/codegen.cpp` | frame sizes, operand map | parameters, calls, locals, prologue, epilogue | a call leaves the caller's state alone; arguments arrive |
| backend builder and lists | `src/backend/*.cpp` | instructions, operands with their uses | constructors, insertion, replacement of operands | – |
| liveness analysis | `src/backend/passes/liveness.cpp` | `instr_num2id`, `instr_id2num`, In/Out sets, `live_range_map` | number, sweep, compute ranges | values needed at the same time have conflicting ranges |
| backend control-flow analysis | `src/backend/passes/cfa.cpp` | depth-first numbers, loop weights | one search | weights only steer heuristics |
| unused backend passes | `phi_elimination.cpp`, `dce.cpp`, `unused_store_elim.cpp` | block, successor and predecessor lists | split edges, replace phis by copies; never called by `main` | the copies have the effect of the phis; the lists say what the jumps do |
| register allocation | `src/backend/passes/regalloc.cpp` | priority queue, `alloc_map`, `occupied_map`, `occupied_range_map`, hints, slots | pop, assign, evict, split, spill, rewrite | live values have homes of their own; the loop ends |
| scanner, parser, printers, options | `scanner.l`, `parser.y`, `main.cpp` | – | – | – |

How they interact:

* IR generation and the blocks: `irgen` keeps a *current block*, and
  `append_instruction` silently starts a fresh block that belongs to no function
  after a terminator. `add_terminator` later supplies the jumps that `irgen` left
  out from the *order of the list*, and `remove_unused_block` decides from use
  lists which blocks exist. Three pieces of code written apart have to agree.
* Liveness and allocation: the analysis hands over live ranges and a numbering;
  the allocator decides on ranges alone, and `spill` and `rewrite_operands` find
  instructions *through* the ranges.
* AST, evaluation and selection: the type of a node decides which conversion,
  which IR operator and which class of register follows; the type is computed in
  one place, the value in others (by the compiler for constants, by 64-bit
  registers at run time), and nothing checks that they agree.
* Types and addresses: an initializer list gets its type long after it was read, the
  elements are then stored through one pointer that walks over the array, and an
  index scales by the size of what is left of the type. The three walk the same
  dimensions independently.
* Phis and edges: `mem2reg` pushes and pops definitions along the dominator tree and
  hands them to phis along the edges; phi elimination edits instructions, edge lists
  and the list of blocks by hand.
* Allocation, spilling and frames: spilling adds slots to a frame whose layout
  instruction selection has already used, and needs temporaries that the
  allocator never gives out. Prologue and epilogue are added after that and each
  computes the layout again.

What a test would hardly reach: sequences of evictions over several blocks;
loops in code that is never reached; lists that close in the middle of a row;
two variables swapped around a loop; `break` and `continue` in nests with
short-circuit conditions and early returns; the first ids of a program; an
instruction all of whose operands are spilled, some to distant slots; calls
with more arguments than registers, several deep. `PROJECT.json` lists each
hazard at its line with the properties that cover it.

## 2. The modules

| module | models | state | actions |
|---|---|---|---|
| `LiveRange` | ranges of `liveness.h` and when they conflict | – | – |
| `Allocation` | what an allocator promises (abstract) | `home` of each value, `closed` | `Give` a register and take it from those it clashes with, `ToMemory` for good, `Close` |
| `RegAlloc` | the loop `greedy_allocation`, with `try_allocate`, `try_split` and the slot part of `spill` | all the maps of the class | `Assign`, `Evict`, `GiveUp`, `TrySplit`, `Spill`, `RewriteOperands` |
| `Liveness` | `number_instructions`, the In/Out sweeps, the ranges | block lists, sets, numbers, ranges | `NumberBlock`, `StartSweep`, `SweepBlock`, `ComputeRanges` |
| `GreedyAllocation` | `Liveness` followed by `RegAlloc`: its live ranges are the allocator's input | both | `Analyze`, then `Allocate` (any step of the one, then any of the other) |
| `SpillCode` | the instructions `spill` adds and what they mean | a short program, slots | `Spill(v)`, in any order |
| `StackFrame` | parameters, calls, locals, prologue, epilogue, as executed | memory, registers, stack pointer | `Prologue`, `Body`, `Call(g)`, `Epilogue`, `Return` |
| `ControlFlow` | statements and conditions of `irgen.cpp`, `append_instruction`, `add_terminator`, `remove_unused_block` | blocks, current block, target stacks, work left | one per statement or condition, then one step of source or blocks |
| `Words`, `Expressions` | numbers of bounded width; types, conversions and folding in `ast.cpp` and `compileTime.cpp`, next to what C says | – (pure) | – |
| `ExpressionCode` | a statement around one expression: `irgen_expr`, `codegen_instruction`, and the instructions executed | statement, IR left, virtual registers, assembly, registers, memory, calls | `ParseStatement`, one `Select...` for each IR instruction, `Run`, one action for each kind of machine instruction |
| `Scopes` | `driver.cpp`, `symbolTable.cpp`, the grammar's actions for scopes, and how `irgen` gives declarations their places | symbol tables, entries, blocks, what the driver keeps; irgen's work left; the scopes of C | one per reduction that matters, then `EndOfText` and one `Gen...` for each kind of statement |
| `Arrays` | a declaration with its nested list, `setValueType`, the stores of `irgen` or the data of a global, indices and array arguments | lists being read, C's cursor, `queue`, `pointer`, `shift`, memory | `StartList`, `DeclareOnly`, `ScanElement`, `OpenList`, `CloseList`, `EndOfList`; `GenGlobal`, `GenLocal`; `StoreList`, `StoreElement`, `SkipZero`, `StoreShifted`, `StoresEnd`; `Index`, `PassArgument` |
| `Ssa` | dominators and frontiers, `mem2reg`, selection of phis and branches, `phi_elimination` | one function, what the passes keep, two executions | `Analyze`, `GenPromotable`, `InsertPhi`, `InsertEnds`, `Rename`, `RenameLeave`, `RenameEnds`; `Select`, `EliminateBlock`, `EliminateEnds`; `StartRun`, `Execute` |
| `Induction` | induction and least elements, stated with sets | – | – |
| `RegAllocProof`, `StackFrameProof`, `LivenessProof`, `GreedyProof`, `SpillCodeProof`, `ControlFlowProof`, `ScopesProof` | theorems, see section 4 | | |

Each but the first two and the pure ones has an `MC` module that defines the small
instances, and one configuration for each question.

### How the modules correspond to the code

**RegAlloc.** One variable for each map of the class `RegAlloc`: `queue` is
`alloc_priority_queue` (a bag, popped at a maximum of `PrioritizedAlloc`'s
order), `status` is `alloc_status_map`, `alloc` is `alloc_map`, `occupied` is
`occupied_map`, `occRanges` is `occupied_range_map`, `slot` and `frame` stand
for the stack slots. A step is one turn of `greedy_allocation`: pop, dispatch on
the status, and everything the handler changes. `occRanges` keeps two
peculiarities of the code. Its members are compared by begin and end only, so
`Insert` drops a range whose place is taken; and `Erase` removes one range of an
evicted value. Iteration over an `unordered_map` is a choice. The weight of a
block is a constant; the code leaves it at 1 (`cfa.cpp:38`), the model takes any.

**Allocation.** What the allocator promises, without queue, maps or
heuristics: a value may take a register as long as everything that clashes with
it there leaves; what is in memory stays there; in the end (`closed`) every
value has a home. `ImplementsAllocation` maps the allocator's `alloc` and `slot`
to `home`.

**Liveness.** Blocks hold instructions with lists of defined and used operands.
`NumberBlock` takes the next block of the depth-first order, `SweepBlock` one
block of the breadth-first walk from the last block. The reference is
independent of the analysis: `LiveIn` and `LiveOut` are defined by paths from a
block to an exposed use. `Onward` is what paths reach. Two assumptions describe the
functions that get here. `WellFormed`: the entry is first, the block with the return
last, and the two edge lists say the same (`Builder::add_instruction_back`,
backend/builder.cpp 482-493, enters each edge in both). `Returns`: every block leads
to the return, also those in an endless loop of the source, since the condition of a
`while` is a two-way branch whatever it computes, and every other jump goes to a
condition, to a block further on or to the return (irgen.cpp 521-568).

**GreedyAllocation.** The two modules above as instances over shared variables:
`live` of the allocator is what the analysis computed, and hints and coalescing
pairs come from the moves of the function. `gen_alloc_hint` walks the instructions
and overwrites what it has entered, so `MovePartner` takes the last move.
`FunctionsAssumption` adds to the two of `Liveness` that the code itself writes
argument and temporary registers only.

**SpillCode.** Executes a straight-line program symbolically before and after
`spill` (regalloc.cpp, 380 to 630) has rewritten the instructions that mention
an operand, for integers and floats, slots in reach of an immediate and beyond.
What spilling adds to an instruction is kept next to it: `code[n]` has the loads
before it, the instruction with its operands replaced, and the stores behind it.
Instructions read at most two virtual registers, as all that instruction selection
makes do, and write at most one (`ProgramsAssumption`).
`usedTemp` is the map from an instruction to the temporaries taken.

**StackFrame.** Memory, registers and the stack pointer while functions of
arbitrary frames call each other. Values are symbolic: `ArgumentValue(d, k)` is
"the k-th argument of the call at depth d". `AllocaOffset`, `SpillOffset`,
`SavedPlace` with `SavedOffset`, and `StackFrameSize` are the layout computations of
`codegen.cpp`; `StackPlace` is the caller's count of the arguments on the stack,
`ParamPlace` the callee's.

**ControlFlow.** A task stack replaces the recursion of the AST visitors: a
statement pushes what is left to do after its parts, and a branch or a loop body is
a task of its own (`GenNested`), which stops at the first statement that ends the
current block. An `if` with a constant condition is replaced by what is left of it
(`CreateIf`) when irgen gets there; the parser has done it before. Ids of instructions and
blocks come from two counters, `next_instruction_id` and `next_block_id`, which matters: see
section 6. When the function is finished, its blocks and its source are executed
side by side; the outcome of each test is chosen when the source evaluates it.

**Expressions.** `CreateBinary`, `CreateUnary`, `CreateCast`, `CreateCall` are the
functions of that name; `Fold` is the beginning each of them shares, `FoldBinary`,
`FoldUnary` and `FoldCast` are `compileTime.cpp`. `UnaryType` is the type that the
node of a unary operator gets, read before its operand is converted. An exception
is the value `Throws`. `Meaning` is the independent reference: C's usual
arithmetic conversions on the text, with an `undefined` value where C leaves the
result open.

**ExpressionCode.** `Generate` returns the IR of a tree; each `Select` action takes
one IR instruction off the list and appends what `codegen_instruction` selects for
it, with the same operands requested as immediates (`AsmOperand` is
`codegen_operand`) and fresh virtual registers in the order in which the code
fetches them. Registers are twice as wide as an `int`; nothing but the instructions
themselves keeps an integer sign-extended in them. Variables are memory by name:
where they lie is the subject of `StackFrame`, in which blocks the code lies that of
`ControlFlow`.

**Scopes.** The text is written as it is parsed: `open` holds the scopes of C with
the declarations in them, and decides which reduction may come next; every action is
also what the parser does at it, through `Driver`, to tables, entries, blocks and the
stack. `uses` records which declaration of C each operand and call means, `home` the
place that irgen gives to that declaration, `loads` the places read: the reference
never looks at a symbol table. Numbers of entries, tables and blocks stand for the
shared pointers. An assignment or a return has the scopes of the expression that
stands for it, a loop or an `else` those of an `if`. An `if` is a context of its own
in `open`, without declarations, and keeps the condition that was read until its
statement is complete. `ScopesAssumption` keeps the names of the source and the ones
that the compiler makes up apart; section 6 says what happens when they meet.

**Arrays.** While the parser collects lists in `lists`, the rule of C runs beside it
token by token: `cursor` holds, for each open list, the object it initializes and the
next place in it, and `expected` the words of the array; neither knows of the trees.
At the end of the list `setValueType` spreads it over the dimensions. `queue` is
`ast_expr_queue`, the elements in the order in which they are stored; `pointer` is the
address held by `ir_ptr_id`, `shift` is `shift_amount`, the zeros skipped since the
last store, and `filled` is `memset_init`. A global array goes through `GenGlobal`,
which lays out words and runs of zero bytes. Afterwards `Index` and `PassArgument`
compute addresses from the types that are left, and `object` follows what C says the
expression names. Each element has a value of its own. The constant `Anywhere` admits
the two kinds of text in which the code goes wrong; section 6 describes them.

**Ssa.** A function is a list of blocks with loads, stores, and a `say` that stands
for every other use of a value. `Rename` and `RenameLeave` are the two halves of the
recursive `rename`, before and after the subtrees; `stacks` is `def_stack`, with the
entries that reading a map creates. `Select` turns a two-way branch into a branch and
a jump; `EliminateBlock` deals with the phis of one block: edges are split where they
must be, the copies are ordered, cycles are broken with a fresh operand. Then the
function before the passes and what they made of it run side by side, block by block,
either in SSA form or after elimination; which way a branch goes is chosen. The
reference for dominance is by paths: a block dominates another when no path from the
entry gets there without it.

## 3. The runs

| run | question | result |
|---|---|---|
| `reg_alloc` | Does one allocation keep its maps in step, place every value once, and implement `Allocation`? | holds |
| `liveness` | Are the sets exact, do values needed together conflict, and do the sweeps end? | holds |
| `liveness_dead_loop` | Is every instruction that mentions an operand found through its ranges? | **violated**, section 6 |
| `greedy_two` | Two values, two registers, a loop with a call: does no live value lose its register, to another value or to the call, and does the pass end? | holds |
| `greedy_pressure` | Three values over several blocks and one register: are live values apart? | **violated**, section 6 |
| `spill_code` | Does spilling keep the meaning of the code, and do the temporaries suffice? | holds |
| `stack_frame` | Do calls keep the caller's registers and locals and deliver arguments? | holds |
| `control_flow` | Do the blocks do what the statements say, does each end once and go to blocks that are kept? | holds |
| `expression_code` | Does every small expression in every kind of statement get the value and make the calls that C says? | holds |
| `scopes` | Is every name read from the place of the declaration it means, and is every statement in its block? | holds |
| `arrays` | Does every element land where C puts it and nothing outside the array, and does an index go to the element it names? | holds |
| `ssa` | Are dominators those of the graph, is the result in SSA form, and does the function read the same values before and after the passes? | holds |

### Bounds

* `MCRegAlloc`: three values of one block with instructions 0..3, two
  registers, of which a call may write one. Three values are the least with
  which an evicted value evicts another; with two registers, one clobbered, every
  outcome of an entry happens: free register, hint, eviction, split, spill.
* `MCLiveness`: the three shapes statements compile to, two instructions a block,
  one write and up to two reads of a value anywhere the write dominates. Ranges
  that end at a block's edge, cross it, or cover it whole all occur.
* `MCGreedyAllocation`: the blocks of a short-circuit expression, where values
  live across blocks. `MaxReads` bounds the reads of `y`.
* `MCSpillCode`: two integers, two floats, a result; slots 0 and 8 are near
  (`MaxImmediate` is 8 instead of 2047), others distant, and the order of spilling
  is free, so that any operand may get a distant slot.
* `MCStackFrame`: one argument register a class (`ArgRegs`) instead of eight, so
  that the stack is needed early; frames of 16 to 64 bytes with and without
  padding; three calls deep (`MaxDepth`), so that a frame has a neighbour on both
  sides. `StackTop` bounds the memory and is never reached.
* `MCControlFlow`: a loop, in it an if, loop or block, in that every way to leave.
  `FirstBlock` and `FirstInstruction` are apart, as after the first functions of a
  program; section 6 says what happens when they are not.
* `MCExpressionCode`: `Width` 5 instead of 32 bits and `ImmediateWidth` 3 instead of
  12: two literals and a constant lie on both sides of the immediate's limit, a
  variable holds the greatest integer, a negative one or zero, so that sums
  overflow. Expressions have up to three operands over an integer, a float and two
  constants with the operators of every level of the grammar, nested where a
  Boolean becomes a number again. A float stands for a multiple of one half, cut at
  the ends of the range: conversions lose something both ways, but rounding and
  −0.0 are not represented. Results that C leaves undefined are not compared. `%` on
  floats is left out (C has none), and so is `!` of what is not a constant and a float
  (`NotOfFloat`), which goes wrong, see section 6.
* `MCScopes`: `MaxTokens` 13 allows twelve reductions: two functions with bodies, or
  one with a parameter, a block that hides it with a declaration, and an operand after
  the block. A text that the bound cuts off rests. Names are interchangeable model
  values, and so differ from the names the compiler gives its own symbols; section 6
  says what happens when they do not.
* `MCArrays`: five shapes of one to three dimensions and up to eight words, one of
  them with a dimension of 1; `MaxItems` 6 elements and inner lists, more than a row
  and less than the array, so that rows are filled, started and left open;
  `FillWords` 4 instead of 8, so that arrays lie on both sides of the limit from which
  the memory is zeroed first; `MaxCalls` 2, a parameter that is passed on.
* `MCSsa`: eight graphs (`if`, `if`-`else`, a short-circuit condition, `while`, with
  `break`, with `continue`, with two ways back, nested) and six contents for each block
  between the first and the last: nothing, a write, a read, a copy, a swap, and a store
  to an array, which is never promoted. 338776 distinct states.

### Fairness

The compiler is one thread, and a loop iteration cannot be delayed or disabled by
anything outside it, so `RegAlloc`, `Liveness` and `GreedyAllocation` assume
`WF_vars(Next)`: the loop is run as long as it can run. Termination is therefore
a statement about the loop, never about a scheduler. `ControlFlow` assumes weak
fairness of a step of the source and of a step of the blocks, the two programs
executed, and none of generation. `SpillCode`, `StackFrame`, `ExpressionCode`,
`Scopes`, `Arrays` and `Ssa` state safety only and assume none.

Deadlock is checked except in three runs whose systems really stop: in `control_flow`
and `ssa` the function executed returns, in `arrays` the text is translated and the
array passed on as often as `MaxCalls` allows.

## 4. The proofs

The theorems hold for every value of the constants that satisfies the named
assumptions of the modules: any functions, sizes, registers and depths.
`PROJECT.json` lists them. `Induction` states induction on numbers and the existence
of least and greatest elements with sets instead of predicates, so that they can be
cited.

### Register allocation: `RegAllocProof`

For any sets of values and registers, any live ranges, hints and pairs of the input
type, and any block weights. The assumptions are those `RegAlloc` names: finite sets
of values and registers, null values outside them, an injective register order,
positive block weights, and inputs of `InputType` whose ranges are well formed and
whose coalescing pairs are entered under both partners.

Without a further assumption:

* `TypeCorrect`: every map keeps its type.
* `FixedRegistersCorrect`: no value holds a register of the other class, or one
  that the code itself writes during the value's ranges. It follows from the
  candidates of `Assign` and `Evict`, and from ranges that never change.
* `SlotsCorrect`: slots are disjoint and inside the frame; the frame only grows
  and a value gets at most one slot.

Under `OneRangeEach`, every value has exactly one live range:

* `NoSharedRegisterCorrect`, `MapsAgreeCorrect`, `WaitsOnceCorrect`,
  `AllPlacedCorrect`, `SpillFinal` and `RefinesAllocation`.

`OneRangeEach` holds for values that live in one block, which is where
instruction selection keeps temporaries. It cannot be dropped: `greedy_pressure`
is a counterexample to `NoSharedRegister` with several ranges.

The argument. `NoSharedRegister` is not inductive, since `Conflicts` looks at
`occRanges` and not at `alloc`, and looks only from one step before the first
range that is not smaller. The invariant is `IInv == Straight /\ WaitsOnce`,
where `Straight` joins the type, `MapsAgree`, `NoSharedRegister`, and that the
ranges are those of the input. `MapsAgree` says that `occRanges[r]` are exactly the
ranges of the values in `occupied[r]`, which are exactly those with `alloc[v] = r`.
From it and `NoSharedRegister` the members of `occRanges[r]` are pairwise
disjoint, hence ordered the same by begin and by end; so the one step back finds
every range that conflicts (`ConflictsExact`), the new owner's range is in
nobody's place (`InsertAll`), and erasing one range erases all
(`RangesInRegister`). `AssignPlaces` and `EvictPlaces` conclude that a step places a value
after removing exactly those it clashes with, and `PlacedKeepsMaps` that this
keeps the maps. `WaitsOnce` needs it too: an evicted value is queued again, and
must have left the register for that. Refinement maps `Assign` and `Evict` to
`Give`, `Spill` to `ToMemory`, `RewriteOperands` to `Close` and the rest to
stuttering; it covers the safety part of `Allocation!Spec`.

### Frames: `StackFrameProof`

`CallersGetTheirState`, `ParametersAreArguments`, `FramesDoNotOverlap` and
`CallsAreAligned`, for any functions of any shapes, any number of argument registers and
any depth of calls. All of them come from one inductive invariant (`InvariantHolds`),

    IInv == Types /\ Chain /\ SavedKept /\ LocalsThere /\ ArgumentsThere /\ Registers

* `Chain`: the frame of each call starts where the caller's stack arguments end, and
  all addresses are aligned. Without it no two frames could be told apart.
* `SavedKept`, `LocalsThere`, `ArgumentsThere`: what each active call, and not only the
  running one, has in memory: the registers it saved, the locals its body wrote, and
  the arguments it got on the stack. A return has to find the frame below intact, so
  the claims about the running call alone are not inductive.
* `Registers`: what the registers hold at each point of the running function, and that
  a register a function does not save is still what its caller left there.

A step writes only below the frames it could harm (`Chain`); within a frame, `LocalSize`,
the places of the saved registers and `Aligned` keep the areas apart.

### Liveness: `LivenessProof`

`SweepsComputeLiveness`: at the end, the sets of reachable blocks are exactly liveness
by paths; at no time do they exceed it. The invariant (`SweepsInvariant`) joins three
things. Sets stay below liveness, since one step of the equations does. While a sweep
has changed nothing, the equations hold in every block it has visited; and a sweep that
changed something is followed by another. A sweep walks predecessors from the last
block and takes all it meets, so it is a closed set and contains `Onward`, the least one
(`Returns` says that this is every block). So after the last sweep the equations hold
everywhere, and an operand live at the end of a path is pulled back along it into the
set of its first block.

`RangesTellInterference` and `RangesCoverMentions`: the ranges read off those sets
conflict whenever two operands are needed at the same time, and contain each reachable
instruction that mentions the operand. Numbers are dense and blocks occupy disjoint
intervals; the sorted enumeration that `ComputeRanges` relies on exists; and between a
value's last mention before an instruction and the next one lies one range that spans it.

### The whole pass: `GreedyProof`

`CallsDestroyNothing`: no value needed after an instruction is in a register which that
instruction writes, for every function and every course of evictions and spills.
`PassInvariant` is the invariant of the analysis, and after it that every register
handed out was a candidate for its owner (`Allowed`), and none was handed out before.
The steps of the analysis are those of `LivenessProof`, taken over through `INSTANCE`.

`LocalValuesApart`: values needed at the same time are in different registers,
under `LocalOnly`: all blocks can be reached, and each virtual register is written once
and read only later in the same block, as the temporaries of expressions without `&&`
and `||` are. Then the analysis gives every value one range, which is what
`RegAllocProof` asks for, and its invariant applies. Without `LocalOnly` the claim is
false: `greedy_pressure`.

### Spilling: `SpillCodeProof`

For every straight-line program of instructions that read at most two virtual registers
and write at most one, for any sets of virtual registers, any limit of immediates, and any
course of spills:

* `TemporariesSuffice`: an instruction never runs out of temporaries;
* `SpillingKeepsMeaning`: the code reads in every instruction what the source reads there.

Neither is inductive. The invariant (`InvariantHolds`) is

    IInv == TypeOK /\ ~failed /\ SlotsApart
            /\ \A n : TempsLeft(n) /\ OperandsRight(n) /\ LoadsRight(n) /\ StoresRight(n)

* `TempsLeft`: an instruction with an operand still to be spilled has spilled at most one
  other, which took the first temporaries of the lists; so there is one left.
* `OperandsRight`: what is not spilled is as in the source, what is spilled is a temporary
  that was taken for this very instruction.
* `LoadsRight`: executed on *any* machine, the loads of an instruction put what the slots
  hold into those temporaries and change no other register. Quantifying over the machine
  makes it independent of the rest of the code, so that a spill disturbs it only where it
  adds loads.
* `StoresRight`, `SlotsApart`: a definition ends in its own slot.

The meaning follows from the invariant by a simulation of the source's machine along the
code (`SpillingKeepsMeaning`): registers agree except temporaries and spilled operands,
whose values are in their slots once they are defined.

### Control flow: `ControlFlowProof`

For any set of functions, of any size and nesting, and any values of the counters:

* `TypeCorrect`: the blocks of a function are different and exist, and the stacks of break
  and continue go together and are empty when the function is finished;
* `EveryBlockEndsOnce`: nothing follows an instruction that leaves its block, and after
  `add_terminator` every block has one.

Where blocks go is only certain under `Regular`: break and continue occur in loops, and
`has_use` drops no use because an instruction has the number of the block it goes to.
Under `[]Regular`:

* `ReturnStaysLast`: the return block is the last block of the function, in the end too;
* `TargetsStayListed`: what `remove_unused_block` leaves goes only to what it leaves.

The programs of `MCControlFlow` all satisfy `Regular`: TLC finds no violation when it is
added to the invariants of the run. Section 6 shows that its second part cannot be
dropped. The code checks neither part.

The invariant `Inv(sure)` says one thing per phase; `sure` is `FALSE` for the first two
theorems and `TRUE` for the others. While irgen runs, it relates the builder to the call
stack:

* the blocks that are fetched and not yet in the function are empty and belong to exactly
  one pending task (`Placed`, `Apart`);
* the loops being generated are the stacks of the builder, innermost on top (`Stacks`,
  `Ordered`);
* a block of the function that does not end yet is the current one or has another one
  behind it that is not the return block, so that the jump which `add_terminator` supplies
  goes to a block of the list (`Placed`);
* a block that ends goes to blocks of the function or pending ones (`GoesOn`), and the
  instruction that does it is among the uses of its targets (`UsesKnown`);
* `NoTrap`: a set of blocks that has every block its members go to has the return block,
  the current block or a pending one.

`NoTrap` is the heart of it. The loop of `while` has a jump back and, until its tail is
entered, no other way out than a pending block. So while a loop is open the invariant also
says how its condition leads to the tail (`LoopsLeft`), in terms of every set that is closed
under "goes to", so that no recursion over paths is needed. When nothing is pending,
`NoTrap` says that the return block can be reached from the entry (`ReturnReached`); and
`remove_unused_block` keeps what a kept block goes to, since the use is still there
(`Kept`). Hence it keeps the return block.

### Names and scopes: `ScopesProof`

For any sets of names, any lists of different parameters and programs of any length and
nesting, provided that no name of the source is one that the compiler gives to its own
symbols (`ScopesAssumption`):

* `ScopesAlwaysMatch`: the current block, table and function are those where the text is,
  the stack holds the blocks around it, and the parents of their tables are the tables
  around them;
* `NamesAlwaysResolve`: a lookup finds the symbol of the declaration that the name means
  in C, whatever hides it or went out of scope before;
* `VariablesStaySame`: what is read where a name is used is the place given to the
  declaration that it means, and irgen never meets a name without a place;
* `NothingIsLost`: when irgen is done it has read every operand and call of the text.

The first two need `Resolved`, that some `tab` and `dep` satisfy

    Held(tab, dep) == Placed(tab, dep) /\ Named(tab) /\ Symbols

where `tab` names the table of every open scope and `dep` how many blocks are on the stack
up to it.

* `Placed`: the scopes form a ladder. Each table's parent is the table of the scope around
  it, each block is at its depth of the stack, and the driver stands at the innermost.
  `ScopesMatch` alone is not inductive: closing a block goes back to what is below it, so
  what is below must be said of every open scope.
* `Named`: each table has the names that C declares in its scope, except the one whose
  initial value is being read, and each leads to the entry of its declaration.
* `Symbols`: entries of different declarations are different, a function's parameters have
  the entries behind its own, and the item being reduced fits the place it is in.

That `Find` climbs the ladder to the innermost scope with the name is a statement about
a recursive function; it is proved for the ladder by induction on its rungs with `Induction`.

The other two relate two passes over different things, the text while it is parsed and the
tree afterwards. A *position* is a number of names read and the last declaration met. For
each kind of node, statement and block a predicate says that visiting it leads from one
position to another; a list leads there along a path. Blocks refer to each other by number,
and to speak of what is inside one at any depth would take induction over the tree.
Instead the invariant holds a set `spans` of closed blocks, each with the two positions that
its own statements lead between, where an inner block is a step because it has a span too.

* `Parsing`: what the open contexts hold, from the outermost to the innermost, followed by
  the item being reduced, leads from the beginning of the text to where it is written now.
  When a block is closed its content becomes a span, and a step of the block around it.
* `Visiting`: the work irgen has left leads from what it has read and met so far to the end
  of the text. `home` has exactly the declarations met, and every entry of one of them
  holds the place in `home`. A task is replaced by its parts, which is one step of a path
  replaced by a path.
* `EndOfTextTold`: when the text is complete only the outermost context is open, and what
  it holds is the work irgen begins with.

`Told` is one or the other, by phase. A node may be read only at a position after its
declaration; so when irgen reads it the place is there (`VariablesStaySame`), and with no
work left the position reached is the end of the text (`NothingIsLost`).

### Only model-checked

* `SameBehaviour` of `ControlFlow`, and the properties of `ExpressionCode`, `Arrays` and
  `Ssa`. `SameBehaviour`, the values of expressions and the places of array
  elements depend on trees of any depth, and induction over data is out of the prover's
  reach.
* All liveness (`Terminates`, `NeitherStalls`, the `<>closed` of `Allocation!Spec`), which
  is out of its reach too.

## 5. What is not modelled, and why

* The automata of the scanner and the tables of the parser are generated by flex and
  bison; printers and option handling are formatted output.
* What `irgen` does with the remains of a failed parse (`main.cpp:29`): it depends on the
  generated parser.
* The control-flow analysis of the backend, which computes block weights and returns at
  once (`cfa.cpp:38`): `RegAlloc` takes the weights as arbitrary.
* Dead-code and unused-store elimination: compiled, but `main` never runs them. `Ssa`
  models the other passes that are never run, since they are finished algorithms.
* Shifts in instruction selection: `irgen` never makes one.
* In `Scopes`, named constants and the functions of the library.
* The limits of the float format (rounding, infinities, −0.0).
* The stack pointer lowered for a large argument area while an operand is read
  from its slot (`codegen.cpp:882`): the composition of `StackFrame` and `SpillCode`.
* In `Ssa`, functions with blocks that cannot be reached, on which the analysis may not
  end (section 6), and lists of uses, which are taken as exact.

## 6. What the violated runs show

* `greedy_pressure`. `try_allocate` (regalloc.cpp:341) erases the first range of
  an evicted value from `occupied_range_map` and stops; what is left of it displaces
  equal ranges of the new owner, which `AllocRange::operator<` cannot tell apart,
  and a later conflict evicts the value that is gone instead of the one that is
  there. Two live values then share a register.
* `liveness_dead_loop`. A loop after a `return` keeps its own tail as predecessor,
  so `remove_unused_block` keeps it, but numbering follows successors from the
  entry and never gets there. Reading its number inserts 0, its instructions are
  never found, and reach the assembly with virtual registers.

More faults were met while modelling; they have no run of their own, and the runs
above leave the programs out in which they bite.

* `createUnary` (ast.cpp:484) gives the node of `!f` the type of `f`, read before `f` is
  compared with zero. `if (!f)` compares the Boolean with 0.0 in a float comparison, and
  `f = !f` stores an integer 1 in a float.
* Every operator, call and conversion enters a symbol `temp0`, `temp1`, ... into the
  current table (driver.cpp:136), and `insert` overwrites. In
  `int f() { int temp0; temp0 + 1; }` the sum's symbol replaces the variable's; irgen
  gives the place of the declaration to the sum's symbol, and throws at the variable.
* `has_use` (basic_block.cpp:134) takes the block's id out of a list of instruction
  ids. At the start of a program the counters are close: the return block of
  `void f() {;}` has id 1 like the jump to it, counts as unused and is removed. With
  both counters at 0 `control_flow` violates `TargetsListed`.
* The body of `void f() {}` is a Blank for the parser (parser.y:325), the function
  stays without a body, and irgen takes it for a declaration: it gets no code
  (`EmptyBody` in `Scopes`).
* `setValueType` (ast.cpp:123) converts a scalar of another type only where the list is
  one-dimensional; in `int a[2][2] = {1.0, ...}` it is dropped. `arrays` with `Anywhere`
  finds it.
* A list that opens in the middle of an element is counted by `countElements`
  (ast.cpp:37-56) as if it stood at the element's beginning, which is right only if it has
  exactly one element: `int a[3][2][2] = {1,2,{},{5},6}` puts 6 in `a[1][1][0]`. The
  example `tests/examples/hidden_functional/07_arr_init_nd.sy:8` shows that such lists
  are part of the language.
* The frontiers of the IR (control_flow_analysis.cpp:40): a predecessor that cannot be
  reached has no number, reading the map gives it 0, the entry's, and the walk up the
  dominator tree does not end.
* `mem2reg.cpp:118` asks whether the map `def_stack` is empty where it means the stack of
  the variable. `replace_operand` (ir/instruction.cpp:129) calls `remove_use` on the new
  operand too, and leaves the pointers of loads and stores (221, 229) as they are.

## 7. Plan

Done: the modules above, in the order `RegAlloc`, `Liveness`, `GreedyAllocation`,
`SpillCode`, `StackFrame`, `ControlFlow`, `Expressions`, `ExpressionCode`, `Scopes`,
`Arrays` and `Ssa`; the proofs about `RegAlloc`, `StackFrame`, `Liveness`,
`GreedyAllocation`, `SpillCode`, `ControlFlow` and `Scopes`.

Next, in this order:

1. Theorems: `StaysInside` of `Arrays` for every list; `EdgesAgree` of `Ssa` for every
   graph.
2. The composition of `StackFrame` and `SpillCode` for calls with large argument areas
   (`codegen.cpp:882`).
3. The control-flow analysis of the backend, dead-code and unused-store elimination.
4. Functions with blocks that cannot be reached, from `ControlFlow` through `Ssa`.
