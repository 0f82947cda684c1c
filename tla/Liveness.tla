------------------------------ MODULE Liveness ------------------------------
(***************************************************************************)
(* LivenessAnalysis::analyze (src/src/backend/passes/liveness.cpp) on one  *)
(* function: instructions are numbered block by block in depth-first       *)
(* order, In and Out sets are computed by breadth-first sweeps that walk   *)
(* backwards from the last block of the function until nothing changes,    *)
(* and the live ranges of every operand are read off the Out sets.         *)
(*                                                                         *)
(* A function is a record: its blocks in list order (the entry is first,   *)
(* the block with the return last), the successor and predecessor lists,   *)
(* and for each block the operands each instruction defines and uses.      *)
(***************************************************************************)
EXTENDS Integers, FiniteSets, SequencesExt, LiveRange

CONSTANTS
  Operand,        \* the registers and virtual registers of the function
  Programs        \* the functions that may be analyzed

(* A move copies its only use to its only definition. *)
Instruction == [def : Seq(Operand), use : Seq(Operand), move : BOOLEAN]

Program ==
  [blocks : Seq(Block),
   succ : [Block -> Seq(Block)],
   pred : [Block -> Seq(Block)],
   code : [Block -> Seq(Instruction)]]

(* The blocks on paths from b that follow the edges of next, where every   *)
(* block but the last one belongs to S.                                    *)
Grown(next, S, near) == near \cup UNION {ToSet(next[c]) : c \in near \cap S}
Onward(next, S, b) ==
  LET reach[n \in 0 .. Cardinality(Block)] ==
        IF n = 0 THEN {b} ELSE Grown(next, S, reach[n - 1])
  IN reach[Cardinality(Block)]

(* Builder::add_instruction_back keeps both edge lists in step, and no     *)
(* block is empty: it ends in a jump, a branch or a return.                *)
WellFormed(p) ==
  /\ p \in Program
  /\ p.blocks # <<>> /\ ToSet(p.blocks) = Block /\ IsInjective(p.blocks)
  /\ \A b, c \in Block : c \in ToSet(p.succ[b]) <=> b \in ToSet(p.pred[c])
  /\ \A b \in Block : p.code[b] # <<>>

(* Every block leads to the return: the condition of a while is a branch   *)
(* out of the loop whatever it computes, a constant included, and every    *)
(* other jump is to a condition, to a block further on or to the return.   *)
Returns(p) == Onward(p.pred, Block, Last(p.blocks)) = Block

ASSUME ProgramsAssumption == \A p \in Programs : WellFormed(p) /\ Returns(p)

Unnumbered == -1

VARIABLES
  prog,     \* the function
  visited,  \* visited_map
  base,     \* the number of the first instruction of each block
  nextNum,  \* now_instruction_num
  todo,     \* the calls depth_first_numbering has still to make
  inMap,    \* in_map; an absent entry reads as the empty set
  outMap,   \* out_map
  changed,  \* whether the last sweep changed a set
  sweep,    \* block_queue
  live,     \* live_range_map
  stage     \* "number", "flow" or "done"

vars == <<prog, visited, base, nextNum, todo, inMap, outMap, changed, sweep,
          live, stage>>

-----------------------------------------------------------------------------
(* Definitions and uses. *)

Code(b) == prog.code[b]
DefAt(b, i) == ToSet(Code(b)[i].def)
UseAt(b, i) == ToSet(Code(b)[i].use)

(* use_map and def_map are filled in when a block is numbered. *)
UseAnywhere(b) ==
  IF base[b] = Unnumbered THEN {}
  ELSE {x \in Operand : \E i \in DOMAIN Code(b) : x \in UseAt(b, i)}
UseOf(b) ==
  IF base[b] = Unnumbered THEN {}
  ELSE {x \in Operand : \E i \in DOMAIN Code(b) :
          x \in UseAt(b, i) /\ \A j \in 1 .. i - 1 : x \notin DefAt(b, j)}

DefOf(b) ==
  IF base[b] = Unnumbered THEN {}
  ELSE {x \in Operand : \E i \in DOMAIN Code(b) : x \in DefAt(b, i)}

(* instr_id2num; looking up an instruction without a number yields 0. *)
Number(b, i) == IF base[b] = Unnumbered THEN 0 ELSE base[b] + i - 1

-----------------------------------------------------------------------------
(* The live ranges of x in block b.  The code scans the block backwards;   *)
(* what it builds is one range for every definition of x, up to the last   *)
(* use before the next definition (or the end of the block if x is live    *)
(* out), and one from the start of the block for uses before the first.    *)

DefsIn(b, x) == {i \in DOMAIN Code(b) : x \in DefAt(b, i)}

(* The definition at d (0: the value on entry to b) is the last of x in b, *)
(* and its value leaves b.                                                 *)
LiveFromStart(b, d, x) == x \in inMap[b] /\ \A k \in DefsIn(b, x) : k <= d
LiveToEnd(b, d, x) == x \in outMap[b] /\ \A k \in DefsIn(b, x) : k <= d

StartAfter(b, d) == Number(b, d + 1)
Start(b, d) == Number(b, IF d = 0 THEN 1 ELSE d)

(* The uses of the value of position d of b (0: the value on entry), and   *)
(* how often they mention x.                                               *)
UsesFrom(b, d, x) ==
  {i \in DOMAIN Code(b) :
     /\ x \in UseAt(b, i) /\ d < i
     /\ ~\E k \in DefsIn(b, x) : d < k /\ k < i}
Occurrences(b, i, x) == {k \in DOMAIN Code(b)[i].use : Code(b)[i].use[k] = x}
ReadsFrom(b, d, x) ==
  Cardinality(UNION {{i} \X Occurrences(b, i, x) : i \in UsesFrom(b, d, x)})

Stop(b, d, x) ==
  IF LiveToEnd(b, d, x) THEN Len(Code(b))
  ELSE IF UsesFrom(b, d, x) # {} THEN Max(UsesFrom(b, d, x)) ELSE d

(* The range of the value of position d of b. *)
RangesFrom(b, d, x) ==
  IF d = 0 /\ UsesFrom(b, d, x) = {} /\ ~LiveToEnd(b, d, x) THEN {}
  ELSE {[begin |-> Start(b, d),
         end |-> Number(b, Stop(b, d, x)),
         instruction_cnt |-> ReadsFrom(b, d, x) + (IF d = 0 THEN 0 ELSE 1),
         block_id |-> b]}

SortedByBegin(S) ==
  CHOOSE s \in [1 .. Cardinality(S) -> S] :
    ToSet(s) = S /\ \A j, k \in DOMAIN s : j < k => s[j].begin <= s[k].begin

(* All ranges of x, sorted by begin. *)
RangeSet(x) ==
  UNION {UNION {RangesFrom(b, d, x) : d \in {0} \cup DefsIn(b, x)} : b \in Block}
RangesOf(x) == SortedByBegin(RangeSet(x))

-----------------------------------------------------------------------------
Init ==
  /\ prog \in Programs
  /\ visited = {}
  /\ base = [b \in Block |-> Unnumbered]
  /\ nextNum = 0
  /\ todo = <<Head(prog.blocks)>>
  /\ inMap = [b \in Block |-> {}]
  /\ outMap = [b \in Block |-> {}]
  /\ changed = TRUE
  /\ sweep = <<>>
  /\ live = [x \in Operand |-> <<>>]
  /\ stage = "number"

(* create_instruction_num, once for every instruction of b. *)
NumberedUpTo(b) == nextNum + Len(Code(b))

(* depth_first_numbering: a block met for the first time is numbered, then *)
(* its successors are visited before whatever was still to be done.        *)
NumberBlock ==
  LET b == Head(todo)
  IN /\ stage = "number" /\ todo # <<>>
     /\ IF b \in visited
        THEN /\ todo' = Tail(todo)
             /\ UNCHANGED <<visited, base, nextNum>>
        ELSE /\ visited' = visited \cup {b}
             /\ base' = [base EXCEPT ![b] = nextNum]
             /\ nextNum' = NumberedUpTo(b)
             /\ todo' = prog.succ[b] \o Tail(todo)
     /\ UNCHANGED <<prog, inMap, outMap, changed, sweep, live, stage>>

(* One more sweep, from the block before the tail marker. *)
StartSweepAfresh ==
  /\ \/ stage = "number" /\ todo = <<>>
     \/ stage = "flow" /\ sweep = <<>> /\ changed
  /\ stage' = "flow"
  /\ changed' = FALSE
  /\ visited' = {}
  /\ sweep' = <<Last(prog.blocks)>>
  /\ inMap' = [b \in Block |-> {}]
  /\ outMap' = [b \in Block |-> {}]
  /\ UNCHANGED <<prog, base, nextNum, todo, live>>

StartSweep ==
  /\ \/ stage = "number" /\ todo = <<>>
     \/ stage = "flow" /\ sweep = <<>> /\ changed
  /\ stage' = "flow"
  /\ changed' = FALSE
  /\ visited' = {}
  /\ sweep' = <<Last(prog.blocks)>>
  /\ UNCHANGED <<prog, base, nextNum, todo, inMap, outMap, live>>

(* Out[B] is the union of In[S], In[B] is Use[B] and what Out[B] does not  *)
(* get from B; both are compared with the previous sweep.                  *)
SweepBlock ==
  LET b == Head(sweep)
      out == UNION {inMap[s] : s \in ToSet(prog.succ[b])}
      in == UseOf(b) \cup (out \ DefOf(b))
  IN /\ stage = "flow" /\ sweep # <<>>
     /\ IF b \in visited
        THEN /\ sweep' = Tail(sweep)
             /\ UNCHANGED <<visited, inMap, outMap, changed>>
        ELSE /\ visited' = visited \cup {b}
             /\ sweep' = Tail(sweep) \o prog.pred[b]
             /\ inMap' = [inMap EXCEPT ![b] = in]
             /\ outMap' = [outMap EXCEPT ![b] = out]
             /\ changed' = (changed \/ in # inMap[b] \/ out # outMap[b])
     /\ UNCHANGED <<prog, base, nextNum, todo, live, stage>>

ComputeRanges ==
  /\ stage = "flow" /\ sweep = <<>> /\ ~changed
  /\ live' = [x \in Operand |-> RangesOf(x)]
  /\ stage' = "done"
  /\ UNCHANGED <<prog, visited, base, nextNum, todo, inMap, outMap, changed, sweep>>

Finished == stage = "done" /\ UNCHANGED vars

Next == NumberBlock \/ StartSweep \/ SweepBlock \/ ComputeRanges \/ Finished

(* analyze is a sequence of loops of the compiler's only thread. *)
Spec == Init /\ [][Next]_vars /\ WF_vars(Next)

-----------------------------------------------------------------------------
(* What liveness means: x is live where some path reads it before any      *)
(* instruction writes it.                                                  *)

Exposed(b) ==
  {x \in Operand : \E i \in DOMAIN Code(b) :
     x \in UseAt(b, i) /\ \A j \in 1 .. i - 1 : x \notin DefAt(b, j)}

(* x is live into b if a path that does not write x leads to a block that  *)
(* reads it first.                                                         *)
LiveIn(b) ==
  {x \in Operand :
     \E c \in Onward(prog.succ, {d \in Block : DefsIn(d, x) = {}}, b) : x \in Exposed(c)}

LiveOut(b) == UNION {LiveIn(s) : s \in ToSet(prog.succ[b])}

(* The operands whose value is still needed when instruction i of b has    *)
(* been executed.                                                          *)
LiveAfter(b, i) ==
  {x \in Operand :
     \/ \E j \in i + 1 .. Len(Code(b)) :
          x \in UseAt(b, j) /\ \A k \in i + 1 .. j - 1 : x \notin DefAt(b, k)
     \/ x \in LiveOut(b) /\ \A k \in i + 1 .. Len(Code(b)) : x \notin DefAt(b, k)}

Reachable == Onward(prog.succ, Block, Head(prog.blocks))

-----------------------------------------------------------------------------
(* Properties. *)

(* Every map keeps to its key and value types. *)
TypeOK ==
  /\ prog \in Program
  /\ visited \subseteq Block
  /\ base \in [Block -> Nat \cup {Unnumbered}]
  /\ nextNum \in Nat
  /\ todo \in Seq(Block)
  /\ inMap \in [Block -> SUBSET Operand]
  /\ outMap \in [Block -> SUBSET Operand]
  /\ changed \in BOOLEAN
  /\ sweep \in Seq(Block)
  /\ live \in [Operand -> RangeList]
  /\ stage \in {"number", "flow", "done"}

(* The sweeps approximate liveness from below and, when they stop, have    *)
(* reached it in every block: "Out[B] = \cup_{S is asuccessor of B} In[S]" *)
(* (liveness.cpp:112) holds of the true sets, not only of the computed.    *)
FlowExact ==
  \A b \in Reachable :
    /\ inMap[b] \subseteq LiveIn(b)
    /\ outMap[b] \subseteq LiveOut(b)
    /\ stage = "done" => inMap[b] = LiveIn(b) /\ outMap[b] = LiveOut(b)

(* No two operands whose values are needed at the same time have range     *)
(* lists that the allocator would find compatible: neither two that are    *)
(* live after an instruction, nor one that is written there (even if never *)
(* read) while the other is live.                                          *)
InterferenceSound ==
  stage = "done" =>
    \A b \in Reachable : \A i \in DOMAIN Code(b) :
      \A x \in LiveAfter(b, i), y \in LiveAfter(b, i) \cup DefAt(b, i) :
        x # y => ListsConflict(live[x], live[y])

(* Every instruction that mentions an operand lies within one of its       *)
(* ranges, so that rewriting the ranges rewrites the instruction.          *)
MentionsCovered ==
  stage = "done" =>
    \A b \in Reachable : \A i \in DOMAIN Code(b) :
      \A x \in DefAt(b, i) \cup UseAt(b, i) :
        \E k \in DOMAIN live[x] :
          Number(b, i) \in live[x][k].begin .. live[x][k].end

(* "find the instruction that all def use the operand"                     *)
(* (regalloc.cpp:388): every instruction of the function that mentions an  *)
(* operand is reached through the numbers of the operand's ranges, blocks  *)
(* that no path from the entry leads to included.                          *)
EveryMentionFound ==
  stage = "done" =>
    \A b \in Block : \A i \in DOMAIN Code(b) :
      \A x \in DefAt(b, i) \cup UseAt(b, i) :
        /\ base[b] # Unnumbered
        /\ \E k \in DOMAIN live[x] : Number(b, i) \in live[x][k].begin .. live[x][k].end

(* The analysis comes to an end on every function. *)
Terminates == <>(stage = "done")
=============================================================================
