-------------------------- MODULE GreedyAllocation --------------------------
(***************************************************************************)
(* RegAlloc::greedy_allocation on a whole function: liveness analysis      *)
(* first, then the allocation loop on the ranges it found.  The two        *)
(* components share live_range_map; gen_alloc_hint reads the moves.        *)
(***************************************************************************)
EXTENDS Integers, SequencesExt

CONSTANTS
  Vreg, Reg, OtherReg, RegIndex, FloatVreg, FloatReg, ClobberedReg,
  CalleeSavedReg, Block, BlockWeight, NoReg, NoVreg, InMemory,
  Functions         \* the programs that may be allocated, see Liveness

VARIABLES
  prog, visited, base, nextNum, todo, inMap, outMap, changed, sweep, stage,
  live,
  coalesce, hint, status, queue, alloc, occupied, occRanges, slot, frame,
  saved, phase

analysisVars == <<prog, visited, base, nextNum, todo, inMap, outMap, changed,
                  sweep, stage>>
allocationVars == <<coalesce, hint, status, queue, alloc, occupied, occRanges,
                    slot, frame, saved, phase>>
vars == <<analysisVars, live, allocationVars>>

L == INSTANCE Liveness WITH Operand <- Vreg \cup Reg \cup OtherReg, Programs <- Functions
A == INSTANCE RegAlloc WITH Inputs <- {}

(* Code generation writes argument and temporary registers only.           *)
ASSUME FunctionsAssumption ==
  \A p \in Functions :
    /\ L!WellFormed(p) /\ L!Returns(p)
    /\ \A b \in Block : \A i \in DOMAIN p.code[b] :
         ToSet(p.code[b][i].def) \cap Reg \subseteq ClobberedReg

ASSUME RegistersAssumption == A!ConstantsAssumption /\ Vreg \cap Reg = {}

(* The instructions of a program that move one register to another, each   *)
(* by its block's position in the list and its own in the block.           *)
Moves(p) ==
  {pl \in UNION {{k} \X (DOMAIN p.code[p.blocks[k]]) : k \in DOMAIN p.blocks} :
     p.code[p.blocks[pl[1]]][pl[2]].move}
Destination(p, pl) == p.code[p.blocks[pl[1]]][pl[2]].def[1]
Source(p, pl) == p.code[p.blocks[pl[1]]][pl[2]].use[1]

Before(pl, ql) == pl[1] < ql[1] \/ (pl[1] = ql[1] /\ pl[2] <= ql[2])

(* What v is moved to or from, if the other side is in S; later moves      *)
(* overwrite what earlier ones entered.                                    *)
OtherSide(p, v, pl) == IF Destination(p, pl) = v THEN Source(p, pl) ELSE Destination(p, pl)
Pairings(p, v, S) ==
  {pl \in Moves(p) : v \in {Destination(p, pl), Source(p, pl)} /\ OtherSide(p, v, pl) \in S}
MovePartner(p, v, S, none) ==
  LET pairings == Pairings(p, v, S)
  IN IF pairings = {} THEN none
     ELSE OtherSide(p, v, CHOOSE pl \in pairings : \A ql \in pairings : Before(ql, pl))

(* gen_alloc_hint: a move between virtual registers pairs them up, a move  *)
(* from or to a register makes that register a hint.                       *)
CoalesceMap(p) == [v \in Vreg |-> MovePartner(p, v, Vreg, NoVreg)]
HintMap(p) == [v \in Vreg |-> MovePartner(p, v, Reg \cup OtherReg, NoReg)]

Init ==
  /\ L!Init
  /\ A!InitMaps
  /\ coalesce = CoalesceMap(prog)
  /\ hint = HintMap(prog)
  /\ frame = 0

Analyze ==
  /\ L!Next
  /\ UNCHANGED allocationVars

Allocate ==
  /\ stage = "done"
  /\ A!Next
  /\ UNCHANGED analysisVars

Next == Analyze \/ Allocate

Spec == Init /\ [][Next]_vars /\ WF_vars(Next)

-----------------------------------------------------------------------------
(* Two values that the program needs at the same time, by the meaning of   *)
(* liveness and not by the ranges, are never in one register when the pass *)
(* is done.                                                                *)
LiveValuesApart ==
  phase = "done" =>
    \A b \in L!Reachable : \A i \in DOMAIN L!Code(b) :
      \A x \in L!LiveAfter(b, i) \cap Vreg,
         y \in (L!LiveAfter(b, i) \cup L!DefAt(b, i)) \cap Vreg :
        x # y /\ alloc[x] = alloc[y] => alloc[x] = NoReg

(* No value that is needed after an instruction sits in a register which   *)
(* that instruction (a call, an argument move) overwrites.                 *)
NoValueClobbered ==
  phase = "done" =>
    \A b \in L!Reachable : \A i \in DOMAIN L!Code(b) :
      \A x \in L!LiveAfter(b, i) \cap Vreg :
        alloc[x] \notin L!DefAt(b, i) \cap Reg

Terminates == <>(phase = "done")
=============================================================================
