------------------------------ MODULE RegAlloc ------------------------------
(***************************************************************************)
(* The greedy register allocator of the backend                            *)
(* (src/src/backend/passes/regalloc.cpp), one run of greedy_allocation on  *)
(* one function.                                                           *)
(*                                                                         *)
(* Virtual registers wait in a priority queue.  The one on top either gets *)
(* a register that is free over its live ranges, or evicts cheaper virtual *)
(* registers from one (they go back to the queue), or is marked Split,     *)
(* then Spill, and at last gets a slot of the stack frame.                 *)
(*                                                                         *)
(* What liveness analysis hands over (live ranges, coalescing partners,    *)
(* register hints, the frame size so far) is chosen in Init from Inputs.   *)
(* std::priority_queue and the iteration over the unordered conflict_map   *)
(* leave ties open: the model takes every choice.                          *)
(***************************************************************************)
EXTENDS Integers, Sequences, FiniteSets, FiniteSetsExt, LiveRange

CONSTANTS
  Vreg,           \* virtual registers; alloc numbers are one-to-one with them
  Reg,            \* REG_ALLOC, the allocatable registers
  OtherReg,       \* registers outside REG_ALLOC that a move may mention (SP, S0, RA)
  RegIndex,       \* the position of a register in REG_ALLOC
  FloatVreg,      \* the virtual registers of the float class
  FloatReg,       \* the allocatable registers of the float class
  ClobberedReg,   \* the members of REG_ALLOC in REG_ARGS or REG_TEMP
  CalleeSavedReg, \* the members of REG_ALLOC in REG_CALLEE_SAVED
  BlockWeight,    \* block_weight_map
  NoReg,          \* no register: an absent alloc_map or hint_map entry
  NoVreg,         \* an absent coalesce_map entry
  InMemory,       \* what Home says of a spilled virtual register
  Inputs          \* the functions that may be allocated, see InputType

NoSlot == -1

(* AllocStatus; Memory (1) and Done (0) are never given to a register. *)
New == 5
Assigned == 4
Split == 3
Spilling == 2
Status == {New, Assigned, Split, Spilling}

InputType ==
  [live : [Vreg \cup Reg \cup OtherReg -> RangeList],
   coalesce : [Vreg -> Vreg \cup {NoVreg}],
   hint : [Vreg -> Reg \cup OtherReg \cup {NoReg}],
   frame : Nat]

ASSUME ConstantsAssumption ==
  /\ IsFiniteSet(Vreg) /\ IsFiniteSet(Reg)
  /\ NoReg \notin Reg \cup OtherReg
  /\ NoVreg \notin Vreg
  /\ InMemory \notin Reg \cup {NoReg}
  /\ RegIndex \in [Reg -> Nat]
  /\ \A r, s \in Reg : RegIndex[r] = RegIndex[s] => r = s
  /\ BlockWeight \in [Block -> Nat \ {0}]

(* gen_alloc_hint enters a coalescing pair under both of its members. *)
ASSUME InputsAssumption ==
  /\ Inputs \subseteq InputType
  /\ \A in \in Inputs : \A v \in Vreg :
       /\ WellFormedList(in.live[v])
       /\ in.coalesce[v] # NoVreg => in.coalesce[in.coalesce[v]] # NoVreg

VARIABLES
  live,       \* liveness.live_range_map
  coalesce,   \* coalesce_map
  hint,       \* hint_map
  status,     \* alloc_status_map
  queue,      \* alloc_priority_queue: how often <<v, status when pushed>> waits
  alloc,      \* alloc_map
  occupied,   \* occupied_map
  occRanges,  \* occupied_range_map
  slot,       \* operand_spill_map
  frame,      \* now_function->stack_frame_size
  saved,      \* now_function->saved_register_set
  phase       \* "allocate" while the main loop runs, then "done"

input == <<live, coalesce>>
places == <<alloc, occupied, occRanges>>
memory == <<slot, frame>>
vars == <<live, coalesce, hint, status, queue, alloc, occupied, occRanges,
          slot, frame, saved, phase>>

Entry == Vreg \X Status

-----------------------------------------------------------------------------
(* Costs and priorities. *)

SameClass(v, r) == v \in FloatVreg <=> r \in FloatReg

InstructionCount(v) ==
  MapThenSumSet(LAMBDA i : live[v][i].instruction_cnt, DOMAIN live[v])

Hinted(v) == coalesce[v] # NoVreg \/ hint[v] # NoReg

(* get_spill_weight, doubled so that the factors 1.5 and 2 stay integers. *)
SpillWeight(v) ==
  LET sum == MapThenSumSet(LAMBDA i :
               live[v][i].instruction_cnt * BlockWeight[live[v][i].block_id],
               DOMAIN live[v])
  IN sum * (IF coalesce[v] # NoVreg THEN 3 ELSE IF hint[v] # NoReg THEN 4 ELSE 2)

TotalWeight(S) == MapThenSumSet(SpillWeight, S)

OutweighsAlways(v, S) == TRUE
Outweighs(v, S) == SpillWeight(v) > TotalWeight(S)

(* PrioritizedAlloc::operator< on two queue entries. *)
LowerPriority(e, f) ==
  LET u == e[1]
      v == f[1]
  IN \/ e[2] < f[2]
     \/ /\ e[2] = f[2]
        /\ \/ Len(live[u]) < Len(live[v])
           \/ /\ Len(live[u]) = Len(live[v])
              /\ \/ InstructionCount(u) < InstructionCount(v)
                 \/ /\ InstructionCount(u) = InstructionCount(v)
                    /\ ~Hinted(u) /\ Hinted(v)

Waiting == {e \in Entry : queue[e] > 0}

OnTop(e) == e \in Waiting /\ \A f \in Waiting : ~LowerPriority(e, f)

LeftOnTop(e) == queue
Popped(e) == [queue EXCEPT ![e] = @ - 1]

(* The members of S are pushed again, with the status they have. *)
Requeued(q, S) ==
  [f \in Entry |-> IF f[1] \in S /\ f[2] = status[f[1]] THEN q[f] + 1 ELSE q[f]]

-----------------------------------------------------------------------------
(* occupied_range_map[r] is a std::set of ranges ordered by (begin, end)   *)
(* alone: the owner takes no part in the comparison.                       *)

KeyLess(a, b) == a.begin < b.begin \/ (a.begin = b.begin /\ a.end < b.end)

SameKey(a, b) == a.begin = b.begin /\ a.end = b.end

OccRange(v, i) ==
  [begin |-> live[v][i].begin, end |-> live[v][i].end, alloc_num |-> v]

RangesOf(v) == {OccRange(v, i) : i \in DOMAIN live[v]}

(* Inserting into the set keeps an element that compares equal. *)
Insert(S, v) == S \cup {o \in RangesOf(v) : \A p \in S : ~SameKey(o, p)}

(* Eviction erases the first range of each evicted owner and stops there. *)
FirstOf(S, v) ==
  {o \in S : o.alloc_num = v /\ \A p \in S : p.alloc_num = v => ~KeyLess(p, o)}

EraseNothing(S, C) == S
Erase(S, C) == S \ UNION {FirstOf(S, c) : c \in C}

(* Only the ranges from lower_bound on. *)
ScannedForward(r, v) == {o \in occRanges[r] : ~KeyLess(o, live[v][1])}

(* From the last range before v's first range (lower_bound, then one step  *)
(* back) to the end of the set.                                            *)
Scanned(r, v) ==
  LET first == live[v][1]
      before == {o \in occRanges[r] : KeyLess(o, first)}
  IN {o \in occRanges[r] :
        o \in before => \A p \in before : ~KeyLess(o, p)}

(* conflict_map[r] *)
AllOccupants(v, r) == occupied[r]
Conflicts(v, r) ==
  {o.alloc_num : o \in {p \in Scanned(r, v) :
                          \E i \in DOMAIN live[v] : Conflict(live[v][i], p)}}

(* r is in conflict_hard_set: the code itself uses r within v's ranges. *)
HardConflict(v, r) == r \in ClobberedReg /\ ListsConflict(live[v], live[r])

AnyOfClass(v) == {r \in Reg : SameClass(v, r)}
Candidates(v) == {r \in Reg : SameClass(v, r) /\ ~HardConflict(v, r)}

FreeRegs(v) ==
  {r \in Candidates(v) : occupied[r] = {} \/ Conflicts(v, r) = {}}

(* register_alloc_vector: the hint first, then the order of REG_ALLOC. *)
Preferred(v, S) ==
  IF hint[v] \in S THEN hint[v]
  ELSE CHOOSE r \in S : \A s \in S : RegIndex[r] <= RegIndex[s]

CheapestRegs(v) ==
  {r \in Candidates(v) : \A s \in Candidates(v) :
     TotalWeight(Conflicts(v, r)) <= TotalWeight(Conflicts(v, s))}

-----------------------------------------------------------------------------
(* init: every virtual register is New and waits; no register is occupied. *)
InitMaps ==
  /\ status = [v \in Vreg |-> New]
  /\ queue = [e \in Entry |-> IF e[2] = New THEN 1 ELSE 0]
  /\ alloc = [v \in Vreg |-> NoReg]
  /\ occupied = [r \in Reg |-> {}]
  /\ occRanges = [r \in Reg |-> {}]
  /\ slot = [v \in Vreg |-> NoSlot]
  /\ saved = {}
  /\ phase = "allocate"

Init ==
  /\ \E in \in Inputs :
       /\ live = in.live
       /\ coalesce = in.coalesce
       /\ hint = in.hint
       /\ frame = in.frame
  /\ InitMaps

(* The main loop pops e, for a virtual register whose status is in S. *)
Pop(e, S) ==
  /\ phase = "allocate"
  /\ OnTop(e)
  /\ status[e[1]] \in S

(* try_allocate finds a register without conflicts. *)
Assign(e) ==
  LET v == e[1]
      r == Preferred(v, FreeRegs(v))
  IN /\ Pop(e, {New, Assigned})
     /\ FreeRegs(v) # {}
     /\ queue' = Popped(e)
     /\ occupied' = [occupied EXCEPT ![r] = @ \cup {v}]
     /\ occRanges' = [occRanges EXCEPT ![r] = Insert(@, v)]
     /\ alloc' = [alloc EXCEPT ![v] = r]
     /\ status' = [status EXCEPT ![v] = Assigned]
     /\ hint' = IF coalesce[v] = NoVreg THEN hint
                ELSE [hint EXCEPT ![coalesce[v]] = r]
     /\ UNCHANGED <<input, memory, saved, phase>>

(* try_allocate: every candidate conflicts, and v outweighs the conflicts  *)
(* of the cheapest one.  The status of v is left as it was.                *)
Evict(e, r) ==
  LET v == e[1]
      evicted == Conflicts(v, r)
  IN /\ Pop(e, {New, Assigned})
     /\ FreeRegs(v) = {}
     /\ r \in CheapestRegs(v)
     /\ Outweighs(v, evicted)
     /\ occupied' = [occupied EXCEPT ![r] = (@ \ evicted) \cup {v}]
     /\ occRanges' = [occRanges EXCEPT ![r] = Insert(Erase(@, evicted), v)]
     /\ alloc' = [u \in Vreg |-> IF u = v THEN r
                                 ELSE IF u \in evicted THEN NoReg ELSE alloc[u]]
     /\ queue' = Requeued(Popped(e), evicted)
     /\ UNCHANGED <<input, hint, status, memory, saved, phase>>

(* try_allocate: v is not worth an eviction (or has no candidate at all).  *)
GiveUp(e) ==
  LET v == e[1]
      base == Popped(e)
  IN /\ Pop(e, {New, Assigned})
     /\ FreeRegs(v) = {}
     /\ \A r \in CheapestRegs(v) : ~Outweighs(v, Conflicts(v, r))
     /\ status' = [status EXCEPT ![v] = Split]
     /\ queue' = [base EXCEPT ![<<v, Split>>] = @ + 1]
     /\ UNCHANGED <<input, hint, places, memory, saved, phase>>

(* try_split splits nothing: the whole virtual register goes on to Spill. *)
TrySplit(e) ==
  LET v == e[1]
      base == Popped(e)
  IN /\ Pop(e, {Split})
     /\ status' = [status EXCEPT ![v] = Spilling]
     /\ queue' = [base EXCEPT ![<<v, Spilling>>] = @ + 1]
     /\ UNCHANGED <<input, hint, places, memory, saved, phase>>

(* spill: a slot of 8 bytes at the end of the frame, once per operand; the *)
(* instructions that mention the operand go through that slot from now on. *)
SmallSlotSize == 4
SlotSize == 8

SpillAndRetry(e) ==
  LET v == e[1]
  IN /\ Pop(e, {Spilling})
     /\ queue' = [Popped(e) EXCEPT ![<<v, Assigned>>] = @ + 1]
     /\ status' = [status EXCEPT ![v] = Assigned]
     /\ IF slot[v] = NoSlot
        THEN /\ slot' = [slot EXCEPT ![v] = frame]
             /\ frame' = frame + SlotSize
        ELSE UNCHANGED memory
     /\ UNCHANGED <<input, hint, places, saved, phase>>

Spill(e) ==
  LET v == e[1]
  IN /\ Pop(e, {Spilling})
     /\ queue' = Popped(e)
     /\ IF slot[v] = NoSlot
        THEN /\ slot' = [slot EXCEPT ![v] = frame]
             /\ frame' = frame + SlotSize
        ELSE UNCHANGED memory
     /\ UNCHANGED <<input, hint, status, places, saved, phase>>

(* The queue is empty: rewrite_operands replaces the virtual registers of  *)
(* alloc_map and notes the callee-saved registers the prologue must save.  *)
RewriteOperands ==
  /\ phase = "allocate"
  /\ Waiting = {}
  /\ saved' = {alloc[v] : v \in Vreg} \cap CalleeSavedReg
  /\ phase' = "done"
  /\ UNCHANGED <<input, hint, status, queue, places, memory>>

Terminated == phase = "done" /\ UNCHANGED vars

Next ==
  \/ \E e \in Entry : Assign(e)
  \/ \E e \in Entry, r \in Reg : Evict(e, r)
  \/ \E e \in Entry : GiveUp(e)
  \/ \E e \in Entry : TrySplit(e)
  \/ \E e \in Entry : Spill(e)
  \/ RewriteOperands
  \/ Terminated

(* greedy_allocation is a loop that nothing else can delay. *)
Spec == Init /\ [][Next]_vars /\ WF_vars(Next)

-----------------------------------------------------------------------------
(* Properties. *)

OccRangeType == [begin : Nat, end : Nat, alloc_num : Vreg]

(* Every map of the allocator keeps to its key and value types. *)
TypeOK ==
  /\ live \in [Vreg \cup Reg \cup OtherReg -> RangeList]
  /\ coalesce \in [Vreg -> Vreg \cup {NoVreg}]
  /\ hint \in [Vreg -> Reg \cup OtherReg \cup {NoReg}]
  /\ status \in [Vreg -> Status]
  /\ queue \in [Entry -> Nat]
  /\ alloc \in [Vreg -> Reg \cup {NoReg}]
  /\ occupied \in [Reg -> SUBSET Vreg]
  /\ occRanges \in [Reg -> SUBSET OccRangeType]
  /\ slot \in [Vreg -> Nat \cup {NoSlot}]
  /\ frame \in Nat
  /\ saved \subseteq CalleeSavedReg
  /\ phase \in {"allocate", "done"}

(* Two virtual registers that are live at the same time never have the     *)
(* same register: "allocate when there is no conflict" of try_allocate     *)
(* must still hold after evictions.                                        *)
NoSharedRegister ==
  \A u, v \in Vreg :
    u # v /\ ListsConflict(live[u], live[v]) /\ alloc[u] = alloc[v] => alloc[u] = NoReg

(* The 8-byte slots that spill appends to the frame lie within the frame   *)
(* and overlap neither each other nor what was below them (alloca memory). *)
SlotsApart ==
  \A u, v \in Vreg :
    /\ slot[u] # NoSlot => slot[u] + 8 <= frame
    /\ u # v /\ slot[u] # NoSlot /\ slot[v] # NoSlot =>
         slot[u] + 8 <= slot[v] \/ slot[v] + 8 <= slot[u]

(* A virtual register only ever holds a register of its class that no call *)
(* or argument move of the function writes or reads within its ranges.     *)
FixedRegistersRespected ==
  \A v \in Vreg : alloc[v] # NoReg =>
    SameClass(v, alloc[v]) /\ ~HardConflict(v, alloc[v])

(* occupied_map and occupied_range_map say of each register exactly what   *)
(* alloc_map says of the virtual registers, across all evictions.          *)
MapsAgree ==
  \A r \in Reg :
    /\ occupied[r] = {v \in Vreg : alloc[v] = r}
    /\ occRanges[r] = UNION {RangesOf(v) : v \in occupied[r]}

(* After the pass every virtual register lives in exactly one place: a     *)
(* register or a stack slot; none is forgotten on the way through the      *)
(* queue, none has both.                                                   *)
AllPlaced ==
  phase = "done" =>
    \A v \in Vreg : (alloc[v] = NoReg) # (slot[v] = NoSlot)

(* A virtual register either waits, once and with its current status, and  *)
(* has no home; or it has exactly one home.  An eviction may not lose it,  *)
(* queue it twice, or queue one that still has a home.                     *)
WaitsOnce ==
  \A v \in Vreg :
    \/ /\ \A s \in Status : queue[<<v, s>>] = 0
       /\ (alloc[v] = NoReg) # (slot[v] = NoSlot)
    \/ /\ \A s \in Status : queue[<<v, s>>] = (IF s = status[v] THEN 1 ELSE 0)
       /\ alloc[v] = NoReg /\ slot[v] = NoSlot

(* Once spilled, always spilled: the instructions have been rewritten to   *)
(* the slot, so a later step may not hand out a register or a second slot. *)
SpillIsFinal ==
  [][\A v \in Vreg : slot[v] # NoSlot => slot'[v] = slot[v] /\ alloc'[v] = NoReg]_vars

(* Each eviction makes the register's occupants strictly dearer, which is  *)
(* what keeps two virtual registers from evicting each other for ever.     *)
EvictionGains ==
  [][\A r \in Reg : occupied'[r] # occupied[r] =>
       TotalWeight(occupied[r]) < TotalWeight(occupied'[r])]_vars

-----------------------------------------------------------------------------
(* The abstract view: a home for every virtual register. *)
Home ==
  [v \in Vreg |-> IF alloc[v] # NoReg THEN alloc[v]
                  ELSE IF slot[v] # NoSlot THEN InMemory ELSE NoReg]

Abstract == INSTANCE Allocation
              WITH home <- Home, closed <- (phase = "done"),
                   Pending <- NoReg, Memory <- InMemory

(* The allocator keeps the promise of Allocation: an eviction displaces    *)
(* exactly the virtual registers that clash with the newcomer, nothing     *)
(* leaves memory again, the code is rewritten when all have a home, and    *)
(* that happens in the end.                                                *)
ImplementsAllocation == Abstract!Spec
=============================================================================
