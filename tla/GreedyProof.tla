---------------------------- MODULE GreedyProof ----------------------------
(***************************************************************************)
(* What liveness analysis and the allocator guarantee together, for every  *)
(* function: the theorem about the ranges, which holds of the analysis     *)
(* alone, and what every allocation checks before it is made; and, for     *)
(* functions whose values are local, that values needed at the same time   *)
(* are kept apart.  A value is local when its virtual register is written  *)
(* once and read in the same block only, as the temporaries of an          *)
(* expression without && and || are: it has one range.                     *)
(***************************************************************************)
EXTENDS GreedyAllocation, Induction

RA == INSTANCE RegAllocProof WITH Inputs <- {}
P == INSTANCE LivenessProof WITH Operand <- Vreg \cup Reg \cup OtherReg, Programs <- Functions

-----------------------------------------------------------------------------
(* The analysis under its two names. *)

LEMMA SameInit == L!Init => P!Init
BY DEF L!Init, P!Init, L!Unnumbered, P!Unnumbered

LEMMA SameVars == L!vars = P!vars
BY DEF L!vars, P!vars

LEMMA SameCode ==
  /\ \A b : L!Code(b) = P!Code(b) /\ L!UseOf(b) = P!UseOf(b) /\ L!DefOf(b) = P!DefOf(b)
  /\ \A b, i : /\ L!UseAt(b, i) = P!UseAt(b, i) /\ L!DefAt(b, i) = P!DefAt(b, i)
               /\ L!Number(b, i) = P!Number(b, i) /\ L!Start(b, i) = P!Start(b, i)
  /\ \A b, x : L!DefsIn(b, x) = P!DefsIn(b, x)
  /\ \A b, d, x : L!LiveToEnd(b, d, x) = P!LiveToEnd(b, d, x) /\ L!UsesFrom(b, d, x) = P!UsesFrom(b, d, x)
BY DEF L!Code, P!Code, L!UseOf, P!UseOf, L!DefOf, P!DefOf, L!UseAt, P!UseAt, L!DefAt, P!DefAt,
  L!Number, P!Number, L!Start, P!Start, L!DefsIn, P!DefsIn, L!LiveToEnd, P!LiveToEnd,
  L!UsesFrom, P!UsesFrom, L!Unnumbered, P!Unnumbered, L!ToSet, P!ToSet

LEMMA SameReads == \A b, d, x : L!ReadsFrom(b, d, x) = P!ReadsFrom(b, d, x)
<1>1. \A S : L!Cardinality(S) = P!Cardinality(S)
  BY DEF L!Cardinality, P!Cardinality
<1>2. \A b, i, x : L!Occurrences(b, i, x) = P!Occurrences(b, i, x)
  BY SameCode DEF L!Occurrences, P!Occurrences
<1>3. ASSUME NEW b, NEW d, NEW x PROVE L!ReadsFrom(b, d, x) = P!ReadsFrom(b, d, x)
  <2>1. UNION {{i} \X L!Occurrences(b, i, x) : i \in L!UsesFrom(b, d, x)}
        = UNION {{i} \X P!Occurrences(b, i, x) : i \in P!UsesFrom(b, d, x)}
    BY <1>2, SameCode
  <2> QED BY <1>1, <2>1 DEF L!ReadsFrom, P!ReadsFrom
<1> QED BY <1>3

LEMMA SameStop == \A b, d, x : L!Stop(b, d, x) = P!Stop(b, d, x)
<1>1. \A S : L!Max(S) = P!Max(S)
  BY DEF L!Max, P!Max
<1>2. ASSUME NEW b, NEW d, NEW x PROVE L!Stop(b, d, x) = P!Stop(b, d, x)
  <2>1. L!Max(L!UsesFrom(b, d, x)) = P!Max(P!UsesFrom(b, d, x))
    BY <1>1, SameCode
  <2>2. Len(L!Code(b)) = Len(P!Code(b))
    BY SameCode
  <2>3. L!LiveToEnd(b, d, x) = P!LiveToEnd(b, d, x) /\ L!UsesFrom(b, d, x) = P!UsesFrom(b, d, x)
    BY SameCode
  <2> QED BY <2>1, <2>2, <2>3 DEF L!Stop, P!Stop
<1> QED BY <1>2

LEMMA SameRanges == \A x : L!RangesOf(x) = P!RangesOf(x)
<1>1. \A b, d, x : L!RangesFrom(b, d, x) = P!RangesFrom(b, d, x)
  BY SameCode, SameReads, SameStop DEF L!RangesFrom, P!RangesFrom
<1>2. \A x : L!RangeSet(x) = P!RangeSet(x)
  BY <1>1, SameCode DEF L!RangeSet, P!RangeSet
<1>3. ASSUME NEW S PROVE L!SortedByBegin(S) = P!SortedByBegin(S)
  BY DEF L!SortedByBegin, P!SortedByBegin, L!ToSet, P!ToSet, L!Cardinality, P!Cardinality
<1> QED BY <1>2, <1>3 DEF L!RangesOf, P!RangesOf

LEMMA SameNext == L!Next => P!Next
<1>1. L!NumberBlock => P!NumberBlock
  BY SameCode DEF L!NumberBlock, P!NumberBlock, L!NumberedUpTo, P!NumberedUpTo
<1>2. L!StartSweep => P!StartSweep
  BY DEF L!StartSweep, P!StartSweep, L!Last, P!Last
<1>3. L!SweepBlock => P!SweepBlock
  BY SameCode DEF L!SweepBlock, P!SweepBlock, L!ToSet, P!ToSet
<1>4. L!ComputeRanges => P!ComputeRanges
  BY SameRanges DEF L!ComputeRanges, P!ComputeRanges
<1> QED BY <1>1, <1>2, <1>3, <1>4 DEF L!Next, P!Next, L!Finished, P!Finished, L!vars, P!vars

LEMMA SameOnward == ASSUME NEW n, NEW S, NEW b PROVE L!Onward(n, S, b) = P!Onward(n, S, b)
BY DEF L!Onward, P!Onward, L!Grown, P!Grown, L!ToSet, P!ToSet, L!Cardinality, P!Cardinality

LEMMA SameMeaning ==
  /\ \A b, i : L!LiveAfter(b, i) = P!LiveAfter(b, i)
  /\ L!Reachable = P!Reachable
<1>1. \A b : L!Exposed(b) = P!Exposed(b)
  BY SameCode DEF L!Exposed, P!Exposed
<1>2. \A x : {d \in Block : L!DefsIn(d, x) = {}} = {d \in Block : P!DefsIn(d, x) = {}}
  BY SameCode
<1>3. \A b : L!LiveIn(b) = P!LiveIn(b)
  <2> TAKE b
  <2>1. \A x : L!Onward(prog.succ, {d \in Block : L!DefsIn(d, x) = {}}, b)
              = P!Onward(prog.succ, {d \in Block : P!DefsIn(d, x) = {}}, b)
    BY <1>2, SameOnward
  <2> DEFINE from(x) == L!Onward(prog.succ, {d \in Block : L!DefsIn(d, x) = {}}, b)
             to(x) == P!Onward(prog.succ, {d \in Block : P!DefsIn(d, x) = {}}, b)
  <2>2. L!LiveIn(b) = {x \in Vreg \cup Reg \cup OtherReg : \E c \in from(x) : x \in L!Exposed(c)}
    BY DEF L!LiveIn
  <2>3. P!LiveIn(b) = {x \in Vreg \cup Reg \cup OtherReg : \E c \in to(x) : x \in P!Exposed(c)}
    BY DEF P!LiveIn
  <2>4. \A x : from(x) = to(x)
    BY <2>1
  <2> HIDE DEF from, to
  <2> QED BY <1>1, <2>2, <2>3, <2>4
<1>4. \A b : L!LiveOut(b) = P!LiveOut(b)
  BY <1>3 DEF L!LiveOut, P!LiveOut, L!ToSet, P!ToSet
<1>5. \A b, i : L!LiveAfter(b, i) = P!LiveAfter(b, i)
  BY <1>4, SameCode DEF L!LiveAfter, P!LiveAfter
<1>6. L!Reachable = P!Reachable
  BY SameOnward DEF L!Reachable, P!Reachable
<1> QED BY <1>5, <1>6

(* What the analysis proves of every function it is given, it proves of    *)
(* the functions that are allocated.                                       *)
LEMMA Accepted == \A p \in Functions : P!WellFormed(p) /\ P!Returns(p)
<1> SUFFICES ASSUME NEW p \in Functions PROVE P!WellFormed(p) /\ P!Returns(p)
  OBVIOUS
<1>1. L!WellFormed(p) /\ L!Returns(p)
  BY FunctionsAssumption
<1>2. P!WellFormed(p)
  BY <1>1 DEF L!WellFormed, P!WellFormed, L!Program, P!Program, L!Instruction, P!Instruction,
     L!ToSet, P!ToSet, L!IsInjective, P!IsInjective
<1>3. P!Returns(p)
  BY <1>1, SameOnward DEF L!Returns, P!Returns, L!Last, P!Last
<1> QED BY <1>2, <1>3

-----------------------------------------------------------------------------
(* The allocator: whatever register a virtual register holds was one of    *)
(* its candidates, and none is handed out before the analysis is done.     *)

Allowed ==
  /\ prog \in Functions
  /\ alloc \in [Vreg -> Reg \cup {NoReg}]
  /\ stage # "done" => phase = "allocate" /\ alloc = [v \in Vreg |-> NoReg]
  /\ \A v \in Vreg : alloc[v] # NoReg => alloc[v] \in A!Candidates(v)

LEMMA PreferredIsOne ==
  ASSUME NEW v, NEW S \in SUBSET Reg, S # {}
  PROVE  A!Preferred(v, S) \in S
<1>1. \E r \in S : \A s \in S : RegIndex[r] <= RegIndex[s]
  <2> DEFINE T == {RegIndex[r] : r \in S}
  <2>1. T \in SUBSET Nat /\ T # {}
    BY RegistersAssumption DEF A!ConstantsAssumption
  <2> HIDE DEF T
  <2>2. PICK n \in T : \A m \in T : n <= m
    BY <2>1, LeastNat
  <2> QED BY <2>2 DEF T
<1> QED BY <1>1 DEF A!Preferred

LEMMA InitAllowed == Init => Allowed
BY DEF Init, Allowed, L!Init, A!InitMaps

LEMMA AnalyzeAllowed == Allowed /\ Analyze => Allowed'
<1> SUFFICES ASSUME Allowed, Analyze PROVE Allowed'
  OBVIOUS
<1>1. prog' = prog /\ alloc' = alloc /\ phase' = phase
  BY DEF Analyze, allocationVars, L!Next, L!NumberBlock, L!StartSweep, L!SweepBlock,
     L!ComputeRanges, L!Finished, L!vars
<1>2. CASE stage = "done"
  <2>1. stage' = stage /\ live' = live
    BY <1>2 DEF Analyze, L!Next, L!NumberBlock, L!StartSweep, L!SweepBlock, L!ComputeRanges,
       L!Finished, L!vars
  <2> QED BY <1>1, <2>1 DEF Allowed, A!Candidates, A!SameClass, A!HardConflict
<1>3. CASE stage # "done"
  <2>1. alloc' = [v \in Vreg |-> NoReg] /\ phase' = "allocate" /\ \A v \in Vreg : alloc'[v] = NoReg
    BY <1>1, <1>3 DEF Allowed
  <2> QED BY <1>1, <2>1 DEF Allowed
<1> QED BY <1>2, <1>3

LEMMA AllocateAllowed == Allowed /\ Allocate => Allowed'
<1> SUFFICES ASSUME Allowed, Allocate PROVE Allowed'
  OBVIOUS
<1>1. stage = "done" /\ stage' = stage /\ prog' = prog
  BY DEF Allocate, analysisVars
<1>2. live' = live
  BY DEF Allocate, A!Next, A!Assign, A!Evict, A!GiveUp, A!TrySplit, A!Spill, A!RewriteOperands,
     A!Terminated, A!input, A!vars
<1>3. \A v : A!Candidates(v)' = A!Candidates(v)
  BY <1>2 DEF A!Candidates, A!SameClass, A!HardConflict
<1>4. ASSUME NEW v \in Vreg, NEW r \in A!Candidates(v), alloc' = [alloc EXCEPT ![v] = r]
      PROVE  Allowed'
  <2>1. r \in Reg
    BY DEF A!Candidates
  <2>2. alloc' \in [Vreg -> Reg \cup {NoReg}]
    BY <1>4, <2>1 DEF Allowed
  <2>3. \A u \in Vreg : alloc'[u] # NoReg => alloc'[u] \in A!Candidates(u)'
    BY <1>3, <1>4 DEF Allowed
  <2> QED BY <1>1, <2>2, <2>3 DEF Allowed
<1>5. CASE alloc' = alloc
  BY <1>1, <1>3, <1>5 DEF Allowed
<1>6. ASSUME NEW e \in A!Entry, A!Assign(e) PROVE Allowed'
  <2> DEFINE v == e[1]
             r == A!Preferred(v, A!FreeRegs(v))
  <2>1. v \in Vreg /\ A!FreeRegs(v) # {} /\ alloc' = [alloc EXCEPT ![v] = r]
    BY <1>6 DEF A!Assign, A!Entry
  <2>2. A!FreeRegs(v) \subseteq A!Candidates(v) /\ A!Candidates(v) \subseteq Reg
    BY DEF A!FreeRegs, A!Candidates
  <2>3. r \in A!Candidates(v)
    BY <2>1, <2>2, PreferredIsOne
  <2> QED BY <1>4, <2>1, <2>3
<1>7. ASSUME NEW e \in A!Entry, NEW r \in Reg, A!Evict(e, r) PROVE Allowed'
  <2> DEFINE v == e[1]
             evicted == A!Conflicts(v, r)
  <2>1. /\ v \in Vreg /\ r \in A!Candidates(v)
        /\ alloc' = [u \in Vreg |-> IF u = v THEN r ELSE IF u \in evicted THEN NoReg ELSE alloc[u]]
    BY <1>7 DEF A!Evict, A!Entry, A!CheapestRegs
  <2> HIDE DEF evicted
  <2>2. alloc' \in [Vreg -> Reg \cup {NoReg}]
    BY <2>1 DEF Allowed
  <2>3. \A u \in Vreg : alloc'[u] # NoReg => alloc'[u] \in A!Candidates(u)'
    BY <1>3, <2>1 DEF Allowed
  <2> QED BY <1>1, <2>2, <2>3 DEF Allowed
<1>8. ASSUME NEW e \in A!Entry, A!GiveUp(e) \/ A!TrySplit(e) \/ A!Spill(e) PROVE alloc' = alloc
  BY <1>8 DEF A!GiveUp, A!TrySplit, A!Spill, A!places
<1>9. ASSUME A!RewriteOperands \/ A!Terminated PROVE alloc' = alloc
  BY <1>9 DEF A!RewriteOperands, A!Terminated, A!places, A!vars
<1> QED BY <1>5, <1>6, <1>7, <1>8, <1>9 DEF Allocate, A!Next

-----------------------------------------------------------------------------
(* The whole pass. *)

GreedyInv ==
  P!IInv /\ P!InterferenceSound /\ P!MentionsCovered /\ Allowed

LEMMA InitGreedy == Init => GreedyInv
<1> SUFFICES ASSUME Init PROVE GreedyInv
  OBVIOUS
<1>1. P!Init
  BY SameInit DEF Init
<1>2. P!IInv
  BY <1>1, Accepted, P!InitIInv
<1>3. P!InterferenceSound /\ P!MentionsCovered
  BY <1>1 DEF P!Init, P!InterferenceSound, P!MentionsCovered
<1> QED BY <1>2, <1>3, InitAllowed DEF GreedyInv

LEMMA NextGreedy == GreedyInv /\ [Next]_vars => GreedyInv'
<1> SUFFICES ASSUME GreedyInv, [Next]_vars PROVE GreedyInv'
  OBVIOUS
<1>1. P!Next \/ UNCHANGED P!vars
  <2>1. CASE Analyze
    BY <2>1, SameNext DEF Analyze
  <2>2. CASE Allocate
    <3>1. live' = live
      BY <2>2 DEF Allocate, A!Next, A!Assign, A!Evict, A!GiveUp, A!TrySplit, A!Spill,
         A!RewriteOperands, A!Terminated, A!input, A!vars
    <3> QED BY <2>2, <3>1 DEF Allocate, analysisVars, P!vars
  <2>3. CASE UNCHANGED vars
    BY <2>3 DEF vars, analysisVars, P!vars
  <2> QED BY <2>1, <2>2, <2>3 DEF Next
<1>2. P!IInv'
  BY <1>1, Accepted, P!NumberBlockStep, P!StartSweepStep, P!SweepBlockStep, P!ComputeRangesStep,
     P!StutterStep DEF P!Next, P!Finished, GreedyInv
<1>3. P!InterferenceSound' /\ P!MentionsCovered'
  BY <1>1, Accepted, P!RangesStep DEF GreedyInv
<1>4. Allowed'
  <2>1. CASE UNCHANGED vars
    <3>1. prog' = prog /\ alloc' = alloc /\ stage' = stage /\ phase' = phase /\ live' = live
      BY <2>1 DEF vars, analysisVars, allocationVars
    <3> QED BY <3>1 DEF GreedyInv, Allowed, A!Candidates, A!SameClass, A!HardConflict
  <2> QED BY <2>1, AnalyzeAllowed, AllocateAllowed DEF GreedyInv, Next
<1> QED BY <1>2, <1>3, <1>4 DEF GreedyInv

(* Through analysis and allocation the computed sets stay within liveness, *)
(* the ranges tell interference, and every register is a candidate.        *)
THEOREM PassInvariant == Spec => []GreedyInv
BY InitGreedy, NextGreedy, PTL DEF Spec

(* In every function, no value that is needed after an instruction is in a *)
(* register that the instruction writes: a call or an argument move cannot *)
(* destroy it, whichever registers were evicted or spilled on the way.     *)
THEOREM CallsDestroyNothing == Spec => []NoValueClobbered
<1>1. GreedyInv => NoValueClobbered
  <2> SUFFICES ASSUME GreedyInv, phase = "done", NEW b \in L!Reachable, NEW i \in DOMAIN L!Code(b),
                      NEW x \in L!LiveAfter(b, i) \cap Vreg, alloc[x] \in L!DefAt(b, i) \cap Reg
               PROVE  FALSE
    BY DEF NoValueClobbered
  <2>1. stage = "done" \/ alloc[x] = NoReg
    BY DEF GreedyInv, Allowed
  <2>2. stage = "done" /\ alloc[x] \in A!Candidates(x)
    BY <2>1, RegistersAssumption DEF GreedyInv, Allowed, A!ConstantsAssumption
  <2>3. alloc[x] \in ClobberedReg
    <3>1. b \in Block
      BY <2>2, Accepted, SameMeaning, P!ReachableSeen DEF GreedyInv, P!Seen
    <3>2. prog \in Functions /\ i \in DOMAIN prog.code[b] /\ alloc[x] \in ToSet(prog.code[b][i].def)
      BY DEF GreedyInv, Allowed, L!DefAt, L!Code, L!ToSet, ToSet
    <3> QED BY <3>1, <3>2, FunctionsAssumption
  <2>4. x # alloc[x]
    BY RegistersAssumption
  <2>5. P!ListsConflict(live[x], live[alloc[x]])
    <3>1. b \in P!Reachable /\ i \in DOMAIN P!Code(b) /\ x \in P!LiveAfter(b, i)
      BY SameMeaning, SameCode
    <3>2. alloc[x] \in P!DefAt(b, i)
      BY SameCode
    <3> QED BY <2>2, <2>4, <3>1, <3>2 DEF GreedyInv, P!InterferenceSound
  <2>6. A!ListsConflict(live[x], live[alloc[x]])
    BY <2>5 DEF A!ListsConflict, P!ListsConflict, A!Conflict, P!Conflict
  <2> QED BY <2>2, <2>3, <2>6 DEF A!Candidates, A!HardConflict
<1> QED BY <1>1, PassInvariant, PTL

-----------------------------------------------------------------------------
(* The allocator under its two names. *)

LEMMA SameSums ==
  /\ \A v : A!InstructionCount(v) = RA!InstructionCount(v)
  /\ \A v : A!SpillWeight(v) = RA!SpillWeight(v)
<1>1. \A v : A!InstructionCount(v) = RA!InstructionCount(v)
  BY DEF A!InstructionCount, RA!InstructionCount, A!MapThenSumSet, RA!MapThenSumSet,
     A!MapThenFoldSet, RA!MapThenFoldSet
<1>2. \A v : A!SpillWeight(v) = RA!SpillWeight(v)
  BY DEF A!SpillWeight, RA!SpillWeight, A!MapThenSumSet, RA!MapThenSumSet,
     A!MapThenFoldSet, RA!MapThenFoldSet
<1> QED BY <1>1, <1>2

LEMMA SameWeights == \A S : A!TotalWeight(S) = RA!TotalWeight(S)
BY DEF A!TotalWeight, RA!TotalWeight, A!SpillWeight, RA!SpillWeight,
   A!MapThenSumSet, RA!MapThenSumSet, A!MapThenFoldSet, RA!MapThenFoldSet

LEMMA SameQueue ==
  /\ A!Entry = RA!Entry /\ A!Waiting = RA!Waiting
  /\ \A e : A!OnTop(e) <=> RA!OnTop(e)
  /\ \A e : A!Popped(e) = RA!Popped(e)
  /\ \A q, S : A!Requeued(q, S) = RA!Requeued(q, S)
<1>1. A!Entry = RA!Entry
  BY DEF A!Entry, RA!Entry, A!Status, RA!Status, A!New, RA!New, A!Assigned, RA!Assigned,
     A!Split, RA!Split, A!Spilling, RA!Spilling
<1>2. A!Waiting = RA!Waiting
  BY <1>1 DEF A!Waiting, RA!Waiting
<1>3. \A e, f : A!LowerPriority(e, f) <=> RA!LowerPriority(e, f)
  BY SameSums DEF A!LowerPriority, RA!LowerPriority, A!Hinted, RA!Hinted
<1>4. \A e : A!OnTop(e) <=> RA!OnTop(e)
  BY <1>2, <1>3 DEF A!OnTop, RA!OnTop
<1>5. \A e : A!Popped(e) = RA!Popped(e)
  BY DEF A!Popped, RA!Popped
<1>6. \A q, S : A!Requeued(q, S) = RA!Requeued(q, S)
  BY <1>1 DEF A!Requeued, RA!Requeued
<1> QED BY <1>1, <1>2, <1>4, <1>5, <1>6

LEMMA SameRegisters ==
  /\ \A S, v : A!Insert(S, v) = RA!Insert(S, v)
  /\ \A S, C : A!Erase(S, C) = RA!Erase(S, C)
  /\ \A v, r : A!Conflicts(v, r) = RA!Conflicts(v, r)
  /\ \A v : A!FreeRegs(v) = RA!FreeRegs(v) /\ A!CheapestRegs(v) = RA!CheapestRegs(v)
  /\ \A v, S : A!Preferred(v, S) = RA!Preferred(v, S)
<1>1. \A a, b : (A!KeyLess(a, b) <=> RA!KeyLess(a, b)) /\ (A!SameKey(a, b) <=> RA!SameKey(a, b))
               /\ (A!Conflict(a, b) <=> RA!Conflict(a, b))
  BY DEF A!KeyLess, RA!KeyLess, A!SameKey, RA!SameKey, A!Conflict, RA!Conflict
<1>2. \A v : A!RangesOf(v) = RA!RangesOf(v)
  BY DEF A!RangesOf, RA!RangesOf, A!OccRange, RA!OccRange
<1>3. \A S, v : A!Insert(S, v) = RA!Insert(S, v)
  BY <1>1, <1>2 DEF A!Insert, RA!Insert
<1>4. \A S, v : A!FirstOf(S, v) = RA!FirstOf(S, v)
  BY <1>1 DEF A!FirstOf, RA!FirstOf
<1>5. \A S, C : A!Erase(S, C) = RA!Erase(S, C)
  BY <1>4 DEF A!Erase, RA!Erase
<1>6. \A v, r : A!Scanned(r, v) = RA!Scanned(r, v)
  BY <1>1 DEF A!Scanned, RA!Scanned
<1>7. \A v, r : A!Conflicts(v, r) = RA!Conflicts(v, r)
  BY <1>1, <1>6 DEF A!Conflicts, RA!Conflicts
<1>8. \A v : A!Candidates(v) = RA!Candidates(v)
  BY <1>1 DEF A!Candidates, RA!Candidates, A!SameClass, RA!SameClass, A!HardConflict,
     RA!HardConflict, A!ListsConflict, RA!ListsConflict
<1>9. \A v : A!FreeRegs(v) = RA!FreeRegs(v)
  BY <1>7, <1>8 DEF A!FreeRegs, RA!FreeRegs
<1>10. \A v : A!CheapestRegs(v) = RA!CheapestRegs(v)
  BY <1>7, <1>8, SameWeights DEF A!CheapestRegs, RA!CheapestRegs
<1>11. \A v, S : A!Preferred(v, S) = RA!Preferred(v, S)
  BY DEF A!Preferred, RA!Preferred
<1> QED BY <1>3, <1>5, <1>7, <1>9, <1>10, <1>11

LEMMA SameActions ==
  /\ \A e : A!Assign(e) => RA!Assign(e)
  /\ \A e, r : A!Evict(e, r) => RA!Evict(e, r)
  /\ \A e : A!GiveUp(e) => RA!GiveUp(e)
  /\ \A e : A!TrySplit(e) => RA!TrySplit(e)
  /\ \A e : A!Spill(e) => RA!Spill(e)
<1>1. \A e, S : A!Pop(e, S) => RA!Pop(e, S)
  BY SameQueue DEF A!Pop, RA!Pop
<1>2. \A v, S : A!Outweighs(v, S) <=> RA!Outweighs(v, S)
  BY SameSums, SameWeights DEF A!Outweighs, RA!Outweighs
<1>3. ASSUME NEW e, A!Assign(e) PROVE RA!Assign(e)
  BY <1>1, <1>3, SameQueue, SameRegisters
  DEF A!Assign, RA!Assign, A!input, RA!input, A!memory, RA!memory, A!New, RA!New,
      A!Assigned, RA!Assigned
<1>4. ASSUME NEW e, NEW r, A!Evict(e, r) PROVE RA!Evict(e, r)
  BY <1>1, <1>2, <1>4, SameQueue, SameRegisters
  DEF A!Evict, RA!Evict, A!input, RA!input, A!memory, RA!memory, A!New, RA!New,
      A!Assigned, RA!Assigned
<1>5. ASSUME NEW e, A!GiveUp(e) PROVE RA!GiveUp(e)
  BY <1>1, <1>2, <1>5, SameQueue, SameRegisters
  DEF A!GiveUp, RA!GiveUp, A!input, RA!input, A!memory, RA!memory, A!places, RA!places,
      A!New, RA!New, A!Assigned, RA!Assigned, A!Split, RA!Split
<1>6. ASSUME NEW e, A!TrySplit(e) PROVE RA!TrySplit(e)
  BY <1>1, <1>6, SameQueue
  DEF A!TrySplit, RA!TrySplit, A!input, RA!input, A!memory, RA!memory, A!places, RA!places,
      A!Split, RA!Split, A!Spilling, RA!Spilling
<1>7. ASSUME NEW e, A!Spill(e) PROVE RA!Spill(e)
  BY <1>1, <1>7, SameQueue
  DEF A!Spill, RA!Spill, A!input, RA!input, A!memory, RA!memory, A!places, RA!places,
      A!Spilling, RA!Spilling, A!NoSlot, RA!NoSlot, A!SlotSize, RA!SlotSize
<1> QED BY <1>3, <1>4, <1>5, <1>6, <1>7

LEMMA SameAllocation == A!Next => RA!Next
<1>1. A!RewriteOperands => RA!RewriteOperands
  BY SameQueue DEF A!RewriteOperands, RA!RewriteOperands, A!input, RA!input, A!memory,
     RA!memory, A!places, RA!places
<1>2. A!Terminated => RA!Terminated
  BY DEF A!Terminated, RA!Terminated, A!vars, RA!vars
<1> QED BY <1>1, <1>2, SameActions, SameQueue DEF A!Next, RA!Next

(* What the allocator's proof takes for granted holds here too.            *)
LEMMA AllocationAccepted == RA!ConstantsAssumption /\ RA!InputsAssumption
<1>1. RA!ConstantsAssumption
  BY RegistersAssumption DEF A!ConstantsAssumption, RA!ConstantsAssumption,
     A!IsFiniteSet, RA!IsFiniteSet
<1>2. RA!InputsAssumption
  BY DEF RA!InputsAssumption
<1> QED BY <1>1, <1>2

-----------------------------------------------------------------------------
(* The maps that gen_alloc_hint fills in. *)

LEMMA LastMove ==
  ASSUME NEW p \in Functions, NEW S \in SUBSET Moves(p), S # {}
  PROVE  \E pl \in S : \A ql \in S : Before(ql, pl)
<1> DEFINE n == Len(p.blocks)
           K == {pl[1] : pl \in S}
<1>1. p.blocks \in Seq(Block) /\ p.code \in [Block -> Seq(P!Instruction)]
  BY Accepted DEF P!WellFormed, P!Program
<1>2. n \in Nat /\ DOMAIN p.blocks = 1 .. n
  BY <1>1
<1>3. ASSUME NEW pl \in S
      PROVE  /\ pl[1] \in 1 .. n
             /\ pl[2] \in DOMAIN p.code[p.blocks[pl[1]]]
  <2>1. pl \in UNION {{k} \X (DOMAIN p.code[p.blocks[k]]) : k \in DOMAIN p.blocks}
    BY DEF Moves
  <2>2. PICK k \in DOMAIN p.blocks : pl \in {k} \X (DOMAIN p.code[p.blocks[k]])
    BY <2>1
  <2> QED BY <1>2, <2>2
<1>4. PICK k \in K : \A m \in K : m <= k
  <2>1. K \in SUBSET (0 .. n) /\ K # {}
    BY <1>2, <1>3
  <2> HIDE DEF K, n
  <2> QED BY <1>2, <2>1, Accepted, P!GreatestUpTo
<1> DEFINE len == Len(p.code[p.blocks[k]])
           I == {pl[2] : pl \in {ql \in S : ql[1] = k}}
<1>5. p.code[p.blocks[k]] \in Seq(P!Instruction)
  BY <1>1, <1>2, <1>3
<1>6. len \in Nat /\ DOMAIN p.code[p.blocks[k]] = 1 .. len
  BY <1>5
<1>7. PICK i \in I : \A m \in I : m <= i
  <2>1. ASSUME NEW pl \in S, pl[1] = k PROVE pl[2] \in 1 .. len
    BY <1>3, <1>6, <2>1
  <2>2. \E pl \in S : pl[1] = k
    BY <1>4
  <2> HIDE DEF len
  <2>3. I \in SUBSET (0 .. len) /\ I # {}
    BY <1>6, <2>1, <2>2
  <2> HIDE DEF I
  <2> QED BY <1>6, <2>3, Accepted, P!GreatestUpTo
<1>8. PICK pl \in S : pl[1] = k /\ pl[2] = i
  BY <1>7
<1>9. ASSUME NEW ql \in S PROVE Before(ql, pl)
  <2>1. ql[1] <= k /\ ql[1] \in Nat /\ k \in Nat
    BY <1>2, <1>3, <1>4, <1>8
  <2>2. ql[1] = k => ql[2] <= i
    BY <1>7
  <2> QED BY <1>8, <2>1, <2>2 DEF Before
<1> QED BY <1>9

LEMMA PartnerFromSet ==
  ASSUME NEW p \in Functions, NEW v, NEW S, NEW none
  PROVE  MovePartner(p, v, S, none) \in S \cup {none}
<1> DEFINE pairings == Pairings(p, v, S)
<1>1. CASE pairings = {}
  BY <1>1 DEF MovePartner
<1>2. CASE pairings # {}
  <2>1. \E pl \in pairings : \A ql \in pairings : Before(ql, pl)
    BY <1>2, LastMove DEF Pairings
  <2>2. \A pl \in pairings : OtherSide(p, v, pl) \in S
    BY DEF Pairings
  <2> HIDE DEF pairings
  <2>3. (CHOOSE pl \in pairings : \A ql \in pairings : Before(ql, pl)) \in pairings
    BY <2>1
  <2> QED BY <1>2, <2>2, <2>3 DEF MovePartner, pairings
<1> QED BY <1>1, <1>2

HintTypes ==
  /\ coalesce \in [Vreg -> Vreg \cup {NoVreg}]
  /\ hint \in [Vreg -> Reg \cup OtherReg \cup {NoReg}]
  /\ frame \in Nat

LEMMA InitHintTypes == Init => HintTypes
<1> SUFFICES ASSUME Init PROVE HintTypes
  OBVIOUS
<1>1. prog \in Functions
  BY DEF Init, L!Init
<1>2. \A v \in Vreg : MovePartner(prog, v, Vreg, NoVreg) \in Vreg \cup {NoVreg}
  BY <1>1, PartnerFromSet
<1>3. \A v \in Vreg : MovePartner(prog, v, Reg \cup OtherReg, NoReg) \in Reg \cup OtherReg \cup {NoReg}
  BY <1>1, PartnerFromSet
<1> QED BY <1>2, <1>3 DEF Init, HintTypes, CoalesceMap, HintMap

-----------------------------------------------------------------------------
(* Functions of local values without blocks that cannot be reached. *)

LocalOnly == \A p \in Functions : P!Connected(p) /\ \A v \in Vreg : P!Local(p, v)

LEMMA RangesKnown ==
  ASSUME LocalOnly, P!IInv, P!ComputeRanges
  PROVE  /\ live' \in [Vreg \cup Reg \cup OtherReg -> RA!RangeList]
         /\ RA!StraightLive'
<1>1. P!Types /\ prog \in Functions /\ stage = "flow"
  BY DEF P!IInv, P!Types, P!ComputeRanges
<1>2. Block \subseteq P!Seen
  BY <1>1, Accepted, P!ReachableSeen DEF LocalOnly, P!Connected, P!Reachable
<1>3. \A c \in Block : outMap[c] = P!LiveOut(c)
  BY <1>1, <1>2, Accepted, P!AllExact DEF P!ComputeRanges
<1>4. live' = [x \in Vreg \cup Reg \cup OtherReg |-> P!RangesOf(x)]
  BY DEF P!ComputeRanges
<1>5. P!RangeList = RA!RangeList
  BY DEF P!RangeList, RA!RangeList, P!RangeRecord, RA!RangeRecord
<1>6. \A x \in Vreg \cup Reg \cup OtherReg : P!RangesOf(x) \in RA!RangeList
  BY <1>1, <1>5, Accepted, P!RangesTyped
<1>7. \A v \in Vreg : Len(P!RangesOf(v)) = 1 /\ P!RangesOf(v)[1].begin <= P!RangesOf(v)[1].end
  BY <1>1, <1>2, <1>3, Accepted, P!LocalOneRange DEF LocalOnly
<1> QED BY <1>4, <1>6, <1>7 DEF RA!StraightLive

Prepared == RA!InitMaps /\ HintTypes

LEMMA PreparedIInv ==
  /\ Prepared /\ RA!StraightLive
  /\ live \in [Vreg \cup Reg \cup OtherReg -> RA!RangeList]
  => RA!IInv
<1> SUFFICES ASSUME Prepared, RA!StraightLive,
                    live \in [Vreg \cup Reg \cup OtherReg -> RA!RangeList]
             PROVE  RA!IInv
  OBVIOUS
<1>1. RA!TypeOK
  BY DEF Prepared, HintTypes, RA!InitMaps, RA!TypeOK, RA!Entry, RA!Status, RA!New, RA!NoSlot
<1> QED BY <1>1, AllocationAccepted, RA!InitMapsIInv DEF Prepared

(* Until the ranges are known no map of the allocator has changed; from    *)
(* then on its own invariant holds.                                        *)
LocalInv == GreedyInv /\ IF stage = "done" THEN RA!IInv ELSE Prepared

LEMMA AnalyzeLocal ==
  ASSUME LocalOnly, LocalInv, Analyze
  PROVE  (IF stage = "done" THEN RA!IInv ELSE Prepared)'
<1>1. Prepared => Prepared'
  BY DEF Analyze, allocationVars, Prepared, HintTypes, RA!InitMaps
<1>2. CASE stage = "done"
  <2>1. stage' = stage /\ live' = live
    BY <1>2 DEF Analyze, L!Next, L!NumberBlock, L!StartSweep, L!SweepBlock, L!ComputeRanges,
       L!Finished, L!vars
  <2>2. UNCHANGED RA!vars
    BY <2>1 DEF Analyze, allocationVars, RA!vars
  <2> QED BY <1>2, <2>1, <2>2, AllocationAccepted, RA!NextStraight, RA!NextWaitsOnce
      DEF LocalInv, RA!IInv
<1>3. CASE stage # "done" /\ ~P!ComputeRanges
  <2>1. stage' # "done"
    BY <1>3, SameNext DEF Analyze, P!Next, P!NumberBlock, P!StartSweep, P!SweepBlock, P!Finished,
       P!vars
  <2> QED BY <1>1, <1>3, <2>1 DEF LocalInv
<1>4. CASE P!ComputeRanges
  <2>1. stage' = "done" /\ stage # "done"
    BY <1>4 DEF P!ComputeRanges
  <2>2. /\ live' \in [Vreg \cup Reg \cup OtherReg -> RA!RangeList]
        /\ RA!StraightLive'
    BY <1>4, RangesKnown DEF LocalInv, GreedyInv
  <2>3. Prepared'
    BY <1>1, <2>1 DEF LocalInv
  <2>4. (/\ Prepared /\ RA!StraightLive
         /\ live \in [Vreg \cup Reg \cup OtherReg -> RA!RangeList]
         => RA!IInv)'
    BY PreparedIInv, PTL
  <2> QED BY <2>1, <2>2, <2>3, <2>4
<1> QED BY <1>2, <1>3, <1>4

LEMMA AllocateLocal ==
  ASSUME LocalInv, Allocate
  PROVE  (IF stage = "done" THEN RA!IInv ELSE Prepared)'
<1>1. stage = "done" /\ stage' = "done" /\ RA!Next
  BY SameAllocation DEF Allocate, analysisVars
<1>2. RA!IInv'
  BY <1>1, AllocationAccepted, RA!NextStraight, RA!NextWaitsOnce DEF LocalInv, RA!IInv
<1> QED BY <1>1, <1>2

(* In functions of local values, two values that are needed at the same    *)
(* time, or of which one is written while the other is needed, are never   *)
(* in the same register: analysis and allocator together are right about   *)
(* them, whatever is evicted or spilled on the way.                        *)
THEOREM LocalValuesApart ==
  ASSUME LocalOnly
  PROVE  Spec => []LiveValuesApart
<1>1. Init => LocalInv
  <2> SUFFICES ASSUME Init PROVE LocalInv
    OBVIOUS
  <2>1. GreedyInv
    BY InitGreedy
  <2>2. stage # "done" /\ RA!InitMaps
    BY SameQueue DEF Init, L!Init, A!InitMaps, RA!InitMaps, A!New, RA!New, A!NoSlot, RA!NoSlot
  <2> QED BY <2>1, <2>2, InitHintTypes DEF LocalInv, Prepared
<1>2. LocalInv /\ [Next]_vars => LocalInv'
  <2> SUFFICES ASSUME LocalInv, [Next]_vars PROVE LocalInv'
    OBVIOUS
  <2>1. GreedyInv'
    BY NextGreedy DEF LocalInv
  <2>2. CASE UNCHANGED vars
    <3>1. UNCHANGED RA!vars /\ stage' = stage
      BY <2>2 DEF vars, analysisVars, allocationVars, RA!vars
    <3>2. RA!IInv => RA!IInv'
      BY <3>1, AllocationAccepted, RA!NextStraight, RA!NextWaitsOnce DEF RA!IInv
    <3>3. Prepared => Prepared'
      BY <3>1 DEF RA!vars, Prepared, HintTypes, RA!InitMaps
    <3> QED BY <2>1, <3>1, <3>2, <3>3 DEF LocalInv
  <2> QED BY <2>1, <2>2, AnalyzeLocal, AllocateLocal DEF LocalInv, Next
<1>3. LocalInv => LiveValuesApart
  <2> SUFFICES ASSUME LocalInv, phase = "done",
                      NEW b \in L!Reachable, NEW i \in DOMAIN L!Code(b),
                      NEW x \in L!LiveAfter(b, i) \cap Vreg,
                      NEW y \in (L!LiveAfter(b, i) \cup L!DefAt(b, i)) \cap Vreg,
                      x # y, alloc[x] = alloc[y]
               PROVE  alloc[x] = NoReg
    BY DEF LiveValuesApart
  <2>1. stage = "done"
    BY DEF LocalInv, Prepared, RA!InitMaps
  <2>2. P!ListsConflict(live[x], live[y])
    BY <2>1, SameMeaning, SameCode DEF LocalInv, GreedyInv, P!InterferenceSound
  <2>3. RA!ListsConflict(live[x], live[y])
    BY <2>2 DEF P!ListsConflict, RA!ListsConflict, P!Conflict, RA!Conflict
  <2> QED BY <2>1, <2>3 DEF LocalInv, RA!IInv, RA!Straight, RA!NoSharedRegister
<1> QED BY <1>1, <1>2, <1>3, PTL DEF Spec
=============================================================================
