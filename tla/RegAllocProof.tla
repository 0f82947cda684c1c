--------------------------- MODULE RegAllocProof ---------------------------
(***************************************************************************)
(* Proofs about RegAlloc, for every set of virtual registers, registers    *)
(* and inputs.                                                             *)
(***************************************************************************)
EXTENDS RegAlloc, WellFoundedInduction, SequenceTheorems, TLAPS

LEMMA PreferredInSet ==
  ASSUME NEW v \in Vreg, NEW S \in SUBSET Reg, S # {}
  PROVE  Preferred(v, S) \in S
<1> DEFINE T == {RegIndex[s] : s \in S}
           Less == {p \in Nat \X Nat : p[1] < p[2]}
<1>1. T \subseteq Nat /\ T # {}
  BY ConstantsAssumption
<1>2. PICK n \in T : \A m \in T : n <= m
  <2>1. IsWellFoundedOn(Less, Nat)
    BY NatLessThanWellFounded DEF OpToRel
  <2>2. PICK n \in T : \A m \in T : <<m, n>> \notin Less
    <3> HIDE DEF T, Less
    <3> QED BY <1>1, <2>1, WFMin
  <2>3. ASSUME NEW m \in T PROVE n <= m
    <3>1. n \in Nat /\ m \in Nat
      BY <1>1
    <3>2. <<m, n>> \in Less <=> m < n
      BY <3>1
    <3> QED
      <4> HIDE DEF Less, T
      <4> QED BY <2>2, <3>1, <3>2, <2>3
  <2> QED
    BY <2>3
<1>3. \E r \in S : \A s \in S : RegIndex[r] <= RegIndex[s]
  BY <1>2
<1> QED
  BY <1>3 DEF Preferred

(* The ranges of a virtual register are entered under its own name. *)
LEMMA OwnRanges ==
  ASSUME NEW v \in Vreg, live[v] \in RangeList
  PROVE  RangesOf(v) \subseteq {o \in OccRangeType : o.alloc_num = v}
<1>1. \A i \in DOMAIN live[v] : live[v][i] \in RangeRecord
  BY ElementOfSeq DEF RangeList
<1>2. \A i \in DOMAIN live[v] :
        OccRange(v, i) \in OccRangeType /\ OccRange(v, i).alloc_num = v
  BY <1>1 DEF OccRange, OccRangeType, RangeRecord
<1> QED
  BY <1>2 DEF RangesOf

-----------------------------------------------------------------------------
(* The allocator keeps every map to its types, whatever the ranges are. *)

LEMMA InitTypeOK == Init => TypeOK
<1> SUFFICES ASSUME Init PROVE TypeOK
  OBVIOUS
<1>1. PICK in \in InputType :
        live = in.live /\ coalesce = in.coalesce /\ hint = in.hint /\ frame = in.frame
  BY InputsAssumption DEF Init
<1>2. InitMaps
  BY DEF Init
<1>3. queue \in [Entry -> Nat]
  BY <1>2 DEF InitMaps
<1> QED
  BY <1>1, <1>2, <1>3
  DEF InputType, InitMaps, TypeOK, Status, New, Assigned, Split, Spilling

LEMMA NextTypeOK == TypeOK /\ [Next]_vars => TypeOK'
<1> SUFFICES ASSUME TypeOK, [Next]_vars PROVE TypeOK'
  OBVIOUS
<1> USE DEF TypeOK
<1>0. ASSUME NEW e \in Entry, OnTop(e)
      PROVE  /\ Popped(e) \in [Entry -> Nat]
             /\ e[1] \in Vreg
             /\ \A s \in Status : <<e[1], s>> \in Entry
  BY <1>0 DEF OnTop, Waiting, Popped, Entry
<1>1. ASSUME NEW e \in Entry, Assign(e) PROVE TypeOK'
  <2> DEFINE v == e[1]
             r == Preferred(v, FreeRegs(v))
  <2>1. OnTop(e) /\ FreeRegs(v) # {} /\ v \in Vreg
    BY <1>1, <1>0 DEF Assign, Pop
  <2>2. r \in Reg
    <3>1. FreeRegs(v) \in SUBSET Reg
      BY DEF FreeRegs, Candidates
    <3> QED
      BY <2>1, <3>1, PreferredInSet
  <2>3. queue' \in [Entry -> Nat]
    BY <1>1, <1>0, <2>1 DEF Assign
  <2>4. occRanges' \in [Reg -> SUBSET OccRangeType]
    <3>1. RangesOf(v) \subseteq OccRangeType
      BY <2>1, OwnRanges
    <3>2. occRanges' = [occRanges EXCEPT ![r] = Insert(@, v)]
      BY <1>1 DEF Assign
    <3> QED
      BY <2>2, <3>1, <3>2 DEF Insert
  <2>5. /\ occupied' = [occupied EXCEPT ![r] = @ \cup {v}]
        /\ alloc' = [alloc EXCEPT ![v] = r]
        /\ status' = [status EXCEPT ![v] = Assigned]
        /\ hint' = IF coalesce[v] = NoVreg THEN hint
                   ELSE [hint EXCEPT ![coalesce[v]] = r]
        /\ UNCHANGED <<input, memory, saved, phase>>
    BY <1>1 DEF Assign
  <2> HIDE DEF v, r
  <2> QED
    BY <2>1, <2>2, <2>3, <2>4, <2>5
    DEF input, memory, Status, New, Assigned, Split, Spilling
<1>2. ASSUME NEW e \in Entry, NEW r \in Reg, Evict(e, r) PROVE TypeOK'
  <2> DEFINE v == e[1]
             C == Conflicts(v, r)
  <2>1. OnTop(e) /\ v \in Vreg
    BY <1>2, <1>0 DEF Evict, Pop
  <2>2. queue' \in [Entry -> Nat]
    <3>1. queue' = [f \in Entry |->
                      IF f[1] \in C /\ f[2] = status[f[1]]
                      THEN Popped(e)[f] + 1 ELSE Popped(e)[f]]
      BY <1>2 DEF Evict, Requeued
    <3> QED
      BY <3>1, <1>0, <2>1
  <2>3. occRanges' \in [Reg -> SUBSET OccRangeType]
    <3>1. RangesOf(v) \subseteq OccRangeType
      BY <2>1, OwnRanges
    <3>2. occRanges' = [occRanges EXCEPT ![r] = Insert(Erase(@, C), v)]
      BY <1>2 DEF Evict
    <3> QED
      BY <3>1, <3>2 DEF Insert, Erase
  <2>4. /\ occupied' = [occupied EXCEPT ![r] = (@ \ C) \cup {v}]
        /\ alloc' = [u \in Vreg |-> IF u = v THEN r
                                    ELSE IF u \in C THEN NoReg ELSE alloc[u]]
        /\ UNCHANGED <<input, hint, status, memory, saved, phase>>
    BY <1>2 DEF Evict
  <2> HIDE DEF v, C
  <2> QED
    BY <2>1, <2>2, <2>3, <2>4 DEF input, memory
<1>3. ASSUME NEW e \in Entry, GiveUp(e) PROVE TypeOK'
  <2>1. OnTop(e)
    BY <1>3 DEF GiveUp, Pop
  <2>2. Popped(e) \in [Entry -> Nat] /\ e[1] \in Vreg /\ <<e[1], Split>> \in Entry
    BY <1>0, <2>1 DEF Status
  <2>3. queue' \in [Entry -> Nat]
    BY <1>3, <2>2 DEF GiveUp
  <2> QED
    BY <1>3, <2>2, <2>3 DEF GiveUp, input, places, memory, Status
<1>4. ASSUME NEW e \in Entry, TrySplit(e) PROVE TypeOK'
  <2>1. OnTop(e)
    BY <1>4 DEF TrySplit, Pop
  <2>2. Popped(e) \in [Entry -> Nat] /\ e[1] \in Vreg /\ <<e[1], Spilling>> \in Entry
    BY <1>0, <2>1 DEF Status
  <2>3. queue' \in [Entry -> Nat]
    BY <1>4, <2>2 DEF TrySplit
  <2> QED
    BY <1>4, <2>2, <2>3 DEF TrySplit, input, places, memory, Status
<1>5. ASSUME NEW e \in Entry, Spill(e) PROVE TypeOK'
  <2>1. Popped(e) \in [Entry -> Nat] /\ e[1] \in Vreg
    BY <1>0, <1>5 DEF Spill, Pop
  <2> QED
    BY <1>5, <2>1 DEF Spill, SlotSize, input, places, memory
<1>6. ASSUME RewriteOperands PROVE TypeOK'
  BY <1>6 DEF RewriteOperands, input, places, memory
<1>7. ASSUME UNCHANGED vars PROVE TypeOK'
  BY <1>7 DEF vars
<1> QED
  BY <1>1, <1>2, <1>3, <1>4, <1>5, <1>6, <1>7 DEF Next, Terminated

(* Every map of the allocator keeps to its key and value types. *)
THEOREM TypeCorrect == Spec => []TypeOK
BY InitTypeOK, NextTypeOK, PTL DEF Spec

-----------------------------------------------------------------------------
(* Registers that the code itself uses. *)

LEMMA NextFixed ==
  TypeOK /\ FixedRegistersRespected /\ [Next]_vars => FixedRegistersRespected'
<1> SUFFICES ASSUME TypeOK, FixedRegistersRespected, [Next]_vars
             PROVE  FixedRegistersRespected'
  OBVIOUS
<1> USE DEF FixedRegistersRespected, SameClass, HardConflict, TypeOK
<1>1. ASSUME NEW e \in Entry, Assign(e) PROVE FixedRegistersRespected'
  <2> DEFINE v == e[1]
             r == Preferred(v, FreeRegs(v))
  <2>1. v \in Vreg /\ FreeRegs(v) # {} /\ FreeRegs(v) \in SUBSET Reg
    BY <1>1 DEF Assign, FreeRegs, Candidates, Entry
  <2>2. r \in FreeRegs(v)
    BY <2>1, PreferredInSet
  <2>3. r \in Reg /\ SameClass(v, r) /\ ~HardConflict(v, r)
    BY <2>2 DEF FreeRegs, Candidates
  <2>4. live' = live /\ alloc' = [alloc EXCEPT ![v] = r]
    BY <1>1 DEF Assign, input
  <2> HIDE DEF v, r
  <2> QED
    BY <2>3, <2>4
<1>2. ASSUME NEW e \in Entry, NEW r \in Reg, Evict(e, r)
      PROVE  FixedRegistersRespected'
  <2>1. SameClass(e[1], r) /\ ~HardConflict(e[1], r)
    BY <1>2 DEF Evict, CheapestRegs, Candidates
  <2>2. /\ live' = live
        /\ \A u \in Vreg : alloc'[u] \in {NoReg, alloc[u]} \/ (u = e[1] /\ alloc'[u] = r)
    BY <1>2 DEF Evict, input
  <2> QED
    BY <2>1, <2>2
<1>3. ASSUME UNCHANGED <<live, alloc>> PROVE FixedRegistersRespected'
  BY <1>3
<1>4. ASSUME NEW e \in Entry, GiveUp(e) \/ TrySplit(e) \/ Spill(e)
      PROVE  UNCHANGED <<live, alloc>>
  BY <1>4 DEF GiveUp, TrySplit, Spill, input, places
<1>5. ASSUME RewriteOperands \/ UNCHANGED vars PROVE UNCHANGED <<live, alloc>>
  BY <1>5 DEF RewriteOperands, input, places, vars
<1> QED
  BY <1>1, <1>2, <1>3, <1>4, <1>5 DEF Next, Terminated

(* A virtual register only ever holds a register of its class that the     *)
(* code does not use within its ranges, however often it is evicted and    *)
(* however many ranges it has.                                             *)
THEOREM FixedRegistersCorrect == Spec => []FixedRegistersRespected
<1>1. Init => FixedRegistersRespected
  BY DEF Init, InitMaps, FixedRegistersRespected
<1> QED
  BY <1>1, NextFixed, TypeCorrect, PTL DEF Spec

-----------------------------------------------------------------------------
(* Stack slots. *)

LEMMA NextSlots == TypeOK /\ SlotsApart /\ [Next]_vars => SlotsApart'
<1> SUFFICES ASSUME TypeOK, SlotsApart, [Next]_vars PROVE SlotsApart'
  OBVIOUS
<1> USE DEF SlotsApart, SlotSize, NoSlot, TypeOK
<1>1. ASSUME NEW e \in Entry, Spill(e) PROVE SlotsApart'
  <2>1. e[1] \in Vreg
    BY DEF Entry
  <2>2. CASE slot[e[1]] = NoSlot
    <3>1. slot' = [slot EXCEPT ![e[1]] = frame] /\ frame' = frame + 8
      BY <1>1, <2>2 DEF Spill
    <3> QED
      BY <2>1, <3>1
  <2>3. CASE slot[e[1]] # NoSlot
    BY <1>1, <2>3 DEF Spill, memory
  <2> QED
    BY <2>2, <2>3
<1>2. ASSUME UNCHANGED memory PROVE SlotsApart'
  BY <1>2 DEF memory
<1>3. ASSUME NEW e \in Entry, Assign(e) \/ GiveUp(e) \/ TrySplit(e)
      PROVE  UNCHANGED memory
  BY <1>3 DEF Assign, GiveUp, TrySplit
<1>4. ASSUME NEW e \in Entry, NEW r \in Reg, Evict(e, r) PROVE UNCHANGED memory
  BY <1>4 DEF Evict
<1>5. ASSUME RewriteOperands \/ UNCHANGED vars PROVE UNCHANGED memory
  BY <1>5 DEF RewriteOperands, memory, vars
<1> QED
  BY <1>1, <1>2, <1>3, <1>4, <1>5 DEF Next, Terminated

(* The slots of spilled virtual registers lie within the frame and never   *)
(* overlap, however many ranges a virtual register has.                    *)
THEOREM SlotsCorrect == Spec => []SlotsApart
<1>1. Init => SlotsApart
  BY DEF Init, InitMaps, SlotsApart
<1> QED
  BY <1>1, NextSlots, TypeCorrect, PTL DEF Spec

-----------------------------------------------------------------------------
(* Functions in which every virtual register has one live range: all that  *)
(* is written is read in the same block.  There the eviction loop, which   *)
(* erases one range per owner, erases all of them.                         *)

OneRangeEach == \A in \in Inputs : \A v \in Vreg : Len(in.live[v]) = 1

StraightLive ==
  \A v \in Vreg :
    live[v] \in RangeList /\ Len(live[v]) = 1 /\ live[v][1].begin <= live[v][1].end

Straight == TypeOK /\ StraightLive /\ MapsAgree /\ NoSharedRegister

LEMMA OneRange ==
  ASSUME StraightLive, NEW u \in Vreg
  PROVE  /\ DOMAIN live[u] = {1}
         /\ live[u][1] \in RangeRecord
         /\ RangesOf(u) = {OccRange(u, 1)}
         /\ OccRange(u, 1) \in OccRangeType
         /\ \A v \in Vreg :
              ListsConflict(live[u], live[v]) <=> Conflict(live[u][1], OccRange(v, 1))
<1>1. \A w \in Vreg : DOMAIN live[w] = {1} /\ live[w][1] \in RangeRecord
  <2> SUFFICES ASSUME NEW w \in Vreg
               PROVE  DOMAIN live[w] = {1} /\ live[w][1] \in RangeRecord
    OBVIOUS
  <2>1. live[w] \in Seq(RangeRecord) /\ Len(live[w]) = 1
    BY DEF StraightLive, RangeList
  <2>2. live[w][1] \in RangeRecord
    BY <2>1, ElementOfSeq
  <2>3. DOMAIN live[w] = 1 .. 1
    BY <2>1, LenProperties
  <2> QED
    BY <2>2, <2>3
<1>2. RangesOf(u) = {OccRange(u, 1)}
  BY <1>1 DEF RangesOf
<1>3. OccRange(u, 1) \in OccRangeType
  BY <1>1 DEF OccRange, OccRangeType, RangeRecord
<1>4. ASSUME NEW v \in Vreg
      PROVE  ListsConflict(live[u], live[v]) <=> Conflict(live[u][1], OccRange(v, 1))
  <2>1. ListsConflict(live[u], live[v]) <=> Conflict(live[u][1], live[v][1])
    BY <1>1 DEF ListsConflict
  <2>2. OccRange(v, 1).begin = live[v][1].begin /\ OccRange(v, 1).end = live[v][1].end
    BY DEF OccRange
  <2> QED
    BY <2>1, <2>2 DEF Conflict
<1> QED
  BY <1>1, <1>2, <1>3, <1>4

(* Ranges in a register do not conflict with each other.  If o, which      *)
(* starts before f, conflicts with f, then no p of that register lies      *)
(* between them: this is why one step back from lower_bound is enough.     *)
LEMMA NothingBetween ==
  ASSUME NEW o \in OccRangeType, NEW p \in OccRangeType, NEW f \in RangeRecord,
         o.begin <= o.end, p.begin <= p.end, f.begin <= f.end,
         KeyLess(o, p), KeyLess(p, f), Conflict(f, o)
  PROVE  Conflict(p, o)
BY DEF OccRangeType, RangeRecord, KeyLess, Conflict

LEMMA ConflictSymmetric ==
  ASSUME StraightLive, NEW u \in Vreg, NEW v \in Vreg, ListsConflict(live[u], live[v])
  PROVE  ListsConflict(live[v], live[u])
<1>1. live[u][1] \in RangeRecord /\ live[v][1] \in RangeRecord
  BY OneRange
<1>2. live[u][1].begin <= live[u][1].end /\ live[v][1].begin <= live[v][1].end
  BY DEF StraightLive
<1>3. DOMAIN live[u] = {1} /\ DOMAIN live[v] = {1}
  BY OneRange
<1>4. Conflict(live[u][1], live[v][1])
  BY <1>3 DEF ListsConflict
<1>5. Conflict(live[v][1], live[u][1])
  BY <1>1, <1>2, <1>4 DEF Conflict, RangeRecord
<1> QED
  BY <1>3, <1>5 DEF ListsConflict

Clashing(v, r) == {u \in Vreg : alloc[u] = r /\ ListsConflict(live[v], live[u])}

LEMMA Occupants ==
  ASSUME Straight, NEW r \in Reg
  PROVE  /\ occupied[r] = {u \in Vreg : alloc[u] = r}
         /\ occRanges[r] = {OccRange(u, 1) : u \in {w \in Vreg : alloc[w] = r}}
<1>1. /\ occupied[r] = {u \in Vreg : alloc[u] = r}
      /\ occRanges[r] = UNION {RangesOf(u) : u \in occupied[r]}
  BY DEF Straight, MapsAgree
<1>2. \A u \in Vreg : RangesOf(u) = {OccRange(u, 1)}
  BY OneRange DEF Straight
<1>3. \A o : o \in occRanges[r] <=> \E u \in Vreg : alloc[u] = r /\ o = OccRange(u, 1)
  BY <1>1, <1>2
<1> QED
  BY <1>1, <1>3

(* What conflict_map holds for a register is exactly the set of virtual    *)
(* registers that are in it and clash with v.                              *)
LEMMA ConflictsExact ==
  ASSUME Straight, NEW v \in Vreg, NEW r \in Reg
  PROVE  Conflicts(v, r) = Clashing(v, r)
<1> USE DEF Straight
<1> DEFINE f == live[v][1]
<1>1. DOMAIN live[v] = {1} /\ f \in RangeRecord /\ f.begin <= f.end
  BY OneRange DEF StraightLive
<1>2. \A o : o \in occRanges[r] <=> \E u \in Vreg : alloc[u] = r /\ o = OccRange(u, 1)
  BY Occupants
<1>3. \A u \in Vreg : /\ OccRange(u, 1) \in OccRangeType
                      /\ OccRange(u, 1).alloc_num = u
                      /\ OccRange(u, 1).begin <= OccRange(u, 1).end
                      /\ ListsConflict(live[v], live[u]) <=> Conflict(f, OccRange(u, 1))
  BY OneRange DEF OccRange, StraightLive
<1>4. ASSUME NEW u \in Conflicts(v, r) PROVE u \in Clashing(v, r)
  BY <1>1, <1>2, <1>3, <1>4 DEF Conflicts, Scanned, Clashing
<1>5. ASSUME NEW u \in Clashing(v, r) PROVE u \in Conflicts(v, r)
  <2> DEFINE o == OccRange(u, 1)
  <2>1. u \in Vreg /\ alloc[u] = r /\ o \in occRanges[r] /\ Conflict(f, o)
    BY <1>2, <1>3 DEF Clashing
  <2>2. ASSUME NEW p \in occRanges[r], KeyLess(p, f), KeyLess(o, f), KeyLess(o, p)
        PROVE  FALSE
    <3>1. PICK w \in Vreg : alloc[w] = r /\ p = OccRange(w, 1)
      BY <1>2
    <3>2. Conflict(p, o)
      <4> HIDE DEF f, o
      <4>1. o \in OccRangeType /\ o.begin <= o.end
        BY <1>3, <2>1 DEF o
      <4>2. p \in OccRangeType /\ p.begin <= p.end
        BY <1>3, <3>1
      <4> QED
        BY <1>1, <2>1, <2>2, <4>1, <4>2, NothingBetween
    <3>3. ListsConflict(live[w], live[u])
      <4>1. DOMAIN live[w] = {1} /\ DOMAIN live[u] = {1}
        BY OneRange, <2>1
      <4>2. Conflict(live[w][1], live[u][1])
        BY <3>1, <3>2 DEF Conflict, OccRange
      <4> QED
        BY <4>1, <4>2 DEF ListsConflict
    <3>4. w # u
      <4>1. o.begin \in Nat /\ o.end \in Nat
        BY <1>3, <2>1 DEF OccRangeType
      <4>2. ~KeyLess(o, o)
        BY <4>1 DEF KeyLess
      <4> QED
        BY <2>2, <3>1, <4>2
    <3> QED
      BY <2>1, <3>1, <3>3, <3>4, ConstantsAssumption DEF NoSharedRegister
  <2>3. o \in Scanned(r, v)
    <3> HIDE DEF o
    <3> QED BY <2>1, <2>2 DEF Scanned
  <2>4. u = o.alloc_num
    BY <1>3, <2>1
  <2> HIDE DEF o, f
  <2>5. \E i \in DOMAIN live[v] : Conflict(live[v][i], o)
    BY <1>1, <2>1 DEF f
  <2> QED
    BY <2>3, <2>4, <2>5 DEF Conflicts
<1> QED
  BY <1>4, <1>5

-----------------------------------------------------------------------------
(* Assign and Evict both place one virtual register and displace exactly   *)
(* those that clash with it.                                               *)

Placed(v, r) ==
  LET C == Clashing(v, r)
  IN /\ alloc[v] = NoReg
     /\ live' = live
     /\ alloc' = [u \in Vreg |-> IF u = v THEN r
                                 ELSE IF u \in C THEN NoReg ELSE alloc[u]]
     /\ occupied' = [occupied EXCEPT ![r] = (@ \ C) \cup {v}]
     /\ occRanges' = [occRanges EXCEPT
                        ![r] = (@ \ {OccRange(c, 1) : c \in C}) \cup {OccRange(v, 1)}]

IInv == Straight /\ WaitsOnce

LEMMA TopWaits ==
  ASSUME TypeOK, WaitsOnce, NEW e \in Entry, OnTop(e)
  PROVE  /\ e[1] \in Vreg /\ e = <<e[1], status[e[1]]>> /\ status[e[1]] \in Status
         /\ \A s \in Status :
              queue[<<e[1], s>>] = (IF s = status[e[1]] THEN 1 ELSE 0)
         /\ alloc[e[1]] = NoReg /\ slot[e[1]] = NoSlot
<1>1. PICK v \in Vreg, s \in Status : e = <<v, s>>
  BY DEF Entry
<1>2. queue[<<v, s>>] > 0
  BY <1>1 DEF OnTop, Waiting
<1>3. /\ \A t \in Status : queue[<<v, t>>] = (IF t = status[v] THEN 1 ELSE 0)
      /\ alloc[v] = NoReg /\ slot[v] = NoSlot
  BY <1>2 DEF WaitsOnce
<1>4. s = status[v]
  BY <1>2, <1>3
<1> QED
  BY <1>1, <1>3, <1>4

(* No range of a set has the key of a range that conflicts with none.      *)
LEMMA InsertAll ==
  ASSUME StraightLive, NEW v \in Vreg, NEW S \in SUBSET OccRangeType,
         \A p \in S : p.begin <= p.end /\ ~Conflict(live[v][1], p)
  PROVE  Insert(S, v) = S \cup {OccRange(v, 1)}
<1>1. /\ RangesOf(v) = {OccRange(v, 1)}
      /\ live[v][1] \in RangeRecord /\ live[v][1].begin <= live[v][1].end
  BY OneRange DEF StraightLive
<1>2. \A p \in S : ~SameKey(OccRange(v, 1), p)
  BY <1>1 DEF SameKey, OccRange, Conflict, RangeRecord, OccRangeType
<1> QED
  BY <1>1, <1>2 DEF Insert

LEMMA RangesInRegister ==
  ASSUME Straight, NEW r \in Reg, NEW p \in occRanges[r]
  PROVE  /\ p \in OccRangeType /\ p.begin <= p.end
         /\ p.alloc_num \in Vreg /\ alloc[p.alloc_num] = r /\ p = OccRange(p.alloc_num, 1)
<1>1. PICK u \in Vreg : alloc[u] = r /\ p = OccRange(u, 1)
  BY Occupants
<1>2. OccRange(u, 1) \in OccRangeType /\ live[u][1].begin <= live[u][1].end
  BY OneRange DEF Straight, StraightLive
<1> QED
  BY <1>1, <1>2 DEF OccRange

LEMMA AssignPlaces ==
  ASSUME IInv, NEW e \in Entry, Assign(e)
  PROVE  \E r \in Reg : /\ Placed(e[1], r)
                        /\ alloc' = [alloc EXCEPT ![e[1]] = r]
<1> DEFINE v == e[1]
           r == Preferred(v, FreeRegs(v))
<1>1. v \in Vreg /\ alloc[v] = NoReg
  BY TopWaits DEF IInv, Straight, Assign, Pop
<1>2. r \in FreeRegs(v)
  <2>1. FreeRegs(v) # {} /\ FreeRegs(v) \in SUBSET Reg
    BY DEF Assign, FreeRegs, Candidates
  <2> QED
    BY <1>1, <2>1, PreferredInSet
<1>3. r \in Reg /\ (occupied[r] = {} \/ Conflicts(v, r) = {})
  BY <1>2 DEF FreeRegs, Candidates
<1>4. /\ live' = live
      /\ alloc' = [alloc EXCEPT ![v] = r]
      /\ occupied' = [occupied EXCEPT ![r] = @ \cup {v}]
      /\ occRanges' = [occRanges EXCEPT ![r] = Insert(@, v)]
  BY DEF Assign, input
<1> HIDE DEF v, r
<1>5. Clashing(v, r) = {}
  <2>1. CASE occupied[r] = {}
    BY <1>3, <2>1, Occupants DEF Clashing, IInv
  <2>2. CASE Conflicts(v, r) = {}
    BY <1>1, <1>3, <2>2, ConflictsExact DEF IInv
  <2> QED
    BY <1>3, <2>1, <2>2
<1>6. Insert(occRanges[r], v) = occRanges[r] \cup {OccRange(v, 1)}
  <2>1. \A p \in occRanges[r] : p.begin <= p.end /\ ~Conflict(live[v][1], p)
    <3> SUFFICES ASSUME NEW p \in occRanges[r]
                 PROVE  p.begin <= p.end /\ ~Conflict(live[v][1], p)
      OBVIOUS
    <3>1. /\ p.begin <= p.end /\ p.alloc_num \in Vreg /\ alloc[p.alloc_num] = r
          /\ p = OccRange(p.alloc_num, 1)
      BY <1>3, RangesInRegister DEF IInv
    <3>2. ~ListsConflict(live[v], live[p.alloc_num])
      BY <1>5, <3>1 DEF Clashing
    <3> QED
      BY <1>1, <3>1, <3>2, OneRange DEF IInv, Straight
  <2>2. occRanges[r] \in SUBSET OccRangeType
    BY <1>3 DEF IInv, Straight, TypeOK
  <2> QED
    BY <1>1, <2>1, <2>2, InsertAll DEF IInv, Straight
<1>7. alloc \in [Vreg -> Reg \cup {NoReg}] /\ occupied \in [Reg -> SUBSET Vreg]
      /\ occRanges \in [Reg -> SUBSET OccRangeType]
  BY DEF IInv, Straight, TypeOK
<1>8. Placed(v, r)
  BY <1>1, <1>3, <1>4, <1>5, <1>6, <1>7 DEF Placed
<1> QED
  BY <1>3, <1>4, <1>8 DEF v

LEMMA EvictPlaces ==
  ASSUME IInv, NEW e \in Entry, NEW r \in Reg, Evict(e, r)
  PROVE  /\ Placed(e[1], r)
         /\ Conflicts(e[1], r) = Clashing(e[1], r)
<1> DEFINE v == e[1]
           C == Clashing(v, r)
           S == occRanges[r]
<1>1. v \in Vreg /\ alloc[v] = NoReg
  BY TopWaits DEF IInv, Straight, Evict, Pop
<1>2. Conflicts(v, r) = C
  BY <1>1, ConflictsExact DEF IInv
<1>3. /\ live' = live
      /\ alloc' = [u \in Vreg |-> IF u = v THEN r
                                  ELSE IF u \in C THEN NoReg ELSE alloc[u]]
      /\ occupied' = [occupied EXCEPT ![r] = (@ \ C) \cup {v}]
      /\ occRanges' = [occRanges EXCEPT ![r] = Insert(Erase(@, C), v)]
  BY <1>2 DEF Evict, input
<1> HIDE DEF v
<1>4. ASSUME NEW c \in C PROVE FirstOf(S, c) = {OccRange(c, 1)}
  <2>1. c \in Vreg /\ OccRange(c, 1) \in S
    BY <1>4, Occupants DEF Clashing, IInv
  <2>2. OccRange(c, 1) \in OccRangeType /\ OccRange(c, 1).alloc_num = c
    BY <2>1, OneRange DEF IInv, Straight, OccRange
  <2>3. ~KeyLess(OccRange(c, 1), OccRange(c, 1))
    BY <2>2 DEF KeyLess, OccRangeType
  <2>4. \A p \in S : p.alloc_num = c => p = OccRange(c, 1)
    BY RangesInRegister DEF IInv
  <2> QED
    BY <2>1, <2>2, <2>3, <2>4 DEF FirstOf
<1>5. Erase(S, C) = S \ {OccRange(c, 1) : c \in C}
  BY <1>4 DEF Erase
<1>6. Insert(Erase(S, C), v) = Erase(S, C) \cup {OccRange(v, 1)}
  <2>1. ASSUME NEW p \in Erase(S, C)
        PROVE  p.begin <= p.end /\ ~Conflict(live[v][1], p)
    <3>1. p \in S /\ \A c \in C : p # OccRange(c, 1)
      BY <1>5, <2>1
    <3>2. /\ p.begin <= p.end /\ p.alloc_num \in Vreg /\ alloc[p.alloc_num] = r
          /\ p = OccRange(p.alloc_num, 1)
      BY <3>1, RangesInRegister DEF IInv
    <3>3. ~ListsConflict(live[v], live[p.alloc_num])
      BY <3>1, <3>2 DEF Clashing
    <3> QED
      BY <1>1, <3>2, <3>3, OneRange DEF IInv, Straight
  <2>2. Erase(S, C) \in SUBSET OccRangeType
    BY DEF IInv, Straight, TypeOK, Erase
  <2> HIDE DEF C, S
  <2> QED
    BY <1>1, <2>1, <2>2, InsertAll DEF IInv, Straight
<1>7. occRanges \in [Reg -> SUBSET OccRangeType]
  BY DEF IInv, Straight, TypeOK
<1>8. Placed(v, r)
  BY <1>1, <1>3, <1>5, <1>6, <1>7 DEF Placed
<1> QED
  BY <1>2, <1>8 DEF v

LEMMA PlacedKeepsMaps ==
  ASSUME Straight, NEW v \in Vreg, NEW r \in Reg, Placed(v, r)
  PROVE  StraightLive' /\ MapsAgree' /\ NoSharedRegister'
<1> DEFINE C == Clashing(v, r)
<1>1. /\ live' = live /\ alloc[v] = NoReg
      /\ alloc' = [u \in Vreg |-> IF u = v THEN r
                                  ELSE IF u \in C THEN NoReg ELSE alloc[u]]
      /\ occupied' = [occupied EXCEPT ![r] = (@ \ C) \cup {v}]
      /\ occRanges' = [occRanges EXCEPT
                         ![r] = (@ \ {OccRange(c, 1) : c \in C}) \cup {OccRange(v, 1)}]
  BY DEF Placed
<1>2. StraightLive'
  BY <1>1 DEF Straight, StraightLive
<1>3. r # NoReg /\ v \notin C
  BY <1>1, ConstantsAssumption DEF Clashing
<1>4. ASSUME NEW q \in Reg
      PROVE  /\ occupied'[q] = {u \in Vreg : alloc'[u] = q}
             /\ occRanges'[q] = {OccRange(u, 1) : u \in {w \in Vreg : alloc'[w] = q}}
  <2>1. /\ occupied[q] = {u \in Vreg : alloc[u] = q}
        /\ occRanges[q] = {OccRange(u, 1) : u \in {w \in Vreg : alloc[w] = q}}
    BY Occupants
  <2>2. q # NoReg
    BY ConstantsAssumption
  <2>3. CASE q = r
    <3>1. {u \in Vreg : alloc'[u] = r} = ({u \in Vreg : alloc[u] = r} \ C) \cup {v}
      BY <1>1, <1>3 DEF Clashing
    <3>2. occupied'[r] = (occupied[r] \ C) \cup {v}
      BY <1>1 DEF Straight, TypeOK
    <3>3. occRanges'[r] = (occRanges[r] \ {OccRange(c, 1) : c \in C}) \cup {OccRange(v, 1)}
      BY <1>1 DEF Straight, TypeOK
    <3>4. \A u, w : OccRange(u, 1) = OccRange(w, 1) => u = w
      BY DEF OccRange
    <3> HIDE DEF C
    <3> QED
      BY <2>1, <2>3, <3>1, <3>2, <3>3, <3>4
  <2>4. CASE q # r
    <3>1. {u \in Vreg : alloc'[u] = q} = {u \in Vreg : alloc[u] = q}
      BY <1>1, <1>3, <2>2, <2>4 DEF Clashing
    <3>2. occupied'[q] = occupied[q] /\ occRanges'[q] = occRanges[q]
      BY <1>1, <2>4 DEF Straight, TypeOK
    <3> QED
      BY <2>1, <3>1, <3>2
  <2> QED
    BY <2>3, <2>4
<1>5. MapsAgree'
  <2>1. \A u \in Vreg : RangesOf(u)' = {OccRange(u, 1)}
    <3> SUFFICES ASSUME NEW u \in Vreg PROVE RangesOf(u)' = {OccRange(u, 1)}
      OBVIOUS
    <3>1. RangesOf(u)' = RangesOf(u)
      BY <1>1 DEF RangesOf, OccRange
    <3> QED
      BY <3>1, OneRange DEF Straight
  <2>2. ASSUME NEW q \in Reg
        PROVE  occRanges'[q] = UNION {RangesOf(u)' : u \in occupied'[q]}
    BY <1>4, <2>1
  <2> QED
    BY <1>4, <2>2 DEF MapsAgree
<1>6. ASSUME NEW u \in Vreg, NEW w \in Vreg, u # w, ListsConflict(live[u], live[w]),
             alloc'[u] = alloc'[w]
      PROVE  alloc'[u] = NoReg
  <2>1. CASE u = v
    BY <1>1, <1>3, <1>6, <2>1 DEF Clashing
  <2>2. CASE w = v
    <3>1. ListsConflict(live[v], live[u])
      BY <1>6, <2>2, ConflictSymmetric DEF Straight
    <3> QED
      BY <1>1, <1>3, <1>6, <2>2, <3>1 DEF Clashing
  <2>3. CASE u # v /\ w # v
    <3> HIDE DEF C
    <3> QED BY <1>1, <1>6, <2>3 DEF Straight, NoSharedRegister
  <2> QED
    BY <2>1, <2>2, <2>3
<1>7. NoSharedRegister'
  BY <1>1, <1>6 DEF NoSharedRegister
<1> QED
  BY <1>2, <1>5, <1>7

-----------------------------------------------------------------------------
(* The inductive invariant of functions with one range per register. *)

LEMMA InitMapsIInv ==
  ASSUME InitMaps, TypeOK, StraightLive
  PROVE  IInv
<1>1. MapsAgree
  BY ConstantsAssumption DEF InitMaps, MapsAgree
<1>2. NoSharedRegister
  BY DEF InitMaps, NoSharedRegister
<1>3. WaitsOnce
  BY DEF InitMaps, WaitsOnce, Entry, Status, New
<1> QED
  BY <1>1, <1>2, <1>3 DEF IInv, Straight

LEMMA InitIInv ==
  ASSUME OneRangeEach
  PROVE  Init => IInv
<1> SUFFICES ASSUME Init PROVE IInv
  OBVIOUS
<1>1. PICK in \in Inputs : live = in.live
  BY DEF Init
<1>2. ASSUME NEW v \in Vreg
      PROVE  /\ live[v] \in RangeList /\ Len(live[v]) = 1
             /\ live[v][1].begin <= live[v][1].end
  <2>1. WellFormedList(live[v]) /\ Len(live[v]) = 1
    BY <1>1, InputsAssumption DEF OneRangeEach
  <2>2. 1 \in DOMAIN live[v]
    BY <2>1, LenProperties DEF WellFormedList, RangeList
  <2> QED
    BY <2>1, <2>2 DEF WellFormedList
<1>3. StraightLive
  BY <1>2 DEF StraightLive
<1> QED
  BY <1>3, InitTypeOK, InitMapsIInv DEF Init

LEMMA NextStraight == IInv /\ [Next]_vars => Straight'
<1> SUFFICES ASSUME IInv, [Next]_vars PROVE Straight'
  OBVIOUS
<1>1. TypeOK'
  BY NextTypeOK DEF IInv, Straight
<1>2. ASSUME NEW e \in Entry, Assign(e) PROVE StraightLive' /\ MapsAgree' /\ NoSharedRegister'
  <2>1. e[1] \in Vreg
    BY DEF Entry
  <2> QED
    BY <1>2, <2>1, AssignPlaces, PlacedKeepsMaps DEF IInv
<1>3. ASSUME NEW e \in Entry, NEW r \in Reg, Evict(e, r)
      PROVE  StraightLive' /\ MapsAgree' /\ NoSharedRegister'
  <2>1. e[1] \in Vreg
    BY DEF Entry
  <2> QED
    BY <1>3, <2>1, EvictPlaces, PlacedKeepsMaps DEF IInv
<1>4. ASSUME UNCHANGED <<live, alloc, occupied, occRanges>>
      PROVE  StraightLive' /\ MapsAgree' /\ NoSharedRegister'
  BY <1>4 DEF IInv, Straight, StraightLive, MapsAgree, NoSharedRegister, RangesOf, OccRange
<1>5. ASSUME NEW e \in Entry, GiveUp(e) \/ TrySplit(e) \/ Spill(e)
      PROVE  UNCHANGED <<live, alloc, occupied, occRanges>>
  BY <1>5 DEF GiveUp, TrySplit, Spill, input, places
<1>6. ASSUME RewriteOperands \/ UNCHANGED vars
      PROVE  UNCHANGED <<live, alloc, occupied, occRanges>>
  BY <1>6 DEF RewriteOperands, input, places, vars
<1> QED
  BY <1>1, <1>2, <1>3, <1>4, <1>5, <1>6 DEF Next, Terminated, Straight

(* Popping e leaves nothing of its virtual register in the queue. *)
LEMMA PoppedQueue ==
  ASSUME TypeOK, WaitsOnce, NEW e \in Entry, OnTop(e)
  PROVE  /\ Popped(e) \in [Entry -> Nat]
         /\ \A s \in Status : Popped(e)[<<e[1], s>>] = 0
         /\ \A v \in Vreg, s \in Status : v # e[1] => Popped(e)[<<v, s>>] = queue[<<v, s>>]
<1>1. /\ e[1] \in Vreg /\ e = <<e[1], status[e[1]]>> /\ status[e[1]] \in Status
      /\ \A s \in Status : queue[<<e[1], s>>] = (IF s = status[e[1]] THEN 1 ELSE 0)
  BY TopWaits
<1>2. queue \in [Entry -> Nat] /\ \A v \in Vreg, s \in Status : <<v, s>> \in Entry
  BY DEF TypeOK, Entry
<1>3. queue[e] = 1
  BY <1>1
<1>4. Popped(e) = [queue EXCEPT ![e] = 0]
  BY <1>3 DEF Popped
<1> QED
  BY <1>1, <1>2, <1>4

LEMMA NextWaitsOnce == IInv /\ [Next]_vars => WaitsOnce'
<1> SUFFICES ASSUME IInv, [Next]_vars PROVE WaitsOnce'
  OBVIOUS
<1>0. TypeOK /\ WaitsOnce /\ TypeOK'
  BY NextTypeOK DEF IInv, Straight
<1>a. \A v \in Vreg, s \in Status : <<v, s>> \in Entry
  BY DEF Entry
<1>1. ASSUME NEW e \in Entry, Assign(e) PROVE WaitsOnce'
  <2>1. OnTop(e) /\ queue' = Popped(e) /\ slot' = slot
    BY <1>1 DEF Assign, Pop, memory
  <2>2. PICK r \in Reg : alloc' = [alloc EXCEPT ![e[1]] = r]
    BY <1>1, AssignPlaces
  <2>3. e[1] \in Vreg /\ slot[e[1]] = NoSlot
    BY <1>0, <2>1, TopWaits
  <2>4. \A v \in Vreg : v # e[1] => status'[v] = status[v]
    BY <1>0, <1>1 DEF Assign, TypeOK
  <2>5. r # NoReg /\ alloc \in [Vreg -> Reg \cup {NoReg}]
    BY <1>0, ConstantsAssumption DEF TypeOK
  <2> QED
    BY <1>0, <2>1, <2>2, <2>3, <2>4, <2>5, PoppedQueue DEF WaitsOnce
<1>2. ASSUME NEW e \in Entry, NEW r \in Reg, Evict(e, r) PROVE WaitsOnce'
  <2> DEFINE v == e[1]
             C == Clashing(v, r)
  <2>1. OnTop(e) /\ slot' = slot /\ status' = status
    BY <1>2 DEF Evict, Pop, memory
  <2>2. v \in Vreg /\ alloc[v] = NoReg /\ slot[v] = NoSlot
    BY <1>0, <2>1, TopWaits
  <2>3. /\ queue' = [f \in Entry |-> IF f[1] \in C /\ f[2] = status[f[1]]
                                     THEN Popped(e)[f] + 1 ELSE Popped(e)[f]]
        /\ alloc' = [u \in Vreg |-> IF u = v THEN r
                                    ELSE IF u \in C THEN NoReg ELSE alloc[u]]
    BY <1>2, EvictPlaces DEF Evict, Requeued, Placed
  <2>4. r # NoReg
    BY ConstantsAssumption
  <2>5. \A s \in Status : Popped(e)[<<v, s>>] = 0
    BY <1>0, <2>1, PoppedQueue
  <2>6. \A u \in Vreg, s \in Status : u # v => Popped(e)[<<u, s>>] = queue[<<u, s>>]
    BY <1>0, <2>1, PoppedQueue
  <2>7. \A u \in C : u # v /\ alloc[u] = r /\ slot[u] = NoSlot
                     /\ \A s \in Status : queue[<<u, s>>] = 0
    BY <1>0, <2>2, <2>4 DEF Clashing, WaitsOnce
  <2>8. \A u \in Vreg, s \in Status :
          queue'[<<u, s>>] = IF u \in C /\ s = status[u]
                             THEN Popped(e)[<<u, s>>] + 1 ELSE Popped(e)[<<u, s>>]
    BY <1>a, <2>3
  <2> HIDE DEF v, C
  <2>9. ASSUME NEW u \in Vreg
        PROVE  \/ /\ \A s \in Status : queue'[<<u, s>>] = 0
                  /\ (alloc'[u] = NoReg) # (slot'[u] = NoSlot)
               \/ /\ \A s \in Status : queue'[<<u, s>>] = (IF s = status'[u] THEN 1 ELSE 0)
                  /\ alloc'[u] = NoReg /\ slot'[u] = NoSlot
    <3>1. CASE u = v
      BY <2>1, <2>2, <2>3, <2>4, <2>5, <2>7, <2>8, <3>1
    <3>2. CASE u \in C
      BY <2>1, <2>3, <2>6, <2>7, <2>8, <3>2
    <3>3. CASE u # v /\ u \notin C
      <4>1. \A s \in Status : queue'[<<u, s>>] = queue[<<u, s>>]
        BY <2>6, <2>8, <3>3
      <4>2. alloc'[u] = alloc[u] /\ slot'[u] = slot[u] /\ status'[u] = status[u]
        BY <2>1, <2>3, <3>3
      <4> QED
        BY <1>0, <4>1, <4>2 DEF WaitsOnce
    <3> QED
      BY <3>1, <3>2, <3>3
  <2> QED
    BY <2>9 DEF WaitsOnce
<1>3. ASSUME NEW e \in Entry, NEW s \in {Split, Spilling},
             OnTop(e), status' = [status EXCEPT ![e[1]] = s],
             queue' = [Popped(e) EXCEPT ![<<e[1], s>>] = @ + 1],
             UNCHANGED <<alloc, slot>>
      PROVE  WaitsOnce'
  <2>1. e[1] \in Vreg /\ alloc[e[1]] = NoReg /\ slot[e[1]] = NoSlot
    BY <1>0, <1>3, TopWaits
  <2>2. Popped(e) \in [Entry -> Nat]
    BY <1>0, <1>3, PoppedQueue
  <2>3. s \in Status /\ status \in [Vreg -> Status]
    BY <1>0 DEF TypeOK, Status
  <2>4. \A t \in Status : queue'[<<e[1], t>>] = IF t = s THEN 1 ELSE 0
    BY <1>0, <1>3, <1>a, <2>1, <2>2, <2>3, PoppedQueue
  <2>5. \A u \in Vreg, t \in Status : u # e[1] => queue'[<<u, t>>] = queue[<<u, t>>]
    BY <1>0, <1>3, <1>a, <2>1, <2>2, <2>3, PoppedQueue
  <2> QED
    BY <1>0, <1>3, <2>1, <2>3, <2>4, <2>5 DEF WaitsOnce
<1>4. ASSUME NEW e \in Entry, GiveUp(e) PROVE WaitsOnce'
  BY <1>3, <1>4 DEF GiveUp, Pop, places, memory
<1>5. ASSUME NEW e \in Entry, TrySplit(e) PROVE WaitsOnce'
  BY <1>3, <1>5 DEF TrySplit, Pop, places, memory
<1>6. ASSUME NEW e \in Entry, Spill(e) PROVE WaitsOnce'
  <2>1. OnTop(e) /\ queue' = Popped(e) /\ alloc' = alloc /\ status' = status
    BY <1>6 DEF Spill, Pop, places
  <2>2. e[1] \in Vreg /\ alloc[e[1]] = NoReg /\ slot[e[1]] = NoSlot
    BY <1>0, <2>1, TopWaits
  <2>3. slot' = [slot EXCEPT ![e[1]] = frame]
    BY <1>6, <2>2 DEF Spill
  <2>4. frame # NoSlot /\ slot \in [Vreg -> Nat \cup {NoSlot}]
    BY <1>0 DEF TypeOK, NoSlot
  <2> QED
    BY <1>0, <2>1, <2>2, <2>3, <2>4, PoppedQueue DEF WaitsOnce
<1>7. ASSUME UNCHANGED <<queue, status, alloc, slot>> PROVE WaitsOnce'
  BY <1>0, <1>7 DEF WaitsOnce
<1>8. ASSUME RewriteOperands \/ UNCHANGED vars PROVE UNCHANGED <<queue, status, alloc, slot>>
  BY <1>8 DEF RewriteOperands, places, memory, vars
<1> QED
  BY <1>1, <1>2, <1>4, <1>5, <1>6, <1>7, <1>8 DEF Next, Terminated

LEMMA InvariantHolds ==
  ASSUME OneRangeEach
  PROVE  Spec => []IInv
<1>1. Init => IInv
  BY InitIInv
<1>2. IInv /\ [Next]_vars => IInv'
  BY NextStraight, NextWaitsOnce DEF IInv
<1> QED
  BY <1>1, <1>2, PTL DEF Spec

-----------------------------------------------------------------------------
(* No two virtual registers that are live at the same time are ever in the *)
(* same register, through any sequence of assignments and evictions of     *)
(* try_allocate, if every virtual register has one live range.             *)
THEOREM NoSharedRegisterCorrect ==
  ASSUME OneRangeEach
  PROVE  Spec => []NoSharedRegister
<1>1. IInv => NoSharedRegister
  BY DEF IInv, Straight
<1> QED
  BY <1>1, InvariantHolds, PTL

(* Under the same condition occupied_map and occupied_range_map say the    *)
(* same as alloc_map.                                                      *)
THEOREM MapsAgreeCorrect ==
  ASSUME OneRangeEach
  PROVE  Spec => []MapsAgree
<1>1. IInv => MapsAgree
  BY DEF IInv, Straight
<1> QED
  BY <1>1, InvariantHolds, PTL

(* Under the same condition no virtual register is lost or queued twice.   *)
THEOREM WaitsOnceCorrect ==
  ASSUME OneRangeEach
  PROVE  Spec => []WaitsOnce
<1>1. IInv => WaitsOnce
  BY DEF IInv
<1> QED
  BY <1>1, InvariantHolds, PTL

LEMMA NoneWaits ==
  ASSUME TypeOK, WaitsOnce, Waiting = {}
  PROVE  \A v \in Vreg : (alloc[v] = NoReg) # (slot[v] = NoSlot)
<1> SUFFICES ASSUME NEW v \in Vreg PROVE (alloc[v] = NoReg) # (slot[v] = NoSlot)
  OBVIOUS
<1>1. status[v] \in Status /\ <<v, status[v]>> \in Entry
  BY DEF TypeOK, Entry
<1>2. ~(queue[<<v, status[v]>>] > 0)
  BY <1>1 DEF Waiting
<1>3. ~(\A s \in Status : queue[<<v, s>>] = (IF s = status[v] THEN 1 ELSE 0))
  BY <1>1, <1>2
<1> QED
  BY <1>3, Zenon DEF WaitsOnce

(* Under the same condition every virtual register has exactly one home    *)
(* when the operands have been rewritten.                                  *)
THEOREM AllPlacedCorrect ==
  ASSUME OneRangeEach
  PROVE  Spec => []AllPlaced
<1>1. Init => AllPlaced
  BY DEF Init, InitMaps, AllPlaced
<1>2. IInv /\ AllPlaced /\ [Next]_vars => AllPlaced'
  <2> SUFFICES ASSUME IInv, AllPlaced, [Next]_vars PROVE AllPlaced'
    OBVIOUS
  <2>1. CASE RewriteOperands
    <3>1. Waiting = {}
      BY <2>1 DEF RewriteOperands
    <3>2. \A v \in Vreg : (alloc[v] = NoReg) # (slot[v] = NoSlot)
      BY <3>1, NoneWaits DEF IInv, Straight
    <3> QED
      BY <2>1, <3>2 DEF RewriteOperands, places, memory, AllPlaced
  <2>2. CASE UNCHANGED vars
    BY <2>2 DEF vars, AllPlaced
  <2>3. ASSUME ~RewriteOperands, ~UNCHANGED vars PROVE phase' = "allocate"
    BY <2>3 DEF Next, Terminated, Assign, Evict, GiveUp, TrySplit, Spill, Pop
  <2> QED
    BY <2>1, <2>2, <2>3 DEF AllPlaced
<1> QED
  BY <1>1, <1>2, InvariantHolds, PTL DEF Spec

LEMMA SpilledStays ==
  ASSUME IInv, [Next]_vars, NEW v \in Vreg, slot[v] # NoSlot
  PROVE  slot'[v] = slot[v] /\ alloc'[v] = NoReg
<1>0. TypeOK /\ WaitsOnce
  BY DEF IInv, Straight
<1>1. alloc[v] = NoReg
  BY <1>0 DEF WaitsOnce
<1>2. ASSUME NEW e \in Entry, Assign(e) PROVE slot'[v] = slot[v] /\ alloc'[v] = NoReg
  <2>1. OnTop(e) /\ slot' = slot
    BY <1>2 DEF Assign, Pop, memory
  <2>2. e[1] # v
    BY <1>0, <2>1, TopWaits
  <2> QED
    BY <1>0, <1>1, <1>2, <2>1, <2>2 DEF Assign, TypeOK
<1>3. ASSUME NEW e \in Entry, NEW r \in Reg, Evict(e, r)
      PROVE  slot'[v] = slot[v] /\ alloc'[v] = NoReg
  <2>1. OnTop(e) /\ slot' = slot
    BY <1>3 DEF Evict, Pop, memory
  <2>2. e[1] # v
    BY <1>0, <2>1, TopWaits
  <2> QED
    BY <1>1, <1>3, <2>1, <2>2 DEF Evict
<1>4. ASSUME NEW e \in Entry, Spill(e) PROVE slot'[v] = slot[v] /\ alloc'[v] = NoReg
  BY <1>0, <1>1, <1>4 DEF Spill, places, memory, TypeOK
<1>5. ASSUME UNCHANGED <<alloc, slot>> PROVE slot'[v] = slot[v] /\ alloc'[v] = NoReg
  BY <1>1, <1>5
<1>6. ASSUME NEW e \in Entry, GiveUp(e) \/ TrySplit(e) PROVE UNCHANGED <<alloc, slot>>
  BY <1>6 DEF GiveUp, TrySplit, places, memory
<1>7. ASSUME RewriteOperands \/ UNCHANGED vars PROVE UNCHANGED <<alloc, slot>>
  BY <1>7 DEF RewriteOperands, places, memory, vars
<1> QED
  BY <1>2, <1>3, <1>4, <1>5, <1>6, <1>7 DEF Next, Terminated

(* Under the same condition a spilled virtual register keeps its slot and  *)
(* never gets a register again.                                            *)
THEOREM SpillFinal ==
  ASSUME OneRangeEach
  PROVE  Spec => SpillIsFinal
<1>1. IInv /\ [Next]_vars =>
        [\A v \in Vreg : slot[v] # NoSlot => slot'[v] = slot[v] /\ alloc'[v] = NoReg]_vars
  BY SpilledStays
<1> QED
  BY <1>1, InvariantHolds, PTL DEF Spec, SpillIsFinal

-----------------------------------------------------------------------------
(* Refinement of Allocation. *)

LEMMA InitRefines == Init => Abstract!Init
BY ConstantsAssumption DEF Init, InitMaps, Abstract!Init, Home

LEMMA PlacedRefines ==
  ASSUME IInv, NEW v \in Vreg, NEW r \in Reg, Placed(v, r),
         phase = "allocate", slot[v] = NoSlot, UNCHANGED <<slot, phase>>
  PROVE  Abstract!Give(v, r)
<1> DEFINE C == Clashing(v, r)
<1>1. /\ alloc[v] = NoReg /\ live' = live
      /\ alloc' = [u \in Vreg |-> IF u = v THEN r
                                  ELSE IF u \in C THEN NoReg ELSE alloc[u]]
  BY DEF Placed
<1>2. r # NoReg /\ r # InMemory
  BY ConstantsAssumption
<1>3. \A u \in Vreg : alloc[u] = r => slot[u] = NoSlot
  BY <1>2 DEF IInv, WaitsOnce
<1>4. \A u \in Vreg : Home[u] = r <=> alloc[u] = r
  BY <1>2 DEF Home
<1>5. Abstract!Holders(v, r) = C
  <2>1. \A a, b : Abstract!ListsConflict(a, b) <=> ListsConflict(a, b)
    BY DEF Abstract!ListsConflict, ListsConflict, Abstract!Conflict, Conflict
  <2> QED
    BY <1>1, <1>2, <1>4, <2>1 DEF Abstract!Holders, Abstract!Clash, Clashing
<1>6. Home[v] = NoReg
  BY <1>1 DEF Home
<1>7. Home' = [u \in Vreg |-> IF u = v THEN r
                             ELSE IF u \in C THEN NoReg ELSE Home[u]]
  <2>1. \A u \in C : slot[u] = NoSlot
    BY <1>3 DEF Clashing
  <2> HIDE DEF C
  <2> QED
    BY <1>1, <1>2, <2>1 DEF Home
<1> QED
  BY <1>1, <1>5, <1>6, <1>7 DEF Abstract!Give

LEMMA NextRefines == IInv /\ [Next]_vars => [Abstract!Next]_(Abstract!vars)
<1> SUFFICES ASSUME IInv, [Next]_vars
             PROVE  Abstract!Next \/ UNCHANGED <<live, Home, phase = "done">>
  BY DEF Abstract!vars
<1>0. TypeOK /\ WaitsOnce
  BY DEF IInv, Straight
<1>1. ASSUME NEW e \in Entry, Assign(e) PROVE Abstract!Next
  <2>1. OnTop(e) /\ phase = "allocate" /\ UNCHANGED <<slot, phase>>
    BY <1>1 DEF Assign, Pop, memory
  <2>2. e[1] \in Vreg /\ slot[e[1]] = NoSlot
    BY <1>0, <2>1, TopWaits
  <2> QED
    BY <1>1, <2>1, <2>2, AssignPlaces, PlacedRefines DEF Abstract!Next
<1>2. ASSUME NEW e \in Entry, NEW r \in Reg, Evict(e, r) PROVE Abstract!Next
  <2>1. OnTop(e) /\ phase = "allocate" /\ UNCHANGED <<slot, phase>>
    BY <1>2 DEF Evict, Pop, memory
  <2>2. e[1] \in Vreg /\ slot[e[1]] = NoSlot
    BY <1>0, <2>1, TopWaits
  <2> QED
    BY <1>2, <2>1, <2>2, EvictPlaces, PlacedRefines DEF Abstract!Next
<1>3. ASSUME NEW e \in Entry, Spill(e) PROVE Abstract!Next
  <2>1. OnTop(e) /\ phase = "allocate" /\ UNCHANGED <<live, alloc, phase>>
    BY <1>3 DEF Spill, Pop, input, places
  <2>2. e[1] \in Vreg /\ alloc[e[1]] = NoReg /\ slot[e[1]] = NoSlot
    BY <1>0, <2>1, TopWaits
  <2>3. slot' = [slot EXCEPT ![e[1]] = frame] /\ frame # NoSlot
    BY <1>0, <1>3, <2>2 DEF Spill, TypeOK, NoSlot
  <2>4. Home[e[1]] = NoReg
    BY <2>2 DEF Home
  <2>5. Home' = [Home EXCEPT ![e[1]] = InMemory]
    BY <1>0, <2>1, <2>2, <2>3 DEF Home, TypeOK
  <2> QED
    BY <2>1, <2>2, <2>4, <2>5 DEF Abstract!Next, Abstract!ToMemory
<1>4. ASSUME RewriteOperands PROVE Abstract!Next
  <2>1. phase = "allocate" /\ phase' = "done" /\ UNCHANGED <<live, alloc, slot>>
    BY <1>4 DEF RewriteOperands, input, places, memory
  <2>2. Waiting = {}
    BY <1>4 DEF RewriteOperands
  <2>3. \A v \in Vreg : (alloc[v] = NoReg) # (slot[v] = NoSlot)
    BY <1>0, <2>2, NoneWaits
  <2>4. \A v \in Vreg : Home[v] # NoReg
    BY <2>3, ConstantsAssumption DEF Home
  <2>5. Home' = Home
    BY <2>1 DEF Home
  <2> QED
    BY <2>1, <2>4, <2>5 DEF Abstract!Next, Abstract!Close
<1>5. ASSUME UNCHANGED <<live, alloc, slot, phase>>
      PROVE  UNCHANGED <<live, Home, phase = "done">>
  BY <1>5 DEF Home
<1>6. ASSUME NEW e \in Entry, GiveUp(e) \/ TrySplit(e)
      PROVE  UNCHANGED <<live, alloc, slot, phase>>
  BY <1>6 DEF GiveUp, TrySplit, input, places, memory
<1>7. ASSUME UNCHANGED vars PROVE UNCHANGED <<live, alloc, slot, phase>>
  BY <1>7 DEF vars
<1> QED
  BY <1>1, <1>2, <1>3, <1>4, <1>5, <1>6, <1>7 DEF Next, Terminated

(* Under the same condition the allocator implements the safety part of    *)
(* Allocation: every step gives one home and displaces exactly the         *)
(* clashing holders of the register, or changes no home.                   *)
THEOREM RefinesAllocation ==
  ASSUME OneRangeEach
  PROVE  Spec => Abstract!Safety
BY InitRefines, NextRefines, InvariantHolds, PTL DEF Spec, Abstract!Safety
=============================================================================
