----------------------------- MODULE MCRegAlloc -----------------------------
(***************************************************************************)
(* Small instance of RegAlloc: functions of one basic block with           *)
(* instructions 0..MaxInstr, as liveness analysis describes them.  Every   *)
(* virtual register is defined by an instruction of its own and live up to *)
(* its last use; the clobbered register is free, written by a call, or     *)
(* carries an argument from a move to a call; hints and coalescing pairs   *)
(* come from moves that the ranges allow.                                  *)
(***************************************************************************)
EXTENDS RegAlloc, TLC

CONSTANTS v1, v2, v3, a0, s1, sp, block, MaxInstr, MaxUses

MCVreg == {v1, v2, v3}
MCReg == {a0, s1}
MCOtherReg == {sp}
MCRegIndex == a0 :> 0 @@ s1 :> 1
MCBlock == {block}
MCBlockWeight == [b \in MCBlock |-> 1]
MCNone == {}
MCClobbered == {a0}
MCCalleeSaved == {s1}

Instr == 0 .. MaxInstr

OneRange(b, e, n) ==
  <<[begin |-> b, end |-> e, instruction_cnt |-> n, block_id |-> block]>>

(* A dead definition is one instruction long; otherwise the definition and *)
(* the uses are counted.                                                   *)
VregRanges ==
  {OneRange(b, b, 1) : b \in Instr}
    \cup {OneRange(p[1], p[2], n) : p \in {q \in Instr \X Instr : q[1] < q[2]},
                                    n \in 2 .. MaxUses}

FixedRanges ==
  {<<>>, OneRange(2, 2, 1), OneRange(1, 2, 2)}

(* The i-th virtual register is the i-th one defined. *)
VregLives ==
  {f \in [MCVreg -> VregRanges] :
     /\ f[v1][1].begin < f[v2][1].begin
     /\ f[v2][1].begin < f[v3][1].begin}

(* A move between v and a0 hints v at a0: it either defines a0 at the last *)
(* use of v, or defines v at the end of a0's range.                        *)
MovesWith(v, f, fixed) ==
  /\ fixed # <<>>
  /\ \/ fixed[1].begin = f[v][1].end
     \/ fixed[1].end = f[v][1].begin

HintsAllowed(f, fixed, h) ==
  /\ Cardinality({v \in MCVreg : h[v] # NoReg}) <= 1
  /\ \A v \in MCVreg : h[v] = a0 => MovesWith(v, f, fixed)

NoCoalesce == [v \in MCVreg |-> NoVreg]
Pair(u, v) == [NoCoalesce EXCEPT ![u] = v, ![v] = u]

(* v := u can stand where v begins and u is read. *)
CoalesceAllowed(f, c) ==
  \A u, v \in MCVreg : c[u] = v /\ f[u][1].begin < f[v][1].begin =>
    f[v][1].begin <= f[u][1].end

LiveMap(f, fixed) ==
  [x \in MCVreg \cup MCReg \cup MCOtherReg |->
     IF x \in MCVreg THEN f[x] ELSE IF x = a0 THEN fixed ELSE <<>>]

MCInputs ==
  {[live |-> LiveMap(q[1], q[2]), coalesce |-> q[3], hint |-> q[4], frame |-> 4] :
     q \in {q \in VregLives \X FixedRanges
                   \X {NoCoalesce, Pair(v1, v2), Pair(v2, v3)}
                   \X [MCVreg -> {NoReg, a0, sp}] :
              CoalesceAllowed(q[1], q[3]) /\ HintsAllowed(q[1], q[2], q[4])}}
=============================================================================
