----------------------------- MODULE LiveRange -----------------------------
(***************************************************************************)
(* Live ranges of the backend (include/backend/passes/liveness.h).         *)
(* A range covers the instruction numbers begin..end of one basic block    *)
(* and carries the number of instructions of that block that mention the   *)
(* operand.  The list of an operand holds at most a few ranges, sorted by  *)
(* begin: one for every block the operand is live in.                      *)
(***************************************************************************)
EXTENDS Naturals, Sequences

CONSTANT Block      \* basic block identifiers

RangeRecord == [begin : Nat, end : Nat, instruction_cnt : Nat, block_id : Block]

RangeList == Seq(RangeRecord)

(***************************************************************************)
(* Range::conflict: two ranges that only touch (one ends at the            *)
(* instruction where the other begins) do not conflict.                    *)
(***************************************************************************)
Conflict(a, b) ==
  \/ a.begin >= b.begin /\ a.begin < b.end
  \/ a.end > b.begin /\ a.end <= b.end
  \/ a.begin <= b.begin /\ a.end >= b.end

ListsConflict(s, t) ==
  \E i \in DOMAIN s, j \in DOMAIN t : Conflict(s[i], t[j])

WellFormedList(s) ==
  /\ s \in RangeList
  /\ Len(s) >= 1
  /\ \A i \in DOMAIN s : s[i].begin <= s[i].end
  /\ \A i \in DOMAIN s, j \in DOMAIN s : i < j => s[i].begin < s[j].begin
=============================================================================
