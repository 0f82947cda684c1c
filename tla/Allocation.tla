----------------------------- MODULE Allocation -----------------------------
(***************************************************************************)
(* What register allocation of one function promises, without its maps,    *)
(* queues and costs: every virtual register is given a home, either a      *)
(* register that no clashing virtual register holds, or memory.  Giving a  *)
(* register takes it away from the clashing holders, and from no one else; *)
(* memory is never taken away again.                                       *)
(***************************************************************************)
EXTENDS LiveRange

CONSTANTS
  Vreg,     \* virtual registers
  Reg,      \* allocatable registers
  Pending,  \* not placed yet
  Memory    \* placed in the stack frame

VARIABLES
  live,     \* the live ranges of every virtual register, fixed at the start
  home,     \* where each virtual register lives
  closed    \* whether the code has been rewritten to the homes

vars == <<live, home, closed>>

Clash(u, v) == ListsConflict(live[u], live[v])

Holders(v, r) == {u \in Vreg \ {v} : home[u] = r /\ Clash(v, u)}

Init ==
  /\ home = [v \in Vreg |-> Pending]
  /\ closed = FALSE

Give(v, r) ==
  /\ ~closed /\ home[v] = Pending
  /\ home' = [u \in Vreg |-> IF u = v THEN r
                             ELSE IF u \in Holders(v, r) THEN Pending ELSE home[u]]
  /\ UNCHANGED <<live, closed>>

ToMemory(v) ==
  /\ ~closed /\ home[v] = Pending
  /\ home' = [home EXCEPT ![v] = Memory]
  /\ UNCHANGED <<live, closed>>

Close ==
  /\ ~closed /\ \A v \in Vreg : home[v] # Pending
  /\ closed' = TRUE
  /\ UNCHANGED <<live, home>>

Next ==
  \/ \E v \in Vreg, r \in Reg : Give(v, r)
  \/ \E v \in Vreg : ToMemory(v)
  \/ Close

Safety == Init /\ [][Next]_vars

(* The promise includes that allocation ends. *)
Spec == Safety /\ <>closed
=============================================================================
