----------------------------- MODULE StackFrame -----------------------------
(***************************************************************************)
(* The stack frames and calls of the generated code (src/src/ir/           *)
(* codegen.cpp): what the instructions of codegen_function_prolouge,       *)
(* codegen_function_epilouge and the lowering of a call do when they run.  *)
(*                                                                         *)
(* A function is described by its shape: the classes of its parameters,    *)
(* the sizes of its local variables, the number of its spill slots and the *)
(* callee-saved registers the allocator gave it.  From the lowest address  *)
(* its frame holds the locals, the spill slots, padding, the saved         *)
(* registers and the return address.  The arguments that do not fit the    *)
(* argument registers lie below the frame of the caller.                   *)
(*                                                                         *)
(* Memory is a function of addresses that are multiples of 4; a value of 8 *)
(* bytes is in both of its cells.                                          *)
(***************************************************************************)
EXTENDS Integers, FiniteSets, SequencesExt

CONSTANTS
  Function,       \* the functions of the program
  Shapes,         \* the shapes they may have
  CalleeSaved,    \* REG_CALLEE_SAVED
  SavedIndex,     \* their order in a std::set
  S0,             \* the frame pointer, one of them
  RA,             \* the return address register
  ArgRegs,        \* argument registers of each class: 8 in the code
  StackTop,       \* where the stack starts
  MaxDepth        \* bound: calls nested deeper are cut off

Class == {"general", "float"}
ArgReg(class, k) == <<class, k>>
Register == CalleeSaved \cup {RA} \cup {ArgReg(c, k) : c \in Class, k \in 1 .. ArgRegs}

(* A local variable is one or more words of 4 bytes. *)
ShapeType ==
  [params : Seq(Class), allocas : Seq({n \in Nat : n > 0 /\ n % 4 = 0}), spills : Nat,
   saved : SUBSET (CalleeSaved \ {S0})]

ASSUME ConstantsAssumption ==
  /\ IsFiniteSet(CalleeSaved)
  /\ SavedIndex \in [CalleeSaved -> Nat] /\ IsInjective(SavedIndex)
  /\ S0 \in CalleeSaved /\ RA \notin CalleeSaved
  /\ \A c \in Class, k \in 1 .. ArgRegs : ArgReg(c, k) \notin CalleeSaved \cup {RA}
  /\ ArgRegs \in Nat /\ StackTop \in Nat /\ StackTop % 16 = 0
  /\ Shapes \subseteq ShapeType

VARIABLES
  shape,  \* the shape of each function
  sp,     \* the stack pointer
  reg,    \* the other registers
  mem,    \* the stack
  calls,  \* the active calls, the last one is running
  pc      \* what it does next: "enter", "start", "body" or "leave"

vars == <<shape, sp, reg, mem, calls, pc>>

Depth == Len(calls)
Running == Last(calls)
Shape == shape[Running.func]

-----------------------------------------------------------------------------
(* Layout of the frame, from codegen_function and the allocator's spills.  *)

(* Alloca: a local variable lies at the frame size of the moment, which    *)
(* grows by its size.                                                      *)
Offsets(sizes) ==
  LET offset[k \in 0 .. Len(sizes)] == IF k = 0 THEN 0 ELSE offset[k - 1] + sizes[k]
  IN offset
AllocaOffset(s, i) == Offsets(s.allocas)[i - 1]
AllocasSize(s) == Offsets(s.allocas)[Len(s.allocas)]
SpillFromZero(s, i) == 8 * (i - 1)
SpillOffset(s, i) == AllocasSize(s) + 8 * (i - 1)
LocalSize(s) == AllocasSize(s) + 8 * s.spills

(* The prologue adds S0 to the saved registers. *)
SavedSet(s) == s.saved \cup {S0}

(* The turn of register r when the set is walked. *)
SavedPlace(s, r) == Cardinality({q \in SavedSet(s) : SavedIndex[q] <= SavedIndex[r]})

StackFrameSize(s) == LocalSize(s) + 8 * (1 + Cardinality(SavedSet(s)))

Unaligned(n) == n
Aligned(n) == ((n + 15) \div 16) * 16

FrameSize(s) == Aligned(StackFrameSize(s))

ReturnAddressOffset(s) == FrameSize(s) - 8
SavedOffset(s, r) == FrameSize(s) - 8 - 8 * SavedPlace(s, r)

-----------------------------------------------------------------------------
(* Where arguments travel: the caller's loop over the arguments and the    *)
(* callee's loop over the parameters each count the registers they use.    *)

OfClass(params, k) == Cardinality({j \in 1 .. k : params[j] = params[k]})

OnStack(params) == {k \in DOMAIN params : OfClass(params, k) > ArgRegs}
StackPlace(params, k) == Cardinality({j \in OnStack(params) : j <= k})
StackSize(params) == 8 * Cardinality(OnStack(params))

(* The place of a parameter that codegen_function reads relative to S0. *)
LastFirst(params, k) == Cardinality({j \in OnStack(params) : j >= k})
ParamPlace(params, k) == Cardinality({j \in OnStack(params) : j <= k})

-----------------------------------------------------------------------------
(* Memory. *)

Cells == {4 * i : i \in 0 .. (StackTop \div 4) - 1}

Garbage == [garbage |-> TRUE]

Get8(a) == IF mem[a] = mem[a + 4] THEN mem[a] ELSE Garbage

(* Values of 8 bytes, v[k] at the address at[k]; no two overlap. *)
Written(m, at, v) ==
  [a \in DOMAIN m |->
     IF \E k \in DOMAIN at : a \in {at[k], at[k] + 4}
     THEN v[CHOOSE k \in DOMAIN at : a \in {at[k], at[k] + 4}]
     ELSE m[a]]

ArgumentValue(d, k) == [argument |-> <<d, k>>]
LocalValue(d, i) == [local |-> <<d, i>>]
SpillValue(d, i) == [spill |-> <<d, i>>]
RegisterValue(d, r) == [register |-> <<d, r>>]
Address(n) == [address |-> n]
ReturnValue(d) == [return |-> d]

-----------------------------------------------------------------------------
(* The start-up code calls the first function without arguments. *)
Init ==
  /\ \E f \in Function :
       /\ shape \in [Function -> Shapes]
       /\ shape[f].params = <<>>
       /\ calls = <<[func |-> f, args |-> <<>>, sp |-> StackTop,
                     saved |-> [r \in CalleeSaved |-> RegisterValue(0, r)],
                     worked |-> FALSE]>>
  /\ sp = StackTop
  /\ reg = [r \in Register |->
              IF r \in CalleeSaved THEN RegisterValue(0, r)
              ELSE IF r = RA THEN ReturnValue(0) ELSE Garbage]
  /\ mem = [a \in Cells |-> Garbage]
  /\ pc = "enter"

(* codegen_function_prolouge: the frame is opened, the return address and  *)
(* the saved registers are stored, the frame pointer is set to its end.    *)
Prologue ==
  LET size == FrameSize(Shape)
      low == sp - size
      kept == SavedSet(Shape) \cup {RA}
  IN /\ pc = "enter"
     /\ size <= sp
     /\ sp' = low
     /\ mem' = Written(mem,
                       [r \in kept |-> low + (IF r = RA THEN ReturnAddressOffset(Shape)
                                              ELSE SavedOffset(Shape, r))],
                       [r \in kept |-> reg[r]])
     /\ reg' = [reg EXCEPT ![S0] = Address(low + size)]
     /\ pc' = "start"
     /\ UNCHANGED <<shape, calls>>

(* The value of parameter k in the code of the running function. *)
Incoming(k) ==
  LET params == Shape.params
  IN IF k \in OnStack(params) THEN Get8(reg[S0].address + 8 * (ParamPlace(params, k) - 1))
     ELSE reg[ArgReg(params[k], OfClass(params, k))]

(* The body writes every local variable, every spill slot and every        *)
(* callee-saved register that it was given, and any argument register.     *)
LocalCells(s, i) == {AllocaOffset(s, i) + 4 * w : w \in 0 .. (s.allocas[i] \div 4) - 1}

Body ==
  LET s == Shape
      spilled == Written(mem, [i \in 1 .. s.spills |-> sp + SpillOffset(s, i)],
                         [i \in 1 .. s.spills |-> SpillValue(Depth, i)])
  IN /\ pc = "start"
     /\ mem' = [a \in DOMAIN mem |->
                  IF \E i \in DOMAIN s.allocas : a - sp \in LocalCells(s, i)
                  THEN LocalValue(Depth, CHOOSE i \in DOMAIN s.allocas : a - sp \in LocalCells(s, i))
                  ELSE spilled[a]]
     /\ reg' = [r \in Register |->
                  IF r \in s.saved THEN RegisterValue(Depth, r)
                  ELSE IF r \in CalleeSaved \cup {RA} THEN reg[r] ELSE Garbage]
     /\ calls' = [calls EXCEPT ![Depth].worked = TRUE]
     /\ pc' = "body"
     /\ UNCHANGED <<shape, sp>>

(* Lowering of a call: arguments go to registers while there are any, the  *)
(* others below the stack pointer, which is then lowered to the first.     *)
Call(g) ==
  LET params == shape[g].params
      args == [k \in DOMAIN params |-> ArgumentValue(Depth, k)]
      low == sp - Aligned(StackSize(params))
      Travels(k, r) == k \notin OnStack(params) /\ r = ArgReg(params[k], OfClass(params, k))
  IN /\ pc = "body" /\ Depth < MaxDepth
     /\ low >= 0
     /\ mem' = Written(mem, [k \in OnStack(params) |-> low + 8 * (StackPlace(params, k) - 1)], args)
     /\ sp' = low
     /\ reg' = [r \in Register |->
                  IF r = RA THEN ReturnValue(Depth)
                  ELSE IF \E k \in DOMAIN params : Travels(k, r)
                  THEN args[CHOOSE k \in DOMAIN params : Travels(k, r)]
                  ELSE reg[r]]
     /\ calls' = Append(calls, [func |-> g, args |-> args, sp |-> low,
                                saved |-> [r \in CalleeSaved |-> reg[r]],
                                worked |-> FALSE])
     /\ pc' = "enter"
     /\ UNCHANGED shape

(* codegen_function_epilouge: everything is loaded back and the frame is   *)
(* closed, in front of the return of the last block.                       *)
Reversed(s, r) ==
  FrameSize(s) - 8 - 8 * Cardinality({q \in SavedSet(s) : SavedIndex[q] >= SavedIndex[r]})
RestoredFrom(s, r) == SavedOffset(s, r)

Epilogue ==
  LET s == Shape
  IN /\ pc = "body"
     /\ reg' = [r \in Register |->
                  IF r = RA THEN Get8(sp + ReturnAddressOffset(s))
                  ELSE IF r \in SavedSet(s) THEN Get8(sp + RestoredFrom(s, r))
                  ELSE reg[r]]
     /\ sp' = sp + FrameSize(s)
     /\ pc' = "leave"
     /\ UNCHANGED <<shape, mem, calls>>

(* The caller takes the stack arguments off again. *)
Return ==
  /\ pc = "leave" /\ Depth > 1
  /\ sp' = sp + Aligned(StackSize(Shape.params))
  /\ calls' = Front(calls)
  /\ pc' = "body"
  /\ UNCHANGED <<shape, reg, mem>>

Exit == pc = "leave" /\ Depth = 1 /\ UNCHANGED vars

Next == Prologue \/ Body \/ (\E g \in Function : Call(g)) \/ Epilogue \/ Return \/ Exit

Spec == Init /\ [][Next]_vars

-----------------------------------------------------------------------------
(* Properties. *)

(* The start of the frame of the d-th active call once it is open. *)
FrameStart(d) == calls[d].sp - FrameSize(shape[calls[d].func])

(* The registers are complete and the stack pointer is where the active    *)
(* calls say: at the arguments of the running call outside of its body, at *)
(* the start of its frame within.                                          *)
TypeOK ==
  /\ DOMAIN reg = Register
  /\ calls # <<>> /\ Depth <= MaxDepth
  /\ pc \in {"enter", "start", "body", "leave"}
  /\ sp \in 0 .. StackTop
  /\ sp = IF pc \in {"start", "body"} THEN FrameStart(Depth) ELSE Running.sp

(* When a function returns, the stack pointer, the return address and all  *)
(* callee-saved registers are what they were when it was called, whatever  *)
(* it and the functions it called did.                                     *)
CallerStateKept ==
  pc = "leave" =>
    /\ sp = Running.sp
    /\ reg[RA] = ReturnValue(Depth - 1)
    /\ \A r \in CalleeSaved : reg[r] = Running.saved[r]

(* A function reads as its k-th parameter what the caller passed as the    *)
(* k-th argument: both sides count registers and stack places alike.       *)
ArgumentsArrive ==
  pc = "start" => \A k \in DOMAIN Shape.params : Incoming(k) = Running.args[k]

(* The locals and spill slots of every active call keep what its body      *)
(* wrote while the calls it makes run: no part of one frame overlaps       *)
(* another part, another frame or the arguments of a call.                 *)
LocalsKept ==
  \A d \in DOMAIN calls : calls[d].worked /\ (d < Depth \/ pc = "body") =>
    LET s == shape[calls[d].func]
        start == FrameStart(d)
    IN /\ \A i \in 1 .. s.spills : Get8(start + SpillOffset(s, i)) = SpillValue(d, i)
       /\ \A i \in DOMAIN s.allocas :
            \A c \in LocalCells(s, i) : mem[start + c] = LocalValue(d, i)

(* The ABI wants the stack pointer on a multiple of 16 at every call. *)
StackAligned == pc \in {"enter", "body"} => sp % 16 = 0
=============================================================================
