----------------------------- MODULE SpillCode -----------------------------
(***************************************************************************)
(* What RegAlloc::spill does to the instructions (second half of spill,    *)
(* src/src/backend/passes/regalloc.cpp): an instruction that uses the      *)
(* spilled operand gets a load into a temporary register before it, one    *)
(* that defines it a store from a temporary after it, and when the offset  *)
(* of the slot is no 12-bit immediate the address is built in a temporary. *)
(* RegAlloc.tla models when an operand is spilled and the slot it gets.    *)
(*                                                                         *)
(* The code is a straight line of instructions; what spill adds for one of *)
(* them stays with it, loads before it and stores after it.  Code          *)
(* generation defines every virtual register once, so an instruction lies  *)
(* in at most one range of an operand that it mentions, and the work lists *)
(* of spill hold exactly the instructions that mention the operand, once   *)
(* each.                                                                   *)
(***************************************************************************)
EXTENDS Integers, FiniteSets, SequencesExt

CONSTANTS
  Vreg,         \* virtual registers
  FloatVreg,    \* those of the float class
  Scratch,      \* the other registers the code mentions (T2 of code generation)
  T0, T1,       \* REG_SPILL_GENERAL
  FT0, FT1, FT2,\* REG_SPILL_FLOAT
  SP,           \* the stack pointer
  MaxImmediate, \* the largest offset check_itype_immediate accepts
  Programs      \* the instruction sequences that may be rewritten

SpillOne == <<T0>>
SpillGeneral == <<T0, T1>>
SpillFloat == <<FT0, FT1, FT2>>
Temps == {T0, T1, FT0, FT1, FT2}

(* What is taken when there is no temporary left. *)
NoTemp == "none"

ASSUME RegistersAssumption ==
  /\ IsInjective(<<T0, T1, FT0, FT1, FT2, SP, NoTemp>>)
  /\ (Vreg \cup Scratch) \cap (Temps \cup {SP, NoTemp}) = {}
  /\ Vreg \cap Scratch = {}
  /\ MaxImmediate \in Nat

Registers == Vreg \cup Scratch \cup Temps \cup {SP, NoTemp}

(* An instruction reads the registers of use and writes those of def; imm  *)
(* is the offset of a load or store and the value of li.  num tells the    *)
(* instructions of the program apart; those added by spill have number 0.  *)
Instr(op, num, def, use, imm) ==
  [op |-> op, num |-> num, def |-> def, use |-> use, imm |-> imm]

Li(rd, imm) == Instr("li", 0, <<rd>>, <<>>, imm)
Add(rd, rs1, rs2) == Instr("add", 0, <<rd>>, <<rs1, rs2>>, 0)
Load(rd, base, offset) == Instr("load", 0, <<rd>>, <<base>>, offset)
Store(base, rs, offset) == Instr("store", 0, <<>>, <<base, rs>>, offset)

Instruction ==
  [op : {"li", "add", "load", "store", "op"}, num : Nat, def : Seq(Registers),
   use : Seq(Registers), imm : Int]

ProgramInstr ==
  [op : {"op"}, num : Nat, def : Seq(Vreg \cup Scratch), use : Seq(Vreg \cup Scratch), imm : Int]

DefinedBy(c, v) == {i \in DOMAIN c : v \in ToSet(c[i].def)}
ReadBy(instr) == ToSet(instr.use) \cap Vreg
WrittenBy(instr) == ToSet(instr.def) \cap Vreg

(* At most two virtual registers are read and one is written, and every    *)
(* use follows the only definition.                                        *)
ASSUME ProgramsAssumption ==
  /\ Programs \subseteq Seq(ProgramInstr)
  /\ \A c \in Programs : \A i \in DOMAIN c :
       /\ c[i].num = i
       /\ \E v, w \in Vreg : ReadBy(c[i]) \subseteq {v, w}
       /\ \A v, w \in WrittenBy(c[i]) : v = w
       /\ \A v \in WrittenBy(c[i]) : DefinedBy(c, v) = {i}
       /\ \A v \in ReadBy(c[i]) : \E d \in DefinedBy(c, v) : d < i

VARIABLES
  source,   \* the code before any spill
  code,     \* the code now: each instruction with the loads and stores added for it
  slot,     \* operand_spill_map
  frame,    \* stack_frame_size
  usedTemp, \* used_temp_map, by instruction number
  failed    \* a temporary was wanted and none was left

vars == <<source, code, slot, frame, usedTemp, failed>>

NoSlot == -1
SlotSize == 8

FitsImmediate(offset) == offset <= MaxImmediate

-----------------------------------------------------------------------------
(* The first temporary of the list that the instruction does not use yet;  *)
(* past the end of the list the code throws.                               *)
FirstFree(temps, used) ==
  LET free == {k \in DOMAIN temps : temps[k] \notin used}
  IN IF free = {} THEN NoTemp ELSE temps[CHOOSE k \in free : \A j \in free : k <= j]

Replaced(s, v, r) == [k \in DOMAIN s |-> IF s[k] = v THEN r ELSE s[k]]

(* The temporaries a use of v takes in an instruction that already uses    *)
(* those in used: one for the value and, for a float in a distant slot,    *)
(* another one for the address.                                            *)
UseTemps(v, offset, used) ==
  IF v \notin FloatVreg
  THEN LET t == FirstFree(SpillGeneral, used) IN [value |-> t, address |-> t]
  ELSE [value |-> FirstFree(SpillFloat, used),
        address |-> IF FitsImmediate(offset) THEN SP
                    ELSE FirstFree(SpillGeneral, used)]

Loads(offset, temps) ==
  IF FitsImmediate(offset) THEN <<Load(temps.value, SP, offset)>>
  ELSE <<Li(temps.address, offset), Add(temps.address, SP, temps.address),
         Load(temps.value, temps.address, 0)>>

(* The temporary a definition of v goes through. *)
DefTemp(v, offset) ==
  IF v \in FloatVreg THEN FT0 ELSE IF FitsImmediate(offset) THEN T0 ELSE T1

Stores(v, offset) ==
  IF FitsImmediate(offset) THEN <<Store(SP, DefTemp(v, offset), offset)>>
  ELSE <<Li(T0, offset), Add(T0, SP, T0), Store(T0, DefTemp(v, offset), 0)>>

(* What becomes of one instruction when v goes to the slot at offset: new  *)
(* code is put next to it.                                                 *)
Alone(instr) == [loads |-> <<>>, instr |-> instr, stores |-> <<>>]

Expanded(e, v, offset, used) ==
  LET temps == UseTemps(v, offset, used)
  IN [loads |-> IF v \in ReadBy(e.instr) THEN e.loads \o Loads(offset, temps) ELSE e.loads,
      instr |-> [e.instr EXCEPT !.def = Replaced(@, v, DefTemp(v, offset)),
                                !.use = Replaced(@, v, temps.value)],
      stores |-> IF v \in WrittenBy(e.instr) THEN Stores(v, offset) \o e.stores ELSE e.stores]

TempsTaken(instr, v, offset, used) ==
  IF v \in ReadBy(instr)
  THEN LET temps == UseTemps(v, offset, used)
       IN {temps.value, temps.address} \ {SP}
  ELSE {}

-----------------------------------------------------------------------------
Init ==
  /\ source \in Programs
  /\ code = [n \in DOMAIN source |-> Alone(source[n])]
  /\ slot = [v \in Vreg |-> NoSlot]
  /\ frame = 0
  /\ usedTemp = [n \in DOMAIN source |-> {}]
  /\ failed = FALSE

(* used_temp_map remembers what earlier spills took for an instruction. *)
Forgotten(v, offset) == usedTemp
Remembered(v, offset) ==
  [n \in DOMAIN usedTemp |->
     usedTemp[n] \cup TempsTaken(code[n].instr, v, offset, usedTemp[n])]

(* spill of an operand that has no slot yet. *)
Spill(v) ==
  /\ ~failed
  /\ slot[v] = NoSlot
  /\ slot' = [slot EXCEPT ![v] = frame]
  /\ frame' = frame + SlotSize
  /\ usedTemp' = Remembered(v, frame)
  /\ failed' = \E n \in DOMAIN usedTemp : NoTemp \in usedTemp'[n]
  /\ code' = [n \in DOMAIN code |-> Expanded(code[n], v, frame, usedTemp[n])]
  /\ UNCHANGED source

AllSpilled == (failed \/ \A v \in Vreg : slot[v] # NoSlot) /\ UNCHANGED vars

Next == (\E v \in Vreg : Spill(v)) \/ AllSpilled

Spec == Init /\ [][Next]_vars

-----------------------------------------------------------------------------
(* What code computes: the machine executes it instruction by instruction; *)
(* an instruction of the program produces a value that names it and what   *)
(* it read, and the list of these values is what the code means.           *)

Address(n) == [address |-> n]
Unknown == [unknown |-> TRUE]

Start ==
  [reg |-> [r \in Registers |-> IF r = SP THEN Address(0) ELSE Unknown],
   mem |-> [o \in {slot[v] : v \in Vreg} |-> Unknown],
   results |-> <<>>]

Execute(instr, m) ==
  LET read == [k \in DOMAIN instr.use |-> m.reg[instr.use[k]]]
      write(value) ==
        [m EXCEPT !.reg = [r \in Registers |-> IF r \in ToSet(instr.def) THEN value ELSE m.reg[r]]]
      result == [num |-> instr.num, read |-> read]
  IN CASE instr.op = "li" -> write(Address(instr.imm))
       [] instr.op = "add" -> write(Address(read[1].address + read[2].address))
       [] instr.op = "load" -> write(m.mem[read[1].address + instr.imm])
       [] instr.op = "store" -> [m EXCEPT !.mem[read[1].address + instr.imm] = read[2]]
       [] instr.op = "op" -> [write(result) EXCEPT !.results = Append(@, result)]

Executed(s, m) ==
  LET run[k \in 0 .. Len(s)] == IF k = 0 THEN m ELSE Execute(s[k], run[k - 1])
  IN run[Len(s)]

Whole(e) == e.loads \o <<e.instr>> \o e.stores

Meaning(c) ==
  LET machine[k \in 0 .. Len(c)] ==
        IF k = 0 THEN Start ELSE Executed(Whole(c[k]), machine[k - 1])
  IN machine[Len(c)].results

-----------------------------------------------------------------------------
(* Properties. *)

(* The maps keep to their types. *)
TypeOK ==
  /\ source \in Programs
  /\ code \in [DOMAIN source -> [loads : Seq(Instruction), instr : Instruction,
                                 stores : Seq(Instruction)]]
  /\ slot \in [Vreg -> Nat \cup {NoSlot}]
  /\ frame \in Nat
  /\ usedTemp \in [DOMAIN source -> SUBSET Temps]
  /\ failed \in BOOLEAN

(* Whatever has been spilled so far and in whatever order, every           *)
(* instruction of the program still reads the values it read before: no    *)
(* load, address or store goes through a temporary that holds something    *)
(* still needed, or to another operand's slot.                             *)
MeaningKept ==
  ~failed => Meaning(code) = Meaning([n \in DOMAIN source |-> Alone(source[n])])

(* The temporaries suffice for every instruction of code generation, near  *)
(* and distant slots, ints and floats mixed: spill never indexes past the  *)
(* end of its list and never throws.                                       *)
TempsSuffice == ~failed
=============================================================================
