--------------------------- MODULE SpillCodeProof ---------------------------
(***************************************************************************)
(* Spilling keeps the meaning of every straight line of code and never     *)
(* runs out of temporaries, whatever is spilled and in whatever order.     *)
(***************************************************************************)
EXTENDS SpillCode, Induction

-----------------------------------------------------------------------------
(* Executing a sequence of instructions. *)

IsRun(f, s, m, n) ==
  f = [k \in 0 .. n |-> IF k = 0 THEN m ELSE Execute(s[k], f[k - 1])]

Runs(s, m, n) == \E f : IsRun(f, s, m, n)

LEMMA RunExists ==
  ASSUME NEW s, NEW m, NEW n \in Nat
  PROVE  Runs(s, m, n)
<1> DEFINE Good == {k \in Nat : Runs(s, m, k)}
<1>1. 0 \in Good
  <2>1. IsRun([k \in 0 .. 0 |-> m], s, m, 0)
    BY DEF IsRun
  <2> QED BY <2>1 DEF Runs
<1>2. ASSUME NEW k \in Good PROVE k + 1 \in Good
  <2>1. PICK f : IsRun(f, s, m, k)
    BY DEF Runs
  <2> DEFINE g == [j \in 0 .. k + 1 |-> IF j = k + 1 THEN Execute(s[k + 1], f[k]) ELSE f[j]]
  <2>2. \A j \in 0 .. k : f[j] = IF j = 0 THEN m ELSE Execute(s[j], f[j - 1])
    BY <2>1 DEF IsRun
  <2>3. ASSUME NEW j \in 0 .. k + 1
        PROVE  g[j] = IF j = 0 THEN m ELSE Execute(s[j], g[j - 1])
    <3>1. CASE j = k + 1
      <4>1. k \in 0 .. k + 1 /\ k # k + 1 /\ g[k] = f[k] /\ j # 0 /\ j - 1 = k
        BY <3>1
      <4>2. g[j] = Execute(s[k + 1], f[k])
        BY <3>1
      <4> HIDE DEF g
      <4> QED BY <3>1, <4>1, <4>2
    <3>2. CASE j # k + 1
      <4>1. j \in 0 .. k /\ g[j] = f[j] /\ (j # 0 => j - 1 \in 0 .. k + 1 /\ j - 1 # k + 1)
        BY <3>2
      <4>2. j # 0 => g[j - 1] = f[j - 1]
        BY <4>1
      <4> HIDE DEF g
      <4> QED BY <2>2, <4>1, <4>2
    <3> QED BY <3>1, <3>2
  <2>4. g = [j \in 0 .. k + 1 |-> g[j]]
    OBVIOUS
  <2>5. IsRun(g, s, m, k + 1)
    <3> HIDE DEF g
    <3> QED BY <2>3, <2>4 DEF IsRun
  <2> HIDE DEF g
  <2> QED BY <2>5 DEF Runs
<1>3. Good \in SUBSET Nat
  OBVIOUS
<1> HIDE DEF Good
<1>4. Good = Nat
  BY <1>1, <1>2, <1>3, NatInductionSet
<1> QED BY <1>4 DEF Good

LEMMA ExecutedByRun ==
  ASSUME NEW S, NEW s \in Seq(S), NEW m
  PROVE  \E f : /\ f[0] = m
                /\ \A k \in 1 .. Len(s) : f[k] = Execute(s[k], f[k - 1])
                /\ Executed(s, m) = f[Len(s)]
<1>0. Len(s) \in Nat
  OBVIOUS
<1>1. \E f : IsRun(f, s, m, Len(s))
  BY <1>0, RunExists DEF Runs
<1> DEFINE g == CHOOSE h : IsRun(h, s, m, Len(s))
<1>2. IsRun(g, s, m, Len(s))
  BY <1>1
<1>3. Executed(s, m) = g[Len(s)]
  BY DEF Executed, IsRun
<1> HIDE DEF g
<1>4. g[0] = m /\ \A k \in 1 .. Len(s) : g[k] = Execute(s[k], g[k - 1])
  <2>1. \A k \in 0 .. Len(s) : g[k] = IF k = 0 THEN m ELSE Execute(s[k], g[k - 1])
    BY <1>2 DEF IsRun
  <2> QED BY <1>0, <2>1
<1> QED BY <1>3, <1>4

(* From its element i on f executes the n instructions of s. *)
Follows(f, i, s, n) == \A k \in 1 .. n : f[i + k] = Execute(s[k], f[i + k - 1])

(* Two runs that begin alike and execute the same instructions end alike.  *)
LEMMA SameRun ==
  ASSUME NEW s, NEW n \in Nat, NEW i \in Nat, NEW f, NEW g,
         f[i] = g[0], Follows(f, i, s, n), Follows(g, 0, s, n)
  PROVE  f[i + n] = g[n]
<1> DEFINE Good == {k \in Nat : k <= n => f[i + k] = g[k]}
<1>1. 0 \in Good
  OBVIOUS
<1>2. ASSUME NEW k \in Good PROVE k + 1 \in Good
  <2> SUFFICES ASSUME k + 1 <= n PROVE f[i + (k + 1)] = g[k + 1]
    OBVIOUS
  <2>1. k \in Nat /\ k + 1 \in 1 .. n /\ f[i + k] = g[k] /\ i + (k + 1) - 1 = i + k /\ (k + 1) - 1 = k
    OBVIOUS
  <2>2. f[i + (k + 1)] = Execute(s[k + 1], f[i + k]) /\ g[k + 1] = Execute(s[k + 1], g[k])
    BY <2>1 DEF Follows
  <2> QED BY <2>1, <2>2
<1>3. Good \in SUBSET Nat
  OBVIOUS
<1> HIDE DEF Good
<1>4. Good = Nat
  BY <1>1, <1>2, <1>3, NatInductionSet
<1> QED BY <1>4 DEF Good

LEMMA ExecutedNothing == ASSUME NEW m PROVE Executed(<<>>, m) = m
<1>1. <<>> \in Seq({}) /\ Len(<<>>) = 0
  OBVIOUS
<1>2. PICK f : /\ f[0] = m
               /\ \A k \in 1 .. Len(<<>>) : f[k] = Execute(<<>>[k], f[k - 1])
               /\ Executed(<<>>, m) = f[Len(<<>>)]
  BY <1>1, ExecutedByRun
<1> QED BY <1>1, <1>2

LEMMA ExecutedOne == ASSUME NEW x, NEW m PROVE Executed(<<x>>, m) = Execute(x, m)
<1>1. <<x>> \in Seq({x}) /\ Len(<<x>>) = 1 /\ <<x>>[1] = x
  OBVIOUS
<1>2. PICK f : /\ f[0] = m
               /\ \A k \in 1 .. Len(<<x>>) : f[k] = Execute(<<x>>[k], f[k - 1])
               /\ Executed(<<x>>, m) = f[Len(<<x>>)]
  BY <1>1, ExecutedByRun
<1>3. f[1] = Execute(<<x>>[1], f[0])
  BY <1>1, <1>2
<1> QED BY <1>1, <1>2, <1>3

LEMMA ExecutedTwo ==
  ASSUME NEW S, NEW s \in Seq(S), NEW t \in Seq(S), NEW m
  PROVE  Executed(s \o t, m) = Executed(t, Executed(s, m))
<1>0. s \o t \in Seq(S) /\ Len(s \o t) = Len(s) + Len(t) /\ Len(s) \in Nat /\ Len(t) \in Nat
  OBVIOUS
<1>1. PICK f : /\ f[0] = m
               /\ \A k \in 1 .. Len(s \o t) : f[k] = Execute((s \o t)[k], f[k - 1])
               /\ Executed(s \o t, m) = f[Len(s \o t)]
  BY <1>0, ExecutedByRun
<1>2. PICK g : /\ g[0] = m
               /\ \A k \in 1 .. Len(s) : g[k] = Execute(s[k], g[k - 1])
               /\ Executed(s, m) = g[Len(s)]
  BY ExecutedByRun
<1>3. PICK h : /\ h[0] = Executed(s, m)
               /\ \A k \in 1 .. Len(t) : h[k] = Execute(t[k], h[k - 1])
               /\ Executed(t, Executed(s, m)) = h[Len(t)]
  BY ExecutedByRun
<1>4. f[0 + Len(s)] = g[Len(s)]
  <2>1. \A k \in 1 .. Len(s) : (s \o t)[k] = s[k] /\ k \in 1 .. Len(s \o t) /\ 0 + k = k
    BY <1>0
  <2>2. Follows(f, 0, s, Len(s))
    BY <1>1, <2>1 DEF Follows
  <2>3. 0 \in Nat /\ f[0] = g[0]
    BY <1>1, <1>2
  <2>4. Follows(g, 0, s, Len(s))
    BY <1>0, <1>2 DEF Follows
  <2> QED BY <1>0, <2>2, <2>3, <2>4, SameRun
<1>5. f[Len(s) + Len(t)] = h[Len(t)]
  <2>1. \A k \in 1 .. Len(t) : (s \o t)[Len(s) + k] = t[k] /\ Len(s) + k \in 1 .. Len(s \o t)
    BY <1>0
  <2>2. Follows(f, Len(s), t, Len(t))
    <3>1. ASSUME NEW k \in 1 .. Len(t) PROVE f[Len(s) + k] = Execute(t[k], f[Len(s) + k - 1])
      <4> DEFINE j == Len(s) + k
      <4>1. j \in 1 .. Len(s \o t) /\ (s \o t)[j] = t[k]
        BY <2>1
      <4> HIDE DEF j
      <4>2. f[j] = Execute(t[k], f[j - 1])
        BY <1>1, <4>1
      <4> QED BY <4>2 DEF j
    <3> QED BY <3>1 DEF Follows
  <2>3. f[Len(s)] = h[0]
    BY <1>0, <1>2, <1>3, <1>4
  <2>4. Follows(h, 0, t, Len(t))
    BY <1>0, <1>3 DEF Follows
  <2> QED BY <1>0, <2>2, <2>3, <2>4, SameRun
<1> QED BY <1>0, <1>1, <1>3, <1>5

LEMMA ExecutedThree ==
  ASSUME NEW x, NEW y, NEW z, NEW m
  PROVE  Executed(<<x, y, z>>, m) = Execute(z, Execute(y, Execute(x, m)))
<1> DEFINE s == <<x, y, z>>
<1>1. s \in Seq({x, y, z}) /\ Len(s) = 3 /\ s[1] = x /\ s[2] = y /\ s[3] = z
  OBVIOUS
<1> HIDE DEF s
<1>2. PICK f : /\ f[0] = m
               /\ \A k \in 1 .. Len(s) : f[k] = Execute(s[k], f[k - 1])
               /\ Executed(s, m) = f[Len(s)]
  BY <1>1, ExecutedByRun
<1>3. f[1] = Execute(x, f[0]) /\ f[2] = Execute(y, f[1]) /\ f[3] = Execute(z, f[2])
  BY <1>1, <1>2
<1> QED BY <1>1, <1>2, <1>3 DEF s

-----------------------------------------------------------------------------
(* What the instructions that spill adds do. *)

IsMachine(m) ==
  /\ m = [reg |-> m.reg, mem |-> m.mem, results |-> m.results]
  /\ DOMAIN m.reg = Registers
  /\ m.reg[SP] = Address(0)

(* Only the register rd changes, to value. *)
Wrote(m, next, rd, value) ==
  /\ IsMachine(next)
  /\ next.reg[rd] = value
  /\ \A r \in Registers \ {rd} : next.reg[r] = m.reg[r]
  /\ next.mem = m.mem
  /\ next.results = m.results

LEMMA WriteOne ==
  ASSUME NEW m, IsMachine(m), NEW rd \in Temps, NEW value
  PROVE  Wrote(m, [m EXCEPT !.reg = [r \in Registers |-> IF r \in {rd} THEN value ELSE m.reg[r]]],
               rd, value)
<1> DEFINE next == [m EXCEPT !.reg = [r \in Registers |-> IF r \in {rd} THEN value ELSE m.reg[r]]]
<1>1. rd # SP /\ SP \in Registers /\ rd \in Registers
  BY RegistersAssumption DEF IsInjective, Temps, Registers
<1>2. next = [reg |-> [r \in Registers |-> IF r \in {rd} THEN value ELSE m.reg[r]],
              mem |-> m.mem, results |-> m.results]
  BY DEF IsMachine
<1> HIDE DEF next
<1> QED BY <1>1, <1>2 DEF Wrote, IsMachine

LEMMA ExecuteLi ==
  ASSUME NEW m, IsMachine(m), NEW rd \in Temps, NEW n
  PROVE  Wrote(m, Execute(Li(rd, n), m), rd, Address(n))
<1>1. Li(rd, n).op = "li" /\ ToSet(Li(rd, n).def) = {rd} /\ Li(rd, n).imm = n
  BY DEF Li, Instr, ToSet
<1>2. Execute(Li(rd, n), m) =
        [m EXCEPT !.reg = [r \in Registers |-> IF r \in {rd} THEN Address(n) ELSE m.reg[r]]]
  BY <1>1 DEF Execute
<1> QED BY <1>2, WriteOne

LEMMA ExecuteAdd ==
  ASSUME NEW m, IsMachine(m), NEW rd \in Temps, NEW n \in Int, m.reg[rd] = Address(n)
  PROVE  Wrote(m, Execute(Add(rd, SP, rd), m), rd, Address(n))
<1> DEFINE i == Add(rd, SP, rd)
<1>1. i.op = "add" /\ ToSet(i.def) = {rd} /\ i.use = <<SP, rd>>
  BY DEF Add, Instr, ToSet
<1>2. m.reg[SP].address + m.reg[rd].address = n
  BY DEF IsMachine, Address
<1> HIDE DEF i
<1>3. Execute(i, m) =
        [m EXCEPT !.reg = [r \in Registers |-> IF r \in {rd} THEN Address(n) ELSE m.reg[r]]]
  BY <1>1, <1>2 DEF Execute
<1> QED BY <1>3, WriteOne DEF i

LEMMA ExecuteLoad ==
  ASSUME NEW m, IsMachine(m), NEW rd \in Temps, NEW base, NEW n \in Int, NEW o \in Int,
         m.reg[base] = Address(n)
  PROVE  Wrote(m, Execute(Load(rd, base, o), m), rd, m.mem[n + o])
<1> DEFINE i == Load(rd, base, o)
<1>1. i.op = "load" /\ ToSet(i.def) = {rd} /\ i.use = <<base>> /\ i.imm = o
  BY DEF Load, Instr, ToSet
<1>2. m.reg[base].address = n
  BY DEF Address
<1> HIDE DEF i
<1>3. Execute(i, m) =
        [m EXCEPT !.reg = [r \in Registers |-> IF r \in {rd} THEN m.mem[n + o] ELSE m.reg[r]]]
  BY <1>1, <1>2 DEF Execute
<1> QED BY <1>3, WriteOne DEF i

(* The machine m with value at offset. *)
Stored(m, offset, value) ==
  [reg |-> m.reg, mem |-> [m.mem EXCEPT ![offset] = value], results |-> m.results]

LEMMA ExecuteStore ==
  ASSUME NEW m, IsMachine(m), NEW rs, NEW base, NEW n \in Int, NEW o \in Int, NEW offset,
         offset = n + o, m.reg[base] = Address(n)
  PROVE  Execute(Store(base, rs, o), m) = Stored(m, offset, m.reg[rs])
<1> DEFINE i == Store(base, rs, o)
<1>1. i.op = "store" /\ i.use = <<base, rs>> /\ i.imm = o
  BY DEF Store, Instr
<1>2. m.reg[base].address + o = offset
  BY DEF Address
<1> HIDE DEF i
<1>3. Execute(i, m) = [m EXCEPT !.mem[offset] = m.reg[rs]]
  BY <1>1, <1>2 DEF Execute
<1>4. [m EXCEPT !.mem[offset] = m.reg[rs]] = Stored(m, offset, m.reg[rs])
  BY DEF IsMachine, Stored
<1> QED BY <1>3, <1>4 DEF i

(* The loads put the value of the slot into temps.value and change at most *)
(* the two temporaries; for a near slot the address is not used.           *)
LEMMA LoadsFacts ==
  ASSUME NEW m, IsMachine(m), NEW offset \in Nat, NEW temps, temps.value \in Temps,
         ~FitsImmediate(offset) => temps.address \in Temps
  PROVE  LET next == Executed(Loads(offset, temps), m)
         IN /\ IsMachine(next)
            /\ next.mem = m.mem
            /\ next.results = m.results
            /\ next.reg[temps.value] = m.mem[offset]
            /\ \A r \in Registers \ {temps.value, temps.address} : next.reg[r] = m.reg[r]
<1>0. Temps \subseteq Registers
  BY DEF Registers
<1>1. CASE FitsImmediate(offset)
  <2>1. m.reg[SP] = Address(0) /\ 0 \in Int /\ offset \in Int /\ 0 + offset = offset
    BY DEF IsMachine
  <2>2. Wrote(m, Execute(Load(temps.value, SP, offset), m), temps.value, m.mem[offset])
    BY <2>1, ExecuteLoad
  <2>3. Executed(Loads(offset, temps), m) = Execute(Load(temps.value, SP, offset), m)
    BY <1>1, ExecutedOne DEF Loads
  <2> QED BY <2>2, <2>3 DEF Wrote
<1>2. CASE ~FitsImmediate(offset)
  <2> DEFINE a == temps.address
             m1 == Execute(Li(a, offset), m)
             m2 == Execute(Add(a, SP, a), m1)
             m3 == Execute(Load(temps.value, a, 0), m2)
  <2>0. a \in Temps
    BY <1>2
  <2>1. Executed(Loads(offset, temps), m) = m3
    BY <1>2, ExecutedThree DEF Loads
  <2>2. Wrote(m, m1, a, Address(offset))
    BY <2>0, ExecuteLi
  <2> HIDE DEF m1, a
  <2>3. Wrote(m1, m2, a, Address(offset))
    BY <2>0, <2>2, ExecuteAdd DEF Wrote
  <2> HIDE DEF m2
  <2>4. 0 \in Int /\ offset \in Int /\ offset + 0 = offset
    OBVIOUS
  <2>5. Wrote(m2, m3, temps.value, m2.mem[offset])
    BY <2>3, <2>4, ExecuteLoad DEF Wrote
  <2> HIDE DEF m3
  <2>6. m2.mem = m.mem /\ m3.mem = m.mem /\ m3.results = m.results
    BY <2>2, <2>3, <2>5 DEF Wrote
  <2>7. \A r \in Registers \ {temps.value, a} : m3.reg[r] = m.reg[r]
    BY <2>2, <2>3, <2>5 DEF Wrote
  <2> QED BY <2>1, <2>5, <2>6, <2>7 DEF Wrote, a
<1> QED BY <1>1, <1>2

(* The stores put the value of the temporary into the slot.                *)
LEMMA StoresFacts ==
  ASSUME NEW m, IsMachine(m), NEW offset \in Nat, NEW v
  PROVE  LET next == Executed(Stores(v, offset), m)
         IN /\ IsMachine(next)
            /\ next.mem = [m.mem EXCEPT ![offset] = m.reg[DefTemp(v, offset)]]
            /\ next.results = m.results
            /\ \A r \in Registers \ Temps : next.reg[r] = m.reg[r]
<1> DEFINE rs == DefTemp(v, offset)
<1>0. Temps \subseteq Registers /\ rs \in Temps /\ T0 \in Temps
  BY DEF Registers, Temps, DefTemp
<1>1. 0 \in Int /\ offset \in Int /\ 0 + offset = offset /\ offset + 0 = offset
  OBVIOUS
<1>2. CASE FitsImmediate(offset)
  <2>1. m.reg[SP] = Address(0)
    BY DEF IsMachine
  <2>2. Execute(Store(SP, rs, offset), m) = Stored(m, offset, m.reg[rs])
    BY <1>1, <2>1, ExecuteStore
  <2>3. Executed(Stores(v, offset), m) = Execute(Store(SP, rs, offset), m)
    BY <1>2, ExecutedOne DEF Stores
  <2> HIDE DEF rs
  <2> QED BY <2>2, <2>3 DEF IsMachine, Stored, rs
<1>3. CASE ~FitsImmediate(offset)
  <2> DEFINE m1 == Execute(Li(T0, offset), m)
             m2 == Execute(Add(T0, SP, T0), m1)
             m3 == Execute(Store(T0, rs, 0), m2)
  <2>1. Executed(Stores(v, offset), m) = m3
    BY <1>3, ExecutedThree DEF Stores
  <2>2. Wrote(m, m1, T0, Address(offset))
    BY <1>0, ExecuteLi
  <2> HIDE DEF m1
  <2>3. Wrote(m1, m2, T0, Address(offset))
    BY <1>0, <2>2, ExecuteAdd DEF Wrote
  <2> HIDE DEF m2
  <2>4. m2.reg[T0] = Address(offset) /\ IsMachine(m2)
    BY <2>3 DEF Wrote
  <2>5. m3 = Stored(m2, offset, m2.reg[rs])
    BY <1>1, <2>4, ExecuteStore
  <2>6. rs # T0
    BY <1>3, RegistersAssumption DEF DefTemp, IsInjective
  <2> HIDE DEF m3, rs
  <2>7. m2.mem = m.mem /\ m2.results = m.results /\ m2.reg[rs] = m.reg[rs]
    BY <1>0, <2>2, <2>3, <2>6 DEF Wrote
  <2>9. \A r \in Registers \ Temps : m2.reg[r] = m.reg[r]
    BY <1>0, <2>2, <2>3 DEF Wrote
  <2> QED BY <2>1, <2>4, <2>5, <2>7, <2>9 DEF IsMachine, Stored, rs
<1> QED BY <1>2, <1>3

-----------------------------------------------------------------------------
(* The inductive invariant. *)

Spilled(v) == slot[v] # NoSlot

(* Every slot is its operand's own and lies below the end of the frame.    *)
SlotsApart ==
  /\ \A v \in Vreg : Spilled(v) => slot[v] \in Nat /\ slot[v] < frame
  /\ \A v, w \in Vreg : Spilled(v) /\ Spilled(w) /\ v # w => slot[v] # slot[w]

(* An instruction with an operand still to be spilled has spilled at most  *)
(* one other, which took the first temporaries of the lists.               *)
TempsLeft(n) ==
  LET reads == ReadBy(source[n])
  IN /\ (\A v \in reads : ~Spilled(v)) => usedTemp[n] = {}
     /\ (\E v \in reads : ~Spilled(v)) => usedTemp[n] \subseteq {T0, FT0}

(* The operands still to be spilled are as in the source, a use of one     *)
(* spilled is a temporary taken for the instruction.                       *)
OperandsRight(n) ==
  LET from == source[n]
      to == code[n].instr
  IN /\ to.op = "op" /\ to.num = from.num
     /\ DOMAIN to.use = DOMAIN from.use /\ DOMAIN to.def = DOMAIN from.def
     /\ \A k \in DOMAIN from.use :
          IF from.use[k] \in Vreg /\ Spilled(from.use[k]) THEN to.use[k] \in usedTemp[n]
          ELSE to.use[k] = from.use[k]
     /\ \A k \in DOMAIN from.def :
          to.def[k] = IF from.def[k] \in Vreg /\ Spilled(from.def[k])
                      THEN DefTemp(from.def[k], slot[from.def[k]])
                      ELSE from.def[k]

(* Executed on m, the loads put into the registers that the instruction    *)
(* uses what the slots hold, and change no register but its temporaries.   *)
LoadedOn(n, m) ==
  LET next == Executed(code[n].loads, m)
      use == source[n].use
  IN /\ IsMachine(next)
     /\ next.mem = m.mem
     /\ next.results = m.results
     /\ \A r \in Registers \ usedTemp[n] : next.reg[r] = m.reg[r]
     /\ \A k \in DOMAIN use :
          use[k] \in Vreg /\ Spilled(use[k]) =>
            next.reg[code[n].instr.use[k]] = m.mem[slot[use[k]]]

LoadsRight(n) == \A m : IsMachine(m) => LoadedOn(n, m)

StoresRight(n) ==
  /\ (\A v \in WrittenBy(source[n]) : ~Spilled(v)) => code[n].stores = <<>>
  /\ \A v \in WrittenBy(source[n]) : Spilled(v) => code[n].stores = Stores(v, slot[v])

IInv ==
  /\ TypeOK
  /\ ~failed
  /\ SlotsApart
  /\ \A n \in DOMAIN source : TempsLeft(n) /\ OperandsRight(n) /\ LoadsRight(n) /\ StoresRight(n)

-----------------------------------------------------------------------------
(* What a spill puts next to an instruction. *)

LEMMA RegisterFacts ==
  /\ T0 # T1 /\ T0 # FT0 /\ T0 # FT1 /\ T0 # FT2 /\ T1 # FT0 /\ T1 # FT1 /\ T1 # FT2
  /\ FT0 # FT1 /\ FT0 # FT2 /\ FT1 # FT2
  /\ SP \notin Temps /\ NoTemp \notin Temps /\ SP # NoTemp
  /\ \A r \in Vreg \cup Scratch : r \notin Temps /\ r # SP /\ r # NoTemp
  /\ \A r \in Vreg : r \notin Scratch
  /\ Temps \subseteq Registers /\ Vreg \subseteq Registers /\ Scratch \subseteq Registers
  /\ SP \in Registers /\ NoTemp \in Registers
<1>1. /\ T0 # T1 /\ T0 # FT0 /\ T0 # FT1 /\ T0 # FT2 /\ T1 # FT0 /\ T1 # FT1 /\ T1 # FT2
      /\ FT0 # FT1 /\ FT0 # FT2 /\ FT1 # FT2
      /\ SP \notin Temps /\ NoTemp \notin Temps /\ SP # NoTemp
  BY RegistersAssumption DEF IsInjective, Temps
<1> QED BY <1>1, RegistersAssumption DEF Registers

(* The first free element of a list of two. *)
LEMMA FirstFreeFacts ==
  /\ \A used : T0 \notin used => FirstFree(SpillGeneral, used) = T0
  /\ \A used : T0 \in used /\ T1 \notin used => FirstFree(SpillGeneral, used) = T1
  /\ \A used : FT0 \notin used => FirstFree(SpillFloat, used) = FT0
  /\ \A used : FT0 \in used /\ FT1 \notin used => FirstFree(SpillFloat, used) = FT1
<1>1. ASSUME NEW temps \in Seq(Temps), NEW used, NEW i \in DOMAIN temps, temps[i] \notin used,
             \A j \in DOMAIN temps : temps[j] \notin used => i <= j
      PROVE  FirstFree(temps, used) = temps[i]
  <2> DEFINE free == {k \in DOMAIN temps : temps[k] \notin used}
             first == CHOOSE k \in free : \A j \in free : k <= j
  <2>1. i \in free /\ \A j \in free : i <= j
    BY <1>1
  <2>2. first \in free /\ \A j \in free : first <= j
    BY <2>1
  <2>3. first = i
    BY <2>1, <2>2
  <2>4. free # {}
    BY <2>1
  <2> QED BY <2>3, <2>4 DEF FirstFree
<1>2. /\ SpillGeneral \in Seq(Temps) /\ DOMAIN SpillGeneral = {1, 2}
      /\ SpillGeneral[1] = T0 /\ SpillGeneral[2] = T1
  BY DEF SpillGeneral, Temps
<1>3. /\ SpillFloat \in Seq(Temps) /\ DOMAIN SpillFloat = {1, 2, 3}
      /\ SpillFloat[1] = FT0 /\ SpillFloat[2] = FT1 /\ SpillFloat[3] = FT2
  BY DEF SpillFloat, Temps
<1>4. ASSUME NEW used, T0 \notin used PROVE FirstFree(SpillGeneral, used) = T0
  BY <1>1, <1>2, <1>4
<1>5. ASSUME NEW used, T0 \in used, T1 \notin used PROVE FirstFree(SpillGeneral, used) = T1
  BY <1>1, <1>2, <1>5
<1>6. ASSUME NEW used, FT0 \notin used PROVE FirstFree(SpillFloat, used) = FT0
  BY <1>1, <1>3, <1>6
<1>7. ASSUME NEW used, FT0 \in used, FT1 \notin used PROVE FirstFree(SpillFloat, used) = FT1
  BY <1>1, <1>3, <1>7
<1> QED BY <1>4, <1>5, <1>6, <1>7

LEMMA FirstFreeType ==
  ASSUME NEW used
  PROVE  FirstFree(SpillGeneral, used) \in Registers /\ FirstFree(SpillFloat, used) \in Registers
<1>1. ASSUME NEW temps \in Seq(Temps) PROVE FirstFree(temps, used) \in Registers
  <2> DEFINE free == {k \in DOMAIN temps : temps[k] \notin used}
  <2>0. free \in SUBSET Nat /\ \A k \in free : temps[k] \in Temps
    OBVIOUS
  <2>1. CASE free = {}
    BY <2>1, RegisterFacts DEF FirstFree
  <2>2. CASE free # {}
    <3> DEFINE first == CHOOSE k \in free : \A j \in free : k <= j
    <3> HIDE DEF free
    <3>1. \E k \in free : \A j \in free : k <= j
      BY <2>0, <2>2, LeastNat
    <3>2. first \in free
      BY <3>1
    <3>3. FirstFree(temps, used) = temps[first]
      BY <2>2 DEF FirstFree, free
    <3> HIDE DEF first
    <3> QED BY <2>0, <3>2, <3>3, RegisterFacts
  <2> QED BY <2>1, <2>2
<1>2. SpillGeneral \in Seq(Temps) /\ SpillFloat \in Seq(Temps)
  BY DEF SpillGeneral, SpillFloat, Temps
<1> QED BY <1>1, <1>2

(* While only the first temporaries are taken there are others.            *)
LEMMA UseTempsFacts ==
  ASSUME NEW v, NEW offset, NEW used, used \subseteq {T0, FT0}
  PROVE  LET temps == UseTemps(v, offset, used)
         IN /\ temps.value \in Temps \ used
            /\ temps.address \in (Temps \ used) \cup {SP}
            /\ ~FitsImmediate(offset) => temps.address \in Temps
            /\ used = {} => {temps.value, temps.address} \ {SP} \subseteq {T0, FT0}
<1>1. FirstFree(SpillGeneral, used) \in {T0, T1} \ used
  BY FirstFreeFacts, RegisterFacts
<1>2. FirstFree(SpillFloat, used) \in {FT0, FT1} \ used
  BY FirstFreeFacts, RegisterFacts
<1>3. used = {} => FirstFree(SpillGeneral, used) = T0 /\ FirstFree(SpillFloat, used) = FT0
  BY FirstFreeFacts
<1> QED BY <1>1, <1>2, <1>3 DEF UseTemps, Temps

LEMMA LoadsType ==
  ASSUME NEW offset \in Nat, NEW temps, temps.value \in Registers, temps.address \in Registers
  PROVE  Loads(offset, temps) \in Seq(Instruction)
<1>1. SP \in Registers
  BY RegisterFacts
<1>2. ASSUME NEW rd \in Registers, NEW base \in Registers, NEW n \in Nat
      PROVE  Load(rd, base, n) \in Instruction /\ Li(rd, n) \in Instruction
  BY DEF Load, Li, Instr, Instruction
<1>3. ASSUME NEW rd \in Registers, NEW r1 \in Registers, NEW r2 \in Registers
      PROVE  Add(rd, r1, r2) \in Instruction
  BY DEF Add, Instr, Instruction
<1> QED BY <1>1, <1>2, <1>3 DEF Loads

LEMMA StoresType ==
  ASSUME NEW offset \in Nat, NEW v
  PROVE  Stores(v, offset) \in Seq(Instruction)
<1>1. SP \in Registers /\ T0 \in Registers /\ DefTemp(v, offset) \in Registers
  BY RegisterFacts DEF DefTemp, Temps
<1>2. ASSUME NEW rs \in Registers, NEW base \in Registers, NEW n \in Nat
      PROVE  Store(base, rs, n) \in Instruction /\ Li(rs, n) \in Instruction
  BY DEF Store, Li, Instr, Instruction
<1>3. ASSUME NEW rd \in Registers, NEW r1 \in Registers, NEW r2 \in Registers
      PROVE  Add(rd, r1, r2) \in Instruction
  BY DEF Add, Instr, Instruction
<1> QED BY <1>1, <1>2, <1>3 DEF Stores

LEMMA ReplacedFacts ==
  ASSUME NEW s \in Seq(Registers), NEW v, NEW r \in Registers
  PROVE  /\ Replaced(s, v, r) \in Seq(Registers)
         /\ DOMAIN Replaced(s, v, r) = DOMAIN s
         /\ \A k \in DOMAIN s : Replaced(s, v, r)[k] = IF s[k] = v THEN r ELSE s[k]
  BY DEF Replaced

-----------------------------------------------------------------------------
(* The invariant holds of every state. *)

LEMMA ProgramFacts ==
  ASSUME NEW c \in Programs
  PROVE  /\ c \in Seq(ProgramInstr)
         /\ \A n \in DOMAIN c :
              /\ c[n] \in ProgramInstr /\ c[n] \in Instruction
              /\ \E v, w \in Vreg : ReadBy(c[n]) \subseteq {v, w}
              /\ \A v, w \in WrittenBy(c[n]) : v = w
<1>1. c \in Seq(ProgramInstr)
  BY ProgramsAssumption
<1>2. ASSUME NEW n \in DOMAIN c PROVE c[n] \in ProgramInstr
  BY <1>1
<1>3. ProgramInstr \subseteq Instruction
  <2>1. Vreg \cup Scratch \subseteq Registers
    BY RegisterFacts
  <2>2. Seq(Vreg \cup Scratch) \subseteq Seq(Registers)
    BY <2>1
  <2> QED BY <2>2 DEF ProgramInstr, Instruction
<1> QED BY <1>1, <1>2, <1>3, ProgramsAssumption

(* Seen from v, which has no slot, the instruction is as in the source.    *)
LEMMA Mentions ==
  ASSUME TypeOK, NEW n \in DOMAIN source, OperandsRight(n), NEW v \in Vreg, ~Spilled(v)
  PROVE  /\ v \in ReadBy(code[n].instr) <=> v \in ReadBy(source[n])
         /\ v \in WrittenBy(code[n].instr) <=> v \in WrittenBy(source[n])
         /\ \A k \in DOMAIN source[n].use : code[n].instr.use[k] = v <=> source[n].use[k] = v
         /\ \A k \in DOMAIN source[n].def : code[n].instr.def[k] = v <=> source[n].def[k] = v
<1>1. usedTemp[n] \subseteq Temps
  BY DEF TypeOK
<1>2. \A w, o : DefTemp(w, o) \in Temps
  BY DEF DefTemp, Temps
<1>3. v \notin Temps
  BY RegisterFacts
<1>4. \A k \in DOMAIN source[n].use : code[n].instr.use[k] = v <=> source[n].use[k] = v
  BY <1>1, <1>3 DEF OperandsRight
<1>5. \A k \in DOMAIN source[n].def : code[n].instr.def[k] = v <=> source[n].def[k] = v
  BY <1>2, <1>3 DEF OperandsRight
<1>6. DOMAIN code[n].instr.use = DOMAIN source[n].use /\ DOMAIN code[n].instr.def = DOMAIN source[n].def
  BY DEF OperandsRight
<1> QED BY <1>4, <1>5, <1>6 DEF ReadBy, WrittenBy, ToSet

LEMMA InitIInv == Init => IInv
<1> SUFFICES ASSUME Init PROVE IInv
  OBVIOUS
<1>1. source \in Seq(ProgramInstr) /\ \A n \in DOMAIN source : source[n] \in ProgramInstr /\ source[n] \in Instruction
  BY ProgramFacts DEF Init
<1>2. TypeOK
  <2>1. \A n \in DOMAIN source :
          Alone(source[n]) \in [loads : Seq(Instruction), instr : Instruction, stores : Seq(Instruction)]
    BY <1>1 DEF Alone
  <2> QED BY <2>1 DEF Init, TypeOK, NoSlot
<1>3. \A v \in Vreg : ~Spilled(v)
  BY DEF Init, Spilled
<1>4. SlotsApart
  BY <1>3 DEF SlotsApart
<1>5. ASSUME NEW n \in DOMAIN source
      PROVE  TempsLeft(n) /\ OperandsRight(n) /\ LoadsRight(n) /\ StoresRight(n)
  <2>1. code[n] = Alone(source[n]) /\ usedTemp[n] = {}
    BY DEF Init
  <2>2. TempsLeft(n)
    BY <2>1 DEF TempsLeft
  <2>3. source[n].op = "op"
    BY <1>1 DEF ProgramInstr
  <2>4. OperandsRight(n)
    <3>1. \A k \in DOMAIN source[n].use : ~(source[n].use[k] \in Vreg /\ Spilled(source[n].use[k]))
      BY <1>3
    <3>2. \A k \in DOMAIN source[n].def : ~(source[n].def[k] \in Vreg /\ Spilled(source[n].def[k]))
      BY <1>3
    <3>3. code[n].instr = source[n]
      BY <2>1 DEF Alone
    <3> QED BY <2>3, <3>1, <3>2, <3>3 DEF OperandsRight
  <2>5. ASSUME NEW m, IsMachine(m) PROVE LoadedOn(n, m)
    <3>1. Executed(code[n].loads, m) = m
      BY <2>1, ExecutedNothing DEF Alone
    <3>2. \A k \in DOMAIN source[n].use : source[n].use[k] \in Vreg => ~Spilled(source[n].use[k])
      BY <1>3
    <3> QED BY <2>5, <3>1, <3>2 DEF LoadedOn
  <2>6. StoresRight(n)
    BY <1>3, <2>1 DEF StoresRight, Alone, WrittenBy
  <2> QED BY <2>2, <2>4, <2>5, <2>6 DEF LoadsRight
<1>6. ~failed
  BY DEF Init
<1> QED BY <1>2, <1>4, <1>5, <1>6 DEF IInv

(* What the temporaries of a spill are for an instruction that reads v.    *)
LEMMA TakenFacts ==
  ASSUME IInv, NEW v \in Vreg, ~Spilled(v), NEW n \in DOMAIN source, v \in ReadBy(source[n])
  PROVE  LET temps == UseTemps(v, frame, usedTemp[n])
         IN /\ temps.value \in Temps \ usedTemp[n]
            /\ temps.address \in (Temps \ usedTemp[n]) \cup {SP}
            /\ ~FitsImmediate(frame) => temps.address \in Temps
            /\ TempsTaken(code[n].instr, v, frame, usedTemp[n]) = {temps.value, temps.address} \ {SP}
            /\ usedTemp[n] = {} => {temps.value, temps.address} \ {SP} \subseteq {T0, FT0}
<1>1. usedTemp[n] \subseteq {T0, FT0}
  BY DEF IInv, TempsLeft
<1>2. v \in ReadBy(code[n].instr)
  BY Mentions DEF IInv
<1> QED BY <1>1, <1>2, UseTempsFacts DEF TempsTaken

LEMMA NotTaken ==
  ASSUME IInv, NEW v \in Vreg, ~Spilled(v), NEW n \in DOMAIN source, v \notin ReadBy(source[n])
  PROVE  /\ TempsTaken(code[n].instr, v, frame, usedTemp[n]) = {}
         /\ v \notin ReadBy(code[n].instr)
<1>1. v \notin ReadBy(code[n].instr)
  BY Mentions DEF IInv
<1> QED BY <1>1 DEF TempsTaken

(* A spill changes only the spilled operand's slot.                        *)
LEMMA SlotsAfter ==
  ASSUME IInv, NEW v \in Vreg, Spill(v)
  PROVE  /\ ~Spilled(v) /\ frame \in Nat /\ frame' \in Nat
         /\ slot'[v] = frame /\ Spilled(v)'
         /\ \A w \in Vreg : w # v => slot'[w] = slot[w] /\ (Spilled(w)' <=> Spilled(w))
         /\ slot' \in [Vreg -> Nat \cup {NoSlot}]
         /\ source' = source
         /\ SlotsApart'
<1>1. slot \in [Vreg -> Nat \cup {NoSlot}] /\ frame \in Nat /\ frame' = frame + SlotSize /\ SlotSize \in Nat
  BY DEF IInv, TypeOK, Spill, SlotSize
<1>2. slot' = [slot EXCEPT ![v] = frame] /\ slot[v] = NoSlot /\ source' = source
  BY DEF Spill
<1>3. frame # NoSlot
  BY <1>1 DEF NoSlot
<1>4. slot'[v] = frame /\ \A w \in Vreg : w # v => slot'[w] = slot[w]
  BY <1>1, <1>2
<1>5. ~Spilled(v) /\ Spilled(v)' /\ \A w \in Vreg : w # v => (Spilled(w)' <=> Spilled(w))
  BY <1>2, <1>3, <1>4 DEF Spilled, NoSlot
<1>6. frame < frame' /\ frame' \in Nat
  BY <1>1 DEF SlotSize
<1>7. SlotsApart'
  <2>1. ASSUME NEW w \in Vreg, Spilled(w)' PROVE slot'[w] \in Nat /\ slot'[w] < frame'
    BY <1>1, <1>4, <1>5, <1>6, <2>1 DEF IInv, SlotsApart
  <2>2. ASSUME NEW w \in Vreg, NEW u \in Vreg, Spilled(w)', Spilled(u)', w # u
        PROVE  slot'[w] # slot'[u]
    <3>1. \A z \in Vreg : Spilled(z) => slot[z] \in Nat /\ slot[z] < frame
      BY DEF IInv, SlotsApart
    <3>2. CASE w = v
      BY <1>1, <1>4, <1>5, <2>2, <3>1, <3>2
    <3>3. CASE u = v
      BY <1>1, <1>4, <1>5, <2>2, <3>1, <3>3
    <3>4. CASE w # v /\ u # v
      BY <1>4, <1>5, <2>2, <3>4 DEF IInv, SlotsApart
    <3> QED BY <3>2, <3>3, <3>4
  <2> QED BY <2>1, <2>2 DEF SlotsApart
<1>8. slot' \in [Vreg -> Nat \cup {NoSlot}]
  BY <1>1, <1>2
<1> QED BY <1>1, <1>2, <1>4, <1>5, <1>6, <1>7, <1>8

(* The parts of an instruction after a spill. *)
LEMMA InstructionAfter ==
  ASSUME IInv, NEW v \in Vreg, Spill(v), NEW n \in DOMAIN source
  PROVE  LET temps == UseTemps(v, frame, usedTemp[n])
             e == code[n]
             next == code'[n]
             taken == TempsTaken(e.instr, v, frame, usedTemp[n])
         IN /\ next.loads = IF v \in ReadBy(source[n]) THEN e.loads \o Loads(frame, temps) ELSE e.loads
            /\ next.stores = IF v \in WrittenBy(source[n]) THEN Stores(v, frame) \o e.stores ELSE e.stores
            /\ next.instr = [e.instr EXCEPT !.def = Replaced(e.instr.def, v, DefTemp(v, frame)),
                                            !.use = Replaced(e.instr.use, v, temps.value)]
            /\ usedTemp'[n] = usedTemp[n] \cup taken
<1>1. DOMAIN code = DOMAIN source /\ DOMAIN usedTemp = DOMAIN source
  BY DEF IInv, TypeOK
<1>2. code'[n] = Expanded(code[n], v, frame, usedTemp[n])
  BY <1>1 DEF Spill
<1>3. usedTemp'[n] = usedTemp[n] \cup TempsTaken(code[n].instr, v, frame, usedTemp[n])
  BY <1>1 DEF Spill, Remembered
<1>4. /\ v \in ReadBy(code[n].instr) <=> v \in ReadBy(source[n])
      /\ v \in WrittenBy(code[n].instr) <=> v \in WrittenBy(source[n])
  BY Mentions, SlotsAfter DEF IInv
<1> QED BY <1>2, <1>3, <1>4 DEF Expanded

LEMMA TempsLeftKept ==
  ASSUME IInv, NEW v \in Vreg, Spill(v), NEW n \in DOMAIN source
  PROVE  TempsLeft(n)' /\ usedTemp'[n] \subseteq Temps
<1> DEFINE taken == TempsTaken(code[n].instr, v, frame, usedTemp[n])
<1>1. usedTemp'[n] = usedTemp[n] \cup taken
  BY InstructionAfter
<1>2. source' = source /\ ~Spilled(v) /\ Spilled(v)' /\ \A w \in Vreg : w # v => (Spilled(w)' <=> Spilled(w))
  BY SlotsAfter
<1>3. usedTemp[n] \subseteq Temps /\ T0 \in Temps /\ FT0 \in Temps
  BY DEF IInv, TypeOK, Temps
<1>4. CASE v \notin ReadBy(source[n])
  <2>1. taken = {}
    BY <1>2, <1>4, NotTaken
  <2>2. \A w \in ReadBy(source[n]) : w \in Vreg /\ w # v
    BY <1>4 DEF ReadBy
  <2>3. TempsLeft(n)
    BY DEF IInv
  <2>4. (ReadBy(source[n]))' = ReadBy(source[n])
    BY <1>2 DEF ReadBy
  <2> QED BY <1>1, <1>2, <1>3, <2>1, <2>2, <2>3, <2>4 DEF TempsLeft
<1>5. CASE v \in ReadBy(source[n])
  <2> DEFINE temps == UseTemps(v, frame, usedTemp[n])
  <2>1. /\ temps.value \in Temps
        /\ temps.address \in Temps \cup {SP}
        /\ taken = {temps.value, temps.address} \ {SP}
        /\ usedTemp[n] = {} => {temps.value, temps.address} \ {SP} \subseteq {T0, FT0}
    BY <1>2, <1>5, TakenFacts
  <2> HIDE DEF temps, taken
  <2>2. usedTemp'[n] \subseteq Temps
    BY <1>1, <1>3, <2>1
  <2>3. ASSUME NEW w \in ReadBy(source[n]), ~Spilled(w)' PROVE usedTemp'[n] \subseteq {T0, FT0}
    <3>1. w \in Vreg /\ w # v /\ ~Spilled(w)
      BY <1>2, <2>3 DEF ReadBy
    <3>2. \E a, b \in Vreg : ReadBy(source[n]) \subseteq {a, b}
      BY ProgramFacts DEF IInv, TypeOK
    <3>3. \A u \in ReadBy(source[n]) : u = v \/ u = w
      BY <1>5, <3>1, <3>2
    <3>4. usedTemp[n] = {}
      BY <1>2, <3>1, <3>3 DEF IInv, TempsLeft
    <3> QED BY <1>1, <2>1, <3>4
  <2>4. (ReadBy(source[n]))' = ReadBy(source[n])
    BY <1>2 DEF ReadBy
  <2>5. \E w \in ReadBy(source[n]) : Spilled(w)'
    BY <1>2, <1>5
  <2> QED BY <2>2, <2>3, <2>4, <2>5 DEF TempsLeft
<1> QED BY <1>4, <1>5

LEMMA OperandsKept ==
  ASSUME IInv, NEW v \in Vreg, Spill(v), NEW n \in DOMAIN source
  PROVE  OperandsRight(n)' /\ code'[n].instr \in Instruction
<1> DEFINE from == source[n]
           to == code[n].instr
           next == code'[n].instr
           t == UseTemps(v, frame, usedTemp[n]).value
<1>1. /\ next = [to EXCEPT !.def = Replaced(to.def, v, DefTemp(v, frame)), !.use = Replaced(to.use, v, t)]
      /\ usedTemp'[n] = usedTemp[n] \cup TempsTaken(code[n].instr, v, frame, usedTemp[n])
  BY InstructionAfter
<1>2. to \in Instruction /\ OperandsRight(n)
  BY DEF IInv, TypeOK
<1>3. DefTemp(v, frame) \in Registers
  BY RegisterFacts DEF DefTemp, Temps
<1>4. t \in Registers
  <2>1. \A used : FirstFree(SpillGeneral, used) \in Registers /\ FirstFree(SpillFloat, used) \in Registers
    BY FirstFreeType
  <2> QED BY <2>1 DEF UseTemps
<1>5. \A k \in DOMAIN from.use : to.use[k] = v <=> from.use[k] = v
  BY <1>2, Mentions, SlotsAfter DEF IInv
<1>6. \A k \in DOMAIN from.def : to.def[k] = v <=> from.def[k] = v
  BY <1>2, Mentions, SlotsAfter DEF IInv
<1>7. \A k \in DOMAIN from.use : from.use[k] = v => t \in usedTemp'[n]
  <2> SUFFICES ASSUME NEW k \in DOMAIN from.use, from.use[k] = v PROVE t \in usedTemp'[n]
    OBVIOUS
  <2>1. v \in ReadBy(source[n])
    BY DEF ReadBy, ToSet
  <2>2. t \in TempsTaken(code[n].instr, v, frame, usedTemp[n])
    BY <2>1, TakenFacts, SlotsAfter, RegisterFacts
  <2> QED BY <1>1, <2>2
<1> HIDE DEF t, next, to
<1>8. /\ next = [op |-> to.op, num |-> to.num, def |-> Replaced(to.def, v, DefTemp(v, frame)),
                 use |-> Replaced(to.use, v, t), imm |-> to.imm]
      /\ to.op \in {"li", "add", "load", "store", "op"} /\ to.num \in Nat /\ to.imm \in Int
      /\ to.def \in Seq(Registers) /\ to.use \in Seq(Registers)
  BY <1>1, <1>2 DEF Instruction, to
<1>9. /\ next.use \in Seq(Registers) /\ next.def \in Seq(Registers)
      /\ DOMAIN next.use = DOMAIN to.use /\ DOMAIN next.def = DOMAIN to.def
      /\ \A k \in DOMAIN to.use : next.use[k] = IF to.use[k] = v THEN t ELSE to.use[k]
      /\ \A k \in DOMAIN to.def : next.def[k] = IF to.def[k] = v THEN DefTemp(v, frame) ELSE to.def[k]
  BY <1>3, <1>4, <1>8, ReplacedFacts
<1>10. next \in Instruction
  BY <1>8, <1>9 DEF Instruction
<1>11. /\ source' = source /\ slot'[v] = frame /\ Spilled(v)'
       /\ \A w \in Vreg : w # v => slot'[w] = slot[w] /\ (Spilled(w)' <=> Spilled(w))
  BY SlotsAfter
<1>12. /\ to.op = "op" /\ to.num = from.num
       /\ DOMAIN to.use = DOMAIN from.use /\ DOMAIN to.def = DOMAIN from.def
  BY <1>2 DEF OperandsRight, to
<1>13. ASSUME NEW k \in DOMAIN from.use
       PROVE  IF from.use[k] \in Vreg /\ Spilled(from.use[k])' THEN next.use[k] \in usedTemp'[n]
              ELSE next.use[k] = from.use[k]
  <2>1. CASE from.use[k] = v
    BY <1>5, <1>7, <1>9, <1>11, <1>12, <2>1 DEF to
  <2>2. CASE from.use[k] # v
    <3>1. next.use[k] = to.use[k]
      BY <1>5, <1>9, <1>12, <2>2 DEF to
    <3>2. IF from.use[k] \in Vreg /\ Spilled(from.use[k]) THEN to.use[k] \in usedTemp[n]
          ELSE to.use[k] = from.use[k]
      BY <1>2 DEF OperandsRight, to
    <3>3. usedTemp[n] \subseteq usedTemp'[n]
      BY <1>1
    <3> QED BY <1>11, <2>2, <3>1, <3>2, <3>3
  <2> QED BY <2>1, <2>2
<1>14. ASSUME NEW k \in DOMAIN from.def
       PROVE  next.def[k] = IF from.def[k] \in Vreg /\ Spilled(from.def[k])'
                            THEN DefTemp(from.def[k], slot'[from.def[k]])
                            ELSE from.def[k]
  <2>1. CASE from.def[k] = v
    BY <1>6, <1>9, <1>11, <1>12, <2>1 DEF to
  <2>2. CASE from.def[k] # v
    <3>1. next.def[k] = to.def[k]
      BY <1>6, <1>9, <1>12, <2>2 DEF to
    <3>2. to.def[k] = IF from.def[k] \in Vreg /\ Spilled(from.def[k])
                      THEN DefTemp(from.def[k], slot[from.def[k]])
                      ELSE from.def[k]
      BY <1>2 DEF OperandsRight, to
    <3> QED BY <1>11, <2>2, <3>1, <3>2
  <2> QED BY <2>1, <2>2
<1>15. OperandsRight(n)'
  BY <1>8, <1>9, <1>11, <1>12, <1>13, <1>14 DEF OperandsRight, next
<1> QED BY <1>10, <1>15 DEF next

LEMMA StoresKept ==
  ASSUME IInv, NEW v \in Vreg, Spill(v), NEW n \in DOMAIN source
  PROVE  StoresRight(n)' /\ code'[n].stores \in Seq(Instruction)
<1>1. code'[n].stores = IF v \in WrittenBy(source[n]) THEN Stores(v, frame) \o code[n].stores
                        ELSE code[n].stores
  BY InstructionAfter
<1>2. /\ source' = source /\ slot'[v] = frame /\ ~Spilled(v) /\ Spilled(v)' /\ frame \in Nat
      /\ \A w \in Vreg : w # v => slot'[w] = slot[w] /\ (Spilled(w)' <=> Spilled(w))
  BY SlotsAfter
<1>3. StoresRight(n) /\ code[n].stores \in Seq(Instruction)
  BY DEF IInv, TypeOK
<1>4. (WrittenBy(source[n]))' = WrittenBy(source[n]) /\ WrittenBy(source[n]) \subseteq Vreg
  BY <1>2 DEF WrittenBy
<1>5. CASE v \notin WrittenBy(source[n])
  <2>1. \A w \in WrittenBy(source[n]) : w \in Vreg /\ w # v
    BY <1>4, <1>5
  <2> QED BY <1>1, <1>2, <1>3, <1>4, <1>5, <2>1 DEF StoresRight
<1>6. CASE v \in WrittenBy(source[n])
  <2>1. \A w \in WrittenBy(source[n]) : w = v
    BY <1>6, ProgramFacts DEF IInv, TypeOK
  <2>2. code[n].stores = <<>>
    BY <1>2, <1>3, <2>1 DEF StoresRight
  <2>3. Stores(v, frame) \in Seq(Instruction)
    BY <1>2, StoresType
  <2>4. code'[n].stores = Stores(v, frame)
    BY <1>1, <1>6, <2>2, <2>3
  <2> QED BY <1>2, <1>4, <1>6, <2>1, <2>3, <2>4 DEF StoresRight
<1> QED BY <1>5, <1>6

LEMMA LoadsKept ==
  ASSUME IInv, NEW v \in Vreg, Spill(v), NEW n \in DOMAIN source
  PROVE  LoadsRight(n)' /\ code'[n].loads \in Seq(Instruction)
<1> DEFINE temps == UseTemps(v, frame, usedTemp[n])
           from == source[n]
<1>1. /\ code'[n].loads = IF v \in ReadBy(from) THEN code[n].loads \o Loads(frame, temps)
                          ELSE code[n].loads
      /\ usedTemp'[n] = usedTemp[n] \cup TempsTaken(code[n].instr, v, frame, usedTemp[n])
      /\ code'[n].instr = [code[n].instr EXCEPT
                             !.def = Replaced(code[n].instr.def, v, DefTemp(v, frame)),
                             !.use = Replaced(code[n].instr.use, v, temps.value)]
  BY InstructionAfter
<1>2. /\ source' = source /\ slot'[v] = frame /\ ~Spilled(v) /\ Spilled(v)' /\ frame \in Nat
      /\ \A w \in Vreg : w # v => slot'[w] = slot[w] /\ (Spilled(w)' <=> Spilled(w))
  BY SlotsAfter
<1>3. /\ LoadsRight(n) /\ OperandsRight(n) /\ code[n].loads \in Seq(Instruction)
      /\ code[n].instr \in Instruction /\ usedTemp[n] \subseteq Temps
  BY DEF IInv, TypeOK
<1>4. \A k \in DOMAIN from.use :
        (code[n].instr.use[k] = v <=> from.use[k] = v) /\ k \in DOMAIN code[n].instr.use
  BY <1>2, <1>3, Mentions DEF IInv, OperandsRight
<1>5. \A k \in DOMAIN from.use :
        code'[n].instr.use[k] = IF from.use[k] = v THEN temps.value ELSE code[n].instr.use[k]
  <2>1. code'[n].instr.use = Replaced(code[n].instr.use, v, temps.value)
    BY <1>1, <1>3 DEF Instruction
  <2> QED BY <1>4, <2>1 DEF Replaced
<1>6. \A k \in DOMAIN from.use :
        from.use[k] \in Vreg /\ Spilled(from.use[k]) => code[n].instr.use[k] \in usedTemp[n]
  BY <1>3 DEF OperandsRight
<1> HIDE DEF temps
<1>7. CASE v \notin ReadBy(from)
  <2>1. usedTemp'[n] = usedTemp[n]
    BY <1>1, <1>2, <1>7, NotTaken
  <2>2. \A k \in DOMAIN from.use : from.use[k] # v
    BY <1>7 DEF ReadBy, ToSet
  <2>3. ASSUME NEW m, IsMachine(m) PROVE LoadedOn(n, m)'
    <3>1. LoadedOn(n, m)
      BY <1>3, <2>3 DEF LoadsRight
    <3> QED BY <1>1, <1>2, <1>5, <1>7, <2>1, <2>2, <3>1 DEF LoadedOn
  <2> QED BY <1>1, <1>3, <1>7, <2>3 DEF LoadsRight
<1>8. CASE v \in ReadBy(from)
  <2>1. /\ temps.value \in Temps \ usedTemp[n]
        /\ temps.address \in (Temps \ usedTemp[n]) \cup {SP}
        /\ ~FitsImmediate(frame) => temps.address \in Temps
        /\ usedTemp'[n] = usedTemp[n] \cup ({temps.value, temps.address} \ {SP})
    BY <1>1, <1>2, <1>8, TakenFacts DEF temps
  <2>2. Loads(frame, temps) \in Seq(Instruction)
    BY <1>2, <2>1, LoadsType, RegisterFacts
  <2>3. ASSUME NEW m, IsMachine(m) PROVE LoadedOn(n, m)'
    <3> DEFINE m1 == Executed(code[n].loads, m)
               m2 == Executed(Loads(frame, temps), m1)
    <3>1. Executed(code'[n].loads, m) = m2
      BY <1>1, <1>3, <1>8, <2>2, ExecutedTwo
    <3>2. LoadedOn(n, m)
      BY <1>3, <2>3 DEF LoadsRight
    <3>3. /\ IsMachine(m1) /\ m1.mem = m.mem /\ m1.results = m.results
          /\ \A r \in Registers \ usedTemp[n] : m1.reg[r] = m.reg[r]
          /\ \A k \in DOMAIN from.use :
               from.use[k] \in Vreg /\ Spilled(from.use[k]) =>
                 m1.reg[code[n].instr.use[k]] = m.mem[slot[from.use[k]]]
      BY <3>2 DEF LoadedOn
    <3> HIDE DEF m1
    <3>4. /\ IsMachine(m2) /\ m2.mem = m1.mem /\ m2.results = m1.results
          /\ m2.reg[temps.value] = m1.mem[frame]
          /\ \A r \in Registers \ {temps.value, temps.address} : m2.reg[r] = m1.reg[r]
      BY <1>2, <2>1, <3>3, LoadsFacts
    <3> HIDE DEF m2
    <3>5. ASSUME NEW r \in Registers \ usedTemp'[n] PROVE m2.reg[r] = m.reg[r]
      <4>1. CASE r = SP
        BY <2>3, <3>4, <4>1 DEF IsMachine
      <4>2. CASE r # SP
        BY <2>1, <3>3, <3>4, <4>2
      <4> QED BY <4>1, <4>2
    <3>6. ASSUME NEW k \in DOMAIN from.use, from.use[k] \in Vreg, Spilled(from.use[k])'
          PROVE  m2.reg[code'[n].instr.use[k]] = m.mem[slot'[from.use[k]]]
      <4>1. CASE from.use[k] = v
        BY <1>2, <1>5, <3>3, <3>4, <4>1
      <4>2. CASE from.use[k] # v
        <5>1. Spilled(from.use[k]) /\ slot'[from.use[k]] = slot[from.use[k]]
          BY <1>2, <3>6, <4>2
        <5>2. code[n].instr.use[k] \in usedTemp[n] /\ code'[n].instr.use[k] = code[n].instr.use[k]
          BY <1>5, <1>6, <3>6, <4>2, <5>1
        <5>3. code[n].instr.use[k] \in Registers \ {temps.value, temps.address}
          BY <1>3, <2>1, <5>2, RegisterFacts
        <5> QED BY <3>3, <3>4, <3>6, <5>1, <5>2, <5>3
      <4> QED BY <4>1, <4>2
    <3> QED BY <1>2, <3>1, <3>3, <3>4, <3>5, <3>6 DEF LoadedOn
  <2> QED BY <1>1, <1>3, <1>8, <2>2, <2>3 DEF LoadsRight
<1> QED BY <1>7, <1>8

LEMMA NextIInv == IInv /\ [Next]_vars => IInv'
<1> SUFFICES ASSUME IInv, [Next]_vars PROVE IInv'
  OBVIOUS
<1>1. ASSUME NEW v \in Vreg, Spill(v) PROVE IInv'
  <2>1. /\ source' = source /\ frame' \in Nat /\ slot' \in [Vreg -> Nat \cup {NoSlot}]
        /\ SlotsApart'
    BY <1>1, SlotsAfter
  <2>2. ASSUME NEW n \in DOMAIN source
        PROVE  /\ TempsLeft(n)' /\ OperandsRight(n)' /\ LoadsRight(n)' /\ StoresRight(n)'
               /\ usedTemp'[n] \subseteq Temps
               /\ code'[n].instr \in Instruction /\ code'[n].loads \in Seq(Instruction)
               /\ code'[n].stores \in Seq(Instruction)
    BY <1>1, <2>2, TempsLeftKept, OperandsKept, LoadsKept, StoresKept
  <2>3. usedTemp' = [n \in DOMAIN source |-> usedTemp'[n]]
    BY <1>1 DEF Spill, Remembered, IInv, TypeOK
  <2>4. ASSUME NEW n \in DOMAIN source
        PROVE  code'[n] = [loads |-> code'[n].loads, instr |-> code'[n].instr, stores |-> code'[n].stores]
    BY <1>1, <2>4 DEF Spill, Expanded, IInv, TypeOK
  <2>5. code' = [n \in DOMAIN source |-> code'[n]]
    BY <1>1 DEF Spill, IInv, TypeOK
  <2>6. code' \in [DOMAIN source -> [loads : Seq(Instruction), instr : Instruction, stores : Seq(Instruction)]]
    BY <2>2, <2>4, <2>5
  <2>7. usedTemp' \in [DOMAIN source -> SUBSET Temps]
    BY <2>2, <2>3
  <2>8. failed' = FALSE
    <3>1. \A n \in DOMAIN source : NoTemp \notin usedTemp'[n]
      BY <2>2, RegisterFacts
    <3> QED BY <1>1, <3>1 DEF Spill, IInv, TypeOK
  <2>9. source \in Programs
    BY DEF IInv, TypeOK
  <2>10. TypeOK'
    BY <2>1, <2>6, <2>7, <2>8, <2>9 DEF TypeOK
  <2> QED BY <2>1, <2>2, <2>8, <2>10 DEF IInv
<1>2. CASE UNCHANGED vars
  <2>1. /\ source' = source /\ code' = code /\ slot' = slot /\ frame' = frame
        /\ usedTemp' = usedTemp /\ failed' = failed
    BY <1>2 DEF vars
  <2>2. TypeOK' /\ failed' = FALSE
    BY <2>1 DEF IInv, TypeOK
  <2>3. SlotsApart'
    BY <2>1 DEF IInv, SlotsApart, Spilled
  <2>4. ASSUME NEW n \in DOMAIN source
        PROVE  TempsLeft(n)' /\ OperandsRight(n)' /\ LoadsRight(n)' /\ StoresRight(n)'
    <3>1. TempsLeft(n)'
      BY <2>1 DEF IInv, TempsLeft, Spilled, ReadBy
    <3>2. OperandsRight(n)'
      BY <2>1 DEF IInv, OperandsRight, Spilled
    <3>3. LoadsRight(n)'
      BY <2>1 DEF IInv, LoadsRight, LoadedOn, Spilled
    <3>4. StoresRight(n)'
      BY <2>1 DEF IInv, StoresRight, Spilled, WrittenBy
    <3> QED BY <3>1, <3>2, <3>3, <3>4
  <2> QED BY <2>1, <2>2, <2>3, <2>4 DEF IInv
<1> QED BY <1>1, <1>2 DEF Next, AllSpilled

(* Every reachable state satisfies the invariant. *)
THEOREM InvariantHolds == Spec => []IInv
BY InitIInv, NextIInv, PTL DEF Spec

(* Types: the maps of spill stay within their ranges, whatever is spilled. *)
THEOREM TypeCorrect == Spec => []TypeOK
<1>1. IInv => TypeOK
  BY DEF IInv
<1> QED BY <1>1, InvariantHolds, PTL

(* spill never runs out of temporaries: its index into the lists stays in  *)
(* bounds for every program whose instructions read at most two virtual    *)
(* registers, whatever is spilled, in whatever order, at any offset.       *)
THEOREM TemporariesSuffice == Spec => []TempsSuffice
<1>1. IInv => TempsSuffice
  BY DEF IInv, TempsSuffice
<1> QED BY <1>1, InvariantHolds, PTL

-----------------------------------------------------------------------------
(* The meaning of a straight line of code. *)

IsTrace(f, c, n) ==
  f = [k \in 0 .. n |-> IF k = 0 THEN Start ELSE Executed(Whole(c[k]), f[k - 1])]

Traces(c, n) == \E f : IsTrace(f, c, n)

LEMMA TraceExists ==
  ASSUME NEW c, NEW n \in Nat
  PROVE  Traces(c, n)
<1> DEFINE Good == {k \in Nat : Traces(c, k)}
<1>1. 0 \in Good
  <2>1. IsTrace([k \in 0 .. 0 |-> Start], c, 0)
    BY DEF IsTrace
  <2> QED BY <2>1 DEF Traces
<1>2. ASSUME NEW k \in Good PROVE k + 1 \in Good
  <2>1. PICK f : IsTrace(f, c, k)
    BY DEF Traces
  <2> DEFINE g == [j \in 0 .. k + 1 |-> IF j = k + 1 THEN Executed(Whole(c[k + 1]), f[k]) ELSE f[j]]
  <2>2. \A j \in 0 .. k : f[j] = IF j = 0 THEN Start ELSE Executed(Whole(c[j]), f[j - 1])
    BY <2>1 DEF IsTrace
  <2>3. ASSUME NEW j \in 0 .. k + 1
        PROVE  g[j] = IF j = 0 THEN Start ELSE Executed(Whole(c[j]), g[j - 1])
    <3>1. CASE j = k + 1
      <4>1. k \in 0 .. k + 1 /\ k # k + 1 /\ g[k] = f[k] /\ j # 0 /\ j - 1 = k
        BY <3>1
      <4>2. g[j] = Executed(Whole(c[k + 1]), f[k])
        BY <3>1
      <4> HIDE DEF g
      <4> QED BY <3>1, <4>1, <4>2
    <3>2. CASE j # k + 1
      <4>1. j \in 0 .. k /\ g[j] = f[j] /\ (j # 0 => j - 1 \in 0 .. k + 1 /\ j - 1 # k + 1)
        BY <3>2
      <4>2. j # 0 => g[j - 1] = f[j - 1]
        BY <4>1
      <4> HIDE DEF g
      <4> QED BY <2>2, <4>1, <4>2
    <3> QED BY <3>1, <3>2
  <2>4. g = [j \in 0 .. k + 1 |-> g[j]]
    OBVIOUS
  <2>5. IsTrace(g, c, k + 1)
    <3> HIDE DEF g
    <3> QED BY <2>3, <2>4 DEF IsTrace
  <2> HIDE DEF g
  <2> QED BY <2>5 DEF Traces
<1>3. Good \in SUBSET Nat
  OBVIOUS
<1> HIDE DEF Good
<1>4. Good = Nat
  BY <1>1, <1>2, <1>3, NatInductionSet
<1> QED BY <1>4 DEF Good

LEMMA MeaningByTrace ==
  ASSUME NEW c, Len(c) \in Nat
  PROVE  \E f : /\ f[0] = Start
                /\ \A k \in 1 .. Len(c) : f[k] = Executed(Whole(c[k]), f[k - 1])
                /\ Meaning(c) = f[Len(c)].results
<1>1. \E f : IsTrace(f, c, Len(c))
  BY TraceExists DEF Traces
<1> DEFINE g == CHOOSE h : IsTrace(h, c, Len(c))
<1>2. IsTrace(g, c, Len(c))
  BY <1>1
<1>3. Meaning(c) = g[Len(c)].results
  BY DEF Meaning, IsTrace
<1> HIDE DEF g
<1>4. g[0] = Start /\ \A k \in 1 .. Len(c) : g[k] = Executed(Whole(c[k]), g[k - 1])
  <2>1. \A k \in 0 .. Len(c) : g[k] = IF k = 0 THEN Start ELSE Executed(Whole(c[k]), g[k - 1])
    BY <1>2 DEF IsTrace
  <2> QED BY <2>1
<1> QED BY <1>3, <1>4

-----------------------------------------------------------------------------
(* The code simulates the source: what a spilled operand held is in its    *)
(* slot, every other register of the source holds what it held.            *)

Related(a, b) ==
  /\ IsMachine(a) /\ IsMachine(b)
  /\ b.results = a.results
  /\ DOMAIN b.mem = {slot[v] : v \in Vreg}
  /\ \A r \in Scratch : b.reg[r] = a.reg[r]
  /\ \A v \in Vreg : IF Spilled(v) THEN b.mem[slot[v]] = a.reg[v] ELSE b.reg[v] = a.reg[v]

LEMMA StartRelated == IInv => Related(Start, Start)
<1> SUFFICES ASSUME IInv PROVE Related(Start, Start)
  OBVIOUS
<1>1. IsMachine(Start)
  BY RegisterFacts DEF IsMachine, Start
<1>2. \A v \in Vreg : Start.mem[slot[v]] = Unknown /\ Start.reg[v] = Unknown
  BY RegisterFacts DEF Start
<1>3. DOMAIN Start.mem = {slot[v] : v \in Vreg}
  BY DEF Start
<1> QED BY <1>1, <1>2, <1>3 DEF Related

(* An instruction of the program: what it read goes into every register it *)
(* writes and into the results.                                            *)
LEMMA ExecuteOp ==
  ASSUME NEW m, IsMachine(m), NEW instr, instr.op = "op", SP \notin ToSet(instr.def)
  PROVE  LET next == Execute(instr, m)
             result == [num |-> instr.num, read |-> [k \in DOMAIN instr.use |-> m.reg[instr.use[k]]]]
         IN /\ IsMachine(next)
            /\ next.mem = m.mem
            /\ next.results = Append(m.results, result)
            /\ \A r \in Registers : next.reg[r] = IF r \in ToSet(instr.def) THEN result ELSE m.reg[r]
<1> DEFINE result == [num |-> instr.num, read |-> [k \in DOMAIN instr.use |-> m.reg[instr.use[k]]]]
           reg == [r \in Registers |-> IF r \in ToSet(instr.def) THEN result ELSE m.reg[r]]
<1>1. Execute(instr, m) = [[m EXCEPT !.reg = reg] EXCEPT !.results = Append(@, result)]
  BY DEF Execute
<1>2. \A x : [m EXCEPT !.reg = x] = [reg |-> x, mem |-> m.mem, results |-> m.results]
  BY DEF IsMachine
<1>3. \A x, y, z, u : [[reg |-> x, mem |-> y, results |-> z] EXCEPT !.results = u]
                      = [reg |-> x, mem |-> y, results |-> u]
  OBVIOUS
<1>4. SP \in Registers /\ m.reg[SP] = Address(0)
  BY RegisterFacts DEF IsMachine
<1>5. /\ DOMAIN reg = Registers /\ reg[SP] = m.reg[SP]
      /\ \A r \in Registers : reg[r] = IF r \in ToSet(instr.def) THEN result ELSE m.reg[r]
  BY <1>4
<1> HIDE DEF reg, result
<1>6. Execute(instr, m) = [reg |-> reg, mem |-> m.mem, results |-> Append(m.results, result)]
  BY <1>1, <1>2, <1>3
<1> QED BY <1>4, <1>5, <1>6 DEF IsMachine, result

LEMMA ExecutedParts ==
  ASSUME NEW S, NEW s \in Seq(S), NEW instr \in S, NEW t \in Seq(S), NEW m
  PROVE  Executed(s \o <<instr>> \o t, m) = Executed(t, Execute(instr, Executed(s, m)))
<1> DEFINE one == <<instr>>
           start == s \o one
<1>1. one \in Seq(S) /\ start \in Seq(S)
  OBVIOUS
<1>2. Executed(one, Executed(s, m)) = Execute(instr, Executed(s, m))
  BY ExecutedOne
<1> HIDE DEF one
<1>3. Executed(start, m) = Executed(one, Executed(s, m))
  BY <1>1, ExecutedTwo
<1> HIDE DEF start
<1>4. Executed(start \o t, m) = Executed(t, Executed(start, m))
  BY <1>1, ExecutedTwo
<1> QED BY <1>2, <1>3, <1>4 DEF start, one

LEMMA WholeAlone ==
  ASSUME NEW instr, NEW m
  PROVE  Executed(Whole(Alone(instr)), m) = Execute(instr, m)
<1> DEFINE none == <<>>
           S == {instr}
<1>1. none \in Seq(S) /\ instr \in S
  OBVIOUS
<1>2. Whole(Alone(instr)) = none \o <<instr>> \o none
  BY DEF Whole, Alone
<1>3. \A x : Executed(none, x) = x
  BY ExecutedNothing
<1> HIDE DEF none, S
<1>4. Executed(none \o <<instr>> \o none, m) = Executed(none, Execute(instr, Executed(none, m)))
  BY <1>1, ExecutedParts
<1> QED BY <1>2, <1>3, <1>4

LEMMA WholeThree ==
  ASSUME NEW e \in [loads : Seq(Instruction), instr : Instruction, stores : Seq(Instruction)], NEW m
  PROVE  Executed(Whole(e), m) = Executed(e.stores, Execute(e.instr, Executed(e.loads, m)))
<1> DEFINE l == e.loads
           i == e.instr
           t == e.stores
<1>1. l \in Seq(Instruction) /\ i \in Instruction /\ t \in Seq(Instruction)
  OBVIOUS
<1>2. Whole(e) = l \o <<i>> \o t
  BY DEF Whole
<1> HIDE DEF l, i, t
<1>3. Executed(l \o <<i>> \o t, m) = Executed(t, Execute(i, Executed(l, m)))
  BY <1>1, ExecutedParts
<1> QED BY <1>2, <1>3 DEF l, i, t

(* An instruction with its loads and stores does to the machine of the     *)
(* code what the instruction does to that of the source.                   *)
LEMMA StepRelated ==
  ASSUME IInv, NEW n \in DOMAIN source, NEW a, NEW b, Related(a, b)
  PROVE  Related(Executed(Whole(Alone(source[n])), a), Executed(Whole(code[n]), b))
<1> DEFINE from == source[n]
           to == code[n].instr
           next == Execute(from, a)
           b1 == Executed(code[n].loads, b)
           b2 == Execute(to, b1)
           b3 == Executed(code[n].stores, b2)
           read == [k \in DOMAIN from.use |-> a.reg[from.use[k]]]
           result == [num |-> from.num, read |-> read]
<1>1. /\ TempsLeft(n) /\ OperandsRight(n) /\ LoadsRight(n) /\ StoresRight(n) /\ SlotsApart
      /\ code[n] \in [loads : Seq(Instruction), instr : Instruction, stores : Seq(Instruction)]
      /\ usedTemp[n] \subseteq Temps /\ slot \in [Vreg -> Nat \cup {NoSlot}]
  BY DEF IInv, TypeOK
<1>2. from \in ProgramInstr /\ \A v, w \in WrittenBy(from) : v = w
  BY ProgramFacts DEF IInv, TypeOK
<1>3. /\ Executed(Whole(Alone(from)), a) = next
      /\ Executed(Whole(code[n]), b) = b3
  BY <1>1, WholeAlone, WholeThree
<1>4. /\ from.op = "op" /\ from.use \in Seq(Vreg \cup Scratch) /\ from.def \in Seq(Vreg \cup Scratch)
      /\ \A k \in DOMAIN from.use : from.use[k] \in Vreg \cup Scratch
      /\ \A k \in DOMAIN from.def : from.def[k] \in Vreg \cup Scratch
  BY <1>2 DEF ProgramInstr
<1>5. SP \notin ToSet(from.def)
  BY <1>4, RegisterFacts DEF ToSet
<1>6. /\ to.op = "op" /\ to.num = from.num
      /\ DOMAIN to.use = DOMAIN from.use /\ DOMAIN to.def = DOMAIN from.def
      /\ \A k \in DOMAIN from.use :
           ~(from.use[k] \in Vreg /\ Spilled(from.use[k])) => to.use[k] = from.use[k]
      /\ \A k \in DOMAIN from.def :
           to.def[k] = IF from.def[k] \in Vreg /\ Spilled(from.def[k])
                       THEN DefTemp(from.def[k], slot[from.def[k]])
                       ELSE from.def[k]
  BY <1>1 DEF OperandsRight
<1>7. \A v, o : DefTemp(v, o) \in Temps
  BY DEF DefTemp, Temps
<1>8. SP \notin ToSet(to.def)
  BY <1>4, <1>6, <1>7, RegisterFacts DEF ToSet
<1>9. /\ IsMachine(a) /\ IsMachine(b)
      /\ b.results = a.results
      /\ DOMAIN b.mem = {slot[v] : v \in Vreg}
      /\ \A r \in Scratch : b.reg[r] = a.reg[r]
      /\ \A v \in Vreg : IF Spilled(v) THEN b.mem[slot[v]] = a.reg[v] ELSE b.reg[v] = a.reg[v]
  BY DEF Related
<1>10. /\ IsMachine(next) /\ next.results = Append(a.results, result)
       /\ \A r \in Registers : next.reg[r] = IF r \in ToSet(from.def) THEN result ELSE a.reg[r]
  BY <1>4, <1>5, <1>9, ExecuteOp
<1>11. /\ IsMachine(b1) /\ b1.mem = b.mem /\ b1.results = b.results
       /\ \A r \in Registers \ usedTemp[n] : b1.reg[r] = b.reg[r]
       /\ \A k \in DOMAIN from.use :
            from.use[k] \in Vreg /\ Spilled(from.use[k]) => b1.reg[to.use[k]] = b.mem[slot[from.use[k]]]
  BY <1>1, <1>9 DEF LoadsRight, LoadedOn
<1> HIDE DEF next, b1
<1>12. ASSUME NEW r \in Vreg \cup Scratch PROVE r \in Registers \ Temps /\ b1.reg[r] = b.reg[r]
  BY <1>1, <1>11, RegisterFacts
<1>13. ASSUME NEW k \in DOMAIN from.use PROVE b1.reg[to.use[k]] = a.reg[from.use[k]]
  <2>1. CASE from.use[k] \in Vreg /\ Spilled(from.use[k])
    BY <1>9, <1>11, <2>1
  <2>2. CASE ~(from.use[k] \in Vreg /\ Spilled(from.use[k]))
    <3>1. to.use[k] = from.use[k] /\ from.use[k] \in Vreg \cup Scratch
      BY <1>4, <1>6, <2>2
    <3>2. b1.reg[from.use[k]] = b.reg[from.use[k]]
      BY <1>12, <3>1
    <3>3. b.reg[from.use[k]] = a.reg[from.use[k]]
      BY <1>9, <2>2, <3>1
    <3> QED BY <3>1, <3>2, <3>3
  <2> QED BY <2>1, <2>2
<1>14. [num |-> to.num, read |-> [k \in DOMAIN to.use |-> b1.reg[to.use[k]]]] = result
  BY <1>6, <1>13
<1>15. /\ IsMachine(b2) /\ b2.mem = b1.mem /\ b2.results = Append(b1.results, result)
       /\ \A r \in Registers : b2.reg[r] = IF r \in ToSet(to.def) THEN result ELSE b1.reg[r]
  <2> DEFINE i == to
             outcome == [num |-> i.num, read |-> [k \in DOMAIN i.use |-> b1.reg[i.use[k]]]]
  <2>1. i.op = "op" /\ SP \notin ToSet(i.def) /\ outcome = result
    BY <1>6, <1>8, <1>14
  <2> HIDE DEF i, result
  <2>2. /\ IsMachine(Execute(i, b1)) /\ Execute(i, b1).mem = b1.mem
        /\ Execute(i, b1).results = Append(b1.results, outcome)
        /\ \A r \in Registers :
             Execute(i, b1).reg[r] = IF r \in ToSet(i.def) THEN outcome ELSE b1.reg[r]
    BY <1>11, <2>1, ExecuteOp
  <2> HIDE DEF outcome
  <2> QED BY <2>1, <2>2 DEF i
<1> HIDE DEF b2, result
<1>16. ASSUME NEW r \in Scratch PROVE b2.reg[r] = next.reg[r]
  <2>1. r \in ToSet(to.def) <=> r \in ToSet(from.def)
    BY <1>6, <1>7, RegisterFacts DEF ToSet
  <2> QED BY <1>9, <1>10, <1>12, <1>15, <2>1
<1>17. ASSUME NEW v \in Vreg, ~Spilled(v) PROVE b2.reg[v] = next.reg[v]
  <2>1. v \in ToSet(to.def) <=> v \in ToSet(from.def)
    BY <1>6, <1>7, <1>17, RegisterFacts DEF ToSet
  <2> QED BY <1>9, <1>10, <1>12, <1>15, <1>17, <2>1
<1>18. ASSUME NEW v \in Vreg, v \in WrittenBy(from), Spilled(v)
       PROVE  b2.reg[DefTemp(v, slot[v])] = result /\ next.reg[v] = result
  <2>1. v \in ToSet(from.def) /\ v \in Registers
    BY <1>18, RegisterFacts DEF WrittenBy
  <2>2. DefTemp(v, slot[v]) \in ToSet(to.def) /\ DefTemp(v, slot[v]) \in Registers
    BY <1>6, <1>7, <1>18, <2>1, RegisterFacts DEF ToSet
  <2> QED BY <1>10, <1>15, <2>1, <2>2
<1>19. ASSUME NEW v \in Vreg, v \notin WrittenBy(from), Spilled(v)
       PROVE  b2.mem[slot[v]] = next.reg[v]
  <2>1. v \notin ToSet(from.def) /\ v \in Registers
    BY <1>19, RegisterFacts DEF WrittenBy
  <2> QED BY <1>9, <1>10, <1>11, <1>15, <1>19, <2>1
<1>20. b2.results = next.results /\ DOMAIN b2.mem = {slot[v] : v \in Vreg}
  BY <1>9, <1>10, <1>11, <1>15
<1>21. CASE \A v \in WrittenBy(from) : ~Spilled(v)
  <2>1. b3 = b2
    BY <1>1, <1>21, ExecutedNothing DEF StoresRight
  <2>2. \A v \in Vreg : Spilled(v) => v \notin WrittenBy(from)
    BY <1>21
  <2> QED BY <1>3, <1>10, <1>15, <1>16, <1>17, <1>19, <1>20, <2>1, <2>2 DEF Related
<1>22. CASE ~\A v \in WrittenBy(from) : ~Spilled(v)
  <2>1. PICK v \in WrittenBy(from) : Spilled(v)
    BY <1>22
  <2>2. v \in Vreg /\ slot[v] \in Nat /\ slot[v] \in DOMAIN b2.mem
    BY <1>1, <1>20, <2>1 DEF WrittenBy, SlotsApart
  <2>3. code[n].stores = Stores(v, slot[v])
    BY <1>1, <2>1 DEF StoresRight
  <2>4. /\ IsMachine(b3)
        /\ b3.mem = [b2.mem EXCEPT ![slot[v]] = b2.reg[DefTemp(v, slot[v])]]
        /\ b3.results = b2.results
        /\ \A r \in Registers \ Temps : b3.reg[r] = b2.reg[r]
    BY <1>15, <2>2, <2>3, StoresFacts
  <2> HIDE DEF b3
  <2>5. b3.mem[slot[v]] = next.reg[v] /\ DOMAIN b3.mem = {slot[w] : w \in Vreg}
    BY <1>18, <1>20, <2>1, <2>2, <2>4
  <2>6. ASSUME NEW w \in Vreg, Spilled(w), w # v PROVE b3.mem[slot[w]] = next.reg[w]
    <3>1. slot[w] # slot[v] /\ slot[w] \in DOMAIN b2.mem
      BY <1>1, <1>20, <2>1, <2>2, <2>6 DEF SlotsApart
    <3>2. w \notin WrittenBy(from)
      BY <1>2, <2>6
    <3> QED BY <1>19, <2>4, <2>6, <3>1, <3>2
  <2>7. \A r \in Vreg \cup Scratch : b3.reg[r] = b2.reg[r]
    BY <1>12, <2>4
  <2> QED BY <1>3, <1>10, <1>16, <1>17, <1>20, <2>4, <2>5, <2>6, <2>7 DEF Related
<1> QED BY <1>21, <1>22

LEMMA InvariantMeaning == IInv => MeaningKept
<1> SUFFICES ASSUME IInv
             PROVE  Meaning(code) = Meaning([n \in DOMAIN source |-> Alone(source[n])])
  BY DEF MeaningKept
<1> DEFINE alone == [n \in DOMAIN source |-> Alone(source[n])]
           last == Len(source)
<1>1. source \in Seq(ProgramInstr) /\ last \in Nat /\ DOMAIN source = 1 .. last
  BY ProgramFacts DEF IInv, TypeOK
<1>2. Len(code) = last
  <2> DEFINE S == [loads : Seq(Instruction), instr : Instruction, stores : Seq(Instruction)]
  <2>1. code \in [1 .. last -> S]
    BY <1>1 DEF IInv, TypeOK
  <2> HIDE DEF S
  <2>2. code \in Seq(S) /\ DOMAIN code = 1 .. last
    BY <1>1, <2>1
  <2> QED BY <1>1, <2>2
<1>3. Len(alone) = last
  <2>1. alone \in [1 .. last -> {Alone(source[n]) : n \in 1 .. last}]
    BY <1>1
  <2>2. alone \in Seq({Alone(source[n]) : n \in 1 .. last}) /\ DOMAIN alone = 1 .. last
    BY <1>1, <2>1
  <2> QED BY <1>1, <2>2
<1>4. PICK f : /\ f[0] = Start
               /\ \A k \in 1 .. Len(alone) : f[k] = Executed(Whole(alone[k]), f[k - 1])
               /\ Meaning(alone) = f[Len(alone)].results
  BY <1>1, <1>3, MeaningByTrace
<1>5. PICK g : /\ g[0] = Start
               /\ \A k \in 1 .. Len(code) : g[k] = Executed(Whole(code[k]), g[k - 1])
               /\ Meaning(code) = g[Len(code)].results
  BY <1>1, <1>2, MeaningByTrace
<1>6. \A k \in 1 .. last : k \in DOMAIN source /\ alone[k] = Alone(source[k])
  BY <1>1
<1> HIDE DEF alone, last
<1> DEFINE Good == {k \in Nat : k <= last => Related(f[k], g[k])}
<1>7. 0 \in Good
  BY <1>4, <1>5, StartRelated
<1>8. ASSUME NEW k \in Good PROVE k + 1 \in Good
  <2> SUFFICES ASSUME k + 1 <= last PROVE Related(f[k + 1], g[k + 1])
    OBVIOUS
  <2>1. k \in Nat /\ k + 1 \in 1 .. last /\ (k + 1) - 1 = k /\ Related(f[k], g[k])
    BY <1>1
  <2>2. /\ f[k + 1] = Executed(Whole(Alone(source[k + 1])), f[k])
        /\ g[k + 1] = Executed(Whole(code[k + 1]), g[k])
    BY <1>2, <1>3, <1>4, <1>5, <1>6, <2>1
  <2> QED BY <1>6, <2>1, <2>2, StepRelated
<1>9. Good \in SUBSET Nat
  OBVIOUS
<1> HIDE DEF Good
<1>10. Good = Nat
  BY <1>7, <1>8, <1>9, NatInductionSet
<1>11. Related(f[last], g[last])
  BY <1>1, <1>10 DEF Good
<1> QED BY <1>2, <1>3, <1>4, <1>5, <1>11 DEF Related, alone

(* Spilling keeps what the code computes: every instruction of the program *)
(* reads the values it read before, for every program, every set of        *)
(* registers and every order in which operands are spilled.                *)
THEOREM SpillingKeepsMeaning == Spec => []MeaningKept
BY InvariantMeaning, InvariantHolds, PTL
=============================================================================
