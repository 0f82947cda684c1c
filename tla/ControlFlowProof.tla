-------------------------- MODULE ControlFlowProof --------------------------
(***************************************************************************)
(* What the blocks of a function are like, whatever the function: where    *)
(* they end, which of them add_terminator and remove_unused_block leave,   *)
(* and that the return block stays behind all others.                      *)
(*                                                                         *)
(* While irgen runs, the invariant relates the builder to the call stack:  *)
(* blocks that are fetched and not yet in the function belong to exactly   *)
(* one pending task, the loops that are open are the stacks of the         *)
(* builder, and no set of blocks of the function is closed under "goes to" *)
(* unless it has the return block, the current block or a pending one.     *)
(* The last part is what remove_unused_block needs: when nothing is        *)
(* pending, the return block can be reached from the entry, and a block    *)
(* that is left by all others is the only kind that goes.                  *)
(*                                                                         *)
(* "sure" is whether every break and continue is known to be in a loop:    *)
(* without that the invariant says nothing about where blocks go.          *)
(***************************************************************************)
EXTENDS ControlFlow, Induction

-----------------------------------------------------------------------------
(* Sequences. *)

(* Putting x in front of the last element. *)
Inserted(s, x, u) ==
  /\ u \in Seq(Nat) /\ Len(u) = Len(s) + 1
  /\ \A i \in 1 .. Len(s) - 1 : u[i] = s[i]
  /\ u[Len(s)] = x /\ u[Len(s) + 1] = s[Len(s)]
  /\ ToSet(u) = ToSet(s) \cup {x}

LEMMA InsertFacts ==
  ASSUME NEW s \in Seq(Nat), s # <<>>, NEW x \in Nat
  PROVE  Inserted(s, x, Front(s) \o <<x, Last(s)>>)
<1> DEFINE f == Front(s)
           l == <<x, Last(s)>>
           t == f \o l
<1>1. Len(s) \in Nat \ {0} /\ Last(s) = s[Len(s)] /\ Last(s) \in Nat
  BY FrontFacts
<1>2. f \in Seq(Nat) /\ Len(f) = Len(s) - 1 /\ \A i \in 1 .. Len(s) - 1 : f[i] = s[i]
  BY FrontFacts
<1>3. l \in Seq(Nat) /\ Len(l) = 2 /\ l[1] = x /\ l[2] = s[Len(s)]
  BY <1>1
<1> HIDE DEF f, l
<1>a. /\ t \in Seq(Nat) /\ Len(t) = Len(f) + Len(l)
      /\ \A i \in 1 .. Len(f) : t[i] = f[i]
      /\ \A i \in Len(f) + 1 .. Len(f) + Len(l) : t[i] = l[i - Len(f)]
  <2>1. Concatenated(Nat, f, l, t)
    BY <1>2, <1>3, ConcatFacts
  <2> QED BY <2>1 DEF Concatenated
<1> HIDE DEF t
<1>4. t \in Seq(Nat) /\ Len(t) = Len(s) + 1 /\ DOMAIN t = 1 .. Len(s) + 1 /\ DOMAIN s = 1 .. Len(s)
  BY <1>1, <1>2, <1>3, <1>a
<1>5. \A i \in 1 .. Len(s) - 1 : t[i] = s[i]
  BY <1>1, <1>2, <1>a
<1>6. t[Len(s)] = x /\ t[Len(s) + 1] = s[Len(s)]
  <2>1. Len(s) \in Len(f) + 1 .. Len(f) + Len(l) /\ Len(s) - Len(f) = 1
    BY <1>1, <1>2, <1>3
  <2>2. Len(s) + 1 \in Len(f) + 1 .. Len(f) + Len(l) /\ (Len(s) + 1) - Len(f) = 2
    BY <1>1, <1>2, <1>3
  <2>3. t[Len(s)] = l[1] /\ t[Len(s) + 1] = l[2]
    BY <1>a, <2>1, <2>2
  <2> QED BY <1>3, <2>3
<1>7. ToSet(t) = ToSet(s) \cup {x}
  <2>1. \A i \in 1 .. Len(s) + 1 : t[i] \in ToSet(s) \cup {x}
    <3> TAKE i \in 1 .. Len(s) + 1
    <3>1. CASE i \in 1 .. Len(s) - 1
      <4>1. i \in DOMAIN s /\ t[i] = s[i]
        BY <1>1, <1>4, <1>5, <3>1
      <4> QED BY <4>1 DEF ToSet
    <3>2. CASE i = Len(s)
      BY <1>6, <3>2
    <3>3. CASE i = Len(s) + 1
      <4>1. Len(s) \in DOMAIN s /\ t[i] = s[Len(s)]
        BY <1>1, <1>4, <1>6, <3>3
      <4> QED BY <4>1 DEF ToSet
    <3> QED BY <1>1, <3>1, <3>2, <3>3
  <2>2. \A i \in 1 .. Len(s) : s[i] \in ToSet(t)
    <3> TAKE i \in 1 .. Len(s)
    <3>1. CASE i \in 1 .. Len(s) - 1
      <4>1. i \in DOMAIN t /\ t[i] = s[i]
        BY <1>1, <1>4, <1>5, <3>1
      <4> QED BY <4>1 DEF ToSet
    <3>2. CASE i = Len(s)
      <4>1. Len(s) + 1 \in DOMAIN t /\ t[Len(s) + 1] = s[i]
        BY <1>1, <1>4, <1>6, <3>2
      <4> QED BY <4>1 DEF ToSet
    <3> QED BY <1>1, <3>1, <3>2
  <2>3. x \in ToSet(t)
    BY <1>1, <1>4, <1>6 DEF ToSet
  <2> QED BY <1>4, <2>1, <2>2, <2>3 DEF ToSet
<1> QED BY <1>4, <1>5, <1>6, <1>7 DEF t, f, l, Inserted

-----------------------------------------------------------------------------
(* What the builder always is, whatever the program. *)

Closed(b, k) == b.code[k] # <<>> /\ IsTerminator(Last(b.code[k]))
Exit(b, k) == Last(b.code[k])
Listed(b) == ToSet(b.list)

IsBuilder(b) ==
  {"code", "uses", "list", "cur", "returnBlock", "returnCell",
   "condStack", "tailStack", "nextBlock", "nextInst"} \subseteq DOMAIN b

Numbered(b) == b.nextBlock \in Nat

(* No instruction follows one that leaves its block. *)
EndsOnce(code) ==
  IsSeq(code) /\ \A i \in DOMAIN code : IsTerminator(code[i]) => i = Len(code)

Sound(b) ==
  /\ IsBuilder(b)
  /\ Numbered(b) /\ b.nextInst \in Nat
  /\ DOMAIN b.uses = DOMAIN b.code
  /\ \A k \in DOMAIN b.code : k \in Nat /\ k < b.nextBlock /\ EndsOnce(b.code[k])
  /\ b.list \in Seq(Nat) /\ Len(b.list) >= 2
  /\ Listed(b) \cup {b.cur} \subseteq DOMAIN b.code
  /\ b.list[Len(b.list)] = b.returnBlock /\ Closed(b, b.returnBlock)

(* The builder after new blocks are fetched. *)
NewBlocks(b, n) == b.nextBlock .. b.nextBlock + n - 1

Fetched(b, n, f) ==
  /\ IsBuilder(f) /\ f.list = b.list /\ f.cur = b.cur
  /\ f.returnBlock = b.returnBlock
  /\ f.condStack = b.condStack /\ f.tailStack = b.tailStack
  /\ f.nextBlock = b.nextBlock + n /\ f.nextInst = b.nextInst
  /\ DOMAIN f.code = DOMAIN b.code \cup NewBlocks(b, n) /\ DOMAIN f.uses = DOMAIN f.code
  /\ \A k \in NewBlocks(b, n) : f.code[k] = <<>> /\ f.uses[k] = {}
  /\ \A k \in DOMAIN b.code \ NewBlocks(b, n) : f.code[k] = b.code[k] /\ f.uses[k] = b.uses[k]

LEMMA FetchFacts ==
  ASSUME NEW b, IsBuilder(b), DOMAIN b.uses = DOMAIN b.code, NEW n \in Nat
  PROVE  Fetched(b, n, FetchBlocks(b, n))
<1> DEFINE code == [k \in DOMAIN b.code \cup NewBlocks(b, n) |-> IF k \in NewBlocks(b, n) THEN <<>> ELSE b.code[k]]
           uses == [k \in DOMAIN b.code \cup NewBlocks(b, n) |-> IF k \in NewBlocks(b, n) THEN {} ELSE b.uses[k]]
           f == FetchBlocks(b, n)
<1>1. /\ f.code = code /\ f.uses = uses /\ f.list = b.list /\ f.cur = b.cur
      /\ f.returnBlock = b.returnBlock /\ f.returnCell = b.returnCell
      /\ f.condStack = b.condStack /\ f.tailStack = b.tailStack
      /\ f.nextBlock = b.nextBlock + n /\ f.nextInst = b.nextInst /\ IsBuilder(f)
  BY DEF IsBuilder, FetchBlocks, NewBlocks
<1> HIDE DEF f
<1>2. DOMAIN f.code = DOMAIN b.code \cup NewBlocks(b, n) /\ DOMAIN f.uses = DOMAIN f.code
  BY <1>1
<1>3. \A k \in NewBlocks(b, n) : f.code[k] = <<>> /\ f.uses[k] = {}
  BY <1>1
<1>4. \A k \in DOMAIN b.code \ NewBlocks(b, n) : f.code[k] = b.code[k] /\ f.uses[k] = b.uses[k]
  BY <1>1
<1>5. Fetched(b, n, f)
  BY <1>1, <1>2, <1>3, <1>4 DEF Fetched
<1> QED BY <1>5 DEF f

(* The block that an instruction is appended to. *)
Home(b) == IF Closed(b, b.cur) THEN b.nextBlock ELSE b.cur

HasId(inst) == inst.id \in Nat
NextId(inst) == inst.id + 1
After(b) == IF Closed(b, b.cur) THEN b.nextBlock + 1 ELSE b.nextBlock

Grown(b, inst) == Append(IF Closed(b, b.cur) THEN <<>> ELSE b.code[b.cur], inst)

Emitted(b, inst, r) ==
  /\ IsBuilder(r) /\ r.list = b.list /\ r.cur = Home(b)
  /\ r.returnBlock = b.returnBlock
  /\ r.condStack = b.condStack /\ r.tailStack = b.tailStack
  /\ r.nextBlock = After(b) /\ r.nextInst = NextId(inst)
  /\ DOMAIN r.code = DOMAIN b.code \cup {Home(b)} /\ DOMAIN r.uses = DOMAIN r.code
  /\ r.code[Home(b)] = Grown(b, inst)
  /\ \A k \in DOMAIN b.code : k # Home(b) => r.code[k] = b.code[k]
  /\ \A k \in DOMAIN b.code :
       r.uses[k] = IF k \in Targets(inst) THEN b.uses[k] \cup {inst.id} ELSE b.uses[k]

LEMMA EmitFacts ==
  ASSUME NEW b, IsBuilder(b), DOMAIN b.uses = DOMAIN b.code, Numbered(b),
         b.cur \in DOMAIN b.code, b.nextBlock \notin DOMAIN b.code, NEW inst
  PROVE  Emitted(b, inst, Emit(b, inst))
<1> DEFINE uses == [k \in DOMAIN b.uses |-> IF k \in Targets(inst) THEN b.uses[k] \cup {inst.id}
                                            ELSE b.uses[k]]
           m == [b EXCEPT !.nextInst = inst.id + 1,
                          !.uses = [k \in DOMAIN @ |-> IF k \in Targets(inst) THEN @[k] \cup {inst.id}
                                                       ELSE @[k]]]
           o == OpenBlock(m)
           e == [o EXCEPT !.code[o.cur] = Append(@, inst)]
<1>1. /\ m.code = b.code /\ m.uses = uses /\ m.list = b.list /\ m.cur = b.cur
      /\ m.returnBlock = b.returnBlock /\ m.returnCell = b.returnCell
      /\ m.condStack = b.condStack /\ m.tailStack = b.tailStack
      /\ m.nextBlock = b.nextBlock /\ m.nextInst = NextId(inst) /\ IsBuilder(m)
  BY DEF IsBuilder, NextId
<1>2. Emit(b, inst) = e
  BY DEF Emit, AppendInstruction
<1> HIDE DEF m
<1>3. DOMAIN m.uses = DOMAIN b.code /\ (HasTerminator(m) <=> Closed(b, b.cur))
  BY <1>1 DEF HasTerminator, Closed
<1>4. CASE ~Closed(b, b.cur)
  <2>1. o = m
    BY <1>3, <1>4 DEF OpenBlock
  <2>2. /\ e.code = [b.code EXCEPT ![b.cur] = Append(@, inst)] /\ e.uses = uses
        /\ e.list = b.list /\ e.cur = b.cur /\ e.returnBlock = b.returnBlock
        /\ e.condStack = b.condStack /\ e.tailStack = b.tailStack
        /\ e.nextBlock = b.nextBlock /\ e.nextInst = NextId(inst) /\ IsBuilder(e)
    <3> HIDE DEF o
    <3> QED BY <1>1, <2>1 DEF IsBuilder
  <2> HIDE DEF e
  <2>3. Home(b) = b.cur /\ After(b) = b.nextBlock /\ Grown(b, inst) = Append(b.code[b.cur], inst)
    BY <1>4 DEF Home, After, Grown
  <2>4. Emitted(b, inst, e)
    BY <2>2, <2>3 DEF Emitted
  <2> QED BY <1>2, <2>4 DEF e
<1>5. CASE Closed(b, b.cur)
  <2> DEFINE f == FetchBlocks(m, 1)
             x == b.nextBlock
  <2>1. o = [f EXCEPT !.cur = x]
    BY <1>1, <1>3, <1>5 DEF OpenBlock, SetCurr
  <2>2. /\ IsBuilder(f) /\ f.list = b.list /\ f.returnBlock = b.returnBlock
        /\ f.condStack = b.condStack /\ f.tailStack = b.tailStack
        /\ f.nextBlock = x + 1 /\ f.nextInst = NextId(inst)
        /\ DOMAIN f.code = DOMAIN b.code \cup {x} /\ DOMAIN f.uses = DOMAIN f.code
        /\ f.code[x] = <<>> /\ \A k \in DOMAIN b.code : f.code[k] = b.code[k] /\ f.uses[k] = uses[k]
    <3> HIDE DEF uses
    <3> DEFINE one == 1
    <3>1. x = m.nextBlock /\ x \notin DOMAIN m.code /\ NewBlocks(m, one) = {x} /\ one \in Nat
          /\ m.nextBlock + one = x + 1
      BY <1>1 DEF NewBlocks, Numbered
    <3>2. f = FetchBlocks(m, one) /\ DOMAIN m.uses = DOMAIN m.code
      BY <1>1, <1>3
    <3> HIDE DEF x, f, o, e, one
    <3>3. Fetched(m, one, f)
      BY <1>1, <3>1, <3>2, FetchFacts
    <3> QED BY <1>1, <3>1, <3>3 DEF Fetched
  <2> HIDE DEF f, o
  <2>3. /\ o.cur = x /\ IsBuilder(o) /\ o.code = f.code /\ o.uses = f.uses /\ o.list = f.list
        /\ o.returnBlock = f.returnBlock /\ o.condStack = f.condStack
        /\ o.tailStack = f.tailStack /\ o.nextBlock = f.nextBlock /\ o.nextInst = f.nextInst
    BY <2>1, <2>2 DEF IsBuilder
  <2>4. /\ e.code = [f.code EXCEPT ![x] = Append(@, inst)] /\ e.uses = f.uses
        /\ e.list = b.list /\ e.cur = x /\ e.returnBlock = b.returnBlock
        /\ e.condStack = b.condStack /\ e.tailStack = b.tailStack
        /\ e.nextBlock = x + 1 /\ e.nextInst = NextId(inst) /\ IsBuilder(e)
    BY <2>2, <2>3 DEF IsBuilder
  <2> HIDE DEF e
  <2>5. Home(b) = x /\ After(b) = x + 1 /\ Grown(b, inst) = Append(<<>>, inst)
    BY <1>5 DEF Home, After, Grown, x
  <2> HIDE DEF x
  <2>6. /\ DOMAIN e.code = DOMAIN b.code \cup {x} /\ DOMAIN e.uses = DOMAIN e.code
        /\ e.code[x] = Append(<<>>, inst)
        /\ \A k \in DOMAIN b.code : k # x => e.code[k] = b.code[k]
    BY <2>2, <2>4
  <2>7. \A k \in DOMAIN b.code :
          e.uses[k] = IF k \in Targets(inst) THEN b.uses[k] \cup {inst.id} ELSE b.uses[k]
    BY <2>2, <2>4
  <2> HIDE DEF uses
  <2>8. Emitted(b, inst, e)
    BY <2>4, <2>5, <2>6, <2>7 DEF Emitted
  <2> QED BY <1>2, <2>8 DEF e
<1> QED BY <1>4, <1>5

Entered(b, x, e) ==
  /\ IsBuilder(e) /\ e.list = Front(b.list) \o <<x, Last(b.list)>> /\ e.cur = x
  /\ e.code = b.code /\ e.uses = b.uses /\ e.returnBlock = b.returnBlock
  /\ e.condStack = b.condStack /\ e.tailStack = b.tailStack
  /\ e.nextBlock = b.nextBlock /\ e.nextInst = b.nextInst

LEMMA EnterFacts ==
  ASSUME NEW b, IsBuilder(b), NEW x
  PROVE  Entered(b, x, Enter(b, x))
  BY DEF IsBuilder, Enter, SetCurr, AppendBlock, Entered

Fetching(b, n, f) ==
  /\ Sound(f) /\ DOMAIN f.code = DOMAIN b.code \cup NewBlocks(b, n)
  /\ \A k \in NewBlocks(b, n) : k \notin DOMAIN b.code /\ f.code[k] = <<>> /\ f.uses[k] = {}
  /\ \A k \in DOMAIN b.code : f.code[k] = b.code[k] /\ f.uses[k] = b.uses[k]
  /\ f.list = b.list /\ f.cur = b.cur /\ f.returnBlock = b.returnBlock
  /\ f.condStack = b.condStack /\ f.tailStack = b.tailStack
  /\ f.nextBlock = b.nextBlock + n /\ f.nextInst = b.nextInst

LEMMA SoundFetch ==
  ASSUME NEW b, Sound(b), NEW n \in Nat, NEW f, f = FetchBlocks(b, n)
  PROVE  Fetching(b, n, f)
<1>1. IsBuilder(b) /\ DOMAIN b.uses = DOMAIN b.code
  BY DEF Sound
<1>2. /\ IsBuilder(f) /\ f.list = b.list /\ f.cur = b.cur
      /\ f.returnBlock = b.returnBlock
      /\ f.condStack = b.condStack /\ f.tailStack = b.tailStack
      /\ f.nextBlock = b.nextBlock + n /\ f.nextInst = b.nextInst
      /\ DOMAIN f.code = DOMAIN b.code \cup NewBlocks(b, n) /\ DOMAIN f.uses = DOMAIN f.code
      /\ \A k \in NewBlocks(b, n) : f.code[k] = <<>> /\ f.uses[k] = {}
      /\ \A k \in DOMAIN b.code \ NewBlocks(b, n) : f.code[k] = b.code[k] /\ f.uses[k] = b.uses[k]
  <2>1. Fetched(b, n, f)
    BY <1>1, FetchFacts
  <2> QED BY <2>1 DEF Fetched
<1>3. \A k \in NewBlocks(b, n) : k \in Nat /\ k < b.nextBlock + n /\ k \notin DOMAIN b.code
  BY DEF Sound, NewBlocks, Numbered
<1>4. \A k \in DOMAIN b.code : k \in Nat /\ k < b.nextBlock + n /\ EndsOnce(b.code[k])
  BY DEF Sound, Numbered
<1>5. \A k \in DOMAIN b.code : f.code[k] = b.code[k] /\ f.uses[k] = b.uses[k]
  BY <1>2, <1>3
<1>6. EndsOnce(<<>>)
  BY NothingIsSeq DEF EndsOnce
<1>7. ASSUME NEW k \in DOMAIN f.code
      PROVE  k \in Nat /\ k < f.nextBlock /\ EndsOnce(f.code[k])
  BY <1>2, <1>3, <1>4, <1>5, <1>6
<1>8. Numbered(f) /\ f.nextInst \in Nat
  BY <1>2 DEF Sound, Numbered
<1>9. b.returnBlock \in DOMAIN b.code
  BY DEF Sound, Listed, ToSet
<1>10. Closed(f, f.returnBlock)
  BY <1>2, <1>5, <1>9 DEF Sound, Closed
<1>11. Listed(f) \cup {f.cur} \subseteq DOMAIN f.code
  BY <1>2 DEF Sound, Listed
<1>12. Sound(f)
  BY <1>2, <1>7, <1>8, <1>10, <1>11 DEF Sound
<1> QED BY <1>2, <1>3, <1>5, <1>12 DEF Fetching

(* An open block stays one that ends once when an instruction is appended, *)
(* and no other block changes.                                             *)
Emitting(b, inst, e) ==
  /\ Sound(e) /\ e.list = b.list /\ e.cur = Home(b) /\ e.returnBlock = b.returnBlock
  /\ e.condStack = b.condStack /\ e.tailStack = b.tailStack
  /\ e.nextInst = NextId(inst)
  /\ e.nextBlock \in Nat /\ b.nextBlock <= e.nextBlock
  /\ DOMAIN e.code = DOMAIN b.code \cup {Home(b)}
  /\ IF Closed(b, b.cur) THEN Home(b) \notin DOMAIN b.code ELSE Home(b) = b.cur
  /\ e.code[Home(b)] = Grown(b, inst)
  /\ Exit(e, Home(b)) = inst /\ (Closed(e, Home(b)) <=> IsTerminator(inst))
  /\ \A k \in DOMAIN b.code : k # Home(b) => e.code[k] = b.code[k]
  /\ \A k \in DOMAIN b.code :
       e.uses[k] = IF k \in Targets(inst) THEN b.uses[k] \cup {inst.id} ELSE b.uses[k]

LEMMA SoundEmit ==
  ASSUME NEW b, Sound(b), NEW inst, HasId(inst), NEW e, e = Emit(b, inst)
  PROVE  Emitting(b, inst, e)
<1>1. /\ IsBuilder(b) /\ DOMAIN b.uses = DOMAIN b.code /\ Numbered(b)
      /\ b.cur \in DOMAIN b.code /\ b.nextBlock \notin DOMAIN b.code
  BY DEF Sound, Numbered
<1>2. /\ IsBuilder(e) /\ e.list = b.list /\ e.cur = Home(b)
      /\ e.returnBlock = b.returnBlock
      /\ e.condStack = b.condStack /\ e.tailStack = b.tailStack
      /\ e.nextBlock = After(b)
      /\ e.nextInst = NextId(inst)
      /\ DOMAIN e.code = DOMAIN b.code \cup {Home(b)} /\ DOMAIN e.uses = DOMAIN e.code
      /\ e.code[Home(b)] = Grown(b, inst)
      /\ \A k \in DOMAIN b.code : k # Home(b) => e.code[k] = b.code[k]
      /\ \A k \in DOMAIN b.code :
           e.uses[k] = IF k \in Targets(inst) THEN b.uses[k] \cup {inst.id} ELSE b.uses[k]
  <2>1. Emitted(b, inst, Emit(b, inst))
    BY <1>1, EmitFacts
  <2> QED BY <2>1 DEF Emitted
<1> DEFINE old == IF Closed(b, b.cur) THEN <<>> ELSE b.code[b.cur]
<1>3. EndsOnce(old) /\ \A i \in DOMAIN old : ~IsTerminator(old[i])
  <2>1. CASE Closed(b, b.cur)
    BY <2>1, NothingIsSeq DEF EndsOnce
  <2>2. CASE ~Closed(b, b.cur)
    <3>1. EndsOnce(b.code[b.cur]) /\ old = b.code[b.cur]
      BY <1>1, <2>2 DEF Sound
    <3>2. ASSUME NEW i \in DOMAIN old, IsTerminator(old[i]) PROVE FALSE
      <4>1. i = Len(old) /\ IsSeq(old)
        BY <3>1, <3>2 DEF EndsOnce
      <4>2. old # <<>>
        BY <3>2
      <4>3. Last(old) = old[i]
        BY <4>1, <4>2, LastFacts
      <4> QED BY <2>2, <3>1, <3>2, <4>2, <4>3 DEF Closed
    <3> QED BY <3>1, <3>2
  <2> QED BY <2>1, <2>2
<1>4. e.code[Home(b)] = Append(old, inst)
  BY <1>2 DEF Grown
<1> HIDE DEF old
<1>5. /\ IsSeq(Append(old, inst)) /\ Len(old) \in Nat
      /\ DOMAIN old = 1 .. Len(old) /\ DOMAIN Append(old, inst) = 1 .. Len(old) + 1
      /\ Len(Append(old, inst)) = Len(old) + 1
      /\ \A i \in 1 .. Len(old) : Append(old, inst)[i] = old[i]
      /\ Append(old, inst) # <<>> /\ Last(Append(old, inst)) = inst
  BY <1>3, AppendFacts DEF EndsOnce
<1>6. EndsOnce(Append(old, inst))
  <2>1. ASSUME NEW i \in DOMAIN Append(old, inst), IsTerminator(Append(old, inst)[i])
        PROVE  i = Len(Append(old, inst))
    <3>1. i \in 1 .. Len(old) \/ i = Len(old) + 1
      BY <1>5
    <3>2. CASE i \in 1 .. Len(old)
      BY <1>3, <1>5, <2>1, <3>2
    <3> QED BY <1>5, <3>1, <3>2
  <2> QED BY <1>5, <2>1 DEF EndsOnce
<1>7. Exit(e, Home(b)) = inst /\ (Closed(e, Home(b)) <=> IsTerminator(inst))
  BY <1>4, <1>5 DEF Exit, Closed
<1>8. IF Closed(b, b.cur) THEN Home(b) \notin DOMAIN b.code ELSE Home(b) = b.cur
  BY <1>1 DEF Home
<1>9. /\ e.nextBlock \in Nat /\ b.nextBlock <= e.nextBlock
      /\ Home(b) \in Nat /\ Home(b) < e.nextBlock
  BY <1>1, <1>2 DEF Home, After, Numbered, Sound
<1>10. ASSUME NEW k \in DOMAIN e.code
       PROVE  k \in Nat /\ k < e.nextBlock /\ EndsOnce(e.code[k])
  <2>1. CASE k = Home(b)
    BY <1>4, <1>6, <1>9, <2>1
  <2>2. CASE k # Home(b)
    <3>1. k \in DOMAIN b.code /\ e.code[k] = b.code[k]
      BY <1>2, <2>2
    <3>2. k \in Nat /\ k < b.nextBlock /\ EndsOnce(b.code[k]) /\ b.nextBlock \in Nat
      BY <3>1 DEF Sound, Numbered
    <3> QED BY <1>9, <3>1, <3>2
  <2> QED BY <2>1, <2>2
<1>11. b.returnBlock \in DOMAIN b.code /\ b.returnBlock # Home(b)
  <2>1. b.returnBlock \in DOMAIN b.code
    BY DEF Sound, Listed, ToSet
  <2>2. b.returnBlock # Home(b)
    BY <1>8, <2>1 DEF Sound
  <2> QED BY <2>1, <2>2
<1>12. Closed(e, e.returnBlock)
  BY <1>2, <1>11 DEF Sound, Closed
<1>13. Numbered(e) /\ e.nextInst \in Nat
  BY <1>2, <1>9 DEF Numbered, HasId, NextId
<1>14. Sound(e)
  <2>1. Listed(e) \cup {e.cur} \subseteq DOMAIN e.code
    BY <1>2 DEF Sound, Listed
  <2> QED BY <1>2, <1>10, <1>12, <1>13, <2>1 DEF Sound
<1> QED BY <1>2, <1>7, <1>8, <1>9, <1>14 DEF Emitting

Entering(b, x, e) ==
  /\ Sound(e) /\ e.cur = x /\ e.code = b.code /\ e.uses = b.uses
  /\ e.returnBlock = b.returnBlock
  /\ e.condStack = b.condStack /\ e.tailStack = b.tailStack
  /\ e.nextBlock = b.nextBlock /\ e.nextInst = b.nextInst
  /\ Len(b.list) \in Nat /\ Len(e.list) = Len(b.list) + 1
  /\ \A i \in 1 .. Len(b.list) - 1 : e.list[i] = b.list[i]
  /\ e.list[Len(b.list)] = x /\ e.list[Len(b.list) + 1] = b.returnBlock
  /\ Listed(e) = Listed(b) \cup {x}

LEMMA SoundEnter ==
  ASSUME NEW b, Sound(b), NEW x \in DOMAIN b.code, NEW e, e = Enter(b, x)
  PROVE  Entering(b, x, e)
<1>1. IsBuilder(b) /\ x \in Nat /\ b.list \in Seq(Nat) /\ Len(b.list) \in Nat /\ b.list # <<>>
  BY DEF Sound
<1>2. /\ IsBuilder(e) /\ e.list = Front(b.list) \o <<x, Last(b.list)>> /\ e.cur = x
      /\ e.code = b.code /\ e.uses = b.uses /\ e.returnBlock = b.returnBlock
      /\ e.condStack = b.condStack /\ e.tailStack = b.tailStack
      /\ e.nextBlock = b.nextBlock /\ e.nextInst = b.nextInst
  <2>1. Entered(b, x, e)
    BY <1>1, EnterFacts
  <2> QED BY <2>1 DEF Entered
<1>3. /\ e.list \in Seq(Nat) /\ Len(e.list) = Len(b.list) + 1
      /\ \A i \in 1 .. Len(b.list) - 1 : e.list[i] = b.list[i]
      /\ e.list[Len(b.list)] = x /\ e.list[Len(b.list) + 1] = b.list[Len(b.list)]
      /\ ToSet(e.list) = ToSet(b.list) \cup {x}
  <2>1. Inserted(b.list, x, Front(b.list) \o <<x, Last(b.list)>>)
    BY <1>1, InsertFacts
  <2> QED BY <1>2, <2>1 DEF Inserted
<1>4. Sound(e)
  <2>1. Closed(e, e.returnBlock)
    BY <1>2 DEF Sound, Closed
  <2>2. Numbered(e) /\ e.nextInst \in Nat
    BY <1>2 DEF Sound, Numbered
  <2>3. Listed(e) \cup {e.cur} \subseteq DOMAIN e.code
    BY <1>2, <1>3 DEF Sound, Listed
  <2>4. e.list[Len(e.list)] = e.returnBlock /\ Len(e.list) >= 2
    <3>1. Len(e.list) = Len(b.list) + 1 /\ e.list[Len(b.list) + 1] = b.list[Len(b.list)]
          /\ Len(e.list) >= 2
      BY <1>1, <1>3
    <3>2. b.list[Len(b.list)] = b.returnBlock
      BY DEF Sound
    <3> QED BY <1>2, <3>1, <3>2
  <2>5. /\ DOMAIN e.uses = DOMAIN e.code
        /\ \A k \in DOMAIN e.code : k \in Nat /\ k < e.nextBlock /\ EndsOnce(e.code[k])
    BY <1>2 DEF Sound
  <2> QED BY <1>2, <1>3, <2>1, <2>2, <2>3, <2>4, <2>5 DEF Sound
<1>5. e.list[Len(b.list) + 1] = b.returnBlock
  BY <1>3 DEF Sound
<1> QED BY <1>1, <1>2, <1>3, <1>4, <1>5 DEF Listed, Entering

-----------------------------------------------------------------------------
(* The blocks of the function and those that calls of irgen have still to  *)
(* put into it.                                                            *)

LoopTasks == {"body", "endwhile"}
StatementTasks == {"then", "else", "endif"} \cup LoopTasks
LogicalTasks == {"left", "right"}
ConditionTasks == {"condition", "not"} \cup LogicalTasks

(* The blocks that are fetched and not yet in the function. *)
Pending(t) ==
  CASE t.task = "then" -> t.first .. TailOfIf(t.s, t.first)
    [] t.task = "else" -> t.first + 1 .. TailOfIf(t.s, t.first)
    [] t.task = "endif" -> {TailOfIf(t.s, t.first)}
    [] t.task = "body" -> {t.first + 1, t.first + 2}
    [] t.task = "endwhile" -> {t.first + 2}
    [] t.task = "left" -> t.of.first .. t.of.first + 3
    [] t.task = "right" -> t.of.first + 1 .. t.of.first + 3
    [] OTHER -> {}

AllPending(w) == UNION {Pending(w[i]) : i \in DOMAIN w}

(* S has every block that a block of S goes to, over its last instruction  *)
(* or, as add_terminator will make it, from the end of its code.           *)
Onto(b, S) ==
  \A p \in DOMAIN b.list : b.list[p] \in S =>
    IF Closed(b, b.list[p]) THEN Targets(Exit(b, b.list[p])) \subseteq S
    ELSE b.list[p] # b.cur => b.list[p + 1] \in S

(* From k every way that is not finished leads to u. *)
Leads(b, k, u) == \A S : k \in S /\ Onto(b, S) => u \in S

(* Where ways out of the blocks of the function end. *)
Ends(b, P) == P \cup {b.returnBlock} \cup {k \in {b.cur} \cap Listed(b) : ~Closed(b, k)}

NoTrap(b, P) ==
  \A S : Onto(b, S) /\ S \cap Listed(b) # {} => S \cap Ends(b, P) # {}

Placed(b, P) ==
  /\ IsInjective(b.list)
  /\ P \subseteq DOMAIN b.code
  /\ \A k \in P : k \notin Listed(b) /\ k # b.cur /\ b.code[k] = <<>>
  /\ b.cur \in Listed(b) => b.cur = b.list[Len(b.list) - 1]
  /\ \A p \in DOMAIN b.list :
       ~Closed(b, b.list[p]) /\ b.list[p] # b.cur => p + 1 < Len(b.list)

GoesOn(b, P) ==
  \A k \in Listed(b) : Closed(b, k) => Targets(Exit(b, k)) \subseteq Listed(b) \cup P

(* The instructions have ids of their own and are in the uses of their     *)
(* targets.                                                                *)
UsesKnown(b) ==
  /\ \A k \in DOMAIN b.code : \A i \in DOMAIN b.code[k] :
       /\ b.code[k][i].id \in Nat /\ b.code[k][i].id < b.nextInst
       /\ \A t \in Targets(b.code[k][i]) :
            t \in DOMAIN b.code /\ b.code[k][i].id \in b.uses[t]
  /\ \A k, l \in DOMAIN b.code : \A i \in DOMAIN b.code[k], j \in DOMAIN b.code[l] :
       b.code[k][i].id = b.code[l][j].id => k = l

Whole(b, P) == GoesOn(b, P) /\ UsesKnown(b) /\ NoTrap(b, P)

(* A break or continue that is in no loop goes anywhere: where the blocks  *)
(* go is only sure without one.                                            *)
Good(b, P, sure) == Sound(b) /\ Placed(b, P) /\ (sure => Whole(b, P))

(* Later builders: what is in the function stays and goes on at least to   *)
(* the same blocks.                                                        *)
Onwards(b, c) == Listed(b) \subseteq Listed(c) /\ \A S : Onto(c, S) => Onto(b, S)

(* Operations that leave the blocks alone. *)
SameBlocks(b, c) ==
  /\ IsBuilder(c) /\ c.nextInst \in Nat /\ b.nextInst <= c.nextInst
  /\ c.code = b.code /\ c.uses = b.uses /\ c.list = b.list /\ c.cur = b.cur
  /\ c.returnBlock = b.returnBlock /\ c.nextBlock = b.nextBlock

LEMMA GoodSame ==
  ASSUME NEW b, NEW P, NEW sure, Good(b, P, sure), NEW c, SameBlocks(b, c)
  PROVE  Good(c, P, sure) /\ Onwards(b, c)
<1>1. \A k : (Closed(c, k) <=> Closed(b, k)) /\ Exit(c, k) = Exit(b, k)
  BY DEF Closed, Exit, SameBlocks
<1>2. Listed(c) = Listed(b)
  BY DEF Listed, SameBlocks
<1>3. Sound(c)
  BY <1>1, <1>2 DEF Good, Sound, SameBlocks, Numbered
<1>4. \A S : Onto(c, S) <=> Onto(b, S)
  BY <1>1 DEF Onto, SameBlocks
<1>p. Placed(b, P)
  BY DEF Good
<1>q. Placed(c, P)
  BY <1>1, <1>2, <1>p DEF Placed, SameBlocks
<1>5. ASSUME sure PROVE Whole(c, P)
  <2>1. Whole(b, P)
    BY <1>5 DEF Good
  <2>3. GoesOn(c, P)
    BY <1>1, <1>2, <2>1 DEF Whole, GoesOn
  <2>4. UsesKnown(c)
    <3>1. ASSUME NEW k \in DOMAIN c.code, NEW i \in DOMAIN c.code[k]
          PROVE  /\ c.code[k][i].id \in Nat /\ c.code[k][i].id < c.nextInst
                 /\ \A t \in Targets(c.code[k][i]) :
                      t \in DOMAIN c.code /\ c.code[k][i].id \in c.uses[t]
      <4> DEFINE d == c.code[k][i].id
      <4>1. d \in Nat /\ d < b.nextInst
        BY <2>1 DEF Whole, UsesKnown, SameBlocks
      <4>2. b.nextInst \in Nat /\ c.nextInst \in Nat /\ b.nextInst <= c.nextInst
        BY DEF Good, Sound, SameBlocks
      <4>3. \A t \in Targets(c.code[k][i]) : t \in DOMAIN c.code /\ d \in c.uses[t]
        BY <2>1 DEF Whole, UsesKnown, SameBlocks
      <4> HIDE DEF d
      <4>4. d < c.nextInst
        BY <4>1, <4>2
      <4> QED BY <4>1, <4>3, <4>4 DEF d
    <3>2. \A k, l \in DOMAIN c.code : \A i \in DOMAIN c.code[k], j \in DOMAIN c.code[l] :
            c.code[k][i].id = c.code[l][j].id => k = l
      BY <2>1 DEF Whole, UsesKnown, SameBlocks
    <3> QED BY <3>1, <3>2 DEF UsesKnown
  <2>5. NoTrap(c, P)
    <3>1. Ends(c, P) = Ends(b, P)
      BY <1>1, <1>2 DEF Ends, SameBlocks
    <3> QED BY <1>2, <1>4, <2>1, <3>1 DEF Whole, NoTrap
  <2> QED BY <2>3, <2>4, <2>5 DEF Whole
<1> QED BY <1>2, <1>3, <1>4, <1>5, <1>q DEF Good, Onwards

LEMMA GoodFetch ==
  ASSUME NEW b, NEW P, NEW sure, Good(b, P, sure), NEW n \in Nat, NEW f, f = FetchBlocks(b, n)
  PROVE  Good(f, P \cup NewBlocks(b, n), sure) /\ Onwards(b, f) /\ Fetching(b, n, f)
<1> DEFINE Q == P \cup NewBlocks(b, n)
<1>0. Sound(b)
  BY DEF Good
<1>1. Fetching(b, n, f)
  BY <1>0, SoundFetch
<1>2. \A k \in DOMAIN b.code : (Closed(f, k) <=> Closed(b, k)) /\ Exit(f, k) = Exit(b, k)
  BY <1>1 DEF Closed, Exit, Fetching
<1>3. Listed(f) = Listed(b) /\ Listed(b) \cup {b.cur} \subseteq DOMAIN b.code
      /\ \A p \in DOMAIN b.list : b.list[p] \in DOMAIN b.code
  BY <1>0, <1>1 DEF Listed, Fetching, Sound, ToSet
<1>4. \A S : Onto(f, S) <=> Onto(b, S)
  <2>1. f.list = b.list /\ f.cur = b.cur
    BY <1>1 DEF Fetching
  <2>2. \A p \in DOMAIN b.list : /\ Closed(f, b.list[p]) <=> Closed(b, b.list[p])
                                 /\ Exit(f, b.list[p]) = Exit(b, b.list[p])
    BY <1>2, <1>3
  <2> QED BY ONLY <2>1, <2>2 DEF Onto
<1>p. Placed(b, P)
  BY DEF Good
<1>q. Placed(f, Q)
  <2>1. IsInjective(f.list)
    BY <1>1, <1>p DEF Fetching, Placed
  <2>2. Q \subseteq DOMAIN f.code
    BY <1>1, <1>p DEF Fetching, Placed
  <2>3. \A k \in Q : k \notin Listed(f) /\ k # f.cur /\ f.code[k] = <<>>
    BY <1>1, <1>3, <1>p DEF Fetching, Placed
  <2>4. f.cur \in Listed(f) => f.cur = f.list[Len(f.list) - 1]
    BY <1>1, <1>3, <1>p DEF Fetching, Placed
  <2>5. \A p \in DOMAIN f.list :
          ~Closed(f, f.list[p]) /\ f.list[p] # f.cur => p + 1 < Len(f.list)
    BY <1>1, <1>2, <1>3, <1>p DEF Fetching, Placed
  <2> QED BY <2>1, <2>2, <2>3, <2>4, <2>5 DEF Placed
<1>5. ASSUME sure PROVE Whole(f, Q)
  <2>1. Whole(b, P)
    BY <1>5 DEF Good
  <2>3. GoesOn(f, Q)
    BY <1>2, <1>3, <2>1 DEF Whole, GoesOn
  <2>4. UsesKnown(f)
    <3>1. \A k \in DOMAIN f.code : \A i \in DOMAIN f.code[k] :
            k \in DOMAIN b.code /\ i \in DOMAIN b.code[k] /\ f.code[k][i] = b.code[k][i]
      BY <1>1 DEF Fetching
    <3>2. \A t \in DOMAIN b.code : t \in DOMAIN f.code /\ f.uses[t] = b.uses[t]
      BY <1>1 DEF Fetching
    <3>3. f.nextInst = b.nextInst
      BY <1>1 DEF Fetching
    <3> QED BY <2>1, <3>1, <3>2, <3>3 DEF Whole, UsesKnown
  <2>5. NoTrap(f, Q)
    <3>1. Ends(b, P) \subseteq Ends(f, Q)
      BY <1>1, <1>2, <1>3 DEF Ends, Fetching
    <3> QED BY <1>3, <1>4, <2>1, <3>1 DEF Whole, NoTrap
  <2> QED BY <2>3, <2>4, <2>5 DEF Whole
<1>6. Sound(f)
  BY <1>1 DEF Fetching
<1> HIDE DEF Q
<1>7. Good(f, Q, sure) /\ Onwards(b, f)
  BY <1>3, <1>4, <1>5, <1>6, <1>q DEF Good, Onwards
<1> QED BY <1>1, <1>7 DEF Q

LEMMA UsesEmit ==
  ASSUME NEW b, Sound(b), UsesKnown(b), NEW inst, inst.id \in Nat /\ b.nextInst <= inst.id,
         Targets(inst) \subseteq DOMAIN b.code, NEW e, Emitting(b, inst, e)
  PROVE  UsesKnown(e)
<1> DEFINE h == Home(b)
           old == IF Closed(b, b.cur) THEN <<>> ELSE b.code[b.cur]
<1>0. b.cur \in DOMAIN b.code /\ IF Closed(b, b.cur) THEN h \notin DOMAIN b.code ELSE h = b.cur
  BY DEF Emitting, Sound
<1> HIDE DEF h
<1>1. e.code[h] = Append(old, inst) /\ IsSeq(old)
  <2>1. IsSeq(old)
    BY NothingIsSeq DEF Sound, EndsOnce
  <2> QED BY <2>1 DEF Emitting, Grown, h
<1>2. \A i \in DOMAIN old : b.cur \in DOMAIN b.code /\ i \in DOMAIN b.code[b.cur]
                            /\ old[i] = b.code[b.cur][i] /\ h = b.cur
  BY <1>0
<1> HIDE DEF old
<1>3. /\ DOMAIN e.code[h] = DOMAIN old \cup {Len(old) + 1}
      /\ \A i \in DOMAIN old : e.code[h][i] = old[i]
      /\ e.code[h][Len(old) + 1] = inst
  <2>1. /\ Len(old) \in Nat /\ DOMAIN old = 1 .. Len(old)
        /\ DOMAIN Append(old, inst) = 1 .. Len(old) + 1
        /\ \A i \in 1 .. Len(old) : Append(old, inst)[i] = old[i]
        /\ Append(old, inst)[Len(old) + 1] = inst
    BY <1>1, AppendFacts
  <2>2. 1 .. Len(old) + 1 = 1 .. Len(old) \cup {Len(old) + 1}
    BY <2>1
  <2> QED BY <1>1, <2>1, <2>2
(* Every instruction is an old one or the new one. *)
<1>4. ASSUME NEW k \in DOMAIN e.code, NEW i \in DOMAIN e.code[k]
      PROVE  \/ k \in DOMAIN b.code /\ i \in DOMAIN b.code[k] /\ e.code[k][i] = b.code[k][i]
             \/ k = h /\ e.code[k][i] = inst
  <2>1. CASE k = h
    BY <1>2, <1>3, <2>1
  <2>2. CASE k # h
    BY <2>2 DEF Emitting, h
  <2> QED BY <2>1, <2>2
<1>5. inst.id \in Nat /\ b.nextInst \in Nat /\ b.nextInst <= inst.id /\ e.nextInst = inst.id + 1
  BY DEF Emitting, NextId, Sound
<1>6. \A t \in DOMAIN b.code : t \in DOMAIN e.code /\ b.uses[t] \subseteq e.uses[t]
                               /\ (t \in Targets(inst) => inst.id \in e.uses[t])
  BY DEF Emitting
<1>7. Targets(inst) \subseteq DOMAIN b.code
  OBVIOUS
<1> DEFINE Old(k, i) == k \in DOMAIN b.code /\ i \in DOMAIN b.code[k] /\ e.code[k][i] = b.code[k][i]
<1>8. ASSUME NEW k, NEW i, Old(k, i)
      PROVE  /\ e.code[k][i].id \in Nat /\ e.code[k][i].id < b.nextInst
             /\ \A t \in Targets(e.code[k][i]) : t \in DOMAIN b.code /\ e.code[k][i].id \in b.uses[t]
  BY <1>8 DEF UsesKnown
<1>9. ASSUME NEW k \in DOMAIN e.code, NEW i \in DOMAIN e.code[k]
      PROVE  /\ e.code[k][i].id \in Nat /\ e.code[k][i].id < e.nextInst
             /\ \A t \in Targets(e.code[k][i]) :
                  t \in DOMAIN e.code /\ e.code[k][i].id \in e.uses[t]
  <2>1. CASE Old(k, i)
    <3> DEFINE d == e.code[k][i].id
    <3>1. d \in Nat /\ d < b.nextInst
      BY <1>8, <2>1
    <3>2. \A t \in Targets(e.code[k][i]) : t \in DOMAIN b.code /\ d \in b.uses[t]
      BY <1>8, <2>1
    <3> HIDE DEF d, Old
    <3>3. d < e.nextInst
      BY <1>5, <3>1
    <3> QED BY <1>6, <3>1, <3>2, <3>3 DEF d
  <2>2. CASE e.code[k][i] = inst
    <3>1. inst.id < e.nextInst
      BY <1>5
    <3> QED BY <1>5, <1>6, <1>7, <2>2, <3>1
  <2> QED BY <1>4, <2>1, <2>2
<1>10. ASSUME NEW k \in DOMAIN e.code, NEW l \in DOMAIN e.code,
              NEW i \in DOMAIN e.code[k], NEW j \in DOMAIN e.code[l],
              e.code[k][i].id = e.code[l][j].id
       PROVE  k = l
  <2>1. CASE Old(k, i) /\ Old(l, j)
    BY <1>10, <2>1 DEF UsesKnown
  <2>2. CASE Old(k, i) /\ l = h /\ e.code[l][j] = inst
    <3>1. inst.id < b.nextInst
      BY <1>8, <1>10, <2>2
    <3> HIDE DEF Old
    <3> QED BY <1>5, <3>1
  <2>3. CASE Old(l, j) /\ k = h /\ e.code[k][i] = inst
    <3>1. inst.id < b.nextInst
      BY <1>8, <1>10, <2>3
    <3> HIDE DEF Old
    <3> QED BY <1>5, <3>1
  <2> QED BY <1>4, <2>1, <2>2, <2>3
<1> HIDE DEF Old
<1> QED BY <1>9, <1>10 DEF UsesKnown

(* An instruction that leaves its block goes to blocks of the function or  *)
(* pending ones, and one of its ways ends in a pending block or returns.   *)
WellAimed(b, P, inst) ==
  /\ Targets(inst) \subseteq Listed(b) \cup P
  /\ IsTerminator(inst) =>
       \E t \in Targets(inst), u \in P \cup {b.returnBlock} : Leads(b, t, u)

LEMMA GoodEmit ==
  ASSUME NEW b, NEW P, NEW sure, Good(b, P, sure),
         NEW inst, inst.id \in Nat /\ b.nextInst <= inst.id,
         ~IsTerminator(inst) => Targets(inst) = {},
         sure => WellAimed(b, P, inst),
         NEW e, e = Emit(b, inst)
  PROVE  Good(e, P, sure) /\ Onwards(b, e) /\ Emitting(b, inst, e)
<1> DEFINE h == Home(b)
<1>0. Sound(b) /\ HasId(inst)
  BY DEF Good, HasId
<1>1. Emitting(b, inst, e)
  BY <1>0, SoundEmit
<1>2. ASSUME NEW k \in DOMAIN b.code, k # h
      PROVE  (Closed(e, k) <=> Closed(b, k)) /\ Exit(e, k) = Exit(b, k)
  BY <1>1, <1>2 DEF Closed, Exit, Emitting
<1>3. /\ e.cur = h /\ e.returnBlock = b.returnBlock /\ e.list = b.list
      /\ Exit(e, h) = inst /\ (Closed(e, h) <=> IsTerminator(inst))
      /\ IF Closed(b, b.cur) THEN h \notin DOMAIN b.code ELSE h = b.cur
  BY <1>1 DEF Emitting
<1>4. Listed(e) = Listed(b) /\ Listed(b) \cup {b.cur} \subseteq DOMAIN b.code
      /\ \A p \in DOMAIN b.list : b.list[p] \in DOMAIN b.code
  BY <1>0, <1>1 DEF Listed, Emitting, Sound, ToSet
<1> HIDE DEF h
<1>5. ASSUME NEW k \in DOMAIN b.code, Closed(b, k)
      PROVE  k # h /\ Closed(e, k) /\ Exit(e, k) = Exit(b, k)
  BY <1>2, <1>3, <1>5
<1>6. ASSUME NEW k \in DOMAIN b.code, ~Closed(b, k), k # b.cur
      PROVE  k # h /\ ~Closed(e, k)
  BY <1>2, <1>3, <1>6
<1>7. ASSUME NEW S, Onto(e, S) PROVE Onto(b, S)
  <2> SUFFICES ASSUME NEW p \in DOMAIN b.list, b.list[p] \in S
               PROVE  IF Closed(b, b.list[p]) THEN Targets(Exit(b, b.list[p])) \subseteq S
                      ELSE b.list[p] # b.cur => b.list[p + 1] \in S
    BY DEF Onto
  <2>1. IF Closed(e, e.list[p]) THEN Targets(Exit(e, e.list[p])) \subseteq S
        ELSE e.list[p] # e.cur => e.list[p + 1] \in S
    BY <1>3, <1>7 DEF Onto
  <2>2. b.list[p] \in DOMAIN b.code
    BY <1>4
  <2>3. CASE Closed(b, b.list[p])
    BY <1>3, <1>5, <2>1, <2>2, <2>3
  <2>4. CASE ~Closed(b, b.list[p]) /\ b.list[p] # b.cur
    BY <1>3, <1>6, <2>1, <2>2, <2>4
  <2> QED BY <2>3, <2>4
<1>p. Placed(b, P)
  BY DEF Good
<1>q. Placed(e, P)
  <2>1. IsInjective(e.list) /\ P \subseteq DOMAIN e.code
    BY <1>1, <1>p DEF Emitting, Placed
  <2>2. \A k \in P : k \notin Listed(e) /\ k # e.cur /\ e.code[k] = <<>>
    <3> TAKE k \in P
    <3>1. k \in DOMAIN b.code /\ k \notin Listed(b) /\ k # b.cur /\ b.code[k] = <<>>
      BY <1>p DEF Placed
    <3>2. k # h
      BY <1>3, <3>1
    <3> QED BY <1>1, <1>3, <1>4, <3>1, <3>2 DEF Emitting, h
  <2>3. e.cur \in Listed(e) => e.cur = e.list[Len(e.list) - 1]
    BY <1>3, <1>4, <1>p DEF Placed
  <2>4. ASSUME NEW p \in DOMAIN e.list, ~Closed(e, e.list[p]), e.list[p] # e.cur
        PROVE  p + 1 < Len(e.list)
    <3>1. b.list[p] \in DOMAIN b.code /\ e.list[p] = b.list[p] /\ b.list[p] # h
      BY <1>3, <1>4, <2>4
    <3>2. ~Closed(b, b.list[p])
      BY <1>2, <2>4, <3>1
    <3>3. b.list[p] # b.cur
      BY <1>3, <3>1, <3>2
    <3> QED BY <1>3, <1>p, <3>2, <3>3 DEF Placed
  <2> QED BY <2>1, <2>2, <2>3, <2>4 DEF Placed
<1>8. ASSUME sure PROVE Whole(e, P)
  <2>1. Whole(b, P) /\ WellAimed(b, P, inst)
    BY <1>8 DEF Good
  <2>3. GoesOn(e, P)
    <3> SUFFICES ASSUME NEW k \in Listed(e), Closed(e, k)
                 PROVE  Targets(Exit(e, k)) \subseteq Listed(e) \cup P
      BY DEF GoesOn
    <3>1. CASE k = h
      BY <1>3, <1>4, <2>1, <3>1 DEF WellAimed
    <3>2. CASE k # h
      BY <1>2, <1>4, <2>1, <3>2 DEF Whole, GoesOn
    <3> QED BY <3>1, <3>2
  <2>4. UsesKnown(e)
    <3>1. Targets(inst) \subseteq DOMAIN b.code
      BY <1>4, <1>p, <2>1 DEF WellAimed, Placed
    <3> QED BY <1>0, <1>1, <2>1, <3>1, UsesEmit DEF Whole
  <2>5. NoTrap(e, P)
    <3> SUFFICES ASSUME NEW S, Onto(e, S), S \cap Listed(e) # {}
                 PROVE  S \cap Ends(e, P) # {}
      BY DEF NoTrap
    <3>1. PICK x \in S : x \in Ends(b, P)
      BY <1>4, <1>7, <2>1 DEF Whole, NoTrap
    <3>2. CASE x \in P \cup {b.returnBlock}
      BY <1>3, <3>2 DEF Ends
    <3>3. CASE x \notin P \cup {b.returnBlock}
      <4>1. x = b.cur /\ x \in Listed(b) /\ ~Closed(b, x)
        BY <3>1, <3>3 DEF Ends
      <4>2. x = h /\ e.cur = h
        BY <1>3, <4>1
      <4>3. CASE ~IsTerminator(inst)
        BY <1>3, <1>4, <4>1, <4>2, <4>3 DEF Ends
      <4>4. CASE IsTerminator(inst)
        <5>1. PICK p \in DOMAIN e.list : e.list[p] = x
          BY <1>3, <4>1 DEF Listed, ToSet
        <5>2. Targets(inst) \subseteq S
          BY <1>3, <4>2, <4>4, <5>1 DEF Onto
        <5>3. PICK t \in Targets(inst), u \in P \cup {b.returnBlock} : Leads(b, t, u)
          BY <2>1, <4>4 DEF WellAimed
        <5>4. u \in S
          BY <1>7, <5>2, <5>3 DEF Leads
        <5> QED BY <1>3, <5>4 DEF Ends
      <4> QED BY <4>3, <4>4
    <3> QED BY <3>2, <3>3
  <2> QED BY <2>3, <2>4, <2>5 DEF Whole
<1>9. Sound(e)
  BY <1>1 DEF Emitting
<1> QED BY <1>1, <1>4, <1>7, <1>8, <1>9, <1>q DEF Good, Onwards

LEMMA GoodEnter ==
  ASSUME NEW b, NEW P, NEW sure, Good(b, P, sure), NEW x \in P, NEW e, e = Enter(b, x)
  PROVE  /\ Good(e, P \ {x}, sure) /\ Entering(b, x, e)
         /\ Onwards(b, e) /\ ~Closed(e, x) /\ x \in Listed(e)
<1> DEFINE Q == P \ {x}
           n == Len(b.list)
<1>0. Sound(b) /\ x \in DOMAIN b.code
  BY DEF Good, Placed
<1>1. Entering(b, x, e)
  BY <1>0, SoundEnter
<1>2. \A k : (Closed(e, k) <=> Closed(b, k)) /\ Exit(e, k) = Exit(b, k)
  BY <1>1 DEF Closed, Exit, Entering
<1>3. /\ n \in Nat /\ n >= 2 /\ Len(e.list) = n + 1
      /\ \A i \in 1 .. n - 1 : e.list[i] = b.list[i]
      /\ e.list[n] = x /\ e.list[n + 1] = b.returnBlock /\ b.list[n] = b.returnBlock
      /\ DOMAIN b.list = 1 .. n /\ DOMAIN e.list = 1 .. n + 1
      /\ e.cur = x /\ e.returnBlock = b.returnBlock
  <2>1. /\ n \in Nat /\ n >= 2 /\ b.list[n] = b.returnBlock /\ DOMAIN b.list = 1 .. n
    BY <1>0 DEF Sound
  <2>2. DOMAIN e.list = 1 .. Len(e.list)
    BY <1>1 DEF Entering, Sound
  <2> QED BY <1>1, <2>1, <2>2 DEF Entering
<1>4. Listed(e) = Listed(b) \cup {x} /\ Closed(b, b.returnBlock)
      /\ \A p \in DOMAIN b.list : b.list[p] \in Listed(b)
  BY <1>0, <1>1 DEF Entering, Sound, Listed, ToSet
<1> HIDE DEF n
<1>p. Placed(b, P)
  BY DEF Good
<1>5. x \notin Listed(b) /\ x # b.cur /\ ~Closed(b, x)
  BY <1>p DEF Placed, Closed
<1>6. ASSUME NEW S, Onto(e, S) PROVE Onto(b, S)
  <2> SUFFICES ASSUME NEW p \in 1 .. n, b.list[p] \in S
               PROVE  IF Closed(b, b.list[p]) THEN Targets(Exit(b, b.list[p])) \subseteq S
                      ELSE b.list[p] # b.cur => b.list[p + 1] \in S
    BY <1>3 DEF Onto
  <2>1. CASE p = n
    <3>1. n + 1 \in DOMAIN e.list /\ e.list[n + 1] = b.list[p]
      BY <1>3, <2>1
    <3>2. Closed(b, b.list[p])
      BY <1>3, <1>4, <2>1
    <3> QED BY <1>2, <1>6, <3>1, <3>2 DEF Onto
  <2>2. CASE p # n
    <3>1. p \in 1 .. n - 1 /\ p \in DOMAIN e.list /\ p \in DOMAIN b.list
      BY <1>3, <2>2
    <3>2. e.list[p] = b.list[p]
      BY <1>3, <3>1
    <3>3. CASE Closed(b, b.list[p])
      BY <1>2, <1>6, <3>1, <3>2, <3>3 DEF Onto
    <3>4. CASE ~Closed(b, b.list[p]) /\ b.list[p] # b.cur
      <4>1. p + 1 < n
        BY <1>p, <1>3, <3>1, <3>4 DEF Placed, n
      <4>2. p + 1 \in 1 .. n - 1
        BY <1>3, <4>1
      <4>3. e.list[p + 1] = b.list[p + 1]
        BY <1>3, <4>2
      <4>4. b.list[p] # x
        BY <1>4, <1>5, <1>6, <3>1
      <4>5. e.list[p + 1] \in S
        BY <1>2, <1>3, <1>6, <3>1, <3>2, <3>4, <4>4 DEF Onto
      <4> QED BY <3>4, <4>3, <4>5
    <3> QED BY <3>3, <3>4
  <2> QED BY <2>1, <2>2
<1>q. Placed(e, Q)
  <2>1. IsInjective(e.list)
    <3> SUFFICES ASSUME NEW i \in DOMAIN e.list, NEW j \in DOMAIN e.list, e.list[i] = e.list[j]
                 PROVE  i = j
      BY DEF IsInjective
    <3> DEFINE Old(k) == IF k = n + 1 THEN n ELSE k
    <3>1. \A k \in DOMAIN e.list : k = n \/ (Old(k) \in DOMAIN b.list /\ e.list[k] = b.list[Old(k)])
      BY <1>3
    <3>2. \A k \in DOMAIN e.list : k # n => Old(k) \in DOMAIN b.list /\ e.list[k] # x
      <4> TAKE k \in DOMAIN e.list
      <4> HAVE k # n
      <4>1. Old(k) \in DOMAIN b.list /\ e.list[k] = b.list[Old(k)]
        BY <3>1
      <4> HIDE DEF Old
      <4> QED BY <1>4, <1>5, <4>1
    <3>3. CASE i = n \/ j = n
      BY <1>3, <3>2, <3>3
    <3>4. CASE i # n /\ j # n
      <4>1. b.list[Old(i)] = b.list[Old(j)] /\ Old(i) \in DOMAIN b.list /\ Old(j) \in DOMAIN b.list
        BY <3>1, <3>4
      <4> HIDE DEF Old
      <4>2. Old(i) = Old(j)
        BY <1>p, <4>1 DEF Placed, IsInjective
      <4> USE DEF Old
      <4> QED BY <1>3, <3>4, <4>2
    <3> QED BY <3>3, <3>4
  <2>2. Q \subseteq DOMAIN e.code
    BY <1>1, <1>p DEF Entering, Placed
  <2>3. \A k \in Q : k \notin Listed(e) /\ k # e.cur /\ e.code[k] = <<>>
    BY <1>1, <1>3, <1>4, <1>p DEF Entering, Placed
  <2>4. e.cur = e.list[Len(e.list) - 1]
    BY <1>3
  <2>5. ASSUME NEW p \in DOMAIN e.list, ~Closed(e, e.list[p]), e.list[p] # e.cur
        PROVE  p + 1 < Len(e.list)
    <3>1. p # n /\ p # n + 1
      BY <1>2, <1>3, <1>4, <2>5
    <3> QED BY <1>3, <3>1
  <2> QED BY <2>1, <2>2, <2>3, <2>4, <2>5 DEF Placed
<1>7. ASSUME sure PROVE Whole(e, Q)
  <2>1. Whole(b, P)
    BY <1>7 DEF Good
  <2>3. GoesOn(e, Q)
    <3> SUFFICES ASSUME NEW k \in Listed(e), Closed(e, k)
                 PROVE  Targets(Exit(e, k)) \subseteq Listed(e) \cup Q
      BY DEF GoesOn
    <3>1. k \in Listed(b)
      BY <1>2, <1>4, <1>5, <1>7
    <3> QED BY <1>2, <1>4, <2>1, <3>1 DEF Whole, GoesOn
  <2>4. UsesKnown(e)
    BY <1>1, <2>1 DEF Entering, Whole, UsesKnown
  <2>5. NoTrap(e, Q)
    <3> SUFFICES ASSUME NEW S, Onto(e, S), S \cap Listed(e) # {}, x \notin S
                 PROVE  S \cap Ends(e, Q) # {}
      BY <1>2, <1>3, <1>4, <1>5, <1>7 DEF NoTrap, Ends
    <3>1. PICK y \in S : y \in Ends(b, P)
      BY <1>4, <1>6, <1>7, <2>1 DEF Whole, NoTrap
    <3>2. CASE y \in P \cup {b.returnBlock}
      BY <1>3, <3>2 DEF Ends
    <3>3. CASE y \notin P \cup {b.returnBlock}
      <4>1. y = b.cur /\ y \in Listed(b) /\ ~Closed(b, y)
        BY <3>1, <3>3 DEF Ends
      <4>2. y = b.list[n - 1]
        BY <1>p, <4>1 DEF Placed, n
      <4>3. n - 1 \in 1 .. n - 1 /\ n - 1 \in DOMAIN e.list /\ n - 1 + 1 = n
        BY <1>3
      <4>4. e.list[n - 1] = y
        BY <1>3, <4>2, <4>3
      <4>5. x \in S
        BY <1>2, <1>3, <4>1, <4>3, <4>4 DEF Onto
      <4> QED BY <4>5
    <3> QED BY <3>2, <3>3
  <2> QED BY <2>3, <2>4, <2>5 DEF Whole
<1>8. Sound(e)
  BY <1>1 DEF Entering
<1> HIDE DEF Q
<1>9. Good(e, Q, sure)
  BY <1>7, <1>8, <1>q DEF Good
<1>10. Onwards(b, e)
  BY <1>4, <1>6 DEF Onwards
<1> QED BY <1>1, <1>2, <1>4, <1>5, <1>9, <1>10 DEF Q

-----------------------------------------------------------------------------
(* The call stack and the builder. *)

WellFormed(t) ==
  /\ t.task \in {"statement", "nested", "statements"} \cup StatementTasks \cup ConditionTasks
  /\ t.task \in {"statement", "nested"} => t = [task |-> t.task, s |-> t.s]
  /\ t.task \in StatementTasks => t = Rest(t.task, t.s, t.first) /\ t.first \in Nat
  /\ t.task \in LogicalTasks => t = [task |-> t.task, of |-> t.of] /\ t.of.first \in Nat

Apart(w) ==
  \A i, j \in DOMAIN w : i # j => Pending(w[i]) \cap Pending(w[j]) = {}

IsLoop(t) == t.task \in LoopTasks
Loops(w) == {w[i].first : i \in {i \in DOMAIN w : IsLoop(w[i])}}
Ordered(w) ==
  \A i, j \in DOMAIN w : i < j /\ IsLoop(w[i]) /\ IsLoop(w[j]) => w[j].first < w[i].first

(* The stacks of the builder are the loops of the call stack, the          *)
(* innermost on top of both.                                               *)
Stacks(b, loops) ==
  /\ b.condStack \in Seq(Nat) /\ b.tailStack \in Seq(Nat)
  /\ Len(b.condStack) = Len(b.tailStack)
  /\ \A m \in DOMAIN b.condStack : b.tailStack[m] = b.condStack[m] + 2
  /\ \A m, n \in DOMAIN b.condStack : m < n => b.condStack[m] < b.condStack[n]
  /\ ToSet(b.condStack) = loops

(* The way out of the condition of a loop that is being generated. *)
AtCondition(b, first) ==
  b.cur \in Listed(b) /\ ~Closed(b, b.cur) /\ Leads(b, first, b.cur)

(* A loop is left from its condition, and from where its condition has got *)
(* to as long as that is generated.                                        *)
LoopsLeft(b, w) ==
  \A i \in DOMAIN w :
    /\ IsLoop(w[i]) => w[i].first \in Listed(b)
    /\ w[i].task = "endwhile" => Leads(b, w[i].first, w[i].first + 2)
    /\ w[i].task = "body" =>
         /\ \A j \in 1 .. i - 1 : w[j].task \in ConditionTasks
         /\ AtCondition(b, w[i].first)

IrgenInv(b, w, sure) ==
  /\ IsSeq(w) /\ \A i \in DOMAIN w : WellFormed(w[i])
  /\ Apart(w) /\ Ordered(w) /\ Stacks(b, Loops(w))
  /\ Good(b, AllPending(w), sure)
  /\ sure => LoopsLeft(b, w)

-----------------------------------------------------------------------------
(* The call stack after its top has been replaced by t. *)

(* t takes over blocks of the top or fresh ones, and loops of the top or   *)
(* one inside all others.                                                  *)
TakesOver(w, t, fresh) ==
  /\ IsSeq(t) /\ Apart(t) /\ \A i \in DOMAIN t : WellFormed(t[i])
  /\ AllPending(t) \subseteq Pending(w[1]) \cup fresh /\ fresh \cap AllPending(w) = {}
  /\ \A i, j \in DOMAIN t : IsLoop(t[i]) /\ IsLoop(t[j]) => i = j
  /\ \A i \in DOMAIN t : IsLoop(t[i]) =>
       \/ IsLoop(w[1]) /\ t[i].first = w[1].first
       \/ \A g \in Loops(w) : g < t[i].first

Replaced(w, t, u) ==
  /\ IsSeq(u) /\ \A i \in DOMAIN u : WellFormed(u[i])
  /\ Apart(u) /\ Ordered(u)
  /\ AllPending(u) = (AllPending(w) \ Pending(w[1])) \cup AllPending(t)
  /\ Loops(u) = Loops(t) \cup (IF IsLoop(w[1]) THEN Loops(w) \ {w[1].first} ELSE Loops(w))

LEMMA ReplacedTop ==
  ASSUME NEW w, IsSeq(w), w # <<>>, \A i \in DOMAIN w : WellFormed(w[i]), Apart(w), Ordered(w),
         NEW t, NEW fresh, TakesOver(w, t, fresh)
  PROVE  Replaced(w, t, t \o Tail(w))
<1> DEFINE u == t \o Tail(w)
           k == Len(t)
           n == Len(w)
<1>0. IsSeq(t)
  BY DEF TakesOver
<1>1. /\ IsSeq(u) /\ k \in Nat /\ n \in Nat \ {0} /\ DOMAIN t = 1 .. k
      /\ Len(u) = k + n - 1 /\ DOMAIN u = 1 .. Len(u) /\ DOMAIN w = 1 .. n
      /\ \A i \in 1 .. k : u[i] = t[i]
      /\ \A i \in k + 1 .. Len(u) : u[i] = w[i - k + 1]
  BY <1>0, ReplaceFacts, AppendFacts
<1> HIDE DEF u, k, n
<1> DEFINE In(i) == i \in 1 .. k
           Old(i) == i - k + 1
<1>2. ASSUME NEW i \in DOMAIN u, ~In(i)
      PROVE  Old(i) \in DOMAIN w /\ Old(i) # 1 /\ u[i] = w[Old(i)]
  BY <1>1, <1>2
<1>3. ASSUME NEW i \in DOMAIN u, In(i) PROVE i \in DOMAIN t /\ u[i] = t[i]
  BY <1>1, <1>3
<1>4. ASSUME NEW j \in DOMAIN w, j # 1
      PROVE  j + k - 1 \in DOMAIN u /\ ~In(j + k - 1) /\ u[j + k - 1] = w[j]
  <2>1. j + k - 1 \in k + 1 .. Len(u) /\ (j + k - 1) - k + 1 = j
    BY <1>1, <1>4
  <2> QED BY <1>1, <2>1
<1>5. ASSUME NEW i \in DOMAIN t PROVE i \in DOMAIN u /\ u[i] = t[i]
  BY <1>1
<1>6. ASSUME NEW i \in DOMAIN u, NEW j \in DOMAIN u, ~In(i), ~In(j)
      PROVE  (Old(i) = Old(j) => i = j) /\ (i < j => Old(i) < Old(j))
  BY <1>1
<1>7. ASSUME NEW i \in DOMAIN u, NEW j \in DOMAIN u, i < j, In(j) PROVE In(i)
  BY <1>1, <1>7
<1>o. 1 \in DOMAIN w
  BY <1>1
<1>8. \A i \in DOMAIN u : WellFormed(u[i])
  <2> TAKE i \in DOMAIN u
  <2> HIDE DEF In, Old
  <2> QED BY <1>2, <1>3 DEF TakesOver
<1>9. ASSUME NEW i \in DOMAIN t
      PROVE  Pending(t[i]) \subseteq AllPending(t) /\ Pending(t[i]) \subseteq Pending(w[1]) \cup fresh
  BY DEF TakesOver, AllPending
<1>10. ASSUME NEW j \in DOMAIN w, j # 1
       PROVE  Pending(w[j]) \cap (Pending(w[1]) \cup fresh) = {}
  <2>1. Pending(w[j]) \cap Pending(w[1]) = {}
    BY <1>o, <1>10 DEF Apart
  <2>2. Pending(w[j]) \subseteq AllPending(w)
    BY DEF AllPending
  <2> QED BY <2>1, <2>2 DEF TakesOver
<1>11. Apart(u)
  <2> SUFFICES ASSUME NEW i \in DOMAIN u, NEW j \in DOMAIN u, i # j
               PROVE  Pending(u[i]) \cap Pending(u[j]) = {}
    BY DEF Apart
  <2>1. ASSUME ~In(i), ~In(j) PROVE Old(i) # Old(j)
    BY <1>6, <2>1
  <2> HIDE DEF In, Old
  <2>2. CASE In(i) /\ In(j)
    BY <1>3, <2>2 DEF TakesOver, Apart
  <2>3. CASE In(i) /\ ~In(j)
    BY <1>2, <1>3, <1>9, <1>10, <2>3
  <2>4. CASE ~In(i) /\ In(j)
    BY <1>2, <1>3, <1>9, <1>10, <2>4
  <2>5. CASE ~In(i) /\ ~In(j)
    BY <1>2, <2>1, <2>5 DEF Apart
  <2> QED BY <2>2, <2>3, <2>4, <2>5
<1>12. Ordered(u)
  <2> SUFFICES ASSUME NEW i \in DOMAIN u, NEW j \in DOMAIN u, i < j, IsLoop(u[i]), IsLoop(u[j])
               PROVE  u[j].first < u[i].first
    BY DEF Ordered
  <2>1. ASSUME ~In(i), ~In(j) PROVE Old(i) < Old(j)
    BY <1>6, <2>1
  <2>2. ASSUME ~In(j) PROVE 1 < Old(j)
    BY <1>1, <2>2
  <2>3. i # j
    BY <1>1
  <2> HIDE DEF In, Old
  <2>4. CASE In(j)
    <3>1. In(i)
      BY <1>7, <2>4
    <3> QED BY <1>3, <2>3, <2>4, <3>1 DEF TakesOver
  <2>5. CASE In(i) /\ ~In(j)
    <3>1. /\ i \in DOMAIN t /\ u[i] = t[i] /\ Old(j) \in DOMAIN w /\ u[j] = w[Old(j)]
          /\ IsLoop(w[Old(j)])
      BY <1>2, <1>3, <2>5
    <3>2. CASE IsLoop(w[1]) /\ t[i].first = w[1].first
      BY <1>o, <2>2, <2>5, <3>1, <3>2 DEF Ordered
    <3>3. CASE \A g \in Loops(w) : g < t[i].first
      BY <3>1, <3>3 DEF Loops
    <3> QED BY <3>1, <3>2, <3>3 DEF TakesOver
  <2>6. CASE ~In(i) /\ ~In(j)
    BY <1>2, <2>1, <2>6 DEF Ordered
  <2> QED BY <2>4, <2>5, <2>6
<1> HIDE DEF In, Old
<1>13. AllPending(u) = (AllPending(w) \ Pending(w[1])) \cup AllPending(t)
  <2>1. ASSUME NEW x \in AllPending(u)
        PROVE  x \in (AllPending(w) \ Pending(w[1])) \cup AllPending(t)
    <3>1. PICK i \in DOMAIN u : x \in Pending(u[i])
      BY DEF AllPending
    <3>2. CASE In(i)
      BY <1>3, <3>1, <3>2 DEF AllPending
    <3>3. CASE ~In(i)
      <4>1. Old(i) \in DOMAIN w /\ Old(i) # 1 /\ x \in Pending(w[Old(i)])
        BY <1>2, <3>1, <3>3
      <4>2. x \notin Pending(w[1])
        BY <1>10, <4>1
      <4> QED BY <4>1, <4>2 DEF AllPending
    <3> QED BY <3>2, <3>3
  <2>2. ASSUME NEW x \in AllPending(t) PROVE x \in AllPending(u)
    BY <1>5 DEF AllPending
  <2>3. ASSUME NEW x \in AllPending(w), x \notin Pending(w[1]) PROVE x \in AllPending(u)
    <3>1. PICK j \in DOMAIN w : x \in Pending(w[j])
      BY DEF AllPending
    <3> QED BY <1>4, <2>3, <3>1 DEF AllPending
  <2> QED BY <2>1, <2>2, <2>3
<1>14. Loops(u) = Loops(t) \cup (IF IsLoop(w[1]) THEN Loops(w) \ {w[1].first} ELSE Loops(w))
  <2> DEFINE rest == IF IsLoop(w[1]) THEN Loops(w) \ {w[1].first} ELSE Loops(w)
  <2>1. ASSUME NEW j \in DOMAIN w, j # 1, IsLoop(w[j]), IsLoop(w[1]) PROVE w[j].first # w[1].first
    <3>1. 1 < j
      BY <1>1, <2>1
    <3>2. w[j].first < w[1].first
      BY <1>o, <2>1, <3>1 DEF Ordered
    <3>3. w[1].first \in Nat
      BY <1>o, <2>1 DEF WellFormed, IsLoop, StatementTasks
    <3> QED BY <3>2, <3>3
  <2>2. ASSUME NEW x \in Loops(u) PROVE x \in Loops(t) \cup rest
    <3>1. PICK i \in DOMAIN u : IsLoop(u[i]) /\ x = u[i].first
      BY DEF Loops
    <3>2. CASE In(i)
      BY <1>3, <3>1, <3>2 DEF Loops
    <3>3. CASE ~In(i)
      <4>1. Old(i) \in DOMAIN w /\ Old(i) # 1 /\ IsLoop(w[Old(i)]) /\ x = w[Old(i)].first
        BY <1>2, <3>1, <3>3
      <4> QED BY <2>1, <4>1 DEF Loops
    <3> QED BY <3>2, <3>3
  <2>3. ASSUME NEW x \in Loops(t) PROVE x \in Loops(u)
    BY <1>5 DEF Loops
  <2>4. ASSUME NEW x \in rest PROVE x \in Loops(u)
    <3>1. PICK j \in DOMAIN w : IsLoop(w[j]) /\ x = w[j].first
      BY <2>4 DEF Loops
    <3>2. j # 1
      BY <2>4, <3>1
    <3> QED BY <1>4, <3>1, <3>2 DEF Loops
  <2> QED BY <2>2, <2>3, <2>4
<1> QED BY <1>1, <1>8, <1>11, <1>12, <1>13, <1>14 DEF Replaced, u

-----------------------------------------------------------------------------
(* What replaces the top: nothing, a task without blocks of its own, or    *)
(* such a task and the rest of a handler.                                  *)

PlainTasks == {"statement", "nested", "statements", "condition", "not"}
Plain(t) == WellFormed(t) /\ t.task \in PlainTasks

LEMMA PlainFacts ==
  ASSUME NEW t, Plain(t)
  PROVE  WellFormed(t) /\ Pending(t) = {} /\ ~IsLoop(t)
BY DEF Plain, PlainTasks, Pending, IsLoop, LoopTasks

(* An action on the call stack: c and t are what it makes of the builder   *)
(* and of the top.                                                         *)
KeepsConditions(b, w, c, t) ==
  \/ w[1].task \notin ConditionTasks
  \/ /\ \A i \in DOMAIN t : t[i].task \in ConditionTasks
     /\ \A first : AtCondition(b, first) => AtCondition(c, first)

LoopsAfter(w, t) ==
  Loops(t) \cup (IF IsLoop(w[1]) THEN Loops(w) \ {w[1].first} ELSE Loops(w))

PendingAfter(w, t) == (AllPending(w) \ Pending(w[1])) \cup AllPending(t)

Acts(b, w, sure, c, t) ==
  /\ Stacks(c, LoopsAfter(w, t))
  /\ Good(c, PendingAfter(w, t), sure)
  /\ sure => Onwards(b, c) /\ KeepsConditions(b, w, c, t) /\ LoopsLeft(c, t)

LEMMA StillLeads ==
  ASSUME NEW b, NEW c, Onwards(b, c), NEW k, NEW u, Leads(b, k, u)
  PROVE  Leads(c, k, u)
BY DEF Onwards, Leads

LEMMA ActsKeeps ==
  ASSUME NEW b, NEW w, NEW sure, IrgenInv(b, w, sure), w # <<>>, NEW t, NEW fresh, TakesOver(w, t, fresh),
         NEW c, Acts(b, w, sure, c, t)
  PROVE  IrgenInv(c, t \o Tail(w), sure)
<1> DEFINE u == t \o Tail(w)
<1>1. /\ IsSeq(u) /\ (\A i \in DOMAIN u : WellFormed(u[i])) /\ Apart(u) /\ Ordered(u)
      /\ AllPending(u) = PendingAfter(w, t) /\ Loops(u) = LoopsAfter(w, t)
  <2>1. Replaced(w, t, u)
    BY ReplacedTop DEF IrgenInv
  <2> QED BY <2>1 DEF Replaced, PendingAfter, LoopsAfter
<1>2. ASSUME sure PROVE LoopsLeft(c, u)
  <2> DEFINE k == Len(t)
             n == Len(w)
  <2>1. /\ k \in Nat /\ n \in Nat \ {0} /\ DOMAIN t = 1 .. k
        /\ Len(u) = k + n - 1 /\ DOMAIN u = 1 .. Len(u) /\ DOMAIN w = 1 .. n
        /\ \A i \in 1 .. k : u[i] = t[i]
        /\ \A i \in k + 1 .. Len(u) : u[i] = w[i - k + 1]
    BY ReplaceFacts, AppendFacts DEF TakesOver, IrgenInv
  <2>2. Onwards(b, c) /\ KeepsConditions(b, w, c, t) /\ LoopsLeft(c, t) /\ LoopsLeft(b, w)
    BY <1>2 DEF Acts, IrgenInv
  <2> HIDE DEF u, k, n
  <2> SUFFICES ASSUME NEW i \in DOMAIN u
               PROVE  /\ IsLoop(u[i]) => u[i].first \in Listed(c)
                      /\ u[i].task = "endwhile" => Leads(c, u[i].first, u[i].first + 2)
                      /\ u[i].task = "body" =>
                           /\ \A j \in 1 .. i - 1 : u[j].task \in ConditionTasks
                           /\ AtCondition(c, u[i].first)
    BY DEF LoopsLeft
  <2>3. CASE i \in 1 .. k
    <3>1. i \in DOMAIN t /\ u[i] = t[i] /\ \A j \in 1 .. i - 1 : u[j] = t[j]
      BY <2>1, <2>3
    <3> QED BY <2>2, <3>1 DEF LoopsLeft
  <2>4. CASE i \notin 1 .. k
    <3> DEFINE o == i - k + 1
    <3>1. o \in DOMAIN w /\ u[i] = w[o] /\ 1 \in 1 .. o - 1
      BY <2>1, <2>4, SMTT(30)
    <3>2. \A j \in 1 .. i - 1 : \/ j \in DOMAIN t /\ u[j] = t[j]
                                \/ j - k + 1 \in 1 .. o - 1 /\ u[j] = w[j - k + 1]
      BY <2>1, <2>4, SMTT(30)
    <3> HIDE DEF o
    <3>3. IsLoop(w[o]) => w[o].first \in Listed(c)
      BY <2>2, <3>1 DEF LoopsLeft, Onwards
    <3>4. ASSUME w[o].task = "endwhile" PROVE Leads(c, w[o].first, w[o].first + 2)
      <4>1. Leads(b, w[o].first, w[o].first + 2)
        BY <2>2, <3>1, <3>4 DEF LoopsLeft
      <4> QED BY <2>2, <4>1, StillLeads
    <3>5. ASSUME w[o].task = "body"
          PROVE  AtCondition(c, w[o].first) /\ \A j \in 1 .. i - 1 : u[j].task \in ConditionTasks
      <4>1. AtCondition(b, w[o].first) /\ \A j \in 1 .. o - 1 : w[j].task \in ConditionTasks
        BY <2>2, <3>1, <3>5 DEF LoopsLeft
      <4>2. /\ \A j \in DOMAIN t : t[j].task \in ConditionTasks
            /\ \A first : AtCondition(b, first) => AtCondition(c, first)
        BY <2>2, <3>1, <4>1 DEF KeepsConditions
      <4> QED BY <3>2, <4>1, <4>2
    <3> QED BY <3>1, <3>3, <3>4, <3>5
  <2> QED BY <2>3, <2>4
<1>3. Stacks(c, Loops(u)) /\ Good(c, AllPending(u), sure)
  BY <1>1 DEF Acts
<1>4. IrgenInv(c, u, sure)
  BY <1>1, <1>2, <1>3 DEF IrgenInv
<1> QED BY <1>4

(* Shapes. *)
LEMMA NoTask ==
  ASSUME NEW w
  PROVE  TakesOver(w, <<>>, {}) /\ AllPending(<<>>) = {} /\ Loops(<<>>) = {}
<1>1. IsSeq(<<>>) /\ DOMAIN <<>> = {}
  BY NothingIsSeq
<1>2. AllPending(<<>>) = {} /\ Loops(<<>>) = {}
  BY <1>1 DEF AllPending, Loops
<1> QED BY <1>1, <1>2 DEF TakesOver, Apart

LEMMA OneTask ==
  ASSUME NEW w, NEW x, Plain(x)
  PROVE  TakesOver(w, <<x>>, {}) /\ AllPending(<<x>>) = {} /\ Loops(<<x>>) = {}
<1> DEFINE one == 1
           t == <<x>>
<1>1. IsSeq(t) /\ DOMAIN t = {one} /\ t[one] = x
  <2>1. t \in Seq({x})
    OBVIOUS
  <2>2. DOMAIN t = {1} /\ t[1] = x
    OBVIOUS
  <2> QED BY <2>1, <2>2 DEF IsSeq
<1>2. WellFormed(x) /\ Pending(x) = {} /\ ~IsLoop(x)
  BY PlainFacts
<1> HIDE DEF one, t
<1>3. AllPending(t) = {}
  BY <1>1, <1>2 DEF AllPending
<1>4. Loops(t) = {}
  BY <1>1, <1>2 DEF Loops
<1>5. TakesOver(w, t, {})
  BY <1>1, <1>2, <1>3 DEF TakesOver, Apart
<1> QED BY <1>3, <1>4, <1>5 DEF t

LEMMA TwoTasks ==
  ASSUME NEW w, NEW x, Plain(x), NEW y, WellFormed(y), NEW fresh,
         Pending(y) \subseteq Pending(w[1]) \cup fresh, fresh \cap AllPending(w) = {},
         IsLoop(y) => \/ IsLoop(w[1]) /\ y.first = w[1].first
                      \/ \A g \in Loops(w) : g < y.first
  PROVE  /\ TakesOver(w, <<x, y>>, fresh) /\ AllPending(<<x, y>>) = Pending(y)
         /\ Loops(<<x, y>>) = IF IsLoop(y) THEN {y.first} ELSE {}
<1> DEFINE one == 1
           two == 2
           t == <<x, y>>
<1>1. IsSeq(t) /\ DOMAIN t = {one, two} /\ t[one] = x /\ t[two] = y
  <2>1. t \in Seq({x, y})
    OBVIOUS
  <2>2. DOMAIN t = {1, 2} /\ t[1] = x /\ t[2] = y
    OBVIOUS
  <2> QED BY <2>1, <2>2 DEF IsSeq
<1>2. WellFormed(x) /\ Pending(x) = {} /\ ~IsLoop(x)
  BY PlainFacts
<1> HIDE DEF one, two, t
<1>3. AllPending(t) = Pending(y)
  BY <1>1, <1>2 DEF AllPending
<1>4. Loops(t) = IF IsLoop(y) THEN {y.first} ELSE {}
  BY <1>1, <1>2 DEF Loops
<1>5. Apart(t)
  BY <1>1, <1>2 DEF Apart
<1>6. TakesOver(w, t, fresh)
  BY <1>1, <1>2, <1>3, <1>5 DEF TakesOver
<1> QED BY <1>3, <1>4, <1>6 DEF t

(* Actions on the call stack, by what replaces the top. *)
LEMMA ActsNothing ==
  ASSUME NEW b, NEW w, NEW sure, IrgenInv(b, w, sure), w # <<>>,
         NEW c, NEW u, u = <<>> \o Tail(w), Stacks(c, LoopsAfter(w, <<>>)),
         Good(c, AllPending(w) \ Pending(w[1]), sure),
         sure => Onwards(b, c) /\ KeepsConditions(b, w, c, <<>>)
  PROVE  IrgenInv(c, u, sure)
<1>1. TakesOver(w, <<>>, {}) /\ AllPending(<<>>) = {} /\ DOMAIN <<>> = {}
  BY NoTask
<1>2. LoopsLeft(c, <<>>)
  BY <1>1 DEF LoopsLeft
<1>3. PendingAfter(w, <<>>) = AllPending(w) \ Pending(w[1])
  BY <1>1 DEF PendingAfter
<1>4. Acts(b, w, sure, c, <<>>)
  BY <1>2, <1>3 DEF Acts
<1> QED BY <1>1, <1>4, ActsKeeps

LEMMA ActsPlain ==
  ASSUME NEW b, NEW w, NEW sure, IrgenInv(b, w, sure), w # <<>>,
         NEW c, NEW x, Plain(x), NEW u, u = <<x>> \o Tail(w), Stacks(c, LoopsAfter(w, <<x>>)),
         Good(c, AllPending(w) \ Pending(w[1]), sure),
         sure => Onwards(b, c) /\ KeepsConditions(b, w, c, <<x>>)
  PROVE  IrgenInv(c, u, sure)
<1> DEFINE t == <<x>>
<1>1. TakesOver(w, t, {}) /\ AllPending(t) = {} /\ Loops(t) = {}
  BY OneTask
<1>2. LoopsLeft(c, t)
  <2>1. \A i \in DOMAIN t : t[i] = x
    OBVIOUS
  <2>2. ~IsLoop(x) /\ x.task # "body" /\ x.task # "endwhile"
    BY PlainFacts DEF IsLoop, LoopTasks
  <2> HIDE DEF t
  <2> QED BY <2>1, <2>2 DEF LoopsLeft
<1> HIDE DEF t
<1>3. PendingAfter(w, t) = AllPending(w) \ Pending(w[1])
  BY <1>1 DEF PendingAfter
<1>4. Acts(b, w, sure, c, t)
  BY <1>2, <1>3 DEF Acts, t
<1> QED BY <1>1, <1>4, ActsKeeps DEF t

LEMMA ActsTwo ==
  ASSUME NEW b, NEW w, NEW sure, IrgenInv(b, w, sure), w # <<>>,
         NEW c, NEW x, Plain(x), NEW y, WellFormed(y), NEW fresh,
         Pending(y) \subseteq Pending(w[1]) \cup fresh, fresh \cap AllPending(w) = {},
         IsLoop(y) => \/ IsLoop(w[1]) /\ y.first = w[1].first
                      \/ \A g \in Loops(w) : g < y.first,
         NEW u, u = <<x, y>> \o Tail(w), Stacks(c, LoopsAfter(w, <<x, y>>)),
         Good(c, (AllPending(w) \ Pending(w[1])) \cup Pending(y), sure),
         sure => /\ Onwards(b, c) /\ KeepsConditions(b, w, c, <<x, y>>)
                 /\ IsLoop(y) => y.first \in Listed(c)
                 /\ y.task = "endwhile" => Leads(c, y.first, y.first + 2)
                 /\ y.task = "body" => x.task \in ConditionTasks /\ AtCondition(c, y.first)
  PROVE  IrgenInv(c, u, sure)
<1> DEFINE t == <<x, y>>
<1>1. TakesOver(w, t, fresh) /\ AllPending(t) = Pending(y)
  BY TwoTasks, ZenonT(30)
<1>2. ASSUME sure PROVE LoopsLeft(c, t)
  <2>1. \A i \in DOMAIN t : t[i] = x \/ (t[i] = y /\ \A j \in 1 .. i - 1 : t[j] = x)
    OBVIOUS
  <2>2. ~IsLoop(x) /\ x.task # "body" /\ x.task # "endwhile"
    BY PlainFacts DEF IsLoop, LoopTasks
  <2> HIDE DEF t
  <2> QED BY <1>2, <2>1, <2>2 DEF LoopsLeft
<1> HIDE DEF t
<1>3. PendingAfter(w, t) = (AllPending(w) \ Pending(w[1])) \cup Pending(y)
  BY <1>1 DEF PendingAfter
<1>4. Acts(b, w, sure, c, t)
  BY <1>2, <1>3 DEF Acts, t
<1> QED BY <1>1, <1>4, ActsKeeps DEF t

-----------------------------------------------------------------------------
(* Operations on the builder. *)

Quiet(inst, id) == inst.id = id /\ ~IsTerminator(inst) /\ Targets(inst) = {}
Leaving(inst, id, to) == inst.id = id /\ IsTerminator(inst) /\ Targets(inst) = to

LEMMA QuietFacts ==
  ASSUME NEW id, NEW x, NEW y
  PROVE  /\ Quiet(Test(id, x), id) /\ Quiet(Not(id, x), id) /\ Quiet(Effect(id, x), id)
         /\ Quiet(Store(id, x, y), id) /\ Quiet(Load(id, x), id)
BY DEF Quiet, IsTerminator, Targets, Test, Not, Effect, Store, Load

LEMMA LeavingFacts ==
  ASSUME NEW id, NEW x, NEW y, NEW z
  PROVE  Leaving(Branch(id, x, y, z), id, {y, z}) /\ Leaving(Jump(id, x), id, {x})
<1>1. ToSet(<<y, z>>) = {y, z} /\ ToSet(<<x>>) = {x}
  BY DEF ToSet
<1> QED BY <1>1 DEF Leaving, IsTerminator, Targets, Branch, Jump

(* From builder to builder, apart from loops that begin and end. *)
Carries(b, c) ==
  /\ Onwards(b, c)
  /\ c.condStack = b.condStack /\ c.tailStack = b.tailStack /\ c.returnBlock = b.returnBlock

LEMMA CarriesOn ==
  ASSUME NEW b, NEW c, NEW d, Carries(b, c), Carries(c, d)
  PROVE  Carries(b, d)
BY DEF Carries, Onwards

LEMMA CarriesNothing == \A b : Carries(b, b)
BY DEF Carries, Onwards

LEMMA EmitQuiet ==
  ASSUME NEW b, NEW P, NEW sure, Good(b, P, sure),
         NEW inst, NEW id \in Nat, Quiet(inst, id), b.nextInst <= id, NEW e, e = Emit(b, inst)
  PROVE  /\ Good(e, P, sure) /\ Carries(b, e)
         /\ \A first : AtCondition(b, first) => AtCondition(e, first)
<1>1. Good(e, P, sure) /\ Onwards(b, e) /\ Emitting(b, inst, e)
  <2>1. inst.id \in Nat /\ b.nextInst <= inst.id /\ ~IsTerminator(inst) /\ Targets(inst) = {}
    BY DEF Quiet
  <2>2. WellAimed(b, P, inst)
    BY <2>1 DEF WellAimed
  <2> QED BY <2>1, <2>2, GoodEmit
<1>2. Carries(b, e)
  BY <1>1 DEF Carries, Emitting
<1>3. ASSUME NEW first, AtCondition(b, first) PROVE AtCondition(e, first)
  <2>1. Home(b) = b.cur
    BY <1>3 DEF AtCondition, Home
  <2>2. e.cur = b.cur /\ ~Closed(e, b.cur) /\ e.list = b.list
    BY <1>1, <2>1 DEF Emitting, Quiet
  <2>3. Leads(e, first, b.cur)
    BY <1>1, <1>3, StillLeads DEF AtCondition
  <2> QED BY <1>3, <2>2, <2>3 DEF AtCondition, Listed
<1> QED BY <1>1, <1>2, <1>3

LEMMA EmitLeaving ==
  ASSUME NEW b, NEW P, NEW sure, Good(b, P, sure),
         NEW inst, NEW to, Leaving(inst, b.nextInst, to),
         sure => /\ to \subseteq Listed(b) \cup P
                 /\ \E t \in to, u \in P \cup {b.returnBlock} : Leads(b, t, u),
         NEW e, e = Emit(b, inst)
  PROVE  /\ Good(e, P, sure) /\ Carries(b, e)
         /\ \A first : \A x \in to : AtCondition(b, first) => Leads(e, first, x)
<1>1. Good(e, P, sure) /\ Onwards(b, e) /\ Emitting(b, inst, e)
  <2>1. b.nextInst \in Nat
    BY DEF Good, Sound
  <2>2. inst.id \in Nat /\ b.nextInst <= inst.id /\ IsTerminator(inst) /\ Targets(inst) = to
    BY <2>1 DEF Leaving
  <2>3. sure => WellAimed(b, P, inst)
    BY <2>2 DEF WellAimed
  <2> QED BY <2>2, <2>3, GoodEmit
<1>2. Carries(b, e)
  BY <1>1 DEF Carries, Emitting
<1>3. ASSUME NEW first, NEW x \in to, AtCondition(b, first) PROVE Leads(e, first, x)
  <2>1. Home(b) = b.cur
    BY <1>3 DEF AtCondition, Home
  <2>2. Closed(e, b.cur) /\ Targets(Exit(e, b.cur)) = to /\ e.list = b.list
    BY <1>1, <2>1 DEF Emitting, Leaving
  <2>3. PICK p \in DOMAIN e.list : e.list[p] = b.cur
    BY <1>3, <2>2 DEF AtCondition, Listed, ToSet
  <2>4. Leads(e, first, b.cur)
    BY <1>1, <1>3, StillLeads DEF AtCondition
  <2> QED BY <2>2, <2>3, <2>4 DEF Leads, Onto
<1> QED BY <1>1, <1>2, <1>3

LEMMA EnterPending ==
  ASSUME NEW b, NEW P, NEW sure, Good(b, P, sure), NEW x \in P, NEW e, e = Enter(b, x)
  PROVE  /\ Good(e, P \ {x}, sure) /\ Carries(b, e) /\ x \in Listed(e)
         /\ \A first : Leads(b, first, x) => AtCondition(e, first)
<1>1. /\ Good(e, P \ {x}, sure) /\ Entering(b, x, e)
      /\ Onwards(b, e) /\ ~Closed(e, x) /\ x \in Listed(e)
  BY GoodEnter
<1>2. Carries(b, e) /\ e.cur = x
  BY <1>1 DEF Carries, Entering
<1>3. ASSUME NEW first, Leads(b, first, x) PROVE AtCondition(e, first)
  BY <1>1, <1>2, <1>3, StillLeads DEF AtCondition
<1> QED BY <1>1, <1>2, <1>3

LEMMA LeadsToItself == \A b, k : Leads(b, k, k)
BY DEF Leads

LEMMA JumpTo ==
  ASSUME NEW b, NEW P, NEW sure, Good(b, P, sure), NEW x,
         sure => x \in Listed(b) \cup P /\ \E u \in P \cup {b.returnBlock} : Leads(b, x, u),
         NEW e, e = EmitJump(b, x)
  PROVE  /\ Good(e, P, sure) /\ Carries(b, e)
         /\ \A first : AtCondition(b, first) => Leads(e, first, x)
<1> DEFINE inst == Jump(b.nextInst, x)
           to == {x}
<1>1. e = Emit(b, inst) /\ Leaving(inst, b.nextInst, to)
  BY LeavingFacts DEF EmitJump
<1>2. sure => /\ to \subseteq Listed(b) \cup P
              /\ \E t \in to, u \in P \cup {b.returnBlock} : Leads(b, t, u)
  OBVIOUS
<1>3. x \in to
  OBVIOUS
<1> HIDE DEF inst, to
<1>4. /\ Good(e, P, sure) /\ Carries(b, e)
      /\ \A first : \A t \in to : AtCondition(b, first) => Leads(e, first, t)
  BY <1>1, <1>2, EmitLeaving
<1> QED BY <1>3, <1>4

LEMMA BranchTo ==
  ASSUME NEW b, NEW P, NEW sure, Good(b, P, sure), NEW cond, NEW yes \in P, NEW no \in P,
         NEW e, e = Emit(b, Branch(b.nextInst, cond, yes, no))
  PROVE  /\ Good(e, P, sure) /\ Carries(b, e)
         /\ \A first : AtCondition(b, first) => Leads(e, first, yes) /\ Leads(e, first, no)
<1> DEFINE inst == Branch(b.nextInst, cond, yes, no)
           to == {yes, no}
<1>1. e = Emit(b, inst) /\ Leaving(inst, b.nextInst, to)
  BY LeavingFacts
<1>2. /\ to \subseteq Listed(b) \cup P
      /\ \E t \in to, u \in P \cup {b.returnBlock} : Leads(b, t, u)
  BY LeadsToItself
<1>3. yes \in to /\ no \in to
  OBVIOUS
<1> HIDE DEF inst, to
<1>4. /\ Good(e, P, sure) /\ Carries(b, e)
      /\ \A first : \A t \in to : AtCondition(b, first) => Leads(e, first, t)
  BY <1>1, <1>2, EmitLeaving
<1> QED BY <1>3, <1>4

(* EmitJumpIfOpen *)
LEMMA CloseBlock ==
  ASSUME NEW b, NEW P, NEW sure, Good(b, P, sure), NEW x,
         sure => /\ x \in Listed(b) \cup P
                 /\ \E u \in P \cup {b.returnBlock} : Leads(b, x, u),
         NEW e, e = EmitJumpIfOpen(b, x)
  PROVE  Good(e, P, sure) /\ Carries(b, e)
<1>1. CASE HasTerminator(b)
  BY <1>1, CarriesNothing DEF EmitJumpIfOpen
<1>2. CASE ~HasTerminator(b)
  BY <1>2, JumpTo DEF EmitJumpIfOpen
<1> QED BY <1>1, <1>2


-----------------------------------------------------------------------------
(* The stacks of the loops. *)

LEMMA SameStacks ==
  ASSUME NEW b, NEW c, c.condStack = b.condStack, c.tailStack = b.tailStack,
         NEW L, Stacks(b, L)
  PROVE  Stacks(c, L)
BY DEF Stacks

LEMMA PushLoop ==
  ASSUME NEW b, NEW L, Stacks(b, L), NEW first \in Nat, \A g \in L : g < first, NEW c,
         c.condStack = Append(b.condStack, first), c.tailStack = Append(b.tailStack, first + 2)
  PROVE  Stacks(c, L \cup {first})
<1> DEFINE s == b.condStack
           t == b.tailStack
           n == Len(s)
           S == c.condStack
           T == c.tailStack
<1>1. /\ s \in Seq(Nat) /\ t \in Seq(Nat) /\ Len(t) = n
      /\ \A m \in DOMAIN s : t[m] = s[m] + 2
      /\ \A m, k \in DOMAIN s : m < k => s[m] < s[k]
      /\ ToSet(s) = L
  BY DEF Stacks
<1>2. first + 2 \in Nat
  OBVIOUS
<1>3. S = Append(s, first) /\ T = Append(t, first + 2)
  OBVIOUS
<1> HIDE DEF s, t, S, T
<1>4. /\ S \in Seq(Nat) /\ T \in Seq(Nat) /\ n \in Nat /\ Len(S) = n + 1 /\ Len(T) = n + 1
      /\ DOMAIN s = 1 .. n /\ DOMAIN S = 1 .. n + 1
      /\ \A m \in 1 .. n : S[m] = s[m] /\ T[m] = t[m]
      /\ S[n + 1] = first /\ T[n + 1] = first + 2
  BY <1>1, <1>2, <1>3, SMTT(30)
<1> HIDE DEF n
<1>5. \A m \in 1 .. n : s[m] \in L /\ s[m] < first
  BY <1>1, <1>4 DEF ToSet
<1>6. \A m \in DOMAIN S : m \in 1 .. n \/ m = n + 1
  BY <1>4
<1>7. \A m \in DOMAIN S : T[m] = S[m] + 2
  BY <1>1, <1>4, <1>6
<1>8. ASSUME NEW m \in DOMAIN S, NEW k \in DOMAIN S, m < k PROVE S[m] < S[k]
  <2>1. m \in 1 .. n
    BY <1>4, <1>8
  <2>2. CASE k \in 1 .. n
    BY <1>1, <1>4, <1>8, <2>1, <2>2
  <2>3. CASE k = n + 1
    BY <1>4, <1>5, <2>1, <2>3
  <2> QED BY <1>6, <2>2, <2>3
<1>9. ToSet(S) = L \cup {first}
  <2>1. \A m \in 1 .. n : m \in DOMAIN S
    BY <1>4
  <2>2. n + 1 \in DOMAIN S
    BY <1>4
  <2>3. ASSUME NEW g \in L PROVE g \in ToSet(S)
    <3>1. PICK m \in DOMAIN s : s[m] = g
      BY <1>1 DEF ToSet
    <3>2. m \in DOMAIN S /\ S[m] = g
      BY <1>4, <2>1, <3>1
    <3> QED BY <3>2 DEF ToSet
  <2>4. ASSUME NEW g \in ToSet(S) PROVE g \in L \cup {first}
    <3>1. PICK m \in DOMAIN S : S[m] = g
      BY DEF ToSet
    <3> QED BY <1>4, <1>5, <1>6, <3>1
  <2>5. first \in ToSet(S)
    BY <1>4, <2>2 DEF ToSet
  <2> QED BY <2>3, <2>4, <2>5
<1> QED BY <1>4, <1>7, <1>8, <1>9 DEF Stacks, S, T

LEMMA InnermostLoop ==
  ASSUME NEW b, NEW L, Stacks(b, L), b.condStack # <<>>
  PROVE  Last(b.condStack) \in L /\ Last(b.tailStack) = Last(b.condStack) + 2
<1>1. /\ IsSeq(b.condStack) /\ IsSeq(b.tailStack) /\ Len(b.condStack) = Len(b.tailStack)
      /\ \A m \in DOMAIN b.condStack : b.tailStack[m] = b.condStack[m] + 2
      /\ ToSet(b.condStack) = L
  BY DEF Stacks, IsSeq
<1>2. /\ Len(b.condStack) \in Nat \ {0} /\ DOMAIN b.condStack = 1 .. Len(b.condStack)
      /\ Last(b.condStack) = b.condStack[Len(b.condStack)]
  BY <1>1, LastFacts
<1>3. b.tailStack # <<>>
  BY <1>1, <1>2, NothingIsSeq
<1>4. Last(b.tailStack) = b.tailStack[Len(b.tailStack)]
  BY <1>1, <1>3, LastFacts
<1>5. Len(b.condStack) \in DOMAIN b.condStack
  BY <1>2
<1> QED BY <1>1, <1>2, <1>4, <1>5 DEF ToSet

LEMMA PopInnermost ==
  ASSUME NEW b, NEW L, Stacks(b, L), NEW first \in L, \A g \in L : g <= first, NEW c,
         c.condStack = Front(b.condStack), c.tailStack = Front(b.tailStack)
  PROVE  Stacks(c, L \ {first})
<1> DEFINE s == b.condStack
           t == b.tailStack
           n == Len(s)
           S == c.condStack
           T == c.tailStack
<1>1. /\ s \in Seq(Nat) /\ t \in Seq(Nat) /\ Len(t) = n
      /\ \A m \in DOMAIN s : t[m] = s[m] + 2
      /\ \A m, k \in DOMAIN s : m < k => s[m] < s[k]
      /\ ToSet(s) = L
  BY DEF Stacks
<1>2. S = Front(s) /\ T = Front(t)
  OBVIOUS
<1> HIDE DEF s, t, S, T
<1>3. PICK f \in DOMAIN s : s[f] = first
  BY <1>1 DEF ToSet
<1>4. s # <<>> /\ t # <<>>
  BY <1>1, <1>3
<1>5. /\ S \in Seq(Nat) /\ Len(S) = n - 1 /\ n \in Nat \ {0} /\ DOMAIN s = 1 .. n
      /\ \A m \in 1 .. n - 1 : S[m] = s[m]
  BY <1>1, <1>2, <1>4, FrontFacts
<1>6. /\ T \in Seq(Nat) /\ Len(T) = n - 1 /\ \A m \in 1 .. n - 1 : T[m] = t[m]
  BY <1>1, <1>2, <1>4, FrontFacts
<1> HIDE DEF n
<1>7. DOMAIN S = 1 .. n - 1
  BY <1>5
<1>8. \A m \in 1 .. n : s[m] \in Nat /\ s[m] \in L
  <2>1. \A m \in DOMAIN s : s[m] \in ToSet(s)
    BY DEF ToSet
  <2>2. \A m \in DOMAIN s : s[m] \in Nat
    BY <1>1
  <2> QED BY <1>1, <1>5, <2>1, <2>2
<1>9. s[n] = first
  <2>1. n \in 1 .. n /\ f \in 1 .. n
    BY <1>3, <1>5
  <2>2. ASSUME f < n PROVE FALSE
    <3>1. s[f] < s[n] /\ s[n] <= first
      BY <1>1, <1>5, <1>8, <2>1, <2>2
    <3> QED BY <1>3, <1>8, <2>1, <3>1
  <2>3. f = n
    BY <1>5, <2>1, <2>2
  <2> QED BY <1>3, <2>3
<1>10. \A m \in 1 .. n - 1 : S[m] < first /\ m \in DOMAIN s /\ S[m] = s[m] /\ T[m] = t[m]
  <2> TAKE m \in 1 .. n - 1
  <2>1. m \in 1 .. n /\ n \in 1 .. n /\ m < n
    BY <1>5
  <2> QED BY <1>1, <1>5, <1>6, <1>9, <2>1
<1>11. ToSet(S) = L \ {first}
  <2>1. ASSUME NEW g \in ToSet(S) PROVE g \in L \ {first}
    <3>1. PICK m \in 1 .. n - 1 : S[m] = g
      BY <1>7 DEF ToSet
    <3>2. g = s[m] /\ m \in 1 .. n
      BY <1>5, <1>10, <3>1
    <3> QED BY <1>8, <1>10, <3>1, <3>2
  <2>2. ASSUME NEW g \in L, g # first PROVE g \in ToSet(S)
    <3>1. PICK m \in DOMAIN s : s[m] = g
      BY <1>1 DEF ToSet
    <3>2. m \in 1 .. n - 1
      BY <1>5, <1>9, <2>2, <3>1
    <3> QED BY <1>5, <1>7, <3>1, <3>2 DEF ToSet
  <2> QED BY <2>1, <2>2
<1>12. \A m \in DOMAIN S : T[m] = S[m] + 2
  BY <1>1, <1>7, <1>10
<1>13. \A m, k \in DOMAIN S : m < k => S[m] < S[k]
  BY <1>1, <1>7, <1>10
<1>14. Len(S) = Len(T)
  BY <1>5, <1>6
<1> QED BY <1>5, <1>6, <1>11, <1>12, <1>13, <1>14 DEF Stacks, S, T


-----------------------------------------------------------------------------
(* Actions whose tasks have no blocks of their own. *)

AtKept(b, c) == \A first : AtCondition(b, first) => AtCondition(c, first)

LEMMA PlainTop ==
  ASSUME NEW b, NEW w, NEW sure, IrgenInv(b, w, sure), w # <<>>, Plain(w[1]), NEW t,
         Loops(t) = {}, NEW c, Good(c, AllPending(w), sure), Carries(b, c)
  PROVE  /\ Stacks(c, LoopsAfter(w, t)) /\ Onwards(b, c)
         /\ Good(c, AllPending(w) \ Pending(w[1]), sure)
<1>1. Pending(w[1]) = {} /\ ~IsLoop(w[1])
  BY PlainFacts
<1>2. LoopsAfter(w, t) = Loops(w) /\ AllPending(w) \ Pending(w[1]) = AllPending(w)
  BY <1>1 DEF LoopsAfter
<1>3. Stacks(c, Loops(w))
  BY SameStacks DEF IrgenInv, Carries
<1> QED BY <1>2, <1>3 DEF Carries

LEMMA PlainNothing ==
  ASSUME NEW b, NEW w, NEW sure, IrgenInv(b, w, sure), w # <<>>, Plain(w[1]),
         NEW c, Good(c, AllPending(w), sure), Carries(b, c),
         w[1].task \notin ConditionTasks \/ AtKept(b, c), NEW u, u = <<>> \o Tail(w)
  PROVE  IrgenInv(c, u, sure)
<1>1. Loops(<<>>) = {} /\ DOMAIN <<>> = {}
  BY NoTask
<1>2. KeepsConditions(b, w, c, <<>>)
  BY <1>1 DEF KeepsConditions, AtKept
<1> QED BY <1>1, <1>2, PlainTop, ActsNothing

LEMMA PlainOne ==
  ASSUME NEW b, NEW w, NEW sure, IrgenInv(b, w, sure), w # <<>>, Plain(w[1]),
         w[1].task \notin ConditionTasks, NEW x, Plain(x), NEW u, u = <<x>> \o Tail(w)
  PROVE  IrgenInv(b, u, sure)
<1>1. Loops(<<x>>) = {}
  BY OneTask
<1>2. KeepsConditions(b, w, b, <<x>>)
  BY DEF KeepsConditions
<1>3. Good(b, AllPending(w), sure) /\ Carries(b, b)
  BY CarriesNothing DEF IrgenInv
<1> QED BY <1>1, <1>2, <1>3, PlainTop, ActsPlain

LEMMA PlainTwo ==
  ASSUME NEW b, NEW w, NEW sure, IrgenInv(b, w, sure), w # <<>>, Plain(w[1]),
         NEW x, Plain(x), NEW y, Plain(y), NEW u, u = <<x, y>> \o Tail(w),
         w[1].task \notin ConditionTasks \/ {x.task, y.task} \subseteq ConditionTasks
  PROVE  IrgenInv(b, u, sure)
<1>1. WellFormed(y) /\ Pending(y) = {} /\ ~IsLoop(y) /\ y.task # "body" /\ y.task # "endwhile"
  BY PlainFacts DEF Plain, PlainTasks
<1>2. Loops(<<x, y>>) = {}
  BY <1>1, TwoTasks
<1>3. KeepsConditions(b, w, b, <<x, y>>)
  <2>1. \A i \in DOMAIN <<x, y>> : <<x, y>>[i] = x \/ <<x, y>>[i] = y
    OBVIOUS
  <2> QED BY <2>1 DEF KeepsConditions
<1>4. Good(b, AllPending(w), sure) /\ Carries(b, b)
  BY CarriesNothing DEF IrgenInv
<1>5. /\ Stacks(b, LoopsAfter(w, <<x, y>>)) /\ Onwards(b, b)
      /\ Good(b, (AllPending(w) \ Pending(w[1])) \cup Pending(y), sure)
  BY <1>1, <1>2, <1>4, PlainTop
<1> QED BY <1>1, <1>3, <1>5, ActsTwo

-----------------------------------------------------------------------------
(* The actions of irgen. *)

LEMMA TopFacts ==
  ASSUME NEW sure, IrgenInv(builder, work, sure), NEW task, Is(task)
  PROVE  /\ work # <<>> /\ Top = work[1] /\ WellFormed(work[1]) /\ work[1].task = task
         /\ Pending(work[1]) \subseteq AllPending(work) /\ 1 \in DOMAIN work
<1>1. IsSeq(work) /\ work # <<>> /\ Top.task = task
  BY DEF Is, IrgenInv
<1>2. 1 \in DOMAIN work
  BY <1>1, LastFacts
<1>3. Top = work[1]
  BY <1>1 DEF Top, IsSeq
<1> QED BY <1>1, <1>2, <1>3 DEF IrgenInv, AllPending

LEMMA KindFacts ==
  ASSUME NEW kind, NEW sure, IrgenInv(builder, work, sure)
  PROVE  /\ IsStatement(kind) => Is("statement") /\ Plain(work[1]) /\ work[1].task = "statement"
         /\ IsCondition(kind) => Is("condition") /\ Plain(work[1]) /\ work[1].task = "condition"
BY TopFacts DEF IsStatement, IsCondition, Plain, PlainTasks

LEMMA NewTasks ==
  ASSUME NEW x, NEW y, NEW z
  PROVE  /\ Plain(Statement(x)) /\ Plain(Nested(x)) /\ Plain(Statements(x, y, z))
         /\ Plain(Condition(x)) /\ Plain([task |-> "not"])
         /\ Condition(x).task \in ConditionTasks /\ [task |-> "not"].task \in ConditionTasks
BY DEF Plain, PlainTasks, WellFormed, StatementTasks, LoopTasks, LogicalTasks, ConditionTasks,
       Statement, Nested, Statements, Condition

(* Actions that leave the builder alone. *)
ControlStep ==
  \/ CreateIf \/ GenStatements \/ GenNested \/ GenBlock \/ GenBlank \/ GenExpression
  \/ GenConstant \/ GenNot

LEMMA ControlKeeps ==
  ASSUME NEW sure, IrgenInv(builder, work, sure), ControlStep
  PROVE  IrgenInv(builder', work', sure)
<1> DEFINE b == builder
           w == work
<1>1. Good(b, AllPending(w), sure) /\ Carries(b, b) /\ AtKept(b, b)
  BY CarriesNothing DEF IrgenInv, AtKept
<1>2. {"statement", "nested", "statements"} \cap ConditionTasks = {}
  BY DEF ConditionTasks, LogicalTasks
<1>3. CASE CreateIf
  <2>1. w # <<>> /\ Plain(w[1]) /\ w[1].task \in {"statement", "nested"} /\ Top = w[1]
    BY <1>3, TopFacts DEF CreateIf, Plain, PlainTasks
  <2>2. PICK s : builder' = b /\ w' = <<[w[1] EXCEPT !.s = s]>> \o Tail(w)
    BY <1>3, <2>1 DEF CreateIf, Replace
  <2>3. Plain([w[1] EXCEPT !.s = s])
    <3>1. w[1] = [task |-> w[1].task, s |-> w[1].s]
      BY <2>1 DEF Plain, WellFormed
    <3>2. [w[1] EXCEPT !.s = s] = [task |-> w[1].task, s |-> s]
      BY <3>1
    <3>3. CASE w[1].task = "statement"
      BY <3>2, <3>3, NewTasks DEF Statement
    <3>4. CASE w[1].task = "nested"
      BY <3>2, <3>4, NewTasks DEF Nested
    <3> QED BY <2>1, <3>3, <3>4
  <2>4. w[1].task \notin ConditionTasks
    BY <1>2, <2>1
  <2> QED BY <2>1, <2>2, <2>3, <2>4, PlainOne
<1>4. CASE GenStatements
  <2>1. w # <<>> /\ Plain(w[1]) /\ w[1].task = "statements" /\ Top = w[1]
    BY <1>4, TopFacts DEF GenStatements, Plain, PlainTasks
  <2>2. w[1].task \notin ConditionTasks
    BY <1>2, <2>1
  <2>3. builder' = b /\ \/ w' = <<>> \o Tail(w)
                        \/ \E x, y, z, v : w' = <<Statement(x), Statements(y, z, v)>> \o Tail(w)
    BY <1>4 DEF GenStatements, Replace
  <2>4. CASE w' = <<>> \o Tail(w)
    BY <1>1, <2>1, <2>2, <2>3, <2>4, PlainNothing
  <2>5. CASE \E x, y, z, v : w' = <<Statement(x), Statements(y, z, v)>> \o Tail(w)
    <3>1. PICK x, y, z, v : w' = <<Statement(x), Statements(y, z, v)>> \o Tail(w)
      BY <2>5
    <3> QED BY <2>1, <2>2, <2>3, <3>1, NewTasks, PlainTwo
  <2> QED BY <2>3, <2>4, <2>5
<1>5. CASE GenNested
  <2>1. w # <<>> /\ Plain(w[1]) /\ w[1].task = "nested" /\ Top = w[1]
    BY <1>5, TopFacts DEF GenNested, Plain, PlainTasks
  <2>2. w[1].task \notin ConditionTasks
    BY <1>2, <2>1
  <2>3. builder' = b /\ \/ w' = <<Statements(Top.s.body, TRUE, FALSE)>> \o Tail(w)
                        \/ w' = <<Statement(Top.s)>> \o Tail(w)
    BY <1>5 DEF GenNested, Replace
  <2>4. Plain(Statements(Top.s.body, TRUE, FALSE)) /\ Plain(Statement(Top.s))
    BY NewTasks
  <2> QED BY <2>1, <2>2, <2>3, <2>4, PlainOne
<1>6. CASE GenBlock \/ GenExpression
  <2>1. w # <<>> /\ Plain(w[1]) /\ w[1].task = "statement"
    BY <1>6, TopFacts, KindFacts DEF GenBlock, GenExpression
  <2>2. w[1].task \notin ConditionTasks
    BY <1>2, <2>1
  <2>3. builder' = b /\ \/ w' = <<Statements(Top.s.body, FALSE, FALSE)>> \o Tail(w)
                        \/ w' = <<Condition(Top.s.cond)>> \o Tail(w)
    BY <1>6 DEF GenBlock, GenExpression, Replace
  <2>4. Plain(Statements(Top.s.body, FALSE, FALSE)) /\ Plain(Condition(Top.s.cond))
    BY NewTasks
  <2> QED BY <2>1, <2>2, <2>3, <2>4, PlainOne
<1>7. CASE GenBlank \/ GenConstant
  <2>1. w # <<>> /\ Plain(w[1])
    BY <1>7, TopFacts, KindFacts DEF GenBlank, GenConstant
  <2>2. builder' = b /\ w' = <<>> \o Tail(w)
    BY <1>7 DEF GenBlank, GenConstant, Replace
  <2> QED BY <1>1, <2>1, <2>2, PlainNothing
<1>8. CASE GenNot
  <2>1. w # <<>> /\ Plain(w[1])
    BY <1>8, TopFacts, KindFacts DEF GenNot
  <2>2. builder' = b /\ w' = <<Condition(Top.e.e), [task |-> "not"]>> \o Tail(w)
    BY <1>8 DEF GenNot, Replace
  <2> DEFINE x == Condition(Top.e.e)
             y == [task |-> "not"]
  <2>3. Plain(x) /\ Plain(y) /\ x.task \in ConditionTasks /\ y.task \in ConditionTasks
    BY NewTasks
  <2> HIDE DEF x, y
  <2>4. {x.task, y.task} \subseteq ConditionTasks
    BY <2>3
  <2>5. w' = <<x, y>> \o Tail(w)
    BY <2>2 DEF x, y
  <2>6. IrgenInv(b, w', sure)
    BY <2>1, <2>3, <2>4, <2>5, PlainTwo
  <2> QED BY <2>2, <2>6
<1> QED BY <1>3, <1>4, <1>5, <1>6, <1>7, <1>8 DEF ControlStep


(* Outside of conditions, every loop is closed and can be left. *)
LEMMA OpenLoop ==
  ASSUME NEW b, NEW w, NEW sure, sure, IrgenInv(b, w, sure), w # <<>>,
         w[1].task \notin ConditionTasks, w[1].task # "body", NEW first \in Loops(w)
  PROVE  first \in Listed(b) /\ first + 2 \in AllPending(w) /\ Leads(b, first, first + 2)
<1>1. PICK i \in DOMAIN w : IsLoop(w[i]) /\ w[i].first = first
  BY DEF Loops
<1>2. /\ first \in Listed(b)
      /\ w[i].task = "endwhile" => Leads(b, first, first + 2)
      /\ w[i].task = "body" => \A j \in 1 .. i - 1 : w[j].task \in ConditionTasks
  BY <1>1 DEF IrgenInv, LoopsLeft
<1>3. i \in Nat \ {0}
  BY <1>1, LastFacts DEF IrgenInv
<1>4. w[i].task = "endwhile"
  <2>1. ASSUME w[i].task = "body" PROVE FALSE
    <3>1. i # 1
      BY <2>1
    <3>2. 1 \in 1 .. i - 1
      BY <1>3, <3>1
    <3> QED BY <1>2, <2>1, <3>2
  <2> QED BY <1>1, <2>1 DEF IsLoop, LoopTasks
<1>5. Pending(w[i]) = {first + 2}
  BY <1>1, <1>4 DEF Pending
<1> QED BY <1>1, <1>2, <1>4, <1>5 DEF AllPending

(* Actions that append instructions and are done. *)
AppendStep ==
  GenEffect \/ GenReturn \/ GenBreak \/ GenContinue \/ GenTest \/ GenNotRest

LEMMA AppendKeeps ==
  ASSUME NEW sure, IrgenInv(builder, work, sure), sure => BreaksInLoops, AppendStep
  PROVE  IrgenInv(builder', work', sure)
<1> DEFINE b == builder
           w == work
           P == AllPending(w)
           id == b.nextInst
<1>1. Good(b, P, sure) /\ id \in Nat /\ Stacks(b, Loops(w)) /\ b.returnBlock \in Listed(b)
  BY DEF IrgenInv, Good, Sound, Listed, ToSet
<1>2. {"statement", "nested", "statements"} \cap ConditionTasks = {}
  BY DEF ConditionTasks, LogicalTasks
<1> HIDE DEF P, id
<1>3. CASE GenEffect
  <2> DEFINE inst == Effect(id, Top.s.name)
  <2>1. w # <<>> /\ Plain(w[1]) /\ w[1].task = "statement"
    BY <1>3, TopFacts, KindFacts DEF GenEffect
  <2>2. builder' = Emit(b, inst) /\ w' = <<>> \o Tail(w)
    BY <1>3 DEF GenEffect, Replace, Build, id
  <2>3. Quiet(inst, id) /\ b.nextInst <= id
    BY <1>1, QuietFacts DEF id
  <2> HIDE DEF inst
  <2>4. Good(builder', P, sure) /\ Carries(b, builder')
    BY <1>1, <2>2, <2>3, EmitQuiet
  <2> QED BY <1>2, <2>1, <2>2, <2>4, PlainNothing DEF P
<1>4. CASE GenReturn
  <2>1. w # <<>> /\ Plain(w[1]) /\ w[1].task = "statement"
    BY <1>4, TopFacts, KindFacts DEF GenReturn
  <2> DEFINE inst == Store(id, Const(Top.s.value[1]), b.returnCell)
             stored == IF Top.s.value = <<>> THEN b ELSE Emit(b, inst)
  <2>2. builder' = EmitJump(stored, b.returnBlock) /\ w' = <<>> \o Tail(w)
    BY <1>4 DEF GenReturn, Replace, Build, id
  <2>3. Quiet(inst, id) /\ b.nextInst <= id
    BY <1>1, QuietFacts DEF id
  <2>4. Good(stored, P, sure) /\ Carries(b, stored)
    <3>1. CASE Top.s.value = <<>>
      BY <1>1, <3>1, CarriesNothing
    <3>2. CASE Top.s.value # <<>>
      <4> HIDE DEF inst
      <4>1. Good(Emit(b, inst), P, sure) /\ Carries(b, Emit(b, inst))
        BY <1>1, <2>3, EmitQuiet
      <4> QED BY <3>2, <4>1
    <3> QED BY <3>1, <3>2
  <2> HIDE DEF inst, stored
  <2>6. /\ b.returnBlock \in Listed(stored) /\ b.returnBlock = stored.returnBlock
        /\ Leads(stored, b.returnBlock, stored.returnBlock)
    BY <1>1, <2>4, LeadsToItself DEF Carries, Onwards
  <2>7. Good(builder', P, sure) /\ Carries(stored, builder')
    BY <2>2, <2>4, <2>6, JumpTo
  <2>8. Carries(b, builder')
    BY <2>4, <2>7, CarriesOn
  <2> QED BY <1>2, <2>1, <2>2, <2>7, <2>8, PlainNothing DEF P
<1>5. CASE GenBreak \/ GenContinue
  <2>1. w # <<>> /\ Plain(w[1]) /\ w[1].task = "statement"
    BY <1>5, TopFacts, KindFacts DEF GenBreak, GenContinue
  <2>2. PICK x : /\ x \in {Last(b.condStack), Last(b.tailStack)}
                 /\ builder' = EmitJump(b, x) /\ w' = <<>> \o Tail(w)
    BY <1>5 DEF GenBreak, GenContinue, Replace, Build
  <2> DEFINE first == Last(b.condStack)
  <2>4. ASSUME sure
        PROVE  x \in Listed(b) \cup P /\ \E u \in P \cup {b.returnBlock} : Leads(b, x, u)
    <3>1. b.condStack # <<>>
      BY <1>5, <2>4 DEF BreaksInLoops, GenBreak, GenContinue
    <3>2. first \in Loops(w) /\ x \in {first, first + 2}
      BY <1>1, <2>2, <3>1, InnermostLoop
    <3> HIDE DEF first
    <3>3. w[1].task \notin ConditionTasks /\ w[1].task # "body"
      BY <1>2, <2>1
    <3>4. first \in Listed(b) /\ first + 2 \in P /\ Leads(b, first, first + 2)
      BY <2>1, <2>4, <3>2, <3>3, OpenLoop DEF P
    <3> QED BY <3>2, <3>4, LeadsToItself
  <2>5. Good(builder', P, sure) /\ Carries(b, builder')
    BY <1>1, <2>2, <2>4, JumpTo
  <2> QED BY <1>2, <2>1, <2>2, <2>5, PlainNothing DEF P
<1>6. CASE GenTest \/ GenNotRest
  <2>1. w # <<>> /\ Plain(w[1])
    <3>1. CASE GenTest
      BY <3>1, TopFacts, KindFacts DEF GenTest
    <3>2. CASE GenNotRest
      BY <3>2, TopFacts DEF GenNotRest, Plain, PlainTasks
    <3> QED BY <1>6, <3>1, <3>2
  <2>2. PICK inst, new : /\ new \in Nat /\ id <= new /\ Quiet(inst, new)
                         /\ builder' = Emit(b, inst) /\ w' = <<>> \o Tail(w)
    <3>1. CASE GenTest
      <4> DEFINE new == id + 1
                 inst == Test(new, Top.e.atom)
      <4>1. new \in Nat /\ id <= new
        BY <1>1
      <4>2. Quiet(inst, new)
        BY QuietFacts
      <4>3. builder' = Emit(b, inst) /\ w' = <<>> \o Tail(w)
        BY <3>1 DEF GenTest, Replace, Build, id
      <4> HIDE DEF inst, new
      <4> QED BY <4>1, <4>2, <4>3
    <3>2. CASE GenNotRest
      <4> DEFINE inst == Not(id, operand)
      <4>2. Quiet(inst, id) /\ id <= id
        BY <1>1, QuietFacts
      <4>3. builder' = Emit(b, inst) /\ w' = <<>> \o Tail(w)
        BY <3>2 DEF GenNotRest, Replace, Build, id
      <4> HIDE DEF inst
      <4> QED BY <1>1, <4>2, <4>3
    <3> QED BY <1>6, <3>1, <3>2
  <2>3. Good(builder', P, sure) /\ Carries(b, builder') /\ AtKept(b, builder')
    <3>1. /\ Good(builder', P, sure) /\ Carries(b, builder')
          /\ \A first : AtCondition(b, first) => AtCondition(builder', first)
      BY <1>1, <2>2, EmitQuiet DEF id
    <3> QED BY <3>1 DEF AtKept
  <2> QED BY <2>1, <2>2, <2>3, PlainNothing DEF P
<1> QED BY <1>3, <1>4, <1>5, <1>6 DEF AppendStep


-----------------------------------------------------------------------------
(* Statements with blocks. *)

LEMMA PendingFacts ==
  ASSUME NEW t
  PROVE  /\ t.task = "then" => Pending(t) = t.first .. TailOfIf(t.s, t.first)
         /\ t.task = "else" => Pending(t) = t.first + 1 .. TailOfIf(t.s, t.first)
         /\ t.task = "endif" => Pending(t) = {TailOfIf(t.s, t.first)}
         /\ t.task = "body" => Pending(t) = {t.first + 1, t.first + 2}
         /\ t.task = "endwhile" => Pending(t) = {t.first + 2}
         /\ t.task = "left" => Pending(t) = t.of.first .. t.of.first + 3
         /\ t.task = "right" => Pending(t) = t.of.first + 1 .. t.of.first + 3
BY DEF Pending

LEMMA RestFacts ==
  ASSUME NEW task \in StatementTasks, NEW s, NEW first \in Nat
  PROVE  /\ WellFormed(Rest(task, s, first)) /\ Rest(task, s, first).task = task
         /\ Rest(task, s, first).s = s /\ Rest(task, s, first).first = first
         /\ IsLoop(Rest(task, s, first)) <=> task \in LoopTasks
         /\ task \notin ConditionTasks
BY DEF WellFormed, Rest, IsLoop, StatementTasks, LoopTasks, ConditionTasks, LogicalTasks

LEMMA RestTop ==
  ASSUME NEW sure, IrgenInv(builder, work, sure), NEW task \in StatementTasks, Is(task)
  PROVE  /\ work[1] = Rest(task, work[1].s, work[1].first) /\ work[1].first \in Nat
         /\ \A other : [work[1] EXCEPT !.task = other] = Rest(other, work[1].s, work[1].first)
         /\ task \notin ConditionTasks /\ (IsLoop(work[1]) <=> task \in LoopTasks)
<1>1. WellFormed(work[1]) /\ work[1].task = task
  BY TopFacts
<1>2. work[1] = Rest(task, work[1].s, work[1].first) /\ work[1].first \in Nat
  BY <1>1 DEF WellFormed
<1>3. \A other : [work[1] EXCEPT !.task = other] = Rest(other, work[1].s, work[1].first)
  BY <1>2 DEF Rest
<1>4. task \notin ConditionTasks /\ (IsLoop(work[1]) <=> task \in LoopTasks)
  BY <1>1 DEF IsLoop, StatementTasks, LoopTasks, ConditionTasks, LogicalTasks
<1> QED BY <1>2, <1>3, <1>4

LEMMA RestDone ==
  ASSUME NEW b, NEW w, NEW sure, IrgenInv(b, w, sure), w # <<>>, ~IsLoop(w[1]),
         NEW c, Good(c, AllPending(w) \ Pending(w[1]), sure), Carries(b, c),
         w[1].task \notin ConditionTasks \/ AtKept(b, c),
         NEW u, u = <<>> \o Tail(w)
  PROVE  IrgenInv(c, u, sure)
<1>1. LoopsAfter(w, <<>>) = Loops(w)
  BY NoTask DEF LoopsAfter
<1>2. Stacks(c, LoopsAfter(w, <<>>))
  BY <1>1, SameStacks DEF IrgenInv, Carries
<1>3. Onwards(b, c) /\ KeepsConditions(b, w, c, <<>>)
  BY NoTask DEF Carries, KeepsConditions, AtKept
<1> QED BY <1>2, <1>3, ActsNothing

LEMMA RestGoesOn ==
  ASSUME NEW b, NEW w, NEW sure, IrgenInv(b, w, sure), w # <<>>, ~IsLoop(w[1]),
         NEW x, Plain(x), NEW y, WellFormed(y), ~IsLoop(y), NEW fresh,
         Pending(y) \subseteq Pending(w[1]) \cup fresh, fresh \cap AllPending(w) = {},
         NEW c, Good(c, (AllPending(w) \ Pending(w[1])) \cup Pending(y), sure), Carries(b, c),
         \/ w[1].task \notin ConditionTasks
         \/ {x.task, y.task} \subseteq ConditionTasks /\ AtKept(b, c),
         NEW u, u = <<x, y>> \o Tail(w)
  PROVE  IrgenInv(c, u, sure)
<1>1. LoopsAfter(w, <<x, y>>) = Loops(w)
  <2>1. Loops(<<x, y>>) = {}
    BY TwoTasks
  <2> QED BY <2>1 DEF LoopsAfter
<1>2. Stacks(c, LoopsAfter(w, <<x, y>>))
  BY <1>1, SameStacks DEF IrgenInv, Carries
<1>3. Onwards(b, c) /\ KeepsConditions(b, w, c, <<x, y>>)
  <2>1. \A i \in DOMAIN <<x, y>> : <<x, y>>[i] = x \/ <<x, y>>[i] = y
    OBVIOUS
  <2> QED BY <2>1 DEF Carries, KeepsConditions, AtKept
<1>4. y.task # "body" /\ y.task # "endwhile"
  BY DEF IsLoop, LoopTasks
<1> QED BY <1>2, <1>3, <1>4, ActsTwo

LEMMA FetchNew ==
  ASSUME NEW b, NEW P, NEW sure, Good(b, P, sure), NEW n \in Nat, NEW f, f = FetchBlocks(b, n)
  PROVE  /\ Good(f, P \cup NewBlocks(b, n), sure) /\ Carries(b, f) /\ AtKept(b, f)
         /\ NewBlocks(b, n) \cap P = {} /\ b.nextBlock \in Nat
         /\ \A k \in P : k \in Nat /\ k < b.nextBlock
<1>1. Good(f, P \cup NewBlocks(b, n), sure) /\ Onwards(b, f) /\ Fetching(b, n, f)
  BY GoodFetch
<1>2. Carries(b, f)
  BY <1>1 DEF Carries, Fetching
<1>3. \A k \in NewBlocks(b, n) : k \notin DOMAIN b.code
  BY <1>1 DEF Fetching
<1>4. P \subseteq DOMAIN b.code /\ b.nextBlock \in Nat
      /\ \A k \in DOMAIN b.code : k \in Nat /\ k < b.nextBlock
  BY DEF Good, Placed, Sound, Numbered
<1>5. ASSUME NEW first, AtCondition(b, first) PROVE AtCondition(f, first)
  <2>1. f.cur = b.cur /\ f.list = b.list /\ f.code[b.cur] = b.code[b.cur]
    BY <1>1 DEF Fetching, Good, Sound
  <2>2. Leads(f, first, b.cur)
    BY <1>1, <1>5, StillLeads DEF AtCondition
  <2> QED BY <1>5, <2>1, <2>2 DEF AtCondition, Listed, Closed
<1> QED BY <1>1, <1>2, <1>3, <1>4, <1>5 DEF AtKept


IfStep == GenIf \/ GenThen \/ GenElse \/ GenEndIf

LEMMA IfKeeps ==
  ASSUME NEW sure, IrgenInv(builder, work, sure), IfStep
  PROVE  IrgenInv(builder', work', sure)
<1> DEFINE b == builder
           w == work
           P == AllPending(w)
           s == w[1].s
           first == w[1].first
           tail == TailOfIf(s, first)
           Q == Pending(w[1])
<1>1. Good(b, P, sure)
  BY DEF IrgenInv
<1>t. \A f \in Nat : \A r : TailOfIf(r, f) = IF r.else = <<>> THEN f + 1 ELSE f + 2
  BY DEF TailOfIf
<1>n. \A x : Plain(Nested(x)) /\ Plain(Condition(x))
  BY NewTasks
<1>k. {"then", "else", "endif"} \subseteq StatementTasks
      /\ {"then", "else", "endif"} \cap LoopTasks = {} /\ "statement" \notin ConditionTasks
  BY DEF StatementTasks, LoopTasks, ConditionTasks, LogicalTasks
<1> HIDE DEF P, Q
<1>2. CASE GenIf
  <2> DEFINE n == IF s.else = <<>> THEN 2 ELSE 3
             f == b.nextBlock
             c == FetchBlocks(b, n)
             x == Condition(s.cond)
             y == Rest("then", s, f)
  <2>1. w # <<>> /\ Plain(w[1]) /\ w[1].task = "statement" /\ Top = w[1]
    BY <1>2, TopFacts, KindFacts DEF GenIf
  <2>2. builder' = c /\ w' = <<x, y>> \o Tail(w)
    BY <1>2, <2>1 DEF GenIf, Replace, Build
  <2>3. n \in Nat
    OBVIOUS
  <2> HIDE DEF n
  <2>4. Good(c, P \cup NewBlocks(b, n), sure) /\ Carries(b, c) /\ NewBlocks(b, n) \cap P = {} /\ f \in Nat
    BY <1>1, <2>3, FetchNew
  <2>5. WellFormed(y) /\ ~IsLoop(y) /\ y.task = "then" /\ y.s = s /\ y.first = f
    BY <1>k, <2>4, RestFacts
  <2>6. Pending(y) = NewBlocks(b, n)
    <3>1. Pending(y) = f .. TailOfIf(s, f)
      BY <2>5, PendingFacts
    <3>2. TailOfIf(s, f) = f + n - 1
      <4>1. TailOfIf(s, f) = IF s.else = <<>> THEN f + 1 ELSE f + 2
        BY <1>t, <2>4
      <4>2. f + 2 - 1 = f + 1 /\ f + 3 - 1 = f + 2
        BY <2>4
      <4> HIDE DEF f
      <4> QED BY <4>1, <4>2 DEF n
    <3> QED BY <3>1, <3>2 DEF NewBlocks
  <2>7. Q = {} /\ ~IsLoop(w[1])
    BY <2>1, PlainFacts DEF Q
  <2>8. Plain(x)
    BY <1>n
  <2>9. builder' = c /\ (P \ Q) \cup Pending(y) = P \cup NewBlocks(b, n)
    BY <2>2, <2>6, <2>7
  <2> HIDE DEF f, c, x, y, s
  <2>10. Good(c, (AllPending(w) \ Pending(w[1])) \cup Pending(y), sure)
    BY <2>4, <2>9 DEF P, Q
  <2>11. Pending(y) \subseteq Pending(w[1]) \cup NewBlocks(b, n) /\ NewBlocks(b, n) \cap AllPending(w) = {}
    BY <2>4, <2>6 DEF P
  <2> QED BY <1>k, <2>1, <2>2, <2>4, <2>5, <2>7, <2>8, <2>10, <2>11, RestGoesOn
<1>3. CASE GenThen
  <2>1. /\ w # <<>> /\ Top = w[1] /\ w[1].task = "then" /\ Q \subseteq P
        /\ first \in Nat /\ w[1].task \notin ConditionTasks /\ ~IsLoop(w[1])
        /\ [w[1] EXCEPT !.task = "else"] = Rest("else", s, first)
    BY <1>3, <1>k, TopFacts, RestTop DEF GenThen, P, Q
  <2> DEFINE e == Emit(b, Branch(b.nextInst, operand, first, first + 1))
             c == Enter(e, first)
             x == Nested(s.then)
             y == Rest("else", s, first)
  <2>2. builder' = c /\ w' = <<x, y>> \o Tail(w)
    BY <1>3, <2>1 DEF GenThen, Replace, Build
  <2>3. Q = first .. tail /\ tail \in {first + 1, first + 2}
    BY <1>t, <2>1, PendingFacts DEF Q
  <2>4. WellFormed(y) /\ ~IsLoop(y) /\ y.task = "else" /\ y.s = s /\ y.first = first
    BY <1>k, <2>1, RestFacts
  <2>5. Pending(y) = first + 1 .. tail
    BY <2>4, PendingFacts
  <2>6. first \in P /\ first + 1 \in P /\ (P \ Q) \cup Pending(y) = P \ {first} /\ Pending(y) \subseteq Q
    BY <2>1, <2>3, <2>5
  <2>7. Plain(x)
    BY <1>n
  <2> HIDE DEF c, e, x, y, s, first, tail
  <2>8. Good(e, P, sure) /\ Carries(b, e)
    BY <1>1, <2>6, BranchTo DEF e
  <2>9. Good(c, P \ {first}, sure) /\ Carries(e, c)
    BY <2>6, <2>8, EnterPending DEF c
  <2>10. Carries(b, c)
    BY <2>8, <2>9, CarriesOn
  <2>11. Good(c, (AllPending(w) \ Pending(w[1])) \cup Pending(y), sure)
         /\ Pending(y) \subseteq Pending(w[1]) \cup {} /\ {} \cap AllPending(w) = {}
    BY <2>6, <2>9 DEF P, Q
  <2> QED BY <2>1, <2>2, <2>4, <2>7, <2>10, <2>11, RestGoesOn
<1>4. CASE GenElse \/ GenEndIf
  <2>1. /\ w # <<>> /\ Top = w[1] /\ w[1].task \in {"else", "endif"} /\ Q \subseteq P
        /\ first \in Nat /\ w[1].task \notin ConditionTasks /\ ~IsLoop(w[1])
        /\ [w[1] EXCEPT !.task = "endif"] = Rest("endif", s, first)
    <3>1. CASE GenElse
      BY <3>1, <1>k, TopFacts, RestTop DEF GenElse, P, Q
    <3>2. CASE GenEndIf
      BY <3>2, <1>k, TopFacts, RestTop DEF GenEndIf, P, Q
    <3> QED BY <1>4, <3>1, <3>2
  <2> DEFINE closed == EmitJumpIfOpen(b, tail)
             x == Nested(s.else[1])
             y == Rest("endif", s, first)
  <2>2. \/ /\ s.else = <<>> \/ w[1].task = "endif"
           /\ builder' = Enter(closed, tail) /\ w' = <<>> \o Tail(w)
        \/ /\ s.else # <<>> /\ w[1].task = "else"
           /\ builder' = Enter(closed, first + 1) /\ w' = <<x, y>> \o Tail(w)
    <3>1. CASE GenElse
      BY <3>1, <2>1, TopFacts DEF GenElse, Replace, Build
    <3>2. CASE GenEndIf
      BY <3>2, <2>1, TopFacts DEF GenEndIf, Replace, Build
    <3> QED BY <1>4, <3>1, <3>2
  <2>3. tail \in Nat /\ tail \in Q /\ (s.else = <<>> \/ w[1].task = "endif" => Q = {tail})
        /\ (s.else # <<>> /\ w[1].task = "else" => Q = {first + 1, tail} /\ first + 1 # tail)
    <3>1. w[1].task = "else" => Q = first + 1 .. tail
      BY PendingFacts DEF Q
    <3>2. w[1].task = "endif" => Q = {tail}
      BY PendingFacts DEF Q
    <3>3. tail = IF s.else = <<>> THEN first + 1 ELSE first + 2
      BY <1>t, <2>1
    <3> QED BY <2>1, <3>1, <3>2, <3>3
  <2>4. WellFormed(y) /\ ~IsLoop(y) /\ y.task = "endif" /\ y.s = s /\ y.first = first
    BY <1>k, <2>1, RestFacts
  <2>5. Pending(y) = {tail}
    BY <2>4, PendingFacts
  <2>6. Plain(x)
    BY <1>n
  <2> HIDE DEF closed, x, y, s, first, tail
  <2>7. tail \in P /\ Leads(b, tail, tail)
    BY <2>1, <2>3, LeadsToItself
  <2>8. Good(closed, P, sure) /\ Carries(b, closed)
    BY <1>1, <2>7, CloseBlock DEF closed
  <2>9. CASE /\ s.else = <<>> \/ w[1].task = "endif"
             /\ builder' = Enter(closed, tail) /\ w' = <<>> \o Tail(w)
    <3>1. Good(builder', P \ {tail}, sure) /\ Carries(closed, builder')
      BY <2>7, <2>8, <2>9, EnterPending
    <3>2. Carries(b, builder')
      BY <2>8, <3>1, CarriesOn
    <3>3. Good(builder', AllPending(w) \ Pending(w[1]), sure)
      BY <2>3, <2>9, <3>1 DEF P, Q
    <3> QED BY <2>1, <2>9, <3>2, <3>3, RestDone
  <2>10. CASE /\ s.else # <<>> /\ w[1].task = "else"
              /\ builder' = Enter(closed, first + 1) /\ w' = <<x, y>> \o Tail(w)
    <3> DEFINE k == first + 1
    <3>1. k \in P /\ (P \ Q) \cup Pending(y) = P \ {k} /\ Pending(y) \subseteq Q
      BY <2>1, <2>3, <2>5, <2>10
    <3>2. builder' = Enter(closed, k)
      BY <2>10
    <3> HIDE DEF k
    <3>3. Good(builder', P \ {k}, sure) /\ Carries(closed, builder')
      BY <2>8, <3>1, <3>2, EnterPending
    <3>4. Carries(b, builder')
      BY <2>8, <3>3, CarriesOn
    <3>5. Good(builder', (AllPending(w) \ Pending(w[1])) \cup Pending(y), sure)
          /\ Pending(y) \subseteq Pending(w[1]) \cup {} /\ {} \cap AllPending(w) = {}
      BY <3>1, <3>3 DEF P, Q
    <3> QED BY <2>1, <2>4, <2>6, <2>10, <3>4, <3>5, RestGoesOn
  <2> QED BY <2>2, <2>9, <2>10
<1> QED BY <1>2, <1>3, <1>4 DEF IfStep


-----------------------------------------------------------------------------
(* Loops. *)

LEMMA LoopFacts ==
  ASSUME NEW b, NEW w, NEW sure, IrgenInv(b, w, sure), w # <<>>
  PROVE  /\ \A g \in Loops(w) : g \in Nat /\ g + 2 \in AllPending(w) /\ g < b.nextBlock
         /\ IsLoop(w[1]) => w[1].first \in Loops(w) /\ \A g \in Loops(w) : g <= w[1].first
<1>1. \A i \in DOMAIN w : IsLoop(w[i]) => w[i].first \in Nat
  BY DEF IrgenInv, WellFormed, IsLoop, StatementTasks
<1>2. ASSUME NEW g \in Loops(w)
      PROVE  g \in Nat /\ g + 2 \in AllPending(w) /\ g < b.nextBlock
  <2>1. PICK i \in DOMAIN w : IsLoop(w[i]) /\ w[i].first = g
    BY DEF Loops
  <2>2. g + 2 \in Pending(w[i])
    BY <2>1, PendingFacts DEF IsLoop, LoopTasks
  <2>3. g \in Nat /\ g + 2 \in AllPending(w)
    BY <1>1, <2>1, <2>2 DEF AllPending
  <2>4. AllPending(w) \subseteq DOMAIN b.code /\ b.nextBlock \in Nat
        /\ \A k \in DOMAIN b.code : k < b.nextBlock
    BY DEF IrgenInv, Good, Placed, Sound, Numbered
  <2>5. g + 2 < b.nextBlock
    BY <2>3, <2>4
  <2> QED BY <2>3, <2>4, <2>5
<1>3. ASSUME IsLoop(w[1])
      PROVE  w[1].first \in Loops(w) /\ \A g \in Loops(w) : g <= w[1].first
  <2>1. 1 \in DOMAIN w /\ \A i \in DOMAIN w : i = 1 \/ 1 < i
    BY LastFacts DEF IrgenInv
  <2>2. w[1].first \in Loops(w)
    BY <1>3, <2>1 DEF Loops
  <2>3. ASSUME NEW g \in Loops(w) PROVE g <= w[1].first
    <3>1. PICK i \in DOMAIN w : IsLoop(w[i]) /\ w[i].first = g
      BY DEF Loops
    <3>2. i = 1 \/ g < w[1].first
      BY <1>3, <2>1, <3>1 DEF IrgenInv, Ordered
    <3> QED BY <1>2, <2>2, <3>1, <3>2
  <2> QED BY <2>2, <2>3
<1> QED BY <1>2, <1>3

WithStacks(e, x, y) == [e EXCEPT !.condStack = x, !.tailStack = y]

LEMMA SetStacks ==
  ASSUME NEW e, NEW P, NEW sure, Good(e, P, sure), NEW x, NEW y, NEW c, c = WithStacks(e, x, y)
  PROVE  /\ Good(c, P, sure) /\ Onwards(e, c) /\ AtKept(e, c)
         /\ c.condStack = x /\ c.tailStack = y
<1>1. IsBuilder(e) /\ e.nextInst \in Nat
  BY DEF Good, Sound
<1>2. SameBlocks(e, c) /\ c.condStack = x /\ c.tailStack = y
  BY <1>1 DEF IsBuilder, SameBlocks, WithStacks
<1>3. Good(c, P, sure) /\ Onwards(e, c)
  BY <1>2, GoodSame
<1>4. c.cur = e.cur /\ c.list = e.list /\ c.code = e.code
  BY <1>2 DEF SameBlocks
<1>5. AtKept(e, c)
  BY <1>3, <1>4, StillLeads DEF AtKept, AtCondition, Listed, Closed
<1> QED BY <1>2, <1>3, <1>5

LEMMA WhileKeeps ==
  ASSUME NEW sure, IrgenInv(builder, work, sure), GenWhile
  PROVE  IrgenInv(builder', work', sure)
<1> DEFINE b == builder
           w == work
           P == AllPending(w)
           s == w[1].s
           n == 3
           f == b.nextBlock
           d == FetchBlocks(b, n)
           e == Enter(d, f)
           pushedF == Append(e.condStack, f)
           pushedT == Append(e.tailStack, f + 2)
           c == WithStacks(e, pushedF, pushedT)
           x == Condition(s.cond)
           y == Rest("body", s, f)
<1>1. w # <<>> /\ Plain(w[1]) /\ w[1].task = "statement" /\ Top = w[1] /\ Good(b, P, sure)
  BY TopFacts, KindFacts DEF GenWhile, IrgenInv
<1>2. builder' = c /\ w' = <<x, y>> \o Tail(w)
  <2>1. w' = <<x, y>> \o Tail(w)
    BY <1>1 DEF GenWhile, Replace
  <2>2. builder' = c
    BY DEF GenWhile, Build, WithStacks
  <2> QED BY <2>1, <2>2
<1>3. Plain(x) /\ x.task \in ConditionTasks /\ "statement" \notin ConditionTasks
  BY NewTasks DEF ConditionTasks, LogicalTasks
<1>4. n \in Nat
  OBVIOUS
<1>5. f \in NewBlocks(b, n) /\ NewBlocks(b, n) = {f, f + 1, f + 2} /\ f \in Nat
  <2>1. f \in Nat
    BY <1>1 DEF Good, Sound, Numbered
  <2> QED BY <2>1 DEF NewBlocks
<1> HIDE DEF P, s, n, d, e, pushedF, pushedT, c, x
<1>6. /\ Good(d, P \cup NewBlocks(b, n), sure) /\ Carries(b, d) /\ NewBlocks(b, n) \cap P = {}
  BY <1>1, <1>4, FetchNew DEF d
<1> DEFINE Q == P \cup NewBlocks(b, n)
           R == Q \ {f}
<1>q. f \in Q /\ Good(d, Q, sure)
  BY <1>5, <1>6
<1> HIDE DEF f, Q
<1>7. Good(e, R, sure) /\ Carries(d, e) /\ f \in Listed(e) /\ AtCondition(e, f)
  <2>1. Leads(d, f, f)
    BY LeadsToItself
  <2>2. /\ Good(e, Q \ {f}, sure) /\ Carries(d, e) /\ f \in Listed(e)
        /\ \A first : Leads(d, first, f) => AtCondition(e, first)
    BY <1>q, EnterPending DEF e
  <2> QED BY <2>1, <2>2
<1> HIDE DEF R
<1>8. /\ Good(c, R, sure) /\ Onwards(e, c) /\ AtKept(e, c)
      /\ c.condStack = pushedF /\ c.tailStack = pushedT
  BY <1>7, SetStacks DEF c
<1>9. Carries(b, e)
  BY <1>6, <1>7, CarriesOn
<1>10. Onwards(b, c) /\ f \in Listed(c) /\ AtCondition(c, f)
  BY <1>7, <1>8, <1>9 DEF Carries, Onwards, AtKept
<1>11. c.condStack = Append(b.condStack, f) /\ c.tailStack = Append(b.tailStack, f + 2)
  BY <1>8, <1>9 DEF Carries, pushedF, pushedT
<1>12. WellFormed(y) /\ IsLoop(y) /\ y.task = "body" /\ y.first = f
       /\ Pending(y) = {f + 1, f + 2}
  <2>1. WellFormed(y) /\ IsLoop(y) /\ y.task = "body" /\ y.first = f
    BY <1>5, RestFacts DEF StatementTasks, LoopTasks
  <2> QED BY <2>1, PendingFacts
<1>13. Pending(w[1]) = {} /\ ~IsLoop(w[1])
  BY <1>1, PlainFacts
<1>14. \A g \in Loops(w) : g < f
  BY <1>1, LoopFacts DEF f
<1> HIDE DEF y, f
<1>15. /\ Pending(y) \subseteq Pending(w[1]) \cup NewBlocks(b, n)
       /\ NewBlocks(b, n) \cap AllPending(w) = {}
  BY <1>5, <1>6, <1>12 DEF P
<1>16. Loops(<<x, y>>) = {f}
  BY <1>3, <1>12, <1>14, <1>15, TwoTasks
<1>17. Stacks(c, LoopsAfter(w, <<x, y>>))
  <2>1. LoopsAfter(w, <<x, y>>) = Loops(w) \cup {f}
    BY <1>13, <1>16 DEF LoopsAfter
  <2>2. Stacks(c, Loops(w) \cup {f})
    BY <1>5, <1>11, <1>14, PushLoop DEF IrgenInv
  <2> QED BY <2>1, <2>2
<1>18. Good(c, (AllPending(w) \ Pending(w[1])) \cup Pending(y), sure)
  <2>1. R = (AllPending(w) \ Pending(w[1])) \cup Pending(y)
    BY <1>5, <1>6, <1>12, <1>13 DEF P, Q, R
  <2> QED BY <1>8, <2>1
<1>19. KeepsConditions(b, w, c, <<x, y>>) /\ w' = <<x, y>> \o Tail(w)
  BY <1>1, <1>2, <1>3 DEF KeepsConditions
<1>20. IrgenInv(c, w', sure)
  BY <1>1, <1>3, <1>10, <1>12, <1>14, <1>15, <1>17, <1>18, <1>19, ActsTwo
<1> QED BY <1>2, <1>20


LEMMA BodyKeeps ==
  ASSUME NEW sure, IrgenInv(builder, work, sure), GenBody
  PROVE  IrgenInv(builder', work', sure)
<1> DEFINE b == builder
           w == work
           P == AllPending(w)
           s == w[1].s
           f == w[1].first
           body == f + 1
           tail == f + 2
           e == Emit(b, Branch(b.nextInst, operand, body, tail))
           c == Enter(e, body)
           x == Nested(s.body)
           y == Rest("endwhile", s, f)
<1>k. "body" \in StatementTasks /\ "endwhile" \in StatementTasks
      /\ "body" \in LoopTasks /\ "endwhile" \in LoopTasks
  BY DEF StatementTasks, LoopTasks
<1>1. /\ w # <<>> /\ Top = w[1] /\ w[1].task = "body" /\ Pending(w[1]) \subseteq P /\ 1 \in DOMAIN w
      /\ f \in Nat /\ w[1].task \notin ConditionTasks /\ IsLoop(w[1])
      /\ [w[1] EXCEPT !.task = "endwhile"] = y
  BY <1>k, TopFacts, RestTop DEF GenBody
<1>2. builder' = c /\ w' = <<x, y>> \o Tail(w)
  BY <1>1 DEF GenBody, Replace, Build
<1>3. /\ WellFormed(y) /\ IsLoop(y) /\ y.task = "endwhile" /\ y.first = f /\ Pending(y) = {tail}
  <2>1. WellFormed(y) /\ IsLoop(y) /\ y.task = "endwhile" /\ y.first = f
    BY <1>k, <1>1, RestFacts
  <2> QED BY <2>1, PendingFacts
<1>4. Pending(w[1]) = {body, tail} /\ body # tail
  BY <1>1, PendingFacts
<1>5. Plain(x)
  BY NewTasks
<1>6. Good(b, P, sure) /\ Stacks(b, Loops(w))
  BY DEF IrgenInv
<1>7. f \in Loops(w) /\ Loops(<<x, y>>) = {f}
  <2>1. f \in Loops(w)
    BY <1>1, LoopFacts
  <2>2. Loops(<<x, y>>) = {f}
    <3> DEFINE none == {}
    <3>1. Pending(y) \subseteq Pending(w[1]) \cup none /\ none \cap AllPending(w) = {}
      BY <1>3, <1>4
    <3>2. IsLoop(w[1]) /\ y.first = w[1].first /\ WellFormed(y)
      BY <1>1, <1>3
    <3> HIDE DEF x, y, f, none
    <3>3. Loops(<<x, y>>) = IF IsLoop(y) THEN {y.first} ELSE {}
      BY <1>5, <3>1, <3>2, TwoTasks
    <3> QED BY <1>3, <3>3
  <2> QED BY <2>1, <2>2
<1>8. ASSUME sure PROVE f \in Listed(b) /\ AtCondition(b, f)
  <2>1. LoopsLeft(b, w)
    BY <1>8 DEF IrgenInv
  <2> QED BY <1>1, <2>1 DEF LoopsLeft
<1> HIDE DEF P, s, e, c, x, y, body, tail
<1>9. body \in P /\ tail \in P
  BY <1>1, <1>4
<1>10. Good(e, P, sure) /\ Carries(b, e) /\ (AtCondition(b, f) => Leads(e, f, tail))
  BY <1>6, <1>9, BranchTo DEF e
<1>11. Good(c, P \ {body}, sure) /\ Carries(e, c)
  BY <1>9, <1>10, EnterPending DEF c
<1>12. Carries(b, c)
  BY <1>10, <1>11, CarriesOn
<1>13. Stacks(c, LoopsAfter(w, <<x, y>>))
  <2>1. LoopsAfter(w, <<x, y>>) = Loops(w)
    BY <1>1, <1>7 DEF LoopsAfter
  <2> QED BY <1>6, <1>12, <2>1, SameStacks DEF Carries
<1>14. Good(c, (AllPending(w) \ Pending(w[1])) \cup Pending(y), sure)
  <2>1. P \ {body} = (AllPending(w) \ Pending(w[1])) \cup Pending(y)
    BY <1>3, <1>4, <1>9 DEF P
  <2> QED BY <1>11, <2>1
<1>15. ASSUME sure PROVE f \in Listed(c) /\ Leads(c, f, tail)
  <2>1. f \in Listed(c)
    BY <1>8, <1>12, <1>15 DEF Carries, Onwards
  <2>2. Leads(c, f, tail)
    BY <1>8, <1>10, <1>11, <1>15, StillLeads DEF Carries
  <2> QED BY <2>1, <2>2
<1>16. Onwards(b, c) /\ KeepsConditions(b, w, c, <<x, y>>)
  BY <1>1, <1>12 DEF Carries, KeepsConditions
<1> DEFINE none == {}
<1>17. Pending(y) \subseteq Pending(w[1]) \cup none /\ none \cap AllPending(w) = {}
  BY <1>3, <1>4
<1> HIDE DEF none
<1>18. sure => /\ IsLoop(y) => y.first \in Listed(c)
               /\ y.task = "endwhile" => Leads(c, y.first, y.first + 2)
               /\ y.task = "body" => x.task \in ConditionTasks /\ AtCondition(c, y.first)
  BY <1>3, <1>15 DEF tail
<1>f. IsLoop(y) => \/ IsLoop(w[1]) /\ y.first = w[1].first
                   \/ \A g \in Loops(w) : g < y.first
  BY <1>1, <1>3
<1>s. sure => /\ Onwards(b, c) /\ KeepsConditions(b, w, c, <<x, y>>)
              /\ IsLoop(y) => y.first \in Listed(c)
              /\ y.task = "endwhile" => Leads(c, y.first, y.first + 2)
              /\ y.task = "body" => x.task \in ConditionTasks /\ AtCondition(c, y.first)
  BY <1>16, <1>18
<1> HIDE DEF f
<1>u. w # <<>> /\ WellFormed(y) /\ w' = <<x, y>> \o Tail(w)
  BY <1>1, <1>2, <1>3
<1>19. IrgenInv(c, w', sure)
  BY <1>5, <1>13, <1>14, <1>17, <1>s, <1>f, <1>u, ActsTwo
<1> QED BY <1>2, <1>19

LEMMA EndWhileKeeps ==
  ASSUME NEW sure, IrgenInv(builder, work, sure), GenEndWhile
  PROVE  IrgenInv(builder', work', sure)
<1> DEFINE b == builder
           w == work
           P == AllPending(w)
           f == w[1].first
           tail == f + 2
           d == EmitJumpIfOpen(b, f)
           e == Enter(d, tail)
           shortF == Front(e.condStack)
           shortT == Front(e.tailStack)
           c == WithStacks(e, shortF, shortT)
<1>k. "endwhile" \in StatementTasks /\ "endwhile" \in LoopTasks
  BY DEF StatementTasks, LoopTasks
<1>1. /\ w # <<>> /\ Top = w[1] /\ w[1].task = "endwhile" /\ Pending(w[1]) \subseteq P
      /\ f \in Nat /\ w[1].task \notin ConditionTasks /\ IsLoop(w[1])
  BY <1>k, TopFacts, RestTop DEF GenEndWhile
<1>2. builder' = c /\ w' = <<>> \o Tail(w)
  BY <1>1 DEF GenEndWhile, Replace, Build, PopLoop, WithStacks
<1>3. Pending(w[1]) = {tail}
  BY <1>1, PendingFacts
<1>4. Good(b, P, sure) /\ Stacks(b, Loops(w))
  BY DEF IrgenInv
<1>5. f \in Loops(w) /\ \A g \in Loops(w) : g <= f
  BY <1>1, LoopFacts
<1>6. ASSUME sure PROVE f \in Listed(b) /\ Leads(b, f, tail)
  BY <1>1, <1>5, <1>6, OpenLoop
<1> HIDE DEF P, d, e, c, shortF, shortT, f, tail
<1>7. tail \in P
  BY <1>1, <1>3
<1>8. Good(d, P, sure) /\ Carries(b, d)
  BY <1>4, <1>6, <1>7, CloseBlock DEF d
<1> DEFINE Q == P \ {tail}
<1>9. Good(e, Q, sure) /\ Carries(d, e)
  BY <1>7, <1>8, EnterPending DEF e
<1> HIDE DEF Q
<1>10. /\ Good(c, Q, sure) /\ Onwards(e, c)
       /\ c.condStack = shortF /\ c.tailStack = shortT
  BY <1>9, SetStacks DEF c
<1>11. Carries(b, e)
  BY <1>8, <1>9, CarriesOn
<1>12. Stacks(c, Loops(w) \ {f})
  <2>1. c.condStack = Front(b.condStack) /\ c.tailStack = Front(b.tailStack)
    BY <1>10, <1>11 DEF Carries, shortF, shortT
  <2> QED BY <1>4, <1>5, <2>1, PopInnermost
<1>13. LoopsAfter(w, <<>>) = Loops(w) \ {f}
  BY <1>1, NoTask DEF LoopsAfter, f
<1>14. Onwards(b, c) /\ KeepsConditions(b, w, c, <<>>)
  BY <1>1, <1>10, <1>11 DEF Carries, Onwards, KeepsConditions
<1>15. Good(c, AllPending(w) \ Pending(w[1]), sure)
  BY <1>3, <1>10 DEF P, Q
<1>16. IrgenInv(c, w', sure)
  BY <1>1, <1>2, <1>12, <1>13, <1>14, <1>15, ActsNothing
<1> QED BY <1>2, <1>16


-----------------------------------------------------------------------------
(* Conditions with blocks. *)

Storing(b, P, sure, block, tail, e) ==
  /\ Good(e, P \ {block}, sure) /\ Carries(b, e)
  /\ \A first : Leads(b, first, block) => Leads(e, first, tail)

LEMMA ResultStored ==
  ASSUME NEW b, NEW P, NEW sure, Good(b, P, sure), NEW block \in P, NEW tail \in P, block # tail,
         NEW v, NEW cell, NEW e, e = StoreResult(b, block, v, cell, tail)
  PROVE  Storing(b, P, sure, block, tail, e)
<1> DEFINE Q == P \ {block}
           entered == Enter(b, block)
           id == entered.nextInst
           inst == Store(id, Const(v), cell)
           stored == Emit(entered, inst)
<1>1. e = EmitJump(stored, tail) /\ Quiet(inst, id) /\ tail \in Q
  BY QuietFacts DEF StoreResult
<1> HIDE DEF entered, id, inst, stored, Q
<1>2. /\ Good(entered, Q, sure) /\ Carries(b, entered)
      /\ \A first : Leads(b, first, block) => AtCondition(entered, first)
  BY EnterPending DEF entered, Q
<1>3. id \in Nat /\ entered.nextInst <= id
  BY <1>2 DEF id, Good, Sound
<1>4. /\ Good(stored, Q, sure) /\ Carries(entered, stored)
      /\ \A first : AtCondition(entered, first) => AtCondition(stored, first)
  BY <1>1, <1>2, <1>3, EmitQuiet DEF stored
<1>5. /\ Good(e, Q, sure) /\ Carries(stored, e)
      /\ \A first : AtCondition(stored, first) => Leads(e, first, tail)
  BY <1>1, <1>4, LeadsToItself, JumpTo
<1>6. Carries(b, e)
  BY <1>2, <1>4, <1>5, CarriesOn
<1>7. \A first : Leads(b, first, block) => Leads(e, first, tail)
  BY <1>2, <1>4, <1>5
<1> QED BY <1>5, <1>6, <1>7 DEF Q, Storing

LEMMA LogicalTop ==
  ASSUME NEW sure, IrgenInv(builder, work, sure), NEW task \in LogicalTasks, Is(task)
  PROVE  /\ work[1].of.first \in Nat /\ ~IsLoop(work[1]) /\ work[1].task \in ConditionTasks
         /\ \A other : [work[1] EXCEPT !.task = other] = [task |-> other, of |-> work[1].of]
<1>1. WellFormed(work[1]) /\ work[1].task = task
  BY TopFacts
<1>2. work[1] = [task |-> task, of |-> work[1].of] /\ work[1].of.first \in Nat
  BY <1>1 DEF WellFormed
<1>3. \A other : [work[1] EXCEPT !.task = other] = [task |-> other, of |-> work[1].of]
  BY <1>2
<1>4. work[1].task \in ConditionTasks /\ ~IsLoop(work[1])
  BY <1>1 DEF IsLoop, LoopTasks, ConditionTasks, LogicalTasks
<1> QED BY <1>2, <1>3, <1>4

LEMMA LogicalFacts ==
  ASSUME NEW task \in LogicalTasks, NEW of, of.first \in Nat, NEW y, y = [task |-> task, of |-> of]
  PROVE  /\ WellFormed(y) /\ ~IsLoop(y) /\ y.task \in ConditionTasks
         /\ task = "left" => Pending(y) = of.first .. of.first + 3
         /\ task = "right" => Pending(y) = of.first + 1 .. of.first + 3
<1>1. y.task = task /\ y.of = of
  OBVIOUS
<1>2. WellFormed(y) /\ ~IsLoop(y) /\ y.task \in ConditionTasks
  BY <1>1 DEF WellFormed, IsLoop, StatementTasks, LoopTasks, ConditionTasks, LogicalTasks
<1> QED BY <1>1, <1>2, PendingFacts

LEMMA ShortCircuitKeeps ==
  ASSUME NEW sure, IrgenInv(builder, work, sure), GenShortCircuit
  PROVE  IrgenInv(builder', work', sure)
<1> DEFINE b == builder
           w == work
           P == AllPending(w)
           a == TakeIds(b, 1)
           n == 4
           c == FetchBlocks(a, n)
           of == [e |-> w[1].e, first |-> b.nextBlock, cell |-> b.nextInst]
           x == Condition(w[1].e.l)
           y == [task |-> "left", of |-> of]
<1>1. w # <<>> /\ Plain(w[1]) /\ w[1].task = "condition" /\ Top = w[1] /\ Good(b, P, sure)
  BY TopFacts, KindFacts DEF GenShortCircuit, IrgenInv
<1>2. builder' = c /\ w' = <<x, y>> \o Tail(w)
  BY <1>1 DEF GenShortCircuit, Replace, Build
<1>3. Plain(x) /\ x.task \in ConditionTasks
  BY NewTasks
<1>4. n \in Nat /\ of.first = b.nextBlock
  OBVIOUS
<1>5. Pending(w[1]) = {} /\ ~IsLoop(w[1])
  BY <1>1, PlainFacts
<1> HIDE DEF P, n, c, of, x
<1>6. SameBlocks(b, a) /\ a.condStack = b.condStack /\ a.tailStack = b.tailStack
  <2>1. IsBuilder(b) /\ b.nextInst \in Nat
    BY <1>1 DEF Good, Sound
  <2> QED BY <2>1 DEF IsBuilder, SameBlocks, TakeIds
<1> HIDE DEF a
<1>7. Good(a, P, sure) /\ Carries(b, a)
  BY <1>1, <1>6, GoodSame DEF Carries, SameBlocks
<1>8. AtKept(b, a)
  <2>1. a.cur = b.cur /\ a.list = b.list /\ a.code = b.code
    BY <1>6 DEF SameBlocks
  <2> QED BY <1>7, <2>1, StillLeads DEF AtKept, AtCondition, Listed, Closed, Carries
<1>9. /\ Good(c, P \cup NewBlocks(a, n), sure) /\ Carries(a, c) /\ AtKept(a, c)
      /\ NewBlocks(a, n) \cap P = {} /\ a.nextBlock \in Nat
  BY <1>4, <1>7, FetchNew DEF c
<1>10. Carries(b, c) /\ AtKept(b, c)
  BY <1>7, <1>8, <1>9, CarriesOn DEF AtKept
<1>11. a.nextBlock = of.first
  BY <1>4, <1>6 DEF SameBlocks
<1>12. WellFormed(y) /\ ~IsLoop(y) /\ y.task \in ConditionTasks /\ Pending(y) = NewBlocks(a, n)
  <2>1. /\ WellFormed(y) /\ ~IsLoop(y) /\ y.task \in ConditionTasks
        /\ Pending(y) = of.first .. of.first + 3
    BY <1>9, <1>11, LogicalFacts DEF LogicalTasks
  <2>2. a.nextBlock + n - 1 = a.nextBlock + 3
    BY <1>9 DEF n
  <2> QED BY <1>11, <2>1, <2>2 DEF NewBlocks
<1> HIDE DEF y
<1>13. Good(c, (AllPending(w) \ Pending(w[1])) \cup Pending(y), sure)
       /\ Pending(y) \subseteq Pending(w[1]) \cup NewBlocks(a, n)
       /\ NewBlocks(a, n) \cap AllPending(w) = {} /\ {x.task, y.task} \subseteq ConditionTasks
  BY <1>3, <1>5, <1>9, <1>12 DEF P
<1>14. IrgenInv(c, w', sure)
  BY <1>1, <1>2, <1>3, <1>5, <1>10, <1>12, <1>13, RestGoesOn
<1> QED BY <1>2, <1>14

LEMMA LeftKeeps ==
  ASSUME NEW sure, IrgenInv(builder, work, sure), GenLeft
  PROVE  IrgenInv(builder', work', sure)
<1> DEFINE b == builder
           w == work
           P == AllPending(w)
           of == w[1].of
           f == of.first
           to == LeftTargets(of.e, f)
           yes == to[1]
           no == to[2]
           e == Emit(b, Branch(b.nextInst, operand, yes, no))
           c == Enter(e, f)
           x == Condition(of.e.r)
           y == [task |-> "right", of |-> of]
<1>1. /\ w # <<>> /\ Top = w[1] /\ w[1].task = "left" /\ Pending(w[1]) \subseteq P
      /\ f \in Nat /\ ~IsLoop(w[1]) /\ [w[1] EXCEPT !.task = "right"] = y /\ Good(b, P, sure)
  BY TopFacts, LogicalTop DEF GenLeft, LogicalTasks, IrgenInv
<1>2. builder' = c /\ w' = <<x, y>> \o Tail(w)
  BY <1>1 DEF GenLeft, Replace, Build
<1>3. Plain(x) /\ x.task \in ConditionTasks
  BY NewTasks
<1>4. WellFormed(y) /\ ~IsLoop(y) /\ y.task \in ConditionTasks /\ Pending(y) = f + 1 .. f + 3
  BY <1>1, LogicalFacts DEF LogicalTasks
<1>5. Pending(w[1]) = f .. f + 3
  BY <1>1, PendingFacts
<1>6. yes \in f .. f + 3 /\ no \in f .. f + 3 /\ f \in {yes, no}
  BY <1>1 DEF LeftTargets
<1> HIDE DEF P, c, e, x, y, f, to
<1>7. yes \in P /\ no \in P /\ f \in P
  BY <1>1, <1>5, <1>6
<1>8. /\ Good(e, P, sure) /\ Carries(b, e)
      /\ \A first : AtCondition(b, first) => Leads(e, first, yes) /\ Leads(e, first, no)
  BY <1>1, <1>7, BranchTo DEF e
<1>9. /\ Good(c, P \ {f}, sure) /\ Carries(e, c)
      /\ \A first : Leads(e, first, f) => AtCondition(c, first)
  BY <1>7, <1>8, EnterPending DEF c
<1>10. Carries(b, c)
  BY <1>8, <1>9, CarriesOn
<1>11. AtKept(b, c)
  BY <1>6, <1>8, <1>9 DEF AtKept
<1> DEFINE none == {}
<1>12. (AllPending(w) \ Pending(w[1])) \cup Pending(y) = P \ {f}
       /\ Pending(y) \subseteq Pending(w[1]) \cup none
       /\ none \cap AllPending(w) = {} /\ {x.task, y.task} \subseteq ConditionTasks
  BY <1>1, <1>3, <1>4, <1>5 DEF P
<1> HIDE DEF none
<1>13. Good(c, (AllPending(w) \ Pending(w[1])) \cup Pending(y), sure)
  BY <1>9, <1>12
<1>14. IrgenInv(c, w', sure)
  BY <1>1, <1>2, <1>3, <1>4, <1>10, <1>11, <1>12, <1>13, RestGoesOn
<1> QED BY <1>2, <1>14


LEMMA RightKeeps ==
  ASSUME NEW sure, IrgenInv(builder, work, sure), GenRight
  PROVE  IrgenInv(builder', work', sure)
<1> DEFINE b == builder
           w == work
           P == AllPending(w)
           f == w[1].of.first
           cell == w[1].of.cell
           true == f + 1
           false == f + 2
           end == f + 3
           branched == Emit(b, Branch(b.nextInst, operand, true, false))
           first == StoreResult(branched, true, TRUE, cell, end)
           second == StoreResult(first, false, FALSE, cell, end)
           tail == Enter(second, end)
           id == tail.nextInst
           inst == Load(id, cell)
           c == Emit(tail, inst)
<1>1. /\ w # <<>> /\ Top = w[1] /\ w[1].task = "right" /\ Pending(w[1]) \subseteq P
      /\ f \in Nat /\ ~IsLoop(w[1]) /\ Good(b, P, sure)
  BY TopFacts, LogicalTop DEF GenRight, LogicalTasks, IrgenInv
<1>2. builder' = c /\ w' = <<>> \o Tail(w)
  BY <1>1 DEF GenRight, Replace, Build
<1>3. Pending(w[1]) = {true, false, end} /\ true # false /\ true # end /\ false # end
  <2>1. Pending(w[1]) = f + 1 .. f + 3
    BY <1>1, PendingFacts
  <2> HIDE DEF f
  <2>2. f + 1 .. f + 3 = {f + 1, f + 2, f + 3}
    BY <1>1
  <2>3. true # false /\ true # end /\ false # end
    BY <1>1
  <2> QED BY <2>1, <2>2, <2>3
<1>4. Quiet(inst, id)
  BY QuietFacts
<1> HIDE DEF P, f, cell, true, false, end, branched, first, second, tail, id, inst, c
<1> DEFINE P1 == P \ {true}
           P2 == P1 \ {false}
           P3 == P2 \ {end}
<1>5. true \in P /\ false \in P /\ end \in P /\ false \in P1 /\ end \in P1 /\ end \in P2
      /\ P3 = P \ Pending(w[1])
  BY <1>1, <1>3
<1> HIDE DEF P1, P2, P3
<1>6. /\ Good(branched, P, sure) /\ Carries(b, branched)
      /\ \A g : AtCondition(b, g) => Leads(branched, g, true)
  BY <1>1, <1>5, BranchTo DEF branched
<1>7. /\ Good(first, P1, sure) /\ Carries(branched, first)
      /\ \A g : Leads(branched, g, true) => Leads(first, g, end)
  <2>1. Storing(branched, P, sure, true, end, first)
    BY <1>3, <1>5, <1>6, ResultStored DEF first
  <2> QED BY <2>1 DEF Storing, P1
<1>8. Good(second, P2, sure) /\ Carries(first, second)
  <2>1. Storing(first, P1, sure, false, end, second)
    BY <1>3, <1>5, <1>7, ResultStored DEF second
  <2> QED BY <2>1 DEF Storing, P2
<1>9. \A g : Leads(first, g, end) => Leads(second, g, end)
  BY <1>8, StillLeads DEF Carries
<1>10. /\ Good(tail, P3, sure) /\ Carries(second, tail)
       /\ \A g : Leads(second, g, end) => AtCondition(tail, g)
  BY <1>5, <1>8, EnterPending DEF tail, P3
<1>11. id \in Nat /\ tail.nextInst <= id
  BY <1>10 DEF id, Good, Sound
<1>12. /\ Good(c, P3, sure) /\ Carries(tail, c)
       /\ \A g : AtCondition(tail, g) => AtCondition(c, g)
  BY <1>4, <1>10, <1>11, EmitQuiet DEF c
<1>13. Carries(b, c)
  BY <1>6, <1>7, <1>8, <1>10, <1>12, CarriesOn
<1>14. AtKept(b, c)
  BY <1>6, <1>7, <1>9, <1>10, <1>12 DEF AtKept
<1>15. Good(c, AllPending(w) \ Pending(w[1]), sure)
  BY <1>5, <1>12 DEF P
<1>16. IrgenInv(c, w', sure)
  BY <1>1, <1>2, <1>13, <1>14, <1>15, RestDone
<1> QED BY <1>2, <1>16

(* Every action of irgen keeps the invariant. *)
LEMMA IrgenKeeps ==
  ASSUME NEW sure, IrgenInv(builder, work, sure), sure => BreaksInLoops,
         GenStatement \/ GenCondition
  PROVE  IrgenInv(builder', work', sure)
<1>1. ControlStep \/ AppendStep \/ IfStep \/ GenWhile \/ GenBody \/ GenEndWhile
      \/ GenShortCircuit \/ GenLeft \/ GenRight
  BY DEF GenStatement, GenCondition, ControlStep, AppendStep, IfStep
<1> QED BY <1>1, ControlKeeps, AppendKeeps, IfKeeps, WhileKeeps, BodyKeeps, EndWhileKeeps,
           ShortCircuitKeeps, LeftKeeps, RightKeeps

(* The builder of a new function. *)
LEMMA InitIrgen ==
  ASSUME Init, NEW sure
  PROVE  IrgenInv(builder, work, sure)
<1> DEFINE inst == FirstInstruction + 2 * program.params
           ret == IF program.void THEN <<Ret(inst, Const(TRUE))>>
                  ELSE <<Load(inst + 1, inst), Ret(inst + 2, Local(inst + 1))>>
           entry == FirstBlock
           return == FirstBlock + 1
           b == builder
           first == Statements(program.body, FALSE, FALSE)
<1>1. inst \in Nat /\ entry \in Nat /\ return \in Nat /\ entry # return
  <2>1. program.params \in Nat
    BY ProgramsAssumption DEF Init
  <2> QED BY <2>1, IdsAssumption
<1>2. /\ b.code = [k \in {entry, return} |-> IF k = entry THEN <<>> ELSE ret]
      /\ b.uses = [k \in {entry, return} |-> {}]
      /\ b.list = <<entry, return>> /\ b.cur = entry /\ b.returnBlock = return
      /\ b.condStack = <<>> /\ b.tailStack = <<>>
      /\ b.nextBlock = return + 1 /\ b.nextInst = Last(ret).id + 1 /\ IsBuilder(b)
  BY DEF Init, NewFunction, IsBuilder
<1>3. /\ ret # <<>> /\ IsTerminator(Last(ret)) /\ Targets(Last(ret)) = {} /\ EndsOnce(ret)
      /\ Last(ret).id \in Nat
      /\ \A i \in DOMAIN ret : ret[i].id \in Nat /\ ret[i].id <= Last(ret).id /\ Targets(ret[i]) = {}
  <2>1. ASSUME NEW i, NEW x PROVE /\ IsTerminator(Ret(i, x)) /\ Targets(Ret(i, x)) = {} /\ Ret(i, x).id = i
                                  /\ ~IsTerminator(Load(i, x)) /\ Targets(Load(i, x)) = {} /\ Load(i, x).id = i
    BY DEF IsTerminator, Targets, Ret, Load
  <2>2. CASE program.void
    <3> DEFINE r == Ret(inst, Const(TRUE))
    <3>1. IsTerminator(r) /\ Targets(r) = {} /\ r.id = inst /\ ret = <<r>>
      BY <2>1, <2>2
    <3> HIDE DEF r, ret
    <3>2. ret \in Seq({r}) /\ Len(ret) = 1 /\ ret[1] = r /\ DOMAIN ret = {1} /\ ret # <<>>
      BY <3>1
    <3>3. Last(ret) = r
      BY <3>2 DEF Last
    <3>4. EndsOnce(ret)
      BY <3>2 DEF EndsOnce, IsSeq
    <3> QED BY <1>1, <3>1, <3>2, <3>3, <3>4
  <2>3. CASE ~program.void
    <3> DEFINE l == Load(inst + 1, inst)
               r == Ret(inst + 2, Local(inst + 1))
    <3>1. /\ IsTerminator(r) /\ Targets(r) = {} /\ r.id = inst + 2 /\ ret = <<l, r>>
          /\ ~IsTerminator(l) /\ Targets(l) = {} /\ l.id = inst + 1
      BY <2>1, <2>3
    <3> HIDE DEF l, r, ret
    <3>2. ret \in Seq({l, r}) /\ Len(ret) = 2 /\ ret[1] = l /\ ret[2] = r /\ DOMAIN ret = {1, 2}
          /\ ret # <<>>
      BY <3>1
    <3>3. Last(ret) = r
      BY <3>2 DEF Last
    <3>4. EndsOnce(ret)
      BY <3>1, <3>2 DEF EndsOnce, IsSeq
    <3>5. inst + 1 \in Nat /\ inst + 2 \in Nat /\ inst + 1 <= inst + 2 /\ inst + 2 <= inst + 2
      BY <1>1
    <3> HIDE DEF inst
    <3>6. \A i \in DOMAIN ret : ret[i] = l \/ ret[i] = r
      BY <3>2
    <3> QED BY <3>1, <3>2, <3>3, <3>4, <3>5, <3>6
  <2> QED BY <2>2, <2>3
<1> HIDE DEF inst, ret
<1>4. b.code[entry] = <<>> /\ b.code[return] = ret /\ DOMAIN b.code = {entry, return}
      /\ DOMAIN b.uses = {entry, return}
  BY <1>1, <1>2
<1>5. b.list \in Seq(Nat) /\ Len(b.list) = 2 /\ DOMAIN b.list = {1, 2} /\ b.list[1] = entry
      /\ b.list[2] = return
  BY <1>1, <1>2
<1>6. Listed(b) = {entry, return}
  BY <1>5 DEF Listed, ToSet
<1>7. Closed(b, return) /\ Exit(b, return) = Last(ret) /\ ~Closed(b, entry)
  BY <1>3, <1>4 DEF Closed, Exit
<1>8. Sound(b)
  <2>1. Numbered(b) /\ b.nextInst \in Nat
    BY <1>1, <1>2, <1>3 DEF Numbered
  <2>2. EndsOnce(<<>>)
    BY NothingIsSeq DEF EndsOnce
  <2>3. entry < b.nextBlock /\ return < b.nextBlock
    BY <1>1, <1>2
  <2>4. \A k \in DOMAIN b.code : k \in Nat /\ k < b.nextBlock /\ EndsOnce(b.code[k])
    BY <1>1, <1>3, <1>4, <2>2, <2>3
  <2> HIDE DEF entry, return
  <2>5. Listed(b) \cup {b.cur} \subseteq DOMAIN b.code /\ DOMAIN b.uses = DOMAIN b.code
    BY <1>2, <1>4, <1>6
  <2>6. b.list \in Seq(Nat) /\ Len(b.list) >= 2 /\ b.list[Len(b.list)] = b.returnBlock
    BY <1>2, <1>5
  <2> QED BY <1>2, <1>7, <2>1, <2>4, <2>5, <2>6 DEF Sound
<1> HIDE DEF entry, return
<1>9. Placed(b, {})
  <2>1. IsInjective(b.list)
    BY <1>1, <1>5 DEF IsInjective
  <2>2. b.cur = b.list[Len(b.list) - 1]
    <3>1. Len(b.list) - 1 = 1
      BY <1>5
    <3> QED BY <1>2, <1>5, <3>1
  <2>3. \A p \in DOMAIN b.list : Closed(b, b.list[p]) \/ b.list[p] = b.cur
    BY <1>2, <1>5, <1>7
  <2> QED BY <2>1, <2>2, <2>3 DEF Placed
<1>10. Whole(b, {})
  <2>1. GoesOn(b, {})
    BY <1>3, <1>6, <1>7 DEF GoesOn
  <2>2. UsesKnown(b)
    <3>1. \A k \in DOMAIN b.code : \A i \in DOMAIN b.code[k] : k = return /\ i \in DOMAIN ret
                                                               /\ b.code[k][i] = ret[i]
      BY <1>4
    <3>2. \A i \in DOMAIN ret : ret[i].id \in Nat /\ ret[i].id < b.nextInst /\ Targets(ret[i]) = {}
      BY <1>2, <1>3
    <3> QED BY <3>1, <3>2 DEF UsesKnown
  <2>3. NoTrap(b, {})
    BY <1>2, <1>6, <1>7 DEF NoTrap, Ends
  <2> QED BY <2>1, <2>2, <2>3 DEF Whole
<1>11. work = <<first>> /\ Plain(first)
  BY NewTasks DEF Init
<1> HIDE DEF first
<1>12. TakesOver(work, work, {}) /\ AllPending(work) = {} /\ Loops(work) = {}
  BY <1>11, OneTask
<1>13. Stacks(b, {})
  BY <1>2 DEF Stacks, ToSet
<1>14. IsSeq(work) /\ Apart(work) /\ \A i \in DOMAIN work : WellFormed(work[i])
  BY <1>12 DEF TakesOver
<1>15. \A i \in DOMAIN work : ~IsLoop(work[i])
  BY <1>12 DEF Loops
<1>16. Ordered(work) /\ LoopsLeft(b, work)
  BY <1>15 DEF Ordered, LoopsLeft, IsLoop, LoopTasks
<1> QED BY <1>8, <1>9, <1>10, <1>12, <1>13, <1>14, <1>16 DEF IrgenInv, Good


-----------------------------------------------------------------------------
(* The passes over a finished function: both go over the list of blocks.   *)

EndBlock(b, k, d) == EmitJumpIfOpen(SetCurr(d, b.list[k]), b.list[k + 1])
KeepBlock(b, k, d) == IF HasUse(d, b.list[k]) THEN d ELSE RemoveBlock(d, b.list[k])
PassStep(ends, b, k, d) == IF ends THEN EndBlock(b, k, d) ELSE KeepBlock(b, k, d)

IsPass(f, ends, b, first, last) ==
  f = [k \in first .. last |-> IF k = first THEN b ELSE PassStep(ends, b, k, f[k - 1])]

LEMMA PassExists ==
  ASSUME NEW ends, NEW b, NEW first \in Nat, NEW n \in Nat
  PROVE  \E f : IsPass(f, ends, b, first, first + n)
<1> DEFINE Good1 == {k \in Nat : \E f : IsPass(f, ends, b, first, first + k)}
<1>1. 0 \in Good1
  <2>1. first + 0 = first
    OBVIOUS
  <2>2. IsPass([k \in first .. first |-> b], ends, b, first, first)
    BY DEF IsPass
  <2> QED BY <2>1, <2>2
<1>2. ASSUME NEW k \in Good1 PROVE k + 1 \in Good1
  <2>1. PICK f : IsPass(f, ends, b, first, first + k)
    OBVIOUS
  <2> DEFINE m == first + k
             g == [j \in first .. m + 1 |-> IF j = m + 1 THEN PassStep(ends, b, m + 1, f[m]) ELSE f[j]]
  <2>2. \A j \in first .. m : f[j] = IF j = first THEN b ELSE PassStep(ends, b, j, f[j - 1])
    BY <2>1 DEF IsPass
  <2>m. m \in Nat /\ first <= m
    OBVIOUS
  <2> HIDE DEF m
  <2>3. ASSUME NEW j \in first .. m + 1
        PROVE  g[j] = IF j = first THEN b ELSE PassStep(ends, b, j, g[j - 1])
    <3>1. CASE j = m + 1
      <4>1. m \in first .. m + 1 /\ m # m + 1 /\ g[m] = f[m] /\ j # first /\ j - 1 = m
        BY <2>m, <3>1
      <4>2. g[j] = PassStep(ends, b, m + 1, f[m])
        BY <3>1
      <4> HIDE DEF g
      <4> QED BY <3>1, <4>1, <4>2
    <3>2. CASE j # m + 1
      <4>1. j \in first .. m /\ g[j] = f[j] /\ (j # first => j - 1 \in first .. m + 1 /\ j - 1 # m + 1)
        BY <2>m, <3>2
      <4>2. j # first => g[j - 1] = f[j - 1]
        BY <4>1
      <4> HIDE DEF g
      <4> QED BY <2>2, <4>1, <4>2
    <3> QED BY <3>1, <3>2
  <2>4. g = [j \in first .. m + 1 |-> g[j]]
    OBVIOUS
  <2>5. IsPass(g, ends, b, first, m + 1)
    <3> HIDE DEF g
    <3> QED BY <2>3, <2>4 DEF IsPass
  <2> HIDE DEF g
  <2>6. m + 1 = first + (k + 1) /\ k + 1 \in Nat
    BY DEF m
  <2> QED BY <2>5, <2>6
<1>3. Good1 \in SUBSET Nat
  OBVIOUS
<1> HIDE DEF Good1
<1>4. Good1 = Nat
  BY <1>1, <1>2, <1>3, NatInductionSet
<1> QED BY <1>4 DEF Good1

(* The builders between the blocks of a pass. *)
Passes(f, ends, b, first, last) ==
  f[first] = b /\ \A k \in first + 1 .. last : f[k] = PassStep(ends, b, k, f[k - 1])

LEMMA TerminatedPass ==
  ASSUME NEW b, Len(b.list) \in Nat \ {0}
  PROVE  \E f : Passes(f, TRUE, b, 0, Len(b.list) - 1) /\ Terminated(b) = f[Len(b.list) - 1]
<1> DEFINE n == Len(b.list)
           f == CHOOSE h : IsPass(h, TRUE, b, 0, n - 1)
<1>1. \E h : IsPass(h, TRUE, b, 0, n - 1)
  <2>1. n - 1 \in Nat /\ 0 + (n - 1) = n - 1
    OBVIOUS
  <2> HIDE DEF n
  <2>2. \E h : IsPass(h, TRUE, b, 0, 0 + (n - 1))
    BY <2>1, PassExists
  <2> QED BY <2>1, <2>2
<1>2. IsPass(f, TRUE, b, 0, n - 1)
  BY <1>1
<1>3. Terminated(b) = f[n - 1]
  BY DEF Terminated, IsPass, PassStep, EndBlock
<1> HIDE DEF f
<1>4. Passes(f, TRUE, b, 0, n - 1)
  <2>1. \A k \in 0 .. n - 1 : f[k] = IF k = 0 THEN b ELSE PassStep(TRUE, b, k, f[k - 1])
    BY <1>2 DEF IsPass
  <2>2. 0 \in 0 .. n - 1 /\ \A k \in 0 + 1 .. n - 1 : k \in 0 .. n - 1 /\ k # 0
    OBVIOUS
  <2> HIDE DEF n
  <2> QED BY <2>1, <2>2 DEF Passes
<1> QED BY <1>3, <1>4

LEMMA CleanedPass ==
  ASSUME NEW b, Len(b.list) \in Nat \ {0}
  PROVE  \E f : Passes(f, FALSE, b, 1, Len(b.list)) /\ Cleaned(b) = f[Len(b.list)]
<1> DEFINE n == Len(b.list)
           f == CHOOSE h : IsPass(h, FALSE, b, 1, n)
<1>1. \E h : IsPass(h, FALSE, b, 1, n)
  <2>1. n - 1 \in Nat /\ 1 + (n - 1) = n
    OBVIOUS
  <2> HIDE DEF n
  <2>2. \E h : IsPass(h, FALSE, b, 1, 1 + (n - 1))
    BY <2>1, PassExists
  <2> QED BY <2>1, <2>2
<1>2. IsPass(f, FALSE, b, 1, n)
  BY <1>1
<1>3. Cleaned(b) = f[n]
  BY DEF Cleaned, IsPass, PassStep, KeepBlock
<1> HIDE DEF f
<1>4. Passes(f, FALSE, b, 1, n)
  <2>1. \A k \in 1 .. n : f[k] = IF k = 1 THEN b ELSE PassStep(FALSE, b, k, f[k - 1])
    BY <1>2 DEF IsPass
  <2>2. 1 \in 1 .. n /\ \A k \in 1 + 1 .. n : k \in 1 .. n /\ k # 1
    OBVIOUS
  <2> HIDE DEF n
  <2> QED BY <2>1, <2>2 DEF Passes
<1> QED BY <1>3, <1>4

(* add_terminator: d is what becomes of b after the first k blocks. *)
Ending(b, k, d, sure) ==
  /\ Sound(d) /\ d.list = b.list /\ d.returnBlock = b.returnBlock
  /\ d.condStack = b.condStack /\ d.tailStack = b.tailStack
  /\ \A j \in 1 .. k : Closed(d, b.list[j])
  /\ \A j \in DOMAIN b.list :
       IF Closed(b, b.list[j]) THEN Closed(d, b.list[j]) /\ Exit(d, b.list[j]) = Exit(b, b.list[j])
       ELSE Closed(d, b.list[j]) => /\ j + 1 \in DOMAIN b.list
                                    /\ Targets(Exit(d, b.list[j])) = {b.list[j + 1]}
  /\ sure => UsesKnown(d)

LEMMA SetCurrFacts ==
  ASSUME NEW d, Sound(d), NEW x \in DOMAIN d.code, NEW c, c = SetCurr(d, x)
  PROVE  /\ Sound(c) /\ c.cur = x /\ c.code = d.code /\ c.list = d.list /\ c.returnBlock = d.returnBlock
         /\ c.condStack = d.condStack /\ c.tailStack = d.tailStack
         /\ \A k : (Closed(c, k) <=> Closed(d, k)) /\ Exit(c, k) = Exit(d, k)
         /\ UsesKnown(d) => UsesKnown(c)
<1>1. IsBuilder(d)
  BY DEF Sound
<1>2. /\ IsBuilder(c) /\ c.cur = x /\ c.code = d.code /\ c.uses = d.uses /\ c.list = d.list
      /\ c.returnBlock = d.returnBlock /\ c.condStack = d.condStack /\ c.tailStack = d.tailStack
      /\ c.nextBlock = d.nextBlock /\ c.nextInst = d.nextInst
  BY <1>1 DEF IsBuilder, SetCurr
<1>3. \A k : (Closed(c, k) <=> Closed(d, k)) /\ Exit(c, k) = Exit(d, k)
  BY <1>2 DEF Closed, Exit
<1>4. Listed(c) = Listed(d)
  BY <1>2 DEF Listed
<1>5. Sound(c)
  BY <1>2, <1>3, <1>4 DEF Sound, Numbered
<1>6. UsesKnown(d) => UsesKnown(c)
  BY <1>2 DEF UsesKnown
<1> QED BY <1>2, <1>3, <1>5, <1>6

LEMMA EndBlockKeeps ==
  ASSUME NEW b, NEW sure, IsInjective(b.list), DOMAIN b.list = 1 .. Len(b.list), Len(b.list) \in Nat,
         NEW k \in 1 .. Len(b.list) - 1, NEW d, Ending(b, k - 1, d, sure)
  PROVE  Ending(b, k, EndBlock(b, k, d), sure)
<1> DEFINE x == b.list[k]
           y == b.list[k + 1]
           c == SetCurr(d, x)
           inst == Jump(c.nextInst, y)
           e == Emit(c, inst)
<1>1. k \in DOMAIN b.list /\ k + 1 \in DOMAIN b.list /\ \A j \in 1 .. k : j \in 1 .. k - 1 \/ j = k
  OBVIOUS
<1>2. x \in DOMAIN d.code /\ y \in DOMAIN d.code /\ Sound(d)
  BY <1>1 DEF Ending, Sound, Listed, ToSet
<1>3. Leaving(inst, c.nextInst, {y})
  BY LeavingFacts
<1>o. EndBlock(b, k, d) = IF HasTerminator(c) THEN c ELSE e
  BY DEF EndBlock, EmitJumpIfOpen, EmitJump
<1> HIDE DEF x, y, c, inst, e
<1>4. /\ Sound(c) /\ c.cur = x /\ c.code = d.code /\ c.list = d.list /\ c.returnBlock = d.returnBlock
      /\ c.condStack = d.condStack /\ c.tailStack = d.tailStack
      /\ \A j : (Closed(c, j) <=> Closed(d, j)) /\ Exit(c, j) = Exit(d, j)
      /\ UsesKnown(d) => UsesKnown(c)
  BY <1>2, SetCurrFacts DEF c
<1>5. Ending(b, k - 1, c, sure)
  BY <1>4 DEF Ending
<1>6. CASE HasTerminator(c)
  <2>1. Closed(c, x)
    BY <1>4, <1>6 DEF HasTerminator, Closed
  <2>2. \A j \in 1 .. k : Closed(c, b.list[j])
    BY <1>1, <1>5, <2>1 DEF Ending, x
  <2>3. Ending(b, k, c, sure)
    BY <1>5, <2>2 DEF Ending
  <2> QED BY <1>6, <1>o, <2>3
<1>7. CASE ~HasTerminator(c)
  <2>1. ~Closed(c, x) /\ Home(c) = x
    BY <1>4, <1>7 DEF HasTerminator, Closed, Home
  <2>2. HasId(inst) /\ inst.id = c.nextInst /\ c.nextInst \in Nat /\ IsTerminator(inst)
        /\ Targets(inst) = {y}
    BY <1>3, <1>4 DEF Leaving, HasId, Sound
  <2>3. Emitting(c, inst, e)
    BY <1>4, <2>2, SoundEmit DEF e
  <2>4. /\ Sound(e) /\ e.list = b.list /\ e.returnBlock = b.returnBlock
        /\ e.condStack = b.condStack /\ e.tailStack = b.tailStack
    BY <1>5, <2>3 DEF Emitting, Ending
  <2>5. Closed(e, x) /\ Targets(Exit(e, x)) = {y}
    BY <2>1, <2>2, <2>3 DEF Emitting
  <2>6. \A j \in DOMAIN b.list : b.list[j] # x =>
          (Closed(e, b.list[j]) <=> Closed(c, b.list[j])) /\ Exit(e, b.list[j]) = Exit(c, b.list[j])
    <3> TAKE j \in DOMAIN b.list
    <3> HAVE b.list[j] # x
    <3>1. b.list[j] \in DOMAIN c.code
      BY <1>5 DEF Ending, Sound, Listed, ToSet
    <3>2. e.code[b.list[j]] = c.code[b.list[j]]
      BY <2>1, <2>3, <3>1 DEF Emitting
    <3> QED BY <3>2 DEF Closed, Exit
  <2>7. \A j \in 1 .. k : Closed(e, b.list[j])
    <3> TAKE j \in 1 .. k
    <3>1. j \in DOMAIN b.list
      BY <1>1
    <3>2. CASE b.list[j] = x
      BY <2>5, <3>2
    <3>3. CASE b.list[j] # x
      <4>1. j \in 1 .. k - 1
        BY <1>1, <3>3 DEF x
      <4> QED BY <1>5, <2>6, <3>1, <3>3, <4>1 DEF Ending
    <3> QED BY <3>2, <3>3
  <2>8. ASSUME NEW j \in DOMAIN b.list
        PROVE  IF Closed(b, b.list[j]) THEN Closed(e, b.list[j]) /\ Exit(e, b.list[j]) = Exit(b, b.list[j])
               ELSE Closed(e, b.list[j]) => /\ j + 1 \in DOMAIN b.list
                                            /\ Targets(Exit(e, b.list[j])) = {b.list[j + 1]}
    <3>1. IF Closed(b, b.list[j]) THEN Closed(c, b.list[j]) /\ Exit(c, b.list[j]) = Exit(b, b.list[j])
          ELSE Closed(c, b.list[j]) => /\ j + 1 \in DOMAIN b.list
                                       /\ Targets(Exit(c, b.list[j])) = {b.list[j + 1]}
      BY <1>5 DEF Ending
    <3>2. CASE b.list[j] # x
      BY <2>6, <3>1, <3>2
    <3>3. CASE b.list[j] = x
      <4>1. j = k
        BY <1>1, <3>3 DEF x, IsInjective
      <4>2. ~Closed(b, b.list[j])
        BY <2>1, <3>1, <3>3
      <4> QED BY <1>1, <2>5, <3>3, <4>1, <4>2 DEF y
    <3> QED BY <3>2, <3>3
  <2>9. ASSUME sure PROVE UsesKnown(e)
    <3>1. UsesKnown(c)
      BY <1>5, <2>9 DEF Ending
    <3>2. Targets(inst) \subseteq DOMAIN c.code
      BY <1>2, <1>4, <2>2
    <3>3. inst.id \in Nat /\ c.nextInst <= inst.id
      BY <2>2
    <3> QED BY <1>4, <2>3, <3>1, <3>2, <3>3, UsesEmit
  <2>10. Ending(b, k, e, sure)
    BY <2>4, <2>7, <2>8, <2>9 DEF Ending
  <2> QED BY <1>7, <1>o, <2>10
<1> QED BY <1>6, <1>7


(* The function after add_terminator: from the first block on every way    *)
(* that ends gets to the return block, if it is sure where blocks go.      *)
ReturnReached(b) ==
  \A S : b.list[1] \in S /\ (\A k \in S \cap Listed(b) : Targets(Exit(b, k)) \subseteq S)
           => b.returnBlock \in S

Ended(b, sure) ==
  /\ Sound(b) /\ IsInjective(b.list) /\ b.condStack = <<>> /\ b.tailStack = <<>>
  /\ \A k \in Listed(b) : Closed(b, k)
  /\ sure => /\ UsesKnown(b) /\ ReturnReached(b)
             /\ \A k \in Listed(b) : Targets(Exit(b, k)) \subseteq Listed(b)

LEMMA TerminatedEnds ==
  ASSUME NEW b, NEW sure, Good(b, {}, sure), b.condStack = <<>>, b.tailStack = <<>>
  PROVE  Ended(Terminated(b), sure)
<1> DEFINE n == Len(b.list)
           d == Terminated(b)
<1>1. /\ Sound(b) /\ Placed(b, {}) /\ IsInjective(b.list)
      /\ n \in Nat /\ n >= 2 /\ DOMAIN b.list = 1 .. n /\ b.list[n] = b.returnBlock
      /\ \A j \in 1 .. n : b.list[j] \in Listed(b)
  BY DEF Good, Sound, Placed, Listed, ToSet
<1> HIDE DEF n, d
<1>2. PICK f : Passes(f, TRUE, b, 0, n - 1) /\ d = f[n - 1]
  <2>1. Len(b.list) \in Nat \ {0}
    BY <1>1 DEF n
  <2>2. \E f : Passes(f, TRUE, b, 0, Len(b.list) - 1) /\ Terminated(b) = f[Len(b.list) - 1]
    BY <2>1, TerminatedPass
  <2> QED BY <2>2 DEF n, d
<1>3. f[0] = b /\ \A k \in 0 + 1 .. n - 1 : f[k] = EndBlock(b, k, f[k - 1])
  BY <1>2 DEF Passes, PassStep
<1> DEFINE Ok == {k \in Nat : k <= n - 1 => Ending(b, k, f[k], sure)}
<1>4. 0 \in Ok
  <2>1. sure => UsesKnown(b)
    BY DEF Good, Whole
  <2>2. Ending(b, 0, b, sure)
    BY <1>1, <2>1 DEF Ending
  <2> QED BY <1>3, <2>2
<1>5. ASSUME NEW k \in Ok PROVE k + 1 \in Ok
  <2> SUFFICES ASSUME k + 1 <= n - 1 PROVE Ending(b, k + 1, f[k + 1], sure)
    OBVIOUS
  <2> DEFINE m == k + 1
  <2>1. m \in 1 .. n - 1 /\ m - 1 = k /\ m \in 0 + 1 .. n - 1 /\ k <= n - 1
    BY <1>1
  <2> HIDE DEF m
  <2>2. Ending(b, m - 1, f[m - 1], sure)
    BY <2>1
  <2>3. Ending(b, m, EndBlock(b, m, f[m - 1]), sure)
    BY <1>1, <2>1, <2>2, EndBlockKeeps DEF n
  <2>4. Ending(b, m, f[m], sure)
    BY <1>3, <2>1, <2>3
  <2> QED BY <2>4 DEF m
<1>6. Ok = Nat
  <2>1. Ok \in SUBSET Nat
    OBVIOUS
  <2> HIDE DEF Ok
  <2> QED BY <1>4, <1>5, <2>1, NatInductionSet
<1>7. Ending(b, n - 1, d, sure)
  <2>1. n - 1 \in Nat
    BY <1>1
  <2> QED BY <1>2, <1>6, <2>1
<1>8. /\ Sound(d) /\ d.list = b.list /\ d.returnBlock = b.returnBlock
      /\ d.condStack = <<>> /\ d.tailStack = <<>> /\ Listed(d) = Listed(b)
  BY <1>7 DEF Ending, Listed
<1>9. \A j \in 1 .. n : Closed(d, b.list[j])
  <2> TAKE j \in 1 .. n
  <2>1. j \in 1 .. n - 1 \/ j = n
    BY <1>1
  <2>2. Closed(d, b.list[n])
    BY <1>1, <1>8 DEF Sound
  <2> QED BY <1>7, <2>1, <2>2 DEF Ending
<1>10. \A k \in Listed(d) : \E j \in 1 .. n : k = b.list[j]
  BY <1>1, <1>8 DEF Listed, ToSet
<1>11. \A j \in 1 .. n : IF Closed(b, b.list[j]) THEN Exit(d, b.list[j]) = Exit(b, b.list[j])
                         ELSE j + 1 \in 1 .. n /\ Targets(Exit(d, b.list[j])) = {b.list[j + 1]}
  BY <1>1, <1>7, <1>9 DEF Ending
<1>12. ASSUME sure PROVE \A k \in Listed(d) : Targets(Exit(d, k)) \subseteq Listed(d)
  <2>1. GoesOn(b, {})
    BY <1>12 DEF Good, Whole
  <2> TAKE k \in Listed(d)
  <2>2. PICK j \in 1 .. n : k = b.list[j]
    BY <1>10
  <2>3. CASE Closed(b, k)
    BY <1>8, <1>11, <2>1, <2>2, <2>3 DEF GoesOn
  <2>4. CASE ~Closed(b, k)
    BY <1>1, <1>8, <1>11, <2>2, <2>4
  <2> QED BY <2>3, <2>4
<1>13. ASSUME sure PROVE ReturnReached(d)
  <2> SUFFICES ASSUME NEW S, b.list[1] \in S,
                      \A k \in S \cap Listed(b) : Targets(Exit(d, k)) \subseteq S
               PROVE  b.returnBlock \in S
    BY <1>8 DEF ReturnReached
  <2>1. ASSUME NEW p \in 1 .. n, b.list[p] \in S, ~Closed(b, b.list[p]) PROVE b.list[p + 1] \in S
    BY <1>1, <1>11, <2>1
  <2>2. Onto(b, S)
    <3> SUFFICES ASSUME NEW p \in 1 .. n, b.list[p] \in S
                 PROVE  IF Closed(b, b.list[p]) THEN Targets(Exit(b, b.list[p])) \subseteq S
                        ELSE b.list[p + 1] \in S
      BY <1>1 DEF Onto
    <3>1. CASE Closed(b, b.list[p])
      BY <1>1, <1>11, <3>1
    <3> QED BY <2>1, <3>1
  <2>3. 1 \in 1 .. n /\ NoTrap(b, {})
    BY <1>1, <1>13 DEF Good, Whole
  <2>4. S \cap Ends(b, {}) # {}
    BY <1>1, <2>2, <2>3 DEF NoTrap
  <2>5. CASE b.cur \in S /\ b.cur \in Listed(b) /\ ~Closed(b, b.cur)
    <3>1. n - 1 \in 1 .. n /\ (n - 1) + 1 = n
      BY <1>1
    <3>2. b.cur = b.list[n - 1]
      BY <1>1, <2>5 DEF Placed, n
    <3> QED BY <1>1, <2>1, <2>5, <3>1, <3>2
  <2> QED BY <2>4, <2>5 DEF Ends
<1>14. sure => UsesKnown(d)
  BY <1>7 DEF Ending
<1>15. \A k \in Listed(d) : Closed(d, k)
  BY <1>9, <1>10
<1>16. Ended(d, sure)
  BY <1>1, <1>8, <1>12, <1>13, <1>14, <1>15 DEF Ended
<1> QED BY <1>16 DEF d

-----------------------------------------------------------------------------
(* remove_unused_block. *)

Removed(s, i, r) ==
  /\ r \in Seq(Nat) /\ Len(r) = Len(s) - 1 /\ Len(s) \in Nat
  /\ \A j \in 1 .. i - 1 : r[j] = s[j]
  /\ \A j \in i .. Len(s) - 1 : r[j] = s[j + 1]

LEMMA RemovedAt ==
  ASSUME NEW s \in Seq(Nat), NEW i \in 1 .. Len(s)
  PROVE  Removed(s, i, RemoveAt(s, i))
<1> DEFINE x == SubSeq(s, 1, i - 1)
           y == SubSeq(s, i + 1, Len(s))
           r == RemoveAt(s, i)
           n == Len(s)
<1>1. n \in Nat \ {0} /\ i \in Nat \ {0} /\ i <= n
  OBVIOUS
<1>2. x \in Seq(Nat) /\ Len(x) = i - 1 /\ \A j \in 1 .. i - 1 : x[j] = s[j]
  OBVIOUS
<1>3. y \in Seq(Nat) /\ Len(y) = n - i /\ \A j \in 1 .. n - i : y[j] = s[i + j]
  OBVIOUS
<1>4. r = x \o y
  BY DEF RemoveAt
<1> HIDE DEF x, y, r, n
<1>5. /\ r \in Seq(Nat) /\ Len(r) = Len(x) + Len(y)
      /\ \A j \in 1 .. Len(x) : r[j] = x[j]
      /\ \A j \in Len(x) + 1 .. Len(x) + Len(y) : r[j] = y[j - Len(x)]
  <2>1. Concatenated(Nat, x, y, r)
    BY <1>2, <1>3, <1>4, ConcatFacts
  <2> QED BY <2>1 DEF Concatenated
<1>6. Len(r) = n - 1
  BY <1>1, <1>2, <1>3, <1>5
<1>7. \A j \in 1 .. i - 1 : r[j] = s[j]
  BY <1>2, <1>5
<1>8. ASSUME NEW j \in i .. n - 1 PROVE r[j] = s[j + 1]
  <2>1. j \in Len(x) + 1 .. Len(x) + Len(y) /\ j - Len(x) = j - i + 1
    BY <1>1, <1>2, <1>3
  <2>2. j - i + 1 \in 1 .. n - i /\ i + (j - i + 1) = j + 1
    BY <1>1
  <2> QED BY <1>3, <1>5, <2>1, <2>2
<1>9. Removed(s, i, r)
  BY <1>1, <1>5, <1>6, <1>7, <1>8 DEF Removed, n
<1> QED BY <1>9 DEF r

Place(s, x) == CHOOSE i \in DOMAIN s : s[i] = x

(* What removing an element of an injective sequence, not the first, does. *)
Shorter(s, x, r) ==
  /\ r \in Seq(Nat) /\ IsInjective(r) /\ Len(r) >= 1 /\ r[1] = s[1]
  /\ ToSet(r) = ToSet(s) \ {x}
  /\ \A z \in ToSet(r) : s[Len(s)] = z => r[Len(r)] = z

LEMMA RemovedIsShorter ==
  ASSUME NEW s \in Seq(Nat), IsInjective(s), NEW x \in ToSet(s), s[1] # x
  PROVE  Shorter(s, x, RemoveAt(s, Place(s, x)))
<1> DEFINE i == Place(s, x)
           r == RemoveAt(s, i)
           n == Len(s)
<1>1. i \in DOMAIN s /\ s[i] = x
  BY DEF ToSet, Place
<1>2. n \in Nat /\ DOMAIN s = 1 .. n
  OBVIOUS
<1> HIDE DEF i
<1>3. Removed(s, i, r)
  BY <1>1, <1>2, RemovedAt
<1> HIDE DEF r
<1>4. /\ r \in Seq(Nat) /\ Len(r) = n - 1
      /\ \A j \in 1 .. i - 1 : r[j] = s[j]
      /\ \A j \in i .. n - 1 : r[j] = s[j + 1]
  BY <1>3 DEF Removed
<1> HIDE DEF n
<1>5. i \in 2 .. n /\ n - 1 >= 1 /\ DOMAIN r = 1 .. n - 1
  <2>1. i # 1
    BY <1>1
  <2> QED BY <1>1, <1>2, <1>4, <2>1
<1> DEFINE old(j) == IF j < i THEN j ELSE j + 1
<1>6. \A j \in 1 .. n - 1 : old(j) \in 1 .. n /\ old(j) # i /\ r[j] = s[old(j)]
  BY <1>2, <1>4, <1>5
<1>7. \A j, k \in 1 .. n - 1 : old(j) = old(k) => j = k
  BY <1>2, <1>5
<1>8. \A k \in 1 .. n : k # i => \E j \in 1 .. n - 1 : old(j) = k
  <2> TAKE k \in 1 .. n
  <2> HAVE k # i
  <2>1. CASE k < i
    <3>1. k \in 1 .. n - 1 /\ old(k) = k
      BY <1>2, <1>5, <2>1
    <3> QED BY <3>1
  <2>2. CASE ~(k < i)
    <3>1. k - 1 \in 1 .. n - 1 /\ ~(k - 1 < i) /\ (k - 1) + 1 = k
      BY <1>2, <1>5, <2>2
    <3> QED BY <3>1
  <2> QED BY <2>1, <2>2
<1>9. old(1) = 1 /\ (i # n => old(n - 1) = n)
  BY <1>2, <1>5
<1>10. 1 \in 1 .. n - 1 /\ n - 1 \in 1 .. n - 1 /\ n \in 1 .. n
  BY <1>2, <1>5
<1> HIDE DEF old
<1>11. IsInjective(r)
  BY <1>2, <1>5, <1>6, <1>7 DEF IsInjective
<1>12. ToSet(r) = ToSet(s) \ {x}
  <2>1. ASSUME NEW z \in ToSet(r) PROVE z \in ToSet(s) /\ z # x
    <3>1. PICK j \in 1 .. n - 1 : r[j] = z
      BY <1>5 DEF ToSet
    <3>2. z = s[old(j)] /\ old(j) \in DOMAIN s /\ old(j) # i
      BY <1>2, <1>6, <3>1
    <3> QED BY <1>1, <3>2 DEF ToSet, IsInjective
  <2>2. ASSUME NEW z \in ToSet(s), z # x PROVE z \in ToSet(r)
    <3>1. PICK k \in 1 .. n : s[k] = z
      BY <1>2 DEF ToSet
    <3>2. k # i
      BY <1>1, <2>2, <3>1
    <3>3. PICK j \in 1 .. n - 1 : old(j) = k
      BY <1>8, <3>2
    <3>4. r[j] = z /\ j \in DOMAIN r
      BY <1>5, <1>6, <3>1, <3>3
    <3> QED BY <3>4 DEF ToSet
  <2> QED BY <2>1, <2>2
<1>13. r[1] = s[1] /\ Len(r) >= 1
  BY <1>4, <1>5, <1>6, <1>9, <1>10
<1>14. ASSUME NEW z \in ToSet(r), s[n] = z PROVE r[Len(r)] = z
  <2>1. i # n
    BY <1>1, <1>12, <1>14
  <2> QED BY <1>4, <1>6, <1>9, <1>10, <1>14, <2>1
<1>15. Shorter(s, x, r)
  BY <1>4, <1>11, <1>12, <1>13, <1>14 DEF Shorter, n
<1> QED BY <1>15 DEF r, i

(* No block has a use with its own number. *)
UsesApart(b) == \A k \in DOMAIN b.uses : k \notin b.uses[k]

(* d is what is left of b. *)
Kept(b, d, sure) ==
  /\ IsBuilder(d) /\ d.code = b.code /\ d.cur = b.cur /\ d.returnBlock = b.returnBlock
  /\ d.condStack = b.condStack /\ d.tailStack = b.tailStack
  /\ DOMAIN d.uses = DOMAIN b.code /\ \A t \in DOMAIN d.uses : d.uses[t] \subseteq b.uses[t]
  /\ d.list \in Seq(Nat) /\ IsInjective(d.list) /\ Len(d.list) >= 1 /\ d.list[1] = b.list[1]
  /\ Listed(d) \subseteq Listed(b)
  /\ b.returnBlock \in Listed(d) => d.list[Len(d.list)] = b.returnBlock
  /\ sure => \A p \in Listed(d) :
               /\ Targets(Exit(b, p)) \subseteq Listed(d)
               /\ \A t \in Targets(Exit(b, p)) : Exit(b, p).id \in d.uses[t]

Ids(b, x) == {b.code[x][i].id : i \in DOMAIN b.code[x]}

Removing(d, x, e) ==
  /\ IsBuilder(e) /\ e.code = d.code /\ e.cur = d.cur /\ e.returnBlock = d.returnBlock
  /\ e.condStack = d.condStack /\ e.tailStack = d.tailStack
  /\ e.list = RemoveAt(d.list, Place(d.list, x))
  /\ DOMAIN e.uses = DOMAIN d.uses
  /\ \A t \in DOMAIN d.uses : e.uses[t] = d.uses[t] \ Ids(d, x)

LEMMA RemoveFacts ==
  ASSUME NEW d, IsBuilder(d), NEW x
  PROVE  Removing(d, x, RemoveBlock(d, x))
BY DEF IsBuilder, RemoveBlock, Ids, Removing, Place

(* The instruction that ends a listed block is in the uses of its targets  *)
(* and in no other block.                                                  *)
LEMMA ExitFacts ==
  ASSUME NEW b, Ended(b, TRUE), NEW p \in Listed(b)
  PROVE  /\ p \in DOMAIN b.code /\ Exit(b, p).id \in Ids(b, p)
         /\ \A t \in Targets(Exit(b, p)) : t \in DOMAIN b.code /\ Exit(b, p).id \in b.uses[t]
         /\ \A x \in DOMAIN b.code : x # p => Exit(b, p).id \notin Ids(b, x)
<1>1. p \in DOMAIN b.code /\ IsSeq(b.code[p]) /\ b.code[p] # <<>> /\ UsesKnown(b)
  BY DEF Ended, Sound, EndsOnce, Closed
<1> DEFINE n == Len(b.code[p])
<1>2. n \in DOMAIN b.code[p] /\ Exit(b, p) = b.code[p][n]
  BY <1>1, LastFacts DEF Exit
<1> HIDE DEF n
<1>3. Exit(b, p).id \in Ids(b, p)
  BY <1>2 DEF Ids
<1>4. \A t \in Targets(Exit(b, p)) : t \in DOMAIN b.code /\ Exit(b, p).id \in b.uses[t]
  BY <1>1, <1>2 DEF UsesKnown
<1>5. \A x \in DOMAIN b.code : x # p => Exit(b, p).id \notin Ids(b, x)
  BY <1>1, <1>2 DEF UsesKnown, Ids
<1> QED BY <1>1, <1>3, <1>4, <1>5

LEMMA KeepBlockKeeps ==
  ASSUME NEW b, NEW sure, Ended(b, sure), sure => UsesApart(b),
         NEW k \in 2 .. Len(b.list), NEW d, Kept(b, d, sure),
         \A j \in k .. Len(b.list) : b.list[j] \in Listed(d)
  PROVE  /\ Kept(b, KeepBlock(b, k, d), sure)
         /\ \A j \in k + 1 .. Len(b.list) : b.list[j] \in Listed(KeepBlock(b, k, d))
<1> DEFINE x == b.list[k]
           n == Len(b.list)
           e == RemoveBlock(d, x)
<1>1. n \in Nat /\ DOMAIN b.list = 1 .. n /\ k \in DOMAIN b.list /\ 1 \in DOMAIN b.list /\ k # 1
      /\ k \in k .. n /\ \A j \in k + 1 .. n : j \in k .. n /\ j \in 1 .. n /\ j # k
  BY DEF Ended, Sound
<1>2. KeepBlock(b, k, d) = IF HasUse(d, x) THEN d ELSE e
  BY DEF KeepBlock
<1> HIDE DEF n
<1>3. x \in Listed(d) /\ x \in DOMAIN b.code /\ d.list[1] # x
  <2>1. x \in Listed(d)
    BY <1>1 DEF n
  <2>2. x \in DOMAIN b.code
    BY <2>1 DEF Kept, Ended, Sound
  <2>3. b.list[1] # x
    BY <1>1 DEF Ended, IsInjective
  <2> QED BY <2>1, <2>2, <2>3 DEF Kept
<1> HIDE DEF e
<1>4. CASE HasUse(d, x)
  BY <1>1, <1>2, <1>4 DEF n
<1>5. CASE ~HasUse(d, x)
  <2>1. /\ IsBuilder(e) /\ e.code = d.code /\ e.cur = d.cur /\ e.returnBlock = d.returnBlock
        /\ e.condStack = d.condStack /\ e.tailStack = d.tailStack
        /\ e.list = RemoveAt(d.list, Place(d.list, x))
        /\ DOMAIN e.uses = DOMAIN d.uses
        /\ \A t \in DOMAIN d.uses : e.uses[t] = d.uses[t] \ Ids(d, x)
    <3>1. IsBuilder(d)
      BY DEF Kept
    <3> HIDE DEF x
    <3>2. Removing(d, x, e)
      BY <3>1, RemoveFacts DEF e
    <3> QED BY <3>2 DEF Removing
  <2>2. Shorter(d.list, x, e.list)
    <3>1. d.list \in Seq(Nat) /\ IsInjective(d.list) /\ x \in ToSet(d.list)
      BY <1>3 DEF Kept, Listed
    <3> HIDE DEF x
    <3> QED BY <1>3, <2>1, <3>1, RemovedIsShorter
  <2>3. /\ e.list \in Seq(Nat) /\ IsInjective(e.list) /\ Len(e.list) >= 1 /\ e.list[1] = b.list[1]
        /\ Listed(e) = Listed(d) \ {x}
    BY <2>2 DEF Shorter, Listed, Kept
  <2>4. b.returnBlock \in Listed(e) => e.list[Len(e.list)] = b.returnBlock
    <3>1. b.returnBlock \in Listed(e) => d.list[Len(d.list)] = b.returnBlock
      BY <2>3 DEF Kept
    <3> QED BY <2>2, <3>1 DEF Shorter, Listed
  <2>5. ASSUME sure, NEW p \in Listed(e)
        PROVE  /\ Targets(Exit(b, p)) \subseteq Listed(e)
               /\ \A t \in Targets(Exit(b, p)) : Exit(b, p).id \in e.uses[t]
    <3> DEFINE id == Exit(b, p).id
    <3>1. p \in Listed(d) /\ p # x /\ p \in Listed(b) /\ Ended(b, TRUE)
      BY <2>3, <2>5 DEF Kept, Ended
    <3>2. /\ Targets(Exit(b, p)) \subseteq Listed(d)
          /\ \A t \in Targets(Exit(b, p)) : id \in d.uses[t]
      BY <2>5, <3>1 DEF Kept
    <3>3. id \notin Ids(b, x) /\ \A t \in Targets(Exit(b, p)) : t \in DOMAIN b.code
      BY <1>3, <3>1, ExitFacts
    <3>4. Ids(d, x) = Ids(b, x)
      BY DEF Ids, Kept
    <3> HIDE DEF id
    <3>5. ASSUME x \in Targets(Exit(b, p)) PROVE FALSE
      <4>1. id \in d.uses[x]
        BY <3>2, <3>5
      <4>2. id = x
        BY <1>5, <4>1 DEF HasUse
      <4>3. x \in b.uses[x] /\ x \in DOMAIN b.uses
        BY <1>3, <4>1, <4>2 DEF Kept, Ended, Sound
      <4> QED BY <2>5, <4>3 DEF UsesApart
    <3>6. \A t \in Targets(Exit(b, p)) : id \in e.uses[t]
      <4> TAKE t \in Targets(Exit(b, p))
      <4>1. t \in DOMAIN d.uses
        BY <3>3 DEF Kept
      <4> QED BY <2>1, <3>2, <3>3, <3>4, <4>1
    <3> QED BY <2>3, <3>2, <3>5, <3>6 DEF id
  <2>6. \A t \in DOMAIN e.uses : e.uses[t] \subseteq b.uses[t]
    BY <2>1 DEF Kept
  <2>7. /\ e.code = b.code /\ e.cur = b.cur /\ e.returnBlock = b.returnBlock
        /\ e.condStack = b.condStack /\ e.tailStack = b.tailStack
        /\ DOMAIN e.uses = DOMAIN b.code /\ Listed(e) \subseteq Listed(b)
    BY <2>1, <2>3 DEF Kept
  <2>8. Kept(b, e, sure)
    BY <2>1, <2>3, <2>4, <2>5, <2>6, <2>7 DEF Kept
  <2>9. \A j \in k + 1 .. n : b.list[j] \in Listed(e)
    <3> TAKE j \in k + 1 .. n
    <3>1. b.list[j] # x
      BY <1>1 DEF Ended, IsInjective
    <3>2. b.list[j] \in Listed(d)
      BY <1>1 DEF n
    <3> QED BY <2>3, <3>1, <3>2
  <2> QED BY <1>2, <1>5, <2>8, <2>9 DEF n
<1> QED BY <1>4, <1>5

LEMMA KeptAtFirst ==
  ASSUME NEW b, NEW sure, Ended(b, sure)
  PROVE  Kept(b, b, sure)
<1>1. /\ IsBuilder(b) /\ DOMAIN b.uses = DOMAIN b.code /\ b.list \in Seq(Nat) /\ IsInjective(b.list)
      /\ Len(b.list) >= 1 /\ b.list[Len(b.list)] = b.returnBlock
  <2>1. Len(b.list) >= 2 /\ Len(b.list) \in Nat
    BY DEF Ended, Sound
  <2>2. Len(b.list) >= 1
    BY <2>1
  <2> QED BY <2>2 DEF Ended, Sound
<1>2. ASSUME sure, NEW p \in Listed(b)
      PROVE  /\ Targets(Exit(b, p)) \subseteq Listed(b)
             /\ \A t \in Targets(Exit(b, p)) : Exit(b, p).id \in b.uses[t]
  <2>1. Ended(b, TRUE) /\ Targets(Exit(b, p)) \subseteq Listed(b)
    BY <1>2 DEF Ended
  <2> QED BY <2>1, ExitFacts
<1> QED BY <1>1, <1>2 DEF Kept

(* The function after both passes. *)
Final(b, sure) ==
  /\ \A k \in DOMAIN b.code : EndsOnce(b.code[k])
  /\ b.list \in Seq(Nat) /\ Len(b.list) >= 1 /\ IsInjective(b.list)
  /\ Listed(b) \cup {b.cur} \subseteq DOMAIN b.code
  /\ b.condStack = <<>> /\ b.tailStack = <<>>
  /\ \A k \in Listed(b) : Closed(b, k)
  /\ sure => /\ b.list[Len(b.list)] = b.returnBlock
             /\ \A k \in Listed(b) : Targets(Exit(b, k)) \subseteq Listed(b)

LEMMA CleanedKept ==
  ASSUME NEW b, NEW sure, Ended(b, sure), sure => UsesApart(b)
  PROVE  Kept(b, Cleaned(b), sure)
<1> DEFINE n == Len(b.list)
           c == Cleaned(b)
<1>1. /\ n \in Nat /\ n >= 2 /\ n \in Nat \ {0}
      /\ \A j \in 1 .. n : b.list[j] \in Listed(b)
  BY DEF Ended, Sound, Listed, ToSet
<1> HIDE DEF n, c
<1>2. PICK f : Passes(f, FALSE, b, 1, n) /\ c = f[n]
  <2>1. Len(b.list) \in Nat \ {0}
    BY <1>1 DEF n
  <2>2. \E f : Passes(f, FALSE, b, 1, Len(b.list)) /\ Cleaned(b) = f[Len(b.list)]
    BY <2>1, CleanedPass
  <2> QED BY <2>2 DEF n, c
<1>3. f[1] = b /\ \A k \in 1 + 1 .. n : f[k] = KeepBlock(b, k, f[k - 1])
  BY <1>2 DEF Passes, PassStep
<1> DEFINE Left(k) == Kept(b, f[k], sure) /\ \A j \in k + 1 .. n : b.list[j] \in Listed(f[k])
           Ok == {k \in Nat : k + 1 <= n => Left(k + 1)}
<1>4. 0 \in Ok
  <2>1. Kept(b, b, sure)
    BY KeptAtFirst
  <2>2. \A j \in 1 + 1 .. n : j \in 1 .. n
    OBVIOUS
  <2>3. Left(1)
    BY <1>1, <1>3, <2>1, <2>2
  <2>4. 0 + 1 = 1
    OBVIOUS
  <2> HIDE DEF Left
  <2> QED BY <2>3, <2>4
<1>5. ASSUME NEW k \in Ok PROVE k + 1 \in Ok
  <2> SUFFICES ASSUME (k + 1) + 1 <= n PROVE Left((k + 1) + 1)
    OBVIOUS
  <2> DEFINE m == (k + 1) + 1
             d == f[m - 1]
  <2>1. /\ m \in 2 .. n /\ m - 1 = k + 1 /\ m \in 1 + 1 .. n /\ k + 1 <= n
        /\ \A j \in m .. n : j \in (m - 1) + 1 .. n
    BY <1>1
  <2>2. Left(m - 1)
    <3> HIDE DEF m, d, Left
    <3> QED BY <2>1
  <2> HIDE DEF m
  <2>3. Kept(b, d, sure) /\ \A j \in m .. n : b.list[j] \in Listed(d)
    BY <2>1, <2>2
  <2>4. f[m] = KeepBlock(b, m, d)
    BY <1>3, <2>1
  <2> HIDE DEF d
  <2>5. /\ Kept(b, KeepBlock(b, m, d), sure)
        /\ \A j \in m + 1 .. n : b.list[j] \in Listed(KeepBlock(b, m, d))
    BY <2>1, <2>3, KeepBlockKeeps DEF n
  <2>6. Left(m)
    BY <2>4, <2>5
  <2> QED BY <2>6 DEF m
<1>6. Ok = Nat
  <2>1. Ok \in SUBSET Nat
    OBVIOUS
  <2> HIDE DEF Ok
  <2> QED BY <1>4, <1>5, <2>1, NatInductionSet
<1>7. Left(n)
  <2> DEFINE m == n - 1
  <2>1. m \in Nat /\ m + 1 = n /\ m + 1 <= n
    BY <1>1
  <2> HIDE DEF m, Left
  <2>2. Left(m + 1)
    BY <1>6, <2>1
  <2> QED BY <2>1, <2>2
<1>8. Kept(b, c, sure)
  BY <1>2, <1>7
<1> QED BY <1>8 DEF c

LEMMA CleanedFinal ==
  ASSUME NEW b, NEW sure, Ended(b, sure), sure => UsesApart(b)
  PROVE  Final(Cleaned(b), sure)
<1> DEFINE c == Cleaned(b)
<1>1. Kept(b, c, sure)
  BY CleanedKept
<1> HIDE DEF c
<1>2. /\ c.code = b.code /\ c.cur = b.cur /\ c.returnBlock = b.returnBlock
      /\ c.condStack = <<>> /\ c.tailStack = <<>>
      /\ c.list \in Seq(Nat) /\ Len(c.list) >= 1 /\ IsInjective(c.list) /\ c.list[1] = b.list[1]
      /\ Listed(c) \subseteq Listed(b)
  BY <1>1 DEF Kept, Ended
<1>3. /\ \A k \in DOMAIN c.code : EndsOnce(c.code[k])
      /\ Listed(c) \cup {c.cur} \subseteq DOMAIN c.code
  BY <1>2 DEF Ended, Sound
<1>4. \A k : (Closed(c, k) <=> Closed(b, k)) /\ Exit(c, k) = Exit(b, k)
  BY <1>2 DEF Closed, Exit
<1>5. \A k \in Listed(c) : Closed(c, k)
  BY <1>2, <1>4 DEF Ended
<1>6. ASSUME sure
      PROVE  /\ c.list[Len(c.list)] = c.returnBlock
             /\ \A k \in Listed(c) : Targets(Exit(c, k)) \subseteq Listed(c)
  <2>1. \A k \in Listed(c) : Targets(Exit(b, k)) \subseteq Listed(c)
    BY <1>1, <1>6 DEF Kept
  <2>2. c.list[1] \in Listed(c)
    <3>1. 1 \in DOMAIN c.list
      <4>1. Len(c.list) \in Nat /\ DOMAIN c.list = 1 .. Len(c.list) /\ Len(c.list) >= 1
        BY <1>2
      <4> QED BY <4>1
    <3> QED BY <3>1 DEF Listed, ToSet
  <2>3. ReturnReached(b)
    BY <1>6 DEF Ended
  <2>4. b.returnBlock \in Listed(c)
    BY <1>2, <2>1, <2>2, <2>3 DEF ReturnReached
  <2>5. c.list[Len(c.list)] = b.returnBlock
    BY <1>1, <2>4 DEF Kept
  <2> QED BY <1>2, <1>4, <2>1, <2>5
<1>7. Final(c, sure)
  BY <1>2, <1>3, <1>5, <1>6 DEF Final
<1> QED BY <1>7 DEF c

-----------------------------------------------------------------------------
(* The inductive invariant, from the first statement to the last run.      *)

Inv(sure) ==
  /\ phase \in {"irgen", "terminate", "remove", "run", "done"}
  /\ phase = "irgen" => IrgenInv(builder, work, sure)
  /\ phase = "terminate" =>
       Good(builder, {}, sure) /\ builder.condStack = <<>> /\ builder.tailStack = <<>>
  /\ phase = "remove" => Ended(builder, sure)
  /\ phase \in {"run", "done"} => Final(builder, sure)

LEMMA InitInv ==
  ASSUME Init, NEW sure
  PROVE  Inv(sure)
<1>1. phase = "irgen"
  BY DEF Init
<1>2. IrgenInv(builder, work, sure)
  BY InitIrgen
<1> QED BY <1>1, <1>2 DEF Inv

LEMMA GenPhase ==
  ASSUME GenStatement \/ GenCondition
  PROVE  phase = "irgen" /\ phase' = "irgen"
<1>1. CASE CreateIf \/ GenStatements \/ GenNested \/ GenBlock \/ GenBlank \/ GenEffect
           \/ GenExpression \/ GenReturn
  BY <1>1 DEF CreateIf, GenStatements, GenNested, GenBlock, GenBlank, GenEffect, GenExpression,
              GenReturn, IsStatement, Is, StatementDone, UnchangedRun
<1>2. CASE GenIf \/ GenThen \/ GenElse \/ GenEndIf
  BY <1>2 DEF GenIf, GenThen, GenElse, GenEndIf, IsStatement, Is, StatementDone, UnchangedRun
<1>3. CASE GenWhile \/ GenBody \/ GenEndWhile \/ GenBreak \/ GenContinue
  BY <1>3 DEF GenWhile, GenBody, GenEndWhile, GenBreak, GenContinue, IsStatement, Is,
              StatementDone, UnchangedRun
<1>4. CASE GenCondition
  BY <1>4 DEF GenCondition, GenConstant, GenTest, GenNot, GenNotRest, GenShortCircuit, GenLeft,
              GenRight, IsCondition, Is, Returns, StatementDone, UnchangedRun
<1> QED BY <1>1, <1>2, <1>3, <1>4 DEF GenStatement

LEMMA StepInv ==
  ASSUME NEW sure, Inv(sure), sure => BreaksInLoops /\ IdsApart, [Next]_vars
  PROVE  Inv(sure)'
<1>1. CASE GenStatement \/ GenCondition
  <2>1. phase = "irgen" /\ phase' = "irgen"
    BY <1>1, GenPhase
  <2>2. IrgenInv(builder, work, sure)
    BY <2>1 DEF Inv
  <2>3. IrgenInv(builder', work', sure)
    BY <1>1, <2>2, IrgenKeeps
  <2>4. IrgenInv(builder, work, sure)'
    BY <2>3
  <2> QED BY <2>1, <2>4 DEF Inv
<1>2. CASE GenEnd
  <2>1. phase = "irgen" /\ work = <<>> /\ phase' = "terminate" /\ builder' = builder
    BY <1>2 DEF GenEnd
  <2>2. Good(builder, AllPending(work), sure) /\ Stacks(builder, Loops(work))
    BY <2>1 DEF Inv, IrgenInv
  <2>3. AllPending(work) = {} /\ Loops(work) = {}
    BY <2>1 DEF AllPending, Loops
  <2>4. builder.condStack = <<>> /\ builder.tailStack = <<>>
    <3> DEFINE c == builder.condStack
               t == builder.tailStack
    <3>1. c \in Seq(Nat) /\ t \in Seq(Nat) /\ Len(c) = Len(t) /\ ToSet(c) = {}
      BY <2>2, <2>3 DEF Stacks
    <3> HIDE DEF c, t
    <3>2. DOMAIN c = {}
      BY <3>1 DEF ToSet
    <3>3. Len(c) = 0
      BY <3>1, <3>2
    <3>4. c = <<>> /\ t = <<>>
      BY <3>1, <3>3, EmptySeq
    <3> QED BY <3>4 DEF c, t
  <2>5. Good(builder, {}, sure)
    <3> DEFINE none == {}
    <3>1. AllPending(work) = none
      BY <2>3
    <3> HIDE DEF none
    <3>2. Good(builder, none, sure)
      BY <2>2, <3>1
    <3> QED BY <3>2 DEF none
  <2>6. (Good(builder, {}, sure) /\ builder.condStack = <<>> /\ builder.tailStack = <<>>)'
    BY <2>1, <2>4, <2>5
  <2> QED BY <2>1, <2>6 DEF Inv
<1>3. CASE AddTerminator
  <2>1. phase = "terminate" /\ phase' = "remove" /\ builder' = Terminated(builder)
    BY <1>3 DEF AddTerminator, Build
  <2>2. Good(builder, {}, sure) /\ builder.condStack = <<>> /\ builder.tailStack = <<>>
    BY <2>1 DEF Inv
  <2>3. Ended(builder', sure)
    BY <2>1, <2>2, TerminatedEnds
  <2>4. Ended(builder, sure)'
    BY <2>3
  <2> QED BY <2>1, <2>4 DEF Inv
<1>4. CASE RemoveUnusedBlock
  <2>1. phase = "remove" /\ phase' = "run" /\ builder' = Cleaned(builder)
    BY <1>4 DEF RemoveUnusedBlock, Build
  <2>2. Ended(builder, sure) /\ (sure => UsesApart(builder))
    BY <2>1 DEF Inv, IdsApart, UsesApart
  <2>3. Final(builder', sure)
    BY <2>1, <2>2, CleanedFinal
  <2>4. Final(builder, sure)'
    BY <2>3
  <2> QED BY <2>1, <2>4 DEF Inv
<1>5. CASE Run
  <2>1. phase = "run" /\ phase' \in {"run", "done"} /\ builder' = builder
    <3>1. CASE SourceStep \/ BlocksStep
      BY <3>1 DEF SourceStep, BlocksStep
    <3>2. CASE BothStep
      <4>1. Current.op \in {"test", "effect", "ret"}
        BY <3>2 DEF BothStep, BlocksReady
      <4>2. phase = "run" /\ builder' = builder
        BY <3>2 DEF BothStep
      <4>3. phase' = "done" \/ phase' = phase
        BY <3>2, <4>1 DEF BothStep
      <4> QED BY <4>2, <4>3
    <3> QED BY <1>5, <3>1, <3>2 DEF Run
  <2>2. Final(builder, sure)'
    BY <2>1 DEF Inv
  <2> QED BY <2>1, <2>2 DEF Inv
<1>6. CASE UNCHANGED vars
  <2>1. phase' = phase /\ builder' = builder /\ work' = work
    BY <1>6 DEF vars
  <2> QED BY <2>1 DEF Inv
<1> QED BY <1>1, <1>2, <1>3, <1>4, <1>5, <1>6 DEF Next

(* What holds of the builder in every phase. *)
Kernel(b) ==
  /\ \A k \in DOMAIN b.code : EndsOnce(b.code[k])
  /\ b.list \in Seq(Nat) /\ Len(b.list) >= 1 /\ IsInjective(b.list)
  /\ Listed(b) \cup {b.cur} \subseteq DOMAIN b.code

LEMMA InvKernel ==
  ASSUME NEW sure, Inv(sure)
  PROVE  Kernel(builder)
<1>1. ASSUME Sound(builder), IsInjective(builder.list) PROVE Kernel(builder)
  <2>1. Len(builder.list) >= 1
    <3>1. Len(builder.list) \in Nat /\ Len(builder.list) >= 2
      BY <1>1 DEF Sound
    <3> QED BY <3>1
  <2> QED BY <1>1, <2>1 DEF Kernel, Sound
<1>2. CASE phase = "irgen"
  BY <1>1, <1>2 DEF Inv, IrgenInv, Good, Placed
<1>3. CASE phase = "terminate"
  BY <1>1, <1>3 DEF Inv, Good, Placed
<1>4. CASE phase = "remove"
  BY <1>1, <1>4 DEF Inv, Ended
<1>5. CASE phase \in {"run", "done"}
  BY <1>5 DEF Inv, Final, Kernel
<1> QED BY <1>2, <1>3, <1>4, <1>5 DEF Inv

LEMMA InvType ==
  ASSUME NEW sure, Inv(sure)
  PROVE  TypeOK
<1>1. /\ IsInjective(builder.list)
      /\ ToSet(builder.list) \cup {builder.cur} \subseteq DOMAIN builder.code
  BY InvKernel DEF Kernel, Listed
<1>2. CASE phase = "irgen"
  <2>1. Len(builder.condStack) = Len(builder.tailStack)
    BY <1>2 DEF Inv, IrgenInv, Stacks
  <2> QED BY <1>1, <1>2, <2>1 DEF TypeOK
<1>3. CASE phase # "irgen"
  <2>1. builder.condStack = <<>> /\ builder.tailStack = <<>>
    BY <1>3 DEF Inv, Ended, Final
  <2> QED BY <1>1, <2>1 DEF TypeOK
<1> QED BY <1>2, <1>3

LEMMA InvEnds ==
  ASSUME NEW sure, Inv(sure)
  PROVE  BlocksEndOnce
<1>1. \A k \in DOMAIN builder.code : \A i \in DOMAIN builder.code[k] :
        IsTerminator(builder.code[k][i]) => i = Len(builder.code[k])
  BY InvKernel DEF Kernel, EndsOnce
<1>2. phase \in {"remove", "run", "done"} => \A k \in Listed(builder) : Closed(builder, k)
  BY DEF Inv, Ended, Final
<1> QED BY <1>1, <1>2 DEF BlocksEndOnce, Listed, Closed

LEMMA InvReturn ==
  ASSUME Inv(TRUE)
  PROVE  ReturnBlockLast
<1>1. builder.list[Len(builder.list)] = builder.returnBlock
  BY DEF Inv, IrgenInv, Good, Ended, Sound, Final
<1> QED BY <1>1 DEF ReturnBlockLast, Last

LEMMA InvTargets ==
  ASSUME Inv(TRUE)
  PROVE  TargetsListed
BY DEF Inv, Final, TargetsListed, Finished, Listed, Exit

(* The blocks of a function are different, those that it contains and the  *)
(* current one exist, and the stacks of break and continue have the same   *)
(* height and are empty when the function is finished: whatever statements *)
(* get to irgen, breaks outside a loop included.                           *)
THEOREM TypeCorrect == Spec => []TypeOK
<1>1. Init => Inv(FALSE)
  BY InitInv
<1>2. Inv(FALSE) /\ [Next]_vars => Inv(FALSE)'
  BY StepInv
<1>3. Inv(FALSE) => TypeOK
  BY InvType
<1> QED BY <1>1, <1>2, <1>3, PTL DEF Spec

(* Nothing follows the instruction that leaves a block, neither inside a   *)
(* loop body after break or continue nor after return, and once            *)
(* add_terminator has run every block of the function has one.             *)
THEOREM EveryBlockEndsOnce == Spec => []BlocksEndOnce
<1>1. Init => Inv(FALSE)
  BY InitInv
<1>2. Inv(FALSE) /\ [Next]_vars => Inv(FALSE)'
  BY StepInv
<1>3. Inv(FALSE) => BlocksEndOnce
  BY InvEnds
<1> QED BY <1>1, <1>2, <1>3, PTL DEF Spec

(* The return block is the last block of the function, when it is          *)
(* finished too: remove_unused_block never takes it away, because every    *)
(* way from the entry that ends gets there.  (Regular: breaks are in       *)
(* loops, and has_use drops no use.)                                       *)
THEOREM ReturnStaysLast == Spec /\ []Regular => []ReturnBlockLast
<1>1. Init => Inv(TRUE)
  BY InitInv
<1>2. Inv(TRUE) /\ Regular /\ [Next]_vars => Inv(TRUE)'
  BY StepInv DEF Regular
<1>3. Inv(TRUE) => ReturnBlockLast
  BY InvReturn
<1> QED BY <1>1, <1>2, <1>3, PTL DEF Spec

(* remove_unused_block takes away no block that a block it leaves goes to, *)
(* where breaks are in loops and has_use drops no use (Regular).           *)
THEOREM TargetsStayListed == Spec /\ []Regular => []TargetsListed
<1>1. Init => Inv(TRUE)
  BY InitInv
<1>2. Inv(TRUE) /\ Regular /\ [Next]_vars => Inv(TRUE)'
  BY StepInv DEF Regular
<1>3. Inv(TRUE) => TargetsListed
  BY InvTargets
<1> QED BY <1>1, <1>2, <1>3, PTL DEF Spec

=============================================================================
