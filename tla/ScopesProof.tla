---------------------------- MODULE ScopesProof ----------------------------
(***************************************************************************)
(* The proof that names are read from where C says, for every program,     *)
(* however long, and any names.                                            *)
(***************************************************************************)
EXTENDS Scopes, Induction

-----------------------------------------------------------------------------
(* Where the driver is. *)

IsContext(c) ==
  c = [kind |-> c.kind, block |-> c.block, declared |-> c.declared, condition |-> c.condition]

(* The contexts: the program, a function, its body, blocks and ifs.        *)
Shape(contexts) ==
  /\ IsSeq(contexts) /\ Len(contexts) \in Nat \ {0}
  /\ \A k \in 1 .. Len(contexts) :
       /\ IsContext(contexts[k])
       /\ contexts[k].kind \in {"global", "function", "block", "if"}
       /\ contexts[k].kind = "global" <=> k = 1
       /\ contexts[k].kind = "function" <=> k = 2
       /\ k = 3 => contexts[k].kind = "block"

IsTable(t) == t = [parent |-> t.parent, entries |-> t.entries]
IsBlock(b) == b = [table |-> b.table, statements |-> b.statements]
IsFunction(f) ==
  f = [entry |-> f.entry, table |-> f.table, parameters |-> f.parameters, body |-> f.body]

Containers ==
  /\ IsSeq(tables) /\ Len(tables) \in Nat \ {0}
  /\ \A t \in 1 .. Len(tables) : IsTable(tables[t]) /\ tables[t].parent \in 0 .. t - 1
  /\ IsSeq(blocks) /\ Len(blocks) \in Nat
  /\ \A b \in 1 .. Len(blocks) : IsBlock(blocks[b]) /\ blocks[b].table \in 1 .. Len(tables)
  /\ IsSeq(functions) /\ Len(functions) \in Nat
  /\ \A f \in 1 .. Len(functions) : IsFunction(functions[f]) /\ functions[f].table \in 1 .. Len(tables)

(* tab and dep give every context its table and the blocks around it.      *)
Rung(tab, dep, k) ==
  /\ open[k].kind = "if" => tab[k] = tab[k - 1] /\ dep[k] = dep[k - 1]
  /\ open[k].kind # "if" => tab[k - 1] < tab[k] /\ tables[tab[k]].parent = tab[k - 1]
  /\ open[k].kind = "function" => dep[k] = 0
  /\ open[k].kind = "block" => dep[k] = dep[k - 1] + 1 /\ blockStack[dep[k]] = open[k].block
  /\ tab[k] = IF dep[k] = 0 THEN functions[currentFunction].table
              ELSE blocks[blockStack[dep[k]]].table

Ladder(tab, dep) ==
  /\ tab \in [1 .. Len(open) -> 1 .. Len(tables)] /\ tab[1] = Global
  /\ dep \in [1 .. Len(open) -> 0 .. Len(blockStack)] /\ dep[1] = 0
  /\ \A j, k \in 1 .. Len(open) : j <= k => dep[j] <= dep[k]
  /\ \A k \in 2 .. Len(open) : Rung(tab, dep, k)

Standing(tab, dep) ==
  /\ IsSeq(blockStack) /\ Len(blockStack) = dep[Len(open)]
  /\ \A d \in 1 .. Len(blockStack) : blockStack[d] \in 1 .. Len(blocks)
  /\ currentTable = tab[Len(open)]
  /\ currentBlock = IF blockStack = <<>> THEN Null ELSE Last(blockStack)
  /\ currentFunction = IF Len(open) = 1 THEN Null ELSE Len(functions)
  /\ Len(open) > 1 => Len(functions) > 0

Placed(tab, dep) ==
  /\ Shape(open) /\ Containers
  /\ Ladder(tab, dep) /\ Standing(tab, dep)

LEMMA OneFacts == ASSUME NEW x PROVE IsSeq(<<x>>) /\ Len(<<x>>) = 1 /\ <<x>>[1] = x
<1>1. <<x>> \in Seq({x}) /\ Len(<<x>>) = 1 /\ <<x>>[1] = x
  OBVIOUS
<1> QED BY <1>1 DEF IsSeq

LEMMA PlacedInit ==
  ASSUME Init
  PROVE  Placed([k \in 1 .. 1 |-> Global], [k \in 1 .. 1 |-> 0])
<1>1. IsSeq(open) /\ Len(open) = 1 /\ open[1] = Context("global", Null)
  BY OneFacts DEF Init
<1>2. Shape(open)
  BY <1>1 DEF Shape, IsContext, Context
<1>3. IsSeq(tables) /\ Len(tables) = 1 /\ tables[1] = SymbolTable(Null)
  BY OneFacts DEF Init
<1>4. Containers
  BY <1>3, NothingIsSeq DEF Init, Containers, SymbolTable, IsTable, Null
<1> DEFINE tab == [k \in 1 .. 1 |-> Global]
           dep == [k \in 1 .. 1 |-> 0]
<1>5. Ladder(tab, dep)
  BY <1>1, <1>3, NothingIsSeq DEF Ladder, Global, Init
<1>6. Standing(tab, dep)
  BY <1>1, NothingIsSeq DEF Standing, Init, Null, Global
<1> QED BY <1>2, <1>4, <1>5, <1>6 DEF Placed

(* After a step the first m contexts have the tables they had.             *)
Moves(tab, m) ==
  \E tab2, dep2 : Placed(tab2, dep2)' /\ \A k \in 1 .. m : tab2[k] = tab[k]

(* What a step that opens and closes nothing leaves as it is.              *)
SamePlaces ==
  /\ IsSeq(tables') /\ Len(tables') = Len(tables)
  /\ \A t \in 1 .. Len(tables) : IsTable(tables'[t]) /\ tables'[t].parent = tables[t].parent
  /\ IsSeq(blocks') /\ Len(blocks') = Len(blocks)
  /\ \A b \in 1 .. Len(blocks) : IsBlock(blocks'[b]) /\ blocks'[b].table = blocks[b].table
  /\ UNCHANGED functions

SameContexts ==
  /\ IsSeq(open') /\ Len(open') = Len(open)
  /\ \A k \in 1 .. Len(open) : /\ IsContext(open'[k])
                               /\ open'[k].kind = open[k].kind /\ open'[k].block = open[k].block

LEMMA SameContainers == ASSUME Containers, SamePlaces PROVE Containers'
BY DEF Containers, SamePlaces

LEMMA StayingPlaced ==
  ASSUME NEW tab, NEW dep, Placed(tab, dep), SamePlaces, SameContexts, UNCHANGED driver
  PROVE  Placed(tab, dep)' /\ Moves(tab, Len(open))
<1>1. Containers'
  BY SameContainers DEF Placed
<1>2. Shape(open')
  BY DEF Placed, Shape, SameContexts
<1>3. Ladder(tab, dep) /\ Standing(tab, dep)
  BY DEF Placed
<1>4. Ladder(tab, dep)'
  <2>1. /\ Len(open) \in Nat /\ Len(tables') = Len(tables) /\ Len(open') = Len(open)
        /\ Len(blocks) \in Nat /\ blockStack' = blockStack
        /\ currentFunction' = currentFunction /\ functions' = functions
    BY DEF Placed, Shape, Containers, SameContexts, SamePlaces, driver
  <2>2. ASSUME NEW k \in 2 .. Len(open) PROVE Rung(tab, dep, k)'
    <3>1. k \in 1 .. Len(open)
      BY <2>1
    <3>2. tab[k] \in 1 .. Len(tables) /\ dep[k] \in 0 .. Len(blockStack) /\ Rung(tab, dep, k)
      BY <1>3, <3>1 DEF Ladder
    <3>3. dep[k] # 0 => dep[k] \in 1 .. Len(blockStack)
      BY <1>3, <2>1, <3>2 DEF Standing
    <3>4. dep[k] # 0 => blockStack[dep[k]] \in 1 .. Len(blocks)
      BY <1>3, <3>3 DEF Standing
    <3>5. /\ open'[k].kind = open[k].kind /\ open'[k].block = open[k].block
          /\ tables'[tab[k]].parent = tables[tab[k]].parent
          /\ dep[k] # 0 => blocks'[blockStack[dep[k]]].table = blocks[blockStack[dep[k]]].table
      BY <3>1, <3>2, <3>4 DEF SameContexts, SamePlaces
    <3> QED BY <2>1, <3>2, <3>5 DEF Rung
  <2> QED BY <1>3, <2>1, <2>2 DEF Ladder
<1>5. Standing(tab, dep)'
  BY <1>3 DEF Standing, driver, SameContexts, SamePlaces
<1> QED BY <1>1, <1>2, <1>4, <1>5 DEF Placed, Moves

(* A step that closes contexts. *)
Closing(tab, dep, m) ==
  /\ m \in 1 .. Len(open)
  /\ IsSeq(open') /\ Len(open') = m /\ \A k \in 1 .. m : open'[k] = open[k]
  /\ IsSeq(blockStack') /\ Len(blockStack') = dep[m]
  /\ \A d \in 1 .. dep[m] : blockStack'[d] = blockStack[d]
  /\ currentTable' = tab[m]
  /\ currentBlock' = IF blockStack' = <<>> THEN Null ELSE Last(blockStack')
  /\ currentFunction' = IF m = 1 THEN Null ELSE currentFunction

LEMMA ClosingPlaced ==
  ASSUME NEW tab, NEW dep, Placed(tab, dep), SamePlaces, NEW m, Closing(tab, dep, m)
  PROVE  Moves(tab, m)
<1>0. Shape(open) /\ Containers /\ Ladder(tab, dep) /\ Standing(tab, dep)
  BY DEF Placed
<1> USE <1>0
<1>1. Containers'
  BY SameContainers
<1>2. Shape(open')
  BY DEF Shape, Closing
<1> DEFINE tab2 == [k \in 1 .. m |-> tab[k]]
           dep2 == [k \in 1 .. m |-> dep[k]]
<1>3. /\ Len(open) \in Nat /\ Len(tables) \in Nat /\ Len(tables') = Len(tables)
      /\ Len(blocks) \in Nat /\ Len(blocks') = Len(blocks) /\ functions' = functions
      /\ m \in 1 .. Len(open) /\ Len(open') = m /\ m \in Nat
  BY DEF Shape, Containers, SamePlaces, Closing
<1>b. /\ \A k \in 1 .. m : k \in 1 .. Len(open) /\ tab[k] \in 1 .. Len(tables)
                           /\ dep[k] \in Nat /\ dep[k] <= dep[m]
      /\ dep[m] \in 0 .. Len(blockStack) /\ Len(blockStack) \in Nat /\ Len(blockStack') = dep[m]
  <2>1. \A k \in 1 .. m : k \in 1 .. Len(open) /\ k <= m
    BY <1>3
  <2>2. m \in 1 .. Len(open) /\ Len(open) \in 1 .. Len(open)
    BY <1>3
  <2>3. Len(blockStack) = dep[Len(open)]
    BY DEF Standing
  <2>4. \A k \in 1 .. Len(open) : tab[k] \in 1 .. Len(tables) /\ dep[k] \in Nat
    BY <1>3 DEF Ladder
  <2>5. \A k \in 1 .. m : dep[k] <= dep[m]
    BY <2>1, <2>2 DEF Ladder
  <2>6. dep[m] <= dep[Len(open)]
    BY <1>3, <2>2 DEF Ladder
  <2>7. Len(blockStack') = dep[m]
    BY DEF Closing
  <2>8. dep[m] \in Nat /\ dep[Len(open)] \in Nat
    BY <2>2, <2>4
  <2> QED BY <2>1, <2>3, <2>4, <2>5, <2>6, <2>7, <2>8
<1>4. /\ tab2 \in [1 .. m -> 1 .. Len(tables)] /\ dep2 \in [1 .. m -> 0 .. dep[m]]
      /\ \A k \in 1 .. m : tab2[k] = tab[k] /\ dep2[k] = dep[k]
  <2>1. \A k \in 1 .. m : dep[k] \in 0 .. dep[m]
    BY <1>b
  <2> QED BY <1>b, <2>1
<1> HIDE DEF tab2, dep2
<1>5. Ladder(tab2, dep2)'
  <2>1. ASSUME NEW k \in 2 .. m PROVE Rung(tab2, dep2, k)'
    <3>1. k \in 1 .. m /\ k - 1 \in 1 .. m /\ k \in 2 .. Len(open) /\ m # 1
      BY <1>3
    <3>2. tab[k] \in 1 .. Len(tables) /\ Rung(tab, dep, k)
      BY <1>b, <3>1 DEF Ladder
    <3>3. dep[k] # 0 => dep[k] \in 1 .. dep[m] /\ dep[k] \in 1 .. Len(blockStack)
      BY <1>b, <3>1
    <3>4. dep[k] # 0 => /\ blockStack[dep[k]] \in 1 .. Len(blocks)
                       /\ blockStack'[dep[k]] = blockStack[dep[k]]
      BY <3>3 DEF Standing, Closing
    <3>5. /\ open'[k] = open[k] /\ currentFunction' = currentFunction
          /\ tables'[tab[k]].parent = tables[tab[k]].parent
          /\ dep[k] # 0 => blocks'[blockStack[dep[k]]].table = blocks[blockStack[dep[k]]].table
      BY <3>1, <3>2, <3>4 DEF Closing, SamePlaces
    <3>6. open[k].kind = "block" => dep[k] # 0
      BY <1>b, <3>1, <3>2 DEF Rung
    <3>7. tab2[k] = tab[k] /\ dep2[k] = dep[k] /\ tab2[k - 1] = tab[k - 1] /\ dep2[k - 1] = dep[k - 1]
      BY <1>4, <3>1
    <3> QED BY <1>3, <3>2, <3>4, <3>5, <3>6, <3>7 DEF Rung
  <2>2. 1 \in 1 .. m /\ tab2[1] = Global /\ dep2[1] = 0
    BY <1>3, <1>4 DEF Ladder
  <2>3. \A j, k \in 1 .. m : j <= k => dep2[j] <= dep2[k]
    BY <1>b, <1>4 DEF Ladder
  <2> QED BY <1>3, <1>4, <1>b, <2>1, <2>2, <2>3 DEF Ladder
<1>6. Standing(tab2, dep2)'
  <2>1. \A d \in 1 .. dep[m] : d \in 1 .. Len(blockStack)
    BY <1>b
  <2>2. m \in 1 .. m
    BY <1>3
  <2>3. currentFunction' = IF Len(open') = 1 THEN Null ELSE Len(functions')
    BY <1>3 DEF Standing, Closing
  <2>4. Len(open') > 1 => Len(functions') > 0
    BY <1>3 DEF Standing
  <2>5. \A d \in 1 .. Len(blockStack') : blockStack'[d] \in 1 .. Len(blocks')
    BY <1>3, <1>b, <2>1 DEF Standing, Closing
  <2> QED BY <1>3, <1>4, <1>b, <2>2, <2>3, <2>4, <2>5 DEF Standing, Closing
<1> QED BY <1>1, <1>2, <1>4, <1>5, <1>6 DEF Placed, Moves

(* A step that opens one. *)
MorePlaces ==
  /\ Len(tables') >= Len(tables)
  /\ \A t \in 1 .. Len(tables) : tables'[t].parent = tables[t].parent
  /\ Len(blocks') >= Len(blocks)
  /\ \A b \in 1 .. Len(blocks) : blocks'[b].table = blocks[b].table
  /\ \A f \in 1 .. Len(functions) : functions'[f].table = functions[f].table

Opening(t, d, kind, block) ==
  /\ Len(open') = Len(open) + 1
  /\ \A k \in 1 .. Len(open) : open'[k].kind = open[k].kind /\ open'[k].block = open[k].block
  /\ open'[Len(open) + 1].kind = kind /\ open'[Len(open) + 1].block = block
  /\ IsSeq(blockStack') /\ Len(blockStack') = d /\ d >= Len(blockStack)
  /\ \A i \in 1 .. Len(blockStack) : blockStack'[i] = blockStack[i]
  /\ \A i \in 1 .. d : blockStack'[i] \in 1 .. Len(blocks')
  /\ Len(open) > 1 => currentFunction' = currentFunction /\ Len(functions') = Len(functions)
  /\ currentFunction' = Len(functions') /\ Len(functions') > 0
  /\ currentTable' = t
  /\ currentBlock' = IF blockStack' = <<>> THEN Null ELSE Last(blockStack')
  /\ kind = "if" => t = currentTable /\ d = Len(blockStack)
  /\ kind # "if" => currentTable < t /\ tables'[t].parent = currentTable
  /\ kind = "function" => d = 0
  /\ kind = "block" => d = Len(blockStack) + 1 /\ blockStack'[d] = block
  /\ t = IF d = 0 THEN functions'[currentFunction'].table ELSE blocks'[blockStack'[d]].table

LEMMA OpeningPlaced ==
  ASSUME NEW tab, NEW dep, Placed(tab, dep), Shape(open)', Containers', MorePlaces,
         NEW t \in 1 .. Len(tables'), NEW d \in Nat, NEW kind, NEW block, Opening(t, d, kind, block)
  PROVE  Moves(tab, Len(open))
<1>0. Shape(open) /\ Containers /\ Ladder(tab, dep) /\ Standing(tab, dep)
  BY DEF Placed
<1> USE <1>0
<1>n. PICK n : n = Len(open)
  OBVIOUS
<1> DEFINE tab2 == [k \in 1 .. n + 1 |-> IF k = n + 1 THEN t ELSE tab[k]]
           dep2 == [k \in 1 .. n + 1 |-> IF k = n + 1 THEN d ELSE dep[k]]
<1>3. /\ n \in Nat \ {0} /\ Len(tables) \in Nat /\ Len(tables') \in Nat /\ Len(open') = n + 1
      /\ Len(blocks) \in Nat /\ Len(blocks') \in Nat /\ Len(functions) \in Nat
      /\ Len(tables') >= Len(tables) /\ Len(blocks') >= Len(blocks) /\ d >= Len(blockStack)
  BY <1>n DEF Shape, Containers, Opening, MorePlaces
<1>b. /\ \A k \in 1 .. n : tab[k] \in 1 .. Len(tables) /\ dep[k] \in Nat /\ dep[k] <= dep[n]
      /\ dep[n] = Len(blockStack) /\ tab[n] = currentTable /\ n \in 1 .. n /\ Len(blockStack) \in Nat
  <2>1. n \in 1 .. n /\ \A k \in 1 .. n : k <= n
    BY <1>3
  <2>2. dep[n] = Len(blockStack) /\ tab[n] = currentTable
    BY <1>n DEF Standing
  <2>3. \A k \in 1 .. n : tab[k] \in 1 .. Len(tables) /\ dep[k] \in Nat
    BY SMTT(30), <1>3, <1>n DEF Ladder
  <2>4. \A k \in 1 .. n : dep[k] <= dep[n]
    BY <1>n, <2>1 DEF Ladder
  <2>5. dep[n] \in Nat
    BY <2>1, <2>3
  <2> QED BY <2>1, <2>2, <2>3, <2>4, <2>5
<1>4. /\ tab2 \in [1 .. n + 1 -> 1 .. Len(tables')] /\ dep2 \in [1 .. n + 1 -> 0 .. d]
      /\ \A k \in 1 .. n : tab2[k] = tab[k] /\ dep2[k] = dep[k]
      /\ tab2[n + 1] = t /\ dep2[n + 1] = d
  <2>1. \A k \in 1 .. n + 1 : k # n + 1 => k \in 1 .. n
    BY <1>3
  <2>2. \A k \in 1 .. n : tab[k] \in 1 .. Len(tables') /\ dep[k] \in 0 .. d /\ k # n + 1
    <3>1. \A x \in 1 .. Len(tables) : x \in 1 .. Len(tables')
      BY <1>3
    <3>2. \A x \in Nat : x <= dep[n] => x \in 0 .. d
      BY <1>3, <1>b
    <3>3. \A k \in 1 .. n : k # n + 1
      BY <1>3
    <3> QED BY <1>b, <3>1, <3>2, <3>3
  <2>3. n + 1 \in 1 .. n + 1 /\ d \in 0 .. d /\ \A k \in 1 .. n : k \in 1 .. n + 1
    BY <1>3
  <2> QED BY <2>1, <2>2, <2>3
<1> HIDE DEF tab2, dep2
<1>5. Ladder(tab2, dep2)'
  <2>7. ASSUME NEW k \in 2 .. n PROVE Rung(tab2, dep2, k)'
    <3>1. k \in 1 .. n /\ k - 1 \in 1 .. n /\ n > 1 /\ n # 1
      BY <1>3
    <3>2. tab[k] \in 1 .. Len(tables) /\ Rung(tab, dep, k)
      BY <1>n, <1>b, <3>1 DEF Ladder
    <3>3. dep[k] # 0 => dep[k] \in 1 .. Len(blockStack)
      BY <1>b, <3>1
    <3>4. dep[k] # 0 => /\ blockStack[dep[k]] \in 1 .. Len(blocks)
                       /\ blockStack'[dep[k]] = blockStack[dep[k]]
      BY <3>3 DEF Standing, Opening
    <3>5. currentFunction' = currentFunction
      BY <1>n, <3>1 DEF Opening
    <3>6. currentFunction \in 1 .. Len(functions)
      BY <1>n, <1>3, <3>1 DEF Standing
    <3>7. /\ open'[k].kind = open[k].kind /\ open'[k].block = open[k].block
          /\ tables'[tab[k]].parent = tables[tab[k]].parent
          /\ dep[k] # 0 => blocks'[blockStack[dep[k]]].table = blocks[blockStack[dep[k]]].table
          /\ functions'[currentFunction].table = functions[currentFunction].table
      BY <1>n, <3>1, <3>2, <3>4, <3>6 DEF Opening, MorePlaces
    <3>8. open[k].kind = "block" => dep[k] # 0
      BY SMTT(30), <1>b, <3>1, <3>2 DEF Rung
    <3>9. tab2[k] = tab[k] /\ dep2[k] = dep[k] /\ tab2[k - 1] = tab[k - 1] /\ dep2[k - 1] = dep[k - 1]
      BY <1>4, <3>1
    <3> QED BY <3>2, <3>4, <3>5, <3>7, <3>8, <3>9 DEF Rung
  <2>8. Rung(tab2, dep2, n + 1)'
    <3>1. n + 1 - 1 = n /\ tab2[n] = currentTable /\ dep2[n] = Len(blockStack)
      BY <1>3, <1>4, <1>b
    <3>2. /\ open'[n + 1].kind = kind /\ open'[n + 1].block = block
          /\ kind = "if" => t = currentTable /\ d = Len(blockStack)
          /\ kind # "if" => currentTable < t /\ tables'[t].parent = currentTable
          /\ kind = "function" => d = 0
          /\ kind = "block" => d = Len(blockStack) + 1 /\ blockStack'[d] = block
          /\ t = IF d = 0 THEN functions'[currentFunction'].table ELSE blocks'[blockStack'[d]].table
      BY <1>n DEF Opening
    <3>3. tab2[n + 1] = t /\ dep2[n + 1] = d
      BY <1>4
    <3>4. PICK m : m = n + 1
      OBVIOUS
    <3>5. m - 1 = n
      BY <1>3, <3>4
    <3>6. Rung(tab2, dep2, m)'
      BY <3>1, <3>2, <3>3, <3>4, <3>5 DEF Rung
    <3> QED BY <3>4, <3>6
  <2>9. \A k \in 2 .. n + 1 : Rung(tab2, dep2, k)'
    <3>1. \A k \in 2 .. n + 1 : k \in 2 .. n \/ k = n + 1
      BY <1>3
    <3> QED BY <2>7, <2>8, <3>1
  <2>5. tab2[1] = Global /\ dep2[1] = 0
    BY <1>n, <1>3, <1>4 DEF Ladder
  <2>6. \A j, k \in 1 .. n + 1 : j <= k => dep2[j] <= dep2[k]
    <3> SUFFICES ASSUME NEW j \in 1 .. n + 1, NEW k \in 1 .. n + 1, j <= k PROVE dep2[j] <= dep2[k]
      OBVIOUS
    <3>1. CASE k = n + 1 /\ j # n + 1
      <4>1. j \in 1 .. n
        BY <1>3, <3>1
      <4>2. dep[j] <= dep[n] /\ dep[j] \in Nat /\ dep[n] <= d
        BY <1>3, <1>b, <4>1
      <4> QED BY <1>3, <1>4, <1>b, <3>1, <4>1, <4>2
    <3>2. CASE k = n + 1 /\ j = n + 1
      BY <1>4, <3>2
    <3>3. CASE k # n + 1
      <4>1. j \in 1 .. n /\ k \in 1 .. n
        BY <1>3, <3>3
      <4> QED BY <1>n, <1>4, <4>1 DEF Ladder
    <3> QED BY <3>1, <3>2, <3>3
  <2>1. Len(open') = n + 1 /\ Len(blockStack') = d
    BY <1>n, <1>3 DEF Opening
  <2> QED BY <1>4, <2>1, <2>5, <2>6, <2>9 DEF Ladder
<1>6. Standing(tab2, dep2)'
  <2>1. Len(open') # 1 /\ Len(open') = n + 1
    BY <1>3
  <2> QED BY <1>4, <2>1 DEF Standing, Opening
<1> QED BY <1>n, <1>4, <1>5, <1>6 DEF Placed, Moves

(* The pieces that steps are made of. *)
LEMMA SameLength ==
  ASSUME NEW s, IsSeq(s), NEW t, t = [k \in DOMAIN s |-> t[k]]
  PROVE  IsSeq(t) /\ Len(t) = Len(s) /\ DOMAIN t = 1 .. Len(s) /\ Len(s) \in Nat
<1>1. PICK S : s \in Seq(S)
  BY DEF IsSeq
<1>2. DOMAIN s = 1 .. Len(s) /\ Len(s) \in Nat
  BY <1>1
<1> DEFINE T == {t[k] : k \in DOMAIN s}
<1>3. t \in [1 .. Len(s) -> T]
  BY <1>2
<1> HIDE DEF T
<1>4. t \in Seq(T) /\ Len(t) = Len(s)
  BY <1>2, <1>3
<1> QED BY <1>2, <1>3, <1>4 DEF IsSeq

WithEntry(tabs, t, name, e, after) ==
  /\ IsSeq(after) /\ Len(after) = Len(tabs)
  /\ \A u \in 1 .. Len(tabs) : IsTable(after[u]) /\ after[u].parent = tabs[u].parent
  /\ \A u \in 1 .. Len(tabs) : u # t => after[u] = tabs[u]
  /\ after[t].entries = With(tabs[t].entries, name, e)

LEMMA InsertedFacts ==
  ASSUME Containers, NEW t \in 1 .. Len(tables), NEW name, NEW e
  PROVE  WithEntry(tables, t, name, e, Inserted(t, name, e))
<1> DEFINE after == Inserted(t, name, e)
<1>2. IsSeq(tables) /\ DOMAIN tables = 1 .. Len(tables) /\ \A u \in 1 .. Len(tables) : IsTable(tables[u])
  BY SameLength DEF Containers
<1>3. after = [u \in DOMAIN tables |-> after[u]]
  BY <1>2 DEF Inserted
<1>4. after[t] = [tables[t] EXCEPT !.entries = With(tables[t].entries, name, e)]
      /\ \A u \in 1 .. Len(tables) : u # t => after[u] = tables[u]
  BY <1>2 DEF Inserted
<1> HIDE DEF after
<1>5. after[t].parent = tables[t].parent /\ after[t].entries = With(tables[t].entries, name, e)
      /\ IsTable(after[t])
  BY <1>2, <1>4 DEF IsTable
<1>6. IsSeq(after) /\ Len(after) = Len(tables)
  BY <1>2, <1>3, SameLength
<1> QED BY <1>2, <1>4, <1>5, <1>6 DEF WithEntry, after

LEMMA InsertedSamePlaces ==
  ASSUME Containers, NEW t \in 1 .. Len(tables), NEW name, NEW e,
         tables' = Inserted(t, name, e), UNCHANGED <<blocks, functions>>
  PROVE  SamePlaces
BY InsertedFacts DEF WithEntry, SamePlaces, Containers

WithStatement(before, b, statement, after) ==
  /\ IsSeq(after) /\ Len(after) = Len(before)
  /\ \A c \in 1 .. Len(before) : IsBlock(after[c]) /\ after[c].table = before[c].table
  /\ \A c \in 1 .. Len(before) : c # b => after[c] = before[c]
  /\ b \in 1 .. Len(before) => after[b].statements = Append(before[b].statements, statement)

LEMMA StatementFacts ==
  ASSUME Containers, NEW b, NEW statement, currentFunction # Null, AppendStatement(statement, b)
  PROVE  WithStatement(blocks, b, statement, blocks') /\ UNCHANGED unit
<1> DEFINE after == [blocks EXCEPT ![b].statements = Append(@, statement)]
<1>1. blocks' = after /\ UNCHANGED unit
  BY DEF AppendStatement
<1>2. IsSeq(blocks) /\ DOMAIN blocks = 1 .. Len(blocks) /\ \A c \in 1 .. Len(blocks) : IsBlock(blocks[c])
  BY SameLength DEF Containers
<1>3. after = [c \in DOMAIN blocks |-> after[c]]
  BY <1>2
<1>4. b \in 1 .. Len(blocks) => after[b] = [blocks[b] EXCEPT !.statements = Append(blocks[b].statements, statement)]
  BY <1>2
<1>5. \A c \in 1 .. Len(blocks) : c # b => after[c] = blocks[c]
  BY <1>2
<1> HIDE DEF after
<1>6. b \in 1 .. Len(blocks) => after[b].table = blocks[b].table /\ IsBlock(after[b])
                               /\ after[b].statements = Append(blocks[b].statements, statement)
  BY <1>2, <1>4 DEF IsBlock
<1>7. IsSeq(after) /\ Len(after) = Len(blocks)
  BY <1>2, <1>3, SameLength
<1>8. ASSUME NEW c \in 1 .. Len(blocks) PROVE IsBlock(after[c]) /\ after[c].table = blocks[c].table
  BY <1>2, <1>5, <1>6
<1> QED BY <1>1, <1>5, <1>6, <1>7, <1>8 DEF WithStatement

LEMMA AppendStatementSamePlaces ==
  ASSUME Containers, NEW b, NEW statement, AppendStatement(statement, b), UNCHANGED <<tables, functions>>
  PROVE  SamePlaces
<1>1. CASE currentFunction = Null
  BY <1>1 DEF AppendStatement, SamePlaces, Containers
<1>2. CASE currentFunction # Null
  <2>1. WithStatement(blocks, b, statement, blocks')
    BY <1>2, StatementFacts
  <2> QED BY <2>1 DEF WithStatement, SamePlaces, Containers
<1> QED BY <1>1, <1>2

LEMMA OutsideFacts ==
  ASSUME NEW contexts, Shape(contexts)
  PROVE  /\ Outside(contexts) \in 1 .. Len(contexts) /\ DOMAIN contexts = 1 .. Len(contexts)
         /\ contexts[Outside(contexts)].kind # "if"
         /\ \A j \in Outside(contexts) + 1 .. Len(contexts) : contexts[j].kind = "if"
<1>1. DOMAIN contexts = 1 .. Len(contexts) /\ Len(contexts) \in Nat \ {0}
  BY SameLength DEF Shape
<1> DEFINE L == Len(contexts)
           T == {n \in Nat : n < L /\ contexts[L - n].kind # "if"}
<1>2. L - 1 \in T
  <2>1. L - 1 \in Nat /\ L - 1 < L /\ L - (L - 1) = 1
    BY <1>1
  <2>2. 1 \in 1 .. Len(contexts) /\ contexts[1].kind = "global"
    BY <1>1 DEF Shape
  <2> QED BY <2>1, <2>2
<1>3. PICK n \in T : \A m \in T : n <= m
  <2>1. T \in SUBSET Nat /\ T # {}
    BY <1>2
  <2> HIDE DEF T
  <2> QED BY <2>1, LeastNat
<1>4. \E k \in DOMAIN contexts : /\ contexts[k].kind # "if"
                                /\ \A j \in k + 1 .. Len(contexts) : contexts[j].kind = "if"
  <2>1. L - n \in DOMAIN contexts /\ contexts[L - n].kind # "if"
    BY <1>1, <1>3
  <2>2. ASSUME NEW j \in L - n + 1 .. Len(contexts), contexts[j].kind # "if" PROVE FALSE
    <3>1. L - j \in Nat /\ L - j < n /\ L - j < L /\ L - (L - j) = j /\ n \in Nat
      BY <1>1, <1>3
    <3>2. L - j \in T
      BY <2>2, <3>1
    <3> QED BY <1>3, <3>1, <3>2
  <2> QED BY <2>1, <2>2
<1> QED BY <1>1, <1>4 DEF Outside

(* Ifs have the table of what is around them, others have later ones.      *)
LEMMA TablesGrow ==
  ASSUME NEW tab, NEW dep, Placed(tab, dep)
  PROVE  \A j, k \in 1 .. Len(open) : j < k /\ open[k].kind # "if" => tab[j] # tab[k]
<1>1. /\ Len(open) \in Nat \ {0} /\ Len(tables) \in Nat
      /\ \A k \in 1 .. Len(open) : tab[k] \in 1 .. Len(tables)
      /\ \A k \in 2 .. Len(open) : Rung(tab, dep, k)
  BY DEF Placed, Shape, Containers, Ladder
<1>2. \A k \in 2 .. Len(open) : tab[k - 1] <= tab[k] /\ (open[k].kind # "if" => tab[k - 1] < tab[k])
  <2> SUFFICES ASSUME NEW k \in 2 .. Len(open)
               PROVE  tab[k - 1] <= tab[k] /\ (open[k].kind # "if" => tab[k - 1] < tab[k])
    OBVIOUS
  <2>1. k - 1 \in 1 .. Len(open) /\ k \in 1 .. Len(open)
    BY <1>1
  <2>2. tab[k] \in Nat /\ tab[k - 1] \in Nat
    BY <1>1, <2>1
  <2> QED BY <1>1, <2>2 DEF Rung
<1> DEFINE P == {n \in Nat : \A j, k \in 1 .. Len(open) : k = j + n => tab[j] <= tab[k]}
<1>3. 0 \in P
  BY <1>1
<1>4. ASSUME NEW n \in P PROVE n + 1 \in P
  <2>1. n \in Nat /\ \A j, k \in 1 .. Len(open) : k = j + n => tab[j] <= tab[k]
    OBVIOUS
  <2> SUFFICES ASSUME NEW j \in 1 .. Len(open), NEW k \in 1 .. Len(open), k = j + (n + 1)
               PROVE  tab[j] <= tab[k]
    BY <2>1
  <2>2. k - 1 \in 1 .. Len(open) /\ k - 1 = j + n /\ k \in 2 .. Len(open)
    BY <1>1, <2>1
  <2>3. tab[j] <= tab[k - 1] /\ tab[k - 1] <= tab[k]
    BY <1>2, <2>1, <2>2
  <2>4. tab[j] \in Nat /\ tab[k] \in Nat /\ tab[k - 1] \in Nat
    BY <1>1, <2>2
  <2> QED BY <2>3, <2>4
<1>5. P = Nat
  <2> HIDE DEF P
  <2>1. P \in SUBSET Nat
    BY DEF P
  <2> QED BY <1>3, <1>4, <2>1, NatInductionSet
<1>6. ASSUME NEW j \in 1 .. Len(open), NEW k \in 1 .. Len(open), j <= k PROVE tab[j] <= tab[k]
  <2>1. k - j \in Nat /\ k = j + (k - j)
    BY <1>1, <1>6
  <2> QED BY <1>5, <2>1
<1>7. ASSUME NEW j \in 1 .. Len(open), NEW k \in 1 .. Len(open), j < k, open[k].kind # "if"
      PROVE  tab[j] < tab[k]
  <2>1. k - 1 \in 1 .. Len(open) /\ j <= k - 1 /\ k \in 2 .. Len(open)
    BY <1>1, <1>7
  <2>2. tab[j] <= tab[k - 1] /\ tab[k - 1] < tab[k]
    BY <1>2, <1>6, <1>7, <2>1
  <2>3. tab[j] \in Nat /\ tab[k] \in Nat /\ tab[k - 1] \in Nat
    BY <1>1, <2>1
  <2> QED BY <2>2, <2>3
<1> QED BY <1>1, <1>7

LEMMA IfsSame ==
  ASSUME NEW tab, NEW dep, Placed(tab, dep), NEW m \in 1 .. Len(open), NEW n \in 1 .. Len(open),
         \A j \in m + 1 .. n : open[j].kind = "if"
  PROVE  \A k \in m .. n : tab[k] = tab[m] /\ dep[k] = dep[m]
<1>1. /\ Len(open) \in Nat \ {0} /\ m \in Nat \ {0} /\ n \in Nat /\ n <= Len(open)
      /\ \A k \in 2 .. Len(open) : Rung(tab, dep, k)
  BY DEF Placed, Shape, Ladder
<1> DEFINE P == {i \in Nat : m + i <= n => tab[m + i] = tab[m] /\ dep[m + i] = dep[m]}
<1>2. 0 \in P
  BY <1>1
<1>3. ASSUME NEW i \in P PROVE i + 1 \in P
  <2>1. i \in Nat /\ (m + i <= n => tab[m + i] = tab[m] /\ dep[m + i] = dep[m])
    OBVIOUS
  <2> SUFFICES ASSUME m + (i + 1) <= n
               PROVE  tab[m + (i + 1)] = tab[m] /\ dep[m + (i + 1)] = dep[m]
    BY <2>1
  <2>2. PICK k : k = m + (i + 1)
    OBVIOUS
  <2>3. k \in 2 .. Len(open) /\ k \in m + 1 .. n /\ k - 1 = m + i /\ m + i <= n
    BY <1>1, <2>1, <2>2
  <2>4. tab[k] = tab[k - 1] /\ dep[k] = dep[k - 1]
    BY <1>1, <2>3 DEF Rung
  <2> QED BY <2>1, <2>2, <2>3, <2>4
<1>4. P = Nat
  <2> HIDE DEF P
  <2>1. P \in SUBSET Nat
    BY DEF P
  <2> QED BY <1>2, <1>3, <2>1, NatInductionSet
<1> SUFFICES ASSUME NEW k \in m .. n PROVE tab[k] = tab[m] /\ dep[k] = dep[m]
  OBVIOUS
<1>5. k - m \in Nat /\ k = m + (k - m) /\ k <= n
  BY <1>1
<1> QED BY <1>4, <1>5

-----------------------------------------------------------------------------
(* SymbolTable::find. *)

IsFound(name, f, n) ==
  f = [t \in 0 .. n |-> IF t = Null THEN Null
                        ELSE IF name \in DOMAIN tables[t].entries THEN tables[t].entries[name]
                        ELSE f[tables[t].parent]]

LEMMA FoundExists ==
  ASSUME Containers, NEW name
  PROVE  \E f : IsFound(name, f, Len(tables))
<1> DEFINE P == {n \in Nat : n <= Len(tables) => \E f : IsFound(name, f, n)}
<1>1. 0 \in P
  <2>1. IsFound(name, [t \in 0 .. 0 |-> Null], 0)
    BY DEF IsFound, Null
  <2> QED BY <2>1
<1>2. ASSUME NEW n \in P PROVE n + 1 \in P
  <2>1. n \in Nat /\ (n <= Len(tables) => \E f : IsFound(name, f, n)) /\ Len(tables) \in Nat
    BY DEF Containers
  <2> SUFFICES ASSUME n + 1 <= Len(tables) PROVE \E f : IsFound(name, f, n + 1)
    BY <2>1
  <2>2. PICK f : IsFound(name, f, n)
    BY <2>1
  <2>3. \A t \in 1 .. n + 1 : tables[t].parent \in 0 .. n /\ (t # n + 1 => tables[t].parent \in 0 .. n)
    BY <2>1 DEF Containers
  <2> DEFINE x == IF name \in DOMAIN tables[n + 1].entries THEN tables[n + 1].entries[name]
                  ELSE f[tables[n + 1].parent]
             g == [t \in 0 .. n + 1 |-> IF t = n + 1 THEN x ELSE f[t]]
  <2>4. \A t \in 0 .. n : t \in 0 .. n + 1 /\ t # n + 1 /\ g[t] = f[t]
    BY <2>1
  <2>5. g[n + 1] = x /\ n + 1 # 0
    BY <2>1
  <2>6. \A t \in 0 .. n + 1 : t # Null => t \in 1 .. n + 1
    BY <2>1 DEF Null
  <2>7. \A t \in 0 .. n + 1 : t # n + 1 => t \in 0 .. n
    BY <2>1
  <2>8. ASSUME NEW t \in 0 .. n + 1
        PROVE  g[t] = IF t = Null THEN Null
                      ELSE IF name \in DOMAIN tables[t].entries THEN tables[t].entries[name]
                      ELSE g[tables[t].parent]
    <3>1. CASE t = n + 1
      <4>1. g[tables[n + 1].parent] = f[tables[n + 1].parent] /\ t # Null
        BY <2>3, <2>4, <2>5, <2>6, <3>1, <2>1 DEF Null
      <4> HIDE DEF g
      <4> QED BY <2>5, <3>1, <4>1
    <3>2. CASE t # n + 1
      <4>1. t \in 0 .. n
        BY <2>7, <3>2
      <4>2. f[t] = IF t = Null THEN Null
                   ELSE IF name \in DOMAIN tables[t].entries THEN tables[t].entries[name]
                   ELSE f[tables[t].parent]
        BY <2>2, <4>1 DEF IsFound
      <4>3. t # Null => g[tables[t].parent] = f[tables[t].parent]
        BY <2>3, <2>4, <2>6
      <4>4. g[t] = f[t]
        BY <2>4, <4>1
      <4> HIDE DEF g
      <4> QED BY <4>2, <4>3, <4>4
    <3> QED BY <3>1, <3>2
  <2>9. IsFound(name, g, n + 1)
    <3>1. g = [t \in 0 .. n + 1 |-> g[t]]
      OBVIOUS
    <3> HIDE DEF g
    <3> QED BY <2>8, <3>1 DEF IsFound
  <2> HIDE DEF g
  <2> QED BY <2>9
<1>3. P = Nat
  <2> HIDE DEF P
  <2>1. P \in SUBSET Nat
    BY DEF P
  <2> QED BY <1>1, <1>2, <2>1, NatInductionSet
<1> QED BY <1>3 DEF Containers

LEMMA FindSteps ==
  ASSUME Containers, NEW name
  PROVE  \A t \in 1 .. Len(tables) :
           Find(t, name) = IF name \in DOMAIN tables[t].entries THEN tables[t].entries[name]
                           ELSE Find(tables[t].parent, name)
<1> DEFINE f == CHOOSE f : IsFound(name, f, Len(tables))
<1>1. IsFound(name, f, Len(tables))
  BY FoundExists
<1>2. \A t : Find(t, name) = f[t]
  BY DEF Find, IsFound
<1>3. \A t \in 1 .. Len(tables) : t \in 0 .. Len(tables) /\ t # Null
  BY DEF Containers, Null
<1>4. \A t \in 0 .. Len(tables) :
        f[t] = IF t = Null THEN Null
               ELSE IF name \in DOMAIN tables[t].entries THEN tables[t].entries[name]
               ELSE f[tables[t].parent]
  <2> HIDE DEF f
  <2> QED BY <1>1 DEF IsFound
<1> HIDE DEF f
<1> QED BY <1>2, <1>3, <1>4

-----------------------------------------------------------------------------
(* What the symbol tables hold of the names of the program. *)

Known == Names \cup FunctionNames
PendingName == IF NoItem THEN "" ELSE Item.name

IsEntry(e) == e = [name |-> e.name, scope |-> e.scope, id |-> e.id, operand |-> e.operand]
IsItem(i) ==
  i = [kind |-> i.kind, name |-> i.name, id |-> i.id, nodes |-> i.nodes, defs |-> i.defs,
       scope |-> i.scope]

(* The entry e is that of the declaration d. *)
Stands(e, d) ==
  /\ e \in 1 .. Len(entries)
  /\ entries[e].id = d.id /\ entries[e].scope # "temp"
  /\ entries[e].scope = "function" <=> d.kind = "function"

(* A table holds what its scope declares, but for the name whose initial   *)
(* value is being read.                                                    *)
NamedAt(c, t, pending) ==
  \A name \in Known :
    /\ name \in DOMAIN tables[t].entries <=> name \in DOMAIN c.declared /\ name # pending
    /\ name \in DOMAIN tables[t].entries => Stands(tables[t].entries[name], c.declared[name])

ContextNamed(k, t) ==
  open[k].kind # "if" => NamedAt(open[k], t, IF k = Len(open) THEN PendingName ELSE "")
Named(tab) == \A k \in 1 .. Len(open) : ContextNamed(k, tab[k])

Declared(c) ==
  /\ DOMAIN c.declared \subseteq Known
  /\ c.kind = "if" => DOMAIN c.declared = {}
  /\ \A name \in DOMAIN c.declared :
       /\ c.declared[name].id \in 1 .. tokens - 1
       /\ c.declared[name].kind = IF name \in FunctionNames THEN "function" ELSE "variable"
       /\ name \in FunctionNames => c.kind = "global"

EntryFits(e) ==
  /\ IsEntry(entries[e]) /\ entries[e].id \in 0 .. tokens - 1
  /\ entries[e].scope \in {"global", "local", "param", "function", "temp"}
  /\ entries[e].id = Null <=> entries[e].scope = "temp"
EntriesFit ==
  /\ IsSeq(entries) /\ Len(entries) \in Nat
  /\ \A e \in 1 .. Len(entries) : EntryFits(e)
  /\ \A d, e \in 1 .. Len(entries) : entries[d].id = entries[e].id /\ entries[e].id # Null => d = e

ItemFits ==
  item # <<>> =>
    /\ phase = "parse" /\ item = <<Item>> /\ IsItem(Item)
    /\ Item.kind \in {"expression", "condition", "declaration"}
    /\ IsSeq(Item.nodes) /\ IsSeq(Item.defs)
    /\ Item.kind = "declaration" =>
         /\ Top.kind \in {"global", "block"}
         /\ Item.scope = IF currentFunction = Null THEN "global" ELSE "local"
    /\ Item.kind # "declaration" => Top.kind \in {"block", "if"} /\ Item.name = ""
    /\ Item.name = "" => Item.id = Null
    /\ Item.name # "" =>
         /\ Item.name \in Names /\ Item.name \in DOMAIN Top.declared
         /\ Top.declared[Item.name].id = Item.id
         /\ \A e \in 1 .. Len(entries) : entries[e].id # Item.id

(* A function and its parameters have entries in a row.                    *)
ParametersFit(f) ==
  /\ f.parameters \in ParameterLists
  /\ f.entry \in 1 .. Len(entries) /\ entries[f.entry].scope = "function"
  /\ \A k \in DOMAIN f.parameters :
       /\ f.entry + k \in 1 .. Len(entries)
       /\ entries[f.entry + k].scope = "param"
       /\ entries[f.entry + k].id = entries[f.entry].id + k
       /\ f.parameters[k] \in DOMAIN tables[f.table].entries
       /\ tables[f.table].entries[f.parameters[k]] = f.entry + k

Symbols ==
  /\ tokens \in Nat \ {0} /\ tempCounter \in Nat /\ tempCounter < tokens
  /\ phase # "parse" => Len(open) = 1 /\ NoItem
  /\ \A k \in 1 .. Len(open) : Declared(open[k])
  /\ EntriesFit /\ ItemFits
  /\ \A f \in 1 .. Len(functions) : ParametersFit(functions[f])

Held(tab, dep) == Placed(tab, dep) /\ Named(tab) /\ Symbols

(* No entry changes its declaration, and no table loses a name. *)
EntriesKept ==
  /\ Len(entries') \in Nat /\ Len(entries') >= Len(entries)
  /\ \A e \in 1 .. Len(entries) : entries'[e].id = entries[e].id /\ entries'[e].scope = entries[e].scope
NamesKept(t) ==
  \A name \in Known :
    /\ name \in DOMAIN tables'[t].entries <=> name \in DOMAIN tables[t].entries
    /\ name \in DOMAIN tables[t].entries => tables'[t].entries[name] = tables[t].entries[name]
NamesStay ==
  \A t \in 1 .. Len(tables) : \A name \in Known :
    name \in DOMAIN tables[t].entries =>
      /\ name \in DOMAIN tables'[t].entries
      /\ tables'[t].entries[name] = tables[t].entries[name]

(* What every step does. *)
StillHeld ==
  /\ Symbols' /\ EntriesKept /\ NamesStay
  /\ \E tab2, dep2 : (Placed(tab2, dep2) /\ Named(tab2))'

LEMMA NamedAtKept ==
  ASSUME NEW c, NEW c2, NEW t, NEW pending, NamedAt(c, t, pending), c2.declared = c.declared,
         NamesKept(t), EntriesKept, Len(entries) \in Nat
  PROVE  NamedAt(c2, t, pending)'
<1> SUFFICES ASSUME NEW name \in Known
             PROVE  /\ name \in DOMAIN tables'[t].entries <=> name \in DOMAIN c2.declared /\ name # pending
                    /\ name \in DOMAIN tables'[t].entries =>
                         Stands(tables[t].entries[name], c2.declared[name])'
  BY DEF NamedAt
<1>1. ASSUME name \in DOMAIN tables'[t].entries
      PROVE  Stands(tables[t].entries[name], c2.declared[name])'
  <2>1. tables'[t].entries[name] = tables[t].entries[name] /\ Stands(tables[t].entries[name], c.declared[name])
    BY <1>1 DEF NamesKept, NamedAt
  <2> QED BY <2>1 DEF Stands, EntriesKept
<1> QED BY <1>1 DEF NamedAt, NamesKept

LEMMA NamedAfter ==
  ASSUME NEW tab, NEW m, Moves(tab, m),
         \A k \in 1 .. Len(open') : \/ k \in 1 .. m /\ ContextNamed(k, tab[k])'
                                    \/ k = Len(open') /\ ContextNamed(k, currentTable)'
  PROVE  \E tab2, dep2 : (Placed(tab2, dep2) /\ Named(tab2))'
<1>1. PICK tab2, dep2 : Placed(tab2, dep2)' /\ \A k \in 1 .. m : tab2[k] = tab[k]
  BY DEF Moves
<1>2. currentTable' = tab2[Len(open')]
  BY <1>1 DEF Placed, Standing
<1>3. ASSUME NEW k \in 1 .. Len(open') PROVE ContextNamed(k, tab2[k])'
  <2>1. CASE k \in 1 .. m /\ ContextNamed(k, tab[k])'
    <3>1. tab2[k] = tab[k]
      BY <1>1, <2>1
    <3> QED BY <2>1, <3>1
  <2>2. CASE k = Len(open') /\ ContextNamed(k, currentTable)'
    <3>1. tab2[k] = currentTable'
      BY <1>2, <2>2
    <3> QED BY <2>2, <3>1 DEF ContextNamed
  <2> QED BY <2>1, <2>2
<1> QED BY <1>1, <1>3 DEF Named

(* A step that leaves the contexts and their names as they are.            *)
LEMMA StayingNamed ==
  ASSUME NEW tab, NEW dep, Placed(tab, dep), Named(tab), Len(entries) \in Nat,
         SamePlaces, SameContexts, UNCHANGED driver,
         \A k \in 1 .. Len(open) : open'[k].declared = open[k].declared,
         PendingName' = PendingName, EntriesKept, \A t \in 1 .. Len(tables) : NamesKept(t)
  PROVE  \E tab2, dep2 : (Placed(tab2, dep2) /\ Named(tab2))'
<1>1. Moves(tab, Len(open)) /\ Len(open') = Len(open)
  BY StayingPlaced DEF SameContexts
<1>2. ASSUME NEW k \in 1 .. Len(open) PROVE ContextNamed(k, tab[k])'
  <2>1. ContextNamed(k, tab[k]) /\ open'[k].kind = open[k].kind /\ tab[k] \in 1 .. Len(tables)
    BY DEF Named, SameContexts, Placed, Ladder
  <2> SUFFICES ASSUME open[k].kind # "if"
               PROVE  NamedAt(open[k], tab[k], IF k = Len(open) THEN PendingName ELSE "")'
    BY <2>1 DEF ContextNamed
  <2>2. PICK c, c2, p : /\ c = open[k] /\ c2 = open'[k]
                       /\ p = IF k = Len(open) THEN PendingName ELSE ""
    OBVIOUS
  <2>3. NamedAt(c, tab[k], p)
    BY <2>1, <2>2 DEF ContextNamed
  <2>4. NamedAt(c2, tab[k], p)'
    BY <2>1, <2>2, <2>3, NamedAtKept
  <2>5. p = IF k = Len(open') THEN PendingName' ELSE ""
    BY <1>1, <2>2
  <2> QED BY <2>2, <2>4, <2>5
<1> QED BY <1>1, <1>2, NamedAfter

EntriesSame ==
  /\ IsSeq(entries') /\ Len(entries') = Len(entries)
  /\ \A e \in 1 .. Len(entries) : /\ IsEntry(entries'[e])
                                  /\ entries'[e].id = entries[e].id
                                  /\ entries'[e].scope = entries[e].scope

LEMMA SameEntriesFit ==
  ASSUME EntriesFit, EntriesSame, tokens \in Nat, tokens' \in Nat, tokens' >= tokens
  PROVE  EntriesFit' /\ EntriesKept
<1>1. Len(entries) \in Nat /\ EntriesKept
  BY DEF EntriesFit, EntriesSame, EntriesKept
<1>2. ASSUME NEW e \in 1 .. Len(entries) PROVE EntryFits(e)'
  BY DEF EntriesFit, EntriesSame, EntryFits
<1> QED BY <1>1, <1>2 DEF EntriesFit, EntriesSame

LEMMA UnchangedEntriesFit ==
  ASSUME EntriesFit, UNCHANGED entries, tokens \in Nat, tokens' \in Nat, tokens' >= tokens
  PROVE  EntriesFit' /\ EntriesKept
<1>1. EntriesSame
  BY DEF EntriesFit, EntryFits, EntriesSame
<1> QED BY <1>1, SameEntriesFit

LEMMA NewEntryFits ==
  ASSUME EntriesFit, tokens \in Nat, tokens' \in Nat, tokens' >= tokens,
         NEW name, NEW scope \in {"global", "local", "param", "function", "temp"},
         NEW id \in 0 .. tokens' - 1,
         id = Null <=> scope = "temp", id # Null => \A e \in 1 .. Len(entries) : entries[e].id # id,
         entries' = Append(entries, Entry(name, scope, id))
  PROVE  /\ EntriesFit' /\ EntriesKept /\ Len(entries') = Len(entries) + 1
         /\ entries'[Len(entries) + 1] = Entry(name, scope, id)
<1>1. /\ IsSeq(entries') /\ Len(entries) \in Nat /\ Len(entries') = Len(entries) + 1
      /\ \A e \in 1 .. Len(entries) : entries'[e] = entries[e]
      /\ entries'[Len(entries) + 1] = Entry(name, scope, id)
  BY AppendFacts DEF EntriesFit
<1>2. EntriesKept
  BY <1>1 DEF EntriesKept
<1>3. \A e \in 1 .. Len(entries') : e \in 1 .. Len(entries) \/ e = Len(entries) + 1
  BY <1>1
<1>4. ASSUME NEW e \in 1 .. Len(entries') PROVE EntryFits(e)'
  <2>1. CASE e \in 1 .. Len(entries)
    <3>1. EntryFits(e) /\ entries'[e] = entries[e]
      BY <1>1, <2>1 DEF EntriesFit
    <3> QED BY <3>1 DEF EntryFits
  <2>2. CASE e = Len(entries) + 1
    <3>1. entries'[e] = Entry(name, scope, id)
      BY <1>1, <2>2
    <3> QED BY <3>1 DEF EntryFits, Entry, IsEntry
  <2> QED BY <1>3, <2>1, <2>2
<1>5. ASSUME NEW d \in 1 .. Len(entries'), NEW e \in 1 .. Len(entries'),
             entries'[d].id = entries'[e].id, entries'[e].id # Null
      PROVE  d = e
  <2>1. entries'[Len(entries) + 1].id = id
    BY <1>1 DEF Entry
  <2>2. \A c \in 1 .. Len(entries) : entries'[c].id = entries[c].id
    BY <1>1
  <2>3. CASE d \in 1 .. Len(entries) /\ e \in 1 .. Len(entries)
    BY <1>5, <2>2, <2>3 DEF EntriesFit
  <2>4. CASE ~(d \in 1 .. Len(entries) /\ e \in 1 .. Len(entries))
    BY <1>3, <1>5, <2>1, <2>2, <2>4
  <2> QED BY <2>3, <2>4
<1> QED BY <1>1, <1>2, <1>4, <1>5 DEF EntriesFit

LEMMA ParametersKept ==
  ASSUME EntriesKept, NamesStay, Len(entries) \in Nat,
         NEW f, ParametersFit(f), f.table \in 1 .. Len(tables)
  PROVE  ParametersFit(f)'
<1>1. f.parameters \in Seq(Names)
  BY ScopesAssumption DEF ParametersFit
<1>2. \A k \in DOMAIN f.parameters : f.parameters[k] \in Known
  BY <1>1 DEF Known
<1>3. \A e \in 1 .. Len(entries) : e \in 1 .. Len(entries')
  BY DEF EntriesKept
<1>4. /\ f.parameters \in ParameterLists
      /\ f.entry \in 1 .. Len(entries') /\ entries'[f.entry].scope = "function"
      /\ entries'[f.entry].id = entries[f.entry].id
  BY <1>3 DEF ParametersFit, EntriesKept
<1>5. ASSUME NEW k \in DOMAIN f.parameters
      PROVE  /\ f.entry + k \in 1 .. Len(entries')
             /\ entries'[f.entry + k].scope = "param"
             /\ entries'[f.entry + k].id = entries'[f.entry].id + k
             /\ f.parameters[k] \in DOMAIN tables'[f.table].entries
             /\ tables'[f.table].entries[f.parameters[k]] = f.entry + k
  <2>1. /\ f.entry + k \in 1 .. Len(entries)
        /\ entries[f.entry + k].scope = "param"
        /\ entries[f.entry + k].id = entries[f.entry].id + k
        /\ f.parameters[k] \in DOMAIN tables[f.table].entries
        /\ tables[f.table].entries[f.parameters[k]] = f.entry + k
    BY DEF ParametersFit
  <2> QED BY <1>2, <1>3, <1>4, <2>1 DEF EntriesKept, NamesStay
<1> QED BY <1>4, <1>5 DEF ParametersFit

LEMMA FunctionsKept ==
  ASSUME EntriesKept, NamesStay, Len(entries) \in Nat, Containers,
         \A f \in 1 .. Len(functions) : ParametersFit(functions[f]), UNCHANGED functions
  PROVE  \A f \in 1 .. Len(functions') : ParametersFit(functions[f])'
<1> SUFFICES ASSUME NEW f \in 1 .. Len(functions) PROVE ParametersFit(functions[f])'
  OBVIOUS
<1>1. PICK g : g = functions[f]
  OBVIOUS
<1>2. ParametersFit(g) /\ g.table \in 1 .. Len(tables)
  BY <1>1 DEF Containers
<1>3. ParametersFit(g)'
  BY <1>2, ParametersKept
<1> QED BY <1>1, <1>3

LEMMA SameNames == ASSUME UNCHANGED tables PROVE NamesStay /\ \A t \in 1 .. Len(tables) : NamesKept(t)
BY DEF NamesStay, NamesKept

(* A step that only writes, and may give a result an entry. *)
LEMMA ReadingHeld ==
  ASSUME NEW tab, NEW dep, Held(tab, dep), Writes(1),
         UNCHANGED <<open, driver, tree, phase>>, SamePlaces,
         tempCounter' \in {tempCounter, tempCounter + 1},
         EntriesFit', EntriesKept, \A t \in 1 .. Len(tables) : NamesKept(t),
         ItemFits', PendingName' = PendingName
  PROVE  StillHeld
<1>1. NamesStay
  BY DEF NamesKept, NamesStay
<1>2. SameContexts /\ Len(entries) \in Nat
  BY DEF Held, Placed, Shape, SameContexts, Symbols, EntriesFit
<1>3. \E tab2, dep2 : (Placed(tab2, dep2) /\ Named(tab2))'
  BY <1>2, StayingNamed DEF Held
<1>4. \A f \in 1 .. Len(functions') : ParametersFit(functions[f])'
  BY <1>1, <1>2, FunctionsKept DEF Held, Placed, Symbols, tree
<1>5. \A k \in 1 .. Len(open') : Declared(open[k])'
  BY DEF Held, Symbols, Declared, Writes
<1>6. tokens' \in Nat \ {0} /\ tempCounter' \in Nat /\ tempCounter' < tokens'
  BY DEF Held, Symbols, Writes
<1>7. phase' = "parse"
  BY DEF Writes
<1> QED BY <1>1, <1>3, <1>4, <1>5, <1>6, <1>7 DEF StillHeld, Symbols

LEMMA InsertedNames ==
  ASSUME Containers, NEW t \in 1 .. Len(tables), NEW name, NEW e, tables' = Inserted(t, name, e)
  PROVE  /\ \A u \in 1 .. Len(tables) : u # t \/ name \notin Known => NamesKept(u)
         /\ \A other \in DOMAIN tables[t].entries : other # name =>
              other \in DOMAIN tables'[t].entries /\ tables'[t].entries[other] = tables[t].entries[other]
         /\ DOMAIN tables'[t].entries = DOMAIN tables[t].entries \cup {name}
         /\ tables'[t].entries[name] = e
<1>1. WithEntry(tables, t, name, e, tables')
  BY InsertedFacts
<1>2. /\ \A u \in 1 .. Len(tables) : u # t => tables'[u] = tables[u]
      /\ tables'[t].entries = With(tables[t].entries, name, e)
  BY <1>1 DEF WithEntry
<1>3. /\ DOMAIN tables'[t].entries = DOMAIN tables[t].entries \cup {name}
      /\ tables'[t].entries[name] = e
      /\ \A other \in DOMAIN tables[t].entries : other # name =>
           tables'[t].entries[other] = tables[t].entries[other]
  BY <1>2 DEF With
<1>4. ASSUME NEW u \in 1 .. Len(tables), u # t \/ name \notin Known PROVE NamesKept(u)
  <2>1. CASE u # t
    BY <1>2, <2>1 DEF NamesKept
  <2>2. CASE u = t
    BY <1>3, <1>4, <2>2 DEF NamesKept
  <2> QED BY <2>1, <2>2
<1> QED BY <1>3, <1>4

LEMMA TempEntryFacts ==
  ASSUME NEW tab, NEW dep, Held(tab, dep), Writes(1), TempEntry, UNCHANGED tree
  PROVE  /\ SamePlaces /\ EntriesFit' /\ EntriesKept /\ \A t \in 1 .. Len(tables) : NamesKept(t)
         /\ tempCounter' \in {tempCounter, tempCounter + 1}
         /\ Len(entries) \in Nat /\ Len(entries') = Len(entries) + 1
         /\ entries'[Len(entries) + 1].id = Null /\ entries'[Len(entries) + 1].scope = "temp"
<1>1. TempName(tempCounter) \notin Known
  <2>1. tempCounter \in Nat /\ tokens \in Nat /\ tempCounter < tokens /\ tokens <= MaxTokens - 1
    BY DEF Held, Symbols, Writes
  <2>2. MaxTokens \in Nat
    BY ScopesAssumption
  <2>3. tempCounter \in 0 .. MaxTokens
    BY <2>1, <2>2
  <2> QED BY <2>3, ScopesAssumption DEF Known
<1>2. Containers /\ currentTable \in 1 .. Len(tables)
  BY DEF Held, Placed, Standing, Ladder, Shape
<1>3. tables' = Inserted(currentTable, TempName(tempCounter), Len(entries) + 1)
  BY DEF TempEntry
<1>4. SamePlaces
  BY <1>2, <1>3, InsertedSamePlaces DEF tree
<1>5. \A t \in 1 .. Len(tables) : NamesKept(t)
  BY <1>1, <1>2, <1>3, InsertedNames
<1>6. /\ tokens \in Nat /\ tokens' \in Nat /\ tokens' >= tokens /\ EntriesFit /\ Len(entries) \in Nat
      /\ Null \in 0 .. tokens' - 1
  BY DEF Held, Symbols, Writes, EntriesFit, Null
<1>7. entries' = Append(entries, Entry(TempName(tempCounter), "temp", Null))
  BY DEF TempEntry
<1>8. /\ EntriesFit' /\ EntriesKept /\ Len(entries') = Len(entries) + 1
      /\ entries'[Len(entries) + 1] = Entry(TempName(tempCounter), "temp", Null)
  BY <1>6, <1>7, NewEntryFits
<1> QED BY <1>4, <1>5, <1>6, <1>8 DEF TempEntry, Entry

(* The item after one more node. *)
LEMMA ExtendedFits ==
  ASSUME NEW tab, NEW dep, Held(tab, dep), phase = "parse",
         UNCHANGED <<open, currentFunction, phase>>, NEW node, Extended(node),
         NoItem => Top.kind \in {"block", "if"},
         Len(entries) \in Nat, Len(entries') \in Nat,
         \A e \in 1 .. Len(entries') : \/ e \in 1 .. Len(entries) /\ entries'[e].id = entries[e].id
                                       \/ entries'[e].id = Null
  PROVE  ItemFits' /\ PendingName' = PendingName
<1> DEFINE i == IF NoItem THEN Started("expression") ELSE Item
           j == [i EXCEPT !.nodes = Append(@, node)]
<1>1. item' = <<j>>
  BY DEF Extended
<1>2. IsItem(i) /\ IsSeq(i.nodes) /\ IsSeq(i.defs)
  BY NothingIsSeq DEF Started, IsItem, Held, Symbols, ItemFits, NoItem
<1>3. /\ j = [kind |-> i.kind, name |-> i.name, id |-> i.id, nodes |-> Append(i.nodes, node),
              defs |-> i.defs, scope |-> i.scope]
      /\ IsSeq(Append(i.nodes, node))
  <2> HIDE DEF i
  <2> QED BY <1>2, AppendFacts DEF IsItem
<1>4. /\ i.kind \in {"expression", "condition", "declaration"}
      /\ i.kind = "declaration" =>
           /\ Top.kind \in {"global", "block"}
           /\ i.scope = IF currentFunction = Null THEN "global" ELSE "local"
      /\ i.kind # "declaration" => Top.kind \in {"block", "if"} /\ i.name = ""
      /\ i.name = "" => i.id = Null
  BY DEF Started, Held, Symbols, ItemFits, NoItem, Null
<1>5. i.name # "" =>
         /\ i.name \in Names /\ i.name \in DOMAIN Top.declared
         /\ Top.declared[i.name].id = i.id
         /\ \A e \in 1 .. Len(entries) : entries[e].id # i.id
  BY DEF Started, Held, Symbols, ItemFits, NoItem
<1>6. i.name # "" => i.id # Null
  <2>1. DOMAIN open = 1 .. Len(open) /\ Len(open) \in Nat \ {0}
    BY SameLength DEF Held, Placed, Shape
  <2>2. Len(open) \in 1 .. Len(open) /\ Top = open[Len(open)]
    BY <2>1 DEF Top, Last
  <2>3. Declared(Top) /\ tokens \in Nat
    BY <2>2 DEF Held, Symbols
  <2> HIDE DEF i
  <2>4. i.name # "" => i.id \in 1 .. tokens - 1
    BY <1>5, <2>3 DEF Declared
  <2>5. \A x \in 1 .. tokens - 1 : x # Null
    BY <2>3 DEF Null
  <2> QED BY <2>4, <2>5
<1>7. i.name = PendingName
  BY DEF PendingName, Started
<1> HIDE DEF i
<1>8. Item' = j /\ item' # <<>>
  BY <1>1 DEF Item
<1>9. PendingName' = PendingName
  BY <1>3, <1>7, <1>8 DEF PendingName, NoItem
<1>10. IsItem(j) /\ j.kind = i.kind /\ j.name = i.name /\ j.id = i.id /\ j.scope = i.scope
       /\ IsSeq(j.nodes) /\ IsSeq(j.defs)
  BY <1>2, <1>3 DEF IsItem
<1>11. i.name # "" => \A e \in 1 .. Len(entries') : entries'[e].id # i.id
  BY <1>5, <1>6
<1>12. Top' = Top
  BY DEF Top
<1> HIDE DEF j
<1>13. ItemFits'
  BY <1>1, <1>4, <1>5, <1>8, <1>10, <1>11, <1>12 DEF ItemFits
<1> QED BY <1>9, <1>13

-----------------------------------------------------------------------------
(* One lemma for each operation. *)

LEMMA HeldFacts ==
  ASSUME NEW tab, NEW dep, Held(tab, dep)
  PROVE  /\ Len(open) \in Nat \ {0} /\ DOMAIN open = 1 .. Len(open) /\ Top = open[Len(open)]
         /\ Len(open) \in 1 .. Len(open) /\ currentTable = tab[Len(open)]
         /\ Shape(open) /\ Containers /\ IsSeq(open) /\ tokens \in Nat \ {0} /\ EntriesFit
         /\ currentTable \in 1 .. Len(tables) /\ Len(tables) \in Nat \ {0}
         /\ Len(entries) \in Nat /\ IsSeq(entries)
         /\ ContextNamed(Len(open), currentTable) /\ Declared(Top)
<1>1. IsSeq(open) /\ Len(open) \in Nat \ {0} /\ Shape(open) /\ Containers
  BY DEF Held, Placed, Shape
<1>2. DOMAIN open = 1 .. Len(open)
  BY <1>1, SameLength
<1>3. Top = open[Len(open)] /\ Len(open) \in 1 .. Len(open)
  BY <1>1 DEF Top, Last
<1>4. currentTable = tab[Len(open)] /\ currentTable \in 1 .. Len(tables)
  BY <1>3 DEF Held, Placed, Standing, Ladder
<1>5. ContextNamed(Len(open), currentTable)
  BY <1>3, <1>4 DEF Held, Named
<1>6. tokens \in Nat \ {0} /\ EntriesFit /\ Declared(Top)
  BY <1>3 DEF Held, Symbols
<1>7. Len(tables) \in Nat \ {0} /\ Len(entries) \in Nat /\ IsSeq(entries)
  BY <1>1, <1>6 DEF Containers, EntriesFit
<1> QED BY <1>1, <1>2, <1>3, <1>4, <1>5, <1>6, <1>7

LEMMA UnchangedPlaces ==
  ASSUME Containers, UNCHANGED <<tables, blocks, functions>> PROVE SamePlaces
BY DEF Containers, SamePlaces

LEMMA OperandHeld ==
  ASSUME NEW tab, NEW dep, Held(tab, dep), Operand PROVE StillHeld
<1>1. /\ Writes(1) /\ CanRead /\ phase = "parse" /\ tokens' = tokens + 1
      /\ UNCHANGED <<open, tables, entries, driver, tree, tempCounter, phase, currentFunction>>
  BY DEF Operand, Writes, driver
<1>2. PICK node : Extended(node)
  BY DEF Operand
<1>3. EntriesFit' /\ EntriesKept
  BY <1>1, HeldFacts, UnchangedEntriesFit
<1>4. ItemFits' /\ PendingName' = PendingName
  BY <1>1, <1>2, HeldFacts, ExtendedFits DEF CanRead
<1>5. SamePlaces /\ \A t \in 1 .. Len(tables) : NamesKept(t)
  BY <1>1, HeldFacts, UnchangedPlaces, SameNames DEF tree
<1> QED BY <1>1, <1>3, <1>4, <1>5, ReadingHeld

LEMMA InvokeHeld ==
  ASSUME NEW tab, NEW dep, Held(tab, dep), Invoke PROVE StillHeld
<1>1. /\ Writes(1) /\ CanRead /\ phase = "parse" /\ TempEntry
      /\ UNCHANGED <<open, driver, tree, phase, currentFunction>>
  BY DEF Invoke, Writes, driver
<1>2. PICK node : Extended(node)
  BY DEF Invoke
<1>3. /\ SamePlaces /\ EntriesFit' /\ EntriesKept /\ \A t \in 1 .. Len(tables) : NamesKept(t)
      /\ tempCounter' \in {tempCounter, tempCounter + 1}
      /\ Len(entries) \in Nat /\ Len(entries') = Len(entries) + 1
      /\ entries'[Len(entries) + 1].id = Null
  BY <1>1, TempEntryFacts
<1>4. Len(entries') \in Nat /\ \A e \in 1 .. Len(entries') : \/ e \in 1 .. Len(entries) /\ entries'[e].id = entries[e].id
                                       \/ entries'[e].id = Null
  <2>1. \A e \in 1 .. Len(entries') : e \in 1 .. Len(entries) \/ e = Len(entries) + 1
    BY <1>3
  <2> QED BY <1>3, <2>1 DEF EntriesKept
<1>5. ItemFits' /\ PendingName' = PendingName
  BY <1>1, <1>2, <1>3, <1>4, ExtendedFits DEF CanRead
<1> QED BY <1>1, <1>3, <1>5, ReadingHeld

LEMMA OperatorHeld ==
  ASSUME NEW tab, NEW dep, Held(tab, dep), Operator PROVE StillHeld
<1>1. /\ Writes(1) /\ phase = "parse" /\ TempEntry /\ item # <<>>
      /\ UNCHANGED <<open, driver, tree, phase, currentFunction>>
  BY DEF Operator, Writes, driver, NoItem
<1>3. /\ SamePlaces /\ EntriesFit' /\ EntriesKept /\ \A t \in 1 .. Len(tables) : NamesKept(t)
      /\ tempCounter' \in {tempCounter, tempCounter + 1}
      /\ Len(entries) \in Nat /\ Len(entries') = Len(entries) + 1
      /\ entries'[Len(entries) + 1].id = Null
  BY <1>1, TempEntryFacts
<1>4. Len(entries') \in Nat /\ \A e \in 1 .. Len(entries') : \/ e \in 1 .. Len(entries) /\ entries'[e].id = entries[e].id
                                       \/ entries'[e].id = Null
  <2>1. \A e \in 1 .. Len(entries') : e \in 1 .. Len(entries) \/ e = Len(entries) + 1
    BY <1>3
  <2> QED BY <1>3, <2>1 DEF EntriesKept
<1>5. ItemFits' /\ PendingName' = PendingName
  <2>1. CASE currentFunction # Null
    <3>1. PICK node : Extended(node)
      BY <2>1 DEF Operator
    <3> QED BY <1>1, <1>3, <1>4, <3>1, ExtendedFits DEF NoItem
  <2>2. CASE currentFunction = Null
    <3>1. UNCHANGED item
      BY <2>2 DEF Operator
    <3>2. Top' = Top /\ Item' = Item /\ ItemFits
      BY <1>1, <3>1 DEF Top, Item, Held, Symbols
    <3>3. Item.name # "" => Item.id # Null
      <4>1. Declared(Top) /\ tokens \in Nat
        BY HeldFacts
      <4>2. Item.name # "" => Item.id \in 1 .. tokens - 1
        BY <1>1, <3>2, <4>1 DEF ItemFits, Declared
      <4>3. \A x \in 1 .. tokens - 1 : x # Null
        BY <4>1 DEF Null
      <4> QED BY <4>2, <4>3
    <3>4. Item.name # "" => \A e \in 1 .. Len(entries') : entries'[e].id # Item.id
      BY <1>1, <1>4, <3>2, <3>3 DEF ItemFits
    <3> QED BY <1>1, <3>1, <3>2, <3>4 DEF ItemFits, PendingName, NoItem
  <2> QED BY <2>1, <2>2
<1> QED BY <1>1, <1>3, <1>5, ReadingHeld

LEMMA IfHeld ==
  ASSUME NEW tab, NEW dep, Held(tab, dep), If PROVE StillHeld
<1>1. /\ Writes(1) /\ NoItem /\ Top.kind \in {"block", "if"} /\ phase = "parse" /\ tokens' = tokens + 1
      /\ item' = <<Started("condition")>>
      /\ UNCHANGED <<open, tables, entries, driver, tree, tempCounter, phase, currentFunction>>
  BY DEF If, Writes, driver
<1>2. Top' = Top /\ Item' = Started("condition") /\ item' # <<>>
  BY <1>1 DEF Top, Item
<1>3. ItemFits' /\ PendingName' = PendingName
  BY <1>1, <1>2, NothingIsSeq DEF ItemFits, Started, IsItem, PendingName, NoItem
<1>4. EntriesFit' /\ EntriesKept
  BY <1>1, HeldFacts, UnchangedEntriesFit
<1>5. SamePlaces /\ \A t \in 1 .. Len(tables) : NamesKept(t)
  BY <1>1, HeldFacts, UnchangedPlaces, SameNames DEF tree
<1> QED BY <1>1, <1>3, <1>4, <1>5, ReadingHeld

(* Steps that change nothing of this: irgen's, and the end of the text.    *)
LEMMA QuietHeld ==
  ASSUME NEW tab, NEW dep, Held(tab, dep), EntriesSame,
         UNCHANGED <<text, item, tables, driver, tree, tempCounter>>,
         phase' = phase \/ (Len(open) = 1 /\ NoItem)
  PROVE  StillHeld
<1>1. UNCHANGED <<tokens, open, item, tables, blocks, functions, currentFunction, tempCounter, driver>>
  BY DEF text, driver, tree
<1>2. /\ Len(entries) \in Nat /\ Containers /\ EntriesFit' /\ EntriesKept
      /\ \A f \in 1 .. Len(functions) : ParametersFit(functions[f])
  BY <1>1, HeldFacts, SameEntriesFit DEF Held, Symbols
<1>3. NamesStay /\ SamePlaces /\ \A t \in 1 .. Len(tables) : NamesKept(t)
  BY <1>1, <1>2, SameNames, UnchangedPlaces
<1>4. SameContexts
  BY <1>1 DEF Held, Placed, Shape, SameContexts
<1>5. PendingName' = PendingName /\ Top' = Top /\ Item' = Item
  BY <1>1 DEF PendingName, Top, Item, NoItem
<1>6. \E tab2, dep2 : (Placed(tab2, dep2) /\ Named(tab2))'
  BY <1>1, <1>2, <1>3, <1>4, <1>5, StayingNamed DEF Held
<1>7. \A f \in 1 .. Len(functions') : ParametersFit(functions[f])'
  BY <1>1, <1>2, <1>3, FunctionsKept
<1>8. \A k \in 1 .. Len(open') : Declared(open[k])'
  BY <1>1 DEF Held, Symbols, Declared
<1>9. ItemFits'
  BY <1>1, <1>2, <1>5 DEF Held, Symbols, ItemFits, NoItem, EntriesSame
<1>10. phase' # "parse" => Len(open') = 1 /\ NoItem'
  BY <1>1 DEF Held, Symbols, NoItem
<1>11. tokens' \in Nat \ {0} /\ tempCounter' \in Nat /\ tempCounter' < tokens'
  BY <1>1 DEF Held, Symbols
<1> QED BY <1>2, <1>3, <1>6, <1>7, <1>8, <1>9, <1>10, <1>11 DEF StillHeld, Symbols

LEMMA EntriesStaySame ==
  ASSUME EntriesFit, UNCHANGED entries PROVE EntriesSame
BY DEF EntriesFit, EntryFits, EntriesSame

LEMMA PlacesSame ==
  ASSUME EntriesFit, NEW e, NEW p, Places(e, p) PROVE EntriesSame
<1> DEFINE after == [entries EXCEPT ![e].operand = p]
<1>1. entries' = after /\ IsSeq(entries) /\ \A d \in 1 .. Len(entries) : IsEntry(entries[d])
  BY DEF Places, EntriesFit, EntryFits
<1>2. DOMAIN entries = 1 .. Len(entries)
  BY <1>1, SameLength
<1>3. after = [d \in DOMAIN entries |-> after[d]]
  OBVIOUS
<1>4. \A d \in 1 .. Len(entries) : d # e => after[d] = entries[d]
  BY <1>2
<1>5. e \in 1 .. Len(entries) => after[e] = [entries[e] EXCEPT !.operand = p]
  BY <1>2
<1> HIDE DEF after
<1>6. IsSeq(after) /\ Len(after) = Len(entries)
  BY <1>1, <1>3, SameLength
<1>7. ASSUME NEW d \in 1 .. Len(entries)
      PROVE  IsEntry(after[d]) /\ after[d].id = entries[d].id /\ after[d].scope = entries[d].scope
  <2>1. PICK x : x = entries[d] /\ IsEntry(x)
    BY <1>1
  <2>2. after[d] = x \/ after[d] = [x EXCEPT !.operand = p]
    BY <1>4, <1>5, <2>1
  <2>3. [x EXCEPT !.operand = p] = [name |-> x.name, scope |-> x.scope, id |-> x.id, operand |-> p]
    BY <2>1 DEF IsEntry
  <2> QED BY <2>1, <2>2, <2>3 DEF IsEntry
<1> QED BY <1>1, <1>6, <1>7 DEF EntriesSame

LEMMA GenerateHeld ==
  ASSUME NEW tab, NEW dep, Held(tab, dep),
         \/ EndOfText \/ Rest \/ EndOfWork
         \/ GenFunction \/ GenBlock \/ GenIf \/ GenExpression \/ GenDeclaration
         \/ GenBinary \/ GenIdentifier \/ GenCall
  PROVE  StillHeld
<1>1. EntriesFit
  BY HeldFacts
<1>2. \A kind : Doing(kind) => Len(open) = 1 /\ NoItem
  BY DEF Doing, Held, Symbols
<1>3. CASE EndOfText
  BY <1>1, <1>3, EntriesStaySame, QuietHeld DEF EndOfText
<1>4. CASE Rest
  <2>1. /\ UNCHANGED <<text, item, tables, driver, tree, tempCounter>> /\ UNCHANGED entries
        /\ phase' = phase
    BY <1>4 DEF Rest, vars
  <2> QED BY <1>1, <2>1, EntriesStaySame, QuietHeld
<1>5. CASE EndOfWork
  <2>1. Len(open) = 1 /\ NoItem
    BY <1>5 DEF EndOfWork, Held, Symbols
  <2> QED BY <1>1, <1>5, <2>1, EntriesStaySame, QuietHeld DEF EndOfWork, UnchangedParse
<1>6. CASE GenFunction
  <2>1. PICK x : /\ entries' = [e \in DOMAIN entries |-> IF e \notin DOMAIN x THEN entries[e]
                                                        ELSE [entries[e] EXCEPT !.operand = x[e]]]
    <3> DEFINE f == functions[Task.item.function]
               found == [k \in DOMAIN f.parameters |-> Find(f.table, f.parameters[k])]
               x == [e \in ToSet(found) |-> place + CHOOSE k \in DOMAIN found : found[k] = e]
    <3>1. entries' = [e \in DOMAIN entries |->
              IF e \notin ToSet(found) THEN entries[e]
              ELSE [entries[e] EXCEPT !.operand = place + CHOOSE k \in DOMAIN found : found[k] = e]]
      BY <1>6 DEF GenFunction
    <3> HIDE DEF found
    <3>2. entries' = [e \in DOMAIN entries |-> IF e \notin DOMAIN x THEN entries[e]
                                              ELSE [entries[e] EXCEPT !.operand = x[e]]]
      BY <3>1
    <3> HIDE DEF x
    <3> QED BY <3>2
  <2>2. IsSeq(entries) /\ DOMAIN entries = 1 .. Len(entries) /\ \A d \in 1 .. Len(entries) : IsEntry(entries[d])
    BY <1>1, SameLength DEF EntriesFit, EntryFits
  <2>3. IsSeq(entries') /\ Len(entries') = Len(entries)
    <3>1. entries' = [e \in DOMAIN entries |-> entries'[e]]
      BY <2>1
    <3> QED BY <2>2, <3>1, SameLength
  <2>4. ASSUME NEW d \in 1 .. Len(entries)
        PROVE  IsEntry(entries'[d]) /\ entries'[d].id = entries[d].id /\ entries'[d].scope = entries[d].scope
    <3>1. PICK y : y = entries[d] /\ IsEntry(y)
      BY <2>2
    <3>2. entries'[d] = y \/ \E p : entries'[d] = [y EXCEPT !.operand = p]
      BY <2>1, <2>2, <3>1
    <3>3. \A p : [y EXCEPT !.operand = p] = [name |-> y.name, scope |-> y.scope, id |-> y.id, operand |-> p]
      BY <3>1 DEF IsEntry
    <3> QED BY <3>1, <3>2, <3>3 DEF IsEntry
  <2>5. EntriesSame
    BY <2>3, <2>4 DEF EntriesSame
  <2>6. UNCHANGED <<text, item, tables, driver, tree, tempCounter>> /\ phase' = phase
    BY <1>6 DEF GenFunction, UnchangedParse
  <2> QED BY <2>5, <2>6, QuietHeld
<1>7. CASE GenBlock
  BY <1>1, <1>2, <1>7, EntriesStaySame, QuietHeld DEF GenBlock, UnchangedParse
<1>8. CASE GenIf
  BY <1>1, <1>2, <1>8, EntriesStaySame, QuietHeld DEF GenIf, UnchangedParse
<1>9. CASE GenExpression
  BY <1>1, <1>2, <1>9, EntriesStaySame, QuietHeld DEF GenExpression, UnchangedParse
<1>10. CASE GenDeclaration
  <2>1. PICK e : Places(e, place + 1)
    BY <1>10 DEF GenDeclaration
  <2>2. EntriesSame
    BY <1>1, <2>1, PlacesSame
  <2> QED BY <2>2, <1>10, QuietHeld DEF GenDeclaration, UnchangedParse
<1>11. CASE GenBinary
  <2>1. EntriesSame
    BY <1>1, <1>11, PlacesSame DEF GenBinary
  <2> QED BY <2>1, <1>11, QuietHeld DEF GenBinary, UnchangedParse
<1>12. CASE GenIdentifier
  <2>1. EntriesSame
    BY <1>1, <1>12, EntriesStaySame DEF GenIdentifier
  <2>2. UNCHANGED <<text, item, tables, driver, tree, tempCounter>> /\ Len(open) = 1 /\ NoItem
    BY <1>2, <1>12 DEF GenIdentifier, UnchangedParse
  <2> QED BY <2>1, <2>2, QuietHeld
<1>13. CASE GenCall
  BY <1>1, <1>2, <1>13, EntriesStaySame, QuietHeld DEF GenCall, UnchangedParse
<1> QED BY <1>3, <1>4, <1>5, <1>6, <1>7, <1>8, <1>9, <1>10, <1>11, <1>12, <1>13

(* Steps that open a scope. *)
LEMMA SequenceOfTwo ==
  ASSUME NEW a, NEW b
  PROVE  /\ IsSeq(<<a, b>>) /\ Len(<<a, b>>) = 2 /\ DOMAIN <<a, b>> = 1 .. 2
         /\ <<a, b>>[1] = a /\ <<a, b>>[2] = b
<1>1. <<a, b>> \in Seq({a, b}) /\ Len(<<a, b>>) = 2 /\ <<a, b>>[1] = a /\ <<a, b>>[2] = b
  OBVIOUS
<1>2. DOMAIN <<a, b>> = 1 .. 2
  BY <1>1
<1>3. IsSeq(<<a, b>>)
  BY <1>1 DEF IsSeq
<1> QED BY <1>1, <1>2, <1>3

LEMMA OpenBlockPlaces ==
  ASSUME NEW tab, NEW dep, Held(tab, dep), OpenBlock
  PROVE  /\ Containers' /\ MorePlaces /\ Shape(open)'
         /\ Len(tables') = Len(tables) + 1 /\ Len(blocks') = Len(blocks) + 1
         /\ \A t \in 1 .. Len(tables) : tables'[t] = tables[t]
         /\ tables'[Len(tables) + 1] = SymbolTable(currentTable)
         /\ \A b \in 1 .. Len(blocks) : blocks'[b] = blocks[b]
         /\ blocks'[Len(blocks) + 1] = [table |-> Len(tables) + 1, statements |-> <<>>]
         /\ Len(open') = Len(open) + 1 /\ \A k \in 1 .. Len(open) : open'[k] = open[k]
         /\ open'[Len(open) + 1] = Context("block", Len(blocks) + 1)
         /\ IsSeq(functions') /\ Len(functions') = Len(functions)
         /\ \A f \in 1 .. Len(functions) :
              /\ functions'[f].table = functions[f].table
              /\ functions'[f].entry = functions[f].entry
              /\ functions'[f].parameters = functions[f].parameters
<1>1. /\ item = <<>> /\ Top.kind # "global"
      /\ tables' = Append(tables, SymbolTable(currentTable))
      /\ blocks' = Append(blocks, [table |-> Len(tables) + 1, statements |-> <<>>])
      /\ functions' = IF currentBlock = Null THEN [functions EXCEPT ![currentFunction].body = Len(blocks) + 1]
                      ELSE functions
      /\ open' = Append(open, Context("block", Len(blocks) + 1))
  BY DEF OpenBlock
<1>2. /\ Containers /\ Shape(open) /\ IsSeq(open) /\ Len(open) \in Nat \ {0} /\ Top = open[Len(open)]
      /\ currentTable \in 1 .. Len(tables) /\ Len(open) \in 1 .. Len(open)
  BY HeldFacts
<1>3. /\ IsSeq(tables') /\ Len(tables') = Len(tables) + 1 /\ Len(tables) \in Nat
      /\ \A t \in 1 .. Len(tables) : tables'[t] = tables[t]
      /\ tables'[Len(tables) + 1] = SymbolTable(currentTable)
  BY <1>1, <1>2, AppendFacts DEF Containers
<1>4. /\ IsSeq(blocks') /\ Len(blocks') = Len(blocks) + 1 /\ Len(blocks) \in Nat
      /\ \A b \in 1 .. Len(blocks) : blocks'[b] = blocks[b]
      /\ blocks'[Len(blocks) + 1] = [table |-> Len(tables) + 1, statements |-> <<>>]
  BY <1>1, <1>2, AppendFacts DEF Containers
<1>5. /\ IsSeq(open') /\ Len(open') = Len(open) + 1 /\ \A k \in 1 .. Len(open) : open'[k] = open[k]
      /\ open'[Len(open) + 1] = Context("block", Len(blocks) + 1)
  BY <1>1, <1>2, AppendFacts
<1>6. /\ IsSeq(functions') /\ Len(functions') = Len(functions) /\ Len(functions) \in Nat
      /\ \A f \in 1 .. Len(functions) :
           /\ functions'[f].table = functions[f].table
           /\ functions'[f].entry = functions[f].entry
           /\ functions'[f].parameters = functions[f].parameters
           /\ IsFunction(functions'[f])
  <2>1. /\ IsSeq(functions) /\ Len(functions) \in Nat
        /\ \A f \in 1 .. Len(functions) : IsFunction(functions[f])
    BY <1>2 DEF Containers
  <2>2. CASE currentBlock = Null
    <3> DEFINE after == [functions EXCEPT ![currentFunction].body = Len(blocks) + 1]
    <3>1. functions' = after
      BY <1>1, <2>2
    <3>2. DOMAIN functions = 1 .. Len(functions)
      BY <2>1, SameLength
    <3>3. after = [f \in DOMAIN functions |-> after[f]]
      OBVIOUS
    <3>4. \A f \in 1 .. Len(functions) : \/ after[f] = functions[f]
                                         \/ after[f] = [functions[f] EXCEPT !.body = Len(blocks) + 1]
      BY <3>2
    <3> HIDE DEF after
    <3>5. IsSeq(after) /\ Len(after) = Len(functions)
      BY <2>1, <3>3, SameLength
    <3>6. ASSUME NEW f \in 1 .. Len(functions)
          PROVE  /\ after[f].table = functions[f].table
                 /\ after[f].entry = functions[f].entry
                 /\ after[f].parameters = functions[f].parameters
                 /\ IsFunction(after[f])
      <4>1. PICK g : g = functions[f] /\ IsFunction(g)
        BY <2>1
      <4>2. after[f] = g \/ after[f] = [g EXCEPT !.body = Len(blocks) + 1]
        BY <3>4, <4>1
      <4>3. [g EXCEPT !.body = Len(blocks) + 1] =
              [entry |-> g.entry, table |-> g.table, parameters |-> g.parameters, body |-> Len(blocks) + 1]
        BY <4>1 DEF IsFunction
      <4> QED BY <4>1, <4>2, <4>3 DEF IsFunction
    <3> QED BY <2>1, <3>1, <3>5, <3>6
  <2>3. CASE currentBlock # Null
    BY <1>1, <2>1, <2>3
  <2> QED BY <2>2, <2>3
<1>7. Containers'
  <2>1. ASSUME NEW t \in 1 .. Len(tables') PROVE IsTable(tables'[t]) /\ tables'[t].parent \in 0 .. t - 1
    <3>1. CASE t \in 1 .. Len(tables)
      BY <1>2, <1>3, <3>1 DEF Containers
    <3>2. CASE t = Len(tables) + 1
      <4>1. currentTable \in 0 .. t - 1
        BY <1>2, <1>3, <3>2
      <4> QED BY <1>3, <3>2, <4>1 DEF IsTable, SymbolTable
    <3> QED BY <1>3, <3>1, <3>2
  <2>2. ASSUME NEW b \in 1 .. Len(blocks') PROVE IsBlock(blocks'[b]) /\ blocks'[b].table \in 1 .. Len(tables')
    <3>1. CASE b \in 1 .. Len(blocks)
      BY SMTT(30), <1>2, <1>3, <1>4, <3>1 DEF Containers
    <3>2. CASE b = Len(blocks) + 1
      <4>1. Len(tables) + 1 \in 1 .. Len(tables')
        BY <1>3
      <4> QED BY <1>4, <3>2, <4>1 DEF IsBlock
    <3> QED BY <1>4, <3>1, <3>2
  <2>3. ASSUME NEW f \in 1 .. Len(functions') PROVE functions'[f].table \in 1 .. Len(tables')
    <3>1. functions'[f].table \in 1 .. Len(tables)
      BY <1>2, <1>6 DEF Containers
    <3> QED BY <1>3, <3>1
  <2>4. Len(tables') \in Nat \ {0} /\ Len(blocks') \in Nat
    BY <1>3, <1>4
  <2> QED BY <1>3, <1>4, <1>6, <2>1, <2>2, <2>3, <2>4 DEF Containers
<1>8. Shape(open)'
  <2>1. Len(open) + 1 # 1 /\ Len(open') \in Nat \ {0}
    BY <1>2, <1>5
  <2>2. Len(open) # 1
    <3>1. Len(open) \in 1 .. Len(open) /\ Top.kind # "global"
      BY <1>1, <1>2
    <3> QED BY <1>2, <3>1 DEF Shape
  <2>3. Len(open) + 1 # 2
    <3>1. \A n \in Nat : n + 1 = 2 => n = 1
      OBVIOUS
    <3> QED BY <1>2, <2>2, <3>1
  <2>4. ASSUME NEW k \in 1 .. Len(open')
        PROVE  /\ IsContext(open'[k])
               /\ open'[k].kind \in {"global", "function", "block", "if"}
               /\ open'[k].kind = "global" <=> k = 1
               /\ open'[k].kind = "function" <=> k = 2
               /\ k = 3 => open'[k].kind = "block"
    <3>1. CASE k \in 1 .. Len(open)
      BY <1>2, <1>5, <3>1 DEF Shape
    <3>2. CASE k = Len(open) + 1
      BY <1>5, <2>1, <2>3, <3>2 DEF Context, IsContext
    <3> QED BY <1>2, <1>5, <3>1, <3>2
  <2> QED BY <1>5, <2>1, <2>4 DEF Shape
<1>9. MorePlaces
  BY <1>3, <1>4, <1>6 DEF MorePlaces
<1> QED BY <1>3, <1>4, <1>5, <1>6, <1>7, <1>8, <1>9

LEMMA OlderNamed ==
  ASSUME NEW tab, NEW dep, Held(tab, dep), EntriesKept,
         NEW k \in 1 .. Len(open), open'[k].kind = open[k].kind, open'[k].declared = open[k].declared,
         open[k].kind # "if" => NamesKept(tab[k]),
         (IF k = Len(open) THEN PendingName ELSE "") = (IF k = Len(open') THEN PendingName' ELSE "")
  PROVE  ContextNamed(k, tab[k])'
<1>1. ContextNamed(k, tab[k])
  BY DEF Held, Named
<1> SUFFICES ASSUME open[k].kind # "if"
             PROVE  NamedAt(open[k], tab[k], IF k = Len(open) THEN PendingName ELSE "")'
  BY DEF ContextNamed
<1>2. PICK c, c2, p : /\ c = open[k] /\ c2 = open'[k]
                     /\ p = IF k = Len(open) THEN PendingName ELSE ""
  OBVIOUS
<1>3. NamedAt(c, tab[k], p) /\ Len(entries) \in Nat /\ c2.declared = c.declared
  BY <1>1, <1>2, HeldFacts DEF ContextNamed
<1>4. NamedAt(c2, tab[k], p)'
  BY <1>3, NamedAtKept
<1> QED BY <1>2, <1>4

(* A function whose record keeps what the parser put there first.          *)
LEMMA FunctionsFit ==
  ASSUME NEW tab, NEW dep, Held(tab, dep), EntriesKept, NamesStay,
         NEW f \in 1 .. Len(functions),
         functions'[f].table = functions[f].table,
         functions'[f].entry = functions[f].entry,
         functions'[f].parameters = functions[f].parameters
  PROVE  ParametersFit(functions[f])'
<1>1. PICK g, h : g = functions[f] /\ h = functions'[f]
  OBVIOUS
<1>2. ParametersFit(g) /\ g.table \in 1 .. Len(tables) /\ Len(entries) \in Nat
  BY <1>1, HeldFacts DEF Held, Symbols, Containers
<1>3. ParametersFit(g)'
  BY <1>2, ParametersKept
<1>4. ParametersFit(h)'
  BY <1>1, <1>3 DEF ParametersFit
<1> QED BY <1>1, <1>4

LEMMA OpenBlockHeld ==
  ASSUME NEW tab, NEW dep, Held(tab, dep), OpenBlock PROVE StillHeld
<1>1. /\ phase = "parse" /\ phase' = "parse" /\ tokens' = tokens + 1 /\ item = <<>> /\ item' = <<>>
      /\ Top.kind # "global" /\ UNCHANGED <<entries, tempCounter, currentFunction>>
      /\ currentBlock' = Len(blocks) + 1 /\ currentTable' = Len(tables) + 1
      /\ blockStack' = Append(blockStack, Len(blocks) + 1)
  BY DEF OpenBlock, Writes
<1>2. /\ Len(open) \in Nat \ {0} /\ Len(open) \in 1 .. Len(open) /\ Top = open[Len(open)]
      /\ Shape(open) /\ Containers /\ tokens \in Nat \ {0} /\ EntriesFit /\ Len(entries) \in Nat
      /\ currentTable \in 1 .. Len(tables) /\ Len(tables) \in Nat \ {0}
  BY HeldFacts
<1>3. /\ Containers' /\ MorePlaces /\ Shape(open)'
      /\ Len(tables') = Len(tables) + 1 /\ Len(blocks') = Len(blocks) + 1 /\ Len(blocks) \in Nat
      /\ \A t \in 1 .. Len(tables) : tables'[t] = tables[t]
      /\ tables'[Len(tables) + 1] = SymbolTable(currentTable)
      /\ \A b \in 1 .. Len(blocks) : blocks'[b] = blocks[b]
      /\ blocks'[Len(blocks) + 1] = [table |-> Len(tables) + 1, statements |-> <<>>]
      /\ Len(open') = Len(open) + 1 /\ \A k \in 1 .. Len(open) : open'[k] = open[k]
      /\ open'[Len(open) + 1] = Context("block", Len(blocks) + 1)
      /\ Len(functions') = Len(functions)
      /\ \A f \in 1 .. Len(functions) :
           /\ functions'[f].table = functions[f].table
           /\ functions'[f].entry = functions[f].entry
           /\ functions'[f].parameters = functions[f].parameters
  BY <1>2, OpenBlockPlaces DEF Containers
<1>4. Len(open) # 1
  BY <1>1, <1>2 DEF Shape
<1>5. /\ IsSeq(blockStack') /\ Len(blockStack') = Len(blockStack) + 1 /\ Len(blockStack) \in Nat
      /\ \A d \in 1 .. Len(blockStack) : blockStack'[d] = blockStack[d] /\ blockStack[d] \in 1 .. Len(blocks)
      /\ blockStack'[Len(blockStack) + 1] = Len(blocks) + 1
      /\ blockStack' # <<>> /\ Last(blockStack') = Len(blocks) + 1
  BY <1>1, AppendFacts DEF Held, Placed, Standing
<1>6. Moves(tab, Len(open))
  <2>1. \A i \in 1 .. Len(blockStack) + 1 : blockStack'[i] \in 1 .. Len(blocks')
    <3> SUFFICES ASSUME NEW i \in 1 .. Len(blockStack) + 1 PROVE blockStack'[i] \in 1 .. Len(blocks')
      OBVIOUS
    <3>1. i \in 1 .. Len(blockStack) \/ i = Len(blockStack) + 1
      BY <1>5
    <3>2. Len(blocks) + 1 \in 1 .. Len(blocks') /\ \A b \in 1 .. Len(blocks) : b \in 1 .. Len(blocks')
      BY <1>3
    <3> QED BY <1>5, <3>1, <3>2
  <2>2. currentFunction = Len(functions) /\ Len(functions) > 0
    <3>1. Len(open) > 1
      <4>1. \A n \in Nat \ {0} : n # 1 => n > 1
        OBVIOUS
      <4> QED BY <1>2, <1>4, <4>1
    <3> QED BY <3>1, <1>4 DEF Held, Placed, Standing
  <2>3. blocks'[blockStack'[Len(blockStack) + 1]].table = Len(tables) + 1
    BY <1>3, <1>5
  <2>4. Opening(Len(tables) + 1, Len(blockStack) + 1, "block", Len(blocks) + 1)
    <3>1. /\ open'[Len(open) + 1].kind = "block" /\ open'[Len(open) + 1].block = Len(blocks) + 1
          /\ tables'[Len(tables) + 1].parent = currentTable
      BY <1>3 DEF Context, SymbolTable
    <3>2. /\ Len(blockStack) + 1 >= Len(blockStack) /\ currentTable < Len(tables) + 1
          /\ Len(blockStack) + 1 # 0
      BY <1>2, <1>5
    <3> QED BY <1>1, <1>3, <1>5, <2>1, <2>2, <2>3, <3>1, <3>2 DEF Opening
  <2>5. PICK t, d, b : t = Len(tables) + 1 /\ d = Len(blockStack) + 1 /\ b = Len(blocks) + 1
    OBVIOUS
  <2>6. t \in 1 .. Len(tables') /\ d \in Nat
    BY <1>2, <1>3, <1>5, <2>5
  <2>7. Opening(t, d, "block", b) /\ Placed(tab, dep)
    BY <2>4, <2>5 DEF Held
  <2> QED BY <1>3, <2>6, <2>7, OpeningPlaced
<1>7. EntriesFit' /\ EntriesKept
  BY <1>1, <1>2, UnchangedEntriesFit
<1>8. NamesStay /\ \A t \in 1 .. Len(tables) : NamesKept(t)
  BY <1>3 DEF NamesStay, NamesKept
<1>9. PendingName = "" /\ PendingName' = ""
  BY <1>1 DEF PendingName, NoItem
<1>10. ASSUME NEW k \in 1 .. Len(open) PROVE ContextNamed(k, tab[k])'
  <2>1. tab[k] \in 1 .. Len(tables)
    BY DEF Held, Placed, Ladder
  <2> QED BY <1>3, <1>7, <1>8, <1>9, <2>1, OlderNamed
<1>11. ContextNamed(Len(open), currentTable)'
  <2>1. PICK c, t : c = open'[Len(open')] /\ t = currentTable'
    OBVIOUS
  <2>2. c.declared = <<>> /\ tables'[t].entries = <<>>
    BY <1>1, <1>3, <2>1 DEF Context, SymbolTable
  <2>3. NamedAt(c, t, "")'
    BY <2>2 DEF NamedAt
  <2> QED BY <1>9, <2>1, <2>3 DEF ContextNamed
<1>12. \E tab2, dep2 : (Placed(tab2, dep2) /\ Named(tab2))'
  <2>1. \A k \in 1 .. Len(open') : k \in 1 .. Len(open) \/ k = Len(open')
    BY <1>2, <1>3
  <2>2. ASSUME NEW k \in 1 .. Len(open')
        PROVE  \/ k \in 1 .. Len(open) /\ ContextNamed(k, tab[k])'
               \/ k = Len(open') /\ ContextNamed(k, currentTable)'
    <3>1. CASE k \in 1 .. Len(open)
      BY <1>10, <3>1
    <3>2. CASE k = Len(open')
      BY <1>11, <3>2 DEF ContextNamed
    <3> QED BY <2>1, <3>1, <3>2
  <2>3. PICK m : m = Len(open)
    OBVIOUS
  <2> QED BY <1>6, <2>2, <2>3, NamedAfter
<1>13. ASSUME NEW k \in 1 .. Len(open') PROVE Declared(open[k])'
  <2>1. CASE k \in 1 .. Len(open)
    <3>1. open'[k] = open[k] /\ Declared(open[k])
      BY <1>3, <2>1 DEF Held, Symbols
    <3> QED BY SMTT(30), <1>1, <1>2, <3>1 DEF Declared
  <2>2. CASE k = Len(open) + 1
    BY <1>3, <2>2 DEF Declared, Context
  <2> QED BY <1>2, <1>3, <2>1, <2>2
<1>14. \A f \in 1 .. Len(functions') : ParametersFit(functions[f])'
  BY <1>3, <1>7, <1>8, FunctionsFit
<1>15. ItemFits' /\ tokens' \in Nat \ {0} /\ tempCounter' \in Nat /\ tempCounter' < tokens'
  BY <1>1 DEF ItemFits, Held, Symbols
<1> QED BY <1>1, <1>7, <1>8, <1>12, <1>13, <1>14, <1>15 DEF StillHeld, Symbols

LEMMA EndConditionHeld ==
  ASSUME NEW tab, NEW dep, Held(tab, dep), EndCondition PROVE StillHeld
<1> DEFINE c == [Context("if", Null) EXCEPT !.condition = Item.nodes]
<1>1. /\ phase = "parse" /\ phase' = "parse" /\ tokens' = tokens + 1 /\ item # <<>> /\ item' = <<>>
      /\ Item.kind = "condition" /\ open' = Append(open, c)
      /\ UNCHANGED <<tables, entries, blocks, functions, tempCounter, currentFunction, currentTable, currentBlock, blockStack>>
  BY DEF EndCondition, Writes, NoItem, driver, tree
<1>2. c = [kind |-> "if", block |-> Null, declared |-> <<>>, condition |-> Item.nodes]
  BY DEF Context
<1> HIDE DEF c
<1>3. /\ Len(open) \in Nat \ {0} /\ Len(open) \in 1 .. Len(open) /\ Top = open[Len(open)]
      /\ IsSeq(open) /\ Shape(open) /\ Containers /\ tokens \in Nat \ {0} /\ EntriesFit
      /\ Len(entries) \in Nat
      /\ currentTable \in 1 .. Len(tables) /\ Len(tables) \in Nat \ {0}
  BY HeldFacts
<1>4. /\ IsSeq(open') /\ Len(open') = Len(open) + 1 /\ open'[Len(open) + 1] = c
      /\ \A k \in 1 .. Len(open) : open'[k] = open[k]
  BY <1>1, <1>3, AppendFacts
<1>5. Top.kind \in {"block", "if"} /\ Item.name = ""
  BY <1>1 DEF Held, Symbols, ItemFits
<1>6. Len(open) # 1 /\ Len(open) # 2 /\ Len(open) + 1 # 1 /\ Len(open) + 1 # 2 /\ Len(open) + 1 # 3
  <2>1. Len(open) # 1 /\ Len(open) # 2
    BY <1>3, <1>5 DEF Shape
  <2>2. \A n \in Nat \ {0} : n # 1 /\ n # 2 => n + 1 # 1 /\ n + 1 # 2 /\ n + 1 # 3
    OBVIOUS
  <2> QED BY <1>3, <2>1, <2>2
<1>7. Shape(open)'
  <2>1. \A k \in 1 .. Len(open') : k \in 1 .. Len(open) \/ k = Len(open) + 1
    BY <1>3, <1>4
  <2>2. ASSUME NEW k \in 1 .. Len(open')
        PROVE  /\ IsContext(open'[k])
               /\ open'[k].kind \in {"global", "function", "block", "if"}
               /\ open'[k].kind = "global" <=> k = 1
               /\ open'[k].kind = "function" <=> k = 2
               /\ k = 3 => open'[k].kind = "block"
    <3>1. CASE k \in 1 .. Len(open)
      BY <1>3, <1>4, <3>1 DEF Shape
    <3>2. CASE k = Len(open) + 1
      BY <1>2, <1>4, <1>6, <3>2 DEF IsContext
    <3> QED BY <2>1, <3>1, <3>2
  <2>3. Len(open') \in Nat \ {0}
    BY <1>3, <1>4
  <2> QED BY <1>4, <2>2, <2>3 DEF Shape
<1>8. Containers' /\ SamePlaces /\ MorePlaces
  <2>1. SamePlaces
    BY <1>1, <1>3, UnchangedPlaces
  <2>2. Len(tables) \in Nat /\ Len(blocks) \in Nat /\ Len(functions) \in Nat
    BY <1>3 DEF Containers
  <2> QED BY <1>1, <1>3, <2>1, <2>2, SameContainers DEF MorePlaces
<1>9. Moves(tab, Len(open))
  <2>1. /\ IsSeq(blockStack) /\ Len(blockStack) = dep[Len(open)] /\ currentTable = tab[Len(open)]
        /\ \A d \in 1 .. Len(blockStack) : blockStack[d] \in 1 .. Len(blocks)
        /\ currentBlock = IF blockStack = <<>> THEN Null ELSE Last(blockStack)
    BY DEF Held, Placed, Standing
  <2>2. currentFunction = Len(functions) /\ Len(functions) > 0
    <3>1. Len(open) > 1
      <4>1. \A n \in Nat \ {0} : n # 1 => n > 1
        OBVIOUS
      <4> QED BY <1>3, <1>6, <4>1
    <3> QED BY <3>1, <1>6 DEF Held, Placed, Standing
  <2>3. currentTable = IF Len(blockStack) = 0 THEN functions[currentFunction].table
                       ELSE blocks[blockStack[Len(blockStack)]].table
    <3>1. Len(open) \in 2 .. Len(open)
      <4>1. \A n \in Nat \ {0} : n # 1 => n \in 2 .. n
        OBVIOUS
      <4> QED BY <1>3, <1>6, <4>1
    <3>2. Rung(tab, dep, Len(open))
      BY <3>1 DEF Held, Placed, Ladder
    <3> QED BY <2>1, <3>2 DEF Rung
  <2>4. Len(blockStack) \in Nat
    BY <2>1 DEF IsSeq
  <2>5. Opening(currentTable, Len(blockStack), "if", Null)
    <3>1. Len(blockStack) >= Len(blockStack)
      BY <2>4
    <3> QED BY <1>1, <1>2, <1>4, <2>1, <2>2, <2>3, <3>1 DEF Opening
  <2>6. PICK t, d : t = currentTable /\ d = Len(blockStack)
    OBVIOUS
  <2>7. Opening(t, d, "if", Null) /\ Placed(tab, dep) /\ t \in 1 .. Len(tables') /\ d \in Nat
    BY <1>1, <1>3, <2>4, <2>5, <2>6 DEF Held
  <2> QED BY <1>7, <1>8, <2>7, OpeningPlaced
<1>10. EntriesFit' /\ EntriesKept /\ NamesStay /\ \A t \in 1 .. Len(tables) : NamesKept(t)
  BY <1>1, <1>3, UnchangedEntriesFit, SameNames
<1>11. PendingName = "" /\ PendingName' = ""
  BY <1>1, <1>5 DEF PendingName, NoItem
<1>12. ASSUME NEW k \in 1 .. Len(open) PROVE ContextNamed(k, tab[k])'
  <2>1. tab[k] \in 1 .. Len(tables)
    BY DEF Held, Placed, Ladder
  <2> QED BY <1>4, <1>10, <1>11, <2>1, OlderNamed
<1>13. \E tab2, dep2 : (Placed(tab2, dep2) /\ Named(tab2))'
  <2>1. ContextNamed(Len(open), currentTable)'
    BY <1>2, <1>4 DEF ContextNamed
  <2>2. ASSUME NEW k \in 1 .. Len(open')
        PROVE  \/ k \in 1 .. Len(open) /\ ContextNamed(k, tab[k])'
               \/ k = Len(open') /\ ContextNamed(k, currentTable)'
    <3>1. CASE k \in 1 .. Len(open)
      BY <1>12, <3>1
    <3>2. CASE k = Len(open')
      BY <2>1, <3>2 DEF ContextNamed
    <3> QED BY <1>3, <1>4, <3>1, <3>2
  <2>3. PICK m : m = Len(open)
    OBVIOUS
  <2> QED BY <1>9, <2>2, <2>3, NamedAfter
<1>14. ASSUME NEW k \in 1 .. Len(open') PROVE Declared(open[k])'
  <2>1. CASE k \in 1 .. Len(open)
    <3>1. open'[k] = open[k] /\ Declared(open[k])
      BY <1>4, <2>1 DEF Held, Symbols
    <3> QED BY <1>1, <1>3, <3>1 DEF Declared
  <2>2. CASE k = Len(open) + 1
    BY <1>2, <1>4, <2>2 DEF Declared
  <2> QED BY <1>3, <1>4, <2>1, <2>2
<1>15. \A f \in 1 .. Len(functions') : ParametersFit(functions[f])'
  BY <1>1, <1>10, FunctionsFit
<1>16. ItemFits' /\ tokens' \in Nat \ {0} /\ tempCounter' \in Nat /\ tempCounter' < tokens'
  <2>1. ItemFits'
    BY <1>1 DEF ItemFits
  <2>2. tempCounter \in Nat /\ tempCounter < tokens
    BY DEF Held, Symbols
  <2> QED BY <1>1, <1>3, <2>1, <2>2
<1> QED BY <1>1, <1>10, <1>13, <1>14, <1>15, <1>16 DEF StillHeld, Symbols

(* The entries of a function and its parameters.                           *)
LEMMA FunctionEntries ==
  ASSUME EntriesFit, tokens \in Nat \ {0}, NEW name, NEW parameters, IsSeq(parameters),
         entries' = Append(entries, Entry(name, "function", tokens))
               \o [k \in DOMAIN parameters |-> Entry(parameters[k], "param", tokens + k)],
         tokens' = tokens + (1 + Len(parameters))
  PROVE  /\ EntriesFit' /\ EntriesKept /\ Len(parameters) \in Nat
         /\ DOMAIN parameters = 1 .. Len(parameters)
         /\ Len(entries') = Len(entries) + 1 + Len(parameters)
         /\ \A e \in 1 .. Len(entries) : entries'[e] = entries[e]
         /\ entries'[Len(entries) + 1] = Entry(name, "function", tokens)
         /\ \A k \in 1 .. Len(parameters) :
              entries'[Len(entries) + 1 + k] = Entry(parameters[k], "param", tokens + k)
<1> DEFINE f == Append(entries, Entry(name, "function", tokens))
           g == [k \in DOMAIN parameters |-> Entry(parameters[k], "param", tokens + k)]
<1>1. /\ IsSeq(f) /\ Len(f) = Len(entries) + 1 /\ Len(entries) \in Nat
      /\ \A e \in 1 .. Len(entries) : f[e] = entries[e]
      /\ f[Len(entries) + 1] = Entry(name, "function", tokens)
  BY AppendFacts DEF EntriesFit
<1>2. IsSeq(g) /\ Len(g) = Len(parameters) /\ Len(parameters) \in Nat /\ DOMAIN parameters = 1 .. Len(parameters)
  <2>1. g = [k \in DOMAIN parameters |-> g[k]]
    OBVIOUS
  <2> HIDE DEF g
  <2> QED BY <2>1, SameLength
<1>3. \A k \in 1 .. Len(parameters) : g[k] = Entry(parameters[k], "param", tokens + k)
  BY <1>2
<1>4. entries' = f \o g
  OBVIOUS
<1> HIDE DEF f, g
<1>5. PICK S : f \in Seq(S) /\ g \in Seq(S)
  <2>1. PICK A, B : f \in Seq(A) /\ g \in Seq(B)
    BY <1>1, <1>2 DEF IsSeq
  <2>2. f \in Seq(A \cup B) /\ g \in Seq(A \cup B)
    BY <2>1
  <2> QED BY <2>2
<1>6. Concatenated(S, f, g, entries')
  BY <1>4, <1>5, ConcatFacts
<1>7. /\ IsSeq(entries') /\ Len(entries') = Len(entries) + 1 + Len(parameters)
      /\ \A e \in 1 .. Len(entries) + 1 : entries'[e] = f[e]
  BY <1>1, <1>2, <1>6 DEF Concatenated, IsSeq
<1>8. ASSUME NEW k \in 1 .. Len(parameters)
      PROVE  entries'[Len(entries) + 1 + k] = Entry(parameters[k], "param", tokens + k)
  <2>1. /\ Len(entries) + 1 + k \in Len(f) + 1 .. Len(f) + Len(g)
        /\ Len(entries) + 1 + k - Len(f) = k
    BY <1>1, <1>2
  <2>2. PICK i : i = Len(entries) + 1 + k
    OBVIOUS
  <2>3. entries'[i] = g[i - Len(f)]
    BY <1>6, <2>1, <2>2 DEF Concatenated
  <2> QED BY SMTT(30), <1>3, <2>1, <2>2, <2>3
<1>9. \A e \in 1 .. Len(entries) : entries'[e] = entries[e]
  BY <1>1, <1>7
<1>10. entries'[Len(entries) + 1] = Entry(name, "function", tokens)
  BY <1>1, <1>7
<1>11. \A e \in 1 .. Len(entries') : \/ e \in 1 .. Len(entries)
                                    \/ e = Len(entries) + 1
                                    \/ \E k \in 1 .. Len(parameters) : e = Len(entries) + 1 + k
  <2> SUFFICES ASSUME NEW e \in 1 .. Len(entries'), e \notin 1 .. Len(entries), e # Len(entries) + 1
               PROVE  \E k \in 1 .. Len(parameters) : e = Len(entries) + 1 + k
    OBVIOUS
  <2>1. e - (Len(entries) + 1) \in 1 .. Len(parameters) /\ e = Len(entries) + 1 + (e - (Len(entries) + 1))
    BY <1>1, <1>2, <1>7
  <2> QED BY <2>1
<1>12. \A e \in 1 .. Len(entries') :
         /\ IsEntry(entries'[e])
         /\ e \in 1 .. Len(entries) => entries'[e] = entries[e]
         /\ e \notin 1 .. Len(entries) => /\ entries'[e].id = tokens + (e - (Len(entries) + 1))
                                         /\ entries'[e].scope \in {"function", "param"}
  <2> SUFFICES ASSUME NEW e \in 1 .. Len(entries')
               PROVE  /\ IsEntry(entries'[e])
                      /\ e \in 1 .. Len(entries) => entries'[e] = entries[e]
                      /\ e \notin 1 .. Len(entries) => /\ entries'[e].id = tokens + (e - (Len(entries) + 1))
                                                      /\ entries'[e].scope \in {"function", "param"}
    OBVIOUS
  <2>1. CASE e \in 1 .. Len(entries)
    BY <1>9, <2>1 DEF EntriesFit, EntryFits
  <2>2. CASE e = Len(entries) + 1
    <3>1. tokens + (e - (Len(entries) + 1)) = tokens /\ e \notin 1 .. Len(entries)
      BY <1>1, <2>2
    <3> QED BY <1>10, <2>2, <3>1 DEF Entry, IsEntry
  <2>3. ASSUME NEW k \in 1 .. Len(parameters), e = Len(entries) + 1 + k
        PROVE  /\ IsEntry(entries'[e]) /\ e \notin 1 .. Len(entries)
               /\ entries'[e].id = tokens + (e - (Len(entries) + 1))
               /\ entries'[e].scope \in {"function", "param"}
    <3>1. e - (Len(entries) + 1) = k /\ e \notin 1 .. Len(entries)
      BY <1>1, <1>2, <2>3
    <3> QED BY <1>8, <2>3, <3>1 DEF Entry, IsEntry
  <2> QED BY <1>11, <2>1, <2>2, <2>3
<1>13. ASSUME NEW e \in 1 .. Len(entries') PROVE EntryFits(e)'
  <2>1. CASE e \in 1 .. Len(entries)
    <3>1. EntryFits(e) /\ entries'[e] = entries[e]
      BY <1>9, <2>1 DEF EntriesFit
    <3>2. entries[e].id \in 0 .. tokens' - 1
      BY <1>2, <3>1 DEF EntryFits
    <3> QED BY <3>1, <3>2 DEF EntryFits
  <2>2. CASE e \notin 1 .. Len(entries)
    <3>1. tokens + (e - (Len(entries) + 1)) \in 1 .. tokens' - 1
      BY <1>1, <1>2, <1>7, <2>2
    <3>2. entries'[e].id \in 0 .. tokens' - 1 /\ entries'[e].id # Null
      BY SMTT(30), <1>12, <2>2, <3>1 DEF Null
    <3> QED BY <1>12, <2>2, <3>2 DEF EntryFits
  <2> QED BY <2>1, <2>2
<1>14. ASSUME NEW d \in 1 .. Len(entries'), NEW e \in 1 .. Len(entries'),
              entries'[d].id = entries'[e].id, entries'[e].id # Null
       PROVE  d = e
  <2>1. \A c \in 1 .. Len(entries') : c \in 1 .. Len(entries) => entries'[c].id \in 0 .. tokens - 1
    BY <1>9 DEF EntriesFit, EntryFits
  <2>2. \A c \in 1 .. Len(entries') : c \notin 1 .. Len(entries) =>
          entries'[c].id = tokens + (c - (Len(entries) + 1)) /\ c \in Nat /\ c >= Len(entries) + 1
    <3>1. \A c \in 1 .. Len(entries') : c \notin 1 .. Len(entries) => c \in Nat /\ c >= Len(entries) + 1
      BY <1>1, <1>2, <1>7
    <3> QED BY <1>12, <3>1
  <2>3. CASE d \in 1 .. Len(entries) /\ e \in 1 .. Len(entries)
    BY <1>9, <1>14, <2>3 DEF EntriesFit
  <2>4. CASE d \notin 1 .. Len(entries) /\ e \notin 1 .. Len(entries)
    BY SMTT(30), <1>1, <1>14, <2>2, <2>4
  <2>5. CASE ~(d \in 1 .. Len(entries) <=> e \in 1 .. Len(entries))
    <3>1. \A x \in 0 .. tokens - 1 : \A c \in Nat : c >= Len(entries) + 1 => x # tokens + (c - (Len(entries) + 1))
      BY <1>1
    <3> QED BY <1>14, <2>1, <2>2, <2>5, <3>1
  <2> QED BY <2>3, <2>4, <2>5
<1>15. EntriesFit'
  <2>1. Len(entries') \in Nat
    BY <1>1, <1>2, <1>7
  <2> QED BY <1>7, <1>13, <1>14, <2>1 DEF EntriesFit
<1>16. EntriesKept
  BY <1>1, <1>2, <1>7, <1>9 DEF EntriesKept
<1> QED BY <1>2, <1>7, <1>8, <1>9, <1>10, <1>15, <1>16

LEMMA OpenFunctionHeld ==
  ASSUME NEW tab, NEW dep, Held(tab, dep), OpenFunction PROVE StillHeld
<1> DEFINE number(parameters, p) == CHOOSE k \in DOMAIN parameters : parameters[k] = p
<1>1. /\ phase = "parse" /\ phase' = "parse" /\ item = <<>> /\ item' = <<>> /\ Len(open) = 1
      /\ UNCHANGED <<currentBlock, blockStack, tempCounter>>
  BY DEF OpenFunction
<1>2. PICK name \in FunctionNames \ DOMAIN Top.declared, parameters \in ParameterLists :
        /\ Writes(1 + Len(parameters))
        /\ entries' = Append(entries, Entry(name, "function", tokens))
               \o [k \in DOMAIN parameters |->
                     Entry(parameters[k], "param", [i \in DOMAIN parameters |-> tokens + i][k])]
        /\ tables' = Append(Inserted(currentTable, name, Len(entries) + 1),
             [parent |-> currentTable,
              entries |-> [p \in ToSet(parameters) |-> Len(entries) + 1 + number(parameters, p)]])
        /\ functions' = Append(functions,
             [entry |-> Len(entries) + 1, table |-> Len(tables) + 1, parameters |-> parameters, body |-> Null])
        /\ AppendStatement([kind |-> "function", function |-> Len(functions) + 1], currentBlock)
        /\ currentFunction' = Len(functions) + 1 /\ currentTable' = Len(tables) + 1
        /\ open' = <<WithName(Top, name, Declaration("function")),
             [Context("function", Null) EXCEPT
                !.declared = [p \in ToSet(parameters) |->
                   [kind |-> "variable",
                    id |-> [i \in DOMAIN parameters |-> tokens + i][number(parameters, p)]]]]>>
  BY DEF OpenFunction
<1>3. /\ Containers /\ Shape(open) /\ tokens \in Nat \ {0} /\ EntriesFit /\ Len(entries) \in Nat
      /\ currentTable = tab[1] /\ currentTable \in 1 .. Len(tables) /\ Len(tables) \in Nat \ {0}
      /\ Top = open[1] /\ ContextNamed(1, currentTable) /\ Declared(Top) /\ 1 \in 1 .. Len(open)
  BY <1>1, HeldFacts
<1>4. /\ IsSeq(parameters) /\ IsInjective(parameters) /\ parameters \in Seq(Names)
      /\ Len(parameters) \in Nat /\ DOMAIN parameters = 1 .. Len(parameters)
  <2>1. parameters \in Seq(Names) /\ IsInjective(parameters)
    BY ScopesAssumption
  <2>2. IsSeq(parameters)
    BY <2>1 DEF IsSeq
  <2> QED BY <2>1, <2>2, SameLength
<1>5. /\ ToSet(parameters) \subseteq Names
      /\ \A k \in 1 .. Len(parameters) : parameters[k] \in ToSet(parameters)
      /\ \A p \in ToSet(parameters) : /\ number(parameters, p) \in 1 .. Len(parameters)
                                      /\ parameters[number(parameters, p)] = p
      /\ \A k \in 1 .. Len(parameters) : number(parameters, parameters[k]) = k
  <2>1. ToSet(parameters) = {parameters[k] : k \in 1 .. Len(parameters)}
    BY <1>4 DEF ToSet
  <2>2. \A k \in 1 .. Len(parameters) : number(parameters, parameters[k]) = k
    BY <1>4 DEF IsInjective
  <2> QED BY <1>4, <2>1, <2>2
<1> HIDE DEF number
<1>e. PICK e : e = Len(entries) + 1
  OBVIOUS
<1>d. PICK two, d1, d2 :
           /\ two = [parent |-> currentTable,
                     entries |-> [p \in ToSet(parameters) |-> e + number(parameters, p)]]
           /\ d1 = WithName(Top, name, Declaration("function"))
           /\ d2 = [kind |-> "function", block |-> Null, condition |-> <<>>,
                  declared |-> [p \in ToSet(parameters) |->
                                 [kind |-> "variable", id |-> tokens + number(parameters, p)]]]
  OBVIOUS
<1>6. open' = <<d1, d2>>
  <2>1. \A p \in ToSet(parameters) :
          [i \in DOMAIN parameters |-> tokens + i][number(parameters, p)] = tokens + number(parameters, p)
    BY <1>4, <1>5
  <2>2. [p \in ToSet(parameters) |->
           [kind |-> "variable", id |-> [i \in DOMAIN parameters |-> tokens + i][number(parameters, p)]]]
        = d2.declared
    BY <1>d, <2>1
  <2>3. [Context("function", Null) EXCEPT !.declared = d2.declared] = d2
    BY <1>d DEF Context
  <2> QED BY <1>d, <1>2, <2>2, <2>3
<1>7. entries' = Append(entries, Entry(name, "function", tokens))
               \o [k \in DOMAIN parameters |-> Entry(parameters[k], "param", tokens + k)]
  <2>1. \A k \in DOMAIN parameters : [i \in DOMAIN parameters |-> tokens + i][k] = tokens + k
    OBVIOUS
  <2>2. [k \in DOMAIN parameters |-> Entry(parameters[k], "param", [i \in DOMAIN parameters |-> tokens + i][k])]
        = [k \in DOMAIN parameters |-> Entry(parameters[k], "param", tokens + k)]
    BY <2>1
  <2> QED BY <1>2, <2>2
<1>8. tokens' = tokens + (1 + Len(parameters))
  BY <1>2 DEF Writes
<1>9. /\ EntriesFit' /\ EntriesKept
      /\ Len(entries') = Len(entries) + 1 + Len(parameters)
      /\ entries'[e] = Entry(name, "function", tokens)
      /\ \A k \in 1 .. Len(parameters) : entries'[e + k] = Entry(parameters[k], "param", tokens + k)
  BY <1>e, <1>3, <1>4, <1>7, <1>8, FunctionEntries
<1>10. PICK ins : /\ ins = Inserted(currentTable, name, e) /\ tables' = Append(ins, two)
                  /\ WithEntry(tables, currentTable, name, e, ins)
  BY <1>d, <1>e, <1>2, <1>3, InsertedFacts
<1>11. /\ IsSeq(tables') /\ Len(tables') = Len(tables) + 1 /\ tables'[Len(tables) + 1] = two
       /\ \A t \in 1 .. Len(tables) : tables'[t] = ins[t]
  BY <1>10, AppendFacts DEF WithEntry
<1>12. /\ \A t \in 1 .. Len(tables) : IsTable(tables'[t]) /\ tables'[t].parent = tables[t].parent
       /\ \A t \in 1 .. Len(tables) : t # currentTable => tables'[t] = tables[t]
       /\ tables'[currentTable].entries = With(tables[currentTable].entries, name, e)
  BY <1>3, <1>10, <1>11 DEF WithEntry
<1>13. /\ IsSeq(functions') /\ Len(functions') = Len(functions) + 1 /\ Len(functions) \in Nat
       /\ \A f \in 1 .. Len(functions) : functions'[f] = functions[f]
       /\ functions'[Len(functions) + 1] =
            [entry |-> e, table |-> Len(tables) + 1, parameters |-> parameters, body |-> Null]
  BY <1>e, <1>2, <1>3, AppendFacts DEF Containers
<1>14. UNCHANGED blocks
  <2>1. currentFunction = Null
    BY <1>1 DEF Held, Placed, Standing
  <2> QED BY <1>2, <2>1 DEF AppendStatement
<1>15. /\ IsSeq(open') /\ Len(open') = 2 /\ open'[1] = d1 /\ open'[2] = d2
  BY <1>6, SequenceOfTwo
<1>16. /\ d1 = [kind |-> "global", block |-> Top.block, condition |-> Top.condition,
                declared |-> With(Top.declared, name, Declaration("function"))]
       /\ Top.kind = "global"
  <2>1. PICK c : c = Top /\ IsContext(c) /\ c.kind = "global"
    BY <1>3 DEF Shape
  <2> QED BY <1>d, <2>1 DEF WithName, IsContext
<1>17. Shape(open)'
  <2>1. IsContext(d1) /\ IsContext(d2) /\ d1.kind = "global" /\ d2.kind = "function"
    BY <1>d, <1>16 DEF IsContext
  <2>2. \A k \in 1 .. Len(open') : k = 1 \/ k = 2
    BY <1>15
  <2> QED BY <1>15, <2>1, <2>2 DEF Shape
<1>18. Containers'
  <2>1. ASSUME NEW t \in 1 .. Len(tables') PROVE IsTable(tables'[t]) /\ tables'[t].parent \in 0 .. t - 1
    <3>1. CASE t \in 1 .. Len(tables)
      BY <1>3, <1>12, <3>1 DEF Containers
    <3>2. CASE t = Len(tables) + 1
      <4>1. currentTable \in 0 .. t - 1
        BY <1>3, <3>2
      <4> QED BY <1>d, <1>11, <3>2, <4>1 DEF IsTable
    <3> QED BY <1>3, <1>11, <3>1, <3>2
  <2>2. ASSUME NEW b \in 1 .. Len(blocks') PROVE IsBlock(blocks'[b]) /\ blocks'[b].table \in 1 .. Len(tables')
    <3>1. blocks' = blocks /\ b \in 1 .. Len(blocks) /\ Len(tables) \in Nat
      BY <1>3, <1>14 DEF Containers
    <3>2. IsBlock(blocks[b]) /\ blocks[b].table \in 1 .. Len(tables)
      BY <1>3, <3>1 DEF Containers
    <3>3. 1 .. Len(tables) \subseteq 1 .. Len(tables')
      BY <1>11, <3>1
    <3> QED BY <3>1, <3>2, <3>3
  <2>3. ASSUME NEW f \in 1 .. Len(functions')
        PROVE  IsFunction(functions'[f]) /\ functions'[f].table \in 1 .. Len(tables')
    <3>1. CASE f \in 1 .. Len(functions)
      <4>1. functions'[f] = functions[f] /\ IsFunction(functions[f]) /\ functions[f].table \in 1 .. Len(tables)
        BY <1>3, <1>13, <3>1 DEF Containers
      <4> QED BY <1>3, <1>11, <4>1
    <3>2. CASE f = Len(functions) + 1
      <4>1. Len(tables) + 1 \in 1 .. Len(tables')
        BY <1>3, <1>11
      <4> QED BY <1>13, <3>2, <4>1 DEF IsFunction
    <3> QED BY <1>13, <3>1, <3>2
  <2>4. Len(tables') \in Nat \ {0} /\ Len(functions') \in Nat
    BY <1>3, <1>11, <1>13
  <2> QED BY <1>3, <1>11, <1>13, <1>14, <2>1, <2>2, <2>3, <2>4 DEF Containers
<1>19. MorePlaces
  <2>1. Len(tables') >= Len(tables) /\ Len(blocks) \in Nat /\ Len(blocks') >= Len(blocks)
    BY <1>3, <1>11, <1>14 DEF Containers
  <2> QED BY <1>12, <1>13, <1>14, <2>1 DEF MorePlaces
<1>20. Moves(tab, 1)
  <2>1. /\ IsSeq(blockStack) /\ Len(blockStack) = 0 /\ currentFunction = Null /\ currentBlock = Null
    <3>1. IsSeq(blockStack) /\ Len(blockStack) = dep[1] /\ dep[1] = 0 /\ currentFunction = Null
      BY <1>1 DEF Held, Placed, Standing, Ladder
    <3>2. blockStack = <<>>
      BY <3>1 DEF IsSeq
    <3> QED BY <3>1, <3>2 DEF Held, Placed, Standing
  <2>2. blockStack = <<>>
    BY <2>1 DEF IsSeq
  <2>3. Opening(Len(tables) + 1, 0, "function", Null)
    <3>1. d1.kind = Top.kind /\ d1.block = Top.block /\ d2.kind = "function" /\ d2.block = Null
      BY <1>d, <1>16
    <3>2. \A k \in 1 .. Len(open) : k = 1
      BY <1>1
    <3>3. Len(open') = Len(open) + 1 /\ Len(open) + 1 = 2 /\ ~(Len(open) > 1)
      BY <1>1, <1>15
    <3>4. tables'[Len(tables) + 1].parent = currentTable /\ currentTable < Len(tables) + 1
      BY <1>d, <1>3, <1>11
    <3>5. /\ currentFunction' = Len(functions') /\ Len(functions') > 0
          /\ functions'[currentFunction'].table = Len(tables) + 1
      BY <1>2, <1>13
    <3>6. /\ \A k \in 1 .. Len(open) : open'[k].kind = open[k].kind /\ open'[k].block = open[k].block
          /\ open'[Len(open) + 1].kind = "function" /\ open'[Len(open) + 1].block = Null
      BY <1>3, <1>15, <3>1, <3>2, <3>3
    <3>7. /\ IsSeq(blockStack') /\ Len(blockStack') = 0 /\ blockStack' = <<>> /\ currentBlock' = Null
          /\ currentTable' = Len(tables) + 1
      BY <1>1, <1>2, <2>1, <2>2
    <3>8. 0 >= Len(blockStack) /\ \A i \in 1 .. 0 : FALSE
      BY <2>1
    <3> QED BY <2>1, <3>3, <3>4, <3>5, <3>6, <3>7, <3>8 DEF Opening
  <2>4. PICK t : t = Len(tables) + 1
    OBVIOUS
  <2>5. t \in 1 .. Len(tables') /\ Opening(t, 0, "function", Null) /\ Placed(tab, dep) /\ 0 \in Nat
    BY <1>3, <1>11, <2>3, <2>4 DEF Held
  <2>6. Moves(tab, Len(open))
    BY <1>17, <1>18, <1>19, <2>5, OpeningPlaced
  <2> QED BY <1>1, <2>6
<1>21. PendingName = "" /\ PendingName' = ""
  BY <1>1 DEF PendingName, NoItem
<1>22. name \in FunctionNames /\ name \in Known /\ name \notin Names /\ name \notin DOMAIN Top.declared
  BY ScopesAssumption DEF Known
<1>23. NamedAt(Top, currentTable, "")
  BY <1>1, <1>3, <1>16, <1>21 DEF ContextNamed
<1>24. name \notin DOMAIN tables[currentTable].entries
  BY <1>22, <1>23 DEF NamedAt
<1>25. /\ DOMAIN tables'[currentTable].entries = DOMAIN tables[currentTable].entries \cup {name}
       /\ tables'[currentTable].entries[name] = e
       /\ \A other \in DOMAIN tables[currentTable].entries :
            tables'[currentTable].entries[other] = tables[currentTable].entries[other]
  BY <1>12, <1>24 DEF With
<1>26. NamesStay
  <2> SUFFICES ASSUME NEW t \in 1 .. Len(tables), NEW other \in DOMAIN tables[t].entries
               PROVE  other \in DOMAIN tables'[t].entries /\ tables'[t].entries[other] = tables[t].entries[other]
    BY DEF NamesStay
  <2>1. CASE t = currentTable
    BY <1>25, <2>1
  <2>2. CASE t # currentTable
    BY <1>12, <2>2
  <2> QED BY <2>1, <2>2
<1>27. ContextNamed(1, tab[1])'
  <2>1. PICK c : c = d1
    OBVIOUS
  <2>2. /\ DOMAIN c.declared = DOMAIN Top.declared \cup {name}
        /\ c.declared[name] = [kind |-> "function", id |-> tokens]
        /\ \A other \in DOMAIN Top.declared : c.declared[other] = Top.declared[other]
    BY <1>16, <1>22, <2>1 DEF With, Declaration
  <2>3. PICK t : t = tab[1] /\ t = currentTable
    BY <1>3
  <2>4. ASSUME NEW other \in Known
        PROVE  /\ other \in DOMAIN tables'[t].entries <=> other \in DOMAIN c.declared /\ other # ""
               /\ other \in DOMAIN tables'[t].entries =>
                    Stands(tables[t].entries[other], c.declared[other])'
    <3>1. other \in DOMAIN tables[t].entries <=> other \in DOMAIN Top.declared /\ other # ""
      BY <1>23, <2>3, <2>4 DEF NamedAt
    <3>2. CASE other = name
      <4>1. e \in 1 .. Len(entries')
        BY <1>e, <1>3, <1>4, <1>9
      <4>2. Stands(e, c.declared[name])'
        BY <1>9, <2>2, <4>1 DEF Stands, Entry
      <4>3. name # ""
        BY <1>22, ScopesAssumption
      <4> QED BY <1>25, <2>2, <2>3, <3>2, <4>2, <4>3
    <3>3. CASE other # name
      <4>1. /\ other \in DOMAIN tables'[t].entries <=> other \in DOMAIN Top.declared /\ other # ""
            /\ other \in DOMAIN c.declared <=> other \in DOMAIN Top.declared
        BY <1>25, <2>2, <2>3, <3>1, <3>3
      <4>2. ASSUME other \in DOMAIN tables'[t].entries PROVE Stands(tables[t].entries[other], c.declared[other])'
        <5>1. other \in DOMAIN tables[t].entries /\ other \in DOMAIN Top.declared
          BY <3>1, <4>1, <4>2
        <5>2. Stands(tables[t].entries[other], Top.declared[other])
          BY <1>23, <2>3, <5>1 DEF NamedAt
        <5>3. tables'[t].entries[other] = tables[t].entries[other] /\ c.declared[other] = Top.declared[other]
          BY <1>25, <2>2, <2>3, <5>1
        <5> QED BY <1>3, <1>9, <5>2, <5>3 DEF Stands, EntriesKept
      <4> QED BY <4>1, <4>2
    <3> QED BY <3>2, <3>3
  <2>5. NamedAt(c, t, "")'
    BY <2>4 DEF NamedAt
  <2> QED BY <1>15, <1>21, <2>1, <2>3, <2>5 DEF ContextNamed
<1>28. ContextNamed(2, currentTable)'
  <2>1. PICK c, t : c = d2 /\ t = Len(tables) + 1
    OBVIOUS
  <2>2. /\ DOMAIN c.declared = ToSet(parameters)
        /\ \A p \in ToSet(parameters) :
             c.declared[p] = [kind |-> "variable", id |-> tokens + number(parameters, p)]
    BY <1>d, <2>1
  <2>3. /\ DOMAIN tables'[t].entries = ToSet(parameters)
        /\ \A p \in ToSet(parameters) : tables'[t].entries[p] = e + number(parameters, p)
    BY <1>d, <1>11, <2>1
  <2>4. ASSUME NEW p \in ToSet(parameters) PROVE Stands(tables[t].entries[p], c.declared[p])'
    <3>1. PICK k \in 1 .. Len(parameters) : k = number(parameters, p)
      BY <1>5
    <3>2. e + k \in 1 .. Len(entries')
      BY <1>e, <1>3, <1>4, <1>9
    <3>3. entries'[e + k] = Entry(parameters[k], "param", tokens + k)
      BY <1>9
    <3>4. PICK x, d : x = e + k /\ d = c.declared[p]
      OBVIOUS
    <3>5. tables'[t].entries[p] = x /\ d = [kind |-> "variable", id |-> tokens + k]
      BY <2>2, <2>3, <3>1, <3>4
    <3>6. Stands(x, d)'
      BY <3>2, <3>3, <3>4, <3>5 DEF Stands, Entry
    <3> QED BY <3>4, <3>5, <3>6
  <2>5. NamedAt(c, t, "")'
    <3>1. \A p \in ToSet(parameters) : p # ""
      BY <1>5, ScopesAssumption
    <3> QED BY <2>2, <2>3, <2>4, <3>1 DEF NamedAt
  <2> QED BY <1>2, <1>15, <1>21, <2>1, <2>5 DEF ContextNamed
<1>29. \E tab2, dep2 : (Placed(tab2, dep2) /\ Named(tab2))'
  <2>1. ASSUME NEW k \in 1 .. Len(open')
        PROVE  \/ k \in 1 .. 1 /\ ContextNamed(k, tab[k])'
               \/ k = Len(open') /\ ContextNamed(k, currentTable)'
    <3>1. k = 1 \/ k = 2
      BY <1>15
    <3> QED BY <1>15, <1>27, <1>28, <3>1
  <2> QED BY <1>20, <2>1, NamedAfter
<1>30. Declared(d1)' /\ Declared(d2)'
  <2>1. /\ DOMAIN d1.declared = DOMAIN Top.declared \cup {name}
        /\ d1.declared[name] = [kind |-> "function", id |-> tokens]
        /\ \A other \in DOMAIN Top.declared : d1.declared[other] = Top.declared[other]
        /\ d1.kind = "global"
    BY <1>16, <1>22 DEF With, Declaration
  <2>2. tokens \in 1 .. tokens' - 1 /\ \A i \in 1 .. tokens - 1 : i \in 1 .. tokens' - 1
    BY <1>3, <1>4, <1>8
  <2>3. PICK c1, c2 : c1 = d1 /\ c2 = d2
    OBVIOUS
  <2>4. Declared(c1)'
    <3>1. DOMAIN c1.declared \subseteq Known /\ c1.kind = "global"
      BY <1>3, <1>22, <2>1, <2>3 DEF Declared
    <3>2. ASSUME NEW other \in DOMAIN c1.declared
          PROVE  /\ c1.declared[other].id \in 1 .. tokens' - 1
                 /\ c1.declared[other].kind = IF other \in FunctionNames THEN "function" ELSE "variable"
      <4>1. CASE other = name
        BY <1>22, <2>1, <2>2, <2>3, <4>1
      <4>2. CASE other # name
        <5>1. other \in DOMAIN Top.declared /\ c1.declared[other] = Top.declared[other]
          BY <2>1, <2>3, <4>2
        <5> QED BY <1>3, <2>2, <5>1 DEF Declared
      <4> QED BY <4>1, <4>2
    <3> QED BY <3>1, <3>2 DEF Declared
  <2>5. Declared(c2)'
    <3>1. /\ DOMAIN c2.declared = ToSet(parameters) /\ c2.kind = "function"
          /\ \A p \in ToSet(parameters) :
               c2.declared[p] = [kind |-> "variable", id |-> tokens + number(parameters, p)]
      BY <1>d, <2>3
    <3>2. \A p \in ToSet(parameters) : p \in Known /\ p \notin FunctionNames
      BY <1>5, ScopesAssumption DEF Known
    <3>3. \A p \in ToSet(parameters) : tokens + number(parameters, p) \in 1 .. tokens' - 1
      BY <1>3, <1>4, <1>5, <1>8
    <3>4. ASSUME NEW p \in DOMAIN c2.declared
          PROVE  /\ c2.declared[p].id \in 1 .. tokens' - 1 /\ c2.declared[p].kind = "variable"
                 /\ p \notin FunctionNames
      <4>1. c2.declared[p] = [kind |-> "variable", id |-> tokens + number(parameters, p)]
        BY <3>1
      <4> QED BY <3>1, <3>2, <3>3, <4>1
    <3> QED BY <3>1, <3>2, <3>4 DEF Declared
  <2> QED BY <2>3, <2>4, <2>5 DEF Declared
<1>31. \A k \in 1 .. Len(open') : Declared(open[k])'
  <2> SUFFICES ASSUME NEW k \in 1 .. Len(open') PROVE Declared(open[k])'
    OBVIOUS
  <2>1. open'[k] = d1 \/ open'[k] = d2
    <3>1. k = 1 \/ k = 2
      BY <1>15
    <3> QED BY <1>15, <3>1
  <2>2. PICK c1, c2 : c1 = d1 /\ c2 = d2
    OBVIOUS
  <2>3. Declared(c1)' /\ Declared(c2)'
    BY <1>30, <2>2 DEF Declared
  <2> QED BY <2>1, <2>2, <2>3
<1>32. \A f \in 1 .. Len(functions') : ParametersFit(functions[f])'
  <2>1. ASSUME NEW f \in 1 .. Len(functions) PROVE ParametersFit(functions[f])'
    BY <1>9, <1>13, <1>26, <2>1, FunctionsFit
  <2>2. PICK g : g = [entry |-> e, table |-> Len(tables) + 1, parameters |-> parameters, body |-> Null]
    OBVIOUS
  <2>3. ParametersFit(g)'
    <3>1. g.entry = e /\ g.table = Len(tables) + 1 /\ g.parameters = parameters
      BY <2>2
    <3>2. e \in 1 .. Len(entries') /\ entries'[e].scope = "function" /\ entries'[e].id = tokens
      <4>1. e \in 1 .. Len(entries')
        BY <1>e, <1>3, <1>4, <1>9
      <4> QED BY <1>9, <4>1 DEF Entry
    <3>3. ASSUME NEW k \in 1 .. Len(parameters)
          PROVE  /\ e + k \in 1 .. Len(entries')
                 /\ entries'[e + k].scope = "param" /\ entries'[e + k].id = tokens + k
                 /\ parameters[k] \in DOMAIN two.entries /\ two.entries[parameters[k]] = e + k
      <4>1. e + k \in 1 .. Len(entries')
        BY <1>e, <1>3, <1>4, <1>9
      <4>2. entries'[e + k] = Entry(parameters[k], "param", tokens + k)
        BY <1>9
      <4>3. parameters[k] \in DOMAIN two.entries /\ two.entries[parameters[k]] = e + number(parameters, parameters[k])
        BY <1>d, <1>5
      <4> QED BY <1>5, <4>1, <4>2, <4>3 DEF Entry
    <3> QED BY <1>4, <1>11, <3>1, <3>2, <3>3 DEF ParametersFit
  <2>4. functions'[Len(functions) + 1] = g
    BY <1>13, <2>2
  <2>5. ASSUME NEW f \in 1 .. Len(functions'), f \notin 1 .. Len(functions) PROVE ParametersFit(functions[f])'
    <3>1. f = Len(functions) + 1
      BY <1>13, <2>5
    <3> QED BY <2>3, <2>4, <3>1
  <2> QED BY <2>1, <2>5
<1>33. ItemFits' /\ tokens' \in Nat \ {0} /\ tempCounter' \in Nat /\ tempCounter' < tokens'
  <2>1. ItemFits'
    BY <1>1 DEF ItemFits
  <2>2. tempCounter \in Nat /\ tempCounter < tokens
    BY DEF Held, Symbols
  <2> QED BY <1>1, <1>3, <1>4, <1>8, <2>1, <2>2
<1> QED BY <1>1, <1>9, <1>26, <1>29, <1>31, <1>32, <1>33 DEF StillHeld, Symbols

(* Steps that close scopes. *)
LEMMA PrefixFacts ==
  ASSUME NEW s, IsSeq(s), NEW m \in 0 .. Len(s)
  PROVE  /\ IsSeq(SubSeq(s, 1, m)) /\ Len(SubSeq(s, 1, m)) = m
         /\ \A k \in 1 .. m : SubSeq(s, 1, m)[k] = s[k]
<1>1. PICK S : s \in Seq(S)
  BY DEF IsSeq
<1>2. SubSeq(s, 1, m) \in Seq(S)
  BY <1>1
<1> QED BY <1>1, <1>2 DEF IsSeq

LEMMA FrontPrefix ==
  ASSUME NEW s, IsSeq(s), s # <<>>
  PROVE  /\ IsSeq(Front(s)) /\ Len(Front(s)) = Len(s) - 1 /\ Len(s) \in Nat \ {0}
         /\ \A k \in 1 .. Len(s) - 1 : Front(s)[k] = s[k]
<1>1. PICK S : s \in Seq(S)
  BY DEF IsSeq
<1> QED BY <1>1, FrontFacts DEF IsSeq

LEMMA UpTo ==
  ASSUME NEW n \in Nat, NEW m \in 1 .. n
  PROVE  (\A k \in 1 .. m : k \in 1 .. n) /\ m \in 0 .. n /\ m \in Nat \ {0}
OBVIOUS

LEMMA Later ==
  ASSUME tokens \in Nat \ {0}, tokens' = tokens + 1
  PROVE  /\ tokens \in Nat /\ tokens' \in Nat \ {0} /\ tokens' >= tokens
         /\ \A i \in 1 .. tokens - 1 : i \in 1 .. tokens' - 1
         /\ \A i \in Nat : i < tokens => i < tokens'
OBVIOUS

LEMMA DeclaredLater ==
  ASSUME NEW c, Declared(c), \A i \in 1 .. tokens - 1 : i \in 1 .. tokens' - 1
  PROVE  Declared(c)'
BY DEF Declared

LEMMA ClosingHeld ==
  ASSUME NEW tab, NEW dep, Held(tab, dep), Writes(1), NEW m, Closing(tab, dep, m), SamePlaces,
         UNCHANGED <<tables, functions, entries, tempCounter, phase>>, item' = <<>>, PendingName = ""
  PROVE  StillHeld
<1>1. /\ Len(open) \in Nat \ {0} /\ tokens \in Nat \ {0} /\ tokens' = tokens + 1
      /\ phase' = "parse" /\ EntriesFit
      /\ m \in 1 .. Len(open) /\ Len(open') = m /\ \A k \in 1 .. m : open'[k] = open[k]
  BY HeldFacts DEF Writes, Closing
<1>0. /\ tokens \in Nat /\ tokens' \in Nat \ {0} /\ tokens' >= tokens
      /\ \A i \in 1 .. tokens - 1 : i \in 1 .. tokens' - 1
      /\ \A i \in Nat : i < tokens => i < tokens'
  BY <1>1, Later
<1>2. EntriesFit' /\ EntriesKept /\ NamesStay /\ \A t \in 1 .. Len(tables) : NamesKept(t)
  BY <1>0, <1>1, UnchangedEntriesFit, SameNames
<1>3. Moves(tab, m)
  BY ClosingPlaced DEF Held
<1>4. PendingName' = ""
  BY DEF PendingName, NoItem
<1>5. \A k \in 1 .. m : k \in 1 .. Len(open)
  BY <1>1, UpTo
<1>6. ASSUME NEW k \in 1 .. Len(open') PROVE ContextNamed(k, tab[k])'
  <2>1. tab[k] \in 1 .. Len(tables) /\ k \in 1 .. Len(open) /\ open'[k] = open[k]
    BY <1>1, <1>5 DEF Held, Placed, Ladder
  <2> QED BY <1>2, <1>4, <2>1, OlderNamed
<1>7. \E tab2, dep2 : (Placed(tab2, dep2) /\ Named(tab2))'
  BY <1>1, <1>3, <1>6, NamedAfter
<1>8. ASSUME NEW k \in 1 .. Len(open') PROVE Declared(open[k])'
  <2>1. open'[k] = open[k] /\ Declared(open[k])
    BY <1>1, <1>5 DEF Held, Symbols
  <2>2. PICK c : c = open[k]
    OBVIOUS
  <2>3. Declared(c)'
    BY <1>0, <2>1, <2>2, DeclaredLater
  <2> QED BY <2>1, <2>2, <2>3
<1>9. \A f \in 1 .. Len(functions') : ParametersFit(functions[f])'
  BY <1>2, FunctionsFit
<1>10. ItemFits' /\ tokens' \in Nat \ {0} /\ tempCounter' \in Nat /\ tempCounter' < tokens'
  <2>1. ItemFits'
    BY DEF ItemFits
  <2>2. tempCounter \in Nat /\ tempCounter < tokens
    BY DEF Held, Symbols
  <2> QED BY <1>0, <2>1, <2>2
<1> QED BY <1>1, <1>2, <1>7, <1>8, <1>9, <1>10 DEF StillHeld, Symbols

LEMMA OutsideOfAll ==
  ASSUME NEW tab, NEW dep, Held(tab, dep)
  PROVE  LET m == Outside(open)
         IN /\ m \in 1 .. Len(open) /\ open[m].kind # "if"
            /\ tab[m] = currentTable /\ dep[m] = Len(blockStack)
            /\ m = 1 => Len(open) = 1
<1>1. PICK m : m = Outside(open)
  OBVIOUS
<1>2. /\ m \in 1 .. Len(open) /\ open[m].kind # "if" /\ \A j \in m + 1 .. Len(open) : open[j].kind = "if"
      /\ Len(open) \in Nat \ {0} /\ Shape(open)
  BY <1>1, HeldFacts, OutsideFacts
<1>3. Len(open) \in m .. Len(open) /\ Len(open) \in 1 .. Len(open)
  BY <1>2
<1>4. tab[m] = currentTable /\ dep[m] = Len(blockStack)
  <2>1. tab[Len(open)] = tab[m] /\ dep[Len(open)] = dep[m]
    BY <1>2, <1>3, IfsSame DEF Held
  <2> QED BY <2>1 DEF Held, Placed, Standing
<1>5. m = 1 => Len(open) = 1
  <2> SUFFICES ASSUME m = 1, Len(open) # 1 PROVE FALSE
    OBVIOUS
  <2>1. 2 \in m + 1 .. Len(open) /\ 2 \in 1 .. Len(open)
    <3>1. \A n \in Nat \ {0} : n # 1 => 2 \in 1 + 1 .. n /\ 2 \in 1 .. n
      OBVIOUS
    <3> QED BY <1>2, <3>1
  <2> QED BY <1>2, <2>1 DEF Shape
<1> QED BY <1>1, <1>2, <1>4, <1>5

LEMMA EndStatementHeld ==
  ASSUME NEW tab, NEW dep, Held(tab, dep), Writes(1), NEW statement,
         EndStatement(statement, open, currentBlock),
         UNCHANGED <<tables, functions, entries, tempCounter, phase, driver>>,
         item' = <<>>, PendingName = ""
  PROVE  StillHeld
<1>1. PICK m : m = Outside(open)
  OBVIOUS
<1>2. /\ m \in 1 .. Len(open) /\ tab[m] = currentTable /\ dep[m] = Len(blockStack)
      /\ m = 1 => Len(open) = 1
  BY <1>1, OutsideOfAll
<1>3. /\ Len(open) \in Nat \ {0} /\ IsSeq(open) /\ Containers
  BY HeldFacts
<1>4. IsSeq(open') /\ Len(open') = m /\ \A k \in 1 .. m : open'[k] = open[k]
  <2>1. open' = SubSeq(open, 1, m) /\ m \in 0 .. Len(open)
    BY <1>1, <1>2, <1>3, UpTo DEF EndStatement
  <2> QED BY <1>3, <2>1, PrefixFacts
<1>5. SamePlaces
  BY <1>3, AppendStatementSamePlaces DEF EndStatement
<1>6. Closing(tab, dep, m)
  <2>1. /\ IsSeq(blockStack) /\ currentBlock = IF blockStack = <<>> THEN Null ELSE Last(blockStack)
        /\ currentFunction = IF Len(open) = 1 THEN Null ELSE Len(functions)
    BY DEF Held, Placed, Standing
  <2> QED BY <1>2, <1>4, <2>1 DEF Closing, driver
<1> QED BY <1>5, <1>6, ClosingHeld

LEMMA EndExpressionHeld ==
  ASSUME NEW tab, NEW dep, Held(tab, dep), EndExpression PROVE StillHeld
<1>1. Item.kind = "expression" /\ item # <<>>
  BY DEF EndExpression, NoItem
<1>2. PendingName = ""
  BY <1>1 DEF PendingName, Held, Symbols, ItemFits
<1>3. PICK statement : EndStatement(statement, open, currentBlock)
  BY DEF EndExpression
<1>4. /\ Writes(1) /\ item' = <<>>
      /\ UNCHANGED <<tables, functions, entries, tempCounter, phase, driver>>
  BY DEF EndExpression
<1> QED BY <1>2, <1>3, <1>4, EndStatementHeld

LEMMA EndDeclarationHeld ==
  ASSUME NEW tab, NEW dep, Held(tab, dep), EndDeclaration PROVE StillHeld
<1>1. Item.name = "" /\ item # <<>>
  BY DEF EndDeclaration, NoItem, Reading
<1>2. PendingName = ""
  BY <1>1 DEF PendingName
<1>3. PICK statement : EndStatement(statement, open, currentBlock)
  BY DEF EndDeclaration
<1>4. /\ Writes(1) /\ item' = <<>>
      /\ UNCHANGED <<tables, functions, entries, tempCounter, phase, driver>>
  BY DEF EndDeclaration
<1> QED BY <1>2, <1>3, <1>4, EndStatementHeld

LEMMA CloseBlockCloses ==
  ASSUME NEW tab, NEW dep, Held(tab, dep), CloseBlock
  PROVE  SamePlaces /\ Closing(tab, dep, Outside(Front(open)))
<1>1. /\ Writes(1) /\ item = <<>> /\ item' = <<>> /\ Top.kind = "block" /\ Below.kind # "function"
      /\ UNCHANGED <<tables, functions, entries, tempCounter, phase>> /\ currentFunction' = currentFunction
      /\ blockStack' = Front(blockStack)
      /\ currentBlock' = Restored(Front(blockStack)).block
      /\ currentTable' = Restored(Front(blockStack)).table
      /\ EndStatement([kind |-> "block", block |-> currentBlock], Front(open), Restored(Front(blockStack)).block)
  BY DEF CloseBlock
<1>2. /\ Len(open) \in Nat \ {0} /\ IsSeq(open) /\ Shape(open) /\ Containers /\ Top = open[Len(open)]
      /\ Len(open) \in 1 .. Len(open)
  BY HeldFacts
<1>3. PICK n : n = Len(open) - 1
  OBVIOUS
<1>4. n \in Nat /\ n >= 3 /\ n \in 1 .. Len(open) /\ Len(open) = n + 1
  <2>1. Len(open) # 1 /\ Len(open) # 2
    BY <1>1, <1>2 DEF Shape
  <2>2. Len(open) # 3
    <3>1. Len(open) = 3 => 2 \in 1 .. Len(open) /\ Below = open[2]
      BY <1>2 DEF Below
    <3> QED BY <1>1, <3>1, <1>2 DEF Shape
  <2>3. \A l \in Nat \ {0} : l # 1 /\ l # 2 /\ l # 3 => l - 1 \in Nat /\ l - 1 >= 3 /\ l - 1 \in 1 .. l /\ l = (l - 1) + 1
    OBVIOUS
  <2> QED BY <1>2, <1>3, <2>1, <2>2, <2>3
<1>5. PICK contexts : contexts = Front(open)
  OBVIOUS
<1>6. IsSeq(contexts) /\ Len(contexts) = n /\ \A k \in 1 .. n : contexts[k] = open[k] /\ k \in 1 .. Len(open)
  <2>1. open # <<>>
    BY <1>2
  <2>2. \A k \in 1 .. n : k \in 1 .. Len(open)
    BY <1>2, <1>4, UpTo
  <2> QED BY <1>2, <1>3, <1>5, <2>1, <2>2, FrontPrefix
<1>7. Shape(contexts)
  <2>1. n \in Nat \ {0}
    BY <1>4
  <2> QED BY <1>2, <1>6, <2>1 DEF Shape
<1>8. PICK m : m = Outside(contexts)
  OBVIOUS
<1>9. m \in 1 .. n /\ contexts[m].kind # "if" /\ \A j \in m + 1 .. n : contexts[j].kind = "if"
  BY <1>6, <1>7, <1>8, OutsideFacts
<1>10. m \in 2 .. Len(open) /\ m \in 1 .. Len(open) /\ m # 1 /\ m \in 0 .. n /\ m \in Nat /\ n \in m .. n
  <2>1. m # 1
    <3>1. m = 1 => 2 \in m + 1 .. n /\ 2 \in 1 .. n
      BY <1>4
    <3> QED BY <1>7, <1>9, <3>1, <1>6 DEF Shape
  <2> QED BY <1>4, <1>9, <2>1
<1>11. tab[n] = tab[m] /\ dep[n] = dep[m]
  <2>1. \A j \in m + 1 .. n : open[j].kind = "if"
    <3>1. \A j \in m + 1 .. n : j \in 1 .. n
      BY <1>10
    <3> QED BY <1>6, <1>9, <3>1
  <2> QED BY SMTT(30), <1>4, <1>10, <2>1, IfsSame DEF Held
<1>12. /\ IsSeq(blockStack) /\ Len(blockStack) = dep[n] + 1 /\ dep[n] \in Nat /\ blockStack # <<>>
  <2>1. Len(open) \in 2 .. Len(open) /\ Len(open) - 1 = n
    BY <1>4
  <2>2. IsSeq(blockStack) /\ Len(blockStack) = dep[Len(open)] /\ Rung(tab, dep, Len(open))
    BY <2>1 DEF Held, Placed, Standing, Ladder
  <2>3. Len(blockStack) = dep[n] + 1
    BY <1>1, <1>2, <2>1, <2>2 DEF Rung
  <2>4. dep[n] \in 0 .. Len(blockStack)
    BY <1>4 DEF Held, Placed, Ladder
  <2>5. Len(blockStack) \in Nat
    BY <2>2 DEF IsSeq
  <2>6. Len(blockStack) # 0 /\ dep[n] \in Nat
    BY <2>3, <2>4, <2>5
  <2> QED BY <2>2, <2>3, <2>6
<1>13. PICK stack : stack = Front(blockStack)
  OBVIOUS
<1>14. IsSeq(stack) /\ Len(stack) = dep[m] /\ \A d \in 1 .. dep[m] : stack[d] = blockStack[d]
  <2>1. IsSeq(stack) /\ Len(stack) = Len(blockStack) - 1 /\ \A d \in 1 .. Len(blockStack) - 1 : stack[d] = blockStack[d]
    BY <1>12, <1>13, FrontPrefix
  <2>2. Len(blockStack) - 1 = dep[m]
    BY <1>11, <1>12
  <2> QED BY <2>1, <2>2
<1>15. Restored(stack) = [block |-> IF stack = <<>> THEN Null ELSE Last(stack), table |-> tab[m]]
  <2>1. tab[m] = IF dep[m] = 0 THEN functions[currentFunction].table ELSE blocks[blockStack[dep[m]]].table
    <3>1. Rung(tab, dep, m)
      BY <1>10 DEF Held, Placed, Ladder
    <3> QED BY <3>1 DEF Rung
  <2>2. CASE stack = <<>>
    BY <1>14, <2>1, <2>2, NothingIsSeq DEF Restored
  <2>3. CASE stack # <<>>
    <3>1. Len(stack) \in Nat \ {0} /\ Last(stack) = stack[Len(stack)]
      BY <1>14, <2>3, LastFacts
    <3>2. dep[m] \in 1 .. dep[m] /\ dep[m] # 0
      BY <1>14, <3>1
    <3>3. Last(stack) = blockStack[dep[m]]
      BY <1>14, <3>1, <3>2
    <3> QED BY <2>1, <2>3, <3>2, <3>3 DEF Restored
  <2> QED BY <2>2, <2>3
<1>16. IsSeq(open') /\ Len(open') = m /\ \A k \in 1 .. m : open'[k] = open[k]
  <2>1. open' = SubSeq(contexts, 1, m)
    BY <1>1, <1>5, <1>8 DEF EndStatement
  <2>2. IsSeq(open') /\ Len(open') = m /\ \A k \in 1 .. m : open'[k] = contexts[k]
    BY <1>6, <1>10, <2>1, PrefixFacts
  <2>3. \A k \in 1 .. m : k \in 1 .. n
    BY <1>4, <1>9, UpTo
  <2> QED BY <1>6, <2>2, <2>3
<1>17. SamePlaces
  BY <1>1, <1>2, AppendStatementSamePlaces DEF EndStatement
<1>18. Closing(tab, dep, m)
  BY <1>1, <1>10, <1>13, <1>14, <1>15, <1>16 DEF Closing
<1> QED BY <1>5, <1>8, <1>17, <1>18

LEMMA CloseBlockHeld ==
  ASSUME NEW tab, NEW dep, Held(tab, dep), CloseBlock PROVE StillHeld
<1>1. PICK m : m = Outside(Front(open)) /\ SamePlaces /\ Closing(tab, dep, m)
  BY CloseBlockCloses
<1>2. /\ Writes(1) /\ item = <<>> /\ item' = <<>>
      /\ UNCHANGED <<tables, functions, entries, tempCounter, phase>>
  BY DEF CloseBlock
<1>3. PendingName = ""
  BY <1>2 DEF PendingName, NoItem
<1> QED BY <1>1, <1>2, <1>3, ClosingHeld

(* The end of a function leads back to the program.                        *)
LEMMA QuitHeld ==
  ASSUME NEW tab, NEW dep, Held(tab, dep), Writes(1), QuitFunction, item = <<>>,
         UNCHANGED <<item, tables, entries, tree, tempCounter, phase>>, open' = SubSeq(open, 1, 1)
  PROVE  StillHeld
<1>1. /\ Len(open) \in Nat \ {0} /\ IsSeq(open) /\ Containers /\ 1 \in 1 .. Len(open) /\ 1 \in 0 .. Len(open)
  BY HeldFacts
<1>2. IsSeq(open') /\ Len(open') = 1 /\ \A k \in 1 .. 1 : open'[k] = open[k]
  BY <1>1, PrefixFacts
<1>3. tab[1] = Global /\ dep[1] = 0
  BY DEF Held, Placed, Ladder
<1>4. Closing(tab, dep, 1)
  BY <1>1, <1>2, <1>3, NothingIsSeq DEF Closing, QuitFunction
<1>5. SamePlaces /\ UNCHANGED functions
  BY <1>1, UnchangedPlaces DEF tree
<1>6. PendingName = ""
  BY DEF PendingName, NoItem
<1>7. UNCHANGED <<tables, functions, entries, tempCounter, phase>> /\ item' = <<>>
  BY <1>5
<1> QED BY <1>4, <1>5, <1>6, <1>7, ClosingHeld

LEMMA CloseFunctionHeld ==
  ASSUME NEW tab, NEW dep, Held(tab, dep), CloseFunction PROVE StillHeld
<1>1. /\ Writes(1) /\ QuitFunction /\ item = <<>> /\ Top.kind = "block" /\ Below.kind = "function"
      /\ UNCHANGED <<item, tables, entries, tree, tempCounter, phase>>
      /\ open' = SubSeq(open, 1, Len(open) - 2)
  BY DEF CloseFunction
<1>2. Len(open) \in Nat \ {0} /\ Shape(open) /\ Top = open[Len(open)] /\ Len(open) \in 1 .. Len(open)
  BY HeldFacts
<1>3. Len(open) = 3
  <2>1. Len(open) # 1
    BY <1>1, <1>2 DEF Shape
  <2>2. \A l \in Nat \ {0} : l # 1 => l - 1 \in 1 .. l
    OBVIOUS
  <2>3. Len(open) - 1 = 2
    BY <1>1, <1>2, <2>1, <2>2 DEF Shape, Below
  <2> QED BY <1>2, <2>3
<1>4. open' = SubSeq(open, 1, 1)
  BY <1>1, <1>3
<1> QED BY <1>1, <1>4, QuitHeld

LEMMA EmptyBodyHeld ==
  ASSUME NEW tab, NEW dep, Held(tab, dep), EmptyBody PROVE StillHeld
<1>1. /\ Writes(1) /\ QuitFunction /\ item = <<>> /\ Top.kind = "function"
      /\ UNCHANGED <<item, tables, entries, tree, tempCounter, phase>>
      /\ open' = Front(open)
  BY DEF EmptyBody
<1>2. Len(open) \in Nat \ {0} /\ Shape(open) /\ Top = open[Len(open)] /\ Len(open) \in 1 .. Len(open)
  BY HeldFacts
<1>3. Len(open) = 2
  BY <1>1, <1>2 DEF Shape
<1>4. open' = SubSeq(open, 1, 1)
  BY <1>1, <1>3 DEF Front
<1> QED BY <1>1, <1>4, QuitHeld

(* Steps of declarations. *)
LEMMA LastReplaced ==
  ASSUME NEW s, IsSeq(s), s # <<>>, NEW x
  PROVE  /\ IsSeq(Append(Front(s), x)) /\ Len(Append(Front(s), x)) = Len(s) /\ Len(s) \in Nat \ {0}
         /\ \A k \in 1 .. Len(s) : k # Len(s) => Append(Front(s), x)[k] = s[k]
         /\ Append(Front(s), x)[Len(s)] = x
<1>1. /\ IsSeq(Front(s)) /\ Len(Front(s)) = Len(s) - 1 /\ Len(s) \in Nat \ {0}
      /\ \A k \in 1 .. Len(s) - 1 : Front(s)[k] = s[k]
  BY FrontPrefix
<1>2. PICK t, u : t = Front(s) /\ u = Append(t, x)
  OBVIOUS
<1>3. /\ IsSeq(u) /\ Len(u) = Len(t) + 1 /\ u[Len(t) + 1] = x
      /\ \A k \in 1 .. Len(t) : u[k] = t[k]
  BY <1>1, <1>2, AppendFacts
<1>4. Len(t) + 1 = Len(s) /\ \A k \in 1 .. Len(s) : k # Len(s) => k \in 1 .. Len(t) /\ k \in 1 .. Len(s) - 1
  BY <1>1, <1>2
<1> QED BY <1>1, <1>2, <1>3, <1>4

LEMMA Begun ==
  ASSUME NEW name, NEW id, NEW scope
  PROVE  [Started("declaration") EXCEPT !.name = name, !.id = id, !.scope = scope]
         = [kind |-> "declaration", name |-> name, id |-> id, nodes |-> <<>>, defs |-> <<>>, scope |-> scope]
<1>1. PICK i : i = Started("declaration")
  OBVIOUS
<1>2. PICK j : j = [i EXCEPT !.name = name, !.id = id, !.scope = scope]
  OBVIOUS
<1>3. /\ DOMAIN i = {"kind", "name", "id", "nodes", "defs", "scope"}
      /\ i.kind = "declaration" /\ i.nodes = <<>> /\ i.defs = <<>>
  BY <1>1 DEF Started
<1>4. /\ j.name = name /\ j.id = id /\ j.scope = scope
      /\ j.kind = i.kind /\ j.nodes = i.nodes /\ j.defs = i.defs
  BY <1>2, <1>3
<1>5. j = [x \in {"kind", "name", "id", "nodes", "defs", "scope"} |-> j[x]]
  BY <1>2, <1>3
<1>6. j = [kind |-> j.kind, name |-> j.name, id |-> j.id, nodes |-> j.nodes, defs |-> j.defs, scope |-> j.scope]
  BY <1>5
<1> QED BY <1>1, <1>2, <1>3, <1>4, <1>6

Renaming(i, name, id) == [i EXCEPT !.name = name, !.id = id, !.nodes = <<>>]

LEMMA Renamed ==
  ASSUME NEW i, IsItem(i), NEW name, NEW id
  PROVE  Renaming(i, name, id)
         = [kind |-> i.kind, name |-> name, id |-> id, nodes |-> <<>>, defs |-> i.defs, scope |-> i.scope]
<1>1. PICK j : j = Renaming(i, name, id)
  OBVIOUS
<1>2. j = [i EXCEPT !.name = name, !.id = id, !.nodes = <<>>]
  BY <1>1 DEF Renaming
<1>3. DOMAIN i = {"kind", "name", "id", "nodes", "defs", "scope"}
  BY DEF IsItem
<1>4. /\ j.name = name /\ j.id = id /\ j.nodes = <<>>
      /\ j.kind = i.kind /\ j.defs = i.defs /\ j.scope = i.scope
  BY <1>2, <1>3
<1>5. j = [x \in {"kind", "name", "id", "nodes", "defs", "scope"} |-> j[x]]
  BY <1>2, <1>3
<1>6. j = [kind |-> j.kind, name |-> j.name, id |-> j.id, nodes |-> j.nodes, defs |-> j.defs, scope |-> j.scope]
  BY <1>5
<1> QED BY <1>1, <1>4, <1>6

LEMMA StartDefinitionHeld ==
  ASSUME NEW tab, NEW dep, Held(tab, dep), StartDefinition PROVE StillHeld
<1>1. PICK name \in Names :
        /\ Writes(1) /\ Top.kind \in {"global", "block"} /\ name \notin DOMAIN Top.declared
        /\ IF NoItem THEN TRUE ELSE Item.kind = "declaration" /\ ~Reading
        /\ open' = Append(Front(open), WithName(Top, name, Declaration("variable")))
        /\ item' = IF NoItem
                   THEN <<[Started("declaration") EXCEPT !.name = name, !.id = tokens,
                             !.scope = IF currentFunction # Null THEN "local" ELSE "global"]>>
                   ELSE <<[Item EXCEPT !.name = name, !.id = tokens, !.nodes = <<>>]>>
        /\ UNCHANGED <<uses, tables, entries, driver, tree, tempCounter, phase, generated>>
  BY DEF StartDefinition, MayDeclare
<1>2. /\ Len(open) \in Nat \ {0} /\ IsSeq(open) /\ Shape(open) /\ Containers /\ Top = open[Len(open)]
      /\ Len(open) \in 1 .. Len(open) /\ tokens \in Nat \ {0} /\ EntriesFit /\ Len(entries) \in Nat
      /\ currentTable = tab[Len(open)] /\ currentTable \in 1 .. Len(tables)
      /\ ContextNamed(Len(open), currentTable) /\ Declared(Top)
  BY HeldFacts
<1>3. /\ phase = "parse" /\ phase' = "parse" /\ tokens' = tokens + 1
      /\ UNCHANGED <<tables, blocks, functions, entries, driver, tempCounter, currentFunction>>
  BY <1>1 DEF Writes, driver, tree
<1>4. /\ tokens' \in Nat \ {0} /\ tokens' >= tokens
      /\ \A i \in 1 .. tokens - 1 : i \in 1 .. tokens' - 1
      /\ \A i \in Nat : i < tokens => i < tokens'
      /\ tokens \in 1 .. tokens' - 1
  <2>1. tokens \in 1 .. tokens' - 1
    BY <1>2, <1>3
  <2> QED BY <1>2, <1>3, <2>1, Later
<1>5. PICK c : c = WithName(Top, name, Declaration("variable"))
  OBVIOUS
<1>6. PICK top : top = Top /\ IsContext(top)
  BY <1>2 DEF Shape
<1>7. c = [kind |-> top.kind, block |-> top.block, condition |-> top.condition,
           declared |-> With(top.declared, name, [kind |-> "variable", id |-> tokens])]
  BY <1>5, <1>6 DEF WithName, Declaration, IsContext
<1>8. /\ DOMAIN c.declared = DOMAIN top.declared \cup {name}
      /\ c.declared[name] = [kind |-> "variable", id |-> tokens]
      /\ \A other \in DOMAIN top.declared : c.declared[other] = top.declared[other]
  BY <1>1, <1>6, <1>7 DEF With
<1>9. /\ IsSeq(open') /\ Len(open') = Len(open) /\ open'[Len(open)] = c
      /\ \A k \in 1 .. Len(open) : k # Len(open) => open'[k] = open[k]
  <2>1. open # <<>>
    BY <1>2
  <2>2. open' = Append(Front(open), c)
    BY <1>1, <1>5
  <2> QED BY <1>2, <2>1, <2>2, LastReplaced
<1>10. SameContexts /\ SamePlaces
  <2>1. ASSUME NEW k \in 1 .. Len(open)
        PROVE  IsContext(open'[k]) /\ open'[k].kind = open[k].kind /\ open'[k].block = open[k].block
    <3>1. CASE k = Len(open)
      BY <1>2, <1>6, <1>7, <1>9, <3>1 DEF IsContext
    <3>2. CASE k # Len(open)
      BY <1>2, <1>9, <3>2 DEF Shape
    <3> QED BY <3>1, <3>2
  <2> QED BY <1>2, <1>3, <1>9, <2>1, UnchangedPlaces DEF SameContexts
<1>11. Moves(tab, Len(open))
  BY <1>3, <1>10, StayingPlaced DEF Held
<1>12. EntriesFit' /\ EntriesKept /\ NamesStay /\ \A t \in 1 .. Len(tables) : NamesKept(t)
  BY <1>2, <1>3, <1>4, UnchangedEntriesFit, SameNames
<1>13. PendingName = ""
  <2>1. CASE NoItem
    BY <2>1 DEF PendingName
  <2>2. CASE ~NoItem
    BY <1>1, <2>2 DEF PendingName, Reading
  <2> QED BY <2>1, <2>2
<1> DEFINE before == IF NoItem THEN [Started("declaration") EXCEPT
                                       !.scope = IF currentFunction # Null THEN "local" ELSE "global"]
                     ELSE Item
<1>14. /\ IsItem(before) /\ before.kind = "declaration" /\ IsSeq(before.defs)
       /\ before.scope = IF currentFunction = Null THEN "global" ELSE "local"
       /\ item' = <<Renaming(before, name, tokens)>>
  <2>1. CASE NoItem
    <3>0. PICK scope : scope = IF currentFunction # Null THEN "local" ELSE "global"
      OBVIOUS
    <3>1. before = [kind |-> "declaration", name |-> "", id |-> Null, nodes |-> <<>>, defs |-> <<>>,
                    scope |-> scope]
      BY <2>1, <3>0 DEF Started
    <3>2. item' = <<Renaming(before, name, tokens)>>
      <4>1. [Started("declaration") EXCEPT !.name = name, !.id = tokens, !.scope = scope]
            = [kind |-> "declaration", name |-> name, id |-> tokens, nodes |-> <<>>, defs |-> <<>>,
               scope |-> scope]
        BY Begun
      <4> HIDE DEF before
      <4>2. Renaming(before, name, tokens)
            = [kind |-> "declaration", name |-> name, id |-> tokens, nodes |-> <<>>, defs |-> <<>>,
               scope |-> scope]
        <5>1. IsItem(before) /\ before.kind = "declaration" /\ before.defs = <<>> /\ before.scope = scope
          BY <3>1 DEF IsItem
        <5> QED BY <5>1, Renamed
      <4> QED BY <1>1, <2>1, <3>0, <4>1, <4>2
    <3> HIDE DEF before
    <3>3. IsItem(before) /\ before.kind = "declaration" /\ before.defs = <<>> /\ before.scope = scope
      BY <3>1 DEF IsItem
    <3> QED BY <3>0, <3>2, <3>3, NothingIsSeq
  <2>2. CASE ~NoItem
    <3>1. before = Item /\ item # <<>>
      BY <2>2 DEF NoItem
    <3> HIDE DEF before
    <3>2. item' = <<Renaming(before, name, tokens)>>
      BY <1>1, <2>2, <3>1 DEF Renaming
    <3> QED BY <1>1, <2>2, <3>1, <3>2 DEF Held, Symbols, ItemFits
  <2> QED BY <2>1, <2>2
<1> HIDE DEF before
<1>15. PICK i : /\ i = before /\ IsItem(i) /\ i.kind = "declaration" /\ IsSeq(i.defs)
                /\ i.scope = IF currentFunction = Null THEN "global" ELSE "local"
  BY <1>14
<1>16. PICK j : /\ j = [kind |-> "declaration", name |-> name, id |-> tokens, nodes |-> <<>>,
                       defs |-> i.defs, scope |-> i.scope]
                /\ item' = <<j>>
  <2>1. Renaming(i, name, tokens)
        = [kind |-> "declaration", name |-> name, id |-> tokens, nodes |-> <<>>,
           defs |-> i.defs, scope |-> i.scope]
    BY <1>15, Renamed
  <2> QED BY <1>14, <1>15, <2>1
<1>17. item' # <<>> /\ Item' = j /\ PendingName' = name
  BY <1>16 DEF Item, PendingName, NoItem
<1>18. Top' = c
  BY <1>2, <1>9 DEF Top, Last
<1>19. ItemFits'
  <2>1. \A e \in 1 .. Len(entries') : entries'[e].id # tokens
    <3>1. \A e \in 1 .. Len(entries) : entries[e].id \in 0 .. tokens - 1
      BY <1>2 DEF EntriesFit, EntryFits
    <3>2. \A x \in 0 .. tokens - 1 : x # tokens
      BY <1>2
    <3> QED BY <1>3, <3>1, <3>2
  <2>2. /\ name \in Names /\ name \in DOMAIN c.declared /\ c.declared[name].id = tokens
        /\ name # "" /\ c.kind \in {"global", "block"}
    <3>1. name # ""
      BY ScopesAssumption
    <3>2. c.kind = Top.kind
      BY <1>6, <1>7
    <3>3. c.declared[name].id = tokens /\ name \in DOMAIN c.declared
      BY <1>8
    <3> QED BY <1>1, <3>1, <3>2, <3>3
  <2>3. IsItem(j) /\ IsSeq(j.nodes) /\ IsSeq(j.defs)
    BY <1>15, <1>16, NothingIsSeq DEF IsItem
  <2> QED BY <1>3, <1>15, <1>16, <1>17, <1>18, <2>1, <2>2, <2>3 DEF ItemFits
<1>20. \E tab2, dep2 : (Placed(tab2, dep2) /\ Named(tab2))'
  <2>1. ASSUME NEW k \in 1 .. Len(open), k # Len(open) PROVE ContextNamed(k, tab[k])'
    <3>1. tab[k] \in 1 .. Len(tables) /\ k # Len(open')
      BY <1>9, <2>1 DEF Held, Placed, Ladder
    <3> QED BY <1>9, <1>12, <2>1, <3>1, OlderNamed
  <2>2. ContextNamed(Len(open), tab[Len(open)])'
    <3>1. PICK t : t = tab[Len(open)] /\ t = currentTable
      BY <1>2
    <3>2. NamedAt(top, t, "")
      BY <1>1, <1>2, <1>6, <1>13, <3>1 DEF ContextNamed
    <3>3. name \notin DOMAIN tables[t].entries
      BY <1>1, <1>6, <3>2 DEF NamedAt, Known
    <3>4. ASSUME NEW other \in Known
          PROVE  /\ other \in DOMAIN tables'[t].entries <=> other \in DOMAIN c.declared /\ other # name
                 /\ other \in DOMAIN tables'[t].entries => Stands(tables[t].entries[other], c.declared[other])'
      <4>1. other \in DOMAIN tables'[t].entries <=> other \in DOMAIN c.declared /\ other # name
        <5>1. other \in DOMAIN tables[t].entries <=> other \in DOMAIN top.declared /\ other # ""
          BY <3>2 DEF NamedAt
        <5>2. other # ""
          BY ScopesAssumption DEF Known
        <5> QED BY <1>1, <1>3, <1>6, <1>8, <5>1, <5>2
      <4>2. ASSUME other \in DOMAIN tables'[t].entries PROVE Stands(tables[t].entries[other], c.declared[other])'
        <5>1. /\ other \in DOMAIN top.declared /\ c.declared[other] = top.declared[other]
              /\ Stands(tables[t].entries[other], top.declared[other])
          BY <1>3, <1>8, <3>2, <4>2 DEF NamedAt
        <5> QED BY <1>3, <5>1 DEF Stands
      <4> QED BY <4>1, <4>2
    <3>5. NamedAt(c, t, name)'
      BY <3>4 DEF NamedAt
    <3>6. PICK l : l = Len(open)
      OBVIOUS
    <3>7. ContextNamed(l, t)'
      BY <1>9, <1>17, <3>5, <3>6 DEF ContextNamed
    <3> QED BY <1>9, <3>1, <3>6, <3>7 DEF ContextNamed
  <2>3. ASSUME NEW k \in 1 .. Len(open')
        PROVE  \/ k \in 1 .. Len(open) /\ ContextNamed(k, tab[k])'
               \/ k = Len(open') /\ ContextNamed(k, currentTable)'
    <3>1. CASE k = Len(open)
      BY <1>2, <1>9, <2>2, <3>1 DEF ContextNamed
    <3>2. CASE k # Len(open)
      BY <1>9, <2>1, <3>2
    <3> QED BY <3>1, <3>2
  <2>4. PICK m : m = Len(open)
    OBVIOUS
  <2> QED BY <1>11, <2>3, <2>4, NamedAfter
<1>21. ASSUME NEW k \in 1 .. Len(open') PROVE Declared(open[k])'
  <2>1. CASE k # Len(open)
    <3>1. PICK o : o = open[k] /\ o = open'[k] /\ Declared(o)
      BY <1>9, <2>1 DEF Held, Symbols
    <3>2. Declared(o)'
      BY <1>4, <3>1, DeclaredLater
    <3> QED BY <3>1, <3>2
  <2>2. CASE k = Len(open)
    <3>1. Declared(c)'
      <4>1. DOMAIN c.declared \subseteq Known /\ c.kind # "if" /\ name \notin FunctionNames
        BY <1>1, <1>2, <1>6, <1>7, <1>8, ScopesAssumption DEF Declared, Known
      <4>2. ASSUME NEW other \in DOMAIN c.declared
            PROVE  /\ c.declared[other].id \in 1 .. tokens' - 1
                   /\ c.declared[other].kind = IF other \in FunctionNames THEN "function" ELSE "variable"
                   /\ other \in FunctionNames => c.kind = "global"
        <5>1. CASE other = name
          <6>1. c.declared[other] = [kind |-> "variable", id |-> tokens] /\ other \notin FunctionNames
            BY <1>8, <4>1, <5>1
          <6>2. c.declared[other].kind = "variable" /\ c.declared[other].id = tokens
            BY <6>1
          <6> QED BY <1>4, <6>1, <6>2
        <5>2. CASE other # name
          <6>1. other \in DOMAIN top.declared /\ c.declared[other] = top.declared[other] /\ c.kind = top.kind
            BY <1>7, <1>8, <5>2
          <6> QED BY <1>2, <1>4, <1>6, <6>1 DEF Declared
        <5> QED BY <5>1, <5>2
      <4> QED BY <4>1, <4>2 DEF Declared
    <3> QED BY <1>9, <2>2, <3>1
  <2> QED BY <2>1, <2>2
<1>22. \A f \in 1 .. Len(functions') : ParametersFit(functions[f])'
  BY <1>3, <1>12, FunctionsFit
<1>23. tempCounter' \in Nat /\ tempCounter' < tokens'
  <2>1. tempCounter \in Nat /\ tempCounter < tokens
    BY DEF Held, Symbols
  <2> QED BY <1>3, <1>4, <2>1
<1> QED BY <1>3, <1>4, <1>12, <1>19, <1>20, <1>21, <1>22, <1>23 DEF StillHeld, Symbols

Finished(i, def) == [i EXCEPT !.name = "", !.id = Null, !.nodes = <<>>, !.defs = Append(@, def)]

LEMMA FinishedFacts ==
  ASSUME NEW i, IsItem(i), NEW def
  PROVE  Finished(i, def)
         = [kind |-> i.kind, name |-> "", id |-> Null, nodes |-> <<>>, defs |-> Append(i.defs, def),
            scope |-> i.scope]
<1>1. PICK j : j = Finished(i, def)
  OBVIOUS
<1>2. j = [i EXCEPT !.name = "", !.id = Null, !.nodes = <<>>, !.defs = Append(@, def)]
  BY <1>1 DEF Finished
<1>3. DOMAIN i = {"kind", "name", "id", "nodes", "defs", "scope"}
  BY DEF IsItem
<1>4. /\ j.name = "" /\ j.id = Null /\ j.nodes = <<>>
      /\ j.kind = i.kind /\ j.defs = Append(i.defs, def) /\ j.scope = i.scope
  BY <1>2, <1>3
<1>5. j = [x \in {"kind", "name", "id", "nodes", "defs", "scope"} |-> j[x]]
  BY <1>2, <1>3
<1>6. j = [kind |-> j.kind, name |-> j.name, id |-> j.id, nodes |-> j.nodes, defs |-> j.defs, scope |-> j.scope]
  BY <1>5
<1> QED BY <1>1, <1>4, <1>6

LEMMA EndDefinitionHeld ==
  ASSUME NEW tab, NEW dep, Held(tab, dep), EndDefinition PROVE StillHeld
<1>1. /\ Writes(1) /\ item # <<>> /\ Item.kind = "declaration" /\ Item.name # ""
      /\ entries' = Append(entries, Entry(Item.name, Item.scope, Item.id))
      /\ tables' = Inserted(currentTable, Item.name, Len(entries) + 1)
      /\ item' = <<[Item EXCEPT !.name = "", !.id = Null, !.nodes = <<>>,
                      !.defs = Append(@, [name |-> Item.name, id |-> Item.id, nodes |-> Item.nodes])]>>
      /\ UNCHANGED <<open, uses, driver, tree, tempCounter, phase, generated>>
  BY DEF EndDefinition, NoItem, Reading
<1>2. /\ Len(open) \in Nat \ {0} /\ IsSeq(open) /\ Shape(open) /\ Containers /\ Top = open[Len(open)]
      /\ Len(open) \in 1 .. Len(open) /\ tokens \in Nat \ {0} /\ EntriesFit /\ Len(entries) \in Nat
      /\ currentTable = tab[Len(open)] /\ currentTable \in 1 .. Len(tables)
      /\ ContextNamed(Len(open), currentTable) /\ Declared(Top)
  BY HeldFacts
<1>3. /\ phase = "parse" /\ phase' = "parse" /\ tokens' = tokens + 1
      /\ UNCHANGED <<blocks, functions, driver, currentFunction>>
  BY <1>1 DEF Writes, driver, tree
<1>4. PICK name, id, scope : name = Item.name /\ id = Item.id /\ scope = Item.scope
  OBVIOUS
<1>5. /\ IsItem(Item) /\ IsSeq(Item.defs) /\ Top.kind \in {"global", "block"}
      /\ scope = IF currentFunction = Null THEN "global" ELSE "local"
      /\ name \in Names /\ name \in DOMAIN Top.declared /\ Top.declared[name].id = id
      /\ \A e \in 1 .. Len(entries) : entries[e].id # id
      /\ scope \in {"global", "local"}
  BY <1>1, <1>4 DEF Held, Symbols, ItemFits
<1>6. /\ tokens \in Nat /\ tokens' \in Nat \ {0} /\ tokens' >= tokens
      /\ \A i \in 1 .. tokens - 1 : i \in 1 .. tokens' - 1
      /\ \A i \in Nat : i < tokens => i < tokens'
  BY <1>2, <1>3, Later
<1>7. /\ Top.declared[name].kind = "variable" /\ id \in 1 .. tokens - 1 /\ id \in 0 .. tokens' - 1
      /\ id # Null /\ name \in Known
  <2>1. name \notin FunctionNames
    BY <1>5, ScopesAssumption
  <2>2. id \in 1 .. tokens - 1 /\ Top.declared[name].kind = "variable"
    BY <1>2, <1>5, <2>1 DEF Declared
  <2>3. \A i \in 1 .. tokens - 1 : i \in 0 .. tokens' - 1 /\ i # Null
    BY <1>2, <1>3 DEF Null
  <2> QED BY <1>5, <2>2, <2>3 DEF Known
<1>8. /\ EntriesFit' /\ EntriesKept /\ Len(entries') = Len(entries) + 1
      /\ entries'[Len(entries) + 1] = Entry(name, scope, id)
  <2>1. scope \in {"global", "local", "param", "function", "temp"} /\ (id = Null <=> scope = "temp")
    BY <1>5, <1>7
  <2>2. entries' = Append(entries, Entry(name, scope, id))
    BY <1>1, <1>4
  <2>3. id # Null => \A e \in 1 .. Len(entries) : entries[e].id # id
    BY <1>5
  <2>4. id \in 0 .. tokens' - 1 /\ EntriesFit /\ tokens \in Nat /\ tokens' \in Nat /\ tokens' >= tokens
    BY <1>2, <1>6, <1>7
  <2> HIDE <1>1, <1>2, <1>3, <1>4, <1>5, <1>6, <1>7
  <2> QED BY <2>1, <2>2, <2>3, <2>4, NewEntryFits
<1>9. /\ \A u \in 1 .. Len(tables) : u # currentTable => NamesKept(u)
      /\ \A other \in DOMAIN tables[currentTable].entries : other # name =>
           tables'[currentTable].entries[other] = tables[currentTable].entries[other]
      /\ DOMAIN tables'[currentTable].entries = DOMAIN tables[currentTable].entries \cup {name}
      /\ tables'[currentTable].entries[name] = Len(entries) + 1
  <2>1. tables' = Inserted(currentTable, name, Len(entries) + 1)
    BY <1>1, <1>4
  <2>2. PICK t, e : t = currentTable /\ e = Len(entries) + 1
    OBVIOUS
  <2>3. tables' = Inserted(t, name, e) /\ t \in 1 .. Len(tables)
    BY <1>2, <2>1, <2>2
  <2>4. /\ \A u \in 1 .. Len(tables) : u # t \/ name \notin Known => NamesKept(u)
        /\ \A other \in DOMAIN tables[t].entries : other # name =>
             other \in DOMAIN tables'[t].entries /\ tables'[t].entries[other] = tables[t].entries[other]
        /\ DOMAIN tables'[t].entries = DOMAIN tables[t].entries \cup {name}
        /\ tables'[t].entries[name] = e
    BY <1>2, <2>3, InsertedNames
  <2> QED BY <2>2, <2>4
<1>10. PendingName = name
  BY <1>1, <1>4 DEF PendingName, NoItem
<1>11. NamedAt(Top, currentTable, name)
  BY <1>2, <1>5, <1>10 DEF ContextNamed
<1>12. name \notin DOMAIN tables[currentTable].entries
  BY <1>7, <1>11 DEF NamedAt
<1>13. NamesStay
  <2> SUFFICES ASSUME NEW t \in 1 .. Len(tables), NEW other \in Known, other \in DOMAIN tables[t].entries
               PROVE  other \in DOMAIN tables'[t].entries /\ tables'[t].entries[other] = tables[t].entries[other]
    BY DEF NamesStay
  <2>1. CASE t = currentTable
    BY <1>9, <1>12, <2>1
  <2>2. CASE t # currentTable
    BY <1>9, <2>2 DEF NamesKept
  <2> QED BY <2>1, <2>2
<1>14. SamePlaces
  <2>1. PICK e, t : e = Len(entries) + 1 /\ t = currentTable
    OBVIOUS
  <2>2. tables' = Inserted(t, name, e) /\ t \in 1 .. Len(tables) /\ UNCHANGED <<blocks, functions>>
    BY <1>1, <1>2, <1>3, <1>4, <2>1
  <2> QED BY <1>2, <2>2, InsertedSamePlaces
<1>15. SameContexts /\ UNCHANGED open
  BY <1>1, <1>2 DEF SameContexts, Shape
<1>16. Moves(tab, Len(open))
  BY <1>3, <1>14, <1>15, StayingPlaced DEF Held
<1>17. PICK i, def : i = Item /\ def = [name |-> Item.name, id |-> Item.id, nodes |-> Item.nodes]
  OBVIOUS
<1>18. PICK j : /\ j = [kind |-> "declaration", name |-> "", id |-> Null, nodes |-> <<>>,
                       defs |-> Append(i.defs, def), scope |-> scope]
                /\ item' = <<j>>
  <2>1. item' = <<Finished(i, def)>>
    BY <1>1, <1>17 DEF Finished
  <2>2. Finished(i, def) = [kind |-> i.kind, name |-> "", id |-> Null, nodes |-> <<>>,
                            defs |-> Append(i.defs, def), scope |-> i.scope]
    BY <1>5, <1>17, FinishedFacts
  <2> QED BY <1>1, <1>4, <1>17, <2>1, <2>2
<1>19. item' # <<>> /\ Item' = j /\ PendingName' = ""
  BY <1>18 DEF Item, PendingName, NoItem
<1>20. ItemFits'
  <2>1. Top' = Top
    BY <1>15 DEF Top
  <2>2. IsItem(j) /\ IsSeq(j.nodes) /\ IsSeq(j.defs) /\ j.kind = "declaration" /\ j.name = "" /\ j.id = Null
        /\ j.scope = IF currentFunction = Null THEN "global" ELSE "local"
    <3>1. IsSeq(Append(i.defs, def))
      BY <1>5, <1>17, AppendFacts
    <3> QED BY <1>5, <1>18, <3>1, NothingIsSeq DEF IsItem
  <2> QED BY <1>3, <1>5, <1>18, <1>19, <2>1, <2>2 DEF ItemFits
<1>21. \E tab2, dep2 : (Placed(tab2, dep2) /\ Named(tab2))'
  <2>1. ASSUME NEW k \in 1 .. Len(open), k # Len(open) PROVE ContextNamed(k, tab[k])'
    <3>1. tab[k] \in 1 .. Len(tables) /\ k # Len(open')
      BY <1>15, <2>1 DEF Held, Placed, Ladder
    <3>2. tab[k] # currentTable
      <4>1. k < Len(open) /\ k \in 1 .. Len(open) /\ open[Len(open)].kind # "if"
        BY <1>2, <1>5, <2>1
      <4> QED BY <1>2, <4>1, TablesGrow DEF Held
    <3> QED BY <1>8, <1>9, <1>15, <2>1, <3>1, <3>2, OlderNamed
  <2>2. ContextNamed(Len(open), tab[Len(open)])'
    <3>1. PICK t, c : t = currentTable /\ c = Top
      OBVIOUS
    <3>2. ASSUME NEW other \in Known
          PROVE  /\ other \in DOMAIN tables'[t].entries <=> other \in DOMAIN c.declared /\ other # ""
                 /\ other \in DOMAIN tables'[t].entries => Stands(tables[t].entries[other], c.declared[other])'
      <4>1. other # ""
        BY ScopesAssumption DEF Known
      <4>2. CASE other = name
        <5>1. PICK e : e = Len(entries) + 1
          OBVIOUS
        <5>2. e \in 1 .. Len(entries')
          BY <1>2, <1>8, <5>1
        <5>3. Stands(e, c.declared[name])'
          BY <1>5, <1>7, <1>8, <3>1, <5>1, <5>2 DEF Stands, Entry
        <5> QED BY <1>5, <1>9, <3>1, <4>1, <4>2, <5>1, <5>3
      <4>3. CASE other # name
        <5>1. other \in DOMAIN tables'[t].entries <=> other \in DOMAIN c.declared /\ other # ""
          BY <1>9, <1>11, <3>1, <4>1, <4>3 DEF NamedAt
        <5>2. ASSUME other \in DOMAIN tables'[t].entries PROVE Stands(tables[t].entries[other], c.declared[other])'
          <6>1. other \in DOMAIN tables[t].entries /\ tables'[t].entries[other] = tables[t].entries[other]
            BY <1>9, <3>1, <4>3, <5>2
          <6>2. Stands(tables[t].entries[other], c.declared[other])
            BY <1>11, <3>1, <6>1 DEF NamedAt
          <6> QED BY <1>2, <1>8, <6>1, <6>2 DEF Stands, EntriesKept
        <5> QED BY <5>1, <5>2
      <4> QED BY <4>2, <4>3
    <3>3. NamedAt(c, t, "")'
      BY <3>2 DEF NamedAt
    <3>4. PICK l : l = Len(open)
      OBVIOUS
    <3>5. ContextNamed(l, t)'
      BY <1>2, <1>15, <1>19, <3>1, <3>3, <3>4 DEF ContextNamed
    <3> QED BY <1>2, <1>15, <3>1, <3>4, <3>5 DEF ContextNamed
  <2>3. ASSUME NEW k \in 1 .. Len(open')
        PROVE  \/ k \in 1 .. Len(open) /\ ContextNamed(k, tab[k])'
               \/ k = Len(open') /\ ContextNamed(k, currentTable)'
    <3>1. CASE k = Len(open)
      BY <1>2, <1>15, <2>2, <3>1 DEF ContextNamed
    <3>2. CASE k # Len(open)
      BY <1>15, <2>1, <3>2
    <3> QED BY <3>1, <3>2
  <2>4. PICK m : m = Len(open)
    OBVIOUS
  <2> QED BY <1>16, <2>3, <2>4, NamedAfter
<1>22. ASSUME NEW k \in 1 .. Len(open') PROVE Declared(open[k])'
  <2>1. PICK o : o = open[k] /\ o = open'[k] /\ Declared(o)
    BY <1>15 DEF Held, Symbols
  <2>2. Declared(o)'
    BY <1>6, <2>1, DeclaredLater
  <2> QED BY <2>1, <2>2
<1>23. \A f \in 1 .. Len(functions') : ParametersFit(functions[f])'
  BY <1>3, <1>8, <1>13, FunctionsFit
<1>24. tempCounter' \in Nat /\ tempCounter' < tokens'
  <2>1. tempCounter \in Nat /\ tempCounter < tokens
    BY DEF Held, Symbols
  <2> QED BY <1>1, <1>6, <2>1
<1> QED BY <1>3, <1>6, <1>8, <1>13, <1>20, <1>21, <1>22, <1>23, <1>24 DEF StillHeld, Symbols

LEMMA StepHeld ==
  ASSUME NEW tab, NEW dep, Held(tab, dep), Next PROVE StillHeld
BY OpenFunctionHeld, EmptyBodyHeld, OpenBlockHeld, CloseBlockHeld, CloseFunctionHeld,
   OperandHeld, OperatorHeld, InvokeHeld, EndExpressionHeld, IfHeld, EndConditionHeld,
   StartDefinitionHeld, EndDefinitionHeld, EndDeclarationHeld, GenerateHeld DEF Next

LEMMA StutterHeld ==
  ASSUME NEW tab, NEW dep, Held(tab, dep), UNCHANGED vars PROVE StillHeld
<1>1. /\ UNCHANGED <<text, item, tables, driver, tree, tempCounter>> /\ UNCHANGED entries
      /\ phase' = phase
  BY DEF vars
<1> QED BY <1>1, HeldFacts, EntriesStaySame, QuietHeld

LEMMA HeldInit == Init => \E tab, dep : Held(tab, dep)
<1> SUFFICES ASSUME Init PROVE \E tab, dep : Held(tab, dep)
  OBVIOUS
<1> DEFINE tab == [k \in 1 .. 1 |-> Global]
           dep == [k \in 1 .. 1 |-> 0]
<1>1. Placed(tab, dep)
  BY PlacedInit
<1>2. IsSeq(open) /\ Len(open) = 1 /\ open[1] = Context("global", Null) /\ item = <<>>
  BY OneFacts DEF Init
<1>3. tables[1] = SymbolTable(Null) /\ entries = <<>> /\ functions = <<>>
  BY DEF Init
<1>4. Named(tab)
  <2>1. tab[1] = 1
    BY DEF Global
  <2>2. NamedAt(open[1], 1, "")
    <3>1. PICK c, t : c = open[1] /\ t = tables[1]
      OBVIOUS
    <3>2. c.declared = <<>> /\ t.entries = <<>>
      BY <1>2, <1>3, <3>1 DEF Context, SymbolTable
    <3>3. \A name : name \notin DOMAIN <<>>
      OBVIOUS
    <3> QED BY <3>1, <3>2, <3>3 DEF NamedAt
  <2>3. PendingName = ""
    BY <1>2 DEF PendingName, NoItem
  <2>4. ContextNamed(1, 1)
    BY <1>2, <2>2, <2>3 DEF ContextNamed
  <2>5. \A k \in 1 .. Len(open) : k = 1
    BY <1>2
  <2> QED BY <2>1, <2>4, <2>5 DEF Named
<1>5. Symbols
  <2>1. \A k \in 1 .. Len(open) : Declared(open[k])
    <3>1. Declared(open[1])
      BY <1>2 DEF Declared, Context
    <3> QED BY <1>2, <3>1
  <2>2. EntriesFit
    BY <1>3, NothingIsSeq DEF EntriesFit
  <2>3. ItemFits
    BY <1>2 DEF ItemFits
  <2>4. \A f \in 1 .. Len(functions) : FALSE
    BY <1>3, NothingIsSeq
  <2> QED BY <2>1, <2>2, <2>3, <2>4 DEF Symbols, Init
<1> HIDE DEF tab, dep
<1> QED BY <1>1, <1>4, <1>5 DEF Held

(* In every state the driver stands where the text is, and the tables hold *)
(* its names.                                                              *)
Resolved == \E tab, dep : Held(tab, dep)

LEMMA ResolvedStep == ASSUME Resolved, [Next]_vars PROVE Resolved' /\ EntriesKept /\ NamesStay
<1>1. PICK tab, dep : Held(tab, dep)
  BY DEF Resolved
<1>2. StillHeld
  BY <1>1, StepHeld, StutterHeld
<1> QED BY <1>2 DEF StillHeld, Resolved, Held

LEMMA ResolvedAlways == Spec => []Resolved
<1>1. Init => Resolved
  BY HeldInit DEF Resolved
<1>2. Resolved /\ [Next]_vars => Resolved'
  BY ResolvedStep
<1> QED BY <1>1, <1>2, PTL DEF Spec

-----------------------------------------------------------------------------
(* The driver is where the text is. *)

LEMMA PrefixNext ==
  ASSUME NEW s, IsSeq(s)
  PROVE  /\ SubSeq(s, 1, 0) = <<>> /\ SubSeq(s, 1, Len(s)) = s
         /\ \A n \in Nat : n + 1 <= Len(s) => Append(SubSeq(s, 1, n), s[n + 1]) = SubSeq(s, 1, n + 1)
<1>1. PICK S : s \in Seq(S)
  BY DEF IsSeq
<1>2. Len(s) \in Nat /\ \A k \in 1 .. Len(s) : s[k] \in S
  BY <1>1
<1>3. SubSeq(s, 1, Len(s)) = s
  <2>1. SubSeq(s, 1, Len(s)) \in Seq(S) /\ Len(SubSeq(s, 1, Len(s))) = Len(s)
        /\ \A k \in 1 .. Len(s) : SubSeq(s, 1, Len(s))[k] = s[k]
    BY <1>1, <1>2, PrefixFacts DEF IsSeq
  <2> QED BY <1>1, <2>1, SeqEqual
<1>4. SubSeq(s, 1, 0) = <<>>
  OBVIOUS
<1>5. ASSUME NEW n \in Nat, n + 1 <= Len(s)
      PROVE  Append(SubSeq(s, 1, n), s[n + 1]) = SubSeq(s, 1, n + 1)
  <2>1. n \in 0 .. Len(s) /\ n + 1 \in 0 .. Len(s) /\ n + 1 \in 1 .. Len(s)
    BY <1>2, <1>5
  <2> DEFINE p == SubSeq(s, 1, n)
             q == SubSeq(s, 1, n + 1)
  <2>2. p \in Seq(S) /\ q \in Seq(S)
    BY <1>1, <1>2, <2>1, SubSeqProperties
  <2>3. /\ Len(p) = n /\ Len(q) = n + 1
        /\ \A k \in 1 .. n : p[k] = s[k]
        /\ \A k \in 1 .. n + 1 : q[k] = s[k]
    BY <2>1, PrefixFacts
  <2> HIDE DEF p, q
  <2>4. /\ Append(p, s[n + 1]) \in Seq(S) /\ Len(Append(p, s[n + 1])) = n + 1
        /\ \A k \in 1 .. n + 1 : Append(p, s[n + 1])[k] = q[k]
    BY <1>2, <2>1, <2>2, <2>3
  <2> QED BY <2>2, <2>3, <2>4, SeqEqual DEF p, q
<1> QED BY <1>3, <1>4, <1>5

(* The equations of the blocks around every context, and their solution.   *)
IsAround(around) ==
  around = [k \in 0 .. Len(open) |->
              IF k = 0 THEN <<>>
              ELSE IF open[k].kind = "block" THEN Append(around[k - 1], open[k].block)
              ELSE around[k - 1]]

LEMMA AroundFacts ==
  ASSUME NEW tab, NEW dep, Placed(tab, dep)
  PROVE  /\ \E f : IsAround(f)
         /\ \A f : IsAround(f) => f[Len(open)] = blockStack
<1> DEFINE Depth(k) == IF k = 0 THEN 0 ELSE dep[k]
           g == [k \in 0 .. Len(open) |-> SubSeq(blockStack, 1, Depth(k))]
<1>1. /\ Len(open) \in Nat \ {0} /\ IsSeq(blockStack) /\ Len(blockStack) \in Nat
      /\ \A k \in 1 .. Len(open) : dep[k] \in 0 .. Len(blockStack)
      /\ dep[1] = 0 /\ Len(blockStack) = dep[Len(open)]
      /\ \A k \in 1 .. Len(open) : open[k].kind = "global" <=> k = 1
      /\ \A k \in 1 .. Len(open) : open[k].kind = "function" <=> k = 2
      /\ \A k \in 1 .. Len(open) : open[k].kind \in {"global", "function", "block", "if"}
      /\ \A k \in 2 .. Len(open) : Rung(tab, dep, k)
  BY AppendFacts DEF Placed, Shape, Ladder, Standing
<1>2. ASSUME NEW k \in 1 .. Len(open)
      PROVE  SubSeq(blockStack, 1, Depth(k)) =
               IF open[k].kind = "block" THEN Append(SubSeq(blockStack, 1, Depth(k - 1)), open[k].block)
               ELSE SubSeq(blockStack, 1, Depth(k - 1))
  <2>1. CASE k = 1
    BY <1>1, <2>1
  <2>2. CASE k # 1
    <3>1. k \in 2 .. Len(open) /\ k - 1 \in 1 .. Len(open) /\ k - 1 # 0 /\ k # 0
      BY <1>1, <2>2
    <3>2. Depth(k) = dep[k] /\ Depth(k - 1) = dep[k - 1] /\ dep[k - 1] \in Nat
          /\ dep[k] <= Len(blockStack)
      BY <1>1, <3>1
    <3>3. CASE open[k].kind = "block"
      <4>1. dep[k] = dep[k - 1] + 1 /\ blockStack[dep[k]] = open[k].block
        BY <1>1, <3>1, <3>3 DEF Rung
      <4>2. Append(SubSeq(blockStack, 1, dep[k - 1]), blockStack[dep[k - 1] + 1])
              = SubSeq(blockStack, 1, dep[k - 1] + 1)
        BY <1>1, <3>2, <4>1, PrefixNext
      <4> QED BY <3>2, <3>3, <4>1, <4>2
    <3>4. CASE open[k].kind # "block"
      <4>1. dep[k] = dep[k - 1]
        <5>1. CASE open[k].kind = "if"
          BY <1>1, <3>1, <5>1 DEF Rung
        <5>2. CASE open[k].kind = "function"
          BY <1>1, <3>1, <5>2 DEF Rung
        <5> QED BY <1>1, <2>2, <3>4, <5>1, <5>2
      <4> QED BY <3>2, <3>4, <4>1
    <3> QED BY <3>3, <3>4
  <2> QED BY <2>1, <2>2
<1>3. IsAround(g)
  <2>1. \A k \in 0 .. Len(open) : k # 0 => k \in 1 .. Len(open) /\ k - 1 \in 0 .. Len(open)
    BY <1>1
  <2>2. ASSUME NEW k \in 0 .. Len(open)
        PROVE  g[k] = IF k = 0 THEN <<>>
                      ELSE IF open[k].kind = "block" THEN Append(g[k - 1], open[k].block)
                      ELSE g[k - 1]
    <3>1. CASE k = 0
      <4>1. SubSeq(blockStack, 1, 0) = <<>>
        BY <1>1, PrefixNext
      <4> QED BY <3>1, <4>1
    <3>2. CASE k # 0
      <4>1. g[k] = SubSeq(blockStack, 1, Depth(k)) /\ g[k - 1] = SubSeq(blockStack, 1, Depth(k - 1))
        BY <2>1, <3>2
      <4> HIDE DEF g, Depth
      <4> QED BY <1>2, <2>1, <3>2, <4>1
    <3> QED BY <3>1, <3>2
  <2>3. g = [k \in 0 .. Len(open) |-> g[k]]
    OBVIOUS
  <2> HIDE DEF g
  <2> QED BY <2>2, <2>3 DEF IsAround
<1>4. ASSUME NEW f, IsAround(f) PROVE f[Len(open)] = blockStack
  <2> HIDE DEF g, Depth
  <2>1. \A k \in 0 .. Len(open) :
          /\ f[k] = IF k = 0 THEN <<>>
                    ELSE IF open[k].kind = "block" THEN Append(f[k - 1], open[k].block)
                    ELSE f[k - 1]
          /\ g[k] = IF k = 0 THEN <<>>
                    ELSE IF open[k].kind = "block" THEN Append(g[k - 1], open[k].block)
                    ELSE g[k - 1]
    BY <1>3, <1>4 DEF IsAround
  <2> DEFINE P == {n \in Nat : n <= Len(open) => f[n] = g[n]}
  <2>2. 0 \in P
    BY <1>1, <2>1
  <2>3. ASSUME NEW n \in P PROVE n + 1 \in P
    <3>1. n + 1 <= Len(open) => n <= Len(open) /\ n + 1 \in 0 .. Len(open) /\ n + 1 # 0 /\ n + 1 - 1 = n
      BY <1>1
    <3> QED BY <2>1, <3>1
  <2>4. P = Nat
    <3> HIDE DEF P
    <3>1. P \in SUBSET Nat
      BY DEF P
    <3> QED BY <2>2, <2>3, <3>1, NatInductionSet
  <2>5. f[Len(open)] = g[Len(open)]
    BY <1>1, <2>4
  <2>6. g[Len(open)] = SubSeq(blockStack, 1, Len(blockStack))
    BY <1>1 DEF g, Depth
  <2> QED BY <1>1, <2>5, <2>6, PrefixNext
<1> HIDE DEF g
<1> QED BY <1>3, <1>4

LEMMA MatchingPlaces ==
  ASSUME NEW tab, NEW dep, Placed(tab, dep)
  PROVE  /\ currentFunction = Null <=> Len(open) = 1
         /\ currentTable = IF blockStack # <<>> THEN TableOf(Last(blockStack))
                           ELSE IF currentFunction # Null THEN functions[currentFunction].table ELSE Global
         /\ \A d \in 1 .. Len(blockStack) :
              tables[TableOf(blockStack[d])].parent =
                IF d = 1 THEN functions[currentFunction].table ELSE TableOf(blockStack[d - 1])
<1>1. /\ Len(open) \in Nat \ {0} /\ IsSeq(blockStack) /\ Len(blockStack) \in Nat
      /\ \A k \in 1 .. Len(open) : dep[k] \in 0 .. Len(blockStack)
      /\ dep[1] = 0 /\ tab[1] = Global /\ Len(blockStack) = dep[Len(open)]
      /\ currentTable = tab[Len(open)]
      /\ \A k \in 1 .. Len(open) : open[k].kind = "function" <=> k = 2
      /\ \A k \in 1 .. Len(open) : open[k].kind = "global" <=> k = 1
      /\ \A k \in 1 .. Len(open) : open[k].kind \in {"global", "function", "block", "if"}
      /\ \A k \in 2 .. Len(open) : Rung(tab, dep, k)
  BY AppendFacts DEF Placed, Shape, Ladder, Standing
<1>2. currentFunction = Null <=> Len(open) = 1
  <2>1. Len(open) # 1 => Len(open) > 1
    <3>1. \A n \in Nat \ {0} : n # 1 => n > 1
      OBVIOUS
    <3> QED BY <1>1, <3>1
  <2>2. Len(open) > 1 => Len(functions) > 0
    BY DEF Placed, Standing
  <2>3. Len(functions) \in Nat
    BY DEF Placed, Containers
  <2>4. currentFunction = IF Len(open) = 1 THEN Null ELSE Len(functions)
    BY DEF Placed, Standing
  <2> QED BY <2>1, <2>2, <2>3, <2>4 DEF Null
<1>3. blockStack # <<>> <=> Len(blockStack) # 0
  BY <1>1, LastFacts, NothingIsSeq
<1>4. \A k \in 2 .. Len(open) : tab[k] = IF dep[k] = 0 THEN functions[currentFunction].table
                                         ELSE TableOf(blockStack[dep[k]])
  BY <1>1 DEF Rung, TableOf
<1>5. currentTable = IF blockStack # <<>> THEN TableOf(Last(blockStack))
                     ELSE IF currentFunction # Null THEN functions[currentFunction].table ELSE Global
  <2>1. CASE Len(open) = 1
    BY <1>1, <1>2, <1>3, <2>1
  <2>2. CASE Len(open) # 1
    <3>1. Len(open) \in 2 .. Len(open)
      BY <1>1, <2>2
    <3>2. blockStack # <<>> => Last(blockStack) = blockStack[Len(blockStack)]
      BY <1>1, LastFacts
    <3> QED BY <1>1, <1>2, <1>3, <1>4, <2>2, <3>1, <3>2
  <2> QED BY <2>1, <2>2
<1>6. ASSUME NEW d \in 1 .. Len(blockStack)
      PROVE  tables[TableOf(blockStack[d])].parent =
               IF d = 1 THEN functions[currentFunction].table ELSE TableOf(blockStack[d - 1])
  <2> DEFINE T == {k \in 1 .. Len(open) : d <= dep[k]}
  <2>1. Len(open) \in T /\ T \in SUBSET Nat
    BY <1>1
  <2>2. PICK k \in T : \A j \in T : k <= j
    <3> HIDE DEF T
    <3> QED BY <2>1, LeastNat
  <2>3. k \in 1 .. Len(open) /\ d <= dep[k] /\ dep[k] \in Nat /\ d \in Nat /\ d # 0
    BY <1>1
  <2>4. k # 1
    BY <1>1, <2>3
  <2>5. k \in 2 .. Len(open) /\ k - 1 \in 1 .. Len(open) /\ dep[k - 1] \in Nat
    BY <1>1, <2>3, <2>4
  <2>6. dep[k - 1] < d
    <3>1. ASSUME d <= dep[k - 1] PROVE FALSE
      <4>1. k - 1 \in T
        BY <2>5, <3>1
      <4>2. k <= k - 1
        BY <2>2, <4>1
      <4> QED BY <2>3, <4>2
    <3> QED BY <2>3, <2>5, <3>1
  <2> HIDE DEF T
  <2>7. Rung(tab, dep, k)
    BY <1>1, <2>5
  <2>8. open[k].kind = "block"
    <3>1. open[k].kind # "if"
      <4>1. open[k].kind = "if" => dep[k] = dep[k - 1]
        BY <2>7 DEF Rung
      <4> QED BY <2>3, <2>5, <2>6, <4>1
    <3>2. open[k].kind # "function"
      <4>1. open[k].kind = "function" => dep[k] = 0
        BY <2>7 DEF Rung
      <4> QED BY <2>3, <4>1
    <3>3. open[k].kind # "global" /\ open[k].kind \in {"global", "function", "block", "if"}
      BY <1>1, <2>3, <2>4
    <3> QED BY <3>1, <3>2, <3>3
  <2>9. dep[k] = dep[k - 1] + 1 /\ tables[tab[k]].parent = tab[k - 1]
    BY <2>7, <2>8 DEF Rung
  <2>10. dep[k] = d /\ dep[k - 1] = d - 1
    BY <2>3, <2>5, <2>6, <2>9
  <2>11. k - 1 \in 2 .. Len(open)
    <3>1. k # 2
      BY <1>1, <2>3, <2>8
    <3> QED BY <2>5, <3>1
  <2>12. tab[k] = TableOf(blockStack[d])
    BY <1>4, <2>3, <2>5, <2>10
  <2>13. tab[k - 1] = IF d - 1 = 0 THEN functions[currentFunction].table ELSE TableOf(blockStack[d - 1])
    BY <1>4, <2>10, <2>11
  <2>14. d - 1 = 0 <=> d = 1
    BY <2>3
  <2> QED BY <2>9, <2>12, <2>13, <2>14
<1> QED BY <1>2, <1>5, <1>6

(* The driver is in the block and the table where the text is, the stack   *)
(* holds the blocks around it, and the parents of their tables are the     *)
(* tables around them.                                                     *)
THEOREM ScopesAlwaysMatch == Spec => []ScopesMatch
<1>1. ASSUME Resolved PROVE ScopesMatch
  <2>1. PICK tab, dep : Placed(tab, dep)
    BY <1>1 DEF Resolved, Held
  <2> DEFINE around == CHOOSE f : IsAround(f)
  <2>2. around[Len(open)] = blockStack
    <3>1. IsAround(around)
      BY <2>1, AroundFacts
    <3> HIDE DEF around
    <3> QED BY <2>1, <3>1, AroundFacts
  <2>3. currentBlock = IF blockStack = <<>> THEN Null ELSE Last(blockStack)
    BY <2>1 DEF Placed, Standing
  <2>4. DOMAIN blockStack = 1 .. Len(blockStack)
    <3>1. IsSeq(blockStack)
      BY <2>1 DEF Placed, Standing
    <3> QED BY <3>1, SameLength
  <2>5. /\ currentFunction = Null <=> Len(open) = 1
        /\ currentTable = IF blockStack # <<>> THEN TableOf(Last(blockStack))
                          ELSE IF currentFunction # Null THEN functions[currentFunction].table ELSE Global
        /\ \A d \in 1 .. Len(blockStack) :
             tables[TableOf(blockStack[d])].parent =
               IF d = 1 THEN functions[currentFunction].table ELSE TableOf(blockStack[d - 1])
    BY <2>1, MatchingPlaces
  <2>6. blockStack = around[Len(open)]
    BY <2>2
  <2> QED BY <2>3, <2>4, <2>5, <2>6 DEF ScopesMatch, IsAround
<1> QED BY <1>1, ResolvedAlways, PTL

-----------------------------------------------------------------------------
(* Names are found in the tables where C finds them in the text. *)

LEMMA GreatestScope ==
  ASSUME NEW tab, NEW dep, Held(tab, dep), NEW name, Scopes(name) # {}
  PROVE  \E k \in 1 .. Len(open) : /\ name \in DOMAIN open[k].declared
                                   /\ Means(name) = open[k].declared[name]
                                   /\ \A j \in 1 .. Len(open) : name \in DOMAIN open[j].declared => j <= k
<1>1. DOMAIN open = 1 .. Len(open) /\ Len(open) \in Nat
  BY HeldFacts
<1> DEFINE T == {n \in Nat : \A j \in Scopes(name) : j <= n}
<1>2. Len(open) \in T /\ T \in SUBSET Nat
  BY <1>1 DEF Scopes
<1>3. PICK k \in T : \A m \in T : k <= m
  <2> HIDE DEF T
  <2> QED BY <1>2, LeastNat
<1>4. k \in Nat /\ \A j \in Scopes(name) : j <= k
  OBVIOUS
<1>5. k \in Scopes(name)
  <2> SUFFICES ASSUME k \notin Scopes(name) PROVE FALSE
    OBVIOUS
  <2>1. ASSUME NEW j \in Scopes(name) PROVE j <= k - 1 /\ k - 1 \in Nat
    <3>1. j \in 1 .. Len(open) /\ j <= k /\ j # k
      BY <1>1, <1>4 DEF Scopes
    <3> QED BY <1>1, <1>4, <3>1
  <2>2. k - 1 \in T
    BY <2>1
  <2>3. k <= k - 1
    BY <1>3, <2>2
  <2> QED BY <1>4, <2>3
<1> HIDE DEF T
<1> DEFINE m == CHOOSE m \in Scopes(name) : \A j \in Scopes(name) : j <= m
<1>6. m \in Scopes(name) /\ \A j \in Scopes(name) : j <= m
  BY <1>4, <1>5
<1>7. Means(name) = open[m].declared[name]
  BY DEF Means
<1> HIDE DEF m
<1>8. m \in 1 .. Len(open) /\ name \in DOMAIN open[m].declared
  BY <1>1, <1>6 DEF Scopes
<1>9. \A j \in 1 .. Len(open) : name \in DOMAIN open[j].declared => j <= m
  BY <1>1, <1>6 DEF Scopes
<1> QED BY <1>7, <1>8, <1>9

(* What hides a name in the text hides it in the tables. *)
LEMMA FindMeans ==
  ASSUME NEW tab, NEW dep, Held(tab, dep), NEW name \in Known, Scopes(name) # {},
         PendingName = name => Means(name).id # Item.id
  PROVE  Stands(Find(currentTable, name), Means(name))
<1>1. PICK k \in 1 .. Len(open) : /\ name \in DOMAIN open[k].declared
                                  /\ Means(name) = open[k].declared[name]
                                  /\ \A j \in 1 .. Len(open) : name \in DOMAIN open[j].declared => j <= k
  BY GreatestScope
<1>2. /\ Len(open) \in Nat \ {0} /\ Containers /\ currentTable = tab[Len(open)]
      /\ Top = open[Len(open)]
  BY HeldFacts
<1>3. /\ \A j \in 1 .. Len(open) : tab[j] \in 1 .. Len(tables) /\ ContextNamed(j, tab[j])
      /\ \A j \in 1 .. Len(open) : Declared(open[j])
      /\ \A j \in 2 .. Len(open) : Rung(tab, dep, j)
  BY DEF Held, Placed, Ladder, Named, Symbols
<1>4. k = Len(open) => name # PendingName
  <2> SUFFICES ASSUME k = Len(open), name = PendingName PROVE FALSE
    OBVIOUS
  <2>1. name # ""
    BY ScopesAssumption DEF Known
  <2>2. item # <<>> /\ Item.name = name
    BY <2>1 DEF PendingName, NoItem
  <2>3. Top.declared[name].id = Item.id
    BY <2>1, <2>2 DEF Held, Symbols, ItemFits
  <2> QED BY <1>1, <1>2, <2>3
<1>5. name # ""
  BY ScopesAssumption DEF Known
<1>6. open[k].kind # "if"
  BY <1>1, <1>3 DEF Declared
<1>7. name \in DOMAIN tables[tab[k]].entries /\ Stands(tables[tab[k]].entries[name], open[k].declared[name])
  <2>1. NamedAt(open[k], tab[k], IF k = Len(open) THEN PendingName ELSE "")
    BY <1>3, <1>6 DEF ContextNamed
  <2> QED BY <1>1, <1>4, <1>5, <2>1 DEF NamedAt
<1>8. Find(tab[k], name) = tables[tab[k]].entries[name]
  BY <1>2, <1>3, <1>7, FindSteps
<1> DEFINE P == {n \in Nat : k + n <= Len(open) => Find(tab[k + n], name) = Find(tab[k], name)}
<1>9. 0 \in P
  BY <1>2
<1>10. ASSUME NEW n \in P PROVE n + 1 \in P
  <2> DEFINE j == k + (n + 1)
  <2> SUFFICES ASSUME j <= Len(open) PROVE Find(tab[j], name) = Find(tab[k], name)
    OBVIOUS
  <2>1. j \in 2 .. Len(open) /\ j \in 1 .. Len(open) /\ j - 1 = k + n /\ j - 1 \in 1 .. Len(open) /\ ~(j <= k)
    BY <1>2
  <2>2. Find(tab[j - 1], name) = Find(tab[k], name)
    BY <1>2, <2>1
  <2> HIDE DEF j
  <2>3. Find(tab[j], name) = Find(tab[j - 1], name)
    <3>1. CASE open[j].kind = "if"
      BY <1>3, <2>1, <3>1 DEF Rung
    <3>2. CASE open[j].kind # "if"
      <4>1. name \notin DOMAIN open[j].declared
        BY <1>1, <2>1
      <4>2. name \notin DOMAIN tables[tab[j]].entries
        <5>1. NamedAt(open[j], tab[j], IF j = Len(open) THEN PendingName ELSE "")
          BY <1>3, <2>1, <3>2 DEF ContextNamed
        <5> QED BY <4>1, <5>1 DEF NamedAt
      <4>3. tables[tab[j]].parent = tab[j - 1]
        BY <1>3, <2>1, <3>2 DEF Rung
      <4> QED BY <1>2, <1>3, <2>1, <4>2, <4>3, FindSteps
    <3> QED BY <3>1, <3>2
  <2> QED BY <2>2, <2>3
<1>11. P = Nat
  <2> HIDE DEF P
  <2>1. P \in SUBSET Nat
    BY DEF P
  <2> QED BY <1>9, <1>10, <2>1, NatInductionSet
<1>12. Find(currentTable, name) = Find(tab[k], name)
  <2>1. Len(open) - k \in Nat /\ k + (Len(open) - k) = Len(open)
    BY <1>2
  <2>2. Len(open) - k \in P
    BY <1>11, <2>1
  <2> HIDE DEF P
  <2>3. Find(tab[k + (Len(open) - k)], name) = Find(tab[k], name)
    BY <1>2, <2>1, <2>2 DEF P
  <2> QED BY <1>2, <2>1, <2>3
<1> QED BY <1>1, <1>7, <1>8, <1>12

(* Functions are declared in the outermost scope only. *)
LEMMA FindFunction ==
  ASSUME NEW tab, NEW dep, Held(tab, dep), NEW name \in FunctionNames, Scopes(name) # {}
  PROVE  Stands(Find(Global, name), Means(name)) /\ Means(name).kind = "function"
<1>1. PICK k \in 1 .. Len(open) : /\ name \in DOMAIN open[k].declared
                                  /\ Means(name) = open[k].declared[name]
  BY GreatestScope
<1>2. /\ Len(open) \in Nat \ {0} /\ Containers /\ Shape(open)
  BY HeldFacts
<1>3. Declared(open[k])
  BY DEF Held, Symbols
<1>4. open[k].kind = "global" /\ Means(name).kind = "function"
  BY <1>1, <1>3 DEF Declared
<1>5. k = 1 /\ tab[1] = Global /\ 1 \in 1 .. Len(tables) /\ 1 \in 1 .. Len(open)
  BY <1>2, <1>4 DEF Shape, Held, Placed, Ladder, Containers
<1>6. name # "" /\ name \notin Names
  BY ScopesAssumption
<1>7. name # PendingName
  <2>1. PendingName # "" => PendingName \in Names
    BY DEF PendingName, Held, Symbols, ItemFits, NoItem
  <2> QED BY <1>6, <2>1
<1>8. NamedAt(open[1], Global, IF 1 = Len(open) THEN PendingName ELSE "")
  <2>1. ContextNamed(1, tab[1])
    BY <1>5 DEF Held, Named
  <2> QED BY <1>4, <1>5, <2>1 DEF ContextNamed
<1>9. name \in DOMAIN tables[Global].entries /\ Stands(tables[Global].entries[name], open[1].declared[name])
  BY <1>1, <1>5, <1>6, <1>7, <1>8 DEF NamedAt, Known
<1>10. Find(Global, name) = tables[Global].entries[name]
  BY <1>2, <1>5, <1>9, FindSteps DEF Global
<1> QED BY <1>1, <1>4, <1>5, <1>9, <1>10

(* A name is found, from the table that the driver is in, as the symbol of *)
(* the declaration that the name means there in C, also when other scopes  *)
(* declare it too; a function is found from the outermost table.  But for  *)
(* the name whose initial value is being read.                             *)
NamesResolve ==
  /\ \A name \in Names \cup FunctionNames :
       Scopes(name) # {} /\ (item # <<>> => Means(name).id # Item.id) =>
         LET e == Find(currentTable, name)
         IN /\ e \in 1 .. Len(entries) /\ entries[e].id = Means(name).id
            /\ entries[e].scope = "function" <=> Means(name).kind = "function"
  /\ \A name \in FunctionNames :
       Scopes(name) # {} => entries[Find(Global, name)].id = Means(name).id

THEOREM NamesAlwaysResolve == Spec => []NamesResolve
<1>1. ASSUME Resolved PROVE NamesResolve
  <2>1. PICK tab, dep : Held(tab, dep)
    BY <1>1 DEF Resolved
  <2>2. ASSUME NEW name \in Names \cup FunctionNames, Scopes(name) # {},
               item # <<>> => Means(name).id # Item.id
        PROVE  Stands(Find(currentTable, name), Means(name))
    <3>1. name # "" /\ name \in Known
      BY ScopesAssumption DEF Known
    <3>2. PendingName = name => Means(name).id # Item.id
      BY <2>2, <3>1 DEF PendingName, NoItem
    <3> QED BY <2>1, <2>2, <3>1, <3>2, FindMeans
  <2>3. \A name \in FunctionNames :
          Scopes(name) # {} => Stands(Find(Global, name), Means(name))
    BY <2>1, FindFunction
  <2> QED BY <2>2, <2>3 DEF NamesResolve, Stands
<1> QED BY <1>1, ResolvedAlways, PTL

-----------------------------------------------------------------------------
(* What is visited one after the other.  A position in a program is how    *)
(* many names have been read, and the last declaration before it.          *)

Position == Nat \X Nat

(* From lo to hi through n parts, the k-th by a step of steps[k]. *)
IsPath(pos, steps, n, lo, hi) ==
  /\ pos \in [0 .. n -> Position]
  /\ pos[0] = lo /\ pos[n] = hi
  /\ \A k \in 1 .. n : <<pos[k - 1], pos[k]>> \in steps[k]
Path(steps, n, lo, hi) == \E pos : IsPath(pos, steps, n, lo, hi)

LEMMA PathNone ==
  ASSUME NEW steps, NEW lo, NEW hi
  PROVE  /\ Path(steps, 0, lo, hi) => lo = hi
         /\ lo \in Position => Path(steps, 0, lo, lo)
<1>1. Path(steps, 0, lo, hi) => lo = hi
  BY DEF Path, IsPath
<1>2. ASSUME lo \in Position PROVE Path(steps, 0, lo, lo)
  <2> DEFINE pos == [k \in 0 .. 0 |-> lo]
  <2>1. pos \in [0 .. 0 -> Position] /\ pos[0] = lo
    BY <1>2
  <2> HIDE DEF pos
  <2>2. IsPath(pos, steps, 0, lo, lo)
    BY <2>1 DEF IsPath
  <2> QED BY <2>2 DEF Path
<1> QED BY <1>1, <1>2

LEMMA PathEnds ==
  ASSUME NEW steps, NEW n \in Nat, NEW lo, NEW hi, Path(steps, n, lo, hi)
  PROVE  lo \in Position /\ hi \in Position
BY DEF Path, IsPath

LEMMA PathMore ==
  ASSUME NEW steps, NEW n \in Nat, NEW lo, NEW hi, Path(steps, n, lo, hi),
         NEW more, \A k \in 1 .. n : steps[k] \subseteq more[k]
  PROVE  Path(more, n, lo, hi)
<1>1. PICK pos : IsPath(pos, steps, n, lo, hi)
  BY DEF Path
<1>2. IsPath(pos, more, n, lo, hi)
  BY <1>1 DEF IsPath
<1> QED BY <1>2 DEF Path

LEMMA PathNext ==
  ASSUME NEW steps, NEW n \in Nat, NEW lo, NEW mid, NEW hi \in Position, Path(steps, n, lo, mid),
         NEW more, \A k \in 1 .. n : more[k] = steps[k], <<mid, hi>> \in more[n + 1]
  PROVE  Path(more, n + 1, lo, hi)
<1>1. PICK pos : IsPath(pos, steps, n, lo, mid)
  BY DEF Path
<1> DEFINE q == [k \in 0 .. n + 1 |-> IF k = n + 1 THEN hi ELSE pos[k]]
<1>2. /\ pos \in [0 .. n -> Position] /\ pos[0] = lo /\ pos[n] = mid
      /\ \A k \in 1 .. n : <<pos[k - 1], pos[k]>> \in steps[k]
  BY <1>1 DEF IsPath
<1>3. \A k \in 0 .. n : k \in 0 .. n + 1 /\ k # n + 1
  OBVIOUS
<1>4. \A k \in 0 .. n : q[k] = pos[k]
  BY <1>3
<1>5. q[n + 1] = hi /\ n \in 0 .. n /\ 0 \in 0 .. n /\ n + 1 - 1 = n
  OBVIOUS
<1>6. q \in [0 .. n + 1 -> Position]
  <2>1. \A k \in 0 .. n + 1 : k # n + 1 => k \in 0 .. n
    OBVIOUS
  <2> QED BY <1>2, <2>1
<1> HIDE DEF q
<1>7. ASSUME NEW k \in 1 .. n + 1 PROVE <<q[k - 1], q[k]>> \in more[k]
  <2>1. CASE k = n + 1
    BY <1>2, <1>4, <1>5, <2>1
  <2>2. CASE k # n + 1
    <3>1. k \in 1 .. n /\ k \in 0 .. n /\ k - 1 \in 0 .. n
      BY <2>2
    <3> QED BY <1>2, <1>4, <3>1
  <2> QED BY <2>1, <2>2
<1>8. IsPath(q, more, n + 1, lo, hi)
  BY <1>2, <1>4, <1>5, <1>6, <1>7 DEF IsPath
<1> QED BY <1>8 DEF Path

LEMMA PathFirst ==
  ASSUME NEW steps, NEW n \in Nat \ {0}, NEW lo, NEW hi, Path(steps, n, lo, hi),
         NEW rest, \A k \in 1 .. n - 1 : rest[k] = steps[k + 1]
  PROVE  \E mid \in Position : <<lo, mid>> \in steps[1] /\ Path(rest, n - 1, mid, hi)
<1>1. PICK pos : IsPath(pos, steps, n, lo, hi)
  BY DEF Path
<1>2. /\ pos \in [0 .. n -> Position] /\ pos[0] = lo /\ pos[n] = hi
      /\ \A k \in 1 .. n : <<pos[k - 1], pos[k]>> \in steps[k]
  BY <1>1 DEF IsPath
<1> DEFINE q == [k \in 0 .. n - 1 |-> pos[k + 1]]
<1>3. n - 1 \in Nat /\ 1 \in 0 .. n /\ 1 \in 1 .. n /\ 1 - 1 = 0 /\ n - 1 + 1 = n
      /\ 0 \in 0 .. n - 1 /\ n - 1 \in 0 .. n - 1
  OBVIOUS
<1>4. \A k \in 0 .. n - 1 : k + 1 \in 0 .. n
  OBVIOUS
<1>5. q \in [0 .. n - 1 -> Position] /\ q[0] = pos[1] /\ q[n - 1] = hi
  BY <1>2, <1>3, <1>4
<1>6. ASSUME NEW k \in 1 .. n - 1 PROVE <<q[k - 1], q[k]>> \in rest[k]
  <2>1. k - 1 \in 0 .. n - 1 /\ k \in 0 .. n - 1 /\ k - 1 + 1 = k /\ k + 1 \in 1 .. n /\ k + 1 - 1 = k
    OBVIOUS
  <2>2. q[k - 1] = pos[k] /\ q[k] = pos[k + 1]
    BY <2>1
  <2> HIDE DEF q
  <2>3. <<pos[k], pos[k + 1]>> \in steps[k + 1]
    BY <1>2, <2>1
  <2>4. rest[k] = steps[k + 1]
    OBVIOUS
  <2> QED BY <2>2, <2>3, <2>4
<1> HIDE DEF q
<1>7. IsPath(q, rest, n - 1, pos[1], hi)
  BY <1>5, <1>6 DEF IsPath
<1>8. pos[1] \in Position /\ <<lo, pos[1]>> \in steps[1]
  BY <1>2, <1>3
<1> QED BY <1>7, <1>8 DEF Path

LEMMA PathJoined ==
  ASSUME NEW s, NEW n \in Nat, NEW lo, NEW mid, Path(s, n, lo, mid),
         NEW t, NEW m \in Nat, NEW hi, Path(t, m, mid, hi),
         NEW u, \A k \in 1 .. n : s[k] \subseteq u[k], \A k \in 1 .. m : t[k] \subseteq u[n + k]
  PROVE  Path(u, n + m, lo, hi)
<1>1. PICK p : IsPath(p, s, n, lo, mid)
  BY DEF Path
<1>2. PICK q : IsPath(q, t, m, mid, hi)
  BY DEF Path
<1>3. /\ p \in [0 .. n -> Position] /\ p[0] = lo /\ p[n] = mid
      /\ \A k \in 1 .. n : <<p[k - 1], p[k]>> \in s[k]
  BY <1>1 DEF IsPath
<1>4. /\ q \in [0 .. m -> Position] /\ q[0] = mid /\ q[m] = hi
      /\ \A k \in 1 .. m : <<q[k - 1], q[k]>> \in t[k]
  BY <1>2 DEF IsPath
<1> DEFINE r == [k \in 0 .. n + m |-> IF k <= n THEN p[k] ELSE q[k - n]]
<1>5. \A k \in 0 .. n : k \in 0 .. n + m /\ k <= n
  OBVIOUS
<1>6. \A k \in 0 .. n + m : ~(k <= n) => k - n \in 1 .. m /\ k - n \in 0 .. m
  OBVIOUS
<1>7. \A k \in 0 .. n : r[k] = p[k]
  BY <1>5
<1>8. \A k \in 0 .. m : r[n + k] = q[k]
  <2> TAKE k \in 0 .. m
  <2>1. n + k \in 0 .. n + m /\ (n + k <= n => k = 0) /\ n + k - n = k
    OBVIOUS
  <2>2. CASE k = 0
    <3>1. n + k = n /\ n \in 0 .. n
      BY <2>2
    <3> QED BY <1>3, <1>4, <1>7, <2>2, <3>1
  <2>3. CASE k # 0
    BY <2>1, <2>3
  <2> QED BY <2>2, <2>3
<1>9. r \in [0 .. n + m -> Position]
  <2>1. \A k \in 0 .. n + m : k <= n => k \in 0 .. n
    OBVIOUS
  <2> QED BY <1>3, <1>4, <1>6, <2>1
<1>10. 0 \in 0 .. n /\ m \in 0 .. m
  OBVIOUS
<1>11. r[0] = lo /\ r[n + m] = hi
  BY <1>3, <1>4, <1>7, <1>8, <1>10
<1> HIDE DEF r
<1>12. ASSUME NEW k \in 1 .. n + m PROVE <<r[k - 1], r[k]>> \in u[k]
  <2>1. CASE k <= n
    <3>1. k \in 1 .. n /\ k \in 0 .. n /\ k - 1 \in 0 .. n
      BY <2>1
    <3> QED BY <1>3, <1>7, <3>1
  <2>2. CASE ~(k <= n)
    <3> DEFINE j == k - n
    <3>1. j \in 1 .. m /\ j \in 0 .. m /\ j - 1 \in 0 .. m /\ k = n + j /\ k - 1 = n + (j - 1)
      BY <2>2
    <3> HIDE DEF j
    <3>2. r[k - 1] = q[j - 1] /\ r[k] = q[j]
      BY <1>8, <3>1
    <3> QED BY <1>4, <3>1, <3>2
  <2> QED BY <2>1, <2>2
<1>13. IsPath(r, u, n + m, lo, hi)
  BY <1>9, <1>11, <1>12 DEF IsPath
<1> QED BY <1>13 DEF Path

-----------------------------------------------------------------------------
(* What irgen visits from one position to another, in a world that says    *)
(* what entries, tables and blocks hold.                                   *)

Variables == {"global", "local", "param"}

Extends(w, w2) ==
  /\ w.symbols \subseteq w2.symbols /\ w.names \subseteq w2.names /\ w.uses \subseteq w2.uses
  /\ w.functions \subseteq w2.functions /\ w.spans \subseteq w2.spans
  /\ w.declared \subseteq w2.declared
  /\ \A x \in w2.declared, y \in w.declared : x \in w.declared \/ y <= x

(* The declarations first to last, that no other ones are before. *)
Declares(w, lo, hi, first, last) ==
  /\ hi = <<lo[1], last>>
  /\ lo[2] < first /\ first <= last
  /\ first .. last \subseteq w.declared /\ first \in w.declared
  /\ \A x \in w.declared : x <= lo[2] \/ first <= x

(* An operator, or a name that is read after it was declared. *)
NodeAt(w, n, lo, hi) ==
  \/ n.kind = "binary" /\ hi = lo /\ <<n.entry, Null, "temp">> \in w.symbols
  \/ /\ n.kind \in {"identifier", "call"} /\ hi = <<lo[1] + 1, lo[2]>>
     /\ \E id \in w.declared, scope \in Variables \cup {"function"} :
          /\ <<n.entry, id, scope>> \in w.symbols /\ <<lo[1] + 1, id>> \in w.uses /\ id <= lo[2]
          /\ n.kind = "call" <=> scope = "function"
NodeStep(w, n) == {s \in Position \X Position : NodeAt(w, n, s[1], s[2])}
NodesAt(w, nodes, lo, hi) ==
  IsSeq(nodes) /\ Path([k \in 1 .. Len(nodes) |-> NodeStep(w, nodes[k])], Len(nodes), lo, hi)
NodesStep(w, nodes) == {s \in Position \X Position : NodesAt(w, nodes, s[1], s[2])}

(* A variable of a declaration, which its table has, then its initial      *)
(* value.                                                                  *)
NameAt(w, t, name, id) ==
  /\ name \in Known
  /\ \E e : <<t, name, e>> \in w.names /\ \E scope \in Variables : <<e, id, scope>> \in w.symbols
DefAt(w, t, scope, d, lo, hi) ==
  /\ NameAt(w, t, d.name, d.id)
  /\ \E mid \in Position : /\ Declares(w, lo, mid, d.id, d.id)
                           /\ NodesAt(w, IF scope = "local" THEN d.nodes ELSE <<>>, mid, hi)
DefStep(w, t, scope, d) == {s \in Position \X Position : DefAt(w, t, scope, d, s[1], s[2])}
DefsAt(w, t, scope, defs, lo, hi) ==
  IsSeq(defs) /\ Path([k \in 1 .. Len(defs) |-> DefStep(w, t, scope, defs[k])], Len(defs), lo, hi)

(* Statements; blocks go from where their span says. *)
SimpleAt(w, t, i, lo, hi) ==
  \/ i.kind = "expression" /\ NodesAt(w, i.nodes, lo, hi)
  \/ /\ i.kind = "declaration" /\ i = [kind |-> "declaration", scope |-> i.scope, defs |-> i.defs]
     /\ i.defs # <<>> /\ DefsAt(w, t, i.scope, i.defs, lo, hi)
  \/ i.kind = "block" /\ <<i.block, lo, hi>> \in w.spans
ConditionsAt(w, conditions, lo, hi) ==
  /\ IsSeq(conditions)
  /\ Path([k \in 1 .. Len(conditions) |-> NodesStep(w, conditions[k])], Len(conditions), lo, hi)
IfAt(w, t, i, lo, hi) ==
  /\ i.kind = "if" /\ i = [kind |-> "if", conditions |-> i.conditions, then |-> i.then]
  /\ i.conditions # <<>>
  /\ \E mid \in Position : ConditionsAt(w, i.conditions, lo, mid) /\ SimpleAt(w, t, i.then, mid, hi)
HeadAt(w, f, lo, hi) ==
  \E id : <<f.entry, id, "function">> \in w.symbols /\ Declares(w, lo, hi, id, id + Len(f.parameters))
FunctionAt(w, i, lo, hi) ==
  /\ i.kind = "function"
  /\ \E f : \E mid \in Position :
       /\ <<i.function, f>> \in w.functions /\ HeadAt(w, f, lo, mid)
       /\ IF f.body = Null THEN hi = mid ELSE <<f.body, mid, hi>> \in w.spans

ItemAt(w, t, i, lo, hi) ==
  NodeAt(w, i, lo, hi) \/ SimpleAt(w, t, i, lo, hi) \/ IfAt(w, t, i, lo, hi) \/ FunctionAt(w, i, lo, hi)
ItemStep(w, t, i) == {s \in Position \X Position : ItemAt(w, t, i, s[1], s[2])}
ListAt(w, t, items, lo, hi) ==
  IsSeq(items) /\ Path([k \in 1 .. Len(items) |-> ItemStep(w, t, items[k])], Len(items), lo, hi)
TasksAt(w, tasks, lo, hi) ==
  /\ IsSeq(tasks)
  /\ Path([k \in 1 .. Len(tasks) |-> ItemStep(w, tasks[k].table, tasks[k].item)], Len(tasks), lo, hi)

LEMMA DeclaresKept ==
  ASSUME NEW w, NEW w2, Extends(w, w2), NEW lo, NEW hi, NEW first, NEW last,
         Declares(w, lo, hi, first, last)
  PROVE  Declares(w2, lo, hi, first, last)
BY DEF Declares, Extends

LEMMA NodeKept ==
  ASSUME NEW w, NEW w2, Extends(w, w2), NEW n, NEW lo, NEW hi, NodeAt(w, n, lo, hi)
  PROVE  NodeAt(w2, n, lo, hi)
BY DEF NodeAt, Extends

LEMMA NodesKept ==
  ASSUME NEW w, NEW w2, Extends(w, w2), NEW nodes, NEW lo, NEW hi, NodesAt(w, nodes, lo, hi)
  PROVE  NodesAt(w2, nodes, lo, hi)
<1> DEFINE s == [k \in 1 .. Len(nodes) |-> NodeStep(w, nodes[k])]
           m == [k \in 1 .. Len(nodes) |-> NodeStep(w2, nodes[k])]
<1>1. IsSeq(nodes) /\ Path(s, Len(nodes), lo, hi) /\ Len(nodes) \in Nat
  BY AppendFacts DEF NodesAt
<1>2. ASSUME NEW k \in 1 .. Len(nodes) PROVE s[k] \subseteq m[k]
  BY NodeKept DEF NodeStep
<1> HIDE DEF s, m
<1>3. Path(m, Len(nodes), lo, hi)
  BY <1>1, <1>2, PathMore
<1> QED BY <1>1, <1>3 DEF NodesAt, m

LEMMA DefKept ==
  ASSUME NEW w, NEW w2, Extends(w, w2), NEW t, NEW scope, NEW d, NEW lo, NEW hi,
         DefAt(w, t, scope, d, lo, hi)
  PROVE  DefAt(w2, t, scope, d, lo, hi)
<1>1. NameAt(w2, t, d.name, d.id)
  BY DEF DefAt, NameAt, Extends
<1>2. PICK mid \in Position : /\ Declares(w, lo, mid, d.id, d.id)
                              /\ NodesAt(w, IF scope = "local" THEN d.nodes ELSE <<>>, mid, hi)
  BY DEF DefAt
<1>3. /\ Declares(w2, lo, mid, d.id, d.id)
      /\ NodesAt(w2, IF scope = "local" THEN d.nodes ELSE <<>>, mid, hi)
  BY <1>2, DeclaresKept, NodesKept
<1> QED BY <1>1, <1>3 DEF DefAt

LEMMA DefsKept ==
  ASSUME NEW w, NEW w2, Extends(w, w2), NEW t, NEW scope, NEW defs, NEW lo, NEW hi,
         DefsAt(w, t, scope, defs, lo, hi)
  PROVE  DefsAt(w2, t, scope, defs, lo, hi)
<1> DEFINE s == [k \in 1 .. Len(defs) |-> DefStep(w, t, scope, defs[k])]
           m == [k \in 1 .. Len(defs) |-> DefStep(w2, t, scope, defs[k])]
<1>1. IsSeq(defs) /\ Path(s, Len(defs), lo, hi) /\ Len(defs) \in Nat
  BY AppendFacts DEF DefsAt
<1>2. ASSUME NEW k \in 1 .. Len(defs) PROVE s[k] \subseteq m[k]
  BY DefKept DEF DefStep
<1> HIDE DEF s, m
<1>3. Path(m, Len(defs), lo, hi)
  BY <1>1, <1>2, PathMore
<1> QED BY <1>1, <1>3 DEF DefsAt, m

LEMMA SimpleKept ==
  ASSUME NEW w, NEW w2, Extends(w, w2), NEW t, NEW i, NEW lo, NEW hi, SimpleAt(w, t, i, lo, hi)
  PROVE  SimpleAt(w2, t, i, lo, hi)
<1>1. NodesAt(w, i.nodes, lo, hi) => NodesAt(w2, i.nodes, lo, hi)
  BY NodesKept
<1>2. DefsAt(w, t, i.scope, i.defs, lo, hi) => DefsAt(w2, t, i.scope, i.defs, lo, hi)
  BY DefsKept
<1>3. <<i.block, lo, hi>> \in w.spans => <<i.block, lo, hi>> \in w2.spans
  BY DEF Extends
<1> QED BY <1>1, <1>2, <1>3 DEF SimpleAt

LEMMA ConditionsKept ==
  ASSUME NEW w, NEW w2, Extends(w, w2), NEW conditions, NEW lo, NEW hi,
         ConditionsAt(w, conditions, lo, hi)
  PROVE  ConditionsAt(w2, conditions, lo, hi)
<1> DEFINE s == [k \in 1 .. Len(conditions) |-> NodesStep(w, conditions[k])]
           m == [k \in 1 .. Len(conditions) |-> NodesStep(w2, conditions[k])]
<1>1. IsSeq(conditions) /\ Path(s, Len(conditions), lo, hi) /\ Len(conditions) \in Nat
  BY AppendFacts DEF ConditionsAt
<1>2. ASSUME NEW k \in 1 .. Len(conditions) PROVE s[k] \subseteq m[k]
  BY NodesKept DEF NodesStep
<1> HIDE DEF s, m
<1>3. Path(m, Len(conditions), lo, hi)
  BY <1>1, <1>2, PathMore
<1> QED BY <1>1, <1>3 DEF ConditionsAt, m

LEMMA HeadKept ==
  ASSUME NEW w, NEW w2, Extends(w, w2), NEW f, NEW lo, NEW hi, HeadAt(w, f, lo, hi)
  PROVE  HeadAt(w2, f, lo, hi)
<1>1. PICK id : <<f.entry, id, "function">> \in w.symbols /\ Declares(w, lo, hi, id, id + Len(f.parameters))
  BY DEF HeadAt
<1>2. <<f.entry, id, "function">> \in w2.symbols /\ Declares(w2, lo, hi, id, id + Len(f.parameters))
  BY <1>1, DeclaresKept DEF Extends
<1> QED BY <1>2 DEF HeadAt

LEMMA ItemKept ==
  ASSUME NEW w, NEW w2, Extends(w, w2), NEW t, NEW i, NEW lo, NEW hi, ItemAt(w, t, i, lo, hi)
  PROVE  ItemAt(w2, t, i, lo, hi)
<1>1. NodeAt(w, i, lo, hi) => NodeAt(w2, i, lo, hi)
  BY NodeKept
<1>2. SimpleAt(w, t, i, lo, hi) => SimpleAt(w2, t, i, lo, hi)
  BY SimpleKept
<1>3. ASSUME IfAt(w, t, i, lo, hi) PROVE IfAt(w2, t, i, lo, hi)
  <2>1. PICK mid \in Position : ConditionsAt(w, i.conditions, lo, mid) /\ SimpleAt(w, t, i.then, mid, hi)
    BY <1>3 DEF IfAt
  <2>2. ConditionsAt(w2, i.conditions, lo, mid) /\ SimpleAt(w2, t, i.then, mid, hi)
    BY <2>1, ConditionsKept, SimpleKept
  <2> QED BY <1>3, <2>2 DEF IfAt
<1>4. ASSUME FunctionAt(w, i, lo, hi) PROVE FunctionAt(w2, i, lo, hi)
  <2>1. PICK f : \E mid \in Position :
          /\ <<i.function, f>> \in w.functions /\ HeadAt(w, f, lo, mid)
          /\ IF f.body = Null THEN hi = mid ELSE <<f.body, mid, hi>> \in w.spans
    BY <1>4 DEF FunctionAt
  <2>2. PICK mid \in Position :
          /\ <<i.function, f>> \in w.functions /\ HeadAt(w, f, lo, mid)
          /\ IF f.body = Null THEN hi = mid ELSE <<f.body, mid, hi>> \in w.spans
    BY <2>1
  <2>3. HeadAt(w2, f, lo, mid)
    BY <2>2, HeadKept
  <2> QED BY <1>4, <2>2, <2>3 DEF FunctionAt, Extends
<1> QED BY <1>1, <1>2, <1>3, <1>4 DEF ItemAt

LEMMA ListKept ==
  ASSUME NEW w, NEW w2, Extends(w, w2), NEW t, NEW items, NEW lo, NEW hi, ListAt(w, t, items, lo, hi)
  PROVE  ListAt(w2, t, items, lo, hi)
<1> DEFINE s == [k \in 1 .. Len(items) |-> ItemStep(w, t, items[k])]
           m == [k \in 1 .. Len(items) |-> ItemStep(w2, t, items[k])]
<1>1. IsSeq(items) /\ Path(s, Len(items), lo, hi) /\ Len(items) \in Nat
  BY AppendFacts DEF ListAt
<1>2. ASSUME NEW k \in 1 .. Len(items) PROVE s[k] \subseteq m[k]
  BY ItemKept DEF ItemStep
<1> HIDE DEF s, m
<1>3. Path(m, Len(items), lo, hi)
  BY <1>1, <1>2, PathMore
<1> QED BY <1>1, <1>3 DEF ListAt, m

(* Nothing, one more, and the first. *)
LEMMA TailFacts ==
  ASSUME NEW s, IsSeq(s), s # <<>>
  PROVE  /\ IsSeq(Tail(s)) /\ Len(s) \in Nat \ {0} /\ Len(Tail(s)) = Len(s) - 1 /\ Head(s) = s[1]
         /\ \A k \in 1 .. Len(s) - 1 : Tail(s)[k] = s[k + 1]
<1>1. PICK S : s \in Seq(S)
  BY DEF IsSeq
<1>2. /\ Tail(s) \in Seq(S) /\ Len(s) \in Nat \ {0} /\ Len(Tail(s)) = Len(s) - 1 /\ Head(s) = s[1]
      /\ \A k \in 1 .. Len(s) - 1 : Tail(s)[k] = s[k + 1]
  BY <1>1
<1> QED BY <1>2 DEF IsSeq

LEMMA NodesNone == ASSUME NEW w, NEW lo \in Position PROVE NodesAt(w, <<>>, lo, lo)
BY NothingIsSeq, PathNone DEF NodesAt

LEMMA NodesNext ==
  ASSUME NEW w, NEW nodes, NEW lo, NEW mid, NodesAt(w, nodes, lo, mid),
         NEW n, NEW hi \in Position, NodeAt(w, n, mid, hi)
  PROVE  NodesAt(w, Append(nodes, n), lo, hi)
<1> DEFINE all == Append(nodes, n)
           s == [k \in 1 .. Len(nodes) |-> NodeStep(w, nodes[k])]
           m == [k \in 1 .. Len(nodes) + 1 |-> NodeStep(w, all[k])]
<1>1. IsSeq(nodes) /\ Path(s, Len(nodes), lo, mid)
  BY DEF NodesAt
<1>2. /\ IsSeq(all) /\ Len(nodes) \in Nat /\ Len(all) = Len(nodes) + 1
      /\ \A k \in 1 .. Len(nodes) : all[k] = nodes[k]
      /\ all[Len(nodes) + 1] = n
  BY <1>1, AppendFacts
<1> HIDE DEF all
<1>3. mid \in Position
  BY <1>1, <1>2, PathEnds
<1>4. <<mid, hi>> \in m[Len(nodes) + 1]
  BY <1>2, <1>3 DEF NodeStep
<1>5. ASSUME NEW k \in 1 .. Len(nodes) PROVE m[k] = s[k]
  BY <1>2
<1> HIDE DEF s, m
<1>6. Path(m, Len(nodes) + 1, lo, hi)
  BY <1>1, <1>2, <1>4, <1>5, PathNext
<1> QED BY <1>2, <1>6 DEF NodesAt, m, all

LEMMA DefsNone == ASSUME NEW w, NEW t, NEW scope, NEW lo \in Position PROVE DefsAt(w, t, scope, <<>>, lo, lo)
BY NothingIsSeq, PathNone DEF DefsAt

LEMMA DefsNext ==
  ASSUME NEW w, NEW t, NEW scope, NEW defs, NEW lo, NEW mid, DefsAt(w, t, scope, defs, lo, mid),
         NEW d, NEW hi \in Position, DefAt(w, t, scope, d, mid, hi)
  PROVE  DefsAt(w, t, scope, Append(defs, d), lo, hi)
<1> DEFINE all == Append(defs, d)
           s == [k \in 1 .. Len(defs) |-> DefStep(w, t, scope, defs[k])]
           m == [k \in 1 .. Len(defs) + 1 |-> DefStep(w, t, scope, all[k])]
<1>1. IsSeq(defs) /\ Path(s, Len(defs), lo, mid)
  BY DEF DefsAt
<1>2. /\ IsSeq(all) /\ Len(defs) \in Nat /\ Len(all) = Len(defs) + 1
      /\ \A k \in 1 .. Len(defs) : all[k] = defs[k]
      /\ all[Len(defs) + 1] = d
  BY <1>1, AppendFacts
<1> HIDE DEF all
<1>3. mid \in Position
  BY <1>1, <1>2, PathEnds
<1>4. <<mid, hi>> \in m[Len(defs) + 1]
  BY <1>2, <1>3 DEF DefStep
<1>5. ASSUME NEW k \in 1 .. Len(defs) PROVE m[k] = s[k]
  BY <1>2
<1> HIDE DEF s, m
<1>6. Path(m, Len(defs) + 1, lo, hi)
  BY <1>1, <1>2, <1>4, <1>5, PathNext
<1> QED BY <1>2, <1>6 DEF DefsAt, m, all

LEMMA DefsFirst ==
  ASSUME NEW w, NEW t, NEW scope, NEW defs, defs # <<>>, NEW lo, NEW hi, DefsAt(w, t, scope, defs, lo, hi)
  PROVE  \E mid \in Position : /\ DefAt(w, t, scope, Head(defs), lo, mid)
                               /\ DefsAt(w, t, scope, Tail(defs), mid, hi)
<1> DEFINE tail == Tail(defs)
           s == [k \in 1 .. Len(defs) |-> DefStep(w, t, scope, defs[k])]
           m == [k \in 1 .. Len(tail) |-> DefStep(w, t, scope, tail[k])]
<1>1. IsSeq(defs) /\ Path(s, Len(defs), lo, hi)
  BY DEF DefsAt
<1>2. /\ IsSeq(tail) /\ Len(defs) \in Nat \ {0} /\ Len(tail) = Len(defs) - 1 /\ Head(defs) = defs[1]
      /\ \A k \in 1 .. Len(defs) - 1 : tail[k] = defs[k + 1]
  BY <1>1, TailFacts
<1> HIDE DEF tail
<1>3. 1 \in 1 .. Len(defs) /\ \A k \in 1 .. Len(defs) - 1 : k + 1 \in 1 .. Len(defs)
  BY <1>2
<1>4. \A k \in 1 .. Len(defs) - 1 : m[k] = s[k + 1]
  BY <1>2, <1>3
<1>5. s[1] = DefStep(w, t, scope, Head(defs))
  BY <1>2, <1>3
<1> HIDE DEF s
<1>6. PICK mid \in Position : <<lo, mid>> \in s[1] /\ Path(m, Len(defs) - 1, mid, hi)
  <2> HIDE DEF m
  <2> QED BY <1>1, <1>2, <1>4, PathFirst
<1>7. DefAt(w, t, scope, Head(defs), lo, mid)
  BY <1>5, <1>6 DEF DefStep
<1>8. DefsAt(w, t, scope, tail, mid, hi)
  BY <1>2, <1>6 DEF DefsAt
<1> QED BY <1>7, <1>8 DEF tail

LEMMA ConditionsFirst ==
  ASSUME NEW w, NEW conditions, conditions # <<>>, NEW lo, NEW hi, ConditionsAt(w, conditions, lo, hi)
  PROVE  /\ IsSeq(conditions)
         /\ \E mid \in Position : /\ NodesAt(w, Head(conditions), lo, mid)
                                  /\ ConditionsAt(w, Tail(conditions), mid, hi)
<1> DEFINE tail == Tail(conditions)
           s == [k \in 1 .. Len(conditions) |-> NodesStep(w, conditions[k])]
           m == [k \in 1 .. Len(tail) |-> NodesStep(w, tail[k])]
<1>1. IsSeq(conditions) /\ Path(s, Len(conditions), lo, hi)
  BY DEF ConditionsAt
<1>2. /\ IsSeq(tail) /\ Len(conditions) \in Nat \ {0} /\ Len(tail) = Len(conditions) - 1
      /\ Head(conditions) = conditions[1]
      /\ \A k \in 1 .. Len(conditions) - 1 : tail[k] = conditions[k + 1]
  BY <1>1, TailFacts
<1> HIDE DEF tail
<1>3. 1 \in 1 .. Len(conditions) /\ \A k \in 1 .. Len(conditions) - 1 : k + 1 \in 1 .. Len(conditions)
  BY <1>2
<1>4. \A k \in 1 .. Len(conditions) - 1 : m[k] = s[k + 1]
  BY <1>2, <1>3
<1>5. s[1] = NodesStep(w, Head(conditions))
  BY <1>2, <1>3
<1> HIDE DEF s
<1>6. PICK mid \in Position : <<lo, mid>> \in s[1] /\ Path(m, Len(conditions) - 1, mid, hi)
  <2> HIDE DEF m
  <2> QED BY <1>1, <1>2, <1>4, PathFirst
<1>7. NodesAt(w, Head(conditions), lo, mid)
  BY <1>5, <1>6 DEF NodesStep
<1>8. ConditionsAt(w, tail, mid, hi)
  BY <1>2, <1>6 DEF ConditionsAt
<1> QED BY <1>1, <1>7, <1>8 DEF tail

LEMMA ListNone == ASSUME NEW w, NEW t, NEW lo \in Position PROVE ListAt(w, t, <<>>, lo, lo)
BY NothingIsSeq, PathNone DEF ListAt

LEMMA ListNext ==
  ASSUME NEW w, NEW t, NEW items, NEW lo, NEW mid, ListAt(w, t, items, lo, mid),
         NEW i, NEW hi \in Position, ItemAt(w, t, i, mid, hi)
  PROVE  ListAt(w, t, Append(items, i), lo, hi)
<1> DEFINE all == Append(items, i)
           s == [k \in 1 .. Len(items) |-> ItemStep(w, t, items[k])]
           m == [k \in 1 .. Len(items) + 1 |-> ItemStep(w, t, all[k])]
<1>1. IsSeq(items) /\ Path(s, Len(items), lo, mid)
  BY DEF ListAt
<1>2. /\ IsSeq(all) /\ Len(items) \in Nat /\ Len(all) = Len(items) + 1
      /\ \A k \in 1 .. Len(items) : all[k] = items[k]
      /\ all[Len(items) + 1] = i
  BY <1>1, AppendFacts
<1> HIDE DEF all
<1>3. mid \in Position
  BY <1>1, <1>2, PathEnds
<1>4. <<mid, hi>> \in m[Len(items) + 1]
  BY <1>2, <1>3 DEF ItemStep
<1>5. ASSUME NEW k \in 1 .. Len(items) PROVE m[k] = s[k]
  BY <1>2
<1> HIDE DEF s, m
<1>6. Path(m, Len(items) + 1, lo, hi)
  BY <1>1, <1>2, <1>4, <1>5, PathNext
<1> QED BY <1>2, <1>6 DEF ListAt, m, all

LEMMA NodesListed ==
  ASSUME NEW w, NEW t, NEW nodes, NEW lo, NEW hi, NodesAt(w, nodes, lo, hi)
  PROVE  ListAt(w, t, nodes, lo, hi)
<1> DEFINE s == [k \in 1 .. Len(nodes) |-> NodeStep(w, nodes[k])]
           m == [k \in 1 .. Len(nodes) |-> ItemStep(w, t, nodes[k])]
<1>1. IsSeq(nodes) /\ Path(s, Len(nodes), lo, hi) /\ Len(nodes) \in Nat
  BY AppendFacts DEF NodesAt
<1>2. ASSUME NEW k \in 1 .. Len(nodes) PROVE s[k] \subseteq m[k]
  BY DEF NodeStep, ItemStep, ItemAt
<1> HIDE DEF s, m
<1>3. Path(m, Len(nodes), lo, hi)
  BY <1>1, <1>2, PathMore
<1> QED BY <1>1, <1>3 DEF ListAt, m

LEMMA TasksFirst ==
  ASSUME NEW w, NEW tasks, tasks # <<>>, NEW lo, NEW hi, TasksAt(w, tasks, lo, hi)
  PROVE  /\ IsSeq(tasks)
         /\ \E mid \in Position : /\ ItemAt(w, Head(tasks).table, Head(tasks).item, lo, mid)
                                  /\ TasksAt(w, Tail(tasks), mid, hi)
<1> DEFINE tail == Tail(tasks)
           s == [k \in 1 .. Len(tasks) |-> ItemStep(w, tasks[k].table, tasks[k].item)]
           m == [k \in 1 .. Len(tail) |-> ItemStep(w, tail[k].table, tail[k].item)]
<1>1. IsSeq(tasks) /\ Path(s, Len(tasks), lo, hi)
  BY DEF TasksAt
<1>2. /\ IsSeq(tail) /\ Len(tasks) \in Nat \ {0} /\ Len(tail) = Len(tasks) - 1
      /\ Head(tasks) = tasks[1]
      /\ \A k \in 1 .. Len(tasks) - 1 : tail[k] = tasks[k + 1]
  BY <1>1, TailFacts
<1> HIDE DEF tail
<1>3. 1 \in 1 .. Len(tasks) /\ \A k \in 1 .. Len(tasks) - 1 : k + 1 \in 1 .. Len(tasks)
  BY <1>2
<1>4. \A k \in 1 .. Len(tasks) - 1 : m[k] = s[k + 1]
  BY <1>2, <1>3
<1>5. s[1] = ItemStep(w, Head(tasks).table, Head(tasks).item)
  BY <1>2, <1>3
<1> HIDE DEF s
<1>6. PICK mid \in Position : <<lo, mid>> \in s[1] /\ Path(m, Len(tasks) - 1, mid, hi)
  <2> HIDE DEF m
  <2> QED BY <1>1, <1>2, <1>4, PathFirst
<1>7. ItemAt(w, Head(tasks).table, Head(tasks).item, lo, mid)
  BY <1>5, <1>6 DEF ItemStep
<1>8. TasksAt(w, tail, mid, hi)
  BY <1>2, <1>6 DEF TasksAt
<1> QED BY <1>1, <1>7, <1>8 DEF tail

LEMMA TasksListed ==
  ASSUME NEW w, NEW t, NEW items, NEW lo, NEW hi, ListAt(w, t, items, lo, hi)
  PROVE  TasksAt(w, [k \in DOMAIN items |-> [table |-> t, item |-> items[k]]], lo, hi)
<1> DEFINE tasks == [k \in DOMAIN items |-> [table |-> t, item |-> items[k]]]
           s == [k \in 1 .. Len(items) |-> ItemStep(w, t, items[k])]
           m == [k \in 1 .. Len(items) |-> ItemStep(w, tasks[k].table, tasks[k].item)]
<1>1. IsSeq(items) /\ Path(s, Len(items), lo, hi)
  BY DEF ListAt
<1>2. DOMAIN items = 1 .. Len(items) /\ Len(items) \in Nat
  BY <1>1, AppendFacts
<1>3. \A k \in 1 .. Len(items) : tasks[k] = [table |-> t, item |-> items[k]]
  BY <1>2
<1>4. tasks = [k \in DOMAIN items |-> tasks[k]]
  OBVIOUS
<1> HIDE DEF tasks
<1>5. IsSeq(tasks) /\ Len(tasks) = Len(items)
  BY <1>1, <1>2, <1>4, SameLength
<1>6. ASSUME NEW k \in 1 .. Len(items) PROVE s[k] \subseteq m[k]
  <2>1. tasks[k] = [table |-> t, item |-> items[k]]
    BY <1>3
  <2>2. tasks[k].table = t /\ tasks[k].item = items[k]
    BY <2>1
  <2> QED BY <2>2
<1> HIDE DEF s, m
<1>7. Path(m, Len(items), lo, hi)
  BY <1>1, <1>2, <1>6, PathMore
<1> QED BY <1>5, <1>7 DEF TasksAt, m, tasks

LEMMA TasksJoined ==
  ASSUME NEW w, NEW parts, NEW lo, NEW mid, TasksAt(w, parts, lo, mid),
         NEW tail, NEW hi, TasksAt(w, tail, mid, hi)
  PROVE  TasksAt(w, parts \o tail, lo, hi)
<1> DEFINE all == parts \o tail
           s == [k \in 1 .. Len(parts) |-> ItemStep(w, parts[k].table, parts[k].item)]
           r == [k \in 1 .. Len(tail) |-> ItemStep(w, tail[k].table, tail[k].item)]
           m == [k \in 1 .. Len(all) |-> ItemStep(w, all[k].table, all[k].item)]
<1>1. IsSeq(parts) /\ Path(s, Len(parts), lo, mid) /\ IsSeq(tail) /\ Path(r, Len(tail), mid, hi)
  BY DEF TasksAt
<1>2. /\ IsSeq(all) /\ Len(all) = Len(parts) + Len(tail) /\ Len(parts) \in Nat /\ Len(tail) \in Nat
      /\ \A k \in 1 .. Len(parts) : all[k] = parts[k]
      /\ \A k \in Len(parts) + 1 .. Len(parts) + Len(tail) : all[k] = tail[k - Len(parts)]
  <2>1. PICK S : parts \in Seq(S)
    BY <1>1 DEF IsSeq
  <2>2. PICK T : tail \in Seq(T)
    BY <1>1 DEF IsSeq
  <2> DEFINE U == S \cup T
  <2>3. parts \in Seq(U) /\ tail \in Seq(U)
    BY <2>1, <2>2
  <2> HIDE DEF U, all
  <2>4. Concatenated(U, parts, tail, all)
    BY <2>3, ConcatFacts DEF all
  <2> QED BY <2>4 DEF Concatenated, IsSeq
<1> HIDE DEF all
<1>3. ASSUME NEW k \in 1 .. Len(parts) PROVE s[k] \subseteq m[k]
  <2>1. k \in 1 .. Len(all) /\ all[k] = parts[k]
    BY <1>2
  <2> QED BY <2>1
<1>4. ASSUME NEW k \in 1 .. Len(tail) PROVE r[k] \subseteq m[Len(parts) + k]
  <2>1. Len(parts) + k \in 1 .. Len(all) /\ Len(parts) + k \in Len(parts) + 1 .. Len(parts) + Len(tail)
        /\ Len(parts) + k - Len(parts) = k
    BY <1>2
  <2>2. all[Len(parts) + k] = tail[k]
    BY <1>2, <2>1
  <2> QED BY <2>1, <2>2
<1> HIDE DEF s, r, m
<1>5. Path(m, Len(parts) + Len(tail), lo, hi)
  BY <1>1, <1>2, <1>3, <1>4, PathJoined
<1>6. TasksAt(w, all, lo, hi)
  BY <1>2, <1>5 DEF TasksAt, m
<1> QED BY <1>6 DEF all

(* What is visited of the parts and then of the rest. *)
LEMMA TasksReplaced ==
  ASSUME NEW w, NEW t, NEW items, NEW lo, NEW mid, ListAt(w, t, items, lo, mid),
         NEW tail, NEW hi, TasksAt(w, tail, mid, hi)
  PROVE  TasksAt(w, Parts(t, items) \o tail, lo, hi)
<1>1. TasksAt(w, Parts(t, items), lo, mid)
  BY TasksListed DEF Parts
<1> QED BY <1>1, TasksJoined

-----------------------------------------------------------------------------
(* How far the text is covered by what has been built of it. *)

(* The ids of the variables and functions declared so far. *)
Ids == ({entries[e].id : e \in 1 .. Len(entries)} \ {Null})
         \cup {i \in {Item.id} : PendingName # ""}
Closed == IF Len(open) = 1 THEN Len(functions) ELSE Len(functions) - 1
World(spans) ==
  [symbols |-> {<<e, entries[e].id, entries[e].scope>> : e \in 1 .. Len(entries)},
   names |-> {n \in (1 .. Len(tables)) \X Known \X (1 .. Len(entries)) :
                n[2] \in DOMAIN tables[n[1]].entries /\ tables[n[1]].entries[n[2]] = n[3]},
   uses |-> {<<k, uses[k]>> : k \in 1 .. Len(uses)},
   functions |-> {<<f, functions[f]>> : f \in 1 .. Closed},
   spans |-> spans,
   declared |-> Ids]

(* Where the driver is, in terms of the contexts alone. *)
InnerFits(o) ==
  /\ o \in 1 .. Len(open) /\ open[o].kind # "if"
  /\ \A j \in o + 1 .. Len(open) : open[j].kind = "if"
  /\ o = 1 => Len(open) = 1 /\ currentTable = Global
  /\ open[o].kind = "block" =>
       currentBlock = open[o].block /\ currentTable = blocks[open[o].block].table
PlacesFit ==
  /\ Shape(open) /\ Containers
  /\ \A j, k \in 1 .. Len(open) :
       j < k /\ open[j].kind = "block" /\ open[k].kind = "block" => open[j].block # open[k].block
  /\ \A k \in 1 .. Len(open) : open[k].kind = "block" => open[k].block \in 1 .. Len(blocks)
  /\ currentFunction = IF Len(open) = 1 THEN Null ELSE Len(functions)
  /\ Len(open) > 1 => Len(functions) > 0
  /\ InnerFits(Outside(open))

LEMMA BlockPlace ==
  ASSUME NEW tab, NEW dep, Placed(tab, dep), NEW k \in 1 .. Len(open), open[k].kind = "block"
  PROVE  /\ dep[k] \in 1 .. Len(blockStack) /\ blockStack[dep[k]] = open[k].block
         /\ open[k].block \in 1 .. Len(blocks) /\ tab[k] = blocks[open[k].block].table
<1>1. /\ Len(open) \in Nat \ {0} /\ Len(blockStack) \in Nat
      /\ \A j \in 1 .. Len(open) : dep[j] \in 0 .. Len(blockStack)
      /\ \A j \in 1 .. Len(open) : open[j].kind = "global" <=> j = 1
      /\ \A j \in 2 .. Len(open) : Rung(tab, dep, j)
      /\ \A d \in 1 .. Len(blockStack) : blockStack[d] \in 1 .. Len(blocks)
  BY AppendFacts DEF Placed, Shape, Ladder, Standing
<1>2. k \in 2 .. Len(open) /\ k - 1 \in 1 .. Len(open)
  BY <1>1
<1>3. /\ dep[k] = dep[k - 1] + 1 /\ blockStack[dep[k]] = open[k].block
      /\ tab[k] = IF dep[k] = 0 THEN functions[currentFunction].table
                  ELSE blocks[blockStack[dep[k]]].table
  BY <1>1, <1>2 DEF Rung
<1>4. dep[k] \in 0 .. Len(blockStack) /\ dep[k - 1] \in Nat
  BY <1>1, <1>2
<1>5. dep[k] \in 1 .. Len(blockStack) /\ dep[k] # 0
  BY <1>1, <1>3, <1>4
<1> QED BY <1>1, <1>3, <1>5

LEMMA PlacesFits ==
  ASSUME NEW tab, NEW dep, Held(tab, dep)
  PROVE  PlacesFit
<1>1. Placed(tab, dep) /\ Shape(open) /\ Containers /\ Standing(tab, dep) /\ tab[1] = Global
  BY DEF Held, Placed, Ladder
<1>2. ASSUME NEW j \in 1 .. Len(open), NEW k \in 1 .. Len(open), j < k,
             open[j].kind = "block", open[k].kind = "block"
      PROVE  open[j].block # open[k].block
  <2>1. tab[j] = blocks[open[j].block].table /\ tab[k] = blocks[open[k].block].table
    BY <1>1, <1>2, BlockPlace
  <2>2. tab[j] # tab[k]
    BY <1>1, <1>2, TablesGrow
  <2> QED BY <2>1, <2>2
<1>3. ASSUME NEW k \in 1 .. Len(open), open[k].kind = "block" PROVE open[k].block \in 1 .. Len(blocks)
  BY <1>1, <1>3, BlockPlace
<1>4. InnerFits(Outside(open))
  <2>1. PICK o : o = Outside(open)
    OBVIOUS
  <2>2. /\ o \in 1 .. Len(open) /\ open[o].kind # "if"
        /\ \A j \in o + 1 .. Len(open) : open[j].kind = "if"
    BY <1>1, <2>1, OutsideFacts
  <2>3. tab[o] = currentTable /\ dep[o] = Len(blockStack) /\ (o = 1 => Len(open) = 1)
    BY <2>1, OutsideOfAll
  <2>4. ASSUME open[o].kind = "block"
        PROVE  currentBlock = open[o].block /\ currentTable = blocks[open[o].block].table
    <3>1. /\ dep[o] \in 1 .. Len(blockStack) /\ blockStack[dep[o]] = open[o].block
          /\ tab[o] = blocks[open[o].block].table
      BY <1>1, <2>2, <2>4, BlockPlace
    <3>2. IsSeq(blockStack) /\ blockStack # <<>>
      BY <1>1, <2>3, <3>1, NothingIsSeq DEF Standing
    <3>3. currentBlock = blockStack[Len(blockStack)]
      BY <1>1, <3>2, LastFacts DEF Standing
    <3> QED BY <2>3, <3>1, <3>3
  <2>5. InnerFits(o)
    BY <1>1, <2>2, <2>3, <2>4 DEF InnerFits
  <2> QED BY <2>1, <2>5
<1>5. /\ currentFunction = IF Len(open) = 1 THEN Null ELSE Len(functions)
      /\ Len(open) > 1 => Len(functions) > 0
  BY <1>1 DEF Standing
<1> QED BY <1>1, <1>2, <1>3, <1>4, <1>5 DEF PlacesFit

(* Ids were given before now. *)
LEMMA IdsFit ==
  ASSUME NEW tab, NEW dep, Held(tab, dep)
  PROVE  /\ tokens \in Nat \ {0} /\ Ids \subseteq 1 .. tokens - 1
         /\ PendingName # "" =>
              /\ item # <<>> /\ PendingName = Item.name /\ Item.id \in 1 .. tokens - 1 /\ Item.id \in Ids
              /\ Item.kind = "declaration"
<1>1. tokens \in Nat \ {0} /\ EntriesFit /\ ItemFits /\ Declared(Top)
  BY HeldFacts DEF Held, Symbols
<1>2. ASSUME NEW e \in 1 .. Len(entries) PROVE entries[e].id \in 0 .. tokens - 1
  BY <1>1 DEF EntriesFit, EntryFits
<1>3. ASSUME PendingName # ""
      PROVE  /\ item # <<>> /\ PendingName = Item.name /\ Item.id \in 1 .. tokens - 1
             /\ Item.kind = "declaration"
  <2>1. item # <<>> /\ PendingName = Item.name
    BY <1>3 DEF PendingName, NoItem
  <2>2. Item.name \in DOMAIN Top.declared /\ Top.declared[Item.name].id = Item.id
    BY <1>1, <1>3, <2>1 DEF ItemFits
  <2>3. Item.kind = "declaration"
    BY <1>1, <1>3, <2>1 DEF ItemFits
  <2> QED BY <1>1, <2>1, <2>2, <2>3 DEF Declared
<1>4. \A x \in 0 .. tokens - 1 : x # Null => x \in 1 .. tokens - 1
  BY <1>1 DEF Null
<1>5. Ids \subseteq 1 .. tokens - 1
  BY <1>2, <1>3, <1>4 DEF Ids
<1> QED BY <1>1, <1>3, <1>5 DEF Ids

(* What a step adds to the world. *)
LEMMA WorldGrows ==
  ASSUME EntriesKept, NamesStay, Len(entries) \in Nat, Len(tables) \in Nat, Len(tables') \in Nat,
         Len(tables') >= Len(tables),
         \A k \in 1 .. Len(uses) : k \in 1 .. Len(uses') /\ uses'[k] = uses[k],
         \A f \in 1 .. Closed : f \in 1 .. Closed' /\ functions'[f] = functions[f],
         Ids \subseteq Ids', \A x \in Ids', y \in Ids : x \in Ids \/ y <= x,
         NEW spans, NEW spans2, spans \subseteq spans2
  PROVE  Extends(World(spans), World(spans2)')
<1>1. \A e \in 1 .. Len(entries) :
        e \in 1 .. Len(entries') /\ entries'[e].id = entries[e].id /\ entries'[e].scope = entries[e].scope
  BY DEF EntriesKept
<1>2. \A t \in 1 .. Len(tables) : t \in 1 .. Len(tables')
  OBVIOUS
<1>3. {<<e, entries[e].id, entries[e].scope>> : e \in 1 .. Len(entries)}
        \subseteq {<<e, entries'[e].id, entries'[e].scope>> : e \in 1 .. Len(entries')}
  BY <1>1
<1>4. {n \in (1 .. Len(tables)) \X Known \X (1 .. Len(entries)) :
         n[2] \in DOMAIN tables[n[1]].entries /\ tables[n[1]].entries[n[2]] = n[3]}
        \subseteq {n \in (1 .. Len(tables')) \X Known \X (1 .. Len(entries')) :
                     n[2] \in DOMAIN tables'[n[1]].entries /\ tables'[n[1]].entries[n[2]] = n[3]}
  BY <1>1, <1>2 DEF NamesStay
<1>5. {<<k, uses[k]>> : k \in 1 .. Len(uses)} \subseteq {<<k, uses'[k]>> : k \in 1 .. Len(uses')}
  OBVIOUS
<1>6. {<<f, functions[f]>> : f \in 1 .. Closed} \subseteq {<<f, functions'[f]>> : f \in 1 .. Closed'}
  OBVIOUS
<1> QED BY <1>3, <1>4, <1>5, <1>6 DEF Extends, World

(* What a context holds before what is open in it. *)
ContentAt(w, k, lo, hi) ==
  /\ k = 1 => ListAt(w, Global, IF Len(open) = 1 THEN unit ELSE Front(unit), lo, hi)
  /\ open[k].kind = "function" => HeadAt(w, functions[currentFunction], lo, hi)
  /\ open[k].kind = "block" =>
       ListAt(w, blocks[open[k].block].table, blocks[open[k].block].statements, lo, hi)
  /\ open[k].kind = "if" => NodesAt(w, open[k].condition, lo, hi)

(* What is being reduced: a declaration may have a name whose initial      *)
(* value is being read.                                                    *)
ReductionAt(w, lo, hi) ==
  /\ item = <<>> => lo = hi
  /\ item # <<>> /\ Item.kind # "declaration" => NodesAt(w, Item.nodes, lo, hi)
  /\ item # <<>> /\ Item.kind = "declaration" /\ Item.name = "" =>
       Item.defs # <<>> /\ DefsAt(w, currentTable, Item.scope, Item.defs, lo, hi)
  /\ item # <<>> /\ Item.kind = "declaration" /\ Item.name # "" =>
       \E mid, begin \in Position :
         /\ DefsAt(w, currentTable, Item.scope, Item.defs, lo, mid)
         /\ Declares(w, mid, begin, Item.id, Item.id)
         /\ NodesAt(w, Item.nodes, begin, hi)
         /\ Item.scope = "global" => Item.nodes = <<>>

Written(w, start, now) ==
  /\ now \in Position /\ now[1] = Len(uses) /\ now[2] < tokens
  /\ \A x \in w.declared : x <= now[2]
  /\ start \in [1 .. Len(open) + 1 -> Position] /\ start[1] = <<0, 0>>
  /\ \A k \in 1 .. Len(open) : ContentAt(w, k, start[k], start[k + 1])
  /\ ReductionAt(w, start[Len(open) + 1], now)

Bodies ==
  /\ IsSeq(uses) /\ IsSeq(unit)
  /\ Len(open) > 1 =>
       unit # <<>> /\ Last(unit) = [kind |-> "function", function |-> currentFunction]
  /\ Len(open) = 2 => functions[currentFunction].body = Null
  /\ Len(open) > 2 => functions[currentFunction].body = open[3].block

(* Blocks that are closed are visited from where to where their span says. *)
SpansFit(w) ==
  \A s \in w.spans :
    /\ s[1] \in 1 .. Len(blocks)
    /\ ListAt(w, blocks[s[1]].table, blocks[s[1]].statements, s[2], s[3])
    /\ \A k \in 1 .. Len(open) : open[k].kind = "block" => open[k].block # s[1]

Parsing(w) ==
  /\ Bodies /\ loads = <<>> /\ home = <<>> /\ place = 0
  /\ \E start, now : Written(w, start, now)

(* Every variable that has a place is read from it. *)
PlaceFits(e) ==
  entries[e].id \in DOMAIN home =>
    /\ entries[e].scope = "function" => home[entries[e].id] = -entries[e].id
    /\ entries[e].scope \in Variables =>
         entries[e].operand = home[entries[e].id] /\ entries[e].operand \in Nat \ {0}

Visiting(w) ==
  /\ phase \in {"generate", "done"} /\ (phase = "done" => work = <<>>)
  /\ IsSeq(loads) /\ place \in Nat
  /\ \E t \in Nat : \E end :
       /\ TasksAt(w, work, <<Len(loads), t>>, end) /\ end[1] = Len(uses)
       /\ DOMAIN home = {x \in Ids : x <= t}
  /\ \A k \in 1 .. Len(loads) :
       k \in 1 .. Len(uses) /\ uses[k] \in DOMAIN home /\ loads[k] = home[uses[k]]
  /\ \A e \in 1 .. Len(entries) : PlaceFits(e)

Told ==
  \E w : /\ w = World(w.spans) /\ SpansFit(w)
         /\ IF phase = "parse" THEN Parsing(w) ELSE Visiting(w)

LEMMA SpansKept ==
  ASSUME NEW w, NEW w2, SpansFit(w), Extends(w, w2), w2.spans = w.spans,
         \A s \in w.spans : s[1] \in 1 .. Len(blocks') /\ blocks'[s[1]] = blocks[s[1]],
         \A k \in 1 .. Len(open') :
           open'[k].kind = "block" =>
             \/ \E j \in 1 .. Len(open) : open[j].kind = "block" /\ open[j].block = open'[k].block
             \/ open'[k].block \notin 1 .. Len(blocks)
  PROVE  SpansFit(w2)'
<1> SUFFICES ASSUME NEW s \in w2.spans
             PROVE  /\ s[1] \in 1 .. Len(blocks')
                    /\ ListAt(w2, blocks'[s[1]].table, blocks'[s[1]].statements, s[2], s[3])
                    /\ \A k \in 1 .. Len(open') : open'[k].kind = "block" => open'[k].block # s[1]
  BY DEF SpansFit
<1>1. /\ s[1] \in 1 .. Len(blocks) /\ blocks'[s[1]] = blocks[s[1]] /\ s[1] \in 1 .. Len(blocks')
      /\ ListAt(w, blocks[s[1]].table, blocks[s[1]].statements, s[2], s[3])
      /\ \A k \in 1 .. Len(open) : open[k].kind = "block" => open[k].block # s[1]
  BY DEF SpansFit
<1>2. ListAt(w2, blocks[s[1]].table, blocks[s[1]].statements, s[2], s[3])
  BY <1>1, ListKept
<1> QED BY <1>1, <1>2

LEMMA ContentKept ==
  ASSUME NEW w, NEW w2, Extends(w, w2), NEW k, NEW lo, NEW hi, ContentAt(w, k, lo, hi),
         open'[k].kind = open[k].kind, open'[k].block = open[k].block,
         open'[k].condition = open[k].condition,
         k = 1 => (IF Len(open') = 1 THEN unit' ELSE Front(unit'))
                    = (IF Len(open) = 1 THEN unit ELSE Front(unit)),
         open[k].kind = "function" =>
           /\ functions'[currentFunction'].entry = functions[currentFunction].entry
           /\ functions'[currentFunction'].parameters = functions[currentFunction].parameters,
         open[k].kind = "block" => blocks'[open[k].block] = blocks[open[k].block]
  PROVE  ContentAt(w2, k, lo, hi)'
<1>1. ASSUME k = 1 PROVE ListAt(w2, Global, IF Len(open') = 1 THEN unit' ELSE Front(unit'), lo, hi)
  <2>1. ListAt(w, Global, IF Len(open) = 1 THEN unit ELSE Front(unit), lo, hi)
    BY <1>1 DEF ContentAt
  <2>2. ListAt(w2, Global, IF Len(open) = 1 THEN unit ELSE Front(unit), lo, hi)
    BY <2>1, ListKept
  <2> QED BY <1>1, <2>2
<1>2. ASSUME open[k].kind = "function" PROVE HeadAt(w2, functions'[currentFunction'], lo, hi)
  <2>1. HeadAt(w2, functions[currentFunction], lo, hi)
    BY <1>2, HeadKept DEF ContentAt
  <2> QED BY <1>2, <2>1 DEF HeadAt
<1>3. ASSUME open[k].kind = "block"
      PROVE  ListAt(w2, blocks[open[k].block].table, blocks[open[k].block].statements, lo, hi)
  BY <1>3, ListKept DEF ContentAt
<1>4. ASSUME open[k].kind = "if" PROVE NodesAt(w2, open[k].condition, lo, hi)
  BY <1>4, NodesKept DEF ContentAt
<1> QED BY <1>1, <1>2, <1>3, <1>4 DEF ContentAt

(* The contexts are what they were, but for names. *)
ContextsStay ==
  /\ Len(open') = Len(open)
  /\ \A k \in 1 .. Len(open) : /\ open'[k].kind = open[k].kind /\ open'[k].block = open[k].block
                               /\ open'[k].condition = open[k].condition

LEMMA OnlyReduction ==
  ASSUME PlacesFit, NEW w, SpansFit(w), Bodies, loads = <<>>, home = <<>>, place = 0,
         NEW start, NEW now, Written(w, start, now), ContextsStay,
         UNCHANGED <<unit, blocks, functions, currentFunction, loads, home, place>>, phase' = "parse",
         IsSeq(uses'), NEW w2, w2 = World(w2.spans)', Extends(w, w2), w2.spans = w.spans,
         NEW now2 \in Position, now2[1] = Len(uses'), now2[2] < tokens',
         \A x \in w2.declared : x <= now2[2],
         NEW from, from = start[Len(open) + 1], ReductionAt(w2, from, now2)'
  PROVE  Told'
<1>1. /\ Len(open) \in Nat \ {0} /\ Len(open') = Len(open)
      /\ \A k \in 1 .. Len(open) : open[k].kind = "block" => open[k].block \in 1 .. Len(blocks)
  BY DEF PlacesFit, Shape, ContextsStay
<1>2. SpansFit(w2)'
  <2>1. \A s \in w.spans : s[1] \in 1 .. Len(blocks') /\ blocks'[s[1]] = blocks[s[1]]
    BY DEF SpansFit
  <2>2. \A k \in 1 .. Len(open') :
          open'[k].kind = "block" =>
            \E j \in 1 .. Len(open) : open[j].kind = "block" /\ open[j].block = open'[k].block
    BY DEF ContextsStay
  <2> QED BY <2>1, <2>2, SpansKept
<1>3. ASSUME NEW k \in 1 .. Len(open) PROVE ContentAt(w2, k, start[k], start[k + 1])'
  <2>1. PICK a, b : a = start[k] /\ b = start[k + 1]
    OBVIOUS
  <2>2. ContentAt(w, k, a, b)
    BY <2>1 DEF Written
  <2>3. ContentAt(w2, k, a, b)'
    BY <1>1, <2>2, ContentKept DEF ContextsStay
  <2> QED BY <2>1, <2>3
<1>4. Bodies'
  <2>1. Len(open) > 2 => open'[3].block = open[3].block
    BY <1>1 DEF ContextsStay
  <2> QED BY <1>1, <2>1 DEF Bodies
<1>5. start \in [1 .. Len(open') + 1 -> Position] /\ start[1] = <<0, 0>>
  BY <1>1 DEF Written
<1>6. Written(w2, start, now2)'
  <2>1. PICK n : n = Len(open)
    OBVIOUS
  <2>2. ReductionAt(w2, start[n + 1], now2)'
    <3>1. from = start[n + 1]
      BY <2>1
    <3> QED BY <3>1
  <2>3. \A k \in 1 .. n : ContentAt(w2, k, start[k], start[k + 1])'
    BY <1>3, <2>1
  <2>4. n = Len(open')
    BY <1>1, <2>1
  <2> QED BY <1>5, <2>2, <2>3, <2>4 DEF Written
<1>7. Parsing(w2)'
  BY <1>4, <1>6 DEF Parsing
<1> QED BY <1>2, <1>7 DEF Told

-----------------------------------------------------------------------------
(* The steps of the parser keep the text covered. *)

LEMMA EntriesStillThere ==
  ASSUME EntriesKept, Len(entries) \in Nat
  PROVE  \A e \in 1 .. Len(entries) :
           /\ e \in 1 .. Len(entries') /\ entries'[e].id = entries[e].id
           /\ entries'[e].scope = entries[e].scope
BY DEF EntriesKept

LEMMA SameIds ==
  ASSUME EntriesKept, Len(entries) \in Nat,
         \A e \in 1 .. Len(entries') : e \in 1 .. Len(entries) \/ entries'[e].id = Null,
         PendingName' = PendingName, PendingName # "" => Item'.id = Item.id
  PROVE  Ids' = Ids
<1>1. \A e \in 1 .. Len(entries) : e \in 1 .. Len(entries') /\ entries'[e].id = entries[e].id
  BY EntriesStillThere
<1>2. {entries'[e].id : e \in 1 .. Len(entries')} \ {Null} = {entries[e].id : e \in 1 .. Len(entries)} \ {Null}
  BY <1>1
<1>3. {i \in {Item'.id} : PendingName' # ""} = {i \in {Item.id} : PendingName # ""}
  OBVIOUS
<1> QED BY <1>2, <1>3 DEF Ids

LEMMA ExtendedFields ==
  ASSUME NEW tab, NEW dep, Held(tab, dep), NEW node, Extended(node)
  PROVE  /\ item' # <<>>
         /\ item = <<>> =>
              /\ Item'.kind = "expression" /\ Item'.name = "" /\ Item'.nodes = Append(<<>>, node)
         /\ item # <<>> =>
              /\ Item'.kind = Item.kind /\ Item'.name = Item.name /\ Item'.id = Item.id
              /\ Item'.defs = Item.defs /\ Item'.scope = Item.scope
              /\ Item'.nodes = Append(Item.nodes, node)
         /\ PendingName' = PendingName
<1> DEFINE i == IF NoItem THEN Started("expression") ELSE Item
           j == [i EXCEPT !.nodes = Append(@, node)]
<1>1. item' = <<j>>
  BY DEF Extended
<1>2. IsItem(i)
  BY DEF Started, IsItem, Held, Symbols, ItemFits, NoItem
<1>3. j = [kind |-> i.kind, name |-> i.name, id |-> i.id, nodes |-> Append(i.nodes, node),
           defs |-> i.defs, scope |-> i.scope]
  <2> HIDE DEF i
  <2> QED BY <1>2 DEF IsItem
<1> HIDE DEF j
<1>4. item' # <<>> /\ Item' = j
  BY <1>1 DEF Item
<1>5. /\ Item'.kind = i.kind /\ Item'.name = i.name /\ Item'.id = i.id /\ Item'.defs = i.defs
      /\ Item'.scope = i.scope /\ Item'.nodes = Append(i.nodes, node)
  BY <1>3, <1>4
<1>6. item = <<>> => i.kind = "expression" /\ i.name = "" /\ i.nodes = <<>>
  BY DEF NoItem, Started
<1>7. item # <<>> => i = Item
  BY DEF NoItem
<1>8. PendingName' = Item'.name /\ PendingName = i.name
  BY <1>4, <1>6, <1>7 DEF PendingName, NoItem
<1> QED BY <1>4, <1>5, <1>6, <1>7, <1>8

LEMMA ReductionExtended ==
  ASSUME NEW tab, NEW dep, Held(tab, dep), NEW node, Extended(node), UNCHANGED currentTable,
         item # <<>> => Reading, currentFunction # Null,
         NEW w, NEW w2, Extends(w, w2), NEW lo, NEW hi \in Position, ReductionAt(w, lo, hi),
         NEW hi2 \in Position, NodeAt(w2, node, hi, hi2)
  PROVE  ReductionAt(w2, lo, hi2)'
<1>1. ItemFits
  BY DEF Held, Symbols
<1>2. item' # <<>> /\ currentTable' = currentTable
  BY ExtendedFields
<1>3. CASE item = <<>>
  <2>1. Item'.kind = "expression" /\ Item'.nodes = Append(<<>>, node) /\ lo = hi
    BY <1>3, ExtendedFields DEF ReductionAt
  <2>2. NodesAt(w2, <<>>, hi, hi)
    BY NodesNone
  <2>3. NodesAt(w2, Append(<<>>, node), hi, hi2)
    BY <2>2, NodesNext
  <2> QED BY <1>2, <2>1, <2>3 DEF ReductionAt
<1>4. CASE item # <<>> /\ Item.kind # "declaration"
  <2>1. Item'.kind = Item.kind /\ Item'.nodes = Append(Item.nodes, node)
    BY <1>4, ExtendedFields
  <2>2. NodesAt(w, Item.nodes, lo, hi)
    BY <1>4 DEF ReductionAt
  <2>3. NodesAt(w2, Append(Item.nodes, node), lo, hi2)
    BY <2>2, NodesKept, NodesNext
  <2> QED BY <1>2, <1>4, <2>1, <2>3 DEF ReductionAt
<1>5. CASE item # <<>> /\ Item.kind = "declaration"
  <2>1. Item.name # "" /\ Item.scope # "global"
    BY <1>1, <1>5 DEF Reading, ItemFits
  <2>2. /\ Item'.kind = Item.kind /\ Item'.name = Item.name /\ Item'.id = Item.id
        /\ Item'.defs = Item.defs /\ Item'.scope = Item.scope /\ Item'.nodes = Append(Item.nodes, node)
    BY <1>5, ExtendedFields
  <2>3. PICK mid \in Position, begin \in Position :
          /\ DefsAt(w, currentTable, Item.scope, Item.defs, lo, mid)
          /\ Declares(w, mid, begin, Item.id, Item.id)
          /\ NodesAt(w, Item.nodes, begin, hi)
    BY <1>5, <2>1 DEF ReductionAt
  <2>4. /\ DefsAt(w2, currentTable, Item.scope, Item.defs, lo, mid)
        /\ Declares(w2, mid, begin, Item.id, Item.id)
    BY <2>3, DefsKept, DeclaresKept
  <2>5. NodesAt(w2, Append(Item.nodes, node), begin, hi2)
    BY <2>3, NodesKept, NodesNext
  <2>6. \E m, b \in Position :
          /\ DefsAt(w2, currentTable', Item'.scope, Item'.defs, lo, m)
          /\ Declares(w2, m, b, Item'.id, Item'.id)
          /\ NodesAt(w2, Item'.nodes, b, hi2)
          /\ Item'.scope = "global" => Item'.nodes = <<>>
    BY <1>2, <2>1, <2>2, <2>4, <2>5
  <2> QED BY <1>2, <1>5, <2>1, <2>2, <2>6 DEF ReductionAt
<1> QED BY <1>3, <1>4, <1>5

LEMMA ReductionKept ==
  ASSUME UNCHANGED <<item, currentTable>>, NEW w, NEW w2, Extends(w, w2), NEW lo, NEW hi, ReductionAt(w, lo, hi)
  PROVE  ReductionAt(w2, lo, hi)'
<1>1. Item' = Item
  BY DEF Item
<1>2. item # <<>> /\ Item.kind # "declaration" => NodesAt(w2, Item.nodes, lo, hi)
  BY NodesKept DEF ReductionAt
<1>3. item # <<>> /\ Item.kind = "declaration" /\ Item.name = "" =>
        DefsAt(w2, currentTable, Item.scope, Item.defs, lo, hi)
  BY DefsKept DEF ReductionAt
<1>4. ASSUME item # <<>>, Item.kind = "declaration", Item.name # ""
      PROVE  \E mid, begin \in Position :
               /\ DefsAt(w2, currentTable, Item.scope, Item.defs, lo, mid)
               /\ Declares(w2, mid, begin, Item.id, Item.id)
               /\ NodesAt(w2, Item.nodes, begin, hi)
               /\ Item.scope = "global" => Item.nodes = <<>>
  <2>1. PICK mid \in Position, begin \in Position :
          /\ DefsAt(w, currentTable, Item.scope, Item.defs, lo, mid)
          /\ Declares(w, mid, begin, Item.id, Item.id)
          /\ NodesAt(w, Item.nodes, begin, hi)
          /\ Item.scope = "global" => Item.nodes = <<>>
    BY <1>4 DEF ReductionAt
  <2>2. /\ DefsAt(w2, currentTable, Item.scope, Item.defs, lo, mid)
        /\ Declares(w2, mid, begin, Item.id, Item.id)
        /\ NodesAt(w2, Item.nodes, begin, hi)
    BY <2>1, DefsKept, DeclaresKept, NodesKept
  <2> QED BY <2>1, <2>2
<1> QED BY <1>1, <1>2, <1>3, <1>4 DEF ReductionAt

LEMMA SameContents ==
  ASSUME UNCHANGED open PROVE ContextsStay
BY DEF ContextsStay

(* The facts that every step of the parser starts from. *)
LEMMA ToldFacts ==
  ASSUME Told, phase = "parse"
  PROVE  \E w, start, now :
           /\ w = World(w.spans) /\ SpansFit(w) /\ Bodies /\ loads = <<>> /\ home = <<>> /\ place = 0
           /\ Written(w, start, now)
BY DEF Told, Parsing

(* A step that declares nothing and reads what it has read before, but for *)
(* one name at most.                                                       *)
LEMMA ReadingTold ==
  ASSUME NEW tab, NEW dep, Held(tab, dep), Told, phase = "parse", phase' = "parse",
         EntriesKept, NamesStay, Len(tables') = Len(tables), tokens' \in Nat, tokens' >= tokens,
         UNCHANGED <<open, driver, currentTable, currentFunction, tree, loads, home, place>>,
         \A e \in 1 .. Len(entries') : e \in 1 .. Len(entries) \/ entries'[e].id = Null,
         NEW node, Extended(node), currentFunction # Null, item # <<>> => Reading,
         NEW reads \in {0, 1},
         IsSeq(uses'), Len(uses') = Len(uses) + reads,
         \A k \in 1 .. Len(uses) : uses'[k] = uses[k],
         \A w2 : \A hi \in Position :
           w2 = World(w2.spans)' /\ hi[1] = Len(uses) /\ (\A x \in Ids : x <= hi[2]) =>
             NodeAt(w2, node, hi, <<hi[1] + reads, hi[2]>>)
  PROVE  Told'
<1>1. PICK w, start, now :
        /\ w = World(w.spans) /\ SpansFit(w) /\ Bodies /\ loads = <<>> /\ home = <<>> /\ place = 0
        /\ Written(w, start, now)
  BY ToldFacts
<1>2. /\ Len(open) \in Nat \ {0} /\ PlacesFit /\ Len(entries) \in Nat /\ Len(tables) \in Nat
      /\ tokens \in Nat /\ Len(uses) \in Nat
  BY <1>1, HeldFacts, PlacesFits, AppendFacts DEF Bodies
<1>3. Ids' = Ids
  <2>1. PendingName' = PendingName /\ (item # <<>> => Item'.id = Item.id)
    BY ExtendedFields
  <2>2. PendingName # "" => item # <<>>
    BY DEF PendingName, NoItem
  <2> QED BY <1>2, <2>1, <2>2, SameIds
<1>4. PICK w2 : w2 = World(w.spans)'
  OBVIOUS
<1>5. w2.spans = w.spans /\ w2.declared = Ids /\ w.declared = Ids
  BY <1>1, <1>3, <1>4 DEF World
<1>6. w2 = World(w2.spans)'
  BY <1>4, <1>5
<1>7. Extends(w, w2)
  <2>1. \A k \in 1 .. Len(uses) : k \in 1 .. Len(uses') /\ uses'[k] = uses[k]
    BY <1>2
  <2>2. \A f \in 1 .. Closed : f \in 1 .. Closed' /\ functions'[f] = functions[f]
    BY DEF Closed, tree
  <2>3. PICK spans : spans = w.spans
    OBVIOUS
  <2>4. Extends(World(spans), World(spans)')
    BY <1>2, <1>3, <2>1, <2>2, WorldGrows
  <2> QED BY <1>1, <1>4, <2>3, <2>4
<1>8. PICK now2 : now2 = <<now[1] + reads, now[2]>>
  OBVIOUS
<1>9. /\ now \in Position /\ now[1] = Len(uses) /\ now[2] < tokens /\ now[2] \in Nat
      /\ \A x \in Ids : x <= now[2]
  BY <1>1, <1>5 DEF Written, Position
<1>10. now2 \in Position /\ now2[1] = Len(uses') /\ now2[2] = now[2] /\ now2[2] < tokens'
  BY <1>2, <1>8, <1>9 DEF Position
<1>11. NodeAt(w2, node, now, now2)
  BY <1>6, <1>8, <1>9
<1>12. PICK from : from = start[Len(open) + 1]
  OBVIOUS
<1>13. ReductionAt(w, from, now)
  BY <1>1, <1>12 DEF Written
<1>14. ReductionAt(w2, from, now2)'
  BY <1>7, <1>9, <1>10, <1>11, <1>13, ReductionExtended
<1>15. ContextsStay /\ UNCHANGED <<unit, blocks, functions>>
  BY SameContents DEF tree
<1>16. \A x \in w2.declared : x <= now2[2]
  BY <1>5, <1>9, <1>10
<1> QED BY <1>1, <1>2, <1>5, <1>6, <1>7, <1>10, <1>12, <1>14, <1>15, <1>16, OnlyReduction

(* A name that is read, in the world after it. *)
LEMMA NameRead ==
  ASSUME NEW e, NEW id, Len(entries) \in Nat, EntriesKept, EntriesFit,
         e \in 1 .. Len(entries), entries[e].id = id, entries[e].scope # "temp",
         IsSeq(uses), uses' = Append(uses, id), NEW spans, NEW w2, w2 = World(spans)',
         NEW hi \in Position, hi[1] = Len(uses), \A x \in Ids : x <= hi[2],
         NEW node, node.entry = e, node.kind \in {"identifier", "call"},
         node.kind = "call" <=> entries[e].scope = "function"
  PROVE  NodeAt(w2, node, hi, <<hi[1] + 1, hi[2]>>)
<1>1. e \in 1 .. Len(entries') /\ entries'[e].id = id /\ entries'[e].scope = entries[e].scope
  BY EntriesStillThere
<1>2. id # Null /\ entries[e].scope \in Variables \cup {"function"}
  BY DEF EntriesFit, EntryFits, Variables
<1>3. id \in Ids /\ id \in Ids'
  BY <1>1, <1>2 DEF Ids
<1>4. id <= hi[2]
  BY <1>3
<1>5. <<e, id, entries[e].scope>> \in w2.symbols /\ id \in w2.declared
  BY <1>1, <1>3 DEF World
<1>6. <<hi[1] + 1, id>> \in w2.uses
  <2>1. Len(uses) + 1 \in 1 .. Len(uses') /\ uses'[Len(uses) + 1] = id
    BY AppendFacts
  <2> QED BY <2>1 DEF World
<1> QED BY <1>2, <1>4, <1>5, <1>6 DEF NodeAt

LEMMA OperandTold ==
  ASSUME NEW tab, NEW dep, Held(tab, dep), Told, Operand PROVE Told'
<1>1. /\ Writes(1) /\ CanRead /\ phase = "parse" /\ phase' = "parse" /\ tokens' = tokens + 1
      /\ UNCHANGED <<open, tables, entries, driver, tree, currentTable, currentFunction, loads, home, place>>
  BY DEF Operand, Writes, driver, generated
<1>2. EntriesKept /\ NamesStay
  BY OperandHeld DEF StillHeld
<1>3. PICK name \in Names :
        /\ Scopes(name) # {} /\ Means(name).kind = "variable"
        /\ IF NoItem THEN TRUE ELSE Means(name).id # Item.id
        /\ Extended([kind |-> "identifier", entry |-> Find(currentTable, name)])
        /\ uses' = Append(uses, Means(name).id)
  BY DEF Operand
<1>4. PICK e, id, node : /\ e = Find(currentTable, name) /\ id = Means(name).id
                         /\ node = [kind |-> "identifier", entry |-> e]
  OBVIOUS
<1>5. Extended(node) /\ uses' = Append(uses, id) /\ node.kind = "identifier" /\ node.entry = e
  BY <1>3, <1>4
<1>6. Stands(Find(currentTable, name), Means(name))
  <2>1. name \in Known /\ name # ""
    BY ScopesAssumption DEF Known
  <2>2. PendingName = name => Means(name).id # Item.id
    BY <1>3, <2>1 DEF PendingName
  <2> QED BY <1>3, <2>1, <2>2, FindMeans
<1>7. /\ e \in 1 .. Len(entries) /\ entries[e].id = id /\ entries[e].scope # "temp"
      /\ entries[e].scope # "function"
  BY <1>3, <1>4, <1>6 DEF Stands
<1>8. IsSeq(uses)
  BY <1>1 DEF Told, Parsing, Bodies
<1>9. EntriesFit /\ Len(entries) \in Nat /\ tokens \in Nat
  BY HeldFacts
<1>10. /\ IsSeq(uses') /\ Len(uses') = Len(uses) + 1
       /\ \A k \in 1 .. Len(uses) : uses'[k] = uses[k]
  BY <1>5, <1>8, AppendFacts
<1>11. ASSUME NEW w2, NEW hi \in Position,
              w2 = World(w2.spans)', hi[1] = Len(uses), \A x \in Ids : x <= hi[2]
       PROVE  NodeAt(w2, node, hi, <<hi[1] + 1, hi[2]>>)
  <2>1. PICK spans : spans = w2.spans
    OBVIOUS
  <2>2. w2 = World(spans)'
    BY <1>11, <2>1
  <2> QED BY <1>2, <1>5, <1>7, <1>8, <1>9, <1>11, <2>2, NameRead
<1>12. currentFunction # Null /\ (item # <<>> => Reading)
  BY <1>1 DEF CanRead, NoItem
<1>13. \A k \in 1 .. Len(entries') : k \in 1 .. Len(entries) \/ entries'[k].id = Null
  BY <1>1
<1>14. tokens' \in Nat /\ tokens' >= tokens /\ Len(tables') = Len(tables)
  BY <1>1, <1>9
<1>15. 1 \in {0, 1}
  OBVIOUS
<1> HIDE DEF tree
<1> QED BY <1>1, <1>2, <1>5, <1>10, <1>11, <1>12, <1>13, <1>14, <1>15, ReadingTold

LEMMA InvokeTold ==
  ASSUME NEW tab, NEW dep, Held(tab, dep), Told, Invoke PROVE Told'
<1>1. /\ Writes(1) /\ CanRead /\ TempEntry /\ phase = "parse" /\ phase' = "parse" /\ tokens' = tokens + 1
      /\ UNCHANGED <<open, driver, tree, currentTable, currentFunction, loads, home, place>>
  BY DEF Invoke, Writes, driver, generated
<1>2. EntriesKept /\ NamesStay
  BY InvokeHeld DEF StillHeld
<1>3. PICK name \in FunctionNames :
        /\ Scopes(name) # {}
        /\ Extended([kind |-> "call", entry |-> Find(Global, name)])
        /\ uses' = Append(uses, Means(name).id)
  BY DEF Invoke
<1>4. PICK e, id, node : /\ e = Find(Global, name) /\ id = Means(name).id
                         /\ node = [kind |-> "call", entry |-> e]
  OBVIOUS
<1>5. Extended(node) /\ uses' = Append(uses, id) /\ node.kind = "call" /\ node.entry = e
  BY <1>3, <1>4
<1>6. Stands(Find(Global, name), Means(name)) /\ Means(name).kind = "function"
  BY <1>3, FindFunction
<1>7. e \in 1 .. Len(entries) /\ entries[e].id = id /\ entries[e].scope = "function"
  BY <1>4, <1>6 DEF Stands
<1>8. IsSeq(uses)
  BY <1>1 DEF Told, Parsing, Bodies
<1>9. EntriesFit /\ Len(entries) \in Nat /\ tokens \in Nat
  BY HeldFacts
<1>10. /\ IsSeq(uses') /\ Len(uses') = Len(uses) + 1
       /\ \A k \in 1 .. Len(uses) : uses'[k] = uses[k]
  BY <1>5, <1>8, AppendFacts
<1>11. ASSUME NEW w2, NEW hi \in Position,
              w2 = World(w2.spans)', hi[1] = Len(uses), \A x \in Ids : x <= hi[2]
       PROVE  NodeAt(w2, node, hi, <<hi[1] + 1, hi[2]>>)
  <2>1. PICK spans : spans = w2.spans
    OBVIOUS
  <2>2. w2 = World(spans)'
    BY <1>11, <2>1
  <2>3. entries[e].scope # "temp"
    BY <1>7
  <2> QED BY <1>2, <1>5, <1>7, <1>8, <1>9, <1>11, <2>2, <2>3, NameRead
<1>12. currentFunction # Null /\ (item # <<>> => Reading)
  BY <1>1 DEF CanRead, NoItem
<1>13. /\ SamePlaces /\ Len(entries') = Len(entries) + 1
       /\ entries'[Len(entries) + 1].id = Null
  BY <1>1, TempEntryFacts
<1>14. \A k \in 1 .. Len(entries') : k \in 1 .. Len(entries) \/ entries'[k].id = Null
  BY <1>9, <1>13
<1>15. tokens' \in Nat /\ tokens' >= tokens /\ Len(tables') = Len(tables)
  BY <1>1, <1>9, <1>13 DEF SamePlaces
<1>16. 1 \in {0, 1}
  OBVIOUS
<1> QED BY <1>1, <1>2, <1>5, <1>10, <1>11, <1>12, <1>14, <1>15, <1>16, ReadingTold

LEMMA WorldStep ==
  ASSUME NEW tab, NEW dep, Held(tab, dep), Told, phase = "parse", EntriesKept, NamesStay,
         Len(tables') \in Nat, Len(tables') >= Len(tables), UNCHANGED uses,
         \A f \in 1 .. Closed : f \in 1 .. Closed' /\ functions'[f] = functions[f],
         Ids \subseteq Ids', \A x \in Ids', y \in Ids : x \in Ids \/ y <= x
  PROVE  \E w, start, now, w2 :
           /\ w = World(w.spans) /\ SpansFit(w) /\ Bodies /\ loads = <<>> /\ home = <<>> /\ place = 0
           /\ Written(w, start, now)
           /\ w2 = World(w2.spans)' /\ w2.spans = w.spans /\ w2.declared = Ids' /\ Extends(w, w2)
           /\ now \in Position /\ now[1] = Len(uses) /\ now[2] < tokens /\ now[2] \in Nat
           /\ \A x \in Ids : x <= now[2]
           /\ ReductionAt(w, start[Len(open) + 1], now) /\ start[Len(open) + 1] \in Position
<1>1. PICK w, start, now :
        /\ w = World(w.spans) /\ SpansFit(w) /\ Bodies /\ loads = <<>> /\ home = <<>> /\ place = 0
        /\ Written(w, start, now)
  BY ToldFacts
<1>2. PICK w2 : w2 = World(w.spans)'
  OBVIOUS
<1>3. w2.spans = w.spans /\ w2.declared = Ids' /\ w.declared = Ids
  BY <1>1, <1>2 DEF World
<1>4. w2 = World(w2.spans)'
  BY <1>2, <1>3
<1>5. Len(entries) \in Nat /\ Len(tables) \in Nat /\ Len(open) \in Nat
  BY HeldFacts
<1>6. Extends(w, w2)
  <2>1. PICK spans : spans = w.spans
    OBVIOUS
  <2>2. \A k \in 1 .. Len(uses) : k \in 1 .. Len(uses') /\ uses'[k] = uses[k]
    OBVIOUS
  <2>3. Extends(World(spans), World(spans)')
    BY <1>5, <2>2, WorldGrows
  <2> QED BY <1>1, <1>2, <2>1, <2>3
<1>7. /\ now \in Position /\ now[1] = Len(uses) /\ now[2] < tokens /\ now[2] \in Nat
      /\ \A x \in Ids : x <= now[2]
  BY <1>1, <1>3 DEF Written, Position
<1>8. ReductionAt(w, start[Len(open) + 1], now)
  BY <1>1 DEF Written
<1>9. start[Len(open) + 1] \in Position
  <2>1. Len(open) + 1 \in 1 .. Len(open) + 1
    BY <1>5
  <2> QED BY <1>1, <2>1 DEF Written
<1> QED BY <1>1, <1>3, <1>4, <1>6, <1>7, <1>8, <1>9

LEMMA OperatorTold ==
  ASSUME NEW tab, NEW dep, Held(tab, dep), Told, Operator PROVE Told'
<1>1. /\ Writes(1) /\ item # <<>> /\ Reading /\ TempEntry /\ phase = "parse" /\ phase' = "parse"
      /\ tokens' = tokens + 1
      /\ UNCHANGED <<open, uses, driver, tree, currentTable, currentFunction, loads, home, place>>
  BY DEF Operator, Writes, driver, generated, NoItem
<1>2. EntriesKept /\ NamesStay
  BY OperatorHeld DEF StillHeld
<1>3. /\ SamePlaces /\ Len(entries') = Len(entries) + 1 /\ Len(entries) \in Nat
      /\ entries'[Len(entries) + 1].id = Null /\ entries'[Len(entries) + 1].scope = "temp"
  BY <1>1, TempEntryFacts
<1>4. \A k \in 1 .. Len(entries') : k \in 1 .. Len(entries) \/ entries'[k].id = Null
  BY <1>3
<1>5. tokens \in Nat /\ Len(tables) \in Nat
  BY HeldFacts
<1>6. tokens' \in Nat /\ tokens' >= tokens /\ Len(tables') = Len(tables)
  BY <1>1, <1>3, <1>5 DEF SamePlaces
<1>7. CASE currentFunction # Null
  <2>1. PICK node : node = [kind |-> "binary", entry |-> Len(entries) + 1]
    OBVIOUS
  <2>2. Extended(node)
    BY <1>7, <2>1 DEF Operator
  <2>3. IsSeq(uses)
    BY <1>1 DEF Told, Parsing, Bodies
  <2>4. /\ IsSeq(uses') /\ Len(uses') = Len(uses) + 0
        /\ \A k \in 1 .. Len(uses) : uses'[k] = uses[k]
    BY <1>1, <2>3, AppendFacts
  <2>5. ASSUME NEW w2, NEW hi \in Position,
               w2 = World(w2.spans)', hi[1] = Len(uses), \A x \in Ids : x <= hi[2]
        PROVE  NodeAt(w2, node, hi, <<hi[1] + 0, hi[2]>>)
    <3>1. Len(entries) + 1 \in 1 .. Len(entries')
      BY <1>3
    <3>2. PICK spans : spans = w2.spans
      OBVIOUS
    <3>3. w2 = World(spans)'
      BY <2>5, <3>2
    <3>4. <<Len(entries) + 1, Null, "temp">> \in w2.symbols
      BY <1>3, <3>1, <3>3 DEF World
    <3>5. <<hi[1] + 0, hi[2]>> = hi
      BY DEF Position
    <3> QED BY <2>1, <3>4, <3>5 DEF NodeAt
  <2>6. 0 \in {0, 1}
    OBVIOUS
  <2> QED BY <1>1, <1>2, <1>4, <1>6, <1>7, <2>2, <2>4, <2>5, <2>6, ReadingTold
<1>8. CASE currentFunction = Null
  <2>1. UNCHANGED item
    BY <1>8 DEF Operator
  <2>2. PendingName' = PendingName /\ Item' = Item
    BY <2>1 DEF PendingName, NoItem, Item
  <2>3. Ids' = Ids
    BY <1>2, <1>3, <1>4, <2>2, SameIds
  <2>4. \A f \in 1 .. Closed : f \in 1 .. Closed' /\ functions'[f] = functions[f]
    BY <1>1 DEF Closed, tree
  <2>5. PICK w, start, now, w2 :
          /\ w = World(w.spans) /\ SpansFit(w) /\ Bodies /\ loads = <<>> /\ home = <<>> /\ place = 0
          /\ Written(w, start, now)
          /\ w2 = World(w2.spans)' /\ w2.spans = w.spans /\ w2.declared = Ids' /\ Extends(w, w2)
          /\ now \in Position /\ now[1] = Len(uses) /\ now[2] < tokens /\ now[2] \in Nat
          /\ \A x \in Ids : x <= now[2]
          /\ ReductionAt(w, start[Len(open) + 1], now) /\ start[Len(open) + 1] \in Position
    BY <1>1, <1>2, <1>5, <1>6, <2>3, <2>4, WorldStep
  <2>6. PICK from : from = start[Len(open) + 1]
    OBVIOUS
  <2>7. ReductionAt(w2, from, now)'
    BY <1>1, <2>1, <2>5, <2>6, ReductionKept
  <2>8. ContextsStay /\ UNCHANGED <<unit, blocks, functions>> /\ PlacesFit /\ IsSeq(uses')
    BY <1>1, <2>5, SameContents, PlacesFits DEF tree, Bodies
  <2>9. now[1] = Len(uses') /\ now[2] < tokens' /\ \A x \in w2.declared : x <= now[2]
    BY <1>1, <1>5, <2>3, <2>5
  <2> QED BY <1>1, <2>5, <2>6, <2>7, <2>8, <2>9, OnlyReduction
<1> QED BY <1>7, <1>8

LEMMA IfTold ==
  ASSUME NEW tab, NEW dep, Held(tab, dep), Told, If PROVE Told'
<1>1. /\ Writes(1) /\ item = <<>> /\ item' = <<Started("condition")>> /\ phase = "parse" /\ phase' = "parse"
      /\ tokens' = tokens + 1
      /\ UNCHANGED <<open, uses, tables, entries, driver, tree, currentTable, currentFunction, loads, home, place>>
  BY DEF If, Writes, driver, generated, NoItem
<1>2. EntriesKept /\ NamesStay
  BY IfHeld DEF StillHeld
<1>3. item' # <<>> /\ Item'.kind = "condition" /\ Item'.name = "" /\ Item'.nodes = <<>>
  <2>1. PICK i : i = Started("condition") /\ item' = <<i>>
    BY <1>1
  <2>2. item' # <<>> /\ Item' = i
    BY <2>1 DEF Item
  <2> QED BY <2>1, <2>2 DEF Started
<1>4. PendingName' = "" /\ PendingName = ""
  BY <1>1, <1>3 DEF PendingName, NoItem
<1>5. Len(entries) \in Nat /\ tokens \in Nat /\ Len(tables) \in Nat
  BY HeldFacts
<1>6. Ids' = Ids
  BY <1>1, <1>2, <1>4, <1>5, SameIds
<1>7. \A f \in 1 .. Closed : f \in 1 .. Closed' /\ functions'[f] = functions[f]
  BY <1>1 DEF Closed, tree
<1>8. PICK w, start, now, w2 :
        /\ w = World(w.spans) /\ SpansFit(w) /\ Bodies /\ loads = <<>> /\ home = <<>> /\ place = 0
        /\ Written(w, start, now)
        /\ w2 = World(w2.spans)' /\ w2.spans = w.spans /\ w2.declared = Ids' /\ Extends(w, w2)
        /\ now \in Position /\ now[1] = Len(uses) /\ now[2] < tokens /\ now[2] \in Nat
        /\ \A x \in Ids : x <= now[2]
        /\ ReductionAt(w, start[Len(open) + 1], now) /\ start[Len(open) + 1] \in Position
  BY <1>1, <1>2, <1>5, <1>6, <1>7, WorldStep
<1>9. PICK from : from = start[Len(open) + 1]
  OBVIOUS
<1>10. from = now /\ NodesAt(w2, <<>>, from, now)
  BY <1>1, <1>8, <1>9, NodesNone DEF ReductionAt
<1>11. ReductionAt(w2, from, now)'
  BY <1>3, <1>10 DEF ReductionAt
<1>12. ContextsStay /\ UNCHANGED <<unit, blocks, functions>> /\ PlacesFit /\ IsSeq(uses')
  BY <1>1, <1>8, SameContents, PlacesFits DEF tree, Bodies
<1>13. now[1] = Len(uses') /\ now[2] < tokens' /\ \A x \in w2.declared : x <= now[2]
  BY <1>1, <1>5, <1>6, <1>8
<1> QED BY <1>1, <1>8, <1>9, <1>11, <1>12, <1>13, OnlyReduction

(* What is declared now comes after everything declared before. *)
LEMMA NewlyDeclared ==
  ASSUME NEW now \in Position, NEW n \in Nat \ {0}, NEW m \in Nat, NEW ids, ids \subseteq 1 .. n - 1,
         now[2] < n, \A x \in ids : x <= now[2],
         NEW w, w.declared = ids \cup n .. n + m
  PROVE  /\ <<now[1], n + m>> \in Position
         /\ Declares(w, now, <<now[1], n + m>>, n, n + m)
         /\ \A x \in w.declared : x <= n + m
         /\ \A x \in w.declared, y \in ids : x \in ids \/ y <= x
<1>1. PICK u \in Nat, d \in Nat : now = <<u, d>>
  BY DEF Position
<1>2. now[1] = u /\ now[2] = d
  BY <1>1
<1>3. <<u, n + m>> \in Position /\ n + m \in Nat /\ n <= n + m
  BY DEF Position
<1>4. \A x \in n .. n + m : n <= x /\ x <= n + m /\ x \in Nat
  OBVIOUS
<1>5. \A x \in ids : x \in Nat /\ x < n /\ x <= n + m /\ x <= d
  BY <1>2
<1>6. n \in n .. n + m
  OBVIOUS
<1>7. d < n
  BY <1>2
<1> QED BY <1>2, <1>3, <1>4, <1>5, <1>6, <1>7 DEF Declares

(* A declaration takes its next name. *)
LEMMA NamingFacts ==
  ASSUME NEW tab, NEW dep, Held(tab, dep), StartDefinition
  PROVE  /\ phase = "parse" /\ phase' = "parse" /\ tokens' = tokens + 1 /\ ContextsStay
         /\ UNCHANGED <<uses, tables, entries, driver, tree, currentTable, currentFunction, loads, home, place>>
         /\ item' # <<>> /\ Item'.kind = "declaration" /\ Item'.id = tokens /\ Item'.nodes = <<>>
         /\ PendingName = "" /\ PendingName' # "" /\ Item'.name # ""
         /\ item = <<>> => Item'.defs = <<>>
         /\ item # <<>> => /\ Item.kind = "declaration" /\ Item.name = ""
                           /\ Item'.defs = Item.defs /\ Item'.scope = Item.scope
<1>1. PICK name \in Names :
        /\ Writes(1) /\ IF NoItem THEN TRUE ELSE Item.kind = "declaration" /\ ~Reading
        /\ open' = Append(Front(open), WithName(Top, name, Declaration("variable")))
        /\ item' = IF NoItem
                   THEN <<[Started("declaration") EXCEPT !.name = name, !.id = tokens,
                             !.scope = IF currentFunction # Null THEN "local" ELSE "global"]>>
                   ELSE <<[Item EXCEPT !.name = name, !.id = tokens, !.nodes = <<>>]>>
        /\ UNCHANGED <<uses, tables, entries, driver, tree, tempCounter, phase, generated>>
  BY DEF StartDefinition
<1>2. /\ Len(open) \in Nat \ {0} /\ IsSeq(open) /\ Shape(open) /\ Top = open[Len(open)]
      /\ Len(open) \in 1 .. Len(open)
  BY HeldFacts
<1>3. name # ""
  BY ScopesAssumption
<1>4. PICK c, top : c = WithName(top, name, Declaration("variable")) /\ top = Top /\ IsContext(top)
  BY <1>2 DEF Shape
<1>5. c.kind = top.kind /\ c.block = top.block /\ c.condition = top.condition
  BY <1>4 DEF WithName, IsContext
<1>6. /\ Len(open') = Len(open) /\ open'[Len(open)] = c
      /\ \A k \in 1 .. Len(open) : k # Len(open) => open'[k] = open[k]
  <2>1. open # <<>> /\ open' = Append(Front(open), c)
    BY <1>1, <1>2, <1>4
  <2> QED BY <1>2, <2>1, LastReplaced
<1>7. ContextsStay
  BY <1>2, <1>4, <1>5, <1>6 DEF ContextsStay
<1>8. PICK scope : scope = IF currentFunction # Null THEN "local" ELSE "global"
  OBVIOUS
<1>9. ASSUME item = <<>>
      PROVE  item' = <<[kind |-> "declaration", name |-> name, id |-> tokens, nodes |-> <<>>, defs |-> <<>>,
                        scope |-> scope]>>
  <2>1. item' = <<[Started("declaration") EXCEPT !.name = name, !.id = tokens, !.scope = scope]>>
    BY <1>1, <1>8, <1>9 DEF NoItem
  <2>2. [Started("declaration") EXCEPT !.name = name, !.id = tokens, !.scope = scope]
        = [kind |-> "declaration", name |-> name, id |-> tokens, nodes |-> <<>>, defs |-> <<>>, scope |-> scope]
    BY Begun
  <2> QED BY <2>1, <2>2
<1>10. ASSUME item # <<>>
       PROVE  item' = <<[kind |-> Item.kind, name |-> name, id |-> tokens, nodes |-> <<>>, defs |-> Item.defs,
                         scope |-> Item.scope]>>
  <2>1. PICK i : i = Item /\ IsItem(i)
    BY <1>10 DEF Held, Symbols, ItemFits
  <2>2. item' = <<Renaming(i, name, tokens)>>
    BY <1>1, <1>10, <2>1 DEF NoItem, Renaming
  <2> QED BY <2>1, <2>2, Renamed
<1>11. /\ item' # <<>> /\ Item'.kind = "declaration" /\ Item'.id = tokens /\ Item'.nodes = <<>> /\ Item'.name = name
       /\ item = <<>> => Item'.defs = <<>>
       /\ item # <<>> => Item'.defs = Item.defs /\ Item'.scope = Item.scope
  <2>1. CASE item = <<>>
    BY <1>9, <2>1 DEF Item
  <2>2. CASE item # <<>>
    <3>1. PICK i : i = Item
      OBVIOUS
    <3>2. i.kind = "declaration"
      BY <1>1, <2>2, <3>1 DEF NoItem
    <3>3. PICK j : /\ j = [kind |-> i.kind, name |-> name, id |-> tokens, nodes |-> <<>>, defs |-> i.defs,
                           scope |-> i.scope]
                   /\ item' = <<j>>
      BY <1>10, <2>2, <3>1
    <3>4. item' # <<>> /\ Item' = j
      BY <3>3 DEF Item
    <3> QED BY <2>2, <3>1, <3>2, <3>3, <3>4
  <2> QED BY <2>1, <2>2
<1>12. item # <<>> => Item.kind = "declaration" /\ Item.name = ""
  BY <1>1 DEF NoItem, Reading
<1>13. PendingName = "" /\ PendingName' # ""
  BY <1>3, <1>11, <1>12 DEF PendingName, NoItem
<1> QED BY <1>1, <1>3, <1>7, <1>11, <1>12, <1>13 DEF Writes, driver, generated

LEMMA StartDefinitionTold ==
  ASSUME NEW tab, NEW dep, Held(tab, dep), Told, StartDefinition PROVE Told'
<1>1. /\ phase = "parse" /\ phase' = "parse" /\ tokens' = tokens + 1 /\ ContextsStay
      /\ UNCHANGED <<uses, tables, entries, driver, tree, currentTable, currentFunction, loads, home, place>>
      /\ item' # <<>> /\ Item'.kind = "declaration" /\ Item'.id = tokens /\ Item'.nodes = <<>>
      /\ PendingName = "" /\ PendingName' # "" /\ Item'.name # ""
      /\ item = <<>> => Item'.defs = <<>>
      /\ item # <<>> => /\ Item.kind = "declaration" /\ Item.name = ""
                        /\ Item'.defs = Item.defs /\ Item'.scope = Item.scope
  BY NamingFacts
<1>2. EntriesKept /\ NamesStay
  BY StartDefinitionHeld DEF StillHeld
<1>3. Len(entries) \in Nat /\ tokens \in Nat \ {0} /\ Len(tables) \in Nat
  BY HeldFacts
<1>4. PICK n : n = tokens /\ n \in Nat \ {0} /\ tokens' = n + 1
  BY <1>1, <1>3
<1>5. /\ Ids' = Ids \cup n .. n + 0 /\ Ids \subseteq 1 .. n - 1
      /\ \A x \in Ids', y \in Ids : x \in Ids \/ y <= x
  <2>1. Ids' = Ids \cup {n} /\ Ids \subseteq 1 .. n - 1
    BY <1>1, <1>4, IdsFit DEF Ids
  <2>2. {n} = n .. n + 0 /\ \A y \in 1 .. n - 1 : y <= n
    BY <1>4
  <2> QED BY <2>1, <2>2
<1>6. \A f \in 1 .. Closed : f \in 1 .. Closed' /\ functions'[f] = functions[f]
  BY <1>1 DEF Closed, tree, ContextsStay
<1>7. PICK w, start, now, w2 :
        /\ w = World(w.spans) /\ SpansFit(w) /\ Bodies /\ loads = <<>> /\ home = <<>> /\ place = 0
        /\ Written(w, start, now)
        /\ w2 = World(w2.spans)' /\ w2.spans = w.spans /\ w2.declared = Ids' /\ Extends(w, w2)
        /\ now \in Position /\ now[1] = Len(uses) /\ now[2] < tokens /\ now[2] \in Nat
        /\ \A x \in Ids : x <= now[2]
        /\ ReductionAt(w, start[Len(open) + 1], now) /\ start[Len(open) + 1] \in Position
  <2>1. Ids \subseteq Ids' /\ uses' = uses
    BY <1>1, <1>5
  <2>2. Len(tables') \in Nat /\ Len(tables') >= Len(tables)
    <3>1. tables' = tables
      BY <1>1
    <3>2. \A k \in Nat : k >= k
      OBVIOUS
    <3> QED BY <1>3, <3>1, <3>2
  <2> QED BY <1>1, <1>2, <1>5, <1>6, <2>1, <2>2, WorldStep
<1>8. PICK from, now2 : from = start[Len(open) + 1] /\ now2 = <<now[1], n + 0>>
  OBVIOUS
<1>9. /\ now2 \in Position /\ now2[1] = Len(uses') /\ now2[2] < tokens'
      /\ Declares(w2, now, now2, tokens, tokens) /\ \A x \in w2.declared : x <= now2[2]
  <2>1. now[2] < n /\ w2.declared = Ids \cup n .. n + 0 /\ Ids \subseteq 1 .. n - 1
        /\ \A x \in Ids : x <= now[2]
    BY <1>4, <1>5, <1>7
  <2>2. 0 \in Nat /\ n + 0 = n /\ n < n + 1
    BY <1>4
  <2>3. /\ <<now[1], n + 0>> \in Position /\ Declares(w2, now, <<now[1], n + 0>>, n, n + 0)
        /\ \A x \in w2.declared : x <= n + 0
    <3>1. now \in Position
      BY <1>7
    <3> QED BY <1>4, <2>1, <2>2, <3>1, NewlyDeclared
  <2>4. now2[1] = now[1] /\ now2[2] = n + 0
    BY <1>8
  <2> QED BY <1>1, <1>4, <1>7, <1>8, <2>2, <2>3, <2>4
<1>10. NodesAt(w2, <<>>, now2, now2)
  BY <1>9, NodesNone
<1>11. DefsAt(w2, currentTable, Item'.scope, Item'.defs, from, now)
  <2>1. CASE item = <<>>
    <3>1. from = now
      BY <1>7, <1>8, <2>1 DEF ReductionAt
    <3> QED BY <1>1, <1>7, <2>1, <3>1, DefsNone
  <2>2. CASE item # <<>>
    <3>1. DefsAt(w, currentTable, Item.scope, Item.defs, from, now)
      BY <1>1, <1>7, <1>8, <2>2 DEF ReductionAt
    <3> QED BY <1>1, <1>7, <2>2, <3>1, DefsKept
  <2> QED BY <2>1, <2>2
<1>12. ReductionAt(w2, from, now2)'
  <2>1. \E mid, begin \in Position :
          /\ DefsAt(w2, currentTable', Item'.scope, Item'.defs, from, mid)
          /\ Declares(w2, mid, begin, Item'.id, Item'.id)
          /\ NodesAt(w2, Item'.nodes, begin, now2)
          /\ Item'.scope = "global" => Item'.nodes = <<>>
    BY <1>1, <1>7, <1>9, <1>10, <1>11
  <2> QED BY <1>1, <2>1 DEF ReductionAt
<1>13. UNCHANGED <<unit, blocks, functions>> /\ PlacesFit /\ IsSeq(uses')
  BY <1>1, <1>7, PlacesFits DEF tree, Bodies
<1> QED BY <1>1, <1>7, <1>8, <1>9, <1>12, <1>13, OnlyReduction

(* A declaration ends with its name in the table. *)
LEMMA FinishingFacts ==
  ASSUME NEW tab, NEW dep, Held(tab, dep), EndDefinition
  PROVE  /\ phase = "parse" /\ phase' = "parse" /\ tokens' = tokens + 1
         /\ UNCHANGED <<open, uses, driver, tree, currentTable, currentFunction, loads, home, place>>
         /\ item # <<>> /\ Item.kind = "declaration" /\ Item.name # "" /\ Item.name \in Known
         /\ Item.scope \in {"global", "local"}
         /\ item' # <<>> /\ Item'.kind = "declaration" /\ Item'.name = "" /\ Item'.scope = Item.scope
         /\ Item'.defs = Append(Item.defs, [name |-> Item.name, id |-> Item.id, nodes |-> Item.nodes])
         /\ Len(entries) \in Nat /\ Len(entries') = Len(entries) + 1
         /\ entries'[Len(entries) + 1].id = Item.id /\ entries'[Len(entries) + 1].scope = Item.scope
         /\ currentTable \in 1 .. Len(tables) /\ Len(tables') = Len(tables)
         /\ Item.name \in DOMAIN tables'[currentTable].entries
         /\ tables'[currentTable].entries[Item.name] = Len(entries) + 1
<1>1. /\ Writes(1) /\ item # <<>> /\ Item.kind = "declaration" /\ Item.name # ""
      /\ entries' = Append(entries, Entry(Item.name, Item.scope, Item.id))
      /\ tables' = Inserted(currentTable, Item.name, Len(entries) + 1)
      /\ item' = <<[Item EXCEPT !.name = "", !.id = Null, !.nodes = <<>>,
                      !.defs = Append(@, [name |-> Item.name, id |-> Item.id, nodes |-> Item.nodes])]>>
      /\ UNCHANGED <<open, uses, driver, tree, tempCounter, phase, generated>>
  BY DEF EndDefinition, NoItem, Reading
<1>2. Containers /\ EntriesFit /\ IsSeq(entries) /\ Len(entries) \in Nat /\ currentTable \in 1 .. Len(tables)
  BY HeldFacts
<1>3. IsItem(Item) /\ Item.name \in Names /\ Item.scope \in {"global", "local"}
  BY <1>1 DEF Held, Symbols, ItemFits
<1>4. PICK i, def : i = Item /\ def = [name |-> Item.name, id |-> Item.id, nodes |-> Item.nodes]
  OBVIOUS
<1>5. PICK j : /\ j = [kind |-> i.kind, name |-> "", id |-> Null, nodes |-> <<>>,
                       defs |-> Append(i.defs, def), scope |-> i.scope]
               /\ item' = <<j>>
  <2>1. item' = <<Finished(i, def)>>
    BY <1>1, <1>4 DEF Finished
  <2> QED BY <1>3, <1>4, <2>1, FinishedFacts
<1>6. item' # <<>> /\ Item' = j
  BY <1>5 DEF Item
<1>7. PICK name, id, scope : name = Item.name /\ id = Item.id /\ scope = Item.scope
  OBVIOUS
<1>8. PICK t, e : t = currentTable /\ e = Len(entries) + 1
  OBVIOUS
<1>9. name \in DOMAIN tables'[t].entries /\ tables'[t].entries[name] = e
  <2>1. tables' = Inserted(t, name, e) /\ t \in 1 .. Len(tables)
    BY <1>1, <1>2, <1>7, <1>8
  <2> QED BY <1>2, <2>1, InsertedNames
<1>10. Len(entries') = Len(entries) + 1 /\ entries'[Len(entries) + 1] = Entry(name, scope, id)
  <2>1. entries' = Append(entries, Entry(name, scope, id))
    BY <1>1, <1>7
  <2> QED BY <1>2, <2>1, AppendFacts
<1>11. entries'[Len(entries) + 1].id = id /\ entries'[Len(entries) + 1].scope = scope
  BY <1>10 DEF Entry
<1>12. Len(tables') = Len(tables)
  <2>1. tables' = Inserted(t, name, e) /\ t \in 1 .. Len(tables)
    BY <1>1, <1>2, <1>7, <1>8
  <2> QED BY <1>2, <2>1, InsertedFacts DEF WithEntry
<1>13. /\ phase = "parse" /\ phase' = "parse" /\ tokens' = tokens + 1
       /\ UNCHANGED <<open, uses, driver, tree, currentTable, currentFunction, loads, home, place>>
  BY <1>1 DEF Writes, driver, generated
<1>14. /\ Item'.kind = "declaration" /\ Item'.name = "" /\ Item'.scope = scope
       /\ Item'.defs = Append(i.defs, def)
  BY <1>1, <1>4, <1>5, <1>6, <1>7
<1>15. Item.name \in Known
  BY <1>3 DEF Known
<1> QED BY <1>1, <1>2, <1>3, <1>4, <1>6, <1>7, <1>8, <1>9, <1>10, <1>11, <1>12, <1>13, <1>14, <1>15

LEMMA OneMore ==
  ASSUME NEW a \in Nat, NEW b, b = a + 1
  PROVE  \E n : n = a + 1 /\ n \in 1 .. b /\ \A k \in 1 .. b : k \in 1 .. a \/ k = n
OBVIOUS

LEMMA EndDefinitionTold ==
  ASSUME NEW tab, NEW dep, Held(tab, dep), Told, EndDefinition PROVE Told'
<1>1. /\ phase = "parse" /\ phase' = "parse" /\ tokens' = tokens + 1
      /\ UNCHANGED <<open, uses, driver, tree, currentTable, currentFunction, loads, home, place>>
      /\ item # <<>> /\ Item.kind = "declaration" /\ Item.name # "" /\ Item.name \in Known
      /\ Item.scope \in {"global", "local"}
      /\ item' # <<>> /\ Item'.kind = "declaration" /\ Item'.name = "" /\ Item'.scope = Item.scope
      /\ Item'.defs = Append(Item.defs, [name |-> Item.name, id |-> Item.id, nodes |-> Item.nodes])
      /\ Len(entries) \in Nat /\ Len(entries') = Len(entries) + 1
      /\ entries'[Len(entries) + 1].id = Item.id /\ entries'[Len(entries) + 1].scope = Item.scope
      /\ currentTable \in 1 .. Len(tables) /\ Len(tables') = Len(tables)
      /\ Item.name \in DOMAIN tables'[currentTable].entries
      /\ tables'[currentTable].entries[Item.name] = Len(entries) + 1
  BY FinishingFacts
<1>2. EntriesKept /\ NamesStay
  BY EndDefinitionHeld DEF StillHeld
<1>3. tokens \in Nat \ {0} /\ Len(tables) \in Nat
  BY HeldFacts
<1>4. PICK n : /\ n = Len(entries) + 1 /\ n \in 1 .. Len(entries')
               /\ \A e \in 1 .. Len(entries') : e \in 1 .. Len(entries) \/ e = n
  <2>1. Len(entries) \in Nat /\ Len(entries') = Len(entries) + 1
    BY <1>1
  <2> HIDE <1>1
  <2> QED BY <2>1, OneMore
<1>5. Ids' = Ids
  <2>1. \A e \in 1 .. Len(entries) : e \in 1 .. Len(entries') /\ entries'[e].id = entries[e].id
    BY <1>1, <1>2, EntriesStillThere
  <2>2. PendingName' = "" /\ PendingName # "" /\ Item.id # Null
    <3>1. PendingName # ""
      BY <1>1 DEF PendingName, NoItem
    <3>2. Item.id \in 1 .. tokens - 1
      BY <3>1, IdsFit
    <3>3. PendingName' = ""
      BY <1>1 DEF PendingName, NoItem
    <3>4. \A x \in 1 .. tokens - 1 : x # Null
      BY <1>3 DEF Null
    <3> QED BY <3>1, <3>2, <3>3, <3>4
  <2>3. \A e \in 1 .. Len(entries') : e \in 1 .. Len(entries) \/ e = n
    BY <1>4
  <2>4. entries'[n].id = Item.id
    BY <1>1, <1>4
  <2> QED BY <1>4, <2>1, <2>2, <2>3, <2>4 DEF Ids
<1>6. \A f \in 1 .. Closed : f \in 1 .. Closed' /\ functions'[f] = functions[f]
  BY <1>1 DEF Closed, tree
<1>7. PICK w, start, now, w2 :
        /\ w = World(w.spans) /\ SpansFit(w) /\ Bodies /\ loads = <<>> /\ home = <<>> /\ place = 0
        /\ Written(w, start, now)
        /\ w2 = World(w2.spans)' /\ w2.spans = w.spans /\ w2.declared = Ids' /\ Extends(w, w2)
        /\ now \in Position /\ now[1] = Len(uses) /\ now[2] < tokens /\ now[2] \in Nat
        /\ \A x \in Ids : x <= now[2]
        /\ ReductionAt(w, start[Len(open) + 1], now) /\ start[Len(open) + 1] \in Position
  <2>1. \A x \in Ids', y \in Ids : x \in Ids \/ y <= x
    BY <1>5
  <2>2. uses' = uses /\ Ids \subseteq Ids'
    BY <1>1, <1>5
  <2>3. Len(tables') \in Nat /\ Len(tables') >= Len(tables)
    <3>1. Len(tables') = Len(tables)
      BY <1>1
    <3>2. \A k \in Nat : k >= k
      OBVIOUS
    <3> QED BY <1>3, <3>1, <3>2
  <2> QED BY <1>1, <1>2, <1>6, <2>1, <2>2, <2>3, WorldStep
<1>8. PICK from : from = start[Len(open) + 1]
  OBVIOUS
<1>9. PICK t, scope, def, name, id :
        /\ t = currentTable /\ scope = Item.scope /\ name = Item.name /\ id = Item.id
        /\ def = [name |-> name, id |-> id, nodes |-> Item.nodes]
  OBVIOUS
<1>10. PICK mid \in Position, begin \in Position :
         /\ DefsAt(w, t, scope, Item.defs, from, mid)
         /\ Declares(w, mid, begin, id, id)
         /\ NodesAt(w, Item.nodes, begin, now)
         /\ scope = "global" => Item.nodes = <<>>
  BY <1>1, <1>7, <1>8, <1>9 DEF ReductionAt
<1>11. DefsAt(w2, t, scope, Item.defs, from, mid) /\ Declares(w2, mid, begin, id, id)
       /\ NodesAt(w2, Item.nodes, begin, now)
  BY <1>7, <1>10, DefsKept, DeclaresKept, NodesKept
<1>12. NameAt(w2, t, name, id)
  <2>1. PICK spans : spans = w2.spans
    OBVIOUS
  <2>2. w2 = World(spans)'
    BY <1>7, <2>1
  <2>3. <<n, id, scope>> \in w2.symbols
    BY <1>1, <1>4, <1>9, <2>2 DEF World
  <2>4. <<t, name, n>> \in w2.names
    <3>1. t \in 1 .. Len(tables') /\ name \in Known
      BY <1>1, <1>9
    <3>2. name \in DOMAIN tables'[t].entries /\ tables'[t].entries[name] = n
      BY <1>1, <1>4, <1>9
    <3> QED BY <1>4, <2>2, <3>1, <3>2 DEF World
  <2> QED BY <1>1, <1>9, <2>3, <2>4 DEF NameAt, Variables
<1>13. DefAt(w2, t, scope, def, mid, now)
  <2>1. NodesAt(w2, IF scope = "local" THEN def.nodes ELSE <<>>, begin, now)
    BY <1>1, <1>9, <1>10, <1>11
  <2> QED BY <1>9, <1>11, <1>12, <2>1 DEF DefAt
<1>14. DefsAt(w2, t, scope, Append(Item.defs, def), from, now)
  <2>1. PICK defs : defs = Item.defs
    OBVIOUS
  <2>2. DefsAt(w2, t, scope, Append(defs, def), from, now)
    BY <1>7, <1>11, <1>13, <2>1, DefsNext
  <2> QED BY <2>1, <2>2
<1>15. Append(Item.defs, def) # <<>>
  <2>1. IsSeq(Item.defs)
    BY <1>10 DEF DefsAt
  <2>2. Len(Append(Item.defs, def)) = Len(Item.defs) + 1 /\ Len(Item.defs) \in Nat
    BY <2>1, AppendFacts
  <2> QED BY <2>2
<1>16. ReductionAt(w2, from, now)'
  BY <1>1, <1>9, <1>14, <1>15 DEF ReductionAt
<1>17. ContextsStay /\ UNCHANGED <<unit, blocks, functions>> /\ PlacesFit /\ IsSeq(uses')
  BY <1>1, <1>7, SameContents, PlacesFits DEF tree, Bodies
<1>18. now[1] = Len(uses') /\ now[2] < tokens' /\ \A x \in w2.declared : x <= now[2]
  <2>1. \A a \in Nat, b \in Nat : a < b => a < b + 1
    OBVIOUS
  <2> QED BY <1>1, <1>3, <1>5, <1>7, <2>1
<1> QED BY <1>1, <1>7, <1>8, <1>16, <1>17, <1>18, OnlyReduction

(* What the text that is covered after a step is shown by. *)
LEMMA WrittenTold ==
  ASSUME NEW w2, w2 = World(w2.spans)', SpansFit(w2)', Bodies',
         loads' = <<>>, home' = <<>>, place' = 0, phase' = "parse",
         NEW n, n = Len(open'), NEW start \in [1 .. n + 1 -> Position], start[1] = <<0, 0>>,
         \A k \in 1 .. n : ContentAt(w2, k, start[k], start[k + 1])',
         NEW now2 \in Position, now2[1] = Len(uses'), now2[2] < tokens',
         \A x \in w2.declared : x <= now2[2],
         NEW from, from = start[n + 1], ReductionAt(w2, from, now2)'
  PROVE  Told'
<1>1. ReductionAt(w2, start[n + 1], now2)'
  BY DEF ReductionAt
<1>2. Written(w2, start, now2)'
  BY <1>1 DEF Written
<1>3. Parsing(w2)'
  BY <1>2 DEF Parsing
<1> QED BY <1>3 DEF Told

(* A context is opened. *)
LEMMA OpenedTold ==
  ASSUME NEW w2, w2 = World(w2.spans)', SpansFit(w2)', Bodies',
         loads' = <<>>, home' = <<>>, place' = 0, phase' = "parse", item' = <<>>,
         NEW n \in Nat \ {0}, n + 1 = Len(open'),
         NEW start \in [1 .. n + 1 -> Position], start[1] = <<0, 0>>,
         \A k \in 1 .. n : ContentAt(w2, k, start[k], start[k + 1])',
         NEW now2 \in Position, now2[1] = Len(uses'), now2[2] < tokens',
         \A x \in w2.declared : x <= now2[2],
         NEW from, from = start[n + 1], NEW m, m = n + 1, ContentAt(w2, m, from, now2)'
  PROVE  Told'
<1>1. PICK start2 : start2 = [k \in 1 .. m + 1 |-> IF k = m + 1 THEN now2 ELSE start[k]]
  OBVIOUS
<1>2. /\ m \in Nat /\ \A k \in 1 .. m : k \in 1 .. n \/ k = m
      /\ \A k \in 1 .. n : k \in 1 .. m + 1 /\ k + 1 \in 1 .. m + 1 /\ k # m + 1 /\ k + 1 # m + 1
      /\ 1 \in 1 .. n /\ m + 1 \in 1 .. m + 1 /\ m \in 1 .. m + 1 /\ m # m + 1
      /\ \A k \in 1 .. m + 1 : k # m + 1 => k \in 1 .. n + 1
  OBVIOUS
<1>3. /\ start2 \in [1 .. m + 1 -> Position] /\ start2[1] = <<0, 0>>
      /\ start2[m + 1] = now2 /\ start2[m] = from
      /\ \A k \in 1 .. n : start2[k] = start[k] /\ start2[k + 1] = start[k + 1]
  BY <1>1, <1>2
<1>4. ASSUME NEW k \in 1 .. m PROVE ContentAt(w2, k, start2[k], start2[k + 1])'
  <2>1. CASE k \in 1 .. n
    BY <1>3, <2>1
  <2>2. CASE k = m
    <3>1. start2[m + 1] = now2 /\ start2[m] = from
      BY <1>3
    <3> QED BY <2>2, <3>1
  <2> QED BY <1>2, <2>1, <2>2
<1>5. ReductionAt(w2, now2, now2)'
  BY DEF ReductionAt
<1>6. m = Len(open') /\ now2 = start2[m + 1]
  BY <1>3
<1> QED BY <1>3, <1>4, <1>5, <1>6, WrittenTold

LEMMA EndConditionTold ==
  ASSUME NEW tab, NEW dep, Held(tab, dep), Told, EndCondition PROVE Told'
<1> DEFINE if == [Context("if", Null) EXCEPT !.condition = Item.nodes]
<1>1. /\ phase = "parse" /\ phase' = "parse" /\ tokens' = tokens + 1 /\ item # <<>> /\ item' = <<>>
      /\ Item.kind = "condition" /\ open' = Append(open, if)
      /\ UNCHANGED <<uses, tables, entries, blocks, functions, unit, currentFunction, loads, home, place>>
  BY DEF EndCondition, Writes, NoItem, driver, tree, generated
<1>2. PICK c : c = if /\ c.kind = "if" /\ c.block = Null /\ c.condition = Item.nodes
  <2>1. if = [kind |-> "if", block |-> Null, declared |-> <<>>, condition |-> Item.nodes]
    BY DEF Context
  <2> HIDE DEF if
  <2>2. PICK c : c = if
    OBVIOUS
  <2>3. c.kind = "if" /\ c.block = Null /\ c.condition = Item.nodes
    BY <2>1, <2>2
  <2> QED BY <2>2, <2>3
<1>3. PICK n : n = Len(open) /\ n \in Nat \ {0} /\ Len(open') = n + 1
               /\ open'[n + 1] = c /\ \A k \in 1 .. n : open'[k] = open[k]
  <2>1. IsSeq(open) /\ Len(open) \in Nat \ {0}
    BY HeldFacts
  <2>2. open' = Append(open, c)
    BY <1>1, <1>2
  <2> QED BY <2>1, <2>2, AppendFacts
<1> HIDE DEF if
<1>4. /\ Len(entries) \in Nat /\ tokens \in Nat \ {0} /\ Len(tables) \in Nat /\ PlacesFit
      /\ Shape(open) /\ Top = open[n] /\ n \in 1 .. n
  BY <1>3, HeldFacts, PlacesFits
<1>5. Top.kind \in {"block", "if"} /\ Item.name = ""
  BY <1>1 DEF Held, Symbols, ItemFits
<1>6. n # 1 /\ n # 2 /\ n > 2 /\ n + 1 # 1
  <2>1. n # 1 /\ n # 2
    BY <1>3, <1>4, <1>5 DEF Shape
  <2> QED BY <1>3, <2>1
<1>7. Ids' = Ids
  <2>1. PendingName = "" /\ PendingName' = ""
    BY <1>1, <1>5 DEF PendingName, NoItem
  <2>2. EntriesKept /\ \A e \in 1 .. Len(entries') : e \in 1 .. Len(entries)
    BY <1>1, EndConditionHeld DEF StillHeld
  <2> QED BY <1>4, <2>1, <2>2, SameIds
<1>8. \A f \in 1 .. Closed : f \in 1 .. Closed' /\ functions'[f] = functions[f]
  BY <1>1, <1>3, <1>6 DEF Closed
<1>9. PICK w, start, now, w2 :
        /\ w = World(w.spans) /\ SpansFit(w) /\ Bodies /\ loads = <<>> /\ home = <<>> /\ place = 0
        /\ Written(w, start, now)
        /\ w2 = World(w2.spans)' /\ w2.spans = w.spans /\ w2.declared = Ids' /\ Extends(w, w2)
        /\ now \in Position /\ now[1] = Len(uses) /\ now[2] < tokens /\ now[2] \in Nat
        /\ \A x \in Ids : x <= now[2]
        /\ ReductionAt(w, start[Len(open) + 1], now) /\ start[Len(open) + 1] \in Position
  <2>1. EntriesKept /\ NamesStay
    BY EndConditionHeld DEF StillHeld
  <2>2. Len(tables') \in Nat /\ Len(tables') >= Len(tables)
    <3>1. tables' = tables
      BY <1>1
    <3>2. \A k \in Nat : k >= k
      OBVIOUS
    <3> QED BY <1>4, <3>1, <3>2
  <2>3. uses' = uses /\ Ids \subseteq Ids' /\ \A x \in Ids', y \in Ids : x \in Ids \/ y <= x
    BY <1>1, <1>7
  <2> QED BY <1>1, <1>8, <2>1, <2>2, <2>3, WorldStep
<1>10. PICK from : from = start[n + 1] /\ ReductionAt(w, from, now)
  BY <1>3, <1>9
<1>11. NodesAt(w2, Item.nodes, from, now)
  BY <1>1, <1>9, <1>10, NodesKept DEF ReductionAt
<1>12. start \in [1 .. n + 1 -> Position] /\ start[1] = <<0, 0>>
       /\ \A k \in 1 .. n : ContentAt(w, k, start[k], start[k + 1])
  BY <1>3, <1>9 DEF Written
<1>13. ASSUME NEW k \in 1 .. n PROVE ContentAt(w2, k, start[k], start[k + 1])'
  <2>1. PICK a, b : a = start[k] /\ b = start[k + 1]
    OBVIOUS
  <2>2. ContentAt(w, k, a, b) /\ open'[k] = open[k]
    BY <1>3, <1>12, <2>1
  <2>3. n # 1 /\ n + 1 # 1 /\ Len(open') # 1
    BY <1>3, <1>6
  <2>4. ContentAt(w2, k, a, b)'
    BY <1>1, <1>3, <1>9, <2>2, <2>3, ContentKept
  <2> QED BY <2>1, <2>4
<1>14. PICK m : m = n + 1 /\ m # 1 /\ m # 2 /\ m # 3
  BY <1>3, <1>6
<1>15. ContentAt(w2, m, from, now)'
  BY <1>2, <1>3, <1>11, <1>14 DEF ContentAt
<1>16. SpansFit(w2)'
  <2>1. \A s \in w.spans : s[1] \in 1 .. Len(blocks') /\ blocks'[s[1]] = blocks[s[1]]
    BY <1>1, <1>9 DEF SpansFit
  <2>2. \A k \in 1 .. Len(open') : k \in 1 .. n \/ k = n + 1
    BY <1>3
  <2>3. \A k \in 1 .. Len(open') : open'[k].kind = "block" =>
          \E j \in 1 .. Len(open) : open[j].kind = "block" /\ open[j].block = open'[k].block
    BY <1>2, <1>3, <2>2
  <2> QED BY <1>9, <2>1, <2>3, SpansKept
<1>17. Bodies'
  <2>1. 3 \in 1 .. n /\ Len(open) > 2 /\ Len(open) > 1
    BY <1>3, <1>6
  <2>2. Len(open') # 2
    BY <1>3, <1>6
  <2> QED BY <1>1, <1>3, <1>9, <2>1, <2>2 DEF Bodies
<1>18. now[1] = Len(uses') /\ now[2] < tokens' /\ \A x \in w2.declared : x <= now[2]
  <2>1. \A a \in Nat, b \in Nat : a < b => a < b + 1
    OBVIOUS
  <2> QED BY <1>1, <1>4, <1>7, <1>9, <2>1
<1> QED BY <1>1, <1>3, <1>9, <1>10, <1>12, <1>13, <1>14, <1>15, <1>16, <1>17, <1>18, OpenedTold

(* The block the driver is in, by the contexts. *)
LEMMA InnerBlock ==
  ASSUME NEW tab, NEW dep, Held(tab, dep)
  PROVE  /\ Len(open) = 2 => currentBlock = Null /\ currentTable = functions[currentFunction].table
         /\ Len(open) > 2 => currentBlock # Null
<1>1. Placed(tab, dep) /\ Shape(open) /\ Standing(tab, dep) /\ Ladder(tab, dep) /\ PlacesFit
  BY PlacesFits DEF Held, Placed
<1>2. ASSUME Len(open) = 2 PROVE currentBlock = Null /\ currentTable = functions[currentFunction].table
  <2>1. 2 \in 1 .. Len(open) /\ 2 \in 2 .. Len(open)
    BY <1>2
  <2>2. open[2].kind = "function" /\ Rung(tab, dep, 2)
    BY <1>1, <2>1 DEF Shape, Ladder
  <2>3. dep[2] = 0 /\ tab[2] = functions[currentFunction].table
    BY <2>2 DEF Rung
  <2>4. IsSeq(blockStack) /\ Len(blockStack) = 0 /\ currentTable = tab[2]
    BY <1>1, <1>2, <2>3 DEF Standing
  <2>5. blockStack = <<>>
    BY <2>4 DEF IsSeq
  <2> QED BY <1>1, <2>3, <2>4, <2>5 DEF Standing
<1>3. ASSUME Len(open) > 2 PROVE currentBlock # Null
  <2>1. PICK o : o = Outside(open) /\ InnerFits(o)
    BY <1>1 DEF PlacesFit
  <2>2. /\ Len(open) \in Nat /\ 3 \in 1 .. Len(open) /\ 2 \in 1 .. Len(open) /\ open[3].kind = "block"
        /\ \A k \in 1 .. Len(open) : /\ open[k].kind \in {"global", "function", "block", "if"}
                                     /\ open[k].kind = "global" <=> k = 1
                                     /\ open[k].kind = "function" <=> k = 2
    BY <1>1, <1>3 DEF Shape
  <2>3. /\ o \in 1 .. Len(open) /\ open[o].kind # "if"
        /\ \A j \in o + 1 .. Len(open) : open[j].kind = "if"
        /\ o = 1 => Len(open) = 1
        /\ open[o].kind = "block" => currentBlock = open[o].block
    BY <2>1 DEF InnerFits
  <2>4. o # 1
    BY <1>3, <2>3
  <2>5. o # 2
    <3>1. SUFFICES ASSUME o = 2 PROVE FALSE
      OBVIOUS
    <3>2. 3 \in o + 1 .. Len(open)
      BY <2>2, <3>1
    <3> QED BY <2>2, <2>3, <3>2
  <2>6. open[o].kind = "block" /\ currentBlock = open[o].block
    <3>1. open[o].kind \in {"global", "function", "block", "if"}
      BY <2>2, <2>3
    <3>2. open[o].kind # "global" /\ open[o].kind # "function"
      BY <2>2, <2>3, <2>4, <2>5
    <3> QED BY <2>3, <3>1, <3>2
  <2>7. open[o].block \in 1 .. Len(blocks)
    BY <1>1, <2>3, <2>6 DEF PlacesFit
  <2> QED BY <2>6, <2>7 DEF Null
<1> QED BY <1>2, <1>3

(* The body of a function becomes known with its first block. *)
LEMMA BodyFacts ==
  ASSUME NEW tab, NEW dep, Held(tab, dep), Bodies, OpenBlock
  PROVE  /\ Len(open) > 1
         /\ \A f \in 1 .. Len(functions) - 1 : functions'[f] = functions[f]
         /\ functions'[currentFunction].body = IF Len(open) = 2 THEN Len(blocks) + 1 ELSE open[3].block
<1>1. /\ Top.kind # "global"
      /\ functions' = IF currentBlock = Null THEN [functions EXCEPT ![currentFunction].body = Len(blocks) + 1]
                      ELSE functions
  BY DEF OpenBlock
<1>2. /\ Len(open) \in Nat \ {0} /\ Top = open[Len(open)] /\ Len(open) \in 1 .. Len(open)
      /\ Shape(open) /\ Containers /\ PlacesFit
  BY HeldFacts, PlacesFits
<1>3. Len(open) # 1 /\ Len(open) > 1
  <2>1. Len(open) # 1
    BY <1>1, <1>2 DEF Shape
  <2> QED BY <1>2, <2>1
<1>4. /\ Len(functions) \in Nat /\ DOMAIN functions = 1 .. Len(functions) /\ currentFunction = Len(functions)
      /\ currentFunction \in 1 .. Len(functions) /\ IsFunction(functions[currentFunction])
  <2>1. currentFunction = Len(functions) /\ Len(functions) > 0 /\ IsSeq(functions)
    BY <1>2, <1>3 DEF PlacesFit, Containers
  <2>2. Len(functions) \in Nat /\ DOMAIN functions = 1 .. Len(functions)
    BY <2>1, AppendFacts
  <2>3. currentFunction \in 1 .. Len(functions)
    BY <2>1, <2>2
  <2> QED BY <1>2, <2>1, <2>2, <2>3 DEF Containers
<1>5. CASE Len(open) = 2
  <2>1. functions' = [functions EXCEPT ![currentFunction].body = Len(blocks) + 1]
    BY <1>1, <1>5, InnerBlock
  <2>2. PICK f : f = functions[currentFunction] /\ IsFunction(f)
    BY <1>4
  <2>3. functions'[currentFunction] = [f EXCEPT !.body = Len(blocks) + 1]
    BY <1>4, <2>1, <2>2
  <2>4. functions'[currentFunction].body = Len(blocks) + 1
    BY <2>2, <2>3 DEF IsFunction
  <2>5. \A k \in 1 .. Len(functions) - 1 : k \in DOMAIN functions /\ k # currentFunction
    <3>1. \A x \in Nat : \A k \in 1 .. x - 1 : k \in 1 .. x /\ k # x
      OBVIOUS
    <3> QED BY <1>4, <3>1
  <2>6. \A k \in 1 .. Len(functions) - 1 : functions'[k] = functions[k]
    BY <2>1, <2>5
  <2> QED BY <1>3, <1>5, <2>4, <2>6
<1>6. CASE Len(open) # 2
  <2>1. Len(open) > 2
    <3>1. \A x \in Nat : x > 1 /\ x # 2 => x > 2
      OBVIOUS
    <3> QED BY <1>2, <1>3, <1>6, <3>1
  <2>2. functions' = functions
    BY <1>1, <2>1, InnerBlock
  <2> QED BY <1>3, <1>6, <2>1, <2>2 DEF Bodies
<1> QED BY <1>5, <1>6

LEMMA OpenBlockTold ==
  ASSUME NEW tab, NEW dep, Held(tab, dep), Told, OpenBlock PROVE Told'
<1>1. /\ phase = "parse" /\ phase' = "parse" /\ tokens' = tokens + 1 /\ item = <<>> /\ item' = <<>>
      /\ UNCHANGED <<uses, entries, unit, currentFunction, loads, home, place>>
  BY DEF OpenBlock, Writes, NoItem, generated
<1>2. PICK n, b : /\ n = Len(open) /\ n \in Nat \ {0} /\ b = Len(blocks) + 1
                  /\ Len(open') = n + 1 /\ \A k \in 1 .. n : open'[k] = open[k]
                  /\ open'[n + 1] = Context("block", b)
                  /\ \A c \in 1 .. Len(blocks) : blocks'[c] = blocks[c]
                  /\ blocks'[b] = [table |-> Len(tables) + 1, statements |-> <<>>]
                  /\ Len(blocks') = b /\ Len(blocks) \in Nat
                  /\ Len(tables') = Len(tables) + 1 /\ Len(functions') = Len(functions)
                  /\ \A f \in 1 .. Len(functions) : /\ functions'[f].entry = functions[f].entry
                                                    /\ functions'[f].parameters = functions[f].parameters
  <2>1. Len(open) \in Nat \ {0} /\ Len(blocks) \in Nat
    BY HeldFacts DEF Containers
  <2> QED BY <2>1, OpenBlockPlaces
<1>3. Len(entries) \in Nat /\ tokens \in Nat \ {0} /\ Len(tables) \in Nat /\ PlacesFit
  BY HeldFacts, PlacesFits
<1>4. Bodies
  BY <1>1, ToldFacts
<1>5. /\ n # 1 /\ n + 1 # 1 /\ Len(open') # 1 /\ Len(open) # 1 /\ Len(open') # 2
      /\ \A f \in 1 .. Len(functions) - 1 : functions'[f] = functions[f]
      /\ functions'[currentFunction].body = IF n = 2 THEN b ELSE open[3].block
      /\ currentFunction \in 1 .. Len(functions)
  <2>1. n > 1
    BY <1>2, <1>4, BodyFacts
  <2>2. n # 1 /\ n + 1 # 1 /\ Len(open') # 1 /\ Len(open) # 1 /\ Len(open') # 2
    <3>1. \A x \in Nat : x > 1 => x # 1 /\ x + 1 # 1 /\ x + 1 # 2
      OBVIOUS
    <3> QED BY <1>2, <2>1, <3>1
  <2>3. currentFunction = Len(functions) /\ Len(functions) > 0 /\ Len(functions) \in Nat
    BY <1>2, <1>3, <2>1, <2>2, AppendFacts DEF PlacesFit, Containers
  <2>4. currentFunction \in 1 .. Len(functions)
    BY <2>3
  <2> QED BY <1>2, <1>4, <2>2, <2>4, BodyFacts
<1>6. Ids' = Ids
  <2>1. PendingName = "" /\ PendingName' = ""
    BY <1>1 DEF PendingName, NoItem
  <2>2. EntriesKept /\ \A e \in 1 .. Len(entries') : e \in 1 .. Len(entries)
    BY <1>1, OpenBlockHeld DEF StillHeld
  <2> QED BY <1>3, <2>1, <2>2, SameIds
<1>7. \A f \in 1 .. Closed : f \in 1 .. Closed' /\ functions'[f] = functions[f]
  BY <1>2, <1>5 DEF Closed
<1>8. PICK w, start, now, w2 :
        /\ w = World(w.spans) /\ SpansFit(w) /\ Bodies /\ loads = <<>> /\ home = <<>> /\ place = 0
        /\ Written(w, start, now)
        /\ w2 = World(w2.spans)' /\ w2.spans = w.spans /\ w2.declared = Ids' /\ Extends(w, w2)
        /\ now \in Position /\ now[1] = Len(uses) /\ now[2] < tokens /\ now[2] \in Nat
        /\ \A x \in Ids : x <= now[2]
        /\ ReductionAt(w, start[Len(open) + 1], now) /\ start[Len(open) + 1] \in Position
  <2>1. EntriesKept /\ NamesStay
    BY OpenBlockHeld DEF StillHeld
  <2>2. Len(tables') \in Nat /\ Len(tables') >= Len(tables)
    <3>1. Len(tables') = Len(tables) + 1
      BY <1>2
    <3>2. \A k \in Nat : k + 1 \in Nat /\ k + 1 >= k
      OBVIOUS
    <3> QED BY <1>3, <3>1, <3>2
  <2>3. uses' = uses /\ Ids \subseteq Ids' /\ \A x \in Ids', y \in Ids : x \in Ids \/ y <= x
    BY <1>1, <1>6
  <2> QED BY <1>1, <1>7, <2>1, <2>2, <2>3, WorldStep
<1>9. PICK from : from = start[n + 1] /\ from = now
  BY <1>1, <1>2, <1>8 DEF ReductionAt
<1>10. start \in [1 .. n + 1 -> Position] /\ start[1] = <<0, 0>>
       /\ \A k \in 1 .. n : ContentAt(w, k, start[k], start[k + 1])
  BY <1>2, <1>8 DEF Written
<1>11. ASSUME NEW k \in 1 .. n PROVE ContentAt(w2, k, start[k], start[k + 1])'
  <2>1. PICK lo, hi : lo = start[k] /\ hi = start[k + 1]
    OBVIOUS
  <2>2. ContentAt(w, k, lo, hi) /\ open'[k] = open[k]
    BY <1>2, <1>10, <2>1
  <2>3. open[k].kind = "block" => blocks'[open[k].block] = blocks[open[k].block]
    BY <1>2, <1>3 DEF PlacesFit
  <2>4. /\ functions'[currentFunction'].entry = functions[currentFunction].entry
        /\ functions'[currentFunction'].parameters = functions[currentFunction].parameters
    BY <1>1, <1>2, <1>5
  <2>5. (IF Len(open') = 1 THEN unit' ELSE Front(unit')) = (IF Len(open) = 1 THEN unit ELSE Front(unit))
    BY <1>1, <1>5
  <2>6. ContentAt(w2, k, lo, hi)'
    BY <1>8, <2>2, <2>3, <2>4, <2>5, ContentKept
  <2> QED BY <2>1, <2>6
<1>12. PICK m : m = n + 1 /\ m # 1
  BY <1>5
<1>13. ContentAt(w2, m, from, now)'
  <2>1. open'[m].kind = "block" /\ open'[m].block = b
    BY <1>2, <1>12 DEF Context
  <2>2. ListAt(w2, blocks'[b].table, blocks'[b].statements, from, now)
    BY <1>2, <1>8, <1>9, ListNone
  <2> QED BY <1>12, <2>1, <2>2 DEF ContentAt
<1>14. SpansFit(w2)'
  <2>1. \A s \in w.spans : s[1] \in 1 .. Len(blocks') /\ blocks'[s[1]] = blocks[s[1]]
    <3>1. \A c \in 1 .. Len(blocks) : c \in 1 .. Len(blocks')
      BY <1>2
    <3> QED BY <1>2, <1>8, <3>1 DEF SpansFit
  <2>2. \A k \in 1 .. Len(open') : k \in 1 .. n \/ k = n + 1
    BY <1>2
  <2>3. open'[n + 1].block = b /\ b \notin 1 .. Len(blocks)
    BY <1>2 DEF Context
  <2>4. \A k \in 1 .. Len(open') : open'[k].kind = "block" =>
          \/ \E j \in 1 .. Len(open) : open[j].kind = "block" /\ open[j].block = open'[k].block
          \/ open'[k].block \notin 1 .. Len(blocks)
    BY <1>2, <2>2, <2>3
  <2> QED BY <1>8, <2>1, <2>4, SpansKept
<1>15. Bodies'
  <2>1. functions'[currentFunction'].body = open'[3].block
    <3>1. CASE n = 2
      <4>1. open'[3] = Context("block", b)
        BY <1>2, <3>1
      <4> QED BY <1>1, <1>5, <3>1, <4>1 DEF Context
    <3>2. CASE n # 2
      <4>1. 3 \in 1 .. n
        BY <1>2, <1>5, <3>2
      <4> QED BY <1>1, <1>2, <1>5, <3>2, <4>1
    <3> QED BY <3>1, <3>2
  <2>2. unit # <<>> /\ Last(unit) = [kind |-> "function", function |-> currentFunction]
    <3>1. Len(open) > 1
      BY <1>2, <1>5
    <3> QED BY <1>4, <3>1 DEF Bodies
  <2> QED BY <1>1, <1>4, <1>5, <2>1, <2>2 DEF Bodies
<1>16. now[1] = Len(uses') /\ now[2] < tokens' /\ \A x \in w2.declared : x <= now[2]
  <2>1. \A x \in Nat, y \in Nat : x < y => x < y + 1
    OBVIOUS
  <2> QED BY <1>1, <1>3, <1>6, <1>8, <2>1
<1>17. /\ loads' = <<>> /\ home' = <<>> /\ place' = 0 /\ n + 1 = Len(open')
  BY <1>1, <1>2, <1>8
<1> QED BY <1>1, <1>2, <1>8, <1>9, <1>10, <1>11, <1>12, <1>13, <1>14, <1>15, <1>16, <1>17, OpenedTold

LEMMA SameSequence ==
  ASSUME NEW s, IsSeq(s), NEW t, IsSeq(t), Len(s) = Len(t), \A k \in 1 .. Len(s) : s[k] = t[k]
  PROVE  s = t
<1>1. PICK S : s \in Seq(S)
  BY DEF IsSeq
<1>2. PICK T : t \in Seq(T)
  BY DEF IsSeq
<1>3. s = [k \in 1 .. Len(s) |-> s[k]]
  BY <1>1
<1>4. t = [k \in 1 .. Len(t) |-> t[k]]
  BY <1>2
<1> QED BY <1>3, <1>4

LEMMA FrontOfAppend ==
  ASSUME NEW s, IsSeq(s), NEW x PROVE Front(Append(s, x)) = s
<1>1. PICK a : a = Append(s, x)
  OBVIOUS
<1>2. /\ IsSeq(a) /\ Len(a) = Len(s) + 1 /\ a # <<>> /\ Len(s) \in Nat
      /\ \A k \in 1 .. Len(s) : a[k] = s[k]
  BY <1>1, AppendFacts
<1>3. PICK f : f = Front(a)
  OBVIOUS
<1>4. IsSeq(f) /\ Len(f) = Len(a) - 1 /\ \A k \in 1 .. Len(a) - 1 : f[k] = a[k]
  BY <1>2, <1>3, FrontPrefix
<1>5. Len(a) - 1 = Len(s)
  BY <1>2
<1>6. Len(f) = Len(s) /\ \A k \in 1 .. Len(s) : f[k] = s[k]
  BY <1>2, <1>4, <1>5
<1>7. f = s
  BY <1>4, <1>6, SameSequence
<1> QED BY <1>1, <1>3, <1>7

(* A function is declared with its parameters, and is the last statement   *)
(* of the unit.                                                            *)
LEMMA OpeningFacts ==
  ASSUME NEW tab, NEW dep, Held(tab, dep), OpenFunction, IsSeq(unit)
  PROVE  /\ phase = "parse" /\ phase' = "parse" /\ item = <<>> /\ item' = <<>> /\ Len(open) = 1
         /\ UNCHANGED <<uses, blocks, loads, home, place>>
         /\ currentFunction' = Len(functions) + 1 /\ Len(functions') = Len(functions) + 1
         /\ Len(functions) \in Nat
         /\ \A f \in 1 .. Len(functions) : functions'[f] = functions[f]
         /\ Len(tables') = Len(tables) + 1
         /\ Len(open') = 2 /\ open'[1].kind = "global" /\ open'[2].kind = "function"
         /\ open'[1].block = open[1].block /\ open'[1].condition = open[1].condition
         /\ unit' # <<>> /\ Front(unit') = unit /\ IsSeq(unit')
         /\ Last(unit') = [kind |-> "function", function |-> Len(functions) + 1]
         /\ \E e, m : /\ e = Len(entries) + 1 /\ m \in Nat /\ tokens' = tokens + (1 + m)
                      /\ Len(entries') = e + m
                      /\ entries'[e].id = tokens /\ entries'[e].scope = "function"
                      /\ \A k \in 1 .. m : entries'[e + k].id = tokens + k
                      /\ functions'[Len(functions) + 1].entry = e
                      /\ Len(functions'[Len(functions) + 1].parameters) = m
                      /\ functions'[Len(functions) + 1].body = Null
<1> DEFINE number(parameters, p) == CHOOSE k \in DOMAIN parameters : parameters[k] = p
<1>1. /\ phase = "parse" /\ phase' = "parse" /\ item = <<>> /\ item' = <<>> /\ Len(open) = 1
      /\ UNCHANGED <<uses, loads, home, place>>
  BY DEF OpenFunction, generated
<1>a. PICK name \in FunctionNames, parameters \in ParameterLists :
        /\ Writes(1 + Len(parameters))
        /\ entries' = Append(entries, Entry(name, "function", tokens))
               \o [k \in DOMAIN parameters |->
                     Entry(parameters[k], "param", [i \in DOMAIN parameters |-> tokens + i][k])]
        /\ tables' = Append(Inserted(currentTable, name, Len(entries) + 1),
             [parent |-> currentTable,
              entries |-> [p \in ToSet(parameters) |-> Len(entries) + 1 + number(parameters, p)]])
        /\ functions' = Append(functions,
             [entry |-> Len(entries) + 1, table |-> Len(tables) + 1, parameters |-> parameters, body |-> Null])
        /\ AppendStatement([kind |-> "function", function |-> Len(functions) + 1], currentBlock)
        /\ currentFunction' = Len(functions) + 1
        /\ open' = <<WithName(Top, name, Declaration("function")),
             [Context("function", Null) EXCEPT
                !.declared = [p \in ToSet(parameters) |->
                   [kind |-> "variable",
                    id |-> [i \in DOMAIN parameters |-> tokens + i][number(parameters, p)]]]]>>
  BY DEF OpenFunction
<1>2. PICK two, d1, d2, declared :
        /\ tables' = Append(Inserted(currentTable, name, Len(entries) + 1), two)
        /\ d1 = WithName(Top, name, Declaration("function"))
        /\ d2 = [Context("function", Null) EXCEPT !.declared = declared]
        /\ open' = <<d1, d2>>
  BY <1>a
<1>3. /\ Containers /\ Shape(open) /\ tokens \in Nat \ {0} /\ EntriesFit /\ Len(entries) \in Nat
      /\ currentTable \in 1 .. Len(tables) /\ Len(tables) \in Nat \ {0}
      /\ Top = open[1] /\ 1 \in 1 .. Len(open)
  BY <1>1, HeldFacts
<1>4. Len(parameters) \in Nat /\ DOMAIN parameters = 1 .. Len(parameters) /\ parameters \in Seq(Names)
  <2>1. parameters \in Seq(Names)
    BY ScopesAssumption
  <2> QED BY <2>1
<1>5. PICK e, m : e = Len(entries) + 1 /\ m = Len(parameters)
  OBVIOUS
<1> HIDE DEF number
<1>6. tokens' = tokens + (1 + m)
  BY <1>a, <1>5 DEF Writes
<1>7. /\ Len(entries') = e + m
      /\ entries'[e] = Entry(name, "function", tokens)
      /\ \A k \in 1 .. m : entries'[e + k] = Entry(parameters[k], "param", tokens + k)
  <2>1. \A k \in DOMAIN parameters : [i \in DOMAIN parameters |-> tokens + i][k] = tokens + k
    OBVIOUS
  <2>2. [k \in DOMAIN parameters |-> Entry(parameters[k], "param", [i \in DOMAIN parameters |-> tokens + i][k])]
        = [k \in DOMAIN parameters |-> Entry(parameters[k], "param", tokens + k)]
    BY <2>1
  <2>3. entries' = Append(entries, Entry(name, "function", tokens))
                     \o [k \in DOMAIN parameters |-> Entry(parameters[k], "param", tokens + k)]
    BY <1>a, <2>2
  <2>4. IsSeq(parameters)
    BY <1>4 DEF IsSeq
  <2>5. tokens' = tokens + (1 + Len(parameters))
    BY <1>5, <1>6
  <2>6. /\ Len(entries') = Len(entries) + 1 + Len(parameters)
        /\ entries'[Len(entries) + 1] = Entry(name, "function", tokens)
        /\ \A k \in 1 .. Len(parameters) :
             entries'[Len(entries) + 1 + k] = Entry(parameters[k], "param", tokens + k)
    BY <1>3, <2>3, <2>4, <2>5, FunctionEntries
  <2> QED BY <1>5, <2>6
<1>8. PICK ins : /\ ins = Inserted(currentTable, name, e) /\ tables' = Append(ins, two)
                 /\ WithEntry(tables, currentTable, name, e, ins)
  BY <1>2, <1>3, <1>5, InsertedFacts
<1>9. Len(tables') = Len(tables) + 1
  BY <1>8, AppendFacts DEF WithEntry
<1>10. /\ Len(functions') = Len(functions) + 1 /\ Len(functions) \in Nat
       /\ \A f \in 1 .. Len(functions) : functions'[f] = functions[f]
       /\ functions'[Len(functions) + 1] =
            [entry |-> e, table |-> Len(tables) + 1, parameters |-> parameters, body |-> Null]
  BY <1>a, <1>3, <1>5, AppendFacts DEF Containers
<1>11. UNCHANGED blocks /\ unit' = Append(unit, [kind |-> "function", function |-> Len(functions) + 1])
  <2>1. currentFunction = Null
    BY <1>1 DEF Held, Placed, Standing
  <2> QED BY <1>a, <2>1 DEF AppendStatement
<1>12. Len(open') = 2 /\ open'[1] = d1 /\ open'[2] = d2
  BY <1>2, SequenceOfTwo
<1>13. d1.kind = "global" /\ d1.block = open[1].block /\ d1.condition = open[1].condition
  <2>1. PICK c : c = Top /\ IsContext(c) /\ c.kind = "global"
    BY <1>3 DEF Shape
  <2>2. d1 = WithName(c, name, Declaration("function")) /\ c = open[1]
    BY <1>2, <1>3, <2>1
  <2>3. d1.kind = c.kind /\ d1.block = c.block /\ d1.condition = c.condition
    BY <2>1, <2>2 DEF WithName, IsContext
  <2> QED BY <2>1, <2>2, <2>3
<1>14. d2.kind = "function"
  BY <1>2 DEF Context
<1>15. /\ unit' # <<>> /\ Front(unit') = unit /\ IsSeq(unit')
       /\ Last(unit') = [kind |-> "function", function |-> Len(functions) + 1]
  BY <1>11, AppendFacts, FrontOfAppend
<1>16. entries'[e].id = tokens /\ entries'[e].scope = "function" /\ \A k \in 1 .. m : entries'[e + k].id = tokens + k
  <2>1. entries'[e].id = tokens /\ entries'[e].scope = "function"
    BY <1>7 DEF Entry
  <2>2. ASSUME NEW k \in 1 .. m PROVE entries'[e + k].id = tokens + k
    <3>1. PICK x, y, i : x = entries'[e + k] /\ y = parameters[k] /\ i = tokens + k
      OBVIOUS
    <3>2. x = Entry(y, "param", i)
      BY <1>7, <3>1
    <3>3. x.id = i
      BY <3>2 DEF Entry
    <3> QED BY <3>1, <3>3
  <2> QED BY <2>1, <2>2
<1>17. /\ functions'[Len(functions) + 1].entry = e /\ Len(functions'[Len(functions) + 1].parameters) = m
       /\ functions'[Len(functions) + 1].body = Null
  BY <1>5, <1>10
<1>18. m \in Nat
  BY <1>4, <1>5
<1>19. \E e2, m2 :
         /\ e2 = Len(entries) + 1 /\ m2 \in Nat /\ tokens' = tokens + (1 + m2)
         /\ Len(entries') = e2 + m2
         /\ entries'[e2].id = tokens /\ entries'[e2].scope = "function"
         /\ \A k \in 1 .. m2 : entries'[e2 + k].id = tokens + k
         /\ functions'[Len(functions) + 1].entry = e2
         /\ Len(functions'[Len(functions) + 1].parameters) = m2
         /\ functions'[Len(functions) + 1].body = Null
  <2>1. e = Len(entries) + 1 /\ m \in Nat /\ tokens' = tokens + (1 + m) /\ Len(entries') = e + m
    BY <1>5, <1>6, <1>7, <1>18
  <2> QED BY <1>16, <1>17, <2>1
<1>20. open'[1].kind = "global" /\ open'[2].kind = "function"
       /\ open'[1].block = open[1].block /\ open'[1].condition = open[1].condition
  BY <1>12, <1>13, <1>14
<1>21. currentFunction' = Len(functions) + 1
  BY <1>a
<1> QED BY <1>1, <1>9, <1>10, <1>11, <1>12, <1>15, <1>19, <1>20, <1>21

LEMMA OpenFunctionTold ==
  ASSUME NEW tab, NEW dep, Held(tab, dep), Told, OpenFunction PROVE Told'
<1>1. phase = "parse" /\ Bodies
  BY ToldFacts DEF OpenFunction
<1>2. /\ phase' = "parse" /\ item = <<>> /\ item' = <<>> /\ Len(open) = 1
      /\ UNCHANGED <<uses, blocks, loads, home, place>>
      /\ currentFunction' = Len(functions) + 1 /\ Len(functions') = Len(functions) + 1
      /\ Len(functions) \in Nat
      /\ \A f \in 1 .. Len(functions) : functions'[f] = functions[f]
      /\ Len(tables') = Len(tables) + 1
      /\ Len(open') = 2 /\ open'[1].kind = "global" /\ open'[2].kind = "function"
      /\ open'[1].block = open[1].block /\ open'[1].condition = open[1].condition
      /\ unit' # <<>> /\ Front(unit') = unit /\ IsSeq(unit')
      /\ Last(unit') = [kind |-> "function", function |-> Len(functions) + 1]
  BY <1>1, OpeningFacts DEF Bodies
<1>3. PICK e, m : /\ e = Len(entries) + 1 /\ m \in Nat /\ tokens' = tokens + (1 + m)
                  /\ Len(entries') = e + m
                  /\ entries'[e].id = tokens /\ entries'[e].scope = "function"
                  /\ \A k \in 1 .. m : entries'[e + k].id = tokens + k
                  /\ functions'[Len(functions) + 1].entry = e
                  /\ Len(functions'[Len(functions) + 1].parameters) = m
                  /\ functions'[Len(functions) + 1].body = Null
  BY <1>1, OpeningFacts DEF Bodies
<1>4. /\ Len(entries) \in Nat /\ tokens \in Nat \ {0} /\ Len(tables) \in Nat /\ PlacesFit
      /\ open[1].kind = "global"
  BY <1>2, HeldFacts, PlacesFits DEF Shape
<1>5. EntriesKept /\ NamesStay
  BY OpenFunctionHeld DEF StillHeld
<1>6. PICK n : n = tokens /\ n \in Nat \ {0}
  BY <1>4
<1>7. /\ Ids' = Ids \cup n .. n + m /\ Ids \subseteq 1 .. n - 1
      /\ \A x \in Ids', y \in Ids : x \in Ids \/ y <= x
  <2>1. Ids = {entries[k].id : k \in 1 .. Len(entries)} \ {Null}
        /\ Ids' = {entries'[k].id : k \in 1 .. Len(entries')} \ {Null}
    BY <1>2 DEF Ids, PendingName, NoItem
  <2>2. \A k \in 1 .. Len(entries) : k \in 1 .. Len(entries') /\ entries'[k].id = entries[k].id
    BY <1>4, <1>5, EntriesStillThere
  <2>3. /\ \A k \in 1 .. Len(entries') : k \in 1 .. Len(entries) \/ k = e \/ \E i \in 1 .. m : k = e + i
        /\ e \in 1 .. Len(entries') /\ \A i \in 1 .. m : e + i \in 1 .. Len(entries')
    <3>1. \A a \in Nat : \A k \in 1 .. a + 1 + m :
             k \in 1 .. a \/ k = a + 1 \/ (k - (a + 1) \in 1 .. m /\ k = a + 1 + (k - (a + 1)))
      BY <1>3
    <3>2. \A a \in Nat : a + 1 \in 1 .. a + 1 + m /\ \A i \in 1 .. m : a + 1 + i \in 1 .. a + 1 + m
      BY <1>3
    <3>3. PICK a : a = Len(entries) /\ a \in Nat /\ e = a + 1 /\ Len(entries') = a + 1 + m
      BY <1>3, <1>4
    <3>4. \A k \in 1 .. Len(entries') : k \in 1 .. a \/ k = e \/ \E i \in 1 .. m : k = e + i
      BY <3>1, <3>3
    <3> QED BY <3>2, <3>3, <3>4
  <2>4. \A x \in n .. n + m : x # Null /\ (x = n \/ \E i \in 1 .. m : x = n + i)
    <3>1. \A x \in n .. n + m : x # 0 /\ (x = n \/ (x - n \in 1 .. m /\ x = n + (x - n)))
      BY <1>3, <1>6
    <3> QED BY <3>1 DEF Null
  <2>5. n \in n .. n + m /\ \A i \in 1 .. m : n + i \in n .. n + m
    BY <1>3, <1>6
  <2>6. entries'[e].id = n /\ \A i \in 1 .. m : entries'[e + i].id = n + i
    BY <1>3, <1>6
  <2>7. Ids \subseteq Ids'
    BY <2>1, <2>2
  <2>8. n .. n + m \subseteq Ids'
    <3> SUFFICES ASSUME NEW x \in n .. n + m PROVE x \in Ids'
      OBVIOUS
    <3>1. CASE x = n
      BY <2>1, <2>3, <2>4, <2>6, <3>1
    <3>2. CASE x # n
      <4>1. PICK i \in 1 .. m : x = n + i
        BY <2>4, <3>2
      <4> QED BY <2>1, <2>3, <2>4, <2>6, <4>1
    <3> QED BY <3>1, <3>2
  <2>9. Ids' \subseteq Ids \cup n .. n + m
    <3> SUFFICES ASSUME NEW k \in 1 .. Len(entries'), entries'[k].id # Null
                 PROVE  entries'[k].id \in Ids \cup n .. n + m
      BY <2>1
    <3>1. CASE k \in 1 .. Len(entries)
      BY <2>1, <2>2, <3>1
    <3>2. CASE k = e
      BY <2>5, <2>6, <3>2
    <3>3. CASE \E i \in 1 .. m : k = e + i
      BY <2>5, <2>6, <3>3
    <3> QED BY <2>3, <3>1, <3>2, <3>3
  <2>10. Ids \subseteq 1 .. n - 1
    BY <1>6, IdsFit
  <2>11. \A x \in n .. n + m : \A y \in 1 .. n - 1 : y <= x
    BY <1>3, <1>6
  <2>12. Ids' = Ids \cup n .. n + m
    BY <2>7, <2>8, <2>9
  <2> QED BY <2>10, <2>11, <2>12
<1>8. \A f \in 1 .. Closed : f \in 1 .. Closed' /\ functions'[f] = functions[f]
  <2>1. Closed = Len(functions) /\ Closed' = Len(functions') - 1
    BY <1>2 DEF Closed
  <2>2. Closed' = Closed
    BY <1>2, <2>1
  <2> QED BY <1>2, <2>1, <2>2
<1>9. PICK w, start, now, w2 :
        /\ w = World(w.spans) /\ SpansFit(w) /\ Bodies /\ loads = <<>> /\ home = <<>> /\ place = 0
        /\ Written(w, start, now)
        /\ w2 = World(w2.spans)' /\ w2.spans = w.spans /\ w2.declared = Ids' /\ Extends(w, w2)
        /\ now \in Position /\ now[1] = Len(uses) /\ now[2] < tokens /\ now[2] \in Nat
        /\ \A x \in Ids : x <= now[2]
        /\ ReductionAt(w, start[Len(open) + 1], now) /\ start[Len(open) + 1] \in Position
  <2>1. Len(tables') \in Nat /\ Len(tables') >= Len(tables)
    <3>1. Len(tables') = Len(tables) + 1
      BY <1>2
    <3>2. \A k \in Nat : k + 1 \in Nat /\ k + 1 >= k
      OBVIOUS
    <3> QED BY <1>4, <3>1, <3>2
  <2>2. uses' = uses /\ Ids \subseteq Ids'
    BY <1>2, <1>7
  <2> QED BY <1>1, <1>5, <1>7, <1>8, <2>1, <2>2, WorldStep
<1>10. /\ start \in [1 .. 1 + 1 -> Position] /\ start[1] = <<0, 0>> /\ start[1 + 1] = now
       /\ ContentAt(w, 1, start[1], start[1 + 1])
  <2>1. Len(open) = 1 /\ 1 \in 1 .. Len(open)
    BY <1>2
  <2>2. ReductionAt(w, start[1 + 1], now)
    BY <1>9, <2>1
  <2>3. start[1 + 1] = now
    BY <1>2, <2>2 DEF ReductionAt
  <2> QED BY <1>9, <2>1, <2>3 DEF Written
<1>11. PICK now2 : now2 = <<now[1], n + m>>
  OBVIOUS
<1>12. /\ now2 \in Position /\ now2[1] = Len(uses') /\ now2[2] < tokens'
       /\ Declares(w2, now, now2, n, n + m) /\ \A x \in w2.declared : x <= now2[2]
  <2>1. now[2] < n /\ w2.declared = Ids \cup n .. n + m /\ Ids \subseteq 1 .. n - 1
        /\ \A x \in Ids : x <= now[2]
    BY <1>6, <1>7, <1>9
  <2>2. /\ <<now[1], n + m>> \in Position /\ Declares(w2, now, <<now[1], n + m>>, n, n + m)
        /\ \A x \in w2.declared : x <= n + m
    <3>1. now \in Position /\ m \in Nat /\ n \in Nat \ {0}
      BY <1>3, <1>6, <1>9
    <3>2. PICK ids : ids = Ids
      OBVIOUS
    <3>3. now[2] < n /\ w2.declared = ids \cup n .. n + m /\ ids \subseteq 1 .. n - 1
          /\ \A x \in ids : x <= now[2]
      BY <2>1, <3>2
    <3> HIDE <1>1, <1>2, <1>3, <1>4, <1>5, <1>6, <1>7, <1>8, <1>9, <1>10, <1>11, <2>1
    <3> QED BY <3>1, <3>3, NewlyDeclared
  <2>3. now2[1] = now[1] /\ now2[2] = n + m
    BY <1>11
  <2>4. n + m < n + (1 + m)
    BY <1>3, <1>6
  <2> QED BY <1>2, <1>3, <1>6, <1>9, <1>11, <2>2, <2>3, <2>4
<1>13. ContentAt(w2, 1, start[1], start[1 + 1])'
  <2>1. PICK lo, hi : lo = start[1] /\ hi = start[1 + 1]
    OBVIOUS
  <2>2. ContentAt(w, 1, lo, hi)
    BY <1>10, <2>1
  <2>3. (IF Len(open') = 1 THEN unit' ELSE Front(unit')) = (IF Len(open) = 1 THEN unit ELSE Front(unit))
    BY <1>2
  <2>4. PICK k : k = 1
    OBVIOUS
  <2>5. open'[k].kind = open[k].kind /\ open[k].kind = "global" /\ open'[k].block = open[k].block
        /\ open'[k].condition = open[k].condition
    BY <1>2, <1>4, <2>4
  <2>6. ContentAt(w2, k, lo, hi)'
    BY <1>9, <2>2, <2>3, <2>4, <2>5, ContentKept
  <2> QED BY <2>1, <2>4, <2>6
<1>14. PICK two : two = 1 + 1 /\ two = 2
  OBVIOUS
<1>15. ContentAt(w2, two, now, now2)'
  <2>1. PICK f : f = functions'[Len(functions) + 1]
    OBVIOUS
  <2>2. f.entry = e /\ Len(f.parameters) = m
    BY <1>3, <2>1
  <2>3. <<e, n, "function">> \in w2.symbols
    <3>1. e \in 1 .. Len(entries')
      BY <1>3, <1>4
    <3>2. PICK spans : spans = w2.spans
      OBVIOUS
    <3>3. w2 = World(spans)'
      BY <1>9, <3>2
    <3> QED BY <1>3, <1>6, <3>1, <3>3 DEF World
  <2>4. HeadAt(w2, f, now, now2)
    BY <1>12, <2>2, <2>3 DEF HeadAt
  <2>5. functions'[currentFunction'] = f
    BY <1>2, <2>1
  <2>6. open'[two].kind = "function" /\ two # 1
    BY <1>2, <1>14
  <2> QED BY <2>4, <2>5, <2>6 DEF ContentAt
<1>16. SpansFit(w2)'
  <2>1. \A s \in w.spans : s[1] \in 1 .. Len(blocks') /\ blocks'[s[1]] = blocks[s[1]]
    BY <1>2, <1>9 DEF SpansFit
  <2>2. \A k \in 1 .. Len(open') : open'[k].kind # "block"
    <3>1. \A k \in 1 .. 2 : k = 1 \/ k = 2
      OBVIOUS
    <3> QED BY <1>2, <3>1
  <2> QED BY <1>9, <2>1, <2>2, SpansKept
<1>17. Bodies'
  BY <1>2, <1>3, <1>9 DEF Bodies
<1>18. loads' = <<>> /\ home' = <<>> /\ place' = 0
  BY <1>2, <1>9
<1>19. \A k \in 1 .. 1 : ContentAt(w2, k, start[k], start[k + 1])'
  <2>1. \A k \in 1 .. 1 : k = 1
    OBVIOUS
  <2> QED BY <1>13, <2>1
<1>20. PICK one : one = 1
  OBVIOUS
<1>21. one \in Nat \ {0} /\ one + 1 = Len(open') /\ two = one + 1
  BY <1>2, <1>14, <1>20
<1>22. /\ start \in [1 .. one + 1 -> Position] /\ now = start[one + 1]
       /\ \A k \in 1 .. one : ContentAt(w2, k, start[k], start[k + 1])'
  BY <1>10, <1>19, <1>20
<1> QED BY <1>2, <1>9, <1>10, <1>12, <1>15, <1>16, <1>17, <1>18, <1>21, <1>22, OpenedTold

(* A statement that ends is the statement of the ifs around it. *)
Wrapped(statement, contexts) ==
  IF Conditions(contexts) = <<>> THEN statement
  ELSE [kind |-> "if", conditions |-> Conditions(contexts), then |-> statement]

LEMMA ConditionsFacts ==
  ASSUME NEW contexts, Shape(contexts), NEW c, c = Len(contexts), NEW o, o = Outside(contexts)
  PROVE  /\ o \in 1 .. c /\ c \in Nat \ {0} /\ c - o \in Nat
         /\ IsSeq(Conditions(contexts)) /\ Len(Conditions(contexts)) = c - o
         /\ \A j \in 1 .. c - o : Conditions(contexts)[j] = contexts[o + j].condition
<1>1. o \in 1 .. c /\ c \in Nat \ {0} /\ c - o \in Nat
  <2>1. o \in 1 .. c /\ c \in Nat \ {0}
    BY OutsideFacts DEF Shape
  <2> QED BY <2>1
<1>2. PICK m : m = c - o /\ m \in Nat
  BY <1>1
<1> DEFINE s == [j \in 1 .. m |-> contexts[o + j].condition]
           T == {contexts[o + j].condition : j \in 1 .. m}
<1>3. Conditions(contexts) = s
  BY <1>2 DEF Conditions
<1>4. s \in [1 .. m -> T] /\ \A j \in 1 .. m : s[j] = contexts[o + j].condition
  OBVIOUS
<1> HIDE DEF s, T
<1>5. s \in Seq(T) /\ Len(s) = m
  BY <1>2, <1>4
<1> QED BY <1>1, <1>2, <1>3, <1>4, <1>5 DEF IsSeq

LEMMA StatementItem ==
  ASSUME NEW contexts, Shape(contexts), NEW c, c = Len(contexts), NEW o, o = Outside(contexts),
         NEW w, NEW start \in [1 .. c + 1 -> Position],
         \A k \in o + 1 .. c : NodesAt(w, contexts[k].condition, start[k], start[k + 1]),
         NEW t, NEW statement, NEW now, SimpleAt(w, t, statement, start[c + 1], now)
  PROVE  ItemAt(w, t, Wrapped(statement, contexts), start[o + 1], now)
<1>1. /\ o \in 1 .. c /\ c \in Nat \ {0} /\ c - o \in Nat
      /\ IsSeq(Conditions(contexts)) /\ Len(Conditions(contexts)) = c - o
      /\ \A j \in 1 .. c - o : Conditions(contexts)[j] = contexts[o + j].condition
  BY ConditionsFacts
<1>2. PICK conditions, m : conditions = Conditions(contexts) /\ m = c - o
  OBVIOUS
<1>3. CASE m = 0
  <2>1. conditions = <<>> /\ o + 1 = c + 1
    BY <1>1, <1>2, <1>3 DEF IsSeq
  <2> QED BY <1>2, <2>1 DEF Wrapped, ItemAt
<1>4. CASE m # 0
  <2>1. conditions # <<>>
    BY <1>1, <1>2, <1>4, NothingIsSeq
  <2>2. Wrapped(statement, contexts) = [kind |-> "if", conditions |-> conditions, then |-> statement]
    BY <1>2, <2>1 DEF Wrapped
  <2>3. PICK pos : pos = [j \in 0 .. m |-> start[o + 1 + j]]
    OBVIOUS
  <2>4. /\ \A j \in 0 .. m : o + 1 + j \in 1 .. c + 1
        /\ 0 \in 0 .. m /\ m \in 0 .. m /\ o + 1 + 0 = o + 1 /\ o + 1 + m = c + 1
    <3>1. o \in Nat /\ c \in Nat /\ 1 <= o /\ m \in Nat /\ c = o + m
      BY <1>1, <1>2
    <3> HIDE <1>1, <1>2, <1>4
    <3>2. \A j \in 0 .. m : o + 1 + j \in 1 .. o + m + 1
      BY <3>1
    <3> QED BY <3>1, <3>2
  <2>5. pos \in [0 .. m -> Position] /\ pos[0] = start[o + 1] /\ pos[m] = start[c + 1]
    BY <2>3, <2>4
  <2>6. PICK steps : steps = [k \in 1 .. m |-> NodesStep(w, conditions[k])]
    OBVIOUS
  <2>7. ASSUME NEW j \in 1 .. m PROVE <<pos[j - 1], pos[j]>> \in steps[j]
    <3>1. j - 1 \in 0 .. m /\ j \in 0 .. m /\ o + j \in o + 1 .. c /\ o + 1 + (j - 1) = o + j
          /\ o + 1 + j = o + j + 1
      BY <1>1, <1>2
    <3>2. pos[j - 1] = start[o + j] /\ pos[j] = start[o + j + 1]
      BY <2>3, <3>1
    <3>3. conditions[j] = contexts[o + j].condition
      BY <1>1, <1>2
    <3>4. NodesAt(w, conditions[j], pos[j - 1], pos[j])
      BY <3>1, <3>2, <3>3
    <3>5. pos[j - 1] \in Position /\ pos[j] \in Position
      BY <2>5, <3>1
    <3>6. <<pos[j - 1], pos[j]>> \in NodesStep(w, conditions[j])
      BY <3>4, <3>5 DEF NodesStep
    <3> QED BY <2>6, <3>6
  <2>8. IsPath(pos, steps, m, start[o + 1], start[c + 1])
    BY <2>5, <2>7 DEF IsPath
  <2>9. ConditionsAt(w, conditions, start[o + 1], start[c + 1])
    BY <1>1, <1>2, <2>6, <2>8 DEF ConditionsAt, Path
  <2>10. start[c + 1] \in Position
    BY <2>4
  <2>11. IfAt(w, t, [kind |-> "if", conditions |-> conditions, then |-> statement], start[o + 1], now)
    BY <2>1, <2>9, <2>10 DEF IfAt
  <2> QED BY <2>2, <2>11 DEF ItemAt
<1> QED BY <1>3, <1>4

(* Where a statement ends that is in the first c contexts. *)
Inside(contexts, c, o) ==
  /\ Shape(contexts) /\ c \in 1 .. Len(open) /\ c = Len(contexts)
  /\ \A k \in 1 .. c : contexts[k] = open[k]
  /\ o = Outside(contexts) /\ contexts[c].kind # "function" /\ (c = 1 => Len(open) = 1)

LEMMA InsideFacts ==
  ASSUME PlacesFit, NEW contexts, NEW c, NEW o, Inside(contexts, c, o)
  PROVE  /\ o \in 1 .. c /\ c \in Nat \ {0} /\ o \in 1 .. Len(open) /\ o \in Nat \ {0} /\ Len(open) \in Nat \ {0}
         /\ \A k \in 1 .. o : k \in 1 .. c /\ k \in 1 .. Len(open)
         /\ \A j \in o + 1 .. c : open[j].kind = "if"
         /\ o = 1 => Len(open) = 1
         /\ o # 1 => open[o].kind = "block" /\ o > 2 /\ Len(open) > 2
<1>1. /\ Shape(contexts) /\ c \in 1 .. Len(open) /\ c = Len(contexts)
      /\ \A k \in 1 .. c : contexts[k] = open[k]
      /\ o = Outside(contexts) /\ contexts[c].kind # "function" /\ (c = 1 => Len(open) = 1)
  BY DEF Inside
<1>2. /\ o \in 1 .. c /\ contexts[o].kind # "if" /\ \A j \in o + 1 .. c : contexts[j].kind = "if"
  BY <1>1, OutsideFacts
<1>3. /\ c \in Nat \ {0} /\ Len(open) \in Nat \ {0} /\ Shape(open)
  BY <1>1 DEF PlacesFit, Shape
<1>4. /\ \A k \in 1 .. c : /\ contexts[k].kind \in {"global", "function", "block", "if"}
                           /\ contexts[k].kind = "global" <=> k = 1
                           /\ contexts[k].kind = "function" <=> k = 2
                           /\ k = 3 => contexts[k].kind = "block"
  BY <1>1 DEF Shape
<1>5. o \in Nat \ {0} /\ o \in 1 .. Len(open) /\ \A k \in 1 .. o : k \in 1 .. c /\ k \in 1 .. Len(open)
  <2>1. c <= Len(open) /\ o <= c /\ o \in Nat \ {0}
    BY <1>1, <1>2, <1>3
  <2> HIDE <1>1, <1>2, <1>4
  <2> QED BY <1>3, <2>1
<1>6. \A j \in o + 1 .. c : open[j].kind = "if"
  <2>1. \A j \in o + 1 .. c : j \in 1 .. c
    BY <1>3, <1>5
  <2> QED BY <1>1, <1>2, <2>1
<1>7. o = 1 => c = 1
  <2>1. o = 1 /\ c # 1 => 2 \in o + 1 .. c /\ 2 \in 1 .. c
    BY <1>3
  <2> QED BY <1>2, <1>4, <2>1
<1>8. o # 2
  <2>1. SUFFICES ASSUME o = 2 PROVE FALSE
    OBVIOUS
  <2>2. c # 2
    BY <1>1, <1>2, <1>4, <2>1
  <2>3. 3 \in o + 1 .. c /\ 3 \in 1 .. c
    <3>1. c >= 2
      BY <1>2, <1>3, <2>1
    <3> HIDE <1>1, <1>2, <1>4
    <3> QED BY <1>3, <2>1, <2>2, <3>1
  <2> QED BY <1>2, <1>4, <2>3
<1>9. ASSUME o # 1 PROVE open[o].kind = "block" /\ o > 2 /\ Len(open) > 2
  <2>1. contexts[o].kind = "block" /\ contexts[o] = open[o]
    BY <1>1, <1>2, <1>4, <1>8, <1>9
  <2>2. o > 2
    BY <1>5, <1>8, <1>9
  <2>3. o <= Len(open)
    BY <1>3, <1>5
  <2>4. \A x, y \in Nat : x > 2 /\ x <= y => y > 2
    OBVIOUS
  <2> QED BY <1>3, <1>5, <2>1, <2>2, <2>3, <2>4
<1> QED BY <1>1, <1>2, <1>3, <1>5, <1>6, <1>7, <1>9

(* What is left of the contexts, and the statement itself.                 *)
LEMMA EndedFacts ==
  ASSUME PlacesFit, NEW contexts, NEW c, NEW o, Inside(contexts, c, o),
         NEW w, NEW w2, Extends(w, w2), NEW start, NEW now, Written(w, start, now),
         NEW statement, NEW block, EndStatement(statement, contexts, block),
         NEW t, SimpleAt(w2, t, statement, start[c + 1], now)
  PROVE  /\ IsSeq(open') /\ Len(open') = o /\ \A k \in 1 .. o : open'[k] = open[k]
         /\ AppendStatement(Wrapped(statement, contexts), block)
         /\ \A k \in 1 .. o + 1 : start[k] \in Position
         /\ start[1] = <<0, 0>> /\ now \in Position /\ now[1] = Len(uses)
         /\ \A k \in 1 .. o : ContentAt(w, k, start[k], start[k + 1])
         /\ ItemAt(w2, t, Wrapped(statement, contexts), start[o + 1], now)
<1>1. /\ o \in 1 .. c /\ c \in Nat \ {0} /\ o \in 1 .. Len(open) /\ o \in Nat \ {0} /\ Len(open) \in Nat \ {0}
      /\ \A k \in 1 .. o : k \in 1 .. c /\ k \in 1 .. Len(open)
      /\ \A j \in o + 1 .. c : open[j].kind = "if"
  BY InsideFacts
<1>2. /\ Shape(contexts) /\ c \in 1 .. Len(open) /\ c = Len(contexts)
      /\ \A k \in 1 .. c : contexts[k] = open[k]
      /\ o = Outside(contexts)
  BY <1>1 DEF Inside
<1>3. /\ start \in [1 .. Len(open) + 1 -> Position] /\ start[1] = <<0, 0>>
      /\ now \in Position /\ now[1] = Len(uses)
      /\ \A k \in 1 .. Len(open) : ContentAt(w, k, start[k], start[k + 1])
  BY DEF Written
<1>4. /\ \A k \in 1 .. c + 1 : k \in 1 .. Len(open) + 1
      /\ \A k \in 1 .. o + 1 : k \in 1 .. Len(open) + 1
      /\ \A k \in o + 1 .. c : k \in 1 .. c /\ k \in 1 .. Len(open) /\ k \in 1 .. c + 1 /\ k + 1 \in 1 .. c + 1
      /\ o + 1 \in 1 .. c + 1 /\ c + 1 \in 1 .. c + 1
  <2>1. o <= c /\ c <= Len(open) /\ o >= 1
    BY <1>1, <1>2
  <2>2. o \in Nat /\ c \in Nat /\ Len(open) \in Nat
    BY <1>1
  <2> HIDE <1>1, <1>2, <1>3
  <2> QED BY <2>1, <2>2
<1>5. /\ IsSeq(open') /\ Len(open') = o /\ \A k \in 1 .. o : open'[k] = open[k]
  <2>1. open' = SubSeq(contexts, 1, o) /\ IsSeq(contexts) /\ o \in 0 .. Len(contexts)
    BY <1>1, <1>2, UpTo DEF EndStatement, Shape
  <2>2. IsSeq(open') /\ Len(open') = o /\ \A k \in 1 .. o : open'[k] = contexts[k]
    BY <2>1, PrefixFacts
  <2> QED BY <1>1, <1>2, <2>2
<1>6. PICK st : st = [k \in 1 .. c + 1 |-> start[k]]
  OBVIOUS
<1>7. st \in [1 .. c + 1 -> Position] /\ \A k \in 1 .. c + 1 : st[k] = start[k]
  BY <1>3, <1>4, <1>6
<1>8. ASSUME NEW k \in o + 1 .. c PROVE NodesAt(w2, contexts[k].condition, st[k], st[k + 1])
  <2>1. st[k] = start[k] /\ st[k + 1] = start[k + 1] /\ contexts[k] = open[k] /\ open[k].kind = "if"
    BY <1>1, <1>2, <1>4, <1>7
  <2>2. NodesAt(w, open[k].condition, start[k], start[k + 1])
    BY <1>3, <1>4, <2>1 DEF ContentAt
  <2>3. NodesAt(w2, open[k].condition, start[k], start[k + 1])
    BY <2>2, NodesKept
  <2> QED BY <2>1, <2>3
<1>9. ItemAt(w2, t, Wrapped(statement, contexts), start[o + 1], now)
  <2>1. st[c + 1] = start[c + 1] /\ st[o + 1] = start[o + 1]
    BY <1>4, <1>7
  <2>2. SimpleAt(w2, t, statement, st[c + 1], now)
    BY <2>1
  <2>3. ItemAt(w2, t, Wrapped(statement, contexts), st[o + 1], now)
    BY <1>2, <1>7, <1>8, <2>2, StatementItem
  <2> QED BY <2>1, <2>3
<1>10. AppendStatement(Wrapped(statement, contexts), block)
  BY DEF EndStatement, Wrapped
<1> QED BY <1>1, <1>3, <1>4, <1>5, <1>9, <1>10

(* A statement of a block, and what remains open is what was around it.    *)
LEMMA BlockStatementTold ==
  ASSUME PlacesFit, NEW contexts, NEW c, NEW o, Inside(contexts, c, o), o # 1,
         NEW w, NEW w2, Extends(w, w2), w2 = World(w2.spans)', Bodies,
         NEW start, NEW now, Written(w, start, now),
         NEW statement, NEW block, EndStatement(statement, contexts, block), block = open[o].block,
         \A s \in w2.spans :
           /\ s[1] \in 1 .. Len(blocks)
           /\ ListAt(w2, blocks[s[1]].table, blocks[s[1]].statements, s[2], s[3])
           /\ \A k \in 1 .. c : open[k].kind = "block" => open[k].block # s[1],
         SimpleAt(w2, blocks[block].table, statement, start[c + 1], now),
         loads' = <<>>, home' = <<>>, place' = 0, phase' = "parse", item' = <<>>,
         UNCHANGED <<uses, functions, currentFunction>>,
         now[2] < tokens', \A x \in w2.declared : x <= now[2]
  PROVE  Told'
<1>1. /\ o \in 1 .. c /\ c \in Nat \ {0} /\ o \in 1 .. Len(open) /\ o \in Nat \ {0} /\ Len(open) \in Nat \ {0}
      /\ \A k \in 1 .. o : k \in 1 .. c /\ k \in 1 .. Len(open)
      /\ open[o].kind = "block" /\ o > 2 /\ Len(open) > 2
  BY InsideFacts
<1>2. PICK t, s : t = blocks[block].table /\ s = Wrapped(statement, contexts)
  OBVIOUS
<1>3. /\ IsSeq(open') /\ Len(open') = o /\ \A k \in 1 .. o : open'[k] = open[k]
      /\ AppendStatement(s, block)
      /\ \A k \in 1 .. o + 1 : start[k] \in Position
      /\ start[1] = <<0, 0>> /\ now \in Position /\ now[1] = Len(uses)
      /\ \A k \in 1 .. o : ContentAt(w, k, start[k], start[k + 1])
      /\ ItemAt(w2, t, s, start[o + 1], now)
  <2>1. SimpleAt(w2, t, statement, start[c + 1], now)
    BY <1>2
  <2>2. PICK u : u = Wrapped(statement, contexts)
    OBVIOUS
  <2>3. /\ IsSeq(open') /\ Len(open') = o /\ \A k \in 1 .. o : open'[k] = open[k]
        /\ AppendStatement(u, block)
        /\ \A k \in 1 .. o + 1 : start[k] \in Position
        /\ start[1] = <<0, 0>> /\ now \in Position /\ now[1] = Len(uses)
        /\ \A k \in 1 .. o : ContentAt(w, k, start[k], start[k + 1])
        /\ ItemAt(w2, t, u, start[o + 1], now)
    <3>1. /\ IsSeq(open') /\ Len(open') = o /\ \A k \in 1 .. o : open'[k] = open[k]
          /\ AppendStatement(Wrapped(statement, contexts), block)
          /\ \A k \in 1 .. o + 1 : start[k] \in Position
          /\ start[1] = <<0, 0>> /\ now \in Position /\ now[1] = Len(uses)
          /\ \A k \in 1 .. o : ContentAt(w, k, start[k], start[k + 1])
          /\ ItemAt(w2, t, Wrapped(statement, contexts), start[o + 1], now)
      BY SMTT(30), <2>1, EndedFacts
    <3> QED BY <2>2, <3>1
  <2> QED BY <1>2, <2>2, <2>3
<1>4. /\ Containers /\ block \in 1 .. Len(blocks) /\ currentFunction # Null
      /\ \A j \in 1 .. Len(open) : \A k \in 1 .. Len(open) :
           j < k /\ open[j].kind = "block" /\ open[k].kind = "block" => open[j].block # open[k].block
      /\ \A k \in 1 .. Len(open) : open[k].kind = "block" => open[k].block \in 1 .. Len(blocks)
  <2>1. Len(open) # 1 /\ Len(open) > 1
    BY <1>1
  <2>2. currentFunction # Null
    BY <2>1 DEF PlacesFit, Null
  <2> QED BY <1>1, <2>2 DEF PlacesFit
<1>5. /\ Len(blocks') = Len(blocks) /\ unit' = unit
      /\ \A b \in 1 .. Len(blocks) : blocks'[b].table = blocks[b].table /\ (b # block => blocks'[b] = blocks[b])
      /\ blocks'[block].statements = Append(blocks[block].statements, s)
  <2>1. WithStatement(blocks, block, s, blocks') /\ UNCHANGED unit
    BY <1>3, <1>4, StatementFacts
  <2> QED BY <1>4, <2>1 DEF WithStatement
<1>6. PICK start2 : start2 = [k \in 1 .. o + 1 |-> IF k = o + 1 THEN now ELSE start[k]]
  OBVIOUS
<1>7. /\ o + 1 \in 1 .. o + 1 /\ 1 \in 1 .. o + 1 /\ 1 # o + 1 /\ o \in 1 .. o + 1 /\ o # o + 1
      /\ \A k \in 1 .. o : k \in 1 .. o + 1 /\ k # o + 1
      /\ \A k \in 1 .. o : k # o => k + 1 \in 1 .. o + 1 /\ k + 1 # o + 1 /\ k < o
  BY <1>1
<1>8. /\ start2 \in [1 .. o + 1 -> Position] /\ start2[1] = <<0, 0>>
      /\ start2[o + 1] = now /\ start2[o] = start[o]
      /\ \A k \in 1 .. o : k # o => start2[k] = start[k] /\ start2[k + 1] = start[k + 1]
  BY <1>3, <1>6, <1>7
<1>9. ASSUME NEW k \in 1 .. o, k # o PROVE ContentAt(w2, k, start2[k], start2[k + 1])'
  <2>1. PICK lo, hi : lo = start2[k] /\ hi = start2[k + 1]
    OBVIOUS
  <2>2. ContentAt(w, k, lo, hi) /\ open'[k] = open[k]
    BY <1>3, <1>8, <1>9, <2>1
  <2>3. (IF Len(open') = 1 THEN unit' ELSE Front(unit')) = (IF Len(open) = 1 THEN unit ELSE Front(unit))
    <3>1. Len(open') # 1 /\ Len(open) # 1
      BY <1>1, <1>3
    <3> QED BY <1>5, <3>1
  <2>4. open[k].kind = "block" => blocks'[open[k].block] = blocks[open[k].block]
    BY <1>1, <1>4, <1>5, <1>7, <1>9
  <2>5. /\ functions'[currentFunction'].entry = functions[currentFunction].entry
        /\ functions'[currentFunction'].parameters = functions[currentFunction].parameters
    OBVIOUS
  <2>6. ContentAt(w2, k, lo, hi)'
    BY <2>2, <2>3, <2>4, <2>5, ContentKept
  <2> QED BY <2>1, <2>6
<1>10. ContentAt(w2, o, start2[o], start2[o + 1])'
  <2>1. PICK lo, mid : lo = start[o] /\ mid = start[o + 1]
    OBVIOUS
  <2>2. ListAt(w, t, blocks[block].statements, lo, mid)
    <3>1. o \in 1 .. o
      BY <1>1
    <3> QED BY <1>1, <1>2, <1>3, <2>1, <3>1 DEF ContentAt
  <2>3. ListAt(w2, t, blocks[block].statements, lo, mid)
    BY <2>2, ListKept
  <2>4. ListAt(w2, t, Append(blocks[block].statements, s), lo, now)
    BY <1>3, <2>1, <2>3, ListNext
  <2>5. ListAt(w2, blocks'[block].table, blocks'[block].statements, lo, now)
    BY <1>2, <1>4, <1>5, <2>4
  <2>6. o # 1 /\ open'[o] = open[o]
    BY <1>1, <1>3, <1>7
  <2>7. ContentAt(w2, o, lo, now)'
    BY <1>1, <2>5, <2>6 DEF ContentAt
  <2> QED BY <1>8, <2>1, <2>7
<1>11. \A k \in 1 .. o : ContentAt(w2, k, start2[k], start2[k + 1])'
  BY <1>9, <1>10
<1>12. SpansFit(w2)'
  <2> SUFFICES ASSUME NEW r \in w2.spans
               PROVE  /\ r[1] \in 1 .. Len(blocks')
                      /\ ListAt(w2, blocks'[r[1]].table, blocks'[r[1]].statements, r[2], r[3])
                      /\ \A k \in 1 .. Len(open') : open'[k].kind = "block" => open'[k].block # r[1]
    BY DEF SpansFit
  <2>1. r[1] # block /\ \A k \in 1 .. o : open[k].kind = "block" => open[k].block # r[1]
    BY <1>1
  <2> QED BY <1>3, <1>5, <2>1
<1>13. Bodies'
  <2>1. Len(open') > 2 /\ Len(open') # 2 /\ 3 \in 1 .. o
    BY <1>1, <1>3
  <2>2. Len(open) > 1
    BY <1>1
  <2> QED BY <1>1, <1>3, <1>5, <2>1, <2>2 DEF Bodies
<1>14. ReductionAt(w2, now, now)'
  BY DEF ReductionAt
<1>15. o = Len(open') /\ now = start2[o + 1] /\ now[1] = Len(uses')
  BY <1>3, <1>8
<1> QED BY <1>3, <1>8, <1>11, <1>12, <1>13, <1>14, <1>15, WrittenTold

(* A statement of the program, outside of functions. *)
LEMMA ProgramStatementTold ==
  ASSUME PlacesFit, NEW contexts, NEW c, NEW o, Inside(contexts, c, o), Len(open) = 1,
         NEW w, NEW w2, Extends(w, w2), w2 = World(w2.spans)', w2.spans = w.spans, Bodies, SpansFit(w),
         NEW start, NEW now, Written(w, start, now),
         NEW statement, NEW block, EndStatement(statement, contexts, block),
         SimpleAt(w2, Global, statement, start[c + 1], now),
         loads' = <<>>, home' = <<>>, place' = 0, phase' = "parse", item' = <<>>,
         UNCHANGED <<uses, functions, currentFunction>>,
         now[2] < tokens', \A x \in w2.declared : x <= now[2]
  PROVE  Told'
<1>1. /\ o = 1 /\ Len(open) = 1 /\ o \in 1 .. o /\ o \in Nat \ {0}
  <2>1. o \in 1 .. Len(open)
    BY InsideFacts
  <2> QED BY <2>1
<1>2. PICK s, t : s = Wrapped(statement, contexts) /\ t = Global /\ SimpleAt(w2, t, statement, start[c + 1], now)
  OBVIOUS
<1>3. /\ IsSeq(open') /\ Len(open') = o /\ \A k \in 1 .. o : open'[k] = open[k]
      /\ AppendStatement(s, block)
      /\ \A k \in 1 .. o + 1 : start[k] \in Position
      /\ start[1] = <<0, 0>> /\ now \in Position /\ now[1] = Len(uses)
      /\ \A k \in 1 .. o : ContentAt(w, k, start[k], start[k + 1])
      /\ ItemAt(w2, Global, s, start[o + 1], now)
  <2>1. /\ IsSeq(open') /\ Len(open') = o /\ \A k \in 1 .. o : open'[k] = open[k]
        /\ AppendStatement(Wrapped(statement, contexts), block)
        /\ \A k \in 1 .. o + 1 : start[k] \in Position
        /\ start[1] = <<0, 0>> /\ now \in Position /\ now[1] = Len(uses)
        /\ \A k \in 1 .. o : ContentAt(w, k, start[k], start[k + 1])
        /\ ItemAt(w2, t, Wrapped(statement, contexts), start[o + 1], now)
    BY SMTT(30), <1>2, EndedFacts
  <2> QED BY <1>2, <2>1
<1>4. unit' = Append(unit, s) /\ UNCHANGED blocks /\ open[1].kind = "global"
  <2>1. currentFunction = Null /\ Shape(open)
    BY <1>1 DEF PlacesFit
  <2> QED BY <1>1, <1>3, <2>1 DEF AppendStatement, Shape
<1>5. PICK lo, mid : lo = start[o] /\ mid = start[o + 1]
  OBVIOUS
<1>6. ListAt(w, Global, unit, lo, mid)
  BY <1>1, <1>3, <1>5 DEF ContentAt
<1>7. ListAt(w2, Global, unit', lo, now)
  <2>1. ListAt(w2, Global, unit, lo, mid)
    BY <1>6, ListKept
  <2>2. ListAt(w2, Global, Append(unit, s), lo, now)
    BY <1>3, <1>5, <2>1, ListNext
  <2> QED BY <1>4, <2>2
<1>8. ContentAt(w2, o, lo, now)'
  <2>1. open'[o].kind = "global"
    BY <1>1, <1>3, <1>4
  <2> QED BY <1>1, <1>3, <1>7, <2>1 DEF ContentAt
<1>9. PICK start2 : start2 = [k \in 1 .. o + 1 |-> IF k = o + 1 THEN now ELSE lo]
  OBVIOUS
<1>10. /\ start2 \in [1 .. o + 1 -> Position] /\ start2[1] = <<0, 0>>
       /\ start2[o + 1] = now /\ start2[o] = lo /\ \A k \in 1 .. o : k = o
  <2>1. o + 1 \in 1 .. o + 1 /\ o \in 1 .. o + 1 /\ o # o + 1 /\ \A k \in 1 .. o : k = o
    BY <1>1
  <2>2. lo \in Position /\ lo = <<0, 0>>
    BY <1>1, <1>3, <1>5, <2>1
  <2> QED BY <1>1, <1>3, <1>9, <2>1, <2>2
<1>11. \A k \in 1 .. o : ContentAt(w2, k, start2[k], start2[k + 1])'
  <2>1. ContentAt(w2, o, start2[o], start2[o + 1])'
    <3>1. start2[o + 1] = now /\ start2[o] = lo
      BY <1>10
    <3> QED BY <1>8, <3>1
  <2> QED BY <1>10, <2>1
<1>12. SpansFit(w2)'
  <2>1. \A s2 \in w.spans : s2[1] \in 1 .. Len(blocks') /\ blocks'[s2[1]] = blocks[s2[1]]
    BY <1>4 DEF SpansFit
  <2>2. \A k \in 1 .. Len(open') : open'[k].kind # "block"
    BY <1>1, <1>3, <1>4, <1>10
  <2> QED BY <2>1, <2>2, SpansKept
<1>13. Bodies'
  <2>1. IsSeq(unit')
    BY <1>4, AppendFacts DEF Bodies
  <2>2. ~(Len(open') > 1) /\ Len(open') # 2 /\ ~(Len(open') > 2)
    BY <1>1, <1>3
  <2> QED BY <2>1, <2>2 DEF Bodies
<1>14. ReductionAt(w2, now, now)'
  BY DEF ReductionAt
<1>15. o = Len(open') /\ now = start2[o + 1] /\ now[1] = Len(uses')
  BY <1>3, <1>10
<1> QED BY <1>3, <1>10, <1>11, <1>12, <1>13, <1>14, <1>15, WrittenTold

(* What has been reduced becomes a statement. *)
Becomes(statement) ==
  \A w, lo, hi : ReductionAt(w, lo, hi) => SimpleAt(w, currentTable, statement, lo, hi)

NoName == PendingName = ""

LEMMA StatementEnds ==
  ASSUME NEW tab, NEW dep, Held(tab, dep), Told, Writes(1), phase' = "parse",
         EntriesKept, NamesStay, Top.kind # "function", NoName, item' = <<>>,
         UNCHANGED <<uses, tables, entries, functions, currentFunction, loads, home, place>>,
         NEW statement, EndStatement(statement, open, currentBlock), Becomes(statement)
  PROVE  Told'
<1>1. /\ Len(entries) \in Nat /\ tokens \in Nat \ {0} /\ Len(tables) \in Nat /\ PlacesFit
      /\ Shape(open) /\ Len(open) \in Nat \ {0} /\ Top = open[Len(open)] /\ Len(open) \in 1 .. Len(open)
      /\ phase = "parse" /\ tokens' = tokens + 1
  BY HeldFacts, PlacesFits DEF Writes
<1>2. PICK o, c : o = Outside(open) /\ c = Len(open)
  OBVIOUS
<1>3. Inside(open, c, o)
  BY <1>1, <1>2 DEF Inside
<1>4. InnerFits(o)
  BY <1>1, <1>2 DEF PlacesFit
<1>5. /\ o \in Nat \ {0} /\ (o = 1 => Len(open) = 1) /\ (Len(open) = 1 => o = 1)
      /\ o # 1 => open[o].kind = "block" /\ o > 2 /\ Len(open) > 2
  <2>1. /\ o \in 1 .. Len(open) /\ o \in Nat \ {0} /\ (o = 1 => Len(open) = 1)
        /\ o # 1 => open[o].kind = "block" /\ o > 2 /\ Len(open) > 2
    BY <1>1, <1>3, InsideFacts
  <2> QED BY <2>1
<1>6. Len(open') = o
  <2>1. open' = SubSeq(open, 1, o) /\ IsSeq(open) /\ o \in 0 .. Len(open)
    <3>1. o \in 1 .. Len(open)
      BY <1>1, <1>3, InsideFacts
    <3>2. o \in 0 .. Len(open)
      BY <3>1
    <3> QED BY <1>1, <1>2, <3>2 DEF EndStatement, Shape
  <2> QED BY <2>1, PrefixFacts
<1>7. Ids' = Ids
  <2>1. PendingName' = PendingName /\ (PendingName # "" => Item'.id = Item.id)
    BY DEF PendingName, NoItem, NoName
  <2>2. \A e \in 1 .. Len(entries') : e \in 1 .. Len(entries)
    OBVIOUS
  <2> QED BY <1>1, <2>1, <2>2, SameIds
<1>8. \A f \in 1 .. Closed : f \in 1 .. Closed' /\ functions'[f] = functions[f]
  BY <1>5, <1>6 DEF Closed
<1>9. PICK w, start, now, w2 :
        /\ w = World(w.spans) /\ SpansFit(w) /\ Bodies /\ loads = <<>> /\ home = <<>> /\ place = 0
        /\ Written(w, start, now)
        /\ w2 = World(w2.spans)' /\ w2.spans = w.spans /\ w2.declared = Ids' /\ Extends(w, w2)
        /\ now \in Position /\ now[1] = Len(uses) /\ now[2] < tokens /\ now[2] \in Nat
        /\ \A x \in Ids : x <= now[2]
        /\ ReductionAt(w, start[Len(open) + 1], now) /\ start[Len(open) + 1] \in Position
  <2>1. Len(tables') \in Nat /\ Len(tables') >= Len(tables)
    <3>1. tables' = tables
      OBVIOUS
    <3>2. \A k \in Nat : k >= k
      OBVIOUS
    <3> QED BY <1>1, <3>1, <3>2
  <2>2. uses' = uses /\ Ids \subseteq Ids' /\ \A x \in Ids', y \in Ids : x \in Ids \/ y <= x
    BY <1>7
  <2> QED BY <1>1, <1>8, <2>1, <2>2, WorldStep
<1>10. PICK t, block : t = currentTable /\ block = currentBlock
  OBVIOUS
<1>11. SimpleAt(w2, t, statement, start[c + 1], now)
  <2>1. PICK from : from = start[c + 1]
    OBVIOUS
  <2>2. SimpleAt(w, t, statement, from, now)
    BY <1>2, <1>9, <1>10, <2>1 DEF Becomes
  <2>3. SimpleAt(w2, t, statement, from, now)
    BY <1>9, <2>2, SimpleKept
  <2> QED BY <2>1, <2>3
<1>12. now[2] < tokens' /\ \A x \in w2.declared : x <= now[2]
  <2>1. \A a \in Nat, b \in Nat : a < b => a < b + 1
    OBVIOUS
  <2> QED BY <1>1, <1>7, <1>9, <2>1
<1>13. loads' = <<>> /\ home' = <<>> /\ place' = 0 /\ EndStatement(statement, open, block)
       /\ UNCHANGED <<uses, functions, currentFunction>>
  BY <1>9, <1>10
<1>14. CASE o = 1
  <2>1. Len(open) = 1 /\ t = Global
    BY <1>4, <1>10, <1>14 DEF InnerFits
  <2>2. SimpleAt(w2, Global, statement, start[c + 1], now)
    BY <1>11, <2>1
  <2> QED BY <1>1, <1>3, <1>9, <1>12, <1>13, <2>1, <2>2, ProgramStatementTold
<1>15. CASE o # 1
  <2>1. block = open[o].block /\ t = blocks[block].table
    BY <1>4, <1>5, <1>10, <1>15 DEF InnerFits
  <2>2. SimpleAt(w2, blocks[block].table, statement, start[c + 1], now)
    BY <1>11, <2>1
  <2>3. ASSUME NEW s \in w2.spans
        PROVE  /\ s[1] \in 1 .. Len(blocks)
               /\ ListAt(w2, blocks[s[1]].table, blocks[s[1]].statements, s[2], s[3])
               /\ \A k \in 1 .. c : open[k].kind = "block" => open[k].block # s[1]
    <3>1. /\ s[1] \in 1 .. Len(blocks)
          /\ ListAt(w, blocks[s[1]].table, blocks[s[1]].statements, s[2], s[3])
          /\ \A k \in 1 .. Len(open) : open[k].kind = "block" => open[k].block # s[1]
      BY <1>9 DEF SpansFit
    <3>2. ListAt(w2, blocks[s[1]].table, blocks[s[1]].statements, s[2], s[3])
      BY <1>9, <3>1, ListKept
    <3> QED BY <1>2, <3>1, <3>2
  <2> QED BY <1>1, <1>3, <1>9, <1>12, <1>13, <1>15, <2>1, <2>2, <2>3, BlockStatementTold
<1> QED BY <1>14, <1>15

LEMMA EndExpressionTold ==
  ASSUME NEW tab, NEW dep, Held(tab, dep), Told, EndExpression PROVE Told'
<1>1. /\ Writes(1) /\ phase' = "parse" /\ item # <<>> /\ item' = <<>>
      /\ Item.kind = "expression"
      /\ UNCHANGED <<uses, tables, entries, functions, currentFunction, loads, home, place>>
  BY DEF EndExpression, Writes, NoItem, driver, generated
<1>2. EntriesKept /\ NamesStay
  BY EndExpressionHeld DEF StillHeld
<1>3. PICK statement : /\ statement = [kind |-> "expression", nodes |-> Item.nodes]
                       /\ EndStatement(statement, open, currentBlock)
  BY DEF EndExpression
<1>4. Top.kind # "function" /\ NoName
  BY <1>1 DEF Held, Symbols, ItemFits, PendingName, NoName
<1>5. ASSUME NEW w, NEW lo, NEW hi, ReductionAt(w, lo, hi)
      PROVE  SimpleAt(w, currentTable, statement, lo, hi)
  <2>1. NodesAt(w, Item.nodes, lo, hi)
    BY <1>1, <1>5 DEF ReductionAt
  <2> QED BY <1>3, <2>1 DEF SimpleAt
<1>6. Becomes(statement)
  BY <1>5 DEF Becomes
<1> QED BY <1>1, <1>2, <1>3, <1>4, <1>6, StatementEnds

LEMMA EndDeclarationTold ==
  ASSUME NEW tab, NEW dep, Held(tab, dep), Told, EndDeclaration PROVE Told'
<1>1. /\ Writes(1) /\ phase' = "parse" /\ item # <<>> /\ item' = <<>>
      /\ Item.kind = "declaration" /\ Item.name = ""
      /\ UNCHANGED <<uses, tables, entries, functions, currentFunction, loads, home, place>>
  BY DEF EndDeclaration, Writes, NoItem, Reading, driver, generated
<1>2. EntriesKept /\ NamesStay
  BY EndDeclarationHeld DEF StillHeld
<1>3. PICK statement : /\ statement = [kind |-> "declaration", scope |-> Item.scope, defs |-> Item.defs]
                       /\ EndStatement(statement, open, currentBlock)
  BY DEF EndDeclaration
<1>4. Top.kind # "function" /\ NoName
  BY <1>1 DEF Held, Symbols, ItemFits, PendingName, NoName
<1>5. ASSUME NEW w, NEW lo, NEW hi, ReductionAt(w, lo, hi)
      PROVE  SimpleAt(w, currentTable, statement, lo, hi)
  <2>1. Item.defs # <<>> /\ DefsAt(w, currentTable, Item.scope, Item.defs, lo, hi)
    BY <1>1, <1>5 DEF ReductionAt
  <2>2. PICK scope, defs : scope = Item.scope /\ defs = Item.defs
    OBVIOUS
  <2>3. statement = [kind |-> "declaration", scope |-> scope, defs |-> defs]
    BY <1>3, <2>2
  <2> QED BY <2>1, <2>2, <2>3 DEF SimpleAt
<1>6. Becomes(statement)
  BY <1>5 DEF Becomes
<1> QED BY <1>1, <1>2, <1>3, <1>4, <1>6, StatementEnds

(* A block that is closed is the innermost one, and the block that is gone *)
(* back to is the one around it.                                           *)
LEMMA ClosedBlock ==
  ASSUME NEW tab, NEW dep, Held(tab, dep), CloseBlock
  PROVE  \E n, o, contexts :
           /\ contexts = Front(open) /\ Inside(contexts, n, o) /\ Len(open) = n + 1 /\ n \in Nat \ {0}
           /\ n + 1 \in 1 .. Len(open) /\ open[n + 1].kind = "block" /\ currentBlock = open[n + 1].block
           /\ o # 1 /\ currentBlock' = open[o].block /\ currentBlock \in 1 .. Len(blocks)
           /\ \A k \in 1 .. n : open[k].kind = "block" => open[k].block # currentBlock
           /\ Len(open') = o /\ o # 1 /\ n # 1
<1>1. /\ Top.kind = "block" /\ Below.kind # "function" /\ currentFunction' = currentFunction
  BY DEF CloseBlock
<1>2. /\ Len(open) \in Nat \ {0} /\ IsSeq(open) /\ Shape(open) /\ Top = open[Len(open)]
      /\ Len(open) \in 1 .. Len(open) /\ PlacesFit /\ Placed(tab, dep)
  BY HeldFacts, PlacesFits DEF Held
<1>3. PICK n : n = Len(open) - 1
  OBVIOUS
<1>4. /\ n \in Nat \ {0} /\ n # 1 /\ n \in 1 .. Len(open) /\ Len(open) = n + 1 /\ n + 1 \in 1 .. Len(open)
      /\ Below = open[n]
  <2>1. Len(open) # 1 /\ Len(open) # 2
    BY <1>1, <1>2 DEF Shape
  <2>2. \A l \in Nat \ {0} : l # 1 /\ l # 2 => l - 1 \in Nat \ {0} /\ l - 1 # 1 /\ l - 1 \in 1 .. l /\ l = (l - 1) + 1
    OBVIOUS
  <2>3. Below = open[n]
    BY <1>3 DEF Below
  <2> QED BY <1>2, <1>3, <2>1, <2>2, <2>3
<1>5. PICK contexts : contexts = Front(open)
  OBVIOUS
<1>6. IsSeq(contexts) /\ Len(contexts) = n /\ \A k \in 1 .. n : contexts[k] = open[k] /\ k \in 1 .. Len(open)
  <2>1. open # <<>>
    BY <1>2
  <2>2. \A k \in 1 .. n : k \in 1 .. Len(open)
    BY <1>2, <1>4, UpTo
  <2> QED BY <1>2, <1>3, <1>5, <2>1, <2>2, FrontPrefix
<1>7. Shape(contexts)
  BY <1>2, <1>4, <1>6 DEF Shape
<1>8. PICK o : o = Outside(contexts)
  OBVIOUS
<1>9. Inside(contexts, n, o)
  <2>1. contexts[n] = open[n] /\ contexts[n].kind # "function"
    <3>1. n \in 1 .. n
      BY <1>4
    <3> QED BY <1>1, <1>4, <1>6, <3>1
  <2> QED BY <1>4, <1>6, <1>7, <1>8, <2>1 DEF Inside
<1>10. /\ o \in 1 .. n /\ o \in 1 .. Len(open) /\ (o = 1 => Len(open) = 1)
       /\ o # 1 => open[o].kind = "block"
  BY <1>2, <1>9, InsideFacts
<1>11. o # 1 /\ open[o].kind = "block"
  BY <1>4, <1>10
<1>12. currentBlock = open[n + 1].block /\ open[n + 1].kind = "block"
  <2>1. open[n + 1].kind = "block"
    BY <1>1, <1>2, <1>4
  <2>2. Outside(open) = n + 1
    <3>1. /\ Outside(open) \in 1 .. Len(open)
          /\ \A j \in Outside(open) + 1 .. Len(open) : open[j].kind = "if"
      BY <1>2, OutsideFacts
    <3>2. Outside(open) # n + 1 => n + 1 \in Outside(open) + 1 .. Len(open)
      <4>1. \A x \in 1 .. n + 1 : x # n + 1 => n + 1 \in x + 1 .. n + 1
        BY <1>4
      <4> QED BY <1>4, <3>1, <4>1
    <3> QED BY <2>1, <3>1, <3>2
  <2> QED BY <1>2, <2>1, <2>2 DEF PlacesFit, InnerFits
<1>13. currentBlock \in 1 .. Len(blocks)
  BY <1>2, <1>4, <1>12 DEF PlacesFit
<1>14. ASSUME NEW k \in 1 .. n, open[k].kind = "block" PROVE open[k].block # currentBlock
  <2>1. k < n + 1 /\ k \in 1 .. Len(open)
    BY <1>4, <1>6
  <2> QED BY <1>2, <1>4, <1>12, <1>14, <2>1 DEF PlacesFit
<1>15. currentBlock' = open[o].block /\ Len(open') = o
  <2>1. /\ IsSeq(blockStack') /\ Len(blockStack') = dep[o] /\ Len(open') = o
        /\ \A d \in 1 .. dep[o] : blockStack'[d] = blockStack[d]
        /\ currentBlock' = IF blockStack' = <<>> THEN Null ELSE Last(blockStack')
    BY <1>5, <1>8, CloseBlockCloses DEF Closing
  <2>2. dep[o] \in 1 .. Len(blockStack) /\ blockStack[dep[o]] = open[o].block
    BY <1>2, <1>10, <1>11, BlockPlace
  <2>3. dep[o] \in 1 .. dep[o] /\ dep[o] # 0
    BY <2>2
  <2>4. PICK stack : stack = blockStack'
    OBVIOUS
  <2>5. stack # <<>>
    BY <2>1, <2>3, <2>4, NothingIsSeq
  <2>6. Last(stack) = stack[Len(stack)]
    BY <2>1, <2>4, <2>5, LastFacts
  <2> QED BY <2>1, <2>2, <2>3, <2>4, <2>5, <2>6
<1> QED BY <1>4, <1>5, <1>9, <1>11, <1>12, <1>13, <1>14, <1>15

LEMMA CloseBlockTold ==
  ASSUME NEW tab, NEW dep, Held(tab, dep), Told, CloseBlock PROVE Told'
<1>1. /\ Writes(1) /\ phase = "parse" /\ phase' = "parse" /\ tokens' = tokens + 1 /\ item = <<>> /\ item' = <<>>
      /\ UNCHANGED <<uses, tables, entries, functions, currentFunction, loads, home, place>>
  BY DEF CloseBlock, Writes, NoItem, generated
<1>2. EntriesKept /\ NamesStay
  BY CloseBlockHeld DEF StillHeld
<1>3. PICK n, o, contexts :
        /\ contexts = Front(open) /\ Inside(contexts, n, o) /\ Len(open) = n + 1 /\ n \in Nat \ {0}
        /\ n + 1 \in 1 .. Len(open) /\ open[n + 1].kind = "block" /\ currentBlock = open[n + 1].block
        /\ o # 1 /\ currentBlock' = open[o].block /\ currentBlock \in 1 .. Len(blocks)
        /\ \A k \in 1 .. n : open[k].kind = "block" => open[k].block # currentBlock
        /\ Len(open') = o /\ o # 1 /\ n # 1
  BY ClosedBlock
<1>4. PICK b, block, statement :
        /\ b = currentBlock /\ block = open[o].block
        /\ statement = [kind |-> "block", block |-> b] /\ EndStatement(statement, contexts, block)
  <2>1. EndStatement([kind |-> "block", block |-> currentBlock], Front(open), Restored(Front(blockStack)).block)
        /\ currentBlock' = Restored(Front(blockStack)).block
    BY DEF CloseBlock
  <2> QED BY <1>3, <2>1
<1>5. /\ Len(entries) \in Nat /\ tokens \in Nat \ {0} /\ Len(tables) \in Nat /\ PlacesFit
  BY HeldFacts, PlacesFits
<1>6. Ids' = Ids
  <2>1. PendingName' = PendingName /\ (PendingName # "" => Item'.id = Item.id)
    BY <1>1 DEF PendingName, NoItem
  <2>2. \A e \in 1 .. Len(entries') : e \in 1 .. Len(entries)
    BY <1>1
  <2> QED BY <1>2, <1>5, <2>1, <2>2, SameIds
<1>7. \A f \in 1 .. Closed : f \in 1 .. Closed' /\ functions'[f] = functions[f]
  <2>1. Len(open) # 1 /\ Len(open') # 1
    BY <1>3
  <2> QED BY <1>1, <2>1 DEF Closed
<1>8. PICK w, start, now :
        /\ w = World(w.spans) /\ SpansFit(w) /\ Bodies /\ loads = <<>> /\ home = <<>> /\ place = 0
        /\ Written(w, start, now)
  BY <1>1, ToldFacts
<1>9. PICK spans, from, span : spans = w.spans /\ from = start[n + 1] /\ span = <<b, from, now>>
  OBVIOUS
<1>10. PICK w2 : w2 = World(spans \cup {span})'
  OBVIOUS
<1>11. /\ w2.spans = w.spans \cup {span} /\ w2.declared = Ids' /\ w.declared = Ids /\ w2 = World(w2.spans)'
  <2>1. PICK all : all = spans \cup {span}
    OBVIOUS
  <2>2. w2 = World(all)'
    BY <1>10, <2>1
  <2>3. w2.spans = all /\ w2.declared = Ids'
    BY <2>2 DEF World
  <2>4. w.declared = Ids
    BY <1>8, <1>9 DEF World
  <2> QED BY <1>9, <2>1, <2>2, <2>3, <2>4
<1>12. Extends(w, w2)
  <2>1. \A k \in 1 .. Len(uses) : k \in 1 .. Len(uses') /\ uses'[k] = uses[k]
    BY <1>1
  <2>2. PICK all : all = spans \cup {span}
    OBVIOUS
  <2>3. Len(tables') \in Nat /\ Len(tables') >= Len(tables)
    <3>1. tables' = tables
      BY <1>1
    <3>2. \A k \in Nat : k >= k
      OBVIOUS
    <3> QED BY <1>5, <3>1, <3>2
  <2>4. Extends(World(spans), World(all)')
    <3>1. spans \subseteq all /\ Ids \subseteq Ids' /\ \A x \in Ids', y \in Ids : x \in Ids \/ y <= x
      BY <1>6, <2>2
    <3> QED BY <1>2, <1>5, <1>7, <2>1, <2>3, <3>1, WorldGrows
  <2> QED BY <1>8, <1>9, <1>10, <2>2, <2>4
<1>13. /\ start \in [1 .. Len(open) + 1 -> Position] /\ now \in Position
       /\ ContentAt(w, n + 1, start[n + 1], start[n + 1 + 1])
       /\ ReductionAt(w, start[n + 1 + 1], now) /\ now[2] < tokens /\ \A x \in w.declared : x <= now[2]
  BY <1>3, <1>8 DEF Written
<1>14. start[n + 1 + 1] = now
  BY <1>1, <1>13 DEF ReductionAt
<1>15. from \in Position
  <2>1. n + 1 \in 1 .. Len(open) + 1
    BY <1>3
  <2> QED BY <1>9, <1>13, <2>1
<1>16. ListAt(w, blocks[b].table, blocks[b].statements, from, now)
  BY <1>3, <1>4, <1>9, <1>13, <1>14 DEF ContentAt
<1>17. SimpleAt(w2, blocks[block].table, statement, start[n + 1], now)
  BY <1>4, <1>9, <1>11 DEF SimpleAt
<1>18. ASSUME NEW s \in w2.spans
       PROVE  /\ s[1] \in 1 .. Len(blocks)
              /\ ListAt(w2, blocks[s[1]].table, blocks[s[1]].statements, s[2], s[3])
              /\ \A k \in 1 .. n : open[k].kind = "block" => open[k].block # s[1]
  <2>1. CASE s \in w.spans
    <3>1. /\ s[1] \in 1 .. Len(blocks)
          /\ ListAt(w, blocks[s[1]].table, blocks[s[1]].statements, s[2], s[3])
          /\ \A k \in 1 .. Len(open) : open[k].kind = "block" => open[k].block # s[1]
      BY <1>8, <2>1 DEF SpansFit
    <3>2. ListAt(w2, blocks[s[1]].table, blocks[s[1]].statements, s[2], s[3])
      BY <1>12, <3>1, ListKept
    <3>3. \A k \in 1 .. n : k \in 1 .. Len(open)
      BY <1>3
    <3> QED BY <3>1, <3>2, <3>3
  <2>2. CASE s = span
    <3>1. s[1] = b /\ s[2] = from /\ s[3] = now
      BY <1>9, <2>2
    <3>2. ListAt(w2, blocks[b].table, blocks[b].statements, from, now)
      BY <1>12, <1>16, ListKept
    <3> QED BY <1>3, <1>4, <3>1, <3>2
  <2> QED BY <1>11, <2>1, <2>2
<1>19. now[2] < tokens' /\ \A x \in w2.declared : x <= now[2]
  <2>1. \A x \in Nat, y \in Nat : x < y => x < y + 1
    OBVIOUS
  <2>2. now[2] \in Nat
    BY <1>13 DEF Position
  <2> QED BY <1>1, <1>5, <1>6, <1>11, <1>13, <2>1, <2>2
<1>20. loads' = <<>> /\ home' = <<>> /\ place' = 0
  BY <1>1, <1>8
<1> QED BY <1>1, <1>3, <1>4, <1>5, <1>8, <1>11, <1>12, <1>17, <1>18, <1>19, <1>20, BlockStatementTold

LEMMA FrontAndLast ==
  ASSUME NEW s, IsSeq(s), s # <<>> PROVE s = Append(Front(s), Last(s)) /\ IsSeq(Front(s))
<1>1. PICK f, x : f = Front(s) /\ x = Last(s)
  OBVIOUS
<1>2. /\ IsSeq(f) /\ Len(f) = Len(s) - 1 /\ Len(s) \in Nat \ {0}
      /\ \A k \in 1 .. Len(s) - 1 : f[k] = s[k]
      /\ x = s[Len(s)]
  BY <1>1, FrontPrefix, LastFacts
<1>3. PICK a : a = Append(f, x)
  OBVIOUS
<1>4. /\ IsSeq(a) /\ Len(a) = Len(f) + 1 /\ a[Len(f) + 1] = x /\ \A k \in 1 .. Len(f) : a[k] = f[k]
  BY <1>2, <1>3, AppendFacts
<1>5. Len(f) + 1 = Len(s) /\ \A k \in 1 .. Len(s) : k = Len(s) \/ k \in 1 .. Len(s) - 1
  BY <1>2
<1>6. \A k \in 1 .. Len(s) : s[k] = a[k]
  BY <1>2, <1>4, <1>5
<1>7. Len(s) = Len(a)
  BY <1>4, <1>5
<1>8. s = a
  BY <1>4, <1>6, <1>7, SameSequence
<1> QED BY <1>1, <1>2, <1>3, <1>8

(* A function that ends is a statement of the program. *)
LEMMA FunctionEnds ==
  ASSUME PlacesFit, NEW w, NEW w2, Extends(w, w2), w2 = World(w2.spans)', Bodies,
         NEW start, NEW now, Written(w, start, now),
         Len(open) > 1, Len(open') = 1, open'[1] = open[1],
         NEW i, i = [kind |-> "function", function |-> currentFunction],
         NEW mid, mid = start[2], FunctionAt(w2, i, mid, now),
         \A s \in w2.spans :
           /\ s[1] \in 1 .. Len(blocks)
           /\ ListAt(w2, blocks[s[1]].table, blocks[s[1]].statements, s[2], s[3]),
         loads' = <<>>, home' = <<>>, place' = 0, phase' = "parse", item' = <<>>,
         UNCHANGED <<uses, unit, blocks>>, now[2] < tokens', \A x \in w2.declared : x <= now[2]
  PROVE  Told'
<1>1. /\ Len(open) \in Nat \ {0} /\ Len(open) # 1 /\ 1 \in 1 .. Len(open) /\ open[1].kind = "global"
      /\ 1 \in 1 .. Len(open) + 1 /\ 2 \in 1 .. Len(open) + 1
  BY DEF PlacesFit, Shape
<1>2. IsSeq(unit) /\ unit # <<>> /\ Last(unit) = i
  BY DEF Bodies
<1>3. /\ now \in Position /\ now[1] = Len(uses) /\ start[1] = <<0, 0>> /\ <<0, 0>> \in Position
      /\ ContentAt(w, 1, start[1], start[1 + 1])
  BY <1>1 DEF Written, Position
<1>4. PICK lo, front : lo = <<0, 0>> /\ front = Front(unit)
  OBVIOUS
<1>5. ListAt(w, Global, front, lo, mid)
  BY <1>1, <1>3, <1>4 DEF ContentAt
<1>6. ListAt(w2, Global, front, lo, mid)
  BY <1>5, ListKept
<1>7. ItemAt(w2, Global, i, mid, now)
  BY DEF ItemAt
<1>8. ListAt(w2, Global, Append(front, i), lo, now)
  BY <1>3, <1>6, <1>7, ListNext
<1>9. unit = Append(front, i)
  BY <1>2, <1>4, FrontAndLast
<1>10. PICK one : one = 1 /\ one \in Nat \ {0}
  OBVIOUS
<1>11. ContentAt(w2, one, lo, now)'
  <2>1. open'[one].kind = "global"
    BY <1>1, <1>10
  <2>2. ListAt(w2, Global, unit', lo, now)
    BY <1>8, <1>9
  <2> QED BY <2>1, <2>2 DEF ContentAt
<1>12. PICK start2 : start2 = [k \in 1 .. one + 1 |-> IF k = one + 1 THEN now ELSE lo]
  OBVIOUS
<1>13. /\ start2 \in [1 .. one + 1 -> Position] /\ start2[1] = <<0, 0>>
       /\ start2[one + 1] = now /\ start2[one] = lo /\ \A k \in 1 .. one : k = one
  <2>1. one + 1 \in 1 .. one + 1 /\ one \in 1 .. one + 1 /\ one # one + 1 /\ \A k \in 1 .. one : k = one
    BY <1>10
  <2> QED BY <1>3, <1>4, <1>10, <1>12, <2>1
<1>14. \A k \in 1 .. one : ContentAt(w2, k, start2[k], start2[k + 1])'
  <2>1. ContentAt(w2, one, start2[one], start2[one + 1])'
    <3>1. start2[one + 1] = now /\ start2[one] = lo
      BY <1>13
    <3> QED BY <1>11, <3>1
  <2> QED BY <1>13, <2>1
<1>15. SpansFit(w2)'
  <2>1. \A k \in 1 .. Len(open') : open'[k].kind # "block"
    BY <1>1, <1>10, <1>13
  <2> QED BY <2>1 DEF SpansFit
<1>16. Bodies'
  <2>1. ~(Len(open') > 1) /\ Len(open') # 2 /\ ~(Len(open') > 2)
    OBVIOUS
  <2> QED BY <2>1 DEF Bodies
<1>17. ReductionAt(w2, now, now)'
  BY DEF ReductionAt
<1>18. one = Len(open') /\ now = start2[one + 1] /\ now[1] = Len(uses')
  BY <1>3, <1>10, <1>13
<1> QED BY <1>3, <1>13, <1>14, <1>15, <1>16, <1>17, <1>18, WrittenTold

LEMMA EmptyBodyTold ==
  ASSUME NEW tab, NEW dep, Held(tab, dep), Told, EmptyBody PROVE Told'
<1>1. /\ Writes(1) /\ phase = "parse" /\ phase' = "parse" /\ tokens' = tokens + 1 /\ item = <<>> /\ item' = <<>>
      /\ Top.kind = "function" /\ open' = Front(open)
      /\ UNCHANGED <<uses, tables, entries, blocks, functions, unit, loads, home, place>>
  BY DEF EmptyBody, Writes, tree, generated
<1>2. EntriesKept /\ NamesStay
  BY EmptyBodyHeld DEF StillHeld
<1>3. /\ Len(entries) \in Nat /\ tokens \in Nat \ {0} /\ Len(tables) \in Nat /\ PlacesFit
      /\ Len(open) \in Nat \ {0} /\ Shape(open) /\ Top = open[Len(open)] /\ Len(open) \in 1 .. Len(open)
      /\ IsSeq(open)
  BY HeldFacts, PlacesFits
<1>4. Len(open) = 2
  BY <1>1, <1>3 DEF Shape
<1>5. Len(open) > 1 /\ Len(open') = 1 /\ open'[1] = open[1]
  <2>1. open # <<>>
    BY <1>3
  <2>2. Len(Front(open)) = Len(open) - 1 /\ \A k \in 1 .. Len(open) - 1 : Front(open)[k] = open[k]
    BY <1>3, <2>1, FrontPrefix
  <2>3. 1 \in 1 .. Len(open) - 1 /\ Len(open) - 1 = 1 /\ Len(open) > 1
    BY <1>4
  <2> QED BY <1>1, <2>2, <2>3
<1>6. currentFunction = Len(functions) /\ Len(functions) > 0 /\ Len(functions) \in Nat /\ open[2].kind = "function"
  <2>1. Len(open) # 1 /\ 2 \in 1 .. Len(open)
    BY <1>4
  <2> QED BY <1>3, <1>5, <2>1 DEF PlacesFit, Containers, Shape
<1>7. Closed = Len(functions) - 1 /\ Closed' = Len(functions)
  BY <1>1, <1>4, <1>5 DEF Closed
<1>8. \A f \in 1 .. Closed : f \in 1 .. Closed' /\ functions'[f] = functions[f]
  <2>1. \A k \in Nat : \A f \in 1 .. k - 1 : f \in 1 .. k
    OBVIOUS
  <2> QED BY <1>1, <1>6, <1>7, <2>1
<1>9. Ids' = Ids
  <2>1. PendingName' = PendingName /\ (PendingName # "" => Item'.id = Item.id)
    BY <1>1 DEF PendingName, NoItem
  <2>2. \A e \in 1 .. Len(entries') : e \in 1 .. Len(entries)
    BY <1>1
  <2> QED BY <1>2, <1>3, <2>1, <2>2, SameIds
<1>10. PICK w, start, now, w2 :
         /\ w = World(w.spans) /\ SpansFit(w) /\ Bodies /\ loads = <<>> /\ home = <<>> /\ place = 0
         /\ Written(w, start, now)
         /\ w2 = World(w2.spans)' /\ w2.spans = w.spans /\ w2.declared = Ids' /\ Extends(w, w2)
         /\ now \in Position /\ now[1] = Len(uses) /\ now[2] < tokens /\ now[2] \in Nat
         /\ \A x \in Ids : x <= now[2]
         /\ ReductionAt(w, start[Len(open) + 1], now) /\ start[Len(open) + 1] \in Position
  <2>1. Len(tables') \in Nat /\ Len(tables') >= Len(tables)
    <3>1. tables' = tables
      BY <1>1
    <3>2. \A k \in Nat : k >= k
      OBVIOUS
    <3> QED BY <1>3, <3>1, <3>2
  <2>2. uses' = uses /\ Ids \subseteq Ids' /\ \A x \in Ids', y \in Ids : x \in Ids \/ y <= x
    BY <1>1, <1>9
  <2> QED BY <1>1, <1>2, <1>8, <2>1, <2>2, WorldStep
<1>11. PICK f : f = functions[currentFunction]
  OBVIOUS
<1>12. PICK mid : mid = start[2] /\ HeadAt(w, f, mid, now) /\ mid \in Position
  <2>1. start[2 + 1] = now
    BY <1>1, <1>4, <1>10 DEF ReductionAt
  <2>2. /\ ContentAt(w, 2, start[2], start[2 + 1]) /\ start[2] \in Position
    <3>1. 2 \in 1 .. Len(open) /\ 2 \in 1 .. Len(open) + 1
      BY <1>4
    <3> QED BY <1>10, <3>1 DEF Written
  <2> QED BY <1>6, <1>11, <2>1, <2>2 DEF ContentAt
<1>13. PICK i : i = [kind |-> "function", function |-> currentFunction]
  OBVIOUS
<1>14. FunctionAt(w2, i, mid, now)
  <2>1. HeadAt(w2, f, mid, now)
    BY <1>10, <1>12, HeadKept
  <2>2. <<currentFunction, f>> \in w2.functions
    <3>1. currentFunction \in 1 .. Closed' /\ functions'[currentFunction] = f
      BY <1>1, <1>6, <1>7, <1>11
    <3>2. PICK spans, g : spans = w2.spans /\ g = currentFunction
      OBVIOUS
    <3>3. w2 = World(spans)'
      BY <1>10, <3>2
    <3>4. <<g, f>> \in w2.functions
      BY <3>1, <3>2, <3>3 DEF World
    <3> QED BY <3>2, <3>4
  <2>3. f.body = Null
    BY <1>4, <1>10, <1>11 DEF Bodies
  <2>4. now \in Position /\ i.kind = "function" /\ <<i.function, f>> \in w2.functions
    BY <1>10, <1>13, <2>2
  <2> QED BY <2>1, <2>3, <2>4 DEF FunctionAt
<1>15. ASSUME NEW s \in w2.spans
       PROVE  /\ s[1] \in 1 .. Len(blocks)
              /\ ListAt(w2, blocks[s[1]].table, blocks[s[1]].statements, s[2], s[3])
  BY <1>10, ListKept DEF SpansFit
<1>16. now[2] < tokens' /\ \A x \in w2.declared : x <= now[2]
  <2>1. \A x \in Nat, y \in Nat : x < y => x < y + 1
    OBVIOUS
  <2> QED BY <1>1, <1>3, <1>9, <1>10, <2>1
<1>17. loads' = <<>> /\ home' = <<>> /\ place' = 0
  BY <1>1, <1>10
<1> QED BY <1>1, <1>3, <1>5, <1>10, <1>12, <1>13, <1>14, <1>15, <1>16, <1>17, FunctionEnds

LEMMA CloseFunctionTold ==
  ASSUME NEW tab, NEW dep, Held(tab, dep), Told, CloseFunction PROVE Told'
<1>1. /\ Writes(1) /\ phase = "parse" /\ phase' = "parse" /\ tokens' = tokens + 1 /\ item = <<>> /\ item' = <<>>
      /\ Top.kind = "block" /\ Below.kind = "function" /\ open' = SubSeq(open, 1, Len(open) - 2)
      /\ UNCHANGED <<uses, tables, entries, blocks, functions, unit, loads, home, place>>
  BY DEF CloseFunction, Writes, tree, generated
<1>2. EntriesKept /\ NamesStay
  BY CloseFunctionHeld DEF StillHeld
<1>3. /\ Len(entries) \in Nat /\ tokens \in Nat \ {0} /\ Len(tables) \in Nat /\ PlacesFit
      /\ Len(open) \in Nat \ {0} /\ Shape(open) /\ Top = open[Len(open)] /\ Len(open) \in 1 .. Len(open)
      /\ IsSeq(open)
  BY HeldFacts, PlacesFits
<1>4. Len(open) = 3
  <2>1. Len(open) # 1
    BY <1>1, <1>3 DEF Shape
  <2>2. \A l \in Nat \ {0} : l # 1 => l - 1 \in 1 .. l
    OBVIOUS
  <2>3. Len(open) - 1 = 2
    BY <1>1, <1>3, <2>1, <2>2 DEF Shape, Below
  <2> QED BY <1>3, <2>3
<1>5. Len(open) > 1 /\ Len(open) > 2 /\ Len(open') = 1 /\ open'[1] = open[1]
  <2>1. open' = SubSeq(open, 1, 1) /\ 1 \in 0 .. Len(open) /\ 1 \in 1 .. 1
    BY <1>1, <1>4
  <2>2. Len(open') = 1 /\ open'[1] = open[1]
    BY <1>3, <2>1, PrefixFacts
  <2> QED BY <1>4, <2>2
<1>6. /\ currentFunction = Len(functions) /\ Len(functions) > 0 /\ Len(functions) \in Nat
      /\ open[2].kind = "function" /\ open[3].kind = "block" /\ open[3].block \in 1 .. Len(blocks)
  <2>1. Len(open) # 1 /\ 2 \in 1 .. Len(open) /\ 3 \in 1 .. Len(open)
    BY <1>4
  <2> QED BY <1>3, <1>5, <2>1 DEF PlacesFit, Containers, Shape
<1>7. Closed = Len(functions) - 1 /\ Closed' = Len(functions)
  BY <1>1, <1>4, <1>5 DEF Closed
<1>8. \A f \in 1 .. Closed : f \in 1 .. Closed' /\ functions'[f] = functions[f]
  <2>1. \A k \in Nat : \A f \in 1 .. k - 1 : f \in 1 .. k
    OBVIOUS
  <2> QED BY <1>1, <1>6, <1>7, <2>1
<1>9. Ids' = Ids
  <2>1. PendingName' = PendingName /\ (PendingName # "" => Item'.id = Item.id)
    BY <1>1 DEF PendingName, NoItem
  <2>2. \A e \in 1 .. Len(entries') : e \in 1 .. Len(entries)
    BY <1>1
  <2> QED BY <1>2, <1>3, <2>1, <2>2, SameIds
<1>10. PICK w, start, now :
         /\ w = World(w.spans) /\ SpansFit(w) /\ Bodies /\ loads = <<>> /\ home = <<>> /\ place = 0
         /\ Written(w, start, now)
  BY <1>1, ToldFacts
<1>11. PICK spans, b, mid, from, span :
         /\ spans = w.spans /\ b = open[3].block /\ mid = start[2] /\ from = start[3]
         /\ span = <<b, from, now>>
  OBVIOUS
<1>12. PICK all, w2 : all = spans \cup {span} /\ w2 = World(all)'
  OBVIOUS
<1>13. /\ w2.spans = all /\ w2.declared = Ids' /\ w.declared = Ids /\ w2 = World(w2.spans)'
  BY <1>10, <1>11, <1>12 DEF World
<1>14. Extends(w, w2)
  <2>1. \A k \in 1 .. Len(uses) : k \in 1 .. Len(uses') /\ uses'[k] = uses[k]
    BY <1>1
  <2>2. Len(tables') \in Nat /\ Len(tables') >= Len(tables)
    <3>1. tables' = tables
      BY <1>1
    <3>2. \A k \in Nat : k >= k
      OBVIOUS
    <3> QED BY <1>3, <3>1, <3>2
  <2>3. Extends(World(spans), World(all)')
    <3>1. spans \subseteq all /\ Ids \subseteq Ids' /\ \A x \in Ids', y \in Ids : x \in Ids \/ y <= x
      BY <1>9, <1>12
    <3> QED BY <1>2, <1>3, <1>8, <2>1, <2>2, <3>1, WorldGrows
  <2> QED BY <1>10, <1>11, <1>12, <2>3
<1>15. /\ start \in [1 .. 3 + 1 -> Position] /\ now \in Position
       /\ ContentAt(w, 2, start[2], start[2 + 1]) /\ ContentAt(w, 3, start[3], start[3 + 1])
       /\ ReductionAt(w, start[3 + 1], now) /\ now[2] < tokens /\ \A x \in w.declared : x <= now[2]
  <2>1. 2 \in 1 .. Len(open) /\ 3 \in 1 .. Len(open)
    BY <1>4
  <2> QED BY <1>4, <1>10, <2>1 DEF Written
<1>16. start[3 + 1] = now
  BY <1>1, <1>15 DEF ReductionAt
<1>17. from \in Position /\ 2 + 1 = 3
  <2>1. 3 \in 1 .. 3 + 1
    OBVIOUS
  <2> QED BY <1>11, <1>15, <2>1
<1>18. ListAt(w, blocks[b].table, blocks[b].statements, from, now)
  BY <1>6, <1>11, <1>15, <1>16 DEF ContentAt
<1>19. PICK f : f = functions[currentFunction]
  OBVIOUS
<1>20. HeadAt(w, f, mid, from)
  <2>1. HeadAt(w, functions[currentFunction], start[2], start[2 + 1])
    BY <1>6, <1>15 DEF ContentAt
  <2> QED BY <1>11, <1>17, <1>19, <2>1
<1>21. PICK i : i = [kind |-> "function", function |-> currentFunction]
  OBVIOUS
<1>22. FunctionAt(w2, i, mid, now)
  <2>1. HeadAt(w2, f, mid, from)
    BY <1>14, <1>20, HeadKept
  <2>2. <<currentFunction, f>> \in w2.functions
    <3>1. currentFunction \in 1 .. Closed' /\ functions'[currentFunction] = f
      BY <1>1, <1>6, <1>7, <1>19
    <3>2. PICK g : g = currentFunction
      OBVIOUS
    <3>3. <<g, f>> \in w2.functions
      BY <1>12, <3>1, <3>2 DEF World
    <3> QED BY <3>2, <3>3
  <2>3. f.body = b /\ f.body # Null
    <3>1. f.body = b
      BY <1>5, <1>10, <1>11, <1>19 DEF Bodies
    <3> QED BY <1>6, <1>11, <3>1 DEF Null
  <2>4. <<f.body, from, now>> \in w2.spans
    BY <1>11, <1>12, <1>13, <2>3
  <2>5. i.kind = "function" /\ <<i.function, f>> \in w2.functions
    BY <1>21, <2>2
  <2> QED BY <1>17, <2>1, <2>3, <2>4, <2>5 DEF FunctionAt
<1>23. ASSUME NEW s \in w2.spans
       PROVE  /\ s[1] \in 1 .. Len(blocks)
              /\ ListAt(w2, blocks[s[1]].table, blocks[s[1]].statements, s[2], s[3])
  <2>1. CASE s \in w.spans
    BY <1>10, <1>14, <2>1, ListKept DEF SpansFit
  <2>2. CASE s = span
    <3>1. s[1] = b /\ s[2] = from /\ s[3] = now
      BY <1>11, <2>2
    <3>2. ListAt(w2, blocks[b].table, blocks[b].statements, from, now)
      BY <1>14, <1>18, ListKept
    <3> QED BY <1>6, <1>11, <3>1, <3>2
  <2> QED BY <1>11, <1>12, <1>13, <2>1, <2>2
<1>24. now[2] < tokens' /\ \A x \in w2.declared : x <= now[2]
  <2>1. \A x \in Nat, y \in Nat : x < y => x < y + 1
    OBVIOUS
  <2>2. now[2] \in Nat
    BY <1>15 DEF Position
  <2> QED BY <1>1, <1>3, <1>9, <1>13, <1>15, <2>1, <2>2
<1>25. loads' = <<>> /\ home' = <<>> /\ place' = 0
  BY <1>1, <1>10
<1> QED BY <1>1, <1>3, <1>5, <1>10, <1>11, <1>13, <1>14, <1>21, <1>22, <1>23, <1>24, <1>25, FunctionEnds

-----------------------------------------------------------------------------
(* irgen.  It leaves what the text and the driver say as it is. *)

SameDeclarations ==
  /\ Len(entries') = Len(entries)
  /\ \A e \in 1 .. Len(entries) : entries'[e].id = entries[e].id /\ entries'[e].scope = entries[e].scope

LEMMA QuietWorld ==
  ASSUME NEW w, w = World(w.spans), SpansFit(w), UnchangedParse, SameDeclarations
  PROVE  Ids' = Ids /\ w = World(w.spans)' /\ SpansFit(w)'
<1>1. UNCHANGED <<open, uses, item, tables, blocks, functions>>
  BY DEF UnchangedParse, text, tree
<1>2. /\ {entries'[e].id : e \in 1 .. Len(entries')} = {entries[e].id : e \in 1 .. Len(entries)}
      /\ {<<e, entries'[e].id, entries'[e].scope>> : e \in 1 .. Len(entries')}
           = {<<e, entries[e].id, entries[e].scope>> : e \in 1 .. Len(entries)}
  BY DEF SameDeclarations
<1>3. Ids' = Ids
  BY <1>1, <1>2 DEF Ids, PendingName, NoItem, Item
<1>4. Closed' = Closed /\ Len(entries') = Len(entries)
  BY <1>1 DEF Closed, SameDeclarations
<1>5. PICK spans : spans = w.spans
  OBVIOUS
<1>6. World(spans)' = World(spans)
  BY <1>1, <1>2, <1>3, <1>4 DEF World
<1>7. w = World(spans)'
  BY <1>5, <1>6
<1>8. SpansFit(w)'
  BY <1>1 DEF SpansFit
<1> QED BY <1>3, <1>5, <1>7, <1>8

LEMMA NothingPlaced == DOMAIN <<>> = {}
OBVIOUS

(* At the end of the text all of it is to be visited. *)
LEMMA EndOfTextTold ==
  ASSUME NEW tab, NEW dep, Held(tab, dep), Told, EndOfText PROVE Told'
<1>1. /\ phase = "parse" /\ Len(open) = 1 /\ item = <<>> /\ phase' = "generate"
      /\ work' = Parts(Global, unit)
      /\ UNCHANGED <<text, item, tables, driver, tree, tempCounter>> /\ UNCHANGED entries
      /\ UNCHANGED <<place, home, loads, uses>>
  BY DEF EndOfText, Parts, NoItem, text
<1>2. PICK w, start, now :
        /\ w = World(w.spans) /\ SpansFit(w) /\ Bodies /\ loads = <<>> /\ home = <<>> /\ place = 0
        /\ Written(w, start, now)
  BY <1>1, ToldFacts
<1>3. /\ now \in Position /\ now[1] = Len(uses) /\ start[1] = <<0, 0>>
      /\ ContentAt(w, 1, start[1], start[1 + 1]) /\ ReductionAt(w, start[1 + 1], now)
  <2>1. 1 \in 1 .. Len(open)
    BY <1>1
  <2> QED BY <1>1, <1>2, <2>1 DEF Written
<1>4. ListAt(w, Global, unit, <<0, 0>>, now)
  <2>1. start[1 + 1] = now
    BY <1>1, <1>3 DEF ReductionAt
  <2> QED BY <1>1, <1>3, <2>1 DEF ContentAt
<1>5. TasksAt(w, work', <<0, 0>>, now)
  <2>1. TasksAt(w, Parts(Global, unit), <<0, 0>>, now)
    BY <1>4, TasksListed DEF Parts
  <2> QED BY <1>1, <2>1
<1>6. UnchangedParse /\ SameDeclarations
  BY <1>1 DEF UnchangedParse, SameDeclarations
<1>7. Ids' = Ids /\ w = World(w.spans)' /\ SpansFit(w)'
  BY <1>2, <1>6, QuietWorld
<1>8. IsSeq(loads') /\ Len(loads') = 0 /\ place' \in Nat /\ home' = <<>>
  BY <1>1, <1>2, NothingIsSeq
<1>9. DOMAIN home' = {x \in Ids : x <= 0}
  <2>1. \A x \in Ids : ~(x <= 0)
    <3>1. tokens \in Nat /\ Ids \subseteq 1 .. tokens - 1
      BY IdsFit
    <3> QED BY <3>1
  <2> QED BY <1>8, <2>1, NothingPlaced
<1>10. \A e \in 1 .. Len(entries') : PlaceFits(e)'
  BY <1>8, NothingPlaced DEF PlaceFits
<1>11. \A k \in 1 .. Len(loads') : FALSE
  BY <1>8
<1>12. Visiting(w)'
  <2>1. TasksAt(w, work', <<Len(loads'), 0>>, now) /\ now[1] = Len(uses') /\ 0 \in Nat
    BY <1>1, <1>3, <1>5, <1>8
  <2>2. DOMAIN home' = {x \in Ids' : x <= 0}
    BY <1>7, <1>9
  <2> QED BY <1>1, <1>8, <1>10, <1>11, <2>1, <2>2 DEF Visiting
<1> QED BY <1>1, <1>7, <1>12 DEF Told

(* What every step of irgen starts from: the head of the work is visited   *)
(* first, then the rest.                                                   *)
LoadsFit ==
  \A k \in 1 .. Len(loads) :
    k \in 1 .. Len(uses) /\ uses[k] \in DOMAIN home /\ loads[k] = home[uses[k]]

(* Declarations up to t have been met, the head of the work is visited up  *)
(* to mid, the rest up to end.                                             *)
Generating(w, t, mid, end) ==
  /\ w = World(w.spans) /\ SpansFit(w)
  /\ phase = "generate" /\ IsSeq(loads) /\ place \in Nat /\ LoadsFit
  /\ t \in Nat /\ DOMAIN home = {x \in Ids : x <= t}
  /\ \A e \in 1 .. Len(entries) : PlaceFits(e)
  /\ mid \in Position /\ ItemAt(w, Task.table, Task.item, <<Len(loads), t>>, mid)
  /\ IsSeq(work) /\ TasksAt(w, Tail(work), mid, end) /\ end[1] = Len(uses)

LEMMA TaskFacts ==
  ASSUME Told, NEW kind, Doing(kind)
  PROVE  Task.item.kind = kind /\ \E w, t, mid, end : Generating(w, t, mid, end)
<1>1. phase = "generate" /\ work # <<>> /\ Task.item.kind = kind
  BY DEF Doing
<1>2. PICK w : w = World(w.spans) /\ SpansFit(w) /\ Visiting(w)
  BY <1>1 DEF Told
<1>3. PICK t, end :
        /\ TasksAt(w, work, <<Len(loads), t>>, end) /\ end[1] = Len(uses)
        /\ t \in Nat /\ DOMAIN home = {x \in Ids : x <= t}
  BY <1>2 DEF Visiting
<1>4. /\ IsSeq(loads) /\ place \in Nat /\ LoadsFit
      /\ \A e \in 1 .. Len(entries) : PlaceFits(e)
  BY <1>2 DEF Visiting, LoadsFit
<1>5. PICK lo : lo = <<Len(loads), t>>
  OBVIOUS
<1>6. TasksAt(w, work, lo, end)
  BY <1>3, <1>5
<1>7. /\ IsSeq(work)
      /\ \E mid \in Position : /\ ItemAt(w, Head(work).table, Head(work).item, lo, mid)
                               /\ TasksAt(w, Tail(work), mid, end)
  BY <1>1, <1>6, TasksFirst
<1>8. PICK mid \in Position : /\ ItemAt(w, Task.table, Task.item, lo, mid)
                             /\ TasksAt(w, Tail(work), mid, end)
  BY <1>7 DEF Task
<1>9. Generating(w, t, mid, end)
  BY <1>1, <1>2, <1>3, <1>4, <1>5, <1>7, <1>8 DEF Generating
<1> QED BY <1>1, <1>9

LEMMA VisitingStays ==
  ASSUME NEW w, w = World(w.spans), SpansFit(w), UnchangedParse, SameDeclarations,
         phase' = "generate", IsSeq(loads'), place' \in Nat,
         NEW t \in Nat, NEW end, TasksAt(w, work', <<Len(loads'), t>>, end), end[1] = Len(uses),
         DOMAIN home' = {x \in Ids : x <= t},
         LoadsFit', \A e \in 1 .. Len(entries) : PlaceFits(e)'
  PROVE  Told'
<1>1. Ids' = Ids /\ w = World(w.spans)' /\ SpansFit(w)'
  BY QuietWorld
<1>2. uses' = uses /\ Len(entries') = Len(entries)
  BY DEF UnchangedParse, text, SameDeclarations
<1>3. Visiting(w)'
  BY <1>1, <1>2 DEF Visiting, LoadsFit
<1> QED BY <1>1, <1>3 DEF Told

(* Steps that only replace the head by its parts. *)
LEMMA PartsTold ==
  ASSUME UnchangedParse, UNCHANGED <<entries, place, home, loads>>, phase' = phase,
         NEW w, NEW t, NEW mid, NEW end, Generating(w, t, mid, end),
         NEW table, NEW items, ListAt(w, table, items, <<Len(loads), t>>, mid),
         work' = Parts(table, items) \o Tail(work)
  PROVE  Told'
<1>0. /\ w = World(w.spans) /\ SpansFit(w) /\ phase = "generate" /\ IsSeq(loads) /\ place \in Nat
      /\ LoadsFit /\ t \in Nat /\ TasksAt(w, Tail(work), mid, end) /\ end[1] = Len(uses)
      /\ DOMAIN home = {x \in Ids : x <= t} /\ \A e \in 1 .. Len(entries) : PlaceFits(e)
  BY DEF Generating
<1>1. PICK lo, rest : lo = <<Len(loads), t>> /\ rest = Tail(work)
  OBVIOUS
<1>2. TasksAt(w, Parts(table, items) \o rest, lo, end)
  BY <1>0, <1>1, TasksReplaced
<1>3. TasksAt(w, work', <<Len(loads'), t>>, end)
  BY <1>1, <1>2
<1>4. SameDeclarations
  BY DEF SameDeclarations
<1>5. LoadsFit'
  BY <1>0 DEF LoadsFit, UnchangedParse, text
<1>6. \A e \in 1 .. Len(entries) : PlaceFits(e)'
  BY <1>0 DEF PlaceFits
<1> QED BY <1>0, <1>3, <1>4, <1>5, <1>6, VisitingStays

(* What the kind of a task says of it. *)
LEMMA KindFacts ==
  ASSUME NEW w, NEW t, NEW i, NEW lo, NEW hi, ItemAt(w, t, i, lo, hi)
  PROVE  /\ i.kind \in {"binary", "identifier", "call"} => NodeAt(w, i, lo, hi)
         /\ i.kind = "expression" => NodesAt(w, i.nodes, lo, hi)
         /\ i.kind = "declaration" =>
              /\ i = [kind |-> "declaration", scope |-> i.scope, defs |-> i.defs]
              /\ i.defs # <<>> /\ DefsAt(w, t, i.scope, i.defs, lo, hi)
         /\ i.kind = "block" => <<i.block, lo, hi>> \in w.spans
         /\ i.kind = "if" => IfAt(w, t, i, lo, hi)
         /\ i.kind = "function" => FunctionAt(w, i, lo, hi)
<1>1. NodeAt(w, i, lo, hi) => i.kind \in {"binary", "identifier", "call"}
  BY DEF NodeAt
<1>2. SimpleAt(w, t, i, lo, hi) => i.kind \in {"expression", "declaration", "block"}
  BY DEF SimpleAt
<1>3. IfAt(w, t, i, lo, hi) => i.kind = "if"
  BY DEF IfAt
<1>4. FunctionAt(w, i, lo, hi) => i.kind = "function"
  BY DEF FunctionAt
<1>5. /\ i.kind \in {"binary", "identifier", "call"} => NodeAt(w, i, lo, hi)
      /\ i.kind \in {"expression", "declaration", "block"} => SimpleAt(w, t, i, lo, hi)
      /\ i.kind = "if" => IfAt(w, t, i, lo, hi)
      /\ i.kind = "function" => FunctionAt(w, i, lo, hi)
  BY <1>1, <1>2, <1>3, <1>4 DEF ItemAt
<1> QED BY <1>5 DEF SimpleAt

LEMMA GenBlockTold ==
  ASSUME Told, GenBlock PROVE Told'
<1>1. /\ Doing("block") /\ UnchangedParse /\ UNCHANGED <<entries, place, home, loads>> /\ phase' = phase
      /\ work' = Parts(blocks[Task.item.block].table, blocks[Task.item.block].statements) \o Tail(work)
  BY DEF GenBlock
<1>2. Task.item.kind = "block"
  BY <1>1, TaskFacts
<1>3. PICK w, t, mid, end : Generating(w, t, mid, end)
  BY <1>1, TaskFacts
<1>4. SpansFit(w) /\ ItemAt(w, Task.table, Task.item, <<Len(loads), t>>, mid)
  BY <1>3 DEF Generating
<1>5. PICK i, lo : i = Task.item /\ lo = <<Len(loads), t>>
  OBVIOUS
<1>6. ItemAt(w, Task.table, i, lo, mid) /\ i.kind = "block"
  BY <1>2, <1>4, <1>5
<1>7. <<i.block, lo, mid>> \in w.spans
  BY <1>6, KindFacts
<1>8. ListAt(w, blocks[i.block].table, blocks[i.block].statements, lo, mid)
  <2>1. PICK s : s = <<i.block, lo, mid>>
    OBVIOUS
  <2>2. s \in w.spans /\ s[1] = i.block /\ s[2] = lo /\ s[3] = mid
    BY <1>7, <2>1
  <2> QED BY <1>4, <2>2 DEF SpansFit
<1> QED BY <1>1, <1>3, <1>5, <1>8, PartsTold

LEMMA GenExpressionTold ==
  ASSUME Told, GenExpression PROVE Told'
<1>1. /\ Doing("expression") /\ UnchangedParse /\ UNCHANGED <<entries, place, home, loads>> /\ phase' = phase
      /\ work' = Parts(Task.table, Task.item.nodes) \o Tail(work)
  BY DEF GenExpression
<1>2. Task.item.kind = "expression"
  BY <1>1, TaskFacts
<1>3. PICK w, t, mid, end : Generating(w, t, mid, end)
  BY <1>1, TaskFacts
<1>4. SpansFit(w) /\ ItemAt(w, Task.table, Task.item, <<Len(loads), t>>, mid)
  BY <1>3 DEF Generating
<1>5. PICK i, lo : i = Task.item /\ lo = <<Len(loads), t>>
  OBVIOUS
<1>6. ItemAt(w, Task.table, i, lo, mid) /\ i.kind = "expression"
  BY <1>2, <1>4, <1>5
<1>7. ListAt(w, Task.table, i.nodes, lo, mid)
  BY <1>6, KindFacts, NodesListed
<1> QED BY <1>1, <1>3, <1>5, <1>7, PartsTold

LEMMA GenIfTold ==
  ASSUME Told, GenIf PROVE Told'
<1>1. PICK i : i = Task.item
  OBVIOUS
<1>2. PICK then : then = IF Len(i.conditions) = 1 THEN i.then ELSE [i EXCEPT !.conditions = Tail(@)]
  OBVIOUS
<1>3. /\ Doing("if") /\ UnchangedParse /\ UNCHANGED <<entries, place, home, loads>> /\ phase' = phase
      /\ work' = Parts(Task.table, Append(Head(i.conditions), then)) \o Tail(work)
  BY <1>1, <1>2 DEF GenIf
<1>4. i.kind = "if"
  BY <1>1, <1>3, TaskFacts
<1>5. PICK w, t, mid, end : Generating(w, t, mid, end)
  BY <1>3, TaskFacts
<1>6. PICK lo : lo = <<Len(loads), t>>
  OBVIOUS
<1>7. ItemAt(w, Task.table, i, lo, mid) /\ mid \in Position
  BY <1>1, <1>5, <1>6 DEF Generating
<1>8. IfAt(w, Task.table, i, lo, mid)
  BY <1>4, <1>7, KindFacts
<1>9. PICK c, s : c = i.conditions /\ s = i.then
  OBVIOUS
<1>10. PICK m \in Position : ConditionsAt(w, c, lo, m) /\ SimpleAt(w, Task.table, s, m, mid)
  BY <1>8, <1>9 DEF IfAt
<1>11. i = [kind |-> "if", conditions |-> c, then |-> s] /\ c # <<>>
  BY <1>8, <1>9 DEF IfAt
<1>12. PICK first \in Position : NodesAt(w, Head(c), lo, first) /\ ConditionsAt(w, Tail(c), first, m)
  BY <1>10, <1>11, ConditionsFirst
<1>13. IsSeq(Tail(c)) /\ Len(c) \in Nat \ {0} /\ Len(Tail(c)) = Len(c) - 1
  BY <1>10, <1>11, ConditionsFirst, TailFacts
<1>14. ItemAt(w, Task.table, then, first, mid)
  <2>1. CASE Len(c) = 1
    <3>1. Len(Tail(c)) = 0
      BY <1>13, <2>1
    <3>2. first = m
      BY <1>12, <3>1, PathNone DEF ConditionsAt
    <3> QED BY <1>2, <1>9, <1>10, <2>1, <3>2 DEF ItemAt
  <2>2. CASE Len(c) # 1
    <3>1. PICK rest : rest = Tail(c)
      OBVIOUS
    <3>2. then = [kind |-> "if", conditions |-> rest, then |-> s]
      <4>1. then = [i EXCEPT !.conditions = rest]
        BY <1>2, <1>9, <2>2, <3>1
      <4> QED BY <1>11, <4>1
    <3>3. rest # <<>>
      <4>1. Len(rest) # 0
        BY <1>13, <2>2, <3>1
      <4> QED BY <4>1, NothingIsSeq
    <3>4. ConditionsAt(w, rest, first, m)
      BY <1>12, <3>1
    <3>5. IfAt(w, Task.table, then, first, mid)
      BY <1>10, <3>2, <3>3, <3>4 DEF IfAt
    <3> QED BY <3>5 DEF ItemAt
  <2> QED BY <2>1, <2>2
<1>15. ListAt(w, Task.table, Append(Head(c), then), lo, mid)
  <2>1. ListAt(w, Task.table, Head(c), lo, first)
    BY <1>12, NodesListed
  <2> QED BY <1>7, <1>14, <2>1, ListNext
<1> QED BY <1>3, <1>5, <1>6, <1>9, <1>15, PartsTold

LEMMA EndOfWorkTold ==
  ASSUME NEW tab, NEW dep, Held(tab, dep), Told, EndOfWork PROVE Told'
<1>1. /\ phase = "generate" /\ work = <<>> /\ phase' = "done" /\ UNCHANGED entries /\ UnchangedParse
      /\ UNCHANGED <<work, place, home, loads>>
  BY DEF EndOfWork, generated
<1>2. PICK w : w = World(w.spans) /\ SpansFit(w) /\ Visiting(w)
  BY <1>1 DEF Told
<1>3. SameDeclarations /\ uses' = uses
  BY <1>1 DEF SameDeclarations, UnchangedParse, text
<1>4. Ids' = Ids /\ w = World(w.spans)' /\ SpansFit(w)'
  BY <1>1, <1>2, <1>3, QuietWorld
<1>5. Visiting(w)'
  BY <1>1, <1>2, <1>3, <1>4 DEF Visiting, PlaceFits
<1> QED BY <1>1, <1>4, <1>5 DEF Told

(* A symbol of the world is an entry. *)
LEMMA SymbolFacts ==
  ASSUME NEW spans, NEW w, w = World(spans), NEW e, NEW id, NEW scope, <<e, id, scope>> \in w.symbols
  PROVE  e \in 1 .. Len(entries) /\ entries[e].id = id /\ entries[e].scope = scope
BY DEF World

(* An entry that irgen changes keeps its declaration. *)
LEMMA PlacesFacts ==
  ASSUME EntriesFit, NEW e \in 1 .. Len(entries), NEW p, Places(e, p)
  PROVE  /\ SameDeclarations /\ entries'[e].operand = p
         /\ \A d \in 1 .. Len(entries) : d # e => entries'[d] = entries[d]
<1>1. EntriesSame
  BY PlacesSame
<1>2. IsEntry(entries[e]) /\ DOMAIN entries = 1 .. Len(entries)
  BY SameLength DEF EntriesFit, EntryFits
<1>3. PICK x : x = entries[e] /\ IsEntry(x)
  BY <1>2
<1>4. entries' = [entries EXCEPT ![e].operand = p]
  BY DEF Places
<1>5. entries'[e] = [x EXCEPT !.operand = p]
  BY <1>2, <1>3, <1>4
<1>6. entries'[e].operand = p
  <2>1. [x EXCEPT !.operand = p] = [name |-> x.name, scope |-> x.scope, id |-> x.id, operand |-> p]
    BY <1>3 DEF IsEntry
  <2> QED BY <1>5, <2>1
<1>7. \A d \in 1 .. Len(entries) : d # e => entries'[d] = entries[d]
  BY <1>2, <1>4
<1> QED BY <1>1, <1>6, <1>7 DEF EntriesSame, SameDeclarations

(* The result of an operator is no variable. *)
LEMMA GenBinaryTold ==
  ASSUME NEW tab, NEW dep, Held(tab, dep), Told, GenBinary PROVE Told'
<1>1. PICK i, e, lo1 : i = Task.item /\ e = i.entry /\ lo1 = Len(loads)
  OBVIOUS
<1>2. /\ Doing("binary") /\ Places(e, place + 1) /\ place' = place + 1 /\ work' = Tail(work)
      /\ UNCHANGED <<home, loads>> /\ UnchangedParse /\ phase' = phase
  BY <1>1 DEF GenBinary
<1>3. i.kind = "binary"
  BY <1>1, <1>2, TaskFacts
<1>4. PICK w, t, mid, end : Generating(w, t, mid, end)
  BY <1>2, TaskFacts
<1>5. PICK lo : lo = <<lo1, t>>
  OBVIOUS
<1>6. /\ ItemAt(w, Task.table, i, lo, mid) /\ TasksAt(w, Tail(work), mid, end) /\ w = World(w.spans)
      /\ SpansFit(w) /\ phase = "generate" /\ IsSeq(loads) /\ place \in Nat /\ LoadsFit /\ t \in Nat
      /\ DOMAIN home = {x \in Ids : x <= t} /\ end[1] = Len(uses)
      /\ \A d \in 1 .. Len(entries) : PlaceFits(d)
  BY <1>1, <1>4, <1>5 DEF Generating
<1>7. mid = lo /\ <<e, Null, "temp">> \in w.symbols
  <2>1. NodeAt(w, i, lo, mid)
    BY <1>3, <1>6, KindFacts
  <2> QED BY <1>1, <1>3, <2>1 DEF NodeAt
<1>8. e \in 1 .. Len(entries) /\ entries[e].scope = "temp"
  <2>1. PICK spans : spans = w.spans
    OBVIOUS
  <2> QED BY <1>6, <1>7, <2>1, SymbolFacts
<1>9. /\ SameDeclarations
      /\ \A d \in 1 .. Len(entries) : d # e => entries'[d] = entries[d]
  BY <1>2, <1>8, HeldFacts, PlacesFacts
<1>10. ASSUME NEW d \in 1 .. Len(entries) PROVE PlaceFits(d)'
  <2>1. CASE d = e
    <3>1. entries'[d].scope = "temp"
      BY <1>8, <1>9, <2>1 DEF SameDeclarations
    <3> QED BY <3>1 DEF PlaceFits, Variables
  <2>2. CASE d # e
    BY <1>2, <1>6, <1>9, <2>2 DEF PlaceFits
  <2> QED BY <2>1, <2>2
<1>11. LoadsFit'
  BY <1>2, <1>6 DEF LoadsFit, UnchangedParse, text
<1>12. TasksAt(w, work', <<Len(loads'), t>>, end)
  BY <1>1, <1>2, <1>5, <1>6, <1>7
<1>13. phase' = "generate" /\ IsSeq(loads') /\ place' \in Nat /\ DOMAIN home' = {x \in Ids : x <= t}
  BY <1>2, <1>6
<1> QED BY <1>2, <1>6, <1>9, <1>10, <1>11, <1>12, <1>13, VisitingStays

(* A name is read, from the place of its declaration, which was met.       *)
LEMMA LoadTold ==
  ASSUME UnchangedParse, UNCHANGED <<entries, place, home>>, phase' = phase, work' = Tail(work),
         NEW w, NEW t, NEW mid, NEW end, Generating(w, t, mid, end),
         NEW id \in Ids, id <= t, <<Len(loads) + 1, id>> \in w.uses,
         loads' = Append(loads, home[id]), mid = <<Len(loads) + 1, t>>
  PROVE  Told'
<1>1. /\ TasksAt(w, Tail(work), mid, end) /\ w = World(w.spans)
      /\ SpansFit(w) /\ phase = "generate" /\ IsSeq(loads) /\ place \in Nat /\ LoadsFit /\ t \in Nat
      /\ DOMAIN home = {x \in Ids : x <= t} /\ end[1] = Len(uses)
      /\ \A d \in 1 .. Len(entries) : PlaceFits(d)
  BY DEF Generating
<1>2. /\ IsSeq(loads') /\ Len(loads') = Len(loads) + 1 /\ Len(loads) \in Nat
      /\ loads'[Len(loads) + 1] = home[id] /\ \A k \in 1 .. Len(loads) : loads'[k] = loads[k]
  BY <1>1, AppendFacts
<1>3. Len(loads) + 1 \in 1 .. Len(uses) /\ uses[Len(loads) + 1] = id
  <2>1. PICK spans, k : spans = w.spans /\ k = Len(loads) + 1
    OBVIOUS
  <2>2. w = World(spans) /\ <<k, id>> \in w.uses
    BY <1>1, <2>1
  <2>3. k \in 1 .. Len(uses) /\ uses[k] = id
    BY <2>2 DEF World
  <2> QED BY <2>1, <2>3
<1>4. id \in DOMAIN home
  BY <1>1
<1>5. LoadsFit'
  <2>1. uses' = uses /\ home' = home
    BY DEF UnchangedParse, text
  <2>2. ASSUME NEW k \in 1 .. Len(loads')
        PROVE  k \in 1 .. Len(uses) /\ uses[k] \in DOMAIN home /\ loads'[k] = home[uses[k]]
    <3>1. k \in 1 .. Len(loads) \/ k = Len(loads) + 1
      BY <1>2
    <3> QED BY <1>1, <1>2, <1>3, <1>4, <3>1 DEF LoadsFit
  <2> QED BY <2>1, <2>2 DEF LoadsFit
<1>6. SameDeclarations /\ \A d \in 1 .. Len(entries) : PlaceFits(d)'
  BY <1>1 DEF SameDeclarations, PlaceFits
<1>7. TasksAt(w, work', <<Len(loads'), t>>, end)
  BY <1>1, <1>2
<1>8. phase' = "generate" /\ place' \in Nat /\ DOMAIN home' = {x \in Ids : x <= t}
  BY <1>1
<1> QED BY <1>1, <1>2, <1>5, <1>6, <1>7, <1>8, VisitingStays

(* The declaration that a name means, and its place. *)
ReadOf(w, t, i, id) ==
  /\ id \in Ids /\ id = entries[i.entry].id /\ id <= t /\ <<Len(loads) + 1, id>> \in w.uses
  /\ i.kind = "call" => -entries[i.entry].id = home[id]
  /\ i.kind = "identifier" => entries[i.entry].operand = home[id] /\ entries[i.entry].operand # Null

LEMMA ReadFacts ==
  ASSUME NEW w, NEW t, NEW mid, NEW end, Generating(w, t, mid, end),
         NEW i, i = Task.item, i.kind \in {"identifier", "call"}
  PROVE  /\ mid = <<Len(loads) + 1, t>> /\ i.entry \in 1 .. Len(entries)
         /\ \E id : ReadOf(w, t, i, id)
<1>1. PICK lo, n, e : lo = <<n, t>> /\ n = Len(loads) /\ e = i.entry
  OBVIOUS
<1>2. /\ ItemAt(w, Task.table, i, lo, mid) /\ w = World(w.spans)
      /\ DOMAIN home = {x \in Ids : x <= t}
      /\ \A d \in 1 .. Len(entries) : PlaceFits(d)
  BY <1>1 DEF Generating
<1>3. NodeAt(w, i, lo, mid) /\ i.kind # "binary"
  BY <1>2, KindFacts
<1>4. PICK id \in w.declared, scope \in Variables \cup {"function"} :
        /\ <<e, id, scope>> \in w.symbols /\ <<lo[1] + 1, id>> \in w.uses /\ id <= lo[2]
        /\ i.kind = "call" <=> scope = "function"
  BY <1>1, <1>3 DEF NodeAt
<1>5. mid = <<lo[1] + 1, lo[2]>>
  BY <1>3 DEF NodeAt
<1>6. lo[1] = n /\ lo[2] = t
  BY <1>1
<1>7. e \in 1 .. Len(entries) /\ entries[e].id = id /\ entries[e].scope = scope /\ id \in Ids
  <2>1. PICK spans : spans = w.spans
    OBVIOUS
  <2>2. w = World(spans)
    BY <1>2, <2>1
  <2>3. id \in Ids
    BY <2>2 DEF World
  <2> QED BY <1>4, <2>2, <2>3, SymbolFacts
<1>8. id \in DOMAIN home /\ PlaceFits(e)
  BY <1>2, <1>4, <1>6, <1>7
<1>9. i.kind = "call" => -entries[e].id = home[id]
  BY <1>4, <1>7, <1>8 DEF PlaceFits
<1>10. i.kind = "identifier" => entries[e].operand = home[id] /\ entries[e].operand # Null
  <2>1. i.kind = "identifier" => scope \in Variables
    BY <1>4
  <2>2. \A x \in Nat \ {0} : x # Null
    BY DEF Null
  <2> QED BY <1>7, <1>8, <2>1, <2>2 DEF PlaceFits
<1>11. ReadOf(w, t, i, id)
  BY <1>1, <1>4, <1>6, <1>7, <1>9, <1>10 DEF ReadOf
<1> QED BY <1>1, <1>5, <1>6, <1>7, <1>11

LEMMA GenIdentifierTold ==
  ASSUME Told, GenIdentifier PROVE Told'
<1>1. PICK i : i = Task.item
  OBVIOUS
<1>2. /\ Doing("identifier") /\ work' = Tail(work) /\ UNCHANGED <<entries, place, home>> /\ UnchangedParse
      /\ loads' = IF entries[i.entry].operand = Null THEN loads ELSE Append(loads, entries[i.entry].operand)
      /\ phase' = IF entries[i.entry].operand = Null THEN "failed" ELSE phase
  BY <1>1 DEF GenIdentifier
<1>3. i.kind = "identifier"
  BY <1>1, <1>2, TaskFacts
<1>4. PICK w, t, mid, end : Generating(w, t, mid, end)
  BY <1>2, TaskFacts
<1>5. mid = <<Len(loads) + 1, t>>
  BY <1>1, <1>3, <1>4, ReadFacts
<1>6. PICK id : ReadOf(w, t, i, id)
  BY <1>1, <1>3, <1>4, ReadFacts
<1>7. loads' = Append(loads, home[id]) /\ phase' = phase
  BY <1>2, <1>3, <1>6 DEF ReadOf
<1>8. id \in Ids /\ id <= t /\ <<Len(loads) + 1, id>> \in w.uses
  BY <1>6 DEF ReadOf
<1> QED BY <1>2, <1>4, <1>5, <1>7, <1>8, LoadTold

LEMMA GenCallTold ==
  ASSUME Told, GenCall PROVE Told'
<1>1. PICK i : i = Task.item
  OBVIOUS
<1>2. /\ Doing("call") /\ work' = Tail(work) /\ UNCHANGED <<entries, place, home>> /\ UnchangedParse
      /\ loads' = Append(loads, -entries[i.entry].id) /\ phase' = phase
  BY <1>1 DEF GenCall
<1>3. i.kind = "call"
  BY <1>1, <1>2, TaskFacts
<1>4. PICK w, t, mid, end : Generating(w, t, mid, end)
  BY <1>2, TaskFacts
<1>5. mid = <<Len(loads) + 1, t>>
  BY <1>1, <1>3, <1>4, ReadFacts
<1>6. PICK id : ReadOf(w, t, i, id)
  BY <1>1, <1>3, <1>4, ReadFacts
<1>7. loads' = Append(loads, home[id])
  BY <1>2, <1>3, <1>6 DEF ReadOf
<1>8. id \in Ids /\ id <= t /\ <<Len(loads) + 1, id>> \in w.uses
  BY <1>6 DEF ReadOf
<1> QED BY <1>2, <1>4, <1>5, <1>7, <1>8, LoadTold

LEMMA NameFacts ==
  ASSUME Containers, NEW spans, NEW w, w = World(spans), NEW t, NEW name, NEW id, NameAt(w, t, name, id)
  PROVE  \E e \in 1 .. Len(entries) :
           Find(t, name) = e /\ entries[e].id = id /\ entries[e].scope \in Variables
<1>1. PICK e : <<t, name, e>> \in w.names /\ \E scope \in Variables : <<e, id, scope>> \in w.symbols
  BY DEF NameAt
<1>2. e \in 1 .. Len(entries) /\ entries[e].id = id /\ entries[e].scope \in Variables
  BY <1>1, SymbolFacts
<1>3. /\ t \in 1 .. Len(tables) /\ name \in DOMAIN tables[t].entries /\ tables[t].entries[name] = e
  <2>1. PICK n : n = <<t, name, e>>
    OBVIOUS
  <2>2. n[1] = t /\ n[2] = name /\ n[3] = e /\ n \in w.names
    BY <1>1, <2>1
  <2>3. /\ n[1] \in 1 .. Len(tables) /\ n[2] \in DOMAIN tables[n[1]].entries
        /\ tables[n[1]].entries[n[2]] = n[3]
    BY <2>2 DEF World
  <2> QED BY <2>2, <2>3
<1>4. Find(t, name) = e
  BY <1>3, FindSteps
<1> QED BY <1>2, <1>4

LEMMA DeclaresFacts ==
  ASSUME NEW spans, NEW w, w = World(spans), Ids \subseteq Nat, NEW n, NEW t \in Nat,
         NEW lo, lo = <<n, t>>, NEW m \in Position, NEW first, NEW last, Declares(w, lo, m, first, last)
  PROVE  /\ m = <<n, last>> /\ first \in Nat /\ last \in Nat /\ first .. last \subseteq Ids
         /\ {x \in Ids : x <= last} = {x \in Ids : x <= t} \cup (first .. last)
         /\ \A x \in first .. last : ~(x <= t)
<1>1. w.declared = Ids /\ lo[1] = n /\ lo[2] = t
  BY DEF World
<1>2. /\ m = <<n, last>> /\ t < first /\ first <= last
      /\ first .. last \subseteq Ids /\ first \in Ids
      /\ \A x \in Ids : x <= t \/ first <= x
  BY <1>1 DEF Declares
<1>3. m[2] = last /\ m[2] \in Nat
  BY <1>2 DEF Position
<1>4. first \in Nat /\ last \in Nat
  BY <1>2, <1>3
<1>5. \A x \in Ids : x <= last => x <= t \/ x \in first .. last
  BY <1>2, <1>4
<1>6. \A x \in Ids : x <= t => x <= last
  BY <1>2, <1>4
<1>7. \A x \in first .. last : x <= last /\ ~(x <= t)
  BY <1>2, <1>4
<1> QED BY <1>2, <1>4, <1>5, <1>6, <1>7

(* A sequence in front of nothing, and of one more. *)
LEMMA NodesAndRest ==
  ASSUME NEW s, IsSeq(s) PROVE s \o <<>> = s /\ \A x : s \o <<x>> = Append(s, x)
<1>1. PICK S : s \in Seq(S)
  BY DEF IsSeq
<1>2. s \o <<>> = s
  BY <1>1
<1>3. ASSUME NEW x PROVE s \o <<x>> = Append(s, x)
  <2>1. s \in Seq(S \cup {x}) /\ x \in S \cup {x}
    BY <1>1
  <2> QED BY <2>1
<1> QED BY <1>2, <1>3

(* The place of a variable, and the loads before it. *)
LEMMA PlacedVariable ==
  ASSUME EntriesFit, NEW e \in 1 .. Len(entries), entries[e].scope \in Variables,
         \A d \in 1 .. Len(entries) : PlaceFits(d), LoadsFit, place \in Nat,
         Places(e, place + 1), NEW id, id = entries[e].id, home' = With(home, id, place + 1),
         id \notin DOMAIN home, UNCHANGED <<loads, uses>>
  PROVE  LoadsFit' /\ \A d \in 1 .. Len(entries) : PlaceFits(d)'
<1>1. /\ DOMAIN home' = DOMAIN home \cup {id} /\ home'[id] = place + 1
      /\ \A x \in DOMAIN home : home'[x] = home[x]
  BY DEF With
<1>2. /\ entries'[e].operand = place + 1 /\ SameDeclarations
      /\ \A d \in 1 .. Len(entries) : d # e => entries'[d] = entries[d]
  BY PlacesFacts
<1>3. entries[e].scope # "function" /\ id # Null /\ place + 1 \in Nat \ {0}
  BY DEF Variables, EntriesFit, EntryFits
<1>4. ASSUME NEW d \in 1 .. Len(entries) PROVE PlaceFits(d)'
  <2>1. CASE d = e
    <3>1. entries'[d].id = id /\ entries'[d].scope = entries[e].scope
      BY <1>2, <2>1 DEF SameDeclarations
    <3> QED BY <1>1, <1>2, <1>3, <2>1, <3>1 DEF PlaceFits
  <2>2. CASE d # e
    <3>1. entries[d].id # id
      BY <1>3, <2>2 DEF EntriesFit
    <3>2. entries'[d] = entries[d] /\ PlaceFits(d)
      BY <1>2, <2>2
    <3> QED BY <1>1, <3>1, <3>2 DEF PlaceFits
  <2> QED BY <2>1, <2>2
<1>5. LoadsFit'
  BY <1>1 DEF LoadsFit
<1> QED BY <1>4, <1>5

LEMMA GenDeclarationTold ==
  ASSUME NEW tab, NEW dep, Held(tab, dep), Told, GenDeclaration PROVE Told'
<1>1. PICK d, def, table, n : d = Task.item /\ def = Head(d.defs) /\ table = Task.table /\ n = Len(loads)
  OBVIOUS
<1>2. PICK rest : rest = IF Len(d.defs) = 1 THEN <<>> ELSE <<[d EXCEPT !.defs = Tail(@)]>>
  OBVIOUS
<1>3. PICK nodes : nodes = IF d.scope = "local" THEN def.nodes ELSE <<>>
  OBVIOUS
<1>4. /\ Doing("declaration") /\ Places(Find(table, def.name), place + 1)
      /\ home' = With(home, def.id, place + 1) /\ work' = Parts(table, nodes \o rest) \o Tail(work)
      /\ place' = place + 1 /\ UNCHANGED loads /\ UnchangedParse /\ phase' = phase
  BY <1>1, <1>2, <1>3 DEF GenDeclaration
<1>5. d.kind = "declaration"
  BY <1>1, <1>4, TaskFacts
<1>6. PICK w, t, mid, end : Generating(w, t, mid, end)
  BY <1>4, TaskFacts
<1>7. PICK lo : lo = <<n, t>>
  OBVIOUS
<1>8. /\ ItemAt(w, table, d, lo, mid) /\ TasksAt(w, Tail(work), mid, end) /\ w = World(w.spans)
      /\ SpansFit(w) /\ phase = "generate" /\ IsSeq(loads) /\ place \in Nat /\ LoadsFit /\ t \in Nat
      /\ DOMAIN home = {x \in Ids : x <= t} /\ end[1] = Len(uses) /\ mid \in Position
      /\ \A e \in 1 .. Len(entries) : PlaceFits(e)
  BY <1>1, <1>6, <1>7 DEF Generating
<1>9. /\ d = [kind |-> "declaration", scope |-> d.scope, defs |-> d.defs]
      /\ d.defs # <<>> /\ DefsAt(w, table, d.scope, d.defs, lo, mid)
  BY <1>5, <1>8, KindFacts
<1>10. PICK defs, scope : defs = d.defs /\ scope = d.scope
  OBVIOUS
<1>11. PICK m \in Position : DefAt(w, table, scope, def, lo, m) /\ DefsAt(w, table, scope, Tail(defs), m, mid)
  BY <1>1, <1>9, <1>10, DefsFirst
<1>12. /\ NameAt(w, table, def.name, def.id)
       /\ \E begin \in Position : Declares(w, lo, begin, def.id, def.id) /\ NodesAt(w, nodes, begin, m)
  BY <1>3, <1>10, <1>11 DEF DefAt
<1>13. PICK begin \in Position : Declares(w, lo, begin, def.id, def.id) /\ NodesAt(w, nodes, begin, m)
  BY <1>12
<1>14. /\ Containers /\ EntriesFit /\ Ids \subseteq Nat
  <2>1. tokens \in Nat \ {0} /\ Ids \subseteq 1 .. tokens - 1
    BY IdsFit
  <2> QED BY <2>1, HeldFacts
<1>15. PICK spans, id : spans = w.spans /\ id = def.id
  OBVIOUS
<1>16. PICK e \in 1 .. Len(entries) :
         Find(table, def.name) = e /\ entries[e].id = id /\ entries[e].scope \in Variables
  BY <1>8, <1>12, <1>14, <1>15, NameFacts
<1>17. /\ begin = <<n, id>> /\ id \in Nat
       /\ {x \in Ids : x <= id} = {x \in Ids : x <= t} \cup (id .. id)
       /\ \A x \in id .. id : ~(x <= t)
  <2>1. w = World(spans) /\ Declares(w, lo, begin, id, id)
    BY <1>8, <1>13, <1>15
  <2>2. Ids \subseteq Nat /\ t \in Nat
    BY <1>8, <1>14
  <2>3. PICK last : last = id
    OBVIOUS
  <2>4. begin \in Position /\ Declares(w, lo, begin, id, last)
    BY <1>13, <2>1, <2>3
  <2>5. /\ begin = <<n, last>> /\ id \in Nat /\ last \in Nat /\ id .. last \subseteq Ids
        /\ {x \in Ids : x <= last} = {x \in Ids : x <= t} \cup (id .. last)
        /\ \A x \in id .. last : ~(x <= t)
    BY <1>7, <2>1, <2>2, <2>4, DeclaresFacts
  <2> QED BY <2>3, <2>5
<1>18. id .. id = {id}
  BY <1>17
<1>19. id \notin DOMAIN home
  BY <1>8, <1>17, <1>18
<1>20. DOMAIN home' = {x \in Ids : x <= id}
  BY <1>4, <1>8, <1>15, <1>17, <1>18 DEF With
<1>21. uses' = uses /\ loads' = loads
  BY <1>4 DEF UnchangedParse, text
<1>22. LoadsFit' /\ \A x \in 1 .. Len(entries) : PlaceFits(x)'
  BY <1>4, <1>8, <1>14, <1>15, <1>16, <1>19, <1>21, PlacedVariable
<1>23. ListAt(w, table, nodes \o rest, begin, mid)
  <2>1. IsSeq(nodes) /\ ListAt(w, table, nodes, begin, m)
    BY <1>13, NodesListed DEF NodesAt
  <2>2. IsSeq(defs) /\ defs # <<>>
    BY <1>9, <1>10 DEF DefsAt
  <2>3. Len(defs) \in Nat \ {0} /\ Len(Tail(defs)) = Len(defs) - 1
    BY <2>2, TailFacts
  <2>4. CASE Len(defs) = 1
    <3>1. Len(Tail(defs)) = 0
      BY <2>3, <2>4
    <3>2. m = mid
      BY <1>11, <3>1, PathNone DEF DefsAt
    <3>3. nodes \o rest = nodes
      BY <1>2, <1>10, <2>1, <2>4, NodesAndRest
    <3> QED BY <2>1, <3>2, <3>3
  <2>5. CASE Len(defs) # 1
    <3>1. PICK tail, i : tail = Tail(defs) /\ i = [d EXCEPT !.defs = tail]
      OBVIOUS
    <3>2. i = [kind |-> "declaration", scope |-> scope, defs |-> tail]
      <4>1. d = [kind |-> "declaration", scope |-> scope, defs |-> defs]
        BY <1>9, <1>10
      <4> QED BY <3>1, <4>1
    <3>3. tail # <<>>
      <4>1. Len(tail) # 0
        BY <2>3, <2>5, <3>1
      <4> QED BY <4>1, NothingIsSeq
    <3>4. ItemAt(w, table, i, m, mid)
      <4>1. DefsAt(w, table, scope, tail, m, mid)
        BY <1>11, <3>1
      <4> QED BY <3>2, <3>3, <4>1 DEF ItemAt, SimpleAt
    <3>5. nodes \o rest = Append(nodes, i)
      <4>1. rest = <<i>>
        BY <1>2, <1>10, <2>5, <3>1
      <4> QED BY <2>1, <4>1, NodesAndRest
    <3>6. ListAt(w, table, Append(nodes, i), begin, mid)
      BY <1>8, <2>1, <3>4, ListNext
    <3> QED BY <3>5, <3>6
  <2> QED BY <2>4, <2>5
<1>24. TasksAt(w, work', <<Len(loads'), id>>, end)
  <2>1. PICK later, items : later = Tail(work) /\ items = nodes \o rest
    OBVIOUS
  <2>2. TasksAt(w, Parts(table, items) \o later, begin, end)
    BY <1>8, <1>23, <2>1, TasksReplaced
  <2> QED BY <1>1, <1>4, <1>17, <1>21, <2>1, <2>2
<1>25. SameDeclarations
  BY <1>4, <1>14, <1>16, PlacesFacts
<1>26. phase' = "generate" /\ IsSeq(loads') /\ place' \in Nat
  BY <1>4, <1>8
<1> QED BY <1>4, <1>8, <1>17, <1>20, <1>22, <1>24, <1>25, <1>26, VisitingStays

LEMMA FirstOrAfter ==
  ASSUME NEW id \in Nat, NEW n \in Nat
  PROVE  \A x \in id .. id + n : x = id \/ \E k \in 1 .. n : x = id + k
<1> TAKE x \in id .. id + n
<1>1. x = id \/ x - id \in 1 .. n
  OBVIOUS
<1>2. x = id + (x - id)
  OBVIOUS
<1> QED BY <1>1, <1>2

(* A function and its parameters are found, and their places are known. *)
LEMMA PlacedFunction ==
  ASSUME EntriesFit, NEW n \in Nat, NEW first \in 1 .. Len(entries), entries[first].scope = "function",
         \A k \in 1 .. n :
           /\ first + k \in 1 .. Len(entries) /\ entries[first + k].scope = "param"
           /\ entries[first + k].id = entries[first].id + k,
         \A d \in 1 .. Len(entries) : PlaceFits(d), LoadsFit, place \in Nat, UNCHANGED <<loads, uses>>,
         SameDeclarations,
         \A e \in 1 .. Len(entries) : (\A k \in 1 .. n : e # first + k) => entries'[e] = entries[e],
         \A k \in 1 .. n : entries'[first + k].operand = place + k,
         NEW id \in Nat, id = entries[first].id, \A x \in id .. id + n : x \notin DOMAIN home,
         DOMAIN home' = DOMAIN home \cup (id .. id + n),
         \A x \in DOMAIN home : home'[x] = home[x],
         home'[id] = -id, \A k \in 1 .. n : home'[id + k] = place + k
  PROVE  LoadsFit' /\ \A d \in 1 .. Len(entries) : PlaceFits(d)'
<1>1. LoadsFit'
  BY DEF LoadsFit
<1>2. ASSUME NEW d \in 1 .. Len(entries) PROVE PlaceFits(d)'
  <2>0. entries'[d].id = entries[d].id /\ entries'[d].scope = entries[d].scope /\ PlaceFits(d)
    BY DEF SameDeclarations
  <2>1. CASE d = first
    BY <2>0, <2>1 DEF PlaceFits, Variables
  <2>2. CASE \E k \in 1 .. n : d = first + k
    <3>1. PICK k \in 1 .. n : d = first + k
      BY <2>2
    <3>2. /\ entries'[d].id = id + k /\ entries'[d].scope = "param" /\ entries'[d].operand = place + k
          /\ home'[id + k] = place + k
      BY <2>0, <3>1
    <3>3. place + k \in Nat \ {0}
      OBVIOUS
    <3> QED BY <3>2, <3>3 DEF PlaceFits
  <2>3. CASE d # first /\ \A k \in 1 .. n : d # first + k
    <3>1. entries'[d] = entries[d]
      BY <2>3
    <3>2. entries[d].id # id
      BY <2>3 DEF EntriesFit, EntryFits
    <3>3. ASSUME NEW k \in 1 .. n PROVE entries[d].id # id + k
      <4>1. PICK e : e = first + k
        OBVIOUS
      <4>2. e \in 1 .. Len(entries) /\ entries[e].scope = "param" /\ entries[e].id = id + k /\ d # e
        BY <2>3, <4>1
      <4>3. entries[e].id # Null
        BY <4>2 DEF EntriesFit, EntryFits
      <4>4. entries[d].id # entries[e].id
        BY <4>2, <4>3 DEF EntriesFit
      <4> QED BY <4>2, <4>4
    <3>4. \A x \in id .. id + n : x = id \/ \E k \in 1 .. n : x = id + k
      BY FirstOrAfter
    <3>5. entries[d].id \notin id .. id + n
      BY <3>2, <3>3, <3>4
    <3>6. entries[d].id \in DOMAIN home' =>
            entries[d].id \in DOMAIN home /\ home'[entries[d].id] = home[entries[d].id]
      BY <3>5
    <3> QED BY <2>0, <3>1, <3>6 DEF PlaceFits
  <2> QED BY <2>1, <2>2, <2>3
<1> QED BY <1>1, <1>2

LEMMA FunctionHomes ==
  ASSUME NEW n \in Nat, NEW id \in Nat, NEW p \in Nat, NEW ids, ids = id + 1 .. id + n,
         DOMAIN home' = DOMAIN home \cup {id} \cup ids, home'[id] = -id,
         \A d \in ids : d # id => home'[d] = p + d - id,
         \A d \in DOMAIN home : d # id /\ d \notin ids => home'[d] = home[d],
         \A x \in id .. id + n : x \notin DOMAIN home
  PROVE  /\ DOMAIN home' = DOMAIN home \cup (id .. id + n)
         /\ \A x \in DOMAIN home : home'[x] = home[x]
         /\ home'[id] = -id /\ \A k \in 1 .. n : home'[id + k] = p + k
<1>1. {id} \cup ids = id .. id + n
  OBVIOUS
<1>2. \A k \in 1 .. n : id + k \in ids /\ id + k # id /\ p + (id + k) - id = p + k
  OBVIOUS
<1>3. DOMAIN home' = DOMAIN home \cup (id .. id + n)
  BY <1>1
<1>4. home'[id] = -id
  OBVIOUS
<1>5. ASSUME NEW k \in 1 .. n PROVE home'[id + k] = p + k
  <2>1. PICK d : d = id + k
    OBVIOUS
  <2>2. d \in ids /\ d # id /\ p + d - id = p + k
    BY <1>2, <2>1
  <2>3. d \in DOMAIN home \cup {id} \cup ids
    BY <2>2
  <2>4. home'[d] = p + d - id
    BY <2>2, <2>3
  <2> QED BY <2>1, <2>2, <2>4
<1>6. ASSUME NEW x \in DOMAIN home PROVE home'[x] = home[x]
  <2>1. x # id /\ x \notin ids
    BY <1>1
  <2> QED BY <2>1
<1> QED BY <1>3, <1>4, <1>5, <1>6

(* What irgen finds of a function. *)
LEMMA ParametersFound ==
  ASSUME Containers, NEW k0 \in 1 .. Len(functions), NEW f, f = functions[k0], ParametersFit(f)
  PROVE  /\ IsSeq(f.parameters) /\ Len(f.parameters) \in Nat /\ DOMAIN f.parameters = 1 .. Len(f.parameters)
         /\ \A k \in 1 .. Len(f.parameters) : Find(f.table, f.parameters[k]) = f.entry + k
<1>1. PICK p, t : p = f.parameters /\ t = f.table
  OBVIOUS
<1>2. p \in Seq(Names)
  BY <1>1, ScopesAssumption DEF ParametersFit
<1>3. IsSeq(p) /\ Len(p) \in Nat /\ DOMAIN p = 1 .. Len(p)
  BY <1>2 DEF IsSeq
<1>4. t \in 1 .. Len(tables)
  BY <1>1 DEF Containers
<1>5. ASSUME NEW k \in 1 .. Len(p) PROVE Find(t, p[k]) = f.entry + k
  <2>1. p[k] \in DOMAIN tables[t].entries /\ tables[t].entries[p[k]] = f.entry + k
    BY <1>1, <1>3 DEF ParametersFit
  <2> QED BY <1>4, <2>1, FindSteps
<1> QED BY <1>1, <1>3, <1>5

LEMMA GenFunctionTold ==
  ASSUME NEW tab, NEW dep, Held(tab, dep), Told, GenFunction PROVE Told'
<1> DEFINE i == Task.item
           f == functions[i.function]
           first == f.entry
           found == [k \in DOMAIN f.parameters |-> Find(f.table, f.parameters[k])]
           id == entries[f.entry].id
           ids == {id + k : k \in DOMAIN found}
           number == [e \in ToSet(found) |-> CHOOSE k \in DOMAIN found : found[k] = e]
<1>0. /\ entries' = [e \in DOMAIN entries |->
            IF e \notin ToSet(found) THEN entries[e]
            ELSE [entries[e] EXCEPT !.operand = place + CHOOSE k \in DOMAIN found : found[k] = e]]
      /\ home' = [d \in DOMAIN home \cup {id} \cup ids |->
                    CASE d = id -> -id [] d \in ids -> place + d - id [] OTHER -> home[d]]
      /\ place' = place + Len(found)
      /\ work' = (IF f.body = Null THEN <<>> ELSE Parts(blocks[f.body].table, blocks[f.body].statements))
                   \o Tail(work)
  BY DEF GenFunction
<1>1. /\ i = Task.item /\ f = functions[i.function] /\ first = f.entry
      /\ found = [k \in DOMAIN f.parameters |-> Find(f.table, f.parameters[k])]
      /\ id = entries[f.entry].id /\ ids = {id + k : k \in DOMAIN found}
  OBVIOUS
<1> HIDE DEF i, f, first, found, id, ids
<1>2. /\ entries' = [e \in DOMAIN entries |-> entries'[e]]
      /\ \A e \in DOMAIN entries :
           entries'[e] = IF e \notin ToSet(found) THEN entries[e]
                         ELSE [entries[e] EXCEPT !.operand = place + number[e]]
      /\ \A e \in ToSet(found) : number[e] \in DOMAIN found /\ found[number[e]] = e
  <2>1. entries' = [e \in DOMAIN entries |-> entries'[e]]
    BY <1>0
  <2>2. \A e \in DOMAIN entries :
           entries'[e] = IF e \notin ToSet(found) THEN entries[e]
                         ELSE [entries[e] EXCEPT !.operand = place + number[e]]
    BY <1>0
  <2>3. ASSUME NEW e \in ToSet(found) PROVE number[e] \in DOMAIN found /\ found[number[e]] = e
    <3>1. number[e] = CHOOSE k \in DOMAIN found : found[k] = e
      OBVIOUS
    <3>2. \E k \in DOMAIN found : found[k] = e
      BY DEF ToSet
    <3> QED BY <3>1, <3>2
  <2> QED BY <2>1, <2>2, <2>3
<1> HIDE DEF number
<1>3. PICK table, body : /\ table = IF f.body = Null THEN Null ELSE blocks[f.body].table
                         /\ body = IF f.body = Null THEN <<>> ELSE blocks[f.body].statements
  OBVIOUS
<1>4. Doing("function") /\ UNCHANGED loads /\ UnchangedParse /\ phase' = phase
  BY DEF GenFunction
<1>5. i.kind = "function"
  BY <1>1, <1>4, TaskFacts
<1>6. PICK w, t, mid, end : Generating(w, t, mid, end)
  BY <1>4, TaskFacts
<1>7. PICK lo, read, spans : lo = <<read, t>> /\ read = Len(loads) /\ spans = w.spans
  OBVIOUS
<1>8. /\ ItemAt(w, Task.table, i, lo, mid) /\ TasksAt(w, Tail(work), mid, end) /\ w = World(spans)
      /\ SpansFit(w) /\ phase = "generate" /\ IsSeq(loads) /\ place \in Nat /\ LoadsFit /\ t \in Nat
      /\ DOMAIN home = {x \in Ids : x <= t} /\ end[1] = Len(uses) /\ mid \in Position
      /\ \A e \in 1 .. Len(entries) : PlaceFits(e)
  BY <1>1, <1>6, <1>7 DEF Generating
<1>9. /\ Containers /\ EntriesFit /\ Ids \subseteq Nat /\ Len(functions) \in Nat /\ Len(open) = 1
      /\ \A k \in 1 .. Len(functions) : ParametersFit(functions[k])
  <2>1. tokens \in Nat \ {0} /\ Ids \subseteq 1 .. tokens - 1
    BY IdsFit
  <2>2. phase # "parse"
    BY <1>8
  <2>3. Len(open) = 1 /\ \A k \in 1 .. Len(functions) : ParametersFit(functions[k])
    BY <2>2 DEF Held, Symbols
  <2> QED BY <2>1, <2>3, HeldFacts DEF Containers
<1>10. FunctionAt(w, i, lo, mid)
  BY <1>5, <1>8, KindFacts
<1>11. PICK g : \E m \in Position :
         /\ <<i.function, g>> \in w.functions /\ HeadAt(w, g, lo, m)
         /\ IF g.body = Null THEN mid = m ELSE <<g.body, m, mid>> \in w.spans
  BY <1>10 DEF FunctionAt
<1>12. PICK m \in Position :
         /\ <<i.function, g>> \in w.functions /\ HeadAt(w, g, lo, m)
         /\ IF g.body = Null THEN mid = m ELSE <<g.body, m, mid>> \in w.spans
  BY <1>11
<1>13. PICK k0 : k0 = i.function
  OBVIOUS
<1>14. k0 \in 1 .. Len(functions) /\ g = f
  <2>1. <<k0, g>> \in w.functions
    BY <1>12, <1>13
  <2>2. k0 \in 1 .. Closed /\ g = functions[k0]
    BY <1>8, <2>1 DEF World
  <2> QED BY <1>1, <1>9, <1>13, <2>2 DEF Closed
<1>15. ParametersFit(f) /\ f = functions[k0]
  BY <1>1, <1>9, <1>13, <1>14
<1>16. PICK n : n = Len(f.parameters)
  OBVIOUS
<1>17. /\ IsSeq(f.parameters) /\ n \in Nat /\ DOMAIN f.parameters = 1 .. n
       /\ \A k \in 1 .. n : Find(f.table, f.parameters[k]) = first + k
  <2>1. /\ IsSeq(f.parameters) /\ Len(f.parameters) \in Nat /\ DOMAIN f.parameters = 1 .. Len(f.parameters)
        /\ \A k \in 1 .. Len(f.parameters) : Find(f.table, f.parameters[k]) = f.entry + k
    BY <1>9, <1>14, <1>15, ParametersFound
  <2> QED BY <1>1, <1>16, <2>1
<1>18. /\ DOMAIN found = 1 .. n /\ Len(found) = n /\ \A k \in 1 .. n : found[k] = first + k
  <2>1. DOMAIN found = 1 .. n /\ \A k \in 1 .. n : found[k] = first + k
    BY <1>1, <1>17
  <2>2. found = [k \in DOMAIN f.parameters |-> found[k]]
    BY <1>1
  <2>3. Len(found) = n
    BY <1>16, <1>17, <2>2, SameLength
  <2> QED BY <2>1, <2>3
<1>19. /\ first \in 1 .. Len(entries) /\ entries[first].scope = "function" /\ first \in Nat
       /\ \A k \in 1 .. n :
            /\ first + k \in 1 .. Len(entries) /\ entries[first + k].scope = "param"
            /\ entries[first + k].id = entries[first].id + k
  <2>1. first \in 1 .. Len(entries) /\ entries[first].scope = "function"
    BY <1>1, <1>15 DEF ParametersFit
  <2>2. first \in Nat
    BY <1>9, <2>1 DEF EntriesFit
  <2>3. ASSUME NEW k \in 1 .. n
        PROVE  /\ first + k \in 1 .. Len(entries) /\ entries[first + k].scope = "param"
               /\ entries[first + k].id = entries[first].id + k
    <3>1. k \in DOMAIN f.parameters
      BY <1>17
    <3> QED BY <1>1, <1>15, <3>1 DEF ParametersFit
  <2> QED BY <2>1, <2>2, <2>3
<1>20. Declares(w, lo, m, id, id + n)
  <2>1. PICK x : <<f.entry, x, "function">> \in w.symbols /\ Declares(w, lo, m, x, x + Len(f.parameters))
    BY <1>12, <1>14 DEF HeadAt
  <2>2. x = id
    BY <1>1, <1>8, <2>1, SymbolFacts
  <2> QED BY <1>16, <2>1, <2>2
<1>21. PICK last : last = id + n
  OBVIOUS
<1>22. /\ m = <<read, last>> /\ id \in Nat /\ last \in Nat /\ id .. last \subseteq Ids
       /\ {x \in Ids : x <= last} = {x \in Ids : x <= t} \cup (id .. last)
       /\ \A x \in id .. last : ~(x <= t)
  <2>1. Declares(w, lo, m, id, last)
    BY <1>20, <1>21
  <2>2. w = World(spans) /\ Ids \subseteq Nat /\ t \in Nat /\ lo = <<read, t>> /\ m \in Position
    BY <1>7, <1>8, <1>9, <1>12
  <2> QED BY <2>1, <2>2, DeclaresFacts
<1>23. \A x \in id .. id + n : x \notin DOMAIN home
  BY <1>8, <1>21, <1>22
<1>24. /\ DOMAIN home' = DOMAIN home \cup (id .. id + n)
       /\ \A x \in DOMAIN home : home'[x] = home[x]
       /\ home'[id] = -id /\ \A k \in 1 .. n : home'[id + k] = place + k
  <2>1. ids = id + 1 .. id + n
    <3>1. ids = {id + k : k \in 1 .. n}
      BY <1>1, <1>18
    <3>2. id \in Nat /\ n \in Nat
      BY <1>17, <1>22
    <3>3. \A k \in 1 .. n : id + k \in id + 1 .. id + n
      BY <3>2
    <3>4. \A x \in id + 1 .. id + n : x - id \in 1 .. n /\ x = id + (x - id)
      BY <3>2
    <3> QED BY <3>1, <3>3, <3>4
  <2>2. place \in Nat /\ id \in Nat /\ n \in Nat
    BY <1>8, <1>17, <1>22
  <2>3. /\ DOMAIN home' = DOMAIN home \cup {id} \cup ids /\ home'[id] = -id
        /\ \A d \in ids : d # id => home'[d] = place + d - id
        /\ \A d \in DOMAIN home : d # id /\ d \notin ids => home'[d] = home[d]
    <3>1. home' = [d \in DOMAIN home \cup {id} \cup ids |->
                     CASE d = id -> -id [] d \in ids -> place + d - id [] OTHER -> home[d]]
      BY <1>0
    <3>2. DOMAIN home' = DOMAIN home \cup {id} \cup ids
      BY <3>1
    <3>3. home'[id] = -id
      <4>1. id \notin ids
        BY <2>1, <2>2
      <4> QED BY <3>1, <4>1
    <3>4. ASSUME NEW d \in ids, d # id PROVE home'[d] = place + d - id
      BY <3>1, <3>4
    <3>5. ASSUME NEW d \in DOMAIN home, d # id, d \notin ids PROVE home'[d] = home[d]
      BY <3>1, <3>5
    <3> QED BY <3>2, <3>3, <3>4, <3>5
  <2> HIDE <1>0
  <2> QED BY <1>23, <2>1, <2>2, <2>3, FunctionHomes
<1>25. /\ SameDeclarations
       /\ \A e \in 1 .. Len(entries) : (\A k \in 1 .. n : e # first + k) => entries'[e] = entries[e]
       /\ \A k \in 1 .. n : first + k \in 1 .. Len(entries) => entries'[first + k].operand = place + k
  <2>1. place \in Nat /\ n \in Nat /\ first \in Nat
    BY <1>8, <1>17, <1>19
  <2>2. DOMAIN found = 1 .. n /\ \A k \in 1 .. n : found[k] = first + k
    BY <1>18
  <2>3. \A e \in ToSet(found) : number[e] \in 1 .. n /\ found[number[e]] = e
    BY <1>2, <2>2
  <2>4. /\ IsSeq(entries) /\ DOMAIN entries = 1 .. Len(entries) /\ Len(entries') = Len(entries)
        /\ \A e \in 1 .. Len(entries) : IsEntry(entries[e])
    BY <1>2, <1>9, SameLength DEF EntriesFit, EntryFits
  <2>5. ASSUME NEW e \in 1 .. Len(entries)
        PROVE  /\ entries'[e].id = entries[e].id /\ entries'[e].scope = entries[e].scope
               /\ e \notin ToSet(found) => entries'[e] = entries[e]
               /\ e \in ToSet(found) => entries'[e].operand = place + number[e]
    <3>1. PICK x, q : x = entries[e] /\ IsEntry(x) /\ q = place + number[e]
      BY <2>4
    <3>2. entries'[e] = IF e \notin ToSet(found) THEN x ELSE [x EXCEPT !.operand = q]
      BY <1>2, <2>4, <3>1
    <3>3. [x EXCEPT !.operand = q] = [name |-> x.name, scope |-> x.scope, id |-> x.id, operand |-> q]
      BY <3>1 DEF IsEntry
    <3> QED BY <3>1, <3>2, <3>3
  <2>6. SameDeclarations
    BY <2>4, <2>5 DEF SameDeclarations
  <2>7. ToSet(found) = {found[k] : k \in 1 .. n}
    BY <2>2 DEF ToSet
  <2>8. ASSUME NEW e \in 1 .. Len(entries), \A k \in 1 .. n : e # first + k PROVE entries'[e] = entries[e]
    <3>1. e \notin ToSet(found)
      BY <2>2, <2>7, <2>8
    <3> QED BY <2>5, <3>1
  <2>9. ASSUME NEW k \in 1 .. n, first + k \in 1 .. Len(entries) PROVE entries'[first + k].operand = place + k
    <3>1. PICK e, j : e = first + k /\ j = number[e]
      OBVIOUS
    <3>2. e = found[k] /\ e \in ToSet(found) /\ e \in 1 .. Len(entries)
      BY <2>2, <2>7, <2>9, <3>1
    <3>3. j \in 1 .. n /\ found[j] = e /\ entries'[e].operand = place + j
      BY <2>3, <2>5, <3>1, <3>2
    <3>4. found[j] = first + j
      BY <2>2, <3>3
    <3>5. j = k
      BY <2>1, <3>1, <3>3, <3>4
    <3> QED BY <3>1, <3>3, <3>5
  <2> QED BY <2>6, <2>8, <2>9
<1>26. uses' = uses /\ loads' = loads
  BY <1>4 DEF UnchangedParse, text
<1>27. LoadsFit' /\ \A d \in 1 .. Len(entries) : PlaceFits(d)'
  <2>1. id = entries[first].id
    BY <1>1
  <2>2. \A k \in 1 .. n : entries'[first + k].operand = place + k
    BY <1>19, <1>25
  <2>3. /\ EntriesFit /\ n \in Nat /\ id \in Nat /\ place \in Nat /\ LoadsFit
        /\ \A d \in 1 .. Len(entries) : PlaceFits(d)
    BY <1>8, <1>9, <1>17, <1>22
  <2> QED BY <1>19, <1>23, <1>24, <1>25, <1>26, <2>1, <2>2, <2>3, PlacedFunction
<1>28. DOMAIN home' = {x \in Ids : x <= last}
  BY <1>8, <1>21, <1>22, <1>24
<1>29. TasksAt(w, work', m, end)
  <2>1. PICK later : later = Tail(work)
    OBVIOUS
  <2>2. CASE f.body = Null
    <3>1. mid = m
      BY <1>12, <1>14, <2>2
    <3>2. TasksAt(w, Parts(table, <<>>) \o later, m, end)
      BY <1>8, <1>12, <2>1, <3>1, ListNone, TasksReplaced
    <3>3. Parts(table, <<>>) = <<>>
      BY NothingPlaced DEF Parts
    <3> QED BY <1>0, <2>1, <2>2, <3>2, <3>3
  <2>3. CASE f.body # Null
    <3>1. PICK b : b = f.body
      OBVIOUS
    <3>2. PICK s : s = <<b, m, mid>>
      OBVIOUS
    <3>3. s \in w.spans /\ s[1] = b /\ s[2] = m /\ s[3] = mid
      BY <1>12, <1>14, <2>3, <3>1, <3>2
    <3>4. ListAt(w, blocks[b].table, blocks[b].statements, m, mid)
      BY <1>8, <3>3 DEF SpansFit
    <3>5. ListAt(w, table, body, m, mid)
      BY <1>3, <2>3, <3>1, <3>4
    <3>6. TasksAt(w, Parts(table, body) \o later, m, end)
      BY <1>8, <2>1, <3>5, TasksReplaced
    <3> QED BY <1>0, <1>3, <2>1, <2>3, <3>6
  <2> QED BY <2>2, <2>3
<1>30. TasksAt(w, work', <<Len(loads'), last>>, end)
  BY <1>7, <1>22, <1>26, <1>29
<1>31. phase' = "generate" /\ IsSeq(loads') /\ place' \in Nat
  <2>1. place' = place + n
    BY <1>0, <1>18
  <2>2. place \in Nat /\ n \in Nat /\ IsSeq(loads) /\ phase = "generate"
    BY <1>8, <1>17
  <2> QED BY <1>4, <2>1, <2>2
<1>32. w = World(w.spans) /\ last \in Nat
  BY <1>7, <1>8, <1>22
<1> QED BY <1>4, <1>8, <1>25, <1>27, <1>28, <1>30, <1>31, <1>32, VisitingStays

-----------------------------------------------------------------------------
(* All steps. *)

LEMMA StutterTold ==
  ASSUME Told, UNCHANGED vars PROVE Told'
<1>1. /\ UNCHANGED <<tokens, open, uses, item, tables, entries, blocks, functions, unit>>
      /\ UNCHANGED <<currentTable, currentBlock, currentFunction, phase, work, place, home, loads>>
  BY DEF vars, text, driver, tree, generated
<1>2. PICK w : /\ w = World(w.spans) /\ SpansFit(w)
               /\ IF phase = "parse" THEN Parsing(w) ELSE Visiting(w)
  BY DEF Told
<1>3. UnchangedParse /\ SameDeclarations
  <2>1. UnchangedParse
    BY DEF vars, UnchangedParse
  <2>2. SameDeclarations
    BY <1>1 DEF SameDeclarations
  <2> QED BY <2>1, <2>2
<1>4. Ids' = Ids /\ w = World(w.spans)' /\ SpansFit(w)'
  BY <1>2, <1>3, QuietWorld
<1>5. ASSUME Parsing(w) PROVE Parsing(w)'
  <2>1. PICK start, now : Written(w, start, now)
    BY <1>5 DEF Parsing
  <2>2. ASSUME NEW k \in 1 .. Len(open), NEW lo, NEW hi, ContentAt(w, k, lo, hi) PROVE ContentAt(w, k, lo, hi)'
    BY <1>1, <2>2 DEF ContentAt
  <2>3. ASSUME NEW lo, NEW hi, ReductionAt(w, lo, hi) PROVE ReductionAt(w, lo, hi)'
    BY <1>1, <2>3 DEF ReductionAt, Item
  <2>4. Written(w, start, now)'
    <3>1. \A k \in 1 .. Len(open') : ContentAt(w, k, start[k], start[k + 1])'
      BY <1>1, <2>1, <2>2 DEF Written
    <3>2. PICK from : from = start[Len(open) + 1]
      OBVIOUS
    <3>3. ReductionAt(w, from, now)'
      BY <2>1, <2>3, <3>2 DEF Written
    <3>4. from = start[Len(open') + 1]
      BY <1>1, <3>2
    <3>5. ReductionAt(w, start[Len(open) + 1], now)'
      BY <3>3, <3>4 DEF ReductionAt
    <3> QED BY <1>1, <2>1, <3>1, <3>5 DEF Written
  <2> QED BY <1>1, <1>5, <2>4 DEF Parsing, Bodies
<1>6. ASSUME Visiting(w) PROVE Visiting(w)'
  BY <1>1, <1>4, <1>6 DEF Visiting, PlaceFits
<1> QED BY <1>1, <1>2, <1>4, <1>5, <1>6 DEF Told

LEMMA ToldInit ==
  ASSUME NEW tab, NEW dep, Held(tab, dep), Init PROVE Told
<1>1. /\ tokens = 1 /\ open = <<Context("global", Null)>> /\ uses = <<>> /\ item = <<>> /\ unit = <<>>
      /\ blocks = <<>> /\ phase = "parse" /\ place = 0 /\ home = <<>> /\ loads = <<>>
  BY DEF Init
<1>2. Len(open) = 1 /\ open[1] = Context("global", Null)
  BY <1>1, OneFacts
<1>3. PICK w, spans : spans = {} /\ w = World(spans)
  OBVIOUS
<1>4. w.spans = spans /\ w.declared = Ids /\ w = World(w.spans)
  BY <1>3 DEF World
<1>5. Ids = {}
  <2>1. Ids \subseteq 1 .. tokens - 1
    BY IdsFit
  <2>2. \A x \in 1 .. tokens - 1 : FALSE
    BY <1>1
  <2> QED BY <2>1, <2>2
<1>6. SpansFit(w)
  BY <1>3, <1>4 DEF SpansFit
<1>7. PICK now, start : now = <<0, 0>> /\ start = [k \in 1 .. 1 + 1 |-> <<0, 0>>]
  OBVIOUS
<1>8. now \in Position /\ now[1] = 0 /\ now[2] = 0
  BY <1>7 DEF Position
<1>9. start \in [1 .. 1 + 1 -> Position] /\ start[1] = now /\ start[1 + 1] = now
  BY <1>7, <1>8
<1>10. open[1].kind = "global"
  BY <1>2 DEF Context
<1>11. ContentAt(w, 1, now, now)
  <2>1. ListAt(w, Global, unit, now, now)
    BY <1>1, <1>8, ListNone
  <2> QED BY <1>2, <1>10, <2>1 DEF ContentAt
<1>12. ReductionAt(w, now, now)
  BY <1>1 DEF ReductionAt
<1>13. IsSeq(uses) /\ Len(uses) = 0 /\ IsSeq(unit)
  BY <1>1, NothingIsSeq
<1>14. Written(w, start, now)
  <2>1. \A k \in 1 .. Len(open) : ContentAt(w, k, start[k], start[k + 1])
    <3>1. \A k \in 1 .. Len(open) : k = 1
      BY <1>2
    <3>2. ContentAt(w, 1, start[1], start[1 + 1])
      BY <1>9, <1>11
    <3> QED BY <3>1, <3>2
  <2>2. ReductionAt(w, start[Len(open) + 1], now)
    BY <1>2, <1>9, <1>12
  <2>3. start \in [1 .. Len(open) + 1 -> Position] /\ start[1] = <<0, 0>>
    BY <1>2, <1>7, <1>9
  <2>4. now \in Position /\ now[1] = Len(uses) /\ now[2] < tokens
    BY <1>1, <1>8, <1>13
  <2>5. \A x \in w.declared : x <= now[2]
    BY <1>4, <1>5
  <2> QED BY <2>1, <2>2, <2>3, <2>4, <2>5 DEF Written
<1>15. Bodies
  <2>1. ~(Len(open) > 1) /\ Len(open) # 2 /\ ~(Len(open) > 2)
    BY <1>2
  <2> QED BY <1>13, <2>1 DEF Bodies
<1>16. Parsing(w)
  BY <1>1, <1>14, <1>15 DEF Parsing
<1> QED BY <1>1, <1>4, <1>6, <1>16 DEF Told

LEMMA StepTold ==
  ASSUME NEW tab, NEW dep, Held(tab, dep), Told, Next PROVE Told'
<1>1. Rest => UNCHANGED vars
  BY DEF Rest
<1> QED BY <1>1, StutterTold, OpenFunctionTold, EmptyBodyTold, OpenBlockTold, CloseBlockTold,
   CloseFunctionTold, OperandTold, OperatorTold, InvokeTold, EndExpressionTold, IfTold, EndConditionTold,
   StartDefinitionTold, EndDefinitionTold, EndDeclarationTold, EndOfTextTold, GenFunctionTold,
   GenBlockTold, GenIfTold, GenExpressionTold, GenDeclarationTold, GenBinaryTold, GenIdentifierTold,
   GenCallTold, EndOfWorkTold DEF Next

(* In every state what is built so far is what has been written so far.    *)
LEMMA ToldAlways == Spec => [](Resolved /\ Told)
<1>1. ASSUME Init PROVE Resolved /\ Told
  BY <1>1, HeldInit, ToldInit DEF Resolved
<1>2. ASSUME Resolved /\ Told, [Next]_vars PROVE (Resolved /\ Told)'
  <2>1. PICK tab, dep : Held(tab, dep)
    BY <1>2 DEF Resolved
  <2>2. Told'
    BY <1>2, <2>1, StepTold, StutterTold
  <2> QED BY <1>2, <2>2, ResolvedStep
<1> QED BY <1>1, <1>2, PTL DEF Spec

(* A name is read from the place that irgen gave to the declaration that   *)
(* it means in C, and irgen never meets a name without a place.            *)
THEOREM VariablesStaySame == Spec => []SameVariable
<1>1. ASSUME Told PROVE SameVariable
  <2>1. PICK w : IF phase = "parse" THEN Parsing(w) ELSE Visiting(w)
    BY <1>1 DEF Told
  <2>2. CASE phase = "parse"
    <3>1. loads = <<>>
      BY <2>1, <2>2 DEF Parsing
    <3>2. \A k \in DOMAIN loads : FALSE
      BY <3>1, NothingPlaced
    <3> QED BY <2>2, <3>2 DEF SameVariable
  <2>3. CASE phase # "parse"
    <3>1. Visiting(w)
      BY <2>1, <2>3
    <3>2. /\ phase # "failed" /\ IsSeq(loads)
          /\ \A k \in 1 .. Len(loads) : loads[k] = home[uses[k]]
      BY <3>1 DEF Visiting
    <3>3. DOMAIN loads = 1 .. Len(loads)
      BY <3>2, AppendFacts
    <3> QED BY <3>2, <3>3 DEF SameVariable
  <2> QED BY <2>2, <2>3
<1> QED BY <1>1, ToldAlways, PTL

(* When irgen is done it has read every operand and call of the text:      *)
(* nothing that was written is missing from the tree it walks.             *)
THEOREM NothingIsLost == Spec => []NothingLost
<1>1. ASSUME Told PROVE NothingLost
  <2> SUFFICES ASSUME phase = "done" PROVE Len(loads) = Len(uses)
    BY DEF NothingLost
  <2>1. PICK w : Visiting(w)
    BY <1>1 DEF Told
  <2>2. PICK t, end : TasksAt(w, work, <<Len(loads), t>>, end) /\ end[1] = Len(uses)
    BY <2>1 DEF Visiting
  <2>3. work = <<>>
    BY <2>1 DEF Visiting
  <2>4. PICK lo : lo = <<Len(loads), t>>
    OBVIOUS
  <2>5. lo = end
    <3>1. Len(work) = 0
      BY <2>3, NothingIsSeq
    <3> QED BY <2>2, <2>4, <3>1, PathNone DEF TasksAt
  <2>6. lo[1] = Len(loads)
    BY <2>4
  <2> QED BY <2>2, <2>5, <2>6
<1> QED BY <1>1, ToldAlways, PTL
=============================================================================
