------------------------------- MODULE Scopes -------------------------------
(***************************************************************************)
(* From names to memory: the Driver and the symbol tables                  *)
(* (src/src/frontend/driver.cpp, symbolTable.cpp) while the parser reduces *)
(* a program, and the walk of irgen over the tree that is left, which      *)
(* gives every declared name a place and reads names from their places.    *)
(*                                                                         *)
(* The program is written as it is parsed: any sequence of declarations,   *)
(* operands, operators, calls, ifs, blocks and functions that C allows.    *)
(* Assignments, returns and loops have the scopes of the expressions and   *)
(* ifs that stand for them, an operator also stands for a conversion.      *)
(* Constants are left out, and the functions of the library.               *)
(***************************************************************************)
EXTENDS Integers, Sequences, SequencesExt

CONSTANTS
  Names,         \* of variables
  FunctionNames,
  ParameterLists,
  TempName(_),   \* getTempSymbolEntryName for a value of the counter
  MaxTokens      \* bound of the length of the program

(* Variables and functions have different names, parameters of a function  *)
(* too, and none has a name that the compiler gives to its own symbols.    *)
ASSUME ScopesAssumption ==
  /\ MaxTokens \in Nat
  /\ Names \cap FunctionNames = {} /\ "" \notin Names \cup FunctionNames
  /\ \A p \in ParameterLists : p \in Seq(Names) /\ IsInjective(p)
  /\ \A k \in 0 .. MaxTokens : TempName(k) \notin Names \cup FunctionNames

VARIABLES
  tokens,        \* how much has been written
  open,          \* what is being written: the scopes of C, and ifs
  uses,          \* the declarations that the operands and calls mean, in order
  item,          \* the expression or declaration being reduced
  tables,        \* symbol tables: [parent, entries]
  entries,       \* symbol entries; the number stands for the pointer
  blocks,        \* statement::Block: [table, statements]
  functions,     \* statement::FunctionDefinition: [entry, table, parameters, body]
  unit,          \* compilationUnit.statements
  currentTable, currentBlock, currentFunction, blockStack, tempCounter,
  phase,         \* "parse", "generate", "done", or "failed"
  work,          \* irgen: what is left, with the table it is passed
  place,         \* irgen: places given so far
  home,          \* the place of each declaration
  loads          \* the places read; of a function, its id negated

text == <<tokens, open, uses>>
driver == <<currentTable, currentBlock, currentFunction, blockStack>>
tree == <<blocks, functions, unit>>
generated == <<work, place, home, loads>>
vars == <<text, item, tables, entries, driver, tree, tempCounter, phase, generated>>

Null == 0
Global == 1

(* A function that also maps key to value. *)
With(f, key, value) == [k \in DOMAIN f \cup {key} |-> IF k = key THEN value ELSE f[k]]

-----------------------------------------------------------------------------
(* What C says: a name means its innermost declaration. *)

Context(kind, block) == [kind |-> kind, block |-> block, declared |-> <<>>, condition |-> <<>>]
Top == Last(open)
Below == open[Len(open) - 1]

Scopes(name) == {k \in DOMAIN open : name \in DOMAIN open[k].declared}
Means(name) ==
  LET k == CHOOSE k \in Scopes(name) : \A j \in Scopes(name) : j <= k
  IN open[k].declared[name]

Declaration(kind) == [kind |-> kind, id |-> tokens]
WithName(context, name, declaration) ==
  [context EXCEPT !.declared = With(@, name, declaration)]

Writes(n) == phase = "parse" /\ tokens <= MaxTokens - n /\ tokens' = tokens + n

-----------------------------------------------------------------------------
(* Symbol tables. *)

Entry(name, scope, id) == [name |-> name, scope |-> scope, id |-> id, operand |-> Null]
SymbolTable(parent) == [parent |-> parent, entries |-> <<>>]

(* SymbolTable::find: the entries of a table hide those of its parents. *)
Find(table, name) ==
  LET found[t \in 0 .. Len(tables)] ==
        IF t = Null THEN Null
        ELSE IF name \in DOMAIN tables[t].entries THEN tables[t].entries[name]
        ELSE found[tables[t].parent]
  IN found[table]

(* SymbolTable::insert overwrites. *)
Inserted(table, name, entry) ==
  [tables EXCEPT ![table].entries = With(@, name, entry)]

-----------------------------------------------------------------------------
(* Driver. *)

(* appendStatement *)
AppendStatement(statement, block) ==
  IF currentFunction # Null
  THEN blocks' = [blocks EXCEPT ![block].statements = Append(@, statement)] /\ UNCHANGED unit
  ELSE unit' = Append(unit, statement) /\ UNCHANGED blocks

(* A statement that ends ends the ifs it is the body of. *)
Outside(contexts) ==
  CHOOSE k \in DOMAIN contexts :
    /\ contexts[k].kind # "if"
    /\ \A j \in k + 1 .. Len(contexts) : contexts[j].kind = "if"
Conditions(contexts) ==
  LET k == Outside(contexts)
  IN [j \in 1 .. Len(contexts) - k |-> contexts[k + j].condition]
EndStatement(statement, contexts, block) ==
  /\ AppendStatement(
       IF Conditions(contexts) = <<>> THEN statement
       ELSE [kind |-> "if", conditions |-> Conditions(contexts), then |-> statement], block)
  /\ open' = SubSeq(contexts, 1, Outside(contexts))

(* createFunctionDefinition and appendFunction *)
OpenFunction ==
  /\ phase = "parse" /\ item = <<>> /\ Len(open) = 1
  /\ \E name \in FunctionNames \ DOMAIN Top.declared, parameters \in ParameterLists :
       LET f == Len(functions) + 1
           t == Len(tables) + 1
           e == Len(entries) + 1
           ids == [k \in DOMAIN parameters |-> tokens + k]
       IN /\ Writes(1 + Len(parameters))
          /\ entries' = Append(entries, Entry(name, "function", tokens))
               \o [k \in DOMAIN parameters |-> Entry(parameters[k], "param", ids[k])]
          /\ tables' = Append(Inserted(currentTable, name, e),
               [parent |-> currentTable,
                entries |-> [p \in ToSet(parameters) |->
                               e + CHOOSE k \in DOMAIN parameters : parameters[k] = p]])
          /\ functions' = Append(functions,
               [entry |-> e, table |-> t, parameters |-> parameters, body |-> Null])
          /\ AppendStatement([kind |-> "function", function |-> f], currentBlock)
          /\ currentFunction' = f
          /\ currentTable' = t
          /\ open' = <<WithName(Top, name, Declaration("function")),
                       [Context("function", Null) EXCEPT
                          !.declared = [p \in ToSet(parameters) |->
                             [kind |-> "variable",
                              id |-> ids[CHOOSE k \in DOMAIN parameters : parameters[k] = p]]]]>>
  /\ UNCHANGED <<uses, item, currentBlock, blockStack, tempCounter, phase, generated>>

MutKeepCurrentBlock ==
  /\ UNCHANGED currentBlock /\ blockStack' = <<>>
  /\ currentFunction' = Null /\ currentTable' = Global

QuitFunction ==
  /\ currentBlock' = Null /\ blockStack' = <<>>
  /\ currentFunction' = Null /\ currentTable' = Global

(* A function whose body is {}: the parser makes a Blank of it, and the     *)
(* function looks like a declaration afterwards.                           *)
EmptyBody ==
  /\ Writes(1) /\ item = <<>> /\ Top.kind = "function"
  /\ QuitFunction
  /\ open' = Front(open)
  /\ UNCHANGED <<uses, item, tables, entries, tree, tempCounter, phase, generated>>

OpenBlock ==
  /\ Writes(1) /\ item = <<>> /\ Top.kind # "global"
  /\ LET b == Len(blocks) + 1
         t == Len(tables) + 1
     IN /\ tables' = Append(tables, SymbolTable(currentTable))
        /\ blocks' = Append(blocks, [table |-> t, statements |-> <<>>])
        /\ functions' = IF currentBlock = Null THEN [functions EXCEPT ![currentFunction].body = b]
                        ELSE functions
        /\ currentBlock' = b
        /\ currentTable' = t
        /\ blockStack' = Append(blockStack, b)
        /\ open' = Append(open, Context("block", b))
  /\ UNCHANGED <<uses, item, entries, unit, currentFunction, tempCounter, phase, generated>>

MutKeepTable(stack) ==
  [block |-> IF stack = <<>> THEN Null ELSE Last(stack), table |-> currentTable]
MutKeepBlock(stack) ==
  IF stack = <<>> THEN [block |-> Null, table |-> functions[currentFunction].table]
  ELSE [block |-> currentBlock, table |-> blocks[Last(stack)].table]

(* quitBlock goes back to what is then on top of the stack. *)
Restored(stack) ==
  IF stack = <<>> THEN [block |-> Null, table |-> functions[currentFunction].table]
  ELSE [block |-> Last(stack), table |-> blocks[Last(stack)].table]

HasStatements == blocks[currentBlock].statements # <<>>

CloseBlock ==
  /\ Writes(1) /\ item = <<>> /\ Top.kind = "block" /\ HasStatements
  /\ Below.kind # "function"
  /\ LET back == Restored(Front(blockStack))
     IN /\ currentBlock' = back.block
        /\ currentTable' = back.table
        /\ EndStatement([kind |-> "block", block |-> currentBlock], Front(open), back.block)
  /\ blockStack' = Front(blockStack)
  /\ UNCHANGED <<uses, item, tables, entries, functions, currentFunction, tempCounter, phase, generated>>

(* The end of a body is that of its function, and no statement of a block. *)
CloseFunction ==
  /\ Writes(1) /\ item = <<>> /\ Top.kind = "block" /\ HasStatements
  /\ Below.kind = "function"
  /\ QuitFunction
  /\ open' = SubSeq(open, 1, Len(open) - 2)
  /\ UNCHANGED <<uses, item, tables, entries, tree, tempCounter, phase, generated>>

-----------------------------------------------------------------------------
(* Expressions: operands and operators in the order of their reduction,    *)
(* which is the order in which irgen visits them.                          *)

NoItem == item = <<>>
Item == item[1]
Reading == Item.kind # "declaration" \/ Item.name # ""
Started(kind) == [kind |-> kind, name |-> "", id |-> Null, nodes |-> <<>>, defs |-> <<>>, scope |-> ""]
Extended(node) ==
  LET i == IF NoItem THEN Started("expression") ELSE Item
  IN item' = <<[i EXCEPT !.nodes = Append(@, node)]>>
CanRead ==
  /\ currentFunction # Null
  /\ IF NoItem THEN Top.kind \in {"block", "if"} ELSE Reading

(* LVal and createIdentifier *)
Operand ==
  /\ Writes(1) /\ CanRead
  /\ \E name \in Names :
       /\ Scopes(name) # {}
       /\ Means(name).kind = "variable"
       /\ IF NoItem THEN TRUE ELSE Means(name).id # Item.id
       /\ Extended([kind |-> "identifier", entry |-> Find(currentTable, name)])
       /\ uses' = Append(uses, Means(name).id)
  /\ UNCHANGED <<open, tables, entries, driver, tree, tempCounter, phase, generated>>

(* The symbol that an operator and a call keep for their result. *)
TempEntry ==
  /\ entries' = Append(entries, Entry(TempName(tempCounter), "temp", Null))
  /\ tables' = Inserted(currentTable, TempName(tempCounter), Len(entries) + 1)
  /\ tempCounter' = tempCounter + 1

(* createBinary on what was read before; in front of a function only       *)
(* constants are, and the result is one.                                   *)
Operator ==
  /\ Writes(1) /\ ~NoItem /\ Reading
  /\ TempEntry
  /\ IF currentFunction # Null
     THEN /\ Item.nodes # <<>>
          /\ Extended([kind |-> "binary", entry |-> Len(entries) + 1])
     ELSE UNCHANGED item
  /\ UNCHANGED <<open, uses, driver, tree, phase, generated>>

(* createFunctionCall: functions are looked up in the outermost table. *)
Invoke ==
  /\ Writes(1) /\ CanRead
  /\ \E name \in FunctionNames :
       /\ Scopes(name) # {}
       /\ Means(name).kind = "function"
       /\ Extended([kind |-> "call", entry |-> Find(Global, name)])
       /\ uses' = Append(uses, Means(name).id)
  /\ TempEntry
  /\ UNCHANGED <<open, driver, tree, phase, generated>>

EndExpression ==
  /\ Writes(1) /\ ~NoItem /\ Item.kind = "expression"
  /\ EndStatement([kind |-> "expression", nodes |-> Item.nodes], open, currentBlock)
  /\ item' = <<>>
  /\ UNCHANGED <<uses, tables, entries, functions, driver, tempCounter, phase, generated>>

If ==
  /\ Writes(1) /\ NoItem /\ Top.kind \in {"block", "if"}
  /\ item' = <<Started("condition")>>
  /\ UNCHANGED <<open, uses, tables, entries, driver, tree, tempCounter, phase, generated>>

EndCondition ==
  /\ Writes(1) /\ ~NoItem /\ Item.kind = "condition" /\ Item.nodes # <<>>
  /\ open' = Append(open, [Context("if", Null) EXCEPT !.condition = Item.nodes])
  /\ item' = <<>>
  /\ UNCHANGED <<uses, tables, entries, driver, tree, tempCounter, phase, generated>>

-----------------------------------------------------------------------------
(* Declarations.  A name is declared for C before its initial value, for   *)
(* the table after it; a program that reads it there has no meaning.       *)

MayDeclare(name) ==
  /\ name \notin DOMAIN Top.declared
  /\ Len(open) > 1 /\ Below.kind = "function" => name \notin DOMAIN Below.declared

StartDefinition ==
  /\ Writes(1) /\ Top.kind \in {"global", "block"}
  /\ IF NoItem THEN TRUE ELSE Item.kind = "declaration" /\ ~Reading
  /\ \E name \in Names :
       /\ MayDeclare(name)
       /\ open' = Append(Front(open), WithName(Top, name, Declaration("variable")))
       /\ item' = IF NoItem
                  THEN <<[Started("declaration") EXCEPT !.name = name, !.id = tokens,
                            !.scope = IF currentFunction # Null THEN "local" ELSE "global"]>>
                  ELSE <<[Item EXCEPT !.name = name, !.id = tokens, !.nodes = <<>>]>>
  /\ UNCHANGED <<uses, tables, entries, driver, tree, tempCounter, phase, generated>>

(* Def and DefList *)
EndDefinition ==
  /\ Writes(1) /\ ~NoItem /\ Item.kind = "declaration" /\ Reading
  /\ entries' = Append(entries, Entry(Item.name, Item.scope, Item.id))
  /\ tables' = Inserted(currentTable, Item.name, Len(entries) + 1)
  /\ item' = <<[Item EXCEPT !.name = "", !.id = Null, !.nodes = <<>>,
                  !.defs = Append(@, [name |-> Item.name, id |-> Item.id, nodes |-> Item.nodes])]>>
  /\ UNCHANGED <<open, uses, driver, tree, tempCounter, phase, generated>>

(* createDeclaration *)
EndDeclaration ==
  /\ Writes(1) /\ ~NoItem /\ Item.kind = "declaration" /\ ~Reading
  /\ EndStatement([kind |-> "declaration", scope |-> Item.scope, defs |-> Item.defs], open, currentBlock)
  /\ item' = <<>>
  /\ UNCHANGED <<uses, tables, entries, functions, driver, tempCounter, phase, generated>>

EndOfText ==
  /\ phase = "parse" /\ Len(open) = 1 /\ NoItem
  /\ phase' = "generate"
  /\ work' = [k \in DOMAIN unit |-> [table |-> Global, item |-> unit[k]]]
  /\ UNCHANGED <<text, item, tables, entries, driver, tree, tempCounter, place, home, loads>>

-----------------------------------------------------------------------------
(* irgen: the head of the work is replaced by its parts, which are passed  *)
(* the table of the block they are in.                                     *)

Task == Head(work)
Doing(kind) == phase = "generate" /\ work # <<>> /\ Task.item.kind = kind
Parts(table, items) == [k \in DOMAIN items |-> [table |-> table, item |-> items[k]]]
Places(entry, p) == entries' = [entries EXCEPT ![entry].operand = p]
UnchangedParse == UNCHANGED <<text, item, tables, driver, tree, tempCounter>>

(* A function: its name, its parameters in memory, then its body. *)
GenFunction ==
  /\ Doing("function")
  /\ LET f == functions[Task.item.function]
         found == [k \in DOMAIN f.parameters |-> Find(f.table, f.parameters[k])]
         id == entries[f.entry].id
         ids == {id + k : k \in DOMAIN found}
     IN /\ entries' = [e \in DOMAIN entries |->
              IF e \notin ToSet(found) THEN entries[e]
              ELSE [entries[e] EXCEPT !.operand = place + CHOOSE k \in DOMAIN found : found[k] = e]]
        /\ home' = [d \in DOMAIN home \cup {id} \cup ids |->
              CASE d = id -> -id
                [] d \in ids -> place + d - id
                [] OTHER -> home[d]]
        /\ place' = place + Len(found)
        /\ work' = (IF f.body = Null THEN <<>>
                    ELSE Parts(blocks[f.body].table, blocks[f.body].statements)) \o Tail(work)
  /\ UNCHANGED loads /\ UnchangedParse /\ UNCHANGED phase

GenBlock ==
  /\ Doing("block")
  /\ LET b == blocks[Task.item.block]
     IN work' = Parts(b.table, b.statements) \o Tail(work)
  /\ UNCHANGED <<entries, place, home, loads>> /\ UnchangedParse /\ UNCHANGED phase

GenIf ==
  /\ Doing("if")
  /\ LET i == Task.item
         then == IF Len(i.conditions) = 1 THEN i.then ELSE [i EXCEPT !.conditions = Tail(@)]
     IN work' = Parts(Task.table, Append(Head(i.conditions), then)) \o Tail(work)
  /\ UNCHANGED <<entries, place, home, loads>> /\ UnchangedParse /\ UNCHANGED phase

GenExpression ==
  /\ Doing("expression")
  /\ work' = Parts(Task.table, Task.item.nodes) \o Tail(work)
  /\ UNCHANGED <<entries, place, home, loads>> /\ UnchangedParse /\ UNCHANGED phase

(* A declaration gives the first of its names a place, looked up again,    *)
(* and a local one then its initial value.                                 *)
GenDeclaration ==
  /\ Doing("declaration")
  /\ LET d == Task.item
         def == Head(d.defs)
         rest == IF Len(d.defs) = 1 THEN <<>> ELSE <<[d EXCEPT !.defs = Tail(@)]>>
         nodes == IF d.scope = "local" THEN def.nodes ELSE <<>>
     IN /\ Places(Find(Task.table, def.name), place + 1)
        /\ home' = With(home, def.id, place + 1)
        /\ work' = Parts(Task.table, nodes \o rest) \o Tail(work)
  /\ place' = place + 1
  /\ UNCHANGED loads /\ UnchangedParse /\ UNCHANGED phase

(* An identifier is read from the place of its entry; an operator leaves   *)
(* its result, a register, in its own.                                     *)
GenBinary ==
  /\ Doing("binary")
  /\ Places(Task.item.entry, place + 1)
  /\ place' = place + 1
  /\ work' = Tail(work)
  /\ UNCHANGED <<home, loads>> /\ UnchangedParse /\ UNCHANGED phase

GenIdentifier ==
  /\ Doing("identifier")
  /\ LET operand == entries[Task.item.entry].operand
     IN /\ loads' = IF operand = Null THEN loads ELSE Append(loads, operand)
        /\ phase' = IF operand = Null THEN "failed" ELSE phase
  /\ work' = Tail(work)
  /\ UNCHANGED <<entries, place, home>> /\ UnchangedParse

GenCall ==
  /\ Doing("call")
  /\ loads' = Append(loads, -entries[Task.item.entry].id)
  /\ work' = Tail(work)
  /\ UNCHANGED <<entries, place, home>> /\ UnchangedParse /\ UNCHANGED phase

EndOfWork ==
  /\ phase = "generate" /\ work = <<>>
  /\ phase' = "done"
  /\ UNCHANGED entries /\ UnchangedParse /\ UNCHANGED generated

(* It is over, or the bound cuts the text off. *)
Rest ==
  /\ phase \in {"done", "failed"} \/ (phase = "parse" /\ tokens = MaxTokens)
  /\ UNCHANGED vars

-----------------------------------------------------------------------------
Init ==
  /\ tokens = 1 /\ open = <<Context("global", Null)>> /\ uses = <<>> /\ item = <<>>
  /\ tables = <<SymbolTable(Null)>> /\ entries = <<>>
  /\ blocks = <<>> /\ functions = <<>> /\ unit = <<>>
  /\ currentTable = Global /\ currentBlock = Null /\ currentFunction = Null
  /\ blockStack = <<>> /\ tempCounter = 0
  /\ phase = "parse"
  /\ work = <<>> /\ place = 0 /\ home = <<>> /\ loads = <<>>

Next ==
  \/ OpenFunction \/ EmptyBody \/ OpenBlock \/ CloseBlock \/ CloseFunction
  \/ Operand \/ Operator \/ Invoke \/ EndExpression \/ If \/ EndCondition
  \/ StartDefinition \/ EndDefinition \/ EndDeclaration \/ EndOfText
  \/ GenFunction \/ GenBlock \/ GenIf \/ GenExpression \/ GenDeclaration
  \/ GenBinary \/ GenIdentifier \/ GenCall
  \/ EndOfWork \/ Rest

Spec == Init /\ [][Next]_vars

-----------------------------------------------------------------------------
(* Properties. *)

(* What is read where a name is used is the place that was given to the    *)
(* declaration that the name means in C, whatever was declared, opened and *)
(* closed in between, and by which tables it was found.                    *)
SameVariable ==
  /\ phase # "failed"
  /\ \A k \in DOMAIN loads : loads[k] = home[uses[k]]

(* irgen visits every operand and call of the text, in its order: what is  *)
(* written in a block is in the list of that block.                        *)
NothingLost == phase = "done" => Len(loads) = Len(uses)

TableOf(block) == blocks[block].table

(* The driver is in the block and the table where the text is, the stack   *)
(* holds the blocks around it, and their tables are each other's parents.  *)
ScopesMatch ==
  LET around[k \in 0 .. Len(open)] ==
        IF k = 0 THEN <<>>
        ELSE IF open[k].kind = "block" THEN Append(around[k - 1], open[k].block)
        ELSE around[k - 1]
  IN /\ blockStack = around[Len(open)]
     /\ currentFunction = Null <=> Len(open) = 1
     /\ currentBlock = IF blockStack = <<>> THEN Null ELSE Last(blockStack)
     /\ currentTable = IF blockStack # <<>> THEN TableOf(Last(blockStack))
                       ELSE IF currentFunction # Null THEN functions[currentFunction].table ELSE Global
     /\ \A k \in DOMAIN blockStack :
          tables[TableOf(blockStack[k])].parent =
            IF k = 1 THEN functions[currentFunction].table ELSE TableOf(blockStack[k - 1])
=============================================================================
