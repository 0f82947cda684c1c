------------------------------- MODULE Arrays -------------------------------
(***************************************************************************)
(* Arrays from the text to memory: the parser reads a declaration with its *)
(* nested initializer list, InitializerList::setValueType                  *)
(* (src/src/frontend/ast.cpp) spreads the list over the dimensions, irgen  *)
(* stores the elements of a local array one after the other or codegen     *)
(* lays out the words of a global one, and a[i][j], f(a) and f(a[i])       *)
(* become address computations.                                            *)
(*                                                                         *)
(* Next to the parser the rule of C for initializer lists is kept, one     *)
(* token at a time (`cursor` and `expected`), without trees or padding.    *)
(***************************************************************************)
EXTENDS Integers, TLC, SequencesExt

CONSTANTS
  Shapes,      \* the lists of dimensions that may be declared
  BaseTypes,   \* the types of elements: "int", "float"
  MaxItems,    \* bound on the elements and inner lists of a text
  FillWords,   \* from so many words on, integers are filled with zeros first (8)
  MaxCalls,    \* bound on the functions an array is passed through
  Anywhere     \* whether lists and conversions occur also where the code is at fault

ASSUME ArraysAssumption ==
  /\ \A d \in Shapes : d # <<>> /\ \A k \in DOMAIN d : d[k] \in Nat \ {0}
  /\ BaseTypes \subseteq {"int", "float"}
  /\ MaxItems \in Nat /\ FillWords \in Nat /\ MaxCalls \in Nat /\ Anywhere \in BOOLEAN

VARIABLES
  decl,     \* scope, type of the elements and dimensions of the declaration
  phase,    \* what is done next; see Phases
  lists,    \* the initializer lists that are open, each with its elements so far
  items,    \* elements and inner lists read so far
  cursor,   \* C: for each open list the object it is for and the next place in it
  expected, \* C: the words of the array
  queue,    \* ast_expr_queue; before it is used, the list with its type
  pointer,  \* ir_ptr_id, in bytes from the beginning of the array
  shift,    \* shift_amount
  filled,   \* memset_init
  memory,   \* words, of the array and of what follows it
  place,    \* the operand of the expression that names a part of the array
  object,   \* C: the part that it names
  calls     \* functions the array was passed to

vars == <<decl, phase, lists, items, cursor, expected, queue, pointer, shift, filled,
          memory, place, object, calls>>

-----------------------------------------------------------------------------
(* Types.  An array is its list of dimensions; the elements have the type  *)
(* <<>>, of one word.                                                      *)
Words(dims) == FoldLeft(LAMBDA n, d : n * d, 1, dims)
WordBytes == 4
Bytes(dims) == WordBytes * Words(dims)

Zero == [type |-> "int", value |-> 0]
(* The bits of a word: zero is the same for an int and a float.            *)
Word(type, value) == IF value = 0 THEN Zero ELSE [type |-> type, value |-> value]
Garbage == [type |-> "garbage", value |-> 0]

(* Expressions: elements and lists.                                        *)
Element(type, value, constant) ==
  [kind |-> "element", type |-> type, value |-> value, constant |-> constant]
ZeroElement(type) == Element(type, 0, TRUE)
List(elements) == [kind |-> "list", elements |-> elements, dims |-> <<>>, zero |-> FALSE]
IsList(e) == e.kind = "list"

(* A conversion keeps what the element stands for and gives it the other   *)
(* type; it is an instruction even when its operand is a literal.  (With   *)
(* Anywhere a list may get here, whose type the code reads from a null     *)
(* pointer.)                                                               *)
CreateCast(type, e) ==
  IF IsList(e) \/ e.type = type THEN e ELSE [e EXCEPT !.type = type, !.constant = FALSE]

(* countElements: a list among the elements counts with the weight of one  *)
(* dimension more.  The index from is unsigned: below 0 no dimension is    *)
(* multiplied.                                                             *)
RECURSIVE CountElements(_, _, _)
CountElements(dims, from, elements) ==
  LET weight == IF from < 0 THEN 1 ELSE Words(SubSeq(dims, from + 1, Len(dims)))
      Count(e) == IF IsList(e) THEN CountElements(dims, from - 1, e.elements) ELSE weight
  IN FoldLeft(LAMBDA n, e : n + Count(e), 0, elements)

(* InitializerList::setValueType for elements of type base.                *)
RECURSIVE SetValueType(_, _, _)
SetValueType(list, base, dims) ==
  LET Typed(elements) ==
        [kind |-> "list", elements |-> elements, dims |-> dims, zero |-> elements = <<>>]
      Padded(elements, e) ==
        elements \o [k \in 1 .. (dims[1] - Len(elements)) |-> e]
      inner == Tail(dims)
      Inner(elements) == SetValueType(List(elements), base, inner)
      Full(buffer) == CountElements(inner, Len(inner), buffer) = Words(inner)
      Buffered(acc, e) ==
        IF Full(Append(acc.buffer, e))
        THEN [new |-> Append(acc.new, Inner(Append(acc.buffer, e))), buffer |-> <<>>]
        ELSE [acc EXCEPT !.buffer = Append(@, e)]
      Take(acc, e) ==
        IF IsList(e)
        THEN IF acc.buffer = <<>>
             THEN [acc EXCEPT !.new = Append(@, SetValueType(e, base, inner))]
             ELSE Buffered(acc, e)
        ELSE IF e.type = base THEN Buffered(acc, e) ELSE acc
      taken == FoldLeft(Take, [new |-> <<>>, buffer |-> <<>>], list.elements)
      new == IF taken.buffer = <<>> THEN taken.new
             ELSE Append(taken.new, Inner(taken.buffer))
  IN CASE list.elements = <<>> -> Typed(<<>>)
       [] inner = <<>> ->
            Typed(Padded([k \in DOMAIN list.elements |-> CreateCast(base, list.elements[k])],
                         ZeroElement(base)))
       [] OTHER -> Typed(Padded(new, Inner(<<>>)))

-----------------------------------------------------------------------------
(* C: a list that opens at a place of an object stands for the largest     *)
(* part of the object that begins there.                                   *)
PartAt(dims, next) ==
  LET begins == {k \in 2 .. Len(dims) + 1 :
                   next % Words(SubSeq(dims, k, Len(dims))) = 0}
  IN SubSeq(dims, CHOOSE k \in begins : \A j \in begins : k <= j, Len(dims))

(* Not in the middle of an element of the enclosing list.                  *)
AtElement(c) == c.next % Words(Tail(c.dims)) = 0

Cursor(dims, first, inside) == [dims |-> dims, first |-> first, next |-> 0, inside |-> inside]
Top == Last(cursor)
OnTop(s, e) == [s EXCEPT ![Len(s)] = e]
Beyond(c, n) == [c EXCEPT !.next = @ + n]

(* There is an open list with room for one more item.                      *)
Room == lists # <<>> /\ items < MaxItems /\ Top.next < Words(Top.dims)

(* Where a conversion is fine: setValueType drops an element of another    *)
(* type unless the list is one of single elements.                         *)
Convertible(type) == type = decl.base \/ Len(Top.dims) = 1 \/ Anywhere

(* An element of the list: a literal (zero or not), or an expression that  *)
(* has a value at run time only.                                           *)
ScanElement(type, value, constant) ==
  /\ phase = "parse" /\ Room /\ Convertible(type)
  /\ (decl.scope = "global" => constant)
  /\ items' = items + 1
  /\ lists' = OnTop(lists, Append(Last(lists), Element(type, value, constant)))
  /\ cursor' = OnTop(cursor, Beyond(Top, 1))
  /\ expected' = [expected EXCEPT ![Top.first + Top.next] = Word(decl.base, value)]
  /\ UNCHANGED <<decl, phase, queue, pointer, shift, filled, memory, place, object, calls>>

(* `{` inside a list.                                                      *)
OpenList ==
  /\ phase = "parse" /\ Room
  /\ PartAt(Top.dims, Top.next) # <<>>
  /\ items' = items + 1
  /\ lists' = Append(lists, <<>>)
  /\ cursor' = Append(cursor, Cursor(PartAt(Top.dims, Top.next), Top.first + Top.next,
                                     ~AtElement(Top)))
  /\ UNCHANGED <<decl, phase, expected, queue, pointer, shift, filled, memory, place,
                 object, calls>>

(* `}` of an inner list.  In the middle of an element countElements is     *)
(* right about a list of one element only.                                 *)
CloseList ==
  /\ phase = "parse" /\ Len(lists) > 1
  /\ (Top.inside => Len(Last(lists)) = 1 \/ Anywhere)
  /\ LET outer == Front(lists)
         below == Front(cursor)
     IN /\ lists' = OnTop(outer, Append(Last(outer), List(Last(lists))))
        /\ cursor' = OnTop(below, Beyond(Last(below), Words(Top.dims)))
  /\ UNCHANGED <<decl, phase, items, expected, queue, pointer, shift, filled, memory,
                 place, object, calls>>

(* `}` of the outermost list, and the rule for Def.                        *)
EndOfList ==
  /\ phase = "parse" /\ Len(lists) = 1
  /\ phase' = "typed"
  /\ queue' = <<SetValueType(List(lists[1]), decl.base, decl.dims)>>
  /\ lists' = <<>> /\ cursor' = <<>>
  /\ UNCHANGED <<decl, items, expected, pointer, shift, filled, memory, place, object, calls>>

-----------------------------------------------------------------------------
(* Global arrays: getCompileTimeConstantValue, irgen_comptime_value and    *)
(* the data that codegen collects.                                         *)
RECURSIVE Data(_)
Data(e) ==
  IF ~IsList(e) THEN <<Word(e.type, e.value)>>
  ELSE IF e.elements = <<>> THEN [k \in 1 .. Words(e.dims) |-> Zero]
  ELSE FoldLeft(LAMBDA data, f : data \o Data(f), <<>>, e.elements)

Image(data) == [k \in 0 .. Len(data) - 1 |-> data[k + 1]]

GenGlobal ==
  /\ phase = "typed" /\ decl.scope = "global"
  /\ phase' = "stored"
  /\ memory' = Image(Data(queue[1]))
  /\ queue' = <<>>
  /\ UNCHANGED <<decl, lists, items, cursor, expected, pointer, shift, filled, place,
                 object, calls>>

-----------------------------------------------------------------------------
(* A fault: every index counts parts of the first type.                    *)
MutFirstBasis(ptr, dims, index) ==
  ptr + FoldLeft(LAMBDA n, i : n + i, 0, index) * Bytes(dims)

(* The address that getelementptr computes: each index counts parts of the *)
(* current type, and the type becomes that of the parts if it is an array. *)
GetElementPtr(ptr, dims, index) ==
  LET Step(acc, i) ==
        [ptr |-> acc.ptr + i * Bytes(acc.basis),
         basis |-> IF acc.basis = <<>> THEN <<>> ELSE Tail(acc.basis)]
  IN FoldLeft(Step, [ptr |-> ptr, basis |-> dims], index).ptr

StoreWord(ptr, e) == (ptr \div WordBytes :> Word(e.type, e.value)) @@ memory

(* Local arrays: place on the stack, zeros where integers are many, and    *)
(* the pointer to the first element.                                       *)
GenLocal ==
  /\ phase = "typed" /\ decl.scope = "local"
  /\ phase' = "store"
  /\ filled' = (decl.base = "int" /\ Words(decl.dims) >= FillWords)
  /\ memory' = IF filled' THEN [k \in 0 .. Words(decl.dims) - 1 |-> Zero] ELSE memory
  /\ pointer' = FoldLeft(LAMBDA ptr, k : GetElementPtr(ptr, SubSeq(decl.dims, k, Len(decl.dims)), <<0, 0>>),
                         0, [k \in DOMAIN decl.dims |-> k])
  /\ shift' = 0
  /\ UNCHANGED <<decl, lists, items, cursor, expected, queue, place, object, calls>>

(* The parts of a list without elements: zeros, or again such lists.       *)
ZeroParts(list) ==
  [k \in 1 .. list.dims[1] |->
     IF Len(list.dims) = 1 THEN ZeroElement(decl.base)
     ELSE [kind |-> "list", elements |-> <<>>, dims |-> Tail(list.dims), zero |-> TRUE]]

Parts(list) == IF list.zero THEN ZeroParts(list) ELSE list.elements

StoreList ==
  /\ phase = "store" /\ queue # <<>> /\ IsList(Head(queue))
  /\ queue' = Tail(queue) \o Parts(Head(queue))
  /\ UNCHANGED <<decl, phase, lists, items, cursor, expected, pointer, shift, filled,
                 memory, place, object, calls>>

(* A fault: go on to the next place before the element is stored.          *)
MutStepFirst ==
  /\ phase = "store" /\ queue # <<>> /\ ~IsList(Head(queue)) /\ ~filled
  /\ pointer' = GetElementPtr(pointer, <<>>, <<1>>)
  /\ memory' = StoreWord(pointer', Head(queue))
  /\ queue' = Tail(queue)
  /\ UNCHANGED <<decl, phase, lists, items, cursor, expected, shift, filled, place,
                 object, calls>>

(* Store and go on to the next element.                                    *)
StoreElement ==
  /\ phase = "store" /\ queue # <<>> /\ ~IsList(Head(queue)) /\ ~filled
  /\ memory' = StoreWord(pointer, Head(queue))
  /\ pointer' = GetElementPtr(pointer, <<>>, <<1>>)
  /\ queue' = Tail(queue)
  /\ UNCHANGED <<decl, phase, lists, items, cursor, expected, shift, filled, place,
                 object, calls>>

Skippable(e) == e.constant /\ e.value = 0

(* After filling, literal zeros are only counted ...                       *)
SkipZero ==
  /\ phase = "store" /\ queue # <<>> /\ ~IsList(Head(queue)) /\ filled
  /\ Skippable(Head(queue))
  /\ shift' = shift + 1
  /\ queue' = Tail(queue)
  /\ UNCHANGED <<decl, phase, lists, items, cursor, expected, pointer, filled, memory,
                 place, object, calls>>

(* A fault: after a store the place of the element stored is not counted.  *)
MutShiftFromZero ==
  /\ phase = "store" /\ queue # <<>> /\ ~IsList(Head(queue)) /\ filled
  /\ ~Skippable(Head(queue))
  /\ pointer' = GetElementPtr(pointer, <<>>, <<shift>>)
  /\ shift' = 0
  /\ memory' = StoreWord(pointer', Head(queue))
  /\ queue' = Tail(queue)
  /\ UNCHANGED <<decl, phase, lists, items, cursor, expected, filled, place, object, calls>>

(* ... and the next element is stored as many places further on.           *)
StoreShifted ==
  /\ phase = "store" /\ queue # <<>> /\ ~IsList(Head(queue)) /\ filled
  /\ ~Skippable(Head(queue))
  /\ pointer' = GetElementPtr(pointer, <<>>, <<shift>>)
  /\ shift' = 1
  /\ memory' = StoreWord(pointer', Head(queue))
  /\ queue' = Tail(queue)
  /\ UNCHANGED <<decl, phase, lists, items, cursor, expected, filled, place, object, calls>>

StoresEnd ==
  /\ phase = "store" /\ queue = <<>>
  /\ phase' = "stored"
  /\ UNCHANGED <<decl, lists, items, cursor, expected, queue, pointer, shift, filled,
                 memory, place, object, calls>>

-----------------------------------------------------------------------------
(* The expression that names a part of the array.  Its operand is the      *)
(* address of an array or element of dimensions dims, or a pointer to such.*)
Index(i) ==
  /\ phase = "access" /\ object.dims # <<>> /\ i < object.dims[1]
  /\ object' = [first |-> object.first + i * Words(Tail(object.dims)),
                dims |-> Tail(object.dims)]
  /\ place' = IF place.isPointer
              THEN [address |-> GetElementPtr(place.address, place.dims, <<i>>),
                    dims |-> place.dims, isPointer |-> FALSE]
              ELSE [address |-> GetElementPtr(place.address, place.dims, <<0, i>>),
                    dims |-> Tail(place.dims), isPointer |-> FALSE]
  /\ UNCHANGED <<decl, phase, lists, items, cursor, expected, queue, pointer, shift,
                 filled, memory, calls>>

(* An array as argument is the address of its first part, and the          *)
(* parameter a pointer to such parts; a pointer is handed on.              *)
PassArgument ==
  /\ phase = "access" /\ object.dims # <<>> /\ calls < MaxCalls
  /\ calls' = calls + 1
  /\ place' = IF place.isPointer THEN place
              ELSE [address |-> GetElementPtr(place.address, place.dims, <<0, 0>>),
                    dims |-> Tail(place.dims), isPointer |-> TRUE]
  /\ UNCHANGED <<decl, phase, lists, items, cursor, expected, queue, pointer, shift,
                 filled, memory, object>>

-----------------------------------------------------------------------------
Phases == {"declared", "parse", "typed", "store", "stored", "access"}

Init ==
  /\ decl \in [scope : {"global", "local"}, base : BaseTypes, dims : Shapes]
  /\ phase = "declared"
  /\ lists = <<>> /\ items = 0 /\ cursor = <<>>
  /\ expected = [k \in 0 .. Words(decl.dims) - 1 |-> Zero]
  /\ queue = <<>> /\ pointer = 0 /\ shift = 0 /\ filled = FALSE
  /\ memory = [k \in 0 .. Words(decl.dims) - 1 |-> Garbage]
  /\ place = [address |-> 0, dims |-> decl.dims, isPointer |-> FALSE]
  /\ object = [first |-> 0, dims |-> decl.dims]
  /\ calls = 0

(* `= {`                                                                   *)
StartList ==
  /\ phase = "declared"
  /\ phase' = "parse"
  /\ lists' = <<<<>>>>
  /\ cursor' = <<Cursor(decl.dims, 0, FALSE)>>
  /\ UNCHANGED <<decl, items, expected, queue, pointer, shift, filled, memory, place,
                 object, calls>>

(* No initializer: a global array is zero, a local one is left as it is.   *)
DeclareOnly ==
  /\ phase = "declared"
  /\ phase' = "access"
  /\ memory' = IF decl.scope = "global"
               THEN Image(Data([kind |-> "list", elements |-> <<>>, dims |-> decl.dims, zero |-> TRUE]))
               ELSE memory
  /\ UNCHANGED <<decl, lists, items, cursor, expected, queue, pointer, shift, filled,
                 place, object, calls>>

ElementTypes == {"int", "float"}

Next ==
  \/ StartList \/ DeclareOnly
  \/ \E type \in ElementTypes, zero, constant \in BOOLEAN :
       ScanElement(type, IF zero THEN 0 ELSE items + 1, constant)
  \/ OpenList \/ CloseList \/ EndOfList
  \/ GenGlobal \/ GenLocal
  \/ StoreList \/ StoreElement \/ SkipZero \/ StoreShifted \/ StoresEnd
  \/ \E i \in 0 .. Words(decl.dims) - 1 : Index(i)
  \/ PassArgument

Spec == Init /\ [][Next]_vars

-----------------------------------------------------------------------------
(* The state keeps to its type: the sequences of open lists run in step    *)
(* with their cursors, and no list has more than its object.               *)
TypeOK ==
  /\ phase \in Phases /\ items \in 0 .. MaxItems /\ calls \in 0 .. MaxCalls
  /\ Len(lists) = Len(cursor)
  /\ \A k \in DOMAIN cursor : cursor[k].next \in 0 .. Words(cursor[k].dims)
  /\ filled \in BOOLEAN /\ shift \in Nat /\ pointer \in Nat

(* When a declaration is done, every word of the array holds what C says:  *)
(* the element of the list that stands for it, converted to the type of    *)
(* the array, and zero where the list gives none (ast.cpp:58, irgen.cpp:97,*)
(* codegen.cpp:14).                                                        *)
ElementsPlaced ==
  (phase = "stored" \/ (phase = "access" /\ decl.scope = "global")) =>
    \A k \in DOMAIN expected : memory[k] = expected[k]

(* Initializing an array never touches what lies beside it: the list has   *)
(* exactly the elements of the array however the text was padded, and the  *)
(* pointer steps over each once (irgen.cpp:152).                           *)
StaysInside == DOMAIN memory = 0 .. Words(decl.dims) - 1

(* An element that is named by indices, through any number of functions    *)
(* that the array or a part of it was passed to, is the one C means, at    *)
(* its place in memory and of its type (irgen.cpp:966, codegen.cpp:907).   *)
AccessExact ==
  /\ place.address = WordBytes * object.first
  /\ place.dims = IF place.isPointer THEN Tail(object.dims) ELSE object.dims

=============================================================================
