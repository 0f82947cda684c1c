-------------------------- MODULE StackFrameProof ---------------------------
(***************************************************************************)
(* Proofs about StackFrame: whatever the shapes of the functions and       *)
(* however deep they call each other, no part of the stack is written over *)
(* while it is needed.                                                     *)
(***************************************************************************)
EXTENDS StackFrame, Induction, FiniteSetTheorems, SequenceTheorems

(* Rounding up to a multiple of 16. *)
LEMMA AlignedUp ==
  \A n \in Nat : Aligned(n) \in Nat /\ Aligned(n) % 16 = 0 /\ n <= Aligned(n)
BY DEF Aligned

LEMMA SumOf4 ==
  ASSUME NEW i \in Nat, NEW j \in Nat, i % 4 = 0, j % 4 = 0
  PROVE  (i + j) % 4 = 0
OBVIOUS

LEMMA SumOf16 ==
  ASSUME NEW i \in Int, NEW j \in Int, i % 16 = 0, j % 16 = 0
  PROVE  (i + j) % 16 = 0 /\ (i - j) % 16 = 0
OBVIOUS

LEMMA CellsBetween ==
  ASSUME NEW a \in Nat, a % 4 = 0, a < StackTop
  PROVE  a \in Cells
<1>1. \A t \in Nat : t % 16 = 0 /\ a < t => a \in {4 * i : i \in 0 .. (t \div 4) - 1}
  OBVIOUS
<1> QED BY <1>1, ConstantsAssumption DEF Cells

LEMMA CellsInt == \A a \in Cells : a \in Nat /\ a % 4 = 0
BY ConstantsAssumption DEF Cells

(* Counting the elements of a finite set up to a place gives each its own  *)
(* number.                                                                 *)
LEMMA CountUpTo ==
  ASSUME NEW S, IsFiniteSet(S), NEW place \in [S -> Nat], NEW x \in S
  PROVE  /\ Cardinality({q \in S : place[q] <= place[x]}) \in 1 .. Cardinality(S)
         /\ \A y \in S : place[x] < place[y] =>
              Cardinality({q \in S : place[q] <= place[x]}) <
              Cardinality({q \in S : place[q] <= place[y]})
<1> DEFINE Upto(z) == {q \in S : place[q] <= place[z]}
<1>1. \A z \in S : Upto(z) \in SUBSET S /\ z \in Upto(z)
  OBVIOUS
<1>2. \A z \in S : /\ IsFiniteSet(Upto(z)) /\ Cardinality(Upto(z)) \in Nat
                   /\ Cardinality(Upto(z)) <= Cardinality(S)
                   /\ Cardinality(Upto(z)) # 0
  <2> HIDE DEF Upto
  <2> TAKE z \in S
  <2>1. IsFiniteSet(Upto(z)) /\ Cardinality(Upto(z)) <= Cardinality(S)
    BY <1>1, FS_Subset
  <2>2. Cardinality(Upto(z)) \in Nat
    BY <2>1, FS_CardinalityType
  <2>3. Cardinality(Upto(z)) # 0
    BY <1>1, <2>1, FS_EmptySet
  <2> QED BY <2>1, <2>2, <2>3
<1>3. Cardinality(S) \in Nat
  BY FS_CardinalityType
<1>4. ASSUME NEW y \in S, place[x] < place[y]
      PROVE  Cardinality(Upto(x)) < Cardinality(Upto(y))
  <2>1. Upto(x) \in SUBSET Upto(y) /\ y \in Upto(y) /\ y \notin Upto(x)
    BY <1>4
  <2> HIDE DEF Upto
  <2>2. Cardinality(Upto(x)) <= Cardinality(Upto(y)) /\ Cardinality(Upto(x)) # Cardinality(Upto(y))
    BY <1>2, <2>1, FS_Subset
  <2> QED BY <1>2, <2>2
<1> HIDE DEF Upto
<1>5. Cardinality(Upto(x)) \in 1 .. Cardinality(S)
  BY <1>2, <1>3
<1> QED BY <1>4, <1>5 DEF Upto

-----------------------------------------------------------------------------
(* The layout of a frame. *)

LEMMA SumOfMultiples ==
  ASSUME NEW s \in Seq(Nat), \A k \in 1 .. Len(s) : s[k] % 4 = 0,
         NEW f \in [0 .. Len(s) -> Nat], f[0] = 0,
         \A k \in 1 .. Len(s) : f[k] = f[k - 1] + s[k]
  PROVE  \A k \in 0 .. Len(s) : f[k] % 4 = 0
<1> DEFINE Good == {n \in Nat : n <= Len(s) => f[n] % 4 = 0}
<1>0. Len(s) \in Nat /\ \A k \in 1 .. Len(s) : s[k] \in Nat
  OBVIOUS
<1>1. 0 \in Good
  OBVIOUS
<1>2. \A n \in Nat : n \in Good => n + 1 \in Good
  <2> SUFFICES ASSUME NEW n \in Nat, n \in Good, n + 1 <= Len(s) PROVE f[n + 1] % 4 = 0
    OBVIOUS
  <2>0. n \in 0 .. Len(s) /\ n + 1 \in 1 .. Len(s) /\ (n + 1) - 1 = n
    BY <1>0
  <2>1. f[n + 1] = f[n] + s[n + 1] /\ f[n] \in Nat /\ s[n + 1] \in Nat
    BY <1>0, <2>0
  <2>2. f[n] % 4 = 0 /\ s[n + 1] % 4 = 0
    BY <1>0, <2>0
  <2> QED BY ZenonT(60), <2>1, <2>2, SumOf4
<1>3. Good \in SUBSET Nat
  OBVIOUS
<1>4. Good = Nat
  <2> HIDE DEF Good
  <2> QED BY <1>1, <1>2, <1>3, NatInductionSet
<1> QED BY <1>0, <1>4

LEMMA OffsetsFacts ==
  ASSUME NEW s \in ShapeType
  PROVE  LET z == s.allocas
             o == Offsets(z)
         IN /\ z \in Seq(Nat) /\ Len(z) \in Nat
            /\ \A k \in 1 .. Len(z) : z[k] \in Nat /\ z[k] > 0 /\ z[k] % 4 = 0
            /\ \A k \in 0 .. Len(z) : o[k] \in Nat /\ o[k] % 4 = 0
            /\ \A k \in 1 .. Len(z) : o[k] = o[k - 1] + z[k]
            /\ \A j, k \in 0 .. Len(z) : j <= k => o[j] <= o[k]
<1> DEFINE z == s.allocas
           o == Offsets(z)
<1>0. z \in Seq({n \in Nat : n > 0 /\ n % 4 = 0})
  BY DEF ShapeType
<1> HIDE DEF z
<1>1. /\ z \in Seq(Nat) /\ Len(z) \in Nat
      /\ \A k \in 1 .. Len(z) : z[k] \in Nat /\ z[k] > 0 /\ z[k] % 4 = 0
  BY <1>0
<1>2. PICK f : IsSum(f, z, Len(z))
  BY <1>1, SumExists
<1>3. IsSum(o, z, Len(z))
  BY <1>2 DEF IsSum, Offsets
<1> HIDE DEF o
<1>4. /\ o \in [0 .. Len(z) -> Nat] /\ o[0] = 0
      /\ \A k \in 1 .. Len(z) : o[k] = o[k - 1] + z[k]
      /\ \A j, k \in 0 .. Len(z) : j <= k => o[j] <= o[k]
  BY <1>1, <1>3, SumFacts
<1>5. \A k \in 0 .. Len(z) : o[k] % 4 = 0
  BY <1>1, <1>4, SumOfMultiples
<1> QED BY <1>1, <1>4, <1>5 DEF z, o

(* The words of the local variables lie apart below AllocasSize. *)
LEMMA LocalCellsFacts ==
  ASSUME NEW s \in ShapeType
  PROVE  /\ AllocasSize(s) \in Nat /\ AllocasSize(s) % 4 = 0
         /\ \A i \in DOMAIN s.allocas : \A c \in LocalCells(s, i) :
              /\ c \in Nat /\ c % 4 = 0 /\ c < AllocasSize(s)
              /\ \A j \in DOMAIN s.allocas : c \in LocalCells(s, j) => i = j
<1> DEFINE z == s.allocas
           o == Offsets(z)
<1>1. /\ z \in Seq(Nat) /\ Len(z) \in Nat
      /\ \A k \in 1 .. Len(z) : z[k] \in Nat /\ z[k] > 0 /\ z[k] % 4 = 0
      /\ \A k \in 0 .. Len(z) : o[k] \in Nat /\ o[k] % 4 = 0
      /\ \A k \in 1 .. Len(z) : o[k] = o[k - 1] + z[k]
      /\ \A j, k \in 0 .. Len(z) : j <= k => o[j] <= o[k]
  BY OffsetsFacts
<1>2. DOMAIN z = 1 .. Len(z)
  BY <1>1
<1>3. AllocasSize(s) = o[Len(z)]
  BY DEF AllocasSize
<1>4. \A i \in 1 .. Len(z) :
        LocalCells(s, i) = {o[i - 1] + 4 * w : w \in 0 .. (z[i] \div 4) - 1}
  BY DEF LocalCells, AllocaOffset
<1> HIDE DEF z, o
<1>5. ASSUME NEW i \in 1 .. Len(z), NEW c \in LocalCells(s, i)
      PROVE  c \in Nat /\ c % 4 = 0 /\ o[i - 1] <= c /\ c < o[i]
  <2>1. i - 1 \in 0 .. Len(z) /\ i \in 0 .. Len(z)
    BY <1>1
  <2>2. PICK w \in 0 .. (z[i] \div 4) - 1 : c = o[i - 1] + 4 * w
    BY <1>4
  <2>3. w \in Nat /\ 4 * w < z[i]
    BY <1>1
  <2>4. (4 * w) % 4 = 0
    BY <2>3
  <2>5. o[i - 1] \in Nat /\ o[i - 1] % 4 = 0 /\ o[i] = o[i - 1] + z[i] /\ z[i] \in Nat
    BY Zenon, <1>1, <2>1
  <2>6. (o[i - 1] + 4 * w) % 4 = 0
    BY <2>3, <2>4, <2>5, SumOf4
  <2> QED BY <2>2, <2>3, <2>5, <2>6
<1>6. ASSUME NEW i \in 1 .. Len(z), NEW c \in LocalCells(s, i)
      PROVE  c < o[Len(z)]
  <2>1. i \in 0 .. Len(z) /\ Len(z) \in 0 .. Len(z) /\ i <= Len(z)
    BY <1>1
  <2>2. o[i] <= o[Len(z)] /\ o[i] \in Nat /\ o[Len(z)] \in Nat
    BY <1>1, <2>1
  <2> QED BY <1>5, <2>2
<1>7. ASSUME NEW i \in 1 .. Len(z), NEW j \in 1 .. Len(z), i < j,
             NEW c \in LocalCells(s, i), c \in LocalCells(s, j)
      PROVE  FALSE
  <2>1. i \in 0 .. Len(z) /\ j - 1 \in 0 .. Len(z) /\ i <= j - 1
    BY <1>1, <1>7
  <2>2. o[i] <= o[j - 1] /\ o[i] \in Nat /\ o[j - 1] \in Nat
    BY <1>1, <2>1
  <2>3. c < o[i] /\ o[j - 1] <= c /\ c \in Nat
    BY <1>5, <1>7
  <2> QED BY <2>2, <2>3
<1>8. o[Len(z)] \in Nat /\ o[Len(z)] % 4 = 0
  BY <1>1
<1>9. \A i, j \in 1 .. Len(z) : i < j \/ j < i \/ i = j
  BY <1>1
<1>10. ASSUME NEW i \in 1 .. Len(z), NEW c \in LocalCells(s, i),
              NEW j \in 1 .. Len(z), c \in LocalCells(s, j)
       PROVE  i = j
  BY <1>7, <1>9, <1>10
<1> QED BY <1>2, <1>3, <1>5, <1>6, <1>8, <1>10 DEF z

(* The frame has room for its parts. *)
LEMMA FrameFacts ==
  ASSUME NEW s \in ShapeType
  PROVE  /\ s.spills \in Nat
         /\ IsFiniteSet(SavedSet(s)) /\ Cardinality(SavedSet(s)) \in Nat
         /\ SavedSet(s) \subseteq CalleeSaved
         /\ LocalSize(s) = AllocasSize(s) + 8 * s.spills /\ LocalSize(s) \in Nat
         /\ FrameSize(s) \in Nat /\ FrameSize(s) % 16 = 0
         /\ LocalSize(s) + 8 + 8 * Cardinality(SavedSet(s)) <= FrameSize(s)
<1>1. s.spills \in Nat /\ SavedSet(s) \in SUBSET CalleeSaved
  BY ConstantsAssumption DEF ShapeType, SavedSet
<1>2. IsFiniteSet(SavedSet(s)) /\ Cardinality(SavedSet(s)) \in Nat
  BY <1>1, ConstantsAssumption, FS_Subset, FS_CardinalityType
<1>3. AllocasSize(s) \in Nat
  BY LocalCellsFacts
<1>4. LocalSize(s) = AllocasSize(s) + 8 * s.spills /\ LocalSize(s) \in Nat
  BY <1>1, <1>3 DEF LocalSize
<1>5. StackFrameSize(s) = LocalSize(s) + 8 + 8 * Cardinality(SavedSet(s))
  BY <1>2, <1>4 DEF StackFrameSize
<1>6. StackFrameSize(s) \in Nat
  BY <1>2, <1>4, <1>5
<1> QED BY <1>1, <1>2, <1>4, <1>5, <1>6, AlignedUp DEF FrameSize

(* Each saved register has its own place in the set. *)
LEMMA SavedPlaces ==
  ASSUME NEW s \in ShapeType, NEW r \in SavedSet(s)
  PROVE  /\ SavedPlace(s, r) \in 1 .. Cardinality(SavedSet(s))
         /\ \A q \in SavedSet(s) : SavedPlace(s, q) = SavedPlace(s, r) => q = r
<1> DEFINE S == SavedSet(s)
           place == [q \in S |-> SavedIndex[q]]
<1>1. IsFiniteSet(S) /\ S \subseteq CalleeSaved
  BY FrameFacts
<1>2. SavedIndex \in [CalleeSaved -> Nat]
      /\ \A p, q \in CalleeSaved : SavedIndex[p] = SavedIndex[q] => p = q
  BY ConstantsAssumption DEF IsInjective
<1>3. place \in [S -> Nat] /\ \A q \in S : place[q] = SavedIndex[q]
  BY <1>1, <1>2
<1>4. \A q \in S : SavedPlace(s, q) = Cardinality({p \in S : place[p] <= place[q]})
  BY <1>3 DEF SavedPlace
<1> HIDE DEF place, S
<1>5. \A x \in S : /\ SavedPlace(s, x) \in 1 .. Cardinality(S)
                   /\ \A y \in S : place[x] < place[y] => SavedPlace(s, x) < SavedPlace(s, y)
  <2> TAKE x \in S
  <2>1. /\ Cardinality({q \in S : place[q] <= place[x]}) \in 1 .. Cardinality(S)
        /\ \A y \in S : place[x] < place[y] =>
              Cardinality({q \in S : place[q] <= place[x]}) <
              Cardinality({q \in S : place[q] <= place[y]})
    BY <1>1, <1>3, CountUpTo
  <2> QED BY <1>4, <2>1
<1>6. ASSUME NEW q \in S, q # r, r \in S PROVE SavedPlace(s, q) # SavedPlace(s, r)
  <2>1. place[q] # place[r] /\ place[q] \in Nat /\ place[r] \in Nat
    BY <1>1, <1>2, <1>3, <1>6
  <2>2. place[q] < place[r] \/ place[r] < place[q]
    BY <2>1
  <2>3. SavedPlace(s, q) \in Int /\ SavedPlace(s, r) \in Int
    BY <1>5, <1>6
  <2> QED BY <1>5, <1>6, <2>2, <2>3
<1> QED BY <1>5, <1>6 DEF S

-----------------------------------------------------------------------------
(* The places of arguments. *)

LEMMA StackArguments ==
  ASSUME NEW params \in Seq(Class)
  PROVE  /\ IsFiniteSet(OnStack(params)) /\ Cardinality(OnStack(params)) \in Nat
         /\ OnStack(params) \subseteq DOMAIN params
         /\ StackSize(params) = 8 * Cardinality(OnStack(params)) /\ StackSize(params) \in Nat
         /\ \A k \in OnStack(params) :
              /\ StackPlace(params, k) \in 1 .. Cardinality(OnStack(params))
              /\ \A j \in OnStack(params) : StackPlace(params, j) = StackPlace(params, k) => j = k
<1> DEFINE S == OnStack(params)
           place == [j \in S |-> j]
<1>1. S \in SUBSET DOMAIN params /\ DOMAIN params = 1 .. Len(params) /\ Len(params) \in Nat
  BY DEF OnStack
<1>2. IsFiniteSet(S) /\ Cardinality(S) \in Nat
  <2>1. IsFiniteSet(1 .. Len(params))
    BY <1>1, FS_Interval
  <2> HIDE DEF S
  <2>2. IsFiniteSet(S)
    BY <1>1, <2>1, FS_Subset
  <2> QED BY <2>2, FS_CardinalityType
<1>3. place \in [S -> Nat] /\ \A j \in S : place[j] = j /\ j \in Nat
  BY <1>1
<1>4. \A k \in S : StackPlace(params, k) = Cardinality({j \in S : place[j] <= place[k]})
  BY <1>3 DEF StackPlace
<1> HIDE DEF place, S
<1>5. \A x \in S : /\ StackPlace(params, x) \in 1 .. Cardinality(S)
                   /\ \A y \in S : place[x] < place[y] =>
                                    StackPlace(params, x) < StackPlace(params, y)
  <2> TAKE x \in S
  <2>1. /\ Cardinality({q \in S : place[q] <= place[x]}) \in 1 .. Cardinality(S)
        /\ \A y \in S : place[x] < place[y] =>
              Cardinality({q \in S : place[q] <= place[x]}) <
              Cardinality({q \in S : place[q] <= place[y]})
    BY <1>2, <1>3, CountUpTo
  <2> QED BY <1>4, <2>1
<1>6. ASSUME NEW j \in S, NEW k \in S, j # k PROVE StackPlace(params, j) # StackPlace(params, k)
  <2>1. place[j] < place[k] \/ place[k] < place[j]
    BY <1>3, <1>6
  <2>2. StackPlace(params, j) \in Int /\ StackPlace(params, k) \in Int
    BY <1>5
  <2> QED BY <1>5, <2>1, <2>2
<1>7. StackSize(params) = 8 * Cardinality(S)
  BY DEF StackSize, S
<1> QED BY <1>1, <1>2, <1>5, <1>6, <1>7 DEF S

(* Two arguments that travel in registers travel in different ones. *)
LEMMA RegisterArguments ==
  ASSUME NEW params \in Seq(Class), NEW k \in DOMAIN params, k \notin OnStack(params)
  PROVE  /\ ArgReg(params[k], OfClass(params, k)) \in Register \ (CalleeSaved \cup {RA})
         /\ \A j \in DOMAIN params :
              ArgReg(params[j], OfClass(params, j)) = ArgReg(params[k], OfClass(params, k)) => j = k
<1> DEFINE Like(x) == {j \in DOMAIN params : params[j] = params[x]}
<1>1. DOMAIN params = 1 .. Len(params) /\ Len(params) \in Nat
      /\ \A j \in DOMAIN params : params[j] \in Class
  OBVIOUS
<1>2. \A x \in DOMAIN params :
        /\ OfClass(params, x) \in Nat \ {0}
        /\ \A y \in DOMAIN params : params[x] = params[y] /\ x < y =>
                                     OfClass(params, x) < OfClass(params, y)
  <2> TAKE x \in DOMAIN params
  <2> DEFINE S == Like(x)
             place == [j \in S |-> j]
  <2>1. S \in SUBSET DOMAIN params /\ x \in S
    OBVIOUS
  <2>2. IsFiniteSet(S) /\ Cardinality(S) \in Nat
    <3>1. IsFiniteSet(1 .. Len(params))
      BY <1>1, FS_Interval
    <3> HIDE DEF S
    <3>2. IsFiniteSet(S)
      BY <1>1, <2>1, <3>1, FS_Subset
    <3> QED BY <3>2, FS_CardinalityType
  <2>3. place \in [S -> Nat] /\ \A j \in S : place[j] = j /\ j \in Nat
    BY <1>1
  <2>4. \A y \in S : OfClass(params, y) = Cardinality({q \in S : place[q] <= place[y]})
    <3> TAKE y \in S
    <3>1. {j \in 1 .. y : params[j] = params[y]} = {q \in S : q <= y}
      BY <1>1
    <3>2. {q \in S : q <= y} = {q \in S : place[q] <= place[y]}
      BY <2>3
    <3> QED BY <3>1, <3>2 DEF OfClass
  <2>5. \A y \in DOMAIN params : params[x] = params[y] => y \in S
    OBVIOUS
  <2> HIDE DEF place, S
  <2>6. /\ Cardinality({q \in S : place[q] <= place[x]}) \in 1 .. Cardinality(S)
        /\ \A y \in S : place[x] < place[y] =>
              Cardinality({q \in S : place[q] <= place[x]}) <
              Cardinality({q \in S : place[q] <= place[y]})
    BY SMTT(60), <2>1, <2>2, <2>3, CountUpTo
  <2>7. OfClass(params, x) \in 1 .. Cardinality(S)
    BY <2>1, <2>4, <2>6
  <2>8. ASSUME NEW y \in DOMAIN params, params[x] = params[y], x < y
        PROVE  OfClass(params, x) < OfClass(params, y)
    <3>1. y \in S /\ place[x] < place[y]
      BY <2>1, <2>3, <2>5, <2>8
    <3> QED BY <2>1, <2>4, <2>6, <3>1
  <2> QED BY <2>2, <2>7, <2>8
<1>3. OfClass(params, k) \in 1 .. ArgRegs
  BY <1>2, ConstantsAssumption DEF OnStack
<1>4. ArgReg(params[k], OfClass(params, k)) \in Register \ (CalleeSaved \cup {RA})
  BY <1>1, <1>3, ConstantsAssumption DEF Register
<1>5. ASSUME NEW j \in DOMAIN params, j # k,
             ArgReg(params[j], OfClass(params, j)) = ArgReg(params[k], OfClass(params, k))
      PROVE  FALSE
  <2>1. params[j] = params[k] /\ OfClass(params, j) = OfClass(params, k)
    BY <1>5 DEF ArgReg
  <2>2. j < k \/ k < j
    BY <1>1, <1>5
  <2> QED BY <1>2, <2>1, <2>2
<1> QED BY <1>4, <1>5

-----------------------------------------------------------------------------
(* Memory. *)

(* v is stored in the two cells at address a. *)
Holds(m, a, v) == {a, a + 4} \subseteq DOMAIN m /\ m[a] = v /\ m[a + 4] = v

LEMMA WrittenDomain ==
  ASSUME NEW m, NEW at, NEW v
  PROVE  DOMAIN Written(m, at, v) = DOMAIN m
BY DEF Written

LEMMA WrittenElsewhere ==
  ASSUME NEW m, NEW at, NEW v, NEW a \in DOMAIN m,
         \A k \in DOMAIN at : a # at[k] /\ a # at[k] + 4
  PROVE  Written(m, at, v)[a] = m[a]
BY DEF Written

LEMMA WrittenThere ==
  ASSUME NEW m, NEW at, NEW v, NEW k \in DOMAIN at, {at[k], at[k] + 4} \subseteq DOMAIN m,
         \A j \in DOMAIN at : j # k => {at[j], at[j] + 4} \cap {at[k], at[k] + 4} = {}
  PROVE  Holds(Written(m, at, v), at[k], v[k])
<1>1. ASSUME NEW a \in {at[k], at[k] + 4}
      PROVE  Written(m, at, v)[a] = v[k]
  <2>1. \A j \in DOMAIN at : a \in {at[j], at[j] + 4} <=> j = k
    BY <1>1
  <2>2. (CHOOSE j \in DOMAIN at : a \in {at[j], at[j] + 4}) = k
    BY <2>1
  <2> QED BY <1>1, <2>1, <2>2 DEF Written
<1> QED BY <1>1, WrittenDomain DEF Holds

-----------------------------------------------------------------------------
(* The inductive invariant. *)

ShapeOf(d) == shape[calls[d].func]

(* The frame of the d-th active call is open. *)
IsOpen(d) == d < Depth \/ pc \in {"start", "body"}

CallType(A, B) == [func : Function, args : A, sp : Int, saved : B, worked : BOOLEAN]

Types ==
  /\ shape \in [Function -> Shapes]
  /\ \E A, B : calls \in Seq(CallType(A, B))
  /\ calls # <<>>
  /\ DOMAIN mem = Cells /\ DOMAIN reg = Register
  /\ pc \in {"enter", "start", "body", "leave"}

(* Each frame starts at the arguments of the call it makes and ends at its *)
(* own arguments.                                                          *)
Chain ==
  /\ \A d \in 1 .. Depth : calls[d].sp \in 0 .. StackTop /\ calls[d].sp % 16 = 0
  /\ \A d \in 1 .. Depth : IsOpen(d) => 0 <= FrameStart(d)
  /\ \A d \in 1 .. Depth - 1 :
       calls[d + 1].sp + Aligned(StackSize(ShapeOf(d + 1).params)) = FrameStart(d)
  /\ \A d, e \in 1 .. Depth : d < e => calls[e].sp <= FrameStart(d)
  /\ sp = IF pc \in {"start", "body"} THEN FrameStart(Depth) ELSE calls[Depth].sp
  /\ ShapeOf(1).params = <<>>

(* An open frame holds the return address and the saved registers. *)
SavedKept ==
  \A d \in 1 .. Depth : IsOpen(d) =>
    /\ Holds(mem, calls[d].sp - 8, ReturnValue(d - 1))
    /\ \A r \in SavedSet(ShapeOf(d)) :
         Holds(mem, calls[d].sp - 8 - 8 * SavedPlace(ShapeOf(d), r), calls[d].saved[r])

(* What LocalsKept says of the d-th call, its cells being on the stack. *)
LocalsHeld(m, d) ==
  /\ \A i \in 1 .. ShapeOf(d).spills :
       Holds(m, FrameStart(d) + SpillOffset(ShapeOf(d), i), SpillValue(d, i))
  /\ \A i \in DOMAIN ShapeOf(d).allocas : \A c \in LocalCells(ShapeOf(d), i) :
       FrameStart(d) + c \in DOMAIN m /\ m[FrameStart(d) + c] = LocalValue(d, i)

LocalsThere ==
  \A d \in 1 .. Depth : calls[d].worked /\ (d < Depth \/ pc = "body") => LocalsHeld(mem, d)

(* The arguments of the running call are in place until its body runs. *)
ArgumentHeld(m, g, k) ==
  LET params == ShapeOf(Depth).params
  IN IF k \in OnStack(params)
     THEN Holds(m, calls[Depth].sp + 8 * (StackPlace(params, k) - 1), calls[Depth].args[k])
     ELSE g[ArgReg(params[k], OfClass(params, k))] = calls[Depth].args[k]

ArgumentsThere ==
  pc \in {"enter", "start"} =>
    \A k \in DOMAIN ShapeOf(Depth).params : ArgumentHeld(mem, reg, k)

(* The callee-saved registers that a function has not been given are those *)
(* of its caller; the others are in its frame.                             *)
Registers ==
  /\ pc = "enter" => /\ reg[RA] = ReturnValue(Depth - 1)
                     /\ \A r \in CalleeSaved : reg[r] = calls[Depth].saved[r]
  /\ pc = "start" => /\ reg[S0] = Address(calls[Depth].sp)
                     /\ \A r \in CalleeSaved \ {S0} : reg[r] = calls[Depth].saved[r]
  /\ pc = "body" => \A r \in CalleeSaved \ SavedSet(ShapeOf(Depth)) :
                      reg[r] = calls[Depth].saved[r]
  /\ pc = "leave" => /\ reg[RA] = ReturnValue(Depth - 1)
                     /\ \A r \in CalleeSaved : reg[r] = calls[Depth].saved[r]
  /\ \A d \in 1 .. Depth - 1 : \A r \in CalleeSaved \ SavedSet(ShapeOf(d)) :
       calls[d + 1].saved[r] = calls[d].saved[r]

IInv == Types /\ Chain /\ SavedKept /\ LocalsThere /\ ArgumentsThere /\ Registers

(* The parts of a call and of its shape. *)
LEMMA CallFacts ==
  ASSUME Types, Chain
  PROVE  /\ Depth \in Nat \ {0}
         /\ Running = calls[Depth] /\ Shape = ShapeOf(Depth)
         /\ \A d \in 1 .. Depth :
              /\ calls[d].func \in Function
              /\ calls[d].worked \in BOOLEAN
              /\ ShapeOf(d) \in ShapeType
              /\ ShapeOf(d).params \in Seq(Class)
              /\ calls[d].sp \in Int
              /\ FrameSize(ShapeOf(d)) \in Nat
              /\ LocalSize(ShapeOf(d)) \in Nat
              /\ FrameStart(d) \in Int /\ FrameStart(d) % 16 = 0
              /\ FrameStart(d) = calls[d].sp - FrameSize(ShapeOf(d))
<1>1. PICK A, B : calls \in Seq(CallType(A, B))
  BY DEF Types
<1>2. Depth \in Nat \ {0} /\ \A d \in 1 .. Depth : calls[d] \in CallType(A, B)
  BY <1>1 DEF Types, Depth
<1>3. Running = calls[Depth] /\ Shape = ShapeOf(Depth)
  BY DEF Running, Shape, ShapeOf, Last, Depth
<1>4. ASSUME NEW d \in 1 .. Depth
      PROVE  calls[d].func \in Function /\ calls[d].sp \in Int /\ calls[d].worked \in BOOLEAN
  BY <1>2 DEF CallType
<1>5. ASSUME NEW d \in 1 .. Depth PROVE ShapeOf(d) \in ShapeType
  BY <1>4, ConstantsAssumption DEF ShapeOf, Types
<1>6. \A s \in ShapeType : s.params \in Seq(Class)
  BY DEF ShapeType
<1>7. ASSUME NEW d \in 1 .. Depth
      PROVE  /\ FrameStart(d) = calls[d].sp - FrameSize(ShapeOf(d))
             /\ FrameStart(d) \in Int /\ FrameStart(d) % 16 = 0
             /\ FrameSize(ShapeOf(d)) \in Nat /\ LocalSize(ShapeOf(d)) \in Nat
  <2>1. FrameStart(d) = calls[d].sp - FrameSize(ShapeOf(d))
    BY DEF FrameStart, ShapeOf
  <2>2. /\ FrameSize(ShapeOf(d)) \in Nat /\ FrameSize(ShapeOf(d)) % 16 = 0
        /\ LocalSize(ShapeOf(d)) \in Nat
    BY <1>5, FrameFacts
  <2>3. calls[d].sp \in Int /\ calls[d].sp % 16 = 0
    BY <1>4 DEF Chain
  <2>4. (calls[d].sp - FrameSize(ShapeOf(d))) % 16 = 0
    <3>1. FrameSize(ShapeOf(d)) \in Int
      BY <2>2
    <3> QED BY Zenon, <2>2, <2>3, <3>1, SumOf16
  <2> QED BY <2>1, <2>2, <2>3, <2>4
<1> QED BY <1>2, <1>3, <1>4, <1>5, <1>6, <1>7

(* Saved registers stay where they are while the stack is written below. *)
LEMMA SavedStay ==
  ASSUME Types, Chain, SavedKept, NEW d \in 1 .. Depth, IsOpen(d), NEW m, NEW h \in Int,
         DOMAIN m = Cells, \A a \in Cells : h <= a => m[a] = mem[a],
         h <= FrameStart(d) + LocalSize(ShapeOf(d))
  PROVE  /\ Holds(m, calls[d].sp - 8, ReturnValue(d - 1))
         /\ \A r \in SavedSet(ShapeOf(d)) :
              Holds(m, calls[d].sp - 8 - 8 * SavedPlace(ShapeOf(d), r), calls[d].saved[r])
<1> DEFINE s == ShapeOf(d)
<1>1. /\ s \in ShapeType /\ calls[d].sp \in Int
      /\ FrameSize(s) \in Nat /\ LocalSize(s) \in Nat
      /\ FrameStart(d) = calls[d].sp - FrameSize(s)
  BY CallFacts
<1> HIDE DEF s
<1>2. Cardinality(SavedSet(s)) \in Nat
      /\ LocalSize(s) + 8 + 8 * Cardinality(SavedSet(s)) <= FrameSize(s)
  BY <1>1, FrameFacts
<1>3. \A a \in Int : \A v : Holds(mem, a, v) /\ h <= a => Holds(m, a, v)
  BY DEF Holds, Types
<1>4. h <= calls[d].sp - 8
  BY <1>1, <1>2 DEF s
<1>5. ASSUME NEW r \in SavedSet(s)
      PROVE  /\ SavedPlace(s, r) \in Int
             /\ h <= calls[d].sp - 8 - 8 * SavedPlace(s, r)
  <2>1. SavedPlace(s, r) \in 1 .. Cardinality(SavedSet(s))
    BY <1>1, SavedPlaces
  <2> QED BY <1>1, <1>2, <2>1 DEF s
<1> QED BY <1>1, <1>3, <1>4, <1>5 DEF SavedKept, s

LEMMA LocalsStay ==
  ASSUME Types, Chain, NEW d \in 1 .. Depth, LocalsHeld(mem, d), NEW m, NEW h \in Int,
         DOMAIN m = Cells, \A a \in Cells : h <= a => m[a] = mem[a],
         h <= FrameStart(d)
  PROVE  LocalsHeld(m, d)
<1> DEFINE s == ShapeOf(d)
<1>1. s \in ShapeType /\ FrameStart(d) \in Int
  BY CallFacts
<1> HIDE DEF s
<1>2. \A a \in Int : \A v : Holds(mem, a, v) /\ h <= a => Holds(m, a, v)
  BY DEF Holds, Types
<1>3. s.spills \in Nat /\ AllocasSize(s) \in Nat
  BY <1>1, FrameFacts, LocalCellsFacts
<1>4. ASSUME NEW i \in 1 .. s.spills
      PROVE  Holds(m, FrameStart(d) + SpillOffset(s, i), SpillValue(d, i))
  <2>1. SpillOffset(s, i) \in Nat
    BY <1>3 DEF SpillOffset
  <2>2. Holds(mem, FrameStart(d) + SpillOffset(s, i), SpillValue(d, i))
    BY DEF LocalsHeld, s
  <2>3. h <= FrameStart(d) + SpillOffset(s, i) /\ FrameStart(d) + SpillOffset(s, i) \in Int
    BY <1>1, <2>1
  <2> QED BY <1>2, <2>2, <2>3
<1>5. ASSUME NEW i \in DOMAIN s.allocas, NEW c \in LocalCells(s, i)
      PROVE  FrameStart(d) + c \in DOMAIN m /\ m[FrameStart(d) + c] = LocalValue(d, i)
  <2>1. c \in Nat
    BY <1>1, LocalCellsFacts
  <2>2. FrameStart(d) + c \in DOMAIN mem /\ mem[FrameStart(d) + c] = LocalValue(d, i)
    BY DEF LocalsHeld, s
  <2> QED BY <1>1, <2>1, <2>2 DEF Types
<1> QED BY <1>4, <1>5 DEF LocalsHeld, s

-----------------------------------------------------------------------------
(* The steps. *)

LEMMA Slot ==
  ASSUME NEW i \in Int, i % 4 = 0, NEW j \in Int, 0 <= i + 8 * j, i + 8 * j + 8 <= StackTop
  PROVE  {i + 8 * j, i + 8 * j + 4} \subseteq Cells
<1>1. (i + 8 * j) % 4 = 0 /\ (i + 8 * j + 4) % 4 = 0
  OBVIOUS
<1>2. i + 8 * j \in Nat /\ i + 8 * j + 4 \in Nat /\ i + 8 * j + 4 < StackTop /\ i + 8 * j < StackTop
  BY ConstantsAssumption
<1> QED BY <1>1, <1>2, CellsBetween

LEMMA SlotsApart ==
  ASSUME NEW i \in Int, NEW j \in Int, NEW k \in Int, j # k
  PROVE  (i + 8 * j) - (i + 8 * k) >= 8 \/ (i + 8 * k) - (i + 8 * j) >= 8
OBVIOUS

LEMMA SlotBelow ==
  ASSUME NEW i \in Int, NEW n \in Int, NEW size \in Int, NEW top \in Int, NEW p \in 1 .. n,
         8 + 8 * n <= size, size <= i, i <= top
  PROVE  /\ -1 - p \in Int /\ 0 <= i + 8 * (-1 - p) /\ i + 8 * (-1 - p) + 8 <= top
OBVIOUS

LEMMA SlotAbove ==
  ASSUME NEW i \in Int, NEW n \in Int, NEW p \in 1 .. n
  PROVE  p - 1 \in Int /\ i <= i + 8 * (p - 1) /\ i + 8 * (p - 1) + 8 <= i + 8 * n
OBVIOUS

LEMMA InitIInv == Init => IInv
<1> SUFFICES ASSUME Init PROVE IInv
  OBVIOUS
<1> DEFINE A == {<<>>}
           B == {[r \in CalleeSaved |-> RegisterValue(0, r)]}
<1>1. PICK f \in Function :
        /\ shape \in [Function -> Shapes]
        /\ shape[f].params = <<>>
        /\ calls = <<[func |-> f, args |-> <<>>, sp |-> StackTop,
                      saved |-> [r \in CalleeSaved |-> RegisterValue(0, r)], worked |-> FALSE]>>
  BY DEF Init
<1>2. Depth = 1 /\ calls[1].func = f /\ calls[1].sp = StackTop /\ calls[1].worked = FALSE
      /\ calls[1].saved = [r \in CalleeSaved |-> RegisterValue(0, r)] /\ calls # <<>>
  BY <1>1 DEF Depth
<1>3. calls \in Seq(CallType(A, B))
  BY <1>1, ConstantsAssumption DEF CallType
<1>4. pc = "enter" /\ sp = StackTop /\ mem = [a \in Cells |-> Garbage]
      /\ reg = [r \in Register |-> IF r \in CalleeSaved THEN RegisterValue(0, r)
                                   ELSE IF r = RA THEN ReturnValue(0) ELSE Garbage]
  BY DEF Init
<1>5. Types
  <2> HIDE DEF A, B
  <2> QED BY <1>1, <1>2, <1>3, <1>4 DEF Types
<1>6. ShapeOf(1).params = <<>>
  BY <1>1, <1>2 DEF ShapeOf
<1>7. Chain
  BY <1>2, <1>4, <1>6, ConstantsAssumption DEF Chain, IsOpen
<1>8. SavedKept
  BY <1>2, <1>4 DEF SavedKept, IsOpen
<1>9. LocalsThere
  BY <1>2 DEF LocalsThere
<1>10. ArgumentsThere
  BY <1>2, <1>6 DEF ArgumentsThere
<1>11. Registers
  BY <1>2, <1>4, ConstantsAssumption DEF Registers, Register
<1> QED BY <1>5, <1>7, <1>8, <1>9, <1>10, <1>11 DEF IInv

(* Nothing of the calls changes but what they do next. *)
LEMMA SameCalls ==
  ASSUME shape' = shape, calls' = calls
  PROVE  /\ Depth' = Depth
         /\ \A d : ShapeOf(d)' = ShapeOf(d) /\ FrameStart(d)' = FrameStart(d)
BY DEF Depth, ShapeOf, FrameStart

LEMMA PrologueStep ==
  ASSUME IInv, Prologue
  PROVE  IInv'
<1> DEFINE D == Depth
           s == ShapeOf(D)
           size == FrameSize(s)
           kept == SavedSet(s) \cup {RA}
           at == [r \in kept |-> (sp - size) + (IF r = RA THEN ReturnAddressOffset(s)
                                               ELSE SavedOffset(s, r))]
           val == [r \in kept |-> reg[r]]
<1>0. Types /\ Chain /\ SavedKept /\ LocalsThere /\ ArgumentsThere /\ Registers
  BY DEF IInv
<1>1. /\ D \in Nat \ {0} /\ Shape = s /\ s \in ShapeType
      /\ FrameStart(D) = calls[D].sp - size /\ size \in Nat
  BY <1>0, CallFacts
<1>2. /\ pc = "enter" /\ size <= sp /\ sp' = sp - size
      /\ mem' = Written(mem, at, val)
      /\ reg' = [reg EXCEPT ![S0] = Address(sp - size + size)]
      /\ pc' = "start" /\ shape' = shape /\ calls' = calls
  BY <1>1 DEF Prologue
<1>3. sp = calls[D].sp /\ sp \in Int /\ sp % 16 = 0 /\ 0 <= sp /\ sp <= StackTop
  BY <1>0, <1>1, <1>2, ConstantsAssumption DEF Chain
<1>4. /\ D' = D
      /\ \A d : ShapeOf(d)' = ShapeOf(d) /\ FrameStart(d)' = FrameStart(d)
  BY <1>2, SameCalls
<1>5. /\ Cardinality(SavedSet(s)) \in Nat /\ SavedSet(s) \subseteq CalleeSaved
      /\ 8 + 8 * Cardinality(SavedSet(s)) <= size /\ LocalSize(s) \in Nat
  <2> HIDE DEF D
  <2> QED BY <1>1, FrameFacts
<1> HIDE DEF D, s, size
<1>6. \A r \in SavedSet(s) : SavedPlace(s, r) \in 1 .. Cardinality(SavedSet(s))
  BY <1>1, SavedPlaces
<1>7. /\ DOMAIN at = kept
      /\ at[RA] = sp - 8
      /\ \A r \in SavedSet(s) : at[r] = sp + 8 * (-1 - SavedPlace(s, r))
  <2>1. RA \notin SavedSet(s)
    BY <1>5, ConstantsAssumption
  <2>2. ReturnAddressOffset(s) = size - 8
    BY DEF ReturnAddressOffset, size
  <2>3. \A r \in SavedSet(s) : SavedOffset(s, r) = size - 8 - 8 * SavedPlace(s, r)
    BY DEF SavedOffset, size
  <2> QED BY <1>1, <1>3, <1>5, <1>6, <2>1, <2>2, <2>3
<1>8. \A r \in kept : at[r] \in Int /\ at[r] + 8 <= sp
  BY <1>3, <1>5, <1>6, <1>7
<1>9. \A r \in kept : {at[r], at[r] + 4} \subseteq Cells
  <2>1. sp % 4 = 0
    BY <1>3
  <2>2. \A j \in Int : 0 <= sp + 8 * j /\ sp + 8 * j + 8 <= StackTop =>
                     {sp + 8 * j, sp + 8 * j + 4} \subseteq Cells
    BY <1>3, <2>1, Slot
  <2>3. {at[RA], at[RA] + 4} \subseteq Cells
    <3>1. sp - 8 \in Nat /\ sp - 8 + 4 \in Nat /\ sp - 8 < StackTop /\ sp - 8 + 4 < StackTop
      BY <1>1, <1>2, <1>3, <1>5, ConstantsAssumption
    <3>2. (sp - 8) % 4 = 0 /\ (sp - 8 + 4) % 4 = 0
      BY <1>3, <2>1
    <3>3. {sp - 8, sp - 8 + 4} \subseteq Cells
      BY <3>1, <3>2, CellsBetween
    <3> HIDE DEF at
    <3> QED BY <1>7, <3>3
  <2>4. ASSUME NEW r \in SavedSet(s) PROVE {at[r], at[r] + 4} \subseteq Cells
    <3>1. SavedPlace(s, r) \in 1 .. Cardinality(SavedSet(s))
      BY <1>6
    <3>2. -1 - SavedPlace(s, r) \in Int /\ 0 <= sp + 8 * (-1 - SavedPlace(s, r))
          /\ sp + 8 * (-1 - SavedPlace(s, r)) + 8 <= StackTop
      <4>1. sp \in Int /\ size \in Int /\ StackTop \in Int /\ Cardinality(SavedSet(s)) \in Int
            /\ 8 + 8 * Cardinality(SavedSet(s)) <= size /\ size <= sp /\ sp <= StackTop
        BY <1>1, <1>2, <1>3, <1>5, ConstantsAssumption
      <4> QED BY <3>1, <4>1, SlotBelow
    <3> QED BY <1>7, <2>2, <3>2
  <2> QED BY <2>3, <2>4
<1>10. \A q, r \in kept : q # r => {at[q], at[q] + 4} \cap {at[r], at[r] + 4} = {}
  <2>1. \A q, r \in SavedSet(s) : q # r => SavedPlace(s, q) # SavedPlace(s, r)
    BY <1>1, SavedPlaces
  <2>2. ASSUME NEW q \in kept, NEW r \in kept, q # r
        PROVE  at[q] - at[r] >= 8 \/ at[r] - at[q] >= 8
    <3>1. CASE q = RA
      BY <1>3, <1>6, <1>7, <2>2, <3>1
    <3>2. CASE r = RA
      BY <1>3, <1>6, <1>7, <2>2, <3>2
    <3>3. CASE q # RA /\ r # RA
      <4>1. q \in SavedSet(s) /\ r \in SavedSet(s)
        BY <3>3
      <4>2. SavedPlace(s, q) # SavedPlace(s, r) /\ SavedPlace(s, q) \in Int /\ SavedPlace(s, r) \in Int
        BY <1>6, <2>1, <2>2, <4>1
      <4>3. -1 - SavedPlace(s, q) \in Int /\ -1 - SavedPlace(s, r) \in Int
            /\ -1 - SavedPlace(s, q) # -1 - SavedPlace(s, r)
        BY <4>2
      <4>4. at[q] = sp + 8 * (-1 - SavedPlace(s, q)) /\ at[r] = sp + 8 * (-1 - SavedPlace(s, r))
        BY <1>7, <4>1
      <4> HIDE DEF at
      <4> QED BY <1>3, <4>3, <4>4, SlotsApart
    <3> QED BY <3>1, <3>2, <3>3
  <2> QED BY <1>8, <2>2
<1>11. DOMAIN mem' = Cells
  BY <1>0, <1>2, WrittenDomain DEF Types
<1> HIDE DEF at, val
<1>12. \A a \in Cells : sp <= a => mem'[a] = mem[a]
  <2> SUFFICES ASSUME NEW a \in Cells, sp <= a PROVE mem'[a] = mem[a]
    OBVIOUS
  <2>1. \A r \in kept : a # at[r] /\ a # at[r] + 4
    BY <1>3, <1>8, CellsInt
  <2> QED BY <1>0, <1>2, <1>7, <2>1, WrittenElsewhere DEF Types
<1>13. \A r \in kept : Holds(mem', at[r], reg[r])
  <2> TAKE r \in kept
  <2>1. Holds(Written(mem, at, val), at[r], val[r])
    BY <1>0, <1>7, <1>9, <1>10, WrittenThere DEF Types
  <2> QED BY <1>2, <2>1 DEF val
<1>14. /\ \A r \in Register \ {S0} : reg'[r] = reg[r]
       /\ reg'[S0] = Address(calls[D].sp) /\ DOMAIN reg' = Register
  BY <1>0, <1>1, <1>2, <1>3, ConstantsAssumption DEF Types, Register
<1>15. Types'
  BY <1>0, <1>2, <1>11, <1>14 DEF Types
<1>16. FrameStart(D) = sp - size /\ 0 <= FrameStart(D)
  BY <1>1, <1>2, <1>3
<1>17. Chain'
  <2>1. \A d \in 1 .. D : d < D \/ d = D
    BY <1>1
  <2>2. \A d \in 1 .. D : 0 <= FrameStart(d)
    BY <1>0, <1>16, <2>1 DEF Chain, IsOpen, D
  <2> QED BY <1>0, <1>2, <1>4, <1>16, <2>2 DEF Chain, D
<1>18. ASSUME NEW d \in 1 .. D, d < D PROVE sp <= FrameStart(d)
  BY <1>0, <1>1, <1>3, <1>18 DEF Chain, D
<1>19. SavedKept'
  <2>1. ASSUME NEW d \in 1 .. D, d < D
        PROVE /\ Holds(mem', calls[d].sp - 8, ReturnValue(d - 1))
              /\ \A r \in SavedSet(ShapeOf(d)) :
                   Holds(mem', calls[d].sp - 8 - 8 * SavedPlace(ShapeOf(d), r), calls[d].saved[r])
    <3>1. IsOpen(d)
      BY <2>1 DEF IsOpen, D
    <3>2. sp <= FrameStart(d) + LocalSize(ShapeOf(d))
      <4>1. FrameStart(d) \in Int /\ LocalSize(ShapeOf(d)) \in Nat
        BY <1>0, CallFacts DEF D
      <4> QED BY <1>3, <1>18, <2>1, <4>1
    <3> QED BY <1>0, <1>3, <1>11, <1>12, <3>1, <3>2, SavedStay DEF D
  <2>2. /\ Holds(mem', calls[D].sp - 8, ReturnValue(D - 1))
        /\ \A r \in SavedSet(s) :
             Holds(mem', calls[D].sp - 8 - 8 * SavedPlace(s, r), calls[D].saved[r])
    <3>1. reg[RA] = ReturnValue(D - 1) /\ \A r \in CalleeSaved : reg[r] = calls[D].saved[r]
      BY <1>0, <1>2 DEF Registers, D
    <3>2. at[RA] = calls[D].sp - 8
          /\ \A r \in SavedSet(s) : at[r] = calls[D].sp - 8 - 8 * SavedPlace(s, r)
      BY <1>3, <1>6, <1>7
    <3> QED BY <1>5, <1>13, <3>1, <3>2
  <2>3. \A d \in 1 .. D : d < D \/ d = D
    BY <1>1
  <2> QED BY <1>2, <1>4, <2>1, <2>2, <2>3 DEF SavedKept, D, s
<1>20. LocalsThere'
  <2>1. ASSUME NEW d \in 1 .. D, d < D, calls[d].worked PROVE LocalsHeld(mem', d)
    <3>1. LocalsHeld(mem, d)
      BY <1>0, <2>1 DEF LocalsThere, D
    <3> QED BY <1>0, <1>3, <1>11, <1>12, <1>18, <2>1, <3>1, LocalsStay DEF D
  <2>2. \A d : LocalsHeld(mem, d)' <=> LocalsHeld(mem', d)
    BY <1>4 DEF LocalsHeld
  <2> QED BY <1>2, <1>4, <2>1, <2>2 DEF LocalsThere, D
<1>21. ArgumentsThere'
  <2>1. ASSUME NEW k \in DOMAIN s.params PROVE ArgumentHeld(mem', reg', k)
    <3>1. ArgumentHeld(mem, reg, k)
      BY <1>0, <1>2 DEF ArgumentsThere, s, D
    <3>2. s.params \in Seq(Class)
      BY <1>0, <1>1, CallFacts DEF s, D
    <3>3. CASE k \in OnStack(s.params)
      <4>1. StackPlace(s.params, k) \in Nat \ {0}
        BY <3>2, <3>3, StackArguments
      <4>2. Holds(mem, calls[D].sp + 8 * (StackPlace(s.params, k) - 1), calls[D].args[k])
        BY <3>1, <3>3 DEF ArgumentHeld, s, D
      <4>3. Holds(mem', calls[D].sp + 8 * (StackPlace(s.params, k) - 1), calls[D].args[k])
        <5> DEFINE a == calls[D].sp + 8 * (StackPlace(s.params, k) - 1)
        <5>1. a \in Int /\ sp <= a /\ sp <= a + 4
          BY <1>3, <4>1
        <5> HIDE DEF a
        <5>2. Holds(mem, a, calls[D].args[k])
          BY <4>2 DEF a
        <5>3. Holds(mem', a, calls[D].args[k])
          BY <1>0, <1>11, <1>12, <5>1, <5>2 DEF Holds, Types
        <5> QED BY <5>3 DEF a
      <4> QED BY <3>3, <4>3 DEF ArgumentHeld, s, D
    <3>4. CASE k \notin OnStack(s.params)
      <4>1. ArgReg(s.params[k], OfClass(s.params, k)) \in Register \ (CalleeSaved \cup {RA})
        BY <3>2, <3>4, RegisterArguments
      <4> QED BY <1>14, <3>1, <3>4, <4>1, ConstantsAssumption DEF ArgumentHeld, s, D
    <3> QED BY <3>3, <3>4
  <2>2. \A k : ArgumentHeld(mem, reg, k)' <=> ArgumentHeld(mem', reg', k)
    BY <1>2, <1>4 DEF ArgumentHeld, D
  <2> QED BY <1>4, <2>1, <2>2 DEF ArgumentsThere, s, D
<1>22. Registers'
  BY <1>0, <1>2, <1>4, <1>14 DEF Registers, D, Register
<1> QED BY <1>15, <1>17, <1>19, <1>20, <1>21, <1>22 DEF IInv

(* Marking the running call leaves everything else of the calls alone. *)
LEMMA MarkedCall ==
  ASSUME Types, Chain, shape' = shape, calls' = [calls EXCEPT ![Depth].worked = TRUE]
  PROVE  /\ \E A, B : calls' \in Seq(CallType(A, B))
         /\ calls' # <<>> /\ Depth' = Depth
         /\ \A d \in 1 .. Depth :
              /\ calls'[d].func = calls[d].func /\ calls'[d].args = calls[d].args
              /\ calls'[d].sp = calls[d].sp /\ calls'[d].saved = calls[d].saved
              /\ d # Depth => calls'[d].worked = calls[d].worked
              /\ ShapeOf(d)' = ShapeOf(d) /\ FrameStart(d)' = FrameStart(d)
<1>1. PICK A, B : calls \in Seq(CallType(A, B))
  BY DEF Types
<1>2. Depth \in Nat \ {0} /\ DOMAIN calls = 1 .. Depth
  BY <1>1, CallFacts DEF Depth
<1> DEFINE e == [calls[Depth] EXCEPT !.worked = TRUE]
<1>3. calls[Depth] \in CallType(A, B)
  BY <1>1, <1>2
<1>4. /\ e \in CallType(A, B) /\ e.func = calls[Depth].func /\ e.args = calls[Depth].args
      /\ e.sp = calls[Depth].sp /\ e.saved = calls[Depth].saved
  BY <1>3 DEF CallType
<1>5. calls' = [calls EXCEPT ![Depth] = e]
  OBVIOUS
<1> HIDE DEF e
<1>6. /\ calls' \in Seq(CallType(A, B)) /\ Len(calls') = Depth
      /\ \A d \in 1 .. Depth : calls'[d] = IF d = Depth THEN e ELSE calls[d]
  <2>1. Depth = Len(calls) /\ Depth \in 1 .. Len(calls) /\ e \in CallType(A, B)
    BY <1>2, <1>4 DEF Depth
  <2>2. /\ [calls EXCEPT ![Depth] = e] \in Seq(CallType(A, B))
        /\ Len([calls EXCEPT ![Depth] = e]) = Len(calls)
        /\ \A d \in 1 .. Len(calls) :
             [calls EXCEPT ![Depth] = e][d] = IF d = Depth THEN e ELSE calls[d]
    BY <1>1, <2>1, ExceptSeq
  <2> QED BY <1>5, <2>1, <2>2
<1>7. Depth' = Depth /\ calls' # <<>>
  BY <1>2, <1>6 DEF Depth
<1>8. \A d \in 1 .. Depth :
        /\ calls'[d].func = calls[d].func /\ calls'[d].args = calls[d].args
        /\ calls'[d].sp = calls[d].sp /\ calls'[d].saved = calls[d].saved
        /\ d # Depth => calls'[d].worked = calls[d].worked
  BY <1>4, <1>6
<1>9. \A d \in 1 .. Depth : ShapeOf(d)' = ShapeOf(d) /\ FrameStart(d)' = FrameStart(d)
  BY <1>8 DEF ShapeOf, FrameStart
<1> QED BY <1>6, <1>7, <1>8, <1>9

LEMMA BodyStep ==
  ASSUME IInv, Body
  PROVE  IInv'
<1> DEFINE D == Depth
           s == ShapeOf(D)
           at == [i \in 1 .. s.spills |-> sp + SpillOffset(s, i)]
           val == [i \in 1 .. s.spills |-> SpillValue(D, i)]
           spilled == Written(mem, at, val)
<1>0. Types /\ Chain /\ SavedKept /\ LocalsThere /\ ArgumentsThere /\ Registers
  BY DEF IInv
<1>1. /\ D \in Nat \ {0} /\ Shape = s /\ s \in ShapeType
      /\ FrameStart(D) = calls[D].sp - FrameSize(s) /\ FrameStart(D) \in Int
      /\ FrameStart(D) % 16 = 0 /\ calls[D].sp \in Int
  BY <1>0, CallFacts
<1>2. /\ pc = "start" /\ sp' = sp /\ pc' = "body" /\ shape' = shape
      /\ calls' = [calls EXCEPT ![Depth].worked = TRUE]
      /\ reg' = [r \in Register |->
                  IF r \in s.saved THEN RegisterValue(Depth, r)
                  ELSE IF r \in CalleeSaved \cup {RA} THEN reg[r] ELSE Garbage]
      /\ mem' = [a \in DOMAIN mem |->
                  IF \E i \in DOMAIN s.allocas : a - sp \in LocalCells(s, i)
                  THEN LocalValue(D, CHOOSE i \in DOMAIN s.allocas : a - sp \in LocalCells(s, i))
                  ELSE spilled[a]]
  BY <1>1 DEF Body
<1>3. sp = FrameStart(D) /\ sp \in Int /\ sp % 16 = 0 /\ 0 <= sp /\ calls[D].sp <= StackTop
  BY <1>0, <1>1, <1>2, ConstantsAssumption DEF Chain, IsOpen
<1>4. /\ \E A, B : calls' \in Seq(CallType(A, B))
      /\ calls' # <<>> /\ Depth' = Depth
      /\ \A d \in 1 .. Depth :
           /\ calls'[d].func = calls[d].func /\ calls'[d].args = calls[d].args
           /\ calls'[d].sp = calls[d].sp /\ calls'[d].saved = calls[d].saved
           /\ d # Depth => calls'[d].worked = calls[d].worked
           /\ ShapeOf(d)' = ShapeOf(d) /\ FrameStart(d)' = FrameStart(d)
  BY <1>0, <1>2, MarkedCall
<1> HIDE DEF D, s
<1>5. /\ s.spills \in Nat /\ AllocasSize(s) \in Nat /\ AllocasSize(s) % 4 = 0
      /\ FrameSize(s) \in Nat /\ LocalSize(s) = AllocasSize(s) + 8 * s.spills
      /\ LocalSize(s) + 8 <= FrameSize(s)
  <2>1. /\ LocalSize(s) + 8 + 8 * Cardinality(SavedSet(s)) <= FrameSize(s)
        /\ Cardinality(SavedSet(s)) \in Nat /\ FrameSize(s) \in Nat /\ LocalSize(s) \in Nat
    BY <1>1, FrameFacts
  <2> QED BY <1>1, <2>1, FrameFacts, LocalCellsFacts
<1>6. sp + LocalSize(s) + 8 <= StackTop
  BY <1>1, <1>3, <1>5, ConstantsAssumption
<1> DEFINE base == sp + AllocasSize(s)
<1>b. /\ base \in Int /\ base % 4 = 0 /\ 0 <= base
      /\ sp + LocalSize(s) = base + 8 * s.spills /\ base + 8 * s.spills + 8 <= StackTop
  BY <1>3, <1>5, <1>6
<1>7. \A i \in 1 .. s.spills :
        /\ at[i] = base + 8 * (i - 1) /\ i - 1 \in Int /\ at[i] \in Int
        /\ base <= at[i] /\ at[i] + 8 <= base + 8 * s.spills
  <2> TAKE i \in 1 .. s.spills
  <2>1. at[i] = base + 8 * (i - 1)
    BY <1>3, <1>5 DEF SpillOffset
  <2> HIDE DEF at, base
  <2>2. i - 1 \in Int /\ base <= base + 8 * (i - 1)
        /\ base + 8 * (i - 1) + 8 <= base + 8 * s.spills
    BY <1>5, <1>b, SlotAbove
  <2> QED BY <1>b, <2>1, <2>2
<1> HIDE DEF base
<1>8. DOMAIN at = 1 .. s.spills /\ DOMAIN val = 1 .. s.spills
      /\ \A i \in 1 .. s.spills : val[i] = SpillValue(D, i)
  OBVIOUS
<1>9. DOMAIN spilled = Cells
  BY <1>0, WrittenDomain DEF Types
<1> HIDE DEF at, val
<1>10. \A i \in 1 .. s.spills : {at[i], at[i] + 4} \subseteq Cells
  <2> TAKE i \in 1 .. s.spills
  <2>1. i - 1 \in Int /\ 0 <= base + 8 * (i - 1) /\ base + 8 * (i - 1) + 8 <= StackTop
    BY <1>5, <1>7, <1>b, ConstantsAssumption
  <2>2. {base + 8 * (i - 1), base + 8 * (i - 1) + 4} \subseteq Cells
    BY <1>b, <2>1, Slot
  <2> QED BY <1>7, <2>2
<1>11. \A i \in 1 .. s.spills : Holds(spilled, at[i], SpillValue(D, i))
  <2> TAKE i \in 1 .. s.spills
  <2>1. ASSUME NEW j \in DOMAIN at, j # i
        PROVE  {at[j], at[j] + 4} \cap {at[i], at[i] + 4} = {}
    <3>1. j \in 1 .. s.spills /\ i - 1 # j - 1
      BY <1>5, <1>8, <2>1
    <3>2. /\ at[i] = base + 8 * (i - 1) /\ at[j] = base + 8 * (j - 1)
          /\ i - 1 \in Int /\ j - 1 \in Int /\ at[i] \in Int /\ at[j] \in Int
      BY <1>7, <3>1
    <3>3. at[i] - at[j] >= 8 \/ at[j] - at[i] >= 8
      BY <1>b, <3>1, <3>2, SlotsApart
    <3> QED BY <3>2, <3>3
  <2>2. Holds(Written(mem, at, val), at[i], val[i])
    <3>1. i \in DOMAIN at /\ {at[i], at[i] + 4} \subseteq DOMAIN mem
      BY <1>0, <1>8, <1>10 DEF Types
    <3> QED BY <2>1, <3>1, WrittenThere
  <2> QED BY <1>8, <2>2
<1>12. \A a \in Cells : sp + LocalSize(s) <= a => spilled[a] = mem[a]
  <2> SUFFICES ASSUME NEW a \in Cells, sp + LocalSize(s) <= a PROVE spilled[a] = mem[a]
    OBVIOUS
  <2>1. ASSUME NEW i \in DOMAIN at PROVE a # at[i] /\ a # at[i] + 4
    <3>1. at[i] \in Int /\ at[i] + 8 <= sp + LocalSize(s) /\ a \in Int /\ sp + LocalSize(s) \in Int
      BY SMTT(60), <1>5, <1>7, <1>8, <1>b, CellsInt
    <3> QED BY <3>1
  <2> QED BY <1>0, <2>1, WrittenElsewhere DEF Types
<1> HIDE DEF spilled
<1>13. \A i \in DOMAIN s.allocas : \A c \in LocalCells(s, i) :
         /\ c \in Nat /\ c % 4 = 0 /\ c < AllocasSize(s)
         /\ \A j \in DOMAIN s.allocas : c \in LocalCells(s, j) => i = j
  BY <1>1, LocalCellsFacts
<1>14. DOMAIN mem' = Cells
  BY <1>0, <1>2 DEF Types
<1>15. \A a \in Cells : sp + AllocasSize(s) <= a => mem'[a] = spilled[a]
  <2> SUFFICES ASSUME NEW a \in Cells, sp + AllocasSize(s) <= a PROVE mem'[a] = spilled[a]
    OBVIOUS
  <2>1. \A i \in DOMAIN s.allocas : a - sp \notin LocalCells(s, i)
    BY <1>3, <1>5, <1>13, CellsInt
  <2> QED BY <1>0, <1>2, <2>1 DEF Types
<1>16. \A a \in Cells : sp + LocalSize(s) <= a => mem'[a] = mem[a]
  BY <1>3, <1>5, <1>12, <1>15, CellsInt
<1>17. LocalsHeld(mem', D)
  <2>1. ASSUME NEW i \in 1 .. s.spills
        PROVE  Holds(mem', FrameStart(D) + SpillOffset(s, i), SpillValue(D, i))
    <3>1. at[i] = FrameStart(D) + SpillOffset(s, i)
      BY <1>3 DEF at
    <3>2. mem'[at[i]] = spilled[at[i]] /\ mem'[at[i] + 4] = spilled[at[i] + 4]
      <4>1. at[i] \in Cells /\ at[i] + 4 \in Cells /\ at[i] \in Int /\ base <= at[i] /\ base <= at[i] + 4
        BY <1>7, <1>10, <1>b
      <4> QED BY <1>15, <4>1 DEF base
    <3>3. Holds(mem', at[i], SpillValue(D, i))
      BY <1>10, <1>11, <1>14, <3>2 DEF Holds
    <3> QED BY <3>1, <3>3
  <2>2. ASSUME NEW i \in DOMAIN s.allocas, NEW c \in LocalCells(s, i)
        PROVE  FrameStart(D) + c \in DOMAIN mem' /\ mem'[FrameStart(D) + c] = LocalValue(D, i)
    <3>1. c \in Nat /\ c % 4 = 0 /\ c < AllocasSize(s)
      BY <1>13
    <3>2. (sp + c) % 4 = 0 /\ sp + c \in Nat /\ sp + c < StackTop
      BY <1>3, <1>5, <1>6, <3>1, ConstantsAssumption
    <3>3. sp + c \in Cells
      BY <3>2, CellsBetween
    <3>4. (sp + c) - sp = c
      BY <1>3, <3>1
    <3>5. (CHOOSE j \in DOMAIN s.allocas : c \in LocalCells(s, j)) = i
      BY <1>13
    <3> QED BY <1>0, <1>2, <1>3, <1>14, <3>3, <3>4, <3>5 DEF Types
  <2> QED BY <2>1, <2>2 DEF LocalsHeld, s
<1>18. Types'
  BY <1>0, <1>2, <1>4, <1>14 DEF Types
<1>19. Chain'
  <2>1. \A d \in 1 .. D : IsOpen(d)
    BY <1>2 DEF IsOpen
  <2>2. D - 1 \in Int /\ \A d \in 1 .. D - 1 : d \in 1 .. D /\ d + 1 \in 1 .. D
    BY <1>1
  <2>3. 1 \in 1 .. D /\ D \in 1 .. D
    BY <1>1
  <2>4. \A d \in 1 .. D : /\ calls'[d].sp \in 0 .. StackTop /\ calls'[d].sp % 16 = 0
                         /\ 0 <= FrameStart(d)'
    BY <1>0, <1>4, <2>1 DEF Chain, D
  <2>5. \A d \in 1 .. D - 1 :
          calls'[d + 1].sp + Aligned(StackSize(ShapeOf(d + 1)'.params)) = FrameStart(d)'
    <3> TAKE d \in 1 .. D - 1
    <3>1. d \in 1 .. D /\ d + 1 \in 1 .. D
      BY <2>2
    <3>2. calls'[d + 1].sp = calls[d + 1].sp /\ ShapeOf(d + 1)' = ShapeOf(d + 1)
          /\ FrameStart(d)' = FrameStart(d)
      BY <1>4, <3>1 DEF D
    <3> QED BY <1>0, <3>2 DEF Chain, D
  <2>6. \A d, e \in 1 .. D : d < e => calls'[e].sp <= FrameStart(d)'
    BY <1>0, <1>4 DEF Chain, D
  <2>7. sp' = FrameStart(D)' /\ ShapeOf(1)'.params = <<>>
    BY <1>0, <1>2, <1>3, <1>4, <2>3 DEF Chain, D
  <2> QED BY <1>2, <1>4, <2>4, <2>5, <2>6, <2>7 DEF Chain, D
<1>20. ASSUME NEW d \in 1 .. D, d < D
       PROVE  sp + LocalSize(s) <= FrameStart(d)
  <2>1. D \in 1 .. D
    BY <1>1
  <2>2. calls[D].sp <= FrameStart(d)
    BY <1>0, <1>20, <2>1 DEF Chain, D
  <2>3. FrameStart(d) \in Int
    BY <1>0, CallFacts DEF D
  <2> QED BY <1>1, <1>3, <1>5, <2>2, <2>3
<1>21. \A d \in 1 .. D : d < D \/ d = D
  BY <1>1
<1>22. SavedKept'
  <2>1. ASSUME NEW d \in 1 .. D
        PROVE /\ Holds(mem', calls[d].sp - 8, ReturnValue(d - 1))
              /\ \A r \in SavedSet(ShapeOf(d)) :
                   Holds(mem', calls[d].sp - 8 - 8 * SavedPlace(ShapeOf(d), r), calls[d].saved[r])
    <3>1. IsOpen(d)
      BY <1>2 DEF IsOpen
    <3>2. sp + LocalSize(s) <= FrameStart(d) + LocalSize(ShapeOf(d))
      <4>1. FrameStart(d) \in Int /\ LocalSize(ShapeOf(d)) \in Nat
        BY <1>0, CallFacts DEF D
      <4>2. CASE d < D
        BY <1>3, <1>5, <1>20, <4>1, <4>2
      <4>3. CASE d = D
        BY <1>3, <1>5, <4>1, <4>3 DEF s
      <4> QED BY <1>21, <4>2, <4>3
    <3>3. sp + LocalSize(s) \in Int
      BY <1>3, <1>5
    <3> QED BY <1>0, <1>14, <1>16, <3>1, <3>2, <3>3, SavedStay DEF D
  <2> QED BY <1>4, <2>1 DEF SavedKept, D
<1>23. LocalsThere'
  <2>1. ASSUME NEW d \in 1 .. D, d < D, calls[d].worked PROVE LocalsHeld(mem', d)
    <3>1. LocalsHeld(mem, d)
      BY <1>0, <2>1 DEF LocalsThere, D
    <3>2. sp + LocalSize(s) \in Int /\ sp + LocalSize(s) <= FrameStart(d)
      BY <1>3, <1>5, <1>20, <2>1
    <3> QED BY <1>0, <1>14, <1>16, <3>1, <3>2, LocalsStay DEF D
  <2>2. \A d \in 1 .. D : LocalsHeld(mem, d)' <=> LocalsHeld(mem', d)
    BY <1>4 DEF LocalsHeld, D
  <2> QED BY <1>1, <1>4, <1>17, <1>21, <2>1, <2>2 DEF LocalsThere, D
<1>24. ArgumentsThere'
  BY <1>2 DEF ArgumentsThere
<1>25. Registers'
  <2>1. \A r \in CalleeSaved \ SavedSet(s) : r \in Register /\ r \notin s.saved /\ r # S0
    BY DEF Register, SavedSet
  <2>2. D - 1 \in Int /\ \A d \in 1 .. D - 1 : d \in 1 .. D /\ d + 1 \in 1 .. D
    BY <1>1
  <2>3. D \in 1 .. D
    BY <1>1
  <2>4. \A r \in CalleeSaved \ SavedSet(s) : reg'[r] = calls[D].saved[r]
    BY <1>0, <1>2, <2>1 DEF Registers, D
  <2>5. ASSUME NEW d \in 1 .. D - 1, NEW r \in CalleeSaved \ SavedSet(ShapeOf(d)')
        PROVE  calls'[d + 1].saved[r] = calls'[d].saved[r]
    <3>1. d \in 1 .. D /\ d + 1 \in 1 .. D
      BY <2>2
    <3>2. calls'[d + 1].saved = calls[d + 1].saved /\ calls'[d].saved = calls[d].saved
          /\ ShapeOf(d)' = ShapeOf(d)
      BY <1>4, <3>1 DEF D
    <3> QED BY <1>0, <2>5, <3>2 DEF Registers, D
  <2>6. calls'[D].saved = calls[D].saved /\ ShapeOf(D)' = s
    BY <1>4, <2>3 DEF D, s
  <2>7. \A r \in CalleeSaved \ SavedSet(ShapeOf(D)') : reg'[r] = calls'[D].saved[r]
    BY <2>4, <2>6
  <2>8. \A d \in 1 .. D - 1 : \A r \in CalleeSaved \ SavedSet(ShapeOf(d)') :
          calls'[d + 1].saved[r] = calls'[d].saved[r]
    BY <2>5
  <2> QED BY SMTT(60), <1>2, <1>4, <2>7, <2>8 DEF Registers, D
<1> QED BY <1>18, <1>19, <1>22, <1>23, <1>24, <1>25 DEF IInv

(* A new call follows the others. *)
LEMMA NewCall ==
  ASSUME Types, Chain, NEW f \in Function, NEW a, NEW n \in Int, NEW v,
         shape' = shape,
         calls' = Append(calls, [func |-> f, args |-> a, sp |-> n, saved |-> v, worked |-> FALSE])
  PROVE  /\ \E A, B : calls' \in Seq(CallType(A, B))
         /\ calls' # <<>> /\ Depth' = Depth + 1
         /\ \A d \in 1 .. Depth : /\ calls'[d] = calls[d]
                                 /\ ShapeOf(d)' = ShapeOf(d) /\ FrameStart(d)' = FrameStart(d)
         /\ calls'[Depth + 1].func = f /\ calls'[Depth + 1].args = a
         /\ calls'[Depth + 1].sp = n /\ calls'[Depth + 1].saved = v
         /\ calls'[Depth + 1].worked = FALSE
         /\ \A d : d = Depth + 1 => ShapeOf(d)' = shape[f]
<1> DEFINE c == [func |-> f, args |-> a, sp |-> n, saved |-> v, worked |-> FALSE]
<1>1. PICK A, B : calls \in Seq(CallType(A, B))
  BY DEF Types
<1>2. c \in CallType(A \cup {a}, B \cup {v})
  BY DEF CallType
<1>3. CallType(A, B) \subseteq CallType(A \cup {a}, B \cup {v})
  BY DEF CallType
<1>4. calls \in Seq(CallType(A \cup {a}, B \cup {v}))
  BY <1>1, <1>3, SeqMonotonic
<1>5. c.func = f /\ c.args = a /\ c.sp = n /\ c.saved = v /\ c.worked = FALSE
  OBVIOUS
<1>6. calls' = Append(calls, c)
  OBVIOUS
<1> HIDE DEF c
<1>7. /\ calls' \in Seq(CallType(A \cup {a}, B \cup {v}))
      /\ Len(calls') = Len(calls) + 1 /\ calls' # <<>>
      /\ \A d \in 1 .. Len(calls) : calls'[d] = calls[d]
      /\ calls'[Len(calls) + 1] = c
  BY <1>2, <1>4, <1>6
<1>8. \A d \in 1 .. Depth : ShapeOf(d)' = ShapeOf(d) /\ FrameStart(d)' = FrameStart(d)
  BY <1>7 DEF ShapeOf, FrameStart, Depth
<1>9. \A d : d = Depth + 1 => ShapeOf(d)' = shape[f]
  BY <1>5, <1>7 DEF ShapeOf, Depth
<1> QED BY <1>5, <1>7, <1>8, <1>9 DEF Depth

(* The stack pointer of a running body is below everything that is kept.   *)
LEMMA AllAbove ==
  ASSUME Types, Chain, pc \in {"start", "body"}
  PROVE  \A d \in 1 .. Depth : sp <= FrameStart(d)
<1>1. /\ Depth \in Nat \ {0} /\ calls[Depth].sp \in Int
      /\ FrameSize(ShapeOf(Depth)) \in Nat
      /\ FrameStart(Depth) = calls[Depth].sp - FrameSize(ShapeOf(Depth))
  BY CallFacts
<1>2. sp = FrameStart(Depth) /\ sp <= calls[Depth].sp
  BY <1>1 DEF Chain
<1>3. ASSUME NEW d \in 1 .. Depth, d < Depth PROVE sp <= FrameStart(d)
  <2>1. calls[Depth].sp <= FrameStart(d)
    BY <1>1, <1>3 DEF Chain
  <2>2. FrameStart(d) \in Int
    BY CallFacts
  <2> QED BY <1>1, <1>2, <2>1, <2>2
<1>4. \A d \in 1 .. Depth : d < Depth \/ d = Depth
  BY <1>1
<1>5. sp <= FrameStart(Depth)
  BY <1>1, <1>2
<1> QED BY <1>3, <1>4, <1>5

LEMMA CallStep ==
  ASSUME IInv, NEW g \in Function, Call(g)
  PROVE  IInv'
<1> DEFINE D == Depth
           params == shape[g].params
           args == [k \in DOMAIN params |-> ArgumentValue(Depth, k)]
           low == sp - Aligned(StackSize(params))
           at == [k \in OnStack(params) |-> low + 8 * (StackPlace(params, k) - 1)]
           Travels(k, r) == k \notin OnStack(params) /\ r = ArgReg(params[k], OfClass(params, k))
           saved == [r \in CalleeSaved |-> reg[r]]
<1>0. Types /\ Chain /\ SavedKept /\ LocalsThere /\ ArgumentsThere /\ Registers
  BY DEF IInv
<1>1. /\ pc = "body" /\ 0 <= low /\ sp' = low /\ pc' = "enter" /\ shape' = shape
      /\ mem' = Written(mem, at, args)
      /\ reg' = [r \in Register |->
                  IF r = RA THEN ReturnValue(D)
                  ELSE IF \E k \in DOMAIN params : Travels(k, r)
                  THEN args[CHOOSE k \in DOMAIN params : Travels(k, r)]
                  ELSE reg[r]]
      /\ calls' = Append(calls, [func |-> g, args |-> args, sp |-> low,
                                saved |-> saved, worked |-> FALSE])
  BY DEF Call
<1>2. shape[g] \in ShapeType /\ params \in Seq(Class)
  <2>1. shape[g] \in ShapeType
    BY <1>0, ConstantsAssumption DEF Types
  <2> QED BY <2>1 DEF ShapeType
<1>3. /\ D \in Nat \ {0} /\ calls[D].sp \in Int
      /\ FrameStart(D) \in Int /\ FrameStart(D) % 16 = 0
      /\ FrameStart(D) = calls[D].sp - FrameSize(ShapeOf(D)) /\ FrameSize(ShapeOf(D)) \in Nat
  BY <1>0, CallFacts
<1>4. sp = FrameStart(D) /\ sp <= StackTop /\ calls[D].sp <= StackTop
  BY SMTT(60), <1>0, <1>1, <1>3, ConstantsAssumption DEF Chain
<1> HIDE DEF params
<1>5. /\ Cardinality(OnStack(params)) \in Nat
      /\ OnStack(params) \subseteq DOMAIN params
      /\ StackSize(params) = 8 * Cardinality(OnStack(params)) /\ StackSize(params) \in Nat
      /\ \A k \in OnStack(params) :
           /\ StackPlace(params, k) \in 1 .. Cardinality(OnStack(params))
           /\ \A j \in OnStack(params) : StackPlace(params, j) = StackPlace(params, k) => j = k
  BY <1>2, StackArguments
<1>6. /\ Aligned(StackSize(params)) \in Nat /\ Aligned(StackSize(params)) % 16 = 0
      /\ StackSize(params) <= Aligned(StackSize(params))
  BY <1>5, AlignedUp
<1>7. /\ low \in Int /\ low % 16 = 0 /\ low % 4 = 0 /\ low <= sp
      /\ low + 8 * Cardinality(OnStack(params)) <= sp
      /\ low + Aligned(StackSize(params)) = FrameStart(D)
  <2>1. low \in Int /\ low <= sp /\ low + 8 * Cardinality(OnStack(params)) <= sp
        /\ low + Aligned(StackSize(params)) = FrameStart(D)
    BY <1>3, <1>4, <1>5, <1>6
  <2>2. Aligned(StackSize(params)) \in Int /\ sp \in Int /\ sp % 16 = 0
    BY <1>3, <1>4, <1>6
  <2>3. (sp - Aligned(StackSize(params))) % 16 = 0
    BY Zenon, <1>6, <2>2, SumOf16
  <2>4. \A i \in Int : i % 16 = 0 => i % 4 = 0
    OBVIOUS
  <2> QED BY <2>1, <2>3, <2>4
<1> HIDE DEF low
<1>n. /\ 0 <= low /\ low \in Int /\ low <= sp /\ sp \in Int /\ sp <= StackTop /\ StackTop \in Int
      /\ low \in 0 .. StackTop
  <2>1. 0 <= low
    BY <1>1
  <2>2. low \in Int /\ low <= sp /\ sp \in Int /\ sp <= StackTop /\ StackTop \in Int
    BY <1>3, <1>4, <1>7, ConstantsAssumption
  <2> QED BY <2>1, <2>2
<1>8. \A k \in OnStack(params) :
        /\ at[k] = low + 8 * (StackPlace(params, k) - 1)
        /\ StackPlace(params, k) - 1 \in Int
        /\ at[k] \in Int /\ low <= at[k] /\ at[k] + 8 <= sp
  <2> TAKE k \in OnStack(params)
  <2>1. at[k] = low + 8 * (StackPlace(params, k) - 1)
    OBVIOUS
  <2> HIDE DEF at
  <2>2. StackPlace(params, k) - 1 \in Int /\ low <= low + 8 * (StackPlace(params, k) - 1)
        /\ low + 8 * (StackPlace(params, k) - 1) + 8 <= low + 8 * Cardinality(OnStack(params))
    BY <1>5, <1>7, SlotAbove
  <2> QED BY <1>3, <1>4, <1>5, <1>7, <2>1, <2>2
<1>9. DOMAIN at = OnStack(params)
      /\ \A k \in DOMAIN params : args[k] = ArgumentValue(D, k)
  OBVIOUS
<1> HIDE DEF at
<1>10. \A k \in OnStack(params) : {at[k], at[k] + 4} \subseteq Cells
  <2> TAKE k \in OnStack(params)
  <2>1. /\ StackPlace(params, k) - 1 \in Int
        /\ 0 <= low + 8 * (StackPlace(params, k) - 1)
        /\ low + 8 * (StackPlace(params, k) - 1) + 8 <= StackTop
    BY <1>8, <1>n
  <2>2. {low + 8 * (StackPlace(params, k) - 1), low + 8 * (StackPlace(params, k) - 1) + 4} \subseteq Cells
    BY <1>7, <2>1, Slot
  <2> QED BY <1>8, <2>2
<1>11. DOMAIN mem' = Cells
  BY <1>0, <1>1, WrittenDomain DEF Types
<1>12. \A k \in OnStack(params) : Holds(mem', at[k], args[k])
  <2> TAKE k \in OnStack(params)
  <2>1. ASSUME NEW j \in DOMAIN at, j # k
        PROVE  {at[j], at[j] + 4} \cap {at[k], at[k] + 4} = {}
    <3>1. j \in OnStack(params) /\ StackPlace(params, j) # StackPlace(params, k)
      BY <1>5, <1>9, <2>1
    <3>2. /\ at[j] = low + 8 * (StackPlace(params, j) - 1)
          /\ at[k] = low + 8 * (StackPlace(params, k) - 1)
          /\ StackPlace(params, j) - 1 \in Int /\ StackPlace(params, k) - 1 \in Int
          /\ at[j] \in Int /\ at[k] \in Int
      BY <1>8, <3>1
    <3>3. StackPlace(params, j) - 1 # StackPlace(params, k) - 1
      BY <1>5, <3>1
    <3>4. at[j] - at[k] >= 8 \/ at[k] - at[j] >= 8
      BY <1>7, <3>2, <3>3, SlotsApart
    <3> QED BY <3>2, <3>4
  <2>2. k \in DOMAIN at /\ {at[k], at[k] + 4} \subseteq DOMAIN mem
    BY <1>0, <1>9, <1>10 DEF Types
  <2> QED BY <1>1, <2>1, <2>2, WrittenThere
<1>13. \A a \in Cells : sp <= a => mem'[a] = mem[a]
  <2> SUFFICES ASSUME NEW a \in Cells, sp <= a PROVE mem'[a] = mem[a]
    OBVIOUS
  <2>1. ASSUME NEW k \in DOMAIN at PROVE a # at[k] /\ a # at[k] + 4
    <3>1. at[k] \in Int /\ at[k] + 8 <= sp /\ a \in Int /\ sp \in Int
      BY <1>3, <1>4, <1>8, <1>9, CellsInt
    <3> QED BY <3>1
  <2> QED BY <1>0, <1>1, <2>1, WrittenElsewhere DEF Types
<1>14. ASSUME NEW k \in DOMAIN params, k \notin OnStack(params)
       PROVE  reg'[ArgReg(params[k], OfClass(params, k))] = args[k]
  <2>1. /\ ArgReg(params[k], OfClass(params, k)) \in Register \ (CalleeSaved \cup {RA})
        /\ \A j \in DOMAIN params :
             ArgReg(params[j], OfClass(params, j)) = ArgReg(params[k], OfClass(params, k)) => j = k
    BY <1>2, <1>14, RegisterArguments
  <2> DEFINE r == ArgReg(params[k], OfClass(params, k))
  <2>2. \A j \in DOMAIN params : Travels(j, r) <=> j = k
    BY <1>14, <2>1
  <2> HIDE DEF Travels, r, args
  <2>3. (CHOOSE j \in DOMAIN params : Travels(j, r)) = k
    BY <2>2
  <2>4. r \in Register /\ r # RA
    BY <2>1 DEF r
  <2> QED BY <1>1, <2>2, <2>3, <2>4 DEF r
<1>15. /\ reg'[RA] = ReturnValue(D) /\ DOMAIN reg' = Register
       /\ \A r \in CalleeSaved : reg'[r] = reg[r]
  <2>1. ASSUME NEW r \in CalleeSaved PROVE reg'[r] = reg[r]
    <3>1. ASSUME NEW k \in DOMAIN params, Travels(k, r) PROVE FALSE
      <4>1. ArgReg(params[k], OfClass(params, k)) \notin CalleeSaved
        BY <1>2, <3>1, RegisterArguments
      <4> QED BY <3>1, <4>1
    <3>2. r # RA /\ r \in Register
      BY ConstantsAssumption DEF Register
    <3> HIDE DEF Travels
    <3> QED BY <1>1, <3>1, <3>2
  <2>2. RA \in Register
    BY DEF Register
  <2> QED BY <1>1, <2>1, <2>2
<1> HIDE DEF args, saved
<1>16. /\ \E A, B : calls' \in Seq(CallType(A, B))
       /\ calls' # <<>> /\ Depth' = D + 1
       /\ \A d \in 1 .. D : /\ calls'[d] = calls[d]
                            /\ ShapeOf(d)' = ShapeOf(d) /\ FrameStart(d)' = FrameStart(d)
       /\ calls'[D + 1].args = args
       /\ calls'[D + 1].sp = low /\ calls'[D + 1].saved = saved
       /\ calls'[D + 1].worked = FALSE
       /\ \A d : d = D + 1 => ShapeOf(d)' = shape[g]
  BY <1>0, <1>1, <1>7, NewCall
<1>17. \A d \in 1 .. D : sp <= FrameStart(d) /\ IsOpen(d)
  BY <1>0, <1>1, AllAbove DEF IsOpen
<1> HIDE DEF D
<1>18. \A d \in 1 .. D + 1 : d \in 1 .. D \/ d = D + 1
  BY <1>3
<1>19. Types'
  BY <1>0, <1>1, <1>11, <1>15, <1>16 DEF Types
<1>20. Chain'
  <2>1. \A d \in 1 .. D + 1 : calls'[d].sp \in 0 .. StackTop /\ calls'[d].sp % 16 = 0
    <3> QED BY <1>0, <1>7, <1>16, <1>18, <1>n DEF Chain, D
  <2>2. \A d \in 1 .. D + 1 : IsOpen(d)' => 0 <= FrameStart(d)'
    <3>1. \A d \in 1 .. D : 0 <= FrameStart(d)'
      BY <1>0, <1>16, <1>17 DEF Chain, D
    <3>2. \A d : d = D + 1 => ~IsOpen(d)'
      BY <1>1, <1>3, <1>16 DEF IsOpen
    <3> QED BY <1>18, <3>1, <3>2
  <2>3. \A d \in 1 .. D :
          calls'[d + 1].sp + Aligned(StackSize(ShapeOf(d + 1)'.params)) = FrameStart(d)'
    <3> TAKE d \in 1 .. D
    <3>1. CASE d = D
      <4>1. ShapeOf(d + 1)' = shape[g] /\ calls'[d + 1].sp = low /\ FrameStart(d)' = FrameStart(D)
        BY <1>16, <3>1
      <4> QED BY <1>7, <4>1 DEF params
    <3>2. CASE d # D
      <4>1. d \in 1 .. D - 1 /\ d + 1 \in 1 .. D
        <5>1. D \in Int
          BY <1>3
        <5> QED BY <3>2, <5>1
      <4>2. calls'[d + 1] = calls[d + 1] /\ ShapeOf(d + 1)' = ShapeOf(d + 1)
            /\ FrameStart(d)' = FrameStart(d)
        BY <1>16, <4>1
      <4> QED BY <1>0, <4>1, <4>2 DEF Chain, D
    <3> QED BY <3>1, <3>2
  <2>4. ASSUME NEW d \in 1 .. D + 1, NEW e \in 1 .. D + 1, d < e
        PROVE  calls'[e].sp <= FrameStart(d)'
    <3>1. d \in 1 .. D /\ FrameStart(d)' = FrameStart(d)
      BY <1>3, <1>16, <2>4
    <3>2. CASE e \in 1 .. D
      BY <1>0, <1>16, <2>4, <3>1, <3>2 DEF Chain, D
    <3>3. CASE e = D + 1
      <4>1. sp <= FrameStart(d) /\ FrameStart(d) \in Int
        BY <1>0, <1>17, <3>1, CallFacts DEF D
      <4>2. low <= FrameStart(d)
        BY <1>n, <4>1
      <4> QED BY <1>16, <3>1, <3>3, <4>2
    <3> QED BY <1>18, <3>2, <3>3
  <2>5. 1 \in 1 .. D
    BY <1>3
  <2>6. ShapeOf(1)'.params = <<>>
    BY <1>0, <1>16, <2>5 DEF Chain
  <2>7. (D + 1) - 1 = D
    BY <1>3
  <2>8. sp' = calls'[D + 1].sp
    BY <1>1, <1>16
  <2> QED BY <1>1, <1>16, <2>1, <2>2, <2>3, <2>4, <2>6, <2>7, <2>8 DEF Chain
<1>21. SavedKept'
  <2>1. ASSUME NEW d \in 1 .. D
        PROVE /\ Holds(mem', calls[d].sp - 8, ReturnValue(d - 1))
              /\ \A r \in SavedSet(ShapeOf(d)) :
                   Holds(mem', calls[d].sp - 8 - 8 * SavedPlace(ShapeOf(d), r), calls[d].saved[r])
    <3>1. FrameStart(d) \in Int /\ LocalSize(ShapeOf(d)) \in Nat
      BY <1>0, CallFacts DEF D
    <3>2. sp \in Int /\ sp <= FrameStart(d) + LocalSize(ShapeOf(d)) /\ IsOpen(d)
      BY <1>3, <1>4, <1>17, <3>1
    <3> QED BY <1>0, <1>11, <1>13, <3>2, SavedStay DEF D
  <2>2. \A d : d = D + 1 => ~IsOpen(d)'
    BY <1>1, <1>3, <1>16 DEF IsOpen
  <2> QED BY <1>16, <1>18, <2>1, <2>2 DEF SavedKept
<1>22. LocalsThere'
  <2>1. ASSUME NEW d \in 1 .. D, calls[d].worked PROVE LocalsHeld(mem', d)
    <3>1. d < D \/ pc = "body"
      BY <1>1
    <3>2. LocalsHeld(mem, d)
      BY <1>0, <2>1, <3>1 DEF LocalsThere, D
    <3>3. sp \in Int /\ sp <= FrameStart(d)
      BY <1>3, <1>4, <1>17
    <3> QED BY <1>0, <1>11, <1>13, <3>2, <3>3, LocalsStay DEF D
  <2>2. \A d \in 1 .. D : LocalsHeld(mem, d)' <=> LocalsHeld(mem', d)
    BY <1>16 DEF LocalsHeld
  <2> QED BY <1>16, <1>18, <2>1, <2>2 DEF LocalsThere
<1>23. ArgumentsThere'
  <2>1. ASSUME NEW k \in DOMAIN params PROVE ArgumentHeld(mem, reg, k)'
    <3>1. \A d : d = Depth' => ShapeOf(d)'.params = params /\ calls'[d].sp = low /\ calls'[d].args = args
      BY <1>16 DEF params
    <3>2. CASE k \in OnStack(params)
      <4>1. Holds(mem', low + 8 * (StackPlace(params, k) - 1), args[k])
        BY <1>8, <1>12, <3>2
      <4> QED BY <3>1, <3>2, <4>1 DEF ArgumentHeld, ShapeOf
    <3>3. CASE k \notin OnStack(params)
      BY <1>14, <3>1, <3>3 DEF ArgumentHeld, ShapeOf
    <3> QED BY <3>2, <3>3
  <2>2. \A d : d = Depth' => ShapeOf(d)'.params = params
    BY <1>16 DEF params
  <2> QED BY <2>1, <2>2 DEF ArgumentsThere, ShapeOf
<1>24. Registers'
  <2>1. \A r \in CalleeSaved : reg'[r] = calls'[D + 1].saved[r]
    BY <1>15, <1>16 DEF saved
  <2>2. (D + 1) - 1 = D
    BY <1>3
  <2>3. ASSUME NEW d \in 1 .. D, NEW r \in CalleeSaved \ SavedSet(ShapeOf(d)')
        PROVE  calls'[d + 1].saved[r] = calls'[d].saved[r]
    <3>0. r \in CalleeSaved \ SavedSet(ShapeOf(d)) /\ calls'[d] = calls[d]
      BY <1>16, <2>3
    <3>1. CASE d = D
      BY <1>0, <1>1, <1>16, <3>0, <3>1 DEF Registers, D, saved
    <3>2. CASE d # D
      <4>1. d \in 1 .. D - 1 /\ d + 1 \in 1 .. D
        <5>1. D \in Int
          BY <1>3
        <5> QED BY <3>2, <5>1
      <4> QED BY <1>0, <1>16, <3>0, <4>1 DEF Registers, D
    <3> QED BY <3>1, <3>2
  <2>4. pc' = "enter" /\ reg'[RA] = ReturnValue(Depth' - 1)
    BY <1>1, <1>15, <1>16, <2>2
  <2>5. \A r \in CalleeSaved : reg'[r] = calls'[Depth'].saved[r]
    BY <1>16, <2>1
  <2>6. \A d \in 1 .. Depth' - 1 : \A r \in CalleeSaved \ SavedSet(ShapeOf(d)') :
          calls'[d + 1].saved[r] = calls'[d].saved[r]
    BY <1>16, <2>2, <2>3
  <2> QED BY <2>4, <2>5, <2>6 DEF Registers
<1> QED BY <1>19, <1>20, <1>21, <1>22, <1>23, <1>24 DEF IInv

LEMMA EpilogueStep ==
  ASSUME IInv, Epilogue
  PROVE  IInv'
<1> DEFINE D == Depth
           s == ShapeOf(D)
<1>0. Types /\ Chain /\ SavedKept /\ LocalsThere /\ ArgumentsThere /\ Registers
  BY DEF IInv
<1>1. /\ D \in Nat \ {0} /\ Shape = s /\ s \in ShapeType
      /\ FrameStart(D) = calls[D].sp - FrameSize(s)
      /\ FrameSize(s) \in Nat /\ calls[D].sp \in Int
  BY <1>0, CallFacts
<1>2. /\ pc = "body" /\ sp' = sp + FrameSize(s) /\ pc' = "leave"
      /\ reg' = [r \in Register |->
                  IF r = RA THEN Get8(sp + ReturnAddressOffset(s))
                  ELSE IF r \in SavedSet(s) THEN Get8(sp + RestoredFrom(s, r))
                  ELSE reg[r]]
      /\ shape' = shape /\ mem' = mem /\ calls' = calls
  BY <1>1 DEF Epilogue
<1>3. sp = FrameStart(D) /\ sp \in Int
  BY <1>0, <1>1, <1>2 DEF Chain
<1>4. /\ D' = D
      /\ \A d : ShapeOf(d)' = ShapeOf(d) /\ FrameStart(d)' = FrameStart(d)
  BY <1>2, SameCalls
<1>5. IsOpen(D) /\ D \in 1 .. D
  BY <1>1, <1>2 DEF IsOpen
<1>6. /\ Holds(mem, calls[D].sp - 8, ReturnValue(D - 1))
      /\ \A r \in SavedSet(s) :
           Holds(mem, calls[D].sp - 8 - 8 * SavedPlace(s, r), calls[D].saved[r])
  BY <1>0, <1>5 DEF SavedKept
<1> HIDE DEF D, s
<1>7. \A a, v : Holds(mem, a, v) => Get8(a) = v
  BY DEF Holds, Get8
<1>8. sp + ReturnAddressOffset(s) = calls[D].sp - 8
  BY <1>1, <1>3 DEF ReturnAddressOffset
<1>9. ASSUME NEW r \in SavedSet(s)
      PROVE  sp + RestoredFrom(s, r) = calls[D].sp - 8 - 8 * SavedPlace(s, r)
  <2>1. SavedPlace(s, r) \in 1 .. Cardinality(SavedSet(s)) /\ Cardinality(SavedSet(s)) \in Nat
    BY <1>1, SavedPlaces, FrameFacts
  <2>2. SavedPlace(s, r) \in Int
    BY <2>1
  <2> QED BY <1>1, <1>3, <2>2 DEF RestoredFrom, SavedOffset
<1>10. reg'[RA] = ReturnValue(D - 1) /\ DOMAIN reg' = Register
  BY <1>2, <1>6, <1>7, <1>8 DEF Register
<1>11. ASSUME NEW r \in CalleeSaved PROVE reg'[r] = calls[D].saved[r]
  <2>1. r \in Register /\ r # RA
    BY ConstantsAssumption DEF Register
  <2>2. CASE r \in SavedSet(s)
    BY <1>2, <1>6, <1>7, <1>9, <2>1, <2>2
  <2>3. CASE r \notin SavedSet(s)
    BY <1>0, <1>2, <2>1, <2>3 DEF Registers, D, s
  <2> QED BY <2>2, <2>3
<1>12. Types'
  BY <1>0, <1>2, <1>10 DEF Types
<1>13. Chain'
  <2>1. sp' = calls[D].sp
    BY <1>1, <1>2, <1>3
  <2>2. \A d \in 1 .. D : IsOpen(d)
    BY <1>2 DEF IsOpen
  <2> QED BY <1>0, <1>2, <1>4, <2>1, <2>2 DEF Chain, D
<1>14. \A d : IsOpen(d)' => IsOpen(d)
  BY <1>2 DEF IsOpen
<1>15. SavedKept'
  BY <1>0, <1>2, <1>4, <1>14 DEF SavedKept, D
<1>16. LocalsThere'
  <2>1. \A d : LocalsHeld(mem, d)' <=> LocalsHeld(mem, d)
    BY <1>2, <1>4 DEF LocalsHeld
  <2> QED BY <1>0, <1>2, <1>4, <2>1 DEF LocalsThere, D
<1>17. ArgumentsThere'
  BY <1>2 DEF ArgumentsThere
<1>18. Registers'
  BY <1>0, <1>2, <1>4, <1>10, <1>11 DEF Registers, D
<1> QED BY <1>12, <1>13, <1>15, <1>16, <1>17, <1>18 DEF IInv

LEMMA ReturnStep ==
  ASSUME IInv, Return
  PROVE  IInv'
<1> DEFINE D == Depth
<1>0. Types /\ Chain /\ SavedKept /\ LocalsThere /\ ArgumentsThere /\ Registers
  BY DEF IInv
<1>1. D \in Nat \ {0} /\ Shape = ShapeOf(D)
  BY <1>0, CallFacts
<1>2. /\ pc = "leave" /\ D > 1 /\ sp' = sp + Aligned(StackSize(ShapeOf(D).params))
      /\ calls' = Front(calls) /\ pc' = "body"
      /\ shape' = shape /\ reg' = reg /\ mem' = mem
  BY <1>1 DEF Return
<1>3. PICK A, B : calls \in Seq(CallType(A, B))
  BY <1>0 DEF Types
<1>4. /\ calls' \in Seq(CallType(A, B)) /\ Len(calls') = D - 1
      /\ \A d \in 1 .. D - 1 : calls'[d] = calls[d]
  <2>1. calls' = SubSeq(calls, 1, D - 1)
    BY <1>2 DEF Front, Depth
  <2>2. D = Len(calls)
    BY DEF Depth
  <2> QED BY <1>1, <1>2, <1>3, <2>1, <2>2
<1>5. calls' # <<>> /\ Depth' = D - 1
  BY <1>1, <1>2, <1>4 DEF Depth
<1> HIDE DEF D
<1>6. \A d \in 1 .. D - 1 : ShapeOf(d)' = ShapeOf(d) /\ FrameStart(d)' = FrameStart(d)
  BY <1>2, <1>4 DEF ShapeOf, FrameStart
<1>7. /\ D - 1 \in Nat \ {0} /\ (D - 1) + 1 = D /\ D - 1 \in 1 .. D - 1 /\ 1 \in 1 .. D - 1
      /\ \A d \in 1 .. D - 1 : d \in 1 .. D /\ d < D
      /\ \A d \in 1 .. (D - 1) - 1 : d \in 1 .. D - 1 /\ d + 1 \in 1 .. D - 1
  BY <1>1, <1>2
<1>8. \A d \in 1 .. D - 1 : IsOpen(d)
  BY <1>7 DEF IsOpen, D
<1>9. Types'
  BY <1>0, <1>2, <1>4, <1>5 DEF Types
<1>10. Chain'
  <2>1. sp' = FrameStart(D - 1)
    <3>1. sp = calls[D].sp
      BY <1>0, <1>2 DEF Chain, D
    <3>2. calls[(D - 1) + 1].sp + Aligned(StackSize(ShapeOf((D - 1) + 1).params)) = FrameStart(D - 1)
      BY <1>0, <1>7 DEF Chain, D
    <3> QED BY <1>2, <1>7, <3>1, <3>2
  <2>2. \A d \in 1 .. D - 1 : /\ calls'[d].sp \in 0 .. StackTop /\ calls'[d].sp % 16 = 0
                             /\ 0 <= FrameStart(d)'
    BY <1>0, <1>4, <1>6, <1>7, <1>8 DEF Chain, D
  <2>3. \A d \in 1 .. (D - 1) - 1 :
          calls'[d + 1].sp + Aligned(StackSize(ShapeOf(d + 1)'.params)) = FrameStart(d)'
    BY <1>0, <1>4, <1>6, <1>7 DEF Chain, D
  <2>4. \A d, e \in 1 .. D - 1 : d < e => calls'[e].sp <= FrameStart(d)'
    BY <1>0, <1>4, <1>6, <1>7 DEF Chain, D
  <2>5. \A d : d = D - 1 => FrameStart(d)' = FrameStart(D - 1)
    BY <1>6, <1>7
  <2>6. ShapeOf(1)'.params = <<>>
    BY <1>0, <1>6, <1>7 DEF Chain
  <2>7. sp' = FrameStart(Depth)'
    BY <1>5, <2>1, <2>5 DEF FrameStart
  <2> QED BY <1>2, <1>5, <2>2, <2>3, <2>4, <2>6, <2>7 DEF Chain
<1>11. SavedKept'
  BY <1>0, <1>2, <1>4, <1>5, <1>6, <1>7, <1>8 DEF SavedKept, D
<1>12. LocalsThere'
  <2>1. \A d \in 1 .. D - 1 : LocalsHeld(mem, d)' <=> LocalsHeld(mem, d)
    BY <1>2, <1>6 DEF LocalsHeld
  <2> QED BY <1>0, <1>2, <1>4, <1>5, <1>7, <2>1 DEF LocalsThere, D
<1>13. ArgumentsThere'
  BY <1>2 DEF ArgumentsThere
<1>14. Registers'
  <2>1. ASSUME NEW r \in CalleeSaved \ SavedSet(ShapeOf(D - 1))
        PROVE  reg'[r] = calls'[D - 1].saved[r]
    <3>1. reg[r] = calls[(D - 1) + 1].saved[r]
      BY <1>0, <1>2, <1>7 DEF Registers, D
    <3>2. calls[(D - 1) + 1].saved[r] = calls[D - 1].saved[r]
      BY <1>0, <1>7 DEF Registers, D
    <3> QED BY <1>2, <1>4, <1>7, <3>1, <3>2
  <2>2. \A d \in 1 .. (D - 1) - 1 : \A r \in CalleeSaved \ SavedSet(ShapeOf(d)') :
          calls'[d + 1].saved[r] = calls'[d].saved[r]
    BY <1>0, <1>4, <1>6, <1>7 DEF Registers, D
  <2>3. \A d : d = D - 1 => ShapeOf(d)' = ShapeOf(D - 1)
    BY <1>6, <1>7
  <2>4. \A r \in CalleeSaved \ SavedSet(ShapeOf(Depth)') : reg'[r] = calls'[Depth'].saved[r]
    BY <1>5, <2>1, <2>3 DEF ShapeOf
  <2> QED BY <1>2, <1>5, <2>2, <2>4 DEF Registers
<1> QED BY <1>9, <1>10, <1>11, <1>12, <1>13, <1>14 DEF IInv

LEMMA StutterStep ==
  ASSUME IInv, UNCHANGED vars
  PROVE  IInv'
<1>1. /\ shape' = shape /\ sp' = sp /\ reg' = reg /\ mem' = mem /\ calls' = calls /\ pc' = pc
  BY DEF vars
<1>2. /\ Depth' = Depth
      /\ \A d : ShapeOf(d)' = ShapeOf(d) /\ FrameStart(d)' = FrameStart(d)
      /\ \A d : IsOpen(d)' <=> IsOpen(d)
      /\ \A d : LocalsHeld(mem, d)' <=> LocalsHeld(mem, d)
      /\ \A d : ArgumentHeld(mem, reg, d)' <=> ArgumentHeld(mem, reg, d)
  BY <1>1, SameCalls DEF IsOpen, LocalsHeld, ArgumentHeld
<1>3. Types'
  BY <1>1 DEF IInv, Types
<1>4. Chain'
  BY <1>1, <1>2 DEF IInv, Chain
<1>5. SavedKept'
  BY <1>1, <1>2 DEF IInv, SavedKept
<1>6. LocalsThere'
  BY <1>1, <1>2 DEF IInv, LocalsThere
<1>7. ArgumentsThere'
  BY <1>1, <1>2 DEF IInv, ArgumentsThere, ShapeOf, Depth
<1>8. Registers'
  BY <1>1, <1>2 DEF IInv, Registers, ShapeOf, Depth
<1> QED BY <1>3, <1>4, <1>5, <1>6, <1>7, <1>8 DEF IInv

(* The invariant holds in every reachable state. *)
THEOREM InvariantHolds == Spec => []IInv
<1>1. Init => IInv
  BY InitIInv
<1>2. IInv /\ [Next]_vars => IInv'
  <2> SUFFICES ASSUME IInv, [Next]_vars PROVE IInv'
    OBVIOUS
  <2>1. CASE Prologue
    BY <2>1, PrologueStep
  <2>2. CASE Body
    BY <2>2, BodyStep
  <2>3. ASSUME NEW g \in Function, Call(g) PROVE IInv'
    BY <2>3, CallStep
  <2>4. CASE Epilogue
    BY <2>4, EpilogueStep
  <2>5. CASE Return
    BY <2>5, ReturnStep
  <2>6. CASE Exit \/ UNCHANGED vars
    BY <2>6, StutterStep DEF Exit
  <2> QED BY <2>1, <2>2, <2>3, <2>4, <2>5, <2>6 DEF Next
<1> QED BY <1>1, <1>2, PTL DEF Spec

(* Whatever the shapes of the functions, a function returns with the stack *)
(* pointer, the return address and the callee-saved registers of its       *)
(* caller.                                                                 *)
THEOREM CallersGetTheirState == Spec => []CallerStateKept
<1>1. IInv => CallerStateKept
  <2> SUFFICES ASSUME IInv, pc = "leave"
               PROVE  /\ sp = calls[Depth].sp
                      /\ reg[RA] = ReturnValue(Depth - 1)
                      /\ \A r \in CalleeSaved : reg[r] = calls[Depth].saved[r]
    BY CallFacts DEF CallerStateKept, IInv
  <2> QED BY DEF IInv, Chain, Registers
<1> QED BY <1>1, InvariantHolds, PTL

(* Whatever the classes and the number of the parameters, a function reads *)
(* as its k-th parameter what the caller passed as the k-th argument.      *)
THEOREM ParametersAreArguments == Spec => []ArgumentsArrive
<1>1. IInv => ArgumentsArrive
  <2> SUFFICES ASSUME IInv, pc = "start", NEW k \in DOMAIN Shape.params
               PROVE  Incoming(k) = Running.args[k]
    BY DEF ArgumentsArrive
  <2>1. Running = calls[Depth] /\ Shape = ShapeOf(Depth)
    BY CallFacts DEF IInv
  <2>2. ArgumentHeld(mem, reg, k)
    BY <2>1 DEF IInv, ArgumentsThere
  <2>3. reg[S0] = Address(calls[Depth].sp)
    BY DEF IInv, Registers
  <2>4. reg[S0].address = calls[Depth].sp
    BY <2>3 DEF Address
  <2>5. CASE k \in OnStack(Shape.params)
    BY <2>1, <2>2, <2>4, <2>5 DEF ArgumentHeld, Incoming, Holds, Get8, ParamPlace, StackPlace
  <2>6. CASE k \notin OnStack(Shape.params)
    BY <2>1, <2>2, <2>6 DEF ArgumentHeld, Incoming
  <2> QED BY <2>5, <2>6
<1> QED BY <1>1, InvariantHolds, PTL

(* Whatever the sizes of the frames and the depth of the calls, the locals *)
(* and spill slots of every active call keep what its body wrote.          *)
THEOREM FramesDoNotOverlap == Spec => []LocalsKept
<1>1. IInv => LocalsKept
  <2> SUFFICES ASSUME IInv, NEW d \in DOMAIN calls, calls[d].worked, d < Depth \/ pc = "body"
               PROVE  /\ \A i \in 1 .. ShapeOf(d).spills :
                           Get8(FrameStart(d) + SpillOffset(ShapeOf(d), i)) = SpillValue(d, i)
                      /\ \A i \in DOMAIN ShapeOf(d).allocas : \A c \in LocalCells(ShapeOf(d), i) :
                           mem[FrameStart(d) + c] = LocalValue(d, i)
    BY DEF LocalsKept, ShapeOf
  <2>1. PICK A, B : calls \in Seq(CallType(A, B))
    BY DEF IInv, Types
  <2>2. d \in 1 .. Depth
    BY <2>1 DEF Depth
  <2>3. LocalsHeld(mem, d)
    BY <2>2 DEF IInv, LocalsThere
  <2> QED BY <2>3 DEF LocalsHeld, Holds, Get8
<1> QED BY <1>1, InvariantHolds, PTL

(* The stack pointer is on a multiple of 16 at every call. *)
THEOREM CallsAreAligned == Spec => []StackAligned
<1>1. IInv => StackAligned
  <2> SUFFICES ASSUME IInv, pc \in {"enter", "body"} PROVE sp % 16 = 0
    BY DEF StackAligned
  <2>1. Depth \in 1 .. Depth /\ calls[Depth].sp % 16 = 0 /\ FrameStart(Depth) % 16 = 0
    BY CallFacts DEF IInv, Chain
  <2> QED BY <2>1 DEF IInv, Chain
<1> QED BY <1>1, InvariantHolds, PTL
=============================================================================
