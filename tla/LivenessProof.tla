--------------------------- MODULE LivenessProof ---------------------------
(***************************************************************************)
(* The proof that the sweeps of the liveness analysis compute liveness,    *)
(* for every function whose blocks all lead to its return, whatever its    *)
(* size and shape; and that the live ranges then tell the allocator        *)
(* enough: every value that is needed after an instruction has a range     *)
(* over it, and every instruction lies in a range of each operand it       *)
(* mentions.                                                               *)
(***************************************************************************)
EXTENDS Liveness, Induction, FiniteSetTheorems, SequenceTheorems

-----------------------------------------------------------------------------
(* What Onward computes: the least set with b that is closed under the     *)
(* edges from S.                                                           *)

Edges == [Block -> Seq(Block)]

IsClosed(next, S, T) == \A c \in T \cap S : ToSet(next[c]) \subseteq T

(* f solves the equations of Onward up to n. *)
IsReach(f, next, S, b, n) ==
  f = [k \in 0 .. n |-> IF k = 0 THEN {b} ELSE Grown(next, S, f[k - 1])]

Reaches(next, S, b, n) == \E f : IsReach(f, next, S, b, n)

LEMMA GrownFacts ==
  ASSUME NEW next \in Edges, NEW S, NEW T \in SUBSET Block
  PROVE  /\ Grown(next, S, T) \in SUBSET Block
         /\ T \subseteq Grown(next, S, T)
         /\ Grown(next, S, T) = T <=> IsClosed(next, S, T)
<1>1. \A c \in Block : ToSet(next[c]) \subseteq Block
  BY DEF Edges, ToSet
<1> QED BY <1>1 DEF Grown, IsClosed

LEMMA GrowthExists ==
  ASSUME NEW next, NEW S, NEW b, NEW n \in Nat
  PROVE  Reaches(next, S, b, n)
<1> DEFINE Good == {m \in Nat : Reaches(next, S, b, m)}
<1>1. 0 \in Good
  <2> DEFINE f == [k \in 0 .. 0 |-> {b}]
  <2>1. IsReach(f, next, S, b, 0)
    BY DEF IsReach
  <2> QED BY <2>1 DEF Reaches
<1>2. ASSUME NEW m \in Nat, NEW f, IsReach(f, next, S, b, m)
      PROVE  Reaches(next, S, b, m + 1)
  <2> DEFINE g == [k \in 0 .. m + 1 |-> IF k = m + 1 THEN Grown(next, S, f[m]) ELSE f[k]]
  <2>1. \A k \in 0 .. m : f[k] = IF k = 0 THEN {b} ELSE Grown(next, S, f[k - 1])
    BY <1>2 DEF IsReach
  <2>2. ASSUME NEW k \in 0 .. m + 1
        PROVE  g[k] = IF k = 0 THEN {b} ELSE Grown(next, S, g[k - 1])
    <3>1. CASE k = m + 1
      <4>1. k # 0 /\ k - 1 = m /\ m \in 0 .. m + 1 /\ m # m + 1
        BY <3>1
      <4> QED BY <3>1, <4>1
    <3>2. CASE k # m + 1
      <4>1. k \in 0 .. m /\ (k # 0 => k - 1 \in 0 .. m + 1 /\ k - 1 # m + 1)
        BY <3>2
      <4> QED BY <2>1, <3>2, <4>1
    <3> QED BY <3>1, <3>2
  <2>3. g = [k \in 0 .. m + 1 |-> g[k]]
    OBVIOUS
  <2>4. IsReach(g, next, S, b, m + 1)
    <3> HIDE DEF g
    <3> QED BY <2>2, <2>3 DEF IsReach
  <2> QED BY <2>4 DEF Reaches
<1>3. \A m \in Nat : m \in Good => m + 1 \in Good
  BY <1>2 DEF Reaches
<1>4. Good \in SUBSET Nat
  OBVIOUS
<1>5. Good = Nat
  <2> HIDE DEF Good
  <2> QED BY <1>1, <1>3, <1>4, NatInductionSet
<1> QED BY <1>5

(* The last of as many sets as there are blocks is closed: every set       *)
(* before it that is not has fewer blocks than the next.                   *)
Full(T, n, next, S) == IsClosed(next, S, T) \/ Cardinality(T) >= n + 1

LEMMA OnwardClosed ==
  ASSUME IsFiniteSet(Block), NEW next \in Edges, NEW S, NEW b \in Block
  PROVE  /\ Onward(next, S, b) \in SUBSET Block
         /\ b \in Onward(next, S, b)
         /\ IsClosed(next, S, Onward(next, S, b))
<1> DEFINE N == Cardinality(Block)
           reach == CHOOSE f : IsReach(f, next, S, b, N)
<1>0. N \in Nat
  BY FS_CardinalityType
<1>1. IsReach(reach, next, S, b, N)
  <2> HIDE DEF N
  <2> QED BY <1>0, GrowthExists DEF Reaches
<1>2. Onward(next, S, b) = reach[N]
  BY DEF Onward, IsReach
<1> HIDE DEF reach, N
<1>3. \A k \in 0 .. N : reach[k] = IF k = 0 THEN {b} ELSE Grown(next, S, reach[k - 1])
  BY <1>1 DEF IsReach
<1> DEFINE Good == {n \in Nat : n <= N =>
                      /\ reach[n] \in SUBSET Block
                      /\ b \in reach[n]
                      /\ Full(reach[n], n, next, S)}
<1>4. 0 \in Good
  <2>1. reach[0] = {b}
    BY <1>0, <1>3
  <2>2. Cardinality({b}) = 1
    BY FS_Singleton
  <2> QED BY <2>1, <2>2 DEF Full
<1>5. \A n \in Nat : n \in Good => n + 1 \in Good
  <2> SUFFICES ASSUME NEW n \in Nat, n \in Good, n + 1 <= N
               PROVE  /\ reach[n + 1] \in SUBSET Block
                      /\ b \in reach[n + 1]
                      /\ Full(reach[n + 1], n + 1, next, S)
    OBVIOUS
  <2>1. reach[n] \in SUBSET Block /\ b \in reach[n] /\ Full(reach[n], n, next, S)
    BY <1>0
  <2>2. reach[n + 1] = Grown(next, S, reach[n])
    BY <1>0, <1>3
  <2> HIDE DEF Good
  <2>3. /\ reach[n + 1] \in SUBSET Block /\ reach[n] \subseteq reach[n + 1]
        /\ reach[n + 1] = reach[n] <=> IsClosed(next, S, reach[n])
    BY <2>1, <2>2, GrownFacts
  <2>4. CASE IsClosed(next, S, reach[n])
    BY <2>1, <2>3, <2>4 DEF Full
  <2>5. CASE ~IsClosed(next, S, reach[n])
    <3>1. IsFiniteSet(reach[n + 1])
      BY <2>3, FS_Subset
    <3>2. /\ IsFiniteSet(reach[n])
          /\ Cardinality(reach[n]) <= Cardinality(reach[n + 1])
          /\ Cardinality(reach[n]) # Cardinality(reach[n + 1])
      BY <2>3, <2>5, <3>1, FS_Subset
    <3>3. Cardinality(reach[n]) \in Nat /\ Cardinality(reach[n + 1]) \in Nat
      BY <3>1, <3>2, FS_CardinalityType
    <3>4. Cardinality(reach[n]) >= n + 1
      BY <2>1, <2>5 DEF Full
    <3>5. Cardinality(reach[n + 1]) >= n + 1 + 1
      BY <3>2, <3>3, <3>4
    <3> QED BY <2>1, <2>3, <3>5 DEF Full
  <2> QED BY <2>4, <2>5
<1>6. Good \in SUBSET Nat
  OBVIOUS
<1>7. Good = Nat
  <2> HIDE DEF Good
  <2> QED BY <1>4, <1>5, <1>6, NatInductionSet
<1>8. reach[N] \in SUBSET Block /\ b \in reach[N] /\ Full(reach[N], N, next, S)
  BY <1>0, <1>7
<1>9. Cardinality(reach[N]) <= N /\ Cardinality(reach[N]) \in Nat
  BY <1>8, FS_Subset, FS_CardinalityType DEF N
<1>10. IsClosed(next, S, reach[N])
  BY <1>0, <1>8, <1>9 DEF Full
<1> QED BY <1>2, <1>8, <1>10

LEMMA OnwardLeast ==
  ASSUME IsFiniteSet(Block), NEW next \in Edges, NEW S, NEW b \in Block,
         NEW T \in SUBSET Block, b \in T, IsClosed(next, S, T)
  PROVE  Onward(next, S, b) \subseteq T
<1> DEFINE N == Cardinality(Block)
           reach == CHOOSE f : IsReach(f, next, S, b, N)
<1>0. N \in Nat
  BY FS_CardinalityType
<1>1. IsReach(reach, next, S, b, N)
  <2> HIDE DEF N
  <2> QED BY <1>0, GrowthExists DEF Reaches
<1>2. Onward(next, S, b) = reach[N]
  BY DEF Onward, IsReach
<1> HIDE DEF reach, N
<1>3. \A k \in 0 .. N : reach[k] = IF k = 0 THEN {b} ELSE Grown(next, S, reach[k - 1])
  BY <1>1 DEF IsReach
<1> DEFINE Good == {n \in Nat : n <= N => reach[n] \subseteq T}
<1>4. 0 \in Good
  BY <1>0, <1>3
<1>5. \A n \in Nat : n \in Good => n + 1 \in Good
  <2> SUFFICES ASSUME NEW n \in Nat, n \in Good, n + 1 <= N
               PROVE  reach[n + 1] \subseteq T
    OBVIOUS
  <2>1. reach[n] \subseteq T
    BY <1>0
  <2>2. reach[n + 1] = Grown(next, S, reach[n])
    BY <1>0, <1>3
  <2> QED BY <2>1, <2>2 DEF Grown, IsClosed
<1>6. Good \in SUBSET Nat
  OBVIOUS
<1>7. Good = Nat
  <2> HIDE DEF Good
  <2> QED BY <1>4, <1>5, <1>6, NatInductionSet
<1> QED BY <1>0, <1>2, <1>7

-----------------------------------------------------------------------------
(* Liveness in terms of the edges. *)

LEMMA ProgramFacts ==
  ASSUME prog \in Programs
  PROVE  /\ prog.succ \in Edges /\ prog.pred \in Edges
         /\ Head(prog.blocks) \in Block /\ Last(prog.blocks) \in Block
         /\ IsFiniteSet(Block)
         /\ \A b, c \in Block : c \in ToSet(prog.succ[b]) <=> b \in ToSet(prog.pred[c])
         /\ \A b \in Block : ToSet(prog.succ[b]) \subseteq Block /\ ToSet(prog.pred[b]) \subseteq Block
<1>1. /\ prog \in Program /\ prog.blocks # <<>> /\ ToSet(prog.blocks) = Block
      /\ \A b, c \in Block : c \in ToSet(prog.succ[b]) <=> b \in ToSet(prog.pred[c])
  BY ProgramsAssumption DEF WellFormed
<1>2. prog.blocks \in Seq(Block) /\ prog.succ \in Edges /\ prog.pred \in Edges
  BY <1>1 DEF Program, Edges
<1>3. Head(prog.blocks) \in Block /\ Last(prog.blocks) \in Block
  BY <1>1, <1>2 DEF Last
<1>4. IsFiniteSet(Block)
  <2>1. prog.blocks \in Surjection(1 .. Len(prog.blocks), Block)
    BY <1>1, <1>2 DEF Surjection, ToSet
  <2>2. IsFiniteSet(1 .. Len(prog.blocks))
    BY <1>2, FS_Interval
  <2> QED BY <2>1, <2>2, FS_Surjection
<1>5. \A b \in Block : ToSet(prog.succ[b]) \subseteq Block /\ ToSet(prog.pred[b]) \subseteq Block
  BY <1>2 DEF Edges, ToSet
<1> QED BY <1>1, <1>2, <1>3, <1>4, <1>5

NotWriting(x) == {d \in Block : DefsIn(d, x) = {}}

LEMMA ExposedLive ==
  ASSUME prog \in Programs, NEW b \in Block, NEW x \in Exposed(b)
  PROVE  x \in LiveIn(b)
<1>1. b \in Onward(prog.succ, NotWriting(x), b)
  BY ProgramFacts, OnwardClosed
<1>2. x \in Operand
  BY DEF Exposed
<1> QED BY <1>1, <1>2 DEF LiveIn, NotWriting

LEMMA LiveBackwards ==
  ASSUME prog \in Programs, NEW b \in Block, NEW s \in ToSet(prog.succ[b]),
         NEW x \in LiveIn(s), DefsIn(b, x) = {}
  PROVE  x \in LiveIn(b)
<1> DEFINE S == NotWriting(x)
<1>1. s \in Block
  BY ProgramFacts
<1>2. PICK c \in Onward(prog.succ, S, s) : x \in Exposed(c)
  BY DEF LiveIn, NotWriting
<1>3. b \in S
  BY DEF NotWriting
<1> HIDE DEF S
<1>4. /\ Onward(prog.succ, S, b) \in SUBSET Block
      /\ b \in Onward(prog.succ, S, b)
      /\ IsClosed(prog.succ, S, Onward(prog.succ, S, b))
  BY ProgramFacts, OnwardClosed
<1>5. s \in Onward(prog.succ, S, b)
  BY <1>3, <1>4 DEF IsClosed
<1>6. Onward(prog.succ, S, s) \subseteq Onward(prog.succ, S, b)
  BY <1>1, <1>4, <1>5, ProgramFacts, OnwardLeast
<1>7. x \in Operand
  BY DEF LiveIn
<1> QED BY <1>2, <1>6, <1>7 DEF LiveIn, NotWriting, S

LEMMA LiveReachesUse ==
  ASSUME prog \in Programs, NEW b \in Block, NEW x \in LiveIn(b),
         NEW T \in SUBSET Block, b \in T, IsClosed(prog.succ, NotWriting(x), T)
  PROVE  \E c \in T : x \in Exposed(c)
<1>1. PICK c \in Onward(prog.succ, NotWriting(x), b) : x \in Exposed(c)
  BY DEF LiveIn, NotWriting
<1>2. Onward(prog.succ, NotWriting(x), b) \subseteq T
  BY ProgramFacts, OnwardLeast
<1> QED BY <1>1, <1>2

-----------------------------------------------------------------------------
(* The inductive invariant. *)

Seen == {b \in Block : base[b] # Unnumbered}

Types ==
  /\ prog \in Programs
  /\ visited \in SUBSET Block
  /\ base \in [Block -> Nat \cup {Unnumbered}]
  /\ nextNum \in Nat
  /\ todo \in Seq(Block)
  /\ inMap \in [Block -> SUBSET Operand]
  /\ outMap \in [Block -> SUBSET Operand]
  /\ sweep \in Seq(Block)
  /\ stage \in {"number", "flow", "done"}

(* While blocks are numbered, every edge from a numbered block leads to    *)
(* one or to a call that is still to be made.                              *)
Numbering ==
  stage = "number" =>
    /\ visited = Seen
    /\ Head(prog.blocks) \in Seen \cup ToSet(todo)
    /\ \A b \in Seen : ToSet(prog.succ[b]) \subseteq Seen \cup ToSet(todo)
    /\ \A b \in Block : inMap[b] = {} /\ outMap[b] = {}

Numbered ==
  stage # "number" =>
    Head(prog.blocks) \in Seen /\ \A b \in Seen : ToSet(prog.succ[b]) \subseteq Seen

(* The computed sets never hold more than what is live. *)
Below == \A b \in Seen : inMap[b] \subseteq LiveIn(b) /\ outMap[b] \subseteq LiveOut(b)

(* The sweep has visited or queued the return and the predecessors of what *)
(* it has visited.                                                         *)
Sweeping ==
  stage = "flow" =>
    /\ Last(prog.blocks) \in visited \cup ToSet(sweep)
    /\ \A b \in visited : ToSet(prog.pred[b]) \subseteq visited \cup ToSet(sweep)

(* The data-flow equations of block b. *)
Solved(b) ==
  /\ outMap[b] = UNION {inMap[s] : s \in ToSet(prog.succ[b])}
  /\ inMap[b] = UseOf(b) \cup (outMap[b] \ DefOf(b))

Stable == stage = "flow" /\ ~changed => \A b \in visited : Solved(b)

Settled == stage = "done" => \A b \in Block : Solved(b)

IInv == Types /\ Numbering /\ Numbered /\ Below /\ Sweeping /\ Stable /\ Settled

-----------------------------------------------------------------------------
LEMMA HeadTail ==
  ASSUME NEW T, NEW s \in Seq(T), s # <<>>
  PROVE  /\ Head(s) \in T /\ Tail(s) \in Seq(T)
         /\ ToSet(s) = {Head(s)} \cup ToSet(Tail(s))
<1>1. Len(s) \in Nat /\ Len(s) > 0 /\ Len(Tail(s)) = Len(s) - 1 /\ Tail(s) \in Seq(T)
  OBVIOUS
<1>2. Head(s) = s[1] /\ \A i \in 1 .. Len(Tail(s)) : Tail(s)[i] = s[i + 1]
  OBVIOUS
<1>3. ASSUME NEW y \in ToSet(s) PROVE y = Head(s) \/ y \in ToSet(Tail(s))
  <2>1. PICK i \in 1 .. Len(s) : y = s[i]
    BY DEF ToSet
  <2>2. CASE i # 1
    <3>1. i - 1 \in 1 .. Len(Tail(s)) /\ Tail(s)[i - 1] = s[i]
      BY <1>1, <1>2, <2>2
    <3>2. i - 1 \in DOMAIN Tail(s)
      BY <1>1, <3>1
    <3>3. Tail(s)[i - 1] \in ToSet(Tail(s))
      BY <3>2, Zenon DEF ToSet
    <3> QED BY <2>1, <3>1, <3>3
  <2> QED BY <1>2, <2>1, <2>2
<1>4. ASSUME NEW y \in ToSet(Tail(s)) PROVE y \in ToSet(s)
  <2>1. PICK i \in 1 .. Len(Tail(s)) : y = Tail(s)[i]
    BY DEF ToSet
  <2>2. i + 1 \in 1 .. Len(s) /\ y = s[i + 1]
    BY <1>1, <1>2, <2>1
  <2> QED BY <2>2 DEF ToSet
<1>5. Head(s) \in ToSet(s)
  BY <1>1, <1>2 DEF ToSet
<1> QED BY <1>3, <1>4, <1>5

LEMMA ConcatSet ==
  ASSUME NEW T, NEW s \in Seq(T), NEW t \in Seq(T)
  PROVE  s \o t \in Seq(T) /\ ToSet(s \o t) = ToSet(s) \cup ToSet(t)
<1>1. /\ s \o t \in Seq(T)
      /\ Len(s) \in Nat /\ Len(t) \in Nat /\ Len(s \o t) = Len(s) + Len(t)
      /\ \A i \in 1 .. Len(s) : (s \o t)[i] = s[i]
      /\ \A i \in 1 .. Len(t) : (s \o t)[Len(s) + i] = t[i]
  OBVIOUS
<1>2. ASSUME NEW y \in ToSet(s \o t) PROVE y \in ToSet(s) \cup ToSet(t)
  <2>1. PICK i \in 1 .. Len(s \o t) : y = (s \o t)[i]
    BY DEF ToSet
  <2>2. CASE i <= Len(s)
    BY <1>1, <2>1, <2>2 DEF ToSet
  <2>3. CASE i > Len(s)
    <3>1. i - Len(s) \in 1 .. Len(t) /\ Len(s) + (i - Len(s)) = i
      BY <1>1, <2>3
    <3>2. y = t[i - Len(s)]
      BY <1>1, <2>1, <3>1
    <3> QED BY <3>1, <3>2 DEF ToSet
  <2> QED BY <1>1, <2>2, <2>3
<1>3. ASSUME NEW y \in ToSet(s) PROVE y \in ToSet(s \o t)
  <2>1. PICK i \in 1 .. Len(s) : y = s[i]
    BY DEF ToSet
  <2>2. i \in 1 .. Len(s \o t)
    BY <1>1
  <2> QED BY <1>1, <2>1, <2>2 DEF ToSet
<1>4. ASSUME NEW y \in ToSet(t) PROVE y \in ToSet(s \o t)
  <2>1. PICK i \in 1 .. Len(t) : y = t[i]
    BY DEF ToSet
  <2>2. Len(s) + i \in 1 .. Len(s \o t)
    BY <1>1
  <2>3. (s \o t)[Len(s) + i] = y
    BY <1>1, <2>1
  <2> QED BY <2>2, <2>3 DEF ToSet
<1> QED BY <1>1, <1>2, <1>3, <1>4

LEMMA InitIInv == Init => IInv
<1> SUFFICES ASSUME Init PROVE IInv
  OBVIOUS
<1>1. prog \in Programs /\ todo = <<Head(prog.blocks)>> /\ stage = "number"
  BY DEF Init
<1>2. Head(prog.blocks) \in Block
  BY <1>1, ProgramFacts
<1>3. Types
  BY <1>1, <1>2 DEF Init, Types, Unnumbered
<1>4. Seen = {}
  BY DEF Init, Seen
<1>5. Head(prog.blocks) \in ToSet(todo)
  BY <1>1 DEF ToSet
<1> QED BY <1>1, <1>3, <1>4, <1>5 DEF Init, IInv, Numbering, Numbered, Below, Sweeping, Stable, Settled

(* A step that keeps the function and the numbering keeps what is live. *)
LEMMA SameMeaning ==
  ASSUME prog' = prog
  PROVE  /\ \A b : LiveIn(b)' = LiveIn(b) /\ LiveOut(b)' = LiveOut(b)
         /\ \A b : Exposed(b)' = Exposed(b)
<1>1. \A b : Exposed(b)' = Exposed(b)
  BY DEF Exposed, Code, UseAt, DefAt
<1>2. \A b, x : DefsIn(b, x)' = DefsIn(b, x)
  BY DEF DefsIn, Code, DefAt
<1>3. \A b : LiveIn(b)' = LiveIn(b)
  BY <1>1, <1>2 DEF LiveIn
<1>4. \A b : LiveOut(b)' = LiveOut(b)
  BY <1>3 DEF LiveOut
<1> QED BY <1>1, <1>3, <1>4

LEMMA SameNumbers ==
  ASSUME prog' = prog, base' = base
  PROVE  /\ Seen' = Seen
         /\ \A b : UseOf(b)' = UseOf(b) /\ DefOf(b)' = DefOf(b)
<1> QED BY DEF Seen, UseOf, DefOf, Code, UseAt, DefAt

LEMMA UsesOfSeen ==
  ASSUME NEW b \in Seen
  PROVE  /\ UseOf(b) = Exposed(b)
         /\ \A x \in Operand : x \in DefOf(b) <=> DefsIn(b, x) # {}
<1> QED BY DEF Seen, UseOf, Exposed, DefOf, DefsIn

(* What one block of a sweep computes stays below what is live. *)
LEMMA SweepBelow ==
  ASSUME IInv, stage # "number", NEW b \in Seen,
         NEW out, out = UNION {inMap[s] : s \in ToSet(prog.succ[b])}
  PROVE  out \subseteq LiveOut(b) /\ UseOf(b) \cup (out \ DefOf(b)) \subseteq LiveIn(b)
<1>1. prog \in Programs /\ b \in Block
  BY DEF IInv, Types, Seen
<1>2. \A s \in ToSet(prog.succ[b]) : inMap[s] \subseteq LiveIn(s)
  BY DEF IInv, Numbered, Below
<1>3. out \subseteq LiveOut(b)
  BY <1>2 DEF LiveOut
<1>4. ASSUME NEW x \in out \ DefOf(b) PROVE x \in LiveIn(b)
  <2>1. PICK s \in ToSet(prog.succ[b]) : x \in LiveIn(s)
    BY <1>2
  <2>2. x \in Operand
    BY <2>1 DEF LiveIn
  <2>3. DefsIn(b, x) = {}
    BY <2>2, UsesOfSeen
  <2> QED BY <1>1, <2>1, <2>3, LiveBackwards
<1>5. UseOf(b) \subseteq LiveIn(b)
  BY <1>1, UsesOfSeen, ExposedLive
<1> QED BY <1>3, <1>4, <1>5

(* The blocks that lead to the return are all blocks. *)
LEMMA AllVisited ==
  ASSUME IInv, stage = "flow", sweep = <<>>
  PROVE  visited = Block
<1>1. prog \in Programs /\ visited \in SUBSET Block
  BY DEF IInv, Types
<1>2. ToSet(sweep) = {}
  BY DEF ToSet
<1>3. Last(prog.blocks) \in visited /\ \A b \in visited : ToSet(prog.pred[b]) \subseteq visited
  BY <1>2 DEF IInv, Sweeping
<1>4. IsClosed(prog.pred, Block, visited)
  BY <1>3 DEF IsClosed
<1>5. Onward(prog.pred, Block, Last(prog.blocks)) \subseteq visited
  BY <1>1, <1>3, <1>4, ProgramFacts, OnwardLeast
<1> QED BY <1>1, <1>5, ProgramsAssumption DEF Returns

-----------------------------------------------------------------------------
LEMMA NumberBlockStep == IInv /\ NumberBlock => IInv'
<1> SUFFICES ASSUME IInv, NumberBlock PROVE IInv'
  OBVIOUS
<1> DEFINE b == Head(todo)
<1>1. /\ stage = "number" /\ todo # <<>> /\ stage' = "number" /\ prog' = prog
      /\ inMap' = inMap /\ outMap' = outMap /\ sweep' = sweep
  BY DEF NumberBlock
<1>2. /\ Types
      /\ visited = Seen
      /\ Head(prog.blocks) \in Seen \cup ToSet(todo)
      /\ \A c \in Seen : ToSet(prog.succ[c]) \subseteq Seen \cup ToSet(todo)
      /\ \A c \in Block : inMap[c] = {} /\ outMap[c] = {}
  BY <1>1 DEF IInv, Numbering
<1>3. /\ b \in Block /\ Tail(todo) \in Seq(Block)
      /\ ToSet(todo) = {b} \cup ToSet(Tail(todo))
  BY <1>1, <1>2, HeadTail DEF Types
<1>4. CASE b \in visited
  <2>1. /\ todo' = Tail(todo) /\ visited' = visited /\ base' = base /\ nextNum' = nextNum
    BY <1>4 DEF NumberBlock
  <2>2. Seen' = Seen
    BY <1>1, <2>1, SameNumbers
  <2>3. ToSet(todo') \cup Seen = ToSet(todo) \cup Seen
    BY <1>2, <1>3, <1>4, <2>1
  <2>4. Types'
    BY <1>1, <1>2, <1>3, <2>1 DEF Types
  <2>5. ToSet(todo)' = ToSet(todo')
    BY DEF ToSet
  <2>6. Numbering'
    BY <1>1, <1>2, <2>1, <2>2, <2>3, <2>5 DEF Numbering
  <2>7. Below'
    <3> SUFFICES ASSUME NEW c \in Seen' PROVE (inMap[c] \subseteq LiveIn(c) /\ outMap[c] \subseteq LiveOut(c))'
      BY DEF Below
    <3>1. c \in Block
      BY <2>2 DEF Seen
    <3> QED BY <1>1, <1>2, <3>1
  <2> QED BY <1>1, <2>4, <2>6, <2>7 DEF IInv, Numbered, Sweeping, Stable, Settled
<1>5. CASE b \notin visited
  <2>1. /\ visited' = visited \cup {b} /\ base' = [base EXCEPT ![b] = nextNum]
        /\ nextNum' = nextNum + Len(Code(b)) /\ todo' = prog.succ[b] \o Tail(todo)
    BY <1>5 DEF NumberBlock, NumberedUpTo
  <2>2. prog.succ[b] \in Seq(Block) /\ ToSet(prog.succ[b]) \subseteq Block
    BY <1>2, <1>3, ProgramFacts DEF Types, Edges
  <2>3. todo' \in Seq(Block) /\ ToSet(todo') = ToSet(prog.succ[b]) \cup ToSet(Tail(todo))
    <3>1. \A s, t \in Seq(Block) :
            s \o t \in Seq(Block) /\ ToSet(s \o t) = ToSet(s) \cup ToSet(t)
      BY ConcatSet
    <3>2. /\ prog.succ[b] \o Tail(todo) \in Seq(Block)
          /\ ToSet(prog.succ[b] \o Tail(todo)) = ToSet(prog.succ[b]) \cup ToSet(Tail(todo))
      BY Zenon, <1>3, <2>2, <3>1
    <3> QED BY Zenon, <2>1, <3>2
  <2>4. Len(Code(b)) \in Nat
    <3>1. prog \in Program
      BY <1>2, ProgramsAssumption DEF Types, WellFormed
    <3>2. Code(b) \in Seq(Instruction)
      BY <1>3, <3>1 DEF Code, Program
    <3> QED BY <3>2
  <2>5. base' \in [Block -> Nat \cup {Unnumbered}] /\ nextNum' \in Nat
    BY <1>2, <1>3, <2>1, <2>4 DEF Types
  <2>6. Types'
    BY <1>1, <1>2, <1>3, <2>1, <2>3, <2>5 DEF Types
  <2>7. Seen' = Seen \cup {b}
    <3>1. nextNum # Unnumbered
      BY <1>2 DEF Types, Unnumbered
    <3> QED BY <1>2, <1>3, <2>1, <3>1 DEF Seen, Types
  <2>8. ToSet(todo)' = ToSet(todo')
    BY DEF ToSet
  <2>9. Numbering'
    <3>1. Seen' \cup ToSet(todo') = Seen \cup ToSet(todo) \cup ToSet(prog.succ[b])
      BY <1>3, <2>3, <2>7
    <3> QED BY <1>1, <1>2, <2>1, <2>7, <2>8, <3>1 DEF Numbering
  <2>10. Below'
    <3> SUFFICES ASSUME NEW c \in Seen' PROVE (inMap[c] \subseteq LiveIn(c) /\ outMap[c] \subseteq LiveOut(c))'
      BY DEF Below
    <3>1. c \in Block
      BY <1>3, <2>7 DEF Seen
    <3> QED BY <1>1, <1>2, <3>1
  <2> QED BY <1>1, <2>6, <2>9, <2>10 DEF IInv, Numbered, Sweeping, Stable, Settled
<1> QED BY <1>4, <1>5

LEMMA StartSweepStep == IInv /\ StartSweep => IInv'
<1> SUFFICES ASSUME IInv, StartSweep PROVE IInv'
  OBVIOUS
<1>1. /\ stage' = "flow" /\ changed' = FALSE /\ visited' = {}
      /\ sweep' = <<Last(prog.blocks)>>
      /\ prog' = prog /\ base' = base /\ nextNum' = nextNum /\ todo' = todo
      /\ inMap' = inMap /\ outMap' = outMap
  BY DEF StartSweep
<1>2. Types
  BY DEF IInv
<1>3. Last(prog.blocks) \in Block
  BY <1>2, ProgramFacts DEF Types
<1>4. Types'
  BY <1>1, <1>2, <1>3 DEF Types
<1>5. Seen' = Seen
  BY <1>1, SameNumbers
<1>6. Numbered'
  <2>1. CASE stage = "number"
    <3>1. ToSet(todo) = {}
      BY <2>1 DEF StartSweep, ToSet
    <3> QED BY <1>1, <1>5, <2>1, <3>1 DEF IInv, Numbering, Numbered
  <2>2. CASE stage # "number"
    BY <1>1, <1>5, <2>2 DEF IInv, Numbered
  <2> QED BY <2>1, <2>2
<1>7. Below'
  BY <1>1, <1>5, SameMeaning DEF IInv, Below
<1>8. Sweeping'
  <2>1. Last(prog.blocks) \in ToSet(<<Last(prog.blocks)>>)
    BY DEF ToSet
  <2>2. ToSet(sweep)' = ToSet(<<Last(prog.blocks)>>)
    BY <1>1 DEF ToSet
  <2> QED BY <1>1, <2>1, <2>2 DEF Sweeping
<1> QED BY <1>1, <1>4, <1>6, <1>7, <1>8 DEF IInv, Numbering, Stable, Settled

LEMMA SweepBlockStep == IInv /\ SweepBlock => IInv'
<1> SUFFICES ASSUME IInv, SweepBlock PROVE IInv'
  OBVIOUS
<1> DEFINE b == Head(sweep)
           out == UNION {inMap[s] : s \in ToSet(prog.succ[b])}
           in == UseOf(b) \cup (out \ DefOf(b))
<1>1. /\ stage = "flow" /\ sweep # <<>> /\ stage' = "flow"
      /\ prog' = prog /\ base' = base /\ nextNum' = nextNum /\ todo' = todo
  BY DEF SweepBlock
<1>2. Types /\ Sweeping /\ Stable /\ Below /\ Numbered
  BY DEF IInv
<1>3. /\ b \in Block /\ Tail(sweep) \in Seq(Block)
      /\ ToSet(sweep) = {b} \cup ToSet(Tail(sweep))
  BY <1>1, <1>2, HeadTail DEF Types
<1>4. Seen' = Seen
  BY <1>1, SameNumbers
<1>5. Numbered'
  BY <1>1, <1>2, <1>4 DEF Numbered
<1>6. CASE b \in visited
  <2>1. /\ sweep' = Tail(sweep) /\ visited' = visited
        /\ inMap' = inMap /\ outMap' = outMap /\ changed' = changed
    BY <1>6 DEF SweepBlock
  <2>2. Types'
    BY <1>1, <1>2, <1>3, <2>1 DEF Types
  <2>3. Below'
    BY <1>1, <1>2, <1>4, <2>1, SameMeaning DEF Below
  <2>4. Sweeping'
    <3>1. visited \cup ToSet(sweep') = visited \cup ToSet(sweep)
      BY <1>3, <1>6, <2>1
    <3>2. ToSet(sweep)' = ToSet(sweep')
      BY DEF ToSet
    <3> QED BY <1>1, <1>2, <2>1, <3>1, <3>2 DEF Sweeping
  <2>5. Stable'
    BY <1>1, <1>2, <2>1, SameNumbers DEF Stable, Solved
  <2> QED BY <1>1, <1>5, <2>2, <2>3, <2>4, <2>5 DEF IInv, Numbering, Settled
<1>7. CASE b \notin visited
  <2>1. /\ visited' = visited \cup {b} /\ sweep' = Tail(sweep) \o prog.pred[b]
        /\ inMap' = [inMap EXCEPT ![b] = in] /\ outMap' = [outMap EXCEPT ![b] = out]
        /\ changed' = (changed \/ in # inMap[b] \/ out # outMap[b])
    BY <1>7 DEF SweepBlock
  <2>2. prog.pred[b] \in Seq(Block)
    BY <1>2, <1>3, ProgramFacts DEF Types, Edges
  <2>3. sweep' \in Seq(Block) /\ ToSet(sweep') = ToSet(Tail(sweep)) \cup ToSet(prog.pred[b])
    <3>1. /\ Tail(sweep) \o prog.pred[b] \in Seq(Block)
          /\ ToSet(Tail(sweep) \o prog.pred[b]) = ToSet(Tail(sweep)) \cup ToSet(prog.pred[b])
      <4>1. \A s, t \in Seq(Block) : s \o t \in Seq(Block) /\ ToSet(s \o t) = ToSet(s) \cup ToSet(t)
        BY ConcatSet
      <4> QED BY <1>3, <2>2, <4>1, Zenon
    <3> HIDE DEF in, out, b
    <3> QED BY <2>1, <3>1
  <2>4. out \in SUBSET Operand /\ in \in SUBSET Operand
    <3>1. ToSet(prog.succ[b]) \subseteq Block
      BY <1>2, <1>3, ProgramFacts DEF Types
    <3>2. UseOf(b) \in SUBSET Operand
      BY DEF UseOf
    <3> QED BY <1>2, <3>1, <3>2 DEF Types
  <2>5. Types'
    <3> HIDE DEF in, out, b
    <3> QED BY <1>1, <1>2, <1>3, <2>1, <2>3, <2>4 DEF Types
  <2>6. \A c \in Block : /\ inMap'[c] = IF c = b THEN in ELSE inMap[c]
                         /\ outMap'[c] = IF c = b THEN out ELSE outMap[c]
    <3> HIDE DEF in, out, b
    <3> QED BY <1>2, <2>1 DEF Types
  <2>7. b \in Seen => out \subseteq LiveOut(b) /\ in \subseteq LiveIn(b)
    BY <1>1, SweepBelow
  <2>8. Below'
    <3> SUFFICES ASSUME NEW c \in Seen
                 PROVE  inMap'[c] \subseteq LiveIn(c)' /\ outMap'[c] \subseteq LiveOut(c)'
      BY <1>4 DEF Below
    <3>1. LiveIn(c)' = LiveIn(c) /\ LiveOut(c)' = LiveOut(c)
      BY <1>1, SameMeaning
    <3>2. c \in Block /\ inMap[c] \subseteq LiveIn(c) /\ outMap[c] \subseteq LiveOut(c)
      BY <1>2 DEF Below, Seen
    <3> HIDE DEF in, out, b
    <3> QED BY <2>6, <2>7, <3>1, <3>2
  <2>9. Sweeping'
    <3>1. visited' \cup ToSet(sweep') = visited \cup ToSet(sweep) \cup ToSet(prog.pred[b])
      BY <1>3, <2>1, <2>3
    <3>2. ToSet(sweep)' = ToSet(sweep')
      BY DEF ToSet
    <3> HIDE DEF in, out, b
    <3> QED BY <1>1, <1>2, <2>1, <3>1, <3>2 DEF Sweeping
  <2>10. Stable'
    <3> SUFFICES ASSUME ~changed', NEW c \in visited' PROVE Solved(c)'
      BY DEF Stable
    <3>1. ~changed /\ in = inMap[b] /\ out = outMap[b]
      BY <2>1
    <3>2. inMap' = inMap /\ outMap' = outMap
      <4> HIDE DEF in, out, b
      <4> QED BY <1>2, <2>1, <3>1 DEF Types
    <3>3. CASE c = b
      BY <1>1, <3>1, <3>2, <3>3, SameNumbers DEF Solved
    <3>4. CASE c # b
      <4>1. Solved(c)
        <5> HIDE DEF in, out, b
        <5> QED BY <1>1, <1>2, <2>1, <3>1, <3>4 DEF Stable
      <4> QED BY <1>1, <3>2, <4>1, SameNumbers DEF Solved
    <3> QED BY <3>3, <3>4
  <2> QED BY <1>1, <1>5, <2>5, <2>8, <2>9, <2>10 DEF IInv, Numbering, Settled
<1> QED BY <1>6, <1>7

LEMMA ComputeRangesStep == IInv /\ ComputeRanges => IInv'
<1> SUFFICES ASSUME IInv, ComputeRanges PROVE IInv'
  OBVIOUS
<1>1. /\ stage = "flow" /\ sweep = <<>> /\ ~changed /\ stage' = "done"
      /\ prog' = prog /\ visited' = visited /\ base' = base /\ nextNum' = nextNum
      /\ todo' = todo /\ inMap' = inMap /\ outMap' = outMap /\ sweep' = sweep
  BY DEF ComputeRanges
<1>2. Types'
  BY <1>1 DEF IInv, Types
<1>3. Seen' = Seen
  BY <1>1, SameNumbers
<1>4. Numbered' /\ Below'
  BY <1>1, <1>3, SameMeaning DEF IInv, Numbered, Below
<1>5. Settled'
  <2>1. \A b \in Block : Solved(b)
    BY <1>1, AllVisited DEF IInv, Stable
  <2> QED BY <1>1, <2>1, SameNumbers DEF Settled, Solved
<1> QED BY <1>1, <1>2, <1>4, <1>5 DEF IInv, Numbering, Sweeping, Stable

LEMMA StutterStep == IInv /\ UNCHANGED vars => IInv'
<1> SUFFICES ASSUME IInv, UNCHANGED vars PROVE IInv'
  OBVIOUS
<1>1. /\ prog' = prog /\ visited' = visited /\ base' = base /\ nextNum' = nextNum
      /\ todo' = todo /\ inMap' = inMap /\ outMap' = outMap /\ changed' = changed
      /\ sweep' = sweep /\ stage' = stage
  BY DEF vars
<1>2. Seen' = Seen
  BY <1>1, SameNumbers
<1>3. Types' /\ Numbering'
  BY <1>1, <1>2 DEF IInv, Types, Numbering, ToSet
<1>4. Numbered' /\ Sweeping'
  BY <1>1, <1>2 DEF IInv, Numbered, Sweeping, ToSet
<1>5. Below'
  BY <1>1, <1>2, SameMeaning DEF IInv, Below
<1>6. Stable' /\ Settled'
  BY <1>1, SameNumbers DEF IInv, Stable, Settled, Solved
<1> QED BY <1>3, <1>4, <1>5, <1>6 DEF IInv

-----------------------------------------------------------------------------
(* The invariant holds in every state of the analysis of every function.   *)
THEOREM SweepsInvariant == Spec => []IInv
<1>1. IInv /\ [Next]_vars => IInv'
  BY NumberBlockStep, StartSweepStep, SweepBlockStep, ComputeRangesStep, StutterStep
     DEF Next, Finished
<1> QED BY InitIInv, <1>1, PTL DEF Spec

(* Once no set changes any more, nothing that is live is missing: along a  *)
(* path to a read, the read pulls the operand into every set before it.    *)
LEMMA NothingMissed ==
  ASSUME IInv, stage # "number", \A d \in Block : Solved(d), NEW b \in Seen
  PROVE  LiveIn(b) \subseteq inMap[b]
<1> SUFFICES ASSUME NEW x \in LiveIn(b), x \notin inMap[b] PROVE FALSE
  OBVIOUS
<1> DEFINE T == {d \in Seen : x \notin inMap[d]}
<1>1. prog \in Programs /\ x \in Operand /\ T \in SUBSET Block /\ b \in T
  BY DEF IInv, Types, LiveIn, Seen
<1>2. \A d \in Seen : ToSet(prog.succ[d]) \subseteq Seen /\ Solved(d)
  BY DEF IInv, Numbered, Seen
<1>3. ASSUME NEW d \in T \cap NotWriting(x), NEW s \in ToSet(prog.succ[d]) PROVE s \in T
  <2>1. d \in Seen /\ x \notin inMap[d] /\ DefsIn(d, x) = {}
    BY DEF NotWriting
  <2>2. s \in Seen /\ x \notin DefOf(d)
    BY <1>1, <1>2, <2>1, UsesOfSeen
  <2>3. x \notin outMap[d]
    BY <1>2, <2>1, <2>2 DEF Solved
  <2> QED BY <1>2, <2>1, <2>2, <2>3 DEF Solved
<1>4. IsClosed(prog.succ, NotWriting(x), T)
  <2> HIDE DEF T
  <2> QED BY <1>3 DEF IsClosed
<1>5. b \in Block
  BY DEF Seen
<1>6. PICK c \in T : x \in Exposed(c)
  <2> HIDE DEF T
  <2> QED BY <1>1, <1>4, <1>5, LiveReachesUse
<1>7. c \in Seen /\ x \in UseOf(c)
  BY <1>6, UsesOfSeen
<1> QED BY <1>2, <1>6, <1>7 DEF Solved

LEMMA SolvedExact ==
  ASSUME IInv, stage # "number", \A d \in Block : Solved(d), NEW b \in Seen
  PROVE  inMap[b] = LiveIn(b) /\ outMap[b] = LiveOut(b)
<1>1. inMap[b] \subseteq LiveIn(b) /\ outMap[b] \subseteq LiveOut(b)
  BY DEF IInv, Below
<1>2. \A s \in {b} \cup ToSet(prog.succ[b]) : LiveIn(s) \subseteq inMap[s]
  BY NothingMissed DEF IInv, Numbered
<1>3. outMap[b] = UNION {inMap[s] : s \in ToSet(prog.succ[b])}
  BY DEF Solved, Seen
<1>4. LiveOut(b) \subseteq outMap[b]
  BY <1>2, <1>3 DEF LiveOut
<1> QED BY <1>1, <1>2, <1>4

(* Before the ranges are computed the sets are right. *)
LEMMA AllExact ==
  ASSUME IInv, stage = "flow", sweep = <<>>, ~changed, NEW b \in Seen
  PROVE  inMap[b] = LiveIn(b) /\ outMap[b] = LiveOut(b)
<1>1. \A d \in Block : Solved(d)
  BY AllVisited DEF IInv, Stable
<1> QED BY <1>1, SolvedExact

LEMMA ReachableSeen ==
  ASSUME IInv, stage # "number"
  PROVE  Reachable \subseteq Seen
<1>1. Head(prog.blocks) \in Seen /\ IsClosed(prog.succ, Block, Seen) /\ Seen \in SUBSET Block
  BY DEF IInv, Numbered, IsClosed, Seen
<1> QED BY <1>1, ProgramFacts, OnwardLeast DEF Reachable, IInv, Types

(* In every function, however its blocks are connected, the sets of the    *)
(* blocks that can be reached never exceed liveness while the sweeps run,  *)
(* and equal it when the analysis stops.                                   *)
THEOREM SweepsComputeLiveness == Spec => []FlowExact
<1>1. IInv => FlowExact
  <2> SUFFICES ASSUME IInv, NEW b \in Reachable
               PROVE  /\ inMap[b] \subseteq LiveIn(b)
                      /\ outMap[b] \subseteq LiveOut(b)
                      /\ stage = "done" => inMap[b] = LiveIn(b) /\ outMap[b] = LiveOut(b)
    BY DEF FlowExact
  <2>1. CASE stage = "number"
    <3>1. b \in Block
      BY ProgramFacts, OnwardClosed DEF Reachable, IInv, Types
    <3> QED BY <2>1, <3>1 DEF IInv, Numbering
  <2>2. CASE stage # "number"
    <3>1. b \in Seen
      BY <2>2, ReachableSeen
    <3>2. inMap[b] \subseteq LiveIn(b) /\ outMap[b] \subseteq LiveOut(b)
      BY <3>1 DEF IInv, Below
    <3>3. stage = "done" => inMap[b] = LiveIn(b) /\ outMap[b] = LiveOut(b)
      BY <3>1, SolvedExact DEF IInv, Settled
    <3> QED BY <3>2, <3>3
  <2> QED BY <2>1, <2>2
<1> QED BY <1>1, SweepsInvariant, PTL

-----------------------------------------------------------------------------
(* Sorting. *)

Enumerates(s, T) ==
  /\ s \in [1 .. Cardinality(T) -> T]
  /\ ToSet(s) = T
  /\ \A j, k \in DOMAIN s : j < k => s[j].begin <= s[k].begin

Sortable(T) == \E s : Enumerates(s, T)

LEMMA WithoutOne ==
  ASSUME NEW T, IsFiniteSet(T), NEW m \in T
  PROVE  Cardinality(T \ {m}) \in Nat /\ Cardinality(T) = Cardinality(T \ {m}) + 1
<1>1. IsFiniteSet(T \ {m}) /\ Cardinality(T \ {m}) = Cardinality(T) - 1
  BY FS_RemoveElement
<1>2. Cardinality(T) \in Nat /\ Cardinality(T \ {m}) \in Nat
  BY <1>1, FS_CardinalityType
<1> QED BY <1>1, <1>2

LEMMA SortedWithFirst ==
  ASSUME NEW T, IsFiniteSet(T), \A r \in T : r.begin \in Nat, T # {},
         \A m \in T : Sortable(T \ {m})
  PROVE  Sortable(T)
<1> DEFINE Begins == {r.begin : r \in T}
<1>1. PICK b \in Begins : \A c \in Begins : b <= c
  <2>1. Begins \in SUBSET Nat /\ Begins # {}
    OBVIOUS
  <2> HIDE DEF Begins
  <2> QED BY <2>1, LeastNat
<1>2. PICK m \in T : \A r \in T : m.begin <= r.begin
  BY <1>1
<1>3. PICK t : Enumerates(t, T \ {m})
  BY DEF Sortable
<1> DEFINE n == Cardinality(T \ {m})
           s == [i \in 1 .. n + 1 |-> IF i = 1 THEN m ELSE t[i - 1]]
<1>4. n \in Nat /\ Cardinality(T) = n + 1
  BY WithoutOne
<1> HIDE DEF n
<1>5. t \in [1 .. n -> T \ {m}] /\ DOMAIN t = 1 .. n
  BY <1>3 DEF Enumerates, n
<1>6. \A i \in 2 .. n + 1 : i - 1 \in 1 .. n
  BY <1>4
<1>7. s \in [1 .. n + 1 -> T]
  BY <1>4, <1>5, <1>6
<1>8. DOMAIN s = 1 .. n + 1 /\ s[1] = m /\ \A i \in 2 .. n + 1 : s[i] = t[i - 1]
  BY <1>4
<1> HIDE DEF s
<1>9. ToSet(s) = T
  <2>1. ASSUME NEW r \in T PROVE r \in ToSet(s)
    <3>1. CASE r = m
      BY <1>4, <1>8, <3>1 DEF ToSet
    <3>2. CASE r # m
      <4>1. PICK i \in 1 .. n : r = t[i]
        BY <1>3, <1>5, <3>2 DEF Enumerates, ToSet
      <4>2. i + 1 \in 2 .. n + 1 /\ i + 1 \in 1 .. n + 1 /\ i + 1 - 1 = i
        BY <1>4
      <4>3. s[i + 1] = r
        BY <1>8, <4>1, <4>2
      <4> QED BY <1>8, <4>2, <4>3 DEF ToSet
    <3> QED BY <3>1, <3>2
  <2>2. ToSet(s) \subseteq T
    BY <1>7, <1>8 DEF ToSet
  <2> QED BY <2>1, <2>2
<1>10. ASSUME NEW j \in DOMAIN s, NEW k \in DOMAIN s, j < k PROVE s[j].begin <= s[k].begin
  <2>1. k \in 2 .. n + 1 /\ s[k] \in T
    BY <1>4, <1>7, <1>8, <1>10
  <2>2. CASE j = 1
    BY <1>2, <1>8, <2>1, <2>2
  <2>3. CASE j # 1
    <3>1. j \in 2 .. n + 1
      BY <1>4, <1>8, <2>3
    <3>2. j - 1 \in DOMAIN t /\ k - 1 \in DOMAIN t /\ j - 1 < k - 1
      BY <1>4, <1>5, <1>6, <1>10, <2>1, <3>1
    <3>3. t[j - 1].begin <= t[k - 1].begin
      BY <1>3, <3>2 DEF Enumerates
    <3> QED BY <1>8, <2>1, <3>1, <3>3
  <2> QED BY <2>2, <2>3
<1>11. Enumerates(s, T)
  BY <1>4, <1>7, <1>9, <1>10 DEF Enumerates
<1> QED BY <1>11 DEF Sortable

LEMMA FiniteSortable ==
  ASSUME NEW S, IsFiniteSet(S), \A r \in S : r.begin \in Nat
  PROVE  Sortable(S)
<1> DEFINE Good == {n \in Nat : \A T \in SUBSET S : Cardinality(T) = n => Sortable(T)}
<1>1. 0 \in Good
  <2> SUFFICES ASSUME NEW T \in SUBSET S, Cardinality(T) = 0 PROVE Sortable(T)
    OBVIOUS
  <2>1. T = {}
    BY FS_Subset, FS_EmptySet
  <2>2. Enumerates(<<>>, T)
    <3>1. 1 .. Cardinality(T) = {} /\ DOMAIN <<>> = {}
      OBVIOUS
    <3>2. ToSet(<<>>) = {}
      BY DEF ToSet
    <3>3. <<>> \in [{} -> T]
      OBVIOUS
    <3> QED BY <2>1, <3>1, <3>2, <3>3 DEF Enumerates
  <2> QED BY <2>2 DEF Sortable
<1>2. \A n \in Nat : n \in Good => n + 1 \in Good
  <2> SUFFICES ASSUME NEW n \in Nat, n \in Good,
                      NEW T \in SUBSET S, Cardinality(T) = n + 1
               PROVE  Sortable(T)
    OBVIOUS
  <2>1. IsFiniteSet(T)
    BY FS_Subset
  <2>2. T # {}
    BY FS_EmptySet
  <2>3. ASSUME NEW m \in T PROVE Sortable(T \ {m})
    <3>1. Cardinality(T \ {m}) = n
      BY <2>1, WithoutOne
    <3> QED BY <3>1
  <2> HIDE DEF Good
  <2> QED BY <2>1, <2>2, <2>3, SortedWithFirst
<1>3. Good \in SUBSET Nat
  OBVIOUS
<1>4. Good = Nat
  <2> HIDE DEF Good
  <2> QED BY <1>1, <1>2, <1>3, NatInductionSet
<1> QED BY <1>4, FS_CardinalityType

LEMMA SortedHasAll ==
  ASSUME NEW S, IsFiniteSet(S), \A r \in S : r.begin \in Nat
  PROVE  ToSet(SortedByBegin(S)) = S
<1>1. \E s \in [1 .. Cardinality(S) -> S] :
         ToSet(s) = S /\ \A j, k \in DOMAIN s : j < k => s[j].begin <= s[k].begin
  BY FiniteSortable DEF Sortable, Enumerates
<1> QED BY <1>1 DEF SortedByBegin

(* Every nonempty set of numbers up to n has a greatest element. *)
LEMMA GreatestUpTo ==
  ASSUME NEW n \in Nat, NEW T \in SUBSET (0 .. n), T # {}
  PROVE  \E m \in T : \A k \in T : k <= m
<1> DEFINE U == {n - k : k \in T}
<1>1. U \in SUBSET Nat /\ U # {}
  <2>1. \A k \in 0 .. n : n - k \in Nat
    OBVIOUS
  <2> QED BY <2>1
<1>2. PICK u \in U : \A w \in U : u <= w
  <2> HIDE DEF U
  <2> QED BY <1>1, LeastNat
<1>3. PICK m \in T : u = n - m
  OBVIOUS
<1>4. ASSUME NEW k \in T PROVE k <= m
  <2>1. n - k \in U
    OBVIOUS
  <2>2. u <= n - k
    BY <1>2, <2>1
  <2> QED BY <1>3, <2>2
<1> QED BY <1>4

LEMMA MaxUpTo ==
  ASSUME NEW n \in Nat, NEW T \in SUBSET (0 .. n), T # {}
  PROVE  Max(T) \in T /\ \A k \in T : k <= Max(T)
<1>1. \E m \in T : \A k \in T : m >= k
  BY GreatestUpTo
<1> QED BY <1>1 DEF Max

-----------------------------------------------------------------------------
(* The ranges of an operand, in a state where the sets are liveness. *)

LEMMA FiniteUnion ==
  ASSUME NEW I, IsFiniteSet(I), NEW f, DOMAIN f = I, f = [i \in I |-> f[i]],
         \A i \in I : IsFiniteSet(f[i])
  PROVE  IsFiniteSet(UNION {f[i] : i \in I})
<1> DEFINE T == {f[i] : i \in I}
<1>1. f \in Surjection(I, T)
  BY DEF Surjection
<1>2. IsFiniteSet(T) /\ \A S \in T : IsFiniteSet(S)
  <2>1. \A S \in T : IsFiniteSet(S)
    OBVIOUS
  <2> HIDE DEF T
  <2> QED BY <1>1, <2>1, FS_Surjection
<1> HIDE DEF T
<1>3. IsFiniteSet(UNION T)
  BY <1>2, FS_UNION
<1> QED BY <1>3 DEF T

LEMMA CodeFacts ==
  ASSUME Types, NEW b \in Block
  PROVE  /\ Code(b) \in Seq(Instruction)
         /\ Len(Code(b)) \in Nat /\ DOMAIN Code(b) = 1 .. Len(Code(b))
         /\ \A i \in DOMAIN Code(b) : DefAt(b, i) \subseteq Operand /\ UseAt(b, i) \subseteq Operand
         /\ \A x : DefsIn(b, x) \subseteq 1 .. Len(Code(b))
         /\ \A i \in Nat : i > 0 => Number(b, i) \in Nat
         /\ b \in Seen => base[b] \in Nat /\ \A i : Number(b, i) = base[b] + i - 1
<1>1. prog \in Program
  BY ProgramsAssumption DEF Types, WellFormed
<1>2. Code(b) \in Seq(Instruction)
  BY <1>1 DEF Code, Program
<1>3. Len(Code(b)) \in Nat /\ DOMAIN Code(b) = 1 .. Len(Code(b))
  BY <1>2
<1>4. ASSUME NEW i \in DOMAIN Code(b)
      PROVE  DefAt(b, i) \subseteq Operand /\ UseAt(b, i) \subseteq Operand
  <2>1. Code(b)[i] \in Instruction
    BY <1>2
  <2>2. Code(b)[i].def \in Seq(Operand) /\ Code(b)[i].use \in Seq(Operand)
    BY <2>1 DEF Instruction
  <2> QED BY <2>2 DEF DefAt, UseAt, ToSet
<1>5. \A x : DefsIn(b, x) \subseteq 1 .. Len(Code(b))
  BY <1>3 DEF DefsIn
<1>6. base[b] \in Nat \cup {Unnumbered}
  BY DEF Types
<1>7. \A i \in Nat : i > 0 => Number(b, i) \in Nat
  BY <1>6 DEF Number
<1>8. b \in Seen => base[b] \in Nat /\ \A i : Number(b, i) = base[b] + i - 1
  BY <1>6 DEF Seen, Number
<1> QED BY <1>2, <1>3, <1>4, <1>5, <1>7, <1>8

LEMMA RangeSetFinite ==
  ASSUME Types, NEW x \in Operand
  PROVE  IsFiniteSet(RangeSet(x)) /\ \A r \in RangeSet(x) : r.begin \in Nat
<1>1. ASSUME NEW b \in Block PROVE IsFiniteSet(UNION {RangesFrom(b, d, x) : d \in {0} \cup DefsIn(b, x)})
  <2> DEFINE D == {0} \cup DefsIn(b, x)
             f == [d \in D |-> RangesFrom(b, d, x)]
  <2>1. IsFiniteSet(D)
    <3>1. Len(Code(b)) \in Nat /\ DefsIn(b, x) \subseteq 1 .. Len(Code(b))
      BY CodeFacts
    <3>2. IsFiniteSet(0 .. Len(Code(b)))
      BY <3>1, FS_Interval
    <3>3. D \in SUBSET (0 .. Len(Code(b)))
      BY <3>1
    <3> QED BY <3>2, <3>3, FS_Subset
  <2>2. \A d \in D : IsFiniteSet(RangesFrom(b, d, x))
    BY FS_EmptySet, FS_Singleton DEF RangesFrom
  <2> HIDE DEF D
  <2>3. DOMAIN f = D /\ f = [d \in D |-> f[d]] /\ \A d \in D : f[d] = RangesFrom(b, d, x)
    OBVIOUS
  <2> HIDE DEF f
  <2>4. IsFiniteSet(UNION {f[d] : d \in D})
    BY <2>1, <2>2, <2>3, FiniteUnion
  <2>5. {f[d] : d \in D} = {RangesFrom(b, d, x) : d \in D}
    BY <2>3
  <2>6. IsFiniteSet(UNION {RangesFrom(b, d, x) : d \in D})
    BY <2>4, <2>5
  <2> QED BY <2>6 DEF D
<1>2. IsFiniteSet(RangeSet(x))
  <2> DEFINE In(b) == UNION {RangesFrom(b, d, x) : d \in {0} \cup DefsIn(b, x)}
             f == [b \in Block |-> In(b)]
  <2>1. \A b \in Block : IsFiniteSet(In(b))
    BY <1>1
  <2>2. RangeSet(x) = UNION {In(b) : b \in Block}
    BY DEF RangeSet
  <2> HIDE DEF In
  <2>3. DOMAIN f = Block /\ f = [b \in Block |-> f[b]] /\ \A b \in Block : f[b] = In(b)
    OBVIOUS
  <2> HIDE DEF f
  <2>4. IsFiniteSet(Block)
    BY ProgramFacts DEF Types
  <2>5. IsFiniteSet(UNION {f[b] : b \in Block})
    BY <2>1, <2>3, <2>4, FiniteUnion
  <2>6. {f[b] : b \in Block} = {In(b) : b \in Block}
    BY <2>3
  <2> QED BY <2>2, <2>5, <2>6
<1>3. ASSUME NEW r \in RangeSet(x) PROVE r.begin \in Nat
  <2>1. PICK b \in Block : \E d \in {0} \cup DefsIn(b, x) : r \in RangesFrom(b, d, x)
    BY DEF RangeSet
  <2>2. PICK d \in {0} \cup DefsIn(b, x) : r \in RangesFrom(b, d, x)
    BY <2>1
  <2>3. r.begin = Start(b, d)
    BY <2>2 DEF RangesFrom
  <2>4. (IF d = 0 THEN 1 ELSE d) \in Nat /\ (IF d = 0 THEN 1 ELSE d) > 0
    BY <2>2, CodeFacts
  <2> QED BY <2>3, <2>4, CodeFacts DEF Start
<1> QED BY <1>2, <1>3

(* The range of the value of position d, if it has any use. *)
IsRange(r, b, d, x) == r.begin = Start(b, d) /\ r.end = Number(b, Stop(b, d, x))

LEMMA HasRange ==
  ASSUME Types, NEW x \in Operand, NEW b \in Block, NEW d \in {0} \cup DefsIn(b, x),
         d # 0 \/ UsesFrom(b, d, x) # {} \/ LiveToEnd(b, d, x)
  PROVE  \E k \in DOMAIN RangesOf(x) : IsRange(RangesOf(x)[k], b, d, x)
<1>1. PICK r \in RangesFrom(b, d, x) : IsRange(r, b, d, x)
  BY DEF RangesFrom, IsRange
<1>2. r \in RangeSet(x)
  BY DEF RangeSet
<1>3. r \in ToSet(RangesOf(x))
  BY <1>2, RangeSetFinite, SortedHasAll DEF RangesOf
<1> QED BY <1>1, <1>3 DEF ToSet

(* Where a range ends. *)
LEMMA StopFacts ==
  ASSUME Types, NEW x \in Operand, NEW b \in Block, NEW d \in {0} \cup DefsIn(b, x)
  PROVE  /\ Stop(b, d, x) \in d .. Len(Code(b))
         /\ \A i \in UsesFrom(b, d, x) : i <= Stop(b, d, x)
         /\ LiveToEnd(b, d, x) => Stop(b, d, x) = Len(Code(b))
<1> DEFINE n == Len(Code(b))
           U == UsesFrom(b, d, x)
<1>1. n \in Nat /\ d \in 0 .. n
  BY CodeFacts
<1>2. U \in SUBSET (0 .. n) /\ \A i \in U : d < i
  BY CodeFacts DEF UsesFrom
<1>3. CASE LiveToEnd(b, d, x)
  BY <1>1, <1>2, <1>3 DEF Stop
<1>4. CASE ~LiveToEnd(b, d, x) /\ U # {}
  <2>1. Stop(b, d, x) = Max(U)
    BY <1>4 DEF Stop
  <2>2. Max(U) \in U /\ \A i \in U : i <= Max(U)
    <3> HIDE DEF U, n
    <3> QED BY <1>1, <1>2, <1>4, MaxUpTo
  <2>3. \A m \in U : m \in d .. n
    <3>1. \A m \in U : m \in 0 .. n /\ d < m
      BY <1>2
    <3> HIDE DEF U, n
    <3> QED BY <1>1, <3>1
  <2> QED BY <1>4, <2>1, <2>2, <2>3 DEF U, n
<1>5. CASE ~LiveToEnd(b, d, x) /\ U = {}
  BY <1>1, <1>5 DEF Stop
<1> QED BY <1>3, <1>4, <1>5

(* The last position before i that x has a value from. *)
LEMMA LastValue ==
  ASSUME Types, NEW x, NEW b \in Block, NEW i \in Nat
  PROVE  \E d \in {0} \cup DefsIn(b, x) :
           d <= i /\ \A k \in DefsIn(b, x) : k <= i => k <= d
<1> DEFINE T == {k \in {0} \cup DefsIn(b, x) : k <= i}
<1>1. DefsIn(b, x) \subseteq Nat
  BY CodeFacts
<1>2. T \in SUBSET (0 .. i) /\ T # {}
  <2>1. 0 \in T
    OBVIOUS
  <2>2. \A k \in T : k \in 0 .. i
    BY <1>1
  <2> QED BY <2>1, <2>2
<1>3. PICK d \in T : \A k \in T : k <= d
  <2> HIDE DEF T
  <2> QED BY <1>2, GreatestUpTo
<1> QED BY <1>3

(* r lies over the end of instruction i of b. *)
Spans(r, b, i) ==
  \E d \in 0 .. i, e \in i .. Len(Code(b)) :
    /\ r.begin = Start(b, d) /\ r.end = Number(b, e)
    /\ e = i => i = Len(Code(b))

(* A value that is needed after an instruction has a range over it. *)
LEMMA NeededSpanned ==
  ASSUME Types, \A c \in Seen : outMap[c] = LiveOut(c),
         NEW b \in Seen, NEW i \in DOMAIN Code(b), NEW x \in LiveAfter(b, i)
  PROVE  \E k \in DOMAIN RangesOf(x) : Spans(RangesOf(x)[k], b, i)
<1> DEFINE n == Len(Code(b))
<1>1. b \in Block /\ x \in Operand
  BY DEF Seen, LiveAfter
<1>2. i \in Nat /\ n \in Nat /\ i \in 1 .. n /\ DefsIn(b, x) \subseteq 1 .. n
  BY <1>1, CodeFacts
<1>3. PICK d \in {0} \cup DefsIn(b, x) : d <= i /\ \A k \in DefsIn(b, x) : k <= i => k <= d
  BY <1>1, <1>2, LastValue
<1>4. d \in 0 .. i
  BY <1>2, <1>3
<1>5. \/ \E j \in UsesFrom(b, d, x) : i < j
      \/ LiveToEnd(b, d, x)
  <2>1. CASE \E j \in i + 1 .. n : x \in UseAt(b, j) /\ \A k \in i + 1 .. j - 1 : x \notin DefAt(b, k)
    <3>1. PICK j \in i + 1 .. n : x \in UseAt(b, j) /\ \A k \in i + 1 .. j - 1 : x \notin DefAt(b, k)
      BY <2>1
    <3>2. j \in DOMAIN Code(b) /\ i < j /\ d < j
      BY <1>1, <1>2, <1>4, CodeFacts
    <3>3. ASSUME NEW k \in DefsIn(b, x), d < k, k < j PROVE FALSE
      <4>1. k \in Nat /\ x \in DefAt(b, k)
        BY <1>2 DEF DefsIn
      <4>2. k > i
        BY <1>2, <1>3, <1>4, <3>3, <4>1
      <4>3. k \in i + 1 .. j - 1
        BY <1>2, <3>3, <4>1, <4>2
      <4> QED BY <3>1, <4>1, <4>3
    <3> QED BY <3>1, <3>2, <3>3 DEF UsesFrom
  <2>2. CASE x \in LiveOut(b) /\ \A k \in i + 1 .. n : x \notin DefAt(b, k)
    <3>1. ASSUME NEW k \in DefsIn(b, x) PROVE k <= d
      <4>1. k \in 1 .. n /\ x \in DefAt(b, k)
        BY <1>2 DEF DefsIn
      <4>2. k <= i
        BY <1>2, <2>2, <4>1
      <4> QED BY <1>3, <4>2
    <3> QED BY <2>2, <3>1 DEF LiveToEnd
  <2> QED BY <2>1, <2>2 DEF LiveAfter
<1>6. PICK k \in DOMAIN RangesOf(x) : IsRange(RangesOf(x)[k], b, d, x)
  <2>1. UsesFrom(b, d, x) # {} \/ LiveToEnd(b, d, x)
    BY <1>5
  <2> QED BY <1>1, <2>1, HasRange
<1> DEFINE e == Stop(b, d, x)
<1>7. /\ e \in d .. n /\ \A j \in UsesFrom(b, d, x) : j <= e
      /\ LiveToEnd(b, d, x) => e = n
  BY <1>1, StopFacts
<1>8. UsesFrom(b, d, x) \subseteq 1 .. n
  BY <1>1, CodeFacts DEF UsesFrom
<1> HIDE DEF e, n
<1>9. e \in i .. n /\ (e = i => i = n)
  BY <1>2, <1>4, <1>5, <1>7, <1>8
<1> QED BY <1>4, <1>6, <1>9 DEF Spans, IsRange, e, n

(* A value that is written at an instruction has a range that starts there. *)
LEMMA WrittenStarts ==
  ASSUME Types, NEW b \in Block, NEW i \in DOMAIN Code(b), NEW x \in DefAt(b, i)
  PROVE  \E k \in DOMAIN RangesOf(x), e \in i .. Len(Code(b)) :
           RangesOf(x)[k].begin = Start(b, i) /\ RangesOf(x)[k].end = Number(b, e)
<1>1. x \in Operand /\ i \in DefsIn(b, x) /\ i # 0
  BY CodeFacts DEF DefsIn
<1>2. PICK k \in DOMAIN RangesOf(x) : IsRange(RangesOf(x)[k], b, i, x)
  BY <1>1, HasRange
<1>3. Stop(b, i, x) \in i .. Len(Code(b))
  BY <1>1, StopFacts
<1> QED BY <1>2, <1>3 DEF IsRange

-----------------------------------------------------------------------------
(* The ranges that the last step of the analysis writes down. *)

LEMMA NeededConflict ==
  ASSUME Types, \A c \in Seen : outMap[c] = LiveOut(c),
         NEW b \in Seen, NEW i \in DOMAIN Code(b),
         NEW x \in LiveAfter(b, i), NEW y \in LiveAfter(b, i) \cup DefAt(b, i)
  PROVE  ListsConflict(RangesOf(x), RangesOf(y))
<1> DEFINE n == Len(Code(b))
           c == base[b]
<1>1. /\ n \in Nat /\ i \in 1 .. n /\ c \in Nat
      /\ \A k : Number(b, k) = c + k - 1
      /\ \A d : Start(b, d) = IF d = 0 THEN c ELSE c + d - 1
  <2>1. b \in Block
    BY DEF Seen
  <2>2. /\ n \in Nat /\ i \in 1 .. n /\ c \in Nat /\ \A k : Number(b, k) = c + k - 1
    BY <2>1, CodeFacts
  <2>3. c + 1 - 1 = c
    BY <2>2
  <2> HIDE DEF c, n
  <2> QED BY <2>2, <2>3 DEF Start
<1>2. PICK j \in DOMAIN RangesOf(x) : Spans(RangesOf(x)[j], b, i)
  BY NeededSpanned
<1>3. PICK k \in DOMAIN RangesOf(y) : \E f \in 0 .. i, g \in i .. n :
        /\ RangesOf(y)[k].begin = Start(b, f) /\ RangesOf(y)[k].end = Number(b, g)
        /\ (g = i => i = n) \/ f = i
  <2>1. CASE y \in LiveAfter(b, i)
    BY <2>1, NeededSpanned DEF Spans
  <2>2. CASE y \in DefAt(b, i)
    <3>1. b \in Block /\ i \in 0 .. i
      BY <1>1 DEF Seen
    <3> QED BY <2>2, <3>1, WrittenStarts
  <2> QED BY <2>1, <2>2
<1> DEFINE r == RangesOf(x)[j]
           s == RangesOf(y)[k]
<1>4. PICK d \in 0 .. i, e \in i .. n :
        r.begin = Start(b, d) /\ r.end = Number(b, e) /\ (e = i => i = n)
  BY <1>2 DEF Spans
<1>5. PICK f \in 0 .. i, g \in i .. n :
        s.begin = Start(b, f) /\ s.end = Number(b, g) /\ ((g = i => i = n) \/ f = i)
  BY <1>3
<1> HIDE DEF r, s, c, n
<1>6. /\ r.begin = (IF d = 0 THEN c ELSE c + d - 1) /\ r.end = c + e - 1
      /\ s.begin = (IF f = 0 THEN c ELSE c + f - 1) /\ s.end = c + g - 1
  BY <1>1, <1>4, <1>5
<1>7. Conflict(r, s)
  <2> DEFINE p == IF d = 0 THEN 1 ELSE d
             q == IF f = 0 THEN 1 ELSE f
  <2>0. /\ n \in Nat /\ i \in 1 .. n /\ c \in Nat
        /\ e \in i .. n /\ (e = i => i = n)
        /\ g \in i .. n /\ ((g = i => i = n) \/ f = i)
    BY <1>1, <1>4, <1>5
  <2>1. p \in 1 .. i /\ q \in 1 .. i /\ (f = i => q = i)
    BY <2>0
  <2>2. r.begin = c + p - 1 /\ s.begin = c + q - 1 /\ r.end = c + e - 1 /\ s.end = c + g - 1
    BY <1>6, <2>0
  <2> HIDE DEF p, q
  <2>3. CASE p <= q /\ e >= g
    BY <2>0, <2>1, <2>2, <2>3 DEF Conflict
  <2>4. CASE p <= q /\ e < g
    <3>1. e > i
      BY <2>0, <2>4
    <3> QED BY <2>0, <2>1, <2>2, <2>4, <3>1 DEF Conflict
  <2>5. CASE p > q
    <3>1. q < i
      BY <2>0, <2>1, <2>5
    <3>2. CASE g > i
      BY <2>0, <2>1, <2>2, <2>5, <3>2 DEF Conflict
    <3>3. CASE g = i
      <4>1. i = n /\ e = n /\ g = n
        BY <2>0, <2>1, <3>1, <3>3
      <4>2. CASE p = i
        BY <2>0, <2>1, <2>2, <2>5, <4>1, <4>2 DEF Conflict
      <4>3. CASE p < i
        BY <2>0, <2>1, <2>2, <2>5, <4>1, <4>3 DEF Conflict
      <4> QED BY <2>0, <2>1, <4>2, <4>3
    <3> QED BY <2>0, <3>2, <3>3
  <2> QED BY <2>1, <2>3, <2>4, <2>5
<1> QED BY <1>2, <1>3, <1>7 DEF ListsConflict, r, s

LEMMA MentionCovered ==
  ASSUME Types, NEW b \in Seen, NEW i \in DOMAIN Code(b),
         NEW x \in DefAt(b, i) \cup UseAt(b, i)
  PROVE  \E k \in DOMAIN RangesOf(x) :
           Number(b, i) \in RangesOf(x)[k].begin .. RangesOf(x)[k].end
<1> DEFINE n == Len(Code(b))
           c == base[b]
<1>1. /\ b \in Block /\ x \in Operand
      /\ n \in Nat /\ i \in 1 .. n /\ c \in Nat
      /\ \A k : Number(b, k) = c + k - 1
      /\ DefsIn(b, x) \subseteq 1 .. n
  <2>1. b \in Block
    BY DEF Seen
  <2> QED BY <2>1, CodeFacts
<1>2. PICK d \in {0} \cup DefsIn(b, x) :
        /\ d \in 0 .. i
        /\ d # 0 \/ UsesFrom(b, d, x) # {}
        /\ Stop(b, d, x) \in i .. n
  <2>1. CASE x \in DefAt(b, i)
    <3>1. i \in DefsIn(b, x) /\ i \in 0 .. i /\ i # 0
      BY <1>1, <2>1 DEF DefsIn
    <3>2. Stop(b, i, x) \in i .. n
      BY <1>1, <3>1, StopFacts
    <3> QED BY <3>1, <3>2
  <2>2. CASE x \notin DefAt(b, i)
    <3>1. i - 1 \in Nat
      BY <1>1
    <3>2. PICK d \in {0} \cup DefsIn(b, x) :
            d <= i - 1 /\ \A k \in DefsIn(b, x) : k <= i - 1 => k <= d
      BY <1>1, <3>1, LastValue
    <3>3. d \in 0 .. i /\ d < i
      BY <1>1, <3>2
    <3>4. ASSUME NEW k \in DefsIn(b, x), d < k, k < i PROVE FALSE
      <4>1. k \in Nat /\ k <= i - 1
        BY <1>1, <3>4
      <4> QED BY <1>1, <3>2, <3>3, <3>4, <4>1
    <3>5. i \in UsesFrom(b, d, x)
      BY <2>2, <3>3, <3>4 DEF UsesFrom
    <3>6. Stop(b, d, x) \in d .. n /\ i <= Stop(b, d, x)
      BY <1>1, <3>5, StopFacts
    <3>7. Stop(b, d, x) \in i .. n
      BY <1>1, <3>6
    <3> QED BY <3>3, <3>5, <3>7
  <2> QED BY <2>1, <2>2
<1>3. PICK k \in DOMAIN RangesOf(x) : IsRange(RangesOf(x)[k], b, d, x)
  BY <1>1, <1>2, HasRange
<1> DEFINE e == Stop(b, d, x)
           p == IF d = 0 THEN 1 ELSE d
<1>4. RangesOf(x)[k].begin = c + p - 1 /\ RangesOf(x)[k].end = c + e - 1 /\ Number(b, i) = c + i - 1
  BY <1>1, <1>3 DEF IsRange, Start
<1>5. e \in i .. n /\ p \in 1 .. i
  BY <1>1, <1>2
<1> HIDE DEF c, n, e, p
<1>6. c + i - 1 \in c + p - 1 .. c + e - 1
  BY <1>1, <1>5
<1> QED BY <1>4, <1>6

-----------------------------------------------------------------------------
LEMMA SameProgram ==
  ASSUME prog' = prog, base' = base
  PROVE  /\ Reachable' = Reachable
         /\ \A b : Code(b)' = Code(b)
         /\ \A b, i : LiveAfter(b, i)' = LiveAfter(b, i)
         /\ \A b, i : DefAt(b, i)' = DefAt(b, i) /\ UseAt(b, i)' = UseAt(b, i)
         /\ \A b, i : Number(b, i)' = Number(b, i)
<1>1. Reachable' = Reachable
  BY DEF Reachable
<1>2. /\ \A b : Code(b)' = Code(b)
      /\ \A b, i : DefAt(b, i)' = DefAt(b, i) /\ UseAt(b, i)' = UseAt(b, i)
      /\ \A b, i : Number(b, i)' = Number(b, i)
  BY DEF Code, DefAt, UseAt, Number
<1>3. \A b : LiveOut(b)' = LiveOut(b)
  BY SameMeaning
<1>4. \A b, i : LiveAfter(b, i)' = LiveAfter(b, i)
  BY <1>2, <1>3 DEF LiveAfter
<1> QED BY <1>1, <1>2, <1>4

LEMMA RangesStep ==
  IInv /\ InterferenceSound /\ MentionsCovered /\ [Next]_vars
    => InterferenceSound' /\ MentionsCovered'
<1> SUFFICES ASSUME IInv, InterferenceSound, MentionsCovered, [Next]_vars
             PROVE  InterferenceSound' /\ MentionsCovered'
  OBVIOUS
<1>1. CASE ComputeRanges
  <2>1. /\ stage = "flow" /\ prog' = prog /\ base' = base
        /\ live' = [x \in Operand |-> RangesOf(x)]
    BY <1>1 DEF ComputeRanges
  <2>2. Types /\ Seen' = Seen /\ Reachable \subseteq Seen
    BY <2>1, ReachableSeen, SameNumbers DEF IInv
  <2>3. \A c \in Seen : outMap[c] = LiveOut(c)
    BY <1>1, AllExact DEF ComputeRanges
  <2>4. InterferenceSound'
    <3> SUFFICES ASSUME NEW b \in Reachable, NEW i \in DOMAIN Code(b), NEW x \in LiveAfter(b, i),
                        NEW y \in LiveAfter(b, i) \cup DefAt(b, i)
                 PROVE  ListsConflict(live'[x], live'[y])
      BY <2>1, SameProgram DEF InterferenceSound
    <3>1. b \in Seen
      BY <2>2
    <3>2. x \in Operand /\ y \in Operand
      BY <2>2, <3>1, CodeFacts DEF LiveAfter, Seen
    <3>3. ListsConflict(RangesOf(x), RangesOf(y))
      BY <2>2, <2>3, <3>1, NeededConflict
    <3> QED BY <2>1, <3>2, <3>3
  <2>5. MentionsCovered'
    <3> SUFFICES ASSUME NEW b \in Reachable, NEW i \in DOMAIN Code(b),
                        NEW x \in DefAt(b, i) \cup UseAt(b, i)
                 PROVE  \E k \in DOMAIN live'[x] :
                          Number(b, i) \in live'[x][k].begin .. live'[x][k].end
      BY <2>1, SameProgram DEF MentionsCovered
    <3>1. b \in Seen
      BY <2>2
    <3>2. x \in Operand
      BY <2>2, <3>1, CodeFacts DEF Seen
    <3>3. \E k \in DOMAIN RangesOf(x) :
            Number(b, i) \in RangesOf(x)[k].begin .. RangesOf(x)[k].end
      BY <2>2, <3>1, MentionCovered
    <3>4. live'[x] = RangesOf(x)
      BY <2>1, <3>2
    <3> QED BY <3>3, <3>4
  <2> QED BY <2>4, <2>5
<1>2. CASE NumberBlock \/ StartSweep \/ SweepBlock
  <2>1. stage' # "done"
    BY <1>2 DEF NumberBlock, StartSweep, SweepBlock
  <2> QED BY <2>1 DEF InterferenceSound, MentionsCovered
<1>3. CASE UNCHANGED vars
  <2>1. prog' = prog /\ base' = base /\ live' = live /\ stage' = stage
    BY <1>3 DEF vars
  <2> QED BY <2>1, SameProgram DEF InterferenceSound, MentionsCovered
<1> QED BY <1>1, <1>2, <1>3 DEF Next, Finished

(* In every function, operands whose values are needed at the same time,   *)
(* or of which one is written while the other is needed, get range lists   *)
(* that conflict, so that the allocator keeps them apart.                  *)
THEOREM RangesTellInterference == Spec => []InterferenceSound
<1>1. Init => InterferenceSound /\ MentionsCovered
  BY DEF Init, InterferenceSound, MentionsCovered
<1> QED BY <1>1, RangesStep, SweepsInvariant, PTL DEF Spec

(* In every function, an instruction that can be reached lies in a range   *)
(* of each operand it mentions, so that spilling and rewriting find it.    *)
THEOREM RangesCoverMentions == Spec => []MentionsCovered
<1>1. Init => InterferenceSound /\ MentionsCovered
  BY DEF Init, InterferenceSound, MentionsCovered
<1> QED BY <1>1, RangesStep, SweepsInvariant, PTL DEF Spec

-----------------------------------------------------------------------------
(* The records of all ranges are of their type. *)

LEMMA ReadsCounted ==
  ASSUME Types, NEW b \in Block, NEW d, NEW x
  PROVE  ReadsFrom(b, d, x) \in Nat
<1> DEFINE U == UsesFrom(b, d, x)
           f == [i \in U |-> {i} \X Occurrences(b, i, x)]
<1>1. U \in SUBSET DOMAIN Code(b) /\ IsFiniteSet(U)
  <2>1. /\ U \subseteq 1 .. Len(Code(b)) /\ DOMAIN Code(b) = 1 .. Len(Code(b))
        /\ Len(Code(b)) \in Nat
    BY CodeFacts DEF UsesFrom
  <2> HIDE DEF U
  <2>2. IsFiniteSet(1 .. Len(Code(b)))
    BY <2>1, FS_Interval
  <2>3. IsFiniteSet(U)
    BY <2>1, <2>2, FS_Subset
  <2> QED BY <2>1, <2>3
<1>2. ASSUME NEW i \in U PROVE IsFiniteSet({i} \X Occurrences(b, i, x))
  <2>1. Code(b)[i].use \in Seq(Operand)
    <3>1. Code(b)[i] \in Instruction
      BY <1>1, CodeFacts
    <3> QED BY <3>1 DEF Instruction
  <2>2. Occurrences(b, i, x) \in SUBSET (1 .. Len(Code(b)[i].use)) /\ Len(Code(b)[i].use) \in Nat
    BY <2>1 DEF Occurrences
  <2> DEFINE O == Occurrences(b, i, x)
  <2> HIDE DEF O
  <2>3. IsFiniteSet(1 .. Len(Code(b)[i].use))
    BY <2>2, FS_Interval
  <2>4. IsFiniteSet(O)
    BY <2>2, <2>3, FS_Subset DEF O
  <2>5. IsFiniteSet({i})
    BY FS_Singleton
  <2> QED BY <2>4, <2>5, FS_Product DEF O
<1> HIDE DEF U
<1>3. DOMAIN f = U /\ f = [i \in U |-> f[i]] /\ \A i \in U : f[i] = {i} \X Occurrences(b, i, x)
  OBVIOUS
<1> HIDE DEF f
<1>4. IsFiniteSet(UNION {f[i] : i \in U})
  BY <1>1, <1>2, <1>3, FiniteUnion
<1>5. {f[i] : i \in U} = {{i} \X Occurrences(b, i, x) : i \in U}
  BY <1>3
<1>6. IsFiniteSet(UNION {{i} \X Occurrences(b, i, x) : i \in U})
  BY <1>4, <1>5
<1>7. ReadsFrom(b, d, x) = Cardinality(UNION {{i} \X Occurrences(b, i, x) : i \in U})
  BY DEF ReadsFrom, U
<1> QED BY <1>6, <1>7, FS_CardinalityType

LEMMA RangeTyped ==
  ASSUME Types, NEW x \in Operand, NEW b \in Block, NEW d \in {0} \cup DefsIn(b, x),
         NEW r \in RangesFrom(b, d, x)
  PROVE  r \in RangeRecord
<1>1. /\ r = [begin |-> Start(b, d), end |-> Number(b, Stop(b, d, x)),
              instruction_cnt |-> ReadsFrom(b, d, x) + (IF d = 0 THEN 0 ELSE 1),
              block_id |-> b]
      /\ d # 0 \/ UsesFrom(b, d, x) # {} \/ LiveToEnd(b, d, x)
  BY DEF RangesFrom
<1>2. Len(Code(b)) \in Nat /\ Len(Code(b)) > 0 /\ DefsIn(b, x) \subseteq 1 .. Len(Code(b))
  <2>1. Code(b) # <<>> /\ Code(b) \in Seq(Instruction)
    BY CodeFacts, ProgramsAssumption DEF Types, WellFormed, Code
  <2> QED BY <2>1, CodeFacts
<1>3. Start(b, d) \in Nat
  <2>1. (IF d = 0 THEN 1 ELSE d) \in Nat /\ (IF d = 0 THEN 1 ELSE d) > 0
    BY <1>2
  <2> QED BY <2>1, CodeFacts DEF Start
<1>4. Stop(b, d, x) \in Nat /\ Stop(b, d, x) > 0
  <2>1. /\ Stop(b, d, x) \in d .. Len(Code(b))
        /\ \A i \in UsesFrom(b, d, x) : i <= Stop(b, d, x)
        /\ LiveToEnd(b, d, x) => Stop(b, d, x) = Len(Code(b))
    BY StopFacts
  <2>2. UsesFrom(b, d, x) \subseteq 1 .. Len(Code(b))
    BY CodeFacts DEF UsesFrom
  <2>3. d \in 0 .. Len(Code(b))
    BY <1>2
  <2> QED BY <1>1, <1>2, <2>1, <2>2, <2>3
<1>5. Number(b, Stop(b, d, x)) \in Nat
  BY <1>4, CodeFacts
<1>6. ReadsFrom(b, d, x) + (IF d = 0 THEN 0 ELSE 1) \in Nat
  BY ReadsCounted
<1> QED BY <1>1, <1>3, <1>5, <1>6 DEF RangeRecord

LEMMA RangesEnumerated ==
  ASSUME Types, NEW x \in Operand
  PROVE  /\ Cardinality(RangeSet(x)) \in Nat
         /\ RangesOf(x) \in [1 .. Cardinality(RangeSet(x)) -> RangeSet(x)]
<1> DEFINE S == RangeSet(x)
<1>1. IsFiniteSet(S) /\ \A r \in S : r.begin \in Nat
  BY RangeSetFinite
<1>2. RangesOf(x) = SortedByBegin(S)
  BY DEF RangesOf
<1> HIDE DEF S
<1>3. Cardinality(S) \in Nat
  BY <1>1, FS_CardinalityType
<1>4. \E s \in [1 .. Cardinality(S) -> S] :
         ToSet(s) = S /\ \A j, k \in DOMAIN s : j < k => s[j].begin <= s[k].begin
  BY <1>1, FiniteSortable DEF Sortable, Enumerates
<1>5. SortedByBegin(S) \in [1 .. Cardinality(S) -> S]
  BY <1>4 DEF SortedByBegin
<1> QED BY <1>2, <1>3, <1>5 DEF S

LEMMA RangesTyped ==
  ASSUME Types, NEW x \in Operand
  PROVE  RangesOf(x) \in RangeList
<1>1. RangeSet(x) \subseteq RangeRecord
  <2> SUFFICES ASSUME NEW r \in RangeSet(x) PROVE r \in RangeRecord
    OBVIOUS
  <2>1. PICK b \in Block : \E d \in {0} \cup DefsIn(b, x) : r \in RangesFrom(b, d, x)
    BY DEF RangeSet
  <2> QED BY <2>1, RangeTyped
<1>2. RangesOf(x) \in [1 .. Cardinality(RangeSet(x)) -> RangeRecord]
  BY <1>1, RangesEnumerated
<1> QED BY <1>2, RangesEnumerated DEF RangeList

-----------------------------------------------------------------------------
(* An operand that is written once and read only further down in the same  *)
(* block, in a function without blocks that cannot be reached.             *)

Local(p, x) ==
  \E b \in Block : \E d \in DOMAIN p.code[b] :
    \A c \in Block : \A i \in DOMAIN p.code[c] :
      /\ x \in ToSet(p.code[c][i].def) <=> (c = b /\ i = d)
      /\ x \in ToSet(p.code[c][i].use) => (c = b /\ d < i)

Connected(p) == Onward(p.succ, Block, Head(p.blocks)) = Block

(* It has one range, from the instruction that writes it.                  *)
LEMMA LocalOneRange ==
  ASSUME Types, NEW x \in Operand, Local(prog, x), Block \subseteq Seen,
         \A c \in Block : outMap[c] = LiveOut(c)
  PROVE  Len(RangesOf(x)) = 1 /\ RangesOf(x)[1].begin <= RangesOf(x)[1].end
<1>0. PICK b \in Block : \E d \in DOMAIN Code(b) :
         \A c \in Block : \A i \in DOMAIN Code(c) :
           /\ x \in DefAt(c, i) <=> (c = b /\ i = d)
           /\ x \in UseAt(c, i) => (c = b /\ d < i)
  BY DEF Local, Code, DefAt, UseAt
<1>1. PICK d \in DOMAIN Code(b) :
         \A c \in Block : \A i \in DOMAIN Code(c) :
           /\ x \in DefAt(c, i) <=> (c = b /\ i = d)
           /\ x \in UseAt(c, i) => (c = b /\ d < i)
  BY <1>0
<1>2. d \in Nat /\ d > 0 /\ d <= Len(Code(b)) /\ Len(Code(b)) \in Nat
  BY CodeFacts
<1>3. /\ DefsIn(b, x) = {d}
      /\ \A c \in Block \ {b} : DefsIn(c, x) = {}
  BY <1>1 DEF DefsIn
<1>4. \A c \in Block : UsesFrom(c, 0, x) = {}
  BY <1>1, <1>2, <1>3, CodeFacts DEF UsesFrom
<1>5. \A c \in Block : x \notin Exposed(c)
  <2> SUFFICES ASSUME NEW c \in Block, NEW i \in DOMAIN Code(c), x \in UseAt(c, i),
                      \A j \in 1 .. i - 1 : x \notin DefAt(c, j)
               PROVE  FALSE
    BY DEF Exposed
  <2>1. c = b /\ d < i /\ i \in Nat
    BY <1>1, CodeFacts
  <2> QED BY <1>1, <1>2, <2>1
<1>6. \A c \in Block : x \notin outMap[c]
  <2>1. \A c \in Block : x \notin LiveIn(c)
    BY <1>5, ProgramFacts, OnwardClosed DEF LiveIn, Types
  <2>2. \A c \in Block : ToSet(prog.succ[c]) \subseteq Block
    BY ProgramFacts DEF Types
  <2> QED BY <2>1, <2>2 DEF LiveOut
<1>7. \A c \in Block : RangesFrom(c, 0, x) = {}
  BY <1>4, <1>6 DEF RangesFrom, LiveToEnd
<1>8. PICK r \in RangesFrom(b, d, x) : RangesFrom(b, d, x) = {r} /\ IsRange(r, b, d, x)
  <2> DEFINE s == [begin |-> Start(b, d), end |-> Number(b, Stop(b, d, x)),
                   instruction_cnt |-> ReadsFrom(b, d, x) + (IF d = 0 THEN 0 ELSE 1),
                   block_id |-> b]
  <2>1. s.begin = Start(b, d) /\ s.end = Number(b, Stop(b, d, x))
    OBVIOUS
  <2>2. RangesFrom(b, d, x) = {s}
    BY <1>2 DEF RangesFrom
  <2> HIDE DEF s
  <2> QED BY <2>1, <2>2 DEF IsRange
<1>9. RangeSet(x) = {r}
  <2>1. \A c \in Block \ {b} : UNION {RangesFrom(c, e, x) : e \in {0} \cup DefsIn(c, x)} = {}
    BY <1>3, <1>7
  <2>2. UNION {RangesFrom(b, e, x) : e \in {0} \cup DefsIn(b, x)} = {r}
    BY <1>3, <1>7, <1>8
  <2> QED BY <2>1, <2>2 DEF RangeSet
<1>10. Cardinality(RangeSet(x)) = 1
  BY <1>9, FS_Singleton
<1>11. RangesOf(x) \in [1 .. 1 -> {r}]
  BY <1>9, <1>10, RangesEnumerated
<1>12. Len(RangesOf(x)) = 1 /\ RangesOf(x)[1] = r
  BY <1>11
<1>13. Stop(b, d, x) \in d .. Len(Code(b))
  BY <1>3, StopFacts
<1>14. Start(b, d) <= Number(b, Stop(b, d, x))
  <2>1. base[b] \in Nat /\ \A i : Number(b, i) = base[b] + i - 1
    BY CodeFacts
  <2>2. Start(b, d) = base[b] + d - 1
    BY <1>2, <2>1 DEF Start
  <2> QED BY <1>2, <1>13, <2>1, <2>2
<1> QED BY <1>8, <1>12, <1>14 DEF IsRange
=============================================================================
