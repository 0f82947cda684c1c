----------------------------- MODULE Induction ------------------------------
(***************************************************************************)
(* Induction stated with sets instead of predicates, for the proofs about  *)
(* recursive functions and sequences; and what is in a sequence that is    *)
(* put together from others.                                               *)
(***************************************************************************)
EXTENDS Integers, SequencesExt, SequenceTheorems, WellFoundedInduction, TLAPS

(* Every nonempty set of natural numbers has a least element. *)
LEMMA LeastNat ==
  ASSUME NEW T \in SUBSET Nat, T # {}
  PROVE  \E n \in T : \A m \in T : n <= m
<1> DEFINE Less == {p \in Nat \X Nat : p[1] < p[2]}
<1>1. IsWellFoundedOn(Less, Nat)
  BY NatLessThanWellFounded DEF OpToRel
<1>2. PICK n \in T : \A m \in T : <<m, n>> \notin Less
  <2> HIDE DEF Less
  <2> QED BY <1>1, WFMin
<1>3. ASSUME NEW m \in T PROVE n <= m
  <2>1. <<m, n>> \in Less <=> m < n
    OBVIOUS
  <2> HIDE DEF Less
  <2> QED BY <1>2, <2>1
<1> QED BY <1>3

(* A set with 0 and the successors of its elements has every number. *)
LEMMA NatInductionSet ==
  ASSUME NEW P \in SUBSET Nat, 0 \in P, \A n \in P : n + 1 \in P
  PROVE  P = Nat
<1>1. SUFFICES ASSUME Nat \ P # {} PROVE FALSE
  OBVIOUS
<1>2. PICK n \in Nat \ P : \A m \in Nat \ P : n <= m
  BY <1>1, LeastNat
<1>3. n # 0 /\ n - 1 \in Nat
  OBVIOUS
<1>4. n - 1 \in P
  BY <1>2, <1>3
<1> QED BY <1>4, <1>3

(* f solves the equations of the sums of the first n elements of s. *)
IsSum(f, s, n) == f = [k \in 0 .. n |-> IF k = 0 THEN 0 ELSE f[k - 1] + s[k]]

Summable(s, n) == \E f \in [0 .. n -> Nat] : IsSum(f, s, n)

(* The equations of the sums have a solution. *)
LEMMA SumExists ==
  ASSUME NEW s \in Seq(Nat)
  PROVE  \E f \in [0 .. Len(s) -> Nat] : IsSum(f, s, Len(s))
<1> DEFINE Good == {n \in Nat : n <= Len(s) => Summable(s, n)}
<1>0. Len(s) \in Nat /\ \A k \in 1 .. Len(s) : s[k] \in Nat
  OBVIOUS
<1>1. 0 \in Good
  <2> DEFINE f == [k \in 0 .. 0 |-> 0]
  <2>1. f \in [0 .. 0 -> Nat] /\ IsSum(f, s, 0)
    BY DEF IsSum
  <2> QED BY <2>1 DEF Summable
<1>2. ASSUME NEW n \in Nat, n + 1 <= Len(s), NEW f \in [0 .. n -> Nat], IsSum(f, s, n)
      PROVE  \E g \in [0 .. n + 1 -> Nat] : IsSum(g, s, n + 1)
  <2> DEFINE g == [k \in 0 .. n + 1 |-> IF k = n + 1 THEN f[n] + s[n + 1] ELSE f[k]]
  <2>1. g \in [0 .. n + 1 -> Nat]
    BY <1>0, <1>2
  <2>2. \A k \in 0 .. n : f[k] = IF k = 0 THEN 0 ELSE f[k - 1] + s[k]
    BY <1>2 DEF IsSum
  <2>3. ASSUME NEW k \in 0 .. n + 1 PROVE g[k] = IF k = 0 THEN 0 ELSE g[k - 1] + s[k]
    <3>1. CASE k = n + 1
      BY <3>1
    <3>2. CASE k # n + 1
      <4>1. k \in 0 .. n /\ (k # 0 => k - 1 \in 0 .. n /\ k - 1 # n + 1)
        BY <3>2
      <4> QED BY <2>2, <3>2, <4>1
    <3> QED BY <3>1, <3>2
  <2>4. g = [k \in 0 .. n + 1 |-> g[k]]
    OBVIOUS
  <2>5. IsSum(g, s, n + 1)
    <3> HIDE DEF g
    <3> QED BY <2>3, <2>4 DEF IsSum
  <2> HIDE DEF g
  <2> QED BY <2>1, <2>5
<1>3. Good = Nat
  <2>1. \A n \in Nat : n \in Good => n + 1 \in Good
    <3> SUFFICES ASSUME NEW n \in Nat, n \in Good, n + 1 <= Len(s)
                 PROVE  Summable(s, n + 1)
      OBVIOUS
    <3>1. n <= Len(s)
      BY <1>0
    <3>2. PICK f \in [0 .. n -> Nat] : IsSum(f, s, n)
      BY <3>1 DEF Summable
    <3> QED BY <1>2, <3>2 DEF Summable
  <2>2. Good \in SUBSET Nat
    OBVIOUS
  <2> HIDE DEF Good
  <2> QED BY <1>1, <2>1, <2>2, NatInductionSet
<1> QED BY <1>0, <1>3 DEF Summable

(* What a solution of the equations is. *)
LEMMA SumFacts ==
  ASSUME NEW s \in Seq(Nat), NEW f, IsSum(f, s, Len(s))
  PROVE  /\ f \in [0 .. Len(s) -> Nat]
         /\ f[0] = 0
         /\ \A k \in 1 .. Len(s) : f[k] = f[k - 1] + s[k]
         /\ \A j, k \in 0 .. Len(s) : j <= k => f[j] <= f[k]
<1>0. Len(s) \in Nat /\ \A k \in 1 .. Len(s) : s[k] \in Nat
  OBVIOUS
<1>1. f[0] = 0 /\ \A k \in 1 .. Len(s) : f[k] = f[k - 1] + s[k]
  BY <1>0 DEF IsSum
<1>2. \A n \in Nat : n <= Len(s) => /\ f[n] \in Nat
                                    /\ \A j \in 0 .. n : f[j] \in Nat /\ f[j] <= f[n]
  <2> DEFINE Good == {n \in Nat : n <= Len(s) => /\ f[n] \in Nat
                                                 /\ \A j \in 0 .. n : f[j] \in Nat /\ f[j] <= f[n]}
  <2>1. 0 \in Good
    BY <1>1
  <2>2. \A n \in Nat : n \in Good => n + 1 \in Good
    <3> SUFFICES ASSUME NEW n \in Nat, n \in Good, n + 1 <= Len(s)
                 PROVE  /\ f[n + 1] \in Nat
                        /\ \A j \in 0 .. n + 1 : f[j] \in Nat /\ f[j] <= f[n + 1]
      BY SMTT(60)
    <3>1. n <= Len(s) /\ n + 1 \in 1 .. Len(s)
      BY <1>0
    <3>2. f[n] \in Nat /\ \A j \in 0 .. n : f[j] \in Nat /\ f[j] <= f[n]
      BY <3>1
    <3>3. f[n + 1] = f[n] + s[n + 1] /\ s[n + 1] \in Nat
      BY <1>0, <1>1, <3>1
    <3>4. ASSUME NEW j \in 0 .. n + 1, j # n + 1 PROVE j \in 0 .. n
      BY <3>4
    <3> QED BY <3>2, <3>3, <3>4
  <2>3. Good \in SUBSET Nat
    OBVIOUS
  <2>4. Good = Nat
    <3> HIDE DEF Good
    <3> QED BY <2>1, <2>2, <2>3, NatInductionSet
  <2> QED BY <2>4
<1>3. f = [k \in 0 .. Len(s) |-> f[k]]
  BY DEF IsSum
<1>4. \A k \in 0 .. Len(s) : k \in Nat /\ f[k] \in Nat
  BY <1>0, <1>2
<1>5. f \in [0 .. Len(s) -> Nat]
  BY <1>3, <1>4
<1>6. ASSUME NEW j \in 0 .. Len(s), NEW k \in 0 .. Len(s), j <= k PROVE f[j] <= f[k]
  <2>1. j \in 0 .. k /\ k \in Nat /\ k <= Len(s)
    BY <1>0, <1>6
  <2> QED BY <1>2, <2>1
<1> QED BY <1>1, <1>5, <1>6

-----------------------------------------------------------------------------
(* Sequences. *)

IsSeq(s) == \E S : s \in Seq(S)

LEMMA AppendFacts ==
  ASSUME NEW s, IsSeq(s), NEW x
  PROVE  /\ IsSeq(Append(s, x)) /\ Len(s) \in Nat
         /\ DOMAIN s = 1 .. Len(s) /\ DOMAIN Append(s, x) = 1 .. Len(s) + 1
         /\ Len(Append(s, x)) = Len(s) + 1
         /\ \A i \in 1 .. Len(s) : Append(s, x)[i] = s[i]
         /\ Append(s, x)[Len(s) + 1] = x
         /\ Append(s, x) # <<>> /\ Last(Append(s, x)) = x
<1>1. PICK S : s \in Seq(S)
  BY DEF IsSeq
<1> DEFINE T == S \cup {x}
<1>2. s \in Seq(T) /\ x \in T
  BY <1>1
<1> HIDE DEF T
<1>3. Append(s, x) \in Seq(T) /\ Len(Append(s, x)) = Len(s) + 1 /\ Len(s) \in Nat
  BY <1>2
<1>4. /\ DOMAIN s = 1 .. Len(s) /\ DOMAIN Append(s, x) = 1 .. Len(s) + 1
      /\ \A i \in 1 .. Len(s) : Append(s, x)[i] = s[i]
      /\ Append(s, x)[Len(s) + 1] = x
  BY <1>2, <1>3
<1>5. Append(s, x) # <<>>
  BY <1>3
<1> QED BY <1>3, <1>4, <1>5 DEF IsSeq, Last

LEMMA NothingIsSeq == IsSeq(<<>>) /\ Len(<<>>) = 0
<1>1. <<>> \in Seq({}) /\ Len(<<>>) = 0
  OBVIOUS
<1> QED BY <1>1 DEF IsSeq

LEMMA LastFacts ==
  ASSUME NEW s, IsSeq(s), s # <<>>
  PROVE  Len(s) \in Nat \ {0} /\ DOMAIN s = 1 .. Len(s) /\ Last(s) = s[Len(s)]
<1>1. PICK S : s \in Seq(S)
  BY DEF IsSeq
<1> QED BY <1>1 DEF Last

(* What is in a concatenation. *)
Concatenated(S, s, t, u) ==
  /\ u \in Seq(S) /\ Len(u) = Len(s) + Len(t) /\ Len(s) \in Nat /\ Len(t) \in Nat
  /\ \A i \in 1 .. Len(s) : u[i] = s[i]
  /\ \A i \in Len(s) + 1 .. Len(s) + Len(t) : u[i] = t[i - Len(s)]

LEMMA ConcatFacts ==
  ASSUME NEW S, NEW s \in Seq(S), NEW t \in Seq(S)
  PROVE  Concatenated(S, s, t, s \o t)
  BY DEF Concatenated

LEMMA FrontFacts ==
  ASSUME NEW S, NEW s \in Seq(S), s # <<>>
  PROVE  /\ Front(s) \in Seq(S) /\ Len(s) \in Nat \ {0}
         /\ Len(Front(s)) = Len(s) - 1
         /\ \A i \in 1 .. Len(s) - 1 : Front(s)[i] = s[i]
         /\ DOMAIN s = 1 .. Len(s) /\ Last(s) = s[Len(s)] /\ Last(s) \in S
<1>1. Front(s) = SubSeq(s, 1, Len(s) - 1)
  BY DEF Front
<1>2. Len(s) \in Nat \ {0}
  OBVIOUS
<1>3. 1 \in Int /\ Len(s) - 1 \in Int /\ \A i \in 1 .. Len(s) - 1 : s[i] \in S
  BY <1>2
<1>4. /\ SubSeq(s, 1, Len(s) - 1) \in Seq(S)
      /\ Len(SubSeq(s, 1, Len(s) - 1)) = Len(s) - 1
      /\ \A i \in 1 .. Len(s) - 1 : SubSeq(s, 1, Len(s) - 1)[i] = s[i]
  <2>1. /\ SubSeq(s, 1, Len(s) - 1) \in Seq(S)
        /\ Len(SubSeq(s, 1, Len(s) - 1)) = IF 1 <= Len(s) - 1 THEN Len(s) - 1 - 1 + 1 ELSE 0
        /\ \A i \in 1 .. Len(s) - 1 - 1 + 1 : SubSeq(s, 1, Len(s) - 1)[i] = s[1 + i - 1]
    BY <1>3, SubSeqProperties
  <2>2. \A i \in 1 .. Len(s) - 1 : i \in 1 .. Len(s) - 1 - 1 + 1 /\ 1 + i - 1 = i
    BY <1>2
  <2>3. Len(SubSeq(s, 1, Len(s) - 1)) = Len(s) - 1
    <3> DEFINE m == Len(SubSeq(s, 1, Len(s) - 1))
    <3>1. m = IF 1 <= Len(s) - 1 THEN Len(s) - 1 - 1 + 1 ELSE 0
      BY <2>1
    <3> HIDE DEF m
    <3>2. CASE 1 <= Len(s) - 1
      <4>1. Len(s) - 1 - 1 + 1 = Len(s) - 1
        BY <1>2
      <4> QED BY <3>1, <3>2, <4>1 DEF m
    <3>3. CASE ~(1 <= Len(s) - 1)
      <4>1. \A l \in Nat \ {0} : ~(1 <= l - 1) => l - 1 = 0
        OBVIOUS
      <4>2. Len(s) - 1 = 0
        BY ONLY <1>2, <3>3, <4>1
      <4> QED BY <3>1, <3>3, <4>2 DEF m
    <3> QED BY <3>2, <3>3
  <2>4. ASSUME NEW i \in 1 .. Len(s) - 1 PROVE SubSeq(s, 1, Len(s) - 1)[i] = s[i]
    BY <2>1, <2>2
  <2> QED BY <2>1, <2>3, <2>4
<1>7. s[Len(s)] \in S /\ Last(s) = s[Len(s)]
  BY <1>2 DEF Last
<1> QED BY <1>1, <1>2, <1>4, <1>7

(* A sequence whose head has been replaced. *)
LEMMA ReplaceFacts ==
  ASSUME NEW s, IsSeq(s), s # <<>>, NEW t, IsSeq(t)
  PROVE  LET u == t \o Tail(s)
         IN /\ IsSeq(u) /\ Len(t) \in Nat /\ Len(s) \in Nat \ {0}
            /\ Len(u) = Len(t) + Len(s) - 1 /\ DOMAIN u = 1 .. Len(u)
            /\ DOMAIN s = 1 .. Len(s) /\ Head(s) = s[1]
            /\ \A i \in 1 .. Len(t) : u[i] = t[i]
            /\ \A i \in Len(t) + 1 .. Len(u) : u[i] = s[i - Len(t) + 1]
<1>1. PICK S : s \in Seq(S)
  BY DEF IsSeq
<1>2. PICK T : t \in Seq(T)
  BY DEF IsSeq
<1> DEFINE U == S \cup T
           r == Tail(s)
           u == t \o r
<1>3. s \in Seq(U) /\ t \in Seq(U)
  BY <1>1, <1>2
<1> HIDE DEF U
<1>4. r \in Seq(U) /\ Len(r) = Len(s) - 1 /\ Len(s) \in Nat \ {0}
      /\ \A i \in 1 .. Len(r) : r[i] = s[i + 1]
  BY <1>3
<1>5. Head(s) = s[1] /\ DOMAIN s = 1 .. Len(s)
  BY <1>3
<1> HIDE DEF r
<1>6. /\ u \in Seq(U) /\ Len(u) = Len(t) + Len(r) /\ Len(t) \in Nat
      /\ \A i \in 1 .. Len(t) : u[i] = t[i]
      /\ \A i \in Len(t) + 1 .. Len(t) + Len(r) : u[i] = r[i - Len(t)]
  <2>1. Concatenated(U, t, r, u)
    BY <1>3, <1>4, ConcatFacts
  <2> QED BY <2>1 DEF Concatenated
<1> HIDE DEF u
<1>7. Len(u) = Len(t) + Len(s) - 1 /\ DOMAIN u = 1 .. Len(u)
  BY <1>4, <1>6
<1>8. \A i \in Len(t) + 1 .. Len(u) : u[i] = s[i - Len(t) + 1]
  <2> TAKE i \in Len(t) + 1 .. Len(u)
  <2>1. i - Len(t) \in 1 .. Len(r)
    BY <1>4, <1>6
  <2> QED BY <1>4, <1>6, <2>1
<1> QED BY <1>4, <1>5, <1>6, <1>7, <1>8 DEF IsSeq, u, r
=============================================================================
