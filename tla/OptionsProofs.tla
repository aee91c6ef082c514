----------------------------- MODULE OptionsProofs -----------------------------
(***************************************************************************)
(* Proofs about what the options mean: the shares of the thread pools, and *)
(* the patterns of the exclude file, for every pattern and every text.     *)
(* The latter are recursive functions over sequences; induction is over    *)
(* sets of numbers (NatSet), which needs no operator as a parameter.       *)
(***************************************************************************)
EXTENDS Options, Wildcard, FiniteSetTheorems, SequenceTheorems, TLAPS

-----------------------------------------------------------------------------
(* Induction, and the existence of functions defined by recursion.         *)

(* A set of numbers with 0 and every successor has them all: the numbers   *)
(* below one it lacks could be mapped one to one to those without 0.       *)
LEMMA NatSet ==
    ASSUME NEW T, T \subseteq Nat, 0 \in T, \A n \in T : n + 1 \in T
    PROVE  T = Nat
<1> SUFFICES ASSUME NEW m \in Nat, m \notin T PROVE FALSE
  OBVIOUS
<1> DEFINE U == T \cap (0 .. m)
           f == [k \in U |-> k + 1]
<1>1. IsFiniteSet(U)
  <2>1. IsFiniteSet(0 .. m) /\ U \in SUBSET (0 .. m)
    BY FS_Interval
  <2> QED
    BY <2>1, FS_Subset
<1>2. \A k \in U : k + 1 \in U \ {0}
  <2> TAKE k \in U
  <2>1. k \in Nat /\ k # m /\ k <= m /\ k + 1 \in T
    OBVIOUS
  <2> QED
    BY <2>1
<1>3. IsFiniteSet(U \ {0}) /\ Cardinality(U \ {0}) = Cardinality(U) - 1 /\ Cardinality(U) \in Nat
  <2>1. 0 \in U
    OBVIOUS
  <2> HIDE DEF U
  <2> QED
    BY <1>1, <2>1, FS_RemoveElement, FS_CardinalityType
<1>4. f \in [U -> U \ {0}]
  BY <1>2
<1>5. \E x, y \in U : x # y /\ f[x] = f[y]
  <2> HIDE DEF U, f
  <2>1. Cardinality(U \ {0}) < Cardinality(U)
    BY <1>3
  <2> QED
    BY <1>1, <1>3, <1>4, <2>1, FS_PigeonHole
<1>6. \A x, y \in U : f[x] = f[y] => x = y
  <2>1. U \subseteq Nat
    OBVIOUS
  <2> HIDE DEF U
  <2> QED
    BY <2>1
<1> QED
  BY <1>5, <1>6

\* A rule F for the functions from D to V, and the functions that obey it.
Rules(D, V) == [D -> [[D -> V] -> V]]
Agree(g, h, rank, D, d) == \A e \in D : rank[e] < rank[d] => g[e] = h[e]
Recursive(F, rank, D, V) ==
    \A d \in D : \A g, h \in [D -> V] : Agree(g, h, rank, D, d) => F[d][g] = F[d][h]
Solvable(F, D, V) == \E g \in [D -> V] : \A d \in D : g[d] = F[d][g]

(* If the rule gives each value from those at arguments of a lower rank    *)
(* alone, some function obeys it.                                          *)
LEMMA Recursion ==
    ASSUME NEW D, NEW V, V # {}, NEW rank \in [D -> Nat], NEW n \in Nat,
           \A d \in D : rank[d] < n,
           NEW F \in Rules(D, V), Recursive(F, rank, D, V)
    PROVE  Solvable(F, D, V)
<1>a. \A d \in D : \A g, h \in [D -> V] :
          (\A e \in D : rank[e] < rank[d] => g[e] = h[e]) => F[d][g] = F[d][h]
  BY DEF Recursive, Agree
<1>b. F \in [D -> [[D -> V] -> V]]
  BY DEF Rules
<1> DEFINE Upto(k) == \E g \in [D -> V] : \A d \in D : rank[d] < k => g[d] = F[d][g]
           T == {k \in Nat : Upto(k)}
<1>1. 0 \in T
  <2>1. PICK v : v \in V
    OBVIOUS
  <2>2. [d \in D |-> v] \in [D -> V]
    BY <2>1
  <2>3. \A d \in D : ~ (rank[d] < 0)
    OBVIOUS
  <2> QED
    BY <2>2, <2>3
<1>2. ASSUME NEW k \in T
      PROVE  k + 1 \in T
  <2>1. PICK g \in [D -> V] : \A d \in D : rank[d] < k => g[d] = F[d][g]
    OBVIOUS
  <2> DEFINE h == [d \in D |-> IF rank[d] = k THEN F[d][g] ELSE g[d]]
  <2>2. h \in [D -> V]
    BY <1>b
  <2>3. ASSUME NEW d \in D, rank[d] < k + 1
        PROVE  h[d] = F[d][h]
    <3> PICK r : r = rank[d]
      OBVIOUS
    <3>1. r = rank[d] /\ r \in Nat /\ k \in Nat /\ r <= k /\ (r # k => r < k)
      BY <2>3
    <3>2. \A e \in D : rank[e] < rank[d] => h[e] = g[e]
      <4> TAKE e \in D
      <4>1. rank[e] \in Nat
        OBVIOUS
      <4> QED
        BY <3>1, <4>1
    <3> HIDE DEF h
    <3>3. F[d][h] = F[d][g]
      BY <1>a, <2>2, <3>2
    <3>4. h[d] = F[d][g]
      <4>1. h[d] = IF rank[d] = k THEN F[d][g] ELSE g[d]
        BY DEF h
      <4> QED
        BY <2>1, <3>1, <4>1
    <3> QED
      BY <3>3, <3>4
  <2>4. k + 1 \in Nat
    OBVIOUS
  <2> HIDE DEF h
  <2> QED
    BY <2>2, <2>3, <2>4
<1>3. T = Nat
  <2> HIDE DEF T
  <2>1. T \subseteq Nat
    BY DEF T
  <2> QED
    BY <1>1, <1>2, <2>1, NatSet
<1>4. Upto(n)
  BY <1>3
<1> QED
  BY <1>4 DEF Solvable

-----------------------------------------------------------------------------
(* FlattenSeq.                                                             *)

LEMMA FlattenTable ==
    ASSUME NEW S, NEW ss \in Seq(Seq(S)), ss # << >>
    PROVE  \E f \in [1 .. Len(ss) -> Seq(S)] :
               /\ FlattenSeq(ss) = f[Len(ss)]
               /\ \A i \in 1 .. Len(ss) : f[i] = IF i = 1 THEN ss[i] ELSE f[i - 1] \o ss[i]
<1> DEFINE n == Len(ss)
           D == 1 .. n
           V == Seq(S)
           rank == [d \in D |-> d]
           F == [d \in D |-> [g \in [D -> V] |-> IF d = 1 THEN ss[d] ELSE g[d - 1] \o ss[d]]]
           def(g) == [i \in 1 .. Len(ss) |-> IF i = 1 THEN ss[i] ELSE g[i - 1] \o ss[i]]
           flatten == CHOOSE g : g = def(g)
<1>1. n \in Nat \ {0} /\ \A d \in D : ss[d] \in V
  BY EmptySeq, ElementOfSeq
<1> HIDE DEF n
<1>2. << >> \in V
  BY EmptySeq
<1>3. ASSUME NEW d \in D, NEW g \in [D -> V]
      PROVE  (IF d = 1 THEN ss[d] ELSE g[d - 1] \o ss[d]) \in V
  <2>1. d # 1 => d - 1 \in D
    BY <1>1
  <2>2. d # 1 => g[d - 1] \in V
    BY <2>1
  <2> QED
    BY <1>1, <2>2, ConcatProperties
<1>4. F \in Rules(D, V)
  <2> HIDE DEF D, V
  <2> QED
    BY <1>3 DEF Rules
<1>5. Recursive(F, rank, D, V)
  <2> SUFFICES ASSUME NEW d \in D, NEW g \in [D -> V], NEW h \in [D -> V],
                      \A e \in D : rank[e] < rank[d] => g[e] = h[e]
               PROVE  F[d][g] = F[d][h]
    BY DEF Recursive, Agree
  <2>1. d # 1 => d - 1 \in D /\ d - 1 < d
    BY <1>1
  <2>2. d # 1 => g[d - 1] = h[d - 1]
    BY <2>1
  <2> HIDE DEF D, V
  <2> QED
    BY <2>2
<1>6. rank \in [D -> Nat] /\ \A d \in D : rank[d] < n + 1
  BY <1>1
<1>7. Solvable(F, D, V)
  <2> HIDE DEF D, V, rank, F
  <2>1. PICK N \in Nat : N = n + 1
    BY <1>1
  <2>2. V # {} /\ rank \in [D -> Nat] /\ \A d \in D : rank[d] < N
    BY <1>2, <1>6, <2>1
  <2> QED
    BY <1>4, <1>5, <2>1, <2>2, Recursion
<1>8. PICK g \in [D -> V] : \A d \in D : g[d] = F[d][g]
  BY <1>7 DEF Solvable
<1>9. g = def(g)
  <2>1. \A d \in D : g[d] = IF d = 1 THEN ss[d] ELSE g[d - 1] \o ss[d]
    <3> HIDE DEF D, V
    <3> QED
      BY <1>8
  <2> QED
    BY <2>1 DEF n
<1>10. flatten = def(flatten)
  <2> HIDE DEF def
  <2> QED
    BY <1>9
<1>11. FlattenSeq(ss) = flatten[Len(ss)]
  BY <1>1 DEF FlattenSeq, n
<1>12. /\ DOMAIN flatten = D
       /\ \A i \in D : flatten[i] = IF i = 1 THEN ss[i] ELSE flatten[i - 1] \o ss[i]
  <2> HIDE DEF flatten
  <2> QED
    BY <1>10 DEF n
<1>13. \A i \in D : flatten[i] \in V
  <2> DEFINE T == {k \in Nat : k = 0 \/ k > n \/ flatten[k] \in V}
  <2> HIDE DEF flatten, V
  <2>1. ASSUME NEW k \in T
        PROVE  k + 1 \in T
    <3>1. CASE k + 1 > n
      BY <3>1
    <3>2. CASE k + 1 <= n
      <4> PICK m : m = k + 1
        OBVIOUS
      <4>1. m \in D /\ (k # 0 => k \in D) /\ m - 1 = k /\ (m = 1 <=> k = 0)
        BY <1>1, <3>2
      <4>2. flatten[m] = IF k = 0 THEN ss[m] ELSE flatten[k] \o ss[m]
        <5> HIDE DEF D
        <5> QED
          BY <1>12, <4>1
      <4>3. flatten[m] \in V
        <5>1. k # 0 => flatten[k] \in V
          BY <1>1, <4>1
        <5> QED
          BY <1>1, <4>1, <4>2, <5>1, ConcatProperties DEF V
      <4> QED
        BY <4>3
    <3> QED
      BY <1>1, <3>1, <3>2
  <2>2. T = Nat
    <3>1. 0 \in T /\ T \subseteq Nat
      OBVIOUS
    <3> HIDE DEF T
    <3> QED
      BY <2>1, <3>1, NatSet
  <2> TAKE i \in D
  <2>3. i \in Nat /\ i # 0 /\ ~ (i > n)
    BY <1>1
  <2>4. i \in T
    BY <2>2, <2>3
  <2> QED
    BY <2>3, <2>4
<1>14. flatten \in [D -> V]
  <2> HIDE DEF flatten, D, V
  <2>1. flatten = [i \in D |-> flatten[i]]
    <3>1. flatten = [i \in D |-> IF i = 1 THEN ss[i] ELSE flatten[i - 1] \o ss[i]]
      BY <1>10 DEF D, n
    <3> QED
      BY <3>1
  <2> QED
    BY <1>13, <2>1
<1> QED
  <2> HIDE DEF flatten
  <2> QED
    BY <1>11, <1>12, <1>14 DEF n

LEMMA FlattenAppend ==
    ASSUME NEW S, NEW ss \in Seq(Seq(S)), NEW t \in Seq(S)
    PROVE  FlattenSeq(Append(ss, t)) = FlattenSeq(ss) \o t
<1> DEFINE tt == Append(ss, t)
           n == Len(ss)
<1>1. /\ tt \in Seq(Seq(S)) /\ tt # << >> /\ n \in Nat /\ Len(tt) = n + 1
      /\ tt[n + 1] = t /\ \A i \in 1 .. n : tt[i] = ss[i]
  BY AppendProperties, LenProperties
<1>2. PICK g \in [1 .. n + 1 -> Seq(S)] :
          /\ FlattenSeq(tt) = g[n + 1]
          /\ \A i \in 1 .. n + 1 : g[i] = IF i = 1 THEN tt[i] ELSE g[i - 1] \o tt[i]
  <2> HIDE DEF tt, n
  <2>1. PICK g \in [1 .. Len(tt) -> Seq(S)] :
            /\ FlattenSeq(tt) = g[Len(tt)]
            /\ \A i \in 1 .. Len(tt) : g[i] = IF i = 1 THEN tt[i] ELSE g[i - 1] \o tt[i]
    BY <1>1, FlattenTable, ZenonT(40)
  <2>2. Len(tt) = n + 1
    BY <1>1
  <2>3. g \in [1 .. n + 1 -> Seq(S)]
    BY <2>2
  <2> QED
    BY <2>1, <2>2, <2>3
<1>3. CASE ss = << >>
  <2>1. FlattenSeq(ss) = << >>
    BY <1>3 DEF FlattenSeq
  <2>2. n = 0
    BY <1>3
  <2>3. FlattenSeq(tt) = t
    BY <1>1, <1>2, <2>2
  <2> QED
    BY <2>1, <2>3, ConcatEmptySeq
<1>4. CASE ss # << >>
  <2>1. PICK f \in [1 .. n -> Seq(S)] :
            /\ FlattenSeq(ss) = f[n]
            /\ \A i \in 1 .. n : f[i] = IF i = 1 THEN ss[i] ELSE f[i - 1] \o ss[i]
    BY <1>4, FlattenTable
  <2> DEFINE T == {k \in Nat : k \in 1 .. n => f[k] = g[k]}
  <2> HIDE DEF n, tt
  <2>2. ASSUME NEW k \in T, k + 1 \in 1 .. n
        PROVE  f[k + 1] = g[k + 1]
    <3> PICK m : m = k + 1
      OBVIOUS
    <3>1. m \in 1 .. n /\ m \in 1 .. n + 1 /\ m - 1 = k /\ (m # 1 => k \in 1 .. n)
      BY <1>1, <2>2
    <3>2. f[m] = (IF m = 1 THEN ss[m] ELSE f[k] \o ss[m]) /\ g[m] = (IF m = 1 THEN tt[m] ELSE g[k] \o tt[m])
      <4>1. f[m] = IF m = 1 THEN ss[m] ELSE f[m - 1] \o ss[m]
        BY <2>1, <3>1
      <4>2. g[m] = IF m = 1 THEN tt[m] ELSE g[m - 1] \o tt[m]
        BY <1>2, <3>1
      <4> QED
        BY <3>1, <4>1, <4>2
    <3>3. tt[m] = ss[m] /\ (m # 1 => f[k] = g[k])
      BY <1>1, <3>1
    <3> QED
      BY <3>2, <3>3
  <2>3. T = Nat
    <3>1. 0 \in T /\ T \subseteq Nat /\ \A k \in T : k + 1 \in T
      BY <2>2
    <3> HIDE DEF T
    <3> QED
      BY <3>1, NatSet
  <2>4. n \in 1 .. n /\ n + 1 # 1 /\ (n + 1) - 1 = n /\ n + 1 \in 1 .. n + 1
    BY <1>1, <1>4, EmptySeq DEF n
  <2>5. f[n] = g[n]
    <3>1. n \in T
      BY <1>1, <2>3
    <3> QED
      BY <2>4, <3>1
  <2>6. g[n + 1] = g[n] \o tt[n + 1]
    <3> PICK m : m = n + 1
      OBVIOUS
    <3>1. m \in 1 .. n + 1 /\ m # 1 /\ m - 1 = n
      BY <2>4
    <3>2. g[m] = g[m - 1] \o tt[m]
      BY <1>2, <3>1
    <3> QED
      BY <3>1, <3>2
  <2> QED
    BY <1>1, <1>2, <2>1, <2>5, <2>6 DEF tt
<1> QED
  BY <1>3, <1>4

LEMMA FlattenEmpty == FlattenSeq(<< >>) = << >>
BY DEF FlattenSeq

LEMMA FlattenType ==
    ASSUME NEW S, NEW ss \in Seq(Seq(S))
    PROVE  FlattenSeq(ss) \in Seq(S)
<1>1. CASE ss = << >>
  BY <1>1, FlattenEmpty, EmptySeq
<1>2. CASE ss # << >>
  <2>1. PICK f \in [1 .. Len(ss) -> Seq(S)] : FlattenSeq(ss) = f[Len(ss)]
    BY <1>2, FlattenTable
  <2>2. Len(ss) \in 1 .. Len(ss)
    BY <1>2, EmptySeq
  <2> QED
    BY <2>1, <2>2
<1> QED
  BY <1>1, <1>2

LEMMA FlattenOne ==
    ASSUME NEW S, NEW t \in Seq(S)
    PROVE  FlattenSeq(<< t >>) = t
<1>1. << t >> = Append(<< >>, t) /\ << >> \in Seq(Seq(S))
  BY EmptySeq
<1>2. FlattenSeq(<< t >>) = FlattenSeq(<< >>) \o t
  BY <1>1, FlattenAppend
<1>3. << >> \o t = t
  BY ConcatEmptySeq
<1> QED
  BY <1>2, <1>3, FlattenEmpty

LEMMA FlattenConcat ==
    ASSUME NEW S, NEW ss \in Seq(Seq(S)), NEW tt \in Seq(Seq(S))
    PROVE  FlattenSeq(ss \o tt) = FlattenSeq(ss) \o FlattenSeq(tt)
<1> DEFINE Q == Seq(Seq(S))
           T == {k \in Nat : \A u \in Q : Len(u) = k =>
                                 FlattenSeq(ss \o u) = FlattenSeq(ss) \o FlattenSeq(u)}
<1>1. 0 \in T
  <2>1. ASSUME NEW u \in Q, Len(u) = 0
        PROVE  FlattenSeq(ss \o u) = FlattenSeq(ss) \o FlattenSeq(u)
    <3>1. u = << >>
      BY <2>1, EmptySeq
    <3> QED
      BY <3>1, FlattenEmpty, FlattenType, ConcatEmptySeq
  <2> QED
    BY <2>1
<1>2. ASSUME NEW k \in T
      PROVE  k + 1 \in T
  <2>1. ASSUME NEW u \in Q, Len(u) = k + 1
        PROVE  FlattenSeq(ss \o u) = FlattenSeq(ss) \o FlattenSeq(u)
    <3>1. u # << >>
      BY <2>1, EmptySeq
    <3>2. PICK v \in Q, t \in Seq(S) : u = Append(v, t)
      BY <3>1, SequenceEmptyOrAppend
    <3>3. Len(v) = k
      <4>1. Len(u) = Len(v) + 1 /\ Len(v) \in Nat
        BY <3>2, AppendProperties, LenProperties
      <4> QED
        BY <2>1, <4>1
    <3>4. ss \o u = Append(ss \o v, t) /\ ss \o v \in Q
      <4>1. << t >> \in Q
        OBVIOUS
      <4>2. u = v \o << t >> /\ Append(ss \o v, t) = (ss \o v) \o << t >> /\ ss \o v \in Q
        BY <3>2, AppendIsConcat, ConcatProperties
      <4> QED
        BY <4>1, <4>2, ConcatAssociative
    <3>5. FlattenSeq(ss \o u) = FlattenSeq(ss \o v) \o t
      BY <3>4, FlattenAppend
    <3>6. FlattenSeq(ss \o v) = FlattenSeq(ss) \o FlattenSeq(v)
      BY <3>3
    <3>7. FlattenSeq(u) = FlattenSeq(v) \o t
      BY <3>2, FlattenAppend
    <3>8. FlattenSeq(ss) \in Seq(S) /\ FlattenSeq(v) \in Seq(S)
      BY FlattenType
    <3>9. (FlattenSeq(ss) \o FlattenSeq(v)) \o t = FlattenSeq(ss) \o (FlattenSeq(v) \o t)
      <4> HIDE DEF Q, T
      <4> PICK x \in Seq(S), y \in Seq(S) : x = FlattenSeq(ss) /\ y = FlattenSeq(v)
        BY <3>8
      <4>1. (x \o y) \o t = x \o (y \o t)
        BY ConcatAssociative
      <4> QED
        BY <4>1
    <3> QED
      BY <3>5, <3>6, <3>7, <3>9
  <2> QED
    BY <2>1
<1>3. T = Nat
  <2>1. T \subseteq Nat
    OBVIOUS
  <2> HIDE DEF T
  <2> QED
    BY <1>1, <1>2, <2>1, NatSet
<1>4. Len(tt) \in T
  BY <1>3, LenProperties
<1> QED
  BY <1>4

-----------------------------------------------------------------------------
(* The characters that are escaped.                                        *)

\* Braces are beyond SMT: they have names here.
Braces(lb, rb) ==
    /\ Special = << "\\", "^", ".", "$", "|", "(", ")", "[", "]", "*", "+", "?", "/", lb, rb >>
    /\ lb # rb /\ \A c \in {"\\", "^", ".", "$", "|", "(", ")", "[", "]", "*", "+", "?", "/"} : lb # c /\ rb # c

LEMMA SomeBraces == \E lb, rb : Braces(lb, rb)
<1>1. Braces("{", "}")
  BY DEF Special, Braces
<1> QED
  BY <1>1

(* No character is escaped twice.                                         *)
LEMMA SpecialDistinct ==
    /\ DOMAIN Special = 1 .. 15 /\ Len(Special) = 15
    /\ \A k, j \in 1 .. 15 : Special[k] = Special[j] => k = j
<1> PICK lb, rb : Braces(lb, rb)
  BY SomeBraces
<1> USE DEF Braces
<1> DEFINE N == {1, 2, 3, 4, 5, 6, 7, 8, 9, 10, 11, 12, 13, 14, 15}
<1>1. /\ Special[1] = "\\"
      /\ Special[2] = "^"
      /\ Special[3] = "."
      /\ Special[4] = "$"
      /\ Special[5] = "|"
      /\ Special[6] = "("
      /\ Special[7] = ")"
      /\ Special[8] = "["
      /\ Special[9] = "]"
      /\ Special[10] = "*"
      /\ Special[11] = "+"
      /\ Special[12] = "?"
      /\ Special[13] = "/"
      /\ Special[14] = lb /\ Special[15] = rb
  OBVIOUS
<1>2. \A k \in N : 
          /\ Special[k] = Special[1] => k = 1
          /\ Special[k] = Special[2] => k = 2
          /\ Special[k] = Special[3] => k = 3
          /\ Special[k] = Special[4] => k = 4
          /\ Special[k] = Special[5] => k = 5
          /\ Special[k] = Special[6] => k = 6
          /\ Special[k] = Special[7] => k = 7
          /\ Special[k] = Special[8] => k = 8
          /\ Special[k] = Special[9] => k = 9
          /\ Special[k] = Special[10] => k = 10
          /\ Special[k] = Special[11] => k = 11
          /\ Special[k] = Special[12] => k = 12
          /\ Special[k] = Special[13] => k = 13
          /\ Special[k] = Special[14] => k = 14
          /\ Special[k] = Special[15] => k = 15
  BY <1>1
<1>3. N = 1 .. 15 /\ DOMAIN Special = 1 .. 15 /\ Len(Special) = 15
  OBVIOUS
<1>4. \A k, j \in N : Special[k] = Special[j] => k = j
  BY <1>2
<1> QED
  BY <1>3, <1>4

(* Characters: the provers know no literal to be in STRING.                *)
Char == STRING \cup ToSet(Special)

LEMMA SpecialChars ==
    /\ \A k \in 1 .. 15 : Special[k] \in Char
    /\ Special[1] = "\\" /\ Special[3] = "." /\ Special[10] = "*" /\ Special[12] = "?"
    /\ "\\" \in Char /\ "." \in Char /\ "*" \in Char /\ "?" \in Char /\ "/" \in Char
<1> PICK lb, rb : Braces(lb, rb)
  BY SomeBraces
<1>1. \A k \in 1 .. 15 : Special[k] \in Char
  BY SpecialDistinct DEF Char, ToSet
<1>2. /\ Special[1] = "\\" /\ Special[3] = "." /\ Special[10] = "*" /\ Special[12] = "?"
      /\ Special[13] = "/"
  BY DEF Braces
<1> QED
  BY <1>1, <1>2

-----------------------------------------------------------------------------
(* A function from characters to strings, spelt out along a string.        *)

Text == Seq(Char)
Code == [Char -> Text]
Spell(s, h) == FlattenSeq([i \in DOMAIN s |-> h[s[i]]])

LEMMA MapType ==
    ASSUME NEW s \in Text, NEW h \in Code
    PROVE  [i \in DOMAIN s |-> h[s[i]]] \in Seq(Text)
<1>1. DOMAIN s = 1 .. Len(s) /\ Len(s) \in Nat /\ \A i \in DOMAIN s : s[i] \in Char
  BY LenProperties, ElementOfSeq DEF Text
<1>2. \A i \in 1 .. Len(s) : h[s[i]] \in Text
  BY <1>1 DEF Code
<1> DEFINE q == [i \in 1 .. Len(s) |-> h[s[i]]]
<1>3. q \in Seq(Text)
  <2> HIDE DEF Text
  <2> QED
    BY <1>1, <1>2, SeqDef
<1> QED
  BY <1>1, <1>3

LEMMA SpellType ==
    ASSUME NEW s \in Text, NEW h \in Code
    PROVE  Spell(s, h) \in Text
<1> DEFINE q == [i \in DOMAIN s |-> h[s[i]]]
<1>1. q \in Seq(Text)
  BY MapType
<1> HIDE DEF q
<1>2. FlattenSeq(q) \in Text
  BY <1>1, FlattenType DEF Text
<1> QED
  BY <1>2 DEF Spell, q

LEMMA SpellEmpty ==
    ASSUME NEW h \in Code
    PROVE  Spell(<< >>, h) = << >>
<1>1. [i \in DOMAIN << >> |-> h[<< >>[i]]] = << >>
  OBVIOUS
<1> QED
  BY <1>1, FlattenEmpty DEF Spell

LEMMA SpellAppend ==
    ASSUME NEW s \in Text, NEW x \in Char, NEW h \in Code
    PROVE  Spell(Append(s, x), h) = Spell(s, h) \o h[x]
<1> DEFINE q == [i \in DOMAIN s |-> h[s[i]]]
           t == Append(s, x)
           r == [i \in DOMAIN t |-> h[t[i]]]
<1>0. PICK n \in Nat : n = Len(s)
  BY LenProperties DEF Text
<1>1. /\ t \in Text /\ DOMAIN s = 1 .. n /\ DOMAIN t = 1 .. n + 1
      /\ t[n + 1] = x /\ \A i \in 1 .. n : t[i] = s[i]
  BY <1>0, AppendProperties, LenProperties DEF Text
<1>2. q \in Seq(Text) /\ r \in Seq(Text) /\ h[x] \in Text
  <2>1. q \in Seq(Text)
    BY MapType
  <2>2. r \in Seq(Text)
    <3> HIDE DEF t
    <3> QED
      BY <1>1, MapType
  <2> QED
    BY <2>1, <2>2 DEF Code
<1>3. DOMAIN q = 1 .. n /\ DOMAIN r = 1 .. n + 1 /\ r[n + 1] = h[x]
      /\ \A i \in 1 .. n : r[i] = q[i]
  <2> HIDE DEF t
  <2> QED
    BY <1>1
<1>4. r = Append(q, h[x])
  <2> DEFINE a == Append(q, h[x])
  <2>1. Len(q) = n
    <3> HIDE DEF q
    <3> QED
      BY <1>2, <1>3, LenProperties
  <2>2. a \in Seq(Text) /\ Len(a) = n + 1 /\ DOMAIN a = 1 .. n + 1
        /\ a[n + 1] = h[x] /\ \A i \in 1 .. n : a[i] = q[i]
    <3> HIDE DEF q
    <3> QED
      BY <1>2, <2>1, AppendProperties, LenProperties
  <2>3. Len(r) = n + 1
    <3> HIDE DEF r
    <3> QED
      BY <1>2, <1>3, LenProperties
  <2> HIDE DEF a, r, q
  <2>4. \A i \in 1 .. n + 1 : r[i] = a[i]
    BY <1>3, <2>2
  <2>5. r = a
    BY <1>2, <2>2, <2>3, <2>4, SeqEqual
  <2> QED
    BY <2>5 DEF a
<1>5. FlattenSeq(r) = FlattenSeq(q) \o h[x]
  <2> HIDE DEF q, r
  <2> QED
    BY <1>2, <1>4, FlattenAppend DEF Text
<1> QED
  BY <1>5 DEF Spell

(* A set of sequences with the empty one that is closed under Append has   *)
(* them all.                                                               *)
LEMMA SeqSet ==
    ASSUME NEW S, NEW T, T \subseteq Seq(S), << >> \in T,
           \A s \in T : \A x \in S : Append(s, x) \in T
    PROVE  T = Seq(S)
<1> DEFINE N == {k \in Nat : \A u \in Seq(S) : Len(u) = k => u \in T}
<1>1. 0 \in N
  <2>1. \A u \in Seq(S) : Len(u) = 0 => u = << >>
    BY EmptySeq
  <2> QED
    BY <2>1
<1>2. ASSUME NEW k \in N
      PROVE  k + 1 \in N
  <2> PICK m \in Nat : m = k + 1
    OBVIOUS
  <2>1. ASSUME NEW u \in Seq(S), Len(u) = m
        PROVE  u \in T
    <3>1. u # << >>
      BY <2>1, EmptySeq
    <3>2. PICK v \in Seq(S), x \in S : u = Append(v, x)
      BY <3>1, SequenceEmptyOrAppend
    <3>3. Len(v) = k
      <4>1. Len(u) = Len(v) + 1 /\ Len(v) \in Nat
        BY <3>2, AppendProperties, LenProperties
      <4> QED
        BY <2>1, <4>1
    <3>4. v \in T
      BY <3>3
    <3> HIDE DEF N
    <3> QED
      BY <3>2, <3>4
  <2> QED
    BY <2>1
<1>3. N = Nat
  <2>1. N \subseteq Nat
    OBVIOUS
  <2> HIDE DEF N
  <2> QED
    BY <1>1, <1>2, <2>1, NatSet
<1>4. ASSUME NEW u \in Seq(S)
      PROVE  u \in T
  <2>1. Len(u) \in N
    BY <1>3, LenProperties
  <2> QED
    BY <2>1
<1> QED
  BY <1>4

LEMMA TextConcat ==
    ASSUME NEW p \in Text, NEW q \in Text
    PROVE  /\ p \o q \in Text /\ << >> \in Text
           /\ p \o << >> = p /\ << >> \o p = p
BY ConcatProperties, ConcatEmptySeq, EmptySeq DEF Text

LEMMA TextAssociative ==
    ASSUME NEW p \in Text, NEW q \in Text, NEW r \in Text
    PROVE  (p \o q) \o r = p \o (q \o r)
<1> USE DEF Text
<1> QED
  BY ConcatAssociative

LEMMA SpellOne ==
    ASSUME NEW x \in Char, NEW h \in Code
    PROVE  Spell(<< x >>, h) = h[x]
<1>1. << x >> = Append(<< >>, x) /\ << >> \in Text
  BY EmptySeq DEF Text
<1>2. Spell(<< x >>, h) = Spell(<< >>, h) \o h[x]
  BY <1>1, SpellAppend
<1>3. h[x] \in Text
  BY DEF Code
<1>4. << >> \o h[x] = h[x]
  BY <1>3, ConcatEmptySeq DEF Text
<1> QED
  BY <1>2, <1>4, SpellEmpty

LEMMA SpellConcat ==
    ASSUME NEW s \in Text, NEW t \in Text, NEW h \in Code
    PROVE  Spell(s \o t, h) = Spell(s, h) \o Spell(t, h)
<1> DEFINE T == {u \in Text : Spell(s \o u, h) = Spell(s, h) \o Spell(u, h)}
<1>1. << >> \in T
  <2>1. Spell(s, h) \in Text /\ << >> \in Text
    BY SpellType, EmptySeq DEF Text
  <2>2. s \o << >> = s /\ Spell(s, h) \o << >> = Spell(s, h)
    <3> PICK p \in Text : p = Spell(s, h)
      BY <2>1
    <3>1. s \o << >> = s /\ p \o << >> = p
      BY ConcatEmptySeq DEF Text
    <3> QED
      BY <3>1
  <2> QED
    BY <2>1, <2>2, SpellEmpty
<1>2. ASSUME NEW u \in T, NEW x \in Char
      PROVE  Append(u, x) \in T
  <2>1. u \in Text /\ Spell(s \o u, h) = Spell(s, h) \o Spell(u, h)
    OBVIOUS
  <2> HIDE DEF T
  <2>2. /\ Append(u, x) \in Text /\ s \o u \in Text
        /\ s \o Append(u, x) = Append(s \o u, x)
    <3>1. Append(u, x) \in Text /\ s \o u \in Text
      BY <2>1, AppendProperties, ConcatProperties DEF Text
    <3>2. << x >> \in Text
      BY DEF Text
    <3>3. Append(u, x) = u \o << x >> /\ Append(s \o u, x) = (s \o u) \o << x >>
      BY <2>1, <3>1, AppendIsConcat DEF Text
    <3>4. (s \o u) \o << x >> = s \o (u \o << x >>)
      BY <2>1, <3>2, ConcatAssociative, SMTT(30) DEF Text
    <3> QED
      BY <3>1, <3>3, <3>4
  <2>3. Spell(s \o Append(u, x), h) = Spell(s \o u, h) \o h[x]
    BY <2>2, SpellAppend
  <2>4. Spell(Append(u, x), h) = Spell(u, h) \o h[x]
    BY <2>1, SpellAppend
  <2>5. (Spell(s, h) \o Spell(u, h)) \o h[x] = Spell(s, h) \o (Spell(u, h) \o h[x])
    <3>1. Spell(s, h) \in Text /\ Spell(u, h) \in Text /\ h[x] \in Text
      BY <2>1, SpellType DEF Code
    <3> QED
      BY <3>1, TextAssociative, ZenonT(40)
  <2> QED
    BY <2>1, <2>2, <2>3, <2>4, <2>5 DEF T
<1>3. T = Text
  <2>1. T \subseteq Text
    OBVIOUS
  <2> HIDE DEF T
  <2> QED
    BY <1>1, <1>2, <2>1, SeqSet DEF Text
<1> QED
  BY <1>3

LEMMA EscapeSpells ==
    ASSUME NEW s \in Text, NEW c \in Char
    PROVE  LET h == [x \in Char |-> IF x = c THEN << "\\", c >> ELSE << x >>]
           IN  h \in Code /\ Escape(s, c) = Spell(s, h)
<1> DEFINE h == [x \in Char |-> IF x = c THEN << "\\", c >> ELSE << x >>]
<1>1. h \in Code
  <2>1. << "\\", c >> \in Text /\ \A x \in Char : << x >> \in Text
    BY SpecialChars DEF Text
  <2> QED
    BY <2>1 DEF Code
<1>2. DOMAIN s = 1 .. Len(s) /\ Len(s) \in Nat /\ \A i \in DOMAIN s : s[i] \in Char
  BY LenProperties, ElementOfSeq DEF Text
<1>3. [i \in DOMAIN s |-> IF s[i] = c THEN << "\\", c >> ELSE << s[i] >>] = [i \in DOMAIN s |-> h[s[i]]]
  BY <1>2
<1> QED
  BY <1>1, <1>3 DEF Escape, Spell

LEMMA EscapeType ==
    ASSUME NEW s \in Text, NEW c \in Char
    PROVE  Escape(s, c) \in Text
<1> DEFINE h == [x \in Char |-> IF x = c THEN << "\\", c >> ELSE << x >>]
<1>1. h \in Code /\ Escape(s, c) = Spell(s, h)
  BY EscapeSpells
<1> HIDE DEF h
<1> QED
  BY <1>1, SpellType

LEMMA EscapeConcat ==
    ASSUME NEW s \in Text, NEW t \in Text, NEW c \in Char
    PROVE  Escape(s \o t, c) = Escape(s, c) \o Escape(t, c)
<1> DEFINE h == [x \in Char |-> IF x = c THEN << "\\", c >> ELSE << x >>]
<1>1. h \in Code /\ Escape(s, c) = Spell(s, h) /\ Escape(t, c) = Spell(t, h)
  BY EscapeSpells
<1>2. s \o t \in Text
  BY TextConcat
<1>3. Escape(s \o t, c) = Spell(s \o t, h)
  BY <1>2, EscapeSpells
<1> HIDE DEF h
<1> QED
  BY <1>1, <1>3, SpellConcat

LEMMA EscapeEachTable ==
    ASSUME NEW s \in Text, NEW order \in Text
    PROVE  \E f \in [0 .. Len(order) -> Text] :
               /\ EscapeEach(s, order) = f[Len(order)]
               /\ f[0] = s
               /\ \A k \in 1 .. Len(order) : f[k] = Escape(f[k - 1], order[k])
<1> PICK n \in Nat : n = Len(order)
  BY LenProperties DEF Text
<1> DEFINE D == 0 .. n
           rank == [d \in D |-> d]
           F == [d \in D |-> [g \in [D -> Text] |->
                    IF d = 0 THEN s ELSE Escape(g[d - 1], order[d])]]
           def(g) == [k \in 0 .. Len(order) |-> IF k = 0 THEN s ELSE Escape(g[k - 1], order[k])]
           after == CHOOSE g : g = def(g)
<1>1. \A k \in 1 .. n : order[k] \in Char
  BY ElementOfSeq DEF Text
<1>2. ASSUME NEW d \in D, NEW g \in [D -> Text]
      PROVE  (IF d = 0 THEN s ELSE Escape(g[d - 1], order[d])) \in Text
  <2>1. d # 0 => d - 1 \in D /\ d \in 1 .. n
    OBVIOUS
  <2>2. d # 0 => g[d - 1] \in Text /\ order[d] \in Char
    BY <1>1, <2>1
  <2> QED
    BY <2>2, EscapeType
<1>3. F \in Rules(D, Text)
  <2> HIDE DEF D
  <2> QED
    BY <1>2 DEF Rules
<1>4. Recursive(F, rank, D, Text)
  <2> SUFFICES ASSUME NEW d \in D, NEW g \in [D -> Text], NEW h \in [D -> Text],
                      \A e \in D : rank[e] < rank[d] => g[e] = h[e]
               PROVE  F[d][g] = F[d][h]
    BY DEF Recursive, Agree
  <2>1. d # 0 => d - 1 \in D /\ d - 1 < d
    OBVIOUS
  <2>2. d # 0 => g[d - 1] = h[d - 1]
    BY <2>1
  <2> HIDE DEF D
  <2> QED
    BY <2>2
<1>5. Solvable(F, D, Text)
  <2> PICK N \in Nat : N = n + 1
    OBVIOUS
  <2>1. rank \in [D -> Nat] /\ \A d \in D : rank[d] < N
    OBVIOUS
  <2> HIDE DEF D, rank, F
  <2> QED
    BY <1>3, <1>4, <2>1, Recursion
<1>6. PICK g \in [D -> Text] : \A d \in D : g[d] = F[d][g]
  BY <1>5 DEF Solvable
<1>7. g = def(g)
  <2>1. \A d \in D : g[d] = IF d = 0 THEN s ELSE Escape(g[d - 1], order[d])
    <3> HIDE DEF D
    <3> QED
      BY <1>6
  <2> QED
    BY <2>1
<1>8. after = def(after)
  <2> HIDE DEF def
  <2> QED
    BY <1>7
<1>9. EscapeEach(s, order) = after[n]
  BY DEF EscapeEach
<1>10. /\ DOMAIN after = D
       /\ \A k \in D : after[k] = IF k = 0 THEN s ELSE Escape(after[k - 1], order[k])
  <2> HIDE DEF after
  <2> QED
    BY <1>8
<1> HIDE DEF after
<1>11. \A k \in D : after[k] \in Text
  <2> DEFINE T == {k \in Nat : k \in D => after[k] \in Text}
  <2>1. 0 \in T
    BY <1>10
  <2>2. ASSUME NEW k \in T
        PROVE  k + 1 \in T
    <3> PICK m \in Nat : m = k + 1
      OBVIOUS
    <3>1. CASE m \in D
      <4>1. k \in D /\ m # 0 /\ m - 1 = k /\ m \in 1 .. n
        BY <3>1
      <4>2. after[k] \in Text /\ after[m] = Escape(after[k], order[m]) /\ order[m] \in Char
        BY <1>1, <1>10, <3>1, <4>1
      <4> QED
        BY <4>2, EscapeType
    <3> QED
      BY <3>1
  <2>3. T = Nat
    <3>1. T \subseteq Nat
      OBVIOUS
    <3> HIDE DEF T
    <3> QED
      BY <2>1, <2>2, <3>1, NatSet
  <2> QED
    BY <2>3
<1>12. after \in [D -> Text]
  <2>1. after = [k \in D |-> after[k]]
    <3>1. after = [k \in D |-> IF k = 0 THEN s ELSE Escape(after[k - 1], order[k])]
      BY <1>8
    <3> QED
      BY <3>1
  <2> HIDE DEF D
  <2> QED
    BY <1>11, <2>1
<1>13. after[0] = s /\ \A k \in 1 .. n : after[k] = Escape(after[k - 1], order[k])
  BY <1>10
<1> QED
  BY <1>9, <1>12, <1>13

(* The replacements take the pattern apart character by character.         *)
LEMMA EscapeEachConcat ==
    ASSUME NEW s \in Text, NEW t \in Text, NEW order \in Text
    PROVE  /\ EscapeEach(s \o t, order) = EscapeEach(s, order) \o EscapeEach(t, order)
           /\ EscapeEach(s, order) \in Text
<1> PICK n \in Nat : n = Len(order)
  BY LenProperties DEF Text
<1> PICK st \in Text : st = s \o t
  BY TextConcat
<1>1. \A k \in 1 .. n : order[k] \in Char
  BY ElementOfSeq DEF Text
<1>2. PICK f \in [0 .. n -> Text] :
          EscapeEach(s, order) = f[n] /\ f[0] = s /\ \A k \in 1 .. n : f[k] = Escape(f[k - 1], order[k])
  BY EscapeEachTable
<1>3. PICK g \in [0 .. n -> Text] :
          EscapeEach(t, order) = g[n] /\ g[0] = t /\ \A k \in 1 .. n : g[k] = Escape(g[k - 1], order[k])
  BY EscapeEachTable
<1>4. PICK h \in [0 .. n -> Text] :
          EscapeEach(st, order) = h[n] /\ h[0] = st /\ \A k \in 1 .. n : h[k] = Escape(h[k - 1], order[k])
  BY EscapeEachTable
<1> DEFINE T == {k \in Nat : k \in 0 .. n => h[k] = f[k] \o g[k]}
<1>5. 0 \in T
  BY <1>2, <1>3, <1>4
<1>6. ASSUME NEW k \in T
      PROVE  k + 1 \in T
  <2> PICK m \in Nat : m = k + 1
    OBVIOUS
  <2>1. CASE m \in 0 .. n
    <3>1. k \in 0 .. n /\ m \in 1 .. n /\ m - 1 = k
      BY <2>1
    <3>2. h[k] = f[k] \o g[k] /\ f[k] \in Text /\ g[k] \in Text /\ order[m] \in Char
      BY <1>1, <3>1
    <3>3. h[m] = Escape(h[k], order[m]) /\ f[m] = Escape(f[k], order[m]) /\ g[m] = Escape(g[k], order[m])
      BY <1>2, <1>3, <1>4, <3>1
    <3>4. Escape(f[k] \o g[k], order[m]) = Escape(f[k], order[m]) \o Escape(g[k], order[m])
      BY <3>2, EscapeConcat
    <3> QED
      BY <3>2, <3>3, <3>4
  <2> QED
    BY <2>1
<1>7. T = Nat
  <2>1. T \subseteq Nat
    OBVIOUS
  <2> HIDE DEF T
  <2> QED
    BY <1>5, <1>6, <2>1, NatSet
<1>8. h[n] = f[n] \o g[n] /\ f[n] \in Text
  <2>1. n \in T /\ n \in 0 .. n
    BY <1>7
  <2> QED
    BY <2>1
<1> QED
  BY <1>2, <1>3, <1>4, <1>8

LEMMA Pair ==
    ASSUME NEW S, NEW b \in S, NEW x \in S
    PROVE  /\ << b >> \in Seq(S) /\ << b, x >> \in Seq(S)
           /\ Append(<< b >>, x) = << b, x >> /\ << b >> \o << x >> = << b, x >>
<1>1. << b >> \in Seq(S) /\ << b, x >> \in Seq(S)
  OBVIOUS
<1> PICK a : a = Append(<< b >>, x)
  OBVIOUS
<1>2. a \in Seq(S) /\ Len(a) = 2 /\ a[1] = b /\ a[2] = x
  BY <1>1, AppendProperties
<1>3. a = << b, x >>
  <2> PICK d \in Seq(S) : d = << b, x >>
    BY <1>1
  <2>1. Len(d) = 2 /\ \A i \in 1 .. 2 : d[i] = a[i]
    BY <1>2
  <2>2. a = d
    BY <1>2, <2>1, SeqEqual
  <2> QED
    BY <2>2
<1>4. a = << b >> \o << x >>
  BY <1>1, AppendIsConcat
<1> QED
  BY <1>1, <1>3, <1>4

LEMMA EscapeOne ==
    ASSUME NEW x \in Char, NEW c \in Char
    PROVE  /\ Escape(<< x >>, c) = IF x = c THEN << "\\", x >> ELSE << x >>
           /\ c # "\\" /\ c # x => Escape(<< "\\", x >>, c) = << "\\", x >>
<1> DEFINE h == [y \in Char |-> IF y = c THEN << "\\", c >> ELSE << y >>]
<1>1. << x >> \in Text /\ << "\\", x >> \in Text /\ << "\\" >> \in Text /\ "\\" \in Char
  BY SpecialChars DEF Text
<1>2. /\ h \in Code /\ Escape(<< x >>, c) = Spell(<< x >>, h)
      /\ Escape(<< "\\", x >>, c) = Spell(<< "\\", x >>, h)
  BY <1>1, EscapeSpells
<1>3. Spell(<< x >>, h) = h[x] /\ Spell(<< "\\" >>, h) = h["\\"]
  <2> HIDE DEF h
  <2> QED
    BY <1>1, <1>2, SpellOne
<1>4. Spell(<< "\\", x >>, h) = h["\\"] \o h[x]
  <2>1. Append(<< "\\" >>, x) = << "\\", x >>
    BY <1>1, Pair
  <2> HIDE DEF h
  <2>2. Spell(Append(<< "\\" >>, x), h) = Spell(<< "\\" >>, h) \o h[x]
    BY <1>1, <1>2, SpellAppend
  <2> QED
    BY <1>3, <2>1, <2>2
<1>5. h[x] = IF x = c THEN << "\\", c >> ELSE << x >>
  OBVIOUS
<1>6. c # "\\" => h["\\"] = << "\\" >>
  BY <1>1
<1>7. << "\\" >> \o << x >> = << "\\", x >>
  BY <1>1, Pair
<1> HIDE DEF h
<1> QED
  BY <1>2, <1>3, <1>4, <1>5, <1>6, <1>7

LEMMA SpecialText == Special \in Text
<1>1. Special = [i \in 1 .. 15 |-> Special[i]]
  <2> PICK lb, rb : Braces(lb, rb)
    BY SomeBraces
  <2> QED
    BY SpecialDistinct DEF Braces
<1>2. Special \in [1 .. 15 -> Char]
  BY <1>1, SpecialChars
<1> QED
  BY <1>2, SeqDef DEF Text

LEMMA EscapeRegexEmpty == EscapeRegex(<< >>) = << >>
<1>1. << >> \in Text
  BY EmptySeq DEF Text
<1>2. EscapeEach(<< >> \o << >>, Special) = EscapeEach(<< >>, Special) \o EscapeEach(<< >>, Special)
      /\ EscapeEach(<< >>, Special) \in Text
  BY <1>1, SpecialText, EscapeEachConcat
<1> PICK e \in Text : e = EscapeEach(<< >>, Special)
  BY <1>2
<1>3. e = e \o e
  BY <1>1, <1>2, TextConcat
<1>4. e = << >>
  BY <1>3, ConcatEqualIffEmpty DEF Text
<1> QED
  BY <1>4 DEF EscapeRegex

Escaped == [x \in Char |-> IF x \in ToSet(Special) THEN << "\\", x >> ELSE << x >>]

(* The backslash is escaped first, so that no later replacement sees the   *)
(* backslashes of another.                                                 *)
LEMMA EscapeRegexOne ==
    ASSUME NEW x \in Char
    PROVE  EscapeRegex(<< x >>) = Escaped[x]
<1> DEFINE esc == << "\\", x >>
           Seen(k) == \E j \in 1 .. k : Special[j] = x
<1>1. Special \in Text /\ << x >> \in Text
  BY SpecialText DEF Text
<1>2. PICK f \in [0 .. 15 -> Text] :
          /\ EscapeEach(<< x >>, Special) = f[15] /\ f[0] = << x >>
          /\ \A k \in 1 .. 15 : f[k] = Escape(f[k - 1], Special[k])
  <2> PICK t \in Text, o \in Text : t = << x >> /\ o = Special
    BY <1>1
  <2>1. Len(o) = 15
    BY SpecialDistinct
  <2>2. \E f \in [0 .. Len(o) -> Text] :
            /\ EscapeEach(t, o) = f[Len(o)] /\ f[0] = t
            /\ \A k \in 1 .. Len(o) : f[k] = Escape(f[k - 1], o[k])
    BY EscapeEachTable, SMTT(30)
  <2> QED
    BY <2>1, <2>2
<1> DEFINE T == {k \in Nat : k \in 0 .. 15 => f[k] = IF Seen(k) THEN esc ELSE << x >>}
<1>3. 0 \in T
  BY <1>2
<1>4. ASSUME NEW k \in T
      PROVE  k + 1 \in T
  <2> PICK m \in Nat : m = k + 1
    OBVIOUS
  <2>1. CASE m \in 0 .. 15
    <3>1. k \in 0 .. 15 /\ m \in 1 .. 15 /\ m - 1 = k
      BY <2>1
    <3> PICK c \in Char : c = Special[m]
      BY <3>1, SpecialChars
    <3>2. f[k] = (IF Seen(k) THEN esc ELSE << x >>) /\ f[m] = Escape(f[k], c)
      BY <1>2, <3>1
    <3>3. Seen(m) <=> Seen(k) \/ c = x
      BY <3>1
    <3>4. Seen(k) => c # "\\" /\ c # x
      <4> SUFFICES ASSUME NEW j \in 1 .. k, Special[j] = x
                   PROVE  c # "\\" /\ c # x
        OBVIOUS
      <4>1. j \in 1 .. 15 /\ j # m /\ 1 # m /\ 1 \in 1 .. 15
        BY <3>1
      <4> QED
        BY <3>1, <4>1, SpecialDistinct, SpecialChars
    <3>5. Escape(<< x >>, c) = (IF x = c THEN esc ELSE << x >>) /\ (Seen(k) => Escape(esc, c) = esc)
      BY <3>4, EscapeOne
    <3> HIDE DEF Seen, esc
    <3>6. f[m] = IF Seen(m) THEN esc ELSE << x >>
      BY <3>2, <3>3, <3>4, <3>5
    <3> QED
      BY <3>6
  <2> QED
    BY <2>1
<1>5. T = Nat
  <2>1. T \subseteq Nat
    OBVIOUS
  <2> HIDE DEF T
  <2> QED
    BY <1>3, <1>4, <2>1, NatSet
<1>6. f[15] = IF Seen(15) THEN esc ELSE << x >>
  <2>1. 15 \in T
    BY <1>5
  <2> QED
    BY <2>1
<1>7. x \in ToSet(Special) <=> Seen(15)
  BY SpecialDistinct DEF ToSet
<1> QED
  BY <1>2, <1>6, <1>7 DEF Escaped, EscapeRegex

LEMMA EscapeRegexConcat ==
    ASSUME NEW s \in Text, NEW t \in Text
    PROVE  EscapeRegex(s \o t) = EscapeRegex(s) \o EscapeRegex(t)
<1>1. \A o \in Text : EscapeEach(s \o t, o) = EscapeEach(s, o) \o EscapeEach(t, o)
  BY EscapeEachConcat, ZenonT(40)
<1> QED
  BY <1>1, SpecialText DEF EscapeRegex

LEMMA EscapeRegexSpells ==
    ASSUME NEW s \in Text
    PROVE  Escaped \in Code /\ EscapeRegex(s) = Spell(s, Escaped)
<1>1. Escaped \in Code
  <2>1. \A x \in Char : << "\\", x >> \in Text /\ << x >> \in Text
    BY SpecialChars DEF Text
  <2> QED
    BY <2>1 DEF Escaped, Code
<1> DEFINE T == {u \in Text : EscapeRegex(u) = Spell(u, Escaped)}
<1>2. << >> \in T
  <2> PICK e \in Text : e = << >>
    BY EmptySeq DEF Text
  <2> QED
    BY EscapeRegexEmpty, SpellEmpty, <1>1
<1>3. ASSUME NEW u \in T, NEW x \in Char
      PROVE  Append(u, x) \in T
  <2>1. u \in Text /\ << x >> \in Text /\ Append(u, x) \in Text /\ Append(u, x) = u \o << x >>
    BY AppendProperties, AppendIsConcat DEF Text
  <2>2. EscapeRegex(u \o << x >>) = EscapeRegex(u) \o EscapeRegex(<< x >>)
    <3> PICK t \in Text : t = << x >>
      BY <2>1
    <3>1. EscapeRegex(u \o t) = EscapeRegex(u) \o EscapeRegex(t)
      <4> HIDE DEF T
      <4> QED
        BY <2>1, EscapeRegexConcat
    <3> QED
      BY <3>1
  <2>3. Spell(Append(u, x), Escaped) = Spell(u, Escaped) \o Escaped[x]
    BY <1>1, <2>1, SpellAppend
  <2> QED
    BY <2>1, <2>2, <2>3, EscapeRegexOne
<1>4. T = Text
  <2>1. T \subseteq Text
    OBVIOUS
  <2> HIDE DEF T
  <2> QED
    BY <1>2, <1>3, <2>1, SeqSet DEF Text
<1> QED
  BY <1>1, <1>4

-----------------------------------------------------------------------------
(* The stars and question marks back.                                      *)

\* What ReplaceEscaped puts in the place of character i.
Put(s, c, new, i) ==
    IF i \in 1 .. Len(s) - 1 /\ s[i] = "\\" /\ s[i + 1] = c THEN new
    ELSE IF i - 1 \in 1 .. Len(s) - 1 /\ s[i - 1] = "\\" /\ s[i - 1 + 1] = c THEN << >> ELSE << s[i] >>

LEMMA ReplaceIsPut ==
    ASSUME NEW s \in Text, NEW c, NEW new \in Text
    PROVE  /\ ReplaceEscaped(s, c, new) = FlattenSeq([i \in DOMAIN s |-> Put(s, c, new, i)])
           /\ [i \in DOMAIN s |-> Put(s, c, new, i)] \in Seq(Text)
<1>1. ReplaceEscaped(s, c, new) = FlattenSeq([i \in DOMAIN s |-> Put(s, c, new, i)])
  BY DEF ReplaceEscaped, Put
<1>2. DOMAIN s = 1 .. Len(s) /\ Len(s) \in Nat /\ \A i \in DOMAIN s : s[i] \in Char
  BY LenProperties, ElementOfSeq DEF Text
<1>3. \A i \in DOMAIN s : << s[i] >> \in Text /\ << >> \in Text
  BY <1>2 DEF Text
<1>4. \A i \in 1 .. Len(s) : Put(s, c, new, i) \in Text
  BY <1>2, <1>3 DEF Put
<1> DEFINE q == [i \in 1 .. Len(s) |-> Put(s, c, new, i)]
<1>5. q \in [1 .. Len(s) -> Text]
  BY <1>4
<1>6. q \in Seq(Text)
  <2> HIDE DEF q
  <2> QED
    BY <1>2, <1>5, SeqDef
<1> QED
  BY <1>1, <1>2, <1>6

(* A replacement does not reach over the end of a string if what follows   *)
(* does not begin with c.                                                  *)
LEMMA ReplaceConcat ==
    ASSUME NEW s \in Text, NEW t \in Text, NEW c, NEW new \in Text, t # << >>, t[1] # c
    PROVE  ReplaceEscaped(s \o t, c, new) = ReplaceEscaped(s, c, new) \o ReplaceEscaped(t, c, new)
<1> DEFINE u == s \o t
           m == Len(s)
           n == Len(t)
           P(w) == [i \in DOMAIN w |-> Put(w, c, new, i)]
<1>1. /\ m \in Nat /\ n \in Nat /\ n # 0 /\ Len(u) = m + n /\ u \in Text
      /\ DOMAIN s = 1 .. m /\ DOMAIN t = 1 .. n /\ DOMAIN u = 1 .. m + n
      /\ \A i \in 1 .. m : u[i] = s[i]
      /\ \A i \in 1 .. n : u[i + m] = t[i]
  <2>1. m \in Nat /\ n \in Nat /\ n # 0 /\ DOMAIN s = 1 .. m /\ DOMAIN t = 1 .. n
    BY LenProperties, EmptySeq DEF Text
  <2>2. /\ u \in Text /\ Len(u) = m + n
        /\ \A i \in 1 .. m + n : u[i] = IF i <= m THEN s[i] ELSE t[i - m]
    BY ConcatProperties DEF Text
  <2>3. DOMAIN u = 1 .. m + n
    <3> HIDE DEF u
    <3> QED
      BY <2>2, LenProperties DEF Text
  <2> HIDE DEF u, m, n
  <2>4. ASSUME NEW i \in 1 .. n
        PROVE  u[i + m] = t[i]
    <3> PICK k : k = i + m
      OBVIOUS
    <3>1. k \in 1 .. m + n /\ ~ (k <= m) /\ k - m = i
      BY <2>1
    <3> QED
      BY <2>2, <3>1
  <2>5. \A i \in 1 .. m : u[i] = s[i]
    BY <2>1, <2>2
  <2> QED
    BY <2>1, <2>2, <2>3, <2>4, <2>5
<1> HIDE DEF u, m, n
<1>2. ASSUME NEW i \in 1 .. m
      PROVE  Put(u, c, new, i) = Put(s, c, new, i)
  <2>1. u[i] = s[i] /\ (i < m => u[i + 1] = s[i + 1])
    <3> PICK k : k = i + 1
      OBVIOUS
    <3> QED
      BY <1>1
  <2>2. i = m => u[i + 1] # c
    <3>1. 1 \in 1 .. n /\ u[1 + m] = t[1]
      BY <1>1
    <3>2. i = m => i + 1 = 1 + m
      BY <1>1
    <3> QED
      BY <3>1, <3>2
  <2>3. /\ i - 1 \in 1 .. m - 1 <=> i - 1 \in 1 .. (m + n) - 1
        /\ i - 1 \in 1 .. m - 1 => u[i - 1] = s[i - 1] /\ i - 1 + 1 = i
    <3> PICK k : k = i - 1
      OBVIOUS
    <3> QED
      BY <1>1
  <2>4. /\ i \in 1 .. m - 1 <=> i < m
        /\ i \in 1 .. (m + n) - 1 /\ Len(u) = m + n /\ Len(s) = m
    BY <1>1 DEF m
  <2> QED
    BY <1>1, <2>1, <2>2, <2>3, <2>4 DEF Put
<1>3. ASSUME NEW i \in 1 .. n
      PROVE  Put(u, c, new, i + m) = Put(t, c, new, i)
  <2> PICK k : k = i + m
    OBVIOUS
  <2>1. u[k] = t[i] /\ (i < n => u[k + 1] = t[i + 1])
    <3> PICK j : j = i + 1
      OBVIOUS
    <3>1. i < n => j \in 1 .. n /\ j + m = k + 1
      BY <1>1
    <3> QED
      BY <1>1, <3>1
  <2>2. i = 1 => u[k - 1 + 1] # c /\ ~ (i - 1 \in 1 .. n - 1)
    BY <1>1, <2>1
  <2>3. /\ i # 1 => i - 1 \in 1 .. n - 1 /\ k - 1 \in 1 .. (m + n) - 1
        /\ i # 1 => u[k - 1] = t[i - 1] /\ u[k - 1 + 1] = t[i - 1 + 1]
    <3> PICK j : j = i - 1
      OBVIOUS
    <3>1. i # 1 => j \in 1 .. n /\ j + m = k - 1 /\ k - 1 + 1 = k /\ j + 1 = i
      BY <1>1
    <3>2. i # 1 => u[j + m] = t[j]
      BY <1>1, <3>1
    <3> QED
      BY <1>1, <2>1, <3>1, <3>2
  <2>4. /\ k \in 1 .. (m + n) - 1 <=> i < n
        /\ i \in 1 .. n - 1 <=> i < n
        /\ Len(u) = m + n /\ Len(t) = n
    BY <1>1 DEF n
  <2> QED
    BY <1>1, <2>1, <2>2, <2>3, <2>4 DEF Put
<1>4. P(u) = P(s) \o P(t)
  <2>1. P(u) \in Seq(Text) /\ P(s) \in Seq(Text) /\ P(t) \in Seq(Text)
    BY <1>1, ReplaceIsPut
  <2>2. /\ DOMAIN P(u) = 1 .. m + n /\ DOMAIN P(s) = 1 .. m /\ DOMAIN P(t) = 1 .. n
        /\ \A i \in 1 .. m : P(u)[i] = P(s)[i]
        /\ \A i \in 1 .. n : P(u)[i + m] = P(t)[i]
    BY <1>1, <1>2, <1>3
  <2> PICK pu \in Seq(Text), ps \in Seq(Text), pt \in Seq(Text) : pu = P(u) /\ ps = P(s) /\ pt = P(t)
    BY <2>1
  <2> HIDE DEF P
  <2>3. Len(pu) = m + n /\ Len(ps) = m /\ Len(pt) = n
    <3>1. m + n \in Nat /\ m \in Nat /\ n \in Nat
      BY <1>1
    <3> QED
      BY <2>2, <3>1, LenProperties
  <2>4. /\ ps \o pt \in Seq(Text) /\ Len(ps \o pt) = m + n
        /\ \A i \in 1 .. m + n : (ps \o pt)[i] = IF i <= m THEN ps[i] ELSE pt[i - m]
    BY <2>3, ConcatProperties
  <2>5. ASSUME NEW i \in 1 .. m + n
        PROVE  pu[i] = (ps \o pt)[i]
    <3>1. CASE i <= m
      <4>1. i \in 1 .. m
        BY <1>1, <3>1
      <4> QED
        BY <2>2, <2>4, <3>1, <4>1
    <3>2. CASE ~ (i <= m)
      <4> PICK j : j = i - m
        OBVIOUS
      <4>1. j \in 1 .. n /\ j + m = i
        BY <1>1, <3>2
      <4> QED
        BY <2>2, <2>4, <3>2, <4>1
    <3> QED
      BY <3>1, <3>2
  <2>6. pu = ps \o pt
    BY <2>3, <2>4, <2>5, SeqEqual
  <2> QED
    BY <2>6
<1>5. FlattenSeq(P(u)) = FlattenSeq(P(s)) \o FlattenSeq(P(t))
  <2>1. P(s) \in Seq(Text) /\ P(t) \in Seq(Text)
    BY ReplaceIsPut
  <2> HIDE DEF P
  <2> QED
    BY <1>4, <2>1, FlattenConcat DEF Text
<1> QED
  BY <1>1, <1>5, ReplaceIsPut DEF u

LEMMA ReplaceOne ==
    ASSUME NEW y \in Char, NEW c, NEW new \in Text
    PROVE  /\ ReplaceEscaped(<< y >>, c, new) = << y >>
           /\ ReplaceEscaped(<< "\\", y >>, c, new) = IF y = c THEN new ELSE << "\\", y >>
<1> PICK b \in Char : b = "\\"
  BY SpecialChars
<1>1. /\ << y >> \in Text /\ << b >> \in Text /\ << b, y >> \in Text /\ << >> \in Text
      /\ << b >> \o << y >> = << b, y >>
  BY Pair, EmptySeq DEF Text
<1>2. ReplaceEscaped(<< y >>, c, new) = << y >>
  <2> PICK s \in Text : s = << y >>
    BY <1>1
  <2>1. DOMAIN s = {1} /\ Len(s) = 1 /\ s[1] = y
    OBVIOUS
  <2>2. Put(s, c, new, 1) = << y >>
    BY <2>1 DEF Put
  <2>3. [i \in DOMAIN s |-> Put(s, c, new, i)] = << << y >> >>
    BY <2>1, <2>2
  <2>4. FlattenSeq(<< << y >> >>) = << y >>
    BY <1>1, FlattenOne DEF Text
  <2> QED
    BY <2>3, <2>4, ReplaceIsPut
<1>3. ReplaceEscaped(<< b, y >>, c, new) = IF y = c THEN new ELSE << b, y >>
  <2> PICK s \in Text : s = << b, y >>
    BY <1>1
  <2> DEFINE first  == IF y = c THEN new ELSE << b >>
             second == IF y = c THEN << >> ELSE << y >>
  <2>1. DOMAIN s = {1, 2} /\ Len(s) = 2 /\ s[1] = b /\ s[2] = y
    OBVIOUS
  <2>2. Put(s, c, new, 1) = first /\ Put(s, c, new, 2) = second
    BY <2>1 DEF Put
  <2>3. first \in Text /\ second \in Text
    BY <1>1
  <2> HIDE DEF first, second
  <2>4. [i \in DOMAIN s |-> Put(s, c, new, i)] = << first, second >>
    BY <2>1, <2>2
  <2>5. FlattenSeq(<< first, second >>) = first \o second
    <3>1. Append(<< first >>, second) = << first, second >> /\ << first >> \in Seq(Text)
      <4> PICK v \in Text, w \in Text : v = first /\ w = second
        BY <2>3
      <4>1. Append(<< v >>, w) = << v, w >> /\ << v >> \in Seq(Text)
        BY Pair
      <4> QED
        BY <4>1
    <3>2. FlattenSeq(Append(<< first >>, second)) = FlattenSeq(<< first >>) \o second
      BY <2>3, <3>1, FlattenAppend DEF Text
    <3>3. FlattenSeq(<< first >>) = first
      BY <2>3, FlattenOne DEF Text
    <3> QED
      BY <3>1, <3>2, <3>3
  <2>6. first \o second = IF y = c THEN new ELSE << b, y >>
    <3>1. new \o << >> = new
      BY TextConcat
    <3> QED
      BY <1>1, <3>1 DEF first, second
  <2> QED
    BY <2>4, <2>5, <2>6, ReplaceIsPut
<1> QED
  BY <1>2, <1>3

LEMMA ReplaceSpell ==
    ASSUME NEW s \in Text, NEW c, NEW new \in Text, NEW h \in Code, NEW q \in Code,
           \A x \in Char : h[x] # << >> /\ h[x][1] # c /\ q[x] = ReplaceEscaped(h[x], c, new)
    PROVE  ReplaceEscaped(Spell(s, h), c, new) = Spell(s, q)
<1> DEFINE T == {u \in Text : ReplaceEscaped(Spell(u, h), c, new) = Spell(u, q)}
<1>1. << >> \in T
  <2>1. ReplaceEscaped(<< >>, c, new) = << >>
    <3> PICK e \in Text : e = << >>
      BY EmptySeq DEF Text
    <3> HIDE DEF T
    <3>1. [i \in DOMAIN e |-> Put(e, c, new, i)] = << >>
      OBVIOUS
    <3>2. ReplaceEscaped(e, c, new) = FlattenSeq([i \in DOMAIN e |-> Put(e, c, new, i)])
      BY ReplaceIsPut
    <3>3. ReplaceEscaped(e, c, new) = << >>
      BY <3>1, <3>2, FlattenEmpty
    <3> QED
      BY <3>3
  <2>2. << >> \in Text
    BY EmptySeq DEF Text
  <2> QED
    BY <2>1, <2>2, SpellEmpty
<1>2. ASSUME NEW u \in T, NEW x \in Char
      PROVE  Append(u, x) \in T
  <2>1. u \in Text /\ ReplaceEscaped(Spell(u, h), c, new) = Spell(u, q)
    OBVIOUS
  <2> HIDE DEF T
  <2>2. Append(u, x) \in Text
    BY <2>1, AppendProperties DEF Text
  <2>3. Spell(Append(u, x), h) = Spell(u, h) \o h[x] /\ Spell(Append(u, x), q) = Spell(u, q) \o q[x]
    BY <2>1, SpellAppend
  <2>4. Spell(u, h) \in Text /\ h[x] \in Text
    BY <2>1, SpellType DEF Code
  <2>5. ReplaceEscaped(Spell(u, h) \o h[x], c, new) = ReplaceEscaped(Spell(u, h), c, new) \o ReplaceEscaped(h[x], c, new)
    BY <2>4, ReplaceConcat
  <2> QED
    BY <2>1, <2>2, <2>3, <2>5 DEF T
<1>3. T = Text
  <2>1. T \subseteq Text
    OBVIOUS
  <2> HIDE DEF T
  <2> QED
    BY <1>1, <1>2, <2>1, SeqSet DEF Text
<1> QED
  BY <1>3

\* The expression for a character of a pattern.
Rx == [x \in Char |-> IF x = "?" THEN << "." >> ELSE IF x = "*" THEN << ".", "*" >> ELSE Escaped[x]]

(* matchTextWithWildcards() makes of each character an expression of its   *)
(* own, however the replacements of one might meet those of another.       *)
LEMMA RegexSpells ==
    ASSUME NEW s \in Text
    PROVE  Rx \in Code /\ Regex(s) = Spell(s, Rx)
<1> DEFINE half == [x \in Char |-> IF x = "?" THEN << "." >> ELSE Escaped[x]]
<1>0. /\ Escaped \in Code /\ << "." >> \in Text /\ << ".", "*" >> \in Text
      /\ "?" \in ToSet(Special) /\ "*" \in ToSet(Special) /\ "\\" \in ToSet(Special)
      /\ "." \in ToSet(Special)
  <2>1. << "." >> \in Text /\ << ".", "*" >> \in Text
    BY SpecialChars DEF Text
  <2>2. /\ "?" \in ToSet(Special) /\ "*" \in ToSet(Special) /\ "\\" \in ToSet(Special)
        /\ "." \in ToSet(Special)
    BY SpecialDistinct, SpecialChars DEF ToSet
  <2> QED
    BY <2>1, <2>2, EscapeRegexSpells
<1>1. half \in Code /\ Rx \in Code
  <2>1. \A x \in Char : Escaped[x] \in Text
    BY <1>0 DEF Code
  <2> QED
    BY <1>0, <2>1 DEF Rx, Code
<1>2. ASSUME NEW x \in Char
      PROVE  /\ Escaped[x] # << >> /\ Escaped[x][1] # "?"
             /\ half[x] = ReplaceEscaped(Escaped[x], "?", << "." >>)
             /\ half[x] # << >> /\ half[x][1] # "*"
             /\ Rx[x] = ReplaceEscaped(half[x], "*", << ".", "*" >>)
  <2>1. /\ Escaped[x] = IF x \in ToSet(Special) THEN << "\\", x >> ELSE << x >>
        /\ half[x] = IF x = "?" THEN << "." >> ELSE Escaped[x]
        /\ Rx[x] = IF x = "?" THEN << "." >> ELSE IF x = "*" THEN << ".", "*" >> ELSE Escaped[x]
    BY DEF Escaped, Rx
  <2> HIDE DEF half
  <2>2. /\ << "\\", x >> # << >> /\ << x >> # << >> /\ << "." >> # << >>
        /\ << "\\", x >>[1] = "\\" /\ << x >>[1] = x /\ << "." >>[1] = "."
    OBVIOUS
  <2>3. /\ ReplaceEscaped(<< x >>, "?", << "." >>) = << x >>
        /\ ReplaceEscaped(<< "\\", x >>, "?", << "." >>) = IF x = "?" THEN << "." >> ELSE << "\\", x >>
        /\ ReplaceEscaped(<< x >>, "*", << ".", "*" >>) = << x >>
        /\ ReplaceEscaped(<< "." >>, "*", << ".", "*" >>) = << "." >>
        /\ ReplaceEscaped(<< "\\", x >>, "*", << ".", "*" >>) = IF x = "*" THEN << ".", "*" >> ELSE << "\\", x >>
    BY <1>0, ReplaceOne, SpecialChars, ZenonT(40)
  <2>4. Escaped[x] # << >> /\ Escaped[x][1] # "?" /\ half[x] # << >> /\ half[x][1] # "*"
    BY <1>0, <2>1, <2>2
  <2>5. half[x] = ReplaceEscaped(Escaped[x], "?", << "." >>)
    BY <1>0, <2>1, <2>3
  <2>6. Rx[x] = ReplaceEscaped(half[x], "*", << ".", "*" >>)
    BY <1>0, <2>1, <2>3
  <2> QED
    BY <2>4, <2>5, <2>6
<1> HIDE DEF half
<1>3. EscapeRegex(s) = Spell(s, Escaped)
  BY EscapeRegexSpells
<1>4. ReplaceEscaped(Spell(s, Escaped), "?", << "." >>) = Spell(s, half)
  BY <1>0, <1>1, <1>2, ReplaceSpell
<1>5. ReplaceEscaped(Spell(s, half), "*", << ".", "*" >>) = Spell(s, Rx)
  BY <1>0, <1>1, <1>2, ReplaceSpell
<1> QED
  BY <1>1, <1>3, <1>4, <1>5 DEF Regex

-----------------------------------------------------------------------------
(* The tables of Glob and of RegexMatch, last character first.             *)

GlobAt(g, text, pattern, i) ==
    IF pattern[i] = "*"
    THEN {j \in 1 .. Len(text) + 1 : \E k \in g[i + 1] : j <= k}
    ELSE {j \in DOMAIN text : /\ pattern[i] = "?" \/ pattern[i] = text[j]
                              /\ j + 1 \in g[i + 1]}

After(r, i) == i + (IF r[i] = "\\" /\ i < Len(r) THEN 2 ELSE 1)
Starred(r, i) == After(r, i) <= Len(r) /\ r[After(r, i)] = "*"
Rest(m, r, i) == m[IF Starred(r, i) THEN After(r, i) + 1 ELSE After(r, i)]
Fits(text, r, i) == {j \in DOMAIN text : r[i] = "." \/ r[After(r, i) - 1] = text[j]}

RegexAt(m, text, r, i) ==
    IF Starred(r, i)
    THEN {j \in 1 .. Len(text) + 1 :
             \E k \in Rest(m, r, i) : j <= k /\ j .. k - 1 \subseteq Fits(text, r, i)}
    ELSE {j \in Fits(text, r, i) : j + 1 \in Rest(m, r, i)}

\* The rule F gives the value at a number by those at later ones.
Later(F, n, V) ==
    \A d \in 1 .. n + 1 : \A g, h \in [1 .. n + 1 -> V] :
        (\A e \in 1 .. n + 1 : e > d => g[e] = h[e]) => F[d][g] = F[d][h]

(* A function that is given from its last argument down, the value at each *)
(* by those at later ones.                                                 *)
LEMMA Backwards ==
    ASSUME NEW n \in Nat, NEW V, V # {},
           NEW F \in Rules(1 .. n + 1, V), Later(F, n, V)
    PROVE  Solvable(F, 1 .. n + 1, V)
<1> PICK N \in Nat : N = n + 1
  OBVIOUS
<1> DEFINE D == 1 .. N
           rank == [d \in D |-> N - d]
<1>1. rank \in [D -> Nat] /\ \A d \in D : rank[d] < N
  OBVIOUS
<1>2. Recursive(F, rank, D, V)
  <2> SUFFICES ASSUME NEW d \in D, NEW g \in [D -> V], NEW h \in [D -> V],
                      \A e \in D : rank[e] < rank[d] => g[e] = h[e]
               PROVE  F[d][g] = F[d][h]
    BY DEF Recursive, Agree
  <2>1. \A e \in D : e > d => rank[e] < rank[d]
    OBVIOUS
  <2>2. \A e \in D : e > d => g[e] = h[e]
    BY <2>1
  <2> QED
    BY <2>2 DEF Later
<1>3. F \in Rules(D, V)
  OBVIOUS
<1>4. Solvable(F, D, V)
  <2> HIDE DEF D, rank
  <2> QED
    BY <1>1, <1>2, <1>3, Recursion
<1> QED
  BY <1>4

LEMMA GlobTable ==
    ASSUME NEW text \in Text, NEW pattern \in Text
    PROVE  \E g \in [1 .. Len(pattern) + 1 -> SUBSET (1 .. Len(text) + 1)] :
               /\ Glob(text, pattern) <=> 1 \in g[1]
               /\ g[Len(pattern) + 1] = {Len(text) + 1}
               /\ \A i \in 1 .. Len(pattern) : g[i] = GlobAt(g, text, pattern, i)
<1> PICK n \in Nat, L \in Nat : n = Len(pattern) /\ L = Len(text)
  BY LenProperties DEF Text
<1> DEFINE D == 1 .. n + 1
           V == SUBSET (1 .. L + 1)
           At(g, i) == IF i > n THEN {L + 1} ELSE GlobAt(g, text, pattern, i)
           F == [d \in D |-> [g \in [D -> V] |-> At(g, d)]]
           def(g) == [i \in 1 .. Len(pattern) + 1 |->
                         IF i > Len(pattern) THEN {Len(text) + 1} ELSE GlobAt(g, text, pattern, i)]
           glob == CHOOSE g : g = def(g)
<1>0. DOMAIN text = 1 .. L
  BY LenProperties DEF Text
<1>1. \A d \in D : \A g : At(g, d) \in V
  BY <1>0 DEF GlobAt
<1>2. F \in Rules(D, V)
  <2> HIDE DEF D, V, At
  <2> QED
    BY <1>1 DEF Rules
<1>3. ASSUME NEW d \in D, NEW g \in [D -> V], NEW h \in [D -> V], \A e \in D : e > d => g[e] = h[e]
      PROVE  F[d][g] = F[d][h]
  <2>1. ~ (d > n) => g[d + 1] = h[d + 1]
    <3> PICK e : e = d + 1
      OBVIOUS
    <3>1. ~ (d > n) => e \in D /\ e > d
      OBVIOUS
    <3> QED
      BY <1>3, <3>1
  <2>2. At(g, d) = At(h, d)
    BY <2>1 DEF GlobAt
  <2> HIDE DEF D, V, At
  <2> QED
    BY <2>2
<1>4. Solvable(F, D, V)
  <2> HIDE DEF V, F
  <2>1. V # {}
    BY DEF V
  <2>2. Later(F, n, V)
    BY <1>3 DEF Later
  <2> QED
    BY <1>2, <2>1, <2>2, Backwards
<1>5. PICK g \in [D -> V] : \A d \in D : g[d] = F[d][g]
  BY <1>4 DEF Solvable
<1>6. g = def(g)
  <2>1. \A d \in D : g[d] = At(g, d)
    <3> HIDE DEF D, V, At
    <3> QED
      BY <1>5
  <2> QED
    BY <2>1
<1>7. glob = def(glob)
  <2> HIDE DEF def
  <2> QED
    BY <1>6
<1>8. Glob(text, pattern) <=> 1 \in glob[1]
  BY DEF Glob, GlobAt
<1> HIDE DEF glob
<1>9. glob = [d \in D |-> At(glob, d)]
  BY <1>7
<1>10. glob \in [D -> V] /\ \A d \in D : glob[d] = At(glob, d)
  <2> HIDE DEF D, V, At
  <2> QED
    BY <1>1, <1>9
<1>11. glob[n + 1] = {L + 1} /\ \A i \in 1 .. n : glob[i] = GlobAt(glob, text, pattern, i)
  BY <1>10
<1> QED
  BY <1>8, <1>10, <1>11

LEMMA RegexTable ==
    ASSUME NEW text \in Text, NEW r \in Text
    PROVE  \E m \in [1 .. Len(r) + 1 -> SUBSET (1 .. Len(text) + 1)] :
               /\ RegexMatch(text, r) <=> 1 \in m[1]
               /\ m[Len(r) + 1] = {Len(text) + 1}
               /\ \A i \in 1 .. Len(r) : m[i] = RegexAt(m, text, r, i)
<1> PICK n \in Nat, L \in Nat : n = Len(r) /\ L = Len(text)
  BY LenProperties DEF Text
<1> DEFINE D == 1 .. n + 1
           V == SUBSET (1 .. L + 1)
           At(m, i) == IF i > n THEN {L + 1} ELSE RegexAt(m, text, r, i)
           F == [d \in D |-> [m \in [D -> V] |-> At(m, d)]]
           def(m) == [i \in 1 .. Len(r) + 1 |->
                         IF i > Len(r) THEN {Len(text) + 1} ELSE RegexAt(m, text, r, i)]
           match == CHOOSE m : m = def(m)
<1>0. DOMAIN text = 1 .. L
  BY LenProperties DEF Text
<1>1. \A d \in D : \A m : At(m, d) \in V
  BY <1>0 DEF RegexAt, Fits
<1>2. F \in Rules(D, V)
  <2> HIDE DEF D, V, At
  <2> QED
    BY <1>1 DEF Rules
<1>3. ASSUME NEW d \in D, NEW g \in [D -> V], NEW h \in [D -> V], \A e \in D : e > d => g[e] = h[e]
      PROVE  F[d][g] = F[d][h]
  <2>1. ~ (d > n) => Rest(g, r, d) = Rest(h, r, d)
    <3>1. ~ (d > n) => After(r, d) \in D /\ After(r, d) > d
                       /\ (Starred(r, d) => After(r, d) + 1 \in D /\ After(r, d) + 1 > d)
      BY DEF After, Starred
    <3> QED
      BY <1>3, <3>1 DEF Rest
  <2>2. At(g, d) = At(h, d)
    BY <2>1 DEF RegexAt
  <2> HIDE DEF D, V, At
  <2> QED
    BY <2>2
<1>4. Solvable(F, D, V)
  <2> HIDE DEF V, F
  <2>1. V # {}
    BY DEF V
  <2>2. Later(F, n, V)
    BY <1>3 DEF Later
  <2> QED
    BY <1>2, <2>1, <2>2, Backwards
<1>5. PICK m \in [D -> V] : \A d \in D : m[d] = F[d][m]
  BY <1>4 DEF Solvable
<1>6. m = def(m)
  <2>1. \A d \in D : m[d] = At(m, d)
    <3> HIDE DEF D, V, At
    <3> QED
      BY <1>5
  <2> QED
    BY <2>1
<1>7. match = def(match)
  <2> HIDE DEF def
  <2> QED
    BY <1>6
<1>8. RegexMatch(text, r) <=> 1 \in match[1]
  BY DEF RegexMatch, RegexAt, Rest, Starred, Fits, After
<1> HIDE DEF match
<1>9. match = [d \in D |-> At(match, d)]
  BY <1>7
<1>10. match \in [D -> V] /\ \A d \in D : match[d] = At(match, d)
  <2> HIDE DEF D, V, At
  <2> QED
    BY <1>1, <1>9
<1>11. match[n + 1] = {L + 1} /\ \A i \in 1 .. n : match[i] = RegexAt(match, text, r, i)
  BY <1>10
<1> QED
  BY <1>8, <1>10, <1>11

-----------------------------------------------------------------------------
(* Where the expression for each character of a pattern begins.           *)

PlacesOf(P, s, h) ==
    /\ P \in [0 .. Len(s) -> Nat] /\ P[0] = 0 /\ P[Len(s)] = Len(Spell(s, h))
    /\ \A i \in 1 .. Len(s) :
           /\ P[i] = P[i - 1] + Len(h[s[i]]) /\ P[i] <= Len(Spell(s, h))
           /\ \A k \in 1 .. Len(h[s[i]]) : Spell(s, h)[P[i - 1] + k] = h[s[i]][k]

LEMMA Within ==
    ASSUME NEW a \in Nat, NEW l \in Nat, NEW n \in Nat, a + l <= n, NEW k \in 1 .. l
    PROVE  a + k \in 1 .. n
OBVIOUS

LEMMA SpellPlaces ==
    ASSUME NEW s \in Text, NEW h \in Code
    PROVE  \E P : PlacesOf(P, s, h)
<1> DEFINE T == {u \in Text : \E P : PlacesOf(P, u, h)}
<1>1. << >> \in T
  <2>1. << >> \in Text /\ Spell(<< >>, h) = << >> /\ Len(<< >>) = 0
    BY SpellEmpty, EmptySeq DEF Text
  <2>2. PlacesOf([i \in 0 .. 0 |-> 0], << >>, h)
    BY <2>1 DEF PlacesOf
  <2> QED
    BY <2>1, <2>2
<1>2. ASSUME NEW u \in T, NEW x \in Char
      PROVE  Append(u, x) \in T
  <2> PICK P : PlacesOf(P, u, h)
    OBVIOUS
  <2> PICK v : v = Append(u, x)
    OBVIOUS
  <2> PICK n : n = Len(u)
    OBVIOUS
  <2> PICK w : w = Spell(u, h)
    OBVIOUS
  <2> PICK b : b = h[x]
    OBVIOUS
  <2> PICK W : W = Len(w)
    OBVIOUS
  <2> PICK B : B = Len(b)
    OBVIOUS
  <2>0. u \in Text
    OBVIOUS
  <2> HIDE DEF T
  <2>1. /\ n \in Nat /\ v \in Text /\ Len(v) = n + 1
        /\ v[n + 1] = x /\ \A i \in 1 .. n : v[i] = u[i]
    BY <2>0, AppendProperties, LenProperties DEF Text
  <2>2. w \in Text /\ b \in Text /\ Spell(v, h) = w \o b /\ W \in Nat /\ B \in Nat
    BY <2>0, SpellType, SpellAppend, LenProperties DEF Code, Text
  <2> PICK z : z = Spell(v, h)
    OBVIOUS
  <2>3. /\ Len(z) = W + B
        /\ \A j \in 1 .. W : z[j] = w[j]
        /\ \A k \in 1 .. B : z[W + k] = b[k]
    <3>1. /\ Len(w \o b) = W + B
          /\ \A j \in 1 .. W + B : (w \o b)[j] = IF j <= W THEN w[j] ELSE b[j - W]
      BY <2>2, ConcatProperties DEF Text
    <3>2. ASSUME NEW k \in 1 .. B
          PROVE  z[W + k] = b[k]
      <4> PICK j : j = W + k
        OBVIOUS
      <4>1. j \in 1 .. W + B /\ ~ (j <= W) /\ j - W = k
        BY <2>2
      <4> QED
        BY <2>2, <3>1, <4>1
    <3> QED
      BY <2>2, <3>1, <3>2
  <2>4. /\ P \in [0 .. n -> Nat] /\ P[0] = 0 /\ P[n] = W
        /\ \A i \in 1 .. n :
              /\ P[i] = P[i - 1] + Len(h[u[i]]) /\ P[i] <= W
              /\ \A k \in 1 .. Len(h[u[i]]) : w[P[i - 1] + k] = h[u[i]][k]
    BY DEF PlacesOf
  <2> DEFINE Q == [i \in 0 .. n + 1 |-> IF i <= n THEN P[i] ELSE W + B]
  <2>5. Q \in [0 .. n + 1 -> Nat] /\ Q[0] = 0 /\ Q[n + 1] = W + B /\ \A i \in 0 .. n : Q[i] = P[i]
    BY <2>1, <2>2, <2>4
  <2> HIDE DEF Q
  <2>6. ASSUME NEW i \in 1 .. n + 1
        PROVE  /\ Q[i] = Q[i - 1] + Len(h[v[i]]) /\ Q[i] <= Len(z)
               /\ \A k \in 1 .. Len(h[v[i]]) : z[Q[i - 1] + k] = h[v[i]][k]
    <3>1. CASE i = n + 1
      <4>1. v[i] = x /\ i - 1 = n /\ n \in 0 .. n /\ Q[i - 1] = W /\ Q[i] = W + B /\ Len(h[v[i]]) = B
        BY <2>1, <2>4, <2>5, <3>1
      <4> QED
        BY <2>2, <2>3, <4>1
    <3>2. CASE i # n + 1
      <4> PICK d : d = i - 1
        OBVIOUS
      <4>1. i \in 1 .. n /\ i \in 0 .. n /\ d \in 0 .. n
        BY <2>1, <3>2
      <4>2. v[i] = u[i] /\ Q[i] = P[i] /\ Q[d] = P[d] /\ P[i] \in Nat /\ P[d] \in Nat
        BY <2>1, <2>4, <2>5, <4>1
      <4>3. P[i] = P[d] + Len(h[u[i]]) /\ P[i] <= W /\ \A k \in 1 .. Len(h[u[i]]) : w[P[d] + k] = h[u[i]][k]
        BY <2>4, <4>1
      <4> PICK len : len = Len(h[u[i]])
        OBVIOUS
      <4>4. len \in Nat
        <5>1. u[i] \in Char
          BY <2>0, <4>1, ElementOfSeq DEF Text
        <5> QED
          BY <5>1, LenProperties DEF Code, Text
      <4>5. \A k \in 1 .. len : P[d] + k \in 1 .. W
        <5> PICK a \in Nat, e \in Nat : a = P[d] /\ e = P[i]
          BY <4>2
        <5>1. e = a + len /\ e <= W
          BY <4>3
        <5>2. W \in Nat /\ a + len <= W
          BY <2>2, <5>1
        <5>3. \A k \in 1 .. len : a + k \in 1 .. W
          BY <4>4, <5>2, Within
        <5> QED
          BY <5>3
      <4>6. \A k \in 1 .. len : z[P[d] + k] = h[u[i]][k]
        BY <2>3, <4>3, <4>5
      <4>7. Q[i] <= Len(z)
        <5> PICK e \in Nat : e = P[i]
          BY <4>2
        <5> QED
          BY <2>2, <2>3, <4>2, <4>3
      <4> QED
        BY <4>2, <4>3, <4>6, <4>7
    <3> QED
      BY <3>1, <3>2
  <2>7. PlacesOf(Q, v, h)
    BY <2>1, <2>3, <2>5, <2>6 DEF PlacesOf
  <2> QED
    BY <2>1, <2>7 DEF T
<1>3. T = Text
  <2>1. T \subseteq Text
    OBVIOUS
  <2> HIDE DEF T
  <2> QED
    BY <1>1, <1>2, <2>1, SeqSet DEF Text
<1> QED
  BY <1>3

\* w is the expression of the character x; it stands in r after place a.
Expresses(w, x) ==
    \/ x = "*" /\ Len(w) = 2 /\ w[1] = "." /\ w[2] = "*"
    \/ x = "?" /\ Len(w) = 1 /\ w[1] = "."
    \/ x # "*" /\ x # "?" /\ Len(w) = 2 /\ w[1] = "\\" /\ w[2] = x
    \/ x # "*" /\ x # "?" /\ x # "\\" /\ x # "." /\ Len(w) = 1 /\ w[1] = x

SpeltAt(r, a, w) == \A k \in 1 .. Len(w) : r[a + k] = w[k]

\* No star follows place z of r.
Unstarred(r, z) == z + 1 <= Len(r) => r[z + 1] # "*"

\* The walk through r that is after place a takes the expression of x at once,
\* and is after place z then.
Taken(r, a, z, x) ==
    /\ a + 1 \in 1 .. Len(r)
    /\ Starred(r, a + 1) <=> x = "*"
    /\ (IF Starred(r, a + 1) THEN After(r, a + 1) + 1 ELSE After(r, a + 1)) = z + 1
    /\ r[a + 1] = "." <=> x = "*" \/ x = "?"
    /\ x # "*" /\ x # "?" => r[After(r, a + 1) - 1] = x

(* The expression of a character, and how the walk through the whole one   *)
(* takes it.                                                               *)
LEMMA RxTable ==
    ASSUME NEW x \in Char, NEW w, w = Rx[x]
    PROVE  /\ w # << >> /\ Len(w) \in {1, 2} /\ w[1] # "*"
           /\ Expresses(w, x)
<1>1. /\ "*" \in ToSet(Special) /\ "?" \in ToSet(Special) /\ "\\" \in ToSet(Special)
      /\ "." \in ToSet(Special)
  BY SpecialDistinct, SpecialChars DEF ToSet
<1>2. w = IF x = "?" THEN << "." >> ELSE IF x = "*" THEN << ".", "*" >>
          ELSE IF x \in ToSet(Special) THEN << "\\", x >> ELSE << x >>
  BY DEF Rx, Escaped
<1>3. CASE x = "?"
  <2>1. w = << "." >>
    BY <1>2, <1>3
  <2> QED
    BY <1>3, <2>1 DEF Expresses
<1>4. CASE x = "*"
  <2>1. w = << ".", "*" >>
    BY <1>2, <1>4
  <2> QED
    BY <1>4, <2>1 DEF Expresses
<1>5. CASE x # "*" /\ x # "?" /\ x \in ToSet(Special)
  <2>1. w = << "\\", x >>
    BY <1>2, <1>5
  <2> QED
    BY <1>5, <2>1 DEF Expresses
<1>6. CASE x # "*" /\ x # "?" /\ x \notin ToSet(Special)
  <2>1. w = << x >> /\ x # "\\" /\ x # "."
    BY <1>1, <1>2, <1>6
  <2> QED
    BY <1>6, <2>1 DEF Expresses
<1> QED
  BY <1>3, <1>4, <1>5, <1>6

LEMMA OneExpression ==
    ASSUME NEW x, NEW w, NEW r, NEW a \in Nat, NEW z \in Nat, NEW N \in Nat, N = Len(r),
           Expresses(w, x), SpeltAt(r, a, w),
           z = a + Len(w), z <= N, Unstarred(r, z)
    PROVE  Taken(r, a, z, x)
<1> SUFFICES /\ a + 1 \in 1 .. N
             /\ Starred(r, a + 1) <=> x = "*"
             /\ (IF Starred(r, a + 1) THEN After(r, a + 1) + 1 ELSE After(r, a + 1)) = z + 1
             /\ r[a + 1] = "." <=> x = "*" \/ x = "?"
             /\ x # "*" /\ x # "?" => r[After(r, a + 1) - 1] = x
  BY DEF Taken
<1> PICK q \in Nat : q = a + 1
  OBVIOUS
<1>a. z + 1 <= N => r[z + 1] # "*"
  BY DEF Unstarred
<1>0. q \in 1 .. N /\ r[q] = w[1] /\ (Len(w) = 2 => r[q + 1] = w[2])
  <2>1. 1 \in 1 .. Len(w) /\ (Len(w) = 2 => 2 \in 1 .. Len(w))
    BY DEF Expresses
  <2>2. Len(w) \in {1, 2}
    BY DEF Expresses
  <2>3. a + 1 = q /\ a + 2 = q + 1 /\ q <= N
    <3> PICK l \in {1, 2} : l = Len(w)
      BY <2>2
    <3>1. z = a + l
      OBVIOUS
    <3> HIDE DEF SpeltAt
    <3>2. q <= z
      BY <3>1
    <3> QED
      BY <3>2
  <2> QED
    BY <2>1, <2>3 DEF SpeltAt
<1>1. CASE x = "*" /\ Len(w) = 2 /\ w[1] = "." /\ w[2] = "*"
  <2>1. r[q] = "." /\ r[q + 1] = "*" /\ z = q + 1 /\ q + 1 <= N
    BY <1>0, <1>1
  <2>2. After(r, q) = q + 1
    BY <2>1 DEF After
  <2>3. Starred(r, q)
    BY <1>a, <2>1, <2>2 DEF Starred
  <2> QED
    BY <1>a, <1>0, <1>1, <2>1, <2>2, <2>3
<1>2. CASE x = "?" /\ Len(w) = 1 /\ w[1] = "."
  <2>1. r[q] = "." /\ z = q
    BY <1>0, <1>2
  <2>2. After(r, q) = q + 1
    BY <2>1 DEF After
  <2>3. ~ Starred(r, q)
    BY <1>a, <2>1, <2>2 DEF Starred
  <2> QED
    BY <1>0, <1>2, <2>1, <2>2, <2>3
<1>3. CASE x # "*" /\ x # "?" /\ Len(w) = 2 /\ w[1] = "\\" /\ w[2] = x
  <2>1. r[q] = "\\" /\ r[q + 1] = x /\ z = q + 1 /\ q < N
    BY <1>0, <1>3
  <2>2. After(r, q) = q + 2
    BY <2>1 DEF After
  <2>3. ~ Starred(r, q)
    BY <1>a, <2>1, <2>2 DEF Starred
  <2> QED
    BY <1>0, <1>3, <2>1, <2>2, <2>3
<1>4. CASE x # "*" /\ x # "?" /\ x # "\\" /\ x # "." /\ Len(w) = 1 /\ w[1] = x
  <2>1. r[q] = x /\ z = q
    BY <1>0, <1>4
  <2>2. After(r, q) = q + 1
    BY <1>4, <2>1 DEF After
  <2>3. ~ Starred(r, q)
    BY <1>a, <2>1, <2>2 DEF Starred
  <2> QED
    BY <1>0, <1>4, <2>1, <2>2, <2>3
<1> QED
  BY <1>1, <1>2, <1>3, <1>4 DEF Expresses

\* The walk through r takes the expression of pattern[i] for that character.
StepAgrees(text, pattern, r, P, g, m, i) ==
    /\ P[i - 1] + 1 \in 1 .. Len(r)
    /\ RegexAt(m, text, r, P[i - 1] + 1) = GlobAt(g, text, pattern, i)

\* The tables agree after the character i.
RestAgrees(text, pattern, r, P, g, m, i) ==
    /\ m \in [1 .. Len(r) + 1 -> SUBSET (1 .. Len(text) + 1)]
    /\ i \in 1 .. Len(pattern) /\ g[i + 1] = m[P[i] + 1]

(* What boost::regex_match() does with the expression for one character of *)
(* the pattern is what the character means.                                *)
LEMMA StepMeans ==
    ASSUME NEW text \in Text, NEW pattern \in Text, NEW r \in Text,
           NEW P, PlacesOf(P, pattern, Rx), r = Spell(pattern, Rx),
           NEW g, NEW m, NEW i, RestAgrees(text, pattern, r, P, g, m, i)
    PROVE  StepAgrees(text, pattern, r, P, g, m, i)
<1> PICK n : n = Len(pattern)
  OBVIOUS
<1> PICK L : L = Len(text)
  OBVIOUS
<1> PICK N : N = Len(r)
  OBVIOUS
<1> PICK x : x = pattern[i]
  OBVIOUS
<1> PICK w : w = Rx[x]
  OBVIOUS
<1>a. /\ m \in [1 .. N + 1 -> SUBSET (1 .. L + 1)]
      /\ i \in 1 .. n /\ g[i + 1] = m[P[i] + 1]
  BY DEF RestAgrees
<1>0. /\ n \in Nat /\ L \in Nat /\ N \in Nat /\ i \in 1 .. n /\ x \in Char
      /\ DOMAIN text = 1 .. L /\ \A j \in 1 .. n : pattern[j] \in Char
  BY <1>a, LenProperties, ElementOfSeq DEF Text
<1>1. /\ P[i - 1] \in Nat /\ P[i] \in Nat /\ P[n] = N
      /\ \A j \in 1 .. n :
            /\ P[j] = P[j - 1] + Len(Rx[pattern[j]]) /\ P[j] <= N
            /\ \A k \in 1 .. Len(Rx[pattern[j]]) : r[P[j - 1] + k] = Rx[pattern[j]][k]
  <2>1. P \in [0 .. n -> Nat] /\ i - 1 \in 0 .. n /\ i \in 0 .. n
    BY <1>0 DEF PlacesOf
  <2> QED
    BY <2>1 DEF PlacesOf
<1> PICK a : a = P[i - 1]
  OBVIOUS
<1> PICK z : z = P[i]
  OBVIOUS
<1>2. /\ a \in Nat /\ z \in Nat /\ z = a + Len(w) /\ z <= N
      /\ \A k \in 1 .. Len(w) : r[a + k] = w[k]
  BY <1>0, <1>1
<1>3. z + 1 <= N => r[z + 1] # "*"
  <2>1. CASE i = n
    <3>1. z = N
      BY <1>1, <2>1
    <3> QED
      BY <1>0, <3>1
  <2>2. CASE i # n
    <3> PICK j : j = i + 1
      OBVIOUS
    <3>1. j \in 1 .. n /\ j - 1 = i
      BY <1>0, <2>2
    <3> PICK v : v = Rx[pattern[j]]
      OBVIOUS
    <3>2. Len(v) \in {1, 2} /\ v[1] # "*"
      BY <1>0, <3>1, RxTable
    <3>3. 1 \in 1 .. Len(v)
      BY <3>2
    <3>4. r[P[j - 1] + 1] = v[1]
      BY <1>1, <3>1, <3>3
    <3> QED
      BY <3>1, <3>2, <3>4
  <2> QED
    BY <2>1, <2>2
<1> PICK q : q = a + 1
  OBVIOUS
<1>4. /\ q \in 1 .. N
      /\ Starred(r, q) <=> x = "*"
      /\ (IF Starred(r, q) THEN After(r, q) + 1 ELSE After(r, q)) = z + 1
      /\ r[q] = "." <=> x = "*" \/ x = "?"
      /\ x # "*" /\ x # "?" => r[After(r, q) - 1] = x
  <2>1. Expresses(w, x)
    BY <1>0, RxTable
  <2>2. SpeltAt(r, a, w) /\ Unstarred(r, z)
    BY <1>2, <1>3 DEF SpeltAt, Unstarred
  <2>3. a \in Nat /\ z \in Nat /\ N \in Nat /\ N = Len(r) /\ z = a + Len(w) /\ z <= N
    BY <1>0, <1>2
  <2>4. Taken(r, a, z, x)
    BY <2>1, <2>2, <2>3, OneExpression
  <2> QED
    BY <2>4 DEF Taken
<1> DEFINE all == {j \in 1 .. L : x = "?" \/ x = "*" \/ x = text[j]}
<1>5. Rest(m, r, q) = m[z + 1]
  BY <1>4 DEF Rest
<1>6. Fits(text, r, q) = all
  BY <1>0, <1>4 DEF Fits
<1> HIDE DEF all
<1> PICK R : R = g[i + 1]
  OBVIOUS
<1>7. R = m[z + 1] /\ R \subseteq 1 .. L + 1
  <2>1. z + 1 \in 1 .. N + 1
    BY <1>0, <1>2
  <2> QED
    BY <1>a, <2>1
<1>8. RegexAt(m, text, r, q) = GlobAt(g, text, pattern, i)
  <2>1. CASE x = "*"
    <3>1. all = 1 .. L
      BY <2>1 DEF all
    <3>2. RegexAt(m, text, r, q) = {j \in 1 .. L + 1 : \E k \in R : j <= k /\ j .. k - 1 \subseteq 1 .. L}
      BY <1>4, <1>5, <1>6, <1>7, <2>1, <3>1 DEF RegexAt
    <3>3. GlobAt(g, text, pattern, i) = {j \in 1 .. L + 1 : \E k \in R : j <= k}
      BY <2>1 DEF GlobAt
    <3>4. \A k \in R : \A j \in 1 .. L + 1 : j .. k - 1 \subseteq 1 .. L
      <4>1. \A k \in 1 .. L + 1 : \A j \in 1 .. L + 1 : j .. k - 1 \subseteq 1 .. L
        BY <1>0
      <4> QED
        BY <1>7, <4>1
    <3> QED
      BY <3>2, <3>3, <3>4
  <2>2. CASE x # "*"
    <3>1. RegexAt(m, text, r, q) = {j \in all : j + 1 \in R}
      BY <1>4, <1>5, <1>6, <1>7, <2>2 DEF RegexAt
    <3>2. GlobAt(g, text, pattern, i) = {j \in 1 .. L : (x = "?" \/ x = text[j]) /\ j + 1 \in R}
      BY <1>0, <2>2 DEF GlobAt
    <3> QED
      BY <2>2, <3>1, <3>2 DEF all
  <2> QED
    BY <2>1, <2>2
<1> QED
  BY <1>4, <1>8 DEF StepAgrees

(* The exclude file means what README says ("Exclude files using           *)
(* wildcards"), whatever characters a pattern and a name are made of: what *)
(* is matched after the whole chain of replacements (wildcard.cpp:34-69)   *)
(* is ? for a character, * for any, and every other character itself.      *)
THEOREM PatternsMean ==
    ASSUME NEW text \in Text, NEW pattern \in Text
    PROVE  Match(text, pattern) <=> Glob(text, pattern)
<1> PICK r \in Text : r = Regex(pattern) /\ r = Spell(pattern, Rx)
  BY RegexSpells, SpellType
<1> PICK n \in Nat, L \in Nat, N \in Nat : n = Len(pattern) /\ L = Len(text) /\ N = Len(r)
  BY LenProperties DEF Text
<1> PICK P : PlacesOf(P, pattern, Rx)
  BY RegexSpells, SpellPlaces
<1>1. PICK g \in [1 .. n + 1 -> SUBSET (1 .. L + 1)] :
          /\ Glob(text, pattern) <=> 1 \in g[1]
          /\ g[n + 1] = {L + 1}
          /\ \A i \in 1 .. n : g[i] = GlobAt(g, text, pattern, i)
  BY GlobTable
<1>2. PICK m \in [1 .. N + 1 -> SUBSET (1 .. L + 1)] :
          /\ RegexMatch(text, r) <=> 1 \in m[1]
          /\ m[N + 1] = {L + 1}
          /\ \A i \in 1 .. N : m[i] = RegexAt(m, text, r, i)
  BY RegexTable, ZenonT(40)
<1> DEFINE T == {k \in Nat : k \in 0 .. n => g[(n - k) + 1] = m[P[n - k] + 1]}
<1>3. 0 \in T
  <2>1. n - 0 = n /\ P[n] = N
    BY DEF PlacesOf
  <2> QED
    BY <1>1, <1>2, <2>1
<1>4. ASSUME NEW k \in T
      PROVE  k + 1 \in T
  <2>1. CASE k + 1 \in 0 .. n
    <3> PICK i : i = n - k
      OBVIOUS
    <3>1. i \in 1 .. n /\ k \in 0 .. n /\ n - (k + 1) = i - 1 /\ (i - 1) + 1 = i
      BY <2>1
    <3>2. g[i + 1] = m[P[i] + 1]
      BY <3>1
    <3>3. RestAgrees(text, pattern, r, P, g, m, i)
      BY <3>1, <3>2 DEF RestAgrees
    <3>4. StepAgrees(text, pattern, r, P, g, m, i)
      <4> HIDE DEF T
      <4> QED
        BY <3>3, StepMeans
    <3>5. m[P[i - 1] + 1] = g[i]
      BY <1>1, <1>2, <3>1, <3>4 DEF StepAgrees
    <3> QED
      BY <3>1, <3>5
  <2> QED
    BY <2>1
<1>5. T = Nat
  <2>1. T \subseteq Nat
    OBVIOUS
  <2> HIDE DEF T
  <2> QED
    BY <1>3, <1>4, <2>1, NatSet
<1>6. g[1] = m[1]
  <2>1. P[0] = 0
    BY DEF PlacesOf
  <2>2. n \in T /\ n - n = 0
    BY <1>5
  <2> QED
    BY <2>1, <2>2
<1> QED
  BY <1>1, <1>2, <1>6 DEF Match

-----------------------------------------------------------------------------
\* No pool is empty, so every queue has a reader, whatever the machine; and
\* where the machine's threads are divided, the pools have just as many.
THEOREM ThreadsDivided ==
    ASSUME NEW hardware \in Nat
    PROVE  /\ UploadShare(hardware) \in 1 .. 5
           /\ RemoteMd5Share(hardware) >= 1
           /\ LocalMd5Share(hardware) >= 1
           /\ Divided(hardware) =>
                UploadShare(hardware) + RemoteMd5Share(hardware)
                    + LocalMd5Share(hardware) = hardware
<1>1. CASE ~ Divided(hardware)
  BY <1>1 DEF UploadShare, RemoteMd5Share, LocalMd5Share
<1>2. CASE Divided(hardware)
  <2> DEFINE u == UploadShare(hardware)
             r == RemoteMd5Share(hardware)
             h == hardware - u
  <2>1. /\ u \in 1 .. 5 /\ h \in Nat /\ h >= 2
    BY <1>2 DEF Divided, UploadShare
  <2>2. r = h \div 2
    BY <1>2 DEF RemoteMd5Share
  <2> HIDE DEF u
  <2>3. r \in Nat /\ 1 <= r /\ r < h
    <3> HIDE DEF h
    <3> QED BY <2>1, <2>2
  <2>4. LocalMd5Share(hardware) = h - r
    BY <1>2 DEF LocalMd5Share, u
  <2> QED BY <1>2, <2>1, <2>3, <2>4 DEF u, r
<1> QED BY <1>1, <1>2
===============================================================================
