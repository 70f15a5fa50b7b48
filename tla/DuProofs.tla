------------------------------ MODULE DuProofs ------------------------------
(***************************************************************************)
(* Theorems about Du, for every file system and every name unlinked.         *)
(***************************************************************************)
EXTENDS Du, TLAPS, NaturalsInduction, WellFoundedInduction, FiniteSetTheorems

-----------------------------------------------------------------------------
(* A set of numbers has a least one.                                         *)
LEMMA NonemptyHasMin ==
    ASSUME NEW S, S \subseteq Nat, S # {}
    PROVE  \E m \in S : \A n \in S : m <= n
<1>1. PICK m \in S : \A n \in S : <<n, m>> \notin OpToRel(<, Nat)
  BY NatLessThanWellFounded, WFMin
<1>2. \A n \in S : ~(n < m)
  BY <1>1 DEF OpToRel
<1> QED BY <1>2

(* A set of numbers with 0, and with the next of each up to N, has them all. *)
LEMMA UpTo ==
    ASSUME NEW N \in Nat, NEW S, 0 \in S, \A n \in 0 .. N - 1 : n \in S => n + 1 \in S
    PROVE  0 .. N \subseteq S
<1> SUFFICES ASSUME NEW k \in 0 .. N, k \notin S PROVE FALSE
  OBVIOUS
<1> DEFINE out == {n \in 0 .. N : n \notin S}
<1>1. PICK m \in out : \A n \in out : m <= n
  <2>1. out \subseteq Nat /\ out # {}
    OBVIOUS
  <2> HIDE DEF out
  <2> QED BY <2>1, NonemptyHasMin
<1>2. m # 0 /\ m - 1 \in 0 .. N - 1 /\ ~(m <= m - 1)
  BY <1>1
<1>3. m - 1 \in S
  BY <1>1, <1>2
<1>4. (m - 1) + 1 = m
  BY <1>1
<1> QED BY <1>1, <1>2, <1>3, <1>4

(* Of some sets of inodes one has the fewest.                                *)
LEMMA FewestFirst ==
    ASSUME NEW C, C \subseteq SUBSET Inodes, C # {}
    PROVE  \E s \in C : \A t \in C : Cardinality(s) <= Cardinality(t)
<1> DEFINE counts == {Cardinality(s) : s \in C}
<1>1. counts \subseteq Nat
  <2> SUFFICES ASSUME NEW s \in C PROVE Cardinality(s) \in Nat
    OBVIOUS
  <2>1. s \in SUBSET Inodes
    OBVIOUS
  <2> QED BY <2>1, DuAssumption, FS_Subset, FS_CardinalityType
<1>2. PICK m \in counts : \A n \in counts : m <= n
  <2>1. counts # {}
    OBVIOUS
  <2> HIDE DEF counts
  <2> QED BY <1>1, <2>1, NonemptyHasMin
<1> QED BY <1>2

(* A set of inodes without one of them.                                      *)
LEMMA OneLess ==
    ASSUME NEW s \in SUBSET Inodes, NEW x \in s
    PROVE  /\ s \ {x} \in SUBSET Inodes /\ x \in Inodes /\ Cardinality(s) \in Nat
           /\ Cardinality(s \ {x}) \in Nat /\ Cardinality(s \ {x}) < Cardinality(s)
<1>1. IsFiniteSet(s) /\ Cardinality(s) \in Nat
  BY DuAssumption, FS_Subset, FS_CardinalityType
<1>2. IsFiniteSet(s \ {x}) /\ Cardinality(s \ {x}) = Cardinality(s) - 1
  BY <1>1, FS_RemoveElement
<1>3. Cardinality(s \ {x}) \in Nat
  BY <1>2, FS_CardinalityType
<1> QED BY <1>1, <1>2, <1>3

(* A step can be taken again and again.                                      *)
IsStep(next, T) == next \in [T -> T]
Iterates(g, x, next, N, T) ==
    /\ g \in [0 .. N -> T] /\ g[0] = x
    /\ \A n \in 1 .. N : g[n] = next[g[n - 1]]

LEMMA IterationExists ==
    ASSUME NEW T, NEW x \in T, NEW next, IsStep(next, T), NEW N \in Nat
    PROVE  \E g : Iterates(g, x, next, N, T)
<1> USE DEF IsStep, Iterates
<1> DEFINE Upto(m, g) == g \in [0 .. m -> T] /\ g[0] = x
                         /\ \A n \in 1 .. m : g[n] = next[g[n - 1]]
           S == {m \in 0 .. N : \E g : Upto(m, g)}
<1>1. 0 \in S
  <2>1. PICK z : z = [n \in 0 .. 0 |-> x]
    OBVIOUS
  <2>2. z \in [0 .. 0 -> T] /\ z[0] = x
    BY <2>1
  <2>3. Upto(0, z)
    BY <2>2
  <2> QED BY <2>3
<1>2. ASSUME NEW m \in 0 .. N - 1, m \in S PROVE m + 1 \in S
  <2>1. PICK g : Upto(m, g)
    BY <1>2
  <2>2. g[m] \in T
    BY <2>1
  <2>3. PICK h : h = [n \in 0 .. m + 1 |-> IF n = m + 1 THEN next[g[m]] ELSE g[n]]
    OBVIOUS
  <2>4. h \in [0 .. m + 1 -> T] /\ h[0] = x
    BY <2>1, <2>2, <2>3
  <2>5. ASSUME NEW n \in 1 .. m + 1 PROVE h[n] = next[h[n - 1]]
    BY <2>1, <2>3
  <2>6. Upto(m + 1, h)
    BY <2>4, <2>5
  <2> QED BY <2>6
<1>3. N \in S
  <2> HIDE DEF S
  <2> QED BY <1>1, <1>2, UpTo
<1> QED BY <1>3

-----------------------------------------------------------------------------
(* Sums of sizes.                                                            *)

One(s) == CHOOSE x \in s : TRUE

(* A function on sets that MapThenFoldSet may compute.                       *)
Sums(F, S) ==
    F = [s \in SUBSET S |-> IF s = {} THEN 0 ELSE Size(One(s)) + F[s \ {One(s)}]]

LEMMA SumsExist == ASSUME NEW S \in SUBSET Inodes
    PROVE \E F : Sums(F, S) /\ F \in [SUBSET S -> Nat]
<1> DEFINE T == [SUBSET S -> Nat]
           N == Cardinality(S)
<1>1. N \in Nat /\ \A s \in SUBSET S : s \in SUBSET Inodes /\ Cardinality(s) \in Nat
                                       /\ Cardinality(s) <= N
  BY DuAssumption, FS_Subset, FS_CardinalityType
<1>2. \A s \in SUBSET S : s # {} => /\ One(s) \in s /\ Size(One(s)) \in Nat
                                    /\ s \ {One(s)} \in SUBSET S
                                    /\ Cardinality(s \ {One(s)}) < Cardinality(s)
  <2> SUFFICES ASSUME NEW s \in SUBSET S, s # {}
               PROVE  /\ One(s) \in s /\ Size(One(s)) \in Nat /\ s \ {One(s)} \in SUBSET S
                      /\ Cardinality(s \ {One(s)}) < Cardinality(s)
    OBVIOUS
  <2>1. One(s) \in s
    BY DEF One
  <2> QED BY <2>1, OneLess, DuAssumption
<1>3. PICK next : next = [F \in T |-> [s \in SUBSET S |->
                            IF s = {} THEN 0 ELSE Size(One(s)) + F[s \ {One(s)}]]]
  OBVIOUS
<1>4. PICK zero : zero = [s \in SUBSET S |-> 0]
  OBVIOUS
<1>5. zero \in T /\ IsStep(next, T)
  <2>1. zero \in T
    BY <1>4
  <2>2. ASSUME NEW F \in T PROVE next[F] \in T
    <3>1. ASSUME NEW s \in SUBSET S
          PROVE  (IF s = {} THEN 0 ELSE Size(One(s)) + F[s \ {One(s)}]) \in Nat
      <4>1. CASE s # {}
        <5>1. F[s \ {One(s)}] \in Nat /\ Size(One(s)) \in Nat
          BY <1>2, <4>1
        <5> QED BY <4>1, <5>1
      <4> QED BY <4>1
    <3> QED BY <1>3, <3>1
  <2>3. next = [F \in T |-> next[F]]
    BY <1>3
  <2> QED BY <2>1, <2>2, <2>3 DEF IsStep
<1>6. PICK g : Iterates(g, zero, next, N + 1, T)
  <2> HIDE DEF N, T
  <2> QED BY <1>1, <1>5, IterationExists
<1>7. \A n \in 0 .. N + 1 : g[n] \in T
  BY <1>6 DEF Iterates
<1>8. ASSUME NEW n \in 0 .. N, NEW s \in SUBSET S
      PROVE  g[n + 1][s] = IF s = {} THEN 0 ELSE Size(One(s)) + g[n][s \ {One(s)}]
  <2>1. n \in 0 .. N + 1 /\ n + 1 \in 1 .. N + 1 /\ (n + 1) - 1 = n
    BY <1>1
  <2>2. g[n + 1] = next[g[n]]
    BY <1>6, <2>1 DEF Iterates
  <2> QED BY <1>3, <1>7, <2>1, <2>2
<1> DEFINE Good ==
             {n \in 0 .. N : \A s \in SUBSET S : Cardinality(s) <= n => g[n + 1][s] = g[n][s]}
<1>9. 0 \in Good
  <2> SUFFICES ASSUME NEW s \in SUBSET S, Cardinality(s) <= 0 PROVE g[0 + 1][s] = g[0][s]
    BY <1>1
  <2>1. s = {}
    <3>1. Cardinality(s) = 0 /\ IsFiniteSet(s)
      BY <1>1, DuAssumption, FS_Subset
    <3> QED BY <3>1, FS_EmptySet
  <2>2. g[0][s] = 0
    BY <1>4, <1>6 DEF Iterates
  <2>3. 0 \in 0 .. N
    BY <1>1
  <2> QED BY <1>8, <2>1, <2>2, <2>3
<1>10. ASSUME NEW n \in 0 .. N - 1, n \in Good PROVE n + 1 \in Good
  <2>1. n \in 0 .. N /\ n + 1 \in 0 .. N /\ n \in Nat
    BY <1>1
  <2> SUFFICES ASSUME NEW s \in SUBSET S, Cardinality(s) <= n + 1
               PROVE  g[(n + 1) + 1][s] = g[n + 1][s]
    BY <2>1
  <2>2. CASE s = {}
    BY <1>8, <2>1, <2>2
  <2>3. CASE s # {}
    <3> DEFINE r == s \ {One(s)}
    <3>1. r \in SUBSET S /\ Cardinality(r) <= n
      BY <1>1, <1>2, <2>1, <2>3
    <3>2. g[n + 1][r] = g[n][r]
      BY <1>10, <3>1
    <3> QED BY <1>8, <2>1, <2>3, <3>2
  <2> QED BY <2>2, <2>3
<1>11. 0 .. N \subseteq Good
  <2> HIDE DEF Good, N
  <2> QED BY <1>1, <1>9, <1>10, UpTo
<1>12. N \in 0 .. N /\ N \in Good
  BY <1>1, <1>11
<1>13. ASSUME NEW s \in SUBSET S
       PROVE  g[N][s] = IF s = {} THEN 0 ELSE Size(One(s)) + g[N][s \ {One(s)}]
  <2>1. g[N + 1][s] = g[N][s]
    BY <1>1, <1>12
  <2> QED BY <1>8, <1>12, <2>1
<1>14. g[N] \in T
  <2>1. N \in 0 .. N + 1
    BY <1>1
  <2> QED BY <1>7, <2>1
<1>15. g[N] = [s \in SUBSET S |-> IF s = {} THEN 0 ELSE Size(One(s)) + g[N][s \ {One(s)}]]
  BY <1>13, <1>14
<1> QED BY <1>14, <1>15 DEF Sums

(* Two such functions agree.                                                 *)
LEMMA SumsAgree ==
    ASSUME NEW S \in SUBSET Inodes, NEW F, NEW G, Sums(F, S), Sums(G, Inodes),
           NEW s \in SUBSET S
    PROVE  F[s] = G[s]
<1> DEFINE C == {r \in SUBSET S : F[r] # G[r]}
<1> SUFFICES C = {}
  OBVIOUS
<1> SUFFICES ASSUME C # {} PROVE FALSE
  OBVIOUS
<1>1. C \subseteq SUBSET Inodes
  OBVIOUS
<1>2. PICK r \in C : \A t \in C : Cardinality(r) <= Cardinality(t)
  <2> HIDE DEF C
  <2> QED BY <1>1, FewestFirst
<1>3. r \in SUBSET S /\ r \in SUBSET Inodes /\ F[r] # G[r]
  BY <1>2
<1>4. F[r] = (IF r = {} THEN 0 ELSE Size(One(r)) + F[r \ {One(r)}])
  BY <1>3, Zenon DEF Sums
<1>5. G[r] = (IF r = {} THEN 0 ELSE Size(One(r)) + G[r \ {One(r)}])
  BY <1>3, Zenon DEF Sums
<1>6. r # {} /\ One(r) \in r
  BY <1>3, <1>4, <1>5 DEF One
<1>7. PICK x : x = One(r)
  OBVIOUS
<1>8. F[r \ {x}] # G[r \ {x}]
  BY <1>3, <1>4, <1>5, <1>6, <1>7
<1>9. r \ {x} \in SUBSET S /\ Cardinality(r) \in Nat /\ Cardinality(r \ {x}) \in Nat
      /\ Cardinality(r \ {x}) < Cardinality(r)
  BY <1>3, <1>6, <1>7, OneLess
<1>10. r \ {x} \in C
  BY <1>8, <1>9
<1>11. Cardinality(r) <= Cardinality(r \ {x})
  <2> HIDE DEF C
  <2> QED BY <1>2, <1>10
<1> QED BY <1>9, <1>11

(* SizeOf is one function for all sets of inodes.                            *)
SizesAre(G) ==
    /\ Sums(G, Inodes) /\ G \in [SUBSET Inodes -> Nat]
    /\ \A S \in SUBSET Inodes : SizeOf(S) = G[S]

LEMMA SizesExist == \E G : SizesAre(G)
<1>1. PICK G : Sums(G, Inodes) /\ G \in [SUBSET Inodes -> Nat]
  BY SumsExist
<1>2. ASSUME NEW S \in SUBSET Inodes PROVE SizeOf(S) = G[S]
  <2> DEFINE iter[s \in SUBSET S] ==
               IF s = {} THEN 0 ELSE LET x == CHOOSE x \in s : TRUE
                                     IN  Size(x) + iter[s \ {x}]
  <2>1. SizeOf(S) = iter[S]
    BY DEF SizeOf, MapThenSumSet, MapThenFoldSet
  <2>2. PICK F : Sums(F, S)
    BY SumsExist
  <2>3. F = [s \in SUBSET S |-> IF s = {} THEN 0 ELSE LET x == CHOOSE x \in s : TRUE
                                                      IN  Size(x) + F[s \ {x}]]
    BY <2>2, Zenon DEF Sums, One
  <2>4. iter = [s \in SUBSET S |-> IF s = {} THEN 0 ELSE LET x == CHOOSE x \in s : TRUE
                                                         IN  Size(x) + iter[s \ {x}]]
    BY <2>3
  <2> HIDE DEF iter
  <2>5. Sums(iter, S)
    BY <2>4, Zenon DEF Sums, One
  <2>6. S \in SUBSET S
    OBVIOUS
  <2>7. iter[S] = G[S]
    BY <1>1, <2>5, <2>6, SumsAgree
  <2> QED BY <2>1, <2>7
<1> QED BY <1>1, <1>2 DEF SizesAre

LEMMA SizeIsNat == \A S \in SUBSET Inodes : SizeOf(S) \in Nat
<1>1. PICK G : SizesAre(G)
  BY SizesExist
<1> QED BY <1>1 DEF SizesAre

LEMMA SizeByOne ==
    /\ SizeOf({}) = 0
    /\ \A S \in SUBSET Inodes :
         S # {} => /\ One(S) \in S
                   /\ SizeOf(S) = Size(One(S)) + SizeOf(S \ {One(S)})
<1>1. PICK G : SizesAre(G)
  BY SizesExist
<1>2. ASSUME NEW S \in SUBSET Inodes
      PROVE  G[S] = IF S = {} THEN 0 ELSE Size(One(S)) + G[S \ {One(S)}]
  BY <1>1, Zenon DEF SizesAre, Sums
<1>3. SizeOf({}) = 0
  <2>1. {} \in SUBSET Inodes
    OBVIOUS
  <2> QED BY <1>1, <1>2, <2>1 DEF SizesAre
<1>4. ASSUME NEW S \in SUBSET Inodes, S # {}
      PROVE  One(S) \in S /\ SizeOf(S) = Size(One(S)) + SizeOf(S \ {One(S)})
  <2>1. One(S) \in S
    BY <1>4 DEF One
  <2>2. S \ {One(S)} \in SUBSET Inodes
    OBVIOUS
  <2>3. G[S] = Size(One(S)) + G[S \ {One(S)}]
    BY <1>2, <1>4
  <2> QED BY <1>1, <2>1, <2>2, <2>3 DEF SizesAre
<1> QED BY <1>3, <1>4

(* One inode more.                                                           *)
LEMMA SizeWith ==
    ASSUME NEW s \in SUBSET Inodes, NEW x \in Inodes, x \notin s
    PROVE  SizeOf(s \union {x}) = SizeOf(s) + Size(x)
<1> DEFINE Adds(r) == \A y \in Inodes \ r : SizeOf(r \union {y}) = SizeOf(r) + Size(y)
           C == {r \in SUBSET Inodes : ~Adds(r)}
<1> SUFFICES ASSUME C # {} PROVE FALSE
  OBVIOUS
<1>1. C \subseteq SUBSET Inodes
  OBVIOUS
<1>2. PICK r \in C : \A t \in C : Cardinality(r) <= Cardinality(t)
  <2> HIDE DEF C
  <2> QED BY <1>1, FewestFirst
<1>3. r \in SUBSET Inodes /\ ~Adds(r)
  BY <1>2
<1>4. PICK y \in Inodes \ r : SizeOf(r \union {y}) # SizeOf(r) + Size(y)
  BY <1>3
<1>5. PICK z : z = One(r \union {y})
  OBVIOUS
<1>6. z \in r \union {y} /\ SizeOf(r \union {y}) = Size(z) + SizeOf((r \union {y}) \ {z})
  <2>1. r \union {y} \in SUBSET Inodes /\ r \union {y} # {}
    BY <1>3, <1>4
  <2> QED BY <1>5, <2>1, SizeByOne
<1>7. Size(y) \in Nat /\ Size(z) \in Nat /\ SizeOf(r) \in Nat
  BY <1>3, <1>4, <1>6, SizeIsNat, DuAssumption
<1>8. z # y
  <2> SUFFICES ASSUME z = y PROVE FALSE
    OBVIOUS
  <2>1. (r \union {y}) \ {z} = r
    BY <1>4
  <2>2. SizeOf(r \union {y}) = Size(y) + SizeOf(r)
    BY <1>6, <2>1, Zenon
  <2>3. Size(y) + SizeOf(r) = SizeOf(r) + Size(y)
    BY <1>7
  <2> QED BY <1>4, <2>2, <2>3, Zenon
<1>9. z \in r /\ (r \union {y}) \ {z} = (r \ {z}) \union {y} /\ y \in Inodes \ (r \ {z})
      /\ z \in Inodes \ (r \ {z}) /\ (r \ {z}) \union {z} = r
  BY <1>3, <1>4, <1>6, <1>8
<1>10. r \ {z} \in SUBSET Inodes /\ Cardinality(r) \in Nat /\ Cardinality(r \ {z}) \in Nat
       /\ Cardinality(r \ {z}) < Cardinality(r)
  BY <1>3, <1>9, OneLess
<1>11. Adds(r \ {z})
  <2>1. ~(Cardinality(r) <= Cardinality(r \ {z}))
    BY <1>10
  <2>2. r \ {z} \notin C
    <3> HIDE DEF C
    <3> QED BY <1>2, <2>1
  <2> QED BY <1>10, <2>2
<1>12. SizeOf((r \ {z}) \union {y}) = SizeOf(r \ {z}) + Size(y)
       /\ SizeOf(r) = SizeOf(r \ {z}) + Size(z)
  BY <1>9, <1>11
<1>13. SizeOf(r \ {z}) \in Nat
  BY <1>10, SizeIsNat
<1>14. SizeOf(r \union {y}) = Size(z) + (SizeOf(r \ {z}) + Size(y))
  BY <1>6, <1>9, <1>12
<1> HIDE DEF C, Adds
<1> QED BY <1>4, <1>7, <1>12, <1>13, <1>14

LEMMA SizeOfOne == \A i \in Inodes : SizeOf({i}) = Size(i)
<1> SUFFICES ASSUME NEW i \in Inodes PROVE SizeOf({i}) = Size(i)
  OBVIOUS
<1>1. {} \in SUBSET Inodes /\ {} \union {i} = {i} /\ i \notin {}
  OBVIOUS
<1>2. SizeOf({} \union {i}) = SizeOf({}) + Size(i)
  BY <1>1, SizeWith
<1>3. SizeOf({i}) = 0 + Size(i) /\ Size(i) \in Nat
  BY <1>1, <1>2, SizeByOne, DuAssumption
<1> QED BY <1>3

(* The size of two sets with nothing in common.                              *)
LEMMA SizeOfBoth ==
    ASSUME NEW a \in SUBSET Inodes, NEW b \in SUBSET Inodes, a \intersect b = {}
    PROVE  SizeOf(a \union b) = SizeOf(a) + SizeOf(b)
<1> DEFINE C == {r \in SUBSET b : SizeOf(a \union r) # SizeOf(a) + SizeOf(r)}
<1> SUFFICES ASSUME C # {} PROVE FALSE
  OBVIOUS
<1>1. C \subseteq SUBSET Inodes
  OBVIOUS
<1>2. PICK r \in C : \A t \in C : Cardinality(r) <= Cardinality(t)
  <2> HIDE DEF C
  <2> QED BY <1>1, FewestFirst
<1>3. r \in SUBSET b /\ r \in SUBSET Inodes /\ SizeOf(a \union r) # SizeOf(a) + SizeOf(r)
  BY <1>2
<1>4. SizeOf(a) \in Nat /\ SizeOf({}) = 0 /\ a \union {} = a
  BY SizeIsNat, SizeByOne
<1>5. r # {}
  BY <1>3, <1>4
<1>6. PICK z : z \in r
  BY <1>5
<1>7. r \ {z} \in SUBSET b /\ r \ {z} \in SUBSET Inodes /\ Cardinality(r) \in Nat
      /\ Cardinality(r \ {z}) \in Nat /\ Cardinality(r \ {z}) < Cardinality(r) /\ z \in Inodes
  BY <1>3, <1>6, OneLess
<1>8. SizeOf(a \union (r \ {z})) = SizeOf(a) + SizeOf(r \ {z})
  <2>1. ~(Cardinality(r) <= Cardinality(r \ {z}))
    BY <1>7
  <2>2. r \ {z} \notin C
    <3> HIDE DEF C
    <3> QED BY <1>2, <2>1
  <2> QED BY <1>7, <2>2
<1>9. z \notin r \ {z} /\ z \notin a \union (r \ {z}) /\ a \union (r \ {z}) \in SUBSET Inodes
      /\ (r \ {z}) \union {z} = r /\ (a \union (r \ {z})) \union {z} = a \union r
  BY <1>3, <1>6, <1>7
<1>10. SizeOf(r) = SizeOf(r \ {z}) + Size(z)
  <2>1. SizeOf((r \ {z}) \union {z}) = SizeOf(r \ {z}) + Size(z)
    BY <1>7, <1>9, SizeWith
  <2> QED BY <1>9, <2>1
<1>11. SizeOf(a \union r) = SizeOf(a \union (r \ {z})) + Size(z)
  <2>1. SizeOf((a \union (r \ {z})) \union {z}) = SizeOf(a \union (r \ {z})) + Size(z)
    BY <1>7, <1>9, SizeWith
  <2> QED BY <1>9, <2>1
<1>12. SizeOf(r \ {z}) \in Nat /\ Size(z) \in Nat
  BY <1>7, SizeIsNat, DuAssumption
<1> HIDE DEF C
<1> QED BY <1>3, <1>4, <1>8, <1>10, <1>11, <1>12

-----------------------------------------------------------------------------
(* Paths.                                                                    *)
Inode == Inodes \union {None}

Frame == [dir : Inodes, entry : Entries, total : Nat, next : Names \union {None},
          inode : Inode, left : SUBSET Names]

LEMMA LookupType ==
    ASSUME tree \in TreeType, NEW e \in Entries PROVE Lookup(e) \in Inode
<1>1. CASE e = Top
  BY <1>1, DuAssumption DEF Lookup, Inode
<1>2. CASE e # Top
  <2>1. e \in Inodes \X Names
    BY <1>2 DEF Entries
  <2>2. tree.names[e[1]][e[2]] \in Inode
    BY <2>1 DEF TreeType, Inode
  <2> QED BY <1>2, <2>2 DEF Lookup
<1> QED BY <1>1, <1>2

LEMMA EntryIsLookedUp ==
    ASSUME NEW d \in Inodes, NEW n \in Names
    PROVE  /\ <<d, n>> \in Entries
           /\ tree \in TreeType => /\ Lookup(<<d, n>>) = tree.names[d][n]
                                   /\ tree.names[d][n] \in Inode
<1>1. <<d, n>> # Top /\ <<d, n>> \in Entries
  BY DuAssumption DEF Top, Entries
<1> QED BY <1>1 DEF Lookup, TreeType, Inode

(* A link is followed to something that is no link, or nowhere.              *)
LEMMA StatType ==
    ASSUME tree \in TreeType, NEW e \in Entries
    PROVE  /\ Stat(e) \in Inode /\ ~IsLink(Stat(e))
           /\ ~IsLink(Lookup(e)) => Stat(e) = Lookup(e)
<1> DEFINE ahead == [i \in Inodes \union {None} |->
                       IF ~IsLink(i) THEN i
                       ELSE IF tree.to[i] = None THEN None ELSE Lookup(tree.to[i])]
           hop[k \in 0 .. Cardinality(Inodes)] ==
             IF k = 0 THEN Lookup(e) ELSE ahead[hop[k - 1]]
           N == Cardinality(Inodes)
<1>1. N \in Nat
  BY DuAssumption, FS_CardinalityType
<1>2. IsStep(ahead, Inode)
  <2>1. ASSUME NEW i \in Inode, IsLink(i), tree.to[i] # None PROVE Lookup(tree.to[i]) \in Inode
    <3>1. tree.to[i] \in Entries
      BY <2>1 DEF IsLink, Inode, TreeType
    <3> QED BY <3>1, LookupType
  <2>2. \A i \in Inode : ahead[i] \in Inode
    BY <2>1 DEF Inode
  <2> QED BY <2>2 DEF IsStep, Inode
<1>3. Lookup(e) \in Inode
  BY LookupType
<1>4. PICK g : Iterates(g, Lookup(e), ahead, N, Inode)
  <2> HIDE DEF ahead, N
  <2> QED BY <1>1, <1>2, <1>3, IterationExists
<1>5. g = [k \in 0 .. N |-> IF k = 0 THEN Lookup(e) ELSE ahead[g[k - 1]]]
  <2> HIDE DEF ahead, N
  <2>1. g[0] = Lookup(e) /\ \A k \in 1 .. N : g[k] = ahead[g[k - 1]]
    BY <1>4 DEF Iterates
  <2>2. g \in [0 .. N -> Inode]
    BY <1>4 DEF Iterates
  <2>3. \A k \in 0 .. N : k # 0 => k \in 1 .. N
    BY <1>1
  <2> QED BY <1>1, <2>1, <2>2, <2>3
<1>6. hop = [k \in 0 .. N |-> IF k = 0 THEN Lookup(e) ELSE ahead[hop[k - 1]]]
  BY <1>5
<1>7. Stat(e) = IF IsLink(hop[N]) THEN None ELSE hop[N]
  BY DEF Stat
<1> HIDE DEF hop, ahead
<1>8. hop[0] = Lookup(e) /\ \A k \in 1 .. N : hop[k] = ahead[hop[k - 1]]
  <2> DEFINE same == [k \in 0 .. N |-> IF k = 0 THEN Lookup(e) ELSE ahead[hop[k - 1]]]
  <2>1. same[0] = Lookup(e) /\ \A k \in 1 .. N : same[k] = ahead[hop[k - 1]]
    BY <1>1
  <2>2. hop = same
    BY <1>6, Zenon
  <2> HIDE DEF same
  <2> QED BY <2>1, <2>2, Zenon
<1> HIDE DEF N
<1> DEFINE S == {k \in 0 .. N : hop[k] \in Inode}
           L == {k \in 0 .. N : hop[k] = Lookup(e)}
<1>9. N \in S
  <2>1. 0 \in S
    BY <1>1, <1>3, <1>8
  <2>2. ASSUME NEW k \in 0 .. N - 1, k \in S PROVE k + 1 \in S
    <3>1. k + 1 \in 1 .. N /\ k + 1 \in 0 .. N /\ (k + 1) - 1 = k
      BY <1>1
    <3>2. hop[k + 1] = ahead[hop[k]]
      BY <1>8, <3>1
    <3> QED BY <1>2, <2>2, <3>1, <3>2 DEF IsStep
  <2> HIDE DEF S
  <2>3. 0 .. N \subseteq S
    BY <1>1, <2>1, <2>2, UpTo
  <2> QED BY <1>1, <2>3
<1>10. ASSUME ~IsLink(Lookup(e)) PROVE N \in L
  <2>1. 0 \in L
    BY <1>1, <1>8
  <2>2. ASSUME NEW k \in 0 .. N - 1, k \in L PROVE k + 1 \in L
    <3>1. k + 1 \in 1 .. N /\ k + 1 \in 0 .. N /\ (k + 1) - 1 = k
      BY <1>1
    <3>2. hop[k + 1] = ahead[hop[k]]
      BY <1>8, <3>1
    <3>3. ahead[Lookup(e)] = Lookup(e)
      BY <1>3, <1>10 DEF ahead, Inode
    <3> QED BY <2>2, <3>1, <3>2, <3>3
  <2> HIDE DEF L
  <2>3. 0 .. N \subseteq L
    BY <1>1, <2>1, <2>2, UpTo
  <2> QED BY <1>1, <2>3
<1>11. ~IsLink(None) /\ None \in Inode
  BY DEF IsLink, Inode
<1> QED BY <1>7, <1>9, <1>10, <1>11

LEMMA TargetType ==
    ASSUME tree \in TreeType, NEW e \in Entries
    PROVE  StatOrLstat(e) \in Inode
BY StatType, LookupType DEF StatOrLstat

-----------------------------------------------------------------------------
(* The steps of DirectoryIterator.                                           *)
AdvancedTo(r, it, holds) ==
    /\ r \in Frame /\ r.dir = it.dir /\ r.entry = it.entry /\ r.total = it.total
    /\ r.next = None => /\ r.left = {}
                        /\ holds => \A n \in it.left : tree.names[it.dir][n] = None
    /\ r.next # None =>
         /\ holds /\ r.next \in it.left /\ r.left \subseteq it.left \ {r.next}
         /\ r.inode = tree.names[it.dir][r.next] /\ r.inode # None
         /\ \A n \in it.left : n = r.next \/ n \in r.left \/ tree.names[it.dir][n] = None

LEMMA AdvancedIs ==
    ASSUME tree \in TreeType, NEW it \in Frame, NEW holds, NEW r \in Advanced(it, holds)
    PROVE  AdvancedTo(r, it, holds)
<1> DEFINE alive == IF holds THEN {n \in it.left : tree.names[it.dir][n] # None} ELSE {}
<1>1. /\ it.dir \in Inodes /\ it.left \subseteq Names
      /\ it = [dir |-> it.dir, entry |-> it.entry, total |-> it.total, next |-> it.next,
               inode |-> it.inode, left |-> it.left]
      /\ it.entry \in Entries /\ it.total \in Nat
  BY DEF Frame
<1>2. CASE alive = {}
  <2>1. r = [it EXCEPT !.next = None, !.inode = None, !.left = {}]
    BY <1>2 DEF Advanced
  <2>2. r.dir = it.dir /\ r.entry = it.entry /\ r.total = it.total
        /\ r.next = None /\ r.inode = None /\ r.left = {}
    BY <1>1, <2>1
  <2>3. r \in Frame
    BY <1>1, <2>1 DEF Frame, Inode
  <2>4. holds => \A n \in it.left : tree.names[it.dir][n] = None
    BY <1>2
  <2> QED BY <2>2, <2>3, <2>4 DEF AdvancedTo
<1>3. CASE alive # {}
  <2>1. PICK n \in alive : r = [it EXCEPT !.next = n, !.inode = tree.names[it.dir][n],
                                          !.left = alive \ {n}]
    BY <1>3 DEF Advanced
  <2>2. /\ r.dir = it.dir /\ r.entry = it.entry /\ r.total = it.total
        /\ r.next = n /\ r.inode = tree.names[it.dir][n] /\ r.left = alive \ {n}
    BY <1>1, <2>1
  <2>3. holds /\ n \in it.left /\ n \in Names /\ n # None /\ tree.names[it.dir][n] # None
    BY <1>1, <1>3, <2>1, DuAssumption
  <2>4. tree.names[it.dir][n] \in Inode
    BY <1>1, <2>3, EntryIsLookedUp
  <2>5. alive \ {n} \subseteq Names
    BY <1>1
  <2>6. r \in Frame
    BY <1>1, <2>1, <2>3, <2>4, <2>5 DEF Frame
  <2>7. alive \ {n} \subseteq it.left \ {n}
        /\ \A m \in it.left : m = n \/ m \in alive \ {n} \/ tree.names[it.dir][m] = None
    BY <2>3
  <2> QED BY <2>2, <2>3, <2>6, <2>7 DEF AdvancedTo
<1> QED BY <1>2, <1>3

LEMMA OpenedIs ==
    ASSUME tree \in TreeType, NEW e \in Entries, NEW d \in Inodes
    PROVE  LET o == Opened(e, d)
           IN  /\ o \in Frame /\ o.dir = d /\ o.entry = e /\ o.total = 0
               /\ o.left = IF PathHolds(stack) /\ Stat(e) = d /\ d \notin tree.locked
                           THEN {n \in Names : tree.names[d][n] # None} ELSE {}
BY DEF Opened, Frame, Inode

-----------------------------------------------------------------------------
(* Stacks.                                                                   *)
Replaced(t, s, x) ==   \* s with x on top for its own top
    /\ Len(t) = Len(s) /\ t[1] = x /\ \A k \in 2 .. Len(s) : t[k] = s[k]

LEMMA ReplaceTop ==
    ASSUME NEW s \in Seq(Frame), s # <<>>, NEW x \in Frame
    PROVE  <<x>> \o Tail(s) \in Seq(Frame) /\ Replaced(<<x>> \o Tail(s), s, x)
<1>1. Len(s) \in Nat \ {0} /\ Tail(s) \in Seq(Frame) /\ Len(Tail(s)) = Len(s) - 1
  OBVIOUS
<1>2. \A k \in 1 .. Len(s) - 1 : Tail(s)[k] = s[k + 1]
  BY <1>1
<1>3. <<x>> \in Seq(Frame) /\ Len(<<x>>) = 1
  OBVIOUS
<1>4. Len(<<x>> \o Tail(s)) = Len(s) /\ <<x>> \o Tail(s) \in Seq(Frame)
  BY <1>1, <1>3
<1>5. \A k \in 2 .. Len(s) : (<<x>> \o Tail(s))[k] = Tail(s)[k - 1]
  BY <1>1, <1>3
<1>6. (<<x>> \o Tail(s))[1] = x
  BY <1>1, <1>3
<1>7. \A k \in 2 .. Len(s) : k - 1 \in 1 .. Len(s) - 1 /\ (k - 1) + 1 = k
  BY <1>1
<1> QED BY <1>2, <1>4, <1>5, <1>6, <1>7 DEF Replaced

Pushed(t, s, y, x) ==   \* s with x for its top, and y on it
    /\ Len(t) = Len(s) + 1 /\ t[1] = y /\ t[2] = x
    /\ \A k \in 3 .. Len(s) + 1 : t[k] = s[k - 1]

LEMMA PushOnTop ==
    ASSUME NEW s \in Seq(Frame), s # <<>>, NEW x \in Frame, NEW y \in Frame
    PROVE  <<y, x>> \o Tail(s) \in Seq(Frame) /\ Pushed(<<y, x>> \o Tail(s), s, y, x)
<1>1. Len(s) \in Nat \ {0} /\ Tail(s) \in Seq(Frame) /\ Len(Tail(s)) = Len(s) - 1
  OBVIOUS
<1>2. \A k \in 1 .. Len(s) - 1 : Tail(s)[k] = s[k + 1]
  BY <1>1
<1>3. <<y, x>> \in Seq(Frame) /\ Len(<<y, x>>) = 2
  OBVIOUS
<1>4. Len(<<y, x>> \o Tail(s)) = Len(s) + 1 /\ <<y, x>> \o Tail(s) \in Seq(Frame)
  BY <1>1, <1>3
<1>5. \A k \in 3 .. Len(s) + 1 : (<<y, x>> \o Tail(s))[k] = Tail(s)[k - 2]
  BY <1>1, <1>3
<1>6. (<<y, x>> \o Tail(s))[1] = y /\ (<<y, x>> \o Tail(s))[2] = x
  BY <1>1, <1>3
<1>7. \A k \in 3 .. Len(s) + 1 : k - 2 \in 1 .. Len(s) - 1 /\ (k - 2) + 1 = k - 1
  BY <1>1
<1> QED BY <1>2, <1>4, <1>5, <1>6, <1>7 DEF Pushed

Popped(t, s, total) ==   \* s without its top, whose total the next takes over
    /\ Len(t) = Len(s) - 1 /\ t[1] = [s[2] EXCEPT !.total = @ + total]
    /\ \A k \in 2 .. Len(s) - 1 : t[k] = s[k + 1]

LEMMA PopTop ==
    ASSUME NEW s \in Seq(Frame), s # <<>>, Len(s) # 1, NEW total \in Nat
    PROVE  LET t == [Tail(s) EXCEPT ![1].total = @ + total]
           IN  t \in Seq(Frame) /\ Popped(t, s, total)
<1>1. Len(s) \in Nat /\ Len(s) >= 2 /\ Tail(s) \in Seq(Frame) /\ Len(Tail(s)) = Len(s) - 1
  <2>1. Len(s) \in Nat \ {0} /\ Tail(s) \in Seq(Frame) /\ Len(Tail(s)) = Len(s) - 1
    OBVIOUS
  <2>2. Len(s) >= 2
    BY <2>1
  <2> QED BY <2>1, <2>2
<1>2. \A k \in 1 .. Len(s) - 1 : Tail(s)[k] = s[k + 1]
  BY <1>1
<1>3. s[2] \in Frame /\ Tail(s)[1] = s[2]
  BY <1>1, <1>2
<1>4. PICK x \in Frame : x = [s[2] EXCEPT !.total = @ + total]
  <2>1. [s[2] EXCEPT !.total = @ + total] \in Frame
    BY <1>3 DEF Frame
  <2> QED BY <2>1
<1>5. PICK t : t = [Tail(s) EXCEPT ![1].total = @ + total]
  OBVIOUS
<1>6. t = [Tail(s) EXCEPT ![1] = x]
  BY <1>3, <1>4, <1>5
<1>7. PICK q \in Seq(Frame) : q = Tail(s)
  BY <1>1
<1>8. t = [q EXCEPT ![1] = x] /\ Len(q) = Len(s) - 1 /\ 1 \in DOMAIN q
  <2>1. t = [q EXCEPT ![1] = x]
    BY <1>6, <1>7, Zenon
  <2> QED BY <1>1, <1>7, <2>1
<1>9. q \in [1 .. Len(q) -> Frame] /\ Len(q) \in Nat
  OBVIOUS
<1>10. PICK u : u = [q EXCEPT ![1] = x]
  OBVIOUS
<1>11. u \in [1 .. Len(q) -> Frame] /\ u[1] = x /\ \A k \in 2 .. Len(q) : u[k] = q[k]
  BY <1>8, <1>9, <1>10
<1>12. u \in Seq(Frame) /\ Len(u) = Len(q)
  BY <1>9, <1>11
<1>13. t = u
  BY <1>8, <1>10, Zenon
<1> QED BY <1>1, <1>2, <1>4, <1>5, <1>7, <1>8, <1>11, <1>12, <1>13 DEF Popped

-----------------------------------------------------------------------------
(* The invariant: the types.                                                 *)
Types ==
    /\ tree \in TreeType /\ unlinks \in 0 .. MaxUnlinks /\ option \in Options
    /\ started \in BOOLEAN /\ visited \subseteq Inodes
    /\ stack \in Seq(Frame) /\ printed \in Seq(Inodes \X Nat)
    /\ ~started => stack = <<>> /\ visited = {} /\ printed = <<>>

OptionType ==
    [all : BOOLEAN, summarize : BOOLEAN, dereference : BOOLEAN, arg : Entries]

LEMMA OptionIs ==
    ASSUME Types
    PROVE  option \in OptionType /\ option.arg \in Entries /\ ~(option.all /\ option.summarize)
BY DuAssumption DEF Types, OptionType

(* What a step does to the stack.                                            *)
LEMMA TopIs ==
    ASSUME Types, stack # <<>>
    PROVE  /\ Head(stack) = stack[1] /\ stack[1] \in Frame /\ stack[1].dir \in Inodes
           /\ Len(stack) \in Nat \ {0} /\ 1 \in DOMAIN stack
           /\ stack[1].next # None => stack[1].next \in Names
<1>1. stack \in Seq(Frame) /\ Len(stack) \in Nat \ {0}
  BY DEF Types
<1>2. stack[1] \in Frame /\ Head(stack) = stack[1] /\ 1 \in DOMAIN stack
  BY <1>1
<1> QED BY <1>1, <1>2 DEF Frame

Skips(it) ==
    /\ stack' \in Seq(Frame) /\ AdvancedTo(it, stack[1], PathHolds(stack))
    /\ Replaced(stack', stack, it)

LEMMA SkipIs == ASSUME Types, SkipEntry PROVE \E it : Skips(it)
<1>1. PICK it \in Advanced(stack[1], PathHolds(stack)) : stack' = <<it>> \o Tail(stack)
  BY TopIs DEF SkipEntry, top
<1>2. stack # <<>> /\ tree \in TreeType /\ stack[1] \in Frame /\ stack \in Seq(Frame)
  BY TopIs DEF SkipEntry, Types
<1>3. AdvancedTo(it, stack[1], PathHolds(stack))
  BY <1>1, <1>2, AdvancedIs
<1>4. it \in Frame
  BY <1>3 DEF AdvancedTo
<1> QED BY <1>1, <1>2, <1>3, <1>4, ReplaceTop DEF Skips

Enters(it, child, i) ==
    /\ i \in Inodes \ visited /\ tree.kind[i] = "dir" /\ visited' = visited \union {i}
    /\ stack' \in Seq(Frame) /\ AdvancedTo(it, stack[1], PathHolds(stack))
    /\ AdvancedTo(child, Opened(<<stack[1].dir, stack[1].next>>, i), TRUE)
    /\ Opened(<<stack[1].dir, stack[1].next>>, i) \in Frame
    /\ Pushed(stack', stack, child, it)

LEMMA EnterIs ==
    ASSUME Types, EnterDirectory PROVE \E it, child : Enters(it, child, Id)
<1>1. stack # <<>> /\ tree \in TreeType /\ stack[1] \in Frame /\ stack \in Seq(Frame)
      /\ stack[1].dir \in Inodes /\ stack[1].next \in Names
  BY TopIs DEF EnterDirectory, Types, top
<1>2. Id \in Inodes \ visited /\ tree.kind[Id] = "dir"
  BY DEF EnterDirectory, New
<1> DEFINE o == Opened(<<stack[1].dir, stack[1].next>>, Id)
<1>3. PICK it \in Advanced(stack[1], PathHolds(stack)), child \in Advanced(o, TRUE) :
         stack' = <<child, it>> \o Tail(stack)
  BY <1>1, TopIs DEF EnterDirectory, top
<1>4. o \in Frame
  BY <1>1, <1>2, EntryIsLookedUp, OpenedIs
<1>5. AdvancedTo(it, stack[1], PathHolds(stack))
  BY <1>1, <1>3, AdvancedIs
<1>6. AdvancedTo(child, o, TRUE)
  <2> HIDE DEF o
  <2> QED BY <1>1, <1>3, <1>4, AdvancedIs
<1>7. it \in Frame /\ child \in Frame
  BY <1>5, <1>6 DEF AdvancedTo
<1>8. stack' \in Seq(Frame) /\ Pushed(stack', stack, child, it)
  BY <1>1, <1>3, <1>7, PushOnTop
<1> QED BY <1>2, <1>4, <1>5, <1>6, <1>8 DEF Enters, EnterDirectory

Counts(it, counted, i) ==
    /\ i \in Inodes \ visited /\ tree.kind[i] # "dir" /\ visited' = visited \union {i}
    /\ stack' \in Seq(Frame) /\ AdvancedTo(it, stack[1], PathHolds(stack))
    /\ counted = [it EXCEPT !.total = @ + Size(i)] /\ counted \in Frame /\ Size(i) \in Nat
    /\ Replaced(stack', stack, counted)

LEMMA CountIs == ASSUME Types, CountFile PROVE \E it, counted : Counts(it, counted, Id)
<1>1. stack # <<>> /\ tree \in TreeType /\ stack[1] \in Frame /\ stack \in Seq(Frame)
  BY TopIs DEF CountFile, Types
<1>2. Id \in Inodes \ visited /\ tree.kind[Id] # "dir"
  BY DEF CountFile, New
<1>3. PICK it \in Advanced(stack[1], PathHolds(stack)) :
         stack' = <<[it EXCEPT !.total = @ + Size(Id)]>> \o Tail(stack)
  BY <1>1, TopIs DEF CountFile, top
<1>4. AdvancedTo(it, stack[1], PathHolds(stack))
  BY <1>1, <1>3, AdvancedIs
<1>5. Size(Id) \in Nat
  BY <1>2, DuAssumption
<1>6. PICK counted : counted = [it EXCEPT !.total = @ + Size(Id)]
  OBVIOUS
<1>7. counted \in Frame
  <2>1. it \in Frame
    BY <1>4 DEF AdvancedTo
  <2> QED BY <1>5, <1>6, <2>1 DEF Frame
<1>8. stack' \in Seq(Frame) /\ Replaced(stack', stack, counted)
  BY <1>1, <1>3, <1>6, <1>7, ReplaceTop
<1>9. visited' = visited \union {Id}
  BY DEF CountFile
<1> QED BY <1>2, <1>4, <1>5, <1>6, <1>7, <1>8, <1>9 DEF Counts

TotalOf(frame, holds) == frame.total + (IF holds THEN Size(frame.dir) ELSE 0)

LEMMA FinishIs ==
    ASSUME Types, HandleFinishedDirectory
    PROVE  LET total == TotalOf(stack[1], PathHolds(stack))
           IN  /\ total \in Nat /\ stack' \in Seq(Frame)
               /\ IF Len(stack) = 1 THEN stack' = <<>> ELSE Popped(stack', stack, total)
               /\ IF option.summarize /\ Len(stack) > 1 THEN printed' = printed
                  ELSE printed' = Append(printed, <<stack[1].dir, total>>)
<1>1. stack # <<>> /\ Head(stack) = stack[1] /\ stack[1] \in Frame /\ stack \in Seq(Frame)
  BY TopIs DEF HandleFinishedDirectory, Types
<1>2. PICK total : total = TotalOf(stack[1], PathHolds(stack))
  OBVIOUS
<1>3. total \in Nat
  <2>1. stack[1].total \in Nat /\ Size(stack[1].dir) \in Nat
    BY <1>1, DuAssumption DEF Frame
  <2> QED BY <1>2, <2>1 DEF TotalOf
<1>4. IF option.summarize /\ Len(stack) > 1 THEN printed' = printed
      ELSE printed' = Append(printed, <<stack[1].dir, total>>)
  BY <1>1, <1>2 DEF HandleFinishedDirectory, Write, top, TotalOf
<1>5. stack' = IF Len(stack) = 1 THEN <<>> ELSE [Tail(stack) EXCEPT ![1].total = @ + total]
  BY <1>1, <1>2 DEF HandleFinishedDirectory, top, TotalOf
<1>6. CASE Len(stack) = 1
  BY <1>2, <1>3, <1>4, <1>5, <1>6
<1>7. CASE Len(stack) # 1
  <2>1. stack' \in Seq(Frame) /\ Popped(stack', stack, total)
    BY <1>1, <1>3, <1>5, <1>7, PopTop
  <2> QED BY <1>2, <1>3, <1>4, <1>7, <2>1
<1> QED BY <1>6, <1>7

(* The file system after Unlink: an entry less, unless it is a directory     *)
(* with entries.                                                             *)
Thinned(d, n) ==
    /\ tree' \in TreeType /\ tree'.kind = tree.kind /\ tree'.to = tree.to
    /\ tree'.locked = tree.locked
    /\ d \in Inodes /\ n \in Names /\ tree.names[d][n] \in Inodes
    /\ tree.kind[tree.names[d][n]] = "dir" =>
          \A m \in Names : tree.names[tree.names[d][n]][m] = None
    /\ \A i \in Inodes, m \in Names :
          tree'.names[i][m] = IF i = d /\ m = n THEN None ELSE tree.names[i][m]

LEMMA UnlinkIs == ASSUME Types, Unlink PROVE \E d, n : Thinned(d, n)
<1>1. PICK d \in Inodes, n \in Names :
         /\ tree.names[d][n] # None
         /\ tree.kind[tree.names[d][n]] = "dir" =>
               \A m \in Names : tree.names[tree.names[d][n]][m] = None
         /\ tree' = [tree EXCEPT !.names[d][n] = None]
  BY DEF Unlink
<1>2. tree \in TreeType
  BY DEF Types
<1>3. PICK names : names = [tree.names EXCEPT ![d][n] = None]
  OBVIOUS
<1>4. tree.names \in [Inodes -> [Names -> Inodes \union {None}]]
  BY <1>2 DEF TreeType
<1>5. /\ names \in [Inodes -> [Names -> Inodes \union {None}]]
      /\ \A i \in Inodes, m \in Names :
            names[i][m] = IF i = d /\ m = n THEN None ELSE tree.names[i][m]
  BY <1>3, <1>4
<1>6. tree' = [tree EXCEPT !.names = names]
  BY <1>1, <1>2, <1>3 DEF TreeType
<1>7. tree' \in TreeType /\ tree'.kind = tree.kind /\ tree'.to = tree.to
      /\ tree'.locked = tree.locked /\ tree'.names = names
  BY <1>2, <1>5, <1>6 DEF TreeType
<1>8. tree.names[d][n] \in Inodes
  BY <1>1, <1>4
<1> QED BY <1>1, <1>5, <1>7, <1>8 DEF Thinned

-----------------------------------------------------------------------------
(* The directories on the stack are open: visited, and no two the same; who  *)
(* has no next entry has nothing left.                                       *)
FramesAreOpen ==
    /\ \A k \in DOMAIN stack :
         /\ stack[k].dir \in visited /\ tree.kind[stack[k].dir] = "dir"
         /\ stack[k].next = None => stack[k].left = {}
    /\ \A j, k \in DOMAIN stack : stack[j].dir = stack[k].dir => j = k

OnStack(i) == \E k \in DOMAIN stack : stack[k].dir = i
Shown(i) == \E k \in DOMAIN printed : printed[k][1] = i

(* A line is a directory that has been finished, or a file counted.          *)
LinesAreDone ==
    /\ \A j, k \in DOMAIN printed : printed[j][1] = printed[k][1] => j = k
    /\ \A k \in DOMAIN printed : printed[k][1] \in visited
    /\ option.summarize => Len(printed) <= 1 /\ (stack # <<>> => printed = <<>>)
    /\ ~option.summarize =>
         \A i \in visited :
            Shown(i) <=> IF tree.kind[i] = "dir" THEN ~OnStack(i)
                                                ELSE option.all \/ visited = {i}

LEMMA InitIsRight == Init => Types /\ FramesAreOpen /\ LinesAreDone
<1> SUFFICES ASSUME Init PROVE Types /\ FramesAreOpen /\ LinesAreDone
  OBVIOUS
<1>1. stack = <<>> /\ printed = <<>> /\ visited = {} /\ tree \in Trees /\ unlinks = 0
      /\ option \in Options /\ started = FALSE
  BY DEF Init
<1>2. stack \in Seq(Frame) /\ printed \in Seq(Inodes \X Nat) /\ DOMAIN stack = {}
      /\ DOMAIN printed = {} /\ Len(printed) = 0
  BY <1>1
<1>3. tree \in TreeType /\ unlinks \in 0 .. MaxUnlinks
  BY <1>1, DuAssumption
<1>4. Types
  BY <1>1, <1>2, <1>3 DEF Types
<1> QED BY <1>1, <1>2, <1>4 DEF FramesAreOpen, LinesAreDone

(* A stack on which nothing but the top has moved on.                        *)
SameDirs == /\ stack # <<>> /\ stack' # <<>> /\ DOMAIN stack' = DOMAIN stack
            /\ \A k \in DOMAIN stack : stack'[k].dir = stack[k].dir

LEMMA ReplacedIs ==
    ASSUME Types, stack # <<>>, NEW it, NEW frame,
           AdvancedTo(it, stack[1], PathHolds(stack)),
           stack' \in Seq(Frame), Replaced(stack', stack, frame),
           frame.dir = it.dir, frame.next = it.next, frame.left = it.left
    PROVE  /\ SameDirs
           /\ \A k \in DOMAIN stack :
                 stack'[k].next = None => \/ stack'[k].left = {}
                                          \/ k # 1 /\ stack'[k] = stack[k]
<1>1. stack \in Seq(Frame) /\ Len(stack) \in Nat \ {0}
  BY TopIs DEF Types
<1>2. DOMAIN stack' = DOMAIN stack /\ Len(stack') = Len(stack) /\ stack' # <<>>
  BY <1>1 DEF Replaced
<1>3. stack'[1] = frame /\ \A k \in DOMAIN stack : k # 1 => stack'[k] = stack[k]
  BY <1>1 DEF Replaced
<1>4. frame.dir = stack[1].dir /\ (frame.next = None => frame.left = {})
  BY DEF AdvancedTo
<1> QED BY <1>2, <1>3, <1>4 DEF SameDirs

(* A directory has been opened above the others.                             *)
NewDir(i) ==
    /\ i \in Inodes \ visited /\ tree.kind[i] = "dir" /\ visited' = visited \union {i}
    /\ stack # <<>> /\ stack' # <<>> /\ DOMAIN stack' = 1 .. Len(stack) + 1
       /\ stack'[1].dir = i
    /\ \A k \in DOMAIN stack : k + 1 \in DOMAIN stack' /\ stack'[k + 1].dir = stack[k].dir
    /\ \A k \in DOMAIN stack' : k # 1 => k - 1 \in DOMAIN stack
                                         /\ stack'[k].dir = stack[k - 1].dir

LEMMA PushedIs ==
    ASSUME Types, stack # <<>>, NEW it, NEW child, NEW i, Enters(it, child, i)
    PROVE  /\ NewDir(i)
           /\ \A k \in DOMAIN stack' :
                 stack'[k].next = None =>
                    \/ stack'[k].left = {}
                    \/ k - 1 \in DOMAIN stack /\ stack'[k] = stack[k - 1]
<1>1. stack \in Seq(Frame) /\ Len(stack) \in Nat \ {0} /\ stack' \in Seq(Frame)
  BY TopIs DEF Types, Enters
<1>2. Len(stack') = Len(stack) + 1 /\ DOMAIN stack' = 1 .. Len(stack) + 1 /\ stack' # <<>>
  BY <1>1 DEF Enters, Pushed
<1>3. stack'[1] = child /\ stack'[2] = it
      /\ \A k \in 3 .. Len(stack) + 1 : stack'[k] = stack[k - 1]
  BY DEF Enters, Pushed
<1>4. it.dir = stack[1].dir /\ (it.next = None => it.left = {})
  BY DEF Enters, AdvancedTo
<1>5. child.dir = i /\ (child.next = None => child.left = {})
  BY DEF Enters, AdvancedTo, Opened
<1>6. \A k \in DOMAIN stack' : k = 1 \/ k = 2 \/ (k \in 3 .. Len(stack) + 1
                                                  /\ k - 1 \in DOMAIN stack)
  BY <1>1, <1>2
<1>7. \A k \in DOMAIN stack : k + 1 \in DOMAIN stack' /\ (k + 1) - 1 = k
                              /\ (k # 1 => k + 1 \in 3 .. Len(stack) + 1)
  BY <1>1, <1>2
<1>8. \A k \in DOMAIN stack : stack'[k + 1].dir = stack[k].dir
  BY <1>3, <1>4, <1>7
<1>9. 1 \in DOMAIN stack /\ 2 - 1 = 1
  BY <1>1
<1>10. \A k \in DOMAIN stack' : k # 1 => k - 1 \in DOMAIN stack
                                         /\ stack'[k].dir = stack[k - 1].dir
  BY <1>3, <1>4, <1>6, <1>9
<1>11. \A k \in DOMAIN stack' : stack'[k].next = None =>
          stack'[k].left = {} \/ (k - 1 \in DOMAIN stack /\ stack'[k] = stack[k - 1])
  BY <1>3, <1>4, <1>5, <1>6
<1>12. NewDir(i)
  BY <1>2, <1>3, <1>5, <1>8, <1>10 DEF NewDir, Enters
<1> QED BY <1>11, <1>12

(* The top of the stack has gone.                                            *)
TopGone ==
    /\ stack # <<>> /\ DOMAIN stack' = 1 .. Len(stack) - 1
       /\ (Len(stack) = 1 <=> stack' = <<>>)
    /\ \A k \in DOMAIN stack' :
         /\ k + 1 \in DOMAIN stack /\ stack'[k].dir = stack[k + 1].dir
         /\ stack'[k].next = stack[k + 1].next /\ stack'[k].left = stack[k + 1].left
         /\ stack'[k].entry = stack[k + 1].entry /\ stack'[k].inode = stack[k + 1].inode

LEMMA PoppedIs == ASSUME Types, HandleFinishedDirectory PROVE TopGone
<1>1. stack # <<>> /\ stack \in Seq(Frame) /\ Len(stack) \in Nat \ {0} /\ stack' \in Seq(Frame)
  BY FinishIs, TopIs DEF Types, HandleFinishedDirectory
<1>2. CASE Len(stack) = 1
  <2>1. stack' = <<>>
    BY <1>2, FinishIs
  <2>2. DOMAIN stack' = {} /\ 1 .. Len(stack) - 1 = {}
    BY <1>2, <2>1
  <2> QED BY <1>1, <1>2, <2>1, <2>2 DEF TopGone
<1>3. CASE Len(stack) # 1
  <2>1. PICK total : Popped(stack', stack, total)
    BY <1>3, FinishIs
  <2>2. Len(stack') = Len(stack) - 1 /\ DOMAIN stack' = 1 .. Len(stack) - 1 /\ stack' # <<>>
    <3>1. Len(stack') = Len(stack) - 1
      BY <2>1 DEF Popped
    <3>2. DOMAIN stack' = 1 .. Len(stack')
      BY <1>1
    <3>3. Len(stack') # 0
      BY <1>1, <1>3, <3>1
    <3>4. stack' # <<>>
      BY <3>3
    <3>5. DOMAIN stack' = 1 .. Len(stack) - 1
      BY <3>1, <3>2, Zenon
    <3> QED BY <3>1, <3>4, <3>5
  <2>3. stack[2] \in Frame /\ 2 \in DOMAIN stack
    <3>1. \A n \in Nat \ {0} : n # 1 => 2 \in 1 .. n
      OBVIOUS
    <3>2. 2 \in 1 .. Len(stack)
      BY <1>1, <1>3, <3>1, Zenon
    <3> QED BY <1>1, <3>2
  <2>4. stack'[1] = [stack[2] EXCEPT !.total = @ + total]
    BY <2>1 DEF Popped
  <2>5. /\ stack'[1].dir = stack[2].dir /\ stack'[1].next = stack[2].next
        /\ stack'[1].left = stack[2].left /\ stack'[1].entry = stack[2].entry
        /\ stack'[1].inode = stack[2].inode
    BY <2>3, <2>4 DEF Frame
  <2>6. \A k \in DOMAIN stack' : k + 1 \in DOMAIN stack /\ (k = 1 \/ k \in 2 .. Len(stack) - 1)
    BY <1>1, <2>2
  <2>7. \A k \in 2 .. Len(stack) - 1 : stack'[k] = stack[k + 1]
    BY <2>1 DEF Popped
  <2>8. 1 + 1 = 2
    OBVIOUS
  <2> QED BY <1>1, <1>3, <2>2, <2>5, <2>6, <2>7, <2>8 DEF TopGone
<1> QED BY <1>2, <1>3

-----------------------------------------------------------------------------
LEMMA WriteType ==
    ASSUME Types, NEW line \in Inodes \X Nat
    PROVE  printed \in Seq(Inodes \X Nat) /\ Append(printed, line) \in Seq(Inodes \X Nat)
<1>1. \A S : \A q \in Seq(S), x \in S : Append(q, x) \in Seq(S)
  OBVIOUS
<1>2. printed \in Seq(Inodes \X Nat)
  BY DEF Types
<1> QED BY <1>1, <1>2, Zenon

LEMMA TypesKept == ASSUME Types, [Next]_vars PROVE Types'
<1>1. CASE UNCHANGED vars
  BY <1>1 DEF Types, vars, walk
<1>2. CASE ArgumentMissing
  BY <1>2 DEF Types, ArgumentMissing
<1>3. CASE ArgumentIsFile
  <2>1. PICK i : i = StatOrLstat(option.arg)
    OBVIOUS
  <2>2. i \in Inodes /\ Size(i) \in Nat
    BY <1>3, <2>1, OptionIs, TargetType, DuAssumption DEF ArgumentIsFile, Types, Inode
  <2>3. visited' = {i} /\ printed' = Append(printed, <<i, Size(i)>>)
    BY <1>3, <2>1 DEF ArgumentIsFile, Write
  <2>4. <<i, Size(i)>> \in Inodes \X Nat /\ printed' \in Seq(Inodes \X Nat)
    <3>1. \A e : e = <<i, Size(i)>> => e \in Inodes \X Nat
      BY <2>2
    <3> QED BY <2>3, <3>1 DEF Types
  <2> QED BY <1>3, <2>2, <2>3, <2>4 DEF Types, ArgumentIsFile
<1>4. CASE ArgumentIsDirectory
  <2>1. PICK i : i = StatOrLstat(option.arg)
    OBVIOUS
  <2>2. i \in Inodes
    BY <1>4, <2>1, OptionIs, TargetType DEF ArgumentIsDirectory, Types, Inode
  <2>3. PICK it \in Advanced(Opened(option.arg, i), TRUE) : stack' = <<it>> /\ visited' = {i}
    BY <1>4, <2>1 DEF ArgumentIsDirectory
  <2>4. Opened(option.arg, i) \in Frame
    BY <2>2, OptionIs, OpenedIs DEF Types
  <2>5. it \in Frame
    BY <2>3, <2>4, AdvancedIs DEF AdvancedTo, Types
  <2>6. stack' \in Seq(Frame)
    BY <2>3, <2>5
  <2> QED BY <1>4, <2>2, <2>3, <2>6 DEF Types, ArgumentIsDirectory
<1>5. CASE HandleFinishedDirectory
  <2>1. PICK total \in Nat :
           IF option.summarize /\ Len(stack) > 1 THEN printed' = printed
           ELSE printed' = Append(printed, <<stack[1].dir, total>>)
    BY <1>5, FinishIs
  <2>2. stack[1].dir \in Inodes
    BY <1>5, TopIs DEF HandleFinishedDirectory
  <2>3. printed' \in Seq(Inodes \X Nat)
    <3>1. PICK line \in Inodes \X Nat : line = <<stack[1].dir, total>>
      BY <2>2
    <3>2. printed' = printed \/ printed' = Append(printed, line)
      BY <2>1, <3>1, Zenon
    <3> QED BY <3>2, WriteType
  <2>4. stack' \in Seq(Frame) /\ started
    BY <1>5, FinishIs DEF HandleFinishedDirectory, Types
  <2> QED BY <1>5, <2>3, <2>4 DEF Types, HandleFinishedDirectory
<1>6. CASE SkipEntry
  <2>1. stack' \in Seq(Frame) /\ started
    BY <1>6, SkipIs DEF SkipEntry, Skips, Types
  <2> QED BY <1>6, <2>1 DEF Types, SkipEntry
<1>7. CASE EnterDirectory
  <2>1. stack' \in Seq(Frame) /\ started /\ Id \in Inodes
    BY <1>7, EnterIs DEF EnterDirectory, Enters, Types
  <2> QED BY <1>7, <2>1 DEF Types, EnterDirectory
<1>8. CASE CountFile
  <2>1. stack' \in Seq(Frame) /\ started /\ Id \in Inodes /\ Size(Id) \in Nat
    BY <1>8, CountIs DEF CountFile, Counts, Types
  <2>2. printed' \in Seq(Inodes \X Nat)
    <3>1. PICK line \in Inodes \X Nat : line = <<Id, Size(Id)>>
      BY <2>1
    <3>2. printed' = printed \/ printed' = Append(printed, line)
      <4>1. printed' = printed \/ printed' = Append(printed, <<Id, Size(Id)>>)
        BY <1>8 DEF CountFile, Write
      <4> QED BY <3>1, <4>1, Zenon
    <3> QED BY <3>2, WriteType
  <2> QED BY <1>8, <2>1, <2>2 DEF Types, CountFile
<1>9. CASE Unlink
  <2>1. tree' \in TreeType
    BY <1>9, UnlinkIs DEF Thinned
  <2>2. unlinks' \in 0 .. MaxUnlinks
    BY <1>9, DuAssumption DEF Unlink, Types
  <2> QED BY <1>9, <2>1, <2>2 DEF Types, Unlink, walk
<1> QED BY <1>1, <1>2, <1>3, <1>4, <1>5, <1>6, <1>7, <1>8, <1>9 DEF Next, Process

(* A stack of one frame, when the walk begins.                               *)
Begun(it, i) ==
    /\ i \in Inodes /\ i = StatOrLstat(option.arg) /\ tree.kind[i] = "dir"
    /\ visited' = {i} /\ stack' = <<it>>
    /\ AdvancedTo(it, Opened(option.arg, i), TRUE) /\ Opened(option.arg, i) \in Frame

LEMMA BeginIs == ASSUME Types, ArgumentIsDirectory PROVE \E it, i : Begun(it, i)
<1>1. PICK i : i = StatOrLstat(option.arg)
  OBVIOUS
<1>2. i \in Inodes /\ tree.kind[i] = "dir" /\ visited' = {i}
  BY <1>1, OptionIs, TargetType DEF ArgumentIsDirectory, Types, Inode
<1>3. PICK it \in Advanced(Opened(option.arg, i), TRUE) : stack' = <<it>>
  BY <1>1 DEF ArgumentIsDirectory
<1>4. Opened(option.arg, i) \in Frame
  BY <1>2, OptionIs, OpenedIs DEF Types
<1>5. AdvancedTo(it, Opened(option.arg, i), TRUE)
  BY <1>3, <1>4, AdvancedIs DEF Types
<1> QED BY <1>1, <1>2, <1>3, <1>4, <1>5 DEF Begun

LEMMA FramesKept == ASSUME Types, FramesAreOpen, [Next]_vars PROVE FramesAreOpen'
<1>1. CASE UNCHANGED vars
  BY <1>1 DEF FramesAreOpen, vars, walk
<1>2. CASE ArgumentMissing
  BY <1>2 DEF FramesAreOpen, ArgumentMissing
<1>3. CASE ArgumentIsFile
  <2>1. DOMAIN stack' = {}
    BY <1>3 DEF ArgumentIsFile, Types
  <2> QED BY <2>1 DEF FramesAreOpen
<1>4. CASE ArgumentIsDirectory
  <2>1. PICK it, i : Begun(it, i)
    BY <1>4, BeginIs
  <2>2. it.dir = i /\ (it.next = None => it.left = {})
    BY <2>1 DEF Begun, AdvancedTo, Opened
  <2>3. DOMAIN stack' = {1} /\ stack'[1] = it /\ i \in visited' /\ tree'.kind[i] = "dir"
    BY <1>4, <2>1 DEF Begun, ArgumentIsDirectory
  <2> QED BY <2>2, <2>3 DEF FramesAreOpen
<1>5. CASE HandleFinishedDirectory
  <2>1. UNCHANGED <<tree, visited>> /\ TopGone
    BY <1>5, PoppedIs DEF HandleFinishedDirectory
  <2>2. \A j, k \in DOMAIN stack' : j + 1 = k + 1 => j = k
    BY <2>1 DEF TopGone
  <2> QED BY <2>1, <2>2 DEF FramesAreOpen, TopGone
<1>6. CASE SkipEntry
  <2>1. PICK it : Skips(it)
    BY <1>6, SkipIs
  <2>2. SameDirs /\ \A k \in DOMAIN stack : stack'[k].next = None =>
                       stack'[k].left = {} \/ stack'[k] = stack[k]
    BY <1>6, <2>1, ReplacedIs DEF Skips, SkipEntry
  <2>3. UNCHANGED <<tree, visited>>
    BY <1>6 DEF SkipEntry
  <2> QED BY <2>2, <2>3 DEF FramesAreOpen, SameDirs
<1>7. CASE EnterDirectory
  <2>1. PICK it, child : Enters(it, child, Id)
    BY <1>7, EnterIs
  <2>2. NewDir(Id) /\ \A k \in DOMAIN stack' : stack'[k].next = None =>
           stack'[k].left = {} \/ (k - 1 \in DOMAIN stack /\ stack'[k] = stack[k - 1])
    BY <1>7, <2>1, PushedIs DEF EnterDirectory
  <2>3. UNCHANGED tree
    BY <1>7 DEF EnterDirectory
  <2>4. \A k \in DOMAIN stack' : /\ stack'[k].dir \in visited'
                                 /\ tree.kind[stack'[k].dir] = "dir"
                                 /\ k # 1 => stack'[k].dir \in visited
    BY <2>2 DEF FramesAreOpen, NewDir
  <2>5. \A k \in DOMAIN stack' : stack'[k].next = None => stack'[k].left = {}
    BY <2>2 DEF FramesAreOpen
  <2>6. ASSUME NEW j \in DOMAIN stack', NEW k \in DOMAIN stack', stack'[j].dir = stack'[k].dir
        PROVE  j = k
    <3>1. CASE j = 1 \/ k = 1
      BY <2>2, <2>4, <2>6, <3>1 DEF NewDir
    <3>2. CASE j # 1 /\ k # 1
      <4>1. j - 1 \in DOMAIN stack /\ k - 1 \in DOMAIN stack
            /\ stack[j - 1].dir = stack[k - 1].dir
        BY <2>2, <2>6, <3>2 DEF NewDir
      <4>2. j - 1 = k - 1
        BY <4>1 DEF FramesAreOpen
      <4>3. j \in Int /\ k \in Int
        BY <2>2 DEF NewDir
      <4> QED BY <4>2, <4>3
    <3> QED BY <3>1, <3>2
  <2> QED BY <2>3, <2>4, <2>5, <2>6 DEF FramesAreOpen
<1>8. CASE CountFile
  <2>1. PICK it, counted : Counts(it, counted, Id)
    BY <1>8, CountIs
  <2>2. /\ counted.dir = it.dir /\ counted.next = it.next /\ counted.left = it.left
    BY <2>1 DEF Counts, AdvancedTo, Frame
  <2>3. SameDirs /\ \A k \in DOMAIN stack : stack'[k].next = None =>
                       stack'[k].left = {} \/ stack'[k] = stack[k]
    BY <1>8, <2>1, <2>2, ReplacedIs DEF Counts, CountFile
  <2>4. UNCHANGED tree /\ visited \subseteq visited'
    BY <1>8 DEF CountFile
  <2> QED BY <2>3, <2>4 DEF FramesAreOpen, SameDirs
<1>9. CASE Unlink
  <2>1. tree'.kind = tree.kind /\ UNCHANGED <<stack, visited>>
    BY <1>9, UnlinkIs DEF Thinned, Unlink, walk
  <2> QED BY <2>1 DEF FramesAreOpen
<1> QED BY <1>1, <1>2, <1>3, <1>4, <1>5, <1>6, <1>7, <1>8, <1>9 DEF Next, Process

(* A line is written at the end.                                             *)
LEMMA AppendIs ==
    ASSUME NEW S, NEW q \in Seq(S), NEW x \in S
    PROVE  /\ Len(q) \in Nat /\ DOMAIN q = 1 .. Len(q)
           /\ Append(q, x) \in Seq(S) /\ Len(Append(q, x)) = Len(q) + 1
           /\ DOMAIN Append(q, x) = 1 .. Len(q) + 1
           /\ Append(q, x)[Len(q) + 1] = x
           /\ \A k \in DOMAIN q : Append(q, x)[k] = q[k]
OBVIOUS

LEMMA WriteIs ==
    ASSUME Types, NEW i \in Inodes, NEW size \in Nat, printed' = Append(printed, <<i, size>>)
    PROVE  /\ Len(printed) \in Nat /\ Len(printed') = Len(printed) + 1
           /\ DOMAIN printed = 1 .. Len(printed) /\ DOMAIN printed' = 1 .. Len(printed) + 1
           /\ printed'[Len(printed) + 1][1] = i
           /\ \A k \in DOMAIN printed : k \in DOMAIN printed' /\ printed'[k] = printed[k]
           /\ \A k \in DOMAIN printed' : k = Len(printed) + 1 \/ k \in DOMAIN printed
           /\ \A j : Shown(j)' <=> j = i \/ Shown(j)
<1>1. PICK line : line = <<i, size>>
  OBVIOUS
<1>2. line \in Inodes \X Nat /\ line[1] = i /\ printed' = Append(printed, line)
  BY <1>1
<1>4. PICK S : S = Inodes \X Nat
  OBVIOUS
<1>5. printed \in Seq(S) /\ line \in S
  BY <1>2, <1>4 DEF Types
<1>6. /\ Len(printed) \in Nat /\ DOMAIN printed = 1 .. Len(printed)
      /\ Len(printed') = Len(printed) + 1 /\ DOMAIN printed' = 1 .. Len(printed) + 1
      /\ printed'[Len(printed) + 1] = line
      /\ \A k \in DOMAIN printed : printed'[k] = printed[k]
  BY <1>2, <1>5, AppendIs
<1>7. \A n \in Nat : /\ \A k \in 1 .. n : k \in 1 .. n + 1
                     /\ \A k \in 1 .. n + 1 : k = n + 1 \/ k \in 1 .. n
                     /\ n + 1 \in 1 .. n + 1
  OBVIOUS
<1>8. \A k \in DOMAIN printed : k \in DOMAIN printed'
  BY <1>6, <1>7
<1>9. /\ \A k \in DOMAIN printed' : k = Len(printed) + 1 \/ k \in DOMAIN printed
      /\ Len(printed) + 1 \in DOMAIN printed'
  BY <1>6, <1>7
<1>10. ASSUME NEW j PROVE Shown(j)' <=> j = i \/ Shown(j)
  BY <1>2, <1>6, <1>8, <1>9, Zenon DEF Shown
<1> QED BY <1>2, <1>6, <1>8, <1>9, <1>10

(* A line for an inode that has none.                                        *)
LEMMA NewLine ==
    ASSUME Types, NEW i \in Inodes, NEW size \in Nat, printed' = Append(printed, <<i, size>>),
           ~Shown(i), i \in visited', visited \subseteq visited',
           \A j, k \in DOMAIN printed : printed[j][1] = printed[k][1] => j = k,
           \A k \in DOMAIN printed : printed[k][1] \in visited
    PROVE  /\ \A j, k \in DOMAIN printed' : printed'[j][1] = printed'[k][1] => j = k
           /\ \A k \in DOMAIN printed' : printed'[k][1] \in visited'
<1> DEFINE n == Len(printed) + 1
<1>1. /\ printed'[n][1] = i
      /\ \A k \in DOMAIN printed : printed'[k] = printed[k]
      /\ \A k \in DOMAIN printed' : k = n \/ k \in DOMAIN printed
  BY WriteIs
<1>2. \A k \in DOMAIN printed : printed[k][1] # i
  BY DEF Shown
<1> HIDE DEF n
<1> QED BY <1>1, <1>2

LEMMA SameShown == ASSUME printed' = printed PROVE \A i : Shown(i)' <=> Shown(i)
BY DEF Shown

LEMMA LinesKept ==
    ASSUME Types, FramesAreOpen, LinesAreDone, [Next]_vars PROVE LinesAreDone'
<1>1. CASE UNCHANGED vars
  BY <1>1 DEF LinesAreDone, Shown, OnStack, vars, walk
<1>2. CASE ArgumentMissing
  BY <1>2 DEF LinesAreDone, Shown, OnStack, ArgumentMissing
<1>3. CASE ArgumentIsFile
  <2>1. PICK i : i = StatOrLstat(option.arg)
    OBVIOUS
  <2>2. i \in Inodes /\ Size(i) \in Nat /\ tree.kind[i] # "dir"
    BY <1>3, <2>1, OptionIs, TargetType, DuAssumption DEF ArgumentIsFile, Types, Inode
  <2>3. /\ visited' = {i} /\ printed' = Append(printed, <<i, Size(i)>>)
        /\ printed = <<>> /\ stack' = <<>> /\ UNCHANGED <<tree, option>>
    BY <1>3, <2>1 DEF ArgumentIsFile, Write, Types
  <2>4. Len(printed) = 0 /\ DOMAIN printed = {}
    BY <2>3
  <2>5. Len(printed') = 1 /\ \A j : Shown(j)' <=> j = i
    BY <2>2, <2>3, <2>4, WriteIs DEF Shown
  <2>6. /\ \A j, k \in DOMAIN printed' : printed'[j][1] = printed'[k][1] => j = k
        /\ \A k \in DOMAIN printed' : printed'[k][1] \in visited'
    BY <1>3, <2>2, <2>3, <2>4, NewLine DEF LinesAreDone, ArgumentIsFile, Types, Shown
  <2> QED BY <2>2, <2>3, <2>5, <2>6 DEF LinesAreDone
<1>4. CASE ArgumentIsDirectory
  <2>1. PICK it, i : Begun(it, i)
    BY <1>4, BeginIs
  <2>2. it.dir = i
    BY <2>1 DEF Begun, AdvancedTo, Opened
  <2>3. DOMAIN stack' = {1} /\ stack'[1] = it /\ visited' = {i} /\ tree'.kind[i] = "dir"
    BY <1>4, <2>1 DEF Begun, ArgumentIsDirectory
  <2>4. OnStack(i)'
    BY <2>2, <2>3 DEF OnStack
  <2>5. printed' = <<>> /\ DOMAIN printed' = {} /\ Len(printed') = 0 /\ UNCHANGED option
    BY <1>4 DEF ArgumentIsDirectory, Types
  <2> QED BY <2>3, <2>4, <2>5 DEF LinesAreDone, Shown
<1>5. CASE HandleFinishedDirectory
  <2>1. UNCHANGED <<tree, visited, option>> /\ TopGone
    BY <1>5, PoppedIs DEF HandleFinishedDirectory
  <2>2. PICK total \in Nat :
           IF option.summarize /\ Len(stack) > 1 THEN printed' = printed
           ELSE printed' = Append(printed, <<stack[1].dir, total>>)
    BY <1>5, FinishIs
  <2>3. PICK d : d = stack[1].dir
    OBVIOUS
  <2>4. d \in Inodes /\ d \in visited /\ tree.kind[d] = "dir" /\ 1 \in DOMAIN stack
        /\ Len(stack) \in Nat \ {0} /\ OnStack(d)
    BY <2>1, <2>3, TopIs DEF TopGone, FramesAreOpen, OnStack
  <2>5. \A i : OnStack(i)' <=> OnStack(i) /\ i # d
    <3>1. ASSUME NEW k \in DOMAIN stack, NEW i, stack[k].dir = i, i # d PROVE OnStack(i)'
      <4>1. k # 1 /\ k \in 1 .. Len(stack)
        BY <2>3, <3>1 DEF Types
      <4>2. k - 1 \in 1 .. Len(stack) - 1 /\ (k - 1) + 1 = k
        BY <2>4, <4>1
      <4>3. stack'[k - 1].dir = stack[k].dir
        BY <2>1, <4>2 DEF TopGone
      <4>4. k - 1 \in DOMAIN stack'
        BY <2>1, <4>2 DEF TopGone
      <4> QED BY <3>1, <4>3, <4>4 DEF OnStack
    <3>2. ASSUME NEW k \in DOMAIN stack' PROVE OnStack(stack'[k].dir) /\ stack'[k].dir # d
      <4>1. k + 1 \in DOMAIN stack /\ stack'[k].dir = stack[k + 1].dir
        BY <2>1 DEF TopGone
      <4>2. k + 1 # 1
        BY <2>1, <2>4 DEF TopGone
      <4>3. stack[k + 1].dir # stack[1].dir
        BY <2>4, <4>1, <4>2 DEF FramesAreOpen
      <4> QED BY <2>3, <4>1, <4>3 DEF OnStack
    <3>3. ASSUME NEW i, OnStack(i)' PROVE OnStack(i) /\ i # d
      <4>1. PICK k \in DOMAIN stack' : stack'[k].dir = i
        BY <3>3 DEF OnStack
      <4> QED BY <3>2, <4>1
    <3>4. ASSUME NEW i, OnStack(i), i # d PROVE OnStack(i)'
      <4>1. PICK k \in DOMAIN stack : stack[k].dir = i
        BY <3>4 DEF OnStack
      <4> QED BY <3>1, <3>4, <4>1
    <3> QED BY <3>3, <3>4
  <2>6. CASE option.summarize /\ Len(stack) > 1
    <3>1. printed' = printed /\ stack # <<>> /\ stack' # <<>>
      BY <2>1, <2>2, <2>4, <2>6 DEF TopGone
    <3>2. option.summarize /\ option' = option /\ visited' = visited
      BY <2>1, <2>6
    <3>3. Len(printed) <= 1 /\ printed = <<>>
      BY <3>1, <3>2 DEF LinesAreDone
    <3> QED BY <3>1, <3>2, <3>3 DEF LinesAreDone
  <2>7. CASE ~(option.summarize /\ Len(stack) > 1)
    <3>1. printed' = Append(printed, <<d, total>>)
      BY <2>2, <2>3, <2>7
    <3>2. ~Shown(d)
      <4>1. CASE option.summarize
        <5>1. printed = <<>>
          BY <2>1, <4>1 DEF LinesAreDone, TopGone
        <5> QED BY <5>1 DEF Shown
      <4>2. CASE ~option.summarize
        BY <2>4, <4>2 DEF LinesAreDone
      <4> QED BY <4>1, <4>2
    <3>3. /\ \A j, k \in DOMAIN printed' : printed'[j][1] = printed'[k][1] => j = k
          /\ \A k \in DOMAIN printed' : printed'[k][1] \in visited'
      BY <2>1, <2>2, <2>4, <3>1, <3>2, NewLine DEF LinesAreDone
    <3>4. Len(printed') = Len(printed) + 1 /\ \A j : Shown(j)' <=> j = d \/ Shown(j)
      BY <2>2, <2>4, <3>1, WriteIs
    <3>5. option.summarize => Len(printed') <= 1 /\ stack' = <<>>
      <4>1. SUFFICES ASSUME option.summarize PROVE Len(printed') <= 1 /\ stack' = <<>>
        OBVIOUS
      <4>2. printed = <<>> /\ Len(printed) = 0
        BY <2>1, <4>1 DEF LinesAreDone, TopGone
      <4>3. Len(stack) = 1
        <5>1. ~(Len(stack) > 1)
          BY <2>7, <4>1
        <5>2. Len(stack) \in Nat \ {0}
          BY <2>4
        <5>3. \A n \in Nat \ {0} : ~(n > 1) => n = 1
          OBVIOUS
        <5> QED BY <5>1, <5>2, <5>3, Zenon
      <4> QED BY <2>1, <3>4, <4>2, <4>3 DEF TopGone
    <3>6. ~option.summarize =>
            \A i \in visited :
              Shown(i)' <=> IF tree.kind[i] = "dir" THEN ~OnStack(i)'
                                                   ELSE option.all \/ visited = {i}
      BY <2>4, <2>5, <3>4 DEF LinesAreDone
    <3> QED BY <2>1, <3>3, <3>5, <3>6 DEF LinesAreDone
  <2> QED BY <2>6, <2>7
<1>6. CASE SkipEntry
  <2>1. PICK it : Skips(it)
    BY <1>6, SkipIs
  <2>2. SameDirs
    BY <1>6, <2>1, ReplacedIs DEF Skips, SkipEntry
  <2>3. UNCHANGED <<tree, visited, printed, option>>
    BY <1>6 DEF SkipEntry
  <2>4. \A i : OnStack(i)' <=> OnStack(i)
    BY <2>2 DEF OnStack, SameDirs
  <2> QED BY <2>2, <2>3, <2>4, SameShown DEF LinesAreDone, SameDirs
<1>7. CASE EnterDirectory
  <2>1. PICK e : NewDir(e)
    BY <1>7, EnterIs, PushedIs DEF EnterDirectory
  <2>2. UNCHANGED <<tree, printed, option>>
    BY <1>7 DEF EnterDirectory
  <2>3. \A i : OnStack(i)' <=> i = e \/ OnStack(i)
    <3>1. OnStack(e)'
      <4>1. \A n \in Nat : 1 \in 1 .. n + 1
        OBVIOUS
      <4>2. Len(stack) \in Nat /\ DOMAIN stack' = 1 .. Len(stack) + 1 /\ stack'[1].dir = e
        BY <2>1, TopIs DEF NewDir
      <4>3. 1 \in DOMAIN stack'
        BY <4>1, <4>2
      <4> QED BY <4>2, <4>3 DEF OnStack
    <3>2. ASSUME NEW i, OnStack(i) PROVE OnStack(i)'
      BY <2>1, <3>2 DEF OnStack, NewDir
    <3>3. ASSUME NEW i, OnStack(i)', i # e PROVE OnStack(i)
      <4>1. PICK k \in DOMAIN stack' : stack'[k].dir = i
        BY <3>3 DEF OnStack
      <4>2. k # 1
        BY <2>1, <3>3, <4>1 DEF NewDir
      <4>3. k - 1 \in DOMAIN stack /\ stack[k - 1].dir = i
        BY <2>1, <4>1, <4>2 DEF NewDir
      <4> QED BY <4>3 DEF OnStack
    <3> QED BY <3>1, <3>2, <3>3
  <2>4. ~Shown(e)
    BY <2>1 DEF LinesAreDone, Shown, NewDir
  <2>5. \A i \in visited : i # e /\ (tree.kind[i] # "dir" => visited # {i} /\ visited' # {i})
    <3>1. stack[1].dir \in visited /\ tree.kind[stack[1].dir] = "dir"
      BY <2>1, TopIs DEF NewDir, FramesAreOpen
    <3> QED BY <2>1, <3>1 DEF NewDir
  <2>6. ~option.summarize =>
          \A i \in visited' :
            Shown(i)' <=> IF tree.kind[i] = "dir" THEN ~OnStack(i)'
                                                 ELSE option.all \/ visited' = {i}
    BY <2>1, <2>2, <2>3, <2>4, <2>5, SameShown DEF LinesAreDone, NewDir
  <2> QED BY <2>1, <2>2, <2>6 DEF LinesAreDone, NewDir
<1>8. CASE CountFile
  <2>1. PICK it, counted : Counts(it, counted, Id)
    BY <1>8, CountIs
  <2>2. counted.dir = it.dir /\ counted.next = it.next /\ counted.left = it.left
    BY <2>1 DEF Counts, AdvancedTo, Frame
  <2>3. SameDirs
    BY <1>8, <2>1, <2>2, ReplacedIs DEF Counts, CountFile
  <2>4. UNCHANGED <<tree, option>> /\ stack # <<>> /\ stack' # <<>>
    BY <1>8, <2>3 DEF CountFile, SameDirs
  <2>5. \A i : OnStack(i)' <=> OnStack(i)
    BY <2>3 DEF OnStack, SameDirs
  <2>6. /\ Id \in Inodes \ visited /\ Size(Id) \in Nat /\ visited' = visited \union {Id}
        /\ tree.kind[Id] # "dir"
    BY <2>1 DEF Counts
  <2>7. ~Shown(Id)
    BY <2>6 DEF LinesAreDone, Shown
  <2>8. /\ \A i \in visited : i # Id /\ (tree.kind[i] # "dir" => visited # {i}
                                                                 /\ visited' # {i})
        /\ visited' # {Id}
    <3>1. stack[1].dir \in visited /\ tree.kind[stack[1].dir] = "dir"
      BY <2>4, TopIs DEF FramesAreOpen
    <3> QED BY <2>6, <3>1
  <2>9. CASE option.all
    <3>1. printed' = Append(printed, <<Id, Size(Id)>>)
      BY <1>8, <2>9 DEF CountFile, Write
    <3>2. ~option.summarize
      BY <2>9, OptionIs
    <3>3. \A j : Shown(j)' <=> j = Id \/ Shown(j)
      BY <2>6, <3>1, WriteIs
    <3>4. /\ \A j, k \in DOMAIN printed' : printed'[j][1] = printed'[k][1] => j = k
          /\ \A k \in DOMAIN printed' : printed'[k][1] \in visited'
      BY <2>6, <2>7, <3>1, NewLine DEF LinesAreDone
    <3>5. \A i \in visited' :
            Shown(i)' <=> IF tree.kind[i] = "dir" THEN ~OnStack(i)'
                                                 ELSE option.all \/ visited' = {i}
      BY <2>5, <2>6, <2>8, <2>9, <3>2, <3>3 DEF LinesAreDone
    <3> QED BY <2>4, <3>2, <3>4, <3>5 DEF LinesAreDone
  <2>10. CASE ~option.all
    <3>1. printed' = printed
      BY <1>8, <2>10 DEF CountFile
    <3>2. ~option.summarize =>
          \A i \in visited' :
            Shown(i)' <=> IF tree.kind[i] = "dir" THEN ~OnStack(i)'
                                                 ELSE option.all \/ visited' = {i}
      BY <2>5, <2>6, <2>7, <2>8, <2>10, <3>1, SameShown DEF LinesAreDone
    <3> QED BY <2>4, <2>6, <3>1, <3>2 DEF LinesAreDone
  <2> QED BY <2>9, <2>10
<1>9. CASE Unlink
  <2>1. tree'.kind = tree.kind /\ UNCHANGED <<stack, visited, printed, option>>
    BY <1>9, UnlinkIs DEF Thinned, Unlink, walk
  <2> QED BY <2>1 DEF LinesAreDone, Shown, OnStack
<1> QED BY <1>1, <1>2, <1>3, <1>4, <1>5, <1>6, <1>7, <1>8, <1>9 DEF Next, Process

(* The line of the argument: printed when its walk ends, with -s as well.    *)
ArgumentHasLine == visited # {} /\ stack = <<>> => printed # <<>>

LEMMA ArgumentLineKept ==
    ASSUME Types, ArgumentHasLine, [Next]_vars PROVE ArgumentHasLine'
<1>1. ASSUME NEW e PROVE Append(printed, e) # <<>>
  <2>1. printed \in Seq(Inodes \X Nat) /\ Len(printed) \in Nat
    BY DEF Types
  <2>2. Len(Append(printed, e)) = Len(printed) + 1
    BY <2>1
  <2> QED BY <2>1, <2>2
<1>2. CASE ArgumentIsFile
  BY <1>1, <1>2 DEF ArgumentIsFile, Write, ArgumentHasLine
<1>3. CASE ArgumentIsDirectory
  <2>1. PICK it : stack' = <<it>>
    BY <1>3 DEF ArgumentIsDirectory
  <2> QED BY <2>1 DEF ArgumentHasLine
<1>4. CASE HandleFinishedDirectory
  <2>1. TopGone
    BY <1>4, PoppedIs DEF HandleFinishedDirectory
  <2>2. PICK total \in Nat :
           IF option.summarize /\ Len(stack) > 1 THEN printed' = printed
           ELSE printed' = Append(printed, <<stack[1].dir, total>>)
    BY <1>4, FinishIs
  <2>3. CASE Len(stack) > 1
    <3>1. Len(stack) \in Nat
      BY <2>1, TopIs DEF TopGone
    <3>2. \A n \in Nat : n > 1 => n # 1
      OBVIOUS
    <3>3. stack' # <<>>
      BY <2>1, <2>3, <3>1, <3>2, Zenon DEF TopGone
    <3> QED BY <3>3 DEF ArgumentHasLine
  <2>4. CASE ~(Len(stack) > 1)
    BY <1>1, <2>2, <2>4 DEF ArgumentHasLine
  <2> QED BY <2>3, <2>4
<1>5. CASE SkipEntry
  <2>1. PICK it : Skips(it)
    BY <1>5, SkipIs
  <2>2. SameDirs
    BY <1>5, <2>1, ReplacedIs DEF Skips, SkipEntry
  <2> QED BY <2>2 DEF SameDirs, ArgumentHasLine
<1>6. CASE EnterDirectory
  <2>1. PICK it, child : stack' = <<child, it>> \o Tail(stack)
    BY <1>6 DEF EnterDirectory
  <2>2. stack' # <<>>
    BY <2>1, <1>6, TopIs DEF EnterDirectory
  <2> QED BY <2>2 DEF ArgumentHasLine
<1>7. CASE CountFile
  <2>1. PICK it, counted : Counts(it, counted, Id)
    BY <1>7, CountIs
  <2>2. counted.dir = it.dir /\ counted.next = it.next /\ counted.left = it.left
    BY <2>1 DEF Counts, AdvancedTo, Frame
  <2>3. SameDirs
    BY <1>7, <2>1, <2>2, ReplacedIs DEF Counts, CountFile
  <2> QED BY <2>3 DEF SameDirs, ArgumentHasLine
<1>8. CASE ArgumentMissing \/ Unlink \/ UNCHANGED vars
  BY <1>8 DEF ArgumentMissing, Unlink, vars, walk, ArgumentHasLine
<1> QED BY <1>2, <1>3, <1>4, <1>5, <1>6, <1>7, <1>8 DEF Next, Process

-----------------------------------------------------------------------------
(* What is known of the paths, unless links are followed and names unlinked. *)
Steady == unlinks = 0 \/ ~option.dereference

Bare(i) == \A m \in Names : tree.names[i][m] = None

(* A frame's path goes through the frame below.  It leads to its directory   *)
(* still, unless that has been removed: then nothing is left in it, nor in   *)
(* those opened above it.                                                    *)
PathsAreKnown ==
    /\ \A k \in DOMAIN stack :
         k + 1 \in DOMAIN stack => \E n \in Names : stack[k].entry = <<stack[k + 1].dir, n>>
    /\ unlinks = 0 => \A k \in DOMAIN stack : StatOrLstat(stack[k].entry) = stack[k].dir
    /\ ~option.dereference =>
         \A k \in DOMAIN stack : \/ Lookup(stack[k].entry) = stack[k].dir
                                 \/ \A j \in 1 .. k : Bare(stack[j].dir)

(* The entry a frame is about to handle is what lstat said of it, or gone.   *)
NextIsKnown ==
    \A k \in DOMAIN stack :
      stack[k].next # None =>
        LET now == tree.names[stack[k].dir][stack[k].next]
            i == stack[k].inode
        IN  /\ i \in Inodes
            /\ unlinks = 0 => now = i
            /\ ~option.dereference =>
                 now = i \/ (now = None /\ (tree.kind[i] = "dir" => Bare(i)))

LEMMA SameTargets ==
    ASSUME UNCHANGED <<tree, option>>
    PROVE  /\ \A e : /\ StatOrLstat(e)' = StatOrLstat(e) /\ Stat(e)' = Stat(e)
                     /\ Lookup(e)' = Lookup(e)
           /\ \A i : Bare(i)' <=> Bare(i)
BY DEF StatOrLstat, Stat, Lookup, IsLink, Bare

LEMMA FrameIs ==
    ASSUME Types, NEW k \in DOMAIN stack
    PROVE  /\ stack[k] \in Frame /\ stack[k].dir \in Inodes /\ stack[k].entry \in Entries
           /\ stack[k].next # None => stack[k].next \in Names
           /\ stack[k].left \subseteq Names /\ stack[k].inode \in Inode
           /\ k \in Nat \ {0} /\ 1 \in DOMAIN stack /\ DOMAIN stack = 1 .. Len(stack)
           /\ \A j \in 1 .. k : j \in DOMAIN stack
<1>1. stack[k] \in Frame /\ k \in 1 .. Len(stack) /\ DOMAIN stack = 1 .. Len(stack)
      /\ Len(stack) \in Nat
  BY DEF Types
<1>2. k \in Nat \ {0} /\ 1 \in DOMAIN stack /\ \A j \in 1 .. k : j \in DOMAIN stack
  BY <1>1
<1> QED BY <1>1, <1>2 DEF Frame

(* A directory is what it is by its name, whether links are followed or not. *)
LEMMA DirIsNoLink ==
    ASSUME tree \in TreeType, NEW e \in Entries, NEW d \in Inodes, tree.kind[d] = "dir",
           StatOrLstat(e) = d \/ Lookup(e) = d
    PROVE  Stat(e) = d
BY StatType DEF StatOrLstat, IsLink

(* The path of the top holds, or there is nothing in it any more.            *)
LEMMA HoldsOrBare ==
    ASSUME Types, FramesAreOpen, PathsAreKnown, Steady, stack # <<>>
    PROVE  /\ unlinks = 0 => PathHolds(stack)
           /\ PathHolds(stack) \/ (~option.dereference /\ Bare(stack[1].dir))
<1>1. ASSUME NEW k \in DOMAIN stack, Stat(stack[k].entry) # stack[k].dir
      PROVE  unlinks # 0 /\ ~option.dereference /\ Bare(stack[1].dir)
  <2>1. stack[k].entry \in Entries /\ stack[k].dir \in Inodes
        /\ tree.kind[stack[k].dir] = "dir"
        /\ tree \in TreeType /\ k \in Nat \ {0}
    BY FrameIs DEF Types, FramesAreOpen
  <2>2. StatOrLstat(stack[k].entry) # stack[k].dir /\ Lookup(stack[k].entry) # stack[k].dir
    BY <1>1, <2>1, DirIsNoLink
  <2>3. unlinks # 0 /\ ~option.dereference
    BY <2>2 DEF PathsAreKnown, Steady
  <2>4. 1 \in 1 .. k
    BY <2>1
  <2> QED BY <2>2, <2>3, <2>4 DEF PathsAreKnown
<1> QED BY <1>1 DEF PathHolds

(* The next entry of the top, when it is entered.                            *)
LEMMA EnteredIs ==
    ASSUME Types, FramesAreOpen, PathsAreKnown, NextIsKnown, EnterDirectory
    PROVE  LET e == <<stack[1].dir, stack[1].next>>
           IN  /\ e \in Entries /\ Id \in Inodes /\ tree.kind[Id] = "dir"
               /\ unlinks = 0 => StatOrLstat(e) = Id
               /\ ~option.dereference => /\ Lookup(e) = Id \/ Bare(Id)
                                         /\ Bare(stack[1].dir) => Bare(Id)
<1>1. /\ stack # <<>> /\ stack[1].next \in Names /\ stack[1].dir \in Inodes
      /\ 1 \in DOMAIN stack /\ Head(stack) = stack[1] /\ stack[1].next # None
  BY TopIs DEF EnterDirectory, top
<1>2. Id \in Inodes /\ tree.kind[Id] = "dir"
  BY DEF EnterDirectory, New
<1> DEFINE e == <<stack[1].dir, stack[1].next>>
<1>3. e \in Entries /\ Lookup(e) = tree.names[stack[1].dir][stack[1].next]
  BY <1>1, EntryIsLookedUp DEF Types
<1>4. option.dereference => Id = Stat(e) \/ Id = None
  BY <1>1 DEF Id, top
<1>5. ~option.dereference => Id = stack[1].inode
  BY <1>1 DEF Id, top
<1>6. unlinks = 0 => StatOrLstat(e) = Id
  <2>1. CASE option.dereference
    BY <1>2, <1>4, <2>1, DuAssumption DEF StatOrLstat
  <2>2. CASE ~option.dereference
    BY <1>1, <1>3, <1>5, <2>2 DEF StatOrLstat, NextIsKnown
  <2> QED BY <2>1, <2>2
<1>7. ~option.dereference => Lookup(e) = Id \/ (Lookup(e) = None /\ Bare(Id))
  BY <1>1, <1>2, <1>3, <1>5 DEF NextIsKnown
<1>8. Bare(stack[1].dir) => Lookup(e) = None
  BY <1>1, <1>3 DEF Bare
<1>9. Id # None
  BY <1>2, DuAssumption
<1> HIDE DEF e
<1>10. ~option.dereference => /\ Lookup(e) = Id \/ Bare(Id)
                              /\ Bare(stack[1].dir) => Bare(Id)
  BY <1>7, <1>8, <1>9
<1> QED BY <1>2, <1>3, <1>6, <1>10 DEF e

LEMMA ThinnedIs ==
    ASSUME Types, NEW d, NEW n, Thinned(d, n), UNCHANGED option
    PROVE  /\ \A e \in Entries : Lookup(e)' = IF e = <<d, n>> THEN None ELSE Lookup(e)
           /\ \A i \in Inodes : Bare(i) => Bare(i)'
           /\ Lookup(<<d, n>>) \in Inodes
           /\ tree.kind[Lookup(<<d, n>>)] = "dir" => Bare(Lookup(<<d, n>>))
<1>1. d \in Inodes /\ n \in Names /\ <<d, n>> # Top /\ Lookup(<<d, n>>) = tree.names[d][n]
  BY EntryIsLookedUp, DuAssumption DEF Thinned, Types, Top
<1>2. ASSUME NEW e \in Entries
      PROVE  Lookup(e)' = IF e = <<d, n>> THEN None ELSE Lookup(e)
  <2>1. CASE e = Top
    BY <1>1, <2>1 DEF Lookup
  <2>2. CASE e # Top
    <3>1. PICK i \in Inodes, m \in Names : e = <<i, m>>
      BY <2>2 DEF Entries
    <3>2. Lookup(e) = tree.names[i][m] /\ Lookup(e)' = tree'.names[i][m]
      BY <2>2, <3>1 DEF Lookup
    <3>3. e = <<d, n>> <=> i = d /\ m = n
      BY <3>1
    <3> QED BY <3>2, <3>3 DEF Thinned
  <2> QED BY <2>1, <2>2
<1>3. \A i \in Inodes : Bare(i) => Bare(i)'
  BY DEF Thinned, Bare
<1> QED BY <1>1, <1>2, <1>3 DEF Thinned, Bare

LEMMA PathsKept ==
    ASSUME Types, FramesAreOpen, PathsAreKnown, NextIsKnown, [Next]_vars PROVE PathsAreKnown'
<1>1. CASE UNCHANGED vars
  <2>1. UNCHANGED <<tree, option, stack, unlinks>>
    BY <1>1 DEF vars, walk
  <2> QED BY <2>1, SameTargets DEF PathsAreKnown
<1>2. CASE ArgumentMissing
  <2>1. UNCHANGED <<tree, option, stack, unlinks>>
    BY <1>2 DEF ArgumentMissing
  <2> QED BY <2>1, SameTargets DEF PathsAreKnown
<1>3. CASE ArgumentIsFile
  <2>1. DOMAIN stack' = {}
    BY <1>3 DEF ArgumentIsFile, Types
  <2> QED BY <2>1 DEF PathsAreKnown
<1>4. CASE ArgumentIsDirectory
  <2>1. PICK it, i : Begun(it, i)
    BY <1>4, BeginIs
  <2>2. it.dir = i /\ it.entry = option.arg
    BY <2>1 DEF Begun, AdvancedTo, Opened
  <2>3. DOMAIN stack' = {1} /\ stack'[1] = it /\ UNCHANGED <<tree, option>>
    BY <1>4, <2>1 DEF Begun, ArgumentIsDirectory
  <2>4. StatOrLstat(option.arg)' = i
    BY <2>1, <2>3, SameTargets DEF Begun
  <2>5. ~option.dereference => Lookup(option.arg)' = i
    BY <2>1, <2>3, SameTargets DEF Begun, StatOrLstat
  <2>6. \A k \in DOMAIN stack' : k + 1 \notin DOMAIN stack'
    BY <2>3
  <2> QED BY <2>2, <2>3, <2>4, <2>5, <2>6 DEF PathsAreKnown
<1>5. CASE HandleFinishedDirectory
  <2>1. UNCHANGED <<tree, option, unlinks>> /\ TopGone
    BY <1>5, PoppedIs DEF HandleFinishedDirectory
  <2>2. \A k \in DOMAIN stack' : /\ k + 1 \in DOMAIN stack /\ stack'[k].dir = stack[k + 1].dir
                                 /\ stack'[k].entry = stack[k + 1].entry
    BY <2>1 DEF TopGone
  <2>3. ASSUME NEW k \in DOMAIN stack', k + 1 \in DOMAIN stack'
        PROVE  \E n \in Names : stack'[k].entry = <<stack'[k + 1].dir, n>>
    <3>1. stack'[k + 1].dir = stack[(k + 1) + 1].dir /\ (k + 1) + 1 \in DOMAIN stack
      BY <2>2, <2>3
    <3> QED BY <2>2, <3>1 DEF PathsAreKnown
  <2>4. unlinks = 0 => \A k \in DOMAIN stack' : StatOrLstat(stack'[k].entry) = stack'[k].dir
    BY <2>2 DEF PathsAreKnown
  <2>5. ASSUME ~option.dereference, NEW k \in DOMAIN stack'
        PROVE  \/ Lookup(stack'[k].entry) = stack'[k].dir
               \/ \A j \in 1 .. k : Bare(stack'[j].dir)
    <3>1. SUFFICES ASSUME Lookup(stack'[k].entry) # stack'[k].dir, NEW j \in 1 .. k
                   PROVE  Bare(stack'[j].dir)
      OBVIOUS
    <3>2. \A j_1 \in 1 .. k + 1 : Bare(stack[j_1].dir)
      BY <2>2, <2>5, <3>1 DEF PathsAreKnown
    <3>3. k \in 1 .. Len(stack) - 1 /\ DOMAIN stack' = 1 .. Len(stack) - 1
          /\ Len(stack) \in Nat
      BY <2>1, TopIs DEF TopGone
    <3>4. j + 1 \in 1 .. k + 1 /\ j \in DOMAIN stack'
      BY <3>3
    <3> QED BY <2>2, <3>2, <3>4
  <2> QED BY <2>1, <2>3, <2>4, <2>5, SameTargets DEF PathsAreKnown
<1>6. CASE SkipEntry \/ CountFile
  <2>1. /\ stack # <<>> /\ UNCHANGED <<tree, option, unlinks>>
        /\ \E it, frame : /\ AdvancedTo(it, stack[1], PathHolds(stack))
                          /\ stack' \in Seq(Frame)
                          /\ Replaced(stack', stack, frame) /\ frame.dir = it.dir
                          /\ frame.next = it.next /\ frame.left = it.left
                          /\ frame.entry = it.entry
    <3>1. CASE SkipEntry
      BY <3>1, SkipIs DEF SkipEntry, Skips
    <3>2. CASE CountFile
      <4>1. PICK it, counted : Counts(it, counted, Id)
        BY <3>2, CountIs
      <4>2. counted.dir = it.dir /\ counted.next = it.next /\ counted.left = it.left
            /\ counted.entry = it.entry
        BY <4>1 DEF Counts, AdvancedTo, Frame
      <4> QED BY <3>2, <4>1, <4>2 DEF Counts, CountFile
    <3> QED BY <1>6, <3>1, <3>2
  <2>2. SameDirs
    BY <2>1, ReplacedIs
  <2>3. \A k \in DOMAIN stack : stack'[k].entry = stack[k].entry
    <3>1. stack'[1].entry = stack[1].entry
      BY <2>1 DEF Replaced, AdvancedTo
    <3>2. \A k \in DOMAIN stack : k # 1 => stack'[k] = stack[k]
      <4>1. \A k \in DOMAIN stack : k # 1 => k \in 2 .. Len(stack)
        BY FrameIs
      <4> QED BY <2>1, <4>1 DEF Replaced
    <3> QED BY <3>1, <3>2
  <2>4. \A k \in DOMAIN stack : \A j \in 1 .. k : stack'[j].dir = stack[j].dir
    BY <2>2, FrameIs DEF SameDirs
  <2> QED BY <2>1, <2>2, <2>3, <2>4, SameTargets DEF PathsAreKnown, SameDirs
<1>7. CASE EnterDirectory
  <2>1. PICK e : e = <<stack[1].dir, stack[1].next>>
    OBVIOUS
  <2>2. PICK i, it, child : i = Id /\ Enters(it, child, i)
    BY <1>7, EnterIs
  <2>3. NewDir(i) /\ stack # <<>> /\ UNCHANGED <<tree, option, unlinks>>
    BY <1>7, <2>2, PushedIs DEF EnterDirectory
  <2>4. /\ unlinks = 0 => StatOrLstat(e) = i
        /\ ~option.dereference => (Lookup(e) = i \/ Bare(i)) /\ (Bare(stack[1].dir) => Bare(i))
    BY <1>7, <2>1, <2>2, EnteredIs
  <2>5. child.entry = e /\ it.entry = stack[1].entry /\ stack'[1] = child /\ stack'[2] = it
        /\ \A k \in 3 .. Len(stack) + 1 : stack'[k] = stack[k - 1]
    BY <2>1, <2>2 DEF Enters, AdvancedTo, Opened, Pushed
  <2>6. Len(stack) \in Nat \ {0} /\ DOMAIN stack' = 1 .. Len(stack) + 1 /\ stack'[1].dir = i
        /\ DOMAIN stack = 1 .. Len(stack)
    BY <2>3, TopIs DEF NewDir, Types
  <2>7. \A k \in DOMAIN stack' : k # 1 => /\ k - 1 \in DOMAIN stack
                                          /\ stack'[k].dir = stack[k - 1].dir
                                          /\ stack'[k].entry = stack[k - 1].entry
    <3>1. \A k \in 1 .. Len(stack) + 1 : k # 1 => k = 2 \/ k \in 3 .. Len(stack) + 1
      BY <2>6
    <3>2. 2 - 1 = 1
      OBVIOUS
    <3>3. \A k \in DOMAIN stack' : k # 1 => stack'[k].entry = stack[k - 1].entry
      BY <2>5, <2>6, <3>1, <3>2
    <3> QED BY <2>3, <3>3 DEF NewDir
  <2>8. ASSUME NEW k \in DOMAIN stack', k + 1 \in DOMAIN stack'
        PROVE  \E n \in Names : stack'[k].entry = <<stack'[k + 1].dir, n>>
    <3>1. CASE k = 1
      <4>1. stack[1].next \in Names
        BY <1>7, <2>3, TopIs DEF EnterDirectory, top
      <4>2. stack'[2].dir = stack[1].dir
        BY <2>2, <2>5 DEF Enters, AdvancedTo
      <4> QED BY <2>1, <2>5, <3>1, <4>1, <4>2
    <3>2. CASE k # 1
      <4>1. (k + 1) - 1 = k /\ k + 1 # 1 /\ (k - 1) + 1 = k
        BY <2>6
      <4>2. /\ k \in DOMAIN stack /\ stack'[k + 1].dir = stack[k].dir
            /\ k - 1 \in DOMAIN stack /\ stack'[k].entry = stack[k - 1].entry
        BY <2>7, <2>8, <3>2, <4>1
      <4> QED BY <4>1, <4>2 DEF PathsAreKnown
    <3> QED BY <3>1, <3>2
  <2>9. unlinks = 0 => \A k \in DOMAIN stack' : StatOrLstat(stack'[k].entry) = stack'[k].dir
    BY <2>4, <2>5, <2>6, <2>7 DEF PathsAreKnown
  <2>10. ASSUME ~option.dereference, NEW k \in DOMAIN stack',
                Lookup(stack'[k].entry) # stack'[k].dir, NEW j \in 1 .. k
         PROVE  Bare(stack'[j].dir)
    <3>1. CASE k = 1
      <4>1. j = 1
        BY <3>1
      <4> QED BY <2>4, <2>5, <2>6, <2>10, <3>1, <4>1
    <3>2. CASE k # 1
      <4>1. \A m \in 1 .. k - 1 : Bare(stack[m].dir)
        BY <2>7, <2>10, <3>2 DEF PathsAreKnown
      <4>2. 1 \in 1 .. k - 1 /\ (j # 1 => j - 1 \in 1 .. k - 1 /\ j \in DOMAIN stack')
        BY <2>6, <3>2
      <4>3. CASE j = 1
        BY <2>4, <2>6, <2>10, <4>1, <4>2, <4>3
      <4>4. CASE j # 1
        BY <2>7, <4>1, <4>2, <4>4
      <4> QED BY <4>3, <4>4
    <3> QED BY <3>1, <3>2
  <2> QED BY <2>3, <2>8, <2>9, <2>10, SameTargets DEF PathsAreKnown
<1>8. CASE Unlink
  <2>1. PICK d, n : Thinned(d, n)
    BY <1>8, UnlinkIs
  <2>2. unlinks' # 0 /\ UNCHANGED <<option, stack>>
    BY <1>8, DuAssumption DEF Unlink, walk, Types
  <2>3. ASSUME ~option.dereference, NEW k \in DOMAIN stack,
               Lookup(stack[k].entry)' # stack[k].dir, NEW j \in 1 .. k
        PROVE  Bare(stack[j].dir)
    <3>1. CASE Lookup(stack[k].entry) # stack[k].dir
      BY <2>3, <3>1 DEF PathsAreKnown
    <3>2. CASE Lookup(stack[k].entry) = stack[k].dir
      <4>1. stack[k].entry = <<d, n>> /\ tree.kind[stack[k].dir] = "dir"
        <5>1. PICK e \in Entries : e = stack[k].entry
          BY FrameIs
        <5>2. Lookup(e)' # Lookup(e)
          BY <2>2, <2>3, <3>2, <5>1
        <5>3. e = <<d, n>>
          BY <2>1, <2>2, <5>2, ThinnedIs
        <5> QED BY <5>1, <5>3 DEF FramesAreOpen
      <4>2. Bare(stack[k].dir)
        BY <2>1, <2>2, <3>2, <4>1, ThinnedIs
      <4>3. CASE j = k
        BY <4>2, <4>3
      <4>4. CASE j # k
        <5>1. k \in Nat \ {0} /\ k - 1 \in 1 .. k /\ (k - 1) + 1 = k /\ j \in 1 .. k - 1
          BY <4>4, FrameIs
        <5>2. k - 1 \in DOMAIN stack
          BY <5>1, FrameIs
        <5>3. PICK m \in Names : stack[k - 1].entry = <<stack[k].dir, m>>
          BY <5>1, <5>2 DEF PathsAreKnown
        <5>4. Lookup(stack[k - 1].entry) = None
          BY <4>2, <5>3, FrameIs, EntryIsLookedUp DEF Bare, Types
        <5>5. stack[k - 1].dir # None
          BY <5>2, FrameIs, DuAssumption
        <5> QED BY <2>3, <5>1, <5>2, <5>4, <5>5 DEF PathsAreKnown
      <4> QED BY <4>3, <4>4
    <3> QED BY <3>1, <3>2
  <2>4. ASSUME ~option.dereference, NEW k \in DOMAIN stack,
               Lookup(stack[k].entry)' # stack[k].dir, NEW j \in 1 .. k
        PROVE  Bare(stack[j].dir)'
    <3>1. stack[j].dir \in Inodes
      BY FrameIs
    <3> QED BY <2>1, <2>2, <2>3, <2>4, <3>1, ThinnedIs
  <2> QED BY <2>2, <2>4 DEF PathsAreKnown
<1> QED BY <1>1, <1>2, <1>3, <1>4, <1>5, <1>6, <1>7, <1>8 DEF Next, Process

(* What lstat has just said of the next entry is so.                         *)
LEMMA NextIsNew ==
    ASSUME Types, NEW it \in Frame, NEW holds, NEW r, AdvancedTo(r, it, holds), r.next # None
    PROVE  r.inode \in Inodes /\ tree.names[r.dir][r.next] = r.inode
<1>1. it.dir \in Inodes /\ r.next \in Names
  BY DEF AdvancedTo, Frame
<1> QED BY <1>1, EntryIsLookedUp DEF AdvancedTo, Types, Inode

LEMMA NextKept ==
    ASSUME Types, FramesAreOpen, NextIsKnown, [Next]_vars PROVE NextIsKnown'
<1>1. CASE UNCHANGED vars
  BY <1>1 DEF NextIsKnown, Bare, vars, walk
<1>2. CASE ArgumentMissing
  BY <1>2 DEF NextIsKnown, Bare, ArgumentMissing
<1>3. CASE ArgumentIsFile
  <2>1. DOMAIN stack' = {}
    BY <1>3 DEF ArgumentIsFile, Types
  <2> QED BY <2>1 DEF NextIsKnown
<1>4. CASE ArgumentIsDirectory
  <2>1. PICK it, i : Begun(it, i)
    BY <1>4, BeginIs
  <2>2. it.next # None => it.inode \in Inodes /\ tree.names[it.dir][it.next] = it.inode
    BY <2>1, NextIsNew DEF Begun
  <2>3. DOMAIN stack' = {1} /\ stack'[1] = it /\ UNCHANGED tree
    BY <1>4, <2>1 DEF Begun, ArgumentIsDirectory
  <2> QED BY <2>2, <2>3 DEF NextIsKnown
<1>5. CASE HandleFinishedDirectory
  <2>1. UNCHANGED <<tree, option, unlinks>> /\ TopGone
    BY <1>5, PoppedIs DEF HandleFinishedDirectory
  <2> QED BY <2>1 DEF NextIsKnown, TopGone, Bare
<1>6. CASE SkipEntry \/ CountFile
  <2>1. /\ stack # <<>> /\ UNCHANGED <<tree, option, unlinks>>
        /\ \E it, frame : /\ AdvancedTo(it, stack[1], PathHolds(stack))
                          /\ stack' \in Seq(Frame)
                          /\ Replaced(stack', stack, frame) /\ frame.dir = it.dir
                          /\ frame.next = it.next /\ frame.left = it.left
                          /\ frame.inode = it.inode
    <3>1. CASE SkipEntry
      BY <3>1, SkipIs DEF SkipEntry, Skips
    <3>2. CASE CountFile
      <4>1. PICK it, counted : Counts(it, counted, Id)
        BY <3>2, CountIs
      <4>2. counted.dir = it.dir /\ counted.next = it.next /\ counted.left = it.left
            /\ counted.inode = it.inode
        BY <4>1 DEF Counts, AdvancedTo, Frame
      <4> QED BY <3>2, <4>1, <4>2 DEF Counts, CountFile
    <3> QED BY <1>6, <3>1, <3>2
  <2>2. SameDirs
    BY <2>1, ReplacedIs
  <2>3. stack'[1].next # None =>
          /\ stack'[1].inode \in Inodes
          /\ tree.names[stack'[1].dir][stack'[1].next] = stack'[1].inode
    BY <2>1, TopIs, NextIsNew DEF Replaced
  <2>4. \A k \in DOMAIN stack : k # 1 => stack'[k] = stack[k]
    <3>1. \A k \in DOMAIN stack : k # 1 => k \in 2 .. Len(stack)
      BY FrameIs
    <3> QED BY <2>1, <3>1 DEF Replaced
  <2> QED BY <2>1, <2>2, <2>3, <2>4 DEF NextIsKnown, SameDirs, Bare
<1>7. CASE EnterDirectory
  <2>1. PICK i, it, child : Enters(it, child, i)
    BY <1>7, EnterIs
  <2>2. NewDir(i) /\ stack # <<>> /\ UNCHANGED <<tree, option, unlinks>>
    BY <1>7, <2>1, PushedIs DEF EnterDirectory
  <2>3. /\ it.next # None => it.inode \in Inodes /\ tree.names[it.dir][it.next] = it.inode
        /\ child.next # None =>
             child.inode \in Inodes /\ tree.names[child.dir][child.next] = child.inode
    BY <2>1, <2>2, TopIs, NextIsNew DEF Enters
  <2>4. \A k \in DOMAIN stack' : \/ stack'[k] = child \/ stack'[k] = it
                                 \/ k - 1 \in DOMAIN stack /\ stack'[k] = stack[k - 1]
    <3>1. Len(stack) \in Nat /\ DOMAIN stack' = 1 .. Len(stack) + 1 /\ stack'[1] = child
          /\ stack'[2] = it /\ \A k \in 3 .. Len(stack) + 1 : stack'[k] = stack[k - 1]
      BY <2>1, <2>2, TopIs DEF Enters, Pushed, NewDir
    <3>2. \A k \in 1 .. Len(stack) + 1 : k = 1 \/ k = 2 \/ k \in 3 .. Len(stack) + 1
      BY <3>1
    <3>3. \A k \in DOMAIN stack' : k # 1 => k - 1 \in DOMAIN stack
      BY <2>2 DEF NewDir
    <3> QED BY <3>1, <3>2, <3>3
  <2>5. ASSUME NEW k \in DOMAIN stack', stack'[k].next # None
        PROVE  LET now == tree'.names[stack'[k].dir][stack'[k].next]
                   j == stack'[k].inode
               IN  /\ j \in Inodes
                   /\ unlinks' = 0 => now = j
                   /\ ~option'.dereference =>
                        now = j \/ (now = None /\ (tree'.kind[j] = "dir" => Bare(j)))
    <3>1. CASE k - 1 \in DOMAIN stack /\ stack'[k] = stack[k - 1]
      BY <2>2, <2>5, <3>1 DEF NextIsKnown
    <3>2. CASE stack'[k] = child \/ stack'[k] = it
      BY <2>2, <2>3, <2>5, <3>2
    <3> QED BY <2>4, <3>1, <3>2
  <2> QED BY <2>2, <2>5 DEF NextIsKnown, Bare
<1>8. CASE Unlink
  <2>1. PICK d, n : Thinned(d, n)
    BY <1>8, UnlinkIs
  <2>2. unlinks' # 0 /\ UNCHANGED <<option, stack>>
    BY <1>8, DuAssumption DEF Unlink, walk, Types
  <2>3. ASSUME NEW k \in DOMAIN stack, stack[k].next # None
        PROVE  LET now == tree'.names[stack[k].dir][stack[k].next]
                   j == stack[k].inode
               IN  /\ j \in Inodes
                   /\ ~option.dereference =>
                        now = j \/ (now = None /\ (tree'.kind[j] = "dir" => Bare(j)'))
    <3>1. PICK i, m, j : i = stack[k].dir /\ m = stack[k].next /\ j = stack[k].inode
      OBVIOUS
    <3>2. i \in Inodes /\ m \in Names /\ j \in Inodes
      BY <2>3, <3>1, FrameIs DEF NextIsKnown
    <3>3. ~option.dereference =>
            \/ tree.names[i][m] = j
            \/ tree.names[i][m] = None /\ (tree.kind[j] = "dir" => Bare(j))
      BY <2>3, <3>1 DEF NextIsKnown
    <3>4. tree'.names[i][m] = IF i = d /\ m = n THEN None ELSE tree.names[i][m]
      BY <2>1, <3>2 DEF Thinned
    <3>5. (tree'.kind[j] = "dir" <=> tree.kind[j] = "dir") /\ (Bare(j) => Bare(j)')
      <4>1. tree'.kind = tree.kind
        BY <2>1 DEF Thinned
      <4>2. Bare(j) => Bare(j)'
        BY <2>1, <2>2, <3>2, ThinnedIs
      <4> QED BY <4>1, <4>2
    <3>6. i = d /\ m = n /\ tree.names[i][m] = j => (tree.kind[j] = "dir" => Bare(j))
      BY <2>1 DEF Thinned, Bare
    <3>7. ~option.dereference =>
            \/ tree'.names[i][m] = j
            \/ tree'.names[i][m] = None /\ (tree'.kind[j] = "dir" => Bare(j)')
      BY <3>3, <3>4, <3>5, <3>6
    <3> QED BY <2>2, <3>1, <3>2, <3>7
  <2> QED BY <2>2, <2>3 DEF NextIsKnown
<1> QED BY <1>1, <1>2, <1>3, <1>4, <1>5, <1>6, <1>7, <1>8 DEF Next, Process

-----------------------------------------------------------------------------
(* Whatever an entry of a visited directory leads to has been visited, or    *)
(* the entry is still to come.                                               *)
Pending(d, n) ==
    \E k \in DOMAIN stack :
      stack[k].dir = d /\ (n \in stack[k].left \/ n = stack[k].next)

Covered(d) ==
    tree.kind[d] = "dir" =>
      \A n \in Names : StatOrLstat(<<d, n>>) \in visited \union {None} \/ Pending(d, n)

NothingIsMissed ==
    Steady =>
      /\ started => StatOrLstat(option.arg) \in visited \union {None}
      /\ \A d \in visited \ tree.locked : Covered(d)

(* No entry, no target.                                                      *)
LEMMA NoTarget ==
    ASSUME tree \in TreeType, NEW d \in Inodes, NEW n \in Names, tree.names[d][n] = None
    PROVE  StatOrLstat(<<d, n>>) = None
BY EntryIsLookedUp, StatType DEF StatOrLstat, IsLink

(* What an iterator passes over when it advances is no entry any more.       *)
LEMMA NothingIsPassed ==
    ASSUME Types, NEW it \in Frame, NEW holds, NEW r, AdvancedTo(r, it, holds),
           holds \/ Bare(it.dir), NEW n \in it.left, n # r.next, n \notin r.left
    PROVE  StatOrLstat(<<it.dir, n>>) = None
<1>1. it.dir \in Inodes /\ n \in Names
  BY DEF Frame
<1>2. tree.names[it.dir][n] = None
  BY <1>1 DEF AdvancedTo, Bare
<1> QED BY <1>1, <1>2, NoTarget DEF Types

(* The entry that has been handled leads to what has been visited.           *)
LEMMA HandledIsVisited ==
    ASSUME Types, FramesAreOpen, PathsAreKnown, NextIsKnown, Steady, stack # <<>>,
           stack[1].next # None, visited \subseteq visited',
           Id \in Inodes => Id \in visited'
    PROVE  StatOrLstat(<<stack[1].dir, stack[1].next>>) \in visited' \union {None}
<1>1. /\ stack[1].next \in Names /\ stack[1].dir \in Inodes /\ tree \in TreeType
      /\ 1 \in DOMAIN stack /\ Head(stack) = stack[1]
  BY TopIs DEF Types
<1>2. CASE option.dereference
  <2>1. PathHolds(stack)
    BY <1>2, HoldsOrBare DEF Steady
  <2>2. Id = Stat(<<stack[1].dir, stack[1].next>>)
    BY <1>1, <1>2, <2>1 DEF Id, top
  <2>3. Id \in Inode
    BY <1>1, <2>2, StatType, EntryIsLookedUp
  <2> QED BY <1>2, <2>2, <2>3 DEF StatOrLstat, Inode
<1>3. CASE ~option.dereference
  <2>1. Id = stack[1].inode
    BY <1>1, <1>3 DEF Id, top
  <2>2. Id \in Inodes
    BY <1>1, <2>1 DEF NextIsKnown
  <2>3. tree.names[stack[1].dir][stack[1].next] \in {Id, None}
    BY <1>1, <1>3, <2>1 DEF NextIsKnown
  <2>4. StatOrLstat(<<stack[1].dir, stack[1].next>>) = tree.names[stack[1].dir][stack[1].next]
    BY <1>1, <1>3, EntryIsLookedUp DEF StatOrLstat
  <2> QED BY <2>2, <2>3, <2>4
<1> QED BY <1>2, <1>3

(* Advancing the top covers its directory still; the others are not touched. *)
LEMMA TopCovered ==
    ASSUME Types, FramesAreOpen, PathsAreKnown, NextIsKnown, Steady, stack # <<>>,
           UNCHANGED <<tree, option>>, stack[1].next # None, visited \subseteq visited',
           Id \in Inodes => Id \in visited',
           NEW it, AdvancedTo(it, stack[1], PathHolds(stack)), NEW t,
           t \in DOMAIN stack', stack'[t].dir = it.dir, stack'[t].next = it.next,
           stack'[t].left = it.left, Covered(stack[1].dir),
           \A k \in DOMAIN stack : stack[k].dir = stack[1].dir => k = 1,
           tree.kind[stack[1].dir] = "dir"
    PROVE  \A n \in Names : \/ StatOrLstat(<<stack[1].dir, n>>) \in visited' \union {None}
                            \/ Pending(it.dir, n)'
<1> SUFFICES ASSUME NEW n \in Names,
                    StatOrLstat(<<stack[1].dir, n>>) \notin visited' \union {None}
             PROVE  n \in it.left \/ n = it.next
  <2>1. it.dir = stack'[t].dir /\ it.next = stack'[t].next /\ it.left = stack'[t].left
    OBVIOUS
  <2>2. ASSUME NEW n \in Names, NEW d, d = it.dir, n \in it.left \/ n = it.next
        PROVE  Pending(d, n)'
    BY <2>2 DEF Pending
  <2> QED BY <2>2
<1>1. Pending(stack[1].dir, n)
  BY DEF Covered
<1>2. n \in stack[1].left \/ n = stack[1].next
  BY <1>1 DEF Pending
<1>3. n # stack[1].next
  BY HandledIsVisited
<1>4. stack[1] \in Frame /\ (PathHolds(stack) \/ Bare(stack[1].dir))
  BY TopIs, HoldsOrBare
<1> QED BY <1>2, <1>3, <1>4, NothingIsPassed

(* A directory that has been opened: all its entries are to come.            *)
LEMMA OpenedIsCovered ==
    ASSUME Types, NEW e \in Entries, NEW i \in Inodes, i \notin tree.locked, NEW child,
           AdvancedTo(child, Opened(e, i), TRUE),
           (PathHolds(stack) /\ Stat(e) = i) \/ Bare(i),
           UNCHANGED <<tree, option>>, NEW k \in DOMAIN stack', stack'[k] = child
    PROVE  \A n \in Names : \/ StatOrLstat(<<i, n>>) \in visited' \union {None}
                            \/ Pending(i, n)'
<1> SUFFICES ASSUME NEW n \in Names, StatOrLstat(<<i, n>>) # None PROVE Pending(i, n)'
  OBVIOUS
<1>1. tree.names[i][n] # None
  BY NoTarget DEF Types
<1>2. PathHolds(stack) /\ Stat(e) = i
  BY <1>1 DEF Bare
<1>3. n \in Opened(e, i).left /\ Opened(e, i).dir = i
  <2>1. /\ Opened(e, i).dir = i
        /\ Opened(e, i).left = IF PathHolds(stack) /\ Stat(e) = i /\ i \notin tree.locked
                               THEN {m \in Names : tree.names[i][m] # None} ELSE {}
    BY DEF Opened
  <2>2. Opened(e, i).left = {m \in Names : tree.names[i][m] # None}
    BY <1>2, <2>1
  <2> QED BY <1>1, <2>1, <2>2
<1>4. child.dir = i /\ (n = child.next \/ n \in child.left)
  BY <1>1, <1>3 DEF AdvancedTo
<1> QED BY <1>4 DEF Pending

LEMMA MissedKept ==
    ASSUME Types, FramesAreOpen, PathsAreKnown, NextIsKnown, NothingIsMissed, [Next]_vars
    PROVE  NothingIsMissed'
<1> SUFFICES ASSUME Steady'
             PROVE /\ started' => StatOrLstat(option.arg)' \in visited' \union {None}
                   /\ \A d \in visited' \ tree'.locked : Covered(d)'
  BY DEF NothingIsMissed
<1>1. Steady
  <2>1. UNCHANGED <<unlinks, option>> \/ Unlink
    BY DEF Next, Process, ArgumentMissing, ArgumentIsFile, ArgumentIsDirectory,
           HandleFinishedDirectory, SkipEntry, EnterDirectory, CountFile, vars
  <2>2. ASSUME Unlink PROVE unlinks' # 0 /\ UNCHANGED option
    BY <2>2, DuAssumption DEF Unlink, Types
  <2> QED BY <2>1, <2>2 DEF Steady
<1>2. ASSUME UNCHANGED <<tree, option>>
      PROVE  /\ \A e : StatOrLstat(e)' = StatOrLstat(e)
             /\ StatOrLstat(option.arg)' = StatOrLstat(option.arg)
             /\ \A d : Covered(d)' <=>
                  (tree.kind[d] = "dir" =>
                     \A n \in Names : StatOrLstat(<<d, n>>) \in visited' \union {None}
                                      \/ Pending(d, n)')
  <2>1. \A e : StatOrLstat(e)' = StatOrLstat(e)
    BY <1>2, SameTargets
  <2>2. StatOrLstat(option.arg)' = StatOrLstat(option.arg)
    BY <1>2 DEF StatOrLstat, Stat, Lookup, IsLink
  <2> QED BY <1>2, <2>1, <2>2 DEF Covered
<1>3. CASE UNCHANGED vars
  <2>1. UNCHANGED <<tree, option, started, stack, visited>>
    BY <1>3 DEF vars, walk
  <2>2. \A d, n : Pending(d, n)' <=> Pending(d, n)
    BY <2>1 DEF Pending
  <2> QED BY <1>1, <1>2, <2>1, <2>2 DEF NothingIsMissed, Covered
<1>4. CASE ArgumentMissing
  <2>1. UNCHANGED <<tree, option>> /\ visited' = {} /\ StatOrLstat(option.arg) = None
    BY <1>4 DEF ArgumentMissing, Types
  <2> QED BY <1>2, <2>1
<1>5. CASE ArgumentIsFile
  <2>1. /\ UNCHANGED <<tree, option>> /\ visited' = {StatOrLstat(option.arg)}
        /\ tree.kind[StatOrLstat(option.arg)] # "dir"
    BY <1>5 DEF ArgumentIsFile
  <2> QED BY <1>2, <2>1
<1>6. CASE ArgumentIsDirectory
  <2>1. PICK it, i : Begun(it, i)
    BY <1>6, BeginIs
  <2>2. /\ UNCHANGED <<tree, option>> /\ visited' = {i} /\ StatOrLstat(option.arg) = i
        /\ stack = <<>> /\ stack' = <<it>> /\ i \in Inodes /\ tree.kind[i] = "dir"
    BY <1>6, <2>1 DEF Begun, ArgumentIsDirectory, Types
  <2>3. PathHolds(stack)
    BY <2>2 DEF PathHolds
  <2>4. Stat(option.arg) = i
    BY <2>2, OptionIs, DirIsNoLink DEF Types
  <2>5. 1 \in DOMAIN stack' /\ stack'[1] = it
    BY <2>2
  <2>6. i \notin tree.locked => Covered(i)'
    BY <1>2, <2>1, <2>2, <2>3, <2>4, <2>5, OpenedIsCovered, OptionIs DEF Begun
  <2> QED BY <1>2, <2>2, <2>6
<1>7. CASE HandleFinishedDirectory
  <2>1. UNCHANGED <<tree, option, visited, started>> /\ TopGone /\ started
    BY <1>7, PoppedIs DEF HandleFinishedDirectory, Types
  <2>2. stack[1].next = None /\ stack[1].left = {} /\ 1 \in DOMAIN stack
        /\ Len(stack) \in Nat \ {0} /\ DOMAIN stack = 1 .. Len(stack)
    BY <1>7, TopIs DEF HandleFinishedDirectory, FramesAreOpen, top, Types
  <2>3. ASSUME NEW d, NEW n \in Names, Pending(d, n) PROVE Pending(d, n)'
    <3>1. PICK k \in DOMAIN stack : stack[k].dir = d
                                    /\ (n \in stack[k].left \/ n = stack[k].next)
      BY <2>3 DEF Pending
    <3>2. k # 1
      BY <2>2, <3>1, DuAssumption
    <3>3. k - 1 \in 1 .. Len(stack) - 1 /\ (k - 1) + 1 = k
      BY <2>2, <3>2
    <3>4. k - 1 \in DOMAIN stack' /\ stack'[k - 1].dir = stack[k].dir
          /\ stack'[k - 1].next = stack[k].next /\ stack'[k - 1].left = stack[k].left
      BY <2>1, <3>3 DEF TopGone
    <3> QED BY <3>1, <3>4 DEF Pending
  <2> QED BY <1>1, <1>2, <2>1, <2>3 DEF NothingIsMissed, Covered
<1>8. CASE SkipEntry \/ CountFile
  <2>1. /\ stack # <<>> /\ UNCHANGED <<tree, option, started>> /\ stack[1].next # None
    BY <1>8, TopIs DEF SkipEntry, CountFile, top
  <2>2. /\ visited \subseteq visited' /\ (Id \in Inodes => Id \in visited')
        /\ \A d \in visited' : d \in visited \/ tree.kind[d] # "dir"
    BY <1>8 DEF SkipEntry, CountFile, New
  <2>3. PICK it, frame : /\ AdvancedTo(it, stack[1], PathHolds(stack)) /\ stack' \in Seq(Frame)
                         /\ Replaced(stack', stack, frame) /\ frame.dir = it.dir
                         /\ frame.next = it.next /\ frame.left = it.left
    <3>1. CASE SkipEntry
      BY <3>1, SkipIs DEF SkipEntry, Skips
    <3>2. CASE CountFile
      <4>1. PICK it, counted : Counts(it, counted, Id)
        BY <3>2, CountIs
      <4>2. counted.dir = it.dir /\ counted.next = it.next /\ counted.left = it.left
        BY <4>1 DEF Counts, AdvancedTo, Frame
      <4> QED BY <3>2, <4>1, <4>2 DEF Counts, CountFile
    <3> QED BY <1>8, <3>1, <3>2
  <2>4. SameDirs /\ 1 \in DOMAIN stack /\ stack'[1] = frame
    BY <2>1, <2>3, ReplacedIs, TopIs DEF Replaced
  <2>5. \A k \in DOMAIN stack : k # 1 => stack'[k] = stack[k]
    <3>1. \A k \in DOMAIN stack : k # 1 => k \in 2 .. Len(stack)
      BY FrameIs
    <3> QED BY <2>3, <3>1 DEF Replaced
  <2>6. ASSUME NEW d, d # stack[1].dir, NEW n \in Names, Pending(d, n) PROVE Pending(d, n)'
    <3>1. PICK k \in DOMAIN stack : stack[k].dir = d
                                    /\ (n \in stack[k].left \/ n = stack[k].next)
      BY <2>6 DEF Pending
    <3>2. k # 1 /\ k \in DOMAIN stack' /\ stack'[k] = stack[k]
      BY <2>4, <2>5, <2>6, <3>1 DEF SameDirs
    <3> QED BY <3>1, <3>2 DEF Pending
  <2>7. ASSUME NEW d \in visited' \ tree'.locked PROVE Covered(d)'
    <3>1. CASE d = stack[1].dir
      <4>1. d \in visited \ tree.locked /\ tree.kind[stack[1].dir] = "dir"
            /\ \A k \in DOMAIN stack : stack[k].dir = stack[1].dir => k = 1
        BY <2>1, <2>4, <2>7, <3>1 DEF FramesAreOpen
      <4>2. Covered(stack[1].dir)
        BY <1>1, <3>1, <4>1 DEF NothingIsMissed
      <4>3. it.dir = d /\ 1 \in DOMAIN stack' /\ stack'[1].dir = it.dir
            /\ stack'[1].next = it.next /\ stack'[1].left = it.left
        BY <2>3, <2>4, <3>1 DEF AdvancedTo, SameDirs
      <4>4. \A n \in Names : \/ StatOrLstat(<<stack[1].dir, n>>) \in visited' \union {None}
                             \/ Pending(it.dir, n)'
        BY <1>1, <2>1, <2>2, <2>3, <4>1, <4>2, <4>3, TopCovered
      <4> QED BY <1>2, <2>1, <3>1, <4>3, <4>4
    <3>2. CASE d # stack[1].dir
      BY <1>1, <1>2, <2>1, <2>2, <2>6, <2>7, <3>2 DEF NothingIsMissed, Covered
    <3> QED BY <3>1, <3>2
  <2> QED BY <1>1, <1>2, <2>1, <2>2, <2>7 DEF NothingIsMissed, Types
<1>9. CASE EnterDirectory
  <2>1. PICK i, it, child : i = Id /\ Enters(it, child, i)
    BY <1>9, EnterIs
  <2>2. NewDir(i) /\ stack # <<>> /\ UNCHANGED <<tree, option, started>>
        /\ stack[1].next # None
    BY <1>9, <2>1, PushedIs, TopIs DEF EnterDirectory, top
  <2>3. PICK e : e = <<stack[1].dir, stack[1].next>>
    OBVIOUS
  <2>4. /\ e \in Entries /\ i \in Inodes /\ tree.kind[i] = "dir"
        /\ unlinks = 0 => StatOrLstat(e) = i
        /\ ~option.dereference => (Lookup(e) = i \/ Bare(i)) /\ (Bare(stack[1].dir) => Bare(i))
    BY <1>9, <2>1, <2>3, EnteredIs
  <2>5. (PathHolds(stack) /\ Stat(e) = i) \/ Bare(i)
    <3>1. unlinks = 0 => PathHolds(stack) /\ Stat(e) = i
      BY <1>1, <2>2, <2>4, HoldsOrBare, DirIsNoLink DEF Types
    <3>2. ~option.dereference => (PathHolds(stack) /\ Stat(e) = i) \/ Bare(i)
      <4>1. PathHolds(stack) \/ Bare(stack[1].dir)
        BY <1>1, <2>2, HoldsOrBare
      <4>2. Lookup(e) = i => Stat(e) = i
        BY <2>4, DirIsNoLink DEF Types
      <4> QED BY <2>4, <4>1, <4>2
    <3> QED BY <1>1, <3>1, <3>2 DEF Steady
  <2>6. /\ stack'[1] = child /\ stack'[2] = it /\ 1 \in DOMAIN stack' /\ 2 \in DOMAIN stack'
        /\ \A k \in DOMAIN stack : k # 1 => k + 1 \in DOMAIN stack' /\ stack'[k + 1] = stack[k]
    <3>1. Len(stack) \in Nat \ {0} /\ DOMAIN stack' = 1 .. Len(stack) + 1 /\ stack'[1] = child
          /\ stack'[2] = it /\ \A k \in 3 .. Len(stack) + 1 : stack'[k] = stack[k - 1]
          /\ DOMAIN stack = 1 .. Len(stack)
      BY <2>1, <2>2, TopIs DEF Enters, Pushed, NewDir, Types
    <3>2. \A n \in Nat \ {0} : /\ 1 \in 1 .. n + 1 /\ 2 \in 1 .. n + 1
                               /\ \A k \in 1 .. n : k # 1 => /\ k + 1 \in 3 .. n + 1
                                                             /\ k + 1 \in 1 .. n + 1
                                                             /\ (k + 1) - 1 = k
      OBVIOUS
    <3>3. /\ 1 \in 1 .. Len(stack) + 1 /\ 2 \in 1 .. Len(stack) + 1
          /\ \A k \in 1 .. Len(stack) : k # 1 => /\ k + 1 \in 3 .. Len(stack) + 1
                                                 /\ k + 1 \in 1 .. Len(stack) + 1
                                                 /\ (k + 1) - 1 = k
      BY <3>1, <3>2, Zenon
    <3> QED BY <3>1, <3>3
  <2>7. /\ visited' = visited \union {i} /\ i \notin visited /\ it.dir = stack[1].dir
        /\ AdvancedTo(it, stack[1], PathHolds(stack)) /\ AdvancedTo(child, Opened(e, i), TRUE)
    BY <2>1, <2>3 DEF Enters, AdvancedTo
  <2>8. ASSUME NEW d, d # stack[1].dir, NEW n \in Names, Pending(d, n) PROVE Pending(d, n)'
    <3>1. PICK k \in DOMAIN stack : stack[k].dir = d
                                    /\ (n \in stack[k].left \/ n = stack[k].next)
      BY <2>8 DEF Pending
    <3>2. k + 1 \in DOMAIN stack' /\ stack'[k + 1] = stack[k]
      BY <2>6, <2>8, <3>1
    <3> QED BY <3>1, <3>2 DEF Pending
  <2>9. ASSUME NEW d \in visited' \ tree'.locked PROVE Covered(d)'
    <3>1. CASE d = stack[1].dir
      <4>1. d \in visited \ tree.locked /\ tree.kind[stack[1].dir] = "dir"
            /\ \A k \in DOMAIN stack : stack[k].dir = stack[1].dir => k = 1
        BY <2>2, <2>9, <3>1, TopIs DEF FramesAreOpen
      <4>2. Covered(stack[1].dir)
        BY <1>1, <3>1, <4>1 DEF NothingIsMissed
      <4>3. Id \in Inodes => Id \in visited'
        BY <2>1, <2>7
      <4>4. visited \subseteq visited' /\ stack'[2].dir = it.dir
            /\ stack'[2].next = it.next /\ stack'[2].left = it.left
        BY <2>6, <2>7
      <4>5. \A n \in Names : \/ StatOrLstat(<<stack[1].dir, n>>) \in visited' \union {None}
                             \/ Pending(it.dir, n)'
        BY <1>1, <2>2, <2>6, <2>7, <4>1, <4>2, <4>3, <4>4, TopCovered
      <4> QED BY <1>2, <2>2, <2>7, <3>1, <4>5
    <3>2. CASE d = i
      <4>1. \A n \in Names : \/ StatOrLstat(<<i, n>>) \in visited' \union {None}
                             \/ Pending(i, n)'
        BY <2>2, <2>4, <2>5, <2>6, <2>7, <2>9, <3>2, OpenedIsCovered
      <4> QED BY <1>2, <2>2, <3>2, <4>1
    <3>3. CASE d # stack[1].dir /\ d # i
      <4>1. d \in visited \ tree.locked
        BY <2>2, <2>7, <2>9, <3>3
      <4>2. Covered(d)
        BY <1>1, <4>1 DEF NothingIsMissed
      <4> QED BY <1>2, <2>2, <2>7, <2>8, <3>3, <4>2 DEF Covered
    <3> QED BY <3>1, <3>2, <3>3
  <2> QED BY <1>1, <1>2, <2>2, <2>7, <2>9 DEF NothingIsMissed, Types
<1>10. CASE Unlink
  <2>1. PICK d, n : Thinned(d, n)
    BY <1>10, UnlinkIs
  <2>2. unlinks' # 0 /\ UNCHANGED <<option, stack, visited, started>> /\ ~option.dereference
    BY <1>10, DuAssumption DEF Unlink, walk, Types, Steady
  <2>3. \A e \in Entries : StatOrLstat(e)' = StatOrLstat(e) \/ StatOrLstat(e)' = None
    BY <2>1, <2>2, ThinnedIs DEF StatOrLstat
  <2>4. \A b, m : Pending(b, m)' <=> Pending(b, m)
    BY <2>2 DEF Pending
  <2>5. StatOrLstat(option.arg)' = StatOrLstat(option.arg) \/ StatOrLstat(option.arg)' = None
    <3>1. PICK e \in Entries : e = option.arg
      BY OptionIs
    <3>2. StatOrLstat(option.arg)' = StatOrLstat(e)'
      BY <2>2, <3>1 DEF StatOrLstat, Lookup
    <3> QED BY <2>3, <3>1, <3>2
  <2>6. tree'.kind = tree.kind /\ tree'.locked = tree.locked
    BY <2>1 DEF Thinned
  <2>7. ASSUME NEW b \in visited' \ tree'.locked PROVE Covered(b)'
    <3>1. b \in visited \ tree.locked /\ b \in Inodes
      BY <2>2, <2>6 DEF Types
    <3>2. Covered(b)
      BY <1>1, <3>1 DEF NothingIsMissed
    <3>3. \A m \in Names : <<b, m>> \in Entries
      BY <3>1, EntryIsLookedUp
    <3>4. \A m \in Names : StatOrLstat(<<b, m>>)' \in {StatOrLstat(<<b, m>>), None}
      BY <2>3, <3>3
    <3> QED BY <2>2, <2>4, <2>6, <3>2, <3>4 DEF Covered
  <2> QED BY <1>1, <2>2, <2>5, <2>7 DEF NothingIsMissed
<1> QED BY <1>3, <1>4, <1>5, <1>6, <1>7, <1>8, <1>9, <1>10 DEF Next, Process

-----------------------------------------------------------------------------
(* What can be reached.                                                      *)
Out(d) == {StatOrLstat(<<d, n>>) : n \in Names} \ {None}

Grown(S, shut) == S \union UNION {Out(d) : d \in {e \in S \ shut : tree.kind[e] = "dir"}}

Closed(S, shut) ==
    \A d \in S \ shut : tree.kind[d] = "dir" =>
      \A n \in Names : StatOrLstat(<<d, n>>) \in S \union {None}

LEMMA OutType ==
    ASSUME tree \in TreeType, NEW d \in Inodes PROVE Out(d) \subseteq Inodes
BY EntryIsLookedUp, TargetType DEF Out, Inode

(* The sets ReachAround goes through.                                        *)
Reaches(g, i, shut, N) ==
    /\ g \in [0 .. N -> SUBSET Inodes] /\ g[0] = {i}
    /\ \A k \in 1 .. N : g[k] = Grown(g[k - 1], shut)

LEMMA ReachesExist ==
    ASSUME tree \in TreeType, NEW i \in Inodes, NEW shut, NEW N \in Nat
    PROVE  \E g : Reaches(g, i, shut, N)
<1> DEFINE T == SUBSET Inodes
<1>1. PICK next : next = [S \in T |-> Grown(S, shut)]
  OBVIOUS
<1>2. IsStep(next, T)
  <2>1. \A S \in T : Grown(S, shut) \in T
    BY OutType DEF Grown
  <2> QED BY <1>1, <2>1 DEF IsStep
<1>3. {i} \in T
  OBVIOUS
<1>4. PICK g : Iterates(g, {i}, next, N, T)
  <2> HIDE DEF T
  <2> QED BY <1>2, <1>3, IterationExists
<1>5. \A k \in 1 .. N : g[k - 1] \in T
  BY <1>4 DEF Iterates
<1>6. \A k \in 1 .. N : g[k] = Grown(g[k - 1], shut)
  BY <1>1, <1>4, <1>5 DEF Iterates
<1> QED BY <1>4, <1>6 DEF Iterates, Reaches

LEMMA ReachIs ==
    ASSUME tree \in TreeType, NEW i \in Inodes, NEW shut
    PROVE  \E g : Reaches(g, i, shut, Cardinality(Inodes))
                  /\ ReachAround(i, shut) = g[Cardinality(Inodes)]
<1> DEFINE out(d) == {StatOrLstat(<<d, n>>) : n \in Names} \ {None}
           open(S) == {d \in S \ shut : tree.kind[d] = "dir"}
           step[k \in 0 .. Cardinality(Inodes)] ==
             IF k = 0 THEN {i}
             ELSE LET S == step[k - 1] IN S \union UNION {out(d) : d \in open(S)}
           N == Cardinality(Inodes)
<1>1. N \in Nat
  BY DuAssumption, FS_CardinalityType
<1>2. PICK g : Reaches(g, i, shut, N)
  <2> HIDE DEF N
  <2> QED BY <1>1, ReachesExist
<1>3. g = [k \in 0 .. N |-> IF k = 0 THEN {i}
                            ELSE g[k - 1] \union UNION {out(d) : d \in open(g[k - 1])}]
  <2> HIDE DEF N
  <2>1. g \in [0 .. N -> SUBSET Inodes] /\ g[0] = {i}
        /\ \A k \in 1 .. N : g[k] = g[k - 1] \union UNION {out(d) : d \in open(g[k - 1])}
    BY <1>2 DEF Reaches, Grown, Out
  <2>2. \A k \in 0 .. N : k # 0 => k \in 1 .. N
    BY <1>1
  <2> HIDE DEF out, open
  <2> QED BY <1>1, <2>1, <2>2
<1>4. step = [k \in 0 .. N |-> IF k = 0 THEN {i}
                               ELSE step[k - 1] \union UNION {out(d) : d \in open(step[k - 1])}]
  BY <1>3
<1>5. ReachAround(i, shut) = step[N]
  BY DEF ReachAround
<1> HIDE DEF step
<1>6. step[0] = {i}
      /\ \A k \in 1 .. N : step[k] = step[k - 1] \union UNION {out(d) : d \in open(step[k - 1])}
  <2> DEFINE same == [k \in 0 .. N |-> IF k = 0 THEN {i}
                        ELSE step[k - 1] \union UNION {out(d) : d \in open(step[k - 1])}]
  <2>1. same[0] = {i}
        /\ \A k \in 1 .. N : same[k] = step[k - 1] \union UNION {out(d) : d \in open(step[k - 1])}
    <3> HIDE DEF out, open, N
    <3> QED BY <1>1
  <2>2. step = same
    BY <1>4, Zenon
  <2> HIDE DEF same
  <2> QED BY <2>1, <2>2, Zenon
<1>7. \A k \in 1 .. N : step[k] = Grown(step[k - 1], shut)
  BY <1>6 DEF Grown, Out
<1> HIDE DEF N
<1>8. DOMAIN step = 0 .. N /\ step = [k \in DOMAIN step |-> step[k]]
  <2> HIDE DEF out, open
  <2> QED BY <1>4
<1>9. \A k \in 0 .. N : step[k] = g[k]
  <2> DEFINE S == {k \in 0 .. N : step[k] = g[k]}
  <2>1. 0 \in S
    <3>1. g[0] = {i} /\ step[0] = {i}
      BY <1>2, <1>6, Zenon DEF Reaches
    <3> QED BY <1>1, <3>1
  <2>2. ASSUME NEW k \in 0 .. N - 1, k \in S PROVE k + 1 \in S
    <3>1. k + 1 \in 1 .. N /\ k + 1 \in 0 .. N /\ (k + 1) - 1 = k
      BY <1>1
    <3>2. step[k + 1] = Grown(step[k], shut) /\ g[k + 1] = Grown(g[k], shut)
      BY <1>2, <1>7, <3>1 DEF Reaches
    <3> QED BY <2>2, <3>1, <3>2
  <2>3. 0 .. N \subseteq S
    <3> HIDE DEF S
    <3> QED BY <1>1, <2>1, <2>2, UpTo
  <2> QED BY <2>3
<1>10. N \in 0 .. N
  BY <1>1
<1> QED BY <1>2, <1>5, <1>9, <1>10 DEF N

(* A closed set with i in it has all that can be reached from i.             *)
LEMMA ReachIsLeast ==
    ASSUME tree \in TreeType, NEW i \in Inodes, NEW shut, NEW S, i \in S, Closed(S, shut)
    PROVE  ReachAround(i, shut) \subseteq S
<1> DEFINE N == Cardinality(Inodes)
<1>1. PICK g : Reaches(g, i, shut, N) /\ ReachAround(i, shut) = g[N]
  BY ReachIs
<1>2. N \in Nat
  BY DuAssumption, FS_CardinalityType
<1> HIDE DEF N
<1> DEFINE Q == {k \in 0 .. N : g[k] \subseteq S}
<1>3. 0 \in Q
  BY <1>1, <1>2 DEF Reaches
<1>4. ASSUME NEW k \in 0 .. N - 1, k \in Q PROVE k + 1 \in Q
  <2>1. k + 1 \in 1 .. N /\ k + 1 \in 0 .. N /\ (k + 1) - 1 = k
    BY <1>2
  <2>2. g[k + 1] = Grown(g[k], shut)
    BY <1>1, <2>1 DEF Reaches
  <2>3. ASSUME NEW d \in g[k] \ shut, tree.kind[d] = "dir" PROVE Out(d) \subseteq S
    BY <1>4, <2>3 DEF Closed, Out
  <2>4. Grown(g[k], shut) \subseteq S
    BY <1>4, <2>3 DEF Grown
  <2> QED BY <2>1, <2>2, <2>4
<1>5. N \in Q
  <2> HIDE DEF Q
  <2>1. 0 .. N \subseteq Q
    BY <1>2, <1>3, <1>4, UpTo
  <2> QED BY <1>2, <2>1
<1> QED BY <1>1, <1>5

(* The steps of ReachAround are enough: the set is closed.                   *)
LEMMA ReachIsClosed ==
    ASSUME tree \in TreeType, NEW i \in Inodes, NEW shut
    PROVE  /\ i \in ReachAround(i, shut) /\ ReachAround(i, shut) \subseteq Inodes
           /\ Closed(ReachAround(i, shut), shut)
<1> DEFINE N == Cardinality(Inodes)
<1>1. PICK g : Reaches(g, i, shut, N) /\ ReachAround(i, shut) = g[N]
  BY ReachIs
<1>2. N \in Nat
  BY DuAssumption, FS_CardinalityType
<1>3. ASSUME NEW k \in 0 .. N
      PROVE  /\ g[k] \subseteq Inodes /\ IsFiniteSet(g[k]) /\ Cardinality(g[k]) \in Nat
             /\ Cardinality(g[k]) <= N
  <2>1. g[k] \in SUBSET Inodes
    BY <1>1 DEF Reaches
  <2> QED BY <2>1, DuAssumption, FS_Subset, FS_CardinalityType
<1> HIDE DEF N
<1> DEFINE Q == {k \in 0 .. N : i \in g[k]}
           Stable(k) == Grown(g[k], shut) = g[k]
           S == {k \in 0 .. N : Stable(k) \/ Cardinality(g[k]) >= k + 1}
<1>4. ASSUME NEW k \in 0 .. N - 1
      PROVE  /\ k \in Nat /\ k \in 0 .. N /\ k + 1 \in 0 .. N
             /\ g[k + 1] = Grown(g[k], shut) /\ g[k] \subseteq g[k + 1]
  <2>1. k \in Nat /\ k \in 0 .. N /\ k + 1 \in 1 .. N /\ k + 1 \in 0 .. N /\ (k + 1) - 1 = k
    BY <1>2
  <2>2. g[k + 1] = Grown(g[k], shut)
    BY <1>1, <2>1 DEF Reaches
  <2>3. g[k] \subseteq g[k + 1]
    BY <2>2 DEF Grown
  <2> QED BY <2>1, <2>2, <2>3
<1>5. N \in Q
  <2>1. 0 \in Q
    BY <1>1, <1>2 DEF Reaches
  <2>2. ASSUME NEW k \in 0 .. N - 1, k \in Q PROVE k + 1 \in Q
    BY <1>4, <2>2
  <2> HIDE DEF Q
  <2>3. 0 .. N \subseteq Q
    BY <1>2, <2>1, <2>2, UpTo
  <2> QED BY <1>2, <2>3
<1>6. N \in S
  <2>1. 0 \in S
    <3>1. g[0] = {i} /\ Cardinality({i}) = 1
      BY <1>1, FS_Singleton DEF Reaches
    <3>2. Cardinality(g[0]) >= 0 + 1
      BY <3>1
    <3> HIDE DEF Stable
    <3> QED BY <1>2, <3>2
  <2>2. ASSUME NEW k \in 0 .. N - 1, k \in S PROVE k + 1 \in S
    <3>1. CASE Stable(k)
      <4>1. Stable(k + 1)
        BY <1>4, <3>1
      <4> HIDE DEF Stable
      <4> QED BY <1>4, <4>1
    <3>2. CASE ~Stable(k)
      <4>1. PICK x \in g[k + 1] : x \notin g[k]
        BY <1>4, <3>2
      <4>2. g[k] \union {x} \in SUBSET g[k + 1]
        BY <1>4, <4>1
      <4>3. Cardinality(g[k]) >= k + 1
        <5> HIDE DEF Stable
        <5> QED BY <2>2, <3>2
      <4>4. IsFiniteSet(g[k]) /\ Cardinality(g[k]) \in Nat /\ IsFiniteSet(g[k + 1])
            /\ Cardinality(g[k + 1]) \in Nat
        BY <1>3, <1>4
      <4>5. Cardinality(g[k] \union {x}) = Cardinality(g[k]) + 1
        BY <4>1, <4>4, FS_AddElement
      <4>6. Cardinality(g[k] \union {x}) <= Cardinality(g[k + 1])
        BY <4>2, <4>4, FS_Subset
      <4>7. Cardinality(g[k + 1]) >= (k + 1) + 1
        BY <1>4, <4>3, <4>4, <4>5, <4>6
      <4> HIDE DEF Stable
      <4> QED BY <1>4, <4>7
    <3> QED BY <3>1, <3>2
  <2>3. 0 .. N \subseteq S
    <3> HIDE DEF S
    <3> QED BY <1>2, <2>1, <2>2, UpTo
  <2> HIDE DEF S
  <2> QED BY <1>2, <2>3
<1>7. N \in 0 .. N /\ g[N] \subseteq Inodes /\ i \in g[N]
  <2>1. N \in 0 .. N
    BY <1>2
  <2> QED BY <1>3, <1>5, <2>1
<1>8. Grown(g[N], shut) = g[N]
  <2>1. Cardinality(g[N]) \in Nat /\ Cardinality(g[N]) <= N
    BY <1>3, <1>7
  <2>2. ~(Cardinality(g[N]) >= N + 1)
    BY <1>2, <2>1
  <2> QED BY <1>6, <2>2
<1>9. Closed(g[N], shut)
  <2> SUFFICES ASSUME NEW d \in g[N] \ shut, tree.kind[d] = "dir", NEW n \in Names
               PROVE  StatOrLstat(<<d, n>>) \in g[N] \union {None}
    BY DEF Closed
  <2>1. StatOrLstat(<<d, n>>) # None => StatOrLstat(<<d, n>>) \in Out(d)
    BY DEF Out
  <2>2. Out(d) \subseteq Grown(g[N], shut)
    BY DEF Grown
  <2> QED BY <1>8, <2>1, <2>2
<1> QED BY <1>1, <1>7, <1>9

(* What can be reached from what can be reached.                             *)
LEMMA ReachIsTransitive ==
    ASSUME tree \in TreeType, NEW i \in Inodes, NEW shut, NEW j \in ReachAround(i, shut)
    PROVE  ReachAround(j, shut) \subseteq ReachAround(i, shut)
BY ReachIsClosed, ReachIsLeast

-----------------------------------------------------------------------------
(* While nothing has been unlinked.                                          *)
Argument == StatOrLstat(option.arg)
Around(z) == ReachAround(Argument, tree.locked \union {z})

LEMMA SameReach ==
    ASSUME UNCHANGED <<tree, option>>
    PROVE  /\ Argument' = Argument /\ \A i : Reach(i)' = Reach(i)
           /\ \A i : Around(i)' = Around(i) /\ OnlyThrough(i)' = OnlyThrough(i)
<1>1. \A e : StatOrLstat(e)' = StatOrLstat(e)
  BY SameTargets
<1>2. Argument' = Argument
  BY DEF Argument, StatOrLstat, Stat, Lookup, IsLink
<1>3. \A i, s : ReachAround(i, s)' = ReachAround(i, s)
  BY DEF ReachAround, StatOrLstat, Lookup, Stat, IsLink
<1>4. tree'.locked = tree.locked
  OBVIOUS
<1>5. ASSUME NEW i PROVE Reach(i)' = Reach(i) /\ Around(i)' = Around(i)
  <2>1. Reach(i)' = Reach(i)
    BY DEF Reach, ReachAround, StatOrLstat, Lookup, Stat, IsLink
  <2>2. Around(i)' = Around(i)
    BY DEF Around, Argument, ReachAround, StatOrLstat, Lookup, Stat, IsLink
  <2> QED BY <2>1, <2>2
<1>6. ASSUME NEW i PROVE OnlyThrough(i)' = OnlyThrough(i)
  <2>1. Reach(i)' = Reach(i) /\ Around(i)' = Around(i)
    BY <1>5
  <2>2. \A j : OnlyThrough(j) = {j} \union (Reach(j) \ Around(j))
    BY DEF OnlyThrough, Around, Argument
  <2>3. \A j : OnlyThrough(j)' = {j} \union (Reach(j)' \ Around(j)')
    BY DEF OnlyThrough, Around, Argument
  <2> QED BY <2>1, <2>2, <2>3
<1> QED BY <1>2, <1>5, <1>6

(* The entry that is handled leads to the inode that is found.               *)
LEMMA IdIs ==
    ASSUME Types, FramesAreOpen, PathsAreKnown, NextIsKnown, unlinks = 0, stack # <<>>,
           stack[1].next # None, Id \in Inodes
    PROVE  StatOrLstat(<<stack[1].dir, stack[1].next>>) = Id /\ stack[1].next \in Names
<1>1. /\ stack[1].next \in Names /\ stack[1].dir \in Inodes /\ tree \in TreeType
      /\ 1 \in DOMAIN stack /\ Head(stack) = stack[1]
  BY TopIs DEF Types
<1>2. CASE option.dereference
  <2>1. PathHolds(stack)
    BY HoldsOrBare DEF Steady
  <2> QED BY <1>1, <1>2, <2>1 DEF Id, top, StatOrLstat
<1>3. CASE ~option.dereference
  <2>1. Id = stack[1].inode
    BY <1>1, <1>3 DEF Id, top
  <2>2. tree.names[stack[1].dir][stack[1].next] = Id
    BY <1>1, <2>1 DEF NextIsKnown
  <2> QED BY <1>1, <1>3, <2>2, EntryIsLookedUp DEF StatOrLstat
<1> QED BY <1>1, <1>2, <1>3

(* The directories with something below them on the stack can be opened, and *)
(* the bottom one is the argument.                                           *)
OpenAreUnlocked ==
    unlinks = 0 =>
      /\ \A k \in DOMAIN stack :
           k # 1 \/ stack[k].next # None \/ stack[k].left # {} => stack[k].dir \notin tree.locked
      /\ stack # <<>> => stack[Len(stack)].dir = Argument

LEMMA OpenedIsUnlocked ==
    ASSUME Types, NEW e \in Entries, NEW i \in Inodes, NEW it,
           AdvancedTo(it, Opened(e, i), TRUE)
    PROVE  it.dir = i /\ (it.next # None \/ it.left # {} => i \notin tree.locked)
<1>1. Opened(e, i).dir = i /\ (Opened(e, i).left # {} => i \notin tree.locked)
  BY DEF Opened
<1> QED BY <1>1 DEF AdvancedTo

LEMMA UnlockedKept ==
    ASSUME Types, FramesAreOpen, OpenAreUnlocked, [Next]_vars PROVE OpenAreUnlocked'
<1> SUFFICES ASSUME unlinks' = 0 PROVE OpenAreUnlocked'
  BY DEF OpenAreUnlocked
<1>1. ~Unlink
  BY DuAssumption DEF Unlink, Types
<1>2. unlinks = 0 /\ UNCHANGED <<tree, option>>
  BY <1>1 DEF Next, Process, ArgumentMissing, ArgumentIsFile, ArgumentIsDirectory,
              HandleFinishedDirectory, SkipEntry, EnterDirectory, CountFile, vars
<1>3. Argument' = Argument
  BY <1>2, SameReach
<1>4. CASE UNCHANGED vars
  BY <1>2, <1>3, <1>4 DEF OpenAreUnlocked, vars, walk
<1>5. CASE ArgumentMissing \/ ArgumentIsFile
  <2>1. stack' = <<>> /\ DOMAIN stack' = {}
    BY <1>5 DEF ArgumentMissing, ArgumentIsFile, Types
  <2> QED BY <2>1 DEF OpenAreUnlocked
<1>6. CASE ArgumentIsDirectory
  <2>1. PICK it, i : Begun(it, i)
    BY <1>6, BeginIs
  <2>2. it.dir = i /\ (it.next # None \/ it.left # {} => i \notin tree.locked)
    BY <2>1, OptionIs, OpenedIsUnlocked DEF Begun
  <2>3. DOMAIN stack' = {1} /\ stack'[1] = it /\ Len(stack') = 1 /\ i = Argument
    BY <2>1 DEF Begun, Argument
  <2> QED BY <1>2, <1>3, <2>2, <2>3 DEF OpenAreUnlocked
<1>7. CASE HandleFinishedDirectory
  <2>1. TopGone /\ Len(stack) \in Nat \ {0}
    BY <1>7, PoppedIs, TopIs DEF TopGone
  <2>2. ASSUME NEW k \in DOMAIN stack' PROVE stack'[k].dir \notin tree'.locked
    <3>1. k + 1 \in DOMAIN stack /\ k + 1 # 1 /\ stack'[k].dir = stack[k + 1].dir
      BY <2>1 DEF TopGone
    <3> QED BY <1>2, <3>1 DEF OpenAreUnlocked
  <2>3. stack' # <<>> => stack'[Len(stack')].dir = Argument'
    <3>1. stack' \in Seq(Frame) /\ DOMAIN stack' = 1 .. Len(stack) - 1
      BY <1>7, <2>1, FinishIs DEF TopGone
    <3>2. SUFFICES ASSUME stack' # <<>> PROVE stack'[Len(stack')].dir = Argument'
      OBVIOUS
    <3>3. Len(stack) # 1 /\ Len(stack') = Len(stack) - 1
      <4>1. Len(stack) # 1
        BY <2>1, <3>2 DEF TopGone
      <4>2. Len(stack') \in Nat /\ 1 .. Len(stack') = 1 .. Len(stack) - 1
        BY <3>1
      <4>3. \A m, n \in Nat : 1 .. m = 1 .. n => m = n
        <5> SUFFICES ASSUME NEW m \in Nat, NEW n \in Nat, 1 .. m = 1 .. n PROVE m = n
          OBVIOUS
        <5>1. m # 0 => m \in 1 .. n
          OBVIOUS
        <5>2. n # 0 => n \in 1 .. m
          OBVIOUS
        <5> QED BY <5>1, <5>2
      <4>4. Len(stack) - 1 \in Nat
        BY <2>1
      <4> QED BY <4>1, <4>2, <4>3, <4>4
    <3>4. Len(stack) - 1 \in DOMAIN stack' /\ (Len(stack) - 1) + 1 = Len(stack)
      BY <2>1, <3>1, <3>3
    <3>5. stack'[Len(stack')].dir = stack[Len(stack)].dir /\ stack # <<>>
      BY <2>1, <3>3, <3>4 DEF TopGone
    <3> QED BY <1>2, <1>3, <3>5 DEF OpenAreUnlocked
  <2> QED BY <2>2, <2>3 DEF OpenAreUnlocked
<1>8. CASE SkipEntry \/ CountFile
  <2>1. /\ stack # <<>> /\ stack[1].next # None /\ Len(stack) \in Nat \ {0}
        /\ DOMAIN stack = 1 .. Len(stack)
    <3>1. stack # <<>> /\ top.next # None
      BY <1>8 DEF SkipEntry, CountFile
    <3>2. Head(stack) = stack[1] /\ Len(stack) \in Nat \ {0}
      BY <3>1, TopIs
    <3>3. DOMAIN stack = 1 .. Len(stack)
      BY DEF Types
    <3> QED BY <3>1, <3>2, <3>3 DEF top
  <2>2. SameDirs /\ stack' \in Seq(Frame) /\ Len(stack') = Len(stack)
    <3>1. CASE SkipEntry
      BY <2>1, <3>1, SkipIs, ReplacedIs DEF Skips, Replaced
    <3>2. CASE CountFile
      <4>1. PICK it, counted : Counts(it, counted, Id)
        BY <3>2, CountIs
      <4>2. counted.dir = it.dir /\ counted.next = it.next /\ counted.left = it.left
        BY <4>1 DEF Counts, AdvancedTo, Frame
      <4> QED BY <2>1, <4>1, <4>2, ReplacedIs DEF Counts, Replaced
    <3> QED BY <1>8, <3>1, <3>2
  <2>3. \A k \in DOMAIN stack : stack[k].dir \notin tree.locked
    BY <1>2, <2>1 DEF OpenAreUnlocked
  <2>4. Len(stack) \in DOMAIN stack
    BY <2>1
  <2> QED BY <1>2, <1>3, <2>1, <2>2, <2>3, <2>4 DEF OpenAreUnlocked, SameDirs
<1>9. CASE EnterDirectory
  <2>1. PICK i, it, child : Enters(it, child, i)
    BY <1>9, EnterIs
  <2>2. NewDir(i) /\ stack # <<>> /\ stack[1].next # None /\ stack[1].next \in Names
        /\ Len(stack) \in Nat \ {0} /\ stack[1].dir \in Inodes
    BY <1>9, <2>1, PushedIs, TopIs DEF EnterDirectory, top
  <2>3. <<stack[1].dir, stack[1].next>> \in Entries
    BY <2>2, EntryIsLookedUp
  <2>4. child.dir = i /\ (child.next # None \/ child.left # {} => i \notin tree.locked)
        /\ stack'[1] = child
    <3>1. PICK e : e = <<stack[1].dir, stack[1].next>>
      OBVIOUS
    <3>2. AdvancedTo(child, Opened(e, i), TRUE) /\ i \in Inodes
      BY <2>1, <3>1 DEF Enters
    <3>3. Pushed(stack', stack, child, it)
      BY <2>1 DEF Enters
    <3>4. stack'[1] = child
      BY <3>3 DEF Pushed
    <3> QED BY <2>3, <3>1, <3>2, <3>4, OpenedIsUnlocked
  <2>5. \A k \in DOMAIN stack : stack[k].dir \notin tree.locked
    BY <1>2, <2>2 DEF OpenAreUnlocked
  <2>6. \A k \in DOMAIN stack' : k # 1 => stack'[k].dir \notin tree.locked
    BY <2>2, <2>5 DEF NewDir
  <2>7. Len(stack') = Len(stack) + 1 /\ Len(stack) \in DOMAIN stack
    BY <2>1, <2>2 DEF Enters, Pushed, Types
  <2>8. stack'[Len(stack')].dir = Argument
    BY <1>2, <2>2, <2>7 DEF NewDir, OpenAreUnlocked
  <2> QED BY <1>2, <1>3, <2>4, <2>6, <2>8 DEF OpenAreUnlocked
<1> QED BY <1>1, <1>4, <1>5, <1>6, <1>7, <1>8, <1>9 DEF Next, Process

(* What has been visited can be reached, and without looking into a          *)
(* directory that has not been.                                              *)
VisitedAreReached ==
    unlinks = 0 /\ visited # {} =>
      /\ Argument \in Inodes /\ visited \subseteq Reach(Argument)
      /\ \A z \in Inodes \ visited : visited \subseteq Around(z)

LEMMA VisitedKept ==
    ASSUME Types, FramesAreOpen, PathsAreKnown, NextIsKnown, OpenAreUnlocked,
           VisitedAreReached, [Next]_vars
    PROVE  VisitedAreReached'
<1> SUFFICES ASSUME unlinks' = 0, visited' # {} PROVE VisitedAreReached'
  BY DEF VisitedAreReached
<1>1. ~Unlink
  BY DuAssumption DEF Unlink, Types
<1>2. unlinks = 0 /\ UNCHANGED <<tree, option>>
  BY <1>1 DEF Next, Process, ArgumentMissing, ArgumentIsFile, ArgumentIsDirectory,
              HandleFinishedDirectory, SkipEntry, EnterDirectory, CountFile, vars
<1>3. Argument' = Argument /\ Reach(Argument)' = Reach(Argument)
      /\ \A z : Around(z)' = Around(z)
  <2>1. \A i : Reach(i)' = Reach(i)
    BY <1>2, SameReach
  <2>2. Argument' = Argument /\ \A z : Around(z)' = Around(z)
    BY <1>2, SameReach
  <2>3. PICK a : a = Argument
    OBVIOUS
  <2>4. Reach(Argument)' = Reach(a)'
    BY <2>2, <2>3 DEF Reach, ReachAround, StatOrLstat, Lookup, Stat, IsLink
  <2> QED BY <2>1, <2>2, <2>3, <2>4
<1>4. SUFFICES /\ Argument \in Inodes /\ visited' \subseteq Reach(Argument)
               /\ \A z \in Inodes \ visited' : visited' \subseteq Around(z)
  BY <1>3 DEF VisitedAreReached
<1>5. CASE UNCHANGED vars
  BY <1>2, <1>5 DEF VisitedAreReached, vars, walk
<1>6. CASE ArgumentMissing \/ HandleFinishedDirectory \/ SkipEntry
  BY <1>2, <1>6 DEF VisitedAreReached, ArgumentMissing, HandleFinishedDirectory, SkipEntry
<1>7. CASE ArgumentIsFile \/ ArgumentIsDirectory
  <2>1. visited' = {Argument} /\ Argument # None
    BY <1>7 DEF ArgumentIsFile, ArgumentIsDirectory, Argument
  <2>2. Argument \in Inodes /\ tree \in TreeType
    BY <2>1, OptionIs, TargetType DEF Argument, Types, Inode
  <2>3. Argument \in Reach(Argument) /\ \A z : Argument \in Around(z)
    BY <2>2, ReachIsClosed DEF Reach, Around
  <2> QED BY <2>1, <2>2, <2>3
<1>8. CASE EnterDirectory \/ CountFile
  <2>1. /\ stack # <<>> /\ stack[1].next # None /\ Id \in Inodes \ visited
        /\ visited' = visited \union {Id} /\ 1 \in DOMAIN stack /\ tree \in TreeType
    BY <1>8, TopIs DEF EnterDirectory, CountFile, New, top, Types
  <2>2. PICK d, n : d = stack[1].dir /\ n = stack[1].next
    OBVIOUS
  <2>3. n \in Names /\ StatOrLstat(<<d, n>>) = Id /\ Id # None
    BY <1>2, <2>1, <2>2, IdIs, DuAssumption
  <2>4. d \in visited /\ tree.kind[d] = "dir" /\ d \notin tree.locked
    BY <1>2, <2>1, <2>2 DEF FramesAreOpen, OpenAreUnlocked
  <2>5. Argument \in Inodes /\ visited \subseteq Reach(Argument)
        /\ \A z \in Inodes \ visited : visited \subseteq Around(z)
    BY <1>2, <2>4 DEF VisitedAreReached
  <2>6. \A s : d \in ReachAround(Argument, s) /\ d \notin s => Id \in ReachAround(Argument, s)
    BY <2>1, <2>3, <2>4, <2>5, ReachIsClosed DEF Closed
  <2>7. Id \in Reach(Argument)
    BY <2>4, <2>5, <2>6 DEF Reach
  <2>8. \A z \in Inodes \ visited' : Id \in Around(z)
    BY <2>1, <2>4, <2>5, <2>6 DEF Around
  <2> QED BY <2>1, <2>5, <2>7, <2>8
<1> QED BY <1>1, <1>5, <1>6, <1>7, <1>8 DEF Next, Process

-----------------------------------------------------------------------------
(* What is below each inode, and what the argument leads to beside it.       *)
Below == [i \in Inodes |-> Reach(i)]
Beside == [i \in Inodes |-> Around(i)]

LEMMA SameBelow ==
    ASSUME UNCHANGED <<tree, option>> PROVE Below' = Below /\ Beside' = Beside
<1>1. \A i \in Inodes : Reach(i)' = Reach(i) /\ Around(i)' = Around(i)
  BY SameReach
<1>2. Below' = [i \in Inodes |-> Reach(i)'] /\ Beside' = [i \in Inodes |-> Around(i)']
  BY DEF Below, Beside
<1> QED BY <1>1, <1>2 DEF Below, Beside

LEMMA BelowIs ==
    ASSUME Types, NEW d \in Inodes
    PROVE  /\ d \in Below[d] /\ Below[d] \subseteq Inodes /\ Closed(Below[d], tree.locked)
           /\ \A i \in Below[d] : Below[i] \subseteq Below[d]
<1>1. tree \in TreeType
  BY DEF Types
<1>2. Below[d] = ReachAround(d, tree.locked)
  BY DEF Below, Reach
<1>3. d \in Below[d] /\ Below[d] \subseteq Inodes /\ Closed(Below[d], tree.locked)
  BY <1>1, <1>2, ReachIsClosed
<1>4. ASSUME NEW i \in Below[d] PROVE Below[i] \subseteq Below[d]
  <2>1. i \in Inodes /\ i \in ReachAround(d, tree.locked)
    BY <1>2, <1>3
  <2>2. Below[i] = ReachAround(i, tree.locked)
    BY <2>1 DEF Below, Reach
  <2> QED BY <1>1, <1>2, <2>1, <2>2, ReachIsTransitive
<1> QED BY <1>3, <1>4

(* The sets of inodes whose sizes the totals on stack s are made of.         *)
Owned(own, s, k, below) ==
    s[k].total = SizeOf(own[k]) /\ own[k] \subseteq below[s[k].dir]
Apart(own, s, j, k, beside) ==
    /\ s[j].dir \notin own[k]
    /\ j # k => own[j] \intersect own[k] = {}
    /\ j > k => own[j] \union {s[j].dir} \subseteq beside[s[k].dir]
OwnsOf(own, s, v, below, beside) ==
    /\ own \in [DOMAIN s -> SUBSET v]
    /\ \A k \in DOMAIN s : Owned(own, s, k, below)
    /\ \A j, k \in DOMAIN s : Apart(own, s, j, k, beside)
    /\ s # <<>> => \A i \in v : \E k \in DOMAIN s : i \in own[k] \union {s[k].dir}

FilesAreOwned ==
    unlinks = 0 => \E own : OwnsOf(own, stack, visited, Below, Beside)

(* An entry of the top leads to what is below it.                            *)
LEMMA HandledIsBelow ==
    ASSUME Types, FramesAreOpen, PathsAreKnown, NextIsKnown, OpenAreUnlocked, unlinks = 0,
           stack # <<>>, stack[1].next # None, Id \in Inodes
    PROVE  Id \in Below[stack[1].dir]
<1>1. PICK d, n : d = stack[1].dir /\ n = stack[1].next
  OBVIOUS
<1>2. 1 \in DOMAIN stack /\ d \in Inodes
  BY <1>1, TopIs
<1>3. n \in Names /\ StatOrLstat(<<d, n>>) = Id /\ Id # None
  BY <1>1, IdIs, DuAssumption
<1>4. tree.kind[d] = "dir" /\ d \notin tree.locked
  BY <1>1, <1>2 DEF FramesAreOpen, OpenAreUnlocked
<1>5. d \in Below[d] /\ Closed(Below[d], tree.locked)
  BY <1>2, BelowIs
<1>6. Id \in Below[d]
  BY <1>3, <1>4, <1>5 DEF Closed
<1> QED BY <1>1, <1>6

(* A directory on the stack is below the one that is under it.               *)
LEMMA StackedIsBelow ==
    ASSUME Types, FramesAreOpen, PathsAreKnown, OpenAreUnlocked, unlinks = 0,
           2 \in DOMAIN stack
    PROVE  stack[1].dir \in Below[stack[2].dir]
<1>1. PICK d, i : d = stack[2].dir /\ i = stack[1].dir
  OBVIOUS
<1>2. 1 \in DOMAIN stack /\ d \in Inodes /\ i \in Inodes /\ 1 + 1 = 2
  BY <1>1, FrameIs
<1>3. PICK n \in Names : stack[1].entry = <<d, n>>
  BY <1>1, <1>2 DEF PathsAreKnown
<1>4. StatOrLstat(<<d, n>>) = i /\ i # None
  BY <1>1, <1>2, <1>3, DuAssumption DEF PathsAreKnown
<1>5. tree.kind[d] = "dir" /\ d \notin tree.locked
  BY <1>1, <1>2 DEF FramesAreOpen, OpenAreUnlocked
<1>6. d \in Below[d] /\ Closed(Below[d], tree.locked)
  BY <1>2, BelowIs
<1>7. i \in Below[d]
  BY <1>4, <1>5, <1>6 DEF Closed
<1> QED BY <1>1, <1>7

(* The top moves on, and nothing is counted.                                 *)
LEMMA OwnsSkipped ==
    ASSUME NEW s, NEW t, NEW own, NEW v, NEW below, NEW beside,
           OwnsOf(own, s, v, below, beside), s # <<>>, DOMAIN t = DOMAIN s,
           \A k \in DOMAIN s : t[k].dir = s[k].dir /\ t[k].total = s[k].total
    PROVE  OwnsOf(own, t, v, below, beside)
BY DEF OwnsOf, Owned, Apart

(* A file is counted for the top.                                            *)
LEMMA OwnsCounted ==
    ASSUME NEW s, NEW t, NEW own, NEW v \in SUBSET Inodes, NEW below, NEW beside,
           NEW i \in Inodes \ v,
           OwnsOf(own, s, v, below, beside), s # <<>>, DOMAIN t = DOMAIN s,
           DOMAIN s \subseteq Nat \ {0}, 1 \in DOMAIN s,
           \A k \in DOMAIN s : s[k].dir \in v /\ t[k].dir = s[k].dir,
           \A k \in DOMAIN s : k # 1 => t[k].total = s[k].total,
           t[1].total = s[1].total + Size(i),
           i \in below[s[1].dir]
    PROVE  \E new : OwnsOf(new, t, v \union {i}, below, beside)
<1> DEFINE new == [own EXCEPT ![1] = @ \union {i}]
<1>1. /\ own \in [DOMAIN s -> SUBSET v]
      /\ \A k \in DOMAIN s : Owned(own, s, k, below)
      /\ \A j, k \in DOMAIN s : Apart(own, s, j, k, beside)
      /\ \A j \in v : \E k \in DOMAIN s : j \in own[k] \union {s[k].dir}
  BY DEF OwnsOf
<1>2. /\ new \in [DOMAIN s -> SUBSET (v \union {i})]
      /\ new[1] = own[1] \union {i} /\ \A k \in DOMAIN s : k # 1 => new[k] = own[k]
  BY <1>1
<1>3. own[1] \in SUBSET Inodes /\ i \notin own[1]
  BY <1>1
<1>4. SizeOf(own[1] \union {i}) = SizeOf(own[1]) + Size(i)
  BY <1>3, SizeWith
<1> HIDE DEF new
<1>5. ASSUME NEW k \in DOMAIN s PROVE Owned(new, t, k, below)
  <2>1. Owned(own, s, k, below)
    BY <1>1
  <2>2. CASE k = 1
    BY <1>2, <1>4, <2>1, <2>2 DEF Owned
  <2>3. CASE k # 1
    BY <1>2, <2>1, <2>3 DEF Owned
  <2> QED BY <2>2, <2>3
<1>6. ASSUME NEW j \in DOMAIN s, NEW k \in DOMAIN s PROVE Apart(new, t, j, k, beside)
  <2>1. Apart(own, s, j, k, beside)
    BY <1>1
  <2>2. \A m \in DOMAIN s : i \notin own[m] /\ s[m].dir # i
                            /\ new[m] \subseteq own[m] \union {i}
                            /\ (m # 1 => new[m] = own[m])
    BY <1>1, <1>2
  <2>3. j > k => j # 1
    OBVIOUS
  <2>4. j # k => j # 1 \/ k # 1
    OBVIOUS
  <2>5. t[j].dir \notin new[k]
    BY <2>1, <2>2 DEF Apart
  <2>6. j # k => new[j] \intersect new[k] = {}
    BY <2>1, <2>2, <2>4 DEF Apart
  <2>7. j > k => new[j] \union {t[j].dir} \subseteq beside[t[k].dir]
    BY <2>1, <2>2, <2>3 DEF Apart
  <2> QED BY <2>5, <2>6, <2>7 DEF Apart
<1>7. \A j \in v \union {i} : \E k \in DOMAIN s : j \in new[k] \union {t[k].dir}
  <2>1. i \in new[1] /\ \A k \in DOMAIN s : own[k] \subseteq new[k]
    BY <1>2
  <2> QED BY <1>1, <2>1
<1> QED BY <1>2, <1>5, <1>6, <1>7 DEF OwnsOf

(* A directory is opened on the others.                                      *)
OpensOn(s, t, v, i, n, beside) ==
    /\ v \in SUBSET Inodes /\ i \in Inodes \ v /\ n \in Nat /\ n # 0 /\ s # <<>>
    /\ DOMAIN s = 1 .. n /\ DOMAIN t = 1 .. n + 1
    /\ \A k \in DOMAIN s : /\ s[k].dir \in v /\ t[k + 1].dir = s[k].dir
                           /\ t[k + 1].total = s[k].total
    /\ t[1].dir = i /\ t[1].total = 0 /\ v \subseteq beside[i]

LEMMA OwnsEntered ==
    ASSUME NEW s, NEW t, NEW own, NEW v, NEW below, NEW beside, NEW i, NEW n,
           OwnsOf(own, s, v, below, beside), OpensOn(s, t, v, i, n, beside)
    PROVE  \E new : OwnsOf(new, t, v \union {i}, below, beside)
<1> USE DEF OpensOn
<1> DEFINE new == [k \in 1 .. n + 1 |-> IF k = 1 THEN {} ELSE own[k - 1]]
<1>1. /\ own \in [DOMAIN s -> SUBSET v]
      /\ \A k \in DOMAIN s : Owned(own, s, k, below)
      /\ \A j, k \in DOMAIN s : Apart(own, s, j, k, beside)
      /\ \A j \in v : \E k \in DOMAIN s : j \in own[k] \union {s[k].dir}
  BY DEF OwnsOf
<1>2. /\ 1 \in DOMAIN t /\ \A k \in DOMAIN s : k + 1 \in DOMAIN t /\ (k + 1) - 1 = k
                                               /\ k + 1 # 1
      /\ \A k \in DOMAIN t : k = 1 \/ \E m \in DOMAIN s : k = m + 1
      /\ \A j, k \in DOMAIN s : (j + 1 > k + 1 <=> j > k) /\ (j + 1 # k + 1 <=> j # k)
      /\ \A k \in DOMAIN s : ~(1 > k + 1)
      /\ ~(1 > 1)
  <2>1. \A k \in 1 .. n + 1 : k = 1 \/ (k - 1 \in 1 .. n /\ k = (k - 1) + 1)
    OBVIOUS
  <2>2. 1 \in 1 .. n + 1 /\ \A k \in 1 .. n : k + 1 \in 1 .. n + 1 /\ (k + 1) - 1 = k
                                             /\ k + 1 # 1 /\ ~(1 > k + 1)
    OBVIOUS
  <2>3. \A j, k \in 1 .. n : (j + 1 > k + 1 <=> j > k) /\ (j + 1 # k + 1 <=> j # k)
    OBVIOUS
  <2>4. \A k \in DOMAIN t : k = 1 \/ \E m \in DOMAIN s : k = m + 1
    BY <2>1
  <2> QED BY <2>2, <2>3, <2>4
<1>3. new[1] = {} /\ \A k \in DOMAIN s : new[k + 1] = own[k]
  BY <1>2
<1>4. new \in [DOMAIN t -> SUBSET (v \union {i})]
  <2>1. \A k \in DOMAIN t : new[k] \in SUBSET (v \union {i})
    <3> SUFFICES ASSUME NEW k \in DOMAIN t PROVE new[k] \in SUBSET (v \union {i})
      OBVIOUS
    <3> HIDE DEF new
    <3>1. CASE k = 1
      BY <1>3, <3>1
    <3>2. ASSUME NEW m \in DOMAIN s, k = m + 1 PROVE new[k] \in SUBSET (v \union {i})
      BY <1>1, <1>3, <3>2
    <3> QED BY <1>2, <3>1, <3>2
  <2> QED BY <2>1
<1> HIDE DEF new
<1>5. ASSUME NEW k \in DOMAIN t PROVE Owned(new, t, k, below)
  <2>1. CASE k = 1
    BY <1>3, <2>1, SizeByOne DEF Owned
  <2>2. ASSUME NEW m \in DOMAIN s, k = m + 1 PROVE Owned(new, t, k, below)
    <3>1. Owned(own, s, m, below)
      BY <1>1
    <3> QED BY <1>3, <2>2, <3>1 DEF Owned
  <2> QED BY <1>2, <2>1, <2>2
<1>6. ASSUME NEW j \in DOMAIN t, NEW k \in DOMAIN t PROVE Apart(new, t, j, k, beside)
  <2>1. CASE k = 1
    <3>1. CASE j = 1
      BY <1>2, <1>3, <2>1, <3>1 DEF Apart
    <3>2. ASSUME NEW m \in DOMAIN s, j = m + 1 PROVE Apart(new, t, j, k, beside)
      <4>1. own[m] \subseteq v /\ t[j].dir \in v /\ new[j] = own[m] /\ new[k] = {}
            /\ t[k].dir = i
        BY <1>1, <1>3, <2>1, <3>2
      <4> QED BY <4>1 DEF Apart
    <3> QED BY <1>2, <3>1, <3>2
  <2>2. ASSUME NEW l \in DOMAIN s, k = l + 1 PROVE Apart(new, t, j, k, beside)
    <3>1. new[k] = own[l] /\ own[l] \subseteq v /\ t[k].dir = s[l].dir
      BY <1>1, <1>3, <2>2
    <3>2. CASE j = 1
      BY <1>2, <1>3, <2>2, <3>1, <3>2 DEF Apart
    <3>3. ASSUME NEW m \in DOMAIN s, j = m + 1 PROVE Apart(new, t, j, k, beside)
      <4>1. Apart(own, s, m, l, beside) /\ new[j] = own[m] /\ t[j].dir = s[m].dir
        BY <1>1, <1>3, <3>3
      <4>2. (j > k <=> m > l) /\ (j # k <=> m # l)
        BY <1>2, <2>2, <3>3
      <4> QED BY <3>1, <4>1, <4>2 DEF Apart
    <3> QED BY <1>2, <3>2, <3>3
  <2> QED BY <1>2, <2>1, <2>2
<1>7. \A j \in v \union {i} : \E k \in DOMAIN t : j \in new[k] \union {t[k].dir}
  <2>1. ASSUME NEW j \in v PROVE \E k \in DOMAIN t : j \in new[k] \union {t[k].dir}
    <3>1. PICK m \in DOMAIN s : j \in own[m] \union {s[m].dir}
      BY <1>1
    <3>2. m + 1 \in DOMAIN t /\ j \in new[m + 1] \union {t[m + 1].dir}
      BY <1>2, <1>3, <3>1
    <3> QED BY <3>2
  <2> QED BY <1>2, <2>1
<1> QED BY <1>4, <1>5, <1>6, <1>7 DEF OwnsOf

(* The top is done, and what it counted goes to the directory under it.      *)
LEMMA OwnsFinished ==
    ASSUME NEW s, NEW t, NEW own, NEW v \in SUBSET Inodes, NEW below, NEW beside,
           NEW n \in Nat, n >= 2,
           OwnsOf(own, s, v, below, beside), s # <<>>,
           DOMAIN s = 1 .. n, DOMAIN t = 1 .. n - 1,
           \A k \in DOMAIN s : s[k].dir \in v,
           \A j, k \in DOMAIN s : s[j].dir = s[k].dir => j = k,
           \A k \in DOMAIN t : t[k].dir = s[k + 1].dir,
           \A k \in DOMAIN t : k # 1 => t[k].total = s[k + 1].total,
           t[1].total = s[2].total + (s[1].total + Size(s[1].dir)),
           below[s[1].dir] \subseteq below[s[2].dir], s[1].dir \in below[s[2].dir]
    PROVE  \E new : OwnsOf(new, t, v, below, beside)
<1> DEFINE done == own[1] \union {s[1].dir}
           new == [k \in 1 .. n - 1 |-> IF k = 1 THEN own[2] \union done ELSE own[k + 1]]
<1>1. /\ own \in [DOMAIN s -> SUBSET v]
      /\ \A k \in DOMAIN s : Owned(own, s, k, below)
      /\ \A j, k \in DOMAIN s : Apart(own, s, j, k, beside)
      /\ \A j \in v : \E k \in DOMAIN s : j \in own[k] \union {s[k].dir}
  BY DEF OwnsOf
<1>2. /\ 1 \in DOMAIN t /\ 1 \in DOMAIN s /\ 2 \in DOMAIN s /\ 1 + 1 = 2
      /\ \A k \in DOMAIN t : k + 1 \in DOMAIN s /\ k + 1 # 1 /\ (k # 1 => k + 1 # 2)
      /\ \A k \in DOMAIN s : k = 1 \/ \E m \in DOMAIN t : k = m + 1
      /\ \A j, k \in DOMAIN t : (j + 1 > k + 1 <=> j > k) /\ (j + 1 # k + 1 <=> j # k)
      /\ \A j, k \in DOMAIN t : j > k => j # 1
  <2>1. \A k \in 1 .. n : k = 1 \/ (k - 1 \in 1 .. n - 1 /\ k = (k - 1) + 1)
    OBVIOUS
  <2>2. 1 \in 1 .. n - 1 /\ 1 \in 1 .. n /\ 2 \in 1 .. n /\ 1 + 1 = 2
    OBVIOUS
  <2>3. \A k \in 1 .. n - 1 : k + 1 \in 1 .. n /\ k + 1 # 1 /\ (k # 1 => k + 1 # 2)
    OBVIOUS
  <2>4. \A j, k \in 1 .. n - 1 : /\ (j + 1 > k + 1 <=> j > k) /\ (j + 1 # k + 1 <=> j # k)
                                 /\ j > k => j # 1
    OBVIOUS
  <2>5. \A k \in DOMAIN s : k = 1 \/ \E m \in DOMAIN t : k = m + 1
    BY <2>1
  <2> QED BY <2>2, <2>3, <2>4, <2>5
<1>3. new[1] = own[2] \union done /\ \A k \in DOMAIN t : k # 1 => new[k] = own[k + 1]
  BY <1>2
<1>4. new \in [DOMAIN t -> SUBSET v]
  <2>1. \A k \in DOMAIN t : new[k] \in SUBSET v
    <3>1. own[1] \subseteq v /\ own[2] \subseteq v /\ s[1].dir \in v
          /\ \A k \in DOMAIN t : own[k + 1] \subseteq v
      BY <1>1, <1>2
    <3> HIDE DEF new
    <3> QED BY <1>3, <3>1
  <2> QED BY <2>1
<1>5. /\ own[1] \in SUBSET Inodes /\ own[2] \in SUBSET Inodes /\ s[1].dir \in Inodes
      /\ s[1].dir \notin own[1] /\ own[2] \intersect done = {} /\ done \in SUBSET Inodes
  BY <1>1, <1>2 DEF Apart
<1>6. SizeOf(done) = SizeOf(own[1]) + Size(s[1].dir)
  BY <1>5, SizeWith
<1>7. SizeOf(own[2] \union done) = SizeOf(own[2]) + SizeOf(done)
  <2> HIDE DEF done
  <2> QED BY <1>5, SizeOfBoth
<1>8. done \subseteq below[s[2].dir]
  BY <1>1, <1>2 DEF Owned
<1>9. \A k \in DOMAIN s : k # 1 => s[k].dir \notin done
  BY <1>1, <1>2 DEF Apart
<1>10. \A k \in DOMAIN s : k # 1 => own[k] \intersect done = {}
  BY <1>1, <1>2 DEF Apart
<1>11. v \subseteq UNION {own[k] \union {s[k].dir} : k \in DOMAIN s}
  BY <1>1
<1> HIDE DEF new
<1>12. ASSUME NEW k \in DOMAIN t PROVE Owned(new, t, k, below)
  <2>1. CASE k = 1
    <3>1. s[1].total = SizeOf(own[1]) /\ s[2].total = SizeOf(own[2])
          /\ own[2] \subseteq below[s[2].dir]
      BY <1>1, <1>2 DEF Owned
    <3>2. t[1].total = SizeOf(new[1])
      BY <1>3, <1>6, <1>7, <3>1
    <3>3. new[1] \subseteq below[t[1].dir]
      BY <1>2, <1>3, <1>8, <3>1
    <3> QED BY <2>1, <3>2, <3>3 DEF Owned
  <2>2. CASE k # 1
    <3>1. Owned(own, s, k + 1, below)
      BY <1>1, <1>2
    <3> QED BY <1>3, <2>2, <3>1 DEF Owned
  <2> QED BY <2>1, <2>2
<1>13. ASSUME NEW j \in DOMAIN t, NEW k \in DOMAIN t PROVE Apart(new, t, j, k, beside)
  <2>1. Apart(own, s, j + 1, k + 1, beside)
    BY <1>1, <1>2
  <2>2. (j > k => j + 1 > k + 1) /\ (j # k => j + 1 # k + 1) /\ (j > k => j # 1)
    BY <1>2
  <2>3. \A m \in DOMAIN t : /\ new[m] \subseteq own[m + 1] \union done
                            /\ m # 1 => new[m] = own[m + 1]
                            /\ own[m + 1] \intersect done = {}
                            /\ s[m + 1].dir \notin done /\ t[m].dir = s[m + 1].dir
    <3>1. \A m \in DOMAIN t : m + 1 \in DOMAIN s /\ m + 1 # 1
      BY <1>2
    <3> HIDE DEF done
    <3> QED BY <1>2, <1>3, <1>9, <1>10, <3>1
  <2> HIDE DEF done
  <2>4. t[j].dir \notin new[k]
    BY <2>1, <2>3 DEF Apart
  <2>5. j # k => new[j] \intersect new[k] = {}
    <3>1. j # k => j # 1 \/ k # 1
      OBVIOUS
    <3> QED BY <2>1, <2>2, <2>3, <3>1 DEF Apart
  <2>6. j > k => new[j] \union {t[j].dir} \subseteq beside[t[k].dir]
    BY <2>1, <2>2, <2>3 DEF Apart
  <2> QED BY <2>4, <2>5, <2>6 DEF Apart
<1>14. \A j \in v : \E k \in DOMAIN t : j \in new[k] \union {t[k].dir}
  <2> SUFFICES ASSUME NEW j \in v PROVE \E k \in DOMAIN t : j \in new[k] \union {t[k].dir}
    OBVIOUS
  <2>1. PICK k \in DOMAIN s : j \in own[k] \union {s[k].dir}
    BY <1>1
  <2>2. CASE k = 1
    BY <1>2, <1>3, <2>1, <2>2
  <2>3. ASSUME NEW m \in DOMAIN t, k = m + 1 PROVE j \in new[m] \union {t[m].dir}
    <3>1. own[m + 1] \subseteq new[m]
      BY <1>2, <1>3
    <3> QED BY <2>1, <2>3, <3>1
  <2> QED BY <1>2, <2>2, <2>3
<1> QED BY <1>4, <1>12, <1>13, <1>14 DEF OwnsOf

(* Nothing is unlinked in a step that leaves nothing unlinked.               *)
LEMMA SameTree ==
    ASSUME Types, [Next]_vars, unlinks' = 0
    PROVE  ~Unlink /\ unlinks = 0 /\ UNCHANGED <<tree, option>> /\ Argument' = Argument
<1>1. ~Unlink
  BY DuAssumption DEF Unlink, Types
<1>2. unlinks = 0 /\ UNCHANGED <<tree, option>>
  BY <1>1 DEF Next, Process, ArgumentMissing, ArgumentIsFile, ArgumentIsDirectory,
              HandleFinishedDirectory, SkipEntry, EnterDirectory, CountFile, vars
<1> QED BY <1>1, <1>2, SameReach

(* What the top adds to the directory under it, or prints.                   *)
LEMMA FinishAdds ==
    ASSUME Types, FramesAreOpen, PathsAreKnown, unlinks = 0, HandleFinishedDirectory
    PROVE  /\ TotalOf(stack[1], PathHolds(stack)) = stack[1].total + Size(stack[1].dir)
           /\ Len(stack) # 1 =>
                /\ stack'[1].total = stack[2].total + (stack[1].total + Size(stack[1].dir))
                /\ \A k \in DOMAIN stack' : k # 1 => stack'[k].total = stack[k + 1].total
<1>1. stack # <<>> /\ stack \in Seq(Frame) /\ Len(stack) \in Nat \ {0}
  BY TopIs DEF HandleFinishedDirectory, Types
<1>2. PathHolds(stack)
  BY <1>1, HoldsOrBare DEF Steady
<1>3. PICK total : total = stack[1].total + Size(stack[1].dir)
  OBVIOUS
<1>4. TotalOf(stack[1], PathHolds(stack)) = total
  BY <1>2, <1>3 DEF TotalOf
<1>5. ASSUME Len(stack) # 1
      PROVE  /\ stack'[1].total = stack[2].total + total
             /\ \A k \in DOMAIN stack' : k # 1 => stack'[k].total = stack[k + 1].total
  <2>1. Popped(stack', stack, total)
    BY <1>4, <1>5, FinishIs
  <2>2. 2 \in 1 .. Len(stack) /\ DOMAIN stack = 1 .. Len(stack)
    <3>1. \A n \in Nat \ {0} : n # 1 => 2 \in 1 .. n
      OBVIOUS
    <3>2. 2 \in 1 .. Len(stack)
      BY <1>1, <1>5, <3>1, Zenon
    <3> QED BY <1>1, <3>2
  <2>3. stack[2] \in Frame /\ stack'[1] = [stack[2] EXCEPT !.total = @ + total]
    BY <1>1, <2>1, <2>2 DEF Popped
  <2>4. stack'[1].total = stack[2].total + total
    BY <2>3 DEF Frame
  <2>5. DOMAIN stack' = 1 .. Len(stack) - 1
    BY PoppedIs DEF TopGone
  <2>6. \A k \in 1 .. Len(stack) - 1 : k # 1 => k \in 2 .. Len(stack) - 1
    BY <1>1
  <2> QED BY <2>1, <2>4, <2>5, <2>6 DEF Popped
<1> QED BY <1>3, <1>4, <1>5

(* The frames an entry is pending in.                                        *)
LEMMA DirsAreVisited ==
    ASSUME Types, FramesAreOpen, stack # <<>>
    PROVE  /\ \A k \in DOMAIN stack : stack[k].dir \in visited
           /\ visited # {} /\ visited \in SUBSET Inodes
           /\ Len(stack) \in Nat \ {0} /\ DOMAIN stack = 1 .. Len(stack)
           /\ 1 \in DOMAIN stack /\ DOMAIN stack \subseteq Nat \ {0}
<1>1. Len(stack) \in Nat \ {0} /\ DOMAIN stack = 1 .. Len(stack) /\ 1 \in DOMAIN stack
  BY TopIs DEF Types
<1>2. DOMAIN stack \subseteq Nat \ {0}
  BY <1>1
<1> QED BY <1>1, <1>2 DEF Types, FramesAreOpen

(* The totals on the stack are made of what was counted in each directory.   *)
LEMMA OwnsKept ==
    ASSUME Types, FramesAreOpen, PathsAreKnown, NextIsKnown, OpenAreUnlocked,
           VisitedAreReached, FilesAreOwned, [Next]_vars
    PROVE  FilesAreOwned'
<1> SUFFICES ASSUME unlinks' = 0
             PROVE  \E own : OwnsOf(own, stack', visited', Below', Beside')
  BY DEF FilesAreOwned
<1>1. ~Unlink /\ unlinks = 0 /\ UNCHANGED <<tree, option>>
  BY SameTree
<1>2. Below' = Below /\ Beside' = Beside
  BY <1>1, SameBelow
<1>3. PICK own : OwnsOf(own, stack, visited, Below, Beside)
  BY <1>1 DEF FilesAreOwned
<1>4. SUFFICES \E new : OwnsOf(new, stack', visited', Below, Beside)
  BY <1>2
<1>5. CASE stack' = <<>>
  <2>1. PICK new : new = [k \in {} |-> {}]
    OBVIOUS
  <2>2. DOMAIN stack' = {} /\ new \in [{} -> SUBSET visited']
    BY <1>5, <2>1
  <2>3. OwnsOf(new, stack', visited', Below, Beside)
    BY <1>5, <2>2 DEF OwnsOf
  <2> QED BY <2>3
<1>6. CASE UNCHANGED vars
  BY <1>3, <1>6 DEF vars, walk
<1>7. CASE ArgumentMissing \/ ArgumentIsFile
  BY <1>5, <1>7 DEF ArgumentMissing, ArgumentIsFile, Types
<1>8. CASE ArgumentIsDirectory
  <2>1. PICK it, i : Begun(it, i)
    BY <1>8, BeginIs
  <2>2. it.dir = i /\ it.total = 0 /\ i \in Inodes
    <3>1. i \in Inodes /\ AdvancedTo(it, Opened(option.arg, i), TRUE)
      BY <2>1 DEF Begun
    <3>2. Opened(option.arg, i).dir = i /\ Opened(option.arg, i).total = 0
      BY DEF Opened
    <3> QED BY <3>1, <3>2 DEF AdvancedTo
  <2>3. DOMAIN stack' = {1} /\ stack'[1] = it /\ visited' = {i}
    BY <2>1 DEF Begun
  <2>4. PICK new : new = [k \in {1} |-> {}]
    OBVIOUS
  <2>5. new \in [{1} -> SUBSET visited'] /\ new[1] = {}
    BY <2>4
  <2>6. Owned(new, stack', 1, Below)
    BY <2>2, <2>3, <2>5, SizeByOne DEF Owned
  <2>7. Apart(new, stack', 1, 1, Beside)
    BY <2>5 DEF Apart
  <2>8. OwnsOf(new, stack', visited', Below, Beside)
    BY <2>2, <2>3, <2>5, <2>6, <2>7 DEF OwnsOf
  <2> QED BY <2>8
<1>9. CASE HandleFinishedDirectory
  <2>1. stack # <<>> /\ visited' = visited /\ TopGone
    BY <1>9, PoppedIs DEF HandleFinishedDirectory
  <2>2. CASE Len(stack) = 1
    BY <1>5, <2>1, <2>2 DEF TopGone
  <2>3. CASE Len(stack) # 1
    <3>1. PICK n \in Nat : n = Len(stack) /\ n >= 2 /\ 2 \in 1 .. n
      <4>1. \A n \in Nat \ {0} : n # 1 => n >= 2 /\ 2 \in 1 .. n
        OBVIOUS
      <4> QED BY <2>1, <2>3, <4>1, DirsAreVisited
    <3>2. DOMAIN stack = 1 .. n /\ 2 \in DOMAIN stack /\ visited \in SUBSET Inodes
          /\ (\A k \in DOMAIN stack : stack[k].dir \in visited)
          /\ DOMAIN stack' = 1 .. n - 1
          /\ (\A k \in DOMAIN stack' : stack'[k].dir = stack[k + 1].dir)
      BY <2>1, <3>1, DirsAreVisited DEF TopGone
    <3>3. \A j, k \in DOMAIN stack : stack[j].dir = stack[k].dir => j = k
      BY DEF FramesAreOpen
    <3>4. /\ stack'[1].total = stack[2].total + (stack[1].total + Size(stack[1].dir))
          /\ \A k \in DOMAIN stack' : k # 1 => stack'[k].total = stack[k + 1].total
      BY <1>1, <1>9, <2>3, FinishAdds
    <3>5. stack[1].dir \in Below[stack[2].dir]
      BY <1>1, <3>2, StackedIsBelow
    <3>6. Below[stack[1].dir] \subseteq Below[stack[2].dir]
      <4>1. stack[2].dir \in Inodes
        BY <3>2
      <4> QED BY <3>5, <4>1, BelowIs
    <3> QED BY <1>3, <2>1, <3>1, <3>2, <3>3, <3>4, <3>5, <3>6, OwnsFinished
  <2> QED BY <2>2, <2>3
<1>10. CASE SkipEntry
  <2>1. stack # <<>> /\ visited' = visited
    BY <1>10 DEF SkipEntry
  <2>2. PICK it : Skips(it)
    BY <1>10, SkipIs
  <2>3. SameDirs
    BY <2>1, <2>2, ReplacedIs DEF Skips
  <2>4. it.total = stack[1].total /\ stack'[1] = it
        /\ \A k \in 2 .. Len(stack) : stack'[k] = stack[k]
    BY <2>2 DEF Skips, AdvancedTo, Replaced
  <2>5. \A k \in DOMAIN stack : k = 1 \/ k \in 2 .. Len(stack)
    BY <2>1, DirsAreVisited
  <2>6. \A k \in DOMAIN stack : stack'[k].total = stack[k].total
    BY <2>4, <2>5
  <2>7. OwnsOf(own, stack', visited, Below, Beside)
    BY <1>3, <2>1, <2>3, <2>6, OwnsSkipped DEF SameDirs
  <2> QED BY <2>1, <2>7
<1>11. CASE CountFile
  <2>1. stack # <<>> /\ stack[1].next # None /\ Id \in Inodes \ visited
        /\ visited' = visited \union {Id}
    BY <1>11, TopIs DEF CountFile, New, top
  <2>2. PICK it, counted : Counts(it, counted, Id)
    BY <1>11, CountIs
  <2>3. /\ counted.dir = it.dir /\ counted.next = it.next /\ counted.left = it.left
        /\ counted.total = stack[1].total + Size(Id)
    <3>1. it \in Frame /\ it.total = stack[1].total
      BY <2>2 DEF Counts, AdvancedTo
    <3>2. counted = [it EXCEPT !.total = @ + Size(Id)]
      BY <2>2 DEF Counts
    <3> QED BY <3>1, <3>2 DEF Frame
  <2>4. SameDirs
    BY <2>1, <2>2, <2>3, ReplacedIs DEF Counts
  <2>5. stack'[1] = counted /\ \A k \in 2 .. Len(stack) : stack'[k] = stack[k]
    BY <2>2 DEF Counts, Replaced
  <2>6. \A k \in DOMAIN stack : k = 1 \/ k \in 2 .. Len(stack)
    BY <2>1, DirsAreVisited
  <2>7. \A k \in DOMAIN stack : k # 1 => stack'[k].total = stack[k].total
    BY <2>5, <2>6
  <2>8. stack'[1].total = stack[1].total + Size(Id)
    BY <2>3, <2>5
  <2>9. Id \in Below[stack[1].dir]
    BY <1>1, <2>1, HandledIsBelow
  <2>10. /\ DOMAIN stack' = DOMAIN stack /\ 1 \in DOMAIN stack
         /\ DOMAIN stack \subseteq Nat \ {0} /\ visited \in SUBSET Inodes
         /\ \A k \in DOMAIN stack : stack[k].dir \in visited /\ stack'[k].dir = stack[k].dir
    BY <2>1, <2>4, DirsAreVisited DEF SameDirs
  <2>11. PICK i \in Inodes \ visited : i = Id
    BY <2>1
  <2>12. \E new : OwnsOf(new, stack', visited \union {i}, Below, Beside)
    BY <1>3, <2>1, <2>7, <2>8, <2>9, <2>10, <2>11, OwnsCounted
  <2> QED BY <2>1, <2>11, <2>12
<1>12. CASE EnterDirectory
  <2>1. PICK it, child : Enters(it, child, Id)
    BY <1>12, EnterIs
  <2>2. PICK i : i = Id
    OBVIOUS
  <2>3. stack # <<>> /\ NewDir(i)
    BY <1>12, <2>1, <2>2, PushedIs DEF EnterDirectory
  <2>4. it.total = stack[1].total
    BY <2>1 DEF Enters, AdvancedTo
  <2>5. child.total = 0
    <3>1. PICK e : e = <<stack[1].dir, stack[1].next>>
      OBVIOUS
    <3>2. AdvancedTo(child, Opened(e, i), TRUE)
      BY <2>1, <2>2, <3>1 DEF Enters
    <3>3. Opened(e, i).total = 0
      BY DEF Opened
    <3> QED BY <3>2, <3>3 DEF AdvancedTo
  <2>6. stack'[1] = child /\ stack'[2] = it
        /\ \A k \in 3 .. Len(stack) + 1 : stack'[k] = stack[k - 1]
    BY <2>1 DEF Enters, Pushed
  <2>7. PICK n \in Nat : n = Len(stack) /\ n # 0
    BY <2>3, DirsAreVisited
  <2>8. DOMAIN stack = 1 .. n /\ DOMAIN stack' = 1 .. n + 1 /\ visited \in SUBSET Inodes
        /\ i \in Inodes \ visited /\ visited' = visited \union {i} /\ stack'[1].dir = i
        /\ \A k \in DOMAIN stack : stack[k].dir \in visited /\ stack'[k + 1].dir = stack[k].dir
    BY <2>3, <2>7, DirsAreVisited DEF NewDir
  <2>9. \A k \in DOMAIN stack : stack'[k + 1].total = stack[k].total
    <3>1. \A k \in 1 .. n : (k = 1 /\ k + 1 = 2) \/ (k + 1 \in 3 .. n + 1 /\ (k + 1) - 1 = k)
      OBVIOUS
    <3> QED BY <2>4, <2>6, <2>7, <2>8, <3>1
  <2>10. visited \subseteq Beside[i]
    <3>1. visited \subseteq Around(i)
      BY <1>1, <2>3, <2>8, DirsAreVisited DEF VisitedAreReached
    <3> QED BY <2>8, <3>1 DEF Beside
  <2>11. \E new : OwnsOf(new, stack', visited \union {i}, Below, Beside)
    <3>1. stack # <<>> /\ stack'[1].total = 0
      BY <2>3, <2>5, <2>6
    <3>2. \A k \in DOMAIN stack : /\ stack[k].dir \in visited
                                  /\ stack'[k + 1].dir = stack[k].dir
                                  /\ stack'[k + 1].total = stack[k].total
      BY <2>8, <2>9
    <3>3. OpensOn(stack, stack', visited, i, n, Beside)
      BY <2>7, <2>8, <2>10, <3>1, <3>2 DEF OpensOn
    <3> QED BY <1>3, <3>3, OwnsEntered
  <2> QED BY <2>8, <2>11
<1> QED BY <1>1, <1>6, <1>7, <1>8, <1>9, <1>10, <1>11, <1>12 DEF Next, Process

(* A directory that is done has counted all that is below it, but what the   *)
(* argument leads to beside it.                                              *)
LEMMA CountsAllBelow ==
    ASSUME Types, FramesAreOpen, NothingIsMissed, VisitedAreReached, unlinks = 0,
           stack # <<>>, stack[1].next = None,
           NEW own, OwnsOf(own, stack, visited, Below, Beside)
    PROVE  LET d == stack[1].dir IN Below[d] \ Beside[d] \subseteq own[1] \union {d}
<1>1. PICK d : d = stack[1].dir
  OBVIOUS
<1>2. d \in Inodes /\ 1 \in DOMAIN stack /\ tree \in TreeType /\ d \in visited
      /\ stack[1].left = {} /\ visited \subseteq Inodes /\ DOMAIN stack \subseteq Nat \ {0}
  BY <1>1, TopIs, DirsAreVisited DEF Types, FramesAreOpen
<1>3. Argument \in Inodes
  BY <1>2 DEF VisitedAreReached
<1>4. Beside[d] = Around(d) /\ Below[d] = ReachAround(d, tree.locked)
  BY <1>2 DEF Beside, Below, Reach
<1>5. Around(d) \subseteq Inodes /\ Closed(Around(d), tree.locked \union {d})
  BY <1>2, <1>3, ReachIsClosed DEF Around
<1>6. /\ own \in [DOMAIN stack -> SUBSET visited]
      /\ \A j, k \in DOMAIN stack : Apart(own, stack, j, k, Beside)
      /\ \A i \in visited : \E k \in DOMAIN stack : i \in own[k] \union {stack[k].dir}
  BY DEF OwnsOf
<1> DEFINE S == own[1] \union {d} \union Around(d)
<1>7. visited \subseteq S
  <2> SUFFICES ASSUME NEW i \in visited PROVE i \in S
    OBVIOUS
  <2>1. PICK k \in DOMAIN stack : i \in own[k] \union {stack[k].dir}
    BY <1>6
  <2>2. CASE k = 1
    BY <1>1, <2>1, <2>2
  <2>3. CASE k # 1
    <3>1. k > 1
      BY <1>2, <2>3
    <3>2. own[k] \union {stack[k].dir} \subseteq Beside[stack[1].dir]
      BY <1>2, <1>6, <3>1 DEF Apart
    <3> QED BY <1>1, <1>4, <2>1, <3>2
  <2> QED BY <2>2, <2>3
<1>8. Closed(S, tree.locked)
  <2> SUFFICES ASSUME NEW e \in S \ tree.locked, tree.kind[e] = "dir", NEW n \in Names
               PROVE  StatOrLstat(<<e, n>>) \in S \union {None}
    BY DEF Closed
  <2>1. CASE e \in own[1] \union {d}
    <3>1. e \in visited \ tree.locked
      BY <1>2, <1>6, <2>1
    <3>2. ~Pending(e, n)
      <4>1. ASSUME NEW k \in DOMAIN stack, stack[k].dir = e PROVE k = 1
        <5>1. CASE e = d
          BY <1>1, <1>2, <4>1, <5>1 DEF FramesAreOpen
        <5>2. CASE e \in own[1]
          BY <1>2, <1>6, <4>1, <5>2 DEF Apart
        <5> QED BY <2>1, <5>1, <5>2
      <4>2. n # None
        BY DuAssumption
      <4> QED BY <1>2, <4>1, <4>2 DEF Pending
    <3>3. Covered(e)
      BY <3>1 DEF NothingIsMissed, Steady
    <3>4. StatOrLstat(<<e, n>>) \in visited \union {None}
      BY <3>2, <3>3 DEF Covered
    <3> QED BY <1>7, <3>4
  <2>2. CASE e \notin own[1] \union {d}
    <3>1. e \in Around(d) \ (tree.locked \union {d})
      BY <2>2
    <3>2. StatOrLstat(<<e, n>>) \in Around(d) \union {None}
      BY <1>5, <3>1 DEF Closed
    <3> QED BY <3>2
  <2> QED BY <2>1, <2>2
<1>9. Below[d] \subseteq S
  <2>1. d \in S
    OBVIOUS
  <2> HIDE DEF S
  <2> QED BY <1>2, <1>4, <1>8, <2>1, ReachIsLeast
<1> QED BY <1>1, <1>4, <1>9

(* A line's size is made of what is below its inode, and of all that the     *)
(* argument does not lead to beside it.                                      *)
LineIs(line, below, beside) ==
    \E S \in SUBSET below[line[1]] :
      /\ {line[1]} \union (below[line[1]] \ beside[line[1]]) \subseteq S
      /\ line[2] = SizeOf(S)

TotalsAreOwn ==
    unlinks = 0 => \A k \in DOMAIN printed : LineIs(printed[k], Below, Beside)

(* A file's line.                                                            *)
LEMMA FileLineIs ==
    ASSUME Types, NEW i \in Inodes, tree.kind[i] # "dir"
    PROVE  LineIs(<<i, Size(i)>>, Below, Beside)
<1>1. tree \in TreeType /\ Below[i] = ReachAround(i, tree.locked)
  BY DEF Types, Below, Reach
<1>2. Closed({i}, tree.locked)
  BY DEF Closed
<1>3. Below[i] \subseteq {i}
  BY <1>1, <1>2, ReachIsLeast
<1>4. i \in Below[i]
  BY BelowIs
<1>5. PICK line : line = <<i, Size(i)>>
  OBVIOUS
<1>6. line[1] = i /\ line[2] = Size(i)
  BY <1>5
<1>7. {i} \in SUBSET Below[i] /\ {i} \union (Below[i] \ Beside[i]) \subseteq {i}
      /\ Size(i) = SizeOf({i})
  BY <1>3, <1>4, SizeOfOne
<1>8. LineIs(line, Below, Beside)
  BY <1>6, <1>7 DEF LineIs
<1> QED BY <1>5, <1>8

(* A directory's line.                                                       *)
LEMMA DirLineIs ==
    ASSUME Types, FramesAreOpen, PathsAreKnown, NothingIsMissed, VisitedAreReached,
           FilesAreOwned, unlinks = 0, HandleFinishedDirectory
    PROVE  LET size == TotalOf(stack[1], PathHolds(stack))
           IN  /\ size \in Nat /\ LineIs(<<stack[1].dir, size>>, Below, Beside)
               /\ Len(stack) = 1 => size = SizeOf(visited)
<1>1. stack # <<>> /\ stack[1].next = None
  <2>1. stack # <<>> /\ top.next = None
    BY DEF HandleFinishedDirectory
  <2> QED BY <2>1, TopIs DEF top
<1>2. PICK d : d = stack[1].dir
  OBVIOUS
<1>3. PICK size : size = TotalOf(stack[1], PathHolds(stack))
  OBVIOUS
<1>4. size = stack[1].total + Size(d) /\ size \in Nat
  BY <1>2, <1>3, FinishAdds, FinishIs
<1>5. PICK own : OwnsOf(own, stack, visited, Below, Beside)
  BY DEF FilesAreOwned
<1>6. d \in visited /\ 1 \in DOMAIN stack /\ visited \in SUBSET Inodes
      /\ Len(stack) \in Nat \ {0} /\ DOMAIN stack = 1 .. Len(stack)
  BY <1>1, <1>2, DirsAreVisited
<1>7. /\ stack[1].total = SizeOf(own[1]) /\ own[1] \subseteq Below[d] /\ d \notin own[1]
      /\ own[1] \subseteq visited
      /\ \A i \in visited : \E k \in DOMAIN stack : i \in own[k] \union {stack[k].dir}
  BY <1>1, <1>2, <1>5, <1>6 DEF OwnsOf, Owned, Apart
<1> DEFINE S == own[1] \union {d}
<1>8. size = SizeOf(S)
  <2>1. own[1] \in SUBSET Inodes /\ d \in Inodes
    BY <1>6, <1>7
  <2> QED BY <1>4, <1>7, <2>1, SizeWith
<1>9. S \in SUBSET Below[d]
  BY <1>6, <1>7, BelowIs
<1>10. {d} \union (Below[d] \ Beside[d]) \subseteq S
  BY <1>1, <1>2, <1>5, CountsAllBelow
<1>11. Len(stack) = 1 => S = visited
  <2> SUFFICES ASSUME Len(stack) = 1 PROVE S = visited
    OBVIOUS
  <2>1. DOMAIN stack = {1}
    BY <1>6
  <2> QED BY <1>2, <1>6, <1>7, <2>1
<1> HIDE DEF S
<1>12. PICK line : line = <<d, size>>
  OBVIOUS
<1>13. line[1] = d /\ line[2] = size
  BY <1>12
<1>14. LineIs(line, Below, Beside)
  BY <1>8, <1>9, <1>10, <1>13 DEF LineIs
<1> QED BY <1>2, <1>3, <1>4, <1>8, <1>11, <1>12, <1>14

(* What is written keeps the lines right.                                    *)
LEMMA WriteTotal ==
    ASSUME Types, NEW i \in Inodes, NEW size \in Nat, printed' = Append(printed, <<i, size>>),
           NEW below, NEW beside, LineIs(<<i, size>>, below, beside),
           \A k \in DOMAIN printed : LineIs(printed[k], below, beside)
    PROVE  /\ \A k \in DOMAIN printed' : LineIs(printed'[k], below, beside)
           /\ printed'[Len(printed')] = <<i, size>> /\ printed' # <<>>
<1>1. PICK line : line = <<i, size>>
  OBVIOUS
<1>2. PICK S : S = Inodes \X Nat
  OBVIOUS
<1>3. printed \in Seq(S) /\ line \in S /\ printed' = Append(printed, line)
  BY <1>1, <1>2 DEF Types
<1>4. /\ Len(printed) \in Nat /\ DOMAIN printed = 1 .. Len(printed)
      /\ Len(printed') = Len(printed) + 1 /\ DOMAIN printed' = 1 .. Len(printed) + 1
      /\ printed'[Len(printed) + 1] = line
      /\ \A k \in DOMAIN printed : printed'[k] = printed[k]
  BY <1>3, AppendIs
<1>5. \A n \in Nat : \A k \in 1 .. n + 1 : k = n + 1 \/ k \in 1 .. n
  OBVIOUS
<1>6. \A k \in DOMAIN printed' : k = Len(printed) + 1 \/ k \in DOMAIN printed
  BY <1>4, <1>5
<1>7. \A k \in DOMAIN printed' : LineIs(printed'[k], below, beside)
  BY <1>1, <1>4, <1>6
<1>8. printed'[Len(printed')] = line
  BY <1>4
<1>9. printed' # <<>>
  BY <1>4
<1> QED BY <1>1, <1>7, <1>8, <1>9

(* The line written last is that of the argument, with all that was visited. *)
LastIsAll ==
    unlinks = 0 /\ stack = <<>> /\ printed # <<>> =>
      printed[Len(printed)] = <<Argument, SizeOf(visited)>>

LEMMA TotalsKept ==
    ASSUME Types, FramesAreOpen, PathsAreKnown, NextIsKnown, NothingIsMissed,
           OpenAreUnlocked, VisitedAreReached, FilesAreOwned, TotalsAreOwn, LastIsAll,
           [Next]_vars
    PROVE  TotalsAreOwn' /\ LastIsAll'
<1> SUFFICES ASSUME unlinks' = 0 PROVE TotalsAreOwn' /\ LastIsAll'
  BY DEF TotalsAreOwn, LastIsAll
<1>1. ~Unlink /\ unlinks = 0 /\ UNCHANGED <<tree, option>> /\ Argument' = Argument
  BY SameTree
<1>2. Below' = Below /\ Beside' = Beside
  BY <1>1, SameBelow
<1>3. \A k \in DOMAIN printed : LineIs(printed[k], Below, Beside)
  BY <1>1 DEF TotalsAreOwn
<1>4. SUFFICES /\ \A k \in DOMAIN printed' : LineIs(printed'[k], Below, Beside)
               /\ stack' = <<>> /\ printed' # <<>> =>
                    printed'[Len(printed')] = <<Argument, SizeOf(visited')>>
  BY <1>1, <1>2 DEF TotalsAreOwn, LastIsAll
<1>5. CASE UNCHANGED vars
  BY <1>1, <1>3, <1>5 DEF LastIsAll, vars, walk
<1>6. CASE ArgumentMissing \/ ArgumentIsDirectory
  <2>1. printed' = printed /\ printed = <<>>
    BY <1>6 DEF ArgumentMissing, ArgumentIsDirectory, Types
  <2> QED BY <1>3, <2>1
<1>7. CASE ArgumentIsFile
  <2>1. PICK i : i = Argument
    OBVIOUS
  <2>2. i \in Inodes /\ Size(i) \in Nat /\ tree.kind[i] # "dir"
    BY <1>7, <2>1, OptionIs, TargetType, DuAssumption DEF ArgumentIsFile, Argument, Types, Inode
  <2>3. visited' = {i} /\ printed' = Append(printed, <<i, Size(i)>>)
    BY <1>7, <2>1 DEF ArgumentIsFile, Write, Argument
  <2>4. LineIs(<<i, Size(i)>>, Below, Beside)
    BY <2>2, FileLineIs
  <2>5. SizeOf(visited') = Size(i)
    BY <2>2, <2>3, SizeOfOne
  <2>6. /\ \A k \in DOMAIN printed' : LineIs(printed'[k], Below, Beside)
        /\ printed'[Len(printed')] = <<i, Size(i)>>
    BY <1>3, <2>2, <2>3, <2>4, WriteTotal
  <2> QED BY <2>1, <2>5, <2>6
<1>8. CASE HandleFinishedDirectory
  <2>1. PICK i, size : i = stack[1].dir /\ size = TotalOf(stack[1], PathHolds(stack))
    OBVIOUS
  <2>2. stack # <<>> /\ visited' = visited /\ i \in Inodes /\ size \in Nat
        /\ LineIs(<<i, size>>, Below, Beside) /\ (Len(stack) = 1 => size = SizeOf(visited))
    BY <1>1, <1>8, <2>1, DirLineIs, TopIs DEF HandleFinishedDirectory
  <2>3. stack' = <<>> <=> Len(stack) = 1
    BY <1>8, PoppedIs DEF TopGone
  <2>4. Len(stack) = 1 => i = Argument
    BY <1>1, <2>1, <2>2 DEF OpenAreUnlocked
  <2>5. CASE printed' = Append(printed, <<i, size>>)
    <3>1. /\ \A k \in DOMAIN printed' : LineIs(printed'[k], Below, Beside)
          /\ printed'[Len(printed')] = <<i, size>>
      BY <1>3, <2>2, <2>5, WriteTotal
    <3> QED BY <2>2, <2>3, <2>4, <3>1
  <2>6. CASE printed' # Append(printed, <<i, size>>)
    <3>1. option.summarize /\ Len(stack) > 1 /\ printed' = printed
      BY <1>8, <2>1, <2>6, FinishIs
    <3>2. Len(stack) # 1
      <4>1. \A n \in Nat : n > 1 => n # 1
        OBVIOUS
      <4>2. Len(stack) \in Nat
        BY DEF Types
      <4> QED BY <3>1, <4>1, <4>2, Zenon
    <3> QED BY <1>3, <2>3, <3>1, <3>2
  <2> QED BY <2>5, <2>6
<1>9. CASE SkipEntry \/ EnterDirectory
  <2>1. printed' = printed /\ stack' # <<>>
    <3>1. CASE SkipEntry
      <4>1. PICK it : Skips(it)
        BY <3>1, SkipIs
      <4>2. stack # <<>> /\ printed' = printed
        BY <3>1 DEF SkipEntry
      <4> QED BY <4>1, <4>2, ReplacedIs DEF Skips, SameDirs
    <3>2. CASE EnterDirectory
      <4>1. PICK it, child : Enters(it, child, Id)
        BY <3>2, EnterIs
      <4>2. stack # <<>> /\ printed' = printed
        BY <3>2 DEF EnterDirectory
      <4> QED BY <4>1, <4>2, PushedIs DEF NewDir
    <3> QED BY <1>9, <3>1, <3>2
  <2> QED BY <1>3, <2>1
<1>10. CASE CountFile
  <2>1. PICK i : i = Id
    OBVIOUS
  <2>2. stack # <<>> /\ i \in Inodes /\ tree.kind[i] # "dir" /\ Size(i) \in Nat
    BY <1>10, <2>1, DuAssumption DEF CountFile, New
  <2>3. stack' # <<>>
    <3>1. PICK it, counted : Counts(it, counted, i)
      BY <1>10, <2>1, CountIs
    <3>2. Len(stack') = Len(stack) /\ stack' \in Seq(Frame) /\ Len(stack) \in Nat \ {0}
      BY <2>2, <3>1, TopIs DEF Counts, Replaced
    <3> QED BY <3>2
  <2>4. CASE option.all
    <3>1. printed' = Append(printed, <<i, Size(i)>>)
      BY <1>10, <2>1, <2>4 DEF CountFile, Write
    <3>2. LineIs(<<i, Size(i)>>, Below, Beside)
      BY <2>2, FileLineIs
    <3>3. \A k \in DOMAIN printed' : LineIs(printed'[k], Below, Beside)
      BY <1>3, <2>2, <3>1, <3>2, WriteTotal
    <3> QED BY <2>3, <3>3
  <2>5. CASE ~option.all
    BY <1>3, <1>10, <2>3, <2>5 DEF CountFile
  <2> QED BY <2>4, <2>5
<1> QED BY <1>1, <1>5, <1>6, <1>7, <1>8, <1>9, <1>10 DEF Next, Process

-----------------------------------------------------------------------------
(* Theorems.                                                                 *)
IInv == /\ Types /\ FramesAreOpen /\ LinesAreDone /\ ArgumentHasLine
        /\ PathsAreKnown /\ NextIsKnown /\ NothingIsMissed
        /\ OpenAreUnlocked /\ VisitedAreReached /\ FilesAreOwned
        /\ TotalsAreOwn /\ LastIsAll

LEMMA Invariance == Spec => []IInv
<1>1. Init => IInv
  <2> SUFFICES ASSUME Init
               PROVE  /\ PathsAreKnown /\ NextIsKnown /\ NothingIsMissed
                      /\ OpenAreUnlocked /\ VisitedAreReached /\ FilesAreOwned
                      /\ TotalsAreOwn /\ LastIsAll /\ ArgumentHasLine
    BY InitIsRight DEF IInv
  <2>1. stack = <<>> /\ DOMAIN stack = {} /\ visited = {} /\ started = FALSE
        /\ printed = <<>> /\ DOMAIN printed = {}
    BY DEF Init
  <2>2. FilesAreOwned
    <3>1. PICK own : own = [k \in {} |-> {}]
      OBVIOUS
    <3>2. own \in [{} -> SUBSET visited]
      BY <3>1
    <3>3. OwnsOf(own, stack, visited, Below, Beside)
      BY <2>1, <3>2 DEF OwnsOf
    <3> QED BY <3>3 DEF FilesAreOwned
  <2> QED BY <2>1, <2>2 DEF PathsAreKnown, NextIsKnown, NothingIsMissed, OpenAreUnlocked,
                            VisitedAreReached, TotalsAreOwn, LastIsAll, ArgumentHasLine
<1>2. IInv /\ [Next]_vars => IInv'
  BY TypesKept, FramesKept, LinesKept, ArgumentLineKept, PathsKept, NextKept, MissedKept, UnlockedKept,
     VisitedKept, OwnsKept, TotalsKept DEF IInv
<1> QED BY <1>1, <1>2, PTL DEF Spec

(* The state has the shape the declarations of main.cpp:185-192 and 363-367  *)
(* give it, and no directory is on the stack twice, through whatever links   *)
(* it is reached and whatever is unlinked.                                   *)
THEOREM StackIsSound == Spec => []TypeOK
<1>1. IInv => TypeOK
  <2> SUFFICES ASSUME Types, FramesAreOpen PROVE TypeOK
    BY DEF IInv
  <2>1. \A k \in DOMAIN stack : stack[k] \in Frame
    BY DEF Types
  <2>2. \A k \in DOMAIN printed : printed[k] \in Inodes \X Nat
    BY DEF Types
  <2>3. \A f \in Frame : /\ f.entry \in Entries /\ f.total \in Nat /\ f.left \subseteq Names
                         /\ f.next \in Names \union {None} /\ f.inode \in Inodes \union {None}
    BY DEF Frame, Inode
  <2> QED BY <2>1, <2>2, <2>3 DEF TypeOK, Types, FramesAreOpen
<1> QED BY <1>1, Invariance, PTL

(* As many lines as inodes in them.                                          *)
LEMMA LinesAreCounted ==
    ASSUME Types, LinesAreDone
    PROVE  Cardinality({printed[k][1] : k \in DOMAIN printed}) = Len(printed)
<1> DEFINE lines == {printed[k][1] : k \in DOMAIN printed}
<1>1. Len(printed) \in Nat /\ DOMAIN printed = 1 .. Len(printed)
  BY DEF Types
<1>2. PICK f : f = [k \in 1 .. Len(printed) |-> printed[k][1]]
  OBVIOUS
<1>3. f \in Surjection(1 .. Len(printed), lines)
  BY <1>1, <1>2 DEF Surjection
<1>4. f \in Injection(1 .. Len(printed), lines)
  BY <1>1, <1>2, <1>3 DEF Injection, IsInjective, Surjection, LinesAreDone
<1>5. IsFiniteSet(1 .. Len(printed)) /\ Cardinality(1 .. Len(printed)) = Len(printed)
  <2>1. PICK n \in Nat : n = Len(printed)
    BY <1>1
  <2>2. IsFiniteSet(1 .. n) /\ Cardinality(1 .. n) = IF 1 > n THEN 0 ELSE n - 1 + 1
    BY FS_Interval
  <2>3. Cardinality(1 .. n) = n
    BY <2>2
  <2> QED BY <2>1, <2>2, <2>3
<1> HIDE DEF lines
<1>6. Cardinality(lines) = Cardinality(1 .. Len(printed))
  BY <1>3, <1>4, <1>5, FS_Surjection
<1> QED BY <1>5, <1>6 DEF lines

(* The argument was there: -s has printed a line.                            *)
LEMMA OneLine ==
    ASSUME Types, LinesAreDone, ArgumentHasLine, Done, option.summarize, visited # {}
    PROVE  Len(printed) = 1
<1>1. printed # <<>> /\ Len(printed) <= 1
  BY DEF ArgumentHasLine, LinesAreDone, Done
<1>2. Len(printed) \in Nat \ {0}
  BY <1>1 DEF Types
<1>3. \A n \in Nat \ {0} : n <= 1 => n = 1
  OBVIOUS
<1> QED BY <1>1, <1>2, <1>3, Zenon

(* When the walk has ended, -s has printed one line, unless the argument was *)
(* missing, and otherwise each visited directory has its line, and with -a   *)
(* each inode; none has two (main.cpp:270-361), whatever has been unlinked   *)
(* meanwhile.                                                                *)
THEOREM LinesAreRight == Spec => []PrintsWhatWasAsked
<1>1. IInv => PrintsWhatWasAsked
  <2> SUFFICES ASSUME Types, LinesAreDone, ArgumentHasLine, Done PROVE PrintsWhatWasAsked
    BY DEF PrintsWhatWasAsked, IInv
  <2> DEFINE lines == {printed[k][1] : k \in DOMAIN printed}
             asked == {i \in visited : \/ tree.kind[i] = "dir" \/ option.all
                                       \/ visited = {i}}
  <2>1. Cardinality(lines) = Len(printed)
    BY LinesAreCounted
  <2>2. option.summarize /\ visited # {} => Len(printed) = 1
    BY OneLine
  <2>3. ASSUME ~option.summarize PROVE lines = asked
    <3>1. \A i : ~OnStack(i)
      BY DEF OnStack, Done
    <3>2. \A i \in visited : Shown(i) <=> i \in asked
      BY <2>3, <3>1 DEF LinesAreDone
    <3>3. \A i : i \in lines <=> Shown(i)
      BY DEF Shown
    <3>4. lines \subseteq visited /\ asked \subseteq visited
      BY DEF LinesAreDone
    <3> HIDE DEF lines, asked
    <3> QED BY <3>2, <3>3, <3>4
  <2>4. ASSUME visited = {} PROVE lines = asked
    BY <2>4 DEF LinesAreDone
  <2> HIDE DEF lines, asked
  <2>5. IF option.summarize /\ visited # {} THEN Len(printed) = 1 ELSE lines = asked
    BY <2>2, <2>3, <2>4
  <2> QED BY <2>1, <2>5 DEF PrintsWhatWasAsked, lines, asked
<1> QED BY <1>1, Invariance, PTL

(* At the end all that can still be reached from the argument was visited.   *)
LEMMA EndIsComplete ==
    ASSUME IInv, Done, Steady PROVE ReachOfArgument \subseteq visited
<1>1. tree \in TreeType /\ StatOrLstat(option.arg) \in Inode
  BY OptionIs, TargetType DEF IInv, Types
<1>2. StatOrLstat(option.arg) \in visited \union {None}
  BY DEF IInv, NothingIsMissed, Done
<1>3. Closed(visited, tree.locked)
  <2>1. \A d, n : ~Pending(d, n)
    BY DEF Pending, Done
  <2> QED BY <2>1 DEF IInv, NothingIsMissed, Covered, Closed
<1>4. CASE StatOrLstat(option.arg) = None
  BY <1>4 DEF ReachOfArgument
<1>5. CASE StatOrLstat(option.arg) # None
  <2>1. PICK i \in Inodes : i = StatOrLstat(option.arg)
    BY <1>1, <1>5 DEF Inode
  <2>2. ReachAround(i, tree.locked) \subseteq visited
    BY <1>1, <1>2, <1>3, <1>5, <2>1, ReachIsLeast
  <2>3. ReachOfArgument = ReachAround(i, tree.locked)
    BY <1>5, <2>1 DEF ReachOfArgument, Reach
  <2> QED BY <2>2, <2>3
<1> QED BY <1>4, <1>5

(* When the walk has ended, and no links were followed or no names unlinked, *)
(* all that can still be reached from the argument has been visited          *)
(* (main.cpp:138-165 and 304-342).                                           *)
THEOREM NothingLeft == Spec => []MissesNothing
<1>1. IInv => MissesNothing
  BY EndIsComplete DEF MissesNothing, Steady
<1> QED BY <1>1, Invariance, PTL

(* When the walk has ended and nothing was unlinked, there is a line if the  *)
(* argument is there, the last is that of the argument, and its size is the  *)
(* sum over all that the argument leads to, each inode once                  *)
(* (main.cpp:270-342), whatever links make of the tree.                      *)
THEOREM TotalIsRight == Spec => []TotalIsTheTree
<1>1. IInv => TotalIsTheTree
  <2> SUFFICES ASSUME IInv, Done, unlinks = 0
               PROVE  IF Argument = None THEN printed = <<>>
                      ELSE /\ printed # <<>>
                           /\ printed[Len(printed)] = <<Argument, SizeOf(ReachOfArgument)>>
    BY DEF TotalIsTheTree, Argument
  <2>1. CASE Argument = None
    <3>1. visited = {}
      BY <2>1, DuAssumption DEF IInv, VisitedAreReached
    <3>2. DOMAIN printed = {}
      BY <3>1 DEF IInv, LinesAreDone
    <3> QED BY <2>1, <3>2 DEF IInv, Types
  <2>2. CASE Argument # None
    <3>1. visited # {} /\ printed # <<>>
      BY <2>2 DEF IInv, NothingIsMissed, Steady, Done, Argument, ArgumentHasLine
    <3>2. printed[Len(printed)] = <<Argument, SizeOf(visited)>>
      BY <3>1 DEF IInv, LastIsAll, Done
    <3>3. Argument \in Inodes /\ visited \subseteq Reach(Argument)
      BY <3>1 DEF IInv, VisitedAreReached
    <3>4. ReachOfArgument = Reach(Argument)
      BY <3>3, DuAssumption DEF ReachOfArgument, Argument
    <3>5. ReachOfArgument \subseteq visited
      BY EndIsComplete DEF Steady
    <3>6. ReachOfArgument = visited
      BY <3>3, <3>4, <3>5
    <3> QED BY <2>2, <3>1, <3>2, <3>6
  <2> QED BY <2>1, <2>2
<1> QED BY <1>1, Invariance, PTL

(* While nothing is unlinked, the size printed for a directory is the sum of *)
(* inodes below it, each once, and of all those the argument leads to        *)
(* through it only (main.cpp:270-302 and 318-342).                           *)
THEOREM TotalsAreRight == Spec => []EachTotalIsItsOwn
<1>1. IInv => EachTotalIsItsOwn
  <2> SUFFICES ASSUME IInv, unlinks = 0, NEW k \in DOMAIN printed, NEW d, d = printed[k][1]
               PROVE  \E S \in SUBSET Reach(d) :
                         OnlyThrough(d) \subseteq S /\ printed[k][2] = SizeOf(S)
    BY DEF EachTotalIsItsOwn
  <2>1. d \in Inodes
    BY DEF IInv, Types, LinesAreDone
  <2>2. Below[d] = Reach(d) /\ Beside[d] = Around(d)
    BY <2>1 DEF Below, Beside
  <2>3. OnlyThrough(d) = {d} \union (Below[d] \ Beside[d])
    BY <2>2 DEF OnlyThrough, Around, Argument
  <2>4. LineIs(printed[k], Below, Beside)
    BY DEF IInv, TotalsAreOwn
  <2> QED BY <2>2, <2>3, <2>4 DEF LineIs
<1> QED BY <1>1, Invariance, PTL
=============================================================================
