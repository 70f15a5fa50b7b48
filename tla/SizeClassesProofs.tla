-------------------------- MODULE SizeClassesProofs --------------------------
(***************************************************************************)
(* Theorems about GetBinIndex with the table malloc/main.cpp gives it, for   *)
(* every size there is and not only those a walk of TLC comes by: its loop   *)
(* numbers the size classes without a gap, never leaves the array of bins,   *)
(* and never puts a larger chunk into a lower bin.                           *)
(***************************************************************************)
EXTENDS MCSizeClasses, TLAPS, NaturalsInduction, WellFoundedInduction, FiniteSetTheorems

(* The constants of malloc/main.cpp.                                         *)
CodeTable ==
    /\ kMinChunkSize = 32 /\ kMaxSmallBinSize = 1024 /\ kSmallBinBase = 2
    /\ kLargeBinBase = 63 /\ kLargeBinsFirstCount = 32 /\ kLargeBinsFirstStep = 64
    /\ kBinsCount = 126

-----------------------------------------------------------------------------
(* Recursion over the naturals.                                              *)

LEMMA NonemptyHasMin ==
  ASSUME NEW T, T \subseteq Nat, T # {}
  PROVE  \E n \in T : \A m \in T : n <= m
<1>1. PICK n \in T : \A m \in T : <<m, n>> \notin OpToRel(<, Nat)
  BY NatLessThanWellFounded, WFMin
<1>2. \A m \in T : ~(m < n)  BY <1>1 DEF OpToRel
<1>3. QED  BY <1>2

(* A step repeated from a start goes through one value per number.           *)
LEMMA Iteration ==
  ASSUME NEW S, NEW s0 \in S, NEW F \in [S -> S]
  PROVE  \E f \in [Nat -> S] : f[0] = s0 /\ \A n \in Nat : f[n + 1] = F[f[n]]
<1> DEFINE Upto(n, f) == /\ f \in [0 .. n -> S] /\ f[0] = s0
                         /\ \A k \in 0 .. n - 1 : f[k + 1] = F[f[k]]
           None == {n \in Nat : \A f : ~Upto(n, f)}
<1>1. None = {}
  <2> SUFFICES ASSUME None # {} PROVE FALSE  OBVIOUS
  <2>1. PICK n \in None : \A m \in None : n <= m  BY NonemptyHasMin
  <2>2. n # 0
    <3> SUFFICES ASSUME n = 0 PROVE FALSE  OBVIOUS
    <3>1. Upto(0, [k \in 0 .. 0 |-> s0])  OBVIOUS
    <3>2. QED  BY <3>1
  <2>3. n \in Nat /\ n - 1 \in Nat /\ n - 1 \notin None  BY <2>1, <2>2
  <2>4. PICK f : Upto(n - 1, f)  BY <2>3
  <2> DEFINE g == [k \in 0 .. n |-> IF k < n THEN f[k] ELSE F[f[n - 1]]]
  <2>5. g \in [0 .. n -> S]
    <3>1. \A k \in 0 .. n - 1 : f[k] \in S  BY <2>3, <2>4
    <3>2. F[f[n - 1]] \in S  BY <2>3, <3>1
    <3>3. QED  BY <2>3, <3>1, <3>2
  <2>6. g[0] = s0  BY <2>3, <2>4, <2>2
  <2>7. \A k \in 0 .. n - 1 : g[k + 1] = F[g[k]]
    <3> SUFFICES ASSUME NEW k \in 0 .. n - 1 PROVE g[k + 1] = F[g[k]]  OBVIOUS
    <3>1. CASE k = n - 1  BY <3>1, <2>3
    <3>2. CASE k < n - 1
      <4>1. k \in 0 .. n - 2 /\ k + 1 \in 0 .. n - 1  BY <3>2, <2>3
      <4>2. g[k + 1] = f[k + 1] /\ g[k] = f[k]  BY <4>1, <2>3
      <4>3. f[k + 1] = F[f[k]]  BY <2>4, <4>1, <2>3
      <4>4. QED  BY <4>2, <4>3
    <3>3. QED  BY <3>1, <3>2, <2>3
  <2>8. Upto(n, g)  BY <2>5, <2>6, <2>7
  <2>9. QED  BY <2>8, <2>1
<1>2. ASSUME NEW n \in Nat, NEW f, NEW g, Upto(n, f), Upto(n + 1, g)
      PROVE  \A k \in 0 .. n : f[k] = g[k]
  <2> DEFINE Apart == {k \in 0 .. n : f[k] # g[k]}
  <2> SUFFICES ASSUME Apart # {} PROVE FALSE  OBVIOUS
  <2>1. Apart \subseteq Nat  OBVIOUS
  <2>2. PICK k \in Apart : \A m \in Apart : k <= m  BY <2>1, NonemptyHasMin
  <2>3. k # 0  BY <1>2, <2>2
  <2>4. k - 1 \in 0 .. n - 1 /\ k - 1 \notin Apart  BY <2>2, <2>3
  <2>5. f[k - 1] = g[k - 1]  BY <2>4
  <2>6. f[(k - 1) + 1] = F[f[k - 1]] /\ g[(k - 1) + 1] = F[g[k - 1]]  BY <1>2, <2>4
  <2>7. (k - 1) + 1 = k  BY <2>4
  <2>8. QED  BY <2>2, <2>5, <2>6, <2>7
<1> DEFINE first(n) == CHOOSE f : Upto(n, f)
           all == [n \in Nat |-> first(n)[n]]
<1>3. \A n \in Nat : Upto(n, first(n))
  <2> TAKE n \in Nat
  <2>1. \E f : Upto(n, f)  BY <1>1
  <2> HIDE DEF Upto
  <2>2. QED  BY <2>1
<1>4. all \in [Nat -> S]
  <2>1. ASSUME NEW n \in Nat PROVE first(n)[n] \in S
    <3>1. Upto(n, first(n))  BY <1>3
    <3> HIDE DEF first
    <3>2. QED  BY <3>1
  <2> HIDE DEF first
  <2>2. QED  BY <2>1
<1>5. all[0] = s0
  <2>1. Upto(0, first(0)) /\ all[0] = first(0)[0]  BY <1>3
  <2> HIDE DEF first
  <2>2. QED  BY <2>1
<1>6. \A n \in Nat : all[n + 1] = F[all[n]]
  <2> TAKE n \in Nat
  <2> HIDE DEF first
  <2>1. Upto(n, first(n)) /\ Upto(n + 1, first(n + 1))  BY <1>3
  <2>2. first(n)[n] = first(n + 1)[n]
    <3> HIDE DEF Upto
    <3>1. \A k \in 0 .. n : first(n)[k] = first(n + 1)[k]  BY <1>2, <2>1
    <3>2. QED  BY <3>1
  <2>3. first(n + 1)[n + 1] = F[first(n + 1)[n]]  BY <2>1
  <2>4. QED  BY <2>2, <2>3
<1>7. QED  BY <1>4, <1>5, <1>6
-----------------------------------------------------------------------------
(* The loop of GetBinIndex.                                                  *)

GroupType == [min : Nat, index : Nat, count : Nat, step : Nat]

(* Group is what the assignments of the loop make of the variables.          *)
LEMMA GroupSteps ==
  /\ Group[0] = [min |-> kMaxSmallBinSize, index |-> kLargeBinBase,
                 count |-> kLargeBinsFirstCount, step |-> kLargeBinsFirstStep]
  /\ \A k \in Nat : /\ Group[k] \in GroupType
                     /\ Group[k + 1] =
                          [min |-> Group[k].min + Group[k].count * Group[k].step,
                           index |-> Group[k].index + Group[k].count,
                           count |-> Group[k].count \div 2, step |-> Group[k].step * 8]
<1> DEFINE g0 == [min |-> kMaxSmallBinSize, index |-> kLargeBinBase,
                  count |-> kLargeBinsFirstCount, step |-> kLargeBinsFirstStep]
           after(g) == [min |-> g.min + g.count * g.step, index |-> g.index + g.count,
                        count |-> g.count \div 2, step |-> g.step * 8]
           F == [g \in GroupType |-> after(g)]
           Is(f) == f = [k \in Nat |-> IF k = 0 THEN g0 ELSE after(f[k - 1])]
<1>1. g0 \in GroupType  BY ClassesAssumption DEF GroupType
<1>2. F \in [GroupType -> GroupType]
  <2> SUFFICES ASSUME NEW g \in GroupType PROVE after(g) \in GroupType  OBVIOUS
  <2>1. g.min \in Nat /\ g.count \in Nat /\ g.step \in Nat /\ g.index \in Nat
    BY DEF GroupType
  <2>2. g.count * g.step \in Nat /\ g.count \div 2 \in Nat  BY <2>1
  <2>3. QED  BY <2>1, <2>2 DEF GroupType
<1>3. PICK f \in [Nat -> GroupType] : f[0] = g0 /\ \A n \in Nat : f[n + 1] = F[f[n]]
  <2> HIDE DEF F, g0
  <2>1. QED  BY <1>1, <1>2, Iteration
<1>4. Is(f)
  <2>1. \A k \in Nat : f[k] = IF k = 0 THEN g0 ELSE after(f[k - 1])
    <3> TAKE k \in Nat
    <3>1. CASE k = 0  BY <3>1, <1>3
    <3>2. CASE k # 0
      <4>1. k - 1 \in Nat /\ (k - 1) + 1 = k  BY <3>2
      <4>2. f[k - 1] \in GroupType  BY <4>1, <1>3
      <4>3. f[(k - 1) + 1] = F[f[k - 1]]  BY <4>1, <1>3
      <4>4. F[f[k - 1]] = after(f[k - 1])  BY <4>2
      <4>5. QED  BY <4>1, <4>3, <4>4, <3>2
    <3>3. QED  BY <3>1, <3>2
  <2> HIDE DEF g0, after
  <2>2. QED  BY <2>1
<1>5. Group = CHOOSE h : Is(h)  BY DEF Group
<1>6. Is(Group)
  <2> HIDE DEF Is
  <2>1. QED  BY <1>4, <1>5
<1>7. Group[0] = g0
  <2> HIDE DEF g0, after
  <2>1. QED  BY <1>6
<1>8. \A k \in Nat : Group[k + 1] = after(Group[k])
  <2> TAKE k \in Nat
  <2>1. k + 1 \in Nat /\ k + 1 # 0 /\ (k + 1) - 1 = k  OBVIOUS
  <2> HIDE DEF g0, after
  <2>2. QED  BY <1>6, <2>1
<1>9. \A k \in Nat : Group[k] \in GroupType
  <2> DEFINE Off == {k \in Nat : Group[k] \notin GroupType}
  <2> SUFFICES ASSUME Off # {} PROVE FALSE  OBVIOUS
  <2>1. PICK k \in Off : \A m \in Off : k <= m  BY NonemptyHasMin
  <2>2. k # 0  BY <2>1, <1>7, <1>1
  <2>3. k - 1 \in Nat /\ (k - 1) + 1 = k /\ k - 1 \notin Off  BY <2>1, <2>2
  <2>4. Group[k - 1] \in GroupType  BY <2>3
  <2>5. after(Group[k - 1]) \in GroupType  BY <1>2, <2>4
  <2>6. Group[k] = after(Group[k - 1])
    <3>1. Group[(k - 1) + 1] = after(Group[k - 1])  BY <1>8, <2>3
    <3>2. QED  BY <3>1, <2>3
  <2>7. QED  BY <2>1, <2>5, <2>6
<1>10. QED  BY <1>7, <1>8, <1>9

(* The groups of the code's table.                                           *)
LEMMA CodeGroups ==
  ASSUME CodeTable
  PROVE  /\ Group[0] = [min |-> 1024, index |-> 63, count |-> 32, step |-> 64]
         /\ Group[1] = [min |-> 3072, index |-> 95, count |-> 16, step |-> 512]
         /\ Group[2] = [min |-> 11264, index |-> 111, count |-> 8, step |-> 4096]
         /\ Group[3] = [min |-> 44032, index |-> 119, count |-> 4, step |-> 32768]
         /\ Group[4] = [min |-> 175104, index |-> 123, count |-> 2, step |-> 262144]
         /\ \A k \in Nat : k >= 5 => Group[k].count <= 1
         /\ Group[5].index = 125
<1>0. /\ Group[0] = [min |-> 1024, index |-> 63, count |-> 32, step |-> 64]
  BY GroupSteps DEF CodeTable
<1>1. Group[1] = [min |-> 3072, index |-> 95, count |-> 16, step |-> 512]
  <2>1. Group[0 + 1] = [min |-> 1024 + 32 * 64, index |-> 63 + 32, count |-> 32 \div 2,
                        step |-> 64 * 8]
    BY <1>0, GroupSteps
  <2>2. QED  BY <2>1
<1>2. Group[2] = [min |-> 11264, index |-> 111, count |-> 8, step |-> 4096]
  <2>1. Group[1 + 1] = [min |-> 3072 + 16 * 512, index |-> 95 + 16, count |-> 16 \div 2,
                        step |-> 512 * 8]
    BY <1>1, GroupSteps
  <2>2. QED  BY <2>1
<1>3. Group[3] = [min |-> 44032, index |-> 119, count |-> 4, step |-> 32768]
  <2>1. Group[2 + 1] = [min |-> 11264 + 8 * 4096, index |-> 111 + 8, count |-> 8 \div 2,
                        step |-> 4096 * 8]
    BY <1>2, GroupSteps
  <2>2. QED  BY <2>1
<1>4. Group[4] = [min |-> 175104, index |-> 123, count |-> 2, step |-> 262144]
  <2>1. Group[3 + 1] = [min |-> 44032 + 4 * 32768, index |-> 119 + 4, count |-> 4 \div 2,
                        step |-> 32768 * 8]
    BY <1>3, GroupSteps
  <2>2. QED  BY <2>1
<1>5. Group[5].index = 125 /\ Group[5].count = 1
  <2>1. Group[4 + 1] = [min |-> 175104 + 2 * 262144, index |-> 123 + 2, count |-> 2 \div 2,
                        step |-> 262144 * 8]
    BY <1>4, GroupSteps
  <2>2. QED  BY <2>1
<1>6. \A k \in Nat : k >= 5 => Group[k].count <= 1
  <2> DEFINE Off == {k \in Nat : k >= 5 /\ ~(Group[k].count <= 1)}
  <2> SUFFICES ASSUME Off # {} PROVE FALSE  OBVIOUS
  <2>1. PICK k \in Off : \A m \in Off : k <= m  BY NonemptyHasMin
  <2>2. k # 5  BY <2>1, <1>5
  <2>3. k - 1 \in Nat /\ (k - 1) + 1 = k /\ k - 1 >= 5 /\ k - 1 \notin Off
    BY <2>1, <2>2
  <2>4. Group[k - 1].count \in Nat /\ Group[k - 1].count <= 1
    <3>1. Group[k - 1] \in GroupType  BY <2>3, GroupSteps
    <3>2. Group[k - 1].count \in Nat  BY <3>1 DEF GroupType
    <3>3. QED  BY <2>3, <3>2
  <2>5. Group[k].count = Group[k - 1].count \div 2
    <3>1. ASSUME NEW j \in Nat PROVE Group[j + 1].count = Group[j].count \div 2
      <4>1. Group[j + 1] = [min |-> Group[j].min + Group[j].count * Group[j].step,
                            index |-> Group[j].index + Group[j].count,
                            count |-> Group[j].count \div 2, step |-> Group[j].step * 8]
        BY GroupSteps
      <4>2. QED  BY <4>1
    <3>2. Group[(k - 1) + 1].count = Group[k - 1].count \div 2  BY <3>1, <2>3
    <3>3. QED  BY <3>2, <2>3
  <2>6. QED  BY <2>1, <2>4, <2>5
<1>7. QED  BY <1>0, <1>1, <1>2, <1>3, <1>4, <1>5, <1>6

(* The value of the loop, group by group.                                    *)
From4(sz) == IF sz <= 699392 THEN 123 + (sz - 175104 - 1) \div 262144 ELSE 125
From3(sz) == IF sz <= 175104 THEN 119 + (sz - 44032 - 1) \div 32768 ELSE From4(sz)
From2(sz) == IF sz <= 44032 THEN 111 + (sz - 11264 - 1) \div 4096 ELSE From3(sz)
From1(sz) == IF sz <= 11264 THEN 95 + (sz - 3072 - 1) \div 512 ELSE From2(sz)
From0(sz) == IF sz <= 3072 THEN 63 + (sz - 1024 - 1) \div 64 ELSE From1(sz)

LEMMA LoopEnds ==
  ASSUME CodeTable, NEW sz \in Nat
  PROVE  LargeBinIndex(sz) = From0(sz)
<1> DEFINE body(s, k) ==
             IF Group[k].count <= 1 THEN Group[k].index
             ELSE IF sz <= Group[k].min + Group[k].count * Group[k].step
                  THEN Group[k].index + (sz - Group[k].min - 1) \div Group[k].step
                  ELSE s[k + 1]
           Is(s) == s = [k \in Nat |-> body(s, k)]
           w == [k \in Nat |-> IF k = 0 THEN From0(sz) ELSE IF k = 1 THEN From1(sz)
                              ELSE IF k = 2 THEN From2(sz) ELSE IF k = 3 THEN From3(sz)
                              ELSE IF k = 4 THEN From4(sz) ELSE Group[k].index]
<1>1. \A s : /\ body(s, 0) = IF sz <= 3072 THEN 63 + (sz - 1024 - 1) \div 64 ELSE s[1]
             /\ body(s, 1) = IF sz <= 11264 THEN 95 + (sz - 3072 - 1) \div 512 ELSE s[2]
             /\ body(s, 2) = IF sz <= 44032 THEN 111 + (sz - 11264 - 1) \div 4096 ELSE s[3]
             /\ body(s, 3) = IF sz <= 175104 THEN 119 + (sz - 44032 - 1) \div 32768 ELSE s[4]
             /\ body(s, 4) = IF sz <= 699392 THEN 123 + (sz - 175104 - 1) \div 262144 ELSE s[5]
             /\ \A k \in Nat : k >= 5 => body(s, k) = Group[k].index
  BY CodeGroups
<1>2. Is(w)
  <2>1. w[5] = 125  BY CodeGroups
  <2>2. \A k \in Nat : w[k] = body(w, k)
    <3> TAKE k \in Nat
    <3> HIDE DEF body
    <3>1. CASE k = 0  BY <3>1, <1>1 DEF From0
    <3>2. CASE k = 1  BY <3>2, <1>1 DEF From1
    <3>3. CASE k = 2  BY <3>3, <1>1 DEF From2
    <3>4. CASE k = 3  BY <3>4, <1>1 DEF From3
    <3>5. CASE k = 4  BY <3>5, <1>1, <2>1 DEF From4
    <3>6. CASE k >= 5  BY <3>6, <1>1
    <3>7. QED  BY <3>1, <3>2, <3>3, <3>4, <3>5, <3>6
  <2> HIDE DEF body
  <2>3. QED  BY <2>2
<1> DEFINE scan == CHOOSE s : Is(s)
<1>3. LargeBinIndex(sz) = scan[0]  BY DEF LargeBinIndex
<1>4. Is(scan)
  <2> HIDE DEF Is
  <2>1. QED  BY <1>2
<1>5. \A k \in Nat : scan[k] = body(scan, k)
  <2> HIDE DEF body, scan
  <2>1. QED  BY <1>4
<1>6. /\ scan[5] = 125 /\ scan[4] = From4(sz) /\ scan[3] = From3(sz)
      /\ scan[2] = From2(sz) /\ scan[1] = From1(sz) /\ scan[0] = From0(sz)
  <2> HIDE DEF body, scan
  <2>5. scan[5] = 125  BY <1>5, <1>1, CodeGroups
  <2>4. scan[4] = From4(sz)  BY <1>5, <1>1, <2>5 DEF From4
  <2>3. scan[3] = From3(sz)  BY <1>5, <1>1, <2>4 DEF From3
  <2>2. scan[2] = From2(sz)  BY <1>5, <1>1, <2>3 DEF From2
  <2>1. scan[1] = From1(sz)  BY <1>5, <1>1, <2>2 DEF From1
  <2>0. scan[0] = From0(sz)  BY <1>5, <1>1, <2>1 DEF From0
  <2>6. QED  BY <2>0, <2>1, <2>2, <2>3, <2>4, <2>5
<1>7. QED  BY <1>3, <1>6

(* GetBinIndex written out.                                                  *)
LEMMA BinIndexIs ==
  ASSUME CodeTable, NEW sz \in Nat
  PROVE  GetBinIndex(sz) = IF sz < 32 THEN 0
                           ELSE IF sz <= 1024 THEN sz \div 16 - 2 ELSE From0(sz)
<1>1. CASE sz > 1024  BY <1>1, LoopEnds DEF GetBinIndex, CodeTable
<1>2. CASE sz <= 1024  BY <1>2 DEF GetBinIndex, CodeTable, kSmallBinStep
<1>3. QED  BY <1>1, <1>2

LEMMA BinIndexBounds ==
  ASSUME CodeTable, NEW sz \in Nat
  PROVE  GetBinIndex(sz) \in 0 .. 125
BY BinIndexIs DEF From0, From1, From2, From3, From4

LEMMA BinIndexMonotonic ==
  ASSUME CodeTable, NEW a \in Nat, NEW b \in Nat, a <= b
  PROVE  GetBinIndex(a) <= GetBinIndex(b)
BY BinIndexIs, SMTT(60) DEF From0, From1, From2, From3, From4
-----------------------------------------------------------------------------
(* The size classes, numbered.                                               *)
UpperBound(k) ==
    IF k <= 62 THEN 16 * (k + 2)
    ELSE IF k <= 94 THEN 1024 + 64 * (k - 62)
    ELSE IF k <= 110 THEN 3072 + 512 * (k - 94)
    ELSE IF k <= 118 THEN 11264 + 4096 * (k - 110)
    ELSE IF k <= 122 THEN 44032 + 32768 * (k - 118)
    ELSE 175104 + 262144 * (k - 122)

LEMMA ClassesAre ==
  ASSUME CodeTable
  PROVE  UpperBounds = {UpperBound(k) : k \in 0 .. 124}
<1>1. {kSmallBinStep * i : i \in kSmallBinBase .. kMaxSmallBinSize \div kSmallBinStep}
        = {UpperBound(k) : k \in 0 .. 62}
  <2>1. kMaxSmallBinSize \div kSmallBinStep = 64 /\ kSmallBinBase = 2 /\ kSmallBinStep = 16
    BY DEF CodeTable, kSmallBinStep
  <2>2. \A i \in 2 .. 64 : i - 2 \in 0 .. 62 /\ 16 * i = UpperBound(i - 2)
    BY DEF UpperBound
  <2>3. \A k \in 0 .. 62 : k + 2 \in 2 .. 64 /\ UpperBound(k) = 16 * (k + 2)
    BY DEF UpperBound
  <2>4. {16 * i : i \in 2 .. 64} = {UpperBound(k) : k \in 0 .. 62}
    <3>1. ASSUME NEW i \in 2 .. 64 PROVE \E k \in 0 .. 62 : 16 * i = UpperBound(k)
      BY <2>2
    <3>2. ASSUME NEW k \in 0 .. 62 PROVE \E i \in 2 .. 64 : 16 * i = UpperBound(k)
      BY <2>3
    <3>3. QED  BY <3>1, <3>2
  <2>5. QED  BY <2>1, <2>4
<1>2. /\ GroupCount(0) = 32 /\ GroupStep(0) = 64 /\ GroupStart(0) = 1024
      /\ GroupCount(1) = 16 /\ GroupStep(1) = 512 /\ GroupStart(1) = 3072
      /\ GroupCount(2) = 8 /\ GroupStep(2) = 4096 /\ GroupStart(2) = 11264
      /\ GroupCount(3) = 4 /\ GroupStep(3) = 32768 /\ GroupStart(3) = 44032
      /\ GroupCount(4) = 2 /\ GroupStep(4) = 262144 /\ GroupStart(4) = 175104
  <2>1. 2 ^ 0 = 1 /\ 2 ^ 1 = 2 /\ 2 ^ 2 = 4 /\ 2 ^ 3 = 8 /\ 2 ^ 4 = 16  OBVIOUS
  <2>2. 8 ^ 0 = 1 /\ 8 ^ 1 = 8 /\ 8 ^ 2 = 64 /\ 8 ^ 3 = 512 /\ 8 ^ 4 = 4096  OBVIOUS
  <2>3. /\ GroupCount(0) = 32 /\ GroupCount(1) = 16 /\ GroupCount(2) = 8
        /\ GroupCount(3) = 4 /\ GroupCount(4) = 2
    BY <2>1 DEF GroupCount, CodeTable
  <2>4. /\ GroupStep(0) = 64 /\ GroupStep(1) = 512 /\ GroupStep(2) = 4096
        /\ GroupStep(3) = 32768 /\ GroupStep(4) = 262144
    BY <2>2 DEF GroupStep, CodeTable
  <2>5. QED  BY <2>3, <2>4 DEF GroupStart, CodeTable
<1> DEFINE In(g) == {GroupStart(g) + i * GroupStep(g) : i \in 1 .. GroupCount(g)}
<1>3. /\ In(0) = {UpperBound(k) : k \in 63 .. 94}
      /\ In(1) = {UpperBound(k) : k \in 95 .. 110}
      /\ In(2) = {UpperBound(k) : k \in 111 .. 118}
      /\ In(3) = {UpperBound(k) : k \in 119 .. 122}
      /\ In(4) = {UpperBound(k) : k \in 123 .. 124}
  <2>0. In(0) = {UpperBound(k) : k \in 63 .. 94}
    <3> DEFINE bound(i) == GroupStart(0) + i * GroupStep(0)
               from == 1 .. GroupCount(0)
               to == 63 .. 94
    <3>1. \A i \in from : i + 62 \in to /\ bound(i) = UpperBound(i + 62)
      BY <1>2 DEF UpperBound
    <3>2. \A k \in to : k - 62 \in from /\ UpperBound(k) = bound(k - 62)
      BY <1>2 DEF UpperBound
    <3>3. In(0) = {bound(i) : i \in from}  OBVIOUS
    <3> HIDE DEF bound, from, to, In
    <3>4. In(0) = {UpperBound(k) : k \in to}  BY <3>1, <3>2, <3>3
    <3>5. QED  BY <3>4 DEF to
  <2>1. In(1) = {UpperBound(k) : k \in 95 .. 110}
    <3> DEFINE bound(i) == GroupStart(1) + i * GroupStep(1)
               from == 1 .. GroupCount(1)
               to == 95 .. 110
    <3>1. \A i \in from : i + 94 \in to /\ bound(i) = UpperBound(i + 94)
      BY <1>2 DEF UpperBound
    <3>2. \A k \in to : k - 94 \in from /\ UpperBound(k) = bound(k - 94)
      BY <1>2 DEF UpperBound
    <3>3. In(1) = {bound(i) : i \in from}  OBVIOUS
    <3> HIDE DEF bound, from, to, In
    <3>4. In(1) = {UpperBound(k) : k \in to}  BY <3>1, <3>2, <3>3
    <3>5. QED  BY <3>4 DEF to
  <2>2. In(2) = {UpperBound(k) : k \in 111 .. 118}
    <3> DEFINE bound(i) == GroupStart(2) + i * GroupStep(2)
               from == 1 .. GroupCount(2)
               to == 111 .. 118
    <3>1. \A i \in from : i + 110 \in to /\ bound(i) = UpperBound(i + 110)
      BY <1>2 DEF UpperBound
    <3>2. \A k \in to : k - 110 \in from /\ UpperBound(k) = bound(k - 110)
      BY <1>2 DEF UpperBound
    <3>3. In(2) = {bound(i) : i \in from}  OBVIOUS
    <3> HIDE DEF bound, from, to, In
    <3>4. In(2) = {UpperBound(k) : k \in to}  BY <3>1, <3>2, <3>3
    <3>5. QED  BY <3>4 DEF to
  <2>3. In(3) = {UpperBound(k) : k \in 119 .. 122}
    <3> DEFINE bound(i) == GroupStart(3) + i * GroupStep(3)
               from == 1 .. GroupCount(3)
               to == 119 .. 122
    <3>1. \A i \in from : i + 118 \in to /\ bound(i) = UpperBound(i + 118)
      BY <1>2 DEF UpperBound
    <3>2. \A k \in to : k - 118 \in from /\ UpperBound(k) = bound(k - 118)
      BY <1>2 DEF UpperBound
    <3>3. In(3) = {bound(i) : i \in from}  OBVIOUS
    <3> HIDE DEF bound, from, to, In
    <3>4. In(3) = {UpperBound(k) : k \in to}  BY <3>1, <3>2, <3>3
    <3>5. QED  BY <3>4 DEF to
  <2>4. In(4) = {UpperBound(k) : k \in 123 .. 124}
    <3> DEFINE bound(i) == GroupStart(4) + i * GroupStep(4)
               from == 1 .. GroupCount(4)
               to == 123 .. 124
    <3>1. \A i \in from : i + 122 \in to /\ bound(i) = UpperBound(i + 122)
      BY <1>2 DEF UpperBound
    <3>2. \A k \in to : k - 122 \in from /\ UpperBound(k) = bound(k - 122)
      BY <1>2 DEF UpperBound
    <3>3. In(4) = {bound(i) : i \in from}  OBVIOUS
    <3> HIDE DEF bound, from, to, In
    <3>4. In(4) = {UpperBound(k) : k \in to}  BY <3>1, <3>2, <3>3
    <3>5. QED  BY <3>4 DEF to
  <2>5. QED  BY <2>0, <2>1, <2>2, <2>3, <2>4
<1>4. UNION {In(g) : g \in Groups} = In(0) \union In(1) \union In(2) \union In(3) \union In(4)
  <2> HIDE DEF In
  <2>1. QED  BY DEF Groups
<1>5. UpperBounds = {UpperBound(k) : k \in 0 .. 62} \union In(0) \union In(1) \union In(2)
                      \union In(3) \union In(4)
  <2> HIDE DEF In
  <2>1. UpperBounds = {UpperBound(k) : k \in 0 .. 62} \union UNION {In(g) : g \in Groups}
    BY <1>1 DEF UpperBounds, In
  <2>2. QED  BY <2>1, <1>4
<1>6. \A k : k \in 0 .. 124 <=> \/ k \in 0 .. 62 \/ k \in 63 .. 94 \/ k \in 95 .. 110
                              \/ k \in 111 .. 118 \/ k \in 119 .. 122 \/ k \in 123 .. 124
  OBVIOUS
<1>7. QED
  <2> HIDE DEF In
  <2>1. QED  BY <1>3, <1>5, <1>6

(* A class lies below a size iff its number is below the index of the size.  *)
LEMMA ClassBelow ==
  ASSUME CodeTable, NEW sz \in Nat, sz % 16 = 0, sz >= 32, NEW k \in 0 .. 124
  PROVE  UpperBound(k) < sz <=> k < GetBinIndex(sz)
BY BinIndexIs, SMTT(60) DEF From0, From1, From2, From3, From4, UpperBound

LEMMA ClassesDiffer ==
  ASSUME NEW j \in 0 .. 124, NEW k \in 0 .. 124, j < k
  PROVE  UpperBound(j) < UpperBound(k)
BY DEF UpperBound

(* So the index counts the classes below.                                    *)
LEMMA IndexCounts ==
  ASSUME CodeTable, NEW sz \in Nat, sz % 16 = 0, sz >= 32
  PROVE  GetBinIndex(sz) = Cardinality({b \in UpperBounds : b < sz})
<1> DEFINE below == {b \in UpperBounds : b < sz}
           n == GetBinIndex(sz)
           numbers == 0 .. n - 1
           f == [k \in numbers |-> UpperBound(k)]
<1>1. n \in 0 .. 125  BY BinIndexBounds
<1>2. numbers \subseteq 0 .. 124  BY <1>1
<1>3. below = {UpperBound(k) : k \in numbers}
  <2> HIDE DEF n
  <2>1. \A k \in 0 .. 124 : UpperBound(k) < sz <=> k \in numbers
    BY ClassBelow, <1>1 DEF n
  <2>2. QED  BY <2>1, <1>2, ClassesAre
<1>4. f \in Bijection(numbers, below)
  <2> HIDE DEF n, below
  <2>1. f \in [numbers -> below]  BY <1>3
  <2>2. \A a, b \in numbers : f[a] = f[b] => a = b
    <3> SUFFICES ASSUME NEW a \in numbers, NEW b \in numbers, a < b
                 PROVE  f[a] # f[b]
      BY <1>1
    <3>1. UpperBound(a) < UpperBound(b)  BY <1>2, ClassesDiffer
    <3>2. UpperBound(a) \in Int /\ UpperBound(b) \in Int  BY <1>2 DEF UpperBound
    <3>3. QED  BY <3>1, <3>2
  <2>3. \A b \in below : \E k \in numbers : f[k] = b  BY <1>3
  <2>4. QED  BY <2>1, <2>2, <2>3 DEF Bijection, Injection, Surjection, IsInjective
<1>5. IsFiniteSet(numbers) /\ Cardinality(numbers) = n
  <2> HIDE DEF n
  <2>1. QED  BY <1>1, FS_Interval
<1>6. Cardinality(below) = Cardinality(numbers)
  <2> HIDE DEF n, below, f
  <2>1. ExistsBijection(numbers, below)  BY <1>4 DEF ExistsBijection
  <2>2. QED  BY <2>1, <1>5, FS_Bijection
<1>7. QED  BY <1>5, <1>6
-----------------------------------------------------------------------------
WalkInv == CodeTable /\ size \in Nat

LEMMA WalkKept == WalkInv /\ [Next]_size => WalkInv'
BY WalkAssumption DEF WalkInv, Next, CodeTable

(* The index of every size is the number of size classes that end below it:  *)
(* group_min, index, count and step of GetBinIndex's loop stay in step with  *)
(* each other, whatever the size.                                            *)
THEOREM IndexesAreClasses == CodeTable /\ Spec => []BinIndexCountsClasses
<1>1. CodeTable /\ Init => WalkInv  BY DEF Init, WalkInv
<1>2. WalkInv /\ [Next]_size => WalkInv'  BY WalkKept
<1>3. WalkInv => BinIndexCountsClasses
  BY IndexCounts DEF WalkInv, BinIndexCountsClasses, CodeTable, kAlignment
<1>4. QED  BY <1>1, <1>2, <1>3, PTL DEF Spec

(* A larger size never has a lower index, and none lies behind the last bin: *)
(* what FindAndRemove, which only goes up from the index of the request,     *)
(* and the bounds of its arrays rest on.                                     *)
THEOREM IndexesGrow == CodeTable /\ Spec => BinIndexMonotone
<1>1. CodeTable /\ Init => WalkInv  BY DEF Init, WalkInv
<1>2. WalkInv /\ [Next]_size => WalkInv'  BY WalkKept
<1>3. WalkInv /\ [Next]_size
        => [GetBinIndex(size) <= GetBinIndex(size') /\ GetBinIndex(size') < kBinsCount]_size
  <2> SUFFICES ASSUME WalkInv, Next
               PROVE  GetBinIndex(size) <= GetBinIndex(size')
                        /\ GetBinIndex(size') < kBinsCount
    OBVIOUS
  <2>1. size \in Nat /\ size' \in Nat /\ size <= size'
    BY WalkAssumption DEF Next, WalkInv
  <2>2. GetBinIndex(size) <= GetBinIndex(size')  BY <2>1, BinIndexMonotonic DEF WalkInv
  <2>3. GetBinIndex(size') \in 0 .. 125  BY <2>1, BinIndexBounds DEF WalkInv
  <2>4. QED  BY <2>2, <2>3 DEF CodeTable, WalkInv
<1>4. QED  BY <1>1, <1>2, <1>3, PTL DEF Spec, BinIndexMonotone

(* What the theorems about Malloc assume of its table, BinIndexAssumption,   *)
(* holds of the table of the code, for a heap of any size: indexes stay      *)
(* inside bins, those of chunks up to kFastMax (104) inside the ten fast     *)
(* bins, and they grow with the size.                                        *)
THEOREM TableOfTheCode ==
  ASSUME CodeTable
  PROVE  /\ \A g \in Nat : GetBinIndex(kAlignment * g) \in 0 .. kBinsCount - 1
         /\ \A g \in Nat : kAlignment * g <= 104 => GetBinIndex(kAlignment * g) \in 0 .. 10 - 1
         /\ \A g, h \in Nat :
               g <= h => GetBinIndex(kAlignment * g) <= GetBinIndex(kAlignment * h)
<1>1. \A g \in Nat : kAlignment * g \in Nat  BY DEF kAlignment
<1>2. \A g, h \in Nat : g <= h => kAlignment * g <= kAlignment * h  BY DEF kAlignment
<1>3. \A g \in Nat : GetBinIndex(kAlignment * g) \in 0 .. 125  BY <1>1, BinIndexBounds
<1>4. ASSUME NEW g \in Nat, kAlignment * g <= 104
      PROVE  GetBinIndex(kAlignment * g) \in 0 .. 10 - 1
  BY <1>1, <1>4, BinIndexIs DEF kAlignment
<1>5. \A g, h \in Nat : g <= h => GetBinIndex(kAlignment * g) <= GetBinIndex(kAlignment * h)
  BY <1>1, <1>2, BinIndexMonotonic
<1>6. QED  BY <1>3, <1>4, <1>5 DEF CodeTable
=============================================================================
