-------------------------- MODULE MallocListsProofs --------------------------
(***************************************************************************)
(* Theorems about MallocLists, for a heap of any size and any sequence of    *)
(* calls: the linked lists hold what the sets of Malloc hold, through every  *)
(* push, search, unlinking and consolidation, and a free of a chunk in an    *)
(* ordinary bin is always detected.                                          *)
(***************************************************************************)
EXTENDS MallocLists, MallocProofs, NaturalsInduction, WellFoundedInduction, FiniteSetTheorems

(* The nodes of S, each once, in the order s, reached from h by nx.          *)
Forward(nx, h, n, s, S) ==
    /\ \A j, k \in 1 .. n : s[j] = s[k] => j = k
    /\ S = {s[k] : k \in 1 .. n}
    /\ h = IF n = 0 THEN Null ELSE s[1]
    /\ \A k \in 1 .. n : nx[s[k]] = IF k = n THEN Null ELSE s[k + 1]

Backward(pv, n, s) == \A k \in 1 .. n : pv[s[k]] = IF k = 1 THEN Null ELSE s[k - 1]

Chained(l, h, S) == \E n \in Nat : \E s \in [1 .. n -> Addr] : Forward(l.next, h, n, s, S)

Linked(l, h, S) ==
    \E n \in Nat : \E s \in [1 .. n -> Addr] :
        Forward(l.next, h, n, s, S) /\ Backward(l.prev, n, s)

-----------------------------------------------------------------------------
(* A set of numbers has a least one.                                         *)
LEMMA NonemptyHasMin ==
    ASSUME NEW S, S \subseteq Nat, S # {}
    PROVE  \E m \in S : \A n \in S : m <= n
<1>1. PICK m \in S : \A n \in S : <<n, m>> \notin OpToRel(<, Nat)
  BY NatLessThanWellFounded, WFMin
<1>2. \A n \in S : ~(n < m)
  BY <1>1 DEF OpToRel
<1> QED BY <1>2

LEMMA AddrIsFinite == IsFiniteSet(Addr) /\ Cardinality(Addr) \in Nat
<1>1. 0 \in Int /\ kHeapLimit \in Int
  BY MallocAssumption
<1>2. IsFiniteSet(Addr)
  BY <1>1, FS_Interval DEF Addr
<1> QED BY <1>2, FS_CardinalityType

LEMMA SameCardinality == ASSUME NEW S PROVE L!Cardinality(S) = Cardinality(S)
BY DEF L!Cardinality, Cardinality

(* A chain has no more nodes than there are addresses.                       *)
LEMMA ChainIsShort ==
    ASSUME NEW n \in Nat, NEW s \in [1 .. n -> Addr], \A j, k \in 1 .. n : s[j] = s[k] => j = k
    PROVE  n <= Cardinality(Addr)
<1>1. s \in Injection(1 .. n, Addr)
  BY DEF Injection, IsInjective
<1>2. Cardinality(1 .. n) = n
  BY FS_Interval
<1>3. Cardinality(1 .. n) <= Cardinality(Addr)
  BY <1>1, AddrIsFinite, FS_Injection
<1> QED BY <1>2, <1>3

(* Reading along the pointers gives the nodes in their order: the loop that   *)
(* follows next ends, at the last of them.                                   *)
LEMMA FromIs ==
    ASSUME NEW l, NEW h, NEW n \in Nat, NEW s \in [1 .. n -> Addr], NEW S,
           Forward(l.next, h, n, s, S)
    PROVE  L!From(l, h) = s
<1> DEFINE N == L!Cardinality(Addr)
           step(f, k) == IF k = 0 THEN h
                         ELSE IF f[k - 1] \in Addr THEN l.next[f[k - 1]] ELSE Null
           Walks(f) == f = [k \in 0 .. N |-> step(f, k)]
           w == [k \in 0 .. N |-> IF k < n THEN s[k + 1] ELSE Null]
           at == CHOOSE f : Walks(f)
<1>1. N \in Nat /\ n <= N
  BY AddrIsFinite, ChainIsShort, SameCardinality DEF Forward
<1> HIDE DEF N
<1>2. Null \notin Addr
  BY NullIsNowhere
<1>3. \A k \in 0 .. N : w[k] = step(w, k)
  <2> TAKE k \in 0 .. N
  <2>1. CASE k = 0
    BY <1>1, <2>1 DEF Forward
  <2>2. CASE k # 0 /\ k <= n
    <3>1. k - 1 \in 0 .. N /\ k - 1 < n /\ k \in 1 .. n /\ (k - 1) + 1 = k
      BY <1>1, <2>2
    <3>2. w[k - 1] = s[k] /\ s[k] \in Addr
      BY <3>1
    <3>3. l.next[s[k]] = IF k = n THEN Null ELSE s[k + 1]
      BY <3>1 DEF Forward
    <3>4. w[k] = IF k = n THEN Null ELSE s[k + 1]
      BY <3>1
    <3> QED BY <2>2, <3>2, <3>3, <3>4
  <2>3. CASE k > n
    <3>1. k - 1 \in 0 .. N /\ ~(k - 1 < n) /\ ~(k < n)
      BY <1>1, <2>3
    <3>2. w[k - 1] = Null /\ w[k] = Null
      BY <3>1
    <3> QED BY <1>1, <1>2, <2>3, <3>2
  <2> QED BY <1>1, <2>1, <2>2, <2>3
<1>4. Walks(w)
  <2> HIDE DEF step
  <2> QED BY <1>3
<1>5. Walks(at)
  <2> HIDE DEF Walks
  <2> QED BY <1>4
<1>6. at = w
  <2> DEFINE apart == {k \in 0 .. N : at[k] # w[k]}
  <2>0. /\ \A k \in 0 .. N : at[k] = step(at, k)
        /\ at = [k \in 0 .. N |-> at[k]]
    <3> HIDE DEF at, step
    <3> QED BY <1>5
  <2> HIDE DEF at, w
  <2>1. ASSUME apart # {} PROVE FALSE
    <3>0. apart \subseteq Nat
      BY <1>1
    <3>1. PICK k \in apart : \A m \in apart : k <= m
      <4> HIDE DEF apart
      <4> QED BY <2>1, <3>0, NonemptyHasMin
    <3>2. at[k] = step(at, k) /\ w[k] = step(w, k)
      BY <1>3, <2>0, <3>1
    <3>3. k # 0
      BY <3>1, <3>2
    <3>4. k - 1 \in 0 .. N /\ k - 1 \notin apart
      BY <1>1, <3>1, <3>3
    <3>5. at[k - 1] = w[k - 1]
      BY <3>4
    <3> QED BY <3>1, <3>2, <3>3, <3>5
  <2>2. \A k \in 0 .. N : at[k] = w[k]
    BY <2>1
  <2> QED BY <2>0, <2>2 DEF w
<1>7. {k \in DOMAIN w : w[k] \in Addr} = 0 .. n - 1
  <2>1. \A k \in 0 .. N : w[k] \in Addr <=> k < n
    BY <1>1, <1>2
  <2> QED BY <1>1, <2>1
<1>8. Cardinality(0 .. n - 1) = n
  BY FS_Interval
<1>9. L!From(l, h) = [k \in 1 .. L!Cardinality({k \in DOMAIN at : at[k] \in Addr}) |-> at[k - 1]]
  BY Zenon DEF L!From, N
<1>10. L!From(l, h) = [k \in 1 .. n |-> w[k - 1]]
  <2> HIDE DEF at, w
  <2> QED BY <1>6, <1>7, <1>8, <1>9, SameCardinality
<1>11. \A k \in 1 .. n : w[k - 1] = s[k]
  BY <1>1
<1> QED
  <2> HIDE DEF w
  <2> QED BY <1>10, <1>11

(* A list has as many nodes as its set has members.                          *)
LEMMA ForwardCounts ==
    ASSUME NEW nx, NEW h, NEW n \in Nat, NEW s \in [1 .. n -> Addr], NEW S,
           Forward(nx, h, n, s, S)
    PROVE  Cardinality(S) = n
<1>1. s \in Bijection(1 .. n, S)
  BY DEF Forward, Bijection, Injection, Surjection, IsInjective
<1>2. IsFiniteSet(1 .. n) /\ Cardinality(1 .. n) = n
  BY FS_Interval
<1>3. ExistsBijection(1 .. n, S)
  BY <1>1 DEF ExistsBijection
<1> QED BY <1>2, <1>3, FS_Bijection

-----------------------------------------------------------------------------
(* A list and what the client is told of it.                                 *)

(* The model checker's reading of a list agrees with this one.               *)
LEMMA LinkedIsListOf ==
    ASSUME NEW l, NEW h, NEW S, Linked(l, h, S)
    PROVE  L!IsListOf(l, h, S)
<1>0. PICK n \in Nat : \E s \in [1 .. n -> Addr] : Forward(l.next, h, n, s, S) /\ Backward(l.prev, n, s)
  BY DEF Linked
<1>1. PICK s \in [1 .. n -> Addr] : Forward(l.next, h, n, s, S) /\ Backward(l.prev, n, s)
  BY <1>0
<1>2. L!From(l, h) = s /\ Len(s) = n /\ DOMAIN s = 1 .. n
  BY <1>1, FromIs
<1>3. Cardinality(S) = n
  BY <1>1, ForwardCounts
<1>4. {s[k] : k \in 1 .. n} = S
  BY <1>1 DEF Forward
<1>5. h # Null => l.prev[h] = Null
  BY <1>1 DEF Forward, Backward
<1>6. \A k \in 2 .. n : l.prev[s[k]] = s[k - 1]
  BY <1>1 DEF Backward
<1> QED BY <1>2, <1>3, <1>4, <1>5, <1>6, SameCardinality DEF L!IsListOf

LEMMA ChainedIsRead ==
    ASSUME NEW l, NEW h, NEW S, Chained(l, h, S)
    PROVE  LET nodes == L!From(l, h)
           IN  Len(nodes) = Cardinality(S) /\ {nodes[k] : k \in DOMAIN nodes} = S
<1>0. PICK n \in Nat : \E s \in [1 .. n -> Addr] : Forward(l.next, h, n, s, S)
  BY DEF Chained
<1>1. PICK s \in [1 .. n -> Addr] : Forward(l.next, h, n, s, S)
  BY <1>0
<1>2. L!From(l, h) = s /\ Len(s) = n /\ DOMAIN s = 1 .. n
  BY <1>1, FromIs
<1>3. Cardinality(S) = n
  BY <1>1, ForwardCounts
<1>4. {s[k] : k \in 1 .. n} = S
  BY <1>1 DEF Forward
<1> QED BY <1>2, <1>3, <1>4

(* Only the pointers in its own nodes matter to a list.                      *)
LEMMA ListFrame ==
    ASSUME NEW l, NEW m, NEW h, NEW S, Linked(l, h, S),
           \A x \in S : m.next[x] = l.next[x] /\ m.prev[x] = l.prev[x]
    PROVE  Linked(m, h, S)
<1>0. PICK n \in Nat : \E s \in [1 .. n -> Addr] : Forward(l.next, h, n, s, S) /\ Backward(l.prev, n, s)
  BY DEF Linked
<1>1. PICK s \in [1 .. n -> Addr] : Forward(l.next, h, n, s, S) /\ Backward(l.prev, n, s)
  BY <1>0
<1>2. \A k \in 1 .. n : s[k] \in S
  BY <1>1 DEF Forward
<1>3. Forward(m.next, h, n, s, S) /\ Backward(m.prev, n, s)
  BY <1>1, <1>2 DEF Forward, Backward
<1> QED BY <1>3 DEF Linked

LEMMA ChainFrame ==
    ASSUME NEW l, NEW m, NEW h, NEW S, Chained(l, h, S), \A x \in S : m.next[x] = l.next[x]
    PROVE  Chained(m, h, S)
<1>0. PICK n \in Nat : \E s \in [1 .. n -> Addr] : Forward(l.next, h, n, s, S)
  BY DEF Chained
<1>1. PICK s \in [1 .. n -> Addr] : Forward(l.next, h, n, s, S)
  BY <1>0
<1>2. \A k \in 1 .. n : s[k] \in S
  BY <1>1 DEF Forward
<1>3. Forward(m.next, h, n, s, S)
  BY <1>1, <1>2 DEF Forward
<1> QED BY <1>3 DEF Chained

LEMMA EmptyList == \A l : Linked(l, Null, {}) /\ Chained(l, Null, {})
<1> TAKE l
<1> DEFINE s == [k \in 1 .. 0 |-> 0]
<1>1. s \in [1 .. 0 -> Addr] /\ 0 \in Nat
  OBVIOUS
<1>2. Forward(l.next, Null, 0, s, {}) /\ Backward(l.prev, 0, s)
  BY DEF Forward, Backward
<1> HIDE DEF s
<1> QED BY <1>1, <1>2 DEF Linked, Chained

(* The head of a chain is one of its nodes; without nodes it is null.        *)
LEMMA ChainHead ==
    ASSUME NEW l, NEW h, NEW S, Chained(l, h, S)
    PROVE  IF S = {} THEN h = Null ELSE h \in S
<1>0. PICK n \in Nat : \E s \in [1 .. n -> Addr] : Forward(l.next, h, n, s, S)
  BY DEF Chained
<1>1. PICK s \in [1 .. n -> Addr] : Forward(l.next, h, n, s, S)
  BY <1>0
<1>2. CASE n = 0
  <2>1. S = {} /\ h = Null
    BY <1>1, <1>2 DEF Forward
  <2> QED BY <2>1
<1>3. CASE n # 0
  <2>1. 1 \in 1 .. n
    BY <1>3
  <2>2. h \in S
    BY <1>1, <1>3, <2>1 DEF Forward
  <2> QED BY <2>2
<1> QED BY <1>2, <1>3

LEMMA LinkedIsChained ==
    ASSUME NEW l, NEW h, NEW S, Linked(l, h, S)
    PROVE  Chained(l, h, S)
BY DEF Linked, Chained

(* AddNode: c goes before the head.                                          *)
LEMMA ListWith ==
    ASSUME NEW l, NEW m, NEW h, NEW S, NEW c \in Addr, c \notin S, Linked(l, h, S),
           m.next[c] = h, m.prev[c] = Null,
           \A x \in S : /\ m.next[x] = l.next[x]
                        /\ m.prev[x] = IF x = h THEN c ELSE l.prev[x]
    PROVE  Linked(m, c, S \union {c})
<1>0. PICK n \in Nat : \E s \in [1 .. n -> Addr] : Forward(l.next, h, n, s, S) /\ Backward(l.prev, n, s)
  BY DEF Linked
<1>1. PICK s \in [1 .. n -> Addr] : Forward(l.next, h, n, s, S) /\ Backward(l.prev, n, s)
  BY <1>0
<1> DEFINE t == [k \in 1 .. n + 1 |-> IF k = 1 THEN c ELSE s[k - 1]]
<1>2. \A k \in 1 .. n : s[k] \in S
  BY <1>1 DEF Forward
<1>3. n + 1 \in Nat /\ t \in [1 .. n + 1 -> Addr] /\ t[1] = c
  OBVIOUS
<1>4. \A k \in 1 .. n + 1 : k # 1 => k - 1 \in 1 .. n /\ t[k] = s[k - 1] /\ t[k] # c
  BY <1>2
<1>5. \A k \in 1 .. n : k + 1 \in 1 .. n + 1 /\ t[k + 1] = s[k]
  OBVIOUS
<1> HIDE DEF t
<1>6. \A j, k \in 1 .. n + 1 : t[j] = t[k] => j = k
  <2> TAKE j, k \in 1 .. n + 1
  <2> HAVE t[j] = t[k]
  <2>1. CASE j = 1 \/ k = 1
    BY <1>3, <1>4, <2>1
  <2>2. CASE j # 1 /\ k # 1
    <3>1. s[j - 1] = s[k - 1] /\ j - 1 \in 1 .. n /\ k - 1 \in 1 .. n
      BY <1>4, <2>2
    <3>2. j - 1 = k - 1
      BY <1>1, <3>1 DEF Forward
    <3> QED BY <3>2
  <2> QED BY <2>1, <2>2
<1>7. S \union {c} = {t[k] : k \in 1 .. n + 1}
  <2>1. \A x : x \in S <=> \E k \in 1 .. n : x = s[k]
    BY <1>1 DEF Forward
  <2>2. \A x \in S : \E k \in 1 .. n + 1 : x = t[k]
    BY <2>1, <1>5
  <2>3. \A k \in 1 .. n + 1 : t[k] \in S \union {c}
    BY <1>2, <1>3, <1>4
  <2>4. c = t[1] /\ 1 \in 1 .. n + 1
    BY <1>3
  <2> QED BY <2>2, <2>3, <2>4
<1>8. \A k \in 1 .. n + 1 : m.next[t[k]] = IF k = n + 1 THEN Null ELSE t[k + 1]
  <2> TAKE k \in 1 .. n + 1
  <2>1. CASE k = 1
    BY <2>1, <1>1, <1>3, <1>5 DEF Forward
  <2>2. CASE k # 1
    <3>1. k - 1 \in 1 .. n /\ t[k] = s[k - 1] /\ (k - 1) + 1 = k
      BY <1>4, <2>2
    <3>2. m.next[t[k]] = IF k - 1 = n THEN Null ELSE s[k]
      BY <1>1, <1>2, <3>1 DEF Forward
    <3>3. k # n + 1 => k \in 1 .. n
      OBVIOUS
    <3> QED BY <3>1, <3>2, <3>3, <1>5
  <2> QED BY <2>1, <2>2
<1>9. \A k \in 1 .. n + 1 : m.prev[t[k]] = IF k = 1 THEN Null ELSE t[k - 1]
  <2> TAKE k \in 1 .. n + 1
  <2>1. CASE k = 1
    BY <2>1, <1>3
  <2>2. CASE k # 1
    <3>1. k - 1 \in 1 .. n /\ t[k] = s[k - 1] /\ 1 \in 1 .. n /\ n # 0
      BY <1>4, <2>2
    <3>2. h = s[1]
      BY <1>1, <3>1 DEF Forward
    <3>3. s[k - 1] = h <=> k - 1 = 1
      BY <1>1, <3>1, <3>2 DEF Forward
    <3>4. CASE k - 1 = 1
      BY <3>1, <3>3, <3>4, <1>2, <1>3
    <3>5. CASE k - 1 # 1
      <4>1. m.prev[t[k]] = l.prev[s[k - 1]]
        BY <3>1, <3>3, <3>5, <1>2
      <4>2. l.prev[s[k - 1]] = s[k - 2]
        BY <1>1, <3>1, <3>5 DEF Backward
      <4>3. k - 1 \in 1 .. n + 1 /\ k - 1 # 1 /\ (k - 1) - 1 = k - 2
        BY <3>1, <3>5
      <4>4. t[k - 1] = s[k - 2]
        BY <1>4, <4>3
      <4> QED BY <2>2, <4>1, <4>2, <4>4
    <3> QED BY <3>4, <3>5
  <2> QED BY <2>1, <2>2
<1>10. Forward(m.next, c, n + 1, t, S \union {c}) /\ Backward(m.prev, n + 1, t)
  BY <1>3, <1>6, <1>7, <1>8, <1>9 DEF Forward, Backward
<1> QED BY <1>3, <1>10 DEF Linked

(* The neighbours of a node are nodes of the same list, or null.             *)
LEMMA Neighbours ==
    ASSUME NEW l, NEW h, NEW S, NEW c \in S, Linked(l, h, S)
    PROVE  /\ l.prev[c] \in (S \ {c}) \union {Null}
           /\ l.next[c] \in (S \ {c}) \union {Null}
<1>0. PICK n \in Nat : \E s \in [1 .. n -> Addr] : Forward(l.next, h, n, s, S) /\ Backward(l.prev, n, s)
  BY DEF Linked
<1>1. PICK s \in [1 .. n -> Addr] : Forward(l.next, h, n, s, S) /\ Backward(l.prev, n, s)
  BY <1>0
<1>2. PICK i \in 1 .. n : c = s[i]
  BY <1>1 DEF Forward
<1>3. \A k \in 1 .. n : s[k] \in S /\ (s[k] = c => k = i)
  BY <1>1, <1>2 DEF Forward
<1>4. l.prev[c] = IF i = 1 THEN Null ELSE s[i - 1]
  BY <1>1, <1>2 DEF Backward
<1>5. l.next[c] = IF i = n THEN Null ELSE s[i + 1]
  BY <1>1, <1>2 DEF Forward
<1>6. i # 1 => i - 1 \in 1 .. n /\ i - 1 # i
  OBVIOUS
<1>7. i # n => i + 1 \in 1 .. n /\ i + 1 # i
  OBVIOUS
<1>8. l.prev[c] \in (S \ {c}) \union {Null}
  BY <1>3, <1>4, <1>6
<1>9. l.next[c] \in (S \ {c}) \union {Null}
  BY <1>3, <1>5, <1>7
<1> QED BY <1>8, <1>9

(* In the nodes of S, m is l with p and q linked to each other.              *)
Bypassed(l, m, p, q, S) ==
    \A x \in S : /\ m.next[x] = IF x = p THEN q ELSE l.next[x]
                 /\ m.prev[x] = IF x = q THEN p ELSE l.prev[x]

(* RemoveNode: the neighbours of c are linked to each other.                  *)
LEMMA ListWithout ==
    ASSUME NEW l, NEW m, NEW h, NEW S, NEW c \in S, Linked(l, h, S),
           NEW p, p = l.prev[c], NEW q, q = l.next[c],
           NEW g, g = IF p = Null THEN q ELSE h,
           Bypassed(l, m, p, q, S \ {c})
    PROVE  Linked(m, g, S \ {c})
<1>0. PICK n \in Nat : \E s \in [1 .. n -> Addr] : Forward(l.next, h, n, s, S) /\ Backward(l.prev, n, s)
  BY DEF Linked
<1>1. PICK s \in [1 .. n -> Addr] : Forward(l.next, h, n, s, S) /\ Backward(l.prev, n, s)
  BY <1>0
<1>2. PICK i \in 1 .. n : c = s[i]
  BY <1>1 DEF Forward
<1> DEFINE t == [k \in 1 .. n - 1 |-> IF k < i THEN s[k] ELSE s[k + 1]]
<1>3. \A k \in 1 .. n : s[k] \in S /\ s[k] # Null /\ (s[k] = c => k = i)
  BY <1>1, <1>2, NullIsNowhere DEF Forward
<1>4. p = IF i = 1 THEN Null ELSE s[i - 1]
  BY <1>1, <1>2 DEF Backward
<1>5. q = IF i = n THEN Null ELSE s[i + 1]
  BY <1>1, <1>2 DEF Forward
<1>8. n - 1 \in Nat /\ t \in [1 .. n - 1 -> Addr]
  OBVIOUS
<1>9. \A k \in 1 .. n - 1 : k < i => k \in 1 .. n /\ t[k] = s[k]
  OBVIOUS
<1>10. \A k \in 1 .. n - 1 : ~(k < i) => k + 1 \in 1 .. n /\ t[k] = s[k + 1]
  OBVIOUS
<1> HIDE DEF t
<1>11. \A k \in 1 .. n - 1 : t[k] \in S \ {c}
  <2> TAKE k \in 1 .. n - 1
  <2>1. CASE k < i
    BY <2>1, <1>3, <1>9
  <2>2. CASE ~(k < i)
    BY <2>2, <1>3, <1>10
  <2> QED BY <2>1, <2>2
<1>12. \A j, k \in 1 .. n - 1 : t[j] = t[k] => j = k
  <2> TAKE j, k \in 1 .. n - 1
  <2> HAVE t[j] = t[k]
  <2> DEFINE at(x) == IF x < i THEN x ELSE x + 1
  <2>1. at(j) \in 1 .. n /\ at(k) \in 1 .. n
    OBVIOUS
  <2>2. t[j] = s[at(j)] /\ t[k] = s[at(k)]
    BY <1>9, <1>10
  <2>3. at(j) = at(k)
    <3> HIDE DEF at
    <3> QED BY <1>1, <2>1, <2>2 DEF Forward
  <2> QED BY <2>3
<1>13. S \ {c} = {t[k] : k \in 1 .. n - 1}
  <2>1. ASSUME NEW x \in S \ {c}
        PROVE  \E k \in 1 .. n - 1 : x = t[k]
    <3>1. PICK k \in 1 .. n : x = s[k]
      BY <1>1 DEF Forward
    <3>2. k # i
      BY <3>1, <2>1, <1>2
    <3>3. CASE k < i
      <4>1. k \in 1 .. n - 1
        BY <3>3
      <4> QED BY <4>1, <3>1, <3>3, <1>9
    <3>4. CASE k > i
      <4>1. k - 1 \in 1 .. n - 1 /\ ~(k - 1 < i) /\ (k - 1) + 1 = k
        BY <3>4
      <4>2. t[k - 1] = s[k]
        BY <4>1, <1>10
      <4> QED BY <4>1, <4>2, <3>1
    <3> QED BY <3>2, <3>3, <3>4
  <2> QED BY <2>1, <1>11
<1>14. g = IF n - 1 = 0 THEN Null ELSE t[1]
  <2>0. h = s[1]
    BY <1>1 DEF Forward
  <2>1. CASE i = 1 /\ n = 1
    BY <2>1, <1>4, <1>5
  <2>2. CASE i = 1 /\ n # 1
    <3>1. 1 \in 1 .. n - 1 /\ ~(1 < i)
      BY <2>2
    <3>2. t[1] = s[2]
      BY <3>1, <1>10
    <3> QED BY <2>2, <3>1, <3>2, <1>4, <1>5
  <2>3. CASE i # 1
    <3>1. 1 \in 1 .. n - 1 /\ 1 < i /\ i - 1 \in 1 .. n
      BY <2>3
    <3>2. t[1] = s[1] /\ p # Null
      BY <2>3, <3>1, <1>3, <1>4, <1>9
    <3> QED BY <2>0, <3>1, <3>2
  <2> QED BY <2>1, <2>2, <2>3
<1>15. \A k \in 1 .. n - 1 : m.next[t[k]] = IF k = n - 1 THEN Null ELSE t[k + 1]
  <2> TAKE k \in 1 .. n - 1
  <2>0. m.next[t[k]] = IF t[k] = p THEN q ELSE l.next[t[k]]
    BY <1>11 DEF Bypassed
  <2>1. CASE k < i - 1
    <3>1. k \in 1 .. n /\ i - 1 \in 1 .. n /\ i # 1 /\ k + 1 \in 1 .. n - 1 /\ k + 1 < i /\ k < i
      BY <2>1
    <3>2. t[k] = s[k] /\ t[k + 1] = s[k + 1] /\ p = s[i - 1]
      BY <3>1, <1>4, <1>9
    <3>3. s[k] # s[i - 1]
      BY <1>1, <2>1, <3>1 DEF Forward
    <3>4. l.next[s[k]] = s[k + 1] /\ k # n - 1
      BY <1>1, <2>1, <3>1 DEF Forward
    <3> QED BY <2>0, <3>2, <3>3, <3>4
  <2>2. CASE k = i - 1
    <3>1. k < i /\ i # 1
      BY <2>2
    <3>2. t[k] = s[k] /\ p = s[k]
      BY <3>1, <2>2, <1>4, <1>9
    <3>3. i = n <=> k = n - 1
      BY <2>2
    <3>4. k # n - 1 => k + 1 \in 1 .. n - 1 /\ ~(k + 1 < i) /\ (k + 1) + 1 = i + 1
      BY <2>2
    <3>5. k # n - 1 => t[k + 1] = s[i + 1]
      BY <3>4, <1>10
    <3> QED BY <2>0, <3>2, <3>3, <3>5, <1>5
  <2>3. CASE ~(k < i)
    <3>1. k + 1 \in 1 .. n /\ t[k] = s[k + 1]
      BY <2>3, <1>10
    <3>2. t[k] # p
      <4>1. i # 1 => i - 1 \in 1 .. n /\ i - 1 # k + 1
        BY <2>3
      <4>2. i # 1 => s[k + 1] # s[i - 1]
        BY <1>1, <3>1, <4>1 DEF Forward
      <4> QED BY <3>1, <4>2, <1>3, <1>4
    <3>3. l.next[s[k + 1]] = IF k + 1 = n THEN Null ELSE s[(k + 1) + 1]
      BY <1>1, <3>1 DEF Forward
    <3>4. k + 1 # n => k + 1 \in 1 .. n - 1 /\ ~(k + 1 < i)
      BY <2>3
    <3>5. k + 1 # n => t[k + 1] = s[(k + 1) + 1]
      BY <3>4, <1>10
    <3>6. k + 1 = n <=> k = n - 1
      OBVIOUS
    <3> QED BY <2>0, <3>1, <3>2, <3>3, <3>5, <3>6
  <2> QED BY <2>1, <2>2, <2>3
<1>16. \A k \in 1 .. n - 1 : m.prev[t[k]] = IF k = 1 THEN Null ELSE t[k - 1]
  <2> TAKE k \in 1 .. n - 1
  <2>0. m.prev[t[k]] = IF t[k] = q THEN p ELSE l.prev[t[k]]
    BY <1>11 DEF Bypassed
  <2>1. CASE k < i
    <3>1. k \in 1 .. n /\ t[k] = s[k]
      BY <2>1, <1>9
    <3>2. t[k] # q
      <4>1. i # n => i + 1 \in 1 .. n /\ i + 1 # k
        BY <2>1
      <4>2. i # n => s[k] # s[i + 1]
        BY <1>1, <3>1, <4>1 DEF Forward
      <4> QED BY <3>1, <4>2, <1>3, <1>5
    <3>3. l.prev[s[k]] = IF k = 1 THEN Null ELSE s[k - 1]
      BY <1>1, <3>1 DEF Backward
    <3>4. k # 1 => k - 1 \in 1 .. n - 1 /\ k - 1 < i
      BY <2>1
    <3>5. k # 1 => t[k - 1] = s[k - 1]
      BY <3>4, <1>9
    <3> QED BY <2>0, <3>1, <3>2, <3>3, <3>5
  <2>2. CASE k = i
    <3>1. ~(k < i) /\ i # n
      BY <2>2
    <3>2. t[k] = s[i + 1] /\ q = s[i + 1]
      BY <2>2, <3>1, <1>5, <1>10
    <3>3. k # 1 => k - 1 \in 1 .. n - 1 /\ k - 1 < i
      BY <2>2
    <3>4. k # 1 => t[k - 1] = s[i - 1]
      BY <2>2, <3>3, <1>9
    <3> QED BY <2>0, <2>2, <3>2, <3>4, <1>4
  <2>3. CASE k > i
    <3>1. ~(k < i) /\ k # 1 /\ k - 1 \in 1 .. n - 1 /\ ~(k - 1 < i) /\ (k - 1) + 1 = k
      BY <2>3
    <3>2. t[k] = s[k + 1] /\ t[k - 1] = s[k] /\ k + 1 \in 1 .. n
      BY <3>1, <1>10
    <3>3. t[k] # q
      <4>1. i # n => i + 1 \in 1 .. n /\ i + 1 # k + 1
        BY <2>3
      <4>2. i # n => s[k + 1] # s[i + 1]
        BY <1>1, <3>2, <4>1 DEF Forward
      <4> QED BY <3>2, <4>2, <1>3, <1>5
    <3>4. l.prev[s[k + 1]] = s[k]
      <4>1. k + 1 # 1 /\ (k + 1) - 1 = k
        OBVIOUS
      <4> QED BY <1>1, <3>2, <4>1 DEF Backward
    <3> QED BY <2>0, <3>1, <3>2, <3>3, <3>4
  <2> QED BY <2>1, <2>2, <2>3
<1>17. Forward(m.next, g, n - 1, t, S \ {c}) /\ Backward(m.prev, n - 1, t)
  <2> QED BY <1>12, <1>13, <1>14, <1>15, <1>16 DEF Forward, Backward
<1> QED BY <1>8, <1>17 DEF Linked

(* Consolidation follows next from the chain's first node to the rest.       *)
LEMMA ChainTail ==
    ASSUME NEW l, NEW h, NEW S, Chained(l, h, S), S # {}
    PROVE  h \in S /\ Chained(l, l.next[h], S \ {h})
<1>0. PICK n \in Nat : \E s \in [1 .. n -> Addr] : Forward(l.next, h, n, s, S)
  BY DEF Chained
<1>1. PICK s \in [1 .. n -> Addr] : Forward(l.next, h, n, s, S)
  BY <1>0
<1> DEFINE t == [k \in 1 .. n - 1 |-> s[k + 1]]
<1>2. n # 0 /\ 1 \in 1 .. n /\ h = s[1] /\ h \in S
  <2>1. n # 0
    BY <1>1 DEF Forward
  <2> QED BY <1>1, <2>1 DEF Forward
<1>3. n - 1 \in Nat /\ t \in [1 .. n - 1 -> Addr]
  BY <1>2
<1>4. \A k \in 1 .. n - 1 : t[k] = s[k + 1] /\ k + 1 \in 1 .. n /\ k + 1 # 1
  OBVIOUS
<1> HIDE DEF t
<1>5. \A j, k \in 1 .. n - 1 : t[j] = t[k] => j = k
  <2> TAKE j, k \in 1 .. n - 1
  <2>1. t[j] = t[k] => j + 1 = k + 1
    BY <1>1, <1>4 DEF Forward
  <2> QED BY <2>1
<1>6. S \ {h} = {t[k] : k \in 1 .. n - 1}
  <2>1. ASSUME NEW x \in S \ {h}
        PROVE  \E k \in 1 .. n - 1 : x = t[k]
    <3>1. PICK k \in 1 .. n : x = s[k]
      BY <1>1 DEF Forward
    <3>2. k - 1 \in 1 .. n - 1 /\ (k - 1) + 1 = k
      BY <3>1, <1>2
    <3>3. t[k - 1] = s[k]
      BY <1>4, <3>2
    <3> QED BY <3>1, <3>2, <3>3
  <2>2. \A k \in 1 .. n - 1 : t[k] \in S /\ t[k] # h
    <3> TAKE k \in 1 .. n - 1
    <3>1. s[k + 1] \in S
      BY <1>1, <1>4 DEF Forward
    <3>2. s[k + 1] # s[1]
      BY <1>1, <1>2, <1>4 DEF Forward
    <3> QED BY <3>1, <3>2, <1>2, <1>4
  <2> QED BY <2>1, <2>2
<1>7. l.next[h] = IF n - 1 = 0 THEN Null ELSE t[1]
  <2>1. l.next[h] = IF 1 = n THEN Null ELSE s[2]
    BY <1>1, <1>2 DEF Forward
  <2>2. n - 1 # 0 => 1 \in 1 .. n - 1 /\ 1 + 1 = 2
    BY <1>2
  <2>3. n - 1 # 0 => t[1] = s[2]
    BY <2>2, <1>4
  <2> QED BY <2>1, <2>3
<1>8. \A k \in 1 .. n - 1 : l.next[t[k]] = IF k = n - 1 THEN Null ELSE t[k + 1]
  <2> TAKE k \in 1 .. n - 1
  <2>1. l.next[t[k]] = IF k + 1 = n THEN Null ELSE s[(k + 1) + 1]
    BY <1>1, <1>4 DEF Forward
  <2>2. k # n - 1 => k + 1 \in 1 .. n - 1
    OBVIOUS
  <2>3. k # n - 1 => t[k + 1] = s[(k + 1) + 1]
    BY <2>2, <1>4
  <2> QED BY <2>1, <2>3
<1>9. Forward(l.next, l.next[h], n - 1, t, S \ {h})
  BY <1>5, <1>6, <1>7, <1>8 DEF Forward
<1> QED BY <1>2, <1>3, <1>9 DEF Chained

(* The nodes of T are those of s, each pointing to the one before it and the  *)
(* first to h.                                                               *)
Reversed(l, h, n, s, T) ==
    /\ \A j, k \in 1 .. n : s[j] = s[k] => j = k
    /\ T = {s[k] : k \in 1 .. n}
    /\ \A k \in 1 .. n : l.next[s[k]] = IF k = 1 THEN h ELSE s[k - 1]

(* ExtractAll, for one bin: each node comes to point to the one before it,   *)
(* the first to the chain h of the bins before.                              *)
LEMMA ChainOnto ==
    ASSUME NEW l, NEW h, NEW S, Chained(l, h, S),
           NEW n \in Nat, n # 0, NEW s \in [1 .. n -> Addr], NEW T,
           Reversed(l, h, n, s, T), T \intersect S = {}
    PROVE  Chained(l, s[n], S \union T)
<1>0. PICK n0 \in Nat : \E u \in [1 .. n0 -> Addr] : Forward(l.next, h, n0, u, S)
  BY DEF Chained
<1>1. PICK u \in [1 .. n0 -> Addr] : Forward(l.next, h, n0, u, S)
  BY <1>0
<1> DEFINE N == n + n0
           t == [k \in 1 .. N |-> IF k <= n THEN s[n + 1 - k] ELSE u[k - n]]
<1>2. N \in Nat /\ N # 0 /\ t \in [1 .. N -> Addr]
  <2>1. \A k \in 1 .. N : k <= n => n + 1 - k \in 1 .. n
    OBVIOUS
  <2>2. \A k \in 1 .. N : ~(k <= n) => k - n \in 1 .. n0
    OBVIOUS
  <2> QED BY <2>1, <2>2
<1>3. \A k \in 1 .. N : k <= n => n + 1 - k \in 1 .. n /\ t[k] = s[n + 1 - k]
  OBVIOUS
<1>4. \A k \in 1 .. N : ~(k <= n) => k - n \in 1 .. n0 /\ t[k] = u[k - n]
  OBVIOUS
<1> HIDE DEF t
<1>5. \A k \in 1 .. n : s[k] \in T
  BY DEF Reversed
<1>6. \A k \in 1 .. n0 : u[k] \in S
  BY <1>1 DEF Forward
<1>7. \A j, k \in 1 .. N : t[j] = t[k] => j = k
  <2> TAKE j, k \in 1 .. N
  <2> HAVE t[j] = t[k]
  <2>1. CASE j <= n /\ k <= n
    <3>1. n + 1 - j = n + 1 - k
      BY <2>1, <1>3 DEF Reversed
    <3> QED BY <3>1
  <2>2. CASE ~(j <= n) /\ ~(k <= n)
    <3>1. j - n = k - n
      BY <2>2, <1>1, <1>4 DEF Forward
    <3> QED BY <3>1
  <2>3. CASE j <= n /\ ~(k <= n)
    <3>1. t[j] \in T /\ t[k] \in S
      BY <2>3, <1>3, <1>4, <1>5, <1>6
    <3> QED BY <3>1
  <2>4. CASE ~(j <= n) /\ k <= n
    <3>1. t[k] \in T /\ t[j] \in S
      BY <2>4, <1>3, <1>4, <1>5, <1>6
    <3> QED BY <3>1
  <2> QED BY <2>1, <2>2, <2>3, <2>4
<1>8. S \union T = {t[k] : k \in 1 .. N}
  <2>1. \A k \in 1 .. N : t[k] \in S \union T
    BY <1>3, <1>4, <1>5, <1>6
  <2>2. ASSUME NEW x \in T
        PROVE  \E k \in 1 .. N : x = t[k]
    <3>1. PICK k \in 1 .. n : x = s[k]
      BY DEF Reversed
    <3>2. n + 1 - k \in 1 .. N /\ n + 1 - k <= n /\ n + 1 - (n + 1 - k) = k
      OBVIOUS
    <3>3. t[n + 1 - k] = s[k]
      BY <3>2, <1>3
    <3> QED BY <3>1, <3>2, <3>3
  <2>3. ASSUME NEW x \in S
        PROVE  \E k \in 1 .. N : x = t[k]
    <3>1. PICK k \in 1 .. n0 : x = u[k]
      BY <1>1 DEF Forward
    <3>2. k + n \in 1 .. N /\ ~(k + n <= n) /\ (k + n) - n = k
      OBVIOUS
    <3>3. t[k + n] = u[k]
      BY <3>2, <1>4
    <3> QED BY <3>1, <3>2, <3>3
  <2>4. \A x : x \in S \union T <=> \E k \in 1 .. N : x = t[k]
    <3> HIDE DEF N
    <3> TAKE x
    <3>1. ASSUME x \in S \union T PROVE \E k \in 1 .. N : x = t[k]
      BY <3>1, <2>2, <2>3
    <3>2. ASSUME \E k \in 1 .. N : x = t[k] PROVE x \in S \union T
      BY <3>2, <2>1
    <3> QED BY <3>1, <3>2
  <2> HIDE DEF N
  <2> QED BY <2>4
<1>9. s[n] = t[1]
  <2>1. 1 \in 1 .. N /\ 1 <= n /\ n + 1 - 1 = n
    OBVIOUS
  <2> QED BY <2>1, <1>3
<1>10. \A k \in 1 .. N : l.next[t[k]] = IF k = N THEN Null ELSE t[k + 1]
  <2> TAKE k \in 1 .. N
  <2>1. CASE k < n
    <3>1. k <= n /\ n + 1 - k \in 1 .. n /\ n + 1 - k # 1 /\ (n + 1 - k) - 1 = n + 1 - (k + 1)
          /\ k + 1 \in 1 .. N /\ k + 1 <= n /\ k # N
      BY <2>1
    <3>2. t[k] = s[n + 1 - k] /\ t[k + 1] = s[n + 1 - (k + 1)]
      BY <3>1, <1>3
    <3> QED BY <3>1, <3>2 DEF Reversed
  <2>2. CASE k = n
    <3>1. k <= n /\ n + 1 - k = 1 /\ 1 \in 1 .. n /\ (k = N <=> n0 = 0)
      BY <2>2
    <3>2. t[k] = s[1] /\ l.next[s[1]] = h
      BY <3>1, <1>3 DEF Reversed
    <3>3. h = IF n0 = 0 THEN Null ELSE u[1]
      BY <1>1 DEF Forward
    <3>4. n0 # 0 => k + 1 \in 1 .. N /\ ~(k + 1 <= n) /\ (k + 1) - n = 1
      BY <2>2
    <3>5. n0 # 0 => t[k + 1] = u[1]
      BY <3>4, <1>4
    <3> QED BY <3>1, <3>2, <3>3, <3>5
  <2>3. CASE k > n
    <3>1. ~(k <= n) /\ k - n \in 1 .. n0 /\ (k = N <=> k - n = n0)
      BY <2>3
    <3>2. t[k] = u[k - n]
      BY <3>1, <1>4
    <3>3. l.next[u[k - n]] = IF k - n = n0 THEN Null ELSE u[(k - n) + 1]
      BY <3>1, <1>1 DEF Forward
    <3>4. k # N => k + 1 \in 1 .. N /\ ~(k + 1 <= n) /\ (k + 1) - n = (k - n) + 1
      BY <2>3
    <3>5. k # N => t[k + 1] = u[(k - n) + 1]
      BY <3>4, <1>4
    <3> QED BY <3>1, <3>2, <3>3, <3>5
  <2> QED BY <2>1, <2>2, <2>3
<1> HIDE DEF N
<1>11. Forward(l.next, s[n], N, t, S \union T)
  BY <1>2, <1>7, <1>8, <1>9, <1>10 DEF Forward
<1> QED BY <1>2, <1>11 DEF Chained

-----------------------------------------------------------------------------
(* All the lists together.                                                   *)

Words == Addr \union {Null, Junk}
ListType == [heads : [fast : [FastBins -> Words], bins : [Bins -> Words]],
             next : [Addr -> Words], prev : [Addr -> Words]]

(* Each list of l holds the chunks of its bin.                               *)
Kept(l, f, b) ==
    /\ l \in ListType
    /\ \A i \in FastBins : Linked(l, l.heads.fast[i], f[i])
    /\ \A i \in Bins : Linked(l, l.heads.bins[i], b[i])

(* No chunk is in two of the bins f and b or in one and in S.                *)
Apart(f, b, S) ==
    /\ f \in [FastBins -> SUBSET Addr] /\ b \in [Bins -> SUBSET Addr] /\ S \subseteq Addr
    /\ \A i, j \in FastBins : \A x \in f[i] : x \in f[j] => i = j
    /\ \A i, j \in Bins : \A x \in b[i] : x \in b[j] => i = j
    /\ \A i \in FastBins : \A j \in Bins : \A x \in f[i] : x \notin b[j]
    /\ \A i \in FastBins : \A x \in f[i] : x \notin S
    /\ \A i \in Bins : \A x \in b[i] : x \notin S

(* What RemoveNode does, field by field.                                     *)
LEMMA RemoveNodeIs ==
    ASSUME NEW l \in ListType, NEW c \in Addr, NEW p, p = l.prev[c], NEW q, q = l.next[c]
    PROVE  /\ p \in Words /\ q \in Words
           /\ \A i \in Bins : LET m == L!RemoveNode(l, "bins", i, c)
                              IN  /\ m \in ListType /\ m.heads.fast = l.heads.fast
                                  /\ \A j \in Bins : m.heads.bins[j] =
                                        IF j = i /\ p = Null THEN q ELSE l.heads.bins[j]
                                  /\ \A x \in Addr : /\ m.next[x] = IF x = p THEN q ELSE l.next[x]
                                                     /\ m.prev[x] = IF x = q THEN p ELSE l.prev[x]
           /\ \A i \in FastBins : LET m == L!RemoveNode(l, "fast", i, c)
                              IN  /\ m \in ListType /\ m.heads.bins = l.heads.bins
                                  /\ \A j \in FastBins : m.heads.fast[j] =
                                        IF j = i /\ p = Null THEN q ELSE l.heads.fast[j]
                                  /\ \A x \in Addr : /\ m.next[x] = IF x = p THEN q ELSE l.next[x]
                                                     /\ m.prev[x] = IF x = q THEN p ELSE l.prev[x]
<1>1. p \in Words /\ q \in Words
  BY DEF ListType
<1>2. ASSUME NEW i \in Bins
      PROVE  LET m == L!RemoveNode(l, "bins", i, c)
             IN  /\ m \in ListType /\ m.heads.fast = l.heads.fast
                 /\ \A j \in Bins : m.heads.bins[j] =
                       IF j = i /\ p = Null THEN q ELSE l.heads.bins[j]
                 /\ \A x \in Addr : /\ m.next[x] = IF x = p THEN q ELSE l.next[x]
                                    /\ m.prev[x] = IF x = q THEN p ELSE l.prev[x]
  BY <1>1 DEF L!RemoveNode, ListType
<1>3. ASSUME NEW i \in FastBins
      PROVE  LET m == L!RemoveNode(l, "fast", i, c)
             IN  /\ m \in ListType /\ m.heads.bins = l.heads.bins
                 /\ \A j \in FastBins : m.heads.fast[j] =
                       IF j = i /\ p = Null THEN q ELSE l.heads.fast[j]
                 /\ \A x \in Addr : /\ m.next[x] = IF x = p THEN q ELSE l.next[x]
                                    /\ m.prev[x] = IF x = q THEN p ELSE l.prev[x]
  BY <1>1 DEF L!RemoveNode, ListType
<1> QED BY <1>1, <1>2, <1>3

LEMMA AddNodeIs ==
    ASSUME NEW l \in ListType, NEW c \in Addr
    PROVE  /\ \A i \in Bins : LET m == L!AddNode(l, "bins", i, c)
                                  h == l.heads.bins[i]
                              IN  /\ m \in ListType /\ m.heads.fast = l.heads.fast
                                  /\ \A j \in Bins : m.heads.bins[j] =
                                        IF j = i THEN c ELSE l.heads.bins[j]
                                  /\ \A x \in Addr :
                                        /\ m.next[x] = IF x = c THEN h ELSE l.next[x]
                                        /\ m.prev[x] = IF x = c THEN Null
                                                       ELSE IF x = h THEN c ELSE l.prev[x]
           /\ \A i \in FastBins : LET m == L!AddNode(l, "fast", i, c)
                                      h == l.heads.fast[i]
                              IN  /\ m \in ListType /\ m.heads.bins = l.heads.bins
                                  /\ \A j \in FastBins : m.heads.fast[j] =
                                        IF j = i THEN c ELSE l.heads.fast[j]
                                  /\ \A x \in Addr :
                                        /\ m.next[x] = IF x = c THEN h ELSE l.next[x]
                                        /\ m.prev[x] = IF x = c THEN Null
                                                       ELSE IF x = h THEN c ELSE l.prev[x]
<1>1. ASSUME NEW i \in Bins
      PROVE  LET m == L!AddNode(l, "bins", i, c)
                 h == l.heads.bins[i]
             IN  /\ m \in ListType /\ m.heads.fast = l.heads.fast
                 /\ \A j \in Bins : m.heads.bins[j] = IF j = i THEN c ELSE l.heads.bins[j]
                 /\ \A x \in Addr : /\ m.next[x] = IF x = c THEN h ELSE l.next[x]
                                    /\ m.prev[x] = IF x = c THEN Null
                                                   ELSE IF x = h THEN c ELSE l.prev[x]
  BY DEF L!AddNode, ListType, Words
<1>2. ASSUME NEW i \in FastBins
      PROVE  LET m == L!AddNode(l, "fast", i, c)
                 h == l.heads.fast[i]
             IN  /\ m \in ListType /\ m.heads.bins = l.heads.bins
                 /\ \A j \in FastBins : m.heads.fast[j] = IF j = i THEN c ELSE l.heads.fast[j]
                 /\ \A x \in Addr : /\ m.next[x] = IF x = c THEN h ELSE l.next[x]
                                    /\ m.prev[x] = IF x = c THEN Null
                                                   ELSE IF x = h THEN c ELSE l.prev[x]
  BY DEF L!AddNode, ListType, Words
<1> QED BY <1>1, <1>2

(* RemoveNode and AddNode on one of the bins: the other lists, and whatever  *)
(* chain lies elsewhere, are as they were.                                   *)
LEMMA UnlinkedBin ==
    ASSUME NEW l, NEW f, NEW b, NEW S, Kept(l, f, b), Apart(f, b, S),
           NEW i \in Bins, NEW c \in b[i],
           NEW m, m = L!RemoveNode(l, "bins", i, c), NEW g, g = [b EXCEPT ![i] = @ \ {c}]
    PROVE  /\ Kept(m, f, g) /\ Apart(f, g, S)
           /\ \A x \in Addr : x \notin b[i] => m.next[x] = l.next[x] /\ m.prev[x] = l.prev[x]
<1> DEFINE p == l.prev[c]
           q == l.next[c]
<1>1. l \in ListType /\ c \in Addr /\ g \in [Bins -> SUBSET Addr]
      /\ b \in [Bins -> SUBSET Addr]
  BY DEF Kept, Apart
<1>2. /\ m \in ListType /\ m.heads.fast = l.heads.fast
      /\ \A j \in Bins : m.heads.bins[j] = IF j = i /\ p = Null THEN q ELSE l.heads.bins[j]
      /\ \A x \in Addr : /\ m.next[x] = IF x = p THEN q ELSE l.next[x]
                         /\ m.prev[x] = IF x = q THEN p ELSE l.prev[x]
  BY <1>1, RemoveNodeIs
<1>3. Linked(l, l.heads.bins[i], b[i])
  BY DEF Kept
<1>4. /\ Linked(m, IF p = Null THEN q ELSE l.heads.bins[i], b[i] \ {c})
      /\ p \in b[i] \union {Null} /\ q \in b[i] \union {Null}
  <2>0. p = l.prev[c] /\ q = l.next[c] /\ b[i] \subseteq Addr
    BY <1>1
  <2> HIDE DEF p, q
  <2>1. Bypassed(l, m, p, q, b[i] \ {c})
    BY <2>0, <1>2 DEF Bypassed
  <2> DEFINE h == l.heads.bins[i]
           e == IF p = Null THEN q ELSE h
           B == b[i]
  <2>2. Linked(l, h, B) /\ c \in B /\ e = IF p = Null THEN q ELSE h
    BY <1>3
  <2>3. Bypassed(l, m, p, q, B \ {c})
    BY <2>1
  <2>4. /\ Linked(m, e, B \ {c})
        /\ p \in (B \ {c}) \union {Null} /\ q \in (B \ {c}) \union {Null}
    <3> HIDE DEF h, B, e
    <3>1. p = l.prev[c] /\ q = l.next[c]
      BY <2>0
    <3>2. Linked(m, e, B \ {c})
      BY <3>1, <2>2, <2>3, ListWithout
    <3>3. p \in (B \ {c}) \union {Null} /\ q \in (B \ {c}) \union {Null}
      BY <3>1, <2>2, Neighbours
    <3> QED BY <3>2, <3>3
  <2> QED BY <2>4
<1> HIDE DEF p, q
<1>5. \A x \in Addr : x \notin b[i] => m.next[x] = l.next[x] /\ m.prev[x] = l.prev[x]
  BY <1>2, <1>4, NullIsNowhere
<1>6. \A j \in Bins : Linked(m, m.heads.bins[j], g[j])
  <2> TAKE j \in Bins
  <2>1. CASE j = i
    <3>1. g[j] = b[i] \ {c} /\ m.heads.bins[j] = IF p = Null THEN q ELSE l.heads.bins[i]
      BY <2>1, <1>1, <1>2
    <3> QED BY <3>1, <1>4
  <2>2. CASE j # i
    <3>1. g[j] = b[j] /\ m.heads.bins[j] = l.heads.bins[j] /\ b[j] \subseteq Addr
      BY <2>2, <1>1, <1>2
    <3>2. \A x \in b[j] : x \notin b[i]
      BY <2>2 DEF Apart
    <3>3. Linked(l, l.heads.bins[j], b[j])
      BY DEF Kept
    <3> QED BY <3>1, <3>2, <3>3, <1>5, ListFrame
  <2> QED BY <2>1, <2>2
<1>7. \A j \in FastBins : Linked(m, m.heads.fast[j], f[j])
  <2> TAKE j \in FastBins
  <2>1. \A x \in f[j] : x \notin b[i] /\ x \in Addr
    BY DEF Apart
  <2>2. Linked(l, l.heads.fast[j], f[j])
    BY DEF Kept
  <2> QED BY <2>1, <2>2, <1>2, <1>5, ListFrame
<1>8. \A j \in Bins : \A x : x \in g[j] => x \in b[j]
  BY <1>1
<1>9. Apart(f, g, S)
  BY <1>1, <1>8 DEF Apart
<1> QED BY <1>2, <1>5, <1>6, <1>7, <1>9 DEF Kept

LEMMA LinkedBin ==
    ASSUME NEW l, NEW f, NEW b, NEW S, Kept(l, f, b), Apart(f, b, S),
           NEW i \in Bins, NEW c \in Addr, c \notin S,
           \A j \in FastBins : c \notin f[j], \A j \in Bins : c \notin b[j],
           NEW m, m = L!AddNode(l, "bins", i, c), NEW g, g = [b EXCEPT ![i] = @ \union {c}]
    PROVE  /\ Kept(m, f, g) /\ Apart(f, g, S)
           /\ \A x \in Addr : x # c => m.next[x] = l.next[x]
<1> DEFINE h == l.heads.bins[i]
<1>1. l \in ListType /\ g \in [Bins -> SUBSET Addr] /\ b \in [Bins -> SUBSET Addr]
  BY DEF Kept, Apart
<1>2. /\ m \in ListType /\ m.heads.fast = l.heads.fast
      /\ \A j \in Bins : m.heads.bins[j] = IF j = i THEN c ELSE l.heads.bins[j]
      /\ \A x \in Addr : /\ m.next[x] = IF x = c THEN h ELSE l.next[x]
                         /\ m.prev[x] = IF x = c THEN Null ELSE IF x = h THEN c ELSE l.prev[x]
  BY <1>1, AddNodeIs
<1>3. Linked(l, h, b[i])
  BY DEF Kept
<1>4. h \in b[i] \union {Null}
  BY <1>3, LinkedIsChained, ChainHead
<1>5. Linked(m, c, b[i] \union {c})
  <2> HIDE DEF h
  <2>1. \A x \in b[i] : /\ m.next[x] = l.next[x]
                        /\ m.prev[x] = IF x = h THEN c ELSE l.prev[x]
    BY <1>1, <1>2
  <2> QED BY <2>1, <1>2, <1>3, ListWith
<1> HIDE DEF h
<1>6. \A x \in Addr : x # c /\ x \notin b[i] => m.next[x] = l.next[x] /\ m.prev[x] = l.prev[x]
  BY <1>2, <1>4, NullIsNowhere
<1>7. \A j \in Bins : Linked(m, m.heads.bins[j], g[j])
  <2> TAKE j \in Bins
  <2>1. CASE j = i
    <3>1. g[j] = b[i] \union {c} /\ m.heads.bins[j] = c
      BY <2>1, <1>1, <1>2
    <3> QED BY <3>1, <1>5
  <2>2. CASE j # i
    <3>1. g[j] = b[j] /\ m.heads.bins[j] = l.heads.bins[j] /\ b[j] \subseteq Addr
      BY <2>2, <1>1, <1>2
    <3>2. \A x \in b[j] : x \notin b[i] /\ x # c
      BY <2>2 DEF Apart
    <3>3. Linked(l, l.heads.bins[j], b[j])
      BY DEF Kept
    <3> QED BY <3>1, <3>2, <3>3, <1>6, ListFrame
  <2> QED BY <2>1, <2>2
<1>8. \A j \in FastBins : Linked(m, m.heads.fast[j], f[j])
  <2> TAKE j \in FastBins
  <2>1. \A x \in f[j] : x \notin b[i] /\ x # c /\ x \in Addr
    BY DEF Apart
  <2>2. Linked(l, l.heads.fast[j], f[j])
    BY DEF Kept
  <2> QED BY <2>1, <2>2, <1>2, <1>6, ListFrame
<1>9. \A j \in Bins : \A x : x \in g[j] <=> x \in b[j] \/ (j = i /\ x = c)
  BY <1>1
<1>10. Apart(f, g, S)
  BY <1>1, <1>9 DEF Apart
<1> QED BY <1>2, <1>7, <1>8, <1>10 DEF Kept

LEMMA UnlinkedFastBin ==
    ASSUME NEW l, NEW f, NEW b, NEW S, Kept(l, f, b), Apart(f, b, S),
           NEW i \in FastBins, NEW c \in f[i],
           NEW m, m = L!RemoveNode(l, "fast", i, c), NEW g, g = [f EXCEPT ![i] = @ \ {c}]
    PROVE  /\ Kept(m, g, b) /\ Apart(g, b, S)
           /\ \A x \in Addr : x \notin f[i] => m.next[x] = l.next[x] /\ m.prev[x] = l.prev[x]
<1> DEFINE p == l.prev[c]
           q == l.next[c]
<1>1. l \in ListType /\ c \in Addr /\ g \in [FastBins -> SUBSET Addr]
      /\ f \in [FastBins -> SUBSET Addr]
  BY DEF Kept, Apart
<1>2. /\ m \in ListType /\ m.heads.bins = l.heads.bins
      /\ \A j \in FastBins : m.heads.fast[j] = IF j = i /\ p = Null THEN q ELSE l.heads.fast[j]
      /\ \A x \in Addr : /\ m.next[x] = IF x = p THEN q ELSE l.next[x]
                         /\ m.prev[x] = IF x = q THEN p ELSE l.prev[x]
  BY <1>1, RemoveNodeIs
<1>3. Linked(l, l.heads.fast[i], f[i])
  BY DEF Kept
<1>4. /\ Linked(m, IF p = Null THEN q ELSE l.heads.fast[i], f[i] \ {c})
      /\ p \in f[i] \union {Null} /\ q \in f[i] \union {Null}
  <2>0. p = l.prev[c] /\ q = l.next[c] /\ f[i] \subseteq Addr
    BY <1>1
  <2> HIDE DEF p, q
  <2>1. Bypassed(l, m, p, q, f[i] \ {c})
    BY <2>0, <1>2 DEF Bypassed
  <2> DEFINE h == l.heads.fast[i]
           e == IF p = Null THEN q ELSE h
           B == f[i]
  <2>2. Linked(l, h, B) /\ c \in B /\ e = IF p = Null THEN q ELSE h
    BY <1>3
  <2>3. Bypassed(l, m, p, q, B \ {c})
    BY <2>1
  <2>4. /\ Linked(m, e, B \ {c})
        /\ p \in (B \ {c}) \union {Null} /\ q \in (B \ {c}) \union {Null}
    <3> HIDE DEF h, B, e
    <3>1. p = l.prev[c] /\ q = l.next[c]
      BY <2>0
    <3>2. Linked(m, e, B \ {c})
      BY <3>1, <2>2, <2>3, ListWithout
    <3>3. p \in (B \ {c}) \union {Null} /\ q \in (B \ {c}) \union {Null}
      BY <3>1, <2>2, Neighbours
    <3> QED BY <3>2, <3>3
  <2> QED BY <2>4
<1> HIDE DEF p, q
<1>5. \A x \in Addr : x \notin f[i] => m.next[x] = l.next[x] /\ m.prev[x] = l.prev[x]
  BY <1>2, <1>4, NullIsNowhere
<1>6. \A j \in FastBins : Linked(m, m.heads.fast[j], g[j])
  <2> TAKE j \in FastBins
  <2>1. CASE j = i
    <3>1. g[j] = f[i] \ {c} /\ m.heads.fast[j] = IF p = Null THEN q ELSE l.heads.fast[i]
      BY <2>1, <1>1, <1>2
    <3> QED BY <3>1, <1>4
  <2>2. CASE j # i
    <3>1. g[j] = f[j] /\ m.heads.fast[j] = l.heads.fast[j] /\ f[j] \subseteq Addr
      BY <2>2, <1>1, <1>2
    <3>2. \A x \in f[j] : x \notin f[i]
      BY <2>2 DEF Apart
    <3>3. Linked(l, l.heads.fast[j], f[j])
      BY DEF Kept
    <3> QED BY <3>1, <3>2, <3>3, <1>5, ListFrame
  <2> QED BY <2>1, <2>2
<1>7. \A j \in Bins : Linked(m, m.heads.bins[j], b[j])
  <2> TAKE j \in Bins
  <2>1. \A x \in b[j] : x \notin f[i] /\ x \in Addr
    BY DEF Apart
  <2>2. Linked(l, l.heads.bins[j], b[j])
    BY DEF Kept
  <2> QED BY <2>1, <2>2, <1>2, <1>5, ListFrame
<1>8. \A j \in FastBins : \A x : x \in g[j] => x \in f[j]
  BY <1>1
<1>9. Apart(g, b, S)
  BY <1>1, <1>8 DEF Apart
<1> QED BY <1>2, <1>5, <1>6, <1>7, <1>9 DEF Kept

LEMMA LinkedFastBin ==
    ASSUME NEW l, NEW f, NEW b, NEW S, Kept(l, f, b), Apart(f, b, S),
           NEW i \in FastBins, NEW c \in Addr, c \notin S,
           \A j \in FastBins : c \notin f[j], \A j \in Bins : c \notin b[j],
           NEW m, m = L!AddNode(l, "fast", i, c), NEW g, g = [f EXCEPT ![i] = @ \union {c}]
    PROVE  /\ Kept(m, g, b) /\ Apart(g, b, S)
           /\ \A x \in Addr : x # c => m.next[x] = l.next[x]
<1> DEFINE h == l.heads.fast[i]
<1>1. l \in ListType /\ g \in [FastBins -> SUBSET Addr] /\ f \in [FastBins -> SUBSET Addr]
  BY DEF Kept, Apart
<1>2. /\ m \in ListType /\ m.heads.bins = l.heads.bins
      /\ \A j \in FastBins : m.heads.fast[j] = IF j = i THEN c ELSE l.heads.fast[j]
      /\ \A x \in Addr : /\ m.next[x] = IF x = c THEN h ELSE l.next[x]
                         /\ m.prev[x] = IF x = c THEN Null ELSE IF x = h THEN c ELSE l.prev[x]
  BY <1>1, AddNodeIs
<1>3. Linked(l, h, f[i])
  BY DEF Kept
<1>4. h \in f[i] \union {Null}
  BY <1>3, LinkedIsChained, ChainHead
<1>5. Linked(m, c, f[i] \union {c})
  <2> HIDE DEF h
  <2>1. \A x \in f[i] : /\ m.next[x] = l.next[x]
                        /\ m.prev[x] = IF x = h THEN c ELSE l.prev[x]
    BY <1>1, <1>2
  <2> QED BY <2>1, <1>2, <1>3, ListWith
<1> HIDE DEF h
<1>6. \A x \in Addr : x # c /\ x \notin f[i] => m.next[x] = l.next[x] /\ m.prev[x] = l.prev[x]
  BY <1>2, <1>4, NullIsNowhere
<1>7. \A j \in FastBins : Linked(m, m.heads.fast[j], g[j])
  <2> TAKE j \in FastBins
  <2>1. CASE j = i
    <3>1. g[j] = f[i] \union {c} /\ m.heads.fast[j] = c
      BY <2>1, <1>1, <1>2
    <3> QED BY <3>1, <1>5
  <2>2. CASE j # i
    <3>1. g[j] = f[j] /\ m.heads.fast[j] = l.heads.fast[j] /\ f[j] \subseteq Addr
      BY <2>2, <1>1, <1>2
    <3>2. \A x \in f[j] : x \notin f[i] /\ x # c
      BY <2>2 DEF Apart
    <3>3. Linked(l, l.heads.fast[j], f[j])
      BY DEF Kept
    <3> QED BY <3>1, <3>2, <3>3, <1>6, ListFrame
  <2> QED BY <2>1, <2>2
<1>8. \A j \in Bins : Linked(m, m.heads.bins[j], b[j])
  <2> TAKE j \in Bins
  <2>1. \A x \in b[j] : x \notin f[i] /\ x # c /\ x \in Addr
    BY DEF Apart
  <2>2. Linked(l, l.heads.bins[j], b[j])
    BY DEF Kept
  <2> QED BY <2>1, <2>2, <1>2, <1>6, ListFrame
<1>9. \A j \in FastBins : \A x : x \in g[j] <=> x \in f[j] \/ (j = i /\ x = c)
  BY <1>1
<1>10. Apart(g, b, S)
  BY <1>1, <1>9 DEF Apart
<1> QED BY <1>2, <1>7, <1>8, <1>10 DEF Kept

-----------------------------------------------------------------------------
(* Reading a list, as a sequence.                                            *)
LEMMA ReadsForward ==
    ASSUME NEW l, NEW h, NEW S, Linked(l, h, S)
    PROVE  LET s == L!From(l, h)
           IN  /\ Len(s) \in Nat /\ s \in [1 .. Len(s) -> Addr] /\ DOMAIN s = 1 .. Len(s)
               /\ s = <<>> <=> Len(s) = 0
               /\ Forward(l.next, h, Len(s), s, S)
<1>0. PICK n \in Nat : \E s \in [1 .. n -> Addr] : Forward(l.next, h, n, s, S) /\ Backward(l.prev, n, s)
  BY DEF Linked
<1>1. PICK s \in [1 .. n -> Addr] : Forward(l.next, h, n, s, S) /\ Backward(l.prev, n, s)
  BY <1>0
<1>2. L!From(l, h) = s
  BY <1>1, FromIs
<1>3. Len(s) = n /\ DOMAIN s = 1 .. n
  OBVIOUS
<1>4. s = <<>> <=> n = 0
  OBVIOUS
<1> QED BY <1>1, <1>2, <1>3, <1>4

(* What the walk over the bins of l reads: bin i holds the chunks f[i].      *)
Reads(of, f) ==
    /\ DOMAIN of = FastBins /\ f \in [FastBins -> SUBSET Addr]
    /\ \A i \in FastBins :
          /\ Len(of[i]) \in Nat /\ of[i] \in [1 .. Len(of[i]) -> Addr]
          /\ DOMAIN of[i] = 1 .. Len(of[i]) /\ (of[i] = <<>> <=> Len(of[i]) = 0)
          /\ \A j, k \in 1 .. Len(of[i]) : of[i][j] = of[i][k] => j = k
          /\ f[i] = {of[i][k] : k \in 1 .. Len(of[i])}
    /\ \A i, j \in FastBins : \A x \in f[i] : x \in f[j] => i = j

Below(f, n) == {x \in Addr : \E j \in FastBins : j < n /\ x \in f[j]}

LEMMA ChainsRead ==
    ASSUME NEW l, NEW f, NEW b, NEW S, Kept(l, f, b), Apart(f, b, S)
    PROVE  Reads(L!Chains(l, "fast"), f)
<1> DEFINE of == L!Chains(l, "fast")
<1>1. l.heads.fast \in [FastBins -> Words]
  BY DEF Kept, ListType
<1>2. of = [i \in FastBins |-> L!From(l, l.heads.fast[i])]
  BY <1>1 DEF L!Chains
<1> HIDE DEF of
<1>3. ASSUME NEW i \in FastBins
      PROVE  /\ Len(of[i]) \in Nat /\ of[i] \in [1 .. Len(of[i]) -> Addr]
             /\ DOMAIN of[i] = 1 .. Len(of[i]) /\ (of[i] = <<>> <=> Len(of[i]) = 0)
             /\ \A j, k \in 1 .. Len(of[i]) : of[i][j] = of[i][k] => j = k
             /\ f[i] = {of[i][k] : k \in 1 .. Len(of[i])}
  <2>1. of[i] = L!From(l, l.heads.fast[i])
    BY <1>2
  <2>2. Linked(l, l.heads.fast[i], f[i])
    BY DEF Kept
  <2>3. /\ Len(of[i]) \in Nat /\ of[i] \in [1 .. Len(of[i]) -> Addr]
        /\ DOMAIN of[i] = 1 .. Len(of[i]) /\ (of[i] = <<>> <=> Len(of[i]) = 0)
        /\ Forward(l.next, l.heads.fast[i], Len(of[i]), of[i], f[i])
    BY <2>1, <2>2, ReadsForward
  <2> QED BY <2>3 DEF Forward
<1>4. DOMAIN of = FastBins
  BY <1>2
<1>5. /\ f \in [FastBins -> SUBSET Addr]
      /\ \A i, j \in FastBins : \A x \in f[i] : x \in f[j] => i = j
  BY DEF Apart
<1>6. Reads(of, f)
  BY <1>3, <1>4, <1>5 DEF Reads
<1> QED BY <1>6 DEF of

(* The node ExtractAll came by before the k-th of bin i.                     *)
LEMMA CameBeforeIs ==
    ASSUME NEW of, NEW f, Reads(of, f), NEW i \in FastBins, NEW k \in 1 .. Len(of[i])
    PROVE  L!CameBefore(of, of[i][k]) = IF k > 1 THEN of[i][k - 1] ELSE L!LastBelow(of, i)
<1> DEFINE c == of[i][k]
           ii == CHOOSE j \in DOMAIN of : \E kk \in DOMAIN of[j] : of[j][kk] = c
           at == CHOOSE kk \in DOMAIN of[ii] : of[ii][kk] = c
<1>1. \A j \in FastBins : DOMAIN of[j] = 1 .. Len(of[j])
  BY DEF Reads
<1>2. i \in DOMAIN of /\ k \in DOMAIN of[i] /\ c \in f[i]
  BY DEF Reads
<1>3. \A j \in DOMAIN of : (\E kk \in DOMAIN of[j] : of[j][kk] = c) => j = i
  <2> TAKE j \in DOMAIN of
  <2> HAVE \E kk \in DOMAIN of[j] : of[j][kk] = c
  <2>1. j \in FastBins /\ c \in f[j]
    BY DEF Reads
  <2> QED BY <1>2, <2>1 DEF Reads
<1>4. ii = i
  <2>1. \E j \in DOMAIN of : \E kk \in DOMAIN of[j] : of[j][kk] = c
    BY <1>2
  <2> HIDE DEF c
  <2>2. ii \in DOMAIN of /\ \E kk \in DOMAIN of[ii] : of[ii][kk] = c
    BY <2>1
  <2> QED BY <2>2, <1>3
<1>5. \A kk \in DOMAIN of[i] : of[i][kk] = c => kk = k
  BY <1>1 DEF Reads
<1>6. at = k
  <2> HIDE DEF c, ii
  <2>1. at = CHOOSE kk \in DOMAIN of[i] : of[i][kk] = c
    BY <1>4
  <2>2. of[i][k] = c
    BY DEF c
  <2> HIDE DEF at
  <2>3. at \in DOMAIN of[i] /\ of[i][at] = c
    BY <1>2, <2>1, <2>2
  <2> QED BY <1>5, <2>3
<1>7. L!CameBefore(of, c) = IF at > 1 THEN of[ii][at - 1] ELSE L!LastBelow(of, ii)
  BY Zenon DEF L!CameBefore
<1> QED BY <1>4, <1>6, <1>7

LEMMA LastBelowIs ==
    ASSUME NEW of, NEW f, Reads(of, f)
    PROVE  /\ L!LastBelow(of, 0) = Null /\ Below(f, 0) = {}
           /\ \A n \in FastBins :
                 IF of[n] = <<>>
                 THEN L!LastBelow(of, n + 1) = L!LastBelow(of, n) /\ Below(f, n + 1) = Below(f, n)
                 ELSE /\ L!LastBelow(of, n + 1) = of[n][Len(of[n])]
                      /\ Below(f, n + 1) = Below(f, n) \union f[n]
                      /\ f[n] \intersect Below(f, n) = {}
<1> DEFINE full(n) == {j \in DOMAIN of : j < n /\ of[j] # <<>>}
<1>1. FastBins \subseteq Nat /\ DOMAIN of = FastBins
  BY MallocAssumption DEF FastBins, Reads
<1>2. \A n : L!LastBelow(of, n) =
               IF full(n) = {} THEN Null ELSE of[L!Greatest(full(n))][Len(of[L!Greatest(full(n))])]
  BY Zenon DEF L!LastBelow
<1>3. L!LastBelow(of, 0) = Null /\ Below(f, 0) = {}
  <2>1. full(0) = {}
    BY <1>1
  <2>2. Below(f, 0) = {}
    BY <1>1 DEF Below
  <2> HIDE DEF full
  <2> QED BY <1>2, <2>1, <2>2
<1>4. ASSUME NEW n \in FastBins, of[n] = <<>>
      PROVE  L!LastBelow(of, n + 1) = L!LastBelow(of, n) /\ Below(f, n + 1) = Below(f, n)
  <2>1. n \in Nat /\ \A j \in FastBins : j < n + 1 <=> (j < n \/ j = n)
    BY <1>1
  <2>2. full(n + 1) = full(n)
    BY <1>1, <1>4, <2>1
  <2>3. f[n] = {}
    BY <1>4 DEF Reads
  <2>4. Below(f, n + 1) = Below(f, n)
    BY <2>1, <2>3 DEF Below
  <2> HIDE DEF full
  <2>5. L!LastBelow(of, n + 1) = L!LastBelow(of, n)
    BY <1>2, <2>2
  <2> QED BY <2>4, <2>5
<1>5. ASSUME NEW n \in FastBins, of[n] # <<>>
      PROVE  /\ L!LastBelow(of, n + 1) = of[n][Len(of[n])]
             /\ Below(f, n + 1) = Below(f, n) \union f[n]
             /\ f[n] \intersect Below(f, n) = {}
  <2>1. n \in Nat /\ \A j \in FastBins : j < n + 1 <=> (j < n \/ j = n)
    BY <1>1
  <2>2. n \in full(n + 1) /\ \A j \in full(n + 1) : j <= n /\ j \in Nat
    <3>1. n \in DOMAIN of /\ n < n + 1 /\ of[n] # <<>>
      BY <1>1, <1>5, <2>1
    <3>2. ASSUME NEW j \in DOMAIN of, j < n + 1
          PROVE  j <= n /\ j \in Nat
      <4>1. j \in Nat /\ n \in Nat
        BY <1>1, <2>1
      <4> QED BY <4>1, <3>2
    <3> QED BY <3>1, <3>2
  <2>3. L!Greatest(full(n + 1)) = n
    <3> DEFINE F == full(n + 1)
               g == CHOOSE x \in F : \A y \in F : y <= x
    <3>1. n \in F /\ \A j \in F : j <= n /\ j \in Nat
      BY <2>2
    <3>2. L!Greatest(F) = g
      BY DEF L!Greatest
    <3> HIDE DEF F
    <3>3. g \in F /\ \A y \in F : y <= g
      BY <3>1
    <3>4. g <= n /\ n <= g /\ g \in Nat
      BY <3>1, <3>3
    <3>5. g = n
      <4> HIDE DEF g
      <4> QED BY <2>1, <3>4
    <3> QED BY <3>2, <3>5 DEF F
  <2>4. L!LastBelow(of, n + 1) = of[n][Len(of[n])]
    <3> HIDE DEF full
    <3>1. full(n + 1) # {}
      BY <2>2
    <3> QED BY <3>1, <1>2, <2>3
  <2>5. f[n] \subseteq Addr
    BY DEF Reads
  <2>6. Below(f, n + 1) = Below(f, n) \union f[n]
    BY <2>1, <2>5 DEF Below
  <2>7. f[n] \intersect Below(f, n) = {}
    BY <2>1, <1>1 DEF Below, Reads
  <2> QED BY <2>4, <2>6, <2>7
<1> QED BY <1>3, <1>4, <1>5

(* ExtractAll leaves the fast bins empty, and one chain through all that was *)
(* in them, from the node it returns.                                        *)
LEMMA ExtractAllChains ==
    ASSUME NEW l, NEW f, NEW b, NEW S, Kept(l, f, b), Apart(f, b, S),
           NEW m, m = L!ExtractAll(l, "fast"), NEW g, g = [i \in FastBins |-> {}]
    PROVE  Kept(m, g, b) /\ Chained(m, L!Extracted(l, "fast"), Members(f))
<1> DEFINE of == L!Chains(l, "fast")
           nodes == UNION {{of[i][k] : k \in DOMAIN of[i]} : i \in DOMAIN of}
<1>1. l \in ListType /\ Reads(of, f)
  BY ChainsRead DEF Kept
<1>2. /\ m = [l EXCEPT !.heads["fast"] = [i \in DOMAIN @ |-> Null],
                       !.next = [c \in Addr |-> IF c \in nodes THEN L!CameBefore(of, c) ELSE @[c]]]
      /\ L!Extracted(l, "fast") = L!LastBelow(of, L!Cardinality(DOMAIN l.heads["fast"]))
  BY Zenon DEF L!ExtractAll, L!Extracted
<1> HIDE DEF of
<1>3. \A x : x \in nodes <=> \E i \in FastBins : x \in f[i]
  <2>1. \A i \in FastBins : {of[i][k] : k \in DOMAIN of[i]} = f[i]
    BY <1>1 DEF Reads
  <2>2. DOMAIN of = FastBins
    BY <1>1 DEF Reads
  <2> QED BY <2>1, <2>2
<1> HIDE DEF nodes
<1>4. /\ m.heads = [fast |-> [i \in FastBins |-> Null], bins |-> l.heads.bins]
      /\ m.prev = l.prev
      /\ m.next = [c \in Addr |-> IF c \in nodes THEN L!CameBefore(of, c) ELSE l.next[c]]
      /\ m = [heads |-> m.heads, next |-> m.next, prev |-> m.prev]
  BY <1>1, <1>2 DEF ListType
<1>5. ASSUME NEW i \in FastBins, NEW k \in 1 .. Len(of[i])
      PROVE  /\ of[i][k] \in f[i] /\ of[i][k] \in Addr
             /\ m.next[of[i][k]] = IF k = 1 THEN L!LastBelow(of, i) ELSE of[i][k - 1]
  <2>1. of[i][k] \in f[i] /\ of[i][k] \in Addr
    BY <1>1 DEF Reads
  <2>2. Len(of[i]) \in Nat
    BY <1>1 DEF Reads
  <2>3. k > 1 <=> k # 1
    BY <2>2
  <2>4. L!CameBefore(of, of[i][k]) = IF k > 1 THEN of[i][k - 1] ELSE L!LastBelow(of, i)
    BY <1>1, CameBeforeIs
  <2> QED BY <2>1, <2>3, <2>4, <1>3, <1>4
<1> DEFINE Good(n) == Chained(m, L!LastBelow(of, n), Below(f, n))
<1>6. Good(0)
  BY <1>1, LastBelowIs, EmptyList
<1>7. ASSUME NEW n \in FastBins, Good(n)
      PROVE  Good(n + 1)
  <2>1. CASE of[n] = <<>>
    BY <1>1, <1>7, <2>1, LastBelowIs
  <2>2. CASE of[n] # <<>>
    <3> DEFINE N == Len(of[n])
               s == of[n]
               h == L!LastBelow(of, n)
               B == Below(f, n)
               T == f[n]
    <3>1. N \in Nat /\ N # 0 /\ s \in [1 .. N -> Addr] /\ T = {s[k] : k \in 1 .. N}
      BY <1>1, <2>2 DEF Reads
    <3>2. \A j, k \in 1 .. N : s[j] = s[k] => j = k
      BY <1>1 DEF Reads
    <3>3. \A k \in 1 .. N : m.next[s[k]] = IF k = 1 THEN h ELSE s[k - 1]
      BY <1>5
    <3>4. /\ L!LastBelow(of, n + 1) = s[N] /\ Below(f, n + 1) = B \union T
          /\ T \intersect B = {}
      BY <1>1, <2>2, LastBelowIs
    <3>5. Chained(m, h, B)
      BY <1>7
    <3> HIDE DEF N, s, h, B, T
    <3>6. Reversed(m, h, N, s, T)
      BY <3>1, <3>2, <3>3 DEF Reversed
    <3>7. Chained(m, s[N], B \union T)
      BY <3>1, <3>4, <3>5, <3>6, ChainOnto
    <3> QED BY <3>4, <3>7
  <2> QED BY <2>1, <2>2
<1> HIDE DEF Good
<1>8. \A n \in 0 .. kFastBinsCount : Good(n)
  <2> DEFINE bad == {n \in 0 .. kFastBinsCount : ~Good(n)}
  <2>1. kFastBinsCount \in Nat
    BY MallocAssumption
  <2>2. ASSUME bad # {} PROVE FALSE
    <3>1. bad \subseteq Nat
      BY <2>1
    <3>2. PICK n \in bad : \A k \in bad : n <= k
      <4> HIDE DEF bad
      <4> QED BY <2>2, <3>1, NonemptyHasMin
    <3>3. n # 0
      BY <3>2, <1>6
    <3>4. n - 1 \in FastBins /\ n - 1 \in 0 .. kFastBinsCount /\ (n - 1) + 1 = n /\ ~(n <= n - 1)
      BY <2>1, <3>2, <3>3 DEF FastBins
    <3>5. Good(n - 1)
      BY <3>2, <3>4
    <3>6. Good((n - 1) + 1)
      BY <1>7, <3>4, <3>5
    <3> QED BY <3>2, <3>4, <3>6
  <2> QED BY <2>2
<1>9. L!Extracted(l, "fast") = L!LastBelow(of, kFastBinsCount)
  <2>1. DOMAIN l.heads["fast"] = FastBins
    BY <1>1 DEF ListType
  <2>2. Cardinality(FastBins) = kFastBinsCount
    <3>1. 0 \in Int /\ kFastBinsCount - 1 \in Int /\ kFastBinsCount \in Nat
      BY MallocAssumption
    <3> QED BY <3>1, FS_Interval DEF FastBins
  <2> QED BY <1>2, <2>1, <2>2, SameCardinality
<1>10. Below(f, kFastBinsCount) = Members(f)
  <2>1. \A j \in FastBins : j < kFastBinsCount
    BY MallocAssumption DEF FastBins
  <2>2. DOMAIN f = FastBins /\ \A j \in FastBins : f[j] \subseteq Addr
    BY DEF Apart
  <2>3. \A x : x \in Members(f) <=> \E j \in FastBins : x \in f[j]
    BY <2>2, MembersOf
  <2> QED BY <2>1, <2>2, <2>3 DEF Below
<1>11. Chained(m, L!Extracted(l, "fast"), Members(f))
  <2>1. kFastBinsCount \in 0 .. kFastBinsCount
    BY MallocAssumption
  <2> QED BY <2>1, <1>8, <1>9, <1>10 DEF Good
<1>12. \A n \in FastBins : L!LastBelow(of, n) \in Addr \union {Null}
  <2> TAKE n \in FastBins
  <2>1. n \in 0 .. kFastBinsCount
    BY MallocAssumption DEF FastBins
  <2>2. Chained(m, L!LastBelow(of, n), Below(f, n))
    BY <2>1, <1>8 DEF Good
  <2>3. Below(f, n) \subseteq Addr
    BY DEF Below
  <2> QED BY <2>2, <2>3, ChainHead
<1>13. m \in ListType
  <2>1. \A x \in nodes : L!CameBefore(of, x) \in Words
    <3> TAKE x \in nodes
    <3>1. PICK i \in FastBins : x \in f[i]
      BY <1>3
    <3>2. PICK k \in 1 .. Len(of[i]) : x = of[i][k]
      BY <1>1, <3>1 DEF Reads
    <3>3. Len(of[i]) \in Nat /\ of[i] \in [1 .. Len(of[i]) -> Addr]
      BY <1>1 DEF Reads
    <3>4. k > 1 => k - 1 \in 1 .. Len(of[i])
      BY <3>3
    <3>5. L!CameBefore(of, x) = IF k > 1 THEN of[i][k - 1] ELSE L!LastBelow(of, i)
      BY <1>1, <3>2, CameBeforeIs
    <3> QED BY <3>3, <3>4, <3>5, <1>12 DEF Words
  <2>2. m.next \in [Addr -> Words]
    BY <2>1, <1>1, <1>4 DEF ListType
  <2>3. m.heads \in [fast : [FastBins -> Words], bins : [Bins -> Words]]
    BY <1>1, <1>4 DEF ListType, Words
  <2>4. m.prev \in [Addr -> Words]
    BY <1>1, <1>4 DEF ListType
  <2> QED BY <2>2, <2>3, <2>4, <1>4 DEF ListType
<1>14. \A i \in FastBins : Linked(m, m.heads.fast[i], g[i])
  BY <1>4, EmptyList
<1>15. \A i \in Bins : Linked(m, m.heads.bins[i], b[i])
  <2> TAKE i \in Bins
  <2>1. \A x \in b[i] : x \in Addr /\ x \notin nodes
    BY <1>3 DEF Apart
  <2>2. \A x \in b[i] : m.next[x] = l.next[x] /\ m.prev[x] = l.prev[x]
    BY <2>1, <1>4
  <2>3. Linked(l, l.heads.bins[i], b[i]) /\ m.heads.bins[i] = l.heads.bins[i]
    BY <1>4 DEF Kept
  <2> QED BY <2>2, <2>3, ListFrame
<1> QED BY <1>11, <1>13, <1>14, <1>15 DEF Kept

-----------------------------------------------------------------------------
(* What lies in the chunks that are in no list is of no importance.          *)
LEMMA BecomesKeeps ==
    ASSUME NEW l, NEW h, TypeOK', Kept(l, fast', bins'), Chained(l, h, pending'), Becomes(l)
    PROVE  Kept(links', fast', bins') /\ Chained(links', h, pending')
<1> DEFINE nodes == Members(fast') \union Members(bins') \union pending'
<1>1. l \in ListType
  BY DEF Kept
<1>2. links' = [l EXCEPT !.next = [c \in Addr |-> IF c \in nodes THEN @[c] ELSE Junk],
                         !.prev = [c \in Addr |-> IF c \in nodes THEN @[c] ELSE Junk]]
  BY DEF Becomes
<1>3. /\ \A i \in FastBins : \A x \in fast'[i] : x \in nodes /\ x \in Addr
      /\ \A i \in Bins : \A x \in bins'[i] : x \in nodes /\ x \in Addr
      /\ \A x \in pending' : x \in nodes /\ x \in Addr
  BY MembersOf DEF TypeOK
<1> HIDE DEF nodes
<1>4. links' \in ListType /\ links'.heads = l.heads
  BY <1>1, <1>2 DEF ListType, Words
<1>5. \A x \in Addr : x \in nodes => links'.next[x] = l.next[x] /\ links'.prev[x] = l.prev[x]
  BY <1>1, <1>2 DEF ListType
<1>6. \A i \in FastBins : Linked(links', links'.heads.fast[i], fast'[i])
  BY <1>3, <1>4, <1>5, ListFrame DEF Kept
<1>7. \A i \in Bins : Linked(links', links'.heads.bins[i], bins'[i])
  BY <1>3, <1>4, <1>5, ListFrame DEF Kept
<1>8. Chained(links', h, pending')
  BY <1>3, <1>5, ChainFrame
<1> QED BY <1>4, <1>6, <1>7, <1>8 DEF Kept

-----------------------------------------------------------------------------
(* A search: the first bin from i on that has a chunk that fits, and in it   *)
(* the first such chunk.                                                     *)
LEMMA LeastIs ==
    ASSUME NEW S, S \subseteq Nat, S # {}
    PROVE  L!Least(S) \in S /\ \A k \in S : L!Least(S) <= k
<1>1. \E x \in S : \A y \in S : x <= y
  BY NonemptyHasMin
<1> QED BY <1>1 DEF L!Least

(* The lists of l read as the sets of F.                                     *)
ReadsAs(of, F) ==
    /\ DOMAIN of = DOMAIN F /\ DOMAIN F \subseteq Nat
    /\ \A j \in DOMAIN F : /\ DOMAIN of[j] \subseteq Nat /\ F[j] \subseteq Addr
                           /\ F[j] = {of[j][k] : k \in DOMAIN of[j]}

LEMMA FindIsRight ==
    ASSUME NEW l, NEW list, NEW F, ReadsAs(L!Chains(l, list), F), NEW min, NEW c,
           c = L!Find(l, list, BinIndex[min], {d \in Addr : Suits(d, min)})
    PROVE  IF c = Null THEN FindsNothing(F, min) ELSE Finds(F, min, c)
<1> DEFINE of == L!Chains(l, list)
           fitting == {d \in Addr : Suits(d, min)}
           i == BinIndex[min]
           places == [j \in DOMAIN of |-> {k \in DOMAIN of[j] : of[j][k] \in fitting}]
           found == {j \in DOMAIN of : j >= i /\ places[j] # {}}
           lowest == L!Least(found)
           at == L!Least(places[lowest])
<1>1. c = IF found = {} THEN Null ELSE of[lowest][at]
  BY Zenon DEF L!Find
<1>2. ReadsAs(of, F)
  OBVIOUS
<1> HIDE DEF of
<1>3. /\ DOMAIN of = DOMAIN F /\ DOMAIN F \subseteq Nat
      /\ \A j \in DOMAIN F : DOMAIN of[j] \subseteq Nat
      /\ \A j \in DOMAIN F : \A d : d \in F[j] <=> \E k \in DOMAIN of[j] : d = of[j][k]
      /\ \A j \in DOMAIN F : F[j] \subseteq Addr
  BY <1>2 DEF ReadsAs
<1>4. \A j \in DOMAIN of : \A k : k \in places[j] <=> k \in DOMAIN of[j] /\ Suits(of[j][k], min)
  BY <1>3
<1>5. \A j \in DOMAIN of : places[j] # {} <=> \E d \in F[j] : Suits(d, min)
  <2> HIDE DEF places
  <2> QED BY <1>3, <1>4
<1>6. \A j : j \in found <=> j \in DOMAIN F /\ j >= i /\ \E d \in F[j] : Suits(d, min)
  BY <1>3, <1>5
<1> HIDE DEF places, fitting, i
<1>7. CASE found = {}
  <2>1. \A j \in DOMAIN F : \A d \in F[j] : j >= i => ~Suits(d, min)
    <3> HIDE DEF found
    <3> QED BY <1>6, <1>7
  <2> QED BY <1>1, <1>7, <2>1 DEF FindsNothing, i
<1>8. CASE found # {}
  <2>1. found \subseteq Nat
    BY <1>3
  <2> HIDE DEF found
  <2>2. lowest \in found /\ \A k \in found : lowest <= k
    BY <1>8, <2>1, LeastIs
  <2>3. lowest \in DOMAIN F /\ lowest >= i /\ places[lowest] # {} /\ places[lowest] \subseteq Nat
    <3>1. lowest \in DOMAIN F /\ lowest >= i /\ \E d \in F[lowest] : Suits(d, min)
      BY <1>6, <2>2
    <3>2. lowest \in DOMAIN of
      BY <3>1, <1>3
    <3> QED BY <3>1, <3>2, <1>3, <1>4, <1>5
  <2>4. at \in places[lowest]
    BY <2>3, LeastIs
  <2>5. at \in DOMAIN of[lowest] /\ Suits(of[lowest][at], min) /\ lowest \in DOMAIN of
    BY <1>3, <1>4, <2>3, <2>4
  <2>6. c = of[lowest][at] /\ c \in F[lowest] /\ Suits(c, min)
    BY <1>1, <1>3, <1>8, <2>3, <2>5
  <2>7. c # Null
    BY <1>3, <2>3, <2>6, NullIsNowhere
  <2>8. \A j \in DOMAIN F : \A d \in F[j] : (i <= j /\ j < lowest) => ~Suits(d, min)
    <3> SUFFICES ASSUME NEW j \in DOMAIN F, NEW d \in F[j], i <= j, j < lowest, Suits(d, min)
                 PROVE  FALSE
      OBVIOUS
    <3>1. j >= i
      OBVIOUS
    <3>2. j \in found
      BY <3>1, <1>6
    <3>3. lowest <= j /\ j \in Nat /\ lowest \in Nat
      BY <3>2, <2>1, <2>2
    <3> QED BY <3>3
  <2> QED BY <2>3, <2>6, <2>7, <2>8 DEF Finds, i
<1> QED BY <1>7, <1>8

LEMMA KeptReadsAs ==
    ASSUME NEW l, NEW f, NEW b, f \in [FastBins -> SUBSET Addr], b \in [Bins -> SUBSET Addr],
           Kept(l, f, b)
    PROVE  ReadsAs(L!Chains(l, "fast"), f) /\ ReadsAs(L!Chains(l, "bins"), b)
<1>1. l.heads.fast \in [FastBins -> Words] /\ l.heads.bins \in [Bins -> Words]
  BY DEF Kept, ListType
<1>2. /\ L!Chains(l, "fast") = [i \in FastBins |-> L!From(l, l.heads.fast[i])]
      /\ L!Chains(l, "bins") = [i \in Bins |-> L!From(l, l.heads.bins[i])]
  BY <1>1 DEF L!Chains
<1>3. \A h, S : Linked(l, h, S) => LET s == L!From(l, h)
                                   IN  DOMAIN s \subseteq Nat /\ S = {s[k] : k \in DOMAIN s}
  <2> TAKE h, S
  <2> HAVE Linked(l, h, S)
  <2> DEFINE s == L!From(l, h)
  <2>1. Len(s) \in Nat /\ DOMAIN s = 1 .. Len(s) /\ Forward(l.next, h, Len(s), s, S)
    BY ReadsForward
  <2> HIDE DEF s
  <2>2. DOMAIN s \subseteq Nat /\ S = {s[k] : k \in DOMAIN s}
    BY <2>1 DEF Forward
  <2> QED BY <2>2 DEF s
<1>4. FastBins \subseteq Nat /\ Bins \subseteq Nat
  BY MallocAssumption DEF FastBins, Bins
<1>5. ReadsAs(L!Chains(l, "fast"), f)
  <2> DEFINE of == L!Chains(l, "fast")
  <2>1. of = [i \in FastBins |-> L!From(l, l.heads.fast[i])]
    BY <1>2
  <2> HIDE DEF of
  <2>2. \A i \in FastBins : DOMAIN of[i] \subseteq Nat /\ f[i] = {of[i][k] : k \in DOMAIN of[i]}
    <3> TAKE i \in FastBins
    <3>1. of[i] = L!From(l, l.heads.fast[i]) /\ Linked(l, l.heads.fast[i], f[i])
      BY <2>1 DEF Kept
    <3> QED BY <3>1, <1>3
  <2>3. DOMAIN of = DOMAIN f /\ DOMAIN f = FastBins /\ \A i \in FastBins : f[i] \subseteq Addr
    BY <2>1
  <2>4. ReadsAs(of, f)
    BY <1>4, <2>2, <2>3 DEF ReadsAs
  <2> QED BY <2>4 DEF of
<1>6. ReadsAs(L!Chains(l, "bins"), b)
  <2> DEFINE of == L!Chains(l, "bins")
  <2>1. of = [i \in Bins |-> L!From(l, l.heads.bins[i])]
    BY <1>2
  <2> HIDE DEF of
  <2>2. \A i \in Bins : DOMAIN of[i] \subseteq Nat /\ b[i] = {of[i][k] : k \in DOMAIN of[i]}
    <3> TAKE i \in Bins
    <3>1. of[i] = L!From(l, l.heads.bins[i]) /\ Linked(l, l.heads.bins[i], b[i])
      BY <2>1 DEF Kept
    <3> QED BY <3>1, <1>3
  <2>3. DOMAIN of = DOMAIN b /\ DOMAIN b = Bins /\ \A i \in Bins : b[i] \subseteq Addr
    BY <2>1
  <2>4. ReadsAs(of, b)
    BY <1>4, <2>2, <2>3 DEF ReadsAs
  <2> QED BY <2>4 DEF of
<1> QED BY <1>5, <1>6

-----------------------------------------------------------------------------
(* The lists hold the chunks of the bins, and the chain what is pending.     *)
ListsInv == Kept(links, fast, bins) /\ Chained(links, chain, pending)

LEMMA ListsInvIsEnough ==
    ASSUME TypeOK, ListsInv
    PROVE  ListsAreTheBins
<1>1. fast \in [FastBins -> SUBSET Addr] /\ bins \in [Bins -> SUBSET Addr]
  BY DEF TypeOK
<1>2. \A i \in FastBins : L!IsListOf(links, links.heads.fast[i], fast[i])
  BY LinkedIsListOf DEF ListsInv, Kept
<1>3. \A i \in Bins : L!IsListOf(links, links.heads.bins[i], bins[i])
  BY LinkedIsListOf DEF ListsInv, Kept
<1>4. LET nodes == L!From(links, chain)
      IN  Len(nodes) = Cardinality(pending) /\ {nodes[k] : k \in DOMAIN nodes} = pending
  BY ChainedIsRead DEF ListsInv
<1>5. ReadsAs(L!Chains(links, "fast"), fast) /\ ReadsAs(L!Chains(links, "bins"), bins)
  BY <1>1, KeptReadsAs DEF ListsInv
<1>6. SearchIsRight
  <2> SUFFICES ASSUME NEW n \in Requests
               PROVE  LET need == ChunkSize(n)
                          right(list, c) == IF c = Null THEN FindsNothing(list, need)
                                                        ELSE Finds(list, need, c)
                      IN  right(fast, Search("fast", need)) /\ right(bins, Search("bins", need))
    BY DEF SearchIsRight
  <2> DEFINE need == ChunkSize(n)
  <2>1. \A list : Search(list, need) =
           L!Find(links, list, BinIndex[need], {d \in Addr : Suits(d, need)})
    BY Zenon DEF Search
  <2> HIDE DEF need
  <2> DEFINE c == Search("fast", need)
             d == Search("bins", need)
  <2>2. IF c = Null THEN FindsNothing(fast, need) ELSE Finds(fast, need, c)
    BY <1>5, <2>1, FindIsRight
  <2>3. IF d = Null THEN FindsNothing(bins, need) ELSE Finds(bins, need, d)
    BY <1>5, <2>1, FindIsRight
  <2> HIDE DEF c, d
  <2> QED BY <2>2, <2>3 DEF c, d, need
<1> QED BY <1>2, <1>3, <1>4, <1>6 DEF ListsAreTheBins

-----------------------------------------------------------------------------
(* No chunk is in two lists, and what the call holds is in none.             *)
LEMMA ListsAreApart ==
    ASSUME TypeOK, HeapInv
    PROVE  /\ Apart(fast, bins, pending)
           /\ \A c \in held : /\ c \in Addr /\ c \notin pending
                              /\ \A i \in FastBins : c \notin fast[i]
                              /\ \A i \in Bins : c \notin bins[i]
           /\ \A c \in pending : /\ \A i \in FastBins : c \notin fast[i]
                                 /\ \A i \in Bins : c \notin bins[i]
<1>1. /\ fast \in [FastBins -> SUBSET Addr] /\ bins \in [Bins -> SUBSET Addr]
      /\ pending \subseteq Addr /\ held \subseteq Addr
  BY DEF TypeOK
<1>2. /\ \A i \in FastBins : \A c \in fast[i] : c \in Members(fast) /\ BinIndex[size[c]] = i
      /\ \A i \in Bins : \A c \in bins[i] : c \in InBins /\ BinIndex[size[c]] = i
  BY <1>1, MembersOf DEF HeapInv, Binned, InBins
<1>3. /\ \A c \in Members(fast) : c \notin InBins /\ c \notin pending /\ c \notin held
      /\ \A c \in InBins : c \notin pending /\ c \notin held
      /\ \A c \in held : c \notin pending
  BY DEF HeapInv, OwnedOnce
<1>4. Apart(fast, bins, pending)
  BY <1>1, <1>2, <1>3 DEF Apart
<1>5. \A c \in held : /\ c \in Addr /\ c \notin pending
                      /\ \A i \in FastBins : c \notin fast[i]
                      /\ \A i \in Bins : c \notin bins[i]
  BY <1>1, <1>2, <1>3
<1>6. \A c \in pending : /\ \A i \in FastBins : c \notin fast[i]
                         /\ \A i \in Bins : c \notin bins[i]
  BY <1>1, <1>2, <1>3
<1> QED BY <1>4, <1>5, <1>6

LEMMA FewerApart ==
    ASSUME NEW f, NEW b, NEW S, NEW T, Apart(f, b, S), T \subseteq S
    PROVE  Apart(f, b, T)
BY DEF Apart

(* Removing a chunk from its bin, seen from the lists and a chain elsewhere. *)
LEMMA UnlinkedStep ==
    ASSUME NEW l, NEW b, NEW S, NEW h, Kept(l, fast, b), Apart(fast, b, S), Chained(l, h, S),
           NEW c, BinIndex[size[c]] \in Bins, c \in b[BinIndex[size[c]]]
    PROVE  /\ Kept(Unlinked(l, c), fast, Remove(b, c)) /\ Apart(fast, Remove(b, c), S)
           /\ Chained(Unlinked(l, c), h, S)
<1> DEFINE i == BinIndex[size[c]]
           m == Unlinked(l, c)
           g == Remove(b, c)
<1>1. i \in Bins /\ c \in b[i]
  OBVIOUS
<1>2. m = L!RemoveNode(l, "bins", i, c) /\ g = [b EXCEPT ![i] = @ \ {c}]
  BY DEF Unlinked, Remove
<1> HIDE DEF i, m, g
<1>3. /\ Kept(m, fast, g) /\ Apart(fast, g, S)
      /\ \A x \in Addr : x \notin b[i] => m.next[x] = l.next[x] /\ m.prev[x] = l.prev[x]
  <2>1. Kept(m, fast, g)
    BY <1>1, <1>2, UnlinkedBin
  <2>2. Apart(fast, g, S)
    <3>1. g \in [Bins -> SUBSET Addr] /\ \A j \in Bins : \A x : x \in g[j] => x \in b[j]
      BY <1>1, <1>2 DEF Apart
    <3> QED BY <3>1 DEF Apart
  <2>3. \A x \in Addr : x \notin b[i] => m.next[x] = l.next[x] /\ m.prev[x] = l.prev[x]
    BY <1>1, <1>2, UnlinkedBin
  <2> QED BY <2>1, <2>2, <2>3
<1>4. \A x \in S : m.next[x] = l.next[x]
  BY <1>1, <1>3 DEF Apart
<1>5. Chained(m, h, S)
  BY <1>4, ChainFrame
<1> QED BY <1>3, <1>5 DEF m, g

LEMMA LinkedStep ==
    ASSUME NEW l, NEW b, NEW S, NEW h, Kept(l, fast, b), Apart(fast, b, S), Chained(l, h, S),
           NEW i \in Bins, NEW c \in Addr, c \notin S,
           \A j \in FastBins : c \notin fast[j], \A j \in Bins : c \notin b[j]
    PROVE  LET m == L!AddNode(l, "bins", i, c)
           IN  Kept(m, fast, [b EXCEPT ![i] = @ \union {c}]) /\ Chained(m, h, S)
<1> DEFINE m == L!AddNode(l, "bins", i, c)
           g == [b EXCEPT ![i] = @ \union {c}]
<1>1. m = L!AddNode(l, "bins", i, c) /\ g = [b EXCEPT ![i] = @ \union {c}]
  OBVIOUS
<1> HIDE DEF m, g
<1>2. Kept(m, fast, g) /\ \A x \in Addr : x # c => m.next[x] = l.next[x]
  <2>1. Kept(m, fast, g)
    BY <1>1, LinkedBin
  <2>2. \A x \in Addr : x # c => m.next[x] = l.next[x]
    BY <1>1, LinkedBin
  <2> QED BY <2>1, <2>2
<1>3. \A x \in S : m.next[x] = l.next[x]
  BY <1>2 DEF Apart
<1>4. Chained(m, h, S)
  BY <1>3, ChainFrame
<1> QED BY <1>2, <1>4 DEF m, g

(* FreeChunk: the neighbours it merges with are unlinked from their bins     *)
(* while their old sizes still stand, and the merged chunk is linked into    *)
(* the bin of its new one.                                                   *)
LEMMA FreeChunkLinks ==
    ASSUME TypeOK, HeapInv, NEW m \in held \union pending, FreeChunk(m),
           Kept(links, fast, bins), NEW S, S \subseteq pending \ {m}, NEW h, Chained(links, h, S)
    PROVE  Kept(AfterFreeChunk(m), fast, bins') /\ Chained(AfterFreeChunk(m), h, S)
<1> DEFINE p == Prev(m)
           n == NextOf(m)
           l1 == IF MergesPrev(m) THEN Unlinked(links, p) ELSE links
           b1 == IF MergesPrev(m) THEN Remove(bins, p) ELSE bins
           l2 == IF MergesNext(m) THEN Unlinked(l1, n) ELSE l1
           b2 == BinsAfterMerge(m)
           k == BinIndex[MergedSize(m)]
           c == MergedHead(m)
<1>1. /\ m \in Busy /\ m \in Addr /\ m \notin S /\ m \notin InBins
      /\ \A j \in FastBins : m \notin fast[j]
      /\ \A j \in Bins : m \notin bins[j]
  BY ListsAreApart, BusyParts, BusyIsNotFree
<1>2. /\ Apart(fast, bins, S) /\ bins \in [Bins -> SUBSET Addr]
      /\ \A x \in InBins : x \in Addr /\ x \notin S /\ \A j \in FastBins : x \notin fast[j]
  <2>1. Apart(fast, bins, pending) /\ bins \in [Bins -> SUBSET Addr] /\ S \subseteq pending
    BY ListsAreApart DEF TypeOK
  <2>2. \A x \in InBins : \E j \in Bins : x \in bins[j]
    BY <2>1, MembersOf DEF InBins
  <2>3. \A x \in InBins : x \in Addr /\ x \notin S /\ \A j \in FastBins : x \notin fast[j]
    BY <2>1, <2>2 DEF Apart
  <2> QED BY <2>1, <2>3, FewerApart
<1>3. /\ n = Next_(m) /\ c = (IF MergesPrev(m) THEN p ELSE m)
      /\ MergesPrev(m) => p \in InBins /\ Next_(p) = m
      /\ MergesNext(m) => n \in InBins
      /\ MergedSize(m) \in Addr /\ c \in Addr
      /\ b2 = IF MergesNext(m) THEN Remove(b1, n) ELSE b1
  BY <1>1, MergePrevIsRight, MergedBounds DEF MergedHead, BinsAfterMerge
<1>4. AfterFreeChunk(m) = IF MergedEnd(m) = first THEN l2 ELSE L!AddNode(l2, "bins", k, c)
  BY Zenon DEF AfterFreeChunk
<1>5. bins' = IF MergedEnd(m) = first THEN b2 ELSE [b2 EXCEPT ![k] = @ \union {c}]
  BY DEF FreeChunk, Add
<1>6. \A j \in Bins : \A d : d \in b2[j] <=> d \in bins[j] /\ d # c /\ d # Next_(m)
  BY <1>1, BinsAfterMergeIs
<1> HIDE DEF p, n, l2, b2, k, c
<1>7. Kept(l1, fast, b1) /\ Apart(fast, b1, S) /\ Chained(l1, h, S)
  <2>1. CASE MergesPrev(m)
    <3>1. p \in InBins
      BY <2>1, <1>3
    <3>2. BinIndex[size[p]] \in Bins /\ p \in bins[BinIndex[size[p]]]
      BY <3>1, OnlyBin, ChunkFacts, BusyParts
    <3>3. /\ Kept(Unlinked(links, p), fast, Remove(bins, p))
          /\ Apart(fast, Remove(bins, p), S) /\ Chained(Unlinked(links, p), h, S)
      BY <3>2, <1>2, UnlinkedStep
    <3> QED BY <2>1, <3>3
  <2>2. CASE ~MergesPrev(m)
    BY <2>2, <1>2
  <2> QED BY <2>1, <2>2
<1>8. Kept(l2, fast, b2) /\ Apart(fast, b2, S) /\ Chained(l2, h, S)
  <2>1. CASE MergesNext(m)
    <3>1. n \in InBins
      BY <2>1, <1>3
    <3>2. BinIndex[size[n]] \in Bins /\ n \in bins[BinIndex[size[n]]]
      BY <3>1, OnlyBin, ChunkFacts, BusyParts
    <3>3. n \in b1[BinIndex[size[n]]]
      <4>1. CASE MergesPrev(m)
        <5>1. p \in InBins /\ Next_(p) = m /\ p \in Chunks /\ m \in Chunks
          BY <4>1, <1>1, <1>3, BusyParts
        <5>2. p < m /\ m < n /\ p \in Nat /\ m \in Nat /\ n \in Nat
          BY <5>1, <1>3, ChunkFacts DEF Addr
        <5>3. n # p
          BY <5>2
        <5>4. \A j \in Bins : \A d : d \in Remove(bins, p)[j] <=> d \in bins[j] /\ d # p
          BY <5>1, BinsWithoutIs
        <5> QED BY <4>1, <5>3, <5>4, <3>2
      <4>2. CASE ~MergesPrev(m)
        BY <4>2, <3>2
      <4> QED BY <4>1, <4>2
    <3> HIDE DEF l1, b1
    <3>4. /\ Kept(Unlinked(l1, n), fast, Remove(b1, n))
          /\ Apart(fast, Remove(b1, n), S) /\ Chained(Unlinked(l1, n), h, S)
      BY <3>2, <3>3, <1>7, UnlinkedStep
    <3>5. l2 = Unlinked(l1, n) /\ b2 = Remove(b1, n)
      BY <2>1, <1>3 DEF l2
    <3> QED BY <3>4, <3>5
  <2>2. CASE ~MergesNext(m)
    <3>1. l2 = l1 /\ b2 = b1
      BY <2>2, <1>3 DEF l2
    <3> QED BY <3>1, <1>7
  <2> QED BY <2>1, <2>2
<1> HIDE DEF l1, b1
<1>9. CASE MergedEnd(m) = first
  BY <1>4, <1>5, <1>8, <1>9
<1>10. CASE MergedEnd(m) # first
  <2>1. k \in Bins
    BY <1>3, BinIndexAssumption DEF k
  <2>2. c \in Addr /\ c \notin S /\ \A j \in FastBins : c \notin fast[j]
    BY <1>1, <1>2, <1>3
  <2>3. \A j \in Bins : c \notin b2[j]
    BY <1>6
  <2>4. /\ Kept(L!AddNode(l2, "bins", k, c), fast, [b2 EXCEPT ![k] = @ \union {c}])
        /\ Chained(L!AddNode(l2, "bins", k, c), h, S)
    BY <1>8, <2>1, <2>2, <2>3, LinkedStep
  <2> QED BY <2>4, <1>4, <1>5, <1>10
<1> QED BY <1>9, <1>10

-----------------------------------------------------------------------------
(* The steps, as far as the lists are concerned.                             *)

(* A call begins, or the checks of free end: no list changes, a chunk leaves *)
(* the fast bins, or all of them do.                                         *)
QuietStep == UNCHANGED lists /\ pc' \notin {"return", "consolidate"}

PopStep ==
    /\ pc' = "return"
    /\ \E c \in Members(fast) : fast' = Remove(fast, c) /\ held' = {c}
    /\ UNCHANGED <<bins, pending>>

ExtractStep == pc' = "consolidate" /\ ExtractAll /\ UNCHANGED bins

LEMMA AllocateEffects ==
    ASSUME NEW op, NEW n, NEW old, pc = "idle", Allocate(op, n, old)
    PROVE  QuietStep \/ PopStep \/ ExtractStep
<1> DEFINE need == ChunkSize(n)
<1>1. CASE MmapAllocate(op, need, old)
  <2> HIDE DEF need
  <2>1. UNCHANGED lists
    BY <1>1 DEF MmapAllocate
  <2>2. pc' \in {"idle", "free"}
    BY <1>1 DEF MmapAllocate, EndCall
  <2> QED BY <2>1, <2>2 DEF QuietStep
<1>2. CASE AllocateFromFastBins(need)
  <2> HIDE DEF need
  <2>1. CASE \E c \in Members(fast) :
               /\ fast' = Remove(fast, c) /\ held' = {c} /\ pc' = "return"
               /\ UNCHANGED <<bins, pending>>
    BY <2>1 DEF PopStep
  <2>2. CASE pc' = "bins" /\ UNCHANGED lists
    BY <2>2 DEF QuietStep
  <2> QED BY <1>2, <2>1, <2>2 DEF AllocateFromFastBins
<1>3. CASE ExtractAll /\ pc' = "consolidate" /\ UNCHANGED bins
  BY <1>3 DEF ExtractStep
<1> QED BY <1>1, <1>2, <1>3 DEF Allocate

LEMMA ClientEffects ==
    ASSUME Client
    PROVE  QuietStep \/ PopStep \/ ExtractStep
<1>1. CASE CallMalloc \/ CallCalloc
  BY <1>1, AllocateEffects DEF CallMalloc, CallCalloc
<1>2. CASE CallRealloc
  <2>1. PICK p \in live, n \in Requests :
           \/ Abort
           \/ UNCHANGED <<memory, lists, heap, live, mapped, held, call, pc>>
           \/ Allocate("realloc", n, p)
    BY <1>2 DEF CallRealloc
  <2>2. pc = "idle"
    BY <1>2 DEF CallRealloc
  <2>3. CASE Abort
    BY <2>3 DEF Abort, QuietStep
  <2>4. CASE UNCHANGED <<memory, lists, heap, live, mapped, held, call, pc>>
    BY <2>2, <2>4 DEF QuietStep
  <2>5. CASE Allocate("realloc", n, p)
    BY <2>2, <2>5, AllocateEffects
  <2> QED BY <2>1, <2>3, <2>4, <2>5
<1>3. CASE CallFree
  BY <1>3 DEF CallFree, QuietStep
<1>4. CASE CallFreeRegion
  BY <1>4 DEF CallFreeRegion, Abort, QuietStep
<1>5. CASE CallReallocRegion
  BY <1>5 DEF CallReallocRegion, Abort, QuietStep
<1>6. CASE ClientWrites
  BY <1>6 DEF ClientWrites, QuietStep
<1> QED BY <1>1, <1>2, <1>3, <1>4, <1>5, <1>6 DEF Client

LEMMA ProceedKeeps ==
    ASSUME TypeOK, HeapInv, ListsInv, TypeOK', Proceed, QuietStep \/ PopStep \/ ExtractStep
    PROVE  ListsInv'
<1>1. /\ Kept(links, fast, bins) /\ Chained(links, chain, pending)
      /\ Apart(fast, bins, pending)
  BY ListsAreApart DEF ListsInv
<1>2. CASE QuietStep
  <2>1. fast' = fast /\ bins' = bins /\ pending' = pending
        /\ pc' # "return" /\ pc' # "consolidate"
    BY <1>2 DEF QuietStep, lists
  <2>2. Becomes(links) /\ chain' = chain
    BY <2>1 DEF Proceed
  <2>3. Kept(links, fast', bins') /\ Chained(links, chain, pending')
    BY <1>1, <2>1
  <2>4. Kept(links', fast', bins') /\ Chained(links', chain, pending')
    BY <2>2, <2>3, BecomesKeeps
  <2> QED BY <2>2, <2>4 DEF ListsInv
<1>3. CASE PopStep
  <2>1. PICK c \in Members(fast) : fast' = Remove(fast, c) /\ held' = {c}
    BY <1>3 DEF PopStep
  <2>2. pc' = "return" /\ bins' = bins /\ pending' = pending
    BY <1>3 DEF PopStep
  <2>3. /\ held' = {Search("fast", call'.need)} /\ chain' = chain
        /\ Becomes(L!RemoveNode(links, "fast", BinIndex[size[Search("fast", call'.need)]],
                                Search("fast", call'.need)))
    BY <2>2 DEF Proceed
  <2>4. Search("fast", call'.need) = c
    BY <2>1, <2>3
  <2> DEFINE i == BinIndex[size[c]]
             l == L!RemoveNode(links, "fast", i, c)
             g == Remove(fast, c)
  <2>5. i \in FastBins /\ c \in fast[i]
    BY MembersOf DEF HeapInv, Binned, TypeOK
  <2>6. g = [fast EXCEPT ![i] = @ \ {c}] /\ l = L!RemoveNode(links, "fast", i, c)
    BY DEF Remove
  <2>7. Becomes(l) /\ fast' = g
    BY <2>1, <2>3, <2>4
  <2> HIDE DEF i, l, g
  <2>8. Kept(l, g, bins)
    BY <1>1, <2>5, <2>6, UnlinkedFastBin
  <2>9. \A x \in Addr : x \notin fast[i] => l.next[x] = links.next[x] /\ l.prev[x] = links.prev[x]
    BY <1>1, <2>5, <2>6, UnlinkedFastBin
  <2>10. \A x \in pending : l.next[x] = links.next[x]
    BY <1>1, <2>5, <2>9 DEF Apart
  <2>11. Kept(l, fast', bins') /\ Chained(l, chain, pending')
    BY <1>1, <2>2, <2>7, <2>8, <2>10, ChainFrame
  <2>12. Kept(links', fast', bins') /\ Chained(links', chain, pending')
    BY <2>7, <2>11, BecomesKeeps
  <2> QED BY <2>3, <2>12 DEF ListsInv
<1>4. CASE ExtractStep
  <2>1. /\ pc' = "consolidate" /\ bins' = bins
        /\ pending' = Members(fast) /\ fast' = [i \in FastBins |-> {}]
    BY <1>4 DEF ExtractStep, ExtractAll
  <2>2. Becomes(L!ExtractAll(links, "fast")) /\ chain' = L!Extracted(links, "fast")
    BY <2>1 DEF Proceed, Extract
  <2> DEFINE l == L!ExtractAll(links, "fast")
             h == L!Extracted(links, "fast")
  <2>3. Kept(l, fast', bins') /\ Chained(l, h, pending')
    <3>1. Kept(l, fast', bins)
      BY <1>1, <2>1, ExtractAllChains
    <3>2. Chained(l, h, Members(fast))
      BY <1>1, ExtractAllChains
    <3> QED BY <3>1, <3>2, <2>1
  <2> HIDE DEF l, h
  <2>4. Becomes(l) /\ chain' = h
    BY <2>2 DEF l, h
  <2>5. Kept(links', fast', bins') /\ Chained(links', h, pending')
    BY <2>3, <2>4, BecomesKeeps
  <2> QED BY <2>4, <2>5 DEF ListsInv
<1> QED BY <1>2, <1>3, <1>4

(* A step that changes no list.                                              *)
LEMMA QuietKeeps ==
    ASSUME ListsInv, TypeOK', UNCHANGED lists, Becomes(links), chain' = chain
    PROVE  ListsInv'
<1>1. Kept(links, fast', bins') /\ Chained(links, chain, pending')
  BY DEF ListsInv, lists
<1>2. Kept(links', fast', bins') /\ Chained(links', chain, pending')
  BY <1>1, BecomesKeeps
<1> QED BY <1>2 DEF ListsInv

LEMMA PushKeeps ==
    ASSUME IInv, ListsInv, TypeOK', FreeChecks, Push
    PROVE  ListsInv'
<1>1. /\ Kept(links, fast, bins) /\ Chained(links, chain, pending)
      /\ Apart(fast, bins, pending) /\ TypeOK /\ HeapInv
  BY ListsAreApart DEF ListsInv, IInv
<1>2. PICK c \in held : Becomes(L!AddNode(links, "fast", BinIndex[size[c]], c))
  BY DEF Push
<1>3. \A d \in held : d = c
  BY DEF IInv, CallInOrder
<1>4. /\ fast' = Add(fast, c, size[c]) /\ pending' = pending /\ bins' = bins
      /\ Bytes(size[c]) <= kFastMax /\ chain' = chain
  <2>1. pc' = "idle" /\ chain' = chain
    BY DEF Push
  <2> QED BY <2>1, <1>3 DEF FreeChecks
<1> DEFINE i == BinIndex[size[c]]
           l == L!AddNode(links, "fast", i, c)
           g == Add(fast, c, size[c])
<1>5. i \in FastBins
  <2>1. size[c] \in Addr
    BY <1>1, BusyParts, ChunkFacts
  <2> QED BY <2>1, <1>4, BinIndexAssumption
<1>6. g = [fast EXCEPT ![i] = @ \union {c}] /\ l = L!AddNode(links, "fast", i, c)
  BY DEF Add
<1>7. Becomes(l) /\ fast' = g
  BY <1>2, <1>4
<1> HIDE DEF i, l, g
<1>8. /\ c \in Addr /\ c \notin pending /\ \A j \in FastBins : c \notin fast[j]
      /\ \A j \in Bins : c \notin bins[j]
  BY <1>1, ListsAreApart
<1>9. Kept(l, g, bins)
  BY <1>1, <1>5, <1>6, <1>8, LinkedFastBin
<1>10. \A x \in Addr : x # c => l.next[x] = links.next[x]
  BY <1>1, <1>5, <1>6, <1>8, LinkedFastBin
<1>11. \A x \in pending : l.next[x] = links.next[x]
  BY <1>1, <1>8, <1>10 DEF Apart
<1>12. Kept(l, fast', bins') /\ Chained(l, chain, pending')
  BY <1>1, <1>4, <1>7, <1>9, <1>11, ChainFrame
<1>13. Kept(links', fast', bins') /\ Chained(links', chain, pending')
  BY <1>7, <1>12, BecomesKeeps
<1> QED BY <1>4, <1>13 DEF ListsInv

(* Consolidation reads next before FreeChunk overwrites it.                  *)
LEMMA ConsolidateKeeps ==
    ASSUME TypeOK, HeapInv, ListsInv, TypeOK', Consolidate
    PROVE  ListsInv'
<1>1. Kept(links, fast, bins) /\ Chained(links, chain, pending)
  BY DEF ListsInv
<1>2. PICK m \in pending : FreeChunk(m) /\ pending' = pending \ {m}
  BY DEF Consolidate, ConsolidateOne
<1>3. /\ fast' = fast /\ pending' = pending \ {chain}
      /\ Becomes(AfterFreeChunk(chain)) /\ chain' = links.next[chain]
  BY DEF Consolidate, ConsolidateOne
<1>4. chain \in pending /\ Chained(links, chain', pending \ {chain})
  BY <1>1, <1>2, <1>3, ChainTail
<1>5. m = chain
  BY <1>2, <1>3, <1>4
<1>6. FreeChunk(chain) /\ chain \in held \union pending
  BY <1>2, <1>4, <1>5
<1> DEFINE l == AfterFreeChunk(chain)
           S == pending \ {chain}
           h == chain'
<1>7. S \subseteq pending \ {chain} /\ Chained(links, h, S)
  BY <1>4
<1> HIDE DEF S, h
<1>8. Kept(AfterFreeChunk(chain), fast, bins') /\ Chained(AfterFreeChunk(chain), h, S)
  BY <1>1, <1>6, <1>7, FreeChunkLinks
<1>9. Kept(l, fast', bins') /\ Chained(l, h, pending') /\ Becomes(l)
  BY <1>3, <1>8 DEF S
<1> HIDE DEF l
<1>10. Kept(links', fast', bins') /\ Chained(links', h, pending')
  BY <1>9, BecomesKeeps
<1> QED BY <1>10 DEF ListsInv, h

LEMMA ReleaseLinks ==
    ASSUME IInv, ListsInv, TypeOK', Release, \E m \in held : Becomes(AfterFreeChunk(m)),
           chain' = chain
    PROVE  ListsInv'
<1>1. /\ Kept(links, fast, bins) /\ Chained(links, chain, pending) /\ TypeOK /\ HeapInv
  BY DEF ListsInv, IInv
<1>2. PICK m \in held : Becomes(AfterFreeChunk(m))
  OBVIOUS
<1>3. \A d \in held : d = m
  BY DEF IInv, CallInOrder
<1>4. FreeChunk(m) /\ fast' = fast /\ pending' = pending
  BY <1>3 DEF Release
<1> DEFINE l == AfterFreeChunk(m)
<1>5. m \notin pending /\ m \in held \union pending
  BY <1>1, ListsAreApart
<1>6. pending \subseteq pending \ {m}
  BY <1>5
<1>7. Kept(l, fast, bins') /\ Chained(l, chain, pending)
  BY <1>1, <1>4, <1>5, <1>6, FreeChunkLinks
<1>8. Kept(l, fast', bins') /\ Chained(l, chain, pending') /\ Becomes(l)
  BY <1>2, <1>4, <1>7
<1> HIDE DEF l
<1>9. Kept(links', fast', bins') /\ Chained(links', chain, pending')
  BY <1>8, BecomesKeeps
<1> QED BY <1>9 DEF ListsInv

LEMMA TakeKeeps ==
    ASSUME IInv, ListsInv, TypeOK', Take, chain' = chain
    PROVE  ListsInv'
<1>1. /\ Kept(links, fast, bins) /\ Chained(links, chain, pending) /\ TypeOK /\ HeapInv
      /\ Apart(fast, bins, pending)
  BY ListsAreApart DEF ListsInv, IInv
<1>2. PICK c \in Members(bins) :
         /\ Finds(bins, call.need, c)
         /\ \/ /\ size[c] - call.need >= kMinChunk
               /\ bins' = Add(Remove(bins, c), c + call.need, size[c] - call.need)
            \/ /\ size[c] - call.need < kMinChunk
               /\ bins' = Remove(bins, c)
         /\ held' = {c}
  BY DEF Take, AllocateFromBins
<1>3. fast' = fast /\ pending' = pending /\ pc = "bins"
  BY DEF Take, AllocateFromBins
<1>4. /\ held' = {Search("bins", call.need)}
      /\ LET d == Search("bins", call.need)
         IN  Becomes(IF size[d] = call.need THEN Unlinked(links, d)
                     ELSE L!AddNode(Unlinked(links, d), "bins",
                                    BinIndex[size[d] - call.need], d + call.need))
  BY Zenon DEF Take
<1>5. Search("bins", call.need) = c
  BY <1>2, <1>4
<1> DEFINE need == call.need
           rest == c + need
           k == BinIndex[size[c] - need]
           l1 == Unlinked(links, c)
           b1 == Remove(bins, c)
           l2 == L!AddNode(l1, "bins", k, rest)
           l == IF size[c] = need THEN l1 ELSE l2
<1>6. Becomes(l)
  BY <1>4, <1>5
<1>7. c \in InBins /\ c \in Chunks
  BY <1>1, <1>2, BusyParts DEF InBins
<1>8. /\ c \in Nat /\ size[c] \in Addr /\ size[c] \in Nat /\ Next_(c) = c + size[c]
      /\ Next_(c) \in Addr /\ BinIndex[size[c]] \in Bins /\ c \in bins[BinIndex[size[c]]]
  BY <1>1, <1>7, ChunkFacts, OnlyBin DEF Addr
<1>9. /\ Kept(l1, fast, b1) /\ Apart(fast, b1, pending) /\ Chained(l1, chain, pending)
  BY <1>1, <1>8, UnlinkedStep
<1>10. need \in Nat /\ need >= kMinChunk /\ kMinChunk \in Nat /\ kMinChunk >= 2
  BY <1>3, ChunkSizeFits, MinChunk DEF IInv, CallInOrder, Allocating
<1>11. size[c] = need \/ size[c] >= need + kMinChunk
  BY <1>2 DEF Finds, Suits
<1>12. Kept(l, fast, bins') /\ Chained(l, chain, pending)
  <2>1. CASE size[c] = need
    <3>1. size[c] - need < kMinChunk /\ ~(size[c] - need >= kMinChunk)
      BY <2>1, <1>8, <1>10
    <3>2. bins' = b1
      BY <3>1, <1>2
    <3>3. l = l1
      BY <2>1
    <3> QED BY <3>2, <3>3, <1>9
  <2>2. CASE size[c] # need
    <3>1. size[c] - need >= kMinChunk /\ ~(size[c] - need < kMinChunk)
      BY <2>2, <1>8, <1>10, <1>11
    <3>2. bins' = [b1 EXCEPT ![k] = @ \union {rest}]
      BY <3>1, <1>2 DEF Add
    <3>3. c < rest /\ rest < Next_(c) /\ rest \in Addr /\ rest \in Nat
      <4>1. kHeapLimit \in Nat
        BY MallocAssumption
      <4> HIDE DEF need
      <4>2. rest \in Nat /\ c < rest /\ rest < c + size[c]
        BY <3>1, <1>8, <1>10
      <4> QED BY <4>1, <4>2, <1>8 DEF Addr
    <3>4. rest \notin Chunks
      <4>1. rest \in Chunks => Next_(c) <= rest
        BY <3>3, <1>1, <1>7 DEF HeapInv, Tiled
      <4> QED BY <4>1, <3>3, <1>8 DEF Addr
    <3>5. k \in Bins
      <4>1. size[c] - need \in Addr
        <5>1. kHeapLimit \in Nat
          BY MallocAssumption
        <5> HIDE DEF need
        <5> QED BY <5>1, <3>1, <1>8, <1>10 DEF Addr
      <4> QED BY <4>1, BinIndexAssumption
    <3>6. /\ rest \notin pending /\ \A j \in FastBins : rest \notin fast[j]
          /\ \A j \in Bins : rest \notin b1[j]
      <4>1. \A j \in FastBins : \A x \in fast[j] : x \in Chunks
        BY <1>1, MembersOf, BusyParts DEF TypeOK
      <4>2. \A j \in Bins : \A x \in bins[j] : x \in Chunks
        BY <1>1, MembersOf, BusyParts DEF TypeOK, InBins
      <4>3. \A j \in Bins : \A x \in b1[j] : x \in bins[j]
        BY <1>1, <1>7, BinsWithoutIs
      <4> HIDE DEF b1, rest
      <4> QED BY <3>4, <4>1, <4>2, <4>3, <1>1, BusyParts
    <3> HIDE DEF k, rest, l1, b1
    <3>7. /\ Kept(L!AddNode(l1, "bins", k, rest), fast, [b1 EXCEPT ![k] = @ \union {rest}])
          /\ Chained(L!AddNode(l1, "bins", k, rest), chain, pending)
      BY <1>9, <3>3, <3>5, <3>6, LinkedStep
    <3> QED BY <2>2, <3>2, <3>7
  <2> QED BY <2>1, <2>2
<1> HIDE DEF l
<1>13. Kept(l, fast', bins') /\ Chained(l, chain, pending')
  BY <1>3, <1>12
<1>14. Kept(links', fast', bins') /\ Chained(links', chain, pending')
  BY <1>6, <1>13, BecomesKeeps
<1> QED BY <1>14 DEF ListsInv

-----------------------------------------------------------------------------
(* After a free of a free chunk nothing more happens to the heap: the call   *)
(* holds a chunk whose tags say it is free, and can only abort.              *)
Misused ==
    /\ pc \in {"free", "aborted"}
    /\ pc = "free" => \A c \in held : ~IsInUse(c)

ListedInv == TypeOK /\ ListsInv /\ (IInv \/ Misused)

LEMMA InitListedInv == ListedInit => ListedInv
<1> SUFFICES ASSUME ListedInit PROVE ListedInv
  OBVIOUS
<1>1. IInv /\ TypeOK
  BY InitIInv DEF ListedInit, IInv
<1>2. /\ fast = [i \in FastBins |-> {}] /\ bins = [i \in Bins |-> {}] /\ pending = {}
      /\ chain = Null
  BY DEF ListedInit, Init
<1>3. links = [heads |-> [list \in DOMAIN [fast |-> FastBins, bins |-> Bins]
                            |-> [i \in [fast |-> FastBins, bins |-> Bins][list] |-> Null]],
               next |-> [c \in Addr |-> Junk], prev |-> [c \in Addr |-> Junk]]
  BY Zenon DEF ListedInit, L!NoLists
<1>4. /\ links.heads.fast = [i \in FastBins |-> Null]
      /\ links.heads.bins = [i \in Bins |-> Null]
      /\ links.heads = [fast |-> [i \in FastBins |-> Null], bins |-> [i \in Bins |-> Null]]
  BY <1>3
<1>5. links = [heads |-> links.heads, next |-> [c \in Addr |-> Junk], prev |-> [c \in Addr |-> Junk]]
  BY <1>3
<1>6. links \in ListType
  BY <1>4, <1>5 DEF ListType, Words
<1>7. Kept(links, fast, bins) /\ Chained(links, chain, pending)
  BY <1>2, <1>4, <1>6, EmptyList DEF Kept
<1> QED BY <1>1, <1>7 DEF ListedInv, ListsInv

(* In a state that is Misused only the abort is left to do.                  *)
LEMMA MisuseAborts ==
    ASSUME Misused, ListedNext
    PROVE  FreeAborts /\ pc = "free" /\ Proceed
<1>1. pc = "free" \/ pc = "aborted"
  BY DEF Misused
<1>2. ~Client /\ ~FreeFreeChunk
  BY <1>1 DEF Client, CallMalloc, CallCalloc, CallRealloc, CallFree, CallFreeRegion,
              CallReallocRegion, ClientWrites, FreeFreeChunk
<1>3. ~ConsolidateOne /\ ~ConsolidateDone /\ ~AllocateFromBins /\ ~BinsHaveNothing
  BY <1>1 DEF ConsolidateOne, ConsolidateDone, AllocateFromBins, BinsHaveNothing
<1>4. ~Release /\ ~HeapFails /\ ~HeapAllocate /\ ~ReturnNull /\ ~ReturnFromMalloc
      /\ ~ReturnFromCalloc /\ ~CopyInRealloc
  BY <1>1 DEF Release, HeapFails, HeapAllocate, ReturnNull, ReturnFromMalloc,
              ReturnFromCalloc, CopyInRealloc
<1>5. BeginFree /\ IF pc' = "idle" THEN Push ELSE Proceed
  BY <1>2, <1>3, <1>4 DEF ListedNext, Consolidate, Take
<1>6. pc = "free" /\ ~FreeChecks
  BY <1>5 DEF BeginFree, Misused, FreeChecks
<1>7. FreeAborts /\ pc' = "aborted"
  BY <1>5, <1>6 DEF BeginFree, FreeAborts
<1> QED BY <1>5, <1>6, <1>7

LEMMA NextListedInv == ListedInv /\ [ListedNext]_listed => ListedInv'
<1> SUFFICES ASSUME ListedInv, [ListedNext]_listed PROVE ListedInv'
  OBVIOUS
<1>1. CASE UNCHANGED listed
  <2>1. UNCHANGED vars /\ links' = links /\ chain' = chain
    BY <1>1 DEF listed
  <2>2. fast' = fast /\ bins' = bins /\ pending' = pending /\ pc' = pc /\ held' = held
        /\ size' = size /\ pinuse' = pinuse
    BY <2>1 DEF vars, lists, memory
  <2>3. ListsInv'
    BY <2>1, <2>2 DEF ListedInv, ListsInv
  <2>4. TypeOK'
    BY <2>1 DEF ListedInv, TypeOK, vars, memory, lists, heap, client
  <2>5. IInv => IInv'
    BY <2>1, NextIInv
  <2>6. Misused => Misused'
    BY <2>2 DEF Misused, IsInUse, Next_
  <2> QED BY <2>3, <2>4, <2>5, <2>6 DEF ListedInv
<1>2. CASE ListedNext /\ Misused
  <2>1. FreeAborts /\ Proceed
    BY <1>2, MisuseAborts
  <2>2. pc' = "aborted" /\ UNCHANGED <<memory, lists, heap, client, held, call>>
    BY <2>1 DEF FreeAborts
  <2>3. Becomes(links) /\ chain' = chain
    BY <2>1, <2>2 DEF Proceed
  <2>4. TypeOK'
    BY <2>2 DEF ListedInv, TypeOK, memory, lists, heap, client
  <2>5. ListsInv'
    BY <2>2, <2>3, <2>4, QuietKeeps DEF ListedInv
  <2> QED BY <2>2, <2>4, <2>5 DEF ListedInv, Misused
<1>3. CASE ListedNext /\ IInv
  <2>1. TypeOK /\ HeapInv /\ ListsInv
    BY <1>3 DEF ListedInv, IInv
  <2>2. ASSUME Next PROVE IInv' /\ TypeOK'
    BY <1>3, <2>2, NextIInv DEF IInv
  <2>3. CASE Client /\ Proceed
    <3>1. IInv' /\ TypeOK'
      BY <2>2, <2>3 DEF Next
    <3>2. ListsInv'
      BY <2>1, <2>3, <3>1, ClientEffects, ProceedKeeps
    <3> QED BY <3>1, <3>2 DEF ListedInv
  <2>4. CASE FreeFreeChunk /\ Proceed
    <3>1. PICK c \in InBins : held' = {c}
      BY <2>4 DEF FreeFreeChunk
    <3>2. /\ call' = [NoCall EXCEPT !.op = "free"] /\ pc' = "free"
          /\ UNCHANGED <<memory, lists, heap, client>>
      BY <2>4 DEF FreeFreeChunk
    <3>3. c \in Addr
      BY <2>1, BusyParts
    <3>4. TypeOK'
      BY <2>1, <3>1, <3>2, <3>3, NoCallType DEF TypeOK, memory, lists, heap, client
    <3>5. QuietStep
      BY <3>2 DEF QuietStep
    <3>6. ListsInv'
      BY <2>1, <2>4, <3>4, <3>5, ProceedKeeps
    <3>7. ~IsInUse(c)
      BY <2>1 DEF HeapInv, TagsTell
    <3>8. Misused'
      BY <3>1, <3>2, <3>7 DEF Misused, IsInUse, Next_, memory
    <3> QED BY <3>4, <3>6, <3>8 DEF ListedInv
  <2>5. CASE BeginFree /\ IF pc' = "idle" THEN Push ELSE Proceed
    <3>1. IInv' /\ TypeOK'
      BY <2>2, <2>5 DEF Next, Running
    <3>2. FreeChecks
      BY <1>3, <2>5, FreeNeverAborts DEF BeginFree
    <3>3. CASE pc' = "idle"
      <4>1. ListsInv'
        BY <1>3, <2>1, <2>5, <3>1, <3>2, <3>3, PushKeeps
      <4> QED BY <3>1, <4>1 DEF ListedInv
    <3>4. CASE pc' # "idle"
      <4>1. QuietStep \/ ExtractStep
        BY <3>2, <3>4 DEF FreeChecks, EndCall, QuietStep, ExtractStep, lists
      <4>2. ListsInv'
        BY <2>1, <2>5, <3>1, <3>4, <4>1, ProceedKeeps
      <4> QED BY <3>1, <4>2 DEF ListedInv
    <3> QED BY <3>3, <3>4
  <2>6. CASE Consolidate
    <3>1. IInv' /\ TypeOK'
      BY <2>2, <2>6 DEF Next, Running, Consolidate
    <3>2. ListsInv'
      BY <2>1, <2>6, <3>1, ConsolidateKeeps
    <3> QED BY <3>1, <3>2 DEF ListedInv
  <2>7. CASE Take /\ UNCHANGED chain
    <3>1. IInv' /\ TypeOK'
      BY <2>2, <2>7 DEF Next, Running, Take
    <3>2. ListsInv'
      BY <1>3, <2>1, <2>7, <3>1, TakeKeeps
    <3> QED BY <3>1, <3>2 DEF ListedInv
  <2>8. CASE Release /\ (\E m \in held : Becomes(AfterFreeChunk(m))) /\ UNCHANGED chain
    <3>1. IInv' /\ TypeOK'
      BY <2>2, <2>8 DEF Next, Running
    <3>2. ListsInv'
      BY <1>3, <2>1, <2>8, <3>1, ReleaseLinks
    <3> QED BY <3>1, <3>2 DEF ListedInv
  <2>9. CASE /\ \/ ConsolidateDone \/ BinsHaveNothing \/ HeapFails \/ HeapAllocate \/ ReturnNull
                \/ ReturnFromMalloc \/ ReturnFromCalloc \/ CopyInRealloc
             /\ Becomes(links) /\ UNCHANGED chain
    <3>1. IInv' /\ TypeOK'
      BY <2>2, <2>9 DEF Next, Running
    <3>2. UNCHANGED lists
      BY <2>9 DEF ConsolidateDone, BinsHaveNothing, HeapFails, HeapAllocate, ReturnNull,
                  ReturnFromMalloc, ReturnFromCalloc, CopyInRealloc
    <3>3. ListsInv'
      BY <2>1, <2>9, <3>1, <3>2, QuietKeeps
    <3> QED BY <3>1, <3>3 DEF ListedInv
  <2> QED BY <1>3, <2>3, <2>4, <2>5, <2>6, <2>7, <2>8, <2>9 DEF ListedNext
<1> QED BY <1>1, <1>2, <1>3 DEF ListedInv

LEMMA ListedInvariance == ListedSpec => []ListedInv
<1> QED BY InitListedInv, NextListedInv, PTL DEF ListedSpec

(* Through every push, search, unlinking, split and consolidation, each list *)
(* of BinsList holds the chunks of its bin and no others, linked both ways,  *)
(* the chain being consolidated leads to all that is left of it, and a       *)
(* search finds what the allocator is meant to find.                         *)
THEOREM ListsHoldTheBins == ListedSpec => []ListsAreTheBins
<1>1. ListedInv => ListsAreTheBins
  BY ListsInvIsEnough DEF ListedInv
<1> QED BY <1>1, ListedInvariance, PTL

(* A free of a chunk in an ordinary bin ends in the abort of ReportError,    *)
(* whatever calls came before it.                                            *)
THEOREM DoubleFreeIsDetected == ListedSpec => FreeOfFreeAborts
<1>1. ListedInv /\ [ListedNext]_listed
        => [pc = "free" /\ held \subseteq InBins => pc' = "aborted"]_vars
  <2> SUFFICES ASSUME ListedInv, [ListedNext]_listed, pc = "free", held \subseteq InBins
               PROVE  pc' = "aborted" \/ UNCHANGED vars
    OBVIOUS
  <2>1. ~IInv
    <3>1. ASSUME IInv PROVE FALSE
      <4>1. held # {} /\ held \intersect InBins = {}
        BY <3>1 DEF IInv, CallInOrder, HeapInv, OwnedOnce
      <4> QED BY <4>1
    <3> QED BY <3>1
  <2>2. Misused
    BY <2>1 DEF ListedInv
  <2>3. CASE ListedNext
    <3>1. FreeAborts
      BY <2>2, <2>3, MisuseAborts
    <3> QED BY <3>1 DEF FreeAborts
  <2>4. CASE UNCHANGED listed
    BY <2>4 DEF listed
  <2> QED BY <2>3, <2>4
<1> QED BY <1>1, ListedInvariance, PTL DEF ListedSpec, FreeOfFreeAborts

(* Taking the chunk the lists come to first is one of the choices Malloc     *)
(* allows: as long as the client does not free a free chunk, what happens    *)
(* with the lists is a behaviour of Malloc, and every theorem about it       *)
(* holds of the code's lists too.                                            *)
THEOREM ListsImplementSets == ListedSpec /\ [][~FreeFreeChunk]_listed => Spec
<1>1. ListedInit => Init
  BY DEF ListedInit
<1>2. [ListedNext]_listed /\ [~FreeFreeChunk]_listed => [Next]_vars
  <2>1. ListedNext => Next \/ FreeFreeChunk
    BY DEF ListedNext, Next, Running, Consolidate, Take
  <2>2. UNCHANGED listed => UNCHANGED vars
    BY DEF listed
  <2> QED BY <2>1, <2>2
<1> QED BY <1>1, <1>2, PTL DEF ListedSpec, Spec
=============================================================================
