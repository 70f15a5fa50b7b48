--------------------------- MODULE ElfToolsProofs ---------------------------
(***************************************************************************)
(* Proofs about strip and patchelf, for every file, every string and every  *)
(* order of their steps: the path always holds a whole ELF file in order,   *)
(* it answers with what was set last, strip keeps what it should, and a     *)
(* second strip changes nothing.                                            *)
(***************************************************************************)
EXTENDS ElfTools, TLAPS, NaturalsInduction, WellFoundedInduction, FiniteSetTheorems

-----------------------------------------------------------------------------
(* The operators of ElfFile and Strip.                                      *)

(* A set of numbers has a least one.                                        *)
LEMMA NonemptyHasMin ==
    ASSUME NEW S, S \subseteq Nat, S # {}
    PROVE  \E m \in S : \A n \in S : m <= n
<1>1. PICK m \in S : \A n \in S : <<n, m>> \notin OpToRel(<, Nat)
  BY NatLessThanWellFounded, WFMin
<1>2. \A n \in S : ~(n < m)
  BY <1>1 DEF OpToRel
<1> QED BY <1>2

(* FirstNamed is the least number of a section with the name.               *)
LEMMA FirstNamedIs ==
    ASSUME NEW f, f.secs \in Seq(Sections), NEW name
    PROVE  \/ FirstNamed(f, name) = 0 /\ \A k \in DOMAIN f.secs : f.secs[k].name # name
           \/ /\ FirstNamed(f, name) \in DOMAIN f.secs
              /\ f.secs[FirstNamed(f, name)].name = name
              /\ \A k \in DOMAIN f.secs : f.secs[k].name = name => FirstNamed(f, name) <= k
<1> DEFINE them == {k \in DOMAIN f.secs : f.secs[k].name = name}
<1>1. CASE them = {}
  BY <1>1 DEF FirstNamed
<1>2. CASE them # {}
  <2>1. them \subseteq Nat
    OBVIOUS
  <2>2. \E k \in them : \A j \in them : k <= j
    BY <1>2, <2>1, NonemptyHasMin
  <2>3. FirstNamed(f, name) = CHOOSE k \in them : \A j \in them : k <= j
    BY <1>2 DEF FirstNamed
  <2>4. /\ FirstNamed(f, name) \in them
        /\ \A j \in them : FirstNamed(f, name) <= j
    BY <2>2, <2>3
  <2> QED BY <2>4
<1> QED BY <1>1, <1>2

(* Whatever is first with a name is FirstNamed, and 0 is if nothing is.     *)
LEMMA FirstNamedUnique ==
    ASSUME NEW f, f.secs \in Seq(Sections), NEW name, NEW k \in DOMAIN f.secs,
           f.secs[k].name = name,
           \A j \in DOMAIN f.secs : f.secs[j].name = name => k <= j
    PROVE  FirstNamed(f, name) = k
<1>1. k \in Nat /\ DOMAIN f.secs \subseteq Nat
  OBVIOUS
<1> QED BY <1>1, FirstNamedIs

LEMMA FirstNamedNone ==
    ASSUME NEW f, f.secs \in Seq(Sections), NEW name,
           \A j \in DOMAIN f.secs : f.secs[j].name # name
    PROVE  FirstNamed(f, name) = 0
BY FirstNamedIs

(* RoundUp goes up, and to a multiple.                                      *)
LEMMA RoundUpIs ==
    ASSUME NEW x \in Nat, NEW align \in Nat
    PROVE  /\ RoundUp(x, align) \in Nat /\ x <= RoundUp(x, align)
           /\ align > 0 => RoundUp(x, align) % align = 0
<1> DEFINE a == IF align = 0 THEN 1 ELSE align
           q == (x + a - 1) \div a
<1>1. a \in Nat \ {0} /\ x + a - 1 \in Nat /\ (align > 0 => a = align)
  OBVIOUS
<1>2. q \in Nat /\ x + a - 1 < q * a + a
  <2> HIDE DEF a
  <2> QED BY <1>1
<1>3. (q * a) % a = 0 /\ q * a \in Nat
  <2> HIDE DEF a, q
  <2> QED BY <1>1, <1>2
<1>4. RoundUp(x, align) = q * a
  BY DEF RoundUp
<1>5. x <= q * a
  <2> HIDE DEF a, q
  <2> QED BY <1>1, <1>2, <1>3
<1> QED BY <1>1, <1>3, <1>4, <1>5

(* A finite set of numbers has a largest one, so the end of the segments is *)
(* a number.                                                                *)
LEMMA FiniteHasMax ==
    ASSUME NEW S, S \subseteq Nat, IsFiniteSet(S), S # {}
    PROVE  \E m \in S : \A n \in S : n <= m
<1> DEFINE Bad == {T \in SUBSET S : T # {} /\ ~\E m \in T : \A n \in T : n <= m}
<1> SUFFICES ASSUME Bad # {} PROVE FALSE
  OBVIOUS
<1>1. \A T \in Bad : IsFiniteSet(T) /\ Cardinality(T) \in Nat
  BY FS_Subset, FS_CardinalityType
<1> DEFINE Sizes == {Cardinality(T) : T \in Bad}
<1>2. PICK c \in Sizes : \A d \in Sizes : c <= d
  <2>1. Sizes \subseteq Nat /\ Sizes # {}
    BY <1>1
  <2> HIDE DEF Sizes
  <2> QED BY <2>1, NonemptyHasMin
<1>3. PICK T \in Bad : c = Cardinality(T)
  OBVIOUS
<1>4. PICK x \in T : TRUE
  OBVIOUS
<1>5. IsFiniteSet(T \ {x}) /\ Cardinality(T \ {x}) = Cardinality(T) - 1
  BY <1>1, <1>4, FS_RemoveElement
<1>6. Cardinality(T \ {x}) < c /\ Cardinality(T) \in Nat
  BY <1>1, <1>3, <1>5
<1>7. T \ {x} \notin Bad
  <2> SUFFICES ASSUME T \ {x} \in Bad PROVE FALSE
    OBVIOUS
  <2>1. c <= Cardinality(T \ {x})
    BY <1>2
  <2> HIDE DEF Bad
  <2> QED BY <2>1, <1>3, <1>5, <1>6
<1>8. CASE T \ {x} = {}
  <2>1. \A n \in T : n <= x
    BY <1>4, <1>8
  <2> QED BY <2>1, <1>4
<1>9. CASE T \ {x} # {}
  <2>1. PICK m \in T \ {x} : \A n \in T \ {x} : n <= m
    BY <1>7, <1>9
  <2>2. T \subseteq Nat
    OBVIOUS
  <2> QED BY <2>1, <2>2, <1>4
<1> QED BY <1>8, <1>9

LEMMA EndOfSegmentsIsNat ==
    ASSUME NEW f, IsFiniteSet(f.segments),
           \A p \in f.segments : p.offset \in Nat /\ p.filesz \in Nat
    PROVE  ComputeEndOfSegments(f) \in Nat
<1> DEFINE ends == {p.offset + p.filesz : p \in f.segments}
           S == {0} \union ends
<1>1. IsFiniteSet(S)
  <2>1. IsFiniteSet(ends)
    <3> DEFINE g == [p \in f.segments |-> p.offset + p.filesz]
    <3>1. g \in Surjection(f.segments, ends)
      BY DEF Surjection
    <3> QED BY <3>1, FS_Surjection
  <2> QED BY <2>1, FS_Singleton, FS_Union
<1>2. S \subseteq Nat /\ S # {}
  OBVIOUS
<1>3. \E m \in S : \A n \in S : n <= m
  <2> HIDE DEF S
  <2> QED BY <1>1, <1>2, FiniteHasMax
<1>4. ComputeEndOfSegments(f) = CHOOSE m \in S : \A n \in S : m >= n
  BY DEF ComputeEndOfSegments, Max
<1> HIDE DEF S
<1>5. \E m \in S : \A n \in S : m >= n
  BY <1>3, <1>2
<1>6. ComputeEndOfSegments(f) \in S
  BY <1>4, <1>5
<1> QED BY <1>2, <1>6

-----------------------------------------------------------------------------
(* The loop of ProcessSectionHeaders, on a file f: l is its state before the *)
(* k-th round.                                                              *)

FileType(f) ==
    /\ f \in [secs : Seq(Sections), segments : SUBSET [offset : Nat, filesz : Nat],
              headers : Nat, shoff : Nat, shstrndx : Nat]
    /\ f.secs \in Seq(Sections) /\ f.shoff \in Nat /\ f.shstrndx \in Nat /\ f.headers \in Nat
    /\ ComputeEndOfSegments(f) \in Nat

LoopType(f, l, k) ==
    /\ k \in Nat \ {0} /\ k <= Len(f.secs) + 1
    /\ l.secs \in Seq(Sections) /\ l.next_offset_nonalloc \in Nat
    /\ l.new_shstrndx \in Nat /\ l.old_to_new_index \in [DOMAIN f.secs -> Nat]

(* What strip leaves as it is in a section it copies, except for the links.  *)
Copied(s, t) ==
    /\ t.name = s.name /\ t.alloc = s.alloc /\ t.size = s.size /\ t.align = s.align
    /\ t.rel = s.rel /\ t.link = s.link /\ t.info = s.info
    /\ s.alloc => t.offset = s.offset

(* The map of indices: exactly the sections that were kept so far are in it, *)
(* in their order and without gaps.                                         *)
LoopMaps(f, keep, l, k) ==
    LET map == l.old_to_new_index
    IN  /\ \A j \in DOMAIN f.secs :
             /\ map[j] # 0 <=> j < k /\ j \in Kept(f, keep)
             /\ map[j] # 0 => map[j] \in DOMAIN l.secs /\ Copied(f.secs[j], l.secs[map[j]])
        /\ \A i, j \in DOMAIN f.secs :
             map[i] # 0 /\ map[j] # 0 /\ i < j => map[i] < map[j]
        /\ \A n \in DOMAIN l.secs : \E j \in DOMAIN f.secs : map[j] = n
        /\ \A j \in DOMAIN f.secs :
             map[j] # 0 /\ f.secs[j].name = ".shstrtab" =>
                /\ l.new_shstrndx \in DOMAIN l.secs
                /\ l.secs[l.new_shstrndx].name = ".shstrtab"

LoopCounts(f, keep, l, k) ==
    /\ Len(l.secs) = Cardinality({j \in Kept(f, keep) : j < k})
    /\ \A j \in DOMAIN f.secs :
         l.old_to_new_index[j] # 0 => l.old_to_new_index[j] = Place(Kept(f, keep), j)

(* What no segment holds is behind the segments, one after another.         *)
LoopLays(f, l) ==
    LET next == l.next_offset_nonalloc
        loose == {n \in DOMAIN l.secs : ~l.secs[n].alloc}
    IN  /\ ComputeEndOfSegments(f) <= next
        /\ \A n \in loose :
             /\ l.secs[n].align > 0 => l.secs[n].offset % l.secs[n].align = 0
             /\ ComputeEndOfSegments(f) <= l.secs[n].offset
             /\ l.secs[n].offset + l.secs[n].size <= next
        /\ \A m, n \in loose :
             m < n => l.secs[m].offset + l.secs[m].size <= l.secs[n].offset

LoopOK(f, keep, l, k) ==
    /\ LoopType(f, l, k) /\ LoopMaps(f, keep, l, k) /\ LoopCounts(f, keep, l, k)
    /\ LoopLays(f, l)

(* The sections that stay are finitely many of the file's.                  *)
LEMMA KeptIs ==
    ASSUME NEW f, f.secs \in Seq(Sections), NEW keep
    PROVE  /\ Kept(f, keep) \subseteq DOMAIN f.secs /\ DOMAIN f.secs = 1 .. Len(f.secs)
           /\ Len(f.secs) \in Nat /\ IsFiniteSet(Kept(f, keep))
<1>1. /\ Kept(f, keep) \subseteq DOMAIN f.secs
      /\ DOMAIN f.secs = 1 .. Len(f.secs) /\ Len(f.secs) \in Nat
  BY DEF Kept
<1>2. IsFiniteSet(1 .. Len(f.secs))
  BY <1>1, FS_Interval
<1> QED BY <1>1, <1>2, FS_Subset

(* Before the first round.                                                  *)
LEMMA LoopStarts ==
    ASSUME NEW f, FileType(f), NEW keep
    PROVE  LoopOK(f, keep, LoopStart(f), 1)
<1> DEFINE l == LoopStart(f)
<1>1. /\ l.secs = <<>> /\ l.next_offset_nonalloc = ComputeEndOfSegments(f)
      /\ l.old_to_new_index = [k \in DOMAIN f.secs |-> 0] /\ l.new_shstrndx = 0
  BY DEF LoopStart
<1>2. /\ DOMAIN f.secs = 1 .. Len(f.secs) /\ Len(f.secs) \in Nat
      /\ Kept(f, keep) \subseteq DOMAIN f.secs
  BY KeptIs DEF FileType
<1> HIDE DEF l
<1>3. LoopType(f, l, 1)
  BY <1>1, <1>2 DEF LoopType, FileType
<1>4. LoopMaps(f, keep, l, 1)
  BY <1>1, <1>2 DEF LoopMaps
<1>5. LoopCounts(f, keep, l, 1)
  <2>1. {j \in Kept(f, keep) : j < 1} = {}
    BY <1>2
  <2> QED BY <2>1, <1>1, FS_EmptySet DEF LoopCounts
<1>6. LoopLays(f, l)
  <2>1. DOMAIN l.secs = {}
    BY <1>1
  <2>2. ComputeEndOfSegments(f) <= l.next_offset_nonalloc
    BY <1>1 DEF FileType
  <2>3. \A n : n \notin DOMAIN l.secs
    BY <2>1
  <2> QED BY <2>2, <2>3 DEF LoopLays
<1> QED BY <1>3, <1>4, <1>5, <1>6 DEF LoopOK, l

(* A section that is left out.                                              *)
LEMMA LoopSkips ==
    ASSUME NEW f, FileType(f), NEW keep, NEW l, NEW k \in DOMAIN f.secs,
           LoopOK(f, keep, l, k), k \notin Kept(f, keep)
    PROVE  LoopOK(f, keep, l, k + 1)
<1>1. /\ DOMAIN f.secs = 1 .. Len(f.secs) /\ Len(f.secs) \in Nat
      /\ Kept(f, keep) \subseteq DOMAIN f.secs
  BY KeptIs DEF FileType
<1>2. \A j \in Kept(f, keep) : j < k + 1 <=> j < k
  BY <1>1
<1>3. LoopType(f, l, k + 1)
  BY <1>1 DEF LoopOK, LoopType
<1>4. LoopMaps(f, keep, l, k + 1)
  BY <1>2 DEF LoopOK, LoopMaps
<1>5. LoopCounts(f, keep, l, k + 1)
  <2>1. {j \in Kept(f, keep) : j < k + 1} = {j \in Kept(f, keep) : j < k}
    BY <1>2
  <2> QED BY <2>1 DEF LoopOK, LoopCounts
<1> QED BY <1>3, <1>4, <1>5 DEF LoopOK

(* One round, variable by variable, and the section it appends.             *)
LEMMA CopySectionIs ==
    ASSUME NEW l, NEW s, NEW k
    PROVE  /\ CopySection(l, s, k).secs
                = Append(l.secs, UpdateNonAllocSectionOffset(s, l.next_offset_nonalloc))
           /\ CopySection(l, s, k).next_offset_nonalloc
                = NextOffset(s, l.next_offset_nonalloc)
           /\ CopySection(l, s, k).old_to_new_index
                = [l.old_to_new_index EXCEPT ![k] = Len(l.secs) + 1]
           /\ CopySection(l, s, k).new_shstrndx
                = IF s.name = ".shstrtab" THEN Len(l.secs) + 1 ELSE l.new_shstrndx
BY DEF CopySection

LEMMA CopyOfSection ==
    ASSUME NEW s \in Sections, NEW next \in Nat
    PROVE  LET t == UpdateNonAllocSectionOffset(s, next)
           IN  /\ t \in Sections /\ Copied(s, t) /\ t.data = s.data
               /\ NextOffset(s, next) \in Nat /\ next <= NextOffset(s, next)
               /\ ~t.alloc => /\ t.align > 0 => t.offset % t.align = 0
                              /\ next <= t.offset /\ t.offset + t.size = NextOffset(s, next)
<1> DEFINE o == RoundUp(next, s.align)
<1>1. /\ s.align \in Nat /\ s.size \in Nat /\ s.offset \in Nat /\ s.alloc \in BOOLEAN
      /\ s.name \in STRING /\ s.link \in Nat /\ s.info \in Nat /\ s.data \in Strings
  BY DEF Sections
<1>2. o \in Nat /\ next <= o /\ (s.align > 0 => o % s.align = 0)
  BY <1>1, RoundUpIs
<1> HIDE DEF o
<1>3. CASE s.alloc
  <2>1. UpdateNonAllocSectionOffset(s, next) = s /\ NextOffset(s, next) = next
    BY <1>3 DEF UpdateNonAllocSectionOffset, NextOffset
  <2> QED BY <2>1, <1>3 DEF Copied
<1>4. CASE ~s.alloc
  <2> DEFINE t == [s EXCEPT !.offset = o]
  <2>1. UpdateNonAllocSectionOffset(s, next) = t /\ NextOffset(s, next) = o + s.size
    BY <1>4 DEF UpdateNonAllocSectionOffset, NextOffset, o
  <2>2. t \in Sections
    BY <1>2 DEF Sections
  <2>3. /\ t.offset = o /\ t.name = s.name /\ t.alloc = s.alloc /\ t.size = s.size
        /\ t.align = s.align /\ t.link = s.link /\ t.info = s.info /\ t.data = s.data
        /\ t.rel = s.rel
    BY DEF Sections
  <2> HIDE DEF t
  <2> QED BY <1>1, <1>2, <1>4, <2>1, <2>2, <2>3 DEF Copied
<1> QED BY <1>3, <1>4

(* A section that is copied: what CopySection makes of each part.           *)
LEMMA LoopCopies ==
    ASSUME NEW f, FileType(f), NEW keep, NEW l, NEW k \in DOMAIN f.secs,
           LoopOK(f, keep, l, k), k \in Kept(f, keep)
    PROVE  LoopOK(f, keep, CopySection(l, f.secs[k], k), k + 1)
<1> DEFINE s == f.secs[k]
           map == l.old_to_new_index
           new == Len(l.secs) + 1
<1>1. /\ DOMAIN f.secs = 1 .. Len(f.secs) /\ Len(f.secs) \in Nat
      /\ Kept(f, keep) \subseteq DOMAIN f.secs /\ IsFiniteSet(Kept(f, keep))
      /\ s \in Sections
  BY KeptIs DEF FileType
<1>2. /\ l.secs \in Seq(Sections) /\ l.next_offset_nonalloc \in Nat
      /\ l.new_shstrndx \in Nat
      /\ map \in [DOMAIN f.secs -> Nat] /\ DOMAIN l.secs = 1 .. Len(l.secs)
      /\ Len(l.secs) \in Nat
  BY DEF LoopOK, LoopType
<1>3. PICK t : t = UpdateNonAllocSectionOffset(s, l.next_offset_nonalloc)
  OBVIOUS
<1> HIDE DEF map, s
<1>c. PICK c : c = CopySection(l, s, k)
  OBVIOUS
<1>4. /\ c.secs = Append(l.secs, t)
      /\ c.next_offset_nonalloc = NextOffset(s, l.next_offset_nonalloc)
      /\ c.old_to_new_index = [map EXCEPT ![k] = new]
      /\ c.new_shstrndx = IF s.name = ".shstrtab" THEN new ELSE l.new_shstrndx
  BY <1>3, <1>c, CopySectionIs DEF map
<1>5. /\ t \in Sections /\ Copied(s, t)
      /\ NextOffset(s, l.next_offset_nonalloc) \in Nat
      /\ l.next_offset_nonalloc <= NextOffset(s, l.next_offset_nonalloc)
      /\ ~t.alloc => /\ t.align > 0 => t.offset % t.align = 0
                     /\ l.next_offset_nonalloc <= t.offset
                     /\ t.offset + t.size = NextOffset(s, l.next_offset_nonalloc)
  BY <1>1, <1>2, <1>3, CopyOfSection
<1>6. /\ c.secs \in Seq(Sections) /\ DOMAIN c.secs = 1 .. new /\ Len(c.secs) = new
      /\ \A n \in DOMAIN l.secs : c.secs[n] = l.secs[n] /\ n \in DOMAIN c.secs /\ n < new
      /\ c.secs[new] = t /\ new \in DOMAIN c.secs
      /\ \A n \in DOMAIN c.secs : n = new \/ n \in DOMAIN l.secs
  BY <1>2, <1>4, <1>5
<1>7. /\ \A j \in DOMAIN f.secs : c.old_to_new_index[j] = IF j = k THEN new ELSE map[j]
      /\ c.old_to_new_index \in [DOMAIN f.secs -> Nat]
  BY <1>2, <1>4
<1>8. /\ \A j \in DOMAIN f.secs :
             /\ map[j] # 0 <=> j < k /\ j \in Kept(f, keep)
             /\ map[j] # 0 => map[j] \in DOMAIN l.secs /\ Copied(f.secs[j], l.secs[map[j]])
      /\ \A i, j \in DOMAIN f.secs :
             map[i] # 0 /\ map[j] # 0 /\ i < j => map[i] < map[j]
      /\ \A n \in DOMAIN l.secs : \E j \in DOMAIN f.secs : map[j] = n
      /\ \A j \in DOMAIN f.secs :
             map[j] # 0 /\ f.secs[j].name = ".shstrtab" =>
                /\ l.new_shstrndx \in DOMAIN l.secs
                /\ l.secs[l.new_shstrndx].name = ".shstrtab"
  BY DEF LoopOK, LoopMaps, map
<1>9. LoopType(f, c, k + 1)
  BY <1>1, <1>2, <1>4, <1>5, <1>6, <1>7 DEF LoopType
<1>10. \A j \in DOMAIN f.secs : j < k + 1 <=> j < k \/ j = k
  BY <1>1
<1>11. LoopMaps(f, keep, c, k + 1)
  <2>1. ASSUME NEW j \in DOMAIN f.secs
        PROVE  /\ c.old_to_new_index[j] # 0 <=> j < k + 1 /\ j \in Kept(f, keep)
               /\ c.old_to_new_index[j] # 0 =>
                     /\ c.old_to_new_index[j] \in DOMAIN c.secs
                     /\ Copied(f.secs[j], c.secs[c.old_to_new_index[j]])
    <3>1. CASE j = k
      <4>1. c.old_to_new_index[j] = new /\ new # 0
        BY <3>1, <1>2, <1>7
      <4> QED BY <3>1, <4>1, <1>1, <1>5, <1>6 DEF s
    <3>2. CASE j # k
      <4>1. c.old_to_new_index[j] = map[j]
        BY <3>2, <1>7
      <4> QED BY <3>2, <4>1, <1>6, <1>8, <1>10
    <3> QED BY <3>1, <3>2
  <2>2. ASSUME NEW i \in DOMAIN f.secs, NEW j \in DOMAIN f.secs, i < j,
               c.old_to_new_index[i] # 0, c.old_to_new_index[j] # 0
        PROVE  c.old_to_new_index[i] < c.old_to_new_index[j]
    <3>1. i < k + 1 /\ j < k + 1
      BY <2>1, <2>2
    <3>2. i # k /\ map[i] # 0 /\ map[i] \in DOMAIN l.secs /\ c.old_to_new_index[i] = map[i]
      BY <3>1, <2>2, <1>1, <1>7, <1>8
    <3>3. CASE j = k
      BY <3>2, <3>3, <1>6, <1>7
    <3>4. CASE j # k
      BY <3>2, <3>4, <2>2, <1>7, <1>8
    <3> QED BY <3>3, <3>4
  <2>3. ASSUME NEW n \in DOMAIN c.secs
        PROVE  \E j \in DOMAIN f.secs : c.old_to_new_index[j] = n
    <3>1. CASE n = new
      BY <3>1, <1>7
    <3>2. CASE n \in DOMAIN l.secs
      <4>1. PICK j \in DOMAIN f.secs : map[j] = n
        BY <3>2, <1>8
      <4>2. n # 0
        BY <3>2, <1>2
      <4>3. j # k
        BY <4>1, <4>2, <1>1, <1>8
      <4> QED BY <4>1, <4>3, <1>7
    <3> QED BY <3>1, <3>2, <1>6
  <2>4. ASSUME NEW j \in DOMAIN f.secs, c.old_to_new_index[j] # 0,
               f.secs[j].name = ".shstrtab"
        PROVE  /\ c.new_shstrndx \in DOMAIN c.secs
               /\ c.secs[c.new_shstrndx].name = ".shstrtab"
    <3>1. CASE s.name = ".shstrtab"
      BY <3>1, <1>4, <1>5, <1>6 DEF Copied
    <3>2. CASE s.name # ".shstrtab"
      <4>1. j # k
        BY <3>2, <2>4 DEF s
      <4>2. map[j] # 0
        BY <4>1, <2>4, <1>7
      <4> QED BY <3>2, <4>2, <2>4, <1>4, <1>6, <1>8
    <3> QED BY <3>1, <3>2
  <2> QED BY <2>1, <2>2, <2>3, <2>4 DEF LoopMaps
<1>12. LoopCounts(f, keep, c, k + 1)
  <2> DEFINE was == {j \in Kept(f, keep) : j < k}
  <2>1. {j \in Kept(f, keep) : j < k + 1} = was \union {k}
    BY <1>1
  <2>2. k \notin was /\ IsFiniteSet(was)
    BY <1>1, FS_Subset
  <2>3. Cardinality(was \union {k}) = Cardinality(was) + 1
    BY <2>2, FS_AddElement
  <2>4. Len(l.secs) = Cardinality(was)
    BY DEF LoopOK, LoopCounts
  <2>5. Len(c.secs) = Cardinality({j \in Kept(f, keep) : j < k + 1})
    BY <2>1, <2>3, <2>4, <1>6
  <2>6. ASSUME NEW j \in DOMAIN f.secs, c.old_to_new_index[j] # 0
        PROVE  c.old_to_new_index[j] = Place(Kept(f, keep), j)
    <3>1. CASE j = k
      <4>1. {i \in Kept(f, keep) : i <= k} = {i \in Kept(f, keep) : i < k + 1}
        BY <1>1
      <4> QED BY <3>1, <4>1, <2>5, <1>6, <1>7 DEF Place
    <3>2. CASE j # k
      BY <3>2, <2>6, <1>7 DEF LoopOK, LoopCounts, map
    <3> QED BY <3>1, <3>2
  <2> QED BY <2>5, <2>6 DEF LoopCounts
<1>13. LoopLays(f, c)
  <2> DEFINE e == ComputeEndOfSegments(f)
             next == l.next_offset_nonalloc
  <2>1. /\ e <= next /\ e \in Nat
        /\ \A n \in DOMAIN l.secs : ~l.secs[n].alloc =>
             /\ l.secs[n].align > 0 => l.secs[n].offset % l.secs[n].align = 0
             /\ e <= l.secs[n].offset /\ l.secs[n].offset + l.secs[n].size <= next
        /\ \A m, n \in DOMAIN l.secs : ~l.secs[m].alloc /\ ~l.secs[n].alloc /\ m < n =>
             l.secs[m].offset + l.secs[m].size <= l.secs[n].offset
    BY DEF LoopOK, LoopLays, FileType
  <2>2. PICK after : after = c.next_offset_nonalloc
    OBVIOUS
  <2>3. after \in Nat /\ next <= after /\ next \in Nat
    BY <2>2, <1>2, <1>4, <1>5
  <2>4. ~t.alloc => /\ t.align > 0 => t.offset % t.align = 0
                   /\ next <= t.offset /\ t.offset + t.size = after
    BY <2>2, <1>4, <1>5
  <2>5. /\ t.offset \in Nat /\ t.size \in Nat
        /\ \A n \in DOMAIN l.secs : l.secs[n].offset \in Nat /\ l.secs[n].size \in Nat
    <3>1. \A n \in DOMAIN l.secs : l.secs[n] \in Sections
      BY <1>2
    <3> QED BY <3>1, <1>5 DEF Sections
  <2> HIDE DEF e, next
  <2>6. e <= after
    BY <2>1, <2>3
  <2>7. ASSUME NEW n \in DOMAIN c.secs, ~c.secs[n].alloc
        PROVE  /\ c.secs[n].align > 0 => c.secs[n].offset % c.secs[n].align = 0
               /\ e <= c.secs[n].offset /\ c.secs[n].offset + c.secs[n].size <= after
    <3>1. CASE n = new
      BY <3>1, <2>1, <2>3, <2>4, <2>5, <2>7, <1>6
    <3>2. CASE n \in DOMAIN l.secs
      BY <3>2, <2>1, <2>3, <2>5, <2>7, <1>6
    <3> QED BY <3>1, <3>2, <1>6
  <2>8. ASSUME NEW m \in DOMAIN c.secs, NEW n \in DOMAIN c.secs, m < n,
               ~c.secs[m].alloc, ~c.secs[n].alloc
        PROVE  c.secs[m].offset + c.secs[m].size <= c.secs[n].offset
    <3>1. m \in DOMAIN l.secs
      <4>1. n \in 1 .. new /\ new \in Nat
        BY <1>2, <1>6
      <4>2. m # new
        BY <4>1, <2>8
      <4> QED BY <4>2, <1>6
    <3>2. CASE n = new
      <4>1. c.secs[n] = t /\ c.secs[m] = l.secs[m]
        BY <3>1, <3>2, <1>6
      <4>2. l.secs[m].offset + l.secs[m].size <= next /\ next <= t.offset
        BY <4>1, <3>1, <2>1, <2>4, <2>8
      <4>3. l.secs[m].offset + l.secs[m].size \in Nat /\ t.offset \in Nat
        BY <3>1, <2>5
      <4> QED BY <4>1, <4>2, <4>3, <2>3
    <3>3. CASE n \in DOMAIN l.secs
      BY <3>1, <3>3, <2>1, <2>8, <1>6
    <3> QED BY <3>2, <3>3, <1>6
  <2> QED BY <2>2, <2>6, <2>7, <2>8 DEF LoopLays, e
<1> QED BY <1>c, <1>9, <1>11, <1>12, <1>13 DEF LoopOK, s

-----------------------------------------------------------------------------
(* The file that is written when the loop has ended.                        *)

(* A section in the new file is one of the loop's, but for its links.       *)
LEMMA FixupIs ==
    ASSUME NEW f, NEW l, l.secs \in Seq(Sections), NEW map, map = l.old_to_new_index,
           map \in [DOMAIN f.secs -> Nat], NEW g, g = NewFile(l, f)
    PROVE  /\ g.secs \in Seq(Sections)
           /\ DOMAIN g.secs = DOMAIN l.secs
           /\ Len(g.secs) = Len(l.secs)
           /\ \A n \in DOMAIN l.secs :
                /\ g.secs[n].name = l.secs[n].name /\ g.secs[n].alloc = l.secs[n].alloc
                /\ g.secs[n].rel = l.secs[n].rel
                /\ g.secs[n].size = l.secs[n].size /\ g.secs[n].align = l.secs[n].align
                /\ g.secs[n].offset = l.secs[n].offset /\ g.secs[n].data = l.secs[n].data
                /\ g.secs[n].link = MapSectionIndex(map, l.secs[n].link)
                /\ g.secs[n].info = IF l.secs[n].rel
                                    THEN MapSectionIndex(map, l.secs[n].info)
                                    ELSE l.secs[n].info
<1> DEFINE Fixed(s) == [s EXCEPT !.link = MapSectionIndex(map, @),
                                 !.info = IF s.rel
                                          THEN MapSectionIndex(map, @) ELSE @]
<1>1. \A x \in Nat : MapSectionIndex(map, x) \in Nat
  BY DEF MapSectionIndex
<1>2. ASSUME NEW s \in Sections
      PROVE  /\ Fixed(s) \in Sections
             /\ Fixed(s).name = s.name /\ Fixed(s).alloc = s.alloc /\ Fixed(s).size = s.size
             /\ Fixed(s).align = s.align /\ Fixed(s).offset = s.offset /\ Fixed(s).rel = s.rel
             /\ Fixed(s).data = s.data /\ Fixed(s).link = MapSectionIndex(map, s.link)
             /\ Fixed(s).info = IF s.rel
                                THEN MapSectionIndex(map, s.info) ELSE s.info
  <2>1. s.link \in Nat /\ s.info \in Nat
    BY DEF Sections
  <2>2. PICK link \in Nat : link = MapSectionIndex(map, s.link)
    BY <1>1, <2>1
  <2>3. PICK info \in Nat : info = IF s.rel
                                   THEN MapSectionIndex(map, s.info) ELSE s.info
    BY <1>1, <2>1
  <2>4. Fixed(s) = [s EXCEPT !.link = link, !.info = info]
    BY <2>2, <2>3 DEF Sections
  <2> HIDE DEF Fixed
  <2> QED BY <2>1, <2>2, <2>3, <2>4 DEF Sections
<1>3. /\ g.secs = [n \in DOMAIN l.secs |-> Fixed(l.secs[n])]
      /\ DOMAIN l.secs = 1 .. Len(l.secs) /\ Len(l.secs) \in Nat
      /\ \A n \in DOMAIN l.secs : l.secs[n] \in Sections
  <2>1. g.secs = FixupLinks(l)
    BY DEF NewFile
  <2>2. FixupLinks(l) = [n \in DOMAIN l.secs |-> Fixed(l.secs[n])]
    BY DEF FixupLinks, FixupLink, ShInfoIsSectionIndex
  <2>3. /\ DOMAIN l.secs = 1 .. Len(l.secs) /\ Len(l.secs) \in Nat
        /\ \A n \in DOMAIN l.secs : l.secs[n] \in Sections
    OBVIOUS
  <2> HIDE DEF Fixed
  <2> QED BY <2>1, <2>2, <2>3
<1> HIDE DEF Fixed
<1>4. /\ g.secs \in Seq(Sections)
      /\ DOMAIN g.secs = DOMAIN l.secs
      /\ Len(g.secs) = Len(l.secs)
  BY <1>2, <1>3
<1> QED BY <1>2, <1>3, <1>4

(* What the new file g of a finished loop has of f: map[j] is where section j has gone. *)
Moved(f, keep, l, g, map) ==
    /\ g.secs \in Seq(Sections) /\ map \in [DOMAIN f.secs -> Nat]
    /\ \A j \in DOMAIN f.secs :
         /\ map[j] # 0 <=> j \in Kept(f, keep)
         /\ map[j] # 0 => /\ map[j] \in DOMAIN g.secs
                          /\ g.secs[map[j]].name = f.secs[j].name
                          /\ g.secs[map[j]].alloc = f.secs[j].alloc
                          /\ g.secs[map[j]].rel = f.secs[j].rel
                          /\ g.secs[map[j]].size = f.secs[j].size
                          /\ g.secs[map[j]].align = f.secs[j].align
                          /\ f.secs[j].alloc =>
                               g.secs[map[j]].offset = f.secs[j].offset
                          /\ g.secs[map[j]].link
                               = MapSectionIndex(map, f.secs[j].link)
                          /\ g.secs[map[j]].info
                               = IF f.secs[j].rel THEN MapSectionIndex(map, f.secs[j].info)
                                 ELSE f.secs[j].info
                          /\ g.secs[map[j]].data = l.secs[map[j]].data
    /\ \A i, j \in DOMAIN f.secs :
         map[i] # 0 /\ map[j] # 0 /\ i < j => map[i] < map[j]
    /\ \A n \in DOMAIN g.secs : \E j \in DOMAIN f.secs : map[j] = n /\ map[j] # 0

LEMMA NewSections ==
    ASSUME NEW f, FileType(f), NEW keep, NEW l, LoopOK(f, keep, l, Len(f.secs) + 1),
           NEW g, g = NewFile(l, f), NEW map, map = l.old_to_new_index
    PROVE  Moved(f, keep, l, g, map)
<1>1. /\ DOMAIN f.secs = 1 .. Len(f.secs) /\ Len(f.secs) \in Nat
      /\ Kept(f, keep) \subseteq DOMAIN f.secs
  BY KeptIs DEF FileType
<1>2. /\ l.secs \in Seq(Sections) /\ map \in [DOMAIN f.secs -> Nat]
      /\ DOMAIN l.secs = 1 .. Len(l.secs)
  BY DEF LoopOK, LoopType
<1>3. \A j \in DOMAIN f.secs : j < Len(f.secs) + 1
  BY <1>1
<1>4. /\ \A j \in DOMAIN f.secs :
               /\ map[j] # 0 <=> j \in Kept(f, keep)
               /\ map[j] # 0 =>
                    map[j] \in DOMAIN l.secs /\ Copied(f.secs[j], l.secs[map[j]])
      /\ \A i, j \in DOMAIN f.secs :
               map[i] # 0 /\ map[j] # 0 /\ i < j => map[i] < map[j]
      /\ \A n \in DOMAIN l.secs : \E j \in DOMAIN f.secs : map[j] = n
  BY <1>3 DEF LoopOK, LoopMaps
<1>6. /\ g.secs \in Seq(Sections) /\ DOMAIN g.secs = DOMAIN l.secs
      /\ \A n \in DOMAIN l.secs :
                /\ g.secs[n].name = l.secs[n].name /\ g.secs[n].alloc = l.secs[n].alloc
                /\ g.secs[n].rel = l.secs[n].rel
                /\ g.secs[n].size = l.secs[n].size /\ g.secs[n].align = l.secs[n].align
                /\ g.secs[n].offset = l.secs[n].offset /\ g.secs[n].data = l.secs[n].data
                /\ g.secs[n].link = MapSectionIndex(map, l.secs[n].link)
                /\ g.secs[n].info = IF l.secs[n].rel
                                    THEN MapSectionIndex(map, l.secs[n].info)
                                    ELSE l.secs[n].info
  BY <1>2, FixupIs
<1>7. \A n \in DOMAIN g.secs : \E j \in DOMAIN f.secs :
         map[j] = n /\ map[j] # 0
  <2>1. \A n \in DOMAIN l.secs : n # 0
    BY <1>2
  <2> QED BY <2>1, <1>4, <1>6
<1>8. \A j \in DOMAIN f.secs : map[j] # 0 =>
             /\ map[j] \in DOMAIN g.secs
             /\ g.secs[map[j]].name = f.secs[j].name
             /\ g.secs[map[j]].alloc = f.secs[j].alloc
             /\ g.secs[map[j]].rel = f.secs[j].rel
             /\ g.secs[map[j]].size = f.secs[j].size
             /\ g.secs[map[j]].align = f.secs[j].align
             /\ f.secs[j].alloc => g.secs[map[j]].offset = f.secs[j].offset
             /\ g.secs[map[j]].link = MapSectionIndex(map, f.secs[j].link)
             /\ g.secs[map[j]].info
                  = IF f.secs[j].rel THEN MapSectionIndex(map, f.secs[j].info)
                    ELSE f.secs[j].info
             /\ g.secs[map[j]].data = l.secs[map[j]].data
  BY <1>4, <1>6 DEF Copied
<1> QED BY <1>2, <1>4, <1>6, <1>7, <1>8 DEF Moved

(* A link leads where its section has gone, and nowhere if it is left out.  *)
LEMMA FirstNamedMoves ==
    ASSUME NEW f, FileType(f), NEW keep, NEW l, LoopOK(f, keep, l, Len(f.secs) + 1),
           NEW name
    PROVE  /\ FirstNamed(NewFile(l, f), name)
                = MapSectionIndex(l.old_to_new_index, FirstNamed(f, name))
           /\ 0 \notin DOMAIN f.secs
<1>0. DOMAIN f.secs \subseteq Nat \ {0} /\ f.secs \in Seq(Sections)
  BY DEF FileType
<1>1. PICK g, map : g = NewFile(l, f) /\ map = l.old_to_new_index
  OBVIOUS
<1>2. /\ g.secs \in Seq(Sections) /\ map \in [DOMAIN f.secs -> Nat]
      /\ \A j \in DOMAIN f.secs :
           /\ map[j] # 0 <=> j \in Kept(f, keep)
           /\ map[j] # 0 => map[j] \in DOMAIN g.secs /\ g.secs[map[j]].name = f.secs[j].name
      /\ \A i, j \in DOMAIN f.secs : map[i] # 0 /\ map[j] # 0 /\ i < j => map[i] < map[j]
      /\ \A n \in DOMAIN g.secs : \E j \in DOMAIN f.secs : map[j] = n /\ map[j] # 0
  <2>1. Moved(f, keep, l, g, map)
    BY <1>1, NewSections
  <2> QED BY <2>1 DEF Moved
<1>3. CASE FirstNamed(f, name) = 0 /\ \A k \in DOMAIN f.secs : f.secs[k].name # name
  <2>1. \A n \in DOMAIN g.secs : g.secs[n].name # name
    BY <1>2, <1>3
  <2>2. FirstNamed(g, name) = 0
    BY <1>2, <2>1, FirstNamedNone
  <2> QED BY <1>0, <1>1, <1>2, <1>3, <2>2 DEF MapSectionIndex
<1>4. ASSUME NEW k \in DOMAIN f.secs, FirstNamed(f, name) = k, f.secs[k].name = name,
             \A j \in DOMAIN f.secs : f.secs[j].name = name => k <= j
      PROVE  FirstNamed(g, name) = map[k]
  <2>1. CASE map[k] = 0
    <3>1. \A j \in DOMAIN f.secs : f.secs[j].name = name => j \notin Kept(f, keep)
      BY <1>2, <1>4, <2>1 DEF Kept
    <3>2. \A n \in DOMAIN g.secs : g.secs[n].name # name
      BY <1>2, <3>1
    <3> QED BY <1>2, <2>1, <3>2, FirstNamedNone
  <2>2. CASE map[k] # 0
    <3>1. map[k] \in DOMAIN g.secs /\ g.secs[map[k]].name = name
      BY <1>2, <1>4, <2>2
    <3>2. ASSUME NEW n \in DOMAIN g.secs, g.secs[n].name = name
          PROVE  map[k] <= n
      <4>1. PICK j \in DOMAIN f.secs : map[j] = n /\ map[j] # 0
        BY <1>2
      <4>2. k <= j /\ j \in Nat /\ k \in Nat /\ map[k] \in Nat
        BY <1>0, <1>2, <1>4, <3>2, <4>1
      <4>3. CASE k = j
        BY <4>1, <4>2, <4>3
      <4>4. CASE k < j
        BY <1>2, <2>2, <4>1, <4>2, <4>4
      <4> QED BY <4>2, <4>3, <4>4
    <3> QED BY <1>2, <3>1, <3>2, FirstNamedUnique
  <2> QED BY <2>1, <2>2
<1>5. CASE /\ FirstNamed(f, name) \in DOMAIN f.secs
           /\ f.secs[FirstNamed(f, name)].name = name
           /\ \A k \in DOMAIN f.secs : f.secs[k].name = name => FirstNamed(f, name) <= k
  BY <1>0, <1>1, <1>2, <1>4, <1>5 DEF MapSectionIndex
<1> QED BY <1>0, <1>3, <1>5, FirstNamedIs

LEMMA LeadMoves ==
    ASSUME NEW f, FileType(f), NEW keep, NEW l, LoopOK(f, keep, l, Len(f.secs) + 1),
           NEW target
    PROVE  Lead(NewFile(l, f), target) = MapSectionIndex(l.old_to_new_index, Lead(f, target))
<1>1. DOMAIN l.old_to_new_index = DOMAIN f.secs
  BY DEF LoopOK, LoopType
<1> QED BY <1>1, FirstNamedMoves DEF Lead, MapSectionIndex

(* The new file is in order, if the old one was.                            *)
LEMMA NewFileIsSound ==
    ASSUME NEW f, FileType(f), Sound(f), NEW keep, NEW l,
           LoopOK(f, keep, l, Len(f.secs) + 1)
    PROVE  FileType(NewFile(l, f)) /\ Sound(NewFile(l, f))
<1>0. PICK g, map : g = NewFile(l, f) /\ map = l.old_to_new_index
  OBVIOUS
<1>1. Moved(f, keep, l, g, map)
  BY <1>0, NewSections
<1>2. /\ g.segments = f.segments /\ g.shoff = RoundUp(l.next_offset_nonalloc, 8)
      /\ g.headers = f.headers
      /\ g.shstrndx = l.new_shstrndx /\ ComputeEndOfSegments(g) = ComputeEndOfSegments(f)
      /\ g = [secs |-> g.secs, segments |-> g.segments, headers |-> g.headers,
              shoff |-> g.shoff, shstrndx |-> g.shstrndx]
  BY <1>0 DEF NewFile, ComputeEndOfSegments
<1>3. PICK next : next = l.next_offset_nonalloc
  OBVIOUS
<1>4. /\ next \in Nat /\ l.new_shstrndx \in Nat /\ l.secs \in Seq(Sections)
      /\ map \in [DOMAIN f.secs -> Nat]
      /\ g.shoff \in Nat /\ next <= g.shoff /\ g.shoff % 8 = 0
  <2>1. next \in Nat /\ l.new_shstrndx \in Nat /\ l.secs \in Seq(Sections)
    BY <1>3 DEF LoopOK, LoopType
  <2>2. g.shoff \in Nat /\ next <= g.shoff /\ g.shoff % 8 = 0
    BY <2>1, <1>2, <1>3, RoundUpIs
  <2> QED BY <2>1, <2>2, <1>1 DEF Moved
<1>5. FileType(g)
  <2>1. /\ g.secs \in Seq(Sections) /\ f.segments \in SUBSET [offset : Nat, filesz : Nat]
        /\ f.headers \in Nat
    BY <1>1 DEF Moved, FileType
  <2>2. g \in [secs : Seq(Sections), segments : SUBSET [offset : Nat, filesz : Nat],
               headers : Nat, shoff : Nat, shstrndx : Nat]
    BY <2>1, <1>2, <1>4
  <2> QED BY <2>1, <2>2, <1>2, <1>4 DEF FileType
<1>6. \A name : Lead(g, name) = MapSectionIndex(map, Lead(f, name))
  BY <1>0, LeadMoves
<1>7. HasNames(g)
  <2>1. f.shstrndx \in DOMAIN f.secs /\ f.secs[f.shstrndx].name = ".shstrtab"
    BY DEF Sound, HasNames, Section, NoSection
  <2>2. f.shstrndx \in Kept(f, keep)
    BY <2>1, DebugNamesAssumption DEF Kept, ShouldSkipSection
  <2>3. map[f.shstrndx] # 0
    BY <2>1, <2>2, <1>1 DEF Moved
  <2>4. /\ l.new_shstrndx \in DOMAIN l.secs
        /\ l.secs[l.new_shstrndx].name = ".shstrtab"
    BY <2>1, <2>3, <1>0 DEF LoopOK, LoopMaps
  <2>5. /\ DOMAIN g.secs = DOMAIN l.secs
        /\ \A n \in DOMAIN l.secs : g.secs[n].name = l.secs[n].name
    BY <1>0, <1>4, FixupIs
  <2> QED BY <2>4, <2>5, <1>2 DEF HasNames, Section
<1>8. LinksLead(g)
  <2> SUFFICES ASSUME NEW n \in DOMAIN g.secs
               PROVE  /\ g.secs[n].link = Lead(g, LinkTarget(g.secs[n].name))
                      /\ g.secs[n].rel => g.secs[n].info = Lead(g, InfoTarget(g.secs[n].name))
    BY DEF LinksLead
  <2>1. PICK j \in DOMAIN f.secs : map[j] = n /\ map[j] # 0
    BY <1>1 DEF Moved
  <2>2. /\ g.secs[n].name = f.secs[j].name /\ g.secs[n].rel = f.secs[j].rel
        /\ g.secs[n].link = MapSectionIndex(map, f.secs[j].link)
        /\ f.secs[j].rel => g.secs[n].info = MapSectionIndex(map, f.secs[j].info)
    BY <2>1, <1>1 DEF Moved
  <2>3. /\ f.secs[j].link = Lead(f, LinkTarget(f.secs[j].name))
        /\ f.secs[j].rel => f.secs[j].info = Lead(f, InfoTarget(f.secs[j].name))
    BY DEF Sound, LinksLead
  <2> QED BY <2>2, <2>3, <1>6
<1>9. LaidOut(g)
  <2>1. /\ DOMAIN g.secs = DOMAIN l.secs /\ DOMAIN l.secs = 1 .. Len(l.secs)
        /\ Len(l.secs) \in Nat
        /\ \A n \in DOMAIN l.secs :
             /\ g.secs[n].alloc = l.secs[n].alloc /\ g.secs[n].size = l.secs[n].size
             /\ g.secs[n].align = l.secs[n].align /\ g.secs[n].offset = l.secs[n].offset
             /\ l.secs[n].size \in Nat /\ l.secs[n].offset \in Nat
    <3>1. \A n \in DOMAIN l.secs : l.secs[n].size \in Nat /\ l.secs[n].offset \in Nat
      <4>1. \A n \in DOMAIN l.secs : l.secs[n] \in Sections
        BY <1>4
      <4> QED BY <4>1 DEF Sections
    <3>2. DOMAIN l.secs = 1 .. Len(l.secs) /\ Len(l.secs) \in Nat
      BY <1>4
    <3> QED BY <3>1, <3>2, <1>0, <1>4, FixupIs
  <2>2. /\ \A n \in DOMAIN l.secs : ~l.secs[n].alloc =>
             /\ l.secs[n].align > 0 => l.secs[n].offset % l.secs[n].align = 0
             /\ ComputeEndOfSegments(f) <= l.secs[n].offset
             /\ l.secs[n].offset + l.secs[n].size <= next
        /\ \A m, n \in DOMAIN l.secs : ~l.secs[m].alloc /\ ~l.secs[n].alloc /\ m < n =>
             l.secs[m].offset + l.secs[m].size <= l.secs[n].offset
    BY <1>3 DEF LoopOK, LoopLays
  <2>3. ASSUME NEW n \in DOMAIN g.secs, ~g.secs[n].alloc
        PROVE  /\ g.secs[n].align > 0 => g.secs[n].offset % g.secs[n].align = 0
               /\ ComputeEndOfSegments(g) <= g.secs[n].offset
               /\ g.secs[n].offset + g.secs[n].size <= g.shoff
    <3>1. /\ g.secs[n].align = l.secs[n].align /\ g.secs[n].offset = l.secs[n].offset
          /\ g.secs[n].size = l.secs[n].size /\ ~l.secs[n].alloc /\ n \in DOMAIN l.secs
          /\ l.secs[n].size \in Nat /\ l.secs[n].offset \in Nat
      BY <2>1, <2>3
    <3>2. /\ l.secs[n].align > 0 => l.secs[n].offset % l.secs[n].align = 0
          /\ ComputeEndOfSegments(f) <= l.secs[n].offset
          /\ l.secs[n].offset + l.secs[n].size <= next
      BY <2>2, <3>1
    <3>3. l.secs[n].offset + l.secs[n].size <= g.shoff
      <4>1. \A x \in Nat : x <= next => x <= g.shoff
        BY <1>4
      <4> QED BY <3>1, <3>2, <4>1
    <3> QED BY <3>1, <3>2, <3>3, <1>2
  <2>4. ASSUME NEW m \in DOMAIN g.secs, NEW n \in DOMAIN g.secs, m # n,
               ~g.secs[m].alloc, ~g.secs[n].alloc
        PROVE  \/ g.secs[m].offset + g.secs[m].size <= g.secs[n].offset
               \/ g.secs[n].offset + g.secs[n].size <= g.secs[m].offset
    <3>1. m < n \/ n < m
      BY <2>1, <2>4
    <3> QED BY <2>1, <2>2, <2>4, <3>1
  <2>5. ASSUME NEW n \in DOMAIN g.secs, g.secs[n].alloc, g.secs[n].size > 0
        PROVE  /\ g.headers <= g.secs[n].offset
               /\ g.secs[n].offset + g.secs[n].size <= ComputeEndOfSegments(g)
    <3>1. PICK j \in DOMAIN f.secs : map[j] = n /\ map[j] # 0
      BY <1>1 DEF Moved
    <3>2. /\ f.secs[j].alloc /\ g.secs[n].size = f.secs[j].size
          /\ g.secs[n].offset = f.secs[j].offset
      BY <2>5, <3>1, <1>1 DEF Moved
    <3>3. /\ f.headers <= f.secs[j].offset
          /\ f.secs[j].offset + f.secs[j].size <= ComputeEndOfSegments(f)
      BY <2>5, <3>2 DEF Sound, LaidOut
    <3> QED BY <3>2, <3>3, <1>2
  <2>6. g.headers <= ComputeEndOfSegments(g) /\ ComputeEndOfSegments(g) <= g.shoff
    <3>1. ComputeEndOfSegments(f) \in Nat /\ ComputeEndOfSegments(f) <= next
      BY <1>3 DEF FileType, LoopOK, LoopLays
    <3>2. \A x \in Nat : x <= next => x <= g.shoff
      BY <1>4
    <3>3. f.headers <= ComputeEndOfSegments(f)
      BY DEF Sound, LaidOut
    <3> QED BY <3>1, <3>2, <3>3, <1>2
  <2> QED BY <2>3, <2>4, <2>5, <2>6, <1>4 DEF LaidOut
<1> QED BY <1>0, <1>5, <1>7, <1>8, <1>9 DEF Sound

(* It has the sections that are kept, in their order.                       *)
Keeps(f, g, keep) ==
    LET kept == Kept(f, keep)
    IN  /\ g.segments = f.segments /\ g.headers = f.headers
        /\ Len(g.secs) = Cardinality(kept)
        /\ \A k \in kept : Lasting(g.secs[Place(kept, k)]) = Lasting(f.secs[k])

LEMMA NewFileKeeps ==
    ASSUME NEW f, FileType(f), NEW keep, NEW l, LoopOK(f, keep, l, Len(f.secs) + 1)
    PROVE  Keeps(f, NewFile(l, f), keep)
<1>0. PICK g, map : g = NewFile(l, f) /\ map = l.old_to_new_index
  OBVIOUS
<1>1. Moved(f, keep, l, g, map)
  BY <1>0, NewSections
<1>2. /\ Kept(f, keep) \subseteq DOMAIN f.secs /\ DOMAIN f.secs = 1 .. Len(f.secs)
      /\ Len(f.secs) \in Nat
  BY KeptIs DEF FileType
<1>3. g.segments = f.segments /\ g.headers = f.headers
  BY <1>0 DEF NewFile
<1>4. Len(g.secs) = Cardinality(Kept(f, keep))
  <2>1. {j \in Kept(f, keep) : j < Len(f.secs) + 1} = Kept(f, keep)
    BY <1>2
  <2>2. l.secs \in Seq(Sections) /\ map \in [DOMAIN f.secs -> Nat]
    BY <1>0 DEF LoopOK, LoopType
  <2>3. Len(g.secs) = Len(l.secs)
    BY <2>2, <1>0, FixupIs
  <2> QED BY <2>1, <2>3 DEF LoopOK, LoopCounts
<1>5. ASSUME NEW k \in Kept(f, keep)
      PROVE  Lasting(g.secs[Place(Kept(f, keep), k)]) = Lasting(f.secs[k])
  <2>1. k \in DOMAIN f.secs /\ map[k] # 0
    BY <1>1, <1>2 DEF Moved
  <2>2. map[k] = Place(Kept(f, keep), k)
    BY <2>1, <1>0 DEF LoopOK, LoopCounts
  <2>3. /\ g.secs[map[k]].name = f.secs[k].name /\ g.secs[map[k]].alloc = f.secs[k].alloc
        /\ g.secs[map[k]].size = f.secs[k].size /\ g.secs[map[k]].align = f.secs[k].align
        /\ f.secs[k].alloc => g.secs[map[k]].offset = f.secs[k].offset
        /\ g.secs[map[k]].rel = f.secs[k].rel
        /\ ~f.secs[k].rel => g.secs[map[k]].info = f.secs[k].info
    BY <2>1, <1>1 DEF Moved
  <2> QED BY <2>2, <2>3 DEF Lasting
<1> QED BY <1>0, <1>3, <1>4, <1>5 DEF Keeps

-----------------------------------------------------------------------------
(* What patchelf changes: the data of one section, and none of its header.  *)

DataOf(f, name) == Section(f, FirstNamed(f, name)).data

SameHeaders(f, g) ==
    /\ g.segments = f.segments /\ g.headers = f.headers
    /\ g.shoff = f.shoff /\ g.shstrndx = f.shstrndx
    /\ DOMAIN g.secs = DOMAIN f.secs /\ Len(g.secs) = Len(f.secs)
    /\ \A k \in DOMAIN f.secs :
         /\ g.secs[k].name = f.secs[k].name /\ g.secs[k].alloc = f.secs[k].alloc
         /\ g.secs[k].size = f.secs[k].size /\ g.secs[k].align = f.secs[k].align
         /\ g.secs[k].offset = f.secs[k].offset /\ g.secs[k].rel = f.secs[k].rel
         /\ g.secs[k].link = f.secs[k].link /\ g.secs[k].info = f.secs[k].info

(* What is read from the headers alone is the same in both: names, order,  *)
(* and what strip has made of them so far.                                  *)
LEMMA SameNames ==
    ASSUME NEW f, NEW g, SameHeaders(f, g)
    PROVE  /\ \A name : FirstNamed(g, name) = FirstNamed(f, name)
           /\ \A keep : Kept(g, keep) = Kept(f, keep)
           /\ ComputeEndOfSegments(g) = ComputeEndOfSegments(f)
<1>1. \A name : {k \in DOMAIN g.secs : g.secs[k].name = name}
                  = {k \in DOMAIN f.secs : f.secs[k].name = name}
  BY DEF SameHeaders
<1>2. \A name : FirstNamed(g, name) = FirstNamed(f, name)
  <2> SUFFICES ASSUME NEW name PROVE FirstNamed(g, name) = FirstNamed(f, name)
    OBVIOUS
  <2> DEFINE In(h) == {k \in DOMAIN h.secs : h.secs[k].name = name}
  <2>1. In(g) = In(f)
    BY <1>1
  <2>2. \A h : FirstNamed(h, name) = IF In(h) = {} THEN 0
                                   ELSE CHOOSE k \in In(h) : \A j \in In(h) : k <= j
    BY DEF FirstNamed
  <2> HIDE DEF In
  <2> QED BY <2>1, <2>2
<1>3. \A keep : Kept(g, keep) = Kept(f, keep)
  BY DEF SameHeaders, Kept
<1>4. ComputeEndOfSegments(g) = ComputeEndOfSegments(f)
  BY DEF SameHeaders, ComputeEndOfSegments
<1> QED BY <1>2, <1>3, <1>4

LEMMA SameIsSound ==
    ASSUME NEW f, NEW g, SameHeaders(f, g), Sound(f)
    PROVE  Sound(g)
<1>1. HasNames(g)
  BY DEF Sound, HasNames, Section, NoSection, SameHeaders
<1>2. LinksLead(g)
  <2>1. \A name : Lead(g, name) = Lead(f, name)
    BY SameNames DEF Lead
  <2> QED BY <2>1 DEF Sound, LinksLead, SameHeaders
<1>3. LaidOut(g)
  BY SameNames DEF Sound, LaidOut, SameHeaders
<1> QED BY <1>1, <1>2, <1>3 DEF Sound

LEMMA SameForTheLoop ==
    ASSUME NEW f, NEW g, SameHeaders(f, g), NEW keep, NEW l, NEW k, LoopOK(f, keep, l, k)
    PROVE  LoopOK(g, keep, l, k)
<1>1. Kept(g, keep) = Kept(f, keep) /\ ComputeEndOfSegments(g) = ComputeEndOfSegments(f)
  BY SameNames
<1>2. LoopType(g, l, k)
  BY DEF LoopOK, LoopType, SameHeaders
<1>3. LoopMaps(g, keep, l, k)
  BY <1>1 DEF LoopOK, LoopMaps, SameHeaders, Copied
<1>4. LoopCounts(g, keep, l, k)
  BY <1>1 DEF LoopOK, LoopCounts, SameHeaders
<1>5. LoopLays(g, l)
  BY <1>1 DEF LoopOK, LoopLays
<1> QED BY <1>2, <1>3, <1>4, <1>5 DEF LoopOK

LEMMA SameIsKept ==
    ASSUME NEW f, NEW g, SameHeaders(f, g), NEW keep, NEW t, Keeps(f, t, keep)
    PROVE  Keeps(g, t, keep)
<1>1. Kept(g, keep) = Kept(f, keep) /\ Kept(f, keep) \subseteq DOMAIN f.secs
  BY SameNames DEF Kept
<1>2. \A k \in Kept(f, keep) : Lasting(g.secs[k]) = Lasting(f.secs[k])
  BY <1>1 DEF SameHeaders, Lasting
<1> QED BY <1>1, <1>2 DEF Keeps, SameHeaders

(* Setting the data of section k.                                           *)
LEMMA SetData ==
    ASSUME NEW f, FileType(f), NEW k \in DOMAIN f.secs, NEW v \in Strings,
           NEW g, g = [f EXCEPT !.secs[k].data = v]
    PROVE  /\ FileType(g) /\ SameHeaders(f, g)
           /\ \A j \in DOMAIN f.secs : g.secs[j].data = IF j = k THEN v ELSE f.secs[j].data
<1>1. /\ f.secs \in Seq(Sections) /\ f.segments \in SUBSET [offset : Nat, filesz : Nat]
      /\ f.shoff \in Nat /\ f.shstrndx \in Nat /\ f.headers \in Nat
      /\ DOMAIN f.secs = 1 .. Len(f.secs) /\ Len(f.secs) \in Nat
  BY DEF FileType
<1>2. f.secs[k] \in Sections
  BY <1>1
<1> DEFINE s == [f.secs[k] EXCEPT !.data = v]
<1>3. /\ s \in Sections /\ s.data = v
      /\ s.name = f.secs[k].name /\ s.alloc = f.secs[k].alloc /\ s.size = f.secs[k].size
      /\ s.align = f.secs[k].align /\ s.offset = f.secs[k].offset /\ s.rel = f.secs[k].rel
      /\ s.link = f.secs[k].link /\ s.info = f.secs[k].info
  BY <1>2 DEF Sections
<1>4. g = [f EXCEPT !.secs = [f.secs EXCEPT ![k] = s]]
  BY DEF FileType
<1> HIDE DEF s
<1>5. /\ g.secs = [f.secs EXCEPT ![k] = s] /\ g.segments = f.segments
      /\ g.shoff = f.shoff /\ g.shstrndx = f.shstrndx /\ g.headers = f.headers
      /\ g = [secs |-> g.secs, segments |-> g.segments, headers |-> g.headers,
              shoff |-> g.shoff, shstrndx |-> g.shstrndx]
  BY <1>4 DEF FileType
<1>6. /\ g.secs \in Seq(Sections) /\ DOMAIN g.secs = DOMAIN f.secs
      /\ Len(g.secs) = Len(f.secs)
      /\ \A j \in DOMAIN f.secs : g.secs[j] = IF j = k THEN s ELSE f.secs[j]
  <2>1. DOMAIN g.secs = DOMAIN f.secs
    BY <1>5
  <2>2. \A j \in DOMAIN f.secs : g.secs[j] = IF j = k THEN s ELSE f.secs[j]
    BY <1>5
  <2>3. \A j \in DOMAIN f.secs : g.secs[j] \in Sections
    BY <1>1, <1>3, <2>2
  <2>4. g.secs \in [1 .. Len(f.secs) -> Sections]
    BY <1>1, <1>5, <2>1, <2>3
  <2>5. g.secs \in Seq(Sections) /\ Len(g.secs) = Len(f.secs)
    BY <1>1, <2>4
  <2> QED BY <2>1, <2>2, <2>5
<1>7. SameHeaders(f, g)
  BY <1>3, <1>5, <1>6 DEF SameHeaders
<1>8. FileType(g)
  <2>1. ComputeEndOfSegments(g) \in Nat
    BY <1>7, SameNames DEF FileType
  <2> QED BY <2>1, <1>1, <1>5, <1>6 DEF FileType
<1> QED BY <1>3, <1>6, <1>7, <1>8

(* The link of .dynamic leads to .dynstr, so patchelf and the loader look   *)
(* for the rpath in one place.                                              *)
LEMMA RPathIsInDynStr ==
    ASSUME NEW f, FileType(f), Sound(f)
    PROVE  /\ HasRPath(f) <=> DataOf(f, ".dynamic") = RPathEntry
           /\ HasRPath(f) => /\ FirstNamed(f, ".dynamic") \in DOMAIN f.secs
                             /\ DynStr(f) = FirstNamed(f, ".dynstr")
<1>1. HasRPath(f) <=> DataOf(f, ".dynamic") = RPathEntry
  BY DEF HasRPath, DataOf, FindDynamicSection
<1>2. ASSUME HasRPath(f)
      PROVE  /\ FirstNamed(f, ".dynamic") \in DOMAIN f.secs
             /\ DynStr(f) = FirstNamed(f, ".dynstr")
  <2>1. Blank # RPathEntry
    <3>1. Blank.id # RPathEntry.id
      BY DEF Blank, RPathEntry
    <3> QED BY <3>1
  <2>2. PICK k : k = FirstNamed(f, ".dynamic")
    OBVIOUS
  <2>3. k \in DOMAIN f.secs
    BY <1>2, <2>1, <2>2 DEF HasRPath, FindDynamicSection, Section, NoSection
  <2>4. k # 0 /\ f.secs \in Seq(Sections)
    BY <2>3 DEF FileType
  <2>5. f.secs[k].name = ".dynamic"
    BY <2>2, <2>4, FirstNamedIs
  <2>6. f.secs[k].link = FirstNamed(f, ".dynstr")
    BY <2>3, <2>5, FilesAssumption DEF Sound, LinksLead, Lead
  <2> QED BY <2>2, <2>3, <2>4, <2>6 DEF DynStr, FindDynamicSection
<1> QED BY <1>1, <1>2

(* Sections of two names are two.                                           *)
LEMMA NamesApart ==
    ASSUME NEW f, FileType(f), NEW a, NEW b, a # b,
           FirstNamed(f, a) \in DOMAIN f.secs
    PROVE  FirstNamed(f, b) # FirstNamed(f, a)
<1>1. f.secs \in Seq(Sections) /\ 0 \notin DOMAIN f.secs
  BY DEF FileType
<1>2. f.secs[FirstNamed(f, a)].name = a
  BY <1>1, FirstNamedIs
<1>3. FirstNamed(f, b) \in DOMAIN f.secs => f.secs[FirstNamed(f, b)].name = b
  BY <1>1, FirstNamedIs
<1> QED BY <1>2, <1>3

(* Setting what the first section with a name holds changes that alone.     *)
LEMMA SetNamed ==
    ASSUME NEW f, FileType(f), NEW name, FirstNamed(f, name) \in DOMAIN f.secs,
           NEW v \in Strings, NEW g, g = [f EXCEPT !.secs[FirstNamed(f, name)].data = v]
    PROVE  /\ FileType(g) /\ SameHeaders(f, g)
           /\ DataOf(g, name) = v
           /\ \A n : n # name => DataOf(g, n) = DataOf(f, n)
<1>1. /\ FileType(g) /\ SameHeaders(f, g)
      /\ \A j \in DOMAIN f.secs :
           g.secs[j].data = IF j = FirstNamed(f, name) THEN v ELSE f.secs[j].data
  BY SetData
<1>2. DOMAIN g.secs = DOMAIN f.secs /\ \A n : FirstNamed(g, n) = FirstNamed(f, n)
  <2>1. \A n : FirstNamed(g, n) = FirstNamed(f, n)
    BY <1>1, SameNames
  <2> QED BY <1>1, <2>1 DEF SameHeaders
<1>3. \A n : n # name => FirstNamed(f, n) # FirstNamed(f, name)
  BY NamesApart
<1> QED BY <1>1, <1>2, <1>3 DEF DataOf, Section

(* Setting the rpath, and setting the interpreter.                          *)
LEMMA SetRPathSets ==
    ASSUME NEW f, FileType(f), Sound(f), NEW v \in Strings, CanSetRPath(f, v),
           NEW g, g = SetRPath(f, v)
    PROVE  /\ FileType(g) /\ SameHeaders(f, g) /\ Sound(g)
           /\ DataOf(g, ".dynamic") = RPathEntry /\ DataOf(g, ".dynstr") = v
           /\ \A n : n # ".dynstr" => DataOf(g, n) = DataOf(f, n)
<1>1. DynStr(f) = FirstNamed(f, ".dynstr") /\ DataOf(f, ".dynamic") = RPathEntry
  BY RPathIsInDynStr DEF CanSetRPath
<1>2. FirstNamed(f, ".dynstr") \in DOMAIN f.secs
  <2>1. v.len \in Nat /\ v.len > 0
    BY DEF Strings, CanSetRPath
  <2>2. Section(f, DynStr(f)).data.len >= v.len
    BY DEF CanSetRPath
  <2>3. NoSection.data.len = 0
    BY DEF NoSection, Blank
  <2> QED BY <1>1, <2>1, <2>2, <2>3 DEF Section
<1>3. g = [f EXCEPT !.secs[FirstNamed(f, ".dynstr")].data = v]
  BY <1>1 DEF SetRPath
<1>4. /\ FileType(g) /\ SameHeaders(f, g) /\ DataOf(g, ".dynstr") = v
      /\ \A n : n # ".dynstr" => DataOf(g, n) = DataOf(f, n)
  BY <1>2, <1>3, SetNamed
<1> QED BY <1>1, <1>4, SameIsSound

LEMMA SetInterpreterSets ==
    ASSUME NEW f, FileType(f), Sound(f), NEW v \in Strings, CanSetInterpreter(f, v),
           NEW g, g = SetInterpreter(f, v)
    PROVE  /\ FileType(g) /\ SameHeaders(f, g) /\ Sound(g)
           /\ DataOf(g, ".interp") = v
           /\ \A n : n # ".interp" => DataOf(g, n) = DataOf(f, n)
<1>1. FirstNamed(f, ".interp") \in DOMAIN f.secs
  BY FirstNamedIs DEF FileType, CanSetInterpreter
<1>2. g = [f EXCEPT !.secs[FirstNamed(f, ".interp")].data = v]
  BY DEF SetInterpreter
<1>3. /\ FileType(g) /\ SameHeaders(f, g) /\ DataOf(g, ".interp") = v
      /\ \A n : n # ".interp" => DataOf(g, n) = DataOf(f, n)
  BY <1>1, <1>2, SetNamed
<1> QED BY <1>3, SameIsSound

-----------------------------------------------------------------------------
(* The inductive invariant.                                                 *)

ToolTypes ==
    /\ strip = [pc |-> strip.pc, keep_symtab |-> strip.keep_symtab, k |-> strip.k,
                loop |-> strip.loop]
    /\ strip.pc \in {"idle", "create", "copy", "rename"}
    /\ patch = [pc |-> patch.pc, mode |-> patch.mode, value |-> patch.value,
                replaced |-> patch.replaced]
    /\ patch.pc \in {"idle", "write"} /\ patch.mode \in {"rpath", "interpreter"}
    /\ patch.pc = "write" => patch.value \in Strings
    /\ last = [rpath |-> last.rpath, interpreter |-> last.interpreter]

(* The sections whose data a run of strip has to bring along as it is now:  *)
(* nobody has set them while it was at work.                                *)
Told(set) ==
    {name \in {".dynamic", ".dynstr", ".interp"} :
       /\ name = ".dynstr" => set.rpath # Unknown
       /\ name = ".interp" => set.interpreter # Unknown}

LoopCarries(f, l, set) ==
    \A name \in Told(set) :
       LET k == FirstNamed(f, name)
       IN  k \in DOMAIN f.secs /\ l.old_to_new_index[k] # 0 =>
             l.secs[l.old_to_new_index[k]].data = f.secs[k].data

Carries(f, g, set) == \A name \in Told(set) : DataOf(g, name) = DataOf(f, name)

Answers(f, set) ==
    /\ set.rpath # Unknown => LoaderSees(f).rpath = set.rpath
    /\ set.interpreter # Unknown => LoaderSees(f).interpreter = set.interpreter

IInv ==
    /\ ToolTypes /\ FileType(file) /\ FileIsSound /\ Answers(file, last)
    /\ strip.pc = "copy" =>
         /\ LoopOK(file, strip.keep_symtab, strip.loop, strip.k)
         /\ LoopCarries(file, strip.loop, last)
    /\ strip.pc = "rename" =>
         /\ FileType(temp) /\ Sound(temp) /\ Keeps(file, temp, strip.keep_symtab)
         /\ Carries(file, temp, last)
    /\ patch.pc = "write" /\ ~patch.replaced => CanSet(file, patch.mode, patch.value)

(* What the loader sees, and what patchelf prints, by the name of the section.*)
LEMMA LoaderSeesData ==
    ASSUME NEW f
    PROVE  /\ LoaderSees(f).rpath = IF DataOf(f, ".dynamic") = RPathEntry
                                    THEN DataOf(f, ".dynstr") ELSE Blank
           /\ LoaderSees(f).interpreter = DataOf(f, ".interp")
BY DEF LoaderSees, HasRPath, FindDynamicSection, DataOf

LEMMA IInvGivesLastSetAnswers ==
    ASSUME IInv PROVE LastSetAnswers
<1>1. FileType(file) /\ Sound(file) /\ Answers(file, last)
  BY DEF IInv, FileIsSound
<1>2. PrintRPath(file) = LoaderSees(file).rpath
  BY <1>1, RPathIsInDynStr DEF PrintRPath, LoaderSees
<1>3. PrintInterpreter(file) = LoaderSees(file).interpreter
  BY DEF PrintInterpreter, LoaderSees
<1> QED BY <1>1, <1>2, <1>3 DEF Answers, LastSetAnswers

(* A file that carries what was set answers as the other one.               *)
LEMMA CarryingAnswers ==
    ASSUME NEW f, NEW g, NEW set, Answers(f, set), Carries(f, g, set)
    PROVE  Answers(g, set)
<1>1. DataOf(g, ".dynamic") = DataOf(f, ".dynamic")
  BY DEF Carries, Told
<1>2. set.rpath # Unknown => DataOf(g, ".dynstr") = DataOf(f, ".dynstr")
  BY DEF Carries, Told
<1>3. set.interpreter # Unknown => DataOf(g, ".interp") = DataOf(f, ".interp")
  BY DEF Carries, Told
<1> QED BY <1>1, <1>2, <1>3, LoaderSeesData DEF Answers

(* The loop copies the data with the section, and writes it at its end.     *)
LEMMA LoopCarriesOn ==
    ASSUME NEW f, FileType(f), NEW keep, NEW l, NEW set, NEW k \in DOMAIN f.secs,
           LoopOK(f, keep, l, k), LoopCarries(f, l, set), k \in Kept(f, keep)
    PROVE  LoopCarries(f, CopySection(l, f.secs[k], k), set)
<1>0. PICK s, map : s = f.secs[k] /\ map = l.old_to_new_index
  OBVIOUS
<1>1. PICK c : c = CopySection(l, s, k)
  OBVIOUS
<1>2. PICK t : t = UpdateNonAllocSectionOffset(s, l.next_offset_nonalloc)
  OBVIOUS
<1>3. /\ l.secs \in Seq(Sections) /\ l.next_offset_nonalloc \in Nat
      /\ map \in [DOMAIN f.secs -> Nat] /\ s \in Sections
      /\ DOMAIN l.secs = 1 .. Len(l.secs) /\ Len(l.secs) \in Nat
  BY <1>0 DEF LoopOK, LoopType, FileType
<1>4. /\ c.secs = Append(l.secs, t)
      /\ c.old_to_new_index = [map EXCEPT ![k] = Len(l.secs) + 1]
  <2>1. /\ c.secs = Append(l.secs, UpdateNonAllocSectionOffset(s, l.next_offset_nonalloc))
        /\ c.old_to_new_index = [l.old_to_new_index EXCEPT ![k] = Len(l.secs) + 1]
    BY <1>1 DEF CopySection
  <2> QED BY <2>1, <1>0, <1>2
<1>5. t.data = s.data /\ t \in Sections
  BY <1>2, <1>3, CopyOfSection
<1>6. /\ \A n \in DOMAIN l.secs : c.secs[n] = l.secs[n]
      /\ c.secs[Len(l.secs) + 1] = t
  BY <1>3, <1>4, <1>5
<1>7. \A j \in DOMAIN f.secs :
        c.old_to_new_index[j] = IF j = k THEN Len(l.secs) + 1 ELSE map[j]
  BY <1>3, <1>4
<1>8. \A j \in DOMAIN f.secs : map[j] # 0 => map[j] \in DOMAIN l.secs
  BY <1>0 DEF LoopOK, LoopMaps
<1>9. ASSUME NEW name \in Told(set), NEW j, j = FirstNamed(f, name), j \in DOMAIN f.secs,
             c.old_to_new_index[j] # 0
      PROVE  c.secs[c.old_to_new_index[j]].data = f.secs[j].data
  <2>1. CASE j = k
    BY <2>1, <1>0, <1>5, <1>6, <1>7, <1>9
  <2>2. CASE j # k
    <3>1. c.old_to_new_index[j] = map[j] /\ map[j] # 0
      BY <2>2, <1>7, <1>9
    <3>2. l.secs[map[j]].data = f.secs[j].data
      BY <3>1, <1>0, <1>9 DEF LoopCarries
    <3> QED BY <3>1, <3>2, <1>6, <1>8, <1>9
  <2> QED BY <2>1, <2>2
<1> QED BY <1>0, <1>1, <1>9 DEF LoopCarries

(* The file that is written carries what the loop does.                     *)
LEMMA NewFileCarries ==
    ASSUME NEW f, FileType(f), NEW keep, NEW l, NEW set,
           LoopOK(f, keep, l, Len(f.secs) + 1), LoopCarries(f, l, set)
    PROVE  Carries(f, NewFile(l, f), set)
<1>1. PICK g, map : g = NewFile(l, f) /\ map = l.old_to_new_index
  OBVIOUS
<1>2. Moved(f, keep, l, g, map)
  BY <1>1, NewSections
<1>3. f.secs \in Seq(Sections) /\ 0 \notin DOMAIN f.secs
  BY DEF FileType
<1>4. 0 \notin DOMAIN g.secs
  BY <1>2 DEF Moved
<1>5. ASSUME NEW name \in Told(set)
      PROVE  DataOf(g, name) = DataOf(f, name)
  <2>1. FirstNamed(g, name) = MapSectionIndex(map, FirstNamed(f, name))
    BY <1>1, FirstNamedMoves
  <2>2. PICK k : k = FirstNamed(f, name)
    OBVIOUS
  <2>3. DOMAIN map = DOMAIN f.secs
    BY <1>2 DEF Moved
  <2>4. CASE k \in DOMAIN f.secs
    <3>1. k # 0 /\ f.secs[k].name = name
      BY <2>2, <2>4, <1>3, FirstNamedIs
    <3>2. k \in Kept(f, keep)
      BY <2>4, <3>1, <1>5, DebugNamesAssumption DEF Kept, ShouldSkipSection, Told
    <3>3. map[k] # 0
      BY <2>4, <3>2, <1>2 DEF Moved
    <3>4. map[k] \in DOMAIN g.secs /\ g.secs[map[k]].data = l.secs[map[k]].data
      BY <2>4, <3>3, <1>2 DEF Moved
    <3>5. l.secs[map[k]].data = f.secs[k].data
      BY <2>2, <2>4, <3>3, <1>1, <1>5 DEF LoopCarries
    <3>6. FirstNamed(g, name) = map[k]
      BY <2>1, <2>2, <2>3, <2>4 DEF MapSectionIndex
    <3> QED BY <2>2, <2>4, <3>4, <3>5, <3>6 DEF DataOf, Section
  <2>5. CASE k \notin DOMAIN f.secs
    <3>1. FirstNamed(g, name) = 0
      BY <2>1, <2>2, <2>3, <2>5 DEF MapSectionIndex
    <3> QED BY <2>2, <2>5, <3>1, <1>4 DEF DataOf, Section
  <2> QED BY <2>4, <2>5
<1> QED BY <1>1, <1>5 DEF Carries

-----------------------------------------------------------------------------
(* Every step preserves IInv.                                               *)

(* The files that linkers make, and the steps of strip.                     *)
LEMMA InitIInv == ASSUME Init PROVE IInv
<1>1. FileType(file) /\ Sound(file)
  <2>1. /\ file \in [secs : Seq(Sections), segments : SUBSET [offset : Nat, filesz : Nat],
                     headers : Nat, shoff : Nat, shstrndx : Nat]
        /\ IsFiniteSet(file.segments)
    BY FilesAssumption DEF Init
  <2>2. ComputeEndOfSegments(file) \in Nat
    BY <2>1, EndOfSegmentsIsNat
  <2> QED BY <2>1, <2>2, FilesAreSound DEF Init, FileType
<1>2. ToolTypes
  BY DEF Init, StripIdle, PatchIdle, LoaderSees, ToolTypes
<1> QED BY <1>1, <1>2 DEF Init, StripIdle, PatchIdle, IInv, FileIsSound, Answers

LEMMA OpenInputKeeps == ASSUME IInv, OpenInput PROVE IInv'
<1>1. ToolTypes' /\ strip'.pc = "create"
  BY DEF IInv, OpenInput, ToolTypes
<1> QED BY <1>1 DEF IInv, OpenInput, FileIsSound

LEMMA CreateTempKeeps == ASSUME IInv, CreateTemp PROVE IInv'
<1>1. /\ ToolTypes' /\ strip'.pc = "copy" /\ strip'.k = 1 /\ strip'.loop = LoopStart(file)
      /\ strip'.keep_symtab = strip.keep_symtab
  BY DEF IInv, CreateTemp, ToolTypes
<1>2. LoopOK(file, strip'.keep_symtab, strip'.loop, strip'.k)
  BY <1>1, LoopStarts DEF IInv
<1>3. LoopCarries(file, strip'.loop, last)
  BY <1>1 DEF LoopCarries, LoopStart
<1> QED BY <1>1, <1>2, <1>3 DEF IInv, CreateTemp, FileIsSound

LEMMA ProcessSectionKeeps == ASSUME IInv, ProcessSection PROVE IInv'
<1>1. PICK s, k, keep : s = file.secs[strip.k] /\ k = strip.k /\ keep = strip.keep_symtab
  OBVIOUS
<1>2. k \in DOMAIN file.secs /\ FileType(file) /\ LoopOK(file, keep, strip.loop, k)
      /\ LoopCarries(file, strip.loop, last)
  BY <1>1 DEF IInv, ProcessSection
<1>3. /\ ToolTypes' /\ strip'.pc = "copy" /\ strip'.k = k + 1
      /\ strip'.loop = IF ShouldSkipSection(s.name, keep) THEN strip.loop
                       ELSE CopySection(strip.loop, s, k)
      /\ strip'.keep_symtab = keep
  BY <1>1 DEF IInv, ProcessSection, ToolTypes
<1>4. LoopOK(file, keep, strip'.loop, k + 1) /\ LoopCarries(file, strip'.loop, last)
  <2>1. CASE ShouldSkipSection(s.name, keep)
    <3>1. k \notin Kept(file, keep)
      BY <1>1, <2>1 DEF Kept
    <3> QED BY <3>1, <1>2, <1>3, <2>1, LoopSkips
  <2>2. CASE ~ShouldSkipSection(s.name, keep)
    <3>1. k \in Kept(file, keep)
      BY <1>1, <1>2, <2>2 DEF Kept
    <3>2. strip'.loop = CopySection(strip.loop, file.secs[k], k)
      BY <1>1, <1>3, <2>2
    <3> QED BY <3>1, <3>2, <1>2, LoopCopies, LoopCarriesOn
  <2> QED BY <2>1, <2>2
<1> QED BY <1>3, <1>4 DEF IInv, ProcessSection, FileIsSound

LEMMA UpdateKeeps == ASSUME IInv, Update PROVE IInv'
<1>1. PICK l, keep : l = strip.loop /\ keep = strip.keep_symtab
  OBVIOUS
<1>2. /\ FileType(file) /\ Sound(file) /\ LoopOK(file, keep, l, strip.k)
      /\ LoopCarries(file, l, last) /\ strip.k \notin DOMAIN file.secs
  BY <1>1 DEF IInv, Update, FileIsSound
<1>3. strip.k = Len(file.secs) + 1
  BY <1>2 DEF FileType, LoopOK, LoopType
<1>4. /\ ToolTypes' /\ strip'.pc = "rename" /\ strip'.keep_symtab = keep
      /\ temp' = NewFile(l, file)
  BY <1>1 DEF IInv, Update, ToolTypes
<1>5. FileType(temp') /\ Sound(temp')
  BY <1>2, <1>3, <1>4, NewFileIsSound
<1>6. Keeps(file, temp', keep)
  BY <1>2, <1>3, <1>4, NewFileKeeps
<1>7. Carries(file, temp', last)
  BY <1>2, <1>3, <1>4, NewFileCarries
<1> QED BY <1>4, <1>5, <1>6, <1>7 DEF IInv, Update, FileIsSound

LEMMA RenameKeeps == ASSUME IInv, Rename PROVE IInv'
<1>1. ToolTypes' /\ strip'.pc = "idle"
  BY DEF IInv, Rename, ToolTypes, StripIdle
<1>2. Answers(temp, last)
  BY CarryingAnswers DEF IInv, Rename
<1>3. patch'.pc = "write" => patch'.replaced
  BY DEF IInv, ToolTypes, Rename
<1> QED BY <1>1, <1>2, <1>3 DEF IInv, Rename, FileIsSound

LEMMA StripFailsKeeps == ASSUME IInv, StripFails PROVE IInv'
<1>1. ToolTypes' /\ strip'.pc = "idle"
  BY DEF IInv, StripFails, ToolTypes, StripIdle
<1> QED BY <1>1 DEF IInv, StripFails, FileIsSound

(* The steps of patchelf.                                                   *)
LEMMA OpenToSetKeeps == ASSUME IInv, OpenToSet PROVE IInv'
<1>1. PICK mode \in {"rpath", "interpreter"}, v \in Values :
        /\ CanSet(file, mode, v)
        /\ patch' = [patch EXCEPT !.pc = "write", !.mode = mode, !.value = v]
  BY DEF OpenToSet
<1>2. v \in Strings
  BY FilesAssumption
<1>3. ToolTypes' /\ patch'.mode = mode /\ patch'.value = v
  BY <1>1, <1>2 DEF IInv, OpenToSet, ToolTypes
<1> QED BY <1>1, <1>3 DEF IInv, OpenToSet, FileIsSound

LEMMA PatchFailsKeeps == ASSUME IInv, PatchFails PROVE IInv'
<1>1. ToolTypes' /\ patch'.pc = "idle"
  BY DEF IInv, PatchFails, ToolTypes, PatchIdle
<1> QED BY <1>1 DEF IInv, PatchFails, FileIsSound

(* What a run of patchelf makes of the file: the one string is another, and *)
(* that is as it should be set.                                             *)
LEMMA WrittenIs ==
    ASSUME IInv, WriteBack, ~patch.replaced
    PROVE  /\ FileType(file') /\ SameHeaders(file, file') /\ Sound(file')
           /\ patch.mode = "rpath" =>
                /\ DataOf(file', ".dynamic") = RPathEntry
                /\ DataOf(file', ".dynstr") = patch.value
                /\ \A n : n # ".dynstr" => DataOf(file', n) = DataOf(file, n)
           /\ patch.mode = "interpreter" =>
                /\ DataOf(file', ".interp") = patch.value
                /\ \A n : n # ".interp" => DataOf(file', n) = DataOf(file, n)
<1>1. /\ FileType(file) /\ Sound(file) /\ patch.value \in Strings
      /\ patch.mode \in {"rpath", "interpreter"} /\ CanSet(file, patch.mode, patch.value)
  BY DEF IInv, FileIsSound, ToolTypes, WriteBack
<1>2. CASE patch.mode = "rpath"
  <2>1. CanSetRPath(file, patch.value) /\ file' = SetRPath(file, patch.value)
    BY <1>1, <1>2 DEF CanSet, WriteBack
  <2> QED BY <1>1, <1>2, <2>1, SetRPathSets
<1>3. CASE patch.mode = "interpreter"
  <2>1. /\ CanSetInterpreter(file, patch.value)
        /\ file' = SetInterpreter(file, patch.value)
    BY <1>1, <1>3 DEF CanSet, WriteBack
  <2> QED BY <1>1, <1>3, <2>1, SetInterpreterSets
<1> QED BY <1>1, <1>2, <1>3

(* While strip is at work, the write sets nothing that strip has to bring   *)
(* along; otherwise the file answers with it.                               *)
LEMMA WriteBackKeeps == ASSUME IInv, WriteBack PROVE IInv'
<1>1. /\ last'.rpath = IF patch.mode # "rpath" THEN last.rpath
                       ELSE IF patch.replaced \/ strip.pc # "idle" THEN Unknown
                       ELSE patch.value
      /\ last'.interpreter = IF patch.mode # "interpreter" THEN last.interpreter
                             ELSE IF patch.replaced \/ strip.pc # "idle" THEN Unknown
                             ELSE patch.value
      /\ last' = [rpath |-> last'.rpath, interpreter |-> last'.interpreter]
      /\ patch.mode \in {"rpath", "interpreter"}
  <2>1. PICK new : last' = [last EXCEPT ![patch.mode] = new]
                   /\ new = IF patch.replaced \/ strip.pc # "idle" THEN Unknown
                            ELSE patch.value
    BY DEF WriteBack
  <2>2. /\ last = [rpath |-> last.rpath, interpreter |-> last.interpreter]
        /\ patch.mode \in {"rpath", "interpreter"}
    BY DEF IInv, ToolTypes
  <2>3. CASE patch.mode = "rpath"
    BY <2>1, <2>2, <2>3
  <2>4. CASE patch.mode = "interpreter"
    BY <2>1, <2>2, <2>4
  <2> QED BY <2>2, <2>3, <2>4
<1>2. ToolTypes' /\ patch'.pc = "idle"
  BY <1>1 DEF IInv, WriteBack, ToolTypes, PatchIdle
<1>3. Told(last') \subseteq Told(last) \/ strip.pc = "idle"
  BY <1>1 DEF Told
<1>4. CASE patch.replaced
  <2>1. file' = file /\ UNCHANGED <<temp, strip>>
    BY <1>4 DEF WriteBack
  <2>2. Answers(file, last')
    BY <1>1, <1>4 DEF IInv, Answers
  <2>3. strip.pc = "copy" => LoopCarries(file, strip.loop, last')
    BY <1>3 DEF IInv, LoopCarries
  <2>4. strip.pc = "rename" => Carries(file, temp, last')
    BY <1>3 DEF IInv, Carries
  <2> QED BY <1>2, <2>1, <2>2, <2>3, <2>4 DEF IInv, FileIsSound
<1>5. CASE ~patch.replaced
  <2>1. /\ FileType(file) /\ FileType(file') /\ SameHeaders(file, file') /\ Sound(file')
        /\ patch.mode = "rpath" =>
             /\ DataOf(file', ".dynamic") = RPathEntry
             /\ DataOf(file', ".dynstr") = patch.value
             /\ \A n : n # ".dynstr" => DataOf(file', n) = DataOf(file, n)
        /\ patch.mode = "interpreter" =>
             /\ DataOf(file', ".interp") = patch.value
             /\ \A n : n # ".interp" => DataOf(file', n) = DataOf(file, n)
    BY <1>5, WrittenIs DEF IInv
  <2>2. UNCHANGED <<temp, strip>>
    BY DEF WriteBack
  <2>3. Answers(file', last')
    <3>1. Answers(file, last)
      BY DEF IInv
    <3>2. CASE patch.mode = "rpath"
      BY <3>1, <3>2, <1>1, <2>1, LoaderSeesData DEF Answers
    <3>3. CASE patch.mode = "interpreter"
      BY <3>1, <3>3, <1>1, <2>1, LoaderSeesData DEF Answers
    <3> QED BY <1>1, <3>2, <3>3
  <2>4. ASSUME strip.pc # "idle", NEW name \in Told(last')
        PROVE  name \in Told(last) /\ DataOf(file', name) = DataOf(file, name)
    BY <1>1, <1>3, <2>1, <2>4 DEF Told
  <2>5. CASE strip.pc = "copy"
    <3>1. LoopOK(file', strip.keep_symtab, strip.loop, strip.k)
      BY <2>1, <2>5, SameForTheLoop DEF IInv
    <3>2. LoopCarries(file', strip.loop, last')
      <4>1. DOMAIN file'.secs = DOMAIN file.secs
            /\ \A n : FirstNamed(file', n) = FirstNamed(file, n)
        BY <2>1, SameNames DEF SameHeaders
      <4>2. LoopCarries(file, strip.loop, last)
        BY <2>5 DEF IInv
      <4> QED BY <4>1, <4>2, <2>4, <2>5 DEF LoopCarries, DataOf, Section
    <3> QED BY <3>1, <3>2, <1>2, <2>1, <2>2, <2>3, <2>5 DEF IInv, FileIsSound
  <2>6. CASE strip.pc = "rename"
    <3>1. FileType(temp) /\ Sound(temp) /\ Keeps(file', temp, strip.keep_symtab)
      BY <2>1, <2>6, SameIsKept DEF IInv
    <3>2. Carries(file', temp, last')
      BY <2>4, <2>6 DEF IInv, Carries
    <3> QED BY <3>1, <3>2, <1>2, <2>1, <2>2, <2>3, <2>6 DEF IInv, FileIsSound
  <2>7. CASE strip.pc \notin {"copy", "rename"}
    BY <1>2, <2>1, <2>2, <2>3, <2>7 DEF IInv, FileIsSound
  <2> QED BY <2>5, <2>6, <2>7
<1> QED BY <1>4, <1>5

(* IInv is an invariant.                                                    *)
LEMMA NextIInv == ASSUME IInv, [Next]_vars PROVE IInv'
<1>1. CASE Next
  BY <1>1, OpenInputKeeps, CreateTempKeeps, ProcessSectionKeeps, UpdateKeeps, RenameKeeps,
     StripFailsKeeps, OpenToSetKeeps, WriteBackKeeps, PatchFailsKeeps DEF Next
<1>2. CASE UNCHANGED vars
  BY <1>2 DEF vars, IInv, ToolTypes, FileIsSound
<1> QED BY <1>1, <1>2

LEMMA Invariance == Spec => []IInv
<1>1. Init => IInv
  BY InitIInv
<1>2. IInv /\ [Next]_vars => IInv'
  BY NextIInv
<1> QED BY <1>1, <1>2, PTL DEF Spec

-----------------------------------------------------------------------------
(* What the tools promise.                                                  *)

(* At every moment the path holds a whole ELF file in order, whichever tool *)
(* fails or is killed, and wherever.                                        *)
THEOREM PathHoldsSoundFile == Spec => []FileIsSound
<1>1. IInv => FileIsSound
  BY DEF IInv
<1> QED BY <1>1, Invariance, PTL

(* The file answers with what was set last, to patchelf and to the loader.  *)
THEOREM LastSetIsAnswered == Spec => []LastSetAnswers
<1>1. IInv => LastSetAnswers
  BY IInvGivesLastSetAnswers
<1> QED BY <1>1, Invariance, PTL

(* A run of strip that succeeds drops what it should and keeps the rest.    *)
THEOREM StripKeeps == Spec => StripKeepsTheRest
<1> DEFINE kept == Kept(file, strip.keep_symtab)
           Kept1 == /\ file'.segments = file.segments /\ file'.headers = file.headers
                    /\ Len(file'.secs) = Cardinality(kept)
                    /\ \A k \in kept :
                         Lasting(file'.secs[Place(kept, k)]) = Lasting(file.secs[k])
<1>1. ASSUME IInv, Rename PROVE Kept1
  BY <1>1 DEF IInv, Rename, Keeps
<1>2. IInv /\ [Next]_vars => [Rename => Kept1]_vars
  BY <1>1
<1> QED BY <1>2, Invariance, PTL DEF Spec, StripKeepsTheRest

-----------------------------------------------------------------------------
(* Strip again and nothing moves.  A file that strip has written is packed: *)
(* next[k] is where what no segment holds ends, up to section k.            *)

NextEnds(secs, start, next) ==
    /\ next \in [0 .. Len(secs) -> Nat] /\ next[0] = start
    /\ \A k \in DOMAIN secs :
         /\ next[k] = NextOffset(secs[k], next[k - 1])
         /\ ~secs[k].alloc => secs[k].offset = RoundUp(next[k - 1], secs[k].align)

NamesAreLast(secs, shstrndx) ==
    \A k \in DOMAIN secs : secs[k].name = ".shstrtab" => k <= shstrndx

IsPacking(f, next) ==
    /\ NextEnds(f.secs, ComputeEndOfSegments(f), next)
    /\ f.shoff = RoundUp(next[Len(f.secs)], 8)
    /\ NamesAreLast(f.secs, f.shstrndx)

Packed(f) == \E next : IsPacking(f, next)

LoopPacks(f, l) ==
    /\ \E next : /\ NextEnds(l.secs, ComputeEndOfSegments(f), next)
                 /\ next[Len(l.secs)] = l.next_offset_nonalloc
    /\ NamesAreLast(l.secs, l.new_shstrndx)

(* A second run, which has nothing to leave out, repeats what is there.     *)
LoopRepeats(f, l, k) ==
    /\ Len(l.secs) = k - 1
    /\ \A j \in DOMAIN l.secs :
         /\ l.secs[j].name = f.secs[j].name /\ l.secs[j].alloc = f.secs[j].alloc
         /\ l.secs[j].size = f.secs[j].size /\ l.secs[j].align = f.secs[j].align
         /\ l.secs[j].offset = f.secs[j].offset /\ l.secs[j].rel = f.secs[j].rel
         /\ l.secs[j].link = f.secs[j].link /\ l.secs[j].info = f.secs[j].info
         /\ l.old_to_new_index[j] = j
    /\ \E next : IsPacking(f, next) /\ next[k - 1] = l.next_offset_nonalloc
    /\ f.shstrndx < k => l.new_shstrndx = f.shstrndx

(* Before the first round nothing is placed; a second run starts from there.*)
LEMMA LoopStartsPacked ==
    ASSUME NEW f, FileType(f)
    PROVE  /\ LoopPacks(f, LoopStart(f))
           /\ Packed(f) /\ f.shstrndx # 0 => LoopRepeats(f, LoopStart(f), 1)
<1>1. PICK l : l = LoopStart(f)
  OBVIOUS
<1>2. /\ l.secs = <<>> /\ l.next_offset_nonalloc = ComputeEndOfSegments(f)
      /\ DOMAIN l.secs = {} /\ Len(l.secs) = 0
  BY <1>1 DEF LoopStart
<1>3. PICK e \in Nat : e = ComputeEndOfSegments(f)
  BY DEF FileType
<1>4. LoopPacks(f, l)
  <2> DEFINE next == [i \in 0 .. 0 |-> e]
  <2>1. next \in [0 .. Len(l.secs) -> Nat] /\ next[0] = e
    BY <1>2
  <2>2. NextEnds(l.secs, ComputeEndOfSegments(f), next)
    BY <2>1, <1>2, <1>3 DEF NextEnds
  <2>3. next[Len(l.secs)] = l.next_offset_nonalloc
    BY <2>1, <1>2, <1>3
  <2> HIDE DEF next
  <2> QED BY <2>2, <2>3, <1>2 DEF LoopPacks, NamesAreLast
<1>5. ASSUME Packed(f), f.shstrndx # 0 PROVE LoopRepeats(f, l, 1)
  <2>1. PICK next : IsPacking(f, next)
    BY <1>5 DEF Packed
  <2>2. next[0] = l.next_offset_nonalloc
    BY <2>1, <1>2 DEF IsPacking, NextEnds
  <2>3. ~(f.shstrndx < 1)
    BY <1>5 DEF FileType
  <2> QED BY <2>1, <2>2, <2>3, <1>2 DEF LoopRepeats
<1> QED BY <1>1, <1>4, <1>5

(* A round puts its section where the last one ends.                        *)
LEMMA LoopPacksOn ==
    ASSUME NEW f, FileType(f), NEW keep, NEW l, NEW k \in DOMAIN f.secs,
           LoopOK(f, keep, l, k), LoopPacks(f, l)
    PROVE  LoopPacks(f, CopySection(l, f.secs[k], k))
<1>1. PICK s : s = f.secs[k]
  OBVIOUS
<1>2. PICK c : c = CopySection(l, s, k)
  OBVIOUS
<1>3. PICK t, end : /\ t = UpdateNonAllocSectionOffset(s, l.next_offset_nonalloc)
                    /\ end = NextOffset(s, l.next_offset_nonalloc)
  OBVIOUS
<1>4. /\ l.secs \in Seq(Sections) /\ l.next_offset_nonalloc \in Nat /\ s \in Sections
      /\ DOMAIN l.secs = 1 .. Len(l.secs) /\ Len(l.secs) \in Nat /\ l.new_shstrndx \in Nat
  BY <1>1 DEF LoopOK, LoopType, FileType
<1>5. /\ c.secs = Append(l.secs, t) /\ c.next_offset_nonalloc = end
      /\ c.new_shstrndx = IF s.name = ".shstrtab" THEN Len(l.secs) + 1 ELSE l.new_shstrndx
  BY <1>2, <1>3 DEF CopySection
<1>6. /\ t \in Sections /\ t.name = s.name /\ t.alloc = s.alloc /\ t.align = s.align
      /\ t.size = s.size /\ end \in Nat
      /\ end = NextOffset(t, l.next_offset_nonalloc)
      /\ ~t.alloc => t.offset = RoundUp(l.next_offset_nonalloc, t.align)
  <2>1. t \in Sections /\ Copied(s, t) /\ end \in Nat
    BY <1>3, <1>4, CopyOfSection
  <2>2. ~s.alloc => t.offset = RoundUp(l.next_offset_nonalloc, s.align)
    BY <1>3, <1>4 DEF UpdateNonAllocSectionOffset, Sections
  <2> QED BY <2>1, <2>2, <1>3 DEF Copied, NextOffset
<1>7. /\ DOMAIN c.secs = 1 .. Len(l.secs) + 1 /\ Len(c.secs) = Len(l.secs) + 1
      /\ c.secs[Len(l.secs) + 1] = t
      /\ \A n \in DOMAIN l.secs : c.secs[n] = l.secs[n]
  BY <1>4, <1>5, <1>6
<1>8. PICK next : /\ NextEnds(l.secs, ComputeEndOfSegments(f), next)
                  /\ next[Len(l.secs)] = l.next_offset_nonalloc
  BY DEF LoopPacks
<1> DEFINE after == [i \in 0 .. Len(l.secs) + 1 |->
                        IF i = Len(l.secs) + 1 THEN end ELSE next[i]]
<1>9. /\ after \in [0 .. Len(c.secs) -> Nat] /\ after[Len(l.secs) + 1] = end
      /\ \A i \in 0 .. Len(l.secs) : after[i] = next[i]
  BY <1>4, <1>6, <1>7, <1>8 DEF NextEnds
<1> HIDE DEF after
<1>10. ASSUME NEW n \in DOMAIN c.secs
       PROVE  /\ after[n] = NextOffset(c.secs[n], after[n - 1])
              /\ ~c.secs[n].alloc =>
                   c.secs[n].offset = RoundUp(after[n - 1], c.secs[n].align)
  <2>1. CASE n = Len(l.secs) + 1
    <3>1. n - 1 = Len(l.secs) /\ n - 1 \in 0 .. Len(l.secs)
      BY <2>1, <1>4
    <3>2. after[n - 1] = l.next_offset_nonalloc /\ after[n] = end /\ c.secs[n] = t
      BY <2>1, <3>1, <1>7, <1>8, <1>9
    <3> QED BY <3>2, <1>6
  <2>2. CASE n \in DOMAIN l.secs
    <3>1. n - 1 \in 0 .. Len(l.secs) /\ n \in 0 .. Len(l.secs)
      BY <2>2, <1>4
    <3>2. after[n - 1] = next[n - 1] /\ after[n] = next[n] /\ c.secs[n] = l.secs[n]
      BY <2>2, <3>1, <1>7, <1>9
    <3> QED BY <2>2, <3>2, <1>8 DEF NextEnds
  <2> QED BY <2>1, <2>2, <1>4, <1>7
<1>11. NextEnds(c.secs, ComputeEndOfSegments(f), after)
  <2>1. after[0] = ComputeEndOfSegments(f)
    BY <1>4, <1>8, <1>9 DEF NextEnds
  <2> QED BY <2>1, <1>9, <1>10 DEF NextEnds
<1>12. NamesAreLast(c.secs, c.new_shstrndx)
  <2> SUFFICES ASSUME NEW n \in DOMAIN c.secs, c.secs[n].name = ".shstrtab"
               PROVE  n <= c.new_shstrndx
    BY DEF NamesAreLast
  <2>1. n \in Nat /\ n <= Len(l.secs) + 1
    BY <1>4, <1>7
  <2>2. CASE s.name = ".shstrtab"
    BY <2>1, <2>2, <1>5
  <2>3. CASE s.name # ".shstrtab"
    <3>1. n \in DOMAIN l.secs /\ l.secs[n].name = ".shstrtab"
      BY <2>3, <1>4, <1>6, <1>7
    <3> QED BY <2>3, <3>1, <1>5 DEF LoopPacks, NamesAreLast
  <2> QED BY <2>2, <2>3
<1> QED BY <1>1, <1>2, <1>5, <1>7, <1>9, <1>11, <1>12 DEF LoopPacks

(* A round of a second run puts the section where it was.                   *)
LEMMA LoopRepeatsOn ==
    ASSUME NEW f, FileType(f), Sound(f), NEW keep, NEW l, NEW k \in DOMAIN f.secs,
           LoopOK(f, keep, l, k), LoopRepeats(f, l, k)
    PROVE  LoopRepeats(f, CopySection(l, f.secs[k], k), k + 1)
<1>1. PICK s : s = f.secs[k]
  OBVIOUS
<1>2. PICK c : c = CopySection(l, s, k)
  OBVIOUS
<1>3. PICK t : t = UpdateNonAllocSectionOffset(s, l.next_offset_nonalloc)
  OBVIOUS
<1>4. /\ l.secs \in Seq(Sections) /\ l.next_offset_nonalloc \in Nat /\ s \in Sections
      /\ l.old_to_new_index \in [DOMAIN f.secs -> Nat]
      /\ DOMAIN f.secs = 1 .. Len(f.secs) /\ Len(f.secs) \in Nat
      /\ f.shstrndx \in Nat
  BY <1>1 DEF LoopOK, LoopType, FileType
<1>5. /\ Len(l.secs) = k - 1 /\ DOMAIN l.secs = 1 .. k - 1 /\ k \in Nat
      /\ \A j \in DOMAIN l.secs : j \in DOMAIN f.secs /\ j < k
  BY <1>4 DEF LoopRepeats
<1>6. /\ c.secs = Append(l.secs, t)
      /\ c.next_offset_nonalloc = NextOffset(s, l.next_offset_nonalloc)
      /\ c.old_to_new_index = [l.old_to_new_index EXCEPT ![k] = k]
      /\ c.new_shstrndx = IF s.name = ".shstrtab" THEN k ELSE l.new_shstrndx
  <2>1. Len(l.secs) + 1 = k
    BY <1>5
  <2> QED BY <2>1, <1>2, <1>3 DEF CopySection
<1>7. t \in Sections /\ Copied(s, t)
  BY <1>3, <1>4, CopyOfSection
<1>8. /\ DOMAIN c.secs = 1 .. k /\ Len(c.secs) = k /\ c.secs[k] = t
      /\ \A j \in DOMAIN l.secs : c.secs[j] = l.secs[j]
      /\ \A j \in DOMAIN c.secs : j = k \/ j \in DOMAIN l.secs
  BY <1>4, <1>5, <1>6, <1>7
<1>9. PICK next : IsPacking(f, next) /\ next[k - 1] = l.next_offset_nonalloc
  BY DEF LoopRepeats
<1>10. /\ next[k] = NextOffset(s, next[k - 1])
       /\ ~s.alloc => s.offset = RoundUp(next[k - 1], s.align)
  BY <1>1, <1>9 DEF IsPacking, NextEnds
<1>11. t.offset = s.offset
  <2>1. CASE s.alloc
    BY <2>1, <1>7 DEF Copied
  <2>2. CASE ~s.alloc
    BY <2>2, <1>3, <1>4, <1>9, <1>10 DEF UpdateNonAllocSectionOffset, Sections
  <2> QED BY <2>1, <2>2
<1>12. ASSUME NEW j \in DOMAIN c.secs
       PROVE  /\ c.secs[j].name = f.secs[j].name /\ c.secs[j].alloc = f.secs[j].alloc
              /\ c.secs[j].size = f.secs[j].size /\ c.secs[j].align = f.secs[j].align
              /\ c.secs[j].offset = f.secs[j].offset /\ c.secs[j].rel = f.secs[j].rel
              /\ c.secs[j].link = f.secs[j].link /\ c.secs[j].info = f.secs[j].info
              /\ c.old_to_new_index[j] = j
  <2>1. CASE j = k
    BY <2>1, <1>1, <1>4, <1>6, <1>7, <1>8, <1>11 DEF Copied
  <2>2. CASE j \in DOMAIN l.secs
    <3>1. c.old_to_new_index[j] = l.old_to_new_index[j] /\ c.secs[j] = l.secs[j]
      BY <2>2, <1>4, <1>5, <1>6, <1>8
    <3> QED BY <2>2, <3>1 DEF LoopRepeats
  <2> QED BY <2>1, <2>2, <1>8
<1>13. ASSUME f.shstrndx < k + 1 PROVE c.new_shstrndx = f.shstrndx
  <2>1. CASE f.shstrndx = k
    BY <2>1, <1>1, <1>6 DEF Sound, HasNames, Section
  <2>2. CASE f.shstrndx < k
    <3>1. s.name # ".shstrtab"
      BY <2>2, <1>1, <1>4, <1>5, <1>9 DEF IsPacking, NamesAreLast
    <3> QED BY <2>2, <3>1, <1>6 DEF LoopRepeats
  <2> QED BY <2>1, <2>2, <1>4, <1>5, <1>13
<1>14. IsPacking(f, next) /\ next[(k + 1) - 1] = c.next_offset_nonalloc
  BY <1>5, <1>6, <1>9, <1>10
<1>15. Len(c.secs) = (k + 1) - 1
  BY <1>5, <1>8
<1> QED BY <1>1, <1>2, <1>12, <1>13, <1>14, <1>15 DEF LoopRepeats

(* A run that had nothing to leave out has written the same headers again.  *)
LEMMA RepeatsToTheEnd ==
    ASSUME NEW f, FileType(f), Sound(f), NEW keep, NEW l,
           LoopOK(f, keep, l, Len(f.secs) + 1), LoopRepeats(f, l, Len(f.secs) + 1)
    PROVE  SameHeaders(f, NewFile(l, f))
<1>1. PICK g, map : g = NewFile(l, f) /\ map = l.old_to_new_index
  OBVIOUS
<1>2. /\ l.secs \in Seq(Sections) /\ map \in [DOMAIN f.secs -> Nat]
      /\ DOMAIN f.secs = 1 .. Len(f.secs) /\ Len(f.secs) \in Nat /\ f.shstrndx \in Nat
      /\ f.secs \in Seq(Sections)
  BY <1>1 DEF LoopOK, LoopType, FileType
<1>3. Len(l.secs) = Len(f.secs) /\ DOMAIN l.secs = DOMAIN f.secs
  BY <1>2 DEF LoopRepeats
<1>4. /\ DOMAIN g.secs = DOMAIN l.secs /\ Len(g.secs) = Len(l.secs)
      /\ \A n \in DOMAIN l.secs :
           /\ g.secs[n].name = l.secs[n].name /\ g.secs[n].alloc = l.secs[n].alloc
           /\ g.secs[n].size = l.secs[n].size /\ g.secs[n].align = l.secs[n].align
           /\ g.secs[n].offset = l.secs[n].offset
           /\ g.secs[n].link = MapSectionIndex(map, l.secs[n].link)
           /\ g.secs[n].rel = l.secs[n].rel
           /\ g.secs[n].info = IF l.secs[n].rel
                               THEN MapSectionIndex(map, l.secs[n].info)
                               ELSE l.secs[n].info
  BY <1>1, <1>2, FixupIs
<1>5. \A name : MapSectionIndex(map, Lead(f, name)) = Lead(f, name)
  <2> SUFFICES ASSUME NEW name
               PROVE  MapSectionIndex(map, Lead(f, name)) = Lead(f, name)
    OBVIOUS
  <2>1. Lead(f, name) = 0 \/ Lead(f, name) \in DOMAIN f.secs
    BY <1>2, FirstNamedIs DEF Lead
  <2>2. \A j \in DOMAIN f.secs : map[j] = j
    BY <1>1, <1>3 DEF LoopRepeats
  <2> QED BY <2>1, <2>2, <1>2 DEF MapSectionIndex
<1>6. ASSUME NEW k \in DOMAIN f.secs
      PROVE  /\ g.secs[k].name = f.secs[k].name /\ g.secs[k].alloc = f.secs[k].alloc
             /\ g.secs[k].size = f.secs[k].size /\ g.secs[k].align = f.secs[k].align
             /\ g.secs[k].offset = f.secs[k].offset /\ g.secs[k].rel = f.secs[k].rel
             /\ g.secs[k].link = f.secs[k].link /\ g.secs[k].info = f.secs[k].info
  <2>1. /\ l.secs[k].name = f.secs[k].name /\ l.secs[k].alloc = f.secs[k].alloc
        /\ l.secs[k].size = f.secs[k].size /\ l.secs[k].align = f.secs[k].align
        /\ l.secs[k].offset = f.secs[k].offset /\ l.secs[k].rel = f.secs[k].rel
        /\ l.secs[k].link = f.secs[k].link /\ l.secs[k].info = f.secs[k].info
    BY <1>3 DEF LoopRepeats
  <2>2. /\ f.secs[k].link = Lead(f, LinkTarget(f.secs[k].name))
        /\ f.secs[k].rel => f.secs[k].info = Lead(f, InfoTarget(f.secs[k].name))
    BY DEF Sound, LinksLead
  <2> QED BY <2>1, <2>2, <1>3, <1>4, <1>5
<1>7. g.shoff = f.shoff
  <2>1. PICK next : /\ IsPacking(f, next)
                    /\ next[Len(f.secs) + 1 - 1] = l.next_offset_nonalloc
    BY DEF LoopRepeats
  <2>2. g.shoff = RoundUp(l.next_offset_nonalloc, 8)
    BY <1>1 DEF NewFile
  <2>3. Len(f.secs) + 1 - 1 = Len(f.secs)
    BY <1>2
  <2> QED BY <2>1, <2>2, <2>3 DEF IsPacking
<1>8. g.shstrndx = f.shstrndx
  <2>1. f.shstrndx \in DOMAIN f.secs
    BY DEF Sound, HasNames, Section, NoSection
  <2>2. f.shstrndx < Len(f.secs) + 1
    BY <2>1, <1>2
  <2> QED BY <2>2, <1>1 DEF LoopRepeats, NewFile
<1>9. g.segments = f.segments /\ g.headers = f.headers
  BY <1>1 DEF NewFile
<1> QED BY <1>1, <1>3, <1>4, <1>6, <1>7, <1>8, <1>9 DEF SameHeaders

(* Whatever a run writes is packed and leaves the same run nothing to drop. *)
LEMMA NewFileIsPacked ==
    ASSUME NEW f, FileType(f), NEW keep, NEW l,
           LoopOK(f, keep, l, Len(f.secs) + 1), LoopPacks(f, l)
    PROVE  /\ Packed(NewFile(l, f))
           /\ Kept(NewFile(l, f), keep) = DOMAIN NewFile(l, f).secs
<1>1. PICK g, map : g = NewFile(l, f) /\ map = l.old_to_new_index
  OBVIOUS
<1>2. l.secs \in Seq(Sections) /\ map \in [DOMAIN f.secs -> Nat]
  BY <1>1 DEF LoopOK, LoopType
<1>3. /\ DOMAIN g.secs = DOMAIN l.secs /\ Len(g.secs) = Len(l.secs)
      /\ \A n \in DOMAIN l.secs :
           /\ g.secs[n].name = l.secs[n].name /\ g.secs[n].alloc = l.secs[n].alloc
           /\ g.secs[n].size = l.secs[n].size /\ g.secs[n].align = l.secs[n].align
           /\ g.secs[n].offset = l.secs[n].offset
  BY <1>1, <1>2, FixupIs
<1>4. /\ g.shoff = RoundUp(l.next_offset_nonalloc, 8) /\ g.shstrndx = l.new_shstrndx
      /\ ComputeEndOfSegments(g) = ComputeEndOfSegments(f)
  BY <1>1 DEF NewFile, ComputeEndOfSegments
<1>5. PICK next : /\ NextEnds(l.secs, ComputeEndOfSegments(f), next)
                  /\ next[Len(l.secs)] = l.next_offset_nonalloc
  BY DEF LoopPacks
<1>6. NextEnds(g.secs, ComputeEndOfSegments(g), next)
  BY <1>3, <1>4, <1>5 DEF NextEnds, NextOffset
<1>7. NamesAreLast(g.secs, g.shstrndx)
  BY <1>3, <1>4 DEF LoopPacks, NamesAreLast
<1>8. Packed(g)
  BY <1>3, <1>4, <1>5, <1>6, <1>7 DEF IsPacking, Packed
<1>9. ASSUME NEW n \in DOMAIN g.secs PROVE ~ShouldSkipSection(g.secs[n].name, keep)
  <2>1. Moved(f, keep, l, g, map)
    BY <1>1, NewSections
  <2>2. PICK j \in DOMAIN f.secs : map[j] = n /\ map[j] # 0
    BY <2>1 DEF Moved
  <2>3. j \in Kept(f, keep) /\ g.secs[n].name = f.secs[j].name
    BY <2>1, <2>2 DEF Moved
  <2> QED BY <2>3 DEF Kept
<1>10. Kept(g, keep) = DOMAIN g.secs
  BY <1>9 DEF Kept
<1> QED BY <1>1, <1>8, <1>10

(* Setting data moves nothing.                                              *)
LEMMA SamePacking ==
    ASSUME NEW f, NEW g, SameHeaders(f, g)
    PROVE  /\ Packed(f) => Packed(g)
           /\ \A l : LoopPacks(f, l) => LoopPacks(g, l)
           /\ \A l, k, keep : LoopOK(f, keep, l, k) /\ LoopRepeats(f, l, k) =>
                                LoopRepeats(g, l, k)
<1>1. ComputeEndOfSegments(g) = ComputeEndOfSegments(f)
  BY SameNames
<1>2. ASSUME NEW next, IsPacking(f, next) PROVE IsPacking(g, next)
  <2>1. NextEnds(g.secs, ComputeEndOfSegments(g), next)
    BY <1>1, <1>2 DEF IsPacking, NextEnds, NextOffset, SameHeaders
  <2>2. NamesAreLast(g.secs, g.shstrndx)
    BY <1>2 DEF IsPacking, NamesAreLast, SameHeaders
  <2> QED BY <2>1, <2>2, <1>2 DEF IsPacking, SameHeaders
<1>3. Packed(f) => Packed(g)
  BY <1>2 DEF Packed
<1>4. \A l : LoopPacks(f, l) => LoopPacks(g, l)
  BY <1>1 DEF LoopPacks
<1>5. ASSUME NEW l, NEW k, NEW keep, LoopOK(f, keep, l, k), LoopRepeats(f, l, k)
      PROVE  LoopRepeats(g, l, k)
  <2>1. \A j \in DOMAIN l.secs : j \in DOMAIN f.secs
    BY <1>5 DEF LoopRepeats, LoopOK, LoopType, SameHeaders
  <2>2. \E next : IsPacking(g, next) /\ next[k - 1] = l.next_offset_nonalloc
    BY <1>2, <1>5 DEF LoopRepeats
  <2> QED BY <2>1, <2>2, <1>5 DEF LoopRepeats, SameHeaders
<1> QED BY <1>3, <1>4, <1>5

(* The file has no section that strip would leave out.                      *)
NothingToDrop(f, keep) == Kept(f, keep) = DOMAIN f.secs

(* A strip with this flag has to find everything as it left it.             *)
Again(keep) == FALSE \in stripped \/ keep \in stripped

StripInv ==
    /\ stripped # {} => Packed(file)
    /\ \A keep \in stripped : NothingToDrop(file, keep)
    /\ strip.pc = "copy" =>
         /\ LoopPacks(file, strip.loop)
         /\ Again(strip.keep_symtab) => LoopRepeats(file, strip.loop, strip.k)
    /\ strip.pc = "rename" =>
         /\ Packed(temp) /\ NothingToDrop(temp, strip.keep_symtab)
         /\ Again(strip.keep_symtab) => SameHeaders(file, temp)

(* What one run leaves out, the next need not.                              *)
LEMMA AgainDropsNothing ==
    ASSUME StripInv, NEW keep, Again(keep)
    PROVE  NothingToDrop(file, keep) /\ Packed(file)
<1>1. NothingToDrop(file, FALSE) \/ NothingToDrop(file, keep)
  BY DEF StripInv, Again
<1>2. NothingToDrop(file, FALSE) => NothingToDrop(file, keep)
  BY DEF NothingToDrop, Kept, ShouldSkipSection
<1> QED BY <1>1, <1>2 DEF StripInv, Again

(* Every step preserves StripInv.                                           *)
LEMMA NextStripInv == ASSUME IInv, StripInv, [Next]_vars PROVE StripInv'
<1> SUFFICES ASSUME Next \/ UNCHANGED vars PROVE StripInv'
  OBVIOUS
<1>1. CASE OpenInput
  BY <1>1 DEF StripInv, OpenInput, IInv, ToolTypes
<1>2. CASE CreateTemp
  <2>1. /\ strip'.pc = "copy" /\ strip'.k = 1 /\ strip'.loop = LoopStart(file)
        /\ strip'.keep_symtab = strip.keep_symtab /\ UNCHANGED <<file, stripped>>
    BY <1>2 DEF IInv, CreateTemp, ToolTypes
  <2>2. FileType(file) /\ file.shstrndx # 0
    <3>1. FileType(file) /\ HasNames(file)
      BY DEF IInv, FileIsSound, Sound
    <3> QED BY <3>1 DEF HasNames, Section, NoSection, FileType
  <2>3. LoopPacks(file, strip'.loop)
    BY <2>1, <2>2, LoopStartsPacked
  <2>4. Again(strip.keep_symtab) => LoopRepeats(file, strip'.loop, 1)
    BY <2>1, <2>2, LoopStartsPacked, AgainDropsNothing
  <2> QED BY <2>1, <2>3, <2>4 DEF StripInv, Again
<1>3. CASE ProcessSection
  <2>1. PICK k, keep, l : k = strip.k /\ keep = strip.keep_symtab /\ l = strip.loop
    OBVIOUS
  <2>2. /\ FileType(file) /\ Sound(file) /\ LoopOK(file, keep, l, k) /\ LoopPacks(file, l)
        /\ Again(keep) => LoopRepeats(file, l, k)
        /\ k \in DOMAIN file.secs
    BY <2>1, <1>3 DEF IInv, FileIsSound, StripInv, ProcessSection
  <2>3. /\ strip'.pc = "copy" /\ strip'.k = k + 1 /\ strip'.keep_symtab = keep
        /\ strip'.loop = IF ShouldSkipSection(file.secs[k].name, keep) THEN l
                         ELSE CopySection(l, file.secs[k], k)
        /\ UNCHANGED <<file, stripped>>
    BY <2>1, <1>3 DEF IInv, ProcessSection, ToolTypes
  <2>4. LoopPacks(file, strip'.loop)
    BY <2>2, <2>3, LoopPacksOn
  <2>5. ASSUME Again(keep) PROVE LoopRepeats(file, strip'.loop, k + 1)
    <3>1. ~ShouldSkipSection(file.secs[k].name, keep)
      BY <2>2, <2>5, AgainDropsNothing DEF NothingToDrop, Kept
    <3> QED BY <2>2, <2>3, <2>5, <3>1, LoopRepeatsOn
  <2> QED BY <2>3, <2>4, <2>5 DEF StripInv, Again
<1>4. CASE Update
  <2>1. PICK keep, l : keep = strip.keep_symtab /\ l = strip.loop
    OBVIOUS
  <2>2. /\ FileType(file) /\ Sound(file) /\ LoopOK(file, keep, l, strip.k)
        /\ LoopPacks(file, l)
        /\ Again(keep) => LoopRepeats(file, l, strip.k)
    BY <2>1, <1>4 DEF IInv, FileIsSound, StripInv, Update
  <2>3. strip.k = Len(file.secs) + 1
    BY <1>4, <2>2 DEF FileType, LoopOK, LoopType, Update
  <2>4. /\ strip'.pc = "rename" /\ strip'.keep_symtab = keep
        /\ temp' = NewFile(l, file) /\ UNCHANGED <<file, stripped>>
    BY <2>1, <1>4 DEF IInv, Update, ToolTypes
  <2>5. Packed(temp') /\ NothingToDrop(temp', keep)
    BY <2>2, <2>3, <2>4, NewFileIsPacked DEF NothingToDrop
  <2>6. Again(keep) => SameHeaders(file, temp')
    BY <2>2, <2>3, <2>4, RepeatsToTheEnd
  <2> QED BY <2>4, <2>5, <2>6 DEF StripInv, Again
<1>5. CASE Rename
  <2>1. /\ strip.pc = "rename" /\ file' = temp /\ stripped' = {strip.keep_symtab}
        /\ strip'.pc = "idle"
    BY <1>5 DEF Rename, StripIdle
  <2>2. Packed(temp) /\ NothingToDrop(temp, strip.keep_symtab)
    BY <2>1 DEF StripInv
  <2> QED BY <2>1, <2>2 DEF StripInv
<1>6. CASE StripFails
  BY <1>6 DEF StripInv, StripFails, StripIdle
<1>7. CASE OpenToSet \/ PatchFails \/ UNCHANGED vars
  BY <1>7 DEF StripInv, OpenToSet, PatchFails, vars, Again
<1>8. CASE WriteBack
  <2>1. UNCHANGED <<temp, strip, stripped>>
    BY <1>8 DEF WriteBack
  <2>2. CASE patch.replaced
    <3>1. file' = file
      BY <1>8, <2>2 DEF WriteBack
    <3> QED BY <2>1, <3>1 DEF StripInv, Again
  <2>3. CASE ~patch.replaced
    <3>1. SameHeaders(file, file')
      BY <1>8, <2>3, WrittenIs
    <3>2. \A keep : NothingToDrop(file', keep) <=> NothingToDrop(file, keep)
      <4>1. \A keep : Kept(file', keep) = Kept(file, keep)
        BY <3>1, SameNames
      <4>2. DOMAIN file'.secs = DOMAIN file.secs
        BY <3>1 DEF SameHeaders
      <4> QED BY <4>1, <4>2 DEF NothingToDrop
    <3>3. Packed(file) => Packed(file')
      BY <3>1, SamePacking
    <3>4. ASSUME strip.pc = "copy"
          PROVE  /\ LoopPacks(file', strip.loop)
                 /\ Again(strip.keep_symtab) => LoopRepeats(file', strip.loop, strip.k)
      BY <3>1, <3>4, SamePacking DEF StripInv, IInv
    <3>5. \A g : SameHeaders(file, g) => SameHeaders(file', g)
      BY <3>1 DEF SameHeaders
    <3> QED BY <2>1, <3>2, <3>3, <3>4, <3>5 DEF StripInv, Again
  <2> QED BY <2>2, <2>3
<1> QED BY <1>1, <1>2, <1>3, <1>4, <1>5, <1>6, <1>7, <1>8 DEF Next

(* Files with the same headers have the same shape.                         *)
LEMMA SameShape ==
    ASSUME NEW f, FileType(f), NEW g, FileType(g), SameHeaders(f, g)
    PROVE  [g EXCEPT !.secs = [k \in DOMAIN @ |-> [@[k] EXCEPT !.data = Blank]]]
             = [f EXCEPT !.secs = [k \in DOMAIN @ |-> [@[k] EXCEPT !.data = Blank]]]
<1> DEFINE Bare(h) == [k \in DOMAIN h.secs |-> [h.secs[k] EXCEPT !.data = Blank]]
<1>1. \A k \in DOMAIN f.secs : f.secs[k] \in Sections /\ g.secs[k] \in Sections
  BY DEF FileType, SameHeaders
<1>2. \A k \in DOMAIN f.secs : [g.secs[k] EXCEPT !.data = Blank]
                                 = [f.secs[k] EXCEPT !.data = Blank]
  <2> SUFFICES ASSUME NEW k \in DOMAIN f.secs
               PROVE  [g.secs[k] EXCEPT !.data = Blank] = [f.secs[k] EXCEPT !.data = Blank]
    OBVIOUS
  <2>1. PICK s, t : s = f.secs[k] /\ t = g.secs[k] /\ s \in Sections /\ t \in Sections
    BY <1>1
  <2>2. /\ t.name = s.name /\ t.alloc = s.alloc /\ t.rel = s.rel /\ t.size = s.size
        /\ t.align = s.align /\ t.offset = s.offset /\ t.link = s.link /\ t.info = s.info
    BY <2>1 DEF SameHeaders
  <2>3. [t EXCEPT !.data = Blank] = [s EXCEPT !.data = Blank]
    BY <2>1, <2>2 DEF Sections
  <2> QED BY <2>1, <2>3
<1>3. Bare(g) = Bare(f)
  BY <1>2 DEF SameHeaders
<1>4. \A h : [h EXCEPT !.secs = [k \in DOMAIN @ |-> [@[k] EXCEPT !.data = Blank]]]
               = [h EXCEPT !.secs = Bare(h)]
  OBVIOUS
<1> HIDE DEF Bare
<1>5. [g EXCEPT !.secs = Bare(g)] = [f EXCEPT !.secs = Bare(f)]
  BY <1>3 DEF FileType, SameHeaders
<1> QED BY <1>4, <1>5

(* Strip again, with the same flag or after a strip without -d, and nothing *)
(* moves: strip is idempotent, whatever was set in between.                 *)
THEOREM StripIsIdempotent == Spec => StripAgainChangesNothing
<1> DEFINE Shape(f) == [f EXCEPT !.secs = [k \in DOMAIN @ |-> [@[k] EXCEPT !.data = Blank]]]
           Same == Rename /\ (FALSE \in stripped \/ strip.keep_symtab \in stripped) =>
                     Shape(file') = Shape(file)
<1>1. Init => StripInv
  BY DEF Init, StripIdle, StripInv
<1>2. IInv /\ StripInv /\ [Next]_vars => StripInv'
  BY NextStripInv
<1>3. ASSUME IInv, StripInv PROVE Same
  <2> SUFFICES ASSUME Rename, Again(strip.keep_symtab) PROVE Shape(file') = Shape(file)
    BY DEF Again
  <2>1. FileType(file) /\ FileType(temp) /\ SameHeaders(file, temp) /\ file' = temp
    BY <1>3 DEF IInv, StripInv, Rename
  <2> QED BY <2>1, SameShape
<1>4. IInv /\ StripInv /\ [Next]_vars => [Same]_vars
  BY <1>3
<1> QED BY <1>1, <1>2, <1>4, Invariance, PTL DEF Spec, StripAgainChangesNothing
=============================================================================
