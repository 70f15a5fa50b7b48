---------------------------- MODULE MallocProofs ----------------------------
(***************************************************************************)
(* Proofs about Malloc, for every value of its constants.                   *)
(***************************************************************************)
EXTENDS Malloc, TLAPS

(* A chunk holds at least its own links; chunk sizes count whole granules.  *)
LEMMA MinChunk == kMinChunk \in Nat /\ kMinChunk >= 2 /\ Bytes(kMinChunk) = kMinChunkSize
BY SizesAssumption DEF kMinChunk, Bytes, kAlignment

(* What GetAlignedSize gives a legal request: room for it and its header.   *)
LEMMA ChunkSizeFits ==
    ASSUME NEW n \in Requests
    PROVE  /\ ChunkSize(n) \in Nat /\ ChunkSize(n) >= kMinChunk
           /\ n <= Bytes(ChunkSize(n)) - kMetaSize
<1> DEFINE t == n + kMetaSize + kAlignmentMask
<1>1. n \in Nat /\ t \in Nat /\ t = n + 23 /\ t % kSizeMod = t
  BY RequestsAssumption, SizesAssumption DEF kMetaSize, kAlignmentMask, kAlignment
<1>2. (t \div 16) \in Nat /\ 16 * (t \div 16) <= t /\ t < 16 * (t \div 16) + 16
  BY <1>1
<1>3. GetAlignedSize(n) = IF (t \div 16) * 16 < kMinChunkSize THEN kMinChunkSize ELSE (t \div 16) * 16
  BY <1>1 DEF GetAlignedSize, kAlignment
<1>4. CASE (t \div 16) * 16 < kMinChunkSize
  <2>1. ChunkSize(n) = kMinChunk
    BY <1>3, <1>4 DEF ChunkSize, kMinChunk
  <2> QED BY <2>1, <1>1, <1>2, <1>4, MinChunk DEF Bytes, kAlignment, kMetaSize
<1>5. CASE ~ ((t \div 16) * 16 < kMinChunkSize)
  <2>1. ChunkSize(n) = t \div 16
    BY <1>2, <1>3, <1>5 DEF ChunkSize, kAlignment
  <2> QED BY <2>1, <1>1, <1>2, <1>5, MinChunk, SizesAssumption DEF Bytes, kAlignment, kMetaSize
<1> QED BY <1>4, <1>5

-----------------------------------------------------------------------------
(* Membership in the lists of a BinsList.                                   *)

LEMMA MembersOf ==
    ASSUME NEW list, NEW c
    PROVE  c \in Members(list) <=> \E i \in DOMAIN list : c \in list[i]
BY DEF Members

(* Taking c out of the only bin that holds it takes it out of the list.     *)
LEMMA MembersWithout ==
    ASSUME NEW Idx, NEW list \in [Idx -> SUBSET Addr], NEW k \in Idx, NEW c,
           \A i \in Idx : c \in list[i] => i = k,
           NEW new, new = [list EXCEPT ![k] = @ \ {c}]
    PROVE  /\ new \in [Idx -> SUBSET Addr]
           /\ \A i \in Idx : \A d : d \in new[i] <=> d \in list[i] /\ d # c
           /\ \A d : d \in Members(new) <=> d \in Members(list) /\ d # c
<1>1. new \in [Idx -> SUBSET Addr]
  OBVIOUS
<1>2. \A i \in Idx : \A d : d \in new[i] <=> d \in list[i] /\ d # c
  OBVIOUS
<1>3. \A d : d \in Members(new) <=> d \in Members(list) /\ d # c
  BY <1>1, <1>2, MembersOf
<1> QED BY <1>1, <1>2, <1>3

LEMMA MembersWith ==
    ASSUME NEW Idx, NEW list \in [Idx -> SUBSET Addr], NEW k \in Idx, NEW c \in Addr,
           NEW new, new = [list EXCEPT ![k] = @ \union {c}]
    PROVE  /\ new \in [Idx -> SUBSET Addr]
           /\ \A i \in Idx : \A d : d \in new[i] <=> d \in list[i] \/ (i = k /\ d = c)
           /\ \A d : d \in Members(new) <=> d \in Members(list) \/ d = c
<1>1. new \in [Idx -> SUBSET Addr]
  OBVIOUS
<1>2. \A i \in Idx : \A d : d \in new[i] <=> d \in list[i] \/ (i = k /\ d = c)
  OBVIOUS
<1>3. \A d : d \in Members(new) <=> d \in Members(list) \/ d = c
  BY <1>1, <1>2, MembersOf
<1> QED BY <1>1, <1>2, <1>3

-----------------------------------------------------------------------------
(* What the invariant says of a single chunk.                               *)
LEMMA ChunkFacts ==
    ASSUME TypeOK, HeapInv, NEW c \in Chunks
    PROVE  /\ c \in Addr /\ size[c] \in Addr /\ size[c] >= 2 /\ size[c] >= kMinChunk
           /\ Next_(c) = c + size[c] /\ Next_(c) \in Addr
           /\ Next_(c) \in Chunks \union {first}
           /\ c < Next_(c) /\ Next_(c) <= first
           /\ BinIndex[size[c]] \in Bins
<1>1. c \in Addr
  BY MembersOf DEF TypeOK, Chunks, Busy, InBins
<1>2. Chunks \subseteq Addr /\ first \in Addr
  BY MembersOf DEF TypeOK, Chunks, Busy, InBins
<1>3. size[c] \in Nat /\ size[c] >= kMinChunk /\ Next_(c) \in Chunks \union {first}
     /\ Next_(c) <= first
  BY <1>1 DEF TypeOK, HeapInv, Tiled
<1>4. kHeapLimit \in Nat
  BY MallocAssumption
<1>5. size[c] \in Addr
  BY <1>1, <1>2, <1>3, <1>4 DEF Next_, Addr
<1> QED BY <1>1, <1>2, <1>3, <1>4, <1>5, MinChunk, BinIndexAssumption DEF Next_, Addr

(* No two chunks end at the same place.                                     *)
LEMMA EndsDiffer ==
    ASSUME TypeOK, HeapInv, NEW c \in Chunks, NEW d \in Chunks
    PROVE  Next_(c) = Next_(d) => c = d
<1>1. /\ c \in Nat /\ d \in Nat /\ c < Next_(c) /\ d < Next_(d)
      /\ Next_(c) \in Nat /\ Next_(d) \in Nat
  BY ChunkFacts DEF Addr
<1> QED BY <1>1 DEF HeapInv, Tiled

(* A free chunk is in the bin of its size and in no other.                  *)
LEMMA OnlyBin ==
    ASSUME TypeOK, HeapInv, NEW c \in InBins
    PROVE  /\ c \in bins[BinIndex[size[c]]]
           /\ \A i \in Bins : c \in bins[i] => i = BinIndex[size[c]]
BY MembersOf DEF TypeOK, HeapInv, Binned, InBins

(* A free chunk passes IsValid: it is no larger than the heap.              *)
LEMMA FreeIsValid ==
    ASSUME TypeOK, HeapInv, NEW c \in Chunks
    PROVE  IsValid(c)
<1>1. size[c] \in Nat /\ size[c] <= kHeapLimit /\ size[c] > 0 /\ kHeapLimit \in Nat
  BY ChunkFacts, MallocAssumption DEF Addr
<1>2. Bytes(size[c]) <= Bytes(kHeapLimit) /\ Bytes(size[c]) \in Nat
  BY <1>1 DEF Bytes, kAlignment
<1> QED BY <1>1, <1>2, HeapLimitAssumption DEF IsValid, Bytes, kAlignment

-----------------------------------------------------------------------------
(* FreeChunk.  What MergeWithPrev and MergeWithNext conclude from the tags  *)
(* is true: a chunk they merge with is a free neighbour, and they merge     *)
(* with every free neighbour.                                               *)
LEMMA MergePrevIsRight ==
    ASSUME TypeOK, HeapInv, NEW m \in Busy
    PROVE  /\ MergesPrev(m) => Prev(m) \in InBins /\ Next_(Prev(m)) = m
           /\ ~MergesPrev(m) => \A p \in InBins : Next_(p) # m
<1>1. m \in Chunks /\ m \in Addr /\ InBins \subseteq Chunks
  BY ChunkFacts DEF Chunks
<1>2. ASSUME NEW p \in InBins, Next_(p) = m
      PROVE  ~pinuse[m] /\ Prev(m) = p /\ m # 0
  <2>1. p \in Chunks /\ p \in Nat /\ size[p] \in Nat /\ p < m
    BY <1>1, <1>2, ChunkFacts DEF Addr
  <2>2. ~IsInUse(p) /\ back[Next_(p)] = size[p]
    BY DEF HeapInv, TagsTell
  <2> QED BY <2>1, <2>2, <1>1, <1>2 DEF IsInUse, Prev, Next_, Addr
<1>3. ASSUME MergesPrev(m)
      PROVE  Prev(m) \in InBins /\ Next_(Prev(m)) = m
  <2>1. m # 0 /\ ~pinuse[m]
    BY <1>3 DEF MergesPrev
  <2>2. PICK p \in Chunks : Next_(p) = m
    BY <1>1, <2>1 DEF HeapInv, HasPredecessor
  <2>3. p \notin Busy
    BY <2>1, <2>2 DEF HeapInv, TagsTell, IsInUse
  <2>4. p \in InBins
    BY <2>2, <2>3 DEF Chunks
  <2> QED BY <1>2, <2>2, <2>4
<1>4. ASSUME NEW p \in InBins, Next_(p) = m
      PROVE  MergesPrev(m)
  <2>1. IsValid(p)
    BY <1>1, FreeIsValid
  <2> QED BY <2>1, <1>2, <1>4 DEF MergesPrev
<1> QED BY <1>3, <1>4

(* The bounds of the merged chunk: h is where it starts, e where it ends.   *)
LEMMA MergedBounds ==
    ASSUME TypeOK, HeapInv, NEW m \in Busy
    PROVE  /\ MergedHead(m) \in Addr /\ MergedHead(m) \in Chunks
           /\ MergedHead(m) = m \/ (MergedHead(m) \in InBins /\ Next_(MergedHead(m)) = m)
           /\ NextOf(m) = Next_(m)
           /\ MergesNext(m) <=> Next_(m) \in InBins
           /\ MergedEnd(m) = IF Next_(m) \in InBins THEN Next_(Next_(m)) ELSE Next_(m)
           /\ MergedSize(m) = MergedEnd(m) - MergedHead(m)
           /\ MergedSize(m) \in Addr /\ MergedSize(m) >= kMinChunk
           /\ MergedEnd(m) \in Addr /\ MergedEnd(m) <= first
           /\ MergedEnd(m) \in Chunks \union {first}
           /\ MergedEnd(m) \notin InBins
           /\ \A p \in InBins : Next_(p) # MergedHead(m)
<1> DEFINE h == MergedHead(m)
           n == Next_(m)
           e == MergedEnd(m)
<1>1. m \in Chunks /\ InBins \subseteq Chunks /\ first \in Addr
  BY DEF Chunks, TypeOK
<1>2. /\ m \in Nat /\ size[m] \in Nat /\ n = m + size[m] /\ n <= first /\ n \in Addr
      /\ size[m] >= kMinChunk /\ n \in Chunks \union {first} /\ m \in Addr
  BY <1>1, ChunkFacts DEF Addr
<1>3. h = m \/ (h \in InBins /\ Next_(h) = m /\ MergesPrev(m) /\ h = Prev(m))
  BY MergePrevIsRight DEF MergedHead
<1>4. h \in Chunks /\ h \in Addr /\ h \in Nat /\ h <= m
  <2>1. h \in Chunks
    BY <1>1, <1>3
  <2>2. h \in Addr /\ h < Next_(h) /\ Next_(h) \in Addr
    BY <2>1, ChunkFacts
  <2> HIDE DEF h
  <2> QED BY <2>1, <2>2, <1>2, <1>3 DEF Addr
<1>5. SizeWithPrev(m) = n - h
  <2>1. CASE MergesPrev(m)
    <3>1. h = Prev(m) /\ h \in InBins /\ Next_(h) = m
      BY <2>1, MergePrevIsRight DEF MergedHead
    <3>2. size[h] \in Nat /\ m = h + size[h]
      BY <3>1, <1>4, ChunkFacts DEF Addr
    <3> QED BY <2>1, <3>1, <3>2, <1>2, <1>4 DEF SizeWithPrev
  <2>2. CASE ~MergesPrev(m)
    BY <2>2, <1>2 DEF SizeWithPrev, MergedHead
  <2> QED BY <2>1, <2>2
<1>6. NextOf(m) = n
  BY <1>2, <1>4, <1>5 DEF NextOf
<1>7. first \notin InBins
  <2>1. first \in Chunks => first < first
    BY <1>1, ChunkFacts DEF Addr
  <2> QED BY <1>1, <2>1 DEF Addr
<1>8. MergesNext(m) <=> n \in InBins
  <2>1. CASE n = first
    BY <2>1, <1>6, <1>7 DEF MergesNext
  <2>2. CASE n # first
    <3>1. n \in Busy \/ n \in InBins
      BY <2>2, <1>2 DEF Chunks
    <3>2. n \in Busy => IsInUse(n)
      BY DEF HeapInv, TagsTell
    <3>3. n \in InBins => ~IsInUse(n)
      BY DEF HeapInv, TagsTell
    <3> QED BY <2>2, <3>1, <3>2, <3>3, <1>6 DEF MergesNext
  <2> QED BY <2>1, <2>2
<1>9. n \in InBins => /\ size[n] \in Nat /\ Next_(n) = n + size[n] /\ Next_(n) \in Addr
                      /\ Next_(n) <= first /\ Next_(n) \in Chunks \union {first}
                      /\ Next_(n) \notin InBins
  BY <1>1, ChunkFacts DEF Addr, HeapInv, Coalesced
<1>10. e = IF n \in InBins THEN Next_(n) ELSE n
  BY <1>2, <1>4, <1>5, <1>6, <1>8, <1>9 DEF MergedEnd, MergedSize, Addr
<1>11. MergedSize(m) = e - h
  BY <1>2, <1>4, <1>5, <1>6, <1>8, <1>9 DEF MergedEnd, MergedSize, Addr
<1>12. e \in Addr /\ e <= first /\ e \in Chunks \union {first} /\ e \notin InBins /\ e >= n
  BY <1>1, <1>2, <1>9, <1>10 DEF Addr
<1>13. MergedSize(m) \in Addr /\ MergedSize(m) >= kMinChunk
  BY <1>2, <1>4, <1>11, <1>12, MinChunk, MallocAssumption DEF Addr
<1>14. \A p \in InBins : Next_(p) # h
  <2>1. CASE MergesPrev(m)
    BY <2>1, MergePrevIsRight DEF MergedHead, HeapInv, Coalesced
  <2>2. CASE ~MergesPrev(m)
    BY <2>2, MergePrevIsRight DEF MergedHead
  <2> QED BY <2>1, <2>2
<1> QED BY <1>3, <1>4, <1>6, <1>8, <1>10, <1>11, <1>12, <1>13, <1>14

LEMMA BusyIsNotFree ==
    ASSUME HeapInv, NEW c \in Busy
    PROVE  c \notin InBins
BY DEF HeapInv, OwnedOnce, Busy

(* The neighbours that were merged, and only they, leave the bins.          *)
LEMMA BinsAfterMergeIs ==
    ASSUME TypeOK, HeapInv, NEW m \in Busy
    PROVE  /\ BinsAfterMerge(m) \in [Bins -> SUBSET Addr]
           /\ \A i \in Bins : \A d : d \in BinsAfterMerge(m)[i]
                <=> d \in bins[i] /\ d # MergedHead(m) /\ d # Next_(m)
<1> DEFINE h == MergedHead(m)
           n == Next_(m)
           b == IF MergesPrev(m) THEN Remove(bins, Prev(m)) ELSE bins
<1>1. bins \in [Bins -> SUBSET Addr] /\ InBins \subseteq Chunks
  BY DEF TypeOK, Chunks
<1>2. m \notin InBins
  BY BusyIsNotFree
<1>3. \A i \in Bins : \A d \in bins[i] : d \in InBins
  BY <1>1, MembersOf DEF InBins
<1>4. b \in [Bins -> SUBSET Addr] /\ \A i \in Bins : \A d : d \in b[i] <=> d \in bins[i] /\ d # h
  <2>1. CASE MergesPrev(m)
    <3>1. h \in InBins /\ h = Prev(m)
      BY <2>1, MergePrevIsRight DEF MergedHead
    <3>2. BinIndex[size[h]] \in Bins
      BY <3>1, <1>1, ChunkFacts
    <3>3. b = [bins EXCEPT ![BinIndex[size[h]]] = @ \ {h}]
      BY <2>1, <3>1 DEF Remove
    <3>4. \A i \in Bins : h \in bins[i] => i = BinIndex[size[h]]
      BY <3>1, OnlyBin
    <3> HIDE DEF b, h
    <3> QED BY <1>1, <3>2, <3>3, <3>4, MembersWithout
  <2>2. CASE ~MergesPrev(m)
    BY <2>2, <1>1, <1>2, <1>3 DEF MergedHead
  <2> QED BY <2>1, <2>2
<1>5. CASE MergesNext(m)
  <2>1. n \in InBins /\ NextOf(m) = n
    BY <1>5, MergedBounds
  <2>2. BinIndex[size[n]] \in Bins
    BY <2>1, <1>1, ChunkFacts
  <2>3. BinsAfterMerge(m) = [b EXCEPT ![BinIndex[size[n]]] = @ \ {n}]
    BY <1>5, <2>1 DEF Remove, BinsAfterMerge
  <2>4. \A i \in Bins : n \in b[i] => i = BinIndex[size[n]]
    BY <2>1, <1>4, OnlyBin
  <2>5. /\ BinsAfterMerge(m) \in [Bins -> SUBSET Addr]
        /\ \A i \in Bins : \A d : d \in BinsAfterMerge(m)[i] <=> d \in b[i] /\ d # n
    <3> HIDE DEF b, n
    <3> QED BY <1>4, <2>2, <2>3, <2>4, MembersWithout
  <2> QED BY <2>5, <1>4
<1>6. CASE ~MergesNext(m)
  <2>1. n \notin InBins
    BY <1>6, MergedBounds
  <2>2. BinsAfterMerge(m) = b
    BY <1>6 DEF BinsAfterMerge
  <2> QED BY <2>1, <2>2, <1>3, <1>4
<1> QED BY <1>5, <1>6

(* What FreeChunk leaves behind, as sets.                                   *)
LEMMA AfterFreeChunkIs ==
    ASSUME TypeOK, HeapInv, NEW m \in Busy, FreeChunk(m)
    PROVE  /\ size' \in [Addr -> Nat] /\ pinuse' \in [Addr -> BOOLEAN]
           /\ back' \in [Addr -> Nat] /\ first' \in Addr /\ bins' \in [Bins -> SUBSET Addr]
           /\ \A x \in Addr : size'[x] = IF x = MergedHead(m) THEN MergedSize(m) ELSE size[x]
           /\ \A x \in Addr : pinuse'[x] = IF x = MergedEnd(m) THEN FALSE ELSE pinuse[x]
           /\ \A x \in Addr : back'[x] = IF x = MergedEnd(m) THEN MergedSize(m) ELSE back[x]
           /\ first' = IF MergedEnd(m) = first THEN MergedHead(m) ELSE first
           /\ \A i \in Bins : \A d : d \in bins'[i] <=>
                \/ d \in bins[i] /\ d # MergedHead(m) /\ d # Next_(m)
                \/ /\ MergedEnd(m) # first
                   /\ d = MergedHead(m) /\ i = BinIndex[MergedSize(m)]
           /\ \A d : d \in InBins' <=>
                \/ d \in InBins /\ d # MergedHead(m) /\ d # Next_(m)
                \/ MergedEnd(m) # first /\ d = MergedHead(m)
<1> DEFINE h == MergedHead(m)
           e == MergedEnd(m)
           s == MergedSize(m)
           n == Next_(m)
<1>1. /\ h \in Addr /\ e \in Addr /\ s \in Addr /\ e = h + s /\ s \in Nat
  BY MergedBounds DEF Addr
<1>2. /\ size \in [Addr -> Nat] /\ pinuse \in [Addr -> BOOLEAN] /\ back \in [Addr -> Nat]
      /\ first \in Addr
  BY DEF TypeOK
<1>3. /\ size' = [size EXCEPT ![h] = s] /\ pinuse' = [pinuse EXCEPT ![e] = FALSE]
      /\ back' = [back EXCEPT ![e] = s]
  BY <1>1 DEF FreeChunk, MarkFree
<1>4. first' = IF e = first THEN h ELSE first
  BY DEF FreeChunk
<1>5. /\ bins' \in [Bins -> SUBSET Addr]
      /\ \A i \in Bins : \A d : d \in bins'[i] <=>
                \/ d \in bins[i] /\ d # h /\ d # n
                \/ e # first /\ d = h /\ i = BinIndex[s]
  <2>1. CASE e = first
    BY <2>1, BinsAfterMergeIs DEF FreeChunk
  <2>2. CASE e # first
    <3>1. bins' = [BinsAfterMerge(m) EXCEPT ![BinIndex[s]] = @ \union {h}]
      BY <2>2 DEF FreeChunk, Add
    <3>2. BinIndex[s] \in Bins
      BY <1>1, BinIndexAssumption
    <3>3. /\ bins' \in [Bins -> SUBSET Addr]
          /\ \A i \in Bins : \A d : d \in bins'[i]
                <=> d \in BinsAfterMerge(m)[i] \/ (i = BinIndex[s] /\ d = h)
      <4> HIDE DEF h, s
      <4> QED BY <3>1, <3>2, <1>1, BinsAfterMergeIs, MembersWith
    <3> QED BY <2>2, <3>3, BinsAfterMergeIs
  <2> QED BY <2>1, <2>2
<1>6. \A d : d \in InBins' <=>
                \/ d \in InBins /\ d # h /\ d # n
                \/ e # first /\ d = h
  <2>1. bins \in [Bins -> SUBSET Addr] /\ BinIndex[s] \in Bins
    BY <1>1, BinIndexAssumption DEF TypeOK
  <2>2. \A d : d \in InBins' <=> \E i \in Bins : d \in bins'[i]
    BY <1>5, MembersOf DEF InBins, Members
  <2>3. \A d : d \in InBins <=> \E i \in Bins : d \in bins[i]
    BY <2>1, MembersOf DEF InBins
  <2> HIDE DEF h, e, s, n
  <2> QED BY <2>1, <2>2, <2>3, <1>5
<1>7. size' \in [Addr -> Nat] /\ pinuse' \in [Addr -> BOOLEAN] /\ back' \in [Addr -> Nat]
  BY <1>1, <1>2, <1>3
<1>8. /\ \A x \in Addr : size'[x] = IF x = h THEN s ELSE size[x]
      /\ \A x \in Addr : pinuse'[x] = IF x = e THEN FALSE ELSE pinuse[x]
      /\ \A x \in Addr : back'[x] = IF x = e THEN s ELSE back[x]
  <2> HIDE DEF h, e, s
  <2> QED BY <1>1, <1>2, <1>3
<1>9. first' \in Addr
  BY <1>1, <1>2, <1>4
<1> QED BY <1>4, <1>5, <1>6, <1>7, <1>8, <1>9

(* FreeChunk keeps the heap in shape.  Busy loses the freed chunk and       *)
(* nothing else; the merged chunk takes the place of up to three.           *)
LEMMA FreeChunkKeepsShape ==
    ASSUME TypeOK, HeapInv, NEW m \in Busy, FreeChunk(m), Busy' = Busy \ {m}
    PROVE  /\ Tiled' /\ HasPredecessor' /\ TagsTell' /\ Coalesced'
           /\ \A i \in Bins : \A c \in bins'[i] : BinIndex[size'[c]] = i
<1>0. PICK h, e, s, n : /\ h = MergedHead(m) /\ e = MergedEnd(m)
                        /\ s = MergedSize(m) /\ n = Next_(m)
  OBVIOUS
<1>1. /\ m \in Chunks /\ InBins \subseteq Chunks /\ Chunks \subseteq Addr
      /\ first \in Nat /\ first \notin Chunks /\ first \notin InBins
      /\ Busy \subseteq Chunks /\ \A c \in Chunks : c \in Nat /\ c < first
  <2>1. first \in Addr
    BY DEF TypeOK
  <2>2. \A c \in Chunks : c \in Addr /\ c < first /\ c \in Nat
    BY <2>1, ChunkFacts DEF Addr
  <2> QED BY <2>1, <2>2 DEF Chunks, Addr
<1>2. /\ \A c \in Busy : c \notin InBins
      /\ \A c \in Chunks : c \in Busy \/ c \in InBins
  BY BusyIsNotFree DEF Chunks
<1>3. \A c \in Chunks : /\ Next_(c) \in Nat /\ c < Next_(c) /\ Next_(c) <= first
                        /\ Next_(c) \in Chunks \union {first}
                        /\ size[c] >= kMinChunk
  BY ChunkFacts DEF Addr
<1>4. \A c, d \in Chunks : /\ c < d => Next_(c) <= d
                           /\ Next_(c) = Next_(d) => c = d
  BY EndsDiffer DEF HeapInv, Tiled
<1>5. /\ h \in Chunks /\ (h = m \/ (h \in InBins /\ Next_(h) = m)) /\ h <= m
      /\ e = IF n \in InBins THEN Next_(n) ELSE n
      /\ s = e - h /\ s >= kMinChunk /\ s \in Nat
      /\ e \in Chunks \union {first} /\ e \notin InBins /\ e \in Nat /\ e <= first
      /\ n \in Nat /\ n \in Chunks \union {first} /\ m < n /\ n <= e /\ h < e
      /\ \A p \in InBins : Next_(p) # h
  <2>1. /\ h \in Chunks /\ (h = m \/ (h \in InBins /\ Next_(h) = m))
        /\ e = IF n \in InBins THEN Next_(n) ELSE n
        /\ s = e - h /\ s >= kMinChunk /\ s \in Nat
        /\ e \in Chunks \union {first} /\ e \notin InBins /\ e \in Nat /\ e <= first
        /\ \A p \in InBins : Next_(p) # h
    BY MergedBounds, <1>0 DEF Addr
  <2>2. h <= m
    BY <2>1, <1>1, <1>3
  <2>3. n \in Nat /\ n \in Chunks \union {first} /\ m < n
    BY <1>0, <1>1, <1>3
  <2>4. n <= e
    BY <2>1, <2>3, <1>1, <1>3
  <2>5. h < e
    BY <2>2, <2>3, <2>4, <2>1, <1>1
  <2> QED BY <2>1, <2>2, <2>3, <2>4, <2>5
<1>6. /\ first' = IF e = first THEN h ELSE first
      /\ \A x \in Addr : size'[x] = IF x = h THEN s ELSE size[x]
      /\ \A x \in Addr : pinuse'[x] = IF x = e THEN FALSE ELSE pinuse[x]
      /\ \A x \in Addr : back'[x] = IF x = e THEN s ELSE back[x]
      /\ \A i \in Bins : \A d : d \in bins'[i] <=>
                \/ d \in bins[i] /\ d # h /\ d # n
                \/ /\ e # first
                   /\ d = h /\ i = BinIndex[s]
      /\ \A d : d \in InBins' <=>
                \/ d \in InBins /\ d # h /\ d # n
                \/ e # first /\ d = h
  <2>1. /\ first' = IF e = first THEN h ELSE first
        /\ \A x \in Addr : size'[x] = IF x = h THEN s ELSE size[x]
    BY AfterFreeChunkIs, <1>0
  <2>2. /\ \A x \in Addr : pinuse'[x] = IF x = e THEN FALSE ELSE pinuse[x]
        /\ \A x \in Addr : back'[x] = IF x = e THEN s ELSE back[x]
    BY AfterFreeChunkIs, <1>0
  <2>3. \A i \in Bins : \A d : d \in bins'[i] <=>
                \/ d \in bins[i] /\ d # h /\ d # n
                \/ /\ e # first
                   /\ d = h /\ i = BinIndex[s]
    <3>1. \A i \in Bins : \A d : d \in bins'[i] <=>
                \/ d \in bins[i] /\ d # MergedHead(m) /\ d # Next_(m)
                \/ /\ MergedEnd(m) # first
                   /\ d = MergedHead(m) /\ i = BinIndex[MergedSize(m)]
      BY AfterFreeChunkIs
    <3> QED BY <3>1, <1>0
  <2>4. \A d : d \in InBins' <=>
                \/ d \in InBins /\ d # h /\ d # n
                \/ e # first /\ d = h
    BY AfterFreeChunkIs, <1>0
  <2> QED BY <2>1, <2>2, <2>3, <2>4
<1>7. \A d : d \in Chunks' <=>
                \/ d \in Chunks /\ d # h /\ d # m /\ ~(d = n /\ n \in InBins)
                \/ e # first /\ d = h
  <2>1. Chunks' = Busy' \union InBins'
    BY DEF Chunks
  <2>2. \A d : d \in Chunks <=> d \in Busy \/ d \in InBins
    BY DEF Chunks
  <2> QED BY <2>1, <2>2, <1>2, <1>5, <1>6
<1>8. \A c \in Addr : Next_(c)' = IF c = h THEN h + s ELSE Next_(c)
  BY <1>6 DEF Next_
<1>9. \A c \in Chunks : Next_(c)' = IF c = h THEN e ELSE Next_(c)
  <2> QED BY <1>1, <1>5, <1>8
(* A chunk that is still there after h starts where the merged one ends, or *)
(* later.                                                                   *)
<1>10. \A c \in Chunks : (h < c /\ c # m /\ ~(c = n /\ n \in InBins)) => e <= c
  <2> SUFFICES ASSUME NEW c \in Chunks, h < c, c # m, ~(c = n /\ n \in InBins)
               PROVE  e <= c
    OBVIOUS
  <2>1. m < c
    <3>1. CASE h = m
      BY <3>1, <1>1
    <3>2. CASE h \in InBins /\ Next_(h) = m
      BY <3>2, <1>1, <1>4, <1>5
    <3> QED BY <3>1, <3>2, <1>5
  <2>2. n <= c
    BY <2>1, <1>1, <1>4, <1>0
  <2>3. CASE n \in InBins
    BY <2>2, <2>3, <1>1, <1>4, <1>5
  <2>4. CASE n \notin InBins
    BY <2>2, <2>4, <1>5
  <2> QED BY <2>3, <2>4
(* Only the merged chunks end at h's old end, at n or at e.                 *)
<1>11. \A c \in Chunks : (c # h /\ c # m /\ ~(c = n /\ n \in InBins)) =>
          /\ Next_(c) # e /\ ~(Next_(c) = n /\ n \in InBins)
          /\ Next_(c) = m => h = m
  <2> SUFFICES ASSUME NEW c \in Chunks, c # h, c # m, ~(c = n /\ n \in InBins)
               PROVE  /\ Next_(c) # e /\ ~(Next_(c) = n /\ n \in InBins)
                      /\ Next_(c) = m => h = m
    OBVIOUS
  <2>1. Next_(c) # n
    BY <1>1, <1>4, <1>0
  <2>2. Next_(c) # e
    BY <2>1, <1>1, <1>4, <1>5
  <2>3. Next_(c) = m => h = m
    BY <1>1, <1>4, <1>5
  <2> QED BY <2>1, <2>2, <2>3
<1>12. Tiled'
  <2>1. 0 \in Chunks' \union {first'}
    <3>1. 0 \in Chunks
      BY <1>1 DEF HeapInv, Tiled
    <3> QED BY <3>1, <1>1, <1>5, <1>6, <1>7
  <2>2. ASSUME NEW c \in Chunks'
        PROVE  /\ size'[c] >= kMinChunk /\ Next_(c)' <= first'
               /\ Next_(c)' \in Chunks' \union {first'}
    <3>1. CASE c = h
      <4>1. e # first /\ first' = first /\ e \in Chunks /\ e # h /\ e # m
        BY <3>1, <2>2, <1>1, <1>5, <1>6, <1>7
      <4>2. e \in Chunks'
        BY <4>1, <1>5, <1>7
      <4>3. Next_(c)' = e /\ size'[c] = s
        BY <3>1, <1>1, <1>5, <1>6, <1>9
      <4> QED BY <4>1, <4>2, <4>3, <1>5
    <3>2. CASE c # h
      <4>1. c \in Chunks /\ c # m /\ ~(c = n /\ n \in InBins)
        BY <3>2, <2>2, <1>7
      <4>2. Next_(c)' = Next_(c) /\ size'[c] = size[c]
        BY <3>2, <4>1, <1>1, <1>6, <1>9
      <4>3. /\ Next_(c) # e /\ ~(Next_(c) = n /\ n \in InBins)
            /\ Next_(c) = m => h = m
        BY <3>2, <4>1, <1>11
      <4>4. Next_(c) <= first'
        <5>1. CASE e = first
          <6>1. c < h
            BY <5>1, <3>2, <4>1, <1>1, <1>3, <1>5, <1>10
          <6> QED BY <5>1, <6>1, <4>1, <1>4, <1>5, <1>6
        <5>2. CASE e # first
          BY <5>2, <4>1, <1>3, <1>6
        <5> QED BY <5>1, <5>2
      <4>5. Next_(c) \in Chunks' \union {first'}
        <5>1. CASE Next_(c) = first
          BY <5>1, <4>3, <1>6
        <5>2. CASE Next_(c) = h
          BY <5>2, <1>5, <1>6, <1>7
        <5>3. CASE Next_(c) # first /\ Next_(c) # h
          BY <5>3, <4>1, <4>3, <1>3, <1>7
        <5> QED BY <5>1, <5>2, <5>3
      <4> QED BY <4>1, <4>2, <4>4, <4>5, <1>3
    <3> QED BY <3>1, <3>2
  <2>3. ASSUME NEW c \in Chunks', NEW d \in Chunks', c < d
        PROVE  Next_(c)' <= d
    <3>1. d \in Chunks /\ c \in Chunks
      BY <1>5, <1>7
    <3>2. CASE c = h
      <4>1. e <= d
        BY <3>1, <3>2, <2>3, <1>1, <1>7, <1>10
      <4> QED BY <4>1, <3>1, <3>2, <1>9
    <3>3. CASE c # h
      BY <3>1, <3>3, <2>3, <1>4, <1>9
    <3> QED BY <3>2, <3>3
  <2> QED BY <2>1, <2>2, <2>3 DEF Tiled
<1>13. HasPredecessor'
  <2> SUFFICES ASSUME NEW c \in Chunks' \union {first'}, c # 0
               PROVE  \E p \in Chunks' : Next_(p)' = c
    BY DEF HasPredecessor
  <2>1. c = h \/ (c # h /\ c \in Chunks \union {first})
    BY <1>6, <1>7
  <2>2. PICK p \in Chunks : Next_(p) = c
    BY <2>1, <1>5 DEF HeapInv, HasPredecessor
  <2>3. p \in Nat /\ p < c
    BY <2>2, <1>1, <1>3
  <2>4. CASE c = h
    <3>1. p # h /\ p # m /\ p # n
      BY <2>3, <2>4, <1>1, <1>5
    <3>2. p \in Chunks' /\ Next_(p)' = c
      BY <3>1, <2>2, <1>7, <1>9
    <3> QED BY <3>2
  <2>5. CASE c # h /\ c = e
    <3>1. e # first
      BY <2>5, <1>1, <1>6, <1>7
    <3>2. h \in Chunks' /\ Next_(h)' = c
      BY <3>1, <2>5, <1>5, <1>7, <1>9
    <3> QED BY <3>2
  <2>6. CASE c # h /\ c # e
    <3>1. c # m
      <4>1. CASE h = m
        BY <4>1, <2>6
      <4>2. CASE h # m
        BY <4>2, <1>1, <1>6, <1>7
      <4> QED BY <4>1, <4>2
    <3>2. ~(c = n /\ n \in InBins)
      BY <2>6, <1>1, <1>6, <1>7
    <3>3. p # h
      BY <2>2, <2>6, <3>1, <3>2, <1>4, <1>5, <1>0
    <3>4. p # m
      BY <2>2, <2>6, <3>2, <1>5, <1>0
    <3>5. ~(p = n /\ n \in InBins)
      BY <2>2, <2>6, <1>5
    <3>6. p \in Chunks' /\ Next_(p)' = c
      BY <3>3, <3>4, <3>5, <2>2, <1>7, <1>9
    <3> QED BY <3>6
  <2> QED BY <2>1, <2>4, <2>5, <2>6
<1>14. TagsTell'
  <2>1. ASSUME NEW c \in Busy'
        PROVE  pinuse'[Next_(c)']
    <3>1. c \in Busy /\ c # m /\ c # h /\ c \in Chunks /\ c \notin InBins
      BY <1>1, <1>2, <1>5
    <3>2. Next_(c)' = Next_(c) /\ Next_(c) # e /\ Next_(c) \in Addr
      BY <3>1, <1>9, <1>11, ChunkFacts
    <3>3. pinuse[Next_(c)]
      BY <3>1 DEF HeapInv, TagsTell, IsInUse
    <3> QED BY <3>2, <3>3, <1>6
  <2>2. ASSUME NEW c \in InBins'
        PROVE  ~pinuse'[Next_(c)'] /\ back'[Next_(c)'] = size'[c]
    <3>1. CASE c = h
      <4>1. Next_(c)' = e /\ e \in Addr /\ h \in Addr
        BY <3>1, <1>5, <1>9, MergedBounds, <1>0
      <4> QED BY <3>1, <4>1, <1>6
    <3>2. CASE c # h
      <4>1. c \in InBins /\ c # n /\ c \in Chunks /\ c # m /\ c \in Addr
        BY <3>2, <1>1, <1>2, <1>6
      <4>2. Next_(c)' = Next_(c) /\ Next_(c) # e /\ Next_(c) \in Addr
        BY <3>2, <4>1, <1>9, <1>11, ChunkFacts
      <4>3. ~pinuse[Next_(c)] /\ back[Next_(c)] = size[c]
        BY <4>1 DEF HeapInv, TagsTell, IsInUse
      <4> QED BY <3>2, <4>1, <4>2, <4>3, <1>6
    <3> QED BY <3>1, <3>2
  <2> QED BY <2>1, <2>2 DEF TagsTell, IsInUse
<1>15. Coalesced'
  <2> SUFFICES ASSUME NEW c \in InBins'
               PROVE  Next_(c)' \notin InBins' /\ Next_(c)' # first'
    BY DEF Coalesced
  <2>1. CASE c = h
    <3>1. e # first /\ first' = first
      BY <2>1, <1>6
    <3>2. Next_(c)' = e
      BY <2>1, <1>5, <1>9
    <3> QED BY <3>1, <3>2, <1>1, <1>5, <1>6
  <2>2. CASE c # h
    <3>1. c \in InBins /\ c \in Chunks
      BY <2>2, <1>1, <1>6
    <3>2. Next_(c) \notin InBins /\ Next_(c) # first /\ Next_(c) # h
      BY <3>1, <1>5 DEF HeapInv, Coalesced
    <3> QED BY <3>1, <3>2, <2>2, <1>6, <1>9
  <2> QED BY <2>1, <2>2
<1>16. ASSUME NEW i \in Bins, NEW c \in bins'[i]
       PROVE  BinIndex[size'[c]] = i
  <2>1. bins \in [Bins -> SUBSET Addr]
    BY DEF TypeOK
  <2>2. CASE c = h
    BY <2>2, <1>1, <1>5, <1>6, <1>16
  <2>3. CASE c # h
    BY <2>1, <2>3, <1>6, <1>16 DEF HeapInv, Binned
  <2> QED BY <2>2, <2>3
<1> QED BY <1>12, <1>13, <1>14, <1>15, <1>16

-----------------------------------------------------------------------------
(* Steps that leave every header and the back words of free chunks alone    *)
(* keep the shape, however the busy chunks change hands.                    *)
LEMMA ShapeKept ==
    ASSUME TypeOK, HeapInv, Busy' = Busy, bins' = bins, first' = first,
           \A c \in Chunks \union {first} : size'[c] = size[c] /\ pinuse'[c] = pinuse[c],
           \A c \in InBins : back'[Next_(c)] = back[Next_(c)]
    PROVE  /\ Tiled' /\ HasPredecessor' /\ TagsTell' /\ Coalesced'
           /\ \A i \in Bins : \A c \in bins'[i] : BinIndex[size'[c]] = i
           /\ Chunks' = Chunks /\ InBins' = InBins
<1>1. InBins' = InBins /\ Chunks' = Chunks /\ Busy \subseteq Chunks /\ InBins \subseteq Chunks
  BY DEF Chunks, InBins, Members
<1>2. \A c \in Chunks : Next_(c)' = Next_(c) /\ size'[c] = size[c]
  BY DEF Next_
<1>3. \A c \in Chunks : /\ Next_(c) \in Chunks \union {first}
                        /\ pinuse'[Next_(c)] = pinuse[Next_(c)]
  BY ChunkFacts
<1>4. Tiled'
  <2>1. 0 \in Chunks' \union {first'}
    BY <1>1 DEF HeapInv, Tiled
  <2>2. \A c \in Chunks' : /\ size'[c] >= kMinChunk /\ Next_(c)' <= first'
                           /\ Next_(c)' \in Chunks' \union {first'}
    BY <1>1, <1>2 DEF HeapInv, Tiled
  <2>3. \A c, d \in Chunks' : c < d => Next_(c)' <= d
    BY <1>1, <1>2 DEF HeapInv, Tiled
  <2> QED BY <2>1, <2>2, <2>3 DEF Tiled
<1>5. HasPredecessor'
  BY <1>1, <1>2 DEF HeapInv, HasPredecessor
<1>6. TagsTell'
  <2>1. \A c \in Busy' : IsInUse(c)'
    BY <1>1, <1>2, <1>3 DEF HeapInv, TagsTell, IsInUse
  <2>2. \A c \in InBins' : ~IsInUse(c)' /\ back'[Next_(c)'] = size'[c]
    BY <1>1, <1>2, <1>3 DEF HeapInv, TagsTell, IsInUse
  <2> QED BY <2>1, <2>2 DEF TagsTell
<1>7. Coalesced'
  BY <1>1, <1>2 DEF HeapInv, Coalesced
<1>8. \A i \in Bins : \A c \in bins'[i] : BinIndex[size'[c]] = i
  <2>1. \A i \in Bins : \A c \in bins[i] : c \in Chunks
    BY <1>1, MembersOf DEF InBins, TypeOK
  <2> QED BY <2>1, <1>2 DEF HeapInv, Binned
<1> QED BY <1>1, <1>4, <1>5, <1>6, <1>7, <1>8

(* The words a client may store into hold no header and no back word that   *)
(* the allocator relies on.                                                 *)
LEMMA StoresStayInside ==
    ASSUME TypeOK, HeapInv, NEW c \in Busy, NEW n \in Nat,
           n <= Bytes(size[c]) - kMetaSize
    PROVE  /\ \A x \in Chunks \union {first} : x \notin HeaderWords(c, n)
           /\ \A d \in InBins : Next_(d) \notin BackWords(c, n)
<1>1. c \in Chunks /\ InBins \subseteq Chunks /\ first \in Nat
  BY DEF Chunks, TypeOK, Addr
<1>2. /\ c \in Nat /\ size[c] \in Nat /\ Next_(c) = c + size[c]
      /\ Next_(c) <= first
  BY <1>1, ChunkFacts DEF Addr
<1>3. \A x \in Addr : x \in HeaderWords(c, n) => c < x /\ x < Next_(c)
  BY <1>2 DEF HeaderWords, Bytes, kMetaSize, kAlignment, Addr
<1>4. \A x \in Addr : x \in BackWords(c, n) => c < x /\ x <= Next_(c)
  BY <1>2 DEF BackWords, Bytes, kMetaSize, kAlignment, Addr
<1>5. ASSUME NEW x \in Chunks \union {first}
      PROVE  x \notin HeaderWords(c, n)
  <2>1. CASE x \in Chunks
    <3>1. x \in Addr /\ x \in Nat
      BY <2>1, ChunkFacts DEF Addr
    <3>2. c < x => Next_(c) <= x
      BY <1>1, <2>1 DEF HeapInv, Tiled
    <3> QED BY <3>1, <3>2, <1>2, <1>3
  <2>2. CASE x = first
    BY <2>2, <1>1, <1>2, <1>3 DEF HeaderWords
  <2> QED BY <2>1, <2>2
<1>6. ASSUME NEW d \in InBins
      PROVE  Next_(d) \notin BackWords(c, n)
  <2>1. /\ d \in Chunks /\ d # c /\ d \in Nat /\ Next_(d) \in Nat /\ d < Next_(d)
        /\ Next_(d) \in Addr
    BY <1>1, BusyIsNotFree, ChunkFacts DEF Addr
  <2>2. (d < c => Next_(d) <= c) /\ (c < d => Next_(c) <= d)
    BY <1>1, <2>1 DEF HeapInv, Tiled
  <2> QED BY <2>1, <2>2, <1>2, <1>4
<1> QED BY <1>5, <1>6

-----------------------------------------------------------------------------
(* A free chunk taken out of the bins.                                      *)
LEMMA BinsWithoutIs ==
    ASSUME TypeOK, HeapInv, NEW c \in InBins, NEW b, b = Remove(bins, c)
    PROVE  /\ b \in [Bins -> SUBSET Addr]
           /\ \A i \in Bins : \A d : d \in b[i] <=> d \in bins[i] /\ d # c
           /\ \A d : d \in Members(b) <=> d \in InBins /\ d # c
<1>1. bins \in [Bins -> SUBSET Addr] /\ BinIndex[size[c]] \in Bins
  BY ChunkFacts DEF Chunks, TypeOK
<1>2. \A i \in Bins : c \in bins[i] => i = BinIndex[size[c]]
  BY OnlyBin
<1>3. b = [bins EXCEPT ![BinIndex[size[c]]] = @ \ {c}]
  BY DEF Remove
<1>4. /\ b \in [Bins -> SUBSET Addr]
      /\ \A i \in Bins : \A d : d \in b[i] <=> d \in bins[i] /\ d # c
  BY <1>1, <1>2, <1>3, MembersWithout
<1>5. DOMAIN b = Bins /\ DOMAIN bins = Bins
  BY <1>1, <1>4
<1>6. \A d : d \in Members(b) <=> \E i \in Bins : d \in b[i]
  BY <1>5, MembersOf
<1>7. \A d : d \in InBins <=> \E i \in Bins : d \in bins[i]
  BY <1>5, MembersOf DEF InBins
<1> QED BY <1>4, <1>6, <1>7

(* Taking a free chunk whole.                                               *)
LEMMA WholeKeepsShape ==
    ASSUME TypeOK, HeapInv, NEW c \in InBins, Busy' = Busy \union {c},
           pinuse' = [pinuse EXCEPT ![Next_(c)] = TRUE], bins' = Remove(bins, c),
           size' = size, back' = back, first' = first
    PROVE  /\ Tiled' /\ HasPredecessor' /\ TagsTell' /\ Coalesced'
           /\ \A i \in Bins : \A d \in bins'[i] : BinIndex[size'[d]] = i
           /\ bins' \in [Bins -> SUBSET Addr]
           /\ \A d : d \in InBins' <=> d \in InBins /\ d # c
<1>1. /\ c \in Chunks /\ InBins \subseteq Chunks /\ bins \in [Bins -> SUBSET Addr]
      /\ BinIndex[size[c]] \in Bins /\ \A d \in Chunks : Next_(d) \in Addr
  BY ChunkFacts DEF Chunks, TypeOK
<1>2. /\ bins' \in [Bins -> SUBSET Addr]
      /\ \A i \in Bins : \A d : d \in bins'[i] <=> d \in bins[i] /\ d # c
      /\ \A d : d \in InBins' <=> d \in InBins /\ d # c
  <2>1. InBins' = Members(bins')
    BY DEF InBins, Members
  <2> QED BY <2>1, BinsWithoutIs
<1>3. Chunks' = Chunks
  BY <1>1, <1>2 DEF Chunks
<1>4. \A d : Next_(d)' = Next_(d)
  BY DEF Next_
<1>5. \A x \in Addr : pinuse'[x] = IF x = Next_(c) THEN TRUE ELSE pinuse[x]
  BY DEF TypeOK
<1>6. Tiled' /\ HasPredecessor'
  BY <1>3, <1>4 DEF HeapInv, Tiled, HasPredecessor
<1>7. TagsTell'
  <2>1. \A d \in Busy' : IsInUse(d)'
    BY <1>1, <1>4, <1>5 DEF HeapInv, TagsTell, IsInUse, Chunks
  <2>2. \A d \in InBins' : ~IsInUse(d)' /\ back'[Next_(d)'] = size'[d]
    <3>1. \A d \in InBins' : d \in InBins /\ d \in Chunks /\ Next_(d) # Next_(c)
      BY <1>1, <1>2, EndsDiffer
    <3> QED BY <3>1, <1>1, <1>4, <1>5 DEF HeapInv, TagsTell, IsInUse
  <2> QED BY <2>1, <2>2 DEF TagsTell
<1>8. Coalesced'
  BY <1>2, <1>4 DEF HeapInv, Coalesced
<1>9. \A i \in Bins : \A d \in bins'[i] : BinIndex[size'[d]] = i
  BY <1>2 DEF HeapInv, Binned
<1> QED BY <1>2, <1>6, <1>7, <1>8, <1>9

(* Splitting a free chunk: the front is taken, the rest stays free.         *)
LEMMA SplitKeepsShape ==
    ASSUME TypeOK, HeapInv, NEW c \in InBins, NEW need \in Nat, NEW rest, NEW remaining,
           need >= kMinChunk, remaining >= kMinChunk,
           rest = c + need, remaining = size[c] - need,
           Busy' = Busy \union {c},
           size' = [size EXCEPT ![c] = need, ![rest] = remaining],
           pinuse' = [pinuse EXCEPT ![Next_(c)] = FALSE, ![rest] = TRUE],
           back' = [back EXCEPT ![Next_(c)] = remaining],
           bins' = Add(Remove(bins, c), rest, remaining), first' = first
    PROVE  /\ Tiled' /\ HasPredecessor' /\ TagsTell' /\ Coalesced'
           /\ \A i \in Bins : \A d \in bins'[i] : BinIndex[size'[d]] = i
           /\ bins' \in [Bins -> SUBSET Addr]
           /\ \A d : d \in InBins' <=> (d \in InBins /\ d # c) \/ d = rest
           /\ rest \in Addr /\ remaining \in Nat /\ rest \notin Chunks
<1>0. PICK n : n = Next_(c)
  OBVIOUS
<1>1. /\ c \in Chunks /\ InBins \subseteq Chunks /\ bins \in [Bins -> SUBSET Addr]
      /\ Busy \subseteq Chunks /\ first \in Addr /\ first \in Nat
      /\ \A d \in Chunks : d \in Busy \/ d \in InBins
      /\ BinIndex[size[c]] \in Bins
  <2>1. c \in Chunks
    BY DEF Chunks
  <2>2. BinIndex[size[c]] \in Bins
    BY <2>1, ChunkFacts
  <2>3. bins \in [Bins -> SUBSET Addr] /\ first \in Addr /\ first \in Nat
    BY DEF TypeOK, Addr
  <2> QED BY <2>1, <2>2, <2>3 DEF Chunks
<1>2. \A d \in Chunks : /\ d \in Nat /\ d \in Addr /\ d < Next_(d) /\ Next_(d) <= first
                        /\ Next_(d) \in Nat /\ Next_(d) \in Addr /\ d < first
                        /\ Next_(d) \in Chunks \union {first}
                        /\ size[d] >= kMinChunk /\ Next_(d) = d + size[d]
  BY <1>1, ChunkFacts DEF Addr
<1>3. \A d, f \in Chunks : /\ d < f => Next_(d) <= f
                           /\ Next_(d) = Next_(f) => d = f
  BY EndsDiffer DEF HeapInv, Tiled
<1>4. /\ n \in Addr /\ n \in Nat /\ n = c + size[c] /\ size[c] \in Nat /\ n # first
      /\ n \in Chunks /\ n \notin InBins
  BY <1>0, <1>1, <1>2, ChunkFacts DEF HeapInv, Coalesced, Addr
<1>5. /\ rest \in Addr /\ rest \in Nat /\ c < rest /\ rest < n /\ n = rest + remaining
      /\ remaining \in Nat /\ remaining \in Addr /\ kMinChunk \in Nat /\ kMinChunk >= 2
  BY <1>1, <1>2, <1>4, MinChunk, MallocAssumption DEF Addr
<1>6. rest \notin Chunks /\ rest # first
  <2>1. n = Next_(c) /\ n <= first /\ c \in Chunks
    BY <1>0, <1>1, <1>2
  <2>2. rest \in Chunks => n <= rest
    BY <2>1, <1>3, <1>5
  <2> QED BY <2>1, <2>2, <1>1, <1>4, <1>5
<1>7. /\ bins' \in [Bins -> SUBSET Addr]
      /\ \A i \in Bins : \A d : d \in bins'[i] <=>
            (d \in bins[i] /\ d # c) \/ (i = BinIndex[remaining] /\ d = rest)
      /\ \A d : d \in InBins' <=> (d \in InBins /\ d # c) \/ d = rest
  <2>1. PICK b : b = Remove(bins, c)
    OBVIOUS
  <2>4. /\ b \in [Bins -> SUBSET Addr]
        /\ \A i \in Bins : \A d : d \in b[i] <=> d \in bins[i] /\ d # c
        /\ \A d : d \in Members(b) <=> d \in InBins /\ d # c
    BY <2>1, BinsWithoutIs
  <2>5. bins' = [b EXCEPT ![BinIndex[remaining]] = @ \union {rest}]
    BY <2>1 DEF Add
  <2>6. BinIndex[remaining] \in Bins
    BY <1>5, BinIndexAssumption
  <2>7. InBins' = Members(bins')
    BY DEF InBins, Members
  <2>8. /\ bins' \in [Bins -> SUBSET Addr]
        /\ \A i \in Bins : \A d : d \in bins'[i] <=>
                d \in b[i] \/ (i = BinIndex[remaining] /\ d = rest)
        /\ \A d : d \in Members(bins') <=> d \in Members(b) \/ d = rest
    BY <2>4, <2>5, <2>6, <1>5, MembersWith
  <2> QED BY <2>4, <2>7, <2>8
<1>8. \A d : d \in Chunks' <=> d \in Chunks \/ d = rest
  BY <1>1, <1>7 DEF Chunks
<1>9. /\ \A x \in Addr : size'[x] = IF x = rest THEN remaining ELSE IF x = c THEN need ELSE size[x]
      /\ \A x \in Addr : pinuse'[x] = IF x = rest THEN TRUE ELSE IF x = n THEN FALSE ELSE pinuse[x]
      /\ \A x \in Addr : back'[x] = IF x = n THEN remaining ELSE back[x]
  <2>1. size \in [Addr -> Nat] /\ pinuse \in [Addr -> BOOLEAN] /\ back \in [Addr -> Nat]
    BY DEF TypeOK
  <2> QED BY <2>1, <1>0, <1>1, <1>2, <1>4, <1>5
<1>10. \A d \in Addr : Next_(d)' = IF d = rest THEN n ELSE IF d = c THEN rest ELSE Next_(d)
  <2>1. ASSUME NEW d \in Addr
        PROVE  Next_(d)' = IF d = rest THEN n ELSE IF d = c THEN rest ELSE Next_(d)
    <3>1. Next_(d)' = d + size'[d] /\ Next_(d) = d + size[d]
      BY DEF Next_
    <3>2. CASE d = rest
      BY <3>1, <3>2, <1>5, <1>9
    <3>3. CASE d # rest /\ d = c
      BY <3>1, <3>3, <1>5, <1>9
    <3>4. CASE d # rest /\ d # c
      BY <3>1, <3>4, <1>9
    <3> QED BY <3>2, <3>3, <3>4
  <2> QED BY <2>1
(* What the properties below need of the chunks, new and old.               *)
<1>16. /\ c \in Addr /\ n <= first /\ Next_(c)' = rest /\ Next_(rest)' = n
       /\ size'[c] = need /\ size'[rest] = remaining
       /\ \A d \in Chunks : d # c => /\ Next_(d)' = Next_(d) /\ size'[d] = size[d]
                                     /\ d # rest /\ Next_(d) # n /\ Next_(d) # rest
  <2>1. c \in Addr /\ c # rest /\ n <= first
    BY <1>0, <1>1, <1>2, <1>6
  <2>2. Next_(c)' = rest /\ Next_(rest)' = n
    BY <2>1, <1>5, <1>10
  <2>3. size'[c] = need /\ size'[rest] = remaining
    BY <2>1, <1>5, <1>9
  <2>4. ASSUME NEW d \in Chunks, d # c
        PROVE  /\ Next_(d)' = Next_(d) /\ size'[d] = size[d]
               /\ d # rest /\ Next_(d) # n /\ Next_(d) # rest
    <3>1. d \in Addr /\ d # rest /\ Next_(d) \in Chunks \union {first}
      BY <1>2, <1>6
    <3>2. Next_(d) # n /\ Next_(d) # rest
      BY <3>1, <2>4, <1>0, <1>1, <1>3, <1>6
    <3> QED BY <3>1, <3>2, <2>4, <1>9, <1>10
  <2> QED BY <2>1, <2>2, <2>3, <2>4
<1>11. Tiled'
  <2>1. 0 \in Chunks' \union {first'}
    BY <1>8 DEF HeapInv, Tiled
  <2>2. ASSUME NEW d \in Chunks'
        PROVE  /\ size'[d] >= kMinChunk /\ Next_(d)' <= first'
               /\ Next_(d)' \in Chunks' \union {first'}
    <3>1. CASE d = c
      <4>1. rest <= first /\ rest \in Chunks' /\ first' = first
        BY <1>1, <1>4, <1>5, <1>8, <1>16
      <4>2. size'[c] >= kMinChunk /\ Next_(c)' = rest
        BY <1>16
      <4> HIDE <1>0
      <4> QED BY <4>1, <4>2, <3>1
    <3>2. CASE d = rest
      BY <3>2, <1>4, <1>8, <1>16
    <3>3. CASE d # c /\ d # rest
      <4>1. d \in Chunks
        BY <3>3, <1>8
      <4> QED BY <4>1, <3>3, <1>2, <1>8, <1>16
    <3> QED BY <3>1, <3>2, <3>3
  <2>3. ASSUME NEW d \in Chunks', NEW f \in Chunks', d < f
        PROVE  Next_(d)' <= f
    <3>0. /\ c \in Nat /\ d \in Nat /\ f \in Nat
          /\ f \in Chunks \/ f = rest
          /\ d \in Chunks \/ d = rest
      BY <1>1, <1>2, <1>5, <1>8
    <3>1. CASE d = rest
      <4>1. f \in Chunks /\ c < f
        BY <3>0, <3>1, <2>3, <1>5
      <4>2. n <= f
        BY <4>1, <1>0, <1>1, <1>3
      <4> QED BY <4>2, <3>1, <1>16
    <3>2. CASE d = c
      <4>1. CASE f = rest
        BY <4>1, <3>0, <3>2, <1>5, <1>16
      <4>2. CASE f # rest
        <5>1. f \in Chunks /\ c < f
          BY <4>2, <3>0, <3>2, <2>3
        <5>2. n <= f
          BY <5>1, <1>0, <1>1, <1>3
        <5> QED BY <5>2, <3>0, <3>2, <1>4, <1>5, <1>16
      <4> QED BY <4>1, <4>2
    <3>3. CASE d # rest /\ d # c
      <4>1. d \in Chunks /\ Next_(d)' = Next_(d) /\ Next_(d) \in Nat
        BY <3>3, <3>0, <1>2, <1>16
      <4>2. CASE f = rest
        <5>1. d < c
          <6>1. c < d => n <= d
            BY <4>1, <1>0, <1>1, <1>3
          <6> QED BY <6>1, <4>2, <3>0, <3>3, <2>3, <1>4, <1>5
        <5>2. Next_(d) <= c
          BY <5>1, <4>1, <1>1, <1>3
        <5> QED BY <5>2, <4>1, <4>2, <3>0, <1>5
      <4>3. CASE f # rest
        BY <4>1, <4>3, <3>0, <2>3, <1>3
      <4> QED BY <4>2, <4>3
    <3> QED BY <3>1, <3>2, <3>3
  <2> QED BY <2>1, <2>2, <2>3 DEF Tiled
<1>12. HasPredecessor'
  <2> SUFFICES ASSUME NEW d \in Chunks' \union {first'}, d # 0
               PROVE  \E p \in Chunks' : Next_(p)' = d
    BY DEF HasPredecessor
  <2>1. CASE d = rest
    BY <2>1, <1>1, <1>2, <1>5, <1>8, <1>10
  <2>2. CASE d = n
    BY <2>2, <1>5, <1>8, <1>10
  <2>3. CASE d # rest /\ d # n
    <3>1. PICK p \in Chunks : Next_(p) = d
      BY <2>3, <1>8 DEF HeapInv, HasPredecessor
    <3> QED BY <3>1, <2>3, <1>0, <1>2, <1>6, <1>8, <1>10
  <2> QED BY <2>1, <2>2, <2>3
<1>13. TagsTell'
  <2>1. ASSUME NEW d \in Busy'
        PROVE  pinuse'[Next_(d)']
    <3>1. CASE d = c
      BY <3>1, <1>1, <1>2, <1>5, <1>6, <1>9, <1>10
    <3>2. CASE d # c
      <4>1. d \in Busy /\ d \in Chunks /\ d # rest /\ Next_(d) # n
        BY <3>2, <1>0, <1>1, <1>3, <1>6
      <4>2. pinuse[Next_(d)] /\ Next_(d) \in Addr /\ Next_(d)' = Next_(d)
        BY <3>2, <4>1, <1>2, <1>10 DEF HeapInv, TagsTell, IsInUse
      <4> QED BY <4>1, <4>2, <1>9
    <3> QED BY <3>1, <3>2
  <2>2. ASSUME NEW d \in InBins'
        PROVE  ~pinuse'[Next_(d)'] /\ back'[Next_(d)'] = size'[d]
    <3>1. CASE d = rest
      <4>1. n # rest /\ Next_(d)' = n
        BY <3>1, <1>4, <1>5, <1>16
      <4> QED BY <4>1, <3>1, <1>4, <1>9, <1>16
    <3>2. CASE d # rest
      <4>1. d \in InBins /\ d \in Chunks /\ d # c /\ Next_(d) # n /\ Next_(d) # rest
        BY <3>2, <1>0, <1>1, <1>2, <1>3, <1>6, <1>7
      <4>2. /\ ~pinuse[Next_(d)] /\ back[Next_(d)] = size[d]
            /\ Next_(d) \in Addr /\ Next_(d)' = Next_(d) /\ d \in Addr
        BY <3>2, <4>1, <1>2, <1>10 DEF HeapInv, TagsTell, IsInUse
      <4> QED BY <3>2, <4>1, <4>2, <1>9
    <3> QED BY <3>1, <3>2
  <2> QED BY <2>1, <2>2 DEF TagsTell, IsInUse
<1>14. Coalesced'
  <2> SUFFICES ASSUME NEW d \in InBins'
               PROVE  Next_(d)' \notin InBins' /\ Next_(d)' # first'
    BY DEF Coalesced
  <2>1. CASE d = rest
    BY <2>1, <1>4, <1>5, <1>7, <1>10
  <2>2. CASE d # rest
    <3>1. d \in InBins /\ d \in Chunks /\ d # c /\ Next_(d) # rest
      BY <2>2, <1>1, <1>2, <1>6, <1>7
    <3> QED BY <2>2, <3>1, <1>2, <1>7, <1>10 DEF HeapInv, Coalesced
  <2> QED BY <2>1, <2>2
<1>15. ASSUME NEW i \in Bins, NEW d \in bins'[i]
       PROVE  BinIndex[size'[d]] = i
  <2>1. CASE d = rest
    <3>1. d \notin bins[i]
      BY <2>1, <1>1, <1>6, MembersOf DEF InBins
    <3>2. i = BinIndex[remaining]
      BY <3>1, <1>7, <1>15
    <3> QED BY <2>1, <3>2, <1>16
  <2>2. CASE d # rest
    <3>1. d \in bins[i] /\ d # c
      BY <2>2, <1>7, <1>15
    <3>2. d \in Chunks
      BY <3>1, <1>1, MembersOf DEF InBins
    <3>3. BinIndex[size[d]] = i
      BY <3>1, <1>15 DEF HeapInv, Binned
    <3>4. size'[d] = size[d]
      BY <3>1, <3>2, <1>16
    <3> QED BY <3>3, <3>4
  <2> QED BY <2>1, <2>2
<1> QED BY <1>5, <1>6, <1>7, <1>11, <1>12, <1>13, <1>14, <1>15

(* Carving a chunk from the top.                                            *)
LEMMA CarveKeepsShape ==
    ASSUME TypeOK, HeapInv, NEW need \in Nat, need >= kMinChunk,
           first + need \in Addr, Carve(need),
           bins' = bins, Busy' = Busy \union {first}
    PROVE  /\ Tiled' /\ HasPredecessor' /\ TagsTell' /\ Coalesced'
           /\ \A i \in Bins : \A d \in bins'[i] : BinIndex[size'[d]] = i
           /\ InBins' = InBins /\ first \notin Chunks
           /\ size' \in [Addr -> Nat] /\ pinuse' \in [Addr -> BOOLEAN]
           /\ size'[first] = need
           /\ \A c \in Chunks : size'[c] = size[c]
<1>0. PICK f, t : f = first /\ t = first + need
  OBVIOUS
<1>1. /\ f \in Nat /\ f \in Addr /\ t \in Addr /\ t \in Nat /\ t = f + need /\ f < t
      /\ kMinChunk \in Nat /\ kMinChunk >= 2
  BY <1>0, MinChunk DEF TypeOK, Addr
<1>2. \A d \in Chunks : /\ d \in Nat /\ d \in Addr /\ d < Next_(d) /\ Next_(d) <= f
                        /\ Next_(d) \in Nat /\ Next_(d) \in Addr /\ d < f
                        /\ Next_(d) \in Chunks \union {f}
                        /\ size[d] >= kMinChunk
  BY <1>0, <1>1, ChunkFacts DEF Addr
<1>3. f \notin Chunks /\ t \notin Chunks
  BY <1>1, <1>2
<1>4. /\ InBins' = InBins /\ first' = t
      /\ \A d : d \in Chunks' <=> d \in Chunks \/ d = f
      /\ Busy \subseteq Chunks /\ InBins \subseteq Chunks
  BY <1>0 DEF Chunks, InBins, Members, Carve
<1>5. /\ size' \in [Addr -> Nat] /\ pinuse' \in [Addr -> BOOLEAN] /\ back' = back
      /\ \A x \in Addr : size'[x] = IF x = t THEN 0 ELSE IF x = f THEN need ELSE size[x]
      /\ \A x \in Addr : pinuse'[x] = IF x = t \/ x = f THEN TRUE ELSE pinuse[x]
  <2>1. size \in [Addr -> Nat] /\ pinuse \in [Addr -> BOOLEAN]
    BY DEF TypeOK
  <2>2. /\ size' = [size EXCEPT ![f] = need, ![t] = 0]
        /\ pinuse' = [pinuse EXCEPT ![f] = TRUE, ![t] = TRUE]
        /\ back' = back
    BY <1>0 DEF Carve
  <2> QED BY <2>1, <2>2, <1>1
<1>6. \A d \in Chunks : Next_(d)' = Next_(d) /\ size'[d] = size[d]
  BY <1>2, <1>3, <1>5 DEF Next_
<1>7. Next_(f)' = t /\ size'[f] = need
  BY <1>1, <1>5 DEF Next_
<1>8. Tiled'
  <2>1. 0 \in Chunks' \union {first'}
    BY <1>0, <1>4 DEF HeapInv, Tiled
  <2>2. \A d \in Chunks' : /\ size'[d] >= kMinChunk /\ Next_(d)' <= first'
                           /\ Next_(d)' \in Chunks' \union {first'}
    BY <1>1, <1>2, <1>4, <1>6, <1>7
  <2>3. ASSUME NEW d \in Chunks', NEW g \in Chunks', d < g
        PROVE  Next_(d)' <= g
    <3>1. d \in Chunks
      BY <2>3, <1>1, <1>2, <1>4
    <3>2. CASE g = f
      BY <3>1, <3>2, <1>2, <1>6
    <3>3. CASE g # f
      BY <3>1, <3>3, <2>3, <1>4, <1>6 DEF HeapInv, Tiled
    <3> QED BY <3>2, <3>3
  <2> QED BY <2>1, <2>2, <2>3 DEF Tiled
<1>9. HasPredecessor'
  <2> SUFFICES ASSUME NEW d \in Chunks' \union {first'}, d # 0
               PROVE  \E p \in Chunks' : Next_(p)' = d
    BY DEF HasPredecessor
  <2>1. CASE d = t
    BY <2>1, <1>4, <1>7
  <2>2. CASE d # t
    <3>1. PICK p \in Chunks : Next_(p) = d
      BY <2>2, <1>0, <1>4 DEF HeapInv, HasPredecessor
    <3> QED BY <3>1, <1>4, <1>6
  <2> QED BY <2>1, <2>2
<1>10. TagsTell'
  <2>1. ASSUME NEW d \in Busy'
        PROVE  pinuse'[Next_(d)']
    <3>1. CASE d = f
      BY <3>1, <1>1, <1>5, <1>7
    <3>2. CASE d # f
      <4>1. d \in Busy /\ d \in Chunks
        BY <3>2, <1>0, <1>4
      <4>2. pinuse[Next_(d)] /\ Next_(d)' = Next_(d) /\ Next_(d) \in Addr
        BY <4>1, <1>2, <1>6 DEF HeapInv, TagsTell, IsInUse
      <4> QED BY <4>2, <1>5
    <3> QED BY <3>1, <3>2
  <2>2. ASSUME NEW d \in InBins'
        PROVE  ~pinuse'[Next_(d)'] /\ back'[Next_(d)'] = size'[d]
    <3>1. d \in InBins /\ d \in Chunks /\ Next_(d) # f /\ Next_(d) # t
      BY <1>0, <1>1, <1>2, <1>4 DEF HeapInv, Coalesced
    <3>2. ~pinuse[Next_(d)] /\ back[Next_(d)] = size[d]
      BY <3>1 DEF HeapInv, TagsTell, IsInUse
    <3> QED BY <3>1, <3>2, <1>2, <1>5, <1>6
  <2> QED BY <2>1, <2>2 DEF TagsTell, IsInUse
<1>11. Coalesced'
  <2>1. \A d \in InBins : Next_(d) \notin InBins /\ Next_(d) # t
    BY <1>1, <1>2, <1>4 DEF HeapInv, Coalesced
  <2> QED BY <2>1, <1>4, <1>6 DEF Coalesced
<1>12. \A i \in Bins : \A d \in bins'[i] : BinIndex[size'[d]] = i
  <2>1. \A i \in Bins : \A d \in bins[i] : d \in Chunks
    BY <1>4, MembersOf DEF InBins, TypeOK
  <2> QED BY <2>1, <1>6 DEF HeapInv, Binned
<1> QED BY <1>0, <1>3, <1>4, <1>5, <1>6, <1>7, <1>8, <1>9, <1>10, <1>11, <1>12

-----------------------------------------------------------------------------
(* The steps.  A step that moves chunks between hands but leaves memory, the *)
(* ordinary bins and the top alone keeps the shape of the heap.             *)
LEMMA QuietShape ==
    ASSUME TypeOK, HeapInv, Busy' = Busy, UNCHANGED <<memory, bins, first>>
    PROVE  /\ Tiled' /\ HasPredecessor' /\ TagsTell' /\ Coalesced'
           /\ \A i \in Bins : \A c \in bins'[i] : BinIndex[size'[c]] = i
           /\ Chunks' = Chunks /\ InBins' = InBins
<1>1. size' = size /\ pinuse' = pinuse /\ back' = back /\ bins' = bins /\ first' = first
  BY DEF memory
<1> QED BY <1>1, ShapeKept

(* The same for the whole heap, when nothing changes hands either.          *)
LEMMA HeapInvKept ==
    ASSUME HeapInv, UNCHANGED <<memory, fast, bins, pending, first, live, held>>
    PROVE  HeapInv'
<1>1. /\ size' = size /\ pinuse' = pinuse /\ back' = back /\ first' = first
      /\ fast' = fast /\ bins' = bins /\ pending' = pending /\ live' = live /\ held' = held
  BY DEF memory
<1>2. InBins' = InBins /\ Members(fast)' = Members(fast)
  BY <1>1 DEF InBins, Members
<1>3. Busy' = Busy /\ Chunks' = Chunks
  BY <1>1, <1>2 DEF Busy, Chunks
<1>4. \A c : Next_(c)' = Next_(c)
  BY <1>1 DEF Next_
<1>5. Tiled' /\ HasPredecessor'
  BY <1>1, <1>3, <1>4 DEF HeapInv, Tiled, HasPredecessor
<1>6. OwnedOnce' /\ Coalesced' /\ Binned'
  BY <1>1, <1>2, <1>4 DEF HeapInv, OwnedOnce, Coalesced, Binned
<1>7. TagsTell'
  BY <1>1, <1>2, <1>3, <1>4 DEF HeapInv, TagsTell, IsInUse
<1> QED BY <1>5, <1>6, <1>7 DEF HeapInv

LEMMA BusyParts ==
    ASSUME TypeOK
    PROVE  /\ live \subseteq Busy /\ held \subseteq Busy /\ pending \subseteq Busy
           /\ Members(fast) \subseteq Busy /\ Busy \subseteq Addr
           /\ Busy \subseteq Chunks /\ InBins \subseteq Chunks /\ Chunks \subseteq Addr
<1>1. Members(fast) \subseteq Addr /\ InBins \subseteq Addr
  BY MembersOf DEF TypeOK, InBins
<1> QED BY <1>1 DEF TypeOK, Busy, Chunks

LEMMA NoCallType ==
    /\ NoCall \in [op : Ops, bytes : Nat, need : Nat, old : Addr \union {Null}]
    /\ [NoCall EXCEPT !.op = "free"]
          \in [op : Ops, bytes : Nat, need : Nat, old : Addr \union {Null}]
BY DEF NoCall, Ops

(* No chunk is at Null.                                                     *)
LEMMA NullIsNowhere == Null \notin Addr
BY MallocAssumption DEF Addr

(* ExtractAll moves the fast bins, as they are, into the chain.             *)
LEMMA ExtractAllMoves ==
    ASSUME TypeOK, ExtractAll
    PROVE  /\ fast' \in [FastBins -> SUBSET Addr] /\ pending' \in SUBSET Addr
           /\ Members(fast)' = {} /\ pending' = Members(fast)
           /\ \A i \in FastBins : \A c \in fast'[i] : BinIndex[size'[c]] = i
<1>1. fast' = [i \in FastBins |-> {}] /\ pending' = Members(fast)
  BY DEF ExtractAll
<1>2. Members(fast)' = {}
  BY <1>1 DEF Members
<1> QED BY <1>1, <1>2, BusyParts

(* A fast chunk taken out, and one put in.                                  *)
LEMMA FastWithoutIs ==
    ASSUME TypeOK, HeapInv, NEW c \in Members(fast), fast' = Remove(fast, c)
    PROVE  /\ fast' \in [FastBins -> SUBSET Addr]
           /\ \A i \in FastBins : \A d : d \in fast'[i] <=> d \in fast[i] /\ d # c
           /\ \A d : d \in Members(fast)' <=> d \in Members(fast) /\ d # c
<1>1. fast \in [FastBins -> SUBSET Addr]
  BY DEF TypeOK
<1>2. PICK k \in FastBins : c \in fast[k]
  BY <1>1, MembersOf
<1>3. \A i \in FastBins : c \in fast[i] => i = k
  BY <1>2 DEF HeapInv, Binned
<1>4. fast' = [fast EXCEPT ![k] = @ \ {c}]
  BY <1>2 DEF Remove, HeapInv, Binned
<1>5. /\ fast' \in [FastBins -> SUBSET Addr]
      /\ \A i \in FastBins : \A d : d \in fast'[i] <=> d \in fast[i] /\ d # c
  BY <1>1, <1>3, <1>4, MembersWithout
<1>6. \A d : d \in Members(fast)' <=> \E i \in FastBins : d \in fast'[i]
  BY <1>5 DEF Members
<1>7. \A d : d \in Members(fast) <=> \E i \in FastBins : d \in fast[i]
  BY <1>1 DEF Members
<1> QED BY <1>5, <1>6, <1>7

LEMMA FastWithIs ==
    ASSUME TypeOK, HeapInv, NEW c \in Busy, Bytes(size[c]) <= kFastMax,
           fast' = Add(fast, c, size[c]), size' = size
    PROVE  /\ fast' \in [FastBins -> SUBSET Addr]
           /\ \A i \in FastBins : \A d \in fast'[i] : BinIndex[size'[d]] = i
           /\ \A d : d \in Members(fast)' <=> d \in Members(fast) \/ d = c
<1>0. PICK k : k = BinIndex[size[c]]
  OBVIOUS
<1>1. fast \in [FastBins -> SUBSET Addr] /\ c \in Addr
  BY BusyParts DEF TypeOK
<1>2. k \in FastBins
  <2>1. size[c] \in Addr
    BY BusyParts, ChunkFacts
  <2> QED BY <1>0, <2>1, BinIndexAssumption
<1>4. fast' = [fast EXCEPT ![k] = @ \union {c}]
  BY <1>0 DEF Add
<1>5. /\ fast' \in [FastBins -> SUBSET Addr]
      /\ \A i \in FastBins : \A d : d \in fast'[i] <=> d \in fast[i] \/ (i = k /\ d = c)
  BY <1>1, <1>2, <1>4, MembersWith
<1>6. \A d : d \in Members(fast)' <=> \E i \in FastBins : d \in fast'[i]
  BY <1>5 DEF Members
<1>7. \A d : d \in Members(fast) <=> \E i \in FastBins : d \in fast[i]
  BY <1>1 DEF Members
<1>8. \A i \in FastBins : \A d \in fast'[i] : BinIndex[size'[d]] = i
  BY <1>0, <1>5 DEF HeapInv, Binned
<1> QED BY <1>2, <1>5, <1>6, <1>7, <1>8

-----------------------------------------------------------------------------
(* The steps of the running call that touch neither memory nor lists.       *)
LEMMA ConsolidateDoneKeeps ==
    ASSUME IInv, ConsolidateDone
    PROVE  IInv'
<1>1. /\ UNCHANGED <<memory, lists, heap, client, held, call>>
      /\ pc = "consolidate" /\ pending = {}
      /\ pc' = IF held = {} THEN "bins" ELSE "release"
  BY DEF ConsolidateDone
<1>2. HeapInv'
  BY <1>1, HeapInvKept DEF IInv, lists, heap, client
<1>3. TypeOK'
  BY <1>1 DEF IInv, TypeOK, memory, lists, heap, client
<1>4. TopInSegment' /\ (~ready => first = 0)' /\ RoomForRequest'
  BY <1>1 DEF IInv, TopInSegment, RoomForRequest, memory, heap, client
<1>5. Allocating' <=> Allocating
  BY <1>1 DEF Allocating, memory, client
<1>6. CallInOrder'
  BY <1>1, <1>5 DEF IInv, CallInOrder, lists
<1> QED BY <1>2, <1>3, <1>4, <1>6 DEF IInv

LEMMA BinsHaveNothingKeeps ==
    ASSUME IInv, BinsHaveNothing
    PROVE  IInv'
<1>1. /\ UNCHANGED <<memory, lists, heap, client, held, call>>
      /\ pc = "bins" /\ pc' = "top"
  BY DEF BinsHaveNothing
<1>2. HeapInv'
  BY <1>1, HeapInvKept DEF IInv, lists, heap, client
<1>3. TypeOK'
  BY <1>1 DEF IInv, TypeOK, memory, lists, heap, client
<1>4. TopInSegment' /\ (~ready => first = 0)' /\ RoomForRequest'
  BY <1>1 DEF IInv, TopInSegment, RoomForRequest, memory, heap, client
<1>5. Allocating' <=> Allocating
  BY <1>1 DEF Allocating, memory, client
<1>6. CallInOrder'
  BY <1>1, <1>5 DEF IInv, CallInOrder, lists
<1> QED BY <1>2, <1>3, <1>4, <1>6 DEF IInv

(* The first segment has room for its whole granules, and the top never     *)
(* passes the end of the heap.                                              *)
LEMMA EndOfHeapIs ==
    ASSUME IInv, SbrkCan
    PROVE  /\ EndOfHeap \in Addr /\ first <= EndOfHeap
           /\ kBrk \in Nat /\ kBrkSize = Bytes(kBrk)
<1>1. kBrk \in Nat /\ kBrkSize = 16 * kBrk /\ kBrk >= 2
  BY MallocAssumption, SizesAssumption DEF kBrk, kAlignment
<1>2. first \in Nat /\ last \in Nat /\ kHeapLimit \in Nat
  BY MallocAssumption DEF IInv, TypeOK, Addr
<1> QED BY <1>1, <1>2
        DEF IInv, TopInSegment, EndOfHeap, SbrkCan, Bytes, kAlignment, Addr

LEMMA HeapFailsKeeps ==
    ASSUME IInv, HeapFails
    PROVE  IInv'
<1>1. /\ UNCHANGED <<memory, lists, first, client, held, call>>
      /\ pc = "top" /\ pc' = "return"
  BY DEF HeapFails
<1>2. HeapInv'
  BY <1>1, HeapInvKept DEF IInv, lists, client
<1>3. /\ last' \in Addr /\ ready' \in BOOLEAN /\ first <= last' /\ last' <= kHeapLimit
      /\ ~ready' => first = 0
  <2>1. CASE ~ready /\ UNCHANGED <<last, ready>>
    BY <2>1 DEF IInv, TypeOK, TopInSegment
  <2>2. CASE SbrkCan /\ ready' = TRUE /\ last' = EndOfHeap
    <3>1. EndOfHeap <= kHeapLimit
      BY <2>2, EndOfHeapIs DEF Addr
    <3> QED BY <2>2, <3>1, EndOfHeapIs
  <2> QED BY <2>1, <2>2 DEF HeapFails
<1>4. TypeOK'
  BY <1>1, <1>3 DEF IInv, TypeOK, memory, lists, client
<1>5. TopInSegment' /\ (~ready => first = 0)' /\ RoomForRequest'
  BY <1>1, <1>3 DEF IInv, TopInSegment, RoomForRequest, memory, client
<1>6. Allocating' <=> Allocating
  BY <1>1 DEF Allocating, memory, client
<1>7. CallInOrder'
  BY <1>1, <1>6 DEF IInv, CallInOrder, lists
<1> QED BY <1>2, <1>4, <1>5, <1>7 DEF IInv

(* The steps that end a call and change nothing else.                       *)
LEMMA EndsQuietly ==
    ASSUME IInv, UNCHANGED <<memory, lists, heap, live, asked, held>>,
           mapped' \in [Regions -> Nat], held = {}, pending = {}, EndCall
    PROVE  IInv'
<1>1. HeapInv'
  BY HeapInvKept DEF IInv, lists, heap
<1>2. TypeOK'
  BY NoCallType DEF IInv, TypeOK, memory, lists, heap, EndCall
<1>3. TopInSegment' /\ (~ready => first = 0)' /\ RoomForRequest'
  BY DEF IInv, TopInSegment, RoomForRequest, memory, heap
<1>4. CallInOrder'
  BY DEF IInv, CallInOrder, lists, EndCall
<1> QED BY <1>1, <1>2, <1>3, <1>4 DEF IInv

LEMMA ReturnNullKeeps ==
    ASSUME IInv, ReturnNull
    PROVE  IInv'
<1>1. pending = {} /\ mapped' \in [Regions -> Nat]
  BY DEF ReturnNull, IInv, CallInOrder, TypeOK, client
<1> QED BY <1>1, EndsQuietly DEF ReturnNull, client

(* ReportError: nothing but the program counter changes.                    *)
LEMMA AbortKeeps ==
    ASSUME IInv, pc # "consolidate", Abort
    PROVE  IInv'
<1>1. HeapInv'
  BY HeapInvKept DEF IInv, Abort, lists, heap, client
<1>2. TypeOK'
  BY DEF IInv, TypeOK, memory, lists, heap, client, Abort
<1>3. TopInSegment' /\ (~ready => first = 0)' /\ RoomForRequest'
  BY DEF IInv, TopInSegment, RoomForRequest, memory, heap, client, Abort
<1>4. CallInOrder'
  BY DEF IInv, CallInOrder, lists, Abort
<1> QED BY <1>1, <1>2, <1>3, <1>4 DEF IInv

(* A chunk in use passes the checks of free.                                *)
LEMMA FreeNeverAborts ==
    ASSUME IInv
    PROVE  ~FreeAborts
<1>1. \A c \in held : IsValid(c) /\ IsInUse(c)
  BY BusyParts, FreeIsValid DEF IInv, HeapInv, TagsTell
<1> QED BY <1>1 DEF FreeAborts

-----------------------------------------------------------------------------
(* free: the three ways its checks end.                                     *)
LEMMA FreeChecksKeeps ==
    ASSUME IInv, pc = "free", FreeChecks
    PROVE  IInv'
<1>1. PICK c \in held :
         \/ /\ ExtractAll /\ pc' = "consolidate"
            /\ UNCHANGED <<held, call>>
         \/ /\ Bytes(size[c]) <= kFastMax
            /\ fast' = Add(fast, c, size[c])
            /\ held' = {} /\ EndCall
            /\ UNCHANGED pending
         \/ /\ pc' = "release"
            /\ UNCHANGED <<fast, pending, held, call>>
  BY DEF FreeChecks
<1>2. /\ pc = "free" /\ UNCHANGED <<memory, bins, heap, client>>
      /\ size' = size /\ bins' = bins /\ first' = first /\ live' = live
  BY DEF FreeChecks, memory, heap, client
<1>3. /\ held = {c} /\ pending = {} /\ c \in Busy /\ TypeOK /\ HeapInv
  BY <1>1, <1>2, BusyParts DEF IInv, CallInOrder
<1>4. TopInSegment' /\ (~ready => first = 0)' /\ RoomForRequest'
  BY <1>2 DEF IInv, TopInSegment, RoomForRequest, heap, client
<1>5. CASE ExtractAll /\ pc' = "consolidate" /\ UNCHANGED <<held, call>>
  <2>1. /\ Members(fast)' = {} /\ pending' = Members(fast) /\ pending' \in SUBSET Addr
        /\ fast' \in [FastBins -> SUBSET Addr]
        /\ \A i \in FastBins : \A d \in fast'[i] : BinIndex[size'[d]] = i
    BY <1>3, <1>5, ExtractAllMoves
  <2>2. Busy' = Busy
    BY <1>2, <1>3, <1>5, <2>1 DEF Busy
  <2>3. /\ Tiled' /\ HasPredecessor' /\ TagsTell' /\ Coalesced' /\ InBins' = InBins
        /\ \A i \in Bins : \A d \in bins'[i] : BinIndex[size'[d]] = i
    BY <2>2, <1>2, <1>3, QuietShape
  <2>4. OwnedOnce'
    BY <2>1, <2>3, <1>2, <1>3, <1>5 DEF HeapInv, OwnedOnce
  <2>5. HeapInv'
    BY <2>1, <2>3, <2>4 DEF HeapInv, Binned
  <2>6. TypeOK'
    BY <2>1, <1>2, <1>3, <1>5 DEF TypeOK, memory, heap, client
  <2>7. CallInOrder'
    BY <1>3, <1>5 DEF CallInOrder
  <2> QED BY <2>5, <2>6, <2>7, <1>4 DEF IInv
<1>6. CASE /\ Bytes(size[c]) <= kFastMax
           /\ fast' = Add(fast, c, size[c])
           /\ held' = {} /\ EndCall
           /\ UNCHANGED pending
  <2>1. /\ fast' \in [FastBins -> SUBSET Addr]
        /\ \A i \in FastBins : \A d \in fast'[i] : BinIndex[size'[d]] = i
        /\ \A d : d \in Members(fast)' <=> d \in Members(fast) \/ d = c
    BY <1>2, <1>3, <1>6, FastWithIs
  <2>2. Busy' = Busy
    BY <1>2, <1>3, <1>6, <2>1 DEF Busy
  <2>3. /\ Tiled' /\ HasPredecessor' /\ TagsTell' /\ Coalesced' /\ InBins' = InBins
        /\ \A i \in Bins : \A d \in bins'[i] : BinIndex[size'[d]] = i
    BY <2>2, <1>2, <1>3, QuietShape
  <2>4. OwnedOnce'
    BY <2>1, <2>3, <1>2, <1>3, <1>6 DEF HeapInv, OwnedOnce
  <2>5. HeapInv'
    BY <2>1, <2>3, <2>4 DEF HeapInv, Binned
  <2>6. TypeOK'
    BY <2>1, <1>2, <1>3, <1>6, NoCallType DEF TypeOK, memory, heap, client, EndCall
  <2>7. CallInOrder'
    BY <1>3, <1>6 DEF CallInOrder, EndCall
  <2> QED BY <2>5, <2>6, <2>7, <1>4 DEF IInv
<1>7. CASE pc' = "release" /\ UNCHANGED <<fast, pending, held, call>>
  <2>1. HeapInv'
    BY <1>2, <1>3, <1>7, HeapInvKept
  <2>2. TypeOK'
    BY <1>2, <1>3, <1>7 DEF TypeOK, memory, heap, client
  <2>3. CallInOrder'
    BY <1>3, <1>7 DEF CallInOrder
  <2> QED BY <2>1, <2>2, <2>3, <1>4 DEF IInv
<1> QED BY <1>1, <1>5, <1>6, <1>7

-----------------------------------------------------------------------------
(* What FreeChunk leaves to the others: no other busy chunk is resized, and *)
(* of the bins only the freed chunk itself is a new member.                 *)
LEMMA FreeChunkSparesOthers ==
    ASSUME TypeOK, HeapInv, TopInSegment, NEW m \in Busy, FreeChunk(m)
    PROVE  /\ \A x \in Busy : x # m => size'[x] = size[x]
           /\ InBins' \subseteq InBins \union {m}
           /\ first' <= first /\ first' \in Addr
           /\ size' \in [Addr -> Nat] /\ pinuse' \in [Addr -> BOOLEAN]
           /\ back' \in [Addr -> Nat] /\ bins' \in [Bins -> SUBSET Addr]
<1>0. PICK h, e : h = MergedHead(m) /\ e = MergedEnd(m)
  OBVIOUS
<1>1. /\ h = m \/ h \in InBins
      /\ h \in Chunks /\ e <= first /\ e \in Addr
  BY <1>0, MergedBounds
<1>2. /\ size' \in [Addr -> Nat] /\ pinuse' \in [Addr -> BOOLEAN]
      /\ back' \in [Addr -> Nat] /\ first' \in Addr /\ bins' \in [Bins -> SUBSET Addr]
      /\ first' = IF e = first THEN h ELSE first
      /\ \A x \in Addr : x # h => size'[x] = size[x]
  BY <1>0, AfterFreeChunkIs
<1>3. \A d \in InBins' : d \in InBins \/ d = h
  BY <1>0, AfterFreeChunkIs
<1>4. \A x \in Busy : x # m => size'[x] = size[x]
  BY <1>1, <1>2, BusyIsNotFree, BusyParts
<1>5. first' <= first
  <2>1. h \in Addr /\ h < Next_(h) /\ Next_(h) \in Addr /\ Next_(h) <= first
    BY <1>1, ChunkFacts
  <2>2. first \in Addr
    BY DEF TypeOK
  <2> QED BY <2>1, <2>2, <1>2 DEF Addr
<1> QED BY <1>1, <1>2, <1>3, <1>4, <1>5

LEMMA FirstStaysInSegment ==
    ASSUME TypeOK, TopInSegment, ~ready => first = 0,
           first' \in Addr, first' <= first, UNCHANGED <<last, ready>>
    PROVE  TopInSegment' /\ (~ready => first = 0)'
BY DEF TypeOK, TopInSegment, Addr

LEMMA ConsolidateOneKeeps ==
    ASSUME IInv, ConsolidateOne
    PROVE  IInv'
<1>1. /\ pc = "consolidate" /\ pc' = "consolidate"
      /\ UNCHANGED <<fast, last, ready, live, asked, mapped, held, call>>
  BY DEF ConsolidateOne, client
<1>2. PICK m \in pending : FreeChunk(m) /\ pending' = pending \ {m}
  BY DEF ConsolidateOne
<1>3. /\ TypeOK /\ HeapInv /\ TopInSegment /\ m \in Busy
      /\ m \notin live /\ m \notin held /\ m \notin Members(fast) /\ m \notin InBins
  BY <1>2, BusyParts DEF IInv, HeapInv, OwnedOnce
<1>4. Members(fast)' = Members(fast) /\ Busy' = Busy \ {m}
  BY <1>1, <1>2, <1>3 DEF Busy, Members
<1>5. /\ Tiled' /\ HasPredecessor' /\ TagsTell' /\ Coalesced'
      /\ \A i \in Bins : \A c \in bins'[i] : BinIndex[size'[c]] = i
  BY <1>2, <1>3, <1>4, FreeChunkKeepsShape
<1>6. /\ \A x \in Busy : x # m => size'[x] = size[x]
      /\ InBins' \subseteq InBins \union {m}
      /\ first' <= first /\ first' \in Addr
      /\ size' \in [Addr -> Nat] /\ pinuse' \in [Addr -> BOOLEAN]
      /\ back' \in [Addr -> Nat] /\ bins' \in [Bins -> SUBSET Addr]
  BY <1>2, <1>3, FreeChunkSparesOthers
<1>7. TypeOK'
  BY <1>1, <1>2, <1>3, <1>6 DEF TypeOK
<1>8. OwnedOnce'
  BY <1>1, <1>2, <1>3, <1>4, <1>6 DEF HeapInv, OwnedOnce
<1>9. Binned'
  <2>1. \A i \in FastBins : \A c \in fast[i] : c \in Members(fast)
    BY <1>3, MembersOf DEF TypeOK
  <2>2. \A i \in FastBins : \A c \in fast'[i] : BinIndex[size'[c]] = i
    BY <1>1, <1>3, <1>6, <2>1, BusyParts DEF HeapInv, Binned
  <2> QED BY <2>2, <1>5 DEF Binned
<1>10. TopInSegment' /\ (~ready => first = 0)'
  BY <1>1, <1>3, <1>6, FirstStaysInSegment DEF IInv
<1>11. RoomForRequest'
  BY <1>1, <1>3, <1>6, BusyParts DEF IInv, RoomForRequest
<1>12. Allocating => Allocating'
  BY <1>1, <1>3, <1>6, BusyParts DEF Allocating
<1>13. CallInOrder'
  BY <1>1, <1>12 DEF IInv, CallInOrder
<1> QED BY <1>5, <1>7, <1>8, <1>9, <1>10, <1>11, <1>13 DEF IInv, HeapInv

LEMMA ReleaseKeeps ==
    ASSUME IInv, Release
    PROVE  IInv'
<1>1. /\ pc = "release" /\ held' = {} /\ EndCall
      /\ UNCHANGED <<fast, pending, last, ready, live, asked, mapped>>
  BY DEF Release, client
<1>2. PICK m \in held : FreeChunk(m)
  BY DEF Release
<1>3. /\ TypeOK /\ HeapInv /\ TopInSegment /\ m \in Busy /\ held = {m} /\ pending = {}
      /\ m \notin live /\ m \notin pending /\ m \notin Members(fast) /\ m \notin InBins
  BY <1>1, <1>2, BusyParts DEF IInv, HeapInv, OwnedOnce, CallInOrder
<1>4. Members(fast)' = Members(fast) /\ Busy' = Busy \ {m}
  BY <1>1, <1>2, <1>3 DEF Busy, Members
<1>5. /\ Tiled' /\ HasPredecessor' /\ TagsTell' /\ Coalesced'
      /\ \A i \in Bins : \A c \in bins'[i] : BinIndex[size'[c]] = i
  BY <1>2, <1>3, <1>4, FreeChunkKeepsShape
<1>6. /\ \A x \in Busy : x # m => size'[x] = size[x]
      /\ InBins' \subseteq InBins \union {m}
      /\ first' <= first /\ first' \in Addr
      /\ size' \in [Addr -> Nat] /\ pinuse' \in [Addr -> BOOLEAN]
      /\ back' \in [Addr -> Nat] /\ bins' \in [Bins -> SUBSET Addr]
  BY <1>2, <1>3, FreeChunkSparesOthers
<1>7. TypeOK'
  BY <1>1, <1>3, <1>6, NoCallType DEF TypeOK, EndCall
<1>8. OwnedOnce'
  BY <1>1, <1>3, <1>4, <1>6 DEF HeapInv, OwnedOnce
<1>9. Binned'
  <2>1. \A i \in FastBins : \A c \in fast[i] : c \in Members(fast)
    BY <1>3, MembersOf DEF TypeOK
  <2>2. \A i \in FastBins : \A c \in fast'[i] : BinIndex[size'[c]] = i
    BY <1>1, <1>3, <1>6, <2>1, BusyParts DEF HeapInv, Binned
  <2> QED BY <2>2, <1>5 DEF Binned
<1>10. TopInSegment' /\ (~ready => first = 0)'
  BY <1>1, <1>3, <1>6, FirstStaysInSegment DEF IInv
<1>11. RoomForRequest'
  BY <1>1, <1>3, <1>6, BusyParts DEF IInv, RoomForRequest
<1>12. CallInOrder'
  BY <1>1, <1>3 DEF CallInOrder, EndCall
<1> QED BY <1>5, <1>7, <1>8, <1>9, <1>10, <1>11, <1>12 DEF IInv, HeapInv

-----------------------------------------------------------------------------
(* AllocateFromBins: the chunk it takes was in the bins and nowhere else.   *)
LEMMA AllocateFromBinsKeeps ==
    ASSUME IInv, AllocateFromBins
    PROVE  IInv'
<1>1. /\ pc = "bins" /\ pc' = "return"
      /\ UNCHANGED <<fast, pending, first, last, ready, live, asked, mapped, call>>
  BY DEF AllocateFromBins, heap, client
<1>2. PICK c \in InBins :
         LET need == call.need
             remaining == size[c] - need
             rest == c + need
         IN  /\ Finds(bins, need, c)
             /\ \/ /\ remaining >= kMinChunk
                   /\ size' = [size EXCEPT ![c] = need, ![rest] = remaining]
                   /\ pinuse' = [pinuse EXCEPT ![Next_(c)] = FALSE, ![rest] = TRUE]
                   /\ back' = [back EXCEPT ![Next_(c)] = remaining]
                   /\ bins' = Add(Remove(bins, c), rest, remaining)
                \/ /\ remaining < kMinChunk
                   /\ pinuse' = [pinuse EXCEPT ![Next_(c)] = TRUE]
                   /\ bins' = Remove(bins, c)
                   /\ UNCHANGED <<size, back>>
             /\ held' = {c}
  BY DEF AllocateFromBins, InBins
<1>3. /\ TypeOK /\ HeapInv /\ held = {} /\ pending = {} /\ Allocating
      /\ c \notin live /\ c \notin Members(fast) /\ c \notin Busy
      /\ held' = {c} /\ Members(fast)' = Members(fast)
  BY <1>1, <1>2, BusyIsNotFree, BusyParts DEF IInv, CallInOrder, Members
<1>4. Busy' = Busy \union {c}
  BY <1>1, <1>2, <1>3 DEF Busy, Members
<1>5. /\ call.need \in Nat /\ call.need >= kMinChunk
      /\ kMinChunk \in Nat
  BY <1>3, ChunkSizeFits, MinChunk DEF Allocating
<1>6. /\ c \in Chunks /\ c \in Addr /\ size[c] \in Nat
      /\ size \in [Addr -> Nat] /\ pinuse \in [Addr -> BOOLEAN] /\ back \in [Addr -> Nat]
      /\ Next_(c) \in Addr
  <2>1. c \in Chunks /\ c \in Addr
    BY <1>3, BusyParts
  <2> QED BY <2>1, <1>3, ChunkFacts DEF TypeOK, Addr
<1>7. Suits(c, call.need)
  BY <1>2 DEF Finds
<1>8. /\ Tiled' /\ HasPredecessor' /\ TagsTell' /\ Coalesced'
      /\ \A i \in Bins : \A d \in bins'[i] : BinIndex[size'[d]] = i
      /\ bins' \in [Bins -> SUBSET Addr]
      /\ size' \in [Addr -> Nat] /\ pinuse' \in [Addr -> BOOLEAN] /\ back' \in [Addr -> Nat]
      /\ \A d \in InBins' : d \notin Busy /\ d # c
      /\ \A d \in Busy : size'[d] = size[d]
      /\ size'[c] >= call.need
  <2>1. CASE size[c] - call.need >= kMinChunk
    <3>1. PICK rest, remaining : rest = c + call.need /\ remaining = size[c] - call.need
      OBVIOUS
    <3>2. /\ remaining >= kMinChunk
          /\ size' = [size EXCEPT ![c] = call.need, ![rest] = remaining]
          /\ pinuse' = [pinuse EXCEPT ![Next_(c)] = FALSE, ![rest] = TRUE]
          /\ back' = [back EXCEPT ![Next_(c)] = remaining]
          /\ bins' = Add(Remove(bins, c), rest, remaining)
      BY <1>2, <1>5, <1>6, <2>1, <3>1
    <3>3. /\ Tiled' /\ HasPredecessor' /\ TagsTell' /\ Coalesced'
          /\ \A i \in Bins : \A d \in bins'[i] : BinIndex[size'[d]] = i
          /\ bins' \in [Bins -> SUBSET Addr]
          /\ \A d : d \in InBins' <=> (d \in InBins /\ d # c) \/ d = rest
          /\ rest \in Addr /\ remaining \in Nat /\ rest \notin Chunks
      <4>1. PICK need \in Nat : need = call.need
        BY <1>5
      <4>2. /\ need >= kMinChunk /\ rest = c + need /\ remaining = size[c] - need
            /\ size' = [size EXCEPT ![c] = need, ![rest] = remaining]
            /\ first' = first
        BY <4>1, <3>1, <3>2, <1>1, <1>5
      <4> QED BY <4>2, <3>2, <1>3, <1>4, SplitKeepsShape, ZenonT(60)
    <3>4. \A d \in InBins' : d \notin Busy /\ d # c
      BY <3>3, <1>3, <1>6, BusyIsNotFree, BusyParts
    <3>5. /\ size' \in [Addr -> Nat] /\ pinuse' \in [Addr -> BOOLEAN]
          /\ back' \in [Addr -> Nat]
      BY <3>2, <3>3, <1>5, <1>6
    <3>6. \A d \in Busy : size'[d] = size[d]
      BY <3>2, <3>3, <1>3, <1>6, BusyParts
    <3>7. size'[c] = call.need
      BY <3>2, <3>3, <1>6
    <3> QED BY <3>3, <3>4, <3>5, <3>6, <3>7, <1>5
  <2>2. CASE ~(size[c] - call.need >= kMinChunk)
    <3>1. /\ pinuse' = [pinuse EXCEPT ![Next_(c)] = TRUE] /\ bins' = Remove(bins, c)
          /\ size' = size /\ back' = back
      BY <1>2, <1>5, <1>6, <2>2
    <3>2. /\ Tiled' /\ HasPredecessor' /\ TagsTell' /\ Coalesced'
          /\ \A i \in Bins : \A d \in bins'[i] : BinIndex[size'[d]] = i
          /\ bins' \in [Bins -> SUBSET Addr]
          /\ \A d : d \in InBins' <=> d \in InBins /\ d # c
      BY <3>1, <1>1, <1>3, <1>4, WholeKeepsShape
    <3>3. size'[c] >= call.need
      BY <3>1, <1>5, <1>6, <1>7 DEF Suits
    <3> QED BY <3>1, <3>2, <3>3, <1>3, <1>6, BusyIsNotFree
  <2> QED BY <2>1, <2>2
<1>9. TypeOK'
  BY <1>1, <1>3, <1>6, <1>8 DEF TypeOK
<1>10. OwnedOnce'
  BY <1>1, <1>3, <1>8, BusyParts DEF HeapInv, OwnedOnce
<1>11. Binned'
  <2>1. \A i \in FastBins : \A d \in fast[i] : d \in Members(fast)
    BY <1>3, MembersOf DEF TypeOK
  <2>2. \A i \in FastBins : \A d \in fast'[i] : BinIndex[size'[d]] = i
    BY <1>1, <1>3, <1>8, <2>1, BusyParts DEF HeapInv, Binned
  <2> QED BY <2>2, <1>8 DEF Binned
<1>12. TopInSegment' /\ (~ready => first = 0)'
  BY <1>1 DEF IInv, TopInSegment
<1>13. RoomForRequest'
  BY <1>1, <1>3, <1>8, BusyParts DEF IInv, RoomForRequest
<1>14. Allocating'
  BY <1>1, <1>3, <1>8, BusyParts DEF Allocating
<1>15. CallInOrder'
  BY <1>1, <1>3, <1>8, <1>14 DEF CallInOrder
<1> QED BY <1>8, <1>9, <1>10, <1>11, <1>12, <1>13, <1>15 DEF IInv, HeapInv

(* Heap::Allocate: one kBrkSize more is enough for any request below the    *)
(* mmap threshold, so the new top is inside the segment.                    *)
LEMMA HeapAllocateKeeps ==
    ASSUME IInv, HeapAllocate
    PROVE  IInv'
<1>1. /\ pc = "top" /\ pc' = "return" /\ SbrkCan /\ ready' = TRUE /\ Carve(call.need)
      /\ UNCHANGED <<fast, bins, pending, live, asked, mapped, call>>
  BY DEF HeapAllocate, lists, client
<1>2. /\ TypeOK /\ HeapInv /\ held = {} /\ pending = {} /\ Allocating
  BY <1>1 DEF IInv, CallInOrder
<1>3. /\ call.need \in Nat /\ call.need >= kMinChunk /\ kMinChunk \in Nat /\ kMinChunk >= 2
      /\ Bytes(call.need) <= kMmapThreshold
  BY <1>2, ChunkSizeFits, MinChunk DEF Allocating
<1>4. call.need <= kBrk /\ kBrk \in Nat
  <2>1. kMmapThreshold <= kBrkSize /\ kMmapThreshold \in Nat /\ kBrkSize \in Nat
    BY MallocAssumption
  <2>2. kBrk \in Nat /\ kBrkSize = Bytes(kBrk)
    BY <1>1, EndOfHeapIs
  <2> QED BY <2>1, <2>2, <1>3 DEF Bytes, kAlignment
<1>5. /\ EndOfHeap \in Nat /\ first \in Nat /\ first <= EndOfHeap /\ EndOfHeap <= kHeapLimit
      /\ kHeapLimit \in Nat
  BY <1>1, <1>2, EndOfHeapIs, MallocAssumption DEF TypeOK, Addr
<1>6. /\ first + call.need \in Addr /\ first + call.need <= last'
      /\ last' \in Addr
  <2>1. CASE EndOfHeap - first >= call.need /\ last' = EndOfHeap
    BY <2>1, <1>3, <1>5 DEF Addr
  <2>2. CASE /\ EndOfHeap - first < call.need /\ EndOfHeap + kBrk <= kHeapLimit
             /\ last' = EndOfHeap + kBrk
    BY <2>2, <1>3, <1>4, <1>5 DEF Addr
  <2> QED BY <2>1, <2>2 DEF HeapAllocate
<1>7. /\ first' = first + call.need /\ held' = {first} /\ back' = back
  BY <1>1 DEF Carve
<1>8. Busy' = Busy \union {first} /\ Members(fast)' = Members(fast)
  BY <1>1, <1>2, <1>7 DEF Busy, Members
<1>9. /\ Tiled' /\ HasPredecessor' /\ TagsTell' /\ Coalesced'
      /\ \A i \in Bins : \A d \in bins'[i] : BinIndex[size'[d]] = i
      /\ InBins' = InBins /\ first \notin Chunks
      /\ size' \in [Addr -> Nat] /\ pinuse' \in [Addr -> BOOLEAN]
      /\ size'[first] = call.need
      /\ \A c \in Chunks : size'[c] = size[c]
  <2>1. PICK need \in Nat : need = call.need
    BY <1>3
  <2>2. need >= kMinChunk /\ first + need \in Addr /\ Carve(need) /\ bins' = bins
    BY <2>1, <1>1, <1>3, <1>6
  <2>3. /\ Tiled' /\ HasPredecessor' /\ TagsTell' /\ Coalesced'
        /\ \A i \in Bins : \A d \in bins'[i] : BinIndex[size'[d]] = i
        /\ InBins' = InBins /\ first \notin Chunks
        /\ size' \in [Addr -> Nat] /\ pinuse' \in [Addr -> BOOLEAN]
        /\ size'[first] = need
        /\ \A c \in Chunks : size'[c] = size[c]
    BY <2>2, <1>2, <1>8, CarveKeepsShape, ZenonT(60)
  <2> QED BY <2>1, <2>3
<1>10. TypeOK'
  BY <1>1, <1>2, <1>6, <1>7, <1>9 DEF TypeOK
<1>11. OwnedOnce'
  BY <1>1, <1>2, <1>7, <1>8, <1>9, BusyParts DEF HeapInv, OwnedOnce
<1>12. Binned'
  <2>1. \A i \in FastBins : \A d \in fast[i] : d \in Members(fast)
    BY <1>2, MembersOf DEF TypeOK
  <2>2. \A i \in FastBins : \A d \in fast'[i] : BinIndex[size'[d]] = i
    BY <1>1, <1>2, <1>9, <2>1, BusyParts DEF HeapInv, Binned
  <2> QED BY <2>2, <1>9 DEF Binned
<1>13. TopInSegment' /\ (~ready => first = 0)'
  BY <1>1, <1>6, <1>7 DEF TopInSegment, Addr
<1>14. RoomForRequest'
  BY <1>1, <1>2, <1>9, BusyParts DEF IInv, RoomForRequest
<1>15. Allocating'
  BY <1>1, <1>2, <1>9, BusyParts DEF Allocating
<1>16. CallInOrder'
  BY <1>1, <1>2, <1>3, <1>7, <1>9, <1>15 DEF CallInOrder
<1> QED BY <1>9, <1>10, <1>11, <1>12, <1>13, <1>14, <1>16 DEF IInv, HeapInv

-----------------------------------------------------------------------------
(* Stores into a block: calloc's memset, the client's own writes and the    *)
(* memcpy of realloc.                                                       *)
LEMMA InsideIsInvisible ==
    ASSUME TypeOK, HeapInv, NEW c \in Busy, NEW n \in Nat,
           n <= Bytes(size[c]) - kMetaSize,
           \A x \in Addr : x \notin HeaderWords(c, n) =>
              size'[x] = size[x] /\ pinuse'[x] = pinuse[x],
           \A x \in Addr : x \notin BackWords(c, n) => back'[x] = back[x],
           Busy' = Busy, bins' = bins, first' = first
    PROVE  /\ Tiled' /\ HasPredecessor' /\ TagsTell' /\ Coalesced'
           /\ \A i \in Bins : \A d \in bins'[i] : BinIndex[size'[d]] = i
           /\ InBins' = InBins /\ \A d \in Chunks : size'[d] = size[d]
<1>1. /\ \A x \in Chunks \union {first} : x \notin HeaderWords(c, n) /\ x \in Addr
      /\ \A d \in InBins : Next_(d) \notin BackWords(c, n) /\ Next_(d) \in Addr
  BY StoresStayInside, BusyParts, ChunkFacts DEF TypeOK
<1>2. \A x \in Chunks \union {first} : size'[x] = size[x] /\ pinuse'[x] = pinuse[x]
  BY <1>1
<1>3. \A d \in InBins : back'[Next_(d)] = back[Next_(d)]
  BY <1>1
<1> QED BY <1>2, <1>3, ShapeKept

LEMMA StoreIs ==
    ASSUME TypeOK, NEW c, NEW n, NEW word \in [size : Nat, pinuse : BOOLEAN],
           Store(c, n, word)
    PROVE  /\ size' \in [Addr -> Nat] /\ pinuse' \in [Addr -> BOOLEAN]
           /\ back' \in [Addr -> Nat]
           /\ \A x \in Addr : x \notin HeaderWords(c, n) =>
                 size'[x] = size[x] /\ pinuse'[x] = pinuse[x]
           /\ \A x \in Addr : x \notin BackWords(c, n) => back'[x] = back[x]
<1>1. word.size \in Nat /\ word.pinuse \in BOOLEAN
  OBVIOUS
<1> QED BY <1>1 DEF Store, TypeOK

(* memcpy reads inside the block it copies from.                            *)
LEMMA CopyIs ==
    ASSUME TypeOK, HeapInv, NEW from \in Busy, NEW to \in Addr, NEW n \in Nat,
           n <= Bytes(size[from]) - kMetaSize, Copy(from, to, n)
    PROVE  /\ size' \in [Addr -> Nat] /\ pinuse' \in [Addr -> BOOLEAN]
           /\ back' \in [Addr -> Nat]
           /\ \A x \in Addr : x \notin HeaderWords(to, n) =>
                 size'[x] = size[x] /\ pinuse'[x] = pinuse[x]
           /\ \A x \in Addr : x \notin BackWords(to, n) => back'[x] = back[x]
<1>1. /\ from \in Nat /\ size[from] \in Nat /\ from + size[from] <= kHeapLimit
      /\ to \in Nat /\ kHeapLimit \in Nat
  BY BusyParts, ChunkFacts, MallocAssumption DEF Addr
<1>2. \A x \in HeaderWords(to, n) : x - to + from \in Addr
  BY <1>1 DEF HeaderWords, Bytes, kMetaSize, kAlignment, Addr
<1>3. \A x \in BackWords(to, n) : x - to + from \in Addr
  BY <1>1 DEF BackWords, Bytes, kMetaSize, kAlignment, Addr
<1> QED BY <1>2, <1>3 DEF Copy, TypeOK

LEMMA ClientWritesKeeps ==
    ASSUME IInv, ClientWrites
    PROVE  IInv'
<1>1. PICK p \in live, word \in ClientWords : Store(p, asked[p], word)
  BY DEF ClientWrites
<1>2. /\ UNCHANGED <<fast, bins, pending, first, last, ready, live, asked, mapped>>
      /\ UNCHANGED <<held, call, pc>> /\ pc = "idle"
  BY DEF ClientWrites, lists, heap, client
<1>3. /\ TypeOK /\ HeapInv /\ p \in Busy /\ asked[p] \in Nat
      /\ asked[p] <= Bytes(size[p]) - kMetaSize
  BY BusyParts DEF IInv, TypeOK, RoomForRequest
<1>4. PICK n \in Nat : n = asked[p]
  BY <1>3
<1>5. word \in [size : Nat, pinuse : BOOLEAN]
  BY ClientWordsAssumption
<1>6. /\ size' \in [Addr -> Nat] /\ pinuse' \in [Addr -> BOOLEAN]
      /\ back' \in [Addr -> Nat]
      /\ \A x \in Addr : x \notin HeaderWords(p, n) =>
            size'[x] = size[x] /\ pinuse'[x] = pinuse[x]
      /\ \A x \in Addr : x \notin BackWords(p, n) => back'[x] = back[x]
  BY <1>1, <1>3, <1>4, <1>5, StoreIs
<1>7. Busy' = Busy /\ Members(fast)' = Members(fast)
  BY <1>2 DEF Busy, Members
<1>8. /\ Tiled' /\ HasPredecessor' /\ TagsTell' /\ Coalesced'
      /\ \A i \in Bins : \A d \in bins'[i] : BinIndex[size'[d]] = i
      /\ InBins' = InBins /\ \A d \in Chunks : size'[d] = size[d]
  BY <1>2, <1>3, <1>4, <1>6, <1>7, InsideIsInvisible
<1>9. TypeOK'
  BY <1>2, <1>3, <1>6 DEF TypeOK
<1>10. OwnedOnce'
  BY <1>2, <1>3, <1>7, <1>8 DEF HeapInv, OwnedOnce
<1>11. Binned'
  <2>1. \A i \in FastBins : \A d \in fast[i] : d \in Members(fast)
    BY <1>3, MembersOf DEF TypeOK
  <2>2. \A i \in FastBins : \A d \in fast'[i] : BinIndex[size'[d]] = i
    BY <1>2, <1>3, <1>8, <2>1, BusyParts DEF HeapInv, Binned
  <2> QED BY <2>2, <1>8 DEF Binned
<1>12. TopInSegment' /\ (~ready => first = 0)'
  BY <1>2 DEF IInv, TopInSegment
<1>13. RoomForRequest'
  BY <1>2, <1>3, <1>8, BusyParts DEF IInv, RoomForRequest
<1>14. CallInOrder'
  BY <1>2 DEF IInv, CallInOrder
<1> QED BY <1>8, <1>9, <1>10, <1>11, <1>12, <1>13, <1>14 DEF IInv, HeapInv

-----------------------------------------------------------------------------
(* The returns: the held chunk becomes a block of the client, with room for *)
(* what it asked.                                                           *)
LEMMA GiveIs ==
    ASSUME IInv, pc = "return", NEW c \in held, Give(c)
    PROVE  /\ held = {c} /\ pending = {} /\ Allocating /\ c \in Addr /\ c \in Busy
           /\ live' = (live \ {call.old}) \union {c}
           /\ asked' \in [Addr -> Nat] /\ asked'[c] = call.bytes
           /\ \A x \in live : x # c /\ x # call.old => asked'[x] = asked[x]
           /\ call.bytes \in Nat /\ call.bytes <= Bytes(size[c]) - kMetaSize
<1>1. /\ held = {c} /\ pending = {} /\ Allocating /\ size[c] >= call.need
  BY DEF IInv, CallInOrder
<1>2. c \in Addr /\ c \in Busy /\ size[c] \in Nat
  BY BusyParts, ChunkFacts DEF IInv, TypeOK
<1>3. /\ call.bytes \in Nat /\ call.need \in Nat
      /\ call.bytes <= Bytes(call.need) - kMetaSize
  BY <1>1, ChunkSizeFits, RequestsAssumption DEF Allocating
<1>4. call.bytes <= Bytes(size[c]) - kMetaSize
  BY <1>1, <1>2, <1>3 DEF Bytes, kAlignment, kMetaSize
<1>5. /\ live' = (live \ {call.old}) \union {c}
      /\ asked' = [x \in Addr |-> IF x = c THEN call.bytes
                                  ELSE IF x = call.old THEN 0 ELSE asked[x]]
  BY DEF Give
<1>6. asked \in [Addr -> Nat] /\ live \subseteq Addr
  BY DEF IInv, TypeOK
<1>7. asked' \in [Addr -> Nat] /\ asked'[c] = call.bytes
  BY <1>2, <1>3, <1>5, <1>6
<1>8. \A x \in live : x # c /\ x # call.old => asked'[x] = asked[x]
  BY <1>5, <1>6
<1> QED BY <1>1, <1>2, <1>3, <1>4, <1>5, <1>7, <1>8

(* malloc and calloc replace no block.                                      *)
LEMMA GiveAdds ==
    ASSUME IInv, pc = "return", call.op # "realloc", NEW c \in held, Give(c), held' = {},
           fast' = fast, pending' = pending
    PROVE  /\ live' = live \union {c} /\ Busy' = Busy
           /\ \A x \in live : x # c => asked'[x] = asked[x]
<1>1. /\ held = {c} /\ live' = (live \ {call.old}) \union {c} /\ call.old = Null
      /\ \A x \in live : x # c /\ x # call.old => asked'[x] = asked[x]
  BY GiveIs DEF Allocating
<1>2. Null \notin live
  BY NullIsNowhere DEF IInv, TypeOK
<1>3. Members(fast)' = Members(fast)
  BY DEF Members
<1> QED BY <1>1, <1>2, <1>3 DEF Busy

LEMMA FastStillBinned ==
    ASSUME TypeOK, HeapInv, fast' = fast, \A d \in Chunks : size'[d] = size[d]
    PROVE  \A i \in FastBins : \A d \in fast'[i] : BinIndex[size'[d]] = i
<1>1. \A i \in FastBins : \A d \in fast[i] : d \in Chunks
  BY MembersOf, BusyParts DEF TypeOK
<1> QED BY <1>1 DEF HeapInv, Binned

(* A return of malloc or calloc, whatever it stored into the block.         *)
LEMMA ReturnKeeps ==
    ASSUME IInv, pc = "return", call.op # "realloc", NEW c \in held, Give(c), held' = {},
           UNCHANGED <<lists, heap, mapped>>, EndCall,
           size' \in [Addr -> Nat], pinuse' \in [Addr -> BOOLEAN], back' \in [Addr -> Nat],
           \A x \in Addr : x \notin HeaderWords(c, call.bytes) =>
              size'[x] = size[x] /\ pinuse'[x] = pinuse[x],
           \A x \in Addr : x \notin BackWords(c, call.bytes) => back'[x] = back[x]
    PROVE  IInv'
<1>1. /\ held = {c} /\ pending = {} /\ c \in Addr /\ c \in Busy
      /\ asked' \in [Addr -> Nat] /\ asked'[c] = call.bytes
      /\ call.bytes \in Nat /\ call.bytes <= Bytes(size[c]) - kMetaSize
  BY GiveIs
<1>2. /\ UNCHANGED <<fast, bins, pending, first, last, ready, mapped>>
      /\ TypeOK /\ HeapInv
  BY DEF lists, heap, IInv
<1>3. /\ live' = live \union {c} /\ Busy' = Busy /\ Members(fast)' = Members(fast)
      /\ \A x \in live : x # c => asked'[x] = asked[x]
  BY <1>2, GiveAdds DEF Members
<1>4. /\ Tiled' /\ HasPredecessor' /\ TagsTell' /\ Coalesced'
      /\ \A i \in Bins : \A d \in bins'[i] : BinIndex[size'[d]] = i
      /\ InBins' = InBins /\ \A d \in Chunks : size'[d] = size[d]
  <2>1. PICK n \in Nat : n = call.bytes
    BY <1>1
  <2> QED BY <2>1, <1>1, <1>2, <1>3, InsideIsInvisible
<1>5. TypeOK'
  <2>1. live' \in SUBSET Addr
    BY <1>1, <1>2, <1>3 DEF TypeOK
  <2> QED BY <2>1, <1>1, <1>2, NoCallType DEF TypeOK, EndCall
<1>6. OwnedOnce'
  BY <1>1, <1>2, <1>3, <1>4 DEF HeapInv, OwnedOnce
<1>7. Binned'
  BY <1>2, <1>4, FastStillBinned DEF Binned
<1>8. TopInSegment' /\ (~ready => first = 0)'
  BY <1>2 DEF IInv, TopInSegment
<1>9. RoomForRequest'
  <2>1. \A x \in live' : size'[x] = size[x]
    BY <1>1, <1>2, <1>3, <1>4, BusyParts
  <2> QED BY <2>1, <1>1, <1>3 DEF IInv, RoomForRequest
<1>10. CallInOrder'
  BY <1>1, <1>2 DEF CallInOrder, EndCall
<1> QED BY <1>4, <1>5, <1>6, <1>7, <1>8, <1>9, <1>10 DEF IInv, HeapInv

LEMMA ReturnFromMallocKeeps ==
    ASSUME IInv, ReturnFromMalloc
    PROVE  IInv'
<1>1. PICK c \in held : Give(c)
  BY DEF ReturnFromMalloc
<1>2. /\ pc = "return" /\ call.op # "realloc" /\ held' = {} /\ EndCall
      /\ UNCHANGED <<lists, heap, mapped>>
      /\ size' = size /\ pinuse' = pinuse /\ back' = back
  BY DEF ReturnFromMalloc, memory
<1>3. size' \in [Addr -> Nat] /\ pinuse' \in [Addr -> BOOLEAN] /\ back' \in [Addr -> Nat]
  BY <1>2 DEF IInv, TypeOK
<1> QED BY <1>1, <1>2, <1>3, ReturnKeeps

LEMMA ReturnFromCallocKeeps ==
    ASSUME IInv, ReturnFromCalloc
    PROVE  IInv'
<1>1. PICK c \in held : Give(c) /\ Store(c, call.bytes, ZeroWord)
  BY DEF ReturnFromCalloc
<1>2. /\ pc = "return" /\ call.op # "realloc" /\ held' = {} /\ EndCall
      /\ UNCHANGED <<lists, heap, mapped>>
  BY DEF ReturnFromCalloc
<1>3. ZeroWord \in [size : Nat, pinuse : BOOLEAN] /\ TypeOK
  BY DEF ZeroWord, IInv
<1>4. /\ size' \in [Addr -> Nat] /\ pinuse' \in [Addr -> BOOLEAN]
      /\ back' \in [Addr -> Nat]
      /\ \A x \in Addr : x \notin HeaderWords(c, call.bytes) =>
            size'[x] = size[x] /\ pinuse'[x] = pinuse[x]
      /\ \A x \in Addr : x \notin BackWords(c, call.bytes) => back'[x] = back[x]
  BY <1>1, <1>3, StoreIs
<1> QED BY <1>1, <1>2, <1>4, ReturnKeeps

(* realloc: the new block takes the old one's place, and the old one is     *)
(* freed as any block is.                                                   *)
LEMMA CopyInReallocKeeps ==
    ASSUME IInv, CopyInRealloc
    PROVE  IInv'
<1>1. PICK c \in held :
         LET room == Bytes(size[call.old]) - kMetaSize
         IN  /\ Give(c)
             /\ Copy(call.old, c, IF room < call.bytes THEN room ELSE call.bytes)
  BY DEF CopyInRealloc
<1>2. /\ pc = "return" /\ call.op = "realloc" /\ held' = {call.old} /\ pc' = "free"
      /\ call' = [NoCall EXCEPT !.op = "free"]
      /\ UNCHANGED <<fast, bins, pending, first, last, ready, mapped>>
      /\ TypeOK /\ HeapInv
  BY DEF CopyInRealloc, lists, heap, IInv
<1>3. PICK old : old = call.old
  OBVIOUS
<1>4. /\ held = {c} /\ pending = {} /\ Allocating /\ c \in Addr /\ c \in Busy
      /\ live' = (live \ {old}) \union {c}
      /\ asked' \in [Addr -> Nat] /\ asked'[c] = call.bytes
      /\ \A x \in live : x # c /\ x # old => asked'[x] = asked[x]
      /\ call.bytes \in Nat /\ call.bytes <= Bytes(size[c]) - kMetaSize
  BY <1>1, <1>2, <1>3, GiveIs
<1>5. old \in live /\ old # c /\ old \in Busy /\ old \in Addr
  BY <1>2, <1>3, <1>4, BusyParts DEF Allocating, HeapInv, OwnedOnce
<1>6. PICK n \in Nat : /\ Copy(old, c, n) /\ n <= Bytes(size[old]) - kMetaSize
                       /\ n <= call.bytes /\ n <= Bytes(size[c]) - kMetaSize
  <2>1. /\ size[old] \in Nat /\ size[old] >= 2 /\ size[c] \in Nat
    BY <1>2, <1>4, <1>5, BusyParts, ChunkFacts DEF TypeOK
  <2> DEFINE room == Bytes(size[old]) - kMetaSize
             n == IF room < call.bytes THEN room ELSE call.bytes
  <2>2. room \in Nat /\ Bytes(size[c]) - kMetaSize \in Int
    BY <2>1 DEF Bytes, kAlignment, kMetaSize
  <2>3. Copy(old, c, n)
    BY <1>1, <1>3
  <2> HIDE DEF room
  <2>4. n \in Nat /\ n <= room /\ n <= call.bytes /\ n <= Bytes(size[c]) - kMetaSize
    BY <2>2, <1>4
  <2> QED BY <2>3, <2>4 DEF room
<1>7. Busy' = Busy /\ Members(fast)' = Members(fast)
  BY <1>2, <1>3, <1>4, <1>5 DEF Busy, Members
<1>8. /\ size' \in [Addr -> Nat] /\ pinuse' \in [Addr -> BOOLEAN]
      /\ back' \in [Addr -> Nat]
      /\ \A x \in Addr : x \notin HeaderWords(c, n) =>
            size'[x] = size[x] /\ pinuse'[x] = pinuse[x]
      /\ \A x \in Addr : x \notin BackWords(c, n) => back'[x] = back[x]
  BY <1>2, <1>4, <1>5, <1>6, CopyIs
<1>9. /\ Tiled' /\ HasPredecessor' /\ TagsTell' /\ Coalesced'
      /\ \A i \in Bins : \A d \in bins'[i] : BinIndex[size'[d]] = i
      /\ InBins' = InBins /\ \A d \in Chunks : size'[d] = size[d]
  BY <1>2, <1>4, <1>6, <1>7, <1>8, InsideIsInvisible
<1>10. TypeOK'
  <2>1. live' \in SUBSET Addr /\ held' \in SUBSET Addr
    BY <1>2, <1>3, <1>4, <1>5 DEF TypeOK
  <2> QED BY <2>1, <1>2, <1>4, <1>8, NoCallType DEF TypeOK
<1>11. OwnedOnce'
  BY <1>2, <1>3, <1>4, <1>5, <1>7, <1>9 DEF HeapInv, OwnedOnce
<1>12. Binned'
  BY <1>2, <1>9, FastStillBinned DEF Binned
<1>13. TopInSegment' /\ (~ready => first = 0)'
  BY <1>2 DEF IInv, TopInSegment
<1>14. RoomForRequest'
  <2>1. \A x \in live' : size'[x] = size[x]
    BY <1>2, <1>4, <1>9, BusyParts
  <2> QED BY <2>1, <1>4 DEF IInv, RoomForRequest
<1>15. CallInOrder'
  BY <1>2, <1>4 DEF CallInOrder
<1> QED BY <1>9, <1>10, <1>11, <1>12, <1>13, <1>14, <1>15 DEF IInv, HeapInv

-----------------------------------------------------------------------------
(* The calls of the client.  free, and the realloc that got a region        *)
(* instead: the block passes from the client to the call.                   *)
LEMMA HandsOver ==
    ASSUME IInv, pc = "idle", NEW p \in live, UNCHANGED <<memory, lists, heap>>,
           mapped' \in [Regions -> Nat], live' = live \ {p},
           asked' = [asked EXCEPT ![p] = 0], held' = {p}, pc' = "free",
           call' = [NoCall EXCEPT !.op = "free"]
    PROVE  IInv'
<1>1. /\ UNCHANGED <<fast, bins, pending, first, last, ready>> /\ UNCHANGED memory
      /\ size' = size /\ TypeOK /\ HeapInv /\ held = {} /\ pending = {}
  BY DEF lists, heap, memory, IInv, CallInOrder
<1>2. Members(fast)' = Members(fast) /\ Busy' = Busy
  BY <1>1 DEF Members, Busy
<1>3. /\ Tiled' /\ HasPredecessor' /\ TagsTell' /\ Coalesced' /\ InBins' = InBins
      /\ \A i \in Bins : \A c \in bins'[i] : BinIndex[size'[c]] = i
  BY <1>1, <1>2, QuietShape
<1>4. OwnedOnce'
  BY <1>1, <1>2, <1>3 DEF HeapInv, OwnedOnce
<1>5. Binned'
  BY <1>1, <1>3 DEF HeapInv, Binned
<1>6. TypeOK'
  BY <1>1, NoCallType DEF TypeOK, memory
<1>7. TopInSegment' /\ (~ready => first = 0)' /\ RoomForRequest'
  BY <1>1 DEF IInv, TypeOK, TopInSegment, RoomForRequest
<1>8. CallInOrder'
  BY <1>1 DEF CallInOrder
<1> QED BY <1>3, <1>4, <1>5, <1>6, <1>7, <1>8 DEF IInv, HeapInv

LEMMA CallFreeKeeps ==
    ASSUME IInv, CallFree
    PROVE  IInv'
<1>1. PICK p \in live : /\ live' = live \ {p} /\ asked' = [asked EXCEPT ![p] = 0]
                        /\ held' = {p}
  BY DEF CallFree
<1>2. mapped' \in [Regions -> Nat]
  BY DEF CallFree, IInv, TypeOK
<1> QED BY <1>1, <1>2, HandsOver DEF CallFree

(* The call a request starts.                                               *)
LEMMA AllocatingStarts ==
    ASSUME TypeOK, NEW n \in Requests, NEW op \in {"malloc", "calloc", "realloc"}, NEW old,
           IF op = "realloc" THEN old \in live /\ size[old] < ChunkSize(n) ELSE old = Null,
           Bytes(ChunkSize(n)) <= kMmapThreshold,
           call' = [op |-> op, bytes |-> n, need |-> ChunkSize(n), old |-> old],
           live' = live, size' = size
    PROVE  /\ Allocating' /\ call'.need = ChunkSize(n)
           /\ call' \in [op : Ops, bytes : Nat, need : Nat, old : Addr \union {Null}]
<1>1. call'.op = op /\ call'.bytes = n /\ call'.need = ChunkSize(n) /\ call'.old = old
  OBVIOUS
<1>2. n \in Nat /\ ChunkSize(n) \in Nat /\ op \in Ops /\ old \in Addr \union {Null}
  BY ChunkSizeFits, RequestsAssumption DEF Ops, TypeOK
<1> QED BY <1>1, <1>2 DEF Allocating

LEMMA AllocateKeeps ==
    ASSUME IInv, pc = "idle", NEW n \in Requests,
           NEW op \in {"malloc", "calloc", "realloc"}, NEW old,
           IF op = "realloc" THEN old \in live /\ size[old] < ChunkSize(n) ELSE old = Null,
           Allocate(op, n, old)
    PROVE  IInv'
<1>0. TypeOK /\ HeapInv /\ held = {} /\ pending = {}
  BY DEF IInv, CallInOrder
<1>1. PICK need : need = ChunkSize(n)
  OBVIOUS
<1>2. CASE MmapAllocate(op, need, old)
  <2>1. CASE EndCall /\ UNCHANGED <<memory, lists, heap, client, held>>
    <3>1. mapped' \in [Regions -> Nat]
      BY <2>1, <1>0 DEF TypeOK, client
    <3> QED BY <2>1, <3>1, <1>0, EndsQuietly DEF client
  <2>2. ASSUME NEW r \in Regions,
               mapped' = [mapped EXCEPT ![r] = need],
               IF op = "realloc"
               THEN /\ live' = live \ {old} /\ asked' = [asked EXCEPT ![old] = 0]
                    /\ held' = {old} /\ pc' = "free"
                    /\ call' = [NoCall EXCEPT !.op = "free"]
               ELSE EndCall /\ UNCHANGED <<live, asked, held>>,
               UNCHANGED <<memory, lists, heap>>
        PROVE  IInv'
    <3>1. mapped' \in [Regions -> Nat]
      BY <2>2, <1>0, <1>1, ChunkSizeFits DEF TypeOK
    <3>2. CASE op = "realloc"
      BY <2>2, <3>1, <3>2, HandsOver
    <3>3. CASE op # "realloc"
      BY <2>2, <3>1, <3>3, <1>0, EndsQuietly
    <3> QED BY <3>2, <3>3
  <2> QED BY <1>2, <2>1, <2>2 DEF MmapAllocate
<1>3. ASSUME Bytes(need) <= kMmapThreshold,
             call' = [op |-> op, bytes |-> n, need |-> need, old |-> old],
             \/ AllocateFromFastBins(need)
             \/ ExtractAll /\ pc' = "consolidate" /\ UNCHANGED <<memory, bins, held>>,
             UNCHANGED <<heap, client>>
      PROVE  IInv'
  <2>0. /\ UNCHANGED <<first, last, ready, live, asked, mapped, size>>
    BY <1>3 DEF heap, client, memory, AllocateFromFastBins
  <2>1. /\ Allocating' /\ call'.need = need
        /\ call' \in [op : Ops, bytes : Nat, need : Nat, old : Addr \union {Null}]
    BY <1>0, <1>1, <1>3, <2>0, AllocatingStarts
  <2>2. TopInSegment' /\ (~ready => first = 0)' /\ RoomForRequest'
    BY <2>0 DEF IInv, TopInSegment, RoomForRequest
  <2>3. ASSUME NEW c \in Members(fast), Finds(fast, need, c), fast' = Remove(fast, c),
               pinuse' = [pinuse EXCEPT ![Next_(c)] = TRUE],
               held' = {c}, pc' = "return", UNCHANGED <<size, back, bins, pending>>
        PROVE  IInv'
    <3>1. /\ fast' \in [FastBins -> SUBSET Addr]
          /\ \A i \in FastBins : \A d : d \in fast'[i] <=> d \in fast[i] /\ d # c
          /\ \A d : d \in Members(fast)' <=> d \in Members(fast) /\ d # c
      BY <1>0, <2>3, FastWithoutIs
    <3>2. c \in Busy /\ c \in Chunks /\ c \in Addr
      BY <1>0, BusyParts
    <3>3. pinuse' = pinuse
      <4>1. pinuse[Next_(c)] = TRUE /\ pinuse \in [Addr -> BOOLEAN]
        BY <1>0, <3>2, ChunkFacts DEF HeapInv, TagsTell, IsInUse, TypeOK
      <4> QED BY <4>1, <2>3
    <3>4. Busy' = Busy
      BY <1>0, <2>0, <2>3, <3>1 DEF Busy
    <3>5. /\ Tiled' /\ HasPredecessor' /\ TagsTell' /\ Coalesced' /\ InBins' = InBins
          /\ \A i \in Bins : \A d \in bins'[i] : BinIndex[size'[d]] = i
      BY <1>0, <2>0, <2>3, <3>3, <3>4, QuietShape DEF memory
    <3>6. OwnedOnce'
      BY <1>0, <2>0, <2>3, <3>1, <3>5 DEF HeapInv, OwnedOnce
    <3>7. Binned'
      BY <1>0, <2>0, <3>1, <3>5 DEF HeapInv, Binned
    <3>8. TypeOK'
      BY <1>0, <2>0, <2>1, <2>3, <3>1, <3>2, <3>3 DEF TypeOK
    <3>9. size[c] >= need
      <4>1. need \in Nat /\ kMinChunk \in Nat /\ size[c] \in Nat
        BY <1>0, <1>1, <3>2, ChunkSizeFits, MinChunk, ChunkFacts DEF Addr
      <4> QED BY <2>3, <4>1 DEF Finds, Suits
    <3>10. CallInOrder'
      BY <1>0, <2>0, <2>1, <2>3, <3>9 DEF CallInOrder
    <3> QED BY <2>2, <3>5, <3>6, <3>7, <3>8, <3>10 DEF IInv, HeapInv
  <2>4. CASE pc' = "bins" /\ UNCHANGED <<memory, lists, held>>
    <3>1. HeapInv'
      BY <1>0, <2>0, <2>4, HeapInvKept DEF lists
    <3>2. TypeOK'
      BY <1>0, <2>0, <2>1, <2>4 DEF TypeOK, memory, lists
    <3>3. CallInOrder'
      BY <1>0, <2>1, <2>4 DEF CallInOrder, lists
    <3> QED BY <2>2, <3>1, <3>2, <3>3 DEF IInv
  <2>5. CASE ExtractAll /\ pc' = "consolidate" /\ UNCHANGED <<memory, bins, held>>
    <3>1. /\ fast' \in [FastBins -> SUBSET Addr] /\ pending' \in SUBSET Addr
          /\ Members(fast)' = {} /\ pending' = Members(fast)
          /\ \A i \in FastBins : \A d \in fast'[i] : BinIndex[size'[d]] = i
      BY <1>0, <2>5, ExtractAllMoves
    <3>2. Busy' = Busy
      BY <1>0, <2>0, <2>5, <3>1 DEF Busy
    <3>3. /\ Tiled' /\ HasPredecessor' /\ TagsTell' /\ Coalesced' /\ InBins' = InBins
          /\ \A i \in Bins : \A d \in bins'[i] : BinIndex[size'[d]] = i
      BY <1>0, <2>0, <2>5, <3>2, QuietShape
    <3>4. OwnedOnce'
      BY <1>0, <2>0, <2>5, <3>1, <3>3 DEF HeapInv, OwnedOnce
    <3>5. TypeOK'
      BY <1>0, <2>0, <2>1, <2>5, <3>1 DEF TypeOK, memory
    <3>6. CallInOrder'
      BY <1>0, <2>1, <2>5 DEF CallInOrder
    <3> QED BY <2>2, <3>1, <3>3, <3>4, <3>5, <3>6 DEF IInv, HeapInv, Binned
  <2> QED BY <1>3, <2>3, <2>4, <2>5 DEF AllocateFromFastBins
<1>4. \/ MmapAllocate(op, need, old)
      \/ /\ Bytes(need) <= kMmapThreshold
         /\ call' = [op |-> op, bytes |-> n, need |-> need, old |-> old]
         /\ \/ AllocateFromFastBins(need)
            \/ ExtractAll /\ pc' = "consolidate" /\ UNCHANGED <<memory, bins, held>>
         /\ UNCHANGED <<heap, client>>
  BY <1>1 DEF Allocate
<1> QED BY <1>2, <1>3, <1>4

LEMMA CallReallocKeeps ==
    ASSUME IInv, CallRealloc
    PROVE  IInv'
<1>1. PICK p \in live, n \in Requests :
         \/ ~IsValid(p) /\ Abort
         \/ /\ IsValid(p) /\ ChunkSize(n) <= size[p]
            /\ asked' = [asked EXCEPT ![p] = n]
            /\ UNCHANGED <<memory, lists, heap, live, mapped, held, call, pc>>
         \/ /\ IsValid(p) /\ ChunkSize(n) > size[p]
            /\ Allocate("realloc", n, p)
  BY DEF CallRealloc
<1>2. pc = "idle" /\ TypeOK /\ HeapInv /\ held = {} /\ pending = {}
  BY DEF CallRealloc, IInv, CallInOrder
<1>3. /\ p \in Addr /\ size[p] \in Nat /\ n \in Nat /\ ChunkSize(n) \in Nat
      /\ n <= Bytes(ChunkSize(n)) - kMetaSize
  BY <1>2, BusyParts, ChunkSizeFits, RequestsAssumption DEF TypeOK
<1>4. CASE Abort
  BY <1>2, <1>4, AbortKeeps
<1>5. CASE /\ ChunkSize(n) <= size[p]
           /\ asked' = [asked EXCEPT ![p] = n]
           /\ UNCHANGED <<memory, lists, heap, live, mapped, held, call, pc>>
  <2>1. HeapInv'
    BY <1>2, <1>5, HeapInvKept DEF lists, heap
  <2>2. TypeOK'
    BY <1>2, <1>3, <1>5 DEF TypeOK, memory, lists, heap
  <2>3. TopInSegment' /\ (~ready => first = 0)'
    BY <1>5 DEF IInv, TopInSegment, heap
  <2>4. RoomForRequest'
    <3>1. n <= Bytes(size[p]) - kMetaSize
      BY <1>3, <1>5 DEF Bytes, kAlignment, kMetaSize
    <3>2. \A c \in live : c # p => asked'[c] = asked[c]
      BY <1>2, <1>5 DEF TypeOK
    <3>3. asked'[p] = n
      BY <1>2, <1>3, <1>5 DEF TypeOK
    <3> QED BY <3>1, <3>2, <3>3, <1>5 DEF IInv, RoomForRequest, memory
  <2>5. CallInOrder'
    BY <1>2, <1>5 DEF CallInOrder, lists
  <2> QED BY <2>1, <2>2, <2>3, <2>4, <2>5 DEF IInv
<1>6. CASE ChunkSize(n) > size[p] /\ Allocate("realloc", n, p)
  <2>1. size[p] < ChunkSize(n)
    BY <1>3, <1>6
  <2> QED BY <2>1, <1>2, <1>6, AllocateKeeps
<1> QED BY <1>1, <1>4, <1>5, <1>6

LEMMA CallMallocKeeps ==
    ASSUME IInv, CallMalloc
    PROVE  IInv'
BY AllocateKeeps DEF CallMalloc

LEMMA CallCallocKeeps ==
    ASSUME IInv, CallCalloc
    PROVE  IInv'
BY AllocateKeeps DEF CallCalloc

(* A mmapped block shares nothing with the heap.                            *)
LEMMA RegionCallsKeep ==
    ASSUME IInv, CallFreeRegion \/ CallReallocRegion
    PROVE  IInv'
<1>1. pc = "idle" /\ TypeOK /\ HeapInv /\ held = {} /\ pending = {}
  BY DEF CallFreeRegion, CallReallocRegion, IInv, CallInOrder
<1>2. CASE Abort
  BY <1>1, <1>2, AbortKeeps
<1>3. ASSUME NEW r \in Regions, NEW sz \in Nat, mapped' = [mapped EXCEPT ![r] = sz],
             UNCHANGED <<memory, lists, heap, live, asked, held, call, pc>>
      PROVE  IInv'
  <2>1. HeapInv'
    BY <1>1, <1>3, HeapInvKept DEF lists, heap
  <2>2. TypeOK'
    BY <1>1, <1>3 DEF TypeOK, memory, lists, heap
  <2>3. TopInSegment' /\ (~ready => first = 0)' /\ RoomForRequest'
    BY <1>3 DEF IInv, TopInSegment, RoomForRequest, heap, memory
  <2>4. CallInOrder'
    BY <1>1, <1>3 DEF CallInOrder, lists
  <2> QED BY <2>1, <2>2, <2>3, <2>4 DEF IInv
<1>4. CASE CallFreeRegion
  BY <1>2, <1>3, <1>4 DEF CallFreeRegion
<1>5. CASE CallReallocRegion
  BY <1>2, <1>3, <1>5, ChunkSizeFits DEF CallReallocRegion
<1> QED BY <1>4, <1>5

-----------------------------------------------------------------------------
LEMMA InitIInv ==
    ASSUME Init
    PROVE  IInv
<1>1. kHeapLimit \in Nat /\ 0 \in Addr
  BY MallocAssumption DEF Addr
<1>2. InBins = {} /\ Members(fast) = {} /\ Busy = {} /\ Chunks = {}
  BY DEF Init, InBins, Members, Busy, Chunks
<1>3. TypeOK
  BY <1>1, NoCallType DEF Init, TypeOK
<1>4. HeapInv
  BY <1>2 DEF HeapInv, Tiled, HasPredecessor, OwnedOnce, TagsTell, Coalesced, Binned, Init
<1>5. TopInSegment /\ (~ready => first = 0) /\ RoomForRequest /\ CallInOrder
  BY <1>1 DEF Init, TopInSegment, RoomForRequest, CallInOrder
<1> QED BY <1>3, <1>4, <1>5 DEF IInv

LEMMA NextIInv ==
    ASSUME IInv, [Next]_vars
    PROVE  IInv'
<1>1. CASE Running
  BY <1>1, ConsolidateOneKeeps, ConsolidateDoneKeeps, AllocateFromBinsKeeps,
     BinsHaveNothingKeeps, HeapFailsKeeps, HeapAllocateKeeps, ReturnNullKeeps,
     ReturnFromMallocKeeps, ReturnFromCallocKeeps, CopyInReallocKeeps,
     FreeNeverAborts, FreeChecksKeeps, ReleaseKeeps
  DEF Running, BeginFree
<1>2. CASE Client
  BY <1>2, CallMallocKeeps, CallCallocKeeps, CallReallocKeeps, CallFreeKeeps,
     RegionCallsKeep, ClientWritesKeeps
  DEF Client
<1>3. CASE UNCHANGED vars
  <2>1. UNCHANGED <<memory, lists, heap, client, held, call, pc>>
    BY <1>3 DEF vars
  <2>2. HeapInv'
    BY <2>1, HeapInvKept DEF IInv, lists, heap, client
  <2>3. TypeOK'
    BY <2>1 DEF IInv, TypeOK, memory, lists, heap, client
  <2>4. TopInSegment' /\ (~ready => first = 0)' /\ RoomForRequest'
    BY <2>1 DEF IInv, TopInSegment, RoomForRequest, memory, heap, client
  <2>5. Allocating' <=> Allocating
    BY <2>1 DEF Allocating, memory, client
  <2>6. CallInOrder'
    BY <2>1, <2>5 DEF IInv, CallInOrder, lists, memory
  <2> QED BY <2>2, <2>3, <2>4, <2>6 DEF IInv
<1> QED BY <1>1, <1>2, <1>3 DEF Next

(* Every state of the allocator, for every size of heap and every client    *)
(* that stays inside its blocks, satisfies the inductive invariant.         *)
THEOREM Invariance == Spec => []IInv
<1>1. Init => IInv
  BY InitIInv
<1>2. IInv /\ [Next]_vars => IInv'
  BY NextIInv
<1> QED BY <1>1, <1>2, PTL DEF Spec

(* The state always has the shape the declarations give it.                 *)
THEOREM TypeCorrect == Spec => []TypeOK
<1>1. IInv => TypeOK
  BY DEF IInv
<1> QED BY <1>1, Invariance, PTL

(* Chunks tile the heap below the top (the layout readme.md draws), for any *)
(* order of calls and any order of the lists.                               *)
THEOREM HeapIsTiled == Spec => []Tiled
<1>1. IInv => Tiled
  BY DEF IInv, HeapInv
<1> QED BY <1>1, Invariance, PTL

(* No chunk is ever in two hands: never handed out twice, never in a list   *)
(* and with the client.                                                     *)
THEOREM NoChunkOwnedTwice == Spec => []OwnedOnce
<1>1. IInv => OwnedOnce
  BY DEF IInv, HeapInv
<1> QED BY <1>1, Invariance, PTL

(* PREV_INUSE and the back word tell the truth whenever MergeWithPrev,      *)
(* MergeWithNext or free read them, whatever clients wrote into their blocks.*)
THEOREM TagsAreTrue == Spec => []TagsTell
<1>1. IInv => TagsTell
  BY DEF IInv, HeapInv
<1> QED BY <1>1, Invariance, PTL

(* Two free chunks are never neighbours, in every state and not only        *)
(* between calls.                                                           *)
THEOREM FreeChunksAreCoalesced == Spec => []Coalesced
<1>1. IInv => Coalesced
  BY DEF IInv, HeapInv
<1> QED BY <1>1, Invariance, PTL

(* A chunk is where BinsList::Remove will look for it.                      *)
THEOREM ChunksAreInTheirBins == Spec => []Binned
<1>1. IInv => Binned
  BY DEF IInv, HeapInv
<1> QED BY <1>1, Invariance, PTL

(* Heap::first_ and the header word after it never pass what sbrk gave.     *)
THEOREM TopStaysInSegment == Spec => []TopInSegment
<1>1. IInv => TopInSegment
  BY DEF IInv
<1> QED BY <1>1, Invariance, PTL

(* A block holds the bytes its client asked for, also after a realloc in    *)
(* place.                                                                   *)
THEOREM BlocksAreLargeEnough == Spec => []RoomForRequest
<1>1. IInv => RoomForRequest
  BY DEF IInv
<1> QED BY <1>1, Invariance, PTL

(* Freeing everything gives the whole heap back to the top: with nothing    *)
(* busy, a free chunk would have no neighbour it may have.                  *)
THEOREM NothingIsLost == Spec => []AllFreedIsAllReturned
<1>1. ASSUME IInv, Busy = {}
      PROVE  InBins = {} /\ first = 0
  <2>1. \A c \in InBins : Next_(c) \in InBins \union {first}
    BY <1>1 DEF IInv, HeapInv, Tiled, Chunks
  <2>2. InBins = {}
    BY <1>1, <2>1 DEF IInv, HeapInv, Coalesced
  <2> QED BY <1>1, <2>2 DEF IInv, HeapInv, Tiled, Chunks
<1>2. IInv => AllFreedIsAllReturned
  BY <1>1 DEF AllFreedIsAllReturned
<1> QED BY <1>2, Invariance, PTL

(* FindAndRemove starts at the bin of the request; that this loses nothing  *)
(* rests on GetBinIndex being monotone.                                     *)
THEOREM HeapGrowsLast == Spec => []GrowsOnlyWhenNothingSuits
<1>1. Init => GrowsOnlyWhenNothingSuits
  BY DEF Init, GrowsOnlyWhenNothingSuits
<1>2. ASSUME IInv, GrowsOnlyWhenNothingSuits, BinsHaveNothing
      PROVE  GrowsOnlyWhenNothingSuits'
  <2>1. /\ TypeOK /\ HeapInv /\ Allocating /\ FindsNothing(bins, call.need)
        /\ size' = size /\ bins' = bins /\ call' = call
    BY <1>2 DEF IInv, CallInOrder, BinsHaveNothing, memory, lists
  <2>2. ASSUME NEW c \in InBins
        PROVE  ~Suits(c, call.need)
    <3>1. /\ c \in bins[BinIndex[size[c]]] /\ BinIndex[size[c]] \in Bins
          /\ size[c] \in Addr /\ BinIndex[size[c]] \in DOMAIN bins
      BY <2>1, BusyParts, OnlyBin, ChunkFacts DEF TypeOK
    <3>2. call.need \in Nat /\ kMinChunk \in Nat
      BY <2>1, ChunkSizeFits, MinChunk DEF Allocating
    <3>3. CASE size[c] >= call.need
      <4>1. call.need \in Addr
        BY <3>1, <3>2, <3>3, MallocAssumption DEF Addr
      <4>2. BinIndex[size[c]] >= BinIndex[call.need]
        <5>1. BinIndex[call.need] \in Nat /\ BinIndex[size[c]] \in Nat
          BY <3>1, <4>1, BinIndexAssumption, MallocAssumption DEF Bins
        <5>2. call.need <= size[c]
          BY <3>1, <3>2, <3>3 DEF Addr
        <5> QED BY <3>1, <4>1, <5>1, <5>2, BinIndexAssumption
      <4> QED BY <2>1, <3>1, <4>2 DEF FindsNothing
    <3>4. CASE ~(size[c] >= call.need)
      BY <3>1, <3>2, <3>4 DEF Suits, Addr
    <3> QED BY <3>3, <3>4
  <2>3. InBins' = InBins /\ \A c : Suits(c, call.need)' <=> Suits(c, call.need)
    BY <2>1 DEF InBins, Members, Suits
  <2> QED BY <2>2, <2>3 DEF GrowsOnlyWhenNothingSuits
<1>3. ASSUME IInv, GrowsOnlyWhenNothingSuits, Next, ~BinsHaveNothing
      PROVE  pc' # "top"
  BY <1>3 DEF Next, Running, Client, ConsolidateOne, ConsolidateDone, AllocateFromBins,
     HeapFails, HeapAllocate, ReturnNull, ReturnFromMalloc, ReturnFromCalloc,
     CopyInRealloc, BeginFree, FreeAborts, FreeChecks, Release, CallMalloc, CallCalloc,
     CallRealloc, CallFree, CallFreeRegion, CallReallocRegion, ClientWrites,
     Allocate, MmapAllocate, AllocateFromFastBins, EndCall, Abort
<1>4. ASSUME GrowsOnlyWhenNothingSuits, UNCHANGED vars
      PROVE  GrowsOnlyWhenNothingSuits'
  <2>1. pc' = pc /\ size' = size /\ bins' = bins /\ call' = call
    BY <1>4 DEF vars, memory, lists
  <2> QED BY <2>1, <1>4 DEF GrowsOnlyWhenNothingSuits, InBins, Members, Suits
<1>5. IInv /\ GrowsOnlyWhenNothingSuits /\ [Next]_vars => GrowsOnlyWhenNothingSuits'
  BY <1>2, <1>3, <1>4 DEF GrowsOnlyWhenNothingSuits
<1> QED BY <1>1, <1>5, Invariance, PTL DEF Spec

(* Requests whose regions IsValid accepts: below kMaxSize by a header word. *)
RequestsBelowMaxSize ==
    \A n \in Requests : Bytes(ChunkSize(n)) + kMetaSize <= kMaxSize

RegionsValid == \A r \in Regions : mapped[r] > 0 => IsValidRegion(r)

(* A client that frees what it was given, once, never meets ReportError,    *)
(* provided it asks for less than kMaxSize at a time.                       *)
THEOREM CorrectClientsNeverAbort ==
    ASSUME RequestsBelowMaxSize
    PROVE  Spec => []NeverAborts
<1> DEFINE I == NeverAborts /\ RegionsValid
<1>1. Init => I
  BY DEF Init, NeverAborts, RegionsValid
<1>2. ASSUME IInv, I, [Next]_vars
      PROVE  I'
  <2>0. TypeOK /\ HeapInv
    BY <1>2 DEF IInv
  <2>1. ASSUME NEW n \in Requests, NEW r \in Regions,
               mapped' = [mapped EXCEPT ![r] = ChunkSize(n)]
        PROVE  RegionsValid'
    BY <1>2, <2>0, <2>1 DEF RequestsBelowMaxSize, RegionsValid, IsValidRegion, TypeOK
  <2>2. ASSUME NEW r \in Regions, mapped' = [mapped EXCEPT ![r] = 0]
        PROVE  RegionsValid'
    BY <1>2, <2>0, <2>2 DEF RegionsValid, IsValidRegion, TypeOK
  <2>3. mapped' = mapped => RegionsValid'
    BY <1>2 DEF RegionsValid, IsValidRegion
  <2>4. ASSUME NEW op, NEW n \in Requests, NEW old, pc = "idle", Allocate(op, n, old)
        PROVE  pc' # "aborted" /\ RegionsValid'
    BY <1>2, <2>1, <2>3, <2>4
       DEF Allocate, MmapAllocate, AllocateFromFastBins, EndCall, client
  <2>5. CASE CallMalloc \/ CallCalloc
    BY <2>4, <2>5 DEF CallMalloc, CallCalloc, NeverAborts
  <2>6. CASE CallRealloc
    <3>1. \A p \in live : IsValid(p)
      BY <2>0, BusyParts, FreeIsValid
    <3> QED BY <1>2, <2>3, <2>4, <2>6, <3>1 DEF CallRealloc, NeverAborts
  <2>7. CASE CallFreeRegion
    BY <1>2, <2>2, <2>7 DEF CallFreeRegion, RegionsValid, NeverAborts
  <2>8. CASE CallReallocRegion
    BY <1>2, <2>1, <2>8 DEF CallReallocRegion, RegionsValid, NeverAborts
  <2>9. CASE CallFree \/ ClientWrites
    BY <1>2, <2>3, <2>9 DEF CallFree, ClientWrites, NeverAborts, client
  <2>10. CASE Running
    <3>1. mapped' = mapped /\ pc' # "aborted"
      BY <1>2, <2>10, FreeNeverAborts
         DEF Running, ConsolidateOne, ConsolidateDone, AllocateFromBins, BinsHaveNothing,
             HeapFails, HeapAllocate, ReturnNull, ReturnFromMalloc, ReturnFromCalloc,
             CopyInRealloc, BeginFree, FreeChecks, Release, EndCall, client
    <3> QED BY <3>1, <2>3 DEF NeverAborts
  <2>11. CASE UNCHANGED vars
    BY <1>2, <2>3, <2>11 DEF vars, client, NeverAborts
  <2> QED BY <1>2, <2>5, <2>6, <2>7, <2>8, <2>9, <2>10, <2>11 DEF Next, Client
<1>3. I => NeverAborts
  OBVIOUS
<1> QED BY <1>1, <1>2, <1>3, Invariance, PTL DEF Spec
=============================================================================
