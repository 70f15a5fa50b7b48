------------------------ MODULE MallocContractProofs ------------------------
(***************************************************************************)
(* Proofs, for every value of the constants of Malloc, that the allocator   *)
(* leaves the bytes of its client alone and that it implements              *)
(* MallocContract.                                                          *)
(***************************************************************************)
EXTENDS MallocProofs

-----------------------------------------------------------------------------
(* The words of a block lie strictly inside its chunk: those with a header's *)
(* place before the next chunk's header, the others up to the back word.    *)
LEMMA WordIsInside ==
    ASSUME NEW s \in Nat, NEW n \in Nat, n <= Bytes(s) - kMetaSize,
           NEW k \in 0 .. WordCount(n) - 1
    PROVE  /\ k \in Nat /\ 8 * k < n
           /\ k % 2 = 0 => /\ k \div 2 \in Nat /\ 2 * (k \div 2) = k
                           /\ k \div 2 + 1 <= s
           /\ k % 2 # 0 => /\ (k + 1) \div 2 \in Nat /\ 2 * ((k + 1) \div 2) = k + 1
                           /\ (k + 1) \div 2 >= 1 /\ (k + 1) \div 2 < s
<1>1. k \in Nat /\ k + 1 <= WordCount(n) /\ WordCount(n) = (n + 7) \div 8
  BY DEF WordCount, kMetaSize
<1>2. 8 * ((n + 7) \div 8) <= n + 7 /\ (n + 7) \div 8 \in Nat
  OBVIOUS
<1>3. 8 * k < n
  BY <1>1, <1>2
<1>4. n <= 16 * s - 8
  BY DEF Bytes, kAlignment, kMetaSize
<1> QED BY <1>1, <1>3, <1>4

(* The step leaves every word of the block in c as it was.                  *)
Spares(c) ==
    /\ \A x \in Addr : c < x /\ x < Next_(c) => size'[x] = size[x] /\ pinuse'[x] = pinuse[x]
    /\ \A x \in Addr : c < x /\ x <= Next_(c) => back'[x] = back[x]

LEMMA ContentsSame ==
    ASSUME TypeOK, HeapInv, RoomForRequest, NEW c \in live, asked'[c] = asked[c], Spares(c)
    PROVE  Contents(c)' = Contents(c)
<1>0. c \in Chunks
  BY BusyParts
<1>1. /\ c \in Addr /\ c \in Nat /\ size[c] \in Nat /\ Next_(c) = c + size[c]
      /\ Next_(c) \in Addr /\ asked[c] \in Nat /\ asked[c] <= Bytes(size[c]) - kMetaSize
  <2>1. c \in Addr /\ size[c] \in Addr /\ Next_(c) = c + size[c] /\ Next_(c) \in Addr
    BY <1>0, ChunkFacts
  <2>2. c \in Nat /\ size[c] \in Nat
    BY <2>1 DEF Addr
  <2>3. asked[c] \in Nat /\ asked[c] <= Bytes(size[c]) - kMetaSize
    BY <2>1 DEF TypeOK, RoomForRequest
  <2> QED BY <2>1, <2>2, <2>3
<1>2. ASSUME NEW k \in 0 .. WordCount(asked[c]) - 1
      PROVE  Word(c, k)' = Word(c, k)
  <2>1. CASE k % 2 = 0
    <3>1. k \div 2 \in Nat /\ k \div 2 + 1 <= size[c]
      BY <1>1, <2>1, WordIsInside
    <3>2. c + k \div 2 + 1 \in Addr /\ c < c + k \div 2 + 1 /\ c + k \div 2 + 1 <= Next_(c)
      BY <1>1, <3>1, MallocAssumption DEF Addr
    <3> QED BY <2>1, <3>2 DEF Word, Spares
  <2>2. CASE k % 2 # 0
    <3>1. (k + 1) \div 2 \in Nat /\ (k + 1) \div 2 >= 1 /\ (k + 1) \div 2 < size[c]
      BY <1>1, <2>2, WordIsInside
    <3>2. /\ c + (k + 1) \div 2 \in Addr /\ c < c + (k + 1) \div 2
          /\ c + (k + 1) \div 2 < Next_(c)
      BY <1>1, <3>1, MallocAssumption DEF Addr
    <3> QED BY <2>2, <3>2 DEF Word, Spares
  <2> QED BY <2>1, <2>2
<1> QED BY <1>2 DEF Contents

-----------------------------------------------------------------------------
(* What each kind of step writes, and that it spares the other chunks.      *)

(* Writes from the header of chunk d to the one that follows it.            *)
LEMMA OtherChunkSpares ==
    ASSUME TypeOK, HeapInv, NEW c \in Chunks, NEW d \in Chunks, c # d,
           \A x \in Addr : ~(d <= x /\ x <= Next_(d)) =>
              size'[x] = size[x] /\ pinuse'[x] = pinuse[x],
           \A x \in Addr : ~(d < x /\ x <= Next_(d)) => back'[x] = back[x]
    PROVE  Spares(c)
<1>1. /\ c \in Nat /\ d \in Nat /\ Next_(c) \in Nat /\ Next_(d) \in Nat
      /\ c < Next_(c) /\ d < Next_(d)
  BY ChunkFacts DEF Addr
<1>2. Next_(c) <= d \/ Next_(d) <= c
  BY <1>1 DEF HeapInv, Tiled
<1>3. \A x \in Addr : x \in Nat
  BY DEF Addr
<1> QED BY <1>1, <1>2, <1>3 DEF Spares

(* Writes to the header after the last chunk and beyond.                    *)
LEMMA TopSpares ==
    ASSUME TypeOK, HeapInv, NEW c \in Chunks,
           \A x \in Addr : x < first => size'[x] = size[x] /\ pinuse'[x] = pinuse[x],
           back' = back
    PROVE  Spares(c)
<1>1. Next_(c) \in Nat /\ Next_(c) <= first /\ first \in Nat
  BY ChunkFacts DEF Addr, TypeOK
<1>2. \A x \in Addr : x \in Nat
  BY DEF Addr
<1> QED BY <1>1, <1>2 DEF Spares

LEMMA FreeChunkSpares ==
    ASSUME TypeOK, HeapInv, NEW m \in Busy, FreeChunk(m), NEW c \in Busy, c # m
    PROVE  Spares(c)
<1>1. PICK h, e, s, n : /\ h = MergedHead(m) /\ e = MergedEnd(m) /\ s = MergedSize(m)
                        /\ n = Next_(m)
  OBVIOUS
<1>2. /\ h \in Chunks /\ e \in Chunks \union {first}
      /\ e = IF n \in InBins THEN Next_(n) ELSE n
  BY <1>1, MergedBounds
<1>3. /\ \A x \in Addr : x # h => size'[x] = size[x]
      /\ \A x \in Addr : x # e => pinuse'[x] = pinuse[x] /\ back'[x] = back[x]
  <2>1. \A x \in Addr : size'[x] = IF x = h THEN s ELSE size[x]
    BY <1>1, AfterFreeChunkIs
  <2>2. \A x \in Addr : pinuse'[x] = IF x = e THEN FALSE ELSE pinuse[x]
    BY <1>1, AfterFreeChunkIs
  <2>3. \A x \in Addr : back'[x] = IF x = e THEN s ELSE back[x]
    BY <1>1, AfterFreeChunkIs
  <2> QED BY <2>1, <2>2, <2>3
<1>4. c \in Chunks /\ m \in Chunks /\ InBins \subseteq Chunks /\ c \notin InBins
  BY BusyIsNotFree DEF Chunks
<1>5. Next_(c) # e
  BY <1>1, <1>2, <1>4, EndsDiffer
<1>6. /\ c \in Nat /\ h \in Nat /\ e \in Nat /\ Next_(c) \in Nat /\ Next_(c) <= first
      /\ \A x \in Addr : x \in Nat
  <2>1. first \in Nat /\ \A x \in Addr : x \in Nat
    BY DEF TypeOK, Addr
  <2>2. \A d \in Chunks : d \in Nat /\ Next_(d) \in Nat /\ Next_(d) <= first
    BY <2>1, ChunkFacts
  <2> QED BY <1>2, <1>4, <2>1, <2>2
<1>7. ~(c < h /\ h < Next_(c)) /\ ~(c < e /\ e < Next_(c))
  BY <1>2, <1>4, <1>6 DEF HeapInv, Tiled
<1> QED BY <1>3, <1>5, <1>6, <1>7 DEF Spares

(* A store of n bytes into d, where d has room for them.                    *)
LEMMA InsideSpares ==
    ASSUME TypeOK, HeapInv, NEW c \in Chunks, NEW d \in Chunks, c # d, NEW n \in Nat,
           n <= Bytes(size[d]) - kMetaSize,
           \A x \in Addr : x \notin HeaderWords(d, n) =>
              size'[x] = size[x] /\ pinuse'[x] = pinuse[x],
           \A x \in Addr : x \notin BackWords(d, n) => back'[x] = back[x]
    PROVE  Spares(c)
<1>1. d \in Nat /\ size[d] \in Nat /\ Next_(d) = d + size[d] /\ \A x \in Addr : x \in Nat
  BY ChunkFacts DEF Addr
<1>2. n <= 16 * size[d] - 8
  BY DEF Bytes, kAlignment, kMetaSize
<1>3. \A x \in Addr : x \in HeaderWords(d, n) => d <= x /\ x <= Next_(d)
  BY <1>1, <1>2 DEF HeaderWords, Bytes, kAlignment, kMetaSize
<1>4. \A x \in Addr : x \in BackWords(d, n) => d < x /\ x <= Next_(d)
  BY <1>1, <1>2 DEF BackWords, Bytes, kAlignment, kMetaSize
<1> QED BY <1>3, <1>4, OtherChunkSpares

LEMMA TwoWrites ==
    ASSUME NEW S, NEW f \in [Addr -> S], NEW a, NEW b, NEW v, NEW w, NEW x \in Addr,
           x # a, x # b
    PROVE  [f EXCEPT ![a] = v, ![b] = w][x] = f[x]
OBVIOUS

(* The steps of the allocator.                                              *)
LEMMA ConsolidateOneSpares ==
    ASSUME IInv, ConsolidateOne, NEW c \in live
    PROVE  Spares(c)
<1>1. PICK m \in pending : FreeChunk(m)
  BY DEF ConsolidateOne
<1>2. m \in Busy /\ c \in Busy /\ c # m
  BY BusyParts DEF IInv, HeapInv, OwnedOnce
<1> QED BY <1>1, <1>2, FreeChunkSpares DEF IInv

LEMMA ReleaseSpares ==
    ASSUME IInv, Release, NEW c \in live
    PROVE  Spares(c)
<1>1. PICK m \in held : FreeChunk(m)
  BY DEF Release
<1>2. m \in Busy /\ c \in Busy /\ c # m
  BY BusyParts DEF IInv, HeapInv, OwnedOnce
<1> QED BY <1>1, <1>2, FreeChunkSpares DEF IInv

LEMMA AllocateFromBinsSpares ==
    ASSUME IInv, AllocateFromBins, NEW c \in live
    PROVE  Spares(c)
<1>1. PICK d \in InBins :
         LET need == call.need
             remaining == size[d] - need
             rest == d + need
         IN  \/ /\ remaining >= kMinChunk
                /\ size' = [size EXCEPT ![d] = need, ![rest] = remaining]
                /\ pinuse' = [pinuse EXCEPT ![Next_(d)] = FALSE, ![rest] = TRUE]
                /\ back' = [back EXCEPT ![Next_(d)] = remaining]
             \/ /\ pinuse' = [pinuse EXCEPT ![Next_(d)] = TRUE]
                /\ UNCHANGED <<size, back>>
  BY DEF AllocateFromBins, InBins
<1>2. c \in Chunks /\ d \in Chunks /\ c # d
  BY BusyParts DEF IInv, HeapInv, OwnedOnce
<1>3. PICK need, rest : need = call.need /\ rest = d + need
  OBVIOUS
<1>4. need \in Nat
  BY <1>3 DEF IInv, TypeOK
<1>5. /\ d \in Nat /\ size[d] \in Nat /\ Next_(d) = d + size[d] /\ d < Next_(d)
      /\ kMinChunk \in Nat
  BY <1>2, ChunkFacts, MinChunk DEF IInv, Addr
<1>6. \A x \in Addr : ~(d <= x /\ x <= Next_(d)) =>
              size'[x] = size[x] /\ pinuse'[x] = pinuse[x]
  <2>1. CASE /\ size[d] - need >= kMinChunk
             /\ size' = [size EXCEPT ![d] = need, ![rest] = size[d] - need]
             /\ pinuse' = [pinuse EXCEPT ![Next_(d)] = FALSE, ![rest] = TRUE]
    <3>1. d <= rest /\ rest <= Next_(d)
      BY <2>1, <1>3, <1>4, <1>5
    <3>2. d <= d /\ d <= Next_(d) /\ Next_(d) <= Next_(d)
      BY <1>5
    <3>3. size \in [Addr -> Nat] /\ pinuse \in [Addr -> BOOLEAN]
      BY DEF IInv, TypeOK
    <3>4. \A x \in Addr : x # d /\ x # rest => size'[x] = size[x]
      BY <2>1, <3>3, TwoWrites
    <3>5. \A x \in Addr : x # Next_(d) /\ x # rest => pinuse'[x] = pinuse[x]
      BY <2>1, <3>3, TwoWrites
    <3> QED BY <3>1, <3>2, <3>4, <3>5
  <2>2. CASE size' = size /\ pinuse' = [pinuse EXCEPT ![Next_(d)] = TRUE]
    <3>1. \A x \in Addr : x # Next_(d) => pinuse'[x] = pinuse[x]
      BY <2>2 DEF IInv, TypeOK
    <3>2. d <= Next_(d) /\ Next_(d) <= Next_(d)
      BY <1>5
    <3> QED BY <2>2, <3>1, <3>2
  <2> QED BY <1>1, <1>3, <2>1, <2>2
<1>7. \A x \in Addr : ~(d < x /\ x <= Next_(d)) => back'[x] = back[x]
  <2>1. back' = back \/ \E v : back' = [back EXCEPT ![Next_(d)] = v]
    BY <1>1
  <2> QED BY <2>1, <1>5 DEF IInv, TypeOK
<1> QED BY <1>2, <1>6, <1>7, OtherChunkSpares DEF IInv

LEMMA HeapAllocateSpares ==
    ASSUME IInv, HeapAllocate, NEW c \in live
    PROVE  Spares(c)
<1>1. PICK need \in Nat : Carve(need)
  BY DEF HeapAllocate, IInv, TypeOK
<1>2. c \in Chunks /\ first \in Nat
  BY BusyParts DEF IInv, TypeOK, Addr
<1>3. \A x \in Addr : x \in Nat
  BY DEF Addr
<1>4. /\ size' = [size EXCEPT ![first] = need, ![first + need] = 0]
      /\ pinuse' = [pinuse EXCEPT ![first] = TRUE, ![first + need] = TRUE]
      /\ back' = back
  BY <1>1 DEF Carve
<1>5. \A x \in Addr : x < first => size'[x] = size[x] /\ pinuse'[x] = pinuse[x]
  <2>1. \A x \in Addr : x < first => x # first /\ x # first + need
    BY <1>1, <1>2, <1>3
  <2>2. size \in [Addr -> Nat] /\ pinuse \in [Addr -> BOOLEAN]
    BY DEF IInv, TypeOK
  <2> QED BY <2>1, <2>2, <1>4, TwoWrites
<1> QED BY <1>2, <1>4, <1>5, TopSpares DEF IInv

LEMMA ReturnFromCallocSpares ==
    ASSUME IInv, ReturnFromCalloc, NEW c \in live
    PROVE  Spares(c)
<1>1. PICK d \in held : Give(d) /\ Store(d, call.bytes, ZeroWord)
  BY DEF ReturnFromCalloc
<1>2. /\ d \in Busy /\ call.bytes \in Nat /\ call.bytes <= Bytes(size[d]) - kMetaSize
  BY <1>1, GiveIs DEF ReturnFromCalloc
<1>3. c \in Chunks /\ d \in Chunks /\ c # d
  BY <1>2, BusyParts DEF IInv, HeapInv, OwnedOnce
<1>4. ZeroWord \in [size : Nat, pinuse : BOOLEAN]
  BY DEF ZeroWord
<1>5. /\ \A x \in Addr : x \notin HeaderWords(d, call.bytes) =>
            size'[x] = size[x] /\ pinuse'[x] = pinuse[x]
      /\ \A x \in Addr : x \notin BackWords(d, call.bytes) => back'[x] = back[x]
  BY <1>1, <1>4, StoreIs DEF IInv
<1> QED BY <1>2, <1>3, <1>5, InsideSpares DEF IInv

(* memcpy writes the new block only; how much of it, and from where.        *)
LEMMA CopyInReallocIs ==
    ASSUME IInv, CopyInRealloc
    PROVE  \E a \in held, n \in Nat :
              /\ call.old \in live /\ call.old # a /\ held = {a} /\ a \in Busy
              /\ Give(a) /\ Copy(call.old, a, n)
              /\ n <= Bytes(size[call.old]) - kMetaSize /\ n <= Bytes(size[a]) - kMetaSize
              /\ \A k : k < call.bytes /\ k < Bytes(size[call.old]) - kMetaSize => k < n
<1>1. PICK a \in held :
         LET room == Bytes(size[call.old]) - kMetaSize
         IN  /\ Give(a)
             /\ Copy(call.old, a, IF room < call.bytes THEN room ELSE call.bytes)
  BY DEF CopyInRealloc
<1>2. pc = "return" /\ call.op = "realloc" /\ TypeOK /\ HeapInv
  BY DEF CopyInRealloc, IInv
<1>3. /\ held = {a} /\ Allocating /\ a \in Busy
      /\ call.bytes \in Nat /\ call.bytes <= Bytes(size[a]) - kMetaSize
  BY <1>1, <1>2, GiveIs
<1>4. call.old \in live /\ call.old # a /\ call.old \in Busy
  BY <1>2, <1>3, BusyParts DEF Allocating, HeapInv, OwnedOnce
<1>5. size[call.old] \in Nat /\ size[call.old] >= 2 /\ size[a] \in Nat
  <2>1. call.old \in Chunks /\ a \in Chunks
    BY <1>2, <1>3, <1>4, BusyParts
  <2> QED BY <2>1, <1>2, ChunkFacts DEF Addr
<1> DEFINE room == Bytes(size[call.old]) - kMetaSize
           n == IF room < call.bytes THEN room ELSE call.bytes
<1>6. room \in Nat /\ Bytes(size[a]) - kMetaSize \in Int
  BY <1>5 DEF Bytes, kAlignment, kMetaSize
<1>7. Give(a) /\ Copy(call.old, a, n)
  BY <1>1
<1> HIDE DEF room
<1>8. /\ n \in Nat /\ n <= room /\ n <= Bytes(size[a]) - kMetaSize
      /\ \A k : k < call.bytes /\ k < room => k < n
  BY <1>6, <1>3
<1> HIDE DEF n
<1> QED BY <1>3, <1>4, <1>7, <1>8 DEF room

LEMMA CopyInReallocSpares ==
    ASSUME IInv, CopyInRealloc, NEW c \in live
    PROVE  Spares(c)
<1>1. PICK a \in held, n \in Nat :
         /\ call.old \in live /\ a \in Busy /\ Copy(call.old, a, n)
         /\ n <= Bytes(size[call.old]) - kMetaSize /\ n <= Bytes(size[a]) - kMetaSize
  BY CopyInReallocIs
<1>2. call.old \in Busy /\ a \in Addr /\ c \in Chunks /\ a \in Chunks /\ c # a
  BY <1>1, BusyParts DEF IInv, HeapInv, OwnedOnce
<1>3. /\ \A x \in Addr : x \notin HeaderWords(a, n) =>
            size'[x] = size[x] /\ pinuse'[x] = pinuse[x]
      /\ \A x \in Addr : x \notin BackWords(a, n) => back'[x] = back[x]
  BY <1>1, <1>2, CopyIs DEF IInv
<1> QED BY <1>1, <1>2, <1>3, InsideSpares DEF IInv

LEMMA QuietSpares ==
    ASSUME UNCHANGED memory, NEW c
    PROVE  Spares(c)
BY DEF memory, Spares

LEMMA RunningSpares ==
    ASSUME IInv, Running, NEW c \in live
    PROVE  Spares(c)
<1>1. ASSUME UNCHANGED memory PROVE Spares(c)
  BY <1>1, QuietSpares
<1>2. CASE ConsolidateOne
  BY <1>2, ConsolidateOneSpares
<1>3. CASE AllocateFromBins
  BY <1>3, AllocateFromBinsSpares
<1>4. CASE HeapAllocate
  BY <1>4, HeapAllocateSpares
<1>5. CASE ReturnFromCalloc
  BY <1>5, ReturnFromCallocSpares
<1>6. CASE CopyInRealloc
  BY <1>6, CopyInReallocSpares
<1>7. CASE Release
  BY <1>7, ReleaseSpares
<1>8. CASE ConsolidateDone \/ BinsHaveNothing \/ HeapFails
  BY <1>1, <1>8 DEF ConsolidateDone, BinsHaveNothing, HeapFails
<1>9. CASE ReturnNull \/ ReturnFromMalloc
  BY <1>1, <1>9 DEF ReturnNull, ReturnFromMalloc
<1>10. CASE BeginFree
  BY <1>1, <1>10 DEF BeginFree, FreeAborts, FreeChecks
<1> QED BY <1>2, <1>3, <1>4, <1>5, <1>6, <1>7, <1>8, <1>9, <1>10 DEF Running

(* The sizes of the blocks that stay stay with them.                        *)
LEMMA RunningAsked ==
    ASSUME IInv, Running, NEW c \in live, c \in live'
    PROVE  asked'[c] = asked[c]
<1>1. CASE ReturnFromMalloc \/ ReturnFromCalloc \/ CopyInRealloc
  <2>1. PICK d \in held : Give(d)
    BY <1>1 DEF ReturnFromMalloc, ReturnFromCalloc, CopyInRealloc
  <2>2. pc = "return" /\ c # d
    BY <1>1 DEF ReturnFromMalloc, ReturnFromCalloc, CopyInRealloc, IInv, HeapInv, OwnedOnce
  <2>3. live' = (live \ {call.old}) \union {d}
        /\ \A x \in live : x # d /\ x # call.old => asked'[x] = asked[x]
    BY <2>1, <2>2, GiveIs
  <2> QED BY <2>2, <2>3
<1>2. CASE ~(ReturnFromMalloc \/ ReturnFromCalloc \/ CopyInRealloc)
  <2>1. ConsolidateOne \/ ConsolidateDone \/ AllocateFromBins \/ BinsHaveNothing
        \/ HeapFails \/ HeapAllocate \/ ReturnNull \/ BeginFree \/ Release
    BY <1>2 DEF Running
  <2> QED BY <2>1 DEF ConsolidateOne, ConsolidateDone, AllocateFromBins,
             BinsHaveNothing, HeapFails, HeapAllocate, ReturnNull, BeginFree, FreeAborts,
             FreeChecks, Release, client
<1> QED BY <1>1, <1>2

(* No step of the allocator changes a byte of a block the client has, for   *)
(* any sizes, any order of the lists and whatever the client stored: splits, *)
(* merges and tags stay out of it.                                          *)
THEOREM AllocatorSparesClientData == Spec => ClientDataKept
<1>1. ASSUME IInv, [Next]_vars
      PROVE  [Running => \A c \in live \intersect live' : Contents(c)' = Contents(c)]_vars
  <2>1. ASSUME Running, NEW c \in live, c \in live'
        PROVE  Contents(c)' = Contents(c)
    BY <1>1, <2>1, RunningSpares, RunningAsked, ContentsSame DEF IInv
  <2> QED BY <2>1
<1> QED BY <1>1, Invariance, PTL DEF Spec, ClientDataKept

-----------------------------------------------------------------------------
(* The refinement of MallocContract.                                        *)

(* What a call is called where it is, beyond IInv.                          *)
OpTells ==
    /\ pc = "idle" => call.op = "none"
    /\ pc \in {"free", "release"} => call.op = "free"
    /\ pc = "consolidate" /\ held # {} => call.op = "free"

LEMMA NoCallIs ==
    /\ NoCall.op = "none" /\ [NoCall EXCEPT !.op = "free"].op = "free"
    /\ [NoCall EXCEPT !.op = "free"].old = Null
BY DEF NoCall

(* What Allocate leaves: a call that is over, a realloc that frees, or an   *)
(* allocation under way.                                                    *)
LEMMA AllocateIs ==
    ASSUME IInv, pc = "idle", NEW n \in Requests,
           NEW op \in {"malloc", "calloc", "realloc"}, NEW old \in live \union {Null},
           op = "realloc" => old \in live, Allocate(op, n, old)
    PROVE  /\ \A c \in live : Spares(c)
           /\ \/ /\ live' = live /\ asked' = asked /\ held' = {} /\ call'.op = "none"
                 /\ pc' = "idle"
              \/ /\ old \in live
                 /\ live' = live \ {old} /\ asked' = [asked EXCEPT ![old] = 0]
                 /\ call'.op = "free" /\ pc' = "free"
              \/ /\ live' = live /\ asked' = asked /\ call'.op = op
                 /\ pc' \in {"return", "bins"} \/ (pc' = "consolidate" /\ held' = {})
<1>1. held = {}
  BY DEF IInv, CallInOrder
<1>2. CASE Bytes(ChunkSize(n)) > kMmapThreshold /\ MmapAllocate(op, ChunkSize(n), old)
  <2>1. UNCHANGED memory
    BY <1>2 DEF MmapAllocate
  <2>2. \/ EndCall /\ live' = live /\ asked' = asked /\ held' = {}
        \/ /\ op = "realloc" /\ live' = live \ {old} /\ asked' = [asked EXCEPT ![old] = 0]
           /\ pc' = "free" /\ call' = [NoCall EXCEPT !.op = "free"]
    BY <1>1, <1>2 DEF MmapAllocate, client
  <2> QED BY <2>1, <2>2, NoCallIs, QuietSpares DEF EndCall
<1>3. CASE /\ call' = [op |-> op, bytes |-> n, need |-> ChunkSize(n), old |-> old]
           /\ AllocateFromFastBins(ChunkSize(n)) /\ UNCHANGED <<heap, client>>
  <2>1. call'.op = op /\ live' = live /\ asked' = asked /\ pc' \in {"return", "bins"}
    BY <1>3 DEF client, AllocateFromFastBins
  <2>2. ASSUME NEW c \in live PROVE Spares(c)
    <3>1. CASE UNCHANGED memory
      BY <3>1, QuietSpares
    <3>2. CASE \E d \in Members(fast) : /\ pinuse' = [pinuse EXCEPT ![Next_(d)] = TRUE]
                                        /\ UNCHANGED <<size, back>>
      <4>1. PICK d \in Members(fast) : /\ pinuse' = [pinuse EXCEPT ![Next_(d)] = TRUE]
                                       /\ size' = size /\ back' = back
        BY <3>2
      <4>2. c \in Chunks /\ d \in Chunks /\ c # d
        BY BusyParts DEF IInv, HeapInv, OwnedOnce
      <4>3. d \in Nat /\ Next_(d) \in Nat /\ d < Next_(d)
        BY <4>2, ChunkFacts DEF IInv, Addr
      <4>4. \A x \in Addr : x # Next_(d) => pinuse'[x] = pinuse[x]
        BY <4>1 DEF IInv, TypeOK
      <4>5. d <= Next_(d) /\ Next_(d) <= Next_(d)
        BY <4>3
      <4>6. \A x \in Addr : ~(d <= x /\ x <= Next_(d)) =>
              size'[x] = size[x] /\ pinuse'[x] = pinuse[x]
        BY <4>1, <4>4, <4>5
      <4> QED BY <4>1, <4>2, <4>6, OtherChunkSpares DEF IInv
    <3> QED BY <1>3, <3>1, <3>2 DEF AllocateFromFastBins
  <2> QED BY <2>1, <2>2
<1>4. CASE /\ call' = [op |-> op, bytes |-> n, need |-> ChunkSize(n), old |-> old]
           /\ ExtractAll /\ pc' = "consolidate" /\ UNCHANGED <<memory, bins, held>>
           /\ UNCHANGED <<heap, client>>
  <2>1. call'.op = op /\ live' = live /\ asked' = asked /\ held' = {}
    BY <1>1, <1>4 DEF client
  <2> QED BY <2>1, <1>4, QuietSpares
<1> QED BY <1>2, <1>3, <1>4 DEF Allocate

LEMMA CallReallocIs ==
    ASSUME IInv, CallRealloc
    PROVE  \E p \in live, n \in Requests :
              \/ pc' = "aborted" /\ UNCHANGED <<memory, client, call>>
              \/ /\ ChunkSize(n) <= size[p] /\ asked' = [asked EXCEPT ![p] = n]
                 /\ UNCHANGED <<memory, live, held, call, pc>>
              \/ pc = "idle" /\ Allocate("realloc", n, p)
BY DEF CallRealloc, Abort

LEMMA RunningOpTells ==
    ASSUME IInv, OpTells, Running
    PROVE  OpTells'
<1>1. CASE ConsolidateOne \/ ConsolidateDone
  BY <1>1 DEF OpTells, ConsolidateOne, ConsolidateDone
<1>2. CASE AllocateFromBins \/ BinsHaveNothing \/ HeapFails \/ HeapAllocate
  BY <1>2 DEF OpTells, AllocateFromBins, BinsHaveNothing, HeapFails, HeapAllocate
<1>3. CASE ReturnNull \/ ReturnFromMalloc \/ ReturnFromCalloc \/ Release
  BY <1>3, NoCallIs
  DEF OpTells, ReturnNull, ReturnFromMalloc, ReturnFromCalloc, Release, EndCall
<1>4. CASE CopyInRealloc
  BY <1>4, NoCallIs DEF OpTells, CopyInRealloc
<1>5. CASE BeginFree
  <2>1. pc = "free" /\ call.op = "free"
    BY <1>5 DEF BeginFree, OpTells
  <2>2. pc' = "aborted" \/ EndCall \/ (pc' \in {"consolidate", "release"} /\ call' = call)
    BY <1>5 DEF BeginFree, FreeAborts, FreeChecks
  <2> QED BY <2>1, <2>2, NoCallIs DEF OpTells, EndCall
<1> QED BY <1>1, <1>2, <1>3, <1>4, <1>5 DEF Running

LEMMA ClientOpTells ==
    ASSUME IInv, OpTells, Client
    PROVE  OpTells'
<1>1. pc = "idle" /\ call.op = "none"
  BY DEF Client, CallMalloc, CallCalloc, CallRealloc, CallFree, CallFreeRegion,
         CallReallocRegion, ClientWrites, OpTells
<1>2. ASSUME NEW n \in Requests, NEW op \in {"malloc", "calloc", "realloc"},
             NEW old \in live \union {Null}, op = "realloc" => old \in live,
             Allocate(op, n, old)
      PROVE  OpTells'
  BY <1>1, <1>2, AllocateIs DEF OpTells
<1>3. CASE CallMalloc \/ CallCalloc
  BY <1>2, <1>3 DEF CallMalloc, CallCalloc
<1>4. CASE CallRealloc
  BY <1>1, <1>2, <1>4, CallReallocIs DEF OpTells
<1>5. CASE CallFree
  BY <1>5, NoCallIs DEF CallFree, OpTells
<1>6. CASE CallFreeRegion \/ CallReallocRegion \/ ClientWrites
  BY <1>1, <1>6 DEF CallFreeRegion, CallReallocRegion, ClientWrites, Abort, OpTells
<1> QED BY <1>3, <1>4, <1>5, <1>6 DEF Client

LEMMA OpTellsHolds == Spec => []OpTells
<1>1. Init => OpTells
  BY NoCallIs DEF Init, OpTells
<1>2. IInv /\ OpTells /\ [Next]_vars => OpTells'
  BY RunningOpTells, ClientOpTells DEF Next, vars, OpTells
<1> QED BY <1>1, <1>2, Invariance, PTL DEF Spec

-----------------------------------------------------------------------------
(* Steps that MallocContract does not see, and steps that end a call with   *)
(* nothing for the client.                                                  *)
LEMMA KeepsContents ==
    ASSUME IInv, NEW S, S \subseteq live, S \subseteq live',
           \A c \in S : Spares(c) /\ asked'[c] = asked[c]
    PROVE  Contract!Keeps(S)
<1>1. \A c \in S : Contents(c)' = Contents(c)
  BY ContentsSame DEF IInv
<1> QED BY <1>1 DEF Contract!Keeps

LEMMA Stutters ==
    ASSUME IInv, \A c \in live : Spares(c), live' = live, asked' = asked,
           call'.op = call.op
    PROVE  UNCHANGED Contract!contract
<1>1. \A c \in live : Contents(c)' = Contents(c)
  BY ContentsSame DEF IInv
<1>2. [c \in live |-> Contents(c)]' = [c \in live |-> Contents(c)]
  BY <1>1
<1> QED BY <1>2 DEF Contract!contract

LEMMA Ends ==
    ASSUME IInv, \A c \in live : Spares(c), live' = live, asked' = asked,
           call.op # "none", call'.op = "none"
    PROVE  Contract!Next
BY KeepsContents DEF Contract!Next, Contract!End

LEMMA Begins ==
    ASSUME IInv, \A c \in live : Spares(c), live' = live, asked' = asked,
           call.op = "none", call'.op \in {"malloc", "calloc", "realloc"}
    PROVE  Contract!Next
BY KeepsContents DEF Contract!Next, Contract!Begin

LEMMA Frees ==
    ASSUME IInv, \A c \in live : Spares(c), NEW p \in live, live' = live \ {p},
           asked' = [asked EXCEPT ![p] = 0], call.op = "none", call'.op = "free"
    PROVE  Contract!Next
<1>1. asked \in [Addr -> Nat]
  BY DEF IInv, TypeOK
<1>2. \A c \in live \ {p} : asked'[c] = asked[c]
  BY <1>1 DEF IInv, TypeOK
<1>3. Contract!Keeps(live \ {p})
  BY <1>2, KeepsContents
<1> QED BY <1>3 DEF Contract!Next, Contract!Free

(* Blocks in different chunks are apart.                                    *)
LEMMA ChunksAreApart ==
    ASSUME IInv, NEW a \in Chunks, NEW n \in Nat, n <= Bytes(size[a]) - kMetaSize,
           NEW S, S \subseteq live, a \notin S
    PROVE  Contract!Apart(a, n, S)
<1>1. ASSUME NEW b \in S
      PROVE  16 * a + n <= 16 * b \/ 16 * b + asked[b] <= 16 * a
  <2>1. b \in Chunks /\ a # b /\ b \in live
    BY BusyParts DEF IInv
  <2>2. /\ a \in Nat /\ b \in Nat /\ size[a] \in Nat /\ size[b] \in Nat
        /\ Next_(a) = a + size[a] /\ Next_(b) = b + size[b]
    BY <2>1, ChunkFacts DEF IInv, Addr
  <2>3. Next_(a) <= b \/ Next_(b) <= a
    BY <2>1, <2>2 DEF IInv, HeapInv, Tiled
  <2>4. asked[b] \in Nat /\ asked[b] <= Bytes(size[b]) - kMetaSize
    BY <2>1 DEF IInv, TypeOK, RoomForRequest
  <2>5. n <= 16 * size[a] - 8 /\ asked[b] <= 16 * size[b] - 8
    BY <2>4 DEF Bytes, kAlignment, kMetaSize
  <2> QED BY <2>2, <2>3, <2>4, <2>5
<1> QED BY <1>1 DEF Contract!Apart

LEMMA QuietRefines ==
    ASSUME IInv, OpTells, ConsolidateOne \/ ConsolidateDone \/ AllocateFromBins
           \/ BinsHaveNothing \/ HeapFails \/ HeapAllocate
    PROVE  UNCHANGED Contract!contract
<1>1. Running
  BY DEF Running
<1>2. live' = live /\ asked' = asked /\ call' = call
  BY DEF ConsolidateOne, ConsolidateDone, AllocateFromBins, BinsHaveNothing,
         HeapFails, HeapAllocate, client
<1> QED BY <1>1, <1>2, RunningSpares, Stutters

LEMMA EndRefines ==
    ASSUME IInv, OpTells, ReturnNull \/ Release
    PROVE  Contract!Next
<1>1. Running
  BY DEF Running
<1>2. live' = live /\ asked' = asked /\ call'.op = "none"
  BY NoCallIs DEF ReturnNull, Release, EndCall, client
<1>3. call.op # "none"
  BY DEF ReturnNull, Release, IInv, CallInOrder, Allocating, OpTells
<1> QED BY <1>1, <1>2, <1>3, RunningSpares, Ends

LEMMA BeginFreeRefines ==
    ASSUME IInv, OpTells, BeginFree
    PROVE  Contract!Next \/ UNCHANGED Contract!contract
<1>1. Running
  BY DEF Running
<1>2. live' = live /\ asked' = asked /\ call.op = "free" /\ (call' = call \/ call' = NoCall)
  BY DEF BeginFree, FreeAborts, FreeChecks, EndCall, client, OpTells
<1> QED BY <1>1, <1>2, NoCallIs, RunningSpares, Stutters, Ends

(* The block malloc or calloc returns is new to the client, and apart.      *)
LEMMA GiveRefines ==
    ASSUME IInv, pc = "return", call.op # "realloc", NEW c \in held, Give(c), held' = {},
           fast' = fast, pending' = pending, EndCall, \A d \in live : Spares(d)
    PROVE  c \in Addr /\ call.bytes \in Requests /\ Contract!Give(c, call.bytes)
<1>1. /\ live' = live \union {c} /\ \A x \in live : x # c => asked'[x] = asked[x]
  BY GiveAdds
<1>2. /\ c \in Addr /\ c \in Chunks /\ Allocating /\ call.old = Null
      /\ call.bytes \in Nat /\ call.bytes <= Bytes(size[c]) - kMetaSize
  BY GiveIs, BusyParts DEF Allocating, IInv
<1>3. c \notin live
  BY DEF IInv, HeapInv, OwnedOnce
<1>4. asked' = [asked EXCEPT ![c] = call.bytes]
  <2>1. asked' = [x \in Addr |-> IF x = c THEN call.bytes
                                  ELSE IF x = call.old THEN 0 ELSE asked[x]]
    BY DEF Give
  <2>2. Null \notin Addr /\ asked \in [Addr -> Nat]
    BY NullIsNowhere DEF IInv, TypeOK
  <2> QED BY <2>1, <2>2, <1>2
<1>5. Contract!Keeps(live)
  BY <1>1, <1>3, KeepsContents
<1>6. Contract!Apart(c, call.bytes, live)
  BY <1>2, <1>3, ChunksAreApart
<1>7. call'.op = "none"
  BY NoCallIs DEF EndCall
<1> QED BY <1>1, <1>2, <1>3, <1>4, <1>5, <1>6, <1>7 DEF Contract!Give, Allocating

LEMMA ReturnFromMallocRefines ==
    ASSUME IInv, ReturnFromMalloc
    PROVE  Contract!Next
<1>1. PICK c \in held : Give(c)
  BY DEF ReturnFromMalloc
<1>2. /\ pc = "return" /\ call.op = "malloc" /\ held' = {} /\ EndCall
      /\ fast' = fast /\ pending' = pending /\ Running
  BY DEF ReturnFromMalloc, lists, Running
<1>3. c \in Addr /\ call.bytes \in Requests /\ Contract!Give(c, call.bytes)
  BY <1>1, <1>2, RunningSpares, GiveRefines
<1> QED BY <1>2, <1>3 DEF Contract!Next, Contract!Malloc

(* memset reaches every word of the block.                                  *)
LEMMA StoreFills ==
    ASSUME TypeOK, NEW c \in Addr, NEW s \in Nat, c + s \in Addr, NEW n \in Nat,
           n <= Bytes(s) - kMetaSize, Store(c, n, ZeroWord), asked'[c] = n,
           NEW k \in 0 .. WordCount(n) - 1
    PROVE  Word(c, k)' = ZeroWord
<1>1. c \in Nat /\ kHeapLimit \in Nat
  BY MallocAssumption DEF Addr
<1>2. k \in Nat /\ 8 * k < n
  BY WordIsInside
<1>3. CASE k % 2 = 0
  <2>1. k \div 2 \in Nat /\ k \div 2 + 1 <= s /\ 2 * (k \div 2) = k
    BY <1>3, WordIsInside
  <2>2. PICK x : x = c + k \div 2 + 1
    OBVIOUS
  <2>3. x \in Addr /\ c < x /\ x - c = k \div 2 + 1
    BY <1>1, <2>1, <2>2 DEF Addr
  <2>4. x \in BackWords(c, n)
    BY <1>1, <1>2, <2>1, <2>3 DEF BackWords, Bytes, kAlignment
  <2>5. back'[x] = 0
    BY <2>3, <2>4 DEF Store, ZeroWord
  <2> QED BY <1>3, <2>2, <2>5 DEF Word, ZeroWord
<1>4. CASE k % 2 # 0
  <2>1. /\ (k + 1) \div 2 \in Nat /\ (k + 1) \div 2 < s /\ 2 * ((k + 1) \div 2) = k + 1
        /\ (k + 1) \div 2 >= 1
    BY <1>4, WordIsInside
  <2>2. PICK x : x = c + (k + 1) \div 2
    OBVIOUS
  <2>3. x \in Addr /\ c < x /\ x - c = (k + 1) \div 2
    BY <1>1, <2>1, <2>2 DEF Addr
  <2>4. x \in HeaderWords(c, n)
    BY <1>1, <1>2, <2>1, <2>3 DEF HeaderWords, Bytes, kAlignment, kMetaSize
  <2>5. size'[x] = 0 /\ pinuse'[x] = FALSE
    BY <2>3, <2>4 DEF Store, ZeroWord
  <2> QED BY <1>4, <2>2, <2>5 DEF Word, ZeroWord
<1> QED BY <1>3, <1>4

LEMMA ReturnFromCallocRefines ==
    ASSUME IInv, ReturnFromCalloc
    PROVE  Contract!Next
<1>1. PICK c \in held : Give(c) /\ Store(c, call.bytes, ZeroWord)
  BY DEF ReturnFromCalloc
<1>2. /\ pc = "return" /\ call.op = "calloc" /\ held' = {} /\ EndCall
      /\ fast' = fast /\ pending' = pending /\ Running
  BY DEF ReturnFromCalloc, lists, Running
<1>3. c \in Addr /\ call.bytes \in Requests /\ Contract!Give(c, call.bytes)
  BY <1>1, <1>2, RunningSpares, GiveRefines
<1>4. /\ c \in Chunks /\ live' = live \union {c} /\ asked'[c] = call.bytes
      /\ call.bytes \in Nat /\ call.bytes <= Bytes(size[c]) - kMetaSize
  BY <1>1, <1>2, GiveIs, GiveAdds, BusyParts DEF IInv
<1>5. size[c] \in Nat /\ c + size[c] \in Addr
  BY <1>4, ChunkFacts DEF IInv, Addr
<1>6. \A k \in 0 .. WordCount(call.bytes) - 1 : Word(c, k)' = ZeroWord
  BY <1>1, <1>3, <1>4, <1>5, StoreFills DEF IInv
<1>7. Contents(c)' = [k \in 0 .. WordCount(call.bytes) - 1 |-> ZeroWord]
  BY <1>4, <1>6 DEF Contents
<1>8. [d \in live |-> Contents(d)]'[c] = Contents(c)'
  BY <1>4
<1>9. \A k \in DOMAIN [d \in live |-> Contents(d)]'[c] :
         [d \in live |-> Contents(d)]'[c][k] = ZeroWord
  BY <1>7, <1>8
<1>10. Contract!Calloc(c, call.bytes)
  BY <1>2, <1>3, <1>9 DEF Contract!Calloc
<1> QED BY <1>3, <1>10 DEF Contract!Next

(* memcpy brings over every word that both blocks have.                     *)
LEMMA CopyBrings ==
    ASSUME TypeOK, NEW p \in Addr, NEW c \in Addr, NEW s \in Nat, c + s \in Addr,
           NEW m \in Nat, m <= Bytes(s) - kMetaSize,
           NEW n \in Nat, Copy(p, c, n),
           NEW k \in 0 .. WordCount(m) - 1, 8 * k < n
    PROVE  Word(c, k)' = Word(p, k)
<1>1. c \in Nat /\ p \in Nat /\ kHeapLimit \in Nat
  BY MallocAssumption DEF Addr
<1>2. k \in Nat
  BY WordIsInside
<1>3. CASE k % 2 = 0
  <2>1. k \div 2 \in Nat /\ k \div 2 + 1 <= s /\ 2 * (k \div 2) = k
    BY <1>3, WordIsInside
  <2>2. PICK x : x = c + k \div 2 + 1
    OBVIOUS
  <2>3. x \in Addr /\ c < x /\ x - c = k \div 2 + 1 /\ x - c + p = p + k \div 2 + 1
    BY <1>1, <2>1, <2>2 DEF Addr
  <2>4. x \in BackWords(c, n)
    BY <1>1, <1>2, <2>1, <2>3 DEF BackWords, Bytes, kAlignment
  <2>5. back'[x] = back[p + k \div 2 + 1]
    BY <2>3, <2>4 DEF Copy
  <2> QED BY <1>3, <2>2, <2>5 DEF Word
<1>4. CASE k % 2 # 0
  <2>1. /\ (k + 1) \div 2 \in Nat /\ (k + 1) \div 2 < s /\ 2 * ((k + 1) \div 2) = k + 1
        /\ (k + 1) \div 2 >= 1
    BY <1>4, WordIsInside
  <2>2. PICK x : x = c + (k + 1) \div 2
    OBVIOUS
  <2>3. /\ x \in Addr /\ c < x /\ x - c = (k + 1) \div 2
        /\ x - c + p = p + (k + 1) \div 2
    BY <1>1, <2>1, <2>2 DEF Addr
  <2>4. x \in HeaderWords(c, n)
    BY <1>1, <1>2, <2>1, <2>3 DEF HeaderWords, Bytes, kAlignment, kMetaSize
  <2>5. size'[x] = size[p + (k + 1) \div 2] /\ pinuse'[x] = pinuse[p + (k + 1) \div 2]
    BY <2>3, <2>4 DEF Copy
  <2> QED BY <1>4, <2>2, <2>5 DEF Word
<1> QED BY <1>3, <1>4

LEMMA CopyInReallocRefines ==
    ASSUME IInv, CopyInRealloc
    PROVE  Contract!Next
<1>1. PICK a \in held, n \in Nat :
         /\ call.old \in live /\ call.old # a /\ held = {a} /\ a \in Busy
         /\ Give(a) /\ Copy(call.old, a, n)
         /\ \A k : k < call.bytes /\ k < Bytes(size[call.old]) - kMetaSize => k < n
  BY CopyInReallocIs
<1>2. PICK old : old = call.old
  OBVIOUS
<1>3. /\ call.op = "realloc" /\ pc = "return" /\ call'.op = "free"
      /\ Running
  BY NoCallIs DEF CopyInRealloc, Running
<1>4. /\ a \in Chunks /\ a \in Addr /\ old \in live /\ old \in Addr
      /\ old # a /\ a \notin live
      /\ call.bytes \in Requests /\ call.bytes \in Nat
      /\ call.bytes <= Bytes(size[a]) - kMetaSize
      /\ live' = (live \ {old}) \union {a} /\ asked'[a] = call.bytes
  BY <1>1, <1>2, <1>3, GiveIs, BusyParts DEF IInv, HeapInv, OwnedOnce, Allocating
<1>5. asked' = [asked EXCEPT ![old] = 0, ![a] = call.bytes]
  <2>1. asked' = [x \in Addr |-> IF x = a THEN call.bytes
                                  ELSE IF x = old THEN 0 ELSE asked[x]]
    BY <1>1, <1>2 DEF Give
  <2>2. asked \in [Addr -> Nat]
    BY DEF IInv, TypeOK
  <2> QED BY <2>1, <2>2, <1>4
<1>6. Contract!Keeps(live \ {old})
  <2>1. \A c \in live \ {old} : Spares(c) /\ c \in live'
    BY <1>3, <1>4, RunningSpares
  <2>2. \A c \in live \ {old} : asked'[c] = asked[c]
    BY <1>3, <2>1, RunningAsked
  <2> QED BY <2>1, <2>2, KeepsContents
<1>7. Contract!Apart(a, call.bytes, live)
  BY <1>4, ChunksAreApart
<1>8. /\ asked[old] \in Nat /\ size[old] \in Nat /\ size[a] \in Nat /\ a + size[a] \in Addr
      /\ asked[old] <= Bytes(size[old]) - kMetaSize
  <2>1. old \in Chunks
    BY <1>4, BusyParts DEF IInv
  <2>2. size[old] \in Nat /\ size[a] \in Nat /\ a + size[a] \in Addr
    BY <2>1, <1>4, ChunkFacts DEF IInv, Addr
  <2> QED BY <2>2, <1>4 DEF IInv, TypeOK, RoomForRequest
<1>9. ASSUME NEW k \in 0 .. WordCount(call.bytes) - 1, k \in 0 .. WordCount(asked[old]) - 1
      PROVE  Word(a, k)' = Word(old, k)
  <2>1. 8 * k < call.bytes
    BY <1>4, <1>8, WordIsInside
  <2>2. 8 * k < asked[old] /\ k \in Nat
    BY <1>9, <1>8, WordIsInside
  <2>3. 8 * k < Bytes(size[old]) - kMetaSize
    BY <2>2, <1>8 DEF Bytes, kAlignment, kMetaSize
  <2>4. 8 * k < n
    BY <1>1, <1>2, <2>1, <2>3
  <2> QED BY <1>1, <1>2, <1>4, <1>8, <1>9, <2>4, CopyBrings DEF IInv
<1>10. /\ [c \in live |-> Contents(c)]'[a] = Contents(a)'
       /\ [c \in live |-> Contents(c)][old] = Contents(old)
  BY <1>4
<1>11. /\ Contents(a)' = [k \in 0 .. WordCount(call.bytes) - 1 |-> Word(a, k)']
       /\ Contents(old) = [k \in 0 .. WordCount(asked[old]) - 1 |-> Word(old, k)]
  BY <1>4 DEF Contents
<1>12. Contract!Agree([c \in live |-> Contents(c)]'[a], [c \in live |-> Contents(c)][old])
  <2>1. PICK new, was : new = Contents(a)' /\ was = Contents(old)
    OBVIOUS
  <2>2. \A k \in DOMAIN new \intersect DOMAIN was : new[k] = was[k]
    <3>1. /\ DOMAIN new = 0 .. WordCount(call.bytes) - 1
          /\ DOMAIN was = 0 .. WordCount(asked[old]) - 1
      BY <2>1, <1>11
    <3>2. \A k \in DOMAIN new : new[k] = Word(a, k)'
      BY <3>1, <2>1, <1>11
    <3>3. \A k \in DOMAIN was : was[k] = Word(old, k)
      BY <3>1, <2>1, <1>11
    <3> QED BY <3>1, <3>2, <3>3, <1>9
  <2> QED BY <2>1, <2>2, <1>10 DEF Contract!Agree
<1>13. Contract!Move(old, a, call.bytes)
  BY <1>3, <1>4, <1>5, <1>6, <1>7, <1>12 DEF Contract!Move
<1> QED BY <1>4, <1>13 DEF Contract!Next

(* The calls of the client.                                                 *)
LEMMA AllocateRefines ==
    ASSUME IInv, OpTells, pc = "idle", NEW n \in Requests,
           NEW op \in {"malloc", "calloc", "realloc"}, NEW old \in live \union {Null},
           op = "realloc" => old \in live, Allocate(op, n, old)
    PROVE  Contract!Next \/ UNCHANGED Contract!contract
<1>1. call.op = "none"
  BY DEF OpTells
<1> QED BY <1>1, AllocateIs, Stutters, Frees, Begins

(* A block shrunk, or grown into the room its chunk has left.               *)
LEMMA ResizeRefines ==
    ASSUME IInv, OpTells, pc = "idle", NEW p \in live, NEW n \in Requests,
           ChunkSize(n) <= size[p], asked' = [asked EXCEPT ![p] = n],
           UNCHANGED <<memory, live, held, call, pc>>
    PROVE  Contract!Next
<1>1. p \in Chunks /\ p \in Addr /\ call.op = "none"
  BY BusyParts, ChunkFacts DEF IInv, OpTells
<1>2. asked \in [Addr -> Nat] /\ live' = live
  BY DEF IInv, TypeOK
<1>3. \A c \in live \ {p} : asked'[c] = asked[c] /\ Spares(c)
  BY <1>2, QuietSpares DEF IInv, TypeOK
<1>4. Contract!Keeps(live \ {p})
  BY <1>2, <1>3, KeepsContents
<1>5. n \in Nat /\ n <= Bytes(size[p]) - kMetaSize
  <2>1. size[p] \in Nat
    BY <1>1, ChunkFacts DEF IInv, Addr
  <2> QED BY <2>1, ChunkSizeFits, RequestsAssumption DEF Bytes, kAlignment, kMetaSize
<1>6. Contract!Apart(p, n, live \ {p})
  BY <1>1, <1>5, ChunksAreApart
<1>7. \A k : Word(p, k)' = Word(p, k)
  BY DEF Word, memory
<1>8. /\ [c \in live |-> Contents(c)]'[p] = Contents(p)'
      /\ [c \in live |-> Contents(c)][p] = Contents(p)
  BY <1>2
<1>9. Contract!Agree([c \in live |-> Contents(c)]'[p], [c \in live |-> Contents(c)][p])
  BY <1>7, <1>8 DEF Contract!Agree, Contents
<1>10. Contract!Resize(p, n)
  BY <1>1, <1>2, <1>4, <1>6, <1>9 DEF Contract!Resize
<1> QED BY <1>10 DEF Contract!Next

LEMMA CallReallocRefines ==
    ASSUME IInv, OpTells, CallRealloc
    PROVE  Contract!Next \/ UNCHANGED Contract!contract
<1>1. pc = "idle"
  BY DEF CallRealloc
<1>2. PICK p \in live, n \in Requests :
              \/ pc' = "aborted" /\ UNCHANGED <<memory, client, call>>
              \/ /\ ChunkSize(n) <= size[p] /\ asked' = [asked EXCEPT ![p] = n]
                 /\ UNCHANGED <<memory, live, held, call, pc>>
              \/ pc = "idle" /\ Allocate("realloc", n, p)
  BY CallReallocIs
<1>3. CASE pc' = "aborted" /\ UNCHANGED <<memory, client, call>>
  BY <1>3, QuietSpares, Stutters DEF client
<1>4. CASE /\ ChunkSize(n) <= size[p] /\ asked' = [asked EXCEPT ![p] = n]
           /\ UNCHANGED <<memory, live, held, call, pc>>
  BY <1>1, <1>4, ResizeRefines
<1>5. CASE Allocate("realloc", n, p)
  BY <1>1, <1>5, AllocateRefines
<1> QED BY <1>2, <1>3, <1>4, <1>5

LEMMA CallFreeRefines ==
    ASSUME IInv, OpTells, CallFree
    PROVE  Contract!Next
<1>1. call.op = "none" /\ call'.op = "free" /\ UNCHANGED memory
  BY NoCallIs DEF CallFree, OpTells
<1>2. PICK p \in live : live' = live \ {p} /\ asked' = [asked EXCEPT ![p] = 0]
  BY DEF CallFree
<1> QED BY <1>1, <1>2, QuietSpares, Frees

LEMMA ClientWritesRefines ==
    ASSUME IInv, OpTells, ClientWrites
    PROVE  Contract!Next
<1>1. PICK p \in live, word \in ClientWords : Store(p, asked[p], word)
  BY DEF ClientWrites
<1>2. live' = live /\ asked' = asked /\ call' = call
  BY DEF ClientWrites, client
<1>3. word \in [size : Nat, pinuse : BOOLEAN]
  BY ClientWordsAssumption
<1>4. p \in Chunks /\ asked[p] \in Nat /\ asked[p] <= Bytes(size[p]) - kMetaSize
  BY BusyParts DEF IInv, TypeOK, RoomForRequest
<1>5. /\ \A x \in Addr : x \notin HeaderWords(p, asked[p]) =>
            size'[x] = size[x] /\ pinuse'[x] = pinuse[x]
      /\ \A x \in Addr : x \notin BackWords(p, asked[p]) => back'[x] = back[x]
  BY <1>1, <1>3, StoreIs DEF IInv
<1>6. \A c \in live \ {p} : Spares(c)
  BY <1>4, <1>5, InsideSpares, BusyParts DEF IInv
<1>7. Contract!Keeps(live \ {p})
  BY <1>2, <1>6, KeepsContents
<1>8. call.op = "none"
  BY NoCallIs DEF ClientWrites, OpTells
<1> QED BY <1>2, <1>7, <1>8 DEF Contract!Next, Contract!Store

LEMMA RegionCallsRefine ==
    ASSUME IInv, CallFreeRegion \/ CallReallocRegion
    PROVE  UNCHANGED Contract!contract
<1>1. UNCHANGED memory /\ live' = live /\ asked' = asked /\ call' = call
  BY DEF CallFreeRegion, CallReallocRegion, Abort, client
<1> QED BY <1>1, QuietSpares, Stutters

LEMMA NextRefines ==
    ASSUME IInv, OpTells, [Next]_vars
    PROVE  Contract!Next \/ UNCHANGED Contract!contract
<1>1. CASE Running
  BY <1>1, QuietRefines, EndRefines, BeginFreeRefines, ReturnFromMallocRefines,
     ReturnFromCallocRefines, CopyInReallocRefines
  DEF Running
<1>2. CASE CallMalloc \/ CallCalloc
  BY <1>2, AllocateRefines DEF CallMalloc, CallCalloc
<1>3. CASE CallRealloc \/ CallFree \/ ClientWrites \/ CallFreeRegion \/ CallReallocRegion
  BY <1>3, CallReallocRefines, CallFreeRefines, ClientWritesRefines, RegionCallsRefine
<1>4. CASE UNCHANGED vars
  <2>1. UNCHANGED memory /\ live' = live /\ asked' = asked /\ call' = call
    BY <1>4 DEF vars, client
  <2> QED BY <2>1, QuietSpares, Stutters
<1> QED BY <1>1, <1>2, <1>3, <1>4 DEF Next, Client

(* malloc, calloc, realloc and free give their client what MallocContract   *)
(* promises: blocks apart from each other, zeroes from calloc, the old      *)
(* bytes after realloc, and no other change to any block: from the begin of *)
(* a call to its end no step writes into one.                               *)
THEOREM AllocatorKeepsContract == Spec => KeepsContract
<1>1. Init => Contract!Init
  <2> SUFFICES ASSUME Init PROVE Contract!Init
    OBVIOUS
  <2>1. live = {} /\ asked = [x \in Addr |-> 0] /\ call.op = "none"
    BY NoCallIs DEF Init
  <2>2. [c \in live |-> Contents(c)] = [a \in {} |-> ZeroWord]
    BY <2>1
  <2> QED BY <2>1, <2>2 DEF Contract!Init
<1>2. IInv /\ OpTells /\ [Next]_vars => [Contract!Next]_(Contract!contract)
  BY NextRefines
<1> QED BY <1>1, <1>2, Invariance, OpTellsHolds, PTL DEF Spec, KeepsContract, Contract!Spec
=============================================================================
