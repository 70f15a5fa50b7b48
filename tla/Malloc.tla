------------------------------- MODULE Malloc -------------------------------
(***************************************************************************)
(* The allocator of malloc/main.cpp: the tagged chunks of the brk heap,     *)
(* the lists of free chunks, the top of the heap, and malloc, calloc,       *)
(* realloc and free over them, each as the steps its code goes through.     *)
(*                                                                         *)
(* Memory is counted in granules of kAlignment bytes from begin_.  Chunks   *)
(* start and end on granules; the header word of chunk c lies at the start  *)
(* of granule c, the client's bytes follow it, and the last word of the     *)
(* chunk, just before the header of the next one, holds its size while it   *)
(* is free ("back word").  So memory is three functions of a granule x:     *)
(*    size[x], pinuse[x]  the size and PREV_INUSE bit of a header at x      *)
(*    back[x]             the size in the word just before x                *)
(* The same words belong to the client inside the chunks it was given, and  *)
(* it writes them as it likes.                                              *)
(*                                                                         *)
(* The lists of free chunks are sets here, one per bin: what the allocator  *)
(* does is shown for every order its lists may be in.                       *)
(***************************************************************************)
EXTENDS SizeClasses, Integers

CONSTANTS kMmapThreshold, kBrkSize, kMaxSize,   \* as in the code, in bytes
          kFastMax, kFastConsolidate,
          kFastBinsCount, kBinsCount,
          kHeapLimit,    \* bound: granules the data segment can reach
          Requests,      \* the sizes the client asks for, in bytes
          ClientWords,   \* what the client writes into its blocks
          Regions,       \* bound: regions mmap can hand out
          Null

Bytes(granules) == kAlignment * granules
ChunkSize(bytes) == GetAlignedSize(bytes) \div kAlignment

Addr == 0 .. kHeapLimit
FastBins == 0 .. kFastBinsCount - 1
Bins == 0 .. kBinsCount - 1

kMinChunk == kMinChunkSize \div kAlignment
kBrk == kBrkSize \div kAlignment

(* GetBinIndex of a chunk size, tabulated.                                  *)
BinIndex == [g \in Addr |-> GetBinIndex(Bytes(g))]

ASSUME MallocAssumption ==
    /\ kHeapLimit \in Nat
    /\ kMmapThreshold \in Nat /\ kFastMax \in Nat /\ kFastConsolidate \in Nat
    /\ kBrkSize \in Nat /\ kBrkSize % kAlignment = 0
    /\ kMinChunkSize <= kBrkSize /\ kMmapThreshold <= kBrkSize
    /\ kFastMax < kFastConsolidate /\ kFastMax <= kMmapThreshold
    /\ kFastBinsCount \in Nat /\ kBinsCount \in Nat
    /\ Null \notin Int

(* A heap below kMaxSize: above it IsValid rejects chunks the allocator     *)
(* made itself.                                                             *)
ASSUME HeapLimitAssumption == kMaxSize \in Nat /\ Bytes(kHeapLimit) <= kMaxSize

ASSUME RequestsAssumption ==
    \A n \in Requests :
        n \in Nat /\ n + kMetaSize + kAlignmentMask < kSizeMod

ASSUME ClientWordsAssumption == ClientWords \subseteq [size : Nat, pinuse : BOOLEAN]

(* What the code needs of GetBinIndex: it stays inside the arrays, and a    *)
(* larger chunk is never in a lower bin.  MCSizeClasses checks both for the *)
(* constants of the code.                                                   *)
ASSUME BinIndexAssumption ==
    /\ \A g \in Addr : BinIndex[g] \in Bins
    /\ \A g \in Addr : Bytes(g) <= kFastMax => BinIndex[g] \in FastBins
    /\ \A g, h \in Addr : g <= h => BinIndex[g] <= BinIndex[h]

-----------------------------------------------------------------------------
VARIABLES
    size, pinuse, back,   \* memory
    fast, bins,           \* free chunks: the fast bins and the ordinary ones
    pending,              \* what ExtractAll took and FreeChunk has not freed yet
    first, last, ready,   \* Heap: first_, last_, and whether first_ is set
    live, asked,          \* blocks of the client, and the bytes it asked for
    mapped,               \* chunk size of each mmapped region, 0 if unmapped
    held,                 \* the chunk the running call has taken out of the rest
    call, pc              \* the running call and where it is

memory == <<size, pinuse, back>>
lists == <<fast, bins, pending>>
heap == <<first, last, ready>>
client == <<live, asked, mapped>>
vars == <<memory, lists, heap, client, held, call, pc>>

Ops == {"none", "malloc", "calloc", "realloc", "free"}
NoCall == [op |-> "none", bytes |-> 0, need |-> 0, old |-> Null]

Init ==
    /\ size = [x \in Addr |-> 0] /\ pinuse = [x \in Addr |-> FALSE]
    /\ back = [x \in Addr |-> 0]
    /\ fast = [i \in FastBins |-> {}] /\ bins = [i \in Bins |-> {}]
    /\ pending = {}
    /\ first = 0 /\ last = 0 /\ ready = FALSE
    /\ live = {} /\ asked = [x \in Addr |-> 0]
    /\ mapped = [r \in Regions |-> 0]
    /\ held = {} /\ call = NoCall /\ pc = "idle"

-----------------------------------------------------------------------------
(* Reading a chunk's tags.                                                  *)

Next_(c) == c + size[c]                        \* Metadata::Next
Prev(c) == c - back[c]                         \* Metadata::Prev
IsInUse(c) == pinuse[Next_(c)]

(* The whole header word is compared: a zero size with the PREV_INUSE bit   *)
(* set counts as valid.                                                     *)
IsValid(c) == (size[c] > 0 \/ pinuse[c]) /\ Bytes(size[c]) <= kMaxSize

(* The lists of free chunks.                                                *)
Members(list) == UNION {list[i] : i \in DOMAIN list}

AddUnderOldSize(list, c, sz) ==   \* mutant: Add before SetSize
    [list EXCEPT ![BinIndex[size[c]]] = @ \union {c}]
Add(list, c, sz) == [list EXCEPT ![BinIndex[sz]] = @ \union {c}]
Remove(list, c) == [list EXCEPT ![BinIndex[size[c]]] = @ \ {c}]

(* An exact fit, or room to split off a chunk; what is in between is passed *)
(* over.                                                                    *)
Suits(c, min) == size[c] = min \/ size[c] >= min + kMinChunk

(* FindAndRemove may return c: it suits, and no lower bin from that of min  *)
(* on holds anything that does.                                             *)
Finds(list, min, c) ==
    \E i \in DOMAIN list :
        /\ i >= BinIndex[min] /\ c \in list[i] /\ Suits(c, min)
        /\ \A j \in DOMAIN list : \A d \in list[j] :
              (BinIndex[min] <= j /\ j < i) => ~Suits(d, min)

FindsNothingInOwnBin(list, min) ==   \* mutant: the search never goes to the next bin
    \A c \in list[BinIndex[min]] : ~Suits(c, min)
FindsNothing(list, min) ==
    \A i \in DOMAIN list : \A c \in list[i] : i >= BinIndex[min] => ~Suits(c, min)

(* The words written by storing n bytes from the start of the block in c.   *)
HeaderWords(c, n) == {x \in Addr : c < x /\ Bytes(x - c) - kMetaSize < n}
BackWords(c, n) == {x \in Addr : c < x /\ Bytes(x - c) - kAlignment < n}

Store(c, n, word) ==
    /\ size' = [x \in Addr |-> IF x \in HeaderWords(c, n) THEN word.size ELSE size[x]]
    /\ pinuse' = [x \in Addr |-> IF x \in HeaderWords(c, n) THEN word.pinuse ELSE pinuse[x]]
    /\ back' = [x \in Addr |-> IF x \in BackWords(c, n) THEN word.size ELSE back[x]]

Copy(from, to, n) ==
    /\ size' = [x \in Addr |->
                  IF x \in HeaderWords(to, n) THEN size[x - to + from] ELSE size[x]]
    /\ pinuse' = [x \in Addr |->
                  IF x \in HeaderWords(to, n) THEN pinuse[x - to + from] ELSE pinuse[x]]
    /\ back' = [x \in Addr |->
                  IF x \in BackWords(to, n) THEN back[x - to + from] ELSE back[x]]

ZeroWord == [size |-> 0, pinuse |-> FALSE]

-----------------------------------------------------------------------------
(* FreeChunk: merge with a free neighbour on either side, then give the     *)
(* result back to the top of the heap or to the bins.                       *)

MergesPrevByOwnBit(m) ==   \* mutant: the bit of m itself instead of the one of prev
    m # 0 /\ ~IsInUse(m) /\ IsValid(Prev(m))
MergesPrev(m) == m # 0 /\ ~pinuse[m] /\ IsValid(Prev(m))
MergedHead(m) == IF MergesPrev(m) THEN Prev(m) ELSE m
SizeWithPrev(m) == IF MergesPrev(m) THEN size[Prev(m)] + size[m] ELSE size[m]
NextOf(m) == MergedHead(m) + SizeWithPrev(m)
MergesNextByWrongBit(m) ==   \* mutant: the bit in next says whether m is in use
    NextOf(m) # first /\ ~pinuse[NextOf(m)]
MergesNext(m) == NextOf(m) # first /\ ~IsInUse(NextOf(m))
MergedSizeWithoutNext(m) == SizeWithPrev(m)   \* mutant: SetSize forgotten
MergedSize(m) == IF MergesNext(m) THEN SizeWithPrev(m) + size[NextOf(m)]
                                  ELSE SizeWithPrev(m)
MergedEnd(m) == MergedHead(m) + MergedSize(m)

BinsAfterMerge(m) ==
    LET without == IF MergesPrev(m) THEN Remove(bins, Prev(m)) ELSE bins
    IN  IF MergesNext(m) THEN Remove(without, NextOf(m)) ELSE without

MarkFreeNoBackWord(c, sz) ==   \* mutant: WriteBackSize forgotten
    /\ pinuse' = [pinuse EXCEPT ![c + sz] = FALSE]
    /\ UNCHANGED back

MarkFreeInNext(c, sz) ==   \* mutant: the back word one granule too far
    /\ pinuse' = [pinuse EXCEPT ![c + sz] = FALSE]
    /\ back' = [back EXCEPT ![c + sz + 1] = sz]

MarkFreeKeepingBit(c, sz) ==   \* mutant: the PREV_INUSE bit stays
    /\ back' = [back EXCEPT ![c + sz] = sz]
    /\ UNCHANGED pinuse

MarkFree(c, sz) ==
    /\ pinuse' = [pinuse EXCEPT ![c + sz] = FALSE]
    /\ back' = [back EXCEPT ![c + sz] = sz]

FreeChunk(m) ==
    /\ size' = [size EXCEPT ![MergedHead(m)] = MergedSize(m)]
    /\ MarkFree(MergedHead(m), MergedSize(m))
    /\ \/ /\ MergedEnd(m) = first
          /\ first' = MergedHead(m)
          /\ bins' = BinsAfterMerge(m)
       \/ /\ MergedEnd(m) # first
          /\ first' = first
          /\ bins' = Add(BinsAfterMerge(m), MergedHead(m), MergedSize(m))

ExtractAll ==
    /\ pending' = Members(fast)
    /\ fast' = [i \in FastBins |-> {}]

-----------------------------------------------------------------------------
(* malloc, and the allocating half of calloc and realloc.                   *)

EndCall == pc' = "idle" /\ call' = NoCall

(* A region from mmap; the realloc that asked for it goes on to free the    *)
(* old block.                                                               *)
MmapAllocate(op, need, old) ==
    \/ EndCall /\ UNCHANGED <<memory, lists, heap, client, held>>
    \/ \E r \in Regions :
         /\ mapped[r] = 0
         /\ mapped' = [mapped EXCEPT ![r] = need]
         /\ IF op = "realloc"
            THEN /\ live' = live \ {old} /\ asked' = [asked EXCEPT ![old] = 0]
                 /\ held' = {old} /\ pc' = "free"
                 /\ call' = [NoCall EXCEPT !.op = "free"]
            ELSE EndCall /\ UNCHANGED <<live, asked, held>>
         /\ UNCHANGED <<memory, lists, heap>>

AllocateFromFastBinsKeeping(need) ==   \* mutant: found, not removed
    \/ \E c \in Members(fast) :
         /\ Finds(fast, need, c)
         /\ held' = {c} /\ pc' = "return"
         /\ UNCHANGED <<memory, lists>>
    \/ /\ FindsNothing(fast, need)
       /\ pc' = "bins"
       /\ UNCHANGED <<memory, lists, held>>

AllocateFromFastBins(need) ==
    \/ \E c \in Members(fast) :
         /\ Finds(fast, need, c)
         /\ fast' = Remove(fast, c)
         /\ pinuse' = [pinuse EXCEPT ![Next_(c)] = TRUE]
         /\ held' = {c} /\ pc' = "return"
         /\ UNCHANGED <<size, back, bins, pending>>
    \/ /\ FindsNothing(fast, need)
       /\ pc' = "bins"
       /\ UNCHANGED <<memory, lists, held>>

Allocate(op, n, old) ==
    LET need == ChunkSize(n)
    IN  \/ /\ Bytes(need) > kMmapThreshold
           /\ MmapAllocate(op, need, old)
        \/ /\ Bytes(need) <= kMmapThreshold
           /\ call' = [op |-> op, bytes |-> n, need |-> need, old |-> old]
           /\ \/ Bytes(need) <= kFastMax /\ AllocateFromFastBins(need)
              \/ /\ Bytes(need) > kFastMax
                 /\ ExtractAll /\ pc' = "consolidate"
                 /\ UNCHANGED <<memory, bins, held>>
           /\ UNCHANGED <<heap, client>>

(* The loop of ConsolidateFastBins.                                         *)
ConsolidateOne ==
    /\ pc = "consolidate"
    /\ \E c \in pending : FreeChunk(c) /\ pending' = pending \ {c}
    /\ UNCHANGED <<fast, last, ready, client, held, call, pc>>

ConsolidateDoneForMalloc ==   \* mutant: only malloc is waited for
    /\ pc = "consolidate" /\ pending = {} /\ held = {}
    /\ pc' = "bins"
    /\ UNCHANGED <<memory, lists, heap, client, held, call>>

(* It returns to free, which then frees its own chunk, or to malloc.        *)
ConsolidateDone ==
    /\ pc = "consolidate" /\ pending = {}
    /\ pc' = IF held = {} THEN "bins" ELSE "release"
    /\ UNCHANGED <<memory, lists, heap, client, held, call>>

(* AllocateFromBins with the SplitIfPossible it ends in: the rest of the    *)
(* chunk goes back to the bins unless it is too small to be one.            *)
AllocateFromBins ==
    /\ pc = "bins"
    /\ \E c \in Members(bins) :
         LET need == call.need
             remaining == size[c] - need
             rest == c + need
         IN  /\ Finds(bins, need, c)
             /\ \/ /\ remaining >= kMinChunk
                   /\ size' = [size EXCEPT ![c] = need, ![rest] = remaining]
                   /\ pinuse' = [pinuse EXCEPT ![Next_(c)] = FALSE, ![rest] = TRUE]
                   /\ back' = [back EXCEPT ![Next_(c)] = remaining]
                   /\ bins' = Add(Remove(bins, c), rest, remaining)
                \/ /\ remaining < kMinChunk
                   /\ pinuse' = [pinuse EXCEPT ![Next_(c)] = TRUE]
                   /\ bins' = Remove(bins, c)
                   /\ UNCHANGED <<size, back>>
             /\ held' = {c}
    /\ pc' = "return"
    /\ UNCHANGED <<fast, pending, heap, client, call>>

BinsHaveNothing ==
    /\ pc = "bins" /\ FindsNothing(bins, call.need)
    /\ pc' = "top"
    /\ UNCHANGED <<memory, lists, heap, client, held, call>>

(* Heap::Allocate.  Whether sbrk's result is 0 or 8 modulo kAlignment,      *)
(* kBrk - 1 whole granules, with the header word that follows them, fit the *)
(* first segment: those and no more are what Initialize leaves to Resize.   *)
EndOfHeap == IF ready THEN last ELSE kBrk - 1

SbrkCan == ready \/ kBrk <= kHeapLimit

CarveWithoutUse(need) ==   \* mutant: UsePtr forgotten
    /\ size' = [size EXCEPT ![first] = need, ![first + need] = 0]
    /\ pinuse' = [pinuse EXCEPT ![first] = TRUE, ![first + need] = FALSE]
    /\ first' = first + need
    /\ held' = {first}
    /\ UNCHANGED back

Carve(need) ==
    /\ size' = [size EXCEPT ![first] = need, ![first + need] = 0]
    /\ pinuse' = [pinuse EXCEPT ![first] = TRUE, ![first + need] = TRUE]
    /\ first' = first + need
    /\ held' = {first}
    /\ UNCHANGED back

HeapFailsMovingLast ==   \* mutant: last_ moved before sbrk has succeeded
    /\ pc = "top" /\ pc' = "return"
    /\ \/ ~ready /\ UNCHANGED <<last, ready>>
       \/ /\ SbrkCan /\ EndOfHeap - first < call.need
          /\ ready' = TRUE /\ last' = EndOfHeap + kBrk
    /\ UNCHANGED <<memory, lists, first, client, held, call>>

HeapFails ==   \* sbrk in Initialize, or the one in Resize
    /\ pc = "top" /\ pc' = "return"
    /\ \/ ~ready /\ UNCHANGED <<last, ready>>
       \/ /\ SbrkCan /\ EndOfHeap - first < call.need
          /\ ready' = TRUE /\ last' = EndOfHeap
    /\ UNCHANGED <<memory, lists, first, client, held, call>>

HeapAllocate ==
    /\ pc = "top" /\ SbrkCan
    /\ \/ /\ EndOfHeap - first >= call.need
          /\ last' = EndOfHeap
       \/ /\ EndOfHeap - first < call.need /\ EndOfHeap + kBrk <= kHeapLimit
          /\ last' = EndOfHeap + kBrk
    /\ ready' = TRUE
    /\ Carve(call.need)
    /\ pc' = "return"
    /\ UNCHANGED <<lists, client, call>>

(* The block reaches the client.                                            *)

Give(c) ==
    /\ live' = (live \ {call.old}) \union {c}
    /\ asked' = [x \in Addr |-> IF x = c THEN call.bytes
                                ELSE IF x = call.old THEN 0 ELSE asked[x]]

ReturnNull ==
    /\ pc = "return" /\ held = {}
    /\ EndCall
    /\ UNCHANGED <<memory, lists, heap, client, held>>

ReturnFromMalloc ==
    /\ pc = "return" /\ call.op = "malloc"
    /\ \E c \in held : Give(c)
    /\ held' = {} /\ EndCall
    /\ UNCHANGED <<memory, lists, heap, mapped>>

ReturnFromCalloc ==
    /\ pc = "return" /\ call.op = "calloc"
    /\ \E c \in held : Give(c) /\ Store(c, call.bytes, ZeroWord)
    /\ held' = {} /\ EndCall
    /\ UNCHANGED <<lists, heap, mapped>>

(* memcpy of the smaller of the old chunk's room and the new size, then     *)
(* free(ptr).                                                               *)
CopyInRealloc ==
    /\ pc = "return" /\ call.op = "realloc"
    /\ \E c \in held :
         LET room == Bytes(size[call.old]) - kMetaSize
         IN  /\ Give(c)
             /\ Copy(call.old, c, IF room < call.bytes THEN room ELSE call.bytes)
    /\ held' = {call.old} /\ pc' = "free"
    /\ call' = [NoCall EXCEPT !.op = "free"]
    /\ UNCHANGED <<lists, heap, mapped>>

-----------------------------------------------------------------------------
(* free, from the checks of its argument on.                                *)

FreeAborts ==
    /\ \E c \in held : ~IsValid(c) \/ ~IsInUse(c)
    /\ pc' = "aborted"
    /\ UNCHANGED <<memory, lists, heap, client, held, call>>

FreeChecks ==
    /\ \E c \in held :
         /\ IsValid(c) /\ IsInUse(c)
         /\ \/ /\ Bytes(size[c]) >= kFastConsolidate
               /\ ExtractAll /\ pc' = "consolidate"
               /\ UNCHANGED <<held, call>>
            \/ /\ Bytes(size[c]) < kFastConsolidate /\ Bytes(size[c]) <= kFastMax
               /\ fast' = Add(fast, c, size[c])
               /\ held' = {} /\ EndCall
               /\ UNCHANGED pending
            \/ /\ Bytes(size[c]) < kFastConsolidate /\ Bytes(size[c]) > kFastMax
               /\ pc' = "release"
               /\ UNCHANGED <<fast, pending, held, call>>
    /\ UNCHANGED <<memory, bins, heap, client>>

BeginFree == pc = "free" /\ (FreeAborts \/ FreeChecks)

Release ==
    /\ pc = "release"
    /\ \E c \in held : FreeChunk(c)
    /\ held' = {} /\ EndCall
    /\ UNCHANGED <<fast, pending, last, ready, client>>

-----------------------------------------------------------------------------
(* The client: one call at a time, with pointers it owns, and stores into   *)
(* the bytes it asked for.                                                  *)

CallMalloc == pc = "idle" /\ \E n \in Requests : Allocate("malloc", n, Null)

CallCalloc == pc = "idle" /\ \E n \in Requests : Allocate("calloc", n, Null)

Abort ==
    /\ pc' = "aborted"
    /\ UNCHANGED <<memory, lists, heap, client, held, call>>

CallRealloc ==
    /\ pc = "idle"
    /\ \E p \in live : \E n \in Requests :
         \/ ~IsValid(p) /\ Abort
         \/ /\ IsValid(p) /\ ChunkSize(n) <= size[p]
            /\ asked' = [asked EXCEPT ![p] = n]
            /\ UNCHANGED <<memory, lists, heap, live, mapped, held, call, pc>>
         \/ /\ IsValid(p) /\ ChunkSize(n) > size[p]
            /\ Allocate("realloc", n, p)

CallFree ==
    /\ pc = "idle"
    /\ \E p \in live :
         /\ live' = live \ {p} /\ asked' = [asked EXCEPT ![p] = 0]
         /\ held' = {p}
    /\ call' = [NoCall EXCEPT !.op = "free"]
    /\ pc' = "free"
    /\ UNCHANGED <<memory, lists, heap, mapped>>

(* free and realloc of a mmapped block.  The word IsValid sees there is the *)
(* size of the whole region, one word more than the chunk.                  *)
IsValidRegion(r) == Bytes(mapped[r]) + kMetaSize <= kMaxSize

CallFreeRegion ==
    /\ pc = "idle"
    /\ \E r \in Regions :
         /\ mapped[r] > 0
         /\ \/ ~IsValidRegion(r) /\ Abort
            \/ /\ IsValidRegion(r)
               /\ mapped' = [mapped EXCEPT ![r] = 0]
               /\ UNCHANGED <<memory, lists, heap, live, asked, held, call, pc>>

CallReallocRegion ==   \* mremap, which may fail and leave the region alone
    /\ pc = "idle"
    /\ \E r \in Regions : \E n \in Requests :
         /\ mapped[r] > 0
         /\ \/ ~IsValidRegion(r) /\ Abort
            \/ /\ IsValidRegion(r)
               /\ mapped' = [mapped EXCEPT ![r] = ChunkSize(n)]
               /\ UNCHANGED <<memory, lists, heap, live, asked, held, call, pc>>

ClientWrites ==
    /\ pc = "idle"
    /\ \E p \in live : \E word \in ClientWords : Store(p, asked[p], word)
    /\ UNCHANGED <<lists, heap, client, held, call, pc>>

-----------------------------------------------------------------------------
Running ==
    \/ ConsolidateOne \/ ConsolidateDone \/ AllocateFromBins \/ BinsHaveNothing
    \/ HeapFails \/ HeapAllocate
    \/ ReturnNull \/ ReturnFromMalloc \/ ReturnFromCalloc \/ CopyInRealloc
    \/ BeginFree \/ Release

Client ==
    \/ CallMalloc \/ CallCalloc \/ CallRealloc \/ CallFree
    \/ CallFreeRegion \/ CallReallocRegion \/ ClientWrites

Next == Running \/ Client

Spec == Init /\ [][Next]_vars

(* A call runs until it returns; the client need not call again.            *)
FairSpec == Spec /\ WF_vars(Running)
-----------------------------------------------------------------------------
(* Properties.                                                              *)

InBins == Members(bins)
Busy == live \union Members(fast) \union pending \union held
Chunks == Busy \union InBins

(* The state has the shape the declarations of the code give it.            *)
TypeOK ==
    /\ size \in [Addr -> Nat] /\ pinuse \in [Addr -> BOOLEAN]
    /\ back \in [Addr -> Nat]
    /\ fast \in [FastBins -> SUBSET Addr] /\ bins \in [Bins -> SUBSET Addr]
    /\ pending \in SUBSET Addr
    /\ first \in Addr /\ last \in Addr /\ ready \in BOOLEAN
    /\ live \in SUBSET Addr /\ asked \in [Addr -> Nat]
    /\ mapped \in [Regions -> Nat]
    /\ held \in SUBSET Addr
    /\ call \in [op : Ops, bytes : Nat, need : Nat, old : Addr \union {Null}]
    /\ pc \in {"idle", "consolidate", "bins", "top", "return", "free", "release",
               "aborted"}

(* Chunks lie in memory one after another (readme.md): every chunk ends     *)
(* where the next one starts or at the top, no two overlap, and the first   *)
(* starts at begin_.  So no granule below the top is ever lost.             *)
Tiled ==
    /\ 0 \in Chunks \union {first}
    /\ \A c \in Chunks : /\ size[c] >= kMinChunk /\ Next_(c) <= first
                       /\ Next_(c) \in Chunks \union {first}
    /\ \A c, d \in Chunks : c < d => Next_(c) <= d

(* The top and the header word after it stay inside what sbrk gave.         *)
TopInSegment == first <= last /\ last <= kHeapLimit

(* Each chunk is in one place only: with the client, in one list, in the    *)
(* chain being consolidated, or in the hands of the running call.           *)
OwnedOnce ==
    /\ live \intersect held = {} /\ live \intersect pending = {}
    /\ live \intersect Members(fast) = {} /\ live \intersect InBins = {}
    /\ held \intersect pending = {} /\ held \intersect Members(fast) = {}
    /\ held \intersect InBins = {} /\ pending \intersect Members(fast) = {}
    /\ pending \intersect InBins = {} /\ Members(fast) \intersect InBins = {}

(* The tags at the end of a chunk say whether it is free, and its size if   *)
(* it is: what IsInUse, the double-free check and Prev rely on.             *)
TagsTell ==
    /\ \A c \in Busy : IsInUse(c)
    /\ \A c \in InBins : ~IsInUse(c) /\ back[Next_(c)] = size[c]

(* Free neighbours are always merged, and the last free chunk into the top. *)
Coalesced == \A c \in InBins : Next_(c) \notin InBins \union {first}

(* A chunk is in the bin of its present size: Remove looks for it there.    *)
Binned ==
    /\ \A i \in Bins : \A c \in bins[i] : BinIndex[size[c]] = i
    /\ \A i \in FastBins : \A c \in fast[i] : BinIndex[size[c]] = i

(* A block has room for the bytes its client asked for.                     *)
RoomForRequest ==
    \A c \in live : asked[c] <= Bytes(size[c]) - kMetaSize

(* Where a call is decides what it holds and what it is after.              *)
Allocating ==
    /\ call.op \in {"malloc", "calloc", "realloc"}
    /\ call.bytes \in Requests /\ call.need = ChunkSize(call.bytes)
    /\ Bytes(call.need) <= kMmapThreshold
    /\ IF call.op = "realloc" THEN call.old \in live /\ size[call.old] < call.need
                              ELSE call.old = Null

CallInOrder ==
    /\ pending # {} => pc = "consolidate"
    /\ pc \in {"idle", "bins", "top"} => held = {}
    /\ pc \in {"free", "release"} => held # {}
    /\ \A c, d \in held : c = d
    /\ pc \in {"bins", "top", "return"} => Allocating
    /\ pc = "consolidate" /\ held = {} => Allocating
    /\ pc = "return" => \A c \in held : size[c] >= call.need

(* Every chunk but the first follows another: what a clear PREV_INUSE bit   *)
(* means for Prev.                                                          *)
HasPredecessor ==
    \A c \in Chunks \union {first} : c # 0 => \E p \in Chunks : Next_(p) = c

HeapInv ==
    /\ Tiled /\ HasPredecessor /\ OwnedOnce /\ TagsTell /\ Coalesced /\ Binned

(* What every step preserves.                                               *)
IInv ==
    /\ TypeOK /\ HeapInv /\ TopInSegment /\ (~ready => first = 0)
    /\ RoomForRequest /\ CallInOrder

(* A client that only uses what it was given never meets ReportError.       *)
NeverAborts == pc # "aborted"

(* The heap only grows when no free chunk, in whatever bin, suits.          *)
GrowsOnlyWhenNothingSuits ==
    pc = "top" => \A c \in InBins : ~Suits(c, call.need)

(* When everything has been freed and consolidated, the heap is back to its *)
(* first state: nothing is lost to fragmentation.                           *)
AllFreedIsAllReturned == Busy = {} => InBins = {} /\ first = 0

(* The words of the block in c, in order from its first byte.               *)
WordCount(n) == (n + kMetaSize - 1) \div kMetaSize
Word(c, k) ==
    IF k % 2 = 0
    THEN [size |-> back[c + k \div 2 + 1], pinuse |-> FALSE]
    ELSE LET x == c + (k + 1) \div 2 IN [size |-> size[x], pinuse |-> pinuse[x]]
Contents(c) == [k \in 0 .. WordCount(asked[c]) - 1 |-> Word(c, k)]

(* The bytes of a client's block change only by the client's own stores: no *)
(* tag, split or merge of the allocator reaches into it.                    *)
ClientDataKept ==
    [][Running => \A c \in live \intersect live' : Contents(c)' = Contents(c)]_vars

(* What a client may rely on, as a specification of its own.                *)
Contract == INSTANCE MallocContract
              WITH op <- call.op, data <- [c \in live |-> Contents(c)],
                   Zero <- ZeroWord
KeepsContract == Contract!Spec

(* Every call returns.                                                      *)
CallsReturn == (pc # "idle") ~> (pc = "idle")
=============================================================================
