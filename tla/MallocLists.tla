----------------------------- MODULE MallocLists -----------------------------
(***************************************************************************)
(* Malloc with the lists its bins really are.  Every step of Malloc that    *)
(* changes a set of free chunks changes the lists as the code does, and     *)
(* where Malloc may take any chunk that suits, this module takes the one    *)
(* the search comes to first.                                               *)
(*                                                                         *)
(* The client may also call free with the address of a chunk that lies in   *)
(* an ordinary bin.                                                         *)
(***************************************************************************)
EXTENDS MCMalloc, Sequences, FiniteSets

CONSTANT Junk

VARIABLES links,   \* fast_bins, bins and the pointers in the chunks
          chain    \* node, the variable of ConsolidateFastBins

L == INSTANCE BinsList WITH Nodes <- Addr, Nothing <- Null

listed == <<vars, links, chain>>

ListedInit ==
    /\ Init
    /\ links = L!NoLists([fast |-> FastBins, bins |-> Bins]) /\ chain = Null

(* The pointers of a chunk that is in no list are bytes of a block, or left *)
(* behind inside a larger chunk: they may be anything.                      *)
Becomes(l) ==
    LET nodes == Members(fast') \union Members(bins') \union pending'
    IN  links' = [l EXCEPT !.next = [c \in Addr |-> IF c \in nodes THEN @[c] ELSE Junk],
                           !.prev = [c \in Addr |-> IF c \in nodes THEN @[c] ELSE Junk]]

Search(list, need) == L!Find(links, list, BinIndex[need], {c \in Addr : Suits(c, need)})

Extract ==
    /\ Becomes(L!ExtractAll(links, "fast"))
    /\ chain' = L!Extracted(links, "fast")

Unlinked(l, c) == L!RemoveNode(l, "bins", BinIndex[size[c]], c)

AfterFreeChunk(m) ==
    LET l1 == IF MergesPrev(m) THEN Unlinked(links, Prev(m)) ELSE links
        l2 == IF MergesNext(m) THEN Unlinked(l1, NextOf(m)) ELSE l1
    IN  IF MergedEnd(m) = first THEN l2
        ELSE L!AddNode(l2, "bins", BinIndex[MergedSize(m)], MergedHead(m))

(* What follows a call of the client, or the checks of free: a chunk of the *)
(* fast bins, or none there, or their consolidation, or none of these.      *)
Proceed ==
    CASE pc' = "return" ->
           LET c == Search("fast", call'.need)
           IN  /\ held' = {c} /\ UNCHANGED chain
               /\ Becomes(L!RemoveNode(links, "fast", BinIndex[size[c]], c))
      [] pc' = "bins" ->
           Search("fast", call'.need) = Null /\ Becomes(links) /\ UNCHANGED chain
      [] pc' = "consolidate" -> Extract
      [] OTHER -> Becomes(links) /\ UNCHANGED chain

Push ==
    /\ pc = "free" /\ pc' = "idle"
    /\ \E c \in held : Becomes(L!AddNode(links, "fast", BinIndex[size[c]], c))
    /\ UNCHANGED chain

ConsolidateReadsNextLate ==   \* mutant: next read after the chunk has been freed
    /\ ConsolidateOne /\ pending' = pending \ {chain}
    /\ Becomes(AfterFreeChunk(chain))
    /\ chain' = AfterFreeChunk(chain).next[chain]

Consolidate ==
    /\ ConsolidateOne /\ pending' = pending \ {chain}
    /\ Becomes(AfterFreeChunk(chain))
    /\ chain' = links.next[chain]

Take ==
    /\ AllocateFromBins
    /\ LET c == Search("bins", call.need)
           rest == c + call.need
       IN  /\ held' = {c}
           /\ Becomes(IF size[c] = call.need THEN Unlinked(links, c)
                      ELSE L!AddNode(Unlinked(links, c), "bins",
                                     BinIndex[size[c] - call.need], rest))

FreeFreeChunk ==
    /\ pc = "idle"
    /\ \E c \in InBins : held' = {c}
    /\ call' = [NoCall EXCEPT !.op = "free"]
    /\ pc' = "free"
    /\ UNCHANGED <<memory, lists, heap, client>>

ListedNext ==
    \/ (Client \/ FreeFreeChunk) /\ Proceed
    \/ BeginFree /\ IF pc' = "idle" THEN Push ELSE Proceed
    \/ Consolidate
    \/ ConsolidateDone /\ chain = Null /\ Becomes(links) /\ UNCHANGED chain
    \/ Take /\ UNCHANGED chain
    \/ BinsHaveNothing /\ Search("bins", call.need) = Null /\ Becomes(links) /\ UNCHANGED chain
    \/ Release /\ (\E m \in held : Becomes(AfterFreeChunk(m))) /\ UNCHANGED chain
    \/ /\ HeapFails \/ HeapAllocate \/ ReturnNull \/ ReturnFromMalloc \/ ReturnFromCalloc
          \/ CopyInRealloc
       /\ Becomes(links) /\ UNCHANGED chain

ListedSpec == ListedInit /\ [][ListedNext]_listed

ListedView == <<View, links, chain>>

-----------------------------------------------------------------------------
(* A search of the lists comes to a chunk Malloc allows it to come to, and  *)
(* comes to none only if there is none.                                     *)
SearchIsRight ==
    \A n \in Requests :
        LET need == ChunkSize(n)
            right(list, c) == IF c = Null THEN FindsNothing(list, need) ELSE Finds(list, need, c)
        IN  right(fast, Search("fast", need)) /\ right(bins, Search("bins", need))

(* Through every merge, split, push and consolidation, each list holds the  *)
(* chunks of its bin and no others, linked both ways, the chain that is     *)
(* being consolidated leads to all that is left of it, and a search finds   *)
(* what Malloc lets it find.                                                *)
ListsAreTheBins ==
    /\ \A i \in FastBins : L!IsListOf(links, links.heads.fast[i], fast[i])
    /\ \A i \in Bins : L!IsListOf(links, links.heads.bins[i], bins[i])
    /\ LET nodes == L!From(links, chain)
       IN  Len(nodes) = Cardinality(pending) /\ {nodes[k] : k \in DOMAIN nodes} = pending
    /\ SearchIsRight

(* readme.md: free of a chunk that is already free prints "double free      *)
(* detected" and aborts.  It does as long as the chunk is one of those in   *)
(* the ordinary bins, whatever its neighbours have been through since.      *)
FreeOfFreeAborts == [][pc = "free" /\ held \subseteq InBins => pc' = "aborted"]_vars
=============================================================================
