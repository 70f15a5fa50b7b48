--------------------------- MODULE MallocContract ---------------------------
(***************************************************************************)
(* What malloc, calloc, realloc and free of malloc/main.cpp promise their   *)
(* client, without chunks, tags, lists or a heap: blocks that do not        *)
(* overlap, that have the bytes that were asked for, and whose contents are *)
(* the client's alone.  A call that returns null changes nothing here, and  *)
(* neither do the steps a call takes inside the allocator: only between     *)
(* calls may a block's words change.                                        *)
(***************************************************************************)
EXTENDS Naturals

CONSTANTS Addr,      \* where a block may be, in units of kAlignment bytes
          Requests,  \* sizes in bytes
          Zero       \* a word of zeroes

VARIABLES op,        \* the call that is running, if any
          live,      \* the client's blocks
          asked,     \* the bytes it asked for
          data       \* the words of each block, a sequence from 0

contract == <<op, live, asked, data>>

Init == op = "none" /\ live = {} /\ asked = [a \in Addr |-> 0] /\ data = [a \in {} |-> Zero]

(* A block of n bytes at a overlaps none of the blocks in S.                *)
Apart(a, n, S) ==
    \A b \in S : \/ 16 * a + n <= 16 * b
                 \/ 16 * b + asked[b] <= 16 * a

Keeps(S) == \A b \in S : data'[b] = data[b]

Agree(d, e) == \A k \in DOMAIN d \intersect DOMAIN e : d[k] = e[k]

Begin ==
    /\ op = "none" /\ op' \in {"malloc", "calloc", "realloc"}
    /\ UNCHANGED <<live, asked>> /\ Keeps(live)

(* Null, or the end of a free.                                              *)
End ==
    /\ op # "none" /\ op' = "none"
    /\ UNCHANGED <<live, asked>> /\ Keeps(live)

Give(a, n) ==
    /\ a \notin live /\ Apart(a, n, live)
    /\ live' = live \union {a} /\ asked' = [asked EXCEPT ![a] = n]
    /\ op' = "none"
    /\ Keeps(live)

Malloc(a, n) == op = "malloc" /\ Give(a, n)

Calloc(a, n) ==
    /\ op = "calloc" /\ Give(a, n)
    /\ \A k \in DOMAIN data'[a] : data'[a][k] = Zero

(* A resize, in place or with a new block that starts with what the old one *)
(* held.                                                                    *)
Resize(p, n) ==
    /\ op = "none" /\ op' = op
    /\ Apart(p, n, live \ {p})
    /\ live' = live /\ asked' = [asked EXCEPT ![p] = n]
    /\ Agree(data'[p], data[p])
    /\ Keeps(live \ {p})

Move(p, a, n) ==
    /\ op = "realloc" /\ op' = "free"
    /\ a \notin live /\ Apart(a, n, live)
    /\ live' = (live \ {p}) \union {a}
    /\ asked' = [asked EXCEPT ![p] = 0, ![a] = n]
    /\ Agree(data'[a], data[p])
    /\ Keeps(live \ {p})

Free(p) ==   \* or a realloc that moves the block to a region of its own
    /\ op = "none" /\ op' = "free"
    /\ live' = live \ {p} /\ asked' = [asked EXCEPT ![p] = 0]
    /\ Keeps(live \ {p})

(* The client has one thread: it writes into a block between its calls, so  *)
(* within a call nobody does.                                               *)
Store(p) ==
    /\ op = "none" /\ UNCHANGED <<op, live, asked>>
    /\ Keeps(live \ {p})

Next ==
    \/ Begin \/ End
    \/ \E a \in Addr, n \in Requests : Malloc(a, n) \/ Calloc(a, n)
    \/ \E p \in live, n \in Requests : Resize(p, n) \/ \E a \in Addr : Move(p, a, n)
    \/ \E p \in live : Free(p) \/ Store(p)

Spec == Init /\ [][Next]_contract
=============================================================================
