------------------------------- MODULE BinsList -------------------------------
(***************************************************************************)
(* The lists of malloc/main.cpp: one head per bin, and the next and prev    *)
(* pointers in the first bytes of the free chunks themselves.  The two      *)
(* arrays of heads share these pointers, as a chunk goes from a fast bin to *)
(* an ordinary one.                                                         *)
(***************************************************************************)
EXTENDS Naturals, Sequences, FiniteSets

CONSTANTS Nodes,        \* where a chunk may start
          Nothing,      \* nullptr
          Junk          \* what a word holds that belongs to somebody else

(* A set of lists: heads[list][bin], next[node] and prev[node].             *)
NoLists(bins) ==
    [heads |-> [list \in DOMAIN bins |-> [i \in bins[list] |-> Nothing]],
     next |-> [c \in Nodes |-> Junk], prev |-> [c \in Nodes |-> Junk]]

AddNode(l, list, i, c) ==
    LET h == l.heads[list][i]
    IN  [l EXCEPT !.heads[list][i] = c, !.next[c] = h,
                  !.prev = [x \in Nodes |->
                              IF x = c THEN Nothing ELSE IF x = h THEN c ELSE @[x]]]

RemoveNode(l, list, i, c) ==
    LET p == l.prev[c]
        n == l.next[c]
    IN  [l EXCEPT !.heads[list][i] = IF p = Nothing THEN n ELSE @,
                  !.next = [x \in Nodes |-> IF x = p THEN n ELSE @[x]],
                  !.prev = [x \in Nodes |-> IF x = n THEN p ELSE @[x]]]

(* The nodes from h on, by next; a list that runs into itself never ends,   *)
(* and shows as one with a node in it twice.                                *)
From(l, h) ==
    LET at[k \in 0 .. Cardinality(Nodes)] ==
          IF k = 0 THEN h ELSE IF at[k - 1] \in Nodes THEN l.next[at[k - 1]] ELSE Nothing
        length == Cardinality({k \in DOMAIN at : at[k] \in Nodes})
    IN  [k \in 1 .. length |-> at[k - 1]]

(* The nodes of each bin.                                                   *)
Chains(l, list) == [i \in DOMAIN l.heads[list] |-> From(l, l.heads[list][i])]

Least(S) == CHOOSE x \in S : \A y \in S : x <= y
Greatest(S) == CHOOSE x \in S : \A y \in S : y <= x

(* FindAndRemove, up to its Remove: the first node that fits of the first   *)
(* bin from bin i on that has one, or Nothing.                              *)
Find(l, list, i, fitting) ==
    LET of == Chains(l, list)
        places == [j \in DOMAIN of |-> {k \in DOMAIN of[j] : of[j][k] \in fitting}]
        found == {j \in DOMAIN of : j >= i /\ places[j] # {}}
        lowest == Least(found)
    IN  IF found = {} THEN Nothing ELSE of[lowest][Least(places[lowest])]

(* ExtractAll walks all the bins and makes each node point to the one it    *)
(* came by before; prev stays as it was.  The last node of the bins below   *)
(* bin n, if they have any:                                                 *)
LastBelow(of, n) ==
    LET full == {j \in DOMAIN of : j < n /\ of[j] # <<>>}
        last == of[Greatest(full)]
    IN  IF full = {} THEN Nothing ELSE last[Len(last)]

CameBefore(of, c) ==
    LET i == CHOOSE j \in DOMAIN of : \E k \in DOMAIN of[j] : of[j][k] = c
        at == CHOOSE k \in DOMAIN of[i] : of[i][k] = c
    IN  IF at > 1 THEN of[i][at - 1] ELSE LastBelow(of, i)

ExtractAll(l, list) ==
    LET of == Chains(l, list)
        nodes == UNION {{of[i][k] : k \in DOMAIN of[i]} : i \in DOMAIN of}
    IN  [l EXCEPT !.heads[list] = [i \in DOMAIN @ |-> Nothing],
                  !.next = [c \in Nodes |-> IF c \in nodes THEN CameBefore(of, c) ELSE @[c]]]

(* What ExtractAll returns.                                                 *)
Extracted(l, list) == LastBelow(Chains(l, list), Cardinality(DOMAIN l.heads[list]))

(* The nodes from h on are those of S, each once, and each but h has the    *)
(* one before it as its prev.                                               *)
IsListOf(l, h, S) ==
    LET nodes == From(l, h)
    IN  /\ Cardinality(S) = Len(nodes) /\ {nodes[k] : k \in DOMAIN nodes} = S
        /\ h # Nothing => l.prev[h] = Nothing
        /\ \A k \in 2 .. Len(nodes) : l.prev[nodes[k]] = nodes[k - 1]
=============================================================================
