-------------------------------- MODULE MCDu --------------------------------
(***************************************************************************)
(* Every file system of up to four inodes and four entries, three of them   *)
(* in the root and two in another directory, up to renaming: directories    *)
(* come first and below one of a smaller number, files may have two names,  *)
(* links lead to any entry, to themselves, each other, the root or nowhere. *)
(***************************************************************************)
EXTENDS Du

MCInodes == 0 .. 3
MCNames == {"a", "b", "c"}
MaxEntries == 4
MCSize(i) == 2 ^ i   \* no sum of sizes of different inodes is that of others
MCTop == <<None, None>>

Kinds == {k \in [MCInodes -> {"dir", "file", "link"}] :
            /\ k[0] = "dir"
            /\ \A i, j \in MCInodes : i < j => /\ k[j] = "dir" => k[i] = "dir"
                                               /\ k[i] = "link" => k[j] = "link"}

Empty == [n \in MCNames |-> None]

(* readdir returns names in any order: only their number matters.           *)
InOrder(i, j) == j # None => i # None /\ i <= j

NamesOf(k) ==
    LET dirs == {i \in MCInodes : k[i] = "dir"}
        entries == (dirs \X {"a", "b"}) \union {<<0, "c">>}
        holds(f, i) == {e \in entries : f[e] = i}
    IN  {f \in [entries -> (MCInodes \ {0}) \union {None}] :
           /\ Cardinality({e \in entries : f[e] # None}) <= MaxEntries
           /\ \A d \in dirs : InOrder(f[<<d, "a">>], f[<<d, "b">>])
           /\ InOrder(f[<<0, "b">>], f[<<0, "c">>])
           /\ \A d \in dirs \ {0} : /\ Cardinality(holds(f, d)) = 1
                                    /\ \A e \in holds(f, d) : e[1] < d
           /\ \A i \in MCInodes \ dirs : Cardinality(holds(f, i)) <= 2
           /\ \A i \in MCInodes \ dirs : k[i] = "link" => Cardinality(holds(f, i)) = 1}

MCTrees ==
    UNION {UNION {
      LET links == {i \in MCInodes : k[i] = "link"}
          goals == {MCTop, None} \union {e \in DOMAIN f : f[e] # None}
      IN  {[kind |-> k,
            names |-> [i \in MCInodes |->
                         IF k[i] = "dir" THEN [n \in MCNames |-> IF <<i, n>> \in DOMAIN f
                                                            THEN f[<<i, n>>] ELSE None]
                         ELSE Empty],
            to |-> [i \in MCInodes |-> IF i \in links THEN t[i] ELSE None],
            locked |-> l] :
             t \in [links -> goals],
             l \in {{}} \union (IF k[1] = "dir" THEN {{1}} ELSE {})}
      : f \in NamesOf(k)} : k \in Kinds}

MCOptions ==
    {o \in [all : BOOLEAN, summarize : BOOLEAN, dereference : BOOLEAN,
            arg : {MCTop, <<0, "a">>}] :
       ~(o.all /\ o.summarize) /\ (o.arg # MCTop => ~o.all)}
=============================================================================
