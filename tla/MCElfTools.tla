----------------------------- MODULE MCElfTools -----------------------------
(***************************************************************************)
(* Executables and libraries as linkers make them, small: what is loaded     *)
(* first in the file, and the sections numbered in many orders.              *)
(***************************************************************************)
EXTENDS ElfTools, TLC

S(len, id) == [len |-> len, id |-> id]
MCValues == {S(0, ""), S(1, "a"), S(2, "b"), S(4, "long")}

MCDebugNames == {".debug_info", ".debug_line"}
MCLinkTarget(name) ==
    CASE name = ".dynamic" -> ".dynstr" [] name = ".symtab" -> ".strtab"
      [] name = ".rela.text" -> ".symtab" [] OTHER -> ""
MCInfoTarget(name) == IF name = ".rela.text" THEN ".text" ELSE ""

Traits(name) ==   \* alloc, size, align, info, data
    CASE name = ".interp"     -> <<TRUE, 3, 1, 0, S(2, "ld")>>
      [] name = ".dynstr"     -> <<TRUE, 7, 1, 0, S(3, "lib")>>
      [] name = ".text"       -> <<TRUE, 5, 4, 0, Blank>>
      [] name = ".dynamic"    -> <<TRUE, 16, 8, 0, RPathEntry>>
      [] name = ".debug_info" -> <<FALSE, 9, 1, 0, Blank>>
      [] name = ".debug_line" -> <<FALSE, 2, 0, 0, Blank>>
      [] name = ".rela.text"  -> <<FALSE, 24, 8, 0, Blank>>
      [] name = ".symtab"     -> <<FALSE, 24, 8, 5, Blank>>
      [] name = ".strtab"     -> <<FALSE, 6, 1, 0, Blank>>
      [] name = ".shstrtab"   -> <<FALSE, 11, 1, 0, Blank>>

(* The file whose sections have the numbers they have in `numbered' and lie  *)
(* in the order of `placed', behind the headers what is loaded.              *)
HeadersEnd == 4
Linked(numbered, placed) ==
    LET end[k \in 0 .. Len(placed)] ==
          IF k = 0 THEN HeadersEnd
          ELSE RoundUp(end[k - 1], Traits(placed[k])[3]) + Traits(placed[k])[2]
        At(seq, name) ==
          IF \E k \in DOMAIN seq : seq[k] = name
          THEN CHOOSE k \in DOMAIN seq : seq[k] = name ELSE 0
        Sec(name) ==
          LET t == Traits(name)
          IN  [name |-> name, alloc |-> t[1], rel |-> InfoTarget(name) # "", size |-> t[2],
               align |-> t[3], offset |-> end[At(placed, name)] - t[2],
               link |-> At(numbered, LinkTarget(name)),
               info |-> IF InfoTarget(name) # "" THEN At(numbered, InfoTarget(name)) ELSE t[4],
               data |-> t[5]]
        loaded == {k \in DOMAIN placed : Traits(placed[k])[1]}
    IN  [secs |-> [k \in DOMAIN numbered |-> Sec(numbered[k])],
         segments |-> {[offset |-> 0, filesz |-> end[Max(loaded)]],
                       [offset |-> 1, filesz |-> 2], [offset |-> 0, filesz |-> 0]},
         headers |-> HeadersEnd, shoff |-> RoundUp(end[Len(placed)] + 3, 8),
         shstrndx |-> At(numbered, ".shstrtab")]

Loaded == {<<".interp", ".dynstr", ".text", ".dynamic">>, <<".dynamic", ".dynstr", ".text">>,
           <<".text">>}

Orders(names) == {[k \in 1 .. Cardinality(names) |-> f[k]] : f \in
                    {g \in [1 .. Cardinality(names) -> names] :
                       \A j, k \in DOMAIN g : j # k => g[j] # g[k]}}

Loose ==
    Orders({".debug_info", ".symtab", ".strtab", ".shstrtab"})
    \union {<<".shstrtab">>, <<".debug_line", ".debug_info", ".shstrtab">>,
            <<".rela.text", ".debug_info", ".symtab", ".debug_line", ".shstrtab", ".strtab">>}

MCFiles == {Linked(l \o n, l \o n) : l \in Loaded, n \in Loose}
             \union {Linked(n \o l, l \o n) : l \in Loaded, n \in Loose}
=============================================================================
