-------------------------------- MODULE Strip --------------------------------
(***************************************************************************)
(* strip/main.cpp, ProcessElf: the new file, section by section.  A loop     *)
(* state holds the locals of ProcessSectionHeaders, of which `secs' is the   *)
(* new file's sections.                                                      *)
(***************************************************************************)
EXTENDS ElfFile, FiniteSetsExt

CONSTANT DebugNames   \* the names that start with .debug

ASSUME DebugNamesAssumption ==
    DebugNames \intersect {".shstrtab", ".dynamic", ".dynstr", ".interp"} = {}

ShouldSkipSection(name, keep_symtab) ==
    \/ name \in {".symtab", ".strtab"} /\ ~keep_symtab
    \/ name \in DebugNames

ComputeEndOfSegments(f) == Max({0} \union {p.offset + p.filesz : p \in f.segments})

RoundUp(x, align) ==
    LET a == IF align = 0 THEN 1 ELSE align IN ((x + a - 1) \div a) * a

LoopStartAtFileEnd(f) ==   \* mutant: behind everything, not behind the segments
    [secs |-> <<>>, next_offset_nonalloc |-> f.shoff,
     old_to_new_index |-> [k \in DOMAIN f.secs |-> 0], new_shstrndx |-> 0]

LoopStart(f) ==
    [secs |-> <<>>, next_offset_nonalloc |-> ComputeEndOfSegments(f),
     old_to_new_index |-> [k \in DOMAIN f.secs |-> 0], new_shstrndx |-> 0]

UpdateAnySectionOffset(s, next) ==   \* mutant: sections of the segments move too
    [s EXCEPT !.offset = RoundUp(next, s.align)]

(* The header as it goes into the new file.                                  *)
UpdateNonAllocSectionOffset(s, next) ==
    IF s.alloc THEN s ELSE [s EXCEPT !.offset = RoundUp(next, s.align)]

NextOffset(s, next) == IF s.alloc THEN next ELSE RoundUp(next, s.align) + s.size

(* One round of the loop.                                                    *)
CopySection(l, s, k) ==
    [secs |-> Append(l.secs, UpdateNonAllocSectionOffset(s, l.next_offset_nonalloc)),
     next_offset_nonalloc |-> NextOffset(s, l.next_offset_nonalloc),
     old_to_new_index |-> [l.old_to_new_index EXCEPT ![k] = Len(l.secs) + 1],
     new_shstrndx |-> IF s.name = ".shstrtab" THEN Len(l.secs) + 1 ELSE l.new_shstrndx]

MapSectionIndex(mapping, old) == IF old \in DOMAIN mapping THEN mapping[old] ELSE 0

ShInfoIsSectionIndex(s) == s.rel

MapBackwardLinksOnly(l, s, k) ==   \* mutant: links mapped while the loop still runs
    LET new == MapSectionIndex(l.old_to_new_index, s.link)
    IN  [s EXCEPT !.link = IF new < k THEN new ELSE 0]

FixupLink(l, s, k) ==
    [s EXCEPT !.link = MapSectionIndex(l.old_to_new_index, @),
              !.info = IF ShInfoIsSectionIndex(s)
                       THEN MapSectionIndex(l.old_to_new_index, @) ELSE @]

FixupLinks(l) == [k \in DOMAIN l.secs |-> FixupLink(l, l.secs[k], k)]

(* What elf_update writes: the headers of f, where they were, its segments,  *)
(* and the sections.                                                         *)
NewFile(l, f) ==
    [secs |-> FixupLinks(l), segments |-> f.segments, headers |-> f.headers,
     shoff |-> RoundUp(l.next_offset_nonalloc, 8), shstrndx |-> l.new_shstrndx]
=============================================================================
