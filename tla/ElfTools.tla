------------------------------ MODULE ElfTools ------------------------------
(***************************************************************************)
(* strip and patchelf at work on one executable or shared library.  A run    *)
(* of strip reads it section by section, writes the file temp beside it and  *)
(* renames that over it; a run of patchelf changes it in place.  Both may    *)
(* run at once, and either may fail or be killed before its last step; one   *)
(* run of each tool at a time.                                               *)
(***************************************************************************)
EXTENDS Strip, PatchElf

CONSTANTS Files,     \* what the file may be to begin with
          Values,    \* the strings patchelf is asked to set
          Unknown,
          LinkTarget(_), InfoTarget(_)   \* the names of the sections that sh_link, and in
                     \* relocations sh_info, of a section with some name lead to, or ""

ASSUME FilesAssumption ==
    /\ Values \subseteq Strings
    /\ Files \subseteq [secs : Seq(Sections), segments : SUBSET [offset : Nat, filesz : Nat],
                      headers : Nat, shoff : Nat, shstrndx : Nat]
    /\ \A f \in Files : IsFiniteSet(f.segments)
    /\ LinkTarget(".dynamic") = ".dynstr"

VARIABLES file, temp,   \* contents; a file being written is not ELF yet
          strip,        \* [pc, keep_symtab, k, loop]: section k is next
          patch,        \* [pc, mode, value, replaced]: is its file no longer at the path?
          last,         \* history: what was set last
          stripped      \* history: the flags file was stripped with, if it was

vars == <<file, temp, strip, patch, last, stripped>>

StripIdle == [pc |-> "idle", keep_symtab |-> FALSE, k |-> 1, loop |-> LoopStart(NotElf)]
PatchIdle == [pc |-> "idle", mode |-> "rpath", value |-> Blank, replaced |-> FALSE]

(* What the loader takes, whatever the section table says.                   *)
LoaderSees(f) ==
    [rpath |-> IF HasRPath(f) THEN Section(f, FirstNamed(f, ".dynstr")).data ELSE Blank,
     interpreter |-> Section(f, FirstNamed(f, ".interp")).data]

Init ==
    /\ file \in Files /\ temp = NotElf
    /\ strip = StripIdle /\ patch = PatchIdle
    /\ last = LoaderSees(file) /\ stripped = {}

-----------------------------------------------------------------------------
(* strip: ElfStrip::Process.                                                 *)

OpenInput ==
    /\ strip.pc = "idle"
    /\ \E keep \in BOOLEAN : strip' = [strip EXCEPT !.pc = "create", !.keep_symtab = keep]
    /\ UNCHANGED <<file, temp, patch, last, stripped>>

CreateTemp ==   \* O_CREAT | O_TRUNC: whatever an earlier run left there is gone
    /\ strip.pc = "create"
    /\ temp' = NotElf
    /\ strip' = [strip EXCEPT !.pc = "copy", !.k = 1, !.loop = LoopStart(file)]
    /\ UNCHANGED <<file, patch, last, stripped>>

ProcessSection ==
    /\ strip.pc = "copy" /\ strip.k \in DOMAIN file.secs /\ HasNames(file)
    /\ LET s == file.secs[strip.k]
       IN  strip' = [strip EXCEPT !.k = @ + 1,
                       !.loop = IF ShouldSkipSection(s.name, strip.keep_symtab) THEN @
                                ELSE CopySection(@, s, strip.k)]
    /\ UNCHANGED <<file, temp, patch, last, stripped>>

Update ==
    /\ strip.pc = "copy" /\ strip.k \notin DOMAIN file.secs
    /\ temp' = NewFile(strip.loop, file)
    /\ strip' = [strip EXCEPT !.pc = "rename"]
    /\ UNCHANGED <<file, patch, last, stripped>>

Rename ==
    /\ strip.pc = "rename"
    /\ file' = temp /\ temp' = NotElf
    /\ strip' = StripIdle /\ stripped' = {strip.keep_symtab}
    /\ patch' = [patch EXCEPT !.replaced = patch.pc # "idle"]
    /\ UNCHANGED last

StripFails ==
    /\ strip.pc # "idle" /\ strip' = StripIdle
    /\ UNCHANGED <<file, temp, patch, last, stripped>>

-----------------------------------------------------------------------------
(* patchelf: ElfPatcher::Process.  It reads and changes its own copy, then   *)
(* elf_update writes the section it marked as changed.                       *)

CanSet(f, mode, v) ==
    IF mode = "rpath" THEN CanSetRPath(f, v) ELSE CanSetInterpreter(f, v)

OpenToSet ==
    /\ patch.pc = "idle"
    /\ \E mode \in {"rpath", "interpreter"}, v \in Values :
         /\ CanSet(file, mode, v)
         /\ patch' = [patch EXCEPT !.pc = "write", !.mode = mode, !.value = v]
    /\ UNCHANGED <<file, temp, strip, last, stripped>>

WriteBack ==
    /\ patch.pc = "write"
    /\ file' = IF patch.replaced THEN file
               ELSE IF patch.mode = "rpath" THEN SetRPath(file, patch.value)
               ELSE SetInterpreter(file, patch.value)
    /\ last' = [last EXCEPT ![patch.mode] =
                  IF patch.replaced \/ strip.pc # "idle" THEN Unknown ELSE patch.value]
    /\ patch' = PatchIdle
    /\ UNCHANGED <<temp, strip, stripped>>

PatchFails ==
    /\ patch.pc # "idle" /\ patch' = PatchIdle
    /\ UNCHANGED <<file, temp, strip, last, stripped>>

Next ==
    \/ OpenInput \/ CreateTemp \/ ProcessSection \/ Update \/ Rename \/ StripFails
    \/ OpenToSet \/ WriteBack \/ PatchFails

Spec == Init /\ [][Next]_vars

-----------------------------------------------------------------------------
(* Properties.                                                               *)

Lead(f, target) == IF target = "" THEN 0 ELSE FirstNamed(f, target)

(* A link leads to the section it is meant to, or nowhere if that one is     *)
(* gone; sh_info of relocations is a link as well.                           *)
LinksLead(f) ==
    \A k \in DOMAIN f.secs :
        LET s == f.secs[k]
        IN  /\ s.link = Lead(f, LinkTarget(s.name))
            /\ s.rel => s.info = Lead(f, InfoTarget(s.name))

(* The segments hold the headers and behind them what is loaded.  What no    *)
(* segment holds lies behind the segments, aligned, before the table of      *)
(* section headers, and nothing over something else.                         *)
LaidOut(f) ==
    LET loose == {k \in DOMAIN f.secs : ~f.secs[k].alloc}
        End(s) == s.offset + s.size
    IN  /\ f.headers <= ComputeEndOfSegments(f)
        /\ \A k \in DOMAIN f.secs \ loose :
             LET s == f.secs[k]
             IN  s.size > 0 => f.headers <= s.offset /\ End(s) <= ComputeEndOfSegments(f)
        /\ \A k \in loose :
             LET s == f.secs[k]
             IN  /\ s.align > 0 => s.offset % s.align = 0
                 /\ ComputeEndOfSegments(f) <= s.offset /\ End(s) <= f.shoff
                 /\ \A j \in loose \ {k} :
                      End(s) <= f.secs[j].offset \/ End(f.secs[j]) <= s.offset
        /\ ComputeEndOfSegments(f) <= f.shoff /\ f.shoff % 8 = 0

(* At every moment, whatever has failed or been killed half way, the path    *)
(* holds a whole ELF file in order.                                          *)
Sound(f) == HasNames(f) /\ LinksLead(f) /\ LaidOut(f)
FileIsSound == Sound(file)

(* The files the tools are given are executables and libraries as linkers    *)
(* make them.  (An object file has no segments: strip lays its sections over *)
(* the headers.)                                                             *)
ASSUME FilesAreSound == \A f \in Files : Sound(f)

(* After any sequence of runs, failed ones included, the file answers with   *)
(* what was set last, to patchelf and to the loader; a string that was set   *)
(* while strip was at work may be lost.                                      *)
LastSetAnswers ==
    /\ last.rpath # Unknown =>
         PrintRPath(file) = last.rpath /\ LoaderSees(file).rpath = last.rpath
    /\ last.interpreter # Unknown => PrintInterpreter(file) = last.interpreter

(* A section without what strip may change: its links, and the offset of one *)
(* that is in no segment.                                                    *)
Lasting(s) ==
    <<s.name, s.alloc, s.rel, s.size, s.align, IF s.alloc THEN s.offset ELSE 0,
      IF s.rel THEN 0 ELSE s.info>>

(* The sections that stay, and where one of them comes to be among them.     *)
Kept(f, keep_symtab) ==
    {k \in DOMAIN f.secs : ~ShouldSkipSection(f.secs[k].name, keep_symtab)}
Place(kept, k) == Cardinality({j \in kept : j <= k})

(* A run that succeeds drops what it should and keeps the rest in its order, *)
(* with what the segments hold where it was.                                 *)
StripKeepsTheRest ==
    [][Rename =>
         LET kept == Kept(file, strip.keep_symtab)
         IN  /\ file'.segments = file.segments /\ file'.headers = file.headers
             /\ Len(file'.secs) = Cardinality(kept)
             /\ \A k \in kept :
                  Lasting(file'.secs[Place(kept, k)]) = Lasting(file.secs[k])]_vars

(* Strip again, with the same flag or after a strip without -d, and nothing  *)
(* moves.                                                                    *)
StripAgainChangesNothing ==
    [][Rename /\ (FALSE \in stripped \/ strip.keep_symtab \in stripped) =>
         LET Shape(f) == [f EXCEPT !.secs = [k \in DOMAIN @ |-> [@[k] EXCEPT !.data = Blank]]]
         IN  Shape(file') = Shape(file)]_vars
=============================================================================
