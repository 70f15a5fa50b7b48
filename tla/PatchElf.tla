------------------------------ MODULE PatchElf ------------------------------
(***************************************************************************)
(* patchelf/main.cpp: what each mode makes of a file.                        *)
(***************************************************************************)
EXTENDS ElfFile

FindDynamicSection(f) == FirstNamed(f, ".dynamic")   \* by its type

(* sh_link of .dynamic, 0 when there is none.                                *)
DynStr(f) == IF FindDynamicSection(f) = 0 THEN 0 ELSE f.secs[FindDynamicSection(f)].link

HasRPath(f) == Section(f, FindDynamicSection(f)).data = RPathEntry

PrintRPath(f) == IF HasRPath(f) THEN Section(f, DynStr(f)).data ELSE Blank

PrintInterpreter(f) == Section(f, FirstNamed(f, ".interp")).data

(* The rpath has the room of the string that is there now; the rest of an    *)
(* older, longer one is lost to it.                                          *)
CanSetRPath(f, v) ==
    /\ v.len > 0 /\ HasRPath(f)
    /\ Section(f, DynStr(f)).data.len >= v.len

SetRPathUnmarked(f, v) == f   \* mutant: elf_flagdata forgotten

SetRPath(f, v) == [f EXCEPT !.secs[DynStr(f)].data = v]

(* The interpreter has the room of its whole section.                        *)
CanSetInterpreter(f, v) ==
    /\ v.len > 0 /\ HasNames(f) /\ FirstNamed(f, ".interp") # 0
    /\ v.len + 1 <= f.secs[FirstNamed(f, ".interp")].size

SetInterpreter(f, v) == [f EXCEPT !.secs[FirstNamed(f, ".interp")].data = v]
=============================================================================
