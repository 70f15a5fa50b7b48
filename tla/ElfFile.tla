------------------------------- MODULE ElfFile -------------------------------
(***************************************************************************)
(* An ELF file as strip and patchelf see it through libelf: `headers' is     *)
(* where the ELF header and the program headers end.  Sections are           *)
(* numbered from 1, as in the file, where number 0 is no section.  Of the    *)
(* contents only the string a patchelf may set is kept: the interpreter in   *)
(* .interp, and in .dynstr the string that DT_RPATH points to.               *)
(***************************************************************************)
EXTENDS Naturals, Sequences

(* Strings, by their length and what tells two of one length apart.          *)
Strings == [len : Nat, id : STRING]
Blank == [len |-> 0, id |-> ""]
RPathEntry == [len |-> 0, id |-> "DT_RPATH"]   \* what .dynamic may hold

(* rel: of type SHT_REL or SHT_RELA; size: what it takes in the file.        *)
Sections == [name : STRING, alloc : BOOLEAN, rel : BOOLEAN, size : Nat, align : Nat,
             offset : Nat, link : Nat, info : Nat, data : Strings]

NotElf == [secs |-> <<>>, segments |-> {}, headers |-> 0, shoff |-> 0, shstrndx |-> 0]

(* The section with this number, or one without name or data.                *)
NoSection == [name |-> "", data |-> Blank]
Section(f, k) == IF k \in DOMAIN f.secs THEN f.secs[k] ELSE NoSection

(* elf_strptr on the names of sections: without their table it returns a     *)
(* null pointer, and std::string throws.                                     *)
HasNames(f) == Section(f, f.shstrndx).name = ".shstrtab"

(* The number of the first section elf_nextscn comes to with this name, or 0.*)
FirstNamed(f, name) ==
    LET them == {k \in DOMAIN f.secs : f.secs[k].name = name}
    IN  IF them = {} THEN 0 ELSE CHOOSE k \in them : \A j \in them : k <= j
=============================================================================
