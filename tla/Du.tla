--------------------------------- MODULE Du ---------------------------------
(***************************************************************************)
(* du/main.cpp: the walk of one argument by RecursiveDirectoryIterator,     *)
(* which skips what it has visited, adds sizes up the stack of open         *)
(* directories and prints; and somebody who unlinks files meanwhile.        *)
(*                                                                         *)
(* A path is the entry of its directory it ends in, and the directory's own *)
(* path is on the stack.  A step is one round of the loop of Process: an    *)
(* entry is unlinked before a round or after it, as the calls of one round  *)
(* never look at the same entry twice with different effect.                *)
(***************************************************************************)
EXTENDS Integers, Sequences, FiniteSets, FiniteSetsExt

CONSTANTS Inodes, Size(_),   \* inodes, and what each takes on the disk
          Root,        \* a directory no entry leads to
          Names, None,
          Trees,       \* the file systems to walk
          Options,     \* the flags, and the entry that is the argument
          MaxUnlinks   \* bound

Top == <<None, None>>   \* the path of Root
Entries == {Top} \union (Inodes \X Names)

TreeType ==
    [kind : [Inodes -> {"dir", "file", "link"}],
     names : [Inodes -> [Names -> Inodes \union {None}]],   \* of directories
     to : [Inodes -> Entries \union {None}],                \* of symbolic links
     locked : SUBSET Inodes]                                \* opendir fails

ASSUME DuAssumption ==
    /\ IsFiniteSet(Inodes) /\ Root \in Inodes /\ \A i \in Inodes : Size(i) \in Nat
    /\ None \notin Inodes /\ None \notin Names
    /\ Trees \subseteq TreeType /\ MaxUnlinks \in Nat
    /\ Options \subseteq {o \in [all : BOOLEAN, summarize : BOOLEAN, dereference : BOOLEAN,
                                arg : Entries] : ~(o.all /\ o.summarize)}

SizeOf(inodes) == MapThenSumSet(Size, inodes)

VARIABLES tree, unlinks,   \* the file system, and entries removed from it
          option,          \* Config and the argument
          started,         \* the constructor has run
          stack,           \* stack_, its top first
          visited,         \* visited_
          printed          \* what ProcessPath wrote: pairs of inode and size

walk == <<started, stack, visited, printed>>
vars == <<tree, unlinks, option, walk>>

Init ==
    /\ tree \in Trees /\ unlinks = 0
    /\ option \in Options
    /\ started = FALSE /\ stack = <<>> /\ visited = {} /\ printed = <<>>

-----------------------------------------------------------------------------
(* Resolving a path.                                                        *)
Lookup(entry) ==   \* lstat
    IF entry = Top THEN Root ELSE tree.names[entry[1]][entry[2]]

IsLink(i) == i # None /\ tree.kind[i] = "link"

(* What a step along a link leads to; a chain of more links than there are  *)
(* inodes is a loop.                                                        *)
Stat(entry) ==
    LET ahead == [i \in Inodes \union {None} |->
                    IF ~IsLink(i) THEN i
                    ELSE IF tree.to[i] = None THEN None ELSE Lookup(tree.to[i])]
        hop[k \in 0 .. Cardinality(Inodes)] ==
          IF k = 0 THEN Lookup(entry) ELSE ahead[hop[k - 1]]
        end == hop[Cardinality(Inodes)]
    IN  IF IsLink(end) THEN None ELSE end

StatOrLstat(entry) == IF option.dereference THEN Stat(entry) ELSE Lookup(entry)

(* The path of the directory on top of s still leads there.                 *)
PathHolds(s) == \A k \in DOMAIN s : Stat(s[k].entry) = s[k].dir

-----------------------------------------------------------------------------
(* DirectoryIterator, whose path is that of an entry of the top directory.  *)
Opened(entry, dir) ==
    [dir |-> dir, entry |-> entry, total |-> 0, next |-> None, inode |-> None,
     left |-> IF PathHolds(stack) /\ Stat(entry) = dir /\ dir \notin tree.locked
              THEN {n \in Names : tree.names[dir][n] # None} ELSE {}]

AdvancedUntilError(it, holds) ==   \* mutant: a failed lstat ends the directory
    IF it.left = {}
    THEN {[it EXCEPT !.next = None, !.inode = None]}
    ELSE {IF holds /\ tree.names[it.dir][n] # None
          THEN [it EXCEPT !.next = n, !.inode = tree.names[it.dir][n], !.left = @ \ {n}]
          ELSE [it EXCEPT !.next = None, !.inode = None, !.left = {}] : n \in it.left}

(* ++: the next name readdir returns, in whatever order, that lstat finds.  *)
Advanced(it, holds) ==
    LET alive == IF holds THEN {n \in it.left : tree.names[it.dir][n] # None} ELSE {}
    IN  IF alive = {}
        THEN {[it EXCEPT !.next = None, !.inode = None, !.left = {}]}
        ELSE {[it EXCEPT !.next = n, !.inode = tree.names[it.dir][n], !.left = alive \ {n}] :
                 n \in alive}

-----------------------------------------------------------------------------
(* RecursiveDirectoryIterator.                                              *)
Write(i, size) == printed' = Append(printed, <<i, size>>)

ArgumentMissing ==
    /\ ~started /\ started' = TRUE
    /\ StatOrLstat(option.arg) = None
    /\ UNCHANGED <<tree, unlinks, option, stack, visited, printed>>

ArgumentIsFile ==
    /\ ~started /\ started' = TRUE
    /\ LET i == StatOrLstat(option.arg)
       IN  /\ i # None /\ tree.kind[i] # "dir"
           /\ visited' = {i} /\ Write(i, Size(i))
    /\ UNCHANGED <<tree, unlinks, option, stack>>

ArgumentIsDirectory ==
    /\ ~started /\ started' = TRUE
    /\ LET i == StatOrLstat(option.arg)
       IN  /\ i # None /\ tree.kind[i] = "dir"
           /\ visited' = {i}
           /\ \E it \in Advanced(Opened(option.arg, i), TRUE) : stack' = <<it>>
    /\ UNCHANGED <<tree, unlinks, option, printed>>

top == Head(stack)

HandleFinishedDirectoryUnprinted ==   \* mutant: only printed directories are popped
    /\ stack # <<>> /\ top.next = None
    /\ LET total == top.total + (IF PathHolds(stack) THEN Size(top.dir) ELSE 0)
       IN  IF option.summarize /\ Len(stack) > 1
           THEN UNCHANGED <<stack, printed>>
           ELSE /\ Write(top.dir, total)
                /\ stack' = IF Len(stack) = 1 THEN <<>>
                            ELSE [Tail(stack) EXCEPT ![1].total = @ + total]
    /\ UNCHANGED <<tree, unlinks, option, started, visited>>

HandleFinishedDirectoryRootless ==   \* mutant: IsRoot not asked, -s prints nothing
    /\ stack # <<>> /\ top.next = None
    /\ LET total == top.total + (IF PathHolds(stack) THEN Size(top.dir) ELSE 0)
       IN  /\ IF option.summarize THEN UNCHANGED printed ELSE Write(top.dir, total)
           /\ stack' = IF Len(stack) = 1 THEN <<>>
                       ELSE [Tail(stack) EXCEPT ![1].total = @ + total]
    /\ UNCHANGED <<tree, unlinks, option, started, visited>>

HandleFinishedDirectory ==
    /\ stack # <<>> /\ top.next = None
    /\ LET total == top.total + (IF PathHolds(stack) THEN Size(top.dir) ELSE 0)
       IN  /\ IF option.summarize /\ Len(stack) > 1 THEN UNCHANGED printed
                                                    ELSE Write(top.dir, total)
           /\ stack' = IF Len(stack) = 1 THEN <<>>
                       ELSE [Tail(stack) EXCEPT ![1].total = @ + total]
    /\ UNCHANGED <<tree, unlinks, option, started, visited>>

(* HandleNextEntry: what lstat said when the entry before this one was      *)
(* handled, or what stat says now.                                          *)
Id == IF ~option.dereference THEN top.inode
      ELSE IF PathHolds(stack) THEN Stat(<<top.dir, top.next>>) ELSE None

NewEver(isDir) ==   \* mutant: visited_ not asked
    {i \in Inodes : (tree.kind[i] = "dir") = isDir}
New(isDir) == {i \in Inodes \ visited : (tree.kind[i] = "dir") = isDir}

SkipEntry ==
    /\ stack # <<>> /\ top.next # None /\ Id \notin Inodes \ visited
    /\ \E it \in Advanced(top, PathHolds(stack)) : stack' = <<it>> \o Tail(stack)
    /\ UNCHANGED <<tree, unlinks, option, started, visited, printed>>

EnterDirectory ==
    /\ stack # <<>> /\ top.next # None /\ Id \in New(TRUE)
    /\ visited' = visited \union {Id}
    /\ \E it \in Advanced(top, PathHolds(stack)) :
         \E child \in Advanced(Opened(<<top.dir, top.next>>, Id), TRUE) :
           stack' = <<child, it>> \o Tail(stack)
    /\ UNCHANGED <<tree, unlinks, option, started, printed>>

CountFileInRoot ==   \* mutant: added to the argument at once
    /\ stack # <<>> /\ top.next # None /\ Id \in New(FALSE)
    /\ visited' = visited \union {Id}
    /\ \E it \in Advanced(top, PathHolds(stack)) :
         stack' = [<<it>> \o Tail(stack) EXCEPT ![Len(stack)].total = @ + Size(Id)]
    /\ IF option.all THEN Write(Id, Size(Id)) ELSE UNCHANGED printed
    /\ UNCHANGED <<tree, unlinks, option, started>>

CountFileUnseen ==   \* mutant: only directories are remembered
    /\ stack # <<>> /\ top.next # None /\ Id \in New(FALSE)
    /\ UNCHANGED visited
    /\ \E it \in Advanced(top, PathHolds(stack)) :
         stack' = <<[it EXCEPT !.total = @ + Size(Id)]>> \o Tail(stack)
    /\ IF option.all THEN Write(Id, Size(Id)) ELSE UNCHANGED printed
    /\ UNCHANGED <<tree, unlinks, option, started>>

CountFile ==
    /\ stack # <<>> /\ top.next # None /\ Id \in New(FALSE)
    /\ visited' = visited \union {Id}
    /\ \E it \in Advanced(top, PathHolds(stack)) :
         stack' = <<[it EXCEPT !.total = @ + Size(Id)]>> \o Tail(stack)
    /\ IF option.all THEN Write(Id, Size(Id)) ELSE UNCHANGED printed
    /\ UNCHANGED <<tree, unlinks, option, started>>

-----------------------------------------------------------------------------
(* Somebody else removes a file, a link or an empty directory.              *)
Unlink ==
    /\ stack # <<>> /\ unlinks < MaxUnlinks /\ unlinks' = unlinks + 1
    /\ \E d \in Inodes, n \in Names :
         /\ tree.names[d][n] # None
         /\ tree.kind[tree.names[d][n]] = "dir" =>
               \A m \in Names : tree.names[tree.names[d][n]][m] = None
         /\ tree' = [tree EXCEPT !.names[d][n] = None]
    /\ UNCHANGED <<option, walk>>

Process ==
    \/ ArgumentMissing \/ ArgumentIsFile \/ ArgumentIsDirectory
    \/ HandleFinishedDirectory \/ SkipEntry \/ EnterDirectory \/ CountFile

Next == Process \/ Unlink

(* du is scheduled; nobody need unlink anything.                            *)
Spec == Init /\ [][Next]_vars /\ WF_vars(Process)

Done == started /\ stack = <<>>

-----------------------------------------------------------------------------
(* Properties.                                                              *)

(* The state has the shape the declarations of the code give it.  A number  *)
(* of frames: a directory is on the stack once, through however many links  *)
(* it is reached.                                                           *)
TypeOK ==
    /\ tree \in TreeType /\ unlinks \in 0 .. MaxUnlinks /\ option \in Options
    /\ started \in BOOLEAN /\ visited \subseteq Inodes
    /\ \A k \in DOMAIN stack :
         /\ stack[k].dir \in visited /\ stack[k].entry \in Entries
         /\ stack[k].total \in Nat /\ stack[k].left \subseteq Names
         /\ stack[k].next \in Names \union {None}
         /\ stack[k].inode \in Inodes \union {None}
    /\ \A j, k \in DOMAIN stack : stack[j].dir = stack[k].dir => j = k
    /\ \A k \in DOMAIN printed : printed[k] \in Inodes \X Nat

(* What there is to count below inode i, links followed or not, without a   *)
(* look into the directories in shut: the least set with i and whatever an  *)
(* entry of a directory in it leads to.                                     *)
ReachAround(i, shut) ==
    LET out(d) == {StatOrLstat(<<d, n>>) : n \in Names} \ {None}
        open(S) == {d \in S \ shut : tree.kind[d] = "dir"}
        step[k \in 0 .. Cardinality(Inodes)] ==
          IF k = 0 THEN {i}
          ELSE LET S == step[k - 1] IN S \union UNION {out(d) : d \in open(S)}
    IN  step[Cardinality(Inodes)]

Reach(i) == ReachAround(i, tree.locked)

ReachOfArgument ==
    LET i == StatOrLstat(option.arg) IN IF i = None THEN {} ELSE Reach(i)

(* What the argument leads to by way of directory d only.                   *)
OnlyThrough(d) ==
    {d} \union (Reach(d) \ ReachAround(StatOrLstat(option.arg), tree.locked \union {d}))

(* readme.md: files with the same inode count once, links that lead nowhere *)
(* are ignored, a directory reached again is not counted again.  So, if the *)
(* argument is there, a last line is printed, for the argument, and its     *)
(* size is the sum over all that can be reached, each inode once.           *)
TotalIsTheTree ==
    Done /\ unlinks = 0 =>
        LET i == StatOrLstat(option.arg)
        IN  IF i = None THEN printed = <<>>
            ELSE printed # <<>> /\ printed[Len(printed)] = <<i, SizeOf(ReachOfArgument)>>

(* A directory that changes during the walk: without -L, whatever is still  *)
(* there in the end has been counted, as the walk goes on past entries that *)
(* have gone.                                                               *)
MissesNothing ==
    Done /\ (unlinks = 0 \/ ~option.dereference) => ReachOfArgument \subseteq visited

(* The size printed for a directory is made of the sizes of inodes below    *)
(* it, none of them twice, and of all those that are below no other.        *)
EachTotalIsItsOwn ==
    unlinks = 0 => \A k \in DOMAIN printed :
        LET d == printed[k][1]
        IN  \E S \in SUBSET Reach(d) : OnlyThrough(d) \subseteq S /\ printed[k][2] = SizeOf(S)

(* One line with -s, not more and not less, if the argument was there;      *)
(* otherwise one line for each directory that was visited, and with -a one  *)
(* for each inode.                                                          *)
PrintsWhatWasAsked ==
    Done =>
        LET lines == {printed[k][1] : k \in DOMAIN printed}
        IN  /\ Cardinality(lines) = Len(printed)
            /\ IF option.summarize /\ visited # {} THEN Len(printed) = 1
               ELSE lines = {i \in visited : \/ tree.kind[i] = "dir" \/ option.all
                                             \/ visited = {i}}

(* The walk ends, also where links make cycles.                             *)
Terminates == <>Done
=============================================================================
