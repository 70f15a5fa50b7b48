----------------------------- MODULE FindTargets -----------------------------
(***************************************************************************)
(* FindProcessesByName of cpulimit/main.cpp: it lists the pids, reads the    *)
(* name of each, and for one with the right name reads the parent of every   *)
(* pid of the list to find its descendants; processes come and go meanwhile. *)
(***************************************************************************)
EXTENDS Processes

CONSTANT exec_name

VARIABLES step,         \* list, name, parents, done, or overflow
          all_pids, cursor,   \* the pids listed, and the last one seen to
          named,        \* the process whose descendants are looked for
          parent_map,   \* pid -> ppid, 0 if not there
          found,        \* result, and added: the same pids
          start,        \* history: the processes when the search began
          again         \* history: the pids that more than one process had since

findVars == <<step, all_pids, cursor, named, parent_map, found, start>>

NoParents == [p \in Pids |-> 0]

FindInit ==
    /\ step = "list" /\ all_pids = {} /\ cursor = 0 /\ named = 0
    /\ parent_map = NoParents /\ found = {} /\ start = proc
    /\ again = {}

ListAllPids ==
    /\ step = "list"
    /\ IF NextPid(cursor) # 0
       THEN cursor' = NextPid(cursor) /\ all_pids' = all_pids \union {cursor'} /\ UNCHANGED step
       ELSE cursor' = 0 /\ step' = "name" /\ UNCHANGED all_pids
    /\ UNCHANGED <<named, parent_map, found, start>>

Following(p) == p \in all_pids /\ p > cursor /\ \A q \in all_pids : q > cursor => p <= q

HasName(p) == p \in Live /\ proc[p].name = exec_name

ReadExecutableName ==
    /\ step = "name"
    /\ \E p \in all_pids :
         /\ Following(p)
         /\ IF HasName(p) /\ p \notin found
            THEN /\ found' = found \union {p} /\ named' = p
                 /\ step' = "parents" /\ cursor' = 0
            ELSE cursor' = p /\ UNCHANGED <<found, named, step>>
    /\ UNCHANGED <<all_pids, parent_map, start>>

OwnGroup(p) == p   \* mutant: the next field of stat, the process group

PpidOf(p) == proc[p].parent

ReadPpid ==
    /\ step = "parents"
    /\ \E p \in all_pids :
         /\ Following(p)
         /\ cursor' = p
         /\ parent_map' = IF p \in Live THEN [parent_map EXCEPT ![p] = PpidOf(p)]
                                       ELSE parent_map
    /\ UNCHANGED <<step, all_pids, named, found, start>>

CollectOneLevel(parent, parents) ==   \* mutant: no recursion
    {p \in Pids : parents[p] = parent}

CollectChildren(parent, parents) ==
    LET below[n \in 0 .. Cardinality(Pids)] ==
          IF n = 0 THEN {parent}
          ELSE LET above == below[n - 1] IN {p \in Pids : parents[p] \in above}
    IN  UNION {below[n] : n \in 1 .. Cardinality(Pids)}

GetDescendants ==
    /\ step = "parents" /\ ~\E p \in all_pids : Following(p)
    /\ named \notin CollectChildren(named, parent_map)
    /\ found' = found \union CollectChildren(named, parent_map)
    /\ step' = "name" /\ cursor' = named /\ parent_map' = NoParents
    /\ UNCHANGED <<all_pids, named, start>>

(* Below itself, CollectChildren calls itself until the stack is used up.    *)
RecursionOverflows ==
    /\ step = "parents" /\ ~\E p \in all_pids : Following(p)
    /\ named \in CollectChildren(named, parent_map)
    /\ step' = "overflow"
    /\ UNCHANGED <<all_pids, cursor, named, parent_map, found, start>>

Found ==
    /\ step = "name" /\ ~\E p \in all_pids : Following(p)
    /\ step' = "done"
    /\ UNCHANGED <<all_pids, cursor, named, parent_map, found, start>>

FindStep ==
    \/ ListAllPids \/ ReadExecutableName \/ ReadPpid \/ GetDescendants \/ RecursionOverflows
    \/ Found

(* Whoever lives is a child of init, of a child of init, and so on; or of    *)
(* nobody, as kthreadd is.                                                   *)
FamilyTree ==
    /\ proc[Initial].live /\ proc[Initial].parent = 0
    /\ \A p \in Live \ {Initial} : proc[p].parent \in Live \union {0}
    /\ \A S \in SUBSET (Live \ {Initial}) : S # {} => \E p \in S : proc[p].parent \notin S

PidsUsedAgain ==
    again' = again \union {p \in Pids :
               /\ proc'[p].birth # proc[p].birth
               /\ start[p].live \/ proc[p].birth # start[p].birth}

(* The search, beside any processes that come and go and call exec.          *)
FindNext ==
    \/ FindStep /\ UNCHANGED <<processes, again>>
    \/ ComeAndGo /\ PidsUsedAgain /\ UNCHANGED findVars

FindSpec ==
    ProcessesOK /\ FamilyTree /\ FindInit /\ [][FindNext]_<<processes, findVars, again>>

-----------------------------------------------------------------------------
(* Who has not changed since the search began, and nor has anyone between    *)
(* it and a process with the name: found.                                    *)
FindsTheSteady ==
    step = "done" =>
        LET steady == {p \in Live : proc[p] = start[p]}
            targets[n \in 0 .. Cardinality(Pids)] ==
              IF n = 0 THEN {p \in steady : proc[p].name = exec_name}
              ELSE LET some == targets[n - 1]
                   IN  some \union {p \in steady : proc[p].parent \in some}
        IN  targets[Cardinality(Pids)] \subseteq found

(* The recursion of CollectChildren ends, though the parents are read one    *)
(* after another while processes fork, exit and are adopted: it does not     *)
(* unless the pid of one it comes to has been used again since the search    *)
(* began.                                                                    *)
RecursionEnds ==
    step = "overflow" => CollectChildren(named, parent_map) \intersect again # {}
=============================================================================
