------------------------------ MODULE Processes ------------------------------
(***************************************************************************)
(* The processes that top and cpulimit read about in /proc: they run, start  *)
(* others, call exec and exit whenever they like, and pids are used again.   *)
(* A zombie counts as a process that still lives.                            *)
(***************************************************************************)
EXTENDS Integers, FiniteSets

CONSTANTS Pids,       \* a finite set of positive numbers; Initial is init
          Initial,
          Names,      \* what /proc/pid/comm may say
          MaxTicks, MaxEvents   \* bounds: CPU ticks of a process, forks, execs and exits

ASSUME PidsAssumption == Pids \subseteq Nat \ {0} /\ IsFiniteSet(Pids) /\ Initial \in Pids

VARIABLES proc,     \* [live, parent, name, ticks, birth, image]: birth and image are
                    \* the numbers of the fork it began with and of its last exec
          events    \* forks, execs and exits so far

processes == <<proc, events>>

Live == {p \in Pids : proc[p].live}

Happens == events < MaxEvents /\ events' = events + 1

Fork(parent) ==
    /\ Happens
    /\ \E p \in Pids \ Live :
         proc' = [proc EXCEPT ![p] =
                    [live |-> TRUE, parent |-> parent, name |-> proc[parent].name,
                     ticks |-> 0, birth |-> events', image |-> 0]]

Exec(p) ==
    /\ Happens
    /\ \E name \in Names \ {proc[p].name} :
         proc' = [proc EXCEPT ![p].name = name, ![p].image = events']

Exit(p) ==   \* its children go to init
    /\ p # Initial /\ Happens
    /\ proc' = [q \in Pids |->
                  IF q = p THEN [proc[q] EXCEPT !.live = FALSE]
                  ELSE IF proc[q].parent = p THEN [proc[q] EXCEPT !.parent = Initial]
                  ELSE proc[q]]

UseCpu(p) ==
    /\ proc[p].ticks < MaxTicks
    /\ proc' = [proc EXCEPT ![p].ticks = @ + 1]
    /\ UNCHANGED events

(* What may happen at any moment but the use of the CPU.                     *)
ComeAndGo == \E p \in Live : Fork(p) \/ Exec(p) \/ Exit(p)

(* Any state of affairs a program may find when it starts.                   *)
Process ==
    [live : BOOLEAN, parent : Pids \union {0}, name : Names, ticks : Nat, birth : Nat,
     image : Nat]

ProcessesOK ==
    /\ events \in Nat /\ proc \in [Pids -> Process]
    /\ \A p \in Pids : proc[p].birth <= events /\ proc[p].image <= events

(* readdir of /proc gives the live pids in their order, one at a call; 0 is  *)
(* the end.                                                                  *)
NextPid(after) ==
    LET rest == {p \in Live : p > after}
    IN  IF rest = {} THEN 0 ELSE CHOOSE p \in rest : \A q \in rest : p <= q
=============================================================================
