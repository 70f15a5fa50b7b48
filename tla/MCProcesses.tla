----------------------------- MODULE MCProcesses -----------------------------
(***************************************************************************)
(* One of the two programs that read /proc, top or the search of cpulimit,   *)
(* beside processes that go on meanwhile: for top they use the CPU and come  *)
(* and go, for cpulimit they form any family tree and change it.             *)
(***************************************************************************)
EXTENDS Top, FindTargets

VARIABLE program

vars == <<processes, program, topVars, findVars, again>>

Alive(parent, name) ==
    [live |-> TRUE, parent |-> parent, name |-> name, ticks |-> 0, birth |-> 0,
     image |-> 0]
Free == [Alive(Initial, "other") EXCEPT !.live = FALSE]

(* Every way to be a child of somebody, up to init, with the last pid free.  *)
Trees ==
    LET others == Pids \ {Initial, CHOOSE p \in Pids : \A q \in Pids : p >= q}
        rises(f) == \A S \in SUBSET others : S # {} => \E p \in S : f[p] \notin S
    IN  {[p \in Pids |-> IF p = Initial THEN Alive(0, "other")
                         ELSE IF p \in others THEN Alive(f[p], n[p]) ELSE Free] :
           f \in {g \in [others -> Pids] : rises(g) /\ \A p \in others : g[p] \in others \union {Initial}},
           n \in [others -> Names]}

Init ==
    /\ events = 0
    /\ \/ program = "top" /\ proc = [p \in Pids |-> IF p = Initial THEN Alive(0, "other")
                                       ELSE IF p <= Initial + 2 THEN Alive(Initial, "other") ELSE Free]
       \/ program = "cpulimit" /\ proc \in Trees
    /\ TopInit /\ FindInit

World ==
    \/ /\ program = "top"
       /\ Fork(Initial) \/ \E p \in Live \ {Initial} : Exit(p) \/ UseCpu(p)
       /\ Live' \subseteq Initial .. Initial + 3   \* bound: one free pid is enough here
       /\ UNCHANGED again
    \/ program = "cpulimit" /\ step \notin {"done", "overflow"} /\ ComeAndGo /\ PidsUsedAgain

Next ==
    \/ World /\ UNCHANGED <<program, topVars, findVars>>
    \/ program = "top" /\ TopStep /\ UNCHANGED <<processes, program, findVars, again>>
    \/ program = "cpulimit" /\ FindStep /\ UNCHANGED <<processes, program, topVars, again>>

Spec == Init /\ [][Next]_vars
=============================================================================
