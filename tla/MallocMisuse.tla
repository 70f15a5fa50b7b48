---------------------------- MODULE MallocMisuse ----------------------------
(***************************************************************************)
(* Malloc with a client that may free the block it has just freed once      *)
(* more.  Nothing is called in between, so the chunk is free, or part of a  *)
(* larger free chunk, when free looks at it again.                          *)
(***************************************************************************)
EXTENDS Malloc

VARIABLES just,    \* the blocks the last call of the client freed
          twice    \* the running call frees a block that is free

misuse == <<vars, just, twice>>

MisuseInit == Init /\ just = {} /\ twice = FALSE

Legal ==
    /\ Next
    /\ just' = IF pc = "idle" THEN live \ live' ELSE just
    /\ twice' = (twice /\ pc' # "idle")

FreeAgain ==
    /\ pc = "idle"
    /\ \E p \in just : held' = {p}
    /\ call' = [NoCall EXCEPT !.op = "free"]
    /\ pc' = "free"
    /\ twice' = TRUE
    /\ UNCHANGED <<memory, lists, heap, client, just>>

MisuseSpec == MisuseInit /\ [][Legal \/ FreeAgain]_misuse

(* readme.md: free of a chunk that is already free prints "double free      *)
(* detected" and aborts.  Here for blocks too large for the fast bins, whose*)
(* PREV_INUSE bit free does clear: its checks let none of them through.     *)
OrdinaryDoubleFreeAborts == twice => pc \in {"free", "aborted"}
=============================================================================
