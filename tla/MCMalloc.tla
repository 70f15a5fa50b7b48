------------------------------ MODULE MCMalloc ------------------------------
EXTENDS Malloc
MCClientWords == {[size |-> 1, pinuse |-> FALSE]}
Heads == Chunks \union {first}
View == <<[c \in Heads |-> <<size[c], pinuse[c]>>], [c \in InBins |-> back[Next_(c)]],
          lists, heap, client, held, call, pc>>
=============================================================================
