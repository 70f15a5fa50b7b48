--------------------------- MODULE MCSizeClasses ---------------------------
(***************************************************************************)
(* Checks the size arithmetic with the constants of the code itself, apart  *)
(* from the width of size_t: kSizeMod is the bound of the walk, so that the *)
(* walk also meets the requests near SIZE_MAX.  A state is one size; a step *)
(* goes on to the next, so that an action property compares neighbours.     *)
(***************************************************************************)
EXTENDS SizeClasses, FiniteSets

CONSTANTS kBinsCount,   \* lists in the BinsList of ordinary bins
          FineUpTo,     \* below this size the walk visits every byte,
          WalkStep      \* above it, one size in WalkStep bytes

ASSUME WalkAssumption == FineUpTo \in Nat /\ WalkStep \in Nat

VARIABLE size

Init == size = 0

Next == \/ size < FineUpTo /\ size' = size + 1
        \/ /\ size >= FineUpTo /\ size + WalkStep < kSizeMod
           /\ size' = size + WalkStep

Spec == Init /\ [][Next]_size

-----------------------------------------------------------------------------
(* The groups of ranges, written out from the table the loop walks: 32 bins *)
(* of 64 bytes, 16 of 512, 8 of 4096, 4 of 32768, 2 of 262144.              *)
Groups == {0, 1, 2, 3, 4}
GroupCount(g) == kLargeBinsFirstCount \div (2 ^ g)
GroupStep(g) == kLargeBinsFirstStep * (8 ^ g)
GroupStart(g) ==
    kMaxSmallBinSize
      + (IF g > 0 THEN GroupCount(0) * GroupStep(0) ELSE 0)
      + (IF g > 1 THEN GroupCount(1) * GroupStep(1) ELSE 0)
      + (IF g > 2 THEN GroupCount(2) * GroupStep(2) ELSE 0)
      + (IF g > 3 THEN GroupCount(3) * GroupStep(3) ELSE 0)

(* The largest size each bin but the last may hold.                         *)
UpperBounds ==
    {kSmallBinStep * i : i \in kSmallBinBase .. kMaxSmallBinSize \div kSmallBinStep}
      \union UNION {{GroupStart(g) + i * GroupStep(g) : i \in 1 .. GroupCount(g)} :
                       g \in Groups}

(* GetBinIndex numbers the size classes without a gap: the bin of a chunk   *)
(* is the number of classes that end below it.  (Chunk sizes are multiples  *)
(* of the alignment and at least the minimum, so only those are compared.)  *)
BinIndexCountsClasses ==
    (size % kAlignment = 0 /\ size >= kMinChunkSize) =>
        GetBinIndex(size) = Cardinality({b \in UpperBounds : b < size})

(* The search of FindAndRemove starts at the bin of the requested size and  *)
(* only goes up: no chunk that is at least as large may be in a lower bin,  *)
(* nor any in one behind the last.                                          *)
BinIndexMonotone ==
    [][GetBinIndex(size) <= GetBinIndex(size') /\ GetBinIndex(size') < kBinsCount]_size
=============================================================================
