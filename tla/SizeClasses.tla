---------------------------- MODULE SizeClasses ----------------------------
(***************************************************************************)
(* The two pure functions of malloc/main.cpp every other part of the       *)
(* allocator is built on: GetAlignedSize, which turns a request into the    *)
(* size of the chunk that will hold it, and GetBinIndex, which says in      *)
(* which list a free chunk of a given size is kept.  All sizes of this      *)
(* module are in bytes, as in the code.                                     *)
(*                                                                         *)
(* The constants carry the names of namespace constants in the code.        *)
(* kSizeMod is 2 to the width of size_t: sums of sizes wrap there.          *)
(***************************************************************************)
EXTENDS Naturals

CONSTANTS kSizeMod,             \* number of values of a size_t
          kMinChunkSize,        \* header, two links and the back word
          kMaxSmallBinSize,     \* largest size that has a bin of its own
          kSmallBinBase,        \* size / step of the first small bin
          kLargeBinBase,        \* index of the first bin that holds a range
          kLargeBinsFirstCount, \* bins in the first group of ranges
          kLargeBinsFirstStep   \* bytes per bin in the first group

kMetaSize == 8                  \* sizeof(size_t)
kAlignment == 16                \* 2 * sizeof(size_t)
kAlignmentMask == kAlignment - 1
kSmallBinStep == 16

ASSUME SizesAssumption ==
    /\ kSizeMod \in Nat /\ kSizeMod > 64 /\ kSizeMod % kAlignment = 0
    /\ kMinChunkSize \in Nat /\ kMinChunkSize >= 32
    /\ kMinChunkSize % kAlignment = 0 /\ kMinChunkSize < kSizeMod

ASSUME ClassesAssumption ==
    /\ kMaxSmallBinSize \in Nat /\ kSmallBinBase \in Nat
    /\ kLargeBinBase \in Nat
    /\ kLargeBinsFirstCount \in Nat \ {0} /\ kLargeBinsFirstStep \in Nat \ {0}

-----------------------------------------------------------------------------
(* A request of size bytes needs its bytes and a header, rounded up to the  *)
(* alignment, and never less than a free chunk needs for its own links.     *)
GetAlignedSize(size) ==
    LET total == (((size + kMetaSize + kAlignmentMask) % kSizeMod)
                     \div kAlignment) * kAlignment
    IN  IF total < kMinChunkSize THEN kMinChunkSize ELSE total

(* The loop variables of GetBinIndex at the start of its k-th iteration:    *)
(* each group has half as many bins as the one before, each 8 times wider.  *)
Group[k \in Nat] ==
    IF k = 0
    THEN [min |-> kMaxSmallBinSize, index |-> kLargeBinBase,
          count |-> kLargeBinsFirstCount, step |-> kLargeBinsFirstStep]
    ELSE LET g == Group[k - 1]
         IN  [min |-> g.min + g.count * g.step, index |-> g.index + g.count,
              count |-> g.count \div 2, step |-> g.step * 8]

LargeBinIndexInGroup(size) ==   \* mutant: index += count forgotten
    LET scan[k \in Nat] ==
          LET g == Group[k]
          IN  IF g.count <= 1 THEN kLargeBinBase
              ELSE IF size <= g.min + g.count * g.step
                   THEN kLargeBinBase + (size - g.min - 1) \div g.step
                   ELSE scan[k + 1]
    IN  scan[0]

LargeBinIndexOffByOne(size) ==   \* mutant: size - group_min without the - 1
    LET scan[k \in Nat] ==
          LET g == Group[k]
          IN  IF g.count <= 1 THEN g.index
              ELSE IF size <= g.min + g.count * g.step
                   THEN g.index + (size - g.min) \div g.step
                   ELSE scan[k + 1]
    IN  scan[0]

LargeBinIndex(size) ==
    LET scan[k \in Nat] ==
          LET g == Group[k]
          IN  IF g.count <= 1 THEN g.index
              ELSE IF size <= g.min + g.count * g.step
                   THEN g.index + (size - g.min - 1) \div g.step
                   ELSE scan[k + 1]
    IN  scan[0]

GetBinIndex(size) ==
    IF size <= kMaxSmallBinSize
    THEN LET index == size \div kSmallBinStep
         IN  IF index >= kSmallBinBase THEN index - kSmallBinBase ELSE 0
    ELSE LargeBinIndex(size)
=============================================================================
