--------------------------- MODULE CpuLimitProofs ---------------------------
(***************************************************************************)
(* Proofs about CpuLimit: its invariants, and the times at which it lets a  *)
(* target run again, for any targets, period, budget and bounds.            *)
(***************************************************************************)
EXTENDS CpuLimit, TLAPS, WellFoundedInduction, NaturalsInduction

NobodyStopped(S) == \A p \in S : status[p] # "stopped"
NobodyRuns(S) == \A p \in S : status[p] # "running"
AllGone(S) == \A p \in S : status[p] = "gone"

(* What a place in the code says of the walk that is under way there, of    *)
(* the caller it returns to, and of the times it has read.                  *)
InOrder ==
    /\ pc # "init" => todo \subseteq processes
    /\ pc \in {"stopped", "resumed"} => todo # {}
    /\ pc \in {"resume", "resumed"} => why \in {"period", "under", "final"}
    /\ pc \in {"stop", "stopped"} => why = "over"
    /\ pc \in {"read", "stop", "stopped"} => elapsed < kPeriod /\ elapsed <= time
    /\ pc \in {"resume", "resumed"} /\ why = "under" => elapsed < kPeriod
    /\ pc # "sleep" => wait = 0
    /\ pc \notin {"handler", "done"} => orphans = {}

(* A target that was not active when the pids were listed is gone.          *)
InactiveAreGone ==
    /\ pc = "scan" => AllGone(processes \ (active \union todo))
    /\ pc \in {"read", "stop", "stopped", "resume", "resumed"} =>
          AllGone(processes \ active)

(* How far a walk that stops the targets has come.                          *)
StoppedSoFar ==
    /\ pc \in {"stop", "stopped"} => NobodyRuns(processes \ todo)
    /\ pc = "stopped" => status[Current] # "running"

(* How far a walk that continues them has come, and when nobody is stopped. *)
ResumedSoFar ==
    /\ NobodyStopped(Targets \ processes)
    /\ pc \in {"resume", "resumed"} => NobodyStopped(Targets \ todo)
    /\ pc = "resumed" => status[Current] # "stopped"
    /\ pc = "handler" => NobodyStopped(Targets \ (orphans \union todo))
    /\ pc \in {"init", "reset"} => NobodyStopped(Targets)
    /\ pc = "sleep" /\ why # "over" => NobodyStopped(Targets)

(* Whoever is stopped is so until the period is over.                       *)
StoppedUntilPeriodEnd ==
    /\ pc = "sleep" /\ why = "over" => time + wait >= kPeriod
    /\ pc \in {"scan", "read", "resume", "resumed"} =>
          NobodyStopped(Targets) \/ time >= kPeriod

(* What every step preserves.                                               *)
IInv ==
    /\ TypeOK /\ InOrder /\ InactiveAreGone /\ StoppedSoFar /\ ResumedSoFar
    /\ StoppedUntilPeriodEnd
    /\ StoppedIsRecorded /\ RecordedIsStopped /\ NobodyRunsOverBudget
    /\ LeavesNobodyStopped

-----------------------------------------------------------------------------
(* The next pid of a walk, and the numbers of the clock.                    *)

(* A set of pids has a least one.                                           *)
LEMMA MinIsIn == ASSUME NEW S, S \subseteq Nat, S # {} PROVE Min(S) \in S
<1> DEFINE Less == {s \in Nat \X Nat : s[1] < s[2]}
<1>1. IsWellFoundedOn(Less, Nat)
  BY NatLessThanWellFounded DEF OpToRel
<1>2. PICK x \in S : \A y \in S : <<y, x>> \notin Less
  <2> HIDE DEF Less
  <2> QED  BY <1>1, WFMin
<1>3. ASSUME NEW y \in S PROVE x <= y
  <2>1. <<y, x>> \in Nat \X Nat /\ <<y, x>>[1] = y /\ <<y, x>>[2] = x
    OBVIOUS
  <2>2. ~(y < x)
    BY <1>2, <2>1
  <2> QED
    BY <2>2
<1> QED
  BY <1>3 DEF Min

(* A walk that has someone left is at one of them.                          *)
LEMMA CurrentIs == ASSUME TypeOK, todo # {} PROVE Current \in todo
  BY MinIsIn, CpuLimitAssumption DEF Current, TypeOK

(* The bounds on how far the clock can be set back.                         *)
LEMMA SetBackBounds ==
  ASSUME TypeOK
  PROVE  /\ kPeriod * 0 = 0
         /\ kPeriod * setBacks \in Nat /\ kPeriod * MaxSetBacks \in Nat
         /\ kPeriod * setBacks <= kPeriod * MaxSetBacks
         /\ kPeriod * (setBacks + 1) = kPeriod * setBacks + kPeriod
         /\ -kPeriod * MaxSetBacks = -(kPeriod * MaxSetBacks)
  BY CpuLimitAssumption DEF TypeOK

-----------------------------------------------------------------------------
(* Each step preserves IInv: its types, the order of the walks, then what   *)
(* it says of who is gone, stopped, continued and recorded.                 *)

(* The first reading of the targets, and the handler's installation.        *)
LEMMA InitializeProcessesKeeps == ASSUME IInv, InitializeProcesses PROVE IInv'
<1>1. TypeOK'
  <2>1. PICK p \in todo : 
           /\ IF ProcessExists(p)
              THEN /\ processes' = processes \union {p}
                   /\ start' = [start EXCEPT ![p] = ReadCpuTicks(p)]
              ELSE UNCHANGED <<processes, start>>
           /\ todo' = todo \ {p}
    BY DEF InitializeProcesses
  <2>2. p \in Targets /\ ReadCpuTicks(p) \in Nat \union {-1}
    BY DEF IInv, TypeOK, ReadCpuTicks
  <2>3. /\ start' \in [Targets -> Nat \union {-1}]
        /\ processes' \subseteq Targets /\ processes \subseteq processes'
    BY <2>1, <2>2 DEF IInv, TypeOK
  <2> QED
    BY <2>3 DEF IInv, TypeOK, InitializeProcesses, targets, clock, local
<1>2. InOrder'
  BY DEF IInv, InitializeProcesses, InOrder
<1>3. InactiveAreGone' /\ StoppedSoFar'
  BY DEF InitializeProcesses, InactiveAreGone, StoppedSoFar
<1>4. NobodyRunsOverBudget'
  BY DEF InitializeProcesses, NobodyRunsOverBudget
<1>5. ResumedSoFar' /\ LeavesNobodyStopped'
  BY DEF IInv, InitializeProcesses, targets, ResumedSoFar, LeavesNobodyStopped,
         NobodyStopped
<1>6. StoppedUntilPeriodEnd'
  BY DEF InitializeProcesses, StoppedUntilPeriodEnd
<1>7. StoppedIsRecorded' /\ RecordedIsStopped'
  BY DEF IInv, InitializeProcesses, targets, StoppedIsRecorded, RecordedIsStopped
<1> QED
  BY <1>1, <1>2, <1>3, <1>4, <1>5, <1>6, <1>7 DEF IInv

LEMMA InstallKeeps == ASSUME IInv, Install PROVE IInv'
<1>1. TypeOK'
  <2>1. time' \in 0 .. kPeriod + behind' /\ behind' \in 0 .. kPeriod * setBacks'
    BY SetBackBounds, CpuLimitAssumption DEF IInv, Install
  <2> QED
    BY <2>1 DEF IInv, TypeOK, Install, Walk, targets, info, local
<1>2. InOrder'
  BY DEF IInv, Install, Walk, info, InOrder
<1>3. InactiveAreGone' /\ StoppedSoFar'
  BY DEF Install, Walk, info, InactiveAreGone, StoppedSoFar, AllGone
<1>4. NobodyRunsOverBudget'
  BY DEF Install, Walk, NobodyRunsOverBudget
<1>5. ResumedSoFar' /\ LeavesNobodyStopped'
  BY DEF IInv, Install, Walk, targets, ResumedSoFar, LeavesNobodyStopped, NobodyStopped
<1>6. StoppedUntilPeriodEnd'
  BY DEF IInv, Install, Walk, targets, ResumedSoFar, StoppedUntilPeriodEnd,
         NobodyStopped
<1>7. StoppedIsRecorded' /\ RecordedIsStopped'
  BY DEF IInv, Install, targets, info, StoppedIsRecorded, RecordedIsStopped
<1> QED
  BY <1>1, <1>2, <1>3, <1>4, <1>5, <1>6, <1>7 DEF IInv

(* One round of the loop, until it decides.                                 *)
LEMMA GetActivePidsKeeps == ASSUME IInv, GetActivePids PROVE IInv'
<1>1. TypeOK'
  BY CurrentIs DEF IInv, GetActivePids, Advance, targets, clock, info, TypeOK, InOrder
<1>2. InOrder'
  BY DEF IInv, GetActivePids, Advance, info, InOrder
<1>3. InactiveAreGone' /\ StoppedSoFar'
  BY DEF IInv, GetActivePids, ProcessExists, Advance, targets, info, InactiveAreGone,
         StoppedSoFar, AllGone
<1>4. NobodyRunsOverBudget'
  BY DEF GetActivePids, NobodyRunsOverBudget
<1>5. ResumedSoFar' /\ LeavesNobodyStopped'
  BY DEF IInv, GetActivePids, targets, info, ResumedSoFar, LeavesNobodyStopped,
         NobodyStopped
<1>6. StoppedUntilPeriodEnd'
  BY DEF IInv, GetActivePids, targets, clock, StoppedUntilPeriodEnd, NobodyStopped
<1>7. StoppedIsRecorded' /\ RecordedIsStopped'
  BY DEF IInv, GetActivePids, targets, info, StoppedIsRecorded, RecordedIsStopped
<1> QED
  BY <1>1, <1>2, <1>3, <1>4, <1>5, <1>6, <1>7 DEF IInv

LEMMA LoopBreaksKeeps == ASSUME IInv, LoopBreaks PROVE IInv'
<1>1. TypeOK'
  BY DEF IInv, LoopBreaks, Walk, targets, clock, info, local, TypeOK
<1>2. InOrder'
  BY DEF IInv, LoopBreaks, Walk, info, InOrder
<1>3. InactiveAreGone' /\ StoppedSoFar'
  BY DEF LoopBreaks, Walk, info, InactiveAreGone, StoppedSoFar, AllGone
<1>4. NobodyRunsOverBudget'
  BY DEF LoopBreaks, NobodyRunsOverBudget
<1>5. ResumedSoFar' /\ LeavesNobodyStopped'
  BY DEF IInv, LoopBreaks, Walk, targets, InactiveAreGone, ResumedSoFar,
         LeavesNobodyStopped, AllGone, NobodyStopped
<1>6. StoppedUntilPeriodEnd'
  BY DEF IInv, LoopBreaks, targets, InactiveAreGone, ResumedSoFar,
         StoppedUntilPeriodEnd, AllGone, NobodyStopped
<1>7. StoppedIsRecorded' /\ RecordedIsStopped'
  BY DEF IInv, LoopBreaks, targets, info, StoppedIsRecorded, RecordedIsStopped
<1> QED
  BY <1>1, <1>2, <1>3, <1>4, <1>5, <1>6, <1>7 DEF IInv

LEMMA FinalResumeKeeps == ASSUME IInv, FinalResume PROVE IInv'
<1>1. TypeOK'
  BY DEF IInv, FinalResume, Walk, targets, clock, info, local, TypeOK
<1>2. InOrder'
  BY DEF IInv, FinalResume, Walk, info, TypeOK, InOrder
<1>3. InactiveAreGone' /\ StoppedSoFar'
  BY DEF IInv, FinalResume, Walk, targets, info, local, InactiveAreGone, StoppedSoFar,
         AllGone
<1>4. NobodyRunsOverBudget'
  BY DEF FinalResume, NobodyRunsOverBudget
<1>5. ResumedSoFar' /\ LeavesNobodyStopped'
  BY DEF IInv, FinalResume, Walk, targets, info, InactiveAreGone, ResumedSoFar,
         LeavesNobodyStopped, AllGone, NobodyStopped
<1>6. StoppedUntilPeriodEnd'
  BY DEF IInv, FinalResume, targets, clock, StoppedUntilPeriodEnd, NobodyStopped
<1>7. StoppedIsRecorded' /\ RecordedIsStopped'
  BY DEF IInv, FinalResume, targets, info, StoppedIsRecorded, RecordedIsStopped
<1> QED
  BY <1>1, <1>2, <1>3, <1>4, <1>5, <1>6, <1>7 DEF IInv

LEMMA CheckPeriodKeeps == ASSUME IInv, CheckPeriod PROVE IInv'
<1>1. /\ elapsed' = time - behind /\ time - behind <= kPeriod
      /\ time - behind \in -kPeriod * MaxSetBacks .. kPeriod
      /\ 0 \in 0 .. kPeriod - (time - behind)
  BY CpuLimitAssumption DEF IInv, TypeOK, CheckPeriod, CalculateElapsed
<1>2. wait' = 0 /\ active \subseteq processes /\ time - behind <= time
  BY DEF IInv, TypeOK, InOrder, CheckPeriod
<1>3. TypeOK'
  BY <1>1, <1>2 DEF IInv, TypeOK, CheckPeriod, Walk, targets, clock, info
<1>4. InOrder'
  BY <1>1, <1>2, CpuLimitAssumption DEF IInv, InOrder, CheckPeriod, Walk, clock, info
<1>5. InactiveAreGone' /\ StoppedSoFar'
  BY DEF IInv, CheckPeriod, Walk, targets, info, InactiveAreGone, StoppedSoFar, AllGone
<1>6. NobodyRunsOverBudget'
  BY DEF CheckPeriod, Walk, NobodyRunsOverBudget
<1>7. ResumedSoFar' /\ LeavesNobodyStopped'
  BY DEF IInv, CheckPeriod, Walk, targets, info, InactiveAreGone, ResumedSoFar,
         LeavesNobodyStopped, AllGone, NobodyStopped
<1>8. StoppedUntilPeriodEnd'
  BY DEF IInv, CheckPeriod, Walk, targets, clock, StoppedUntilPeriodEnd, NobodyStopped
<1>9. StoppedIsRecorded' /\ RecordedIsStopped'
  BY DEF IInv, CheckPeriod, targets, info, StoppedIsRecorded, RecordedIsStopped
<1> QED
  BY <1>5, <1>6, <1>7, <1>8, <1>9, <1>3, <1>4 DEF IInv

LEMMA CalculateTotalUsedTicksKeeps == ASSUME IInv, CalculateTotalUsedTicks PROVE IInv'
<1>1. TypeOK'
  BY DEF IInv, CalculateTotalUsedTicks, ReadCpuTicks, Advance, targets, clock, info,
         TypeOK
<1>2. InOrder'
  BY DEF IInv, CalculateTotalUsedTicks, Advance, clock, info, InOrder
<1>3. InactiveAreGone' /\ StoppedSoFar'
  BY DEF IInv, CalculateTotalUsedTicks, targets, info, InactiveAreGone, StoppedSoFar,
         AllGone
<1>4. NobodyRunsOverBudget'
  BY DEF CalculateTotalUsedTicks, NobodyRunsOverBudget
<1>5. ResumedSoFar' /\ LeavesNobodyStopped'
  BY DEF IInv, CalculateTotalUsedTicks, targets, info, ResumedSoFar,
         LeavesNobodyStopped, NobodyStopped
<1>6. StoppedUntilPeriodEnd'
  BY DEF IInv, CalculateTotalUsedTicks, targets, clock, StoppedUntilPeriodEnd,
         NobodyStopped
<1>7. StoppedIsRecorded' /\ RecordedIsStopped'
  BY DEF IInv, CalculateTotalUsedTicks, targets, info, StoppedIsRecorded,
         RecordedIsStopped
<1> QED
  BY <1>1, <1>2, <1>3, <1>4, <1>5, <1>6, <1>7 DEF IInv

LEMMA DecideKeeps == ASSUME IInv, Decide PROVE IInv'
<1>1. TypeOK'
  BY DEF IInv, Decide, Walk, targets, clock, info, local, TypeOK
<1>2. InOrder'
  BY DEF IInv, Decide, Walk, clock, info, local, TypeOK, InOrder
<1>3. InactiveAreGone' /\ StoppedSoFar'
  BY DEF IInv, Decide, Walk, targets, info, local, InactiveAreGone, StoppedSoFar,
         AllGone, NobodyRuns
<1>4. NobodyRunsOverBudget'
  BY DEF Decide, Walk, NobodyRunsOverBudget
<1>5. ResumedSoFar' /\ LeavesNobodyStopped'
  BY DEF IInv, Decide, Walk, targets, info, InactiveAreGone, ResumedSoFar,
         LeavesNobodyStopped, AllGone, NobodyStopped
<1>6. StoppedUntilPeriodEnd'
  BY DEF IInv, Decide, Walk, targets, clock, StoppedUntilPeriodEnd, NobodyStopped
<1>7. StoppedIsRecorded' /\ RecordedIsStopped'
  BY DEF IInv, Decide, targets, info, StoppedIsRecorded, RecordedIsStopped
<1> QED
  BY <1>1, <1>2, <1>3, <1>4, <1>5, <1>6, <1>7 DEF IInv

(* Over budget: stop them all and sleep to the end of the period.           *)
LEMMA StopProcessesKeeps == ASSUME IInv, StopProcesses PROVE IInv'
<1>1. TypeOK'
  BY DEF IInv, StopProcesses, SendStop, Advance, clock, info, local, TypeOK
<1>2. InOrder'
  BY DEF IInv, StopProcesses, Advance, clock, info, local, InOrder
<1>3. InactiveAreGone' /\ StoppedSoFar'
  BY CurrentIs
     DEF IInv, StopProcesses, ProcessExists, SendStop, Current, Advance, info, local,
         TypeOK, InactiveAreGone, StoppedSoFar, RecordedIsStopped, AllGone, NobodyRuns
<1>4. NobodyRunsOverBudget'
  BY DEF StopProcesses, NobodyRunsOverBudget
<1>5. ResumedSoFar' /\ LeavesNobodyStopped'
  BY CurrentIs
     DEF IInv, StopProcesses, SendStop, info, TypeOK, InOrder, ResumedSoFar,
         LeavesNobodyStopped, NobodyStopped
<1>6. StoppedUntilPeriodEnd'
  BY DEF StopProcesses, StoppedUntilPeriodEnd
<1>7. StoppedIsRecorded' /\ RecordedIsStopped'
  BY DEF IInv, StopProcesses, SendStop, Current, info, TypeOK, StoppedIsRecorded,
         RecordedIsStopped
<1> QED
  BY <1>1, <1>2, <1>3, <1>4, <1>5, <1>6, <1>7 DEF IInv

LEMMA StopRecordedKeeps == ASSUME IInv, StopRecorded PROVE IInv'
<1>1. TypeOK'
  BY DEF IInv, StopRecorded, Advance, targets, clock, local, TypeOK
<1>2. InOrder'
  BY DEF IInv, StopRecorded, Advance, clock, local, InOrder
<1>3. InactiveAreGone' /\ StoppedSoFar'
  BY DEF IInv, StopRecorded, Advance, targets, local, InactiveAreGone, StoppedSoFar,
         AllGone, NobodyRuns
<1>4. NobodyRunsOverBudget'
  BY DEF StopRecorded, NobodyRunsOverBudget
<1>5. ResumedSoFar' /\ LeavesNobodyStopped'
  BY DEF IInv, StopRecorded, targets, ResumedSoFar, LeavesNobodyStopped, NobodyStopped
<1>6. StoppedUntilPeriodEnd'
  BY DEF StopRecorded, StoppedUntilPeriodEnd
<1>7. StoppedIsRecorded' /\ RecordedIsStopped'
  BY DEF IInv, StopRecorded, targets, TypeOK, StoppedSoFar, StoppedIsRecorded,
         RecordedIsStopped
<1> QED
  BY <1>1, <1>2, <1>3, <1>4, <1>5, <1>6, <1>7 DEF IInv

LEMMA SleepToPeriodEndKeeps == ASSUME IInv, SleepToPeriodEnd PROVE IInv'
<1>1. TypeOK'
  BY DEF IInv, SleepToPeriodEnd, targets, clock, info, local, TypeOK
<1>2. InOrder'
  BY DEF IInv, SleepToPeriodEnd, InOrder
<1>3. InactiveAreGone' /\ StoppedSoFar'
  BY DEF SleepToPeriodEnd, InactiveAreGone, StoppedSoFar
<1>4. NobodyRunsOverBudget'
  BY DEF IInv, SleepToPeriodEnd, targets, info, StoppedSoFar, NobodyRunsOverBudget,
         NobodyRuns
<1>5. ResumedSoFar' /\ LeavesNobodyStopped'
  BY DEF IInv, SleepToPeriodEnd, targets, info, InOrder, ResumedSoFar,
         LeavesNobodyStopped, NobodyStopped
<1>6. StoppedUntilPeriodEnd'
  BY CpuLimitAssumption
     DEF IInv, SleepToPeriodEnd, clock, TypeOK, InOrder, StoppedUntilPeriodEnd
<1>7. StoppedIsRecorded' /\ RecordedIsStopped'
  BY DEF IInv, SleepToPeriodEnd, targets, info, StoppedIsRecorded, RecordedIsStopped
<1> QED
  BY <1>1, <1>2, <1>3, <1>4, <1>5, <1>6, <1>7 DEF IInv

(* Continue them, and go on as the caller does.                             *)
LEMMA ResumeProcessesKeeps == ASSUME IInv, ResumeProcesses PROVE IInv'
<1>1. TypeOK'
  BY DEF IInv, ResumeProcesses, SendCont, Advance, clock, info, local, TypeOK
<1>2. InOrder'
  BY DEF IInv, ResumeProcesses, Advance, info, local, InOrder
<1>3. InactiveAreGone' /\ StoppedSoFar'
  BY DEF IInv, ResumeProcesses, SendCont, info, local, TypeOK, InactiveAreGone,
         StoppedSoFar, AllGone
<1>4. NobodyRunsOverBudget'
  BY DEF ResumeProcesses, NobodyRunsOverBudget
<1>5. ResumedSoFar' /\ LeavesNobodyStopped'
  BY CurrentIs
     DEF IInv, ResumeProcesses, ProcessExists, SendCont, Current, Advance, info,
         TypeOK, InOrder, ResumedSoFar, StoppedIsRecorded, LeavesNobodyStopped,
         NobodyStopped
<1>6. StoppedUntilPeriodEnd'
  BY DEF IInv, ResumeProcesses, SendCont, clock, TypeOK, StoppedUntilPeriodEnd,
         NobodyStopped
<1>7. StoppedIsRecorded' /\ RecordedIsStopped'
  BY DEF IInv, ResumeProcesses, SendCont, Current, info, TypeOK, StoppedIsRecorded,
         RecordedIsStopped
<1> QED
  BY <1>1, <1>2, <1>3, <1>4, <1>5, <1>6, <1>7 DEF IInv

LEMMA ResumeRecordedKeeps == ASSUME IInv, ResumeRecorded PROVE IInv'
<1>1. TypeOK'
  BY DEF IInv, ResumeRecorded, Advance, targets, clock, local, TypeOK
<1>2. InOrder'
  BY DEF IInv, ResumeRecorded, Advance, local, InOrder
<1>3. InactiveAreGone' /\ StoppedSoFar'
  BY DEF IInv, ResumeRecorded, targets, local, InactiveAreGone, StoppedSoFar, AllGone
<1>4. NobodyRunsOverBudget'
  BY DEF ResumeRecorded, NobodyRunsOverBudget
<1>5. ResumedSoFar' /\ LeavesNobodyStopped'
  BY DEF IInv, ResumeRecorded, Advance, targets, ResumedSoFar, LeavesNobodyStopped,
         NobodyStopped
<1>6. StoppedUntilPeriodEnd'
  BY DEF IInv, ResumeRecorded, targets, clock, StoppedUntilPeriodEnd, NobodyStopped
<1>7. StoppedIsRecorded' /\ RecordedIsStopped'
  BY DEF IInv, ResumeRecorded, targets, TypeOK, ResumedSoFar, StoppedIsRecorded,
         RecordedIsStopped
<1> QED
  BY <1>1, <1>2, <1>3, <1>4, <1>5, <1>6, <1>7 DEF IInv

LEMMA ResumeReturnsKeeps == ASSUME IInv, ResumeReturns PROVE IInv'
<1>1. TypeOK'
  <2>1. wait' \in 0 .. kPeriod - elapsed'
    <3>1. CASE why = "under"
      <4>1. elapsed \in Int /\ elapsed < kPeriod /\ wait' = 1 /\ elapsed' = elapsed
        BY <3>1 DEF IInv, TypeOK, InOrder, ResumeReturns, local
      <4> QED
        BY <4>1, CpuLimitAssumption
    <3>2. CASE why # "under"
      BY <3>2 DEF IInv, TypeOK, InOrder, ResumeReturns, local
    <3> QED
      BY <3>1, <3>2
  <2>2. pc' \in {"reset", "sleep", "done"} /\ todo' \subseteq Targets
    BY DEF IInv, TypeOK, InOrder, ResumeReturns, Walk
  <2> QED
    BY <2>1, <2>2 DEF IInv, TypeOK, ResumeReturns, targets, clock, info, local
<1>2. InOrder'
  BY DEF IInv, ResumeReturns, Walk, info, TypeOK, InOrder
<1>3. InactiveAreGone' /\ StoppedSoFar'
  BY DEF IInv, ResumeReturns, Walk, InOrder, InactiveAreGone, StoppedSoFar
<1>4. NobodyRunsOverBudget'
  BY DEF IInv, ResumeReturns, InOrder, NobodyRunsOverBudget
<1>5. ResumedSoFar' /\ LeavesNobodyStopped'
  BY DEF IInv, ResumeReturns, Walk, targets, InOrder, ResumedSoFar,
         LeavesNobodyStopped, NobodyStopped
<1>6. StoppedUntilPeriodEnd'
  BY DEF IInv, ResumeReturns, targets, InOrder, ResumedSoFar, StoppedUntilPeriodEnd,
         NobodyStopped
<1>7. StoppedIsRecorded' /\ RecordedIsStopped'
  BY DEF IInv, ResumeReturns, targets, info, StoppedIsRecorded, RecordedIsStopped
<1> QED
  BY <1>1, <1>2, <1>3, <1>4, <1>5, <1>6, <1>7 DEF IInv

LEMMA ResetPeriodTicksKeeps == ASSUME IInv, ResetPeriodTicks PROVE IInv'
<1>1. TypeOK'
  BY DEF IInv, ResetPeriodTicks, ReadCpuTicks, Advance, targets, clock, local, TypeOK
<1>2. InOrder'
  BY DEF IInv, ResetPeriodTicks, Advance, InOrder
<1>3. InactiveAreGone' /\ StoppedSoFar'
  BY DEF ResetPeriodTicks, InactiveAreGone, StoppedSoFar
<1>4. NobodyRunsOverBudget'
  BY DEF ResetPeriodTicks, NobodyRunsOverBudget
<1>5. ResumedSoFar' /\ LeavesNobodyStopped'
  BY DEF IInv, ResetPeriodTicks, targets, ResumedSoFar, LeavesNobodyStopped,
         NobodyStopped
<1>6. StoppedUntilPeriodEnd'
  BY DEF ResetPeriodTicks, StoppedUntilPeriodEnd
<1>7. StoppedIsRecorded' /\ RecordedIsStopped'
  BY DEF IInv, ResetPeriodTicks, targets, StoppedIsRecorded, RecordedIsStopped
<1> QED
  BY <1>1, <1>2, <1>3, <1>4, <1>5, <1>6, <1>7 DEF IInv

LEMMA NextPeriodKeeps == ASSUME IInv, NextPeriod PROVE IInv'
<1>1. TypeOK'
  BY CpuLimitAssumption
     DEF IInv, NextPeriod, Walk, ForgetLocals, targets, info, TypeOK, InOrder
<1>2. InOrder'
  BY DEF IInv, NextPeriod, Walk, info, InOrder
<1>3. InactiveAreGone' /\ StoppedSoFar'
  BY DEF NextPeriod, Walk, info, InactiveAreGone, StoppedSoFar, AllGone
<1>4. NobodyRunsOverBudget'
  BY DEF NextPeriod, Walk, NobodyRunsOverBudget
<1>5. ResumedSoFar' /\ LeavesNobodyStopped'
  BY DEF IInv, NextPeriod, Walk, targets, ResumedSoFar, LeavesNobodyStopped,
         NobodyStopped
<1>6. StoppedUntilPeriodEnd'
  BY DEF IInv, NextPeriod, Walk, targets, ResumedSoFar, StoppedUntilPeriodEnd,
         NobodyStopped
<1>7. StoppedIsRecorded' /\ RecordedIsStopped'
  BY DEF IInv, NextPeriod, targets, info, StoppedIsRecorded, RecordedIsStopped
<1> QED
  BY <1>1, <1>2, <1>3, <1>4, <1>5, <1>6, <1>7 DEF IInv

LEMMA WakeUpKeeps == ASSUME IInv, WakeUp PROVE IInv'
<1>1. TypeOK'
  BY CpuLimitAssumption
     DEF IInv, WakeUp, Walk, ForgetLocals, targets, clock, info, TypeOK
<1>2. InOrder'
  BY DEF IInv, WakeUp, Walk, info, InOrder
<1>3. InactiveAreGone' /\ StoppedSoFar'
  BY DEF WakeUp, Walk, info, InactiveAreGone, StoppedSoFar, AllGone
<1>4. NobodyRunsOverBudget'
  BY DEF WakeUp, Walk, NobodyRunsOverBudget
<1>5. ResumedSoFar' /\ LeavesNobodyStopped'
  BY DEF IInv, WakeUp, Walk, targets, info, ResumedSoFar, LeavesNobodyStopped,
         NobodyStopped
<1>6. StoppedUntilPeriodEnd'
  BY DEF IInv, WakeUp, targets, clock, TypeOK, ResumedSoFar, StoppedUntilPeriodEnd,
         NobodyStopped
<1>7. StoppedIsRecorded' /\ RecordedIsStopped'
  BY DEF IInv, WakeUp, targets, info, StoppedIsRecorded, RecordedIsStopped
<1> QED
  BY <1>1, <1>2, <1>3, <1>4, <1>5, <1>6, <1>7 DEF IInv

(* The handler, which may be entered at any place.                          *)
LEMMA SignalHandlerKeeps == ASSUME IInv, SignalHandler PROVE IInv'
<1>1. TypeOK'
  BY DEF IInv, SignalHandler, SendCont, Advance, clock, info, local, TypeOK
<1>2. InOrder'
  BY DEF IInv, SignalHandler, Advance, info, InOrder
<1>3. InactiveAreGone' /\ StoppedSoFar'
  BY DEF SignalHandler, InactiveAreGone, StoppedSoFar
<1>4. NobodyRunsOverBudget'
  BY DEF SignalHandler, NobodyRunsOverBudget
<1>5. ResumedSoFar' /\ LeavesNobodyStopped'
  BY DEF IInv, SignalHandler, ProcessExists, SendCont, Advance, info, TypeOK,
         ResumedSoFar, StoppedIsRecorded, LeavesNobodyStopped, NobodyStopped
<1>6. StoppedUntilPeriodEnd'
  BY DEF SignalHandler, StoppedUntilPeriodEnd
<1>7. StoppedIsRecorded' /\ RecordedIsStopped'
  BY DEF IInv, SignalHandler, SendCont, info, TypeOK, StoppedIsRecorded,
         RecordedIsStopped
<1> QED
  BY <1>1, <1>2, <1>3, <1>4, <1>5, <1>6, <1>7 DEF IInv

LEMMA ExitKeeps == ASSUME IInv, Exit PROVE IInv'
<1>1. TypeOK'
  BY DEF IInv, Exit, targets, clock, info, local, TypeOK
<1>2. InOrder'
  BY DEF IInv, Exit, InOrder
<1>3. InactiveAreGone' /\ StoppedSoFar'
  BY DEF Exit, InactiveAreGone, StoppedSoFar
<1>4. NobodyRunsOverBudget'
  BY DEF Exit, NobodyRunsOverBudget
<1>5. ResumedSoFar' /\ LeavesNobodyStopped'
  BY DEF IInv, Exit, targets, info, ResumedSoFar, LeavesNobodyStopped, NobodyStopped
<1>6. StoppedUntilPeriodEnd'
  BY DEF Exit, StoppedUntilPeriodEnd
<1>7. StoppedIsRecorded' /\ RecordedIsStopped'
  BY DEF IInv, Exit, targets, ResumedSoFar, StoppedIsRecorded, RecordedIsStopped,
         NobodyStopped
<1> QED
  BY <1>1, <1>2, <1>3, <1>4, <1>5, <1>6, <1>7 DEF IInv

LEMMA SignalKeeps == ASSUME IInv, Signal PROVE IInv'
<1>1. TypeOK'
  <2>1. time' \in 0 .. kPeriod + behind' /\ behind' \in 0 .. kPeriod * setBacks'
    BY CpuLimitAssumption DEF Signal
  <2>2. elapsed' \in -kPeriod * MaxSetBacks .. kPeriod
    BY CpuLimitAssumption DEF Signal, ForgetLocals
  <2>3. wait' \in 0 .. kPeriod - elapsed'
    BY CpuLimitAssumption DEF Signal, ForgetLocals
  <2>4. orphans' \subseteq processes'
    BY CurrentIs DEF IInv, TypeOK, InOrder, Signal, info
  <2>5. signals' \in 0 .. MaxSignals /\ setBacks' \in 0 .. MaxSetBacks
    BY CpuLimitAssumption DEF IInv, TypeOK, Signal
  <2> QED
    BY <2>1, <2>2, <2>4, <2>5
       DEF IInv, TypeOK, Signal, Walk, ForgetLocals, targets, info
<1>2. InOrder'
  BY DEF Signal, Walk, info, InOrder
<1>3. InactiveAreGone' /\ StoppedSoFar'
  BY DEF Signal, Walk, InactiveAreGone, StoppedSoFar
<1>4. NobodyRunsOverBudget'
  BY DEF Signal, NobodyRunsOverBudget
<1>5. ResumedSoFar' /\ LeavesNobodyStopped'
  BY DEF IInv, Signal, Walk, targets, info, ResumedSoFar, LeavesNobodyStopped,
         NobodyStopped
<1>6. StoppedUntilPeriodEnd'
  BY CpuLimitAssumption DEF Signal, StoppedUntilPeriodEnd
<1>7. StoppedIsRecorded' /\ RecordedIsStopped'
  BY DEF IInv, Signal, Walk, targets, info, InOrder, StoppedIsRecorded,
         RecordedIsStopped
<1> QED
  BY <1>1, <1>2, <1>3, <1>4, <1>5, <1>6, <1>7 DEF IInv

(* What happens around cpulimit: time, the clock, and the targets' ends.    *)
LEMMA PassKeeps == ASSUME IInv, Pass PROVE IInv'
<1>1. TypeOK'
  BY CpuLimitAssumption DEF IInv, Pass, CalculateElapsed, info, local, TypeOK
<1>2. InOrder'
  BY DEF IInv, Pass, info, local, TypeOK, InOrder
<1>3. InactiveAreGone' /\ StoppedSoFar'
  BY DEF IInv, Pass, info, local, Current, InactiveAreGone, StoppedSoFar, AllGone,
         NobodyRuns
<1>4. NobodyRunsOverBudget'
  BY DEF IInv, Pass, info, NobodyRunsOverBudget
<1>5. ResumedSoFar' /\ LeavesNobodyStopped'
  BY DEF IInv, Pass, info, Current, ResumedSoFar, LeavesNobodyStopped, NobodyStopped
<1>6. StoppedUntilPeriodEnd'
  BY CpuLimitAssumption
     DEF IInv, Pass, CalculateElapsed, TypeOK, StoppedUntilPeriodEnd, NobodyStopped
<1>7. StoppedIsRecorded' /\ RecordedIsStopped'
  BY DEF IInv, Pass, info, Current, StoppedIsRecorded, RecordedIsStopped
<1> QED
  BY <1>1, <1>2, <1>3, <1>4, <1>5, <1>6, <1>7 DEF IInv

LEMMA SetBackKeeps == ASSUME IInv, SetBack PROVE IInv'
<1>1. TypeOK'
  BY CpuLimitAssumption DEF IInv, SetBack, targets, info, local, TypeOK
<1>2. InOrder'
  BY DEF IInv, SetBack, info, InOrder
<1>3. InactiveAreGone' /\ StoppedSoFar'
  BY DEF SetBack, InactiveAreGone, StoppedSoFar
<1>4. NobodyRunsOverBudget'
  BY DEF IInv, SetBack, targets, info, NobodyRunsOverBudget
<1>5. ResumedSoFar' /\ LeavesNobodyStopped'
  BY DEF IInv, SetBack, targets, info, ResumedSoFar, LeavesNobodyStopped, NobodyStopped
<1>6. StoppedUntilPeriodEnd'
  BY DEF IInv, SetBack, StoppedUntilPeriodEnd
<1>7. StoppedIsRecorded' /\ RecordedIsStopped'
  BY DEF IInv, SetBack, targets, info, StoppedIsRecorded, RecordedIsStopped
<1> QED
  BY <1>1, <1>2, <1>3, <1>4, <1>5, <1>6, <1>7 DEF IInv

LEMMA DieKeeps == ASSUME IInv, Die PROVE IInv'
<1>1. TypeOK'
  BY DEF IInv, Die, clock, info, local, TypeOK
<1>2. InOrder'
  BY DEF IInv, Die, clock, info, local, InOrder
<1>3. InactiveAreGone' /\ StoppedSoFar'
  BY DEF IInv, Die, info, local, Current, InactiveAreGone, StoppedSoFar, AllGone,
         NobodyRuns
<1>4. NobodyRunsOverBudget'
  BY DEF IInv, Die, info, TypeOK, NobodyRunsOverBudget
<1>5. ResumedSoFar' /\ LeavesNobodyStopped'
  BY DEF IInv, Die, info, Current, ResumedSoFar, LeavesNobodyStopped, NobodyStopped
<1>6. StoppedUntilPeriodEnd'
  BY DEF IInv, Die, clock, StoppedUntilPeriodEnd, NobodyStopped
<1>7. StoppedIsRecorded' /\ RecordedIsStopped'
  BY DEF IInv, Die, info, Current, StoppedIsRecorded, RecordedIsStopped
<1> QED
  BY <1>1, <1>2, <1>3, <1>4, <1>5, <1>6, <1>7 DEF IInv

LEMMA ReapKeeps == ASSUME IInv, Reap PROVE IInv'
<1>1. TypeOK'
  BY DEF IInv, Reap, clock, info, local, TypeOK
<1>2. InOrder'
  BY DEF IInv, Reap, clock, info, local, InOrder
<1>3. InactiveAreGone' /\ StoppedSoFar'
  BY DEF IInv, Reap, info, local, Current, InactiveAreGone, StoppedSoFar, AllGone,
         NobodyRuns
<1>4. NobodyRunsOverBudget'
  BY DEF IInv, Reap, info, TypeOK, NobodyRunsOverBudget
<1>5. ResumedSoFar' /\ LeavesNobodyStopped'
  BY DEF IInv, Reap, info, Current, ResumedSoFar, LeavesNobodyStopped, NobodyStopped
<1>6. StoppedUntilPeriodEnd'
  BY DEF IInv, Reap, clock, StoppedUntilPeriodEnd, NobodyStopped
<1>7. StoppedIsRecorded' /\ RecordedIsStopped'
  BY DEF IInv, Reap, info, Current, StoppedIsRecorded, RecordedIsStopped
<1> QED
  BY <1>1, <1>2, <1>3, <1>4, <1>5, <1>6, <1>7 DEF IInv

-----------------------------------------------------------------------------
(* IInv is an invariant, and with it what the code promises its targets.    *)

LEMMA InitIInv == ASSUME Init PROVE IInv
<1>1. TypeOK
  <2>1. /\ kPeriod * 0 = 0 /\ kPeriod * MaxSetBacks \in Nat
        /\ -kPeriod * MaxSetBacks = -(kPeriod * MaxSetBacks)
    BY CpuLimitAssumption
  <2>2. elapsed \in -kPeriod * MaxSetBacks .. kPeriod /\ wait \in 0 .. kPeriod - elapsed
    BY <2>1, CpuLimitAssumption DEF Init
  <2>3. /\ time \in 0 .. kPeriod + behind /\ behind \in 0 .. kPeriod * setBacks
        /\ setBacks \in 0 .. MaxSetBacks /\ signals \in 0 .. MaxSignals
    BY <2>1, CpuLimitAssumption DEF Init
  <2> QED
    BY <2>2, <2>3, CpuLimitAssumption DEF Init, TypeOK
<1> QED
  BY <1>1, CpuLimitAssumption DEF Init, IInv, TypeOK, InOrder, InactiveAreGone,
     StoppedSoFar, ResumedSoFar, StoppedUntilPeriodEnd, StoppedIsRecorded, RecordedIsStopped,
     NobodyRunsOverBudget, LeavesNobodyStopped, NobodyStopped, NobodyRuns, AllGone

LEMMA NextIInv == ASSUME IInv, [Next]_vars PROVE IInv'
<1>1. CASE Next
  BY <1>1, InitializeProcessesKeeps, InstallKeeps, GetActivePidsKeeps, LoopBreaksKeeps,
     FinalResumeKeeps, CheckPeriodKeeps, CalculateTotalUsedTicksKeeps, DecideKeeps,
     StopProcessesKeeps, StopRecordedKeeps, SleepToPeriodEndKeeps, ResumeProcessesKeeps,
     ResumeRecordedKeeps, ResumeReturnsKeeps, ResetPeriodTicksKeeps, NextPeriodKeeps,
     WakeUpKeeps, SignalHandlerKeeps, ExitKeeps, SignalKeeps, PassKeeps, SetBackKeeps,
     DieKeeps, ReapKeeps DEF Next, Step
<1>2. CASE UNCHANGED vars
  BY <1>2 DEF vars, targets, clock, info, local, IInv, TypeOK, InOrder, InactiveAreGone,
     StoppedSoFar, ResumedSoFar, StoppedUntilPeriodEnd, StoppedIsRecorded, RecordedIsStopped,
     NobodyRunsOverBudget, LeavesNobodyStopped, NobodyStopped, NobodyRuns, AllGone, Current
<1> QED
  BY <1>1, <1>2

LEMMA Invariance == Spec => []IInv
<1>1. Init => IInv
  BY InitIInv
<1>2. IInv /\ [Next]_vars => IInv'
  BY NextIInv
<1> QED
  BY <1>1, <1>2, PTL DEF Spec

(* The variables stay in their types.                                       *)
THEOREM TypeCorrect == Spec => []TypeOK
<1>1. IInv => TypeOK
  BY DEF IInv
<1> QED
  BY <1>1, Invariance, PTL

(* Whoever is stopped is on record, so that the loop or the handler will    *)
(* continue it.                                                             *)
THEOREM StoppedAreRecorded == Spec => []StoppedIsRecorded
<1>1. IInv => StoppedIsRecorded
  BY DEF IInv
<1> QED
  BY <1>1, Invariance, PTL

(* Whoever is on record as stopped does not run.                            *)
THEOREM RecordedAreStopped == Spec => []RecordedIsStopped
<1>1. IInv => RecordedIsStopped
  BY DEF IInv
<1> QED
  BY <1>1, Invariance, PTL

(* The limit is enforced: from Decide to the end of the period no target    *)
(* runs, whatever exits, is reaped or is found stopped on the way.          *)
THEOREM LimitIsEnforced == Spec => []NobodyRunsOverBudget
<1>1. IInv => NobodyRunsOverBudget
  BY DEF IInv
<1> QED
  BY <1>1, Invariance, PTL

(* However and whenever cpulimit ends, it leaves stopped at most the target *)
(* it was stopping when told to quit.                                       *)
THEOREM LeavesTargetsRunning == Spec => []LeavesNobodyStopped
<1>1. IInv => LeavesNobodyStopped
  BY DEF IInv
<1> QED
  BY <1>1, Invariance, PTL

(* A step that continues a target is one of the walk of ResumeProcesses or  *)
(* of the handler; the walk finds someone stopped only after the period.    *)
THEOREM ResumesAtPeriodEnd == Spec => ResumedOnlyAtPeriodEnd
<1> DEFINE Late == \A p \in Targets : status[p] = "stopped" /\ status'[p] = "running" =>
                     time >= kPeriod \/ pc = "handler"
<1>1. ASSUME IInv, Next PROVE Late
  <2> SUFFICES ASSUME NEW p \in Targets, status[p] = "stopped", status'[p] = "running"
               PROVE  time >= kPeriod \/ pc = "handler"
    OBVIOUS
  <2>1. CASE ResumeProcesses
    BY <1>1, <2>1 DEF IInv, StoppedUntilPeriodEnd, NobodyStopped, ResumeProcesses
  <2>2. CASE SignalHandler
    BY <2>2 DEF SignalHandler
  <2>3. CASE StopProcesses
    BY <1>1, <2>3 DEF IInv, TypeOK, StopProcesses, SendStop, targets
  <2>4. CASE Die
    BY <1>1, <2>4 DEF IInv, TypeOK, Die
  <2>5. CASE Reap
    BY <1>1, <2>5 DEF IInv, TypeOK, Reap
  <2>6. CASE Pass
    BY <2>6 DEF Pass
  <2>7. CASE Next /\ status' = status
    BY <2>7
  <2> QED
    BY <1>1, <2>1, <2>2, <2>3, <2>4, <2>5, <2>6, <2>7 DEF Next, Step, targets,
       InitializeProcesses, Install, GetActivePids, LoopBreaks, FinalResume, CheckPeriod,
       CalculateTotalUsedTicks, Decide, StopRecorded, SleepToPeriodEnd, ResumeRecorded,
       ResumeReturns, ResetPeriodTicks, NextPeriod, WakeUp, Exit, Signal, SetBack
<1>2. IInv /\ [Next]_vars => [Late]_vars
  BY <1>1
<1> QED
  BY <1>2, Invariance, PTL DEF Spec, ResumedOnlyAtPeriodEnd

=============================================================================
