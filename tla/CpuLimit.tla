------------------------------ MODULE CpuLimit ------------------------------
(***************************************************************************)
(* cpulimit/main.cpp from InitializeProcesses on: the loop that stops its   *)
(* targets when they have used up the budget of a period and continues them *)
(* when the period is over, the handler that runs when cpulimit is told to  *)
(* quit, and the targets, which run, exit and are reaped at any moment.     *)
(*                                                                         *)
(* Each iteration of a loop over pids is a step of its own, and so is each  *)
(* half of "kill, then write stopped_by_us": a signal arrives between any   *)
(* two.  Time passes in units of kCheckIntervalMs and as fast as it likes,  *)
(* and the clock may be set back, for gettimeofday reads the wall clock.    *)
(* Nobody else stops or continues the targets, and no pid is used again.    *)
(***************************************************************************)
EXTENDS Integers, FiniteSets, FiniteSetsExt

CONSTANTS Targets,     \* the pids LimitProcesses was asked to limit
          kPeriod,     \* kPeriodMs, in units of kCheckIntervalMs
          Budget,      \* budget_ticks
          FirstTicks,  \* what a target may have used when cpulimit starts
          MaxTicks,    \* bound: CPU time a target can use
          MaxSignals,  \* bound: how often SIGINT or SIGTERM arrives
          MaxSetBacks  \* bound: how often the clock is set back

ASSUME CpuLimitAssumption ==
    /\ Targets \subseteq Nat /\ IsFiniteSet(Targets)
    /\ kPeriod \in Nat \ {0} /\ Budget \in Nat
    /\ FirstTicks \subseteq Nat /\ MaxTicks \in Nat
    /\ MaxSignals \in Nat /\ MaxSetBacks \in Nat

VARIABLES
    status, ticks,     \* the targets: what /proc and the scheduler know
    time,              \* since the period began
    behind, setBacks,  \* how far the clock was set back since then; how often at all
    processes,         \* the pids in the map
    start, byUs,       \* their ProcessInfo
    active, todo,      \* active_pids, and what a loop over pids has left
    elapsed, seen,     \* elapsed_ms, and what ReadCpuTicks last returned
    wait,              \* time nanosleep has left
    pc, why,           \* where cpulimit is, and which caller it returns to
    signals, orphans   \* signals so far; pids being stopped when one arrived

targets == <<status, ticks>>
clock == <<time, behind, setBacks>>
info == <<processes, start, byUs>>
local == <<active, elapsed, seen>>
vars == <<targets, clock, info, local, todo, wait, pc, why, signals, orphans>>

Init ==
    /\ status \in [Targets -> {"running", "gone"}]
    /\ ticks \in [Targets -> FirstTicks]
    /\ time = 0 /\ behind = 0 /\ setBacks = 0
    /\ processes = {} /\ start = [p \in Targets |-> 0] /\ byUs = [p \in Targets |-> FALSE]
    /\ active = {} /\ todo = Targets
    /\ elapsed = 0 /\ seen = [p \in Targets |-> 0]
    /\ wait = 0 /\ pc = "init" /\ why = "start"
    /\ signals = 0 /\ orphans = {}

-----------------------------------------------------------------------------
(* kill(pid, 0) succeeds for a zombie, and its stat file can be read.       *)
ProcessExistsIfRunning(p) == status[p] = "running"   \* mutant: by its state

ProcessExists(p) == status[p] # "gone"
ReadCpuTicks(p) == IF status[p] = "gone" THEN -1 ELSE ticks[p]

SendStop(p) ==
    status' = IF status[p] = "running" THEN [status EXCEPT ![p] = "stopped"] ELSE status
SendCont(p) ==
    status' = IF status[p] = "stopped" THEN [status EXCEPT ![p] = "running"] ELSE status

(* The map and the vectors made from it are walked in the order of pids.    *)
Current == Min(todo)
Advance == todo' = todo \ {Current}
Walk(where, pids) == pc' = where /\ todo' = pids

(* The locals of an iteration of the loop die with it.                      *)
ForgetLocals == active' = {} /\ elapsed' = 0 /\ seen' = [p \in Targets |-> 0]

InitializeProcesses ==   \* target_pids come in the order of /proc: in any
    /\ pc = "init"
    /\ \E p \in todo :
         /\ IF ProcessExists(p)
            THEN /\ processes' = processes \union {p}
                 /\ start' = [start EXCEPT ![p] = ReadCpuTicks(p)]
            ELSE UNCHANGED <<processes, start>>
         /\ todo' = todo \ {p}
    /\ UNCHANGED <<targets, clock, byUs, local, wait, pc, why, signals, orphans>>

(* The handlers are set and the first period starts, if anyone is there.    *)
Install ==
    /\ pc = "init" /\ todo = {}
    /\ IF processes = {} THEN pc' = "done" /\ UNCHANGED todo
                         ELSE Walk("scan", processes)
    /\ time' = 0 /\ behind' = 0
    /\ UNCHANGED <<targets, setBacks, info, local, wait, why, signals, orphans>>

GetActivePidsUnchecked ==   \* mutant: no check for existence
    /\ pc = "scan" /\ todo # {}
    /\ active' = active \union {Current}
    /\ Advance
    /\ UNCHANGED <<targets, clock, info, elapsed, seen, wait, pc, why, signals, orphans>>

GetActivePids ==
    /\ pc = "scan" /\ todo # {}
    /\ active' = IF ProcessExists(Current) THEN active \union {Current} ELSE active
    /\ Advance
    /\ UNCHANGED <<targets, clock, info, elapsed, seen, wait, pc, why, signals, orphans>>

(* Nobody left: the loop breaks, and the pids are listed once more.         *)
LoopBreaks ==
    /\ pc = "scan" /\ todo = {} /\ active = {} /\ why # "final"
    /\ why' = "final"
    /\ Walk("scan", processes)
    /\ UNCHANGED <<targets, clock, info, local, wait, signals, orphans>>

FinalResume ==
    /\ pc = "scan" /\ todo = {} /\ why = "final"
    /\ Walk("resume", active)
    /\ UNCHANGED <<targets, clock, info, local, wait, why, signals, orphans>>

CalculateElapsed == time - behind

CheckPeriod ==
    /\ pc = "scan" /\ todo = {} /\ active # {} /\ why # "final"
    /\ elapsed' = CalculateElapsed
    /\ IF elapsed' >= kPeriod THEN Walk("resume", active) /\ why' = "period"
                         ELSE Walk("read", active) /\ UNCHANGED why
    /\ UNCHANGED <<targets, clock, info, active, seen, wait, signals, orphans>>

CalculateTotalUsedTicks ==
    /\ pc = "read" /\ todo # {}
    /\ seen' = [seen EXCEPT ![Current] = ReadCpuTicks(Current)]
    /\ Advance
    /\ UNCHANGED <<targets, clock, info, active, elapsed, wait, pc, why, signals, orphans>>

TotalUsed ==
    MapThenSumSet(LAMBDA p : seen[p] - start[p],
                  {p \in active : seen[p] > 0 /\ start[p] > 0})

Decide ==
    /\ pc = "read" /\ todo = {}
    /\ IF TotalUsed >= Budget THEN Walk("stop", active) /\ why' = "over"
                              ELSE Walk("resume", active) /\ why' = "under"
    /\ UNCHANGED <<targets, clock, info, local, wait, signals, orphans>>

-----------------------------------------------------------------------------
StopProcessesReturning ==   \* mutant: return for continue
    /\ pc = "stop" /\ todo # {}
    /\ IF ProcessExists(Current) /\ ~byUs[Current]
       THEN SendStop(Current) /\ pc' = "stopped" /\ UNCHANGED todo
       ELSE todo' = {} /\ UNCHANGED <<status, pc>>
    /\ UNCHANGED <<ticks, clock, info, local, wait, why, signals, orphans>>

StopProcesses ==
    /\ pc = "stop" /\ todo # {}
    /\ IF ProcessExists(Current) /\ ~byUs[Current]
       THEN SendStop(Current) /\ pc' = "stopped" /\ UNCHANGED todo
       ELSE Advance /\ UNCHANGED <<status, pc>>
    /\ UNCHANGED <<ticks, clock, info, local, wait, why, signals, orphans>>

StopNotRecorded ==   \* mutant: stopped_by_us left alone
    /\ pc = "stopped" /\ pc' = "stop"
    /\ Advance
    /\ UNCHANGED <<targets, clock, info, local, wait, why, signals, orphans>>

StopRecorded ==
    /\ pc = "stopped" /\ pc' = "stop"
    /\ byUs' = [byUs EXCEPT ![Current] = TRUE]
    /\ Advance
    /\ UNCHANGED <<targets, clock, processes, start, local, wait, why, signals, orphans>>

SleepPastPeriodEnd ==   \* mutant: the time elapsed added, not subtracted
    /\ pc = "stop" /\ todo = {}
    /\ wait' = kPeriod + elapsed
    /\ pc' = "sleep"
    /\ UNCHANGED <<targets, clock, info, local, todo, why, signals, orphans>>

SleepOneInterval ==   \* mutant: the short sleep of the other branch
    /\ pc = "stop" /\ todo = {}
    /\ wait' = 1
    /\ pc' = "sleep"
    /\ UNCHANGED <<targets, clock, info, local, todo, why, signals, orphans>>

SleepToPeriodEnd ==
    /\ pc = "stop" /\ todo = {}
    /\ wait' = kPeriod - elapsed
    /\ pc' = "sleep"
    /\ UNCHANGED <<targets, clock, info, local, todo, why, signals, orphans>>

ResumeProcesses ==
    /\ pc = "resume" /\ todo # {}
    /\ IF ProcessExists(Current) /\ byUs[Current]
       THEN SendCont(Current) /\ pc' = "resumed" /\ UNCHANGED todo
       ELSE Advance /\ UNCHANGED <<status, pc>>
    /\ UNCHANGED <<ticks, clock, info, local, wait, why, signals, orphans>>

ResumeNotRecorded ==   \* mutant: stopped_by_us left alone
    /\ pc = "resumed" /\ pc' = "resume"
    /\ Advance
    /\ UNCHANGED <<targets, clock, info, local, wait, why, signals, orphans>>

ResumeRecorded ==
    /\ pc = "resumed" /\ pc' = "resume"
    /\ byUs' = [byUs EXCEPT ![Current] = FALSE]
    /\ Advance
    /\ UNCHANGED <<targets, clock, processes, start, local, wait, why, signals, orphans>>

ResumeReturns ==
    /\ pc = "resume" /\ todo = {}
    /\ CASE why = "period" -> Walk("reset", active) /\ UNCHANGED wait
         [] why = "under" -> pc' = "sleep" /\ wait' = 1 /\ UNCHANGED todo
         [] why = "final" -> pc' = "done" /\ UNCHANGED <<wait, todo>>
    /\ UNCHANGED <<targets, clock, info, local, why, signals, orphans>>

ResetPeriodTicks ==
    /\ pc = "reset" /\ todo # {}
    /\ start' = [start EXCEPT ![Current] = ReadCpuTicks(Current)]
    /\ Advance
    /\ UNCHANGED <<targets, clock, processes, byUs, local, wait, pc, why, signals, orphans>>

NextPeriod ==
    /\ pc = "reset" /\ todo = {}
    /\ time' = 0 /\ behind' = 0
    /\ ForgetLocals /\ Walk("scan", processes)
    /\ UNCHANGED <<targets, setBacks, info, wait, why, signals, orphans>>

WakeUp ==
    /\ pc = "sleep" /\ wait = 0
    /\ ForgetLocals /\ Walk("scan", processes)
    /\ UNCHANGED <<targets, clock, info, wait, why, signals, orphans>>

-----------------------------------------------------------------------------
(* SIGINT or SIGTERM.  Before LimitProcesses sets the handler it kills;     *)
(* afterwards the handler runs to the exit and its victim never goes on.    *)
Signal ==
    /\ pc # "done" /\ signals < MaxSignals
    /\ signals' = signals + 1
    /\ IF pc = "init" THEN Walk("done", {}) ELSE Walk("handler", processes)
    /\ orphans' = IF pc = "stopped" THEN {Current} ELSE orphans
    /\ ForgetLocals /\ wait' = 0 /\ why' = "quit"
    /\ time' = kPeriod /\ behind' = 0 /\ setBacks' = 0   \* the clock is not read again
    /\ UNCHANGED <<targets, info>>

SignalHandlerExits ==   \* mutant: exit without a look at the map
    /\ pc = "handler" /\ todo # {}
    /\ todo' = {}
    /\ UNCHANGED <<targets, clock, info, local, wait, pc, why, signals, orphans>>

SignalHandler ==
    /\ pc = "handler" /\ todo # {}
    /\ IF ProcessExists(Current) /\ byUs[Current] THEN SendCont(Current)
                                                  ELSE UNCHANGED status
    /\ Advance
    /\ UNCHANGED <<ticks, clock, info, local, wait, pc, why, signals, orphans>>

Exit ==
    /\ pc = "handler" /\ todo = {}
    /\ pc' = "done"
    /\ UNCHANGED <<targets, clock, info, local, todo, wait, why, signals, orphans>>

-----------------------------------------------------------------------------
(* The world: the clock, and whoever is running while it advances.          *)
Pass ==
    /\ time' = IF CalculateElapsed < kPeriod THEN time + 1 ELSE time
    /\ wait' = IF wait > 0 THEN wait - 1 ELSE 0
    /\ \E busy \in SUBSET {p \in Targets : status[p] = "running" /\ ticks[p] < MaxTicks} :
         ticks' = [p \in Targets |-> IF p \in busy THEN ticks[p] + 1 ELSE ticks[p]]
    /\ UNCHANGED <<status, behind, setBacks, info, local, todo, pc, why, signals, orphans>>

SetBack ==   \* bound: while cpulimit sleeps, as it does most of the time
    /\ pc = "sleep"
    /\ setBacks < MaxSetBacks /\ setBacks' = setBacks + 1
    /\ behind' = behind + kPeriod
    /\ UNCHANGED <<targets, time, info, local, todo, wait, pc, why, signals, orphans>>

Die ==   \* exit, or SIGKILL, which also ends a stopped process
    /\ \E p \in Targets :
         /\ status[p] \in {"running", "stopped"}
         /\ status' = [status EXCEPT ![p] = "zombie"]
    /\ UNCHANGED <<ticks, clock, info, local, todo, wait, pc, why, signals, orphans>>

Reap ==
    /\ \E p \in Targets :
         /\ status[p] = "zombie"
         /\ status' = [status EXCEPT ![p] = "gone"]
    /\ UNCHANGED <<ticks, clock, info, local, todo, wait, pc, why, signals, orphans>>

Step ==
    \/ InitializeProcesses \/ Install \/ GetActivePids \/ LoopBreaks \/ FinalResume
    \/ CheckPeriod \/ CalculateTotalUsedTicks \/ Decide
    \/ StopProcesses \/ StopRecorded \/ SleepToPeriodEnd
    \/ ResumeProcesses \/ ResumeRecorded \/ ResumeReturns
    \/ ResetPeriodTicks \/ NextPeriod \/ WakeUp
    \/ SignalHandler \/ Exit

Next == Step \/ Signal \/ Pass \/ SetBack \/ Die \/ Reap

(* cpulimit is scheduled, and time passes.                                  *)
Spec == Init /\ [][Next]_vars /\ WF_vars(Step) /\ WF_vars(Pass)

-----------------------------------------------------------------------------
(* Properties.                                                              *)

(* The state has the shape the declarations of the code give it.            *)
TypeOK ==
    /\ status \in [Targets -> {"running", "stopped", "zombie", "gone"}]
    /\ ticks \in [Targets -> Nat] /\ time \in 0 .. kPeriod + behind
    /\ processes \subseteq Targets /\ active \subseteq processes /\ todo \subseteq Targets
    /\ start \in [Targets -> Nat \union {-1}] /\ byUs \in [Targets -> BOOLEAN]
    /\ elapsed \in -kPeriod * MaxSetBacks .. kPeriod /\ seen \in [Targets -> Nat \union {-1}]
    /\ wait \in 0 .. kPeriod - elapsed /\ setBacks \in 0 .. MaxSetBacks
    /\ behind \in 0 .. kPeriod * setBacks
    /\ pc \in {"init", "scan", "read", "stop", "stopped", "resume", "resumed", "reset",
               "sleep", "handler", "done"}
    /\ why \in {"start", "period", "over", "under", "final", "quit"}
    /\ signals \in 0 .. MaxSignals /\ orphans \subseteq processes

(* A stopped target is on record as stopped by us, but for the one whose    *)
(* SIGSTOP is on its way to the record.                                     *)
StoppedIsRecorded ==
    \A p \in Targets : status[p] = "stopped" =>
        byUs[p] \/ p \in orphans \/ (pc = "stopped" /\ p = Current)

(* A target on record as stopped does not run, but for the one just         *)
(* continued and for those the exiting handler has been through.            *)
RecordedIsStopped ==
    \A p \in Targets : byUs[p] /\ status[p] = "running" =>
        pc \in {"handler", "done"} \/ (pc = "resumed" /\ p = Current)

(* Once over budget, cpulimit sleeps until the period ends with no target   *)
(* left running.                                                            *)
NobodyRunsOverBudget ==
    pc = "sleep" /\ why = "over" => \A p \in processes : status[p] # "running"

(* readme.md: SIGCONT comes only after the current second is over, also if  *)
(* the clock is set back meanwhile.                                         *)
ResumedOnlyAtPeriodEnd ==
    [][\A p \in Targets : status[p] = "stopped" /\ status'[p] = "running" =>
          time >= kPeriod \/ pc = "handler"]_vars

(* readme.md: a target is sent SIGSTOP as soon as it is seen to come near   *)
(* its budget; so none is let run on over it.                               *)
Spent == MapThenSumSet(LAMBDA p : seen[p] - start[p],
                       {p \in active : seen[p] >= 0 /\ start[p] >= 0})
OverBudgetIsStopped == pc = "resume" /\ Spent >= Budget => why # "under"

(* Whoever is on record as stopped runs again, or is dead, in the end: the  *)
(* loop or the handler sees to it.                                          *)
StoppedIsResumed ==
    \A p \in Targets : (status[p] = "stopped" /\ byUs[p]) ~> (status[p] # "stopped")

(* cpulimit leaves no target stopped when it is told to quit, but for one   *)
(* it was stopping at that moment.                                          *)
LeavesNobodyStopped ==
    pc = "done" => \A p \in Targets \ orphans : status[p] # "stopped"

(* cpulimit ends with its targets.                                          *)
EndsWithTargets == (\A p \in Targets : status[p] = "gone") ~> (pc = "done")

(* What the handler is there for: told to quit, cpulimit continues what it  *)
(* has stopped.                                                             *)
QuitResumesAll == pc = "done" => \A p \in Targets : status[p] # "stopped"
=============================================================================
