--------------------------------- MODULE Top ---------------------------------
(***************************************************************************)
(* top/main.cpp: once a second a list of pids, for each of them two files of *)
(* /proc, and a table of those that used most.  Of a process only its CPU    *)
(* ticks are kept, which are what goes from one refresh to the next.         *)
(***************************************************************************)
EXTENDS Processes

CONSTANTS kMaxPrintedRows, MaxRefreshes   \* bound: refreshes

VARIABLES phase,               \* list, stat, uid, or sleep
          process_ids, at,     \* the pids listed, and the last one seen to
          info,                \* the row being read
          processes_read,      \* the rows there are, as a set
          prev_process_ticks, new_prev_ticks,   \* pid -> ticks, -1 if not there
          table,               \* the rows on the screen
          refreshes,           \* 0 in the round before the loop
          before, now          \* history: what this refresh and the last have read

topVars == <<phase, process_ids, at, info, processes_read, prev_process_ticks,
             new_prev_ticks, table, refreshes, before, now>>

NoTicks == [p \in Pids |-> -1]
NoInfo == [pid |-> 0, birth |-> 0, total_ticks |-> 0, cpu |-> 0]

TopInit ==
    /\ phase = "list" /\ process_ids = {} /\ at = 0 /\ info = NoInfo
    /\ processes_read = {} /\ prev_process_ticks = NoTicks /\ new_prev_ticks = NoTicks
    /\ table = {} /\ refreshes = 0 /\ before = {} /\ now = {}

ListPids ==
    /\ phase = "list"
    /\ IF NextPid(at) # 0
       THEN at' = NextPid(at) /\ process_ids' = process_ids \union {at'} /\ UNCHANGED phase
       ELSE at' = 0 /\ phase' = "stat" /\ UNCHANGED process_ids
    /\ UNCHANGED <<info, processes_read, prev_process_ticks, new_prev_ticks, table,
                   refreshes, before, now>>

Unread == {p \in process_ids : p > at}
Reads(p) == p \in Unread /\ \A q \in Unread : p <= q

CalculateCpu(total, prev) == IF total >= prev THEN total - prev ELSE 0

PrevTicks(p) == IF prev_process_ticks[p] = -1 THEN 0 ELSE prev_process_ticks[p]

(* The round before the loop reads no user.                                  *)
ReadProcessStat ==
    /\ phase = "stat"
    /\ \E p \in Unread :
         LET total == proc[p].ticks
             row == [pid |-> p, birth |-> proc[p].birth, total_ticks |-> total,
                     cpu |-> CalculateCpu(total, PrevTicks(p))]
         IN  /\ Reads(p)
             /\ IF p \in Live /\ refreshes > 0
                THEN phase' = "uid" /\ info' = row /\ UNCHANGED <<at, new_prev_ticks, now>>
                ELSE /\ at' = p /\ UNCHANGED <<phase, info>>
                     /\ new_prev_ticks' = [new_prev_ticks EXCEPT ![p] =
                                             IF p \in Live THEN total ELSE @]
                     /\ now' = IF p \in Live THEN now \union {row} ELSE now
    /\ UNCHANGED <<process_ids, processes_read, prev_process_ticks, table, refreshes, before>>

HasUid(p) == p \in Live   \* a zombie has one too

(* ReadProcessUid and what follows it in CollectProcesses.                   *)
ReadProcessUid ==
    /\ phase = "uid"
    /\ phase' = "stat" /\ at' = info.pid /\ info' = NoInfo
    /\ IF HasUid(info.pid)
       THEN /\ new_prev_ticks' = [new_prev_ticks EXCEPT ![info.pid] = info.total_ticks]
            /\ processes_read' = processes_read \union {info} /\ now' = now \union {info}
       ELSE UNCHANGED <<new_prev_ticks, processes_read, now>>
    /\ UNCHANGED <<process_ids, prev_process_ticks, table, refreshes, before>>

Before(r, s) == r.cpu > s.cpu \/ (r.cpu = s.cpu /\ r.pid < s.pid)

FirstRowsUnsorted(rows) ==   \* mutant: resize before sort
    {r \in rows : Cardinality({s \in rows : s.pid < r.pid}) < kMaxPrintedRows}

(* sort, then resize.                                                        *)
FirstRows(rows) ==
    {r \in rows : Cardinality({s \in rows : Before(s, r)}) < kMaxPrintedRows}

TicksOfShown ==   \* mutant: only what is shown is compared next time
    [p \in Pids |-> IF \E r \in FirstRows(processes_read) : r.pid = p
                    THEN new_prev_ticks[p] ELSE -1]

KeptTicks == new_prev_ticks

Refreshed ==
    /\ phase = "stat" /\ Unread = {}
    /\ phase' = "sleep"
    /\ table' = FirstRows(processes_read)
    /\ prev_process_ticks' = KeptTicks /\ new_prev_ticks' = NoTicks
    /\ UNCHANGED <<process_ids, at, info, processes_read, refreshes, before, now>>

WakeUp ==
    /\ phase = "sleep" /\ refreshes < MaxRefreshes
    /\ refreshes' = refreshes + 1
    /\ phase' = "list" /\ process_ids' = {} /\ at' = 0
    /\ processes_read' = {} /\ before' = now /\ now' = {}
    /\ UNCHANGED <<info, prev_process_ticks, new_prev_ticks, table>>

TopStep == ListPids \/ ReadProcessStat \/ ReadProcessUid \/ Refreshed \/ WakeUp

(* top, beside any processes that do what they like.                         *)
TopNext ==
    \/ TopStep /\ UNCHANGED processes
    \/ (ComeAndGo \/ \E p \in Live : UseCpu(p)) /\ UNCHANGED topVars

TopSpec == ProcessesOK /\ TopInit /\ [][TopNext]_<<processes, topVars>>

-----------------------------------------------------------------------------
Printed == phase = "sleep" /\ refreshes > 0

(* The usage on the screen is what that process used since the refresh       *)
(* before, or since it started if it was not there; one that has the pid of  *)
(* a process that was there instead may show less, never more.               *)
ShownIsUsed ==
    Printed =>
        \A r \in table :
            LET there == {b \in before : b.pid = r.pid}
            IN  /\ \A b \in there : b.birth = r.birth => r.cpu = r.total_ticks - b.total_ticks
                /\ there = {} => r.cpu = r.total_ticks
                /\ r.cpu <= r.total_ticks

(* Nobody who has lived through two refreshes is missing, unless the screen  *)
(* is full of others that used as much.                                      *)
ShowsTheBusiest ==
    Printed =>
        \A b \in before :
            b.pid \in Live /\ proc[b.pid].birth = b.birth =>
                \E r \in now :
                    /\ r.pid = b.pid /\ r.birth = b.birth
                    /\ r \in table \/ (Cardinality(table) = kMaxPrintedRows
                                        /\ \A s \in table : s.cpu >= r.cpu)
=============================================================================
