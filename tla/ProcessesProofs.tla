--------------------------- MODULE ProcessesProofs ---------------------------
(***************************************************************************)
(* Theorems about the two programs that read /proc, for any processes.  Of   *)
(* Top: what the screen shows was used since the refresh before, and who     *)
(* used most is shown.  Of FindTargets: its recursion ends unless a pid is   *)
(* used again, and who stays is found.                                       *)
(***************************************************************************)
EXTENDS Top, FindTargets, TLAPS, NaturalsInduction, WellFoundedInduction, FiniteSetTheorems

(* A set of numbers has a least one.                                         *)
LEMMA NonemptyHasMin ==
    ASSUME NEW S, S \subseteq Nat, S # {}
    PROVE  \E m \in S : \A n \in S : m <= n
<1>1. PICK m \in S : \A n \in S : <<n, m>> \notin OpToRel(<, Nat)
  BY NatLessThanWellFounded, WFMin
<1>2. \A n \in S : ~(n < m)
  BY <1>1 DEF OpToRel
<1> QED BY <1>2

(* readdir gives the next pid there is.                                      *)
LEMMA NextPidIs ==
    ASSUME NEW a
    PROVE  IF \E p \in Live : p > a
           THEN NextPid(a) \in Live /\ NextPid(a) > a /\ \A q \in Live : q > a => NextPid(a) <= q
           ELSE NextPid(a) = 0
<1> DEFINE rest == {p \in Live : p > a}
<1>1. CASE rest = {}
  BY <1>1 DEF NextPid
<1>2. CASE rest # {}
  <2>1. rest \subseteq Nat
    BY PidsAssumption DEF Live
  <2>2. \E p \in rest : \A q \in rest : p <= q
    <3> HIDE DEF rest
    <3> QED BY <1>2, <2>1, NonemptyHasMin
  <2>3. NextPid(a) = CHOOSE p \in rest : \A q \in rest : p <= q
    BY <1>2 DEF NextPid
  <2> QED BY <1>2, <2>2, <2>3
<1> QED BY <1>1, <1>2

-----------------------------------------------------------------------------
(* Top.                                                                      *)

vars == <<processes, topVars>>

TopWorld == ComeAndGo \/ \E p \in Live : UseCpu(p)

Row == [pid : Pids, birth : Nat, total_ticks : Nat, cpu : Nat]

TopTypeOK ==
    /\ ProcessesOK
    /\ phase \in {"list", "stat", "uid", "sleep"} /\ process_ids \subseteq Pids /\ at \in Nat
    /\ refreshes \in Nat
    /\ prev_process_ticks \in [Pids -> Nat \union {-1}]
    /\ new_prev_ticks \in [Pids -> Nat \union {-1}]
    /\ before \subseteq Row /\ now \subseteq Row /\ processes_read \subseteq now
    /\ phase = "uid" => info \in Row

(* Ticks of a process only grow, and who has its pid later was born later.   *)
Was(r) ==
    /\ r.birth <= proc[r.pid].birth
    /\ r.birth = proc[r.pid].birth => r.total_ticks <= proc[r.pid].ticks

RowsAreHistory ==
    /\ \A r \in before \union now : Was(r)
    /\ phase = "uid" => Was(info)

(* A map of ticks has those of the rows, and no other.                       *)
Remembers(ticks, rows) ==
    /\ \A r \in rows : ticks[r.pid] = r.total_ticks
    /\ \A p \in Pids : ticks[p] # -1 => \E r \in rows : r.pid = p

TicksAreRemembered ==
    IF phase = "sleep"
    THEN new_prev_ticks = NoTicks /\ Remembers(prev_process_ticks, now)
    ELSE Remembers(prev_process_ticks, before) /\ Remembers(new_prev_ticks, now)

(* Rows are read in the order of the pids, one for each.                     *)
ReadInOrder ==
    /\ phase = "list" => now = {}
    /\ phase \in {"stat", "uid"} => \A r \in now : r.pid <= at
    /\ phase = "uid" => Reads(info.pid)
    /\ \A r, s \in now : r.pid = s.pid => r = s
    /\ IsFiniteSet(now)

(* What ShownIsUsed says of a row.                                           *)
Used(r) ==
    LET there == {b \in before : b.pid = r.pid}
    IN  /\ \A b \in there : b.birth = r.birth => r.cpu = r.total_ticks - b.total_ticks
        /\ there = {} => r.cpu = r.total_ticks
        /\ r.cpu <= r.total_ticks

RowsAreUsed ==
    /\ \A r \in now : Used(r)
    /\ phase = "uid" => Used(info) /\ refreshes > 0
    /\ refreshes > 0 => processes_read = now
    /\ refreshes = 0 => before = {}
    /\ Printed => table = FirstRows(now)

Lives(b) == b.pid \in Live /\ proc[b.pid].birth = b.birth
IsIn(b, rows) == \E r \in rows : r.pid = b.pid /\ r.birth = b.birth

(* Who lives since the refresh before is listed, and read when its turn has  *)
(* come.                                                                     *)
NobodyIsSkipped ==
    \A b \in before : Lives(b) =>
        /\ phase = "list" => b.pid \in process_ids \/ b.pid > at
        /\ phase \in {"stat", "uid"} => b.pid \in process_ids /\ (b.pid > at \/ IsIn(b, now))
        /\ phase = "uid" /\ b.pid = info.pid => b.birth = info.birth
        /\ phase = "sleep" => IsIn(b, now)

TopIInv == /\ TopTypeOK /\ RowsAreHistory /\ TicksAreRemembered /\ ReadInOrder /\ RowsAreUsed
        /\ NobodyIsSkipped

-----------------------------------------------------------------------------
-----------------------------------------------------------------------------
(* What the processes do.                                                    *)

LEMMA TopWorldKeepsType == ASSUME ProcessesOK, TopWorld PROVE ProcessesOK'
<1>1. ASSUME NEW p \in Live, Fork(p) PROVE ProcessesOK'
  BY <1>1, PidsAssumption DEF ProcessesOK, Process, Fork, Happens, Live
<1>2. ASSUME NEW p \in Live, Exec(p) PROVE ProcessesOK'
  BY <1>2 DEF ProcessesOK, Process, Exec, Happens, Live
<1>3. ASSUME NEW p \in Live, Exit(p) PROVE ProcessesOK'
  <2>1. events' \in Nat /\ events' >= events
    BY <1>3 DEF ProcessesOK, Exit, Happens
  <2>2. ASSUME NEW q \in Pids
        PROVE  proc'[q] \in Process /\ proc'[q].birth = proc[q].birth
               /\ proc'[q].image = proc[q].image
    BY <1>3, PidsAssumption DEF ProcessesOK, Process, Exit
  <2>3. proc' \in [Pids -> Process]
    BY <1>3, <2>2 DEF Exit
  <2> QED BY <2>1, <2>2, <2>3 DEF ProcessesOK, Process
<1>4. ASSUME NEW p \in Live, UseCpu(p) PROVE ProcessesOK'
  BY <1>4 DEF ProcessesOK, Process, UseCpu, Live
<1> QED BY <1>1, <1>2, <1>3, <1>4 DEF TopWorld, ComeAndGo

(* A pid goes to a process born later, or its process lives on.              *)
LEMMA WorldGoesOn ==
    ASSUME ProcessesOK, TopWorld, NEW q \in Pids
    PROVE  \/ proc'[q].birth = proc[q].birth /\ proc'[q].ticks >= proc[q].ticks
              /\ (q \in Live' => q \in Live)
           \/ proc'[q].birth > proc[q].birth
<1> DEFINE Goal == \/ proc'[q].birth = proc[q].birth /\ proc'[q].ticks >= proc[q].ticks
                       /\ (q \in Live' => q \in Live)
                   \/ proc'[q].birth > proc[q].birth
<1>1. ASSUME NEW p \in Live, Fork(p) PROVE Goal
  BY <1>1 DEF ProcessesOK, Process, Fork, Happens, Live
<1>2. ASSUME NEW p \in Live, Exec(p) PROVE Goal
  BY <1>2 DEF ProcessesOK, Process, Exec, Happens, Live
<1>3. ASSUME NEW p \in Live, Exit(p) PROVE Goal
  BY <1>3 DEF ProcessesOK, Process, Exit, Happens, Live
<1>4. ASSUME NEW p \in Live, UseCpu(p) PROVE Goal
  BY <1>4 DEF ProcessesOK, Process, UseCpu, Live
<1> QED BY <1>1, <1>2, <1>3, <1>4 DEF TopWorld, ComeAndGo

LEMMA WorldKeepsRows ==
    ASSUME ProcessesOK, TopWorld, NEW r \in Row
    PROVE  (Was(r) => Was(r)') /\ (Was(r) /\ Lives(r)' => Lives(r))
<1>1. r.pid \in Pids /\ r.birth \in Nat /\ r.total_ticks \in Nat
  BY DEF Row
<1>2. proc[r.pid].birth \in Nat /\ proc[r.pid].ticks \in Nat
  BY <1>1 DEF ProcessesOK, Process
<1>3. proc'[r.pid].birth \in Nat /\ proc'[r.pid].ticks \in Nat
  BY <1>1, TopWorldKeepsType DEF ProcessesOK, Process
<1>4. \/ proc'[r.pid].birth = proc[r.pid].birth /\ proc'[r.pid].ticks >= proc[r.pid].ticks
         /\ (r.pid \in Live' => r.pid \in Live)
      \/ proc'[r.pid].birth > proc[r.pid].birth
  BY <1>1, WorldGoesOn
<1> QED BY <1>1, <1>2, <1>3, <1>4 DEF Was, Lives

LEMMA TopWorldKeepsIInv ==
    ASSUME TopIInv, TopWorld, UNCHANGED topVars PROVE TopIInv'
<1> USE DEF TopIInv
<1>1. /\ UNCHANGED <<phase, process_ids, at, info, processes_read, prev_process_ticks,
                     new_prev_ticks, table, refreshes, before, now>>
      /\ ProcessesOK
  BY DEF topVars, TopTypeOK
<1>2. TopTypeOK'
  BY <1>1, TopWorldKeepsType DEF TopTypeOK
<1>3. RowsAreHistory'
  BY <1>1, WorldKeepsRows DEF RowsAreHistory, TopTypeOK
<1>4. TicksAreRemembered'
  BY <1>1 DEF TicksAreRemembered, Remembers
<1>5. ReadInOrder'
  BY <1>1 DEF ReadInOrder, Reads, Unread
<1>6. RowsAreUsed'
  BY <1>1 DEF RowsAreUsed, Used, Printed, FirstRows, Before
<1>7. NobodyIsSkipped'
  BY <1>1, WorldKeepsRows DEF NobodyIsSkipped, IsIn, RowsAreHistory, TopTypeOK
<1> QED BY <1>2, <1>3, <1>4, <1>5, <1>6, <1>7

(* The pids of rows are numbers.                                             *)
LEMMA RowsHavePids ==
    ASSUME TopTypeOK, NEW r \in before \union now PROVE r \in Row /\ r.pid \in Pids /\ r.pid \in Nat
<1>1. r \in Row
  BY DEF TopTypeOK
<1>2. r.pid \in Pids
  BY <1>1 DEF Row
<1> QED BY <1>1, <1>2, PidsAssumption

-----------------------------------------------------------------------------
(* What top does.                                                            *)

LEMMA ListPidsKeepsIInv ==
    ASSUME TopIInv, ListPids, UNCHANGED processes PROVE TopIInv'
<1> USE DEF TopIInv
<1>1. /\ UNCHANGED <<info, processes_read, prev_process_ticks, new_prev_ticks, table,
                     refreshes, before, now, proc, events>>
      /\ phase = "list" /\ phase' \in {"list", "stat"} /\ ProcessesOK
  BY DEF ListPids, processes, TopTypeOK
<1>2. CASE NextPid(at) # 0
  <2>1. /\ at' \in Live /\ at' > at /\ \A q \in Live : q > at => at' <= q
        /\ process_ids' = process_ids \union {at'} /\ phase' = phase
    BY <1>2, NextPidIs DEF ListPids
  <2>2. at' \in Pids /\ at' \in Nat
    BY <2>1, PidsAssumption DEF Live
  <2>3. TopTypeOK'
    BY <1>1, <2>1, <2>2 DEF TopTypeOK, ProcessesOK
  <2>4. NobodyIsSkipped'
    <3>1. ASSUME NEW b \in before, Lives(b)
          PROVE  b.pid \in process_ids' \/ b.pid > at'
      <4>1. b.pid \in Live /\ b.pid \in Nat /\ (b.pid \in process_ids \/ b.pid > at)
        BY <1>1, <3>1, RowsHavePids DEF NobodyIsSkipped, Lives
      <4> QED BY <2>1, <2>2, <4>1
    <3> QED BY <1>1, <2>1, <3>1 DEF NobodyIsSkipped, Lives, Live
  <2> QED
    BY <1>1, <2>1, <2>3, <2>4 DEF RowsAreHistory, Was, TicksAreRemembered, Remembers,
       ReadInOrder, RowsAreUsed, Used, Printed
<1>3. CASE NextPid(at) = 0
  <2>1. at' = 0 /\ phase' = "stat" /\ process_ids' = process_ids
        /\ \A p \in Live : ~(p > at)
    BY <1>3, NextPidIs, PidsAssumption DEF ListPids, Live
  <2>2. TopTypeOK'
    BY <1>1, <2>1 DEF TopTypeOK, ProcessesOK
  <2>3. NobodyIsSkipped'
    <3>1. ASSUME NEW b \in before, Lives(b) PROVE b.pid \in process_ids /\ b.pid > 0
      <4>1. b.pid \in Pids /\ b.pid \in Live /\ (b.pid \in process_ids \/ b.pid > at)
        BY <1>1, <3>1, RowsHavePids DEF NobodyIsSkipped, Lives
      <4>2. b.pid \in process_ids
        BY <2>1, <4>1
      <4>3. b.pid > 0
        <5>1. \A p \in Pids : p \in Nat /\ p > 0
          BY PidsAssumption
        <5> QED BY <4>1, <5>1
      <4> QED BY <4>2, <4>3
    <3> QED BY <1>1, <2>1, <3>1 DEF NobodyIsSkipped, Lives, Live
  <2>4. ReadInOrder'
    BY <1>1, <2>1 DEF ReadInOrder
  <2> QED
    BY <1>1, <2>1, <2>2, <2>3, <2>4 DEF RowsAreHistory, Was, TicksAreRemembered, Remembers,
       RowsAreUsed, Used, Printed
<1> QED BY <1>2, <1>3

(* A row read now is what its process used.                                  *)
LEMMA NewRowIsUsed ==
    ASSUME TopIInv, phase = "stat", NEW p \in Live, NEW row,
           row = [pid |-> p, birth |-> proc[p].birth, total_ticks |-> proc[p].ticks,
                  cpu |-> CalculateCpu(proc[p].ticks, PrevTicks(p))]
    PROVE  row \in Row /\ Was(row) /\ Used(row)
<1>1. p \in Pids /\ proc[p].birth \in Nat /\ proc[p].ticks \in Nat
  BY DEF Live, TopIInv, TopTypeOK, ProcessesOK, Process
<1>2. prev_process_ticks[p] \in Nat \union {-1} /\ PrevTicks(p) \in Nat
  BY <1>1 DEF TopIInv, TopTypeOK, PrevTicks
<1>3. row.cpu \in Nat /\ row.cpu <= proc[p].ticks
  BY <1>1, <1>2 DEF CalculateCpu
<1>4. row \in Row /\ Was(row)
  BY <1>1, <1>3 DEF Row, Was
<1>5. ASSUME NEW b \in before, b.pid = p
      PROVE  prev_process_ticks[p] = b.total_ticks /\ b.total_ticks \in Nat /\ Was(b)
  BY <1>5 DEF TopIInv, TicksAreRemembered, Remembers, TopTypeOK, Row, RowsAreHistory
<1>6. ASSUME NEW b \in before, b.pid = p, b.birth = row.birth
      PROVE  row.cpu = row.total_ticks - b.total_ticks
  <2>1. b.total_ticks <= proc[p].ticks
    BY <1>5, <1>6 DEF Was
  <2>2. PrevTicks(p) = b.total_ticks
    BY <1>5, <1>6 DEF PrevTicks
  <2> QED BY <1>1, <1>5, <1>6, <2>1, <2>2 DEF CalculateCpu
<1>7. ASSUME {b \in before : b.pid = p} = {} PROVE row.cpu = row.total_ticks
  <2>1. prev_process_ticks[p] = -1
    BY <1>1, <1>7 DEF TopIInv, TicksAreRemembered, Remembers
  <2> QED BY <1>1, <2>1 DEF PrevTicks, CalculateCpu
<1> QED BY <1>3, <1>4, <1>6, <1>7 DEF Used

(* The next pid of the list, whose process has gone: no row.                 *)
LEMMA NoRowKeepsIInv ==
    ASSUME TopIInv, phase \in {"stat", "uid"}, NEW p, Reads(p), p \notin Live,
           phase' = "stat", at' = p,
           UNCHANGED <<process_ids, prev_process_ticks, table, refreshes, before, processes,
                       new_prev_ticks, now, processes_read>>
    PROVE  TopIInv'
<1> USE DEF TopIInv
<1>1. p \in process_ids /\ p > at /\ \A q \in process_ids : q > at => p <= q
  BY DEF Reads, Unread
<1>2. p \in Pids /\ p \in Nat
  BY <1>1, PidsAssumption DEF TopTypeOK
<1>3. UNCHANGED <<proc, events>>
  BY DEF processes
<1>4. TopTypeOK'
  BY <1>2, <1>3 DEF TopTypeOK, ProcessesOK
<1>5. NobodyIsSkipped'
  <2>1. ASSUME NEW b \in before, Lives(b)
        PROVE  b.pid \in process_ids /\ (b.pid > p \/ IsIn(b, now))
    <3>1. b.pid \in Live /\ b.pid \in process_ids /\ (b.pid > at \/ IsIn(b, now))
          /\ b.pid \in Nat
      BY <2>1, RowsHavePids DEF NobodyIsSkipped, Lives
    <3> QED BY <1>1, <1>2, <3>1
  <2> QED BY <1>3, <2>1 DEF NobodyIsSkipped, Lives, Live, IsIn
<1>6. ReadInOrder'
  <2>1. \A r \in now : r.pid <= p
    BY <1>1, <1>2, RowsHavePids DEF ReadInOrder, TopTypeOK
  <2> QED BY <2>1 DEF ReadInOrder
<1> QED
  BY <1>3, <1>4, <1>5, <1>6 DEF RowsAreHistory, Was, TicksAreRemembered, Remembers,
     RowsAreUsed, Used, Printed

(* The next pid of the list, with a row.                                     *)
LEMMA RowKeepsIInv ==
    ASSUME TopIInv, phase \in {"stat", "uid"}, NEW row \in Row, Reads(row.pid),
           Was(row), Used(row), \A b \in before : Lives(b) /\ b.pid = row.pid => b.birth = row.birth,
           phase' = "stat", at' = row.pid,
           UNCHANGED <<process_ids, prev_process_ticks, table, refreshes, before, processes>>,
           new_prev_ticks' = [new_prev_ticks EXCEPT ![row.pid] = row.total_ticks],
           now' = now \union {row},
           processes_read' = IF refreshes > 0 THEN processes_read \union {row}
                                              ELSE processes_read
    PROVE  TopIInv'
<1> USE DEF TopIInv
<1> DEFINE p == row.pid
<1>1. p \in process_ids /\ p > at /\ \A q \in process_ids : q > at => p <= q
  BY DEF Reads, Unread
<1>2. p \in Pids /\ p \in Nat /\ row.total_ticks \in Nat
  BY PidsAssumption DEF Row
<1>3. UNCHANGED <<proc, events>>
  BY DEF processes
<1>4. TopTypeOK'
  BY <1>2, <1>3 DEF TopTypeOK, ProcessesOK
<1>5. NobodyIsSkipped'
  <2>1. ASSUME NEW b \in before, Lives(b)
        PROVE  b.pid \in process_ids /\ (b.pid > p \/ IsIn(b, now'))
    <3>1. b.pid \in process_ids /\ (b.pid > at \/ IsIn(b, now)) /\ b.pid \in Nat
      BY <2>1, RowsHavePids DEF NobodyIsSkipped
    <3>2. CASE b.pid = p
      BY <2>1, <3>1, <3>2 DEF IsIn
    <3> QED BY <1>1, <1>2, <3>1, <3>2 DEF IsIn
  <2> QED BY <1>3, <2>1 DEF NobodyIsSkipped, Lives, Live, IsIn
<1>6. \A r \in now : r.pid \in Pids /\ r.pid \in Nat /\ r.pid <= at /\ r.pid # p
  BY <1>1, <1>2, RowsHavePids DEF ReadInOrder, TopTypeOK
<1>7. ReadInOrder'
  <2>1. \A r \in now' : r.pid <= p
    BY <1>1, <1>2, <1>6 DEF TopTypeOK
  <2>2. \A r, s \in now' : r.pid = s.pid => r = s
    BY <1>6 DEF ReadInOrder
  <2>3. IsFiniteSet(now')
    BY FS_AddElement DEF ReadInOrder
  <2> QED BY <2>1, <2>2, <2>3 DEF ReadInOrder
<1>8. TicksAreRemembered'
  <2>1. Remembers(prev_process_ticks, before) /\ Remembers(new_prev_ticks, now)
    BY DEF TicksAreRemembered
  <2>2. new_prev_ticks' \in [Pids -> Nat \union {-1}]
        /\ \A q \in Pids : new_prev_ticks'[q] = IF q = p THEN row.total_ticks ELSE new_prev_ticks[q]
    BY <1>2 DEF TopTypeOK
  <2>3. Remembers(new_prev_ticks', now')
    BY <1>2, <1>6, <2>1, <2>2 DEF Remembers
  <2> QED BY <2>1, <2>3 DEF TicksAreRemembered, Remembers
<1>9. RowsAreHistory'
  BY <1>3 DEF RowsAreHistory, Was
<1>10. RowsAreUsed'
  BY DEF RowsAreUsed, Used, Printed, TopTypeOK
<1> QED BY <1>4, <1>5, <1>7, <1>8, <1>9, <1>10

LEMMA ReadProcessStatKeepsIInv ==
    ASSUME TopIInv, ReadProcessStat, UNCHANGED processes PROVE TopIInv'
<1>1. PICK p \in Unread : 
        LET total == proc[p].ticks
            row == [pid |-> p, birth |-> proc[p].birth, total_ticks |-> total,
                    cpu |-> CalculateCpu(total, PrevTicks(p))]
        IN  /\ Reads(p)
            /\ IF p \in Live /\ refreshes > 0
               THEN phase' = "uid" /\ info' = row /\ UNCHANGED <<at, new_prev_ticks, now>>
               ELSE /\ at' = p /\ UNCHANGED <<phase, info>>
                    /\ new_prev_ticks' = [new_prev_ticks EXCEPT ![p] =
                                            IF p \in Live THEN total ELSE @]
                    /\ now' = IF p \in Live THEN now \union {row} ELSE now
  BY DEF ReadProcessStat
<1>2. PICK row : row = [pid |-> p, birth |-> proc[p].birth, total_ticks |-> proc[p].ticks,
                        cpu |-> CalculateCpu(proc[p].ticks, PrevTicks(p))]
  OBVIOUS
<1>3. /\ phase = "stat" /\ Reads(p)
      /\ UNCHANGED <<process_ids, processes_read, prev_process_ticks, table, refreshes, before>>
  BY <1>1 DEF ReadProcessStat
<1>4. IF p \in Live /\ refreshes > 0
      THEN phase' = "uid" /\ info' = row /\ UNCHANGED <<at, new_prev_ticks, now>>
      ELSE /\ at' = p /\ UNCHANGED <<phase, info>>
           /\ new_prev_ticks' = [new_prev_ticks EXCEPT ![p] = IF p \in Live THEN proc[p].ticks ELSE @]
           /\ now' = IF p \in Live THEN now \union {row} ELSE now
  BY <1>1, <1>2
<1>5. ASSUME p \in Live
      PROVE  row \in Row /\ Was(row) /\ Used(row) /\ row.pid = p /\ row.birth = proc[p].birth
             /\ row.total_ticks = proc[p].ticks
  BY <1>2, <1>3, <1>5, NewRowIsUsed
<1>6. new_prev_ticks \in [Pids -> Nat \union {-1}] /\ refreshes \in Nat
  BY DEF TopIInv, TopTypeOK
<1>7. CASE p \in Live /\ refreshes > 0
  <2>1. /\ phase' = "uid" /\ info' = row /\ UNCHANGED <<at, new_prev_ticks, now, proc, events>>
        /\ row \in Row /\ Was(row) /\ Used(row) /\ row.pid = p /\ row.birth = proc[p].birth
    BY <1>4, <1>5, <1>7 DEF processes
  <2>2. TopTypeOK'
    BY <1>3, <2>1 DEF TopIInv, TopTypeOK, ProcessesOK
  <2>3. NobodyIsSkipped'
    BY <1>3, <2>1 DEF TopIInv, NobodyIsSkipped, Lives, Live, IsIn
  <2>4. ReadInOrder'
    BY <1>3, <2>1 DEF TopIInv, ReadInOrder, Reads, Unread
  <2>5. RowsAreUsed'
    BY <1>3, <1>7, <2>1 DEF TopIInv, RowsAreUsed, Used, Printed
  <2> QED
    BY <1>3, <2>1, <2>2, <2>3, <2>4, <2>5 DEF TopIInv, RowsAreHistory, Was, TicksAreRemembered,
       Remembers
<1>8. CASE p \in Live /\ ~(refreshes > 0)
  <2>1. \A b \in before : FALSE
    BY <1>6, <1>8 DEF TopIInv, RowsAreUsed
  <2> QED
    BY <1>3, <1>4, <1>5, <1>8, <2>1, RowKeepsIInv
<1>9. CASE p \notin Live
  <2>1. new_prev_ticks' = new_prev_ticks
    BY <1>4, <1>6, <1>9
  <2> QED BY <1>3, <1>4, <1>9, <2>1, NoRowKeepsIInv
<1> QED BY <1>7, <1>8, <1>9

LEMMA ReadProcessUidKeepsIInv ==
    ASSUME TopIInv, ReadProcessUid, UNCHANGED processes PROVE TopIInv'
<1>1. /\ phase = "uid" /\ phase' = "stat" /\ at' = info.pid /\ Reads(info.pid)
      /\ UNCHANGED <<process_ids, prev_process_ticks, table, refreshes, before>>
      /\ info \in Row /\ Was(info) /\ Used(info) /\ refreshes > 0
      /\ \A b \in before : Lives(b) /\ b.pid = info.pid => b.birth = info.birth
  BY DEF ReadProcessUid, TopIInv, TopTypeOK, RowsAreHistory, RowsAreUsed, ReadInOrder, NobodyIsSkipped
<1>2. CASE HasUid(info.pid)
  <2>1. /\ new_prev_ticks' = [new_prev_ticks EXCEPT ![info.pid] = info.total_ticks]
        /\ processes_read' = processes_read \union {info} /\ now' = now \union {info}
    BY <1>2 DEF ReadProcessUid
  <2> QED BY <1>1, <2>1, RowKeepsIInv
<1>3. CASE ~HasUid(info.pid)
  BY <1>1, <1>3, NoRowKeepsIInv DEF ReadProcessUid, HasUid
<1> QED BY <1>2, <1>3

LEMMA RefreshedKeepsIInv ==
    ASSUME TopIInv, Refreshed, UNCHANGED processes PROVE TopIInv'
<1> USE DEF TopIInv
<1>1. /\ phase = "stat" /\ Unread = {} /\ phase' = "sleep"
      /\ table' = FirstRows(processes_read)
      /\ prev_process_ticks' = new_prev_ticks /\ new_prev_ticks' = NoTicks
      /\ UNCHANGED <<process_ids, at, info, processes_read, refreshes, before, now, proc, events>>
  BY DEF Refreshed, KeptTicks, processes
<1>2. TopTypeOK'
  BY <1>1 DEF TopTypeOK, ProcessesOK, NoTicks
<1>3. NobodyIsSkipped'
  <2>1. ASSUME NEW b \in before, Lives(b) PROVE IsIn(b, now)
    BY <1>1, <2>1 DEF NobodyIsSkipped, Unread
  <2> QED BY <1>1, <2>1 DEF NobodyIsSkipped, Lives, Live, IsIn
<1>4. RowsAreUsed'
  BY <1>1 DEF RowsAreUsed, Used, Printed, FirstRows, Before
<1> QED
  BY <1>1, <1>2, <1>3, <1>4 DEF RowsAreHistory, Was, TicksAreRemembered, Remembers, ReadInOrder

LEMMA WakeUpKeepsIInv ==
    ASSUME TopIInv, WakeUp, UNCHANGED processes PROVE TopIInv'
<1> USE DEF TopIInv
<1>1. /\ phase = "sleep" /\ phase' = "list" /\ refreshes' = refreshes + 1
      /\ process_ids' = {} /\ at' = 0 /\ processes_read' = {} /\ before' = now /\ now' = {}
      /\ UNCHANGED <<info, prev_process_ticks, new_prev_ticks, table, proc, events>>
  BY DEF WakeUp, processes
<1>2. TopTypeOK'
  BY <1>1 DEF TopTypeOK, ProcessesOK
<1>3. NobodyIsSkipped'
  <2>1. \A b \in now : b.pid > 0
    <3>1. \A p \in Pids : p > 0
      BY PidsAssumption
    <3> QED BY <3>1, RowsHavePids
  <2> QED BY <1>1, <2>1 DEF NobodyIsSkipped
<1>4. RowsAreUsed'
  BY <1>1 DEF RowsAreUsed, Used, Printed, TopTypeOK
<1>5. ReadInOrder'
  BY <1>1, FS_EmptySet DEF ReadInOrder
<1> QED
  BY <1>1, <1>2, <1>3, <1>4, <1>5 DEF RowsAreHistory, Was, TicksAreRemembered, Remembers, NoTicks

LEMMA TopInitIsIInv == ASSUME ProcessesOK, TopInit PROVE TopIInv
<1> USE FS_EmptySet DEF TopInit
<1>1. TopTypeOK
  BY DEF TopTypeOK, NoTicks
<1>2. RowsAreHistory /\ ReadInOrder /\ RowsAreUsed /\ NobodyIsSkipped
  BY DEF RowsAreHistory, ReadInOrder, RowsAreUsed, NobodyIsSkipped, Printed
<1>3. TicksAreRemembered
  BY DEF TicksAreRemembered, Remembers, NoTicks
<1> QED BY <1>1, <1>2, <1>3 DEF TopIInv

(* TopIInv is invariant.                                                        *)
THEOREM TopInvariance == TopSpec => []TopIInv
<1>1. ProcessesOK /\ TopInit => TopIInv
  BY TopInitIsIInv
<1>2. TopIInv /\ [TopNext]_<<processes, topVars>> => TopIInv'
  <2> SUFFICES ASSUME TopIInv, [TopNext]_<<processes, topVars>> PROVE TopIInv'
    OBVIOUS
  <2>1. CASE TopStep /\ UNCHANGED processes
    BY <2>1, ListPidsKeepsIInv, ReadProcessStatKeepsIInv, ReadProcessUidKeepsIInv,
       RefreshedKeepsIInv, WakeUpKeepsIInv DEF TopStep
  <2>2. CASE TopWorld /\ UNCHANGED topVars
    BY <2>2, TopWorldKeepsIInv
  <2>3. CASE UNCHANGED <<processes, topVars>>
    BY <2>3 DEF processes, topVars, TopIInv, TopTypeOK, ProcessesOK, RowsAreHistory, Was,
       TicksAreRemembered, Remembers, ReadInOrder, Reads, Unread, RowsAreUsed, Used, Printed,
       NobodyIsSkipped, Lives, IsIn, Live, FirstRows, Before, NoTicks
  <2> QED BY <2>1, <2>2, <2>3 DEF TopNext, TopWorld
<1> QED BY <1>1, <1>2, PTL DEF TopSpec

-----------------------------------------------------------------------------
(* A row on the screen shows what its process used since the refresh before, *)
(* if it was there then or nobody with its pid was.  One whose pid belonged  *)
(* to another process then may show less than it used, never more.           *)
THEOREM RowsAreTrue == TopSpec => []ShownIsUsed
<1>1. TopIInv => ShownIsUsed
  BY DEF TopIInv, RowsAreUsed, Used, ShownIsUsed, FirstRows
<1> QED BY <1>1, TopInvariance, PTL

-----------------------------------------------------------------------------
(* The order of the table.                                                   *)

Ahead(r, rows) == {s \in rows : Before(s, r)}

OneForEach(rows) ==
    rows \subseteq Row /\ IsFiniteSet(rows) /\ \A r, s \in rows : r.pid = s.pid => r = s

(* One row or the other comes first, and what comes first has fewer ahead.   *)
LEMMA BeforeIsAnOrder ==
    ASSUME NEW rows, OneForEach(rows), NEW r \in rows, NEW s \in rows
    PROVE  /\ r = s \/ Before(r, s) \/ Before(s, r)
           /\ Cardinality(Ahead(r, rows)) \in Nat
           /\ Before(r, s) => s.cpu <= r.cpu
           /\ Before(r, s) => Cardinality(Ahead(r, rows)) < Cardinality(Ahead(s, rows))
<1> DEFINE Number(t) == t.cpu \in Nat /\ t.pid \in Nat
<1>1. \A t \in rows : Number(t)
  <2>1. \A t \in rows : t \in Row
    BY DEF OneForEach
  <2>2. \A t \in Row : t.cpu \in Nat /\ t.pid \in Pids
    BY DEF Row
  <2> QED BY <2>1, <2>2, PidsAssumption
<1>2. r = s \/ Before(r, s) \/ Before(s, r)
  BY <1>1 DEF Before, OneForEach
<1>3. \A t \in rows : IsFiniteSet(Ahead(t, rows)) /\ Cardinality(Ahead(t, rows)) \in Nat
  <2> SUFFICES ASSUME NEW t \in rows
               PROVE  IsFiniteSet(Ahead(t, rows)) /\ Cardinality(Ahead(t, rows)) \in Nat
    OBVIOUS
  <2>1. Ahead(t, rows) \in SUBSET rows
    BY DEF Ahead
  <2> QED BY <2>1, FS_Subset, FS_CardinalityType DEF OneForEach
<1>4. ASSUME Before(r, s) PROVE Cardinality(Ahead(r, rows)) < Cardinality(Ahead(s, rows))
  <2>1. \A t \in rows : Before(t, r) => Before(t, s)
    BY <1>1, <1>4 DEF Before
  <2>2. ~Before(r, r)
    BY <1>1 DEF Before
  <2>3. Ahead(r, rows) \in SUBSET Ahead(s, rows)
    BY <2>1 DEF Ahead
  <2>4. r \in Ahead(s, rows) /\ r \notin Ahead(r, rows)
    BY <1>4, <2>2 DEF Ahead
  <2>5. /\ Cardinality(Ahead(r, rows)) <= Cardinality(Ahead(s, rows))
        /\ Cardinality(Ahead(s, rows)) = Cardinality(Ahead(r, rows)) =>
              Ahead(s, rows) = Ahead(r, rows)
    BY <1>3, <2>3, FS_Subset
  <2> QED BY <1>3, <2>4, <2>5
<1>5. Before(r, s) => s.cpu <= r.cpu
  BY <1>1 DEF Before
<1> QED BY <1>2, <1>3, <1>4, <1>5

(* A row that is cut off is cut off by as many rows as there may be, all of  *)
(* which used as much.                                                       *)
LEMMA CutOffOnlyWhenFull ==
    ASSUME kMaxPrintedRows \in Nat, NEW rows, OneForEach(rows),
           NEW r \in rows, r \notin FirstRows(rows)
    PROVE  /\ Cardinality(FirstRows(rows)) = kMaxPrintedRows
           /\ \A s \in FirstRows(rows) : s.cpu >= r.cpu
<1> DEFINE F == FirstRows(rows)
           Rank(t) == Cardinality(Ahead(t, rows))
<1>1. \A t \in rows : Rank(t) \in Nat /\ (t \in F <=> Rank(t) < kMaxPrintedRows)
  BY BeforeIsAnOrder DEF FirstRows, Ahead
<1>2. F \subseteq rows /\ IsFiniteSet(F) /\ Cardinality(F) \in Nat
  <2>1. F \in SUBSET rows
    BY DEF FirstRows
  <2> QED BY <2>1, FS_Subset, FS_CardinalityType DEF OneForEach
<1>3. \A t, s \in rows : t = s \/ Before(t, s) \/ Before(s, t)
  BY BeforeIsAnOrder
<1>4. \A t, s \in rows : Before(t, s) => s.cpu <= t.cpu /\ Rank(t) < Rank(s)
  BY BeforeIsAnOrder
<1>5. ASSUME NEW s \in F PROVE s.cpu >= r.cpu
  <2>1. s \in rows /\ Rank(s) < Rank(r)
    BY <1>1, <1>2
  <2>2. Before(s, r)
    BY <1>3, <1>4, <1>1, <2>1
  <2>3. s.cpu \in Nat /\ r.cpu \in Nat
    BY <2>1 DEF OneForEach, Row
  <2> QED BY <1>4, <2>1, <2>2, <2>3
<1>6. ~(Cardinality(F) < kMaxPrintedRows)
  <2> SUFFICES ASSUME Cardinality(F) < kMaxPrintedRows PROVE FALSE
    OBVIOUS
  <2> DEFINE ranks == {Rank(t) : t \in rows \ F}
  <2>1. ranks \subseteq Nat /\ ranks # {}
    BY <1>1
  <2>2. PICK m \in ranks : \A n \in ranks : m <= n
    <3> HIDE DEF ranks
    <3> QED BY <2>1, NonemptyHasMin
  <2>3. PICK u \in rows \ F : \A t \in rows \ F : Rank(u) <= Rank(t)
    BY <2>2
  <2>4. Ahead(u, rows) \in SUBSET F
    <3> SUFFICES ASSUME NEW t \in Ahead(u, rows), t \notin F PROVE FALSE
      OBVIOUS
    <3>1. t \in rows /\ Before(t, u)
      BY DEF Ahead
    <3> QED BY <1>1, <1>4, <2>3, <3>1
  <2>5. Rank(u) <= Cardinality(F)
    BY <1>2, <2>4, FS_Subset
  <2> QED BY <1>1, <1>2, <2>3, <2>5
<1>7. Cardinality(F) <= kMaxPrintedRows
  <2>1. CASE F = {}
    BY <2>1, FS_EmptySet
  <2>2. CASE F # {}
    <3> DEFINE gaps == {kMaxPrintedRows - Rank(t) : t \in F}
    <3>1. gaps \subseteq Nat /\ gaps # {}
      BY <1>1, <1>2, <2>2
    <3>2. PICK m \in gaps : \A n \in gaps : m <= n
      <4> HIDE DEF gaps
      <4> QED BY <3>1, NonemptyHasMin
    <3>3. PICK u \in F : \A t \in F : kMaxPrintedRows - Rank(u) <= kMaxPrintedRows - Rank(t)
      BY <3>2
    <3>4. \A t \in F : ~(Rank(u) < Rank(t))
      BY <1>1, <1>2, <3>3
    <3>5. F \ {u} \in SUBSET Ahead(u, rows)
      BY <1>2, <1>3, <1>4, <3>4 DEF Ahead
    <3>6. IsFiniteSet(Ahead(u, rows))
      <4>1. Ahead(u, rows) \in SUBSET rows
        BY DEF Ahead
      <4> QED BY <4>1, FS_Subset DEF OneForEach
    <3>7. Cardinality(F \ {u}) <= Rank(u)
      BY <3>5, <3>6, FS_Subset
    <3>8. Cardinality(F \ {u}) = Cardinality(F) - 1
      BY <1>2, FS_RemoveElement
    <3>9. Rank(u) \in Nat /\ Rank(u) < kMaxPrintedRows
      BY <1>1, <1>2
    <3> QED BY <1>2, <3>7, <3>8, <3>9
  <2> QED BY <2>1, <2>2
<1> QED BY <1>2, <1>5, <1>6, <1>7

(* Nobody who lived through two refreshes is missing from a screen, unless   *)
(* it is full of rows that used as much: the list of pids, the two reads,    *)
(* the order and the cut lose none but those.                                *)
THEOREM BusiestAreShown ==
    ASSUME kMaxPrintedRows \in Nat
    PROVE  TopSpec => []ShowsTheBusiest
<1>1. TopIInv => ShowsTheBusiest
  <2> SUFFICES ASSUME TopIInv, Printed, NEW b \in before, Lives(b)
               PROVE  \E r \in now :
                        /\ r.pid = b.pid /\ r.birth = b.birth
                        /\ r \in table \/ (Cardinality(table) = kMaxPrintedRows
                                            /\ \A s \in table : s.cpu >= r.cpu)
    BY DEF ShowsTheBusiest, Lives
  <2>1. PICK r \in now : r.pid = b.pid /\ r.birth = b.birth
    BY DEF TopIInv, NobodyIsSkipped, Printed, IsIn
  <2>2. table = FirstRows(now) /\ OneForEach(now)
    BY DEF TopIInv, RowsAreUsed, ReadInOrder, TopTypeOK, OneForEach
  <2> QED BY <2>1, <2>2, CutOffOnlyWhenFull
<1> QED BY <1>1, TopInvariance, PTL

-----------------------------------------------------------------------------
(* FindTargets.                                                              *)

FindWorld == ComeAndGo

FindTypeOK ==
    /\ ProcessesOK
    /\ step \in {"list", "name", "parents", "done", "overflow"} /\ all_pids \subseteq Pids /\ cursor \in Nat
    /\ parent_map \in [Pids -> Pids \union {0}]
    /\ start \in [Pids -> Process]

(* start is a family tree, and no state of a process comes twice: forks and  *)
(* execs have numbers.                                                       *)
StartIsPast ==
    /\ start[Initial].parent = 0
    /\ \A S \in SUBSET ({p \in Pids : start[p].live} \ {Initial}) :
          S # {} => \E p \in S : start[p].parent \notin S
    /\ \A p \in Pids : start[p].birth <= proc[p].birth /\ start[p].image <= events

Original(p) == start[p].live /\ proc[p].birth = start[p].birth

(* A parent changes only to init, and what was read of it is what it was.    *)
ParentsAreKnown ==
    /\ proc[Initial].live /\ proc[Initial].parent = 0 /\ parent_map[Initial] = 0
    /\ \A p \in Pids \ {Initial} :
          Original(p) => /\ proc[p].parent \in {start[p].parent, Initial}
                         /\ parent_map[p] \in {0, start[p].parent, Initial}

Steady(p) == p \in Live /\ proc[p] = start[p]

(* Who stays is in the list.                                                 *)
ListedInTime ==
    \A p \in Pids : Steady(p) => p \in all_pids \/ (step = "list" /\ p > cursor)

(* The pids with the name are found up to the one looked at.                 *)
NamedAreFound ==
    \A p \in Pids : Steady(p) /\ start[p].name = exec_name =>
        \/ p \in found
        \/ step = "list"
        \/ step = "name" /\ p > cursor
        \/ step = "parents" /\ p > named
        \/ step = "overflow"

(* And with them those below, but for the one whose descendants are being    *)
(* looked for: of that one the parents are known up to the one read.         *)
ChildrenAreFound ==
    /\ step = "list" => found = {}
    /\ step = "parents" => named \in found /\ named \in Pids
    /\ \A p \in Pids : Steady(p) /\ step # "overflow" =>
          /\ start[p].parent \in found =>
                p \in found \/ (step = "parents" /\ start[p].parent = named)
          /\ step = "parents" /\ p <= cursor => parent_map[p] = start[p].parent

FindIInv == /\ FindTypeOK /\ StartIsPast /\ ParentsAreKnown /\ ListedInTime /\ NamedAreFound
        /\ ChildrenAreFound

-----------------------------------------------------------------------------
(* A set of numbers with 0, and with the next of each up to N, has them all. *)
LEMMA UpTo ==
    ASSUME NEW N \in Nat, NEW S, 0 \in S, \A n \in 0 .. N - 1 : n \in S => n + 1 \in S
    PROVE  0 .. N \subseteq S
<1> SUFFICES ASSUME NEW k \in 0 .. N, k \notin S PROVE FALSE
  OBVIOUS
<1> DEFINE out == {n \in 0 .. N : n \notin S}
<1>1. PICK m \in out : \A n \in out : m <= n
  <2>1. out \subseteq Nat /\ out # {}
    OBVIOUS
  <2> HIDE DEF out
  <2> QED BY <2>1, NonemptyHasMin
<1>2. m # 0 /\ m - 1 \in 0 .. N - 1 /\ ~(m <= m - 1)
  BY <1>1
<1>3. m - 1 \in S
  BY <1>1, <1>2
<1>4. (m - 1) + 1 = m
  BY <1>1
<1> QED BY <1>1, <1>2, <1>3, <1>4

(* A step can be taken again and again.                                      *)
IsStep(next, T) == next \in [T -> T]
Iterates(g, x, next, N, T) ==
    /\ g \in [0 .. N -> T] /\ g[0] = x
    /\ \A n \in 1 .. N : g[n] = next[g[n - 1]]

LEMMA IterationExists ==
    ASSUME NEW T, NEW x \in T, NEW next, IsStep(next, T), NEW N \in Nat
    PROVE  \E g : Iterates(g, x, next, N, T)
<1> USE DEF IsStep, Iterates
<1> DEFINE Upto(m, g) == g \in [0 .. m -> T] /\ g[0] = x /\ \A n \in 1 .. m : g[n] = next[g[n - 1]]
           S == {m \in 0 .. N : \E g : Upto(m, g)}
<1>1. 0 \in S
  <2>1. PICK z : z = [n \in 0 .. 0 |-> x]
    OBVIOUS
  <2>2. z \in [0 .. 0 -> T] /\ z[0] = x
    BY <2>1
  <2>3. Upto(0, z)
    BY <2>2
  <2> QED BY <2>3
<1>2. ASSUME NEW m \in 0 .. N - 1, m \in S PROVE m + 1 \in S
  <2>1. PICK g : Upto(m, g)
    BY <1>2
  <2>2. g[m] \in T
    BY <2>1
  <2>3. PICK h : h = [n \in 0 .. m + 1 |-> IF n = m + 1 THEN next[g[m]] ELSE g[n]]
    OBVIOUS
  <2>4. h \in [0 .. m + 1 -> T] /\ h[0] = x
    BY <2>1, <2>2, <2>3
  <2>5. ASSUME NEW n \in 1 .. m + 1 PROVE h[n] = next[h[n - 1]]
    BY <2>1, <2>3
  <2>6. Upto(m + 1, h)
    BY <2>4, <2>5
  <2> QED BY <2>6
<1>3. N \in S
  <2> HIDE DEF S
  <2> QED BY <1>1, <1>2, UpTo
<1> QED BY <1>3

(* What CollectChildren computes, level by level.                            *)
LEMMA LevelsOf ==
    ASSUME NEW parent \in Pids, NEW parents
    PROVE  \E below \in [0 .. Cardinality(Pids) -> SUBSET Pids] :
              /\ below[0] = {parent}
              /\ \A n \in 1 .. Cardinality(Pids) :
                    below[n] = {p \in Pids : parents[p] \in below[n - 1]}
              /\ CollectChildren(parent, parents) = UNION {below[n] : n \in 1 .. Cardinality(Pids)}
<1> DEFINE N == Cardinality(Pids)
           below[n \in 0 .. N] ==
             IF n = 0 THEN {parent}
             ELSE LET above == below[n - 1] IN {p \in Pids : parents[p] \in above}
<1>1. N \in Nat
  BY PidsAssumption, FS_CardinalityType
<1>2. \E g : g = [n \in 0 .. N |-> IF n = 0 THEN {parent}
                                   ELSE {p \in Pids : parents[p] \in g[n - 1]}]
  <2> HIDE DEF N, below
  <2>1. PICK next : next = [above \in SUBSET Pids |-> {p \in Pids : parents[p] \in above}]
    OBVIOUS
  <2>2. next \in [SUBSET Pids -> SUBSET Pids] /\ {parent} \in SUBSET Pids
    BY <2>1
  <2>3. \E g \in [0 .. N -> SUBSET Pids] :
            g[0] = {parent} /\ \A n \in 1 .. N : g[n] = next[g[n - 1]]
    <3>1. PICK T, x : T = SUBSET Pids /\ x = {parent}
      OBVIOUS
    <3>2. x \in T /\ next \in [T -> T]
      BY <2>2, <3>1
    <3>3. IsStep(next, T)
      BY <3>2 DEF IsStep
    <3>4. PICK g : Iterates(g, x, next, N, T)
      BY <1>1, <3>2, <3>3, IterationExists
    <3> QED BY <3>1, <3>4 DEF Iterates
  <2>4. PICK g \in [0 .. N -> SUBSET Pids] :
            g[0] = {parent} /\ \A n \in 1 .. N : g[n] = next[g[n - 1]]
    BY <2>3
  <2>5. ASSUME NEW n \in 0 .. N
        PROVE  g[n] = IF n = 0 THEN {parent} ELSE {p \in Pids : parents[p] \in g[n - 1]}
    <3>1. CASE n = 0
      BY <2>4, <3>1
    <3>2. CASE n # 0
      <4>1. n \in 1 .. N /\ n - 1 \in 0 .. N
        BY <1>1, <3>2
      <4>2. g[n - 1] \in SUBSET Pids
        BY <4>1
      <4> QED BY <2>1, <2>4, <3>2, <4>1, <4>2
    <3> QED BY <3>1, <3>2
  <2>6. g = [n \in 0 .. N |-> IF n = 0 THEN {parent}
                              ELSE {p \in Pids : parents[p] \in g[n - 1]}]
    BY <2>5
  <2> QED BY <2>6
<1>3. below = [n \in 0 .. N |-> IF n = 0 THEN {parent}
                               ELSE {p \in Pids : parents[p] \in below[n - 1]}]
  BY <1>2
<1>4. CollectChildren(parent, parents) = UNION {below[n] : n \in 1 .. N}
  BY DEF CollectChildren
<1> HIDE DEF below
<1>5. below[0] = {parent} /\ \A n \in 1 .. N : below[n] = {p \in Pids : parents[p] \in below[n - 1]}
  <2> DEFINE same == [n \in 0 .. N |-> IF n = 0 THEN {parent}
                                      ELSE {p \in Pids : parents[p] \in below[n - 1]}]
  <2>1. same[0] = {parent} /\ \A n \in 1 .. N : same[n] = {p \in Pids : parents[p] \in below[n - 1]}
    BY <1>1
  <2>2. below = same
    BY <1>3, Zenon
  <2> HIDE DEF same
  <2> QED BY <2>1, <2>2, Zenon
<1>6. below \in [0 .. N -> SUBSET Pids]
  <2>1. \A n \in 0 .. N : below[n] \in SUBSET Pids
    BY <1>5, <1>1
  <2>2. DOMAIN below = 0 .. N /\ below = [n \in DOMAIN below |-> below[n]]
    BY <1>3
  <2> QED BY <2>1, <2>2
<1> QED BY <1>4, <1>5, <1>6

(* The recursion is as deep as it need be: who has a parent among those      *)
(* collected is collected.                                                   *)
LEMMA CollectedWithChildren ==
    ASSUME NEW parent \in Pids, NEW parents, NEW child \in Pids,
           parents[child] \in {parent} \union CollectChildren(parent, parents)
    PROVE  child \in {parent} \union CollectChildren(parent, parents)
<1> DEFINE N == Cardinality(Pids)
<1>1. PICK below \in [0 .. N -> SUBSET Pids] :
        /\ below[0] = {parent}
        /\ \A n \in 1 .. N : below[n] = {p \in Pids : parents[p] \in below[n - 1]}
        /\ CollectChildren(parent, parents) = UNION {below[n] : n \in 1 .. N}
  BY LevelsOf
<1>2. N \in Nat
  BY PidsAssumption, FS_CardinalityType
<1> HIDE DEF N
<1> DEFINE Down(n) == UNION {below[k] : k \in 0 .. n}
           Stable(n) == \A q \in Pids : parents[q] \in Down(n) => q \in Down(n)
           S == {n \in 0 .. N : Stable(n) \/ Cardinality(Down(n)) >= n + 1}
<1>3. ASSUME NEW n \in 0 .. N
      PROVE  Down(n) \subseteq Pids /\ IsFiniteSet(Down(n)) /\ Cardinality(Down(n)) \in Nat
             /\ Cardinality(Down(n)) <= Cardinality(Pids)
  <2>1. \A k \in 0 .. n : k \in 0 .. N
    BY <1>2
  <2>2. Down(n) \in SUBSET Pids
    BY <2>1
  <2> QED BY <2>2, PidsAssumption, FS_Subset, FS_CardinalityType
<1>4. 0 \in S
  <2>1. Down(0) = {parent}
    BY <1>1, <1>2
  <2>2. Cardinality({parent}) = 1
    BY FS_Singleton
  <2>3. Cardinality(Down(0)) >= 0 + 1
    <3> HIDE DEF Down
    <3> QED BY <2>1, <2>2
  <2> HIDE DEF Down, Stable
  <2> QED BY <1>2, <2>3
<1>5. ASSUME NEW n \in 0 .. N - 1, n \in S PROVE n + 1 \in S
  <2>1. n \in Nat /\ n \in 0 .. N /\ n + 1 \in 1 .. N /\ n + 1 \in 0 .. N /\ (n + 1) - 1 = n
    BY <1>2
  <2>2. below[n + 1] = {p \in Pids : parents[p] \in below[n]}
    BY <1>1, <2>1
  <2>3. Down(n + 1) = Down(n) \union below[n + 1] /\ below[n] \subseteq Down(n)
    BY <2>1
  <2>4. CASE Stable(n)
    <3>1. Down(n + 1) = Down(n)
      BY <2>2, <2>3, <2>4
    <3>2. Stable(n + 1)
      <4> HIDE DEF Down
      <4> QED BY <2>4, <3>1
    <3> QED BY <2>1, <3>2
  <2>5. CASE ~Stable(n)
    <3>1. PICK q \in Pids : parents[q] \in Down(n) /\ q \notin Down(n)
      BY <2>5
    <3>2. PICK k \in 0 .. n : parents[q] \in below[k]
      BY <3>1
    <3>3. k + 1 \in 1 .. N /\ k + 1 \in 0 .. n + 1 /\ (k + 1) - 1 = k
      BY <1>2, <2>1
    <3>4. q \in below[k + 1]
      BY <1>1, <3>2, <3>3
    <3>5. q \in Down(n + 1)
      BY <3>3, <3>4
    <3>6. Down(n) \union {q} \in SUBSET Down(n + 1)
      BY <2>3, <3>5
    <3>7. Cardinality(Down(n)) >= n + 1
      BY <2>5, <1>5
    <3>8. IsFiniteSet(Down(n)) /\ Cardinality(Down(n)) \in Nat /\ IsFiniteSet(Down(n + 1))
          /\ Cardinality(Down(n + 1)) \in Nat
      BY <1>3, <2>1
    <3>9. Cardinality(Down(n) \union {q}) = Cardinality(Down(n)) + 1
      <4> HIDE DEF Down
      <4> QED BY <3>1, <3>8, FS_AddElement
    <3>10. Cardinality(Down(n) \union {q}) <= Cardinality(Down(n + 1))
      BY <3>6, <3>8, FS_Subset
    <3>11. Cardinality(Down(n + 1)) >= (n + 1) + 1
      BY <2>1, <3>7, <3>8, <3>9, <3>10
    <3> QED BY <2>1, <3>11
  <2> QED BY <2>4, <2>5
<1>6. N \in S
  <2>1. 0 .. N \subseteq S
    <3> HIDE DEF S
    <3> QED BY <1>2, <1>4, <1>5, UpTo
  <2> HIDE DEF S
  <2> QED BY <1>2, <2>1
<1>7. Stable(N)
  <2>1. Cardinality(Down(N)) \in Nat /\ Cardinality(Down(N)) <= N
    <3>1. N \in 0 .. N
      BY <1>2
    <3> HIDE DEF Down
    <3> QED BY <1>3, <3>1 DEF N
  <2> HIDE DEF Down
  <2> QED BY <1>2, <1>6, <2>1
<1>8. Down(N) = {parent} \union CollectChildren(parent, parents)
  BY <1>1, <1>2
<1> QED BY <1>7, <1>8

-----------------------------------------------------------------------------
(* What the processes do.                                                    *)

LEMMA FindWorldKeepsType == ASSUME ProcessesOK, FindWorld PROVE ProcessesOK'
<1>1. ASSUME NEW p \in Live, Fork(p) PROVE ProcessesOK'
  BY <1>1, PidsAssumption DEF ProcessesOK, Process, Fork, Happens, Live
<1>2. ASSUME NEW p \in Live, Exec(p) PROVE ProcessesOK'
  BY <1>2 DEF ProcessesOK, Process, Exec, Happens, Live
<1>3. ASSUME NEW p \in Live, Exit(p) PROVE ProcessesOK'
  <2>1. events' \in Nat /\ events' >= events
    BY <1>3 DEF ProcessesOK, Exit, Happens
  <2>2. ASSUME NEW q \in Pids
        PROVE  proc'[q] \in Process /\ proc'[q].birth = proc[q].birth
               /\ proc'[q].image = proc[q].image
    BY <1>3, PidsAssumption DEF ProcessesOK, Process, Exit
  <2>3. proc' \in [Pids -> Process]
    BY <1>3, <2>2 DEF Exit
  <2> QED BY <2>1, <2>2, <2>3 DEF ProcessesOK, Process
<1> QED BY <1>1, <1>2, <1>3 DEF FindWorld, ComeAndGo

(* What one event does to a process: nothing; it is new; it has a new image; *)
(* it is gone; or init adopts it.                                            *)
LEMMA WhatHappens ==
    ASSUME ProcessesOK, FindWorld, proc[Initial].live, NEW q \in Pids
    PROVE  LET old == proc[q]  new == proc'[q]
           IN  /\ events' = events + 1
               /\ \/ new = old
                  \/ q # Initial /\ new.birth = events'
                  \/ /\ new.birth = old.birth /\ new.live = old.live /\ new.parent = old.parent
                     /\ new.image = events'
                  \/ /\ q # Initial
                     /\ new.birth = old.birth /\ ~new.live /\ new.parent = old.parent
                     /\ new.image = old.image
                  \/ /\ old.parent \in Pids \ {Initial}
                     /\ new.birth = old.birth /\ new.live = old.live /\ new.parent = Initial
                     /\ new.image = old.image
<1> DEFINE old == proc[q]  new == proc'[q]
<1>1. ASSUME NEW p \in Live, Fork(p)
      PROVE  /\ events' = events + 1
             /\ new = old \/ (q # Initial /\ new.birth = events')
  BY <1>1, PidsAssumption DEF ProcessesOK, Process, Fork, Happens, Live
<1>2. ASSUME NEW p \in Live, Exec(p)
      PROVE  /\ events' = events + 1
             /\ \/ new = old
                \/ /\ new.birth = old.birth /\ new.live = old.live /\ new.parent = old.parent
                   /\ new.image = events'
  BY <1>2 DEF ProcessesOK, Process, Exec, Happens, Live
<1>3. ASSUME NEW p \in Live, Exit(p)
      PROVE  /\ events' = events + 1
             /\ \/ new = old
                \/ /\ q # Initial
                   /\ new.birth = old.birth /\ ~new.live /\ new.parent = old.parent
                   /\ new.image = old.image
                \/ /\ old.parent \in Pids \ {Initial}
                   /\ new.birth = old.birth /\ new.live = old.live /\ new.parent = Initial
                   /\ new.image = old.image
  BY <1>3 DEF ProcessesOK, Process, Exit, Happens, Live
<1> QED BY <1>1, <1>2, <1>3 DEF FindWorld, ComeAndGo

LEMMA FindWorldKeepsIInv == ASSUME FindIInv, FindWorld, UNCHANGED findVars PROVE FindIInv'
<1> USE DEF FindIInv
<1>1. /\ UNCHANGED <<step, all_pids, cursor, named, parent_map, found, start>>
      /\ ProcessesOK /\ ProcessesOK' /\ proc[Initial].live
  BY FindWorldKeepsType DEF findVars, FindTypeOK, ParentsAreKnown
<1>2. FindTypeOK'
  BY <1>1 DEF FindTypeOK
<1>3. ASSUME NEW p \in Pids
      PROVE  /\ proc[p].birth \in Nat /\ proc'[p].birth \in Nat /\ start[p].birth \in Nat
             /\ start[p].image \in Nat
             /\ events \in Nat /\ proc[p].birth <= events /\ proc[p].image <= events
             /\ start[p].birth <= proc[p].birth /\ start[p].image <= events
  BY <1>1 DEF FindTypeOK, ProcessesOK, StartIsPast, Process
<1>4. ASSUME NEW p \in Pids
      PROVE  /\ start[p].birth <= proc'[p].birth /\ start[p].image <= events'
             /\ proc'[p].birth = start[p].birth =>
                   /\ proc[p].birth = start[p].birth
                   /\ proc'[p].parent \in {proc[p].parent, Initial}
  BY <1>1, <1>3, WhatHappens
<1>5. StartIsPast'
  BY <1>1, <1>4 DEF StartIsPast
<1>6. proc'[Initial].live /\ proc'[Initial].parent = 0
  <2>1. proc[Initial].parent = 0 /\ 0 \notin Pids
    BY PidsAssumption DEF ParentsAreKnown
  <2>2. Initial \in Pids
    BY PidsAssumption
  <2> QED BY <1>1, <2>1, <2>2, WhatHappens
<1>7. ParentsAreKnown'
  BY <1>1, <1>4, <1>6 DEF ParentsAreKnown, Original
<1>8. ASSUME NEW p \in Pids, Steady(p)' PROVE Steady(p)
  <2>1. proc'[p] = start[p] /\ proc'[p].live /\ start[p].live
    BY <1>1, <1>8 DEF Steady, Live
  <2>2. p # Initial => proc[p].parent \in {start[p].parent, Initial}
    BY <1>4, <2>1 DEF ParentsAreKnown, Original
  <2>3. p = Initial => proc[p].parent = 0
    BY DEF ParentsAreKnown
  <2>4. proc[p] = start[p]
    <3>1. proc'[p].birth = start[p].birth /\ proc'[p].image = start[p].image
          /\ proc'[p].parent = start[p].parent /\ proc'[p].live
      BY <2>1
    <3>2. 0 \notin Pids
      BY PidsAssumption
    <3>3. start[p].birth # events + 1 /\ start[p].image # events + 1
      BY <1>3
    <3>4. proc'[p] = proc[p]
      BY <1>1, <2>2, <2>3, <3>1, <3>2, <3>3, WhatHappens
    <3> QED BY <2>1, <3>4
  <2> QED BY <2>1, <2>4 DEF Steady, Live
<1>9. ListedInTime' /\ NamedAreFound' /\ ChildrenAreFound'
  BY <1>1, <1>8 DEF ListedInTime, NamedAreFound, ChildrenAreFound
<1> QED BY <1>2, <1>5, <1>7, <1>9

-----------------------------------------------------------------------------
(* What the search does.                                                     *)

(* There is a next pid of the list unless all are done.                      *)
LEMMA NoneFollows ==
    ASSUME FindTypeOK, ~\E p \in all_pids : Following(p), NEW q \in all_pids
    PROVE  q <= cursor
<1> SUFFICES ASSUME q > cursor PROVE FALSE
  BY PidsAssumption DEF FindTypeOK
<1> DEFINE rest == {p \in all_pids : p > cursor}
<1>1. rest \subseteq Nat /\ rest # {}
  BY PidsAssumption DEF FindTypeOK
<1>2. PICK m \in rest : \A n \in rest : m <= n
  <2> HIDE DEF rest
  <2> QED BY <1>1, NonemptyHasMin
<1> QED BY <1>2 DEF Following

(* A step of the search that changes neither start nor what was read of      *)
(* parents keeps what is known of them.                                      *)
LEMMA PastIsKept ==
    ASSUME FindIInv, UNCHANGED processes, UNCHANGED start,
           parent_map' \in {parent_map, NoParents}
    PROVE  StartIsPast' /\ ParentsAreKnown' /\ ProcessesOK' /\ start' \in [Pids -> Process]
           /\ parent_map' \in [Pids -> Pids \union {0}] /\ \A p : Steady(p)' <=> Steady(p)
<1>1. UNCHANGED <<proc, events, start>>
  BY DEF processes
<1>2. ParentsAreKnown'
  BY <1>1, PidsAssumption DEF FindIInv, ParentsAreKnown, Original, NoParents, FindTypeOK
<1> QED
  BY <1>1, <1>2 DEF FindIInv, StartIsPast, FindTypeOK, ProcessesOK, NoParents, Steady, Live

LEMMA ListAllPidsKeepsIInv == ASSUME FindIInv, ListAllPids, UNCHANGED processes PROVE FindIInv'
<1> USE DEF FindIInv
<1>1. /\ step = "list" /\ UNCHANGED <<named, parent_map, found, start>>
      /\ StartIsPast' /\ ParentsAreKnown' /\ ProcessesOK' /\ start' \in [Pids -> Process]
      /\ parent_map' \in [Pids -> Pids \union {0}] /\ \A p : Steady(p)' <=> Steady(p)
      /\ found = {}
  BY PastIsKept DEF ListAllPids, ChildrenAreFound
<1>2. CASE NextPid(cursor) # 0
  <2>1. /\ cursor' \in Live /\ \A q \in Live : q > cursor => cursor' <= q
        /\ all_pids' = all_pids \union {cursor'} /\ step' = step
    BY <1>2, NextPidIs DEF ListAllPids
  <2>2. cursor' \in Pids /\ cursor' \in Nat
    BY <2>1, PidsAssumption DEF Live
  <2>3. FindTypeOK'
    BY <1>1, <2>1, <2>2 DEF FindTypeOK
  <2>4. ASSUME NEW p \in Pids, Steady(p) PROVE p \in all_pids' \/ p > cursor'
    <3>1. p \in Live /\ p \in Nat /\ (p \in all_pids \/ p > cursor)
      BY <2>4, PidsAssumption DEF ListedInTime, Steady
    <3> QED BY <2>1, <2>2, <3>1
  <2>5. ListedInTime' /\ NamedAreFound' /\ ChildrenAreFound'
    BY <1>1, <2>1, <2>4 DEF ListedInTime, NamedAreFound, ChildrenAreFound
  <2> QED BY <1>1, <2>3, <2>5
<1>3. CASE NextPid(cursor) = 0
  <2>1. cursor' = 0 /\ step' = "name" /\ all_pids' = all_pids /\ \A p \in Live : ~(p > cursor)
    BY <1>3, NextPidIs, PidsAssumption DEF ListAllPids, Live
  <2>2. FindTypeOK'
    BY <1>1, <2>1 DEF FindTypeOK
  <2>3. ASSUME NEW p \in Pids, Steady(p) PROVE p \in all_pids /\ p > cursor'
    <3>1. p \in Live /\ (p \in all_pids \/ p > cursor)
      BY <1>1, <2>3 DEF ListedInTime, Steady
    <3>2. p > 0
      BY PidsAssumption
    <3> QED BY <2>1, <3>1, <3>2
  <2>4. ListedInTime' /\ NamedAreFound' /\ ChildrenAreFound'
    BY <1>1, <2>1, <2>3 DEF ListedInTime, NamedAreFound, ChildrenAreFound
  <2> QED BY <1>1, <2>2, <2>4
<1> QED BY <1>2, <1>3

LEMMA ReadExecutableNameKeepsIInv ==
    ASSUME FindIInv, ReadExecutableName, UNCHANGED processes PROVE FindIInv'
<1> USE DEF FindIInv
<1>1. PICK p \in all_pids :
        /\ Following(p)
        /\ IF HasName(p) /\ p \notin found
           THEN /\ found' = found \union {p} /\ named' = p
                /\ step' = "parents" /\ cursor' = 0
           ELSE cursor' = p /\ UNCHANGED <<found, named, step>>
  BY DEF ReadExecutableName
<1>2. /\ step = "name" /\ UNCHANGED <<all_pids, parent_map, start>>
      /\ StartIsPast' /\ ParentsAreKnown' /\ ProcessesOK' /\ start' \in [Pids -> Process]
      /\ parent_map' \in [Pids -> Pids \union {0}] /\ \A q : Steady(q)' <=> Steady(q)
  BY PastIsKept DEF ReadExecutableName
<1>3. p \in Pids /\ p \in Nat /\ cursor \in Nat /\ \A q \in all_pids : q > cursor => p <= q
  BY <1>1, PidsAssumption DEF FindTypeOK, Following
<1>4. ASSUME NEW q \in Pids, Steady(q)
      PROVE  /\ q \in all_pids /\ q \in Nat /\ q > 0
             /\ start[q].name = exec_name => q \in found \/ q > cursor
             /\ q \in found \/ start[q].parent \notin found
             /\ start[q].name = exec_name => HasName(q)
  BY <1>2, <1>4, PidsAssumption DEF ListedInTime, NamedAreFound, ChildrenAreFound, HasName, Steady
<1>5. CASE HasName(p) /\ p \notin found
  <2>1. found' = found \union {p} /\ named' = p /\ step' = "parents" /\ cursor' = 0
    BY <1>1, <1>5
  <2>2. FindTypeOK'
    BY <1>2, <2>1 DEF FindTypeOK
  <2>3. ListedInTime'
    BY <1>2, <1>4, <2>1 DEF ListedInTime
  <2>4. NamedAreFound'
    <3>1. ASSUME NEW q \in Pids, Steady(q), start[q].name = exec_name
          PROVE  q \in found' \/ q > p
      <4>1. q \in Nat /\ (q \in found \/ q > cursor) /\ HasName(q)  BY <1>4, <3>1
      <4>2. CASE q \in found  BY <4>2, <2>1
      <4>3. CASE q > cursor
        <5>1. p <= q  BY <1>3, <1>4, <3>1, <4>3
        <5>2. q = p \/ q > p  BY <1>3, <4>1, <5>1
        <5>3. QED  BY <4>1, <5>2, <2>1
      <4>4. QED  BY <4>1, <4>2, <4>3
    <3> QED BY <1>2, <2>1, <3>1 DEF NamedAreFound
  <2>5. ChildrenAreFound'
    <3>1. ASSUME NEW q \in Pids, Steady(q) PROVE ~(q <= 0)
      BY <1>4, <3>1
    <3> QED BY <1>2, <1>3, <1>4, <2>1, <3>1 DEF ChildrenAreFound
  <2> QED BY <1>2, <2>2, <2>3, <2>4, <2>5
<1>6. CASE ~(HasName(p) /\ p \notin found)
  <2>1. cursor' = p /\ UNCHANGED <<found, named, step>>
    BY <1>1, <1>6
  <2>2. FindTypeOK'
    BY <1>2, <1>3, <2>1 DEF FindTypeOK
  <2>3. ListedInTime'
    BY <1>2, <1>4, <2>1 DEF ListedInTime
  <2>4. NamedAreFound'
    <3>1. ASSUME NEW q \in Pids, Steady(q), start[q].name = exec_name
          PROVE  q \in found \/ q > p
      <4>1. q \in Nat /\ (q \in found \/ q > cursor) /\ HasName(q)  BY <1>4, <3>1
      <4>2. CASE q \in found  BY <4>2
      <4>3. CASE q > cursor
        <5>1. p <= q  BY <1>3, <1>4, <3>1, <4>3
        <5>2. q = p \/ q > p  BY <1>3, <4>1, <5>1
        <5>3. QED  BY <4>1, <5>2, <1>6
      <4>4. QED  BY <4>1, <4>2, <4>3
    <3> QED BY <1>2, <2>1, <3>1 DEF NamedAreFound
  <2>5. ChildrenAreFound'
    BY <1>2, <1>4, <2>1 DEF ChildrenAreFound
  <2> QED BY <1>2, <2>2, <2>3, <2>4, <2>5
<1> QED BY <1>5, <1>6

LEMMA ReadPpidKeepsIInv == ASSUME FindIInv, ReadPpid, UNCHANGED processes PROVE FindIInv'
<1> USE DEF FindIInv
<1>1. PICK p \in all_pids :
        /\ Following(p) /\ cursor' = p
        /\ parent_map' = IF p \in Live THEN [parent_map EXCEPT ![p] = PpidOf(p)] ELSE parent_map
  BY DEF ReadPpid
<1>2. /\ step = "parents" /\ UNCHANGED <<step, all_pids, named, found, start, proc, events>>
  BY DEF ReadPpid, processes
<1>3. p \in Pids /\ p \in Nat /\ cursor \in Nat /\ \A q \in all_pids : q > cursor => p <= q
  BY <1>1, PidsAssumption DEF FindTypeOK, Following
<1>4. proc[p].parent \in Pids \union {0} /\ parent_map \in [Pids -> Pids \union {0}]
  BY <1>3 DEF FindTypeOK, ProcessesOK, Process
<1>5. ASSUME NEW q \in Pids
      PROVE  parent_map'[q] = IF p \in Live /\ q = p THEN proc[p].parent ELSE parent_map[q]
  BY <1>1, <1>4 DEF PpidOf
<1>6. FindTypeOK'
  <2>1. parent_map' \in [Pids -> Pids \union {0}]
    BY <1>1, <1>3, <1>4 DEF PpidOf
  <2> QED BY <1>1, <1>2, <1>3, <2>1 DEF FindTypeOK, ProcessesOK
<1>7. StartIsPast' /\ ListedInTime' /\ NamedAreFound'
  BY <1>2 DEF StartIsPast, ListedInTime, NamedAreFound, Steady, Live
<1>8. ParentsAreKnown'
  BY <1>2, <1>5, PidsAssumption DEF ParentsAreKnown, Original
<1>9. ChildrenAreFound'
  <2>1. ASSUME NEW q \in Pids, Steady(q), q <= p PROVE parent_map'[q] = start[q].parent
    <3>1. q \in all_pids /\ q \in Live /\ proc[q] = start[q] /\ q \in Nat
      BY <1>2, <2>1, PidsAssumption DEF ListedInTime, Steady
    <3>2. q = p \/ q <= cursor
      BY <1>3, <2>1, <3>1
    <3>3. CASE q = p
      BY <1>5, <3>1, <3>3
    <3>4. CASE q # p
      BY <1>2, <1>5, <2>1, <3>2, <3>4 DEF ChildrenAreFound
    <3> QED BY <3>3, <3>4
  <2> QED BY <1>1, <1>2, <2>1 DEF ChildrenAreFound, Steady, Live
<1> QED BY <1>6, <1>7, <1>8, <1>9

LEMMA GetDescendantsKeepsIInv ==
    ASSUME FindIInv, GetDescendants, UNCHANGED processes PROVE FindIInv'
<1> USE DEF FindIInv
<1>1. /\ step = "parents" /\ step' = "name"
      /\ ~\E p \in all_pids : Following(p)
      /\ found' = found \union CollectChildren(named, parent_map)
      /\ cursor' = named /\ parent_map' = NoParents
      /\ UNCHANGED <<all_pids, named, start>>
  BY DEF GetDescendants
<1>2. /\ StartIsPast' /\ ParentsAreKnown' /\ ProcessesOK' /\ start' \in [Pids -> Process]
      /\ parent_map' \in [Pids -> Pids \union {0}] /\ \A q : Steady(q)' <=> Steady(q)
  BY <1>1, PastIsKept
<1>3. named \in found /\ named \in Pids /\ named \in Nat
  BY <1>1, PidsAssumption DEF ChildrenAreFound
<1>4. FindTypeOK'
  BY <1>1, <1>2, <1>3 DEF FindTypeOK
<1>5. ListedInTime' /\ NamedAreFound'
  BY <1>1, <1>2 DEF ListedInTime, NamedAreFound
<1>6. ASSUME NEW q \in Pids, Steady(q), start[q].parent \in found' PROVE q \in found'
  <2>1. q \in all_pids /\ q <= cursor
    BY <1>1, <1>6, NoneFollows DEF ListedInTime
  <2>2. parent_map[q] = start[q].parent
    BY <1>1, <1>6, <2>1 DEF ChildrenAreFound
  <2>3. CASE start[q].parent \in found /\ start[q].parent # named
    BY <1>1, <1>6, <2>3 DEF ChildrenAreFound
  <2>4. CASE start[q].parent \in {named} \union CollectChildren(named, parent_map)
    BY <1>1, <1>3, <2>2, <2>4, CollectedWithChildren
  <2> QED BY <1>1, <1>6, <2>3, <2>4
<1>7. ChildrenAreFound'
  BY <1>1, <1>2, <1>6 DEF ChildrenAreFound
<1> QED BY <1>2, <1>4, <1>5, <1>7

LEMMA FoundKeepsIInv == ASSUME FindIInv, Found, UNCHANGED processes PROVE FindIInv'
<1> USE DEF FindIInv
<1>1. /\ step = "name" /\ step' = "done"
      /\ ~\E p \in all_pids : Following(p)
      /\ UNCHANGED <<all_pids, cursor, named, parent_map, found, start>>
      /\ StartIsPast' /\ ParentsAreKnown' /\ ProcessesOK' /\ start' \in [Pids -> Process]
      /\ parent_map' \in [Pids -> Pids \union {0}] /\ \A q : Steady(q)' <=> Steady(q)
  BY PastIsKept DEF Found
<1>2. FindTypeOK'
  BY <1>1 DEF FindTypeOK
<1>3. NamedAreFound'
  <2>1. ASSUME NEW q \in Pids, Steady(q), start[q].name = exec_name PROVE q \in found
    <3>1. q \in all_pids /\ q <= cursor /\ q \in Nat /\ cursor \in Nat
      BY <1>1, <2>1, NoneFollows, PidsAssumption DEF ListedInTime, FindTypeOK
    <3>2. q \in found \/ q > cursor
      BY <1>1, <2>1 DEF NamedAreFound
    <3> QED BY <3>1, <3>2
  <2> QED BY <1>1, <2>1 DEF NamedAreFound
<1>4. ListedInTime' /\ ChildrenAreFound'
  BY <1>1 DEF ListedInTime, ChildrenAreFound
<1> QED BY <1>1, <1>2, <1>3, <1>4

LEMMA FindInitIsIInv == ASSUME ProcessesOK, FamilyTree, FindInit PROVE FindIInv
<1> USE DEF FindInit
<1>1. FindTypeOK
  BY DEF FindTypeOK, ProcessesOK, NoParents
<1>2. StartIsPast
  BY <1>1, PidsAssumption DEF StartIsPast, FamilyTree, FindTypeOK, ProcessesOK, Process, Live
<1>3. ParentsAreKnown
  BY PidsAssumption DEF ParentsAreKnown, FamilyTree, NoParents
<1>4. ListedInTime /\ NamedAreFound /\ ChildrenAreFound
  <2>1. \A p \in Pids : p > 0
    BY PidsAssumption
  <2> QED BY <2>1 DEF ListedInTime, NamedAreFound, ChildrenAreFound
<1> QED BY <1>1, <1>2, <1>3, <1>4 DEF FindIInv

LEMMA RecursionOverflowsKeepsIInv ==
    ASSUME FindIInv, RecursionOverflows, UNCHANGED processes PROVE FindIInv'
<1> USE DEF FindIInv
<1>1. /\ step' = "overflow"
      /\ UNCHANGED <<all_pids, cursor, named, parent_map, found, start>>
      /\ StartIsPast' /\ ParentsAreKnown' /\ ProcessesOK' /\ start' \in [Pids -> Process]
      /\ parent_map' \in [Pids -> Pids \union {0}] /\ \A q : Steady(q)' <=> Steady(q)
  BY PastIsKept DEF RecursionOverflows
<1>2. FindTypeOK'
  BY <1>1 DEF FindTypeOK
<1>3. ListedInTime' /\ NamedAreFound' /\ ChildrenAreFound'
  <2>1. step = "parents"
    BY DEF RecursionOverflows
  <2> QED BY <1>1, <2>1 DEF ListedInTime, NamedAreFound, ChildrenAreFound
<1> QED BY <1>1, <1>2, <1>3

(* FindIInv is invariant.                                                        *)
THEOREM FindInvariance == FindSpec => []FindIInv
<1>1. ProcessesOK /\ FamilyTree /\ FindInit => FindIInv
  BY FindInitIsIInv
<1>2. FindIInv /\ [FindNext]_<<processes, findVars, again>> => FindIInv'
  <2> SUFFICES ASSUME FindIInv, [FindNext]_<<processes, findVars, again>> PROVE FindIInv'
    OBVIOUS
  <2>1. CASE FindStep /\ UNCHANGED <<processes, again>>
    BY <2>1, ListAllPidsKeepsIInv, ReadExecutableNameKeepsIInv, ReadPpidKeepsIInv,
       GetDescendantsKeepsIInv, RecursionOverflowsKeepsIInv, FoundKeepsIInv DEF FindStep
  <2>2. CASE ComeAndGo /\ PidsUsedAgain /\ UNCHANGED findVars
    BY <2>2, FindWorldKeepsIInv DEF FindWorld
  <2>3. CASE UNCHANGED <<processes, findVars, again>>
    BY <2>3 DEF processes, findVars, FindIInv, FindTypeOK, ProcessesOK, StartIsPast, ParentsAreKnown,
       Original, ListedInTime, NamedAreFound, ChildrenAreFound, Steady, Live
  <2> QED BY <2>1, <2>2, <2>3 DEF FindNext
<1> QED BY <1>1, <1>2, PTL DEF FindSpec

-----------------------------------------------------------------------------
(* The recursion of CollectChildren.  Who has a pid nobody else had since the *)
(* search began is original, or was born later than its parent, or its       *)
(* parent is init.                                                           *)

Originals == {p \in Pids : start[p].live}
Newborn(p) == proc[p].birth # start[p].birth

StartIsLive == \A p \in Originals \ {Initial} : start[p].parent \in Originals \union {0}
OriginalsStay == \A p \in Originals \ again : ~Newborn(p)

YoungerThanParents ==
    \A p \in Live :
        /\ p \in Originals \/ Newborn(p)
        /\ Newborn(p) => LET q == proc[p].parent
                         IN  q = Initial \/ (q \in Live /\ proc[q].birth < proc[p].birth)

(* What is read of a parent stays true as long as the two pids are not used  *)
(* again.                                                                    *)
OlderParent(p, q) ==
    \/ q = Initial \/ q \in again \/ q \in Originals
    \/ q \in Pids /\ Newborn(q) /\ proc[q].birth < proc[p].birth
ParentsAreOlder ==
    \A p \in Pids \ again :
        p \notin Originals /\ parent_map[p] # 0 => Newborn(p) /\ OlderParent(p, parent_map[p])

NamedIsBelowItself ==
    step = "overflow" => named \in Pids /\ named \in CollectChildren(named, parent_map)

AgainInv == /\ StartIsLive /\ OriginalsStay /\ YoungerThanParents /\ ParentsAreOlder
            /\ NamedIsBelowItself

LEMMA FindInitIsAgainInv == ASSUME ProcessesOK, FamilyTree, FindInit PROVE AgainInv
BY DEF FindInit, FamilyTree, NoParents, AgainInv, StartIsLive, OriginalsStay, Newborn, Originals,
   YoungerThanParents, ParentsAreOlder, NamedIsBelowItself, Live

(* A child of the living stays one, or is adopted by init.                   *)
LEMMA WorldKeepsYounger ==
    ASSUME FindIInv, YoungerThanParents, ComeAndGo, UNCHANGED start
    PROVE  YoungerThanParents'
<1>1. /\ ProcessesOK /\ ProcessesOK' /\ proc[Initial].live /\ Initial \in Pids
      /\ \A p \in Pids : start[p].birth <= proc[p].birth /\ start[p].birth \in Nat
  BY FindWorldKeepsType, PidsAssumption
     DEF FindIInv, FindTypeOK, ParentsAreKnown, StartIsPast, FindWorld, Process
<1>2. ASSUME NEW p \in Pids
      PROVE  /\ proc[p].birth \in Nat /\ proc'[p].birth \in Nat /\ proc[p].birth <= events
             /\ events \in Nat /\ proc[p].parent \in Pids \union {0}
  BY <1>1 DEF ProcessesOK, Process
<1>3. Live \subseteq Pids /\ Live' \subseteq Pids
  BY DEF Live
<1>4. ASSUME NEW parent \in Live, Fork(parent) PROVE YoungerThanParents'
  <2>1. PICK n \in Pids \ Live :
          proc' = [proc EXCEPT ![n] =
                    [live |-> TRUE, parent |-> parent, name |-> proc[parent].name,
                     ticks |-> 0, birth |-> events', image |-> 0]]
    BY <1>4 DEF Fork
  <2>2. /\ proc'[n].live /\ proc'[n].parent = parent /\ proc'[n].birth = events + 1
        /\ \A p \in Pids \ {n} : proc'[p] = proc[p]
    BY <1>1, <1>4, <2>1 DEF ProcessesOK, Fork, Happens
  <2>3. Live' = Live \union {n}
    BY <2>2 DEF Live
  <2>4. ASSUME NEW p \in Live'
        PROVE  /\ p \in Originals' \/ Newborn(p)'
               /\ Newborn(p)' => LET q == proc'[p].parent
                                 IN  q = Initial \/ (q \in Live' /\ proc'[q].birth < proc'[p].birth)
    <3>1. CASE p = n
      <4>1. start[p].birth < proc'[p].birth /\ proc'[parent] = proc[parent]
        BY <1>1, <1>2, <1>3, <2>1, <2>2, <3>1
      <4>2. proc[parent].birth < proc'[p].birth
        BY <1>2, <1>3, <2>2, <3>1
      <4> QED BY <1>1, <2>2, <2>3, <3>1, <4>1, <4>2 DEF Newborn, Originals
    <3>2. CASE p # n
      <4>1. p \in Live /\ proc'[p] = proc[p]
        BY <2>2, <2>3, <3>2 DEF Live
      <4>2. ASSUME proc[p].parent \in Live PROVE proc'[proc[p].parent] = proc[proc[p].parent]
        BY <1>3, <2>1, <2>2, <4>2
      <4> QED BY <2>3, <4>1, <4>2 DEF YoungerThanParents, Newborn, Originals
    <3> QED BY <3>1, <3>2
  <2> QED BY <2>4 DEF YoungerThanParents
<1>5. ASSUME NEW x \in Live, Exec(x) PROVE YoungerThanParents'
  <2>1. ASSUME NEW p \in Pids
        PROVE  /\ proc'[p].live = proc[p].live /\ proc'[p].birth = proc[p].birth
               /\ proc'[p].parent = proc[p].parent
    BY <1>1, <1>5 DEF Exec, ProcessesOK, Process
  <2>2. Live' = Live
    BY <2>1 DEF Live
  <2> QED BY <1>3, <2>1, <2>2 DEF YoungerThanParents, Newborn, Originals
<1>6. ASSUME NEW x \in Live, Exit(x) PROVE YoungerThanParents'
  <2>1. ASSUME NEW p \in Pids
        PROVE  /\ proc'[p].birth = proc[p].birth
               /\ proc'[p].live <=> proc[p].live /\ p # x
               /\ p # x => proc'[p].parent = IF proc[p].parent = x THEN Initial ELSE proc[p].parent
    BY <1>1, <1>6 DEF Exit, ProcessesOK, Process
  <2>2. Live' = Live \ {x}
    BY <2>1 DEF Live
  <2> QED BY <1>3, <2>1, <2>2 DEF YoungerThanParents, Newborn, Originals
<1> QED BY <1>4, <1>5, <1>6 DEF ComeAndGo

LEMMA WorldKeepsAgainInv ==
    ASSUME FindIInv, AgainInv, ComeAndGo, PidsUsedAgain, UNCHANGED findVars
    PROVE  AgainInv'
<1> USE DEF AgainInv
<1>1. UNCHANGED <<step, named, parent_map, start>>
  BY DEF findVars
<1>2. ASSUME NEW p \in Pids
      PROVE  /\ p \notin again' => p \notin again
             /\ p \notin again' /\ proc'[p].birth # proc[p].birth =>
                    p \notin Originals /\ ~Newborn(p)
  BY DEF PidsUsedAgain, Originals, Newborn
<1>3. StartIsLive' /\ NamedIsBelowItself' /\ Originals' = Originals
  BY <1>1 DEF StartIsLive, NamedIsBelowItself, Originals
<1>4. OriginalsStay'
  BY <1>1, <1>2, <1>3 DEF OriginalsStay, Newborn, Originals
<1>5. YoungerThanParents'
  BY <1>1, WorldKeepsYounger
<1>6. ASSUME NEW p \in Pids \ again', p \notin Originals, parent_map[p] # 0
      PROVE  Newborn(p)' /\ OlderParent(p, parent_map[p])'
  <2>1. Newborn(p) /\ OlderParent(p, parent_map[p]) /\ proc'[p].birth = proc[p].birth
    BY <1>2, <1>6 DEF ParentsAreOlder
  <2>2. Newborn(p)'
    BY <1>1, <2>1 DEF Newborn
  <2>3. OlderParent(p, parent_map[p])'
    <3> DEFINE q == parent_map[p]
    <3>1. CASE q \in again'
      BY <1>1, <3>1 DEF OlderParent
    <3>2. CASE q = Initial \/ q \in Originals
      BY <1>1, <1>3, <3>2 DEF OlderParent
    <3>3. CASE q \notin again' /\ q # Initial /\ q \notin Originals
      <4>1. q \in Pids /\ Newborn(q) /\ proc[q].birth < proc[p].birth
        BY <2>1, <3>3 DEF OlderParent, PidsUsedAgain
      <4>2. proc'[q].birth = proc[q].birth
        BY <1>2, <3>3, <4>1
      <4> QED BY <1>1, <2>1, <4>1, <4>2 DEF OlderParent, Newborn
    <3> QED BY <3>1, <3>2, <3>3
  <2> QED BY <2>2, <2>3
<1>7. ParentsAreOlder'
  BY <1>1, <1>3, <1>6 DEF ParentsAreOlder
<1> QED BY <1>3, <1>4, <1>5, <1>7

LEMMA SearchKeepsAgainInv ==
    ASSUME FindIInv, AgainInv, FindStep, UNCHANGED <<processes, again>>
    PROVE  AgainInv'
<1> USE DEF AgainInv
<1>1. UNCHANGED <<proc, start, again>>
  BY DEF processes, FindStep, ListAllPids, ReadExecutableName, ReadPpid, GetDescendants,
     RecursionOverflows, Found
<1>2. StartIsLive' /\ OriginalsStay' /\ YoungerThanParents'
  BY <1>1 DEF StartIsLive, OriginalsStay, YoungerThanParents, Originals, Newborn, Live
<1>3. \A p, q : /\ Newborn(p)' <=> Newborn(p)
                /\ OlderParent(p, q)' <=> OlderParent(p, q)
  BY <1>1 DEF Newborn, OlderParent, Originals
<1>4. ParentsAreOlder'
  <2>1. CASE UNCHANGED parent_map
    BY <1>1, <1>3, <2>1 DEF ParentsAreOlder, Originals
  <2>2. CASE parent_map' = NoParents
    BY <2>2 DEF ParentsAreOlder, NoParents
  <2>3. CASE ReadPpid
    <3>1. PICK p \in all_pids :
            parent_map' = IF p \in Live THEN [parent_map EXCEPT ![p] = PpidOf(p)]
                                        ELSE parent_map
      BY <2>3 DEF ReadPpid
    <3>2. CASE p \notin Live
      BY <2>1, <3>1, <3>2
    <3>3. CASE p \in Live
      <4>1. /\ p \in Pids /\ parent_map \in [Pids -> Pids \union {0}]
            /\ proc[p].parent \in Pids \union {0}
        BY <3>3 DEF Live, FindIInv, FindTypeOK, ProcessesOK, Process
      <4>2. /\ parent_map'[p] = proc[p].parent
            /\ \A r \in Pids \ {p} : parent_map'[r] = parent_map[r]
        BY <3>1, <3>3, <4>1 DEF PpidOf
      <4>3. ASSUME p \notin Originals
            PROVE  Newborn(p) /\ OlderParent(p, proc[p].parent)
        <5>1. Newborn(p)
          BY <3>3, <4>3 DEF YoungerThanParents
        <5>2. PICK q : q = proc[p].parent
          OBVIOUS
        <5>3. CASE q = Initial
          BY <5>1, <5>2, <5>3 DEF OlderParent
        <5>4. CASE q \in Live /\ proc[q].birth < proc[p].birth
          <6>1. q \in Pids /\ (q \in Originals \/ Newborn(q))
            BY <5>4 DEF YoungerThanParents, Live
          <6> QED BY <5>1, <5>2, <5>4, <6>1 DEF OlderParent
        <5> QED BY <3>3, <5>1, <5>2, <5>3, <5>4 DEF YoungerThanParents
      <4> QED BY <1>1, <1>3, <4>2, <4>3 DEF ParentsAreOlder, Originals
    <3> QED BY <3>2, <3>3
  <2> QED
    BY <2>1, <2>2, <2>3
    DEF FindStep, ListAllPids, ReadExecutableName, GetDescendants, RecursionOverflows, Found
<1>5. NamedIsBelowItself'
  <2>1. CASE RecursionOverflows
    <3>1. named \in Pids /\ UNCHANGED <<named, parent_map>>
      BY <2>1 DEF RecursionOverflows, FindIInv, ChildrenAreFound
    <3> QED BY <2>1, <3>1 DEF NamedIsBelowItself, RecursionOverflows
  <2>2. CASE ~RecursionOverflows
    <3>1. step' # "overflow"
      BY <2>2 DEF FindStep, ListAllPids, ReadExecutableName, ReadPpid, GetDescendants, Found
    <3> QED BY <3>1 DEF NamedIsBelowItself
  <2> QED BY <2>1, <2>2
<1> QED BY <1>2, <1>4, <1>5

(* Among pids that were not used again, parents make no cycle: a newborn's   *)
(* parent is older, and originals are a tree.                                *)
LEMMA NoCycle ==
    ASSUME FindIInv, AgainInv, NEW S \in SUBSET (Pids \ again), S # {}
    PROVE  \E p \in S : parent_map[p] \notin S
<1> SUFFICES ASSUME \A p \in S : parent_map[p] \in S PROVE FALSE
  OBVIOUS
<1>1. S \subseteq Pids /\ 0 \notin S /\ S \intersect again = {}
  BY PidsAssumption
<1>2. Initial \notin S
  BY <1>1 DEF FindIInv, ParentsAreKnown
<1>3. CASE S \intersect Originals # {}
  <2> DEFINE O == S \intersect Originals
  <2>1. O \in SUBSET ({p \in Pids : start[p].live} \ {Initial})
    BY <1>2 DEF Originals
  <2>2. PICK p \in O : start[p].parent \notin O
    BY <1>3, <2>1 DEF FindIInv, StartIsPast
  <2>3. Original(p)
    BY <1>1, <2>2 DEF AgainInv, OriginalsStay, Originals, Original, Newborn
  <2>4. parent_map[p] \in {0, start[p].parent, Initial}
    BY <1>1, <1>2, <2>2, <2>3 DEF FindIInv, ParentsAreKnown
  <2>5. start[p].parent \in S
    BY <1>1, <1>2, <2>2, <2>4
  <2>6. start[p].parent \in Originals
    BY <1>1, <1>2, <2>2, <2>5 DEF AgainInv, StartIsLive
  <2> QED BY <2>2, <2>5, <2>6
<1>4. CASE S \intersect Originals = {}
  <2> DEFINE births == {proc[p].birth : p \in S}
  <2>1. births \subseteq Nat /\ births # {}
    BY <1>1 DEF FindIInv, FindTypeOK, ProcessesOK, Process
  <2>2. PICK b \in births : \A c \in births : b <= c
    <3> HIDE DEF births
    <3> QED BY <2>1, NonemptyHasMin
  <2>3. PICK p \in S : proc[p].birth = b
    BY <2>2
  <2>4. PICK q : q = parent_map[p] /\ q \in S /\ q # 0
    BY <1>1, <2>3
  <2>5. proc[q].birth < proc[p].birth
    <3>1. OlderParent(p, q)
      BY <1>1, <1>4, <2>3, <2>4 DEF AgainInv, ParentsAreOlder
    <3> QED BY <1>1, <1>2, <1>4, <2>4, <3>1 DEF OlderParent
  <2>6. b <= proc[q].birth /\ proc[q].birth \in Nat /\ b \in Nat
    BY <2>1, <2>2, <2>4
  <2> QED BY <2>3, <2>5, <2>6
<1> QED BY <1>3, <1>4

(* The parent of one that is collected is collected, or is the first.        *)
LEMMA CollectedHaveParents ==
    ASSUME NEW parent \in Pids, NEW parents, NEW child \in CollectChildren(parent, parents)
    PROVE  /\ child \in Pids
           /\ parents[child] \in {parent} \union CollectChildren(parent, parents)
<1> DEFINE N == Cardinality(Pids)
<1>1. PICK below \in [0 .. N -> SUBSET Pids] :
        /\ below[0] = {parent}
        /\ \A n \in 1 .. N : below[n] = {p \in Pids : parents[p] \in below[n - 1]}
        /\ CollectChildren(parent, parents) = UNION {below[n] : n \in 1 .. N}
  BY LevelsOf
<1>2. N \in Nat
  BY PidsAssumption, FS_CardinalityType
<1> HIDE DEF N
<1>3. PICK n \in 1 .. N : child \in below[n]
  BY <1>1
<1>4. child \in Pids /\ parents[child] \in below[n - 1]
  BY <1>1, <1>3
<1>5. n - 1 = 0 \/ n - 1 \in 1 .. N
  BY <1>2
<1> QED BY <1>1, <1>4, <1>5

(* The recursion of CollectChildren ends, however the family changes while   *)
(* its members are read, unless one of the pids it comes to has been used    *)
(* again since the search began.                                             *)
THEOREM CollectChildrenReturns == FindSpec => []RecursionEnds
<1>1. ASSUME FindIInv, AgainInv PROVE RecursionEnds
  <2> SUFFICES ASSUME step = "overflow",
                      CollectChildren(named, parent_map) \intersect again = {}
               PROVE  FALSE
    BY DEF RecursionEnds
  <2> DEFINE S == CollectChildren(named, parent_map)
  <2>1. named \in Pids /\ named \in S
    BY <1>1 DEF AgainInv, NamedIsBelowItself
  <2>2. \A p \in S : p \in Pids /\ parent_map[p] \in S
    BY <2>1, CollectedHaveParents
  <2> HIDE DEF S
  <2>3. S \in SUBSET (Pids \ again) /\ S # {}
    BY <2>1, <2>2 DEF S
  <2> QED BY <1>1, <2>2, <2>3, NoCycle
<1>2. ProcessesOK /\ FamilyTree /\ FindInit => AgainInv
  BY FindInitIsAgainInv
<1>3. FindIInv /\ AgainInv /\ [FindNext]_<<processes, findVars, again>> => AgainInv'
  <2> SUFFICES ASSUME FindIInv, AgainInv, [FindNext]_<<processes, findVars, again>>
               PROVE  AgainInv'
    OBVIOUS
  <2>1. CASE FindStep /\ UNCHANGED <<processes, again>>
    BY <2>1, SearchKeepsAgainInv
  <2>2. CASE ComeAndGo /\ PidsUsedAgain /\ UNCHANGED findVars
    BY <2>2, WorldKeepsAgainInv
  <2>3. CASE UNCHANGED <<processes, findVars, again>>
    BY <2>3
    DEF processes, findVars, AgainInv, StartIsLive, OriginalsStay, YoungerThanParents,
        ParentsAreOlder, OlderParent, NamedIsBelowItself, Originals, Newborn, Live
  <2> QED BY <2>1, <2>2, <2>3 DEF FindNext
<1> QED BY <1>1, <1>2, <1>3, FindInvariance, PTL DEF FindSpec

(* How FindsTheSteady counts generations.                                    *)
Generations(g, first, steady, family, N) ==
    g = [n \in 0 .. N |-> IF n = 0 THEN first
                         ELSE g[n - 1] \union {p \in steady : family[p].parent \in g[n - 1]}]

LEMMA GenerationsExist ==
    ASSUME NEW steady, steady \subseteq Pids, NEW first, first \subseteq Pids, NEW family,
           NEW N \in Nat
    PROVE  \E g : Generations(g, first, steady, family, N)
<1>1. PICK T : T = SUBSET Pids
  OBVIOUS
<1>2. PICK next : next = [S \in T |-> S \union {p \in steady : family[p].parent \in S}]
  OBVIOUS
<1>3. first \in T /\ next \in [T -> T]
  BY <1>1, <1>2
<1>4. PICK g \in [0 .. N -> T] : g[0] = first /\ \A n \in 1 .. N : g[n] = next[g[n - 1]]
  <2>1. IsStep(next, T)
    BY <1>3 DEF IsStep
  <2>2. PICK g : Iterates(g, first, next, N, T)
    BY <1>3, <2>1, IterationExists
  <2> QED BY <2>2 DEF Iterates
<1>5. ASSUME NEW n \in 1 .. N
      PROVE  g[n] = g[n - 1] \union {p \in steady : family[p].parent \in g[n - 1]}
  <2>1. n - 1 \in 0 .. N
    OBVIOUS
  <2>2. g[n - 1] \in T
    BY <2>1
  <2> QED BY <1>2, <1>4, <2>2
<1>6. g[0] = first /\ DOMAIN g = 0 .. N /\ g = [n \in DOMAIN g |-> g[n]]
  BY <1>4
<1>7. g = [n \in 0 .. N |-> IF n = 0 THEN first
                      ELSE g[n - 1] \union {p \in steady : family[p].parent \in g[n - 1]}]
  BY <1>5, <1>6
<1> QED BY <1>7 DEF Generations

(* The search misses nobody who stays as it is, down from one with the name. *)
THEOREM SteadyAreFound == FindSpec => []FindsTheSteady
<1>1. FindIInv => FindsTheSteady
  <2> SUFFICES ASSUME FindIInv, step = "done" PROVE FindsTheSteady
    BY DEF FindsTheSteady
  <2> DEFINE N == Cardinality(Pids)
             steady == {p \in Live : proc[p] = start[p]}
             targets[n \in 0 .. N] ==
               IF n = 0 THEN {p \in steady : proc[p].name = exec_name}
               ELSE LET some == targets[n - 1]
                    IN  some \union {p \in steady : proc[p].parent \in some}
             first == {p \in steady : proc[p].name = exec_name}
  <2>1. N \in Nat
    BY PidsAssumption, FS_CardinalityType
  <2>2. \A p \in steady : p \in Pids /\ Steady(p) /\ proc[p] = start[p]
    BY DEF Steady, Live
  <2>3. first \subseteq found
    BY <2>2 DEF FindIInv, NamedAreFound
  <2>4. \A p \in steady : proc[p].parent \in found => p \in found
    BY <2>2 DEF FindIInv, ChildrenAreFound
  <2>5. FindsTheSteady = (targets[N] \subseteq found)
    BY DEF FindsTheSteady
  <2>6. \E g : Generations(g, first, steady, proc, N)
    <3>1. first \subseteq Pids /\ steady \subseteq Pids
      BY <2>2
    <3> HIDE DEF N, targets, steady, first
    <3> QED BY <2>1, <3>1, GenerationsExist
  <2>7. targets = [n \in 0 .. N |-> IF n = 0 THEN first
                     ELSE targets[n - 1] \union {p \in steady : proc[p].parent \in targets[n - 1]}]
    BY <2>6 DEF Generations
  <2> HIDE DEF targets
  <2>8. targets[0] = first
        /\ \A n \in 1 .. N : targets[n] = targets[n - 1]
                                   \union {p \in steady : proc[p].parent \in targets[n - 1]}
    <3> DEFINE same == [n \in 0 .. N |-> IF n = 0 THEN first
                     ELSE targets[n - 1] \union {p \in steady : proc[p].parent \in targets[n - 1]}]
    <3>1. same[0] = first
          /\ \A n \in 1 .. N : same[n] = targets[n - 1]
                                   \union {p \in steady : proc[p].parent \in targets[n - 1]}
      BY <2>1
    <3>2. targets = same
      BY <2>7, Zenon
    <3> HIDE DEF same
    <3> QED BY <3>1, <3>2, Zenon
  <2> HIDE DEF N, steady
  <2> DEFINE S == {n \in 0 .. N : targets[n] \subseteq found}
  <2>9. 0 \in S
    BY <2>1, <2>3, <2>8
  <2>10. ASSUME NEW n \in 0 .. N - 1, n \in S PROVE n + 1 \in S
    <3>1. n + 1 \in 1 .. N /\ n + 1 \in 0 .. N /\ (n + 1) - 1 = n
      BY <2>1
    <3>2. targets[n + 1] = targets[n] \union {p \in steady : proc[p].parent \in targets[n]}
      BY <2>8, <3>1
    <3> QED BY <2>4, <2>10, <3>1, <3>2
  <2>11. 0 .. N \subseteq S
    <3> HIDE DEF S
    <3> QED BY <2>1, <2>9, <2>10, UpTo
  <2>12. N \in 0 .. N
    BY <2>1
  <2>13. targets[N] \subseteq found
    BY <2>11, <2>12
  <2> QED BY <2>5, <2>13
<1> QED BY <1>1, FindInvariance, PTL
=============================================================================
