---------------------------- MODULE ProcessList ----------------------------
(***************************************************************************)
(* The process table of cctop (src/macos/ProcessList.cpp, ProcessList.h).  *)
(*                                                                         *)
(* update() asks the kernel for the running pids and then, pid by pid, for *)
(* two records: PROC_PIDTBSDINFO (who the process is) and                  *)
(* PROC_PIDTASKINFO (the CPU time it has used).  Each of these is a system *)
(* call of its own: processes start, run and end between any two of them,  *)
(* and a pid may come back as another process.  print() then drops the     *)
(* entries that the last update() did not touch and shows the others.      *)
(*                                                                         *)
(* The user and system times of a process are one counter here, taken      *)
(* modulo Word (uint64_t in the code).                                     *)
(***************************************************************************)
EXTENDS Counters, Functions

CONSTANTS
    Pid,        \* the process ids
    MaxTouched, \* bound: refreshes
    MaxGen,     \* bound: processes that carry the same pid, one after another
    MaxCpu      \* bound: CPU time one process uses

ASSUME PidAssumption   == Pid \subseteq Nat
ASSUME BoundAssumption ==
    MaxTouched \in Nat /\ MaxGen \in Nat \ {0} /\ MaxCpu \in Nat /\ MaxCpu < Word

VARIABLES
    \* the kernel's processes
    alive,      \* the pids in use
    gen,        \* which of the processes that carried a pid is the latest
    foreign,    \* the pids of processes this user may not inspect
    cpu,        \* the CPU time the latest process of a pid has used
    \* class ProcessList
    touched,    \* number of the current refresh
    list,       \* pid -> struct Process
    \* locals of update()
    pc,         \* what update() does next: the list, BSDINFO, TASKINFO
    todo,       \* the pids of pids[] the loop has still to visit
    pid,        \* the pid the loop visits
    isNew,      \* its struct was created by this visit
    \* history, read by the properties only
    seen,       \* <<pid, gen>> of the processes that ran during this refresh
    steady,     \* listed pids whose process has not ended since
    named,      \* pid -> the process BSDINFO put into its entry
    sample      \* pid -> the reading TASKINFO put into its entry

kernel  == <<alive, gen, foreign, cpu>>
locals  == <<pc, todo, pid, isNew>>
history == <<seen, steady, named, sample>>
vars    == <<kernel, touched, list, locals, history>>

-----------------------------------------------------------------------------

\* struct Process, as far as the table depends on it.
Process == [pid: Nat, touched: Nat, total: Unsigned, delta: Unsigned]

\* What new Process() yields (the members' initialisers).
NewProcess == [pid |-> 0, touched |-> 0, total |-> 0, delta |-> 0]

\* A reading of the CPU counter: whose it was (0: nobody's, the call failed
\* and the record stayed zero) and its value.
Sample  == [gen: 0..MaxGen, cpu: 0..MaxCpu]
Nothing == [gen |-> 0, cpu |-> 0]

\* list.erase, for each key in K
Erase(f, K) == Restrict(f, DOMAIN f \ K)

\* History: the entries under the pids K are gone.
Forget(K) ==
    /\ named' = [p \in Pid |-> IF p \in K THEN 0 ELSE named[p]]
    /\ sample' = [p \in Pid |-> IF p \in K THEN Nothing ELSE sample[p]]

Running == {<<p, gen[p]>> : p \in alive}

-----------------------------------------------------------------------------

TypeOK ==
    /\ alive \subseteq Pid
    /\ gen \in [Pid -> 0..MaxGen]
    /\ foreign \subseteq Pid
    /\ cpu \in [Pid -> 0..MaxCpu]
    /\ touched \in 0..MaxTouched
    /\ DOMAIN list \subseteq Pid
    /\ list \in [DOMAIN list -> Process]
    /\ pc \in {"idle", "scan", "bsdinfo", "taskinfo"}
    /\ todo \subseteq Pid
    /\ pid \in Pid
    /\ isNew \in BOOLEAN
    /\ seen \subseteq Pid \X (0..MaxGen)
    /\ steady \subseteq Pid
    /\ named \in [Pid -> 0..MaxGen]
    /\ sample \in [Pid -> Sample]

Init ==
    /\ alive \in SUBSET Pid
    /\ gen = [p \in Pid |-> IF p \in alive THEN 1 ELSE 0]
    /\ foreign \in SUBSET alive
    /\ cpu = [p \in Pid |-> 0]
    /\ touched = 0
    /\ list = [p \in {} |-> NewProcess]
    /\ pc = "idle"
    /\ todo = {}
    /\ pid \in Pid          \* not read before Lookup sets it
    /\ isNew = FALSE
    /\ seen = {}
    /\ steady = {}
    /\ named = [p \in Pid |-> 0]
    /\ sample = [p \in Pid |-> Nothing]

-----------------------------------------------------------------------------
(* The kernel: what may happen between two system calls of cctop.          *)

\* A process starts, on a pid nobody uses now, as this user or as another.
Spawn(p) ==
    /\ p \notin alive
    /\ gen[p] < MaxGen
    /\ alive' = alive \cup {p}
    /\ gen' = [gen EXCEPT ![p] = @ + 1]
    /\ foreign' \in {foreign, foreign \cup {p}}
    /\ cpu' = [cpu EXCEPT ![p] = 0]
    /\ seen' = seen \cup {<<p, gen[p] + 1>>}
    /\ UNCHANGED <<touched, list, locals, steady, named, sample>>

\* A process ends and gives its pid back.
Exit(p) ==
    /\ p \in alive
    /\ alive' = alive \ {p}
    /\ foreign' = foreign \ {p}
    /\ steady' = steady \ {p}
    /\ UNCHANGED <<gen, cpu, touched, list, locals, seen, named, sample>>

\* A process uses CPU time.
RunProc(p) ==
    /\ p \in alive
    /\ cpu[p] < MaxCpu
    /\ cpu' = [cpu EXCEPT ![p] = @ + 1]
    /\ UNCHANGED <<alive, gen, foreign, touched, list, locals, history>>

-----------------------------------------------------------------------------
(* cctop: one refresh.                                                     *)

\* update() up to the loop: proc_listallpids() returns the running pids, or
\* fails, and then the loop has nothing to visit.
BeginUpdate ==
    /\ pc = "idle"
    /\ touched < MaxTouched
    /\ touched' = touched + 1
    /\ todo' \in {alive, {}}
    /\ pc' = "scan"
    /\ seen' = Running
    /\ steady' = todo'
    /\ UNCHANGED <<kernel, list, pid, isNew, named, sample>>

\* The loop takes its next pid (the kernel lists them in no given order) and
\* finds or creates the entry.
Lookup ==
    /\ pc = "scan"
    /\ \E p \in todo :
        /\ todo' = todo \ {p}
        /\ pid' = p
        /\ isNew' = (p \notin DOMAIN list)
        /\ list' = IF isNew' THEN Put(list, p, NewProcess) ELSE list
    /\ pc' = "bsdinfo"
    /\ UNCHANGED <<kernel, touched, history>>

\* Mutant of BsdInfoFails: the loop asks for the same pid again.
BsdInfoRetries ==
    /\ pc = "bsdinfo"
    /\ pid \notin alive \ foreign
    /\ list' = Erase(list, {pid})
    /\ Forget({pid})
    /\ UNCHANGED <<kernel, touched, locals, seen, steady>>

\* proc_pidinfo(PROC_PIDTBSDINFO) fails for a process that is gone and for one
\* of another user; the entry is dropped, and its struct leaks.
BsdInfoFails ==
    /\ pc = "bsdinfo"
    /\ pid \notin alive \ foreign
    /\ list' = Erase(list, {pid})
    /\ pc' = "scan"
    /\ Forget({pid})
    /\ UNCHANGED <<kernel, touched, todo, pid, isNew, seen, steady>>

BsdInfo ==
    /\ pc = "bsdinfo"
    /\ pid \in alive \ foreign
    /\ list' = [list EXCEPT ![pid].pid = pid]
    /\ named' = [named EXCEPT ![pid] = gen[pid]]
    /\ pc' = "taskinfo"
    /\ UNCHANGED <<kernel, touched, todo, pid, isNew, seen, steady, sample>>

\* Mutants of Measured: the entry is not marked as touched; the total is not
\* kept for the next refresh.
MeasuredUntouched(p, total) ==
    [p EXCEPT !.delta = IF isNew THEN 0 ELSE Minus(total, p.total), !.total = total]
MeasuredOldTotal(p, total) ==
    [p EXCEPT !.delta = IF isNew THEN 0 ELSE Minus(total, p.total), !.touched = touched]

\* The entry p after a TASKINFO record that gives total.
Measured(p, total) ==
    [p EXCEPT !.delta = IF isNew THEN 0 ELSE Minus(total, p.total),
              !.touched = touched,
              !.total = total]

\* proc_pidinfo(PROC_PIDTASKINFO): its result is not looked at, so the
\* record info{} stays zero when the process has ended since BSDINFO (and its
\* pid is not in use, or in somebody else's).
TaskInfo ==
    LET reply == IF pid \in alive \ foreign
                 THEN [gen |-> gen[pid], cpu |-> cpu[pid]]
                 ELSE Nothing
    IN
    /\ pc = "taskinfo"
    /\ list' = [list EXCEPT ![pid] = Measured(@, reply.cpu)]
    /\ sample' = [sample EXCEPT ![pid] = reply]
    /\ pc' = "scan"
    /\ UNCHANGED <<kernel, touched, todo, pid, isNew, seen, steady, named>>

\* Mutant of Stale: an entry is given one more refresh.
StaleLate == {k \in DOMAIN list : list[k].touched + 1 < touched}

\* The entries the last update() did not touch.
Stale == {k \in DOMAIN list : list[k].touched # touched}

\* print(): the stale entries are dropped, under the pid they hold; the others
\* are the rows.
PrintList ==
    LET dropped == {list[k].pid : k \in Stale} IN
    /\ pc = "scan"
    /\ todo = {}
    /\ list' = Erase(list, dropped)
    /\ pc' = "idle"
    /\ Forget(dropped)
    /\ UNCHANGED <<kernel, touched, todo, pid, isNew, seen, steady>>

\* One step of the loop or of print().
Monitor == Lookup \/ BsdInfoFails \/ BsdInfo \/ TaskInfo \/ PrintList

Next ==
    \/ \E p \in Pid : Spawn(p) \/ Exit(p) \/ RunProc(p)
    \/ BeginUpdate
    \/ Monitor

\* update() and print() are straight-line code of the only thread: once begun
\* they keep running.  Nothing obliges the kernel to do anything.
Spec == Init /\ [][Next]_vars /\ WF_vars(Monitor)

-----------------------------------------------------------------------------
(* Properties.                                                             *)

\* An entry is stored under the pid it holds, so that print(), which drops
\* entries by p->pid, drops the entry it looked at (a struct that BSDINFO has
\* not filled yet holds 0, and lives for that one step).
KeyIsPid ==
    \A k \in DOMAIN list : list[k].pid = k \/ (pc = "bsdinfo" /\ isNew /\ k = pid)

\* Once print() is done, every entry left (every row shown) names a process
\* that was running at some moment of this refresh: a process that ended
\* before the refresh is neither shown nor kept, whatever the kernel did
\* between the calls.
ListIsRecent ==
    pc = "idle" => \A p \in DOMAIN list : <<p, named[p]>> \in seen

\* A process that was in the listing and has kept running is in the table
\* after print(), unless it belongs to another user.
StableShown ==
    pc = "idle" => (steady \ foreign) \subseteq DOMAIN list

Measures == pc = "taskinfo" /\ pc' = "scan"

\* When both readings around a delta are of one and the same process, the
\* delta is the CPU time that process used between them: nothing that happened
\* to the entry in between (refreshes that failed, other entries created and
\* dropped) spoils its baseline.  A process whose counter has no earlier
\* reading shows 0 rather than its whole life.
DeltaExact ==
    [][Measures =>
         LET was == sample[pid]
             now == sample'[pid]
         IN  /\ was.gen = now.gen => list'[pid].delta = now.cpu - was.cpu
             /\ isNew => was = Nothing /\ list'[pid].delta = 0]_vars

\* What the comment in print() takes for granted (ProcessList.cpp:123-127:
\* an entry that is not up to date "is no longer running and needs to be
\* removed"): the table keeps no entry of a process that has ended.  It does
\* when the pid is in use again: the new process continues the old one's
\* entry, and its delta is taken against the old one's total.
EndedIsRemoved ==
    [][Measures =>
         sample'[pid].gen = 0 \/ sample[pid].gen \in {0, sample'[pid].gen}]_vars

\* A refresh comes to an end, whatever processes start or end meanwhile: the
\* listing is taken once, and every visit takes one pid off it.
UpdateCompletes == pc # "idle" ~> pc = "idle"

=============================================================================
