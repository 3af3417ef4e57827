------------------------- MODULE ProcessListProofs -------------------------
(***************************************************************************)
(* The process table keeps its promises for every set of pids, every bound *)
(* and every width of the counters.                                        *)
(*                                                                         *)
(* None of the properties is inductive: each speaks of the moment after    *)
(* print(), and holds then because of what every visit of update()         *)
(* establishes.  IInv says what is true between the visits.                *)
(***************************************************************************)
EXTENDS ProcessList, Lemmas

Visiting == pc \in {"bsdinfo", "taskinfo"}

\* The visited pid has an entry while it is visited; it is not visited twice.
VisitInv ==
    /\ pc # "idle" => touched > 0
    /\ Visiting => pid \in DOMAIN list
    /\ Visiting /\ isNew => list[pid].touched = 0

\* touched tells the entries of this refresh from older ones, and those of
\* this refresh name processes that ran during it.
FreshInv ==
    /\ pc # "idle" => Running \subseteq seen
    /\ pc = "taskinfo" => <<pid, named[pid]>> \in seen
    /\ \A k \in DOMAIN list :
        /\ list[k].touched <= touched
        /\ pc = "idle" => list[k].touched = touched
        /\ list[k].touched = touched => <<k, named[k]>> \in seen

\* A listed process that has not ended is still to be visited, being visited,
\* or done.
StableInv ==
    /\ steady \subseteq alive
    /\ \A p \in steady \ foreign :
        \/ pc # "idle" /\ p \in todo
        \/ Visiting /\ p = pid
        \/ p \in DOMAIN list /\ list[p].touched = touched

\* An entry's total is the last reading of its counter, and the reading is
\* not ahead of the counter it was taken from.
SampleInv ==
    \A p \in Pid :
        /\ p \in alive => gen[p] > 0
        /\ p \notin DOMAIN list => sample[p] = Nothing
        /\ Visiting /\ isNew /\ p = pid => sample[p] = Nothing
        /\ p \in DOMAIN list => list[p].total = sample[p].cpu
        /\ sample[p].gen = 0 => sample[p] = Nothing
        /\ sample[p].gen <= gen[p]
        /\ sample[p].gen = gen[p] => sample[p].cpu <= cpu[p]

IInv == TypeOK /\ KeyIsPid /\ VisitInv /\ FreshInv /\ StableInv /\ SampleInv

-----------------------------------------------------------------------------
(* What print() and update() do to the table.                              *)

\* Erase removes keys and leaves the other entries alone.
LEMMA EraseFacts ==
    ASSUME NEW f, NEW K
    PROVE  /\ DOMAIN Erase(f, K) = DOMAIN f \ K
           /\ \A k \in DOMAIN f \ K : Erase(f, K)[k] = f[k]
BY DEF Erase, Restrict

\* It keeps the type of the entries.
LEMMA EraseType ==
    ASSUME NEW f, NEW K, NEW S, f \in [DOMAIN f -> S]
    PROVE  Erase(f, K) \in [DOMAIN f \ K -> S]
BY DEF Erase, Restrict

\* The only pids of the table PrintList drops are those of stale entries.
LEMMA DroppedAreStale ==
    ASSUME KeyIsPid, pc = "scan"
    PROVE  {list[k].pid : k \in Stale} = Stale
BY DEF KeyIsPid, Stale

-----------------------------------------------------------------------------
(* IInv is an inductive invariant.                                         *)

\* The initial states satisfy it.
LEMMA InitIInv == Init => IInv
<1> SUFFICES ASSUME Init PROVE IInv
    OBVIOUS
<1>0. DOMAIN list = {} /\ list \in [DOMAIN list -> Process]
    BY DEF Init
<1>1. TypeOK
  <2>1. sample \in [Pid -> Sample] /\ named \in [Pid -> 0..MaxGen]
      BY BoundAssumption DEF Init, Sample, Nothing
  <2>2. gen \in [Pid -> 0..MaxGen] /\ cpu \in [Pid -> 0..MaxCpu] /\ touched \in 0..MaxTouched
      BY BoundAssumption DEF Init
  <2> QED
      BY <1>0, <2>1, <2>2 DEF Init, TypeOK
<1> QED
    BY <1>0, <1>1, BoundAssumption
    DEF Init, IInv, KeyIsPid, VisitInv, FreshInv, StableInv, SampleInv, Visiting, Nothing

\* A process starts.
LEMMA SpawnStep == ASSUME IInv, NEW p \in Pid, Spawn(p) PROVE IInv'
<1>1. TypeOK'
    BY BoundAssumption DEF IInv, TypeOK, Spawn, locals
<1>2. KeyIsPid' /\ VisitInv'
    BY DEF IInv, KeyIsPid, VisitInv, Visiting, Spawn, locals
<1>3. FreshInv'
    BY DEF IInv, TypeOK, FreshInv, Running, Spawn, locals
<1>4. StableInv'
    BY DEF IInv, StableInv, Visiting, Spawn, locals
<1>5. SampleInv'
    BY DEF IInv, TypeOK, SampleInv, Visiting, Sample, Nothing, Spawn, locals
<1> QED
    BY <1>1, <1>2, <1>3, <1>4, <1>5 DEF IInv

\* A process ends.
LEMMA ExitStep == ASSUME IInv, NEW p \in Pid, Exit(p) PROVE IInv'
<1>1. TypeOK'
    BY DEF IInv, TypeOK, Exit, locals
<1>2. KeyIsPid' /\ VisitInv'
    BY DEF IInv, KeyIsPid, VisitInv, Visiting, Exit, locals
<1>3. FreshInv'
    BY DEF IInv, FreshInv, Running, Exit, locals
<1>4. StableInv'
    BY DEF IInv, StableInv, Visiting, Exit, locals
<1>5. SampleInv'
    BY DEF IInv, SampleInv, Visiting, Exit, locals
<1> QED
    BY <1>1, <1>2, <1>3, <1>4, <1>5 DEF IInv

\* A process uses CPU time.
LEMMA RunProcStep == ASSUME IInv, NEW p \in Pid, RunProc(p) PROVE IInv'
<1>1. TypeOK'
    BY BoundAssumption DEF IInv, TypeOK, RunProc, locals, history
<1>2. KeyIsPid' /\ VisitInv' /\ FreshInv' /\ StableInv'
    BY DEF IInv, KeyIsPid, VisitInv, FreshInv, StableInv, Visiting, Running, RunProc, locals, history
<1>3. SampleInv'
    BY DEF IInv, TypeOK, SampleInv, Sample, Visiting, RunProc, locals, history
<1> QED
    BY <1>1, <1>2, <1>3 DEF IInv

\* A refresh begins: every entry is older than it.
LEMMA BeginUpdateStep == ASSUME IInv, BeginUpdate PROVE IInv'
<1>1. TypeOK'
    BY BoundAssumption DEF IInv, TypeOK, BeginUpdate, Running, kernel
<1>2. KeyIsPid'
    BY DEF IInv, KeyIsPid, BeginUpdate
<1>3. VisitInv' /\ FreshInv'
  <2>1. touched \in Nat /\ touched' = touched + 1 /\ list' = list /\ pc' = "scan"
      BY BoundAssumption DEF IInv, TypeOK, BeginUpdate
  <2>2. \A k \in DOMAIN list : list[k].touched \in Nat /\ list[k].touched <= touched
      BY DEF IInv, TypeOK, FreshInv, Process
  <2>3. \A k \in DOMAIN list : list[k].touched <= touched' /\ list[k].touched # touched'
      BY <2>1, <2>2
  <2>4. Running' \subseteq seen'
      BY DEF BeginUpdate, Running, kernel
  <2> QED
      BY <2>1, <2>3, <2>4 DEF VisitInv, FreshInv, Visiting
<1>4. StableInv'
    BY DEF IInv, StableInv, Visiting, BeginUpdate, kernel
<1>5. SampleInv'
    BY DEF IInv, SampleInv, Visiting, BeginUpdate, kernel
<1> QED
    BY <1>1, <1>2, <1>3, <1>4, <1>5 DEF IInv

\* A visit begins: a new struct has no reading behind it.
LEMMA LookupStep == ASSUME IInv, Lookup PROVE IInv'
<1> PICK p \in todo : /\ todo' = todo \ {p}
                      /\ pid' = p
                      /\ isNew' = (p \notin DOMAIN list)
                      /\ list' = IF isNew' THEN Put(list, p, NewProcess) ELSE list
    BY DEF Lookup
<1> USE DEF IInv
<1>1. /\ pc = "scan" /\ pc' = "bsdinfo"
      /\ UNCHANGED <<kernel, touched, history>>
    BY DEF Lookup
<1>2. p \in Pid
    BY DEF TypeOK
<1>3. /\ DOMAIN list' = DOMAIN list \cup {p}
      /\ \A k \in DOMAIN list : list'[k] = list[k]
      /\ isNew' => p \notin DOMAIN list /\ list'[p] = NewProcess
      /\ ~isNew' => p \in DOMAIN list
  <2>1. CASE p \in DOMAIN list
      BY <2>1
  <2>2. CASE p \notin DOMAIN list
    <3>1. isNew' /\ list' = Put(list, p, NewProcess)
        BY <2>2
    <3>2. /\ DOMAIN list' = DOMAIN list \cup {p}
          /\ list'[p] = NewProcess
          /\ \A k \in DOMAIN list : k # p => list'[k] = list[k]
        BY <3>1 DEF Put
    <3> QED
        BY <2>2, <3>1, <3>2
  <2> QED
      BY <2>1, <2>2
<1>4. list' \in [DOMAIN list' -> Process]
  <2>1. NewProcess \in Process
      BY WordAssumption, BoundAssumption DEF NewProcess, Process, Unsigned
  <2> QED
      BY <2>1 DEF TypeOK, Put
<1>5. TypeOK'
    BY <1>1, <1>2, <1>3, <1>4 DEF TypeOK, kernel, history
<1>6. KeyIsPid'
    BY <1>1, <1>3 DEF KeyIsPid
<1>7. VisitInv'
    BY <1>1, <1>3 DEF VisitInv, Visiting, NewProcess
<1>8. FreshInv'
    BY <1>1, <1>3 DEF TypeOK, VisitInv, FreshInv, Running, NewProcess, kernel, history
<1>9. StableInv'
    BY <1>1, <1>3 DEF StableInv, Visiting, kernel, history
<1>10. SampleInv'
    BY <1>1, <1>2, <1>3 DEF TypeOK, SampleInv, Visiting, NewProcess, Nothing, kernel, history
<1> QED
    BY <1>5, <1>6, <1>7, <1>8, <1>9, <1>10

\* A visit ends early: the process is gone or foreign, so it is not one that
\* has to be shown.
LEMMA BsdInfoFailsStep == ASSUME IInv, BsdInfoFails PROVE IInv'
<1> USE DEF IInv
<1>1. /\ pc = "bsdinfo" /\ pc' = "scan"
      /\ pid \notin alive \ foreign
      /\ UNCHANGED <<kernel, touched, todo, pid, isNew, seen, steady>>
      /\ Forget({pid})
    BY DEF BsdInfoFails
<1>2. /\ DOMAIN list' = DOMAIN list \ {pid}
      /\ \A k \in DOMAIN list' : list'[k] = list[k]
      /\ list' \in [DOMAIN list' -> Process]
  <2>1. list' = Erase(list, {pid}) /\ list \in [DOMAIN list -> Process]
      BY DEF BsdInfoFails, TypeOK
  <2>2. /\ DOMAIN list' = DOMAIN list \ {pid}
        /\ \A k \in DOMAIN list \ {pid} : list'[k] = list[k]
      BY <2>1, EraseFacts
  <2>3. list' \in [DOMAIN list \ {pid} -> Process]
      BY <2>1, EraseType
  <2> QED
      BY <2>2, <2>3
<1>3. TypeOK'
    BY <1>1, <1>2, BoundAssumption DEF TypeOK, Forget, Sample, Nothing, kernel
<1>4. KeyIsPid' /\ VisitInv'
    BY <1>1, <1>2 DEF KeyIsPid, VisitInv, Visiting
<1>5. FreshInv'
    BY <1>1, <1>2 DEF TypeOK, FreshInv, Running, Forget, kernel
<1>6. StableInv'
    BY <1>1, <1>2 DEF StableInv, Visiting, kernel
<1>7. SampleInv'
    BY <1>1, <1>2 DEF TypeOK, SampleInv, Visiting, Forget, Nothing, kernel
<1> QED
    BY <1>3, <1>4, <1>5, <1>6, <1>7

\* BSDINFO names a process that is running.
LEMMA BsdInfoStep == ASSUME IInv, BsdInfo PROVE IInv'
<1> USE DEF IInv
<1>1. /\ pc = "bsdinfo" /\ pc' = "taskinfo"
      /\ pid \in alive
      /\ list' = [list EXCEPT ![pid].pid = pid]
      /\ named' = [named EXCEPT ![pid] = gen[pid]]
      /\ UNCHANGED <<kernel, touched, todo, pid, isNew, seen, steady, sample>>
    BY DEF BsdInfo
<1>2. /\ DOMAIN list' = DOMAIN list
      /\ pid \in DOMAIN list
      /\ \A k \in DOMAIN list : /\ list'[k].touched = list[k].touched
                                /\ list'[k].total = list[k].total
                                /\ list'[k].pid = IF k = pid THEN pid ELSE list[k].pid
      /\ list' \in [DOMAIN list -> Process]
    BY <1>1, PidAssumption DEF TypeOK, VisitInv, Visiting, Process
<1>3. TypeOK'
    BY <1>1, <1>2 DEF TypeOK, kernel
<1>4. KeyIsPid' /\ VisitInv'
    BY <1>1, <1>2 DEF KeyIsPid, VisitInv, Visiting
<1>5. <<pid, gen[pid]>> \in seen
    BY <1>1 DEF FreshInv, Running
<1>6. FreshInv'
  <2>1. Running' = Running
      BY <1>1 DEF Running, kernel
  <2>2. \A k \in DOMAIN list : named'[k] = IF k = pid THEN gen[pid] ELSE named[k]
      BY <1>1 DEF TypeOK
  <2>3. touched' = touched /\ seen' = seen /\ pid' = pid /\ pc' = "taskinfo" /\ pc = "bsdinfo"
      BY <1>1
  <2>4. <<pid, named'[pid]>> \in seen
      BY <1>2, <1>5, <2>2
  <2>5. \A k \in DOMAIN list' :
          /\ list'[k].touched <= touched
          /\ list'[k].touched = touched => <<k, named'[k]>> \in seen
    <3> SUFFICES ASSUME NEW k \in DOMAIN list
                 PROVE  /\ list[k].touched <= touched
                        /\ list[k].touched = touched => <<k, named'[k]>> \in seen
        BY <1>2
    <3> QED
        BY <1>5, <2>2 DEF FreshInv
  <2>6. Running \subseteq seen
      BY <2>3 DEF FreshInv
  <2> QED
      BY <2>1, <2>3, <2>4, <2>5, <2>6 DEF FreshInv
<1>7. StableInv'
    BY <1>1, <1>2 DEF StableInv, Visiting, kernel
<1>8. SampleInv'
    BY <1>1, <1>2 DEF SampleInv, Visiting, kernel
<1> QED
    BY <1>3, <1>4, <1>6, <1>7, <1>8

\* The reading TASKINFO gives is one the counter really had.
LEMMA TaskInfoStep == ASSUME IInv, TaskInfo PROVE IInv'
<1> USE DEF IInv
<1> DEFINE reply == IF pid \in alive \ foreign
                       THEN [gen |-> gen[pid], cpu |-> cpu[pid]] ELSE Nothing
<1>1. /\ pc = "taskinfo" /\ pc' = "scan"
      /\ list' = [list EXCEPT ![pid] = Measured(@, reply.cpu)]
      /\ sample' = [sample EXCEPT ![pid] = reply]
      /\ UNCHANGED <<kernel, touched, todo, pid, isNew, seen, steady, named>>
    BY DEF TaskInfo
<1>2. pid \in DOMAIN list /\ pid \in Pid
    BY <1>1 DEF TypeOK, VisitInv, Visiting
<1>3. reply \in Sample /\ reply.cpu \in Unsigned
    BY <1>2, BoundAssumption, WordAssumption DEF TypeOK, Sample, Nothing, Unsigned
<1> HIDE DEF reply
<1>4. /\ Measured(list[pid], reply.cpu) \in Process
      /\ Measured(list[pid], reply.cpu).pid = list[pid].pid
      /\ Measured(list[pid], reply.cpu).touched = touched
      /\ Measured(list[pid], reply.cpu).total = reply.cpu
  <2>1. list[pid] \in Process
      BY <1>2 DEF TypeOK
  <2>2. Minus(reply.cpu, list[pid].total) \in Unsigned
      BY <1>3, <2>1, MinusType DEF Process
  <2>3. touched \in Nat /\ 0 \in Unsigned
      BY <1>3, BoundAssumption, WordAssumption DEF TypeOK, Unsigned
  <2>4. CASE isNew
      BY <1>3, <2>1, <2>3, <2>4 DEF Measured, Process
  <2>5. CASE ~isNew
      BY <1>3, <2>1, <2>2, <2>3, <2>5 DEF Measured, Process
  <2> QED
      BY <2>4, <2>5
<1>5. /\ DOMAIN list' = DOMAIN list
      /\ list'[pid] = Measured(list[pid], reply.cpu)
      /\ \A k \in DOMAIN list : k # pid => list'[k] = list[k]
      /\ list' \in [DOMAIN list -> Process]
    BY <1>1, <1>2, <1>4 DEF TypeOK
<1>6. TypeOK'
    BY <1>1, <1>2, <1>3, <1>5 DEF TypeOK, kernel
<1>7. KeyIsPid' /\ VisitInv'
    BY <1>1, <1>2, <1>4, <1>5 DEF KeyIsPid, VisitInv, Visiting
<1>8. FreshInv'
    BY <1>1, <1>2, <1>4, <1>5 DEF TypeOK, FreshInv, Running, kernel
<1>9. StableInv'
    BY <1>1, <1>2, <1>4, <1>5 DEF StableInv, Visiting, kernel
<1>10. SampleInv'
  <2>1. reply.gen = 0 => reply = Nothing
      BY <1>2, <1>1 DEF reply, TypeOK, SampleInv, Sample, Nothing
  <2> QED
    BY <1>1, <1>2, <1>4, <1>5, <2>1 DEF TypeOK, SampleInv, Visiting, reply, Nothing, kernel
<1> QED
    BY <1>6, <1>7, <1>8, <1>9, <1>10

\* print() leaves the entries of this refresh, and those only.
LEMMA PrintStep == ASSUME IInv, PrintList PROVE IInv'
<1> USE DEF IInv
<1>1. /\ pc = "scan" /\ pc' = "idle" /\ todo = {}
      /\ list' = Erase(list, Stale)
      /\ Forget(Stale)
      /\ UNCHANGED <<kernel, touched, todo, pid, isNew, seen, steady>>
    BY DroppedAreStale DEF PrintList
<1>2. /\ DOMAIN list' = DOMAIN list \ Stale
      /\ \A k \in DOMAIN list' : list'[k] = list[k]
      /\ list' \in [DOMAIN list' -> Process]
  <2>1. list' = Erase(list, Stale) /\ list \in [DOMAIN list -> Process]
      BY <1>1 DEF TypeOK
  <2>2. /\ DOMAIN list' = DOMAIN list \ Stale
        /\ \A k \in DOMAIN list \ Stale : list'[k] = list[k]
      BY <2>1, EraseFacts
  <2>3. list' \in [DOMAIN list \ Stale -> Process]
      BY <2>1, EraseType
  <2> QED
      BY <2>2, <2>3
<1>3. Stale \subseteq Pid
    BY DEF Stale, TypeOK
<1>4. TypeOK'
    BY <1>1, <1>2, BoundAssumption DEF TypeOK, Forget, Sample, Nothing, kernel
<1>5. KeyIsPid' /\ VisitInv'
    BY <1>1, <1>2 DEF KeyIsPid, VisitInv, Visiting
<1>6. FreshInv'
    BY <1>1, <1>2 DEF TypeOK, FreshInv, Stale, Running, Forget, kernel
<1>7. StableInv'
    BY <1>1, <1>2 DEF StableInv, Stale, Visiting, kernel
<1>8. SampleInv'
    BY <1>1, <1>2, <1>3 DEF TypeOK, SampleInv, Visiting, Forget, Nothing, kernel
<1> QED
    BY <1>4, <1>5, <1>6, <1>7, <1>8

\* A step that changes nothing.
LEMMA StutterStep == ASSUME IInv, UNCHANGED vars PROVE IInv'
BY DEF IInv, TypeOK, KeyIsPid, VisitInv, FreshInv, StableInv, SampleInv, Visiting,
       Running, vars, kernel, locals, history

\* Every step keeps the invariant.
LEMMA NextIInv == IInv /\ [Next]_vars => IInv'
<1> SUFFICES ASSUME IInv, [Next]_vars PROVE IInv'
    OBVIOUS
<1>1. CASE \E p \in Pid : Spawn(p) \/ Exit(p) \/ RunProc(p)
    BY <1>1, SpawnStep, ExitStep, RunProcStep
<1>2. CASE BeginUpdate
    BY <1>2, BeginUpdateStep
<1>3. CASE Monitor
    BY <1>3, LookupStep, BsdInfoFailsStep, BsdInfoStep, TaskInfoStep, PrintStep DEF Monitor
<1>4. CASE UNCHANGED vars
    BY <1>4, StutterStep
<1> QED
    BY <1>1, <1>2, <1>3, <1>4 DEF Next

\* What ties the table to the kernel between any two steps of a refresh.
THEOREM InductiveInvariant == Spec => []IInv
<1> QED
    BY InitIInv, NextIInv, PTL DEF Spec

-----------------------------------------------------------------------------
(* The properties.                                                         *)

\* Every counter of the table stays an unsigned number of its width, also
\* when a reading is smaller than the one before.
THEOREM TypeCorrect == Spec => []TypeOK
<1>1. IInv => TypeOK
    BY DEF IInv
<1> QED
    BY <1>1, InductiveInvariant, PTL

\* No process that ended before a refresh is shown or kept by it.
THEOREM ListIsRecentHolds == Spec => []ListIsRecent
<1>1. IInv => ListIsRecent
    BY DEF IInv, FreshInv, ListIsRecent
<1> QED
    BY <1>1, InductiveInvariant, PTL

\* A listed process that keeps running, and may be inspected, is shown.
THEOREM StableShownHolds == Spec => []StableShown
<1>1. IInv => StableShown
    BY DEF IInv, StableInv, StableShown, Visiting
<1> QED
    BY <1>1, InductiveInvariant, PTL

\* A delta between two readings of one process is the CPU time it used.
THEOREM DeltaExactHolds == Spec => DeltaExact
<1> DEFINE Exact == Measures =>
             LET was == sample[pid]
                 now == sample'[pid]
             IN  /\ was.gen = now.gen => list'[pid].delta = now.cpu - was.cpu
                 /\ isNew => was = Nothing /\ list'[pid].delta = 0
<1>1. IInv /\ [Next]_vars => [Exact]_vars
  <2> SUFFICES ASSUME IInv, Next, Measures
               PROVE  Exact
      OBVIOUS
  <2>1. TaskInfo
      BY DEF Measures, Next, Spawn, Exit, RunProc, BeginUpdate, Monitor, Lookup,
             BsdInfoFails, BsdInfo, PrintList, locals
  <2> DEFINE reply == IF pid \in alive \ foreign
                       THEN [gen |-> gen[pid], cpu |-> cpu[pid]] ELSE Nothing
             was   == sample[pid]
  <2>2. pid \in Pid /\ pid \in DOMAIN list /\ list[pid] \in Process
      BY DEF IInv, TypeOK, VisitInv, Visiting, Measures
  <2>3. /\ sample'[pid] = reply
        /\ list'[pid].delta = IF isNew THEN 0 ELSE Minus(reply.cpu, was.cpu)
      BY <2>1, <2>2 DEF TaskInfo, Measured, IInv, TypeOK, SampleInv, Process
  <2>4. isNew => was = Nothing
      BY <2>2 DEF IInv, SampleInv, Measures, Visiting
  <2>5. ASSUME was.gen = reply.gen
        PROVE  was.cpu \in 0..reply.cpu /\ reply.cpu \in Unsigned
    <3>1. CASE pid \in alive \ foreign
        BY <2>2, <2>5, <3>1, BoundAssumption, WordAssumption
        DEF IInv, TypeOK, SampleInv, Sample, Unsigned
    <3>2. CASE pid \notin alive \ foreign
        BY <2>2, <2>5, <3>2, BoundAssumption, WordAssumption
        DEF IInv, SampleInv, Nothing, Unsigned
    <3> QED
        BY <3>1, <3>2
  <2>6. ASSUME was.gen = reply.gen, isNew
        PROVE  reply.cpu - was.cpu = 0
      BY <2>2, <2>4, <2>5, <2>6 DEF Nothing, IInv, TypeOK, SampleInv
  <2> QED
      BY <2>3, <2>4, <2>5, <2>6, MinusExact
<1>2. [][Exact]_vars => DeltaExact
    BY DEF DeltaExact
<1> QED
    BY <1>1, <1>2, InductiveInvariant, PTL DEF Spec

=============================================================================
