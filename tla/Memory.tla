------------------------------- MODULE Memory -------------------------------
(***************************************************************************)
(* Memory and virtual memory (src/macos/Memory.cpp, Memory.h).             *)
(*                                                                         *)
(* Three structs instead of the maps of Network and Disk: last, current    *)
(* and delta.  A reading takes two system calls, one for the page queues   *)
(* and the paging counters and one for swap; pages move and are paged in   *)
(* between them.                                                           *)
(*                                                                         *)
(* pageins stands for all five event counters, which are handled alike.    *)
(* Of the page queues free and inactive have a role of their own; wired,   *)
(* active and compressed pages only occur in sums, and are busy here.      *)
(***************************************************************************)
EXTENDS Counters

CONSTANTS
    PageSize,   \* page_size, in bytes: above 0
    Pages,      \* the machine's memory, in pages: PageSize * Pages < Word
    Swap,       \* the size of swap space: below Word
    MaxPageins, \* bound: events counted, below Word
    Stack       \* bound: what an uninitialised vmstat may hold

VARIABLES
    \* the kernel
    queues,     \* the pages that are free, inactive and busy
    pageins,    \* events since the machine started
    swapped,    \* swap space in use
    \* class Memory
    last, current, delta,
    \* where the constructor or update() stands
    pc,
    \* history, read by the properties only
    before,     \* pageins of the reading before the last
    failed      \* some host_statistics64() has failed

kernel  == <<queues, pageins, swapped>>
history == <<before, failed>>
vars    == <<kernel, last, current, delta, pc, history>>

\* struct MemoryStats
MemoryStats == [free_count: Unsigned, inactive_count: Unsigned, pageins: Unsigned,
                memory_size: Unsigned, memory_used: Unsigned, memory_free: Unsigned,
                swap_used: Unsigned, swap_free: Unsigned]

Zero == [free_count |-> 0, inactive_count |-> 0, pageins |-> 0, memory_size |-> 0,
         memory_used |-> 0, memory_free |-> 0, swap_used |-> 0, swap_free |-> 0]

TypeOK ==
    /\ queues \in [free: 0..Pages, inactive: 0..Pages, busy: 0..Pages]
    /\ pageins \in 0..MaxPageins /\ before \in Unsigned /\ failed \in BOOLEAN
    /\ swapped \in 0..Swap
    /\ last \in MemoryStats /\ current \in MemoryStats /\ delta \in MemoryStats
    /\ pc \in {"start", "ctorswap", "constructed", "swap", "idle"}

\* memory is a global: its members start as zeros.
Init ==
    /\ queues \in [free: 0..Pages, inactive: 0..Pages, busy: 0..Pages]
    /\ queues.free + queues.inactive + queues.busy = Pages
    /\ pageins \in 0..MaxPageins
    /\ swapped \in 0..Swap
    /\ last = Zero /\ current = Zero /\ delta = Zero
    /\ pc = "start"
    /\ before = 0 /\ failed = FALSE

-----------------------------------------------------------------------------
(* The kernel.                                                             *)

MovePage ==
    /\ \E a, b \in {"free", "inactive", "busy"} :
        /\ a # b /\ queues[a] > 0
        /\ queues' = [queues EXCEPT ![a] = @ - 1, ![b] = @ + 1]
    /\ UNCHANGED <<pageins, swapped, last, current, delta, pc, history>>

PageIn ==
    /\ pageins < MaxPageins
    /\ pageins' = pageins + 1
    /\ swapped' \in 0..Swap
    /\ UNCHANGED <<queues, last, current, delta, pc, history>>

-----------------------------------------------------------------------------
(* class Memory                                                            *)

\* host_statistics64(), whose result nobody looks at: when it fails, vmstat is
\* what was on the stack.
VmStat  == [queues |-> queues, pageins |-> pageins]
VmStats == Stack \cup {VmStat}

\* read() up to its sysctl(): what it makes of vmstat.  memory_free takes a
\* number of pages off a number of bytes.
WithVm(s, vmstat) ==
    LET pages == vmstat.queues
        size  == (PageSize * (pages.free + pages.inactive + pages.busy)) % Word
        used  == (PageSize * (pages.busy + pages.inactive)) % Word
    IN  [s EXCEPT !.free_count = pages.free,
                  !.inactive_count = pages.inactive,
                  !.pageins = vmstat.pageins,
                  !.memory_size = size,
                  !.memory_used = used,
                  !.memory_free = Minus(Minus(size, used), pages.inactive)]

\* The sysctl(), which is not looked at either: used and available swap space.
SwapUsages == {<<swapped, Swap - swapped>>} \cup (0..Swap) \X (0..Swap)

\* read() from its sysctl() on.
WithSwap(s, swapused) == [s EXCEPT !.swap_used = swapused[1], !.swap_free = swapused[2]]

\* The constructor reads into last, then calls update().
ConstructorVm ==
    /\ pc = "start"
    /\ \E vmstat \in VmStats :
        last' = WithVm(last, vmstat) /\ failed' = (vmstat # VmStat)
    /\ pc' = "ctorswap"
    /\ UNCHANGED <<kernel, current, delta, before>>

ConstructorSwap ==
    /\ pc = "ctorswap"
    /\ \E swapused \in SwapUsages : last' = WithSwap(last, swapused)
    /\ before' = last.pageins
    /\ pc' = "constructed"
    /\ UNCHANGED <<kernel, current, delta, failed>>

UpdateVm ==
    /\ pc \in {"constructed", "idle"}
    /\ \E vmstat \in VmStats :
        current' = WithVm(current, vmstat) /\ failed' = (failed \/ vmstat # VmStat)
    /\ before' = IF pc = "idle" THEN current.pageins ELSE before
    /\ pc' = "swap"
    /\ UNCHANGED <<kernel, last, delta>>

\* The rest of update(): delta against last, which no update() ever changes.
\* The sizes are not among the members it computes.
UpdateSwap ==
    /\ pc = "swap"
    /\ \E swapused \in SwapUsages : current' = WithSwap(current, swapused)
    /\ delta' = [delta EXCEPT
                    !.free_count = Minus(current'.free_count, last.free_count),
                    !.inactive_count = Minus(current'.inactive_count, last.inactive_count),
                    !.pageins = Minus(current'.pageins, last.pageins),
                    !.swap_used = Minus(current'.swap_used, last.swap_used),
                    !.swap_free = Minus(current'.swap_free, last.swap_free)]
    /\ pc' = "idle"
    /\ UNCHANGED <<kernel, last, history>>

Monitor == ConstructorVm \/ ConstructorSwap \/ UpdateVm \/ UpdateSwap

Next == MovePage \/ PageIn \/ Monitor

\* The monitor refreshes again and again (see Cctop).
Spec == Init /\ [][Next]_vars /\ WF_vars(Monitor)

-----------------------------------------------------------------------------
(* Properties.                                                             *)

\* What the header over the paging counters says (Memory.cpp:140, "IN Current
\* OUT" beside "IN Aggregate OUT"): the first pair is what happened since the
\* refresh before.  It is what happened since cctop started: update() leaves
\* last as the constructor read it.  (Of readings that failed nothing is claimed.)
CurrentIsCurrent ==
    pc = "idle" /\ ~failed => delta.pageins = Minus(current.pageins, before)

=============================================================================
