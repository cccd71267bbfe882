------------------------------- MODULE Memory -------------------------------
(***************************************************************************)
(* The memory managers: the bitmap of page frames (pmm.c) and the address   *)
(* spaces made of them (vmm.c), as the kernel uses them when it allocates,  *)
(* when it starts and ends a task, and when a program asks for pages.       *)
(*                                                                         *)
(* The lower part of every address space is one and the same: its tables    *)
(* are the kernel's (PMEM_TABLES).  PROGRAM_BOTTOM lies there too, so the   *)
(* pages a program asks for are shared as long as there are any.  The upper *)
(* part is private to a page directory.  A directory is the frame it is in, *)
(* its page tables are one frame, and free frames and pages are found       *)
(* lowest first.                                                            *)
(***************************************************************************)
EXTENDS Integers, FiniteSets

CONSTANTS
    Frames,         \* bound: the page frames of the machine
    SharedPages,    \* bound: ALLOCATABLE_BOTTOM .. USERSPACE_BOTTOM
    PrivatePages,   \* bound: the pages above USERSPACE_BOTTOM
    Image,          \* the private pages of a program's segments and stack
    ArgPages        \* the pages vfs_exec copies the arguments to

ASSUME PagesAssumption ==
    /\ Frames \subseteq Nat \ {0} /\ IsFiniteSet(Frames)
    /\ SharedPages \subseteq Nat /\ IsFiniteSet(SharedPages)
    /\ PrivatePages \subseteq Nat /\ IsFiniteSet(PrivatePages)
    /\ SharedPages \cap PrivatePages = {}
    /\ Image \subseteq PrivatePages /\ Image # {}
    /\ ArgPages \in Nat

VARIABLES
    allocatable,    \* the bitmap: the free frames
    shared,         \* shared[v]: the frame a shared page is mapped to, or 0
    holder,         \* holder[v]: who got the shared page
    spaces,         \* the page directories: [directory -> space]
    current,        \* the page directory of the running task, or 0
    history         \* ghost: how many tasks were started, not started, ended

vars == <<allocatable, shared, holder, spaces, current, history>>

Unmapped == 0

(* What a shared page is to whoever got it last: no page of anybody's, the  *)
(* kernel's heap, a program's, or a window on frames that were freed.       *)
Holders == {"nobody", "kernel", "program", "stale"}

FrameOr == Frames \cup {Unmapped}

(* task: a task was started in it.                                          *)
Space == [task : BOOLEAN, context : Frames, tables : Frames, pages : [PrivatePages -> FrameOr]]

Init ==
    /\ allocatable = Frames
    /\ shared = [v \in SharedPages |-> Unmapped]
    /\ holder = [v \in SharedPages |-> "nobody"]
    /\ spaces = [d \in {} |-> 0] /\ current = 0
    /\ history = [started |-> 0, failed |-> 0, ended |-> 0]

Directories == DOMAIN spaces

OfTasks == {d \in Directories : spaces[d].task}

-----------------------------------------------------------------------------
(* pmm_alloc and vmm_alloc_in_range search from the bottom up: the k-th     *)
(* lowest member of a set.                                                  *)
Lowest(S, k) == CHOOSE x \in S : Cardinality({y \in S : y < x}) = k - 1

Rank(S, x) == Cardinality({y \in S : y < x}) + 1

FirstFew(S, k) == {x \in S : Rank(S, x) <= k}

(* pmm_alloc, k times.                                                      *)
WithoutTaken(k) == allocatable \ FirstFew(allocatable, k)

Frame(k) == Lowest(allocatable, k)

(* The bounds: nothing is asked for when there is none left.                *)
Available(frames, pages) ==
    /\ Cardinality(allocatable) >= frames
    /\ Cardinality({v \in SharedPages : shared[v] = Unmapped}) >= pages

VacantShared == {v \in SharedPages : shared[v] = Unmapped}

(* The next k vacant shared pages get the frames from number first on.      *)
Mapped(k, first) ==
    [v \in SharedPages |->
        IF v \in FirstFew(VacantShared, k)
        THEN Frame(first + Rank(VacantShared, v) - 1)
        ELSE shared[v]]

Held(k, by) ==
    [v \in SharedPages |-> IF v \in FirstFew(VacantShared, k) THEN by ELSE holder[v]]

(* vmm_alloc_cont for the heap, which never gives a page back.              *)
vmm_alloc ==
    /\ Available(1, 1)
    /\ shared' = Mapped(1, 1)
    /\ holder' = Held(1, "kernel")
    /\ allocatable' = WithoutTaken(1)
    /\ UNCHANGED <<spaces, current, history>>

(* System call 203: the shared part is searched first.                      *)
vmm_alloc_ucont ==
    /\ current # 0
    /\ \/ /\ Available(1, 1)
          /\ shared' = Mapped(1, 1)
          /\ holder' = Held(1, "program")
          /\ UNCHANGED spaces
       \/ /\ Available(1, 0) /\ VacantShared = {}
          /\ LET vacant == {v \in PrivatePages : spaces[current].pages[v] = Unmapped}
             IN /\ vacant # {}
                /\ spaces' = [spaces EXCEPT ![current].pages[Lowest(vacant, 1)] = Frame(1)]
          /\ UNCHANGED <<shared, holder>>
    /\ allocatable' = WithoutTaken(1)
    /\ UNCHANGED <<current, history>>

(* Mutant: the page stays mapped to the frame that is freed.                *)
vmm_free_Mapped ==
    /\ current # 0
    /\ \E v \in SharedPages :
          /\ shared[v] # Unmapped
          /\ allocatable' = allocatable \cup {shared[v]}
    /\ UNCHANGED <<shared, holder, spaces, current, history>>

(* System call 204 on any page that is mapped: PROGRAM_BOTTOM is the bottom *)
(* of all that can be allocated, and nobody asks whose page it is.          *)
vmm_free ==
    /\ current # 0
    /\ \/ \E v \in SharedPages :
            /\ shared[v] # Unmapped
            /\ allocatable' = allocatable \cup {shared[v]}
            /\ shared' = [shared EXCEPT ![v] = Unmapped]
            /\ holder' = [holder EXCEPT ![v] = "nobody"]
            /\ UNCHANGED spaces
       \/ \E v \in PrivatePages :
            /\ spaces[current].pages[v] # Unmapped
            /\ allocatable' = allocatable \cup {spaces[current].pages[v]}
            /\ spaces' = [spaces EXCEPT ![current].pages[v] = Unmapped]
            /\ UNCHANGED <<shared, holder>>
    /\ UNCHANGED <<current, history>>

(***************************************************************************)
(* vmm_create_pagedir takes frames for the context, the directory, the      *)
(* array of pointers it works with, and the private page tables; all are    *)
(* mapped to shared pages for the time being and unmapped in the end, and   *)
(* the array's frame is never freed.                                        *)
(***************************************************************************)
Temporaries == 4

NewDirectory == Frame(2)

NewSpace(task, pages) ==
    [task |-> task, context |-> Frame(1), tables |-> Frame(4), pages |-> pages]

Empty == [v \in PrivatePages |-> Unmapped]

(* The segments and the stack, each page in a frame of its own.             *)
Loaded ==
    [v \in PrivatePages |->
        IF v \in Image THEN Frame(Temporaries + Rank(Image, v)) ELSE Unmapped]

(* vfs_exec of an ELF file.                                                 *)
vfs_exec ==
    LET used == Temporaries + Cardinality(Image) IN
    /\ Available(used + ArgPages, Temporaries + ArgPages)
    /\ spaces' = [d \in Directories \cup {NewDirectory} |->
                     IF d = NewDirectory THEN NewSpace(TRUE, Loaded) ELSE spaces[d]]
    /\ shared' = Mapped(ArgPages, used + 1)
    /\ holder' = Held(ArgPages, "program")
    /\ allocatable' = WithoutTaken(used + ArgPages)
    /\ current' = IF current = 0 THEN NewDirectory ELSE current
    /\ history' = [history EXCEPT !.started = @ + 1]

(* vfs_exec that fails between making the page directory and loading it.   *)
vfs_exec_failed ==
    /\ current # 0
    /\ Available(Temporaries, Temporaries)
    /\ spaces' = [d \in Directories \cup {NewDirectory} |->
                     IF d = NewDirectory THEN NewSpace(FALSE, Empty) ELSE spaces[d]]
    /\ allocatable' = WithoutTaken(Temporaries)
    /\ history' = [history EXCEPT !.failed = @ + 1]
    /\ UNCHANGED <<shared, holder, current>>

MappedPages(d) == {v \in PrivatePages : spaces[d].pages[v] # Unmapped}

(* Mutants: the page tables are not freed; PT_PRESENT is not looked at.     *)
FreedFrames_NoTables(d) == {d} \cup {spaces[d].pages[v] : v \in MappedPages(d)}

FreedFrames_All(d) == {d, spaces[d].tables} \cup {spaces[d].pages[v] : v \in PrivatePages}

FreedFrames(d) == {d, spaces[d].tables} \cup {spaces[d].pages[v] : v \in MappedPages(d)}

(***************************************************************************)
(* vmm_free_current_pagetables: the two shared pages through which it looks *)
(* at the directory and at its tables stay mapped to them, though both are  *)
(* freed.  The program's shared pages are not looked at.                    *)
(***************************************************************************)
vmm_free_current_pagetables ==
    LET ppd == Lowest(VacantShared, 1)
        ppt == Lowest(VacantShared, 2)
    IN /\ shared' = [shared EXCEPT ![ppd] = current, ![ppt] = spaces[current].tables]
       /\ holder' = [v \in SharedPages |->
                        IF v \in {ppd, ppt} THEN "stale" ELSE holder[v]]
       /\ allocatable' = allocatable \cup FreedFrames(current)
       /\ spaces' = [d \in Directories \ {current} |-> spaces[d]]
       /\ history' = [history EXCEPT !.ended = @ + 1]

(* The system halts when its last task ends.                                *)
terminate_current ==
    /\ current # 0 /\ Available(2, 2)
    /\ vmm_free_current_pagetables
    /\ current' \in OfTasks \ {current}

vmm_activate_pagedir ==
    /\ current # 0 /\ current' \in OfTasks
    /\ UNCHANGED <<allocatable, shared, holder, spaces, history>>

Next ==
    \/ vmm_alloc
    \/ vmm_alloc_ucont
    \/ vmm_free
    \/ vfs_exec
    \/ vfs_exec_failed
    \/ terminate_current
    \/ vmm_activate_pagedir

Spec == Init /\ [][Next]_vars

(* Programs that leave the kernel's pages alone: its heap, and the windows  *)
(* it has left mapped.  Those of the repository never use system call 204.  *)
(* Without the heap the kernel would not go on.                             *)
KernelPagesLeft ==
    \A v \in SharedPages : holder[v] \in {"kernel", "stale"} => shared'[v] # Unmapped

OrderlySpec == Init /\ [][Next /\ KernelPagesLeft]_vars

-----------------------------------------------------------------------------
(* Page tables hold frames, and the processor runs in a page directory that *)
(* has not been freed.                                                      *)
TypeOK ==
    /\ allocatable \subseteq Frames
    /\ shared \in [SharedPages -> FrameOr]
    /\ holder \in [SharedPages -> Holders]
    /\ Directories \subseteq Frames
    /\ \A d \in Directories : spaces[d] \in Space
    /\ current \in Directories \cup {0}
    /\ history \in [started : Nat, failed : Nat, ended : Nat]

(* Every use of a frame: by a shared page that somebody got, by the parts   *)
(* of an address space and by its private pages.                            *)
Shareds == {v \in SharedPages : holder[v] \in {"kernel", "program"}}

Uses ==
    {<<"shared", 0, v>> : v \in Shareds}
        \cup {"directory", "context", "tables"} \X Directories \X {0}
        \cup UNION {{<<"private", d, v>> : v \in MappedPages(d)} : d \in Directories}

FrameOf(use) ==
    CASE use[1] = "shared"    -> shared[use[3]]
      [] use[1] = "directory" -> use[2]
      [] use[1] = "context"   -> spaces[use[2]].context
      [] use[1] = "tables"    -> spaces[use[2]].tables
      [] use[1] = "private"   -> spaces[use[2]].pages[use[3]]

(* No frame serves two purposes, and none that serves one is free: whatever *)
(* tasks start, fail to start, ask for memory, free (their own image and    *)
(* the pages of other programs included) and end in which order, as long as *)
(* they leave the kernel's pages alone.                                     *)
FramesOwnedOnce ==
    /\ \A use \in Uses : FrameOf(use) \in Frames \ allocatable
    /\ \A u, w \in Uses : FrameOf(u) = FrameOf(w) => u = w

(* What is lost for good is exactly known: with every start the frame of    *)
(* the array of pointers, with every end that of the context, and with      *)
(* every start that fails the whole page directory.  All other frames are   *)
(* free or of use to a task or to the kernel.                               *)
Needed == {use \in Uses : use[1] = "shared" \/ use[2] \in OfTasks}

OfUse == {FrameOf(use) : use \in Needed}

LossesKnown ==
    Cardinality(Frames \ (allocatable \cup OfUse)) =
        history.started + Temporaries * history.failed + history.ended
=============================================================================
