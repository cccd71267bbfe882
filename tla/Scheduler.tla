----------------------------- MODULE Scheduler -----------------------------
(***************************************************************************)
(* The mikrOS process core: the task list, the round-robin scheduler, the   *)
(* RPC queues through which hardware interrupts reach driver programs, and  *)
(* the system calls and faults that start, stop and switch tasks.           *)
(*                                                                         *)
(* There is one CPU.  A handler of the kernel runs with interrupts off and  *)
(* is one action, except for the search loop of schedule(), whose turns are *)
(* actions of their own (pc = "scan") so that a search that never ends is a *)
(* behaviour of the model.                                                  *)
(*                                                                         *)
(* A `struct task *' is the PID of the task; the free()d structs of dead    *)
(* tasks are reset.  A program is the set of things it may ask the kernel   *)
(* for (Calls); registers, stacks and the text of programs are abstracted   *)
(* to "whose context is this, its main program's or its RPC handler's, and  *)
(* is its saved eax still the one that was saved".                          *)
(***************************************************************************)
EXTENDS Integers, Sequences, FiniteSets

CONSTANTS
    MaxPID,     \* bound on the number of tasks ever started
    Irqs,       \* the hardware interrupts that can be routed to a task
    MaxCalls,   \* bound on the RPC calls in the queues at any one time
    Files,      \* what a path handed to exec may name
    Calls       \* Calls[p]: what the program started as PID p may do

NULL == 0

Pid == 1 .. MaxPID

PidOrNull == 0 .. MaxPID

(***************************************************************************)
(* The page directory vfs_exec leaves active when the file is no ELF file:  *)
(* the one it had created for the task that is never made.                  *)
(***************************************************************************)
Orphan == MaxPID + 1

CallNames == {"exit", "exec", "sexec", "yield", "set_rpc_handler", "register_irq",
              "return_rpc", "fopenpmhandle_other", "fault"}

ASSUME BoundsAssumption == /\ MaxPID \in Nat \ {0}
                           /\ MaxCalls \in Nat
ASSUME FilesAssumption  == Files \subseteq {"elf", "missing", "corrupt"}
ASSUME CallsAssumption  == Calls \in [Pid -> SUBSET CallNames]

VARIABLES
    first_task, next, prev, live,                 \* the task list
    nextPID, sub_of, blocked_by_sub, child_of,    \* who started whom
    rpc, rpc_handler_addr, irq_rpcs,              \* the RPC queues
    current_task, cpuState, cpu, active_pagedir,  \* who owns the CPU
    schedulingEnabled, pc, cursor                 \* kernel control

list     == <<first_task, next, prev, live>>
family   == <<nextPID, sub_of, blocked_by_sub, child_of>>
routing  == <<rpc_handler_addr, irq_rpcs>>
machine  == <<current_task, cpuState, cpu, active_pagedir>>
control  == <<schedulingEnabled, pc, cursor>>
vars     == <<list, family, rpc, routing, machine, control>>

(***************************************************************************)
(* A saved or loaded CPU context; an RPC call waiting at or running in its  *)
(* destination.                                                             *)
(***************************************************************************)
cpu_state == [task : PidOrNull, code : {"main", "handler"}, eax : {"own", "zeroed"}]

rpc_call == [returnPID : PidOrNull, funcID : Irqs, executing : BOOLEAN, state : cpu_state]

Fresh(p, code) == [task |-> p, code |-> code, eax |-> "own"]

Init ==
    /\ first_task = NULL /\ live = {}
    /\ next = [p \in Pid |-> NULL] /\ prev = [p \in Pid |-> NULL]
    /\ nextPID = 1
    /\ sub_of = [p \in Pid |-> NULL]
    /\ blocked_by_sub = [p \in Pid |-> NULL]
    /\ child_of = [p \in Pid |-> NULL]
    /\ rpc = [p \in Pid |-> <<>>]
    /\ rpc_handler_addr = [p \in Pid |-> FALSE]
    /\ irq_rpcs = [i \in Irqs |-> 0]
    /\ current_task = NULL
    /\ cpuState = [p \in Pid |-> Fresh(NULL, "main")]
    /\ cpu = Fresh(NULL, "main")       \* kernel_main
    /\ active_pagedir = NULL           \* the kernel's
    /\ schedulingEnabled = FALSE
    /\ pc = "user" /\ cursor = NULL

-----------------------------------------------------------------------------
(***************************************************************************)
(* Saving the interrupted context and switching to a task.                  *)
(***************************************************************************)
Executing(t) == rpc[t] # <<>> /\ Head(rpc[t]).executing

(* save_cpu_state: into the running RPC's context, else into the task's.    *)
SavedStates(ctx) ==
    IF Executing(current_task) THEN cpuState
                               ELSE [cpuState EXCEPT ![current_task] = ctx]

SavedQueues(ctx) ==
    IF Executing(current_task) THEN [rpc EXCEPT ![current_task][1].state = ctx]
                               ELSE rpc

(* Mutant: the call is not marked as executing.                             *)
init_rpc_call_Unmarked(t, call) ==
    [call EXCEPT !.state = Fresh(t, "handler")]

init_rpc_call(t, call) ==
    [call EXCEPT !.state = Fresh(t, "handler"), !.executing = TRUE]

(* Mutant: the calls chained behind the one being initialised are lost.     *)
Initialised_Unchained(queues, dest) ==
    IF queues[dest] # <<>> /\ ~Head(queues[dest]).executing
    THEN [queues EXCEPT ![dest] = <<init_rpc_call(dest, Head(@))>>]
    ELSE queues

Initialised(queues, dest) ==
    IF queues[dest] # <<>> /\ ~Head(queues[dest]).executing
    THEN [queues EXCEPT ![dest] = <<init_rpc_call(dest, Head(@))>> \o Tail(@)]
    ELSE queues

(* Mutant: the page directory is not switched.                              *)
schedule_to_task_SamePagedir(dest, states, queues) ==
    /\ current_task' = dest
    /\ active_pagedir' = active_pagedir
    /\ cpuState' = states
    /\ rpc' = Initialised(queues, dest)
    /\ cpu' = IF queues[dest] = <<>>
              THEN states[dest]
              ELSE Head(Initialised(queues, dest)[dest]).state

schedule_to_task(dest, states, queues) ==
    /\ current_task' = dest
    /\ active_pagedir' = dest
    /\ cpuState' = states
    /\ rpc' = Initialised(queues, dest)
    /\ cpu' = IF queues[dest] = <<>>
              THEN states[dest]
              ELSE Head(Initialised(queues, dest)[dest]).state

(***************************************************************************)
(* schedule(): `do next = next->next, wrapping around, while blocked'.      *)
(***************************************************************************)
(* Mutants: no wrapping around at the end of the list; always the newest.   *)
NextInList_NoWrap(t) == IF next[t] # NULL THEN next[t] ELSE t

NextInList_Newest(t) == first_task

NextInList(t) == IF next[t] # NULL THEN next[t] ELSE first_task

schedule == pc' = "scan" /\ cursor' = current_task

ScanSkip ==
    /\ pc = "scan"
    /\ blocked_by_sub[NextInList(cursor)] # NULL
    /\ cursor' = NextInList(cursor)
    /\ UNCHANGED <<list, family, rpc, routing, machine, schedulingEnabled, pc>>

ScanTake ==
    /\ pc = "scan"
    /\ blocked_by_sub[NextInList(cursor)] = NULL
    /\ schedule_to_task(NextInList(cursor), SavedStates(cpu), SavedQueues(cpu))
    /\ pc' = "user" /\ cursor' = NULL
    /\ UNCHANGED <<list, family, routing, schedulingEnabled>>

(* The PIT interrupt.                                                       *)
Timer ==
    /\ pc = "user" /\ schedulingEnabled /\ current_task # NULL
    /\ schedule
    /\ UNCHANGED <<list, family, rpc, routing, machine, schedulingEnabled>>

(* The first PIT interrupt after scheduling was enabled: nothing is saved.  *)
FirstDispatch ==
    /\ pc = "user" /\ schedulingEnabled
    /\ current_task = NULL /\ first_task # NULL
    /\ current_task' = first_task
    /\ active_pagedir' = first_task
    /\ cpu' = cpuState[first_task]
    /\ UNCHANGED <<list, family, rpc, routing, cpuState, control>>

-----------------------------------------------------------------------------
(***************************************************************************)
(* What the running program does.  It is the program mapped by the active   *)
(* page directory that runs; a system call enters the kernel by saving the  *)
(* caller's context, whose eax then holds the call's number or result.      *)
(***************************************************************************)
May(call) ==
    /\ pc = "user" /\ current_task # NULL
    /\ active_pagedir \in Pid /\ call \in Calls[active_pagedir]

Caller == [cpu EXCEPT !.eax = "own"]

SaveCaller ==
    /\ cpuState' = SavedStates(Caller)
    /\ rpc' = SavedQueues(Caller)

yield ==
    /\ May("yield")
    /\ SaveCaller
    /\ cpu' = Caller
    /\ schedule
    /\ UNCHANGED <<list, family, routing, current_task, active_pagedir,
                   schedulingEnabled>>

set_rpc_handler ==
    /\ May("set_rpc_handler")
    /\ SaveCaller
    /\ cpu' = Caller
    /\ rpc_handler_addr' = [rpc_handler_addr EXCEPT ![current_task] = TRUE]
    /\ UNCHANGED <<list, family, irq_rpcs, current_task, active_pagedir, control>>

register_irq_rpc(i) ==
    /\ May("register_irq")
    /\ SaveCaller
    /\ cpu' = Caller
    /\ irq_rpcs' = [irq_rpcs EXCEPT ![i] = current_task]
    /\ UNCHANGED <<list, family, rpc_handler_addr, current_task, active_pagedir, control>>

-----------------------------------------------------------------------------
(***************************************************************************)
(* Starting a task.                                                         *)
(***************************************************************************)
(* Mutant: the old head keeps its null prev.                                *)
PrevAfterInsert_Unlinked(p) == prev

PrevAfterInsert(p) ==
    [t \in Pid |-> IF t = p THEN NULL ELSE IF t = first_task THEN p ELSE prev[t]]

init_task(p) ==
    /\ first_task' = p
    /\ next' = [next EXCEPT ![p] = first_task]
    /\ prev' = PrevAfterInsert(p)
    /\ live' = live \cup {p}
    /\ nextPID' = nextPID + 1

(* Mutant: nobody is blocked.                                               *)
BlockParent_None(parent, p) == blocked_by_sub

BlockParent(parent, p) == [blocked_by_sub EXCEPT ![parent] = p]

(* vfs_exec of an ELF file; sub: the parent waits for the new task.         *)
ExecElf(sub) ==
    /\ nextPID \in Pid
    /\ init_task(nextPID)
    /\ child_of' = [child_of EXCEPT ![nextPID] = current_task]
    /\ sub_of' = [sub_of EXCEPT ![nextPID] = IF sub THEN current_task ELSE NULL]
    /\ blocked_by_sub' = IF sub THEN BlockParent(current_task, nextPID)
                                ELSE blocked_by_sub
    /\ UNCHANGED active_pagedir

(* vfs_exec of anything else: no task; a corrupt file is noticed after the  *)
(* switch to the new page directory, which stays active.                    *)
ExecFailed(file) ==
    /\ active_pagedir' = IF file = "corrupt" THEN Orphan ELSE active_pagedir
    /\ UNCHANGED <<list, family>>

(* The exec system call: schedule() is called whenever a subtask was asked  *)
(* for, also when none was started.                                         *)
exec(sub) ==
    /\ May(IF sub THEN "sexec" ELSE "exec")
    /\ \E file \in Files :
         IF file = "elf"
         THEN /\ ExecElf(sub)
              /\ cpuState' = [SavedStates(Caller) EXCEPT ![nextPID] = Fresh(nextPID, "main")]
         ELSE /\ ExecFailed(file)
              /\ cpuState' = SavedStates(Caller)
    /\ rpc' = SavedQueues(Caller)
    /\ cpu' = Caller
    /\ IF sub THEN schedule ELSE UNCHANGED <<pc, cursor>>
    /\ UNCHANGED <<routing, current_task, schedulingEnabled>>

(* kernel_main: start /ibin/init, then let the timer schedule.              *)
StartInit ==
    /\ pc = "user" /\ current_task = NULL /\ live = {} /\ ~schedulingEnabled
    /\ ExecElf(FALSE)
    /\ cpuState' = [cpuState EXCEPT ![nextPID] = Fresh(nextPID, "main")]
    /\ UNCHANGED <<rpc, routing, current_task, cpu, control>>

enableScheduling ==
    /\ pc = "user" /\ ~schedulingEnabled /\ live # {}
    /\ schedulingEnabled' = TRUE
    /\ UNCHANGED <<list, family, rpc, routing, machine, pc, cursor>>

-----------------------------------------------------------------------------
(***************************************************************************)
(* Stopping a task.  The next task in the list takes over, whatever its     *)
(* state, with its main program's context.                                  *)
(***************************************************************************)
Freed(f, nothing) == [f EXCEPT ![current_task] = nothing]

NextAfterUnlink ==
    [t \in Pid |-> IF t = prev[current_task] THEN next[current_task] ELSE next[t]]

PrevAfterUnlink ==
    [t \in Pid |-> IF t = next[current_task] THEN prev[current_task] ELSE prev[t]]

(* Mutant: the parent stays blocked on the freed subtask.                   *)
ReleaseParent_Forgotten == blocked_by_sub

ReleaseParent ==
    IF sub_of[current_task] = NULL THEN blocked_by_sub
    ELSE [blocked_by_sub EXCEPT ![sub_of[current_task]] = NULL]

FirstAfterUnlink ==
    IF current_task = first_task THEN next[current_task] ELSE first_task

(* Mutant: the search starts anew at the head of the list.                  *)
Successor_First == FirstAfterUnlink

Successor ==
    IF next[current_task] # NULL THEN next[current_task] ELSE FirstAfterUnlink

(* context: what the interrupted handler returns to.                        *)
terminate_current(context) ==
    /\ first_task' = FirstAfterUnlink
    /\ next' = [NextAfterUnlink EXCEPT ![current_task] = NULL]
    /\ prev' = [PrevAfterUnlink EXCEPT ![current_task] = NULL]
    /\ live' = live \ {current_task}
    /\ blocked_by_sub' = [ReleaseParent EXCEPT ![current_task] = NULL]
    /\ sub_of' = Freed(sub_of, NULL)
    /\ child_of' = Freed(child_of, NULL)
    /\ rpc' = Freed(rpc, <<>>)
    /\ rpc_handler_addr' = Freed(rpc_handler_addr, FALSE)
    /\ cpuState' = Freed(cpuState, Fresh(NULL, "main"))
    /\ current_task' = Successor
    /\ IF Successor = NULL
       THEN pc' = "halt" /\ UNCHANGED <<cpu, active_pagedir>>      \* show_cod
       ELSE /\ cpu' = context
            /\ active_pagedir' = Successor
            /\ UNCHANGED pc
    /\ UNCHANGED <<nextPID, irq_rpcs, schedulingEnabled, cursor>>

SuccessorState ==
    IF Successor = NULL THEN cpu ELSE cpuState[Successor]

(* schedule_exception: the last task cannot be replaced, the system stops.  *)
schedule_exception(context) ==
    IF current_task = first_task /\ next[current_task] = NULL
    THEN /\ pc' = "halt"
         /\ UNCHANGED <<list, family, rpc, routing, machine, schedulingEnabled, cursor>>
    ELSE terminate_current(context)

exit == May("exit") /\ terminate_current(SuccessorState)

(* A CPU exception of the running program; it cannot but fault when the     *)
(* active page directory is not its own.                                    *)
Fault ==
    /\ pc = "user" /\ current_task # NULL
    /\ May("fault") \/ active_pagedir # cpu.task
    /\ schedule_exception(SuccessorState)

(* fopenpmhandle on a task that is no child of the caller: the caller is    *)
(* terminated, but the context schedule_exception returns is not used.      *)
fopenpmhandle_other ==
    /\ May("fopenpmhandle_other")
    /\ \E tsk \in live : child_of[tsk] # current_task
    /\ schedule_exception(Caller)

show_cod == pc = "halt" /\ UNCHANGED vars

-----------------------------------------------------------------------------
(***************************************************************************)
(* Interrupts delivered as RPCs.                                            *)
(***************************************************************************)
(* Mutant: the new call goes to the front of the chain.                     *)
create_rpc_call_Front(d, i) ==
    <<[returnPID |-> current_task, funcID |-> i, executing |-> FALSE,
       state |-> Fresh(NULL, "main")]>> \o rpc[d]

create_rpc_call(d, i) ==
    Append(rpc[d], [returnPID |-> current_task, funcID |-> i, executing |-> FALSE,
                    state |-> Fresh(NULL, "main")])

(* RPCE_NODEST, RPCE_NOFUNC: the call is not queued.                        *)
Accepts(d) == d \in live /\ rpc_handler_addr[d]

Calling == UNION {{t} \X DOMAIN rpc[t] : t \in Pid}

Irq(i) ==
    /\ pc = "user" /\ current_task # NULL
    /\ irq_rpcs[i] > 0 /\ Accepts(irq_rpcs[i])
    /\ Cardinality(Calling) < MaxCalls
    /\ rpc' = [rpc EXCEPT ![irq_rpcs[i]] = create_rpc_call(irq_rpcs[i], i)]
    /\ UNCHANGED <<list, family, routing, machine, schedulingEnabled, pc, cursor>>

(* Mutant: the sign is changed whether the interrupt was disabled or not.   *)
enable_irq_rpc_Toggle(i) ==
    [irq_rpcs EXCEPT ![i] = -@]

enable_irq_rpc(i) ==
    [irq_rpcs EXCEPT ![i] = IF @ < 0 THEN -@ ELSE @]

(* Mutants: the finished call stays at the head of the queue; the calls     *)
(* behind it go with it.                                                    *)
PoppedQueues_Kept == SavedQueues(Caller)

PoppedQueues_All == [SavedQueues(Caller) EXCEPT ![current_task] = <<>>]

PoppedQueues == [SavedQueues(Caller) EXCEPT ![current_task] = Tail(@)]

(* return_rpc_call: the task that was interrupted continues, if it still    *)
(* exists, with RPCE_OK in its saved eax.                                   *)
return_rpc_call ==
    /\ May("return_rpc") \/ (pc = "user" /\ current_task # NULL /\ active_pagedir = cpu.task
                             /\ cpu.code = "handler")
    /\ IF rpc[current_task] = <<>>
       THEN terminate_current(SuccessorState)
       ELSE LET call  == Head(rpc[current_task])
                rTask == call.returnPID
            IN /\ irq_rpcs' = enable_irq_rpc(call.funcID)
               /\ IF rTask \in live
                  THEN schedule_to_task(rTask,
                           [SavedStates(Caller) EXCEPT ![rTask].eax = "zeroed"],
                           PoppedQueues)
                  ELSE schedule_to_task(current_task, SavedStates(Caller), PoppedQueues)
               /\ UNCHANGED <<list, family, rpc_handler_addr, control>>

-----------------------------------------------------------------------------
Boot == StartInit \/ enableScheduling \/ FirstDispatch

Scan == ScanSkip \/ ScanTake

Program ==
    \/ yield
    \/ set_rpc_handler
    \/ \E i \in Irqs : register_irq_rpc(i)
    \/ \E sub \in BOOLEAN : exec(sub)
    \/ exit
    \/ Fault
    \/ fopenpmhandle_other
    \/ return_rpc_call

Next ==
    \/ Boot
    \/ Scan
    \/ Timer
    \/ Program
    \/ \E i \in Irqs : Irq(i)
    \/ show_cod

Spec == Init /\ [][Next]_vars

(***************************************************************************)
(* The kernel's own steps are never optional: the turns of the search loop  *)
(* follow each other, and the PIT interrupt is latched until it is taken.   *)
(***************************************************************************)
KernelFairness == WF_vars(Boot) /\ WF_vars(Scan) /\ WF_vars(Timer)

(* An RPC handler that gets the CPU again and again returns in the end      *)
(* (_handle_rpc ends in return_rpc).                                        *)
HandlerFairness ==
    SF_vars(cpu.code = "handler" /\ return_rpc_call)

FairSpec == Spec /\ KernelFairness

HandlerSpec == FairSpec /\ HandlerFairness

-----------------------------------------------------------------------------
(* Every variable holds a value of its C type.                              *)
TypeOK ==
    /\ first_task \in PidOrNull /\ live \subseteq Pid
    /\ next \in [Pid -> PidOrNull] /\ prev \in [Pid -> PidOrNull]
    /\ nextPID \in 1 .. MaxPID + 1
    /\ sub_of \in [Pid -> PidOrNull]
    /\ blocked_by_sub \in [Pid -> PidOrNull]
    /\ child_of \in [Pid -> PidOrNull]
    /\ rpc \in [Pid -> Seq(rpc_call)]
    /\ rpc_handler_addr \in [Pid -> BOOLEAN]
    /\ irq_rpcs \in [Irqs -> PidOrNull]
    /\ current_task \in PidOrNull
    /\ cpuState \in [Pid -> cpu_state] /\ cpu \in cpu_state
    /\ active_pagedir \in PidOrNull \cup {Orphan}
    /\ schedulingEnabled \in BOOLEAN
    /\ pc \in {"user", "scan", "halt"}
    /\ cursor \in PidOrNull

(* The task list holds exactly the live tasks, newest first, and both link  *)
(* directions agree, whatever tasks start, exit and fault in which order;   *)
(* the running task and the turn of the search loop are on it.              *)
NextIsOlder ==
    \A t \in live : /\ next[t] \in live \cup {NULL}
                    /\ next[t] < t
                    /\ \A u \in live : u < t => u <= next[t]

PrevIsNewer ==
    \A t \in live : /\ prev[t] \in live \cup {NULL}
                    /\ prev[t] # NULL => prev[t] > t
                    /\ \A u \in live : u > t => prev[t] # NULL /\ prev[t] <= u

FirstIsNewest ==
    /\ first_task \in live \cup {NULL}
    /\ \A t \in live : t <= first_task /\ t < nextPID

OnList ==
    /\ current_task # NULL => current_task \in live
    /\ pc = "scan" => cursor \in live /\ current_task # NULL

TaskListIntact == NextIsOlder /\ PrevIsNewer /\ FirstIsNewest /\ OnList

(* A task blocked by a subtask waits for a task that exists, is younger and *)
(* will release it: no exit leaves a parent blocked on a freed struct task. *)
SubtaskAlive ==
    \A t \in live : blocked_by_sub[t] # NULL =>
        /\ blocked_by_sub[t] \in live
        /\ blocked_by_sub[t] > t
        /\ sub_of[blocked_by_sub[t]] = t

(* schedule()'s loop has something to find: the newest task is never        *)
(* blocked. It follows from the two above (SchedulerProofs), so no run      *)
(* checks it again.                                                         *)
NewestIsRunnable ==
    first_task # NULL => blocked_by_sub[first_task] = NULL

(* At most the head of a task's RPC queue is being executed, and only tasks *)
(* with a handler have calls queued.                                        *)
OneRpcAtATime ==
    \A t \in live : /\ \A n \in 2 .. Len(rpc[t]) : ~rpc[t][n].executing
                    /\ rpc[t] # <<>> => rpc_handler_addr[t]

(* The search of schedule(), which runs with interrupts off, ends.          *)
ScanEnds == pc = "scan" ~> pc # "scan"

(***************************************************************************)
(* When the CPU goes from one task to another, no ready task between them   *)
(* in the round of the list is passed over, however many tasks start, end   *)
(* and are blocked meanwhile: not by the search, and not at the end of a    *)
(* task.  Only the return from an interrupt's call goes to another place,   *)
(* to the task that was interrupted.                                        *)
(***************************************************************************)
Between(c, d) == {t \in live : IF d < c THEN d < t /\ t < c ELSE t < c \/ d < t}

Handed == (pc = "scan" /\ pc' # "scan") \/ current_task' # current_task

ReturnsFromCall ==
    /\ current_task \in live'
    /\ Len(rpc'[current_task]) < Len(rpc[current_task])

NobodyPassedOver ==
    [][Handed => \/ ReturnsFromCall
                 \/ \A t \in Between(current_task, current_task') :
                        blocked_by_sub[t] # NULL]_vars

(***************************************************************************)
(* A task that is ready to run waits for ever only if interrupts never      *)
(* cease: each return from an interrupt's call goes back to the task that   *)
(* was interrupted, so the driver and that task can have the CPU in turn,   *)
(* and the round never gets to a third.                                     *)
(***************************************************************************)
NoStarvation ==
    \A t \in Pid :
        \/ []<><<\E i \in Irqs : Irq(i)>>_vars
        \/ (t \in live /\ blocked_by_sub[t] = NULL) ~>
               (current_task = t \/ t \notin live \/ pc = "halt")

(* The context on the CPU is the current task's, and it is its RPC          *)
(* handler's exactly while the head of its RPC queue is executing.          *)
ContextConsistent ==
    pc = "user" /\ current_task # NULL =>
        /\ cpu.task = current_task
        /\ (cpu.code = "handler") = Executing(current_task)

(* A task's code runs under its own page directory.                         *)
RunsInOwnPagedir ==
    pc = "user" /\ current_task # NULL => active_pagedir = cpu.task

(* A task that was terminated does not run any more.                        *)
TerminatedDoesNotRun ==
    pc = "user" /\ current_task # NULL => cpu.task \in live

(* A program that was interrupted continues with the registers it had.      *)
RegistersRestored ==
    pc = "user" => cpu.eax = "own"

(* Every interrupt that was queued for a task is handled and returned from, *)
(* though more may come for ever: a queue that is never empty again is      *)
(* shortened again and again, from its front (RpcsInTurn).                  *)
RpcsComplete ==
    \A t \in Pid :
        \/ []<>(rpc[t] = <<>>)
        \/ []<><<Len(rpc'[t]) < Len(rpc[t])>>_vars

(***************************************************************************)
(* Workloads like that of the repository: only drivers ask for interrupts,  *)
(* and drivers and init go on for ever; no task leaves that was started     *)
(* right behind a driver, so that none ends with a driver as the next in    *)
(* the list; return_rpc is left to the handlers; and files that look like   *)
(* ELF files are.                                                           *)
(***************************************************************************)
Leaves(p) == Calls[p] \cap {"exit", "fault"} # {}

Drives(p) == "register_irq" \in Calls[p]

DriversStay ==
    /\ "corrupt" \notin Files
    /\ \A p \in Pid : Calls[p] \cap {"return_rpc", "fopenpmhandle_other"} = {}
    /\ ~Leaves(1)
    /\ \A d \in Pid : Drives(d) =>
           /\ ~Leaves(d)
           /\ \A p \in Pid : Leaves(p) /\ d < p => \E q \in d + 1 .. p - 1 : ~Leaves(q)

(* An RPC leaves a task's queue only when that task's own handler returns.  *)
PoppedByItsHandler ==
    [][\A t \in live : Len(rpc'[t]) < Len(rpc[t]) =>
           cpu.task = t /\ cpu.code = "handler"]_vars

(* Interrupts are served in the order in which they came, whatever the      *)
(* programs do, drivers that end, return twice or never among them: in a    *)
(* step a queue loses at most its oldest call, and only at the task that    *)
(* has the CPU, or gets one more behind all others, or ends with its task.  *)
(* What a call asks for and whom it interrupted stay with it.               *)
Asked(queue) == [n \in DOMAIN queue |-> <<queue[n].funcID, queue[n].returnPID>>]

RpcsInTurn ==
    [][\A t \in Pid :
           \/ Asked(rpc'[t]) = Asked(rpc[t])
           \/ t = current_task /\ rpc[t] # <<>> /\ Asked(rpc'[t]) = Tail(Asked(rpc[t]))
           \/ t \in live /\ \E i \in Irqs :
                  irq_rpcs[i] = t /\ Asked(rpc'[t]) = Append(Asked(rpc[t]), <<i, current_task>>)
           \/ t \notin live' /\ rpc'[t] = <<>>]_vars

(***************************************************************************)
(* Programs that start others in the foreground only (sexec, fsexec), as    *)
(* stsh, pierresh and repeat do, while no interrupt is turned into an RPC:  *)
(* each task is the subtask of the next older one, ...                      *)
(***************************************************************************)
SubtasksOnly == \A t \in live : sub_of[t] = next[t] /\ rpc[t] = <<>>

(* ... each waits for the next newer one, and the newest has the CPU.       *)
Foreground ==
    /\ SubtasksOnly
    /\ \A t \in live : next[t] # NULL => blocked_by_sub[next[t]] = t
    /\ pc = "user" => current_task \in {NULL, first_task}
    /\ pc = "user" /\ current_task = NULL => live \subseteq {1} /\ nextPID <= 2
    /\ pc = "user" /\ live = {} => nextPID = 1

Promised == INSTANCE Processes WITH
    started  <- nextPID - 1,
    alive    <- live,
    waitsFor <- blocked_by_sub,
    running  <- IF pc = "user" THEN current_task ELSE NULL

(* For as long as programs start others in the foreground only, the process *)
(* core implements the abstract processes: a waiting parent never runs and  *)
(* resumes at once when its own subtask is gone.                            *)
KeepsPromise ==
    /\ Promised!PInit /\ Foreground
    /\ [][Foreground /\ SubtasksOnly' => [Promised!PNext]_(Promised!pvars) /\ Foreground']_vars
=============================================================================
