-------------------------- MODULE SchedulerProofs --------------------------
(***************************************************************************)
(* Proofs about the process core, for every number of tasks, every set of   *)
(* interrupts and every workload (but where a hypothesis says otherwise).   *)
(* Part one: the task list stays intact, blocked tasks wait for living      *)
(* subtasks, and the scheduler's search always has a task to find.          *)
(* Part two: the scheduler implements the abstract processes of Processes   *)
(* for as long as programs start others in the foreground only.             *)
(* Part three: a queue of RPCs is worked off in order, every context is that*)
(* of the task it is filed under, and the running task is in its own address*)
(* space, for drivers that stay in their handlers until they return.        *)
(* Part four: interrupts are served in the order in which they came.        *)
(* Part five: the CPU goes round the list without passing over a ready task.*)
(***************************************************************************)
EXTENDS Scheduler, TLAPS

(* The parts of TypeOK, grouped as the variables are.                       *)
ListTypes ==
    /\ first_task \in PidOrNull /\ live \subseteq Pid
    /\ next \in [Pid -> PidOrNull] /\ prev \in [Pid -> PidOrNull]
    /\ nextPID \in 1 .. MaxPID + 1

(* Free slots of the task table block nobody.                               *)
FreeUnblocked == \A t \in Pid \ live : blocked_by_sub[t] = NULL

Inv == TypeOK /\ TaskListIntact /\ SubtaskAlive /\ FreeUnblocked

-----------------------------------------------------------------------------
(* The saved contexts and queues keep their types, whoever is saved.        *)
LEMMA SavedTypes ==
    ASSUME TypeOK, current_task \in Pid, NEW ctx \in cpu_state
    PROVE  /\ SavedStates(ctx) \in [Pid -> cpu_state]
           /\ SavedQueues(ctx) \in [Pid -> Seq(rpc_call)]
           /\ \A t \in Pid : Len(SavedQueues(ctx)[t]) = Len(rpc[t])
<1>1. rpc \in [Pid -> Seq(rpc_call)] /\ cpuState \in [Pid -> cpu_state]
  BY DEF TypeOK
<1>2. SavedStates(ctx) \in [Pid -> cpu_state]
  BY <1>1 DEF SavedStates
<1>3. CASE Executing(current_task)
  <2> DEFINE q == rpc[current_task]
             saved == [q EXCEPT ![1].state = ctx]
  <2>1. q \in Seq(rpc_call) /\ q # <<>>
    BY <1>1, <1>3 DEF Executing
  <2>2. Len(q) \in Nat /\ 1 \in 1 .. Len(q) /\ q[1] \in rpc_call
    BY <2>1
  <2>3. [q[1] EXCEPT !.state = ctx] \in rpc_call
    BY <2>2 DEF rpc_call
  <2>4. saved \in Seq(rpc_call) /\ Len(saved) = Len(q)
    BY <2>1, <2>2, <2>3
  <2>5. SavedQueues(ctx) = [rpc EXCEPT ![current_task] = saved]
    BY <1>3 DEF SavedQueues
  <2> QED BY <1>1, <1>2, <2>4, <2>5
<1>4. CASE ~Executing(current_task)
  BY <1>1, <1>2, <1>4 DEF SavedQueues
<1> QED BY <1>3, <1>4

(* A context made from nothing is one.                                      *)
LEMMA FreshType ==
    ASSUME NEW p \in PidOrNull, NEW code \in {"main", "handler"}
    PROVE  Fresh(p, code) \in cpu_state
BY DEF Fresh, cpu_state

(* What an interrupt saves of the running program is a context.             *)
LEMMA CallerType ==
    ASSUME TypeOK
    PROVE  Caller \in cpu_state
BY DEF TypeOK, Caller, cpu_state

(* Initialising the head of a queue keeps the queues' type.                 *)
LEMMA InitialisedType ==
    ASSUME NEW queues \in [Pid -> Seq(rpc_call)], NEW dest \in Pid
    PROVE  /\ Initialised(queues, dest) \in [Pid -> Seq(rpc_call)]
           /\ queues[dest] # <<>> => Initialised(queues, dest)[dest] # <<>>
<1>1. CASE queues[dest] # <<>> /\ ~Head(queues[dest]).executing
  <2> DEFINE q == queues[dest]
             call == init_rpc_call(dest, Head(q))
  <2>1. q \in Seq(rpc_call) /\ q # <<>>
    BY <1>1
  <2>2. Head(q) \in rpc_call /\ Tail(q) \in Seq(rpc_call)
    BY <2>1
  <2>3. Fresh(dest, "handler") \in cpu_state
    BY FreshType DEF Pid, PidOrNull
  <2>4. call \in rpc_call
    BY <2>2, <2>3 DEF init_rpc_call, rpc_call
  <2>5. <<call>> \o Tail(q) \in Seq(rpc_call) /\ <<call>> \o Tail(q) # <<>>
    BY <2>2, <2>4
  <2>6. Initialised(queues, dest) = [queues EXCEPT ![dest] = <<call>> \o Tail(q)]
    BY <1>1 DEF Initialised
  <2> QED BY <2>5, <2>6
<1>2. CASE ~(queues[dest] # <<>> /\ ~Head(queues[dest]).executing)
  BY <1>2 DEF Initialised
<1> QED BY <1>1, <1>2

(* Switching to a task keeps the types of everything it assigns.            *)
LEMMA ScheduleToTypes ==
    ASSUME NEW dest \in Pid, NEW states \in [Pid -> cpu_state],
           NEW queues \in [Pid -> Seq(rpc_call)],
           schedule_to_task(dest, states, queues)
    PROVE  /\ current_task' \in PidOrNull
           /\ active_pagedir' \in PidOrNull \cup {Orphan}
           /\ cpuState' \in [Pid -> cpu_state]
           /\ rpc' \in [Pid -> Seq(rpc_call)]
           /\ cpu' \in cpu_state
<1> DEFINE q == Initialised(queues, dest)
<1>1. q \in [Pid -> Seq(rpc_call)] /\ (queues[dest] # <<>> => q[dest] # <<>>)
  BY InitialisedType
<1>2. CASE queues[dest] = <<>>
  BY <1>1, <1>2 DEF schedule_to_task, Pid, PidOrNull
<1>3. CASE queues[dest] # <<>>
  <2>1. Head(q[dest]) \in rpc_call
    BY <1>1, <1>3
  <2>2. Head(q[dest]).state \in cpu_state
    BY <2>1 DEF rpc_call
  <2> QED BY <1>1, <1>3, <2>2 DEF schedule_to_task, Pid, PidOrNull
<1> QED BY <1>2, <1>3

-----------------------------------------------------------------------------
Links == NextIsOlder /\ PrevIsNewer /\ FirstIsNewest

(* init_task puts the new task in front of an intact list.                  *)
LEMMA InsertLinks ==
    ASSUME ListTypes, Links, nextPID \in Pid, init_task(nextPID)
    PROVE  ListTypes' /\ Links'
<1> USE DEF ListTypes, Pid, PidOrNull, NULL
<1>1. MaxPID \in Nat
  BY BoundsAssumption
<1>2. ListTypes'
  BY <1>1 DEF init_task, PrevAfterInsert
<1>3. NextIsOlder'
  BY <1>1 DEF init_task, Links, NextIsOlder, FirstIsNewest
<1>4. PrevIsNewer'
  <2> DEFINE p == nextPID
  <2>1. /\ p \in Nat /\ p # 0 /\ live' = live \cup {p} /\ live \subseteq Pid
        /\ \A t \in live : t < p /\ t <= first_task
        /\ first_task \in live \cup {0}
    BY <1>1 DEF init_task, Links, FirstIsNewest
  <2>2. prev'[p] = 0 /\ \A t \in live : prev'[t] = IF t = first_task THEN p ELSE prev[t]
    BY <1>1, <2>1 DEF init_task, PrevAfterInsert
  <2>3. \A t \in live : /\ prev[t] \in live \cup {0} /\ (prev[t] # 0 => prev[t] > t)
                        /\ \A u \in live : u > t => prev[t] # 0 /\ prev[t] <= u
    BY DEF Links, PrevIsNewer
  <2> HIDE DEF p
  <2>4. ASSUME NEW t \in live'
        PROVE  /\ prev'[t] \in live' \cup {0} /\ (prev'[t] # 0 => prev'[t] > t)
               /\ \A u \in live' : u > t => prev'[t] # 0 /\ prev'[t] <= u
    <3>1. CASE t = p
      BY <1>1, <2>1, <2>2, <3>1
    <3>2. CASE t \in live /\ t = first_task
      BY <1>1, <2>1, <2>2, <3>2
    <3>3. CASE t \in live /\ t # first_task
      <4>1. prev'[t] = prev[t] /\ t < first_task /\ first_task \in live
        BY <1>1, <2>1, <2>2, <3>3
      <4> QED BY <1>1, <2>1, <2>3, <3>3, <4>1
    <3> QED BY <2>1, <3>1, <3>2, <3>3
  <2> QED BY <2>4 DEF PrevIsNewer
<1>5. FirstIsNewest'
  BY <1>1 DEF init_task, Links, FirstIsNewest
<1> QED BY <1>2, <1>3, <1>4, <1>5 DEF Links

(* terminate_current takes the current task out of an intact list, and its  *)
(* successor is on what is left of the list.                                *)
LEMMA UnlinkLinks ==
    ASSUME ListTypes, Links, current_task \in live, NEW context,
           terminate_current(context)
    PROVE  /\ ListTypes' /\ Links'
           /\ current_task' \in live' \cup {NULL}
           /\ current_task' = NULL => pc' = "halt"
           /\ current_task' # NULL => pc' = pc
<1> USE DEF ListTypes, Pid, PidOrNull, NULL
<1>1. MaxPID \in Nat
  BY BoundsAssumption
<1> DEFINE c == current_task
<1>2. /\ first_task' = FirstAfterUnlink
      /\ next' = [NextAfterUnlink EXCEPT ![c] = 0]
      /\ prev' = [PrevAfterUnlink EXCEPT ![c] = 0]
      /\ live' = live \ {c} /\ nextPID' = nextPID /\ current_task' = Successor
  BY DEF terminate_current
<1>3. /\ c \in Pid /\ next[c] \in PidOrNull /\ prev[c] \in PidOrNull
      /\ next[c] < c /\ (prev[c] # 0 => prev[c] > c)
      /\ next[c] \in live \cup {0} /\ prev[c] \in live \cup {0}
  BY <1>1 DEF Links, NextIsOlder, PrevIsNewer
<1>4. /\ next' \in [Pid -> PidOrNull]
      /\ \A t \in Pid : t # c => next'[t] = IF t = prev[c] THEN next[c] ELSE next[t]
  <2>1. NextAfterUnlink \in [Pid -> PidOrNull]
    BY <1>3 DEF NextAfterUnlink
  <2>2. \A t \in Pid : NextAfterUnlink[t] = IF t = prev[c] THEN next[c] ELSE next[t]
    BY <1>3 DEF NextAfterUnlink
  <2> DEFINE after == NextAfterUnlink
  <2>3. next' = [after EXCEPT ![c] = 0] /\ 0 \in PidOrNull
    BY <1>1, <1>2
  <2> HIDE DEF after
  <2>4. after \in [Pid -> PidOrNull]
    BY <2>1 DEF after
  <2>5. next' \in [Pid -> PidOrNull] /\ \A t \in Pid : t # c => next'[t] = after[t]
    BY <2>3, <2>4
  <2> QED BY <2>2, <2>5 DEF after
<1>5. /\ prev' \in [Pid -> PidOrNull]
      /\ \A t \in Pid : t # c => prev'[t] = IF t = next[c] THEN prev[c] ELSE prev[t]
  <2>1. PrevAfterUnlink \in [Pid -> PidOrNull]
    BY <1>3 DEF PrevAfterUnlink
  <2>2. \A t \in Pid : PrevAfterUnlink[t] = IF t = next[c] THEN prev[c] ELSE prev[t]
    BY <1>3 DEF PrevAfterUnlink
  <2> DEFINE after == PrevAfterUnlink
  <2>3. prev' = [after EXCEPT ![c] = 0] /\ 0 \in PidOrNull
    BY <1>1, <1>2
  <2> HIDE DEF after
  <2>4. after \in [Pid -> PidOrNull]
    BY <2>1 DEF after
  <2>5. prev' \in [Pid -> PidOrNull] /\ \A t \in Pid : t # c => prev'[t] = after[t]
    BY <2>3, <2>4
  <2> QED BY <2>2, <2>5 DEF after
<1>11. ListTypes'
  BY <1>1, <1>2, <1>3, <1>4, <1>5 DEF FirstAfterUnlink
<1>6. NextIsOlder'
  <2> SUFFICES ASSUME NEW t \in live'
               PROVE  /\ next'[t] \in live' \cup {NULL}
                      /\ next'[t] < t
                      /\ \A u \in live' : u < t => u <= next'[t]
    BY DEF NextIsOlder
  <2>1. t \in live /\ t # c /\ t \in Pid
    BY <1>2
  <2>2. CASE t = prev[c]
    <3>1. c < t /\ next'[t] = next[c]
      BY <1>3, <1>4, <2>1, <2>2
    <3>2. /\ next[t] \in 0 .. MaxPID /\ c <= next[t]
          /\ next[t] < t /\ next[t] \in live \cup {0}
      BY <1>1, <1>3, <2>1, <3>1 DEF Links, NextIsOlder
    <3>3. ASSUME next[t] > c PROVE FALSE
      <4>1. next[t] \in live
        BY <1>3, <3>2, <3>3
      <4>2. prev[c] <= next[t]
        BY <3>3, <4>1 DEF Links, PrevIsNewer
      <4> QED BY <1>3, <2>2, <3>2, <4>2
    <3>4. next[t] = c
      BY <1>1, <1>3, <3>2, <3>3
    <3>5. ASSUME NEW u \in live', u < t
          PROVE  u <= next[c]
      <4>1. u \in live /\ u # c /\ u \in Pid
        BY <1>2
      <4>2. u <= c
        BY <2>1, <3>4, <3>5, <4>1 DEF Links, NextIsOlder
      <4>3. u < c
        BY <1>1, <1>3, <4>1, <4>2
      <4> QED BY <4>1, <4>3 DEF Links, NextIsOlder
    <3>6. next[c] \in live' \cup {NULL}
      BY <1>1, <1>2, <1>3
    <3>7. next[c] < t
      BY <1>1, <1>3, <2>1, <3>1
    <3> QED BY <3>1, <3>5, <3>6, <3>7
  <2>3. CASE t # prev[c]
    <3>1. next'[t] = next[t]
      BY <1>4, <2>1, <2>3
    <3>2. ASSUME next[t] = c PROVE FALSE
      <4>1. t > c
        BY <2>1, <3>2 DEF Links, NextIsOlder
      <4>2. prev[c] # 0 /\ prev[c] <= t /\ prev[c] \in live /\ prev[c] > c
        BY <1>3, <2>1, <4>1 DEF Links, PrevIsNewer
      <4>3. prev[c] < t
        BY <1>1, <1>3, <2>1, <2>3, <4>2
      <4>4. prev[c] <= next[t]
        BY <2>1, <4>2, <4>3 DEF Links, NextIsOlder
      <4> QED BY <1>1, <1>3, <3>2, <4>2, <4>4
    <3>3. /\ next[t] \in live \cup {NULL} /\ next[t] < t
          /\ \A u \in live : u < t => u <= next[t]
      BY <2>1 DEF Links, NextIsOlder
    <3> QED BY <1>2, <3>1, <3>2, <3>3
  <2> QED BY <2>2, <2>3
<1>7. PrevIsNewer'
  <2> SUFFICES ASSUME NEW t \in live'
               PROVE  /\ prev'[t] \in live' \cup {NULL}
                      /\ prev'[t] # NULL => prev'[t] > t
                      /\ \A u \in live' : u > t => prev'[t] # NULL /\ prev'[t] <= u
    BY DEF PrevIsNewer
  <2>1. t \in live /\ t # c /\ t \in Pid
    BY <1>2
  <2>2. CASE t = next[c]
    <3>1. t < c /\ prev'[t] = prev[c]
      BY <1>3, <1>5, <2>1, <2>2
    <3>2. prev[t] # 0 /\ prev[t] <= c /\ prev[t] \in live /\ prev[t] > t
      BY <1>3, <2>1, <3>1 DEF Links, PrevIsNewer
    <3>8. prev[t] \in Pid
      BY <3>2
    <3>3. ASSUME prev[t] < c PROVE FALSE
      <4>1. prev[t] <= next[c]
        BY <3>2, <3>3 DEF Links, NextIsOlder
      <4> QED BY <1>1, <1>3, <2>1, <2>2, <3>2, <3>8, <4>1
    <3>4. prev[t] = c
      BY <1>1, <1>3, <3>2, <3>3, <3>8
    <3>5. ASSUME NEW u \in live', u > t
          PROVE  prev[c] # 0 /\ prev[c] <= u
      <4>1. u \in live /\ u # c /\ u \in Pid
        BY <1>2
      <4>2. u >= c
        BY <2>1, <3>4, <3>5, <4>1 DEF Links, PrevIsNewer
      <4>3. u > c
        BY <1>1, <1>3, <4>1, <4>2
      <4> QED BY <4>1, <4>3 DEF Links, PrevIsNewer
    <3>6. prev[c] \in live' \cup {NULL}
      BY <1>1, <1>2, <1>3
    <3>7. prev[c] # 0 => prev[c] > t
      BY <1>1, <1>3, <2>1, <3>1
    <3> QED BY <3>1, <3>5, <3>6, <3>7
  <2>3. CASE t # next[c]
    <3>1. prev'[t] = prev[t]
      BY <1>5, <2>1, <2>3
    <3>2. ASSUME prev[t] = c PROVE FALSE
      <4>1. t < c
        <5>1. prev[t] > t
          BY <1>3, <2>1, <3>2 DEF Links, PrevIsNewer
        <5> QED BY <1>3, <2>1, <3>2, <5>1
      <4>2. t <= next[c]
        BY <2>1, <4>1 DEF Links, NextIsOlder
      <4>3. next[c] > t /\ next[c] \in live
        BY <1>1, <1>3, <2>1, <2>3, <4>2
      <4>4. prev[t] <= next[c]
        BY <2>1, <4>3 DEF Links, PrevIsNewer
      <4> QED BY <1>1, <1>3, <3>2, <4>4
    <3>3. /\ prev[t] \in live \cup {NULL}
          /\ prev[t] # NULL => prev[t] > t
          /\ \A u \in live : u > t => prev[t] # NULL /\ prev[t] <= u
      BY <2>1 DEF Links, PrevIsNewer
    <3> QED BY <1>2, <3>1, <3>2, <3>3
  <2> QED BY <2>2, <2>3
<1>8. FirstIsNewest'
  BY <1>1, <1>2 DEF Links, NextIsOlder, FirstIsNewest, FirstAfterUnlink
<1>9. Successor \in live' \cup {NULL}
  BY <1>1, <1>2 DEF Links, NextIsOlder, FirstIsNewest, FirstAfterUnlink, Successor
<1>10. (Successor = NULL => pc' = "halt") /\ (Successor # NULL => pc' = pc)
  BY DEF terminate_current
<1> QED BY <1>2, <1>11, <1>6, <1>7, <1>8, <1>9, <1>10 DEF Links

-----------------------------------------------------------------------------
(* Both ways of stopping the current task keep the types, if the context    *)
(* that is loaded is one.                                                   *)
LEMMA TerminateTypes ==
    ASSUME TypeOK, Links, current_task \in live, NEW context \in cpu_state,
           terminate_current(context) \/ schedule_exception(context)
    PROVE  TypeOK'
<1>1. CASE terminate_current(context)
  <2>1. MaxPID \in Nat /\ ListTypes /\ current_task \in Pid
    BY BoundsAssumption DEF TypeOK, ListTypes
  <2>2. ListTypes' /\ current_task' \in PidOrNull
    <3>1. ListTypes' /\ current_task' \in live' \cup {NULL}
      BY <1>1, <2>1, UnlinkLinks
    <3>2. live' \subseteq Pid
      BY <3>1 DEF ListTypes
    <3>3. Pid \cup {NULL} \subseteq PidOrNull
      BY <2>1 DEF Pid, PidOrNull, NULL
    <3> QED BY <3>1, <3>2, <3>3
  <2>3. /\ blocked_by_sub' \in [Pid -> PidOrNull]
        /\ sub_of' \in [Pid -> PidOrNull]
        /\ child_of' \in [Pid -> PidOrNull]
    <3>1. NULL \in PidOrNull
      BY <2>1 DEF PidOrNull, NULL
    <3>2. ReleaseParent \in [Pid -> PidOrNull]
      BY <3>1 DEF TypeOK, ReleaseParent
    <3> QED BY <1>1, <2>1, <3>1, <3>2 DEF TypeOK, terminate_current, Freed
  <2>4. /\ rpc' \in [Pid -> Seq(rpc_call)]
        /\ rpc_handler_addr' \in [Pid -> BOOLEAN]
    BY <1>1, <2>1 DEF TypeOK, terminate_current, Freed
  <2>5. cpuState' \in [Pid -> cpu_state]
    <3>1. Fresh(NULL, "main") \in cpu_state
      BY <2>1, FreshType DEF PidOrNull, NULL
    <3> QED BY <1>1, <2>1, <3>1 DEF TypeOK, terminate_current, Freed
  <2>6. /\ cpu' \in cpu_state /\ active_pagedir' \in PidOrNull \cup {Orphan}
        /\ pc' \in {"user", "scan", "halt"}
    BY <1>1, <2>2 DEF TypeOK, terminate_current
  <2>7. UNCHANGED <<nextPID, irq_rpcs, schedulingEnabled, cursor>>
    BY <1>1 DEF terminate_current
  <2> QED BY <2>2, <2>3, <2>4, <2>5, <2>6, <2>7 DEF TypeOK, ListTypes
<1>2. CASE schedule_exception(context) /\ ~terminate_current(context)
  BY <1>2 DEF schedule_exception, TypeOK, list, family, routing, machine
<1> QED BY <1>1, <1>2

(* The context terminate_current goes on with is one.                       *)
LEMMA SuccessorType ==
    ASSUME TypeOK, Links, current_task \in live
    PROVE  SuccessorState \in cpu_state
<1>1. Successor \in PidOrNull
  BY DEF TypeOK, Successor, FirstAfterUnlink
<1>2. cpuState \in [Pid -> cpu_state] /\ cpu \in cpu_state
  BY DEF TypeOK
<1>3. Successor # NULL => Successor \in Pid
  BY <1>1, BoundsAssumption DEF Pid, PidOrNull, NULL
<1> QED BY <1>2, <1>3 DEF SuccessorState

(* Every step keeps every variable in its type.                             *)
LEMMA TypeStep ==
    ASSUME Inv, [Next]_vars
    PROVE  TypeOK'
<1> USE DEF Inv, TaskListIntact, Links
<1>1. MaxPID \in Nat /\ MaxCalls \in Nat /\ Pid \subseteq PidOrNull /\ NULL \in PidOrNull
      /\ NULL \notin Pid
  BY BoundsAssumption DEF Pid, PidOrNull, NULL
<1>2. Caller \in cpu_state /\ cpu \in cpu_state
  BY CallerType DEF TypeOK
<1>3. ASSUME current_task # NULL
      PROVE  /\ current_task \in Pid /\ current_task \in live
             /\ \A ctx \in cpu_state : /\ SavedStates(ctx) \in [Pid -> cpu_state]
                                       /\ SavedQueues(ctx) \in [Pid -> Seq(rpc_call)]
  <2>1. current_task \in Pid /\ current_task \in live
    BY <1>3 DEF OnList, TypeOK
  <2> QED BY <2>1, SavedTypes
<1>4. CASE StartInit
  <2>1. nextPID \in Pid /\ ListTypes'
    BY <1>4, InsertLinks DEF StartInit, ExecElf, TypeOK, ListTypes
  <2>2. Fresh(nextPID, "main") \in cpu_state
    BY <1>1, <2>1, FreshType
  <2>3. cpuState' \in [Pid -> cpu_state]
    BY <1>4, <2>1, <2>2 DEF StartInit, TypeOK
  <2>4. /\ child_of' \in [Pid -> PidOrNull] /\ sub_of' \in [Pid -> PidOrNull]
        /\ blocked_by_sub' \in [Pid -> PidOrNull]
    BY <1>1, <1>4, <2>1 DEF StartInit, ExecElf, TypeOK
  <2>5. active_pagedir' = active_pagedir
    BY <1>4 DEF StartInit, ExecElf
  <2> QED BY <1>4, <2>1, <2>3, <2>4, <2>5 DEF StartInit, TypeOK, ListTypes, routing, control
<1>5. CASE enableScheduling
  BY <1>5 DEF enableScheduling, TypeOK, list, family, routing, machine
<1>6. CASE FirstDispatch
  <2>1. first_task \in Pid
    BY <1>6 DEF FirstDispatch, TypeOK, FirstIsNewest
  <2> QED BY <1>1, <1>6, <2>1 DEF FirstDispatch, TypeOK, list, family, routing, control
<1>7. CASE Scan
  <2>1. current_task # NULL /\ cursor \in live /\ pc = "scan"
    BY <1>7 DEF Scan, ScanSkip, ScanTake, OnList
  <2>2. NextInList(cursor) \in Pid
    <3>1. cursor \in Pid /\ cursor <= first_task /\ first_task \in live \cup {NULL}
      BY <2>1 DEF TypeOK, FirstIsNewest
    <3>2. first_task \in Pid
      BY <3>1 DEF TypeOK, Pid, NULL
    <3>3. next[cursor] \in live \cup {NULL}
      BY <2>1 DEF NextIsOlder
    <3> QED BY <3>2, <3>3 DEF NextInList, TypeOK
  <2>3. CASE ScanSkip
    BY <1>1, <2>2, <2>3 DEF ScanSkip, TypeOK, list, family, routing, machine
  <2>4. CASE ScanTake
    <3>1. schedule_to_task(NextInList(cursor), SavedStates(cpu), SavedQueues(cpu))
      BY <2>4 DEF ScanTake
    <3>2. SavedStates(cpu) \in [Pid -> cpu_state] /\ SavedQueues(cpu) \in [Pid -> Seq(rpc_call)]
      BY <1>2, <1>3, <2>1
    <3>3. /\ current_task' \in PidOrNull
          /\ active_pagedir' \in PidOrNull \cup {Orphan}
          /\ cpuState' \in [Pid -> cpu_state]
          /\ rpc' \in [Pid -> Seq(rpc_call)]
          /\ cpu' \in cpu_state
      BY <2>2, <3>1, <3>2, ScheduleToTypes
    <3> QED BY <1>1, <2>4, <3>3 DEF ScanTake, TypeOK, list, family, routing
  <2> QED BY <1>7, <2>3, <2>4 DEF Scan
<1>8. CASE Timer
  BY <1>8 DEF Timer, schedule, TypeOK, list, family, routing, machine
<1>9. CASE yield
  BY <1>2, <1>3, <1>9 DEF yield, May, SaveCaller, schedule, TypeOK, list, family, routing
<1>10. CASE set_rpc_handler
  BY <1>2, <1>3, <1>10 DEF set_rpc_handler, May, SaveCaller, TypeOK, list, family, control
<1>11. ASSUME NEW i \in Irqs, register_irq_rpc(i)
       PROVE  TypeOK'
  BY <1>1, <1>2, <1>3, <1>11 DEF register_irq_rpc, May, SaveCaller, TypeOK, list, family, control
<1>12. ASSUME NEW sub \in BOOLEAN, exec(sub)
       PROVE  TypeOK'
  <2>1. current_task # NULL /\ rpc' = SavedQueues(Caller) /\ cpu' = Caller
    BY <1>12 DEF exec, May
  <2>2. /\ rpc' \in [Pid -> Seq(rpc_call)] /\ cpu' \in cpu_state
        /\ SavedStates(Caller) \in [Pid -> cpu_state]
    BY <1>2, <1>3, <2>1
  <2>3. /\ pc' \in {"user", "scan", "halt"} /\ cursor' \in PidOrNull
    BY <1>12 DEF exec, schedule, TypeOK
  <2>4. PICK file \in Files :
           \/ /\ ExecElf(sub)
              /\ cpuState' = [SavedStates(Caller) EXCEPT ![nextPID] = Fresh(nextPID, "main")]
           \/ /\ ExecFailed(file)
              /\ cpuState' = SavedStates(Caller)
    BY <1>12 DEF exec
  <2>5. UNCHANGED <<rpc_handler_addr, irq_rpcs, current_task, schedulingEnabled>>
    BY <1>12 DEF exec, routing
  <2>6. CASE /\ ExecElf(sub)
             /\ cpuState' = [SavedStates(Caller) EXCEPT ![nextPID] = Fresh(nextPID, "main")]
    <3>1. nextPID \in Pid /\ ListTypes'
      BY <2>6, InsertLinks DEF ExecElf, TypeOK, ListTypes
    <3>2. Fresh(nextPID, "main") \in cpu_state
      BY <1>1, <3>1, FreshType
    <3>3. cpuState' \in [Pid -> cpu_state]
      BY <2>2, <2>6, <3>1, <3>2
    <3>4. /\ child_of' \in [Pid -> PidOrNull] /\ sub_of' \in [Pid -> PidOrNull]
          /\ blocked_by_sub' \in [Pid -> PidOrNull] /\ active_pagedir' = active_pagedir
      BY <1>1, <2>6, <3>1 DEF ExecElf, BlockParent, TypeOK
    <3> QED BY <2>2, <2>3, <2>5, <3>1, <3>3, <3>4 DEF TypeOK, ListTypes
  <2>7. CASE ExecFailed(file) /\ cpuState' = SavedStates(Caller)
    BY <2>2, <2>3, <2>5, <2>7 DEF ExecFailed, TypeOK, list, family
  <2> QED BY <2>4, <2>6, <2>7
<1>13. CASE exit
  BY <1>3, <1>13, TerminateTypes, SuccessorType DEF exit, May
<1>14. CASE Fault
  BY <1>3, <1>14, TerminateTypes, SuccessorType DEF Fault
<1>15. CASE fopenpmhandle_other
  BY <1>2, <1>3, <1>15, TerminateTypes DEF fopenpmhandle_other, May
<1>16. CASE return_rpc_call
  <2>1. current_task # NULL
    BY <1>16 DEF return_rpc_call, May
  <2>2. CASE rpc[current_task] = <<>>
    BY <1>3, <1>16, <2>1, <2>2, TerminateTypes, SuccessorType DEF return_rpc_call
  <2>3. CASE rpc[current_task] # <<>>
    <3> DEFINE call == Head(rpc[current_task])
               rTask == call.returnPID
               zeroed == [SavedStates(Caller) EXCEPT ![rTask].eax = "zeroed"]
    <3>1. call \in rpc_call
      BY <1>3, <2>1, <2>3 DEF TypeOK
    <3>2. /\ irq_rpcs' = enable_irq_rpc(call.funcID)
          /\ \/ rTask \in live /\ schedule_to_task(rTask, zeroed, PoppedQueues)
             \/ schedule_to_task(current_task, SavedStates(Caller), PoppedQueues)
          /\ UNCHANGED <<list, family, rpc_handler_addr, control>>
      BY <1>16, <2>3 DEF return_rpc_call
    <3>3. /\ SavedStates(Caller) \in [Pid -> cpu_state]
          /\ SavedQueues(Caller) \in [Pid -> Seq(rpc_call)]
          /\ SavedQueues(Caller)[current_task] # <<>>
      <4>1. Len(SavedQueues(Caller)[current_task]) = Len(rpc[current_task])
        BY <1>2, <1>3, <2>1, SavedTypes
      <4>2. Len(rpc[current_task]) # 0
        BY <1>3, <2>1, <2>3 DEF TypeOK
      <4> QED BY <1>2, <1>3, <2>1, <4>1, <4>2
    <3>4. PoppedQueues \in [Pid -> Seq(rpc_call)]
      <4>1. Tail(SavedQueues(Caller)[current_task]) \in Seq(rpc_call)
        BY <1>3, <2>1, <3>3
      <4> QED BY <3>3, <4>1 DEF PoppedQueues
    <3>5. irq_rpcs' \in [Irqs -> PidOrNull]
      <4>1. call.funcID \in Irqs /\ irq_rpcs[call.funcID] \in 0 .. MaxPID
        BY <3>1 DEF rpc_call, TypeOK, PidOrNull
      <4>2. (IF irq_rpcs[call.funcID] < 0 THEN -irq_rpcs[call.funcID]
                                          ELSE irq_rpcs[call.funcID]) \in PidOrNull
        BY <1>1, <4>1 DEF PidOrNull
      <4> HIDE DEF call
      <4> QED BY <3>2, <4>1, <4>2 DEF enable_irq_rpc, TypeOK
    <3>6. ASSUME rTask \in live PROVE zeroed \in [Pid -> cpu_state]
      <4>1. rTask \in Pid
        BY <3>6 DEF TypeOK
      <4>2. [SavedStates(Caller)[rTask] EXCEPT !.eax = "zeroed"] \in cpu_state
        BY <3>3, <4>1 DEF cpu_state
      <4> QED BY <3>3, <4>1, <4>2
    <3>7. /\ current_task' \in PidOrNull
          /\ active_pagedir' \in PidOrNull \cup {Orphan}
          /\ cpuState' \in [Pid -> cpu_state]
          /\ rpc' \in [Pid -> Seq(rpc_call)]
          /\ cpu' \in cpu_state
      <4>1. CASE rTask \in live /\ schedule_to_task(rTask, zeroed, PoppedQueues)
        <5>1. rTask \in Pid
          BY <4>1 DEF TypeOK
        <5> HIDE DEF zeroed, rTask
        <5> QED BY <3>4, <3>6, <4>1, <5>1, ScheduleToTypes
      <4>2. CASE schedule_to_task(current_task, SavedStates(Caller), PoppedQueues)
        BY <1>3, <2>1, <3>3, <3>4, <4>2, ScheduleToTypes
      <4> QED BY <3>2, <4>1, <4>2
    <3> QED BY <3>2, <3>5, <3>7 DEF TypeOK, list, family, control
  <2> QED BY <2>2, <2>3
<1>17. ASSUME NEW i \in Irqs, Irq(i)
       PROVE  TypeOK'
  <2> DEFINE d == irq_rpcs[i]
             call == [returnPID |-> current_task, funcID |-> i, executing |-> FALSE,
                      state |-> Fresh(NULL, "main")]
  <2>1. d \in Pid /\ rpc' = [rpc EXCEPT ![d] = Append(rpc[d], call)]
    BY <1>17 DEF Irq, Accepts, TypeOK, create_rpc_call
  <2>2. Fresh(NULL, "main") \in cpu_state
    BY <1>1, FreshType
  <2>3. call \in rpc_call
    BY <2>2 DEF rpc_call, TypeOK
  <2>4. rpc' \in [Pid -> Seq(rpc_call)]
    BY <2>1, <2>3 DEF TypeOK
  <2> QED BY <1>17, <2>4 DEF Irq, TypeOK, list, family, routing, machine
<1>18. CASE UNCHANGED vars
  BY <1>18 DEF TypeOK, vars, list, family, routing, machine, control
<1> QED
  BY <1>4, <1>5, <1>6, <1>7, <1>8, <1>9, <1>10, <1>11, <1>12, <1>13, <1>14, <1>15,
     <1>16, <1>17, <1>18
  DEF Next, Boot, Program, show_cod

-----------------------------------------------------------------------------
(* No step but starting and stopping a task changes the list.               *)
KeepsList == UNCHANGED <<first_task, next, prev, live, nextPID>>

(* Steps that leave the list alone leave it intact.                         *)
LEMMA KeptLinks ==
    ASSUME Links, KeepsList
    PROVE  Links'
BY DEF Links, KeepsList, NextIsOlder, PrevIsNewer, FirstIsNewest

(* Stopping the current task leaves an intact list.                         *)
LEMMA StopLinks ==
    ASSUME Inv, current_task \in live, pc = "user", NEW context,
           terminate_current(context) \/ schedule_exception(context)
    PROVE  TaskListIntact'
<1>1. ListTypes /\ Links
  BY DEF Inv, TypeOK, ListTypes, TaskListIntact, Links
<1>2. CASE terminate_current(context)
  BY <1>1, <1>2, UnlinkLinks DEF TaskListIntact, Links, OnList
<1>3. CASE schedule_exception(context) /\ ~terminate_current(context)
  <2>1. UNCHANGED <<list, family, machine>> /\ pc' = "halt"
    BY <1>3 DEF schedule_exception
  <2>2. KeepsList /\ current_task' = current_task
    BY <2>1 DEF list, family, machine, KeepsList
  <2>3. OnList'
    BY <1>1, <2>1, <2>2 DEF OnList, KeepsList
  <2> QED BY <1>1, <2>2, <2>3, KeptLinks DEF TaskListIntact, Links
<1> QED BY <1>2, <1>3

(* Every step keeps the task list intact.                                   *)
LEMMA ListStep ==
    ASSUME Inv, [Next]_vars
    PROVE  TaskListIntact'
<1> USE DEF Inv
<1>1. ListTypes /\ Links /\ OnList
  BY DEF TypeOK, ListTypes, TaskListIntact, Links
<1>2. SUFFICES Links' /\ OnList'
  BY DEF TaskListIntact, Links
<1>3. ASSUME ExecElf(TRUE) \/ ExecElf(FALSE)
      PROVE  Links' /\ live \subseteq live'
  BY <1>1, <1>3, InsertLinks DEF ExecElf, init_task
<1>4. CASE StartInit
  BY <1>1, <1>3, <1>4 DEF StartInit, OnList, control
<1>5. CASE enableScheduling
  BY <1>1, <1>5, KeptLinks DEF enableScheduling, OnList, KeepsList, list, family, machine
<1>6. CASE FirstDispatch
  BY <1>1, <1>6, KeptLinks
  DEF FirstDispatch, OnList, KeepsList, list, family, control, Links, FirstIsNewest
<1>7. CASE Scan
  <2>1. current_task # NULL /\ cursor \in live /\ pc = "scan"
    BY <1>1, <1>7 DEF Scan, ScanSkip, ScanTake, OnList
  <2>2. KeepsList /\ Links'
    BY <1>1, <1>7, KeptLinks DEF Scan, ScanSkip, ScanTake, KeepsList, list, family
  <2>3. NextInList(cursor) \in live
    <3>1. cursor \in Pid /\ cursor <= first_task /\ first_task \in live \cup {NULL}
      BY <1>1, <2>1 DEF ListTypes, Links, FirstIsNewest
    <3>2. first_task \in live
      BY <1>1, <3>1, BoundsAssumption DEF ListTypes, Pid, NULL
    <3> QED BY <1>1, <2>1, <3>2 DEF NextInList, Links, NextIsOlder
  <2>4. CASE ScanSkip
    BY <1>1, <2>1, <2>2, <2>3, <2>4 DEF ScanSkip, OnList, KeepsList, machine
  <2>5. CASE ScanTake
    <3>1. current_task' = NextInList(cursor) /\ pc' = "user" /\ live' = live
      BY <2>2, <2>5 DEF ScanTake, schedule_to_task, KeepsList
    <3> QED BY <2>2, <2>3, <3>1 DEF OnList
  <2> QED BY <1>7, <2>4, <2>5 DEF Scan
<1>8. CASE Timer \/ yield
  <2>1. /\ current_task # NULL /\ cursor' = current_task /\ current_task' = current_task
        /\ KeepsList
    BY <1>8 DEF Timer, yield, May, schedule, KeepsList, list, family, machine
  <2> QED BY <1>1, <2>1, KeptLinks DEF OnList, KeepsList
<1>9. CASE set_rpc_handler \/ \E i \in Irqs : register_irq_rpc(i) \/ Irq(i)
  <2>1. KeepsList /\ UNCHANGED <<current_task, pc, cursor>>
    BY <1>9 DEF set_rpc_handler, register_irq_rpc, Irq, KeepsList, list, family, machine, control
  <2> QED BY <1>1, <2>1, KeptLinks DEF OnList, KeepsList
<1>10. ASSUME NEW sub \in BOOLEAN, exec(sub)
       PROVE  Links' /\ OnList'
  <2>1. /\ current_task \in live /\ current_task' = current_task
        /\ current_task # NULL /\ (pc' = "scan" => cursor' = current_task)
    BY <1>1, <1>10 DEF exec, May, schedule, OnList
  <2>2. PICK file \in Files : ExecElf(sub) \/ ExecFailed(file)
    BY <1>10 DEF exec
  <2>3. Links' /\ live \subseteq live'
    <3>1. CASE ExecElf(sub)
      BY <1>3, <3>1
    <3>2. CASE ExecFailed(file)
      BY <1>1, <3>2, KeptLinks DEF ExecFailed, KeepsList, list, family
    <3> QED BY <2>2, <3>1, <3>2
  <2> QED BY <1>1, <2>1, <2>3 DEF OnList
<1>11. CASE exit \/ Fault \/ fopenpmhandle_other
  BY <1>1, <1>11, StopLinks
  DEF exit, Fault, fopenpmhandle_other, May, OnList, TaskListIntact, Links
<1>12. CASE return_rpc_call
  <2>1. current_task \in live /\ pc = "user"
    BY <1>1, <1>12 DEF return_rpc_call, May, OnList
  <2>2. CASE rpc[current_task] = <<>>
    BY <1>12, <2>1, <2>2, StopLinks DEF return_rpc_call, TaskListIntact, Links
  <2>3. CASE rpc[current_task] # <<>>
    <3> DEFINE rTask == Head(rpc[current_task]).returnPID
    <3>1. /\ \/ rTask \in live /\ current_task' = rTask
             \/ current_task' = current_task
          /\ UNCHANGED <<list, family, control>>
      <4> DEFINE zeroed == [SavedStates(Caller) EXCEPT ![rTask].eax = "zeroed"]
      <4>1. /\ \/ rTask \in live /\ schedule_to_task(rTask, zeroed, PoppedQueues)
               \/ schedule_to_task(current_task, SavedStates(Caller), PoppedQueues)
            /\ UNCHANGED <<list, family, control>>
        BY <1>12, <2>3 DEF return_rpc_call
      <4> HIDE DEF zeroed, rTask
      <4> QED BY <4>1 DEF schedule_to_task
    <3>2. KeepsList /\ pc' = pc /\ current_task' \in live
      BY <2>1, <3>1 DEF KeepsList, list, family, control
    <3> QED BY <1>1, <2>1, <3>2, KeptLinks DEF OnList, KeepsList
  <2> QED BY <2>2, <2>3
<1>13. CASE UNCHANGED vars
  BY <1>1, <1>13, KeptLinks
  DEF vars, list, family, machine, control, KeepsList, OnList
<1> QED
  BY <1>4, <1>5, <1>6, <1>7, <1>8, <1>9, <1>10, <1>11, <1>12, <1>13
  DEF Next, Boot, Program, show_cod

-----------------------------------------------------------------------------
Waiting == SubtaskAlive /\ FreeUnblocked

KeepsFamily == UNCHANGED <<live, sub_of, blocked_by_sub>>

(* Steps that start and stop no task leave the waiting as it was.           *)
LEMMA KeptWaiting ==
    ASSUME Waiting, KeepsFamily
    PROVE  Waiting'
BY DEF Waiting, KeepsFamily, SubtaskAlive, FreeUnblocked

(* A new task is younger than the parent it may block.                      *)
LEMMA StartWaiting ==
    ASSUME Inv, NEW sub \in BOOLEAN, sub => current_task \in live, ExecElf(sub)
    PROVE  Waiting'
<1> DEFINE p == nextPID
           parent == current_task
<1>1. /\ p \in Pid /\ p \notin live /\ live' = live \cup {p} /\ live \subseteq Pid
      /\ MaxPID \in Nat
  BY BoundsAssumption DEF Inv, TypeOK, TaskListIntact, FirstIsNewest, ExecElf, init_task, Pid
<1>2. \A t \in live : t < p
  BY DEF Inv, TaskListIntact, FirstIsNewest
<1>3. /\ sub_of' = [sub_of EXCEPT ![p] = IF sub THEN parent ELSE NULL]
      /\ blocked_by_sub' = IF sub THEN [blocked_by_sub EXCEPT ![parent] = p]
                                  ELSE blocked_by_sub
      /\ sub_of \in [Pid -> PidOrNull] /\ blocked_by_sub \in [Pid -> PidOrNull]
  BY DEF ExecElf, BlockParent, Inv, TypeOK
<1>4. blocked_by_sub[p] = NULL
  BY <1>1 DEF Inv, FreeUnblocked
<1>5. FreeUnblocked'
  BY <1>1, <1>3 DEF Inv, FreeUnblocked
<1>6. ASSUME NEW t \in live', blocked_by_sub'[t] # NULL
      PROVE  /\ blocked_by_sub'[t] \in live'
             /\ blocked_by_sub'[t] > t
             /\ sub_of'[blocked_by_sub'[t]] = t
  <2>1. CASE sub /\ t = parent
    BY <1>1, <1>2, <1>3, <2>1
  <2>2. CASE ~(sub /\ t = parent)
    <3>1. blocked_by_sub'[t] = blocked_by_sub[t] /\ t # p /\ t \in live
      BY <1>1, <1>2, <1>3, <1>4, <1>6, <2>2
    <3>2. /\ blocked_by_sub[t] \in live /\ blocked_by_sub[t] > t
          /\ sub_of[blocked_by_sub[t]] = t
      BY <1>6, <3>1 DEF Inv, SubtaskAlive
    <3> QED BY <1>1, <1>3, <3>1, <3>2
  <2> QED BY <2>1, <2>2
<1> QED BY <1>5, <1>6 DEF Waiting, SubtaskAlive

(* A task that goes releases its parent, and was the only one to block it.  *)
LEMMA StopWaiting ==
    ASSUME Inv, current_task \in live, NEW context,
           terminate_current(context) \/ schedule_exception(context)
    PROVE  Waiting'
<1> DEFINE c == current_task
<1>1. CASE terminate_current(context)
  <2>1. /\ live' = live \ {c} /\ live \subseteq Pid
        /\ sub_of' = [sub_of EXCEPT ![c] = NULL]
        /\ blocked_by_sub' = [ReleaseParent EXCEPT ![c] = NULL]
        /\ sub_of \in [Pid -> PidOrNull] /\ blocked_by_sub \in [Pid -> PidOrNull]
    BY <1>1 DEF terminate_current, Freed, Inv, TypeOK
  <2>2. \A t \in Pid : t # c => blocked_by_sub'[t] =
            IF t = sub_of[c] /\ sub_of[c] # NULL THEN NULL ELSE blocked_by_sub[t]
    BY <2>1 DEF ReleaseParent
  <2>3. blocked_by_sub'[c] = NULL
    BY <2>1 DEF ReleaseParent
  <2>4. FreeUnblocked'
    BY <2>1, <2>2, <2>3 DEF Inv, FreeUnblocked
  <2>5. ASSUME NEW t \in live', blocked_by_sub'[t] # NULL
        PROVE  /\ blocked_by_sub'[t] \in live'
               /\ blocked_by_sub'[t] > t
               /\ sub_of'[blocked_by_sub'[t]] = t
    <3>1. t \in live /\ t # c /\ t \in Pid
      BY <2>1
    <3>2. blocked_by_sub'[t] = blocked_by_sub[t] /\ ~(t = sub_of[c] /\ sub_of[c] # NULL)
      BY <2>2, <2>5, <3>1
    <3>3. /\ blocked_by_sub[t] \in live /\ blocked_by_sub[t] > t
          /\ sub_of[blocked_by_sub[t]] = t
      BY <2>5, <3>1, <3>2 DEF Inv, SubtaskAlive
    <3>4. t # NULL
      BY <3>1 DEF Pid, NULL
    <3>5. blocked_by_sub[t] # c
      BY <3>2, <3>3, <3>4
    <3> QED BY <2>1, <3>2, <3>3, <3>5
  <2> QED BY <2>4, <2>5 DEF Waiting, SubtaskAlive
<1>2. CASE schedule_exception(context) /\ ~terminate_current(context)
  BY <1>2, KeptWaiting
  DEF schedule_exception, KeepsFamily, list, family, Waiting, Inv
<1> QED BY <1>1, <1>2

(* Every step keeps blocked tasks waiting for living subtasks.              *)
LEMMA WaitingStep ==
    ASSUME Inv, [Next]_vars
    PROVE  Waiting'
<1>1. Waiting
  BY DEF Inv, Waiting
<1>2. ASSUME current_task # NULL PROVE current_task \in live
  BY <1>2 DEF Inv, TaskListIntact, OnList
<1>3. CASE StartInit
  BY <1>3, StartWaiting DEF StartInit
<1>4. CASE \/ enableScheduling \/ FirstDispatch \/ Scan \/ Timer \/ yield \/ set_rpc_handler
           \/ \E i \in Irqs : register_irq_rpc(i) \/ Irq(i)
           \/ UNCHANGED vars
  <2>1. KeepsFamily
    BY <1>4
    DEF enableScheduling, FirstDispatch, Scan, ScanSkip, ScanTake, Timer, yield,
        set_rpc_handler, register_irq_rpc, Irq, vars, KeepsFamily, list, family
  <2> QED BY <1>1, <2>1, KeptWaiting
<1>5. ASSUME NEW sub \in BOOLEAN, exec(sub)
      PROVE  Waiting'
  <2>1. PICK file \in Files : ExecElf(sub) \/ ExecFailed(file)
    BY <1>5 DEF exec
  <2>2. current_task \in live
    BY <1>2, <1>5 DEF exec, May
  <2>3. CASE ExecElf(sub)
    BY <2>2, <2>3, StartWaiting
  <2>4. CASE ExecFailed(file)
    BY <1>1, <2>4, KeptWaiting DEF ExecFailed, KeepsFamily, list, family
  <2> QED BY <2>1, <2>3, <2>4
<1>6. CASE exit \/ Fault \/ fopenpmhandle_other
  BY <1>2, <1>6, StopWaiting DEF exit, Fault, fopenpmhandle_other, May
<1>7. CASE return_rpc_call
  <2>1. current_task \in live
    BY <1>2, <1>7 DEF return_rpc_call, May
  <2>2. CASE rpc[current_task] = <<>>
    BY <1>7, <2>1, <2>2, StopWaiting DEF return_rpc_call
  <2>3. CASE rpc[current_task] # <<>>
    BY <1>1, <1>7, <2>3, KeptWaiting DEF return_rpc_call, KeepsFamily, list, family
  <2> QED BY <2>2, <2>3
<1> QED
  BY <1>3, <1>4, <1>5, <1>6, <1>7 DEF Next, Boot, Program, show_cod

-----------------------------------------------------------------------------
(* The invariant holds at power-on and is kept by every step.               *)
LEMMA InvInit == Init => Inv
<1> SUFFICES ASSUME Init PROVE Inv
  OBVIOUS
<1>1. MaxPID \in Nat /\ MaxCalls \in Nat /\ 1 \in 1 .. MaxPID + 1
  BY BoundsAssumption
<1>2. NULL \in PidOrNull
  BY <1>1 DEF PidOrNull, NULL
<1>3. Fresh(NULL, "main") \in cpu_state
  BY <1>2, FreshType
<1>4. TypeOK
  <2>1. rpc \in [Pid -> Seq(rpc_call)]
    BY DEF Init
  <2>2. irq_rpcs \in [Irqs -> PidOrNull]
    BY <1>2 DEF Init, NULL
  <2>3. /\ cpuState \in [Pid -> cpu_state] /\ cpu \in cpu_state
        /\ active_pagedir \in PidOrNull \cup {Orphan}
    BY <1>1, <1>2, <1>3 DEF Init
  <2>4. /\ first_task \in PidOrNull /\ current_task \in PidOrNull /\ cursor \in PidOrNull
        /\ next \in [Pid -> PidOrNull] /\ prev \in [Pid -> PidOrNull]
        /\ sub_of \in [Pid -> PidOrNull] /\ blocked_by_sub \in [Pid -> PidOrNull]
        /\ child_of \in [Pid -> PidOrNull]
    BY <1>2 DEF Init
  <2> QED BY <1>1, <2>1, <2>2, <2>3, <2>4 DEF Init, TypeOK
<1>5. TaskListIntact
  BY DEF Init, TaskListIntact, NextIsOlder, PrevIsNewer, FirstIsNewest, OnList
<1>6. SubtaskAlive /\ FreeUnblocked
  BY DEF Init, SubtaskAlive, FreeUnblocked
<1> QED BY <1>4, <1>5, <1>6 DEF Inv

(* Every step keeps the invariant.                                          *)
LEMMA InvStep == Inv /\ [Next]_vars => Inv'
BY TypeStep, ListStep, WaitingStep DEF Inv, Waiting

(* The list, the waiting and the types hold together, in every behaviour.   *)
THEOREM Invariance == Spec => []Inv
BY InvInit, InvStep, PTL DEF Spec

(* Every variable keeps its type: no PID, link or context outside its range *)
(* is ever stored (scheduler.c, scheduler_rpc.c, the system calls).         *)
THEOREM TypeCorrect == Spec => []TypeOK
<1>1. Inv => TypeOK
  BY DEF Inv
<1> QED BY <1>1, Invariance, PTL

(* init_task and terminate_current keep the doubly linked task list whole,  *)
(* for every number of tasks and every order of starts, exits and faults.   *)
THEOREM TaskListCorrect == Spec => []TaskListIntact
<1>1. Inv => TaskListIntact
  BY DEF Inv
<1> QED BY <1>1, Invariance, PTL

(* A parent blocked by sexec always waits for a living, younger subtask     *)
(* that will release it.                                                    *)
THEOREM BlockersLive == Spec => []SubtaskAlive
<1>1. Inv => SubtaskAlive
  BY DEF Inv
<1> QED BY <1>1, Invariance, PTL

(* The loop of schedule() always has a task to stop at: the newest task     *)
(* would have to wait for an even newer one.                                *)
THEOREM SearchCannotHang == Spec => []NewestIsRunnable
<1>1. Inv => NewestIsRunnable
  <2> SUFFICES ASSUME Inv, first_task # NULL, blocked_by_sub[first_task] # NULL
               PROVE  FALSE
    BY DEF NewestIsRunnable
  <2> DEFINE b == blocked_by_sub[first_task]
  <2>1. first_task \in live /\ \A t \in live : t <= first_task
    BY DEF Inv, TaskListIntact, FirstIsNewest
  <2>2. b \in live /\ b > first_task
    BY <2>1 DEF Inv, SubtaskAlive
  <2>3. b \in 1 .. MaxPID /\ first_task \in 1 .. MaxPID /\ MaxPID \in Nat
    BY <2>1, <2>2, BoundsAssumption DEF Inv, TypeOK, Pid
  <2> QED BY <2>1, <2>2, <2>3
<1> QED BY <1>1, Invariance, PTL

-----------------------------------------------------------------------------
(***************************************************************************)
(* Part two: waiting for subtasks.                                          *)
(***************************************************************************)
(* In the foreground every task but the newest waits for the next newer one,*)
(* so the newest is the only one that can run.                              *)
LEMMA OnlyTheNewestRuns ==
    ASSUME Inv, Foreground
    PROVE  /\ \A t \in live : t # first_task =>
                 prev[t] \in live /\ next[prev[t]] = t /\ blocked_by_sub[t] = prev[t]
           /\ live # {} => first_task \in live /\ blocked_by_sub[first_task] = NULL
           /\ first_task # NULL => prev[first_task] = NULL
<1> USE DEF NULL
<1>1. /\ live \subseteq 1 .. MaxPID /\ MaxPID \in Nat
      /\ first_task \in live \cup {NULL} /\ \A t \in live : t <= first_task
  BY BoundsAssumption DEF Inv, TypeOK, TaskListIntact, FirstIsNewest, Pid
<1> /\ \A t \in live : t \in Int /\ t > 0
    /\ first_task \in Int
  BY <1>1
<1>2. \A t \in live : next[t] \in live \cup {NULL} /\ next[t] < t
                      /\ \A u \in live : u < t => u <= next[t]
  BY DEF Inv, TaskListIntact, NextIsOlder
<1>3. \A t \in live : /\ prev[t] \in live \cup {NULL}
                      /\ prev[t] # NULL => prev[t] > t
                      /\ \A u \in live : u > t => prev[t] # NULL /\ prev[t] <= u
  BY DEF Inv, TaskListIntact, PrevIsNewer
<1>4. \A t \in live : next[t] # NULL => blocked_by_sub[next[t]] = t
  BY DEF Foreground
<1>5. ASSUME NEW t \in live, t # first_task
      PROVE  prev[t] \in live /\ next[prev[t]] = t /\ blocked_by_sub[t] = prev[t]
  <2>1. first_task \in live /\ t < first_task /\ t \in 1 .. MaxPID
    BY <1>1, <1>5
  <2>2. prev[t] \in live /\ prev[t] > t
    BY <1>1, <1>3, <2>1
  <2>3. PICK p \in live : p = prev[t]
    BY <2>2
  <2>4. PICK n \in live \cup {NULL} : n = next[p]
    BY <1>2
  <2>5. n < p /\ t <= n
    BY <1>2, <2>1, <2>2, <2>3, <2>4
  <2>6. ~(n > t)
    BY <1>1, <1>3, <2>3, <2>4, <2>5
  <2>7. next[p] = t
    BY <1>1, <2>1, <2>4, <2>5, <2>6
  <2>8. blocked_by_sub[t] = p
    BY <1>4, <2>1, <2>7
  <2> QED
    BY <2>3, <2>7, <2>8
<1>6. ASSUME live # {} PROVE first_task \in live /\ blocked_by_sub[first_task] = NULL
  <2>1. PICK t : t \in live
    BY <1>6
  <2>2. first_task \in live
    BY <1>1, <2>1
  <2>3. ASSUME blocked_by_sub[first_task] # NULL PROVE FALSE
    <3>1. PICK b \in live : b > first_task
      BY <2>2, <2>3 DEF Inv, SubtaskAlive
    <3> QED
      BY <1>1, <3>1
  <2> QED
    BY <2>2, <2>3
<1>7. ASSUME first_task # NULL PROVE prev[first_task] = NULL
  <2>1. PICK p \in live \cup {NULL} : p = prev[first_task] /\ (p # NULL => p > first_task)
    BY <1>1, <1>3, <1>7
  <2> QED
    BY <1>1, <2>1
<1> QED
  BY <1>5, <1>6, <1>7

(* A search of the list finds the newest task.                              *)
LEMMA SearchFindsTheNewest ==
    ASSUME Inv, Foreground, pc = "scan", blocked_by_sub[NextInList(cursor)] = NULL
    PROVE  NextInList(cursor) = first_task /\ first_task \in live /\ first_task # NULL
<1>1. cursor \in live
  BY DEF Inv, TaskListIntact, OnList
<1>2. NextInList(cursor) \in live
  BY <1>1 DEF Inv, TypeOK, TaskListIntact, NextIsOlder, FirstIsNewest, NextInList, Pid, NULL
<1>3. \A t \in live : t > 0
  BY DEF Inv, TypeOK, Pid
<1>4. \A t \in live : t # first_task => prev[t] \in live /\ blocked_by_sub[t] = prev[t]
  BY OnlyTheNewestRuns
<1> QED
  BY <1>2, <1>3, <1>4 DEF NULL

-----------------------------------------------------------------------------
(* The end of a task: its parent, and no other task, is released and runs;  *)
(* without a parent there is nobody left, and the system stops.             *)
LEMMA EndOfTask ==
    ASSUME Inv, Foreground, SubtasksOnly', pc = "user", current_task # NULL,
           NEW context, terminate_current(context)
    PROVE  Promised!PNext /\ Foreground'
<1> DEFINE c == current_task
           n == next[c]
<1>1. c = first_task /\ c \in live
  BY DEF Foreground, Inv, TaskListIntact, OnList
<1>2. /\ live \subseteq 1 .. MaxPID /\ MaxPID \in Nat /\ c \in 1 .. MaxPID
      /\ blocked_by_sub \in [1 .. MaxPID -> 0 .. MaxPID]
      /\ sub_of \in [1 .. MaxPID -> 0 .. MaxPID]
      /\ next \in [1 .. MaxPID -> 0 .. MaxPID]
      /\ nextPID \in 1 .. MaxPID + 1
  BY <1>1, BoundsAssumption DEF Inv, TypeOK, Pid, PidOrNull
<1>3. /\ \A t \in live : t # c => next[prev[t]] = t /\ blocked_by_sub[t] = prev[t]
      /\ blocked_by_sub[c] = NULL /\ prev[c] = NULL
  BY <1>1, OnlyTheNewestRuns
<1>4. n \in live \cup {NULL} /\ n < c /\ \A u \in live : u < c => u <= n
  BY <1>1 DEF Inv, TaskListIntact, NextIsOlder
<1>5. sub_of[c] = n /\ \A t \in live : next[t] # NULL => blocked_by_sub[next[t]] = t
  BY <1>1 DEF Foreground, SubtasksOnly
<1>6. \A t \in (1 .. MaxPID) \ live : blocked_by_sub[t] = NULL
  BY DEF Inv, FreeUnblocked, Pid
<1>7. /\ live' = live \ {c} /\ first_task' = n /\ nextPID' = nextPID
      /\ \A t \in live' : next'[t] = next[t]
  <2>1. \A t \in live \ {c} : t # prev[c]
    BY <1>2, <1>3 DEF NULL
  <2> QED
    BY <1>1, <1>2, <2>1 DEF terminate_current, FirstAfterUnlink, NextAfterUnlink, Pid
<1>8. CASE n = NULL
  <2>1. live = {c}
    <3>1. \A t \in live : t <= c /\ t > 0 /\ (t < c => t <= 0)
      BY <1>1, <1>2, <1>4, <1>8 DEF Inv, TaskListIntact, FirstIsNewest, NULL
    <3>2. \A t \in live : t = c
      BY <1>2, <3>1
    <3> QED
      BY <1>1, <3>2
  <2>2. pc' = "halt"
    BY <1>1, <1>8 DEF terminate_current, Successor, FirstAfterUnlink
  <2>3. blocked_by_sub' = blocked_by_sub
    BY <1>2, <1>3, <1>5, <1>8 DEF terminate_current, ReleaseParent
  <2>4. Promised!Stop
    BY <1>7, <2>1, <2>2, <2>3 DEF Promised!Stop, Promised!NoProcess, NULL
  <2>5. Foreground'
    BY <1>7, <2>1, <2>2 DEF Foreground
  <2> QED
    BY <2>4, <2>5 DEF Promised!PNext
<1>9. CASE n # NULL
  <2>1. current_task' = n /\ pc' = "user" /\ n \in live /\ n # c
    BY <1>2, <1>4, <1>9 DEF terminate_current, Successor
  <2>2. blocked_by_sub' = [[blocked_by_sub EXCEPT ![n] = NULL] EXCEPT ![c] = NULL]
    BY <1>5, <1>9 DEF terminate_current, ReleaseParent
  <2>3. \A t \in 1 .. MaxPID : blocked_by_sub[t] = c <=> t = n
    <3>1. blocked_by_sub[n] = c
      BY <1>1, <1>5, <1>9
    <3>2. ASSUME NEW t \in 1 .. MaxPID, blocked_by_sub[t] = c PROVE t = n
      <4>1. c # NULL
        BY <1>2 DEF NULL
      <4>2. t \in live /\ t # c
        BY <1>3, <1>6, <3>2, <4>1
      <4> QED BY <1>3, <3>2, <4>2
    <3> QED BY <3>1, <3>2
  <2>4. blocked_by_sub' = [t \in 1 .. MaxPID |->
            IF blocked_by_sub[t] = c THEN NULL ELSE blocked_by_sub[t]]
    BY <1>2, <1>3, <2>1, <2>2, <2>3
  <2>5. Promised!Exit
    BY <1>2, <1>7, <2>1, <2>3, <2>4 DEF Promised!Exit, Promised!NoProcess, NULL
  <2>6. current_task' \in 1 .. MaxPID
    BY <1>2, <2>1
  <2>7. ASSUME NEW t \in live', next'[t] # NULL PROVE blocked_by_sub'[next'[t]] = t
    <3>1. t \in live /\ t # c /\ blocked_by_sub[next[t]] = t /\ next[t] \in 1 .. MaxPID
      <4>1. t \in live /\ t # c /\ next[t] # NULL
        BY <1>7, <2>7
      <4>2. next[t] \in 0 .. MaxPID
        BY <1>2, <4>1
      <4>3. next[t] \in 1 .. MaxPID
        <5>1. next[t] # 0
          BY <4>1 DEF NULL
        <5> QED BY <1>2, <4>2, <5>1
      <4> QED BY <1>5, <4>1, <4>3
    <3> QED
      BY <1>7, <2>4, <3>1
  <2>8. Foreground'
    BY <1>2, <1>7, <2>1, <2>7 DEF Foreground, NULL
  <2> QED
    BY <2>1, <2>5, <2>6, <2>8 DEF Promised!PNext
<1> QED
  BY <1>8, <1>9

(* A fault of the last task stops the system and leaves the task list.      *)
LEMMA ExceptionInTask ==
    ASSUME Inv, Foreground, SubtasksOnly', pc = "user", current_task # NULL,
           NEW context, schedule_exception(context)
    PROVE  Promised!PNext /\ Foreground'
<1>1. CASE terminate_current(context)
  BY <1>1, EndOfTask
<1>2. CASE /\ pc' = "halt"
           /\ UNCHANGED <<list, family, rpc, routing, machine, schedulingEnabled, cursor>>
  BY <1>2 DEF Promised!PNext, Promised!Preempt, Promised!NoProcess, NULL, list, family,
     Foreground, machine
<1> QED
  BY <1>1, <1>2 DEF schedule_exception

(* The start of a subtask; a task that is started in the background is no   *)
(* part of the promise.                                                     *)
LEMMA StartOfTask ==
    ASSUME Inv, Foreground, SubtasksOnly', pc = "user", current_task # NULL,
           NEW sub \in BOOLEAN, ExecElf(sub),
           current_task' = current_task,
           IF sub THEN pc' = "scan" ELSE pc' = pc
    PROVE  Promised!PNext /\ Foreground'
<1> USE DEF NULL
<1>1. /\ current_task = first_task /\ first_task \in live
      /\ \A t \in live : t > 0 /\ t < nextPID /\ t <= first_task /\ next[t] < t
      /\ live \subseteq Pid /\ first_task \in Int /\ next \in [Pid -> PidOrNull]
      /\ nextPID \in Pid /\ nextPID' = nextPID + 1 /\ live' = live \cup {nextPID}
      /\ next' = [next EXCEPT ![nextPID] = first_task] /\ first_task' = nextPID
      /\ blocked_by_sub \in [Pid -> PidOrNull] /\ Pid \subseteq Int
  <2>1. current_task = first_task /\ first_task \in live
    BY DEF Foreground, Inv, TaskListIntact, OnList
  <2>2. /\ live \subseteq Pid /\ next \in [Pid -> PidOrNull]
        /\ blocked_by_sub \in [Pid -> PidOrNull]
    BY DEF Inv, TypeOK
  <2>3. Pid \subseteq Int /\ \A t \in Pid : t > 0
    BY BoundsAssumption DEF Pid
  <2>4. \A t \in live : t < nextPID /\ t <= first_task /\ next[t] < t
    BY DEF Inv, TaskListIntact, NextIsOlder, FirstIsNewest
  <2>5. /\ nextPID \in Pid /\ nextPID' = nextPID + 1 /\ live' = live \cup {nextPID}
        /\ next' = [next EXCEPT ![nextPID] = first_task] /\ first_task' = nextPID
    BY DEF ExecElf, init_task
  <2> QED
    BY <2>1, <2>2, <2>3, <2>4, <2>5
<1>2. next'[nextPID] = first_task /\ \A t \in live : next'[t] = next[t]
  BY <1>1
<1>3. sub = TRUE
  <2>1. sub_of'[nextPID] = first_task
    BY <1>1, <1>2 DEF SubtasksOnly
  <2>2. sub_of'[nextPID] = IF sub THEN current_task ELSE NULL
    BY <1>1 DEF ExecElf, Inv, TypeOK
  <2> QED
    BY <1>1, <2>1, <2>2
<1>4. pc' = "scan" /\ blocked_by_sub' = [blocked_by_sub EXCEPT ![first_task] = nextPID]
  BY <1>1, <1>3 DEF ExecElf, BlockParent
<1>5. Promised!StartSubtask
  <2>1. nextPID - 1 < MaxPID /\ nextPID' - 1 = nextPID - 1 + 1 /\ nextPID = nextPID - 1 + 1
    BY <1>1, BoundsAssumption DEF Pid
  <2> QED
    BY <1>1, <1>4, <2>1 DEF Promised!StartSubtask, Promised!NoProcess
<1>6. ASSUME NEW t \in live', next'[t] # NULL PROVE blocked_by_sub'[next'[t]] = t
  <2>1. CASE t = nextPID
    BY <1>1, <1>2, <1>4, <2>1
  <2>2. CASE t # nextPID
    <3>1. PICK n : n = next[t] /\ n # NULL /\ n < t /\ n \in Pid
      BY <1>1, <1>2, <1>6, <2>2 DEF Pid, PidOrNull
    <3>2. t \in live /\ next'[t] = n /\ blocked_by_sub[n] = t
      BY <1>1, <1>2, <2>2, <3>1 DEF Foreground
    <3>3. n # first_task
      BY <1>1, <3>1, <3>2
    <3> QED
      BY <1>1, <1>4, <3>1, <3>2, <3>3
  <2> QED
    BY <2>1, <2>2
<1> QED
  BY <1>4, <1>5, <1>6 DEF Foreground, Promised!PNext

-----------------------------------------------------------------------------
(* A step that touches neither the tasks nor their families and gives the   *)
(* CPU to nobody: the kernel decides, or nothing happens.                   *)
LEMMA NobodyNew ==
    ASSUME Foreground, SubtasksOnly', UNCHANGED <<list, family>>,
           current_task' = current_task, pc' \in {pc, "scan", "halt"}
    PROVE  [Promised!PNext]_(Promised!pvars) /\ Foreground'
<1>1. CASE pc' = pc
  BY <1>1 DEF list, family, Foreground, Promised!pvars
<1>2. CASE pc' \in {"scan", "halt"}
  BY <1>2 DEF list, family, Foreground, Promised!PNext, Promised!Preempt, Promised!NoProcess, NULL
<1> QED
  BY <1>1, <1>2

(* The newest task is given the CPU.                                        *)
LEMMA NewestIsDispatched ==
    ASSUME Inv, Foreground, SubtasksOnly', UNCHANGED <<list, family>>,
           pc = "user" => current_task = NULL,
           first_task # NULL, current_task' = first_task, pc' = "user"
    PROVE  Promised!PNext /\ Foreground'
<1>1. first_task \in live
  BY DEF Inv, TaskListIntact, FirstIsNewest
<1>2. Promised!Dispatch
  BY <1>1, OnlyTheNewestRuns DEF Promised!Dispatch, Promised!Ready, Promised!NoProcess,
     list, family, NULL
<1>3. Foreground'
  BY <1>1 DEF Foreground, list, family
<1> QED
  BY <1>2, <1>3 DEF Promised!PNext

(* A call queued for a task, or returning from one, is an interrupt's.      *)
LEMMA NoCalls ==
    ASSUME Foreground, SubtasksOnly', NEW i \in Irqs, Inv
    PROVE  ~Irq(i)
<1> SUFFICES ASSUME Irq(i) PROVE FALSE
  OBVIOUS
<1>1. PICK d \in live : rpc' = [rpc EXCEPT ![d] = create_rpc_call(d, i)]
  BY DEF Irq, Accepts
<1>2. d \in Pid /\ live' = live /\ rpc \in [Pid -> Seq(rpc_call)] /\ rpc[d] = <<>>
  BY DEF Inv, TypeOK, Irq, list, Foreground, SubtasksOnly
<1>3. rpc'[d] # <<>>
  BY <1>1, <1>2 DEF create_rpc_call
<1> QED
  BY <1>2, <1>3 DEF SubtasksOnly

(* A step among foreground tasks is a step of the abstract processes.       *)
LEMMA PromiseStep ==
    Inv /\ Foreground /\ SubtasksOnly' /\ [Next]_vars
        => [Promised!PNext]_(Promised!pvars) /\ Foreground'
<1> SUFFICES ASSUME Inv, Foreground, SubtasksOnly', [Next]_vars
             PROVE  [Promised!PNext]_(Promised!pvars) /\ Foreground'
  OBVIOUS
<1>1. CASE StartInit
  <2>1. /\ pc = "user" /\ pc' = "user" /\ current_task = NULL /\ current_task' = NULL
        /\ live = {} /\ nextPID = 1 /\ first_task = NULL
        /\ live' = {1} /\ nextPID' = 2 /\ blocked_by_sub' = blocked_by_sub
        /\ next' = [next EXCEPT ![1] = NULL] /\ next \in [Pid -> PidOrNull] /\ 1 \in Pid
    BY <1>1 DEF StartInit, Foreground, ExecElf, init_task, control, Inv, TypeOK,
       TaskListIntact, FirstIsNewest
  <2>2. Promised!Launch
    BY <2>1 DEF Promised!Launch, Promised!NoProcess, NULL
  <2> QED
    BY <2>1, <2>2 DEF Foreground, Promised!PNext
<1>2. CASE enableScheduling
  BY <1>2, NobodyNew DEF enableScheduling, machine
<1>3. CASE FirstDispatch
  BY <1>3, NewestIsDispatched DEF FirstDispatch, control
<1>4. CASE ScanSkip
  BY <1>4, NobodyNew DEF ScanSkip, machine
<1>5. CASE ScanTake
  BY <1>5, SearchFindsTheNewest, NewestIsDispatched DEF ScanTake, schedule_to_task
<1>6. CASE Timer
  BY <1>6, NobodyNew DEF Timer, machine, schedule
<1>7. CASE yield
  BY <1>7, NobodyNew DEF yield, schedule
<1>8. CASE set_rpc_handler
  BY <1>8, NobodyNew DEF set_rpc_handler, control
<1>9. ASSUME NEW i \in Irqs, register_irq_rpc(i) PROVE [Promised!PNext]_(Promised!pvars) /\ Foreground'
  BY <1>9, NobodyNew DEF register_irq_rpc, control
<1>10. ASSUME NEW sub \in BOOLEAN, exec(sub) PROVE [Promised!PNext]_(Promised!pvars) /\ Foreground'
  <2>1. /\ pc = "user" /\ current_task # NULL /\ current_task' = current_task
        /\ IF sub THEN pc' = "scan" ELSE pc' = pc
    BY <1>10 DEF exec, May, schedule
  <2>2. CASE ExecElf(sub)
    BY <2>1, <2>2, StartOfTask
  <2>3. CASE \E file \in Files : ExecFailed(file)
    BY <2>1, <2>3, NobodyNew DEF ExecFailed
  <2> QED
    BY <1>10, <2>2, <2>3 DEF exec
<1>11. CASE exit
  BY <1>11, EndOfTask DEF exit, May
<1>12. CASE Fault
  BY <1>12, ExceptionInTask DEF Fault
<1>13. CASE fopenpmhandle_other
  BY <1>13, ExceptionInTask DEF fopenpmhandle_other, May
<1>14. CASE return_rpc_call
  <2>1. pc = "user" /\ current_task # NULL
    BY <1>14 DEF return_rpc_call, May
  <2>2. rpc[current_task] = <<>>
    BY <2>1 DEF Inv, TaskListIntact, OnList, Foreground, SubtasksOnly
  <2> QED
    BY <1>14, <2>1, <2>2, EndOfTask DEF return_rpc_call
<1>15. CASE \E i \in Irqs : Irq(i)
  BY <1>15, NoCalls
<1>16. CASE UNCHANGED vars
  BY <1>16, NobodyNew DEF vars, machine, control
<1> QED
  BY <1>1, <1>2, <1>3, <1>4, <1>5, <1>6, <1>7, <1>8, <1>9, <1>10, <1>11, <1>12, <1>13,
     <1>14, <1>15, <1>16 DEF Next, Boot, Scan, Program, show_cod

(* A waiting parent never runs, and resumes at once when its own subtask is *)
(* gone, for every number of tasks and every workload.                      *)
THEOREM PromiseKept == Spec => KeepsPromise
<1>1. Init => Promised!PInit /\ Foreground
  BY DEF Init, Promised!PInit, Promised!NoProcess, Foreground, SubtasksOnly, Pid, NULL
<1>2. Inv /\ [Next]_vars =>
         [Foreground /\ SubtasksOnly' => [Promised!PNext]_(Promised!pvars) /\ Foreground']_vars
  BY PromiseStep
<1> QED
  BY <1>1, <1>2, Invariance, PTL DEF Spec, KeepsPromise

-----------------------------------------------------------------------------
(***************************************************************************)
(* Part three: contexts, queues of RPCs and address spaces.                 *)
(***************************************************************************)
(* At most the first call of a queue has begun.                             *)
OneBegun(q) == \A n \in 2 .. Len(q) : ~q[n].executing

Begun(q) == q # <<>> /\ Head(q).executing

Queues == [Pid -> Seq(rpc_call)]

(* Queues of all PIDs, not only of live tasks: a task starts with its own.  *)
QueuesInOrder ==
    \A t \in Pid : /\ OneBegun(rpc[t])
                   /\ rpc[t] # <<>> => rpc_handler_addr[t]

(* Saving a context changes the context of a call and nothing else.         *)
LEMMA SavedQueue ==
    ASSUME TypeOK, current_task \in Pid, NEW ctx \in cpu_state, NEW t \in Pid
    PROVE  /\ SavedQueues(ctx)[t] \in Seq(rpc_call)
           /\ t # current_task => SavedQueues(ctx)[t] = rpc[t]
           /\ SavedQueues(ctx)[t] = <<>> <=> rpc[t] = <<>>
           /\ Begun(SavedQueues(ctx)[t]) = Begun(rpc[t])
           /\ OneBegun(rpc[t]) => OneBegun(SavedQueues(ctx)[t])
           /\ Begun(rpc[current_task]) => Head(SavedQueues(ctx)[current_task]).state = ctx
<1>1. rpc \in [Pid -> Seq(rpc_call)]
  BY DEF TypeOK
<1>2. CASE Executing(current_task)
  <2> DEFINE q == rpc[current_task]
             saved == [q EXCEPT ![1].state = ctx]
  <2>1. q \in Seq(rpc_call) /\ q # <<>> /\ Head(q) = q[1]
    BY <1>1, <1>2 DEF Executing
  <2>2. Len(q) \in Nat /\ 1 \in 1 .. Len(q) /\ q[1] \in rpc_call
    BY <2>1
  <2>3. /\ [q[1] EXCEPT !.state = ctx] \in rpc_call
        /\ [q[1] EXCEPT !.state = ctx].state = ctx
        /\ [q[1] EXCEPT !.state = ctx].executing = q[1].executing
    BY <2>2 DEF rpc_call
  <2>4. /\ saved \in Seq(rpc_call) /\ Len(saved) = Len(q) /\ saved # <<>>
        /\ Head(saved) = [q[1] EXCEPT !.state = ctx]
        /\ \A n \in 2 .. Len(q) : saved[n] = q[n]
    BY <2>1, <2>2, <2>3
  <2>5. SavedQueues(ctx) = [rpc EXCEPT ![current_task] = saved]
    BY <1>2 DEF SavedQueues
  <2>6. CASE t = current_task
    <3>1. SavedQueues(ctx)[t] = saved /\ rpc[t] = q
      BY <1>1, <2>5, <2>6
    <3> HIDE DEF saved, q
    <3> QED BY <2>1, <2>3, <2>4, <2>6, <3>1 DEF Begun, OneBegun
  <2>7. CASE t # current_task
    <3>1. SavedQueues(ctx)[t] = rpc[t] /\ SavedQueues(ctx)[current_task] = saved
      BY <1>1, <2>5, <2>7
    <3>2. Head(saved).state = ctx
      BY <2>3, <2>4
    <3> HIDE DEF saved, q
    <3> QED BY <1>1, <2>7, <3>1, <3>2
  <2> QED BY <2>6, <2>7
<1>3. CASE ~Executing(current_task)
  BY <1>1, <1>3 DEF SavedQueues, Executing, Begun
<1> QED BY <1>2, <1>3

(* Initialising a queue begins its first call, if none has begun.           *)
LEMMA InitialisedQueue ==
    ASSUME NEW queues \in Queues, NEW dest \in Pid, NEW t \in Pid
    PROVE  /\ Initialised(queues, dest) \in Queues
           /\ t # dest => Initialised(queues, dest)[t] = queues[t]
           /\ Initialised(queues, dest)[t] = <<>> <=> queues[t] = <<>>
           /\ OneBegun(queues[t]) => OneBegun(Initialised(queues, dest)[t])
           /\ queues[dest] # <<>> => Begun(Initialised(queues, dest)[dest])
           /\ queues[dest] # <<>> /\ ~Begun(queues[dest]) =>
                  Head(Initialised(queues, dest)[dest]).state = Fresh(dest, "handler")
           /\ Begun(queues[dest]) => Initialised(queues, dest) = queues
<1> USE DEF Queues
<1>1. CASE queues[dest] # <<>> /\ ~Head(queues[dest]).executing
  <2> DEFINE q == queues[dest]
             call == init_rpc_call(dest, Head(q))
             r == <<call>> \o Tail(q)
  <2>1. q \in Seq(rpc_call) /\ q # <<>> /\ Len(q) \in Nat /\ Len(q) # 0
    BY <1>1
  <2>2. Head(q) \in rpc_call /\ Tail(q) \in Seq(rpc_call) /\ Len(Tail(q)) = Len(q) - 1
    BY <2>1
  <2>3. Fresh(dest, "handler") \in cpu_state
    BY FreshType DEF Pid, PidOrNull
  <2>4. call \in rpc_call /\ call.executing /\ call.state = Fresh(dest, "handler")
    BY <2>2, <2>3 DEF init_rpc_call, rpc_call
  <2>5. /\ r \in Seq(rpc_call) /\ r # <<>> /\ Head(r) = call /\ Len(r) = Len(q)
        /\ \A n \in 2 .. Len(q) : r[n] = q[n]
    <3> HIDE DEF call
    <3> QED BY <2>1, <2>2, <2>4
  <2>6. Initialised(queues, dest) = [queues EXCEPT ![dest] = r]
    BY <1>1 DEF Initialised
  <2> HIDE DEF r, call
  <2> QED BY <1>1, <2>1, <2>4, <2>5, <2>6 DEF Begun, OneBegun
<1>2. CASE ~(queues[dest] # <<>> /\ ~Head(queues[dest]).executing)
  BY <1>2 DEF Initialised, Begun
<1> QED BY <1>1, <1>2

(* Beginning a call makes no queue longer or shorter.                       *)
LEMMA InitialisedLength ==
    ASSUME NEW queues \in Queues, NEW dest \in Pid, NEW t \in Pid
    PROVE  Len(Initialised(queues, dest)[t]) = Len(queues[t])
<1> DEFINE q == queues[dest]
           call == init_rpc_call(dest, Head(q))
<1>1. q \in Seq(rpc_call) /\ queues \in [Pid -> Seq(rpc_call)]
  BY DEF Queues
<1>2. CASE q # <<>> /\ ~Head(q).executing
  <2>1. Len(Tail(q)) = Len(q) - 1 /\ Len(q) \in Nat /\ Tail(q) \in Seq(rpc_call)
    BY <1>1, <1>2
  <2> HIDE DEF call
  <2>2. Len(<<call>> \o Tail(q)) = Len(q)
    BY <2>1, <1>1
  <2>3. Initialised(queues, dest) = [queues EXCEPT ![dest] = <<call>> \o Tail(q)]
    BY <1>2 DEF Initialised, call
  <2> QED BY <1>1, <2>2, <2>3
<1>3. CASE ~(q # <<>> /\ ~Head(q).executing)
  BY <1>3 DEF Initialised
<1> QED BY <1>2, <1>3

(* A call that is popped leaves the others behind it, none of them begun.   *)
LEMMA PoppedQueue ==
    ASSUME TypeOK, current_task \in Pid, rpc[current_task] # <<>>,
           OneBegun(rpc[current_task]), NEW t \in Pid
    PROVE  /\ PoppedQueues \in Queues
           /\ OneBegun(PoppedQueues[current_task]) /\ ~Begun(PoppedQueues[current_task])
           /\ t # current_task => PoppedQueues[t] = rpc[t]
<1> DEFINE c == current_task
           q == SavedQueues(Caller)[c]
<1>1. Caller \in cpu_state
  BY CallerType
<1>2. /\ SavedQueues(Caller) \in Queues /\ q \in Seq(rpc_call) /\ q # <<>> /\ OneBegun(q)
      /\ t # c => SavedQueues(Caller)[t] = rpc[t]
  BY <1>1, SavedQueue, SavedTypes DEF Queues
<1>3. PoppedQueues = [SavedQueues(Caller) EXCEPT ![c] = Tail(q)]
  BY DEF PoppedQueues
<1> HIDE DEF q
<1>4. /\ Tail(q) \in Seq(rpc_call) /\ Len(Tail(q)) = Len(q) - 1 /\ Len(q) \in Nat
      /\ \A n \in 1 .. Len(Tail(q)) : Tail(q)[n] = q[n + 1] /\ n + 1 \in 2 .. Len(q)
  BY <1>2
<1>5. OneBegun(Tail(q))
  BY <1>2, <1>4 DEF OneBegun
<1>6. ASSUME Tail(q) # <<>> PROVE ~Head(Tail(q)).executing
  <2>1. 1 \in 1 .. Len(Tail(q)) /\ Head(Tail(q)) = Tail(q)[1]
    BY <1>4, <1>6
  <2> QED BY <1>2, <1>4, <2>1 DEF OneBegun
<1> QED BY <1>2, <1>3, <1>4, <1>5, <1>6 DEF Queues, Begun

-----------------------------------------------------------------------------
(* The search of schedule() moves along live tasks.                         *)
LEMMA NextIsLive ==
    ASSUME Inv, pc = "scan"
    PROVE  NextInList(cursor) \in live /\ current_task \in live
<1>1. cursor \in live /\ cursor \in Pid /\ current_task \in live
  BY DEF Inv, TypeOK, TaskListIntact, OnList
<1>2. first_task \in live
  <2>1. cursor <= first_task /\ first_task \in live \cup {NULL}
    BY <1>1 DEF Inv, TaskListIntact, FirstIsNewest
  <2> QED BY <1>1, <2>1, BoundsAssumption DEF Pid, NULL
<1> QED BY <1>1, <1>2 DEF NextInList, Inv, TaskListIntact, NextIsOlder

(* Switching to a task keeps queues in order.                               *)
LEMMA SwitchedInOrder ==
    ASSUME NEW dest \in Pid, NEW states, NEW queues \in Queues,
           \A t \in Pid : OneBegun(queues[t]) /\ (queues[t] # <<>> => rpc_handler_addr[t]),
           schedule_to_task(dest, states, queues),
           UNCHANGED rpc_handler_addr
    PROVE  QueuesInOrder'
<1>1. rpc' = Initialised(queues, dest)
  BY DEF schedule_to_task
<1> SUFFICES ASSUME NEW t \in Pid
             PROVE  OneBegun(rpc'[t]) /\ (rpc'[t] # <<>> => rpc_handler_addr[t])
  BY DEF QueuesInOrder, OneBegun
<1> QED BY <1>1, InitialisedQueue

(* Saving the caller keeps queues in order, also when a handler is set.     *)
LEMMA SavedInOrder ==
    ASSUME TypeOK, current_task \in Pid, QueuesInOrder, NEW ctx \in cpu_state
    PROVE  /\ SavedQueues(ctx) \in Queues
           /\ \A t \in Pid : /\ OneBegun(SavedQueues(ctx)[t])
                             /\ SavedQueues(ctx)[t] # <<>> => rpc_handler_addr[t]
<1>1. SavedQueues(ctx) \in Queues
  BY SavedTypes DEF Queues
<1> QED BY <1>1, SavedQueue DEF QueuesInOrder

(* Every step keeps the queues in order.                                    *)
LEMMA QueuesStep ==
    ASSUME Inv, QueuesInOrder, [Next]_vars
    PROVE  QueuesInOrder'
<1>1. TypeOK /\ cpu \in cpu_state /\ Caller \in cpu_state
  BY CallerType DEF Inv, TypeOK
<1>2. ASSUME current_task # NULL PROVE current_task \in Pid
  BY <1>2 DEF Inv, TypeOK, TaskListIntact, OnList
<1>3. ASSUME UNCHANGED <<rpc, rpc_handler_addr>>
      PROVE  QueuesInOrder'
  BY <1>3 DEF QueuesInOrder, OneBegun
<1>4. ASSUME current_task # NULL, NEW ctx \in cpu_state, rpc' = SavedQueues(ctx),
             \A t \in Pid : rpc_handler_addr[t] => rpc_handler_addr'[t]
      PROVE  QueuesInOrder'
  BY <1>1, <1>2, <1>4, SavedInOrder DEF QueuesInOrder, OneBegun
<1>5. CASE StartInit \/ enableScheduling \/ FirstDispatch \/ ScanSkip \/ Timer \/ UNCHANGED vars
  BY <1>3, <1>5
  DEF StartInit, enableScheduling, FirstDispatch, ScanSkip, Timer, vars, routing
<1>6. CASE ScanTake
  <2>1. current_task \in Pid /\ NextInList(cursor) \in Pid
    BY <1>2, <1>6, NextIsLive DEF ScanTake, Inv, TypeOK, TaskListIntact, OnList
  <2>2. schedule_to_task(NextInList(cursor), SavedStates(cpu), SavedQueues(cpu))
        /\ UNCHANGED rpc_handler_addr
    BY <1>6 DEF ScanTake, routing
  <2> QED BY <1>1, <2>1, <2>2, SavedInOrder, SwitchedInOrder
<1>7. CASE yield \/ (\E i \in Irqs : register_irq_rpc(i)) \/ (\E sub \in BOOLEAN : exec(sub))
  <2>1. current_task # NULL /\ rpc' = SavedQueues(Caller) /\ UNCHANGED rpc_handler_addr
    BY <1>7 DEF yield, register_irq_rpc, exec, May, SaveCaller, routing
  <2> QED BY <1>1, <1>4, <2>1
<1>8. CASE set_rpc_handler
  <2>1. current_task # NULL /\ rpc' = SavedQueues(Caller)
        /\ rpc_handler_addr' = [rpc_handler_addr EXCEPT ![current_task] = TRUE]
    BY <1>8 DEF set_rpc_handler, May, SaveCaller
  <2>2. \A t \in Pid : rpc_handler_addr[t] => rpc_handler_addr'[t]
    BY <1>1, <2>1 DEF TypeOK
  <2> QED BY <1>1, <1>4, <2>1, <2>2
<1>9. ASSUME NEW context, terminate_current(context) \/ schedule_exception(context),
             current_task # NULL
      PROVE  QueuesInOrder'
  <2>1. CASE terminate_current(context)
    <3>1. /\ rpc' = [rpc EXCEPT ![current_task] = <<>>]
          /\ rpc_handler_addr' = [rpc_handler_addr EXCEPT ![current_task] = FALSE]
      BY <2>1 DEF terminate_current, Freed
    <3>2. OneBegun(<<>>)
      BY DEF OneBegun
    <3> SUFFICES ASSUME NEW t \in Pid
                 PROVE  OneBegun(rpc'[t]) /\ (rpc'[t] # <<>> => rpc_handler_addr'[t])
      BY DEF QueuesInOrder, OneBegun
    <3> QED BY <1>1, <3>1, <3>2 DEF TypeOK, QueuesInOrder
  <2>2. CASE schedule_exception(context) /\ ~terminate_current(context)
    BY <1>3, <2>2 DEF schedule_exception, routing
  <2> QED BY <1>9, <2>1, <2>2
<1>10. CASE exit \/ Fault \/ fopenpmhandle_other
  BY <1>9, <1>10 DEF exit, Fault, fopenpmhandle_other, May
<1>11. CASE return_rpc_call
  <2>1. current_task # NULL /\ current_task \in Pid
    BY <1>2, <1>11 DEF return_rpc_call, May
  <2>2. CASE rpc[current_task] = <<>>
    BY <1>9, <1>11, <2>1, <2>2 DEF return_rpc_call
  <2>3. CASE rpc[current_task] # <<>>
    <3>1. PICK dest, states :
             /\ dest \in Pid
             /\ schedule_to_task(dest, states, PoppedQueues) /\ UNCHANGED rpc_handler_addr
      <4> DEFINE rTask == Head(rpc[current_task]).returnPID
                 zeroed == [SavedStates(Caller) EXCEPT ![rTask].eax = "zeroed"]
      <4>1. /\ \/ rTask \in live /\ schedule_to_task(rTask, zeroed, PoppedQueues)
               \/ schedule_to_task(current_task, SavedStates(Caller), PoppedQueues)
            /\ UNCHANGED rpc_handler_addr
        BY <1>11, <2>3 DEF return_rpc_call
      <4>2. live \subseteq Pid
        BY <1>1 DEF TypeOK
      <4> HIDE DEF zeroed, rTask
      <4> QED BY <2>1, <4>1, <4>2
    <3>2. PoppedQueues \in Queues
      BY <1>1, <2>1, <2>3, PoppedQueue DEF QueuesInOrder
    <3>3. ASSUME NEW t \in Pid
          PROVE  OneBegun(PoppedQueues[t]) /\ (PoppedQueues[t] # <<>> => rpc_handler_addr[t])
      BY <1>1, <2>1, <2>3, PoppedQueue DEF QueuesInOrder
    <3> QED BY <3>1, <3>2, <3>3, SwitchedInOrder
  <2> QED BY <2>2, <2>3
<1>12. ASSUME NEW i \in Irqs, Irq(i)
       PROVE  QueuesInOrder'
  <2> DEFINE d == irq_rpcs[i]
             call == [returnPID |-> current_task, funcID |-> i, executing |-> FALSE,
                      state |-> Fresh(NULL, "main")]
  <2>1. d \in Pid /\ rpc_handler_addr[d] /\ UNCHANGED rpc_handler_addr
        /\ rpc' = [rpc EXCEPT ![d] = Append(rpc[d], call)]
    BY <1>1, <1>12 DEF Irq, Accepts, TypeOK, create_rpc_call, routing
  <2>2. rpc[d] \in Seq(rpc_call) /\ rpc \in [Pid -> Seq(rpc_call)]
    BY <1>1, <2>1 DEF TypeOK
  <2>3. ~call.executing
    OBVIOUS
  <2> HIDE DEF call
  <2>4. /\ Len(Append(rpc[d], call)) = Len(rpc[d]) + 1
        /\ \A n \in 1 .. Len(rpc[d]) : Append(rpc[d], call)[n] = rpc[d][n]
        /\ Append(rpc[d], call)[Len(rpc[d]) + 1] = call
        /\ Len(rpc[d]) \in Nat
    BY <2>2
  <2>5. OneBegun(Append(rpc[d], call))
    <3> SUFFICES ASSUME NEW n \in 2 .. Len(rpc[d]) + 1
                 PROVE  ~Append(rpc[d], call)[n].executing
      BY <2>4 DEF OneBegun
    <3> QED BY <2>1, <2>3, <2>4 DEF QueuesInOrder, OneBegun
  <2> SUFFICES ASSUME NEW t \in Pid
               PROVE  OneBegun(rpc'[t]) /\ (rpc'[t] # <<>> => rpc_handler_addr'[t])
    BY DEF QueuesInOrder, OneBegun
  <2> QED BY <2>1, <2>2, <2>5 DEF QueuesInOrder
<1> QED
  BY <1>5, <1>6, <1>7, <1>8, <1>10, <1>11, <1>12
  DEF Next, Boot, Scan, Program, show_cod

(* Queues are kept by init_rpc_call and return_rpc_call: the first call is  *)
(* the one in progress, and nothing waits at a task without a handler.      *)
THEOREM RpcsInOrder == Spec => []OneRpcAtATime
<1>1. Init => QueuesInOrder
  BY DEF Init, QueuesInOrder, OneBegun
<1>2. Inv /\ QueuesInOrder /\ [Next]_vars => QueuesInOrder'
  BY QueuesStep
<1>3. Inv /\ QueuesInOrder => OneRpcAtATime
  BY DEF Inv, TypeOK, QueuesInOrder, OneBegun, OneRpcAtATime
<1> QED BY <1>1, <1>2, <1>3, Invariance, PTL DEF Spec

-----------------------------------------------------------------------------
(***************************************************************************)
(* Whose context is where, for workloads with DriversStay.                  *)
(***************************************************************************)
OwnMain(context, t) == context.task = t /\ context.code = "main"

OwnHandler(context, t) == context.task = t /\ context.code = "handler"

(* The CPU has the context of the current task, under its page directory.   *)
OnCpu ==
    pc # "halt" /\ current_task # NULL =>
        /\ cpu.task = current_task /\ active_pagedir = current_task
        /\ (cpu.code = "handler") <=> Begun(rpc[current_task])

(* A task's saved context is its main program's, and that of its RPC is its *)
(* handler's.                                                               *)
OwnContexts(states, queues) ==
    \A t \in live : /\ OwnMain(states[t], t)
                    /\ Begun(queues[t]) => OwnHandler(Head(queues[t]).state, t)

(* Calls go to drivers only.                                                *)
Routed ==
    /\ \A i \in Irqs : irq_rpcs[i] # NULL => Drives(irq_rpcs[i])
    /\ \A t \in Pid : rpc[t] # <<>> => t \in live /\ Drives(t)

Stayers == \A t \in Pid : t < nextPID /\ ~Leaves(t) => t \in live

Quiet == pc # "halt" /\ current_task = NULL => \A t \in Pid : rpc[t] = <<>>

ContextInv == OnCpu /\ OwnContexts(cpuState, rpc) /\ Routed /\ Stayers /\ Quiet

(* What saving the context that is on the CPU leaves behind.                *)
LEMMA SavedContexts ==
    ASSUME TypeOK, ContextInv, pc # "halt", current_task \in live,
           NEW ctx \in cpu_state, ctx.task = cpu.task, ctx.code = cpu.code
    PROVE  /\ OwnContexts(SavedStates(ctx), SavedQueues(ctx))
           /\ SavedStates(ctx) \in [Pid -> cpu_state]
           /\ SavedQueues(ctx) \in Queues
<1>1. /\ current_task \in Pid /\ live \subseteq Pid /\ current_task # NULL
      /\ cpuState \in [Pid -> cpu_state]
  BY DEF TypeOK, Pid, NULL
<1>2. /\ ctx.task = current_task
      /\ (ctx.code = "handler") <=> Begun(rpc[current_task])
      /\ ctx.code \in {"main", "handler"}
  BY <1>1 DEF ContextInv, OnCpu, cpu_state
<1>3. SavedStates(ctx) \in [Pid -> cpu_state] /\ SavedQueues(ctx) \in Queues
  BY <1>1, SavedTypes DEF Queues
<1>4. ASSUME NEW t \in live
      PROVE  /\ OwnMain(SavedStates(ctx)[t], t)
             /\ Begun(SavedQueues(ctx)[t]) => OwnHandler(Head(SavedQueues(ctx)[t]).state, t)
  <2>1. /\ OwnMain(cpuState[t], t)
        /\ Begun(rpc[t]) => OwnHandler(Head(rpc[t]).state, t)
    BY DEF ContextInv, OwnContexts
  <2>2. OwnMain(SavedStates(ctx)[t], t)
    BY <1>1, <1>2, <2>1 DEF SavedStates, Executing, Begun, OwnMain
  <2>3. CASE t = current_task
    BY <1>1, <1>2, <2>2, <2>3, SavedQueue DEF OwnHandler
  <2>4. CASE t # current_task
    BY <1>1, <2>1, <2>2, <2>4, SavedQueue
  <2> QED BY <2>3, <2>4
<1> QED BY <1>3, <1>4 DEF OwnContexts

(* schedule_to_task loads a context of the task it switches to, and its     *)
(* handler's exactly if a call has begun.                                   *)
LEMMA SwitchedContext ==
    ASSUME NEW dest \in live, live \subseteq Pid, NEW states, NEW queues \in Queues,
           OwnContexts(states, queues),
           schedule_to_task(dest, states, queues)
    PROVE  /\ current_task' = dest /\ OnCpu'
           /\ OwnContexts(cpuState', rpc')
           /\ \A t \in Pid : rpc'[t] = <<>> <=> queues[t] = <<>>
<1>1. /\ current_task' = dest /\ active_pagedir' = dest
      /\ cpuState' = states /\ rpc' = Initialised(queues, dest)
      /\ cpu' = IF queues[dest] = <<>> THEN states[dest] ELSE Head(rpc'[dest]).state
  BY DEF schedule_to_task
<1>2. dest \in Pid /\ OwnMain(Fresh(dest, "main"), dest)
      /\ OwnHandler(Fresh(dest, "handler"), dest)
  BY DEF Fresh, OwnMain, OwnHandler
<1>3. /\ OwnMain(states[dest], dest)
      /\ Begun(queues[dest]) => OwnHandler(Head(queues[dest]).state, dest)
  BY DEF OwnContexts
<1>4. queues[dest] # <<>> =>
          Begun(rpc'[dest]) /\ OwnHandler(Head(rpc'[dest]).state, dest)
  BY <1>1, <1>2, <1>3, InitialisedQueue
<1>5. queues[dest] = <<>> => ~Begun(rpc'[dest])
  BY <1>1, <1>2, InitialisedQueue DEF Begun
<1>6. OnCpu'
  BY <1>1, <1>3, <1>4, <1>5 DEF OnCpu, OwnMain, OwnHandler
<1>7. OwnContexts(cpuState', rpc')
  <2> SUFFICES ASSUME NEW t \in live
               PROVE  /\ OwnMain(states[t], t)
                      /\ Begun(rpc'[t]) => OwnHandler(Head(rpc'[t]).state, t)
    BY <1>1 DEF OwnContexts
  <2>1. CASE t = dest
    BY <1>3, <1>4, <1>5, <2>1
  <2>2. CASE t # dest
    BY <1>1, <1>2, <2>2, InitialisedQueue DEF OwnContexts
  <2> QED BY <2>1, <2>2
<1>8. \A t \in Pid : rpc'[t] = <<>> <=> queues[t] = <<>>
  BY <1>1, <1>2, InitialisedQueue
<1> QED BY <1>1, <1>6, <1>7, <1>8

(* A task that ends is followed by one that has no call to handle.          *)
LEMMA Departure ==
    ASSUME Inv, ContextInv, DriversStay, pc = "user", current_task \in live,
           Leaves(current_task), terminate_current(SuccessorState)
    PROVE  ContextInv'
<1> DEFINE p == current_task
           s == next[p]
<1>1. /\ p \in Pid /\ p # 1 /\ 1 \in Pid /\ p < nextPID /\ MaxPID \in Nat
      /\ live \subseteq Pid /\ nextPID \in Nat
  BY BoundsAssumption
  DEF DriversStay, Inv, TypeOK, TaskListIntact, FirstIsNewest, Pid
<1>2. 1 \in live /\ 1 < p
  BY <1>1 DEF ContextInv, Stayers, DriversStay, Pid
<1>3. /\ s \in live /\ s < p /\ s \in Pid /\ s # NULL
      /\ \A u \in live : u < p => u <= s
  <2>1. s \in live \cup {NULL} /\ s < p /\ \A u \in live : u < p => u <= s
    BY DEF Inv, TaskListIntact, NextIsOlder
  <2>2. 1 <= s
    BY <1>2, <2>1
  <2>3. s # NULL
    BY <2>2 DEF NULL
  <2> QED BY <1>1, <2>1, <2>3
<1>4. rpc[s] = <<>>
  <2> SUFFICES ASSUME rpc[s] # <<>> PROVE FALSE
    OBVIOUS
  <2>1. Drives(s)
    BY <1>3 DEF ContextInv, Routed
  <2>2. PICK q \in s + 1 .. p - 1 : ~Leaves(q)
    BY <1>1, <1>3, <2>1 DEF DriversStay
  <2>3. q \in Pid /\ q < nextPID /\ q < p /\ q > s
    BY <1>1, <1>3 DEF Pid
  <2>4. q \in live
    BY <2>2, <2>3 DEF ContextInv, Stayers
  <2> QED BY <1>1, <1>3, <2>3, <2>4 DEF Pid
<1>5. Successor = s
  BY <1>3 DEF Successor
<1>6. /\ current_task' = s /\ active_pagedir' = s /\ cpu' = cpuState[s] /\ pc' = pc
      /\ live' = live \ {p}
      /\ rpc' = [rpc EXCEPT ![p] = <<>>]
      /\ cpuState' = [cpuState EXCEPT ![p] = Fresh(NULL, "main")]
      /\ UNCHANGED <<nextPID, irq_rpcs>>
  BY <1>3, <1>5 DEF terminate_current, SuccessorState, Freed
<1>7. \A t \in Pid : t # p => rpc'[t] = rpc[t] /\ cpuState'[t] = cpuState[t]
  BY <1>6 DEF Inv, TypeOK
<1>8. rpc'[p] = <<>>
  BY <1>1, <1>6 DEF Inv, TypeOK
<1>9. OnCpu'
  <2>1. cpu'.task = s /\ cpu'.code = "main"
    BY <1>3, <1>6 DEF ContextInv, OwnContexts, OwnMain
  <2>2. ~Begun(rpc'[s])
    BY <1>1, <1>3, <1>4, <1>7 DEF Begun, Pid
  <2> QED BY <1>6, <2>1, <2>2 DEF OnCpu
<1>10. OwnContexts(cpuState, rpc)'
  BY <1>1, <1>6, <1>7 DEF ContextInv, OwnContexts
<1>11. Routed'
  BY <1>6, <1>7, <1>8 DEF ContextInv, Routed
<1>12. Stayers'
  BY <1>6 DEF ContextInv, Stayers
<1>13. Quiet'
  BY <1>3, <1>6 DEF Quiet
<1> QED BY <1>9, <1>10, <1>11, <1>12, <1>13 DEF ContextInv

(* A system call saves its caller and may start a task.                     *)
LEMMA SystemCall ==
    ASSUME Inv, ContextInv, pc = "user", pc' # "halt", current_task \in live,
           UNCHANGED <<current_task, active_pagedir>>, cpu' = Caller,
           rpc' = SavedQueues(Caller),
           live \subseteq live', live' \subseteq Pid, nextPID' \in Nat,
           \A t \in live : cpuState'[t] = SavedStates(Caller)[t],
           \A t \in live' \ live : OwnMain(cpuState'[t], t),
           \A t \in Pid : t < nextPID' => t < nextPID \/ t \in live',
           \A i \in Irqs : irq_rpcs'[i] = irq_rpcs[i] \/ Drives(irq_rpcs'[i])
    PROVE  ContextInv'
<1>1. /\ Caller \in cpu_state /\ Caller.task = cpu.task /\ Caller.code = cpu.code
      /\ TypeOK /\ live \subseteq Pid /\ current_task \in Pid /\ current_task # NULL
  BY CallerType DEF Inv, TypeOK, Caller, cpu_state, Pid, NULL
<1>2. OwnContexts(SavedStates(Caller), SavedQueues(Caller))
  BY <1>1, SavedContexts
<1>3. \A t \in Pid : /\ rpc'[t] = <<>> <=> rpc[t] = <<>>
                     /\ Begun(rpc'[t]) <=> Begun(rpc[t])
  BY <1>1, SavedQueue
<1>4. OnCpu'
  BY <1>1, <1>3 DEF ContextInv, OnCpu
<1>5. OwnContexts(cpuState, rpc)'
  <2> SUFFICES ASSUME NEW t \in live'
               PROVE  /\ OwnMain(cpuState'[t], t)
                      /\ Begun(rpc'[t]) => OwnHandler(Head(rpc'[t]).state, t)
    BY DEF OwnContexts
  <2>1. CASE t \in live
    BY <1>2, <2>1 DEF OwnContexts
  <2>2. CASE t \notin live
    <3>1. rpc'[t] = <<>>
      BY <1>3, <2>2 DEF ContextInv, Routed
    <3> QED BY <2>2, <3>1 DEF Begun
  <2> QED BY <2>1, <2>2
<1>6. Routed'
  BY <1>3 DEF ContextInv, Routed
<1>7. Stayers'
  BY DEF ContextInv, Stayers
<1>8. Quiet'
  BY <1>1 DEF Quiet
<1> QED BY <1>4, <1>5, <1>6, <1>7, <1>8 DEF ContextInv

(* The return from an RPC: its queue is popped, and whoever was interrupted *)
(* or has the next call goes on.                                            *)
LEMMA Returned ==
    ASSUME Inv, QueuesInOrder, ContextInv, pc = "user", current_task \in live,
           cpu.code = "handler", return_rpc_call
    PROVE  /\ ContextInv'
           /\ \A t \in live : Len(rpc'[t]) < Len(rpc[t]) => t = current_task
<1> DEFINE c == current_task
           call == Head(rpc[c])
           rTask == call.returnPID
           zeroed == [SavedStates(Caller) EXCEPT ![rTask].eax = "zeroed"]
<1>1. /\ TypeOK /\ live \subseteq Pid /\ c \in Pid /\ c # NULL
      /\ Caller \in cpu_state /\ Caller.task = cpu.task /\ Caller.code = cpu.code
  BY CallerType DEF Inv, TypeOK, Caller, cpu_state, Pid, NULL
<1>2. Begun(rpc[c]) /\ rpc[c] # <<>> /\ c \in live /\ Drives(c)
  BY <1>1 DEF ContextInv, OnCpu, Begun, Routed
<1>3. /\ irq_rpcs' = enable_irq_rpc(call.funcID)
      /\ \/ rTask \in live /\ schedule_to_task(rTask, zeroed, PoppedQueues)
         \/ schedule_to_task(c, SavedStates(Caller), PoppedQueues)
      /\ UNCHANGED <<list, family, rpc_handler_addr, control>>
  BY <1>2 DEF return_rpc_call
<1>4. OwnContexts(SavedStates(Caller), SavedQueues(Caller))
      /\ SavedStates(Caller) \in [Pid -> cpu_state]
  BY <1>1, SavedContexts
<1>5. /\ PoppedQueues \in Queues
      /\ ~Begun(PoppedQueues[c])
      /\ \A t \in Pid : t # c => PoppedQueues[t] = rpc[t]
  BY <1>1, <1>2, PoppedQueue DEF QueuesInOrder
<1>6. OwnContexts(SavedStates(Caller), PoppedQueues)
  BY <1>1, <1>4, <1>5 DEF OwnContexts, ContextInv
<1>7. ASSUME rTask \in live PROVE OwnContexts(zeroed, PoppedQueues)
  <2>1. rTask \in Pid /\ SavedStates(Caller)[rTask] \in cpu_state
    BY <1>1, <1>4, <1>7
  <2>2. /\ [SavedStates(Caller)[rTask] EXCEPT !.eax = "zeroed"].task
               = SavedStates(Caller)[rTask].task
        /\ [SavedStates(Caller)[rTask] EXCEPT !.eax = "zeroed"].code
               = SavedStates(Caller)[rTask].code
    BY <2>1 DEF cpu_state
  <2>3. \A t \in Pid : zeroed[t] = IF t = rTask
                                  THEN [SavedStates(Caller)[rTask] EXCEPT !.eax = "zeroed"]
                                  ELSE SavedStates(Caller)[t]
    BY <1>4, <2>1
  <2> HIDE DEF zeroed, rTask
  <2> QED BY <1>1, <1>6, <2>2, <2>3 DEF OwnContexts, OwnMain
<1>8. PICK dest, states :
         /\ dest \in live
         /\ schedule_to_task(dest, states, PoppedQueues)
         /\ OwnContexts(states, PoppedQueues)
  <2> HIDE DEF zeroed, rTask
  <2> QED BY <1>3, <1>6, <1>7
<1>9. /\ current_task' = dest /\ OnCpu' /\ OwnContexts(cpuState', rpc')
      /\ \A t \in Pid : rpc'[t] = <<>> <=> PoppedQueues[t] = <<>>
  BY <1>1, <1>5, <1>8, SwitchedContext
<1>10. live' = live /\ nextPID' = nextPID
  BY <1>3 DEF list, family
<1>11. OwnContexts(cpuState, rpc)'
  BY <1>9, <1>10 DEF OwnContexts
<1>12. irq_rpcs' = irq_rpcs
  <2>1. call \in rpc_call
    BY <1>1, <1>2 DEF TypeOK
  <2>2. call.funcID \in Irqs /\ irq_rpcs \in [Irqs -> PidOrNull]
    BY <1>1, <2>1 DEF TypeOK, rpc_call
  <2>3. ~(irq_rpcs[call.funcID] < 0)
    BY <2>2, BoundsAssumption DEF PidOrNull
  <2> HIDE DEF call
  <2> QED BY <1>3, <2>2, <2>3 DEF enable_irq_rpc
<1>13. Routed'
  BY <1>1, <1>2, <1>5, <1>9, <1>10, <1>12 DEF ContextInv, Routed
<1>14. Stayers'
  BY <1>10 DEF ContextInv, Stayers
<1>15. Quiet'
  BY <1>1, <1>8, <1>9 DEF Quiet, Pid, NULL
<1>16. ASSUME NEW t \in live, t # c PROVE ~(Len(rpc'[t]) < Len(rpc[t]))
  <2>1. rpc' = Initialised(PoppedQueues, dest) /\ t \in Pid /\ dest \in Pid
    BY <1>1, <1>8 DEF schedule_to_task
  <2>2. Len(Initialised(PoppedQueues, dest)[t]) = Len(PoppedQueues[t])
    BY <1>5, <2>1, InitialisedLength
  <2>3. Len(rpc[t]) \in Nat
    BY <1>1, <2>1 DEF TypeOK
  <2> QED BY <1>5, <1>16, <2>1, <2>2, <2>3
<1> QED BY <1>9, <1>11, <1>13, <1>14, <1>15, <1>16 DEF ContextInv

(* With drivers that stay, a task faults or leaves only if it may.          *)
LEMMA Leaving ==
    ASSUME Inv, ContextInv, DriversStay, exit \/ Fault
    PROVE  ContextInv'
<1>1. pc = "user" /\ current_task # NULL /\ current_task \in live
  BY DEF exit, Fault, May, Inv, TaskListIntact, OnList
<1>2. active_pagedir = current_task /\ cpu.task = current_task
  BY <1>1 DEF ContextInv, OnCpu
<1>3. Leaves(current_task)
  BY <1>2 DEF exit, Fault, May, Leaves
<1>4. CASE terminate_current(SuccessorState)
  BY <1>1, <1>3, <1>4, Departure
<1>5. CASE ~terminate_current(SuccessorState)
  <2>1. pc' = "halt" /\ UNCHANGED <<list, family, rpc, routing, machine>>
    BY <1>5 DEF exit, Fault, schedule_exception
  <2> QED BY <2>1
        DEF ContextInv, OnCpu, OwnContexts, Routed, Stayers, Quiet,
            list, family, routing, machine
<1> QED BY <1>4, <1>5

(* return_rpc is called by handlers only.                                   *)
LEMMA ReturnsInHandler ==
    ASSUME DriversStay, return_rpc_call
    PROVE  /\ pc = "user" /\ current_task # NULL
           /\ cpu.code = "handler"
BY DEF DriversStay, return_rpc_call, May

(* Every step leaves each context with its owner.                           *)
LEMMA ContextStep ==
    ASSUME Inv, QueuesInOrder, ContextInv, DriversStay, [Next]_vars
    PROVE  ContextInv'
<1>1. /\ TypeOK /\ live \subseteq Pid /\ NULL \notin Pid /\ nextPID \in Nat
      /\ cpu \in cpu_state
  BY BoundsAssumption DEF Inv, TypeOK, Pid, NULL
<1>2. ASSUME current_task # NULL PROVE current_task \in live
  BY <1>2 DEF Inv, TaskListIntact, OnList
<1>3. ASSUME UNCHANGED <<live, nextPID, rpc, irq_rpcs, current_task, cpuState, cpu,
                         active_pagedir>>,
             pc' # "halt" => pc # "halt"
      PROVE  ContextInv'
  BY <1>3 DEF ContextInv, OnCpu, OwnContexts, Routed, Stayers, Quiet
<1>4. CASE StartInit
  <2>1. /\ current_task = NULL /\ pc = "user" /\ live = {}
        /\ live' = {nextPID} /\ nextPID' = nextPID + 1 /\ nextPID \in Pid
        /\ cpuState' = [cpuState EXCEPT ![nextPID] = Fresh(nextPID, "main")]
        /\ UNCHANGED <<rpc, irq_rpcs, current_task, pc>>
    BY <1>4 DEF StartInit, ExecElf, init_task, routing, control
  <2>2. OwnMain(cpuState'[nextPID], nextPID) /\ rpc[nextPID] = <<>>
    BY <1>1, <2>1 DEF TypeOK, ContextInv, Quiet, Fresh, OwnMain
  <2>3. \A t \in Pid : t < nextPID' => t < nextPID \/ t = nextPID
    BY <1>1, <2>1 DEF Pid
  <2> QED BY <1>1, <2>1, <2>2, <2>3
        DEF ContextInv, OnCpu, OwnContexts, Routed, Stayers, Quiet, Begun
<1>5. CASE enableScheduling \/ ScanSkip \/ Timer \/ UNCHANGED vars
  BY <1>3, <1>5
  DEF enableScheduling, ScanSkip, Timer, schedule, vars, list, family, routing, machine, control
<1>6. CASE FirstDispatch
  <2>1. /\ current_task' = first_task /\ active_pagedir' = first_task
        /\ cpu' = cpuState[first_task] /\ first_task \in live /\ pc = "user"
        /\ current_task = NULL
        /\ UNCHANGED <<live, nextPID, rpc, irq_rpcs, cpuState, pc>>
    BY <1>6 DEF FirstDispatch, Inv, TaskListIntact, FirstIsNewest, list, family, routing, control
  <2>2. OwnMain(cpuState[first_task], first_task) /\ rpc[first_task] = <<>>
    BY <1>1, <2>1 DEF ContextInv, OwnContexts, Quiet
  <2>3. OnCpu'
    BY <2>1, <2>2 DEF OnCpu, OwnMain, Begun
  <2>4. current_task' # NULL
    BY <1>1, <2>1
  <2> QED BY <2>1, <2>3, <2>4 DEF ContextInv, OwnContexts, Routed, Stayers, Quiet
<1>7. CASE ScanTake
  <2> DEFINE dest == NextInList(cursor)
  <2>1. /\ pc = "scan" /\ dest \in live /\ current_task \in live
        /\ schedule_to_task(dest, SavedStates(cpu), SavedQueues(cpu))
        /\ UNCHANGED <<live, nextPID, irq_rpcs>>
    BY <1>7, NextIsLive DEF ScanTake, list, family, routing
  <2>2. /\ OwnContexts(SavedStates(cpu), SavedQueues(cpu)) /\ SavedQueues(cpu) \in Queues
        /\ \A t \in Pid : SavedQueues(cpu)[t] = <<>> <=> rpc[t] = <<>>
    BY <1>1, <2>1, SavedContexts, SavedQueue
  <2> HIDE DEF dest
  <2>3. /\ current_task' = dest /\ OnCpu' /\ OwnContexts(cpuState', rpc')
        /\ \A t \in Pid : rpc'[t] = <<>> <=> rpc[t] = <<>>
    BY <1>1, <2>1, <2>2, SwitchedContext
  <2>4. OwnContexts(cpuState, rpc)' /\ current_task' # NULL
    BY <1>1, <2>1, <2>3 DEF OwnContexts
  <2> QED BY <2>1, <2>3, <2>4 DEF ContextInv, Routed, Stayers, Quiet
<1>8. CASE yield \/ set_rpc_handler \/ \E i \in Irqs : register_irq_rpc(i)
  <2>1. /\ pc = "user" /\ pc' # "halt" /\ current_task \in live
        /\ cpuState' = SavedStates(Caller) /\ rpc' = SavedQueues(Caller) /\ cpu' = Caller
        /\ UNCHANGED <<live, nextPID, current_task, active_pagedir>>
    BY <1>2, <1>8
    DEF yield, set_rpc_handler, register_irq_rpc, May, SaveCaller, schedule,
        list, family, control
  <2>2. \A i \in Irqs : irq_rpcs'[i] = irq_rpcs[i] \/ Drives(irq_rpcs'[i])
    <3>1. CASE yield \/ set_rpc_handler
      BY <3>1 DEF yield, set_rpc_handler, routing
    <3>2. ASSUME NEW i \in Irqs, register_irq_rpc(i)
          PROVE  \A j \in Irqs : irq_rpcs'[j] = irq_rpcs[j] \/ Drives(irq_rpcs'[j])
      <4>1. Drives(current_task) /\ irq_rpcs' = [irq_rpcs EXCEPT ![i] = current_task]
        BY <1>2, <3>2 DEF register_irq_rpc, May, ContextInv, OnCpu, Drives
      <4> QED BY <1>1, <4>1 DEF TypeOK
    <3> QED BY <1>8, <3>1, <3>2
  <2> QED BY <1>1, <2>1, <2>2, SystemCall
<1>9. ASSUME NEW sub \in BOOLEAN, exec(sub)
      PROVE  ContextInv'
  <2>1. /\ pc = "user" /\ pc' # "halt" /\ current_task \in live
        /\ rpc' = SavedQueues(Caller) /\ cpu' = Caller
        /\ UNCHANGED <<irq_rpcs, current_task>>
    BY <1>2, <1>9 DEF exec, May, schedule, routing
  <2>2. Caller \in cpu_state /\ SavedStates(Caller) \in [Pid -> cpu_state]
    BY <1>1, <2>1, CallerType, SavedTypes
  <2>3. PICK file \in Files :
           IF file = "elf"
           THEN /\ ExecElf(sub)
                /\ cpuState' = [SavedStates(Caller) EXCEPT ![nextPID] = Fresh(nextPID, "main")]
           ELSE ExecFailed(file) /\ cpuState' = SavedStates(Caller)
    BY <1>9 DEF exec
  <2>4. CASE file = "elf"
    <3>1. /\ nextPID \in Pid /\ live' = live \cup {nextPID} /\ nextPID' = nextPID + 1
          /\ active_pagedir' = active_pagedir
          /\ cpuState' = [SavedStates(Caller) EXCEPT ![nextPID] = Fresh(nextPID, "main")]
      BY <2>3, <2>4 DEF ExecElf, init_task
    <3>2. \A t \in live : t # nextPID
      BY <1>1 DEF Inv, TaskListIntact, FirstIsNewest, Pid
    <3>3. /\ \A t \in live : cpuState'[t] = SavedStates(Caller)[t]
          /\ OwnMain(cpuState'[nextPID], nextPID)
      BY <1>1, <2>2, <3>1, <3>2 DEF OwnMain, Fresh
    <3>4. \A t \in Pid : t < nextPID' => t < nextPID \/ t \in live'
      BY <1>1, <3>1 DEF Pid
    <3> QED BY <1>1, <2>1, <3>1, <3>3, <3>4, SystemCall
  <2>5. CASE file # "elf"
    <3>1. file # "corrupt"
      BY DEF DriversStay
    <3>2. UNCHANGED <<live, nextPID, active_pagedir>> /\ cpuState' = SavedStates(Caller)
      BY <2>3, <2>5, <3>1 DEF ExecFailed, list, family
    <3> QED BY <1>1, <2>1, <3>2, SystemCall
  <2> QED BY <2>4, <2>5
<1>10. CASE exit \/ Fault
  BY <1>10, Leaving
<1>11. CASE fopenpmhandle_other
  <2>1. active_pagedir \in Pid /\ "fopenpmhandle_other" \in Calls[active_pagedir]
    BY <1>11 DEF fopenpmhandle_other, May
  <2> QED BY <2>1 DEF DriversStay
<1>12. CASE return_rpc_call
  BY <1>2, <1>12, ReturnsInHandler, Returned
<1>13. ASSUME NEW i \in Irqs, Irq(i)
       PROVE  ContextInv'
  <2> DEFINE d == irq_rpcs[i]
  <2>1. /\ pc = "user" /\ current_task # NULL
        /\ d \in live /\ d \in Pid /\ rpc' = [rpc EXCEPT ![d] = create_rpc_call(d, i)]
        /\ UNCHANGED <<live, nextPID, irq_rpcs, current_task, cpuState, cpu, active_pagedir, pc>>
    BY <1>1, <1>13 DEF Irq, Accepts, list, family, routing, machine
  <2>2. Drives(d)
    BY <1>1, <2>1 DEF ContextInv, Routed
  <2>3. /\ create_rpc_call(d, i) # <<>>
        /\ rpc[d] = <<>> => ~Begun(create_rpc_call(d, i))
        /\ rpc[d] # <<>> => Head(create_rpc_call(d, i)) = Head(rpc[d])
    <3> DEFINE call == [returnPID |-> current_task, funcID |-> i, executing |-> FALSE,
                        state |-> Fresh(NULL, "main")]
    <3>1. create_rpc_call(d, i) = Append(rpc[d], call) /\ ~call.executing
      BY DEF create_rpc_call
    <3>2. rpc[d] \in Seq(rpc_call)
      BY <1>1, <2>1 DEF TypeOK
    <3> HIDE DEF call
    <3>3. /\ Append(rpc[d], call) # <<>>
          /\ rpc[d] = <<>> => Head(Append(rpc[d], call)) = call
          /\ rpc[d] # <<>> => Head(Append(rpc[d], call)) = Head(rpc[d])
      BY <3>2
    <3> QED BY <3>1, <3>3 DEF Begun
  <2>4. \A t \in Pid : /\ Begun(rpc'[t]) <=> Begun(rpc[t])
                       /\ Begun(rpc[t]) => Head(rpc'[t]) = Head(rpc[t])
                       /\ rpc'[t] # <<>> => t = d \/ rpc[t] # <<>>
    BY <1>1, <2>1, <2>3 DEF TypeOK, Begun
  <2> HIDE DEF d
  <2>5. OnCpu'
    BY <1>1, <1>2, <2>1, <2>4 DEF ContextInv, OnCpu
  <2>6. OwnContexts(cpuState, rpc)'
    BY <1>1, <2>1, <2>4 DEF ContextInv, OwnContexts
  <2> QED BY <2>1, <2>2, <2>4, <2>5, <2>6 DEF ContextInv, Routed, Stayers, Quiet
<1> QED
  BY <1>4, <1>5, <1>6, <1>7, <1>8, <1>9, <1>10, <1>11, <1>12, <1>13
  DEF Next, Boot, Scan, Program, show_cod

(* The kernel starts without tasks, calls or contexts.                      *)
LEMMA ContextInit == Init => ContextInv
<1> SUFFICES ASSUME Init PROVE ContextInv
  OBVIOUS
<1>1. \A t \in Pid : ~(t < 1)
  BY BoundsAssumption DEF Pid
<1> QED BY <1>1 DEF Init, ContextInv, OnCpu, OwnContexts, Routed, Stayers, Quiet, NULL

RpcInv == Inv /\ QueuesInOrder /\ ContextInv

(* What the contexts need, as one invariant: with drivers that stay, every  *)
(* step keeps it.                                                           *)
THEOREM ContextInvariance == DriversStay => (Spec => []RpcInv)
<1> SUFFICES ASSUME DriversStay PROVE Spec => []RpcInv
  OBVIOUS
<1>1. Init => RpcInv
  BY InvInit, ContextInit DEF Init, QueuesInOrder, OneBegun, RpcInv
<1>2. RpcInv /\ [Next]_vars => RpcInv'
  BY InvStep, QueuesStep, ContextStep DEF RpcInv
<1> QED BY <1>1, <1>2, PTL DEF Spec

(* With drivers that stay, the contexts of tasks and of their RPC handlers  *)
(* never mix (save_cpu_state, init_rpc_call, schedule_to_task), however     *)
(* interrupts fall between starts, exits, searches and returns.             *)
THEOREM ContextsNeverMix == DriversStay => (Spec => []ContextConsistent)
<1>1. RpcInv => ContextConsistent
  BY DEF RpcInv, Inv, ContextInv, OnCpu, ContextConsistent, Executing, Begun
<1> QED BY <1>1, ContextInvariance, PTL

(* ... and the page directory that is active is the running task's own:     *)
(* vmm_activate_pagedir never lags behind the context that is loaded.       *)
THEOREM PagedirIsOwn == DriversStay => (Spec => []RunsInOwnPagedir)
<1>1. RpcInv => RunsInOwnPagedir
  BY DEF RpcInv, ContextInv, OnCpu, RunsInOwnPagedir
<1> QED BY <1>1, ContextInvariance, PTL

(* ... and no call is lost: return_rpc_call takes it out of the queue in    *)
(* the handler's own context, and nothing else does.                        *)
THEOREM NoCallLost == DriversStay => (Spec => PoppedByItsHandler)
<1> SUFFICES ASSUME DriversStay PROVE Spec => PoppedByItsHandler
  OBVIOUS
<1> DEFINE Popped == \A t \in live : Len(rpc'[t]) < Len(rpc[t]) =>
                         cpu.task = t /\ cpu.code = "handler"
<1>1. RpcInv /\ [Next]_vars => [Popped]_vars
  <2> SUFFICES ASSUME RpcInv, Next PROVE Popped
    OBVIOUS
  <2>1. /\ TypeOK /\ live \subseteq Pid /\ cpu \in cpu_state /\ Caller \in cpu_state
        /\ current_task # NULL => current_task \in live /\ current_task \in Pid
    BY CallerType DEF RpcInv, Inv, TypeOK, TaskListIntact, OnList
  <2>2. \A t \in live : Len(rpc[t]) \in Nat
    BY <2>1 DEF TypeOK
  <2>3. ASSUME rpc' = rpc PROVE Popped
    BY <2>2, <2>3
  <2>4. ASSUME current_task # NULL, rpc' = SavedQueues(Caller)
        PROVE  Popped
    BY <2>1, <2>2, <2>4, SavedTypes
  <2>5. CASE Boot \/ ScanSkip \/ Timer \/ show_cod
    BY <2>3, <2>5
    DEF Boot, StartInit, enableScheduling, FirstDispatch, ScanSkip, Timer, show_cod, vars
  <2>6. CASE ScanTake
    <3>1. current_task \in Pid /\ NextInList(cursor) \in Pid
      BY <2>1, <2>6, NextIsLive DEF RpcInv, ScanTake
    <3>2. rpc' = Initialised(SavedQueues(cpu), NextInList(cursor))
      BY <2>6 DEF ScanTake, schedule_to_task
    <3>3. SavedQueues(cpu) \in Queues /\ \A t \in Pid : Len(SavedQueues(cpu)[t]) = Len(rpc[t])
      BY <2>1, <3>1, SavedTypes DEF Queues
    <3> QED BY <2>1, <2>2, <3>1, <3>2, <3>3, InitialisedLength
  <2>7. CASE \/ yield \/ set_rpc_handler
             \/ (\E i \in Irqs : register_irq_rpc(i)) \/ (\E sub \in BOOLEAN : exec(sub))
    BY <2>4, <2>7 DEF yield, set_rpc_handler, register_irq_rpc, exec, May, SaveCaller
  <2>8. CASE exit \/ Fault
    <3>1. /\ pc = "user" /\ current_task \in live /\ current_task \in Pid
          /\ Leaves(current_task)
      <4>1. pc = "user" /\ current_task # NULL
        BY <2>8 DEF exit, Fault, May
      <4>2. active_pagedir = current_task /\ cpu.task = current_task
        BY <4>1 DEF RpcInv, ContextInv, OnCpu
      <4> QED BY <2>1, <2>8, <4>1, <4>2 DEF exit, Fault, May, Leaves
    <3>2. rpc[current_task] = <<>>
      BY <3>1 DEF RpcInv, ContextInv, Routed, DriversStay
    <3>3. rpc' = rpc \/ rpc' = [rpc EXCEPT ![current_task] = <<>>]
      BY <2>8 DEF exit, Fault, schedule_exception, terminate_current, Freed
    <3> QED BY <2>1, <2>2, <3>1, <3>2, <3>3 DEF TypeOK
  <2>9. CASE fopenpmhandle_other
    BY <2>9 DEF fopenpmhandle_other, May, DriversStay
  <2>10. CASE return_rpc_call
    <3>1. pc = "user" /\ current_task \in live /\ current_task # NULL /\ cpu.code = "handler"
      BY <2>1, <2>10, ReturnsInHandler
    <3>2. cpu.task = current_task
      BY <3>1 DEF RpcInv, ContextInv, OnCpu
    <3> QED BY <2>10, <3>1, <3>2, Returned DEF RpcInv
  <2>11. ASSUME NEW i \in Irqs, Irq(i)
         PROVE  Popped
    <3> DEFINE d == irq_rpcs[i]
               call == [returnPID |-> current_task, funcID |-> i, executing |-> FALSE,
                        state |-> Fresh(NULL, "main")]
    <3>1. d \in Pid /\ rpc' = [rpc EXCEPT ![d] = Append(rpc[d], call)]
      BY <2>1, <2>11 DEF Irq, Accepts, create_rpc_call
    <3> HIDE DEF call
    <3>2. rpc \in [Pid -> Seq(rpc_call)]
      BY <2>1 DEF TypeOK
    <3>3. Len(Append(rpc[d], call)) = Len(rpc[d]) + 1
      BY <3>1, <3>2
    <3>4. \A t \in Pid : Len(rpc'[t]) = Len(rpc[t]) \/ Len(rpc'[t]) = Len(rpc[t]) + 1
      BY <3>1, <3>2, <3>3
    <3> HIDE DEF d
    <3> QED BY <2>1, <2>2, <3>4
  <2> QED
    BY <2>5, <2>6, <2>7, <2>8, <2>9, <2>10, <2>11 DEF Next, Scan, Program
<1> HIDE DEF Popped
<1>2. []RpcInv /\ [][Next]_vars => [][Popped]_vars
  BY <1>1, PTL
<1>3. [][Popped]_vars => PoppedByItsHandler
  BY DEF Popped, PoppedByItsHandler
<1> QED BY <1>2, <1>3, ContextInvariance DEF Spec

-----------------------------------------------------------------------------
(***************************************************************************)
(* Part four: the order of the calls, whatever the programs do.             *)
(***************************************************************************)
(* What a queue asks for is a sequence as long as the queue.                *)
LEMMA AskedIs ==
    ASSUME NEW q \in Seq(rpc_call)
    PROVE  /\ DOMAIN Asked(q) = 1 .. Len(q) /\ Len(Asked(q)) = Len(q)
           /\ Asked(q) \in Seq(Irqs \X PidOrNull)
           /\ \A n \in 1 .. Len(q) : Asked(q)[n] = <<q[n].funcID, q[n].returnPID>>
<1>1. /\ Len(q) \in Nat /\ DOMAIN q = 1 .. Len(q)
      /\ \A n \in 1 .. Len(q) : q[n].funcID \in Irqs /\ q[n].returnPID \in PidOrNull
  <2>1. \A n \in 1 .. Len(q) : q[n] \in rpc_call
    OBVIOUS
  <2>2. \A call \in rpc_call : call.funcID \in Irqs /\ call.returnPID \in PidOrNull
    BY DEF rpc_call
  <2> QED BY <2>1, <2>2
<1>2. Asked(q) = [n \in 1 .. Len(q) |-> <<q[n].funcID, q[n].returnPID>>]
  BY <1>1 DEF Asked
<1> QED BY <1>1, <1>2

(* Queues with the same requests in the same places ask for the same.       *)
LEMMA AskTheSame ==
    ASSUME NEW q \in Seq(rpc_call), NEW r \in Seq(rpc_call), Len(q) = Len(r),
           \A n \in 1 .. Len(q) : q[n].funcID = r[n].funcID /\ q[n].returnPID = r[n].returnPID
    PROVE  Asked(q) = Asked(r)
<1>1. DOMAIN q = 1 .. Len(q) /\ DOMAIN r = 1 .. Len(q)
  OBVIOUS
<1> QED BY <1>1 DEF Asked

(* Saving a context does not change what is asked for.                      *)
LEMMA SavedAsk ==
    ASSUME TypeOK, current_task \in Pid, NEW ctx \in cpu_state, NEW t \in Pid
    PROVE  Asked(SavedQueues(ctx)[t]) = Asked(rpc[t])
<1> DEFINE q == rpc[current_task]
           saved == [q EXCEPT ![1].state = ctx]
<1>1. rpc \in [Pid -> Seq(rpc_call)] /\ q \in Seq(rpc_call)
  BY DEF TypeOK
<1>2. CASE Executing(current_task)
  <2>1. q # <<>> /\ 1 \in 1 .. Len(q) /\ q[1] \in rpc_call
    BY <1>1, <1>2 DEF Executing
  <2>2. /\ [q[1] EXCEPT !.state = ctx] \in rpc_call
        /\ [q[1] EXCEPT !.state = ctx].funcID = q[1].funcID
        /\ [q[1] EXCEPT !.state = ctx].returnPID = q[1].returnPID
    BY <2>1 DEF rpc_call
  <2>3. /\ saved \in Seq(rpc_call) /\ Len(saved) = Len(q)
        /\ \A n \in 1 .. Len(q) :
               saved[n] = IF n = 1 THEN [q[1] EXCEPT !.state = ctx] ELSE q[n]
    BY <1>1, <2>1, <2>2
  <2>4. SavedQueues(ctx) = [rpc EXCEPT ![current_task] = saved]
    BY <1>2 DEF SavedQueues
  <2> HIDE DEF saved
  <2>5. Asked(saved) = Asked(q)
    <3>1. \A n \in 1 .. Len(saved) :
              saved[n].funcID = q[n].funcID /\ saved[n].returnPID = q[n].returnPID
      BY <2>2, <2>3
    <3> QED BY <1>1, <2>3, <3>1, AskTheSame
  <2> QED BY <1>1, <2>4, <2>5
<1>3. CASE ~Executing(current_task)
  BY <1>3 DEF SavedQueues
<1> QED BY <1>2, <1>3

(* Nor does the beginning of a call.                                        *)
LEMMA BegunAsk ==
    ASSUME NEW queues \in Queues, NEW dest \in Pid, NEW t \in Pid
    PROVE  Asked(Initialised(queues, dest)[t]) = Asked(queues[t])
<1> DEFINE q == queues[dest]
           call == init_rpc_call(dest, Head(q))
           r == <<call>> \o Tail(q)
<1>1. q \in Seq(rpc_call) /\ queues \in [Pid -> Seq(rpc_call)]
  BY DEF Queues
<1>2. CASE q # <<>> /\ ~Head(q).executing
  <2>1. /\ Head(q) \in rpc_call /\ Head(q) = q[1] /\ Tail(q) \in Seq(rpc_call)
        /\ Len(Tail(q)) = Len(q) - 1 /\ Len(q) \in Nat
        /\ \A n \in 2 .. Len(q) : Tail(q)[n - 1] = q[n]
    BY <1>1, <1>2
  <2>2. Fresh(dest, "handler") \in cpu_state
    BY FreshType DEF Pid, PidOrNull
  <2>3. /\ call \in rpc_call /\ call.funcID = Head(q).funcID
        /\ call.returnPID = Head(q).returnPID
    BY <2>1, <2>2 DEF init_rpc_call, rpc_call
  <2>4. /\ r \in Seq(rpc_call) /\ Len(r) = Len(q)
        /\ \A n \in 1 .. Len(q) : r[n] = IF n = 1 THEN call ELSE q[n]
    <3> HIDE DEF call
    <3> QED BY <1>2, <2>1, <2>3
  <2>5. Initialised(queues, dest) = [queues EXCEPT ![dest] = r]
    BY <1>2 DEF Initialised
  <2> HIDE DEF r, call
  <2>6. Asked(r) = Asked(q)
    <3>1. \A n \in 1 .. Len(r) : r[n].funcID = q[n].funcID /\ r[n].returnPID = q[n].returnPID
      BY <2>1, <2>3, <2>4
    <3> QED BY <1>1, <2>4, <3>1, AskTheSame
  <2> QED BY <1>1, <2>5, <2>6
<1>3. CASE ~(q # <<>> /\ ~Head(q).executing)
  BY <1>3 DEF Initialised
<1> QED BY <1>2, <1>3

(* Without its first call a queue asks for the rest.                        *)
LEMMA TailAsks ==
    ASSUME NEW q \in Seq(rpc_call), q # <<>>
    PROVE  Asked(Tail(q)) = Tail(Asked(q))
<1> DEFINE r == Tail(q)
           a == Asked(q)
           b == Asked(r)
<1>1. /\ r \in Seq(rpc_call) /\ Len(r) = Len(q) - 1 /\ Len(q) \in Nat
      /\ Len(q) # 0 /\ \A n \in 1 .. Len(q) - 1 : r[n] = q[n + 1] /\ n + 1 \in 1 .. Len(q)
  OBVIOUS
<1> HIDE DEF r
<1>2. /\ Len(a) = Len(q) /\ a \in Seq(Irqs \X PidOrNull)
      /\ \A n \in 1 .. Len(q) : a[n] = <<q[n].funcID, q[n].returnPID>>
  BY AskedIs
<1>3. /\ Len(b) = Len(q) - 1 /\ b \in Seq(Irqs \X PidOrNull)
      /\ \A n \in 1 .. Len(q) - 1 : b[n] = <<r[n].funcID, r[n].returnPID>>
  BY <1>1, AskedIs
<1> HIDE DEF a, b
<1>4. \A n \in 1 .. Len(q) - 1 : b[n] = a[n + 1]
  BY <1>1, <1>2, <1>3
<1>5. b = Tail(a)
  <2> DEFINE c == Tail(a)
  <2>1. /\ c \in Seq(Irqs \X PidOrNull) /\ Len(c) = Len(q) - 1
        /\ \A n \in 1 .. Len(q) - 1 : c[n] = a[n + 1]
    <3>1. a # <<>>
      BY <1>1, <1>2
    <3> QED BY <1>1, <1>2, <3>1
  <2> HIDE DEF c
  <2>2. Len(b) = Len(c) /\ \A n \in 1 .. Len(b) : b[n] = c[n]
    BY <1>3, <1>4, <2>1
  <2>3. b = c
    BY <1>3, <2>1, <2>2
  <2> QED BY <2>3 DEF c
<1> QED BY <1>5 DEF a, b, r

(* With a call behind it, for that as well.                                 *)
LEMMA AppendAsks ==
    ASSUME NEW q \in Seq(rpc_call), NEW call \in rpc_call
    PROVE  Asked(Append(q, call)) = Append(Asked(q), <<call.funcID, call.returnPID>>)
<1> DEFINE r == Append(q, call)
           asks == <<call.funcID, call.returnPID>>
           a == Asked(q)
           b == Asked(r)
<1>1. /\ r \in Seq(rpc_call) /\ Len(r) = Len(q) + 1 /\ Len(q) \in Nat
      /\ r[Len(q) + 1] = call /\ \A n \in 1 .. Len(q) : r[n] = q[n]
  OBVIOUS
<1>2. asks \in Irqs \X PidOrNull
  BY DEF rpc_call
<1> HIDE DEF r
<1>3. /\ Len(b) = Len(q) + 1 /\ b \in Seq(Irqs \X PidOrNull)
      /\ \A n \in 1 .. Len(q) + 1 : b[n] = <<r[n].funcID, r[n].returnPID>>
  BY <1>1, AskedIs
<1>4. /\ Len(a) = Len(q) /\ a \in Seq(Irqs \X PidOrNull)
      /\ \A n \in 1 .. Len(q) : a[n] = <<q[n].funcID, q[n].returnPID>>
  BY AskedIs
<1> HIDE DEF a, b
<1>5. \A n \in 1 .. Len(q) + 1 : b[n] = IF n = Len(q) + 1 THEN asks ELSE a[n]
  <2>1. \A n \in 1 .. Len(q) + 1 : n = Len(q) + 1 \/ n \in 1 .. Len(q)
    BY <1>1
  <2> QED BY <1>1, <1>3, <1>4, <2>1
<1> HIDE DEF asks
<1>6. b = Append(a, asks)
  BY <1>1, <1>2, <1>3, <1>4, <1>5
<1> QED BY <1>6 DEF a, b, r, asks

(* What a step may make of a queue.                                         *)
InTurn(t) ==
    \/ Asked(rpc'[t]) = Asked(rpc[t])
    \/ t = current_task /\ rpc[t] # <<>> /\ Asked(rpc'[t]) = Tail(Asked(rpc[t]))
    \/ t \in live /\ \E i \in Irqs :
           irq_rpcs[i] = t /\ Asked(rpc'[t]) = Append(Asked(rpc[t]), <<i, current_task>>)
    \/ t \notin live' /\ rpc'[t] = <<>>

(* Every step serves the queues in turn; for a return the first call goes,  *)
(* wherever it returns to.                                                  *)
LEMMA TurnStep ==
    ASSUME Inv, Next, NEW t \in Pid
    PROVE  InTurn(t)
<1>1. /\ TypeOK /\ live \subseteq Pid /\ cpu \in cpu_state /\ Caller \in cpu_state
      /\ rpc \in [Pid -> Seq(rpc_call)]
      /\ current_task # NULL => current_task \in live /\ current_task \in Pid
  BY CallerType DEF Inv, TypeOK, TaskListIntact, OnList
<1>2. ASSUME rpc' = rpc PROVE InTurn(t)
  BY <1>2 DEF InTurn
<1>3. ASSUME current_task # NULL, rpc' = SavedQueues(Caller)
      PROVE  InTurn(t)
  BY <1>1, <1>3, SavedAsk DEF InTurn
<1>4. CASE Boot \/ ScanSkip \/ Timer \/ show_cod
  BY <1>2, <1>4
  DEF Boot, StartInit, enableScheduling, FirstDispatch, ScanSkip, Timer, show_cod, vars
<1>5. CASE ScanTake
  <2>1. current_task \in Pid /\ NextInList(cursor) \in Pid
    BY <1>1, <1>5, NextIsLive DEF ScanTake
  <2>2. rpc' = Initialised(SavedQueues(cpu), NextInList(cursor))
    BY <1>5 DEF ScanTake, schedule_to_task
  <2>3. SavedQueues(cpu) \in Queues /\ Asked(SavedQueues(cpu)[t]) = Asked(rpc[t])
    BY <1>1, <2>1, SavedTypes, SavedAsk DEF Queues
  <2> QED BY <2>1, <2>2, <2>3, BegunAsk DEF InTurn
<1>6. CASE \/ yield \/ set_rpc_handler
           \/ (\E i \in Irqs : register_irq_rpc(i)) \/ (\E sub \in BOOLEAN : exec(sub))
  BY <1>3, <1>6 DEF yield, set_rpc_handler, register_irq_rpc, exec, May, SaveCaller
<1>7. ASSUME NEW context, terminate_current(context), current_task # NULL
      PROVE  InTurn(t)
  <2>1. rpc' = [rpc EXCEPT ![current_task] = <<>>] /\ live' = live \ {current_task}
    BY <1>7 DEF terminate_current, Freed
  <2> QED BY <1>1, <2>1 DEF InTurn
<1>8. CASE exit \/ Fault \/ fopenpmhandle_other
  BY <1>2, <1>7, <1>8 DEF exit, Fault, fopenpmhandle_other, May, schedule_exception
<1>9. CASE return_rpc_call
  <2> DEFINE c == current_task
  <2>1. c # NULL /\ c \in Pid
    BY <1>1, <1>9 DEF return_rpc_call, May
  <2>2. CASE rpc[c] = <<>>
    BY <1>7, <1>9, <2>1, <2>2 DEF return_rpc_call
  <2>3. CASE rpc[c] # <<>>
    <3>1. PICK dest \in Pid : rpc' = Initialised(PoppedQueues, dest)
      <4>1. \/ Head(rpc[c]).returnPID \in live
               /\ rpc' = Initialised(PoppedQueues, Head(rpc[c]).returnPID)
            \/ rpc' = Initialised(PoppedQueues, c)
        BY <1>9, <2>3 DEF return_rpc_call, schedule_to_task
      <4> QED BY <1>1, <2>1, <4>1
    <3> DEFINE saved == SavedQueues(Caller)
    <3>2. saved \in Queues /\ saved[c] \in Seq(rpc_call) /\ saved[c] # <<>>
      BY <1>1, <2>1, <2>3, SavedTypes, SavedQueue DEF Queues
    <3>3. Asked(saved[t]) = Asked(rpc[t])
      BY <1>1, <2>1, SavedAsk
    <3> HIDE DEF saved
    <3>4. PoppedQueues = [saved EXCEPT ![c] = Tail(saved[c])]
      BY DEF PoppedQueues, saved
    <3>5. PoppedQueues \in Queues
      <4>1. Tail(saved[c]) \in Seq(rpc_call)
        BY <3>2
      <4> QED BY <3>2, <3>4, <4>1 DEF Queues
    <3>6. Asked(rpc'[t]) = Asked(PoppedQueues[t])
      BY <3>1, <3>5, BegunAsk
    <3>7. CASE t = c
      <4>1. PoppedQueues[t] = Tail(saved[t])
        BY <3>2, <3>4, <3>7 DEF Queues
      <4>2. Asked(Tail(saved[t])) = Tail(Asked(saved[t]))
        BY <3>2, <3>7, TailAsks
      <4> QED BY <2>3, <3>3, <3>6, <3>7, <4>1, <4>2 DEF InTurn
    <3>8. CASE t # c
      <4>1. PoppedQueues[t] = saved[t]
        BY <3>2, <3>4, <3>8 DEF Queues
      <4> QED BY <3>3, <3>6, <4>1 DEF InTurn
    <3> QED BY <3>7, <3>8
  <2> QED BY <2>2, <2>3
<1>10. ASSUME NEW i \in Irqs, Irq(i)
       PROVE  InTurn(t)
  <2> DEFINE d == irq_rpcs[i]
             call == [returnPID |-> current_task, funcID |-> i, executing |-> FALSE,
                      state |-> Fresh(NULL, "main")]
  <2>1. d \in Pid /\ d \in live /\ rpc' = [rpc EXCEPT ![d] = Append(rpc[d], call)]
    BY <1>1, <1>10 DEF Irq, Accepts, create_rpc_call
  <2>2. call \in rpc_call /\ call.funcID = i /\ call.returnPID = current_task
    <3>1. current_task \in PidOrNull
      BY <1>1 DEF TypeOK
    <3>2. Fresh(NULL, "main") \in cpu_state
      BY FreshType, BoundsAssumption DEF PidOrNull, NULL
    <3> QED BY <3>1, <3>2 DEF rpc_call
  <2> HIDE DEF call
  <2>3. CASE t = d
    <3>1. rpc'[t] = Append(rpc[t], call) /\ rpc[t] \in Seq(rpc_call)
      BY <1>1, <2>1, <2>3
    <3>2. Asked(rpc'[t]) = Append(Asked(rpc[t]), <<i, current_task>>)
      BY <2>2, <3>1, AppendAsks
    <3> QED BY <2>1, <2>3, <3>2 DEF InTurn
  <2>4. CASE t # d
    BY <1>1, <2>1, <2>4 DEF InTurn
  <2> QED BY <2>3, <2>4
<1> QED
  BY <1>4, <1>5, <1>6, <1>8, <1>9, <1>10 DEF Next, Scan, Program

(* Interrupts reach each task in the order in which they came               *)
(* (scheduler_rpc.c), for any number of tasks and interrupts, and without   *)
(* DriversStay: also when a driver ends in the middle of a call, when       *)
(* programs return from calls they never got, or start files that are none. *)
THEOREM ServedInTurn == Spec => RpcsInTurn
<1> DEFINE Turns == \A t \in Pid : InTurn(t)
<1>1. Inv /\ [Next]_vars => [Turns]_vars
  BY TurnStep DEF Turns
<1> HIDE DEF Turns
<1>2. []Inv /\ [][Next]_vars => [][Turns]_vars
  BY <1>1, PTL
<1>3. [][Turns]_vars => RpcsInTurn
  BY DEF Turns, InTurn, RpcsInTurn
<1> QED BY <1>2, <1>3, Invariance DEF Spec

-----------------------------------------------------------------------------
(***************************************************************************)
(* Part five: the round of the scheduler, whatever the programs do.         *)
(***************************************************************************)
(* The tasks the search has left behind are blocked.                        *)
SkippedBlocked ==
    pc = "scan" /\ cursor # current_task =>
        \A t \in live : t = cursor \/ t \in Between(current_task, cursor) =>
            blocked_by_sub[t] # NULL

(* One turn of the search goes past no task but the one it was at.          *)
LEMMA OneFurther ==
    ASSUME Inv, pc = "scan", NEW t \in Between(current_task, NextInList(cursor))
    PROVE  cursor # current_task /\ (t = cursor \/ t \in Between(current_task, cursor))
<1> DEFINE c == current_task
           n == NextInList(cursor)
<1>1. /\ MaxPID \in Nat /\ live \subseteq 1 .. MaxPID
      /\ c \in live /\ cursor \in live /\ t \in live /\ n \in live
  BY NextIsLive, BoundsAssumption
  DEF Inv, TypeOK, TaskListIntact, OnList, Between, Pid
<1>2. IF n < c THEN n < t /\ t < c ELSE t < c \/ n < t
  BY DEF Between
<1>3. /\ \A u \in live : u < cursor => u <= next[cursor]
      /\ \A u \in live : u <= first_task
      /\ next[cursor] < cursor
  BY <1>1 DEF Inv, TaskListIntact, NextIsOlder, FirstIsNewest
<1> SUFFICES c # cursor /\ (t = cursor \/ IF cursor < c THEN cursor < t /\ t < c
                                                       ELSE t < c \/ cursor < t)
  BY <1>1 DEF Between
<1>4. CASE next[cursor] # NULL
  <2>1. /\ n < cursor
        /\ t < cursor => t <= n
        /\ c < cursor => c <= n
    BY <1>1, <1>3, <1>4 DEF NextInList
  <2> HIDE DEF c, n
  <2> QED BY <1>1, <1>2, <2>1
<1>5. CASE next[cursor] = NULL
  <2>1. n = first_task /\ \A u \in live : u <= n
    BY <1>3, <1>5 DEF NextInList
  <2>2. ASSUME NEW u \in live PROVE cursor <= u
    BY <1>1, <1>3, <1>5 DEF NULL
  <2>3. t <= n /\ c <= n /\ cursor <= t /\ cursor <= c
    BY <1>1, <2>1, <2>2
  <2> HIDE DEF c, n
  <2> QED BY <1>1, <1>2, <2>3
<1> QED BY <1>4, <1>5

(* The end of a task passes over nobody.                                    *)
LEMMA EndPassesNobody ==
    ASSUME Inv, current_task \in live, NEW t \in Between(current_task, Successor)
    PROVE  FALSE
<1> DEFINE c == current_task
<1>1. /\ MaxPID \in Nat /\ live \subseteq 1 .. MaxPID /\ t \in live
      /\ first_task \in live \cup {NULL} /\ next[c] \in live \cup {NULL}
  BY BoundsAssumption
  DEF Inv, TypeOK, TaskListIntact, NextIsOlder, FirstIsNewest, Between, Pid
<1>2. IF Successor < c THEN Successor < t /\ t < c ELSE t < c \/ Successor < t
  BY DEF Between
<1>3. /\ \A u \in live : u < c => u <= next[c]
      /\ \A u \in live : u <= first_task
      /\ next[c] < c
  BY DEF Inv, TaskListIntact, NextIsOlder, FirstIsNewest
<1>4. CASE next[c] # NULL
  <2>1. Successor = next[c] /\ next[c] \in live /\ (t < c => t <= next[c])
    BY <1>1, <1>3, <1>4 DEF Successor
  <2>2. Successor \in 1 .. MaxPID /\ t \in 1 .. MaxPID /\ Successor < c
    BY <1>1, <1>3, <2>1
  <2> HIDE DEF c
  <2> QED BY <1>1, <1>2, <2>1, <2>2
<1>5. CASE next[c] = NULL /\ c = first_task
  <2>1. Successor = 0
    BY <1>5 DEF Successor, FirstAfterUnlink, NULL
  <2> QED BY <1>1, <1>2, <1>3, <1>5, <2>1 DEF NULL
<1>6. CASE next[c] = NULL /\ c # first_task
  <2>1. Successor = first_task
    BY <1>6 DEF Successor, FirstAfterUnlink
  <2> QED BY <1>1, <1>2, <1>3, <1>6, <2>1 DEF NULL
<1> QED BY <1>4, <1>5, <1>6

(* The search starts with nobody behind it, and leaves only blocked tasks   *)
(* behind.                                                                  *)
LEMMA SearchStep ==
    ASSUME Inv, SkippedBlocked, [Next]_vars
    PROVE  SkippedBlocked'
<1>1. CASE ScanSkip
  <2>1. /\ UNCHANGED <<live, current_task, blocked_by_sub>> /\ pc = "scan"
        /\ cursor' = NextInList(cursor) /\ blocked_by_sub[cursor'] # NULL
    BY <1>1 DEF ScanSkip, list, family, machine
  <2> SUFFICES ASSUME NEW t \in live, t \in Between(current_task, cursor')
               PROVE  blocked_by_sub[t] # NULL
    BY <2>1 DEF SkippedBlocked, Between
  <2> QED BY <2>1, OneFurther DEF SkippedBlocked
<1>2. CASE UNCHANGED vars
  BY <1>2 DEF SkippedBlocked, Between, vars, list, family, machine, control
<1>3. CASE Timer \/ yield \/ (\E sub \in BOOLEAN : exec(sub))
  BY <1>3 DEF Timer, yield, exec, May, schedule, machine, SkippedBlocked
<1>4. CASE \/ Boot \/ ScanTake \/ set_rpc_handler \/ (\E i \in Irqs : register_irq_rpc(i))
           \/ (\E i \in Irqs : Irq(i)) \/ exit \/ Fault \/ fopenpmhandle_other
           \/ return_rpc_call
  <2>1. pc' # "scan"
    BY <1>4
    DEF Boot, StartInit, enableScheduling, FirstDispatch, ScanTake, set_rpc_handler,
        register_irq_rpc, Irq, exit, Fault, fopenpmhandle_other, return_rpc_call, May,
        schedule_exception, terminate_current, control
  <2> QED BY <2>1 DEF SkippedBlocked
<1> QED BY <1>1, <1>2, <1>3, <1>4 DEF Next, Scan, Program, show_cod

(* What NobodyPassedOver says of a step.                                    *)
KeepsTheRound ==
    Handed => \/ ReturnsFromCall
              \/ \A t \in Between(current_task, current_task') : blocked_by_sub[t] # NULL

LEMMA RoundStep ==
    ASSUME Inv, SkippedBlocked, Next
    PROVE  KeepsTheRound
<1>1. /\ TypeOK /\ live \subseteq Pid
      /\ current_task # NULL => current_task \in live /\ current_task \in Pid
  BY DEF Inv, TypeOK, TaskListIntact, OnList
<1>2. CASE \/ StartInit \/ enableScheduling \/ ScanSkip \/ Timer \/ yield \/ set_rpc_handler
           \/ (\E i \in Irqs : register_irq_rpc(i)) \/ (\E sub \in BOOLEAN : exec(sub))
           \/ (\E i \in Irqs : Irq(i)) \/ show_cod
  <2>1. current_task' = current_task /\ ~(pc = "scan" /\ pc' # "scan")
    BY <1>2
    DEF StartInit, enableScheduling, ScanSkip, Timer, yield, set_rpc_handler,
        register_irq_rpc, exec, Irq, show_cod, May, machine, control, vars
  <2> QED BY <2>1 DEF KeepsTheRound, Handed
<1>3. CASE FirstDispatch
  <2>1. current_task = 0 /\ current_task' = first_task
    BY <1>3 DEF FirstDispatch, NULL
  <2>2. MaxPID \in Nat /\ live \subseteq 1 .. MaxPID /\ \A t \in live : t <= first_task
    BY <1>1, BoundsAssumption DEF Inv, TaskListIntact, FirstIsNewest, Pid
  <2>3. first_task \in 0 .. MaxPID
    BY <1>1 DEF TypeOK, PidOrNull
  <2>4. ASSUME NEW t \in live PROVE ~(t < 0) /\ ~(first_task < t) /\ ~(first_task < 0)
    BY <2>2, <2>3
  <2> DEFINE f == first_task
  <2> HIDE DEF f
  <2>5. {t \in live : IF f < 0 THEN f < t /\ t < 0 ELSE t < 0 \/ f < t} = {}
    BY <2>4 DEF f
  <2>6. Between(current_task, current_task') = {}
    BY <2>1, <2>5 DEF Between, f
  <2> QED BY <2>6 DEF KeepsTheRound
<1>4. CASE ScanTake
  <2>1. pc = "scan" /\ current_task' = NextInList(cursor)
    BY <1>4 DEF ScanTake, schedule_to_task
  <2> SUFFICES ASSUME NEW t \in Between(current_task, NextInList(cursor))
               PROVE  blocked_by_sub[t] # NULL
    BY <2>1 DEF KeepsTheRound
  <2>2. t \in live
    BY DEF Between
  <2> QED BY <2>1, <2>2, OneFurther DEF SkippedBlocked
<1>5. ASSUME NEW context, current_task # NULL,
             terminate_current(context) \/ schedule_exception(context), pc = "user"
      PROVE  KeepsTheRound
  <2>1. CASE terminate_current(context)
    <3>1. current_task' = Successor
      BY <2>1 DEF terminate_current
    <3> QED BY <1>1, <1>5, <3>1, EndPassesNobody DEF KeepsTheRound
  <2>2. CASE schedule_exception(context) /\ ~terminate_current(context)
    <3>1. current_task' = current_task
      BY <2>2 DEF schedule_exception, machine
    <3> QED BY <1>5, <3>1 DEF KeepsTheRound, Handed
  <2> QED BY <1>5, <2>1, <2>2
<1>6. CASE exit \/ Fault \/ fopenpmhandle_other
  BY <1>5, <1>6 DEF exit, Fault, fopenpmhandle_other, May
<1>7. CASE return_rpc_call
  <2> DEFINE c == current_task
  <2>1. c # NULL /\ pc = "user" /\ c \in Pid /\ c \in live
    BY <1>1, <1>7 DEF return_rpc_call, May
  <2>2. CASE rpc[c] = <<>>
    BY <1>5, <1>7, <2>1, <2>2 DEF return_rpc_call
  <2>3. CASE rpc[c] # <<>>
    <3>1. /\ live' = live
          /\ \/ /\ Head(rpc[c]).returnPID \in live
                /\ rpc' = Initialised(PoppedQueues, Head(rpc[c]).returnPID)
             \/ rpc' = Initialised(PoppedQueues, c)
      BY <1>7, <2>3 DEF return_rpc_call, schedule_to_task, list
    <3>2. PICK dest \in Pid : rpc' = Initialised(PoppedQueues, dest)
      BY <1>1, <2>1, <3>1
    <3> DEFINE saved == SavedQueues(Caller)
    <3>3. saved \in Queues /\ Len(saved[c]) = Len(rpc[c]) /\ saved[c] # <<>>
      BY <1>1, <2>1, <2>3, CallerType, SavedTypes, SavedQueue DEF Queues
    <3> HIDE DEF saved
    <3>4. PoppedQueues = [saved EXCEPT ![c] = Tail(saved[c])]
      BY DEF PoppedQueues, saved
    <3>5. /\ saved[c] \in Seq(rpc_call) /\ Tail(saved[c]) \in Seq(rpc_call)
          /\ Len(Tail(saved[c])) < Len(saved[c])
      BY <2>1, <3>3 DEF Queues
    <3>6. PoppedQueues \in Queues /\ PoppedQueues[c] = Tail(saved[c])
      BY <2>1, <3>3, <3>4, <3>5 DEF Queues
    <3>7. Len(rpc'[c]) = Len(Tail(saved[c]))
      BY <2>1, <3>2, <3>6, InitialisedLength
    <3> QED BY <2>1, <3>1, <3>3, <3>5, <3>7 DEF KeepsTheRound, ReturnsFromCall
  <2> QED BY <2>2, <2>3
<1> QED
  BY <1>2, <1>3, <1>4, <1>6, <1>7 DEF Next, Boot, Scan, Program

(* schedule() and terminate_current (scheduler.c:223-242, :130-141) give    *)
(* the CPU to the next ready task of the round, past blocked tasks only,    *)
(* for any number of tasks and any workload: only the return from an        *)
(* interrupt's call leaves the round.                                       *)
THEOREM RoundIsKept == Spec => NobodyPassedOver
<1>1. Init => SkippedBlocked
  BY DEF Init, SkippedBlocked
<1>2. Inv /\ SkippedBlocked /\ [Next]_vars => SkippedBlocked'
  BY SearchStep
<1>3. Inv /\ SkippedBlocked /\ [Next]_vars => [KeepsTheRound]_vars
  BY RoundStep
<1>4. Init /\ []Inv /\ [][Next]_vars => []SkippedBlocked
  BY <1>1, <1>2, PTL
<1>5. []Inv /\ []SkippedBlocked /\ [][Next]_vars => [][KeepsTheRound]_vars
  BY <1>3, PTL
<1>6. [][KeepsTheRound]_vars => NobodyPassedOver
  BY DEF KeepsTheRound, NobodyPassedOver
<1> QED BY <1>4, <1>5, <1>6, Invariance, PTL DEF Spec
=============================================================================
