----------------------------- MODULE Processes -----------------------------
(***************************************************************************)
(* What the process core promises to programs that start one another in the *)
(* foreground, whatever lists, contexts and page directories it uses: a     *)
(* process that started a subtask does nothing until that subtask is gone,  *)
(* and goes on at once when it is.                                          *)
(***************************************************************************)
EXTENDS Integers

CONSTANT MaxPID

NoProcess == 0

VARIABLES
    started,    \* the processes that were ever started: 1 .. started
    alive,      \* those that still exist
    waitsFor,   \* waitsFor[p]: the subtask p waits for
    running     \* the process on the CPU, NoProcess while the kernel decides

pvars == <<started, alive, waitsFor, running>>

Ready(p) == p \in alive /\ waitsFor[p] = NoProcess

PInit ==
    /\ started = 0 /\ alive = {} /\ running = NoProcess
    /\ waitsFor = [p \in 1 .. MaxPID |-> NoProcess]

(* The kernel starts the first process.                                     *)
Launch ==
    /\ started = 0
    /\ started' = 1 /\ alive' = {1}
    /\ UNCHANGED <<waitsFor, running>>

(* The running process starts another one and waits for it.                 *)
StartSubtask ==
    /\ running # NoProcess /\ started < MaxPID
    /\ started' = started + 1
    /\ alive' = alive \cup {started + 1}
    /\ waitsFor' = [waitsFor EXCEPT ![running] = started + 1]
    /\ running' = NoProcess

Preempt ==
    /\ running' = NoProcess
    /\ UNCHANGED <<started, alive, waitsFor>>

Dispatch ==
    /\ running = NoProcess
    /\ running' \in {p \in alive : Ready(p)}
    /\ UNCHANGED <<started, alive, waitsFor>>

(* The running process ends; the process waiting for it, and no other, is   *)
(* released and runs next.                                                  *)
Exit ==
    /\ running # NoProcess
    /\ alive' = alive \ {running}
    /\ waitsFor' = [p \in 1 .. MaxPID |->
                       IF waitsFor[p] = running THEN NoProcess ELSE waitsFor[p]]
    /\ waitsFor[running'] = running
    /\ UNCHANGED started

(* The last process ends, and with it the system.                           *)
Stop ==
    /\ running # NoProcess /\ alive = {running}
    /\ alive' = {} /\ running' = NoProcess
    /\ UNCHANGED <<started, waitsFor>>

PNext == Launch \/ Stop \/ StartSubtask \/ Preempt \/ (running' \in 1 .. MaxPID /\ Exit) \/ Dispatch

PSpec == PInit /\ [][PNext]_pvars
=============================================================================
