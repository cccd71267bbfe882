---------------------------- MODULE MCScheduler ----------------------------
(***************************************************************************)
(* Workloads for the scheduler: who may ask the kernel for what.            *)
(***************************************************************************)
EXTENDS Scheduler

(* Every program may do anything, in any order; the last one that is        *)
(* started is no driver.                                                    *)
AnyCalls ==
    [p \in Pid |-> IF p = MaxPID THEN CallNames \ {"set_rpc_handler", "register_irq"}
                                 ELSE CallNames]

(* /ibin/init starts the keyboard driver, which never exits, and the shell; *)
(* the shell runs commands and waits for them; every program installs the   *)
(* RPC handler of the library, only the driver asks for interrupts, and     *)
(* return_rpc is called by handlers only.                                   *)
DriverCalls ==
    [p \in Pid |-> CASE p = 1 -> {"exec"}
                     [] p = 2 -> {"set_rpc_handler", "register_irq"}
                     [] p = 3 -> {"set_rpc_handler", "yield", "sexec"}
                     [] OTHER -> {"set_rpc_handler", "yield", "exit", "fault"}]

ASSUME DriverCallsAssumption ==
    Calls = DriverCalls /\ "corrupt" \notin Files => DriversStay

(* Tasks meddle with the standard handles of tasks that are not theirs.     *)
MeddlingCalls ==
    [p \in Pid |-> IF p = 1 THEN {"exec"} ELSE {"yield", "fopenpmhandle_other"}]
=============================================================================
