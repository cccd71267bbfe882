------------------------------ MODULE ExecPath ------------------------------
(***************************************************************************)
(* The path every task works in (struct task's execPath) and who owns it.   *)
(* A task started by another gets the very pointer of the other; changing   *)
(* the path frees the old string; and a subtask that ends hands its path    *)
(* over to the parent that waited for it.  All of them, and every other     *)
(* part of the kernel, share one heap.                                      *)
(*                                                                         *)
(* A freed block keeps what was written to it until it is allocated again,  *)
(* and freeing what is not in use does nothing (stdlib.c, module Heap).     *)
(***************************************************************************)
EXTENDS Integers, FiniteSets

CONSTANTS
    Tasks,          \* bound: the tasks there can be at one time
    FirstTask,      \* the task that is there at the start
    Addresses,      \* bound: the blocks of the kernel's heap
    Paths,          \* the paths that exist
    Missing,        \* paths that programs ask for and that do not exist
    SubArguments    \* the values programs pass to exec as sub

VARIABLES
    alive,          \* the tasks there are
    sub_of,         \* the parent that waits for a task, or NoTask
    execPath,       \* a task's pointer to its path, or Null
    inUse, content, \* the heap: the blocks in use, and what a block holds
    intended        \* the path a task ought to be in

vars == <<alive, sub_of, execPath, inUse, content, intended>>
heap == <<inUse, content>>

NoTask == "none"
Null   == "null"
Other  == "other"   \* the contents of a block that holds no path

Blocked(t) == \E s \in alive : sub_of[s] = t

Runnable == {t \in alive : ~Blocked(t)}

Init ==
    /\ alive = {FirstTask}
    /\ sub_of = [t \in Tasks |-> NoTask]
    /\ execPath = [t \in Tasks |-> Null]
    /\ inUse = {}
    /\ content = [a \in Addresses |-> Other]
    /\ intended = [t \in Tasks |-> "/"]

(* vfs_exec, as far as the path goes.                                       *)
vfs_exec(t, new, sub) ==
    /\ t \in Runnable /\ new \in Tasks \ alive
    /\ alive' = alive \cup {new}
    /\ sub_of' = [sub_of EXCEPT ![new] = IF sub THEN t ELSE NoTask]
    /\ execPath' = [execPath EXCEPT ![new] = execPath[t]]
    /\ intended' = [intended EXCEPT ![new] = intended[t]]
    /\ UNCHANGED heap

(* System call 7, changeExecPath.                                           *)
changeExecPath(t, path) ==
    /\ t \in Runnable
    /\ LET rest == inUse \ {execPath[t]} IN
       \/ /\ path \in Paths
          /\ \E a \in Addresses \ rest :
                /\ inUse' = rest \cup {a}
                /\ content' = [content EXCEPT ![a] = path]
                /\ execPath' = [execPath EXCEPT ![t] = a]
          /\ intended' = [intended EXCEPT ![t] = path]
       \/ /\ path \in Missing
          /\ inUse' = rest
          /\ UNCHANGED <<content, execPath, intended>>
    /\ UNCHANGED <<alive, sub_of>>

(* terminate_current; the last task never ends here.                        *)
terminate_current(t) ==
    /\ t \in Runnable /\ alive # {t}
    /\ alive' = alive \ {t}
    /\ sub_of' = [sub_of EXCEPT ![t] = NoTask]
    /\ LET p == sub_of[t] IN
       \/ /\ p # NoTask
          /\ inUse' = inUse \ {execPath[p]}
          /\ execPath' = [execPath EXCEPT ![p] = execPath[t]]
          /\ intended' = [intended EXCEPT ![p] = intended[t]]
       \/ /\ p = NoTask
          /\ UNCHANGED <<inUse, execPath, intended>>
    /\ UNCHANGED content

(* Any other part of the kernel allocates a block: a handle, a clone of an  *)
(* argument, a token of strtok.                                             *)
malloc_other ==
    \E a \in Addresses \ inUse :
        /\ inUse' = inUse \cup {a}
        /\ content' = [content EXCEPT ![a] = Other]
        /\ UNCHANGED <<alive, sub_of, execPath, intended>>

Next ==
    \/ \E t, new \in Tasks, sub \in SubArguments : vfs_exec(t, new, sub)
    \/ \E t \in Tasks, path \in Paths \cup Missing : changeExecPath(t, path)
    \/ \E t \in Tasks : terminate_current(t)
    \/ malloc_other

Spec == Init /\ [][Next]_vars

-----------------------------------------------------------------------------
(* The path a task is in, as getExecPath and relative paths find it.        *)
PathOf(t) == IF execPath[t] = Null THEN "/" ELSE content[execPath[t]]

(* A parent and its subtasks "should behave as being a single environment"  *)
(* (scheduler.c): a task that runs is in the path that it, or the subtasks  *)
(* it waited for, last changed to.                                          *)
SingleEnvironment == \A t \in Runnable : PathOf(t) = intended[t]
=============================================================================
