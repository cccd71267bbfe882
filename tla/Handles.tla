------------------------------- MODULE Handles -------------------------------
(***************************************************************************)
(* Handles of files: who opened them, who holds them, which driver counts   *)
(* them.  A task keeps the handles of fopen and fmkfifo in a list of its    *)
(* own and can close only those; its standard streams are in no list, start *)
(* as its parent's very handles and are replaced by fopenpmhandle, which    *)
(* closes what it replaces.  A task that ends closes nothing.               *)
(*                                                                         *)
(* Each system call is one action of the task that makes it.  A             *)
(* `struct res_handle *' is an element of Handle; vfs_open takes any one    *)
(* that is not allocated, so addresses are reused as malloc reuses them,    *)
(* and a stale pointer may come to mean another file.  What a FIFO or the   *)
(* screen does with bytes is not modelled here; a RAM file is its size.     *)
(***************************************************************************)
EXTENDS Integers, Sequences, FiniteSets

CONSTANTS
    Handle,         \* the addresses vfs_open gets from malloc
    NULL,
    MaxPID,         \* bound on the tasks ever started
    MaxFiles,       \* bound on the kfiles ever created
    Paths, Screen, Program, Fifos,   \* /dev/vga, an ELF file, paths of FIFOs
    FileSize,       \* of the RAM file
    Modes,          \* the file modes programs pass to fopen
    Redirected      \* the streams programs redirect in fsexec and fdexec

ASSUME HandleAssumption == IsFiniteSet(Handle) /\ NULL \notin Handle
ASSUME BoundsAssumption == MaxPID \in Nat \ {0} /\ MaxFiles \in Nat /\ FileSize \in Nat
ASSUME PathsAssumption ==
    /\ {Screen, Program} \subseteq Paths /\ Screen # Program /\ MaxFiles >= 2
    /\ Fifos \subseteq Paths
ASSUME ModesAssumption == Modes \subseteq SUBSET {"FM_READ", "FM_WRITE", "FM_EXEC"}

Pid == 1 .. MaxPID

Kfile == 1 .. MaxFiles

Streams == {"stdin", "stdout", "stderr"}

ASSUME RedirectedAssumption == Redirected \subseteq Streams

VARIABLES
    live, nextPID, child_of,    \* tasks, as far as handles need them
    handle_list, std,           \* the handles in a task
    node, created, driver,      \* node[path], the kfiles and their drivers
    files                       \* the handles and the drivers' counters

tasks == <<live, nextPID, child_of>>
tree  == <<node, created, driver>>
vars  == <<tasks, handle_list, std, tree, files>>

FileMode == SUBSET {"FM_READ", "FM_WRITE", "FM_EXEC"}

res_handle == [res_ptr : Kfile, filemode : FileMode, position : Nat]

(* allocated: the structs in use; of: their contents, as they were when the *)
(* struct was freed, until the address is used again.                       *)
Files == [allocated : SUBSET Handle, of : [Handle -> res_handle],
          readers : [Kfile -> Int], writers : [Kfile -> Int]]

Init ==
    /\ live = {1} /\ nextPID = 2
    /\ child_of = [t \in Pid |-> NULL]
    /\ handle_list = [t \in Pid |-> <<>>]
    /\ std = [t \in Pid |-> [s \in Streams |-> NULL]]
    /\ created = 2
    /\ node = [p \in Paths |-> IF p = Screen THEN 1 ELSE IF p = Program THEN 2 ELSE NULL]
    /\ driver = [k \in Kfile |-> IF k = 1 THEN "VGA_CONTROL"
                                 ELSE IF k = 2 THEN "RAMFILE" ELSE "FIFO"]
    /\ files = [allocated |-> {},
                of |-> [h \in Handle |-> [res_ptr |-> 1, filemode |-> {}, position |-> 0]],
                readers |-> [k \in Kfile |-> 0], writers |-> [k \in Kfile |-> 0]]

-----------------------------------------------------------------------------
(***************************************************************************)
(* vfs_open and vfs_close with the drivers' open and close.                 *)
(***************************************************************************)
Opens(f, k, mode) ==
    CASE driver[k] = "VGA_CONTROL" -> /\ mode \cap {"FM_EXEC", "FM_READ"} = {}
                                      /\ "FM_WRITE" \in mode => f.writers[k] = 0
      [] driver[k] = "FIFO" -> "FM_EXEC" \notin mode
      [] OTHER -> TRUE

Counted(mode, m) == IF m \in mode THEN 1 ELSE 0

Opened(f, k, mode, h) ==
    [allocated |-> f.allocated \cup {h},
     of      |-> [f.of EXCEPT ![h] = [res_ptr |-> k, filemode |-> mode, position |-> 0]],
     readers |-> [f.readers EXCEPT ![k] = @ + Counted(mode, "FM_READ")],
     writers |-> [f.writers EXCEPT ![k] = @ + Counted(mode, "FM_WRITE")]]

(* Mutant: a handle to read from is not counted off.                        *)
Closed_Readers(f, h) ==
    [f EXCEPT !.allocated = @ \ {h},
              !.writers[f.of[h].res_ptr] = @ - Counted(f.of[h].filemode, "FM_WRITE")]

Closed(f, h) ==
    LET k == f.of[h].res_ptr  mode == f.of[h].filemode IN
    [allocated |-> f.allocated \ {h}, of |-> f.of,
     readers |-> [f.readers EXCEPT ![k] = @ - Counted(mode, "FM_READ")],
     writers |-> [f.writers EXCEPT ![k] = @ - Counted(mode, "FM_WRITE")]]

MovedTo(f, h, n) ==
    [f EXCEPT !.of = [f.of EXCEPT ![h] = [f.of[h] EXCEPT !.position = n]]]

(* What vfs_open(path, mode) may return, and the files then.                *)
vfs_open(f, path, mode) ==
    IF node[path] # NULL /\ Opens(f, node[path], mode)
    THEN {[handle |-> h, files |-> Opened(f, node[path], mode, h)] : h \in Handle \ f.allocated}
    ELSE {[handle |-> NULL, files |-> f]}

-----------------------------------------------------------------------------
(* The list of a task's handles.                                            *)
register_handle(t, h) == handle_list' = [handle_list EXCEPT ![t] = <<h>> \o @]

Registered(t) == {handle_list[t][n] : n \in DOMAIN handle_list[t]}

fopen(t, path, mode) ==
    \E r \in vfs_open(files, path, mode) :
        /\ files' = r.files
        /\ IF r.handle # NULL THEN register_handle(t, r.handle) ELSE UNCHANGED handle_list
        /\ UNCHANGED <<tasks, std, tree>>

(* terminate_current frees the struct task and nothing the task has open.   *)
Ended(t, streams) ==
    /\ live' = live \ {t} /\ UNCHANGED nextPID
    /\ child_of' = [child_of EXCEPT ![t] = NULL]
    /\ handle_list' = [handle_list EXCEPT ![t] = <<>>]
    /\ std' = [streams EXCEPT ![t] = [s \in Streams |-> NULL]]

exit(t) == Ended(t, std) /\ UNCHANGED <<files, tree>>

(* Mutant: the handle stays in the list.                                    *)
unregister_handle_Kept(t, h) == handle_list' = handle_list

(* The first node of the list that holds the handle is taken out.           *)
Without(hl, h) ==
    LET i == CHOOSE i \in DOMAIN hl : hl[i] = h /\ \A j \in 1 .. i - 1 : hl[j] # h
    IN [j \in 1 .. Len(hl) - 1 |-> IF j < i THEN hl[j] ELSE hl[j + 1]]

unregister_handle(t, h) ==
    handle_list' = [handle_list EXCEPT ![t] = Without(@, h)]

fclose_registered(t, h) ==
    /\ h \in Registered(t)
    /\ unregister_handle(t, h)
    /\ files' = Closed(files, h)
    /\ UNCHANGED <<tasks, std, tree>>

(* A handle that is not in the list: the search of unregister_handle goes   *)
(* past the end of the list, through a null pointer, and the page fault     *)
(* ends the caller; only an empty list and a null handle are refused.       *)
fclose_unknown(t, h) ==
    /\ h # NULL /\ h \notin Registered(t) /\ handle_list[t] # <<>>
    /\ Ended(t, std)
    /\ UNCHANGED <<tree, files>>

fclose(t, h) == fclose_registered(t, h) \/ fclose_unknown(t, h)

(* vfs_create_kfile: a node that exists gets the new kfile; handles of the  *)
(* old one keep it.                                                         *)
vfs_create_kfile(path) ==
    /\ created < MaxFiles
    /\ created' = created + 1
    /\ node' = [node EXCEPT ![path] = created + 1]
    /\ UNCHANGED driver

(* fmkfifo (ask) and fnomkfifo.                                             *)
fmkfifo(t, path, ask) ==
    /\ vfs_create_kfile(path)
    /\ IF ask
       THEN \E h \in Handle \ files.allocated :
              /\ files' = Opened(files, created + 1, {"FM_READ", "FM_WRITE"}, h)
              /\ register_handle(t, h)
       ELSE UNCHANGED <<files, handle_list>>
    /\ UNCHANGED <<tasks, std>>

-----------------------------------------------------------------------------
(***************************************************************************)
(* The standard streams.                                                    *)
(***************************************************************************)
StreamMode(s) == IF s = "stdin" THEN {"FM_READ"} ELSE {"FM_WRITE"}

Replaced(f, tsk, s) == IF std[tsk][s] = NULL THEN f ELSE Closed(f, std[tsk][s])

(* setstdin, setpstdin, ...: pid 0 is the caller itself.  The old handle is *)
(* closed, whoever else has it.  When the task of that pid is gone the      *)
(* handle just opened stays open.  (Setting the streams of a task that is   *)
(* no child is Scheduler's fopenpmhandle_other.)                            *)
fopenpmhandle(t, s, path, pid) ==
    LET tsk == IF pid = 0 THEN t ELSE pid IN
    \E r \in vfs_open(files, path, StreamMode(s)) :
        /\ IF r.handle = NULL \/ tsk \notin live
           THEN files' = r.files /\ UNCHANGED std
           ELSE /\ pid # 0 => child_of[pid] = t
                /\ std' = [std EXCEPT ![tsk][s] = r.handle]
                /\ files' = Replaced(r.files, tsk, s)
        /\ UNCHANGED <<tasks, handle_list, tree>>

(* vfs_exec: the handle of the program's file is never closed, also when    *)
(* the file turns out to be no ELF file (any program may have written to    *)
(* it); a stream that is redirected is opened for reading, whichever it is. *)
Redirect(f, path) ==
    IF path = NULL THEN {[handle |-> NULL, files |-> f]} ELSE vfs_open(f, path, {"FM_READ"})

Inherited(t, s, h) == IF h = NULL THEN std[t][s] ELSE h

StartTask(t, p, got) ==
    /\ live' = live \cup {p} /\ nextPID' = nextPID + 1
    /\ child_of' = [child_of EXCEPT ![p] = t]
    /\ std' = [std EXCEPT ![p] = [s \in Streams |-> Inherited(t, s, got[s])]]

(* The whole file is read through the new handle.                           *)
Loaded(r) == MovedTo(r.files, r.handle, FileSize)

vfs_exec(t, path, to) ==
    /\ nextPID \in Pid
    /\ \E r \in vfs_open(files, path, {"FM_EXEC", "FM_READ"}) :
         \/ /\ r.handle # NULL
            /\ files' = Loaded(r)
            /\ UNCHANGED <<tasks, std>>
         \/ /\ r.handle # NULL /\ FileSize > 0
            /\ \E i \in Redirect(Loaded(r), to["stdin"]) :
               \E o \in Redirect(i.files, to["stdout"]) :
               \E e \in Redirect(o.files, to["stderr"]) :
                  /\ files' = e.files
                  /\ StartTask(t, nextPID, [stdin |-> i.handle, stdout |-> o.handle,
                                            stderr |-> e.handle])
    /\ UNCHANGED <<handle_list, tree>>

Redirections ==
    {to \in [Streams -> Paths \cup {NULL}] : \A s \in Streams \ Redirected : to[s] = NULL}

-----------------------------------------------------------------------------
(* fread and fwrite of a RAM file; of its bytes only their number is  *)
(* modelled.                                                                *)
getpmhandle(t, pmid) == std[t][pmid]

resolveHandle(t, hdl) == IF hdl \in Streams THEN getpmhandle(t, hdl) ELSE hdl

(* Mutant: the end of the file is not looked at.                            *)
AtEnd_Never(h, length) == FALSE

AtEnd(h, length) == files.of[h].position + length > FileSize      \* RW_EOF

transfer(t, hdl, m, length) ==
    LET h == resolveHandle(t, hdl) IN
    /\ h # NULL /\ m \in files.of[h].filemode
    /\ driver[files.of[h].res_ptr] = "RAMFILE"
    /\ ~AtEnd(h, length)
    /\ files' = MovedTo(files, h, files.of[h].position + length)
    /\ UNCHANGED <<tasks, handle_list, std, tree>>

-----------------------------------------------------------------------------
Syscall(t) ==
    \/ \E path \in Paths, mode \in Modes : fopen(t, path, mode)
    \/ \E hdl \in Registered(t) \cup Streams : fclose(t, resolveHandle(t, hdl))
    \/ \E path \in Fifos, ask \in BOOLEAN : fmkfifo(t, path, ask)
    \/ \E s \in Streams, path \in Paths, pid \in {0} \cup Pid :
          pid < nextPID /\ fopenpmhandle(t, s, path, pid)
    \/ \E path \in Paths, to \in Redirections : vfs_exec(t, path, to)
    \/ \E hdl \in Registered(t) \cup Streams, m \in {"FM_READ", "FM_WRITE"} :
          \E length \in 1 .. FileSize : transfer(t, hdl, m, length)
    \/ exit(t)

Next == \E t \in live : Syscall(t)

Spec == Init /\ [][Next]_vars

(* Another stream is the same handle.                                       *)
Shared(t, s) ==
    /\ std[t][s] # NULL
    /\ \E u \in live, r \in Streams : <<u, r>> # <<t, s>> /\ std[u][r] = std[t][s]

(* Programs that replace a stream only while nobody else has it, as those   *)
(* of the repository do: init before it starts a shell, ttytovga when it    *)
(* has none.  Nothing in the kernel sees to it.                             *)
ReplacesOwn ==
    \A t \in live \cap live', s \in Streams : Shared(t, s) => std'[t][s] = std[t][s]

OrderlySpec == Init /\ [][Next /\ ReplacesOwn]_vars

-----------------------------------------------------------------------------
(* Every variable holds a value of its C type, and no RAM file's handle     *)
(* stands behind its end, where favailable would underflow.                 *)
TypeOK ==
    /\ live \subseteq Pid /\ nextPID \in Nat
    /\ child_of \in [Pid -> Pid \cup {NULL}]
    /\ handle_list \in [Pid -> Seq(Handle)]
    /\ std \in [Pid -> [Streams -> Handle \cup {NULL}]]
    /\ created \in Kfile /\ node \in [Paths -> 1 .. created \cup {NULL}]
    /\ files \in Files
    /\ \A h \in Handle : driver[files.of[h].res_ptr] = "RAMFILE" =>
                              files.of[h].position <= FileSize

(* A driver's counters are the numbers of open handles of the kfile by      *)
(* mode, through leaked handles, replaced streams, ended tasks and FIFOs    *)
(* created again; so the screen never has two writers.                      *)
With(f, k, m) == {h \in f.allocated : f.of[h].res_ptr = k /\ m \in f.of[h].filemode}

CountersExact ==
    \A k \in Kfile : /\ files.readers[k] = Cardinality(With(files, k, "FM_READ"))
                     /\ files.writers[k] = Cardinality(With(files, k, "FM_WRITE"))
                     /\ driver[k] = "VGA_CONTROL" => files.writers[k] <= 1

(* A handle in a task's list is open, is there once, and is nobody else's   *)
(* and no stream: fclose can free no struct twice, whoever calls it.        *)
ClosedOnce ==
    \A t \in live :
        /\ Registered(t) \subseteq files.allocated
        /\ \A m, n \in DOMAIN handle_list[t] : handle_list[t][m] = handle_list[t][n] => m = n
        /\ \A u \in live : /\ u # t => Registered(u) \cap Registered(t) = {}
                           /\ \A s \in Streams : std[u][s] \notin Registered(t)
=============================================================================
