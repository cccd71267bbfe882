-------------------------------- MODULE Boot --------------------------------
(***************************************************************************)
(* From the kernel's start to the shell: the kernel unpacks the archive and *)
(* starts init; init starts one service after the other and waits for the   *)
(* byte 'K' each writes into /var/cntrl/init before it starts the next      *)
(* (init.c, kbc_driver.c, ttytovga.c, urnd_prov.c).  Meanwhile the keyboard *)
(* controller and the keyboard go on by themselves.                         *)
(*                                                                         *)
(* at[p] is the place program p has come to, "off" before it is started.    *)
(* A byte of the keyboard is an answer to a command or a key; what a key's  *)
(* bytes mean is in Keyboard.  Boot messages are left out.                  *)
(***************************************************************************)
EXTENDS Integers, Sequences

CONSTANTS
    Archives,       \* the sets of files the archive may hold
    MaxStruck,      \* bound on the keys struck
    MaxResends,     \* bound on the times a command is asked for again
    MaxCalls        \* bound on the handler calls that wait: the driver gets its
                    \* turn, and with it the handler, before there are more

ASSUME BootAssumption == MaxStruck \in Nat /\ MaxResends \in Nat /\ MaxCalls \in Nat \ {0}

Programs == {"init", "kbc", "ttytovga", "urnd_prov", "stsh"}

VARIABLES
    archive, files,         \* the archive; the files there are
    at,                     \* where each program is
    streams,                \* init's standard streams, which stsh inherits
    responses,              \* the bytes waiting in /var/cntrl/init
    registered, init_done,  \* kbc: its interrupt, its flag
    sent, resends,          \* kbc: commands answered, refusals of the next
    asked,                  \* a command on its way to the keyboard
    queue,                  \* bytes the keyboard holds
    full, port60,           \* the controller's output buffer, its data register
    calls,                  \* handler calls waiting
    keyboard,               \* characters in /dev/keyboard
    struck, early           \* keys struck; one came between draining and ready

service    == <<files, at, streams, responses>>
controller == <<asked, queue, full, port60>>
handler    == <<registered, init_done, calls, keyboard>>
counts     == <<struck, early>>
bvars      == <<archive, service, sent, resends, controller, handler, counts>>

NoStreams == [stdin |-> "none", stdout |-> "none", stderr |-> "none"]

BInit ==
    /\ archive \in Archives /\ files = {}
    /\ at = [p \in Programs \cup {"kernel"} |-> IF p = "kernel" THEN "start" ELSE "off"]
    /\ streams = NoStreams
    /\ responses = 0
    /\ registered = FALSE /\ init_done = FALSE
    /\ sent = 0 /\ resends = 0
    /\ asked = FALSE /\ queue = <<>> /\ full = FALSE /\ port60 = "none"
    /\ calls = 0 /\ keyboard = 0
    /\ struck = 0 /\ early = FALSE

-----------------------------------------------------------------------------
(* Every entry with a size becomes a file; the directories are not modelled.*)
tar_load_ramfs(tarball) == tarball

kernel_main ==
    /\ at["kernel"] = "start"
    /\ files' = tar_load_ramfs(archive) \cup {"/dev/vga"}
    /\ at' = [at EXCEPT !["kernel"] = "idle",
                        !["init"] = IF "init" \in files' THEN "fifo" ELSE "off"]
    /\ UNCHANGED <<archive, streams, responses, sent, resends, controller, handler, counts>>

Moves(p, from, to) == at[p] = from /\ at' = [at EXCEPT ![p] = to]

(* dexec: without the file an error is printed and the caller goes on.      *)
dexec(p, from, q, to) ==
    /\ at[p] = from
    /\ at' = [at EXCEPT ![p] = to, ![q] = IF q \in files THEN "start" ELSE @]
    /\ UNCHANGED <<files, streams, responses>>

(* Mutant: init does not wait for the service.                              *)
waitResp_Not(from, to) ==
    /\ Moves("init", from, to)
    /\ responses' = IF responses > 0 THEN responses - 1 ELSE 0
    /\ UNCHANGED <<files, streams>>

waitResp(from, to) ==
    /\ Moves("init", from, to)
    /\ responses > 0 /\ responses' = responses - 1
    /\ UNCHANGED <<files, streams>>

setstd ==
    /\ Moves("init", "std", "exec_urnd_prov")
    /\ streams' = [s \in DOMAIN streams |->
                      LET path == IF s = "stdin" THEN "/dev/keyboard" ELSE "/dev/tty0"
                      IN IF path \in files THEN path ELSE streams[s]]
    /\ UNCHANGED <<files, responses>>

init_mkfifo ==
    /\ Moves("init", "fifo", "exec_kbc")
    /\ files' = files \cup {"/var/cntrl/init"}
    /\ UNCHANGED <<streams, responses>>

init ==
    /\ \/ init_mkfifo
       \/ dexec("init", "exec_kbc", "kbc", "wait_kbc")
       \/ waitResp("wait_kbc", "exec_ttytovga")
       \/ dexec("init", "exec_ttytovga", "ttytovga", "wait_ttytovga")
       \/ waitResp("wait_ttytovga", "std")
       \/ setstd
       \/ dexec("init", "exec_urnd_prov", "urnd_prov", "wait_urnd_prov")
       \/ waitResp("wait_urnd_prov", "exec_stsh")
       \/ dexec("init", "exec_stsh", "stsh", "idle")
    /\ UNCHANGED <<archive, sent, resends, controller, handler, counts>>

(* A service writes its byte into init's FIFO, when it could open it.       *)
Responds(p, to) ==
    /\ Moves(p, "respond", to)
    /\ responses' = IF "/var/cntrl/init" \in files THEN responses + 1 ELSE responses
    /\ UNCHANGED <<files, streams>>

Makes(p, from, path, to) ==
    /\ Moves(p, from, to)
    /\ files' = files \cup {path}
    /\ UNCHANGED <<streams, responses>>

ttytovga_mkfifo == Makes("ttytovga", "start", "/dev/tty0", "respond")

ttytovga_start ==
    /\ ttytovga_mkfifo \/ Responds("ttytovga", "idle")
    /\ UNCHANGED <<archive, sent, resends, controller, handler, counts>>

urnd_prov ==
    /\ \/ Makes("urnd_prov", "start", "/dev/urandom", "respond")
       \/ Responds("urnd_prov", "idle")
    /\ UNCHANGED <<archive, sent, resends, controller, handler, counts>>

-----------------------------------------------------------------------------
(***************************************************************************)
(* The keyboard driver's main program.                                      *)
(***************************************************************************)
Driver == <<archive, files, streams, responses, struck>>

kbc_register ==
    /\ Moves("kbc", "start", "drain")
    /\ registered' = TRUE
    /\ UNCHANGED <<Driver, sent, resends, controller, init_done, calls, keyboard, early>>

(* Mutant: the buffer is not emptied.                                       *)
kbc_drain_Not ==
    /\ Moves("kbc", "drain", "send")
    /\ early' = (queue # <<>>)
    /\ UNCHANGED <<Driver, sent, resends, controller, handler>>

(* The buffer is read until it is empty; the keyboard may still hold bytes. *)
kbc_drain ==
    /\ at["kbc"] = "drain"
    /\ \/ full /\ full' = FALSE /\ UNCHANGED <<at, early>>
       \/ /\ ~full
          /\ Moves("kbc", "drain", "send")
          /\ early' = (queue # <<>>)
          /\ UNCHANGED full
    /\ UNCHANGED <<Driver, sent, resends, asked, queue, port60, handler>>

Commands == <<"0xED", "0", "0xF3", "0", "0xF4">>

(* send_command: waits until the controller has taken the last byte, writes *)
(* the command, takes the next byte for the answer, whatever it is.         *)
send_command ==
    /\ Moves("kbc", "send", "answer")
    /\ ~asked /\ asked' = TRUE
    /\ UNCHANGED <<Driver, sent, resends, queue, full, port60, handler, early>>

(* Mutant: a command that is refused is not sent again.                     *)
kbc_answer_Once ==
    /\ at["kbc"] = "answer" /\ full
    /\ full' = FALSE
    /\ IF port60 = "resend"
       THEN UNCHANGED <<at, sent, resends>>
       ELSE /\ sent' = sent + 1 /\ resends' = 0
            /\ Moves("kbc", "answer", IF sent' = Len(Commands) THEN "mkfifo" ELSE "send")
    /\ UNCHANGED <<Driver, asked, queue, port60, handler, early>>

kbc_answer ==
    /\ at["kbc"] = "answer" /\ full
    /\ full' = FALSE
    /\ IF port60 = "resend"
       THEN Moves("kbc", "answer", "send") /\ UNCHANGED <<sent, resends>>
       ELSE /\ sent' = sent + 1 /\ resends' = 0
            /\ Moves("kbc", "answer", IF sent' = Len(Commands) THEN "mkfifo" ELSE "send")
    /\ UNCHANGED <<Driver, asked, queue, port60, handler, early>>

kbc_mkfifo ==
    /\ Makes("kbc", "mkfifo", "/dev/keyboard", "ready")
    /\ UNCHANGED <<archive, sent, resends, controller, handler, counts>>

kbc_ready ==
    /\ Moves("kbc", "ready", "respond")
    /\ init_done' = TRUE
    /\ UNCHANGED <<Driver, sent, resends, controller, registered, calls, keyboard, early>>

kbc_respond ==
    /\ Responds("kbc", "idle")
    /\ UNCHANGED <<archive, sent, resends, controller, handler, counts>>

kbc ==
    \/ kbc_register \/ kbc_drain \/ send_command \/ kbc_answer
    \/ kbc_mkfifo \/ kbc_ready \/ kbc_respond

(* One call of the interrupt handler, at any time the driver's task runs.   *)
(* A call whose byte somebody else has read reads the same byte again.      *)
irq_handler ==
    /\ calls > 0 /\ calls' = calls - 1
    /\ IF init_done
       THEN /\ full' = FALSE
            /\ keyboard' = IF port60 = "key" THEN keyboard + 1 ELSE keyboard
       ELSE UNCHANGED <<full, keyboard>>
    /\ UNCHANGED <<archive, service, sent, resends, asked, queue, port60,
                   registered, init_done, counts>>

-----------------------------------------------------------------------------
(***************************************************************************)
(* The keyboard and its controller.                                         *)
(***************************************************************************)
Hardware == <<archive, service, sent, registered, init_done, keyboard>>

Initialising == at["kbc"] \in {"send", "answer", "mkfifo", "ready"}

Strike ==
    /\ struck < MaxStruck
    /\ struck' = struck + 1
    /\ queue' = Append(queue, "key")
    /\ early' = (early \/ Initialising)
    /\ UNCHANGED <<Hardware, resends, asked, full, port60, calls>>

Answer ==
    /\ asked /\ asked' = FALSE
    /\ \/ queue' = Append(queue, "ack") /\ UNCHANGED resends
       \/ /\ resends < MaxResends /\ resends' = resends + 1
          /\ queue' = Append(queue, "resend")
    /\ UNCHANGED <<Hardware, full, port60, calls, counts>>

(* A byte becomes readable, and the interrupt reaches the driver's task.    *)
Deliver ==
    /\ ~full /\ queue # <<>> /\ calls < MaxCalls
    /\ full' = TRUE /\ port60' = Head(queue) /\ queue' = Tail(queue)
    /\ calls' = IF registered THEN calls + 1 ELSE calls
    /\ UNCHANGED <<Hardware, resends, asked, counts>>

BNext ==
    \/ kernel_main \/ init \/ ttytovga_start \/ urnd_prov
    \/ kbc \/ irq_handler
    \/ Strike \/ Answer \/ Deliver

BSpec == BInit /\ [][BNext]_bvars

-----------------------------------------------------------------------------
(* When the shell is started, everything it relies on is there: each        *)
(* service makes its file before it says so, init hears of it before it     *)
(* goes on, and its own streams, which the shell inherits, lead to the      *)
(* keyboard and the terminal; none of the three bytes is taken for another. *)
ShellHasServices ==
    at["stsh"] # "off" =>
        /\ init_done
        /\ {"/dev/keyboard", "/dev/tty0", "/dev/urandom"} \subseteq files
        /\ streams = [stdin |-> "/dev/keyboard", stdout |-> "/dev/tty0",
                      stderr |-> "/dev/tty0"]
        /\ responses = 0

(* The controller sends no interrupt while its buffer is full, so a byte    *)
(* that no call of the handler is going to read silences the keyboard for   *)
(* good.  Unless a key comes between the draining of the buffer and the end *)
(* of the initialisation, that does not happen.                             *)
KeyboardAlive ==
    init_done /\ full /\ ~early => calls > 0
=============================================================================
