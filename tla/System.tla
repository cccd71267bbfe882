------------------------------- MODULE System -------------------------------
(***************************************************************************)
(* The system from power on to the shell at work: Boot, then Console.  What *)
(* one makes the other uses: the FIFO of the terminal, the stream the shell *)
(* inherits, the characters that wait in /dev/keyboard.                     *)
(***************************************************************************)
EXTENDS Console, Boot

CONSTANT MaxKeys    \* bound on the keys struck at the prompt

VARIABLE typed      \* their number

svars == <<bvars, cvars, typed>>

SInit == BInit /\ CInit /\ typed = 0

(* Services open the FIFO as they start: the terminal the one it makes, init *)
(* for the shell that inherits its streams.                                 *)
Leaves(p, place) == at[p] = place /\ at'[p] # place

Opening ==
    \/ /\ Leaves("ttytovga", "start")
       /\ ramfs_fifo_open(tty, {"FM_READ", "FM_WRITE"})
    \/ /\ Leaves("init", "std") /\ "/dev/tty0" \in files
       /\ ramfs_fifo_open(sh, {"FM_WRITE"})
    \/ /\ ~Leaves("ttytovga", "start")
       /\ ~(Leaves("init", "std") /\ "/dev/tty0" \in files)
       /\ UNCHANGED vars

Booting(A) ==
    /\ A /\ pc = "off" /\ Opening
    /\ UNCHANGED <<text, screen, shellvars, typed>>

(* The shell comes to its prompt when the keyboard and the handler have     *)
(* come to rest; from then on a key is one step, Keyboard has the details.  *)
AtRest == calls = 0 /\ ~asked /\ (full \/ queue = <<>>)

ShellStarts ==
    /\ Moves("stsh", "start", "idle") /\ AtRest
    /\ Start
    /\ UNCHANGED <<archive, files, streams, responses, sent, resends, controller,
                   handler, counts, typed>>

(* The shell gets a character that waits, or else the one struck next; a    *)
(* bound: keys are struck either before the prompt or at it.                *)
Key ==
    /\ \E char \in Letters \cup {NL, BS} : getln(char)
    /\ \/ keyboard > 0 /\ keyboard' = keyboard - 1 /\ UNCHANGED typed
       \/ /\ keyboard = 0 /\ struck = 0 /\ typed < MaxKeys
          /\ typed' = typed + 1 /\ UNCHANGED keyboard
    /\ UNCHANGED <<archive, service, sent, resends, controller, registered, init_done,
                   calls, counts>>

Serving(A) == A /\ pc # "off" /\ UNCHANGED <<bvars, typed>>

SNext ==
    \/ Booting(BNext)
    \/ ShellStarts
    \/ Key
    \/ Serving(ConsoleServes)

(* Every task gets its turn, and the hardware answers; keys need not come.  *)
(* Nothing but Run itself disables Run, so its weak fairness is the formula *)
(* without ENABLED.                                                         *)
SFairness ==
    /\ WF_svars(Booting(kernel_main)) /\ WF_svars(Booting(init))
    /\ WF_svars(Booting(ttytovga_start)) /\ WF_svars(Booting(urnd_prov))
    /\ WF_svars(Booting(kbc)) /\ WF_svars(Booting(irq_handler))
    /\ WF_svars(Booting(Answer)) /\ WF_svars(Booting(Deliver))
    /\ WF_svars(ShellStarts)
    /\ WF_svars(Serving(Output))
    /\ (pc = "run" /\ out = <<>>) ~> pc # "run"
    /\ WF_svars(Serving(TerminalStep /\ UNCHANGED shellvars))

SSpec == SInit /\ [][SNext]_svars /\ SFairness

-----------------------------------------------------------------------------
(* With all programs in the archive the system comes to the prompt, and     *)
(* always comes back to it: neither a service that waits for another, nor   *)
(* keys at the wrong time, nor a full FIFO or a line that is run keeps the  *)
(* shell from the next key.                                                 *)
PromptAppears == Programs \subseteq archive /\ ~AtPrompt ~> AtPrompt
=============================================================================
