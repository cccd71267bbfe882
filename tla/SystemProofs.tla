---------------------------- MODULE SystemProofs ----------------------------
(***************************************************************************)
(* Proofs about the system: that it starts in order, that the screen shows  *)
(* what the shell has, and that a command gets the words that were typed.   *)
(***************************************************************************)
EXTENDS System, ConsoleProofs

-----------------------------------------------------------------------------
(***************************************************************************)
(* Part one.  The start: services and shell get what they need, and the     *)
(* keyboard stays alive.                                                    *)
(***************************************************************************)

Place == {"off", "start", "idle", "fifo", "exec_kbc", "wait_kbc", "exec_ttytovga",
          "wait_ttytovga", "std", "exec_urnd_prov", "wait_urnd_prov", "exec_stsh",
          "drain", "send", "answer", "mkfifo", "ready", "respond"}

Types ==
    /\ at \in [Programs \cup {"kernel"} -> Place]
    /\ responses \in Nat /\ calls \in Nat
    /\ DOMAIN streams = {"stdin", "stdout", "stderr"}

(* How far init has come says which services have started and answered, and *)
(* with that how many bytes wait.                                           *)
AllOff == \A p \in Programs \ {"init"} : at[p] = "off"

Answered(p) == responses = IF at[p] = "idle" THEN 1 ELSE 0

Stages ==
    /\ at["kernel"] = "start" => AllOff /\ at["init"] = "off" /\ responses = 0
    /\ at["init"] \in {"off", "fifo", "exec_kbc"} => AllOff /\ responses = 0
    /\ at["init"] = "wait_kbc" =>
           Answered("kbc") /\ at["ttytovga"] = "off" /\ at["urnd_prov"] = "off"
    /\ at["init"] \notin {"off", "fifo", "exec_kbc", "wait_kbc"} => at["kbc"] = "idle"
    /\ at["init"] = "exec_ttytovga" =>
           responses = 0 /\ at["ttytovga"] = "off" /\ at["urnd_prov"] = "off"
    /\ at["init"] = "wait_ttytovga" => Answered("ttytovga") /\ at["urnd_prov"] = "off"
    /\ at["init"] \in {"std", "exec_urnd_prov"} =>
           responses = 0 /\ at["ttytovga"] = "idle" /\ at["urnd_prov"] = "off"
    /\ at["init"] = "wait_urnd_prov" => Answered("urnd_prov") /\ at["ttytovga"] = "idle"
    /\ at["init"] \in {"exec_stsh", "idle"} =>
           responses = 0 /\ at["ttytovga"] = "idle" /\ at["urnd_prov"] = "idle"
    /\ at["init"] # "idle" => at["stsh"] = "off"
    /\ at["init"] \in {"off", "fifo", "exec_kbc", "wait_kbc", "exec_ttytovga",
                       "wait_ttytovga", "std", "exec_urnd_prov", "wait_urnd_prov",
                       "exec_stsh", "idle"}

(* What a place means for the files and flags.                              *)
Made ==
    /\ at["init"] \notin {"off", "fifo"} => "/var/cntrl/init" \in files
    /\ at["kbc"] \in {"ready", "respond", "idle"} => "/dev/keyboard" \in files
    /\ at["kbc"] \in {"respond", "idle"} => init_done
    /\ at["ttytovga"] \in {"respond", "idle"} => "/dev/tty0" \in files
    /\ at["urnd_prov"] \in {"respond", "idle"} => "/dev/urandom" \in files
    /\ at["init"] \in {"exec_urnd_prov", "wait_urnd_prov", "exec_stsh", "idle"} =>
           streams = [stdin |-> "/dev/keyboard", stdout |-> "/dev/tty0",
                      stderr |-> "/dev/tty0"]

BInv == Types /\ Stages /\ Made

(* What the keyboard and its controller hold, while no key comes early.     *)
Empty == ~asked /\ ~full /\ queue = <<>>

OneAnswer ==
    \/ asked /\ ~full /\ queue = <<>>
    \/ ~asked /\ ~full /\ Len(queue) = 1
    \/ ~asked /\ full /\ queue = <<>>

KInv ==
    /\ queue \in Seq({"key", "ack", "resend"}) /\ calls \in Nat
    /\ full \in BOOLEAN /\ asked \in BOOLEAN /\ early \in BOOLEAN
    /\ registered \in BOOLEAN /\ init_done \in BOOLEAN
    /\ at["kbc"] \in {"off", "start", "drain", "send", "answer", "mkfifo", "ready",
                      "respond", "idle"}
    /\ at["kbc"] \in {"off", "start", "drain"} => ~asked /\ ~early
    /\ registered <=> at["kbc"] \notin {"off", "start"}
    /\ init_done <=> at["kbc"] \in {"respond", "idle"}
    /\ ~early => /\ at["kbc"] \in {"send", "mkfifo", "ready"} => Empty
                 /\ at["kbc"] = "answer" => OneAnswer
                 /\ at["kbc"] \in {"respond", "idle"} => ~asked /\ (full => calls > 0)

-----------------------------------------------------------------------------
(* A program that moves on changes its own place only.                      *)
LEMMA Moved ==
    ASSUME Types, NEW p \in Programs, NEW to \in Place, at' = [at EXCEPT ![p] = to]
    PROVE  /\ at'[p] = to
           /\ \A q \in (Programs \cup {"kernel"}) \ {p} : at'[q] = at[q]
           /\ at' \in [Programs \cup {"kernel"} -> Place]
BY DEF Types

(* A program that is started moves from "off" to "start", or not at all.    *)
LEMMA Started ==
    ASSUME Types, NEW q \in Programs \ {"init"}, NEW from, NEW to \in Place,
           dexec("init", from, q, to)
    PROVE  /\ at["init"] = from /\ at'["init"] = to /\ at'[q] \in {"start", at[q]}
           /\ \A r \in (Programs \cup {"kernel"}) \ {"init", q} : at'[r] = at[r]
           /\ at' \in [Programs \cup {"kernel"} -> Place]
           /\ UNCHANGED <<files, responses, streams>>
BY DEF Types, dexec, Programs, Place

(* A step that leaves alone what the first invariant is about.               *)
LEMMA Still ==
    BInv /\ UNCHANGED <<files, at, responses, streams, init_done>> /\ calls' \in Nat => BInv'
BY DEF BInv, Types, Stages, Made, AllOff, Answered

(* Boot begins in the invariants, and no step leaves them.                  *)
LEMMA InitHolds == BInit => BInv
BY DEF BInit, BInv, Types, Stages, Made, AllOff, Programs, NoStreams, Place

(* The kernel's step.                                                       *)
LEMMA KernelStep == BInv /\ kernel_main => BInv'
<1> SUFFICES ASSUME BInv, kernel_main PROVE BInv'
  OBVIOUS
<1>1. /\ at["kernel"] = "start"
      /\ at'["kernel"] = "idle" /\ at'["init"] \in {"off", "fifo"}
      /\ \A q \in Programs \ {"init"} : at'[q] = at[q]
      /\ at' \in [Programs \cup {"kernel"} -> Place]
  BY DEF BInv, Types, kernel_main, Programs, Place
<1>2. responses' = responses /\ calls' = calls /\ streams' = streams
  BY DEF kernel_main, handler
<1>3. at["init"] = "off" /\ AllOff /\ responses = 0
  BY <1>1 DEF BInv, Stages
<1>4. Types'
  BY <1>1, <1>2 DEF BInv, Types
<1>5. AllOff'
  BY <1>1, <1>3 DEF AllOff
<1>6. Stages'
  BY <1>1, <1>2, <1>3, <1>5 DEF Stages, AllOff, Programs
<1>7. Made'
  BY <1>1, <1>5 DEF Made, AllOff, Programs
<1> QED
  BY <1>4, <1>6, <1>7 DEF BInv

(* init's steps.                                                            *)
LEMMA InitStep == BInv /\ init => BInv'
<1> SUFFICES ASSUME BInv, init PROVE BInv'
  OBVIOUS
<1> init_done' = init_done /\ calls' = calls
  BY DEF init, handler
<1>1. CASE init_mkfifo
  <2>1. at["init"] = "fifo" /\ at' = [at EXCEPT !["init"] = "exec_kbc"]
    BY <1>1 DEF init_mkfifo, Moves
  <2>2. /\ at'["init"] = "exec_kbc" /\ at' \in [Programs \cup {"kernel"} -> Place]
        /\ \A q \in (Programs \cup {"kernel"}) \ {"init"} : at'[q] = at[q]
    BY <2>1, Moved DEF BInv, Programs, Place
  <2>3. Types'
    BY <1>1, <2>2 DEF BInv, Types, init_mkfifo, Moves
  <2>4. Stages'
    BY <1>1, <2>1, <2>2 DEF BInv, Types, Stages, AllOff, Answered, Programs, init_mkfifo, Moves
  <2>5. Made'
    BY <1>1, <2>1, <2>2 DEF BInv, Types, Stages, Made, Programs, init_mkfifo, Moves
  <2> QED
    BY <2>3, <2>4, <2>5 DEF BInv
<1>2. CASE dexec("init", "exec_kbc", "kbc", "wait_kbc")
  <2>1. /\ at["init"] = "exec_kbc" /\ at'["init"] = "wait_kbc" /\ at'["kbc"] \in {"start", at["kbc"]}
        /\ \A r \in (Programs \cup {"kernel"}) \ {"init", "kbc"} : at'[r] = at[r]
        /\ at' \in [Programs \cup {"kernel"} -> Place]
        /\ files' = files /\ responses' = responses /\ streams' = streams
    BY <1>2, Started DEF BInv, Programs, Place
  <2>2. Types'
    BY <2>1 DEF BInv, Types
  <2>3. Stages'
    BY <2>1 DEF BInv, Stages, AllOff, Answered, Programs
  <2>4. Made'
    BY <2>1 DEF BInv, Stages, Made, Programs
  <2> QED
    BY <2>2, <2>3, <2>4 DEF BInv
<1>3. CASE waitResp("wait_kbc", "exec_ttytovga")
  <2>1. at["init"] = "wait_kbc" /\ at' = [at EXCEPT !["init"] = "exec_ttytovga"]
    BY <1>3 DEF waitResp, Moves
  <2>2. /\ at'["init"] = "exec_ttytovga" /\ at' \in [Programs \cup {"kernel"} -> Place]
        /\ \A q \in (Programs \cup {"kernel"}) \ {"init"} : at'[q] = at[q]
    BY <2>1, Moved DEF BInv, Programs, Place
  <2>3. Types'
    BY <1>3, <2>2 DEF BInv, Types, waitResp, Moves
  <2>4. Stages'
    BY <1>3, <2>1, <2>2 DEF BInv, Types, Stages, AllOff, Answered, Programs, waitResp, Moves
  <2>5. Made'
    BY <1>3, <2>1, <2>2 DEF BInv, Types, Stages, Made, Programs, waitResp, Moves
  <2> QED
    BY <2>3, <2>4, <2>5 DEF BInv
<1>4. CASE dexec("init", "exec_ttytovga", "ttytovga", "wait_ttytovga")
  <2>1. /\ at["init"] = "exec_ttytovga" /\ at'["init"] = "wait_ttytovga" /\ at'["ttytovga"] \in {"start", at["ttytovga"]}
        /\ \A r \in (Programs \cup {"kernel"}) \ {"init", "ttytovga"} : at'[r] = at[r]
        /\ at' \in [Programs \cup {"kernel"} -> Place]
        /\ files' = files /\ responses' = responses /\ streams' = streams
    BY <1>4, Started DEF BInv, Programs, Place
  <2>2. Types'
    BY <2>1 DEF BInv, Types
  <2>3. Stages'
    BY <2>1 DEF BInv, Stages, AllOff, Answered, Programs
  <2>4. Made'
    BY <2>1 DEF BInv, Stages, Made, Programs
  <2> QED
    BY <2>2, <2>3, <2>4 DEF BInv
<1>5. CASE waitResp("wait_ttytovga", "std")
  <2>1. at["init"] = "wait_ttytovga" /\ at' = [at EXCEPT !["init"] = "std"]
    BY <1>5 DEF waitResp, Moves
  <2>2. /\ at'["init"] = "std" /\ at' \in [Programs \cup {"kernel"} -> Place]
        /\ \A q \in (Programs \cup {"kernel"}) \ {"init"} : at'[q] = at[q]
    BY <2>1, Moved DEF BInv, Programs, Place
  <2>3. Types'
    BY <1>5, <2>2 DEF BInv, Types, waitResp, Moves
  <2>4. Stages'
    BY <1>5, <2>1, <2>2 DEF BInv, Types, Stages, AllOff, Answered, Programs, waitResp, Moves
  <2>5. Made'
    BY <1>5, <2>1, <2>2 DEF BInv, Types, Stages, Made, Programs, waitResp, Moves
  <2> QED
    BY <2>3, <2>4, <2>5 DEF BInv
<1>6. CASE setstd
  <2>1. at["init"] = "std" /\ at' = [at EXCEPT !["init"] = "exec_urnd_prov"]
    BY <1>6 DEF setstd, Moves
  <2>2. /\ at'["init"] = "exec_urnd_prov" /\ at' \in [Programs \cup {"kernel"} -> Place]
        /\ \A q \in (Programs \cup {"kernel"}) \ {"init"} : at'[q] = at[q]
    BY <2>1, Moved DEF BInv, Programs, Place
  <2>3. Types'
    BY <1>6, <2>2 DEF BInv, Types, setstd, Moves
  <2>4. Stages'
    BY <1>6, <2>1, <2>2 DEF BInv, Types, Stages, AllOff, Answered, Programs, setstd, Moves
  <2>5. Made'
    BY <1>6, <2>1, <2>2 DEF BInv, Types, Stages, Made, Programs, setstd, Moves
  <2> QED
    BY <2>3, <2>4, <2>5 DEF BInv
<1>7. CASE dexec("init", "exec_urnd_prov", "urnd_prov", "wait_urnd_prov")
  <2>1. /\ at["init"] = "exec_urnd_prov" /\ at'["init"] = "wait_urnd_prov" /\ at'["urnd_prov"] \in {"start", at["urnd_prov"]}
        /\ \A r \in (Programs \cup {"kernel"}) \ {"init", "urnd_prov"} : at'[r] = at[r]
        /\ at' \in [Programs \cup {"kernel"} -> Place]
        /\ files' = files /\ responses' = responses /\ streams' = streams
    BY <1>7, Started DEF BInv, Programs, Place
  <2>2. Types'
    BY <2>1 DEF BInv, Types
  <2>3. Stages'
    BY <2>1 DEF BInv, Stages, AllOff, Answered, Programs
  <2>4. Made'
    BY <2>1 DEF BInv, Stages, Made, Programs
  <2> QED
    BY <2>2, <2>3, <2>4 DEF BInv
<1>8. CASE waitResp("wait_urnd_prov", "exec_stsh")
  <2>1. at["init"] = "wait_urnd_prov" /\ at' = [at EXCEPT !["init"] = "exec_stsh"]
    BY <1>8 DEF waitResp, Moves
  <2>2. /\ at'["init"] = "exec_stsh" /\ at' \in [Programs \cup {"kernel"} -> Place]
        /\ \A q \in (Programs \cup {"kernel"}) \ {"init"} : at'[q] = at[q]
    BY <2>1, Moved DEF BInv, Programs, Place
  <2>3. Types'
    BY <1>8, <2>2 DEF BInv, Types, waitResp, Moves
  <2>4. Stages'
    BY <1>8, <2>1, <2>2 DEF BInv, Types, Stages, AllOff, Answered, Programs, waitResp, Moves
  <2>5. Made'
    BY <1>8, <2>1, <2>2 DEF BInv, Types, Stages, Made, Programs, waitResp, Moves
  <2> QED
    BY <2>3, <2>4, <2>5 DEF BInv
<1>9. CASE dexec("init", "exec_stsh", "stsh", "idle")
  <2>1. /\ at["init"] = "exec_stsh" /\ at'["init"] = "idle" /\ at'["stsh"] \in {"start", at["stsh"]}
        /\ \A r \in (Programs \cup {"kernel"}) \ {"init", "stsh"} : at'[r] = at[r]
        /\ at' \in [Programs \cup {"kernel"} -> Place]
        /\ files' = files /\ responses' = responses /\ streams' = streams
    BY <1>9, Started DEF BInv, Programs, Place
  <2>2. Types'
    BY <2>1 DEF BInv, Types
  <2>3. Stages'
    BY <2>1 DEF BInv, Stages, AllOff, Answered, Programs
  <2>4. Made'
    BY <2>1 DEF BInv, Stages, Made, Programs
  <2> QED
    BY <2>2, <2>3, <2>4 DEF BInv
<1> QED
  BY <1>1, <1>2, <1>3, <1>4, <1>5, <1>6, <1>7, <1>8, <1>9 DEF init

(* The terminal's steps as it starts.                                       *)
LEMMA TerminalServes == BInv /\ ttytovga_start => BInv'
<1> SUFFICES ASSUME BInv, ttytovga_start PROVE BInv'
  OBVIOUS
<1> init_done' = init_done /\ calls' = calls
  BY DEF ttytovga_start, handler
<1>1. CASE ttytovga_mkfifo
  <2>1. at["ttytovga"] = "start" /\ at' = [at EXCEPT !["ttytovga"] = "respond"]
    BY <1>1 DEF ttytovga_mkfifo, Makes, Moves
  <2>2. /\ at'["ttytovga"] = "respond" /\ at' \in [Programs \cup {"kernel"} -> Place]
        /\ \A q \in (Programs \cup {"kernel"}) \ {"ttytovga"} : at'[q] = at[q]
    BY <2>1, Moved DEF BInv, Programs, Place
  <2>3. Types'
    BY <1>1, <2>2 DEF BInv, Types, ttytovga_mkfifo, Makes, Moves
  <2>4. Stages'
    BY <1>1, <2>1, <2>2 DEF BInv, Types, Stages, AllOff, Answered, Programs, ttytovga_mkfifo, Makes, Moves
  <2>5. Made'
    BY <1>1, <2>1, <2>2 DEF BInv, Types, Stages, Made, Programs, ttytovga_mkfifo, Makes, Moves
  <2> QED
    BY <2>3, <2>4, <2>5 DEF BInv
<1>2. CASE Responds("ttytovga", "idle")
  <2>1. at["ttytovga"] = "respond" /\ at' = [at EXCEPT !["ttytovga"] = "idle"]
    BY <1>2 DEF Responds, Moves
  <2>2. /\ at'["ttytovga"] = "idle" /\ at' \in [Programs \cup {"kernel"} -> Place]
        /\ \A q \in (Programs \cup {"kernel"}) \ {"ttytovga"} : at'[q] = at[q]
    BY <2>1, Moved DEF BInv, Programs, Place
  <2>3. Types'
    BY <1>2, <2>2 DEF BInv, Types, Responds, Moves
  <2>4. Stages'
    BY <1>2, <2>1, <2>2 DEF BInv, Types, Stages, Made, AllOff, Answered, Programs, Responds, Moves
  <2>5. Made'
    BY <1>2, <2>1, <2>2 DEF BInv, Types, Stages, Made, Programs, Responds, Moves
  <2> QED
    BY <2>3, <2>4, <2>5 DEF BInv
<1> QED
  BY <1>1, <1>2 DEF ttytovga_start

(* The steps of the random number service.                                  *)
LEMMA RandomStep == BInv /\ urnd_prov => BInv'
<1> SUFFICES ASSUME BInv, urnd_prov PROVE BInv'
  OBVIOUS
<1> init_done' = init_done /\ calls' = calls
  BY DEF urnd_prov, handler
<1>1. CASE Makes("urnd_prov", "start", "/dev/urandom", "respond")
  <2>1. at["urnd_prov"] = "start" /\ at' = [at EXCEPT !["urnd_prov"] = "respond"]
    BY <1>1 DEF Makes, Moves
  <2>2. /\ at'["urnd_prov"] = "respond" /\ at' \in [Programs \cup {"kernel"} -> Place]
        /\ \A q \in (Programs \cup {"kernel"}) \ {"urnd_prov"} : at'[q] = at[q]
    BY <2>1, Moved DEF BInv, Programs, Place
  <2>3. Types'
    BY <1>1, <2>2 DEF BInv, Types, Makes, Moves
  <2>4. Stages'
    BY <1>1, <2>1, <2>2 DEF BInv, Types, Stages, AllOff, Answered, Programs, Makes, Moves
  <2>5. Made'
    BY <1>1, <2>1, <2>2 DEF BInv, Types, Stages, Made, Programs, Makes, Moves
  <2> QED
    BY <2>3, <2>4, <2>5 DEF BInv
<1>2. CASE Responds("urnd_prov", "idle")
  <2>1. at["urnd_prov"] = "respond" /\ at' = [at EXCEPT !["urnd_prov"] = "idle"]
    BY <1>2 DEF Responds, Moves
  <2>2. /\ at'["urnd_prov"] = "idle" /\ at' \in [Programs \cup {"kernel"} -> Place]
        /\ \A q \in (Programs \cup {"kernel"}) \ {"urnd_prov"} : at'[q] = at[q]
    BY <2>1, Moved DEF BInv, Programs, Place
  <2>3. Types'
    BY <1>2, <2>2 DEF BInv, Types, Responds, Moves
  <2>4. Stages'
    BY <1>2, <2>1, <2>2 DEF BInv, Types, Stages, Made, AllOff, Answered, Programs, Responds, Moves
  <2>5. Made'
    BY <1>2, <2>1, <2>2 DEF BInv, Types, Stages, Made, Programs, Responds, Moves
  <2> QED
    BY <2>3, <2>4, <2>5 DEF BInv
<1> QED
  BY <1>1, <1>2 DEF urnd_prov

(* Up to the end of the commands the driver's steps touch none of the files. *)
LEMMA Initialises ==
    ASSUME BInv, NEW to \in {"drain", "send", "answer", "mkfifo"},
           at["kbc"] \in {"start", "drain", "send", "answer"},
           at' = [at EXCEPT !["kbc"] = to],
           UNCHANGED <<files, streams, responses, init_done, calls>>
    PROVE  BInv'
<1>1. /\ at'["kbc"] = to /\ at' \in [Programs \cup {"kernel"} -> Place]
      /\ \A q \in (Programs \cup {"kernel"}) \ {"kbc"} : at'[q] = at[q]
  BY Moved DEF BInv, Programs, Place
<1>2. Types'
  BY <1>1 DEF BInv, Types
<1>3. Stages'
  BY <1>1 DEF BInv, Stages, AllOff, Answered, Programs
<1>4. Made'
  BY <1>1 DEF BInv, Stages, Made, Programs
<1> QED
  BY <1>2, <1>3, <1>4 DEF BInv

(* The keyboard driver's steps.                                             *)
LEMMA DriverStep == BInv /\ kbc => BInv'
<1> SUFFICES ASSUME BInv, kbc PROVE BInv'
  OBVIOUS
<1>1. CASE kbc_register
  BY <1>1, Initialises DEF kbc_register, Moves, Driver
<1>2. CASE kbc_drain
  BY <1>2, Initialises, Still DEF kbc_drain, Moves, Driver, handler, BInv, Types
<1>3. CASE send_command
  BY <1>3, Initialises DEF send_command, Moves, Driver, handler
<1>4. CASE kbc_answer
  BY <1>4, Initialises DEF kbc_answer, Moves, Driver, handler
<1>5. CASE kbc_mkfifo
  <2>1. at["kbc"] = "mkfifo" /\ at' = [at EXCEPT !["kbc"] = "ready"]
    BY <1>5 DEF kbc_mkfifo, Makes, Moves, handler
  <2>2. /\ at'["kbc"] = "ready" /\ at' \in [Programs \cup {"kernel"} -> Place]
        /\ \A q \in (Programs \cup {"kernel"}) \ {"kbc"} : at'[q] = at[q]
    BY <2>1, Moved DEF BInv, Programs, Place
  <2>3. Types'
    BY <1>5, <2>2 DEF BInv, Types, kbc_mkfifo, Makes, Moves, handler
  <2>4. Stages'
    BY <1>5, <2>1, <2>2 DEF BInv, Types, Stages, AllOff, Answered, Programs, kbc_mkfifo, Makes, Moves, handler
  <2>5. Made'
    BY <1>5, <2>1, <2>2 DEF BInv, Types, Stages, Made, Programs, kbc_mkfifo, Makes, Moves, handler
  <2> QED
    BY <2>3, <2>4, <2>5 DEF BInv
<1>6. CASE kbc_ready
  <2>1. at["kbc"] = "ready" /\ at' = [at EXCEPT !["kbc"] = "respond"]
    BY <1>6 DEF kbc_ready, Moves, Driver
  <2>2. /\ at'["kbc"] = "respond" /\ at' \in [Programs \cup {"kernel"} -> Place]
        /\ \A q \in (Programs \cup {"kernel"}) \ {"kbc"} : at'[q] = at[q]
    BY <2>1, Moved DEF BInv, Programs, Place
  <2>3. Types'
    BY <1>6, <2>2 DEF BInv, Types, kbc_ready, Moves, Driver
  <2>4. Stages'
    BY <1>6, <2>1, <2>2 DEF BInv, Types, Stages, AllOff, Answered, Programs, kbc_ready, Moves, Driver
  <2>5. Made'
    BY <1>6, <2>1, <2>2 DEF BInv, Types, Stages, Made, Programs, kbc_ready, Moves, Driver
  <2> QED
    BY <2>3, <2>4, <2>5 DEF BInv
<1>7. CASE kbc_respond
  <2>1. at["kbc"] = "respond" /\ at' = [at EXCEPT !["kbc"] = "idle"]
    BY <1>7 DEF kbc_respond, Responds, Moves, handler
  <2>2. /\ at'["kbc"] = "idle" /\ at' \in [Programs \cup {"kernel"} -> Place]
        /\ \A q \in (Programs \cup {"kernel"}) \ {"kbc"} : at'[q] = at[q]
    BY <2>1, Moved DEF BInv, Programs, Place
  <2>3. Types'
    BY <1>7, <2>2 DEF BInv, Types, kbc_respond, Responds, Moves, handler
  <2>4. Stages'
    BY <1>7, <2>1, <2>2 DEF BInv, Types, Stages, Made, AllOff, Answered, Programs, kbc_respond, Responds, Moves, handler
  <2>5. Made'
    BY <1>7, <2>1, <2>2 DEF BInv, Types, Stages, Made, Programs, kbc_respond, Responds, Moves, handler
  <2> QED
    BY <2>3, <2>4, <2>5 DEF BInv
<1> QED
  BY <1>1, <1>2, <1>3, <1>4, <1>5, <1>6, <1>7 DEF kbc

(* Handler calls, the controller and the keyboard leave the programs        *)
(* alone.                                                                   *)
LEMMA OtherStep ==
    BInv /\ (irq_handler \/ Strike \/ Answer \/ Deliver \/ UNCHANGED bvars) => BInv'
BY Still DEF BInv, Types, handler, service, Hardware, irq_handler, Strike, Answer, Deliver, bvars

(* Services are started one at a time and only after the one before has     *)
(* said it is ready; so the shell has all of them, whatever the keyboard    *)
(* does and whichever programs the archive lacks.                           *)
THEOREM ServicesReady == BSpec => []ShellHasServices
<1>1. BInit => BInv
  BY InitHolds
<1>2. BInv /\ [BNext]_bvars => BInv'
  BY KernelStep, InitStep, TerminalServes, RandomStep, DriverStep, OtherStep DEF BNext
<1>3. BInv => ShellHasServices
  BY DEF BInv, Types, Stages, Made, ShellHasServices, Programs
<1> QED
  BY <1>1, <1>2, <1>3, PTL DEF BSpec

-----------------------------------------------------------------------------
(* Steps that leave the driver's place, its interrupt and the controller as *)
(* they are.                                                                *)
LEMMA KAside ==
    ASSUME KInv, at'["kbc"] = at["kbc"], UNCHANGED <<controller, calls, early, registered, init_done>>
    PROVE  KInv'
BY DEF KInv, Empty, OneAnswer, controller

(* The second invariant at power on.                                        *)
LEMMA KInitHolds == BInit => KInv
<1> SUFFICES ASSUME BInit PROVE KInv
  OBVIOUS
<1>1. at["kbc"] = "off"
  BY DEF BInit, Programs
<1>2. queue \in Seq({"key", "ack", "resend"})
  BY DEF BInit
<1> QED
  BY <1>1, <1>2 DEF BInit, KInv

(* The only step of another program that reaches the driver is its start.   *)
LEMMA KProgramStep == BInv /\ KInv /\ (kernel_main \/ init \/ ttytovga_start \/ urnd_prov) => KInv'
<1> SUFFICES ASSUME BInv, KInv, kernel_main \/ init \/ ttytovga_start \/ urnd_prov PROVE KInv'
  OBVIOUS
<1>1. UNCHANGED <<controller, calls, early, registered, init_done>>
  BY DEF kernel_main, init, ttytovga_start, urnd_prov, handler, counts
<1>2. CASE dexec("init", "exec_kbc", "kbc", "wait_kbc")
  <2>1. at["kbc"] = "off"
    BY <1>2 DEF BInv, Stages, AllOff, dexec, Programs
  <2>2. at'["kbc"] \in {"off", "start"}
    BY <1>2, <2>1, Started DEF BInv, Programs, Place
  <2> QED
    BY <1>1, <2>1, <2>2 DEF KInv, Empty, OneAnswer, controller
<1>3. CASE ~dexec("init", "exec_kbc", "kbc", "wait_kbc")
  <2>1. at'["kbc"] = at["kbc"]
    BY <1>3 DEF BInv, Types, Programs, kernel_main, init, init_mkfifo, dexec, waitResp,
       setstd, ttytovga_start, ttytovga_mkfifo, urnd_prov, Makes, Responds, Moves
  <2> QED
    BY <1>1, <2>1, KAside
<1> QED
  BY <1>2, <1>3

(* The driver: draining leaves the controller empty, a command puts one     *)
(* answer on its way, and reading the answer empties the controller again.  *)
LEMMA KDriverStep == BInv /\ KInv /\ kbc => KInv'
<1> SUFFICES ASSUME BInv, KInv, kbc PROVE KInv'
  OBVIOUS
<1> USE DEF KInv, Empty, OneAnswer
<1>1. "kbc" \in DOMAIN at
  BY DEF BInv, Types, Programs
<1>2. CASE kbc_register
  <2>1. at["kbc"] = "start" /\ at'["kbc"] = "drain" /\ registered' = TRUE
    BY <1>1, <1>2 DEF kbc_register, Moves
  <2> QED
    BY <1>2, <2>1 DEF kbc_register, controller
<1>3. CASE kbc_drain
  <2>1. UNCHANGED <<asked, queue, registered, init_done, calls>>
    BY <1>3 DEF kbc_drain, handler
  <2>2. CASE full
    <3>1. at["kbc"] = "drain" /\ full' = FALSE /\ UNCHANGED <<at, early>>
      BY <1>3, <2>2 DEF kbc_drain
    <3> QED
      BY <2>1, <3>1
  <2>3. CASE ~full
    <3>1. at["kbc"] = "drain" /\ at'["kbc"] = "send" /\ full' = full
      BY <1>1, <1>3, <2>3 DEF kbc_drain, Moves
    <3>2. early' \in BOOLEAN /\ (~early' => queue = <<>>)
      BY <1>3, <2>3 DEF kbc_drain
    <3> QED
      BY <2>1, <2>3, <3>1, <3>2
  <2> QED
    BY <2>2, <2>3
<1>4. CASE send_command
  BY <1>1, <1>4 DEF send_command, Moves, handler
<1>5. CASE kbc_answer
  BY <1>1, <1>5 DEF kbc_answer, Moves, handler
<1>6. CASE kbc_mkfifo
  BY <1>1, <1>6 DEF kbc_mkfifo, Makes, Moves, handler, controller, counts
<1>7. CASE kbc_ready
  BY <1>1, <1>7 DEF kbc_ready, Moves, controller
<1>8. CASE kbc_respond
  BY <1>1, <1>8 DEF kbc_respond, Responds, Moves, handler, controller, counts
<1> QED
  BY <1>2, <1>3, <1>4, <1>5, <1>6, <1>7, <1>8 DEF kbc

(* The keyboard and the handler.  A key struck while the driver initialises *)
(* is early; any other byte finds the handler registered, and is called for.*)
LEMMA KHardwareStep ==
    BInv /\ KInv /\ (irq_handler \/ Strike \/ Answer \/ Deliver \/ UNCHANGED bvars) => KInv'
<1> SUFFICES ASSUME BInv, KInv, irq_handler \/ Strike \/ Answer \/ Deliver \/ UNCHANGED bvars
             PROVE KInv'
  OBVIOUS
<1> USE DEF KInv, Empty, OneAnswer
<1>1. CASE irq_handler
  <2>1. UNCHANGED <<at, registered, init_done, early, asked, queue>>
    BY <1>1 DEF irq_handler, service, counts
  <2>2. calls' \in Nat /\ (init_done => full' = FALSE) /\ (~init_done => full' = full)
    BY <1>1 DEF irq_handler
  <2>3. CASE init_done
    <3>1. at["kbc"] \in {"respond", "idle"} /\ full' = FALSE
      BY <2>2, <2>3
    <3> HIDE DEF OneAnswer, Empty
    <3> QED
      BY <2>1, <2>2, <3>1
  <2>4. CASE ~init_done
    <3>1. at["kbc"] \notin {"respond", "idle"} /\ full' = full
      BY <2>2, <2>4
    <3> QED
      BY <2>1, <2>2, <3>1
  <2> QED
    BY <2>3, <2>4
<1>2. CASE Strike
  <2>1. queue' \in Seq({"key", "ack", "resend"})
    <3>1. queue \in Seq({"key", "ack", "resend"}) /\ queue' = Append(queue, "key")
      BY <1>2 DEF Strike
    <3> HIDE DEF KInv
    <3> QED
      BY <3>1
  <2>2. UNCHANGED <<at, registered, init_done, asked, full, calls>>
    BY <1>2 DEF Strike, Hardware, service
  <2>3. early' \in BOOLEAN /\ (early' <=> early \/ Initialising)
    BY <1>2 DEF Strike
  <2> QED
    BY <2>1, <2>2, <2>3 DEF Initialising
<1>3. CASE Answer
  <2>1. /\ queue' \in Seq({"key", "ack", "resend"})
        /\ queue = <<>> => Len(queue') = 1
    <3>1. queue \in Seq({"key", "ack", "resend"})
          /\ \E b \in {"ack", "resend"} : queue' = Append(queue, b)
      BY <1>3 DEF Answer
    <3> HIDE DEF KInv
    <3> QED
      BY <3>1
  <2>2. UNCHANGED <<at, registered, init_done, early, full, calls>> /\ asked /\ asked' = FALSE
    BY <1>3 DEF Answer, Hardware, service, counts
  <2> QED
    BY <2>1, <2>2
<1>4. CASE Deliver
  <2>1. queue' \in Seq({"key", "ack", "resend"}) /\ (Len(queue) = 1 => queue' = <<>>)
    BY <1>4 DEF Deliver
  <2> QED
    BY <1>4, <2>1 DEF Deliver, Hardware, service, counts
<1>5. CASE UNCHANGED bvars
  BY <1>5, KAside DEF bvars, service, handler, counts
<1> QED
  BY <1>1, <1>2, <1>3, <1>4, <1>5

(* No byte is left behind that no call of the handler is going to read,     *)
(* however often commands are refused, for any bound on the waiting calls.  *)
THEOREM KeyboardStaysAlive == BSpec => []KeyboardAlive
<1>1. BInit => BInv /\ KInv
  BY InitHolds, KInitHolds
<1>2. BInv /\ [BNext]_bvars => BInv'
  BY KernelStep, InitStep, TerminalServes, RandomStep, DriverStep, OtherStep DEF BNext
<1>3. BInv /\ KInv /\ [BNext]_bvars => KInv'
  BY KProgramStep, KDriverStep, KHardwareStep DEF BNext
<1>4. KInv => KeyboardAlive
  BY DEF KInv, KeyboardAlive
<1> QED
  BY <1>1, <1>2, <1>3, <1>4, PTL DEF BSpec

(* In the whole system the shell leaves its start, and takes characters out *)
(* of /dev/keyboard; the rest is as in Boot.                                *)
SystemStep ==
    \/ BNext
    \/ Moves("stsh", "start", "idle")
       /\ UNCHANGED <<archive, files, streams, responses, sent, resends, controller, handler, counts>>
    \/ UNCHANGED <<archive, service, sent, resends, controller, registered, init_done, calls, counts>>

(* Which is so.                                                             *)
LEMMA StepsOfSystem == [SNext]_svars => SystemStep
<1> SUFFICES ASSUME [SNext]_svars PROVE SystemStep
  OBVIOUS
<1>1. CASE Booting(BNext)
  BY <1>1 DEF Booting, SystemStep
<1>2. CASE ShellStarts
  BY <1>2 DEF ShellStarts, SystemStep
<1>3. CASE Key
  <2>1. UNCHANGED <<archive, service, sent, resends, controller, registered, init_done, calls, counts>>
    BY <1>3 DEF Key
  <2> QED BY <2>1 DEF SystemStep
<1>4. CASE Serving(ConsoleServes) \/ UNCHANGED svars
  <2>1. UNCHANGED bvars
    BY <1>4 DEF Serving, svars
  <2>2. UNCHANGED <<archive, service, sent, resends, controller, registered, init_done, calls, counts>>
    BY <2>1 DEF bvars, handler
  <2> QED BY <2>2 DEF SystemStep
<1> QED BY <1>1, <1>2, <1>3, <1>4 DEF SNext

(* The invariants of the start hold on.                                     *)
LEMMA StartHolds == BInv /\ KInv /\ [SNext]_svars => BInv' /\ KInv'
<1> SUFFICES ASSUME BInv, KInv, SystemStep PROVE BInv' /\ KInv'
  BY StepsOfSystem
<1>1. CASE BNext
  <2>1. BInv'
    BY <1>1, KernelStep, InitStep, TerminalServes, RandomStep, DriverStep, OtherStep DEF BNext
  <2>2. KInv'
    BY <1>1, KProgramStep, KDriverStep, KHardwareStep DEF BNext
  <2> QED BY <2>1, <2>2
<1>2. CASE /\ Moves("stsh", "start", "idle")
           /\ UNCHANGED <<archive, files, streams, responses, sent, resends, controller, handler, counts>>
  <2>1. /\ at["stsh"] = "start" /\ at' = [at EXCEPT !["stsh"] = "idle"]
        /\ UNCHANGED <<files, streams, responses, controller, calls, early, registered, init_done>>
    BY <1>2 DEF Moves, handler, counts
  <2>2. "idle" \in Place /\ "stsh" \in Programs /\ "kbc" # "stsh"
    BY DEF Place, Programs
  <2>3. /\ at'["stsh"] = "idle"
        /\ \A q \in (Programs \cup {"kernel"}) \ {"stsh"} : at'[q] = at[q]
        /\ at' \in [Programs \cup {"kernel"} -> Place]
    BY <2>1, <2>2, Moved DEF BInv
  <2>4. at["init"] = "idle"
    BY <2>1 DEF BInv, Stages
  <2>5. /\ at'["kernel"] = at["kernel"] /\ at'["init"] = at["init"] /\ at'["kbc"] = at["kbc"]
        /\ at'["ttytovga"] = at["ttytovga"] /\ at'["urnd_prov"] = at["urnd_prov"]
    BY <2>3 DEF Programs
  <2>6. KInv'
    BY <2>1, <2>5, KAside
  <2>7. Types' /\ Made'
    BY <2>1, <2>3, <2>5 DEF BInv, Types, Made
  <2>8. at["kernel"] # "start"
    BY <2>4 DEF BInv, Stages
  <2>9. Stages'
    BY <2>1, <2>4, <2>5, <2>8 DEF BInv, Stages, Answered
  <2> QED BY <2>6, <2>7, <2>9 DEF BInv
<1>3. CASE UNCHANGED <<archive, service, sent, resends, controller, registered, init_done, calls, counts>>
  <2>1. KInv'
    BY <1>3, KAside DEF service, counts
  <2>2. calls' \in Nat
    BY <1>3 DEF BInv, Types
  <2>3. BInv'
    BY <1>3, <2>2, Still DEF service
  <2> QED BY <2>1, <2>3
<1> QED BY <1>1, <1>2, <1>3 DEF SystemStep

(* So they always hold.                                                     *)
LEMMA StartIsInvariant == SSpec => [](BInv /\ KInv)
<1>1. SInit => BInv /\ KInv
  BY InitHolds, KInitHolds DEF SInit
<1> QED BY <1>1, StartHolds, PTL DEF SSpec

(* The shell has its services also while it is at work (init.c): nothing    *)
(* takes them away.                                                         *)
THEOREM ServicesStay == SSpec => []ShellHasServices
<1>1. BInv => ShellHasServices
  BY DEF BInv, Types, Stages, Made, ShellHasServices, Programs
<1> QED BY <1>1, StartIsInvariant, PTL

(* The keyboard of a shell at work does not fall silent (kbc_driver.c),     *)
(* unless a key came too early.                                             *)
THEOREM KeyboardStays == SSpec => []KeyboardAlive
<1>1. KInv => KeyboardAlive
  BY DEF KInv, KeyboardAlive
<1> QED BY <1>1, StartIsInvariant, PTL

-----------------------------------------------------------------------------
(***************************************************************************)
(* Part two.  The screen as a value, and what one character makes of it:    *)
(* the screen is wrapped first, then the character is put.                  *)
(***************************************************************************)

(* The number of cells.                                                     *)
Whole == Columns * Rows

(* A screen: its cells, its cursor, and what the next byte is read as.      *)
Screens == [vga : [Cells -> Glyphs], x : 0 .. Columns, y : 0 .. Rows - 1,
            reads : {"char", "color"}]

(* The cell the cursor is at; behind a full row it is at the next row's     *)
(* first.                                                                   *)
At(s) == s.x + s.y * Columns

(* Nothing is shown from the cursor on.                                     *)
BlankBehind(s) == \A c \in Cells : At(s) <= c => s.vga[c] = SP

(* A screen with nothing behind the cursor.                                 *)
Clean(s, r) == s \in Screens /\ s.reads = r /\ BlankBehind(s)

(* The cells a row can start at, on a screen without end below.             *)
RowStarts == {r * Columns : r \in Nat}

(* A clean screen on which str has been written from the start of a row.    *)
Ready(s, str) ==
    /\ Clean(s, "char")
    /\ \E b \in RowStarts :
           /\ At(s) = b + Len(str)
           /\ \A i \in 1 .. Len(str) : s.vga[b + i - 1] = str[i]

(* A newline, and a character behind the end of a row, start a new row.     *)
Wrapped(c, s) ==
    LET wraps == c = NL \/ s.x > Columns - 1
        down  == IF wraps THEN s.y + 1 ELSE s.y
    IN [vga   |-> IF down > Rows - 1 THEN CMD_SCROLL(s.vga) ELSE s.vga,
        x     |-> IF wraps THEN 0 ELSE s.x,
        y     |-> Below(down),
        reads |-> s.reads]

(* A character put on a screen that has been wrapped.                       *)
Put(c, s) ==
    IF c = NL THEN s
    ELSE IF c = SETCLR THEN [vga |-> s.vga, x |-> s.x, y |-> s.y, reads |-> "color"]
    ELSE IF c = BS
    THEN LET b == Back(s.x, s.y)
         IN [vga |-> CMD_SET(s.vga, b.x + b.y * Columns, SP), x |-> b.x, y |-> b.y,
             reads |-> s.reads]
    ELSE [vga |-> CMD_SET(s.vga, s.x + s.y * Columns, c), x |-> s.x + 1, y |-> s.y,
          reads |-> s.reads]

(* What the driver makes of a byte.                                         *)
Draw(c, s) ==
    IF s.reads = "color" THEN [vga |-> s.vga, x |-> s.x, y |-> s.y, reads |-> "char"]
    ELSE Put(c, Wrapped(c, s))

-----------------------------------------------------------------------------
(* The screen has cells, and fewer than an offset of 16 bits can name.      *)
LEMMA WholeIs == /\ Columns \in Nat \ {0} /\ Rows \in Nat \ {0}
                 /\ Whole \in Nat \ {0} /\ Whole < 65536
                 /\ Cells = 0 .. Whole - 1
<1>1. Columns \in Nat \ {0} /\ Rows \in Nat \ {0}
  BY ScreenAssumption
<1>2. (Rows - 1) * Columns \in Nat
  <2>1. \A m, n \in Nat : m * n \in Nat
    OBVIOUS
  <2>2. Rows - 1 \in Nat /\ Columns \in Nat
    BY <1>1
  <2> QED BY <2>1, <2>2
<1>3. Whole = (Rows - 1) * Columns + Columns
  BY <1>1 DEF Whole
<1>4. Whole \in Nat \ {0}
  BY <1>1, <1>2, <1>3
<1> QED BY <1>1, <1>4, ScreenAssumption DEF Whole, Cells

(* Rows follow one another every Columns cells.                             *)
LEMMA RowsFollow ==
    ASSUME NEW r \in Nat
    PROVE  /\ r * Columns \in Nat /\ r * Columns \in RowStarts
           /\ (r + 1) * Columns = r * Columns + Columns
           /\ r > 0 => (r - 1) * Columns = r * Columns - Columns /\ r * Columns >= Columns
           /\ r <= Rows - 1 => r * Columns + Columns <= Whole
           /\ r = Rows - 1 => r * Columns + Columns = Whole
<1>1. Columns \in Nat \ {0} /\ Rows \in Nat \ {0}
  BY ScreenAssumption
<1>2. r * Columns \in Nat /\ r * Columns \in RowStarts
  BY <1>1 DEF RowStarts
<1>3. (r + 1) * Columns = r * Columns + Columns
  BY <1>1
<1>4. r > 0 => (r - 1) * Columns = r * Columns - Columns /\ r * Columns >= Columns
  <2> SUFFICES ASSUME r > 0 PROVE (r - 1) * Columns = r * Columns - Columns /\ r * Columns >= Columns
    OBVIOUS
  <2>1. (r - 1) * Columns = r * Columns - Columns
    BY <1>1
  <2>2. (r - 1) * Columns >= 0
    <3>1. \A m, n \in Nat : m * n >= 0
      OBVIOUS
    <3> QED BY <1>1, <3>1
  <2> QED BY <1>1, <1>2, <2>1, <2>2
<1>5. r = Rows - 1 => r * Columns + Columns = Whole
  BY <1>1 DEF Whole
<1>6. r <= Rows - 1 => r * Columns + Columns <= Whole
  <2> SUFFICES ASSUME r <= Rows - 1 PROVE r * Columns + Columns <= Whole
    OBVIOUS
  <2> DEFINE d == Rows - 1 - r
  <2>1. d \in Nat /\ Rows = d + r + 1
    BY <1>1
  <2>2. d * Columns >= 0 /\ d * Columns \in Nat
    <3>1. \A m, n \in Nat : m * n >= 0 /\ m * n \in Nat
      OBVIOUS
    <3> QED BY <1>1, <2>1, <3>1
  <2> HIDE DEF d
  <2>3. Whole = d * Columns + r * Columns + Columns
    BY <1>1, <2>1 DEF Whole
  <2> QED BY <1>1, <1>2, <2>2, <2>3
<1> QED BY <1>2, <1>3, <1>4, <1>5, <1>6

(* The start of the row above.                                              *)
LEMMA RowBefore ==
    ASSUME NEW b \in RowStarts, b # 0
    PROVE  b \in Nat /\ b - Columns \in RowStarts /\ b - Columns \in Nat
<1>1. PICK r \in Nat : b = r * Columns
  BY DEF RowStarts
<1>2. Columns \in Nat
  BY ScreenAssumption
<1>3. r # 0
  BY <1>1, <1>2
<1>4. r - 1 \in Nat /\ (r - 1) * Columns = b - Columns /\ b \in Nat
  BY <1>1, <1>3, RowsFollow
<1> QED BY <1>4, RowsFollow

(* The fields of a screen, and where its cursor is.                         *)
LEMMA ScreenParts ==
    ASSUME NEW s \in Screens
    PROVE  /\ s = [vga |-> s.vga, x |-> s.x, y |-> s.y, reads |-> s.reads]
           /\ s.vga \in [Cells -> Glyphs] /\ s.x \in Nat /\ s.y \in Nat
           /\ s.x <= Columns /\ s.y <= Rows - 1 /\ s.reads \in {"char", "color"}
           /\ s.y * Columns \in Nat /\ s.y * Columns \in RowStarts
           /\ At(s) \in Nat /\ At(s) <= Whole
           /\ s.x < Columns => At(s) \in Cells
           /\ At(s) = s.x + s.y * Columns
<1>1. Columns \in Nat \ {0} /\ Rows \in Nat \ {0}
  BY ScreenAssumption
<1>2. /\ s = [vga |-> s.vga, x |-> s.x, y |-> s.y, reads |-> s.reads]
      /\ s.vga \in [Cells -> Glyphs] /\ s.x \in Nat /\ s.y \in Nat
      /\ s.x <= Columns /\ s.y <= Rows - 1 /\ s.reads \in {"char", "color"}
  BY <1>1 DEF Screens
<1> DEFINE b == s.y * Columns
<1>3. b \in Nat /\ b \in RowStarts /\ b + Columns <= Whole /\ Whole \in Nat /\ Cells = 0 .. Whole - 1
  BY <1>2, RowsFollow, WholeIs
<1>4. At(s) = s.x + b
  BY DEF At
<1> HIDE DEF b
<1>5. At(s) \in Nat /\ At(s) <= Whole /\ (s.x < Columns => At(s) \in Cells)
  BY <1>1, <1>2, <1>3, <1>4
<1> QED BY <1>2, <1>3, <1>4, <1>5 DEF b

(* A cursor that is in a row is at a cell.                                  *)
LEMMA InRow ==
    ASSUME NEW s \in Screens, s.x < Columns
    PROVE  /\ At(s) \in Cells /\ At(s) = s.x + s.y * Columns
           /\ s.vga \in [Cells -> Glyphs] /\ s.x \in Nat /\ s.y \in 0 .. Rows - 1
<1>1. s.y \in Nat /\ s.y <= Rows - 1
  BY ScreenParts
<1>2. s.y \in 0 .. Rows - 1
  BY <1>1, WholeIs
<1> QED BY <1>2, ScreenParts

(* The controller sets one cell.                                            *)
LEMMA CellSet ==
    ASSUME NEW v \in [Cells -> Glyphs], NEW n \in Cells, NEW c \in Glyphs
    PROVE  /\ CMD_SET(v, n, c) \in [Cells -> Glyphs]
           /\ CMD_SET(v, n, c)[n] = c
           /\ \A m \in Cells \ {n} : CMD_SET(v, n, c)[m] = v[m]
<1>1. n % 65536 = n
  <2>1. n \in Nat /\ n < 65536
    BY WholeIs
  <2> QED BY <2>1
<1> QED BY <1>1 DEF CMD_SET

(* Before a character the cursor comes to a cell of the screen: it stays,   *)
(* wraps without changing cell, or the screen scrolls with it.              *)
LEMMA WrapStep ==
    ASSUME NEW s \in Screens, BlankBehind(s), NEW c
    PROVE  LET w == Wrapped(c, s) IN
           /\ w \in Screens /\ BlankBehind(w) /\ w.x < Columns /\ w.reads = s.reads
           /\ c = NL => w.x = 0
           /\ c # NL => \/ At(w) = At(s) /\ w.vga = s.vga
                        \/ /\ At(s) = Whole /\ At(w) = Whole - Columns
                           /\ w.vga = CMD_SCROLL(s.vga)
<1> DEFINE w == Wrapped(c, s)
           b == s.y * Columns
<1>1. Columns \in Nat \ {0} /\ Rows \in Nat \ {0}
  BY ScreenAssumption
<1>2. /\ s.vga \in [Cells -> Glyphs] /\ s.x \in Nat /\ s.y \in Nat
      /\ s.x <= Columns /\ s.y <= Rows - 1 /\ s.reads \in {"char", "color"}
      /\ At(s) = s.x + b /\ b \in Nat
  BY ScreenParts
<1>3. /\ (s.y + 1) * Columns = b + Columns
      /\ s.y = Rows - 1 => b + Columns = Whole
      /\ Cells = 0 .. Whole - 1 /\ Whole \in Nat
  <2>1. (s.y + 1) * Columns = b + Columns
    BY <1>2, RowsFollow
  <2>2. s.y = Rows - 1 => b + Columns = Whole
    BY <1>2, RowsFollow
  <2> QED BY <2>1, <2>2, WholeIs
<1> HIDE DEF b
<1>4. CASE ~(c = NL \/ s.x > Columns - 1)
  <2>1. w = [vga |-> s.vga, x |-> s.x, y |-> s.y, reads |-> s.reads]
    BY <1>1, <1>2, <1>4 DEF Wrapped, Below
  <2>2. w = s
    BY <2>1, ScreenParts
  <2> HIDE DEF w
  <2> QED BY <1>1, <1>2, <1>4, <2>2 DEF w
<1>5. CASE (c = NL \/ s.x > Columns - 1) /\ s.y < Rows - 1
  <2>1. w = [vga |-> s.vga, x |-> 0, y |-> s.y + 1, reads |-> s.reads]
    BY <1>1, <1>2, <1>5 DEF Wrapped, Below
  <2>2. w \in Screens /\ w.x = 0 /\ w.reads = s.reads /\ w.vga = s.vga
    BY <1>1, <1>2, <1>5, <2>1 DEF Screens
  <2>3. At(w) = b + Columns
    BY <1>1, <1>2, <1>3, <2>1 DEF At
  <2> HIDE DEF w
  <2>4. BlankBehind(w)
    BY <1>1, <1>2, <1>3, <2>2, <2>3 DEF BlankBehind
  <2>5. c # NL => At(w) = At(s)
    BY <1>1, <1>2, <1>5, <2>3
  <2> QED BY <1>1, <2>2, <2>4, <2>5 DEF w
<1>6. CASE (c = NL \/ s.x > Columns - 1) /\ s.y = Rows - 1
  <2>1. w = [vga |-> CMD_SCROLL(s.vga), x |-> 0, y |-> Rows - 1, reads |-> s.reads]
    BY <1>1, <1>2, <1>6 DEF Wrapped, Below
  <2>2. /\ CMD_SCROLL(s.vga) \in [Cells -> Glyphs]
        /\ \A n \in Cells : n + Columns \notin Cells => CMD_SCROLL(s.vga)[n] = SP
    BY <1>2, ConsoleAssumption DEF CMD_SCROLL
  <2>3. w \in Screens /\ w.x = 0 /\ w.reads = s.reads /\ w.vga = CMD_SCROLL(s.vga)
    BY <1>1, <1>2, <2>1, <2>2 DEF Screens
  <2>4. At(w) = b /\ b = Whole - Columns
    <3>1. w.x = 0 /\ w.y = s.y
      BY <1>6, <2>1
    <3>2. At(w) = b
      <4>1. At(w) = 0 + s.y * Columns
        BY <3>1 DEF At
      <4> QED BY <1>2, <4>1 DEF b
    <3>3. b = Whole - Columns
      BY <1>1, <1>2, <1>3, <1>6
    <3> QED BY <3>2, <3>3
  <2> HIDE DEF w
  <2>5. BlankBehind(w)
    <3>1. ASSUME NEW n \in Cells, At(w) <= n PROVE n + Columns \notin Cells
      BY <1>1, <1>2, <1>3, <2>4, <3>1
    <3>2. ASSUME NEW n \in Cells, At(w) <= n PROVE w.vga[n] = SP
      BY <2>2, <2>3, <3>1, <3>2
    <3> QED BY <3>2 DEF BlankBehind
  <2>6. c # NL => At(s) = Whole
    <3>1. c # NL => s.x = Columns
      BY <1>1, <1>2, <1>6
    <3>2. b + Columns = Whole
      BY <1>3, <1>6
    <3> QED BY <1>1, <1>2, <3>1, <3>2
  <2>7. w.x < Columns /\ At(w) = Whole - Columns
    BY <1>1, <2>3, <2>4
  <2> QED BY <2>3, <2>5, <2>6, <2>7 DEF w
<1>7. s.y < Rows - 1 \/ s.y = Rows - 1
  BY <1>1, <1>2
<1> QED BY <1>4, <1>5, <1>6, <1>7

(* Wrapping and scrolling keep a text shorter than the screen.              *)
LEMMA WrapShows ==
    ASSUME NEW s, NEW str \in Seq(Glyphs), Ready(s, str), Len(str) < Whole, NEW c, c # NL
    PROVE  Ready(Wrapped(c, s), str) /\ Wrapped(c, s).x < Columns
<1> DEFINE w == Wrapped(c, s)
<1>1. s \in Screens /\ s.reads = "char" /\ BlankBehind(s)
  BY DEF Ready, Clean
<1>2. /\ w \in Screens /\ BlankBehind(w) /\ w.x < Columns /\ w.reads = s.reads
      /\ \/ At(w) = At(s) /\ w.vga = s.vga
         \/ /\ At(s) = Whole /\ At(w) = Whole - Columns
            /\ w.vga = CMD_SCROLL(s.vga)
  BY <1>1, WrapStep
<1> HIDE DEF w
<1>3. PICK b \in RowStarts : /\ At(s) = b + Len(str)
                             /\ \A i \in 1 .. Len(str) : s.vga[b + i - 1] = str[i]
  BY DEF Ready
<1>4. CASE At(w) = At(s) /\ w.vga = s.vga
  BY <1>1, <1>2, <1>3, <1>4 DEF Ready, Clean, w
<1>5. CASE At(s) = Whole /\ At(w) = Whole - Columns /\ w.vga = CMD_SCROLL(s.vga)
  <2>1. Len(str) \in Nat /\ Whole \in Nat /\ Cells = 0 .. Whole - 1 /\ Columns \in Nat \ {0}
    BY WholeIs
  <2>2. b \in Nat
    BY <2>1 DEF RowStarts
  <2>3. b # 0
    BY <1>3, <1>5, <2>1, <2>2
  <2> DEFINE a == b - Columns
  <2>4. a \in RowStarts /\ a \in Nat
    BY <2>3, RowBefore
  <2>5. At(w) = a + Len(str)
    BY <1>3, <1>5, <2>1, <2>2
  <2>6. ASSUME NEW i \in 1 .. Len(str) PROVE w.vga[a + i - 1] = str[i]
    <3>1. a + i - 1 \in Cells /\ (a + i - 1) + Columns \in Cells /\ (a + i - 1) + Columns = b + i - 1
      <4> HIDE DEF a
      <4> QED BY <1>3, <1>5, <2>1, <2>2, <2>4 DEF a
    <3> DEFINE n == a + i - 1
    <3>2. w.vga[n] = s.vga[n + Columns]
      BY <1>5, <3>1 DEF CMD_SCROLL
    <3> QED BY <1>3, <3>1, <3>2
  <2> HIDE DEF a
  <2> QED BY <1>1, <1>2, <2>4, <2>5, <2>6 DEF Ready, Clean, w
<1> QED BY <1>2, <1>4, <1>5 DEF w

(* A drawn character is one more character of the text.                     *)
LEMMA GlyphStep ==
    ASSUME NEW s, NEW str \in Seq(Glyphs), Ready(s, str), Len(str) < Whole, NEW c \in Glyphs
    PROVE  Ready(Draw(c, s), Append(str, c))
<1> DEFINE w == Wrapped(c, s)
           d == Draw(c, s)
           str2 == Append(str, c)
<1>1. c # NL /\ c # SETCLR /\ c # BS
  BY ConsoleAssumption
<1>2. Ready(w, str) /\ w.x < Columns
  BY <1>1, WrapShows
<1>3. d = [vga |-> CMD_SET(w.vga, w.x + w.y * Columns, c), x |-> w.x + 1, y |-> w.y,
           reads |-> w.reads]
  BY <1>1 DEF Draw, Put, Ready, Clean
<1> HIDE DEF w, d
<1>4. /\ w \in Screens /\ w.reads = "char" /\ BlankBehind(w)
      /\ At(w) \in Cells /\ At(w) = w.x + w.y * Columns
      /\ w.vga \in [Cells -> Glyphs] /\ w.x \in Nat /\ w.y \in 0 .. Rows - 1
  <2>1. w \in Screens /\ w.reads = "char" /\ BlankBehind(w)
    BY <1>2 DEF Ready, Clean
  <2> QED BY <1>2, <2>1, InRow
<1>5. PICK b \in RowStarts : /\ At(w) = b + Len(str)
                             /\ \A i \in 1 .. Len(str) : w.vga[b + i - 1] = str[i]
  BY <1>2 DEF Ready
<1>6. /\ d.vga \in [Cells -> Glyphs] /\ d.vga[At(w)] = c
      /\ \A m \in Cells \ {At(w)} : d.vga[m] = w.vga[m]
  BY <1>3, <1>4, CellSet
<1>7. d \in Screens /\ d.reads = "char"
  BY <1>2, <1>3, <1>4, <1>6, WholeIs DEF Screens
<1>8. At(d) = At(w) + 1
  <2> DEFINE n == w.y * Columns
  <2>1. n \in Nat
    BY <1>4, ScreenParts
  <2>2. At(d) = (w.x + 1) + n /\ At(w) = w.x + n
    BY <1>3, <1>4 DEF At
  <2> HIDE DEF n
  <2> QED BY <1>4, <2>1, <2>2
<1>9. BlankBehind(d)
  <2>1. \A m \in Cells : At(w) <= m => w.vga[m] = SP
    BY <1>4 DEF BlankBehind
  <2>2. \A m \in Cells : At(w) + 1 <= m => m \in Cells \ {At(w)} /\ At(w) <= m
    BY <1>4, WholeIs
  <2>3. \A m \in Cells : At(w) + 1 <= m => d.vga[m] = SP
    BY <1>6, <2>1, <2>2
  <2> QED BY <1>8, <2>3 DEF BlankBehind
<1>10. /\ str2 \in Seq(Glyphs) /\ Len(str2) = Len(str) + 1 /\ str2[Len(str) + 1] = c
       /\ \A i \in 1 .. Len(str) : str2[i] = str[i]
  OBVIOUS
<1> HIDE DEF str2
<1>11. b \in Nat /\ Len(str) \in Nat
  BY RowsFollow DEF RowStarts
<1>12. At(d) = b + Len(str2)
  BY <1>5, <1>8, <1>10, <1>11
<1>13. ASSUME NEW i \in 1 .. Len(str2) PROVE d.vga[b + i - 1] = str2[i]
  <2>1. CASE i = Len(str) + 1
    <3>1. b + i - 1 = At(w)
      BY <1>5, <1>11, <2>1
    <3> QED BY <1>6, <1>10, <2>1, <3>1
  <2>2. CASE i \in 1 .. Len(str)
    <3>1. b + i - 1 \in Cells \ {At(w)}
      BY <1>4, <1>5, <1>11, <2>2, WholeIs
    <3> QED BY <1>5, <1>6, <1>10, <2>2, <3>1
  <2> QED BY <1>10, <1>11, <2>1, <2>2
<1> QED BY <1>7, <1>9, <1>12, <1>13 DEF Ready, Clean, d, str2

(* A backspace takes the last character away, also over the end of a row.   *)
LEMMA BackStep ==
    ASSUME NEW s, NEW str \in Seq(Glyphs), Ready(s, str), Len(str) < Whole, str # <<>>
    PROVE  Ready(Draw(BS, s), SubSeq(str, 1, Len(str) - 1))
<1> DEFINE w == Wrapped(BS, s)
           d == Draw(BS, s)
           k == Back(w.x, w.y)
           str2 == SubSeq(str, 1, Len(str) - 1)
<1>1. BS # NL /\ SETCLR # BS
  BY CharactersAssumption
<1>2. Ready(w, str) /\ w.x < Columns
  BY <1>1, WrapShows
<1>3. d = [vga |-> CMD_SET(w.vga, k.x + k.y * Columns, SP), x |-> k.x, y |-> k.y,
           reads |-> w.reads]
  BY <1>1 DEF Draw, Put, Ready, Clean
<1> HIDE DEF w, d
<1>4. /\ w \in Screens /\ w.reads = "char" /\ BlankBehind(w)
      /\ At(w) \in Cells /\ At(w) = w.x + w.y * Columns
      /\ w.vga \in [Cells -> Glyphs] /\ w.x \in Nat /\ w.y \in 0 .. Rows - 1
  <2>1. w \in Screens /\ w.reads = "char" /\ BlankBehind(w)
    BY <1>2 DEF Ready, Clean
  <2> QED BY <1>2, <2>1, InRow
<1>5. PICK b \in RowStarts : /\ At(w) = b + Len(str)
                             /\ \A i \in 1 .. Len(str) : w.vga[b + i - 1] = str[i]
  BY <1>2 DEF Ready
<1>6. b \in Nat /\ Len(str) \in Nat /\ Len(str) # 0
  BY RowsFollow DEF RowStarts
<1>7. At(w) > 0 /\ At(w) \in Nat
  BY <1>4, <1>5, <1>6, WholeIs
<1>8. /\ k.x \in 0 .. Columns - 1 /\ k.y \in 0 .. Rows - 1
      /\ k.x + k.y * Columns = At(w) - 1
  <2>1. Columns \in Nat \ {0} /\ Rows \in Nat \ {0}
    BY WholeIs
  <2>2. CASE w.x = 0
    <3>1. k.x = Columns - 1 /\ k.y = w.y - 1
      BY <2>2 DEF Back
    <3>2. w.y # 0
      BY <1>4, <1>7, <2>1, <2>2
    <3> DEFINE n == w.y * Columns
    <3>3. (w.y - 1) * Columns = n - Columns /\ n \in Nat
      BY <1>4, <2>1, <3>2, RowsFollow
    <3>4. At(w) = n
      BY <1>4, <2>2, <3>3
    <3>5. k.y * Columns = n - Columns
      BY <3>1, <3>3
    <3> HIDE DEF n
    <3>6. k.x + k.y * Columns = At(w) - 1
      BY <2>1, <3>1, <3>3, <3>4, <3>5
    <3>7. k.x \in 0 .. Columns - 1 /\ k.y \in 0 .. Rows - 1
      BY <1>4, <2>1, <3>1, <3>2
    <3> QED BY <3>6, <3>7
  <2>3. CASE w.x # 0
    <3>1. k.x = w.x - 1 /\ k.y = w.y
      BY <2>3 DEF Back
    <3> DEFINE m == w.y * Columns
    <3>2. m \in Nat /\ k.y * Columns = m /\ At(w) = w.x + m
      <4>1. w.y \in Nat
        BY <1>4, <2>1
      <4> QED BY <1>4, <3>1, <4>1, RowsFollow
    <3> HIDE DEF m
    <3> DEFINE kx == k.x
               ky == k.y
    <3>3. kx = w.x - 1 /\ ky = w.y /\ ky * Columns = m
      BY <3>1, <3>2
    <3> HIDE DEF kx, ky
    <3>4. kx \in 0 .. Columns - 1 /\ kx + m = At(w) - 1
      <4>1. w.x \in Nat /\ w.x < Columns /\ w.x # 0 /\ Columns \in Nat
        BY <1>2, <1>4, <2>1, <2>3
      <4>2. kx \in 0 .. Columns - 1
        BY <3>3, <4>1
      <4>3. kx + m = At(w) - 1
        BY <3>2, <3>3, <4>1
      <4> QED BY <4>2, <4>3
    <3>5. ky \in 0 .. Rows - 1 /\ kx + ky * Columns = At(w) - 1
      BY <1>4, <3>3, <3>4
    <3> QED BY <3>4, <3>5 DEF kx, ky
  <2> QED BY <2>2, <2>3
<1> HIDE DEF k
<1> DEFINE n == At(w) - 1
<1>9. n \in Cells
  BY <1>4, <1>7, WholeIs
<1>10. /\ d.vga \in [Cells -> Glyphs] /\ d.vga[n] = SP
       /\ \A m \in Cells \ {n} : d.vga[m] = w.vga[m]
  <2>1. d.vga = CMD_SET(w.vga, n, SP)
    BY <1>3, <1>8
  <2> HIDE DEF n
  <2> QED BY <1>4, <1>9, <2>1, CellSet, ConsoleAssumption
<1>11. d \in Screens /\ d.reads = "char" /\ At(d) = n
  <2>1. d.x = k.x /\ d.y = k.y /\ d.reads = "char"
    BY <1>3, <1>4
  <2>2. At(d) = n
    BY <1>8, <2>1 DEF At
  <2> QED BY <1>3, <1>8, <1>10, <2>1, <2>2, WholeIs DEF Screens
<1>12. BlankBehind(d)
  <2> SUFFICES ASSUME NEW m \in Cells, n <= m PROVE d.vga[m] = SP
    BY <1>11 DEF BlankBehind
  <2>1. m = n \/ At(w) <= m
    BY <1>7, <1>9, WholeIs
  <2>2. CASE m # n
    BY <1>4, <1>10, <2>1, <2>2 DEF BlankBehind
  <2> QED BY <1>10, <2>2
<1>13. /\ Len(str2) = Len(str) - 1
       /\ \A i \in 1 .. Len(str) - 1 : str2[i] = str[i]
  BY <1>6
<1> HIDE DEF str2
<1>14. At(d) = b + Len(str2)
  BY <1>5, <1>6, <1>11, <1>13
<1>15. ASSUME NEW i \in 1 .. Len(str2) PROVE d.vga[b + i - 1] = str2[i]
  <2>1. i \in 1 .. Len(str) /\ i \in 1 .. Len(str) - 1
    BY <1>6, <1>13
  <2>2. b + i - 1 \in Cells \ {n}
    <3>1. b \in Nat /\ n = b + Len(str) - 1
      BY <1>5, <1>6
    <3>2. n \in 0 .. Whole - 1 /\ Whole \in Nat /\ Cells = 0 .. Whole - 1
      BY <1>9, WholeIs
    <3> HIDE DEF n
    <3>3. b + i - 1 >= 0 /\ b + i - 1 < n
      BY <1>6, <2>1, <3>1
    <3> QED BY <1>6, <2>1, <3>1, <3>2, <3>3
  <2>3. w.vga[b + i - 1] = str[i]
    BY <1>5, <2>1
  <2>4. d.vga[b + i - 1] = w.vga[b + i - 1]
    BY <1>10, <2>2
  <2> QED BY <1>13, <2>1, <2>3, <2>4
<1> QED BY <1>11, <1>12, <1>14, <1>15 DEF Ready, Clean, d, str2

(* A newline ends whatever stands on the screen.                            *)
LEMMA NewlineStep ==
    ASSUME NEW s, Clean(s, "char")
    PROVE  Ready(Draw(NL, s), <<>>)
<1> DEFINE w == Wrapped(NL, s)
<1>1. w \in Screens /\ BlankBehind(w) /\ w.x = 0 /\ w.reads = "char"
  BY WrapStep DEF Clean
<1>2. Draw(NL, s) = w
  BY DEF Draw, Put, Clean
<1> HIDE DEF w
<1>3. At(w) = w.y * Columns /\ w.y * Columns \in RowStarts /\ w.y * Columns \in Nat
  BY <1>1, ScreenParts
<1>4. Ready(w, <<>>)
  BY <1>1, <1>3 DEF Ready, Clean
<1> QED BY <1>2, <1>4

(* The output of a program keeps what is behind the cursor blank.           *)
LEMMA OutputStep ==
    ASSUME NEW r \in {"char", "color"}, NEW s, Clean(s, r), NEW c \in Chars,
           c = BS => r = "color"
    PROVE  Clean(Draw(c, s), IF r = "char" /\ c = SETCLR THEN "color" ELSE "char")
<1>1. s \in Screens /\ s.reads = r /\ BlankBehind(s)
  BY DEF Clean
<1>2. CASE r = "color"
  <2>1. Draw(c, s) = [vga |-> s.vga, x |-> s.x, y |-> s.y, reads |-> "char"]
    BY <1>1, <1>2 DEF Draw
  <2> QED BY <1>1, <1>2, <2>1 DEF Clean, Screens, BlankBehind, At
<1>3. CASE r = "char" /\ c \in Glyphs
  <2> DEFINE w == Wrapped(c, s)
             d == Draw(c, s)
  <2>2. c # NL /\ c # SETCLR /\ c # BS
    BY <1>3, ConsoleAssumption
  <2>3. /\ w \in Screens /\ w.reads = "char" /\ BlankBehind(w) /\ w.x < Columns
    BY <1>1, <1>3, WrapStep
  <2>4. d = [vga |-> CMD_SET(w.vga, w.x + w.y * Columns, c), x |-> w.x + 1, y |-> w.y,
             reads |-> w.reads]
    BY <1>1, <1>3, <2>2 DEF Draw, Put
  <2> HIDE DEF w, d
  <2>5. /\ At(w) \in Cells /\ At(w) = w.x + w.y * Columns
        /\ w.vga \in [Cells -> Glyphs] /\ w.x \in Nat /\ w.y \in 0 .. Rows - 1
    BY <2>3, InRow
  <2>6. /\ d.vga \in [Cells -> Glyphs]
        /\ \A m \in Cells \ {At(w)} : d.vga[m] = w.vga[m]
    BY <1>3, <2>4, <2>5, CellSet
  <2>7. d \in Screens /\ d.reads = "char"
    BY <2>3, <2>4, <2>5, <2>6, WholeIs DEF Screens
  <2>8. At(d) = At(w) + 1
    <3> DEFINE n == w.y * Columns
    <3>1. n \in Nat
      BY <2>5, ScreenParts, <2>3
    <3>2. At(d) = (w.x + 1) + n /\ At(w) = w.x + n
      BY <2>4, <2>5 DEF At
    <3> HIDE DEF n
    <3> QED BY <2>5, <3>1, <3>2
  <2>9. BlankBehind(d)
    <3> SUFFICES ASSUME NEW m \in Cells, At(w) + 1 <= m PROVE d.vga[m] = SP
      BY <2>8 DEF BlankBehind
    <3>1. m # At(w) /\ At(w) <= m
      BY <2>5, WholeIs
    <3> QED BY <2>3, <2>6, <3>1 DEF BlankBehind
  <2> QED BY <1>3, <2>2, <2>7, <2>9 DEF Clean, d
<1>4. CASE r = "char" /\ c = SETCLR
  <2> DEFINE w == Wrapped(c, s)
  <2>1. w \in Screens /\ BlankBehind(w)
    BY <1>1, WrapStep
  <2>2. Draw(c, s) = [vga |-> w.vga, x |-> w.x, y |-> w.y, reads |-> "color"]
    BY <1>1, <1>4, CharactersAssumption DEF Draw, Put
  <2> HIDE DEF w
  <2> QED BY <1>4, <2>1, <2>2 DEF Clean, Screens, BlankBehind, At
<1>5. CASE r = "char" /\ c = NL
  <2>1. Clean(Draw(NL, s), "char")
    BY <1>5, NewlineStep DEF Ready
  <2> QED BY <1>5, <2>1, CharactersAssumption
<1> QED BY <1>2, <1>3, <1>4, <1>5 DEF Chars

-----------------------------------------------------------------------------
(***************************************************************************)
(* What a text makes of the screen.                                         *)
(***************************************************************************)

(* Drawing str leads from screen s to screen e, and never off the screen.   *)
IsShow(w, s, str) ==
    /\ w \in [0 .. Len(str) -> Screens]
    /\ w[0] = s
    /\ \A k \in 1 .. Len(str) : w[k] = Draw(str[k], w[k - 1])

(* str, drawn on the screen s, makes it e.                                  *)
Leads(s, str, e) == \E w : IsShow(w, s, str) /\ w[Len(str)] = e

(* Induction along a text, for a set of positions.                          *)
LEMMA UpTo ==
    ASSUME NEW n \in Nat, NEW P, 0 \in P, \A k \in 1 .. n : k - 1 \in P => k \in P
    PROVE  n \in P
<1> DEFINE Bad == {k \in 0 .. n : k \notin P}
<1>1. SUFFICES ASSUME Bad # {} PROVE FALSE
  OBVIOUS
<1>2. PICK m \in Bad : \A k \in Bad : ~(k < m)
  <2>1. Bad \in SUBSET Nat
    OBVIOUS
  <2> HIDE DEF Bad
  <2> QED BY <1>1, <2>1, Least
<1>3. m \in 1 .. n /\ m - 1 \in 0 .. n /\ m - 1 \notin Bad
  BY <1>2
<1> QED BY <1>2, <1>3

(* Nothing to draw leads nowhere else.                                      *)
LEMMA LeadsNone ==
    ASSUME NEW s, NEW e
    PROVE  Leads(s, <<>>, e) <=> s \in Screens /\ e = s
<1>1. ASSUME s \in Screens PROVE Leads(s, <<>>, s)
  <2> DEFINE w == [k \in 0 .. 0 |-> s]
  <2>1. IsShow(w, s, <<>>) /\ w[Len(<<>>)] = s
    BY <1>1 DEF IsShow
  <2> HIDE DEF w
  <2> QED BY <2>1 DEF Leads
<1>2. ASSUME Leads(s, <<>>, e) PROVE s \in Screens /\ e = s
  BY <1>2 DEF Leads, IsShow
<1> QED BY <1>1, <1>2

(* One character more.                                                      *)
LEMMA LeadsOn ==
    ASSUME NEW S, NEW str \in Seq(S), NEW c \in S, NEW s, NEW e, Leads(s, str, e),
           Draw(c, e) \in Screens
    PROVE  Leads(s, Append(str, c), Draw(c, e))
<1> DEFINE n == Len(str)
           str2 == Append(str, c)
<1>1. PICK w : IsShow(w, s, str) /\ w[n] = e
  BY DEF Leads
<1> DEFINE v == [k \in 0 .. n + 1 |-> IF k = n + 1 THEN Draw(c, e) ELSE w[k]]
<1>2. n \in Nat /\ Len(str2) = n + 1 /\ str2[n + 1] = c /\ \A k \in 1 .. n : str2[k] = str[k]
  OBVIOUS
<1> HIDE DEF str2, n
<1>3. /\ w \in [0 .. n -> Screens] /\ w[0] = s
      /\ \A k \in 1 .. n : w[k] = Draw(str[k], w[k - 1])
  BY <1>1 DEF IsShow, n
<1>4. v[n + 1] = Draw(c, e) /\ \A k \in 0 .. n : v[k] = w[k]
  BY <1>2
<1>5. v \in [0 .. n + 1 -> Screens]
  BY <1>2, <1>3
<1> HIDE DEF v
<1>6. v[0] = s
  BY <1>2, <1>3, <1>4
<1>7. ASSUME NEW k \in 1 .. n + 1 PROVE v[k] = Draw(str2[k], v[k - 1])
  <2>1. CASE k = n + 1
    <3>1. k - 1 = n /\ k - 1 \in 0 .. n
      BY <1>2, <2>1
    <3>2. v[k - 1] = e
      BY <1>1, <1>4, <3>1
    <3> QED BY <1>2, <1>4, <2>1, <3>2
  <2>2. CASE k \in 1 .. n
    <3>1. k \in 0 .. n /\ k - 1 \in 0 .. n
      BY <1>2, <2>2
    <3> QED BY <1>2, <1>3, <1>4, <2>2, <3>1
  <2> QED BY <1>2, <2>1, <2>2
<1>8. IsShow(v, s, str2) /\ v[Len(str2)] = Draw(c, e)
  BY <1>2, <1>4, <1>5, <1>6, <1>7 DEF IsShow
<1> QED BY <1>8 DEF Leads, str2

(* One text and then another.                                               *)
LEMMA LeadsThen ==
    ASSUME NEW S, NEW str \in Seq(S), NEW more \in Seq(S), NEW s, NEW e, NEW f,
           Leads(s, str, e), Leads(e, more, f)
    PROVE  Leads(s, str \o more, f)
<1> DEFINE m == Len(str)
           n == Len(more)
           all == str \o more
<1>1. PICK w : IsShow(w, s, str) /\ w[m] = e
  BY DEF Leads
<1>2. PICK u : IsShow(u, e, more) /\ u[n] = f
  BY DEF Leads
<1>3. /\ m \in Nat /\ n \in Nat /\ Len(all) = m + n
      /\ \A k \in 1 .. m : all[k] = str[k]
      /\ \A k \in m + 1 .. m + n : all[k] = more[k - m]
  BY ConcatProperties
<1> DEFINE v == [k \in 0 .. m + n |-> IF k <= m THEN w[k] ELSE u[k - m]]
<1> HIDE DEF all, m, n
<1>4. /\ w \in [0 .. m -> Screens] /\ w[0] = s /\ w[m] = e
      /\ \A k \in 1 .. m : w[k] = Draw(str[k], w[k - 1])
  BY <1>1 DEF IsShow, m
<1>5. /\ u \in [0 .. n -> Screens] /\ u[0] = e /\ u[n] = f
      /\ \A k \in 1 .. n : u[k] = Draw(more[k], u[k - 1])
  BY <1>2 DEF IsShow, n
<1>6. \A k \in 0 .. m : v[k] = w[k]
  BY <1>3
<1>7. ASSUME NEW k \in m .. m + n PROVE v[k] = u[k - m]
  <2>1. CASE k = m
    <3>1. v[m] = w[m] /\ m - m = 0
      BY <1>3
    <3> QED BY <1>4, <1>5, <2>1, <3>1
  <2>2. CASE k # m
    <3>1. k \in 0 .. m + n /\ ~(k <= m)
      BY <1>3, <2>2
    <3> QED BY <3>1
  <2> QED BY <2>1, <2>2
<1>8. v \in [0 .. m + n -> Screens]
  <2>1. \A k \in 0 .. m + n : (k <= m => k \in 0 .. m) /\ (~(k <= m) => k - m \in 0 .. n)
    BY <1>3
  <2> QED BY <1>4, <1>5, <2>1
<1> HIDE DEF v
<1>9. v[0] = s /\ v[m + n] = f
  BY <1>3, <1>4, <1>5, <1>6, <1>7
<1>10. ASSUME NEW k \in 1 .. m + n PROVE v[k] = Draw(all[k], v[k - 1])
  <2>1. CASE k \in 1 .. m
    <3>1. k \in 0 .. m /\ k - 1 \in 0 .. m
      BY <1>3, <2>1
    <3> QED BY <1>3, <1>4, <1>6, <2>1, <3>1
  <2>2. CASE k \in m + 1 .. m + n
    <3>1. k \in m .. m + n /\ k - 1 \in m .. m + n /\ k - m \in 1 .. n /\ (k - 1) - m = (k - m) - 1
      BY <1>3, <2>2
    <3> QED BY <1>3, <1>5, <1>7, <2>2, <3>1
  <2> QED BY <1>3, <2>1, <2>2
<1>11. IsShow(v, s, all) /\ v[Len(all)] = f
  BY <1>3, <1>8, <1>9, <1>10 DEF IsShow
<1> QED BY <1>11 DEF Leads, all

(* The first character of a text is drawn, the rest is still to come.       *)
LEMMA LeadsFirst ==
    ASSUME NEW S, NEW str \in Seq(S), str # <<>>, NEW s, NEW e, Leads(s, str, e)
    PROVE  Leads(Draw(str[1], s), Tail(str), e)
<1> DEFINE n == Len(str)
           rest == Tail(str)
<1>1. PICK w : IsShow(w, s, str) /\ w[n] = e
  BY DEF Leads
<1>2. /\ n \in Nat /\ n > 0 /\ Len(rest) = n - 1
      /\ \A k \in 1 .. n - 1 : rest[k] = str[k + 1]
  BY HeadTailProperties
<1> DEFINE v == [k \in 0 .. n - 1 |-> w[k + 1]]
<1> HIDE DEF rest, n
<1>3. /\ w \in [0 .. n -> Screens] /\ w[0] = s
      /\ \A k \in 1 .. n : w[k] = Draw(str[k], w[k - 1])
  BY <1>1 DEF IsShow, n
<1>4. \A k \in 0 .. n - 1 : v[k] = w[k + 1] /\ k + 1 \in 0 .. n /\ k + 1 \in 1 .. n
  BY <1>2
<1>5. v \in [0 .. n - 1 -> Screens]
  BY <1>3, <1>4
<1> HIDE DEF v
<1>6. v[0] = Draw(str[1], s) /\ v[n - 1] = e
  <2>1. 0 \in 0 .. n - 1 /\ n - 1 \in 0 .. n - 1 /\ (n - 1) + 1 = n /\ 1 \in 1 .. n
    BY <1>2
  <2>2. v[0] = w[1] /\ w[1] = Draw(str[1], w[0])
    BY <1>3, <1>4, <2>1
  <2> QED BY <1>1, <1>3, <1>4, <2>1, <2>2
<1>7. ASSUME NEW k \in 1 .. n - 1 PROVE v[k] = Draw(rest[k], v[k - 1])
  <2>1. k \in 0 .. n - 1 /\ k - 1 \in 0 .. n - 1 /\ k + 1 \in 1 .. n /\ (k - 1) + 1 = k /\ (k + 1) - 1 = k
    BY <1>2
  <2>2. v[k] = w[k + 1] /\ v[k - 1] = w[k]
    BY <1>4, <2>1
  <2>3. w[k + 1] = Draw(str[k + 1], w[k])
    BY <1>3, <2>1
  <2> QED BY <1>2, <2>2, <2>3
<1>8. IsShow(v, Draw(str[1], s), rest) /\ v[Len(rest)] = e
  BY <1>2, <1>5, <1>6, <1>7 DEF IsShow
<1> QED BY <1>8 DEF Leads, rest

(* The screens at both ends are screens.                                    *)
LEMMA LeadsEnds ==
    ASSUME NEW S, NEW str \in Seq(S), NEW s, NEW e, Leads(s, str, e)
    PROVE  s \in Screens /\ e \in Screens
BY DEF Leads, IsShow

(* The prefixes of a text grow by a character.                              *)
LEMMA Prefixes ==
    ASSUME NEW S, NEW str \in Seq(S)
    PROVE  /\ SubSeq(str, 1, 0) = <<>> /\ SubSeq(str, 1, Len(str)) = str
           /\ \A k \in 1 .. Len(str) :
                 /\ SubSeq(str, 1, k - 1) \in Seq(S) /\ Len(SubSeq(str, 1, k - 1)) = k - 1
                 /\ SubSeq(str, 1, k) = Append(SubSeq(str, 1, k - 1), str[k])
<1>1. SubSeq(str, 1, 0) = <<>> /\ SubSeq(str, 1, Len(str)) = str
  BY SubSeqFull, SubSeqEmpty
<1>2. ASSUME NEW k \in 1 .. Len(str)
      PROVE  /\ SubSeq(str, 1, k - 1) \in Seq(S) /\ Len(SubSeq(str, 1, k - 1)) = k - 1
             /\ SubSeq(str, 1, k) = Append(SubSeq(str, 1, k - 1), str[k])
  <2> DEFINE p == SubSeq(str, 1, k - 1)
             q == SubSeq(str, 1, k)
  <2>1. p \in Seq(S) /\ q \in Seq(S) /\ Len(p) = k - 1 /\ Len(q) = k
    BY SubSeqProperties
  <2>2. (\A i \in 1 .. k - 1 : p[i] = str[i]) /\ (\A i \in 1 .. k : q[i] = str[i])
    OBVIOUS
  <2>3. Append(p, str[k]) \in Seq(S) /\ Len(Append(p, str[k])) = k
    BY <2>1
  <2>4. \A i \in 1 .. k : Append(p, str[k])[i] = q[i]
    BY <2>1, <2>2
  <2> HIDE DEF p, q
  <2>5. q = Append(p, str[k])
    BY <2>1, <2>3, <2>4, SeqEqual
  <2> QED BY <2>1, <2>5 DEF p, q
<1> QED BY <1>1, <1>2

(* A text of glyphs, shorter than the screen, shows at its end.             *)
LEMMA TextLeads ==
    ASSUME NEW s, Ready(s, <<>>), NEW str \in Seq(Glyphs), Len(str) <= Whole
    PROVE  \E e : Leads(s, str, e) /\ Ready(e, str)
<1> DEFINE Good(k) == \E e : Leads(s, SubSeq(str, 1, k), e) /\ Ready(e, SubSeq(str, 1, k))
           P == {k \in 0 .. Len(str) : Good(k)}
<1>1. Len(str) \in Nat /\ Whole \in Nat
  BY WholeIs
<1>2. 0 \in P
  <2>1. Leads(s, <<>>, s)
    BY LeadsNone DEF Ready, Clean
  <2>2. Good(0)
    BY <2>1, Prefixes
  <2> HIDE DEF Good
  <2> QED BY <1>1, <2>2
<1>3. ASSUME NEW k \in 1 .. Len(str), k - 1 \in P PROVE k \in P
  <2> DEFINE p == SubSeq(str, 1, k - 1)
  <2>1. PICK e : Leads(s, p, e) /\ Ready(e, p)
    BY <1>3
  <2>2. p \in Seq(Glyphs) /\ Len(p) = k - 1 /\ SubSeq(str, 1, k) = Append(p, str[k])
    BY Prefixes
  <2>3. str[k] \in Glyphs /\ Len(p) < Whole
    BY <1>1, <2>2
  <2> HIDE DEF p
  <2>4. Ready(Draw(str[k], e), Append(p, str[k]))
    BY <2>1, <2>2, <2>3, GlyphStep
  <2>5. Leads(s, Append(p, str[k]), Draw(str[k], e))
    <3>1. Draw(str[k], e) \in Screens
      BY <2>4 DEF Ready, Clean
    <3> QED BY <2>1, <2>2, <2>3, <3>1, LeadsOn
  <2>6. Good(k)
    BY <2>2, <2>4, <2>5
  <2> HIDE DEF Good
  <2> QED BY <1>3, <2>6
<1>4. Len(str) \in P
  <2> HIDE DEF P
  <2> QED BY <1>1, <1>2, <1>3, UpTo
<1> QED BY <1>4, Prefixes

(* What a program writes leaves a screen that is blank behind the cursor.   *)
LEMMA OutputLeads ==
    ASSUME NEW s, Clean(s, "char"), NEW str \in Seq(Chars), Plain(str)
    PROVE  \E e : Leads(s, str, e) /\ Clean(e, "char")
<1>1. PICK due \in [0 .. Len(str) -> BOOLEAN] :
        /\ ~due[0] /\ ~due[Len(str)]
        /\ \A k \in 1 .. Len(str) :
               /\ due[k] <=> ~due[k - 1] /\ str[k] = SETCLR
               /\ str[k] = BS => due[k - 1]
  BY DEF Plain
<1> DEFINE State(k) == IF due[k] THEN "color" ELSE "char"
           Good(k) == \E e : Leads(s, SubSeq(str, 1, k), e) /\ Clean(e, State(k))
           P == {k \in 0 .. Len(str) : Good(k)}
<1>2. Len(str) \in Nat
  OBVIOUS
<1>3. 0 \in P
  <2>1. Leads(s, <<>>, s)
    BY LeadsNone DEF Clean
  <2>2. State(0) = "char" /\ SubSeq(str, 1, 0) = <<>>
    BY <1>1, Prefixes
  <2> HIDE DEF State
  <2>3. Good(0)
    BY <2>1, <2>2
  <2> HIDE DEF Good
  <2> QED BY <1>2, <2>3
<1>4. ASSUME NEW k \in 1 .. Len(str), k - 1 \in P PROVE k \in P
  <2> DEFINE p == SubSeq(str, 1, k - 1)
             r == State(k - 1)
  <2>1. PICK e : Leads(s, p, e) /\ Clean(e, r)
    BY <1>4
  <2>2. p \in Seq(Chars) /\ Len(p) = k - 1 /\ SubSeq(str, 1, k) = Append(p, str[k])
    BY Prefixes
  <2>3. str[k] \in Chars
    OBVIOUS
  <2>4. r \in {"char", "color"} /\ (str[k] = BS => r = "color")
    BY <1>1
  <2>5. State(k) = IF r = "char" /\ str[k] = SETCLR THEN "color" ELSE "char"
    BY <1>1
  <2> HIDE DEF p, r, State
  <2>6. Clean(Draw(str[k], e), State(k))
    BY <2>1, <2>3, <2>4, <2>5, OutputStep
  <2>7. Leads(s, Append(p, str[k]), Draw(str[k], e))
    <3>1. Draw(str[k], e) \in Screens
      BY <2>6 DEF Clean
    <3> QED BY <2>1, <2>2, <2>3, <3>1, LeadsOn
  <2>8. Good(k)
    BY <2>2, <2>6, <2>7
  <2> HIDE DEF Good
  <2> QED BY <1>4, <2>8
<1>5. Len(str) \in P
  <2> HIDE DEF P
  <2> QED BY <1>2, <1>3, <1>4, UpTo
<1>6. State(Len(str)) = "char"
  BY <1>1
<1> QED BY <1>5, <1>6, Prefixes

-----------------------------------------------------------------------------
(***************************************************************************)
(* Chunks put together.                                                     *)
(***************************************************************************)

(* The chunks put together one after the other.                             *)
IsFlat(g, S, chunks) ==
    /\ g \in [0 .. Len(chunks) -> Seq(S)]
    /\ g[0] = <<>>
    /\ \A k \in 1 .. Len(chunks) : g[k] = g[k - 1] \o chunks[k]

(* The flattening operator of the community modules does that.              *)
LEMMA FlatIs ==
    ASSUME NEW S, NEW chunks \in Seq(Seq(S)), NEW g, IsFlat(g, S, chunks)
    PROVE  Flat(chunks) = g[Len(chunks)]
<1> DEFINE n == Len(chunks)
           Body(f, i) == IF i = 1 THEN chunks[i] ELSE f[i - 1] \o chunks[i]
           flatten == CHOOSE f : f = [i \in 1 .. n |-> Body(f, i)]
<1>1. n \in Nat
  OBVIOUS
<1>2. CASE n = 0
  <2>1. chunks = <<>>
    BY <1>2
  <2>2. Flat(chunks) = chunks
    BY <1>2 DEF Flat, SeqX!FlattenSeq
  <2> QED BY <1>2, <2>1, <2>2 DEF IsFlat
<1>3. CASE n # 0
  <2>1. Flat(chunks) = flatten[n]
    BY <1>3 DEF Flat, SeqX!FlattenSeq
  <2> DEFINE h == [i \in 1 .. n |-> g[i]]
  <2>2. ASSUME NEW i \in 1 .. n PROVE g[i] = Body(h, i)
    <3>1. g[i] = g[i - 1] \o chunks[i]
      BY DEF IsFlat
    <3>2. CASE i = 1
      <4>1. g[0] = <<>>
        BY DEF IsFlat
      <4>2. chunks[i] \in Seq(S)
        OBVIOUS
      <4>3. i - 1 = 0
        BY <3>2
      <4>4. g[i] = <<>> \o chunks[i]
        BY <3>1, <4>1, <4>3
      <4>5. <<>> \o chunks[i] = chunks[i]
        BY <4>2, ConcatEmptySeq
      <4>6. Body(h, i) = chunks[i]
        BY <3>2
      <4> QED BY <4>4, <4>5, <4>6
    <3>3. CASE i # 1
      <4>1. i - 1 \in 1 .. n
        BY <1>1, <3>3
      <4> QED BY <3>1, <3>3, <4>1
    <3> QED BY <3>2, <3>3
  <2>3. h = [i \in 1 .. n |-> Body(h, i)]
    <3>1. \A i \in 1 .. n : g[i] = Body(h, i)
      BY <2>2
    <3> HIDE DEF Body
    <3>2. [i \in 1 .. n |-> g[i]] = [i \in 1 .. n |-> Body(h, i)]
      BY <3>1
    <3> QED BY <3>2
  <2>4. flatten = [i \in 1 .. n |-> Body(flatten, i)]
    <3> HIDE DEF Body, h, n
    <3> QED BY <2>3
  <2> HIDE DEF flatten
  <2> DEFINE P == {k \in 0 .. n : k > 0 => flatten[k] = g[k]}
  <2>5. 0 \in P
    BY <1>1
  <2>6. ASSUME NEW k \in 1 .. n, k - 1 \in P PROVE k \in P
    <3>1. flatten[k] = Body(flatten, k)
      <4> HIDE DEF Body
      <4> QED BY <2>4
    <3>2. flatten[k] = g[k]
      <4>1. CASE k = 1
        BY <2>2, <3>1, <4>1
      <4>2. CASE k # 1
        <5>1. k - 1 \in 1 .. n
          BY <1>1, <4>2
        <5>2. flatten[k - 1] = g[k - 1] /\ h[k - 1] = g[k - 1]
          BY <2>6, <5>1
        <5>3. Body(flatten, k) = Body(h, k)
          BY <4>2, <5>2
        <5> QED BY <2>2, <3>1, <5>3
      <4> QED BY <4>1, <4>2
    <3> QED BY <1>1, <3>2
  <2>7. n \in P
    <3> HIDE DEF P, n
    <3> QED BY <1>1, <2>5, <2>6, UpTo
  <2> QED BY <1>3, <2>1, <2>7
<1> QED BY <1>2, <1>3

(* Chunks can be put together.                                              *)
LEMMA FlatExists ==
    ASSUME NEW S, NEW chunks \in Seq(Seq(S))
    PROVE  \E g : IsFlat(g, S, chunks)
<1> DEFINE n == Len(chunks)
           Upto(g, k) == /\ g \in [0 .. k -> Seq(S)] /\ g[0] = <<>>
                         /\ \A i \in 1 .. k : g[i] = g[i - 1] \o chunks[i]
           P == {k \in 0 .. n : \E g : Upto(g, k)}
<1>1. n \in Nat
  OBVIOUS
<1>2. 0 \in P
  <2> DEFINE g == [k \in 0 .. 0 |-> <<>>]
  <2>1. g \in [0 .. 0 -> Seq(S)] /\ g[0] = <<>>
    OBVIOUS
  <2>2. Upto(g, 0)
    BY <2>1
  <2> HIDE DEF Upto, g
  <2> QED BY <1>1, <2>2
<1>3. ASSUME NEW k \in 1 .. n, k - 1 \in P PROVE k \in P
  <2>1. PICK g : Upto(g, k - 1)
    BY <1>3
  <2> DEFINE new == g[k - 1] \o chunks[k]
             h == [i \in 0 .. k |-> IF i = k THEN new ELSE g[i]]
  <2>2. k - 1 \in 0 .. k - 1 /\ k \in Nat /\ k > 0
    BY <1>1
  <2>3. chunks[k] \in Seq(S) /\ g[k - 1] \in Seq(S)
    BY <2>1, <2>2
  <2>4. new \in Seq(S)
    BY <2>3, ConcatProperties
  <2> HIDE DEF new
  <2>5. h[k] = new /\ \A i \in 0 .. k - 1 : h[i] = g[i]
    BY <2>2
  <2>6. h \in [0 .. k -> Seq(S)]
    <3>1. \A i \in 0 .. k : i # k => i \in 0 .. k - 1
      BY <2>2
    <3> QED BY <2>1, <2>4, <3>1
  <2> HIDE DEF h
  <2>7. h[0] = <<>>
    BY <2>1, <2>2, <2>5
  <2>8. ASSUME NEW i \in 1 .. k PROVE h[i] = h[i - 1] \o chunks[i]
    <3>1. CASE i = k
      BY <2>2, <2>5, <3>1 DEF new
    <3>2. CASE i # k
      <4>1. i \in 1 .. k - 1 /\ i \in 0 .. k - 1 /\ i - 1 \in 0 .. k - 1
        BY <2>2, <3>2
      <4> QED BY <2>1, <2>5, <4>1
    <3> QED BY <3>1, <3>2
  <2>9. Upto(h, k)
    BY <2>6, <2>7, <2>8
  <2> HIDE DEF Upto
  <2> QED BY <2>9
<1>4. n \in P
  <2> HIDE DEF P, n
  <2> QED BY <1>1, <1>2, <1>3, UpTo
<1> QED BY <1>4 DEF IsFlat

(* Chunks without more behind them; one chunk; and the chunks of two        *)
(* sequences.                                                               *)
LEMMA FlatTyped ==
    ASSUME NEW S, NEW chunks \in Seq(Seq(S))
    PROVE  Flat(chunks) \in Seq(S)
<1>1. PICK g : IsFlat(g, S, chunks)
  BY FlatExists
<1>2. Len(chunks) \in 0 .. Len(chunks)
  OBVIOUS
<1>3. g[Len(chunks)] \in Seq(S)
  BY <1>1, <1>2 DEF IsFlat
<1> QED BY <1>1, <1>3, FlatIs

(* No chunks.                                                               *)
LEMMA FlatNone == Flat(<<>>) = <<>>
BY DEF Flat, SeqX!FlattenSeq

(* One chunk.                                                               *)
LEMMA FlatOne ==
    ASSUME NEW S, NEW str \in Seq(S)
    PROVE  Flat(<<str>>) = str
<1> DEFINE chunks == <<str>>
           g == [k \in 0 .. 1 |-> IF k = 0 THEN <<>> ELSE str]
<1>1. chunks \in Seq(Seq(S)) /\ Len(chunks) = 1 /\ chunks[1] = str
  OBVIOUS
<1> HIDE DEF chunks
<1>2. g \in [0 .. 1 -> Seq(S)] /\ g[0] = <<>> /\ g[1] = str
  OBVIOUS
<1> HIDE DEF g
<1>3. \A k \in 1 .. 1 : g[k] = g[k - 1] \o chunks[k]
  <2>1. <<>> \o str = str
    BY ConcatEmptySeq
  <2>2. g[1] = g[0] \o chunks[1]
    BY <1>1, <1>2, <2>1
  <2>3. TAKE k \in 1 .. 1
  <2>4. k = 1 /\ k - 1 = 0
    OBVIOUS
  <2> QED BY <2>2, <2>4
<1>4. IsFlat(g, S, chunks)
  BY <1>1, <1>2, <1>3 DEF IsFlat
<1>5. Flat(chunks) = str
  BY <1>1, <1>2, <1>4, FlatIs
<1> QED BY <1>5 DEF chunks

Regroups(S) == \A a, b, c \in Seq(S) : (a \o b) \o c = a \o (b \o c)

(* Putting together is associative.                                         *)
LEMMA Regroup ==
    ASSUME NEW S
    PROVE  Regroups(S)
BY ConcatAssociative DEF Regroups

(* The chunks of two sequences.                                             *)
LEMMA FlatJoin ==
    ASSUME NEW S, NEW chunks \in Seq(Seq(S)), NEW more \in Seq(Seq(S))
    PROVE  Flat(chunks \o more) = Flat(chunks) \o Flat(more)
<1> DEFINE m == Len(chunks)
           n == Len(more)
           all == chunks \o more
<1>1. PICK g : IsFlat(g, S, chunks)
  BY FlatExists
<1>2. PICK h : IsFlat(h, S, more)
  BY FlatExists
<1>3. /\ all \in Seq(Seq(S)) /\ m \in Nat /\ n \in Nat /\ Len(all) = m + n
      /\ \A k \in 1 .. m : all[k] = chunks[k]
      /\ \A k \in m + 1 .. m + n : all[k] = more[k - m]
  BY ConcatProperties
<1>4. /\ g \in [0 .. m -> Seq(S)] /\ g[0] = <<>>
      /\ \A k \in 1 .. m : g[k] = g[k - 1] \o chunks[k]
  BY <1>1 DEF IsFlat
<1>5. /\ h \in [0 .. n -> Seq(S)] /\ h[0] = <<>>
      /\ \A k \in 1 .. n : h[k] = h[k - 1] \o more[k]
  BY <1>2 DEF IsFlat
<1>6. Flat(chunks) = g[m] /\ Flat(more) = h[n]
  BY <1>1, <1>2, FlatIs
<1>7. \A k \in 1 .. n : more[k] \in Seq(S)
  OBVIOUS
<1> DEFINE j == [k \in 0 .. m + n |-> IF k <= m THEN g[k] ELSE g[m] \o h[k - m]]
<1> HIDE DEF all, m, n
<1>8. \A k \in 0 .. m : j[k] = g[k]
  BY <1>3
<1>9. g[m] \in Seq(S) /\ \A k \in 0 .. n : h[k] \in Seq(S)
  BY <1>3, <1>4, <1>5
<1>10. ASSUME NEW k \in m .. m + n PROVE j[k] = g[m] \o h[k - m]
  <2>1. CASE k = m
    <3>1. j[k] = g[m] /\ k - m = 0
      BY <1>3, <2>1
    <3>2. g[m] \o <<>> = g[m]
      BY <1>9, ConcatEmptySeq
    <3> QED BY <1>5, <3>1, <3>2
  <2>2. CASE k # m
    <3>1. k \in 0 .. m + n /\ ~(k <= m)
      BY <1>3, <2>2
    <3> QED BY <3>1
  <2> QED BY <2>1, <2>2
<1>11. j \in [0 .. m + n -> Seq(S)]
  <2>1. ASSUME NEW k \in 0 .. m + n PROVE j[k] \in Seq(S)
    <3>1. CASE k \in 0 .. m
      BY <1>4, <1>8, <3>1
    <3>2. CASE k \in m .. m + n
      <4>1. k - m \in 0 .. n
        BY <1>3, <3>2
      <4>2. g[m] \o h[k - m] \in Seq(S)
        BY <1>9, <4>1, ConcatProperties
      <4> QED BY <1>10, <3>2, <4>2
    <3> QED BY <1>3, <3>1, <3>2
  <2>2. j = [k \in 0 .. m + n |-> j[k]]
    OBVIOUS
  <2> HIDE DEF j
  <2> QED BY <2>1, <2>2
<1> HIDE DEF j
<1>12. ASSUME NEW k \in 1 .. m + n PROVE j[k] = j[k - 1] \o all[k]
  <2>1. CASE k \in 1 .. m
    <3>1. k \in 0 .. m /\ k - 1 \in 0 .. m
      BY <1>3, <2>1
    <3> QED BY <1>3, <1>4, <1>8, <2>1, <3>1
  <2>2. CASE k \in m + 1 .. m + n
    <3> DEFINE i == k - m
    <3>1. /\ k \in m .. m + n /\ k - 1 \in m .. m + n /\ i \in 1 .. n
          /\ (k - 1) - m = i - 1 /\ i - 1 \in 0 .. n
      BY <1>3, <2>2
    <3>2. j[k] = g[m] \o h[i] /\ j[k - 1] = g[m] \o h[i - 1] /\ all[k] = more[i]
      BY <1>3, <1>10, <2>2, <3>1
    <3> HIDE DEF i
    <3>3. h[i] = h[i - 1] \o more[i]
      BY <1>5, <3>1
    <3>4. g[m] \in Seq(S) /\ h[i - 1] \in Seq(S) /\ more[i] \in Seq(S)
      BY <1>7, <1>9, <3>1
    <3>5. (g[m] \o h[i - 1]) \o more[i] = g[m] \o (h[i - 1] \o more[i])
      <4>1. Regroups(S)
        BY Regroup
      <4> QED BY <3>4, <4>1 DEF Regroups
    <3> QED BY <3>2, <3>3, <3>5
  <2>3. k \in 1 .. m \/ k \in m + 1 .. m + n
    BY <1>3
  <2> QED BY <2>1, <2>2, <2>3
<1>13. j[0] = <<>>
  BY <1>3, <1>4, <1>8
<1>14. IsFlat(j, S, all)
  BY <1>3, <1>11, <1>12, <1>13 DEF IsFlat
<1>15. Flat(all) = j[m + n]
  BY <1>3, <1>14, FlatIs
<1>16. j[m + n] = g[m] \o h[n]
  <2>1. m + n \in m .. m + n /\ (m + n) - m = n
    BY <1>3
  <2> QED BY <1>10, <2>1
<1> QED BY <1>6, <1>15, <1>16 DEF all

(* The first chunk and the others.                                          *)
LEMMA FlatFirst ==
    ASSUME NEW S, NEW chunks \in Seq(Seq(S)), chunks # <<>>
    PROVE  /\ Head(chunks) \in Seq(S) /\ Tail(chunks) \in Seq(Seq(S))
           /\ Flat(chunks) = Head(chunks) \o Flat(Tail(chunks))
<1> DEFINE T == Seq(S)
           a == Head(chunks)
           rest == Tail(chunks)
<1>1. chunks \in Seq(T)
  OBVIOUS
<1> HIDE DEF T
<1>2. /\ a \in T /\ rest \in Seq(T) /\ Len(rest) = Len(chunks) - 1
      /\ \A i \in 1 .. Len(rest) : rest[i] = chunks[i + 1]
  BY <1>1, HeadTailProperties
<1>3. a = chunks[1] /\ Len(chunks) \in Nat /\ Len(chunks) > 0
  BY <1>1
<1> HIDE DEF a, rest
<1>4. <<a>> \in Seq(T) /\ Len(<<a>>) = 1 /\ <<a>>[1] = a
  BY <1>2
<1>5. /\ <<a>> \o rest \in Seq(T) /\ Len(<<a>> \o rest) = 1 + Len(rest)
      /\ \A i \in 1 .. 1 + Len(rest) :
            (<<a>> \o rest)[i] = IF i <= 1 THEN <<a>>[i] ELSE rest[i - 1]
  BY <1>2, <1>4, ConcatProperties
<1>6. Len(<<a>> \o rest) = Len(chunks)
  BY <1>2, <1>3, <1>5
<1>7. ASSUME NEW i \in 1 .. Len(chunks) PROVE (<<a>> \o rest)[i] = chunks[i]
  <2>1. CASE i = 1
    BY <1>2, <1>3, <1>4, <1>5, <2>1
  <2>2. CASE i # 1
    <3>1. i \in 1 .. 1 + Len(rest) /\ i - 1 \in 1 .. Len(rest) /\ ~(i <= 1) /\ (i - 1) + 1 = i
      BY <1>2, <1>3, <2>2
    <3> QED BY <1>2, <1>5, <3>1
  <2> QED BY <2>1, <2>2
<1>8. chunks = <<a>> \o rest
  BY <1>1, <1>5, <1>6, <1>7, SeqEqual
<1>9. Flat(chunks) = Flat(<<a>>) \o Flat(rest)
  <2>1. <<a>> \in Seq(Seq(S)) /\ rest \in Seq(Seq(S))
    BY <1>2, <1>4 DEF T
  <2>2. Flat(<<a>> \o rest) = Flat(<<a>>) \o Flat(rest)
    BY <2>1, FlatJoin
  <2> QED BY <1>8, <2>2
<1>10. Flat(<<a>>) = a
  BY <1>2, FlatOne DEF T
<1> QED BY <1>2, <1>9, <1>10 DEF T, a, rest

-----------------------------------------------------------------------------
(***************************************************************************)
(* The shell, the bytes on their way and the screen.  The invariant looks   *)
(* ahead: drawn to the end, what waits in the FIFO and in the shell's hands *)
(* makes the screen show the prompt and the line.                           *)
(***************************************************************************)

(* What the code does not see to: the prompt and the line leave a cell of   *)
(* the screen free.                                                         *)
LineFits == Len(Flat(Prompt)) + Len(line) < Columns * Rows

(* The screen as it is.                                                     *)
Screen == [vga |-> vga_buffer, x |-> x, y |-> y, reads |-> reads]

(* The only call the driver makes: fread of a byte.                         *)
Reading == [op |-> "read", length |-> 1]

(* The characters are those of the bytes; the shell's call is the one for   *)
(* its next chunk, the driver's the one for a byte.                         *)
Coupled ==
    /\ text \in Seq(Chars) /\ Len(text) = pos
    /\ line \in Seq(Glyphs)
    /\ out \in Seq(Seq(Chars)) /\ \A i \in DOMAIN out : Len(out[i]) \in WriteLengths
    /\ pc \in {"off", "getln", "run"}
    /\ pc = "off" => out = <<>> /\ line = <<>>
    /\ call[tty] \in {Idle, Reading}
    /\ \/ call[sh] = Idle
       \/ out # <<>> /\ call[sh] = [op |-> "write", length |-> Len(Head(out))]

(* What the screen has to show in the row of the cursor, once all is        *)
(* drawn.                                                                   *)
Shown == IF pc = "getln" THEN Flat(Prompt) \o line ELSE <<>>

(* It will: what waits leads to a screen that shows it.                     *)
Drawing == \E e : Leads(Screen, text \o Flat(out), e) /\ Ready(e, Shown)

(* What a definition says of the next state, it says of the values there.   *)
LEMMA FlatNext == Flat(out)' = Flat(out')
BY DEF Flat, SeqX!FlattenSeq

(* The same of the screen to come,                                          *)
LEMMA LeadsNext ==
    ASSUME NEW e
    PROVE  Leads(Screen, text \o Flat(out), e)' <=> Leads(Screen', text' \o Flat(out'), e)
<1> DEFINE all == text \o Flat(out)
<1>1. all' = text' \o Flat(out')
  BY FlatNext
<1> HIDE DEF all
<1>2. Leads(Screen, all, e)' <=> Leads(Screen', all', e)
  <2>1. ASSUME NEW w, NEW k PROVE Draw(all[k], w[k - 1])' = Draw(all'[k], w[k - 1])
    <3> DEFINE v == w[k - 1]
               r == Wrapped(all[k], v)
    <3>1. r' = Wrapped(all'[k], v)
      <4> HIDE DEF v
      <4> QED BY DEF Wrapped, Below, CMD_SCROLL, Cells
    <3> HIDE DEF r
    <3>2. Put(all[k], r)' = Put(all'[k], r')
      BY DEF Put, Back, CMD_SET, Cells
    <3> HIDE DEF v
    <3>3. Draw(all[k], v)' = Draw(all'[k], v)
      BY <3>1, <3>2 DEF Draw, r
    <3> QED BY <3>3 DEF v
  <2>2. Screens' = Screens
    BY DEF Screens, Cells
  <2>3. ASSUME NEW w PROVE IsShow(w, Screen, all)' <=> IsShow(w, Screen', all')
    BY <2>1, <2>2 DEF IsShow
  <2> QED BY <2>3 DEF Leads
<1> QED BY <1>1, <1>2 DEF all

(* of what it is to show,                                                   *)
LEMMA ReadyNext ==
    ASSUME NEW e
    PROVE  Ready(e, Shown)' <=> Ready(e, Shown')
BY DEF Ready, Clean, BlankBehind, At, Screens, RowStarts, Cells

(* and of both.                                                             *)
LEMMA DrawingNext ==
    ASSUME NEW e, Leads(Screen', text' \o Flat(out'), e), Ready(e, Shown')
    PROVE  Drawing'
BY LeadsNext, ReadyNext DEF Drawing

-----------------------------------------------------------------------------
(* What the driver does with a character is what Draw says.                 *)
LEMMA ShowDraws ==
    ASSUME Screen \in Screens, NEW c, IF reads = "char" THEN Show(c) ELSE SetColor
    PROVE  Screen' = Draw(c, Screen)
<1> DEFINE s == Screen
           w == Wrapped(c, s)
<1>1. s.vga = vga_buffer /\ s.x = x /\ s.y = y /\ s.reads = reads
  BY DEF Screen
<1>2. reads \in {"char", "color"}
  BY <1>1, ScreenParts
<1>3. Screen' = [vga |-> vga_buffer', x |-> x', y |-> y', reads |-> reads']
  BY DEF Screen
<1>4. CASE reads = "color"
  <2>1. SetColor
    BY <1>4
  <2>2. Draw(c, s) = [vga |-> vga_buffer, x |-> x, y |-> y, reads |-> "char"]
    BY <1>1, <1>4 DEF Draw
  <2> QED BY <1>3, <2>1, <2>2 DEF SetColor
<1>5. CASE reads = "char"
  <2>1. Show(c)
    BY <1>5
  <2>2. Draw(c, s) = Put(c, w)
    BY <1>1, <1>5 DEF Draw
  <2> DEFINE col == IF Wraps(c) THEN 0 ELSE x
             down == IF Wraps(c) THEN y + 1 ELSE y
             row == Below(down)
             vga == IF down > Rows - 1 THEN CMD_SCROLL(vga_buffer) ELSE vga_buffer
  <2>3. w = [vga |-> vga, x |-> col, y |-> row, reads |-> reads]
    BY <1>1 DEF Wrapped, Wraps
  <2>4. w.vga = vga /\ w.x = col /\ w.y = row /\ w.reads = reads
    BY <2>3
  <2>5. \/ /\ c = NL
           /\ x' = col /\ y' = row /\ vga_buffer' = vga
           /\ UNCHANGED reads
        \/ /\ c = SETCLR
           /\ x' = col /\ y' = row /\ vga_buffer' = vga
           /\ reads' = "color"
        \/ /\ c = BS
           /\ LET b == Back(col, row) IN
                 /\ x' = b.x /\ y' = b.y
                 /\ vga_buffer' = CMD_SET(vga, b.x + b.y * Columns, SP)
           /\ UNCHANGED reads
        \/ /\ c \notin {NL, SETCLR, BS}
           /\ x' = col + 1 /\ y' = row
           /\ vga_buffer' = CMD_SET(vga, col + row * Columns, c)
           /\ UNCHANGED reads
    BY <2>1 DEF Show
  <2> HIDE DEF w, s, col, row, down, vga
  <2>6. ASSUME c = NL PROVE Screen' = Draw(c, s)
    BY <1>3, <2>2, <2>3, <2>5, <2>6, CharactersAssumption DEF Put
  <2>7. ASSUME c = SETCLR PROVE Screen' = Draw(c, s)
    BY <1>3, <2>2, <2>4, <2>5, <2>7, CharactersAssumption DEF Put
  <2>8. ASSUME c = BS PROVE Screen' = Draw(c, s)
    BY <1>3, <2>2, <2>4, <2>5, <2>8, CharactersAssumption DEF Put
  <2>9. ASSUME c \notin {NL, SETCLR, BS} PROVE Screen' = Draw(c, s)
    BY <1>3, <2>2, <2>4, <2>5, <2>9 DEF Put
  <2>10. Screen' = Draw(c, s)
    BY <2>6, <2>7, <2>8, <2>9
  <2> QED BY <2>10 DEF s
<1> QED BY <1>2, <1>4, <1>5

(* More output behind what has been written.                                *)
LEMMA More ==
    ASSUME Coupled, NEW e, Leads(Screen, text \o Flat(out), e), out = <<>>,
           NEW more \in Seq(Seq(Chars)), NEW f, Leads(e, Flat(more), f)
    PROVE  Leads(Screen, text \o Flat(more), f)
<1>1. text \in Seq(Chars)
  BY DEF Coupled
<1>2. text \o Flat(out) = text
  BY <1>1, FlatNone, ConcatEmptySeq
<1>3. Flat(more) \in Seq(Chars)
  BY FlatTyped
<1> QED BY <1>1, <1>2, <1>3, LeadsThen

(* The prompt is drawn as it is written.                                    *)
LEMMA PromptIs ==
    /\ Prompt \in Seq(Seq(Chars)) /\ Flat(Prompt) \in Seq(Glyphs) /\ Flat(Prompt) \in Seq(Chars)
    /\ Len(Flat(Prompt)) \in Nat
    /\ \A i \in DOMAIN Prompt : Len(Prompt[i]) \in WriteLengths
<1>1. Prompt \in Seq(Seq(Glyphs)) /\ \A i \in DOMAIN Prompt : Len(Prompt[i]) \in WriteLengths
  BY WritingAssumption
<1>2. Flat(Prompt) \in Seq(Glyphs)
  BY <1>1, FlatTyped
<1>3. Seq(Glyphs) \subseteq Seq(Chars)
  <2>1. Glyphs \subseteq Chars
    BY DEF Chars
  <2> QED BY <2>1
<1>4. Prompt \in Seq(Seq(Chars))
  <2> DEFINE A == Seq(Glyphs)
             B == Seq(Chars)
  <2>1. A \subseteq B /\ Prompt \in Seq(A)
    BY <1>1, <1>3
  <2> HIDE DEF A, B
  <2>2. Prompt \in Seq(B)
    BY <2>1
  <2> QED BY <2>2 DEF B
<1>5. Flat(Prompt) \in Seq(Chars)
  BY <1>2, <1>3
<1> QED BY <1>1, <1>2, <1>4, <1>5

-----------------------------------------------------------------------------

(* Chunks of the lengths asked for, behind others.                          *)
LEMMA LengthsJoin ==
    ASSUME NEW T, NEW a \in Seq(T), NEW b \in Seq(T), NEW W,
           \A i \in DOMAIN a : Len(a[i]) \in W, \A i \in DOMAIN b : Len(b[i]) \in W
    PROVE  \A i \in DOMAIN (a \o b) : Len((a \o b)[i]) \in W
<1> DEFINE m == Len(a)
           n == Len(b)
           all == a \o b
<1>1. /\ m \in Nat /\ n \in Nat /\ DOMAIN a = 1 .. m /\ DOMAIN b = 1 .. n
      /\ DOMAIN all = 1 .. m + n
      /\ \A i \in 1 .. m : all[i] = a[i]
      /\ \A i \in m + 1 .. m + n : all[i] = b[i - m]
  OBVIOUS
<1> HIDE DEF m, n, all
<1>2. ASSUME NEW i \in 1 .. m + n PROVE Len(all[i]) \in W
  <2>1. CASE i \in 1 .. m
    BY <1>1, <2>1
  <2>2. CASE i \in m + 1 .. m + n
    <3>1. i - m \in 1 .. n
      BY <1>1, <2>2
    <3> QED BY <1>1, <2>2, <3>1
  <2> QED BY <1>1, <2>1, <2>2
<1> QED BY <1>1, <1>2 DEF all

(* The chunks the shell still writes, and their lengths.                    *)
Chunks == out \in Seq(Seq(Chars)) /\ \A i \in DOMAIN out : Len(out[i]) \in WriteLengths

(* What a command writes, and the prompt.                                   *)
LEMMA RunChunks == Chunks /\ Run => Chunks'
<1> SUFFICES ASSUME Run PROVE Chunks'
  OBVIOUS
<1>1. CASE out' = Prompt
  BY <1>1, PromptIs DEF Chunks
<1>2. ASSUME NEW w \in Outputs, out' = w \o <<<<NL>>>> \o Prompt PROVE Chunks'
  <2> DEFINE T == Seq(Chars)
             nl == <<<<NL>>>>
             u == w \o nl
  <2>1. w \in Seq(T) /\ \A i \in DOMAIN w : Len(w[i]) \in WriteLengths
    BY WritingAssumption
  <2>2. nl \in Seq(T) /\ DOMAIN nl = {1} /\ Len(nl[1]) = 1
    BY DEF Chars
  <2>3. \A i \in DOMAIN nl : Len(nl[i]) \in WriteLengths
    BY <2>2, WritingAssumption
  <2>4. out' = (w \o nl) \o Prompt
    BY <1>2
  <2> HIDE DEF T, nl
  <2>5. u \in Seq(T) /\ \A i \in DOMAIN u : Len(u[i]) \in WriteLengths
    <3>1. \A i \in DOMAIN (w \o nl) : Len((w \o nl)[i]) \in WriteLengths
      BY <2>1, <2>2, <2>3, LengthsJoin
    <3>2. w \o nl \in Seq(T)
      BY <2>1, <2>2, ConcatProperties
    <3> QED BY <3>1, <3>2
  <2>6. Prompt \in Seq(T) /\ \A i \in DOMAIN Prompt : Len(Prompt[i]) \in WriteLengths
    BY PromptIs DEF T
  <2>7. out' = u \o Prompt
    BY <2>4
  <2> HIDE DEF u
  <2>8. \A i \in DOMAIN (u \o Prompt) : Len((u \o Prompt)[i]) \in WriteLengths
    BY <2>5, <2>6, LengthsJoin
  <2>9. u \o Prompt \in Seq(T)
    BY <2>5, <2>6, ConcatProperties
  <2> QED BY <2>7, <2>8, <2>9 DEF Chunks, T
<1> QED BY <1>1, <1>2 DEF Run

(* The first chunk is written.                                             *)
LEMMA TailChunks == Chunks /\ out # <<>> /\ out' = Tail(out) => Chunks'
<1> SUFFICES ASSUME Chunks, out # <<>>, out' = Tail(out) PROVE Chunks'
  OBVIOUS
<1> DEFINE T == Seq(Chars)
<1>1. out \in Seq(T) /\ Len(out) \in Nat /\ Len(out) > 0 /\ DOMAIN out = 1 .. Len(out)
  BY DEF Chunks
<1>2. \A i \in DOMAIN out : Len(out[i]) \in WriteLengths
  BY DEF Chunks
<1> HIDE DEF T
<1>3. /\ Tail(out) \in Seq(T) /\ Len(Tail(out)) = Len(out) - 1
      /\ \A i \in 1 .. Len(Tail(out)) : Tail(out)[i] = out[i + 1]
  BY <1>1, HeadTailProperties
<1>4. DOMAIN Tail(out) = 1 .. Len(Tail(out))
  BY <1>3
<1>5. \A i \in 1 .. Len(out) - 1 : i + 1 \in 1 .. Len(out)
  BY <1>1
<1>6. \A i \in DOMAIN Tail(out) : Len(Tail(out)[i]) \in WriteLengths
  BY <1>1, <1>2, <1>3, <1>4, <1>5
<1> QED BY <1>3, <1>6 DEF Chunks, T

(* The echo of a character.                                                *)
LEMMA EchoChunks == ASSUME NEW c \in Chars, out' = <<<<c>>>> PROVE Chunks'
<1>1. <<c>> \in Seq(Chars) /\ <<<<c>>>> \in Seq(Seq(Chars)) /\ Len(<<c>>) = 1
  OBVIOUS
<1>2. DOMAIN out' = {1} /\ out'[1] = <<c>>
  OBVIOUS
<1> QED BY <1>1, <1>2, WritingAssumption DEF Chunks

-----------------------------------------------------------------------------

(* The invariant.                                                           *)
SInv == Inv /\ Coupled /\ Drawing

(* A step that leaves the text, the screen, the shell and the calls alone.  *)
LEMMA Untouched ==
    ASSUME SInv, UNCHANGED <<text, screen, shellvars, pos>>, UNCHANGED call
    PROVE  Coupled' /\ Drawing'
<1>1. Coupled'
  BY DEF SInv, Coupled, screen, shellvars, Idle, Reading
<1>2. PICK e : Leads(Screen, text \o Flat(out), e) /\ Ready(e, Shown)
  BY DEF SInv, Drawing
<1>3. Screen' = Screen /\ text' = text /\ out' = out /\ Shown' = Shown
  BY DEF Screen, screen, shellvars, Shown
<1>4. Leads(Screen', text' \o Flat(out'), e) /\ Ready(e, Shown')
  BY <1>2, <1>3
<1> QED BY <1>1, <1>4, DrawingNext

(* The text, the screen and the shell at first.                             *)
LEMMA SInvInit == SInit => SInv
<1> SUFFICES ASSUME SInit PROVE SInv
  OBVIOUS
<1>1. Init
  BY DEF SInit, CInit, TInit
<1>2. Inv
  BY <1>1, InvInit
<1>3. /\ text = <<>> /\ vga_buffer = Blank /\ x = 0 /\ y = 0 /\ reads = "char"
      /\ pc = "off" /\ out = <<>> /\ line = <<>> /\ pos = 0
      /\ call = [t \in Tasks |-> Idle]
  BY DEF SInit, CInit, TInit, Init
<1>4. call[tty] = Idle /\ call[sh] = Idle
  BY <1>3, TerminalAssumption, ConsoleAssumption
<1>5. Coupled
  <2>1. text \in Seq(Chars) /\ line \in Seq(Glyphs) /\ Len(text) = pos
    BY <1>3
  <2>2. out \in Seq(Seq(Chars)) /\ \A i \in DOMAIN out : Len(out[i]) \in WriteLengths
    BY <1>3
  <2> QED BY <1>3, <1>4, <2>1, <2>2 DEF Coupled
<1>6. Screen = [vga |-> Blank, x |-> 0, y |-> 0, reads |-> "char"]
  BY <1>3 DEF Screen
<1>7. Clean(Screen, "char") /\ At(Screen) = 0
  <2>1. Blank \in [Cells -> Glyphs]
    BY ConsoleAssumption DEF Blank
  <2>2. Columns \in Nat \ {0} /\ Rows \in Nat \ {0}
    BY WholeIs
  <2>3. 0 \in 0 .. Columns /\ 0 \in 0 .. Rows - 1 /\ 0 * Columns = 0
    BY <2>2
  <2>4. Screen \in Screens
    BY <1>6, <2>1, <2>3 DEF Screens
  <2>5. \A c \in Cells : Screen.vga[c] = SP
    BY <1>6 DEF Blank
  <2> QED BY <1>6, <2>3, <2>4, <2>5 DEF Clean, BlankBehind, At
<1>8. Ready(Screen, <<>>)
  <2>1. 0 \in RowStarts
    <3>1. 0 * Columns = 0 /\ 0 \in Nat
      BY WholeIs
    <3> QED BY <3>1 DEF RowStarts
  <2> QED BY <1>7, <2>1 DEF Ready
<1>9. Leads(Screen, text \o Flat(out), Screen)
  <2>1. text \o Flat(out) = <<>>
    BY <1>3, FlatNone
  <2> QED BY <1>7, <2>1, LeadsNone DEF Clean
<1>10. Shown = <<>>
  BY <1>3 DEF Shown
<1>11. Drawing
  BY <1>8, <1>9, <1>10 DEF Drawing
<1> QED BY <1>2, <1>5, <1>11 DEF SInv

(* While the system starts, streams are opened and no more.                 *)
LEMMA BootingKeeps == SInv /\ Booting(BNext) => SInv'
<1> SUFFICES ASSUME SInv, Booting(BNext) PROVE SInv'
  OBVIOUS
<1>1. Opening /\ UNCHANGED <<text, screen, shellvars>>
  BY DEF Booting
<1>2. tty \in Tasks /\ sh \in Tasks
  BY TerminalAssumption, ConsoleAssumption
<1>3. \/ ramfs_fifo_open(tty, {"FM_READ", "FM_WRITE"})
      \/ ramfs_fifo_open(sh, {"FM_WRITE"})
      \/ UNCHANGED vars
  BY <1>1 DEF Opening
<1>4. UNCHANGED call /\ UNCHANGED pos
  BY <1>3 DEF ramfs_fifo_open, vars, data
<1>5. [Next]_vars
  <2>1. /\ {"FM_READ", "FM_WRITE"} \in (SUBSET Modes) \ {{}}
        /\ {"FM_WRITE"} \in (SUBSET Modes) \ {{}}
    BY DEF Modes
  <2> QED BY <1>2, <1>3, <2>1 DEF Next
<1>6. Inv'
  BY <1>5, InvStep DEF SInv
<1> QED BY <1>1, <1>4, <1>6, Untouched DEF SInv

(* The shell starts: its prompt is what it writes first.                    *)
LEMMA StartKeeps == SInv /\ LineFits' /\ ShellStarts => SInv'
<1> SUFFICES ASSUME SInv, LineFits', ShellStarts PROVE SInv'
  OBVIOUS
<1>1. /\ pc = "off" /\ pc' = "getln" /\ out' = Prompt
      /\ UNCHANGED <<tvars, shell, line, command>>
  BY DEF ShellStarts, Start
<1>2. UNCHANGED <<vars, text, screen>>
  BY <1>1 DEF tvars
<1>3. Inv'
  BY <1>2, InvStep DEF SInv
<1>4. out = <<>> /\ line = <<>> /\ call[sh] = Idle
  BY <1>1 DEF SInv, Coupled
<1>5. call' = call /\ pos' = pos /\ text' = text /\ line' = line
  BY <1>1, <1>2 DEF vars, data
<1>6. Coupled'
  BY <1>1, <1>4, <1>5, PromptIs DEF SInv, Coupled, Idle, Reading
<1>7. PICK e : Leads(Screen, text \o Flat(out), e) /\ Ready(e, <<>>)
  BY <1>1 DEF SInv, Drawing, Shown
<1>8. Flat(Prompt) \in Seq(Glyphs) /\ Len(Flat(Prompt)) <= Whole
  <2>1. Len(Flat(Prompt)) + Len(line') < Columns * Rows
    BY DEF LineFits
  <2>2. Len(Flat(Prompt)) + 0 < Whole
    BY <1>4, <1>5, <2>1 DEF Whole
  <2> QED BY <2>2, PromptIs, WholeIs
<1>9. PICK f : Leads(e, Flat(Prompt), f) /\ Ready(f, Flat(Prompt))
  BY <1>7, <1>8, TextLeads
<1>10. Leads(Screen, text \o Flat(Prompt), f)
  BY <1>4, <1>7, <1>9, More, PromptIs DEF SInv
<1>11. Flat(Prompt) \o <<>> = Flat(Prompt)
  BY <1>8, ConcatEmptySeq
<1>12. Shown' = Flat(Prompt) /\ Screen' = Screen
  BY <1>1, <1>2, <1>4, <1>11 DEF Shown, Screen, screen
<1>13. Drawing'
  BY <1>1, <1>5, <1>9, <1>10, <1>12, DrawingNext
<1> QED BY <1>3, <1>6, <1>13 DEF SInv

(* A character at the end of a sequence behind another.                     *)
LEMMA LastAdds ==
    ASSUME NEW S, NEW p \in Seq(S), NEW q \in Seq(S), NEW c \in S
    PROVE  p \o Append(q, c) = Append(p \o q, c)
<1> DEFINE l == p \o Append(q, c)
           r == Append(p \o q, c)
<1>1. l \in Seq(S) /\ r \in Seq(S) /\ Len(l) = Len(r)
  OBVIOUS
<1>2. \A i \in 1 .. Len(l) : l[i] = r[i]
  OBVIOUS
<1> QED BY <1>1, <1>2, SeqEqual

(* The last element of a sequence behind another goes.                      *)
LEMMA LastDrops ==
    ASSUME NEW S, NEW p \in Seq(S), NEW q \in Seq(S), q # <<>>
    PROVE  /\ p \o q # <<>>
           /\ SubSeq(p \o q, 1, Len(p \o q) - 1) = p \o SubSeq(q, 1, Len(q) - 1)
<1> DEFINE m == Len(p)
           n == Len(q)
           all == p \o q
           rest == SubSeq(q, 1, n - 1)
           l == SubSeq(all, 1, Len(all) - 1)
           r == p \o rest
<1>1. /\ m \in Nat /\ n \in Nat /\ n > 0 /\ Len(all) = m + n /\ all \in Seq(S)
      /\ \A i \in 1 .. m : all[i] = p[i]
      /\ \A i \in m + 1 .. m + n : all[i] = q[i - m]
  OBVIOUS
<1>2. /\ rest \in Seq(S) /\ Len(rest) = n - 1
      /\ \A i \in 1 .. n - 1 : rest[i] = q[i]
  <2>1. 1 \in 1 .. n + 1 /\ n - 1 \in 0 .. n
    BY <1>1
  <2>2. /\ rest \in Seq(S)
        /\ Len(rest) = IF 1 <= n - 1 THEN (n - 1) - 1 + 1 ELSE 0
        /\ \A i \in 1 .. (n - 1) - 1 + 1 : rest[i] = q[1 + i - 1]
    BY <2>1, SubSeqProperties
  <2> HIDE DEF rest, n
  <2>3. \A i \in 1 .. n - 1 : i \in 1 .. (n - 1) - 1 + 1 /\ 1 + i - 1 = i
    BY <1>1
  <2> QED BY <1>1, <2>2, <2>3
<1>3. /\ l \in Seq(S) /\ Len(l) = m + n - 1
      /\ \A i \in 1 .. m + n - 1 : l[i] = all[i]
  <2> HIDE DEF all
  <2> QED BY <1>1
<1>4. /\ r \in Seq(S) /\ Len(r) = m + (n - 1)
      /\ \A i \in 1 .. m : r[i] = p[i]
      /\ \A i \in m + 1 .. m + (n - 1) : r[i] = rest[i - m]
  <2> HIDE DEF rest, n
  <2> QED BY <1>1, <1>2
<1> HIDE DEF m, n, rest, l, r
<1>5. \A i \in 1 .. m + n - 1 : l[i] = r[i]
  <2> HIDE DEF all
  <2> TAKE i \in 1 .. m + n - 1
  <2>1. CASE i \in 1 .. m
    BY <1>1, <1>3, <1>4, <2>1
  <2>2. CASE i \in m + 1 .. m + n - 1
    <3>1. i - m \in 1 .. n - 1 /\ i \in m + 1 .. m + (n - 1) /\ i \in m + 1 .. m + n
      BY <1>1, <2>2
    <3>2. l[i] = q[i - m] /\ r[i] = rest[i - m]
      BY <1>1, <1>3, <1>4, <3>1
    <3> QED BY <1>2, <3>1, <3>2
  <2> QED BY <1>1, <2>1, <2>2
<1>6. l = r
  <2>1. Len(l) = Len(r) /\ \A i \in 1 .. Len(l) : l[i] = r[i]
    BY <1>1, <1>3, <1>4, <1>5
  <2> QED BY <1>3, <1>4, <2>1, SeqEqual
<1>7. all # <<>>
  BY <1>1
<1> QED BY <1>6, <1>7 DEF l, r, m, n, rest

(* One character.                                                           *)
LEMMA LeadsOne ==
    ASSUME NEW c \in Chars, NEW e \in Screens, Draw(c, e) \in Screens
    PROVE  Leads(e, <<c>>, Draw(c, e))
<1>1. Leads(e, <<>>, e)
  BY LeadsNone
<1>2. <<>> \in Seq(Chars) /\ Append(<<>>, c) = <<c>>
  OBVIOUS
<1> QED BY <1>1, <1>2, LeadsOn

(* A key: its echo is written, and drawn it shows the line as it is then.   *)
LEMMA KeyKeeps == SInv /\ LineFits /\ LineFits' /\ Key => SInv'
<1> SUFFICES ASSUME SInv, LineFits, LineFits', Key PROVE SInv'
  OBVIOUS
<1> DEFINE p == Flat(Prompt)
<1>1. PICK char \in Letters \cup {NL, BS} : getln(char)
  BY DEF Key
<1>2. pc = "getln" /\ out = <<>> /\ UNCHANGED <<vars, text, screen>>
  BY <1>1 DEF getln, AtPrompt, tvars
<1>3. Inv'
  BY <1>2, InvStep DEF SInv
<1>4. call' = call /\ pos' = pos /\ text' = text /\ Screen' = Screen /\ call[sh] = Idle
  BY <1>2 DEF vars, data, Screen, screen, SInv, Coupled
<1>5. PICK e : Leads(Screen, text \o Flat(out), e) /\ Ready(e, p \o line)
  BY <1>2 DEF SInv, Drawing, Shown
<1>6. p \in Seq(Glyphs) /\ line \in Seq(Glyphs) /\ text \in Seq(Chars) /\ e \in Screens
  <2>1. e \in Screens
    BY <1>5 DEF Ready, Clean
  <2> QED BY <2>1, PromptIs DEF SInv, Coupled
<1>7. p \o line \in Seq(Glyphs) /\ Len(p \o line) = Len(p) + Len(line) /\ Len(p \o line) < Whole
  <2>1. p \o line \in Seq(Glyphs) /\ Len(p \o line) = Len(p) + Len(line)
    BY <1>6, ConcatProperties
  <2> QED BY <2>1 DEF LineFits, Whole
<1> HIDE DEF p
(* What is left to show: the new screen once the echo c is drawn.           *)
<1>8. ASSUME NEW c \in Chars, out' = <<<<c>>>>, line' \in Seq(Glyphs), pc' \in {"getln", "run"},
             Ready(Draw(c, e), IF pc' = "getln" THEN p \o line' ELSE <<>>)
      PROVE  SInv'
  <2>1. <<c>> \in Seq(Chars) /\ <<<<c>>>> \in Seq(Seq(Chars)) /\ Len(<<c>>) = 1
    OBVIOUS
  <2>2. Flat(<<<<c>>>>) = <<c>>
    BY <2>1, FlatOne
  <2>3. Draw(c, e) \in Screens
    BY <1>8 DEF Ready, Clean
  <2>4. Leads(e, <<c>>, Draw(c, e))
    BY <1>6, <2>3, LeadsOne
  <2>5. Leads(Screen, text \o Flat(<<<<c>>>>), Draw(c, e))
    BY <1>2, <1>5, <2>1, <2>2, <2>4, More DEF SInv
  <2>6. Leads(Screen', text' \o Flat(out'), Draw(c, e))
    BY <1>4, <1>8, <2>5
  <2>7. Shown' = IF pc' = "getln" THEN p \o line' ELSE <<>>
    BY DEF Shown, p
  <2>8. Drawing'
    BY <1>8, <2>6, <2>7, DrawingNext
  <2>9. out' \in Seq(Seq(Chars)) /\ \A i \in DOMAIN out' : Len(out'[i]) \in WriteLengths
    BY <1>8, EchoChunks DEF Chunks
  <2>10. Coupled'
    BY <1>4, <1>8, <2>9 DEF SInv, Coupled, Idle, Reading
  <2> QED BY <1>3, <2>8, <2>10 DEF SInv
<1>9. Clean(e, "char")
  BY <1>5 DEF Ready
<1>10. CASE char = NL
  <2>1. pc' = "run" /\ out' = <<<<NL>>>> /\ line' = line
    BY <1>1, <1>10, CharactersAssumption DEF getln
  <2>2. Ready(Draw(NL, e), <<>>)
    BY <1>9, NewlineStep
  <2> QED BY <1>6, <1>8, <2>1, <2>2 DEF Chars
<1>11. CASE char = BS
  <2>1. getln_backspace /\ pc' = pc
    BY <1>1, <1>11, CharactersAssumption DEF getln
  <2>2. CASE line = <<>>
    <3>1. line' = line /\ out' = out
      BY <2>1, <2>2 DEF getln_backspace
    <3>2. UNCHANGED <<shell, command>>
      BY <1>1 DEF getln
    <3>3. UNCHANGED <<text, screen, shellvars, pos>> /\ UNCHANGED call
      BY <1>2, <1>4, <2>1, <3>1, <3>2 DEF shellvars
    <3> QED BY <1>3, <3>3, Untouched DEF SInv
  <2>3. CASE line # <<>>
    <3> DEFINE short == SubSeq(line, 1, Len(line) - 1)
    <3>1. line' = short /\ out' = <<<<BS>>>>
      BY <2>1, <2>3 DEF getln_backspace
    <3>2. short \in Seq(Glyphs)
      BY <1>6, <2>3
    <3>3. p \o line # <<>> /\ SubSeq(p \o line, 1, Len(p \o line) - 1) = p \o short
      BY <1>6, <2>3, LastDrops
    <3>4. Ready(Draw(BS, e), p \o short)
      BY <1>5, <1>7, <3>3, BackStep
    <3> QED BY <1>2, <1>8, <2>1, <3>1, <3>2, <3>4 DEF Chars
  <2> QED BY <2>2, <2>3
<1>12. CASE char \notin {NL, BS}
  <2>1. line' = Append(line, char) /\ out' = <<<<char>>>> /\ pc' = pc
    BY <1>1, <1>12 DEF getln
  <2>2. char \in Glyphs /\ char \in Chars
    BY <1>12, ConsoleAssumption DEF Chars
  <2>3. p \o Append(line, char) = Append(p \o line, char)
    BY <1>6, <2>2, LastAdds
  <2>4. Ready(Draw(char, e), p \o Append(line, char))
    BY <1>5, <1>7, <2>2, <2>3, GlyphStep
  <2>5. Append(line, char) \in Seq(Glyphs)
    BY <1>6, <2>2
  <2> QED BY <1>2, <1>8, <2>1, <2>2, <2>4, <2>5
<1> QED BY <1>10, <1>11, <1>12

(* The line is run: what the command writes, and the next prompt.           *)
LEMMA RunKeeps == SInv /\ LineFits' /\ Run => SInv'
<1> SUFFICES ASSUME SInv, LineFits', Run PROVE SInv'
  OBVIOUS
<1>1. pc = "run" /\ out = <<>> /\ pc' = "getln" /\ line' = <<>> /\ UNCHANGED tvars
  BY DEF Run
<1>2. UNCHANGED vars /\ UNCHANGED screen /\ text' = text
  BY <1>1 DEF tvars
<1>3. Inv'
  BY <1>2, InvStep DEF SInv
<1>4. call' = call /\ pos' = pos /\ Screen' = Screen /\ call[sh] = Idle
  BY <1>1, <1>2 DEF vars, data, Screen, screen, SInv, Coupled
<1>5. PICK e : Leads(Screen, text \o Flat(out), e) /\ Ready(e, <<>>)
  BY <1>1 DEF SInv, Drawing, Shown
<1>6. Len(Flat(Prompt)) <= Whole
  <2>1. Len(Flat(Prompt)) + Len(line') < Columns * Rows
    BY DEF LineFits
  <2>2. Len(Flat(Prompt)) + 0 < Whole
    BY <1>1, <2>1 DEF Whole
  <2> QED BY <2>2, PromptIs, WholeIs
<1>7. Shown' = Flat(Prompt)
  <2>1. Flat(Prompt) \o <<>> = Flat(Prompt)
    BY PromptIs, ConcatEmptySeq
  <2> QED BY <1>1, <2>1 DEF Shown
<1>8. ASSUME out' \in Seq(Seq(Chars)), \A i \in DOMAIN out' : Len(out'[i]) \in WriteLengths,
             NEW f, Leads(e, Flat(out'), f), Ready(f, Flat(Prompt))
      PROVE  SInv'
  <2>1. Leads(Screen, text \o Flat(out'), f)
    BY <1>1, <1>5, <1>8, More DEF SInv
  <2>2. Drawing'
    BY <1>2, <1>4, <1>7, <1>8, <2>1, DrawingNext
  <2>3. Coupled'
    BY <1>1, <1>2, <1>4, <1>8 DEF SInv, Coupled, Idle, Reading
  <2> QED BY <1>3, <2>2, <2>3 DEF SInv
<1>9. CASE out' = Prompt
  <2>1. \E f : Leads(e, Flat(Prompt), f) /\ Ready(f, Flat(Prompt))
    BY <1>5, <1>6, TextLeads, PromptIs
  <2> QED BY <1>8, <1>9, <2>1, PromptIs
<1>10. ASSUME NEW w \in Outputs, out' = w \o <<<<NL>>>> \o Prompt PROVE SInv'
  <2> DEFINE T == Seq(Chars)
             nl == <<<<NL>>>>
  <2>1. w \in Seq(T) /\ Plain(Flat(w)) /\ \A i \in DOMAIN w : Len(w[i]) \in WriteLengths
    BY WritingAssumption
  <2>2. nl \in Seq(T) /\ Len(nl) = 1 /\ nl[1] = <<NL>> /\ <<NL>> \in T /\ Len(<<NL>>) = 1
    BY DEF Chars
  <2>3. Prompt \in Seq(T) /\ Flat(Prompt) \in T /\ Flat(w) \in T
    BY <2>1, PromptIs, FlatTyped
  <2>4. Flat(nl) = <<NL>>
    BY <2>2, FlatOne
  <2> HIDE DEF nl
  <2>5. w \o nl \in Seq(T) /\ Flat(w \o nl) = Flat(w) \o <<NL>>
    <3>1. Flat(w \o nl) = Flat(w) \o Flat(nl)
      BY <2>1, <2>2, FlatJoin
    <3> HIDE DEF T
    <3>2. w \o nl \in Seq(T)
      BY <2>1, <2>2, ConcatProperties
    <3> QED BY <2>4, <3>1, <3>2
  <2>6. (w \o nl) \o Prompt \in Seq(T)
        /\ Flat((w \o nl) \o Prompt) = (Flat(w) \o <<NL>>) \o Flat(Prompt)
    <3>1. Flat((w \o nl) \o Prompt) = Flat(w \o nl) \o Flat(Prompt)
      BY <2>3, <2>5, FlatJoin
    <3> HIDE DEF T
    <3>2. (w \o nl) \o Prompt \in Seq(T)
      BY <2>3, <2>5, ConcatProperties
    <3> QED BY <2>5, <3>1, <3>2
  <2>7. out' = (w \o nl) \o Prompt
    BY <1>10 DEF nl
  <2>8. \A i \in DOMAIN out' : Len(out'[i]) \in WriteLengths
    BY RunChunks DEF SInv, Coupled, Chunks
  <2>9. PICK e1 : Leads(e, Flat(w), e1) /\ Clean(e1, "char")
    BY <1>5, <2>1, <2>3, OutputLeads DEF Ready
  <2>10. Leads(e1, <<NL>>, Draw(NL, e1)) /\ Ready(Draw(NL, e1), <<>>)
    <3>1. Ready(Draw(NL, e1), <<>>)
      BY <2>9, NewlineStep
    <3>2. e1 \in Screens /\ Draw(NL, e1) \in Screens /\ NL \in Chars
      BY <2>9, <3>1 DEF Ready, Clean, Chars
    <3> QED BY <3>1, <3>2, LeadsOne
  <2>11. PICK f : Leads(Draw(NL, e1), Flat(Prompt), f) /\ Ready(f, Flat(Prompt))
    BY <1>6, <2>10, TextLeads, PromptIs
  <2>12. Leads(e, Flat(w) \o <<NL>>, Draw(NL, e1)) /\ Flat(w) \o <<NL>> \in Seq(Chars)
    <3>1. Flat(w) \o <<NL>> \in Seq(Chars)
      BY <2>2, <2>3, ConcatProperties
    <3> QED BY <2>2, <2>3, <2>9, <2>10, <3>1, LeadsThen
  <2>13. Leads(e, (Flat(w) \o <<NL>>) \o Flat(Prompt), f)
    BY <2>3, <2>11, <2>12, LeadsThen
  <2>14. Flat(out') = (Flat(w) \o <<NL>>) \o Flat(Prompt) /\ out' \in Seq(Seq(Chars))
    BY <2>6, <2>7
  <2>15. Leads(e, Flat(out'), f)
    BY <2>13, <2>14
  <2> QED BY <1>8, <2>8, <2>11, <2>14, <2>15
<1> QED BY <1>9, <1>10 DEF Run

-----------------------------------------------------------------------------
(* A chunk goes from the shell's hands into the FIFO.                       *)
LEMMA OutputKeeps == SInv /\ pc # "off" /\ Output => SInv'
<1> SUFFICES ASSUME SInv, pc # "off", Output PROVE SInv'
  OBVIOUS
<1>1. /\ UNCHANGED screen
      /\ call \in [Tasks -> Calls] /\ sh \in Tasks /\ tty \in Tasks /\ sh # tty
  BY TerminalAssumption, ConsoleAssumption
  DEF SInv, Inv, CallTypes, Output, PutChunk, ChunkPut, ChunkWaits, Writes, Written, WriteWaits
<1>2. /\ text \in Seq(Chars) /\ Len(text) = pos
      /\ out \in Seq(Seq(Chars)) /\ \A i \in DOMAIN out : Len(out[i]) \in WriteLengths
  BY DEF SInv, Coupled
<1>3. CASE PutChunk
  <2> DEFINE w == [op |-> "write", length |-> Len(Head(out))]
  <2>1. out # <<>> /\ Begin(sh, w) /\ UNCHANGED <<text, screen, shellvars>>
    BY <1>3 DEF PutChunk, Writes
  <2>2. Len(Head(out)) \in WriteLengths
    BY <1>2, <2>1
  <2>3. w \in Calls \ {Idle}
    BY <2>2 DEF Calls, Idle
  <2>4. Inv'
    <3>1. [Next]_vars
      BY <1>1, <2>1, <2>3 DEF Next
    <3> QED BY <3>1, InvStep DEF SInv
  <2>5. call' = [call EXCEPT ![sh] = w] /\ pos' = pos
    BY <2>1 DEF Begin, data
  <2>6. call'[sh] = w /\ call'[tty] = call[tty]
    BY <1>1, <2>5
  <2>7. Coupled'
    BY <2>1, <2>5, <2>6 DEF SInv, Coupled, shellvars, Idle, Reading
  <2>8. PICK e : Leads(Screen, text \o Flat(out), e) /\ Ready(e, Shown)
    BY DEF SInv, Drawing
  <2>9. Screen' = Screen /\ text' = text /\ out' = out /\ Shown' = Shown
    BY <2>1 DEF Screen, screen, shellvars, Shown
  <2>10. Drawing'
    BY <2>8, <2>9, DrawingNext
  <2> QED BY <2>4, <2>7, <2>10 DEF SInv
<1>4. CASE ChunkPut
  <2>1. /\ out # <<>> /\ ramfs_fifo_write(sh) /\ text' = text \o Head(out) /\ UNCHANGED screen
        /\ out' = Tail(out) /\ UNCHANGED <<shell, pc, line, command>>
    BY <1>4 DEF ChunkPut, Written
  <2>2. Inv'
    <3>1. [Next]_vars
      BY <1>1, <2>1 DEF Next, Try
    <3> QED BY <3>1, InvStep DEF SInv
  <2>3. call[sh].op = "write" /\ pos' = pos + call[sh].length /\ call' = [call EXCEPT ![sh] = Idle]
    BY <2>1 DEF ramfs_fifo_write, Return
  <2>4. call[sh] = [op |-> "write", length |-> Len(Head(out))]
    BY <2>3 DEF SInv, Coupled, Idle
  <2>5. call'[sh] = Idle /\ call'[tty] = call[tty] /\ pos' = pos + Len(Head(out))
    BY <1>1, <2>3, <2>4
  <2>6. /\ Head(out) \in Seq(Chars) /\ Tail(out) \in Seq(Seq(Chars))
        /\ Flat(out) = Head(out) \o Flat(Tail(out)) /\ Flat(Tail(out)) \in Seq(Chars)
    BY <1>2, <2>1, FlatFirst, FlatTyped
  <2>7. text' \in Seq(Chars) /\ Len(text') = pos'
    BY <1>2, <2>1, <2>5, <2>6, ConcatProperties
  <2>8. \A i \in DOMAIN out' : Len(out'[i]) \in WriteLengths
    BY <2>1, TailChunks DEF SInv, Coupled, Chunks
  <2>9. Coupled'
    BY <2>1, <2>5, <2>6, <2>7, <2>8 DEF SInv, Coupled, Idle, Reading
  <2>10. PICK e : Leads(Screen, text \o Flat(out), e) /\ Ready(e, Shown)
    BY DEF SInv, Drawing
  <2>11. Screen' = Screen /\ Shown' = Shown
    BY <2>1 DEF Screen, screen, Shown
  <2>12. text' \o Flat(out') = text \o Flat(out)
    <3> DEFINE h == Head(out)
               r == Flat(Tail(out))
    <3>1. Regroups(Chars)
      BY Regroup
    <3>2. h \in Seq(Chars) /\ r \in Seq(Chars) /\ text \in Seq(Chars)
      BY <1>2, <2>6
    <3> HIDE DEF h, r
    <3>3. (text \o h) \o r = text \o (h \o r)
      BY <3>1, <3>2 DEF Regroups
    <3> QED BY <2>1, <2>6, <3>3 DEF h, r
  <2>13. Drawing'
    BY <2>10, <2>11, <2>12, DrawingNext
  <2> QED BY <2>2, <2>9, <2>13 DEF SInv
<1>5. CASE ChunkWaits
  <2>1. UNCHANGED vars /\ UNCHANGED <<text, screen>> /\ UNCHANGED shellvars
    BY <1>5 DEF ChunkWaits, WriteWaits, Retry
  <2>2. UNCHANGED <<text, screen, shellvars, pos>> /\ UNCHANGED call /\ Inv'
    BY <2>1, InvStep DEF vars, data, SInv
  <2> QED BY <2>2, Untouched DEF SInv
<1> QED BY <1>3, <1>4, <1>5 DEF Output

(* The first of two sequences gives the first element of both.              *)
LEMMA TailFirst ==
    ASSUME NEW S, NEW p \in Seq(S), NEW q \in Seq(S), p # <<>>
    PROVE  /\ p \o q \in Seq(S) /\ p \o q # <<>> /\ (p \o q)[1] = p[1]
           /\ Tail(p \o q) = Tail(p) \o q
<1> DEFINE l == Tail(p \o q)
           r == Tail(p) \o q
<1>1. p \o q \in Seq(S) /\ p \o q # <<>> /\ (p \o q)[1] = p[1]
  OBVIOUS
<1>2. l \in Seq(S) /\ r \in Seq(S) /\ Len(l) = Len(r)
  OBVIOUS
<1>3. \A i \in 1 .. Len(l) : l[i] = r[i]
  OBVIOUS
<1>4. l = r
  BY <1>2, <1>3, SeqEqual
<1> QED BY <1>1, <1>4

(* The driver takes the oldest character and draws it.                      *)
LEMMA TerminalKeeps == SInv /\ pc # "off" /\ TerminalStep /\ UNCHANGED shellvars => SInv'
<1> SUFFICES ASSUME SInv, TerminalStep, UNCHANGED shellvars PROVE SInv'
  OBVIOUS
<1>1. call \in [Tasks -> Calls] /\ sh \in Tasks /\ tty \in Tasks /\ sh # tty
  BY TerminalAssumption, ConsoleAssumption DEF SInv, Inv, CallTypes
<1>2. /\ text \in Seq(Chars) /\ Len(text) = pos /\ out \in Seq(Seq(Chars))
      /\ UNCHANGED <<out, line, pc>> /\ Flat(out) \in Seq(Chars)
  BY FlatTyped DEF SInv, Coupled, shellvars
<1>3. PICK e : Leads(Screen, text \o Flat(out), e) /\ Ready(e, Shown)
  BY DEF SInv, Drawing
<1>4. Shown' = Shown
  BY <1>2 DEF Shown
<1>5. CASE TerminalReads
  <2>1. Begin(tty, Reading) /\ UNCHANGED <<text, screen>>
    BY <1>5 DEF TerminalReads, Reading
  <2>2. Reading \in Calls \ {Idle}
    BY TerminalAssumption DEF Calls, Idle, Reading
  <2>3. Inv'
    <3>1. [Next]_vars
      BY <1>1, <2>1, <2>2 DEF Next
    <3> QED BY <3>1, InvStep DEF SInv
  <2>4. call' = [call EXCEPT ![tty] = Reading] /\ pos' = pos
    BY <2>1 DEF Begin, data
  <2>5. call'[tty] = Reading /\ call'[sh] = call[sh]
    BY <1>1, <2>4
  <2>6. Coupled'
    BY <1>2, <2>1, <2>4, <2>5 DEF SInv, Coupled, Idle, Reading
  <2>7. Screen' = Screen
    BY <2>1 DEF Screen, screen
  <2>8. Drawing'
    BY <1>2, <1>3, <1>4, <2>1, <2>7, DrawingNext
  <2> QED BY <2>3, <2>6, <2>8 DEF SInv
<1>6. CASE TerminalShows
  <2>1. /\ ramfs_fifo_read(tty) /\ text' = SubSeq(text, Len(Delivered) + 1, Len(text))
        /\ IF reads = "char" THEN Show(Delivered[1]) ELSE SetColor
    BY <1>6 DEF TerminalShows
  <2>2. Inv' /\ dest' = [j \in 1 .. call[tty].length |-> read + j]
    <3>1. [Next]_vars
      BY <1>1, <2>1 DEF Next, Try
    <3> QED BY <1>1, <2>1, <3>1, InvStep, ReadStep DEF SInv
  <2>3. /\ call[tty].op = "read" /\ call[tty].length <= pos /\ pos' = pos - call[tty].length
        /\ call' = [call EXCEPT ![tty] = Idle]
    BY <2>1 DEF ramfs_fifo_read, Readable, Return
  <2>4. call[tty].length = 1
    BY <2>3 DEF SInv, Coupled, Idle, Reading
  <2>5. call'[tty] = Idle /\ call'[sh] = call[sh] /\ pos' = pos - 1 /\ 1 <= pos
    BY <1>1, <2>3, <2>4
  <2>6. read \in Nat
    BY DEF SInv, Inv, DataTypes
  <2>7. Delivered = [j \in 1 .. 1 |-> text[1]]
    <3>1. dest' = [j \in 1 .. 1 |-> read + j]
      BY <2>2, <2>4
    <3>2. DOMAIN dest' = 1 .. 1 /\ \A j \in 1 .. 1 : dest'[j] - read = 1
      BY <2>6, <3>1
    <3> QED BY <3>2 DEF Delivered
  <2>8. Len(Delivered) = 1 /\ Delivered[1] = text[1]
    BY <2>7
  <2>9. text # <<>> /\ text' = Tail(text) /\ text' \in Seq(Chars) /\ Len(text') = pos'
    <3>1. text # <<>> /\ text' = SubSeq(text, 2, Len(text))
      BY <1>2, <2>1, <2>5, <2>8
    <3>2. SubSeq(text, 2, Len(text)) = Tail(text)
      BY <1>2, <3>1
    <3>3. Tail(text) \in Seq(Chars) /\ Len(Tail(text)) = Len(text) - 1
      BY <1>2, <3>1, HeadTailProperties
    <3> QED BY <1>2, <2>5, <3>1, <3>2, <3>3
  <2>10. Coupled'
    BY <1>2, <2>5, <2>9 DEF SInv, Coupled, Idle, Reading
  <2> DEFINE all == text \o Flat(out)
  <2>11. /\ all \in Seq(Chars) /\ all # <<>> /\ all[1] = text[1]
         /\ Tail(all) = Tail(text) \o Flat(out)
    BY <1>2, <2>9, TailFirst
  <2>12. Screen' = Draw(text[1], Screen)
    <3>1. Screen \in Screens
      BY <1>3, <2>11, LeadsEnds
    <3>2. IF reads = "char" THEN Show(text[1]) ELSE SetColor
      BY <2>1, <2>8
    <3> QED BY <3>1, <3>2, ShowDraws
  <2>13. Leads(Draw(all[1], Screen), Tail(all), e)
    BY <1>3, <2>11, LeadsFirst
  <2>14. Leads(Screen', text' \o Flat(out'), e)
    BY <1>2, <2>9, <2>11, <2>12, <2>13
  <2>15. Drawing'
    BY <1>3, <1>4, <2>14, DrawingNext
  <2> QED BY <2>2, <2>10, <2>15 DEF SInv
<1>7. CASE TerminalWaits
  <2>1. UNCHANGED vars /\ UNCHANGED <<text, screen>>
    BY <1>7 DEF TerminalWaits, Retry
  <2>2. UNCHANGED <<text, screen, shellvars, pos>> /\ UNCHANGED call /\ Inv'
    BY <2>1, InvStep DEF vars, data, SInv
  <2> QED BY <2>2, Untouched DEF SInv
<1> QED BY <1>5, <1>6, <1>7 DEF TerminalStep

(* Every step keeps the invariant, as long as the line fits.                *)
LEMMA SInvStep == SInv /\ LineFits /\ LineFits' /\ [SNext]_svars => SInv'
<1> SUFFICES ASSUME SInv, LineFits, LineFits', [SNext]_svars PROVE SInv'
  OBVIOUS
<1>1. CASE Booting(BNext)
  BY <1>1, BootingKeeps
<1>2. CASE ShellStarts
  BY <1>2, StartKeeps
<1>3. CASE Key
  BY <1>3, KeyKeeps
<1>4. CASE Serving(ConsoleServes)
  <2>1. pc # "off" /\ ConsoleServes
    BY <1>4 DEF Serving
  <2>2. Output \/ Run \/ (TerminalStep /\ UNCHANGED shellvars)
    BY <2>1 DEF ConsoleServes
  <2> QED BY <2>1, <2>2, OutputKeeps, RunKeeps, TerminalKeeps
<1>5. CASE UNCHANGED svars
  <2>1. UNCHANGED vars /\ UNCHANGED <<text, screen>> /\ UNCHANGED shellvars
    BY <1>5 DEF svars, cvars, tvars
  <2>2. UNCHANGED <<text, screen, shellvars, pos>> /\ UNCHANGED call /\ Inv'
    BY <2>1, InvStep DEF vars, data, SInv
  <2> QED BY <2>2, Untouched DEF SInv
<1> QED BY <1>1, <1>2, <1>3, <1>4, <1>5 DEF SNext

(* As long as the line fits, the invariant holds.                           *)
LEMMA Showing == SSpec /\ []LineFits => []SInv
BY SInvInit, SInvStep, PTL DEF SSpec

(* A step of the system is a step of the FIFO, or leaves it alone; this and *)
(* what follows from it does not need the line to fit.                      *)
LEMMA FifoSteps == Chunks /\ [SNext]_svars => [Next]_vars /\ Chunks'
<1> SUFFICES ASSUME Chunks, [SNext]_svars PROVE [Next]_vars /\ Chunks'
  OBVIOUS
<1>1. sh \in Tasks /\ tty \in Tasks
  BY TerminalAssumption, ConsoleAssumption
<1>2. CASE Booting(BNext)
  <2>1. Chunks'
    BY <1>2 DEF Booting, shellvars, Chunks
  <2>2. Opening
    BY <1>2 DEF Booting
  <2>3. \A t \in Tasks, mode \in (SUBSET Modes) \ {{}} : ramfs_fifo_open(t, mode) => Next
    BY DEF Next
  <2>4. {"FM_READ", "FM_WRITE"} \in (SUBSET Modes) \ {{}} /\ {"FM_WRITE"} \in (SUBSET Modes) \ {{}}
    BY DEF Modes
  <2>5. [Next]_vars
    BY <1>1, <2>2, <2>3, <2>4 DEF Opening
  <2> QED BY <2>1, <2>5
<1>3. CASE ShellStarts
  BY <1>3, PromptIs DEF ShellStarts, Start, tvars, Chunks
<1>4. CASE Key
  <2>1. PICK char \in Letters \cup {NL, BS} : getln(char)
    BY <1>4 DEF Key
  <2>2. char \in Chars /\ BS \in Chars
    BY ConsoleAssumption DEF Chars
  <2>3. UNCHANGED vars
    BY <2>1 DEF getln, tvars
  <2>4. out' = <<<<char>>>> \/ out' = <<<<BS>>>> \/ out' = out
    BY <2>1 DEF getln, getln_backspace
  <2>5. Chunks'
    <3>1. CASE out' = out
      BY <3>1 DEF Chunks
    <3> QED BY <2>2, <2>4, <3>1, EchoChunks
  <2> QED BY <2>3, <2>5
<1>5. CASE Serving(ConsoleServes)
  <2>1. CASE Run
    BY <2>1, RunChunks DEF Run, tvars
  <2>2. CASE PutChunk
    <3> DEFINE w == [op |-> "write", length |-> Len(Head(out))]
    <3>1. out # <<>> /\ Begin(sh, w) /\ UNCHANGED shellvars
      BY <2>2 DEF PutChunk, Writes
    <3>2. Len(Head(out)) \in WriteLengths
      BY <3>1 DEF Chunks
    <3>3. w \in Calls \ {Idle}
      BY <3>2 DEF Calls, Idle
    <3>4. Next
      BY <1>1, <3>1, <3>3 DEF Next
    <3> QED BY <3>1, <3>4 DEF shellvars, Chunks
  <2>3. CASE ChunkPut
    <3>1. out # <<>> /\ ramfs_fifo_write(sh) /\ out' = Tail(out)
      BY <2>3 DEF ChunkPut, Written
    <3>2. Next
      BY <1>1, <3>1 DEF Next, Try
    <3> QED BY <3>1, <3>2, TailChunks
  <2>4. CASE ChunkWaits
    BY <2>4 DEF ChunkWaits, WriteWaits, Retry, shellvars, Chunks
  <2>5. CASE TerminalStep /\ UNCHANGED shellvars
    <3>1. Chunks'
      BY <2>5 DEF shellvars, Chunks
    <3>2. CASE TerminalReads
      <4>1. Reading \in Calls \ {Idle} /\ Begin(tty, Reading)
        BY <3>2, TerminalAssumption DEF TerminalReads, Calls, Idle, Reading
      <4> QED BY <1>1, <3>1, <4>1 DEF Next
    <3>3. CASE TerminalShows
      <4>1. ramfs_fifo_read(tty)
        BY <3>3 DEF TerminalShows
      <4> QED BY <1>1, <3>1, <4>1 DEF Next, Try
    <3>4. CASE TerminalWaits
      BY <3>1, <3>4 DEF TerminalWaits, Retry
    <3> QED BY <2>5, <3>2, <3>3, <3>4 DEF TerminalStep
  <2> QED BY <1>5, <2>1, <2>2, <2>3, <2>4, <2>5 DEF Serving, ConsoleServes, Output
<1>6. CASE UNCHANGED svars
  BY <1>6 DEF svars, cvars, tvars, shellvars, Chunks
<1> QED BY <1>2, <1>3, <1>4, <1>5, <1>6 DEF SNext

(* The FIFO of the terminal is used as fifo.c has it, and all that is       *)
(* proved of it holds in the system.                                        *)
THEOREM SystemUsesFifo == SSpec => Spec
<1>1. SInit => Init /\ Chunks
  BY DEF SInit, CInit, TInit, Chunks
<1> QED BY <1>1, FifoSteps, PTL DEF SSpec, Spec

(* With transfers as short as the console's, shell and terminal never block *)
(* each other at the FIFO (stdio.c, fifo.c, ttytovga.c).                    *)
THEOREM ConsoleNeverBlocks == SSpec => []NoMutualBlock
BY SystemUsesFifo, ShortTransfersNeverBlock, PTL

(* The system's terminal FIFO is a byte channel between its tasks.          *)
THEOREM ConsoleChannel == SSpec => ImplementsChannel
BY SystemUsesFifo, Refinement, PTL

-----------------------------------------------------------------------------
(* Whatever keys, commands and turns of the driver: the cursor stays on the *)
(* screen, and the driver has the characters of the bytes that wait         *)
(* (ttytovga.c, fifo.c), as long as prompt and line leave a cell free.      *)
THEOREM CursorStaysOnScreen == SSpec /\ []LineFits => []CursorOnScreen
<1>1. SInv => CursorOnScreen
  <2> SUFFICES ASSUME SInv PROVE CursorOnScreen
    OBVIOUS
  <2>1. PICK e : Leads(Screen, text \o Flat(out), e) /\ Ready(e, Shown)
    BY DEF SInv, Drawing
  <2>2. Screen \in Screens
    <3>1. text \in Seq(Chars) /\ out \in Seq(Seq(Chars)) /\ Flat(out) \in Seq(Chars)
      BY FlatTyped DEF SInv, Coupled
    <3>2. text \o Flat(out) \in Seq(Chars)
      BY <3>1, ConcatProperties
    <3> QED BY <2>1, <3>2, LeadsEnds
  <2>3. x \in 0 .. Columns /\ y \in 0 .. Rows - 1
    BY <2>2 DEF Screen, Screens
  <2> QED BY <2>3 DEF CursorOnScreen, SInv, Coupled
<1> QED BY <1>1, Showing, PTL

(* When the shell waits for a key and all is drawn, the screen shows the    *)
(* prompt and the line getln holds, and nothing behind the cursor (stsh.c,  *)
(* pierresh.c, stdio.c, ttytovga.c): for every screen, prompt, output, size *)
(* of the FIFO and length of the writes, as long as prompt and line leave   *)
(* a cell free.                                                             *)
THEOREM WhatIsSeenIsWhatRuns == SSpec /\ []LineFits => []EchoShowsLine
<1>1. SInv => EchoShowsLine
  <2> DEFINE cursor == x + y * Columns
             shown == Flat(Prompt) \o line
  <2> SUFFICES ASSUME SInv, AtPrompt, pos = 0
               PROVE  /\ Len(shown) <= cursor
                      /\ \A i \in DOMAIN shown : vga_buffer[cursor - Len(shown) + i - 1] = shown[i]
                      /\ \A c \in Cells : c >= cursor => vga_buffer[c] = SP
    BY DEF EchoShowsLine
  <2>1. pc = "getln" /\ out = <<>> /\ text = <<>>
    BY DEF AtPrompt, SInv, Coupled
  <2>2. PICK e : Leads(Screen, text \o Flat(out), e) /\ Ready(e, shown)
    BY <2>1 DEF SInv, Drawing, Shown
  <2>3. e = Screen
    <3>1. text \o Flat(out) = <<>>
      BY <2>1, FlatNone
    <3> QED BY <2>2, <3>1, LeadsNone
  <2>4. shown \in Seq(Glyphs)
    <3>1. line \in Seq(Glyphs)
      BY DEF SInv, Coupled
    <3> QED BY <3>1, PromptIs, ConcatProperties
  <2> HIDE DEF shown
  <2>5. Screen.vga = vga_buffer /\ At(Screen) = cursor
    BY DEF Screen, At
  <2>6. PICK b \in RowStarts :
           /\ cursor = b + Len(shown)
           /\ \A i \in 1 .. Len(shown) : vga_buffer[b + i - 1] = shown[i]
    BY <2>2, <2>3, <2>5 DEF Ready
  <2>7. b \in Nat
    BY RowsFollow DEF RowStarts
  <2>8. Clean(Screen, "char")
    BY <2>2, <2>3 DEF Ready
  <2>9. \A c \in Cells : cursor <= c => vga_buffer[c] = SP
    BY <2>5, <2>8 DEF Clean, BlankBehind
  <2>10. cursor \in Nat
    BY <2>5, <2>8, ScreenParts DEF Clean
  <2> HIDE DEF cursor
  <2>11. Len(shown) \in Nat /\ DOMAIN shown = 1 .. Len(shown)
    BY <2>4
  <2>12. Len(shown) <= cursor /\ cursor - Len(shown) = b
    BY <2>6, <2>7, <2>10, <2>11
  <2>13. \A i \in DOMAIN shown : vga_buffer[cursor - Len(shown) + i - 1] = shown[i]
    BY <2>6, <2>11, <2>12
  <2>14. \A c \in Cells : c >= cursor => vga_buffer[c] = SP
    <3>1. Cells \subseteq Nat
      BY WholeIs
    <3> QED BY <2>9, <2>10, <3>1
  <2> QED BY <2>12, <2>13, <2>14
<1> QED BY <1>1, Showing, PTL

-----------------------------------------------------------------------------
(***************************************************************************)
(* Part three.  Commands get the words that were typed.                     *)
(***************************************************************************)

(* What a command got is the reading of its line, and only letters are in   *)
(* lines.                                                                   *)
Typed ==
    /\ shell \in {"stsh", "pierresh"}
    /\ line \in Seq(Letters) /\ command.line \in Seq(Letters)
    /\ command.words = ReadAs(shell, command.line)

(* The empty line has no words.                                             *)
LEMMA NothingRead == ReadAs(shell, <<>>) = <<>>
<1>1. <<>> \in Seq(Letters)
  OBVIOUS
<1>2. ASSUME NEW q PROVE ArgumentsOf(<<>>, q) = <<>>
  <2>1. StartsFrom(<<>>, q, 1) = {}
    <3>1. 1 .. 0 = {} /\ Len(<<>>) = 0
      OBVIOUS
    <3> QED BY <3>1 DEF StartsFrom
  <2>2. Cardinality(StartsFrom(<<>>, q, 1)) = 0
    BY <2>1, FS_EmptySet
  <2>3. ArgumentsOf(<<>>, q) = [i \in 1 .. 0 |->
            KeptOf(<<>>, q, InOrder(StartsFrom(<<>>, q, 1))[i],
                   EndFrom(<<>>, q, 1, InOrder(StartsFrom(<<>>, q, 1))[i]))]
    BY <2>2 DEF ArgumentsOf
  <2> QED BY <2>3
<1>3. interpret(<<>>) = <<>>
  BY DEF interpret
<1> QED BY <1>2, <1>3 DEF ReadAs

(* Before the first command there is no line, and it has no words.          *)
LEMMA TypedInit == SInit => Typed
<1> SUFFICES ASSUME SInit PROVE Typed
  OBVIOUS
<1>1. shell \in {"stsh", "pierresh"} /\ line = <<>> /\ command = [line |-> <<>>, words |-> <<>>]
  BY DEF SInit, CInit, None
<1>2. command.line = <<>> /\ command.words = <<>>
  BY <1>1
<1>3. <<>> \in Seq(Letters)
  OBVIOUS
<1>4. command.words = ReadAs(shell, command.line)
  BY <1>2, NothingRead
<1> QED BY <1>1, <1>2, <1>3, <1>4 DEF Typed

(* A step that leaves the line and the command.                             *)
LEMMA TypedAside == Typed /\ UNCHANGED <<shell, line, command>> => Typed'
BY DEF Typed

(* getln adds letters only (stdio.c).                                       *)
LEMMA KeyTyped == Typed /\ Key => Typed'
<1> SUFFICES ASSUME Typed, NEW char \in Letters \cup {NL, BS}, getln(char) PROVE Typed'
  BY DEF Key
<1>1. shell' = shell /\ command' = command
  BY DEF getln
<1>2. line' \in Seq(Letters)
  <2>1. line \in Seq(Letters)
    BY DEF Typed
  <2>2. \/ line' = line
        \/ line # <<>> /\ line' = SubSeq(line, 1, Len(line) - 1)
        \/ char \in Letters /\ line' = Append(line, char)
    BY DEF getln, getln_backspace
  <2>3. line # <<>> => SubSeq(line, 1, Len(line) - 1) \in Seq(Letters)
    BY <2>1
  <2> QED BY <2>1, <2>2, <2>3
<1> QED BY <1>1, <1>2 DEF Typed

(* The shell runs the line with the words of its own reading.               *)
LEMMA RunTyped == Typed /\ Run => Typed'
<1> SUFFICES ASSUME Typed, Run PROVE Typed'
  OBVIOUS
<1>1. shell' = shell /\ line' = <<>>
  BY DEF Run
<1>2. \/ command' = command
      \/ command' = [line |-> line, words |-> Words(line)]
  BY DEF Run
<1>3. shell \in {"stsh", "pierresh"} /\ line \in Seq(Letters)
  BY DEF Typed
<1>4. Words(line) = ReadAs(shell, line)
  BY <1>3, LettersAre, WordsOf
<1>5. <<>> \in Seq(Letters)
  OBVIOUS
<1>6. CASE command' = command
  BY <1>1, <1>5, <1>6 DEF Typed
<1>7. CASE command' = [line |-> line, words |-> Words(line)]
  BY <1>1, <1>3, <1>4, <1>5, <1>7 DEF Typed
<1> QED BY <1>2, <1>6, <1>7

(* All other steps leave line and command alone.                            *)
LEMMA TypedStep == Typed /\ [SNext]_svars => Typed'
<1> SUFFICES ASSUME Typed, [SNext]_svars PROVE Typed'
  OBVIOUS
<1>1. CASE Booting(BNext)
  BY <1>1, TypedAside DEF Booting, shellvars
<1>2. CASE ShellStarts
  BY <1>2, TypedAside DEF ShellStarts, Start
<1>3. CASE Key
  BY <1>3, KeyTyped
<1>4. CASE Serving(ConsoleServes)
  <2>1. CASE Run
    BY <2>1, RunTyped
  <2>2. CASE Output
    BY <2>2, TypedAside DEF Output, PutChunk, ChunkPut, ChunkWaits, shellvars
  <2>3. CASE TerminalStep /\ UNCHANGED shellvars
    BY <2>3, TypedAside DEF shellvars
  <2> QED BY <1>4, <2>1, <2>2, <2>3 DEF Serving, ConsoleServes
<1>5. CASE UNCHANGED svars
  BY <1>5, TypedAside DEF svars, cvars, shellvars
<1> QED BY <1>1, <1>2, <1>3, <1>4, <1>5 DEF SNext

(* Whatever is typed, corrected and run: a program gets the words of its    *)
(* line as the user reads them, in stsh and in pierresh, through tokens,    *)
(* escapes, quotes and the lists in between (stsh.c, pierresh.c, string.c,  *)
(* list.c), for every line of the letters that can be typed.                *)
THEOREM CommandsAsTyped == SSpec => []ArgumentsAsTyped
<1>1. Typed => ArgumentsAsTyped
  <2> SUFFICES ASSUME Typed PROVE ArgumentsAsTyped
    OBVIOUS
  <2>1. shell \in {"stsh", "pierresh"} /\ command.line \in Seq(Letters)
    BY DEF Typed
  <2>2. Read(command.line) = ReadAs(shell, command.line)
    BY <2>1, ReadIs
  <2> QED BY <2>2 DEF Typed, ArgumentsAsTyped
<1> QED BY <1>1, TypedInit, TypedStep, PTL DEF SSpec
=============================================================================
