-------------------------------- MODULE Fifo --------------------------------
(***************************************************************************)
(* A FIFO file of the RAM file system (ramfs/fifo.c) and the tasks that     *)
(* read and write it with fread and fwrite of the library.  A call is tried *)
(* as one system call; when the driver answers RW_BLOCK the library yields  *)
(* and tries again, so a blocked call is one that is still pending while    *)
(* other tasks go on.                                                       *)
(*                                                                         *)
(* A byte is its number in the order of writing, so that every copy the     *)
(* driver makes can be followed.                                            *)
(***************************************************************************)
EXTENDS Integers, Sequences, FiniteSets

CONSTANTS
    Tasks,
    Size,           \* args[0] of ramfs_fifo_create
    ReadLengths,    \* the lengths the programs ask for
    WriteLengths,
    Closers,        \* the tasks that may close their handle
    MaxBytes        \* bound on the bytes ever written

ASSUME SizeAssumption == Size \in Nat \ {0} /\ MaxBytes \in Nat
ASSUME LengthsAssumption == ReadLengths \subseteq Nat /\ WriteLengths \subseteq Nat

Modes == {"FM_READ", "FM_WRITE"}

VARIABLES
    buffer, pos,            \* the driver's bytes and how many of them are held
    readers, writers,       \* the driver's counters of open handles
    filemode,               \* filemode[t]: of t's handle, {} when it has none
    call,                   \* call[t]: the fread or fwrite t is in
    written, read, dest     \* bytes written, bytes read, the last read's target

file == <<readers, writers, filemode>>
data == <<buffer, pos, written, read, dest>>
vars == <<file, data, call>>

Idle == [op |-> "none", length |-> 0]

Calls == {Idle} \cup [op : {"read"}, length : ReadLengths]
                \cup [op : {"write"}, length : WriteLengths]

Init ==
    /\ buffer = [i \in 0 .. Size - 1 |-> 0] /\ pos = 0
    /\ readers = 0 /\ writers = 0
    /\ filemode = [t \in Tasks |-> {}]
    /\ call = [t \in Tasks |-> Idle]
    /\ written = 0 /\ read = 0 /\ dest = <<>>

-----------------------------------------------------------------------------
Counted(mode, m) == IF m \in mode THEN 1 ELSE 0

ramfs_fifo_open(t, mode) ==
    /\ filemode[t] = {} /\ call[t] = Idle
    /\ filemode' = [filemode EXCEPT ![t] = mode]
    /\ readers' = readers + Counted(mode, "FM_READ")
    /\ writers' = writers + Counted(mode, "FM_WRITE")
    /\ UNCHANGED <<data, call>>

ramfs_fifo_close(t) ==
    /\ filemode[t] # {} /\ call[t] = Idle
    /\ readers' = readers - Counted(filemode[t], "FM_READ")
    /\ writers' = writers - Counted(filemode[t], "FM_WRITE")
    /\ filemode' = [filemode EXCEPT ![t] = {}]
    /\ UNCHANGED <<data, call>>

(* A program calls fread or fwrite on its handle.                           *)
Begin(t, c) ==
    /\ filemode[t] # {} /\ call[t] = Idle
    /\ c.op = "write" => written + c.length <= MaxBytes
    /\ call' = [call EXCEPT ![t] = c]
    /\ UNCHANGED <<file, data>>

Return(t) == call' = [call EXCEPT ![t] = Idle] /\ UNCHANGED file

-----------------------------------------------------------------------------
(***************************************************************************)
(* vfs_read, vfs_write and the driver: answers that end the call with an    *)
(* error, and the guard under which the driver answers RW_OK.  Otherwise it *)
(* answers RW_BLOCK and nothing changes.                                    *)
(***************************************************************************)
Refused(t) ==
    \/ call[t].op = "read"  /\ "FM_READ" \notin filemode[t]      \* RW_NOFM_READ
    \/ call[t].op = "write" /\ "FM_WRITE" \notin filemode[t]     \* RW_NOFM_WRITE
    \/ call[t].length > Size                                     \* RW_ERR_DRIVER

Refuse(t) ==
    /\ call[t] # Idle /\ Refused(t)
    /\ Return(t)
    /\ UNCHANGED data

Readable(n) == n <= pos

(* Mutants: no check for room; a transfer that fills the buffer must wait.  *)
Writable_Always(n) == TRUE

Writable_Strict(n) == n < Size - pos

Writable(n) == n <= Size - pos

(* Mutant: the bytes left behind the ones read are not moved to the front.  *)
Shifted_Kept(n) == buffer

(* memcpy(buffer, buffer + n, pos - n), front to back.                      *)
Shifted(n) ==
    [i \in 0 .. Size - 1 |-> IF i < pos - n THEN buffer[i + n] ELSE buffer[i]]

(* Mutant: the bytes are put at the front, over the ones that still wait.   *)
Stored_Front(n) ==
    [i \in 0 .. Size - 1 |-> IF i < n THEN written + i + 1 ELSE buffer[i]]

(* memcpy(buffer + pos, src, n).                                            *)
Stored(n) ==
    [i \in 0 .. Size - 1 |->
        IF pos <= i /\ i < pos + n THEN written + (i - pos) + 1 ELSE buffer[i]]

ramfs_fifo_read(t) ==
    LET n == call[t].length IN
    /\ call[t].op = "read" /\ ~Refused(t) /\ Readable(n)
    /\ dest' = [j \in 1 .. n |-> buffer[j - 1]]
    /\ buffer' = Shifted(n)
    /\ pos' = pos - n
    /\ read' = read + n
    /\ Return(t)
    /\ UNCHANGED written

ramfs_fifo_write(t) ==
    LET n == call[t].length IN
    /\ call[t].op = "write" /\ ~Refused(t) /\ Writable(n)
    /\ buffer' = Stored(n)
    /\ pos' = pos + n
    /\ written' = written + n
    /\ Return(t)
    /\ UNCHANGED <<read, dest>>

(* RW_BLOCK: yield and try again.                                           *)
Blocked(t) ==
    /\ call[t] # Idle /\ ~Refused(t)
    /\ \/ call[t].op = "read"  /\ ~Readable(call[t].length)
       \/ call[t].op = "write" /\ ~Writable(call[t].length)

Retry(t) == Blocked(t) /\ UNCHANGED vars

Try(t) == ramfs_fifo_read(t) \/ ramfs_fifo_write(t) \/ Refuse(t) \/ Retry(t)

Next ==
    \E t \in Tasks :
        \/ \E mode \in (SUBSET Modes) \ {{}} : ramfs_fifo_open(t, mode)
        \/ t \in Closers /\ ramfs_fifo_close(t)
        \/ \E c \in Calls \ {Idle} : Begin(t, c)
        \/ Try(t)

Spec == Init /\ [][Next]_vars

-----------------------------------------------------------------------------
(* The driver's position never leaves its buffer; every other variable      *)
(* holds a value of its C type.                                             *)
TypeOK ==
    /\ buffer \in [0 .. Size - 1 -> Nat] /\ pos \in 0 .. Size
    /\ readers \in Int /\ writers \in Int
    /\ filemode \in [Tasks -> SUBSET Modes]
    /\ call \in [Tasks -> Calls]
    /\ written \in Nat /\ read \in Nat

(* The buffer holds exactly the bytes written and not yet read, oldest      *)
(* first: the moving and appending of fifo.c neither loses, repeats nor     *)
(* reorders a byte, whatever tasks read and write in turns.                 *)
HoldsTheUnread ==
    /\ pos = written - read
    /\ \A i \in 0 .. pos - 1 : buffer[i] = read + i + 1

(* fifo.c implements the byte channel for all its readers and writers       *)
(* together.                                                                *)
Channel == INSTANCE ByteChannel WITH
    Capacity <- Size, Transfers <- ReadLengths \cup WriteLengths,
    sent <- written, received <- read, delivered <- dest

ImplementsChannel == Channel!CSpec

(* A reader and a writer never block each other: with transfers this short, *)
(* a FIFO too empty for the one has room for the other.                     *)
ShortTransfers == \A r \in ReadLengths, w \in WriteLengths : r + w <= Size + 1

NoMutualBlock ==
    ShortTransfers =>
        \A r, w \in Tasks : ~(/\ Blocked(r) /\ call[r].op = "read"
                              /\ Blocked(w) /\ call[w].op = "write")
=============================================================================
