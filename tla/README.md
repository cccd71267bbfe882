# A verification of mikrOS

mikrOS is a small 32-bit kernel for one x86 processor, a C library and a set of
programs (drivers, shells, commands). It has no tests and an empty README, so
the reference for everything here is the code. This directory holds TLA+ models
of the parts whose correctness depends on order, sharing and history, the TLC
configurations that check them on small instances, and TLAPS proofs of the
results that hold for every size.

Paths below are relative to the root of the repository; `PROJECT.json` maps
every definition to the lines it stands for.

## 1. The system

### Parts, state, operations

| Part | State | Operations | What makes it correct |
|---|---|---|---|
| Process core: `kernel/os/src/scheduler.c`, `idt.c`, `kernel.c` | the doubly linked list of `struct task`, newest first; `current_task`; per task a saved context, page directory, `sub_of`, `blocked_by_sub`, `child_of`; `nextPID` | `schedule`, `schedule_to_task`, `save_cpu_state`, `init_task`, `terminate_current`, `schedule_exception`; system calls exit, exec, yield | the list holds exactly the live tasks; a parent waits for a live subtask and is released by it and no other; the search for a runnable task, made with interrupts off, ends; no ready task is passed over; a task runs its own code in its own address space |
| RPC: `scheduler_rpc.c`, `idt.c`, `lib-mikros/src/process_rpc.c` | a queue of `struct rpc` per task, `irq_rpcs`, `rpc_handler_addr` | `create_rpc_call`, `init_rpc_call`, `return_rpc_call`, `enable_irq_rpc`, `register_irq_rpc` | an interrupt runs the driver's handler once, in the driver's context, and the interrupted program goes on as it was |
| Frames and address spaces: `pmm.c`, `vmm.c` | a bitmap of free frames; page directories and tables, the lower part shared by all | `pmm_alloc`, `pmm_free`, `vmm_alloc*`, `vmm_free`, `vmm_create_pagedir`, `vmm_free_current_pagetables`, `vmm_activate_pagedir` | no frame serves two owners; what a task's end does not give back is known |
| Heap: `stdlib.c`, a copy of it in `lib-mikros/src/stdlib.c` | lists of used, free and unused nodes; the pages obtained | `malloc`, `calloc`, `realloc`, `free` | blocks in use share no byte |
| FIFO files: `ramfs/fifo.c`, and the retry loop of `lib-mikros/src/stdio.c` | a buffer, its fill, counters of readers and writers | create, open, close, read, write, available | bytes arrive whole, once, in order; transfers end |
| Other files: `ramfs/block.c`, `ramfs/vgacntrl.c`, `ramfs/tar.c` | contents, positions, the one writer of the screen | the same driver interface | positions stay within the file; one writer |
| File system tree: `vfs.c` | nodes with a name, a parent, a type and children | `vfs_create_dir`, `vfs_create_kfile`, `vfs_open`, `vfs_resolve_path`, `vfs_get_child_of_path` | names are unique; paths and nodes correspond; a listing is complete |
| A task's environment: `scheduler.c`, `vfs.c`, `kernel.c` | `execPath`, standard handles, open handles | inherited by exec, changed by system calls 7, 10, 11, 14 and 21, handed over or left behind at exit | no task loses its own by what another does; a driver counts what is open; nothing is closed twice |
| Keyboard driver: `modules/kbc_driver` | its flag `init_done`; what of a multi-byte code has been seen, the keys held down | `main`: register, drain, send commands; `irq_handler`, once per byte | no byte is left in the controller without an interrupt to come; what is typed is what was struck |
| Terminal and console: `modules/ttytovga`, `console.c` | the cursor, the colour | one character at a time | the cursor stays on the screen; the screen shows the line the shell has |
| Init and services: `modules/init`, `urnd_prov` | the FIFO `/var/cntrl/init` | start a service, wait for its `K` | boot reaches the shell, which finds the files it needs |
| Shells and commands: `modules/stsh`, `pierresh`, `repeat`, `ls`, `cd`, ... | the line being typed | prompt, `getln`, the words of the line, `fsexec` | a command gets the words that were typed; the prompt comes back |
| Lists and strings: `lib-mikros/src/list.c`, `string.c`, `stringbuilder.c` | doubly linked lists | insert, split, splice, replace | a list made from an array is that array; quotes keep words together |

### How they interact

Programs call the kernel through interrupt 0x30; the kernel runs with
interrupts off and never waits, so each handler is atomic with respect to every
task. All concurrency is between system calls, timer interrupts and hardware
interrupts, in the order the scheduler makes of them. Blocking exists in two
forms: a parent is blocked by its subtask in the kernel, and a file transfer
that cannot be done is repeated by the library, which yields in between. A
hardware interrupt becomes an RPC: the kernel queues a call for the driver, which
makes it when its turn of the round comes next, and the driver's `return_rpc`
switches back to whoever was interrupted. Drivers and programs meet in FIFO files: the keyboard driver
writes `/dev/keyboard`, the shell reads it, the terminal reads `/dev/tty0` and
writes `/dev/vga`. All of the kernel shares one heap, and all address spaces
share its pages.

### What is hard

The list surgery under any order of exits and faults; exits of tasks that are
waited for; interrupts that arrive while the driver, the shell or another
handler runs; transfers of several tasks through one bounded buffer; the
splitting and merging of memory over a long history; frames that pass from task
to task; files created while others look them up or list them; and pointers
that outlive what they point to. `PROJECT.json` lists these hazards at their
lines, with the property that covers each or the reason why none does yet.

## 2. The modules

| Module | Models | Composition |
|---|---|---|
| `Scheduler` | process core and RPC | refines `Processes` while programs start others in the foreground only |
| `Processes` | abstract: processes that start each other and wait | |
| `Fifo` | `ramfs/fifo.c` with `fread`/`fwrite` of the library | refines `ByteChannel` |
| `ByteChannel` | abstract: a bounded channel of bytes | |
| `Heap` | `malloc`, `free` of the kernel | refines `Allocator` |
| `Allocator` | abstract: what callers of malloc may rely on | |
| `Memory` | `pmm.c` and `vmm.c` through exec, exit and system calls 203, 204 | |
| `Vfs` | the tree of `vfs.c`, a program's path, `ls` | |
| `ExecPath` | who owns the string a task's `execPath` points to | |
| `Keyboard` | `irq_handler` of `kbc_driver.c`, fed by a keyboard | |
| `Handles` | handles of files: opened, inherited, replaced, closed, left behind | |
| `Lists`, `Strings` | `list.c` and the tokenisers of `string.c`, as operators | `Strings` extends `Lists` |
| `Terminal` | `ttytovga.c` and the screen | extends `Fifo` |
| `Console` | a shell at its terminal | extends `Terminal`, `Strings` |
| `Boot` | the kernel's start, init, the services, the keyboard controller | |
| `System` | from power on to the shell at work | extends `Console`, `Boot` |
| `MC...` | workloads and values for TLC | extend the module of their name |
| `...Proofs` | theorems | extend the module of their name; those about `Fifo` are in `ConsoleProofs` |

**Scheduler.** The variables are the fields and globals of `scheduler.c`; a
`struct task *` is a PID. Every system call, fault and interrupt is one action
that does everything its handler does: it saves the context
(`SavedStates`, `SavedQueues`), changes lists and queues, and switches
(`schedule_to_task`). The one exception is the loop of `schedule()`, whose turns
are the actions `ScanSkip` and `ScanTake`: a loop that does not end is then a
behaviour, and `ScanEnds` says that there is none. A context is reduced to whose
it is, whether it is the main program or the RPC handler, and whether its
`eax` is the one that was saved. A program is the set of calls it may make
(`Calls`); the workloads are in `MCScheduler`. Freed structures are reset to
zero, which is one of the things reuse can do to them; properties never
speak of a dead task's fields.

**Fifo.** A byte is its number in the order of writing, so every copy can be
followed. `call[t]` is the transfer task `t` is in; a refused transfer
(`RW_BLOCK`) stays pending and is tried again when the task's turn comes.

**Heap.** The lists are sets of blocks, because nothing depends on the order of
free blocks but which of several is chosen, and the model allows any choice. The
turns of `merge_into_frees` are actions. Merging with the block below is
modelled as it is written: the address moves and the size does not grow, so
memory is lost, but never handed out twice. Nodes come from pages of their own,
and may run out in the middle of an allocation.

**Memory.** Frames and pages are numbers and are found lowest first, as in the
code. A page directory is the frame it lies in; the 1024 page tables are one
frame. The shared part is the range from `ALLOCATABLE_BOTTOM` to
`USERSPACE_BOTTOM`, in which `PROGRAM_BOTTOM` lies too (`vmm.h`), so a program's
own pages come from the shared part first. The ghost variable `holder` says of each
shared page for whom it was mapped last: the kernel (its heap), a program, or nobody any
more (`stale`: a window that `vmm_free_current_pagetables` maps and leaves mapped).
System call 204 (`vmm_free`) asks for nothing but a mapped page from `PROGRAM_BOTTOM` on, and so
does the action: a program may free pages of its own, those of others, its
image, the kernel's heap and the windows; that it leaves the last two alone is the constraint `KernelPagesLeft` of
`OrderlySpec`, not a guard of the action. The frames of contexts, of pointer arrays and of the directories
of failed starts are leaked by the code and by the model; the ghost variable `history`
counts the starts, failed starts and ends they come from.

**Vfs.** A tree of nodes with ordered children, newest first. Paths are
sequences of components, absolute or relative. Looking up, creating and
constructing paths are operators translated from the functions of the same
names; actions are the system calls. `halted` is the cat of death, which
`vfs_create_path` shows when a component lies below a file.

**ExecPath.** Pointers, the heap blocks they point to, what the blocks hold, and
as a ghost the path each task ought to be in.

**Keyboard.** The keyboard is external: it appends the codes of scancode set 1
to `wire`. The handler consumes one byte per step, as in the code, with its
static variables. A character is a keycode and the table it is taken from;
the 2 x 128 entries of the character tables are reduced to which are non-zero.

**Handles.** Each system call is one action. A `struct res_handle *` is an
element of `Handle`, taken from those not allocated, so that an address is reused
and a stale pointer may come to mean another file. `files` is what the drivers
keep: the structs and the counters of readers and writers of each kfile.
`fclose_unknown` is the walk of `unregister_handle` past the end of its list, which
ends the caller with a page fault. A RAM file is its size, a FIFO and the screen
only their counters: what happens to the bytes is in `Fifo` and `Terminal`.
`fopenpmhandle` replaces any stream of the caller or of a child of its, and closes the
old handle whoever else has it, as the kernel does; `ReplacesOwn`, a constraint of
`OrderlySpec` and not of the action, is what the programs of the repository keep to: nobody
replaces a stream that others have too. The blocking of parents is
left out, so more interleavings are checked than the kernel makes.

**Lists and Strings.** Operators only. `Lists` works on a heap of nodes with
`next` and `prev`, pointer by pointer as in the code, with the wrong link back that
`list_insert_list` makes; the shells follow links forward. `Strings` is written
with positions and sets instead of loops; `strtokncesc` keeps its static pointer,
and `replaceAll` is the pass that writes the copy.

**Terminal, Console.** `Fifo` numbers bytes; `text` gives the unread ones their
characters: `Glyphs`, which are drawn, and the three that are commands. The terminal reads one byte and draws, the shell and the command it
waits for write through one handle, chunk by chunk as `printf` and `puts` do, and
both wait when the FIFO makes them. A character that is typed is one step of
`getln`, which echoes it. `Run` makes the words of the line, with the operators of
`Strings` and `Lists`, and writes what a command may write; `command` remembers
both.

**Boot, System.** `at[p]` is the place program `p` has come to; one step of a
program is one system call or one access to a port. The keyboard holds bytes in
a queue, the controller has room for one and sends no interrupt until it is
read; an interrupt becomes a handler call, which the driver's task makes at any
time. `System` is `Boot` until the shell starts, with the FIFO of the terminal
opened by those who open it, and `Console` from then on.

## 3. The runs

| Run | Question | Instance |
|---|---|---|
| `sched_any` | Do the list, the blocking and the queues stay consistent whatever programs do, is nobody passed over, does the search end, does a ready task get its turn unless interrupts never cease, are interrupts served in turn, is waiting for a subtask what `Processes` says? | 3 tasks, every call and fault, the first two may be drivers; any number of interrupts, 2 of them waiting at a time |
| `sched_driver` | Are interrupts handled in the right context, returned from, once each? | init, driver, shell and two commands; any number of interrupts, 2 waiting at a time |
| `sched_meddling` | (finding) Does a terminated task run? | 3 tasks |
| `sched_registers` | (finding) Does an interrupted program, the first of them init or the driver's own main program, keep its registers? | as `sched_driver` |
| `fifo_any` | Is the buffer what was written and not yet read, and the file a byte channel? | 3 tasks that do anything, size 3, transfers of 1 to 4 bytes |
| `heap_any` | Are blocks disjoint, is the counter exact, do callers get what `Allocator` promises? | 5 pages, 4 sizes below, at and above a page, 3 blocks |
| `memory_any` | Is every frame used once, and are the frames that are lost those we know of, while programs free their own pages, each other's and their image? | 12 frames, 5 shared pages, 1 private page |
| `keyboard_typing` | Is what is typed what was struck? | 5 keys, 2 characters, 6 unread bytes |
| `vfs_tree` | Are names unique, do paths lead back, is a listing complete? | 5 nodes, 2 names, paths of 2 components |
| `handles_any` | Do counters and lists of handles agree with what is open, through sharing, replacing one's own and exits? | 3 tasks, 3 handles, 4 kfiles, the screen, a program and a FIFO that may be made again |
| `system` | Does boot reach the shell, does the shell find what it needs, is what is seen what runs, does the prompt come back? | 5 programs or one missing; a FIFO of 1; a screen of 4 x 3; 5 keys of 6 kinds at the prompt or one during boot |
| `execpath_subtask` | (finding) Is a parent in the path its subtasks left it? | 2 tasks, 3 blocks |

**Why these bounds.** Three tasks are a first, a middle and a last element of
the list, in each role of parent, child and bystander; the proofs remove the
bound for the list, the blocking, the round and the waiting. The number of interrupts has no bound,
that of the calls in the queues at a time has (`MaxCalls`): two are one that arrives while the
other is handled. With the first two tasks as drivers there is a third that is none, which
is all it takes for the driver and the interrupted task to have the CPU in turn for ever
while another is ready: TLC finds that behaviour as soon as `NoStarvation` does not allow for it. A buffer of three with transfers of up to four has every boundary: full,
one short of full, too large for ever. The sizes of `heap_any` leave a rest, fill
a rest exactly, fill a page exactly and need two pages, and two nodes per page
make the stock run out at each place. Twelve frames are two tasks, or one, what others have left
and a growing heap; five shared pages let the second start when the first has given a page
back; the one private page is the image, free again once it is given back. Five unread bytes are needed for the longest key
code but one; six hold the pause key. Two names, a root and four nodes are a
directory with two entries, or a chain of four. In `handles_any` three handles are
two in use and one that is reused, and three tasks are two that share a stream
and their parent; only stdin is redirected, because `vfs_exec` opens what is to
be written for reading (below). In `system` a FIFO of one byte makes every
transfer of two bytes impossible and every other a hand-over: the most waiting
there can be. A prompt of four characters and five typed ones on a
screen of four columns wrap, scroll and are taken back over the edge of a line;
five keys are a quoted space between letters, or a word, a space and a word.
One key during boot comes at every place of the initialisation, and one
repetition of a command at each of the five. Two handler calls may wait: one for
an answer that `send_command` took, one for the next.

**Deadlock** is checked except in `heap_any`, `memory_any`, `vfs_tree`,
`handles_any` and `system`: in the first two memory is never returned to where it
came from (nodes, pages, leaked frames), so a bounded supply runs out; in
`vfs_tree` the cat of death stops the system; in `handles_any` the last task may
end; in `system` all keys are struck in the end, and init waits for ever for a
service that is not in the archive.
In `keyboard_typing` keys can always be pressed or released or bytes read.

**Symmetry** is used for the tasks of `fifo_any`, the names of `vfs_tree` and the
handles of `handles_any`: no module tells them apart, and only safety is checked there.

**Fairness.** `KernelFairness`: boot goes on, the search loop goes on, and the
timer interrupt, which the interrupt controller latches, is taken; all three are
what hardware and straight-line code do, so weak fairness is enough. Nothing is
assumed of programs, nor of interrupts, which may come for ever: `NoStarvation` and
`RpcsComplete` say what holds then. `HandlerFairness` (only in `sched_driver`): an RPC handler
that gets the processor again and again returns, since `_handle_rpc` ends in
`return_rpc`; it is strong because the handler is preempted meanwhile. In
`system` every program and the terminal get their turn, which `NoStarvation` of
`Scheduler` gives them because the keys that are struck have an end, a handler call that waits is made, and the keyboard
answers commands and delivers its bytes; each is weak fairness of one action, and
nothing is assumed about keys, which need never come. The shell's step `Run` is
disabled by nothing but itself, so its weak fairness is written as the formula
`(pc = "run" /\ out = <<>>) ~> pc # "run"`, which spares TLC the enumeration of what
the list operators could return when it evaluates `ENABLED`.

### What the code does otherwise than it says

* `kernel.c:254`: a task that tries to change the handles of another's child is
  terminated, its memory freed, and the handler then goes on and returns to it
  (`sched_meddling`).
* `scheduler_rpc.c:114`: the return from an interrupt's RPC stores a result in
  `eax` of the program that was interrupted (`sched_registers`): init or the driver's own
  main program in the shortest case, which takes two programs and one key.
* `scheduler.c:112`: when a subtask that has not changed its path ends, the path
  of its parent is freed while the parent keeps it (`execpath_subtask`).

### What the code does not guarantee, and where the checks take care of it

* `vfs_exec` of a file that is no ELF file returns under the wrong page directory
  (`vfs.c:387`). `RunsInOwnPagedir` is checked without such files.
* A parent released while it waits for another subtask, or a task resumed by
  `terminate_current` in the middle of an RPC, is possible when background and
  foreground tasks are mixed with exits; so is a parent that an interrupt's return resumes
  while it is blocked (`scheduler_rpc.c:116`). `KeepsPromise` is about behaviours as long as
  all tasks are started in the foreground, `ContextConsistent` where drivers do not exit.
* Two tasks that transfer more than `Size + 1` bytes together can block each
  other for ever; `NoMutualBlock` has that condition.
* The first-come order of FIFO writers is not kept: a writer of much may wait
  while writers of little go on. `PromptAppears` has one writer at a time.
* While interrupts keep coming, a ready task may wait for ever: each return goes back to the
  task that was interrupted (`scheduler_rpc.c:116`), so the driver and that task have the CPU
  in turn, and the round never gets to a third. `NoStarvation` promises a turn when
  interrupts cease, and `NobodyPassedOver` keeps the round for everything but these returns.
* Calls wait in a task's queue without a limit (`scheduler_rpc.c:66`); two at a time are checked.
* A child has its parent's very streams (`vfs.c:429`), and replacing one closes and
  frees it (`kernel.c:277`), whoever else has it: the other task is left with a handle
  that is free, and when it is replaced there, too, it is closed twice, so that the
  counters go wrong and another file's handle may be freed. No property says that a
  stream stays open while tasks share it, because it does not; `CountersExact` and
  `ClosedOnce` are about programs that replace no such stream (`ReplacesOwn`), as those
  of the repository: init sets its streams before it starts a shell, ttytovga when it
  has none. A handle that is freed keeps its contents until it is used again.
* A program may free any page from `PROGRAM_BOTTOM` on (`kernel.c:357`, `vmm.c:165`): with the
  kernel's heap the kernel ends, and with a window that was left mapped on frames free since
  (`vmm.c:105`) it frees a frame that may be in use. `FramesOwnedOnce` and `LossesKnown` are about
  programs that leave these two alone (`KernelPagesLeft`); the repository's make no such call.
* `fsexec` and `fdexec` open the file for stdout and stderr to read (`vfs.c:448`,
  `:455`): such a stream refuses every write.
* `vfs_exec` never closes the handle of the program, a task that ends closes nothing:
  counters only grow by these, and `CountersExact` counts what is left behind.
* A key that is struck between the draining of the controller and the end of the
  driver's initialisation may be taken for an answer, or be left in the
  controller, which then stays silent (`kbc_driver.c:156`); `KeyboardAlive` and, for
  keys, `PromptAppears` do not promise more. A handler call whose byte
  `send_command` has read reads the same byte again.
* pierresh drops every `>` among the arguments and redirects nothing
  (`pierresh.c:26`). `replaceAll` is used with strings without backslashes: behind
  one, its first pass counts short (`string.c:261`).
* Memory that runs out is not noticed by the callers; the models stop asking.

## 4. The proofs

Nearly all are invariance proofs of the same shape: `Init => Inv`,
`Inv /\ [Next]_vars => Inv'` with one step per action, and PTL to join them. What
follows is the invariant of each and why the property alone is not inductive.

* `SchedulerProofs`, for any number of tasks, interrupts, files and programs.

  *The list.* The types, `TaskListIntact`, `SubtaskAlive` and `NewestIsRunnable`. `Inv` adds
  `FreeUnblocked` to the properties (a PID not live blocks nobody and waits for
  nobody): without it `SubtaskAlive` is not inductive, since a new task could come to
  life blocked. `TaskListIntact` states the order of the list (newer tasks before
  older ones) in both directions, which is what makes insertion and removal
  provable without following the list. `NewestIsRunnable` follows at once: a
  blocked task waits for a younger one, and there is none younger than the first.
  So the loop of `schedule()` always has something to find; the runs check the two it
  follows from, and `ScanEnds`.

  *The round.* `NobodyPassedOver`, for every workload: `SkippedBlocked` adds that the tasks the
  search has left behind are blocked. One turn of it goes past no task but the one it was at
  (`OneFurther`), whether it wraps around or not, and at the end of a task its successor
  is the next of the round. Each step goes on in the same direction, from newer to older, so new
  tasks, which come in front, do not lengthen the wait for a turn before the list is through.

  *The refinement.* `KeepsPromise`: in the foreground every task but the newest waits for
  the next newer one, so the newest is the only one that can run and its end
  releases exactly its parent.

  *The queues of calls.* `OneRpcAtATime` for every workload (`QueuesInOrder`: behind the first
  call of a queue none has begun). `RpcsInTurn` for every workload too: only the return
  of a call takes one away, the first, an interrupt puts its own behind the others, the
  end of a task ends its queue, and saving a context or beginning a call, which both
  replace the first element, leave what it asks for and whom it interrupted as they were.
  A program that returns from a call that has not begun loses that call, but
  never one behind it. `ContextConsistent`, `RunsInOwnPagedir` and
  `PoppedByItsHandler` under the hypothesis `DriversStay`: drivers, the programs that
  register for interrupts, do not exit or fault; nobody but a handler calls
  `return_rpc`; nobody meddles with another's handles; files that look like ELF files are.
  The repository's drivers keep to it, and the module `MCScheduler` lets TLC
  evaluate it for the workload of `sched_driver`. Without it the properties are
  false, as section 3 says. The invariant says together whose context the processor
  has (`OnCpu`), whose the saved ones are (`OwnContexts`), that calls wait at drivers
  only (`Routed`), that a task that does not leave stays (`Stayers`), and that before
  the first task nothing waits (`Quiet`).
* `MemoryProofs`, for every number of frames and pages and all programs that leave the kernel's
  pages alone (`OrderlySpec`): `TypeOK`, `FramesOwnedOnce` and `LossesKnown`. The first
  two are inductive together with `Mappings`: what is mapped was given to somebody, so a page
  that `vmm_free` takes is one that counts as a use, and the program runs in a task's address
  space. The work is in the allocations, which take the lowest free frames for the lowest
  free pages: ranks give a bijection between them (two frames with as many smaller free
  ones are the same), so that no frame is mapped twice by one call. For
  `LossesKnown` each step is shown to add to the set of lost frames what `history` counts for it:
  nothing, one frame (a start, an end) or four (a start that fails).
* `HeapProofs`, for every set of sizes and pages: blocks share no byte, and
  blocks and nodes no page; every step is a step of `Allocator` or a stutter.
  `Inv` is the type invariant with `BlocksDisjoint`, which is inductive because it
  includes the block being merged. The lemmas are about blocks: those on
  different pages are apart, a part of a block is apart from what the whole is
  apart from, and joining neighbours keeps others apart. `MallocedIsUsed` is about a
  sum over a set: the blocks in use are finitely many, and the sum changes by the size
  of a block that comes or goes. For that the fold over the set is shown to be a
  function on subsets from which any element may be taken, and a least set without such a
  function cannot be.
* `ConsoleProofs`, in two halves.

  *FIFO files.* For every size, set of tasks and lengths, the buffer holds
  exactly the unread bytes; with short transfers a reader and a writer never
  block each other; every step is a step of `ByteChannel` or a stutter.
  `TypeCorrect` is the type invariant by itself.

  *Words.* `WordsAreRead`: for every line of letters, what a shell makes of it (`Words`, the code
  of `stsh.c`, `pierresh.c`, `string.c` and `list.c` step by step) is what `Read` says of it
  without any of them. `Read` looks at the whole line at once, for each space at the number of
  quotes before it; a tokeniser counts them anew for each token. `TokenFound` joins the
  two: behind the separator a token ends with the quotes are even, so the rest of the line is
  separated as if it stood alone (`SepShift`), and the words of the line are the token and the
  words of the rest (`WordsJoin`). So `Tokens` gives the words, quotes and all, and `format`,
  twice `replaceAll`, takes the quotes out of each (`KeptOf`). Between the two the words are elements of lists: `Linked` says
  of a heap that its nodes are in a row; along it `list_last`, `list_head`,
  `list_append` and `list_toarray` do what their names say, and `list_insert_list`, which
  leaves a wrong link back from the first spliced node, still leaves the links forward right
  (`ArrayHeap`), all that `list_foreach` and `list_toarray` follow.
* `VfsProofs`, for any nodes, names and lengths of paths: `TypeOK`, `ProperTree`,
  `PathsLeadBack` and `ListingMissesNothing`. `GoodTree` is the invariant of the tree: names
  are unique in a directory, children and parents agree, files have no children, and
  every node is reached from the root by a path, given as a function along it. From the
  last follows that the path constructed for a node leads back to it, and that
  looking up what `vfs_create_path` has just made succeeds. `Listing` says of `ls` under
  way that what it still owes lies at indices not yet asked for: new entries come
  in front, so nothing moves to an index that is past. Loops along a path are
  recursive functions; that they have a value at every position, and what it is,
  is shown for a least position without.
* `KeyboardProofs`, for any number of keys and unread bytes: `TypeOK`, `TypedAsStruck` and `InStep`.
  The invariant looks ahead: there is a run of the handler along the unread bytes,
  from its present memory to one at rest with the keys held, that writes what is
  struck and not yet written. A key appends its code at the far end of the run, the
  handler takes its first step; neither needs to know what lies between. Codes of
  all lengths, those with prefixes and the pause key among them, are cases of one lemma each.
* `HandlesProofs`: `TypeOK`, `CountersExact` and `ClosedOnce` for any number of
  tasks, files and handles, as long as nobody replaces a stream that others have too (`OrderlySpec`;
  without it the last two are false, as section 3 says). `HInv` states them for all PIDs and not only the live
  tasks, and adds that dead and future tasks hold nothing: without it a PID could
  come to life with handles of another. The lemmas are about the values that
  `vfs_open` and `Closed` return, and are stated once for a state of the files, since a
  system call passes through up to five of them.
* `SystemProofs`, in three parts and what joins them.

  *The start.* `ShellHasServices` and `KeyboardAlive` for any archive, any number of
  keys and repetitions, as theorems of `Boot`. `BInv` says, for each place of init, which
  services have been started and answered and where the byte each owes is: still to be
  written, in the FIFO, or taken. `KInv` says that, as long as no key comes early,
  between two commands neither keyboard nor controller hold a byte, during a
  command exactly one answer is on its way, and afterwards a byte in the
  controller has a handler call.

  *The screen.* `CursorOnScreen` and `EchoShowsLine` for the whole system, for every size of screen
  and FIFO, every prompt, all lengths of writes and everything commands may
  write. The invariant `Drawing` looks ahead, too: drawn to the end, the characters in the FIFO and in
  the shell's hands lead from the screen as it is to one that shows prompt and
  line (`Ready`), or, while a command runs, to one with an empty row for the next
  prompt. So the driver's steps only shorten what is ahead, the shell's steps add to
  it, and what remains are facts about one character: a glyph, a backspace and a newline on
  a screen that is `Ready`, and any byte on one that is `Clean`. `Coupled` ties the characters to
  the numbered bytes of `Fifo`, and `ConsoleProofs` says which of them a read gets. Both theorems have
  the hypothesis `[]LineFits`: prompt and line leave a cell of the screen free.
  Nothing in the code sees to it (`getln` has no bound), and without it both
  properties are false: of a line longer than the screen the beginning has scrolled
  away, and enough backspaces take the cursor above the first row. Of the 2000
  cells of the screen the prompt and the 512 bytes of the shell's line leave most free; in the run,
  4 and at most 6 of 12 are used.

  *The words.* `ArgumentsAsTyped` for the whole system, without `LineFits`. The invariant `Typed` says that
  the line getln has, and the one last run, are made of letters, and that the words of the command are those
  of its line; a run of the shell keeps it by `WordsAreRead`.

  *The whole.* `BInv` and `KInv` stay invariants when the shell leaves its start and takes characters
  from `/dev/keyboard`, so `ShellHasServices` and `KeyboardAlive` are theorems of `System`, too.
  With `Chunks` (what the shell still writes has the lengths of its calls) every step of the
  system is a step of `Fifo` or leaves it alone: `SSpec => Spec`. From that follow `NoMutualBlock` and
  `ImplementsChannel` for the terminal at work, without `LineFits`.

The proofs rest on the named assumptions about constants in the modules, which
TLC evaluates in every run: sizes are positive, a page of nodes holds at least
two, PIDs and files are what they are, the root is a node, names are not `.`, `..` or `$`,
the cells of the screen can be addressed with 16 bits, a quote is neither a space
nor a backslash, and a null pointer is no string. `Letters` are typed characters other than
the backslash: of lines with one, in pierresh, nothing is said (section 3). `WritingAssumption`
of `Console` says of programs what holds of those in the repository: the prompt has no
control characters, no command takes back characters it has not written, and a colour
command is followed by its colour.

Only model-checked: liveness (`ScanEnds`, `NoStarvation`, `RpcsComplete`,
`PromptAppears`), which needs fairness and `ENABLED`.

Induction over data cannot be cited from the library here; where it was needed (paths,
codes, texts, tokens, lists, sums) the proofs take a least counterexample, from
`NatLessThanWellFounded` or from the well-founded order of finite subsets.

## 5. Not modelled

* Descriptor tables, assembly stubs, formatting and colours, the tar and ELF
  formats, the contents of RAM files and registers, the lengths of names, paths and
  lines: constants of the processor, or data no property tells apart.
* `console.c`: the kernel's own output, on the same screen before the terminal has
  it; nothing reads its cursor.
* `lib-mikros/src/stdlib.c`: the kernel's heap once more, over system call 203. What is
  its own is that an RPC handler may interrupt it between two assignments, with
  nothing to guard it.
* The rest of `list.c` (removal, splitting, indices), which nothing calls, and
  `stringbuilder.c`, of which `modules/test` makes one string.
* `ramfs_fifo_available`: `cat` asks it before it reads, and the read waits
  whatever the answer was.
* `ports.c`: it records who may use a port, and no program gives one back.
* The numbers `urnd_prov` makes, the messages printed during boot, what a key
  struck too early means to the driver.
* What happens when memory is exhausted, and frames above 256 MB.

## 6. Plan

Done: `Scheduler`, `Processes`; `Fifo`, `ByteChannel`; `Heap`, `Allocator`; `Memory`;
`Vfs`, `ExecPath`, `Keyboard`; `Handles`; `Lists`, `Strings`, `Terminal`, `Console`, `Boot`,
`System`; the proofs of section 4, which state every invariant the runs check.

What is left: which of the saved contexts are still those of their tasks without `DriversStay`,
when a driver ends in the middle of a call (the order of the calls is proved without it,
`ServedInTurn`); and the liveness properties, for whose
proofs the steps of a fair task would have to be followed to the end of its call.
