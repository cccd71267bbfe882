------------------------------ MODULE Console ------------------------------
(***************************************************************************)
(* A shell at its terminal: the prompt, a line typed and corrected with     *)
(* getln, the command made of it (stsh.c, pierresh.c), what the command     *)
(* writes, the next prompt.  All of it passes through the FIFO /dev/tty0    *)
(* while the terminal draws at its own pace.                                *)
(*                                                                         *)
(* The task sh stands for the shell and the program it waits for: they      *)
(* write through the same handle and never at the same time.  printf and    *)
(* puts are a sequence of chunks, each the characters of one fwrite.        *)
(***************************************************************************)
EXTENDS Terminal, Strings

SeqX == INSTANCE SequencesExt

CONSTANTS
    sh,             \* the shell's task
    Glyphs,         \* the characters that are drawn
    Prompt,         \* the chunks of the prompt
    Letters,        \* characters that can be typed, besides NL and BS
    QT, BSL, GT,    \* '"', '\' and '>'
    Outputs         \* what a command may write: sequences of chunks

Chars == Glyphs \cup {NL, BS, SETCLR}

Flat(chunks) == SeqX!FlattenSeq(chunks)

ASSUME ConsoleAssumption ==
    /\ sh \in Tasks \ {tty}
    /\ SP \in Glyphs /\ Glyphs \cap {NL, BS, SETCLR} = {}
    /\ Letters \subseteq Glyphs \ {BSL}
    /\ QT \notin {SP, BSL} /\ NULL \notin Seq(Glyphs)

(* The prompt is drawn; a program backspaces over nothing and never leaves  *)
(* a SETCLR without its colour, which may be any byte: due[k], a colour is  *)
(* due behind the k-th character.                                           *)
Plain(str) ==
    \E due \in [0 .. Len(str) -> BOOLEAN] :
        /\ ~due[0] /\ ~due[Len(str)]
        /\ \A k \in 1 .. Len(str) :
               /\ due[k] <=> ~due[k - 1] /\ str[k] = SETCLR
               /\ str[k] = BS => due[k - 1]

ASSUME WritingAssumption ==
    /\ Prompt \in Seq(Seq(Glyphs)) /\ Outputs \subseteq Seq(Seq(Chars))
    /\ \A chunks \in Outputs : Plain(Flat(chunks))
    /\ 1 \in WriteLengths
    /\ \A chunks \in Outputs \cup {Prompt} :
           \A i \in DOMAIN chunks : Len(chunks[i]) \in WriteLengths

VARIABLES
    shell,          \* "stsh" or "pierresh"
    pc,             \* "off", "getln" or "run"
    out,            \* the chunks still to write
    line,           \* instr: the characters up to getln's index
    command         \* the last line run and what fsexec got for it

shellvars == <<shell, pc, out, line, command>>
cvars     == <<tvars, shellvars>>

None == [line |-> <<>>, words |-> <<>>]

CInit ==
    /\ TInit
    /\ shell \in {"stsh", "pierresh"}
    /\ pc = "off" /\ out = <<>> /\ line = <<>> /\ command = None

Start ==
    /\ pc = "off" /\ pc' = "getln" /\ out' = Prompt
    /\ UNCHANGED <<tvars, shell, line, command>>

-----------------------------------------------------------------------------
(* fputs and putchar: one chunk after the other.                            *)
PutChunk ==
    /\ out # <<>> /\ Writes(sh, Head(out))
    /\ UNCHANGED shellvars

ChunkPut ==
    /\ out # <<>> /\ Written(sh, Head(out))
    /\ out' = Tail(out)
    /\ UNCHANGED <<shell, pc, line, command>>

ChunkWaits == WriteWaits(sh) /\ UNCHANGED shellvars

Output == PutChunk \/ ChunkPut \/ ChunkWaits

-----------------------------------------------------------------------------
AtPrompt == pc = "getln" /\ out = <<>>

(* Mutant: backspace is echoed also when the line is empty.                 *)
getln_backspace_Always ==
    /\ line' = IF line = <<>> THEN <<>> ELSE SubSeq(line, 1, Len(line) - 1)
    /\ out' = <<<<BS>>>>

getln_backspace ==
    IF line = <<>> THEN UNCHANGED <<line, out>>
    ELSE line' = SubSeq(line, 1, Len(line) - 1) /\ out' = <<<<BS>>>>

(* One character from the keyboard.                                         *)
getln(char) ==
    /\ AtPrompt
    /\ \/ char = NL /\ pc' = "run" /\ out' = <<<<NL>>>> /\ UNCHANGED line
       \/ char = BS /\ getln_backspace /\ UNCHANGED pc
       \/ /\ char \notin {NL, BS}
          /\ line' = Append(line, char) /\ out' = <<<<char>>>>
          /\ UNCHANGED pc
    /\ UNCHANGED <<tvars, shell, command>>

-----------------------------------------------------------------------------
(* stsh: the tokens of the line.                                            *)
stsh(str) ==
    LET Token(s, sp) == strtoknc(s, sp, {SP}) IN Tokens(str, Token)

(* pierresh: quotes keep spaces and are then dropped; of the arguments, so  *)
(* is every ">", whose redirection is never made: type is 0 throughout.     *)
format(str) ==
    LET tmp == replaceAll(str, <<QT>>, <<>>, {BSL})
    IN replaceAll(tmp, <<BSL, QT>>, <<QT>>, {})

interpret(words) ==
    IF words = <<>> THEN <<>>
    ELSE <<Head(words)>> \o SelectSeq(Tail(words), LAMBDA str : str # <<GT>>)

pierresh(str) ==
    LET newArgs   == list_fromarray(<<>>, split(str, {SP}, {QT}, {BSL}))
        formatted == list_foreach(newArgs.heap, newArgs.ptr, format)
    IN interpret(list_toarray(formatted, newArgs.ptr))

Words(str) == IF shell = "stsh" THEN stsh(str) ELSE pierresh(str)

(* The line is run; the first word names the program, which may write       *)
(* something, or there is none of that name and an error is written.        *)
Run ==
    /\ pc = "run" /\ out = <<>>
    /\ pc' = "getln" /\ line' = <<>>
    /\ LET words == Words(line) IN
         IF words = <<>>
         THEN out' = Prompt /\ UNCHANGED command
         ELSE /\ \E written_by_it \in Outputs : out' = written_by_it \o <<<<NL>>>> \o Prompt
              /\ command' = [line |-> line, words |-> words]
    /\ UNCHANGED <<tvars, shell>>

ConsoleServes == Output \/ Run \/ (TerminalStep /\ UNCHANGED shellvars)

-----------------------------------------------------------------------------
(* When the shell waits for a key and the terminal has drawn all, the cells *)
(* before the cursor are the prompt and the line as the shell has it, and   *)
(* behind it the screen is empty: through corrections, lines longer than    *)
(* the screen is wide, scrolling and colours, what is seen is what runs.    *)
EchoShowsLine ==
    AtPrompt /\ pos = 0 /\ call[sh].op = "none" =>
        LET at    == x + y * Columns
            shown == Flat(Prompt) \o line
        IN /\ Len(shown) <= at
           /\ \A i \in DOMAIN shown : vga_buffer[at - Len(shown) + i - 1] = shown[i]
           /\ \A c \in Cells : c >= at => vga_buffer[c] = SP

(* A command gets the words of the line as its user would read them: runs   *)
(* of characters between spaces and, in pierresh, a space within quotes is  *)
(* no space between words, and the quotes themselves go.                    *)
Separates(str, n) ==
    /\ str[n] = SP
    /\ shell = "pierresh" => Cardinality({k \in 1 .. n : str[k] = QT}) % 2 = 0

Starts(str) == {n \in DOMAIN str : ~Separates(str, n) /\ (n = 1 \/ Separates(str, n - 1))}

(* The members of a set of numbers, in order.                               *)
InOrder(S) ==
    [i \in 1 .. Cardinality(S) |-> CHOOSE n \in S : Cardinality({m \in S : m <= n}) = i]

WordEnd(str, n) ==
    CHOOSE e \in n .. Len(str) :
        /\ \A k \in n .. e : ~Separates(str, k)
        /\ e = Len(str) \/ Separates(str, e + 1)

WordAt(str, n) ==
    LET kept == InOrder({k \in n .. WordEnd(str, n) : shell = "pierresh" => str[k] # QT})
    IN [j \in DOMAIN kept |-> str[kept[j]]]

Read(str) ==
    LET starts == InOrder(Starts(str))
        words  == [i \in DOMAIN starts |-> WordAt(str, starts[i])]
    IN IF shell = "pierresh" THEN interpret(words) ELSE words

ArgumentsAsTyped == command.words = Read(command.line)
=============================================================================
