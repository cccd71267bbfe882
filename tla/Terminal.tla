------------------------------ MODULE Terminal ------------------------------
(***************************************************************************)
(* The terminal driver (ttytovga.c) reads the FIFO /dev/tty0 byte by byte   *)
(* and draws on the screen through /dev/vga (vgacntrl.c), which nobody else *)
(* can open to write.  Fifo numbers bytes; here they get their characters   *)
(* back.  Nobody looks at the screen between the commands the terminal      *)
(* sends for one byte, so they are one step.  A cell is its character; the  *)
(* colour of a cell and the value 0 of a cleared one are not told apart     *)
(* from their look, blank.                                                  *)
(***************************************************************************)
EXTENDS Fifo

CONSTANTS
    tty,                    \* the terminal's task
    Columns, Rows,          \* 80 and 25
    NL, BS, SETCLR, SP      \* the characters it knows, and the blank

ASSUME TerminalAssumption == tty \in Tasks /\ 1 \in ReadLengths
ASSUME ScreenAssumption ==
    /\ Columns \in Nat \ {0} /\ Rows \in Nat \ {0}
    /\ Columns * Rows < 65536
ASSUME CharactersAssumption ==
    /\ NL # BS /\ NL # SETCLR /\ NL # SP /\ BS # SETCLR /\ BS # SP /\ SETCLR # SP

VARIABLES
    text,           \* the characters of the bytes written and not yet read
    vga_buffer,     \* the cells of the screen
    x, y,           \* the cursor
    reads           \* what the byte the terminal waits for is: "char" or "color"

screen == <<vga_buffer, x, y, reads>>
tvars  == <<vars, text, screen>>

Cells == 0 .. Columns * Rows - 1

Blank == [c \in Cells |-> SP]

(* The terminal has the FIFO it made, and has cleared the screen.           *)
TInit ==
    /\ Init
    /\ text = <<>>
    /\ vga_buffer = Blank
    /\ x = 0 /\ y = 0 /\ reads = "char"

-----------------------------------------------------------------------------
(* ramfs_vga_write; an offset is 16 bits wide.                              *)
CMD_SET(vga, offset, char) ==
    IF offset % 65536 \in Cells THEN [vga EXCEPT ![offset % 65536] = char] ELSE vga

CMD_SCROLL(vga) ==
    [c \in Cells |-> IF c + Columns \in Cells THEN vga[c + Columns] ELSE SP]

-----------------------------------------------------------------------------
Wraps(char) == char = NL \/ x > Columns - 1

(* Mutant: the cursor stays below the screen once it has scrolled.          *)
Below_Stays(row) == row

Below(row) == IF row > Rows - 1 THEN row - 1 ELSE row

Back(col, row) ==
    IF col = 0 THEN [x |-> Columns - 1, y |-> row - 1] ELSE [x |-> col - 1, y |-> row]

(* What the terminal does with a character once it has read it.             *)
Show(char) ==
    LET col  == IF Wraps(char) THEN 0 ELSE x
        line == IF Wraps(char) THEN y + 1 ELSE y
        row  == Below(line)
        vga  == IF line > Rows - 1 THEN CMD_SCROLL(vga_buffer) ELSE vga_buffer
    IN \/ /\ char = NL
          /\ x' = col /\ y' = row /\ vga_buffer' = vga
          /\ UNCHANGED reads
       \/ /\ char = SETCLR
          /\ x' = col /\ y' = row /\ vga_buffer' = vga
          /\ reads' = "color"
       \/ /\ char = BS
          /\ LET b == Back(col, row) IN
                /\ x' = b.x /\ y' = b.y
                /\ vga_buffer' = CMD_SET(vga, b.x + b.y * Columns, SP)
          /\ UNCHANGED reads
       \/ /\ char \notin {NL, SETCLR, BS}
          /\ x' = col + 1 /\ y' = row
          /\ vga_buffer' = CMD_SET(vga, col + row * Columns, char)
          /\ UNCHANGED reads

SetColor == reads' = "char" /\ UNCHANGED <<vga_buffer, x, y>>

(* The characters of the bytes just read: the driver's dest.                *)
Delivered == [j \in DOMAIN dest' |-> text[dest'[j] - read]]

(* fread of one byte, and what follows it.                                  *)
TerminalReads ==
    /\ Begin(tty, [op |-> "read", length |-> 1])
    /\ UNCHANGED <<text, screen>>

TerminalShows ==
    /\ ramfs_fifo_read(tty)
    /\ text' = SubSeq(text, Len(Delivered) + 1, Len(text))
    /\ IF reads = "char" THEN Show(Delivered[1]) ELSE SetColor

TerminalWaits == Retry(tty) /\ UNCHANGED <<text, screen>>

TerminalStep == TerminalReads \/ TerminalShows \/ TerminalWaits

(* A task writes characters: fwrite, tried until they fit.                  *)
Writes(t, chars) ==
    /\ Begin(t, [op |-> "write", length |-> Len(chars)])
    /\ UNCHANGED <<text, screen>>

Written(t, chars) ==
    /\ ramfs_fifo_write(t)
    /\ text' = text \o chars
    /\ UNCHANGED screen

WriteWaits(t) == Retry(t) /\ UNCHANGED <<text, screen>>

-----------------------------------------------------------------------------
(* The cursor never leaves the screen to the left, above or below, and to   *)
(* the right only by the one column from which the next character wraps: no *)
(* sequence of newlines, full lines and backspaces draws outside.           *)
CursorOnScreen ==
    /\ x \in 0 .. Columns /\ y \in 0 .. Rows - 1
    /\ Len(text) = pos
=============================================================================
