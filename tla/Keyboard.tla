------------------------------ MODULE Keyboard ------------------------------
(***************************************************************************)
(* The keyboard driver's interrupt handler (kbc_driver.c) at work: keys are *)
(* pressed and released, the keyboard sends their scancodes as one, two or  *)
(* more bytes, and every byte makes the handler run once.                   *)
(*                                                                         *)
(* A character is the keycode and the table of kc_to_char it was taken      *)
(* from.  The driver has finished its initialisation.                       *)
(***************************************************************************)
EXTENDS Integers, Sequences

CONSTANTS
    Keys,       \* the keys in use
    MaxStruck,  \* bound on the characters struck
    MaxUnread   \* bound on the bytes the keyboard holds for the handler

ASSUME KeysAssumption ==
    /\ Keys \subseteq {"a", "lshift", "rshift", "up", "pause"}
    /\ MaxStruck \in Nat /\ MaxUnread \in Nat

VARIABLES
    held,               \* the keys held down
    wire,               \* the bytes sent and not yet read from port 0x60
    e0_code, e1_code, e1_prev,  \* the handler's memory between bytes
    key_flags,          \* the keycodes flagged KF_PRESSED
    out,                \* the characters written to /dev/keyboard
    struck              \* the characters that were struck, as the user sees it

driver == <<e0_code, e1_code, e1_prev, key_flags, out>>
vars   == <<held, wire, driver, struck>>

E0 == 224
E1 == 225

Shifts == {"lshift", "rshift"}

(***************************************************************************)
(* The keyboard (scancode set 1).  With a shift key down it wraps the       *)
(* cursor keys in fake shift codes.                                         *)
(***************************************************************************)
Plain == [a |-> 30, lshift |-> 42, rshift |-> 54]

FakeShift(code) == IF held \cap Shifts # {} THEN <<E0, code>> ELSE <<>>

Make(k) ==
    CASE k \in DOMAIN Plain -> <<Plain[k]>>
      [] k = "up"    -> FakeShift(170) \o <<E0, 72>>
      [] k = "pause" -> <<E1, 29, 69, E1, 157, 197>>

Break(k) ==
    CASE k \in DOMAIN Plain -> <<Plain[k] + 128>>
      [] k = "up"    -> <<E0, 200>> \o FakeShift(42)
      [] k = "pause" -> <<>>

Init ==
    /\ held = {} /\ wire = <<>>
    /\ e0_code = 0 /\ e1_code = 0 /\ e1_prev = 0
    /\ key_flags = {} /\ out = <<>> /\ struck = <<>>

Struck(k) ==
    IF k = "a"
    THEN <<[keycode |-> Plain[k], index |-> IF held \cap Shifts # {} THEN 1 ELSE 0]>>
    ELSE <<>>

(* A key goes down, or repeats while it is held.                            *)
Press(k) ==
    /\ Len(struck \o Struck(k)) <= MaxStruck
    /\ Len(wire \o Make(k)) <= MaxUnread
    /\ held' = held \cup {k}
    /\ wire' = wire \o Make(k)
    /\ struck' = struck \o Struck(k)
    /\ UNCHANGED driver

Release(k) ==
    /\ k \in held
    /\ Len(wire \o Break(k)) <= MaxUnread
    /\ held' = held \ {k}
    /\ wire' = wire \o Break(k)
    /\ UNCHANGED <<driver, struck>>

-----------------------------------------------------------------------------
(* sc_to_kc, for scancodes below 128, and the single e1 code.               *)
Extended == [c \in {28, 29, 53, 56, 71, 72, 73, 75, 77, 79, 80, 81, 82, 83} |->
    CASE c \in {28, 29} -> c + 68
      [] c = 53 -> 99
      [] c = 56 -> 100
      [] c \in {71, 72, 73} -> c + 31
      [] c \in {75, 77} -> 105 + (c - 75) \div 2
      [] OTHER -> c + 28]

translate_scancode(set, code) ==
    CASE set = 0 /\ (code <= 82 \/ code \in 86 .. 88) -> code
      [] set = 0 /\ code = 83                         -> 84
      [] set = 1 /\ code \in DOMAIN Extended          -> Extended[code]
      [] set = 2 /\ code = 69 * 256 + 29              -> 119
      [] OTHER                                        -> 0

(* The keycodes with an entry in table 0 of kc_to_char; table 1 has one for *)
(* keycode 1 as well.                                                       *)
Printing == (2 .. 83) \ ({29, 42, 54, 56} \cup (58 .. 70))

(* Mutant: only the left shift key counts.                                  *)
index_Left(flags) == IF 42 \in flags THEN 1 ELSE 0

index(flags) == IF {42, 54} \cap flags # {} THEN 1 ELSE 0

(* Mutant: keycodes without a character are written as well.                *)
getcharfromkc_Zero(flags, keycode) == <<[keycode |-> keycode, index |-> index(flags)]>>

getcharfromkc(flags, keycode) ==
    IF keycode \in Printing \/ (keycode = 1 /\ index(flags) = 1)
    THEN <<[keycode |-> keycode, index |-> index(flags)]>>
    ELSE <<>>

(* Mutant: the bytes that introduce extended codes are not excepted.        *)
IsBreak_Any(byte) == byte >= 128

IsBreak(byte) ==
    /\ byte >= 128
    /\ e1_code # 0 \/ byte # E1
    /\ e0_code # 0 \/ byte # E0

(* The key goes up or down, and a key that goes down types its character.   *)
Strike(keycode, breaks) ==
    LET flags == IF breaks THEN key_flags \ {keycode} ELSE key_flags \cup {keycode}
    IN /\ key_flags' = flags
       /\ out' = IF breaks THEN out ELSE out \o getcharfromkc(flags, keycode)

(* Mutant: the first byte of an e1 code is not counted.                     *)
NextE1_Stuck == e1_code

NextE1 == e1_code + 1

irq_handler ==
    /\ wire # <<>>
    /\ wire' = Tail(wire)
    /\ LET breaks   == IsBreak(Head(wire))
           scancode == IF breaks THEN Head(wire) % 128 ELSE Head(wire)
       IN \/ /\ e0_code = 1 /\ scancode \in {42, 54}        \* fake shift
             /\ e0_code' = 0
             /\ UNCHANGED <<e1_code, e1_prev, key_flags, out>>
          \/ /\ e0_code = 1 /\ scancode \notin {42, 54}
             /\ e0_code' = 0
             /\ Strike(translate_scancode(1, scancode), breaks)
             /\ UNCHANGED <<e1_code, e1_prev>>
          \/ /\ e0_code = 0 /\ e1_code = 2
             /\ e1_code' = 0
             /\ e1_prev' = e1_prev + scancode * 256
             /\ Strike(translate_scancode(2, e1_prev'), breaks)
             /\ UNCHANGED e0_code
          \/ /\ e0_code = 0 /\ e1_code = 1
             /\ e1_prev' = scancode
             /\ e1_code' = NextE1
             /\ Strike(0, breaks)
             /\ UNCHANGED e0_code
          \/ /\ e0_code = 0 /\ e1_code = 0
             /\ e0_code' = IF scancode = E0 THEN 1 ELSE 0
             /\ e1_code' = IF scancode = E1 THEN 1 ELSE 0
             /\ Strike(IF scancode \in {E0, E1} THEN 0 ELSE translate_scancode(0, scancode),
                       breaks)
             /\ UNCHANGED e1_prev
    /\ UNCHANGED <<held, struck>>

Next ==
    \/ \E k \in Keys : Press(k) \/ Release(k)
    \/ irq_handler

Spec == Init /\ [][Next]_vars

-----------------------------------------------------------------------------
(* The driver's variables stay in their ranges and it writes only           *)
(* characters its tables have: never the 0 of a key that prints nothing.    *)
TypeOK ==
    /\ held \subseteq Keys
    /\ wire \in Seq(0 .. 255)
    /\ e0_code \in 0 .. 1 /\ e1_code \in 0 .. 2
    /\ e1_prev \in Nat /\ e1_prev < 256 * 256
    /\ key_flags \subseteq 0 .. 119
    /\ out \in Seq([keycode : Printing \cup {1}, index : 0 .. 1])

(* What the driver writes to /dev/keyboard is what was struck, in order and *)
(* with the shift state of the moment, however the codes of shift keys,     *)
(* extended keys and fake shifts come between.                              *)
TypedAsStruck ==
    /\ Len(out) <= Len(struck)
    /\ out = SubSeq(struck, 1, Len(out))
    /\ wire = <<>> => out = struck

(* Between keys the handler expects no more bytes, and the shift keys it    *)
(* believes to be down are the ones that are.                               *)
InStep ==
    wire = <<>> =>
        /\ e0_code = 0 /\ e1_code = 0
        /\ \A k \in Shifts : Plain[k] \in key_flags <=> k \in held
=============================================================================
