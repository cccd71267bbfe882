----------------------------- MODULE MCHandles -----------------------------
EXTENDS Handles, TLC

CONSTANTS vga, elf, tty

Symmetric == Permutations(Handle)

(* What programs pass to fopen.                                             *)
ReadWrite == {{"FM_READ"}, {"FM_WRITE"}}
=============================================================================
