----------------------------- MODULE MCKeyboard -----------------------------
EXTENDS Keyboard

(* One key that types, both shift keys, a key with an e0 code and fake      *)
(* shifts, and the one key with an e1 code.                                 *)
MCKeys == {"a", "lshift", "rshift", "up", "pause"}
=============================================================================
