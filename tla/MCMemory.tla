------------------------------ MODULE MCMemory ------------------------------
EXTENDS Memory

(* Two tasks take all twelve frames, and one of them and some debris fewer; *)
(* five shared pages, four of which the making of a page directory needs    *)
(* for a while, so that a second task can start when the page the first one *)
(* holds was given back; and one private page, the image, which is free     *)
(* again for the program to ask for once it has given it back.              *)
MCFrames       == 1 .. 12
MCSharedPages  == 1 .. 5
MCPrivatePages == {11}
MCImage        == {11}
=============================================================================
