----------------------------- MODULE Allocator -----------------------------
(***************************************************************************)
(* What malloc and free promise to their callers: every block handed out    *)
(* lies apart from all the blocks that are still in use, at an address that *)
(* is not the null pointer, and only free takes a block back, exactly the   *)
(* one it was asked to.                                                     *)
(***************************************************************************)
EXTENDS Integers

CONSTANT Sizes      \* the sizes asked for

VARIABLE inUse      \* the blocks handed out and not yet taken back

(* Two blocks share no byte.                                                *)
ApartFrom(b, c) ==
    b.address + b.size <= c.address \/ c.address + c.size <= b.address

AInit == inUse = {}

Allocate ==
    \E new \in inUse' :
        /\ new.address > 0 /\ new.size \in Sizes
        /\ \A b \in inUse : ApartFrom(new, b)
        /\ inUse' = inUse \cup {new}

Release == \E b \in inUse : inUse' = inUse \ {b}

ASpec == AInit /\ [][Allocate \/ Release]_inUse
=============================================================================
