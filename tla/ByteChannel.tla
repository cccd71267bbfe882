---------------------------- MODULE ByteChannel ----------------------------
(***************************************************************************)
(* What a FIFO file promises: a bounded channel of bytes.  Bytes are        *)
(* numbered in the order they are written; a read takes the oldest ones, in *)
(* that order, each exactly once, and a read or write is whole or nothing.  *)
(***************************************************************************)
EXTENDS Integers, Sequences

CONSTANTS Capacity, Transfers     \* size of the channel, lengths of transfers

VARIABLES sent, received, delivered    \* delivered: the bytes of the last read

cvars == <<sent, received, delivered>>

CInit == sent = 0 /\ received = 0 /\ delivered = <<>>

Send(n) ==
    /\ (sent - received) + n <= Capacity
    /\ sent' = sent + n
    /\ UNCHANGED <<received, delivered>>

Receive(n) ==
    /\ received + n <= sent
    /\ received' = received + n
    /\ delivered' = [j \in 1 .. n |-> received + j]
    /\ UNCHANGED sent

CNext == \E n \in Transfers : Send(n) \/ Receive(n)

CSpec == CInit /\ [][CNext]_cvars
=============================================================================
