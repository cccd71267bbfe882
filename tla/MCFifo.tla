------------------------------- MODULE MCFifo -------------------------------
EXTENDS Fifo, TLC

CONSTANTS kbc, tty, stsh

Symmetric == Permutations(Tasks)
=============================================================================
