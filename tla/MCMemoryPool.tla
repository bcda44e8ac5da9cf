---------------------------- MODULE MCMemoryPool ----------------------------
(* Instance of MemoryPool for TLC: the sizes of MemoryPool.h divided by     *)
(* eight, with a page of five alignments.                                    *)
EXTENDS MemoryPool

\* A fresh page, and one with old values in either counter.
ZeroOrOld == {[quote |-> 0, failed |-> 0], [quote |-> 7, failed |-> 0],
              [quote |-> 0, failed |-> 7]}
=============================================================================
