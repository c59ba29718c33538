----------------------------- MODULE MCMemHeap ------------------------------
EXTENDS MemHeap

Small == {1, 3, 4, 7}

\* What the words of former headers still hold is never read.
LiveWords == <<[p \in hdrs |-> <<next[p], prev[p], used[p], len[p]>>], lfree, aborted>>
=============================================================================
