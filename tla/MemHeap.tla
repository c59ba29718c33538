------------------------------ MODULE MemHeap -------------------------------
(***************************************************************************)
(* The heap of lwIP (mem.c): blocks with a header, linked both ways by     *)
(* their offsets in ram, first fit from the lowest free block, free        *)
(* neighbours joined.  Offsets and sizes are multiples of MEM_ALIGNMENT.   *)
(* next, prev and used are the words of the headers in ram: where no       *)
(* header is left, they hold what was there before.                        *)
(*                                                                         *)
(* NO_SYS: nobody else uses the heap during a call.                        *)
(***************************************************************************)
EXTENDS Integers

CONSTANTS Size,      \* MEM_SIZE_ALIGNED, the offset of ram_end
          H,         \* SIZEOF_STRUCT_MEM
          MinSize,   \* MIN_SIZE_ALIGNED
          Sizes      \* aligned sizes the callers ask for

ASSUME MemHeapAssumption ==
    /\ {Size, H, MinSize} \subseteq Nat \ {0}
    /\ H + MinSize <= Size
    /\ Sizes \subseteq Nat \ {0}

VARIABLES next, prev, used,
          lfree,     \* the lowest free block, or ram_end
          hdrs,      \* history: offsets with a header, without ram_end
          len,       \* history: what the owner of each block may use
          aborted    \* an assertion has failed

vars == <<next, prev, used, lfree, hdrs, len, aborted>>

Offsets == 0 .. Size

\* mem_init
Init == /\ next = [p \in Offsets |-> Size]
        /\ prev = [p \in Offsets |-> IF p = Size THEN Size ELSE 0]
        /\ used = [p \in Offsets |-> IF p = Size THEN 1 ELSE 0]
        /\ lfree = 0
        /\ hdrs = {0}
        /\ len = [p \in Offsets |-> 0]
        /\ aborted = FALSE

Owned == {p \in hdrs : len[p] > 0}

Room(p) == next[p] - (p + H)

AtLeastMin(n) == IF n < MinSize THEN MinSize ELSE n

\* The header at ptr2 is put between the blocks p and q.
LinkIn(p, ptr2, q) ==
    /\ next' = [next EXCEPT ![p] = ptr2, ![ptr2] = q]
    /\ prev' = [x \in Offsets |-> IF x = ptr2 THEN p
                                  ELSE IF x = q /\ q # Size THEN ptr2 ELSE prev[x]]

-----------------------------------------------------------------------------
\* Mutant: the header is not counted.
FitsUnsigned(p, size) == used[p] = 0 /\ next[p] - p >= size

Fits(p, size) == used[p] = 0 /\ Room(p) >= size

\* The first block from lfree that is free and large enough.
FirstFit(size) ==
    LET found == {p \in hdrs : lfree <= p /\ p < Size - size /\ Fits(p, size)}
    IN  {p \in found : \A q \in found : p <= q}

\* The next free block from p on: lfree after the block at lfree was taken.
NextFree(p) ==
    {q \in hdrs' \cup {Size} :
        /\ p <= q
        /\ q = Size \/ used'[q] = 0
        /\ \A r \in hdrs' : p <= r /\ used'[r] = 0 => q <= r}

AdjustLfree(p) ==
    IF p = lfree THEN \E q \in NextFree(p) : lfree' = q ELSE lfree' = lfree

\* Mutant: the remainder may be too small for a block.
SplitsTight(p, size) == Room(p) >= size + H

Splits(p, size) == Room(p) >= size + H + MinSize

mem_malloc(n) ==
    LET size == AtLeastMin(n)
    IN  /\ ~aborted
        /\ \/ \E p \in FirstFit(size) :
                /\ IF Splits(p, size)
                   THEN LET ptr2 == p + H + size
                        IN  /\ LinkIn(p, ptr2, next[p])
                            /\ used' = [used EXCEPT ![ptr2] = 0, ![p] = 1]
                            /\ hdrs' = hdrs \cup {ptr2}
                   ELSE /\ used' = [used EXCEPT ![p] = 1]
                        /\ UNCHANGED <<next, prev, hdrs>>
                /\ len' = [len EXCEPT ![p] = n]
                /\ AdjustLfree(p)
           \/ /\ FirstFit(size) = {}
              /\ UNCHANGED <<next, prev, used, lfree, hdrs, len>>
        /\ UNCHANGED aborted

-----------------------------------------------------------------------------
\* plug_holes: the end of the block at p joined with a free one behind it.
PlugForward(p) == IF next[p] # Size /\ used[next[p]] = 0 THEN next[next[p]] ELSE next[p]

\* Mutant: the block before is not looked at.
PlugBackwardNot(p) == p

\* plug_holes: the start of the block at p joined with a free one before it.
PlugBackward(p) == IF prev[p] # p /\ used[prev[p]] = 0 THEN prev[p] ELSE p

\* lfree in mem_free and plug_holes.
LfreeAfterFree(p) ==
    LET low == IF p < lfree THEN p ELSE lfree
        fwd == IF PlugForward(p) # next[p] /\ low = next[p] THEN p ELSE low
    IN  IF fwd = p THEN PlugBackward(p) ELSE fwd

\* mem_free by the owner of the block.
mem_free(p) ==
    LET end == PlugForward(p)
        base == PlugBackward(p)
    IN  /\ ~aborted
        /\ used' = [used EXCEPT ![p] = 0]
        /\ next' = [next EXCEPT ![p] = end, ![base] = end]
        /\ prev' = IF end = Size THEN prev ELSE [prev EXCEPT ![end] = base]
        /\ lfree' = LfreeAfterFree(p)
        /\ hdrs' = hdrs \ ((IF end # next[p] THEN {next[p]} ELSE {})
                           \cup (IF base # p THEN {p} ELSE {}))
        /\ len' = [len EXCEPT ![p] = 0]
        /\ UNCHANGED aborted

-----------------------------------------------------------------------------
\* mem_trim: the free block behind begins earlier.
MoveNext(p, ptr2) ==
    /\ lfree' = IF lfree = next[p] THEN ptr2 ELSE lfree
    /\ LinkIn(p, ptr2, next[next[p]])
    /\ used' = [used EXCEPT ![ptr2] = 0]
    /\ hdrs' = (hdrs \ {next[p]}) \cup {ptr2}
    /\ UNCHANGED aborted

\* mem_trim: the rest becomes a free block of its own.  Before, it is asserted
\* that the block is not the last one.
CutOff(p, ptr2) ==
    IF next[p] = Size
    THEN aborted' = TRUE /\ UNCHANGED <<next, prev, used, lfree, hdrs>>
    ELSE /\ lfree' = IF ptr2 < lfree THEN ptr2 ELSE lfree
         /\ LinkIn(p, ptr2, next[p])
         /\ used' = [used EXCEPT ![ptr2] = 0]
         /\ hdrs' = hdrs \cup {ptr2}
         /\ UNCHANGED aborted

\* mem_trim by the owner, who asks for less than he has.
mem_trim(p, n) ==
    LET newsize == AtLeastMin(n)
        ptr2 == p + H + newsize
    IN  /\ ~aborted
        /\ n <= len[p]
        /\ IF newsize < Room(p) /\ used[next[p]] = 0 THEN MoveNext(p, ptr2)
           ELSE IF newsize < Room(p) /\ newsize + H + MinSize <= Room(p) THEN CutOff(p, ptr2)
           ELSE UNCHANGED <<next, prev, used, lfree, hdrs, aborted>>
        /\ len' = IF aborted' THEN len ELSE [len EXCEPT ![p] = n]

Next == \/ \E n \in Sizes : mem_malloc(n)
        \/ \E p \in Owned : mem_free(p)
        \/ \E p \in Owned, n \in Sizes : mem_trim(p, n)

Spec == Init /\ [][Next]_vars

-----------------------------------------------------------------------------
(***************************************************************************)
(* Properties                                                              *)
(***************************************************************************)
\* The types of the variables.
TypeOK ==
    /\ next \in [Offsets -> Offsets]
    /\ prev \in [Offsets -> Offsets]
    /\ used \in [Offsets -> {0, 1}]
    /\ lfree \in hdrs \cup {Size}
    /\ hdrs \subseteq 0 .. Size - 1
    /\ len \in [Offsets -> Nat]
    /\ aborted \in BOOLEAN

\* The headers that next and prev lead to, and no others, partition the heap:
\* no byte is lost between blocks and no two blocks overlap, and each of them
\* has room for a header and the smallest size.
Partitioned ==
    /\ 0 \in hdrs /\ prev[0] = 0
    /\ \A p \in hdrs : /\ next[p] \in hdrs \cup {Size}
                       /\ p + H + MinSize <= next[p]
                       /\ \A q \in hdrs : q <= p \/ next[p] <= q
                       /\ next[p] # Size => prev[next[p]] = p

\* As mem_sanity asserts, there are no two free blocks in a row.
NoFreeNeighbours ==
    \A p \in hdrs : used[p] = 0 /\ next[p] # Size => used[next[p]] = 1

\* No free block is below lfree, where every search begins, and lfree is free:
\* an allocation fails only if no free block is large enough.
LfreeLowest ==
    /\ \A p \in hdrs : used[p] = 0 => lfree <= p
    /\ lfree # Size => used[lfree] = 0

\* A block is marked used exactly while somebody owns it, is as large as its
\* owner believes, and wastes less than the smallest block.
BlocksFit ==
    \A p \in hdrs : /\ used[p] = 1 <=> len[p] > 0
                    /\ used[p] = 1 => /\ len[p] <= Room(p)
                                      /\ Room(p) < AtLeastMin(len[p]) + H + MinSize

\* When all blocks have come back, the heap is a single free block again.
AllBack == Owned = {} => next[0] = Size

\* plug_holes and the two callers that move lfree keep what mem_malloc relies on:
\* free blocks are as large as they can be and are all found by its search.
FreeSafe == TypeOK /\ NoFreeNeighbours /\ LfreeLowest /\ AllBack

\* As mem_trim asserts, the block it cuts is never the last one.
\* Not so (README, Disagreements).
TrimNotLast == ~aborted
=============================================================================
