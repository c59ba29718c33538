--------------------------- MODULE MemHeapProofs ----------------------------
(***************************************************************************)
(* The heap is consistent whatever its size, the size of headers and the   *)
(* order of calls.                                                         *)
(***************************************************************************)
EXTENDS MemHeap, TLAPS

\* The header before another leads to it: what is found by prev is a header.
Backlinked ==
    \A p \in hdrs : p # 0 => prev[p] \in hdrs /\ next[prev[p]] = p

\* The inductive invariant: beside the properties, ram_end counts as used and
\* only headers have owners.
IInv == /\ TypeOK
        /\ used[Size] = 1
        /\ \A p \in Offsets : p \notin hdrs => len[p] = 0
        /\ Partitioned
        /\ Backlinked
        /\ NoFreeNeighbours
        /\ LfreeLowest
        /\ BlocksFit

LEMMA Constants ==
  /\ Size \in Nat /\ H \in Nat /\ MinSize \in Nat
  /\ Size > 0 /\ H > 0 /\ MinSize > 0
  /\ H + MinSize <= Size
  /\ \A n \in Sizes : n \in Nat /\ n > 0
  BY MemHeapAssumption

LEMMA InitIInv == Init => IInv
<1> SUFFICES ASSUME Init PROVE IInv
  OBVIOUS
<1> USE Constants DEF Offsets
<1>1. TypeOK
  <2>1. aborted \in BOOLEAN
    BY Zenon DEF Init
  <2> QED
    BY <2>1 DEF Init, TypeOK
<1>2. used[Size] = 1 /\ next[0] = Size /\ prev[0] = 0 /\ used[0] = 0 /\ len[0] = 0 /\ hdrs = {0}
  BY DEF Init
<1>3. \A p \in Offsets : len[p] = 0
  BY DEF Init
<1>4. Partitioned /\ Backlinked /\ NoFreeNeighbours /\ LfreeLowest /\ BlocksFit
  BY <1>2 DEF Init, Partitioned, Backlinked, NoFreeNeighbours, LfreeLowest, BlocksFit
<1> QED
  BY <1>1, <1>2, <1>3, <1>4 DEF IInv

\* What the invariant says of one header.
LEMMA Header ==
  ASSUME IInv, NEW p \in hdrs
  PROVE  /\ p \in Int /\ 0 <= p /\ p < Size /\ p \in Offsets
         /\ next[p] \in Int /\ next[p] <= Size /\ next[p] \in Offsets
         /\ p + H + MinSize <= next[p]
         /\ next[p] \in hdrs \/ next[p] = Size
         /\ \A q \in hdrs : q \in Int /\ (q <= p \/ next[p] <= q)
<1> USE Constants DEF Offsets
<1>1. p \in 0 .. Size - 1 /\ \A q \in hdrs : q \in 0 .. Size - 1
  BY DEF IInv, TypeOK
<1>2. next[p] \in Offsets
  BY <1>1 DEF IInv, TypeOK
<1> QED
  BY <1>1, <1>2 DEF IInv, Partitioned

\* What it says of all headers.
LEMMA Headers ==
  ASSUME IInv
  PROVE  /\ 0 \in hdrs /\ prev[0] = 0 /\ Size \notin hdrs /\ used[Size] = 1
         /\ \A p \in hdrs :
              /\ p \in Int /\ 0 <= p /\ p < Size /\ p \in Offsets
              /\ next[p] \in Int /\ next[p] <= Size /\ next[p] \in Offsets
              /\ p + H + MinSize <= next[p]
              /\ next[p] \in hdrs \/ next[p] = Size
              /\ \A q \in hdrs : q <= p \/ next[p] <= q
              /\ next[p] # Size => prev[next[p]] = p
              /\ p # 0 => prev[p] \in hdrs /\ next[prev[p]] = p
              /\ used[p] \in {0, 1} /\ len[p] \in Nat
              /\ used[p] = 0 => used[next[p]] = 1
              /\ used[p] = 0 => lfree <= p
              /\ used[p] = 1 <=> len[p] > 0
              /\ used[p] = 1 => /\ len[p] <= next[p] - (p + H)
                                /\ next[p] - (p + H) < AtLeastMin(len[p]) + H + MinSize
<1> USE Constants
<1>1. 0 \in hdrs /\ prev[0] = 0 /\ used[Size] = 1
  BY DEF IInv, Partitioned
<1>2. Size \notin hdrs
  BY DEF IInv, TypeOK
<1>3. ASSUME NEW p \in hdrs
      PROVE  /\ p \in Int /\ 0 <= p /\ p < Size /\ p \in Offsets
             /\ next[p] \in Int /\ next[p] <= Size /\ next[p] \in Offsets
             /\ p + H + MinSize <= next[p]
             /\ next[p] \in hdrs \/ next[p] = Size
             /\ \A q \in hdrs : q <= p \/ next[p] <= q
  BY <1>3, Header
<1>4. ASSUME NEW p \in hdrs
      PROVE  /\ next[p] # Size => prev[next[p]] = p
             /\ p # 0 => prev[p] \in hdrs /\ next[prev[p]] = p
             /\ used[p] = 0 => used[next[p]] = 1
             /\ used[p] = 0 => lfree <= p
  BY <1>4, <1>1 DEF IInv, Partitioned, Backlinked, NoFreeNeighbours, LfreeLowest
<1>5. ASSUME NEW p \in hdrs
      PROVE  used[p] \in {0, 1} /\ len[p] \in Nat
  <2>1. used \in [Offsets -> {0, 1}] /\ len \in [Offsets -> Nat]
    BY DEF IInv, TypeOK
  <2> QED
    BY <1>3, <2>1
<1>6. ASSUME NEW p \in hdrs
      PROVE  /\ used[p] = 1 <=> len[p] > 0
             /\ used[p] = 1 => /\ len[p] <= next[p] - (p + H)
                               /\ next[p] - (p + H) < AtLeastMin(len[p]) + H + MinSize
  BY <1>6 DEF IInv, BlocksFit, Room
<1> QED
  BY <1>1, <1>2, <1>3, <1>4, <1>5, <1>6

\* The types of the functions alone.
LEMMA Types ==
  ASSUME IInv
  PROVE  /\ next \in [Offsets -> Offsets] /\ prev \in [Offsets -> Offsets]
         /\ used \in [Offsets -> {0, 1}] /\ len \in [Offsets -> Nat]
         /\ hdrs \subseteq 0 .. Size - 1 /\ aborted \in BOOLEAN
         /\ lfree \in hdrs \cup {Size}
<1>1. aborted \in BOOLEAN
  BY Zenon DEF IInv, TypeOK
<1> QED
  BY <1>1 DEF IInv, TypeOK

\* The blocks between p and q become a block at p, with an owner of n bytes,
\* and a free one at ptr2.
Carved(p, n, ptr2, q) ==
    /\ p \in hdrs /\ n \in Nat \ {0} /\ ptr2 = p + H + AtLeastMin(n) /\ q \in hdrs \cup {Size}
    /\ ptr2 < next[p] /\ next[p] <= q /\ used[q] = 1 /\ ptr2 + H + MinSize <= q
    /\ \A x \in hdrs : x <= p \/ q <= x \/ used[x] = 0
    /\ LinkIn(p, ptr2, q)
    /\ used' \in [Offsets -> {0, 1}] /\ used'[ptr2] = 0 /\ used'[p] = 1
    /\ \A x \in Offsets : x # p /\ x # ptr2 => used'[x] = used[x]
    /\ hdrs' = {x \in hdrs : x <= p \/ q <= x} \cup {ptr2}
    /\ len' = [len EXCEPT ![p] = n]
    /\ aborted' = aborted

\* Then everything is as it should be if lfree is.
LEMMA Inserted ==
  ASSUME IInv, NEW p, NEW n, NEW ptr2, NEW q, Carved(p, n, ptr2, q),
         LfreeLowest', lfree' \in hdrs' \cup {Size}
  PROVE  IInv'
<1>0. /\ p \in hdrs /\ n \in Nat \ {0} /\ ptr2 = p + H + AtLeastMin(n) /\ q \in hdrs \cup {Size}
      /\ ptr2 < next[p] /\ next[p] <= q /\ used[q] = 1 /\ ptr2 + H + MinSize <= q
      /\ \A x \in hdrs : x <= p \/ q <= x \/ used[x] = 0
      /\ LinkIn(p, ptr2, q)
      /\ used' \in [Offsets -> {0, 1}] /\ used'[ptr2] = 0 /\ used'[p] = 1
      /\ \A x \in Offsets : x # p /\ x # ptr2 => used'[x] = used[x]
      /\ hdrs' = {x \in hdrs : x <= p \/ q <= x} \cup {ptr2}
      /\ len' = [len EXCEPT ![p] = n]
      /\ aborted' = aborted
  BY DEF Carved
<1> USE <1>0
<1> USE Constants
<1>1. /\ ptr2 \in Int /\ p < ptr2 /\ ptr2 < q /\ ptr2 # Size
      /\ p \in Int /\ p \in Offsets /\ q \in Int /\ q <= Size
      /\ ptr2 \notin hdrs /\ p + H + MinSize <= ptr2 /\ n <= ptr2 - (p + H)
      /\ 0 <= p /\ next[p] \in Int
  <2>1. AtLeastMin(n) \in Int /\ AtLeastMin(n) >= MinSize /\ AtLeastMin(n) >= n
    BY DEF AtLeastMin
  <2>2. q \in Int /\ q <= Size
    BY Headers
  <2> QED
    BY <2>1, <2>2, Header
<1>o. ptr2 \in Offsets /\ ptr2 \in 0 .. Size - 1 /\ q \in Offsets /\ Size \in Offsets
  BY <1>1 DEF Offsets
<1>b. next' = [next EXCEPT ![p] = ptr2, ![ptr2] = q]
  BY DEF LinkIn
<1>c. prev' = [x \in Offsets |-> IF x = ptr2 THEN p
                                 ELSE IF x = q /\ q # Size THEN ptr2 ELSE prev[x]]
  BY DEF LinkIn
<1>2. TypeOK'
  <2>1. next' \in [Offsets -> Offsets]
    BY <1>1, <1>o, Types, <1>b
  <2>2. prev' \in [Offsets -> Offsets]
    BY <1>1, <1>o, Types, <1>c
  <2>4. len' \in [Offsets -> Nat]
    BY <1>1, Types
  <2>5. hdrs' \subseteq 0 .. Size - 1
    BY <1>o, Types
  <2>6. aborted' \in BOOLEAN
    BY Types, Zenon
  <2> QED
    BY <2>1, <2>2, <2>4, <2>5, <2>6, Zenon DEF TypeOK, Offsets
<1>3. /\ next'[p] = ptr2 /\ next'[ptr2] = q
      /\ \A x \in Offsets : x # p /\ x # ptr2 => next'[x] = next[x]
  BY <1>1, <1>o, Types, <1>b
<1>4. /\ prev'[ptr2] = p /\ (q # Size => prev'[q] = ptr2)
      /\ \A x \in Offsets : x # ptr2 /\ (x = q => x = Size) => prev'[x] = prev[x]
  BY <1>1, <1>o, <1>c
<1>6. len'[p] = n /\ \A x \in Offsets : x # p => len'[x] = len[x]
  BY <1>1, Types
<1>7. len[ptr2] = 0
  BY <1>1, <1>o DEF IInv
<1>k. ASSUME NEW x \in hdrs', x # p, x # ptr2
      PROVE  /\ x \in hdrs /\ x \in Offsets /\ x \in Int
             /\ next'[x] = next[x] /\ used'[x] = used[x] /\ len'[x] = len[x]
             /\ next[x] \in Int /\ x + H + MinSize <= next[x]
             /\ next[x] <= p \/ q <= x
  <2>1. x \in hdrs /\ x \in Offsets /\ x \in Int /\ next[x] \in Int
        /\ x + H + MinSize <= next[x] /\ (p <= x \/ next[x] <= p) /\ (x <= p \/ q <= x)
    BY <1>k, Headers
  <2>2. next'[x] = next[x] /\ used'[x] = used[x] /\ len'[x] = len[x]
    BY <1>k, <2>1, <1>3, <1>6
  <2>3. next[x] <= p \/ q <= x
    BY <1>k, <2>1, <1>1
  <2> QED
    BY <2>1, <2>2, <2>3
<1>8. Partitioned'
  <2>1. 0 \in hdrs' /\ prev'[0] = 0
    BY <1>1, <1>4, Headers
  <2>2. ASSUME NEW x \in hdrs'
        PROVE  next'[x] \in hdrs' \cup {Size} /\ x + H + MinSize <= next'[x]
    <3>1. CASE x = p
      BY <3>1, <1>1, <1>3
    <3>2. CASE x = ptr2
      BY <3>2, <1>1, <1>3
    <3>3. CASE x # p /\ x # ptr2
      <4>1. next[x] \in hdrs \cup {Size} /\ (next[x] <= p \/ q <= next[x])
        BY <3>3, <1>k, <1>1, Headers
      <4> QED
        BY <3>3, <4>1, <1>k
    <3> QED
      BY <3>1, <3>2, <3>3
  <2>3. ASSUME NEW x \in hdrs', NEW y \in hdrs'
        PROVE  y <= x \/ next'[x] <= y
    <3>0. y \in Int /\ (y <= p \/ y = ptr2 \/ q <= y)
      BY <1>1, Headers
    <3>1. CASE x = p
      BY <3>0, <3>1, <1>1, <1>3
    <3>2. CASE x = ptr2
      BY <3>0, <3>2, <1>1, <1>3
    <3>3. CASE x # p /\ x # ptr2
      <4>1. CASE y = ptr2
        BY <4>1, <3>3, <1>k, <1>1
      <4>2. CASE y # ptr2
        <5>1. y \in hdrs /\ x \in hdrs /\ next'[x] = next[x]
          BY <4>2, <3>3, <1>k
        <5> QED
          BY <5>1, Headers
      <4> QED
        BY <4>1, <4>2
    <3> QED
      BY <3>1, <3>2, <3>3
  <2>4. ASSUME NEW x \in hdrs', next'[x] # Size
        PROVE  prev'[next'[x]] = x
    <3>1. CASE x = p
      BY <3>1, <1>3, <1>4
    <3>2. CASE x = ptr2
      BY <2>4, <3>2, <1>3, <1>4
    <3>3. CASE x # p /\ x # ptr2
      <4>1. next'[x] = next[x] /\ x \in hdrs /\ prev[next[x]] = x /\ next[x] \in Offsets /\ next[x] \in hdrs
        BY <3>3, <2>4, <1>k, Headers
      <4>2. next[x] # q /\ next[x] # ptr2
        <5>1. next[x] # ptr2
          BY <4>1, <1>1
        <5>2. ASSUME next[x] = q PROVE FALSE
          <6>1. x < p /\ q <= p
            BY <5>2, <3>3, <1>k, <1>1
          <6> QED
            BY <6>1, <1>1
        <5> QED
          BY <5>1, <5>2
      <4> QED
        BY <4>1, <4>2, <1>4
    <3> QED
      BY <3>1, <3>2, <3>3
  <2> QED
    BY <2>1, <2>2, <2>3, <2>4 DEF Partitioned
<1>9. NoFreeNeighbours'
  <2> SUFFICES ASSUME NEW x \in hdrs', used'[x] = 0, next'[x] # Size
               PROVE  used'[next'[x]] = 1
    BY DEF NoFreeNeighbours
  <2>1. CASE x = ptr2
    BY <2>1, <1>1, <1>o, <1>3
  <2>2. CASE x # p /\ x # ptr2
    <3>1. next'[x] = next[x] /\ used[next[x]] = 1 /\ next[x] \in Offsets
      BY <2>2, <1>k, Headers
    <3>2. next[x] # ptr2
      BY <2>2, <1>k, <1>1, Headers
    <3> QED
      BY <3>1, <3>2
  <2> QED
    BY <2>1, <2>2
<1>10. BlocksFit'
  <2> SUFFICES ASSUME NEW x \in hdrs'
               PROVE  /\ used'[x] = 1 <=> len'[x] > 0
                      /\ used'[x] = 1 => /\ len'[x] <= next'[x] - (x + H)
                                         /\ next'[x] - (x + H) < AtLeastMin(len'[x]) + H + MinSize
    BY DEF BlocksFit, Room, AtLeastMin
  <2>1. CASE x = ptr2
    BY <2>1, <1>1, <1>o, <1>6, <1>7
  <2>2. CASE x = p
    <3>1. AtLeastMin(n) \in Int
      BY DEF AtLeastMin
    <3> QED
      BY <3>1, <2>2, <1>1, <1>3, <1>6
  <2>3. CASE x # p /\ x # ptr2
    <3>1. x \in hdrs /\ next'[x] = next[x] /\ used'[x] = used[x] /\ len'[x] = len[x]
      BY <2>3, <1>k
    <3> QED
      BY <3>1, Headers
  <2> QED
    BY <2>1, <2>2, <2>3
<1>11. Backlinked'
  <2> SUFFICES ASSUME NEW x \in hdrs', x # 0
               PROVE  prev'[x] \in hdrs' /\ next'[prev'[x]] = x
    BY DEF Backlinked
  <2>1. CASE x = ptr2
    BY <2>1, <1>1, <1>3, <1>4
  <2>2. CASE x = q
    <3>1. x # Size
      BY <2>2, <1>1, Headers
    <3> QED
      BY <2>2, <3>1, <1>3, <1>4
  <2>3. CASE x # ptr2 /\ x # q
    <3>1. /\ x \in hdrs /\ x \in Int /\ prev'[x] = prev[x] /\ prev[x] \in hdrs /\ next[prev[x]] = x
          /\ x <= p \/ q <= x
      BY <2>3, <1>4, Headers
    <3>2. /\ prev[x] \in Int /\ prev[x] < x /\ (q \in hdrs => q <= prev[x] \/ x <= q)
          /\ prev[x] \in Offsets /\ prev[x] # ptr2
      <4> DEFINE y == prev[x]
      <4>1. y \in hdrs /\ next[y] = x
        BY <3>1
      <4> HIDE DEF y
      <4>2. y \in Int /\ y < x /\ (q \in hdrs => q <= y \/ x <= q) /\ y \in Offsets /\ y # ptr2
        BY <4>1, <1>1, Headers
      <4> QED
        BY <4>2 DEF y
    <3>3. prev[x] # p /\ (prev[x] <= p \/ q <= prev[x])
      <4>1. CASE x <= p
        BY <4>1, <3>1, <3>2, <1>1
      <4>2. CASE q < x
        BY <4>2, <3>1, <3>2, <1>1, Headers
      <4> QED
        BY <4>1, <4>2, <2>3, <3>1, <1>1
    <3> QED
      BY <3>1, <3>2, <3>3, <1>3
  <2> QED
    BY <2>1, <2>2, <2>3
<1>12. used'[Size] = 1 /\ \A x \in Offsets : x \notin hdrs' => len'[x] = 0
  <2>1. used'[Size] = 1
    BY <1>1, <1>o, Headers
  <2>2. ASSUME NEW x \in Offsets, x \notin hdrs' PROVE len'[x] = 0
    <3>1. x # p /\ len'[x] = len[x]
      BY <2>2, <1>1, <1>6
    <3>2. CASE x \notin hdrs
      BY <3>1, <3>2 DEF IInv
    <3>3. CASE x \in hdrs
      <4>1. ~(x <= p) /\ ~(q <= x) /\ x \in Int
        BY <2>2, <3>3, Headers
      <4> QED
        BY <3>1, <3>3, <4>1, Headers
    <3> QED
      BY <3>2, <3>3
  <2> QED
    BY <2>1, <2>2
<1> QED
  BY <1>2, <1>8, <1>9, <1>10, <1>11, <1>12 DEF IInv

\* lfree after the block at p was taken.
LEMMA Adjusted ==
  ASSUME IInv, NEW p \in hdrs, used[p] = 0, used'[p] = 1, AdjustLfree(p),
         hdrs \subseteq hdrs', hdrs' \subseteq 0 .. Size - 1,
         \A x \in hdrs : x # p => used'[x] = used[x],
         \A x \in hdrs' : x \notin hdrs => p < x
  PROVE  LfreeLowest' /\ lfree' \in hdrs' \cup {Size}
<1> USE Constants
<1>1. lfree \in hdrs \cup {Size} /\ (lfree # Size => used[lfree] = 0) /\ lfree <= p
  BY Types, Headers DEF IInv, LfreeLowest
<1>2. p \in Int /\ p < Size /\ Size \notin hdrs' /\ \A x \in hdrs' : x \in Int
  BY Headers
<1>3. CASE p = lfree
  <2>1. PICK q \in NextFree(p) : lfree' = q
    BY <1>3 DEF AdjustLfree
  <2>2. /\ q \in hdrs' \cup {Size} /\ (q # Size => used'[q] = 0)
        /\ \A r \in hdrs' : p <= r /\ used'[r] = 0 => q <= r
    BY <2>1 DEF NextFree
  <2>3. ASSUME NEW x \in hdrs', used'[x] = 0 PROVE p <= x
    BY <2>3, <1>2, <1>3, Headers
  <2> QED
    BY <2>1, <2>2, <2>3 DEF LfreeLowest
<1>4. CASE p # lfree
  <2>1. lfree' = lfree
    BY <1>4 DEF AdjustLfree
  <2>2. lfree \in hdrs /\ used'[lfree] = 0 /\ lfree \in Int
    BY <1>1, <1>2, <1>4, Headers
  <2>3. ASSUME NEW x \in hdrs', used'[x] = 0 PROVE lfree <= x
    BY <2>3, <1>1, <1>2, <2>2, Headers
  <2> QED
    BY <2>1, <2>2, <2>3 DEF LfreeLowest
<1> QED
  BY <1>3, <1>4

\* A block that is not split.
LEMMA Whole ==
  ASSUME IInv, NEW p \in hdrs, NEW n \in Nat \ {0}, used[p] = 0,
         AtLeastMin(n) <= Room(p), Room(p) < AtLeastMin(n) + H + MinSize,
         used' = [used EXCEPT ![p] = 1], UNCHANGED <<next, prev, hdrs, aborted>>,
         len' = [len EXCEPT ![p] = n], AdjustLfree(p)
  PROVE  IInv'
<1> USE Constants
<1>1. p \in Offsets
  BY Header
<1>2. used'[p] = 1 /\ \A x \in Offsets : x # p => used'[x] = used[x]
  BY <1>1, Types
<1>3. len'[p] = n /\ \A x \in Offsets : x # p => len'[x] = len[x]
  BY <1>1, Types
<1>4. LfreeLowest' /\ lfree' \in hdrs' \cup {Size}
  BY <1>2, Types, Headers, Adjusted
<1>5. TypeOK'
  <2>1. used' \in [Offsets -> {0, 1}]
    BY <1>1, Types
  <2>2. len' \in [Offsets -> Nat]
    BY <1>1, Types
  <2> QED
    BY <2>1, <2>2, <1>4, Types, Zenon DEF TypeOK, Offsets
<1>6. Partitioned' /\ Backlinked'
  BY DEF IInv, Partitioned, Backlinked
<1>7. NoFreeNeighbours'
  BY <1>2, Headers DEF NoFreeNeighbours
<1>8. BlocksFit'
  <2> SUFFICES ASSUME NEW x \in hdrs
               PROVE  /\ used'[x] = 1 <=> len'[x] > 0
                      /\ used'[x] = 1 => /\ len'[x] <= next[x] - (x + H)
                                         /\ next[x] - (x + H) < AtLeastMin(len'[x]) + H + MinSize
    BY DEF BlocksFit, Room, AtLeastMin
  <2>1. CASE x = p
    BY <2>1, <1>2, <1>3, Header DEF AtLeastMin, Room
  <2>2. CASE x # p
    <3>1. x \in Offsets /\ used'[x] = used[x] /\ len'[x] = len[x]
      BY <2>2, <1>2, <1>3, Headers
    <3> QED
      BY <3>1, Headers
  <2> QED
    BY <2>1, <2>2
<1>9. used'[Size] = 1 /\ \A x \in Offsets : x \notin hdrs' => len'[x] = 0
  <2>1. Size \in Offsets /\ Size # p
    BY Headers DEF Offsets
  <2> QED
    BY <2>1, <1>2, <1>3 DEF IInv
<1> QED
  BY <1>4, <1>5, <1>6, <1>7, <1>8, <1>9 DEF IInv

LEMMA MallocIInv ==
  ASSUME IInv, NEW n \in Sizes, mem_malloc(n)
  PROVE  IInv'
<1> USE Constants
<1>1. n \in Nat \ {0} /\ AtLeastMin(n) \in Nat /\ AtLeastMin(n) >= n /\ AtLeastMin(n) >= MinSize
  BY DEF AtLeastMin
<1>2. CASE UNCHANGED vars
  BY <1>2 DEF IInv, TypeOK, Partitioned, Backlinked, NoFreeNeighbours, LfreeLowest, BlocksFit,
            vars, Room, AtLeastMin
<1>3. ASSUME NEW p \in FirstFit(AtLeastMin(n)), Splits(p, AtLeastMin(n)),
             LinkIn(p, p + H + AtLeastMin(n), next[p]),
             used' = [used EXCEPT ![p + H + AtLeastMin(n)] = 0, ![p] = 1],
             hdrs' = hdrs \cup {p + H + AtLeastMin(n)},
             len' = [len EXCEPT ![p] = n], AdjustLfree(p), aborted' = aborted
      PROVE  IInv'
  <2> DEFINE ptr2 == p + H + AtLeastMin(n)
             q == next[p]
  <2>1. p \in hdrs /\ used[p] = 0 /\ next[p] - (p + H) >= AtLeastMin(n) + H + MinSize
    BY <1>3 DEF FirstFit, Fits, Splits, Room
  <2>2. /\ q \in hdrs \cup {Size} /\ used[q] = 1 /\ q \in Int /\ p \in Int /\ p \in Offsets
        /\ 0 <= p /\ q <= Size
    BY <2>1, Headers
  <2>3. /\ ptr2 \in Int /\ p < ptr2 /\ ptr2 < q /\ ptr2 + H + MinSize <= q /\ ptr2 \in Offsets
        /\ ptr2 \in 0 .. Size - 1
    BY <1>1, <2>1, <2>2 DEF Offsets
  <2>4. used' = [used EXCEPT ![ptr2] = 0, ![p] = 1] /\ hdrs' = hdrs \cup {ptr2} /\ LinkIn(p, ptr2, q)
    BY <1>3
  <2>5. ptr2 = p + H + AtLeastMin(n) /\ q = next[p]
    OBVIOUS
  <2> HIDE DEF ptr2, q
  <2>6. /\ used' \in [Offsets -> {0, 1}] /\ used'[ptr2] = 0 /\ used'[p] = 1
        /\ \A x \in Offsets : x # p /\ x # ptr2 => used'[x] = used[x]
    BY <2>2, <2>3, <2>4, Types
  <2>7. \A x \in hdrs : x \in Int /\ (x <= p \/ q <= x) /\ x \in Offsets
    BY <2>1, <2>5, Headers
  <2>8. hdrs' = {x \in hdrs : x <= p \/ q <= x} \cup {ptr2} /\ ptr2 \notin hdrs
    <3>1. ptr2 \notin hdrs
      BY <2>2, <2>3, <2>7
    <3>2. hdrs = {x \in hdrs : x <= p \/ q <= x}
      BY <2>7
    <3> QED
      BY <2>4, <3>1, <3>2
  <2>9. LfreeLowest' /\ lfree' \in hdrs' \cup {Size}
    <3>1. hdrs \subseteq hdrs' /\ hdrs' \subseteq 0 .. Size - 1
      BY <2>3, <2>4, Types
    <3>2. \A x \in hdrs : x # p => used'[x] = used[x]
      BY <2>6, <2>7, <2>8
    <3>3. \A x \in hdrs' : x \notin hdrs => p < x
      BY <2>3, <2>4
    <3> QED
      BY <1>3, <2>1, <2>6, <3>1, <3>2, <3>3, Adjusted
  <2>10. next[p] <= q /\ ptr2 < next[p] /\ \A x \in hdrs : x <= p \/ q <= x \/ used[x] = 0
    BY <2>2, <2>3, <2>5, <2>7
  <2>11. /\ p \in hdrs /\ n \in Nat \ {0} /\ ptr2 = p + H + AtLeastMin(n) /\ q \in hdrs \cup {Size}
         /\ used[q] = 1 /\ ptr2 + H + MinSize <= q /\ LinkIn(p, ptr2, q)
         /\ len' = [len EXCEPT ![p] = n] /\ aborted' = aborted
    BY <1>1, <1>3, <2>1, <2>2, <2>3, <2>4, <2>5
  <2>12. Carved(p, n, ptr2, q)
    BY <2>6, <2>8, <2>10, <2>11 DEF Carved
  <2> QED
    BY <2>9, <2>12, Inserted
<1>4. ASSUME NEW p \in FirstFit(AtLeastMin(n)), ~Splits(p, AtLeastMin(n)),
             used' = [used EXCEPT ![p] = 1], UNCHANGED <<next, prev, hdrs>>,
             len' = [len EXCEPT ![p] = n], AdjustLfree(p), aborted' = aborted
      PROVE  IInv'
  <2>1. p \in hdrs /\ used[p] = 0 /\ Room(p) >= AtLeastMin(n)
    BY <1>4 DEF FirstFit, Fits
  <2>2. Room(p) \in Int
    BY <2>1, Header DEF Room
  <2>3. Room(p) < AtLeastMin(n) + H + MinSize
    BY <1>1, <1>4, <2>2 DEF Splits
  <2>4. AtLeastMin(n) <= Room(p)
    BY <1>1, <2>1, <2>2
  <2> QED
    BY <1>1, <1>4, <2>1, <2>3, <2>4, Whole
<1> QED
  BY <1>2, <1>3, <1>4 DEF mem_malloc, vars

\* Only the size the owner has changes.
LEMMA Resized ==
  ASSUME IInv, NEW p \in hdrs, NEW n \in Nat \ {0}, used[p] = 1, n <= len[p],
         Room(p) < AtLeastMin(n) + H + MinSize,
         UNCHANGED <<next, prev, used, lfree, hdrs, aborted>>,
         len' = [len EXCEPT ![p] = n]
  PROVE  IInv'
<1> USE Constants
<1>1. p \in Offsets
  BY Header
<1>2. len'[p] = n /\ \A x \in Offsets : x # p => len'[x] = len[x]
  BY <1>1, Types
<1>3. TypeOK'
  <2>1. len' \in [Offsets -> Nat]
    BY <1>1, Types
  <2> QED
    BY <2>1, Types, Zenon DEF TypeOK, Offsets
<1>4. Partitioned' /\ Backlinked' /\ NoFreeNeighbours' /\ LfreeLowest' /\ used'[Size] = 1
  BY DEF IInv, Partitioned, Backlinked, NoFreeNeighbours, LfreeLowest
<1>5. BlocksFit'
  <2> SUFFICES ASSUME NEW x \in hdrs
               PROVE  /\ used[x] = 1 <=> len'[x] > 0
                      /\ used[x] = 1 => /\ len'[x] <= next[x] - (x + H)
                                        /\ next[x] - (x + H) < AtLeastMin(len'[x]) + H + MinSize
    BY DEF BlocksFit, Room, AtLeastMin
  <2>1. CASE x = p
    <3>1. len[p] \in Nat /\ len[p] <= next[p] - (p + H) /\ next[p] \in Int /\ p \in Int
      BY Headers
    <3>2. next[p] - (p + H) < AtLeastMin(n) + H + MinSize
      BY DEF Room
    <3> QED
      BY <2>1, <1>2, <3>1, <3>2
  <2>2. CASE x # p
    <3>1. x \in Offsets /\ len'[x] = len[x]
      BY <2>2, <1>2, Headers
    <3> QED
      BY <3>1, Headers
  <2> QED
    BY <2>1, <2>2
<1>6. \A x \in Offsets : x \notin hdrs' => len'[x] = 0
  BY <1>2 DEF IInv
<1> QED
  BY <1>3, <1>4, <1>5, <1>6 DEF IInv

LEMMA TrimIInv ==
  ASSUME IInv, NEW p \in Owned, NEW n \in Sizes, mem_trim(p, n)
  PROVE  IInv'
<1> USE Constants
<1> DEFINE ptr2 == p + H + AtLeastMin(n)
<1>1. /\ n \in Nat \ {0} /\ AtLeastMin(n) \in Nat /\ AtLeastMin(n) >= n /\ AtLeastMin(n) >= MinSize
      /\ ~aborted /\ n <= len[p]
  BY DEF AtLeastMin, mem_trim
<1>2. /\ p \in hdrs /\ used[p] = 1 /\ p \in Int /\ 0 <= p /\ p < Size /\ p \in Offsets
      /\ next[p] \in Int /\ next[p] <= Size /\ Room(p) = next[p] - (p + H)
      /\ next[p] \in hdrs \cup {Size} /\ next[p] \in Offsets
      /\ \A x \in hdrs : x \in Int /\ x \in Offsets /\ (x <= p \/ next[p] <= x)
  BY Headers DEF Owned, Room
<1>3. CASE aborted'
  <2>1. UNCHANGED <<next, prev, used, lfree, hdrs, len>>
    BY <1>1, <1>3, Zenon DEF mem_trim, MoveNext, CutOff
  <2>2. aborted' \in BOOLEAN
    BY <1>3, Zenon
  <2>3. TypeOK'
    BY <2>1, <2>2, Types, Zenon DEF TypeOK, Offsets
  <2> QED
    BY <2>1, <2>3 DEF IInv, Partitioned, Backlinked, NoFreeNeighbours, LfreeLowest, BlocksFit,
                      Room, AtLeastMin
<1>4. ASSUME AtLeastMin(n) < Room(p), used[next[p]] = 0, MoveNext(p, ptr2),
             len' = [len EXCEPT ![p] = n]
      PROVE  IInv'
  <2> DEFINE nx == next[p]
             q == next[nx]
  <2>1. /\ nx \in hdrs /\ nx \in Int /\ nx + H + MinSize <= q /\ q \in Int /\ q \in hdrs \cup {Size}
        /\ used[q] = 1 /\ q <= Size /\ p < nx
        /\ \A x \in hdrs : x <= nx \/ q <= x
    BY <1>2, <1>4, Headers
  <2>2. /\ ptr2 \in Int /\ p < ptr2 /\ ptr2 < nx /\ ptr2 \in 0 .. Size - 1 /\ ptr2 \in Offsets
        /\ ptr2 + H + MinSize <= q /\ nx <= q
    BY <1>1, <1>2, <1>4, <2>1 DEF Offsets
  <2>3. /\ LinkIn(p, ptr2, q) /\ used' = [used EXCEPT ![ptr2] = 0]
        /\ hdrs' = (hdrs \ {nx}) \cup {ptr2} /\ aborted' = aborted
        /\ lfree' = IF lfree = nx THEN ptr2 ELSE lfree
    BY <1>4 DEF MoveNext
  <2>4. ptr2 = p + H + AtLeastMin(n) /\ nx = next[p]
    OBVIOUS
  <2> HIDE DEF ptr2, nx, q
  <2>5. /\ used' \in [Offsets -> {0, 1}] /\ used'[ptr2] = 0 /\ used'[p] = 1
        /\ \A x \in Offsets : x # ptr2 => used'[x] = used[x]
    BY <1>2, <2>2, <2>3, Types
  <2>6. ptr2 \notin hdrs
    BY <1>2, <2>2, <2>4
  <2>7. \A x \in hdrs : x <= p \/ q <= x \/ x = nx
    BY <1>2, <2>1, <2>4
  <2>8. hdrs' = {x \in hdrs : x <= p \/ q <= x} \cup {ptr2}
    <3>1. \A x \in hdrs : x # nx <=> (x <= p \/ q <= x)
      BY <1>2, <2>1, <2>2, <2>7
    <3> QED
      BY <2>3, <3>1
  <2>9. Carved(p, n, ptr2, q)
    <3>1. \A x \in hdrs : x <= p \/ q <= x \/ used[x] = 0
      BY <2>4, <2>7, <1>4
    <3>2. \A x \in Offsets : x # p /\ x # ptr2 => used'[x] = used[x]
      BY <2>5
    <3> QED
      BY <1>1, <1>2, <1>4, <2>1, <2>2, <2>3, <2>4, <2>5, <2>8, <3>1, <3>2 DEF Carved
  <2>10. LfreeLowest' /\ lfree' \in hdrs' \cup {Size}
    <3>1. lfree \in hdrs \cup {Size} /\ lfree <= nx /\ (lfree # Size => used[lfree] = 0)
      BY <1>4, <2>1, <2>4, Types, Headers DEF IInv, LfreeLowest
    <3>2. CASE lfree = nx
      <4>1. lfree' = ptr2
        BY <3>2, <2>3
      <4>2. ASSUME NEW x \in hdrs', used'[x] = 0 PROVE ptr2 <= x
        <5>1. CASE x = ptr2
          BY <5>1, <2>2
        <5>2. CASE x \in hdrs
          <6>1. used[x] = 0 /\ nx <= x /\ x \in Int
            BY <4>2, <5>2, <3>2, <2>5, <2>6, <1>2, Headers
          <6> QED
            BY <6>1, <2>1, <2>2
        <5> QED
          BY <5>1, <5>2, <2>3
      <4> QED
        BY <4>1, <4>2, <2>3, <2>5 DEF LfreeLowest
    <3>3. CASE lfree # nx
      <4>1. lfree' = lfree /\ lfree \in hdrs /\ lfree \in Int /\ lfree # ptr2 /\ lfree \in Offsets
        BY <3>1, <3>3, <2>1, <2>3, <2>6, <1>2, Headers
      <4>2. lfree < ptr2
        BY <3>1, <3>3, <4>1, <1>2, <2>1, <2>2, <2>4
      <4>3. ASSUME NEW x \in hdrs', used'[x] = 0 PROVE lfree <= x
        <5>1. CASE x = ptr2
          BY <5>1, <2>2, <4>1, <4>2
        <5>2. CASE x \in hdrs
          BY <4>3, <5>2, <2>5, <2>6, <1>2, Headers
        <5> QED
          BY <5>1, <5>2, <2>3
      <4>4. used'[lfree] = 0 /\ lfree \in hdrs'
        BY <4>1, <3>1, <3>3, <2>3, <2>5, Headers
      <4> QED
        BY <4>1, <4>3, <4>4 DEF LfreeLowest
    <3> QED
      BY <3>2, <3>3
  <2> QED
    BY <2>9, <2>10, Inserted
<1>5. ASSUME used[next[p]] # 0, AtLeastMin(n) + H + MinSize <= Room(p), CutOff(p, ptr2),
             next[p] # Size, len' = [len EXCEPT ![p] = n]
      PROVE  IInv'
  <2> DEFINE q == next[p]
  <2>1. q \in hdrs /\ used[q] = 1 /\ q \in Int /\ q <= Size
    BY <1>2, <1>5, Headers
  <2>2. /\ ptr2 \in Int /\ p < ptr2 /\ ptr2 < q /\ ptr2 \in 0 .. Size - 1 /\ ptr2 \in Offsets
        /\ ptr2 + H + MinSize <= q /\ q <= q
    BY <1>1, <1>2, <1>5, <2>1 DEF Offsets
  <2>3. /\ LinkIn(p, ptr2, q) /\ used' = [used EXCEPT ![ptr2] = 0]
        /\ hdrs' = hdrs \cup {ptr2} /\ aborted' = aborted
        /\ lfree' = IF ptr2 < lfree THEN ptr2 ELSE lfree
    BY <1>5 DEF CutOff
  <2>4. ptr2 = p + H + AtLeastMin(n) /\ q = next[p]
    OBVIOUS
  <2> HIDE DEF ptr2, q
  <2>5. /\ used' \in [Offsets -> {0, 1}] /\ used'[ptr2] = 0 /\ used'[p] = 1
        /\ \A x \in Offsets : x # ptr2 => used'[x] = used[x]
    BY <1>2, <2>2, <2>3, Types
  <2>6. ptr2 \notin hdrs
    BY <1>2, <2>2, <2>4
  <2>7. \A x \in hdrs : x <= p \/ q <= x
    BY <1>2, <2>4
  <2>8. hdrs' = {x \in hdrs : x <= p \/ q <= x} \cup {ptr2}
    BY <2>3, <2>7
  <2>9. Carved(p, n, ptr2, q)
    <3>1. \A x \in hdrs : x <= p \/ q <= x \/ used[x] = 0
      BY <2>7
    <3>2. \A x \in Offsets : x # p /\ x # ptr2 => used'[x] = used[x]
      BY <2>5
    <3> QED
      BY <1>1, <1>2, <1>5, <2>1, <2>2, <2>3, <2>4, <2>5, <2>8, <3>1, <3>2 DEF Carved
  <2>10. LfreeLowest' /\ lfree' \in hdrs' \cup {Size}
    <3>1. lfree \in hdrs \cup {Size} /\ lfree \in Int /\ (lfree # Size => used[lfree] = 0)
      <4>1. lfree \in hdrs \cup {Size} /\ (lfree # Size => used[lfree] = 0)
        BY Types DEF IInv, LfreeLowest
      <4>2. Size \in Int /\ \A x \in hdrs : x \in Int
        BY <1>2
      <4> QED
        BY <4>1, <4>2
    <3>2. ASSUME NEW x \in hdrs', used'[x] = 0 PROVE lfree' <= x
      <4>1. CASE x = ptr2
        BY <4>1, <3>1, <2>2, <2>3
      <4>2. CASE x \in hdrs
        <5>1. used[x] = 0 /\ lfree <= x /\ x \in Int
          BY <4>2, <3>2, <2>5, <2>6, <1>2, Headers
        <5> QED
          BY <5>1, <3>1, <2>2, <2>3
      <4> QED
        BY <4>1, <4>2, <2>3
    <3>3. lfree' \in hdrs' \cup {Size} /\ (lfree' # Size => used'[lfree'] = 0)
      BY <3>1, <2>2, <2>3, <2>5, <2>6, <1>2
    <3> QED
      BY <3>2, <3>3 DEF LfreeLowest
  <2> QED
    BY <2>9, <2>10, Inserted
<1>6. ASSUME ~(AtLeastMin(n) < Room(p) /\ used[next[p]] = 0),
             ~(AtLeastMin(n) < Room(p) /\ AtLeastMin(n) + H + MinSize <= Room(p)),
             UNCHANGED <<next, prev, used, lfree, hdrs, aborted>>,
             len' = [len EXCEPT ![p] = n]
      PROVE  IInv'
  <2>1. Room(p) < AtLeastMin(n) + H + MinSize
    BY <1>1, <1>2, <1>6
  <2> QED
    BY <1>1, <1>2, <1>6, <2>1, Resized
<1>7. CASE ~aborted'
  <2>1. len' = [len EXCEPT ![p] = n]
    BY <1>7 DEF mem_trim
  <2>2. CASE AtLeastMin(n) < Room(p) /\ used[next[p]] = 0
    BY <2>1, <2>2, <1>4 DEF mem_trim
  <2>3. CASE /\ ~(AtLeastMin(n) < Room(p) /\ used[next[p]] = 0)
             /\ AtLeastMin(n) < Room(p) /\ AtLeastMin(n) + H + MinSize <= Room(p)
    <3>1. CutOff(p, ptr2)
      BY <2>3 DEF mem_trim
    <3>2. next[p] # Size
      BY <3>1, <1>7 DEF CutOff
    <3> QED
      BY <2>1, <2>3, <3>1, <3>2, <1>5
  <2>4. CASE /\ ~(AtLeastMin(n) < Room(p) /\ used[next[p]] = 0)
             /\ ~(AtLeastMin(n) < Room(p) /\ AtLeastMin(n) + H + MinSize <= Room(p))
    BY <2>1, <2>4, <1>6 DEF mem_trim
  <2> QED
    BY <2>2, <2>3, <2>4
<1> QED
  BY <1>3, <1>7

\* plug_holes: b and e are the ends of the free block that p becomes part of.
LEMMA Plugged ==
  ASSUME IInv, NEW p \in hdrs, used[p] = 1, NEW b, b = PlugBackward(p), NEW e, e = PlugForward(p)
  PROVE  /\ b \in hdrs /\ b \in Int /\ b <= p /\ p < e /\ e \in hdrs \cup {Size} /\ e \in Int
         /\ used[e] = 1 /\ e <= Size /\ p \in Int
         /\ b # p => b < p /\ used[b] = 0 /\ next[b] = p
         /\ b = p /\ p # 0 => used[prev[p]] = 1
         /\ e # next[p] => /\ next[p] \in hdrs /\ used[next[p]] = 0 /\ p < next[p] /\ next[p] < e
                           /\ next[next[p]] = e
         /\ \A x \in hdrs : x \in Int /\ (x <= b \/ e <= x \/ x = p \/ (x = next[p] /\ e # next[p]))
         /\ b + H + MinSize <= e
<1> USE Constants
<1>1. /\ p \in Int /\ p < Size /\ next[p] \in Int /\ p + H + MinSize <= next[p]
      /\ next[p] \in hdrs \cup {Size} /\ next[p] <= Size
      /\ \A x \in hdrs : x \in Int /\ (x <= p \/ next[p] <= x)
  BY Headers
<1>2. /\ b \in hdrs /\ b \in Int /\ b <= p
      /\ b # p => b < p /\ used[b] = 0 /\ next[b] = p
      /\ b = p /\ p # 0 => used[prev[p]] = 1
      /\ \A x \in hdrs : x <= b \/ p <= x
  <2>1. CASE prev[p] # p /\ used[prev[p]] = 0
    <3>1. b = prev[p] /\ p # 0
      BY <2>1, Headers DEF PlugBackward
    <3>2. b \in hdrs /\ next[b] = p
      BY <3>1, Headers
    <3>3. b \in Int /\ b < p /\ \A x \in hdrs : x <= b \/ p <= x
      BY <3>2, Headers
    <3> QED
      BY <2>1, <3>1, <3>2, <3>3
  <2>2. CASE ~(prev[p] # p /\ used[prev[p]] = 0)
    <3>1. b = p
      BY <2>2 DEF PlugBackward
    <3>2. ASSUME p # 0 PROVE used[prev[p]] = 1
      <4> DEFINE y == prev[p]
      <4>1. y \in hdrs /\ next[y] = p
        BY <3>2, Headers
      <4> HIDE DEF y
      <4>2. y # p /\ used[y] \in {0, 1}
        BY <4>1, Headers
      <4> QED
        BY <2>2, <4>2 DEF y
    <3>3. \A x \in hdrs : x <= p \/ p <= x
      BY <1>1
    <3> QED
      BY <3>1, <3>2, <3>3, <1>1
  <2> QED
    BY <2>1, <2>2
<1>3. /\ e \in hdrs \cup {Size} /\ e \in Int /\ e <= Size /\ used[e] = 1 /\ next[p] <= e
      /\ e # next[p] => /\ next[p] \in hdrs /\ used[next[p]] = 0 /\ p < next[p] /\ next[p] < e
                        /\ next[next[p]] = e
      /\ \A x \in hdrs : x <= p \/ e <= x \/ (x = next[p] /\ e # next[p])
  <2> DEFINE nx == next[p]
  <2>1. CASE nx # Size /\ used[nx] = 0
    <3>1. e = next[nx]
      BY <2>1 DEF PlugForward
    <3>2. nx \in hdrs /\ nx \in Int
      BY <2>1, <1>1
    <3> HIDE DEF nx
    <3>3. /\ e \in hdrs \cup {Size} /\ e \in Int /\ e <= Size /\ used[e] = 1 /\ nx < e
          /\ \A x \in hdrs : x <= nx \/ e <= x
      BY <2>1, <3>1, <3>2, Headers
    <3>4. nx = next[p]
      BY DEF nx
    <3>5. \A x \in hdrs : x <= p \/ e <= x \/ x = nx
      BY <1>1, <3>2, <3>3, <3>4
    <3> QED
      BY <2>1, <3>1, <3>2, <3>3, <3>4, <3>5, <1>1
  <2>2. CASE ~(nx # Size /\ used[nx] = 0)
    <3>1. e = nx
      BY <2>2 DEF PlugForward
    <3>2. used[nx] = 1
      BY <2>2, <1>1, Headers
    <3> QED
      BY <3>1, <3>2, <1>1
  <2> QED
    BY <2>1, <2>2
<1>4. p < e /\ b + H + MinSize <= e
  BY <1>1, <1>2, <1>3
<1>5. \A x \in hdrs : x <= b \/ e <= x \/ x = p \/ (x = next[p] /\ e # next[p])
  BY <1>1, <1>2, <1>3
<1> QED
  BY <1>1, <1>2, <1>3, <1>4, <1>5

LEMMA FreeIInv ==
  ASSUME IInv, NEW p \in Owned, mem_free(p)
  PROVE  IInv'
<1> USE Constants
<1> DEFINE b == PlugBackward(p)
           e == PlugForward(p)
<1>1. /\ p \in hdrs /\ used[p] = 1 /\ p \in Offsets
  BY Headers DEF Owned
<1>2. /\ used' = [used EXCEPT ![p] = 0]
      /\ next' = [next EXCEPT ![p] = e, ![b] = e]
      /\ prev' = IF e = Size THEN prev ELSE [prev EXCEPT ![e] = b]
      /\ hdrs' = hdrs \ ((IF e # next[p] THEN {next[p]} ELSE {}) \cup (IF b # p THEN {p} ELSE {}))
      /\ len' = [len EXCEPT ![p] = 0]
      /\ aborted' = aborted
  BY DEF mem_free
<1>3. /\ b \in hdrs /\ b \in Int /\ b <= p /\ p < e /\ e \in hdrs \cup {Size} /\ e \in Int
      /\ used[e] = 1 /\ e <= Size /\ p \in Int
      /\ b # p => b < p /\ used[b] = 0 /\ next[b] = p
      /\ b = p /\ p # 0 => used[prev[p]] = 1
      /\ e # next[p] => /\ next[p] \in hdrs /\ used[next[p]] = 0 /\ p < next[p] /\ next[p] < e
                        /\ next[next[p]] = e
      /\ \A x \in hdrs : x \in Int /\ (x <= b \/ e <= x \/ x = p \/ (x = next[p] /\ e # next[p]))
      /\ b + H + MinSize <= e
  BY <1>1, Plugged
<1>lf. lfree' = IF p < lfree THEN p ELSE lfree
  <2>1. lfree' = LfreeAfterFree(p) /\ lfree \in Int /\ next[p] \in Int /\ p < next[p]
    <3>1. lfree' = LfreeAfterFree(p)
      BY DEF mem_free
    <3>2. lfree \in hdrs \cup {Size} /\ Size \in Int
      BY Types
    <3>3. next[p] \in Int /\ p < next[p]
      BY <1>1, Header
    <3> QED
      BY <1>3, <3>1, <3>2, <3>3
  <2>2. CASE p < lfree
    <3>1. b = p
      BY <2>1, <2>2, <1>3, Headers
    <3> QED
      BY <2>1, <2>2, <3>1, <1>3 DEF LfreeAfterFree
  <2>3. CASE ~(p < lfree)
    <3>1. lfree # p
      BY <1>1, <1>3, Headers DEF IInv, LfreeLowest
    <3> QED
      BY <2>1, <2>3, <3>1, <1>3 DEF LfreeAfterFree
  <2> QED
    BY <2>2, <2>3
<1> HIDE DEF b, e
<1>o. b \in Offsets /\ e \in Offsets /\ Size \in Offsets /\ Size # p
  BY <1>3, Headers DEF Offsets
<1>4. hdrs' = {x \in hdrs : x <= b \/ e <= x} /\ b \in hdrs' /\ (b # p => p \notin hdrs')
  <2>1. ASSUME NEW x \in hdrs
        PROVE  (x <= b \/ e <= x) <=> ~((x = next[p] /\ e # next[p]) \/ (x = p /\ b # p))
    BY <1>3
  <2>2. hdrs' = {x \in hdrs : ~((x = next[p] /\ e # next[p]) \/ (x = p /\ b # p))}
    BY <1>2
  <2>3. hdrs' = {x \in hdrs : x <= b \/ e <= x}
    BY <2>1, <2>2
  <2> QED
    BY <2>3, <1>3
<1>5. /\ next'[b] = e /\ \A x \in Offsets : x # p /\ x # b => next'[x] = next[x]
      /\ next' \in [Offsets -> Offsets]
  BY <1>1, <1>2, <1>o, Types
<1>6. /\ e # Size => prev'[e] = b
      /\ \A x \in Offsets : (x = e => e = Size) => prev'[x] = prev[x]
      /\ prev' \in [Offsets -> Offsets]
  BY <1>2, <1>o, Types
<1>7. /\ used'[p] = 0 /\ \A x \in Offsets : x # p => used'[x] = used[x]
      /\ used' \in [Offsets -> {0, 1}]
  BY <1>1, <1>2, Types
<1>8. /\ len'[p] = 0 /\ \A x \in Offsets : x # p => len'[x] = len[x]
      /\ len' \in [Offsets -> Nat]
  BY <1>1, <1>2, Types
<1>9. used'[b] = 0 /\ len'[b] = 0 /\ used'[e] = 1
  <2>1. used'[b] = 0 /\ len'[b] = 0
    <3>1. CASE b = p
      BY <3>1, <1>7, <1>8
    <3>2. CASE b # p
      BY <3>2, <1>3, <1>o, <1>7, <1>8, Headers
    <3> QED
      BY <3>1, <3>2
  <2>2. e # p
    BY <1>3
  <2> QED
    BY <2>1, <2>2, <1>3, <1>o, <1>7
<1>k. ASSUME NEW x \in hdrs', x # b
      PROVE  /\ x \in hdrs /\ x \in Offsets /\ x \in Int /\ x # p
             /\ next'[x] = next[x] /\ used'[x] = used[x] /\ len'[x] = len[x]
             /\ next[x] \in Int /\ x + H + MinSize <= next[x]
             /\ next[x] <= b \/ e <= x
  <2>1. /\ x \in hdrs /\ x \in Offsets /\ x \in Int /\ next[x] \in Int
        /\ x + H + MinSize <= next[x] /\ (b <= x \/ next[x] <= b) /\ (x <= b \/ e <= x)
    BY <1>3, <1>4, Headers
  <2>2. x # p
    BY <1>k, <1>4
  <2>3. next'[x] = next[x] /\ used'[x] = used[x] /\ len'[x] = len[x]
    BY <1>k, <2>1, <2>2, <1>5, <1>7, <1>8
  <2>4. next[x] <= b \/ e <= x
    BY <1>k, <2>1, <1>3
  <2> QED
    BY <2>1, <2>2, <2>3, <2>4
<1>10. LfreeLowest' /\ lfree' \in hdrs' \cup {Size}
  <2>1. /\ lfree \in hdrs \cup {Size} /\ (lfree # Size => used[lfree] = 0)
    BY Types DEF IInv, LfreeLowest
  <2>2. lfree \in Int /\ lfree # p
    BY <2>1, <1>1, <1>3, <1>o
  <2>3. CASE p < lfree
    <3>1. b = p
      BY <2>2, <2>3, <1>3, Headers
    <3>2. lfree' = b
      BY <3>1, <2>3, <1>lf
    <3>3. ASSUME NEW x \in hdrs', used'[x] = 0 PROVE b <= x
      <4>1. CASE x = b
        BY <4>1, <1>3
      <4>2. CASE x # b
        <5>1. x \in Int /\ used[x] = 0 /\ x \in hdrs
          BY <3>3, <4>2, <1>k
        <5>2. lfree <= x
          BY <5>1, Headers
        <5> QED
          BY <5>1, <5>2, <2>2, <2>3, <3>1, <1>3
      <4> QED
        BY <4>1, <4>2
    <3> QED
      BY <3>2, <3>3, <1>4, <1>9 DEF LfreeLowest
  <2>4. CASE ~(p < lfree)
    <3>1. lfree' = lfree /\ lfree < p /\ lfree \in hdrs /\ lfree \in Offsets /\ used[lfree] = 0
      BY <2>1, <2>2, <2>4, <1>lf, <1>3, <1>1, Headers
    <3>2. lfree \in hdrs' /\ used'[lfree] = 0
      <4>1. lfree <= b
        <5>1. lfree <= b \/ e <= lfree \/ lfree = p \/ (lfree = next[p] /\ e # next[p])
          BY <3>1, <1>3
        <5> QED
          BY <5>1, <3>1, <2>2, <1>3
      <4> QED
        BY <4>1, <3>1, <2>2, <1>4, <1>7
    <3>3. ASSUME NEW x \in hdrs', used'[x] = 0 PROVE lfree <= x
      <4>1. CASE x = b
        <5>1. lfree \in hdrs' /\ (lfree <= b \/ e <= lfree)
          BY <3>2, <1>4
        <5> QED
          BY <4>1, <5>1, <3>1, <2>2, <1>3
      <4>2. CASE x # b
        <5>1. used[x] = 0 /\ x \in hdrs
          BY <3>3, <4>2, <1>k
        <5> QED
          BY <5>1, Headers
      <4> QED
        BY <4>1, <4>2
    <3> QED
      BY <3>1, <3>2, <3>3 DEF LfreeLowest
  <2> QED
    BY <2>3, <2>4
<1>11. TypeOK'
  <2>1. hdrs' \subseteq 0 .. Size - 1
    BY <1>4, Types
  <2>2. aborted' \in BOOLEAN
    BY <1>2, Types, Zenon
  <2> QED
    BY <2>1, <2>2, <1>5, <1>6, <1>7, <1>8, <1>10, Zenon DEF TypeOK, Offsets
<1>12. Partitioned'
  <2>1. 0 \in hdrs' /\ prev'[0] = 0
    <3>1. 0 \in hdrs /\ prev[0] = 0 /\ 0 <= b /\ 0 \in Offsets /\ e > 0
      BY <1>3, Headers
    <3> QED
      BY <3>1, <1>4, <1>6
  <2>2. ASSUME NEW x \in hdrs'
        PROVE  next'[x] \in hdrs' \cup {Size} /\ x + H + MinSize <= next'[x]
    <3>1. CASE x = b
      <4>1. e \in hdrs' \cup {Size}
        BY <1>3, <1>4
      <4> QED
        BY <3>1, <4>1, <1>3, <1>5
    <3>2. CASE x # b
      <4>1. next[x] \in hdrs \cup {Size} /\ (next[x] <= b \/ e <= next[x])
        BY <3>2, <1>k, <1>3, Headers
      <4> QED
        BY <3>2, <4>1, <1>k, <1>4
    <3> QED
      BY <3>1, <3>2
  <2>3. ASSUME NEW x \in hdrs', NEW y \in hdrs'
        PROVE  y <= x \/ next'[x] <= y
    <3>1. CASE x = b
      BY <3>1, <1>4, <1>5
    <3>2. CASE x # b
      <4>1. x \in hdrs /\ y \in hdrs /\ next'[x] = next[x]
        BY <3>2, <1>k, <1>4
      <4> QED
        BY <4>1, Headers
    <3> QED
      BY <3>1, <3>2
  <2>4. ASSUME NEW x \in hdrs', next'[x] # Size
        PROVE  prev'[next'[x]] = x
    <3>1. CASE x = b
      BY <2>4, <3>1, <1>5, <1>6
    <3>2. CASE x # b
      <4>1. next'[x] = next[x] /\ x \in hdrs /\ prev[next[x]] = x /\ next[x] \in Offsets
        BY <3>2, <2>4, <1>k, Headers
      <4>2. ASSUME next[x] = e PROVE FALSE
        BY <4>2, <3>2, <1>k, <1>3
      <4> QED
        BY <4>1, <4>2, <1>6
    <3> QED
      BY <3>1, <3>2
  <2> QED
    BY <2>1, <2>2, <2>3, <2>4 DEF Partitioned
<1>13. Backlinked'
  <2> SUFFICES ASSUME NEW x \in hdrs', x # 0
               PROVE  prev'[x] \in hdrs' /\ next'[prev'[x]] = x
    BY DEF Backlinked
  <2>1. CASE x = e
    <3>1. x # Size
      BY <1>4, Headers
    <3> QED
      BY <2>1, <3>1, <1>4, <1>5, <1>6
  <2>2. CASE x # e
    <3>1. /\ x \in hdrs /\ x \in Int /\ prev'[x] = prev[x] /\ prev[x] \in hdrs /\ next[prev[x]] = x
          /\ x <= b \/ e <= x
      BY <2>2, <1>4, <1>6, Headers
    <3> DEFINE y == prev[x]
    <3>2. y \in hdrs /\ next[y] = x
      BY <3>1
    <3> HIDE DEF y
    <3>3. y \in Int /\ y < x /\ y \in Offsets /\ (e \in hdrs => e <= y \/ x <= e) /\ x < Size
      <4>1. y \in Int /\ y \in Offsets /\ x < Size
        BY <3>1, <3>2, Headers
      <4>2. y + H + MinSize <= next[y] /\ \A z \in hdrs : z <= y \/ next[y] <= z
        BY <3>2, Headers
      <4>3. y < x
        <5>1. y + H + MinSize <= x /\ x \in Int /\ y \in Int
          BY <3>1, <3>2, <4>1, <4>2
        <5> QED
          BY <5>1
      <4>4. e \in hdrs => e <= y \/ x <= e
        BY <3>2, <4>2
      <4> QED
        BY <4>1, <4>3, <4>4
    <3>4. (y <= b \/ e <= y) /\ y # b /\ y # p
      <4>1. CASE x <= b
        BY <4>1, <3>1, <3>3, <1>3
      <4>2. CASE e < x
        <5>1. e \in hdrs
          BY <4>2, <3>1, <3>3, <1>3
        <5> QED
          BY <4>2, <5>1, <3>1, <3>3, <1>3
      <4> QED
        BY <4>1, <4>2, <2>2, <3>1, <1>3
    <3>5. y \in hdrs' /\ next'[y] = x
      BY <3>2, <3>3, <3>4, <1>4, <1>5
    <3> QED
      BY <3>1, <3>5 DEF y
  <2> QED
    BY <2>1, <2>2
<1>14. NoFreeNeighbours'
  <2> SUFFICES ASSUME NEW x \in hdrs', used'[x] = 0, next'[x] # Size
               PROVE  used'[next'[x]] = 1
    BY DEF NoFreeNeighbours
  <2>1. CASE x = b
    BY <2>1, <1>5, <1>9
  <2>2. CASE x # b
    <3>1. x \in hdrs /\ used[x] = 0 /\ next'[x] = next[x]
      BY <2>2, <1>k
    <3>2. used[next[x]] = 1 /\ next[x] \in Offsets /\ prev[next[x]] = x /\ next[x] # 0
      BY <3>1, Headers
    <3>3. ASSUME next[x] = p PROVE FALSE
      <4>1. prev[p] = x /\ p # 0
        BY <3>2, <3>3
      <4>2. b # p
        BY <4>1, <3>1, <1>3
      <4>3. b \in hdrs /\ next[b] = p /\ p # Size
        BY <4>2, <1>3, <1>o
      <4>4. prev[p] = b
        BY <4>3, Headers
      <4> QED
        BY <4>1, <4>4, <2>2
    <3> QED
      BY <3>1, <3>2, <3>3, <1>7
  <2> QED
    BY <2>1, <2>2
<1>15. BlocksFit'
  <2> SUFFICES ASSUME NEW x \in hdrs'
               PROVE  /\ used'[x] = 1 <=> len'[x] > 0
                      /\ used'[x] = 1 => /\ len'[x] <= next'[x] - (x + H)
                                         /\ next'[x] - (x + H) < AtLeastMin(len'[x]) + H + MinSize
    BY DEF BlocksFit, Room, AtLeastMin
  <2>1. CASE x = b
    BY <2>1, <1>9
  <2>2. CASE x # b
    <3>1. x \in hdrs /\ next'[x] = next[x] /\ used'[x] = used[x] /\ len'[x] = len[x]
      BY <2>2, <1>k
    <3> QED
      BY <3>1, Headers
  <2> QED
    BY <2>1, <2>2
<1>16. used'[Size] = 1 /\ \A x \in Offsets : x \notin hdrs' => len'[x] = 0
  <2>1. used'[Size] = 1
    BY <1>o, <1>7, Headers
  <2>2. ASSUME NEW x \in Offsets, x \notin hdrs' PROVE len'[x] = 0
    <3>1. CASE x = p
      BY <3>1, <1>8
    <3>2. CASE x # p /\ x \notin hdrs
      BY <3>2, <1>8 DEF IInv
    <3>3. CASE x # p /\ x \in hdrs
      <4>1. x = next[p] /\ e # next[p]
        BY <2>2, <3>3, <1>3, <1>4
      <4>2. used[x] = 0 /\ len[x] \in Nat
        BY <3>3, <4>1, <1>3, Headers
      <4> QED
        BY <3>3, <4>2, <1>8, Headers
    <3> QED
      BY <3>1, <3>2, <3>3
  <2> QED
    BY <2>1, <2>2
<1> QED
  BY <1>10, <1>11, <1>12, <1>13, <1>14, <1>15, <1>16 DEF IInv

LEMMA NextIInv == IInv /\ [Next]_vars => IInv'
<1> SUFFICES ASSUME IInv, [Next]_vars PROVE IInv'
  OBVIOUS
<1>1. CASE UNCHANGED vars
  BY <1>1 DEF IInv, TypeOK, Partitioned, Backlinked, NoFreeNeighbours, LfreeLowest, BlocksFit,
              vars, Room, AtLeastMin
<1>2. ASSUME NEW n \in Sizes, mem_malloc(n) PROVE IInv'
  BY <1>2, MallocIInv
<1>3. ASSUME NEW p \in Owned, mem_free(p) PROVE IInv'
  BY <1>3, FreeIInv
<1>4. ASSUME NEW p \in Owned, NEW n \in Sizes, mem_trim(p, n) PROVE IInv'
  BY <1>4, TrimIInv
<1> QED
  BY <1>1, <1>2, <1>3, <1>4 DEF Next

LEMMA SpecIInv == Spec => []IInv
  BY InitIInv, NextIInv, PTL DEF Spec

\* The types hold: in particular lfree is a block or ram_end, never a header
\* that was joined with another.
THEOREM TypeCorrect == Spec => []TypeOK
<1>1. IInv => TypeOK
  BY DEF IInv
<1> QED
  BY <1>1, SpecIInv, PTL

\* Whatever is allocated, freed and trimmed, the blocks partition the heap.
THEOREM HeapPartitioned == Spec => []Partitioned
<1>1. IInv => Partitioned
  BY DEF IInv
<1> QED
  BY <1>1, SpecIInv, PTL

\* plug_holes leaves no two free blocks in a row.
THEOREM FreeJoined == Spec => []NoFreeNeighbours
<1>1. IInv => NoFreeNeighbours
  BY DEF IInv
<1> QED
  BY <1>1, SpecIInv, PTL

\* lfree is never above a free block: no allocation misses one.
THEOREM LfreeCorrect == Spec => []LfreeLowest
<1>1. IInv => LfreeLowest
  BY DEF IInv
<1> QED
  BY <1>1, SpecIInv, PTL

\* Every owner has the room it asked for, and little more.
THEOREM OwnersFit == Spec => []BlocksFit
<1>1. IInv => BlocksFit
  BY DEF IInv
<1> QED
  BY <1>1, SpecIInv, PTL

\* The heap is whole again once everything was freed.
THEOREM HeapComesBack == Spec => []AllBack
<1>1. IInv => AllBack
  <2> SUFFICES ASSUME IInv, Owned = {}, next[0] # Size PROVE FALSE
    BY DEF AllBack
  <2> USE Constants
  <2>1. \A x \in hdrs : used[x] = 0
    BY Headers DEF Owned
  <2>2. 0 \in hdrs /\ next[0] \in hdrs /\ used[next[0]] = 1
    BY <2>1, Headers
  <2> QED
    BY <2>1, <2>2
<1> QED
  BY <1>1, SpecIInv, PTL

\* mem_free leaves the heap joined up, lfree at its lowest free block, and one
\* free block once everything has been given back.
THEOREM FreeIsSafe == Spec => []FreeSafe
BY TypeCorrect, FreeJoined, LfreeCorrect, HeapComesBack, PTL DEF FreeSafe
=============================================================================
